\* One tap on a quiet network, every flash fault.
SPECIFICATION FairSpec
CONSTANTS
    MAX_SEQ_NUM = 3
    PAGES_TO_ERASE = 8
    Data = {0, 1, 2}
    v0 = v0
    v1 = v1
    v2 = v2
    v3 = v3
    IVs = {v0, v1, v2}
    BuiltinIV = v0
    NoIV = NoIV
    LENS = {1024}
    FAULTS = {"none", "erase", "program", "silent"}
    Garbled = Garbled
    Factory = Factory
    Erased = Erased
    Torn = Torn
    Mixed = Mixed
    Files <- ShortFiles
    IVSeq <- OneTap
    Calm = TRUE
    MaxChooses = 1
    MaxStops = 0
    PowerFails = FALSE
    Patient = TRUE
PROPERTIES
    UpdateEnds
CHECK_DEADLOCK FALSE
