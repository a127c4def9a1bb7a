\* Two taps on two files of one chunk, without a restart of the application.
SPECIFICATION SysSpec
CONSTANTS
    MAX_SEQ_NUM = 3
    PAGES_TO_ERASE = 8
    Data = {0, 1, 2}
    v0 = v0
    v1 = v1
    v2 = v2
    v3 = v3
    IVs = {v0, v1, v2, v3}
    BuiltinIV = v0
    NoIV = NoIV
    LENS = {1024}
    FAULTS = {"none"}
    Garbled = Garbled
    Factory = Factory
    Erased = Erased
    Torn = Torn
    Mixed = Mixed
    Files <- OneChunk
    IVSeq <- TwoTaps
    Calm = FALSE
    MaxChooses = 2
    MaxStops = 0
    PowerFails = FALSE
    Patient = FALSE
INVARIANTS
    BootsWholeFile
CHECK_DEADLOCK FALSE
