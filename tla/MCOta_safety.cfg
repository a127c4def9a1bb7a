\* Three taps, each in an application as it was started, on files that change at any
\* time; replies that overtake the handler, coalesced segments and replies, early
\* timeouts, flash faults, failing reads of GPNVM2, loss of power, stop, resume and relaunch.
SPECIFICATION SysSpec
CONSTANTS
    MAX_SEQ_NUM = 3
    PAGES_TO_ERASE = 8
    Data = {0, 1, 2}
    v0 = v0
    v1 = v1
    v2 = v2
    v3 = v3
    IVs = {v0, v1, v2, v3}
    BuiltinIV = v0
    NoIV = NoIV
    LENS = {1024}
    FAULTS = {"none", "program", "misread program"}
    Garbled = Garbled
    Factory = Factory
    Erased = Erased
    Torn = Torn
    Mixed = Mixed
    Files <- ShortFiles
    IVSeq <- ThreeTaps
    Calm = FALSE
    MaxChooses = 3
    MaxStops = 2
    PowerFails = TRUE
    Patient = TRUE
INVARIANTS
    BootsWholeFile
    UpdateOKIsTrue
PROPERTIES
    FirstBankIntact
CHECK_DEADLOCK FALSE
