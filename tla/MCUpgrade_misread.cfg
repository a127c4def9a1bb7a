\* GPNVM2 cannot always be read.
SPECIFICATION Spec
CONSTANTS
    MAX_SEQ_NUM = 1
    PAGES_TO_ERASE = 4
    Data = {d1}
    IVs = {v1}
    BuiltinIV = v1
    NoIV = NoIV
    LENS = {512, 1024}
    FAULTS = {"none", "misread erase", "misread program"}
    Garbled = Garbled
    Factory = Factory
    Erased = Erased
    Torn = Torn
    Mixed = Mixed
PROPERTY
    RunningBankIntact
