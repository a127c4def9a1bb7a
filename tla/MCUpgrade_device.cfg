\* Two erase groups, two IVs, frames of every length class, every fault,
\* interrupted and restarted sessions.
SPECIFICATION Spec
CONSTANTS
    MAX_SEQ_NUM = 3
    PAGES_TO_ERASE = 4
    Data = {d1}
    IVs = {v1, v2}
    BuiltinIV = v1
    NoIV = NoIV
    LENS <- EdgeLens
    FAULTS = {"none", "erase", "program", "silent"}
    Garbled = Garbled
    Factory = Factory
    Erased = Erased
    Torn = Torn
    Mixed = Mixed
CONSTRAINTS FactoryRuns FewDamaged
INVARIANTS
    CrcOfFile
    NoMixed
    TypeOK
PROPERTIES
    ImplementsStream
    RunningBankIntact
