\* Three clients that take turns on one pcb, two pool slots, two replies.
SPECIFICATION FairSpec
CONSTANTS
    Clients = {a, b, c}
    Pcbs = {p1}
    MAXIMUM_POOL_FOR_DATA_FROM_ETH = 2
    ACK_FRAME_LEN = 4
    TCP_SND_BUF = 8
    MaxConns = 3
    MaxSegs = 2
    MaxReplies = 2
    NULL = NULL
INVARIANTS
    TypeOK
    UartInOrder
    DmaReadsLive
    RepliesInOrder
PROPERTIES
    UartDrains
    RepliesLeave
CHECK_DEADLOCK FALSE
