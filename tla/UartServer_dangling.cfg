\* A client closes while its data waits for the UART.
SPECIFICATION Spec
CONSTANTS
    Clients = {a, b}
    Pcbs = {p1}
    MAXIMUM_POOL_FOR_DATA_FROM_ETH = 2
    ACK_FRAME_LEN = 4
    TCP_SND_BUF = 8
    MaxConns = 3
    MaxSegs = 2
    MaxReplies = 2
    NULL = NULL
INVARIANTS
    PcbNotUsedAfterClose
CHECK_DEADLOCK FALSE
