\* A pool that covers both rings, frames with and without errors.
SPECIFICATION FairSpec
CONSTANTS
    NETIF_RX_BUFFERS = 2
    NETIF_TX_BUFFERS = 1
    PBUF_POOL_SIZE = 3
    RAM_PACKETS = 1
    RXQ_FRAMES = 2
    TXQ_FRAMES = 1
    Window = 1
    InPlace = TRUE
    BadFrames = TRUE
    ResendQueued = FALSE
INVARIANTS
    TypeOK
    RefCounts
PROPERTIES
    RxInOrder
    TxInOrder
    RxDelivered
    TxGoesOn
