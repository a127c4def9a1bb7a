\* The sizes of conf_eth.h and lwipopts.h: the pool is smaller than both rings.
SPECIFICATION FairSpec
CONSTANTS
    NETIF_RX_BUFFERS = 3
    NETIF_TX_BUFFERS = 3
    PBUF_POOL_SIZE = 5
    RAM_PACKETS = 0
    RXQ_FRAMES = 6
    TXQ_FRAMES = 1
    Window = 0
    InPlace = TRUE
    BadFrames = FALSE
    ResendQueued = FALSE
PROPERTIES
    TxSent
