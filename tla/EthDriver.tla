----------------------------- MODULE EthDriver -----------------------------
(***************************************************************************)
(* The Ethernet driver: sam_spi_ksz8851snl.c between lwIP and the KSZ8851  *)
(* controller, which is reached over SPI.                                  *)
(*                                                                         *)
(* The main loop calls ethernetif_input, which takes one step of the       *)
(* driver's state machine (ksz8851snl_update) and passes at most one frame *)
(* to lwIP.  Frames move by DMA while the loop goes on; SPI_Handler ends a *)
(* transfer and INTN_Handler notes the falling edge of the controller's    *)
(* interrupt line, both between any two accesses of the loop.              *)
(*                                                                         *)
(* Abstractions.  A pbuf is a number: 1 .. PBUF_POOL_SIZE for the pool, the *)
(* numbers above for packets lwIP builds itself, chains of two pbufs.  A   *)
(* frame is its distance from the next one due: received frames that lwIP  *)
(* has not seen are 1, 2, ..., frames accepted for sending and not yet in  *)
(* the controller are -1, -2, ...; 0 is anything else.                     *)
(***************************************************************************)
EXTENDS Integers, Sequences, FiniteSets

CONSTANTS
    NETIF_RX_BUFFERS, NETIF_TX_BUFFERS, PBUF_POOL_SIZE,
    RAM_PACKETS,    \* packets lwIP may have built at a time
    RXQ_FRAMES,     \* frames the controller's receive queue holds
    TXQ_FRAMES,     \* frames its transmit queue holds
    Window,         \* packets lwIP sends without hearing from the network
    InPlace,        \* lwIP answers some frames in their own pbuf (ARP, ICMP echo)
    BadFrames,      \* frames with a wrong checksum arrive
    ResendQueued    \* TCP's timer may run out for a segment still in the send ring

ASSUME SizeAssumption ==
    /\ {NETIF_RX_BUFFERS, NETIF_TX_BUFFERS, RXQ_FRAMES, TXQ_FRAMES} \subseteq Nat \ {0}
    /\ PBUF_POOL_SIZE \in Nat /\ PBUF_POOL_SIZE >= NETIF_RX_BUFFERS
    /\ RAM_PACKETS \in Nat /\ Window \in Nat

RxSlots == 0 .. NETIF_RX_BUFFERS - 1
TxSlots == 0 .. NETIF_TX_BUFFERS - 1
PoolPbufs == 1 .. PBUF_POOL_SIZE
RamPbufs == PBUF_POOL_SIZE + 1 .. PBUF_POOL_SIZE + RAM_PACKETS
Pbufs == PoolPbufs \cup RamPbufs
NULL == 0

\* pbuf_clen: the length of the chain that starts at p.
ChainLen(p) == IF p \in RamPbufs THEN 2 ELSE 1

VARIABLES
    rxq, int_rx, int_mask, txq,     \* the controller: queues, INT_RX flag and mask
    rx_desc, rx_pbuf, us_rx_head, us_rx_tail,
    tx_desc, tx_pbuf, us_tx_head, us_tx_tail,
    pending_frame, g_intn_flag, g_spi_pdc_flag,
    fifo,           \* what the DMA has written of the frame being sent, pbuf by pbuf
    ref, data,      \* reference count and content of each pbuf
    held,           \* pbufs lwIP or the application keeps a reference to
    pc,             \* where in ethernetif_input the main loop is
    inflight,       \* good frames received and not yet passed to lwIP
    owed,           \* frames accepted for sending and not yet in the controller
    credit          \* packets lwIP may still send before it hears from the network

chip == <<rxq, int_rx, int_mask, txq>>
rxRing == <<rx_desc, rx_pbuf, us_rx_head, us_rx_tail>>
txRing == <<tx_desc, tx_pbuf, us_tx_head, us_tx_tail>>
dma == <<g_spi_pdc_flag, fifo>>
memory == <<ref, data, held>>
vars == <<chip, rxRing, txRing, pending_frame, g_intn_flag, dma, memory, pc,
          inflight, owed, credit>>

TypeOK ==
    /\ rxq \in Seq(0 .. RXQ_FRAMES + NETIF_RX_BUFFERS) /\ Len(rxq) <= RXQ_FRAMES
    /\ int_rx \in BOOLEAN /\ int_mask \in BOOLEAN /\ txq \in 0 .. TXQ_FRAMES
    /\ rx_desc \in [RxSlots -> {0, 1}] /\ rx_pbuf \in [RxSlots -> PoolPbufs \cup {NULL}]
    /\ tx_desc \in [TxSlots -> {0, 1}] /\ tx_pbuf \in [TxSlots -> Pbufs \cup {NULL}]
    /\ us_rx_head \in RxSlots /\ us_rx_tail \in RxSlots
    /\ us_tx_head \in TxSlots /\ us_tx_tail \in TxSlots
    /\ pending_frame \in 0 .. RXQ_FRAMES
    /\ g_intn_flag \in BOOLEAN
    /\ g_spi_pdc_flag \in {"IDLE", "RX_START", "RX_COMPLETE", "TX_START", "TX_COMPLETE"}
    /\ fifo \in Seq(Int) /\ Len(fifo) <= 2
    /\ ref \in [Pbufs -> Nat] /\ data \in [Pbufs -> Int]
    /\ held \subseteq Pbufs
    /\ pc \in {"update", "status", "clear", "count", "slot", "drop", "input"}
    /\ inflight \in 0 .. RXQ_FRAMES + NETIF_RX_BUFFERS
    /\ owed \in 0 .. NETIF_TX_BUFFERS /\ credit \in 0 .. Window

\* ksz8851snl_low_level_init: the receive ring is full, the interrupt enabled.
Init ==
    /\ rxq = <<>> /\ int_rx = FALSE /\ int_mask = TRUE /\ txq = 0
    /\ rx_desc = [i \in RxSlots |-> 0] /\ rx_pbuf = [i \in RxSlots |-> i + 1]
    /\ tx_desc = [i \in TxSlots |-> 0] /\ tx_pbuf = [i \in TxSlots |-> NULL]
    /\ us_rx_head = 0 /\ us_rx_tail = 0 /\ us_tx_head = 0 /\ us_tx_tail = 0
    /\ pending_frame = 0 /\ g_intn_flag = FALSE
    /\ g_spi_pdc_flag = "IDLE" /\ fifo = <<>>
    /\ ref = [p \in Pbufs |-> IF p \in 1 .. NETIF_RX_BUFFERS THEN 1 ELSE 0]
    /\ data = [p \in Pbufs |-> 0] /\ held = {}
    /\ pc = "update" /\ inflight = 0 /\ owed = 0 /\ credit = Window
-----------------------------------------------------------------------------
(***************************************************************************)
(* The controller and the interrupts.                                      *)
(***************************************************************************)

\* INTN is low while INT_RX is set and enabled; on the falling edge
\* INTN_Handler runs.
INTN_Handler(rx, mask) ==
    /\ int_rx' = rx
    /\ int_mask' = mask
    /\ g_intn_flag' = (g_intn_flag \/ (rx /\ mask /\ ~(int_rx /\ int_mask)))

FrameArrives(good) ==
    /\ Len(rxq) < RXQ_FRAMES
    /\ good \/ BadFrames
    /\ rxq' = Append(rxq, IF good THEN inflight + 1 ELSE 0)
    /\ inflight' = inflight + (IF good THEN 1 ELSE 0)
    /\ INTN_Handler(TRUE, int_mask)
    /\ UNCHANGED <<txq, rxRing, txRing, pending_frame, dma, memory, pc, owed, credit>>

FrameLeaves ==
    /\ txq > 0
    /\ txq' = txq - 1
    /\ UNCHANGED <<rxq, int_rx, int_mask, rxRing, txRing, pending_frame, g_intn_flag,
                   dma, memory, pc, inflight, owed, credit>>

\* The end of a receive transfer; the controller drops the frame it has read.
SPI_Handler_RX ==
    /\ g_spi_pdc_flag = "RX_START"
    /\ g_spi_pdc_flag' = "RX_COMPLETE"
    /\ data' = [data EXCEPT ![rx_pbuf[us_rx_head]] = Head(rxq)]
    /\ rxq' = Tail(rxq)
    /\ UNCHANGED <<int_rx, int_mask, txq, rxRing, txRing, pending_frame, g_intn_flag,
                   fifo, ref, held, pc, inflight, owed, credit>>

\* Mutant: the rest of a chain is forgotten.
FirstPbufOnly ==
    /\ g_spi_pdc_flag = "TX_START"
    /\ fifo' = Append(fifo, data[tx_pbuf[us_tx_tail]])
    /\ g_spi_pdc_flag' = "TX_COMPLETE"
    /\ UNCHANGED <<chip, rxRing, txRing, pending_frame, g_intn_flag,
                   memory, pc, inflight, owed, credit>>

\* One pbuf of the chain has been written; the next one is started, if any.
SPI_Handler_TX ==
    /\ g_spi_pdc_flag = "TX_START"
    /\ fifo' = Append(fifo, data[tx_pbuf[us_tx_tail]])
    /\ g_spi_pdc_flag' = IF Len(fifo') < ChainLen(tx_pbuf[us_tx_tail])
                         THEN "TX_START" ELSE "TX_COMPLETE"
    /\ UNCHANGED <<chip, rxRing, txRing, pending_frame, g_intn_flag,
                   memory, pc, inflight, owed, credit>>
-----------------------------------------------------------------------------
(***************************************************************************)
(* pbufs.                                                                  *)
(***************************************************************************)

\* A pbuf without a reference is free: memp_free has put a pool pbuf back.
pool(r) == {p \in PoolPbufs : r[p] = 0}

\* One reference less.
pbuf_free(p, r) == [r EXCEPT ![p] = @ - 1]

\* Every empty slot of rp, in order, gets a pbuf while the pool has any.  Which
\* one pbuf_alloc takes does not matter; here it is the lowest.
ksz8851snl_rx_populate_queue(rp, r) ==
    LET nth(i) == Cardinality({j \in 0 .. i : rp[j] = NULL})
        gets(i, p) == rp[i] = NULL /\ p \in pool(r)
                      /\ Cardinality({q \in pool(r) : q <= p}) = nth(i)
    IN [rx_pbuf |-> [i \in RxSlots |-> IF \E p \in PoolPbufs : gets(i, p)
                                       THEN CHOOSE p \in PoolPbufs : gets(i, p) ELSE rp[i]],
        rx_desc |-> [i \in RxSlots |-> IF rp[i] = NULL THEN 0 ELSE rx_desc[i]],
        ref |-> [p \in Pbufs |-> IF \E i \in RxSlots : gets(i, p) THEN 1 ELSE r[p]]]
-----------------------------------------------------------------------------
(***************************************************************************)
(* ksz8851snl_update: one step of the driver's state machine.              *)
(***************************************************************************)

SendWaiting == tx_desc[us_tx_tail] = 1 /\ pending_frame = 0

\* The transfer runs, or there is nothing to do, or the frame to send does not
\* fit in the transmit queue.
UpdateNothing ==
    /\ pc = "update"
    /\ \/ g_spi_pdc_flag \in {"RX_START", "TX_START"}
       \/ /\ g_spi_pdc_flag = "IDLE"
          /\ IF SendWaiting THEN txq = TXQ_FRAMES
             ELSE ~g_intn_flag /\ pending_frame = 0
    /\ pc' = "input"
    /\ UNCHANGED <<chip, rxRing, txRing, pending_frame, g_intn_flag, dma, memory,
                   inflight, owed, credit>>

StartTx ==
    /\ pc = "update"
    /\ g_spi_pdc_flag = "IDLE"
    /\ SendWaiting
    /\ txq < TXQ_FRAMES
    /\ INTN_Handler(int_rx, FALSE)
    /\ g_spi_pdc_flag' = "TX_START"
    /\ pc' = "input"
    /\ UNCHANGED <<rxq, txq, rxRing, txRing, pending_frame, fifo, memory, inflight, owed,
                   credit>>

BeginRx ==
    /\ pc = "update"
    /\ g_spi_pdc_flag = "IDLE"
    /\ ~SendWaiting
    /\ g_intn_flag \/ pending_frame > 0
    /\ g_intn_flag' = FALSE
    /\ pc' = IF pending_frame = 0 THEN "status" ELSE "slot"
    /\ UNCHANGED <<chip, rxRing, txRing, pending_frame, dma, memory, inflight, owed, credit>>

\* RX steps 1 and 2.
ReadStatus ==
    /\ pc = "status"
    /\ IF int_rx THEN INTN_Handler(int_rx, FALSE) /\ pc' = "clear"
       ELSE pc' = "input" /\ UNCHANGED <<int_rx, int_mask, g_intn_flag>>
    /\ UNCHANGED <<rxq, txq, rxRing, txRing, pending_frame, dma, memory, inflight, owed, credit>>

\* RX step 3.
ClearStatus ==
    /\ pc = "clear"
    /\ INTN_Handler(FALSE, int_mask)
    /\ pc' = "count"
    /\ UNCHANGED <<rxq, txq, rxRing, txRing, pending_frame, dma, memory, inflight, owed, credit>>

\* RX steps 4 and 5.
ReadCount ==
    /\ pc = "count"
    /\ pending_frame' = Len(rxq)
    /\ INTN_Handler(int_rx, rxq = <<>>)
    /\ pc' = IF rxq = <<>> THEN "input" ELSE "slot"
    /\ UNCHANGED <<rxq, txq, rxRing, txRing, dma, memory, inflight, owed, credit>>

\* Mutant: an empty descriptor is not filled here.
WaitsOnly ==
    /\ pc = "slot"
    /\ rx_desc[us_rx_head] = 1 \/ rx_pbuf[us_rx_head] = NULL
    /\ pc' = "input"
    /\ UNCHANGED <<chip, rxRing, txRing, pending_frame, g_intn_flag, dma, memory, inflight,
                   owed, credit>>

\* No free descriptor: wait.  No pbuf in it: try to get one.
WaitForSlot ==
    /\ pc = "slot"
    /\ rx_desc[us_rx_head] = 1 \/ rx_pbuf[us_rx_head] = NULL
    /\ IF rx_desc[us_rx_head] = 1 THEN UNCHANGED <<rx_pbuf, rx_desc, ref>>
       ELSE LET n == ksz8851snl_rx_populate_queue(rx_pbuf, ref)
            IN rx_pbuf' = n.rx_pbuf /\ rx_desc' = n.rx_desc /\ ref' = n.ref
    /\ pc' = "input"
    /\ UNCHANGED <<chip, us_rx_head, us_rx_tail, txRing, pending_frame, g_intn_flag, dma,
                   data, held, inflight, owed, credit>>

BadHead == IF rxq = <<>> THEN TRUE ELSE Head(rxq) = 0
SlotReady == pc = "slot" /\ rx_desc[us_rx_head] = 0 /\ rx_pbuf[us_rx_head] # NULL

\* RX steps 6 to 8: what is read of the first frame has an error, be it only
\* because the queue is empty.
ReadFrameError ==
    /\ SlotReady
    /\ BadHead
    /\ pc' = "drop"
    /\ UNCHANGED <<chip, rxRing, txRing, pending_frame, g_intn_flag, dma, memory, inflight,
                   owed, credit>>

\* The queue when a frame before those in it is gone: the frames move up.
MovedUp(q) == [i \in 1 .. Len(q) |-> IF q[i] > 0 THEN q[i] - 1 ELSE 0]

\* RXQ_CMD_FREE_PACKET releases the frame that is first by now, if any;
\* pending_frame still counts it.
FreePacket ==
    /\ pc = "drop"
    /\ rxq' = IF rxq = <<>> THEN rxq ELSE IF Head(rxq) = 0 THEN Tail(rxq) ELSE MovedUp(Tail(rxq))
    /\ inflight' = inflight - (IF BadHead THEN 0 ELSE 1)
    /\ pc' = "input"
    /\ UNCHANGED <<int_rx, int_mask, txq, rxRing, txRing, pending_frame, g_intn_flag, dma,
                   memory, owed, credit>>

\* RX steps 9 to 17.
StartRx ==
    /\ SlotReady
    /\ ~BadHead
    /\ g_spi_pdc_flag' = "RX_START"
    /\ data' = [data EXCEPT ![rx_pbuf[us_rx_head]] = 0]
    /\ pc' = "input"
    /\ UNCHANGED <<chip, rxRing, txRing, pending_frame, g_intn_flag, fifo, ref,
                   held, inflight, owed, credit>>

\* Mutant: the frame is taken over while the DMA still writes it.
RxStarted == g_spi_pdc_flag \in {"RX_START", "RX_COMPLETE"}

RxDone == g_spi_pdc_flag = "RX_COMPLETE"

\* Mutant: the interrupt stays masked after the last frame.
StaysMasked == int_mask

\* RX step 24.
UnmaskAfterLast == int_mask \/ pending_frame = 1

\* RX steps 18 to 24.
RxComplete ==
    /\ pc = "update"
    /\ RxDone
    /\ g_spi_pdc_flag' = "IDLE"
    /\ pending_frame' = pending_frame - 1
    /\ INTN_Handler(int_rx, UnmaskAfterLast)
    /\ rx_desc' = [rx_desc EXCEPT ![us_rx_head] = 1]
    /\ us_rx_head' = (us_rx_head + 1) % NETIF_RX_BUFFERS
    /\ pc' = "input"
    /\ UNCHANGED <<rxq, txq, rx_pbuf, us_rx_tail, txRing, fifo, memory,
                   inflight, owed, credit>>

\* TX steps 9 to 12.1: the frame is queued in the controller and its pbuf freed.
TxComplete ==
    /\ pc = "update"
    /\ g_spi_pdc_flag = "TX_COMPLETE"
    /\ g_spi_pdc_flag' = "IDLE"
    /\ txq' = txq + 1
    /\ INTN_Handler(int_rx, TRUE)
    /\ fifo' = <<>>
    /\ ref' = pbuf_free(tx_pbuf[us_tx_tail], ref)
    /\ tx_pbuf' = [tx_pbuf EXCEPT ![us_tx_tail] = NULL]
    /\ tx_desc' = [tx_desc EXCEPT ![us_tx_tail] = 0]
    /\ us_tx_tail' = (us_tx_tail + 1) % NETIF_TX_BUFFERS
    /\ data' = [p \in Pbufs |-> IF data[p] < 0 THEN data[p] + 1 ELSE data[p]]
    /\ owed' = owed - 1
    /\ pc' = "input"
    /\ UNCHANGED <<rxq, rxRing, us_tx_head, pending_frame, held, inflight, credit>>
-----------------------------------------------------------------------------
(***************************************************************************)
(* lwIP.                                                                   *)
(***************************************************************************)

\* Mutant: the ring is never full.
NeverFull == FALSE

TxFull == tx_desc[us_tx_head] = 1

\* Mutant: the driver takes no reference of its own.
NoRef(r, p) == r

pbuf_ref(r, p) == [r EXCEPT ![p] = @ + 1]

\* ERR_IF when the ring is full; else the driver takes a reference.  r: the
\* reference counts before the call.
ksz8851snl_low_level_output(p, r) ==
    IF TxFull THEN [ref |-> r, tx_desc |-> tx_desc, tx_pbuf |-> tx_pbuf,
                    us_tx_head |-> us_tx_head, owed |-> owed]
    ELSE [ref |-> pbuf_ref(r, p),
          tx_desc |-> [tx_desc EXCEPT ![us_tx_head] = 1],
          tx_pbuf |-> [tx_pbuf EXCEPT ![us_tx_head] = p],
          us_tx_head |-> (us_tx_head + 1) % NETIF_TX_BUFFERS,
          owed |-> owed + 1]

\* lwIP passes p to the driver; r: the reference counts lwIP leaves, its own
\* reference gone if it frees p after the call.
Output(p, r) ==
    LET o == ksz8851snl_low_level_output(p, r)
    IN /\ tx_desc' = o.tx_desc /\ tx_pbuf' = o.tx_pbuf /\ us_tx_head' = o.us_tx_head
       /\ owed' = o.owed
       /\ ref' = o.ref
       /\ UNCHANGED us_tx_tail

\* The contents when p, received first, has been passed on: frames move up.
Delivered(p, d) ==
    [q \in Pbufs |-> IF q = p THEN d ELSE IF data[q] > 0 THEN data[q] - 1 ELSE data[q]]

\* No frame is ready, and ethernetif_input returns.
NoInput ==
    /\ pc = "input"
    /\ rx_desc[us_rx_tail] = 0
    /\ pc' = "update"
    /\ UNCHANGED <<chip, rxRing, txRing, pending_frame, g_intn_flag, dma, memory, inflight,
                   owed, credit>>

\* ksz8851snl_low_level_input, then lwIP: it keeps the frame, be it only until
\* it has read it, or answers in the same pbuf and frees that.
Input(answer) ==
    LET p == rx_pbuf[us_rx_tail]
        n == ksz8851snl_rx_populate_queue([rx_pbuf EXCEPT ![us_rx_tail] = NULL], ref)
    IN /\ pc = "input"
       /\ rx_desc[us_rx_tail] = 1
       /\ answer => InPlace
       /\ rx_pbuf' = n.rx_pbuf /\ rx_desc' = n.rx_desc
       /\ us_rx_tail' = (us_rx_tail + 1) % NETIF_RX_BUFFERS
       /\ rxq' = MovedUp(rxq)
       /\ inflight' = inflight - 1
       /\ credit' = Window
       /\ IF answer
          THEN /\ Output(p, pbuf_free(p, n.ref))
               /\ data' = Delivered(p, IF TxFull THEN 0 ELSE -(owed + 1))
               /\ UNCHANGED held
          ELSE /\ held' = held \cup {p}
               /\ ref' = n.ref
               /\ data' = Delivered(p, 0)
               /\ UNCHANGED <<txRing, owed>>
       /\ pc' = "update"
       /\ UNCHANGED <<int_rx, int_mask, txq, us_rx_head, pending_frame, g_intn_flag, dma>>

\* lwIP sends a packet of its own and keeps it, be it only for the call (UDP) or
\* until it is acknowledged (TCP).
Send(p) ==
    /\ pc = "update"
    /\ credit > 0
    /\ ref[p] = 0
    /\ Output(p, [ref EXCEPT ![p] = 1])
    /\ data' = [data EXCEPT ![p] = IF TxFull THEN 0 ELSE -(owed + 1)]
    /\ held' = held \cup {p}
    /\ credit' = credit - 1
    /\ UNCHANGED <<chip, rxRing, pending_frame, g_intn_flag, dma, pc, inflight>>

\* TCP sends a segment it keeps once more and writes its headers anew.  Nothing in
\* lwIP 1.4.1 asks whether the driver still has the segment.
Resend(p) ==
    /\ pc = "update"
    /\ credit > 0
    /\ p \in held
    /\ ref[p] = 1 \/ ResendQueued
    /\ Output(p, ref)
    /\ data' = [data EXCEPT ![p] = IF TxFull THEN 0 ELSE -(owed + 1)]
    /\ credit' = credit - 1
    /\ UNCHANGED <<chip, rxRing, pending_frame, g_intn_flag, dma, held, pc, inflight>>

\* lwIP or the application frees what it kept.
Release(p) ==
    /\ p \in held
    /\ held' = held \ {p}
    /\ ref' = pbuf_free(p, ref)
    /\ UNCHANGED <<chip, rxRing, txRing, pending_frame, g_intn_flag, dma, data, pc, inflight,
                   owed, credit>>
-----------------------------------------------------------------------------
ksz8851snl_update ==
    \/ UpdateNothing \/ StartTx \/ BeginRx \/ ReadStatus \/ ClearStatus \/ ReadCount
    \/ WaitForSlot \/ ReadFrameError \/ FreePacket \/ StartRx \/ RxComplete \/ TxComplete

ethernetif_input ==
    ksz8851snl_update \/ NoInput \/ \E answer \in BOOLEAN : Input(answer)

SPI_Handler == SPI_Handler_RX \/ SPI_Handler_TX

Next ==
    \/ \E good \in BOOLEAN : FrameArrives(good)
    \/ FrameLeaves
    \/ SPI_Handler
    \/ ethernetif_input
    \/ \E p \in RamPbufs : Send(p) \/ Resend(p)
    \/ \E p \in Pbufs : Release(p)

Spec == Init /\ [][Next]_vars

\* The main loop runs, transfers end, the controller sends what it has, and
\* lwIP and the application free what they keep.
FairSpec ==
    /\ Spec
    /\ WF_vars(ethernetif_input)
    /\ WF_vars(SPI_Handler)
    /\ WF_vars(FrameLeaves)
    /\ WF_vars(\E p \in Pbufs : Release(p))
-----------------------------------------------------------------------------
(***************************************************************************)
(* Properties.                                                             *)
(***************************************************************************)

\* The reference count of a pbuf is the number of its owners, the receive
\* ring, the send ring and lwIP: none leaks, and none is back in the pool
\* while someone still uses it.
RefCounts ==
    \A p \in Pbufs :
        ref[p] = Cardinality({i \in RxSlots : rx_pbuf[i] = p})
                 + Cardinality({i \in TxSlots : tx_desc[i] = 1 /\ tx_pbuf[i] = p})
                 + (IF p \in held THEN 1 ELSE 0)

\* lwIP gets every good frame once, complete and in the order of arrival; a good
\* frame is lost in one place only, and only where bad frames arrive.
RxInOrder ==
    [][inflight' < inflight =>
        \/ pc = "input" /\ data[rx_pbuf[us_rx_tail]] = 1
        \/ pc = "drop" /\ BadFrames]_vars

\* What the controller is told to send is the next packet lwIP handed over,
\* every pbuf of its chain as lwIP left it.
TxInOrder ==
    [][owed' < owed => fifo = [i \in 1 .. ChainLen(tx_pbuf[us_tx_tail]) |-> -1]]_vars

\* No good frame stays in the controller or in the ring for ever: no interrupt is
\* lost, and neither sending nor a shortage of pbufs nor a frame miscounted holds
\* reception up.
RxDelivered == []<>(inflight = 0) \/ []<><<inflight' < inflight>>_vars

\* A packet the driver accepted is sent.
TxSent == []<>(owed = 0) \/ []<><<owed' < owed>>_vars

\* The good frames in the controller, but for one that FREE_PACKET is about to
\* release.
GoodWaiting == {i \in DOMAIN rxq : rxq[i] > 0 /\ ~(pc = "drop" /\ i = 1)}

\* Sending stops for one reason only: from some moment on pending_frame counts
\* more frames than there are good ones to come.  It does so when a bad frame was
\* dropped, or a good one in its place, and no other good one follows.
TxGoesOn == TxSent \/ <>[](pending_frame > Cardinality(GoodWaiting))
=============================================================================
