-------------------------- MODULE EthDriverProofs --------------------------
(***************************************************************************)
(* Proofs about EthDriver, for every size of the rings, of the queues and  *)
(* of the pool of pbufs.                                                   *)
(*                                                                         *)
(* The argument.  A pbuf in the receive ring has no other owner, so what   *)
(* lwIP or the sending side does with a pbuf never touches one that the    *)
(* DMA may write.  The used slots of a ring are those from its tail up to  *)
(* its head, and the frame in a slot is the slot's distance from the tail. *)
(* The frames in the controller's queue are numbered on from those in the  *)
(* ring, the bad ones left out.                                            *)
(***************************************************************************)
EXTENDS EthDriver, SequenceTheorems, FiniteSetTheorems, TLAPS

\* Distance of slot i from the tail t of a ring of n slots.
Pos(i, t, n) == IF i >= t THEN i - t ELSE i - t + n

\* The c slots from the tail up to the head are in use.
RingOK(desc, head, tail, n, c) ==
    /\ c \in 0 .. n
    /\ \A i \in 0 .. n - 1 : desc[i] = 1 <=> Pos(i, tail, n) < c
    /\ IF c = n THEN head = tail ELSE Pos(head, tail, n) = c

\* The good frames of the queue q have the numbers from a + 1 to b; g[i] is the
\* number of the last good one among the first i frames.
Numbered(q, a, b) ==
    \E g \in [0 .. Len(q) -> 0 .. b] :
        /\ g[0] = a /\ g[Len(q)] = b
        /\ \A i \in 1 .. Len(q) : \/ q[i] = 0 /\ g[i] = g[i - 1]
                                  \/ q[i] = g[i] /\ g[i] = g[i - 1] + 1
        /\ \A i, j \in 0 .. Len(q) : i <= j => g[i] <= g[j] /\ g[j] <= g[i] + (j - i)

Receiving == g_spi_pdc_flag \in {"RX_START", "RX_COMPLETE"}
Sending == g_spi_pdc_flag \in {"TX_START", "TX_COMPLETE"}

Owned ==
    /\ RefCounts
    /\ \A i \in RxSlots : rx_pbuf[i] # NULL => ref[rx_pbuf[i]] = 1

Control ==
    /\ pc \notin {"update", "input"} => g_spi_pdc_flag = "IDLE"
    /\ pc = "slot" \/ Receiving => pending_frame > 0
    /\ Receiving => rx_desc[us_rx_head] = 0 /\ rx_pbuf[us_rx_head] # NULL
    /\ g_spi_pdc_flag = "RX_START" => rxq # <<>> /\ Head(rxq) # 0
    /\ Sending => tx_desc[us_tx_tail] = 1 /\ txq < TXQ_FRAMES
    /\ ResendQueued \/ fifo = [i \in 1 .. Len(fifo) |-> -1]
    /\ IF g_spi_pdc_flag = "TX_START" THEN Len(fifo) < ChainLen(tx_pbuf[us_tx_tail])
       ELSE Len(fifo) = IF Sending THEN ChainLen(tx_pbuf[us_tx_tail]) ELSE 0

\* The receive ring with c frames in it.
RxOK(c) ==
    /\ RingOK(rx_desc, us_rx_head, us_rx_tail, NETIF_RX_BUFFERS, c)
    /\ \A i \in RxSlots : rx_desc[i] = 1 =>
            /\ rx_pbuf[i] # NULL
            /\ data[rx_pbuf[i]] = Pos(i, us_rx_tail, NETIF_RX_BUFFERS) + 1
    /\ IF g_spi_pdc_flag = "RX_COMPLETE"
       THEN data[rx_pbuf[us_rx_head]] = c + 1 /\ Numbered(rxq, c + 1, inflight)
       ELSE Numbered(rxq, c, inflight)

TxOK ==
    /\ RingOK(tx_desc, us_tx_head, us_tx_tail, NETIF_TX_BUFFERS, owed)
    /\ \A i \in TxSlots : tx_desc[i] = 1 =>
            /\ tx_pbuf[i] # NULL /\ data[tx_pbuf[i]] <= 0
            /\ ResendQueued \/ data[tx_pbuf[i]] = -(Pos(i, us_tx_tail, NETIF_TX_BUFFERS) + 1)

\* The inductive invariant.
EInv ==
    /\ TypeOK
    /\ Owned
    /\ Control
    /\ \E c \in 0 .. NETIF_RX_BUFFERS : RxOK(c)
    /\ TxOK
-----------------------------------------------------------------------------
\* Head and tail of a ring move by one slot.
LEMMA NextSlot ==
    ASSUME NEW n \in Nat \ {0}, NEW x \in 0 .. n - 1
    PROVE  (x + 1) % n = IF x = n - 1 THEN 0 ELSE x + 1
<1>1. ASSUME NEW m \in Nat \ {0}, NEW z \in 0 .. m - 1
      PROVE  z % m = z
  OBVIOUS
<1>2. ASSUME NEW m \in Nat \ {0}
      PROVE  m % m = 0
  OBVIOUS
<1> QED BY <1>1, <1>2

\* A slot is taken into use at the head of the ring.
LEMMA RingAdd ==
    ASSUME NEW n \in Nat \ {0}, NEW h \in 0 .. n - 1, NEW t \in 0 .. n - 1,
           NEW desc \in [0 .. n - 1 -> {0, 1}], NEW c \in Nat,
           RingOK(desc, h, t, n, c), desc[h] = 0,
           NEW e, e = [desc EXCEPT ![h] = 1], NEW k, k = (h + 1) % n
    PROVE  k \in 0 .. n - 1 /\ RingOK(e, k, t, n, c + 1) /\ Pos(h, t, n) = c
<1>1. k = IF h = n - 1 THEN 0 ELSE h + 1
  BY NextSlot
<1>2. c < n /\ Pos(h, t, n) = c
  <2>1. CASE c = n
    <3>1. \A i \in 0 .. n - 1 : Pos(i, t, n) < n
      BY DEF Pos
    <3> QED BY <2>1, <3>1 DEF RingOK
  <2> QED BY <2>1 DEF RingOK
<1>3. \A i \in 0 .. n - 1 : e[i] = 1 <=> Pos(i, t, n) < c + 1
  <2> SUFFICES ASSUME NEW i \in 0 .. n - 1
               PROVE  e[i] = 1 <=> Pos(i, t, n) < c + 1
    OBVIOUS
  <2>1. CASE i = h
    BY <1>2, <2>1
  <2>2. CASE i # h
    <3>1. e[i] = desc[i]
      BY <2>2
    <3>2. Pos(i, t, n) # c /\ Pos(i, t, n) \in Int
      BY <1>2, <2>2 DEF Pos
    <3> QED BY <1>2, <3>1, <3>2 DEF RingOK
  <2> QED BY <2>1, <2>2
<1>4. k \in 0 .. n - 1 /\ IF c + 1 = n THEN k = t ELSE Pos(k, t, n) = c + 1
  BY <1>1, <1>2 DEF Pos
<1>5. RingOK(e, k, t, n, c + 1)
  BY <1>2, <1>3, <1>4 DEF RingOK
<1> QED BY <1>2, <1>4, <1>5

\* The slot at the tail of the ring becomes free.
LEMMA RingTake ==
    ASSUME NEW n \in Nat \ {0}, NEW h \in 0 .. n - 1, NEW t \in 0 .. n - 1,
           NEW desc \in [0 .. n - 1 -> {0, 1}], NEW c \in Nat,
           RingOK(desc, h, t, n, c), desc[t] = 1
    PROVE  /\ (t + 1) % n \in 0 .. n - 1
           /\ RingOK([desc EXCEPT ![t] = 0], h, (t + 1) % n, n, c - 1)
           /\ c >= 1 /\ Pos(t, t, n) = 0
           /\ \A i \in 0 .. n - 1 : i # t => Pos(i, (t + 1) % n, n) = Pos(i, t, n) - 1
<1> DEFINE e == [desc EXCEPT ![t] = 0]
           k == (t + 1) % n
<1>1. k = IF t = n - 1 THEN 0 ELSE t + 1
  BY NextSlot
<1> HIDE DEF k
<1>2. c \in 1 .. n /\ Pos(t, t, n) = 0
  BY DEF RingOK, Pos
<1>3. k \in 0 .. n - 1 /\ \A i \in 0 .. n - 1 : i # t => Pos(i, k, n) = Pos(i, t, n) - 1
  BY <1>1 DEF Pos
<1>4. Pos(t, k, n) = n - 1
  BY <1>1 DEF Pos
<1>5. \A i \in 0 .. n - 1 : e[i] = 1 <=> Pos(i, k, n) < c - 1
  <2> SUFFICES ASSUME NEW i \in 0 .. n - 1
               PROVE  e[i] = 1 <=> Pos(i, k, n) < c - 1
    OBVIOUS
  <2>1. CASE i = t
    BY <1>2, <1>4, <2>1
  <2>2. CASE i # t
    <3>1. e[i] = desc[i] /\ Pos(i, t, n) \in Int
      BY <2>2 DEF Pos
    <3> QED BY <1>2, <1>3, <2>2, <3>1 DEF RingOK
  <2> QED BY <2>1, <2>2
<1>6. IF c - 1 = n THEN h = k ELSE Pos(h, k, n) = c - 1
  <2>1. CASE c = n
    BY <1>2, <1>4, <2>1 DEF RingOK
  <2>2. CASE c # n
    <3>1. Pos(h, t, n) = c /\ h # t
      BY <1>2, <2>2 DEF RingOK
    <3> QED BY <1>2, <1>3, <3>1
  <2> QED BY <2>1, <2>2
<1> HIDE DEF e
<1>7. RingOK(e, h, k, n, c - 1)
  BY <1>2, <1>5, <1>6 DEF RingOK
<1> QED BY <1>2, <1>3, <1>7 DEF e, k

\* g numbers the frames of q.
Numbers(g, q, a, b) ==
    /\ g[0] = a /\ g[Len(q)] = b
    /\ \A i \in 1 .. Len(q) : \/ q[i] = 0 /\ g[i] = g[i - 1]
                              \/ q[i] = g[i] /\ g[i] = g[i - 1] + 1
    /\ \A i, j \in 0 .. Len(q) : i <= j => g[i] <= g[j] /\ g[j] <= g[i] + (j - i)

LEMMA NumberedBy ==
    ASSUME NEW q, NEW a, NEW b
    PROVE  Numbered(q, a, b) <=> \E g \in [0 .. Len(q) -> 0 .. b] : Numbers(g, q, a, b)
BY DEF Numbered, Numbers

\* The numbers of a queue stay between a and b, and there is a frame for each.
LEMMA NumberedBounds ==
    ASSUME NEW q \in Seq(Nat), NEW a, NEW b \in Nat, Numbered(q, a, b)
    PROVE  /\ a \in 0 .. b /\ b <= a + Len(q)
           /\ \A i \in 1 .. Len(q) : q[i] = 0 \/ (a < q[i] /\ q[i] <= b)
           /\ q # <<>> => Head(q) = 0 \/ Head(q) = a + 1
<1>1. PICK g \in [0 .. Len(q) -> 0 .. b] : Numbers(g, q, a, b)
  BY NumberedBy
<1>2. Len(q) \in Nat
  BY LenProperties
<1>3. a \in 0 .. b /\ b <= a + Len(q)
  <2>1. 0 \in 0 .. Len(q) /\ Len(q) \in 0 .. Len(q) /\ 0 <= Len(q)
    BY <1>2
  <2>2. a \in 0 .. b /\ g[0] = a /\ g[Len(q)] = b
    BY <1>1, <2>1 DEF Numbers
  <2>3. g[Len(q)] <= g[0] + (Len(q) - 0)
    BY <1>1, <2>1 DEF Numbers
  <2> QED BY <1>2, <2>2, <2>3
<1>4. ASSUME NEW i \in 1 .. Len(q)
      PROVE  q[i] = 0 \/ (a < q[i] /\ q[i] <= b)
  <2>1. i \in 0 .. Len(q) /\ i - 1 \in 0 .. Len(q) /\ 0 \in 0 .. Len(q) /\ 0 <= i - 1
    BY <1>2
  <2>2. g[i] \in 0 .. b /\ g[i - 1] \in 0 .. b /\ g[0] <= g[i - 1] /\ g[0] = a
    BY <1>1, <2>1 DEF Numbers
  <2>3. \/ q[i] = 0 /\ g[i] = g[i - 1]
        \/ q[i] = g[i] /\ g[i] = g[i - 1] + 1
    BY <1>1 DEF Numbers
  <2> QED BY <1>3, <2>2, <2>3
<1>5. ASSUME q # <<>>
      PROVE  Head(q) = 0 \/ Head(q) = a + 1
  <2>1. Head(q) = q[1] /\ 1 \in 1 .. Len(q) /\ 1 - 1 = 0
    BY <1>2, <1>5, EmptySeq
  <2>2. \/ q[1] = 0 /\ g[1] = g[1 - 1]
        \/ q[1] = g[1] /\ g[1] = g[1 - 1] + 1
    BY <1>1, <2>1 DEF Numbers
  <2>3. g[0] = a
    BY <1>1 DEF Numbers
  <2> QED BY <2>1, <2>2, <2>3
<1> QED BY <1>3, <1>4, <1>5

\* A frame arrives: its number is the next one, or 0 if it is bad.
LEMMA NumberedAppend ==
    ASSUME NEW q \in Seq(Nat), NEW a, NEW b \in Nat, Numbered(q, a, b),
           NEW d \in {0, 1}
    PROVE  Numbered(Append(q, IF d = 1 THEN b + 1 ELSE 0), a, b + d)
<1> DEFINE x == IF d = 1 THEN b + 1 ELSE 0
           r == Append(q, x)
           n == Len(q)
<1>1. PICK g \in [0 .. n -> 0 .. b] : Numbers(g, q, a, b)
  BY NumberedBy
<1>2. n \in Nat /\ x \in Nat
  BY LenProperties
<1>3. Len(r) = n + 1 /\ r[n + 1] = x /\ \A i \in 1 .. n : r[i] = q[i]
  BY <1>2, AppendProperties
<1> DEFINE h == [i \in 0 .. n + 1 |-> IF i = n + 1 THEN b + d ELSE g[i]]
<1>4. h[n + 1] = b + d /\ \A i \in 0 .. n : h[i] = g[i]
  BY <1>2
<1>5. h \in [0 .. n + 1 -> 0 .. b + d]
  BY <1>1, <1>2
<1> HIDE DEF h, r, x
<1>6. 0 \in 0 .. n /\ n \in 0 .. n /\ g[n] = b /\ g[0] = a
  BY <1>1, <1>2 DEF Numbers
<1>7. ASSUME NEW i \in 1 .. n + 1
      PROVE  \/ r[i] = 0 /\ h[i] = h[i - 1]
             \/ r[i] = h[i] /\ h[i] = h[i - 1] + 1
  <2>1. CASE i = n + 1
    <3>1. i - 1 = n
      BY <1>2, <2>1
    <3>2. h[i - 1] = b /\ h[i] = b + d /\ r[i] = x
      BY <1>3, <1>4, <1>6, <2>1, <3>1
    <3> QED BY <3>2 DEF x
  <2>2. CASE i \in 1 .. n
    <3>1. i - 1 \in 0 .. n /\ i \in 0 .. n
      BY <1>2, <2>2
    <3> QED BY <1>1, <1>3, <1>4, <2>2, <3>1 DEF Numbers
  <2> QED BY <1>2, <2>1, <2>2
<1>8. ASSUME NEW i \in 0 .. n + 1, NEW j \in 0 .. n + 1, i <= j
      PROVE  h[i] <= h[j] /\ h[j] <= h[i] + (j - i)
  <2>1. CASE j \in 0 .. n
    <3>1. i \in 0 .. n
      BY <1>2, <1>8, <2>1
    <3> QED BY <1>1, <1>4, <1>8, <2>1, <3>1 DEF Numbers
  <2>2. CASE j = n + 1 /\ i \in 0 .. n
    <3>1. i <= n /\ g[i] \in 0 .. b
      BY <1>2, <2>2
    <3>2. g[i] <= g[n] /\ g[n] <= g[i] + (n - i)
      BY <1>1, <1>6, <2>2, <3>1 DEF Numbers
    <3> QED BY <1>2, <1>4, <1>6, <2>2, <3>1, <3>2
  <2>3. CASE j = n + 1 /\ i = n + 1
    BY <1>2, <1>4, <2>3
  <2> QED BY <1>2, <2>1, <2>2, <2>3
<1>9. Numbers(h, r, a, b + d)
  BY <1>3, <1>4, <1>6, <1>7, <1>8 DEF Numbers
<1>10. Numbered(r, a, b + d)
  BY <1>3, <1>5, <1>9, NumberedBy
<1> QED BY <1>10 DEF r, x

\* The first frame of the queue is read or dropped.
LEMMA NumberedTail ==
    ASSUME NEW q \in Seq(Nat), q # <<>>, NEW a, NEW b \in Nat, Numbered(q, a, b)
    PROVE  Numbered(Tail(q), IF Head(q) = 0 THEN a ELSE a + 1, b)
<1> DEFINE r == Tail(q)
           n == Len(q)
           c == IF Head(q) = 0 THEN a ELSE a + 1
<1>1. PICK g \in [0 .. n -> 0 .. b] : Numbers(g, q, a, b)
  BY NumberedBy
<1>2. n \in Nat \ {0} /\ Head(q) = q[1]
  BY LenProperties, EmptySeq
<1>3. r \in Seq(Nat) /\ Len(r) = n - 1 /\ \A i \in 1 .. n - 1 : r[i] = q[i + 1]
  BY HeadTailProperties
<1> DEFINE h == [i \in 0 .. n - 1 |-> g[i + 1]]
<1>4. h \in [0 .. n - 1 -> 0 .. b]
  BY <1>1, <1>2
<1>5. \A i \in 0 .. n - 1 : h[i] = g[i + 1]
  OBVIOUS
<1> HIDE DEF h, r
<1>6. h[0] = c /\ h[n - 1] = b
  <2>1. 0 \in 0 .. n - 1 /\ n - 1 \in 0 .. n - 1 /\ 0 + 1 = 1 /\ (n - 1) + 1 = n /\ 1 - 1 = 0
        /\ 1 \in 1 .. n
    BY <1>2
  <2>2. h[0] = g[1] /\ h[n - 1] = g[n]
    BY <1>5, <2>1
  <2>3. g[0] = a /\ g[n] = b
    BY <1>1 DEF Numbers
  <2>4. \/ q[1] = 0 /\ g[1] = g[1 - 1]
        \/ q[1] = g[1] /\ g[1] = g[1 - 1] + 1
    BY <1>1, <2>1 DEF Numbers
  <2>5. a \in Nat
    BY NumberedBounds
  <2> QED BY <1>2, <2>1, <2>2, <2>3, <2>4, <2>5
<1>7. ASSUME NEW i \in 1 .. n - 1
      PROVE  \/ r[i] = 0 /\ h[i] = h[i - 1]
             \/ r[i] = h[i] /\ h[i] = h[i - 1] + 1
  <2>1. i \in 0 .. n - 1 /\ i - 1 \in 0 .. n - 1 /\ i + 1 \in 1 .. n /\ (i + 1) - 1 = i
        /\ (i - 1) + 1 = i
    BY <1>2
  <2>2. h[i] = g[i + 1] /\ h[i - 1] = g[i] /\ r[i] = q[i + 1]
    BY <1>3, <1>5, <2>1
  <2>3. \/ q[i + 1] = 0 /\ g[i + 1] = g[(i + 1) - 1]
        \/ q[i + 1] = g[i + 1] /\ g[i + 1] = g[(i + 1) - 1] + 1
    BY <1>1, <2>1 DEF Numbers
  <2> QED BY <2>1, <2>2, <2>3
<1>8. ASSUME NEW i \in 0 .. n - 1, NEW j \in 0 .. n - 1, i <= j
      PROVE  h[i] <= h[j] /\ h[j] <= h[i] + (j - i)
  <2>1. i + 1 \in 0 .. n /\ j + 1 \in 0 .. n /\ i + 1 <= j + 1 /\ (j + 1) - (i + 1) = j - i
    BY <1>2, <1>8
  <2>2. g[i + 1] <= g[j + 1] /\ g[j + 1] <= g[i + 1] + ((j + 1) - (i + 1))
    BY <1>1, <2>1 DEF Numbers
  <2> QED BY <1>5, <2>1, <2>2
<1>9. Numbers(h, r, c, b)
  BY <1>3, <1>6, <1>7, <1>8 DEF Numbers
<1>10. Numbered(r, c, b)
  BY <1>3, <1>4, <1>9, NumberedBy
<1> QED BY <1>10 DEF r

\* A frame before those of the queue is passed to lwIP: all numbers go down.
LEMMA NumberedDown ==
    ASSUME NEW q \in Seq(Nat), NEW a, NEW b \in Nat, Numbered(q, a, b), a >= 1,
           NEW r, r = [i \in 1 .. Len(q) |-> IF q[i] > 0 THEN q[i] - 1 ELSE 0]
    PROVE  /\ r \in Seq(Nat) /\ Len(r) = Len(q) /\ Numbered(r, a - 1, b - 1)
           /\ q # <<>> => r # <<>> /\ (Head(q) # 0 => Head(r) # 0)
<1> DEFINE n == Len(q)
<1>1. PICK g \in [0 .. n -> 0 .. b] : Numbers(g, q, a, b)
  BY NumberedBy
<1>2. n \in Nat /\ a \in 0 .. b
  BY LenProperties, NumberedBounds
<1>3. \A i \in 1 .. n : q[i] \in Nat
  BY ElementOfSeq
<1>4. r \in [1 .. n -> Nat]
  BY <1>3
<1>5. r \in Seq(Nat) /\ Len(r) = n
  BY <1>2, <1>4
<1> DEFINE h == [i \in 0 .. n |-> g[i] - 1]
<1>6. \A i \in 0 .. n : g[i] \in 1 .. b
  <2>1. ASSUME NEW i \in 0 .. n
        PROVE  g[i] \in 1 .. b
    <3>1. 0 \in 0 .. n /\ 0 <= i
      BY <1>2
    <3>2. g[0] <= g[i] /\ g[0] = a /\ g[i] \in 0 .. b
      BY <1>1, <3>1 DEF Numbers
    <3> QED BY <1>2, <3>2
  <2> QED BY <2>1
<1>7. h \in [0 .. n -> 0 .. b - 1] /\ \A i \in 0 .. n : h[i] = g[i] - 1
  BY <1>6
<1> HIDE DEF h
<1>8. h[0] = a - 1 /\ h[n] = b - 1
  <2>1. 0 \in 0 .. n /\ n \in 0 .. n /\ g[0] = a /\ g[n] = b
    BY <1>1, <1>2 DEF Numbers
  <2> QED BY <1>7, <2>1
<1>9. ASSUME NEW i \in 1 .. n
      PROVE  /\ \/ r[i] = 0 /\ h[i] = h[i - 1]
                \/ r[i] = h[i] /\ h[i] = h[i - 1] + 1
             /\ q[i] # 0 => r[i] # 0
  <2>1. i \in 0 .. n /\ i - 1 \in 0 .. n
    BY <1>2
  <2>2. h[i] = g[i] - 1 /\ h[i - 1] = g[i - 1] - 1 /\ g[i] \in 1 .. b /\ g[i - 1] \in 1 .. b
    BY <1>6, <1>7, <2>1
  <2>3. \/ q[i] = 0 /\ g[i] = g[i - 1]
        \/ q[i] = g[i] /\ g[i] = g[i - 1] + 1
    BY <1>1 DEF Numbers
  <2>4. r[i] = IF q[i] > 0 THEN q[i] - 1 ELSE 0
    OBVIOUS
  <2> QED BY <2>2, <2>3, <2>4
<1>10. ASSUME NEW i \in 0 .. n, NEW j \in 0 .. n, i <= j
       PROVE  h[i] <= h[j] /\ h[j] <= h[i] + (j - i)
  <2>1. g[i] <= g[j] /\ g[j] <= g[i] + (j - i)
    BY <1>1, <1>10 DEF Numbers
  <2> QED BY <1>6, <1>7, <2>1
<1>11. Numbers(h, r, a - 1, b - 1)
  BY <1>5, <1>8, <1>9, <1>10 DEF Numbers
<1>12. Numbered(r, a - 1, b - 1)
  BY <1>5, <1>7, <1>11, NumberedBy
<1>13. ASSUME q # <<>>
       PROVE  r # <<>> /\ (Head(q) # 0 => Head(r) # 0)
  <2>1. n # 0
    BY <1>13, EmptySeq
  <2>2. r # <<>>
    BY <1>5, <2>1, EmptySeq
  <2>3. Head(q) = q[1] /\ Head(r) = r[1] /\ 1 \in 1 .. n
    BY <1>2, <1>5, <1>13, <2>1, <2>2
  <2> QED BY <1>9, <2>2, <2>3
<1> QED BY <1>5, <1>12, <1>13

LEMMA MovedUpType ==
    ASSUME NEW K \in Nat, NEW q \in Seq(0 .. K)
    PROVE  MovedUp(q) \in Seq(0 .. K)
<1>1. ASSUME NEW i \in 1 .. Len(q)
      PROVE  (IF q[i] > 0 THEN q[i] - 1 ELSE 0) \in 0 .. K
  <2>1. q[i] \in 0 .. K
    BY ElementOfSeq
  <2> QED BY <2>1
<1>2. MovedUp(q) \in [1 .. Len(q) -> 0 .. K] /\ Len(q) \in Nat
  BY <1>1, LenProperties DEF MovedUp
<1> QED BY <1>2
-----------------------------------------------------------------------------
(***************************************************************************)
(* Owners of pbufs.                                                        *)
(***************************************************************************)

\* The owners of pbuf p.
RxSet(rp, p) == {i \in RxSlots : rp[i] = p}
TxSet(desc, tp, p) == {i \in TxSlots : desc[i] = 1 /\ tp[i] = p}
Hold(h, p) == IF p \in h THEN 1 ELSE 0

CountsOK(r, rp, desc, tp, h) ==
    \A p \in Pbufs :
        r[p] = Cardinality(RxSet(rp, p)) + Cardinality(TxSet(desc, tp, p)) + Hold(h, p)

\* The sizes, as facts for the provers.
LEMMA Sizes ==
    /\ NETIF_RX_BUFFERS \in Nat \ {0} /\ NETIF_TX_BUFFERS \in Nat \ {0}
    /\ RXQ_FRAMES \in Nat \ {0} /\ TXQ_FRAMES \in Nat \ {0}
    /\ PBUF_POOL_SIZE \in Nat /\ NETIF_RX_BUFFERS <= PBUF_POOL_SIZE
    /\ RAM_PACKETS \in Nat /\ Window \in Nat
    /\ PoolPbufs \subseteq Nat \ {0} /\ Pbufs \subseteq Nat \ {0} /\ PoolPbufs \subseteq Pbufs
    /\ NULL \notin Pbufs /\ NULL \notin PoolPbufs
BY SizeAssumption DEF PoolPbufs, RamPbufs, Pbufs, NULL

\* Sets of slots are finite.
LEMMA SlotSets ==
    ASSUME NEW S, S \subseteq RxSlots \/ S \subseteq TxSlots
    PROVE  /\ IsFiniteSet(S) /\ Cardinality(S) \in Nat
           /\ Cardinality(S) = 0 <=> S = {}
           /\ \A i \in S : Cardinality(S) = 1 => S = {i}
<1>1. IsFiniteSet(RxSlots) /\ IsFiniteSet(TxSlots)
  <2>1. 0 \in Int /\ NETIF_RX_BUFFERS - 1 \in Int /\ NETIF_TX_BUFFERS - 1 \in Int
    BY Sizes
  <2> QED BY <2>1, FS_Interval DEF RxSlots, TxSlots
<1>2. IsFiniteSet(S)
  BY <1>1, FS_Subset
<1>3. \A i \in S : Cardinality(S) = 1 => S = {i}
  <2> SUFFICES ASSUME NEW i \in S, Cardinality(S) = 1 PROVE S = {i}
    OBVIOUS
  <2>1. Cardinality({i}) = 1 /\ {i} \in SUBSET S
    BY FS_Singleton
  <2> QED BY <1>2, <2>1, FS_Subset
<1> QED BY <1>2, <1>3, FS_CardinalityType, FS_EmptySet

\* Counting one owner.
LEMMA OneSlot ==
    ASSUME NEW i
    PROVE  Cardinality({i}) = 1 /\ Cardinality({}) = 0
BY FS_Singleton, FS_EmptySet

\* One slot more, one slot less.
LEMMA SlotMore ==
    ASSUME NEW S, S \subseteq RxSlots \/ S \subseteq TxSlots, NEW i, i \notin S
    PROVE  Cardinality(S \cup {i}) = Cardinality(S) + 1
BY SlotSets, FS_AddElement

LEMMA SlotLess ==
    ASSUME NEW S, S \subseteq RxSlots \/ S \subseteq TxSlots, NEW i \in S
    PROVE  Cardinality(S \ {i}) = Cardinality(S) - 1
BY SlotSets, FS_RemoveElement

\* A pbuf of the receive ring with one reference has no owner but its slot.
LEMMA SoleOwner ==
    ASSUME NEW r, NEW rp, NEW desc, NEW tp, NEW h, CountsOK(r, rp, desc, tp, h),
           NEW i \in RxSlots, rp[i] \in Pbufs, r[rp[i]] = 1
    PROVE  RxSet(rp, rp[i]) = {i} /\ TxSet(desc, tp, rp[i]) = {} /\ rp[i] \notin h
<1> DEFINE p == rp[i]
           S == RxSet(rp, p)
           T == TxSet(desc, tp, p)
<1>1. S \subseteq RxSlots /\ T \subseteq TxSlots /\ i \in S
  BY DEF RxSet, TxSet
<1>2. 1 = Cardinality(S) + Cardinality(T) + Hold(h, p)
  BY DEF CountsOK
<1> HIDE DEF S, T
<1>3. Cardinality(S) \in Nat \ {0} /\ Cardinality(T) \in Nat /\ Hold(h, p) \in {0, 1}
  BY <1>1, SlotSets DEF Hold
<1>4. Cardinality(S) = 1 /\ Cardinality(T) = 0 /\ Hold(h, p) = 0
  BY <1>2, <1>3
<1>5. S = {i} /\ T = {}
  BY <1>1, <1>4, SlotSets
<1> QED BY <1>4, <1>5 DEF Hold, S, T

\* A free pbuf has no owner.
LEMMA NoOwner ==
    ASSUME NEW r, NEW rp, NEW desc, NEW tp, NEW h, CountsOK(r, rp, desc, tp, h),
           NEW p \in Pbufs, r[p] = 0
    PROVE  RxSet(rp, p) = {} /\ TxSet(desc, tp, p) = {} /\ p \notin h
<1> DEFINE S == RxSet(rp, p)
           T == TxSet(desc, tp, p)
<1>1. S \subseteq RxSlots /\ T \subseteq TxSlots
  BY DEF RxSet, TxSet
<1>2. 0 = Cardinality(S) + Cardinality(T) + Hold(h, p)
  BY DEF CountsOK
<1> HIDE DEF S, T
<1>3. Cardinality(S) \in Nat /\ Cardinality(T) \in Nat /\ Hold(h, p) \in {0, 1}
  BY <1>1, SlotSets DEF Hold
<1>4. Cardinality(S) = 0 /\ Cardinality(T) = 0 /\ Hold(h, p) = 0
  BY <1>2, <1>3
<1> QED BY <1>1, <1>4, SlotSets DEF Hold, S, T

\* What ksz8851snl_rx_populate_queue makes of the slots rp and the counts r: empty
\* slots get different free pbufs, and all else stays as it is.
Populated(rp, r, n) ==
    /\ n.rx_pbuf \in [RxSlots -> PoolPbufs \cup {NULL}]
    /\ n.rx_desc \in [RxSlots -> {0, 1}]
    /\ n.ref \in [Pbufs -> Nat]
    /\ \A i \in RxSlots : rp[i] # NULL => /\ n.rx_pbuf[i] = rp[i]
                                          /\ n.rx_desc[i] = rx_desc[i]
    /\ \A i \in RxSlots : rp[i] = NULL => n.rx_desc[i] = 0
    /\ \A p \in Pbufs :
         \/ n.ref[p] = r[p] /\ RxSet(n.rx_pbuf, p) = RxSet(rp, p)
         \/ /\ r[p] = 0 /\ n.ref[p] = 1 /\ RxSet(rp, p) = {}
            /\ \E i \in RxSlots : RxSet(n.rx_pbuf, p) = {i}
    /\ \A i \in RxSlots : rp[i] = NULL /\ n.rx_pbuf[i] # NULL => n.ref[n.rx_pbuf[i]] = 1

LEMMA Populate ==
    ASSUME NEW rp \in [RxSlots -> PoolPbufs \cup {NULL}], NEW r \in [Pbufs -> Nat],
           rx_desc \in [RxSlots -> {0, 1}],
           \A p \in PoolPbufs : r[p] = 0 => \A i \in RxSlots : rp[i] # p,
           NEW n, n = ksz8851snl_rx_populate_queue(rp, r)
    PROVE  Populated(rp, r, n)
<1> DEFINE nth(i) == Cardinality({j \in 0 .. i : rp[j] = NULL})
           rank(p) == Cardinality({q \in pool(r) : q <= p})
           gets(i, p) == rp[i] = NULL /\ p \in pool(r) /\ rank(p) = nth(i)
<1>1. /\ n.rx_pbuf = [i \in RxSlots |-> IF \E p \in PoolPbufs : gets(i, p)
                                        THEN CHOOSE p \in PoolPbufs : gets(i, p) ELSE rp[i]]
      /\ n.rx_desc = [i \in RxSlots |-> IF rp[i] = NULL THEN 0 ELSE rx_desc[i]]
      /\ n.ref = [p \in Pbufs |-> IF \E i \in RxSlots : gets(i, p) THEN 1 ELSE r[p]]
  BY DEF ksz8851snl_rx_populate_queue
<1>2. \A p, q \in pool(r) : rank(p) = rank(q) => p = q
  <2>1. IsFiniteSet(pool(r)) /\ pool(r) \subseteq Nat
    <3>1. IsFiniteSet(PoolPbufs)
      BY Sizes, FS_Interval DEF PoolPbufs
    <3> QED BY <3>1, Sizes, FS_Subset DEF pool
  <2>2. ASSUME NEW p \in pool(r), NEW q \in pool(r), p < q
        PROVE  rank(p) # rank(q)
    <3> DEFINE P == {x \in pool(r) : x <= p}
               Q == {x \in pool(r) : x <= q}
    <3>1. P \in SUBSET Q /\ q \in Q /\ q \notin P /\ Q \in SUBSET pool(r)
      BY <2>1, <2>2
    <3>2. IsFiniteSet(Q)
      BY <2>1, <3>1, FS_Subset
    <3> HIDE DEF P, Q
    <3>3. Cardinality(P) # Cardinality(Q)
      BY <3>1, <3>2, FS_Subset
    <3> QED BY <3>3 DEF P, Q
  <2> HIDE DEF rank
  <2>3. \A p, q \in pool(r) : p < q \/ q < p \/ p = q
    BY <2>1
  <2> QED BY <2>2, <2>3
<1>3. \A i, j \in RxSlots : rp[i] = NULL /\ rp[j] = NULL /\ nth(i) = nth(j) => i = j
  <2>1. ASSUME NEW i \in RxSlots, NEW j \in RxSlots, i < j, rp[j] = NULL
        PROVE  nth(i) # nth(j)
    <3> DEFINE I == {x \in 0 .. i : rp[x] = NULL}
               J == {x \in 0 .. j : rp[x] = NULL}
    <3>1. I \in SUBSET J /\ j \in J /\ j \notin I
      BY <2>1, Sizes DEF RxSlots
    <3>2. IsFiniteSet(J)
      <4>1. IsFiniteSet(0 .. j)
        BY Sizes, FS_Interval DEF RxSlots
      <4> QED BY <4>1, FS_Subset
    <3> HIDE DEF I, J
    <3>3. Cardinality(I) # Cardinality(J)
      BY <3>1, <3>2, FS_Subset
    <3> QED BY <3>3 DEF I, J
  <2> HIDE DEF nth
  <2>2. \A i, j \in RxSlots : i < j \/ j < i \/ i = j
    BY Sizes DEF RxSlots
  <2> QED BY <2>1, <2>2
<1> HIDE DEF rank, nth
<1>4. \A i \in RxSlots : \A p, q \in PoolPbufs : gets(i, p) /\ gets(i, q) => p = q
  BY <1>2
<1>5. \A i, j \in RxSlots : \A p \in PoolPbufs : gets(i, p) /\ gets(j, p) => i = j
  BY <1>3
<1>6. \A i \in RxSlots : \A p \in PoolPbufs : gets(i, p) => rp[i] = NULL /\ r[p] = 0
  BY DEF pool
<1>7. \A i \in RxSlots : \A p : gets(i, p) => p \in PoolPbufs
  BY DEF pool
<1> HIDE DEF gets
<1>8. ASSUME NEW i \in RxSlots
      PROVE  \/ \E p \in PoolPbufs : gets(i, p) /\ n.rx_pbuf[i] = p
             \/ (\A p \in PoolPbufs : ~gets(i, p)) /\ n.rx_pbuf[i] = rp[i]
  BY <1>1
<1>9. n.rx_pbuf \in [RxSlots -> PoolPbufs \cup {NULL}] /\ n.rx_desc \in [RxSlots -> {0, 1}]
  <2>1. \A i \in RxSlots : n.rx_pbuf[i] \in PoolPbufs \cup {NULL}
    BY <1>8
  <2> QED BY <1>1, <2>1
<1>10. n.ref \in [Pbufs -> Nat]
  BY <1>1
<1>11. \A i \in RxSlots : rp[i] # NULL => /\ n.rx_pbuf[i] = rp[i]
                                          /\ n.rx_desc[i] = rx_desc[i]
  BY <1>1, <1>6, <1>8
<1>12. \A i \in RxSlots : rp[i] = NULL => n.rx_desc[i] = 0
  BY <1>1
<1>13. ASSUME NEW p \in Pbufs
       PROVE  \/ n.ref[p] = r[p] /\ RxSet(n.rx_pbuf, p) = RxSet(rp, p)
              \/ /\ r[p] = 0 /\ n.ref[p] = 1 /\ RxSet(rp, p) = {}
                 /\ \E i \in RxSlots : RxSet(n.rx_pbuf, p) = {i}
  <2>1. CASE \E i \in RxSlots : gets(i, p)
    <3>1. PICK i \in RxSlots : gets(i, p)
      BY <2>1
    <3>2. p \in PoolPbufs /\ r[p] = 0 /\ n.ref[p] = 1
      BY <1>1, <1>6, <1>7, <2>1
    <3>3. \A j \in RxSlots : rp[j] # p
      BY <3>2
    <3>4. n.rx_pbuf[i] = p
      BY <1>4, <1>8, <3>1, <3>2
    <3>5. \A j \in RxSlots : n.rx_pbuf[j] = p => j = i
      BY <1>5, <1>8, <3>1, <3>2, <3>3
    <3> QED BY <3>2, <3>3, <3>4, <3>5 DEF RxSet
  <2>2. CASE ~\E i \in RxSlots : gets(i, p)
    <3>1. n.ref[p] = r[p]
      BY <1>1, <2>2
    <3>2. p # NULL
      BY Sizes
    <3>3. \A j \in RxSlots : n.rx_pbuf[j] = p <=> rp[j] = p
      BY <1>6, <1>8, <2>2, <3>2
    <3> QED BY <3>1, <3>3 DEF RxSet
  <2> QED BY <2>1, <2>2
<1>14. \A i \in RxSlots : rp[i] = NULL /\ n.rx_pbuf[i] # NULL => n.ref[n.rx_pbuf[i]] = 1
  <2> SUFFICES ASSUME NEW i \in RxSlots, rp[i] = NULL, n.rx_pbuf[i] # NULL
               PROVE  n.ref[n.rx_pbuf[i]] = 1
    OBVIOUS
  <2>1. PICK p \in PoolPbufs : gets(i, p) /\ n.rx_pbuf[i] = p
    BY <1>8
  <2> QED BY <1>1, <2>1, Sizes
<1> QED BY <1>9, <1>10, <1>11, <1>12, <1>13, <1>14 DEF Populated
-----------------------------------------------------------------------------
(***************************************************************************)
(* What a step leaves alone.                                               *)
(***************************************************************************)

LEMMA OwnedKept ==
    ASSUME Owned, UNCHANGED <<rx_pbuf, tx_desc, tx_pbuf, ref, held>>
    PROVE  Owned'
BY DEF Owned, RefCounts

\* The frames of the send ring: their pbufs keep their contents.
LEMMA TxKept ==
    ASSUME TxOK, UNCHANGED <<txRing, owed>>,
           \A i \in TxSlots : tx_desc[i] = 1 => data'[tx_pbuf[i]] = data[tx_pbuf[i]]
    PROVE  TxOK'
BY DEF TxOK, txRing

\* The frames of the receive ring.
LEMMA RxKept ==
    ASSUME NEW c, RxOK(c), UNCHANGED rxRing,
           \A i \in RxSlots : rx_desc[i] = 1 => data'[rx_pbuf[i]] = data[rx_pbuf[i]],
           IF g_spi_pdc_flag' = "RX_COMPLETE"
           THEN data'[rx_pbuf[us_rx_head]] = c + 1 /\ Numbered(rxq', c + 1, inflight')
           ELSE Numbered(rxq', c, inflight')
    PROVE  RxOK(c)'
BY DEF RxOK, rxRing

LEMMA ReceiveKept ==
    ASSUME NEW c, RxOK(c), UNCHANGED <<rxRing, data, rxq, inflight>>,
           g_spi_pdc_flag = "RX_COMPLETE" <=> g_spi_pdc_flag' = "RX_COMPLETE"
    PROVE  RxOK(c)'
<1>1. IF g_spi_pdc_flag' = "RX_COMPLETE"
      THEN data'[rx_pbuf[us_rx_head]] = c + 1 /\ Numbered(rxq', c + 1, inflight')
      ELSE Numbered(rxq', c, inflight')
  BY DEF RxOK
<1> QED BY <1>1, RxKept

\* A pbuf in the receive ring has no other owner.
LEMMA Apart ==
    ASSUME TypeOK, Owned, NEW i \in RxSlots, rx_pbuf[i] # NULL
    PROVE  /\ rx_pbuf[i] \in PoolPbufs /\ rx_pbuf[i] \in Pbufs /\ ref[rx_pbuf[i]] = 1
           /\ \A j \in RxSlots : rx_pbuf[j] = rx_pbuf[i] => j = i
           /\ \A j \in TxSlots : tx_desc[j] = 1 => tx_pbuf[j] # rx_pbuf[i]
           /\ rx_pbuf[i] \notin held
<1>1. rx_pbuf[i] \in PoolPbufs /\ rx_pbuf[i] \in Pbufs /\ ref[rx_pbuf[i]] = 1
  BY Sizes DEF TypeOK, Owned
<1>2. CountsOK(ref, rx_pbuf, tx_desc, tx_pbuf, held)
  BY DEF Owned, RefCounts, CountsOK, RxSet, TxSet, Hold
<1>3. /\ RxSet(rx_pbuf, rx_pbuf[i]) = {i} /\ TxSet(tx_desc, tx_pbuf, rx_pbuf[i]) = {}
      /\ rx_pbuf[i] \notin held
  BY <1>1, <1>2, SoleOwner
<1> QED BY <1>1, <1>3 DEF RxSet, TxSet
-----------------------------------------------------------------------------
(***************************************************************************)
(* The steps.                                                              *)
(***************************************************************************)

LEMMA InitE == Init => EInv
<1> SUFFICES ASSUME Init PROVE EInv
  OBVIOUS
<1> USE DEF Init
<1>0. 0 \in RxSlots /\ 0 \in TxSlots /\ RxSlots \subseteq Nat /\ 0 \in Nat
  BY Sizes DEF RxSlots, TxSlots
<1>1. TypeOK
  <2>1. rxq \in Seq(0 .. RXQ_FRAMES + NETIF_RX_BUFFERS) /\ Len(rxq) = 0
        /\ fifo \in Seq(Int) /\ Len(fifo) = 0
    BY EmptySeq
  <2>2. rx_pbuf \in [RxSlots -> PoolPbufs \cup {NULL}]
    BY Sizes DEF RxSlots, PoolPbufs
  <2>3. tx_pbuf \in [TxSlots -> Pbufs \cup {NULL}] /\ rx_desc \in [RxSlots -> {0, 1}]
        /\ tx_desc \in [TxSlots -> {0, 1}] /\ ref \in [Pbufs -> Nat] /\ data \in [Pbufs -> Int]
    OBVIOUS
  <2> QED BY <1>0, <2>1, <2>2, <2>3, Sizes DEF TypeOK
<1>2. Owned
  <2>1. ASSUME NEW p \in Pbufs
        PROVE  ref[p] = Cardinality(RxSet(rx_pbuf, p))
                        + Cardinality(TxSet(tx_desc, tx_pbuf, p)) + Hold(held, p)
    <3>1. TxSet(tx_desc, tx_pbuf, p) = {} /\ Hold(held, p) = 0
      BY DEF TxSet, Hold
    <3>2. CASE p \in 1 .. NETIF_RX_BUFFERS
      <4>1. RxSet(rx_pbuf, p) = {p - 1} /\ ref[p] = 1
        BY <3>2, Sizes DEF RxSlots, RxSet
      <4>2. Cardinality(RxSet(rx_pbuf, p)) = 1 /\ Cardinality(TxSet(tx_desc, tx_pbuf, p)) = 0
        BY <3>1, <4>1, OneSlot, Zenon
      <4> QED BY <3>1, <4>1, <4>2
    <3>3. CASE p \notin 1 .. NETIF_RX_BUFFERS
      <4>1. RxSet(rx_pbuf, p) = {} /\ ref[p] = 0
        BY <3>3, Sizes DEF RxSlots, RxSet
      <4>2. Cardinality(RxSet(rx_pbuf, p)) = 0 /\ Cardinality(TxSet(tx_desc, tx_pbuf, p)) = 0
        BY <3>1, <4>1, OneSlot, Zenon
      <4> QED BY <3>1, <4>1, <4>2
    <3> QED BY <3>2, <3>3
  <2>2. \A i \in RxSlots : rx_pbuf[i] \in Pbufs /\ rx_pbuf[i] \in 1 .. NETIF_RX_BUFFERS
    BY Sizes DEF RxSlots, PoolPbufs
  <2>3. RefCounts
    BY <2>1 DEF RefCounts, RxSet, TxSet, Hold
  <2> QED BY <2>2, <2>3 DEF Owned
<1>3. Control
  BY EmptySeq DEF Control, Receiving, Sending
<1>4. RxOK(0)
  <2>1. Numbered(<<>>, 0, 0)
    <3> DEFINE g == [i \in 0 .. 0 |-> 0]
    <3>1. Len(<<>>) = 0
      OBVIOUS
    <3>2. g \in [0 .. 0 -> 0 .. 0]
      OBVIOUS
    <3>3. Numbers(g, <<>>, 0, 0)
      BY <3>1 DEF Numbers
    <3> HIDE DEF g
    <3> QED BY <3>1, <3>2, <3>3, NumberedBy
  <2>2. RingOK(rx_desc, us_rx_head, us_rx_tail, NETIF_RX_BUFFERS, 0)
    BY Sizes DEF RingOK, Pos, RxSlots
  <2> QED BY <2>1, <2>2 DEF RxOK
<1>5. TxOK
  <2>1. RingOK(tx_desc, us_tx_head, us_tx_tail, NETIF_TX_BUFFERS, 0)
    BY Sizes DEF RingOK, Pos, TxSlots
  <2> QED BY <2>1 DEF TxOK
<1>6. 0 \in 0 .. NETIF_RX_BUFFERS
  BY Sizes
<1> HIDE DEF Init
<1> QED BY <1>1, <1>2, <1>3, <1>4, <1>5, <1>6 DEF EInv

\* A step that leaves the rings, the pbufs and the receive queue alone.
LEMMA Quiet ==
    ASSUME EInv, TypeOK', Control',
           UNCHANGED <<rxRing, txRing, memory, rxq, inflight, owed>>,
           g_spi_pdc_flag = "RX_COMPLETE" <=> g_spi_pdc_flag' = "RX_COMPLETE"
    PROVE  EInv'
<1>1. Owned'
  BY OwnedKept DEF EInv, rxRing, txRing, memory
<1>2. TxOK'
  BY TxKept DEF EInv, memory
<1>3. \E c \in 0 .. NETIF_RX_BUFFERS : RxOK(c)'
  BY ReceiveKept DEF EInv, memory
<1> QED BY <1>1, <1>2, <1>3 DEF EInv

LEMMA FrameLeavesE == ASSUME EInv, FrameLeaves PROVE EInv'
<1> USE DEF FrameLeaves
<1>1. TypeOK'
  BY Sizes DEF EInv, TypeOK, rxRing, txRing, dma, memory
<1>2. Control'
  BY Sizes DEF EInv, TypeOK, Control, Receiving, Sending, rxRing, txRing, dma, memory
<1> QED BY <1>1, <1>2, Quiet DEF dma

LEMMA UpdateNothingE == ASSUME EInv, UpdateNothing PROVE EInv'
<1> USE DEF UpdateNothing
<1>1. TypeOK'
  BY DEF EInv, TypeOK, chip, rxRing, txRing, dma, memory
<1>2. Control'
  BY DEF EInv, Control, Receiving, Sending, chip, rxRing, txRing, dma, memory
<1> QED BY <1>1, <1>2, Quiet DEF chip, dma

LEMMA StartTxE == ASSUME EInv, StartTx PROVE EInv'
<1> USE DEF StartTx, INTN_Handler
<1>1. TypeOK'
  BY DEF EInv, TypeOK, rxRing, txRing, memory
<1>2. Control'
  <2>1. /\ Len(fifo) = 0
        /\ ResendQueued \/ fifo = [i \in 1 .. Len(fifo) |-> -1]
        /\ ChainLen(tx_pbuf[us_tx_tail]) \in {1, 2}
    BY DEF EInv, Control, Receiving, Sending, ChainLen
  <2> QED BY <2>1 DEF Control, Receiving, Sending, SendWaiting, txRing
<1> QED BY <1>1, <1>2, Quiet

LEMMA BeginRxE == ASSUME EInv, BeginRx PROVE EInv'
<1> USE DEF BeginRx
<1>1. TypeOK'
  BY DEF EInv, TypeOK, chip, rxRing, txRing, dma, memory
<1>2. Control'
  BY DEF EInv, TypeOK, Control, Receiving, Sending, chip, rxRing, txRing, dma, memory
<1> QED BY <1>1, <1>2, Quiet DEF chip, dma

LEMMA ReadStatusE == ASSUME EInv, ReadStatus PROVE EInv'
<1> USE DEF ReadStatus, INTN_Handler
<1>1. TypeOK'
  BY DEF EInv, TypeOK, rxRing, txRing, dma, memory
<1>2. Control'
  BY DEF EInv, Control, Receiving, Sending, rxRing, txRing, dma, memory
<1> QED BY <1>1, <1>2, Quiet DEF dma

LEMMA ClearStatusE == ASSUME EInv, ClearStatus PROVE EInv'
<1> USE DEF ClearStatus, INTN_Handler
<1>1. TypeOK'
  BY DEF EInv, TypeOK, rxRing, txRing, dma, memory
<1>2. Control'
  BY DEF EInv, Control, Receiving, Sending, rxRing, txRing, dma, memory
<1> QED BY <1>1, <1>2, Quiet DEF dma

LEMMA ReadCountE == ASSUME EInv, ReadCount PROVE EInv'
<1> USE DEF ReadCount, INTN_Handler
<1>0. Len(rxq) \in 0 .. RXQ_FRAMES /\ (rxq # <<>> => Len(rxq) > 0)
  BY LenProperties, EmptySeq, Sizes DEF EInv, TypeOK
<1>1. TypeOK'
  BY <1>0 DEF EInv, TypeOK, rxRing, txRing, dma, memory
<1>2. Control'
  BY <1>0 DEF EInv, Control, Receiving, Sending, rxRing, txRing, dma, memory
<1> QED BY <1>1, <1>2, Quiet DEF dma

LEMMA NoInputE == ASSUME EInv, NoInput PROVE EInv'
<1> USE DEF NoInput
<1>1. TypeOK'
  BY DEF EInv, TypeOK, chip, rxRing, txRing, dma, memory
<1>2. Control'
  BY DEF EInv, Control, Receiving, Sending, chip, rxRing, txRing, dma, memory
<1> QED BY <1>1, <1>2, Quiet DEF chip, dma
\* The frame the number of which the queue goes on from.
Base(c) == IF g_spi_pdc_flag = "RX_COMPLETE" THEN c + 1 ELSE c

LEMMA Queue ==
    ASSUME TypeOK, Control, NEW c \in 0 .. NETIF_RX_BUFFERS, RxOK(c)
    PROVE  /\ rxq \in Seq(Nat) /\ Len(rxq) \in 0 .. RXQ_FRAMES /\ inflight \in Nat
           /\ Base(c) \in 0 .. NETIF_RX_BUFFERS
           /\ Numbered(rxq, Base(c), inflight)
           /\ inflight <= Base(c) + Len(rxq)
<1>1. rxq \in Seq(Nat) /\ Len(rxq) \in 0 .. RXQ_FRAMES /\ inflight \in Nat
  <2>1. Len(rxq) \in Nat
    BY LenProperties DEF TypeOK
  <2> QED BY <2>1, Sizes DEF TypeOK
<1>2. Numbered(rxq, Base(c), inflight)
  BY DEF RxOK, Base
<1>3. Base(c) \in 0 .. NETIF_RX_BUFFERS
  <2>1. CASE g_spi_pdc_flag = "RX_COMPLETE"
    <3>1. rx_desc[us_rx_head] = 0
      BY <2>1 DEF Control, Receiving
    <3>2. RingOK(rx_desc, us_rx_head, us_rx_tail, NETIF_RX_BUFFERS, c)
      BY DEF RxOK
    <3>3. \A i \in 0 .. NETIF_RX_BUFFERS - 1 : Pos(i, us_rx_tail, NETIF_RX_BUFFERS) < NETIF_RX_BUFFERS
      BY Sizes DEF Pos, TypeOK, RxSlots
    <3>4. us_rx_head \in 0 .. NETIF_RX_BUFFERS - 1
      BY DEF TypeOK, RxSlots
    <3>5. c # NETIF_RX_BUFFERS
      BY <3>1, <3>2, <3>3, <3>4 DEF RingOK
    <3> QED BY <2>1, <3>5, Sizes DEF Base
  <2> QED BY <2>1, Sizes DEF Base
<1>4. inflight <= Base(c) + Len(rxq)
  BY <1>1, <1>2, NumberedBounds
<1> QED BY <1>1, <1>2, <1>3, <1>4

LEMMA FrameArrivesE == ASSUME EInv, NEW good \in BOOLEAN, FrameArrives(good) PROVE EInv'
<1> DEFINE d == IF good THEN 1 ELSE 0
<1>1. PICK c \in 0 .. NETIF_RX_BUFFERS : RxOK(c)
  BY DEF EInv
<1>2. TypeOK /\ Control /\ Owned /\ TxOK
  BY DEF EInv
<1>3. /\ Len(rxq) < RXQ_FRAMES
      /\ rxq' = Append(rxq, IF d = 1 THEN inflight + 1 ELSE 0)
      /\ inflight' = inflight + d
      /\ UNCHANGED <<txq, rxRing, txRing, pending_frame, dma, memory, pc, owed, credit>>
      /\ int_rx' \in BOOLEAN /\ int_mask' \in BOOLEAN /\ g_intn_flag' \in BOOLEAN
  BY <1>2 DEF FrameArrives, INTN_Handler, TypeOK
<1>4. d \in {0, 1}
  OBVIOUS
<1> HIDE DEF d
<1>5. /\ rxq \in Seq(Nat) /\ Len(rxq) \in 0 .. RXQ_FRAMES /\ inflight \in Nat
      /\ Base(c) \in 0 .. NETIF_RX_BUFFERS
      /\ Numbered(rxq, Base(c), inflight)
      /\ inflight <= Base(c) + Len(rxq)
  BY <1>1, <1>2, Queue
<1>6. Numbered(rxq', Base(c), inflight')
  BY <1>3, <1>4, <1>5, NumberedAppend
<1>7. inflight' \in 0 .. RXQ_FRAMES + NETIF_RX_BUFFERS /\ Len(rxq') = Len(rxq) + 1
      /\ rxq' \in Seq(0 .. RXQ_FRAMES + NETIF_RX_BUFFERS)
  <2>1. inflight + 1 \in 0 .. RXQ_FRAMES + NETIF_RX_BUFFERS
    <3>1. ASSUME NEW b \in Nat, NEW l \in Nat, NEW x \in Nat, NEW m \in Nat, NEW n \in Nat,
                 x <= b + l, b <= n, l < m
          PROVE  x + 1 \in 0 .. m + n
      BY <3>1
    <3>2. Base(c) \in Nat /\ Len(rxq) \in Nat /\ Base(c) <= NETIF_RX_BUFFERS
      BY <1>5, Sizes
    <3> QED BY <1>3, <1>5, <3>1, <3>2, Sizes
  <2>2. inflight + d \in 0 .. RXQ_FRAMES + NETIF_RX_BUFFERS
    <3>1. inflight + 0 = inflight /\ inflight \in 0 .. RXQ_FRAMES + NETIF_RX_BUFFERS
      BY <1>2, Sizes DEF TypeOK
    <3>2. CASE d = 0
      BY <3>1, <3>2
    <3>3. CASE d = 1
      BY <2>1, <3>3
    <3> QED BY <1>4, <3>2, <3>3
  <2>3. rxq \in Seq(0 .. RXQ_FRAMES + NETIF_RX_BUFFERS)
    BY <1>2 DEF TypeOK
  <2>4. (IF d = 1 THEN inflight + 1 ELSE 0) \in 0 .. RXQ_FRAMES + NETIF_RX_BUFFERS
    <3>1. 0 \in 0 .. RXQ_FRAMES + NETIF_RX_BUFFERS
      BY Sizes
    <3> QED BY <2>1, <3>1
  <2> QED BY <1>3, <2>2, <2>3, <2>4, AppendProperties
<1>8. TypeOK'
  <2>1. Len(rxq') <= RXQ_FRAMES
    BY <1>3, <1>5, <1>7, Sizes
  <2> QED BY <1>2, <1>3, <1>7, <2>1 DEF TypeOK, rxRing, txRing, dma, memory
<1>9. Control'
  <2>1. g_spi_pdc_flag = "RX_START" => rxq' # <<>> /\ Head(rxq') = Head(rxq)
    <3> SUFFICES ASSUME g_spi_pdc_flag = "RX_START"
                 PROVE  rxq' # <<>> /\ Head(rxq') = Head(rxq)
      OBVIOUS
    <3>1. rxq # <<>>
      BY <1>2 DEF Control
    <3>2. Len(rxq) > 0
      BY <1>5, <3>1, EmptySeq
    <3>3. rxq' # <<>> /\ rxq'[1] = rxq[1]
      <4>1. (IF d = 1 THEN inflight + 1 ELSE 0) \in Nat
        BY <1>5
      <4> QED BY <1>3, <1>5, <3>2, <4>1, AppendProperties
    <3> QED BY <1>3, <3>1, <3>3
  <2> QED BY <1>2, <1>3, <2>1 DEF Control, Receiving, Sending, rxRing, txRing, dma
<1>10. Owned' /\ TxOK'
  BY <1>2, <1>3, OwnedKept, TxKept DEF rxRing, txRing, memory
<1>11. RxOK(c)'
  <2>1. UNCHANGED rxRing /\ data' = data /\ g_spi_pdc_flag' = g_spi_pdc_flag
    BY <1>3 DEF memory, dma
  <2>2. g_spi_pdc_flag' = "RX_COMPLETE" => data'[rx_pbuf[us_rx_head]] = c + 1
    BY <1>1, <2>1 DEF RxOK
  <2> QED BY <1>1, <1>6, <2>1, <2>2, RxKept DEF Base
<1> QED BY <1>8, <1>9, <1>10, <1>11 DEF EInv
\* What the DMA writes into the pbuf at the head of the receive ring is no other
\* frame's content.
LEMMA HeadWritten ==
    ASSUME TypeOK, Owned, TxOK, rx_desc[us_rx_head] = 0, rx_pbuf[us_rx_head] # NULL,
           NEW d \in Int, data' = [data EXCEPT ![rx_pbuf[us_rx_head]] = d]
    PROVE  /\ data' \in [Pbufs -> Int] /\ data'[rx_pbuf[us_rx_head]] = d
           /\ \A i \in RxSlots : rx_desc[i] = 1 => data'[rx_pbuf[i]] = data[rx_pbuf[i]]
           /\ \A i \in TxSlots : tx_desc[i] = 1 => data'[tx_pbuf[i]] = data[tx_pbuf[i]]
<1> DEFINE p == rx_pbuf[us_rx_head]
<1>1. us_rx_head \in RxSlots /\ data \in [Pbufs -> Int]
  BY DEF TypeOK
<1>2. /\ p \in Pbufs
      /\ \A j \in RxSlots : rx_pbuf[j] = p => j = us_rx_head
      /\ \A j \in TxSlots : tx_desc[j] = 1 => tx_pbuf[j] # p
  BY <1>1, Apart
<1> HIDE DEF p
<1>3. data' = [data EXCEPT ![p] = d]
  BY DEF p
<1>4. /\ data' \in [Pbufs -> Int] /\ data'[p] = d
      /\ \A q \in Pbufs : q # p => data'[q] = data[q]
  BY <1>1, <1>2, <1>3
<1>5. \A i \in TxSlots : tx_desc[i] = 1 => tx_pbuf[i] \in Pbufs
  BY DEF TypeOK, TxOK
<1>6. ASSUME NEW i \in RxSlots, rx_desc[i] = 1
      PROVE  data'[rx_pbuf[i]] = data[rx_pbuf[i]]
  <2>1. rx_pbuf[i] # p
    BY <1>2, <1>6
  <2>2. CASE rx_pbuf[i] \in Pbufs
    BY <1>4, <2>1, <2>2
  <2>3. CASE rx_pbuf[i] = NULL
    <3>1. rx_pbuf[i] \notin Pbufs
      BY <2>3, Sizes
    <3> QED BY <1>1, <1>2, <1>3, <2>1, <3>1
  <2> QED BY <2>2, <2>3, Sizes DEF TypeOK
<1> QED BY <1>2, <1>4, <1>5, <1>6 DEF p

LEMMA SPI_Handler_RXE == ASSUME EInv, SPI_Handler_RX PROVE EInv'
<1>1. PICK c \in 0 .. NETIF_RX_BUFFERS : RxOK(c)
  BY DEF EInv
<1>2. TypeOK /\ Control /\ Owned /\ TxOK
  BY DEF EInv
<1>3. /\ g_spi_pdc_flag = "RX_START" /\ g_spi_pdc_flag' = "RX_COMPLETE"
      /\ data' = [data EXCEPT ![rx_pbuf[us_rx_head]] = Head(rxq)]
      /\ rxq' = Tail(rxq)
      /\ UNCHANGED <<int_rx, int_mask, txq, rxRing, txRing, pending_frame, g_intn_flag,
                     fifo, ref, held, pc, inflight, owed, credit>>
  BY DEF SPI_Handler_RX
<1>4. /\ rxq \in Seq(Nat) /\ Len(rxq) \in 0 .. RXQ_FRAMES /\ inflight \in Nat
      /\ Numbered(rxq, c, inflight) /\ c \in Nat
  BY <1>1, <1>2, <1>3, Queue, Sizes DEF Base
<1>5. rxq # <<>> /\ Head(rxq) # 0 /\ rx_desc[us_rx_head] = 0 /\ rx_pbuf[us_rx_head] # NULL
  BY <1>2, <1>3 DEF Control, Receiving
<1>6. Head(rxq) = c + 1 /\ Numbered(Tail(rxq), c + 1, inflight)
  BY <1>4, <1>5, NumberedBounds, NumberedTail
<1>7. /\ data' \in [Pbufs -> Int] /\ data'[rx_pbuf[us_rx_head]] = c + 1
      /\ \A i \in RxSlots : rx_desc[i] = 1 => data'[rx_pbuf[i]] = data[rx_pbuf[i]]
      /\ \A i \in TxSlots : tx_desc[i] = 1 => data'[tx_pbuf[i]] = data[tx_pbuf[i]]
  <2>1. Head(rxq) \in Int
    BY <1>4, <1>6
  <2> QED BY <1>2, <1>3, <1>5, <1>6, <2>1, HeadWritten
<1>8. TypeOK'
  <2>1. rxq' \in Seq(0 .. RXQ_FRAMES + NETIF_RX_BUFFERS) /\ Len(rxq') = Len(rxq) - 1
    BY <1>2, <1>3, <1>5, HeadTailProperties DEF TypeOK
  <2>2. Len(rxq') <= RXQ_FRAMES
    BY <1>4, <2>1, Sizes
  <2> QED BY <1>2, <1>3, <1>7, <2>1, <2>2 DEF TypeOK, rxRing, txRing
<1>9. Control'
  BY <1>2, <1>3, <1>5 DEF Control, Receiving, Sending, rxRing, txRing
<1>10. Owned' /\ TxOK'
  BY <1>2, <1>3, <1>7, OwnedKept, TxKept DEF rxRing, txRing
<1>11. RxOK(c)'
  BY <1>1, <1>3, <1>6, <1>7, RxKept
<1> QED BY <1>8, <1>9, <1>10, <1>11 DEF EInv

LEMMA StartRxE == ASSUME EInv, StartRx PROVE EInv'
<1>1. PICK c \in 0 .. NETIF_RX_BUFFERS : RxOK(c)
  BY DEF EInv
<1>2. TypeOK /\ Control /\ Owned /\ TxOK
  BY DEF EInv
<1>3. /\ pc = "slot" /\ rx_desc[us_rx_head] = 0 /\ rx_pbuf[us_rx_head] # NULL
      /\ rxq # <<>> /\ Head(rxq) # 0
      /\ g_spi_pdc_flag = "IDLE" /\ pending_frame > 0
      /\ g_spi_pdc_flag' = "RX_START" /\ pc' = "input"
      /\ data' = [data EXCEPT ![rx_pbuf[us_rx_head]] = 0]
      /\ UNCHANGED <<chip, rxRing, txRing, pending_frame, g_intn_flag, fifo, ref,
                     held, inflight, owed, credit>>
  BY <1>2 DEF StartRx, SlotReady, BadHead, Control
<1>4. /\ data' \in [Pbufs -> Int]
      /\ \A i \in RxSlots : rx_desc[i] = 1 => data'[rx_pbuf[i]] = data[rx_pbuf[i]]
      /\ \A i \in TxSlots : tx_desc[i] = 1 => data'[tx_pbuf[i]] = data[tx_pbuf[i]]
  <2>1. 0 \in Int
    OBVIOUS
  <2> QED BY <1>2, <1>3, <2>1, HeadWritten
<1>5. TypeOK'
  BY <1>2, <1>3, <1>4 DEF TypeOK, chip, rxRing, txRing
<1>6. Control'
  BY <1>2, <1>3 DEF Control, Receiving, Sending, chip, rxRing, txRing
<1>7. Owned' /\ TxOK'
  BY <1>2, <1>3, <1>4, OwnedKept, TxKept DEF rxRing, txRing
<1>8. RxOK(c)'
  <2>1. Numbered(rxq, c, inflight) /\ rxq' = rxq /\ inflight' = inflight
    BY <1>1, <1>3 DEF RxOK, chip
  <2> QED BY <1>1, <1>3, <1>4, <2>1, RxKept
<1> QED BY <1>5, <1>6, <1>7, <1>8 DEF EInv

LEMMA ReadFrameErrorE == ASSUME EInv, ReadFrameError PROVE EInv'
<1> USE DEF ReadFrameError
<1>1. TypeOK'
  BY DEF EInv, TypeOK, chip, rxRing, txRing, dma, memory
<1>2. Control'
  BY DEF EInv, Control, Receiving, Sending, SlotReady, chip, rxRing, txRing, dma, memory
<1> QED BY <1>1, <1>2, Quiet DEF chip, dma

LEMMA FreePacketE == ASSUME EInv, FreePacket PROVE EInv'
<1> DEFINE K == RXQ_FRAMES + NETIF_RX_BUFFERS
<1>1. PICK c \in 0 .. NETIF_RX_BUFFERS : RxOK(c)
  BY DEF EInv
<1>2. TypeOK /\ Control /\ Owned /\ TxOK
  BY DEF EInv
<1>3. /\ pc = "drop" /\ g_spi_pdc_flag = "IDLE" /\ pc' = "input"
      /\ rxq' = IF rxq = <<>> THEN rxq ELSE IF Head(rxq) = 0 THEN Tail(rxq)
                 ELSE MovedUp(Tail(rxq))
      /\ inflight' = inflight - (IF rxq = <<>> THEN 0 ELSE IF Head(rxq) = 0 THEN 0 ELSE 1)
      /\ UNCHANGED <<int_rx, int_mask, txq, rxRing, txRing, pending_frame, g_intn_flag, dma,
                     memory, owed, credit>>
  BY <1>2 DEF FreePacket, BadHead, Control
<1>4. /\ rxq \in Seq(Nat) /\ Len(rxq) \in 0 .. RXQ_FRAMES /\ inflight \in Nat
      /\ Numbered(rxq, c, inflight) /\ c \in Nat
      /\ rxq \in Seq(0 .. K) /\ inflight \in 0 .. K /\ K \in Nat
  BY <1>1, <1>2, <1>3, Queue, Sizes DEF Base, TypeOK
<1> HIDE DEF K
<1>5. /\ Numbered(rxq', c, inflight')
      /\ rxq' \in Seq(0 .. K) /\ Len(rxq') <= RXQ_FRAMES /\ inflight' \in 0 .. K
  <2>1. CASE rxq = <<>>
    BY <1>3, <1>4, <2>1, Sizes
  <2>2. CASE rxq # <<>>
    <3>1. /\ Tail(rxq) \in Seq(0 .. K) /\ Tail(rxq) \in Seq(Nat)
          /\ Len(Tail(rxq)) = Len(rxq) - 1 /\ Len(Tail(rxq)) \in Nat
      BY <1>4, <2>2, HeadTailProperties, LenProperties
    <3>2. Len(Tail(rxq)) <= RXQ_FRAMES
      BY <1>4, <3>1, Sizes
    <3>3. CASE Head(rxq) = 0
      <4>1. Numbered(Tail(rxq), c, inflight)
        BY <1>4, <2>2, <3>3, NumberedTail
      <4> QED BY <1>3, <1>4, <2>2, <3>1, <3>2, <3>3, <4>1
    <3>4. CASE Head(rxq) # 0
      <4> DEFINE q == Tail(rxq)
      <4>1. Numbered(q, c + 1, inflight) /\ c + 1 >= 1 /\ (c + 1) - 1 = c
        BY <1>4, <2>2, <3>4, NumberedTail
      <4>2. rxq' = MovedUp(q) /\ inflight' = inflight - 1
        BY <1>3, <2>2, <3>4
      <4>3. q \in Seq(Nat) /\ q \in Seq(0 .. K) /\ Len(q) \in Nat
        BY <3>1
      <4> HIDE DEF q
      <4>4. Numbered(rxq', c, inflight') /\ Len(rxq') = Len(q)
        <5>1. Len(rxq') = Len(q) /\ Numbered(rxq', (c + 1) - 1, inflight - 1)
          BY <1>4, <4>1, <4>2, <4>3, NumberedDown DEF MovedUp
        <5> QED BY <4>1, <4>2, <5>1
      <4>5. inflight' \in 0 .. K
        <5>1. c + 1 \in 0 .. inflight
          BY <1>4, <4>1, <4>3, NumberedBounds
        <5> QED BY <1>4, <4>2, <5>1
      <4>6. rxq' \in Seq(0 .. K)
        BY <1>4, <4>2, <4>3, MovedUpType
      <4> QED BY <3>2, <4>4, <4>5, <4>6 DEF q
    <3> QED BY <3>3, <3>4
  <2> QED BY <2>1, <2>2
<1>6. TypeOK'
  BY <1>2, <1>3, <1>5 DEF TypeOK, rxRing, txRing, dma, memory, K
<1>7. Control'
  BY <1>2, <1>3 DEF Control, Receiving, Sending, rxRing, txRing, dma
<1>8. Owned' /\ TxOK'
  BY <1>2, <1>3, OwnedKept, TxKept DEF rxRing, txRing, memory
<1>9. RxOK(c)'
  <2>1. UNCHANGED rxRing /\ data' = data /\ g_spi_pdc_flag' = "IDLE"
    BY <1>3 DEF memory, dma
  <2> QED BY <1>1, <1>5, <2>1, RxKept
<1> QED BY <1>6, <1>7, <1>8, <1>9 DEF EInv

LEMMA SPI_Handler_TXE == ASSUME EInv, SPI_Handler_TX PROVE EInv'
<1> DEFINE p == tx_pbuf[us_tx_tail]
<1>1. TypeOK /\ Control /\ Owned /\ TxOK
  BY DEF EInv
<1>2. /\ g_spi_pdc_flag = "TX_START"
      /\ fifo' = Append(fifo, data[p])
      /\ g_spi_pdc_flag' = IF Len(fifo') < ChainLen(p) THEN "TX_START" ELSE "TX_COMPLETE"
      /\ UNCHANGED <<chip, rxRing, txRing, pending_frame, g_intn_flag,
                     memory, pc, inflight, owed, credit>>
  BY DEF SPI_Handler_TX
<1>3. data[p] \in Int /\ (ResendQueued \/ data[p] = -1)
  <2>1. us_tx_tail \in TxSlots /\ tx_desc[us_tx_tail] = 1
    BY <1>1, <1>2 DEF Control, Sending, TypeOK
  <2>2. Pos(us_tx_tail, us_tx_tail, NETIF_TX_BUFFERS) = 0
    BY <2>1, Sizes DEF Pos, TxSlots
  <2>3. p \in Pbufs
    BY <1>1, <2>1 DEF TxOK, TypeOK
  <2> QED BY <1>1, <2>1, <2>2, <2>3 DEF TxOK, TypeOK
<1>4. /\ fifo \in Seq(Int) /\ Len(fifo) \in Nat
      /\ ResendQueued \/ fifo = [i \in 1 .. Len(fifo) |-> -1]
      /\ Len(fifo) < ChainLen(p) /\ ChainLen(p) \in {1, 2}
  BY <1>1, <1>2, LenProperties DEF TypeOK, Control, ChainLen
<1> HIDE DEF p
<1>5. /\ fifo' \in Seq(Int) /\ Len(fifo') = Len(fifo) + 1
      /\ ResendQueued \/ fifo' = [i \in 1 .. Len(fifo') |-> -1]
  <2>1. /\ fifo' \in Seq(Int) /\ Len(fifo') = Len(fifo) + 1
        /\ fifo'[Len(fifo) + 1] = data[p] /\ \A i \in 1 .. Len(fifo) : fifo'[i] = fifo[i]
    BY <1>2, <1>3, <1>4, AppendProperties
  <2>2. ASSUME ~ResendQueued
        PROVE  fifo' = [i \in 1 .. Len(fifo') |-> -1]
    <3>1. \A i \in 1 .. Len(fifo) : fifo[i] = -1
      BY <1>4, <2>2
    <3>2. \A i \in 1 .. Len(fifo') : fifo'[i] = -1
      BY <1>3, <1>4, <2>1, <2>2, <3>1
    <3>3. fifo' = [i \in 1 .. Len(fifo') |-> fifo'[i]]
      BY <2>1
    <3> QED BY <3>2, <3>3
  <2> QED BY <2>1, <2>2
<1>6. TypeOK'
  BY <1>1, <1>2, <1>4, <1>5 DEF TypeOK, chip, rxRing, txRing, memory
<1>7. Control'
  <2>1. IF g_spi_pdc_flag' = "TX_START" THEN Len(fifo') < ChainLen(p)
        ELSE Len(fifo') = ChainLen(p)
    BY <1>2, <1>4, <1>5
  <2> QED BY <1>1, <1>2, <1>5, <2>1 DEF Control, Receiving, Sending, chip, rxRing, txRing, p
<1>8. Owned' /\ TxOK'
  BY <1>1, <1>2, OwnedKept, TxKept DEF rxRing, txRing, memory
<1>9. \E c \in 0 .. NETIF_RX_BUFFERS : RxOK(c)'
  BY <1>2, ReceiveKept DEF EInv, chip, memory
<1> QED BY <1>6, <1>7, <1>8, <1>9 DEF EInv
LEMMA RxCompleteE == ASSUME EInv, RxComplete PROVE EInv'
<1>1. PICK c \in 0 .. NETIF_RX_BUFFERS : RxOK(c)
  BY DEF EInv
<1>2. TypeOK /\ Control /\ Owned /\ TxOK
  BY DEF EInv
<1>3. /\ pc = "update" /\ g_spi_pdc_flag = "RX_COMPLETE" /\ g_spi_pdc_flag' = "IDLE"
      /\ pc' = "input"
      /\ pending_frame' = pending_frame - 1
      /\ rx_desc' = [rx_desc EXCEPT ![us_rx_head] = 1]
      /\ us_rx_head' = (us_rx_head + 1) % NETIF_RX_BUFFERS
      /\ UNCHANGED <<rxq, txq, rx_pbuf, us_rx_tail, txRing, fifo, memory,
                     inflight, owed, credit>>
      /\ int_rx' \in BOOLEAN /\ int_mask' \in BOOLEAN /\ g_intn_flag' \in BOOLEAN
  <2>1. UnmaskAfterLast \in BOOLEAN
    BY <1>2 DEF UnmaskAfterLast, TypeOK
  <2> QED BY <1>2, <2>1 DEF RxComplete, RxDone, INTN_Handler, TypeOK
<1>4. pending_frame > 0 /\ rx_desc[us_rx_head] = 0 /\ rx_pbuf[us_rx_head] # NULL
  BY <1>2, <1>3 DEF Control, Receiving
<1>5. /\ data[rx_pbuf[us_rx_head]] = c + 1 /\ Numbered(rxq, c + 1, inflight)
      /\ RingOK(rx_desc, us_rx_head, us_rx_tail, NETIF_RX_BUFFERS, c)
  BY <1>1, <1>3 DEF RxOK
<1>6. /\ us_rx_head \in RxSlots /\ us_rx_tail \in RxSlots /\ rx_desc \in [RxSlots -> {0, 1}]
      /\ c \in Nat
  BY <1>2, Sizes DEF TypeOK
<1>7. /\ us_rx_head' \in RxSlots
      /\ RingOK(rx_desc', us_rx_head', us_rx_tail, NETIF_RX_BUFFERS, c + 1)
      /\ Pos(us_rx_head, us_rx_tail, NETIF_RX_BUFFERS) = c
  <2>0. /\ RingOK(rx_desc, us_rx_head, us_rx_tail, NETIF_RX_BUFFERS, c)
        /\ rx_desc[us_rx_head] = 0 /\ c \in Nat
    BY <1>4, <1>5, <1>6
  <2>1. /\ us_rx_head \in 0 .. NETIF_RX_BUFFERS - 1 /\ us_rx_tail \in 0 .. NETIF_RX_BUFFERS - 1
        /\ rx_desc \in [0 .. NETIF_RX_BUFFERS - 1 -> {0, 1}] /\ NETIF_RX_BUFFERS \in Nat \ {0}
    BY <1>6, Sizes DEF RxSlots
  <2>2. /\ rx_desc' = [rx_desc EXCEPT ![us_rx_head] = 1]
        /\ us_rx_head' = (us_rx_head + 1) % NETIF_RX_BUFFERS
    BY <1>3
  <2>3. Pos(us_rx_head, us_rx_tail, NETIF_RX_BUFFERS) = c
    <3>1. c # NETIF_RX_BUFFERS
      BY <1>2, <2>0, <2>1 DEF RingOK, Pos
    <3> QED BY <2>0, <3>1 DEF RingOK
  <2>4. us_rx_head' \in 0 .. NETIF_RX_BUFFERS - 1
    BY <2>0, <2>1, <2>2, RingAdd
  <2>5. RingOK(rx_desc', us_rx_head', us_rx_tail, NETIF_RX_BUFFERS, c + 1)
    BY <2>0, <2>1, <2>2, RingAdd
  <2> QED BY <2>3, <2>4, <2>5 DEF RxSlots
<1>8. TypeOK'
  <2>1. pending_frame' \in 0 .. RXQ_FRAMES
    BY <1>2, <1>3, <1>4, Sizes DEF TypeOK
  <2>2. rx_desc' \in [RxSlots -> {0, 1}]
    BY <1>3, <1>6
  <2> QED BY <1>2, <1>3, <1>7, <2>1, <2>2 DEF TypeOK, txRing, memory
<1>9. Control'
  BY <1>2, <1>3 DEF Control, Receiving, Sending, txRing
<1>10. Owned' /\ TxOK'
  BY <1>2, <1>3, OwnedKept, TxKept DEF txRing, memory
<1>11. RxOK(c + 1)'
  <2>1. \A i \in RxSlots : i # us_rx_head => rx_desc'[i] = rx_desc[i]
    BY <1>3, <1>6
  <2>2. \A i \in RxSlots : rx_desc'[i] = 1 =>
            /\ rx_pbuf[i] # NULL
            /\ data[rx_pbuf[i]] = Pos(i, us_rx_tail, NETIF_RX_BUFFERS) + 1
    <3> SUFFICES ASSUME NEW i \in RxSlots, rx_desc'[i] = 1
                 PROVE  /\ rx_pbuf[i] # NULL
                        /\ data[rx_pbuf[i]] = Pos(i, us_rx_tail, NETIF_RX_BUFFERS) + 1
      OBVIOUS
    <3>1. CASE i = us_rx_head
      BY <1>4, <1>5, <1>7, <3>1
    <3>2. CASE i # us_rx_head
      BY <1>1, <2>1, <3>2 DEF RxOK
    <3> QED BY <3>1, <3>2
  <2>3. UNCHANGED <<rx_pbuf, data, us_rx_tail, rxq, inflight>>
    BY <1>3 DEF memory
  <2> QED BY <1>3, <1>5, <1>7, <2>2, <2>3 DEF RxOK
<1>12. c + 1 \in 0 .. NETIF_RX_BUFFERS
  BY <1>6, <1>7, Sizes DEF RingOK
<1> QED BY <1>8, <1>9, <1>10, <1>11, <1>12 DEF EInv

LEMMA TxCompleteE == ASSUME EInv, TxComplete PROVE EInv'
<1> DEFINE p == tx_pbuf[us_tx_tail]
<1>1. PICK c \in 0 .. NETIF_RX_BUFFERS : RxOK(c)
  BY DEF EInv
<1>2. TypeOK /\ Control /\ Owned /\ TxOK
  BY DEF EInv
<1>3. /\ pc = "update" /\ g_spi_pdc_flag = "TX_COMPLETE" /\ g_spi_pdc_flag' = "IDLE"
      /\ pc' = "input"
      /\ txq' = txq + 1 /\ fifo' = <<>>
      /\ ref' = [ref EXCEPT ![p] = ref[p] - 1]
      /\ tx_pbuf' = [tx_pbuf EXCEPT ![us_tx_tail] = NULL]
      /\ tx_desc' = [tx_desc EXCEPT ![us_tx_tail] = 0]
      /\ us_tx_tail' = (us_tx_tail + 1) % NETIF_TX_BUFFERS
      /\ data' = [q \in Pbufs |-> IF data[q] < 0 THEN data[q] + 1 ELSE data[q]]
      /\ owed' = owed - 1
      /\ UNCHANGED <<rxq, rxRing, us_tx_head, pending_frame, held, inflight, credit>>
      /\ int_rx' \in BOOLEAN /\ int_mask' \in BOOLEAN /\ g_intn_flag' \in BOOLEAN
  BY <1>2 DEF TxComplete, INTN_Handler, TypeOK, pbuf_free
<1>4. tx_desc[us_tx_tail] = 1 /\ txq < TXQ_FRAMES
  BY <1>2, <1>3 DEF Control, Sending
<1>5. /\ us_tx_head \in TxSlots /\ us_tx_tail \in TxSlots /\ tx_desc \in [TxSlots -> {0, 1}]
      /\ tx_pbuf \in [TxSlots -> Pbufs \cup {NULL}] /\ ref \in [Pbufs -> Nat]
      /\ data \in [Pbufs -> Int] /\ owed \in Nat
  BY <1>2, Sizes DEF TypeOK
<1>6. p \in Pbufs
  BY <1>2, <1>4, <1>5 DEF TxOK
<1>7. CountsOK(ref, rx_pbuf, tx_desc, tx_pbuf, held)
  BY <1>2 DEF Owned, RefCounts, CountsOK, RxSet, TxSet, Hold
<1>8. /\ us_tx_tail' \in TxSlots
      /\ RingOK(tx_desc', us_tx_head, us_tx_tail', NETIF_TX_BUFFERS, owed - 1)
      /\ owed >= 1
      /\ \A i \in TxSlots : i # us_tx_tail =>
            Pos(i, us_tx_tail', NETIF_TX_BUFFERS) = Pos(i, us_tx_tail, NETIF_TX_BUFFERS) - 1
  <2>1. RingOK(tx_desc, us_tx_head, us_tx_tail, NETIF_TX_BUFFERS, owed)
    BY <1>2 DEF TxOK
  <2> QED BY <1>3, <1>4, <1>5, <2>1, RingTake, Sizes DEF TxSlots
<1> HIDE DEF p
<1>9. /\ \A i \in TxSlots : i # us_tx_tail => tx_desc'[i] = tx_desc[i] /\ tx_pbuf'[i] = tx_pbuf[i]
      /\ tx_desc'[us_tx_tail] = 0
      /\ tx_desc' \in [TxSlots -> {0, 1}] /\ tx_pbuf' \in [TxSlots -> Pbufs \cup {NULL}]
  BY <1>3, <1>5
<1>10. \A q \in Pbufs : q # p => ref'[q] = ref[q]
  BY <1>3, <1>5
<1>11. ASSUME NEW q \in Pbufs
       PROVE  /\ ref'[q] = Cardinality(RxSet(rx_pbuf, q)) + Cardinality(TxSet(tx_desc', tx_pbuf', q))
                           + Hold(held, q)
              /\ ref'[q] \in Nat
  <2> DEFINE T == TxSet(tx_desc, tx_pbuf, q)
             a == Cardinality(RxSet(rx_pbuf, q))
             h == Hold(held, q)
  <2>1. T \subseteq TxSlots /\ RxSet(rx_pbuf, q) \subseteq RxSlots
    BY DEF TxSet, RxSet
  <2>2. ref[q] = a + Cardinality(T) + h
    BY <1>7 DEF CountsOK
  <2>3. a \in Nat /\ h \in Nat /\ Cardinality(T) \in Nat
    BY <2>1, SlotSets DEF Hold
  <2>4. CASE q = p
    <3>1. us_tx_tail \in T
      BY <1>4, <1>5, <2>4 DEF TxSet, p
    <3>2. TxSet(tx_desc', tx_pbuf', q) = T \ {us_tx_tail}
      BY <1>9 DEF TxSet
    <3> HIDE DEF T, a, h
    <3>3. Cardinality(T \ {us_tx_tail}) = Cardinality(T) - 1
      BY <2>1, <3>1, SlotLess
    <3>4. Cardinality(TxSet(tx_desc', tx_pbuf', q)) = Cardinality(T) - 1
      BY <3>2, <3>3
    <3>5. Cardinality(T) # 0
      BY <2>1, <3>1, SlotSets
    <3>6. ref'[q] = ref[q] - 1 /\ ref[q] \in Nat
      BY <1>3, <1>5, <2>4
    <3>7. ref'[q] = a + Cardinality(TxSet(tx_desc', tx_pbuf', q)) + h /\ ref'[q] \in Nat
      BY <2>2, <2>3, <3>4, <3>5, <3>6
    <3> QED BY <3>7 DEF a, h
  <2>5. CASE q # p
    <3>1. us_tx_tail \notin T
      BY <2>5 DEF TxSet, p
    <3>2. TxSet(tx_desc', tx_pbuf', q) = T
      BY <1>9, <3>1 DEF TxSet
    <3>3. ref'[q] = ref[q] /\ ref[q] \in Nat
      BY <1>5, <1>10, <2>5
    <3> QED BY <2>2, <3>2, <3>3
  <2> QED BY <2>4, <2>5
<1>12. TypeOK'
  <2>1. data' \in [Pbufs -> Int] /\ ref' \in [Pbufs -> Nat]
    <3>1. \A q \in Pbufs : (IF data[q] < 0 THEN data[q] + 1 ELSE data[q]) \in Int
      BY <1>5
    <3>2. data' \in [Pbufs -> Int]
      BY <1>3, <3>1
    <3>3. ref' = [q \in Pbufs |-> ref'[q]]
      BY <1>3, <1>5
    <3>4. \A q \in Pbufs : ref'[q] \in Nat
      BY <1>11
    <3> QED BY <3>2, <3>3, <3>4
  <2>2. txq' \in 0 .. TXQ_FRAMES /\ owed' \in 0 .. NETIF_TX_BUFFERS
    BY <1>2, <1>3, <1>4, <1>8, Sizes DEF TypeOK
  <2>3. fifo' \in Seq(Int) /\ Len(fifo') <= 2
    BY <1>3
  <2> QED BY <1>2, <1>3, <1>8, <1>9, <2>1, <2>2, <2>3 DEF TypeOK, rxRing
<1>13. Owned'
  <2>1. RefCounts'
    BY <1>3, <1>11 DEF RefCounts, RxSet, TxSet, Hold, rxRing
  <2>2. ASSUME NEW i \in RxSlots, rx_pbuf[i] # NULL
        PROVE  ref'[rx_pbuf[i]] = 1
    <3>1. rx_pbuf[i] \in Pbufs /\ ref[rx_pbuf[i]] = 1 /\ rx_pbuf[i] # p
      BY <1>2, <1>4, <1>5, <2>2, Apart DEF p
    <3> QED BY <1>10, <3>1
  <2> QED BY <1>3, <2>1, <2>2 DEF Owned, rxRing
<1>14. Control'
  <2>1. Len(fifo') = 0 /\ fifo' = [i \in 1 .. Len(fifo') |-> -1]
    BY <1>3
  <2>2. pending_frame' = pending_frame /\ (pc = "slot" \/ Receiving => pending_frame > 0)
    BY <1>2, <1>3 DEF Control
  <2> QED BY <1>3, <2>1, <2>2 DEF Control, Receiving, Sending
<1>15. RxOK(c)'
  <2>1. \A i \in RxSlots : rx_desc[i] = 1 => data'[rx_pbuf[i]] = data[rx_pbuf[i]]
    <3> SUFFICES ASSUME NEW i \in RxSlots, rx_desc[i] = 1
                 PROVE  data'[rx_pbuf[i]] = data[rx_pbuf[i]]
      OBVIOUS
    <3>1. rx_pbuf[i] # NULL /\ data[rx_pbuf[i]] = Pos(i, us_rx_tail, NETIF_RX_BUFFERS) + 1
      BY <1>1 DEF RxOK
    <3>2. Pos(i, us_rx_tail, NETIF_RX_BUFFERS) \in Nat
      BY <1>2, Sizes DEF Pos, TypeOK, RxSlots
    <3>3. rx_pbuf[i] \in Pbufs
      BY <1>2, <3>1, Apart
    <3> QED BY <1>3, <3>1, <3>2, <3>3
  <2>2. Numbered(rxq, c, inflight) /\ rxq' = rxq /\ inflight' = inflight
    BY <1>1, <1>3 DEF RxOK
  <2> QED BY <1>1, <1>3, <2>1, <2>2, RxKept
<1>16. TxOK'
  <2>1. ASSUME NEW i \in TxSlots, tx_desc'[i] = 1
        PROVE  /\ tx_pbuf'[i] # NULL /\ data'[tx_pbuf'[i]] <= 0
               /\ \/ ResendQueued
                  \/ data'[tx_pbuf'[i]] = -(Pos(i, us_tx_tail', NETIF_TX_BUFFERS) + 1)
    <3>1. i # us_tx_tail /\ tx_desc[i] = 1 /\ tx_pbuf'[i] = tx_pbuf[i]
      BY <1>9, <2>1
    <3>2. /\ tx_pbuf[i] \in Pbufs /\ tx_pbuf[i] # NULL /\ data[tx_pbuf[i]] <= 0
          /\ ResendQueued \/ data[tx_pbuf[i]] = -(Pos(i, us_tx_tail, NETIF_TX_BUFFERS) + 1)
      BY <1>2, <1>5, <3>1 DEF TxOK
    <3>3. /\ Pos(i, us_tx_tail, NETIF_TX_BUFFERS) \in Nat \ {0}
      BY <1>5, <3>1, Sizes DEF Pos, TxSlots
    <3>4. Pos(i, us_tx_tail', NETIF_TX_BUFFERS) = Pos(i, us_tx_tail, NETIF_TX_BUFFERS) - 1
      BY <1>8, <3>1
    <3>5. data[tx_pbuf[i]] \in Int
          /\ data'[tx_pbuf[i]] = IF data[tx_pbuf[i]] < 0 THEN data[tx_pbuf[i]] + 1
                                  ELSE data[tx_pbuf[i]]
      BY <1>3, <1>5, <3>2
    <3> HIDE DEF Pos
    <3>6. data'[tx_pbuf[i]] <= 0
      BY <3>2, <3>5
    <3>7. ResendQueued \/ data'[tx_pbuf[i]] = -(Pos(i, us_tx_tail', NETIF_TX_BUFFERS) + 1)
      BY <3>2, <3>3, <3>4, <3>5
    <3> QED BY <3>1, <3>2, <3>6, <3>7
  <2> QED BY <1>3, <1>8, <2>1 DEF TxOK
<1> QED BY <1>12, <1>13, <1>14, <1>15, <1>16 DEF EInv
LEMMA Counts == ASSUME Owned PROVE CountsOK(ref, rx_pbuf, tx_desc, tx_pbuf, held)
BY DEF Owned, RefCounts, CountsOK, RxSet, TxSet, Hold

LEMMA ReleaseE == ASSUME EInv, NEW p \in Pbufs, Release(p) PROVE EInv'
<1>1. TypeOK /\ Control /\ Owned /\ TxOK
  BY DEF EInv
<1>2. /\ p \in held /\ held' = held \ {p}
      /\ ref' = [ref EXCEPT ![p] = ref[p] - 1]
      /\ UNCHANGED <<chip, rxRing, txRing, pending_frame, g_intn_flag, dma, data, pc, inflight,
                     owed, credit>>
  BY DEF Release, pbuf_free
<1>3. CountsOK(ref, rx_pbuf, tx_desc, tx_pbuf, held) /\ ref \in [Pbufs -> Nat]
  BY <1>1, Counts DEF TypeOK
<1>4. ASSUME NEW q \in Pbufs
      PROVE  /\ ref'[q] = Cardinality(RxSet(rx_pbuf, q)) + Cardinality(TxSet(tx_desc, tx_pbuf, q))
                          + Hold(held', q)
             /\ ref'[q] \in Nat
  <2> DEFINE S == RxSet(rx_pbuf, q)
             T == TxSet(tx_desc, tx_pbuf, q)
  <2>1. S \subseteq RxSlots /\ T \subseteq TxSlots
    BY DEF RxSet, TxSet
  <2>2. ref[q] = Cardinality(S) + Cardinality(T) + Hold(held, q) /\ ref[q] \in Nat
    BY <1>3 DEF CountsOK
  <2> HIDE DEF S, T
  <2>3. Cardinality(S) \in Nat /\ Cardinality(T) \in Nat
    BY <2>1, SlotSets
  <2>4. CASE q = p
    <3>1. Hold(held, q) = 1 /\ Hold(held', q) = 0 /\ ref'[q] = ref[q] - 1
      BY <1>2, <1>3, <2>4 DEF Hold
    <3>2. ref'[q] = Cardinality(S) + Cardinality(T) + Hold(held', q) /\ ref'[q] \in Nat
      BY <2>2, <2>3, <3>1
    <3> QED BY <3>2 DEF S, T
  <2>5. CASE q # p
    <3>1. Hold(held', q) = Hold(held, q) /\ ref'[q] = ref[q]
      BY <1>2, <1>3, <2>5 DEF Hold
    <3> QED BY <2>2, <3>1 DEF S, T
  <2> QED BY <2>4, <2>5
<1>5. TypeOK'
  <2>1. ref' = [q \in Pbufs |-> ref'[q]]
    BY <1>2, <1>3
  <2>2. \A q \in Pbufs : ref'[q] \in Nat
    BY <1>4
  <2>3. ref' \in [Pbufs -> Nat]
    BY <2>1, <2>2
  <2>4. held' \subseteq Pbufs
    BY <1>1, <1>2 DEF TypeOK
  <2> QED BY <1>1, <1>2, <2>3, <2>4 DEF TypeOK, chip, rxRing, txRing, dma
<1>6. Control'
  BY <1>1, <1>2 DEF Control, Receiving, Sending, chip, rxRing, txRing, dma
<1>7. Owned'
  <2>1. RefCounts'
    BY <1>2, <1>4 DEF RefCounts, RxSet, TxSet, Hold, rxRing, txRing
  <2>2. ASSUME NEW i \in RxSlots, rx_pbuf[i] # NULL
        PROVE  ref'[rx_pbuf[i]] = 1
    <3>1. rx_pbuf[i] \in Pbufs /\ ref[rx_pbuf[i]] = 1 /\ rx_pbuf[i] # p
      BY <1>1, <1>2, <2>2, Apart
    <3> QED BY <1>2, <1>3, <3>1
  <2> QED BY <1>2, <2>1, <2>2 DEF Owned, rxRing
<1>8. TxOK'
  BY <1>1, <1>2, TxKept
<1>9. \E c \in 0 .. NETIF_RX_BUFFERS : RxOK(c)'
  BY <1>2, ReceiveKept DEF EInv, chip, dma
<1> QED BY <1>5, <1>6, <1>7, <1>8, <1>9 DEF EInv

\* ksz8851snl_low_level_output: the ring keeps what it has, and the reference
\* the driver takes goes with the slot it fills.
LEMMA OutputE ==
    ASSUME TypeOK, TxOK, NEW p \in Pbufs, NEW r \in [Pbufs -> Nat],
           Output(p, r), ~TxFull => data'[p] = -(owed + 1),
           \A i \in TxSlots : tx_desc[i] = 1 =>
               \/ data'[tx_pbuf[i]] = data[tx_pbuf[i]]
               \/ ResendQueued /\ data'[tx_pbuf[i]] <= 0
    PROVE  /\ tx_desc' \in [TxSlots -> {0, 1}] /\ tx_pbuf' \in [TxSlots -> Pbufs \cup {NULL}]
           /\ us_tx_head' \in TxSlots /\ us_tx_tail' = us_tx_tail
           /\ owed' \in 0 .. NETIF_TX_BUFFERS /\ ref' \in [Pbufs -> Nat]
           /\ TxOK'
           /\ \A q \in Pbufs : q # p => ref'[q] = r[q]
           /\ \A q \in Pbufs : ref'[q] - r[q] = Cardinality(TxSet(tx_desc', tx_pbuf', q))
                                               - Cardinality(TxSet(tx_desc, tx_pbuf, q))
           /\ \A i \in TxSlots : tx_desc[i] = 1 => tx_desc'[i] = 1 /\ tx_pbuf'[i] = tx_pbuf[i]
           /\ owed' >= owed
<1>1. /\ us_tx_head \in TxSlots /\ us_tx_tail \in TxSlots /\ tx_desc \in [TxSlots -> {0, 1}]
      /\ tx_pbuf \in [TxSlots -> Pbufs \cup {NULL}]
      /\ owed \in 0 .. NETIF_TX_BUFFERS /\ owed \in Nat
  BY Sizes DEF TypeOK
<1>2. ASSUME NEW q \in Pbufs
      PROVE  TxSet(tx_desc, tx_pbuf, q) \subseteq TxSlots
             /\ Cardinality(TxSet(tx_desc, tx_pbuf, q)) \in Nat
  <2>1. TxSet(tx_desc, tx_pbuf, q) \subseteq TxSlots
    BY DEF TxSet
  <2> QED BY <2>1, SlotSets
<1>3. CASE TxFull
  <2>1. UNCHANGED <<txRing, owed>> /\ ref' = r
    BY <1>3 DEF Output, ksz8851snl_low_level_output, txRing
  <2>2. TxOK'
    BY <2>1 DEF TxOK, txRing
  <2>3. \A q \in Pbufs : ref'[q] - r[q] = Cardinality(TxSet(tx_desc', tx_pbuf', q))
                                          - Cardinality(TxSet(tx_desc, tx_pbuf, q))
    <3> SUFFICES ASSUME NEW q \in Pbufs
                 PROVE  ref'[q] - r[q] = Cardinality(TxSet(tx_desc', tx_pbuf', q))
                                         - Cardinality(TxSet(tx_desc, tx_pbuf, q))
      OBVIOUS
    <3>1. ref'[q] = r[q] /\ r[q] \in Int /\ tx_desc' = tx_desc /\ tx_pbuf' = tx_pbuf
      BY <2>1 DEF txRing
    <3> QED BY <1>2, <3>1
  <2> QED BY <1>1, <2>1, <2>2, <2>3 DEF txRing
<1>4. CASE ~TxFull
  <2>1. /\ ref' = [r EXCEPT ![p] = r[p] + 1]
        /\ tx_desc' = [tx_desc EXCEPT ![us_tx_head] = 1]
        /\ tx_pbuf' = [tx_pbuf EXCEPT ![us_tx_head] = p]
        /\ us_tx_head' = (us_tx_head + 1) % NETIF_TX_BUFFERS
        /\ owed' = owed + 1 /\ us_tx_tail' = us_tx_tail
    BY <1>4 DEF Output, ksz8851snl_low_level_output, pbuf_ref
  <2>2. tx_desc[us_tx_head] = 0 /\ data'[p] = -(owed + 1)
    BY <1>1, <1>4 DEF TxFull
  <2>3. /\ tx_desc'[us_tx_head] = 1 /\ tx_pbuf'[us_tx_head] = p
        /\ \A i \in TxSlots : i # us_tx_head => tx_desc'[i] = tx_desc[i] /\ tx_pbuf'[i] = tx_pbuf[i]
        /\ tx_desc' \in [TxSlots -> {0, 1}] /\ tx_pbuf' \in [TxSlots -> Pbufs \cup {NULL}]
    BY <1>1, <2>1
  <2>4. /\ ref' \in [Pbufs -> Nat] /\ ref'[p] = r[p] + 1
        /\ \A q \in Pbufs : q # p => ref'[q] = r[q]
    BY <2>1
  <2>5. /\ us_tx_head' \in TxSlots
        /\ RingOK(tx_desc', us_tx_head', us_tx_tail, NETIF_TX_BUFFERS, owed + 1)
        /\ Pos(us_tx_head, us_tx_tail, NETIF_TX_BUFFERS) = owed
    <3>1. RingOK(tx_desc, us_tx_head, us_tx_tail, NETIF_TX_BUFFERS, owed)
      BY DEF TxOK
    <3>2. /\ us_tx_head \in 0 .. NETIF_TX_BUFFERS - 1 /\ us_tx_tail \in 0 .. NETIF_TX_BUFFERS - 1
          /\ tx_desc \in [0 .. NETIF_TX_BUFFERS - 1 -> {0, 1}] /\ NETIF_TX_BUFFERS \in Nat \ {0}
      BY <1>1, Sizes DEF TxSlots
    <3>3. /\ tx_desc' = [tx_desc EXCEPT ![us_tx_head] = 1]
          /\ us_tx_head' = (us_tx_head + 1) % NETIF_TX_BUFFERS
      BY <2>1
    <3>4. us_tx_head' \in TxSlots
      BY <1>1, <2>2, <3>1, <3>2, <3>3, RingAdd DEF TxSlots
    <3>5. RingOK(tx_desc', us_tx_head', us_tx_tail, NETIF_TX_BUFFERS, owed + 1)
      BY <1>1, <2>2, <3>1, <3>2, <3>3, RingAdd
    <3>6. Pos(us_tx_head, us_tx_tail, NETIF_TX_BUFFERS) = owed
      <4>1. owed # NETIF_TX_BUFFERS
        BY <2>2, <3>1, <3>2 DEF RingOK, Pos
      <4> QED BY <3>1, <4>1 DEF RingOK
    <3> QED BY <3>4, <3>5, <3>6
  <2>6. owed' \in 0 .. NETIF_TX_BUFFERS
    BY <1>1, <2>1, <2>5, Sizes DEF RingOK
  <2>7. TxOK'
    <3>1. ASSUME NEW i \in TxSlots, tx_desc'[i] = 1
          PROVE  /\ tx_pbuf'[i] # NULL /\ data'[tx_pbuf'[i]] <= 0
                 /\ \/ ResendQueued
                    \/ data'[tx_pbuf'[i]] = -(Pos(i, us_tx_tail, NETIF_TX_BUFFERS) + 1)
      <4>1. CASE i = us_tx_head
        <5>1. p # NULL
          BY Sizes
        <5> QED BY <1>1, <2>2, <2>3, <2>5, <4>1, <5>1
      <4>2. CASE i # us_tx_head
        <5>1. tx_desc[i] = 1 /\ tx_pbuf'[i] = tx_pbuf[i]
          BY <2>3, <3>1, <4>2
        <5> QED BY <5>1 DEF TxOK
      <4> QED BY <4>1, <4>2
    <3> QED BY <2>1, <2>5, <3>1 DEF TxOK
  <2>8. ASSUME NEW q \in Pbufs
        PROVE  ref'[q] - r[q] = Cardinality(TxSet(tx_desc', tx_pbuf', q))
                                - Cardinality(TxSet(tx_desc, tx_pbuf, q))
    <3>1. us_tx_head \notin TxSet(tx_desc, tx_pbuf, q) /\ r[q] \in Int
      BY <2>2 DEF TxSet
    <3>2. CASE q = p
      <4>1. TxSet(tx_desc', tx_pbuf', q) = TxSet(tx_desc, tx_pbuf, q) \cup {us_tx_head}
        BY <1>1, <2>3, <3>2 DEF TxSet
      <4>2. Cardinality(TxSet(tx_desc', tx_pbuf', q)) = Cardinality(TxSet(tx_desc, tx_pbuf, q)) + 1
        BY <1>2, <3>1, <4>1, SlotMore
      <4> QED BY <1>2, <2>4, <3>1, <3>2, <4>2
    <3>3. CASE q # p
      <4>1. TxSet(tx_desc', tx_pbuf', q) = TxSet(tx_desc, tx_pbuf, q)
        BY <2>2, <2>3, <3>3 DEF TxSet
      <4> QED BY <1>2, <2>4, <3>1, <3>3, <4>1
    <3> QED BY <3>2, <3>3
  <2>9. \A i \in TxSlots : tx_desc[i] = 1 => tx_desc'[i] = 1 /\ tx_pbuf'[i] = tx_pbuf[i]
    BY <2>2, <2>3
  <2>10. owed' >= owed
    BY <1>1, <2>1
  <2> QED BY <2>1, <2>3, <2>4, <2>5, <2>6, <2>7, <2>8, <2>9, <2>10
<1> QED BY <1>3, <1>4
LEMMA SendE == ASSUME EInv, NEW p \in RamPbufs, Send(p) PROVE EInv'
<1> DEFINE r == [ref EXCEPT ![p] = 1]
<1>1. TypeOK /\ Control /\ Owned /\ TxOK /\ p \in Pbufs
  BY DEF EInv, Pbufs
<1>2. /\ credit > 0 /\ ref[p] = 0
      /\ Output(p, r)
      /\ data' = [data EXCEPT ![p] = IF TxFull THEN 0 ELSE -(owed + 1)]
      /\ held' = held \cup {p} /\ credit' = credit - 1
      /\ UNCHANGED <<chip, rxRing, pending_frame, g_intn_flag, dma, pc, inflight>>
  BY DEF Send
<1>3. /\ CountsOK(ref, rx_pbuf, tx_desc, tx_pbuf, held) /\ ref \in [Pbufs -> Nat]
      /\ data \in [Pbufs -> Int] /\ owed \in Nat
  BY <1>1, Counts, Sizes DEF TypeOK
<1>4. RxSet(rx_pbuf, p) = {} /\ TxSet(tx_desc, tx_pbuf, p) = {} /\ p \notin held
  BY <1>1, <1>2, <1>3, NoOwner
<1>5. /\ data' \in [Pbufs -> Int] /\ (~TxFull => data'[p] = -(owed + 1))
      /\ \A q : q # p => data'[q] = data[q]
  BY <1>1, <1>2, <1>3
<1>6. /\ \A i \in RxSlots : rx_pbuf[i] # p
      /\ \A i \in TxSlots : tx_desc[i] = 1 => tx_pbuf[i] # p
  BY <1>4 DEF RxSet, TxSet
<1>7. r \in [Pbufs -> Nat] /\ r[p] = 1 /\ \A q \in Pbufs : q # p => r[q] = ref[q]
  BY <1>1, <1>3
<1> HIDE DEF r
<1>8. /\ tx_desc' \in [TxSlots -> {0, 1}] /\ tx_pbuf' \in [TxSlots -> Pbufs \cup {NULL}]
      /\ us_tx_head' \in TxSlots /\ us_tx_tail' = us_tx_tail
      /\ owed' \in 0 .. NETIF_TX_BUFFERS /\ ref' \in [Pbufs -> Nat]
      /\ TxOK'
      /\ \A q \in Pbufs : q # p => ref'[q] = r[q]
      /\ \A q \in Pbufs : ref'[q] - r[q] = Cardinality(TxSet(tx_desc', tx_pbuf', q))
                                           - Cardinality(TxSet(tx_desc, tx_pbuf, q))
      /\ \A i \in TxSlots : tx_desc[i] = 1 => tx_desc'[i] = 1 /\ tx_pbuf'[i] = tx_pbuf[i]
  <2>1. \A i \in TxSlots : tx_desc[i] = 1 => data'[tx_pbuf[i]] = data[tx_pbuf[i]]
    BY <1>5, <1>6
  <2> QED BY <1>1, <1>2, <1>5, <1>7, <2>1, OutputE
<1>9. ASSUME NEW q \in Pbufs
      PROVE  ref'[q] = Cardinality(RxSet(rx_pbuf, q)) + Cardinality(TxSet(tx_desc', tx_pbuf', q))
                       + Hold(held', q)
  <2> DEFINE a == Cardinality(RxSet(rx_pbuf, q))
             b == Cardinality(TxSet(tx_desc, tx_pbuf, q))
             d == Cardinality(TxSet(tx_desc', tx_pbuf', q))
  <2>1. RxSet(rx_pbuf, q) \subseteq RxSlots /\ TxSet(tx_desc, tx_pbuf, q) \subseteq TxSlots
        /\ TxSet(tx_desc', tx_pbuf', q) \subseteq TxSlots
    BY DEF RxSet, TxSet
  <2>2. a \in Nat /\ b \in Nat /\ d \in Nat
    BY <2>1, SlotSets
  <2>3. ref[q] = a + b + Hold(held, q)
    BY <1>3 DEF CountsOK
  <2>4. ref'[q] - r[q] = d - b /\ ref'[q] \in Int /\ r[q] \in Int
    BY <1>7, <1>8
  <2>5. CASE q = p
    <3>1. a = 0 /\ b = 0
      BY <1>4, <2>5, OneSlot, Zenon
    <3>2. Hold(held', q) = 1 /\ r[q] = 1
      BY <1>2, <1>7, <2>5 DEF Hold
    <3> HIDE DEF a, b, d
    <3>3. ref'[q] = a + d + Hold(held', q)
      BY <2>2, <2>4, <3>1, <3>2
    <3> QED BY <3>3 DEF a, d
  <2>6. CASE q # p
    <3>1. Hold(held', q) = Hold(held, q) /\ r[q] = ref[q] /\ Hold(held, q) \in Nat
      BY <1>2, <1>7, <2>6 DEF Hold
    <3> HIDE DEF a, b, d
    <3>2. ref'[q] = a + d + Hold(held', q)
      BY <2>2, <2>3, <2>4, <3>1
    <3> QED BY <3>2 DEF a, d
  <2> QED BY <2>5, <2>6
<1>10. TypeOK'
  <2>1. credit' \in 0 .. Window /\ held' \subseteq Pbufs
    BY <1>1, <1>2, Sizes DEF TypeOK
  <2> QED BY <1>1, <1>2, <1>5, <1>8, <2>1 DEF TypeOK, chip, rxRing, dma
<1>11. Control'
  BY <1>1, <1>2, <1>8 DEF TypeOK, Control, Receiving, Sending, chip, rxRing, dma
<1>12. Owned'
  <2>1. RefCounts'
    BY <1>2, <1>9 DEF RefCounts, RxSet, TxSet, Hold, rxRing
  <2>2. ASSUME NEW i \in RxSlots, rx_pbuf[i] # NULL
        PROVE  ref'[rx_pbuf[i]] = 1
    <3>1. rx_pbuf[i] \in Pbufs /\ ref[rx_pbuf[i]] = 1 /\ rx_pbuf[i] # p
      BY <1>1, <1>6, <2>2, Apart
    <3> QED BY <1>7, <1>8, <3>1
  <2> QED BY <1>2, <2>1, <2>2 DEF Owned, rxRing
<1>13. ASSUME NEW c, RxOK(c)
       PROVE  RxOK(c)'
  <2>1. \A i \in RxSlots : data'[rx_pbuf[i]] = data[rx_pbuf[i]]
    BY <1>5, <1>6
  <2>2. us_rx_head \in RxSlots /\ UNCHANGED <<rxRing, rxq, inflight, g_spi_pdc_flag>>
    BY <1>1, <1>2 DEF TypeOK, chip, dma
  <2>3. IF g_spi_pdc_flag' = "RX_COMPLETE"
        THEN data'[rx_pbuf[us_rx_head]] = c + 1 /\ Numbered(rxq', c + 1, inflight')
        ELSE Numbered(rxq', c, inflight')
    BY <1>13, <2>1, <2>2 DEF RxOK
  <2> QED BY <1>13, <2>1, <2>2, <2>3, RxKept
<1> QED BY <1>8, <1>10, <1>11, <1>12, <1>13 DEF EInv

LEMMA ResendE == ASSUME EInv, NEW p \in RamPbufs, Resend(p) PROVE EInv'
<1>1. TypeOK /\ Control /\ Owned /\ TxOK /\ p \in Pbufs
  BY DEF EInv, Pbufs
<1>2. /\ credit > 0 /\ p \in held
      /\ ref[p] = 1 \/ ResendQueued
      /\ Output(p, ref)
      /\ data' = [data EXCEPT ![p] = IF TxFull THEN 0 ELSE -(owed + 1)]
      /\ held' = held /\ credit' = credit - 1
      /\ UNCHANGED <<chip, rxRing, pending_frame, g_intn_flag, dma, pc, inflight>>
  BY DEF Resend
<1>3. /\ CountsOK(ref, rx_pbuf, tx_desc, tx_pbuf, held) /\ ref \in [Pbufs -> Nat]
      /\ data \in [Pbufs -> Int] /\ owed \in Nat
  BY <1>1, Counts, Sizes DEF TypeOK
<1>4. ref[p] = 1 => TxSet(tx_desc, tx_pbuf, p) = {}
  <2> SUFFICES ASSUME ref[p] = 1 PROVE TxSet(tx_desc, tx_pbuf, p) = {}
    OBVIOUS
  <2> DEFINE a == Cardinality(RxSet(rx_pbuf, p))
             b == Cardinality(TxSet(tx_desc, tx_pbuf, p))
  <2>1. RxSet(rx_pbuf, p) \subseteq RxSlots /\ TxSet(tx_desc, tx_pbuf, p) \subseteq TxSlots
    BY DEF RxSet, TxSet
  <2>2. a \in Nat /\ b \in Nat /\ (b = 0 <=> TxSet(tx_desc, tx_pbuf, p) = {})
    BY <2>1, SlotSets
  <2>3. 1 = a + b + 1
    BY <1>1, <1>2, <1>3 DEF CountsOK, Hold
  <2> HIDE DEF a, b
  <2> QED BY <2>2, <2>3
<1>5. /\ data' \in [Pbufs -> Int] /\ (~TxFull => data'[p] = -(owed + 1))
      /\ \A q : q # p => data'[q] = data[q]
  BY <1>1, <1>2, <1>3
<1>6. /\ \A i \in RxSlots : rx_pbuf[i] # p
      /\ \A i \in TxSlots : tx_desc[i] = 1 =>
            tx_pbuf[i] # p \/ (ResendQueued /\ data'[p] <= 0)
  <2>1. \A i \in RxSlots : rx_pbuf[i] # p
    <3>1. p \notin PoolPbufs /\ p # NULL
      BY SizeAssumption DEF RamPbufs, PoolPbufs, NULL
    <3>2. rx_pbuf \in [RxSlots -> PoolPbufs \cup {NULL}]
      BY <1>1 DEF TypeOK
    <3> QED BY <3>1, <3>2
  <2>2. data'[p] <= 0
    <3>1. data'[p] = IF TxFull THEN 0 ELSE -(owed + 1)
      BY <1>1, <1>2, <1>3
    <3> QED BY <1>3, <3>1
  <2>3. ASSUME NEW i \in TxSlots, tx_desc[i] = 1, tx_pbuf[i] = p
        PROVE  ResendQueued
    <3>1. i \in TxSet(tx_desc, tx_pbuf, p)
      BY <2>3 DEF TxSet
    <3> QED BY <1>2, <1>4, <3>1, Zenon
  <2> QED BY <2>1, <2>2, <2>3
<1>8. /\ tx_desc' \in [TxSlots -> {0, 1}] /\ tx_pbuf' \in [TxSlots -> Pbufs \cup {NULL}]
      /\ us_tx_head' \in TxSlots /\ us_tx_tail' = us_tx_tail
      /\ owed' \in 0 .. NETIF_TX_BUFFERS /\ ref' \in [Pbufs -> Nat]
      /\ TxOK'
      /\ \A q \in Pbufs : q # p => ref'[q] = ref[q]
      /\ \A q \in Pbufs : ref'[q] - ref[q] = Cardinality(TxSet(tx_desc', tx_pbuf', q))
                                           - Cardinality(TxSet(tx_desc, tx_pbuf, q))
      /\ \A i \in TxSlots : tx_desc[i] = 1 => tx_desc'[i] = 1 /\ tx_pbuf'[i] = tx_pbuf[i]
  <2>1. \A i \in TxSlots : tx_desc[i] = 1 =>
            \/ data'[tx_pbuf[i]] = data[tx_pbuf[i]]
            \/ ResendQueued /\ data'[tx_pbuf[i]] <= 0
    BY <1>5, <1>6
  <2> QED BY <1>1, <1>2, <1>3, <1>5, <2>1, OutputE
<1>9. ASSUME NEW q \in Pbufs
      PROVE  ref'[q] = Cardinality(RxSet(rx_pbuf, q)) + Cardinality(TxSet(tx_desc', tx_pbuf', q))
                       + Hold(held', q)
  <2> DEFINE a == Cardinality(RxSet(rx_pbuf, q))
             b == Cardinality(TxSet(tx_desc, tx_pbuf, q))
             d == Cardinality(TxSet(tx_desc', tx_pbuf', q))
  <2>1. RxSet(rx_pbuf, q) \subseteq RxSlots /\ TxSet(tx_desc, tx_pbuf, q) \subseteq TxSlots
        /\ TxSet(tx_desc', tx_pbuf', q) \subseteq TxSlots
    BY DEF RxSet, TxSet
  <2>2. a \in Nat /\ b \in Nat /\ d \in Nat
    BY <2>1, SlotSets
  <2>3. ref[q] = a + b + Hold(held, q)
    BY <1>3 DEF CountsOK
  <2>4. ref'[q] - ref[q] = d - b /\ ref'[q] \in Int /\ ref[q] \in Int
    BY <1>3, <1>8
  <2>5. Hold(held', q) = Hold(held, q) /\ Hold(held, q) \in Nat
    BY <1>2 DEF Hold
  <2>6. ref'[q] = a + d + Hold(held', q)
    <3>1. ASSUME NEW r0 \in Int, NEW r1 \in Int, NEW x \in Nat, NEW y \in Nat, NEW z \in Nat,
                 NEW h \in Nat, r0 = x + y + h, r1 - r0 = z - y
          PROVE  r1 = x + z + h
      BY <3>1
    <3> HIDE DEF a, b, d
    <3>2. ref'[q] = a + d + Hold(held, q)
      BY <2>2, <2>3, <2>4, <2>5, <3>1
    <3>3. ref'[q] = a + d + Hold(held', q)
      BY <2>5, <3>2
    <3> QED BY <3>3 DEF a, d
  <2> QED BY <2>6
<1>10. TypeOK'
  <2>1. credit' \in 0 .. Window /\ held' \subseteq Pbufs
    BY <1>1, <1>2, Sizes DEF TypeOK
  <2> QED BY <1>1, <1>2, <1>5, <1>8, <2>1 DEF TypeOK, chip, rxRing, dma
<1>11. Control'
  BY <1>1, <1>2, <1>8 DEF TypeOK, Control, Receiving, Sending, chip, rxRing, dma
<1>12. Owned'
  <2>1. RefCounts'
    BY <1>2, <1>9 DEF RefCounts, RxSet, TxSet, Hold, rxRing
  <2>2. ASSUME NEW i \in RxSlots, rx_pbuf[i] # NULL
        PROVE  ref'[rx_pbuf[i]] = 1
    <3>1. rx_pbuf[i] \in Pbufs /\ ref[rx_pbuf[i]] = 1 /\ rx_pbuf[i] # p
      BY <1>1, <1>6, <2>2, Apart
    <3> QED BY <1>8, <3>1
  <2> QED BY <1>2, <2>1, <2>2 DEF Owned, rxRing
<1>13. ASSUME NEW c, RxOK(c)
       PROVE  RxOK(c)'
  <2>1. \A i \in RxSlots : data'[rx_pbuf[i]] = data[rx_pbuf[i]]
    BY <1>5, <1>6
  <2>2. us_rx_head \in RxSlots /\ UNCHANGED <<rxRing, rxq, inflight, g_spi_pdc_flag>>
    BY <1>1, <1>2 DEF TypeOK, chip, dma
  <2>3. IF g_spi_pdc_flag' = "RX_COMPLETE"
        THEN data'[rx_pbuf[us_rx_head]] = c + 1 /\ Numbered(rxq', c + 1, inflight')
        ELSE Numbered(rxq', c, inflight')
    BY <1>13, <2>1, <2>2 DEF RxOK
  <2> QED BY <1>13, <2>1, <2>2, <2>3, RxKept
<1> QED BY <1>8, <1>10, <1>11, <1>12, <1>13 DEF EInv

\* ksz8851snl_rx_populate_queue, when some slots rp have been emptied: the slots
\* that were not keep their pbuf, and each pbuf that is taken was free.
LEMMA Refill ==
    ASSUME TypeOK, Owned, NEW rp \in [RxSlots -> PoolPbufs \cup {NULL}],
           \A i \in RxSlots : rp[i] = rx_pbuf[i] \/ rp[i] = NULL,
           NEW n, n = ksz8851snl_rx_populate_queue(rp, ref)
    PROVE  /\ n.rx_pbuf \in [RxSlots -> PoolPbufs \cup {NULL}]
           /\ n.rx_desc \in [RxSlots -> {0, 1}]
           /\ n.ref \in [Pbufs -> Nat]
           /\ \A i \in RxSlots : rp[i] # NULL => /\ n.rx_pbuf[i] = rx_pbuf[i]
                                                 /\ n.rx_desc[i] = rx_desc[i]
           /\ \A i \in RxSlots : rp[i] = NULL => n.rx_desc[i] = 0
           /\ \A q \in Pbufs : n.ref[q] - ref[q] = Cardinality(RxSet(n.rx_pbuf, q))
                                                   - Cardinality(RxSet(rp, q))
           /\ \A q \in Pbufs : ref[q] # 0 => /\ n.ref[q] = ref[q]
                                             /\ RxSet(n.rx_pbuf, q) = RxSet(rp, q)
           /\ \A i \in RxSlots : n.rx_pbuf[i] # NULL => n.ref[n.rx_pbuf[i]] = 1
<1>1. /\ CountsOK(ref, rx_pbuf, tx_desc, tx_pbuf, held) /\ ref \in [Pbufs -> Nat]
      /\ rx_desc \in [RxSlots -> {0, 1}]
  BY Counts DEF TypeOK
<1>2. \A q \in PoolPbufs : ref[q] = 0 => \A i \in RxSlots : rp[i] # q
  <2> SUFFICES ASSUME NEW q \in PoolPbufs, ref[q] = 0, NEW i \in RxSlots PROVE rp[i] # q
    OBVIOUS
  <2>1. q \in Pbufs /\ q # NULL
    BY Sizes
  <2>2. RxSet(rx_pbuf, q) = {}
    BY <1>1, <2>1, NoOwner
  <2> QED BY <2>1, <2>2 DEF RxSet
<1>3. Populated(rp, ref, n)
  BY <1>1, <1>2, Populate
<1>4. ASSUME NEW q \in Pbufs
      PROVE  /\ n.ref[q] - ref[q] = Cardinality(RxSet(n.rx_pbuf, q)) - Cardinality(RxSet(rp, q))
             /\ ref[q] # 0 => n.ref[q] = ref[q] /\ RxSet(n.rx_pbuf, q) = RxSet(rp, q)
  <2>1. CASE n.ref[q] = ref[q] /\ RxSet(n.rx_pbuf, q) = RxSet(rp, q)
    <3>1. RxSet(rp, q) \subseteq RxSlots
      BY DEF RxSet
    <3>2. Cardinality(RxSet(rp, q)) \in Int
      BY <3>1, SlotSets
    <3>3. Cardinality(RxSet(n.rx_pbuf, q)) = Cardinality(RxSet(rp, q))
      BY <2>1, Zenon
    <3>4. ref[q] \in Int
      BY <1>1
    <3> QED BY <2>1, <3>2, <3>3, <3>4
  <2>2. CASE /\ ref[q] = 0 /\ n.ref[q] = 1 /\ RxSet(rp, q) = {}
             /\ \E i \in RxSlots : RxSet(n.rx_pbuf, q) = {i}
    <3>1. Cardinality(RxSet(rp, q)) = 0 /\ Cardinality(RxSet(n.rx_pbuf, q)) = 1
      BY <2>2, OneSlot, Zenon
    <3> QED BY <2>2, <3>1
  <2> QED BY <1>3, <2>1, <2>2 DEF Populated
<1>5. ASSUME NEW i \in RxSlots, n.rx_pbuf[i] # NULL
      PROVE  n.ref[n.rx_pbuf[i]] = 1
  <2>1. CASE rp[i] = NULL
    BY <1>3, <1>5, <2>1 DEF Populated
  <2>2. CASE rp[i] # NULL
    <3>1. n.rx_pbuf[i] = rx_pbuf[i] /\ rx_pbuf[i] # NULL
      BY <1>3, <2>2 DEF Populated
    <3>2. rx_pbuf[i] \in Pbufs /\ ref[rx_pbuf[i]] = 1
      BY <3>1, Apart
    <3> QED BY <1>4, <3>1, <3>2
  <2> QED BY <2>1, <2>2
<1>6. \A i \in RxSlots : rp[i] # NULL => n.rx_pbuf[i] = rx_pbuf[i] /\ n.rx_desc[i] = rx_desc[i]
  BY <1>3 DEF Populated
<1> QED BY <1>3, <1>4, <1>5, <1>6 DEF Populated

LEMMA WaitForSlotE == ASSUME EInv, WaitForSlot PROVE EInv'
<1> DEFINE n == ksz8851snl_rx_populate_queue(rx_pbuf, ref)
<1>1. PICK c \in 0 .. NETIF_RX_BUFFERS : RxOK(c)
  BY DEF EInv
<1>2. TypeOK /\ Control /\ Owned /\ TxOK
  BY DEF EInv
<1>3. /\ pc = "slot" /\ pc' = "input" /\ g_spi_pdc_flag = "IDLE"
      /\ \/ UNCHANGED <<rx_pbuf, rx_desc, ref>>
         \/ rx_pbuf' = n.rx_pbuf /\ rx_desc' = n.rx_desc /\ ref' = n.ref
      /\ UNCHANGED <<chip, us_rx_head, us_rx_tail, txRing, pending_frame, g_intn_flag, dma,
                     data, held, inflight, owed, credit>>
  BY <1>2 DEF WaitForSlot, Control
<1> HIDE DEF n
<1>4. CASE UNCHANGED <<rx_pbuf, rx_desc, ref>>
  <2>1. UNCHANGED <<rxRing, txRing, memory, rxq, inflight, owed>> /\ g_spi_pdc_flag' = g_spi_pdc_flag
    BY <1>3, <1>4 DEF rxRing, memory, chip, dma
  <2>2. TypeOK'
    BY <1>2, <1>3, <1>4 DEF TypeOK, chip, txRing, dma
  <2>3. Control'
    BY <1>2, <1>3, <1>4 DEF Control, Receiving, Sending, chip, txRing, dma
  <2> QED BY <2>1, <2>2, <2>3, Quiet
<1>5. CASE rx_pbuf' = n.rx_pbuf /\ rx_desc' = n.rx_desc /\ ref' = n.ref
  <2>1. /\ rx_pbuf \in [RxSlots -> PoolPbufs \cup {NULL}] /\ rx_desc \in [RxSlots -> {0, 1}]
        /\ n = ksz8851snl_rx_populate_queue(rx_pbuf, ref)
    BY <1>2 DEF TypeOK, n
  <2>2. /\ n.rx_pbuf \in [RxSlots -> PoolPbufs \cup {NULL}]
        /\ n.rx_desc \in [RxSlots -> {0, 1}]
        /\ n.ref \in [Pbufs -> Nat]
        /\ \A i \in RxSlots : rx_pbuf[i] # NULL => /\ n.rx_pbuf[i] = rx_pbuf[i]
                                                   /\ n.rx_desc[i] = rx_desc[i]
        /\ \A i \in RxSlots : rx_pbuf[i] = NULL => n.rx_desc[i] = 0
        /\ \A q \in Pbufs : n.ref[q] - ref[q] = Cardinality(RxSet(n.rx_pbuf, q))
                                                - Cardinality(RxSet(rx_pbuf, q))
        /\ \A i \in RxSlots : n.rx_pbuf[i] # NULL => n.ref[n.rx_pbuf[i]] = 1
    BY <1>2, <2>1, Refill
  <2>3. rx_desc' = rx_desc
    <3>1. \A i \in RxSlots : n.rx_desc[i] = rx_desc[i]
      BY <1>1, <2>1, <2>2 DEF RxOK
    <3> QED BY <1>5, <2>1, <2>2, <3>1
  <2>4. CountsOK(ref, rx_pbuf, tx_desc, tx_pbuf, held) /\ ref \in [Pbufs -> Nat]
    BY <1>2, Counts DEF TypeOK
  <2>5. ASSUME NEW q \in Pbufs
        PROVE  ref'[q] = Cardinality(RxSet(rx_pbuf', q)) + Cardinality(TxSet(tx_desc, tx_pbuf, q))
                         + Hold(held, q)
    <3> DEFINE a == Cardinality(RxSet(rx_pbuf, q))
               b == Cardinality(TxSet(tx_desc, tx_pbuf, q))
               d == Cardinality(RxSet(rx_pbuf', q))
    <3>1. RxSet(rx_pbuf, q) \subseteq RxSlots /\ TxSet(tx_desc, tx_pbuf, q) \subseteq TxSlots
          /\ RxSet(rx_pbuf', q) \subseteq RxSlots
      BY DEF RxSet, TxSet
    <3>2. a \in Nat /\ b \in Nat /\ d \in Nat /\ Hold(held, q) \in Nat
      BY <3>1, SlotSets DEF Hold
    <3>3. ref[q] = a + b + Hold(held, q)
      BY <2>4 DEF CountsOK
    <3>4. ref'[q] - ref[q] = d - a /\ ref'[q] \in Int /\ ref[q] \in Int
      BY <1>5, <2>2, <2>4
    <3> HIDE DEF a, b, d
    <3>5. ref'[q] = d + b + Hold(held, q)
      BY <3>2, <3>3, <3>4
    <3> QED BY <3>5 DEF b, d
  <2>6. TypeOK'
    BY <1>2, <1>3, <1>5, <2>2 DEF TypeOK, chip, txRing, dma
  <2>7. Control'
    BY <1>2, <1>3 DEF Control, Receiving, Sending, chip, txRing, dma
  <2>8. Owned'
    <3>1. RefCounts'
      BY <1>3, <2>5 DEF RefCounts, RxSet, TxSet, Hold, txRing
    <3> QED BY <1>5, <2>2, <3>1 DEF Owned
  <2>9. TxOK'
    BY <1>2, <1>3, TxKept
  <2>10. RxOK(c)'
    <3>1. UNCHANGED <<us_rx_head, us_rx_tail, data, rxq, inflight, g_spi_pdc_flag>>
      BY <1>3 DEF chip, dma
    <3>2. \A i \in RxSlots : rx_desc[i] = 1 => rx_pbuf'[i] = rx_pbuf[i] /\ rx_pbuf[i] # NULL
      BY <1>1, <1>5, <2>2 DEF RxOK
    <3> QED BY <1>1, <1>3, <2>3, <3>1, <3>2 DEF RxOK
  <2> QED BY <2>6, <2>7, <2>8, <2>9, <2>10 DEF EInv
<1> QED BY <1>3, <1>4, <1>5
\* What both forms of Input do to the receive ring: the frame at the tail leaves
\* it, its pbuf p has no owner then, and every frame moves up by one.
Taken(c, p, n, d) ==
    /\ n.rx_pbuf \in [RxSlots -> PoolPbufs \cup {NULL}]
    /\ n.rx_desc \in [RxSlots -> {0, 1}]
    /\ n.ref \in [Pbufs -> Nat] /\ n.ref[p] = 1
    /\ \A i \in RxSlots : n.rx_pbuf[i] # NULL => n.rx_pbuf[i] # p /\ n.ref[n.rx_pbuf[i]] = 1
    /\ \A q \in Pbufs :
         n.ref[q] = Cardinality(RxSet(n.rx_pbuf, q)) + Cardinality(TxSet(tx_desc, tx_pbuf, q))
                    + (IF q = p THEN 1 ELSE Hold(held, q))
    /\ TxSet(tx_desc, tx_pbuf, p) = {} /\ p \notin held
    /\ d \in Int => Delivered(p, d) \in [Pbufs -> Int] /\ Delivered(p, d)[p] = d
    /\ \A i \in TxSlots : tx_desc[i] = 1 => Delivered(p, d)[tx_pbuf[i]] = data[tx_pbuf[i]]
    /\ c >= 1
    /\ \A i \in RxSlots : n.rx_desc[i] = 1 =>
         /\ n.rx_pbuf[i] # NULL
         /\ Delivered(p, d)[n.rx_pbuf[i]]
              = Pos(i, (us_rx_tail + 1) % NETIF_RX_BUFFERS, NETIF_RX_BUFFERS) + 1
    /\ (us_rx_tail + 1) % NETIF_RX_BUFFERS \in RxSlots
    /\ RingOK(n.rx_desc, us_rx_head, (us_rx_tail + 1) % NETIF_RX_BUFFERS, NETIF_RX_BUFFERS, c - 1)
    /\ Receiving => n.rx_desc[us_rx_head] = 0 /\ n.rx_pbuf[us_rx_head] # NULL
    /\ g_spi_pdc_flag = "RX_COMPLETE" => Delivered(p, d)[n.rx_pbuf[us_rx_head]] = (c - 1) + 1

LEMMA TakeFrame ==
    ASSUME TypeOK, Control, Owned, TxOK, NEW c \in 0 .. NETIF_RX_BUFFERS, RxOK(c),
           rx_desc[us_rx_tail] = 1, NEW p, p = rx_pbuf[us_rx_tail],
           NEW rp \in [RxSlots -> PoolPbufs \cup {NULL}], rp[us_rx_tail] = NULL,
           \A i \in RxSlots : i # us_rx_tail => rp[i] = rx_pbuf[i],
           NEW n, n = ksz8851snl_rx_populate_queue(rp, ref), NEW d
    PROVE  Taken(c, p, n, d)
<1> DEFINE k == (us_rx_tail + 1) % NETIF_RX_BUFFERS
           e == Delivered(p, d)
<1>1. /\ us_rx_head \in RxSlots /\ us_rx_tail \in RxSlots /\ rx_desc \in [RxSlots -> {0, 1}]
      /\ rx_pbuf \in [RxSlots -> PoolPbufs \cup {NULL}] /\ ref \in [Pbufs -> Nat]
      /\ data \in [Pbufs -> Int] /\ c \in Nat
  BY Sizes DEF TypeOK
<1>2. /\ p \in Pbufs /\ p # NULL /\ ref[p] = 1 /\ p \notin held
      /\ \A i \in RxSlots : rx_pbuf[i] = p => i = us_rx_tail
      /\ \A i \in TxSlots : tx_desc[i] = 1 => tx_pbuf[i] # p
  <2>1. rx_pbuf[us_rx_tail] # NULL
    BY <1>1 DEF RxOK
  <2> QED BY <1>1, <2>1, Apart
<1>5. /\ n.rx_pbuf \in [RxSlots -> PoolPbufs \cup {NULL}]
      /\ n.rx_desc \in [RxSlots -> {0, 1}]
      /\ n.ref \in [Pbufs -> Nat]
      /\ \A i \in RxSlots : rp[i] # NULL => /\ n.rx_pbuf[i] = rx_pbuf[i]
                                            /\ n.rx_desc[i] = rx_desc[i]
      /\ \A i \in RxSlots : rp[i] = NULL => n.rx_desc[i] = 0
      /\ \A q \in Pbufs : n.ref[q] - ref[q] = Cardinality(RxSet(n.rx_pbuf, q))
                                              - Cardinality(RxSet(rp, q))
      /\ \A q \in Pbufs : ref[q] # 0 => /\ n.ref[q] = ref[q]
                                        /\ RxSet(n.rx_pbuf, q) = RxSet(rp, q)
      /\ \A i \in RxSlots : n.rx_pbuf[i] # NULL => n.ref[n.rx_pbuf[i]] = 1
  <2>1. \A i \in RxSlots : rp[i] = rx_pbuf[i] \/ rp[i] = NULL
    OBVIOUS
  <2> QED BY <2>1, Refill
<1>6. n.ref[p] = 1 /\ RxSet(n.rx_pbuf, p) = {} /\ TxSet(tx_desc, tx_pbuf, p) = {}
  <2>1. RxSet(rp, p) = {} /\ TxSet(tx_desc, tx_pbuf, p) = {}
    BY <1>2 DEF RxSet, TxSet
  <2> QED BY <1>2, <1>5, <2>1
<1>7. \A i \in RxSlots : n.rx_pbuf[i] # p
  BY <1>6 DEF RxSet
<1>8. ASSUME NEW q \in Pbufs
      PROVE  n.ref[q] = Cardinality(RxSet(n.rx_pbuf, q)) + Cardinality(TxSet(tx_desc, tx_pbuf, q))
                        + (IF q = p THEN 1 ELSE Hold(held, q))
  <2>1. CASE q = p
    <3>1. Cardinality(RxSet(n.rx_pbuf, q)) = 0 /\ Cardinality(TxSet(tx_desc, tx_pbuf, q)) = 0
      BY <1>6, <2>1, OneSlot, Zenon
    <3> QED BY <1>6, <2>1, <3>1
  <2>2. CASE q # p
    <3> DEFINE x == Cardinality(RxSet(rx_pbuf, q))
               y == Cardinality(TxSet(tx_desc, tx_pbuf, q))
               z == Cardinality(RxSet(n.rx_pbuf, q))
    <3>1. RxSet(rp, q) = RxSet(rx_pbuf, q)
      <4>1. q # NULL
        BY Sizes
      <4>2. \A i \in RxSlots : rp[i] = q <=> rx_pbuf[i] = q
        BY <2>2, <4>1
      <4> QED BY <4>2 DEF RxSet
    <3>2. Cardinality(RxSet(rp, q)) = x
      BY <3>1, Zenon
    <3>3. ref[q] = x + y + Hold(held, q)
      BY Counts DEF CountsOK
    <3>4. RxSet(rx_pbuf, q) \subseteq RxSlots /\ TxSet(tx_desc, tx_pbuf, q) \subseteq TxSlots
          /\ RxSet(n.rx_pbuf, q) \subseteq RxSlots
      BY DEF RxSet, TxSet
    <3>5. x \in Nat /\ y \in Nat /\ z \in Nat /\ Hold(held, q) \in Nat
      BY <3>4, SlotSets DEF Hold
    <3>6. n.ref[q] - ref[q] = z - x /\ n.ref[q] \in Int /\ ref[q] \in Int
      BY <1>1, <1>5, <3>2
    <3> HIDE DEF x, y, z
    <3>7. n.ref[q] = z + y + Hold(held, q)
      BY <3>3, <3>5, <3>6
    <3> QED BY <2>2, <3>7 DEF y, z
  <2> QED BY <2>1, <2>2
<1>9. /\ d \in Int => e \in [Pbufs -> Int] /\ e[p] = d
      /\ \A q \in Pbufs : q # p => e[q] = IF data[q] > 0 THEN data[q] - 1 ELSE data[q]
  <2>1. e = [q \in Pbufs |-> IF q = p THEN d ELSE IF data[q] > 0 THEN data[q] - 1 ELSE data[q]]
    BY DEF Delivered
  <2> HIDE DEF e
  <2> QED BY <1>1, <1>2, <2>1
<1>10. ASSUME NEW i \in TxSlots, tx_desc[i] = 1
       PROVE  e[tx_pbuf[i]] = data[tx_pbuf[i]]
  <2>1. tx_pbuf[i] \in Pbufs /\ tx_pbuf[i] # p
    BY <1>2, <1>10 DEF TxOK, TypeOK
  <2>2. data[tx_pbuf[i]] <= 0 /\ data[tx_pbuf[i]] \in Int
    BY <1>1, <1>10, <2>1 DEF TxOK
  <2> HIDE DEF e
  <2> QED BY <1>9, <2>1, <2>2
<1>11. n.rx_desc[us_rx_tail] = 0 /\ \A i \in RxSlots : i # us_rx_tail => n.rx_desc[i] = rx_desc[i]
  <2>1. ASSUME NEW i \in RxSlots, i # us_rx_tail
        PROVE  n.rx_desc[i] = rx_desc[i]
    <3>1. CASE rx_pbuf[i] = NULL
      <4>1. rx_desc[i] = 0
        BY <1>1, <3>1 DEF RxOK
      <4> QED BY <1>5, <2>1, <3>1, <4>1
    <3>2. CASE rx_pbuf[i] # NULL
      BY <1>5, <2>1, <3>2
    <3> QED BY <3>1, <3>2
  <2>2. n.rx_desc[us_rx_tail] = 0
    BY <1>1, <1>5
  <2> QED BY <2>1, <2>2
<1>12. /\ k \in RxSlots /\ c >= 1
       /\ RingOK(n.rx_desc, us_rx_head, k, NETIF_RX_BUFFERS, c - 1)
       /\ \A i \in RxSlots : i # us_rx_tail =>
             Pos(i, k, NETIF_RX_BUFFERS) = Pos(i, us_rx_tail, NETIF_RX_BUFFERS) - 1
  <2> DEFINE f == n.rx_desc
             g == [rx_desc EXCEPT ![us_rx_tail] = 0]
  <2>1. f = g
    <3>1. g \in [RxSlots -> {0, 1}] /\ \A i \in RxSlots : f[i] = g[i]
      BY <1>1, <1>11
    <3>2. f \in [RxSlots -> {0, 1}]
      BY <1>5
    <3> HIDE DEF f, g
    <3> QED BY <3>1, <3>2
  <2>2. RingOK(rx_desc, us_rx_head, us_rx_tail, NETIF_RX_BUFFERS, c)
    BY DEF RxOK
  <2>3. /\ us_rx_head \in 0 .. NETIF_RX_BUFFERS - 1 /\ us_rx_tail \in 0 .. NETIF_RX_BUFFERS - 1
        /\ rx_desc \in [0 .. NETIF_RX_BUFFERS - 1 -> {0, 1}] /\ NETIF_RX_BUFFERS \in Nat \ {0}
        /\ c \in Nat /\ rx_desc[us_rx_tail] = 1
    BY <1>1, Sizes DEF RxSlots
  <2>4. k = (us_rx_tail + 1) % NETIF_RX_BUFFERS /\ f = [rx_desc EXCEPT ![us_rx_tail] = 0]
    BY <2>1
  <2> HIDE DEF f, g, k
  <2>5. /\ k \in 0 .. NETIF_RX_BUFFERS - 1
        /\ RingOK(f, us_rx_head, k, NETIF_RX_BUFFERS, c - 1) /\ c >= 1
        /\ \A i \in 0 .. NETIF_RX_BUFFERS - 1 : i # us_rx_tail =>
             Pos(i, k, NETIF_RX_BUFFERS) = Pos(i, us_rx_tail, NETIF_RX_BUFFERS) - 1
    BY <2>2, <2>3, <2>4, RingTake
  <2> QED BY <2>5 DEF RxSlots, f
<1> HIDE DEF k
<1>13. ASSUME NEW i \in RxSlots, n.rx_desc[i] = 1
       PROVE  n.rx_pbuf[i] # NULL /\ e[n.rx_pbuf[i]] = Pos(i, k, NETIF_RX_BUFFERS) + 1
  <2>1. i # us_rx_tail /\ rx_desc[i] = 1
    BY <1>1, <1>11, <1>13
  <2>2. rx_pbuf[i] # NULL /\ data[rx_pbuf[i]] = Pos(i, us_rx_tail, NETIF_RX_BUFFERS) + 1
    BY <2>1 DEF RxOK
  <2>3. n.rx_pbuf[i] = rx_pbuf[i] /\ rx_pbuf[i] \in Pbufs /\ rx_pbuf[i] # p
    <3>1. rp[i] = rx_pbuf[i] /\ rx_pbuf[i] # p
      BY <1>2, <2>1
    <3>2. n.rx_pbuf[i] = rx_pbuf[i]
      BY <1>5, <2>2, <3>1
    <3> QED BY <2>2, <3>1, <3>2, Apart
  <2>4. Pos(i, us_rx_tail, NETIF_RX_BUFFERS) \in Nat
    BY <1>1, Sizes DEF Pos, RxSlots
  <2>5. Pos(i, k, NETIF_RX_BUFFERS) = Pos(i, us_rx_tail, NETIF_RX_BUFFERS) - 1
    BY <1>12, <2>1
  <2> HIDE DEF e
  <2>6. e[rx_pbuf[i]] = data[rx_pbuf[i]] - 1
    BY <1>9, <2>2, <2>3, <2>4
  <2> QED BY <2>2, <2>3, <2>4, <2>5, <2>6
<1>14. ASSUME Receiving
       PROVE  /\ n.rx_desc[us_rx_head] = 0 /\ n.rx_pbuf[us_rx_head] # NULL
              /\ g_spi_pdc_flag = "RX_COMPLETE" => e[n.rx_pbuf[us_rx_head]] = (c - 1) + 1
  <2>1. rx_desc[us_rx_head] = 0 /\ rx_pbuf[us_rx_head] # NULL /\ us_rx_head # us_rx_tail
    BY <1>14 DEF Control
  <2>2. /\ n.rx_pbuf[us_rx_head] = rx_pbuf[us_rx_head] /\ n.rx_desc[us_rx_head] = 0
        /\ rx_pbuf[us_rx_head] \in Pbufs /\ rx_pbuf[us_rx_head] # p
    <3> HIDE DEF e
    <3>1. us_rx_head \in RxSlots
      BY <1>1
    <3>2. rp[us_rx_head] = rx_pbuf[us_rx_head] /\ rp[us_rx_head] # NULL
      BY <2>1, <3>1
    <3>3. n.rx_pbuf[us_rx_head] = rx_pbuf[us_rx_head] /\ n.rx_desc[us_rx_head] = 0
      BY <1>5, <2>1, <3>1, <3>2
    <3>4. rx_pbuf[us_rx_head] \in Pbufs
      BY <1>1, <2>1, <3>1, Sizes
    <3>5. rx_pbuf[us_rx_head] # p
      BY <1>2, <2>1, <3>1
    <3> QED BY <3>3, <3>4, <3>5
  <2>3. ASSUME g_spi_pdc_flag = "RX_COMPLETE"
        PROVE  e[n.rx_pbuf[us_rx_head]] = (c - 1) + 1
    <3>1. data[rx_pbuf[us_rx_head]] = c + 1
      BY <2>3 DEF RxOK
    <3> HIDE DEF e
    <3> QED BY <1>1, <1>9, <1>12, <2>2, <3>1
  <2> QED BY <2>1, <2>2, <2>3
<1> HIDE DEF e
<1>15. /\ \A i \in RxSlots : n.rx_pbuf[i] # NULL => n.rx_pbuf[i] # p /\ n.ref[n.rx_pbuf[i]] = 1
       /\ g_spi_pdc_flag = "RX_COMPLETE" => e[n.rx_pbuf[us_rx_head]] = (c - 1) + 1
       /\ Receiving => n.rx_desc[us_rx_head] = 0 /\ n.rx_pbuf[us_rx_head] # NULL
  BY <1>5, <1>7, <1>14 DEF Receiving
<1> QED BY <1>2, <1>5, <1>6, <1>8, <1>9, <1>10, <1>12, <1>13, <1>15 DEF Taken, e, k
LEMMA InputE == ASSUME EInv, NEW answer \in BOOLEAN, Input(answer) PROVE EInv'
<1> DEFINE p == rx_pbuf[us_rx_tail]
           rp == [rx_pbuf EXCEPT ![us_rx_tail] = NULL]
           n == ksz8851snl_rx_populate_queue(rp, ref)
           d == IF answer /\ ~TxFull THEN -(owed + 1) ELSE 0
           r == [n.ref EXCEPT ![p] = n.ref[p] - 1]
<1>1. PICK c \in 0 .. NETIF_RX_BUFFERS : RxOK(c)
  BY DEF EInv
<1>2. TypeOK /\ Control /\ Owned /\ TxOK
  BY DEF EInv
<1>3. /\ pc = "input" /\ pc' = "update" /\ rx_desc[us_rx_tail] = 1
      /\ rx_pbuf' = n.rx_pbuf /\ rx_desc' = n.rx_desc
      /\ us_rx_tail' = (us_rx_tail + 1) % NETIF_RX_BUFFERS
      /\ rxq' = MovedUp(rxq)
      /\ inflight' = inflight - 1
      /\ credit' = Window
      /\ data' = Delivered(p, d)
      /\ UNCHANGED <<int_rx, int_mask, txq, us_rx_head, pending_frame, g_intn_flag, dma>>
  BY DEF Input
<1>4. \/ answer /\ Output(p, r) /\ held' = held
      \/ ~answer /\ held' = held \cup {p} /\ ref' = n.ref /\ UNCHANGED <<txRing, owed>>
  BY DEF Input, pbuf_free
<1>5. /\ us_rx_tail \in RxSlots /\ rx_pbuf \in [RxSlots -> PoolPbufs \cup {NULL}]
      /\ owed \in Nat /\ d \in Int
  BY <1>2, Sizes DEF TypeOK
<1>6. p \in Pbufs /\ p \in PoolPbufs
  <2>1. p # NULL
    BY <1>1, <1>3, <1>5 DEF RxOK
  <2> QED BY <1>5, <2>1, Sizes
<1>7. /\ rp \in [RxSlots -> PoolPbufs \cup {NULL}] /\ rp[us_rx_tail] = NULL
      /\ \A i \in RxSlots : i # us_rx_tail => rp[i] = rx_pbuf[i]
  BY <1>5
<1>8. p = rx_pbuf[us_rx_tail] /\ n = ksz8851snl_rx_populate_queue(rp, ref)
  OBVIOUS
<1>9. answer /\ ~TxFull => d = -(owed + 1)
  OBVIOUS
<1> HIDE DEF rp, p, n, d
<1>10. Taken(c, p, n, d)
  BY <1>1, <1>2, <1>3, <1>7, <1>8, TakeFrame
<1>11. /\ rx_pbuf' \in [RxSlots -> PoolPbufs \cup {NULL}] /\ rx_desc' \in [RxSlots -> {0, 1}]
       /\ n.ref \in [Pbufs -> Nat] /\ n.ref[p] = 1 /\ p \notin held
       /\ data' \in [Pbufs -> Int] /\ data'[p] = d
       /\ us_rx_tail' \in RxSlots /\ c >= 1
       /\ \A i \in TxSlots : tx_desc[i] = 1 => data'[tx_pbuf[i]] = data[tx_pbuf[i]]
       /\ \A i \in RxSlots : rx_pbuf'[i] # NULL => rx_pbuf'[i] # p /\ n.ref[rx_pbuf'[i]] = 1
       /\ Receiving => rx_desc'[us_rx_head] = 0 /\ rx_pbuf'[us_rx_head] # NULL
       /\ \A q \in Pbufs :
            n.ref[q] = Cardinality(RxSet(rx_pbuf', q)) + Cardinality(TxSet(tx_desc, tx_pbuf, q))
                       + (IF q = p THEN 1 ELSE Hold(held, q))
       /\ TxSet(tx_desc, tx_pbuf, p) = {}
  BY <1>3, <1>5, <1>10 DEF Taken
<1>12. /\ RingOK(rx_desc', us_rx_head, us_rx_tail', NETIF_RX_BUFFERS, c - 1)
       /\ \A i \in RxSlots : rx_desc'[i] = 1 =>
            /\ rx_pbuf'[i] # NULL
            /\ data'[rx_pbuf'[i]] = Pos(i, us_rx_tail', NETIF_RX_BUFFERS) + 1
       /\ g_spi_pdc_flag = "RX_COMPLETE" => data'[rx_pbuf'[us_rx_head]] = (c - 1) + 1
  BY <1>3, <1>10 DEF Taken
<1>13. /\ rxq \in Seq(Nat) /\ Len(rxq) \in 0 .. RXQ_FRAMES /\ inflight \in Nat
       /\ Base(c) \in 0 .. NETIF_RX_BUFFERS
       /\ Numbered(rxq, Base(c), inflight)
       /\ Base(c) >= 1
  BY <1>1, <1>2, <1>11, Queue DEF Base
<1>14. /\ rxq' \in Seq(Nat) /\ Len(rxq') = Len(rxq) /\ Numbered(rxq', Base(c) - 1, inflight - 1)
       /\ rxq # <<>> => rxq' # <<>> /\ (Head(rxq) # 0 => Head(rxq') # 0)
  BY <1>3, <1>13, NumberedDown DEF MovedUp
<1>15. inflight' \in 0 .. RXQ_FRAMES + NETIF_RX_BUFFERS
  <2>1. Base(c) \in 0 .. inflight
    BY <1>13, NumberedBounds
  <2>2. inflight \in 0 .. RXQ_FRAMES + NETIF_RX_BUFFERS
    BY <1>2 DEF TypeOK
  <2> QED BY <1>3, <1>13, <2>1, <2>2, Sizes
<1>16. rxq' \in Seq(0 .. RXQ_FRAMES + NETIF_RX_BUFFERS)
  BY <1>2, <1>3, MovedUpType, Sizes DEF TypeOK
<1>17. RxOK(c - 1)'
  <2>1. IF g_spi_pdc_flag = "RX_COMPLETE"
        THEN data'[rx_pbuf'[us_rx_head]] = (c - 1) + 1 /\ Numbered(rxq', (c - 1) + 1, inflight')
        ELSE Numbered(rxq', c - 1, inflight')
    <3>1. c \in Nat /\ (c + 1) - 1 = (c - 1) + 1
      BY Sizes
    <3>2. CASE g_spi_pdc_flag = "RX_COMPLETE"
      <4>1. Base(c) - 1 = (c - 1) + 1
        BY <3>1, <3>2 DEF Base
      <4> QED BY <1>3, <1>12, <1>14, <3>2, <4>1
    <3>3. CASE g_spi_pdc_flag # "RX_COMPLETE"
      BY <1>3, <1>14, <3>3 DEF Base
    <3> QED BY <3>2, <3>3
  <2>2. g_spi_pdc_flag' = g_spi_pdc_flag /\ us_rx_head' = us_rx_head
    BY <1>3 DEF dma
  <2> QED BY <1>12, <2>1, <2>2 DEF RxOK
<1>18. c - 1 \in 0 .. NETIF_RX_BUFFERS
  BY <1>11, Sizes
<1>19. /\ tx_desc' \in [TxSlots -> {0, 1}] /\ tx_pbuf' \in [TxSlots -> Pbufs \cup {NULL}]
       /\ us_tx_head' \in TxSlots /\ us_tx_tail' = us_tx_tail
       /\ owed' \in 0 .. NETIF_TX_BUFFERS /\ ref' \in [Pbufs -> Nat]
       /\ held' \subseteq Pbufs
       /\ TxOK'
       /\ \A q \in Pbufs : q # p => ref'[q] = n.ref[q]
       /\ \A q \in Pbufs : ref'[q] = Cardinality(RxSet(rx_pbuf', q))
                                     + Cardinality(TxSet(tx_desc', tx_pbuf', q)) + Hold(held', q)
       /\ \A i \in TxSlots : tx_desc[i] = 1 => tx_desc'[i] = 1 /\ tx_pbuf'[i] = tx_pbuf[i]
  <2>1. CASE answer /\ Output(p, r) /\ held' = held
    <3>1. /\ r \in [Pbufs -> Nat] /\ r[p] = 0 /\ \A q \in Pbufs : q # p => r[q] = n.ref[q]
      BY <1>6, <1>11
    <3> HIDE DEF r
    <3>2. ~TxFull => data'[p] = -(owed + 1)
      BY <1>9, <1>11, <2>1, <3>1
    <3>3. /\ tx_desc' \in [TxSlots -> {0, 1}] /\ tx_pbuf' \in [TxSlots -> Pbufs \cup {NULL}]
          /\ us_tx_head' \in TxSlots /\ us_tx_tail' = us_tx_tail
          /\ owed' \in 0 .. NETIF_TX_BUFFERS /\ ref' \in [Pbufs -> Nat]
          /\ TxOK'
          /\ \A q \in Pbufs : q # p => ref'[q] = r[q]
          /\ \A q \in Pbufs : ref'[q] - r[q] = Cardinality(TxSet(tx_desc', tx_pbuf', q))
                                               - Cardinality(TxSet(tx_desc, tx_pbuf, q))
          /\ \A i \in TxSlots : tx_desc[i] = 1 => tx_desc'[i] = 1 /\ tx_pbuf'[i] = tx_pbuf[i]
      BY <1>2, <1>6, <1>11, <2>1, <3>1, <3>2, OutputE
    <3>4. ASSUME NEW q \in Pbufs
          PROVE  ref'[q] = Cardinality(RxSet(rx_pbuf', q))
                           + Cardinality(TxSet(tx_desc', tx_pbuf', q)) + Hold(held', q)
      <4> DEFINE x == Cardinality(RxSet(rx_pbuf', q))
                 y == Cardinality(TxSet(tx_desc, tx_pbuf, q))
                 z == Cardinality(TxSet(tx_desc', tx_pbuf', q))
      <4>1. RxSet(rx_pbuf', q) \subseteq RxSlots /\ TxSet(tx_desc, tx_pbuf, q) \subseteq TxSlots
            /\ TxSet(tx_desc', tx_pbuf', q) \subseteq TxSlots
        BY DEF RxSet, TxSet
      <4>2. x \in Nat /\ y \in Nat /\ z \in Nat /\ Hold(held, q) \in Nat /\ Hold(held', q) = Hold(held, q)
        BY <2>1, <4>1, SlotSets DEF Hold
      <4>3. ref'[q] - r[q] = z - y /\ ref'[q] \in Int /\ r[q] \in Int
        BY <3>1, <3>3
      <4>4. n.ref[q] = x + y + (IF q = p THEN 1 ELSE Hold(held, q))
        BY <1>11
      <4>5. CASE q = p
        <5>1. y = 0
          BY <1>11, <4>5, OneSlot, Zenon
        <5>2. Hold(held, q) = 0 /\ r[q] = 0 /\ n.ref[q] = 1
          BY <1>11, <3>1, <4>5 DEF Hold
        <5> HIDE DEF x, y, z
        <5>3. ref'[q] = x + z + Hold(held', q)
          BY <4>2, <4>3, <4>4, <4>5, <5>1, <5>2
        <5> QED BY <5>3 DEF x, z
      <4>6. CASE q # p
        <5>1. r[q] = n.ref[q]
          BY <3>1, <4>6
        <5> HIDE DEF x, y, z
        <5>2. ref'[q] = x + z + Hold(held', q)
          BY <4>2, <4>3, <4>4, <4>6, <5>1
        <5> QED BY <5>2 DEF x, z
      <4> QED BY <4>5, <4>6
    <3>5. held' \subseteq Pbufs
      BY <1>2, <2>1 DEF TypeOK
    <3>6. \A q \in Pbufs : q # p => ref'[q] = n.ref[q]
      BY <3>1, <3>3
    <3> QED BY <3>3, <3>4, <3>5, <3>6
  <2>2. CASE ~answer /\ held' = held \cup {p} /\ ref' = n.ref /\ UNCHANGED <<txRing, owed>>
    <3>1. TxOK'
      BY <1>2, <1>11, <2>2, TxKept
    <3>2. \A q \in Pbufs : Hold(held', q) = IF q = p THEN 1 ELSE Hold(held, q)
      BY <2>2 DEF Hold
    <3>3. tx_desc' = tx_desc /\ tx_pbuf' = tx_pbuf /\ us_tx_head' = us_tx_head
          /\ us_tx_tail' = us_tx_tail /\ owed' = owed
      BY <2>2 DEF txRing
    <3>4. \A q \in Pbufs : ref'[q] = Cardinality(RxSet(rx_pbuf', q))
                                     + Cardinality(TxSet(tx_desc', tx_pbuf', q)) + Hold(held', q)
      BY <1>11, <2>2, <3>2, <3>3
    <3>5. held' \subseteq Pbufs
      BY <1>2, <1>6, <2>2 DEF TypeOK
    <3> QED BY <1>2, <1>11, <2>2, <3>1, <3>3, <3>4, <3>5 DEF TypeOK
  <2> QED BY <1>4, <2>1, <2>2
<1>20. TypeOK'
  <2>1. credit' \in 0 .. Window
    BY <1>3, Sizes
  <2>2. Len(rxq') <= RXQ_FRAMES
    BY <1>2, <1>14 DEF TypeOK
  <2> QED BY <1>2, <1>3, <1>11, <1>15, <1>16, <1>19, <2>1, <2>2 DEF TypeOK, dma
<1>21. Control'
  <2>1. g_spi_pdc_flag' = g_spi_pdc_flag /\ fifo' = fifo
    BY <1>3 DEF dma
  <2>2. g_spi_pdc_flag = "RX_START" => rxq' # <<>> /\ Head(rxq') # 0
    BY <1>2, <1>14 DEF Control
  <2>3. Sending => tx_desc'[us_tx_tail] = 1 /\ tx_pbuf'[us_tx_tail] = tx_pbuf[us_tx_tail]
    BY <1>2, <1>19 DEF Control, TypeOK
  <2> QED BY <1>2, <1>3, <1>11, <1>19, <2>1, <2>2, <2>3 DEF Control, Receiving, Sending
<1>22. Owned'
  <2>1. RefCounts'
    BY <1>19 DEF RefCounts, RxSet, TxSet, Hold
  <2>2. ASSUME NEW i \in RxSlots, rx_pbuf'[i] # NULL
        PROVE  ref'[rx_pbuf'[i]] = 1
    <3>1. rx_pbuf'[i] # p /\ n.ref[rx_pbuf'[i]] = 1
      BY <1>11, <2>2
    <3>2. rx_pbuf'[i] \in Pbufs
      <4>1. rx_pbuf' \in [RxSlots -> PoolPbufs \cup {NULL}]
        BY <1>11
      <4> QED BY <2>2, <4>1, Sizes
    <3> QED BY <1>19, <3>1, <3>2
  <2> QED BY <2>1, <2>2 DEF Owned
<1> QED BY <1>17, <1>18, <1>19, <1>20, <1>21, <1>22 DEF EInv-----------------------------------------------------------------------------
(***************************************************************************)
(* The theorems.                                                           *)
(***************************************************************************)

LEMMA NextE == EInv /\ [Next]_vars => EInv'
<1> SUFFICES ASSUME EInv, [Next]_vars PROVE EInv'
  OBVIOUS
<1>1. CASE \E good \in BOOLEAN : FrameArrives(good)
  BY <1>1, FrameArrivesE
<1>2. CASE FrameLeaves
  BY <1>2, FrameLeavesE
<1>3. CASE SPI_Handler
  BY <1>3, SPI_Handler_RXE, SPI_Handler_TXE DEF SPI_Handler
<1>4. CASE ksz8851snl_update
  BY <1>4, UpdateNothingE, StartTxE, BeginRxE, ReadStatusE, ClearStatusE, ReadCountE,
     WaitForSlotE, ReadFrameErrorE, FreePacketE, StartRxE, RxCompleteE, TxCompleteE DEF ksz8851snl_update
<1>5. CASE NoInput
  BY <1>5, NoInputE
<1>6. CASE \E answer \in BOOLEAN : Input(answer)
  BY <1>6, InputE
<1>7. CASE \E p \in RamPbufs : Send(p) \/ Resend(p)
  BY <1>7, SendE, ResendE
<1>8. CASE \E p \in Pbufs : Release(p)
  BY <1>8, ReleaseE
<1>9. CASE UNCHANGED vars
  <2> USE <1>9 DEF vars, chip, rxRing, txRing, dma, memory
  <2>1. TypeOK'
    BY DEF EInv, TypeOK
  <2>2. Control'
    BY DEF EInv, Control, Receiving, Sending
  <2> QED BY <2>1, <2>2, Quiet
<1> QED BY <1>1, <1>2, <1>3, <1>4, <1>5, <1>6, <1>7, <1>8, <1>9 DEF Next, ethernetif_input

\* The invariant of the driver: every pbuf has as many references as owners, one
\* in the receive ring has no other, and the frames of the rings and of the
\* controller's queue are those still due, in order.
THEOREM DriverInvariant == Spec => []EInv
BY InitE, NextE, PTL DEF Spec

\* Type correctness; the receive ring and the controller never hold more good
\* frames than they have room for.
THEOREM DriverTypes == Spec => []TypeOK
<1>1. EInv => TypeOK
  BY DEF EInv
<1> QED BY <1>1, DriverInvariant, PTL

\* No pbuf leaks, and none goes back to the pool while the receive ring, the
\* send ring, the DMA or lwIP uses it.
THEOREM PbufsAreCounted == Spec => []RefCounts
<1>1. EInv => RefCounts
  BY DEF EInv, Owned
<1> QED BY <1>1, DriverInvariant, PTL

\* Without bad frames the driver never counts a frame too many: as long as it
\* has frames to read, the queue holds a good one for each.
Clean ==
    ~BadFrames =>
        /\ pc # "drop"
        /\ \A i \in 1 .. Len(rxq) : rxq[i] # 0
        /\ pending_frame <= Len(rxq) + (IF g_spi_pdc_flag = "RX_COMPLETE" THEN 1 ELSE 0)

LEMMA CleanInit == Init => Clean
<1> SUFFICES ASSUME Init PROVE Clean
  OBVIOUS
<1>1. Len(rxq) = 0
  BY EmptySeq DEF Init
<1> QED BY <1>1 DEF Init, Clean

\* Steps that leave the receive queue and what is counted of it alone.
LEMMA CleanQuiet ==
    ASSUME Clean, UNCHANGED <<rxq, pending_frame>>, pc' # "drop",
           g_spi_pdc_flag = "RX_COMPLETE" <=> g_spi_pdc_flag' = "RX_COMPLETE"
    PROVE  Clean'
BY DEF Clean

LEMMA CleanNext == ASSUME EInv, Clean, [Next]_vars PROVE Clean'
<1> SUFFICES ASSUME ~BadFrames PROVE Clean'
  BY DEF Clean
<1>1. PICK c \in 0 .. NETIF_RX_BUFFERS : RxOK(c)
  BY DEF EInv
<1>2. TypeOK /\ Control
  BY DEF EInv
<1>3. /\ pc # "drop"
      /\ \A i \in 1 .. Len(rxq) : rxq[i] # 0
      /\ pending_frame <= Len(rxq) + (IF g_spi_pdc_flag = "RX_COMPLETE" THEN 1 ELSE 0)
  BY DEF Clean
<1>4. /\ rxq \in Seq(Nat) /\ Len(rxq) \in Nat /\ inflight \in Nat /\ pending_frame \in Nat
      /\ Base(c) \in Nat /\ Numbered(rxq, Base(c), inflight)
  BY <1>1, <1>2, Queue, Sizes DEF TypeOK
<1>5. CASE \E good \in BOOLEAN : FrameArrives(good)
  <2>1. /\ rxq' = Append(rxq, inflight + 1)
        /\ UNCHANGED <<pending_frame, g_spi_pdc_flag, pc>>
    BY <1>5 DEF FrameArrives, dma
  <2>2. /\ Len(rxq') = Len(rxq) + 1 /\ rxq'[Len(rxq) + 1] = inflight + 1
        /\ \A i \in 1 .. Len(rxq) : rxq'[i] = rxq[i]
    BY <1>4, <2>1, AppendProperties
  <2> QED BY <1>3, <1>4, <2>1, <2>2 DEF Clean
<1>6. CASE SPI_Handler_RX
  <2>1. /\ rxq # <<>> /\ rxq' = Tail(rxq) /\ g_spi_pdc_flag = "RX_START"
        /\ g_spi_pdc_flag' = "RX_COMPLETE" /\ UNCHANGED <<pending_frame, pc>>
    BY <1>2, <1>6 DEF SPI_Handler_RX, Control
  <2>2. Len(rxq') = Len(rxq) - 1 /\ \A i \in 1 .. Len(rxq) - 1 : rxq'[i] = rxq[i + 1]
    BY <1>4, <2>1, HeadTailProperties
  <2> QED BY <1>3, <1>4, <2>1, <2>2 DEF Clean
<1>7. CASE RxComplete
  <2>1. /\ UNCHANGED rxq /\ pending_frame' = pending_frame - 1 /\ pc' = "input"
        /\ g_spi_pdc_flag = "RX_COMPLETE" /\ g_spi_pdc_flag' = "IDLE"
    BY <1>7 DEF RxComplete, RxDone
  <2> QED BY <1>3, <1>4, <2>1 DEF Clean
<1>8. CASE ReadCount
  <2>1. /\ UNCHANGED <<rxq, g_spi_pdc_flag>> /\ pending_frame' = Len(rxq) /\ pc' # "drop"
    BY <1>8 DEF ReadCount, dma
  <2> QED BY <1>3, <1>4, <2>1 DEF Clean
<1>9. CASE ReadFrameError
  <2>1. pc = "slot" /\ BadHead /\ g_spi_pdc_flag = "IDLE" /\ pending_frame > 0
    BY <1>2, <1>9 DEF ReadFrameError, SlotReady, Control
  <2>2. Len(rxq) > 0
    BY <1>3, <1>4, <2>1
  <2>3. rxq # <<>> /\ Head(rxq) = rxq[1] /\ 1 \in 1 .. Len(rxq)
    BY <1>4, <2>2, EmptySeq
  <2> QED BY <1>3, <2>1, <2>3 DEF BadHead
<1>10. CASE FreePacket
  BY <1>3, <1>10 DEF FreePacket
<1>11. CASE \E answer \in BOOLEAN : Input(answer)
  <2>1. /\ rx_desc[us_rx_tail] = 1 /\ rxq' = MovedUp(rxq) /\ pc' = "update"
        /\ UNCHANGED <<pending_frame, g_spi_pdc_flag>>
    BY <1>11 DEF Input, dma
  <2>2. Base(c) >= 1
    <3>1. us_rx_tail \in RxSlots /\ Pos(us_rx_tail, us_rx_tail, NETIF_RX_BUFFERS) = 0
      BY <1>2, Sizes DEF TypeOK, Pos, RxSlots
    <3>2. c >= 1
      BY <1>1, <2>1, <3>1, Sizes DEF RxOK, RingOK, RxSlots
    <3> QED BY <3>2, Sizes DEF Base
  <2>3. Len(rxq') = Len(rxq) /\ \A i \in 1 .. Len(rxq) : rxq'[i] = rxq[i] - 1 /\ rxq[i] > 1
    <3>1. \A i \in 1 .. Len(rxq) : rxq[i] \in Nat /\ rxq[i] > 1
      <4>1. \A i \in 1 .. Len(rxq) : rxq[i] \in Nat /\ Base(c) < rxq[i]
        BY <1>3, <1>4, NumberedBounds, ElementOfSeq
      <4> QED BY <1>4, <2>2, <4>1
    <3>2. rxq' = [i \in 1 .. Len(rxq) |-> rxq[i] - 1]
      BY <2>1, <3>1 DEF MovedUp
    <3> QED BY <1>4, <3>1, <3>2
  <2>4. \A i \in 1 .. Len(rxq') : rxq'[i] # 0
    <3> SUFFICES ASSUME NEW i \in 1 .. Len(rxq') PROVE rxq'[i] # 0
      OBVIOUS
    <3>1. rxq[i] \in Nat /\ rxq'[i] = rxq[i] - 1 /\ rxq[i] > 1
      BY <1>4, <2>3, ElementOfSeq
    <3> QED BY <3>1
  <2> QED BY <1>3, <2>1, <2>3, <2>4 DEF Clean
<1>12. CASE /\ UNCHANGED <<rxq, pending_frame>> /\ pc' # "drop"
            /\ g_spi_pdc_flag = "RX_COMPLETE" <=> g_spi_pdc_flag' = "RX_COMPLETE"
  BY <1>12, CleanQuiet
<1>13. FrameLeaves \/ SPI_Handler_TX \/ UpdateNothing \/ StartTx \/ BeginRx \/ ReadStatus
       \/ ClearStatus \/ WaitForSlot \/ StartRx \/ TxComplete \/ NoInput \/ UNCHANGED vars
       \/ (\E p \in RamPbufs : Send(p) \/ Resend(p)) \/ (\E p \in Pbufs : Release(p))
       => /\ UNCHANGED <<rxq, pending_frame>> /\ pc' # "drop"
          /\ g_spi_pdc_flag = "RX_COMPLETE" <=> g_spi_pdc_flag' = "RX_COMPLETE"
  <2>1. SlotReady => g_spi_pdc_flag = "IDLE"
    BY <1>2 DEF SlotReady, Control
  <2> QED BY <1>3, <2>1 DEF FrameLeaves, SPI_Handler_TX, UpdateNothing, StartTx, BeginRx, ReadStatus,
           ClearStatus, WaitForSlot, StartRx, TxComplete, NoInput, Send, Resend, Release, vars, chip, dma
<1> QED BY <1>5, <1>6, <1>7, <1>8, <1>9, <1>10, <1>11, <1>12, <1>13
        DEF Next, ethernetif_input, ksz8851snl_update, SPI_Handler

\* lwIP gets every good frame once, complete and in the order of arrival,
\* whatever the send side, the pool and the interrupts do meanwhile: if frames
\* with errors never arrive all of them, else all but those released at
\* RXQ_CMD_FREE_PACKET in place of a bad one.
THEOREM ReceivedInOrder == Spec => RxInOrder
<1>1. ASSUME EInv, Clean, [Next]_vars, inflight' < inflight
      PROVE  \/ pc = "input" /\ data[rx_pbuf[us_rx_tail]] = 1
             \/ pc = "drop" /\ BadFrames
  <2>1. inflight \in Int
    BY <1>1, Sizes DEF EInv, TypeOK
  <2>2. CASE \E good \in BOOLEAN : FrameArrives(good)
    <3>1. inflight' = inflight + 1 \/ inflight' = inflight + 0
      BY <2>2 DEF FrameArrives
    <3> QED BY <1>1, <2>1, <3>1
  <2>3. CASE \E answer \in BOOLEAN : Input(answer)
    <3>1. rx_desc[us_rx_tail] = 1 /\ pc = "input"
      BY <2>3 DEF Input
    <3>2. us_rx_tail \in RxSlots /\ Pos(us_rx_tail, us_rx_tail, NETIF_RX_BUFFERS) = 0
      BY <1>1, Sizes DEF EInv, TypeOK, Pos, RxSlots
    <3> QED BY <1>1, <3>1, <3>2 DEF EInv, RxOK
  <2>4. CASE FreePacket
    BY <1>1, <2>4 DEF FreePacket, Clean
  <2>5. CASE UNCHANGED inflight
    BY <1>1, <2>1, <2>5
  <2>6. ksz8851snl_update => FreePacket \/ UNCHANGED inflight
    BY DEF ksz8851snl_update, UpdateNothing, StartTx, BeginRx, ReadStatus, ClearStatus, ReadCount,
           WaitForSlot, ReadFrameError, StartRx, RxComplete, TxComplete
  <2>7. FrameLeaves \/ SPI_Handler \/ NoInput \/ UNCHANGED vars
        \/ (\E p \in RamPbufs : Send(p) \/ Resend(p)) \/ (\E p \in Pbufs : Release(p))
        => UNCHANGED inflight
    BY DEF FrameLeaves, SPI_Handler, SPI_Handler_RX, SPI_Handler_TX, NoInput, Send, Resend,
           Release, vars
  <2> QED BY <1>1, <2>2, <2>3, <2>4, <2>5, <2>6, <2>7 DEF Next, ethernetif_input
<1>2. EInv /\ Clean /\ [Next]_vars
      => [inflight' < inflight =>
            \/ pc = "input" /\ data[rx_pbuf[us_rx_tail]] = 1
            \/ pc = "drop" /\ BadFrames]_vars
  BY <1>1
<1>3. Spec => []Clean
  BY CleanInit, CleanNext, DriverInvariant, PTL DEF Spec
<1> QED BY <1>2, <1>3, DriverInvariant, PTL DEF Spec, RxInOrder

\* The controller is told to send the packets lwIP handed over in their order,
\* each one with every pbuf of its chain as lwIP left it, if TCP never sends a
\* segment again while it is still in the send ring.
THEOREM SentInOrder == ASSUME ~ResendQueued PROVE Spec => TxInOrder
<1>1. ASSUME EInv, [Next]_vars, owed' < owed
      PROVE  fifo = [i \in 1 .. ChainLen(tx_pbuf[us_tx_tail]) |-> -1]
  <2>1. owed \in Int
    BY <1>1, Sizes DEF EInv, TypeOK
  <2>2. CASE TxComplete
    <3>1. g_spi_pdc_flag = "TX_COMPLETE"
      BY <2>2 DEF TxComplete
    <3>2. /\ fifo = [i \in 1 .. Len(fifo) |-> -1]
          /\ Len(fifo) = ChainLen(tx_pbuf[us_tx_tail])
      BY <1>1, <3>1 DEF EInv, Control, Sending
    <3> QED BY <3>2, Zenon
  <2>3. CASE owed' = owed \/ owed' = owed + 1
    BY <1>1, <2>1, <2>3
  <2>4. (\E answer \in BOOLEAN : Input(answer)) \/ (\E p \in RamPbufs : Send(p) \/ Resend(p))
        => owed' = owed \/ owed' = owed + 1
    BY DEF Input, Send, Resend, Output, ksz8851snl_low_level_output
  <2>5. (\E good \in BOOLEAN : FrameArrives(good)) \/ FrameLeaves \/ SPI_Handler \/ NoInput
        \/ (\E p \in Pbufs : Release(p)) \/ UNCHANGED vars => owed' = owed
    BY DEF FrameArrives, FrameLeaves, SPI_Handler, SPI_Handler_RX, SPI_Handler_TX, NoInput,
           Release, vars
  <2>6. ksz8851snl_update => TxComplete \/ owed' = owed
    BY DEF ksz8851snl_update, UpdateNothing, StartTx, BeginRx, ReadStatus, ClearStatus,
           ReadCount, WaitForSlot, ReadFrameError, FreePacket, StartRx, RxComplete
  <2> QED BY <1>1, <2>2, <2>3, <2>4, <2>5, <2>6 DEF Next, ethernetif_input
<1>2. EInv /\ [Next]_vars
      => [owed' < owed => fifo = [i \in 1 .. ChainLen(tx_pbuf[us_tx_tail]) |-> -1]]_vars
  BY <1>1
<1> QED BY <1>2, DriverInvariant, PTL DEF Spec, TxInOrder
=============================================================================
