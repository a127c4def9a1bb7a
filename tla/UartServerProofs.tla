-------------------------- MODULE UartServerProofs --------------------------
(***************************************************************************)
(* Proofs about UartServer, for every number of clients, connections and   *)
(* pool slots and every length of a reply.                                 *)
(*                                                                         *)
(* The argument for the UART.  A client has at most one slot.  The numbers *)
(* of the segments in it run up to the last one accepted, and what was     *)
(* sent for the client ends where the slot begins; the first segment of    *)
(* the current slot counts as sent from the end of its transfer, before it *)
(* is taken off the list.  The PDC runs exactly while the current slot is  *)
(* ongoing, and it then reads the first segment of that slot.              *)
(*                                                                         *)
(* The argument for the replies.  Of the first reply of the chain, what is *)
(* left, what is under way and what is acknowledged make up one reply; the *)
(* others are whole; and the bytes written are those of the replies before *)
(* the first one and of the part of it that is no longer left.             *)
(***************************************************************************)
EXTENDS UartServer, SequenceTheorems, WellFoundedInduction, TLAPS

\* The slots and the PDC, with current slot cur, the segments ut sent and the
\* number acc of segments accepted from each client.
SlotOK(s, acc) ==
    /\ s.dirty <=> s.next # <<>>
    /\ s.dirty <=> s.client # NULL
    /\ s.ongoing => s.dirty
    /\ \A j \in 1 .. Len(s.next) : /\ s.next[j].client = s.client
                                   /\ s.next[j].n = acc[s.client] - Len(s.next) + j

CurrentOK(d, cur, pd) ==
    /\ \A i \in Pools : d[i].ongoing => cur = i
    /\ IF cur = NULL THEN pd = NULL
       ELSE /\ d[cur].dirty
            /\ d[cur].ongoing <=> pd # NULL
            /\ pd # NULL => pd = Head(d[cur].next)

\* Segments in slot i that are not sent.
Unsent(d, cur, i) == Len(d[i].next) - (IF cur = i /\ ~d[i].ongoing THEN 1 ELSE 0)

SentOK(d, cur, ut, acc) ==
    /\ \A i, j \in Pools : d[i].dirty /\ d[j].dirty /\ d[i].client = d[j].client => i = j
    /\ \A i \in Pools : d[i].dirty =>
            Len(ut[d[i].client]) = acc[d[i].client] - Unsent(d, cur, i)
    /\ \A c \in Clients : (\A i \in Pools : d[i].dirty => d[i].client # c) =>
            Len(ut[c]) = acc[c]

UartSideOK(d, cur, pd, ut, acc) ==
    /\ \A i \in Pools : SlotOK(d[i], acc)
    /\ CurrentOK(d, cur, pd)
    /\ SentOK(d, cur, ut, acc)

\* The chain of a connection with u bytes under way, w bytes written and n
\* replies queued.
ChainOK(chain, u, w, n) ==
    /\ Len(chain) <= n
    /\ \A i \in 1 .. Len(chain) : chain[i].reply = n - Len(chain) + i
    /\ \A i \in 2 .. Len(chain) : chain[i].left = ACK_FRAME_LEN /\ chain[i].acked = 0
    /\ IF chain = <<>> THEN u = 0 /\ Len(w) = n * ACK_FRAME_LEN
       ELSE /\ chain[1].left + chain[1].acked + u = ACK_FRAME_LEN
            /\ Len(w) = chain[1].reply * ACK_FRAME_LEN - chain[1].left

ConnectionOK(p) ==
    remote[p] # NULL =>
        /\ id[p] >= 1
        /\ Dangles(p) \/ ChainOK(callback_arg[p], unacked[p], written[p], replies[p])

\* The inductive invariant.
UInv ==
    /\ TypeOK
    /\ UartSideOK(data_from_eth, cur_pool, pdc, uart, accepted)
    /\ \A p \in Pcbs : ConnectionOK(p)
    /\ UartInOrder
    /\ RepliesInOrder
-----------------------------------------------------------------------------
(***************************************************************************)
(* The UART.                                                               *)
(***************************************************************************)

Slots == [dirty : BOOLEAN, ongoing : BOOLEAN, client : Clients \cup {NULL},
          next : Seq(Segments)]

\* A set of slots that is not empty has a first one.
LEMMA FirstSlot ==
    ASSUME NEW S \in SUBSET Pools, S # {}
    PROVE  First(S) \in S
<1>1. S \subseteq Nat
  BY PoolAssumption DEF Pools
<1>2. PICK x \in S : \A y \in S : ~(<<y, x>> \in OpToRel(<, Nat))
  BY <1>1, NatLessThanWellFounded, WFMin
<1>3. \A y \in S : ~(y < x)
  BY <1>1, <1>2 DEF OpToRel
<1>4. \A y \in S : x <= y
  BY <1>1, <1>3
<1> QED BY <1>4 DEF First

\* Taking the first segment off a list.
LEMMA TailOf ==
    ASSUME NEW S, NEW q \in Seq(S), q # <<>>
    PROVE  /\ Tail(q) \in Seq(S) /\ Head(q) \in S /\ Head(q) = q[1]
           /\ Len(q) \in Nat \ {0} /\ Len(Tail(q)) = Len(q) - 1
           /\ \A j \in 1 .. Len(q) - 1 : Tail(q)[j] = q[j + 1]
<1>1. Len(q) \in Nat /\ q \in [1 .. Len(q) -> S]
  BY LenProperties
<1>2. Len(q) # 0
  BY EmptySeq
<1> QED BY <1>1, <1>2, HeadTailProperties

\* Adding a segment to the end of a list.
LEMMA AppendTo ==
    ASSUME NEW S, NEW q \in Seq(S), NEW e \in S
    PROVE  /\ Append(q, e) \in Seq(S) /\ Append(q, e) # <<>>
           /\ Len(q) \in Nat /\ Len(Append(q, e)) = Len(q) + 1
           /\ Append(q, e)[Len(q) + 1] = e
           /\ \A j \in 1 .. Len(q) : Append(q, e)[j] = q[j]
           /\ q # <<>> => Head(Append(q, e)) = Head(q)
<1>1. q # <<>> => Head(Append(q, e)) = Head(q)
  BY HeadTailAppend
<1>2. Len(q) \in Nat
  BY LenProperties
<1> QED BY <1>1, <1>2, AppendProperties

\* With no current slot, selecting one keeps the slots, the PDC and what was sent
\* in agreement.
LEMMA Select ==
    ASSUME NEW d \in [Pools -> Slots], pdc = NULL, SelectSlot(d),
           UartSideOK(d, NULL, NULL, uart, accepted)
    PROVE  /\ data_from_eth' \in [Pools -> Slots]
           /\ cur_pool' \in Pools \cup {NULL}
           /\ pdc' \in Segments \cup {NULL}
           /\ UartSideOK(data_from_eth', cur_pool', pdc', uart, accepted)
<1> DEFINE full == {i \in Pools : d[i].dirty}
           i == First(full)
<1>1. CASE full = {}
  BY <1>1 DEF SelectSlot
<1>2. CASE full # {}
  <2>1. i \in Pools /\ d[i].dirty
    BY <1>2, FirstSlot
  <2>2. /\ cur_pool' = i
        /\ data_from_eth' = [d EXCEPT ![i].ongoing = TRUE]
        /\ pdc' = Head(d[i].next)
    BY <1>2 DEF SelectSlot, pdc_uart_send_data
  <2> HIDE DEF i
  <2>3. /\ d[i] \in Slots /\ d[i].next \in Seq(Segments)
        /\ d[i].next # <<>>
    BY <2>1 DEF UartSideOK, SlotOK, Slots
  <2>4. pdc' \in Segments /\ pdc' # NULL
    BY <2>2, <2>3, TailOf, NullAssumption
  <2>5. \A j \in Pools : j # i => data_from_eth'[j] = d[j]
    BY <2>1, <2>2
  <2>6. /\ data_from_eth'[i].dirty = d[i].dirty /\ data_from_eth'[i].ongoing = TRUE
        /\ data_from_eth'[i].client = d[i].client /\ data_from_eth'[i].next = d[i].next
    BY <2>1, <2>2, <2>3 DEF Slots
  <2>7. data_from_eth' \in [Pools -> Slots]
    BY <2>1, <2>2 DEF Slots
  <2>8. ~d[i].ongoing /\ i # NULL
    BY <2>1, PoolAssumption DEF UartSideOK, CurrentOK, Pools
  <2>9. ASSUME NEW j \in Pools
        PROVE  SlotOK(data_from_eth'[j], accepted)
    <3>1. SlotOK(d[j], accepted)
      BY DEF UartSideOK
    <3>2. CASE j # i
      BY <2>5, <3>1, <3>2
    <3>3. CASE j = i
      <4> DEFINE e == data_from_eth'
      <4>1. /\ e[i].dirty <=> e[i].next # <<>>
            /\ e[i].dirty <=> e[i].client # NULL
            /\ e[i].ongoing => e[i].dirty
        BY <2>1, <2>6, <3>1, <3>3 DEF SlotOK
      <4>2. \A m \in 1 .. Len(e[i].next) :
                /\ e[i].next[m].client = e[i].client
                /\ e[i].next[m].n = accepted[e[i].client] - Len(e[i].next) + m
        BY <2>6, <3>1, <3>3 DEF SlotOK
      <4> HIDE DEF e
      <4>3. SlotOK(e[i], accepted)
        BY <4>1, <4>2 DEF SlotOK
      <4> QED BY <3>3, <4>3 DEF e
    <3> QED BY <3>2, <3>3
  <2>10. CurrentOK(data_from_eth', i, pdc')
    <3>1. \A j \in Pools : ~d[j].ongoing
      BY PoolAssumption DEF UartSideOK, CurrentOK, Pools
    <3>2. \A j \in Pools : data_from_eth'[j].ongoing => i = j
      BY <2>5, <3>1
    <3>3. pdc' = Head(data_from_eth'[i].next)
      BY <2>2, <2>6
    <3> QED BY <2>1, <2>4, <2>6, <2>8, <3>2, <3>3 DEF CurrentOK
  <2>11. \A j \in Pools : /\ data_from_eth'[j].dirty = d[j].dirty
                          /\ data_from_eth'[j].client = d[j].client
                          /\ Unsent(data_from_eth', i, j) = Unsent(d, NULL, j)
    BY <2>1, <2>5, <2>6, <2>8, PoolAssumption DEF Unsent, Pools
  <2>12. SentOK(data_from_eth', i, uart, accepted)
    BY <2>11 DEF UartSideOK, SentOK
  <2> QED BY <2>1, <2>2, <2>4, <2>7, <2>9, <2>10, <2>12 DEF UartSideOK
<1> QED BY <1>1, <1>2

\* Every slot is a record, and its list a sequence of segments.
LEMMA SlotTypes ==
    ASSUME TypeOK, NEW i \in Pools
    PROVE  /\ data_from_eth \in [Pools -> Slots] /\ data_from_eth[i] \in Slots
           /\ data_from_eth[i].next \in Seq(Segments)
           /\ data_from_eth[i].client \in Clients \cup {NULL}
           /\ data_from_eth[i].dirty \in BOOLEAN /\ data_from_eth[i].ongoing \in BOOLEAN
           /\ Len(data_from_eth[i].next) \in Nat
           /\ Len(data_from_eth[i].next) = 0 <=> data_from_eth[i].next = <<>>
<1>1. data_from_eth \in [Pools -> Slots]
  BY DEF TypeOK, Slots
<1>2. data_from_eth[i] \in Slots
  BY <1>1
<1>3. /\ data_from_eth[i].next \in Seq(Segments)
      /\ data_from_eth[i].client \in Clients \cup {NULL}
      /\ data_from_eth[i].dirty \in BOOLEAN /\ data_from_eth[i].ongoing \in BOOLEAN
  BY <1>2 DEF Slots
<1> QED BY <1>1, <1>2, <1>3, LenProperties, EmptySeq

\* The segments of a slot and of the PDC, as far as the invariant needs them.
LEMMA CountTypes ==
    ASSUME TypeOK
    PROVE  /\ \A c \in Clients : /\ uart[c] \in Seq(Segments) /\ Len(uart[c]) \in Nat
                                 /\ accepted[c] \in 0 .. MaxSegs
           /\ MaxSegs \in Nat /\ MaxConns \in Nat /\ MaxReplies \in Nat
           /\ NULL \notin Clients /\ NULL \notin Pools
BY LenProperties, PoolAssumption DEF TypeOK, Pools

\* A segment taken from the network.
LEMMA RecvDataStep ==
    ASSUME UInv, NEW p \in Pcbs, RecvData(p)
    PROVE  /\ data_from_eth' \in [Pools -> Slots]
           /\ accepted' \in [Clients -> 0 .. MaxSegs]
           /\ UartSideOK(data_from_eth', cur_pool, pdc, uart, accepted')
<1> DEFINE c == remote[p]
           i == First(SlotsFor(c))
           segment == [client |-> c, n |-> accepted[c] + 1, pcb |-> p, id |-> id[p]]
           d == data_from_eth
           e == data_from_eth'
<1> USE DEF UInv
<1>1. c \in Clients /\ SlotsFor(c) # {} /\ SlotsFor(c) \in SUBSET Pools
  BY DEF RecvData, TypeOK, SlotsFor
<1>2. i \in SlotsFor(c) /\ i \in Pools
  BY <1>1, FirstSlot
<1>3. /\ data_from_eth' = [d EXCEPT ![i].next = Append(@, segment), ![i].client = c,
                                    ![i].dirty = TRUE]
      /\ accepted' = [accepted EXCEPT ![c] = @ + 1]
      /\ accepted[c] < MaxSegs
  BY DEF RecvData, Enqueue
<1>4. segment \in Segments /\ segment.client = c /\ segment.n = accepted[c] + 1
  <2>1. id[p] \in 1 .. MaxConns
    <3>1. remote[p] # NULL
      BY <1>1, CountTypes
    <3>2. id[p] >= 1
      BY <3>1 DEF ConnectionOK
    <3>3. id[p] \in 0 .. MaxConns
      BY DEF TypeOK
    <3> QED BY <3>2, <3>3
  <2>2. accepted[c] + 1 \in 1 .. MaxSegs
    BY <1>1, <1>3, CountTypes
  <2> QED BY <1>1, <2>1, <2>2 DEF Segments
<1> HIDE DEF segment
<1>5. \/ d[i].dirty /\ d[i].client = c
      \/ ~d[i].dirty /\ \A j \in Pools : d[j].dirty => d[j].client # c
  BY <1>2 DEF SlotsFor
<1> HIDE DEF c, i
<1>6. /\ d[i] \in Slots /\ d[i].next \in Seq(Segments)
      /\ \A j \in Pools : Len(d[j].next) \in Nat
      /\ \A j \in Pools : Len(d[j].next) = 0 <=> d[j].next = <<>>
  BY <1>2, SlotTypes
<1>7. /\ e[i].next = Append(d[i].next, segment) /\ e[i].client = c
      /\ e[i].dirty = TRUE /\ e[i].ongoing = d[i].ongoing
  BY <1>2, <1>3, <1>6 DEF Slots, TypeOK
<1>8. \A j \in Pools : j # i => e[j] = d[j]
  BY <1>2, <1>3, SlotTypes
<1>9. /\ Append(d[i].next, segment) \in Seq(Segments) /\ e[i].next # <<>>
      /\ Len(e[i].next) = Len(d[i].next) + 1
      /\ e[i].next[Len(d[i].next) + 1] = segment
      /\ \A j \in 1 .. Len(d[i].next) : e[i].next[j] = d[i].next[j]
      /\ d[i].next # <<>> => Head(e[i].next) = Head(d[i].next)
  BY <1>4, <1>6, <1>7, AppendTo
<1>10. data_from_eth' \in [Pools -> Slots]
  <2>1. d \in [Pools -> Slots]
    BY <1>2, SlotTypes
  <2> QED BY <1>1, <1>2, <1>3, <1>6, <1>9, <2>1 DEF Slots
<1>11. /\ accepted' \in [Clients -> 0 .. MaxSegs]
       /\ accepted'[c] = accepted[c] + 1
       /\ \A b \in Clients : b # c => accepted'[b] = accepted[b]
       /\ accepted[c] \in Nat
  <2>1. accepted \in [Clients -> 0 .. MaxSegs]
    BY DEF TypeOK
  <2>2. accepted[c] \in 0 .. MaxSegs /\ MaxSegs \in Nat
    BY <1>1, CountTypes
  <2> HIDE DEF UInv
  <2> QED BY <1>1, <1>3, <2>1, <2>2
<1>12. \A j \in Pools : j # i /\ d[j].dirty => d[j].client # c /\ d[j].client \in Clients
  <2>1. \A j \in Pools : d[j].dirty => d[j].client # NULL /\ d[j].client \in Clients
    BY SlotTypes DEF UartSideOK, SlotOK
  <2> QED BY <1>2, <1>5, <2>1 DEF UartSideOK, SentOK
<1>13. cur_pool = i => d[i].dirty /\ d[i].client = c /\ d[i].next # <<>>
  BY <1>2, <1>5, CountTypes DEF UartSideOK, CurrentOK, SlotOK
<1>14. ASSUME NEW j \in Pools
       PROVE  SlotOK(e[j], accepted')
  <2>1. SlotOK(d[j], accepted)
    BY DEF UartSideOK
  <2>2. CASE j # i /\ d[j].dirty
    <3>1. e[j] = d[j] /\ accepted'[d[j].client] = accepted[d[j].client]
      BY <1>8, <1>11, <1>12, <2>2
    <3> QED BY <2>1, <3>1 DEF SlotOK
  <2>4. CASE j # i /\ ~d[j].dirty
    <3>1. e[j] = d[j] /\ Len(d[j].next) = 0 /\ 1 .. 0 = {}
      BY <1>6, <1>8, <2>1, <2>4 DEF SlotOK
    <3> QED BY <2>1, <2>4, <3>1 DEF SlotOK
  <2>3. CASE j = i
    <3>1. \A k \in 1 .. Len(d[i].next) : /\ d[i].next[k].client = c
                                         /\ d[i].next[k].n = accepted[c] - Len(d[i].next) + k
      BY <1>5, <1>6, <2>1, <2>3 DEF SlotOK
    <3>2. \A k \in 1 .. Len(e[i].next) : /\ e[i].next[k].client = c
                                         /\ e[i].next[k].n = accepted'[c] - Len(e[i].next) + k
      <4> SUFFICES ASSUME NEW k \in 1 .. Len(e[i].next)
                   PROVE  /\ e[i].next[k].client = c
                          /\ e[i].next[k].n = accepted'[c] - Len(e[i].next) + k
        OBVIOUS
      <4>1. Len(d[i].next) \in Nat
        BY <1>2, <1>6
      <4>2. CASE k \in 1 .. Len(d[i].next)
        <5>1. e[i].next[k] = d[i].next[k]
          BY <1>9, <4>2
        <5>2. k \in Int /\ Len(e[i].next) = Len(d[i].next) + 1
              /\ accepted'[c] = accepted[c] + 1 /\ accepted[c] \in Nat
          BY <1>9, <1>11, <4>1, <4>2
        <5>3. accepted'[c] - Len(e[i].next) + k = accepted[c] - Len(d[i].next) + k
          <6>1. ASSUME NEW a \in Int, NEW n \in Int, NEW m \in Int
                PROVE  (a + 1) - (n + 1) + m = a - n + m
            OBVIOUS
          <6>2. accepted[c] \in Int /\ Len(d[i].next) \in Int /\ k \in Int
            BY <4>1, <5>2
          <6>3. (accepted[c] + 1) - (Len(d[i].next) + 1) + k = accepted[c] - Len(d[i].next) + k
            BY <6>1, <6>2
          <6> QED BY <5>2, <6>3
        <5> QED BY <3>1, <4>2, <5>1, <5>3
      <4>3. CASE k = Len(d[i].next) + 1
        <5>1. accepted'[c] - Len(e[i].next) + k = accepted[c] + 1
          BY <1>9, <1>11, <4>1, <4>3
        <5> QED BY <1>4, <1>9, <4>3, <5>1
      <4> QED BY <1>9, <4>1, <4>2, <4>3
    <3> QED BY <1>1, <1>7, <1>9, <2>3, <3>2, CountTypes DEF SlotOK
  <2> QED BY <2>2, <2>3, <2>4
<1>15. CurrentOK(e, cur_pool, pdc)
  <2>1. CurrentOK(d, cur_pool, pdc)
    BY DEF UartSideOK
  <2>2. \A j \in Pools : e[j].ongoing = d[j].ongoing /\ (d[j].dirty => e[j].dirty)
    BY <1>7, <1>8
  <2>3. cur_pool # NULL => /\ cur_pool \in Pools
                           /\ Head(e[cur_pool].next) = Head(d[cur_pool].next)
    BY <1>8, <1>9, <1>13 DEF TypeOK
  <2> QED BY <2>1, <2>2, <2>3 DEF CurrentOK
<1>16. SentOK(e, cur_pool, uart, accepted')
  <2>1. SentOK(d, cur_pool, uart, accepted)
    BY DEF UartSideOK
  <2>2. \A j, k \in Pools : e[j].dirty /\ e[k].dirty /\ e[j].client = e[k].client => j = k
    BY <1>7, <1>8, <1>12, <2>1 DEF SentOK
  <2>3. ASSUME NEW j \in Pools, e[j].dirty
        PROVE  Len(uart[e[j].client]) = accepted'[e[j].client] - Unsent(e, cur_pool, j)
    <3>1. CASE j # i
      <4>1. e[j] = d[j]
        BY <1>8, <3>1
      <4> HIDE DEF d, e, UInv
      <4>2. Unsent(e, cur_pool, j) = Unsent(d, cur_pool, j)
        BY <4>1 DEF Unsent
      <4>3. d[j].client # c /\ d[j].client \in Clients
        BY <1>12, <2>3, <3>1, <4>1
      <4>4. accepted'[d[j].client] = accepted[d[j].client]
        BY <1>11, <4>3
      <4>5. Len(uart[d[j].client]) = accepted[d[j].client] - Unsent(d, cur_pool, j)
        BY <2>1, <2>3, <4>1 DEF SentOK
      <4> QED BY <4>1, <4>2, <4>4, <4>5
    <3>2. CASE j = i /\ d[i].dirty
      <4>1. Len(uart[c]) = accepted[c] - Unsent(d, cur_pool, i)
        BY <1>2, <1>5, <2>1, <3>2 DEF SentOK
      <4>2. Unsent(d, cur_pool, i) \in Int
            /\ Unsent(e, cur_pool, i) = Unsent(d, cur_pool, i) + 1
        BY <1>2, <1>6, <1>7, <1>9 DEF Unsent
      <4>3. accepted'[c] - (Unsent(d, cur_pool, i) + 1) = accepted[c] - Unsent(d, cur_pool, i)
        BY <1>11, <4>2
      <4> QED BY <1>7, <3>2, <4>1, <4>2, <4>3
    <3>3. CASE j = i /\ ~d[i].dirty
      <4>1. d[i].next = <<>> /\ cur_pool # i
        BY <1>2, <1>13, <3>3 DEF UartSideOK, SlotOK
      <4>2. Len(uart[c]) = accepted[c]
        BY <1>1, <1>5, <2>1, <3>3 DEF SentOK
      <4>3. Len(d[i].next) = 0
        BY <1>2, <1>6, <4>1
      <4>4. Unsent(e, cur_pool, i) = 1
        BY <1>9, <4>1, <4>3 DEF Unsent
      <4>5. accepted'[c] - 1 = accepted[c]
        BY <1>11
      <4> QED BY <1>7, <3>3, <4>2, <4>4, <4>5
    <3> QED BY <3>1, <3>2, <3>3
  <2>4. ASSUME NEW b \in Clients, \A j \in Pools : e[j].dirty => e[j].client # b
        PROVE  Len(uart[b]) = accepted'[b]
    <3>1. b # c
      BY <1>2, <1>7, <2>4
    <3>2. \A j \in Pools : d[j].dirty => d[j].client # b
      BY <1>5, <1>8, <2>4, <3>1
    <3> QED BY <1>11, <2>1, <3>1, <3>2 DEF SentOK
  <2> QED BY <2>2, <2>3, <2>4 DEF SentOK
<1> QED BY <1>10, <1>11, <1>14, <1>15, <1>16 DEF UartSideOK

\* The first segment of slot i is sent and others follow it.
LEMMA NextOfSlot ==
    ASSUME UInv, NEW i \in Pools, cur_pool = i, Finished(i),
           Tail(data_from_eth[i].next) # <<>>,
           data_from_eth' = [data_from_eth EXCEPT ![i].next = Tail(@), ![i].ongoing = TRUE],
           NEW s, s = Head(Tail(data_from_eth[i].next))
    PROVE  /\ data_from_eth' \in [Pools -> Slots]
           /\ s \in Segments
           /\ UartSideOK(data_from_eth', i, s, uart, accepted)
<1> DEFINE d == data_from_eth
           e == data_from_eth'
           q == d[i].next
<1> USE DEF UInv
<1>1. /\ d \in [Pools -> Slots] /\ d[i] \in Slots /\ q \in Seq(Segments)
      /\ d[i].client \in Clients
      /\ d[i].dirty = TRUE /\ d[i].ongoing = FALSE /\ q # <<>> /\ SlotOK(d[i], accepted)
  BY SlotTypes DEF Finished, UartSideOK, SlotOK
<1>2. /\ Tail(q) \in Seq(Segments) /\ Len(q) \in Nat \ {0} /\ Len(Tail(q)) = Len(q) - 1
      /\ \A j \in 1 .. Len(q) - 1 : Tail(q)[j] = q[j + 1]
  BY <1>1, TailOf
<1>3. s \in Segments /\ s # NULL
  BY <1>2, TailOf, NullAssumption
<1>4. /\ e[i].next = Tail(q) /\ e[i].client = d[i].client
      /\ e[i].dirty = TRUE /\ e[i].ongoing = TRUE
  BY <1>1 DEF Slots
<1>5. \A j \in Pools : j # i => e[j] = d[j]
  BY <1>1
<1>6. e \in [Pools -> Slots]
  BY <1>1, <1>2 DEF Slots
<1>7. ASSUME NEW j \in Pools
      PROVE  SlotOK(e[j], accepted)
  <2>1. CASE j # i
    BY <1>5, <2>1 DEF UartSideOK
  <2>2. CASE j = i
    <3>1. ASSUME NEW k \in 1 .. Len(Tail(q))
          PROVE  /\ Tail(q)[k].client = d[i].client
                 /\ Tail(q)[k].n = accepted[d[i].client] - Len(Tail(q)) + k
      <4>1. k \in Nat /\ k + 1 \in 1 .. Len(q) /\ k \in 1 .. Len(q) - 1
        BY <1>2
      <4>2. Tail(q)[k] = q[k + 1]
        BY <1>2, <4>1
      <4>3. /\ q[k + 1].client = d[i].client
            /\ q[k + 1].n = accepted[d[i].client] - Len(q) + (k + 1)
        BY <1>1, <4>1 DEF SlotOK
      <4>4. accepted[d[i].client] \in Nat
        BY <1>1, CountTypes
      <4>5. accepted[d[i].client] - Len(q) + (k + 1) = accepted[d[i].client] - (Len(q) - 1) + k
        <5>1. ASSUME NEW a \in Int, NEW n \in Int, NEW m \in Int
              PROVE  a - n + (m + 1) = a - (n - 1) + m
          OBVIOUS
        <5>2. accepted[d[i].client] \in Int /\ Len(q) \in Int /\ k \in Int
          BY <1>2, <4>1, <4>4
        <5> QED BY <5>1, <5>2
      <4> QED BY <1>2, <4>2, <4>3, <4>5
    <3> QED BY <1>1, <1>4, <2>2, <3>1 DEF SlotOK
  <2> QED BY <2>1, <2>2
<1>8. CurrentOK(e, i, s)
  <2>1. i # NULL
    BY CountTypes
  <2> QED BY <1>3, <1>4, <1>5, <2>1 DEF UartSideOK, CurrentOK
<1>9. SentOK(e, i, uart, accepted)
  <2>1. Unsent(d, i, i) = Len(q) - 1 /\ Unsent(e, i, i) = Len(Tail(q))
    <3>1. Len(Tail(q)) - 0 = Len(Tail(q))
      BY <1>2
    <3> QED BY <1>1, <1>4, <3>1 DEF Unsent
  <2>2. \A j \in Pools : j # i => Unsent(e, i, j) = Unsent(d, i, j)
    BY <1>5 DEF Unsent
  <2>3. ASSUME NEW j \in Pools
        PROVE  /\ e[j].dirty = d[j].dirty /\ e[j].client = d[j].client
               /\ Unsent(e, i, j) = Unsent(d, i, j)
    <3>1. CASE j = i
      BY <1>1, <1>2, <1>4, <2>1, <3>1
    <3>2. CASE j # i
      BY <1>5, <2>2, <3>2
    <3> QED BY <3>1, <3>2
  <2>4. SentOK(d, i, uart, accepted)
    BY DEF UartSideOK
  <2>5. \A j, k \in Pools : e[j].dirty /\ e[k].dirty /\ e[j].client = e[k].client => j = k
    BY <2>3, <2>4 DEF SentOK
  <2>6. \A j \in Pools : e[j].dirty =>
            Len(uart[e[j].client]) = accepted[e[j].client] - Unsent(e, i, j)
    BY <2>3, <2>4 DEF SentOK
  <2>7. \A b \in Clients : (\A j \in Pools : e[j].dirty => e[j].client # b) =>
            Len(uart[b]) = accepted[b]
    BY <2>3, <2>4 DEF SentOK
  <2> QED BY <2>5, <2>6, <2>7, Zenon DEF SentOK
<1> QED BY <1>3, <1>6, <1>7, <1>8, <1>9 DEF UartSideOK

\* A list with nothing behind its first segment.
LEMMA OneSegment ==
    ASSUME NEW S, NEW q \in Seq(S), q # <<>>, Tail(q) = <<>>
    PROVE  Len(q) = 1
<1>1. Len(q) \in Nat /\ Len(Tail(q)) = Len(q) - 1
  BY TailOf
<1>2. Len(Tail(q)) = Len(<<>>)
  BY Zenon
<1>3. Len(<<>>) = 0
  OBVIOUS
<1> QED BY <1>1, <1>2, <1>3

\* The last segment of slot i is sent, and the slot is cleared.
LEMMA SlotDone ==
    ASSUME UInv, NEW i \in Pools, cur_pool = i, Finished(i),
           Tail(data_from_eth[i].next) = <<>>,
           NEW e, e = [[data_from_eth EXCEPT ![i].next = <<>>]
                            EXCEPT ![i].dirty = FALSE, ![i].client = NULL]
    PROVE  /\ e \in [Pools -> Slots]
           /\ UartSideOK(e, NULL, NULL, uart, accepted)
<1> DEFINE d == data_from_eth
           q == d[i].next
<1> USE DEF UInv
<1>1. /\ d \in [Pools -> Slots] /\ d[i] \in Slots /\ q \in Seq(Segments)
      /\ d[i].client \in Clients
      /\ d[i].dirty = TRUE /\ d[i].ongoing = FALSE /\ q # <<>> /\ SlotOK(d[i], accepted)
  BY SlotTypes DEF Finished, UartSideOK, SlotOK
<1>2. Len(q) = 1
  BY <1>1, OneSegment
<1>3. e[i].next = <<>> /\ e[i].client = NULL /\ e[i].dirty = FALSE /\ e[i].ongoing = FALSE
  BY <1>1 DEF Slots
<1>4. \A j \in Pools : j # i => e[j] = d[j]
  BY <1>1
<1>5. e \in [Pools -> Slots]
  BY <1>1, EmptySeq DEF Slots
<1>6. \A j \in Pools : SlotOK(e[j], accepted)
  <2>1. SlotOK(e[i], accepted)
    <3>1. Len(<<>>) = 0 /\ 1 .. 0 = {}
      OBVIOUS
    <3> QED BY <1>3, <3>1 DEF SlotOK
  <2> QED BY <1>4, <2>1 DEF UartSideOK
<1>7. i # NULL
  BY CountTypes
<1>8. CurrentOK(e, NULL, NULL)
  BY <1>3, <1>4, <1>7 DEF UartSideOK, CurrentOK
<1>9. Unsent(d, i, i) = 0
  BY <1>1, <1>2 DEF Unsent
<1>10. \A j \in Pools : j # i => Unsent(e, NULL, j) = Unsent(d, i, j)
  BY <1>4, CountTypes DEF Unsent
<1>11. SentOK(e, NULL, uart, accepted)
  <2>1. SentOK(d, i, uart, accepted)
    BY DEF UartSideOK
  <2>2. ASSUME NEW c \in Clients, \A j \in Pools : e[j].dirty => e[j].client # c
        PROVE  Len(uart[c]) = accepted[c]
    <3>1. CASE c = d[i].client
      <4>1. Len(uart[c]) = accepted[c] - 0 /\ accepted[c] \in Nat
        BY <1>1, <1>9, <2>1, <3>1, CountTypes DEF SentOK
      <4> QED BY <4>1
    <3>2. CASE c # d[i].client
      BY <1>4, <2>1, <2>2, <3>2 DEF SentOK
    <3> QED BY <3>1, <3>2
  <2>3. \A j \in Pools : e[j].dirty =>
            Len(uart[e[j].client]) = accepted[e[j].client] - Unsent(e, NULL, j)
    BY <1>3, <1>4, <1>10, <2>1 DEF SentOK
  <2> QED BY <1>3, <1>4, <2>1, <2>2, <2>3 DEF SentOK
<1> QED BY <1>5, <1>6, <1>8, <1>11 DEF UartSideOK

\* A turn of the main loop.
LEMMA PoolStep ==
    ASSUME UInv, check_uart_data_pool
    PROVE  /\ data_from_eth' \in [Pools -> Slots]
           /\ cur_pool' \in Pools \cup {NULL}
           /\ pdc' \in Segments \cup {NULL}
           /\ UartSideOK(data_from_eth', cur_pool', pdc', uart, accepted)
           /\ dangling' \subseteq {"pcb", "callback_arg"}
<1> USE DEF UInv
<1>1. CASE TakeNext
  <2>1. cur_pool \in Pools /\ cur_pool # NULL /\ Finished(cur_pool)
    BY <1>1 DEF TakeNext, TypeOK
  <2>2. pdc = NULL
    BY <2>1 DEF Finished, UartSideOK, CurrentOK
  <2>3. dangling' \subseteq {"pcb", "callback_arg"}
    BY <1>1 DEF TakeNext, UseDangling, TypeOK
  <2> DEFINE rest == Tail(data_from_eth[cur_pool].next)
  <2>4. CASE rest # <<>>
    <3>1. /\ data_from_eth' = [data_from_eth EXCEPT ![cur_pool].next = Tail(@),
                                                    ![cur_pool].ongoing = TRUE]
          /\ pdc' = Head(rest) /\ cur_pool' = cur_pool
      BY <1>1, <2>2, <2>4 DEF TakeNext, pdc_uart_send_data
    <3> QED BY <2>1, <2>3, <2>4, <3>1, NextOfSlot
  <2>5. CASE rest = <<>>
    <3>1. /\ SelectSlot([[data_from_eth EXCEPT ![cur_pool].next = <<>>]
                            EXCEPT ![cur_pool].dirty = FALSE, ![cur_pool].client = NULL])
      BY <1>1, <2>5 DEF TakeNext, ReleaseSlot
    <3> QED BY <2>1, <2>2, <2>3, <2>5, <3>1, SlotDone, Select
  <2> QED BY <2>4, <2>5
<1>2. CASE cur_pool = NULL /\ SelectSlot(data_from_eth) /\ UNCHANGED dangling
  <2>1. pdc = NULL
    BY <1>2 DEF UartSideOK, CurrentOK
  <2>2. data_from_eth \in [Pools -> Slots]
    BY DEF TypeOK, Slots
  <2> QED BY <1>2, <2>1, <2>2, Select DEF TypeOK
<1> QED BY <1>1, <1>2 DEF check_uart_data_pool

\* The end of a transfer.
LEMMA UartStep ==
    ASSUME UInv, UART1_Handler
    PROVE  /\ data_from_eth' \in [Pools -> Slots]
           /\ pdc' \in Segments \cup {NULL}
           /\ uart' \in [Clients -> Seq(Segments)]
           /\ UartSideOK(data_from_eth', cur_pool, pdc', uart', accepted)
           /\ UartInOrder'
<1> DEFINE i == cur_pool
           d == data_from_eth
           e == data_from_eth'
           c == pdc.client
<1> USE DEF UInv
<1>1. /\ i \in Pools /\ i # NULL /\ d[i].dirty = TRUE /\ d[i].ongoing = TRUE
      /\ pdc = Head(d[i].next) /\ pdc # NULL /\ pdc \in Segments
  BY SlotTypes DEF UART1_Handler, TypeOK, UartSideOK, CurrentOK
<1>2. /\ d \in [Pools -> Slots] /\ d[i] \in Slots /\ d[i].next \in Seq(Segments)
      /\ d[i].next # <<>> /\ Len(d[i].next) \in Nat \ {0} /\ SlotOK(d[i], accepted)
  BY <1>1, SlotTypes DEF UartSideOK, SlotOK
<1>3. /\ data_from_eth' = [d EXCEPT ![i].ongoing = FALSE]
      /\ pdc' = NULL
      /\ uart' = [uart EXCEPT ![c] = Append(@, pdc)]
  BY <1>1 DEF UART1_Handler
<1>4. /\ e[i].next = d[i].next /\ e[i].client = d[i].client
      /\ e[i].dirty = d[i].dirty /\ e[i].ongoing = FALSE
  BY <1>1, <1>2, <1>3 DEF Slots
<1>5. \A j \in Pools : j # i => e[j] = d[j]
  BY <1>2, <1>3
<1>6. data_from_eth' \in [Pools -> Slots]
  BY <1>1, <1>2, <1>3 DEF Slots
<1>7. c \in Clients
  BY <1>1 DEF Segments
<1>8. c = d[i].client /\ pdc.n = accepted[c] - Len(d[i].next) + 1
  <2>1. pdc = d[i].next[1] /\ 1 \in 1 .. Len(d[i].next)
    BY <1>1, <1>2, TailOf
  <2> QED BY <1>2, <2>1 DEF SlotOK
<1>9. /\ uart[c] \in Seq(Segments) /\ Len(uart[c]) \in Nat /\ accepted[c] \in Nat
      /\ uart \in [Clients -> Seq(Segments)]
  BY <1>7, CountTypes DEF TypeOK
<1>10. Len(uart[c]) = accepted[c] - Len(d[i].next)
  <2>1. Len(uart[c]) = accepted[c] - Unsent(d, i, i)
    BY <1>1, <1>8 DEF UartSideOK, SentOK
  <2>2. Unsent(d, i, i) = Len(d[i].next)
    <3>1. Len(d[i].next) - 0 = Len(d[i].next)
      BY <1>2
    <3> QED BY <1>1, <3>1 DEF Unsent
  <2> QED BY <2>1, <2>2
<1>11. /\ uart'[c] = Append(uart[c], pdc)
       /\ \A b \in Clients : b # c => uart'[b] = uart[b]
  BY <1>3, <1>7, <1>9
<1>12. /\ uart'[c] \in Seq(Segments) /\ Len(uart'[c]) = Len(uart[c]) + 1
       /\ uart'[c][Len(uart[c]) + 1] = pdc
       /\ \A k \in 1 .. Len(uart[c]) : uart'[c][k] = uart[c][k]
  <2> HIDE DEF c
  <2>1. /\ Append(uart[c], pdc) \in Seq(Segments)
        /\ Len(Append(uart[c], pdc)) = Len(uart[c]) + 1
        /\ Append(uart[c], pdc)[Len(uart[c]) + 1] = pdc
        /\ \A k \in 1 .. Len(uart[c]) : Append(uart[c], pdc)[k] = uart[c][k]
    BY <1>1, <1>9, AppendTo
  <2> QED BY <1>11, <2>1
<1>13. uart' \in [Clients -> Seq(Segments)]
  <2>1. Append(uart[c], pdc) \in Seq(Segments)
    BY <1>11, <1>12
  <2> HIDE DEF c
  <2> QED BY <1>3, <1>7, <1>9, <2>1
<1>14. \A j \in Pools : SlotOK(e[j], accepted)
  <2>1. SlotOK(e[i], accepted)
    BY <1>1, <1>2, <1>4 DEF SlotOK
  <2> QED BY <1>5, <2>1 DEF UartSideOK
<1>15. CurrentOK(e, i, NULL)
  BY <1>1, <1>4, <1>5 DEF UartSideOK, CurrentOK
<1>16. SentOK(e, i, uart', accepted)
  <2>1. SentOK(d, i, uart, accepted)
    BY DEF UartSideOK
  <2>2. \A j \in Pools : e[j].dirty = d[j].dirty /\ e[j].client = d[j].client
    BY <1>4, <1>5
  <2>3. \A j \in Pools : j # i /\ d[j].dirty => d[j].client # c
    BY <1>1, <1>8, <2>1 DEF SentOK
  <2>4. \A j \in Pools : j # i => Unsent(e, i, j) = Unsent(d, i, j)
    BY <1>5 DEF Unsent
  <2>5. Len(uart'[c]) = accepted[c] - Unsent(e, i, i)
    <3>1. Unsent(e, i, i) = Len(d[i].next) - 1
      BY <1>1, <1>4 DEF Unsent
    <3>2. accepted[c] - Len(d[i].next) + 1 = accepted[c] - (Len(d[i].next) - 1)
      BY <1>2, <1>9
    <3>3. Len(uart'[c]) = accepted[c] - Len(d[i].next) + 1
      BY <1>10, <1>12
    <3> QED BY <3>1, <3>2, <3>3
  <2>6. ASSUME NEW j \in Pools, e[j].dirty
        PROVE  Len(uart'[e[j].client]) = accepted[e[j].client] - Unsent(e, i, j)
    <3>1. CASE j = i
      BY <1>4, <1>8, <2>5, <3>1
    <3>2. CASE j # i
      <4>1. d[j].dirty /\ d[j].client # c /\ d[j].client \in Clients
        BY <2>2, <2>3, <2>6, <3>2, SlotTypes DEF UartSideOK, SlotOK
      <4> QED BY <1>11, <2>1, <2>2, <2>4, <3>2, <4>1 DEF SentOK
    <3> QED BY <3>1, <3>2
  <2>7. ASSUME NEW b \in Clients, \A j \in Pools : e[j].dirty => e[j].client # b
        PROVE  Len(uart'[b]) = accepted[b]
    <3>1. b # c
      BY <1>1, <1>4, <1>8, <2>7
    <3> QED BY <1>11, <2>1, <2>2, <2>7, <3>1 DEF SentOK
  <2> QED BY <2>1, <2>2, <2>6, <2>7 DEF SentOK
<1>17. UartInOrder'
  <2> SUFFICES ASSUME NEW b \in Clients, NEW k \in 1 .. Len(uart'[b])
               PROVE  uart'[b][k].n = k
    BY DEF UartInOrder
  <2>1. CASE b # c
    BY <1>11, <2>1 DEF UartInOrder
  <2>2. CASE b = c /\ k \in 1 .. Len(uart[c])
    BY <1>7, <1>12, <2>2 DEF UartInOrder
  <2>3. CASE b = c /\ k = Len(uart[c]) + 1
    <3>1. uart'[b][k] = pdc
      BY <1>12, <2>3
    <3>2. pdc.n = Len(uart[c]) + 1
      BY <1>8, <1>10
    <3> QED BY <2>3, <3>1, <3>2
  <2> QED BY <1>9, <1>12, <2>1, <2>2, <2>3
<1> QED BY <1>3, <1>6, <1>13, <1>14, <1>15, <1>16, <1>17 DEF UartSideOK
-----------------------------------------------------------------------------
(***************************************************************************)
(* The replies.                                                            *)
(***************************************************************************)

\* Replacing the first buffer of a chain.
LEMMA HeadReplaced ==
    ASSUME NEW S, NEW q \in Seq(S), q # <<>>, NEW e \in S
    PROVE  /\ <<e>> \o Tail(q) \in Seq(S) /\ <<e>> \o Tail(q) # <<>>
           /\ Len(<<e>> \o Tail(q)) = Len(q) /\ Len(q) \in Nat \ {0}
           /\ (<<e>> \o Tail(q))[1] = e
           /\ \A j \in 2 .. Len(q) : (<<e>> \o Tail(q))[j] = q[j]
           /\ Tail(<<e>> \o Tail(q)) = Tail(q) /\ Head(<<e>> \o Tail(q)) = e
<1> DEFINE t == Tail(q)
           r == <<e>> \o t
<1>1. /\ t \in Seq(S) /\ Len(q) \in Nat \ {0} /\ Len(t) = Len(q) - 1
      /\ \A j \in 1 .. Len(q) - 1 : t[j] = q[j + 1]
  BY TailOf
<1>2. <<e>> \in Seq(S) /\ Len(<<e>>) = 1 /\ <<e>>[1] = e
  OBVIOUS
<1> HIDE DEF t
<1>3. /\ r \in Seq(S) /\ Len(r) = 1 + Len(t)
      /\ \A j \in 1 .. 1 + Len(t) : r[j] = IF j <= 1 THEN <<e>>[j] ELSE t[j - 1]
  BY <1>1, <1>2, ConcatProperties
<1>4. Len(r) = Len(q) /\ r[1] = e
  BY <1>1, <1>2, <1>3
<1>5. ASSUME NEW j \in 2 .. Len(q)
      PROVE  r[j] = q[j]
  <2>1. j \in 1 .. 1 + Len(t) /\ ~(j <= 1) /\ j - 1 \in 1 .. Len(q) - 1 /\ (j - 1) + 1 = j
    BY <1>1
  <2>2. r[j] = t[j - 1]
    BY <1>3, <2>1
  <2> QED BY <1>1, <2>1, <2>2
<1>6. r # <<>>
  BY <1>1, <1>3, <1>4, EmptySeq
<1>7. Head(r) = e
  BY <1>3, <1>4, <1>6, TailOf
<1>8. Tail(r) = t
  <2>1. /\ Tail(r) \in Seq(S) /\ Len(Tail(r)) = Len(r) - 1
        /\ \A j \in 1 .. Len(r) - 1 : Tail(r)[j] = r[j + 1]
    BY <1>3, <1>6, TailOf
  <2>2. ASSUME NEW j \in 1 .. Len(t)
        PROVE  Tail(r)[j] = t[j]
    <3>1. j \in 1 .. Len(r) - 1 /\ j + 1 \in 2 .. Len(q) /\ j \in 1 .. Len(q) - 1
      BY <1>1, <1>4
    <3> QED BY <1>1, <1>5, <2>1, <3>1
  <2>3. Len(Tail(r)) = Len(t)
    BY <1>1, <1>4, <2>1
  <2> QED BY <1>1, <2>1, <2>2, <2>3, SeqEqual
<1> QED BY <1>1, <1>3, <1>4, <1>5, <1>6, <1>7, <1>8 DEF t

\* What RepliesInOrder says of the bytes w written on one connection.
Ordered(w) == \A i \in 1 .. Len(w) : w[i] = ((i - 1) \div ACK_FRAME_LEN) + 1

\* The whole part of a quotient.
LEMMA WholePart ==
    ASSUME NEW m \in Nat \ {0}, NEW a \in Nat, NEW z \in 0 .. m - 1
    PROVE  (a * m + z) \div m = a
OBVIOUS

\* More bytes of reply r are given to TCP, of which n were left.
LEMMA MoreWritten ==
    ASSUME NEW w \in Seq(1 .. MaxReplies), Ordered(w), NEW r \in 1 .. MaxReplies,
           NEW n \in 1 .. ACK_FRAME_LEN, Len(w) = r * ACK_FRAME_LEN - n, NEW k \in 1 .. n,
           NEW x, x = w \o [i \in 1 .. k |-> r]
    PROVE  x \in Seq(1 .. MaxReplies) /\ Len(x) = Len(w) + k /\ Ordered(x)
<1> DEFINE L == ACK_FRAME_LEN
           b == [i \in 1 .. k |-> r]
<1>1. L \in Nat \ {0} /\ r \in Nat /\ n \in Nat /\ k \in Nat /\ Len(w) \in Nat
  BY PoolAssumption, LenProperties
<1>2. b \in Seq(1 .. MaxReplies) /\ Len(b) = k /\ \A i \in 1 .. k : b[i] = r
  BY <1>1
<1> HIDE DEF b
<1>3. /\ x \in Seq(1 .. MaxReplies) /\ Len(x) = Len(w) + k
      /\ \A i \in 1 .. Len(w) + k : x[i] = IF i <= Len(w) THEN w[i] ELSE b[i - Len(w)]
  <2>1. x = w \o b
    BY DEF b
  <2>2. /\ w \o b \in Seq(1 .. MaxReplies) /\ Len(w \o b) = Len(w) + Len(b)
        /\ \A i \in 1 .. Len(w) + Len(b) :
              (w \o b)[i] = IF i <= Len(w) THEN w[i] ELSE b[i - Len(w)]
    BY <1>2, ConcatProperties
  <2> QED BY <1>2, <2>1, <2>2
<1>4. ASSUME NEW i \in 1 .. Len(x)
      PROVE  x[i] = ((i - 1) \div L) + 1
  <2>1. i \in 1 .. Len(w) + k
    BY <1>3
  <2>2. CASE i <= Len(w)
    <3>1. i \in 1 .. Len(w) /\ x[i] = w[i]
      BY <1>1, <1>3, <2>1, <2>2
    <3> QED BY <3>1 DEF Ordered
  <2>3. CASE ~(i <= Len(w))
    <3>1. x[i] = r
      <4>1. i - Len(w) \in 1 .. k
        BY <1>1, <2>1, <2>3
      <4> QED BY <1>2, <1>3, <2>1, <2>3, <4>1
    <3> DEFINE y == i - 1 - (r - 1) * L
    <3>2. (r - 1) * L = r * L - L /\ r * L \in Int /\ (r - 1) * L \in Int
      BY <1>1
    <3>3. i \in Int /\ i >= Len(w) + 1 /\ i <= Len(w) + k /\ k <= n /\ n <= L
      BY <1>1, <2>1, <2>3
    <3>4. y \in 0 .. L - 1
      <4>1. Len(w) + n = r * L
        BY <1>1, <3>2
      <4> QED BY <1>1, <3>2, <3>3, <4>1
    <3>5. i - 1 = (r - 1) * L + y
      BY <3>2, <3>3
    <3> HIDE DEF y
    <3>6. L \in Nat \ {0} /\ r - 1 \in Nat
      BY <1>1
    <3>7. ((r - 1) * L + y) \div L = r - 1
      BY <3>4, <3>6, WholePart
    <3>8. (r - 1) + 1 = r
      BY <1>1
    <3> QED BY <3>1, <3>5, <3>7, <3>8
  <2> QED BY <2>2, <2>3
<1> QED BY <1>3, <1>4 DEF Ordered

\* send_data_to_client on a chain that starts with something left to send.
LEMMA SendStep ==
    ASSUME TypeOK, NEW p \in Pcbs, NEW chain \in Seq(Buffers), chain # <<>>,
           NEW n \in 0 .. MaxReplies, NEW u \in 0 .. ACK_FRAME_LEN,
           ChainOK(chain, u, written[p], n), Ordered(written[p]), chain[1].left > 0,
           send_data_to_client(p, chain, u)
    PROVE  /\ callback_arg' \in [Pcbs -> Seq(Buffers)]
           /\ unacked' \in [Pcbs -> 0 .. ACK_FRAME_LEN]
           /\ written' \in [Pcbs -> Seq(1 .. MaxReplies)]
           /\ Dangles(p)' \/ ChainOK(callback_arg'[p], unacked'[p], written'[p], n)
           /\ Ordered(written'[p])
           /\ \A q \in Pcbs : q # p => /\ callback_arg'[q] = callback_arg[q]
                                       /\ unacked'[q] = unacked[q]
                                       /\ written'[q] = written[q]
<1> DEFINE first == chain[1]
           w == written[p]
           L == ACK_FRAME_LEN
<1>1. /\ L \in Nat \ {0} /\ MaxReplies \in Nat
      /\ callback_arg \in [Pcbs -> Seq(Buffers)] /\ unacked \in [Pcbs -> 0 .. L]
      /\ written \in [Pcbs -> Seq(1 .. MaxReplies)]
      /\ w \in Seq(1 .. MaxReplies) /\ Len(w) \in Nat
  BY PoolAssumption, LenProperties DEF TypeOK
<1>2. Head(chain) = first /\ first \in Buffers /\ Len(chain) \in Nat \ {0}
  BY TailOf
<1>3. /\ first.reply \in 1 .. MaxReplies /\ first.left \in 1 .. L /\ first.acked \in 0 .. L
      /\ first.left + first.acked + u = L /\ first.reply = n - Len(chain) + 1
      /\ Len(chain) <= n /\ Len(w) = first.reply * L - first.left
  <2>1. first.reply \in 0 .. MaxReplies /\ first.left \in 0 .. L /\ first.acked \in 0 .. L
    BY <1>2 DEF Buffers
  <2>2. 1 \in 1 .. Len(chain)
    BY <1>2
  <2>3. /\ first.left + first.acked + u = L /\ first.reply = n - Len(chain) + 1
        /\ Len(chain) <= n /\ Len(w) = first.reply * L - first.left
    BY <2>2 DEF ChainOK
  <2> HIDE DEF first
  <2>4. first.reply \in 1 .. MaxReplies
    BY <1>1, <1>2, <2>1, <2>3
  <2>5. first.left > 0
    BY DEF first
  <2>6. first.left \in 1 .. L
    BY <1>1, <2>1, <2>5
  <2> QED BY <2>1, <2>3, <2>4, <2>6
<1>10. /\ L \in Nat /\ u \in 0 .. L /\ first.left \in 1 .. L /\ first.acked \in 0 .. L
       /\ first.left + first.acked + u = L
  <2>1. L \in Nat
    BY <1>1
  <2> QED BY <1>3, <2>1, Zenon
<1>4. CASE /\ callback_arg' = [callback_arg EXCEPT ![p] = <<Freed>>]
           /\ unacked' = [unacked EXCEPT ![p] = u]
           /\ UNCHANGED written
  <2>1. <<Freed>> \in Seq(Buffers)
    BY <1>1 DEF Freed, Buffers
  <2> QED BY <1>1, <1>4, <2>1 DEF Dangles
<1>5. ASSUME NEW k \in Writable(Head(chain).left, u),
             callback_arg' = [callback_arg EXCEPT ![p] =
                    <<[Head(chain) EXCEPT !.left = @ - k]>> \o Tail(chain)],
             unacked' = [unacked EXCEPT ![p] = u + k],
             written' = [written EXCEPT ![p] = @ \o [i \in 1 .. k |-> Head(chain).reply]]
      PROVE  /\ callback_arg' \in [Pcbs -> Seq(Buffers)]
             /\ unacked' \in [Pcbs -> 0 .. L]
             /\ written' \in [Pcbs -> Seq(1 .. MaxReplies)]
             /\ ChainOK(callback_arg'[p], unacked'[p], written'[p], n)
             /\ Ordered(written'[p])
             /\ \A q \in Pcbs : q # p => /\ callback_arg'[q] = callback_arg[q]
                                         /\ unacked'[q] = unacked[q]
                                         /\ written'[q] = written[q]
  <2> DEFINE g == [first EXCEPT !.left = @ - k]
             x == w \o [i \in 1 .. k |-> first.reply]
             r == <<g>> \o Tail(chain)
  <2>1. k \in 1 .. first.left
    <3>1. first.left =< TCP_SND_BUF - u /\ TCP_SND_BUF \in Nat
      BY <1>10, PoolAssumption
    <3>2. k \in Taken(first.left)
      BY <1>2, <1>5, <1>10, <3>1 DEF Writable
    <3> QED BY <1>10, <3>2 DEF Taken
  <2>2. /\ g \in Buffers /\ g.reply = first.reply /\ g.acked = first.acked
        /\ g.left = first.left - k
    <3> HIDE DEF first
    <3>1. first.left - k \in 0 .. L
      <4>1. /\ first.left \in Int /\ k \in Int /\ L \in Int
            /\ 1 <= k /\ k <= first.left /\ first.left <= L
        BY <1>1, <1>3, <2>1
      <4> QED BY <4>1
    <3>2. first \in [reply : 0 .. MaxReplies, left : 0 .. L, acked : 0 .. L]
      BY <1>2 DEF Buffers
    <3>3. g = [first EXCEPT !.left = first.left - k]
      OBVIOUS
    <3> HIDE DEF g
    <3> QED BY <3>1, <3>2, <3>3 DEF Buffers
  <2>3. x \in Seq(1 .. MaxReplies) /\ Len(x) = Len(w) + k /\ Ordered(x)
    BY <1>1, <1>3, <2>1, MoreWritten
  <2>4. callback_arg'[p] = r /\ unacked'[p] = u + k /\ written'[p] = x
    BY <1>1, <1>2, <1>5
  <2> HIDE DEF g, x, first
  <2>5. /\ r \in Seq(Buffers) /\ r # <<>> /\ Len(r) = Len(chain) /\ r[1] = g
        /\ \A j \in 2 .. Len(chain) : r[j] = chain[j]
    BY <2>2, HeadReplaced
  <2>6. u + k \in 0 .. L
    <3>1. /\ first.left \in Int /\ first.acked \in Int /\ u \in Int /\ k \in Int /\ L \in Int
          /\ 0 <= u /\ 1 <= k /\ k <= first.left /\ 0 <= first.acked
      BY <1>10, <2>1
    <3> QED BY <1>10, <3>1
  <2>7. /\ callback_arg' = [callback_arg EXCEPT ![p] = r]
        /\ unacked' = [unacked EXCEPT ![p] = u + k]
        /\ written' = [written EXCEPT ![p] = x]
    BY <1>2, <1>5 DEF g, x, first
  <2> HIDE DEF r
  <2>8. ChainOK(r, u + k, x, n)
    <3>1. g.left + g.acked + (u + k) = L
      <4>1. first.left \in Int /\ first.acked \in Int /\ k \in Int /\ u \in Int
        BY <1>10, <2>1
      <4>2. (first.left - k) + first.acked + (u + k) = first.left + first.acked + u
        BY <4>1
      <4> QED BY <1>3, <2>2, <4>2
    <3>2. Len(x) = g.reply * L - g.left
      <4>1. first.reply * L \in Int /\ first.left \in Int /\ k \in Int
        BY <1>1, <1>3, <2>1
      <4>2. ASSUME NEW a \in Int, NEW b \in Int, NEW c \in Int
            PROVE  (a - b) + c = a - (b - c)
        OBVIOUS
      <4>3. (first.reply * L - first.left) + k = first.reply * L - (first.left - k)
        BY <4>1, <4>2
      <4> QED BY <1>3, <2>2, <2>3, <4>3
    <3>3. ASSUME NEW j \in 1 .. Len(r)
          PROVE  r[j].reply = n - Len(r) + j
      <4>1. CASE j = 1
        BY <1>3, <2>2, <2>5, <4>1
      <4>2. CASE j # 1
        <5>1. j \in 2 .. Len(chain) /\ j \in 1 .. Len(chain)
          BY <1>2, <2>5, <4>2
        <5> QED BY <2>5, <5>1 DEF ChainOK
      <4> QED BY <4>1, <4>2
    <3>4. \A j \in 2 .. Len(r) : r[j].left = L /\ r[j].acked = 0
      BY <2>5 DEF ChainOK
    <3> QED BY <1>3, <2>5, <3>1, <3>2, <3>3, <3>4 DEF ChainOK
  <2> QED BY <1>1, <2>3, <2>4, <2>5, <2>6, <2>7, <2>8 DEF r
<1> QED BY <1>4, <1>5 DEF send_data_to_client

\* A step that changes the chain of one connection only.
LEMMA OneConnection ==
    ASSUME UInv, NEW p \in Pcbs, UNCHANGED <<remote, id>>,
           \A q \in Pcbs : q # p => /\ callback_arg'[q] = callback_arg[q]
                                    /\ unacked'[q] = unacked[q]
                                    /\ written'[q] = written[q]
                                    /\ replies'[q] = replies[q],
           Dangles(p)' \/ ChainOK(callback_arg'[p], unacked'[p], written'[p], replies'[p]),
           Ordered(written'[p])
    PROVE  (\A q \in Pcbs : ConnectionOK(q)') /\ RepliesInOrder'
<1> USE DEF UInv
<1>1. ASSUME NEW q \in Pcbs, q # p
      PROVE  ConnectionOK(q)' /\ Ordered(written'[q])
  <2>1. ConnectionOK(q) /\ Ordered(written[q])
    BY DEF RepliesInOrder, Ordered
  <2> QED BY <1>1, <2>1 DEF ConnectionOK, Dangles
<1>2. ConnectionOK(p)'
  BY DEF ConnectionOK
<1> QED BY <1>1, <1>2 DEF RepliesInOrder, Ordered

\* A reply is queued, or the pointer to a freed chain is used.
LEMMA RecvUpgradeStep ==
    ASSUME UInv, NEW p \in Pcbs, RecvUpgrade(p)
    PROVE  /\ TypeOK'
           /\ \A q \in Pcbs : ConnectionOK(q)'
           /\ RepliesInOrder'
<1> USE DEF UInv
<1> DEFINE n == replies[p]
           L == ACK_FRAME_LEN
           node == [reply |-> n + 1, left |-> L, acked |-> 0]
           w == written[p]
<1>1. /\ L \in Nat \ {0} /\ MaxReplies \in Nat /\ n \in 0 .. MaxReplies /\ n + 1 \in 0 .. MaxReplies
      /\ n \in Nat
      /\ callback_arg \in [Pcbs -> Seq(Buffers)] /\ callback_arg[p] \in Seq(Buffers)
      /\ unacked[p] \in 0 .. L /\ w \in Seq(1 .. MaxReplies) /\ Len(w) \in Nat
      /\ replies \in [Pcbs -> 0 .. MaxReplies]
  <2>1. /\ L \in Nat \ {0} /\ MaxReplies \in Nat /\ n \in 0 .. MaxReplies /\ n < MaxReplies
        /\ callback_arg \in [Pcbs -> Seq(Buffers)] /\ callback_arg[p] \in Seq(Buffers)
        /\ unacked[p] \in 0 .. L /\ w \in Seq(1 .. MaxReplies)
        /\ replies \in [Pcbs -> 0 .. MaxReplies]
    BY CountTypes, PoolAssumption DEF RecvUpgrade, TypeOK
  <2> HIDE DEF n, w
  <2>2. n + 1 \in 0 .. MaxReplies /\ n \in Nat
    BY <2>1
  <2> QED BY <2>1, <2>2, LenProperties
<1>2. node \in Buffers /\ node.reply = n + 1 /\ node.left = L /\ node.acked = 0
  BY <1>1 DEF Buffers
<1> HIDE DEF node
<1>3. remote[p] # NULL /\ UNCHANGED uartSide
  BY DEF RecvUpgrade
<1>4. Ordered(w)
  BY DEF RepliesInOrder, Ordered
<1>5. CASE Dangles(p) /\ UseDangling("callback_arg") /\ UNCHANGED connection
  BY <1>3, <1>5 DEF connection, uartSide, TypeOK, UseDangling, ConnectionOK, Dangles,
                    RepliesInOrder
<1>6. ASSUME ~Dangles(p), replies' = [replies EXCEPT ![p] = @ + 1],
             IF StillSending(p)
             THEN /\ callback_arg' = [callback_arg EXCEPT ![p] = Append(@, node)]
                  /\ UNCHANGED <<unacked, written>>
             ELSE send_data_to_client(p, <<node>>, unacked[p]),
             UNCHANGED <<remote, id, conns, dangling>>
      PROVE  TypeOK' /\ (\A q \in Pcbs : ConnectionOK(q)') /\ RepliesInOrder'
  <2>1. /\ replies' \in [Pcbs -> 0 .. MaxReplies] /\ replies'[p] = n + 1
        /\ \A q \in Pcbs : q # p => replies'[q] = replies[q]
    BY <1>1, <1>6
  <2>2. ChainOK(callback_arg[p], unacked[p], w, n)
    BY <1>3, <1>6 DEF ConnectionOK
  <2>3. CASE StillSending(p)
    <3> DEFINE chain == callback_arg[p]
               longer == Append(chain, node)
    <3>1. chain # <<>>
      BY <2>3 DEF StillSending
    <3>2. /\ longer \in Seq(Buffers) /\ longer # <<>> /\ Len(chain) \in Nat
          /\ Len(longer) = Len(chain) + 1 /\ longer[Len(chain) + 1] = node
          /\ \A j \in 1 .. Len(chain) : longer[j] = chain[j]
      <4>1. chain \in Seq(Buffers) /\ node \in Buffers
        BY <1>1, <1>2
      <4> HIDE DEF chain, node, UInv
      <4> QED BY <4>1, AppendTo
    <3>3. /\ callback_arg' \in [Pcbs -> Seq(Buffers)] /\ callback_arg'[p] = longer
          /\ \A q \in Pcbs : q # p => callback_arg'[q] = callback_arg[q]
          /\ UNCHANGED <<unacked, written>>
      BY <1>1, <1>6, <2>3, <3>2
    <3> HIDE DEF longer, chain
    <3>4. longer[1] = chain[1]
      <4>1. chain \in Seq(Buffers)
        BY <1>1 DEF chain
      <4>2. 1 \in 1 .. Len(chain)
        BY <3>1, <4>1, TailOf
      <4> QED BY <3>2, <4>2
    <3>5. ChainOK(longer, unacked[p], w, n + 1)
      <4>1. ChainOK(chain, unacked[p], w, n)
        BY <2>2 DEF chain
      <4>2. Len(longer) <= n + 1
        BY <1>1, <3>2, <4>1 DEF ChainOK
      <4>3. ASSUME NEW j \in 1 .. Len(longer)
            PROVE  longer[j].reply = (n + 1) - Len(longer) + j
        <5>1. CASE j \in 1 .. Len(chain)
          <6>1. longer[j].reply = n - Len(chain) + j
            BY <3>2, <4>1, <5>1 DEF ChainOK
          <6>2. j \in Int /\ (n + 1) - (Len(chain) + 1) + j = n - Len(chain) + j
            BY <1>1, <3>2
          <6> QED BY <3>2, <6>1, <6>2
        <5>2. CASE j = Len(chain) + 1
          <6>1. (n + 1) - (Len(chain) + 1) + (Len(chain) + 1) = n + 1
            BY <1>1, <3>2
          <6> QED BY <1>2, <3>2, <5>2, <6>1
        <5> QED BY <3>2, <5>1, <5>2
      <4>4. ASSUME NEW j \in 2 .. Len(longer)
            PROVE  longer[j].left = L /\ longer[j].acked = 0
        <5>1. CASE j \in 2 .. Len(chain)
          BY <3>2, <4>1, <5>1 DEF ChainOK
        <5>2. CASE j = Len(chain) + 1
          BY <1>2, <3>2, <5>2
        <5> QED BY <3>2, <5>1, <5>2
      <4>5. /\ chain[1].left + chain[1].acked + unacked[p] = L
            /\ Len(w) = chain[1].reply * L - chain[1].left
        BY <3>1, <4>1 DEF ChainOK
      <4> QED BY <3>2, <3>4, <4>2, <4>3, <4>4, <4>5 DEF ChainOK
    <3>6. ChainOK(callback_arg'[p], unacked'[p], written'[p], replies'[p])
      BY <2>1, <3>3, <3>5
    <3>7. (\A q \in Pcbs : ConnectionOK(q)') /\ RepliesInOrder'
      BY <1>4, <1>6, <2>1, <3>3, <3>6, OneConnection
    <3> QED BY <1>3, <1>6, <2>1, <3>3, <3>7 DEF TypeOK, uartSide
  <2>4. CASE ~StillSending(p)
    <3>1. unacked[p] = 0 /\ Len(w) = n * L
      BY <2>2, <2>4 DEF ChainOK, StillSending
    <3>2. /\ <<node>> \in Seq(Buffers) /\ <<node>> # <<>> /\ Len(<<node>>) = 1
          /\ <<node>>[1] = node
      BY <1>2
    <3>3. ChainOK(<<node>>, 0, w, n + 1)
      <4>1. /\ \A j \in 1 .. 1 : <<node>>[j].reply = (n + 1) - 1 + j
            /\ \A j \in 2 .. 1 : <<node>>[j].left = L /\ <<node>>[j].acked = 0
        BY <1>1, <1>2, <3>2
      <4>2. /\ <<node>>[1].left + <<node>>[1].acked + 0 = L
            /\ Len(w) = <<node>>[1].reply * L - <<node>>[1].left
        <5>1. ASSUME NEW a \in Int, NEW b \in Int
              PROVE  (a + 1) * b - b = a * b /\ b + 0 + 0 = b
          OBVIOUS
        <5>2. n \in Int /\ L \in Int
          BY <1>1
        <5>3. (n + 1) * L - L = n * L /\ L + 0 + 0 = L
          BY <5>1, <5>2, Zenon
        <5> QED BY <1>2, <3>1, <3>2, <5>3
      <4>3. 1 <= n + 1
        BY <1>1
      <4> QED BY <3>2, <4>1, <4>2, <4>3 DEF ChainOK
    <3>4. send_data_to_client(p, <<node>>, 0) /\ <<node>>[1].left > 0 /\ 0 \in 0 .. L
      BY <1>1, <1>2, <1>6, <2>4, <3>1, <3>2
    <3>5. /\ callback_arg' \in [Pcbs -> Seq(Buffers)]
          /\ unacked' \in [Pcbs -> 0 .. ACK_FRAME_LEN]
          /\ written' \in [Pcbs -> Seq(1 .. MaxReplies)]
          /\ Dangles(p)' \/ ChainOK(callback_arg'[p], unacked'[p], written'[p], n + 1)
          /\ Ordered(written'[p])
          /\ \A q \in Pcbs : q # p => /\ callback_arg'[q] = callback_arg[q]
                                      /\ unacked'[q] = unacked[q]
                                      /\ written'[q] = written[q]
      BY <1>1, <1>4, <3>2, <3>3, <3>4, SendStep
    <3>6. (\A q \in Pcbs : ConnectionOK(q)') /\ RepliesInOrder'
      BY <1>6, <2>1, <3>5, OneConnection
    <3> QED BY <1>3, <1>6, <2>1, <3>5, <3>6 DEF TypeOK, uartSide
  <2> QED BY <2>3, <2>4
<1> QED BY <1>5, <1>6 DEF RecvUpgrade, send_data, node

\* The first buffer of a chain changes, for the same reply.
LEMMA SameReply ==
    ASSUME NEW chain \in Seq(Buffers), chain # <<>>, NEW n \in Nat, NEW u, NEW w,
           ChainOK(chain, u, w, n), NEW g \in Buffers, g.reply = chain[1].reply,
           NEW v, g.left + g.acked + v = ACK_FRAME_LEN,
           NEW x, Len(x) = g.reply * ACK_FRAME_LEN - g.left
    PROVE  /\ <<g>> \o Tail(chain) \in Seq(Buffers) /\ <<g>> \o Tail(chain) # <<>>
           /\ (<<g>> \o Tail(chain))[1] = g
           /\ ChainOK(<<g>> \o Tail(chain), v, x, n)
<1> DEFINE r == <<g>> \o Tail(chain)
<1>1. /\ r \in Seq(Buffers) /\ r # <<>> /\ Len(r) = Len(chain) /\ r[1] = g
      /\ \A j \in 2 .. Len(chain) : r[j] = chain[j]
      /\ Len(chain) \in Nat \ {0}
  BY HeadReplaced
<1> HIDE DEF r
<1>2. ASSUME NEW j \in 1 .. Len(r)
      PROVE  r[j].reply = n - Len(r) + j
  <2>1. CASE j = 1
    BY <1>1, <2>1 DEF ChainOK
  <2>2. CASE j # 1
    <3>1. j \in 2 .. Len(chain) /\ j \in 1 .. Len(chain)
      BY <1>1, <2>2
    <3> QED BY <1>1, <3>1 DEF ChainOK
  <2> QED BY <2>1, <2>2
<1>3. \A j \in 2 .. Len(r) : r[j].left = ACK_FRAME_LEN /\ r[j].acked = 0
  BY <1>1 DEF ChainOK
<1>4. Len(r) <= n
  BY <1>1 DEF ChainOK
<1> QED BY <1>1, <1>2, <1>3, <1>4 DEF ChainOK, r

\* The first reply of a chain leaves it.
LEMMA FirstLeaves ==
    ASSUME NEW chain \in Seq(Buffers), chain # <<>>, NEW n \in Nat, NEW u, NEW w,
           ChainOK(chain, u, w, n), chain[1].left = 0
    PROVE  /\ Tail(chain) \in Seq(Buffers)
           /\ ChainOK(Tail(chain), 0, w, n)
           /\ Tail(chain) # <<>> => Tail(chain)[1].left > 0
<1> DEFINE rest == Tail(chain)
           L == ACK_FRAME_LEN
<1>1. /\ rest \in Seq(Buffers) /\ Len(chain) \in Nat \ {0} /\ Len(rest) = Len(chain) - 1
      /\ \A j \in 1 .. Len(chain) - 1 : rest[j] = chain[j + 1]
      /\ L \in Nat \ {0}
  BY TailOf, PoolAssumption
<1>2. chain[1] \in Buffers /\ chain[1].reply \in Nat
  <2>1. chain[1] \in Buffers
    BY TailOf
  <2>2. MaxReplies \in Nat
    BY CountTypes, PoolAssumption
  <2> QED BY <2>1, <2>2 DEF Buffers
<1>3. /\ Len(chain) <= n /\ chain[1].reply = n - Len(chain) + 1
      /\ Len(w) = chain[1].reply * L - 0
      /\ \A j \in 1 .. Len(chain) : chain[j].reply = n - Len(chain) + j
      /\ \A j \in 2 .. Len(chain) : chain[j].left = L /\ chain[j].acked = 0
  <2>1. 1 \in 1 .. Len(chain)
    BY <1>1
  <2> QED BY <2>1 DEF ChainOK
<1>4. Len(w) = chain[1].reply * L
  <2>1. chain[1].reply * L \in Int
    BY <1>1, <1>2
  <2> QED BY <1>3, <2>1
<1> HIDE DEF rest
<1>5. CASE rest = <<>>
  <2>1. Len(rest) = 0
    BY <1>1, <1>5, EmptySeq
  <2>2. chain[1].reply = n
    <3>1. Len(chain) = 1
      BY <1>1, <2>1
    <3>2. n - 1 + 1 = n
      OBVIOUS
    <3> QED BY <1>3, <3>1, <3>2
  <2> QED BY <1>1, <1>4, <1>5, <2>1, <2>2 DEF ChainOK, rest
<1>6. CASE rest # <<>>
  <2>1. Len(rest) \in Nat \ {0}
    BY <1>1, <1>6, EmptySeq
  <2>2. ASSUME NEW j \in 1 .. Len(rest)
        PROVE  /\ rest[j].reply = n - Len(rest) + j
               /\ rest[j].left = L /\ rest[j].acked = 0
    <3>1. /\ j \in 1 .. Len(chain) - 1 /\ j + 1 \in 1 .. Len(chain)
          /\ j + 1 \in 2 .. Len(chain) /\ j \in Int
      BY <1>1, <2>1
    <3>2. n - Len(chain) + (j + 1) = n - (Len(chain) - 1) + j
      BY <1>1, <3>1
    <3> QED BY <1>1, <1>3, <3>1, <3>2
  <2>3. rest[1].reply = chain[1].reply + 1 /\ rest[1].left = L /\ rest[1].acked = 0
    <3>1. 1 \in 1 .. Len(rest)
      BY <2>1
    <3>2. n - (Len(chain) - 1) + 1 = (n - Len(chain) + 1) + 1
      BY <1>1
    <3> QED BY <1>1, <1>3, <2>2, <3>1, <3>2
  <2>4. Len(w) = rest[1].reply * L - rest[1].left
    <3>1. ASSUME NEW a \in Int, NEW b \in Int
          PROVE  (a + 1) * b - b = a * b
      OBVIOUS
    <3>2. chain[1].reply \in Int /\ L \in Int
      BY <1>1, <1>2
    <3>3. (chain[1].reply + 1) * L - L = chain[1].reply * L
      BY <3>1, <3>2, Zenon
    <3> QED BY <1>4, <2>3, <3>3
  <2>5. Len(rest) <= n
    BY <1>1, <1>3
  <2>6. rest[1].left + rest[1].acked + 0 = L
    BY <1>1, <2>3
  <2>7. \A j \in 2 .. Len(rest) : rest[j].left = L /\ rest[j].acked = 0
    BY <2>2
  <2>8. rest[1].left > 0
    BY <1>1, <2>3
  <2>9. ChainOK(rest, 0, w, n)
    BY <1>6, <2>2, <2>4, <2>5, <2>6, <2>7 DEF ChainOK
  <2> QED BY <1>1, <2>8, <2>9 DEF rest
<1> QED BY <1>5, <1>6

\* Bytes of a reply are acknowledged.
LEMMA SentStep ==
    ASSUME UInv, NEW p \in Pcbs, NEW k \in 1 .. ACK_FRAME_LEN, server_sent(p, k)
    PROVE  /\ TypeOK'
           /\ \A q \in Pcbs : ConnectionOK(q)'
           /\ RepliesInOrder'
<1> USE DEF UInv
<1> DEFINE n == replies[p]
           L == ACK_FRAME_LEN
           w == written[p]
           chain == callback_arg[p]
           first == [chain[1] EXCEPT !.acked = @ + k]
           rest == Tail(chain)
           u == unacked[p] - k
<1>1. /\ L \in Nat \ {0} /\ MaxReplies \in Nat /\ n \in 0 .. MaxReplies
      /\ callback_arg \in [Pcbs -> Seq(Buffers)] /\ chain \in Seq(Buffers)
      /\ unacked \in [Pcbs -> 0 .. L] /\ unacked[p] \in 0 .. L
      /\ written \in [Pcbs -> Seq(1 .. MaxReplies)] /\ w \in Seq(1 .. MaxReplies)
  BY CountTypes, PoolAssumption DEF TypeOK
<1>2. remote[p] # NULL /\ k \in 1 .. unacked[p] /\ UNCHANGED <<remote, id, replies, conns, uartSide>>
  BY DEF server_sent
<1>3. u \in 0 .. L - 1 /\ u \in 0 .. L /\ k \in Nat \ {0}
  <2>1. unacked[p] \in Int /\ L \in Int /\ 0 <= unacked[p] /\ unacked[p] <= L
        /\ k \in Int /\ 1 <= k /\ k <= unacked[p]
    BY <1>1, <1>2
  <2> QED BY <2>1
<1>4. Ordered(w)
  BY DEF RepliesInOrder, Ordered
<1>5. CASE /\ Dangles(p)
           /\ UseDangling("callback_arg")
           /\ unacked' = [unacked EXCEPT ![p] = u]
           /\ UNCHANGED <<callback_arg, written>>
  <2>1. Dangles(p)' /\ written'[p] = w /\ unacked' \in [Pcbs -> 0 .. L]
    BY <1>1, <1>3, <1>5 DEF Dangles
  <2>2. (\A q \in Pcbs : ConnectionOK(q)') /\ RepliesInOrder'
    BY <1>1, <1>2, <1>4, <1>5, <2>1, OneConnection
  <2> QED BY <1>2, <1>5, <2>1, <2>2 DEF TypeOK, UseDangling, uartSide
<1>6. ASSUME ~Dangles(p), UNCHANGED dangling,
             \/ first.left > 0 /\ send_data_to_client(p, <<first>> \o rest, u)
             \/ /\ first.left = 0 /\ first.acked < L
                /\ callback_arg' = [callback_arg EXCEPT ![p] = <<first>> \o rest]
                /\ unacked' = [unacked EXCEPT ![p] = u]
                /\ UNCHANGED written
             \/ first.left = 0 /\ first.acked >= L /\ SendNext(p, rest, u)
      PROVE  TypeOK' /\ (\A q \in Pcbs : ConnectionOK(q)') /\ RepliesInOrder'
  <2>1. ChainOK(chain, unacked[p], w, n)
    BY <1>2, <1>6 DEF ConnectionOK
  <2>2. chain # <<>>
    <3>1. unacked[p] # 0
      BY <1>1, <1>2
    <3> QED BY <2>1, <3>1 DEF ChainOK
  <2>3. chain[1] \in Buffers
    BY <1>1, <2>2, TailOf
  <2>4. /\ chain[1].left \in 0 .. L /\ chain[1].acked \in 0 .. L
        /\ chain[1].left + chain[1].acked + unacked[p] = L
        /\ Len(w) = chain[1].reply * L - chain[1].left
    BY <2>1, <2>2, <2>3 DEF ChainOK, Buffers
  <2>5. /\ first \in Buffers /\ first.reply = chain[1].reply
        /\ first.left = chain[1].left /\ first.acked = chain[1].acked + k
    <3> HIDE DEF chain
    <3>1. chain[1].acked + k \in 0 .. L
      <4>1. L \in Nat /\ unacked[p] \in 0 .. L
        BY <1>1
      <4>2. k \in 1 .. unacked[p]
        BY <1>2
      <4>3. chain[1].left \in 0 .. L /\ chain[1].acked \in 0 .. L
        BY <2>4
      <4>4. chain[1].left + chain[1].acked + unacked[p] = L
        BY <2>4
      <4> QED BY <4>1, <4>2, <4>3, <4>4
    <3>2. first = [chain[1] EXCEPT !.acked = chain[1].acked + k]
      OBVIOUS
    <3> HIDE DEF first
    <3> QED BY <2>3, <3>1, <3>2 DEF Buffers
  <2> HIDE DEF first, u
  <2>6. first.left + first.acked + u = L
    <3>1. chain[1].left \in Int /\ chain[1].acked \in Int /\ unacked[p] \in Int /\ k \in Int
      BY <1>1, <1>3, <2>4
    <3>2. u = unacked[p] - k
      BY DEF u
    <3>3. chain[1].left + chain[1].acked + unacked[p] = L
      BY <2>4
    <3>4. first.left = chain[1].left /\ first.acked = chain[1].acked + k
      BY <2>5
    <3> HIDE DEF chain
    <3> QED BY <3>1, <3>2, <3>3, <3>4
  <2>7. /\ <<first>> \o rest \in Seq(Buffers) /\ <<first>> \o rest # <<>>
        /\ (<<first>> \o rest)[1] = first
        /\ ChainOK(<<first>> \o rest, u, w, n)
    <3>1. n \in Nat /\ Len(w) = first.reply * L - first.left
      BY <1>1, <2>4, <2>5
    <3> QED BY <1>1, <2>1, <2>2, <2>5, <2>6, <3>1, SameReply
  <2>8. /\ callback_arg' \in [Pcbs -> Seq(Buffers)]
        /\ unacked' \in [Pcbs -> 0 .. ACK_FRAME_LEN]
        /\ written' \in [Pcbs -> Seq(1 .. MaxReplies)]
        /\ Dangles(p)' \/ ChainOK(callback_arg'[p], unacked'[p], written'[p], n)
        /\ Ordered(written'[p])
        /\ \A q \in Pcbs : q # p => /\ callback_arg'[q] = callback_arg[q]
                                    /\ unacked'[q] = unacked[q]
                                    /\ written'[q] = written[q]
    <3>1. CASE first.left > 0 /\ send_data_to_client(p, <<first>> \o rest, u)
      BY <1>1, <1>3, <1>4, <2>7, <3>1, SendStep
    <3>2. CASE /\ callback_arg' = [callback_arg EXCEPT ![p] = <<first>> \o rest]
               /\ unacked' = [unacked EXCEPT ![p] = u]
               /\ UNCHANGED written
      <4> DEFINE r == <<first>> \o rest
      <4> HIDE DEF r
      <4>1. /\ r \in Seq(Buffers) /\ ChainOK(r, u, w, n)
            /\ callback_arg' = [callback_arg EXCEPT ![p] = r]
        BY <2>7, <3>2 DEF r
      <4> QED BY <1>1, <1>3, <1>4, <3>2, <4>1
    <3>3. CASE first.left = 0 /\ first.acked >= L /\ SendNext(p, rest, u)
      <4>1. chain[1].left = 0 /\ n \in Nat
        BY <1>1, <2>5, <3>3
      <4>2. /\ rest \in Seq(Buffers) /\ ChainOK(rest, 0, w, n)
            /\ rest # <<>> => rest[1].left > 0
        BY <1>1, <2>1, <2>2, <4>1, FirstLeaves
      <4>3. u = 0
        <5>1. first.acked \in 0 .. L
          BY <2>5 DEF Buffers
        <5> QED BY <1>1, <1>3, <2>6, <3>3, <5>1
      <4>4. CASE rest # <<>> /\ send_data_to_client(p, rest, u)
        BY <1>1, <1>3, <1>4, <4>2, <4>3, <4>4, SendStep
      <4>5. CASE /\ rest = <<>>
                 /\ callback_arg' = [callback_arg EXCEPT ![p] = <<>>]
                 /\ unacked' = [unacked EXCEPT ![p] = u]
                 /\ UNCHANGED written
        <5>1. <<>> \in Seq(Buffers) /\ ChainOK(<<>>, 0, w, n)
          BY <4>2, <4>5
        <5> QED BY <1>1, <1>3, <1>4, <4>3, <4>5, <5>1
      <4> QED BY <3>3, <4>4, <4>5 DEF SendNext
    <3> QED BY <1>6, <3>1, <3>2, <3>3
  <2>9. (\A q \in Pcbs : ConnectionOK(q)') /\ RepliesInOrder'
    BY <1>2, <2>8, OneConnection
  <2> QED BY <1>2, <1>6, <2>8, <2>9 DEF TypeOK, uartSide
<1> QED BY <1>5, <1>6 DEF server_sent

\* A connection is made: its chain is empty and nothing is written.
LEMMA AcceptStep ==
    ASSUME UInv, NEW p \in Pcbs, NEW c \in Clients, server_accept(p, c)
    PROVE  /\ TypeOK'
           /\ \A q \in Pcbs : ConnectionOK(q)'
           /\ RepliesInOrder'
<1> USE DEF UInv
<1>1. /\ conns \in 0 .. MaxConns /\ conns < MaxConns /\ MaxConns \in Nat
      /\ MaxReplies \in Nat /\ ACK_FRAME_LEN \in Nat \ {0}
  BY CountTypes, PoolAssumption DEF server_accept, TypeOK
<1>2. conns + 1 \in 0 .. MaxConns /\ conns + 1 >= 1
  BY <1>1
<1>3. /\ remote' \in [Pcbs -> Clients \cup {NULL}]
      /\ id' \in [Pcbs -> 0 .. MaxConns]
      /\ callback_arg' \in [Pcbs -> Seq(Buffers)]
      /\ unacked' \in [Pcbs -> 0 .. ACK_FRAME_LEN]
      /\ written' \in [Pcbs -> Seq(1 .. MaxReplies)]
      /\ replies' \in [Pcbs -> 0 .. MaxReplies]
      /\ conns' \in 0 .. MaxConns
  <2>1. <<>> \in Seq(Buffers) /\ <<>> \in Seq(1 .. MaxReplies) /\ 0 \in 0 .. ACK_FRAME_LEN
        /\ 0 \in 0 .. MaxReplies
    BY <1>1
  <2> QED BY <1>2, <2>1 DEF server_accept, TypeOK
<1>4. /\ id'[p] >= 1 /\ callback_arg'[p] = <<>> /\ unacked'[p] = 0
      /\ written'[p] = <<>> /\ replies'[p] = 0
  BY <1>2 DEF server_accept, TypeOK
<1>5. \A q \in Pcbs : q # p => /\ remote'[q] = remote[q] /\ id'[q] = id[q]
                               /\ callback_arg'[q] = callback_arg[q]
                               /\ unacked'[q] = unacked[q] /\ written'[q] = written[q]
                               /\ replies'[q] = replies[q]
  BY DEF server_accept, TypeOK
<1>6. Len(<<>>) = 0 /\ 1 .. 0 = {} /\ 2 .. 0 = {} /\ 0 * ACK_FRAME_LEN = 0 /\ 0 <= 0
  BY <1>1
<1>7. ChainOK(<<>>, 0, <<>>, 0) /\ Ordered(<<>>)
  BY <1>6 DEF ChainOK, Ordered
<1>8. ConnectionOK(p)' /\ Ordered(written'[p])
  BY <1>4, <1>7 DEF ConnectionOK
<1>9. ASSUME NEW q \in Pcbs, q # p
      PROVE  ConnectionOK(q)' /\ Ordered(written'[q])
  <2>1. ConnectionOK(q) /\ Ordered(written[q])
    BY DEF RepliesInOrder, Ordered
  <2> QED BY <1>5, <1>9, <2>1 DEF ConnectionOK, Dangles
<1>10. \A q \in Pcbs : ConnectionOK(q)' /\ Ordered(written'[q])
  BY <1>8, <1>9
<1>11. TypeOK'
  BY <1>3 DEF server_accept, uartSide, TypeOK
<1> QED BY <1>10, <1>11 DEF RepliesInOrder, Ordered

\* A connection ends.
LEMMA DisconnectStep ==
    ASSUME UInv, NEW p \in Pcbs, Disconnect(p)
    PROVE  /\ TypeOK'
           /\ \A q \in Pcbs : ConnectionOK(q)'
           /\ RepliesInOrder'
<1> USE DEF UInv
<1>1. 0 \in 0 .. ACK_FRAME_LEN /\ <<>> \in Seq(Buffers)
  BY PoolAssumption
<1>2. TypeOK'
  BY <1>1 DEF Disconnect, TypeOK, UseDangling, uartSide
<1>3. ASSUME NEW q \in Pcbs
      PROVE  ConnectionOK(q)'
  <2>1. CASE q = p
    BY <2>1 DEF Disconnect, TypeOK, ConnectionOK
  <2>2. CASE q # p
    <3>1. ConnectionOK(q)
      OBVIOUS
    <3>2. /\ remote'[q] = remote[q] /\ id'[q] = id[q] /\ callback_arg'[q] = callback_arg[q]
          /\ unacked'[q] = unacked[q] /\ written'[q] = written[q] /\ replies'[q] = replies[q]
      BY <2>2 DEF Disconnect, TypeOK
    <3> QED BY <3>1, <3>2 DEF ConnectionOK, Dangles
  <2> QED BY <2>1, <2>2
<1>4. RepliesInOrder'
  BY DEF Disconnect, RepliesInOrder
<1> QED BY <1>2, <1>3, <1>4
-----------------------------------------------------------------------------
(***************************************************************************)
(* The theorems.                                                           *)
(***************************************************************************)

\* The steps of a connection leave the side of the UART alone, and the others
\* leave the connections alone.
LEMMA UInit == Init => UInv
<1> SUFFICES ASSUME Init PROVE UInv
  OBVIOUS
<1>1. <<>> \in Seq(Buffers) /\ <<>> \in Seq(Segments) /\ <<>> \in Seq(1 .. MaxReplies)
  OBVIOUS
<1>2. 0 \in 0 .. MaxConns /\ 0 \in 0 .. ACK_FRAME_LEN /\ 0 \in 0 .. MaxReplies /\ 0 \in 0 .. MaxSegs
  BY PoolAssumption
<1>3. TypeOK
  BY <1>1, <1>2 DEF Init, TypeOK
<1>4. Len(<<>>) = 0 /\ 1 .. 0 = {}
  OBVIOUS
<1>5. \A i \in Pools : SlotOK(data_from_eth[i], accepted)
  BY <1>4 DEF Init, SlotOK
<1>6. CurrentOK(data_from_eth, cur_pool, pdc)
  BY DEF Init, CurrentOK
<1>7. SentOK(data_from_eth, cur_pool, uart, accepted)
  BY <1>4 DEF Init, SentOK
<1>8. \A p \in Pcbs : ConnectionOK(p)
  BY DEF Init, ConnectionOK
<1>9. UartInOrder /\ RepliesInOrder
  BY <1>4 DEF Init, UartInOrder, RepliesInOrder
<1> QED BY <1>3, <1>5, <1>6, <1>7, <1>8, <1>9 DEF UInv, UartSideOK

LEMMA ServerSteps == UInv /\ [Next]_vars => UInv'
<1> SUFFICES ASSUME UInv, [Next]_vars PROVE UInv'
  OBVIOUS
<1> DEFINE Replying == /\ TypeOK'
                       /\ \A q \in Pcbs : ConnectionOK(q)'
                       /\ RepliesInOrder'
<1>1. ASSUME UNCHANGED uartSide, Replying
      PROVE  UInv'
  BY <1>1 DEF UInv, uartSide, UartInOrder
<1>2. ASSUME NEW p \in Pcbs, NEW c \in Clients, server_accept(p, c)
      PROVE  UInv'
  <2>1. UNCHANGED uartSide
    BY <1>2 DEF server_accept
  <2> QED BY <1>1, <1>2, <2>1, AcceptStep
<1>3. ASSUME NEW p \in Pcbs, RecvUpgrade(p)
      PROVE  UInv'
  <2>1. UNCHANGED uartSide
    BY <1>3 DEF RecvUpgrade
  <2> QED BY <1>1, <1>3, <2>1, RecvUpgradeStep
<1>4. ASSUME NEW p \in Pcbs, Disconnect(p)
      PROVE  UInv'
  <2>1. UNCHANGED uartSide
    BY <1>4 DEF Disconnect
  <2> QED BY <1>1, <1>4, <2>1, DisconnectStep
<1>5. ASSUME NEW p \in Pcbs, NEW k \in 1 .. ACK_FRAME_LEN, server_sent(p, k)
      PROVE  UInv'
  <2>1. UNCHANGED uartSide
    BY <1>5 DEF server_sent
  <2> QED BY <1>1, <1>5, <2>1, SentStep
<1>6. UNCHANGED connection => (\A q \in Pcbs : ConnectionOK(q)') /\ RepliesInOrder'
  BY DEF UInv, connection, ConnectionOK, Dangles, RepliesInOrder
<1>7. ASSUME NEW p \in Pcbs, RecvData(p)
      PROVE  UInv'
  <2>1. UNCHANGED <<connection, cur_pool, pdc, uart, dangling>>
    BY <1>7 DEF RecvData
  <2>2. /\ data_from_eth' \in [Pools -> Slots]
        /\ accepted' \in [Clients -> 0 .. MaxSegs]
        /\ UartSideOK(data_from_eth', cur_pool, pdc, uart, accepted')
    BY <1>7, RecvDataStep
  <2>3. TypeOK'
    BY <2>1, <2>2 DEF UInv, TypeOK, Slots, connection
  <2> QED BY <1>6, <2>1, <2>2, <2>3 DEF UInv, UartInOrder
<1>8. ASSUME check_uart_data_pool
      PROVE  UInv'
  <2>1. UNCHANGED <<connection, uart, accepted>>
    BY <1>8 DEF check_uart_data_pool
  <2>2. /\ data_from_eth' \in [Pools -> Slots]
        /\ cur_pool' \in Pools \cup {NULL}
        /\ pdc' \in Segments \cup {NULL}
        /\ UartSideOK(data_from_eth', cur_pool', pdc', uart, accepted)
        /\ dangling' \subseteq {"pcb", "callback_arg"}
    BY <1>8, PoolStep
  <2>3. TypeOK'
    BY <2>1, <2>2 DEF UInv, TypeOK, Slots, connection
  <2> QED BY <1>6, <2>1, <2>2, <2>3 DEF UInv, UartInOrder
<1>9. ASSUME UART1_Handler
      PROVE  UInv'
  <2>1. UNCHANGED <<connection, cur_pool, accepted, dangling>>
    BY <1>9 DEF UART1_Handler
  <2>2. /\ data_from_eth' \in [Pools -> Slots]
        /\ pdc' \in Segments \cup {NULL}
        /\ uart' \in [Clients -> Seq(Segments)]
        /\ UartSideOK(data_from_eth', cur_pool, pdc', uart', accepted)
        /\ UartInOrder'
    BY <1>9, UartStep
  <2>3. TypeOK'
    BY <2>1, <2>2 DEF UInv, TypeOK, Slots, connection
  <2> QED BY <1>6, <2>1, <2>2, <2>3 DEF UInv
<1>10. CASE UNCHANGED vars
  <2>1. UNCHANGED connection /\ UNCHANGED uartSide /\ UNCHANGED dangling
    BY <1>10 DEF vars
  <2>2. TypeOK'
    BY <2>1 DEF UInv, TypeOK, connection, uartSide
  <2> QED BY <1>1, <1>6, <2>1, <2>2
<1> QED BY <1>2, <1>3, <1>4, <1>5, <1>7, <1>8, <1>9, <1>10 DEF Next

\* The invariant holds in every state of the server.
THEOREM ServerInvariant == Spec => []UInv
<1> QED BY UInit, ServerSteps, PTL DEF Spec

\* The server's state keeps its types: in particular no reply has more bytes
\* under way than it has.
THEOREM ServerTypes == Spec => []TypeOK
<1>1. UInv => TypeOK
  BY DEF UInv
<1> QED BY <1>1, ServerInvariant, PTL

\* check_uart_data_pool and UART1_Handler: the segments of each client leave on
\* the UART in the order they arrived and each once, however many clients
\* share the pool and the wire, and although connections end with segments in
\* the pool.
THEOREM UartKeepsOrder == Spec => []UartInOrder
<1>1. UInv => UartInOrder
  BY DEF UInv
<1> QED BY <1>1, ServerInvariant, PTL

\* The PDC never reads a segment that check_uart_data_pool has freed.
THEOREM DmaIsSafe == Spec => []DmaReadsLive
<1>1. UInv => DmaReadsLive
  BY DEF UInv, UartSideOK, SlotOK, CurrentOK, DmaReadsLive, TypeOK
<1> QED BY <1>1, ServerInvariant, PTL

\* send_data, send_data_to_client and server_sent: the replies on a connection
\* follow each other whole, whatever part of one tcp_write takes and however the
\* client acknowledges them.
THEOREM RepliesKeepOrder == Spec => []RepliesInOrder
<1>1. UInv => RepliesInOrder
  BY DEF UInv
<1> QED BY <1>1, ServerInvariant, PTL
=============================================================================
