----------------------------- MODULE UartServer -----------------------------
(***************************************************************************)
(* The TCP server of the gateway (network/server/server.c) and the path    *)
(* from the network to the UART (network/network.c).                       *)
(*                                                                         *)
(* A segment that starts with the header of an update frame is answered    *)
(* with an ACK frame, sent through a chain of buffers that hangs from the  *)
(* connection (callback_arg).  Any other segment is copied to a pool slot  *)
(* of its client, from which the main loop feeds the DMA channel (PDC) of  *)
(* the UART.  The lwIP callbacks and check_uart_data_pool all run in the   *)
(* main loop, one at a time; UART1_Handler interrupts them, but only when  *)
(* a transfer ends, and all it shares with them is the flag ongoing of the *)
(* current slot, which check_uart_data_pool reads once: a turn of it is    *)
(* one step.                                                               *)
(*                                                                         *)
(* A segment for the UART is its number among those accepted from its      *)
(* client, and a reply its number on the connection.  Memory is not        *)
(* modelled, except that mem_malloc and tcp_write may fail and that        *)
(* pointers may outlive what they point to: dangling records that such a   *)
(* pointer was used, and the step then does nothing else with it.          *)
(***************************************************************************)
EXTENDS Naturals, Sequences

CONSTANTS
    Clients,        \* remote endpoints (address and port)
    Pcbs,           \* the memory lwIP has for connections
    MAXIMUM_POOL_FOR_DATA_FROM_ETH,
    ACK_FRAME_LEN,
    TCP_SND_BUF,    \* bytes a connection may have under way
    MaxConns,       \* bound on the number of connections made
    MaxSegs,        \* bound on the segments accepted from a client
    MaxReplies,     \* bound on the replies on a connection
    NULL

ASSUME PoolAssumption ==
    /\ MAXIMUM_POOL_FOR_DATA_FROM_ETH \in Nat \ {0}
    /\ ACK_FRAME_LEN \in Nat \ {0}
    /\ TCP_SND_BUF \in Nat /\ TCP_SND_BUF >= ACK_FRAME_LEN
    /\ {MaxConns, MaxSegs, MaxReplies} \subseteq Nat
    /\ NULL \notin Clients /\ NULL \notin 1 .. MAXIMUM_POOL_FOR_DATA_FROM_ETH

Pools == 1 .. MAXIMUM_POOL_FOR_DATA_FROM_ETH

VARIABLES
    remote,         \* remote endpoint of a connection, NULL if the pcb is free
    id,             \* number of the connection that a pcb was last used for
    callback_arg,   \* chain of buffers to send; <<Freed>> if it was freed under it
    unacked,        \* bytes sent and not acknowledged by the client
    written,        \* history: the bytes given to tcp_write, as reply numbers
    replies,        \* replies queued on the connection
    data_from_eth,  \* the pool slots
    cur_pool,       \* the slot being sent, or NULL
    pdc,            \* the segment the PDC is reading, or NULL (TXTEN cleared)
    uart,           \* history: segments sent on the UART, by client
    accepted,       \* segments accepted from each client
    conns,          \* connections made so far
    dangling        \* history: pointers used after what they pointed to was freed

connection == <<remote, id, callback_arg, unacked, written, replies, conns>>
uartSide == <<data_from_eth, cur_pool, pdc, uart, accepted>>
vars == <<connection, uartSide, dangling>>

Freed == [reply |-> 0, left |-> 0, acked |-> 0]
Segments == [client : Clients, n : 1 .. MaxSegs, pcb : Pcbs, id : 1 .. MaxConns]
Buffers == [reply : 0 .. MaxReplies, left : 0 .. ACK_FRAME_LEN, acked : 0 .. ACK_FRAME_LEN]

ASSUME NullAssumption == NULL \notin Segments

TypeOK ==
    /\ remote \in [Pcbs -> Clients \cup {NULL}]
    /\ id \in [Pcbs -> 0 .. MaxConns]
    /\ callback_arg \in [Pcbs -> Seq(Buffers)]
    /\ unacked \in [Pcbs -> 0 .. ACK_FRAME_LEN]
    /\ written \in [Pcbs -> Seq(1 .. MaxReplies)]
    /\ replies \in [Pcbs -> 0 .. MaxReplies]
    /\ data_from_eth \in [Pools -> [dirty : BOOLEAN, ongoing : BOOLEAN,
                                    client : Clients \cup {NULL}, next : Seq(Segments)]]
    /\ cur_pool \in Pools \cup {NULL}
    /\ pdc \in Segments \cup {NULL}
    /\ uart \in [Clients -> Seq(Segments)]
    /\ accepted \in [Clients -> 0 .. MaxSegs]
    /\ conns \in 0 .. MaxConns
    /\ dangling \subseteq {"pcb", "callback_arg"}

\* network_init and start_server.
Init ==
    /\ remote = [p \in Pcbs |-> NULL]
    /\ id = [p \in Pcbs |-> 0]
    /\ callback_arg = [p \in Pcbs |-> <<>>]
    /\ unacked = [p \in Pcbs |-> 0]
    /\ written = [p \in Pcbs |-> <<>>]
    /\ replies = [p \in Pcbs |-> 0]
    /\ data_from_eth = [i \in Pools |->
            [dirty |-> FALSE, ongoing |-> FALSE, client |-> NULL, next |-> <<>>]]
    /\ cur_pool = NULL
    /\ pdc = NULL
    /\ uart = [c \in Clients |-> <<>>]
    /\ accepted = [c \in Clients |-> 0]
    /\ conns = 0
    /\ dangling = {}
-----------------------------------------------------------------------------
(***************************************************************************)
(* Connections and replies.                                                *)
(***************************************************************************)

server_accept(p, c) ==
    /\ conns < MaxConns
    /\ remote[p] = NULL
    /\ \A q \in Pcbs : remote[q] # c
    /\ remote' = [remote EXCEPT ![p] = c]
    /\ id' = [id EXCEPT ![p] = conns + 1]
    /\ callback_arg' = [callback_arg EXCEPT ![p] = <<>>]
    /\ unacked' = [unacked EXCEPT ![p] = 0]
    /\ written' = [written EXCEPT ![p] = <<>>]
    /\ replies' = [replies EXCEPT ![p] = 0]
    /\ conns' = conns + 1
    /\ UNCHANGED <<uartSide, dangling>>

\* What tcp_write may take of n bytes: all, or what is left after the length
\* was halved for lack of memory, which the loop does while more than one byte
\* remains.
Taken(n) == {n} \cup {m \in 2 .. n : \E k \in 1 .. n : m = n \div 2 ^ k}

\* Of left bytes, with u under way, no more than the send buffer has room for.
Writable(left, u) == Taken(IF TCP_SND_BUF - u < left THEN TCP_SND_BUF - u ELSE left)

\* Sends from the first buffer of the chain, with u bytes under way.  When
\* tcp_write fails, the whole chain is freed but the connection keeps pointing
\* to it.
send_data_to_client(p, chain, u) ==
    \/ \E k \in Writable(Head(chain).left, u) :
         /\ callback_arg' = [callback_arg EXCEPT ![p] =
                <<[Head(chain) EXCEPT !.left = @ - k]>> \o Tail(chain)]
         /\ unacked' = [unacked EXCEPT ![p] = u + k]
         /\ written' = [written EXCEPT ![p] = @ \o [i \in 1 .. k |-> Head(chain).reply]]
    \/ /\ callback_arg' = [callback_arg EXCEPT ![p] = <<Freed>>]
       /\ unacked' = [unacked EXCEPT ![p] = u]
       /\ UNCHANGED written

Dangles(p) == callback_arg[p] = <<Freed>>

UseDangling(what) == dangling' = dangling \cup {what}

\* Mutant: a reply takes the place of the one being sent.
NeverWaits(p) == FALSE

\* The comment in send_data: "previous data is still in sending".
StillSending(p) == callback_arg[p] # <<>>

send_data(p) ==
    LET node == [reply |-> replies[p] + 1, left |-> ACK_FRAME_LEN, acked |-> 0]
    IN \/ /\ ~Dangles(p)
          /\ replies' = [replies EXCEPT ![p] = @ + 1]
          /\ IF StillSending(p)
             THEN /\ callback_arg' = [callback_arg EXCEPT ![p] = Append(@, node)]
                  /\ UNCHANGED <<unacked, written>>
             ELSE send_data_to_client(p, <<node>>, unacked[p])
          /\ UNCHANGED <<remote, id, conns, dangling>>
       \/ Dangles(p) /\ UseDangling("callback_arg") /\ UNCHANGED connection

\* server_recv on an update frame: handle_upgrade_packet, then the reply (lost,
\* with no change here, if there is no memory for it).
RecvUpgrade(p) ==
    /\ remote[p] # NULL
    /\ replies[p] < MaxReplies
    /\ send_data(p)
    /\ UNCHANGED uartSide

\* Mutant: the next reply becomes the first one but is not sent.
NextIsForgotten(p, chain, u) ==
    /\ callback_arg' = [callback_arg EXCEPT ![p] = chain]
    /\ unacked' = [unacked EXCEPT ![p] = u]
    /\ UNCHANGED written

\* The first reply is acknowledged: free it and send the next, if there is one.
SendNext(p, chain, u) ==
    \/ chain # <<>> /\ send_data_to_client(p, chain, u)
    \/ /\ chain = <<>>
       /\ callback_arg' = [callback_arg EXCEPT ![p] = <<>>]
       /\ unacked' = [unacked EXCEPT ![p] = u]
       /\ UNCHANGED written

\* The client has acknowledged k bytes.
server_sent(p, k) ==
    LET chain == callback_arg[p]
        first == [chain[1] EXCEPT !.acked = @ + k]
        rest == Tail(chain)
        u == unacked[p] - k
    IN /\ remote[p] # NULL
       /\ k \in 1 .. unacked[p]
       /\ \/ /\ ~Dangles(p)
             /\ \/ first.left > 0 /\ send_data_to_client(p, <<first>> \o rest, u)
                \/ /\ first.left = 0 /\ first.acked < ACK_FRAME_LEN
                   /\ callback_arg' = [callback_arg EXCEPT ![p] = <<first>> \o rest]
                   /\ unacked' = [unacked EXCEPT ![p] = u]
                   /\ UNCHANGED written
                \/ first.left = 0 /\ first.acked >= ACK_FRAME_LEN /\ SendNext(p, rest, u)
             /\ UNCHANGED dangling
          \/ /\ Dangles(p)
             /\ UseDangling("callback_arg")
             /\ unacked' = [unacked EXCEPT ![p] = u]
             /\ UNCHANGED <<callback_arg, written>>
       /\ UNCHANGED <<remote, id, replies, conns, uartSide>>

\* The client closes (server_close_connection) or the connection fails
\* (server_connection_err): the chain is freed and lwIP frees the pcb.  What
\* the connection left in the pool stays there, with its pointer to the pcb.
Disconnect(p) ==
    /\ remote[p] # NULL
    /\ IF Dangles(p) THEN UseDangling("callback_arg") ELSE UNCHANGED dangling
    /\ remote' = [remote EXCEPT ![p] = NULL]
    /\ callback_arg' = [callback_arg EXCEPT ![p] = <<>>]
    /\ unacked' = [unacked EXCEPT ![p] = 0]
    /\ UNCHANGED <<id, written, replies, conns, uartSide>>
-----------------------------------------------------------------------------
(***************************************************************************)
(* From the network to the UART.                                           *)
(***************************************************************************)

\* The slot that holds data of client c, or else those that are free.
SlotsFor(c) ==
    LET own == {i \in Pools : data_from_eth[i].dirty /\ data_from_eth[i].client = c}
    IN IF own # {} THEN own ELSE {i \in Pools : ~data_from_eth[i].dirty}

First(S) == CHOOSE i \in S : \A j \in S : i <= j

\* Mutant: a segment is put in front of those that wait.
Pushes(list, s) == <<s>> \o list

\* The walk to the end of the list of a slot.
Enqueue(list, s) == Append(list, s)

\* server_recv on any other segment.  Without a slot, or without memory for
\* the copy, the segment is dropped and nothing changes.
RecvData(p) ==
    LET c == remote[p]
        i == First(SlotsFor(c))
        segment == [client |-> c, n |-> accepted[c] + 1, pcb |-> p, id |-> id[p]]
    IN /\ c # NULL
       /\ accepted[c] < MaxSegs
       /\ SlotsFor(c) # {}
       /\ accepted' = [accepted EXCEPT ![c] = @ + 1]
       /\ data_from_eth' = [data_from_eth EXCEPT
                ![i].next = Enqueue(@, segment), ![i].client = c, ![i].dirty = TRUE]
       /\ UNCHANGED <<connection, cur_pool, pdc, uart, dangling>>

\* pdc_uart_send_data does nothing while a transfer is enabled.
pdc_uart_send_data(s) == pdc' = IF pdc = NULL THEN s ELSE pdc

\* Mutant: the slot is cleared but stays the current one.
SlotStays(slots, i) ==
    /\ data_from_eth' = [slots EXCEPT ![i].dirty = FALSE, ![i].client = NULL]
    /\ UNCHANGED <<cur_pool, pdc>>

\* The first slot that holds data becomes the current one.
SelectSlot(slots) ==
    LET full == {i \in Pools : slots[i].dirty}
        i == First(full)
    IN \/ /\ full = {}
          /\ cur_pool' = NULL
          /\ data_from_eth' = slots
          /\ UNCHANGED pdc
       \/ /\ full # {}
          /\ cur_pool' = i
          /\ data_from_eth' = [slots EXCEPT ![i].ongoing = TRUE]
          /\ pdc_uart_send_data(Head(slots[i].next))

\* The current slot i is empty: clear it and go on to the selection.
ReleaseSlot(slots, i) ==
    SelectSlot([slots EXCEPT ![i].dirty = FALSE, ![i].client = NULL])

\* Mutant: the end of the transfer is not waited for.
IgnoresOngoing(i) == data_from_eth[i].dirty

Finished(i) == data_from_eth[i].dirty /\ ~data_from_eth[i].ongoing

\* The transfer of the first segment of the current slot has ended.  tcp_recved
\* uses the pcb the segment came from.
TakeNext ==
    /\ cur_pool # NULL
    /\ Finished(cur_pool)
    /\ LET s == Head(data_from_eth[cur_pool].next)
           rest == Tail(data_from_eth[cur_pool].next)
           slots == [data_from_eth EXCEPT ![cur_pool].next = rest]
       IN /\ IF remote[s.pcb] = NULL \/ id[s.pcb] # s.id
             THEN UseDangling("pcb") ELSE UNCHANGED dangling
          /\ \/ /\ rest # <<>>
                /\ data_from_eth' = [slots EXCEPT ![cur_pool].ongoing = TRUE]
                /\ pdc_uart_send_data(Head(rest))
                /\ UNCHANGED cur_pool
             \/ rest = <<>> /\ ReleaseSlot(slots, cur_pool)

\* A turn of the main loop that finds something to do.
check_uart_data_pool ==
    /\ \/ TakeNext
       \/ /\ cur_pool = NULL
          /\ \E i \in Pools : data_from_eth[i].dirty
          /\ SelectSlot(data_from_eth)
          /\ UNCHANGED dangling
    /\ UNCHANGED <<connection, uart, accepted>>

\* The PDC has read the whole segment.
UART1_Handler ==
    /\ pdc # NULL
    /\ uart' = [uart EXCEPT ![pdc.client] = Append(@, pdc)]
    /\ pdc' = NULL
    /\ data_from_eth' = IF cur_pool = NULL THEN data_from_eth
                        ELSE [data_from_eth EXCEPT ![cur_pool].ongoing = FALSE]
    /\ UNCHANGED <<connection, cur_pool, accepted, dangling>>

Next ==
    \/ \E p \in Pcbs, c \in Clients : server_accept(p, c)
    \/ \E p \in Pcbs : RecvUpgrade(p) \/ RecvData(p) \/ Disconnect(p)
    \/ \E p \in Pcbs, k \in 1 .. ACK_FRAME_LEN : server_sent(p, k)
    \/ check_uart_data_pool
    \/ UART1_Handler

Spec == Init /\ [][Next]_vars

\* The main loop turns, transfers end, and a client that stays connected
\* acknowledges what it receives.
Fairness ==
    /\ WF_vars(check_uart_data_pool)
    /\ WF_vars(UART1_Handler)
    /\ \A p \in Pcbs : WF_vars(\E k \in 1 .. ACK_FRAME_LEN : server_sent(p, k))

FairSpec == Spec /\ Fairness
-----------------------------------------------------------------------------
\* The UART carries the segments of each client in the order they arrived,
\* each exactly once, whatever slot holds them and however connections come
\* and go.
UartInOrder ==
    \A c \in Clients : \A i \in 1 .. Len(uart[c]) : uart[c][i].n = i

\* The PDC only reads a segment that is still allocated: the first of the
\* current slot, which check_uart_data_pool frees after the transfer.
DmaReadsLive ==
    pdc # NULL => /\ cur_pool # NULL
                  /\ data_from_eth[cur_pool].next # <<>>
                  /\ pdc = Head(data_from_eth[cur_pool].next)

\* The bytes given to TCP are those of the replies, one whole reply after the
\* other, even when tcp_write takes only part of a reply.
RepliesInOrder ==
    \A p \in Pcbs : \A i \in 1 .. Len(written[p]) :
        written[p][i] = ((i - 1) \div ACK_FRAME_LEN) + 1

\* Every segment accepted for the UART is sent.
UartDrains ==
    \A c \in Clients : []<>(Len(uart[c]) = accepted[c])

\* The replies of a connection all leave, unless tcp_write fails or the
\* connection ends.
RepliesLeave ==
    \A p \in Pcbs : (callback_arg[p] # <<>>) ~> (callback_arg[p] = <<>> \/ Dangles(p))

\* tcp_recved is not called on a connection that has ended: "The pcb is
\* deallocated by the TCP code after a call to tcp_close()" (rawapi.txt).
PcbNotUsedAfterClose == "pcb" \notin dangling
=============================================================================
