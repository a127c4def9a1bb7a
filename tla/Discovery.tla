----------------------------- MODULE Discovery -----------------------------
(***************************************************************************)
(* How the Android client finds the gateway: OtaActivity.java and          *)
(* udpbroadcast.java on the phone, udpsev.c on the board.                  *)
(*                                                                         *)
(* Every second the activity broadcasts a magic string and waits for the   *)
(* answers.  One search starts two threads: a sender, which empties the    *)
(* socket, broadcasts and then receives, and one that receives at once.    *)
(* Each of them ends as a ReceiveData, which takes at most one packet and  *)
(* hands it to onReceived on its own thread.  onCreate and onResume each   *)
(* start a chain of searches, so two run side by side after a launch.  No  *)
(* thread is waited for: those of earlier searches, also of searches from  *)
(* before an onStop, go on beside those of the next.                       *)
(*                                                                         *)
(* Abstractions.  A packet is an answer of the board ("reply") or the      *)
(* client's own broadcast ("own"), which comes back to a socket bound to   *)
(* the port the broadcast goes to.  An address is that of an answer of     *)
(* this run of the application, or one an earlier run has saved.  mCount   *)
(* is left out: an empty list may be found too old at any search.          *)
(***************************************************************************)
EXTENDS Naturals, Sequences, FiniteSets

CONSTANTS
    ThreadLimit,    \* threads there may be at a time, when a search begins
    MaxSearches,    \* START_SEARCH messages in the queue
    MaxInbox        \* packets the socket keeps

\* onCreate and onResume post one START_SEARCH each.
ASSUME BoundAssumption ==
    MaxSearches \in Nat \ {0, 1} /\ MaxInbox \in Nat \ {0} /\ ThreadLimit \in Nat

Ports == {6666, 48899}
CLOSED == 0
NULL == "null"
NAME == "SAM4S-XPlained-PRO"
SAVED == "saved"            \* an address of an earlier run of the application
ANSWERED == "answered"      \* an address of an answer in this one
Threads == 1 .. ThreadLimit
NoThread == 0

VARIABLES
    phase,          \* of the activity: "resumed", "stopped", "exited", "crashed"
    searches,       \* START_SEARCH messages in the queue
    due,            \* those whose delay has passed
    socket,         \* the port the socket is bound to, or CLOSED
    port,
    inbox,          \* packets in the socket
    net,            \* source ports of broadcasts the board may still answer
    pc,             \* where each thread is
    packet,         \* what it has received
    stop,           \* the stop flag of its ReceiveData
    receiveData,    \* the ReceiveData made last
    ipAddress,      \* AppPreferences, which outlives the application
    dataSource,
    image_details   \* the list shown

activity == <<phase, searches, due>>
network == <<socket, port, inbox, net>>
threads == <<pc, packet, stop, receiveData>>
results == <<ipAddress, dataSource, image_details>>
vars == <<activity, network, threads, results>>

Addresses == {SAVED, ANSWERED}

TypeOK ==
    /\ phase \in {"resumed", "stopped", "exited", "crashed"}
    /\ searches \in 0 .. MaxSearches /\ due \in 0 .. searches
    /\ socket \in Ports \cup {CLOSED} /\ port \in Ports
    /\ inbox \in Seq({"own", "reply"}) /\ Len(inbox) <= MaxInbox
    /\ net \subseteq Ports
    /\ pc \in [Threads -> {"idle", "drain", "send", "spawn", "run", "got", "name", "check",
                      "add"}]
    /\ packet \in [Threads -> {"none", "own", "reply"}]
    /\ stop \in [Threads -> BOOLEAN]
    /\ receiveData \in Threads \cup {NoThread}
    /\ ipAddress \in Addresses /\ dataSource \in {NULL, NAME}
    /\ image_details \in Seq([name : {NULL, NAME}, ip : Addresses])
    /\ Len(image_details) <= ThreadLimit

Each(v) == [t \in Threads |-> v]

\* onCreate and onResume of a fresh process.
Init ==
    /\ phase = "resumed" /\ searches = 2 /\ due = 0
    /\ socket = CLOSED /\ port = 6666 /\ inbox = <<>> /\ net = {}
    /\ pc = Each("idle") /\ packet = Each("none") /\ stop = Each(FALSE)
    /\ receiveData = NoThread
    /\ ipAddress = SAVED /\ dataSource = NULL /\ image_details = <<>>
-----------------------------------------------------------------------------
(***************************************************************************)
(* The activity, on the main thread.                                       *)
(***************************************************************************)

alive == phase \in {"resumed", "stopped"}
Idle == {t \in Threads : pc[t] = "idle"}

\* The first n threads that are idle: which ones a search gets does not matter.
Fresh(n) == {t \in Idle : Cardinality({u \in Idle : u <= t}) <= n}

\* The delay of a search in the queue has passed, or of those of both chains.
DelayPasses ==
    /\ alive
    /\ due' \in (due + 1) .. searches
    /\ UNCHANGED <<phase, searches, network, threads, results>>

\* stopReceive: the ReceiveData made last is told to stop.
stopReceive ==
    [t \in Threads |-> stop[t] \/ (t = receiveData /\ pc[t] \in {"run", "got"})]


\* sendEmptyMessageDelayed, in place of the message handled.
repost(alert) == IF alert THEN 1 ELSE searches

\* START_SEARCH.  alert: nothing was found for too long; the dialog's only
\* button is Exit, and the other searches are dropped.  Then the socket is
\* opened if need be, the sender s and the receiver r start, and the next
\* search is posted.
handleMessage(alert, s, r) ==
    /\ alive /\ due > 0
    /\ Fresh(2) = {s, r} /\ s < r
    /\ alert => image_details = <<>>
    /\ due' = IF alert THEN 0 ELSE due - 1
    /\ searches' = repost(alert)
    /\ IF socket = CLOSED
       THEN socket' = port /\ port' = 48899 /\ inbox' = <<>>
       ELSE UNCHANGED <<socket, port, inbox>>
    /\ pc' = [pc EXCEPT ![s] = "drain", ![r] = "spawn"]
    /\ stop' = stopReceive
    /\ UNCHANGED <<phase, net, packet, receiveData, results>>

\* The senders that may find the socket closed when they test it next.
Spinning == {t \in Threads : pc[t] = "drain"}

\* close: the receive of the senders in it throws, and they go on; the others
\* find the socket closed, and spin until there is an open one.  Those that
\* spin are so few that the next search finds its two threads.
close ==
    /\ \E blocked \in SUBSET Spinning :
        /\ Cardinality(Spinning \ blocked) + 2 <= ThreadLimit
        /\ pc' = [t \in Threads |-> IF t \in blocked THEN "send" ELSE pc[t]]
    /\ stop' = stopReceive
    /\ socket' = CLOSED
    /\ inbox' = <<>>
    /\ UNCHANGED <<port, net, packet, receiveData>>

\* Mutant: the searches stay in the queue.
ForgetsRemove == searches

removeMessages == 0

\* onStop, and before it onItemClick if an entry was chosen.
onStop ==
    /\ phase = "resumed"
    /\ phase' = "stopped"
    /\ searches' = removeMessages
    /\ due' = removeMessages
    /\ close
    /\ UNCHANGED results

\* onResume after onStop, or after a mere pause; action_fresh does the same.
startSearch ==
    /\ alive
    /\ searches < MaxSearches
    /\ phase' = "resumed"
    /\ searches' = searches + 1
    /\ UNCHANGED <<due, network, threads, results>>

\* onRefresh: two seconds after a swipe the list is cleared.
onRefresh ==
    /\ alive
    /\ image_details' = <<>>
    /\ UNCHANGED <<activity, network, threads, ipAddress, dataSource>>

\* The process ends with its threads; what is left in the variables is reset
\* by the next launch.
EndProcess(how) ==
    /\ phase' = how
    /\ searches' = 0 /\ due' = 0
    /\ socket' = CLOSED /\ port' = 6666 /\ inbox' = <<>> /\ net' = {}
    /\ pc' = Each("idle") /\ packet' = Each("none") /\ stop' = Each(FALSE)
    /\ receiveData' = NoThread
    /\ ipAddress' = SAVED /\ dataSource' = NULL /\ image_details' = <<>>

exit == phase = "resumed" /\ EndProcess("exited")

Launch ==
    /\ phase \in {"exited", "crashed"}
    /\ phase' = "resumed"
    /\ searches' = 2
    /\ UNCHANGED <<due, network, threads, results>>
-----------------------------------------------------------------------------
(***************************************************************************)
(* The threads of udpbroadcast.                                            *)
(***************************************************************************)

Go(t, to) == pc' = [pc EXCEPT ![t] = to]

\* t ends; stopping its ReceiveData does nothing any more.
End(t) ==
    /\ Go(t, "idle")
    /\ stop' = [stop EXCEPT ![t] = FALSE]
    /\ receiveData' = IF receiveData = t THEN NoThread ELSE receiveData

\* The sender empties the socket, if it is open,
Drain(t) ==
    /\ pc[t] = "drain" /\ socket # CLOSED /\ inbox # <<>>
    /\ inbox' = Tail(inbox)
    /\ UNCHANGED <<activity, socket, port, net, threads, results>>

\* until receive has waited 200 ms in vain.
SenderTimesOut(t) ==
    /\ pc[t] = "drain" /\ socket # CLOSED /\ inbox = <<>>
    /\ Go(t, "send")
    /\ UNCHANGED <<activity, network, packet, stop, receiveData, results>>

\* A sender broadcasts from the socket's port, if that is open by now.
BroadcastFrom(t) == IF pc[t] = "send" THEN {socket} \ {CLOSED} ELSE {}

\* Then, and in receive() at once, new ReceiveData and start().  A broadcast
\* comes back to port 48899.  start() clears the flag last: a stop before that
\* is lost, as if it had come before Spawn.
Spawn(t) ==
    /\ pc[t] \in {"send", "spawn"}
    /\ net' = net \cup BroadcastFrom(t)
    /\ inbox' = IF 48899 \in BroadcastFrom(t) /\ Len(inbox) < MaxInbox
                THEN Append(inbox, "own") ELSE inbox
    /\ Go(t, "run")
    /\ receiveData' = t
    /\ stop' = [stop EXCEPT ![t] = FALSE]
    /\ UNCHANGED <<activity, socket, port, packet, results>>

\* ReceiveData.run takes one packet,
Receive(t) ==
    /\ pc[t] = "run" /\ inbox # <<>>
    /\ packet' = [packet EXCEPT ![t] = Head(inbox)]
    /\ inbox' = Tail(inbox)
    /\ Go(t, "got")
    /\ UNCHANGED <<activity, socket, port, net, stop, receiveData, results>>

\* or ends without one: stopped, timed out, or a second on a closed socket.
GiveUp(t) ==
    /\ pc[t] = "run" /\ (stop[t] \/ inbox = <<>>)
    /\ End(t)
    /\ UNCHANGED <<activity, network, packet, results>>

-----------------------------------------------------------------------------
(***************************************************************************)
(* onReceived, on the thread of the ReceiveData.                           *)
(***************************************************************************)

\* Mutant: the address is not stored.
KeepsAddress == ipAddress

\* setIpAddress
Answered == ANSWERED

\* onReceived, unless t was stopped meanwhile: parseReceiveData of an answer
\* stores the address, then the name; of anything else, nothing.
onReceived(t) ==
    /\ pc[t] = "got"
    /\ packet' = [packet EXCEPT ![t] = "none"]
    /\ IF stop[t] THEN End(t) /\ UNCHANGED ipAddress
       ELSE /\ IF packet[t] = "reply" THEN ipAddress' = Answered /\ Go(t, "name")
               ELSE Go(t, "check") /\ UNCHANGED ipAddress
            /\ UNCHANGED <<stop, receiveData>>
    /\ UNCHANGED <<activity, network, dataSource, image_details>>

parseReceiveData(t) ==
    /\ pc[t] = "name"
    /\ dataSource' = NAME
    /\ Go(t, "check")
    /\ UNCHANGED <<activity, network, packet, stop, receiveData, ipAddress, image_details>>

\* Mutant: the list is not searched.
NoneExists == {}

\* The first entry that decides IsExsits: one of that name, or one without a
\* name, on which getName().equals throws.
Deciding == {i \in 1 .. Len(image_details) : image_details[i].name \in {dataSource, NULL}}
Throws == \E i \in Deciding : image_details[i].name = NULL /\ \A j \in Deciding : i <= j

IsExsits(t) ==
    /\ pc[t] = "check"
    /\ IF Throws THEN EndProcess("crashed")
       ELSE /\ IF Deciding # {} THEN End(t)
               ELSE Go(t, "add") /\ UNCHANGED <<stop, receiveData>>
            /\ UNCHANGED <<activity, network, packet, results>>

AddItem(t) ==
    /\ pc[t] = "add"
    /\ image_details' = Append(image_details, [name |-> dataSource, ip |-> ipAddress])
    /\ End(t)
    /\ UNCHANGED <<activity, network, packet, ipAddress, dataSource>>

\* udp_server_recv: the board answers to the port the broadcast came from.
udp_server_recv(p) ==
    /\ p \in net
    /\ net' = net \ {p}
    /\ inbox' = IF socket = p /\ Len(inbox) < MaxInbox THEN Append(inbox, "reply") ELSE inbox
    /\ UNCHANGED <<activity, socket, port, threads, results>>
-----------------------------------------------------------------------------
SearchStep ==
    \/ DelayPasses
    \/ \E alert \in BOOLEAN, s, r \in Threads : handleMessage(alert, s, r)

ThreadStep(t) ==
    \/ Drain(t) \/ SenderTimesOut(t) \/ Spawn(t) \/ Receive(t) \/ GiveUp(t)
    \/ onReceived(t) \/ parseReceiveData(t) \/ IsExsits(t) \/ AddItem(t)

UserStep == onStop \/ startSearch \/ onRefresh \/ exit

Next ==
    \/ SearchStep
    \/ UserStep
    \/ Launch
    \/ \E t \in Threads : ThreadStep(t)
    \/ \E p \in Ports : udp_server_recv(p)

Spec == Init /\ [][Next]_vars
-----------------------------------------------------------------------------
(***************************************************************************)
(* Properties.                                                             *)
(***************************************************************************)

\* An entry with a name has the address of an answer of this run of the
\* application: receivers that store and read address and name at the same
\* time never show the name with an address saved by an earlier run.
NamedHasAddress ==
    \A i \in 1 .. Len(image_details) :
        image_details[i].name = NAME => image_details[i].ip = ANSWERED

\* While the activity is stopped nothing is broadcast, whatever its threads
\* were doing when it stopped: also not by the senders that spin on the closed
\* socket, or whose receive its closing ended.
SilentWhenStopped == [][phase = "stopped" => net' \subseteq net]_vars
=============================================================================
