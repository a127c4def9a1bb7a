-------------------------- MODULE DiscoveryProofs --------------------------
(***************************************************************************)
(* Proofs about Discovery, for every number of threads, of messages in the *)
(* queue and of packets in the socket.                                     *)
(*                                                                         *)
(* The argument.  parseReceiveData stores the address before the name, and *)
(* neither is taken back before the process ends; so whoever sees the name *)
(* sees an address of this run.  A list that has an entry lets no thread   *)
(* reach AddItem any more, so it grows only by the threads that were there *)
(* while it was empty.  onStop closes the socket and drops the searches,   *)
(* and only a search opens it again.                                       *)
(***************************************************************************)
EXTENDS Discovery, FiniteSetTheorems, TLAPS

\* Threads that have found their name missing and are about to add it.
Adders == {t \in Threads : pc[t] = "add"}

\* The inductive invariant, in parts.
StoppedIsQuiet == phase # "resumed" => searches = 0 /\ socket = CLOSED

AddressBeforeName ==
    /\ dataSource = NAME => ipAddress = ANSWERED
    /\ \A t \in Threads : pc[t] = "name" => ipAddress = ANSWERED

NamesAreKnown ==
    \A i \in 1 .. Len(image_details) : image_details[i].name = NAME => dataSource = NAME

ListIsShort == Len(image_details) + Cardinality(Adders) <= ThreadLimit

DInv ==
    /\ TypeOK
    /\ StoppedIsQuiet
    /\ AddressBeforeName
    /\ NamesAreKnown
    /\ ListIsShort
    /\ NamedHasAddress
-----------------------------------------------------------------------------
\* The threads are finitely many, and so are those about to add an entry.
LEMMA AddersFinite ==
    /\ IsFiniteSet(Adders) /\ Cardinality(Adders) \in Nat
    /\ Cardinality(Adders) <= ThreadLimit
    /\ IsFiniteSet(Adders') /\ Cardinality(Adders') \in Nat
    /\ Cardinality(Adders') <= ThreadLimit
<1>1. IsFiniteSet(Threads) /\ Cardinality(Threads) = ThreadLimit
  BY FS_Interval, BoundAssumption DEF Threads
<1>2. Adders \in SUBSET Threads /\ Adders' \in SUBSET Threads
  BY DEF Adders
<1> QED BY <1>1, <1>2, FS_Subset, FS_CardinalityType

\* A step that adds no entry and sends no thread to AddItem keeps the list short.
LEMMA ShorterList ==
    ASSUME DInv, image_details' \in Seq([name : {NULL, NAME}, ip : Addresses]),
           Len(image_details') <= Len(image_details), Adders' \subseteq Adders
    PROVE  ListIsShort' /\ Len(image_details') <= ThreadLimit
<1>1. Cardinality(Adders') <= Cardinality(Adders)
  BY AddersFinite, FS_Subset
<1> QED BY <1>1, AddersFinite, BoundAssumption DEF DInv, ListIsShort, TypeOK

\* A process that starts has an empty list and a closed socket.
LEMMA Ended ==
    ASSUME NEW how \in {"exited", "crashed"}, EndProcess(how)
    PROVE  DInv'
<1>1. TypeOK'
  BY BoundAssumption
     DEF EndProcess, TypeOK, Each, Addresses, Ports, CLOSED, SAVED, NULL, NoThread
<1>2. ListIsShort'
  BY AddersFinite, BoundAssumption DEF EndProcess, ListIsShort
<1> QED BY <1>1, <1>2
        DEF EndProcess, DInv, StoppedIsQuiet, AddressBeforeName, NamesAreKnown,
            NamedHasAddress, Each, NULL, NAME

\* onCreate and onResume.
LEMMA DInit == Init => DInv
<1> SUFFICES ASSUME Init PROVE DInv
  OBVIOUS
<1>1. TypeOK
  BY BoundAssumption
     DEF Init, TypeOK, Each, Addresses, Ports, CLOSED, SAVED, NULL, NoThread
<1>2. ListIsShort
  BY AddersFinite, BoundAssumption DEF Init, ListIsShort
<1> QED BY <1>1, <1>2
        DEF Init, DInv, StoppedIsQuiet, AddressBeforeName, NamesAreKnown,
            NamedHasAddress, Each, NULL, NAME
-----------------------------------------------------------------------------
\* The activity preserves DInv.
LEMMA ActivityStep ==
    ASSUME DInv, SearchStep \/ UserStep \/ Launch
    PROVE  DInv'
<1> USE DEF CLOSED, NULL, NAME, SAVED, ANSWERED
<1>1. CASE DelayPasses
  <2>1. TypeOK'
    BY <1>1, BoundAssumption DEF DelayPasses, DInv, TypeOK, network, threads, results
  <2>2. ListIsShort'
    BY <1>1 DEF DelayPasses, DInv, ListIsShort, Adders, threads, results
  <2> QED BY <1>1, <2>1, <2>2
          DEF DelayPasses, DInv, StoppedIsQuiet, AddressBeforeName, NamesAreKnown,
              NamedHasAddress, network, threads, results
<1>2. ASSUME NEW alert \in BOOLEAN, NEW s \in Threads, NEW r \in Threads,
             handleMessage(alert, s, r)
      PROVE  DInv'
  <2>1. TypeOK'
    <3>1. searches' \in 0 .. MaxSearches /\ due' \in 0 .. searches'
      BY <1>2, BoundAssumption DEF handleMessage, repost, DInv, TypeOK
    <3>2. /\ socket' \in Ports \cup {CLOSED} /\ port' \in Ports
          /\ inbox' \in Seq({"own", "reply"}) /\ Len(inbox') <= MaxInbox
      <4>1. \/ socket' = port /\ port' = 48899 /\ inbox' = <<>>
            \/ UNCHANGED <<socket, port, inbox>>
        BY <1>2 DEF handleMessage
      <4>2. Len(<<>>) <= MaxInbox /\ <<>> \in Seq({"own", "reply"})
        BY BoundAssumption
      <4>3. /\ socket \in Ports \cup {CLOSED} /\ port \in Ports
            /\ inbox \in Seq({"own", "reply"}) /\ Len(inbox) <= MaxInbox
        BY DEF DInv, TypeOK
      <4>4. 48899 \in Ports
        BY DEF Ports
      <4>5. CASE socket' = port /\ port' = 48899 /\ inbox' = <<>>
        BY <4>2, <4>3, <4>4, <4>5
      <4>6. CASE UNCHANGED <<socket, port, inbox>>
        BY <4>3, <4>6
      <4> QED BY <4>1, <4>5, <4>6
    <3>3. pc' \in [Threads -> {"idle", "drain", "send", "spawn", "run", "got", "name",
                               "check", "add"}]
      BY <1>2 DEF handleMessage, DInv, TypeOK
    <3>5. stop' \in [Threads -> BOOLEAN]
      <4>1. stop' = stopReceive
        BY <1>2 DEF handleMessage
      <4> QED BY <4>1 DEF stopReceive
    <3>4. UNCHANGED <<phase, net, packet, receiveData, results>>
      BY <1>2 DEF handleMessage
    <3> QED BY <3>1, <3>2, <3>3, <3>4, <3>5 DEF DInv, TypeOK, results
  <2>2. phase = "resumed" /\ UNCHANGED <<phase, results>>
    BY <1>2 DEF handleMessage, DInv, TypeOK, StoppedIsQuiet, alive
  <2>3. pc' = [pc EXCEPT ![s] = "drain", ![r] = "spawn"]
    BY <1>2 DEF handleMessage
  <2>4. Adders' \subseteq Adders /\ \A t \in Threads : pc'[t] = "name" => pc[t] = "name"
    BY <2>3 DEF Adders, DInv, TypeOK
  <2>5. ListIsShort'
    BY <2>2, <2>4, ShorterList DEF DInv, TypeOK, results
  <2> QED BY <2>1, <2>2, <2>4, <2>5
          DEF DInv, StoppedIsQuiet, AddressBeforeName, NamesAreKnown, NamedHasAddress, results
<1>3. CASE onStop
  <2>1. /\ phase' = "stopped" /\ searches' = 0 /\ due' = 0
        /\ socket' = CLOSED /\ inbox' = <<>> /\ stop' = stopReceive
        /\ UNCHANGED <<port, net, packet, receiveData, results>>
    BY <1>3 DEF onStop, close, removeMessages
  <2>2. PICK blocked \in SUBSET Spinning :
            pc' = [u \in Threads |-> IF u \in blocked THEN "send" ELSE pc[u]]
    BY <1>3 DEF onStop, close
  <2>3. TypeOK'
    <3>1. pc' \in [Threads -> {"idle", "drain", "send", "spawn", "run", "got", "name",
                               "check", "add"}]
      BY <2>2 DEF DInv, TypeOK
    <3>2. stop' \in [Threads -> BOOLEAN]
      BY <2>1 DEF stopReceive
    <3> QED BY <2>1, <3>1, <3>2, BoundAssumption DEF DInv, TypeOK, results
  <2>4. Adders' \subseteq Adders /\ \A u \in Threads : pc'[u] = "name" => pc[u] = "name"
    BY <2>2 DEF Adders
  <2>5. ListIsShort'
    BY <2>1, <2>4, ShorterList DEF DInv, TypeOK, results
  <2> QED BY <2>1, <2>3, <2>4, <2>5
          DEF DInv, StoppedIsQuiet, AddressBeforeName, NamesAreKnown, NamedHasAddress, results
<1>4. CASE startSearch
  <2>1. TypeOK'
    BY <1>4, BoundAssumption
       DEF startSearch, DInv, TypeOK, network, threads, results
  <2>2. ListIsShort'
    BY <1>4 DEF startSearch, DInv, ListIsShort, Adders, threads, results
  <2> QED BY <1>4, <2>1, <2>2
          DEF startSearch, DInv, StoppedIsQuiet, AddressBeforeName,
              NamesAreKnown, NamedHasAddress, network, threads, results
<1>5. CASE onRefresh
  <2>1. image_details' = <<>> /\ Len(image_details') = 0 /\ Adders' = Adders
    BY <1>5 DEF onRefresh, threads, Adders
  <2>2. ListIsShort' /\ Len(image_details') <= ThreadLimit
    BY <2>1, ShorterList DEF DInv, TypeOK
  <2>3. TypeOK'
    BY <1>5, <2>1, <2>2
       DEF onRefresh, DInv, TypeOK, activity, network, threads
  <2> QED BY <1>5, <2>1, <2>2, <2>3
          DEF onRefresh, DInv, StoppedIsQuiet, AddressBeforeName,
              NamesAreKnown, NamedHasAddress, activity, network, threads
<1>6. CASE exit
  BY <1>6, Ended DEF exit
<1>7. CASE Launch
  <2>1. TypeOK'
    BY <1>7, BoundAssumption
       DEF Launch, DInv, TypeOK, StoppedIsQuiet, network, threads, results
  <2>2. ListIsShort'
    BY <1>7 DEF Launch, DInv, ListIsShort, Adders, threads, results
  <2> QED BY <1>7, <2>1, <2>2
          DEF Launch, DInv, StoppedIsQuiet, AddressBeforeName,
              NamesAreKnown, NamedHasAddress, network, threads, results
<1> QED BY <1>1, <1>2, <1>3, <1>4, <1>5, <1>6, <1>7 DEF SearchStep, UserStep

\* A thread that moves on, or ends, without adding an entry, and stores at most
\* an address of this run and then the name, preserves DInv.
LEMMA ThreadMoves ==
    ASSUME DInv, TypeOK', NEW t \in Threads,
           NEW to \in {"idle", "send", "run", "got", "name", "check"},
           pc' = [pc EXCEPT ![t] = to],
           UNCHANGED <<phase, searches, socket, image_details>>,
           ipAddress' \in {ipAddress, ANSWERED},
           dataSource' \in {dataSource, NAME},
           to = "name" => ipAddress' = ANSWERED,
           dataSource' # dataSource => pc[t] = "name"
    PROVE  DInv'
<1>1. /\ \A u \in Threads : u # t => pc'[u] = pc[u]
      /\ pc'[t] = to
  BY DEF DInv, TypeOK
<1>2. ListIsShort'
  <2>1. Adders' \subseteq Adders
    BY <1>1 DEF Adders
  <2> QED BY <2>1, ShorterList DEF DInv, TypeOK
<1>3. AddressBeforeName'
  BY <1>1 DEF DInv, AddressBeforeName
<1> QED BY <1>2, <1>3 DEF DInv, StoppedIsQuiet, NamesAreKnown, NamedHasAddress

\* The threads of udpbroadcast preserve DInv.
LEMMA ThreadsStep ==
    ASSUME DInv, NEW t \in Threads, ThreadStep(t)
    PROVE  DInv'
<1> USE DEF CLOSED, NULL, NAME, SAVED, ANSWERED, NoThread
<1>0. /\ pc \in [Threads -> {"idle", "drain", "send", "spawn", "run", "got", "name", "check",
                         "add"}]
      /\ inbox \in Seq({"own", "reply"}) /\ Len(inbox) <= MaxInbox
      /\ MaxInbox \in Nat \ {0}
  BY BoundAssumption DEF DInv, TypeOK
<1>1. CASE Drain(t)
  <2>1. TypeOK'
    BY <1>0, <1>1 DEF Drain, DInv, TypeOK, activity, threads, results
  <2>2. ListIsShort'
    BY <1>1 DEF Drain, DInv, ListIsShort, Adders, threads, results
  <2> QED BY <1>1, <2>1, <2>2
          DEF Drain, DInv, StoppedIsQuiet, AddressBeforeName, NamesAreKnown,
              NamedHasAddress, activity, threads, results
<1>9. CASE SenderTimesOut(t)
  <2>1. /\ pc' = [pc EXCEPT ![t] = "send"]
        /\ UNCHANGED <<activity, network, packet, stop, receiveData, results>>
    BY <1>9 DEF SenderTimesOut, Go
  <2>2. TypeOK'
    BY <2>1 DEF DInv, TypeOK, activity, network, results
  <2> QED BY <2>1, <2>2, ThreadMoves DEF activity, network, results
<1>2. CASE Spawn(t)
  <2>1. inbox' \in Seq({"own", "reply"}) /\ Len(inbox') <= MaxInbox
    <3>1. CASE Len(inbox) < MaxInbox /\ inbox' = Append(inbox, "own")
      BY <1>0, <3>1
    <3>2. CASE inbox' = inbox
      BY <1>0, <3>2
    <3> QED BY <1>2, <3>1, <3>2 DEF Spawn
  <2>2. net' \subseteq Ports
    BY <1>2 DEF Spawn, BroadcastFrom, DInv, TypeOK
  <2>3. pc' = [pc EXCEPT ![t] = "run"] /\ stop' = [stop EXCEPT ![t] = FALSE]
        /\ receiveData' = t /\ UNCHANGED <<activity, socket, port, packet, results>>
    BY <1>2 DEF Spawn, Go
  <2>4. TypeOK'
    BY <2>1, <2>2, <2>3 DEF DInv, TypeOK, activity, results
  <2> QED BY <2>3, <2>4, ThreadMoves DEF activity, results
<1>3. CASE Receive(t)
  <2>1. /\ inbox' \in Seq({"own", "reply"}) /\ Len(inbox') <= MaxInbox
        /\ Head(inbox) \in {"own", "reply"}
    BY <1>0, <1>3 DEF Receive
  <2>2. /\ pc' = [pc EXCEPT ![t] = "got"] /\ packet' = [packet EXCEPT ![t] = Head(inbox)]
        /\ UNCHANGED <<activity, socket, port, net, stop, receiveData, results>>
    BY <1>3 DEF Receive, Go
  <2>3. TypeOK'
    BY <2>1, <2>2 DEF DInv, TypeOK, activity, results
  <2> QED BY <2>2, <2>3, ThreadMoves DEF activity, results
<1>4. CASE GiveUp(t)
  <2>1. /\ pc' = [pc EXCEPT ![t] = "idle"] /\ stop' = [stop EXCEPT ![t] = FALSE]
        /\ receiveData' \in {NoThread, receiveData}
        /\ UNCHANGED <<activity, network, packet, results>>
    BY <1>4 DEF GiveUp, End, Go
  <2>2. TypeOK'
    BY <2>1 DEF DInv, TypeOK, activity, network, results
  <2> QED BY <2>1, <2>2, ThreadMoves DEF activity, network, results
<1>5. CASE onReceived(t)
  <2>1. /\ packet' = [packet EXCEPT ![t] = "none"]
        /\ UNCHANGED <<activity, network, dataSource, image_details>>
        /\ \/ /\ pc' = [pc EXCEPT ![t] = "idle"] /\ stop' = [stop EXCEPT ![t] = FALSE]
              /\ receiveData' \in {NoThread, receiveData} /\ ipAddress' = ipAddress
           \/ /\ pc' = [pc EXCEPT ![t] = "name"] /\ ipAddress' = ANSWERED
              /\ UNCHANGED <<stop, receiveData>>
           \/ /\ pc' = [pc EXCEPT ![t] = "check"]
              /\ UNCHANGED <<stop, receiveData, ipAddress>>
    BY <1>5 DEF onReceived, End, Go, Answered
  <2>2. TypeOK'
    BY <2>1 DEF DInv, TypeOK, activity, network, Addresses
  <2> QED BY <2>1, <2>2, ThreadMoves DEF activity, network
<1>6. CASE parseReceiveData(t)
  <2>1. /\ pc[t] = "name" /\ pc' = [pc EXCEPT ![t] = "check"] /\ dataSource' = NAME
        /\ UNCHANGED <<activity, network, packet, stop, receiveData, ipAddress, image_details>>
    BY <1>6 DEF parseReceiveData, Go
  <2>2. TypeOK'
    BY <2>1 DEF DInv, TypeOK, activity, network
  <2> QED BY <2>1, <2>2, ThreadMoves DEF activity, network
<1>7. CASE IsExsits(t)
  <2>1. CASE Throws
    BY <1>7, <2>1, Ended DEF IsExsits
  <2>2. CASE ~Throws /\ Deciding # {}
    <3>1. /\ pc' = [pc EXCEPT ![t] = "idle"] /\ stop' = [stop EXCEPT ![t] = FALSE]
          /\ receiveData' \in {NoThread, receiveData}
          /\ UNCHANGED <<activity, network, packet, results>>
      BY <1>7, <2>2 DEF IsExsits, End, Go
    <3>2. TypeOK'
      BY <3>1 DEF DInv, TypeOK, activity, network, results
    <3> QED BY <3>1, <3>2, ThreadMoves DEF activity, network, results
  <2>3. CASE ~Throws /\ Deciding = {}
    <3>1. /\ pc' = [pc EXCEPT ![t] = "add"]
          /\ UNCHANGED <<activity, network, packet, stop, receiveData, results>>
      BY <1>7, <2>3 DEF IsExsits, Go
    <3>2. TypeOK'
      BY <3>1 DEF DInv, TypeOK, activity, network, results
    <3>3. Len(image_details) = 0
      <4>1. SUFFICES ASSUME Len(image_details) # 0 PROVE FALSE
        OBVIOUS
      <4>2. image_details \in Seq([name : {NULL, NAME}, ip : Addresses])
        BY DEF DInv, TypeOK
      <4>3. 1 \in 1 .. Len(image_details)
        <5>1. Len(image_details) \in Nat
          BY <4>2
        <5> QED BY <4>1, <5>1
      <4>4. image_details[1].name \in {NULL, NAME}
        <5> DEFINE E == [name : {NULL, NAME}, ip : Addresses]
        <5>1. image_details \in Seq(E)
          BY <4>2
        <5>2. image_details[1] \in E
          <6> HIDE DEF E
          <6> QED BY <4>3, <5>1
        <5> QED BY <5>2
      <4>5. image_details[1].name = NAME => dataSource = NAME
        BY <4>3 DEF DInv, NamesAreKnown
      <4>6. image_details[1].name \in {dataSource, NULL}
        BY <4>4, <4>5
      <4>7. 1 \in Deciding
        BY <4>3, <4>6 DEF Deciding
      <4> QED BY <2>3, <4>7
    <3>4. ListIsShort'
      BY <3>1, <3>3, AddersFinite, BoundAssumption DEF ListIsShort, results
    <3> QED BY <3>1, <3>2, <3>4
            DEF DInv, TypeOK, StoppedIsQuiet, AddressBeforeName, NamesAreKnown,
                NamedHasAddress, activity, network, results
  <2> QED BY <2>1, <2>2, <2>3
<1>8. CASE AddItem(t)
  <2> DEFINE entry == [name |-> dataSource, ip |-> ipAddress]
  <2>1. /\ pc[t] = "add" /\ pc' = [pc EXCEPT ![t] = "idle"]
        /\ stop' = [stop EXCEPT ![t] = FALSE]
        /\ receiveData' \in {NoThread, receiveData}
        /\ image_details' = Append(image_details, entry)
        /\ UNCHANGED <<activity, network, packet, ipAddress, dataSource>>
    BY <1>8 DEF AddItem, End, Go
  <2>2. /\ image_details \in Seq([name : {NULL, NAME}, ip : Addresses])
        /\ entry \in [name : {NULL, NAME}, ip : Addresses]
    BY DEF DInv, TypeOK
  <2> HIDE DEF entry
  <2>3. /\ image_details' \in Seq([name : {NULL, NAME}, ip : Addresses])
        /\ Len(image_details') = Len(image_details) + 1
        /\ \A i \in 1 .. Len(image_details') :
              image_details'[i] = IF i = Len(image_details') THEN entry ELSE image_details[i]
    BY <2>1, <2>2
  <2>4. ListIsShort'
    <3>1. Adders' = Adders \ {t} /\ t \in Adders
      BY <1>0, <2>1 DEF Adders
    <3>2. Cardinality(Adders') = Cardinality(Adders) - 1
      BY <3>1, AddersFinite, FS_RemoveElement
    <3> QED BY <2>2, <2>3, <3>2, AddersFinite, BoundAssumption DEF DInv, ListIsShort
  <2>5. Len(image_details') <= ThreadLimit
    BY <2>3, <2>4, AddersFinite, BoundAssumption DEF ListIsShort
  <2>6. TypeOK'
    BY <2>1, <2>3, <2>5 DEF DInv, TypeOK, activity, network
  <2>7. AddressBeforeName'
    BY <1>0, <2>1 DEF DInv, AddressBeforeName
  <2>8. \A i \in 1 .. Len(image_details') :
            i # Len(image_details') => i \in 1 .. Len(image_details)
    BY <2>2, <2>3
  <2>9. NamesAreKnown' /\ NamedHasAddress'
    BY <2>1, <2>3, <2>8 DEF DInv, NamesAreKnown, NamedHasAddress, AddressBeforeName, entry
  <2> QED BY <2>1, <2>4, <2>6, <2>7, <2>9 DEF DInv, StoppedIsQuiet, activity, network
<1> QED BY <1>1, <1>2, <1>3, <1>4, <1>5, <1>6, <1>7, <1>8, <1>9 DEF ThreadStep

\* An answer of the board preserves DInv.
LEMMA BoardStep ==
    ASSUME DInv, NEW p \in Ports, udp_server_recv(p)
    PROVE  DInv'
<1>1. inbox \in Seq({"own", "reply"}) /\ Len(inbox) <= MaxInbox /\ MaxInbox \in Nat
  BY BoundAssumption DEF DInv, TypeOK
<1>2. inbox' \in Seq({"own", "reply"}) /\ Len(inbox') <= MaxInbox
  BY <1>1 DEF udp_server_recv
<1>3. TypeOK'
  BY <1>2 DEF udp_server_recv, DInv, TypeOK, activity, threads, results
<1>4. ListIsShort'
  BY DEF udp_server_recv, DInv, ListIsShort, Adders, threads, results
<1> QED BY <1>3, <1>4
        DEF udp_server_recv, DInv, StoppedIsQuiet, AddressBeforeName, NamesAreKnown,
            NamedHasAddress, activity, threads, results

\* Every step of the client and of the board preserves DInv.
LEMMA DStep ==
    ASSUME DInv, [Next]_vars
    PROVE  DInv'
<1>1. CASE UNCHANGED vars
  BY <1>1
     DEF vars, activity, network, threads, results, DInv, TypeOK, StoppedIsQuiet,
         AddressBeforeName, NamesAreKnown, NamedHasAddress, ListIsShort, Adders
<1> QED BY <1>1, ActivityStep, ThreadsStep, BoardStep DEF Next

\* The inductive invariant holds in every state of every behaviour.
THEOREM DiscoveryInvariant == Spec => []DInv
BY DInit, DStep, PTL DEF Spec

\* The queue of searches, the socket and the list of gateways stay within their
\* bounds: however many searches are under way, a gateway is never listed more
\* often than there are threads.
THEOREM DiscoveryTypes == Spec => []TypeOK
<1>1. DInv => TypeOK
  BY DEF DInv
<1> QED BY DiscoveryInvariant, <1>1, PTL

\* A name in the list always stands beside an address that was answered.
THEOREM NamesHaveAddresses == Spec => []NamedHasAddress
<1>1. DInv => NamedHasAddress
  BY DEF DInv
<1> QED BY DiscoveryInvariant, <1>1, PTL

\* Nothing is broadcast while the activity is stopped, however many threads of
\* earlier searches empty a socket, spin on a closed one or are about to send.
THEOREM StoppedIsSilent == Spec => SilentWhenStopped
<1>1. ASSUME DInv, [Next]_vars
      PROVE  [phase = "stopped" => net' \subseteq net]_vars
  <2> SUFFICES ASSUME Next, phase = "stopped" PROVE net' \subseteq net
    BY <1>1
  <2>1. socket = CLOSED
    BY <1>1 DEF DInv, StoppedIsQuiet
  <2>2. ASSUME NEW t \in Threads, Spawn(t) PROVE net' \subseteq net
    BY <2>1, <2>2 DEF Spawn, BroadcastFrom
  <2>3. ASSUME NEW how, EndProcess(how) PROVE net' \subseteq net
    BY <2>3 DEF EndProcess
  <2> QED BY <2>2, <2>3
          DEF Next, SearchStep, UserStep, ThreadStep, DelayPasses, handleMessage, onStop, close,
              startSearch, onRefresh, exit, Launch, Drain, SenderTimesOut, Receive, GiveUp, onReceived,
              parseReceiveData, IsExsits, AddItem, udp_server_recv, network
<1> QED BY DiscoveryInvariant, <1>1, PTL DEF Spec, SilentWhenStopped
=============================================================================
