-------------------------- MODULE DiscoveryTiming --------------------------
(***************************************************************************)
(* Discovery with the waiting times of udpbroadcast.java, for liveness.    *)
(*                                                                         *)
(* Every receive waits 200 ms, so that of two threads in it the one whose  *)
(* receive began first times out first.  That is what lets the answer of a *)
(* search get past the senders that empty the socket: the last of them to  *)
(* broadcast is alone with receivers.  A thread that spins on the closed   *)
(* socket may enter the receive of the new one after open() and before     *)
(* setSoTimeout(200): it waits without a limit for its next packet.        *)
(*                                                                         *)
(* The delay of a search, 1 s, is longer than its threads live on an open  *)
(* socket: two times 200 ms, and 200 ms more for each packet that a sender *)
(* throws away.  So the searches of the two chains come in rounds, one of  *)
(* each chain at most and at any distance, and the threads of a round have *)
(* ended, except those that wait without a limit, when the next begins.    *)
(* The user stops acting at some time, which is bounded by a number of     *)
(* steps; Discovery leaves the user free.                                  *)
(***************************************************************************)
EXTENDS Discovery

CONSTANT MaxUserSteps   \* what the user does before leaving the activity alone

VARIABLES
    older,      \* pairs of threads in receive, that which began first before the other
    untimed,    \* threads in receive without a limit
    userSteps   \* what the user has done

timing == <<older, untimed, userSteps>>
timedVars == <<vars, timing>>

TimedInit == Init /\ older = {} /\ untimed = {} /\ userSteps = 0

\* The threads in receive, if the socket is open: a pending call of receive.
Waiting == IF socket = CLOSED THEN {} ELSE {t \in Threads : pc[t] \in {"drain", "run"}}

\* The threads that were in receive on the closed socket when it was opened.
Waited == {t \in Threads : pc[t] \in {"drain", "run"}}

\* The receive of the threads in again, and of those that were in none, begins now.
Track(again) ==
    LET still == (Waiting \cap Waiting') \ again
        begin == Waiting' \ still
    IN /\ older' = (older \cap (still \X still)) \cup (still \X begin)
       /\ IF socket = CLOSED /\ socket' # CLOSED
          THEN untimed' \in SUBSET Waited
          ELSE untimed' = untimed \cap still

\* 200 ms have passed for t.
InTime(t) == t \notin untimed /\ \A u \in Threads : <<u, t>> \in older => u \in untimed

\* A step of t; if receive throws a timeout, its time has come.  A sender that
\* has taken a packet receives again.
TimedThreadStep(t) ==
    /\ ThreadStep(t)
    /\ t \in Waiting /\ pc'[t] \in {"send", "idle"} /\ ~stop[t] => InTime(t)
    /\ Track({t})

TimedSearchStep ==
    /\ SearchStep
    /\ due' > due /\ socket # CLOSED
        => due = 0 /\ \A t \in Threads : pc[t] = "idle" \/ t \in untimed
    /\ Track({})

TimedUserStep ==
    /\ UserStep
    /\ userSteps < MaxUserSteps
    /\ userSteps' = userSteps + 1
    /\ Track({})

TimedNext ==
    \/ TimedUserStep
    \/ /\ \/ TimedSearchStep
          \/ Launch /\ Track({})
          \/ \E t \in Threads : TimedThreadStep(t)
          \/ \E p \in Ports : udp_server_recv(p) /\ Track({})
       /\ UNCHANGED userSteps

\* An answer of the board that comes after the last search of a round, while a
\* receiver waits for it that was not told to stop, and no sender empties the
\* socket any more.
InTimeAnswer ==
    /\ due = 0 /\ \A t \in Threads : pc[t] # "drain"
    /\ \E t \in Threads, p \in Ports :
        pc[t] = "run" /\ ~stop[t] /\ socket = p /\ udp_server_recv(p)
    /\ Track({}) /\ UNCHANGED userSteps

\* The main thread and the others run, and an application that died is started
\* again.  Of the network: if again and again a receiver waits for the answer to
\* the last search of a round, an answer comes in time again and again.
TimedSpec ==
    /\ TimedInit /\ [][TimedNext]_timedVars
    /\ WF_timedVars(TimedSearchStep /\ UNCHANGED userSteps)
    /\ WF_timedVars(Launch /\ Track({}) /\ UNCHANGED userSteps)
    /\ \A t \in Threads : WF_timedVars(TimedThreadStep(t) /\ UNCHANGED userSteps)
    /\ SF_timedVars(InTimeAnswer)
-----------------------------------------------------------------------------
=============================================================================
