----------------------------- MODULE MainLoop ------------------------------
(***************************************************************************)
(* The main loop of eth_app.c: in each turn it polls the switching timer,  *)
(* then ethernet_task handles what has arrived and calls the periodic      *)
(* timers of lwIP (timers_update in ethernet.c).  Both timers read the counter *)
(* of SwitchTimer, each with a last time of its own.                       *)
(***************************************************************************)
EXTENDS SwitchTimer, Sequences

CONSTANT TimerIntervals     \* timer_interval of each entry of gs_timers_table

\* A turn of the loop is shorter than every interval, and the intervals are short
\* beside the 49 days after which the counter wraps.
ASSUME TableAssumption ==
    /\ TimerIntervals \in Seq(Nat)
    /\ \A i \in DOMAIN TimerIntervals : /\ MaxGap < TimerIntervals[i]
                                        /\ TimerIntervals[i] + MaxGap + 2 < WRAP

VARIABLES
    at,             \* where the loop is: "poll", "input", "timers"
    ul_last_time,
    gs_timers,      \* the timer field of each entry
    turn,           \* history: ms since timers_update last ran
    since           \* history: ms since each timer_func was last called, up to a bound

loopVars == <<at, ul_last_time, gs_timers, turn, since>>

Entries == DOMAIN TimerIntervals
Zero == [i \in Entries |-> 0]

\* A call is never later than this.
LatestCall(i) == TimerIntervals[i] + MaxGap + 2

LoopTypeOK ==
    /\ at \in {"poll", "input", "timers"}
    /\ ul_last_time \in 0 .. WRAP - 1
    /\ \A i \in Entries : gs_timers[i] \in 0 .. TimerIntervals[i]
    /\ turn \in 0 .. MaxGap
    /\ \A i \in Entries : since[i] \in 0 .. LatestCall(i) + 1

LoopInit ==
    /\ Init
    /\ at = "poll" /\ ul_last_time = 0 /\ gs_timers = Zero /\ turn = 0 /\ since = Zero

\* A millisecond passes.
Tick ==
    /\ TC0_Handler
    /\ turn < MaxGap
    /\ turn' = turn + 1
    /\ since' = [i \in Entries |-> IF since[i] > LatestCall(i) THEN since[i] ELSE since[i] + 1]
    /\ UNCHANGED <<at, ul_last_time, gs_timers>>

\* The poll of the switching timer, which may reset the board.
PollSwitching ==
    /\ at = "poll"
    /\ IF switching_timer_poll THEN switching_timer_update ELSE UNCHANGED vars
    /\ IF resets' # resets
       THEN at' = "poll" /\ ul_last_time' = 0 /\ gs_timers' = Zero /\ turn' = 0 /\ since' = Zero
       ELSE at' = "input" /\ UNCHANGED <<ul_last_time, gs_timers, turn, since>>

\* What has arrived is handled; it may be an EXEC.
ethernetif_input ==
    /\ at = "input"
    /\ switching_timer_start \/ UNCHANGED vars
    /\ at' = "timers"
    /\ UNCHANGED <<ul_last_time, gs_timers, turn, since>>

\* Mutant: what is left of the time is not taken off.
Keeps(t, i) == t

\* The timer after a call keeps what the call was late.
AfterCall(t, i) == t - TimerIntervals[i]

timers_update ==
    LET diff == time_diff(gs_ul_clk_tick, ul_last_time)
        t == [i \in Entries |-> add32(gs_timers[i], diff)]
        called == {i \in Entries : diff # 0 /\ t[i] > TimerIntervals[i]}
    IN /\ at = "timers"
       /\ ul_last_time' = IF diff = 0 THEN ul_last_time ELSE gs_ul_clk_tick
       /\ gs_timers' = [i \in Entries |-> IF i \in called THEN AfterCall(t[i], i) ELSE t[i]]
       /\ since' = [i \in Entries |-> IF i \in called THEN 0 ELSE since[i]]
       /\ turn' = 0
       /\ at' = "poll"
       /\ UNCHANGED vars

LoopNext == Tick \/ PollSwitching \/ ethernetif_input \/ timers_update

\* The interrupt keeps coming and the loop keeps turning.
LoopSpec ==
    /\ LoopInit /\ [][LoopNext]_<<vars, loopVars>>
    /\ WF_<<vars, loopVars>>(Tick)
    /\ WF_<<vars, loopVars>>(PollSwitching \/ ethernetif_input \/ timers_update)
-----------------------------------------------------------------------------
\* No timer of lwIP is late by more than a turn of the loop, the millisecond
\* by which its condition is strict and the one a wrap of the counter costs.
CallsInTime == \A i \in Entries : since[i] <= LatestCall(i)

\* Two calls of a timer are at least an interval less a turn apart: a late call
\* is made up for by the next one only, and never by a burst of calls.
CallsApart ==
    [][\A i \in Entries : since'[i] < since[i] /\ resets' = resets
            => since[i] >= TimerIntervals[i] - MaxGap]_<<vars, loopVars>>
=============================================================================
