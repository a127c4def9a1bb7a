--------------------------- MODULE MainLoopProofs ---------------------------
(***************************************************************************)
(* Proofs about the main loop, for every table of lwIP timers.             *)
(*                                                                         *)
(* The argument.  As for the switching timer, let r be the milliseconds    *)
(* since ul_last_time was stored: those since timers_update last ran, or   *)
(* one more when it last ran exactly on a wrap of the counter.  For each   *)
(* timer of the table, timer + r is at least the real time since its last  *)
(* call, less one if the counter has wrapped since, and it has wrapped at  *)
(* most once.  And it is at most that real time plus what the call was     *)
(* late, which is less than a turn of the loop and what a wrap adds to it. *)
(***************************************************************************)
EXTENDS MainLoop, SwitchTimerProofs

\* The counter and the time since ul_last_time was stored: no wrap in between,
\* or one.
Clock(r) ==
    \/ r = turn /\ gs_ul_clk_tick = ul_last_time + r
    \/ /\ r = turn \/ (r = turn + 1 /\ ul_last_time = WRAP - 1)
       /\ r > 0
       /\ gs_ul_clk_tick = ul_last_time + r - WRAP

\* A timer of the table and the real time since its last call.
Counted(i, r) ==
    /\ \/ since[i] <= gs_timers[i] + r
       \/ /\ since[i] <= gs_timers[i] + r + 1
          /\ gs_ul_clk_tick = ul_last_time + r /\ r = turn
          /\ gs_ul_clk_tick < since[i]
    /\ gs_timers[i] + r <= since[i] + MaxGap + 1

\* The inductive invariant.
LInv ==
    /\ TypeOK
    /\ LoopTypeOK
    /\ \E r \in 0 .. MaxGap + 1 : Clock(r) /\ \A i \in Entries : Counted(i, r)
-----------------------------------------------------------------------------
\* What the table of timers holds.
LEMMA Table ==
    ASSUME NEW i \in Entries
    PROVE  /\ TimerIntervals[i] \in Nat
           /\ MaxGap < TimerIntervals[i] /\ TimerIntervals[i] + MaxGap + 2 < WRAP
           /\ LatestCall(i) = TimerIntervals[i] + MaxGap + 2
  BY TableAssumption DEF Entries, LatestCall

\* What LoopTypeOK and LInv say of one timer.
LEMMA OneTimer ==
    ASSUME LoopTypeOK, NEW i \in Entries
    PROVE  gs_timers[i] \in 0 .. TimerIntervals[i] /\ since[i] \in 0 .. LatestCall(i) + 1
  BY DEF LoopTypeOK

\* A call is never later than LatestCall.
LEMMA Punctual ==
    ASSUME LInv, NEW i \in Entries
    PROVE  since[i] <= LatestCall(i)
<1>1. PICK r \in 0 .. MaxGap + 1 : Clock(r) /\ Counted(i, r)
  BY DEF LInv
<1>2. turn \in 0 .. MaxGap
  BY DEF LInv, LoopTypeOK
<1> QED BY <1>1, <1>2, Table, OneTimer, TimerAssumption DEF LInv, Counted

\* The state after a start or a reset.
LEMMA FreshLoop ==
    ASSUME gs_ul_clk_tick = 0, ul_last_time = 0, gs_timers = Zero, turn = 0, since = Zero
    PROVE  /\ Clock(0) /\ \A i \in Entries : Counted(i, 0)
           /\ \A i \in Entries : /\ gs_timers[i] \in 0 .. TimerIntervals[i]
                                 /\ since[i] \in 0 .. LatestCall(i) + 1
<1>1. \A i \in Entries : gs_timers[i] = 0 /\ since[i] = 0
  BY DEF Zero
<1>2. Clock(0)
  BY DEF Clock
<1>3. \A i \in Entries : Counted(i, 0)
  BY <1>1, TimerAssumption DEF Counted
<1>4. \A i \in Entries : /\ gs_timers[i] \in 0 .. TimerIntervals[i]
                         /\ since[i] \in 0 .. LatestCall(i) + 1
  BY <1>1, Table, TimerAssumption
<1> QED BY <1>2, <1>3, <1>4

\* A millisecond passes.
LEMMA TickStep ==
    ASSUME LInv, Tick
    PROVE  LoopTypeOK' /\ \E r \in 0 .. MaxGap + 1 : Clock(r)' /\ \A i \in Entries : Counted(i, r)'
<1> USE TimerAssumption
<1>1. PICK r \in 0 .. MaxGap + 1 : Clock(r) /\ \A i \in Entries : Counted(i, r)
  BY DEF LInv
<1>2. /\ turn \in 0 .. MaxGap /\ turn < MaxGap /\ turn' = turn + 1
      /\ gs_ul_clk_tick' = IF gs_ul_clk_tick = WRAP - 1 THEN 0 ELSE gs_ul_clk_tick + 1
      /\ gs_ul_clk_tick \in 0 .. WRAP - 1 /\ ul_last_time \in 0 .. WRAP - 1
      /\ UNCHANGED <<at, ul_last_time, gs_timers>>
  BY DEF Tick, TC0_Handler, LInv, LoopTypeOK, TypeOK
<1>3. r + 1 \in 0 .. MaxGap + 1
  BY <1>1, <1>2 DEF Clock
<1>4. Clock(r + 1)'
  BY <1>1, <1>2 DEF Clock
<1>5. \A i \in Entries : since'[i] = since[i] + 1
  BY Punctual, OneTimer, Table DEF Tick, LInv
<1>6. ASSUME NEW i \in Entries
      PROVE  Counted(i, r + 1)' /\ since'[i] \in 0 .. LatestCall(i) + 1
  <2>1. /\ gs_timers[i] \in 0 .. TimerIntervals[i] /\ since[i] \in 0 .. LatestCall(i) + 1
        /\ since[i] <= LatestCall(i) /\ Counted(i, r)
        /\ LatestCall(i) \in Nat /\ LatestCall(i) < WRAP
        /\ TimerIntervals[i] \in Nat
    BY <1>1, OneTimer, Punctual, Table DEF LInv
  <2> QED BY <1>1, <1>2, <1>5, <2>1 DEF Counted, Clock
<1>7. LoopTypeOK'
  BY <1>2, <1>6 DEF LInv, LoopTypeOK
<1> QED BY <1>3, <1>4, <1>6, <1>7

\* What timers_update finds: the time that has passed, as far as its counter shows.
LEMMA TimeFound ==
    ASSUME TypeOK, LoopTypeOK, NEW r \in 0 .. MaxGap + 1, Clock(r)
    PROVE  LET diff == time_diff(gs_ul_clk_tick, ul_last_time)
           IN /\ diff \in 0 .. MaxGap + 1 /\ diff <= r
              /\ diff = r \/ (diff = r - 1 /\ gs_ul_clk_tick = ul_last_time + r - WRAP)
              /\ diff = r <=> gs_ul_clk_tick = ul_last_time + r
              /\ diff = 0 => r \in {0, 1}
              /\ r = 1 /\ diff = 0 => ul_last_time = WRAP - 1 /\ gs_ul_clk_tick = 0
BY TimerAssumption DEF TypeOK, LoopTypeOK, Clock, time_diff

\* The periodic timers of lwIP.
LEMMA TimersStep ==
    ASSUME LInv, timers_update
    PROVE  LoopTypeOK' /\ \E r \in 0 .. MaxGap + 1 : Clock(r)' /\ \A i \in Entries : Counted(i, r)'
<1> USE TimerAssumption
<1> DEFINE diff == time_diff(gs_ul_clk_tick, ul_last_time)
           t(i) == add32(gs_timers[i], diff)
<1>1. PICK r \in 0 .. MaxGap + 1 : Clock(r) /\ \A i \in Entries : Counted(i, r)
  BY DEF LInv
<1>2. /\ diff \in 0 .. MaxGap + 1 /\ diff <= r
      /\ diff = r \/ (diff = r - 1 /\ gs_ul_clk_tick = ul_last_time + r - WRAP)
      /\ diff = r <=> gs_ul_clk_tick = ul_last_time + r
      /\ diff = 0 => r \in {0, 1}
      /\ r = 1 /\ diff = 0 => ul_last_time = WRAP - 1 /\ gs_ul_clk_tick = 0
  BY <1>1, TimeFound DEF LInv
<1>3. /\ ul_last_time' = IF diff = 0 THEN ul_last_time ELSE gs_ul_clk_tick
      /\ \A i \in Entries : /\ gs_timers'[i] = IF diff # 0 /\ t(i) > TimerIntervals[i]
                                               THEN t(i) - TimerIntervals[i] ELSE t(i)
                            /\ since'[i] = IF diff # 0 /\ t(i) > TimerIntervals[i]
                                           THEN 0 ELSE since[i]
      /\ turn' = 0 /\ at' = "poll" /\ gs_ul_clk_tick' = gs_ul_clk_tick
  BY DEF timers_update, AfterCall, vars
<1>4. ASSUME NEW i \in Entries
      PROVE  t(i) = gs_timers[i] + diff
  BY <1>2, OneTimer, Table DEF LInv, add32
<1>5. gs_ul_clk_tick \in 0 .. WRAP - 1 /\ ul_last_time \in 0 .. WRAP - 1 /\ turn \in 0 .. MaxGap
  BY DEF LInv, LoopTypeOK, TypeOK
<1> HIDE DEF diff, t
<1>6. CASE diff = 0
  <2>1. ul_last_time' = ul_last_time /\ turn' = 0 /\ at' = "poll" /\ gs_ul_clk_tick' = gs_ul_clk_tick
    BY <1>3, <1>6
  <2>2. \A i \in Entries : gs_timers'[i] = gs_timers[i] /\ since'[i] = since[i]
    BY <1>3, <1>4, <1>6, OneTimer, Table DEF LInv
  <2>3. r = 0 \/ (r = 1 /\ ul_last_time = WRAP - 1 /\ gs_ul_clk_tick = 0)
    BY <1>2, <1>6
  <2>4. Clock(r)'
    BY <1>1, <2>1, <2>3, <1>5 DEF Clock
  <2>5. \A i \in Entries : Counted(i, r)'
    <3>1. ASSUME NEW i \in Entries
          PROVE  Counted(i, r)'
      <4>1. Counted(i, r)
        BY <1>1
      <4>2. gs_ul_clk_tick = ul_last_time + r => r = 0
        BY <1>5, <2>3
      <4> QED BY <2>1, <2>2, <4>1, <4>2 DEF Counted
    <3> QED BY <3>1
  <2>6. LoopTypeOK'
    BY <1>5, <2>1, <2>2 DEF LInv, LoopTypeOK
  <2> QED BY <2>4, <2>5, <2>6
<1>7. CASE diff # 0
  <2>1. ul_last_time' = gs_ul_clk_tick /\ turn' = 0 /\ at' = "poll" /\ gs_ul_clk_tick' = gs_ul_clk_tick
    BY <1>3, <1>7
  <2>2. Clock(0)' /\ 0 \in 0 .. MaxGap + 1
    BY <2>1, <1>5 DEF Clock
  <2>3. ASSUME NEW i \in Entries
        PROVE  /\ Counted(i, 0)'
               /\ gs_timers'[i] \in 0 .. TimerIntervals[i]
               /\ since'[i] \in 0 .. LatestCall(i) + 1
    <3>1. /\ gs_timers[i] \in 0 .. TimerIntervals[i] /\ since[i] \in 0 .. LatestCall(i) + 1
          /\ since[i] <= LatestCall(i)
          /\ LatestCall(i) \in Nat
          /\ TimerIntervals[i] \in Nat /\ MaxGap < TimerIntervals[i]
          /\ t(i) = gs_timers[i] + diff
      BY <1>1, <1>4, OneTimer, Punctual, Table DEF LInv
    <3>2. /\ \/ since[i] <= gs_timers[i] + diff
             \/ since[i] <= gs_timers[i] + diff + 1 /\ gs_ul_clk_tick < since[i]
          /\ gs_timers[i] + diff <= since[i] + MaxGap + 1
      <4>1. Counted(i, r)
        BY <1>1
      <4> QED BY <1>2, <1>5, <3>1, <4>1 DEF Counted
    <3>3. CASE t(i) > TimerIntervals[i]
      <4>1. gs_timers'[i] = t(i) - TimerIntervals[i] /\ since'[i] = 0
        BY <1>3, <1>7, <3>3
      <4>2. gs_timers'[i] \in 0 .. MaxGap + 1
        BY <1>2, <3>1, <3>3, <4>1
      <4> QED BY <2>1, <3>1, <4>1, <4>2 DEF Counted
    <3>4. CASE ~(t(i) > TimerIntervals[i])
      <4>1. gs_timers'[i] = t(i) /\ since'[i] = since[i]
        BY <1>3, <1>7, <3>4
      <4>2. gs_timers'[i] \in 0 .. TimerIntervals[i]
        BY <1>2, <3>1, <3>4, <4>1
      <4> QED BY <1>2, <1>5, <2>1, <3>1, <3>2, <4>1, <4>2 DEF Counted
    <3> QED BY <3>3, <3>4
  <2>4. LoopTypeOK'
    BY <1>5, <2>1, <2>3 DEF LInv, LoopTypeOK
  <2> QED BY <2>2, <2>3, <2>4
<1> QED BY <1>6, <1>7

\* Every step of the main loop is one of the switching timer, or leaves it alone.
LEMMA LoopStep == [LoopNext]_<<vars, loopVars>> => [Next]_vars
<1> SUFFICES ASSUME [LoopNext]_<<vars, loopVars>> PROVE Next \/ UNCHANGED vars
  OBVIOUS
<1>1. CASE Tick
  BY <1>1 DEF Tick, Next
<1>2. CASE PollSwitching
  BY <1>2 DEF PollSwitching, Next
<1>3. CASE ethernetif_input
  BY <1>3 DEF ethernetif_input, Next
<1>4. CASE timers_update
  BY <1>4 DEF timers_update
<1>5. CASE UNCHANGED <<vars, loopVars>>
  BY <1>5
<1> QED BY <1>1, <1>2, <1>3, <1>4, <1>5 DEF LoopNext

\* The switching timer is polled: a reset starts everything again.
LEMMA PollStep ==
    ASSUME LInv, PollSwitching
    PROVE  LoopTypeOK' /\ \E r \in 0 .. MaxGap + 1 : Clock(r)' /\ \A i \in Entries : Counted(i, r)'
<1> USE TimerAssumption
<1>1. CASE resets' # resets
  <2>1. gs_ul_clk_tick' = 0
    BY <1>1 DEF PollSwitching, switching_timer_update, code_switching, vars
  <2>2. at' = "poll" /\ ul_last_time' = 0 /\ gs_timers' = Zero /\ turn' = 0 /\ since' = Zero
    BY <1>1 DEF PollSwitching
  <2>3. \A i \in Entries : gs_timers'[i] = 0 /\ since'[i] = 0
    BY <2>2 DEF Zero
  <2>4. /\ Clock(0)' /\ \A i \in Entries : Counted(i, 0)'
        /\ \A i \in Entries : /\ gs_timers'[i] \in 0 .. TimerIntervals[i]
                              /\ since'[i] \in 0 .. LatestCall(i) + 1
    BY <2>1, <2>2, <2>3, Table DEF Clock, Counted
  <2>5. LoopTypeOK'
    BY <2>2, <2>4 DEF LoopTypeOK
  <2>6. 0 \in 0 .. MaxGap + 1
    OBVIOUS
  <2> QED BY <2>4, <2>5, <2>6
<1>2. CASE resets' = resets
  <2>1. gs_ul_clk_tick' = gs_ul_clk_tick
    <3>1. ~code_switching
      BY <1>2 DEF code_switching, LInv, TypeOK
    <3> QED BY <3>1 DEF PollSwitching, switching_timer_update, vars
  <2>2. at' = "input" /\ UNCHANGED <<ul_last_time, gs_timers, turn, since>>
    BY <1>2 DEF PollSwitching
  <2> QED BY <2>1, <2>2 DEF LInv, LoopTypeOK, Clock, Counted
<1> QED BY <1>1, <1>2

\* The counts of the loop and the real time stay in step.
LEMMA LoopSteps == TInv /\ LInv /\ [LoopNext]_<<vars, loopVars>> => TInv' /\ LInv'
<1> SUFFICES ASSUME TInv, LInv, [LoopNext]_<<vars, loopVars>> PROVE TInv' /\ LInv'
  OBVIOUS
<1>1. TInv' /\ TypeOK'
  BY LoopStep, StepTInv DEF TInv
<1>2. LoopTypeOK' /\ \E r \in 0 .. MaxGap + 1 : Clock(r)' /\ \A i \in Entries : Counted(i, r)'
  <2>1. CASE Tick
    BY <2>1, TickStep
  <2>2. CASE PollSwitching
    BY <2>2, PollStep
  <2>3. CASE ethernetif_input
    <3>1. gs_ul_clk_tick' = gs_ul_clk_tick
      BY <2>3 DEF ethernetif_input, switching_timer_start, vars
    <3>2. at' = "timers" /\ UNCHANGED <<ul_last_time, gs_timers, turn, since>>
      BY <2>3 DEF ethernetif_input
    <3> QED BY <3>1, <3>2 DEF LInv, LoopTypeOK, Clock, Counted
  <2>4. CASE timers_update
    BY <2>4, TimersStep
  <2>5. CASE UNCHANGED <<vars, loopVars>>
    BY <2>5 DEF vars, loopVars, LInv, LoopTypeOK, Clock, Counted
  <2> QED BY <2>1, <2>2, <2>3, <2>4, <2>5 DEF LoopNext
<1> QED BY <1>1, <1>2 DEF LInv

LEMMA LoopStart == LoopInit => TInv /\ LInv
<1> SUFFICES ASSUME LoopInit PROVE TInv /\ LInv
  OBVIOUS
<1>1. TInv
  BY InitTInv DEF LoopInit
<1>2. gs_ul_clk_tick = 0 /\ ul_last_time = 0 /\ gs_timers = Zero /\ turn = 0 /\ since = Zero
      /\ at = "poll"
  BY DEF LoopInit, Init
<1>3. 0 \in 0 .. MaxGap + 1 /\ 0 \in 0 .. MaxGap /\ 0 \in 0 .. WRAP - 1
  BY TimerAssumption
<1>4. LoopTypeOK
  BY <1>2, <1>3, FreshLoop DEF LoopTypeOK
<1>5. Clock(0) /\ \A i \in Entries : Counted(i, 0)
  BY <1>2, FreshLoop
<1> QED BY <1>1, <1>3, <1>4, <1>5 DEF LInv, TInv

\* The invariant of the main loop, beside that of the switching timer.
THEOREM LoopInvariant == LoopSpec => [](TInv /\ LInv)
  BY LoopStart, LoopSteps, PTL DEF LoopSpec

\* The values that timers_update keeps stay below their intervals: its 32-bit
\* sums never overflow.
THEOREM LoopTypes == LoopSpec => []LoopTypeOK
<1>1. LInv => LoopTypeOK
  BY DEF LInv
<1> QED BY <1>1, LoopInvariant, PTL

\* timers_update never calls a timer of lwIP more than a turn of the loop and two
\* milliseconds late, whenever the counter wraps.
THEOREM TimersInTime == LoopSpec => []CallsInTime
<1>1. LInv => CallsInTime
  BY Punctual DEF CallsInTime
<1> QED BY <1>1, LoopInvariant, PTL

\* timers_update never calls a timer in a burst: two calls are an interval apart,
\* less at most a turn of the loop.
THEOREM TimersApart == LoopSpec => CallsApart
<1>1. ASSUME LInv, [LoopNext]_<<vars, loopVars>>
      PROVE  [\A i \in Entries : since'[i] < since[i] /\ resets' = resets
                => since[i] >= TimerIntervals[i] - MaxGap]_<<vars, loopVars>>
  <2> SUFFICES ASSUME LoopNext, NEW i \in Entries, since'[i] < since[i], resets' = resets
               PROVE  since[i] >= TimerIntervals[i] - MaxGap
    BY <1>1
  <2>1. since[i] \in Nat /\ TimerIntervals[i] \in Nat /\ gs_timers[i] \in 0 .. TimerIntervals[i]
    BY <1>1, OneTimer, Table DEF LInv
  <2>2. CASE Tick
    <3>1. since'[i] \in {since[i], since[i] + 1}
      BY <2>2 DEF Tick
    <3> QED BY <2>1, <3>1
  <2>3. CASE PollSwitching \/ ethernetif_input
    <3>1. since'[i] = since[i]
      BY <2>3 DEF PollSwitching, ethernetif_input
    <3> QED BY <2>1, <3>1
  <2>4. CASE timers_update
    <3> DEFINE diff == time_diff(gs_ul_clk_tick, ul_last_time)
               t == add32(gs_timers[i], diff)
    <3>1. t > TimerIntervals[i]
      <4>1. since'[i] = IF diff # 0 /\ t > TimerIntervals[i] THEN 0 ELSE since[i]
        BY <2>4 DEF timers_update
      <4> HIDE DEF diff, t
      <4> QED BY <2>1, <4>1
    <3>2. PICK r \in 0 .. MaxGap + 1 : Clock(r) /\ Counted(i, r)
      BY <1>1 DEF LInv
    <3>3. diff \in 0 .. MaxGap + 1 /\ diff <= r
      BY <1>1, <3>2, TimeFound DEF LInv
    <3>4. t = gs_timers[i] + diff
      BY <2>1, <3>3, Table, TimerAssumption DEF add32
    <3> HIDE DEF diff, t
    <3> QED BY <2>1, <3>1, <3>2, <3>3, <3>4, TimerAssumption DEF Counted
  <2> QED BY <2>2, <2>3, <2>4 DEF LoopNext
<1> QED BY <1>1, LoopInvariant, PTL DEF LoopSpec, CallsApart

\* Within the main loop, beside the timers of lwIP and the input of frames, the
\* switching timer makes the steps of its own specification only.
THEOREM LoopImplementsTimer == LoopSpec => Spec
<1>1. LoopInit => Init
  BY DEF LoopInit
<1> QED BY <1>1, LoopStep, PTL DEF LoopSpec, Spec

\* So the main loop never resets the gateway before the delay is over, and the
\* turn that finds it over does.
THEOREM LoopNeverEarly == LoopSpec => NeverEarly /\ AtMostOneMsLate
  BY LoopImplementsTimer, NoEarlySwitch, NoLateSwitch, PTL
=============================================================================
