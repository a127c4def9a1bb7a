------------------------- MODULE SwitchTimerProofs -------------------------
(***************************************************************************)
(* Proofs about the switching timer, for every width of the counter, every *)
(* interval and every latency of the main loop that TimerAssumption allows.*)
(*                                                                         *)
(* The argument.  Let r be the milliseconds since last_time was stored.    *)
(* While the timer runs, timer + r is the real time since the start, less  *)
(* one if an update has already crossed a wrap of the counter; and the     *)
(* counter cannot wrap a second time before the timer fires.  r is the     *)
(* time since the last update, or one more when that update fell exactly   *)
(* on the wrap: the code then computes a difference of 0 and leaves        *)
(* last_time at WRAP - 1.                                                  *)
(***************************************************************************)
EXTENDS SwitchTimer, TLAPS

\* Real time, as the timer has it: no wrap since last_time was stored, a wrap
\* since then, or a wrap before it.
InStep(r) ==
    \/ /\ r = gap
       /\ timer + r = elapsed
       /\ gs_ul_clk_tick = last_time + r
    \/ /\ r = gap \/ (r = gap + 1 /\ last_time = WRAP - 1)
       /\ r > 0
       /\ timer + r = elapsed
       /\ gs_ul_clk_tick = last_time + r - WRAP
    \/ /\ r = gap
       /\ timer + r + 1 = elapsed
       /\ gs_ul_clk_tick = last_time + r
       /\ gs_ul_clk_tick < elapsed

\* The inductive invariant.
TInv ==
    /\ TypeOK
    /\ switching_timer_poll => \E r \in 0 .. MaxGap + 1 : InStep(r)

\* The initial state of the timer, the counter and the real time is in step.
LEMMA InitTInv == Init => TInv
<1> SUFFICES ASSUME Init PROVE TInv
  OBVIOUS
<1>1. /\ gs_ul_clk_tick = 0 /\ timer = 0 /\ last_time = 0 /\ execs = 0
      /\ resets = 0 /\ elapsed = 0 /\ gap = 0
  BY DEF Init
<1>2. ~switching_timer_poll /\ switching_timer_poll \in BOOLEAN
  BY Zenon DEF Init
<1>3. TypeOK
  BY <1>1, <1>2, TimerAssumption DEF TypeOK, Late
<1> QED BY <1>2, <1>3 DEF TInv

\* The real time never reaches Late while the timer runs.
LEMMA NeverLate ==
    ASSUME TInv, switching_timer_poll
    PROVE  elapsed < Late
  BY TimerAssumption DEF TInv, TypeOK, InStep, Late

\* What an update adds up to, and how far from the real time it may be.
LEMMA Update ==
    ASSUME TInv, switching_timer_poll
    PROVE  LET diff == time_diff(gs_ul_clk_tick, last_time)
               t == add32(timer, diff)
           IN /\ diff \in 0 .. MaxGap + 1
              /\ t = timer + diff
              /\ t \in elapsed - 1 .. elapsed
<1>1. PICK r \in 0 .. MaxGap + 1 : InStep(r)
  BY DEF TInv
<1> QED BY <1>1, TimerAssumption DEF TInv, TypeOK, InStep, time_diff, add32

\* A tick, an EXEC and a poll of the main loop keep them in step.
LEMMA StepTInv == TInv /\ [Next]_vars => TInv'
<1> SUFFICES ASSUME TInv, [Next]_vars PROVE TInv'
  OBVIOUS
<1> USE TimerAssumption
<1>1. CASE TC0_Handler
  <2>1. CASE switching_timer_poll
    <3>1. PICK r \in 0 .. MaxGap + 1 : InStep(r)
      BY <2>1 DEF TInv
    <3>2. elapsed' = elapsed + 1 /\ gap' = gap + 1 /\ gap' \in 0 .. MaxGap
      BY <1>1, <2>1, NeverLate DEF TC0_Handler, TInv, TypeOK, Late
    <3>3. r + 1 \in 0 .. MaxGap + 1 /\ InStep(r + 1)'
      BY <1>1, <3>1, <3>2, NeverLate, <2>1 DEF TC0_Handler, InStep, TInv, TypeOK, Late
    <3>4. TypeOK'
      BY <1>1, <2>1, <3>2, NeverLate DEF TC0_Handler, TInv, TypeOK, Late
    <3> QED BY <3>3, <3>4 DEF TInv
  <2>2. CASE ~switching_timer_poll
    BY <1>1, <2>2 DEF TC0_Handler, TInv, TypeOK
  <2> QED BY <2>1, <2>2
<1>2. CASE switching_timer_start
  <2>1. TypeOK'
    BY <1>2 DEF switching_timer_start, TInv, TypeOK, Late
  <2>2. InStep(0)'
    BY <1>2 DEF switching_timer_start, TInv, TypeOK, InStep
  <2> QED BY <2>1, <2>2 DEF TInv
<1>3. CASE switching_timer_update
  <2> DEFINE diff == time_diff(gs_ul_clk_tick, last_time)
             t == add32(timer, diff)
  <2>0. switching_timer_poll
    BY <1>3 DEF switching_timer_update
  <2>1. CASE code_switching
    <3>1. /\ gs_ul_clk_tick' = 0 /\ timer' = 0 /\ last_time' = 0 /\ execs' = 0
          /\ resets' = 1 - resets /\ elapsed' = 0 /\ gap' = 0
      BY <2>1 DEF code_switching
    <3>2. ~switching_timer_poll' /\ switching_timer_poll' \in BOOLEAN
      BY <2>1, Zenon DEF code_switching
    <3>3. TypeOK'
      BY <3>1, <3>2 DEF TInv, TypeOK, Late
    <3> QED BY <3>2, <3>3 DEF TInv
  <2>2. CASE /\ ~(diff # 0 /\ Expired(t))
             /\ timer' = IF diff = 0 THEN timer ELSE t
             /\ last_time' = IF diff = 0 THEN last_time ELSE gs_ul_clk_tick
             /\ gap' = 0
             /\ UNCHANGED <<gs_ul_clk_tick, switching_timer_poll, execs, resets, elapsed>>
    <3>1. diff \in 0 .. MaxGap + 1 /\ t = timer + diff
      BY <2>0, Update
    <3>2. TypeOK'
      <4> HIDE DEF diff, t
      <4> QED BY <2>2, <3>1 DEF TInv, TypeOK, Expired, Late
    <3>3. PICK r \in 0 .. MaxGap + 1 : InStep(r)
      BY <2>0 DEF TInv
    <3>4. CASE diff = 0
      <4>1. InStep(0)' \/ InStep(1)'
        BY <2>2, <3>3, <3>4 DEF InStep, TInv, TypeOK, time_diff
      <4> QED BY <4>1, <3>2 DEF TInv
    <3>5. CASE diff # 0
      <4>1. InStep(0)'
        BY <2>2, <3>1, <3>3, <3>5 DEF InStep, TInv, TypeOK, time_diff
      <4> QED BY <4>1, <3>2 DEF TInv
    <3> QED BY <3>4, <3>5
  <2> QED BY <1>3, <2>1, <2>2 DEF switching_timer_update
<1>4. CASE UNCHANGED vars
  BY <1>4 DEF vars, TInv, TypeOK, InStep
<1> QED BY <1>1, <1>2, <1>3, <1>4 DEF Next

\* The timer, its clock and the real time stay in step.
THEOREM TimerInvariant == Spec => []TInv
  BY InitTInv, StepTInv, PTL DEF Spec

\* The values of the timer stay below the interval: the 32-bit sum never
\* overflows.
THEOREM TimerTypes == Spec => []TypeOK
<1>1. TInv => TypeOK
  BY DEF TInv
<1> QED BY <1>1, TimerInvariant, PTL

\* The gateway never resets before INTERVAL ms have passed since the last EXEC.
THEOREM NoEarlySwitch == Spec => NeverEarly
<1>1. ASSUME TInv, [Next]_vars
      PROVE  [resets' # resets => elapsed > INTERVAL]_vars
  <2> SUFFICES ASSUME Next, resets' # resets PROVE elapsed > INTERVAL
    BY <1>1 DEF vars
  <2>1. switching_timer_update
    BY DEF Next, TC0_Handler, switching_timer_start
  <2>2. Expired(add32(timer, time_diff(gs_ul_clk_tick, last_time))) /\ switching_timer_poll
    BY <2>1 DEF switching_timer_update
  <2> QED BY <1>1, <2>2, Update, TimerAssumption DEF Expired, TInv, TypeOK
<1> QED BY <1>1, TimerInvariant, PTL DEF Spec, NeverEarly

\* A turn of the main loop that finds more than INTERVAL + 1 ms gone resets.
THEOREM NoLateSwitch == Spec => AtMostOneMsLate
<1>1. ASSUME TInv, [Next]_vars
      PROVE  [switching_timer_update /\ resets' = resets => elapsed <= INTERVAL + 1]_vars
  <2> SUFFICES ASSUME switching_timer_update, resets' = resets PROVE elapsed <= INTERVAL + 1
    OBVIOUS
  <2> DEFINE diff == time_diff(gs_ul_clk_tick, last_time)
             t == add32(timer, diff)
  <2>0. ~code_switching
    BY <1>1 DEF code_switching, TInv, TypeOK
  <2>1. switching_timer_poll /\ (diff = 0 \/ ~Expired(t))
    BY <2>0, Zenon DEF switching_timer_update
  <2>2. diff \in 0 .. MaxGap + 1 /\ t = timer + diff /\ t \in elapsed - 1 .. elapsed
    BY <1>1, <2>1, Update
  <2> HIDE DEF diff, t
  <2> QED BY <1>1, <2>1, <2>2, TimerAssumption DEF Expired, TInv, TypeOK
<1> QED BY <1>1, TimerInvariant, PTL DEF Spec, AtMostOneMsLate
=============================================================================
