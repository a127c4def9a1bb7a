---------------------------- MODULE SwitchTimer ----------------------------
(***************************************************************************)
(* The delay between an accepted EXEC and code_switching: the switching    *)
(* timer at the end of upgrade.c, the millisecond counter of timer_mgt.c   *)
(* that it reads, and the main loop of eth_app.c that polls it.            *)
(*                                                                         *)
(* The counter is an unsigned 32-bit integer that wraps (WRAP = 2^32) and  *)
(* is advanced by the interrupt TC0_Handler between any two steps of the   *)
(* main loop.  switching_timer_update reads it once per turn of the loop,  *)
(* so a turn is one step.  The history variables elapsed and gap measure   *)
(* real time, which the code cannot see.                                   *)
(***************************************************************************)
EXTENDS Integers

CONSTANTS
    WRAP,       \* number of values of a uint32_t
    INTERVAL,   \* SWITCHING_INTERVAL: 3000 ms
    MaxGap,     \* a turn of the main loop takes at most this many ms
    MaxExecs    \* bound on the number of EXEC commands before a reset

\* The turns of the loop and the interval are short beside the 49 days after
\* which the counter wraps.
ASSUME TimerAssumption ==
    /\ WRAP \in Nat /\ INTERVAL \in Nat \ {0} /\ MaxGap \in Nat \ {0}
    /\ INTERVAL + MaxGap + 2 < WRAP
    /\ MaxExecs \in Nat

VARIABLES
    gs_ul_clk_tick,         \* ms since the start, modulo WRAP
    timer, last_time,       \* fields of switching_timer
    switching_timer_poll,   \* the pointer is set
    execs,                  \* EXEC commands accepted
    resets,                 \* parity of the resets code_switching has made
    elapsed,                \* history: ms since the last switching_timer_start
    gap                     \* history: ms since switching_timer_update last ran

vars == <<gs_ul_clk_tick, timer, last_time, switching_timer_poll, execs, resets, elapsed, gap>>

\* elapsed is counted up to here.
Late == INTERVAL + MaxGap + 2

TypeOK ==
    /\ gs_ul_clk_tick \in 0 .. WRAP - 1
    /\ timer \in 0 .. INTERVAL
    /\ last_time \in 0 .. WRAP - 1
    /\ switching_timer_poll \in BOOLEAN
    /\ execs \in 0 .. MaxExecs
    /\ resets \in {0, 1}
    /\ elapsed \in 0 .. Late
    /\ gap \in 0 .. MaxGap

Init ==
    /\ gs_ul_clk_tick = 0
    /\ timer = 0
    /\ last_time = 0
    /\ switching_timer_poll = FALSE
    /\ execs = 0
    /\ resets = 0
    /\ elapsed = 0
    /\ gap = 0
-----------------------------------------------------------------------------
TC0_Handler ==
    /\ gap < MaxGap
    /\ gs_ul_clk_tick' = IF gs_ul_clk_tick = WRAP - 1 THEN 0 ELSE gs_ul_clk_tick + 1
    /\ IF switching_timer_poll
       THEN gap' = gap + 1 /\ elapsed' = IF elapsed < Late THEN elapsed + 1 ELSE Late
       ELSE UNCHANGED <<gap, elapsed>>
    /\ UNCHANGED <<timer, last_time, switching_timer_poll, execs, resets>>

\* The EXEC command of handle_upgrade_packet.  A second EXEC starts the delay
\* again.
switching_timer_start ==
    /\ execs < MaxExecs
    /\ execs' = execs + 1
    /\ timer' = 0
    /\ last_time' = gs_ul_clk_tick
    /\ switching_timer_poll' = TRUE
    /\ elapsed' = 0
    /\ gap' = 0
    /\ UNCHANGED <<gs_ul_clk_tick, resets>>

\* Mutant: after a wrap only the time since the wrap is counted.
SinceWrap(cur, last) == IF cur >= last THEN cur - last ELSE cur

\* Mutant: no time has passed when the counter has wrapped.
IgnoresWrap(cur, last) == IF cur >= last THEN cur - last ELSE 0

\* After a wrap the code subtracts from 0xFFFFFFFF = WRAP - 1, not from WRAP.
time_diff(cur, last) == IF cur >= last THEN cur - last ELSE WRAP - 1 - last + cur

\* Unsigned addition.
add32(x, y) == IF x + y >= WRAP THEN x + y - WRAP ELSE x + y

\* Mutant: the timer fires one millisecond early.
ExpiresAt(t) == t >= INTERVAL

\* Mutant: the timer fires one millisecond late.
ExpiresAfter(t) == t > INTERVAL + 1

Expired(t) == t > INTERVAL

\* code_switching, called by the timer: NVIC_SystemReset starts the program
\* again from the beginning.
code_switching ==
    /\ gs_ul_clk_tick' = 0
    /\ timer' = 0
    /\ last_time' = 0
    /\ switching_timer_poll' = FALSE
    /\ execs' = 0
    /\ resets' = 1 - resets
    /\ elapsed' = 0
    /\ gap' = 0

switching_timer_update ==
    LET diff == time_diff(gs_ul_clk_tick, last_time)
        t == add32(timer, diff)
    IN /\ switching_timer_poll
       /\ IF diff # 0 /\ Expired(t)
          THEN code_switching
          ELSE /\ timer' = IF diff = 0 THEN timer ELSE t
               /\ last_time' = IF diff = 0 THEN last_time ELSE gs_ul_clk_tick
               /\ gap' = 0
               /\ UNCHANGED <<gs_ul_clk_tick, switching_timer_poll, execs, resets, elapsed>>

Next == TC0_Handler \/ switching_timer_start \/ switching_timer_update

Spec == Init /\ [][Next]_vars
-----------------------------------------------------------------------------
\* The gateway never resets before the announced delay has passed, so the
\* reply to EXEC has time to leave; a wrap of the counter does not matter.
NeverEarly == [][resets' # resets => elapsed > INTERVAL]_vars

\* A turn of the main loop that finds more than INTERVAL + 1 ms gone resets the
\* gateway: a wrap of the counter costs at most the one millisecond that
\* 0xFFFFFFFF is short of 2^32.
AtMostOneMsLate ==
    [][switching_timer_update /\ resets' = resets => elapsed <= INTERVAL + 1]_vars

\* An accepted EXEC is followed by a reset.
SwitchHappens == switching_timer_poll ~> ~switching_timer_poll
=============================================================================
