------------------------------- MODULE Ticks -------------------------------
(***************************************************************************)
(* Arithmetic on the tick count, which wraps: the comparisons that tasks.c *)
(* and timers.c make on it.                                                *)
(***************************************************************************)
EXTENDS Integers

CONSTANT TICKS      \* the values of TickType_t: 2^32 on the device

ASSUME TicksAssumption == TICKS \in Nat /\ TICKS >= 3

TickType == 0 .. TICKS - 1

portMAX_DELAY == TICKS - 1

Plus(a, b) == IF a + b >= TICKS THEN a + b - TICKS ELSE a + b
Minus(a, b) == IF a >= b THEN a - b ELSE a - b + TICKS

(* vTaskDelayUntil: is the next wake time, prev + inc, still to come? *)
xShouldDelay(prev, now, inc) ==
    LET wake == Plus(prev, inc)
    IN  IF now < prev THEN wake < prev /\ wake > now
                      ELSE wake < prev \/ wake > now

\* Mutant: the comparison that ignores the wrap.
TimerExpiredNaive(now, command, period) == Plus(command, period) <= now

(* prvInsertTimerInActiveList: had a timer of this period, started or due at  *)
(* `command', already expired?                                               *)
TimerExpired(now, command, period) ==
    LET next == Plus(command, period)
    IN  IF next <= now THEN Minus(now, command) >= period
                       ELSE now < command /\ next >= command

=============================================================================
