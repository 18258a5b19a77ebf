----------------------------- MODULE TicksProofs -----------------------------
(***************************************************************************)
(* The comparisons of the wrapping tick count are right for every width of *)
(* TickType_t: each of them compares the ticks that have passed with the   *)
(* ticks to wait.                                                          *)
(***************************************************************************)
EXTENDS Ticks, TLAPS

LEMMA PlusType ==
    ASSUME NEW a \in TickType, NEW b \in TickType
    PROVE  Plus(a, b) \in TickType
BY TicksAssumption DEF Plus, TickType

LEMMA MinusType ==
    ASSUME NEW a \in TickType, NEW b \in TickType
    PROVE  Minus(a, b) \in TickType
BY TicksAssumption DEF Minus, TickType

LEMMA MinusPlus ==
    ASSUME NEW a \in TickType, NEW b \in TickType
    PROVE  Minus(Plus(a, b), a) = b
BY TicksAssumption DEF Plus, Minus, TickType

(* vTaskDelayUntil delays exactly when fewer ticks than the increment have   *)
(* passed since the previous wake time, wherever the count wraps.            *)
THEOREM ShouldDelayIsElapsed ==
    ASSUME NEW prev \in TickType, NEW now \in TickType, NEW inc \in TickType \ {0}
    PROVE  xShouldDelay(prev, now, inc) <=> Minus(now, prev) < inc
<1> USE TicksAssumption DEF TickType
<1>1. CASE now < prev
  BY <1>1 DEF xShouldDelay, Plus, Minus
<1>2. CASE now >= prev
  BY <1>2 DEF xShouldDelay, Plus, Minus
<1> QED BY <1>1, <1>2

(* prvInsertTimerInActiveList finds a timer expired exactly when its period  *)
(* has passed since the command was sent, or since it was last due.          *)
THEOREM TimerExpiredIsElapsed ==
    ASSUME NEW command \in TickType, NEW now \in TickType, NEW period \in TickType \ {0}
    PROVE  TimerExpired(now, command, period) <=> Minus(now, command) >= period
<1> USE TicksAssumption DEF TickType
<1>1. CASE now < command
  BY <1>1 DEF TimerExpired, Plus, Minus
<1>2. CASE now >= command
  BY <1>2 DEF TimerExpired, Plus, Minus
<1> QED BY <1>1, <1>2

=============================================================================
