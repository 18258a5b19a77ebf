------------------------------ MODULE EtsTimer ------------------------------
(***************************************************************************)
(* The software timers of open_esplibs/libmain/ets_timer.c: a linked list  *)
(* of pending timers ordered by expiry, one hardware alarm (FRC2) set for  *)
(* the head of the list, an interrupt handler that notifies the timer      *)
(* task, and the timer task, which pops expired timers and runs their      *)
(* callbacks outside the critical section.  Application tasks and the      *)
(* callbacks themselves arm and disarm timers.                             *)
(*                                                                         *)
(* Pointers are kept (head, next) so that a corrupted list can be told     *)
(* from a good one.  Time is the 32-bit counter FRC2.COUNT, here modulo W. *)
(* left is a history variable: the ticks of real time until the timer is   *)
(* due, negative when it is late.                                          *)
(***************************************************************************)
EXTENDS Integers, FiniteSets, FiniteSetsExt

CONSTANTS Timers,        \* the ets_timer_t objects
          Tasks,         \* application tasks
          Owner,         \* the task that arms and disarms each timer
          SelfArm,       \* the timers whose callback arms or disarms them too
          End,           \* ETS_TIMER_LIST_END
          NotArmed,      \* ETS_TIMER_NOT_ARMED
          TimerTask,     \* the task that runs timer_task
          W,             \* modulus of FRC2.COUNT (2^32 in the hardware)
          MARGIN, SLACK, \* the 40 and the 44 of set_alarm
          Delays,        \* the delays callers ask for, in ticks
          MaxLag,        \* ticks the timer task may take to become idle again
          WrapCompare,   \* TRUE: a signed overflow in a comparison wraps;
                         \* FALSE: a - b < 1 is compiled to a <= b
          Preempt        \* TRUE: application tasks run while a callback does

VARIABLES count,     \* FRC2.COUNT
          alarm,     \* FRC2.ALARM
          head,      \* timer_list
          next,      \* next of every timer
          fire,      \* fire_ticks of every timer
          period,    \* period_ticks of every timer
          notified,  \* the timer task has a pending notification
          tt,        \* where the timer task is: "wait", "scan" or "callback"
          cb,        \* the timer whose callback runs
          call,      \* what each caller is doing
          halted,    \* a while(1) was reached
          lag,       \* ticks since the timer task has had work
          left       \* history: ticks until each timer is due

list == <<head, next, fire, alarm>>
vars == <<count, alarm, head, next, fire, period, notified, tt, cb, call,
          halted, lag, left>>

Callers == Tasks \cup {TimerTask}
Idle == [at |-> "idle"]
MaxDelay == Max(Delays)

ASSUME TimingAssumption ==
    /\ W \in Nat /\ W % 2 = 0 /\ MARGIN \in Nat \ {0} /\ SLACK >= MARGIN
    /\ Delays \subseteq 0 .. (W \div 2 - 1)
    /\ 2 * (MaxDelay + SLACK + MaxLag) < W

\* (int32_t)x of a counter value
Signed(x) == LET m == x % W IN IF m < W \div 2 THEN m ELSE m - W

\* ((int32_t)a - (int32_t)b) < 1
NotAfter(a, b) ==
    IF WrapCompare THEN Signed(a - b) < 1 ELSE Signed(a) <= Signed(b)

\* Fault: the alarm is set to the expiry even when that is now or past.
AlarmAtExpiry(ticks) == ticks

\* The value set_alarm(ticks) writes to FRC2.ALARM
AlarmFor(ticks) ==
    LET delta == Signed(ticks - count)
    IN  IF delta > MARGIN THEN ticks
        ELSE IF delta < 1 THEN (count + MARGIN) % W
        ELSE (ticks + SLACK) % W

\* The n-th pointer of the walk that starts at timer_list
Walk ==
    LET node[n \in 0 .. Cardinality(Timers)] ==
            IF n = 0 THEN head
            ELSE IF node[n - 1] \in Timers THEN next[node[n - 1]] ELSE node[n - 1]
    IN  node

InList(t) == \E n \in DOMAIN Walk : Walk[n] = t

\* add_pending_timer(ticks, t), inside a critical section
add_pending_timer(ticks, t) ==
    LET at == Min({n \in DOMAIN Walk :
                      Walk[n] = End \/ NotAfter(ticks, fire[Walk[n]])})
        curr == Walk[at]
    IN  /\ fire' = [fire EXCEPT ![t] = ticks]
        /\ IF at = 0
           THEN /\ next' = [next EXCEPT ![t] = curr]
                /\ head' = t
                /\ alarm' = AlarmFor(ticks)
           ELSE /\ next' = [[next EXCEPT ![t] = curr] EXCEPT ![Walk[at - 1]] = t]
                /\ UNCHANGED <<head, alarm>>
        /\ halted' = (next'[t] = t)

Init ==
    /\ count = 0 /\ alarm = 0 /\ head = End
    /\ next = [t \in Timers |-> NotArmed]
    /\ fire = [t \in Timers |-> 0]
    /\ period = [t \in Timers |-> 0]
    /\ notified = FALSE /\ tt = "wait" /\ cb = End
    /\ call = [p \in Callers |-> Idle]
    /\ halted = FALSE /\ lag = 0
    /\ left = [t \in Timers |-> 0]

-----------------------------------------------------------------------------
(* Hardware: the counter runs; when it meets the alarm frc2_isr notifies   *)
(* the timer task.  The timer task becomes idle within MaxLag ticks.       *)

Busy == notified \/ tt # "wait"

\* The timers whose expiry still matters
Live == {t \in Timers : next[t] # NotArmed \/ cb = t}

frc2_isr == notified' = (notified \/ count' = alarm)

Tick ==
    /\ Busy => lag < MaxLag
    /\ count' = (count + 1) % W
    /\ frc2_isr
    /\ lag' = IF Busy THEN lag + 1 ELSE 0
    /\ left' = [t \in Timers |-> IF t \in Live THEN left[t] - 1 ELSE left[t]]
    /\ UNCHANGED <<list, period, tt, cb, call, halted>>

-----------------------------------------------------------------------------
(* Callers.  A task disarms its timer, may set its function, and arms it,  *)
(* as tests/cases/06_timers.c does; a callback may arm or disarm its own   *)
(* timer.  The test of next and the write of period_ticks happen before    *)
(* the critical section in which the timer is added.                       *)

MayCall(p, t) ==
    IF p = TimerTask THEN tt = "callback" /\ cb = t /\ t \in SelfArm
    ELSE /\ Owner[t] = p
         /\ tt = "wait" \/ (tt = "callback" /\ Preempt)

\* Fault: the link of the timer before t is not moved past t.
UnlinkedHeadOnly(t) == [next EXCEPT ![t] = NotArmed]

\* The links once t is out of the list and marked ETS_TIMER_NOT_ARMED
Unlinked(t) ==
    [u \in Timers |-> IF u = t THEN NotArmed
                      ELSE IF InList(u) /\ next[u] = t THEN next[t]
                      ELSE next[u]]

sdk_ets_timer_disarm(p, t) ==
    /\ MayCall(p, t) /\ call[p] = Idle
    /\ head' = IF head = t THEN next[t] ELSE head
    /\ next' = Unlinked(t)
    /\ period' = [period EXCEPT ![t] = 0]
    /\ left' = [left EXCEPT ![t] = 0]
    /\ call' = [call EXCEPT ![p] = [at |-> "disarmed", timer |-> t]]
    /\ UNCHANGED <<count, alarm, fire, notified, tt, cb, halted, lag>>

sdk_ets_timer_setfn(p, t) ==
    /\ MayCall(p, t) /\ call[p] = [at |-> "disarmed", timer |-> t]
    /\ fire' = [fire EXCEPT ![t] = 0]
    /\ period' = [period EXCEPT ![t] = 0]
    /\ next' = [next EXCEPT ![t] = NotArmed]
    /\ UNCHANGED <<count, alarm, head, notified, tt, cb, call, halted, lag, left>>

\* A caller that has disarmed its timer does not arm it again for now
Leave(p, t) ==
    /\ MayCall(p, t) /\ call[p] = [at |-> "disarmed", timer |-> t]
    /\ call' = [call EXCEPT ![p] = Idle]
    /\ UNCHANGED <<count, list, period, notified, tt, cb, halted, lag, left>>

\* sdk_ets_timer_arm_ms_us up to the critical section.  A callback may arm
\* its own timer without disarming it, in the mode (repeating or not) it has.
ArmCheck(p, t, ticks, repeat_flag) ==
    /\ MayCall(p, t)
    /\ \/ call[p] = [at |-> "disarmed", timer |-> t]
       \/ call[p] = Idle /\ p = TimerTask /\ next[t] = NotArmed
          /\ repeat_flag = (period[t] # 0)
    /\ IF next[t] # NotArmed
       THEN halted' = TRUE /\ UNCHANGED <<period, call>>
       ELSE /\ period' = IF repeat_flag THEN [period EXCEPT ![t] = ticks] ELSE period
            /\ call' = [call EXCEPT ![p] =
                          [at |-> "checked", timer |-> t, ticks |-> ticks]]
            /\ UNCHANGED halted
    /\ UNCHANGED <<count, list, notified, tt, cb, lag, left>>

\* The critical section of sdk_ets_timer_arm_ms_us
ArmAdd(p, t) ==
    /\ MayCall(p, t)
    /\ call[p].at = "checked" /\ call[p].timer = t
    /\ add_pending_timer((count + call[p].ticks) % W, t)
    /\ left' = [left EXCEPT ![t] = call[p].ticks]
    /\ call' = [call EXCEPT ![p] = Idle]
    /\ UNCHANGED <<count, period, notified, tt, cb, lag>>

-----------------------------------------------------------------------------
(* The timer task: timer_task and process_pending_timers.  "scan" is the   *)
(* time it spends inside the critical section.                             *)

Wake ==
    /\ tt = "wait" /\ notified
    /\ notified' = FALSE /\ tt' = "scan"
    /\ UNCHANGED <<count, list, period, cb, call, halted, lag, left>>

\* Fault: a head that is only within the margin of the alarm is taken too.
HeadWithinMargin == \E t \in Timers : t = head /\ NotAfter(fire[t], count + MARGIN)

HeadExpired == \E t \in Timers : t = head /\ NotAfter(fire[t], count)

\* The head has expired: pop it, leave the critical section, run its callback
Expire ==
    /\ tt = "scan" /\ HeadExpired
    /\ head' = next[head]
    /\ next' = [next EXCEPT ![head] = NotArmed]
    /\ tt' = "callback" /\ cb' = head
    /\ UNCHANGED <<count, alarm, fire, period, notified, call, halted, lag, left>>

\* The callback has returned: a repeating timer nobody has armed is added again
CallbackReturn ==
    /\ tt = "callback" /\ call[TimerTask].at # "checked"
    /\ IF next[cb] = NotArmed /\ period[cb] # 0
       THEN /\ add_pending_timer((fire[cb] + period[cb]) % W, cb)
            /\ left' = [left EXCEPT ![cb] = @ + period[cb]]
       ELSE /\ left' = [left EXCEPT ![cb] = IF next[cb] = NotArmed THEN 0 ELSE @]
            /\ UNCHANGED <<list, halted>>
    /\ tt' = "scan" /\ cb' = End
    /\ call' = [call EXCEPT ![TimerTask] = Idle]
    /\ UNCHANGED <<count, period, notified, lag>>

\* Nothing more has expired: set the alarm for the head and wait
Rest ==
    /\ tt = "scan" /\ ~HeadExpired
    /\ alarm' = IF head = End THEN alarm ELSE AlarmFor(fire[head])
    /\ tt' = "wait" /\ lag' = 0
    /\ UNCHANGED <<count, head, next, fire, period, notified, cb, call, halted, left>>

Caller(p, t) ==
    \/ sdk_ets_timer_disarm(p, t)
    \/ sdk_ets_timer_setfn(p, t)
    \/ Leave(p, t)
    \/ \E ticks \in Delays, r \in BOOLEAN : ArmCheck(p, t, ticks, r)
    \/ ArmAdd(p, t)

Next ==
    /\ ~halted
    /\ \/ Tick
       \/ \E p \in Callers, t \in Timers : Caller(p, t)
       \/ Wake \/ Expire \/ CallbackReturn \/ Rest

Spec == Init /\ [][Next]_vars
-----------------------------------------------------------------------------
Armed == {t \in Timers : next[t] # NotArmed}

TypeOK ==
    /\ count \in 0 .. W - 1 /\ alarm \in 0 .. W - 1
    /\ head \in Timers \cup {End}
    /\ next \in [Timers -> Timers \cup {End, NotArmed}]
    /\ fire \in [Timers -> 0 .. W - 1]
    /\ period \in [Timers -> Delays \cup {0}]
    /\ notified \in BOOLEAN /\ halted \in BOOLEAN
    /\ tt \in {"wait", "scan", "callback"} /\ cb \in Timers \cup {End}
    /\ lag \in 0 .. MaxLag /\ left \in [Timers -> Int]

\* The list reaches its end and holds exactly the armed timers: no operation
\* of a task or callback loses a timer or closes the list into a cycle.
ListHoldsArmed ==
    /\ Walk[Cardinality(Timers)] = End
    /\ \A t \in Timers : InList(t) <=> t \in Armed

\* "We squeeze the timer into the list so the list will always remain sorted"
\* (ets_timer.c:144): along the list timers are due later and later in real
\* time, across every wrap of the 32-bit counter.
AlwaysSorted ==
    \A t \in Armed : next[t] \in Armed => left[t] <= left[next[t]]

\* set_alarm makes "sure the alarm is set in the future and will not be missed"
\* (ets_timer.c:109): no armed timer is ever late by more than SLACK and the
\* time the timer task needs.  A missed alarm would be a whole turn late.
NeverMissed == \A t \in Armed : left[t] >= -(SLACK + MaxLag)

\* A callback never runs before the delay it was armed with has passed.
NeverEarly == [][Expire => left[head] <= 0]_vars

\* Callers that disarm before they arm never meet the while(1) of an already
\* armed timer (ets_timer.c:193) or of a timer added twice (ets_timer.c:174).
NeverHalts == ~halted

\* The timer list of ets_timer.c stays what its comments say, whoever arms,
\* disarms or is called back in between: whole, sorted, and never halting.
ListKept == ListHoldsArmed /\ AlwaysSorted /\ NeverHalts

\* "if add the same timer twice the system halts" (ets_timer.c:146)
AddTwiceHalts ==
    [][\A p \in Callers, t \in Timers : ArmAdd(p, t) /\ InList(t) => halted']_vars
=============================================================================
