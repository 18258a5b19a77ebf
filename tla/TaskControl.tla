---------------------------- MODULE TaskControl ----------------------------
(***************************************************************************)
(* What tasks do to each other (FreeRTOS/Source/tasks.c): change their     *)
(* priority, suspend and resume, delete and create; and the periodic delay *)
(* vTaskDelayUntil.                                                        *)
(***************************************************************************)
EXTENDS Kernel

VARIABLE tc     \* [prev |-> *pxPreviousWakeTime of each task,
                \*  asleep |-> ghost: the tasks suspended and not resumed]

ControlInit == [prev |-> [t \in Task |-> 0], asleep |-> {}]

-----------------------------------------------------------------------------
(* The wake time moves on by inc, whether or not it has passed.  The clock   *)
(* of the caller runs until then.                                            *)
vTaskDelayUntil(t, inc) ==
    /\ f[t] = Running
    /\ LET prev    == tc.prev[t]
           wake    == Plus(prev, inc)
           elapsed == Minus(k.tick, prev)
           s       == vTaskSuspendAll(StartClock(k, Max({0, inc - elapsed})))
       IN  /\ tc' = [tc EXCEPT !.prev[t] = wake]
           /\ Continue(IF xShouldDelay(prev, k.tick, inc)
                       THEN prvAddCurrentTaskToDelayedList(s, Minus(wake, k.tick), FALSE)
                       ELSE s, t, [pc |-> "delayResume"])

(* The effective priority follows only while nothing is inherited. *)
vTaskPrioritySet(t, u, new) ==
    /\ f[t] = Running /\ u \notin k.freed
    /\ LET old   == k.base[u]
           prio  == IF k.prio[u] = old THEN new ELSE k.prio[u]
           s1    == [ChangePriority(k, u, prio) EXCEPT !.base[u] = new]
           s2    == IF k.item[u].used THEN s1
                    ELSE [s1 EXCEPT !.value[u] = MAX_PRIORITIES - new]
           yield == IF new > old THEN u # t /\ new >= k.prio[t] ELSE u = t
       IN  Return(IF new = old THEN k ELSE YieldIf(s2, yield), t, TRUE, << >>)
    /\ UNCHANGED tc

-----------------------------------------------------------------------------
(* vTaskSuspend: off every list, then the unblock time in a critical section *)
(* of its own, then a yield if the task suspended itself.  A delay it cuts   *)
(* short is over.                                                            *)
vTaskSuspend(t, u) ==
    /\ f[t] = Running /\ u \notin k.freed \cup ToSet(k.dead)
    /\ LET s == RemoveEvent(RemoveState(k, u), u)
       IN  Continue([s EXCEPT !.suspended = @ \cup {u},
                              !.notify[u] = IF @ = "waiting" THEN "none" ELSE @,
                              !.left[u] = IF f[u].pc \in {"delayYield", "delayed"}
                                          THEN 0 ELSE @],
                    t, [pc |-> "suspReset", self |-> u = t])
    /\ tc' = [tc EXCEPT !.asleep = @ \cup {u}]

SuspendReset(t) ==
    /\ f[t].pc = "suspReset"
    /\ LET s == prvResetNextTaskUnblockTime(k)
       IN  IF f[t].self THEN Continue(s, t, [pc |-> "suspYield"]) ELSE Return(s, t, TRUE, << >>)
    /\ UNCHANGED tc

SuspendYield(t) ==
    /\ f[t].pc = "suspYield"
    /\ Return(vTaskSwitchContext(k), t, TRUE, << >>)
    /\ UNCHANGED tc

(* On the suspended list, and not for a wait on an event list or because an  *)
(* interrupt has resumed it already.                                         *)
prvTaskIsTaskSuspended(u) == u \in k.suspended /\ OnNoEventList(k, u)

vTaskResume(t, u) ==
    /\ f[t] = Running /\ u # t /\ u \notin k.freed
    /\ LET s == prvAddTaskToReadyList(RemoveState(k, u), u)
       IN  Return(IF prvTaskIsTaskSuspended(u) THEN YieldIf(s, s.prio[u] >= s.prio[t]) ELSE k,
                  t, TRUE, << >>)
    /\ tc' = [tc EXCEPT !.asleep = @ \ {u}]

(* The handler must yield as the return value says: nothing else records it. *)
xTaskResumeFromISR(u) ==
    /\ prvTaskIsTaskSuspended(u)
    /\ k' = IF k.susp = 0
            THEN YieldIf(prvAddTaskToReadyList(RemoveState(k, u), u), k.prio[u] >= k.prio[k.cur])
            ELSE [k EXCEPT !.pending = Append(@, u)]
    /\ out' = Nothing /\ UNCHANGED f
    /\ tc' = [tc EXCEPT !.asleep = @ \ {u}]

-----------------------------------------------------------------------------
\* Mutant: the task stays on the event list it was waiting on.
DeleteKeepsEvent(t, u) ==
    /\ f[t] = Running /\ u \notin k.freed \cup ToSet(k.dead) /\ u # t
    /\ k' = StopClock([RemoveState(k, u) EXCEPT !.freed = @ \cup {u}], u)
    /\ f' = [f EXCEPT ![u] = [pc |-> "deleted"]]
    /\ out' = Returned(t, TRUE, << >>)
    /\ tc' = [tc EXCEPT !.asleep = @ \ {u}]

(* A task that deletes itself is left to the idle task; another one is freed *)
(* at once.                                                                  *)
vTaskDelete(t, u) ==
    /\ f[t] = Running /\ u \notin k.freed \cup ToSet(k.dead)
    /\ LET s == RemoveEvent(RemoveState(k, u), u)
       IN  IF u = t
           THEN Continue([s EXCEPT !.dead = Append(@, u)], t, [pc |-> "deleteYield"])
           ELSE /\ k' = StopClock(prvResetNextTaskUnblockTime([s EXCEPT !.freed = @ \cup {u}]), u)
                /\ f' = [f EXCEPT ![u] = [pc |-> "deleted"]]
                /\ out' = Returned(t, TRUE, << >>)
    /\ tc' = [tc EXCEPT !.asleep = @ \ {u}]

DeleteYield(t) ==
    /\ f[t].pc = "deleteYield"
    /\ Continue(vTaskSwitchContext(StopClock(k, t)), t, [pc |-> "deleted"])
    /\ UNCHANGED tc

(* prvCheckTasksWaitingTermination, in the loop of the idle task. *)
IdleCleanUp ==
    /\ k.cur = Idle /\ k.dead # << >>
    /\ k' = [k EXCEPT !.dead = Tail(@), !.freed = @ \cup {Head(k.dead)}]
    /\ out' = Nothing
    /\ UNCHANGED <<f, tc>>

(* xTaskCreate: prvInitialiseNewTask and prvAddNewTaskToReadyList.  The yield *)
(* comes after the critical section.                                         *)
xTaskCreate(t, u, priority) ==
    /\ f[t] = Running /\ u \in k.freed
    /\ k' = prvAddTaskToReadyList(
                [k EXCEPT !.freed = @ \ {u}, !.prio[u] = priority, !.base[u] = priority,
                          !.held[u] = 0, !.value[u] = MAX_PRIORITIES - priority,
                          !.item[u] = NoItem, !.notify[u] = "none"], u)
    /\ f' = [f EXCEPT ![u] = Running, ![t] = [pc |-> "created", task |-> u]]
    /\ out' = Nothing
    /\ tc' = [tc EXCEPT !.prev[u] = k.tick]

Created(t) ==
    /\ f[t].pc = "created"
    /\ Return(YieldIf(k, k.prio[t] < k.prio[f[t].task]), t, TRUE, << >>)
    /\ UNCHANGED tc

ControlLoop(t) ==
    SuspendReset(t) \/ SuspendYield(t) \/ DeleteYield(t) \/ Created(t)

-----------------------------------------------------------------------------
(* The suspended list tells suspension from waiting: outside a call that     *)
(* suspends the scheduler, the tasks on it that wait for nothing are exactly *)
(* the ones vTaskSuspend was called for and no resume since.  None is woken  *)
(* by the event it was waiting for before, and none is stuck.                *)
SuspendedExactly ==
    k.susp = 0 => tc.asleep = {t \in Task : prvTaskIsTaskSuspended(t) /\ k.notify[t] # "waiting"}

(* The memory of a deleted task is freed only when nothing refers to it: it  *)
(* is not running and it is on no event list, whichever task deleted it and  *)
(* whatever it was waiting for.                                              *)
FreedIsUnlinked == \A t \in k.freed \cup ToSet(k.dead) :
    OnNoEventList(k, t) /\ (t \in k.freed => k.cur # t)

(* Suspension and deletion: exactly the suspended tasks sleep for nothing,   *)
(* and nothing refers to a task whose memory is freed.                       *)
ControlHolds == SuspendedExactly /\ FreedIsUnlinked

=============================================================================
