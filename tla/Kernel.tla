------------------------------- MODULE Kernel -------------------------------
(***************************************************************************)
(* The scheduler core of FreeRTOS as esp-open-rtos builds it               *)
(* (FreeRTOS/Source/tasks.c and list.c, with the configuration of          *)
(* FreeRTOSConfig.h: preemption, time slicing, mutexes, vTaskSuspend and   *)
(* task notifications on; tickless idle, queue sets and xTaskAbortDelay    *)
(* off).                                                                   *)
(*                                                                         *)
(* The file-scope variables of tasks.c and the fields of the TCBs are one  *)
(* record, so that a kernel function is an operator from kernel state to   *)
(* kernel state and a critical section that calls several of them is one   *)
(* atomic step.  portYIELD only pends an interrupt that is taken when the  *)
(* critical section ends (port.c), so a yield inside one is a context      *)
(* switch at its end.                                                      *)
(***************************************************************************)
EXTENDS Ticks, Sequences, FiniteSets, FiniteSetsExt, SequencesExt

CONSTANTS
    Task,           \* the application tasks
    Idle,           \* the idle task, always able to run
    MAX_PRIORITIES, \* configMAX_PRIORITIES
    MAX_PENDED,     \* bound: ticks that arrive while the scheduler is suspended
    EventList,      \* the event lists of the kernel objects
    NoTask          \* NULL, as a task handle

Tasks == Task \cup {Idle}

ASSUME KernelAssumption ==
    /\ Idle \notin Task /\ NoTask \notin Task \cup {Idle}
    /\ MAX_PRIORITIES \in Nat /\ MAX_PENDED \in Nat

VARIABLES
    k,      \* the state of tasks.c
    f,      \* [Task -> the call the task is in and its local variables]
    out     \* what the last step returned to its caller

-----------------------------------------------------------------------------
(* list.c.  A ready list keeps pxIndex, the position reached by time        *)
(* slicing (0 is the end marker); every other list is a plain sequence.     *)

(* Insert before pxIndex: the last place listGET_OWNER_OF_NEXT_ENTRY gets to. *)
vListInsertEnd(l, t) ==
    IF l.idx = 0 THEN [l EXCEPT !.item = Append(@, t)]
                 ELSE [item |-> InsertAt(l.item, l.idx, t), idx |-> l.idx + 1]

(* The first position of the sequence for which over holds, or one past it. *)
Position(s, over) == Min(over \cup {Len(s) + 1})

(* Insert in value order, after the items of the same value; values are those *)
(* of the items of the list.                                                  *)
vListInsert(s, values, x, value) ==
    InsertAt(s, Position(s, {i \in DOMAIN s : values[i] > value}), x)

(* Remove, leaving pxIndex on a valid item. *)
uxListRemove(l, t) ==
    [item |-> Remove(l.item, t),
     idx  |-> IF \E j \in 1 .. l.idx : l.item[j] = t THEN l.idx - 1 ELSE l.idx]

-----------------------------------------------------------------------------
(* The lists of tasks.c. *)

NoItem == [used |-> FALSE, set |-> FALSE, clear |-> FALSE, all |-> FALSE, bits |-> {}]

Forever == -1

NoTimeOut == [set |-> FALSE, at |-> 0, wrapped |-> FALSE]

(* The scheduler just started, with the tasks created at priorities pri. *)
KernelInit(pri) ==
    LET uxPriority == [t \in Tasks |-> IF t = Idle THEN 0 ELSE pri[t]]
        highest    == Max({pri[t] : t \in Task})
        item       == [p \in 0 .. MAX_PRIORITIES - 1 |->
                          SetToSeq({t \in Tasks : uxPriority[t] = p})]
    IN [tick      |-> 0,                    \* xTickCount
        pended    |-> 0,                    \* uxPendedTicks
        susp      |-> 0,                    \* uxSchedulerSuspended
        yield     |-> FALSE,                \* xYieldPending
        cur       |-> Head(item[highest]),  \* pxCurrentTCB
        top       |-> highest,              \* uxTopReadyPriority
        next      |-> portMAX_DELAY,        \* xNextTaskUnblockTime
        prio      |-> uxPriority,
        base      |-> uxPriority,           \* uxBasePriority
        held      |-> [t \in Tasks |-> 0],  \* uxMutexesHeld
        ready     |-> [p \in 0 .. MAX_PRIORITIES - 1 |->
                         [item |-> item[p], idx |-> IF p = highest THEN 1 ELSE 0]],
        delayed   |-> << >>,                \* pxDelayedTaskList, of [task, at]
        overflow  |-> << >>,                \* pxOverflowDelayedTaskList
        suspended |-> {},                   \* xSuspendedTaskList
        pending   |-> << >>,                \* xPendingReadyList
        dead      |-> << >>,                \* xTasksWaitingTermination
        freed     |-> {},                   \* tasks whose TCB has been freed
        events    |-> [l \in EventList |-> << >>],
        value     |-> [t \in Tasks |-> MAX_PRIORITIES - uxPriority[t]],
        item      |-> [t \in Tasks |-> NoItem],
                        \* xEventListItem: a priority, or an event group's bits
        notify    |-> [t \in Tasks |-> "none"],     \* ucNotifyState
        timeout   |-> [t \in Tasks |-> NoTimeOut],  \* the caller's TimeOut_t
        left      |-> [t \in Tasks |-> Forever],
                        \* ghost: ticks left of the wait the caller asked for
        failed    |-> "none"]               \* the configASSERT that aborted

IsReady(s, t) == Contains(s.ready[s.prio[t]].item, t)

prvAddTaskToReadyList(s, t) ==
    [s EXCEPT !.top = Max({@, s.prio[t]}),
              !.ready[s.prio[t]] = vListInsertEnd(@, t)]

(* uxListRemove of xStateListItem, whichever state list it is in. *)
RemoveState(s, t) ==
    IF IsReady(s, t) THEN [s EXCEPT !.ready[s.prio[t]] = uxListRemove(@, t)]
    ELSE [s EXCEPT !.delayed   = SelectSeq(@, LAMBDA d : d.task # t),
                   !.overflow  = SelectSeq(@, LAMBDA d : d.task # t),
                   !.suspended = @ \ {t}]

(* uxListRemove of xEventListItem, whichever list it is in. *)
RemoveEvent(s, t) ==
    [s EXCEPT !.events = [l \in EventList |-> Remove(s.events[l], t)],
              !.pending = Remove(@, t)]

prvResetNextTaskUnblockTime(s) ==
    [s EXCEPT !.next = IF s.delayed = << >> THEN portMAX_DELAY ELSE Head(s.delayed).at]

InsertDelayed(l, t, at) ==
    vListInsert(l, [i \in DOMAIN l |-> l[i].at], [task |-> t, at |-> at], at)

AddToDelayedList(s, t, at, forever) ==
    IF forever THEN [s EXCEPT !.suspended = @ \cup {t}]
    ELSE IF at < s.tick THEN [s EXCEPT !.overflow = InsertDelayed(@, t, at)]
    ELSE [s EXCEPT !.delayed = InsertDelayed(@, t, at), !.next = Min({@, at})]

(* The running task leaves the ready list to wait for ticks, or for ever. *)
prvAddCurrentTaskToDelayedList(s, ticks, canBlockIndefinitely) ==
    AddToDelayedList(RemoveState(s, s.cur), s.cur, Plus(s.tick, ticks),
                     ticks = portMAX_DELAY /\ canBlockIndefinitely)

-----------------------------------------------------------------------------
(* Context switch, tick and scheduler suspension. *)

taskSELECT_HIGHEST_PRIORITY_TASK(s) ==
    LET P == {p \in 0 .. s.top : s.ready[p].item # << >>}
        p == Max(P)
        l == s.ready[p]
        i == IF l.idx >= Len(l.item) THEN 1 ELSE l.idx + 1
    IN  IF P = {} THEN [s EXCEPT !.failed = "noReadyTask"]
        ELSE [s EXCEPT !.top = p, !.ready[p].idx = i, !.cur = l.item[i]]

vTaskSwitchContext(s) ==
    IF s.susp # 0 THEN [s EXCEPT !.yield = TRUE]
    ELSE taskSELECT_HIGHEST_PRIORITY_TASK([s EXCEPT !.yield = FALSE])

\* Mutant: xNextTaskUnblockTime is not reset.
SwitchWithoutReset(s) ==
    [s EXCEPT !.delayed  = s.overflow,
              !.overflow = s.delayed,
              !.timeout  = [t \in Tasks |-> [@[t] EXCEPT !.wrapped = s.timeout[t].set]]]

taskSWITCH_DELAYED_LISTS(s) ==
    prvResetNextTaskUnblockTime(
        [s EXCEPT !.delayed  = s.overflow,
                  !.overflow = s.delayed,
                  !.timeout  = [t \in Tasks |-> [@[t] EXCEPT !.wrapped = s.timeout[t].set]],
                  !.failed   = IF s.delayed = << >> THEN @ ELSE "delayedListNotEmpty"])

(* A tick moves the tasks that are due from the delayed list to the ready     *)
(* list; a switch is required for one of no lower priority, for time slicing  *)
(* and for a yield that is pending: [s, switch].                              *)
Unblock(s, d) == prvAddTaskToReadyList(RemoveEvent(RemoveState(s, d.task), d.task), d.task)

SwitchRequired(s, due) ==
    \/ \E d \in due : s.prio[d.task] >= s.prio[s.cur]
    \/ Len(s.ready[s.prio[s.cur]].item) > 1
    \/ s.yield

UnblockDue(s, n) ==
    LET due == SubSeq(s.delayed, 1, n)
        r   == FoldLeft(Unblock, s, due)
    IN  [s |-> IF s.tick < s.next THEN r ELSE prvResetNextTaskUnblockTime(r),
         switch |-> SwitchRequired(r, Range(due))]

DueTasks(s) ==
    IF s.tick < s.next THEN 0
    ELSE Position(s.delayed, {i \in DOMAIN s.delayed : s.delayed[i].at > s.tick}) - 1

Ticked(s) == [s EXCEPT !.tick = Plus(@, 1), !.left = [t \in Tasks |-> IF @[t] > 0 THEN @[t] - 1 ELSE @[t]]]

SwitchedIfZero(s) == IF s.tick = 0 THEN taskSWITCH_DELAYED_LISTS(s) ELSE s

Advance(s) == UnblockDue(s, DueTasks(s))

xTaskIncrementTick(s) ==
    IF s.susp # 0 THEN [s |-> [s EXCEPT !.pended = @ + 1], switch |-> s.yield]
    ELSE Advance(SwitchedIfZero(Ticked(s)))

vTaskSuspendAll(s) == [s EXCEPT !.susp = @ + 1]

(* Resume the scheduler, then catch up with what was held back meanwhile:    *)
(* [s, yielded].                                                             *)
MakeReady(s, t) ==
    [prvAddTaskToReadyList(RemoveState(RemoveEvent(s, t), t), t)
        EXCEPT !.yield = @ \/ s.prio[t] >= s.prio[s.cur]]

ReadyPending(s) ==
    IF s.pending = << >> THEN s ELSE prvResetNextTaskUnblockTime(FoldLeft(MakeReady, s, s.pending))

YieldAfterTick(n) == [n.s EXCEPT !.yield = @ \/ n.switch]

PendedTick(s, i) == YieldAfterTick(xTaskIncrementTick(s))

CatchUp(s) == [FoldLeft(PendedTick, s, [i \in 1 .. s.pended |-> i]) EXCEPT !.pended = 0]

SwitchIfYield(s) == [s |-> IF s.yield THEN vTaskSwitchContext(s) ELSE s, yielded |-> s.yield]

xTaskResumeAll(s) ==
    IF s.susp > 1 THEN [s |-> [s EXCEPT !.susp = @ - 1], yielded |-> FALSE]
    ELSE SwitchIfYield(CatchUp(ReadyPending([s EXCEPT !.susp = @ - 1])))

-----------------------------------------------------------------------------
(* Event lists, timeouts and task notifications. *)

vTaskPlaceOnEventList(s, l, ticks) ==
    prvAddCurrentTaskToDelayedList(
        [s EXCEPT !.events[l] = vListInsert(@, [i \in DOMAIN @ |-> s.value[@[i]]], s.cur, s.value[s.cur])],
        ticks, TRUE)

\* Mutant: xYieldPending is not set for a handler that ignores the result.
RemoveFromEventListOnly(s, l) ==
    LET t  == Head(s.events[l])
        s1 == RemoveEvent(s, t)
    IN  [s |-> IF s.susp = 0 THEN prvAddTaskToReadyList(RemoveState(s1, t), t)
               ELSE [s1 EXCEPT !.pending = Append(@, t)],
         woken |-> s.prio[t] > s.prio[s.cur]]

(* Wake the first task of a non-empty event list: [s, woken]. *)
xTaskRemoveFromEventList(s, l) ==
    LET t  == Head(s.events[l])
        s1 == RemoveEvent(s, t)
        s2 == IF s.susp = 0 THEN prvAddTaskToReadyList(RemoveState(s1, t), t)
              ELSE [s1 EXCEPT !.pending = Append(@, t)]
        w  == s.prio[t] > s.prio[s.cur]
    IN  [s |-> [s2 EXCEPT !.yield = @ \/ w], woken |-> w]

vTaskInternalSetTimeOutState(s) ==
    [s EXCEPT !.timeout[s.cur] = [set |-> TRUE, at |-> s.tick, wrapped |-> FALSE]]

\* Mutant: the last tick of the wait is taken as passed.
CheckForTimeOutEarly(s, wait) ==
    LET elapsed == Minus(s.tick, s.timeout[s.cur].at)
    IN  IF wait = portMAX_DELAY THEN [s |-> s, expired |-> FALSE, wait |-> wait]
        ELSE IF elapsed + 1 < wait
        THEN [s |-> vTaskInternalSetTimeOutState(s), expired |-> FALSE, wait |-> wait - elapsed]
        ELSE [s |-> s, expired |-> TRUE, wait |-> 0]

(* Has the running task's timeout expired?  [s, expired, wait]. *)
xTaskCheckForTimeOut(s, wait) ==
    LET to      == s.timeout[s.cur]
        elapsed == Minus(s.tick, to.at)
    IN  IF wait = portMAX_DELAY THEN [s |-> s, expired |-> FALSE, wait |-> wait]
        ELSE IF to.wrapped /\ s.tick >= to.at THEN [s |-> s, expired |-> TRUE, wait |-> wait]
        ELSE IF elapsed < wait
        THEN [s |-> vTaskInternalSetTimeOutState(s), expired |-> FALSE, wait |-> wait - elapsed]
        ELSE [s |-> s, expired |-> TRUE, wait |-> 0]

(* The lists of an event group are in order of arrival, and the event list   *)
(* item holds what the task waits for, or what it was woken with.            *)
vTaskPlaceOnUnorderedEventList(s, l, item, ticks) ==
    prvAddCurrentTaskToDelayedList(
        [s EXCEPT !.item[s.cur] = item, !.events[l] = Append(@, s.cur)], ticks, TRUE)

vTaskRemoveFromUnorderedEventList(s, t, item) ==
    LET s1 == RemoveState(RemoveEvent([s EXCEPT !.item[t] = item], t), t)
    IN  [prvAddTaskToReadyList(s1, t) EXCEPT !.yield = @ \/ s.prio[t] > s.prio[s.cur]]

uxTaskResetEventItemValue(s) ==
    [s EXCEPT !.item[s.cur] = NoItem, !.value[s.cur] = MAX_PRIORITIES - s.prio[s.cur]]

(* The asserted test that a task waiting for a notification is on no event   *)
(* list.                                                                     *)
OnNoEventList(s, t) ==
    ~Contains(s.pending, t) /\ \A l \in EventList : ~Contains(s.events[l], t)

(* Notify t without a value, from a task: [s, woken]. *)
xTaskGenericNotify(s, t) ==
    LET s1 == [s EXCEPT !.notify[t] = "received"]
        s2 == [prvAddTaskToReadyList(RemoveState(s1, t), t)
                 EXCEPT !.failed = IF OnNoEventList(s, t) THEN @ ELSE "notifiedOnEventList"]
    IN  IF s.notify[t] = "waiting" THEN [s |-> s2, woken |-> s.prio[t] > s.prio[s.cur]]
        ELSE [s |-> s1, woken |-> FALSE]

(* The same from an interrupt, which may find the scheduler suspended. *)
xTaskGenericNotifyFromISR(s, t) ==
    LET w == s.notify[t] = "waiting"
        y == w /\ s.prio[t] > s.prio[s.cur]
        s1 == [s EXCEPT !.notify[t] = "received", !.yield = @ \/ y]
    IN  [s |-> IF ~w THEN s1
               ELSE IF ~OnNoEventList(s, t) THEN [s1 EXCEPT !.failed = "notifiedOnEventList"]
               ELSE IF s.susp = 0 THEN prvAddTaskToReadyList(RemoveState(s1, t), t)
               ELSE [s1 EXCEPT !.pending = Append(@, t)],
         woken |-> y]

xTaskNotifyStateClear(s, t) ==
    [s EXCEPT !.notify[t] = IF @ = "received" THEN "none" ELSE @]

(* A call that may block starts the caller's clock. *)
StartClock(s, ticks) == [s EXCEPT !.left[s.cur] = ticks]

StartWait(s, wait) == StartClock(s, IF wait = portMAX_DELAY THEN Forever ELSE wait)

(* The two critical sections of xTaskNotifyWait: block unless a notification *)
(* is pending, then take it or find there was none.                          *)
NotifyWaitBlock(s, wait) ==
    IF s.notify[s.cur] = "received" THEN s
    ELSE vTaskSwitchContext(prvAddCurrentTaskToDelayedList(
             [StartWait(s, wait) EXCEPT !.notify[s.cur] = "waiting"], wait, TRUE))

NotifyWaitEnd(s) == [s EXCEPT !.notify[s.cur] = "none"]

-----------------------------------------------------------------------------
(* Calls.  A task in its own code has the frame `Running'; the return of a   *)
(* call stops the clock.                                                     *)

Running == [pc |-> "run"]

Nothing == [task |-> NoTask, ok |-> TRUE, got |-> << >>]

Returned(t, ok, got) == [task |-> t, ok |-> ok, got |-> got]

StopClock(s, t) == [s EXCEPT !.left[t] = Forever, !.timeout[t] = NoTimeOut]

YieldIf(s, y) == IF y THEN vTaskSwitchContext(s) ELSE s

(* End of a step of t: it goes on in frame fr, or its call returns. *)
Continue(s, t, fr) ==
    /\ k' = s
    /\ f' = [f EXCEPT ![t] = fr]
    /\ out' = Nothing

Return(s, t, ok, got) ==
    /\ k' = StopClock(s, t)
    /\ f' = [f EXCEPT ![t] = Running]
    /\ out' = Returned(t, ok, got)

(* vTaskDelay: out of the ready list with the scheduler suspended, then ...   *)
vTaskDelay(t, ticks) ==
    /\ f[t] = Running
    /\ Continue(prvAddCurrentTaskToDelayedList(
                    vTaskSuspendAll(StartClock(k, ticks)), ticks, FALSE),
                t, [pc |-> "delayResume"])

(* ... resume it, and yield unless that already did. *)
DelayResume(t) ==
    /\ f[t].pc = "delayResume"
    /\ LET r == xTaskResumeAll(k)
       IN  Continue(r.s, t, [pc |-> IF r.yielded THEN "delayed" ELSE "delayYield"])

DelayYield(t) ==
    f[t].pc = "delayYield" /\ Continue(vTaskSwitchContext(k), t, [pc |-> "delayed"])

DelayEnds(t) == f[t].pc = "delayed" /\ Return(k, t, TRUE, << >>)

(* xPortSysTickHandle: the tick interrupt, and the switch it may require. *)
xPortSysTickHandle ==
    /\ k.failed = "none"
    /\ k.susp # 0 => k.pended < MAX_PENDED
    /\ LET n == xTaskIncrementTick(k) IN k' = YieldIf(n.s, n.switch)
    /\ out' = Nothing
    /\ UNCHANGED f

(* An interrupt handler that made calls: [s, woken].  One that woke a better *)
(* task asks for a switch with portEND_SWITCHING_ISR, or leaves it to the    *)
(* next tick.                                                                *)
Interrupt(r, got) ==
    /\ k' \in {r.s, YieldIf(r.s, r.woken)}
    /\ out' = Returned(NoTask, TRUE, got)
    /\ UNCHANGED f

(* vAssertCalled: the device has stopped.  Only the assertion that may fail   *)
(* (NoAssertFails) leads here; any other one would be a deadlock.            *)
Aborted == k.failed = "inheritanceOccurred" /\ UNCHANGED <<k, f, out>>

-----------------------------------------------------------------------------
(* Priority inheritance. *)

\* Mutant: the task is left in the ready list of its old priority.
ChangePriorityInPlace(s, t, p) ==
    [s EXCEPT !.prio[t] = p, !.value[t] = IF s.item[t].used THEN @ ELSE MAX_PRIORITIES - p]

(* Give task t the priority p, in the ready list of that priority if it is   *)
(* ready; its event list item is revalued but not moved.                     *)
ChangePriority(s, t, p) ==
    LET s1 == [s EXCEPT !.value[t] = IF s.item[t].used THEN @ ELSE MAX_PRIORITIES - p]
    IN  IF IsReady(s, t)
        THEN prvAddTaskToReadyList([RemoveState(s1, t) EXCEPT !.prio[t] = p], t)
        ELSE [s1 EXCEPT !.prio[t] = p]

(* The running task is about to wait for a mutex that h holds: [s, inherited]. *)
xTaskPriorityInherit(s, h) ==
    IF h # NoTask /\ s.prio[h] < s.prio[s.cur]
    THEN [s |-> ChangePriority(s, h, s.prio[s.cur]), inherited |-> TRUE]
    ELSE [s |-> s, inherited |-> h # NoTask /\ s.base[h] < s.prio[s.cur]]

(* h gives a mutex back: [s, yield]. *)
xTaskPriorityDisinherit(s, h) ==
    LET s1 == [s EXCEPT !.held[h] = @ - 1,
                        !.failed = IF h # s.cur \/ s.held[h] = 0 THEN "notHolder" ELSE @]
    IN  IF h # NoTask /\ s.prio[h] # s.base[h] /\ s.held[h] = 1
        THEN [s |-> ChangePriority(s1, h, s.base[h]), yield |-> TRUE]
        ELSE [s |-> IF h = NoTask THEN s ELSE s1, yield |-> FALSE]

(* The running task gave up waiting for a mutex of h; `highest' is the       *)
(* priority of the best task still waiting for it.                           *)
vTaskPriorityDisinheritAfterTimeout(s, h, highest) ==
    LET p  == Max({s.base[h], highest})
        s1 == [s EXCEPT !.failed = IF s.held[h] = 0 THEN "holderHoldsNone"
                                   ELSE IF s.prio[h] # p /\ s.held[h] = 1 /\ h = s.cur
                                   THEN "disinheritsItself" ELSE @]
    IN  IF h = NoTask THEN s
        ELSE IF s.prio[h] # p /\ s.held[h] = 1 THEN ChangePriority(s1, h, p) ELSE s1

-----------------------------------------------------------------------------
(* A task is freed or in exactly one of the lists that say whether it may    *)
(* run, however switches, ticks and wake-ups interleave; a ready one is in   *)
(* the list of its present priority, which the search from                   *)
(* uxTopReadyPriority reaches.                                               *)
KernelTypeOK ==
    /\ k.tick \in TickType /\ k.pended \in 0 .. MAX_PENDED /\ k.susp \in 0 .. 1
    /\ \A t \in Tasks :
        LET waiting == SelectSeq(k.delayed \o k.overflow, LAMBDA d : d.task = t)
            ready   == {p \in 0 .. MAX_PRIORITIES - 1 : Contains(k.ready[p].item, t)}
            others  == {i \in 1 .. 3 : t \in <<k.suspended, ToSet(k.dead), k.freed>>[i]}
        IN  /\ Len(waiting) + Cardinality(ready) + Cardinality(others) = 1
            /\ ready \subseteq {k.prio[t]} \cap 0 .. k.top

(* No configASSERT of tasks.c, queue.c or stream_buffer.c fails, but for the *)
(* one of xQueueSemaphoreTake on xInheritanceOccurred: a task whose wait has *)
(* expired sees the mutex free, goes round its loop once more with a wait of *)
(* 0, and finds it taken again.                                              *)
NoAssertFails == k.failed \in {"none", "inheritanceOccurred"}

(* The scheduling policy: unless the scheduler is suspended, a switch is     *)
(* pending or the running task has just created another one, no ready task   *)
(* has a higher priority than the running one.                               *)
RunsHighest ==
    k.susp = 0 /\ ~k.yield /\ (k.cur \in Task => f[k.cur].pc # "created") =>
        \A t \in Tasks : IsReady(k, t) => k.prio[t] <= k.prio[k.cur]

Delayed(t) == Contains([i \in 1 .. Len(k.delayed) |-> k.delayed[i].task], t)
                 \/ Contains([i \in 1 .. Len(k.overflow) |-> k.overflow[i].task], t)

(* No task oversleeps: once the ticks it asked for have passed it is off the *)
(* delayed lists, whichever of the two it was on when the count wrapped and  *)
(* whatever xNextTaskUnblockTime was reset to meanwhile.                     *)
WokenInTime == k.susp = 0 => \A t \in Task : Delayed(t) => k.left[t] > 0

(* Nor is a call given up early: vTaskDelay, a queue or semaphore call, or a *)
(* wait for event bits returns without success only when the time it was     *)
(* given has passed, however often it was woken in vain.                     *)
NeverEarly ==
    [][\A t \in Task :
         /\ f[t].pc \in {"delayed", "resume", "retest", "disinherit", "egWoken"}
         /\ f'[t] = Running /\ (~out'.ok \/ f[t].pc = "delayed")
         => k.left[t] = 0]_<<k, f, out>>

=============================================================================
