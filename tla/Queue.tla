-------------------------------- MODULE Queue --------------------------------
(***************************************************************************)
(* Queues, semaphores and mutexes (FreeRTOS/Source/queue.c), used by tasks *)
(* and by interrupt handlers.  Each critical section is one step; a call   *)
(* that blocks is the steps of its loop in order, between which interrupts *)
(* arrive and, while the scheduler is not suspended, other tasks run.      *)
(***************************************************************************)
EXTENDS Kernel, QueueRing

CONSTANTS
    Obj,        \* the queues, semaphores and mutexes of a workload
    MAX_LOCKED  \* bound: interrupt-side operations while a queue is locked

VARIABLE q      \* [Obj -> Queue_t]

queueUNLOCKED == -1
queueLOCKED_UNMODIFIED == 0

Recv(o) == <<o, "recv">>    \* xTasksWaitingToReceive
Send(o) == <<o, "send">>    \* xTasksWaitingToSend

(* xQueueGenericCreate with an item size of one, prvInitialiseNewQueue. *)
NewQueue(len) == [len |-> len, sized |-> TRUE, mutex |-> FALSE, n |-> 0,
                  buf |-> [i \in 0 .. len - 1 |-> CHOOSE x \in Item : TRUE],
                  w |-> 0, r |-> len - 1,
                  tx |-> queueUNLOCKED, rx |-> queueUNLOCKED,
                  holder |-> NoTask, depth |-> 0]

(* xQueueCreateCountingSemaphore. *)
NewSemaphore(max, count) ==
    [NewQueue(max) EXCEPT !.sized = FALSE, !.n = count, !.buf = << >>]

(* prvInitialiseMutex gives the new mutex once. *)
NewMutex == [NewSemaphore(1, 1) EXCEPT !.mutex = TRUE]

-----------------------------------------------------------------------------
(* The helpers of queue.c: from queue (and kernel state) to queue.          *)

Copied(d, x) == [s |-> d.s, yield |-> d.yield, x |-> x]

(* [s, x, yield]: the queue with the item in it, or the semaphore given. *)
prvCopyDataToQueue(s, x, item, pos) ==
    IF x.sized THEN Copied([s |-> s, yield |-> FALSE], CopyIn(x, item, pos))
    ELSE Copied(IF x.mutex THEN xTaskPriorityDisinherit(s, x.holder) ELSE [s |-> s, yield |-> FALSE],
                [x EXCEPT !.holder = NoTask, !.n = @ + 1])

(* [x, item]: the read position moved on, and what it found there. *)
prvCopyDataFromQueue(x) ==
    IF x.sized THEN [x |-> [x EXCEPT !.r = NextRead(x)], item |-> <<x.buf[NextRead(x)]>>]
               ELSE [x |-> x, item |-> << >>]

(* Wake the best waiter of list l, if there is one: [s, woken]. *)
Wake(s, l) ==
    IF s.events[l] = << >> THEN [s |-> s, woken |-> FALSE]
                           ELSE xTaskRemoveFromEventList(s, l)

(* cTxLock and cRxLock are int8_t. *)
CountLocked(c) == IF c = 127 THEN -128 ELSE c + 1

prvLockQueue(x) ==
    [x EXCEPT !.rx = IF @ = queueUNLOCKED THEN queueLOCKED_UNMODIFIED ELSE @,
              !.tx = IF @ = queueUNLOCKED THEN queueLOCKED_UNMODIFIED ELSE @]

(* One half of prvUnlockQueue: a waiter of l for each operation counted. *)
WakeCounted(s, l, count) ==
    FoldLeft(LAMBDA r, i : Wake(r, l).s, s, [i \in 1 .. count |-> i])

prvIsQueueEmpty(x) == x.n = 0
prvIsQueueFull(x) == x.n = x.len

\* Mutant: the tasks that still wait are forgotten.
DisinheritToBase(s, o) == 0

(* The best priority still waiting for the mutex. *)
prvGetDisinheritPriorityAfterTimeout(s, o) ==
    IF s.events[Recv(o)] = << >> THEN 0
    ELSE MAX_PRIORITIES - s.value[Head(s.events[Recv(o)])]

-----------------------------------------------------------------------------
(* Calls from tasks.  The frame of one is [pc, op, o, wait, item, inh]; the  *)
(* operations are the three copy positions of xQueueGenericSend, and         *)
(* "receive", "peek" and "take".                                             *)

IsSend(op) == op \in {"back", "front", "overwrite"}

(* Is the condition the operation waits for still not met? *)
MustWait(fr) == IF IsSend(fr.op) THEN prvIsQueueFull(q[fr.o]) ELSE prvIsQueueEmpty(q[fr.o])

Sent(o, op, item) == IF q[o].sized THEN <<o, op, item>> ELSE << >>

(* The end of a critical section that may have woken a task: [s, woken]. *)
Leave(t, w, got) == Return(YieldIf(w.s, w.woken), t, TRUE, got)

WakeOrYield(s, l, yield) ==
    IF s.events[l] # << >> THEN xTaskRemoveFromEventList(s, l) ELSE [s |-> s, woken |-> yield]

SendCopied(t, fr, c) ==
    /\ q' = [q EXCEPT ![fr.o] = IF fr.recursive THEN [c.x EXCEPT !.depth = 0] ELSE c.x]
    /\ Leave(t, WakeOrYield(c.s, Recv(fr.o), c.yield), Sent(fr.o, fr.op, fr.item))

SendCritical(t, fr) ==
    SendCopied(t, fr, prvCopyDataToQueue(k, q[fr.o], fr.item, fr.op))

ReceiveCritical(t, fr) ==
    LET c == prvCopyDataFromQueue(q[fr.o])
    IN  /\ q' = [q EXCEPT ![fr.o] = [c.x EXCEPT !.n = @ - 1]]
        /\ Leave(t, Wake(k, Send(fr.o)), <<fr.o, "get">> \o c.item)

PeekCritical(t, fr) ==
    /\ UNCHANGED q
    /\ Leave(t, Wake(k, Recv(fr.o)), <<fr.o, "peek">> \o prvCopyDataFromQueue(q[fr.o]).item)

(* pvTaskIncrementMutexHeldCount makes the caller the holder. *)
TakeCritical(t, fr) ==
    LET x == q[fr.o]
        s == IF x.mutex THEN [k EXCEPT !.held[t] = @ + 1] ELSE k
    IN  /\ q' = [q EXCEPT ![fr.o].n = @ - 1,
                          ![fr.o].holder = IF x.mutex THEN t ELSE @,
                          ![fr.o].depth = IF fr.recursive THEN @ + 1 ELSE @]
        /\ Leave(t, Wake(s, Send(fr.o)), << >>)

Critical(t, fr) ==
    CASE IsSend(fr.op)     -> SendCritical(t, fr)
      [] fr.op = "receive" -> ReceiveCritical(t, fr)
      [] fr.op = "peek"    -> PeekCritical(t, fr)
      [] fr.op = "take"    -> TakeCritical(t, fr)

(* The critical section at the top of the loop.  The entry time of a wait    *)
(* for ever is recorded by the code and never read, and left out here.       *)
Try(s, t, fr) ==
    IF ~MustWait(fr) \/ fr.op = "overwrite" THEN Critical(t, fr)
    ELSE /\ UNCHANGED q
         /\ IF fr.wait = 0
            THEN Return([s EXCEPT !.failed = IF fr.inh THEN "inheritanceOccurred" ELSE @],
                        t, FALSE, << >>)
            ELSE Continue(IF s.timeout[t].set \/ fr.wait = portMAX_DELAY THEN s
                          ELSE vTaskInternalSetTimeOutState(s), t, [fr EXCEPT !.pc = "suspend"])

(* A call enters the loop. *)
Frame(op, o, wait, item, recursive) ==
    [pc |-> "try", then |-> "try", op |-> op, o |-> o, wait |-> wait, item |-> item,
     inh |-> FALSE, recursive |-> recursive]

CallQueue(t, op, o, wait, item) ==
    /\ f[t] = Running
    /\ Try(StartWait(k, wait), t, Frame(op, o, wait, item, FALSE))

(* xSemaphoreGive of a mutex, by the task that holds it. *)
GiveMutex(t, o) ==
    /\ f[t] = Running /\ q[o].holder = t /\ q[o].depth = 0
    /\ SendCritical(t, Frame("back", o, 0, NoTask, FALSE))

xQueueTakeMutexRecursive(t, o, wait) ==
    /\ f[t] = Running
    /\ IF q[o].holder = t
       THEN q' = [q EXCEPT ![o].depth = @ + 1] /\ Return(k, t, TRUE, << >>)
       ELSE Try(StartWait(k, wait), t, Frame("take", o, wait, NoTask, TRUE))

xQueueGiveMutexRecursive(t, o) ==
    /\ f[t] = Running
    /\ IF q[o].holder # t THEN UNCHANGED q /\ Return(k, t, FALSE, << >>)
       ELSE IF q[o].depth > 1
       THEN q' = [q EXCEPT ![o].depth = @ - 1] /\ Return(k, t, TRUE, << >>)
       ELSE SendCritical(t, Frame("back", o, 0, NoTask, TRUE))

(* One of the tasks waiting to send is woken: there is room again. *)
xQueueGenericReset(t, o) ==
    /\ f[t] = Running
    /\ Leave(t, Wake(k, Send(o)), <<o, "reset">>)
    /\ q' = [q EXCEPT ![o] = [EmptyRing(@) EXCEPT !.rx = queueUNLOCKED, !.tx = queueUNLOCKED]]

-----------------------------------------------------------------------------
(* The steps of the loop, in the order of the code. *)

At(t, pc) == f[t].pc = pc

Goto(t, s, pc) == Continue(s, t, [f[t] EXCEPT !.pc = pc])

TryAgain(t) == At(t, "try") /\ Try(k, t, f[t])

SuspendAll(t) == At(t, "suspend") /\ Goto(t, vTaskSuspendAll(k), "lock") /\ UNCHANGED q

Lock(t) ==
    /\ At(t, "lock")
    /\ q' = [q EXCEPT ![f[t].o] = prvLockQueue(@)]
    /\ Goto(t, k, "check")

(* xTaskCheckForTimeOut, then prvIsQueueFull or prvIsQueueEmpty. *)
CheckForTimeOut(t) ==
    /\ At(t, "check")
    /\ LET c   == xTaskCheckForTimeOut(k, f[t].wait)
           end == IF c.expired THEN "expired" ELSE IF MustWait(f[t]) THEN "block" ELSE "try"
       IN  Continue(c.s, t, [f[t] EXCEPT !.wait = c.wait, !.then = end,
                               !.pc = IF end = "block" THEN "place" ELSE "unlockTx"])
    /\ UNCHANGED q

(* The holder of a mutex inherits the caller's priority first. *)
Place(t) ==
    /\ At(t, "place")
    /\ LET x == q[f[t].o]
           i == IF f[t].op = "take" /\ x.mutex THEN xTaskPriorityInherit(k, x.holder)
                                              ELSE [s |-> k, inherited |-> f[t].inh]
           l == IF IsSend(f[t].op) THEN Send(f[t].o) ELSE Recv(f[t].o)
       IN  Continue(vTaskPlaceOnEventList(i.s, l, f[t].wait), t,
                    [f[t] EXCEPT !.inh = i.inherited, !.pc = "unlockTx"])
    /\ UNCHANGED q

UnlockTx(t) ==
    /\ At(t, "unlockTx")
    /\ LET o == f[t].o IN
       /\ Goto(t, WakeCounted(k, Recv(o), q[o].tx), "unlockRx")
       /\ q' = [q EXCEPT ![o].tx = queueUNLOCKED]

UnlockRx(t) ==
    /\ At(t, "unlockRx")
    /\ LET o == f[t].o IN
       /\ Goto(t, WakeCounted(k, Send(o), q[o].rx), "resume")
       /\ q' = [q EXCEPT ![o].rx = queueUNLOCKED]

(* xTaskResumeAll, with the yield it leaves to its caller when it blocked;   *)
(* a sender whose wait has expired gives up.                                 *)
Resumed(t, r) ==
    IF f[t].then = "expired" /\ IsSend(f[t].op) THEN Return(r.s, t, FALSE, << >>)
    ELSE Goto(t, r.s, IF f[t].then = "expired" THEN "retest"
                      ELSE IF f[t].then = "block" /\ ~r.yielded THEN "yield"
                      ELSE "try")

ResumeAll(t) ==
    /\ At(t, "resume")
    /\ Resumed(t, xTaskResumeAll(k))
    /\ UNCHANGED q

portYIELD_WITHIN_API(t) ==
    At(t, "yield") /\ Goto(t, vTaskSwitchContext(k), "try") /\ UNCHANGED q

(* The wait has expired: one more look, and a receiver gives up. *)
Retest(t) ==
    /\ At(t, "retest")
    /\ IF ~prvIsQueueEmpty(q[f[t].o]) THEN Goto(t, k, "try")
       ELSE IF f[t].inh THEN Goto(t, k, "disinherit")
       ELSE Return(k, t, FALSE, << >>)
    /\ UNCHANGED q

Disinherit(t) ==
    /\ At(t, "disinherit")
    /\ LET o == f[t].o
       IN  Return(vTaskPriorityDisinheritAfterTimeout(k, q[o].holder,
                      prvGetDisinheritPriorityAfterTimeout(k, o)), t, FALSE, << >>)
    /\ UNCHANGED q

QueueLoop(t) ==
    \/ TryAgain(t) \/ SuspendAll(t) \/ Lock(t) \/ CheckForTimeOut(t) \/ Place(t)
    \/ UnlockTx(t) \/ UnlockRx(t) \/ ResumeAll(t) \/ portYIELD_WITHIN_API(t)
    \/ Retest(t) \/ Disinherit(t)

-----------------------------------------------------------------------------
(* The calls for interrupt handlers. *)

(* Wake a waiter now, or leave it to whoever holds the lock: [s, woken]. *)
WakeUnlessLocked(l, lock) ==
    IF lock = queueUNLOCKED THEN Wake(k, l) ELSE [s |-> k, woken |-> FALSE]

\* Mutant: what an interrupt does while the queue is locked is not counted.
CountNever(c) == c

CountIfLocked(c) == IF c = queueUNLOCKED THEN c ELSE CountLocked(c)

(* xQueueGenericSendFromISR, and xQueueGiveFromISR for a semaphore. *)
xQueueGenericSendFromISR(o, item, pos) ==
    /\ ~prvIsQueueFull(q[o]) \/ pos = "overwrite"
    /\ q[o].tx < MAX_LOCKED
    /\ LET c == prvCopyDataToQueue(k, q[o], item, pos)
           w == WakeUnlessLocked(Recv(o), q[o].tx)
       IN  /\ q' = [q EXCEPT ![o] = [c.x EXCEPT !.tx = CountIfLocked(@)]]
           /\ Interrupt(w, Sent(o, pos, item))

xQueueReceiveFromISR(o) ==
    /\ ~prvIsQueueEmpty(q[o])
    /\ q[o].rx < MAX_LOCKED
    /\ LET c == prvCopyDataFromQueue(q[o])
           w == WakeUnlessLocked(Send(o), q[o].rx)
       IN  /\ q' = [q EXCEPT ![o] = [c.x EXCEPT !.n = @ - 1, !.rx = CountIfLocked(@)]]
           /\ Interrupt(w, <<o, "get">> \o c.item)

-----------------------------------------------------------------------------
(* The calls on their way to the object, which will look at it again before  *)
(* they block or give up.                                                    *)
OnWay(o, side) ==
    {t \in Task : /\ f[t] # Running /\ "op" \in DOMAIN f[t]
                  /\ f[t].o = o /\ IsSend(f[t].op) = (side = "send")
                  /\ ~Contains(k.events[<<o, side>>], t)
                  /\ f[t].pc # "disinherit" /\ ~(side = "send" /\ f[t].then = "expired")}

(* No wake-up is lost: while a task sleeps on an object that is not locked,  *)
(* every item in it (for a sender, every free place) has another call on its *)
(* way to take it.  The unlocking of queue.c must make up for each operation *)
(* an interrupt did while a task was between looking and blocking.           *)
NoLostWakeup ==
    \A o \in Obj :
        /\ q[o].tx = queueUNLOCKED /\ k.events[Recv(o)] # << >>
           => q[o].n <= Cardinality(OnWay(o, "recv"))
        /\ q[o].rx = queueUNLOCKED /\ k.events[Send(o)] # << >>
           => q[o].len - q[o].n <= Cardinality(OnWay(o, "send"))

(* A mutex is free or has one holder, and uxMutexesHeld of a task, on which  *)
(* the return of its priority depends, counts just the ones it holds.        *)
HolderCounts ==
    /\ \A t \in Task : k.held[t] = Cardinality({o \in Obj : q[o].mutex /\ q[o].holder = t})
    /\ \A o \in Obj : q[o].mutex => (q[o].n = 1 <=> q[o].holder = NoTask)

(* A task without a mutex runs at its own priority: what it inherited is     *)
(* gone, also when the task it inherited from gave up or was overtaken.      *)
PriorityRestored == \A t \in Task : k.held[t] = 0 => k.prio[t] = k.base[t]

(* A mutex holder is never below a task asleep on the mutex. *)
NoInversion ==
    \A o \in Obj : q[o].mutex /\ q[o].holder # NoTask =>
        \A t \in Task : Contains(k.events[Recv(o)], t) => k.prio[q[o].holder] >= k.prio[t]

(* Mutexes: the counts that xTaskPriorityDisinherit and the time-out of      *)
(* xQueueSemaphoreTake rest on are right, a holder is raised as far as its   *)
(* waiters need, and falls back when it holds none.                          *)
Inheritance == HolderCounts /\ PriorityRestored /\ NoInversion

=============================================================================
