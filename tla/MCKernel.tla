------------------------------ MODULE MCKernel ------------------------------
(***************************************************************************)
(* Small workloads of three tasks, H, M and L, and one interrupt source on *)
(* the kernel objects.  Each behaviour runs one of Loads.                  *)
(***************************************************************************)
EXTENDS SysArch, EventGroup, StreamBuffer, TaskControl

CONSTANTS H, M, L, Loads

VARIABLE load

MCTask == {H, M, L}
MCObj == {"Q", "A", "B"}
MCGroup == <<"G", "bits">>
MCEventList == (MCObj \X {"recv", "send"}) \cup {MCGroup}

objects == <<q, g, sb, tc>>
vars == <<k, f, out, objects, load>>

(* In the queue workloads M and L share a priority and are time-sliced. *)
Priorities(w) ==
    [t \in Task |-> CASE t = H -> 3
                      [] t = M -> IF w \in {"recv", "send", "sem"} THEN 1 ELSE 2
                      [] t = L -> 1]

Objects(w) ==
    [o \in Obj |-> CASE w \in {"mutex", "recursive"} -> NewMutex
                     [] w = "sem" -> NewSemaphore(2, 0)
                     [] w = "lwip" /\ o = "A" -> NewSemaphore(1, 0)
                     [] OTHER -> NewQueue(IF w = "mailbox" THEN 1 ELSE 2)]

Init ==
    /\ load \in Loads
    /\ k = KernelInit(Priorities(load))
    /\ f = [t \in Task |-> Running]
    /\ out = Nothing
    /\ q = Objects(load)
    /\ g = GroupInit
    /\ sb = SbInit(load # "stream", IF load = "stream" THEN 2 ELSE 1)
    /\ tc = ControlInit

Waits == {1, portMAX_DELAY}

WaitOf(t) == IF t = H THEN 1 ELSE portMAX_DELAY

-----------------------------------------------------------------------------
Call(op, wait, x) == [op |-> op, wait |-> wait, x |-> x]

(* What task t may ask of queue Q. *)
Calls(t) ==
    CASE load = "recv" -> {IF t = L THEN Call("back", 0, 1) ELSE Call("receive", WaitOf(t), NoTask)}
      [] load = "send" /\ t = H -> {Call("back", 1, 1)}
      [] load = "send" /\ t = L -> {Call("receive", portMAX_DELAY, NoTask)}
      [] load = "sem" /\ t = H -> {Call("take", 1, NoTask)}
      [] load = "sem" /\ t = L -> {Call("back", portMAX_DELAY, NoTask)}
      [] load = "fifo" /\ t = H -> {Call(op, 0, NoTask) : op \in {"receive", "peek"}}
      [] load = "fifo" /\ t = M -> {Call("front", portMAX_DELAY, 2)}
      [] load = "mailbox" /\ t = H -> {Call(op, 1, NoTask) : op \in {"receive", "peek"}}
      [] load = "mailbox" /\ t = M -> {Call("overwrite", 0, x) : x \in Item}
      [] load = "control" /\ t = H -> {Call("receive", w, NoTask) : w \in Waits}
      [] OTHER -> {}

QueueCalls(t) ==
    \/ \E c \in Calls(t) : CallQueue(t, c.op, "Q", c.wait, c.x)
    \/ load = "fifo" /\ t = L /\ xQueueGenericReset(t, "Q")

(* L has a second mutex; H and M sleep now and then, to let it run. *)
MutexCalls(t) ==
    \/ /\ load = "mutex"
       /\ \E o \in IF t = L THEN {"A", "B"} ELSE {"A"} :
          \/ q[o].holder # t /\ CallQueue(t, "take", o, WaitOf(t), NoTask)
          \/ GiveMutex(t, o)
    \/ /\ load = "recursive" /\ t = H
       /\ \/ q["A"].depth < 2 /\ xQueueTakeMutexRecursive(t, "A", 1)
          \/ xQueueGiveMutexRecursive(t, "A")
    \/ /\ load = "recursive" /\ t = L
       /\ (q["A"].depth < 2 /\ sys_mutex_lock(t, "A")) \/ sys_mutex_unlock(t, "A")

(* H serves a mailbox, M posts to it and waits for an answer, L tries to. *)
LwipCalls(t) ==
    /\ load = "lwip"
    /\ \/ /\ t = H
          /\ \/ \E ms \in {0, 5, 10} : sys_arch_mbox_fetch(t, "Q", ms)
             \/ sys_arch_mbox_tryfetch(t, "Q") \/ sys_sem_signal(t, "A")
       \/ t = M /\ (sys_mbox_post(t, "Q", 1) \/ sys_arch_sem_wait(t, "A", 0))
       \/ t = L /\ sys_mbox_trypost(t, "Q", 2)

EventCalls(t) ==
    \/ load = "sync" /\ xEventGroupSync(t, {t}, Task, portMAX_DELAY)
    \/ /\ load = "event" /\ t # L
       /\ \E b \in SUBSET Bits \ {{}}, all, clear \in BOOLEAN :
            (clear => t = H) /\ xEventGroupWaitBits(t, b, clear, all, WaitOf(t))
    \/ /\ load = "event" /\ t = L
       /\ \E b \in Bits : xEventGroupSetBits(t, {b}) \/ xEventGroupClearBits(t, {b})

(* Which task writes and which reads; the other side may be an interrupt. *)
Writer == CASE load \in {"stream", "messageH", "messageIR"} -> H
            [] load = "messageM" -> M
            [] OTHER -> NoTask
Reader == CASE load \in {"stream", "messageH"} -> M
            [] load \in {"messageM", "messageIW"} -> H
            [] OTHER -> NoTask

StreamCalls(t) ==
    \E w \in IF t = H /\ load # "stream" THEN Waits ELSE {portMAX_DELAY} :
       \/ /\ t = Writer
          /\ \E n \in IF load = "stream" THEN {3} ELSE {1, 2} : xStreamBufferSend(t, n, w)
       \/ t = Reader /\ \E n \in IF load = "messageM" THEN {1, 2} ELSE {2} : xStreamBufferReceive(t, n, w)

ControlCalls(t) ==
    \/ load = "periodic" /\ t # L /\ vTaskDelayUntil(t, IF t = H THEN 1 ELSE 2)
    \/ /\ load = "control" /\ t = H
       /\ vTaskSuspend(t, t) \/ vTaskDelete(t, t)
    \/ load = "reap" /\ ((t = H /\ vTaskDelete(t, t)) \/ (t = M /\ xTaskCreate(t, H, 3)) \/ (t = L /\ vTaskSuspend(t, t)))
    \/ /\ load = "control" /\ t = M
       /\ \/ vTaskSuspend(t, H) \/ vTaskResume(t, H) \/ vTaskDelete(t, H)
          \/ \E p \in {1, 2} : xTaskCreate(t, H, 3) \/ vTaskPrioritySet(t, H, p)

Delays(t) ==
    \/ load \in {"mutex", "recursive", "reap"} /\ t # L /\ vTaskDelay(t, 1)
    \/ load = "lwip" /\ t # L /\ sys_arch_msleep(t, 10)
    \/ load \in {"fifo", "messageH", "messageM", "stream", "control"} /\ t = H /\ vTaskDelay(t, 1)
    \/ DelayResume(t) \/ DelayYield(t) \/ DelayEnds(t)

-----------------------------------------------------------------------------
TaskStep(t) ==
    /\ k.cur = t /\ k.failed = "none"
    /\ \/ (QueueCalls(t) \/ LwipCalls(t) \/ MutexCalls(t) \/ QueueLoop(t)) /\ UNCHANGED <<g, sb, tc>>
       \/ (EventCalls(t) \/ EventGroupLoop(t)) /\ UNCHANGED <<q, sb, tc>>
       \/ (StreamCalls(t) \/ StreamBufferLoop(t)) /\ UNCHANGED <<q, g, tc>>
       \/ (ControlCalls(t) \/ ControlLoop(t)) /\ UNCHANGED <<q, g, sb>>
       \/ Delays(t) /\ UNCHANGED objects
    /\ UNCHANGED load

Handler ==
    /\ k.failed = "none"
    /\ \/ /\ \/ /\ load \in {"recv", "fifo", "control", "sem"}
                /\ xQueueGenericSendFromISR("Q", IF load = "sem" THEN NoTask ELSE 1, "back")
             \/ load = "send" /\ xQueueReceiveFromISR("Q")
          /\ UNCHANGED <<g, sb, tc>>
       \/ /\ \/ load = "messageIW" /\ \E n \in {1, 2} : xStreamBufferSendFromISR(n)
             \/ load = "messageIR" /\ xStreamBufferReceiveFromISR(2)
          /\ UNCHANGED <<q, g, tc>>
       \/ load = "control" /\ xTaskResumeFromISR(H) /\ UNCHANGED <<q, g, sb>>
    /\ UNCHANGED load

Tick == xPortSysTickHandle /\ UNCHANGED <<objects, load>>

IdleStep == k.failed = "none" /\ IdleCleanUp /\ UNCHANGED <<q, g, sb, load>>

Next ==
    \/ \E t \in Task : TaskStep(t)
    \/ Handler \/ Tick \/ IdleStep
    \/ Aborted /\ UNCHANGED <<objects, load>>

Spec == Init /\ [][Next]_vars

-----------------------------------------------------------------------------
(* Queue Q, with what the last step did to it, is a bounded FIFO: nothing is *)
(* lost, duplicated or reordered by tasks and interrupts using it at once,   *)
(* by resets or by the wrap of its pointers.                                 *)
Fifo == INSTANCE BoundedFifo WITH
            cap      <- q["Q"].len,
            contents <- IF q["Q"].sized THEN Contents(q["Q"]) ELSE << >>,
            got      <- IF Len(out.got) > 1 /\ out.got[1] = "Q" THEN Tail(out.got) ELSE << >>

ImplementsFifo == Fifo!Spec

=============================================================================
