----------------------------- MODULE EventGroup -----------------------------
(***************************************************************************)
(* Event groups (FreeRTOS/Source/event_groups.c): tasks wait for some or   *)
(* all of a set of bits, set and clear them, and rendezvous.  The group is *)
(* only used by tasks, with the scheduler suspended; what a call does      *)
(* between vTaskSuspendAll and xTaskResumeAll is one step, and interrupts  *)
(* arrive between that step and the resumption.                            *)
(***************************************************************************)
EXTENDS Kernel

CONSTANTS
    Bits,           \* the event bits in use
    Group           \* the event list xTasksWaitingForBits

VARIABLE g          \* [bits |-> uxEventBits, and a ghost: the rendezvous each
                    \*  task has come through, counted modulo ROUNDS]

ROUNDS == 4

GroupInit == [bits |-> {}, rounds |-> [t \in Task |-> 0]]

-----------------------------------------------------------------------------
prvTestWaitCondition(bits, wanted, all) ==
    IF all THEN wanted \subseteq bits ELSE wanted \cap bits # {}

(* xEventGroupSetBits, without its xTaskResumeAll: [s, bits].  Every waiter  *)
(* is tested against the same bits; what they clear goes at the end.         *)
SetBits(s, bits, new) ==
    LET b       == bits \cup new
        Match   == {t \in Task : /\ Contains(s.events[Group], t)
                                 /\ prvTestWaitCondition(b, s.item[t].bits, s.item[t].all)}
        cleared == UNION {s.item[t].bits : t \in {u \in Match : s.item[u].clear}}
        Release(r, t) == vTaskRemoveFromUnorderedEventList(r, t,
                             [NoItem EXCEPT !.used = TRUE, !.set = TRUE, !.bits = b])
    IN  [s    |-> FoldLeft(Release, s, SelectSeq(s.events[Group], LAMBDA t : t \in Match)),
         bits |-> b \ cleared]

(* The rest of a call: the frame says whether it blocked, and what for. *)
EgFrame(pc, wanted, clear, all, sync) ==
    [pc |-> pc, wanted |-> wanted, clear |-> clear, all |-> all, sync |-> sync]

EgReturn(s, t, ok, bits, sync) ==
    /\ Return(s, t, ok, <<"bits", bits>>)
    /\ g' = [g EXCEPT !.rounds[t] = IF sync /\ ok THEN (@ + 1) % ROUNDS ELSE @]

xEventGroupWaitBits(t, wanted, clear, all, wait) ==
    /\ f[t] = Running
    /\ LET s    == vTaskSuspendAll(StartWait(k, wait))
           item == [used |-> TRUE, set |-> FALSE, clear |-> clear, all |-> all, bits |-> wanted]
           met  == prvTestWaitCondition(g.bits, wanted, all)
       IN  IF met \/ wait = 0
           THEN /\ Continue(s, t, EgFrame(IF met THEN "egMet" ELSE "egNot",
                                          g.bits, FALSE, FALSE, FALSE))
                /\ g' = [g EXCEPT !.bits = IF met /\ clear THEN @ \ wanted ELSE @]
           ELSE /\ Continue(vTaskPlaceOnUnorderedEventList(s, Group, item, wait), t,
                            EgFrame("egResume", wanted, clear, all, FALSE))
                /\ UNCHANGED g

\* Mutant: the last to arrive leaves the bits of the rendezvous set.
SyncKeepsBits(t, new, wanted, wait) ==
    /\ f[t] = Running
    /\ LET s    == SetBits(vTaskSuspendAll(StartWait(k, wait)), g.bits, new)
           item == [used |-> TRUE, set |-> FALSE, clear |-> FALSE, all |-> TRUE, bits |-> wanted]
           met  == wanted \subseteq g.bits \cup new
       IN  /\ g' = [g EXCEPT !.bits = s.bits]
           /\ IF met \/ wait = 0
              THEN Continue(s.s, t, EgFrame(IF met THEN "egMet" ELSE "egNot",
                                            IF met THEN g.bits \cup new ELSE s.bits,
                                            FALSE, FALSE, met))
              ELSE Continue(vTaskPlaceOnUnorderedEventList(s.s, Group, item, wait), t,
                            EgFrame("egResume", wanted, TRUE, TRUE, TRUE))

(* Set a bit, and wait for the others of the rendezvous to set theirs. *)
xEventGroupSync(t, new, wanted, wait) ==
    /\ f[t] = Running
    /\ LET s    == SetBits(vTaskSuspendAll(StartWait(k, wait)), g.bits, new)
           item == [used |-> TRUE, set |-> FALSE, clear |-> TRUE, all |-> TRUE, bits |-> wanted]
           met  == wanted \subseteq g.bits \cup new
       IN  /\ g' = [g EXCEPT !.bits = IF met THEN s.bits \ wanted ELSE s.bits]
           /\ IF met \/ wait = 0
              THEN Continue(s.s, t, EgFrame(IF met THEN "egMet" ELSE "egNot",
                                            IF met THEN g.bits \cup new ELSE s.bits,
                                            FALSE, FALSE, met))
              ELSE Continue(vTaskPlaceOnUnorderedEventList(s.s, Group, item, wait), t,
                            EgFrame("egResume", wanted, TRUE, TRUE, TRUE))

(* xTaskResumeAll of a call that did not have to wait. *)
EgLeave(t) ==
    /\ f[t].pc \in {"egMet", "egNot"}
    /\ EgReturn(xTaskResumeAll(k).s, t, f[t].pc = "egMet", f[t].wanted, f[t].sync)

EgResume(t) ==
    /\ f[t].pc = "egResume"
    /\ LET r == xTaskResumeAll(k)
       IN  Continue(r.s, t, [f[t] EXCEPT !.pc = IF r.yielded THEN "egWoken" ELSE "egYield"])
    /\ UNCHANGED g

EgYield(t) ==
    /\ f[t].pc = "egYield"
    /\ Continue(vTaskSwitchContext(k), t, [f[t] EXCEPT !.pc = "egWoken"])
    /\ UNCHANGED g

(* Woken with bits, or timed out and looking at the bits once more. *)
EgWoken(t) ==
    /\ f[t].pc = "egWoken"
    /\ LET i   == k.item[t]
           met == prvTestWaitCondition(g.bits, f[t].wanted, f[t].all)
           s   == uxTaskResetEventItemValue(k)
       IN  IF i.set THEN EgReturn(s, t, TRUE, i.bits, f[t].sync)
           ELSE /\ Return(s, t, FALSE, <<"bits", g.bits>>)
                /\ g' = [g EXCEPT !.bits = IF met /\ f[t].clear THEN @ \ f[t].wanted ELSE @]

xEventGroupSetBits(t, new) ==
    /\ f[t] = Running
    /\ LET s == SetBits(vTaskSuspendAll(k), g.bits, new)
       IN  /\ Continue(s.s, t, EgFrame("egMet", s.bits, FALSE, FALSE, FALSE))
           /\ g' = [g EXCEPT !.bits = s.bits]

xEventGroupClearBits(t, old) ==
    /\ f[t] = Running
    /\ g' = [g EXCEPT !.bits = @ \ old]
    /\ Return(k, t, TRUE, << >>)

EventGroupLoop(t) == EgLeave(t) \/ EgResume(t) \/ EgYield(t) \/ EgWoken(t)

-----------------------------------------------------------------------------
(* Nobody sleeps through its bits: outside a call, no task is left on the    *)
(* list whose condition the bits now meet.                                   *)
NoWaiterIsMet ==
    k.susp = 0 => \A t \in Task : Contains(k.events[Group], t) =>
                      ~prvTestWaitCondition(g.bits, k.item[t].bits, k.item[t].all)

(* A rendezvous is one: no task gets two rendezvous ahead of another, as     *)
(* none leaves xEventGroupSync before all have called it.                    *)
Rendezvous ==
    \E r \in 0 .. ROUNDS - 1 : \A t \in Task : g.rounds[t] \in {r, (r + 1) % ROUNDS}

(* Event groups: no task is left waiting for bits that are set, and none     *)
(* leaves a rendezvous that is not one.                                      *)
EventsMet == NoWaiterIsMet /\ Rendezvous

=============================================================================
