---------------------------- MODULE StreamBuffer ----------------------------
(***************************************************************************)
(* Stream and message buffers (FreeRTOS/Source/stream_buffer.c): a ring of *)
(* bytes between one writer and one reader, each a task or an interrupt    *)
(* handler.  Neither side locks the ring: the writer owns xHead, the       *)
(* reader xTail, and each step below is what runs between two reads or     *)
(* writes of the other side's state.                                       *)
(***************************************************************************)
EXTENDS Kernel, StreamRing

CONSTANT LENGTH_BYTES   \* sbBYTES_TO_STORE_MESSAGE_LENGTH

VARIABLE sb         \* StreamBuffer_t, and two ghosts: what was written and not
                    \* yet read, and whether every read returned just that

SbInit(isMessage, trigger) ==
    [head |-> 0, tail |-> 0, buf |-> [i \in 0 .. XLENGTH - 1 |-> 0],
     trigger |-> trigger, message |-> isMessage,
     reader |-> NoTask,         \* xTaskWaitingToReceive
     writer |-> NoTask,         \* xTaskWaitingToSend
     sent |-> << >>, intact |-> TRUE]

Header(b) == IF b.message THEN LENGTH_BYTES ELSE 0

-----------------------------------------------------------------------------

(* [b, data]: at most max of the avail bytes the caller saw. *)
prvReadBytesFromBuffer(b, max, avail) ==
    LET n == Min({max, avail})
    IN  [b |-> Skip(b, n), data |-> BytesRead(b, n)]

(* The payload of n bytes, told apart by its length, and the length bytes. *)
Payload(n) == [i \in 1 .. n |-> n]
LengthBytes(n) == [i \in 1 .. LENGTH_BYTES |-> IF i = 1 THEN n ELSE 0]

(* The ghost: a message is one entry, a stream is one entry per byte. *)
Note(b, data) == [b EXCEPT !.sent = IF b.message THEN Append(@, data)
                                    ELSE @ \o [i \in 1 .. Len(data) |-> <<data[i]>>]]

Took(b, data) ==
    LET n == IF b.message THEN 1 ELSE Len(data)
        ok == Len(b.sent) >= n /\ data = FlattenSeq(SubSeq(b.sent, 1, n))
    IN  [b EXCEPT !.sent = IF ok THEN SubSeq(@, n + 1, Len(@)) ELSE @, !.intact = @ /\ ok]

(* How much of a write of n bytes prvWriteMessageToBuffer lets through. *)
Accepted(b, n, space) ==
    IF space = 0 THEN 0
    ELSE IF ~b.message THEN Min({n, space})
    ELSE IF space >= n + LENGTH_BYTES THEN n ELSE 0

-----------------------------------------------------------------------------
(* xStreamBufferSend.  The frame is [pc, n, wait, space].                    *)

xStreamBufferSend(t, n, wait) ==
    /\ f[t] = Running
    /\ Continue(IF wait \in {0, portMAX_DELAY} THEN k ELSE vTaskInternalSetTimeOutState(k), t,
                    [pc |-> IF wait = 0 THEN "sbSpace" ELSE "sbWantSpace",
                     n |-> n, wait |-> wait, space |-> 0])
    /\ UNCHANGED sb

(* The critical section of the loop. *)
SbWantSpace(t) ==
    /\ f[t].pc = "sbWantSpace"
    /\ LET space == xStreamBufferSpacesAvailable(sb)
           short == space < f[t].n + Header(sb)
           s     == xTaskNotifyStateClear(k, t)
       IN  /\ Continue(IF ~short THEN k
                       ELSE IF sb.writer = NoTask THEN s ELSE [s EXCEPT !.failed = "twoWriters"],
                       t, [f[t] EXCEPT !.space = space,
                             !.pc = IF short THEN "sbWaitSpace" ELSE "sbSpace"])
           /\ sb' = [sb EXCEPT !.writer = IF short THEN t ELSE @]

SbWaitSpace(t) ==
    /\ f[t].pc = "sbWaitSpace"
    /\ Continue(NotifyWaitBlock(k, f[t].wait), t, [f[t] EXCEPT !.pc = "sbWokeSpace"])
    /\ UNCHANGED sb

SbWokeSpace(t) ==
    /\ f[t].pc = "sbWokeSpace"
    /\ Continue(NotifyWaitEnd(k), t, [f[t] EXCEPT !.pc = "sbStopWaitSpace"])
    /\ UNCHANGED sb

\* Mutant: the writer goes on with xTaskWaitingToSend set.
SbStaysWriter(t) ==
    /\ f[t].pc = "sbStopWaitSpace"
    /\ LET c == xTaskCheckForTimeOut(k, f[t].wait)
       IN  Continue(c.s, t, [f[t] EXCEPT !.wait = c.wait,
                               !.pc = IF c.expired THEN "sbSpace" ELSE "sbWantSpace"])
    /\ UNCHANGED sb

SbStopWaitSpace(t) ==
    /\ f[t].pc = "sbStopWaitSpace"
    /\ LET c == xTaskCheckForTimeOut(k, f[t].wait)
       IN  Continue(c.s, t, [f[t] EXCEPT !.wait = c.wait,
                               !.pc = IF c.expired THEN "sbSpace" ELSE "sbWantSpace"])
    /\ sb' = [sb EXCEPT !.writer = NoTask]

(* Look again if no space was seen; a message starts with its length. *)
SbSpace(t) ==
    /\ f[t].pc = "sbSpace"
    /\ LET space == IF f[t].space = 0 THEN xStreamBufferSpacesAvailable(sb) ELSE f[t].space
           n     == Accepted(sb, f[t].n, space)
       IN  IF n = 0 THEN Return(k, t, FALSE, <<"wrote", 0>>) /\ UNCHANGED sb
           ELSE /\ Continue(k, t, [f[t] EXCEPT !.pc = "sbWrite", !.n = n])
                /\ sb' = IF sb.message THEN prvWriteBytesToBuffer(sb, LengthBytes(n)) ELSE sb

SbWrite(t) ==
    /\ f[t].pc = "sbWrite"
    /\ Continue(k, t, [f[t] EXCEPT !.pc = "sbWritten"])
    /\ sb' = Note(prvWriteBytesToBuffer(sb, Payload(f[t].n)), Payload(f[t].n))

SbWritten(t) ==
    /\ f[t].pc = "sbWritten"
    /\ IF prvBytesInBuffer(sb) >= sb.trigger
       THEN Continue(k, t, [f[t] EXCEPT !.pc = "sbSent"])
       ELSE Return(k, t, TRUE, <<"wrote", f[t].n>>)
    /\ UNCHANGED sb

(* sbSEND_COMPLETED and sbRECEIVE_COMPLETED: notify whoever waits, with the  *)
(* scheduler suspended, then resume it.                                      *)
Complete(s, waiter) ==
    LET n == xTaskGenericNotify(vTaskSuspendAll(s), waiter)
    IN  IF waiter = NoTask THEN vTaskSuspendAll(s) ELSE YieldIf(n.s, n.woken)

SbSent(t) ==
    /\ f[t].pc = "sbSent"
    /\ Continue(Complete(k, sb.reader), t, [f[t] EXCEPT !.pc = "sbResume"])
    /\ sb' = [sb EXCEPT !.reader = NoTask]

SbResume(t) ==
    /\ f[t].pc = "sbResume"
    /\ Return(xTaskResumeAll(k).s, t, TRUE, <<"wrote", f[t].n>>)
    /\ UNCHANGED sb

-----------------------------------------------------------------------------
(* xStreamBufferReceive into a buffer of n bytes: [pc, n, wait, avail, got].  *)

xStreamBufferReceive(t, n, wait) ==
    /\ f[t] = Running
    /\ LET avail == prvBytesInBuffer(sb)
           none  == wait # 0 /\ avail <= Header(sb)
           c     == xTaskNotifyStateClear(k, t)
       IN  /\ Continue(IF ~none THEN k
                       ELSE IF sb.reader = NoTask THEN c ELSE [c EXCEPT !.failed = "twoReaders"],
                       t, [pc |-> IF none THEN "sbWaitData" ELSE "sbRead",
                           n |-> n, wait |-> wait, avail |-> avail, tail |-> 0, got |-> << >>])
           /\ sb' = [sb EXCEPT !.reader = IF none THEN t ELSE @]

SbWaitData(t) ==
    /\ f[t].pc = "sbWaitData"
    /\ Continue(NotifyWaitBlock(k, f[t].wait), t, [f[t] EXCEPT !.pc = "sbWokeData"])
    /\ UNCHANGED sb

SbWokeData(t) ==
    /\ f[t].pc = "sbWokeData"
    /\ Continue(NotifyWaitEnd(k), t, [f[t] EXCEPT !.pc = "sbStopWaitData"])
    /\ UNCHANGED sb

SbStopWaitData(t) ==
    /\ f[t].pc = "sbStopWaitData"
    /\ Continue(k, t, [f[t] EXCEPT !.pc = "sbRead", !.avail = prvBytesInBuffer(sb)])
    /\ sb' = [sb EXCEPT !.reader = NoTask]

(* Nothing to read; or the length of a message, which moves xTail; or the    *)
(* bytes of a stream.                                                        *)
SbRead(t) ==
    /\ f[t].pc = "sbRead"
    /\ IF f[t].avail <= Header(sb) THEN Return(k, t, FALSE, <<"read", << >> >>) /\ UNCHANGED sb
       ELSE LET max == IF sb.message THEN LENGTH_BYTES ELSE f[t].n
                r   == prvReadBytesFromBuffer(sb, max, f[t].avail)
            IN  IF sb.message
                THEN /\ Continue(k, t, [f[t] EXCEPT !.pc = "sbReadMessage", !.tail = sb.tail,
                                          !.got = r.data, !.avail = @ - LENGTH_BYTES])
                     /\ sb' = r.b
                ELSE /\ Continue(k, t, [f[t] EXCEPT !.pc = "sbReceived", !.got = r.data])
                     /\ sb' = Took(r.b, r.data)

(* The message itself; or, if the caller's buffer is too small for it, xTail *)
(* back where it was.                                                        *)
SbReadMessage(t) ==
    /\ f[t].pc = "sbReadMessage"
    /\ LET n == Head(f[t].got)
           r == prvReadBytesFromBuffer(sb, n, f[t].avail)
       IN  IF n > f[t].n
           THEN Return(k, t, FALSE, <<"read", << >> >>) /\ sb' = [sb EXCEPT !.tail = f[t].tail]
           ELSE /\ Continue(k, t, [f[t] EXCEPT !.pc = "sbReceived", !.got = r.data])
                /\ sb' = Took(r.b, r.data)

\* Mutant: the reader is notified for the writer.
SbReceivedTellsReader(t) ==
    /\ f[t].pc = "sbReceived"
    /\ Continue(Complete(k, sb.reader), t, [f[t] EXCEPT !.pc = "sbReadResume"])
    /\ sb' = [sb EXCEPT !.reader = NoTask]

SbReceived(t) ==
    /\ f[t].pc = "sbReceived"
    /\ Continue(Complete(k, sb.writer), t, [f[t] EXCEPT !.pc = "sbReadResume"])
    /\ sb' = [sb EXCEPT !.writer = NoTask]

SbReadResume(t) ==
    /\ f[t].pc = "sbReadResume"
    /\ Return(xTaskResumeAll(k).s, t, TRUE, <<"read", f[t].got>>)
    /\ UNCHANGED sb

StreamBufferLoop(t) ==
    \/ SbWantSpace(t) \/ SbWaitSpace(t) \/ SbWokeSpace(t) \/ SbStopWaitSpace(t)
    \/ SbSpace(t) \/ SbWrite(t) \/ SbWritten(t) \/ SbSent(t) \/ SbResume(t)
    \/ SbWaitData(t) \/ SbWokeData(t) \/ SbStopWaitData(t) \/ SbRead(t)
    \/ SbReadMessage(t) \/ SbReceived(t) \/ SbReadResume(t)

-----------------------------------------------------------------------------
(* The interrupt side, which nothing interrupts. *)

CompleteFromISR(s, waiter) ==
    IF waiter = NoTask THEN [s |-> s, woken |-> FALSE] ELSE xTaskGenericNotifyFromISR(s, waiter)

xStreamBufferSendFromISR(n) ==
    /\ Accepted(sb, n, xStreamBufferSpacesAvailable(sb)) = n
    /\ LET b == Note(prvWriteBytesToBuffer(
                        IF sb.message THEN prvWriteBytesToBuffer(sb, LengthBytes(n)) ELSE sb,
                        Payload(n)), Payload(n))
           wake == prvBytesInBuffer(b) >= b.trigger
       IN  /\ Interrupt(CompleteFromISR(k, IF wake THEN b.reader ELSE NoTask), <<"wrote", n>>)
           /\ sb' = [b EXCEPT !.reader = IF wake THEN NoTask ELSE @]

xStreamBufferReceiveFromISR(n) ==
    /\ prvBytesInBuffer(sb) > Header(sb)
    /\ LET avail == prvBytesInBuffer(sb)
           h == prvReadBytesFromBuffer(sb, Header(sb), avail)
           r == prvReadBytesFromBuffer(h.b, IF sb.message THEN Head(h.data) ELSE n,
                                       avail - Header(sb))
       IN  IF sb.message /\ Head(h.data) > n
           THEN UNCHANGED <<k, f, sb>> /\ out' = Returned(NoTask, FALSE, << >>)
           ELSE /\ Interrupt(CompleteFromISR(k, sb.writer), <<"read", r.data>>)
                /\ sb' = [Took(r.b, r.data) EXCEPT !.writer = NoTask]

-----------------------------------------------------------------------------
(* Every read returns the next message, or the next bytes, that were         *)
(* written: nothing is lost, repeated, reordered or torn, whatever the other *)
(* side does in between.                                                     *)
StreamIntact == sb.intact

(* Between two operations the buffer holds exactly what was written and not *)
(* read yet, each message after its length: a message that is too long for  *)
(* the reader is left where it is.                                          *)
HoldsSent ==
    (\A t \in Task : f[t].pc \notin {"sbWrite", "sbReadMessage"}) =>
        Bytes(sb) = FlattenSeq([i \in 1 .. Len(sb.sent) |->
                        (IF sb.message THEN LengthBytes(Len(sb.sent[i])) ELSE << >>) \o sb.sent[i]])

Blocked(t) == k.notify[t] = "waiting" /\ ~IsReady(k, t)

(* A reader does not sleep on data that would wake it, nor a writer on space *)
(* that is enough for it, unless the other side is about to notify it.       *)
NoSleepOnData ==
    \A t \in Task : Blocked(t) /\ f[t].pc = "sbWokeData" =>
        \/ prvBytesInBuffer(sb) < sb.trigger
        \/ prvBytesInBuffer(sb) <= Header(sb)
        \/ \E u \in Task : f[u].pc \in {"sbWritten", "sbSent"}

NoSleepOnSpace ==
    \A t \in Task : Blocked(t) /\ f[t].pc = "sbWokeSpace" =>
        \/ xStreamBufferSpacesAvailable(sb) < f[t].n + Header(sb)
        \/ \E u \in Task : f[u].pc \in {"sbReadMessage", "sbReceived"}

(* The two sides are never asleep at once, each waiting for the other. *)
NotBothAsleep ==
    \A t, u \in Task : Blocked(t) /\ f[t].pc = "sbWokeData" =>
        ~(Blocked(u) /\ f[u].pc = "sbWokeSpace")


(* Neither side sleeps while the other has done what it waits for, and not   *)
(* both sleep.                                                               *)
StreamAwake == NoSleepOnData /\ NoSleepOnSpace /\ NotBothAsleep

=============================================================================
