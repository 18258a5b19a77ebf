----------------------------- MODULE QueueRing -----------------------------
(***************************************************************************)
(* The storage of a queue (FreeRTOS/Source/queue.c): len items, pcWriteTo  *)
(* where the next item goes and pcReadFrom just before the oldest one.     *)
(***************************************************************************)
EXTENDS Integers, Sequences

CONSTANT Item   \* what queues carry

Storage(len) == 0 .. len - 1

\* Mutant: pcReadFrom is left where it was.
EmptyRingKeepsRead(x) == [x EXCEPT !.n = 0, !.w = 0]

(* Where xQueueGenericReset puts the pointers. *)
EmptyRing(x) == [x EXCEPT !.n = 0, !.w = 0, !.r = x.len - 1]

(* prvCopyDataToQueue of an item: to the back, to the front, or over the one *)
(* item there is.                                                            *)
CopyIn(x, item, pos) ==
    IF pos = "back"
    THEN [x EXCEPT !.buf[x.w] = item, !.n = @ + 1,
                   !.w = IF @ + 1 >= x.len THEN 0 ELSE @ + 1]
    ELSE [x EXCEPT !.buf[x.r] = item,
                   !.r = IF @ - 1 < 0 THEN x.len - 1 ELSE @ - 1,
                   !.n = IF pos = "overwrite" /\ @ > 0 THEN @ ELSE @ + 1]

(* prvCopyDataFromQueue: the read pointer after it, and the item it copies.  *)
NextRead(x) == IF x.r + 1 >= x.len THEN 0 ELSE x.r + 1

(* The items in the queue, oldest first. *)
Contents(x) ==
    [i \in 1 .. x.n |-> x.buf[IF x.r + i >= x.len THEN x.r + i - x.len ELSE x.r + i]]

=============================================================================
