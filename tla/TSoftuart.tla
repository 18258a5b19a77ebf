----------------------------- MODULE TSoftuart -----------------------------
(***************************************************************************)
(* The software UARTs of extras/tsoftuart: a task turns a character into   *)
(* the times of the changes of its line, and the callbacks of a MAC timer  *)
(* carry them out while the task sleeps for some ticks.  The line of each  *)
(* UART is sampled in the middle of each bit, as its receiver would.       *)
(***************************************************************************)
EXTENDS MacTimer

CONSTANTS
    DATA_BITS,      \* 8
    TD,             \* counts for a bit: uart->td
    FIRST_EDGE,     \* 20: counts from mactimer_arm() to the first edge
    LEAD,           \* 4: counts an edge is asked for too early
    TICK_COUNTS,    \* counts of a tick of the kernel
    PATIENCE        \* 10: ticks waited for output_done

VARIABLE uart       \* [MacTimers -> tsoftuart_t, and the task in tsoftuart_putc]

uartVars == <<macVars, uart>>

Uart == MacTimers

(* pc is "none" before tsoftuart_init.  Ghosts: the character, the samples of  *)
(* its line, and whether its timer was dropped or missed.                      *)
NoUart ==
    [pc |-> "none", level |-> 1, queue |-> << >>, tail |-> 0, done |-> TRUE, start |-> 0,
     wake |-> 0, tries |-> 0, ch |-> << >>, seen |-> << >>, lost |-> FALSE]

UartInit == MacInit /\ uart = [u \in Uart |-> NoUart]

Ticked == mac \div TICK_COUNTS

(* Start bit, data and stop bit, from 0. *)
Frame(ch) == [i \in 0 .. DATA_BITS + 1 |-> IF i = 0 THEN 0 ELSE IF i <= DATA_BITS THEN ch[i] ELSE 1]

(* The offsets of the changes of the line from the start bit. *)
Changes(ch) ==
    LET at == SelectSeq([i \in 1 .. DATA_BITS + 1 |-> i], LAMBDA i : Frame(ch)[i] # Frame(ch)[i - 1])
    IN  [j \in 1 .. Len(at) |-> at[j] * TD]

-----------------------------------------------------------------------------
(* tsoftuart_init starts the list of the MAC timers anew. *)
tsoftuart_init(u) ==
    /\ inNmi = "off" /\ uart[u].pc = "none"
    /\ mactimer_init
    /\ uart' = [v \in Uart |-> IF v = u THEN [NoUart EXCEPT !.pc = "idle"]
                               ELSE [uart[v] EXCEPT !.lost = @ \/ v \in Range(timers.list)]]
    /\ UNCHANGED <<mac, hw, inNmi, late, reading>>

(* tsoftuart_putc, up to its sleep: vTaskDelay(n) ends with the n-th tick. *)
tsoftuart_putc(u, ch) ==
    /\ inNmi = "off" /\ uart[u].pc = "idle"
    /\ mactimer_arm(u, FIRST_EDGE)
    /\ uart' = [uart EXCEPT ![u] =
                   [NoUart EXCEPT !.pc = "sending", !.queue = Changes(ch), !.done = FALSE, !.ch = ch,
                                  !.wake = Ticked + ((DATA_BITS + 3) * TD) \div TICK_COUNTS + 1]]
    /\ UNCHANGED <<mac, inNmi, late, reading>>

(* The rest of it, after each sleep. *)
PutcWakes(u) ==
    /\ inNmi = "off" /\ uart[u].pc = "sending" /\ uart[u].wake <= Ticked
    /\ IF uart[u].done
       THEN uart' = [uart EXCEPT ![u].pc = "idle"] /\ UNCHANGED timers
       ELSE IF uart[u].tries < PATIENCE
       THEN uart' = [uart EXCEPT ![u].tries = @ + 1, ![u].wake = Ticked + 1] /\ UNCHANGED timers
       ELSE /\ mactimer_disarm(u)
            /\ uart' = [uart EXCEPT ![u].pc = "idle", ![u].level = 1]
    /\ UNCHANGED <<mac, hw, inNmi, late, reading>>

(* One turn of the loop of the callback: an edge, and the time of the next,    *)
(* which is made at once if it has passed.                                     *)
output_handler(u) ==
    LET o == [uart[u] EXCEPT !.level = 1 - @, !.start = IF uart[u].tail = 0 THEN mac ELSE @]
        target == o.start + o.queue[o.tail + 1] - LEAD
    IN  /\ inNmi = u
        /\ IF o.tail >= Len(o.queue)
           THEN /\ uart' = [uart EXCEPT ![u] = [o EXCEPT !.done = TRUE]]
                /\ inNmi' = "handler" /\ UNCHANGED timers
           ELSE /\ uart' = [uart EXCEPT ![u] = [o EXCEPT !.tail = @ + 1]]
                /\ IF target >= mac
                   THEN timers' = mactime_add_pending(timers, u, target) /\ inNmi' = "handler"
                   ELSE UNCHANGED <<timers, inNmi>>
        /\ UNCHANGED <<mac, hw, late, reading>>

(* The receiver looks at the line when a tick of the counter has half of a bit *)
(* gone since the start bit.                                                   *)
Sampled(o) ==
    IF o.ch # << >> /\ (o.tail > 0 \/ o.done) /\ Len(o.seen) < DATA_BITS + 2
          /\ mac - o.start = Len(o.seen) * TD + TD \div 2
    THEN [o EXCEPT !.seen = Append(@, o.level)] ELSE o

UartTick == MacTick /\ uart' = [u \in Uart |-> Sampled(uart[u])]

UartStep ==
    \/ (MacNmi \/ mactimer_handler) /\ UNCHANGED uart
    \/ MacMissed /\ uart' = [u \in Uart |-> [uart[u] EXCEPT !.lost = @ \/ u \in Range(timers.list)]]
    \/ \E u \in Uart : PutcWakes(u) \/ output_handler(u)
    \/ UartTick

-----------------------------------------------------------------------------
(* What a receiver sees on each line, until the next character begins, is    *)
(* the character that tsoftuart_putc() was given, start bit, data and stop    *)
(* bit, whatever the other UARTs send at the same time and if the NMI is late *)
(* by no more than LATE, unless another tsoftuart_init() dropped the timer;   *)
(* between characters the line is high and the timer is not on the list.      *)
UartWhole ==
    /\ TimersCovered
    /\ \A u \in Uart :
          /\ uart[u].pc # "sending" => uart[u].level = 1 /\ u \notin Range(timers.list)
          /\ ~uart[u].lost =>
                \A i \in 1 .. Len(uart[u].seen) : uart[u].seen[i] = Frame(uart[u].ch)[i - 1]

=============================================================================
