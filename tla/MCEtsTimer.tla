----------------------------- MODULE MCEtsTimer -----------------------------
(***************************************************************************)
(* The timers below the kernel, which share no state: each behaviour       *)
(* exercises one of Units, "ets", EtsTimer with two timers of one          *)
(* application task, "uart", two software UARTs on the MAC timers, or      *)
(* "mactime", a task that reads the counter of the latter.                 *)
(***************************************************************************)
EXTENDS EtsTimer, TSoftuart

CONSTANTS a, b, app, u1, u2, Units

VARIABLE unit

OwnedByApp == [t \in Timers |-> app]

MCInit == Init /\ UartInit /\ unit \in Units

(* One UART is there from the start, the other comes later. *)
UartUsers ==
    \/ mac = 0 /\ tsoftuart_init(u1)
    \/ mac < 12 /\ tsoftuart_init(u2)
    \/ mac % TICK_COUNTS \in {0, 6} /\ \E ch \in {<<0, 1>>, <<1, 1>>} : tsoftuart_putc(u1, ch)
    \/ tsoftuart_putc(u2, <<1, 0>>)

(* The bound on the counter. *)
MacEnds == mac = MAX_COUNT /\ UNCHANGED uartVars

MCNext ==
    /\ \/ unit = "ets" /\ Next /\ UNCHANGED uartVars
       \/ unit = "uart" /\ (UartUsers \/ UartStep \/ MacEnds) /\ UNCHANGED vars
       \/ /\ unit = "mactime"
          /\ ((mactime_get_count \/ MacTick) /\ UNCHANGED uart) \/ MacEnds
          /\ UNCHANGED vars
    /\ UNCHANGED unit

MCSpec == MCInit /\ [][MCNext]_<<vars, uartVars, unit>>

=============================================================================
