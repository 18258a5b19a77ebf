-------------------------------- MODULE Port --------------------------------
(***************************************************************************)
(* The ESP8266 port of FreeRTOS below the kernel (portable/esp8266):       *)
(* critical sections that nest, the software interrupt that switches tasks *)
(* and hands on what the Wi-Fi NMI has stashed away.  The NMI may come     *)
(* between any two steps; the software interrupt only where interrupts are *)
(* enabled, and not within itself.                                         *)
(***************************************************************************)
EXTENDS Integers

CONSTANTS MAX_NESTING, MAX_STASH    \* bounds

VARIABLES
    nesting,    \* uxCriticalNesting
    disabled,   \* level1_int_disabled
    nmi,        \* where the NMI is; sdk_NMIIrqIsOn while it is not idle
    soft,       \* the software interrupt is raised
    pending,    \* [soft |-> pending_soft_sv, mac |-> pending_maclayer_sv]
    ctx,        \* where the level-1 code, a task or SV_ISR, is
    stash,      \* ghost: messages that the NMI has stashed away
    depth,      \* ghost: the critical sections the running task is in
    wants       \* ghost: a task switch was asked for and not yet done

portVars == <<nesting, disabled, nmi, soft, pending, ctx, stash, depth, wants>>

PortInit ==
    /\ nesting = 0 /\ disabled = FALSE /\ nmi = "idle" /\ soft = FALSE
    /\ pending = [soft |-> FALSE, mac |-> FALSE]
    /\ ctx = "task" /\ stash = 0 /\ depth = 0 /\ wants = FALSE

portDISABLE_INTERRUPTS == disabled' = IF nmi = "idle" THEN TRUE ELSE disabled
portENABLE_INTERRUPTS == disabled' = IF nmi = "idle" THEN FALSE ELSE disabled

-----------------------------------------------------------------------------
(* The running task.  vPortEnterCritical and vPortExitCritical take two      *)
(* steps each, and the NMI may come between them.                            *)

vPortEnterCritical ==
    /\ nmi = "idle" /\ ctx = "task" /\ depth < MAX_NESTING
    /\ portDISABLE_INTERRUPTS
    /\ ctx' = "entering"
    /\ UNCHANGED <<nesting, nmi, soft, pending, stash, depth, wants>>

Entered ==
    /\ nmi = "idle" /\ ctx = "entering"
    /\ nesting' = nesting + 1 /\ depth' = depth + 1
    /\ ctx' = "task"
    /\ UNCHANGED <<disabled, nmi, soft, pending, stash, wants>>

vPortExitCritical ==
    /\ nmi = "idle" /\ ctx = "task" /\ depth > 0
    /\ nesting' = nesting - 1 /\ depth' = depth - 1
    /\ ctx' = "leaving"
    /\ UNCHANGED <<disabled, nmi, soft, pending, stash, wants>>

\* Mutant: the inner section enables interrupts as well.
LeftEnabled ==
    /\ nmi = "idle" /\ ctx = "leaving"
    /\ portENABLE_INTERRUPTS
    /\ ctx' = "task"
    /\ UNCHANGED <<nesting, nmi, soft, pending, stash, depth, wants>>

Left ==
    /\ nmi = "idle" /\ ctx = "leaving"
    /\ IF nesting = 0 THEN portENABLE_INTERRUPTS ELSE UNCHANGED disabled
    /\ ctx' = "task"
    /\ UNCHANGED <<nesting, nmi, soft, pending, stash, depth, wants>>

(* portYIELD, inside a critical section or with one of its own: PendSV. *)
PendSV ==
    /\ nmi = "idle" /\ ctx = "task" /\ depth > 0
    /\ pending' = [pending EXCEPT !.soft = TRUE] /\ soft' = TRUE
    /\ wants' = TRUE
    /\ UNCHANGED <<nesting, disabled, nmi, ctx, stash, depth>>

-----------------------------------------------------------------------------
(* SV_ISR.  sdk_MacIsrSigPostDefHdl hands on all that is stashed away;       *)
(* sdk__xt_timer_int1 switches tasks.                                        *)

SV_ISR ==
    /\ nmi = "idle" /\ ctx = "task" /\ ~disabled /\ soft
    /\ soft' = FALSE
    /\ ctx' = IF pending.mac THEN "mac" ELSE "soft"
    /\ UNCHANGED <<nesting, disabled, nmi, pending, stash, depth, wants>>

sdk_MacIsrSigPostDefHdl ==
    /\ nmi = "idle" /\ ctx = "mac"
    /\ stash' = 0
    /\ \E woken \in BOOLEAN : wants' = (wants \/ woken) /\ ctx' = IF woken THEN "macWoken" ELSE "macDone"
    /\ UNCHANGED <<nesting, disabled, nmi, soft, pending, depth>>

MacDone ==
    /\ nmi = "idle" /\ ctx \in {"macDone", "macWoken"}
    /\ pending' = [pending EXCEPT !.mac = FALSE]
    /\ ctx' = IF ctx = "macWoken" THEN "switch" ELSE "soft"
    /\ UNCHANGED <<nesting, disabled, nmi, soft, stash, depth, wants>>

SoftDone ==
    /\ nmi = "idle" /\ ctx = "soft"
    /\ ctx' = IF pending.soft THEN "switch" ELSE "task"
    /\ UNCHANGED <<nesting, disabled, nmi, soft, pending, stash, depth, wants>>

sdk__xt_timer_int1 ==
    /\ nmi = "idle" /\ ctx = "switch"
    /\ wants' = FALSE
    /\ pending' = [pending EXCEPT !.soft = FALSE]
    /\ ctx' = "task"
    /\ UNCHANGED <<nesting, disabled, nmi, soft, stash, depth>>

-----------------------------------------------------------------------------
(* The NMI: it stashes a message away and posts it, or, "in exceptional      *)
(* paths such as aborts and debug code", goes through a critical section.    *)

NmiPost ==
    /\ nmi = "idle" /\ stash < MAX_STASH
    /\ stash' = stash + 1
    /\ pending' = [pending EXCEPT !.mac = TRUE] /\ soft' = TRUE
    /\ UNCHANGED <<nesting, disabled, nmi, ctx, depth, wants>>

NmiEnter ==
    /\ nmi = "idle" /\ nmi' = "critical"
    /\ nesting' = nesting + 1
    /\ UNCHANGED <<disabled, soft, pending, ctx, stash, depth, wants>>

NmiExit ==
    /\ nmi = "critical" /\ nmi' = "idle"
    /\ nesting' = nesting - 1
    /\ IF nesting' = 0 THEN portENABLE_INTERRUPTS ELSE UNCHANGED disabled
    /\ UNCHANGED <<soft, pending, ctx, stash, depth, wants>>

PortNext ==
    \/ vPortEnterCritical \/ Entered \/ vPortExitCritical \/ Left \/ PendSV
    \/ SV_ISR \/ sdk_MacIsrSigPostDefHdl \/ MacDone \/ SoftDone \/ sdk__xt_timer_int1
    \/ NmiPost \/ NmiEnter \/ NmiExit

PortSpec == PortInit /\ [][PortNext]_portVars

-----------------------------------------------------------------------------
(* Interrupts are disabled throughout a critical section of a task, however  *)
(* sections nest and wherever the NMI goes through one of its own; and       *)
(* outside of one they are enabled.                                          *)
CriticalHolds ==
    /\ depth > 0 => disabled
    /\ depth = 0 /\ ctx \notin {"entering", "leaving"} => ~disabled

(* No yield is lost: a switch that was asked for and is not done yet has a   *)
(* software interrupt raised for it, or SV_ISR has yet to look.              *)
YieldPending == wants => soft \/ ctx \in {"mac", "macDone", "macWoken", "soft", "switch"}

(* What the port layer owes the kernel: critical sections that hold, and     *)
(* every switch that was asked for.                                          *)
PortHolds == CriticalHolds /\ YieldPending

(* "a pending interrupt service callback which flushs the queue of messages  *)
(* that the NMI stashes away": what is stashed has an interrupt raised that  *)
(* will see pending_maclayer_sv.                                             *)
StashFlushed == stash > 0 => ctx = "mac" \/ (pending.mac /\ (soft \/ ctx = "macDone"))

=============================================================================
