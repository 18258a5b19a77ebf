----------------------------- MODULE PortProofs -----------------------------
(***************************************************************************)
(* The critical sections and the yield of the port layer, for any nesting  *)
(* of sections and any number of messages from the NMI.                    *)
(***************************************************************************)
EXTENDS Port, TLAPS

InIsr == {"mac", "macDone", "macWoken", "soft", "switch"}

PortTypes ==
    /\ nesting \in Int /\ depth \in Nat
    /\ disabled \in BOOLEAN /\ soft \in BOOLEAN /\ wants \in BOOLEAN
    /\ nmi \in {"idle", "critical"}
    /\ pending \in [soft : BOOLEAN, mac : BOOLEAN]
    /\ ctx \in {"task", "entering", "leaving"} \cup InIsr

(* uxCriticalNesting counts the sections of the task and that of the NMI;    *)
(* interrupts are disabled just where a task is in a section, or half way.   *)
Sections ==
    /\ nesting = depth + (IF nmi = "critical" THEN 1 ELSE 0)
    /\ disabled => depth > 0 \/ ctx \in {"entering", "leaving"}
    /\ depth > 0 \/ ctx \in {"entering", "leaving"} => disabled

(* A switch that is asked for is recorded, and what is recorded is seen. *)
Recorded ==
    /\ wants => pending.soft \/ ctx \in {"macWoken", "switch"}
    /\ pending.soft => soft \/ ctx \in InIsr

PortInv == PortTypes /\ Sections /\ Recorded

LEMMA TypesKept == PortTypes /\ [PortNext]_portVars => PortTypes'
<1> SUFFICES ASSUME PortTypes, [PortNext]_portVars PROVE PortTypes'
  OBVIOUS
<1> USE DEF PortTypes, InIsr
<1>1. CASE vPortEnterCritical
  BY <1>1 DEF vPortEnterCritical, portDISABLE_INTERRUPTS
<1>2. CASE Entered
  BY <1>2 DEF Entered
<1>3. CASE vPortExitCritical
  BY <1>3 DEF vPortExitCritical
<1>4. CASE Left
  BY <1>4 DEF Left, portENABLE_INTERRUPTS
<1>5. CASE PendSV
  BY <1>5 DEF PendSV
<1>6. CASE SV_ISR
  BY <1>6 DEF SV_ISR
<1>7. CASE sdk_MacIsrSigPostDefHdl
  BY <1>7 DEF sdk_MacIsrSigPostDefHdl
<1>8. CASE MacDone
  BY <1>8 DEF MacDone
<1>9. CASE SoftDone
  BY <1>9 DEF SoftDone
<1>10. CASE sdk__xt_timer_int1
  BY <1>10 DEF sdk__xt_timer_int1
<1>11. CASE NmiPost
  BY <1>11 DEF NmiPost
<1>12. CASE NmiEnter
  BY <1>12 DEF NmiEnter
<1>13. CASE NmiExit
  BY <1>13 DEF NmiExit, portENABLE_INTERRUPTS
<1>14. CASE UNCHANGED portVars
  BY <1>14 DEF portVars
<1> QED BY <1>1, <1>2, <1>3, <1>4, <1>5, <1>6, <1>7, <1>8, <1>9, <1>10, <1>11, <1>12,
           <1>13, <1>14 DEF PortNext

LEMMA SectionsKept == PortTypes /\ Sections /\ [PortNext]_portVars => Sections'
<1> SUFFICES ASSUME PortTypes, Sections, [PortNext]_portVars PROVE Sections'
  OBVIOUS
<1> USE DEF PortTypes, Sections, InIsr
<1>1. CASE vPortEnterCritical
  BY <1>1 DEF vPortEnterCritical, portDISABLE_INTERRUPTS
<1>2. CASE Entered
  BY <1>2 DEF Entered
<1>3. CASE vPortExitCritical
  BY <1>3 DEF vPortExitCritical
<1>4. CASE Left
  <2>1. nesting = depth /\ ctx' = "task" /\ disabled /\ nmi' = nmi /\ nesting' = nesting /\ depth' = depth
    BY <1>4 DEF Left
  <2>2. CASE nesting = 0
    BY <1>4, <2>1, <2>2 DEF Left, portENABLE_INTERRUPTS
  <2>3. CASE nesting # 0
    BY <1>4, <2>1, <2>3 DEF Left
  <2> QED BY <2>2, <2>3
<1>5. CASE PendSV
  BY <1>5 DEF PendSV
<1>6. CASE SV_ISR
  BY <1>6 DEF SV_ISR
<1>7. CASE sdk_MacIsrSigPostDefHdl
  BY <1>7 DEF sdk_MacIsrSigPostDefHdl
<1>8. CASE MacDone
  BY <1>8 DEF MacDone
<1>9. CASE SoftDone
  BY <1>9 DEF SoftDone
<1>10. CASE sdk__xt_timer_int1
  BY <1>10 DEF sdk__xt_timer_int1
<1>11. CASE NmiPost
  BY <1>11 DEF NmiPost
<1>12. CASE NmiEnter
  BY <1>12 DEF NmiEnter
<1>13. CASE NmiExit
  BY <1>13 DEF NmiExit, portENABLE_INTERRUPTS
<1>14. CASE UNCHANGED portVars
  BY <1>14 DEF portVars
<1> QED BY <1>1, <1>2, <1>3, <1>4, <1>5, <1>6, <1>7, <1>8, <1>9, <1>10, <1>11, <1>12,
           <1>13, <1>14 DEF PortNext

LEMMA RecordedKept == PortTypes /\ Recorded /\ [PortNext]_portVars => Recorded'
<1> SUFFICES ASSUME PortTypes, Recorded, [PortNext]_portVars PROVE Recorded'
  OBVIOUS
<1> USE DEF PortTypes, Recorded, InIsr
<1>1. CASE vPortEnterCritical
  BY <1>1 DEF vPortEnterCritical
<1>2. CASE Entered
  BY <1>2 DEF Entered
<1>3. CASE vPortExitCritical
  BY <1>3 DEF vPortExitCritical
<1>4. CASE Left
  BY <1>4 DEF Left
<1>5. CASE PendSV
  BY <1>5 DEF PendSV
<1>6. CASE SV_ISR
  BY <1>6 DEF SV_ISR
<1>7. CASE sdk_MacIsrSigPostDefHdl
  BY <1>7 DEF sdk_MacIsrSigPostDefHdl
<1>8. CASE MacDone
  BY <1>8 DEF MacDone
<1>9. CASE SoftDone
  BY <1>9 DEF SoftDone
<1>10. CASE sdk__xt_timer_int1
  BY <1>10 DEF sdk__xt_timer_int1
<1>11. CASE NmiPost
  BY <1>11 DEF NmiPost
<1>12. CASE NmiEnter
  BY <1>12 DEF NmiEnter
<1>13. CASE NmiExit
  BY <1>13 DEF NmiExit
<1>14. CASE UNCHANGED portVars
  BY <1>14 DEF portVars
<1> QED BY <1>1, <1>2, <1>3, <1>4, <1>5, <1>6, <1>7, <1>8, <1>9, <1>10, <1>11, <1>12,
           <1>13, <1>14 DEF PortNext

LEMMA PortInvariant == PortSpec => []PortInv
<1>1. PortInit => PortInv
  <2> SUFFICES ASSUME PortInit PROVE PortInv
    OBVIOUS
  <2>1. PortTypes
    <3>1. pending \in [soft : BOOLEAN, mac : BOOLEAN]
      BY DEF PortInit
    <3>2. disabled \in BOOLEAN /\ soft \in BOOLEAN /\ wants \in BOOLEAN
      BY Zenon DEF PortInit
    <3>3. nesting \in Int /\ depth \in Nat
      BY DEF PortInit
    <3> QED BY <3>1, <3>2, <3>3 DEF PortInit, PortTypes
  <2>2. Sections
    BY DEF PortInit, Sections
  <2>3. Recorded
    BY DEF PortInit, Recorded
  <2> QED BY <2>1, <2>2, <2>3 DEF PortInv
<1>2. PortInv /\ [PortNext]_portVars => PortInv'
  BY TypesKept, SectionsKept, RecordedKept DEF PortInv
<1> QED BY <1>1, <1>2, PTL DEF PortSpec

(* Interrupts are disabled throughout a critical section, for any depth of   *)
(* vPortEnterCritical and vPortExitCritical and wherever the NMI has a       *)
(* section of its own.                                                       *)
THEOREM CriticalHoldsThm == PortSpec => []CriticalHolds
<1>1. PortInv => CriticalHolds
  BY DEF PortInv, PortTypes, Sections, CriticalHolds
<1> QED BY <1>1, PortInvariant, PTL

(* No yield that PendSV or the MAC handler asks for is lost by SV_ISR. *)
THEOREM YieldPendingThm == PortSpec => []YieldPending
<1>1. PortInv => YieldPending
  BY DEF PortInv, Recorded, YieldPending, InIsr
<1> QED BY <1>1, PortInvariant, PTL

(* Together: the critical sections of the port layer hold and no yield is    *)
(* lost.                                                                     *)
THEOREM PortHoldsThm == PortSpec => []PortHolds
<1>1. CriticalHolds /\ YieldPending => PortHolds
  BY DEF PortHolds
<1> QED BY <1>1, CriticalHoldsThm, YieldPendingThm, PTL

=============================================================================
