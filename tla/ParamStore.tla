----------------------------- MODULE ParamStore -----------------------------
(***************************************************************************)
(* What core/sysparam.c promises its callers: a map from key names to      *)
(* values in which one call of sysparam_set_data() changes one entry.      *)
(* While the call is in progress the old value may be gone and the new one *)
(* not there yet (a compaction leaves the old value behind); when it       *)
(* returns SYSPARAM_OK the value is there, and when it is refused the      *)
(* value is the old one.                                                   *)
(***************************************************************************)
CONSTANTS Keys, Values, None

VARIABLES
    store,   \* the value of each key, None if it has none
    call     \* the call in progress: key, value, and the value it found

NoCall == [key |-> None, val |-> None, was |-> None]

Busy == call.key # None

Init ==
    /\ store = [k \in Keys |-> None]
    /\ call = NoCall

Begin(k, v) ==
    /\ ~Busy
    /\ call' = [key |-> k, val |-> v, was |-> store[k]]
    /\ UNCHANGED store

Drop ==
    /\ Busy
    /\ store' = [store EXCEPT ![call.key] = None]
    /\ UNCHANGED call

Write ==
    /\ Busy
    /\ store' = [store EXCEPT ![call.key] = call.val]
    /\ call' \in {call, NoCall}

Succeed ==
    /\ Busy /\ store[call.key] = call.val
    /\ call' = NoCall
    /\ UNCHANGED store

Refuse ==
    /\ Busy /\ store[call.key] = call.was
    /\ call' = NoCall
    /\ UNCHANGED store

Next ==
    \/ \E k \in Keys, v \in Values : Begin(k, v)
    \/ Drop \/ Write \/ Succeed \/ Refuse

Spec == Init /\ [][Next]_<<store, call>>

=============================================================================
