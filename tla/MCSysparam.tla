----------------------------- MODULE MCSysparam -----------------------------
(* Small instances of Sysparam for TLC: two keys with 4-byte names, a 4-byte *)
(* and an 8-byte value.                                                      *)
EXTENDS Sysparam

CONSTANTS k1, k2, v1, v2

MCKeys == {k1, k2}
MCValues == {v1, v2}
MCPayloadLen == [x \in MCKeys \cup MCValues |-> IF x = v2 THEN 8 ELSE 4]

=============================================================================
