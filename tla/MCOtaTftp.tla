------------------------------ MODULE MCOtaTftp ------------------------------
(* OtaTftp with slots of four blocks and two blocks to a sector.  The images *)
(* end in a short block, in an empty block, and past the end of the slot;    *)
(* one of them is not valid.  In one scenario a single peer may retransmit   *)
(* and may send any image; in the other two peers compete, each with the     *)
(* short image or the invalid one.                                           *)
EXTENDS OtaTftp

CONSTANTS short, even, large, bad, p1, p2

VARIABLE two    \* the scenario

MCLen == [i \in Images |-> CASE i = short -> 1000
                             [] i = even -> 1024
                             [] i = large -> 2600
                             [] i = bad -> 700]

MCInit == Init /\ two \in BOOLEAN /\ (two => Holds(running, short) /\ running = 0)

\* Only environment steps are left out.
Scenario ==
    IF two THEN \A p \in Ports : peer'[p].img \in {"none", short, bad} /\ peer'[p].sent = 0
           ELSE peer'[p2] = Idle

MCNext == Next /\ Scenario /\ UNCHANGED two

MCSpec == MCInit /\ [][MCNext]_<<vars, two>> /\ WF_vars(Device)
=============================================================================
