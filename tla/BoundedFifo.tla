---------------------------- MODULE BoundedFifo ----------------------------
(***************************************************************************)
(* What a queue promises its users: a bounded sequence of items, taken in  *)
(* the order they are in; `got' is what the last operation put in or       *)
(* handed out.                                                             *)
(***************************************************************************)
EXTENDS Integers, Sequences

CONSTANT Item

VARIABLES cap, contents, got

Init == contents = << >> /\ got = << >> /\ cap \in Nat \ {0}

Put(x) == Len(contents) < cap /\ contents' = Append(contents, x) /\ got' = <<"back", x>>

PutFirst(x) == Len(contents) < cap /\ contents' = <<x>> \o contents /\ got' = <<"front", x>>

\* Only for a queue of one item, as xQueueOverwrite asserts.
Replace(x) == cap = 1 /\ contents' = <<x>> /\ got' = <<"overwrite", x>>

Get == /\ contents # << >> /\ contents' = Tail(contents)
       /\ got' = <<"get", Head(contents)>>

Peek == /\ contents # << >> /\ UNCHANGED contents
        /\ got' = <<"peek", Head(contents)>>

Reset == contents' = << >> /\ got' = <<"reset">>

\* Something else happened; or an operation was refused, or is waiting.
Other == UNCHANGED contents /\ got' = << >>

Next == /\ UNCHANGED cap
        /\ \/ \E x \in Item : Put(x) \/ PutFirst(x) \/ Replace(x)
           \/ Get \/ Peek \/ Reset \/ Other

Spec == Init /\ [][Next]_<<cap, contents, got>>
=============================================================================
