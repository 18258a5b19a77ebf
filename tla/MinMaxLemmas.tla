---------------------------- MODULE MinMaxLemmas ----------------------------
(***************************************************************************)
(* Facts about the least and the greatest element of a set of numbers that *)
(* the searches of the other modules rest on.                              *)
(***************************************************************************)
EXTENDS Integers, FiniteSetsExt, WellFoundedInduction, TLAPS

\* Every non-empty set of natural numbers has a least element, which Min()
\* picks.
LEMMA MinIsLeast ==
    ASSUME NEW T \in SUBSET Nat, T # {}
    PROVE  Min(T) \in T /\ \A y \in T : Min(T) <= y
<1>1. IsWellFoundedOn(OpToRel(<, Nat), Nat)
  BY NatLessThanWellFounded
<1>2. PICK x \in T : \A y \in T : ~(<<y, x>> \in OpToRel(<, Nat))
  BY <1>1, WFMin
<1>3. \A y \in T : ~(y < x)
  BY <1>2 DEF OpToRel
<1>4. \A y \in T : x <= y
  BY <1>3
<1> QED
  BY <1>4 DEF Min

\* Every non-empty bounded set of natural numbers has a greatest element,
\* which Max() picks.
LEMMA MaxIsGreatest ==
    ASSUME NEW n \in Nat, NEW T \in SUBSET (0 .. n), T # {}
    PROVE  Max(T) \in T /\ \A y \in T : y <= Max(T)
<1> DEFINE U == {n - t : t \in T}
<1>1. \A t \in T : t \in Nat /\ n - t \in Nat
  OBVIOUS
<1>2. U \in SUBSET Nat
  BY <1>1
<1>3. U # {}
  OBVIOUS
<1>4. Min(U) \in U /\ \A y \in U : Min(U) <= y
  BY <1>2, <1>3, MinIsLeast
<1>5. PICK x \in T : Min(U) = n - x
  BY <1>4
<1>6. \A y \in T : n - x <= n - y
  BY <1>4, <1>5
<1>7. \A y \in T : x >= y
  BY <1>1, <1>6
<1>8. Max(T) \in T /\ \A y \in T : Max(T) >= y
  BY <1>7 DEF Max
<1> QED
  BY <1>1, <1>8

=============================================================================
