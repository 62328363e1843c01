----------------------------- MODULE NatLemmas -------------------------------
(***************************************************************************)
(* The least and the greatest element of a set of natural numbers, and     *)
(* induction as the absence of a least counterexample.                     *)
(***************************************************************************)
EXTENDS Integers, WellFoundedInduction, TLAPS

\* A set of natural numbers that is not empty has a least element.
LEMMA LeastExists ==
  ASSUME NEW S \in SUBSET Nat, S # {}
  PROVE  \E x \in S : \A y \in S : x <= y
<1>1. \E x \in S : \A y \in S : ~(<<y, x>> \in OpToRel(<, Nat))
  BY NatLessThanWellFounded, WFMin, Zenon
<1>2. \A x, y \in S : <<y, x>> \notin OpToRel(<, Nat) => x <= y
  BY DEF OpToRel
<1> QED
  BY <1>1, <1>2, Zenon

\* One that is bounded has a greatest element too.
LEMMA GreatestExists ==
  ASSUME NEW S \in SUBSET Nat, S # {}, NEW n \in Nat, \A x \in S : x <= n
  PROVE  \E x \in S : \A y \in S : y <= x
<1> DEFINE T == {n - x : x \in S}
<1>0. PICK z \in S : TRUE
  OBVIOUS
<1>a. \A x \in S : n - x \in Nat
  OBVIOUS
<1>b. n - z \in T
  BY <1>0
<1>1. T \in SUBSET Nat /\ T # {}
  BY <1>a, <1>b, Zenon
<1>2. PICK t \in T : \A u \in T : t <= u
  BY <1>1, LeastExists, Zenon
<1>3. PICK x \in S : t = n - x
  OBVIOUS
<1>4. \A y \in S : n - x <= n - y
  BY <1>2, <1>3
<1>5. ASSUME NEW y \in S PROVE y <= x
  <2>1. n - x <= n - y /\ x \in Nat /\ y \in Nat
    BY <1>4
  <2> QED
    BY <2>1
<1> QED
  BY <1>5
==============================================================================
