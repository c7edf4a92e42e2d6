---------------------------- MODULE LeastNumber ----------------------------
(***************************************************************************)
(* Induction without an operator parameter: a set of natural numbers that  *)
(* is not empty has a least element, so that a claim about all of them is  *)
(* proved by looking at the least number it fails for.                     *)
(***************************************************************************)
EXTENDS Integers, FiniteSetTheorems, WellFoundedInduction, TLAPS

(* Numbers are ordered as the intervals that end at them are by inclusion. *)
LEMMA LeastElement ==
    ASSUME NEW T, T \subseteq Nat, T # {}
    PROVE  \E m \in T : \A n \in T : m <= n
<1> DEFINE R == StrictSubsetOrdering(Nat)
           S == {1..n : n \in T}
<1>1. IsWellFoundedOn(R, FiniteSubsetsOf(Nat))
  BY FS_StrictSubsetOrderingWellFounded
<1>2. S \subseteq FiniteSubsetsOf(Nat) /\ S # {}
  <2>1. \A n \in T : 1..n \in FiniteSubsetsOf(Nat)
    BY FS_Interval DEF FiniteSubsetsOf
  <2>2. QED  BY <2>1
<1>3. \A x, y \in SUBSET Nat : <<x, y>> \in R <=> x \subseteq y /\ x # y
  BY DEF StrictSubsetOrdering
<1> HIDE DEF R
<1>4. \E x \in S : \A y \in S : ~ (<<y, x>> \in R)
  <2> HIDE DEF S
  <2>1. QED BY <1>1, <1>2, WFMin
<1>5. PICK m \in T : \A n \in T : ~ (<<1..n, 1..m>> \in R)
  BY <1>4
<1>6. ASSUME NEW n \in T, n < m
      PROVE  FALSE
  <2> HIDE DEF S
  <2>1. /\ 1..n \in SUBSET Nat /\ 1..m \in SUBSET Nat
        /\ 1..n \subseteq 1..m /\ 1..n # 1..m
    <3>1. m \in 1..m /\ m \notin 1..n
      BY <1>6
    <3>2. QED  BY <1>6, <3>1
  <2>2. <<1..n, 1..m>> \in R
    BY <2>1, <1>3
  <2>3. QED  BY <2>2, <1>5
<1>7. QED  BY <1>5, <1>6
=============================================================================
