---------------------------- MODULE NaturalLemmas ----------------------------
(* Least and greatest elements of sets of natural numbers.                   *)
EXTENDS Integers, FiniteSetTheorems, WellFoundedInduction, TLAPS

\* A set of naturals that is not empty has a least element.
LEMMA LeastNat ==
  ASSUME NEW S \in SUBSET Nat, S # {}
  PROVE  \E x \in S : \A y \in S : x <= y
<1>1. IsWellFoundedOn(OpToRel(<, Nat), Nat) BY NatLessThanWellFounded
<1>2. PICK x \in S : \A y \in S : <<y, x>> \notin OpToRel(<, Nat) BY <1>1, WFMin
<1>3. \A y \in S : ~(y < x) BY <1>2 DEF OpToRel
<1> QED BY <1>3

\* One that has an upper bound has a greatest element.
LEMMA GreatestNat ==
  ASSUME NEW n \in Nat, NEW S \in SUBSET (0..n), S # {}
  PROVE  \E x \in S : \A y \in S : y <= x
<1> DEFINE R == {n - x : x \in S}
<1>1. R \in SUBSET Nat /\ R # {}
  <2>1. \A x \in S : x \in 0..n OBVIOUS
  <2>2. \A x \in S : n - x \in Nat BY <2>1
  <2> QED BY <2>2
<1>2. \E u \in R : \A v \in R : u <= v
  <2> HIDE DEF R
  <2> QED BY <1>1, LeastNat
<1>3. PICK x \in S : \A v \in R : n - x <= v BY <1>2
<1>4. ASSUME NEW y \in S PROVE y <= x
  <2>1. n - y \in R OBVIOUS
  <2>2. n - x <= n - y /\ x \in Int /\ y \in Int BY <1>3, <2>1
  <2> QED BY <2>2
<1> QED BY <1>4

\* A finite set of naturals has an upper bound.
HasBound(S) == \E n \in Nat : \A k \in S : k <= n

LEMMA FiniteIsBounded ==
  ASSUME NEW S \in SUBSET Nat, IsFiniteSet(S)
  PROVE  HasBound(S)
<1> DEFINE Sizes == {n \in Nat : \E T \in SUBSET Nat : /\ IsFiniteSet(T) /\ Cardinality(T) = n
                                                       /\ ~HasBound(T)}
<1> SUFFICES ASSUME ~HasBound(S) PROVE FALSE OBVIOUS
<1>1. Cardinality(S) \in Sizes BY FS_CardinalityType
<1>2. Sizes \in SUBSET Nat /\ Sizes # {} BY <1>1
<1>3. PICK n \in Sizes : \A m \in Sizes : n <= m
  <2> HIDE DEF Sizes
  <2> QED BY <1>2, LeastNat
<1>4. PICK T \in SUBSET Nat : IsFiniteSet(T) /\ Cardinality(T) = n /\ ~HasBound(T) OBVIOUS
<1>5. T # {} BY <1>4 DEF HasBound
<1>6. PICK x \in T : TRUE BY <1>5
<1> DEFINE R == T \ {x}
<1>7. IsFiniteSet(R) /\ Cardinality(R) = n - 1 BY <1>4, <1>6, FS_RemoveElement
<1>8. Cardinality(R) \in Nat BY <1>7, FS_CardinalityType
<1>9. HasBound(R)
  <2> SUFFICES ASSUME ~HasBound(R) PROVE FALSE OBVIOUS
  <2>1. n - 1 \in Sizes BY <1>7, <1>8
  <2> QED BY <2>1, <1>3
<1>10. PICK b \in Nat : \A k \in R : k <= b BY <1>9 DEF HasBound
<1>11. b + x \in Nat /\ \A k \in T : k <= b + x BY <1>10
<1> QED BY <1>4, <1>11 DEF HasBound

\* It is empty or has a greatest element.
LEMMA GreatestOfFinite ==
  ASSUME NEW S \in SUBSET Nat, IsFiniteSet(S), S # {}
  PROVE  \E x \in S : \A y \in S : y <= x
<1>1. PICK n \in Nat : \A k \in S : k <= n BY FiniteIsBounded DEF HasBound
<1>2. S \in SUBSET (0..n) BY <1>1
<1> QED BY <1>2, GreatestNat
=============================================================================
