------------------------------ MODULE Extremes ------------------------------
(***************************************************************************)
(* Least and greatest elements of sets of numbers, for the proofs that     *)
(* need the first or the last of something: the step from a finite range   *)
(* to one of its elements that the provers do not make by themselves.      *)
(***************************************************************************)
EXTENDS Integers, TLAPS, WellFoundedInduction

\* A set of natural numbers that is not empty has a least one.
LEMMA LeastNatural ==
    ASSUME NEW T, T \subseteq Nat, T # {}
    PROVE  \E y \in T : \A z \in T : y <= z
<1> DEFINE R == OpToRel(<, Nat)
<1>1. \E y \in T : \A z \in T : ~(<<z, y>> \in R)
    BY NatLessThanWellFounded, WFMin
<1>2. R = {ss \in Nat \X Nat : ss[1] < ss[2]}
    BY Zenon DEF OpToRel
<1> HIDE DEF R
<1>3. PICK y \in T : \A z \in T : ~(<<z, y>> \in R)
    BY <1>1
<1>4. ASSUME NEW z \in T
      PROVE  y <= z
  <2>1. z \in Nat /\ y \in Nat /\ <<z, y>> \in Nat \X Nat
      OBVIOUS
  <2>2. ~(z < y)
      BY <1>2, <1>3, <2>1
  <2> QED BY <2>1, <2>2
<1> QED BY <1>4

\* A set of numbers up to n that is not empty has a greatest one.
LEMMA GreatestBelow ==
    ASSUME NEW n \in Nat, NEW S, S \subseteq 0..n, S # {}
    PROVE  \E m \in S : \A z \in S : m >= z
<1> DEFINE T == {n - x : x \in S}
<1>1. T \subseteq Nat /\ T # {}
  <2>1. \A x \in S : n - x \in Nat
      OBVIOUS
  <2> QED BY <2>1
<1>2. PICK y \in T : \A z \in T : y <= z
  <2> HIDE DEF T
  <2> QED BY <1>1, LeastNatural
<1>3. PICK m \in S : y = n - m
    OBVIOUS
<1>4. ASSUME NEW x \in S PROVE m >= x
  <2>1. n - x \in T
      OBVIOUS
  <2>2. n - m <= n - x
      BY <1>2, <1>3, <2>1
  <2> QED BY <2>2
<1> QED BY <1>4

=============================================================================
