------------------------------- MODULE NatMin -------------------------------
(* Facts about the smallest and the largest element of a set, for the proof  *)
(* modules.                                                                  *)
EXTENDS FiniteSetsExt, WellFoundedInduction, TLAPS

LEMMA SmallestExists ==
  ASSUME NEW S \in SUBSET Nat, S # {}
  PROVE  \E x \in S : \A y \in S : x =< y
<1> DEFINE R == {ss \in Nat \X Nat : ss[1] < ss[2]}
<1>1. IsWellFoundedOn(R, Nat)
  BY NatLessThanWellFounded, Zenon DEF OpToRel
<1>2. PICK x \in S : \A y \in S : ~(<<y, x>> \in R)
  BY <1>1, WFMin, Zenon
<1>3. ASSUME NEW y \in S PROVE x =< y
  <2>1. <<y, x>> \in Nat \X Nat /\ ~(<<y, x>> \in R)
    BY <1>2
  <2>2. ~(y < x)
    BY <2>1
  <2> QED BY <2>2
<1> QED BY <1>3

(* The smallest element of a set of naturals, which is what the models take  *)
(* for "the oldest" and "the first in the list", exists.                     *)
LEMMA MinIsMember ==
  ASSUME NEW S \in SUBSET Nat, S # {}
  PROVE  Min(S) \in S
<1>1. \E x \in S : \A y \in S : x =< y
  BY SmallestExists
<1> QED BY <1>1, Zenon DEF Min

(* So does the largest position of some kind in a stream.                    *)
LEMMA LargestExists ==
  ASSUME NEW n \in Nat, NEW S \in SUBSET (0..n), S # {}
  PROVE  \E x \in S : \A y \in S : y =< x
<1> DEFINE T == {n - x : x \in S}
<1>1. T \in SUBSET Nat /\ T # {}
  <2>1. \A x \in S : n - x \in Nat
    OBVIOUS
  <2>2. PICK x \in S : TRUE
    OBVIOUS
  <2>3. n - x \in T
    OBVIOUS
  <2> QED BY <2>1, <2>3
<1>2. PICK m \in T : \A y \in T : m =< y
  <2> HIDE DEF T
  <2> QED BY <1>1, SmallestExists
<1>3. PICK x \in S : m = n - x
  BY <1>2
<1>4. ASSUME NEW y \in S PROVE y =< x
  <2>1. m =< n - y
    BY <1>2
  <2> QED BY <1>3, <2>1
<1> QED BY <1>4
=============================================================================
