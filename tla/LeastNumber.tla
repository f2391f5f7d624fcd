---------------------------- MODULE LeastNumber ----------------------------
(***************************************************************************)
(* Every set of natural numbers has a least one: the first file of a job,  *)
(* the last record of a page.                                              *)
(***************************************************************************)
EXTENDS Integers, WellFoundedInduction, TLAPS

\* The library's theorem, with the order as a set of pairs.
LEMMA LessIsWellFounded == IsWellFoundedOn({p \in Nat \X Nat : p[1] < p[2]}, Nat)
  BY NatLessThanWellFounded, Zenon DEF OpToRel

\* The least number of a set, which exists.
LEMMA MinExists ==
  ASSUME NEW T \in SUBSET Nat, T # {}
  PROVE  \E x \in T : \A y \in T : x <= y
<1> DEFINE R == {p \in Nat \X Nat : p[1] < p[2]}
<1>1. IsWellFoundedOn(R, Nat)
  BY LessIsWellFounded
<1>2. PICK x \in T : \A y \in T : ~(<<y, x>> \in R)
  <2> HIDE DEF R
  <2> QED BY <1>1, WFMin
<1>3. ASSUME NEW y \in T PROVE x <= y
  <2>1. <<y, x>> \in Nat \X Nat /\ ~(<<y, x>> \in R)
    BY <1>2
  <2>2. ~(y < x)
    BY <2>1
  <2> QED BY <2>2
<1> QED BY <1>3
=============================================================================
