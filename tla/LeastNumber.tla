------------------------------- MODULE LeastNumber -------------------------------
(***************************************************************************)
(* Induction over the natural numbers, in the form in which it needs no    *)
(* operator as a parameter: a set of counterexamples that is not empty has *)
(* a least element.  The other proof modules cite these lemmas.            *)
(***************************************************************************)
EXTENDS Integers, WellFoundedInduction, TLAPS

LEMMA LessIsWellFounded == IsWellFoundedOn({p \in Nat \X Nat : p[1] < p[2]}, Nat)
BY NatLessThanWellFounded DEF OpToRel

(* Every non-empty set of naturals has a least element.                    *)
LEMMA LeastNatural ==
  ASSUME NEW S \in SUBSET Nat, S # {}
  PROVE  \E n \in S : \A m \in S : n <= m
<1>. DEFINE less == {p \in Nat \X Nat : p[1] < p[2]}
<1>1. PICK n \in S : \A m \in S : <<m, n>> \notin less
  BY LessIsWellFounded, WFMin
<1>2. \A m \in S : ~(m < n)
  BY <1>1
<1>. QED  BY <1>2

(* Every non-empty set of naturals with an upper bound has a greatest one. *)
LEMMA GreatestNatural ==
  ASSUME NEW S \in SUBSET Nat, S # {}, NEW b \in Nat, \A m \in S : m <= b
  PROVE  \E n \in S : \A m \in S : n >= m
<1>. DEFINE T == {d \in Nat : b - d \in S}
<1>1. PICK d \in T : \A e \in T : d <= e
  <2>1. PICK m \in S : TRUE
    OBVIOUS
  <2>2. b - m \in T
    BY <2>1
  <2>. QED  BY <2>2, LeastNatural
<1>2. ASSUME NEW m \in S PROVE b - d >= m
  <2>1. b - m \in T
    OBVIOUS
  <2>. QED  BY <1>1, <2>1
<1>. QED  BY <1>1, <1>2

(* A set that contains 0 and with each number below a bound the next one   *)
(* contains the bound.                                                     *)
LEMMA Induction ==
  ASSUME NEW S, NEW b \in Nat, 0 \in S,
         \A n \in Nat : n < b /\ n \in S => n + 1 \in S
  PROVE  b \in S
<1>. SUFFICES ASSUME b \notin S PROVE FALSE
  OBVIOUS
<1>. DEFINE T == {n \in Nat : n <= b /\ n \notin S}
<1>1. PICK n \in T : \A m \in T : n <= m
  <2>1. b \in T
    OBVIOUS
  <2>. QED  BY <2>1, LeastNatural
<1>2. n # 0 /\ n - 1 \notin T
  BY <1>1
<1>. QED  BY <1>1, <1>2
=============================================================================
