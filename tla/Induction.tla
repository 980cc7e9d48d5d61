----------------------------- MODULE Induction -----------------------------
(***************************************************************************)
(* Induction on naturals as the proofs of the project use it: a set of     *)
(* counterexamples that is not empty has a least one.                      *)
(***************************************************************************)
EXTENDS Integers, WellFoundedInduction, TLAPS

(* A set of naturals that is not empty has a least element.                *)
LEMMA LeastNatural ==
  ASSUME NEW S \in SUBSET Nat, S # {}
  PROVE  \E x \in S : \A y \in S : x <= y
<1>1. PICK x \in S : \A y \in S : ~(<<y, x>> \in OpToRel(<, Nat))
  BY NatLessThanWellFounded, WFMin
<1>2. \A y \in S : ~(y < x)
  <2>1. TAKE y \in S
  <2>2. <<y, x>> \in Nat \X Nat
    OBVIOUS
  <2>3. QED
    BY <1>1, <2>2 DEF OpToRel
<1>3. QED
  BY <1>2

(* A set of naturals that has 0, and with a number the next, has them all. *)
LEMMA AllNaturals ==
  ASSUME NEW S, 0 \in S, \A n \in Nat : n \in S => n + 1 \in S
  PROVE  Nat \subseteq S
<1>1. SUFFICES ASSUME Nat \ S # {}
               PROVE  FALSE
  OBVIOUS
<1>2. PICK x \in Nat \ S : \A y \in Nat \ S : x <= y
  BY <1>1, LeastNatural
<1>3. x - 1 \in Nat /\ x - 1 \notin Nat \ S
  BY <1>2
<1>4. QED
  BY <1>2, <1>3

(* A function can be defined step by step.                                  *)
IsSteps(w, b, F, N) == w = [n \in 0..N |-> IF n = 0 THEN b ELSE F[<<n, w[n - 1]>>]]

LEMMA StepByStep ==
  ASSUME NEW V, NEW b \in V, NEW N \in Nat, NEW F \in [(1..N) \X V -> V]
  PROVE  \E w \in [0..N -> V] : IsSteps(w, b, F, N)
<1> DEFINE Upto(w, m) == w = [n \in 0..m |-> IF n = 0 THEN b ELSE F[<<n, w[n - 1]>>]]
           S == {m \in Nat : m <= N => \E w \in [0..m -> V] : Upto(w, m)}
<1>1. 0 \in S
  <2>1. [n \in 0..0 |-> b] \in [0..0 -> V] /\ Upto([n \in 0..0 |-> b], 0)
    OBVIOUS
  <2>2. QED
    BY <2>1
<1>2. ASSUME NEW m \in Nat, m \in S
      PROVE  m + 1 \in S
  <2>1. SUFFICES ASSUME m + 1 <= N
                 PROVE  \E w \in [0..(m + 1) -> V] : Upto(w, m + 1)
    OBVIOUS
  <2>2. PICK w \in [0..m -> V] : Upto(w, m)
    BY <1>2, <2>1
  <2>3. \A n \in 0..m : w[n] = IF n = 0 THEN b ELSE F[<<n, w[n - 1]>>]
    BY <2>2
  <2> DEFINE last == F[<<m + 1, w[m]>>]
             v == [n \in 0..(m + 1) |-> IF n \in 0..m THEN w[n] ELSE last]
  <2>4. w[m] \in V /\ m + 1 \in 1..N
    BY <2>1
  <2>5. last \in V
    BY <2>4
  <2> HIDE DEF last
  <2>6. v \in [0..(m + 1) -> V]
    BY <2>5
  <2>7. v[m + 1] = last /\ \A n \in 0..m : v[n] = w[n]
    OBVIOUS
  <2> HIDE DEF v
  <2>8. \A n \in 0..(m + 1) : v[n] = IF n = 0 THEN b ELSE F[<<n, v[n - 1]>>]
    <3>1. TAKE n \in 0..(m + 1)
    <3>2. CASE n = 0
      <4>1. n \in 0..m
        BY <3>2
      <4>2. QED
        BY <2>3, <2>7, <3>2, <4>1
    <3>3. CASE n \in 1..m
      <4>1. n - 1 \in 0..m /\ n \in 0..m /\ n # 0
        BY <3>3
      <4>2. QED
        BY <2>3, <2>7, <4>1
    <3>4. CASE n = m + 1
      <4>1. n - 1 = m /\ n # 0 /\ m \in 0..m
        BY <3>4
      <4>2. QED
        BY <2>7, <3>4, <4>1 DEF last
    <3>5. QED
      BY <3>2, <3>3, <3>4
  <2>9. Upto(v, m + 1)
    BY <2>6, <2>8
  <2>10. QED
    BY <2>6, <2>9
<1> HIDE DEF S
<1>3. N \in S
  BY <1>1, <1>2, AllNaturals
<1>4. QED
  BY <1>3 DEF S, IsSteps
=============================================================================
