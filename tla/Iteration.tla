------------------------------ MODULE Iteration ------------------------------
(***************************************************************************)
(* Lemmas on what is defined step by step: numbers from 0 on, and          *)
(* functions that are applied again and again.                             *)
(***************************************************************************)
EXTENDS Integers, WellFoundedInduction, TLAPS

\* Every set of numbers has a least one.
LEMMA LeastNumber ==
  ASSUME NEW T \in SUBSET Nat, T # {}
  PROVE  \E n \in T : \A k \in T : n <= k
<1> DEFINE R == OpToRel(<, Nat)
<1>1. IsWellFoundedOn(R, Nat)
  BY NatLessThanWellFounded
<1>2. \A k, n \in Nat : k < n => <<k, n>> \in R
  BY DEF OpToRel
<1> HIDE DEF R
<1>3. \E n \in T : \A k \in T : <<k, n>> \notin R
  BY <1>1, WFMin
<1>4. \A k, n \in T : <<k, n>> \notin R => n <= k
  <2>1. \A k, n \in T : ~ (k < n) => n <= k
    OBVIOUS
  <2> QED
    BY <1>2, <2>1
<1> QED
  BY <1>3, <1>4

\* A set that has 0, and with each number the next one, has all.
LEMMA Induction ==
  ASSUME NEW S, 0 \in S, \A k \in Nat : k \in S => k + 1 \in S
  PROVE  Nat \subseteq S
<1> DEFINE T == Nat \ S
<1>1. SUFFICES ASSUME T # {} PROVE FALSE
  OBVIOUS
<1>2. PICK n \in T : \A k \in T : n <= k
  BY <1>1, LeastNumber
<1>3. n - 1 \in Nat /\ n - 1 \notin T /\ (n - 1) + 1 = n
  BY <1>2
<1> QED
  BY <1>2, <1>3

\* What a function makes of a value, applied again and again, n times.
Iterates(D, x, F, n) ==
  {f \in [0..n -> D] : f[0] = x /\ \A k \in 1..n : f[k] = F[f[k - 1]]}

\* It exists for as many times as one likes.
LEMMA Iterated ==
  ASSUME NEW D, NEW x \in D, NEW F \in [D -> D], NEW n \in Nat
  PROVE  Iterates(D, x, F, n) # {}
<1> DEFINE Can(m) == \E f \in [0..m -> D] :
             f[0] = x /\ \A k \in 1..m : f[k] = F[f[k - 1]]
           S == {m \in Nat : Can(m)}
<1>1. Can(0)
  <2> DEFINE f == [k \in 0..0 |-> x]
  <2>1. f \in [0..0 -> D] /\ f[0] = x /\ 1..0 = {}
    OBVIOUS
  <2> QED
    BY <2>1
<1>2. ASSUME NEW m \in Nat, Can(m) PROVE Can(m + 1)
  <2>1. PICK f \in [0..m -> D] : f[0] = x /\ \A k \in 1..m : f[k] = F[f[k - 1]]
    BY <1>2
  <2> DEFINE g == [k \in 0..(m + 1) |-> IF k = m + 1 THEN F[f[m]] ELSE f[k]]
  <2>2. /\ \A k \in 0..m : g[k] = f[k]
        /\ g[m + 1] = F[f[m]] /\ m \in 0..m /\ 0 \in 0..m
    OBVIOUS
  <2>3. g \in [0..(m + 1) -> D]
    BY <2>2
  <2> HIDE DEF g
  <2>4. ASSUME NEW k \in 1..(m + 1) PROVE g[k] = F[g[k - 1]]
    <3>1. CASE k = m + 1
      BY <2>2, <3>1
    <3>2. CASE k \in 1..m
      <4>1. k \in 0..m /\ k - 1 \in 0..m
        BY <3>2
      <4> QED
        BY <2>1, <2>2, <3>2, <4>1
    <3> QED
      BY <3>1, <3>2
  <2> QED
    BY <2>1, <2>2, <2>3, <2>4
<1> HIDE DEF Can
<1>3. Nat \subseteq S
  <2>1. 0 \in S /\ \A k \in Nat : k \in S => k + 1 \in S
    BY <1>1, <1>2
  <2> HIDE DEF S
  <2> QED
    BY <2>1, Induction
<1>4. Can(n)
  BY <1>3
<1> QED
  BY <1>4 DEF Can, Iterates
=============================================================================
