-------------------------- MODULE InductionTheorems --------------------------
(***************************************************************************)
(* Induction over the numbers, for sets in the place of predicates: what   *)
(* the provers need to reason about a recursive function, which is all     *)
(* that follows from its equation at every index.  It rests on the library *)
(* theorem that < on Nat is well founded.                                  *)
(***************************************************************************)
EXTENDS Integers, WellFoundedInduction, TLAPS

LEMMA LessWellFounded ==
    \E R : IsWellFoundedOn(R, Nat) /\ \A x, y \in Nat : <<x, y>> \in R <=> x < y
<1>1. \A x, y \in Nat : <<x, y>> \in OpToRel(<, Nat) <=> x < y
  BY DEF OpToRel
<1>2. QED
  BY <1>1, NatLessThanWellFounded, Zenon

\* Every set of numbers that is not empty has a least element.
LEMMA LeastNumber ==
    ASSUME NEW T, T \subseteq Nat, T # {}
    PROVE  \E x \in T : \A y \in T : x <= y
<1>1. PICK R : IsWellFoundedOn(R, Nat) /\ \A x, y \in Nat : <<x, y>> \in R <=> x < y
  BY LessWellFounded
<1>2. T \subseteq Nat /\ T # {} /\ IsWellFoundedOn(R, Nat)
  BY <1>1
<1>3. PICK x \in T : \A y \in T : ~(<<y, x>> \in R)
  BY <1>2, WFMin, Zenon
<1>4. ASSUME NEW y \in T
      PROVE  x <= y
  <2>1. ~(<<y, x>> \in R) /\ x \in Nat /\ y \in Nat
    BY <1>3
  <2>2. QED
    BY <1>1, <2>1
<1>5. QED
  BY <1>4

\* A set of positions that is not empty has a last one.
LEMMA GreatestNumber ==
    ASSUME NEW n \in Nat, NEW S, S \subseteq 1 .. n, S # {}
    PROVE  \E k \in S : \A l \in S : l <= k
<1> DEFINE T == {n - k : k \in S}
<1>1. T \subseteq Nat /\ T # {}
  <2>1. \A k \in S : n - k \in Nat
    OBVIOUS
  <2>2. PICK k \in S : TRUE
    OBVIOUS
  <2>3. n - k \in T
    OBVIOUS
  <2>4. QED
    BY <2>1, <2>3
<1>2. PICK x \in T : \A y \in T : x <= y
  <2> HIDE DEF T
  <2>1. QED
    BY <1>1, LeastNumber
<1>3. PICK k \in S : x = n - k
  OBVIOUS
<1>4. ASSUME NEW l \in S
      PROVE  l <= k
  <2>1. x <= n - l /\ l \in Nat /\ k \in Nat
    BY <1>2
  <2>2. QED
    BY <1>3, <2>1
<1>5. QED
  BY <1>4

\* A set that holds 0 and with every number the next one holds them all.
LEMMA SetInduction ==
    ASSUME NEW S, 0 \in S, \A n \in Nat : n \in S => n + 1 \in S
    PROVE  Nat \subseteq S
<1> SUFFICES ASSUME Nat \ S # {}
             PROVE  FALSE
  OBVIOUS
<1>1. PICK x \in Nat \ S : \A y \in Nat \ S : x <= y
  BY LeastNumber
<1>2. x # 0 /\ x - 1 \in Nat
  BY <1>1
<1>3. x - 1 \in S
  BY <1>1, <1>2
<1>4. QED
  BY <1>1, <1>2, <1>3

\* The values of a function that start in T and stay there step by step.
LEMMA ChainStays ==
    ASSUME NEW T, NEW n \in Nat, NEW r, r[0] \in T,
           \A k \in 1 .. n : r[k - 1] \in T => r[k] \in T
    PROVE  \A k \in 0 .. n : r[k] \in T
<1> DEFINE S == {k \in Nat : k <= n => r[k] \in T}
<1>1. 0 \in S
  OBVIOUS
<1>2. ASSUME NEW k \in Nat, k \in S
      PROVE  k + 1 \in S
  <2>1. CASE k + 1 <= n
    <3>1. k + 1 \in 1 .. n /\ r[(k + 1) - 1] \in T
      BY <1>2, <2>1
    <3>2. QED
      BY <3>1
  <2>2. QED
    BY <2>1
<1> HIDE DEF S
<1>3. Nat \subseteq S
  BY <1>1, <1>2, SetInduction
<1>4. QED
  BY <1>3 DEF S

\* The sequence r that a first value b and a table Step of n functions on T make.
IsChain(r, T, b, n, Step) ==
    /\ r \in [0 .. n -> T] /\ r[0] = b
    /\ \A k \in 1 .. n : r[k] = Step[k][r[k - 1]]

\* There is one.
LEMMA ChainExists ==
    ASSUME NEW T, NEW b \in T, NEW n \in Nat, NEW Step \in [1 .. n -> [T -> T]]
    PROVE  \E r : IsChain(r, T, b, n, Step)
<1> DEFINE Chain(r, m) ==
             /\ r \in [0 .. m -> T] /\ r[0] = b
             /\ \A k \in 1 .. m : r[k] = Step[k][r[k - 1]]
           S == {m \in Nat : m <= n => \E r : Chain(r, m)}
<1>1. 0 \in S
  <2> DEFINE r == [k \in 0 .. 0 |-> b]
  <2>1. Chain(r, 0)
    OBVIOUS
  <2>2. QED
    BY <2>1
<1>2. ASSUME NEW m \in Nat, m \in S
      PROVE  m + 1 \in S
  <2> SUFFICES ASSUME m + 1 <= n
               PROVE  \E r : Chain(r, m + 1)
    OBVIOUS
  <2>1. PICK r : Chain(r, m)
    BY <1>2
  <2> DEFINE x == Step[m + 1][r[m]]
             r2 == [k \in 0 .. m + 1 |-> IF k \in 0 .. m THEN r[k] ELSE x]
  <2>2. x \in T
    BY <2>1
  <2> HIDE DEF x
  <2>3. r2 \in [0 .. m + 1 -> T] /\ r2[0] = b
    BY <2>1, <2>2
  <2>4. ASSUME NEW k \in 1 .. m + 1
        PROVE  r2[k] = Step[k][r2[k - 1]]
    <3>1. CASE k \in 1 .. m
      <4>1. r2[k] = r[k] /\ r2[k - 1] = r[k - 1]
        BY <3>1
      <4>2. QED
        BY <2>1, <3>1, <4>1
    <3>2. CASE k = m + 1
      <4>1. r2[k] = x /\ r2[k - 1] = r[m]
        BY <3>2
      <4>2. QED
        BY <3>2, <4>1 DEF x
    <3>3. QED
      BY <3>1, <3>2
  <2> HIDE DEF r2
  <2>5. QED
    BY <2>3, <2>4
<1> HIDE DEF S
<1>3. n \in S
  BY <1>1, <1>2, SetInduction
<1>4. QED
  BY <1>3 DEF S, IsChain
=============================================================================
