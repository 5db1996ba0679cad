------------------- MODULE ConsistentAccountabilityProofs -------------------
(***************************************************************************)
(* What holds of WitnessSelection and ConsistentAccountability for every   *)
(* number of nodes, shape of the rings, parameters of the selection and    *)
(* hash of the transactions: the types, that the history hash depends on   *)
(* the set of transactions and not on their order, that the selection      *)
(* takes the nearest nodes, and that the wider radius makes up for         *)
(* histories that differ.                                                  *)
(***************************************************************************)
EXTENDS ConsistentAccountability, InductionTheorems, FiniteSetTheorems

-----------------------------------------------------------------------------
(* Bins: one step around a ring *)

\* What `set' makes of a value at most one beyond the range of a bin.
LEMMA InRangeSteps ==
    /\ InRange(-1) = BinCapacity - 1
    /\ InRange(BinCapacity) = 0
    /\ \A v \in 0 .. BinCapacity - 1 : InRange(v) = v
<1> DEFINE c == BinCapacity
<1>1. c \in Nat \ {0}
  BY BinAssumption
<1> HIDE DEF c
<1>2. \A x \in 0 .. c - 1 : x % c = x /\ (x + c) % c = x
  BY <1>1
<1>3. c % c = 0
  BY <1>1
<1>4. InRange(-1) = c - 1
  <2>1. Remainder(-1, c) \in {-1, 0} /\ (c = 1 => Remainder(-1, c) = 0)
                                    /\ (c # 1 => Remainder(-1, c) = -1)
    <3>1. CASE c = 1
      BY <3>1 DEF Remainder
    <3>2. CASE c # 1
      <4>1. 1 \in 0 .. c - 1
        BY <1>1, <3>2
      <4>2. 1 % c = 1
        BY <4>1, <1>2
      <4>3. QED
        BY <4>2, <3>2 DEF Remainder
    <3>3. QED
      BY <3>1, <3>2
  <2>2. CASE c = 1
    BY <2>1, <2>2 DEF InRange, Remainder, c
  <2>3. CASE c # 1
    <3>1. c - 1 \in 0 .. c - 1 /\ c - 1 >= 0
      BY <1>1
    <3>2. Remainder(-1 + c, c) = c - 1
      BY <1>1, <1>2, <3>1 DEF Remainder
    <3>3. QED
      BY <2>1, <2>3, <3>2 DEF InRange, c
  <2>4. QED
    BY <2>2, <2>3
<1>5. InRange(c) = 0
  <2>1. Remainder(c, c) = 0 /\ Remainder(0 + c, c) = 0
    BY <1>1, <1>3 DEF Remainder
  <2>2. QED
    BY <2>1 DEF InRange, c
<1>6. ASSUME NEW v \in 0 .. c - 1
      PROVE  InRange(v) = v
  <2>1. Remainder(v, c) = v /\ Remainder(v + c, c) = v
    BY <1>1, <1>2, <1>6 DEF Remainder
  <2>2. QED
    BY <2>1 DEF InRange, c
<1>7. QED
  BY <1>4, <1>5, <1>6 DEF c

\* The value of a bin after a net number of turns in one direction.
OnRing(turns, v) ==
    v \in 0 .. BinCapacity - 1 /\ \E k \in Int : v = turns + k * BinCapacity

\* It is the only one.
LEMMA OnRingUnique ==
    ASSUME NEW x \in Int, NEW v, NEW w, OnRing(x, v), OnRing(x, w)
    PROVE  v = w
<1>1. PICK k \in Int : v = x + k * BinCapacity
  BY DEF OnRing
<1>2. PICK l \in Int : w = x + l * BinCapacity
  BY DEF OnRing
<1>3. BinCapacity \in Nat \ {0} /\ v \in 0 .. BinCapacity - 1 /\ w \in 0 .. BinCapacity - 1
  BY BinAssumption DEF OnRing
<1>4. \A m \in Nat : m >= 1 => m * BinCapacity >= BinCapacity
  BY <1>3
<1>5. k <= l
  <2> SUFFICES ASSUME k - l >= 1
               PROVE  FALSE
    OBVIOUS
  <2>1. (k - l) * BinCapacity >= BinCapacity
    BY <1>4
  <2>2. v - w = (k - l) * BinCapacity
    BY <1>1, <1>2, <1>3
  <2>3. QED
    BY <2>1, <2>2, <1>3
<1>6. l <= k
  <2> SUFFICES ASSUME l - k >= 1
               PROVE  FALSE
    OBVIOUS
  <2>1. (l - k) * BinCapacity >= BinCapacity
    BY <1>4
  <2>2. w - v = (l - k) * BinCapacity
    BY <1>1, <1>2, <1>3
  <2>3. QED
    BY <2>1, <2>2, <1>3
<1>7. QED
  BY <1>1, <1>2, <1>5, <1>6

\* One turn up or down keeps the bin where the turns say.
LEMMA OnRingStep ==
    ASSUME NEW x \in Int, NEW v, OnRing(x, v), NEW s \in {1, -1}
    PROVE  OnRing(x + s, InRange(v + s))
<1>1. PICK k \in Int : v = x + k * BinCapacity
  BY DEF OnRing
<1>2. BinCapacity \in Nat \ {0} /\ v \in 0 .. BinCapacity - 1
  BY BinAssumption DEF OnRing
<1>3. CASE v + s \in 0 .. BinCapacity - 1
  <2>1. InRange(v + s) = v + s
    BY <1>3, InRangeSteps
  <2>2. v + s = (x + s) + k * BinCapacity
    BY <1>1, <1>2
  <2>3. QED
    BY <2>1, <2>2, <1>3 DEF OnRing
<1>4. CASE v + s = BinCapacity
  <2>1. InRange(v + s) = 0
    BY <1>4, InRangeSteps
  <2>2. 0 = (x + s) + (k - 1) * BinCapacity
    BY <1>1, <1>2, <1>4
  <2>3. QED
    BY <2>1, <2>2, <1>2 DEF OnRing
<1>5. CASE v + s = -1
  <2>1. InRange(v + s) = BinCapacity - 1
    BY <1>5, InRangeSteps
  <2>2. BinCapacity - 1 = (x + s) + (k + 1) * BinCapacity
    BY <1>1, <1>2, <1>5
  <2>3. QED
    BY <2>1, <2>2, <1>2 DEF OnRing
<1>6. QED
  BY <1>2, <1>3, <1>4, <1>5

\* Along a ring, one step changes the shorter way from the origin by one at most.
LEMMA BinDistanceStep ==
    ASSUME NEW v \in 0 .. BinCapacity - 1, NEW s \in {1, -1}
    PROVE  /\ InRange(v + s) \in 0 .. BinCapacity - 1
           /\ BinDistance(0, InRange(v + s)) \in Nat
           /\ BinDistance(0, v) \in Nat
           /\ BinDistance(0, InRange(v + s)) <= BinDistance(0, v) + 1
           /\ BinDistance(0, v) <= BinDistance(0, InRange(v + s)) + 1
<1> DEFINE c == BinCapacity
           Shorter(x) == IF c - x <= x THEN c - x ELSE x
<1>1. c \in Nat \ {0}
  BY BinAssumption
<1>2. \A x \in 0 .. c - 1 : x % c = x /\ (x + c) % c = x
  BY <1>1
<1>3. ASSUME NEW x \in 0 .. c - 1
      PROVE  BinDistance(0, x) = Shorter(x)
  <2>1. Subtract(x, 0) = x
    <3>1. c + x - 0 >= 0 /\ c + x - 0 = x + c
      BY <1>1, <1>3
    <3>2. QED
      BY <3>1, <1>2, <1>3 DEF Subtract, Remainder, c
  <2>2. CASE x = 0
    BY <2>1, <2>2, <1>1 DEF BinDistance
  <2>3. CASE x # 0
    <3>1. c + 0 - x \in 0 .. c - 1 /\ c + 0 - x >= 0 /\ c + 0 - x = c - x
      BY <1>1, <1>3, <2>3
    <3>2. Subtract(0, x) = c - x
      BY <3>1, <1>2 DEF Subtract, Remainder, c
    <3>3. QED
      BY <2>1, <3>2 DEF BinDistance
  <2>4. QED
    BY <2>2, <2>3
<1>4. InRange(v + s) \in 0 .. c - 1
      /\ InRange(v + s) \in {v + s, v + s - c, v + s + c}
  <2>1. v + s \in 0 .. c - 1 \/ v + s = c \/ v + s = -1
    BY <1>1
  <2>2. QED
    BY <2>1, <1>1, InRangeSteps DEF c
<1>5. BinDistance(0, v) = Shorter(v)
      /\ BinDistance(0, InRange(v + s)) = Shorter(InRange(v + s))
  BY <1>3, <1>4
<1>6. QED
  <2> DEFINE w == InRange(v + s)
  <2>1. w \in 0 .. c - 1 /\ w \in {v + s, v + s - c, v + s + c}
    BY <1>4
  <2> HIDE DEF w, c
  <2>2. Shorter(v) \in Nat /\ Shorter(w) \in Nat
        /\ Shorter(w) <= Shorter(v) + 1 /\ Shorter(v) <= Shorter(w) + 1
    BY <2>1, <1>1 DEF c
  <2>3. QED
    BY <2>1, <2>2, <1>5 DEF w, c

-----------------------------------------------------------------------------
(* Multi-rings: the distance from the origin, and one insertion *)

\* The partial sums of multiRingDistance, from the origin to a ring.
PartialSums(sum, ring) ==
    /\ sum[0] = 0 /\ \A k \in 0 .. BinNum : sum[k] \in Nat
    /\ \A k \in 1 .. BinNum : sum[k] = sum[k - 1] + BinDistance(0, ring[k - 1])

\* The loop that adds up the distance along each ring ends with their sum.
LEMMA DistanceIsSum ==
    ASSUME NEW ring \in MultiRing
    PROVE  \E sum : PartialSums(sum, ring) /\ Distance(NewMultiRing, ring) = sum[BinNum]
<1> DEFINE n == BinNum
           Along(k) == BinDistance(NewMultiRing[k - 1], ring[k - 1])
           Step == [k \in 1 .. n |-> [d \in Nat |-> d + Along(k)]]
           Loop(f) == [b \in 0 .. n |->
                         IF b = 0 THEN 0
                         ELSE f[b - 1] + BinDistance(NewMultiRing[b - 1], ring[b - 1])]
           sum == CHOOSE f : f = Loop(f)
<1>1. Distance(NewMultiRing, ring) = sum[BinNum]
  BY DEF Distance
<1>2. n \in Nat \ {0}
  BY BinAssumption
<1>3. ASSUME NEW k \in 1 .. n
      PROVE  Along(k) \in Nat /\ Along(k) = BinDistance(0, ring[k - 1])
  <2>1. k - 1 \in Bins
    BY <1>2 DEF Bins
  <2>2. NewMultiRing[k - 1] = 0 /\ ring[k - 1] \in 0 .. BinCapacity - 1
    BY <2>1 DEF NewMultiRing, MultiRing
  <2>3. 1 \in {1, -1}
    OBVIOUS
  <2>4. QED
    BY <2>2, <2>3, BinDistanceStep
<1>4. \A f : \A k \in 1 .. n :
         f[k - 1] + BinDistance(NewMultiRing[k - 1], ring[k - 1]) = f[k - 1] + Along(k)
  OBVIOUS
<1> HIDE DEF Along
<1>5. Step \in [1 .. n -> [Nat -> Nat]]
  BY <1>3
<1>6. PICK r : IsChain(r, Nat, 0, n, Step)
  <2> HIDE DEF Step, n
  <2>1. QED
    BY <1>2, <1>5, ChainExists
<1>7. ASSUME NEW k \in 1 .. n
      PROVE  r[k] = r[k - 1] + Along(k)
  <2>1. r[k - 1] \in Nat /\ r[k] = Step[k][r[k - 1]]
    <3> HIDE DEF Step
    <3>1. k - 1 \in 0 .. n
      BY <1>2
    <3>2. QED
      BY <1>6, <3>1 DEF IsChain
  <2>2. QED
    BY <2>1
<1>8. r = Loop(r)
  <2>1. r \in [0 .. n -> Nat] /\ r[0] = 0
    BY <1>6 DEF IsChain
  <2>2. ASSUME NEW b \in 0 .. n
        PROVE  r[b] = Loop(r)[b]
    <3>1. CASE b = 0
      BY <2>1, <3>1
    <3>2. CASE b # 0
      <4>1. b \in 1 .. n
        BY <1>2, <3>2
      <4>2. QED
        BY <4>1, <3>2, <1>4, <1>7
    <3>3. QED
      BY <3>1, <3>2
  <2>3. QED
    <3> HIDE DEF n
    <3>1. QED
      BY <2>1, <2>2
<1>9. sum = Loop(sum)
  <2> HIDE DEF Loop
  <2>1. QED
    BY <1>8, Zenon
<1> HIDE DEF sum
<1>10. sum[0] = 0 /\ \A k \in 1 .. n : sum[k] = sum[k - 1] + Along(k)
  <2>1. 0 \in 0 .. n /\ \A k \in 1 .. n : k \in 0 .. n /\ k # 0
    BY <1>2
  <2>2. QED
    BY <1>4, <1>9, <2>1
<1>11. \A k \in 0 .. n : sum[k] \in Nat
  <2>1. \A k \in 1 .. n : sum[k - 1] \in Nat => sum[k] \in Nat
    BY <1>3, <1>10
  <2>2. ASSUME NEW T, T = Nat
        PROVE  \A k \in 0 .. n : sum[k] \in T
    <3>1. n \in Nat /\ sum[0] \in T /\ \A k \in 1 .. n : sum[k - 1] \in T => sum[k] \in T
      BY <1>2, <1>10, <2>1, <2>2
    <3> HIDE DEF n
    <3>2. QED
      BY <3>1, ChainStays
  <2>3. QED
    BY <2>2
<1>12. PartialSums(sum, ring)
  BY <1>3, <1>10, <1>11 DEF PartialSums
<1>13. QED
  BY <1>1, <1>12

\* Bin b of a ring, one step on.
Turned(ring, b, s) == [ring EXCEPT ![b] = InRange(@ + s)]

\* One step of one bin changes the distance from the origin by one at most.
LEMMA DistanceStep ==
    ASSUME NEW ring \in MultiRing, NEW b \in Bins, NEW s \in {1, -1}
    PROVE  LET d == Distance(NewMultiRing, ring)
               e == Distance(NewMultiRing, Turned(ring, b, s))
           IN  /\ Turned(ring, b, s) \in MultiRing
               /\ d \in Nat /\ e \in Nat /\ d <= e + 1 /\ e <= d + 1
<1> DEFINE ring2 == Turned(ring, b, s)
<1>1. ring[b] \in 0 .. BinCapacity - 1
  BY DEF MultiRing
<1>2. InRange(ring[b] + s) \in 0 .. BinCapacity - 1
  BY <1>1, BinDistanceStep
<1>3. /\ ring2 \in MultiRing /\ ring2[b] = InRange(ring[b] + s)
      /\ \A a \in Bins : a # b => ring2[a] = ring[a]
  BY <1>2 DEF MultiRing, Turned
<1> HIDE DEF ring2
<1>4. PICK f : PartialSums(f, ring) /\ Distance(NewMultiRing, ring) = f[BinNum]
  BY DistanceIsSum
<1>5. PICK g : PartialSums(g, ring2) /\ Distance(NewMultiRing, ring2) = g[BinNum]
  BY <1>3, DistanceIsSum
<1>6. /\ BinDistance(0, ring[b]) \in Nat /\ BinDistance(0, ring2[b]) \in Nat
      /\ BinDistance(0, ring2[b]) <= BinDistance(0, ring[b]) + 1
      /\ BinDistance(0, ring[b]) <= BinDistance(0, ring2[b]) + 1
  BY <1>1, <1>3, BinDistanceStep
<1> DEFINE Near(k) == IF k <= b THEN f[k] = g[k]
                                ELSE f[k] <= g[k] + 1 /\ g[k] <= f[k] + 1
           S == {k \in Nat : k <= BinNum => Near(k)}
<1>7. BinNum \in Nat \ {0} /\ b \in 0 .. BinNum - 1
  BY BinAssumption DEF Bins
<1>8. 0 \in S
  BY <1>4, <1>5, <1>7 DEF PartialSums
<1>9. ASSUME NEW k \in Nat, k \in S
      PROVE  k + 1 \in S
  <2> SUFFICES ASSUME k + 1 <= BinNum
               PROVE  Near(k + 1)
    OBVIOUS
  <2>1. k + 1 \in 1 .. BinNum /\ k \in 0 .. BinNum /\ k \in Bins /\ (k + 1) - 1 = k
    BY <1>7 DEF Bins
  <2>2. /\ f[k] \in Nat /\ g[k] \in Nat /\ f[k + 1] \in Nat /\ g[k + 1] \in Nat
        /\ f[k + 1] = f[k] + BinDistance(0, ring[k])
        /\ g[k + 1] = g[k] + BinDistance(0, ring2[k])
    BY <1>4, <1>5, <1>7, <2>1 DEF PartialSums
  <2>3. BinDistance(0, ring[k]) \in Nat /\ BinDistance(0, ring2[k]) \in Nat
    <3>1. ring[k] \in 0 .. BinCapacity - 1 /\ ring2[k] \in 0 .. BinCapacity - 1
      BY <1>3, <2>1 DEF MultiRing
    <3>2. QED
      BY <3>1, BinDistanceStep
  <2>4. k <= BinNum
    BY <1>7
  <2>5. Near(k)
    BY <1>9, <2>4
  <2>6. CASE k < b
    <3>1. k # b /\ k <= b /\ k + 1 <= b
      BY <1>7, <2>6
    <3>2. BinDistance(0, ring[k]) = BinDistance(0, ring2[k])
      BY <1>3, <2>1, <3>1
    <3>3. f[k] = g[k]
      BY <2>5, <3>1
    <3>4. QED
      BY <2>2, <3>1, <3>2, <3>3
  <2>7. CASE k = b
    <3>1. f[k] = g[k]
      BY <2>5, <2>7
    <3>2. f[k + 1] <= g[k + 1] + 1 /\ g[k + 1] <= f[k + 1] + 1
      BY <1>6, <2>2, <2>7, <3>1
    <3>3. QED
      BY <2>7, <3>2, <1>7
  <2>8. CASE k > b
    <3>1. BinDistance(0, ring[k]) = BinDistance(0, ring2[k])
      BY <1>3, <1>7, <2>1, <2>8
    <3>2. QED
      BY <1>7, <2>2, <2>3, <2>5, <2>8, <3>1
  <2>9. QED
    BY <1>7, <2>6, <2>7, <2>8
<1> HIDE DEF S
<1>10. BinNum \in S
  BY <1>7, <1>8, <1>9, SetInduction
<1>11. Near(BinNum)
  BY <1>7, <1>10 DEF S
<1>12. f[BinNum] \in Nat /\ g[BinNum] \in Nat
  BY <1>4, <1>5, <1>7 DEF PartialSums
<1>13. QED
  BY <1>3, <1>4, <1>5, <1>7, <1>11, <1>12 DEF ring2

-----------------------------------------------------------------------------
(* The hash of a history *)

\* What the hash of a transaction makes of the history hash of node n.
HashBin(i, n) == TransactionHash[i][n] % BinNum
HashStep(i, n) == IF ShareBits(TransactionHash[i][n], BinNum) THEN 1 ELSE -1

LEMMA InsertTurns ==
    ASSUME NEW i \in Instance, NEW n \in Proc, NEW ring \in MultiRing
    PROVE  /\ HashBin(i, n) \in Bins /\ HashStep(i, n) \in {1, -1}
           /\ Insert(ring, TransactionHash[i][n]) = Turned(ring, HashBin(i, n), HashStep(i, n))
<1>1. TransactionHash[i][n] \in Nat
  BY HashAssumption
<1>2. BinNum \in Nat \ {0}
  BY BinAssumption
<1>3. TransactionHash[i][n] % BinNum \in 0 .. BinNum - 1
  BY <1>1, <1>2
<1>4. HashBin(i, n) \in Bins
  BY <1>3 DEF HashBin, Bins
<1>5. QED
  BY <1>4, Zenon DEF Insert, Add, Turned, HashBin, HashStep

\* A history H moves bin b of the hash of node n up and down this often.
Moving(H, n, b, s) == {i \in H : HashBin(i, n) = b /\ HashStep(i, n) = s}
Turns(H, n, b) == Cardinality(Moving(H, n, b, 1)) - Cardinality(Moving(H, n, b, -1))

\* The hash of a history: every bin is where its turns take it.
IsHashOf(ring, H, n) ==
    ring \in MultiRing /\ \A b \in Bins : OnRing(Turns(H, n, b), ring[b])

LEMMA MovingGrows ==
    ASSUME NEW H, IsFiniteSet(H), NEW i, i \notin H, NEW n, NEW b, NEW s
    PROVE  /\ Cardinality(Moving(H, n, b, s)) \in Nat
           /\ Cardinality(Moving(H \cup {i}, n, b, s)) =
                Cardinality(Moving(H, n, b, s)) +
                    (IF HashBin(i, n) = b /\ HashStep(i, n) = s THEN 1 ELSE 0)
<1>1. IsFiniteSet(Moving(H, n, b, s)) /\ i \notin Moving(H, n, b, s)
  <2>1. Moving(H, n, b, s) \in SUBSET H
    BY DEF Moving
  <2>2. QED
    BY <2>1, FS_Subset
<1>2. Cardinality(Moving(H, n, b, s)) \in Nat
  BY <1>1, FS_CardinalityType
<1>3. CASE HashBin(i, n) = b /\ HashStep(i, n) = s
  <2>1. Moving(H \cup {i}, n, b, s) = Moving(H, n, b, s) \cup {i}
    BY <1>3 DEF Moving
  <2>2. Cardinality(Moving(H \cup {i}, n, b, s)) = Cardinality(Moving(H, n, b, s) \cup {i})
    BY <2>1, Zenon
  <2>3. Cardinality(Moving(H, n, b, s) \cup {i}) = Cardinality(Moving(H, n, b, s)) + 1
    BY <1>1, FS_AddElement
  <2>4. QED
    BY <1>2, <1>3, <2>2, <2>3
<1>4. CASE ~(HashBin(i, n) = b /\ HashStep(i, n) = s)
  <2>1. Moving(H \cup {i}, n, b, s) = Moving(H, n, b, s)
    BY <1>4 DEF Moving
  <2>2. QED
    BY <1>2, <1>4, <2>1
<1>5. QED
  BY <1>3, <1>4, <1>2

\* HistoryHash.Insert turns the hash of a history into that of the longer one.
LEMMA InsertExtendsHash ==
    ASSUME NEW H, IsFiniteSet(H), NEW i \in Instance, i \notin H, NEW n \in Proc,
           NEW ring, IsHashOf(ring, H, n)
    PROVE  LET ring2 == Insert(ring, TransactionHash[i][n])
               d == Distance(NewMultiRing, ring)
               e == Distance(NewMultiRing, ring2)
           IN  /\ IsHashOf(ring2, H \cup {i}, n)
               /\ d \in Nat /\ e \in Nat /\ d <= e + 1 /\ e <= d + 1
<1> DEFINE a == HashBin(i, n)
           s == HashStep(i, n)
           ring2 == Insert(ring, TransactionHash[i][n])
           K == H \cup {i}
<1>1. ring \in MultiRing
  BY DEF IsHashOf
<1>2. a \in Bins /\ s \in {1, -1} /\ ring2 = Turned(ring, a, s)
  BY <1>1, InsertTurns
<1>3. /\ ring2 \in MultiRing
      /\ LET d == Distance(NewMultiRing, ring)
             e == Distance(NewMultiRing, ring2)
         IN  d \in Nat /\ e \in Nat /\ d <= e + 1 /\ e <= d + 1
  BY <1>1, <1>2, DistanceStep
<1>4. ring2[a] = InRange(ring[a] + s) /\ \A b \in Bins : b # a => ring2[b] = ring[b]
  BY <1>1, <1>2 DEF Turned, MultiRing
<1> HIDE DEF ring2
<1>5. ASSUME NEW b \in Bins
      PROVE  OnRing(Turns(K, n, b), ring2[b])
  <2>1. OnRing(Turns(H, n, b), ring[b])
    BY DEF IsHashOf
  <2>2. /\ Cardinality(Moving(H, n, b, 1)) \in Nat
        /\ Cardinality(Moving(H, n, b, -1)) \in Nat
        /\ Cardinality(Moving(K, n, b, 1)) =
             Cardinality(Moving(H, n, b, 1)) + (IF a = b /\ s = 1 THEN 1 ELSE 0)
        /\ Cardinality(Moving(K, n, b, -1)) =
             Cardinality(Moving(H, n, b, -1)) + (IF a = b /\ s = -1 THEN 1 ELSE 0)
    BY MovingGrows
  <2>3. CASE b = a
    <3>1. Turns(K, n, b) = Turns(H, n, b) + s /\ Turns(H, n, b) \in Int
      BY <1>2, <2>2, <2>3 DEF Turns
    <3>2. OnRing(Turns(H, n, b) + s, InRange(ring[b] + s))
      <4> HIDE DEF s
      <4>1. QED
        BY <1>2, <2>1, <3>1, OnRingStep
    <3>3. QED
      BY <1>4, <2>3, <3>1, <3>2
  <2>4. CASE b # a
    <3>1. Turns(K, n, b) = Turns(H, n, b)
      BY <2>2, <2>4 DEF Turns
    <3>2. QED
      BY <1>4, <2>1, <2>4, <3>1
  <2>5. QED
    BY <2>3, <2>4
<1>6. QED
  BY <1>3, <1>5 DEF IsHashOf, ring2

\* There is one hash of a history, in whatever order it was inserted.
LEMMA HashUnique ==
    ASSUME NEW H, IsFiniteSet(H), NEW n, NEW r1, NEW r2,
           IsHashOf(r1, H, n), IsHashOf(r2, H, n)
    PROVE  r1 = r2
<1>1. r1 \in MultiRing /\ r2 \in MultiRing
  BY DEF IsHashOf
<1>2. ASSUME NEW b \in Bins
      PROVE  r1[b] = r2[b]
  <2>1. Turns(H, n, b) \in Int
    <3>1. ASSUME NEW s
          PROVE  Cardinality(Moving(H, n, b, s)) \in Nat
      <4>1. Moving(H, n, b, s) \in SUBSET H
        BY DEF Moving
      <4>2. QED
        BY <4>1, FS_Subset, FS_CardinalityType
    <3>2. QED
      BY <3>1 DEF Turns
  <2>2. OnRing(Turns(H, n, b), r1[b]) /\ OnRing(Turns(H, n, b), r2[b])
    BY DEF IsHashOf
  <2>3. QED
    BY <2>1, <2>2, OnRingUnique
<1>3. QED
  BY <1>1, <1>2 DEF MultiRing

\* The empty history has the ring that a process starts with.
LEMMA EmptyHash ==
    ASSUME NEW n
    PROVE  IsHashOf(NewMultiRing, {}, n)
<1>1. 0 \in 0 .. BinCapacity - 1
  BY BinAssumption
<1>2. NewMultiRing \in MultiRing
  BY <1>1 DEF NewMultiRing, MultiRing
<1>3. ASSUME NEW b \in Bins
      PROVE  OnRing(Turns({}, n, b), NewMultiRing[b])
  <2>1. \A s : Moving({}, n, b, s) = {}
    BY DEF Moving
  <2>2. Turns({}, n, b) = 0
    BY <2>1, FS_EmptySet DEF Turns
  <2>3. OnRing(0, 0)
    <3>1. 0 = 0 + 0 * BinCapacity
      BY BinAssumption
    <3>2. QED
      BY <1>1, <3>1 DEF OnRing
  <2>4. QED
    BY <2>2, <2>3 DEF NewMultiRing
<1>4. QED
  BY <1>2, <1>3 DEF IsHashOf

LEMMA DistanceIsNumber ==
    ASSUME NEW ring \in MultiRing
    PROVE  Distance(NewMultiRing, ring) \in Nat
<1>1. PICK sum : PartialSums(sum, ring) /\ Distance(NewMultiRing, ring) = sum[BinNum]
  BY DistanceIsSum
<1>2. BinNum \in 0 .. BinNum
  BY BinAssumption
<1>3. QED
  BY <1>1, <1>2 DEF PartialSums

\* A hash of what D adds to H, no further from `ring' than D has members.
HashWithin(ring2, ring, H, D, n) ==
    /\ IsHashOf(ring2, H \cup D, n)
    /\ Distance(NewMultiRing, ring2) <= Distance(NewMultiRing, ring) + Cardinality(D)
    /\ Distance(NewMultiRing, ring) <= Distance(NewMultiRing, ring2) + Cardinality(D)

LEMMA HashOfLonger ==
    ASSUME NEW n \in Proc, NEW H, IsFiniteSet(H), NEW ring, IsHashOf(ring, H, n),
           NEW D \in SUBSET Instance, IsFiniteSet(D), D \cap H = {}
    PROVE  \E ring2 : HashWithin(ring2, ring, H, D, n)
<1> DEFINE Reached(E) == \E ring2 : HashWithin(ring2, ring, H, E, n)
           Adding(m) == {E \in SUBSET Instance :
                           IsFiniteSet(E) /\ E \cap H = {} /\ Cardinality(E) = m}
           S == {m \in Nat : \A E \in Adding(m) : Reached(E)}
<1>1. Distance(NewMultiRing, ring) \in Nat
  BY DistanceIsNumber DEF IsHashOf
<1>2. 0 \in S
  <2> SUFFICES ASSUME NEW E \in Adding(0)
               PROVE  Reached(E)
    OBVIOUS
  <2>1. E = {} /\ Cardinality(E) = 0
    BY FS_EmptySet
  <2>2. H \cup E = H
    BY <2>1
  <2>3. HashWithin(ring, ring, H, E, n)
    BY <1>1, <2>1, <2>2 DEF HashWithin
  <2>4. QED
    BY <2>3
<1>3. ASSUME NEW m \in Nat, m \in S
      PROVE  m + 1 \in S
  <2> SUFFICES ASSUME NEW E \in Adding(m + 1)
               PROVE  Reached(E)
    OBVIOUS
  <2>1. /\ E \in SUBSET Instance /\ IsFiniteSet(E) /\ E \cap H = {}
        /\ Cardinality(E) = m + 1
    OBVIOUS
  <2>2. PICK i \in E : TRUE
    <3>1. E # {}
      BY <2>1, FS_EmptySet
    <3>2. QED
      BY <3>1
  <2> DEFINE F == E \ {i}
  <2>3. IsFiniteSet(F) /\ Cardinality(F) = m
    <3>1. IsFiniteSet(E \ {i}) /\ Cardinality(E \ {i}) = Cardinality(E) - 1
      BY <2>1, <2>2, FS_RemoveElement
    <3>2. QED
      BY <2>1, <3>1
  <2>4. F \in Adding(m)
    BY <2>1, <2>3
  <2>5. Reached(F)
    BY <1>3, <2>4
  <2>6. PICK ringF : HashWithin(ringF, ring, H, F, n)
    BY <2>5
  <2> DEFINE K == H \cup F
             ring2 == Insert(ringF, TransactionHash[i][n])
  <2>7. IsFiniteSet(K) /\ i \in Instance /\ i \notin K /\ K \cup {i} = H \cup E
    BY <2>1, <2>2, <2>3, FS_Union
  <2>8. IsHashOf(ringF, K, n)
    BY <2>6 DEF HashWithin
  <2> HIDE DEF K
  <2>9. /\ IsHashOf(ring2, K \cup {i}, n)
        /\ Distance(NewMultiRing, ringF) \in Nat /\ Distance(NewMultiRing, ring2) \in Nat
        /\ Distance(NewMultiRing, ringF) <= Distance(NewMultiRing, ring2) + 1
        /\ Distance(NewMultiRing, ring2) <= Distance(NewMultiRing, ringF) + 1
    BY <2>7, <2>8, InsertExtendsHash
  <2>10. /\ Distance(NewMultiRing, ringF) <= Distance(NewMultiRing, ring) + m
         /\ Distance(NewMultiRing, ring) <= Distance(NewMultiRing, ringF) + m
    BY <2>3, <2>6 DEF HashWithin
  <2> HIDE DEF ring2
  <2>11. /\ Distance(NewMultiRing, ring2) <= Distance(NewMultiRing, ring) + (m + 1)
         /\ Distance(NewMultiRing, ring) <= Distance(NewMultiRing, ring2) + (m + 1)
    BY <1>1, <2>9, <2>10
  <2>12. IsHashOf(ring2, H \cup E, n)
    BY <2>7, <2>9
  <2>13. HashWithin(ring2, ring, H, E, n)
    BY <2>1, <2>11, <2>12 DEF HashWithin
  <2>14. QED
    BY <2>13
<1>4. Cardinality(D) \in Nat /\ D \in Adding(Cardinality(D))
  BY FS_CardinalityType
<1> HIDE DEF Adding, Reached
<1>5. Cardinality(D) \in S
  <2> HIDE DEF S
  <2>1. QED
    BY <1>2, <1>3, <1>4, SetInduction
<1>6. QED
  BY <1>4, <1>5 DEF Reached

\* Hashes of two histories: their distances differ by no more than the histories.
LEMMA HashesNear ==
    ASSUME NEW n \in Proc, NEW H \in SUBSET Instance, NEW J \in SUBSET Instance,
           IsFiniteSet(H), IsFiniteSet(J),
           NEW r, NEW s, IsHashOf(r, H, n), IsHashOf(s, J, n)
    PROVE  /\ Cardinality((H \ J) \cup (J \ H)) \in Nat
           /\ Distance(NewMultiRing, s)
                <= Distance(NewMultiRing, r) + Cardinality((H \ J) \cup (J \ H))
<1> DEFINE C == H \cap J
           A == H \ J
           B == J \ H
<1>1. IsFiniteSet(C) /\ IsFiniteSet(A) /\ IsFiniteSet(B) /\ IsFiniteSet({})
  BY FS_Intersection, FS_Difference, FS_EmptySet
<1>2. /\ C \in SUBSET Instance /\ A \in SUBSET Instance /\ B \in SUBSET Instance
      /\ C \cap {} = {} /\ A \cap C = {} /\ B \cap C = {} /\ A \cap B = {}
      /\ {} \cup C = C /\ C \cup A = H /\ C \cup B = J
  OBVIOUS
<1> HIDE DEF A, B, C
<1>3. PICK rc : IsHashOf(rc, C, n)
  <2>1. \E rc : HashWithin(rc, NewMultiRing, {}, C, n)
    BY <1>1, <1>2, EmptyHash, HashOfLonger
  <2>2. QED
    BY <1>2, <2>1 DEF HashWithin
<1>4. Distance(NewMultiRing, rc) <= Distance(NewMultiRing, r) + Cardinality(A)
  <2>1. PICK r2 : HashWithin(r2, rc, C, A, n)
    BY <1>1, <1>2, <1>3, HashOfLonger
  <2>2. IsHashOf(r2, H, n)
    BY <1>2, <2>1 DEF HashWithin
  <2>3. r2 = r
    BY <2>2, HashUnique
  <2>4. QED
    BY <2>1, <2>3 DEF HashWithin
<1>5. Distance(NewMultiRing, s) <= Distance(NewMultiRing, rc) + Cardinality(B)
  <2>1. PICK s2 : HashWithin(s2, rc, C, B, n)
    BY <1>1, <1>2, <1>3, HashOfLonger
  <2>2. IsHashOf(s2, J, n)
    BY <1>2, <2>1 DEF HashWithin
  <2>3. s2 = s
    BY <2>2, HashUnique
  <2>4. QED
    BY <2>1, <2>3 DEF HashWithin
<1>6. /\ Cardinality(A) \in Nat /\ Cardinality(B) \in Nat
      /\ Cardinality(A \cup B) = Cardinality(A) + Cardinality(B)
  <2>1. Cardinality(A \cup B) = Cardinality(A) + Cardinality(B) - Cardinality(A \cap B)
    BY <1>1, FS_Union
  <2>2. Cardinality(A \cap B) = 0
    BY <1>2, FS_EmptySet
  <2>3. Cardinality(A) \in Nat /\ Cardinality(B) \in Nat
    BY <1>1, FS_CardinalityType
  <2>4. QED
    BY <2>1, <2>2, <2>3
<1>7. /\ Distance(NewMultiRing, r) \in Nat /\ Distance(NewMultiRing, s) \in Nat
      /\ Distance(NewMultiRing, rc) \in Nat
  BY <1>3, DistanceIsNumber DEF IsHashOf
<1>8. /\ Cardinality(A \cup B) \in Nat
      /\ Distance(NewMultiRing, s) <= Distance(NewMultiRing, r) + Cardinality(A \cup B)
  BY <1>4, <1>5, <1>6, <1>7
<1>9. QED
  BY <1>8 DEF A, B

-----------------------------------------------------------------------------
(* Sorting by distance, and the nodes that the loop takes *)

Sorted(order, S, m, d) ==
    /\ order \in Bijection(1 .. m, S)
    /\ \A i, j \in 1 .. m : i <= j => d[order[i]] <= d[order[j]]

\* Every finite set of nodes can be sorted.
LEMMA SortExists ==
    ASSUME NEW d, NEW S, IsFiniteSet(S), \A x \in S : d[x] \in Nat
    PROVE  \E order : Sorted(order, S, Cardinality(S), d)
<1> DEFINE Sortable(T, m) == \E order : Sorted(order, T, m, d)
           Sizes == {m \in Nat : \A T \in SUBSET S :
                        IsFiniteSet(T) /\ Cardinality(T) = m => Sortable(T, m)}
<1>1. 0 \in Sizes
  <2> SUFFICES ASSUME NEW T \in SUBSET S, IsFiniteSet(T), Cardinality(T) = 0
               PROVE  Sortable(T, 0)
    OBVIOUS
  <2>1. T = {}
    BY FS_EmptySet
  <2> DEFINE order == [i \in 1 .. 0 |-> i]
  <2>2. 1 .. 0 = {}
    OBVIOUS
  <2>3. order \in [1 .. 0 -> {}] /\ DOMAIN order = {}
    BY <2>2
  <2> HIDE DEF order
  <2>4. Sorted(order, {}, 0, d)
    BY <2>2, <2>3 DEF Sorted, Bijection, Injection, Surjection, IsInjective
  <2>5. QED
    BY <2>1, <2>4
<1>2. ASSUME NEW m \in Nat, m \in Sizes
      PROVE  m + 1 \in Sizes
  <2> SUFFICES ASSUME NEW T \in SUBSET S, IsFiniteSet(T), Cardinality(T) = m + 1
               PROVE  Sortable(T, m + 1)
    OBVIOUS
  <2>1. PICK x \in T : \A y \in T : d[x] <= d[y]
    <3> DEFINE Reach == {d[y] : y \in T}
    <3>1. T # {}
      BY FS_EmptySet
    <3>2. PICK z \in T : TRUE
      BY <3>1
    <3>3. Reach \subseteq Nat /\ d[z] \in Reach
      BY <3>2
    <3>4. PICK v \in Reach : \A w \in Reach : v <= w
      <4> HIDE DEF Reach
      <4>1. Reach # {}
        BY <3>3
      <4>2. QED
        BY <3>3, <4>1, LeastNumber
    <3>5. QED
      BY <3>4
  <2> DEFINE F == T \ {x}
  <2>2. IsFiniteSet(F) /\ Cardinality(F) = m /\ F \in SUBSET S
    <3>1. IsFiniteSet(T \ {x}) /\ Cardinality(T \ {x}) = Cardinality(T) - 1
      BY FS_RemoveElement
    <3>2. QED
      BY <3>1
  <2>3. Sortable(F, m)
    BY <1>2, <2>2
  <2>4. PICK order : Sorted(order, F, m, d)
    BY <2>3
  <2>5. /\ order \in [1 .. m -> F]
        /\ \A i, j \in 1 .. m : order[i] = order[j] => i = j
        /\ \A y \in F : \E i \in 1 .. m : order[i] = y
        /\ \A i, j \in 1 .. m : i <= j => d[order[i]] <= d[order[j]]
    BY <2>4 DEF Sorted, Bijection, Injection, Surjection, IsInjective
  <2> DEFINE order2 == [i \in 1 .. m + 1 |-> IF i = 1 THEN x ELSE order[i - 1]]
  <2>6. \A i \in 1 .. m + 1 : i # 1 => i - 1 \in 1 .. m
    OBVIOUS
  <2>7. order2 \in [1 .. m + 1 -> T] /\ DOMAIN order2 = 1 .. m + 1
    BY <2>1, <2>5, <2>6
  <2>8. /\ order2[1] = x /\ 1 \in 1 .. m + 1
        /\ \A i \in 1 .. m + 1 : i # 1 => order2[i] = order[i - 1] /\ order2[i] \in F
    BY <2>5, <2>6
  <2> HIDE DEF order2
  <2>9. ASSUME NEW i \in 1 .. m + 1, NEW j \in 1 .. m + 1, order2[i] = order2[j]
        PROVE  i = j
    <3>1. CASE i = 1 \/ j = 1
      BY <2>8, <2>9, <3>1
    <3>2. CASE i # 1 /\ j # 1
      <4>1. order[i - 1] = order[j - 1] /\ i - 1 \in 1 .. m /\ j - 1 \in 1 .. m
        BY <2>6, <2>8, <2>9, <3>2
      <4>2. i - 1 = j - 1
        BY <2>5, <4>1
      <4>3. QED
        BY <4>2
    <3>3. QED
      BY <3>1, <3>2
  <2>10. ASSUME NEW y \in T
         PROVE  \E i \in 1 .. m + 1 : order2[i] = y
    <3>1. CASE y = x
      BY <2>8, <3>1
    <3>2. CASE y # x
      <4>1. PICK i \in 1 .. m : order[i] = y
        BY <2>5, <3>2
      <4>2. i + 1 \in 1 .. m + 1 /\ i + 1 # 1 /\ (i + 1) - 1 = i
        OBVIOUS
      <4>3. order2[i + 1] = y
        BY <2>8, <4>1, <4>2
      <4>4. QED
        BY <4>2, <4>3
    <3>3. QED
      BY <3>1, <3>2
  <2>11. ASSUME NEW i \in 1 .. m + 1, NEW j \in 1 .. m + 1, i <= j
         PROVE  d[order2[i]] <= d[order2[j]]
    <3>1. CASE i = 1
      BY <2>1, <2>7, <2>8, <3>1
    <3>2. CASE i # 1
      <4>1. j # 1 /\ i - 1 \in 1 .. m /\ j - 1 \in 1 .. m /\ i - 1 <= j - 1
        BY <2>11, <3>2
      <4>2. QED
        BY <2>5, <2>8, <3>2, <4>1
    <3>3. QED
      BY <3>1, <3>2
  <2>12. order2 \in Bijection(1 .. m + 1, T)
    <3>1. order2 \in Injection(1 .. m + 1, T)
      BY <2>7, <2>9 DEF Injection, IsInjective
    <3>2. order2 \in Surjection(1 .. m + 1, T)
      BY <2>7, <2>10 DEF Surjection
    <3>3. QED
      BY <3>1, <3>2 DEF Bijection
  <2>13. Sorted(order2, T, m + 1, d)
    BY <2>11, <2>12 DEF Sorted
  <2>14. QED
    BY <2>13
<1> HIDE DEF Sortable
<1>3. Cardinality(S) \in Nat
  BY FS_CardinalityType
<1>4. Cardinality(S) \in Sizes
  <2> HIDE DEF Sizes
  <2>1. QED
    BY <1>1, <1>2, <1>3, SetInduction
<1>5. Sortable(S, Cardinality(S))
  BY <1>4
<1>6. QED
  BY <1>5 DEF Sortable

\* So the selection works on a sorted order of all nodes.
LEMMA ByDistanceSorts ==
    ASSUME NEW d \in [Proc -> Nat], NEW order, order = ByDistance(d)
    PROVE  /\ Cardinality(Proc) \in Nat
           /\ order \in [1 .. Cardinality(Proc) -> Proc]
           /\ \A i, j \in 1 .. Cardinality(Proc) : order[i] = order[j] => i = j
           /\ \A n \in Proc : \E i \in 1 .. Cardinality(Proc) : order[i] = n
           /\ \A i, j \in 1 .. Cardinality(Proc) : i <= j => d[order[i]] <= d[order[j]]
<1> DEFINE N == Cardinality(Proc)
           IsOrder(f) == \A i, j \in 1 .. N : i <= j => d[f[i]] <= d[f[j]]
<1>1. N \in Nat
  BY NodeAssumption, FS_CardinalityType
<1>2. \E f \in Bijection(1 .. N, Proc) : IsOrder(f)
  <2>1. \A x \in Proc : d[x] \in Nat
    OBVIOUS
  <2>2. PICK f : Sorted(f, Proc, N, d)
    BY <2>1, NodeAssumption, SortExists
  <2>3. QED
    BY <2>2 DEF Sorted
<1>3. order = CHOOSE f \in Bijection(1 .. N, Proc) : IsOrder(f)
  BY DEF ByDistance
<1>4. order \in Bijection(1 .. N, Proc) /\ IsOrder(order)
  <2> HIDE DEF IsOrder, N
  <2>1. QED
    BY <1>2, <1>3, Zenon
<1>5. QED
  BY <1>1, <1>4 DEF Bijection, Injection, Surjection, IsInjective

\* The positions of a sorted order that qualify, and the nodes there.
Qualifying(order, d, size, radius) ==
    {i \in 1 .. Cardinality(Proc) : Qualifies(i, d[order[i]], size, radius)}
NodesAt(order, positions) == {order[i] : i \in positions}

\* The loop never stops before a position that qualifies.
LEMMA PotPositionsQualify ==
    ASSUME NEW d \in [Proc -> Nat], NEW order, order = ByDistance(d)
    PROVE  PotPositions(d, order) =
               Qualifying(order, d, MinPotWitnessSetSize, PotWitnessSetRadius)
<1> DEFINE N == Cardinality(Proc)
           Takes(j) == Qualifies(j, d[order[j]], MinPotWitnessSetSize, PotWitnessSetRadius)
<1>1. /\ N \in Nat /\ order \in [1 .. N -> Proc]
      /\ \A i, j \in 1 .. N : i <= j => d[order[i]] <= d[order[j]]
  BY ByDistanceSorts
<1>2. ASSUME NEW i \in 1 .. N, Takes(i), NEW j \in 1 .. i
      PROVE  Takes(j)
  <2>1. j \in 1 .. N /\ j <= i
    BY <1>1
  <2>2. d[order[j]] \in Nat /\ d[order[i]] \in Nat /\ d[order[j]] <= d[order[i]]
    BY <1>1, <2>1
  <2>3. QED
    BY <1>1, <1>2, <2>1, <2>2, SizeAssumption DEF Qualifies
<1>3. \A i \in 1 .. N : i \in 1 .. i
  BY <1>1
<1>4. PotPositions(d, order) = {i \in 1 .. N : \A j \in 1 .. i : Takes(j)}
  BY DEF PotPositions
<1>5. Qualifying(order, d, MinPotWitnessSetSize, PotWitnessSetRadius) = {i \in 1 .. N : Takes(i)}
  BY DEF Qualifying
<1> HIDE DEF Takes, N
<1>6. QED
  BY <1>2, <1>3, <1>4, <1>5

\* Taking the positions that qualify takes the nearest nodes.
LEMMA QualifyingAreNearest ==
    ASSUME NEW d \in [Proc -> Nat], NEW order, order = ByDistance(d),
           NEW size \in Nat, NEW radius \in Nat,
           NEW W, W = NodesAt(order, Qualifying(order, d, size, radius))
    PROVE  Nearest(W, d, size, radius)
<1> DEFINE N == Cardinality(Proc)
           within == {n \in Proc : d[n] < radius}
           least == IF size <= N THEN size ELSE N
           first == {order[i] : i \in 1 .. least}
<1>1. /\ N \in Nat /\ order \in [1 .. N -> Proc]
      /\ \A i, j \in 1 .. N : order[i] = order[j] => i = j
      /\ \A n \in Proc : \E i \in 1 .. N : order[i] = n
      /\ \A i, j \in 1 .. N : i <= j => d[order[i]] <= d[order[j]]
  BY ByDistanceSorts
<1>2. \A i \in 1 .. N : order[i] \in Proc /\ d[order[i]] \in Nat
  BY <1>1
<1>3. \A i \in 1 .. N : order[i] \in W <=> (i <= size \/ d[order[i]] < radius)
  <2>1. W = {order[i] : i \in {j \in 1 .. N : j <= size \/ d[order[j]] < radius}}
    BY DEF NodesAt, Qualifying, Qualifies
  <2> HIDE DEF N
  <2>2. QED
    BY <1>1, <2>1
<1>4. W \subseteq Proc
  BY <1>2 DEF NodesAt, Qualifying
<1> HIDE DEF N
<1>5. within \subseteq W
  <2> SUFFICES ASSUME NEW n \in Proc, d[n] < radius
               PROVE  n \in W
    OBVIOUS
  <2>1. PICK i \in 1 .. N : order[i] = n
    BY <1>1
  <2>2. QED
    BY <1>3, <2>1
<1>6. ASSUME NEW n \in W, NEW x \in Proc \ W
      PROVE  d[n] <= d[x]
  <2>1. PICK i \in 1 .. N : order[i] = n
    BY <1>1, <1>4
  <2>2. PICK j \in 1 .. N : order[j] = x
    BY <1>1
  <2>3. /\ i <= size \/ d[n] < radius
        /\ ~(j <= size) /\ ~(d[x] < radius)
    BY <1>3, <2>1, <2>2
  <2>4. d[n] \in Nat /\ d[x] \in Nat /\ (i <= j => d[n] <= d[x])
    BY <1>1, <1>2, <2>1, <2>2
  <2>5. QED
    BY <1>1, <2>3, <2>4
<1>7. least \in Nat /\ least <= N /\ least <= size
      /\ \A i \in 1 .. least : i \in 1 .. N
  BY <1>1
<1>8. first \subseteq W
  BY <1>3, <1>7
<1>9. IsFiniteSet(first) /\ Cardinality(first) = least
  <2> DEFINE f == [i \in 1 .. least |-> order[i]]
  <2>1. f \in Bijection(1 .. least, first)
    <3>1. f \in [1 .. least -> first]
      OBVIOUS
    <3>2. \A i, j \in 1 .. least : f[i] = f[j] => i = j
      BY <1>1, <1>7
    <3>3. \A y \in first : \E i \in 1 .. least : f[i] = y
      OBVIOUS
    <3>4. f \in Injection(1 .. least, first)
      BY <3>1, <3>2 DEF Injection, IsInjective
    <3>5. f \in Surjection(1 .. least, first)
      BY <3>1, <3>3 DEF Surjection
    <3>6. QED
      BY <3>4, <3>5 DEF Bijection
  <2> HIDE DEF f, first
  <2>2. ExistsBijection(1 .. least, first)
    BY <2>1 DEF ExistsBijection
  <2>3. IsFiniteSet(1 .. least) /\ Cardinality(1 .. least) = least
    BY <1>7, FS_Interval
  <2>4. QED
    BY <2>2, <2>3, FS_Bijection
<1>10. IsFiniteSet(W) /\ Cardinality(W) >= least
  <2>1. IsFiniteSet(W)
    BY <1>4, NodeAssumption, FS_Subset
  <2>2. Cardinality(first) <= Cardinality(W)
    <3> HIDE DEF first
    <3>1. QED
      BY <1>8, <2>1, FS_Subset
  <2>3. Cardinality(W) \in Nat
    BY <2>1, FS_CardinalityType
  <2>4. QED
    BY <1>7, <1>9, <2>1, <2>2, <2>3
<1>11. ASSUME W # within
       PROVE  Cardinality(W) = least
  <2>1. PICK n \in W : ~(d[n] < radius)
    BY <1>4, <1>5, <1>11
  <2>2. PICK i \in 1 .. N : order[i] = n
    BY <1>1, <1>4
  <2>3. i <= size
    BY <1>3, <2>1, <2>2
  <2>4. ASSUME NEW x \in W
        PROVE  x \in first
    <3>1. PICK j \in 1 .. N : order[j] = x
      BY <1>1, <1>4
    <3>2. j <= size \/ d[x] < radius
      BY <1>3, <3>1
    <3>3. j <= size
      <4> SUFFICES ASSUME ~(j <= size)
                   PROVE  FALSE
        OBVIOUS
      <4>1. i <= j /\ d[x] < radius
        BY <1>1, <2>3, <3>2
      <4>2. d[n] <= d[x] /\ d[n] \in Nat /\ d[x] \in Nat
        BY <1>1, <1>2, <2>2, <3>1, <4>1
      <4>3. QED
        BY <2>1, <4>1, <4>2
    <3>4. j \in 1 .. least
      BY <1>1, <3>3
    <3>5. QED
      BY <3>1, <3>4
  <2>5. W = first
    BY <1>8, <2>4
  <2>6. QED
    BY <1>9, <2>5, Zenon
<1>12. QED
  BY <1>5, <1>6, <1>10, <1>11 DEF Nearest, N

\* The distances that a process with typed hashes sorts by.
LEMMA FromOriginType ==
    ASSUME NEW hashes \in [Proc -> MultiRing]
    PROVE  FromOrigin(hashes) \in [Proc -> Nat]
<1>1. \A n \in Proc : Distance(NewMultiRing, hashes[n]) \in Nat
  BY DistanceIsNumber
<1>2. QED
  BY <1>1 DEF FromOrigin

\* GetWitnessSet returns nodes, the potential witnesses being the nearest ones.
LEMMA PotWitnessesNearest ==
    ASSUME NEW hashes \in [Proc -> MultiRing]
    PROVE  /\ PotWitnesses(hashes) \subseteq Proc
           /\ OwnWitnesses(hashes) \subseteq PotWitnesses(hashes)
           /\ Nearest(PotWitnesses(hashes), FromOrigin(hashes),
                      MinPotWitnessSetSize, PotWitnessSetRadius)
<1> DEFINE d == FromOrigin(hashes)
           order == ByDistance(d)
<1>1. d \in [Proc -> Nat]
  BY FromOriginType
<1>2. /\ PotWitnesses(hashes) = NodesAt(order, PotPositions(d, order))
      /\ OwnWitnesses(hashes) \subseteq NodesAt(order, PotPositions(d, order))
  BY DEF PotWitnesses, OwnWitnesses, NodesAt
<1> HIDE DEF d
<1>3. PotPositions(d, order) = Qualifying(order, d, MinPotWitnessSetSize, PotWitnessSetRadius)
  BY <1>1, PotPositionsQualify
<1>4. NodesAt(order, PotPositions(d, order)) \subseteq Proc
  <2>1. order \in [1 .. Cardinality(Proc) -> Proc]
    BY <1>1, ByDistanceSorts
  <2> HIDE DEF order
  <2>2. QED
    BY <2>1 DEF NodesAt, PotPositions
<1>5. Nearest(NodesAt(order, PotPositions(d, order)), d,
              MinPotWitnessSetSize, PotWitnessSetRadius)
  BY <1>1, <1>3, SizeAssumption, QualifyingAreNearest
<1>6. QED
  <2> HIDE DEF order
  <2>1. QED
    BY <1>2, <1>4, <1>5 DEF d

\* Own witnesses are the nearest ones if they are chosen more narrowly.
LEMMA OwnWitnessesNearest ==
    ASSUME NEW hashes \in [Proc -> MultiRing],
           MinOwnWitnessSetSize <= MinPotWitnessSetSize,
           OwnWitnessSetRadius <= PotWitnessSetRadius
    PROVE  Nearest(OwnWitnesses(hashes), FromOrigin(hashes),
                   MinOwnWitnessSetSize, OwnWitnessSetRadius)
<1> DEFINE d == FromOrigin(hashes)
           order == ByDistance(d)
           Own(j) == Qualifies(j, d[order[j]], MinOwnWitnessSetSize, OwnWitnessSetRadius)
<1>1. d \in [Proc -> Nat]
  BY FromOriginType
<1>2. OwnWitnesses(hashes) = NodesAt(order, {j \in PotPositions(d, order) : Own(j)})
  BY DEF OwnWitnesses, NodesAt
<1> HIDE DEF d
<1>3. PotPositions(d, order) = Qualifying(order, d, MinPotWitnessSetSize, PotWitnessSetRadius)
  BY <1>1, PotPositionsQualify
<1>4. {j \in PotPositions(d, order) : Own(j)}
        = Qualifying(order, d, MinOwnWitnessSetSize, OwnWitnessSetRadius)
  <2>1. Cardinality(Proc) \in Nat /\ order \in [1 .. Cardinality(Proc) -> Proc]
    BY <1>1, ByDistanceSorts
  <2> HIDE DEF order
  <2>2. \A j \in 1 .. Cardinality(Proc) : d[order[j]] \in Nat
    BY <1>1, <2>1
  <2>3. \A j \in 1 .. Cardinality(Proc) :
           Own(j) => Qualifies(j, d[order[j]], MinPotWitnessSetSize, PotWitnessSetRadius)
    BY <2>1, <2>2, SizeAssumption DEF Qualifies
  <2>4. QED
    BY <1>3, <2>3 DEF Qualifying
<1>5. Nearest(NodesAt(order, {j \in PotPositions(d, order) : Own(j)}), d,
              MinOwnWitnessSetSize, OwnWitnessSetRadius)
  BY <1>1, <1>4, SizeAssumption, QualifyingAreNearest
<1>6. QED
  <2> HIDE DEF order, Own
  <2>1. QED
    BY <1>2, <1>5 DEF d

-----------------------------------------------------------------------------
(* Types *)

LEMMA BagUnionSet ==
    ASSUME NEW A, NEW B
    PROVE  BagToSet(A (+) B) = BagToSet(A) \cup BagToSet(B)
BY DEF BagToSet, (+)

LEMMA BagMinusSet ==
    ASSUME NEW A, NEW B
    PROVE  BagToSet(A (-) B) \subseteq BagToSet(A)
BY DEF BagToSet, (-)

LEMMA SetBagSet ==
    ASSUME NEW S
    PROVE  BagToSet(SetToBag(S)) = S
BY DEF BagToSet, SetToBag

LEMMA EmptyBagSet == BagToSet(EmptyBag) = {}
BY SetBagSet DEF EmptyBag

\* What is sent are messages of correct processes to correct ones.
LEMMA ToSetSends ==
    ASSUME NEW p, NEW S, NEW s, NEW i, NEW v
    PROVE  BagToSet(ToSet(p, S, s, i, v)) = {Msg(p, q, s, i, v) : q \in S \cap Correct}
BY SetBagSet DEF ToSet

LEMMA ToSetMessages ==
    ASSUME NEW p \in Correct, NEW S, NEW s \in Stages, NEW i \in Instance, NEW v \in Value
    PROVE  BagToSet(ToSet(p, S, s, i, v)) \subseteq Message
<1>1. \A q \in S \cap Correct : Msg(p, q, s, i, v) \in Message
  BY DEF Msg, Message
<1>2. QED
  BY <1>1, ToSetSends

LEMMA NoStateIsNone == NoState \notin MessageState
<1>1. \A ms \in MessageState : DOMAIN ms = {"echoes", "witnessSet"}
  BY DEF MessageState
<1>2. DOMAIN NoState = {"registered"}
  BY DEF NoState
<1>3. "echoes" # "registered"
  OBVIOUS
<1>4. {"echoes", "witnessSet"} # {"registered"}
  BY <1>3
<1>5. QED
  BY <1>1, <1>2, <1>4

\* Hashing a transaction into all the hashes of a process.
LEMMA InsertTransactionType ==
    ASSUME NEW hashes \in [HashedNodes -> MultiRing], NEW i \in Instance
    PROVE  InsertTransaction(hashes, i) \in [HashedNodes -> MultiRing]
<1>1. ASSUME NEW n \in HashedNodes
      PROVE  Insert(hashes[n], TransactionHash[i][n]) \in MultiRing
  <2>1. n \in Proc /\ hashes[n] \in MultiRing
    BY ProcessAssumption
  <2>2. QED
    BY <2>1, InsertTurns, DistanceStep
<1>2. QED
  BY <1>1 DEF InsertTransaction

\* Verify keeps the types, whatever network it is given.
LEMMA VerifyTypes ==
    ASSUME TypeOK, NEW p \in Correct, NEW q \in Correct, NEW i \in Instance,
           NEW v \in Value, NEW rest, BagToSet(rest) \subseteq Message,
           Verify(p, q, i, v, rest)
    PROVE  /\ deliveredMessages' \in [Correct -> [Instance -> Value \cup {None}]]
           /\ messagesLog' \in [Correct -> [Instance -> MessageState \cup {NoState}]]
           /\ historyHashes' \in [Correct -> [HashedNodes -> MultiRing]]
           /\ ownDeliveredTransactions' \in [Correct -> Nat]
           /\ BagToSet(network') \subseteq Message
           /\ stopped' \subseteq Correct
<1> USE DEF TypeOK
<1>1. CASE VerifyDelivered(p, i, rest)
  BY <1>1 DEF VerifyDelivered
<1>2. CASE SelectionPanics(p, i)
  BY <1>2 DEF SelectionPanics
<1>3. CASE StartVerification(p, i, v, rest)
  <2> DEFINE witnesses == OwnWitnesses(historyHashes[p])
             ms == [echoes |-> {}, witnessSet |-> witnesses]
  <2>1. historyHashes[p] \in [Proc -> MultiRing]
    BY <1>3 DEF StartVerification
  <2>2. witnesses \subseteq Proc
    BY <2>1, PotWitnessesNearest
  <2>3. ms \in MessageState
    BY <2>2 DEF MessageState, Votes
  <2>4. messagesLog' = [messagesLog EXCEPT ![p][i] = ms]
        /\ network' = rest (+) ToSet(p, witnesses, "VERIFY", i, v)
    BY <1>3 DEF StartVerification
  <2> HIDE DEF ms, witnesses
  <2>5. messagesLog' \in [Correct -> [Instance -> MessageState \cup {NoState}]]
    BY <2>3, <2>4
  <2>6. "VERIFY" \in Stages
    BY DEF Stages
  <2>7. BagToSet(network') \subseteq Message
    BY <2>4, <2>6, ToSetMessages, BagUnionSet
  <2>8. QED
    BY <1>3, <2>5, <2>7 DEF StartVerification
<1>4. CASE VerifyEcho(p, q, i, v, rest)
  <2> DEFINE ms == messagesLog[p][i]
             echoes == ms.echoes \cup {<<w, v>> : w \in {x \in {q} : CountsAsEcho(x, ms)}}
  <2>1. ms \in MessageState
    BY <1>4 DEF VerifyEcho
  <2>2. q \in Proc
    BY ProcessAssumption DEF Correct
  <2>3. echoes \in Votes
    BY <2>1, <2>2 DEF MessageState, Votes
  <2>4. network' = rest /\ stopped' = stopped
    BY <1>4 DEF VerifyEcho
  <2>5. Deliver(p, i, v)
        \/ /\ messagesLog' = [messagesLog EXCEPT ![p][i].echoes = echoes]
           /\ UNCHANGED <<deliveredMessages, historyHashes, ownDeliveredTransactions>>
    BY <1>4 DEF VerifyEcho
  <2>6. CASE Deliver(p, i, v)
    <3>1. historyHashes' = [historyHashes EXCEPT ![p] = InsertTransaction(historyHashes[p], i)]
      BY <2>6 DEF Deliver
    <3>2. InsertTransaction(historyHashes[p], i) \in [HashedNodes -> MultiRing]
      BY InsertTransactionType
    <3>3. historyHashes' \in [Correct -> [HashedNodes -> MultiRing]]
      BY <3>1, <3>2
    <3>4. deliveredMessages' \in [Correct -> [Instance -> Value \cup {None}]]
      BY <2>6 DEF Deliver
    <3>5. ownDeliveredTransactions' \in [Correct -> Nat]
      BY <2>6 DEF Deliver
    <3>6. messagesLog' \in [Correct -> [Instance -> MessageState \cup {NoState}]]
      BY <2>6 DEF Deliver
    <3>7. QED
      BY <2>4, <3>3, <3>4, <3>5, <3>6
  <2>7. CASE /\ messagesLog' = [messagesLog EXCEPT ![p][i].echoes = echoes]
             /\ UNCHANGED <<deliveredMessages, historyHashes, ownDeliveredTransactions>>
    <3> HIDE DEF echoes
    <3>1. [ms EXCEPT !.echoes = echoes] \in MessageState
      BY <2>1, <2>3 DEF MessageState
    <3>2. messagesLog' = [messagesLog EXCEPT ![p][i] = [ms EXCEPT !.echoes = echoes]]
      BY <2>7
    <3> HIDE DEF ms
    <3>3. messagesLog' \in [Correct -> [Instance -> MessageState \cup {NoState}]]
      BY <3>1, <3>2
    <3>4. QED
      BY <2>4, <2>7, <3>3
  <2>8. QED
    BY <2>5, <2>6, <2>7
<1>5. QED
  BY <1>1, <1>2, <1>3, <1>4 DEF Verify

\* The instance of the next transaction of p.
NextInstance(p) == [author |-> p, seqNumber |-> transactionCounter[p]]

LEMMA BroadcastCase ==
    ASSUME TypeOK, NEW p \in Correct, NEW v \in Value, Broadcast(p, v)
    PROVE  /\ NextInstance(p) \in Instance
           /\ Verify(p, p, NextInstance(p), v, network)
           /\ initiated' = initiated \cup {<<NextInstance(p), v>>}
           /\ transactionCounter[p] < MaxTransactions
           /\ transactionCounter' = [transactionCounter EXCEPT ![p] = @ + 1]
<1>1. transactionCounter[p] \in 0 .. MaxTransactions - 1 /\ p \in Authors
  BY BoundAssumption DEF TypeOK, Broadcast
<1>2. NextInstance(p) \in Instance
  BY <1>1 DEF NextInstance, Instance
<1>3. QED
  BY <1>2 DEF Broadcast, NextInstance

\* The network that the handler of m leaves before it verifies.
AfterEcho(m) == (network (-) SetToBag({m})) (+)
                    ToSet(m.to, {q \in Proc : Echoes(m.to, m)}, "ECHO", m.inst, m.value)

LEMMA HandleCase ==
    ASSUME TypeOK, NEW m \in BagToSet(network), HandleMessage(m.to, m)
    PROVE  /\ m \in Message /\ m.from \in Correct /\ m.to \in Correct
           /\ m.inst \in Instance /\ m.value \in Value /\ m.stage \in Stages
           /\ BagToSet(AfterEcho(m)) \subseteq Message
           /\ Verify(m.to, m.from, m.inst, m.value, AfterEcho(m))
           /\ UNCHANGED <<transactionCounter, initiated>>
<1>1. m \in Message /\ BagToSet(network) \subseteq Message
  BY DEF TypeOK
<1>2. /\ m.from \in Correct /\ m.to \in Correct /\ m.stage \in Stages
      /\ m.inst \in Instance /\ m.value \in Value
  BY <1>1 DEF Message
<1>3. "ECHO" \in Stages
  BY DEF Stages
<1>4. BagToSet(ToSet(m.to, {q \in Proc : Echoes(m.to, m)}, "ECHO", m.inst, m.value)) \subseteq Message
  BY <1>2, <1>3, ToSetMessages
<1>5. BagToSet(AfterEcho(m)) \subseteq Message
  <2> DEFINE A == network (-) SetToBag({m})
             B == ToSet(m.to, {q \in Proc : Echoes(m.to, m)}, "ECHO", m.inst, m.value)
  <2>1. AfterEcho(m) = A (+) B
    BY DEF AfterEcho
  <2>2. BagToSet(A) \subseteq Message /\ BagToSet(B) \subseteq Message
    BY <1>1, <1>4, BagMinusSet
  <2> HIDE DEF A, B
  <2>3. QED
    BY <2>1, <2>2, BagUnionSet
<1>6. QED
  BY <1>1, <1>2, <1>5 DEF HandleMessage, AfterEcho

\* The state keeps its types; in particular every bin stays within its ring.
THEOREM ConsistentTypes == Spec => []TypeOK
<1>1. Init => TypeOK
  <2> SUFFICES ASSUME Init
               PROVE  TypeOK
    OBVIOUS
  <2>1. NewMultiRing \in MultiRing
    BY EmptyHash DEF IsHashOf
  <2>2. 0 \in 0 .. MaxTransactions
    BY BoundAssumption
  <2>3. BagToSet(network) = {}
    BY EmptyBagSet DEF Init
  <2>4. QED
    BY <2>1, <2>2, <2>3 DEF Init, TypeOK
<1>2. TypeOK /\ [Next]_vars => TypeOK'
  <2> SUFFICES ASSUME TypeOK, [Next]_vars
               PROVE  TypeOK'
    OBVIOUS
  <2>1. ASSUME NEW p \in Correct, NEW v \in Value, Broadcast(p, v)
        PROVE  TypeOK'
    <3>1. /\ NextInstance(p) \in Instance /\ Verify(p, p, NextInstance(p), v, network)
          /\ initiated' = initiated \cup {<<NextInstance(p), v>>}
          /\ transactionCounter[p] < MaxTransactions
          /\ transactionCounter' = [transactionCounter EXCEPT ![p] = @ + 1]
      BY <2>1, BroadcastCase
    <3>2. BagToSet(network) \subseteq Message
      BY DEF TypeOK
    <3>3. /\ deliveredMessages' \in [Correct -> [Instance -> Value \cup {None}]]
          /\ messagesLog' \in [Correct -> [Instance -> MessageState \cup {NoState}]]
          /\ historyHashes' \in [Correct -> [HashedNodes -> MultiRing]]
          /\ ownDeliveredTransactions' \in [Correct -> Nat]
          /\ BagToSet(network') \subseteq Message
          /\ stopped' \subseteq Correct
      BY <3>1, <3>2, VerifyTypes
    <3>4. initiated' \subseteq Instance \X Value
      BY <3>1 DEF TypeOK
    <3>5. transactionCounter' \in [Correct -> 0 .. MaxTransactions]
      BY <3>1, BoundAssumption DEF TypeOK
    <3>6. QED
      BY <3>3, <3>4, <3>5 DEF TypeOK
  <2>2. ASSUME NEW m \in BagToSet(network), HandleMessage(m.to, m)
        PROVE  TypeOK'
    <3>1. /\ m.from \in Correct /\ m.to \in Correct
          /\ m.inst \in Instance /\ m.value \in Value
          /\ BagToSet(AfterEcho(m)) \subseteq Message
          /\ Verify(m.to, m.from, m.inst, m.value, AfterEcho(m))
          /\ UNCHANGED <<transactionCounter, initiated>>
      BY <2>2, HandleCase
    <3>2. /\ deliveredMessages' \in [Correct -> [Instance -> Value \cup {None}]]
          /\ messagesLog' \in [Correct -> [Instance -> MessageState \cup {NoState}]]
          /\ historyHashes' \in [Correct -> [HashedNodes -> MultiRing]]
          /\ ownDeliveredTransactions' \in [Correct -> Nat]
          /\ BagToSet(network') \subseteq Message
          /\ stopped' \subseteq Correct
      BY <3>1, VerifyTypes
    <3>3. QED
      BY <3>1, <3>2 DEF TypeOK
  <2>3. CASE UNCHANGED vars
    BY <2>3 DEF vars, TypeOK
  <2>4. QED
    BY <2>1, <2>2, <2>3 DEF Next
<1>3. QED
  BY <1>1, <1>2, PTL DEF Spec

-----------------------------------------------------------------------------
(* The history hashes of a process are those of the set it has delivered *)

HistoryInv ==
    \A p \in Correct :
        /\ IsFiniteSet(History(p))
        /\ \A n \in HashedNodes : IsHashOf(historyHashes[p][n], History(p), n)

\* Verify delivers what was not delivered yet, or touches neither of the two.
LEMMA VerifyDelivers ==
    ASSUME NEW p, NEW q, NEW i, NEW v, NEW rest, Verify(p, q, i, v, rest)
    PROVE  \/ UNCHANGED <<deliveredMessages, historyHashes>>
           \/ ~Delivered(p, i) /\ Deliver(p, i, v)
BY DEF Verify, VerifyDelivered, VerifyEcho, StartVerification, SelectionPanics

LEMMA VerifyKeepsHistory ==
    ASSUME TypeOK, HistoryInv, NEW p \in Correct, NEW q, NEW i \in Instance,
           NEW v \in Value, NEW rest, Verify(p, q, i, v, rest)
    PROVE  HistoryInv'
<1>1. CASE UNCHANGED <<deliveredMessages, historyHashes>>
  BY <1>1 DEF HistoryInv, History, Delivered
<1>2. CASE ~Delivered(p, i) /\ Deliver(p, i, v)
  <2>1. /\ deliveredMessages' = [deliveredMessages EXCEPT ![p][i] = v]
        /\ historyHashes' = [historyHashes EXCEPT ![p] = InsertTransaction(historyHashes[p], i)]
    BY <1>2 DEF Deliver
  <2>2. /\ deliveredMessages \in [Correct -> [Instance -> Value \cup {None}]]
        /\ historyHashes \in [Correct -> [HashedNodes -> MultiRing]]
    BY DEF TypeOK
  <2> SUFFICES ASSUME NEW r \in Correct, NEW H, H = History(r)'
               PROVE  /\ IsFiniteSet(H)
                      /\ \A n \in HashedNodes : IsHashOf(historyHashes'[r][n], H, n)
    BY DEF HistoryInv
  <2>3. H = {j \in Instance : deliveredMessages'[r][j] # None}
    BY DEF History, Delivered
  <2>4. CASE r # p
    <3>1. H = History(r)
      BY <2>1, <2>2, <2>3, <2>4 DEF History, Delivered
    <3>2. historyHashes'[r] = historyHashes[r]
      BY <2>1, <2>2, <2>4
    <3>3. QED
      BY <3>1, <3>2 DEF HistoryInv
  <2>5. CASE r = p
    <3>1. H = History(p) \cup {i} /\ i \notin History(p)
      <4>1. i \notin History(p)
        BY <1>2 DEF History
      <4>2. v # None
        BY ValueAssumption
      <4>3. deliveredMessages'[p][i] = v
            /\ \A j \in Instance : j # i => deliveredMessages'[p][j] = deliveredMessages[p][j]
        BY <2>1, <2>2
      <4>4. QED
        BY <2>3, <2>5, <4>1, <4>2, <4>3 DEF History, Delivered
    <3>2. IsFiniteSet(History(p))
      BY DEF HistoryInv
    <3>3. IsFiniteSet(H)
      BY <3>1, <3>2, FS_AddElement
    <3>4. ASSUME NEW n \in HashedNodes
          PROVE  IsHashOf(historyHashes'[p][n], H, n)
      <4>1. historyHashes'[p][n] = Insert(historyHashes[p][n], TransactionHash[i][n])
        BY <2>1, <2>2 DEF InsertTransaction
      <4>2. IsHashOf(historyHashes[p][n], History(p), n)
        BY DEF HistoryInv
      <4>3. n \in Proc
        BY ProcessAssumption
      <4>4. IsHashOf(Insert(historyHashes[p][n], TransactionHash[i][n]), History(p) \cup {i}, n)
        BY <3>1, <3>2, <4>2, <4>3, InsertExtendsHash
      <4>5. QED
        BY <3>1, <4>1, <4>4
    <3>5. QED
      BY <2>5, <3>3, <3>4
  <2>6. QED
    BY <2>4, <2>5
<1>3. QED
  BY <1>1, <1>2, VerifyDelivers

\* deliver keeps the hashes in step with what is delivered.
THEOREM HistoryInductive == Spec => []HistoryInv
<1>1. Init => HistoryInv
  <2> SUFFICES ASSUME Init, NEW p \in Correct
               PROVE  /\ IsFiniteSet(History(p))
                      /\ \A n \in HashedNodes : IsHashOf(historyHashes[p][n], History(p), n)
    BY DEF HistoryInv
  <2>1. History(p) = {}
    BY DEF Init, History, Delivered
  <2>2. \A n \in HashedNodes : historyHashes[p][n] = NewMultiRing
    BY DEF Init
  <2>3. QED
    BY <2>1, <2>2, EmptyHash, FS_EmptySet
<1>2. TypeOK /\ HistoryInv /\ [Next]_vars => HistoryInv'
  <2> SUFFICES ASSUME TypeOK, HistoryInv, [Next]_vars
               PROVE  HistoryInv'
    OBVIOUS
  <2>1. ASSUME NEW p \in Correct, NEW v \in Value, Broadcast(p, v)
        PROVE  HistoryInv'
    <3>1. NextInstance(p) \in Instance /\ Verify(p, p, NextInstance(p), v, network)
      BY <2>1, BroadcastCase
    <3>2. QED
      BY <3>1, VerifyKeepsHistory
  <2>2. ASSUME NEW m \in BagToSet(network), HandleMessage(m.to, m)
        PROVE  HistoryInv'
    <3>1. /\ m.to \in Correct /\ m.inst \in Instance /\ m.value \in Value
          /\ Verify(m.to, m.from, m.inst, m.value, AfterEcho(m))
      BY <2>2, HandleCase
    <3>2. QED
      BY <3>1, VerifyKeepsHistory
  <2>3. CASE UNCHANGED vars
    BY <2>3 DEF vars, HistoryInv, History, Delivered
  <2>4. QED
    BY <2>1, <2>2, <2>3 DEF Next
<1>3. QED
  BY <1>1, <1>2, ConsistentTypes, PTL DEF Spec

\* The history hash depends on what was delivered and not on the order.
THEOREM OrderDoesNotMatter == Spec => []SameHistorySameWitnesses
<1>1. TypeOK /\ HistoryInv => SameHistorySameWitnesses
  <2> SUFFICES ASSUME TypeOK, HistoryInv, NEW p \in Correct, NEW q \in Correct,
                      History(p) = History(q)
               PROVE  historyHashes[p] = historyHashes[q]
    BY DEF SameHistorySameWitnesses
  <2>1. ASSUME NEW n \in HashedNodes
        PROVE  historyHashes[p][n] = historyHashes[q][n]
    <3>1. /\ IsFiniteSet(History(p)) /\ IsHashOf(historyHashes[p][n], History(p), n)
          /\ IsHashOf(historyHashes[q][n], History(p), n)
      BY DEF HistoryInv
    <3>2. QED
      BY <3>1, HashUnique
  <2>2. historyHashes[p] \in [HashedNodes -> MultiRing]
        /\ historyHashes[q] \in [HashedNodes -> MultiRing]
    BY DEF TypeOK
  <2>3. QED
    BY <2>1, <2>2
<1>2. QED
  BY <1>1, ConsistentTypes, HistoryInductive, PTL

\* GetWitnessSet, called with a hash for every node (as reliable/process.go:226
\* does and consistent/process.go:117 does not), selects the nearest nodes.
THEOREM NearestSelected ==
    ASSUME HashedNodes = Proc,
           MinOwnWitnessSetSize <= MinPotWitnessSetSize,
           OwnWitnessSetRadius <= PotWitnessSetRadius
    PROVE  Spec => []SelectsNearest
<1>1. TypeOK => SelectsNearest
  <2> SUFFICES ASSUME TypeOK, NEW p \in Correct, NEW hashes, hashes = historyHashes[p]
               PROVE  /\ OwnWitnesses(hashes) \subseteq PotWitnesses(hashes)
                      /\ Nearest(PotWitnesses(hashes), FromOrigin(hashes),
                                 MinPotWitnessSetSize, PotWitnessSetRadius)
                      /\ Nearest(OwnWitnesses(hashes), FromOrigin(hashes),
                                 MinOwnWitnessSetSize, OwnWitnessSetRadius)
    BY DEF SelectsNearest
  <2>1. hashes \in [Proc -> MultiRing]
    BY DEF TypeOK
  <2>2. QED
    BY <2>1, PotWitnessesNearest, OwnWitnessesNearest
<1>2. QED
  BY <1>1, ConsistentTypes, PTL

\* The difference of the two radii makes up for as many transactions, where
\* there is a hash for every node.
THEOREM RadiusMakesUp ==
    ASSUME HashedNodes = Proc
    PROVE  Spec => []OwnWithinReach
<1>1. TypeOK /\ HistoryInv => OwnWithinReach
  <2> SUFFICES ASSUME TypeOK, HistoryInv, NEW p \in Correct, NEW q \in Correct,
                      NEW behind,
                      behind = Cardinality((History(p) \ History(q)) \cup
                                           (History(q) \ History(p))),
                      behind + OwnWitnessSetRadius <= PotWitnessSetRadius,
                      NEW n \in Proc,
                      FromOrigin(historyHashes[p])[n] < OwnWitnessSetRadius
               PROVE  n \in PotWitnesses(historyHashes[q])
    BY DEF OwnWithinReach
  <2> DEFINE hp == historyHashes[p]
             hq == historyHashes[q]
  <2>1. hp \in [Proc -> MultiRing] /\ hq \in [Proc -> MultiRing]
    BY DEF TypeOK
  <2>2. /\ IsFiniteSet(History(p)) /\ IsHashOf(hp[n], History(p), n)
        /\ IsFiniteSet(History(q)) /\ IsHashOf(hq[n], History(q), n)
        /\ History(p) \in SUBSET Instance /\ History(q) \in SUBSET Instance
    BY DEF HistoryInv, History
  <2>3. /\ behind \in Nat
        /\ Distance(NewMultiRing, hq[n]) <= Distance(NewMultiRing, hp[n]) + behind
    <3> HIDE DEF hp, hq
    <3>1. QED
      BY <2>2, HashesNear
  <2>4. /\ FromOrigin(hp)[n] = Distance(NewMultiRing, hp[n])
        /\ FromOrigin(hq)[n] = Distance(NewMultiRing, hq[n])
    BY DEF FromOrigin
  <2>5. FromOrigin(hp)[n] \in Nat /\ FromOrigin(hq)[n] \in Nat
    <3> HIDE DEF hp, hq
    <3>1. QED
      BY <2>1, FromOriginType
  <2>6. FromOrigin(hq)[n] < PotWitnessSetRadius
    <3>1. FromOrigin(hp)[n] < OwnWitnessSetRadius
      OBVIOUS
    <3> HIDE DEF hp, hq
    <3>2. QED
      BY <2>3, <2>4, <2>5, <3>1, SizeAssumption
  <2>7. {x \in Proc : FromOrigin(hq)[x] < PotWitnessSetRadius} \subseteq PotWitnesses(hq)
    <3> HIDE DEF hq
    <3>1. QED
      BY <2>1, PotWitnessesNearest DEF Nearest
  <2>8. QED
    BY <2>6, <2>7
<1>2. QED
  BY <1>1, ConsistentTypes, HistoryInductive, PTL

-----------------------------------------------------------------------------
(* What circulates was broadcast, one value per instance *)

\* Authors broadcast one value per instance, and in the order of the numbers.
OneValuePerInstance ==
    \A i \in Instance, v \in Value :
        <<i, v>> \in initiated =>
            /\ i.author \in Correct /\ i.seqNumber < transactionCounter[i.author]
            /\ \A w \in Value : <<i, w>> \in initiated => v = w

MessagesKnown == \A m \in BagToSet(network) : <<m.inst, m.value>> \in initiated

StateKnown(p, i) ==
    /\ Delivered(p, i) => <<i, deliveredMessages[p][i]>> \in initiated
    /\ messagesLog[p][i] # NoState =>
          /\ \E v \in Value : <<i, v>> \in initiated
          /\ \A q, v : <<q, v>> \in messagesLog[p][i].echoes => <<i, v>> \in initiated

\* Messages, votes and deliveries name broadcast values.
KnownInv ==
    /\ OneValuePerInstance /\ MessagesKnown
    /\ \A p \in Correct, i \in Instance : StateKnown(p, i)

LEMMA BagUnionIsABag ==
    ASSUME NEW A, NEW B, IsABag(A), IsABag(B)
    PROVE  IsABag(A (+) B)
BY DEF IsABag, (+)

LEMMA BagMinusIsABag ==
    ASSUME NEW A, NEW x, IsABag(A)
    PROVE  /\ IsABag(A (-) SetToBag({x}))
           /\ \A y \in BagToSet(A) : y # x => y \in BagToSet(A (-) SetToBag({x}))
<1>1. DOMAIN SetToBag({x}) = {x} /\ SetToBag({x})[x] = 1
  BY DEF SetToBag
<1> DEFINE B == SetToBag({x})
           C == [e \in DOMAIN A |-> IF e \in DOMAIN B THEN A[e] - B[e] ELSE A[e]]
           D == {d \in DOMAIN C : C[d] > 0}
<1>2. A (-) B = [e \in D |-> C[e]]
  BY DEF (-)
<1> HIDE DEF B
<1>3. \A e \in DOMAIN A : A[e] \in Nat /\ A[e] > 0
  BY DEF IsABag
<1>4. \A e \in DOMAIN A : C[e] \in Int /\ (e # x => C[e] = A[e])
  <2>1. DOMAIN B = {x} /\ B[x] = 1
    BY <1>1 DEF B
  <2>2. QED
    BY <1>3, <2>1
<1>5. \A y \in DOMAIN A : y # x => y \in D
  BY <1>3, <1>4
<1>6. \A e \in D : C[e] \in Nat /\ C[e] > 0
  BY <1>4
<1>7. BagToSet(A (-) B) = D /\ IsABag(A (-) B)
  <2> HIDE DEF C, D
  <2>1. QED
    BY <1>2, <1>6 DEF BagToSet, IsABag
<1>8. QED
  BY <1>5, <1>7 DEF BagToSet, B

LEMMA SetBagIsABag ==
    ASSUME NEW S
    PROVE  IsABag(SetToBag(S))
BY DEF IsABag, SetToBag

\* Verify leaves the other entries alone, and sends on top of what it is given.
LEMMA VerifyFrame ==
    ASSUME TypeOK, NEW p \in Correct, NEW q, NEW i \in Instance,
           NEW v, NEW rest, Verify(p, q, i, v, rest)
    PROVE  /\ \/ network' = rest
              \/ HashedNodes # Proc /\ network' = network
              \/ network' = rest (+) ToSet(p, OwnWitnesses(historyHashes[p]), "VERIFY", i, v)
           /\ \A r \in Correct, j \in Instance : r # p \/ j # i =>
                 /\ deliveredMessages'[r][j] = deliveredMessages[r][j]
                 /\ messagesLog'[r][j] = messagesLog[r][j]
<1>1. /\ deliveredMessages \in [Correct -> [Instance -> Value \cup {None}]]
      /\ messagesLog \in [Correct -> [Instance -> MessageState \cup {NoState}]]
  BY DEF TypeOK
<1>2. CASE VerifyDelivered(p, i, rest)
  BY <1>2 DEF VerifyDelivered
<1>3. CASE StartVerification(p, i, v, rest)
  <2> DEFINE ms == [echoes |-> {}, witnessSet |-> OwnWitnesses(historyHashes[p])]
  <2>1. /\ messagesLog' = [messagesLog EXCEPT ![p][i] = ms]
        /\ deliveredMessages' = deliveredMessages
        /\ network' = rest (+) ToSet(p, OwnWitnesses(historyHashes[p]), "VERIFY", i, v)
    BY <1>3 DEF StartVerification
  <2> HIDE DEF ms
  <2>2. QED
    BY <1>1, <2>1
<1>4. CASE VerifyEcho(p, q, i, v, rest)
  <2> DEFINE ms == messagesLog[p][i]
             echoes == ms.echoes \cup {<<w, v>> : w \in {x \in {q} : CountsAsEcho(x, ms)}}
             ms2 == [ms EXCEPT !.echoes = echoes]
  <2>1. network' = rest
    BY <1>4 DEF VerifyEcho
  <2>2. \/ Deliver(p, i, v)
        \/ /\ messagesLog' = [messagesLog EXCEPT ![p][i] = ms2]
           /\ deliveredMessages' = deliveredMessages
    BY <1>4 DEF VerifyEcho
  <2> HIDE DEF ms2
  <2>3. QED
    BY <1>1, <2>1, <2>2 DEF Deliver
<1>5. QED
  BY <1>2, <1>3, <1>4 DEF Verify, SelectionPanics

\* The votes after a message from q about v.
EchoesWith(ms, q, v) ==
    ms.echoes \cup {<<w, v>> : w \in {x \in {q} : CountsAsEcho(x, ms)}}

\* What Verify does to the entries of the instance it is about.
LEMMA VerifyHere ==
    ASSUME TypeOK, NEW p \in Correct, NEW q, NEW i \in Instance,
           NEW v, NEW rest, Verify(p, q, i, v, rest)
    PROVE  \/ /\ Delivered(p, i) \/ HashedNodes # Proc
              /\ UNCHANGED <<deliveredMessages, messagesLog>>
           \/ /\ deliveredMessages'[p][i] = v /\ messagesLog'[p][i] = NoState
           \/ /\ ~Delivered(p, i) /\ messagesLog[p][i] = NoState
              /\ deliveredMessages'[p][i] = deliveredMessages[p][i]
              /\ messagesLog'[p][i] =
                    [echoes |-> {}, witnessSet |-> OwnWitnesses(historyHashes[p])]
              /\ network' = rest (+) ToSet(p, OwnWitnesses(historyHashes[p]), "VERIFY", i, v)
           \/ /\ ~Delivered(p, i) /\ messagesLog[p][i] # NoState
              /\ deliveredMessages'[p][i] = deliveredMessages[p][i]
              /\ \/ ~CountsAsEcho(q, messagesLog[p][i])
                 \/ EchoCount(EchoesWith(messagesLog[p][i], q, v), v) < WitnessThreshold
              /\ messagesLog'[p][i] =
                    [messagesLog[p][i] EXCEPT !.echoes = EchoesWith(messagesLog[p][i], q, v)]
<1>1. /\ deliveredMessages \in [Correct -> [Instance -> Value \cup {None}]]
      /\ messagesLog \in [Correct -> [Instance -> MessageState \cup {NoState}]]
  BY DEF TypeOK
<1>2. CASE VerifyDelivered(p, i, rest)
  BY <1>2 DEF VerifyDelivered
<1>3. CASE StartVerification(p, i, v, rest)
  <2> DEFINE ms == [echoes |-> {}, witnessSet |-> OwnWitnesses(historyHashes[p])]
  <2>1. /\ messagesLog' = [messagesLog EXCEPT ![p][i] = ms]
        /\ deliveredMessages' = deliveredMessages
        /\ network' = rest (+) ToSet(p, OwnWitnesses(historyHashes[p]), "VERIFY", i, v)
        /\ ~Delivered(p, i) /\ messagesLog[p][i] = NoState
    BY <1>3 DEF StartVerification
  <2>2. messagesLog'[p][i] = ms
    <3> HIDE DEF ms
    <3>1. QED
      BY <1>1, <2>1
  <2>3. QED
    BY <2>1, <2>2
<1>4. CASE VerifyEcho(p, q, i, v, rest)
  <2> DEFINE ms == messagesLog[p][i]
             echoes == EchoesWith(ms, q, v)
             ms2 == [ms EXCEPT !.echoes = echoes]
  <2>1. ~Delivered(p, i) /\ ms # NoState
    BY <1>4 DEF VerifyEcho
  <2>2. \/ Deliver(p, i, v)
        \/ /\ ~CountsAsEcho(q, ms) \/ EchoCount(echoes, v) < WitnessThreshold
           /\ messagesLog' = [messagesLog EXCEPT ![p][i] = ms2]
           /\ deliveredMessages' = deliveredMessages
    BY <1>4 DEF VerifyEcho, EchoesWith
  <2>3. CASE Deliver(p, i, v)
    <3>1. deliveredMessages'[p][i] = v /\ messagesLog'[p][i] = NoState
      BY <1>1, <2>3 DEF Deliver
    <3>2. QED
      BY <3>1
  <2>4. CASE /\ ~CountsAsEcho(q, ms) \/ EchoCount(echoes, v) < WitnessThreshold
             /\ messagesLog' = [messagesLog EXCEPT ![p][i] = ms2]
             /\ deliveredMessages' = deliveredMessages
    <3>1. messagesLog'[p][i] = ms2
      <4> HIDE DEF ms2
      <4>1. QED
        BY <1>1, <2>4
    <3>2. QED
      BY <2>1, <2>4, <3>1
  <2>5. QED
    BY <2>2, <2>3, <2>4
<1>5. QED
  BY <1>2, <1>3, <1>4 DEF Verify, SelectionPanics

LEMMA VerifyKnown ==
    ASSUME TypeOK, KnownInv, NEW p \in Correct, NEW q, NEW i \in Instance,
           NEW v \in Value, NEW rest, Verify(p, q, i, v, rest),
           initiated \subseteq initiated', <<i, v>> \in initiated',
           \A m \in BagToSet(rest) : <<m.inst, m.value>> \in initiated'
    PROVE  MessagesKnown' /\ \A r \in Correct, j \in Instance : StateKnown(r, j)'
<1> DEFINE sent == ToSet(p, OwnWitnesses(historyHashes[p]), "VERIFY", i, v)
<1>1. \A m \in BagToSet(sent) : m.inst = i /\ m.value = v
  <2>1. BagToSet(sent) = {Msg(p, x, "VERIFY", i, v) : x \in OwnWitnesses(historyHashes[p]) \cap Correct}
    BY ToSetSends
  <2> HIDE DEF sent
  <2>2. QED
    BY <2>1 DEF Msg
<1>2. /\ \/ network' = rest
         \/ network' = network
         \/ network' = rest (+) sent
      /\ \A r \in Correct, j \in Instance : r # p \/ j # i =>
            /\ deliveredMessages'[r][j] = deliveredMessages[r][j]
            /\ messagesLog'[r][j] = messagesLog[r][j]
  BY VerifyFrame
<1> HIDE DEF sent
<1>3. MessagesKnown'
  <2>1. \A m \in BagToSet(rest (+) sent) : <<m.inst, m.value>> \in initiated'
    BY <1>1, BagUnionSet
  <2>2. \A m \in BagToSet(network') : <<m.inst, m.value>> \in initiated'
    BY <1>2, <2>1 DEF KnownInv, MessagesKnown
  <2>3. QED
    BY <2>2 DEF MessagesKnown
<1>4. ASSUME NEW r \in Correct, NEW j \in Instance
      PROVE  StateKnown(r, j)'
  <2>1. StateKnown(r, j)
    BY DEF KnownInv
  <2>2. CASE r # p \/ j # i
    <3>1. /\ deliveredMessages'[r][j] = deliveredMessages[r][j]
          /\ messagesLog'[r][j] = messagesLog[r][j]
      BY <1>2, <2>2
    <3>2. QED
      BY <2>1, <3>1 DEF StateKnown, Delivered
  <2>3. CASE r = p /\ j = i
    <3> SUFFICES /\ deliveredMessages'[p][i] # None
                        => <<i, deliveredMessages'[p][i]>> \in initiated'
                 /\ messagesLog'[p][i] # NoState =>
                       \A x, w : <<x, w>> \in messagesLog'[p][i].echoes => <<i, w>> \in initiated'
      BY <2>3 DEF StateKnown, Delivered
    <3>1. CASE UNCHANGED <<deliveredMessages, messagesLog>>
      BY <2>1, <2>3, <3>1 DEF StateKnown, Delivered
    <3>2. CASE deliveredMessages'[p][i] = v /\ messagesLog'[p][i] = NoState
      BY <3>2
    <3>3. CASE /\ ~Delivered(p, i) /\ deliveredMessages'[p][i] = deliveredMessages[p][i]
               /\ messagesLog'[p][i] =
                    [echoes |-> {}, witnessSet |-> OwnWitnesses(historyHashes[p])]
      BY <3>3 DEF Delivered
    <3>4. CASE /\ ~Delivered(p, i) /\ messagesLog[p][i] # NoState
               /\ deliveredMessages'[p][i] = deliveredMessages[p][i]
               /\ messagesLog'[p][i] =
                    [messagesLog[p][i] EXCEPT !.echoes = EchoesWith(messagesLog[p][i], q, v)]
      <4> DEFINE ms == messagesLog[p][i]
                 echoes == EchoesWith(ms, q, v)
      <4>1. ms \in MessageState
        BY <3>4 DEF TypeOK
      <4>2. \A x, w : <<x, w>> \in echoes => <<x, w>> \in ms.echoes \/ w = v
        BY DEF EchoesWith
      <4>3. messagesLog'[p][i] = [ms EXCEPT !.echoes = echoes]
        BY <3>4
      <4>4. \A x, w : <<x, w>> \in ms.echoes => <<i, w>> \in initiated
        BY <2>1, <2>3, <3>4 DEF StateKnown
      <4> HIDE DEF ms, echoes
      <4>5. messagesLog'[p][i].echoes = echoes
        BY <4>1, <4>3, Zenon DEF MessageState
      <4>6. QED
        BY <3>4, <4>2, <4>4, <4>5 DEF Delivered
    <3>5. QED
      BY <3>1, <3>2, <3>3, <3>4, VerifyHere
  <2>4. QED
    BY <2>2, <2>3
<1>5. QED
  BY <1>3, <1>4

\* The echo of a witness is about what it was asked.
LEMMA AfterEchoKnown ==
    ASSUME KnownInv, NEW m \in BagToSet(network)
    PROVE  \A x \in BagToSet(AfterEcho(m)) : <<x.inst, x.value>> \in initiated
<1> DEFINE A == network (-) SetToBag({m})
           B == ToSet(m.to, {q \in Proc : Echoes(m.to, m)}, "ECHO", m.inst, m.value)
<1>1. AfterEcho(m) = A (+) B
  BY DEF AfterEcho
<1>2. \A x \in BagToSet(A) : <<x.inst, x.value>> \in initiated
  BY BagMinusSet DEF KnownInv, MessagesKnown
<1>3. \A x \in BagToSet(B) : x.inst = m.inst /\ x.value = m.value
  <2>1. BagToSet(B) = {Msg(m.to, q, "ECHO", m.inst, m.value) :
                          q \in {q \in Proc : Echoes(m.to, m)} \cap Correct}
    BY ToSetSends
  <2> HIDE DEF B
  <2>2. QED
    BY <2>1 DEF Msg
<1>4. <<m.inst, m.value>> \in initiated
  BY DEF KnownInv, MessagesKnown
<1> HIDE DEF A, B
<1>5. QED
  <2>1. BagToSet(AfterEcho(m)) = BagToSet(A) \cup BagToSet(B)
    BY <1>1, BagUnionSet
  <2>2. QED
    BY <1>2, <1>3, <1>4, <2>1

\* What an author broadcasts next has never been around.
LEMMA BroadcastFresh ==
    ASSUME TypeOK, KnownInv, NEW p \in Correct, NEW i, i = NextInstance(p), i \in Instance
    PROVE  /\ \A v \in Value : <<i, v>> \notin initiated
           /\ \A r \in Correct : ~Delivered(r, i) /\ messagesLog[r][i] = NoState
<1>1. i.author = p /\ i.seqNumber = transactionCounter[p] /\ transactionCounter[p] \in Int
  BY BoundAssumption DEF NextInstance, TypeOK
<1>2. \A v \in Value : <<i, v>> \notin initiated
  BY <1>1 DEF KnownInv, OneValuePerInstance
<1>3. \A r \in Correct : Delivered(r, i) => deliveredMessages[r][i] \in Value
  BY DEF TypeOK, Delivered
<1>4. QED
  BY <1>2, <1>3 DEF KnownInv, StateKnown

\* Handlers pass on what they are told, and Broadcast numbers what it begins.
THEOREM KnownInductive == Spec => []KnownInv
<1>1. Init => KnownInv
  BY EmptyBagSet DEF Init, KnownInv, OneValuePerInstance, MessagesKnown, StateKnown, Delivered
<1>2. TypeOK /\ KnownInv /\ [Next]_vars => KnownInv'
  <2> SUFFICES ASSUME TypeOK, KnownInv, [Next]_vars
               PROVE  KnownInv'
    OBVIOUS
  <2>1. ASSUME NEW p \in Correct, NEW v \in Value, Broadcast(p, v)
        PROVE  KnownInv'
    <3>1. ASSUME NEW i, i = NextInstance(p)
          PROVE  KnownInv'
      <4>1. /\ i \in Instance /\ Verify(p, p, i, v, network)
            /\ initiated' = initiated \cup {<<i, v>>}
            /\ transactionCounter' = [transactionCounter EXCEPT ![p] = @ + 1]
        BY <2>1, <3>1, BroadcastCase
      <4>2. \A w \in Value : <<i, w>> \notin initiated
        BY <3>1, <4>1, BroadcastFresh
      <4>3. \A m \in BagToSet(network) : <<m.inst, m.value>> \in initiated'
        BY <4>1 DEF KnownInv, MessagesKnown
      <4>4. MessagesKnown' /\ \A r \in Correct, j \in Instance : StateKnown(r, j)'
        BY <4>1, <4>3, VerifyKnown
      <4>5. OneValuePerInstance'
        <5>1. \A r \in Correct :
                /\ transactionCounter[r] \in Nat
                /\ transactionCounter'[r] =
                      IF r = p THEN transactionCounter[r] + 1 ELSE transactionCounter[r]
          BY <4>1, BoundAssumption DEF TypeOK
        <5>2. i.author = p /\ i.seqNumber = transactionCounter[p]
          BY <3>1 DEF NextInstance
        <5>3. ASSUME NEW j \in Instance, NEW w \in Value, <<j, w>> \in initiated'
              PROVE  /\ j.author \in Correct /\ j.seqNumber < transactionCounter'[j.author]
                     /\ \A x \in Value : <<j, x>> \in initiated' => w = x
          <6>1. CASE j = i
            BY <4>1, <4>2, <5>1, <5>2, <5>3, <6>1
          <6>2. CASE j # i
            <7>1. <<j, w>> \in initiated
                  /\ \A x \in Value : <<j, x>> \in initiated' => <<j, x>> \in initiated
              BY <4>1, <5>3, <6>2
            <7>2. /\ j.author \in Correct /\ j.seqNumber < transactionCounter[j.author]
                  /\ \A x \in Value : <<j, x>> \in initiated => w = x
              BY <7>1 DEF KnownInv, OneValuePerInstance
            <7>3. j.seqNumber \in Int
              BY BoundAssumption DEF Instance
            <7>4. j.seqNumber < transactionCounter'[j.author]
              BY <5>1, <7>2, <7>3
            <7>5. QED
              BY <7>1, <7>2, <7>4
          <6>3. QED
            BY <6>1, <6>2
        <5>4. QED
          BY <5>3 DEF OneValuePerInstance
      <4>6. QED
        BY <4>4, <4>5 DEF KnownInv
    <3>2. QED
      BY <3>1
  <2>2. ASSUME NEW m \in BagToSet(network), HandleMessage(m.to, m)
        PROVE  KnownInv'
    <3>1. /\ m.from \in Correct /\ m.to \in Correct
          /\ m.inst \in Instance /\ m.value \in Value
          /\ Verify(m.to, m.from, m.inst, m.value, AfterEcho(m))
          /\ UNCHANGED <<transactionCounter, initiated>>
      BY <2>2, HandleCase
    <3>2. \A x \in BagToSet(AfterEcho(m)) : <<x.inst, x.value>> \in initiated'
      BY <3>1, AfterEchoKnown
    <3>3. <<m.inst, m.value>> \in initiated'
      BY <3>1 DEF KnownInv, MessagesKnown
    <3>4. MessagesKnown' /\ \A r \in Correct, j \in Instance : StateKnown(r, j)'
      BY <3>1, <3>2, <3>3, VerifyKnown
    <3>5. OneValuePerInstance'
      BY <3>1 DEF KnownInv, OneValuePerInstance
    <3>6. QED
      BY <3>4, <3>5 DEF KnownInv
  <2>3. CASE UNCHANGED vars
    BY <2>3 DEF vars, KnownInv, OneValuePerInstance, MessagesKnown, StateKnown, Delivered
  <2>4. QED
    BY <2>1, <2>2, <2>3 DEF Next
<1>3. QED
  BY <1>1, <1>2, ConsistentTypes, PTL DEF Spec

\* As long as the faulty processes are silent, correct processes deliver what its
\* author has broadcast, hence the same value.
DeliveredWasBroadcast ==
    \A p, q \in Correct, i \in Instance :
        Delivered(p, i) =>
            /\ <<i, deliveredMessages[p][i]>> \in initiated
            /\ Delivered(q, i) => deliveredMessages[p][i] = deliveredMessages[q][i]

\* Deliveries are of what was broadcast, and agree.
THEOREM OnlyBroadcastDelivered == Spec => []DeliveredWasBroadcast
<1>1. TypeOK /\ KnownInv => DeliveredWasBroadcast
  <2> SUFFICES ASSUME TypeOK, KnownInv, NEW p \in Correct, NEW q \in Correct,
                      NEW i \in Instance, Delivered(p, i)
               PROVE  /\ <<i, deliveredMessages[p][i]>> \in initiated
                      /\ Delivered(q, i) => deliveredMessages[p][i] = deliveredMessages[q][i]
    BY DEF DeliveredWasBroadcast
  <2>1. \A r \in Correct : Delivered(r, i) =>
          deliveredMessages[r][i] \in Value /\ <<i, deliveredMessages[r][i]>> \in initiated
    BY DEF TypeOK, KnownInv, StateKnown, Delivered
  <2>2. QED
    BY <2>1 DEF KnownInv, OneValuePerInstance
<1>2. QED
  BY <1>1, ConsistentTypes, KnownInductive, PTL

-----------------------------------------------------------------------------
(* Validity: everyone hears, and who has heard gets its echoes *)

\* Message (q, p) of stage s about i and v is on its way.
OnItsWay(q, p, s, i, v) == Msg(q, p, s, i, v) \in BagToSet(network)

\* A process that waits has too few votes yet, and each of its correct
\* witnesses is being asked, answers or has voted.
Waiting(p, i, v) ==
    LET ms == messagesLog[p][i]
    IN  /\ EchoCount(ms.echoes, v) < WitnessThreshold
        /\ Cardinality(ms.witnessSet \cap Correct) >= WitnessThreshold
        /\ \A w \in ms.witnessSet \cap Correct :
              \/ OnItsWay(p, w, "VERIFY", i, v)
              \/ OnItsWay(w, p, "ECHO", i, v)
              \/ <<w, v>> \in ms.echoes

\* A process that has not heard of a broadcast value will: an echo is on its way
\* to it, or a witness of the author is still being asked.
WillHear(p, i, v) ==
    \/ \E w \in Correct : OnItsWay(w, p, "ECHO", i, v)
    \/ \E w \in Correct : OnItsWay(i.author, w, "VERIFY", i, v)

Heard(p, i, v) ==
    IF Delivered(p, i) THEN TRUE
    ELSE IF messagesLog[p][i] # NoState THEN Waiting(p, i, v)
    ELSE WillHear(p, i, v)

HeardInv ==
    \A p \in Correct, i \in Instance, v \in Value :
        <<i, v>> \in initiated => Heard(p, i, v)

\* Among the witnesses that a history selects enough are correct.
EnoughWitnesses ==
    \A p \in Correct :
        Cardinality(OwnWitnesses(historyHashes[p]) \cap Correct) >= WitnessThreshold

LEMMA NetworkIsABag == Spec => []IsABag(network)
<1>1. Init => IsABag(network)
  BY SetBagIsABag DEF Init, EmptyBag
<1>2. TypeOK /\ IsABag(network) /\ [Next]_vars => IsABag(network)'
  <2> SUFFICES ASSUME TypeOK, IsABag(network), [Next]_vars
               PROVE  IsABag(network')
    OBVIOUS
  <2>1. \A p, S, s, i, v : IsABag(ToSet(p, S, s, i, v))
    BY SetBagIsABag DEF ToSet
  <2>2. ASSUME NEW p \in Correct, NEW v \in Value, Broadcast(p, v)
        PROVE  IsABag(network')
    <3>1. ASSUME NEW i, i = NextInstance(p)
          PROVE  IsABag(network')
      <4>1. i \in Instance /\ Verify(p, p, i, v, network)
        BY <2>2, <3>1, BroadcastCase
      <4>2. \/ network' = network
            \/ network' = network (+) ToSet(p, OwnWitnesses(historyHashes[p]), "VERIFY", i, v)
        BY <4>1, VerifyFrame
      <4>3. QED
        BY <2>1, <4>2, BagUnionIsABag
    <3>2. QED
      BY <3>1
  <2>3. ASSUME NEW m \in BagToSet(network), HandleMessage(m.to, m)
        PROVE  IsABag(network')
    <3>1. /\ m.to \in Correct /\ m.inst \in Instance
          /\ Verify(m.to, m.from, m.inst, m.value, AfterEcho(m))
      BY <2>3, HandleCase
    <3>2. \/ network' = AfterEcho(m) \/ network' = network
          \/ network' = AfterEcho(m) (+)
                ToSet(m.to, OwnWitnesses(historyHashes[m.to]), "VERIFY", m.inst, m.value)
      BY <3>1, VerifyFrame
    <3>3. IsABag(AfterEcho(m))
      <4>1. IsABag(network (-) SetToBag({m}))
        BY BagMinusIsABag
      <4>2. QED
        BY <2>1, <4>1, BagUnionIsABag DEF AfterEcho
    <3>4. QED
      BY <2>1, <3>2, <3>3, BagUnionIsABag
  <2>4. CASE UNCHANGED vars
    BY <2>4 DEF vars
  <2>5. QED
    BY <2>2, <2>3, <2>4 DEF Next
<1>3. QED
  BY <1>1, <1>2, ConsistentTypes, PTL DEF Spec

\* What Verify is given stays on its way, and so do its questions.
LEMMA VerifySends ==
    ASSUME TypeOK, HashedNodes = Proc, NEW p \in Correct, NEW q, NEW i \in Instance,
           NEW v, NEW rest, Verify(p, q, i, v, rest)
    PROVE  BagToSet(rest) \subseteq BagToSet(network')
<1> DEFINE sent == ToSet(p, OwnWitnesses(historyHashes[p]), "VERIFY", i, v)
<1>1. network' = rest \/ network' = rest (+) sent
  BY VerifyFrame
<1> HIDE DEF sent
<1>2. QED
  BY <1>1, BagUnionSet

\* Other messages than the one handled stay on their way, and a witness that has
\* not delivered another value echoes to all correct processes.
LEMMA AfterEchoSends ==
    ASSUME IsABag(network), NEW m \in BagToSet(network)
    PROVE  /\ \A x \in BagToSet(network) : x # m => x \in BagToSet(AfterEcho(m))
           /\ Echoes(m.to, m) => \A r \in Correct :
                 Msg(m.to, r, "ECHO", m.inst, m.value) \in BagToSet(AfterEcho(m))
<1> DEFINE A == network (-) SetToBag({m})
           B == ToSet(m.to, {q \in Proc : Echoes(m.to, m)}, "ECHO", m.inst, m.value)
<1>1. AfterEcho(m) = A (+) B
  BY DEF AfterEcho
<1>2. \A x \in BagToSet(network) : x # m => x \in BagToSet(A)
  BY BagMinusIsABag
<1>3. ASSUME Echoes(m.to, m), NEW r \in Correct
      PROVE  Msg(m.to, r, "ECHO", m.inst, m.value) \in BagToSet(B)
  <2>1. r \in {q \in Proc : Echoes(m.to, m)} \cap Correct
    BY <1>3 DEF Correct
  <2>2. BagToSet(B) = {Msg(m.to, q, "ECHO", m.inst, m.value) :
                          q \in {q \in Proc : Echoes(m.to, m)} \cap Correct}
    BY ToSetSends
  <2> HIDE DEF B
  <2>3. QED
    BY <2>1, <2>2
<1> HIDE DEF A, B
<1>4. BagToSet(AfterEcho(m)) = BagToSet(A) \cup BagToSet(B)
  BY <1>1, BagUnionSet
<1>5. QED
  BY <1>2, <1>3, <1>4

LEMMA NoVotes ==
    ASSUME NEW v
    PROVE  EchoCount({}, v) = 0
<1>1. {q \in Proc : <<q, v>> \in {}} = {}
  OBVIOUS
<1>2. QED
  BY <1>1, FS_EmptySet DEF EchoCount

\* Whoever starts the verification waits from then on, and asks a correct witness.
LEMMA StartWaits ==
    ASSUME HashedNodes = Proc, EnoughWitnesses, NEW p \in Correct, NEW i, NEW v, NEW rest,
           messagesLog'[p][i] =
               [echoes |-> {}, witnessSet |-> OwnWitnesses(historyHashes[p])],
           network' = rest (+) ToSet(p, OwnWitnesses(historyHashes[p]), "VERIFY", i, v)
    PROVE  Waiting(p, i, v)' /\ \E w \in Correct : OnItsWay(p, w, "VERIFY", i, v)'
<1> DEFINE W == OwnWitnesses(historyHashes[p])
           B == ToSet(p, W, "VERIFY", i, v)
<1>1. \A w \in W \cap Correct : Msg(p, w, "VERIFY", i, v) \in BagToSet(network')
  <2>1. BagToSet(B) = {Msg(p, w, "VERIFY", i, v) : w \in W \cap Correct}
    BY ToSetSends
  <2> HIDE DEF W
  <2>2. \A w \in W \cap Correct : Msg(p, w, "VERIFY", i, v) \in BagToSet(B)
    BY <2>1
  <2>3. network' = rest (+) B
    BY DEF W
  <2> HIDE DEF B
  <2>4. BagToSet(network') = BagToSet(rest) \cup BagToSet(B)
    BY <2>3, BagUnionSet
  <2>5. QED
    BY <2>2, <2>4
<1>2. Cardinality(W \cap Correct) >= WitnessThreshold
  BY DEF EnoughWitnesses
<1>3. messagesLog'[p][i].echoes = {} /\ messagesLog'[p][i].witnessSet = W
  OBVIOUS
<1> HIDE DEF W, B
<1>4. EchoCount({}, v) < WitnessThreshold
  BY NoVotes, ThresholdAssumption
<1>5. PICK w \in W \cap Correct : TRUE
  <2>1. W \cap Correct # {}
    BY <1>2, ThresholdAssumption, FS_EmptySet
  <2>2. QED
    BY <2>1
<1>6. QED
  BY <1>1, <1>2, <1>3, <1>4, <1>5 DEF Waiting, OnItsWay

LEMMA MessageIsMsg ==
    ASSUME NEW m \in Message
    PROVE  m = Msg(m.from, m.to, m.stage, m.inst, m.value)
BY DEF Message, Msg

\* Who waits and counts, or ignores, the message m goes on waiting.
LEMMA EchoKeepsWaiting ==
    ASSUME TypeOK, KnownInv, IsABag(network), HashedNodes = Proc,
           NEW m \in BagToSet(network), m \in Message,
           NEW p, NEW i, NEW v, p = m.to, i = m.inst, v = m.value,
           p \in Correct, i \in Instance, v \in Value,
           Verify(p, m.from, i, v, AfterEcho(m)),
           NEW ms, ms = messagesLog[p][i], ms # NoState, Waiting(p, i, v),
           messagesLog'[p][i] = [ms EXCEPT !.echoes = EchoesWith(ms, m.from, v)],
           ~CountsAsEcho(m.from, ms) \/ EchoCount(EchoesWith(ms, m.from, v), v) < WitnessThreshold
    PROVE  Waiting(p, i, v)'
<1> DEFINE q == m.from
           echoes == EchoesWith(ms, q, v)
<1>1. ms \in MessageState
  BY DEF TypeOK
<1>2. messagesLog'[p][i].echoes = echoes /\ messagesLog'[p][i].witnessSet = ms.witnessSet
  <2> HIDE DEF echoes
  <2>1. messagesLog'[p][i] = [ms EXCEPT !.echoes = echoes]
    BY DEF echoes
  <2>2. QED
    BY <1>1, <2>1, Zenon DEF MessageState
<1>3. /\ EchoCount(ms.echoes, v) < WitnessThreshold
      /\ Cardinality(ms.witnessSet \cap Correct) >= WitnessThreshold
      /\ \A w \in ms.witnessSet \cap Correct :
            \/ OnItsWay(p, w, "VERIFY", i, v)
            \/ OnItsWay(w, p, "ECHO", i, v)
            \/ <<w, v>> \in ms.echoes
  BY DEF Waiting
<1>4. ms.echoes \subseteq echoes
  BY DEF EchoesWith
<1>5. EchoCount(echoes, v) < WitnessThreshold
  <2>1. CASE CountsAsEcho(q, ms)
    BY <2>1
  <2>2. CASE ~CountsAsEcho(q, ms)
    <3>1. echoes = ms.echoes
      BY <2>2 DEF EchoesWith
    <3>2. QED
      BY <1>3, <3>1
  <2>3. QED
    BY <2>1, <2>2
<1>6. ASSUME q \in ms.witnessSet
      PROVE  <<q, v>> \in echoes
  <2>1. CASE CountsAsEcho(q, ms)
    BY <2>1 DEF EchoesWith
  <2>2. CASE ~CountsAsEcho(q, ms)
    <3>1. PICK x \in Value : <<q, x>> \in ms.echoes
      BY <1>6, <2>2 DEF CountsAsEcho, Voted
    <3>2. <<i, x>> \in initiated /\ <<i, v>> \in initiated
      BY <3>1 DEF KnownInv, StateKnown, MessagesKnown
    <3>3. x = v
      BY <3>2 DEF KnownInv, OneValuePerInstance
    <3>4. QED
      BY <1>4, <3>1, <3>3
  <2>3. QED
    BY <2>1, <2>2
<1>7. \A x \in BagToSet(network) : x # m => x \in BagToSet(network')
  BY AfterEchoSends, VerifySends
<1>8. ASSUME NEW w \in ms.witnessSet \cap Correct
      PROVE  OnItsWay(p, w, "VERIFY", i, v)' \/ OnItsWay(w, p, "ECHO", i, v)'
             \/ <<w, v>> \in echoes
  <2>1. CASE <<w, v>> \in ms.echoes
    BY <1>4, <2>1
  <2>2. CASE OnItsWay(p, w, "VERIFY", i, v)
    <3>1. CASE Msg(p, w, "VERIFY", i, v) = m
      <4>1. m.from = p /\ m.to = w
        BY <3>1 DEF Msg
      <4>2. QED
        BY <1>6, <4>1
    <3>2. CASE Msg(p, w, "VERIFY", i, v) # m
      BY <1>7, <2>2, <3>2 DEF OnItsWay
    <3>3. QED
      BY <3>1, <3>2
  <2>3. CASE OnItsWay(w, p, "ECHO", i, v)
    <3>1. CASE Msg(w, p, "ECHO", i, v) = m
      <4>1. m.from = w
        BY <3>1 DEF Msg
      <4>2. QED
        BY <1>6, <4>1
    <3>2. CASE Msg(w, p, "ECHO", i, v) # m
      BY <1>7, <2>3, <3>2 DEF OnItsWay
    <3>3. QED
      BY <3>1, <3>2
  <2>4. QED
    BY <1>3, <2>1, <2>2, <2>3
<1> HIDE DEF echoes
<1>9. QED
  BY <1>2, <1>3, <1>5, <1>8 DEF Waiting

\* Whatever a process handles, all others hear or wait as before.
LEMMA HandleKeepsHeard ==
    ASSUME TypeOK, KnownInv, IsABag(network), HashedNodes = Proc, EnoughWitnesses, HeardInv,
           NEW m \in BagToSet(network), HandleMessage(m.to, m),
           NEW r \in Correct, NEW j \in Instance, NEW x \in Value, <<j, x>> \in initiated
    PROVE  Heard(r, j, x)'
<1> DEFINE p == m.to
           i == m.inst
           v == m.value
<1>1. /\ m \in Message /\ m.from \in Correct /\ p \in Correct
      /\ i \in Instance /\ v \in Value
      /\ Verify(p, m.from, i, v, AfterEcho(m))
      /\ UNCHANGED <<transactionCounter, initiated>>
  BY HandleCase
<1>2. <<i, v>> \in initiated /\ Heard(r, j, x)
  BY DEF KnownInv, MessagesKnown, HeardInv
<1>3. \A y \in BagToSet(network) : y # m => y \in BagToSet(network')
  BY <1>1, AfterEchoSends, VerifySends
<1>4. r # p \/ j # i =>
        /\ deliveredMessages'[r][j] = deliveredMessages[r][j]
        /\ messagesLog'[r][j] = messagesLog[r][j]
  BY <1>1, VerifyFrame
<1>5. CASE j # i
  <2>1. \A a, b, s : OnItsWay(a, b, s, j, x) => OnItsWay(a, b, s, j, x)'
    <3> SUFFICES ASSUME NEW a, NEW b, NEW s, OnItsWay(a, b, s, j, x)
                 PROVE  OnItsWay(a, b, s, j, x)'
      OBVIOUS
    <3>1. Msg(a, b, s, j, x).inst = j
      BY DEF Msg
    <3>2. Msg(a, b, s, j, x) # m
      BY <1>5, <3>1
    <3>3. QED
      BY <1>3, <3>2 DEF OnItsWay
  <2>2. /\ deliveredMessages'[r][j] = deliveredMessages[r][j]
        /\ messagesLog'[r][j] = messagesLog[r][j]
    BY <1>4, <1>5
  <2>3. Waiting(r, j, x) => Waiting(r, j, x)'
    BY <2>1, <2>2 DEF Waiting
  <2>4. WillHear(r, j, x) => WillHear(r, j, x)'
    BY <2>1 DEF WillHear
  <2>5. QED
    BY <1>2, <2>2, <2>3, <2>4 DEF Heard, Delivered
<1>6. CASE j = i
  <2>1. x = v
    BY <1>1, <1>2, <1>6 DEF KnownInv, OneValuePerInstance
  <2>2. CASE r = p
    <3>1. CASE Delivered(p, i) /\ UNCHANGED <<deliveredMessages, messagesLog>>
      BY <1>6, <2>2, <3>1 DEF Heard, Delivered
    <3>2. CASE deliveredMessages'[p][i] = v
      <4>1. v # None
        BY <1>1, ValueAssumption
      <4>2. QED
        BY <1>6, <2>2, <3>2, <4>1 DEF Heard, Delivered
    <3>3. CASE /\ messagesLog'[p][i] =
                    [echoes |-> {}, witnessSet |-> OwnWitnesses(historyHashes[p])]
               /\ network' = AfterEcho(m) (+)
                    ToSet(p, OwnWitnesses(historyHashes[p]), "VERIFY", i, v)
      <4>1. Waiting(p, i, v)'
        BY <1>1, <3>3, StartWaits
      <4>2. messagesLog'[p][i] # NoState
        <5>1. messagesLog'[p][i] \in MessageState
          <6>1. historyHashes[p] \in [Proc -> MultiRing]
            BY <1>1 DEF TypeOK
          <6>2. OwnWitnesses(historyHashes[p]) \in SUBSET Proc
            BY <6>1, PotWitnessesNearest
          <6>3. QED
            BY <3>3, <6>2 DEF MessageState, Votes
        <5>2. QED
          BY <5>1, NoStateIsNone
      <4>3. QED
        BY <1>6, <2>1, <2>2, <4>1, <4>2 DEF Heard
    <3>4. CASE /\ ~Delivered(p, i) /\ messagesLog[p][i] # NoState
               /\ \/ ~CountsAsEcho(m.from, messagesLog[p][i])
                  \/ EchoCount(EchoesWith(messagesLog[p][i], m.from, v), v) < WitnessThreshold
               /\ messagesLog'[p][i] =
                    [messagesLog[p][i] EXCEPT !.echoes = EchoesWith(messagesLog[p][i], m.from, v)]
      <4>1. Waiting(p, i, v)
        BY <1>2, <1>6, <2>1, <2>2, <3>4 DEF Heard
      <4>2. Waiting(p, i, v)'
        BY <1>1, <3>4, <4>1, EchoKeepsWaiting
      <4>3. messagesLog'[p][i] # NoState
        <5> DEFINE ms == messagesLog[p][i]
                   e == EchoesWith(ms, m.from, v)
        <5>1. ms \in MessageState
          BY <1>1, <3>4 DEF TypeOK
        <5>2. messagesLog'[p][i] = [ms EXCEPT !.echoes = e]
          BY <3>4
        <5> HIDE DEF ms, e
        <5>3. DOMAIN messagesLog'[p][i] = DOMAIN ms
          BY <5>2
        <5>4. DOMAIN ms = {"echoes", "witnessSet"} /\ DOMAIN NoState = {"registered"}
          BY <5>1 DEF MessageState, NoState
        <5>5. "echoes" # "registered"
          OBVIOUS
        <5>6. QED
          BY <5>3, <5>4, <5>5
      <4>4. QED
        BY <1>6, <2>1, <2>2, <4>2, <4>3 DEF Heard
    <3>5. QED
      BY <1>1, <3>1, <3>2, <3>3, <3>4, VerifyHere
  <2>3. CASE r # p
    <3>1. /\ deliveredMessages'[r][i] = deliveredMessages[r][i]
          /\ messagesLog'[r][i] = messagesLog[r][i]
      BY <1>4, <1>6, <2>3
    <3>2. m.stage = "VERIFY" => OnItsWay(p, r, "ECHO", i, v)'
      <4> SUFFICES ASSUME m.stage = "VERIFY"
                   PROVE  OnItsWay(p, r, "ECHO", i, v)'
        OBVIOUS
      <4>1. deliveredMessages[p][i] \in {None, v}
        <5>1. StateKnown(p, i) /\ deliveredMessages[p][i] \in Value \cup {None}
          BY <1>1 DEF KnownInv, TypeOK
        <5>2. QED
          BY <1>1, <1>2, <5>1 DEF StateKnown, Delivered, KnownInv, OneValuePerInstance
      <4>2. Msg(p, r, "ECHO", i, v) \in BagToSet(AfterEcho(m))
        BY <4>1, AfterEchoSends DEF Echoes
      <4>3. QED
        BY <1>1, <4>2, VerifySends DEF OnItsWay
    <3>3. \A a : OnItsWay(a, r, "ECHO", i, v) => OnItsWay(a, r, "ECHO", i, v)'
      <4> SUFFICES ASSUME NEW a, OnItsWay(a, r, "ECHO", i, v)
                   PROVE  OnItsWay(a, r, "ECHO", i, v)'
        OBVIOUS
      <4>1. Msg(a, r, "ECHO", i, v).to = r
        BY DEF Msg
      <4>2. Msg(a, r, "ECHO", i, v) # m
        BY <2>3, <4>1
      <4>3. QED
        BY <1>3, <4>2 DEF OnItsWay
    <3>4. \A a, w : OnItsWay(a, w, "VERIFY", i, v) =>
             \/ OnItsWay(a, w, "VERIFY", i, v)'
             \/ w = p /\ OnItsWay(p, r, "ECHO", i, v)'
      <4> SUFFICES ASSUME NEW a, NEW w, OnItsWay(a, w, "VERIFY", i, v)
                   PROVE  \/ OnItsWay(a, w, "VERIFY", i, v)'
                          \/ w = p /\ OnItsWay(p, r, "ECHO", i, v)'
        OBVIOUS
      <4>1. CASE Msg(a, w, "VERIFY", i, v) = m
        <5>1. m.to = w /\ m.stage = "VERIFY"
          BY <4>1 DEF Msg
        <5>2. QED
          BY <3>2, <5>1
      <4>2. CASE Msg(a, w, "VERIFY", i, v) # m
        BY <1>3, <4>2 DEF OnItsWay
      <4>3. QED
        BY <4>1, <4>2
    <3>5. Waiting(r, i, v) => Waiting(r, i, v)'
      BY <3>1, <3>3, <3>4 DEF Waiting
    <3>6. WillHear(r, i, v) => WillHear(r, i, v)'
      BY <1>1, <3>3, <3>4 DEF WillHear
    <3>7. QED
      BY <1>2, <1>6, <2>1, <3>1, <3>5, <3>6 DEF Heard, Delivered
  <2>4. QED
    BY <2>2, <2>3
<1>7. QED
  BY <1>5, <1>6

LEMMA BroadcastKeepsHeard ==
    ASSUME TypeOK, KnownInv, HashedNodes = Proc, EnoughWitnesses, HeardInv,
           NEW p \in Correct, NEW v \in Value, Broadcast(p, v),
           NEW r \in Correct, NEW j \in Instance, NEW x \in Value, <<j, x>> \in initiated'
    PROVE  Heard(r, j, x)'
<1> SUFFICES ASSUME NEW i, i = NextInstance(p)
             PROVE  Heard(r, j, x)'
  OBVIOUS
<1>1. /\ i \in Instance /\ Verify(p, p, i, v, network)
      /\ initiated' = initiated \cup {<<i, v>>}
  BY BroadcastCase
<1>2. /\ \A w \in Value : <<i, w>> \notin initiated
      /\ \A s \in Correct : ~Delivered(s, i) /\ messagesLog[s][i] = NoState
  BY <1>1, BroadcastFresh
<1>3. r # p \/ j # i =>
        /\ deliveredMessages'[r][j] = deliveredMessages[r][j]
        /\ messagesLog'[r][j] = messagesLog[r][j]
  BY <1>1, VerifyFrame
<1>4. \A a, b, s, k, y : OnItsWay(a, b, s, k, y) => OnItsWay(a, b, s, k, y)'
  BY <1>1, VerifySends DEF OnItsWay
<1>5. CASE j # i
  <2>1. <<j, x>> \in initiated
    BY <1>1, <1>5
  <2>2. Heard(r, j, x)
    BY <2>1 DEF HeardInv
  <2>3. /\ deliveredMessages'[r][j] = deliveredMessages[r][j]
        /\ messagesLog'[r][j] = messagesLog[r][j]
    BY <1>3, <1>5
  <2>4. Waiting(r, j, x) => Waiting(r, j, x)'
    BY <1>4, <2>3 DEF Waiting
  <2>5. WillHear(r, j, x) => WillHear(r, j, x)'
    BY <1>4 DEF WillHear
  <2>6. QED
    BY <2>2, <2>3, <2>4, <2>5 DEF Heard, Delivered
<1>6. CASE j = i
  <2>1. x = v
    BY <1>1, <1>2, <1>6
  <2>2. StartVerification(p, i, v, network)
    BY <1>1, <1>2 DEF Verify, VerifyDelivered, VerifyEcho, SelectionPanics
  <2>3. /\ messagesLog'[p][i] =
              [echoes |-> {}, witnessSet |-> OwnWitnesses(historyHashes[p])]
        /\ network' = network (+) ToSet(p, OwnWitnesses(historyHashes[p]), "VERIFY", i, v)
    <3> DEFINE ms == [echoes |-> {}, witnessSet |-> OwnWitnesses(historyHashes[p])]
    <3>1. /\ messagesLog' = [messagesLog EXCEPT ![p][i] = ms]
          /\ network' = network (+) ToSet(p, OwnWitnesses(historyHashes[p]), "VERIFY", i, v)
      BY <2>2 DEF StartVerification
    <3> HIDE DEF ms
    <3>2. messagesLog'[p][i] = ms
      BY <1>1, <3>1 DEF TypeOK
    <3>3. QED
      BY <3>1, <3>2 DEF ms
  <2>4. Waiting(p, i, v)' /\ \E w \in Correct : OnItsWay(p, w, "VERIFY", i, v)'
    BY <2>3, StartWaits
  <2>5. CASE r = p
    <3>1. messagesLog'[p][i] # NoState
      <4>1. historyHashes[p] \in [Proc -> MultiRing]
        BY DEF TypeOK
      <4>2. OwnWitnesses(historyHashes[p]) \in SUBSET Proc
        BY <4>1, PotWitnessesNearest
      <4>3. messagesLog'[p][i] \in MessageState
        BY <2>3, <4>2 DEF MessageState, Votes
      <4>4. QED
        BY <4>3, NoStateIsNone
    <3>2. QED
      BY <1>6, <2>1, <2>4, <2>5, <3>1 DEF Heard
  <2>6. CASE r # p
    <3>1. messagesLog'[r][i] = NoState
      BY <1>2, <1>3, <1>6, <2>6
    <3>2. i.author = p
      BY DEF NextInstance
    <3>3. WillHear(r, i, v)'
      BY <2>4, <3>2 DEF WillHear
    <3>4. QED
      BY <1>6, <2>1, <3>1, <3>3 DEF Heard
  <2>7. QED
    BY <2>5, <2>6
<1>7. QED
  BY <1>5, <1>6

\* Once all messages are handled, everyone has delivered what was broadcast, as
\* long as every selection holds WitnessThreshold correct witnesses.  This is
\* the protocol with a history hash for every node, which GetWitnessSet expects
\* and process.go:117 does not pass: what the code does is NobodyDelivers below.
THEOREM BroadcastsDelivered ==
    ASSUME HashedNodes = Proc
    PROVE  Spec /\ []EnoughWitnesses => []Validity
<1>1. Init => HeardInv
  BY DEF Init, HeardInv
<1>2. TypeOK /\ KnownInv /\ IsABag(network) /\ EnoughWitnesses /\ HeardInv /\ [Next]_vars
        => HeardInv'
  <2> SUFFICES ASSUME TypeOK, KnownInv, IsABag(network), EnoughWitnesses, HeardInv, [Next]_vars,
                      NEW r \in Correct, NEW j \in Instance, NEW x \in Value,
                      <<j, x>> \in initiated'
               PROVE  Heard(r, j, x)'
    BY DEF HeardInv
  <2>1. ASSUME NEW p \in Correct, NEW v \in Value, Broadcast(p, v)
        PROVE  Heard(r, j, x)'
    BY <2>1, BroadcastKeepsHeard
  <2>2. ASSUME NEW m \in BagToSet(network), HandleMessage(m.to, m)
        PROVE  Heard(r, j, x)'
    <3>1. initiated' = initiated
      BY <2>2, HandleCase
    <3>2. QED
      BY <2>2, <3>1, HandleKeepsHeard
  <2>3. CASE UNCHANGED vars
    BY <2>3 DEF vars, HeardInv, Heard, Waiting, WillHear, OnItsWay, Delivered
  <2>4. QED
    BY <2>1, <2>2, <2>3 DEF Next
<1>3. TypeOK /\ KnownInv /\ HeardInv => Validity
  <2> SUFFICES ASSUME TypeOK, KnownInv, HeardInv, network = EmptyBag,
                      NEW p \in Correct, NEW i \in Instance, NEW v \in Value,
                      <<i, v>> \in initiated
               PROVE  deliveredMessages[p][i] = v
    BY DEF Validity
  <2>1. \A a, b, s : ~OnItsWay(a, b, s, i, v)
    BY EmptyBagSet DEF OnItsWay
  <2>2. Heard(p, i, v)
    BY DEF HeardInv
  <2>3. ~Waiting(p, i, v)
    <3> DEFINE ms == messagesLog[p][i]
               voters == {q \in Proc : <<q, v>> \in ms.echoes}
               asked == ms.witnessSet \cap Correct
    <3> SUFFICES ASSUME Waiting(p, i, v)
                 PROVE  FALSE
      OBVIOUS
    <3>1. /\ Cardinality(voters) < WitnessThreshold
          /\ Cardinality(asked) >= WitnessThreshold
          /\ \A w \in asked : <<w, v>> \in ms.echoes
      BY <2>1 DEF Waiting, EchoCount
    <3>2. asked \subseteq voters
      BY <3>1 DEF Correct
    <3>3. IsFiniteSet(voters)
      BY NodeAssumption, FS_Subset
    <3> HIDE DEF asked, voters
    <3>4. Cardinality(asked) <= Cardinality(voters) /\ IsFiniteSet(asked)
      BY <3>2, <3>3, FS_Subset
    <3>5. Cardinality(asked) \in Nat /\ Cardinality(voters) \in Nat
      BY <3>3, <3>4, FS_CardinalityType
    <3>6. QED
      BY <3>1, <3>4, <3>5, ThresholdAssumption
  <2>4. Delivered(p, i)
    BY <2>1, <2>2, <2>3 DEF Heard, WillHear
  <2>5. deliveredMessages[p][i] \in Value /\ <<i, deliveredMessages[p][i]>> \in initiated
    BY <2>4 DEF TypeOK, KnownInv, StateKnown, Delivered
  <2>6. QED
    BY <2>5 DEF KnownInv, OneValuePerInstance
<1>4. QED
  BY <1>1, <1>2, <1>3, ConsistentTypes, KnownInductive, NetworkIsABag, PTL DEF Spec

\* The parameters under which every selection does: own sets at least so large
\* that the faulty processes cannot leave fewer.  Again for a hash per node.
THEOREM WideSelectionsSuffice ==
    ASSUME HashedNodes = Proc,
           MinOwnWitnessSetSize <= MinPotWitnessSetSize,
           OwnWitnessSetRadius <= PotWitnessSetRadius,
           WitnessThreshold + Cardinality(Faulty) <= MinOwnWitnessSetSize,
           WitnessThreshold + Cardinality(Faulty) <= Cardinality(Proc)
    PROVE  Spec => []Validity
<1>1. TypeOK => EnoughWitnesses
  <2> SUFFICES ASSUME TypeOK, NEW p \in Correct,
                      NEW W, W = OwnWitnesses(historyHashes[p])
               PROVE  Cardinality(W \cap Correct) >= WitnessThreshold
    BY DEF EnoughWitnesses
  <2>1. historyHashes[p] \in [Proc -> MultiRing]
    BY DEF TypeOK
  <2>2. W \subseteq Proc
    BY <2>1, PotWitnessesNearest
  <2>3. Nearest(W, FromOrigin(historyHashes[p]), MinOwnWitnessSetSize, OwnWitnessSetRadius)
    BY <2>1, OwnWitnessesNearest
  <2>4. IsFiniteSet(W) /\ IsFiniteSet(Faulty) /\ Cardinality(W) \in Nat
        /\ Cardinality(Faulty) \in Nat /\ Cardinality(Proc) \in Nat
    BY <2>2, NodeAssumption, ProcessAssumption, FS_Subset, FS_CardinalityType
  <2>5. Cardinality(W) >= WitnessThreshold + Cardinality(Faulty)
    BY <2>3, <2>4, SizeAssumption, ThresholdAssumption DEF Nearest
  <2>6. Cardinality(W \cap Faulty) <= Cardinality(Faulty) /\ Cardinality(W \cap Faulty) \in Nat
    <3>1. IsFiniteSet(W \cap Faulty) /\ W \cap Faulty \subseteq Faulty
      BY <2>4, FS_Intersection
    <3>2. QED
      BY <2>4, <3>1, FS_Subset, FS_CardinalityType
  <2>7. Cardinality(W \ Faulty) = Cardinality(W) - Cardinality(W \cap Faulty)
    BY <2>4, FS_Difference
  <2>8. W \cap Correct = W \ Faulty
    BY <2>2 DEF Correct
  <2>9. Cardinality(W \cap Correct) = Cardinality(W \ Faulty)
    BY <2>8, Zenon
  <2>10. QED
    BY <2>4, <2>5, <2>6, <2>7, <2>9, ThresholdAssumption
<1>2. QED
  BY <1>1, ConsistentTypes, BroadcastsDelivered, PTL

-----------------------------------------------------------------------------
(* The code as it is: one history hash, whatever the number of nodes *)

\* Nothing is registered, sent or delivered, and who has broadcast is ended.
NothingDone ==
    /\ \A p \in Correct, i \in Instance : ~Delivered(p, i) /\ messagesLog[p][i] = NoState
    /\ network = EmptyBag
    /\ \A i \in Instance, v \in Value : <<i, v>> \in initiated => i.author \in stopped

\* With fewer hashes than nodes the first broadcast of a process ends it in
\* GetWitnessSet, before it has sent anything, so that nobody ever delivers.
THEOREM NobodyDelivers ==
    ASSUME HashedNodes # Proc
    PROVE  Spec => []NothingDone
<1>1. Init => NothingDone
  BY DEF Init, NothingDone, Delivered
<1>2. TypeOK /\ NothingDone /\ [Next]_vars => NothingDone'
  <2> SUFFICES ASSUME TypeOK, NothingDone, [Next]_vars
               PROVE  NothingDone'
    OBVIOUS
  <2>1. ASSUME NEW p \in Correct, NEW v \in Value, Broadcast(p, v)
        PROVE  NothingDone'
    <3>1. /\ NextInstance(p) \in Instance /\ Verify(p, p, NextInstance(p), v, network)
          /\ initiated' = initiated \cup {<<NextInstance(p), v>>}
      BY <2>1, BroadcastCase
    <3>2. SelectionPanics(p, NextInstance(p))
      BY <3>1 DEF NothingDone, Verify, VerifyDelivered, VerifyEcho, StartVerification
    <3>3. /\ UNCHANGED <<deliveredMessages, messagesLog, network>>
          /\ stopped' = stopped \cup {p}
      BY <3>2 DEF SelectionPanics
    <3>4. NextInstance(p).author = p
      BY DEF NextInstance
    <3>5. QED
      BY <3>1, <3>3, <3>4 DEF NothingDone, Delivered
  <2>2. ASSUME NEW m \in BagToSet(network), HandleMessage(m.to, m)
        PROVE  NothingDone'
    BY <2>2, EmptyBagSet DEF NothingDone
  <2>3. CASE UNCHANGED vars
    BY <2>3 DEF vars, NothingDone, Delivered
  <2>4. QED
    BY <2>1, <2>2, <2>3 DEF Next
<1>3. QED
  BY <1>1, <1>2, ConsistentTypes, PTL DEF Spec
=============================================================================
