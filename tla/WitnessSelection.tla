-------------------------- MODULE WitnessSelection --------------------------
(***************************************************************************)
(* The history hash and the choice of witnesses of impl/hashing: a history *)
(* is a vector of bins, a ring each; every transaction or secret moves one *)
(* bin by one step; and the witnesses are the nodes whose own history hash *)
(* (the same history, hashed with the seed of the node) has stayed nearest *)
(* to where it began.                                                      *)
(***************************************************************************)
EXTENDS Integers, FiniteSets, Functions

CONSTANTS
    Proc,                   \* the nodes among which witnesses are chosen
    BinNum,                 \* parameters.NumberOfBins
    BinCapacity,            \* 2^(NodeIdSize / NumberOfBins)
    MinOwnWitnessSetSize,   \* `w' in the input file
    MinPotWitnessSetSize,   \* `v'
    OwnWitnessSetRadius,    \* `wr', rounded up: distances are whole numbers
    PotWitnessSetRadius     \* `vr', likewise

ASSUME NodeAssumption == IsFiniteSet(Proc)
ASSUME BinAssumption == BinNum \in Nat \ {0} /\ BinCapacity \in Nat \ {0}
ASSUME SizeAssumption ==
    /\ MinOwnWitnessSetSize \in Nat /\ MinPotWitnessSetSize \in Nat
    /\ OwnWitnessSetRadius \in Nat /\ PotWitnessSetRadius \in Nat

-----------------------------------------------------------------------------
(* Multi-rings *)

Bins == 0 .. BinNum - 1
MultiRing == [Bins -> 0 .. BinCapacity - 1]
NewMultiRing == [b \in Bins |-> 0]

\* Go's remainder takes the sign of the dividend; TLA+'s % does not.
Remainder(x, m) == IF x >= 0 THEN x % m ELSE -((-x) % m)

\* set: any value is brought into the range of a bin.
MutStopsAtZero(value) == IF value < 0 THEN 0 ELSE Remainder(value, BinCapacity)
MutNegativeBin(value) == Remainder(value, BinCapacity)
InRange(value) == Remainder(Remainder(value, BinCapacity) + BinCapacity, BinCapacity)

Add(ring, b, value) == [ring EXCEPT ![b] = InRange(@ + value)]

Subtract(x, y) == Remainder(BinCapacity + x - y, BinCapacity)

\* multiRingDistance: along each ring the shorter way round, summed up.
MutOneWayRound(x, y) == Subtract(x, y)
BinDistance(x, y) ==
    IF Subtract(x, y) <= Subtract(y, x) THEN Subtract(x, y) ELSE Subtract(y, x)

Distance(r1, r2) ==
    LET sum[b \in 0 .. BinNum] ==
            IF b = 0 THEN 0 ELSE sum[b - 1] + BinDistance(r1[b - 1], r2[b - 1])
    IN  sum[BinNum]

-----------------------------------------------------------------------------
(* History hashes *)

\* h & n # 0: some bit is set in both numbers.
Bit(h, k) == (h \div 2^k) % 2
ShareBits(h, n) == \E k \in 0 .. n : Bit(h, k) = 1 /\ Bit(n, k) = 1

\* HistoryHash.Insert, of something whose hash is h.
Insert(ring, h) == Add(ring, h % BinNum, IF ShareBits(h, BinNum) THEN 1 ELSE -1)

-----------------------------------------------------------------------------
(* GetWitnessSet, for the history hashes of all nodes *)

FromOrigin(hashes) == [n \in Proc |-> Distance(NewMultiRing, hashes[n])]

\* sort.Sort by distance: nodes at the same distance come in some order, the
\* same one wherever the distances are the same.
ByDistance(d) ==
    CHOOSE order \in Bijection(1 .. Cardinality(Proc), Proc) :
        \A i, j \in 1 .. Cardinality(Proc) : i <= j => d[order[i]] <= d[order[j]]

\* The loop goes on while too few are found or the next one is within the radius.
MutOneShort(i, d, size, radius) == i < size \/ d < radius
Qualifies(i, d, size, radius) == i <= size \/ d < radius

PotPositions(d, order) ==
    {i \in 1 .. Cardinality(Proc) :
        \A j \in 1 .. i :
            Qualifies(j, d[order[j]], MinPotWitnessSetSize, PotWitnessSetRadius)}

PotWitnesses(hashes) ==
    LET d     == FromOrigin(hashes)
        order == ByDistance(d)
    IN  {order[i] : i \in PotPositions(d, order)}

OwnWitnesses(hashes) ==
    LET d     == FromOrigin(hashes)
        order == ByDistance(d)
    IN  {order[i] : i \in {j \in PotPositions(d, order) :
            Qualifies(j, d[order[j]], MinOwnWitnessSetSize, OwnWitnessSetRadius)}}
=============================================================================
