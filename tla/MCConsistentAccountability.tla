--------------------- MODULE MCConsistentAccountability ---------------------
(* Instances of ConsistentAccountability for TLC. *)
EXTENDS ConsistentAccountability, Sequences

CONSTANTS p1, p2, p3   \* processes
CONSTANT v1            \* the value

\* Hashes with 2 bins: 0 and 1 move bin 0 and bin 1 down, 2 and 3 move them up.
\* Two of the transactions of p1 bring p1 or p2 back to its origin and take p3
\* ever further away, so the only own witness moves between p1 and p2 with the
\* transactions that a process has delivered.
HashOf(i, n) ==
    IF n = p3 THEN 0
    ELSE LET ofP1 == <<0, 1, 2>>
             ofP2 == <<0, 2, 0>>
         IN  (IF n = p1 THEN ofP1 ELSE ofP2)[i.seqNumber + 1]
Hashes == [i \in Instance |-> [n \in Proc |-> HashOf(i, n)]]

\* Bound: the stress test of a node, which broadcasts its next transaction once
\* it has delivered the last one.
OneInFlight ==
    \A i \in Instance :
        i.seqNumber < transactionCounter[i.author] - 1 /\ i.author \in Correct =>
            Delivered(i.author, i)

\* Reduction: an ECHO that changes nothing now never will, and is handled first.
Idle(m) ==
    /\ m.stage = "ECHO"
    /\ \/ Delivered(m.to, m.inst)
       \/ /\ messagesLog[m.to][m.inst] # NoState
          /\ ~CountsAsEcho(m.from, messagesLog[m.to][m.inst])
IdleFirst ==
    LET idle == {m \in BagToSet(network) : Idle(m)}
    IN  idle # {} => network' = network (-) SetToBag({CHOOSE m \in idle : TRUE})

StressTest == OneInFlight' /\ IdleFirst
=============================================================================
