---------------------- MODULE MCReliableAccountability ----------------------
(* Instances of ReliableAccountability for TLC. *)
EXTENDS ReliableAccountability, TLC

CONSTANTS p1, p2, p3   \* processes
CONSTANTS v1, v2       \* values
CONSTANTS x1, x2       \* secrets, which are their own hashes
CONSTANTS s1, s2       \* their shares, alike for all processes and in any guise

OneValue == {v1}
TwoValues == {v1, v2}

\* Every author's secret is x1; shares of which one is not of x1 make x2.
SameSample == [p \in Proc |-> x1]
PlainHash == [x \in Secret |-> x]
SameShares == [x \in Secret |-> [q \in Proc |-> IF x = x1 THEN s1 ELSE s2]]
PlainEncrypt == [q \in Proc |-> [x \in Share |-> x]]
PlainDecrypt == [q \in Proc |-> [x \in Cipher |-> x]]
Mixture ==
    [shares \in SUBSET (Proc \X Share) |->
        IF \A s \in shares : s[2] = s1 THEN x1 ELSE x2]

\* All processes are witnesses; or the only witness moves on from p1 to p2
\* once a secret has gone into the history; or p1 is the only one for ever.
AllWitnesses == [h \in SUBSET (Instance \X Secret) |-> Proc]
MovingWitness ==
    [h \in SUBSET (Instance \X Secret) |-> IF h = {} THEN {p1} ELSE {p2}]
OneWitness == [h \in SUBSET (Instance \X Secret) |-> {p1}]

\* What the faulty process p3 may say besides keeping silent: as an author and
\* a witness, whatever could split the others; or false votes on both authors'
\* transactions, shares of both secrets, a FAILED of the one and a DONE of the
\* other.
NoMessages == {}
Split ==
    {"NOTIFY", "ECHO_FROM_PROCESS", "READY_FROM_PROCESS", "VALIDATE"} \X {p3}
FalseVotes ==
    ({"ECHO_FROM_PROCESS", "READY_FROM_PROCESS", "REVEAL"} \X {p1, p3})
        \cup ({"NOTIFY", "DONE"} \X {p3}) \cup {<<"FAILED", p1>>}

\* Its messages carry the hash of the author's secret; or, on its own
\* transaction, the hash of another one.
OwnContent == [p \in Proc |-> {Genuine(p)}]
FalseHash == [OwnContent EXCEPT ![p3] = {[Genuine(p3) EXCEPT !.xHash = x2]}]

\* Of p1's secret it gives its share or a wrong one; of its own the share, which
\* does not fit the hash, and a secret that does.
NoData == [p \in Proc |-> {}]
SomeData == [p \in Proc |-> IF p = p3 THEN {s1, x2} ELSE {s1, s2}]

\* The correct witnesses and the values are interchangeable.
WitnessSymmetry == Permutations({p1, p2}) \cup Permutations({v1, v2})
=============================================================================
