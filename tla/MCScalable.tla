----------------------------- MODULE MCScalable -----------------------------
(* Instances of Scalable for TLC. *)
EXTENDS Scalable

CONSTANTS p1, p2, p3   \* processes
CONSTANTS v1, v2       \* values

\* Samples, drawn with replacement: p1 alone, p1 and p2, p1 or p2 twice.
Draw(k1, k2) == [p \in Proc |-> IF p = p1 THEN k1 ELSE IF p = p2 THEN k2 ELSE 0]
First  == {Draw(1, 0)}
Each   == {Draw(1, 1)}
AnyTwo == {Draw(2, 0), Draw(1, 1), Draw(0, 2)}
ToSecond == {{p2}}
\* The faulty process gossips another value for the author's next instance.
OtherGossip == {<<"GOSSIP", v2>>}

\* Samples and thresholds with which totality needs no luck: everybody gossips to
\* p2, and of two draws one each, one READY makes ready and two deliver.
ASSUME SomeSamplesSuffice ==
    Correct = {p1, p2} =>
        /\ AlwaysReached(ToSecond, First, Each, Each)
        /\ AlwaysContagious(Each, Each, 1, 2)
=============================================================================
