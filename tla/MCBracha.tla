------------------------------ MODULE MCBracha ------------------------------
(* Instances of Bracha for TLC: the constants the configurations share. *)
EXTENDS Bracha, TLC

CONSTANTS p1, p2, p3, p4   \* processes
CONSTANTS v1, v2           \* values

MCProc == {p1, p2, p3, p4}
MCValue == {v1, v2}
OneValue == {v1}
\* What the faulty process p4 may say besides keeping silent: equivocate as an
\* author and in its ECHOs; or all it can say as an author, and vote at will in
\* the instance of p1.
Equivocation == {"INITIAL", "ECHO"} \X {p4}
AllLies      == (Stages \X {p4}) \cup ({"READY"} \X {p1})

\* Bound: a behaviour is about one instance, of a correct or a faulty author.
Untouched(i) ==
    \A p \in Correct : transactionsLog[p][i] = NewMessageState /\ ~Delivered(p, i)
OneInstance ==
    \A i, j \in Instance :
        i # j => /\ Untouched(i) \/ Untouched(j)
                 /\ ~Untouched(i) => transactionCounter[p1] = 0 \/ i.author = p1
WithinOneInstance == OneInstance'

\* Correct processes that are no authors are interchangeable; so are the values.
CorrectSymmetry == Permutations({p1, p2, p3}) \cup Permutations(MCValue)
OthersSymmetry  == Permutations({p2, p3}) \cup Permutations(MCValue)
=============================================================================
