------------------------- MODULE ReliableBroadcast -------------------------
(***************************************************************************)
(* What a Byzantine reliable broadcast promises to the correct processes   *)
(* that run it: per broadcast instance, at most one value is delivered,    *)
(* the same one everywhere, and an instance of an author that is itself    *)
(* correct delivers nothing but what that author broadcast.  Protocols     *)
(* (Bracha) are shown to implement this specification.                     *)
(***************************************************************************)
CONSTANTS
    Correct,    \* the processes that run the protocol's code
    Instance,   \* broadcast instances, {author;seqNumber} in the logs
    Value,      \* values a process may be asked to broadcast
    None,       \* nothing delivered yet
    Authentic   \* the instances whose value only their author can choose


VARIABLES
    initiated,  \* pairs <<instance, value>> that were broadcast
    delivered   \* delivered[p][i]: the value p delivered for i, or None

vars == <<initiated, delivered>>

Init ==
    /\ initiated = {}
    /\ delivered = [p \in Correct |-> [i \in Instance |-> None]]

\* The author of i broadcasts its value: an instance is used once.
Initiate(i, v) ==
    /\ \A w \in Value : <<i, w>> \notin initiated
    /\ initiated' = initiated \cup {<<i, v>>}
    /\ UNCHANGED delivered

\* p delivers v for i: at most once, in agreement with every other process.
Deliver(p, i, v) ==
    /\ delivered[p][i] = None
    /\ \A q \in Correct : delivered[q][i] \in {None, v}
    /\ i \in Authentic => <<i, v>> \in initiated
    /\ delivered' = [delivered EXCEPT ![p][i] = v]
    /\ UNCHANGED initiated

Next ==
    \/ \E i \in Instance, v \in Value : Initiate(i, v)
    \/ \E p \in Correct, i \in Instance, v \in Value : Deliver(p, i, v)

Spec == Init /\ [][Next]_vars
=============================================================================
