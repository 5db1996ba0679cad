---------------------- MODULE ConsistentAccountability ----------------------
(***************************************************************************)
(* Consistent broadcast based on stochastic accountability, the protocol   *)
(* of impl/protocols/accountability/consistent/process.go: whoever hears   *)
(* of a transaction asks the witnesses its own history selects to verify   *)
(* it, the witnesses echo what they are asked about, and WitnessThreshold  *)
(* echoes of own witnesses deliver it.                                     *)
(*                                                                         *)
(* The first message a process gets for an instance only makes it ask; as  *)
(* an echo it is not counted, and the process depends on a later one.  So  *)
(* the network is a bag from which a message is taken when it is handled.  *)
(***************************************************************************)
EXTENDS WitnessSelection, Bags

CONSTANTS
    Faulty,             \* processes that say nothing
    Value, None,
    WitnessThreshold,   \* parameters.WitnessThreshold, `u'
    HashedNodes,        \* the nodes for which GetWitnessSet is given a history
                        \*   hash: node 0 alone in process.go
    TransactionHash,    \* TransactionHash[i][n]: hash of i with the seed of n
    Authors,            \* bound: processes whose instances exist
    MaxTransactions,    \* bound: instances per author
    SendOwnDeliveredTransactions   \* processes that run a stress test

Instance == [author : Authors, seqNumber : 0 .. MaxTransactions - 1]
Correct == Proc \ Faulty

ASSUME ProcessAssumption == Faulty \subseteq Proc /\ HashedNodes \subseteq Proc
ASSUME ValueAssumption == None \notin Value
ASSUME ThresholdAssumption == WitnessThreshold \in Nat \ {0}
ASSUME HashAssumption == TransactionHash \in [Instance -> [Proc -> Nat]]
ASSUME BoundAssumption ==
    /\ Authors \subseteq Proc /\ MaxTransactions \in Nat
    /\ SendOwnDeliveredTransactions \subseteq Proc

VARIABLES
    transactionCounter,
    deliveredMessages,          \* per process and instance: value or None
    messagesLog,                \* per process and instance: NoState or a state
    historyHashes,              \* per process and hashed node: a multi-ring
    ownDeliveredTransactions,   \* per process: length of the channel of tokens
    network,                    \* bag of messages not handled yet
    stopped,                    \* processes ended by a panic
    initiated                   \* history: pairs <<instance, value>> broadcast

vars == <<transactionCounter, deliveredMessages, messagesLog, historyHashes,
          ownDeliveredTransactions, network, stopped, initiated>>

-----------------------------------------------------------------------------
\* receivedEcho and echoCount together: pairs of a sender and a value.
Votes == SUBSET (Proc \X Value)
Voted(echoes, q) == \E v \in Value : <<q, v>> \in echoes
EchoCount(echoes, v) == Cardinality({q \in Proc : <<q, v>> \in echoes})

NoState == [registered |-> FALSE]
MessageState == [echoes : Votes, witnessSet : SUBSET Proc]

Stages == {"VERIFY", "ECHO"}
Message == [from : Correct, to : Correct, stage : Stages, inst : Instance, value : Value]
Msg(p, q, s, i, v) == [from |-> p, to |-> q, stage |-> s, inst |-> i, value |-> v]
ToSet(p, S, s, i, v) == SetToBag({Msg(p, q, s, i, v) : q \in S \cap Correct})

Init ==
    /\ transactionCounter = [p \in Correct |-> 0]
    /\ deliveredMessages = [p \in Correct |-> [i \in Instance |-> None]]
    /\ messagesLog = [p \in Correct |-> [i \in Instance |-> NoState]]
    /\ historyHashes = [p \in Correct |-> [n \in HashedNodes |-> NewMultiRing]]
    /\ ownDeliveredTransactions = [p \in Correct |-> 0]
    /\ network = EmptyBag
    /\ stopped = {}
    /\ initiated = {}

Delivered(p, i) == deliveredMessages[p][i] # None

\* deliver: the transaction goes into the history, the state is dropped.
InsertTransaction(hashes, i) ==
    [n \in HashedNodes |-> Insert(hashes[n], TransactionHash[i][n])]

Deliver(p, i, v) ==
    /\ deliveredMessages' = [deliveredMessages EXCEPT ![p][i] = v]
    /\ historyHashes' = [historyHashes EXCEPT ![p] = InsertTransaction(@, i)]
    /\ ownDeliveredTransactions' =
           IF p \in SendOwnDeliveredTransactions /\ i.author = p
             THEN [ownDeliveredTransactions EXCEPT ![p] = @ + 1]
             ELSE ownDeliveredTransactions
    /\ messagesLog' = [messagesLog EXCEPT ![p][i] = NoState]

-----------------------------------------------------------------------------
(* verify, for a value v that q names; `rest' is the network it leaves *)

\* Nothing is done for what is delivered already.
VerifyDelivered(p, i, rest) ==
    /\ Delivered(p, i)
    /\ network' = rest
    /\ UNCHANGED <<deliveredMessages, messagesLog, historyHashes,
                   ownDeliveredTransactions, stopped>>

\* With a state, a message of any kind is the echo of its sender.
CountsAsEcho(q, ms) == q \in ms.witnessSet /\ ~Voted(ms.echoes, q)

VerifyEcho(p, q, i, v, rest) ==
    /\ ~Delivered(p, i) /\ messagesLog[p][i] # NoState
    /\ LET ms     == messagesLog[p][i]
           echoes == ms.echoes \cup {<<w, v>> : w \in {x \in {q} : CountsAsEcho(x, ms)}}
       IN  \/ /\ CountsAsEcho(q, ms) /\ EchoCount(echoes, v) >= WitnessThreshold
              /\ Deliver(p, i, v)
           \/ /\ ~CountsAsEcho(q, ms) \/ EchoCount(echoes, v) < WitnessThreshold
              /\ messagesLog' = [messagesLog EXCEPT ![p][i].echoes = echoes]
              /\ UNCHANGED <<deliveredMessages, historyHashes, ownDeliveredTransactions>>
    /\ network' = rest
    /\ UNCHANGED stopped

\* Without one, the witnesses are selected and asked to verify.
StartVerification(p, i, v, rest) ==
    /\ ~Delivered(p, i) /\ messagesLog[p][i] = NoState
    /\ HashedNodes = Proc
    /\ LET witnesses == OwnWitnesses(historyHashes[p])
       IN  /\ messagesLog' = [messagesLog EXCEPT ![p][i] =
                                [echoes |-> {}, witnessSet |-> witnesses]]
           /\ network' = rest (+) ToSet(p, witnesses, "VERIFY", i, v)
    /\ UNCHANGED <<deliveredMessages, historyHashes, ownDeliveredTransactions, stopped>>

\* GetWitnessSet reads historyHashes[i] for every node i, beyond their end.
SelectionPanics(p, i) ==
    /\ ~Delivered(p, i) /\ messagesLog[p][i] = NoState
    /\ HashedNodes # Proc
    /\ stopped' = stopped \cup {p}
    /\ UNCHANGED <<deliveredMessages, messagesLog, historyHashes,
                   ownDeliveredTransactions, network>>

Verify(p, q, i, v, rest) ==
    \/ VerifyDelivered(p, i, rest)
    \/ VerifyEcho(p, q, i, v, rest)
    \/ StartVerification(p, i, v, rest)
    \/ SelectionPanics(p, i)

\* Broadcast(value): the author verifies its own transaction.
Broadcast(p, v) ==
    /\ p \in Authors /\ p \notin stopped
    /\ transactionCounter[p] < MaxTransactions
    /\ LET i == [author |-> p, seqNumber |-> transactionCounter[p]]
       IN  /\ Verify(p, p, i, v, network)
           /\ initiated' = initiated \cup {<<i, v>>}
    /\ transactionCounter' = [transactionCounter EXCEPT ![p] = @ + 1]

\* HandleMessage: a witness echoes what it is asked to verify, unless it has
\* delivered another value.
MutSilentAfterDelivery(p, m) == m.stage = "VERIFY" /\ ~Delivered(p, m.inst)
Echoes(p, m) ==
    m.stage = "VERIFY" /\ deliveredMessages[p][m.inst] \in {None, m.value}

HandleMessage(p, m) ==
    /\ p \notin stopped /\ m.to = p
    /\ Verify(p, m.from, m.inst, m.value,
              (network (-) SetToBag({m})) (+)
                  ToSet(p, {q \in Proc : Echoes(p, m)}, "ECHO", m.inst, m.value))
    /\ UNCHANGED <<transactionCounter, initiated>>

Next ==
    \/ \E p \in Correct, v \in Value : Broadcast(p, v)
    \/ \E m \in BagToSet(network) : HandleMessage(m.to, m)

Spec == Init /\ [][Next]_vars

-----------------------------------------------------------------------------
(* Properties *)

TypeOK ==
    /\ transactionCounter \in [Correct -> 0 .. MaxTransactions]
    /\ deliveredMessages \in [Correct -> [Instance -> Value \cup {None}]]
    /\ messagesLog \in [Correct -> [Instance -> MessageState \cup {NoState}]]
    /\ historyHashes \in [Correct -> [HashedNodes -> MultiRing]]
    /\ ownDeliveredTransactions \in [Correct -> Nat]
    /\ BagToSet(network) \subseteq Message
    /\ stopped \subseteq Correct
    /\ initiated \subseteq Instance \X Value

\* No process is ended by a panic.
NoProcessStops == stopped = {}

\* Validity: once all messages are handled, what a correct process broadcast all
\* have delivered: also those whose first echo only made them ask, and those
\* that ask witnesses which have long delivered and forgotten.
Validity ==
    network = EmptyBag =>
        \A p \in Correct, i \in Instance, v \in Value :
            <<i, v>> \in initiated => deliveredMessages[p][i] = v

History(p) == {i \in Instance : Delivered(p, i)}

\* The history hash depends on what was delivered and not on the order: with
\* the same history, processes have the same witnesses.
SameHistorySameWitnesses ==
    \A p, q \in Correct :
        History(p) = History(q) => historyHashes[p] = historyHashes[q]

\* Neither set misses a node that is nearer than one it holds, each reaches its
\* minimal size and holds the nodes within its radius, and nothing beyond that.
Nearest(W, d, size, radius) ==
    LET within == {n \in Proc : d[n] < radius}
        least  == IF size <= Cardinality(Proc) THEN size ELSE Cardinality(Proc)
    IN  /\ within \subseteq W
        /\ \A n \in W, x \in Proc \ W : d[n] <= d[x]
        /\ Cardinality(W) >= least
        /\ W # within => Cardinality(W) = least

SelectsNearest ==
    \A p \in Correct :
        LET hashes == historyHashes[p]
            d      == FromOrigin(hashes)
        IN  /\ OwnWitnesses(hashes) \subseteq PotWitnesses(hashes)
            /\ Nearest(PotWitnesses(hashes), d, MinPotWitnessSetSize, PotWitnessSetRadius)
            /\ Nearest(OwnWitnesses(hashes), d, MinOwnWitnessSetSize, OwnWitnessSetRadius)

\* The use of two radii: whom one process has as a witness within its own
\* radius, every other process has as a potential witness, as long as their
\* histories differ by no more transactions than the radii do.
OwnWithinReach ==
    \A p, q \in Correct :
        LET behind == Cardinality((History(p) \ History(q)) \cup (History(q) \ History(p)))
        IN  behind + OwnWitnessSetRadius <= PotWitnessSetRadius =>
                {n \in Proc : FromOrigin(historyHashes[p])[n] < OwnWitnessSetRadius}
                    \subseteq PotWitnesses(historyHashes[q])
=============================================================================
