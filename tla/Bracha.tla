------------------------------- MODULE Bracha -------------------------------
(***************************************************************************)
(* The Bracha reliable broadcast of impl/protocols/bracha/process.go, as   *)
(* the correct processes execute it next to at most F faulty ones.         *)
(*                                                                         *)
(* A process broadcasts each protocol message to all processes, itself     *)
(* included, over UDP: `sent' is the set of everything the correct         *)
(* processes have put on the network and never shrinks, so that a message  *)
(* may be received late, in any order, many times or not at all.  What a   *)
(* faulty process sends is not recorded: it may send any message of a kind *)
(* FaultyMessages allows it, to anyone, at any time, and different values  *)
(* to different processes.                                                 *)
(***************************************************************************)
EXTENDS Integers, FiniteSets

CONSTANTS
    Proc,                          \* all processes, n of them
    Faulty,                        \* those that need not follow the protocol
    F,                             \* parameters.FaultyProcesses
    Value,                         \* values that are broadcast
    None,                          \* "nothing delivered"
    FaultyMessages,                \* pairs <<stage, author>>: message kinds faulty
                                   \*   processes may send in instances of author
    Authors,                       \* bound: processes whose instances exist
    MaxTransactions,               \* bound: instances per author
    SendOwnDeliveredTransactions   \* processes that run a stress test

Stages == {"INITIAL", "ECHO", "READY"}

ASSUME ProcAssumption == IsFiniteSet(Proc)
ASSUME FaultyAssumption ==
    /\ Faulty \subseteq Proc
    /\ F \in Nat
    /\ Cardinality(Faulty) <= F
    /\ FaultyMessages \subseteq Stages \X Proc
ASSUME ValueAssumption == None \notin Value
ASSUME BoundAssumption == Authors \subseteq Proc /\ MaxTransactions \in Nat
ASSUME StressAssumption == SendOwnDeliveredTransactions \subseteq Proc

VARIABLES
    transactionCounter,        \* per process: own instances started so far
    deliveredTransactions,     \* per process and instance: value or None
    transactionsLog,           \* per process and instance: its message state
    ownDeliveredTransactions,  \* per process: length of the channel of tokens
    sent                       \* all protocol messages of correct processes

vars == <<transactionCounter, deliveredTransactions, transactionsLog,
          ownDeliveredTransactions, sent>>

-----------------------------------------------------------------------------
Correct == Proc \ Faulty
N == Cardinality(Proc)

\* The thresholds of InitProcess; the first is the ceiling of (n+f+1)/2.
\* The other operators named Mut... throughout are the same definitions with a
\* plausible mistake in them; nothing refers to them.
MutEchoRoundedDown     == (N + F + 1) \div 2 - 1
MutEchoTooMany         == (N + F + 2) \div 2 + 1
MutReadyF              == F
MutReadyAsDelivery     == 2 * F + 1
MutNoAmplification     == N + 1
MessagesForEcho     == (N + F + 2) \div 2
MessagesForReady    == F + 1
MessagesForDelivery == 2 * F + 1

Instance == [author : Authors, seqNumber : 0 .. MaxTransactions - 1]
Message  == [from : Correct, stage : Stages, inst : Instance, value : Value]

Msg(p, s, i, v) == [from |-> p, stage |-> s, inst |-> i, value |-> v]

MessageState ==
    [stage         : {"Init", "SentEcho", "SentReady"},
     receivedEcho  : SUBSET Proc,
     receivedReady : SUBSET Proc,
     echoCount     : [Value -> Nat],
     readyCount    : [Value -> Nat]]

\* A fresh message state; it also stands for an instance that has none, for
\* the code creates one with these contents as soon as it looks for it.
NewMessageState ==
    [stage         |-> "Init",
     receivedEcho  |-> {},
     receivedReady |-> {},
     echoCount     |-> [v \in Value |-> 0],
     readyCount    |-> [v \in Value |-> 0]]

Init ==
    /\ transactionCounter = [p \in Correct |-> 0]
    /\ deliveredTransactions = [p \in Correct |-> [i \in Instance |-> None]]
    /\ transactionsLog = [p \in Correct |-> [i \in Instance |-> NewMessageState]]
    /\ ownDeliveredTransactions = [p \in Correct |-> 0]
    /\ sent = {}

-----------------------------------------------------------------------------
\* A message (s, i, v) can reach a correct process as coming from q.
Receivable(q, s, i, v) ==
    \/ q \in Correct /\ Msg(q, s, i, v) \in sent
    \/ q \in Faulty /\ <<s, i.author>> \in FaultyMessages

\* The maps receivedEcho and receivedReady admit one vote per sender.
FirstVote(q, received) == q \notin received

Delivered(p, i) == deliveredTransactions[p][i] # None

\* Which messages the handler of p acts on; on all others it returns early.  An
\* INITIAL counts in stage Init, whoever sends it; an ECHO once per sender and
\* only until READY is sent; a READY once per sender; none after delivery.
Accepts(p, q, s, i) ==
    /\ ~Delivered(p, i)
    /\ LET ms == transactionsLog[p][i]
       IN  \/ s = "INITIAL" /\ ms.stage = "Init"
           \/ s = "ECHO" /\ ms.stage # "SentReady" /\ FirstVote(q, ms.receivedEcho)
           \/ s = "READY" /\ FirstVote(q, ms.receivedReady)

\* broadcastEcho and broadcastReady as the two quorum handlers call them: the
\* ECHO goes out only from stage Init, the READY only when not sent before.
MutNoEchoWithReady(p, i, v, stage) ==
    {Msg(p, "READY", i, v) : s \in {stage} \cap {"Init", "SentEcho"}}
Announcements(p, i, v, stage) ==
    {Msg(p, "ECHO", i, v)  : s \in {stage} \cap {"Init"}} \cup
    {Msg(p, "READY", i, v) : s \in {stage} \cap {"Init", "SentEcho"}}

MutOneCounter(count, v) == [w \in Value |-> count[w] + 1]
AddVote(count, v) == [count EXCEPT ![v] = @ + 1]

CountEcho(ms, q, v) ==
    [ms EXCEPT !.receivedEcho = @ \cup {q}, !.echoCount = AddVote(@, v)]

CountReady(ms, q, v) ==
    [ms EXCEPT !.receivedReady = @ \cup {q}, !.readyCount = AddVote(@, v)]

\* Broadcast(value): process p starts its next instance.
Broadcast(p, v) ==
    /\ p \in Authors
    /\ transactionCounter[p] < MaxTransactions
    /\ LET i == [author |-> p, seqNumber |-> transactionCounter[p]]
       IN  sent' = sent \cup {Msg(p, "INITIAL", i, v)}
    /\ transactionCounter' = [transactionCounter EXCEPT ![p] = @ + 1]
    /\ UNCHANGED <<deliveredTransactions, transactionsLog,
                   ownDeliveredTransactions>>

MutForwardInitial(p, q, i, v) ==
    /\ Receivable(q, "INITIAL", i, v)
    /\ ~Delivered(p, i) /\ transactionsLog[p][i].stage = "Init"
    /\ sent' = sent \cup {Msg(q, "ECHO", i, v)}
    /\ transactionsLog' = [transactionsLog EXCEPT ![p][i].stage = "SentEcho"]
    /\ UNCHANGED <<transactionCounter, deliveredTransactions, ownDeliveredTransactions>>

MutEchoEveryInitial(p, q, i, v) ==
    /\ Receivable(q, "INITIAL", i, v)
    /\ ~Delivered(p, i)
    /\ sent' = sent \cup {Msg(p, "ECHO", i, v)}
    /\ transactionsLog' = [transactionsLog EXCEPT ![p][i].stage = "SentEcho"]
    /\ UNCHANGED <<transactionCounter, deliveredTransactions, ownDeliveredTransactions>>

\* INITIAL: echo the first value heard of, whoever sent it.
ReceiveInitial(p, q, i, v) ==
    /\ Receivable(q, "INITIAL", i, v)
    /\ Accepts(p, q, "INITIAL", i)
    /\ sent' = sent \cup {Msg(p, "ECHO", i, v)}
    /\ transactionsLog' = [transactionsLog EXCEPT ![p][i].stage = "SentEcho"]
    /\ UNCHANGED <<transactionCounter, deliveredTransactions,
                   ownDeliveredTransactions>>

\* ECHO: counted, and answered once the counter reaches the quorum.
ReceiveEcho(p, q, i, v) ==
    /\ Receivable(q, "ECHO", i, v)
    /\ Accepts(p, q, "ECHO", i)
    /\ LET ms     == CountEcho(transactionsLog[p][i], q, v)
           quorum == ms.echoCount[v] >= MessagesForEcho
       IN  /\ transactionsLog' = [transactionsLog EXCEPT ![p][i] =
                  IF quorum THEN [ms EXCEPT !.stage = "SentReady"] ELSE ms]
           /\ sent' = IF quorum
                        THEN sent \cup Announcements(p, i, v, ms.stage)
                        ELSE sent
    /\ UNCHANGED <<transactionCounter, deliveredTransactions,
                   ownDeliveredTransactions>>

\* A stress test is told of the delivery of an instance of its own.
MutNotifiesAlways(p, i) == p \in SendOwnDeliveredTransactions
Notifies(p, i) == p \in SendOwnDeliveredTransactions /\ i.author = p

NotifyDelivery(p, i) ==
    ownDeliveredTransactions' =
        IF Notifies(p, i) THEN [ownDeliveredTransactions EXCEPT ![p] = @ + 1]
                          ELSE ownDeliveredTransactions

MutDeliverKeepsState(p, i, v) ==
    /\ deliveredTransactions' = [deliveredTransactions EXCEPT ![p][i] = v]
    /\ UNCHANGED transactionsLog
    /\ NotifyDelivery(p, i)

\* deliver: the value is recorded and the message state dropped.
Deliver(p, i, v) ==
    /\ deliveredTransactions' = [deliveredTransactions EXCEPT ![p][i] = v]
    /\ transactionsLog' = [transactionsLog EXCEPT ![p][i] = NewMessageState]
    /\ NotifyDelivery(p, i)

\* READY: counted; f+1 of them make p send its own, 2f+1 make it deliver.
ReceiveReady(p, q, i, v) ==
    /\ Receivable(q, "READY", i, v)
    /\ Accepts(p, q, "READY", i)
    /\ LET ms    == CountReady(transactionsLog[p][i], q, v)
           ready == ms.readyCount[v] >= MessagesForReady
       IN  /\ sent' = IF ready
                        THEN sent \cup Announcements(p, i, v, ms.stage)
                        ELSE sent
           /\ \/ /\ ms.readyCount[v] >= MessagesForDelivery
                 /\ Deliver(p, i, v)
              \/ /\ ms.readyCount[v] < MessagesForDelivery
                 /\ transactionsLog' = [transactionsLog EXCEPT ![p][i] =
                        IF ready THEN [ms EXCEPT !.stage = "SentReady"] ELSE ms]
                 /\ UNCHANGED <<deliveredTransactions, ownDeliveredTransactions>>
    /\ UNCHANGED transactionCounter

\* HandleMessage, for a message that changes something: all others (already
\* delivered, already counted, too late) return early.
HandleMessage(p, q, i, v) ==
    \/ ReceiveInitial(p, q, i, v)
    \/ ReceiveEcho(p, q, i, v)
    \/ ReceiveReady(p, q, i, v)

Next ==
    \/ \E p \in Correct, v \in Value : Broadcast(p, v)
    \/ \E p \in Correct, q \in Proc, i \in Instance, v \in Value :
          HandleMessage(p, q, i, v)

Spec == Init /\ [][Next]_vars

\* The receive loops never stop while messages of correct processes are there
\* to be handled: no such message is lost for ever.
Fairness ==
    WF_vars(\E p, q \in Correct, i \in Instance, v \in Value :
                HandleMessage(p, q, i, v))

FairSpec == Spec /\ Fairness

-----------------------------------------------------------------------------
(* Properties *)

TypeOK ==
    /\ transactionCounter \in [Correct -> 0 .. MaxTransactions]
    /\ deliveredTransactions \in [Correct -> [Instance -> Value \cup {None}]]
    /\ transactionsLog \in [Correct -> [Instance -> MessageState]]
    /\ ownDeliveredTransactions \in [Correct -> Nat]
    /\ sent \subseteq Message

\* The processes that may have given their vote of kind s to v in instance i.
Voters(s, i, v) == {q \in Proc : Receivable(q, s, i, v)}

\* Consistency: no two correct processes deliver different values for an
\* instance, whatever its author and the other faulty processes send.
Agreement ==
    \A p, q \in Correct, i \in Instance :
        Delivered(p, i) /\ Delivered(q, i) =>
            deliveredTransactions[p][i] = deliveredTransactions[q][i]

\* The counters of one message state are backed by processes that may have
\* given that vote.
Backed(ms, i) ==
    \A v \in Value :
        /\ ms.echoCount[v]  <= Cardinality(ms.receivedEcho \cap Voters("ECHO", i, v))
        /\ ms.readyCount[v] <= Cardinality(ms.receivedReady \cap Voters("READY", i, v))

\* The counters a process compares with its thresholds count distinct
\* processes that really gave that vote: a message handled twice, or a
\* process that votes for two values, counts once.
VotesBacked ==
    \A p \in Correct, i \in Instance : Backed(transactionsLog[p][i], i)

\* All READY messages correct processes send for an instance carry one value,
\* although their ECHO messages may carry several.
OneReadyValue ==
    \A m1, m2 \in sent :
        m1.stage = "READY" /\ m2.stage = "READY" /\ m1.inst = m2.inst =>
            m1.value = m2.value

\* Who delivers a value has told everybody so: its own READY for that very
\* value is out before its state is deleted and it falls silent.
DeliveredImpliesOwnReady ==
    \A p \in Correct, i \in Instance :
        Delivered(p, i) => Msg(p, "READY", i, deliveredTransactions[p][i]) \in sent

\* Delivery ends an instance: later messages neither change the value, nor
\* bring back the message state that deliver deleted, nor are answered.
DeliveredIsFinal ==
    [][\A p \in Correct, i \in Instance :
          Delivered(p, i) =>
            /\ deliveredTransactions'[p][i] = deliveredTransactions[p][i]
            /\ transactionsLog'[p][i] = NewMessageState
            /\ \A m \in sent' \ sent :
                  m.from = p /\ m.inst = i => m.stage = "INITIAL"]_vars

\* The pairs correct authors broadcast, and the instances in which nobody else
\* can put a value into circulation (the INITIAL handler does not ask who the
\* sender is, so that takes faulty processes that send no INITIAL).
Initiated == {<<m.inst, m.value>> : m \in {x \in sent : x.stage = "INITIAL"}}

Authentic ==
    {i \in Instance : i.author \in Correct /\
                        (Faulty = {} \/ <<"INITIAL", i.author>> \notin FaultyMessages)}

RB == INSTANCE ReliableBroadcast
        WITH initiated <- Initiated, delivered <- deliveredTransactions

\* Bracha's protocol is a reliable broadcast: every step that delivers does so
\* once, in agreement, and for an authentic instance only what was broadcast.
ImplementsReliableBroadcast == RB!Spec

\* No message of a correct process waits to be handled by another one: whatever
\* still arrives, the handler returns early.
Settled ==
    \A p, q \in Correct, s \in Stages, i \in Instance, v \in Value :
        Msg(q, s, i, v) \in sent => ~Accepts(p, q, s, i)

\* Totality: once the network has settled, what one correct process has
\* delivered all of them have, whatever faulty processes told only some.  (A
\* behaviour changes only finitely often, so Fairness makes it settle.)
Totality ==
    Settled => \A p, q \in Correct, i \in Instance : Delivered(p, i) => Delivered(q, i)

\* Validity: once the network has settled, what a correct process broadcasts
\* every correct process has delivered, whatever votes the faulty ones cast.
Validity ==
    Settled => \A i \in Authentic, v \in Value :
        Msg(i.author, "INITIAL", i, v) \in sent =>
            \A q \in Correct : deliveredTransactions[q][i] = v

-----------------------------------------------------------------------------
(* The inductive invariant behind Agreement and the refinement *)

\* A correct process echoes one value per instance.
OneEcho ==
    \A m1, m2 \in sent :
        /\ m1.stage = "ECHO" /\ m2.stage = "ECHO"
        /\ m1.inst = m2.inst /\ m1.from = m2.from
        => m1.value = m2.value

\* The stage of an instance that is not delivered records what was sent.
StageRecordsSent ==
    \A p \in Correct, i \in Instance :
        ~Delivered(p, i) =>
            LET stage == transactionsLog[p][i].stage
            IN  /\ stage = "SentReady" =>
                      \E v \in Value : Msg(p, "READY", i, v) \in sent
                /\ \A v \in Value :
                      /\ stage = "Init" => Msg(p, "ECHO", i, v) \notin sent
                      /\ stage # "SentReady" => Msg(p, "READY", i, v) \notin sent

\* Behind every READY of a correct process, its own amplified from f+1 others
\* or not, there is a quorum of ECHO votes for its value.
ReadyJustified ==
    \A m \in sent :
        m.stage = "READY" =>
            Cardinality(Voters("ECHO", m.inst, m.value)) >= MessagesForEcho

\* Behind every delivery there are 2f+1 READY votes for the value.
DeliveryJustified ==
    \A p \in Correct, i \in Instance :
        Delivered(p, i) =>
            Cardinality(Voters("READY", i, deliveredTransactions[p][i]))
                >= MessagesForDelivery

\* A correct author uses an instance once, and only its own ones.
InitialOnce ==
    \A m \in sent :
        m.stage = "INITIAL" =>
            /\ m.inst.author = m.from
            /\ m.inst.seqNumber < transactionCounter[m.from]
            /\ \A m2 \in sent :
                  m2.stage = "INITIAL" /\ m2.inst = m.inst => m2.value = m.value

\* What correct processes echo in an authentic instance, its author broadcast.
EchoAuthentic ==
    \A m \in sent :
        m.stage = "ECHO" /\ m.inst \in Authentic =>
            Msg(m.inst.author, "INITIAL", m.inst, m.value) \in sent

QuorumInv ==
    /\ TypeOK
    /\ VotesBacked
    /\ OneEcho
    /\ StageRecordsSent
    /\ ReadyJustified
    /\ DeliveryJustified
    /\ DeliveredImpliesOwnReady
    /\ InitialOnce
    /\ EchoAuthentic

-----------------------------------------------------------------------------
(* The inductive invariant behind Totality and Validity, besides QuorumInv *)

\* The correct processes of R that voted for v.
CorrectVotes(R, s, i, v) == {r \in R \cap Correct : Msg(r, s, i, v) \in sent}

\* The converse of VotesBacked: no vote of a correct process that was handled
\* is missing from its counter, and none is noted before it was given.
VotesCounted ==
    \A p \in Correct, i \in Instance, v \in Value :
        LET ms == transactionsLog[p][i]
        IN  /\ Cardinality(CorrectVotes(ms.receivedEcho, "ECHO", i, v)) <= ms.echoCount[v]
            /\ Cardinality(CorrectVotes(ms.receivedReady, "READY", i, v)) <= ms.readyCount[v]

HeardOf ==
    \A p, q \in Correct, i \in Instance :
        LET ms == transactionsLog[p][i]
        IN  /\ q \in ms.receivedEcho => \E w \in Value : Msg(q, "ECHO", i, w) \in sent
            /\ q \in ms.receivedReady => \E w \in Value : Msg(q, "READY", i, w) \in sent

\* A counter that has reached a threshold has been acted on.
ThresholdsActedOn ==
    \A p \in Correct, i \in Instance, v \in Value :
        ~Delivered(p, i) =>
            LET ms == transactionsLog[p][i]
            IN  /\ ms.readyCount[v] < MessagesForDelivery
                /\ ms.stage # "SentReady" => /\ ms.readyCount[v] < MessagesForReady
                                             /\ ms.echoCount[v] < MessagesForEcho

\* No process skips its ECHO, whichever message made it leave stage Init.
EchoSent ==
    \A p \in Correct, i \in Instance :
        Delivered(p, i) \/ transactionsLog[p][i].stage # "Init" =>
            \E w \in Value : Msg(p, "ECHO", i, w) \in sent

ProgressInv ==
    /\ VotesCounted
    /\ HeardOf
    /\ ThresholdsActedOn
    /\ EchoSent
=============================================================================
