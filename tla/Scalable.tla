------------------------------ MODULE Scalable ------------------------------
(***************************************************************************)
(* The scalable broadcast of impl/protocols/scalable/process.go.  Nobody   *)
(* sends to all: a process draws samples of processes the first time it    *)
(* hears of an instance and subscribes to their ECHOs and READYs, and its  *)
(* thresholds count over these samples.  A message handled twice may count *)
(* twice here, so `network' is a bag from which a message is taken when it *)
(* is handled (once, by the duplicate filter of the actor); one that stays *)
(* there is late or lost.  A sample is drawn anew by every process and     *)
(* instance; the model draws any from a set of possible ones.              *)
(***************************************************************************)
EXTENDS Integers, FiniteSets, Bags, Functions

CONSTANTS
    Proc, Faulty, Value, None,
    GossipSamples,      \* what generateGossipSample may return
    EchoSamples, ReadySamples, DeliverySamples,   \* what `sample' may return:
                        \*   how often each process was drawn
    EchoSampleSize, ReadySampleSize, DeliverySampleSize,
    EchoThreshold, ReadyThreshold, DeliveryThreshold,
    FaultyMessages,     \* pairs <<stage, value>>: what faulty processes may send
    FaultyCopies,       \* bound: how often each of them, to each process
    Authors,            \* bound: processes whose instances exist
    MaxTransactions,    \* bound: instances per author
    SendOwnDeliveredTransactions   \* processes that run a stress test

Subscriptions == {"GOSSIP_SUBSCRIBE", "ECHO_SUBSCRIBE", "READY_SUBSCRIBE"}
Announcements == {"GOSSIP", "ECHO", "READY"}
Instance == [author : Authors, seqNumber : 0 .. MaxTransactions - 1]
Sample == [Proc -> Nat]

ASSUME ProcAssumption == IsFiniteSet(Proc) /\ Faulty \subseteq Proc /\ None \notin Value
ASSUME SampleAssumption ==
    /\ GossipSamples \subseteq SUBSET Proc
    /\ EchoSamples \subseteq {s \in Sample : SumFunction(s) = EchoSampleSize}
    /\ ReadySamples \subseteq {s \in Sample : SumFunction(s) = ReadySampleSize}
    /\ DeliverySamples \subseteq {s \in Sample : SumFunction(s) = DeliverySampleSize}
ASSUME ThresholdAssumption ==
    EchoThreshold \in Nat /\ ReadyThreshold \in Nat /\ DeliveryThreshold \in Nat
ASSUME BoundAssumption ==
    /\ FaultyMessages \subseteq Announcements \X Value /\ FaultyCopies \in Nat
    /\ Authors \subseteq Proc /\ MaxTransactions \in Nat
    /\ SendOwnDeliveredTransactions \subseteq Proc

VARIABLES
    transactionCounter,
    deliveredMessages,         \* per process and instance: value or None
    messagesLog,               \* per process and instance: NoState or a state
    cleanUpPending,            \* pairs <<p, i>>: a goroutine of p that sleeps
                               \*   before it deletes the state of i
    ownDeliveredTransactions,
    network,                   \* bag of messages from and to correct processes
    faultySent                 \* bag of messages of faulty ones handled so far

vars == <<transactionCounter, deliveredMessages, messagesLog, cleanUpPending,
          ownDeliveredTransactions, network, faultySent>>

Correct == Proc \ Faulty

-----------------------------------------------------------------------------
(* States and messages *)

NoState == [registered |-> FALSE]

\* The subscription sets and the gossip sample count nobody twice.
MessageState ==
    [gossipSample         : SUBSET Proc,
     echoSample           : Sample,
     readySample          : Sample,
     deliverySample       : Sample,
     echoSubscriptionSet  : SUBSET Proc,
     readySubscriptionSet : SUBSET Proc,
     receivedEcho         : SUBSET Proc,
     echoMessagesStat     : [Value -> Nat],
     readySampleStat      : [Value -> Nat],
     deliverySampleStat   : [Value -> Nat],
     gossipMessage        : Value \cup {None},
     echoMessage          : Value \cup {None},
     sentReadyMessages    : SUBSET Value,
     sentReadyFromSieve   : BOOLEAN]

\* Subscriptions carry a value too, which nothing but a log entry looks at.
Message == [from : Proc, to : Correct, stage : Subscriptions \cup Announcements,
            inst : Instance, value : Value \cup {None}]
Msg(p, q, s, i, v) == [from |-> p, to |-> q, stage |-> s, inst |-> i, value |-> v]

\* broadcastToSet, of which the messages to correct processes matter.
ToSet(p, S, s, i, v) == SetToBag({Msg(p, q, s, i, v) : q \in S \cap Correct})

Members(sample) == {q \in Proc : sample[q] > 0}

\* What initMessageState may make of an instance, and what it sends.
FreshState(g, e, r, d) ==
    [gossipSample         |-> g,
     echoSample           |-> e,
     readySample          |-> r,
     deliverySample       |-> d,
     echoSubscriptionSet  |-> {},
     readySubscriptionSet |-> {},
     receivedEcho         |-> {},
     echoMessagesStat     |-> [v \in Value |-> 0],
     readySampleStat      |-> [v \in Value |-> 0],
     deliverySampleStat   |-> [v \in Value |-> 0],
     gossipMessage        |-> None,
     echoMessage          |-> None,
     sentReadyMessages    |-> {},
     sentReadyFromSieve   |-> FALSE]
FreshStates ==
    {FreshState(g, e, r, d) :
        g \in GossipSamples, e \in EchoSamples, r \in ReadySamples, d \in DeliverySamples}
Subscribe(p, i, ms) ==
    ToSet(p, ms.gossipSample, "GOSSIP_SUBSCRIBE", i, None)
    (+) ToSet(p, Members(ms.echoSample), "ECHO_SUBSCRIBE", i, None)
    (+) ToSet(p, Members(ms.readySample), "READY_SUBSCRIBE", i, None)
    (+) ToSet(p, Members(ms.deliverySample), "READY_SUBSCRIBE", i, None)

Init ==
    /\ transactionCounter = [p \in Correct |-> 0]
    /\ deliveredMessages = [p \in Correct |-> [i \in Instance |-> None]]
    /\ messagesLog = [p \in Correct |-> [i \in Instance |-> NoState]]
    /\ cleanUpPending = {}
    /\ ownDeliveredTransactions = [p \in Correct |-> 0]
    /\ network = EmptyBag
    /\ faultySent = EmptyBag

Delivered(p, i) == deliveredMessages[p][i] # None

\* broadcastGossip and broadcastReady: the state after, and what is sent.
Gossiping(ms, v) == [ms EXCEPT !.gossipMessage = v]
Gossip(p, i, v, ms) == ToSet(p, ms.gossipSample, "GOSSIP", i, v)
Ready(p, i, v, ms) == ToSet(p, ms.readySubscriptionSet, "READY", i, v)

-----------------------------------------------------------------------------
(* Operations *)

\* Broadcast(value): a state with fresh samples takes the place of any other.
Broadcast(p, v) ==
    /\ p \in Authors
    /\ transactionCounter[p] < MaxTransactions
    /\ LET i == [author |-> p, seqNumber |-> transactionCounter[p]]
       IN  \E ms \in FreshStates :
              /\ messagesLog' = [messagesLog EXCEPT ![p][i] = Gossiping(ms, v)]
              /\ network' = network (+) Subscribe(p, i, ms) (+) Gossip(p, i, v, ms)
    /\ transactionCounter' = [transactionCounter EXCEPT ![p] = @ + 1]
    /\ UNCHANGED <<deliveredMessages, cleanUpPending, ownDeliveredTransactions, faultySent>>

\* A message is taken from the network, and others are put there.
Exchange(m, messages) ==
    /\ network' = IF m.from \in Correct THEN (network (-) SetToBag({m})) (+) messages
                                        ELSE network (+) messages
    /\ faultySent' = IF m.from \in Faulty THEN faultySent (+) SetToBag({m}) ELSE faultySent

\* What a handler does that does not deliver.
Update(p, m, ms, messages) ==
    /\ messagesLog' = [messagesLog EXCEPT ![p][m.inst] = ms]
    /\ Exchange(m, messages)
    /\ UNCHANGED <<transactionCounter, deliveredMessages, cleanUpPending,
                   ownDeliveredTransactions>>

\* maybeSendReadyFromSieve: enough ECHOs for the value echoed here.
PassesSieve(ms) ==
    /\ ~ms.sentReadyFromSieve /\ ms.echoMessage # None
    /\ ms.echoMessagesStat[ms.echoMessage] >= EchoThreshold
AfterSieve(ms) ==
    IF PassesSieve(ms)
      THEN [ms EXCEPT !.sentReadyMessages = @ \cup {ms.echoMessage},
                      !.sentReadyFromSieve = TRUE]
      ELSE ms
FromSieve(p, i, ms) ==
    IF PassesSieve(ms) THEN Ready(p, i, ms.echoMessage, ms) ELSE EmptyBag

MutSubscribesWithoutAnswer(p, m, ms, opening) ==
    Update(p, m, [ms EXCEPT !.gossipSample = @ \cup {m.from}], opening)
\* In the handlers below, `opening' are the subscriptions that a process sends
\* because m is the first it hears of the instance.
ReceiveGossipSubscribe(p, m, ms, opening) ==
    Update(p, m, [ms EXCEPT !.gossipSample = @ \cup {m.from}],
           IF ms.gossipMessage = None THEN opening
           ELSE opening (+) ToSet(p, {m.from}, "GOSSIP", m.inst, ms.gossipMessage))

\* GOSSIP: the first one is passed on, and echoed.
ReceiveGossip(p, m, ms, opening) ==
    LET i      == m.inst
        gossip == IF ms.gossipMessage = None THEN Gossip(p, i, m.value, ms) ELSE EmptyBag
        ms2    == IF ms.gossipMessage = None THEN Gossiping(ms, m.value) ELSE ms
        ms3    == [ms2 EXCEPT !.echoMessage = m.value]
    IN  \/ /\ ms.echoMessage # None
           /\ Update(p, m, ms2, opening (+) gossip)
        \/ /\ ms.echoMessage = None
           /\ Update(p, m, AfterSieve(ms3),
                     opening (+) gossip
                     (+) ToSet(p, ms.echoSubscriptionSet, "ECHO", i, m.value)
                     (+) FromSieve(p, i, ms3))

ReceiveEchoSubscribe(p, m, ms, opening) ==
    \/ /\ m.from \in ms.echoSubscriptionSet
       /\ Update(p, m, ms, opening)
    \/ /\ m.from \notin ms.echoSubscriptionSet
       /\ Update(p, m, [ms EXCEPT !.echoSubscriptionSet = @ \cup {m.from}],
                 IF ms.echoMessage = None THEN opening
                 ELSE opening (+) ToSet(p, {m.from}, "ECHO", m.inst, ms.echoMessage))

\* ECHO: counted once per sender, with the weight it has in the sample.
ReceiveEcho(p, m, ms, opening) ==
    \/ /\ ms.echoSample[m.from] = 0 \/ m.from \in ms.receivedEcho
       /\ Update(p, m, ms, opening)
    \/ /\ ms.echoSample[m.from] > 0 /\ m.from \notin ms.receivedEcho
       /\ LET ms2 == [ms EXCEPT !.receivedEcho = @ \cup {m.from},
                                !.echoMessagesStat[m.value] = @ + ms.echoSample[m.from]]
          IN  Update(p, m, AfterSieve(ms2), opening (+) FromSieve(p, m.inst, ms2))

MutLateSubscriberUnanswered(p, m, ms, opening) ==
    Update(p, m, [ms EXCEPT !.readySubscriptionSet = @ \cup {m.from}], opening)
MutAnswersAgain(p, m, ms, opening) ==
    Update(p, m, [ms EXCEPT !.readySubscriptionSet = @ \cup {m.from}],
           opening (+) SetToBag({Msg(p, m.from, "READY", m.inst, v) :
               v \in IF m.from \in Correct THEN ms.sentReadyMessages ELSE {}}))
\* READY_SUBSCRIBE: a late subscriber gets all READYs sent so far.
ReceiveReadySubscribe(p, m, ms, opening) ==
    \/ /\ m.from \in ms.readySubscriptionSet
       /\ Update(p, m, ms, opening)
    \/ /\ m.from \notin ms.readySubscriptionSet
       /\ Update(p, m, [ms EXCEPT !.readySubscriptionSet = @ \cup {m.from}],
                 opening (+) SetToBag({Msg(p, m.from, "READY", m.inst, v) :
                     v \in IF m.from \in Correct THEN ms.sentReadyMessages ELSE {}}))

\* deliver: the value is recorded; the state stays until cleanUpTimeout is over.
Deliver(p, i, v) ==
    /\ deliveredMessages' = [deliveredMessages EXCEPT ![p][i] = v]
    /\ cleanUpPending' = cleanUpPending \cup {<<p, i>>}
    /\ ownDeliveredTransactions' =
           IF p \in SendOwnDeliveredTransactions /\ i.author = p
             THEN [ownDeliveredTransactions EXCEPT ![p] = @ + 1]
             ELSE ownDeliveredTransactions

\* READY: counted each time it comes, in either sample; receivedReady is never
\* looked at.
CountReady(ms, q, v) ==
    [ms EXCEPT !.readySampleStat[v] = @ + ms.readySample[q],
               !.deliverySampleStat[v] = @ + ms.deliverySample[q]]
Amplifies(ms, q, v) ==
    ms.readySample[q] > 0 /\ v \notin ms.sentReadyMessages /\ ms.readySampleStat[v] >= ReadyThreshold
MutDelivers(p, i, ms, q, v) ==
    ms.deliverySample[q] > 0 /\ ms.deliverySampleStat[v] >= DeliveryThreshold
Delivers(p, i, ms, q, v) ==
    ms.deliverySample[q] > 0 /\ ~Delivered(p, i) /\ ms.deliverySampleStat[v] >= DeliveryThreshold
ReceiveReady(p, m, ms, opening) ==
    LET i   == m.inst
        v   == m.value
        ms2 == CountReady(ms, m.from, v)
        amplifies == Amplifies(ms2, m.from, v)
    IN  /\ messagesLog' = [messagesLog EXCEPT ![p][i] =
               IF amplifies THEN [ms2 EXCEPT !.sentReadyMessages = @ \cup {v}] ELSE ms2]
        /\ Exchange(m, IF amplifies THEN opening (+) Ready(p, i, v, ms2) ELSE opening)
        /\ \/ Delivers(p, i, ms2, m.from, v) /\ Deliver(p, i, v)
           \/ /\ ~Delivers(p, i, ms2, m.from, v)
              /\ UNCHANGED <<deliveredMessages, cleanUpPending, ownDeliveredTransactions>>
        /\ UNCHANGED transactionCounter

\* processProtocolMessage: one step, under the mutex of the author.  What is
\* delivered and cleaned up is closed; what is new gets a state first.
MutOpensAlways(p, i) == TRUE
MayOpen(p, i) == ~Delivered(p, i)
Ignore(p, m) ==
    /\ messagesLog[p][m.inst] = NoState /\ ~MayOpen(p, m.inst)
    /\ Update(p, m, NoState, EmptyBag)

ProcessProtocolMessage(p, m, ms, opening) ==
    \/ m.stage = "GOSSIP_SUBSCRIBE" /\ ReceiveGossipSubscribe(p, m, ms, opening)
    \/ m.stage = "GOSSIP" /\ ReceiveGossip(p, m, ms, opening)
    \/ m.stage = "ECHO_SUBSCRIBE" /\ ReceiveEchoSubscribe(p, m, ms, opening)
    \/ m.stage = "ECHO" /\ ReceiveEcho(p, m, ms, opening)
    \/ m.stage = "READY_SUBSCRIBE" /\ ReceiveReadySubscribe(p, m, ms, opening)
    \/ m.stage = "READY" /\ ReceiveReady(p, m, ms, opening)

\* The messages of faulty processes: any announcement they may make.
FaultyArrivals ==
    {m \in [from : Faulty, to : Correct, stage : Announcements, inst : Instance, value : Value] :
        /\ <<m.stage, m.value>> \in FaultyMessages /\ FaultyCopies > 0
        /\ BagIn(m, faultySent) => faultySent[m] < FaultyCopies}

HandleMessage(p, m) ==
    /\ m.to = p
    /\ \/ Ignore(p, m)
       \/ /\ messagesLog[p][m.inst] # NoState
          /\ ProcessProtocolMessage(p, m, messagesLog[p][m.inst], EmptyBag)
       \/ /\ messagesLog[p][m.inst] = NoState /\ MayOpen(p, m.inst)
          /\ \E ms \in FreshStates :
                ProcessProtocolMessage(p, m, ms, Subscribe(p, m.inst, ms))

\* The goroutine that deliver starts: time is up.
CleanUp(p, i) ==
    /\ <<p, i>> \in cleanUpPending
    /\ cleanUpPending' = cleanUpPending \ {<<p, i>>}
    /\ messagesLog' = [messagesLog EXCEPT ![p][i] = NoState]
    /\ UNCHANGED <<transactionCounter, deliveredMessages, ownDeliveredTransactions,
                   network, faultySent>>

Next ==
    \/ \E p \in Correct, v \in Value : Broadcast(p, v)
    \/ \E m \in BagToSet(network) \cup FaultyArrivals : HandleMessage(m.to, m)
    \/ \E p \in Correct, i \in Instance : CleanUp(p, i)

Spec == Init /\ [][Next]_vars

-----------------------------------------------------------------------------
(* Who has heard what: between the processes that have not cleaned an      *)
(* instance up.                                                            *)

Has(p, i) == messagesLog[p][i] # NoState
CleanedUp(p, i) == Delivered(p, i) /\ ~Has(p, i)
InTransit(p, q, s, i, v) == Msg(p, q, s, i, v) \in BagToSet(network)

\* Whom p has drawn knows of it.
Subscribed ==
    \A p, q \in Correct, i \in Instance :
        Has(p, i) /\ ~CleanedUp(q, i) =>
            LET ms == messagesLog[p][i]
                other == messagesLog[q][i]
            IN  /\ q \in ms.gossipSample =>
                      \/ InTransit(p, q, "GOSSIP_SUBSCRIBE", i, None)
                      \/ Has(q, i) /\ p \in other.gossipSample
                /\ q \in Members(ms.echoSample) =>
                      \/ InTransit(p, q, "ECHO_SUBSCRIBE", i, None)
                      \/ Has(q, i) /\ p \in other.echoSubscriptionSet
                /\ q \in Members(ms.readySample) \cup Members(ms.deliverySample) =>
                      \/ InTransit(p, q, "READY_SUBSCRIBE", i, None)
                      \/ Has(q, i) /\ p \in other.readySubscriptionSet

\* Whoever p knows of hears what p announces.
Announced ==
    \A p, q \in Correct, i \in Instance :
        Has(p, i) /\ ~CleanedUp(q, i) =>
            LET ms == messagesLog[p][i]
                other == messagesLog[q][i]
            IN  /\ q \in ms.gossipSample /\ ms.gossipMessage # None =>
                      \/ InTransit(p, q, "GOSSIP", i, ms.gossipMessage)
                      \/ Has(q, i) /\ other.echoMessage # None
                /\ q \in ms.echoSubscriptionSet /\ ms.echoMessage # None =>
                      \/ InTransit(p, q, "ECHO", i, ms.echoMessage)
                      \/ Has(q, i) /\ (other.echoSample[p] = 0 \/ p \in other.receivedEcho)
                /\ q \in ms.readySubscriptionSet =>
                      \A v \in ms.sentReadyMessages :
                          InTransit(p, q, "READY", i, v) \/ Has(q, i)

\* How many of the draws of a sample fell on S.
Weight(sample, S) == Cardinality(UNION {{q} \X (1 .. sample[q]) : q \in S})

\* What has come from correct processes is counted, with its weight.
EchoesHeard(p, i, v) ==
    {q \in messagesLog[p][i].receivedEcho \cap Correct :
        Has(q, i) /\ messagesLog[q][i].echoMessage = v}
ReadysHeard(p, i, v) ==
    {q \in Correct :
        /\ Has(q, i) /\ p \in messagesLog[q][i].readySubscriptionSet
        /\ v \in messagesLog[q][i].sentReadyMessages /\ ~InTransit(q, p, "READY", i, v)}
Counted ==
    \A p \in Correct, i \in Instance, v \in Value :
        Has(p, i) =>
            LET ms == messagesLog[p][i]
            IN  /\ Weight(ms.echoSample, EchoesHeard(p, i, v)) <= ms.echoMessagesStat[v]
                /\ Weight(ms.readySample, ReadysHeard(p, i, v)) <= ms.readySampleStat[v]
                /\ Weight(ms.deliverySample, ReadysHeard(p, i, v)) <= ms.deliverySampleStat[v]

\* No threshold that was reached has been passed over.
Acted(ms, delivered) ==
    /\ ~PassesSieve(ms)
    /\ ms.sentReadyFromSieve => ms.echoMessage \in ms.sentReadyMessages
    /\ ms.echoMessage # None => ms.gossipMessage # None
    /\ \A v \in Value :
          /\ ReadyThreshold \in 1 .. ms.readySampleStat[v] => v \in ms.sentReadyMessages
          /\ DeliveryThreshold \in 1 .. ms.deliverySampleStat[v] => delivered
ActedOn ==
    \A p \in Correct, i \in Instance : Has(p, i) => Acted(messagesLog[p][i], Delivered(p, i))

\* Correct processes say what they hold, and nothing else is heard of them.
Truthful(ms, m) ==
    /\ m.stage = "GOSSIP_SUBSCRIBE" => m.to \in ms.gossipSample
    /\ m.stage = "ECHO" => m.value = ms.echoMessage
    /\ m.stage = "READY" => m.value \in ms.sentReadyMessages
Backed ==
    /\ \A m \in BagToSet(network) :
          /\ m.from \in Correct
          /\ \/ CleanedUp(m.from, m.inst)
             \/ Has(m.from, m.inst) /\ Truthful(messagesLog[m.from][m.inst], m)
    /\ \A p, q \in Correct, i \in Instance :
          Has(p, i) /\ q \in messagesLog[p][i].receivedEcho =>
              CleanedUp(q, i) \/ (Has(q, i) /\ messagesLog[q][i].echoMessage # None)
    /\ \A p \in Correct, i \in Instance : <<p, i>> \in cleanUpPending => Delivered(p, i)

\* Nobody misses an announcement: a subscription, a GOSSIP, ECHO or READY is
\* under way, or was taken into account by whoever it concerns, whichever came
\* first, the announcement or the subscription.
NothingMissed == Subscribed /\ Announced /\ Counted /\ ActedOn /\ Backed

\* A READY is counted each time it comes.  It comes twice at most, once from the
\* sieve and once by amplification or to a late subscriber: a count of a sample
\* that no faulty process tells of READY is at most twice what those who have
\* announced READY weigh in it.
Readied(i, v) ==
    {q \in Correct : CleanedUp(q, i) \/ (Has(q, i) /\ v \in messagesLog[q][i].sentReadyMessages)}
Untold(sample, v) == \A q \in Faulty : sample[q] = 0 \/ <<"READY", v>> \notin FaultyMessages
ReadyCountedTwiceAtMost ==
    \A p \in Correct, i \in Instance, v \in Value :
        Has(p, i) =>
            LET ms == messagesLog[p][i]
            IN  /\ Untold(ms.readySample, v) =>
                      ms.readySampleStat[v] <= 2 * Weight(ms.readySample, Readied(i, v))
                /\ Untold(ms.deliverySample, v) =>
                      ms.deliverySampleStat[v] <= 2 * Weight(ms.deliverySample, Readied(i, v))

-----------------------------------------------------------------------------
(* What totality asks of the samples that were drawn: nothing in the code  *)
(* makes sure of it, sizes and thresholds are chosen to make it probable.  *)

\* The author is the first that hears of an instance: its Broadcast takes the
\* place of no state.
BroadcastFirst ==
    \A p \in Correct, i \in Instance :
        i.author = p /\ transactionCounter[p] <= i.seqNumber => ~Has(p, i) /\ ~Delivered(p, i)

\* Everything sent is handled, and nobody has lost a state to the clean-up.
Settled(i) ==
    /\ network = EmptyBag
    /\ \A p \in Correct : Delivered(p, i) => messagesLog[p][i] # NoState

\* Whoever hears of an instance, all do in the end.
Contacts(g, e, r, d) == (g \cup Members(e) \cup Members(r) \cup Members(d)) \cap Correct
Reached(i) ==
    \A S \in SUBSET Correct :
        /\ S # {}
        /\ \A p \in S :
              LET ms == messagesLog[p][i]
              IN  /\ Has(p, i)
                  /\ Contacts(ms.gossipSample, ms.echoSample, ms.readySample, ms.deliverySample)
                        \subseteq S
        => S = Correct

\* When all have heard of it, READYs for a value that suffice for one process to
\* deliver, with those they and the ECHOs call forth, suffice for all.
Echoers(i, v) == {q \in Correct : Has(q, i) /\ messagesLog[q][i].echoMessage = v}
Contagious(i) ==
    \A v \in Value, S \in SUBSET Correct :
        /\ \A p \in Correct : Has(p, i)
        /\ \E p \in Correct : DeliveryThreshold <= 2 * Weight(messagesLog[p][i].deliverySample, S)
        /\ \A p \in Correct :
              LET ms == messagesLog[p][i]
              IN  \/ p \in Echoers(i, v) /\ EchoThreshold <= Weight(ms.echoSample, Echoers(i, v))
                  \/ ReadyThreshold <= Weight(ms.readySample, S)
                  => p \in S
        => \A p \in Correct : DeliveryThreshold <= Weight(messagesLog[p][i].deliverySample, S)
Favourable == \A i \in Instance : Settled(i) => Reached(i) /\ Contagious(i)

\* The same of all samples that may be drawn, without the help of the ECHOs.
AlwaysReached(gossips, echos, readys, deliveries) ==
    \A g \in [Correct -> gossips], e \in [Correct -> echos],
       r \in [Correct -> readys], d \in [Correct -> deliveries], S \in SUBSET Correct :
        S # {} /\ (\A p \in S : Contacts(g[p], e[p], r[p], d[p]) \subseteq S) => S = Correct
AlwaysContagious(readys, deliveries, amplify, deliver) ==
    \A r \in [Correct -> readys], d \in [Correct -> deliveries], S \in SUBSET Correct :
        /\ \E p \in Correct : deliver <= 2 * Weight(d[p], S)
        /\ \A p \in Correct : amplify <= Weight(r[p], S) => p \in S
        => \A p \in Correct : deliver <= Weight(d[p], S)

-----------------------------------------------------------------------------
(* Properties *)

TypeOK ==
    /\ transactionCounter \in [Correct -> 0 .. MaxTransactions]
    /\ deliveredMessages \in [Correct -> [Instance -> Value \cup {None}]]
    /\ messagesLog \in [Correct -> [Instance -> MessageState \cup {NoState}]]
    /\ cleanUpPending \subseteq Correct \X Instance
    /\ ownDeliveredTransactions \in [Correct -> 0 .. MaxTransactions]
    /\ BagToSet(network) \subseteq Message
    /\ BagToSet(faultySent) \subseteq Message

\* Consistency: two correct processes do not deliver different values.
Agreement ==
    \A p, q \in Correct, i \in Instance :
        Delivered(p, i) /\ Delivered(q, i) =>
            deliveredMessages[p][i] = deliveredMessages[q][i]

\* Totality: once every message has been handled, and if the clean-up has not
\* deleted the state a late subscriber needs an answer from, what one correct
\* process has delivered all have, in whatever order GOSSIP, ECHO and READY
\* overtook the subscriptions.
Totality ==
    \A i \in Instance, p, q \in Correct :
        Settled(i) /\ Delivered(p, i) => Delivered(q, i)

\* A delivered value stays, and no message opens an instance again that was
\* delivered and cleaned up: what comes late draws no new samples and gets no
\* answer.  Only the author's own Broadcast may, when others delivered its
\* instance before it has broadcast.
ClosedIsFinal ==
    [][\A p \in Correct, i \in Instance :
          Delivered(p, i) =>
            /\ deliveredMessages'[p][i] = deliveredMessages[p][i]
            /\ messagesLog[p][i] = NoState /\ UNCHANGED transactionCounter =>
                  /\ messagesLog'[p][i] = NoState
                  /\ \A m \in BagToSet(network') \ BagToSet(network) :
                        ~(m.from = p /\ m.inst = i)]_vars
=============================================================================
