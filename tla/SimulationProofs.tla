-------------------------- MODULE SimulationProofs --------------------------
(***************************************************************************)
(* The barrier of the main server and the stress test, for every number of *)
(* nodes: nobody broadcasts before all listen, and a stress test has one   *)
(* transaction of its own in flight, in spite of processes that lie.       *)
(***************************************************************************)
EXTENDS Simulation, BrachaProofs

\* Where a process stands with the simulation follows from the barrier.
Barrier ==
    /\ simulateMessages # {} => connectedNodes = Proc
    /\ \A p \in Correct :
          /\ simulation[p] # "notStarted" =>
                connectedNodes = Proc /\ p \notin simulateMessages
          /\ broadcastMessages[p] > 0 => connectedNodes = Proc

\* In the instances of stress tests nobody but the author sends an INITIAL.
StressTestsAuthentic ==
    \A p \in Correct : StressTest(p) => Faulty = {} \/ <<"INITIAL", p>> \notin FaultyMessages

NodeTypes ==
    /\ started \subseteq Proc
    /\ connectedNodes \subseteq started
    /\ simulateMessages \subseteq Proc
    /\ simulation \in [Correct -> {"notStarted", "running", "waiting"}]
    /\ toSendOut \in [Correct -> 0 .. TransactionsToSendOut]
    /\ broadcastMessages \in [Correct -> Nat]

Inv == QuorumInv /\ NodeTypes /\ Barrier

\* What the invariant of Bracha says is not affected by the notices, which the
\* goroutine `simulate' takes outside the receive loop.
LEMMA QuorumInvFrame ==
    ASSUME QuorumInv, ownDeliveredTransactions' \in [Correct -> Nat],
           UNCHANGED <<transactionCounter, deliveredTransactions, transactionsLog, sent>>
    PROVE  QuorumInv'
<1>1. TypeOK'
  BY DEF QuorumInv, TypeOK
<1>2. VotesBacked'
  BY DEF QuorumInv, VotesBacked, Backed, Voters, Receivable
<1>3. OneEcho' /\ StageRecordsSent'
  BY DEF QuorumInv, OneEcho, StageRecordsSent, Delivered
<1>4. ReadyJustified' /\ DeliveryJustified'
  BY DEF QuorumInv, ReadyJustified, DeliveryJustified, Delivered, Voters, Receivable,
     MessagesForEcho, MessagesForDelivery, N
<1>5. DeliveredImpliesOwnReady' /\ InitialOnce' /\ EchoAuthentic'
  BY DEF QuorumInv, DeliveredImpliesOwnReady, Delivered, InitialOnce, EchoAuthentic, Authentic
<1>6. QED
  BY <1>1, <1>2, <1>3, <1>4, <1>5 DEF QuorumInv

LEMMA QuorumInvStep ==
    ASSUME QuorumInv,
           \/ \E p \in Correct, v \in Value : Broadcast(p, v)
           \/ \E p \in Correct, q \in Proc, i \in Instance, v \in Value :
                 HandleMessage(p, q, i, v)
           \/ UNCHANGED vars
    PROVE  QuorumInv'
BY InvNext DEF Next

LEMMA AllAreConnected ==
    ASSUME NEW nodes \in SUBSET Proc, AllConnected(nodes)
    PROVE  nodes = Proc
BY FS_Subset, ProcAssumption DEF AllConnected, N

-----------------------------------------------------------------------------
(* The invariant, one action at a time *)

LEMMA StartInv ==
    ASSUME Inv, NEW p \in Proc, Start(p)
    PROVE  Inv'
<1>1. QuorumInv'
  BY QuorumInvStep DEF Inv, Start
<1>2. NodeTypes' /\ Barrier'
  BY DEF Inv, NodeTypes, Barrier, Start, nodeVars, serverVars
<1>3. QED
  BY <1>1, <1>2 DEF Inv

LEMMA ServerInv ==
    ASSUME Inv, NEW p \in Proc, ServerProcessMessage(p)
    PROVE  Inv'
<1>1. QuorumInv'
  BY QuorumInvStep DEF Inv, ServerProcessMessage
<1>2. NodeTypes'
  BY DEF Inv, NodeTypes, ServerProcessMessage, nodeVars
<1>3. connectedNodes # Proc /\ connectedNodes' \in SUBSET Proc
  BY DEF Inv, NodeTypes, ServerProcessMessage
<1>4. /\ simulateMessages = {}
      /\ \A p2 \in Correct : simulation[p2] = "notStarted" /\ ~(broadcastMessages[p2] > 0)
  BY <1>3 DEF Inv, Barrier
<1>5. simulateMessages' # {} => connectedNodes' = Proc
  BY <1>3, <1>4, AllAreConnected DEF ServerProcessMessage
<1>6. Barrier'
  BY <1>4, <1>5 DEF Barrier, ServerProcessMessage, nodeVars
<1>7. QED
  BY <1>1, <1>2, <1>6 DEF Inv

LEMMA SimulateInv ==
    ASSUME Inv, NEW p \in Correct, HandleSimulate(p)
    PROVE  Inv'
<1>1. QuorumInv'
  BY QuorumInvStep DEF Inv, HandleSimulate
<1>2. NodeTypes' /\ Barrier'
  BY DEF Inv, NodeTypes, Barrier, HandleSimulate
<1>3. QED
  BY <1>1, <1>2 DEF Inv

LEMMA StressInv ==
    ASSUME Inv, NEW p \in Correct, StressBroadcast(p)
    PROVE  Inv'
<1>1. ownDeliveredTransactions' \in [Correct -> Nat]
  BY DEF Inv, QuorumInv, TypeOK, StressBroadcast, NoticeAvailable
<1>2. QuorumInv'
  BY <1>1, QuorumInvFrame DEF Inv, StressBroadcast
<1>3. NodeTypes' /\ Barrier'
  BY DEF Inv, NodeTypes, Barrier, StressBroadcast, SendBroadcastMessage, serverVars
<1>4. QED
  BY <1>2, <1>3 DEF Inv

LEMMA TimedInv ==
    ASSUME Inv, NEW p \in Correct, TimedBroadcast(p)
    PROVE  Inv'
<1>1. QuorumInv'
  BY QuorumInvStep DEF Inv, TimedBroadcast
<1>2. NodeTypes' /\ Barrier'
  BY TransactionsAssumption
  DEF Inv, NodeTypes, Barrier, TimedBroadcast, SendBroadcastMessage, serverVars
<1>3. QED
  BY <1>1, <1>2 DEF Inv

LEMMA BroadcastInv ==
    ASSUME Inv, NEW p \in Correct, HandleBroadcast(p)
    PROVE  Inv'
<1>1. QuorumInv'
  BY QuorumInvStep DEF Inv, HandleBroadcast
<1>2. NodeTypes' /\ Barrier'
  BY DEF Inv, NodeTypes, Barrier, HandleBroadcast, serverVars
<1>3. QED
  BY <1>1, <1>2 DEF Inv

LEMMA ProtocolInv ==
    ASSUME Inv, NEW p \in Correct, NEW q \in Proc, HandleProtocolMessage(p, q)
    PROVE  Inv'
<1>1. QuorumInv'
  BY QuorumInvStep DEF Inv, HandleProtocolMessage
<1>2. NodeTypes' /\ Barrier'
  BY DEF Inv, NodeTypes, Barrier, HandleProtocolMessage, nodeVars, serverVars
<1>3. QED
  BY <1>1, <1>2 DEF Inv

LEMMA SimInvInit == SimInit => Inv
<1> SUFFICES ASSUME SimInit
             PROVE  Inv
  OBVIOUS
<1>1. QuorumInv
  BY InvInit DEF SimInit
<1>2. NodeTypes /\ Barrier
  BY TransactionsAssumption DEF SimInit, NodeTypes, Barrier
<1>3. QED
  BY <1>1, <1>2 DEF Inv

LEMMA SimInvNext == Inv /\ [SimNext]_allVars => Inv'
<1> SUFFICES ASSUME Inv, [SimNext]_allVars
             PROVE  Inv'
  OBVIOUS
<1>1. CASE UNCHANGED allVars
  <2>1. QuorumInv'
    BY <1>1, QuorumInvStep DEF Inv, allVars
  <2>2. NodeTypes' /\ Barrier'
    BY <1>1 DEF Inv, NodeTypes, Barrier, allVars, nodeVars, serverVars
  <2>3. QED
    BY <2>1, <2>2 DEF Inv
<1>2. QED
  BY <1>1, StartInv, ServerInv, SimulateInv, StressInv, TimedInv, BroadcastInv, ProtocolInv
  DEF SimNext

LEMMA SimInductive == SimSpec => []Inv
BY SimInvInit, SimInvNext, PTL DEF SimSpec

\* Every variable of the program around the protocol keeps its type.
THEOREM SimTypes == SimSpec => []SimTypeOK
<1>1. Inv => SimTypeOK
  BY DEF Inv, QuorumInv, NodeTypes, SimTypeOK
<1>2. QED
  BY <1>1, SimInductive, PTL

-----------------------------------------------------------------------------
(* The barrier *)

\* Where no process lies, nothing is sent before all are connected.
Quiet == sent # {} => connectedNodes = Proc

LEMMA QuietNext ==
    ASSUME FaultyMessages = {}, Inv, Quiet, [SimNext]_allVars
    PROVE  Quiet'
<1> USE DEF Quiet
<1>1. CASE UNCHANGED allVars
  BY <1>1 DEF allVars, vars, serverVars
<1>2. ASSUME NEW p \in Proc, Start(p)
      PROVE  Quiet'
  BY <1>2 DEF Start, vars, serverVars
<1>3. ASSUME NEW p \in Proc, ServerProcessMessage(p)
      PROVE  Quiet'
  <2>1. connectedNodes \subseteq connectedNodes' /\ connectedNodes' \subseteq Proc
        /\ sent' = sent
    BY <1>3 DEF ServerProcessMessage, vars, Inv, NodeTypes
  <2>2. QED
    BY <2>1
<1>4. ASSUME NEW p \in Correct,
             HandleSimulate(p) \/ StressBroadcast(p) \/ TimedBroadcast(p)
      PROVE  Quiet'
  BY <1>4 DEF HandleSimulate, StressBroadcast, TimedBroadcast, vars, serverVars
<1>5. ASSUME NEW p \in Correct, HandleBroadcast(p)
      PROVE  Quiet'
  BY <1>5 DEF HandleBroadcast, serverVars, Inv, Barrier
<1>6. ASSUME NEW p \in Correct, NEW q \in Proc, HandleProtocolMessage(p, q)
      PROVE  Quiet'
  <2>1. connectedNodes' = connectedNodes
    BY <1>6 DEF HandleProtocolMessage, serverVars
  <2>2. PICK i \in Instance, v \in Value : HandleMessage(p, q, i, v)
    BY <1>6 DEF HandleProtocolMessage
  <2>3. sent # {}
    BY <2>2 DEF HandleMessage, ReceiveInitial, ReceiveEcho, ReceiveReady, Receivable
  <2>4. QED
    BY <2>1, <2>3
<1>7. QED
  BY <1>1, <1>2, <1>3, <1>4, <1>5, <1>6 DEF SimNext

\* Without lying processes, no message is sent before every node listens.
THEOREM AllListenFirst ==
    ASSUME FaultyMessages = {}
    PROVE  SimSpec => []NoEarlyBroadcast
<1>1. SimInit => Quiet
  BY DEF SimInit, Init, Quiet
<1>2. Inv /\ Quiet /\ [SimNext]_allVars => Quiet'
  BY QuietNext
<1>3. Inv /\ Quiet => NoEarlyBroadcast
  BY DEF Inv, NodeTypes, Quiet, NoEarlyBroadcast
<1>4. QED
  BY <1>1, <1>2, <1>3, SimInductive, PTL DEF SimSpec

-----------------------------------------------------------------------------
(* One transaction in flight *)

FiniteDeliveries == \A p \in Correct : IsFiniteSet(OwnDelivered(p))

FlightInv == FiniteDeliveries /\ OneInFlight

\* What is delivered of a stress test, the process has broadcast.
LEMMA OwnDeliveriesBroadcast ==
    ASSUME QuorumInv, StressTestsAuthentic, NEW p \in Correct, NEW i \in Instance,
           i.author \in Correct, StressTest(i.author), Delivered(p, i)
    PROVE  i.seqNumber < transactionCounter[i.author]
<1> DEFINE v == deliveredTransactions[p][i]
<1>1. i \in Authentic
  BY DEF StressTestsAuthentic, Authentic
<1>2. v \in Value
  BY DEF QuorumInv, TypeOK, Delivered
<1>3. Cardinality(Voters("ECHO", i, v)) >= MessagesForEcho
  BY DeliveredWasReady DEF QuorumInv
<1>4. PICK q \in Correct : Msg(q, "ECHO", i, v) \in sent
  BY <1>2, <1>3, EchoQuorumCorrect
<1>5. Msg(i.author, "INITIAL", i, v) \in sent
  BY <1>1, <1>4 DEF QuorumInv, EchoAuthentic, Msg
<1>6. QED
  BY <1>5 DEF QuorumInv, InitialOnce, Msg

\* The same as an implication, for the state after a step.
OwnDeliveriesKnown ==
    StressTestsAuthentic =>
        \A p \in Correct, i \in Instance :
            i.author \in Correct /\ StressTest(i.author) /\ Delivered(p, i)
            => i.seqNumber < transactionCounter[i.author]

LEMMA OwnKnown == QuorumInv => OwnDeliveriesKnown
BY OwnDeliveriesBroadcast DEF OwnDeliveriesKnown

\* A process whose own instances, notices and requests stay as they are.
LEMMA FlightFrame ==
    ASSUME FlightInv, NEW p \in Correct,
           broadcastMessages'[p] = broadcastMessages[p],
           transactionCounter'[p] = transactionCounter[p],
           ownDeliveredTransactions'[p] = ownDeliveredTransactions[p],
           (simulation'[p] = "waiting") = (simulation[p] = "waiting"),
           \A i \in Instance : i.author = p =>
               deliveredTransactions'[p][i] = deliveredTransactions[p][i]
    PROVE  /\ IsFiniteSet(OwnDelivered(p)')
           /\ StressTest(p) => InFlight(p)' = IF simulation'[p] = "waiting" THEN 1 ELSE 0
<1>1. OwnDelivered(p)' = OwnDelivered(p)
  BY DEF OwnDelivered, Delivered
<1>2. InFlight(p)' = InFlight(p)
  BY <1>1 DEF InFlight
<1>3. QED
  BY <1>1, <1>2 DEF FlightInv, FiniteDeliveries, OneInFlight

\* Broadcast: the request becomes an instance that is not delivered yet.
LEMMA FlightBroadcast ==
    ASSUME Inv, FlightInv, StressTestsAuthentic, NEW p \in Correct, HandleBroadcast(p)
    PROVE  /\ IsFiniteSet(OwnDelivered(p)')
           /\ StressTest(p) => InFlight(p)' = IF simulation'[p] = "waiting" THEN 1 ELSE 0
<1>1. /\ transactionCounter \in [Correct -> 0 .. MaxTransactions]
      /\ broadcastMessages \in [Correct -> Nat]
      /\ ownDeliveredTransactions \in [Correct -> Nat]
  BY DEF Inv, QuorumInv, TypeOK, NodeTypes
<1>2. /\ transactionCounter' = [transactionCounter EXCEPT ![p] = @ + 1]
      /\ broadcastMessages' = [broadcastMessages EXCEPT ![p] = @ - 1]
      /\ deliveredTransactions' = deliveredTransactions
      /\ ownDeliveredTransactions' = ownDeliveredTransactions
      /\ simulation' = simulation
  BY DEF HandleBroadcast, Broadcast
<1>3. /\ transactionCounter[p] \in Int /\ transactionCounter'[p] = transactionCounter[p] + 1
      /\ broadcastMessages[p] \in Int /\ broadcastMessages'[p] = broadcastMessages[p] - 1
  BY BoundAssumption, <1>1, <1>2
<1>4. CASE StressTest(p)
  <2>1. ASSUME NEW i \in Instance, i.author = p, Delivered(p, i)
        PROVE  i.seqNumber < transactionCounter[p]
    BY <1>4, <2>1, OwnDeliveriesBroadcast DEF Inv
  <2>2. ASSUME NEW i \in Instance
        PROVE  i.seqNumber \in Int
    BY DEF Instance
  <2>3. OwnDelivered(p)' = OwnDelivered(p)
    BY <1>2, <1>3, <2>1, <2>2 DEF OwnDelivered, Delivered
  <2>4. Cardinality(OwnDelivered(p)) \in Nat
    BY FS_CardinalityType DEF FlightInv, FiniteDeliveries
  <2>5. InFlight(p)' = InFlight(p)
    BY <1>1, <1>2, <1>3, <2>3, <2>4 DEF InFlight
  <2>6. QED
    BY <1>2, <1>4, <2>3, <2>5 DEF FlightInv, FiniteDeliveries, OneInFlight
<1>5. CASE ~StressTest(p)
  <2> DEFINE S == OwnDelivered(p)
             i0 == [author |-> p, seqNumber |-> transactionCounter[p]]
  <2>1. IsFiniteSet(S \cup {i0})
    BY FS_AddElement DEF FlightInv, FiniteDeliveries
  <2>2. OwnDelivered(p)' \in SUBSET (S \cup {i0})
    <3> SUFFICES ASSUME NEW i \in Instance, i.author = p, Delivered(p, i),
                        i.seqNumber < transactionCounter[p] + 1,
                        ~(i.seqNumber < transactionCounter[p])
                 PROVE  i = i0
      BY <1>2, <1>3 DEF OwnDelivered, Delivered
    <3>1. i.seqNumber = transactionCounter[p]
      BY <1>3 DEF Instance
    <3>2. QED
      BY <3>1 DEF Instance
  <2> HIDE DEF S, i0
  <2>3. QED
    BY <1>5, <2>1, <2>2, FS_Subset
<1>6. QED
  BY <1>4, <1>5

\* A delivery of an own instance goes from `broadcast' to `notice'.
LEMMA FlightDelivery ==
    ASSUME Inv, FlightInv, StressTestsAuthentic, NEW p \in Correct, NEW i \in Instance,
           NEW v \in Value, Deliver(p, i, v), ~Delivered(p, i), i.author = p, QuorumInv',
           UNCHANGED <<transactionCounter, broadcastMessages, simulation>>
    PROVE  /\ IsFiniteSet(OwnDelivered(p)')
           /\ StressTest(p) => InFlight(p)' = IF simulation'[p] = "waiting" THEN 1 ELSE 0
<1> DEFINE S == OwnDelivered(p)
<1>1. /\ transactionCounter \in [Correct -> 0 .. MaxTransactions]
      /\ broadcastMessages \in [Correct -> Nat]
      /\ ownDeliveredTransactions \in [Correct -> Nat] /\ TypeOK
  BY DEF Inv, QuorumInv, TypeOK, NodeTypes
<1>2. /\ deliveredTransactions'[p][i] = v
      /\ \A i2 \in Instance :
            i2 # i => deliveredTransactions'[p][i2] = deliveredTransactions[p][i2]
  BY <1>1, DeliverUpdate
<1>3. IsFiniteSet(S) /\ i \notin S
  BY DEF FlightInv, FiniteDeliveries, OwnDelivered
<1>4. i.seqNumber < transactionCounter[p] => OwnDelivered(p)' = S \cup {i}
  BY <1>2, ValueAssumption DEF OwnDelivered, Delivered
<1>5. ~(i.seqNumber < transactionCounter[p]) => OwnDelivered(p)' = S
  BY <1>2 DEF OwnDelivered, Delivered
<1>6. IsFiniteSet(OwnDelivered(p)')
  <2> HIDE DEF S
  <2>1. QED
    BY <1>3, <1>4, <1>5, FS_AddElement
<1>7. ASSUME StressTest(p)
      PROVE  InFlight(p)' = IF simulation'[p] = "waiting" THEN 1 ELSE 0
  <2>1. Delivered(p, i)'
    BY <1>2, ValueAssumption DEF Delivered
  <2>2. i.seqNumber < transactionCounter[p]
    <3>1. OwnDeliveriesKnown'
      BY OwnKnown, PTL
    <3>2. QED
      BY <1>7, <2>1, <3>1 DEF OwnDeliveriesKnown, StressTestsAuthentic, Delivered
  <2>3. Cardinality(OwnDelivered(p)') = Cardinality(S) + 1 /\ Cardinality(S) \in Nat
    BY <1>3, <1>4, <2>2, FS_AddElement, FS_CardinalityType
  <2>4. /\ ownDeliveredTransactions'[p] = ownDeliveredTransactions[p] + 1
        /\ ownDeliveredTransactions[p] \in Nat /\ broadcastMessages[p] \in Nat
        /\ transactionCounter[p] \in Nat
    BY <1>1, <1>7 DEF Deliver, NotifyDelivery, Notifies, StressTest
  <2>5. InFlight(p)' = InFlight(p)
    BY <2>3, <2>4 DEF InFlight
  <2>6. QED
    BY <1>7, <2>5 DEF FlightInv, OneInFlight
<1>8. QED
  BY <1>6, <1>7

LEMMA FlightInit == SimInit => FlightInv
<1> SUFFICES ASSUME SimInit
             PROVE  FlightInv
  OBVIOUS
<1>1. ASSUME NEW p \in Correct
      PROVE  OwnDelivered(p) = {}
  <2>1. \A i \in Instance : ~Delivered(p, i)
    BY <1>1 DEF SimInit, Init, Delivered
  <2>2. QED
    BY <2>1 DEF OwnDelivered
<1>2. FiniteDeliveries
  BY <1>1, FS_EmptySet DEF FiniteDeliveries
<1>3. ASSUME NEW p \in Correct
      PROVE  InFlight(p) = 0 /\ simulation[p] = "notStarted"
  <2>1. /\ broadcastMessages[p] = 0 /\ transactionCounter[p] = 0
        /\ ownDeliveredTransactions[p] = 0 /\ simulation[p] = "notStarted"
    BY <1>3 DEF SimInit, Init
  <2>2. Cardinality(OwnDelivered(p)) = 0
    BY <1>1, <1>3, FS_EmptySet
  <2>3. QED
    BY <2>1, <2>2 DEF InFlight
<1>4. QED
  BY <1>2, <1>3 DEF FlightInv, OneInFlight

\* In every step, a process either does what the lemmas above say or is left alone.
LEMMA FlightNext ==
    ASSUME StressTestsAuthentic, Inv, Inv', FlightInv, [SimNext]_allVars
    PROVE  FlightInv'
<1> SUFFICES ASSUME NEW p2 \in Correct
             PROVE  /\ IsFiniteSet(OwnDelivered(p2)')
                    /\ StressTest(p2) =>
                          InFlight(p2)' = IF simulation'[p2] = "waiting" THEN 1 ELSE 0
  BY DEF FlightInv, FiniteDeliveries, OneInFlight
<1>1. /\ transactionCounter \in [Correct -> 0 .. MaxTransactions]
      /\ broadcastMessages \in [Correct -> Nat]
      /\ ownDeliveredTransactions \in [Correct -> Nat]
      /\ simulation \in [Correct -> {"notStarted", "running", "waiting"}]
      /\ TypeOK
  BY DEF Inv, QuorumInv, TypeOK, NodeTypes
<1>2. CASE UNCHANGED allVars
  BY <1>2, FlightFrame DEF allVars, vars, nodeVars
<1>3. CASE \E p \in Proc : Start(p) \/ ServerProcessMessage(p)
  BY <1>3, FlightFrame DEF Start, ServerProcessMessage, vars, nodeVars
<1>4. ASSUME NEW p \in Correct, HandleSimulate(p)
      PROVE  /\ IsFiniteSet(OwnDelivered(p2)')
             /\ StressTest(p2) =>
                   InFlight(p2)' = IF simulation'[p2] = "waiting" THEN 1 ELSE 0
  <2>1. UNCHANGED <<vars, broadcastMessages>>
    BY <1>4 DEF HandleSimulate
  <2>2. simulation[p] = "notStarted"
    BY <1>1, <1>4 DEF HandleSimulate, Inv, Barrier
  <2>3. (simulation'[p2] = "waiting") = (simulation[p2] = "waiting")
    BY <1>1, <1>4, <2>2 DEF HandleSimulate
  <2>4. QED
    BY <2>1, <2>3, FlightFrame DEF vars
<1>5. ASSUME NEW p \in Correct, StressBroadcast(p)
      PROVE  /\ IsFiniteSet(OwnDelivered(p2)')
             /\ StressTest(p2) =>
                   InFlight(p2)' = IF simulation'[p2] = "waiting" THEN 1 ELSE 0
  <2>1. /\ UNCHANGED <<transactionCounter, deliveredTransactions>>
        /\ simulation' = [simulation EXCEPT ![p] = "waiting"]
        /\ broadcastMessages' = [broadcastMessages EXCEPT ![p] = @ + 1]
    BY <1>5 DEF StressBroadcast, SendBroadcastMessage
  <2>2. \/ /\ simulation[p] = "running"
           /\ ownDeliveredTransactions' = ownDeliveredTransactions
        \/ /\ simulation[p] = "waiting"
           /\ ownDeliveredTransactions' = [ownDeliveredTransactions EXCEPT ![p] = @ - 1]
    BY <1>5 DEF StressBroadcast
  <2>3. CASE p2 # p
    BY <1>1, <2>1, <2>2, <2>3, FlightFrame
  <2>4. CASE p2 = p
    <3>1. OwnDelivered(p)' = OwnDelivered(p) /\ Cardinality(OwnDelivered(p)) \in Nat
      BY <2>1, FS_CardinalityType DEF OwnDelivered, Delivered, FlightInv, FiniteDeliveries
    <3>2. /\ broadcastMessages'[p] = broadcastMessages[p] + 1 /\ broadcastMessages[p] \in Int
          /\ transactionCounter'[p] = transactionCounter[p] /\ transactionCounter[p] \in Int
          /\ ownDeliveredTransactions[p] \in Int /\ simulation'[p] = "waiting"
          /\ \/ /\ simulation[p] = "running"
                /\ ownDeliveredTransactions'[p] = ownDeliveredTransactions[p]
             \/ /\ simulation[p] = "waiting"
                /\ ownDeliveredTransactions'[p] = ownDeliveredTransactions[p] - 1
      BY BoundAssumption, <1>1, <2>1, <2>2
    <3>3. IsFiniteSet(OwnDelivered(p)')
      BY <3>1 DEF FlightInv, FiniteDeliveries
    <3>4. StressTest(p) => InFlight(p) = IF simulation[p] = "waiting" THEN 1 ELSE 0
      BY DEF FlightInv, OneInFlight
    <3>5. StressTest(p) => InFlight(p)' = 1
      <4>1. CASE simulation[p] = "running"
        BY <3>1, <3>2, <3>4, <4>1 DEF InFlight
      <4>2. CASE simulation[p] = "waiting"
        BY <3>1, <3>2, <3>4, <4>2 DEF InFlight
      <4>3. QED
        BY <3>2, <4>1, <4>2
    <3>6. QED
      BY <2>4, <3>2, <3>3, <3>5, Zenon
  <2>5. QED
    BY <2>3, <2>4
<1>6. ASSUME NEW p \in Correct, TimedBroadcast(p)
      PROVE  /\ IsFiniteSet(OwnDelivered(p2)')
             /\ StressTest(p2) =>
                   InFlight(p2)' = IF simulation'[p2] = "waiting" THEN 1 ELSE 0
  <2>1. /\ UNCHANGED <<vars, simulation>> /\ ~StressTest(p)
        /\ broadcastMessages' = [broadcastMessages EXCEPT ![p] = @ + 1]
    BY <1>6 DEF TimedBroadcast, SendBroadcastMessage
  <2>2. CASE p2 # p
    BY <1>1, <2>1, <2>2, FlightFrame DEF vars
  <2>3. CASE p2 = p
    <3>1. OwnDelivered(p2)' = OwnDelivered(p2)
      BY <2>1 DEF OwnDelivered, Delivered, vars
    <3>2. QED
      BY <2>1, <2>3, <3>1 DEF FlightInv, FiniteDeliveries
  <2>4. QED
    BY <2>2, <2>3
<1>7. ASSUME NEW p \in Correct, HandleBroadcast(p)
      PROVE  /\ IsFiniteSet(OwnDelivered(p2)')
             /\ StressTest(p2) =>
                   InFlight(p2)' = IF simulation'[p2] = "waiting" THEN 1 ELSE 0
  <2>1. CASE p2 # p
    <3>1. /\ UNCHANGED <<deliveredTransactions, ownDeliveredTransactions, simulation>>
          /\ broadcastMessages' = [broadcastMessages EXCEPT ![p] = @ - 1]
          /\ transactionCounter' = [transactionCounter EXCEPT ![p] = @ + 1]
      BY <1>7 DEF HandleBroadcast, Broadcast
    <3>2. QED
      BY <1>1, <2>1, <3>1, FlightFrame
  <2>2. QED
    BY <1>7, <2>1, FlightBroadcast
<1>8. ASSUME NEW p \in Correct, NEW q \in Proc, HandleProtocolMessage(p, q)
      PROVE  /\ IsFiniteSet(OwnDelivered(p2)')
             /\ StressTest(p2) =>
                   InFlight(p2)' = IF simulation'[p2] = "waiting" THEN 1 ELSE 0
  <2>1. PICK i \in Instance, v \in Value : HandleMessage(p, q, i, v)
    BY <1>8 DEF HandleProtocolMessage
  <2>2. UNCHANGED <<transactionCounter, broadcastMessages, simulation>> /\ ~Delivered(p, i)
    BY <1>8, <2>1 DEF HandleProtocolMessage, nodeVars, HandleMessage, ReceiveInitial,
       ReceiveEcho, ReceiveReady, Accepts
  <2>3. \/ UNCHANGED <<deliveredTransactions, ownDeliveredTransactions>>
        \/ Deliver(p, i, v)
    BY <2>1 DEF HandleMessage, ReceiveInitial, ReceiveEcho, ReceiveReady
  <2>4. CASE UNCHANGED <<deliveredTransactions, ownDeliveredTransactions>>
    BY <2>2, <2>4, FlightFrame
  <2>5. CASE Deliver(p, i, v) /\ p2 = p /\ i.author = p
    BY <2>2, <2>5, FlightDelivery DEF Inv
  <2>6. CASE Deliver(p, i, v) /\ ~(p2 = p /\ i.author = p)
    <3>1. \A i2 \in Instance : i2.author = p2 =>
              deliveredTransactions'[p2][i2] = deliveredTransactions[p2][i2]
      BY <1>1, <2>6, DeliverUpdate
    <3>2. ownDeliveredTransactions'[p2] = ownDeliveredTransactions[p2]
      BY <1>1, <2>6 DEF Deliver, NotifyDelivery, Notifies
    <3>3. QED
      BY <2>2, <3>1, <3>2, FlightFrame
  <2>7. QED
    BY <2>3, <2>4, <2>5, <2>6
<1>9. QED
  BY <1>2, <1>3, <1>4, <1>5, <1>6, <1>7, <1>8 DEF SimNext

\* A stress test keeps one transaction of its own going, whatever ECHOs and
\* READYs faulty processes send, as long as they open no instance in its name.
THEOREM OneTransactionInFlight ==
    ASSUME StressTestsAuthentic
    PROVE  SimSpec => []OneInFlight
<1>1. Inv /\ Inv' /\ FlightInv /\ [SimNext]_allVars => FlightInv'
  BY FlightNext
<1>2. FlightInv => OneInFlight
  BY DEF FlightInv
<1>3. QED
  BY <1>1, <1>2, FlightInit, SimInductive, PTL DEF SimSpec
=============================================================================
