----------------------------- MODULE Simulation -----------------------------
(***************************************************************************)
(* The program around the protocol: simulation/mainserver/server.go, which *)
(* lets the simulation begin when every node has reported, and             *)
(* simulation/node/node.go, whose goroutine `simulate' asks its own        *)
(* receive loop for broadcasts, by messages to itself, while that loop     *)
(* runs Bracha.  Messages reach their handler at most once (module Actor). *)
(***************************************************************************)
EXTENDS Bracha

CONSTANT TransactionsToSendOut  \* flag transactions; not used by a stress test

ASSUME TransactionsAssumption == TransactionsToSendOut \in Nat

StressTest(p) == p \in SendOwnDeliveredTransactions

VARIABLES
    started,            \* processes that run and have sent Started
    connectedNodes,     \* main server: those whose Started it has handled
    simulateMessages,   \* Simulate messages sent and not yet handled, by receiver
    simulation,         \* per process: where its goroutine `simulate' stands
    toSendOut,          \* per process: iterations left of the counted loop
    broadcastMessages   \* per process: Broadcast messages to itself, unhandled

nodeVars == <<simulation, toSendOut, broadcastMessages>>
serverVars == <<connectedNodes, simulateMessages>>
allVars == <<vars, started, nodeVars, serverVars>>

SimInit ==
    /\ Init
    /\ started = {}
    /\ connectedNodes = {}
    /\ simulateMessages = {}
    /\ simulation = [p \in Correct |-> "notStarted"]
    /\ toSendOut = [p \in Correct |-> TransactionsToSendOut]
    /\ broadcastMessages = [p \in Correct |-> 0]

\* Node.Start: the process listens from now on and reports to the main server.
Start(p) ==
    /\ p \notin started
    /\ started' = started \cup {p}
    /\ UNCHANGED <<vars, nodeVars, serverVars>>

MutServerNotCounted(nodes) == Cardinality(nodes) = N - 1
MutServerCounted(nodes) == Cardinality(nodes) = N + 1
AllConnected(nodes) == Cardinality(nodes) = N

\* MainServer.ProcessMessage, for the Started message of p.
ServerProcessMessage(p) ==
    /\ p \in started \ connectedNodes
    /\ connectedNodes' = connectedNodes \cup {p}
    /\ simulateMessages' = IF AllConnected(connectedNodes')
                             THEN Proc ELSE simulateMessages
    /\ UNCHANGED <<vars, started, nodeVars>>

\* Node.ProcessMessage, Simulate: start the goroutine.
HandleSimulate(p) ==
    /\ p \in simulateMessages \cap started
    /\ simulateMessages' = simulateMessages \ {p}
    /\ simulation' = [simulation EXCEPT ![p] = "running"]
    /\ UNCHANGED <<vars, started, connectedNodes, toSendOut, broadcastMessages>>

SendBroadcastMessage(p) ==
    broadcastMessages' = [broadcastMessages EXCEPT ![p] = @ + 1]

MutNoticeNotAwaited(p) == TRUE
NoticeAvailable(p) == ownDeliveredTransactions[p] > 0

\* simulate in a stress test: one broadcast, then one more per own delivery.
StressBroadcast(p) ==
    /\ StressTest(p)
    /\ \/ /\ simulation[p] = "running"
          /\ UNCHANGED ownDeliveredTransactions
       \/ /\ simulation[p] = "waiting"
          /\ NoticeAvailable(p)
          /\ ownDeliveredTransactions' = [ownDeliveredTransactions EXCEPT ![p] = @ - 1]
    /\ simulation' = [simulation EXCEPT ![p] = "waiting"]
    /\ SendBroadcastMessage(p)
    /\ UNCHANGED <<transactionCounter, deliveredTransactions, transactionsLog,
                   sent, started, serverVars, toSendOut>>

\* simulate otherwise: a counted loop, whose sleep is left out.
TimedBroadcast(p) ==
    /\ ~StressTest(p)
    /\ simulation[p] = "running"
    /\ toSendOut[p] > 0
    /\ toSendOut' = [toSendOut EXCEPT ![p] = @ - 1]
    /\ SendBroadcastMessage(p)
    /\ UNCHANGED <<vars, started, serverVars, simulation>>

\* Node.ProcessMessage, Broadcast; the random value is drawn here.
HandleBroadcast(p) ==
    /\ broadcastMessages[p] > 0
    /\ broadcastMessages' = [broadcastMessages EXCEPT ![p] = @ - 1]
    /\ \E v \in Value : Broadcast(p, v)
    /\ UNCHANGED <<started, serverVars, simulation, toSendOut>>

\* Node.ProcessMessage, a message of the protocol: none is handled by a node
\* that does not run yet.
HandleProtocolMessage(p, q) ==
    /\ p \in started
    /\ \E i \in Instance, v \in Value : HandleMessage(p, q, i, v)
    /\ UNCHANGED <<started, nodeVars, serverVars>>

SimNext ==
    \/ \E p \in Proc : Start(p) \/ ServerProcessMessage(p)
    \/ \E p \in Correct : \/ HandleSimulate(p)
                          \/ StressBroadcast(p)
                          \/ TimedBroadcast(p)
                          \/ HandleBroadcast(p)
    \/ \E p \in Correct, q \in Proc : HandleProtocolMessage(p, q)

SimSpec == SimInit /\ [][SimNext]_allVars

\* All processes are started, no message is lost, and neither the receive
\* loops nor the goroutines are starved.
SimFairness ==
    /\ \A p \in Proc : WF_allVars(Start(p)) /\ WF_allVars(ServerProcessMessage(p))
    /\ \A p \in Correct :
          /\ WF_allVars(HandleSimulate(p))
          /\ WF_allVars(StressBroadcast(p))
          /\ WF_allVars(TimedBroadcast(p))
          /\ WF_allVars(HandleBroadcast(p))
          /\ WF_allVars(\E q \in Correct : HandleProtocolMessage(p, q))

SimFairSpec == SimSpec /\ SimFairness

-----------------------------------------------------------------------------
(* Properties *)

SimTypeOK ==
    /\ TypeOK
    /\ started \subseteq Proc
    /\ connectedNodes \subseteq started
    /\ simulateMessages \subseteq Proc
    /\ simulation \in [Correct -> {"notStarted", "running", "waiting"}]
    /\ toSendOut \in [Correct -> 0 .. TransactionsToSendOut]
    /\ broadcastMessages \in [Correct -> Nat]

OwnDelivered(p) ==
    {i \in Instance : i.author = p /\ i.seqNumber < transactionCounter[p] /\ Delivered(p, i)}

\* The own transactions of p that are in its hands: asked for, broadcast and
\* not delivered to p itself, or delivered and not yet noticed by `simulate'.
InFlight(p) ==
    broadcastMessages[p] + transactionCounter[p] - Cardinality(OwnDelivered(p))
        + ownDeliveredTransactions[p]

\* A stress test keeps exactly one own transaction going per process, from its
\* first broadcast on: no delivery notice is lost or given twice, so the
\* channel of 200 notices can never block the receive loop.
OneInFlight ==
    \A p \in Correct :
        StressTest(p) =>
            InFlight(p) = IF simulation[p] = "waiting" THEN 1 ELSE 0

\* Nothing is broadcast while a node may not be listening yet: what was sent
\* to it then would be lost.
NoEarlyBroadcast == sent # {} => started = Proc

\* Every node gets its transactions through: those of its counted loop or, in a
\* stress test, as many as the bound admits.
AllDelivered ==
    \A p, q \in Correct, i \in Instance :
        i.author = p /\ (StressTest(p) \/ i.seqNumber < TransactionsToSendOut)
            => Delivered(q, i)

SimulationCompletes == <>[]AllDelivered
=============================================================================
