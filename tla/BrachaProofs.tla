---------------------------- MODULE BrachaProofs ----------------------------
(***************************************************************************)
(* Theorems about Bracha, for every number of processes, every F that      *)
(* bounds the faulty ones, every set of values and number of transactions. *)
(* Only the last two, Totality and Validity, need n > 3f.                  *)
(***************************************************************************)
EXTENDS Bracha, FiniteSetTheorems, TLAPS

\* The thresholds are numbers, and twice the ECHO quorum exceeds n + f.
LEMMA Thresholds ==
    /\ N \in Nat /\ F \in Nat
    /\ MessagesForEcho \in Nat
    /\ MessagesForReady = F + 1
    /\ MessagesForDelivery = 2 * F + 1
    /\ 2 * MessagesForEcho >= N + F + 1
<1>1. N \in Nat
  BY FS_CardinalityType, ProcAssumption DEF N
<1>2. QED
  BY <1>1, FaultyAssumption
  DEF MessagesForEcho, MessagesForReady, MessagesForDelivery

\* Sets of processes are finite and no larger than n.
LEMMA ProcSubset ==
    ASSUME NEW S \in SUBSET Proc
    PROVE  IsFiniteSet(S) /\ Cardinality(S) \in Nat /\ Cardinality(S) <= N
BY FS_Subset, FS_CardinalityType, ProcAssumption DEF N

LEMMA SubsetCardinality ==
    ASSUME NEW T \in SUBSET Proc, NEW S \in SUBSET T
    PROVE  Cardinality(S) <= Cardinality(T)
BY ProcSubset, FS_Subset

\* More than f processes cannot all be faulty.
LEMMA SomeoneCorrect ==
    ASSUME NEW S \in SUBSET Proc, Cardinality(S) > F
    PROVE  \E q \in S : q \in Correct
<1> SUFFICES ASSUME S \subseteq Faulty
             PROVE  FALSE
  BY DEF Correct
<1>1. Cardinality(S) <= Cardinality(Faulty)
  BY SubsetCardinality, FaultyAssumption
<1>2. Cardinality(S) \in Nat /\ Cardinality(Faulty) \in Nat
  BY ProcSubset, FaultyAssumption
<1>3. QED
  BY <1>1, <1>2, FaultyAssumption

\* Two ECHO quorums have a correct process in common.
LEMMA QuorumsIntersect ==
    ASSUME NEW A \in SUBSET Proc, Cardinality(A) >= MessagesForEcho,
           NEW B \in SUBSET Proc, Cardinality(B) >= MessagesForEcho
    PROVE  \E q \in A \cap B : q \in Correct
<1>1. Cardinality(A \cup B) = Cardinality(A) + Cardinality(B) - Cardinality(A \cap B)
  BY FS_Union, ProcSubset
<1>2. Cardinality(A \cup B) <= N /\ Cardinality(A \cup B) \in Nat
  BY ProcSubset
<1>3. /\ Cardinality(A) \in Nat /\ Cardinality(B) \in Nat
      /\ Cardinality(A \cap B) \in Nat /\ A \cap B \in SUBSET Proc
  BY ProcSubset
<1>4. Cardinality(A \cap B) > F
  BY <1>1, <1>2, <1>3, Thresholds
<1>5. QED
  BY <1>3, <1>4, SomeoneCorrect

\* One more sender that really voted raises the count of backed votes.
LEMMA CountOneMore ==
    ASSUME NEW R \in SUBSET Proc, NEW V \in SUBSET Proc, NEW W \in SUBSET Proc,
           V \subseteq W, NEW q \in W, q \notin R
    PROVE  Cardinality((R \cup {q}) \cap W) >= Cardinality(R \cap V) + 1
<1> DEFINE S == R \cap V
<1>1. S \in SUBSET Proc /\ q \notin S /\ S \cup {q} \in SUBSET Proc
  OBVIOUS
<1>2. Cardinality(S \cup {q}) = Cardinality(S) + 1
  BY <1>1, ProcSubset, FS_AddElement
<1>3. (R \cup {q}) \cap W \in SUBSET Proc /\ S \cup {q} \subseteq (R \cup {q}) \cap W
  OBVIOUS
<1>4. Cardinality(S \cup {q}) <= Cardinality((R \cup {q}) \cap W)
  BY <1>3, SubsetCardinality
<1>5. QED
  BY <1>2, <1>4

LEMMA FreshState == NewMessageState \in MessageState
BY DEF NewMessageState, MessageState

LEMMA MsgType ==
    ASSUME NEW p \in Correct, NEW s \in Stages, NEW i \in Instance, NEW v \in Value
    PROVE  Msg(p, s, i, v) \in Message
BY DEF Msg, Message

LEMMA AnnouncementsType ==
    ASSUME NEW p \in Correct, NEW i \in Instance, NEW v \in Value, NEW stage
    PROVE  Announcements(p, i, v, stage) \subseteq Message
BY MsgType DEF Announcements, Stages

LEMMA AddVoteType ==
    ASSUME NEW count \in [Value -> Nat], NEW v \in Value
    PROVE  /\ AddVote(count, v) \in [Value -> Nat]
           /\ \A w \in Value :
                AddVote(count, v)[w] = IF w = v THEN count[w] + 1 ELSE count[w]
BY DEF AddVote

\* Counting a vote, field by field.
LEMMA CountEchoFields ==
    ASSUME NEW ms \in MessageState, NEW q \in Proc, NEW v \in Value
    PROVE  LET c == CountEcho(ms, q, v)
           IN  /\ c \in MessageState
               /\ c.stage = ms.stage
               /\ c.receivedEcho = ms.receivedEcho \cup {q}
               /\ c.receivedReady = ms.receivedReady
               /\ c.echoCount = AddVote(ms.echoCount, v)
               /\ c.readyCount = ms.readyCount
<1>1. AddVote(ms.echoCount, v) \in [Value -> Nat]
  BY AddVoteType DEF MessageState
<1>2. QED
  BY <1>1 DEF CountEcho, MessageState

LEMMA CountReadyFields ==
    ASSUME NEW ms \in MessageState, NEW q \in Proc, NEW v \in Value
    PROVE  LET c == CountReady(ms, q, v)
           IN  /\ c \in MessageState
               /\ c.stage = ms.stage
               /\ c.receivedEcho = ms.receivedEcho
               /\ c.receivedReady = ms.receivedReady \cup {q}
               /\ c.echoCount = ms.echoCount
               /\ c.readyCount = AddVote(ms.readyCount, v)
<1>1. AddVote(ms.readyCount, v) \in [Value -> Nat]
  BY AddVoteType DEF MessageState
<1>2. QED
  BY <1>1 DEF CountReady, MessageState

LEMMA SentReadyFields ==
    ASSUME NEW ms \in MessageState
    PROVE  LET r == [ms EXCEPT !.stage = "SentReady"]
           IN  /\ r \in MessageState
               /\ r.stage = "SentReady"
               /\ r.receivedEcho = ms.receivedEcho
               /\ r.receivedReady = ms.receivedReady
               /\ r.echoCount = ms.echoCount
               /\ r.readyCount = ms.readyCount
BY DEF MessageState

-----------------------------------------------------------------------------
(* Type correctness *)

\* An instance with an author and an unused sequence number.
LEMMA OwnInstance ==
    ASSUME TypeOK, NEW p \in Correct, p \in Authors,
           transactionCounter[p] < MaxTransactions
    PROVE  [author |-> p, seqNumber |-> transactionCounter[p]] \in Instance
BY BoundAssumption DEF TypeOK, Instance

LEMMA MessageStateType ==
    ASSUME TypeOK, NEW p \in Correct, NEW i \in Instance
    PROVE  transactionsLog[p][i] \in MessageState
BY DEF TypeOK

\* A step replaces one message state; all other states stay as they are.
SetsState(p, i, ms) == transactionsLog' = [transactionsLog EXCEPT ![p][i] = ms]

OtherStatesKept(p, i) ==
    \A p2 \in Correct, i2 \in Instance :
        <<p2, i2>> # <<p, i>> => transactionsLog'[p2][i2] = transactionsLog[p2][i2]

LogTyped == transactionsLog \in [Correct -> [Instance -> MessageState]]

\* Replacing one message state keeps the log well typed.
LEMMA LogUpdateType ==
    ASSUME TypeOK, NEW p \in Correct, NEW i \in Instance, NEW ms \in MessageState,
           SetsState(p, i, ms)
    PROVE  /\ LogTyped'
           /\ transactionsLog'[p][i] = ms
           /\ OtherStatesKept(p, i)
<1> DEFINE row == [transactionsLog[p] EXCEPT ![i] = ms]
<1>1. row \in [Instance -> MessageState]
  BY DEF TypeOK
<1>2. transactionsLog' = [transactionsLog EXCEPT ![p] = row]
  BY Zenon DEF SetsState
<1>3. transactionsLog \in [Correct -> [Instance -> MessageState]]
  BY DEF TypeOK
<1> HIDE DEF row
<1>4. /\ LogTyped'
      /\ transactionsLog'[p] = row
      /\ \A p2 \in Correct : p2 # p => transactionsLog'[p2] = transactionsLog[p2]
  BY <1>1, <1>2, <1>3 DEF LogTyped
<1>5. row[i] = ms /\ \A i2 \in Instance : i2 # i => row[i2] = transactionsLog[p][i2]
  BY <1>3 DEF row
<1>6. QED
  BY <1>4, <1>5 DEF OtherStatesKept

\* deliver stores one value and keeps everything well typed.
LEMMA DeliverUpdate ==
    ASSUME TypeOK, NEW p \in Correct, NEW i \in Instance, NEW v \in Value,
           Deliver(p, i, v)
    PROVE  /\ deliveredTransactions' \in [Correct -> [Instance -> Value \cup {None}]]
           /\ deliveredTransactions'[p][i] = v
           /\ \A p2 \in Correct, i2 \in Instance :
                 <<p2, i2>> # <<p, i>> =>
                     deliveredTransactions'[p2][i2] = deliveredTransactions[p2][i2]
           /\ ownDeliveredTransactions' \in [Correct -> Nat]
           /\ SetsState(p, i, NewMessageState)
<1> DEFINE row == [deliveredTransactions[p] EXCEPT ![i] = v]
<1>1. deliveredTransactions \in [Correct -> [Instance -> Value \cup {None}]]
  BY DEF TypeOK
<1>2. row \in [Instance -> Value \cup {None}]
  BY <1>1
<1>3. deliveredTransactions' = [deliveredTransactions EXCEPT ![p] = row]
  BY Zenon DEF Deliver
<1> HIDE DEF row
<1>4. /\ deliveredTransactions' \in [Correct -> [Instance -> Value \cup {None}]]
      /\ deliveredTransactions'[p] = row
      /\ \A p2 \in Correct : p2 # p => deliveredTransactions'[p2] = deliveredTransactions[p2]
  BY <1>1, <1>2, <1>3
<1>5. row[i] = v /\ \A i2 \in Instance : i2 # i => row[i2] = deliveredTransactions[p][i2]
  BY <1>1 DEF row
<1>6. ownDeliveredTransactions' \in [Correct -> Nat]
  BY DEF TypeOK, Deliver, NotifyDelivery
<1>7. QED
  BY <1>4, <1>5, <1>6 DEF Deliver, SetsState

LEMMA TypeInit == Init => TypeOK
BY FreshState, BoundAssumption DEF Init, TypeOK

LEMMA TypeNext == TypeOK /\ [Next]_vars => TypeOK'
<1> SUFFICES ASSUME TypeOK, [Next]_vars
             PROVE  TypeOK'
  OBVIOUS
<1>1. ASSUME NEW p \in Correct, NEW v \in Value, Broadcast(p, v)
      PROVE  TypeOK'
  <2>1. sent' \subseteq Message
    BY <1>1, OwnInstance, MsgType DEF Broadcast, TypeOK, Stages
  <2>2. transactionCounter' \in [Correct -> 0 .. MaxTransactions]
    BY <1>1, BoundAssumption DEF Broadcast, TypeOK
  <2>3. QED
    BY <1>1, <2>1, <2>2 DEF Broadcast, TypeOK
<1>2. ASSUME NEW p \in Correct, NEW q \in Proc, NEW i \in Instance, NEW v \in Value,
             ReceiveInitial(p, q, i, v)
      PROVE  TypeOK'
  <2> DEFINE ms == [transactionsLog[p][i] EXCEPT !.stage = "SentEcho"]
  <2>1. ms \in MessageState
    BY MessageStateType DEF MessageState
  <2>2. SetsState(p, i, ms)
    BY <1>2, Zenon DEF ReceiveInitial, SetsState
  <2> HIDE DEF ms
  <2>3. LogTyped'
    BY <2>1, <2>2, LogUpdateType
  <2>4. sent' \subseteq Message
    BY <1>2, MsgType DEF ReceiveInitial, TypeOK, Stages
  <2>5. QED
    BY <1>2, <2>3, <2>4 DEF ReceiveInitial, TypeOK, LogTyped
<1>3. ASSUME NEW p \in Correct, NEW q \in Proc, NEW i \in Instance, NEW v \in Value,
             ReceiveEcho(p, q, i, v)
      PROVE  TypeOK'
  <2> DEFINE ms == CountEcho(transactionsLog[p][i], q, v)
             quorum == ms.echoCount[v] >= MessagesForEcho
             new == IF quorum THEN [ms EXCEPT !.stage = "SentReady"] ELSE ms
  <2>1. ms \in MessageState
    BY MessageStateType, CountEchoFields
  <2>2. new \in MessageState
    BY <2>1, SentReadyFields
  <2>3. SetsState(p, i, new)
    BY <1>3 DEF ReceiveEcho, SetsState
  <2>4. sent' \subseteq Message
    BY <1>3, AnnouncementsType DEF ReceiveEcho, TypeOK
  <2> HIDE DEF new
  <2>5. LogTyped'
    BY <2>2, <2>3, LogUpdateType
  <2>6. QED
    BY <1>3, <2>4, <2>5 DEF ReceiveEcho, TypeOK, LogTyped
<1>4. ASSUME NEW p \in Correct, NEW q \in Proc, NEW i \in Instance, NEW v \in Value,
             ReceiveReady(p, q, i, v)
      PROVE  TypeOK'
  <2> DEFINE ms == CountReady(transactionsLog[p][i], q, v)
             ready == ms.readyCount[v] >= MessagesForReady
             new == IF ready THEN [ms EXCEPT !.stage = "SentReady"] ELSE ms
  <2>1. ms \in MessageState
    BY MessageStateType, CountReadyFields
  <2>2. new \in MessageState
    BY <2>1, SentReadyFields
  <2>3. sent' \subseteq Message
    BY <1>4, AnnouncementsType DEF ReceiveReady, TypeOK
  <2>4. CASE Deliver(p, i, v)
    <3>1. /\ SetsState(p, i, NewMessageState)
          /\ deliveredTransactions' \in [Correct -> [Instance -> Value \cup {None}]]
          /\ ownDeliveredTransactions' \in [Correct -> Nat]
      BY <2>4, DeliverUpdate
    <3>2. LogTyped'
      BY <3>1, FreshState, LogUpdateType
    <3>3. transactionCounter' = transactionCounter
      BY <1>4 DEF ReceiveReady
    <3>4. QED
      BY <2>3, <3>1, <3>2, <3>3 DEF TypeOK, LogTyped
  <2>5. CASE /\ SetsState(p, i, new)
             /\ UNCHANGED <<deliveredTransactions, ownDeliveredTransactions>>
    <3> HIDE DEF new
    <3>1. LogTyped'
      BY <2>2, <2>5, LogUpdateType
    <3>2. QED
      BY <1>4, <2>3, <2>5, <3>1 DEF ReceiveReady, TypeOK, LogTyped
  <2>6. QED
    BY <1>4, <2>4, <2>5 DEF ReceiveReady, SetsState
<1>5. CASE UNCHANGED vars
  BY <1>5 DEF vars, TypeOK
<1>6. QED
  BY <1>1, <1>2, <1>3, <1>4, <1>5 DEF Next, HandleMessage

\* Every variable keeps its type.
THEOREM TypeCorrect == Spec => []TypeOK
BY TypeInit, TypeNext, PTL DEF Spec

-----------------------------------------------------------------------------
(* What a step does to the network and to the instance it works on *)

LEMMA VotersType ==
    ASSUME NEW s, NEW i, NEW v
    PROVE  /\ Voters(s, i, v) \in SUBSET Proc
           /\ Cardinality(Voters(s, i, v)) \in Nat
BY ProcSubset DEF Voters

\* The handlers send at most an ECHO and a READY of the value received, each
\* only from the stages that allow it, and touch one instance of one process.
LEMMA HandlerShape ==
    ASSUME TypeOK, NEW p \in Correct, NEW q \in Proc, NEW i \in Instance,
           NEW v \in Value, HandleMessage(p, q, i, v)
    PROVE  LET stage == transactionsLog[p][i].stage
               new   == transactionsLog'[p][i].stage
           IN  /\ ~Delivered(p, i)
               /\ transactionCounter' = transactionCounter
               /\ sent \subseteq sent'
               /\ sent' \subseteq sent \cup {Msg(p, "ECHO", i, v), Msg(p, "READY", i, v)}
               /\ stage # "Init" => sent' \subseteq sent \cup {Msg(p, "READY", i, v)}
               /\ stage = "SentReady" => sent' = sent
               /\ \A p2 \in Correct, i2 \in Instance :
                     <<p2, i2>> # <<p, i>> =>
                       /\ transactionsLog'[p2][i2] = transactionsLog[p2][i2]
                       /\ deliveredTransactions'[p2][i2] = deliveredTransactions[p2][i2]
               /\ deliveredTransactions'[p][i] \in {None, v}
               /\ deliveredTransactions'[p][i] = None =>
                     /\ new = "Init" => stage = "Init" /\ sent' = sent
                     /\ new = "SentReady" =>
                           stage = "SentReady" \/ Msg(p, "READY", i, v) \in sent'
                     /\ new # "SentReady" =>
                           /\ stage # "SentReady"
                           /\ sent' \subseteq sent \cup {Msg(p, "ECHO", i, v)}
<1> DEFINE old == transactionsLog[p][i]
<1> USE ValueAssumption
<1>1. old \in MessageState
  BY MessageStateType
<1>2. CASE ReceiveInitial(p, q, i, v)
  <2> DEFINE ms == [old EXCEPT !.stage = "SentEcho"]
  <2>1. ms \in MessageState /\ ms.stage = "SentEcho"
    BY <1>1 DEF MessageState
  <2>2. SetsState(p, i, ms)
    BY <1>2, Zenon DEF ReceiveInitial, SetsState
  <2> HIDE DEF ms
  <2>3. /\ transactionsLog'[p][i] = ms
        /\ OtherStatesKept(p, i)
    BY <2>1, <2>2, LogUpdateType
  <2>4. QED
    BY <1>2, <2>1, <2>3 DEF ReceiveInitial, Accepts, Delivered, OtherStatesKept
<1>3. CASE ReceiveEcho(p, q, i, v)
  <2> DEFINE ms == CountEcho(old, q, v)
             quorum == ms.echoCount[v] >= MessagesForEcho
             new == IF quorum THEN [ms EXCEPT !.stage = "SentReady"] ELSE ms
  <2>1. ms \in MessageState /\ ms.stage = old.stage
    BY <1>1, CountEchoFields
  <2>2. new \in MessageState /\ new.stage = IF quorum THEN "SentReady" ELSE old.stage
    BY <2>1, SentReadyFields
  <2>3. SetsState(p, i, new)
    BY <1>3 DEF ReceiveEcho, SetsState
  <2>4. sent' = IF quorum THEN sent \cup Announcements(p, i, v, old.stage) ELSE sent
    BY <1>3, <2>1 DEF ReceiveEcho
  <2>5. old.stage \in {"Init", "SentEcho"}
    BY <1>1, <1>3 DEF ReceiveEcho, Accepts, MessageState
  <2> HIDE DEF new, ms, quorum
  <2>6. /\ transactionsLog'[p][i] = new
        /\ OtherStatesKept(p, i)
    BY <2>2, <2>3, LogUpdateType
  <2>7. /\ ~Delivered(p, i)
        /\ UNCHANGED <<transactionCounter, deliveredTransactions>>
    BY <1>3 DEF ReceiveEcho, Accepts
  <2>8. CASE quorum
    BY <2>2, <2>4, <2>5, <2>6, <2>7, <2>8 DEF Delivered, Announcements, OtherStatesKept
  <2>9. CASE ~quorum
    BY <2>2, <2>4, <2>5, <2>6, <2>7, <2>9 DEF Delivered, OtherStatesKept
  <2>10. QED
    BY <2>8, <2>9
<1>4. CASE ReceiveReady(p, q, i, v)
  <2> DEFINE ms == CountReady(old, q, v)
             ready == ms.readyCount[v] >= MessagesForReady
             new == IF ready THEN [ms EXCEPT !.stage = "SentReady"] ELSE ms
  <2>1. ms \in MessageState /\ ms.stage = old.stage
    BY <1>1, CountReadyFields
  <2>2. new \in MessageState /\ new.stage = IF ready THEN "SentReady" ELSE old.stage
    BY <2>1, SentReadyFields
  <2>3. sent' = IF ready THEN sent \cup Announcements(p, i, v, old.stage) ELSE sent
    BY <1>4, <2>1 DEF ReceiveReady
  <2>4. old.stage \in {"Init", "SentEcho", "SentReady"}
    BY <1>1 DEF MessageState
  <2>5. CASE Deliver(p, i, v)
    <3>1. /\ deliveredTransactions'[p][i] = v
          /\ \A p2 \in Correct, i2 \in Instance :
                <<p2, i2>> # <<p, i>> =>
                  /\ transactionsLog'[p2][i2] = transactionsLog[p2][i2]
                  /\ deliveredTransactions'[p2][i2] = deliveredTransactions[p2][i2]
      BY <2>5, DeliverUpdate, FreshState, LogUpdateType DEF OtherStatesKept
    <3> HIDE DEF new, ms, ready
    <3>2. QED
      BY <1>4, <2>3, <2>4, <3>1 DEF ReceiveReady, Accepts, Delivered, Announcements
  <2>6. CASE /\ SetsState(p, i, new)
             /\ UNCHANGED <<deliveredTransactions, ownDeliveredTransactions>>
    <3> HIDE DEF new, ms, ready
    <3>1. /\ transactionsLog'[p][i] = new
          /\ OtherStatesKept(p, i)
      BY <2>2, <2>6, LogUpdateType
    <3>2. QED
      BY <1>4, <2>2, <2>3, <2>4, <2>6, <3>1
      DEF ReceiveReady, Accepts, Delivered, Announcements, OtherStatesKept
  <2>7. QED
    BY <1>4, <2>5, <2>6 DEF ReceiveReady, SetsState
<1>5. QED
  BY <1>2, <1>3, <1>4 DEF HandleMessage

\* The network forgets nothing, so votes are never withdrawn.
LEMMA VotesGrow ==
    ASSUME TypeOK, [Next]_vars
    PROVE  /\ sent \subseteq sent'
           /\ \A s, i, v :
                 /\ Voters(s, i, v) \subseteq Voters(s, i, v)'
                 /\ Cardinality(Voters(s, i, v)) <= Cardinality(Voters(s, i, v)')
                 /\ Voters(s, i, v)' \in SUBSET Proc
                 /\ Cardinality(Voters(s, i, v)') \in Nat
<1>1. sent \subseteq sent'
  <2>1. ASSUME NEW p \in Correct, NEW v \in Value, Broadcast(p, v)
        PROVE  sent \subseteq sent'
    BY <2>1 DEF Broadcast
  <2>2. ASSUME NEW p \in Correct, NEW q \in Proc, NEW i \in Instance,
               NEW v \in Value, HandleMessage(p, q, i, v)
        PROVE  sent \subseteq sent'
    BY <2>2, HandlerShape
  <2>3. QED
    BY <2>1, <2>2 DEF Next, vars
<1>2. ASSUME NEW s, NEW i, NEW v
      PROVE  /\ Voters(s, i, v) \subseteq Voters(s, i, v)'
             /\ Voters(s, i, v)' \in SUBSET Proc
  BY <1>1 DEF Voters, Receivable
<1>3. QED
  BY <1>1, <1>2, SubsetCardinality, ProcSubset

-----------------------------------------------------------------------------
(* Counted votes and what a handler concludes from them *)

LEMMA BackedByVoters ==
    ASSUME NEW ms \in MessageState, NEW i, Backed(ms, i), NEW v \in Value
    PROVE  /\ ms.echoCount[v] <= Cardinality(Voters("ECHO", i, v))
           /\ ms.readyCount[v] <= Cardinality(Voters("READY", i, v))
<1>1. /\ ms.receivedEcho \cap Voters("ECHO", i, v) \in SUBSET Voters("ECHO", i, v)
      /\ ms.receivedReady \cap Voters("READY", i, v) \in SUBSET Voters("READY", i, v)
      /\ Voters("ECHO", i, v) \in SUBSET Proc /\ Voters("READY", i, v) \in SUBSET Proc
  BY VotersType
<1>2. /\ ms.echoCount[v] \in Nat /\ ms.readyCount[v] \in Nat
      /\ Cardinality(ms.receivedEcho \cap Voters("ECHO", i, v)) \in Nat
      /\ Cardinality(ms.receivedReady \cap Voters("READY", i, v)) \in Nat
  BY <1>1, ProcSubset DEF MessageState
<1>3. /\ ms.echoCount[v] <= Cardinality(ms.receivedEcho \cap Voters("ECHO", i, v))
      /\ ms.readyCount[v] <= Cardinality(ms.receivedReady \cap Voters("READY", i, v))
  BY Zenon DEF Backed
<1>4. /\ Cardinality(ms.receivedEcho \cap Voters("ECHO", i, v))
            <= Cardinality(Voters("ECHO", i, v))
      /\ Cardinality(ms.receivedReady \cap Voters("READY", i, v))
            <= Cardinality(Voters("READY", i, v))
  BY <1>1, SubsetCardinality
<1>5. QED
  BY <1>2, <1>3, <1>4, VotersType

LEMMA BackedCountEcho ==
    ASSUME NEW ms \in MessageState, NEW i, Backed(ms, i), NEW v \in Value,
           NEW q \in Voters("ECHO", i, v), q \notin ms.receivedEcho
    PROVE  Backed(CountEcho(ms, q, v), i)
<1> DEFINE c == CountEcho(ms, q, v)
<1>1. /\ q \in Proc
      /\ c.receivedEcho = ms.receivedEcho \cup {q}
      /\ c.receivedReady = ms.receivedReady
      /\ c.echoCount = AddVote(ms.echoCount, v)
      /\ c.readyCount = ms.readyCount
  BY CountEchoFields, VotersType
<1> HIDE DEF c
<1>2. ASSUME NEW w \in Value
      PROVE  c.echoCount[w] <= Cardinality(c.receivedEcho \cap Voters("ECHO", i, w))
  <2> DEFINE W == Voters("ECHO", i, w)
             R == ms.receivedEcho
  <2>1. /\ W \in SUBSET Proc /\ R \in SUBSET Proc
        /\ R \cap W \in SUBSET Proc /\ (R \cup {q}) \cap W \in SUBSET Proc
    BY <1>1, VotersType DEF MessageState
  <2>2. /\ ms.echoCount \in [Value -> Nat]
        /\ ms.echoCount[w] <= Cardinality(R \cap W)
        /\ c.echoCount[w] = IF w = v THEN ms.echoCount[w] + 1 ELSE ms.echoCount[w]
    <3>1. ms.echoCount \in [Value -> Nat]
      BY DEF MessageState
    <3>2. ms.echoCount[w] <= Cardinality(R \cap W)
      BY Zenon DEF Backed
    <3>3. QED
      BY <1>1, <3>1, <3>2, AddVoteType
  <2>3. w = v => Cardinality((R \cup {q}) \cap W) >= Cardinality(R \cap W) + 1
    BY <2>1, CountOneMore
  <2>4. Cardinality((R \cup {q}) \cap W) >= Cardinality(R \cap W)
    BY <2>1, SubsetCardinality
  <2>5. Cardinality((R \cup {q}) \cap W) \in Nat /\ Cardinality(R \cap W) \in Nat
    BY <2>1, ProcSubset
  <2> HIDE DEF W, R
  <2>6. c.echoCount[w] <= Cardinality((R \cup {q}) \cap W)
    BY <2>2, <2>3, <2>4, <2>5
  <2>7. QED
    BY <1>1, <2>6 DEF W, R
<1>3. QED
  BY <1>1, <1>2 DEF Backed, c

LEMMA BackedCountReady ==
    ASSUME NEW ms \in MessageState, NEW i, Backed(ms, i), NEW v \in Value,
           NEW q \in Voters("READY", i, v), q \notin ms.receivedReady
    PROVE  Backed(CountReady(ms, q, v), i)
<1> DEFINE c == CountReady(ms, q, v)
<1>1. /\ q \in Proc
      /\ c.receivedEcho = ms.receivedEcho
      /\ c.receivedReady = ms.receivedReady \cup {q}
      /\ c.echoCount = ms.echoCount
      /\ c.readyCount = AddVote(ms.readyCount, v)
  BY CountReadyFields, VotersType
<1> HIDE DEF c
<1>2. ASSUME NEW w \in Value
      PROVE  c.readyCount[w] <= Cardinality(c.receivedReady \cap Voters("READY", i, w))
  <2> DEFINE W == Voters("READY", i, w)
             R == ms.receivedReady
  <2>1. /\ W \in SUBSET Proc /\ R \in SUBSET Proc
        /\ R \cap W \in SUBSET Proc /\ (R \cup {q}) \cap W \in SUBSET Proc
    BY <1>1, VotersType DEF MessageState
  <2>2. /\ ms.readyCount \in [Value -> Nat]
        /\ ms.readyCount[w] <= Cardinality(R \cap W)
        /\ c.readyCount[w] = IF w = v THEN ms.readyCount[w] + 1 ELSE ms.readyCount[w]
    <3>1. ms.readyCount \in [Value -> Nat]
      BY DEF MessageState
    <3>2. ms.readyCount[w] <= Cardinality(R \cap W)
      BY Zenon DEF Backed
    <3>3. QED
      BY <1>1, <3>1, <3>2, AddVoteType
  <2>3. w = v => Cardinality((R \cup {q}) \cap W) >= Cardinality(R \cap W) + 1
    BY <2>1, CountOneMore
  <2>4. Cardinality((R \cup {q}) \cap W) >= Cardinality(R \cap W)
    BY <2>1, SubsetCardinality
  <2>5. Cardinality((R \cup {q}) \cap W) \in Nat /\ Cardinality(R \cap W) \in Nat
    BY <2>1, ProcSubset
  <2> HIDE DEF W, R
  <2>6. c.readyCount[w] <= Cardinality((R \cup {q}) \cap W)
    BY <2>2, <2>3, <2>4, <2>5
  <2>7. QED
    BY <1>1, <2>6 DEF W, R
<1>3. QED
  BY <1>1, <1>2 DEF Backed, c

LEMMA BackedFresh == ASSUME NEW i PROVE Backed(NewMessageState, i)
<1>1. ASSUME NEW v \in Value
      PROVE  /\ Cardinality({} \cap Voters("ECHO", i, v)) \in Nat
             /\ Cardinality({} \cap Voters("READY", i, v)) \in Nat
  BY ProcSubset
<1>2. QED
  BY <1>1 DEF Backed, NewMessageState

\* A received message comes from a process that may have voted so.
LEMMA SenderVotes ==
    ASSUME NEW q \in Proc, NEW s, NEW i, NEW v, Receivable(q, s, i, v)
    PROVE  q \in Voters(s, i, v)
BY DEF Voters

\* What the handler of p has learnt when it sends or delivers something.
LEMMA HandlerReasons ==
    ASSUME TypeOK, VotesBacked, NEW p \in Correct, NEW q \in Proc,
           NEW i \in Instance, NEW v \in Value, HandleMessage(p, q, i, v)
    PROVE  LET echoes  == Cardinality(Voters("ECHO", i, v))
               readies == Cardinality(Voters("READY", i, v))
           IN  /\ Backed(transactionsLog'[p][i], i)
               /\ Msg(p, "READY", i, v) \in sent' \ sent =>
                     echoes >= MessagesForEcho \/ readies >= MessagesForReady
               /\ sent' # sent =>
                     \/ Receivable(q, "INITIAL", i, v)
                     \/ echoes >= MessagesForEcho
                     \/ readies >= MessagesForReady
               /\ Delivered(p, i)' =>
                     /\ readies >= MessagesForDelivery
                     /\ transactionsLog[p][i].stage = "SentReady"
                           \/ Msg(p, "READY", i, v) \in sent'
<1> DEFINE old == transactionsLog[p][i]
<1>1. old \in MessageState /\ Backed(old, i)
  BY MessageStateType DEF VotesBacked
<1>2. CASE ReceiveInitial(p, q, i, v)
  <2> DEFINE ms == [old EXCEPT !.stage = "SentEcho"]
  <2>1. /\ ms \in MessageState
        /\ ms.receivedEcho = old.receivedEcho /\ ms.receivedReady = old.receivedReady
        /\ ms.echoCount = old.echoCount /\ ms.readyCount = old.readyCount
    BY <1>1 DEF MessageState
  <2>2. SetsState(p, i, ms)
    BY <1>2, Zenon DEF ReceiveInitial, SetsState
  <2> HIDE DEF ms
  <2>3. transactionsLog'[p][i] = ms
    BY <2>1, <2>2, LogUpdateType
  <2>4. Backed(ms, i)
    BY <1>1, <2>1 DEF Backed
  <2>5. Msg(p, "READY", i, v) \notin sent' \ sent
    BY <1>2 DEF ReceiveInitial, Msg
  <2>6. ~Delivered(p, i)' /\ Receivable(q, "INITIAL", i, v)
    BY <1>2 DEF ReceiveInitial, Accepts, Delivered
  <2>7. QED
    BY <2>3, <2>4, <2>5, <2>6
<1>3. CASE ReceiveEcho(p, q, i, v)
  <2> DEFINE ms == CountEcho(old, q, v)
             quorum == ms.echoCount[v] >= MessagesForEcho
             new == IF quorum THEN [ms EXCEPT !.stage = "SentReady"] ELSE ms
  <2>1. ms \in MessageState
    BY <1>1, CountEchoFields
  <2>2. Backed(ms, i)
    BY <1>1, <1>3, BackedCountEcho, SenderVotes DEF ReceiveEcho, Accepts, FirstVote
  <2>3. new \in MessageState /\ Backed(new, i)
    BY <2>1, <2>2, SentReadyFields DEF Backed
  <2>4. ms.echoCount[v] <= Cardinality(Voters("ECHO", i, v)) /\ ms.echoCount[v] \in Nat
    BY <2>1, <2>2, BackedByVoters DEF MessageState
  <2>5. SetsState(p, i, new)
    BY <1>3 DEF ReceiveEcho, SetsState
  <2>6. quorum \/ sent' = sent
    BY <1>3 DEF ReceiveEcho
  <2>7. ~Delivered(p, i)'
    BY <1>3 DEF ReceiveEcho, Accepts, Delivered
  <2> HIDE DEF new
  <2>8. transactionsLog'[p][i] = new
    BY <2>3, <2>5, LogUpdateType
  <2>9. Cardinality(Voters("ECHO", i, v)) >= MessagesForEcho \/ sent' = sent
    BY <2>4, <2>6, VotersType, Thresholds
  <2>10. QED
    BY <2>3, <2>7, <2>8, <2>9
<1>4. CASE ReceiveReady(p, q, i, v)
  <2> DEFINE ms == CountReady(old, q, v)
             ready == ms.readyCount[v] >= MessagesForReady
             new == IF ready THEN [ms EXCEPT !.stage = "SentReady"] ELSE ms
             readies == Cardinality(Voters("READY", i, v))
  <2>1. ms \in MessageState /\ ms.stage = old.stage
    BY <1>1, CountReadyFields
  <2>2. Backed(ms, i)
    BY <1>1, <1>4, BackedCountReady, SenderVotes DEF ReceiveReady, Accepts, FirstVote
  <2>3. new \in MessageState /\ Backed(new, i)
    BY <2>1, <2>2, SentReadyFields DEF Backed
  <2>4. ms.readyCount[v] <= readies /\ ms.readyCount[v] \in Nat /\ readies \in Nat
    BY <2>1, <2>2, BackedByVoters, VotersType DEF MessageState
  <2>5. sent' = IF ready THEN sent \cup Announcements(p, i, v, old.stage) ELSE sent
    BY <1>4, <2>1 DEF ReceiveReady
  <2>6. ready \/ sent' = sent
    BY <2>5
  <2>7. readies >= MessagesForReady \/ sent' = sent
    BY <2>4, <2>6, Thresholds
  <2>8. CASE /\ ms.readyCount[v] >= MessagesForDelivery
             /\ Deliver(p, i, v)
    <3>1. readies >= MessagesForDelivery /\ ready
      BY <2>4, <2>8, Thresholds
    <3>2. old.stage = "SentReady" \/ Msg(p, "READY", i, v) \in sent'
      BY <1>1, <2>5, <3>1 DEF Announcements, MessageState
    <3>3. transactionsLog'[p][i] = NewMessageState
      BY <2>8, DeliverUpdate, FreshState, LogUpdateType
    <3>4. QED
      BY <2>7, <3>1, <3>2, <3>3, BackedFresh
  <2>9. CASE /\ SetsState(p, i, new)
             /\ UNCHANGED <<deliveredTransactions, ownDeliveredTransactions>>
    <3>1. ~Delivered(p, i)'
      BY <1>4, <2>9 DEF ReceiveReady, Accepts, Delivered
    <3> HIDE DEF new
    <3>2. transactionsLog'[p][i] = new
      BY <2>3, <2>9, LogUpdateType
    <3>3. QED
      BY <2>3, <2>7, <3>1, <3>2
  <2>10. QED
    BY <1>4, <2>8, <2>9 DEF ReceiveReady, SetsState
<1>5. QED
  BY <1>2, <1>3, <1>4 DEF HandleMessage

-----------------------------------------------------------------------------
(* Consequences of the invariant in one state *)

\* f+1 READY votes include a correct process, hence an ECHO quorum.
LEMMA ReadiesImplyEchoes ==
    ASSUME ReadyJustified, NEW i, NEW v,
           Cardinality(Voters("READY", i, v)) >= MessagesForReady
    PROVE  /\ \E q \in Correct : Msg(q, "READY", i, v) \in sent
           /\ Cardinality(Voters("ECHO", i, v)) >= MessagesForEcho
<1>1. Cardinality(Voters("READY", i, v)) > F
  BY Thresholds, VotersType
<1>2. PICK q \in Voters("READY", i, v) : q \in Correct
  BY <1>1, VotersType, SomeoneCorrect
<1>3. Msg(q, "READY", i, v) \in sent
  BY <1>2 DEF Voters, Receivable, Correct
<1>4. QED
  BY <1>2, <1>3 DEF ReadyJustified, Msg

\* An ECHO quorum includes a correct process.
LEMMA EchoQuorumCorrect ==
    ASSUME NEW i, NEW v, Cardinality(Voters("ECHO", i, v)) >= MessagesForEcho
    PROVE  \E q \in Correct : Msg(q, "ECHO", i, v) \in sent
<1>1. PICK q \in Voters("ECHO", i, v) : q \in Correct
  BY QuorumsIntersect, VotersType
<1>2. QED
  BY <1>1 DEF Voters, Receivable, Correct

\* Two READY values would need two ECHO quorums, which share a correct process.
LEMMA ReadyValuesAgree ==
    ASSUME OneEcho, ReadyJustified
    PROVE  OneReadyValue
<1> SUFFICES ASSUME NEW m1 \in sent, NEW m2 \in sent,
                    m1.stage = "READY", m2.stage = "READY", m1.inst = m2.inst
             PROVE  m1.value = m2.value
  BY DEF OneReadyValue
<1> DEFINE A == Voters("ECHO", m1.inst, m1.value)
           B == Voters("ECHO", m2.inst, m2.value)
<1>1. Cardinality(A) >= MessagesForEcho /\ Cardinality(B) >= MessagesForEcho
  BY DEF ReadyJustified
<1>2. PICK q \in A \cap B : q \in Correct
  BY <1>1, VotersType, QuorumsIntersect
<1>3. /\ Msg(q, "ECHO", m1.inst, m1.value) \in sent
      /\ Msg(q, "ECHO", m2.inst, m2.value) \in sent
  BY <1>2 DEF Voters, Receivable, Correct
<1>4. QED
  BY <1>3 DEF OneEcho, Msg

\* What is delivered somewhere was made READY by a correct process.
LEMMA DeliveredWasReady ==
    ASSUME ReadyJustified, DeliveryJustified, NEW p \in Correct, NEW i \in Instance,
           Delivered(p, i)
    PROVE  LET v == deliveredTransactions[p][i]
           IN  /\ \E q \in Correct : Msg(q, "READY", i, v) \in sent
               /\ Cardinality(Voters("ECHO", i, v)) >= MessagesForEcho
<1> DEFINE v == deliveredTransactions[p][i]
<1>1. Cardinality(Voters("READY", i, v)) >= MessagesForReady
  BY Thresholds, VotersType DEF DeliveryJustified
<1>2. QED
  BY <1>1, ReadiesImplyEchoes

LEMMA InvImpliesOneReady == QuorumInv => OneReadyValue
BY ReadyValuesAgree DEF QuorumInv

LEMMA InvImpliesAgreement == QuorumInv => Agreement
<1> SUFFICES ASSUME QuorumInv, NEW p \in Correct, NEW q \in Correct, NEW i \in Instance,
                    Delivered(p, i), Delivered(q, i)
             PROVE  deliveredTransactions[p][i] = deliveredTransactions[q][i]
  BY DEF Agreement
<1>1. PICK p1 \in Correct : Msg(p1, "READY", i, deliveredTransactions[p][i]) \in sent
  BY DeliveredWasReady DEF QuorumInv
<1>2. PICK q1 \in Correct : Msg(q1, "READY", i, deliveredTransactions[q][i]) \in sent
  BY DeliveredWasReady DEF QuorumInv
<1>3. OneReadyValue
  BY ReadyValuesAgree DEF QuorumInv
<1>4. QED
  BY <1>1, <1>2, <1>3 DEF OneReadyValue, Msg

-----------------------------------------------------------------------------
(* The invariant is inductive *)

LEMMA BackedGrows ==
    ASSUME TypeOK, [Next]_vars, NEW i
    PROVE  \A ms \in MessageState : Backed(ms, i) => Backed(ms, i)'
<1> SUFFICES ASSUME NEW ms \in MessageState, Backed(ms, i), NEW v \in Value
             PROVE  /\ ms.echoCount[v] <= Cardinality(ms.receivedEcho \cap Voters("ECHO", i, v)')
                    /\ ms.readyCount[v] <= Cardinality(ms.receivedReady \cap Voters("READY", i, v)')
  BY Zenon DEF Backed
<1> DEFINE E  == ms.receivedEcho \cap Voters("ECHO", i, v)
           E2 == ms.receivedEcho \cap Voters("ECHO", i, v)'
           R  == ms.receivedReady \cap Voters("READY", i, v)
           R2 == ms.receivedReady \cap Voters("READY", i, v)'
<1>1. /\ E2 \in SUBSET Proc /\ E \in SUBSET E2
      /\ R2 \in SUBSET Proc /\ R \in SUBSET R2
  BY VotesGrow DEF MessageState
<1>2. Cardinality(E) <= Cardinality(E2) /\ Cardinality(R) <= Cardinality(R2)
  BY <1>1, SubsetCardinality
<1>3. /\ Cardinality(E) \in Nat /\ Cardinality(E2) \in Nat
      /\ Cardinality(R) \in Nat /\ Cardinality(R2) \in Nat
  BY <1>1, ProcSubset
<1>4. ms.echoCount[v] <= Cardinality(E) /\ ms.readyCount[v] <= Cardinality(R)
  BY Zenon DEF Backed
<1>5. ms.echoCount[v] \in Nat /\ ms.readyCount[v] \in Nat
  BY DEF MessageState
<1> HIDE DEF E, E2, R, R2
<1>6. ms.echoCount[v] <= Cardinality(E2) /\ ms.readyCount[v] <= Cardinality(R2)
  BY <1>2, <1>3, <1>4, <1>5
<1>7. QED
  BY <1>6 DEF E2, R2

LEMMA InvInit == Init => QuorumInv
<1> SUFFICES ASSUME Init
             PROVE  QuorumInv
  OBVIOUS
<1>1. TypeOK
  BY TypeInit
<1>2. VotesBacked
  BY BackedFresh DEF Init, VotesBacked
<1>3. \A p \in Correct, i \in Instance :
        ~Delivered(p, i) /\ transactionsLog[p][i].stage = "Init"
  BY DEF Init, Delivered, NewMessageState
<1>4. sent = {}
  BY DEF Init
<1>5. QED
  BY <1>1, <1>2, <1>3, <1>4
  DEF QuorumInv, OneEcho, StageRecordsSent, ReadyJustified, DeliveryJustified,
      DeliveredImpliesOwnReady, InitialOnce, EchoAuthentic

\* Broadcast adds an INITIAL message for an instance not used before.
LEMMA InvBroadcast ==
    ASSUME QuorumInv, [Next]_vars, NEW p \in Correct, NEW v \in Value, Broadcast(p, v)
    PROVE  QuorumInv'
<1> DEFINE i == [author |-> p, seqNumber |-> transactionCounter[p]]
           new == Msg(p, "INITIAL", i, v)
<1>1. /\ TypeOK /\ VotesBacked /\ OneEcho /\ StageRecordsSent /\ ReadyJustified
      /\ DeliveryJustified /\ DeliveredImpliesOwnReady /\ InitialOnce /\ EchoAuthentic
  BY DEF QuorumInv
<1>2. TypeOK'
  BY <1>1, TypeNext
<1>3. /\ sent' = sent \cup {new}
      /\ transactionsLog' = transactionsLog
      /\ deliveredTransactions' = deliveredTransactions
      /\ transactionCounter' = [transactionCounter EXCEPT ![p] = @ + 1]
  BY DEF Broadcast
<1>4. new.stage = "INITIAL" /\ new.from = p /\ new.inst = i /\ new.value = v
  BY DEF Msg
<1>5. transactionCounter \in [Correct -> Int]
  BY <1>1 DEF TypeOK
<1> HIDE DEF new
<1>6. VotesBacked'
  BY <1>1, <1>3, BackedGrows, MessageStateType DEF VotesBacked
<1>7. OneEcho'
  BY <1>1, <1>3, <1>4 DEF OneEcho
<1>8. StageRecordsSent'
  BY <1>1, <1>3, <1>4 DEF StageRecordsSent, Delivered, Msg
<1>9. ReadyJustified'
  <2> SUFFICES ASSUME NEW m \in sent', m.stage = "READY"
               PROVE  Cardinality(Voters("ECHO", m.inst, m.value)') >= MessagesForEcho
    BY DEF ReadyJustified
  <2>1. m \in sent
    BY <1>3, <1>4
  <2>2. Cardinality(Voters("ECHO", m.inst, m.value)) >= MessagesForEcho
    BY <1>1, <2>1 DEF ReadyJustified
  <2>3. QED
    BY <1>1, <2>2, VotesGrow, VotersType, Thresholds
<1>10. DeliveryJustified'
  <2> SUFFICES ASSUME NEW p2 \in Correct, NEW i2 \in Instance, Delivered(p2, i2)
               PROVE  Cardinality(Voters("READY", i2, deliveredTransactions[p2][i2])')
                        >= MessagesForDelivery
    BY <1>3 DEF DeliveryJustified, Delivered
  <2>1. Cardinality(Voters("READY", i2, deliveredTransactions[p2][i2]))
          >= MessagesForDelivery
    BY <1>1 DEF DeliveryJustified
  <2>2. QED
    BY <1>1, <2>1, <1>3, VotesGrow, VotersType, Thresholds
<1>11. DeliveredImpliesOwnReady'
  BY <1>1, <1>3 DEF DeliveredImpliesOwnReady, Delivered
<1>12. InitialOnce'
  <2>1. \A m \in sent : m.stage = "INITIAL" => m.inst # i
    BY <1>1, <1>5 DEF InitialOnce
  <2>2. ASSUME NEW m \in sent', m.stage = "INITIAL"
        PROVE  m.inst.author = m.from /\ m.inst.seqNumber < transactionCounter'[m.from]
    <3>1. CASE m = new
      BY <1>3, <1>4, <1>5, <3>1
    <3>2. CASE m \in sent
      <4>1. m.from \in Correct
        BY <1>1, <3>2 DEF TypeOK, Message
      <4>2. m.inst.seqNumber \in Int
        BY <1>1, <3>2 DEF TypeOK, Message, Instance
      <4>3. m.inst.author = m.from /\ m.inst.seqNumber < transactionCounter[m.from]
        BY <1>1, <2>2, <3>2 DEF InitialOnce
      <4>4. QED
        BY <1>3, <1>5, <4>1, <4>2, <4>3
    <3>3. QED
      BY <1>3, <3>1, <3>2
  <2>3. ASSUME NEW m1 \in sent', NEW m2 \in sent', m1.stage = "INITIAL",
               m2.stage = "INITIAL", m2.inst = m1.inst
        PROVE  m2.value = m1.value
    BY <1>1, <1>3, <1>4, <2>1, <2>3 DEF InitialOnce
  <2>4. QED
    BY <2>2, <2>3 DEF InitialOnce
<1>13. EchoAuthentic'
  BY <1>1, <1>3, <1>4 DEF EchoAuthentic, Authentic
<1>14. QED
  BY <1>2, <1>6, <1>7, <1>8, <1>9, <1>10, <1>11, <1>12, <1>13 DEF QuorumInv

\* A handler sends what its stage and its counters justify.
LEMMA InvHandler ==
    ASSUME QuorumInv, [Next]_vars, NEW p \in Correct, NEW q \in Proc,
           NEW i \in Instance, NEW v \in Value, HandleMessage(p, q, i, v)
    PROVE  QuorumInv'
<1> DEFINE echo == Msg(p, "ECHO", i, v)
           ready == Msg(p, "READY", i, v)
           old == transactionsLog[p][i]
           new == transactionsLog'[p][i]
<1>1. /\ TypeOK /\ VotesBacked /\ OneEcho /\ StageRecordsSent /\ ReadyJustified
      /\ DeliveryJustified /\ DeliveredImpliesOwnReady /\ InitialOnce /\ EchoAuthentic
  BY DEF QuorumInv
<1>2. TypeOK'
  BY <1>1, TypeNext
<1>3. /\ echo.stage = "ECHO" /\ echo.from = p /\ echo.inst = i /\ echo.value = v
      /\ ready.stage = "READY" /\ ready.from = p /\ ready.inst = i /\ ready.value = v
  BY DEF Msg
<1>4. /\ ~Delivered(p, i)
      /\ transactionCounter' = transactionCounter
      /\ sent \subseteq sent'
      /\ sent' \subseteq sent \cup {echo, ready}
      /\ old.stage # "Init" => sent' \subseteq sent \cup {ready}
      /\ old.stage = "SentReady" => sent' = sent
  BY <1>1, HandlerShape
<1>5. \A p2 \in Correct, i2 \in Instance :
        <<p2, i2>> # <<p, i>> =>
          /\ transactionsLog'[p2][i2] = transactionsLog[p2][i2]
          /\ deliveredTransactions'[p2][i2] = deliveredTransactions[p2][i2]
  BY <1>1, HandlerShape
<1>6. deliveredTransactions'[p][i] \in {None, v}
  BY <1>1, HandlerShape
<1>7. ~Delivered(p, i)' =>
        /\ new.stage = "Init" => old.stage = "Init" /\ sent' = sent
        /\ new.stage = "SentReady" => old.stage = "SentReady" \/ ready \in sent'
        /\ new.stage # "SentReady" =>
              /\ old.stage # "SentReady"
              /\ sent' \subseteq sent \cup {echo}
  BY <1>1, HandlerShape DEF Delivered
<1>8. /\ Backed(new, i)
      /\ ready \in sent' \ sent =>
            \/ Cardinality(Voters("ECHO", i, v)) >= MessagesForEcho
            \/ Cardinality(Voters("READY", i, v)) >= MessagesForReady
      /\ sent' # sent =>
            \/ Receivable(q, "INITIAL", i, v)
            \/ Cardinality(Voters("ECHO", i, v)) >= MessagesForEcho
            \/ Cardinality(Voters("READY", i, v)) >= MessagesForReady
      /\ Delivered(p, i)' =>
            /\ Cardinality(Voters("READY", i, v)) >= MessagesForDelivery
            /\ old.stage = "SentReady" \/ ready \in sent'
  BY <1>1, HandlerReasons
<1>9. old.stage \in {"Init", "SentEcho", "SentReady"}
  BY <1>1, MessageStateType DEF MessageState
<1> HIDE DEF echo, ready, old
<1>10. VotesBacked'
  <2> SUFFICES ASSUME NEW p2 \in Correct, NEW i2 \in Instance,
                      NEW ms, ms = transactionsLog'[p2][i2]
               PROVE  Backed(ms, i2)'
    BY DEF VotesBacked
  <2>1. ms \in MessageState
    BY <1>2 DEF TypeOK
  <2>2. Backed(ms, i2)
    <3>1. CASE <<p2, i2>> = <<p, i>>
      BY <1>8, <3>1
    <3>2. CASE <<p2, i2>> # <<p, i>>
      BY <1>1, <1>5, <3>2 DEF VotesBacked
    <3>3. QED
      BY <3>1, <3>2
  <2>3. QED
    BY <1>1, <2>1, <2>2, BackedGrows
<1>11. OneEcho'
  <2>1. ASSUME NEW m \in sent, m.stage = "ECHO", m.from = p, m.inst = i
        PROVE  old.stage # "Init"
    <3>1. m = Msg(p, "ECHO", i, m.value) /\ m.value \in Value
      BY <1>1, <2>1 DEF TypeOK, Message, Msg
    <3>2. QED
      BY <1>1, <1>4, <2>1, <3>1 DEF StageRecordsSent, old
  <2>2. QED
    BY <1>1, <1>3, <1>4, <2>1 DEF OneEcho
<1>12. StageRecordsSent'
  <2> SUFFICES ASSUME NEW p2 \in Correct, NEW i2 \in Instance, ~Delivered(p2, i2)'
               PROVE  LET stage == transactionsLog'[p2][i2].stage
                      IN  /\ stage = "SentReady" =>
                                \E w \in Value : Msg(p2, "READY", i2, w) \in sent'
                          /\ \A w \in Value :
                                /\ stage = "Init" => Msg(p2, "ECHO", i2, w) \notin sent'
                                /\ stage # "SentReady" => Msg(p2, "READY", i2, w) \notin sent'
    BY DEF StageRecordsSent
  <2>1. CASE <<p2, i2>> # <<p, i>>
    <3>1. /\ transactionsLog'[p2][i2] = transactionsLog[p2][i2]
          /\ ~Delivered(p2, i2)
      BY <1>5, <2>1 DEF Delivered
    <3>2. \A w \in Value : /\ Msg(p2, "ECHO", i2, w) \in sent' <=> Msg(p2, "ECHO", i2, w) \in sent
                           /\ Msg(p2, "READY", i2, w) \in sent' <=> Msg(p2, "READY", i2, w) \in sent
      BY <1>4, <2>1 DEF Msg, echo, ready
    <3>3. QED
      BY <1>1, <3>1, <3>2 DEF StageRecordsSent
  <2>2. CASE <<p2, i2>> = <<p, i>>
    <3>1. p2 = p /\ i2 = i /\ ~Delivered(p, i)'
      BY <2>2
    <3>2. \A w \in Value : Msg(p, "READY", i, w) # echo
      BY DEF echo, Msg
    <3>3. ASSUME new.stage = "SentReady"
          PROVE  \E w \in Value : Msg(p, "READY", i, w) \in sent'
      BY <1>1, <1>4, <1>7, <3>1, <3>3 DEF StageRecordsSent, old, ready
    <3>4. ASSUME NEW w \in Value, new.stage = "Init"
          PROVE  Msg(p, "ECHO", i, w) \notin sent'
      BY <1>1, <1>4, <1>7, <3>1, <3>4 DEF StageRecordsSent, old
    <3>5. ASSUME NEW w \in Value, new.stage # "SentReady"
          PROVE  Msg(p, "READY", i, w) \notin sent'
      BY <1>1, <1>4, <1>7, <3>1, <3>2, <3>5 DEF StageRecordsSent, old
    <3>6. QED
      BY <3>1, <3>3, <3>4, <3>5
  <2>3. QED
    BY <2>1, <2>2
<1>13. ASSUME ready \in sent' \ sent
       PROVE  Cardinality(Voters("ECHO", i, v)) >= MessagesForEcho
  BY <1>1, <1>8, <1>13, ReadiesImplyEchoes
<1>14. ReadyJustified'
  <2> SUFFICES ASSUME NEW m \in sent', m.stage = "READY"
               PROVE  Cardinality(Voters("ECHO", m.inst, m.value)') >= MessagesForEcho
    BY DEF ReadyJustified
  <2>1. Cardinality(Voters("ECHO", m.inst, m.value)) >= MessagesForEcho
    BY <1>1, <1>3, <1>4, <1>13 DEF ReadyJustified
  <2>2. QED
    BY <1>1, <2>1, VotesGrow, VotersType, Thresholds
<1>15. DeliveryJustified'
  <2> SUFFICES ASSUME NEW p2 \in Correct, NEW i2 \in Instance, Delivered(p2, i2)',
                      NEW w, w = deliveredTransactions'[p2][i2]
               PROVE  Cardinality(Voters("READY", i2, w)') >= MessagesForDelivery
    BY DEF DeliveryJustified
  <2>1. Cardinality(Voters("READY", i2, w)) >= MessagesForDelivery
    <3>1. CASE <<p2, i2>> = <<p, i>>
      BY <1>6, <1>8, <3>1 DEF Delivered
    <3>2. CASE <<p2, i2>> # <<p, i>>
      BY <1>1, <1>5, <3>2 DEF DeliveryJustified, Delivered
    <3>3. QED
      BY <3>1, <3>2
  <2>2. QED
    BY <1>1, <2>1, VotesGrow, VotersType, Thresholds
<1>16. DeliveredImpliesOwnReady'
  <2> SUFFICES ASSUME NEW p2 \in Correct, NEW i2 \in Instance, Delivered(p2, i2)'
               PROVE  Msg(p2, "READY", i2, deliveredTransactions'[p2][i2]) \in sent'
    BY DEF DeliveredImpliesOwnReady
  <2>1. CASE <<p2, i2>> # <<p, i>>
    BY <1>1, <1>4, <1>5, <2>1 DEF DeliveredImpliesOwnReady, Delivered
  <2>2. CASE <<p2, i2>> = <<p, i>>
    <3>1. p2 = p /\ i2 = i /\ Delivered(p, i)' /\ deliveredTransactions'[p][i] = v
      BY <1>6, <2>2 DEF Delivered
    <3>2. Cardinality(Voters("READY", i, v)) >= MessagesForReady
      BY <1>8, <3>1, Thresholds, VotersType
    <3>3. PICK q2 \in Correct : Msg(q2, "READY", i, v) \in sent
      BY <1>1, <3>2, ReadiesImplyEchoes
    <3>4. CASE old.stage = "SentReady"
      <4>1. PICK w \in Value : Msg(p, "READY", i, w) \in sent
        BY <1>1, <1>4, <3>4 DEF StageRecordsSent, old
      <4>2. w = v
        BY <1>1, <3>3, <4>1, ReadyValuesAgree DEF OneReadyValue, Msg
      <4>3. QED
        BY <1>4, <3>1, <4>1, <4>2
    <3>5. QED
      BY <1>8, <3>1, <3>4 DEF ready
  <2>3. QED
    BY <2>1, <2>2
<1>17. InitialOnce'
  <2>1. \A m \in sent' : m.stage = "INITIAL" => m \in sent
    BY <1>3, <1>4
  <2>2. QED
    BY <1>1, <1>4, <2>1 DEF InitialOnce
<1>18. EchoAuthentic'
  <2>1. ASSUME sent' # sent, i \in Authentic
        PROVE  Msg(i.author, "INITIAL", i, v) \in sent
    <3>1. CASE Receivable(q, "INITIAL", i, v)
      <4>1. Msg(q, "INITIAL", i, v) \in sent
        BY <2>1, <3>1 DEF Receivable, Authentic
      <4>2. q = i.author
        BY <1>1, <4>1 DEF InitialOnce, Msg
      <4>3. QED
        BY <4>1, <4>2
    <3>2. CASE Cardinality(Voters("ECHO", i, v)) >= MessagesForEcho
      <4>1. PICK q2 \in Correct : Msg(q2, "ECHO", i, v) \in sent
        BY <3>2, EchoQuorumCorrect
      <4>2. QED
        BY <1>1, <2>1, <4>1 DEF EchoAuthentic, Msg
    <3>3. QED
      BY <1>1, <1>8, <2>1, <3>1, <3>2, ReadiesImplyEchoes
  <2> SUFFICES ASSUME NEW m \in sent', m.stage = "ECHO", m.inst \in Authentic
               PROVE  Msg(m.inst.author, "INITIAL", m.inst, m.value) \in sent
    BY <1>4 DEF EchoAuthentic, Authentic
  <2>2. CASE m \in sent
    BY <1>1, <2>2 DEF EchoAuthentic
  <2>3. CASE m = echo /\ m \notin sent
    BY <1>3, <2>1, <2>3
  <2>4. QED
    BY <1>3, <1>4, <2>2, <2>3
<1>19. QED
  BY <1>2, <1>10, <1>11, <1>12, <1>14, <1>15, <1>16, <1>17, <1>18 DEF QuorumInv

LEMMA InvNext == QuorumInv /\ [Next]_vars => QuorumInv'
<1> SUFFICES ASSUME QuorumInv, [Next]_vars
             PROVE  QuorumInv'
  OBVIOUS
<1>1. ASSUME NEW p \in Correct, NEW v \in Value, Broadcast(p, v)
      PROVE  QuorumInv'
  BY <1>1, InvBroadcast
<1>2. ASSUME NEW p \in Correct, NEW q \in Proc, NEW i \in Instance, NEW v \in Value,
             HandleMessage(p, q, i, v)
      PROVE  QuorumInv'
  BY <1>2, InvHandler
<1>3. CASE UNCHANGED vars
  <2> USE <1>3 DEF vars, QuorumInv
  <2>1. TypeOK' /\ OneEcho' /\ InitialOnce' /\ EchoAuthentic'
    BY DEF TypeOK, OneEcho, InitialOnce, EchoAuthentic
  <2>2. ReadyJustified'
    BY DEF ReadyJustified, Voters, Receivable
  <2>3. DeliveryJustified'
    BY DEF DeliveryJustified, Delivered, Voters, Receivable
  <2>4. StageRecordsSent' /\ DeliveredImpliesOwnReady'
    BY DEF StageRecordsSent, DeliveredImpliesOwnReady, Delivered
  <2>5. VotesBacked'
    BY MessageStateType, BackedGrows DEF VotesBacked
  <2>6. QED
    BY <2>1, <2>2, <2>3, <2>4, <2>5
<1>4. QED
  BY <1>1, <1>2, <1>3 DEF Next

-----------------------------------------------------------------------------
(* Theorems *)

\* The counters and stages of the code agree with what was sent, in every
\* reachable state; the safety properties below follow from this invariant.
THEOREM Inductive == Spec => []QuorumInv
BY InvInit, InvNext, PTL DEF Spec

\* No two correct processes deliver different values for one instance, for any
\* n and any behaviour of at most F faulty processes.
THEOREM Consistency == Spec => []Agreement
BY Inductive, InvImpliesAgreement, PTL

\* Correct processes never send READY for two values of one instance.
THEOREM OneReady == Spec => []OneReadyValue
BY Inductive, InvImpliesOneReady, PTL

\* The vote counters never exceed the number of distinct processes that voted.
THEOREM CountersAreVotes == Spec => []VotesBacked
<1>1. QuorumInv => VotesBacked
  BY DEF QuorumInv
<1>2. QED
  BY <1>1, Inductive, PTL

\* A process that delivers has sent READY for the value it delivers.
THEOREM ReadyBeforeDelivery == Spec => []DeliveredImpliesOwnReady
<1>1. QuorumInv => DeliveredImpliesOwnReady
  BY DEF QuorumInv
<1>2. QED
  BY <1>1, Inductive, PTL

\* A delivery is the end of an instance: no later step of the process changes
\* what it delivered, restores the deleted message state or answers.
THEOREM Finality == Spec => DeliveredIsFinal
<1> DEFINE Frozen ==
      \A p \in Correct, i \in Instance :
          Delivered(p, i) =>
            /\ deliveredTransactions'[p][i] = deliveredTransactions[p][i]
            /\ transactionsLog'[p][i] = NewMessageState
            /\ \A m \in sent' \ sent :
                  m.from = p /\ m.inst = i => m.stage = "INITIAL"
           Reset ==
      \A p \in Correct, i \in Instance :
          Delivered(p, i) => transactionsLog[p][i] = NewMessageState
<1>1. Init => Reset
  BY DEF Init, Delivered
<1>2. ASSUME TypeOK, Reset, [Next]_vars
      PROVE  Reset' /\ Frozen
  <2>1. ASSUME NEW p \in Correct, NEW v \in Value, Broadcast(p, v)
        PROVE  Reset' /\ Frozen
    BY <1>2, <2>1 DEF Broadcast, Delivered, Msg
  <2>2. ASSUME NEW p \in Correct, NEW q \in Proc, NEW i \in Instance, NEW v \in Value,
               HandleMessage(p, q, i, v)
        PROVE  Reset' /\ Frozen
    <3>1. /\ ~Delivered(p, i)
          /\ sent' \subseteq sent \cup {Msg(p, "ECHO", i, v), Msg(p, "READY", i, v)}
          /\ \A p2 \in Correct, i2 \in Instance :
                <<p2, i2>> # <<p, i>> =>
                  /\ transactionsLog'[p2][i2] = transactionsLog[p2][i2]
                  /\ deliveredTransactions'[p2][i2] = deliveredTransactions[p2][i2]
      BY <1>2, <2>2, HandlerShape
    <3>2. Frozen
      BY <1>2, <3>1 DEF Delivered, Msg
    <3>3. Delivered(p, i)' => transactionsLog'[p][i] = NewMessageState
      <4>1. CASE Deliver(p, i, v)
        BY <1>2, <4>1, DeliverUpdate, FreshState, LogUpdateType
      <4>2. CASE deliveredTransactions' = deliveredTransactions
        BY <3>1, <4>2 DEF Delivered
      <4>3. QED
        BY <2>2, <4>1, <4>2
        DEF HandleMessage, ReceiveInitial, ReceiveEcho, ReceiveReady
    <3>4. Reset'
      BY <1>2, <3>1, <3>3 DEF Delivered
    <3>5. QED
      BY <3>2, <3>4
  <2>3. CASE UNCHANGED vars
    BY <1>2, <2>3 DEF vars, Delivered
  <2>4. QED
    BY <1>2, <2>1, <2>2, <2>3 DEF Next
<1> HIDE DEF Reset
<1>3. DeliveredIsFinal <=> [][Frozen]_vars
  BY PTL DEF DeliveredIsFinal
<1> HIDE DEF Frozen
<1>4. QED
  BY <1>1, <1>2, <1>3, TypeCorrect, PTL DEF Spec

-----------------------------------------------------------------------------
(* Refinement *)

LEMMA RefinesInit == Init => RB!Init
BY DEF Init, RB!Init, Initiated

LEMMA RefinesNext ==
    ASSUME QuorumInv, QuorumInv', [Next]_vars
    PROVE  [RB!Next]_(RB!vars)
<1>1. TypeOK /\ InitialOnce
  BY DEF QuorumInv
<1>2. ASSUME NEW p \in Correct, NEW v \in Value, Broadcast(p, v)
      PROVE  RB!Next
  <2> DEFINE i == [author |-> p, seqNumber |-> transactionCounter[p]]
             m == Msg(p, "INITIAL", i, v)
  <2>1. i \in Instance
    BY <1>1, <1>2, OwnInstance DEF Broadcast
  <2>2. sent' = sent \cup {m} /\ deliveredTransactions' = deliveredTransactions
    BY <1>2 DEF Broadcast
  <2>3. m.stage = "INITIAL" /\ m.inst = i /\ m.value = v /\ i.seqNumber = transactionCounter[p]
        /\ i.author = p
    BY DEF Msg
  <2>4. transactionCounter[p] \in Int
    BY <1>1 DEF TypeOK
  <2> HIDE DEF i, m
  <2>5. Initiated' = Initiated \cup {<<i, v>>}
    BY <2>2, <2>3 DEF Initiated
  <2>6. \A w \in Value : <<i, w>> \notin Initiated
    BY <1>1, <2>3, <2>4 DEF Initiated, InitialOnce
  <2>7. RB!Initiate(i, v)
    BY <2>2, <2>5, <2>6 DEF RB!Initiate
  <2>8. QED
    BY <2>1, <2>7 DEF RB!Next
<1>3. ASSUME NEW p \in Correct, NEW q \in Proc, NEW i \in Instance, NEW v \in Value,
             HandleMessage(p, q, i, v)
      PROVE  RB!Next \/ UNCHANGED RB!vars
  <2>1. sent \subseteq sent' /\ ~Delivered(p, i)
        /\ sent' \subseteq sent \cup {Msg(p, "ECHO", i, v), Msg(p, "READY", i, v)}
    BY <1>1, <1>3, HandlerShape
  <2>2. Initiated' = Initiated
    BY <2>1 DEF Initiated, Msg
  <2>3. CASE deliveredTransactions' = deliveredTransactions
    BY <2>2, <2>3 DEF RB!vars
  <2>4. CASE Deliver(p, i, v)
    <3>1. /\ deliveredTransactions'[p][i] = v
          /\ \A p2 \in Correct, i2 \in Instance :
                <<p2, i2>> # <<p, i>> =>
                    deliveredTransactions'[p2][i2] = deliveredTransactions[p2][i2]
      BY <1>1, <2>4, DeliverUpdate
    <3>2. Delivered(p, i)'
      BY <3>1, ValueAssumption DEF Delivered
    <3>3. Agreement'
      BY InvImpliesAgreement, PTL
    <3>4. ASSUME NEW p2 \in Correct
          PROVE  deliveredTransactions[p2][i] \in {None, v}
      <4>1. CASE p2 = p
        BY <2>1, <4>1 DEF Delivered
      <4>2. CASE p2 # p
        <5>1. deliveredTransactions'[p2][i] = deliveredTransactions[p2][i]
          BY <3>1, <4>2
        <5>2. QED
          BY <3>1, <3>2, <3>3, <5>1 DEF Agreement, Delivered
      <4>3. QED
        BY <4>1, <4>2
    <3>5. i \in Authentic => <<i, v>> \in Initiated
      <4>1. ASSUME i \in Authentic
            PROVE  <<i, v>> \in Initiated'
        <5>1. i \in Authentic
          BY <4>1
        <5>2. PICK q2 \in Correct : Msg(q2, "ECHO", i, v) \in sent'
          <6>1. ReadyJustified /\ VotesBacked
            BY DEF QuorumInv
          <6>2. Cardinality(Voters("READY", i, v)) >= MessagesForReady
            BY <1>1, <1>3, <3>2, <6>1, HandlerReasons, Thresholds, VotersType
          <6>3. QED
            BY <2>1, <6>1, <6>2, ReadiesImplyEchoes, EchoQuorumCorrect
        <5>3. Msg(i.author, "INITIAL", i, v) \in sent'
          BY <5>1, <5>2 DEF QuorumInv, EchoAuthentic, Authentic, Msg
        <5>4. QED
          BY <5>3 DEF Initiated, Msg
      <4>2. QED
        BY <2>2, <4>1
    <3>6. deliveredTransactions' = [deliveredTransactions EXCEPT ![p][i] = v]
      BY <2>4 DEF Deliver
    <3>7. RB!Deliver(p, i, v)
      BY <2>1, <2>2, <3>4, <3>5, <3>6 DEF RB!Deliver, Delivered
    <3>8. QED
      BY <3>7 DEF RB!Next
  <2>5. QED
    BY <1>3, <2>3, <2>4 DEF HandleMessage, ReceiveInitial, ReceiveEcho, ReceiveReady
<1>4. CASE UNCHANGED vars
  BY <1>4 DEF vars, RB!vars, Initiated
<1>5. QED
  BY <1>2, <1>3, <1>4 DEF Next

\* Bracha's protocol implements the abstract reliable broadcast.
THEOREM Refinement == Spec => ImplementsReliableBroadcast
BY RefinesInit, RefinesNext, Inductive, PTL
DEF Spec, RB!Spec, ImplementsReliableBroadcast

-----------------------------------------------------------------------------
(* The inductive invariant of Totality and Validity *)

LEMMA CorrectVotesType ==
    ASSUME NEW R, NEW s, NEW i, NEW v
    PROVE  /\ CorrectVotes(R, s, i, v) \in SUBSET Proc
           /\ Cardinality(CorrectVotes(R, s, i, v)) \in Nat
<1>1. CorrectVotes(R, s, i, v) \in SUBSET Proc
  BY DEF CorrectVotes, Correct
<1>2. QED
  BY <1>1, ProcSubset

\* Counting the vote of q for v misses no vote of q, for a correct process
\* votes for one value.
LEMMA CorrectVotesAdd ==
    ASSUME NEW R, NEW s, NEW i, NEW v, NEW q, NEW w,
           q \in Correct => Msg(q, s, i, v) \in sent,
           Msg(q, s, i, v) \in sent /\ Msg(q, s, i, w) \in sent => v = w
    PROVE  Cardinality(CorrectVotes(R \cup {q}, s, i, w)) <=
               Cardinality(CorrectVotes(R, s, i, w)) + (IF w = v THEN 1 ELSE 0)
<1> DEFINE A == CorrectVotes(R, s, i, w)
           B == CorrectVotes(R \cup {q}, s, i, w)
<1>1. /\ IsFiniteSet(A) /\ A \in SUBSET Proc /\ B \in SUBSET Proc
      /\ Cardinality(A) \in Nat /\ Cardinality(B) \in Nat
  BY CorrectVotesType, ProcSubset
<1>2. CASE B = A
  BY <1>1, <1>2
<1>3. CASE B # A
  <2>1. q \notin A /\ B = A \cup {q} /\ w = v
    BY <1>3 DEF CorrectVotes
  <2>2. Cardinality(B) = Cardinality(A) + 1
    BY <1>1, <2>1, FS_AddElement
  <2>3. QED
    BY <1>1, <2>1, <2>2
<1>4. QED
  BY <1>2, <1>3

\* A handler's verdict on the instance it works on, in the terms of ProgressInv.
LEMMA HandlerProgress ==
    ASSUME TypeOK, OneEcho, OneReadyValue, ProgressInv, NEW p \in Correct, NEW q \in Proc,
           NEW i \in Instance, NEW v \in Value, HandleMessage(p, q, i, v)
    PROVE  LET new == transactionsLog'[p][i]
           IN  /\ \A w \in Value :
                    /\ Cardinality(CorrectVotes(new.receivedEcho, "ECHO", i, w)) <= new.echoCount[w]
                    /\ Cardinality(CorrectVotes(new.receivedReady, "READY", i, w)) <= new.readyCount[w]
               /\ \A r \in Correct :
                    /\ r \in new.receivedEcho => \E w \in Value : Msg(r, "ECHO", i, w) \in sent
                    /\ r \in new.receivedReady => \E w \in Value : Msg(r, "READY", i, w) \in sent
               /\ ~Delivered(p, i)' => \A w \in Value :
                    /\ new.readyCount[w] < MessagesForDelivery
                    /\ new.stage # "SentReady" => /\ new.readyCount[w] < MessagesForReady
                                                 /\ new.echoCount[w] < MessagesForEcho
               /\ Delivered(p, i)' \/ new.stage # "Init" =>
                    \E w \in Value : Msg(p, "ECHO", i, w) \in sent'
<1> DEFINE old == transactionsLog[p][i]
<1>1. old \in MessageState
  BY MessageStateType
<1>2. \A w \in Value :
         /\ Cardinality(CorrectVotes(old.receivedEcho, "ECHO", i, w)) <= old.echoCount[w]
         /\ Cardinality(CorrectVotes(old.receivedReady, "READY", i, w)) <= old.readyCount[w]
  BY DEF ProgressInv, VotesCounted
<1>3. \A r \in Correct :
         /\ r \in old.receivedEcho => \E w \in Value : Msg(r, "ECHO", i, w) \in sent
         /\ r \in old.receivedReady => \E w \in Value : Msg(r, "READY", i, w) \in sent
  BY DEF ProgressInv, HeardOf
<1>4. ~Delivered(p, i) /\ sent \subseteq sent'
  BY HandlerShape
<1>5. \A w \in Value :
         /\ old.readyCount[w] < MessagesForDelivery
         /\ old.stage # "SentReady" => /\ old.readyCount[w] < MessagesForReady
                                      /\ old.echoCount[w] < MessagesForEcho
  BY <1>4 DEF ProgressInv, ThresholdsActedOn
<1>6. old.stage # "Init" => \E w \in Value : Msg(p, "ECHO", i, w) \in sent
  BY DEF ProgressInv, EchoSent
<1>7. old.stage \in {"Init", "SentEcho", "SentReady"}
  BY <1>1 DEF MessageState
<1>8. CASE ReceiveInitial(p, q, i, v)
  <2> DEFINE ms == [old EXCEPT !.stage = "SentEcho"]
  <2>1. /\ ms \in MessageState /\ ms.stage = "SentEcho"
        /\ ms.receivedEcho = old.receivedEcho /\ ms.receivedReady = old.receivedReady
        /\ ms.echoCount = old.echoCount /\ ms.readyCount = old.readyCount
    BY <1>1 DEF MessageState
  <2>2. SetsState(p, i, ms)
    BY <1>8, Zenon DEF ReceiveInitial, SetsState
  <2>3. old.stage = "Init" /\ Msg(p, "ECHO", i, v) \in sent'
    BY <1>8 DEF ReceiveInitial, Accepts
  <2> HIDE DEF ms, old
  <2>4. transactionsLog'[p][i] = ms
    BY <2>1, <2>2, LogUpdateType
  <2>5. QED
    BY <1>2, <1>3, <1>5, <2>1, <2>3, <2>4
<1>9. CASE ReceiveEcho(p, q, i, v)
  <2> DEFINE ms == CountEcho(old, q, v)
             quorum == ms.echoCount[v] >= MessagesForEcho
             new == IF quorum THEN [ms EXCEPT !.stage = "SentReady"] ELSE ms
  <2>1. /\ ms \in MessageState /\ ms.stage = old.stage
        /\ ms.receivedEcho = old.receivedEcho \cup {q}
        /\ ms.receivedReady = old.receivedReady
        /\ ms.echoCount = AddVote(old.echoCount, v)
        /\ ms.readyCount = old.readyCount
    BY <1>1, CountEchoFields
  <2>2. /\ new \in MessageState
        /\ new.stage = IF quorum THEN "SentReady" ELSE old.stage
        /\ new.receivedEcho = ms.receivedEcho /\ new.receivedReady = ms.receivedReady
        /\ new.echoCount = ms.echoCount /\ new.readyCount = ms.readyCount
    BY <2>1, SentReadyFields
  <2>3. SetsState(p, i, new)
    BY <1>9 DEF ReceiveEcho, SetsState
  <2>4. sent' = IF quorum THEN sent \cup Announcements(p, i, v, old.stage) ELSE sent
    BY <1>9, <2>1 DEF ReceiveEcho
  <2>5. q \in Correct => Msg(q, "ECHO", i, v) \in sent
    BY <1>9 DEF ReceiveEcho, Receivable, Correct
  <2>6. old.stage # "SentReady"
    BY <1>9 DEF ReceiveEcho, Accepts
  <2>7. old.echoCount \in [Value -> Nat] /\ old.readyCount \in [Value -> Nat]
    BY <1>1 DEF MessageState
  <2> HIDE DEF new, ms, old
  <2>8. \A w \in Value :
          ms.echoCount[w] = IF w = v THEN old.echoCount[w] + 1 ELSE old.echoCount[w]
    BY <2>1, <2>7, AddVoteType
  <2>9. transactionsLog'[p][i] = new
    BY <2>2, <2>3, LogUpdateType
  <2>10. ASSUME NEW w \in Value
         PROVE  Cardinality(CorrectVotes(new.receivedEcho, "ECHO", i, w)) <= new.echoCount[w]
    <3>1. Msg(q, "ECHO", i, v) \in sent /\ Msg(q, "ECHO", i, w) \in sent => v = w
      BY DEF OneEcho, Msg
    <3>2. Cardinality(CorrectVotes(old.receivedEcho \cup {q}, "ECHO", i, w)) <=
            Cardinality(CorrectVotes(old.receivedEcho, "ECHO", i, w)) + (IF w = v THEN 1 ELSE 0)
      BY <2>5, <3>1, CorrectVotesAdd
    <3>3. /\ Cardinality(CorrectVotes(old.receivedEcho \cup {q}, "ECHO", i, w)) \in Nat
          /\ Cardinality(CorrectVotes(old.receivedEcho, "ECHO", i, w)) \in Nat
      BY CorrectVotesType
    <3>4. QED
      BY <1>2, <2>1, <2>2, <2>7, <2>8, <3>2, <3>3
  <2>11. \A r \in Correct :
           r \in new.receivedEcho => \E w \in Value : Msg(r, "ECHO", i, w) \in sent
    BY <1>3, <2>1, <2>2, <2>5
  <2>12. \A w \in Value : /\ new.readyCount[w] < MessagesForDelivery
                          /\ new.readyCount[w] < MessagesForReady
    BY <1>5, <2>1, <2>2, <2>6
  <2>13. ~quorum => \A w \in Value : new.echoCount[w] < MessagesForEcho
    BY <1>5, <2>2, <2>6, <2>7, <2>8, Thresholds
  <2>14. old.stage = "Init" /\ quorum => Msg(p, "ECHO", i, v) \in sent'
    BY <2>4 DEF Announcements
  <2>15. ~Delivered(p, i)'
    BY <1>9 DEF ReceiveEcho, Accepts, Delivered
  <2> HIDE DEF quorum
  <2>16. new.stage # "Init" => \E w \in Value : Msg(p, "ECHO", i, w) \in sent'
    BY <1>4, <1>6, <2>2, <2>14
  <2>17. QED
    BY <1>2, <1>3, <2>1, <2>2, <2>9, <2>10, <2>11, <2>12, <2>13, <2>15, <2>16
<1>10. CASE ReceiveReady(p, q, i, v)
  <2> DEFINE ms == CountReady(old, q, v)
             ready == ms.readyCount[v] >= MessagesForReady
             new == IF ready THEN [ms EXCEPT !.stage = "SentReady"] ELSE ms
  <2>1. /\ ms \in MessageState /\ ms.stage = old.stage
        /\ ms.receivedEcho = old.receivedEcho
        /\ ms.receivedReady = old.receivedReady \cup {q}
        /\ ms.echoCount = old.echoCount
        /\ ms.readyCount = AddVote(old.readyCount, v)
    BY <1>1, CountReadyFields
  <2>2. /\ new \in MessageState
        /\ new.stage = IF ready THEN "SentReady" ELSE old.stage
        /\ new.receivedEcho = ms.receivedEcho /\ new.receivedReady = ms.receivedReady
        /\ new.echoCount = ms.echoCount /\ new.readyCount = ms.readyCount
    BY <2>1, SentReadyFields
  <2>3. sent' = IF ready THEN sent \cup Announcements(p, i, v, old.stage) ELSE sent
    BY <1>10, <2>1 DEF ReceiveReady
  <2>4. q \in Correct => Msg(q, "READY", i, v) \in sent
    BY <1>10 DEF ReceiveReady, Receivable, Correct
  <2>5. old.echoCount \in [Value -> Nat] /\ old.readyCount \in [Value -> Nat]
    BY <1>1 DEF MessageState
  <2>6. \A w \in Value :
          ms.readyCount[w] = IF w = v THEN old.readyCount[w] + 1 ELSE old.readyCount[w]
    <3> HIDE DEF ms, old
    <3>1. QED
      BY <2>1, <2>5, AddVoteType
  <2>7. ready => \E w \in Value : Msg(p, "ECHO", i, w) \in sent'
    BY <1>4, <1>6, <2>3 DEF Announcements
  <2>8. CASE /\ ms.readyCount[v] >= MessagesForDelivery
             /\ Deliver(p, i, v)
    <3>1. transactionsLog'[p][i] = NewMessageState
      BY <2>8, DeliverUpdate, FreshState, LogUpdateType
    <3>2. /\ NewMessageState.receivedEcho = {} /\ NewMessageState.receivedReady = {}
          /\ \A w \in Value :
                NewMessageState.echoCount[w] = 0 /\ NewMessageState.readyCount[w] = 0
          /\ NewMessageState.stage = "Init"
      BY DEF NewMessageState
    <3>3. \A s, w : CorrectVotes({}, s, i, w) = {}
      BY DEF CorrectVotes
    <3>4. Cardinality({}) = 0
      BY FS_EmptySet
    <3>5. Delivered(p, i)' /\ ready
      BY <2>1, <2>8, DeliverUpdate, ValueAssumption, Thresholds DEF Delivered, MessageState
    <3> HIDE DEF new, ms, ready, old
    <3>6. QED
      BY <2>7, <3>1, <3>2, <3>3, <3>4, <3>5
  <2>9. CASE /\ ms.readyCount[v] < MessagesForDelivery
             /\ SetsState(p, i, new)
             /\ UNCHANGED <<deliveredTransactions, ownDeliveredTransactions>>
    <3>1. ~Delivered(p, i)'
      BY <1>4, <2>9 DEF Delivered
    <3> HIDE DEF new, ms, old
    <3>2. transactionsLog'[p][i] = new
      BY <2>2, <2>9, LogUpdateType
    <3>3. ASSUME NEW w \in Value
          PROVE  Cardinality(CorrectVotes(new.receivedReady, "READY", i, w)) <= new.readyCount[w]
      <4>1. Msg(q, "READY", i, v) \in sent /\ Msg(q, "READY", i, w) \in sent => v = w
        BY DEF OneReadyValue, Msg
      <4>2. Cardinality(CorrectVotes(old.receivedReady \cup {q}, "READY", i, w)) <=
              Cardinality(CorrectVotes(old.receivedReady, "READY", i, w)) + (IF w = v THEN 1 ELSE 0)
        BY <2>4, <4>1, CorrectVotesAdd
      <4>3. /\ Cardinality(CorrectVotes(old.receivedReady \cup {q}, "READY", i, w)) \in Nat
            /\ Cardinality(CorrectVotes(old.receivedReady, "READY", i, w)) \in Nat
        BY CorrectVotesType
      <4>4. QED
        BY <1>2, <2>1, <2>2, <2>5, <2>6, <4>2, <4>3
    <3>4. \A r \in Correct :
             r \in new.receivedReady => \E w \in Value : Msg(r, "READY", i, w) \in sent
      BY <1>3, <2>1, <2>2, <2>4
    <3>5. \A w \in Value : new.readyCount[w] < MessagesForDelivery
      BY <1>5, <2>2, <2>6, <2>9
    <3>6. ~ready => \A w \in Value :
             old.stage # "SentReady" => /\ new.readyCount[w] < MessagesForReady
                                       /\ new.echoCount[w] < MessagesForEcho
      BY <1>5, <2>1, <2>2, <2>5, <2>6, Thresholds
    <3> HIDE DEF ready
    <3>7. new.stage # "Init" => \E w \in Value : Msg(p, "ECHO", i, w) \in sent'
      BY <1>4, <1>6, <2>2, <2>7
    <3>8. QED
      BY <1>2, <1>3, <2>1, <2>2, <3>1, <3>2, <3>3, <3>4, <3>5, <3>6, <3>7
  <2>10. QED
    BY <1>10, <2>8, <2>9 DEF ReceiveReady, SetsState
<1>11. QED
  BY <1>8, <1>9, <1>10 DEF HandleMessage

LEMMA ProgressInit == Init => ProgressInv
<1> SUFFICES ASSUME Init
             PROVE  ProgressInv
  OBVIOUS
<1>1. \A p \in Correct, i \in Instance :
        ~Delivered(p, i) /\ transactionsLog[p][i] = NewMessageState
  BY DEF Init, Delivered
<1>2. ASSUME NEW i, NEW v
      PROVE  /\ Cardinality(CorrectVotes({}, "ECHO", i, v)) = 0
             /\ Cardinality(CorrectVotes({}, "READY", i, v)) = 0
  <2>1. CorrectVotes({}, "ECHO", i, v) = {} /\ CorrectVotes({}, "READY", i, v) = {}
    BY DEF CorrectVotes
  <2>2. QED
    BY <2>1, FS_EmptySet
<1>3. /\ NewMessageState.receivedEcho = {} /\ NewMessageState.receivedReady = {}
      /\ \A v \in Value :
            NewMessageState.echoCount[v] = 0 /\ NewMessageState.readyCount[v] = 0
      /\ NewMessageState.stage = "Init"
  BY DEF NewMessageState
<1>4. VotesCounted
  <2>1. ASSUME NEW p \in Correct, NEW i \in Instance, NEW v \in Value,
               NEW ms, ms = transactionsLog[p][i]
        PROVE  /\ Cardinality(CorrectVotes(ms.receivedEcho, "ECHO", i, v)) <= ms.echoCount[v]
               /\ Cardinality(CorrectVotes(ms.receivedReady, "READY", i, v)) <= ms.readyCount[v]
    <3>1. /\ ms.receivedEcho = {} /\ ms.receivedReady = {}
          /\ ms.echoCount[v] = 0 /\ ms.readyCount[v] = 0
      BY <1>1, <1>3, <2>1
    <3>2. /\ Cardinality(CorrectVotes(ms.receivedEcho, "ECHO", i, v)) = 0
          /\ Cardinality(CorrectVotes(ms.receivedReady, "READY", i, v)) = 0
      BY <1>2, <3>1, Zenon
    <3>3. QED
      BY <3>1, <3>2
  <2>2. QED
    BY <2>1, Zenon DEF VotesCounted
<1>5. HeardOf /\ EchoSent
  BY <1>1, <1>3 DEF HeardOf, EchoSent
<1>6. ThresholdsActedOn
  BY <1>1, <1>3, Thresholds DEF ThresholdsActedOn
<1>7. QED
  BY <1>4, <1>5, <1>6 DEF ProgressInv

\* What p sends in a step was sent by nobody who has been heard of already.
LEMMA CorrectVotesKept ==
    ASSUME OneEcho', OneReadyValue', ProgressInv,
           NEW p \in Correct, NEW i \in Instance, NEW v \in Value,
           sent \subseteq sent',
           sent' \subseteq sent \cup {Msg(p, "ECHO", i, v), Msg(p, "READY", i, v)},
           NEW R, NEW s \in {"ECHO", "READY"}, NEW j \in Instance, NEW w \in Value,
           \A r \in R \cap Correct : \E u \in Value : Msg(r, s, j, u) \in sent
    PROVE  CorrectVotes(R, s, j, w)' = CorrectVotes(R, s, j, w)
<1> SUFFICES ASSUME NEW r \in R \cap Correct, Msg(r, s, j, w) \in sent'
             PROVE  Msg(r, s, j, w) \in sent
  BY DEF CorrectVotes
<1>1. PICK u \in Value : Msg(r, s, j, u) \in sent
  OBVIOUS
<1>2. u = w
  BY <1>1 DEF OneEcho, OneReadyValue, Msg
<1>3. QED
  BY <1>1, <1>2

LEMMA ProgressHandler ==
    ASSUME QuorumInv, QuorumInv', ProgressInv, NEW p \in Correct, NEW q \in Proc,
           NEW i \in Instance, NEW v \in Value, HandleMessage(p, q, i, v)
    PROVE  ProgressInv'
<1>1. TypeOK /\ OneEcho /\ OneReadyValue /\ OneEcho' /\ OneReadyValue'
  <2>1. OneReadyValue /\ OneReadyValue'
    BY InvImpliesOneReady, PTL
  <2>2. QED
    BY <2>1 DEF QuorumInv
<1>2. /\ sent \subseteq sent'
      /\ sent' \subseteq sent \cup {Msg(p, "ECHO", i, v), Msg(p, "READY", i, v)}
      /\ \A p2 \in Correct, i2 \in Instance :
            <<p2, i2>> # <<p, i>> =>
              /\ transactionsLog'[p2][i2] = transactionsLog[p2][i2]
              /\ deliveredTransactions'[p2][i2] = deliveredTransactions[p2][i2]
  BY <1>1, HandlerShape
<1> DEFINE new == transactionsLog'[p][i]
<1>3. /\ \A w \in Value :
            /\ Cardinality(CorrectVotes(new.receivedEcho, "ECHO", i, w)) <= new.echoCount[w]
            /\ Cardinality(CorrectVotes(new.receivedReady, "READY", i, w)) <= new.readyCount[w]
      /\ \A r \in Correct :
            /\ r \in new.receivedEcho => \E w \in Value : Msg(r, "ECHO", i, w) \in sent
            /\ r \in new.receivedReady => \E w \in Value : Msg(r, "READY", i, w) \in sent
      /\ ~Delivered(p, i)' => \A w \in Value :
            /\ new.readyCount[w] < MessagesForDelivery
            /\ new.stage # "SentReady" => /\ new.readyCount[w] < MessagesForReady
                                         /\ new.echoCount[w] < MessagesForEcho
      /\ Delivered(p, i)' \/ new.stage # "Init" =>
            \E w \in Value : Msg(p, "ECHO", i, w) \in sent'
  BY <1>1, HandlerProgress
<1> HIDE DEF new
<1>4. ASSUME NEW p2 \in Correct, NEW j \in Instance, NEW ms, ms = transactionsLog'[p2][j]
      PROVE  /\ \A w \in Value :
                  /\ Cardinality(CorrectVotes(ms.receivedEcho, "ECHO", j, w)) <= ms.echoCount[w]
                  /\ Cardinality(CorrectVotes(ms.receivedReady, "READY", j, w)) <= ms.readyCount[w]
             /\ \A r \in Correct :
                  /\ r \in ms.receivedEcho => \E w \in Value : Msg(r, "ECHO", j, w) \in sent
                  /\ r \in ms.receivedReady => \E w \in Value : Msg(r, "READY", j, w) \in sent
  <2>1. CASE <<p2, j>> = <<p, i>>
    BY <1>3, <1>4, <2>1 DEF new
  <2>2. CASE <<p2, j>> # <<p, i>>
    BY <1>2, <1>4, <2>2 DEF ProgressInv, VotesCounted, HeardOf
  <2>3. QED
    BY <2>1, <2>2
<1>5. VotesCounted'
  <2> SUFFICES ASSUME NEW p2 \in Correct, NEW j \in Instance, NEW w \in Value,
                      NEW ms, ms = transactionsLog'[p2][j]
               PROVE  /\ Cardinality(CorrectVotes(ms.receivedEcho, "ECHO", j, w)') <= ms.echoCount[w]
                      /\ Cardinality(CorrectVotes(ms.receivedReady, "READY", j, w)') <= ms.readyCount[w]
    BY DEF VotesCounted
  <2>1. CorrectVotes(ms.receivedEcho, "ECHO", j, w)' = CorrectVotes(ms.receivedEcho, "ECHO", j, w)
    BY <1>1, <1>2, <1>4, CorrectVotesKept
  <2>2. CorrectVotes(ms.receivedReady, "READY", j, w)' = CorrectVotes(ms.receivedReady, "READY", j, w)
    BY <1>1, <1>2, <1>4, CorrectVotesKept
  <2>3. QED
    BY <1>4, <2>1, <2>2
<1>6. HeardOf'
  BY <1>2, <1>4 DEF HeardOf
<1>7. ThresholdsActedOn'
  <2> SUFFICES ASSUME NEW p2 \in Correct, NEW j \in Instance, NEW w \in Value,
                      ~Delivered(p2, j)', NEW ms, ms = transactionsLog'[p2][j]
               PROVE  /\ ms.readyCount[w] < MessagesForDelivery
                      /\ ms.stage # "SentReady" => /\ ms.readyCount[w] < MessagesForReady
                                                  /\ ms.echoCount[w] < MessagesForEcho
    BY DEF ThresholdsActedOn
  <2>1. CASE <<p2, j>> = <<p, i>>
    BY <1>3, <2>1 DEF new
  <2>2. CASE <<p2, j>> # <<p, i>>
    BY <1>2, <2>2 DEF ProgressInv, ThresholdsActedOn, Delivered
  <2>3. QED
    BY <2>1, <2>2
<1>8. EchoSent'
  <2> SUFFICES ASSUME NEW p2 \in Correct, NEW j \in Instance,
                      Delivered(p2, j)' \/ transactionsLog'[p2][j].stage # "Init"
               PROVE  \E w \in Value : Msg(p2, "ECHO", j, w) \in sent'
    BY DEF EchoSent
  <2>1. CASE <<p2, j>> = <<p, i>>
    BY <1>3, <2>1 DEF new
  <2>2. CASE <<p2, j>> # <<p, i>>
    BY <1>2, <2>2 DEF ProgressInv, EchoSent, Delivered
  <2>3. QED
    BY <2>1, <2>2
<1>9. QED
  BY <1>5, <1>6, <1>7, <1>8 DEF ProgressInv

LEMMA ProgressNext == QuorumInv /\ QuorumInv' /\ ProgressInv /\ [Next]_vars => ProgressInv'
<1> SUFFICES ASSUME QuorumInv, QuorumInv', ProgressInv, [Next]_vars
             PROVE  ProgressInv'
  OBVIOUS
<1>1. ASSUME NEW p \in Correct, NEW q \in Proc, NEW i \in Instance, NEW v \in Value,
             HandleMessage(p, q, i, v)
      PROVE  ProgressInv'
  BY <1>1, ProgressHandler
<1>2. ASSUME UNCHANGED <<transactionsLog, deliveredTransactions>>, sent \subseteq sent',
             \A m \in sent' \ sent : m.stage = "INITIAL"
      PROVE  ProgressInv'
  <2>1. \A r, i, v : /\ Msg(r, "ECHO", i, v) \in sent' <=> Msg(r, "ECHO", i, v) \in sent
                    /\ Msg(r, "READY", i, v) \in sent' <=> Msg(r, "READY", i, v) \in sent
    BY <1>2 DEF Msg
  <2>2. ASSUME NEW R, NEW i, NEW v
        PROVE  /\ CorrectVotes(R, "ECHO", i, v)' = CorrectVotes(R, "ECHO", i, v)
               /\ CorrectVotes(R, "READY", i, v)' = CorrectVotes(R, "READY", i, v)
    <3>1. ASSUME NEW r \in R \cap Correct
          PROVE  /\ Msg(r, "ECHO", i, v) \in sent' <=> Msg(r, "ECHO", i, v) \in sent
                 /\ Msg(r, "READY", i, v) \in sent' <=> Msg(r, "READY", i, v) \in sent
      BY <1>2 DEF Msg
    <3>2. QED
      BY <3>1 DEF CorrectVotes
  <2>3. VotesCounted'
    <3> SUFFICES ASSUME NEW p \in Correct, NEW i \in Instance, NEW v \in Value,
                        NEW ms, ms = transactionsLog'[p][i]
                 PROVE  /\ Cardinality(CorrectVotes(ms.receivedEcho, "ECHO", i, v)') <= ms.echoCount[v]
                        /\ Cardinality(CorrectVotes(ms.receivedReady, "READY", i, v)') <= ms.readyCount[v]
      BY DEF VotesCounted
    <3>1. QED
      BY <1>2, <2>2 DEF ProgressInv, VotesCounted
  <2>4. HeardOf' /\ EchoSent' /\ ThresholdsActedOn'
    BY <1>2, <2>1 DEF ProgressInv, HeardOf, EchoSent, ThresholdsActedOn, Delivered
  <2>5. QED
    BY <2>3, <2>4 DEF ProgressInv
<1>3. ASSUME NEW p \in Correct, NEW v \in Value, Broadcast(p, v)
      PROVE  ProgressInv'
  BY <1>2, <1>3 DEF Broadcast, Msg
<1>4. CASE UNCHANGED vars
  BY <1>2, <1>4 DEF vars
<1>5. QED
  BY <1>1, <1>3, <1>4 DEF Next

-----------------------------------------------------------------------------
(* What a settled network implies, if n > 3f *)

\* The correct processes alone reach every threshold.
LEMMA CorrectSuffice ==
    ASSUME N > 3 * F
    PROVE  /\ Cardinality(Correct) \in Nat
           /\ Cardinality(Correct) >= MessagesForEcho
           /\ Cardinality(Correct) >= MessagesForDelivery
<1>1. Cardinality(Correct) = N - Cardinality(Faulty)
  <2>1. Proc \cap Faulty = Faulty
    BY FaultyAssumption
  <2>2. Cardinality(Proc \ Faulty) = Cardinality(Proc) - Cardinality(Proc \cap Faulty)
    BY FS_Difference, ProcAssumption
  <2>3. QED
    BY <2>1, <2>2, Zenon DEF Correct, N
<1>2. Cardinality(Faulty) \in Nat /\ Cardinality(Faulty) <= F
  BY ProcSubset, FaultyAssumption
<1>3. Cardinality(Correct) \in Nat
  BY ProcSubset DEF Correct
<1>4. MessagesForEcho <= N - F
  BY Thresholds DEF MessagesForEcho
<1>5. QED
  BY <1>1, <1>2, <1>3, <1>4, Thresholds

\* In a settled network who has not delivered has counted all READYs of
\* correct processes.
LEMMA SettledCountsReadies ==
    ASSUME TypeOK, ProgressInv, Settled, NEW q \in Correct, NEW i \in Instance,
           NEW v \in Value, ~Delivered(q, i), NEW C \in SUBSET Correct,
           \A r \in C : Msg(r, "READY", i, v) \in sent
    PROVE  Cardinality(C) <= transactionsLog[q][i].readyCount[v]
<1> DEFINE ms == transactionsLog[q][i]
           votes == CorrectVotes(ms.receivedReady, "READY", i, v)
<1>1. \A r \in C : r \in ms.receivedReady
  BY DEF Settled, Accepts, FirstVote, Stages
<1>2. C \subseteq votes
  BY <1>1 DEF CorrectVotes
<1>3. votes \in SUBSET Proc /\ Cardinality(votes) \in Nat
  BY CorrectVotesType
<1>4. Cardinality(C) <= Cardinality(votes)
  BY <1>2, <1>3, SubsetCardinality
<1>5. Cardinality(votes) <= ms.readyCount[v]
  BY DEF ProgressInv, VotesCounted
<1>6. Cardinality(C) \in Nat /\ ms.readyCount[v] \in Nat
  BY ProcSubset, MessageStateType DEF Correct, MessageState
<1>7. QED
  BY <1>3, <1>4, <1>5, <1>6

\* The same of ECHOs, as long as no READY is sent.
LEMMA SettledCountsEchoes ==
    ASSUME TypeOK, ProgressInv, Settled, NEW q \in Correct, NEW i \in Instance,
           NEW v \in Value, ~Delivered(q, i), transactionsLog[q][i].stage # "SentReady",
           \A r \in Correct : Msg(r, "ECHO", i, v) \in sent
    PROVE  Cardinality(Correct) <= transactionsLog[q][i].echoCount[v]
<1> DEFINE ms == transactionsLog[q][i]
           votes == CorrectVotes(ms.receivedEcho, "ECHO", i, v)
<1>1. \A r \in Correct : r \in ms.receivedEcho
  BY DEF Settled, Accepts, FirstVote, Stages
<1>2. Correct \subseteq votes
  BY <1>1 DEF CorrectVotes
<1>3. votes \in SUBSET Proc /\ Cardinality(votes) \in Nat
  BY CorrectVotesType
<1>4. Cardinality(Correct) <= Cardinality(votes)
  BY <1>2, <1>3, SubsetCardinality
<1>5. Cardinality(votes) <= ms.echoCount[v]
  BY DEF ProgressInv, VotesCounted
<1>6. Cardinality(Correct) \in Nat /\ ms.echoCount[v] \in Nat
  BY ProcSubset, MessageStateType DEF Correct, MessageState
<1>7. QED
  BY <1>3, <1>4, <1>5, <1>6

\* When all correct processes have sent READY for a value, all deliver.
LEMMA AllReadyAllDeliver ==
    ASSUME N > 3 * F, TypeOK, ProgressInv, Settled, NEW i \in Instance, NEW v \in Value,
           \A r \in Correct : Msg(r, "READY", i, v) \in sent,
           NEW q \in Correct
    PROVE  Delivered(q, i)
<1> SUFFICES ASSUME ~Delivered(q, i)
             PROVE  FALSE
  OBVIOUS
<1>1. Cardinality(Correct) <= transactionsLog[q][i].readyCount[v]
  BY SettledCountsReadies
<1>2. transactionsLog[q][i].readyCount[v] < MessagesForDelivery
  BY DEF ProgressInv, ThresholdsActedOn
<1>3. transactionsLog[q][i].readyCount[v] \in Nat
  BY MessageStateType DEF MessageState
<1>4. QED
  BY <1>1, <1>2, <1>3, CorrectSuffice, Thresholds

\* Who has delivered or reached stage SentReady has sent READY for the value
\* that is READY anywhere.
LEMMA ReadyForTheValue ==
    ASSUME QuorumInv, NEW q \in Correct, NEW i \in Instance,
           Delivered(q, i) \/ transactionsLog[q][i].stage = "SentReady"
    PROVE  \E w \in Value : /\ Msg(q, "READY", i, w) \in sent
                            /\ Delivered(q, i) => w = deliveredTransactions[q][i]
<1>1. CASE Delivered(q, i)
  <2>1. deliveredTransactions[q][i] \in Value
    BY <1>1 DEF QuorumInv, TypeOK, Delivered
  <2>2. QED
    BY <1>1, <2>1 DEF QuorumInv, DeliveredImpliesOwnReady
<1>2. CASE ~Delivered(q, i)
  BY <1>2 DEF QuorumInv, StageRecordsSent
<1>3. QED
  BY <1>1, <1>2

\* f+1 correct READYs reach everybody who has not delivered, and make them
\* send their own.
LEMMA InvImpliesTotality == N > 3 * F /\ QuorumInv /\ ProgressInv => Totality
<1> SUFFICES ASSUME N > 3 * F, QuorumInv, ProgressInv, Settled,
                    NEW p \in Correct, NEW q \in Correct, NEW i \in Instance, Delivered(p, i)
             PROVE  Delivered(q, i)
  BY DEF Totality
<1>1. TypeOK /\ OneReadyValue
  BY InvImpliesOneReady DEF QuorumInv
<1>2. PICK v \in Value : /\ Msg(p, "READY", i, v) \in sent
                        /\ v = deliveredTransactions[p][i]
  BY ReadyForTheValue
<1> DEFINE V == Voters("READY", i, v)
           C == V \cap Correct
<1>3. Cardinality(V) >= MessagesForDelivery /\ V \in SUBSET Proc
  BY <1>2, VotersType DEF QuorumInv, DeliveryJustified
<1>4. C \in SUBSET Correct /\ \A r \in C : Msg(r, "READY", i, v) \in sent
  BY DEF Voters, Receivable, Correct
<1>5. Cardinality(C) >= MessagesForReady
  <2>1. C = V \ (V \cap Faulty)
    BY <1>3 DEF Correct
  <2>2. /\ IsFiniteSet(V) /\ Cardinality(V) \in Nat
        /\ V \cap Faulty \in SUBSET Faulty
        /\ V \cap (V \cap Faulty) = V \cap Faulty
    BY <1>3, ProcSubset
  <2> HIDE DEF V, C
  <2>3. Cardinality(C) = Cardinality(V) - Cardinality(V \cap Faulty)
    BY <2>1, <2>2, FS_Difference
  <2>4. Cardinality(V \cap Faulty) <= Cardinality(Faulty)
    BY <2>2, SubsetCardinality, FaultyAssumption
  <2>5. Cardinality(V \cap Faulty) \in Nat /\ Cardinality(Faulty) \in Nat
    BY <2>2, ProcSubset, FaultyAssumption
  <2>6. QED
    BY <1>3, <2>2, <2>3, <2>4, <2>5, Thresholds, FaultyAssumption
<1> HIDE DEF V, C
<1>6. ASSUME NEW r \in Correct, ~Delivered(r, i)
      PROVE  transactionsLog[r][i].stage = "SentReady"
  <2>1. Cardinality(C) <= transactionsLog[r][i].readyCount[v]
    BY <1>1, <1>4, <1>6, SettledCountsReadies
  <2>2. transactionsLog[r][i].stage # "SentReady" =>
            transactionsLog[r][i].readyCount[v] < MessagesForReady
    BY <1>6 DEF ProgressInv, ThresholdsActedOn
  <2>3. transactionsLog[r][i].readyCount[v] \in Nat /\ Cardinality(C) \in Nat
    BY <1>1, <1>4, MessageStateType, ProcSubset DEF MessageState, Correct
  <2>4. QED
    BY <1>5, <2>1, <2>2, <2>3, Thresholds
<1>7. ASSUME NEW r \in Correct
      PROVE  Msg(r, "READY", i, v) \in sent
  <2>1. PICK w \in Value : Msg(r, "READY", i, w) \in sent
    BY <1>6, ReadyForTheValue
  <2>2. w = v
    BY <1>1, <1>2, <2>1 DEF OneReadyValue, Msg
  <2>3. QED
    BY <2>1, <2>2
<1>8. QED
  BY <1>1, <1>7, AllReadyAllDeliver

\* All correct processes echo what the author broadcast, so all see its quorum.
LEMMA InvImpliesValidity == N > 3 * F /\ QuorumInv /\ ProgressInv => Validity
<1> SUFFICES ASSUME N > 3 * F, QuorumInv, ProgressInv, Settled,
                    NEW i \in Authentic, NEW v \in Value,
                    Msg(i.author, "INITIAL", i, v) \in sent,
                    NEW q \in Correct
             PROVE  deliveredTransactions[q][i] = v
  BY DEF Validity
<1>1. TypeOK /\ i \in Instance /\ i.author \in Correct
  BY DEF QuorumInv, Authentic
<1>2. ASSUME NEW r \in Correct, NEW w, Msg(r, "ECHO", i, w) \in sent
      PROVE  w = v
  <2>1. Msg(i.author, "INITIAL", i, w) \in sent
    BY <1>2 DEF QuorumInv, EchoAuthentic, Msg
  <2>2. QED
    BY <2>1 DEF QuorumInv, InitialOnce, Msg
<1>3. ASSUME NEW r \in Correct
      PROVE  Msg(r, "ECHO", i, v) \in sent
  <2>1. Delivered(r, i) \/ transactionsLog[r][i].stage # "Init"
    BY <1>1 DEF Settled, Accepts, Stages
  <2>2. PICK w \in Value : Msg(r, "ECHO", i, w) \in sent
    BY <1>1, <2>1 DEF ProgressInv, EchoSent
  <2>3. QED
    BY <1>2, <2>2
<1>4. ASSUME NEW r \in Correct, NEW w, Msg(r, "READY", i, w) \in sent
      PROVE  w = v
  <2>1. Cardinality(Voters("ECHO", i, w)) >= MessagesForEcho
    BY <1>4 DEF QuorumInv, ReadyJustified, Msg
  <2>2. QED
    BY <1>2, <2>1, EchoQuorumCorrect
<1>5. ASSUME NEW r \in Correct, ~Delivered(r, i)
      PROVE  transactionsLog[r][i].stage = "SentReady"
  <2> SUFFICES ASSUME transactionsLog[r][i].stage # "SentReady"
               PROVE  FALSE
    OBVIOUS
  <2>1. Cardinality(Correct) <= transactionsLog[r][i].echoCount[v]
    BY <1>1, <1>3, <1>5, SettledCountsEchoes
  <2>2. transactionsLog[r][i].echoCount[v] < MessagesForEcho
    BY <1>1, <1>5 DEF ProgressInv, ThresholdsActedOn
  <2>3. transactionsLog[r][i].echoCount[v] \in Nat
    BY <1>1, MessageStateType DEF MessageState
  <2>4. QED
    BY <2>1, <2>2, <2>3, CorrectSuffice, Thresholds
<1>6. \A r \in Correct : Msg(r, "READY", i, v) \in sent
  BY <1>1, <1>4, <1>5, ReadyForTheValue
<1>7. Delivered(q, i)
  BY <1>1, <1>6, AllReadyAllDeliver
<1>8. PICK w \in Value : Msg(q, "READY", i, w) \in sent /\ w = deliveredTransactions[q][i]
  BY <1>1, <1>7, ReadyForTheValue
<1>9. QED
  BY <1>4, <1>8

\* No vote that was handled is missing from a counter and no threshold is
\* passed unnoticed, in every reachable state and whatever n and f are.
THEOREM Progress == Spec => []ProgressInv
BY Inductive, ProgressInit, ProgressNext, PTL DEF Spec

\* If n > 3f: once every message between correct processes has been handled,
\* what one of them has delivered all have, for any lies of the faulty ones.
THEOREM AllOrNone == ASSUME N > 3 * F PROVE Spec => []Totality
<1>1. QuorumInv /\ ProgressInv => Totality
  BY InvImpliesTotality
<1>2. QED
  BY <1>1, Inductive, Progress, PTL

\* If n > 3f: once every message between correct processes has been handled,
\* all have delivered what a correct author broadcast.
THEOREM BroadcastsAreDelivered == ASSUME N > 3 * F PROVE Spec => []Validity
<1>1. QuorumInv /\ ProgressInv => Validity
  BY InvImpliesValidity
<1>2. QED
  BY <1>1, Inductive, Progress, PTL
=============================================================================
