-------------------- MODULE ReliableAccountabilityProofs --------------------
(***************************************************************************)
(* Agreement of the witness broadcast, for every number of processes,      *)
(* every F that bounds the faulty ones, every selection of witnesses with  *)
(* fewer than WitnessThreshold faulty own ones, and whatever the reveal    *)
(* phase does.                                                             *)
(***************************************************************************)
EXTENDS ReliableAccountability, InductionTheorems, FiniteSetTheorems, TLAPS

ReadyStages == {"READY_FROM_WITNESS", "READY_FROM_PROCESS", "VALIDATE"}

-----------------------------------------------------------------------------
(* Sets of processes *)

LEMMA ProcSubset ==
    ASSUME NEW S \in SUBSET Proc
    PROVE  IsFiniteSet(S) /\ Cardinality(S) \in Nat /\ Cardinality(S) <= N
BY FS_Subset, FS_CardinalityType, ProcAssumption DEF N

LEMMA SubsetCardinality ==
    ASSUME NEW T \in SUBSET Proc, NEW S \in SUBSET T
    PROVE  Cardinality(S) <= Cardinality(T)
BY ProcSubset, FS_Subset

\* There are no more than F faulty processes, and no more than there are.
LEMMA Thresholds ==
    /\ N \in Nat /\ F \in Nat /\ WitnessThreshold \in Nat
    /\ QuorumThreshold \in Nat /\ 2 * QuorumThreshold >= N + F + 1
    /\ Faulty \in SUBSET Proc /\ Cardinality(Faulty) \in Nat
    /\ Cardinality(Faulty) < QuorumThreshold
    /\ Cardinality(Faulty) < ReadyMessagesThreshold
<1>1. /\ N \in Nat /\ F \in Nat /\ Faulty \in SUBSET Proc
      /\ Cardinality(Faulty) \in Nat /\ Cardinality(Faulty) <= N
      /\ Cardinality(Faulty) <= F
  BY ProcAssumption, ProcSubset, FS_CardinalityType DEF N
<1>2. QED
  BY <1>1, ParameterAssumption DEF QuorumThreshold, ReadyMessagesThreshold

\* A quorum, or f+1 processes, are not all faulty.
LEMMA SomeoneCorrect ==
    ASSUME NEW S \in SUBSET Proc, Cardinality(S) > Cardinality(Faulty)
    PROVE  \E q \in S : q \in Correct
<1> SUFFICES ASSUME S \subseteq Faulty
             PROVE  FALSE
  BY DEF Correct
<1>1. Cardinality(S) <= Cardinality(Faulty)
  BY SubsetCardinality, Thresholds
<1>2. QED
  BY <1>1, ProcSubset, Thresholds

\* Neither are WitnessThreshold own witnesses.
LEMMA CorrectWitness ==
    ASSUME NEW W \in SUBSET Proc, Cardinality(W \cap Faulty) < WitnessThreshold,
           NEW S \in SUBSET W, Cardinality(S) >= WitnessThreshold
    PROVE  \E q \in S : q \in Correct
<1> SUFFICES ASSUME S \subseteq Faulty
             PROVE  FALSE
  BY DEF Correct
<1>1. W \cap Faulty \in SUBSET Proc /\ S \in SUBSET (W \cap Faulty)
  OBVIOUS
<1>2. Cardinality(S) <= Cardinality(W \cap Faulty)
  BY <1>1, SubsetCardinality
<1>3. QED
  BY <1>1, <1>2, ProcSubset, Thresholds

\* Two quorums have a correct process in common.
LEMMA QuorumsIntersect ==
    ASSUME NEW A \in SUBSET Proc, Cardinality(A) >= QuorumThreshold,
           NEW B \in SUBSET Proc, Cardinality(B) >= QuorumThreshold
    PROVE  \E q \in A \cap B : q \in Correct
<1>1. Cardinality(A \cup B) = Cardinality(A) + Cardinality(B) - Cardinality(A \cap B)
  BY FS_Union, ProcSubset
<1>2. Cardinality(A \cup B) <= N /\ Cardinality(A \cup B) \in Nat
  BY ProcSubset
<1>3. /\ Cardinality(A) \in Nat /\ Cardinality(B) \in Nat
      /\ Cardinality(A \cap B) \in Nat /\ A \cap B \in SUBSET Proc
  BY ProcSubset
<1>4. Cardinality(A \cap B) > F
  BY <1>1, <1>2, <1>3, Thresholds
<1>5. Cardinality(A \cap B) > Cardinality(Faulty)
  BY <1>3, <1>4, Thresholds, ProcAssumption
<1>6. QED
  BY <1>3, <1>5, SomeoneCorrect

-----------------------------------------------------------------------------
(* Votes and voters *)

LEMMA VotersType ==
    ASSUME NEW s, NEW i, NEW v
    PROVE  Voters(s, i, v) \in SUBSET Proc
BY DEF Voters

LEMMA CorrectVoter ==
    ASSUME NEW s, NEW i, NEW v, NEW q \in Voters(s, i, v), q \in Correct
    PROVE  Sent(q, s, i, v)
BY DEF Voters, Correct

\* A message of stage s for v with the content c may arrive from q.
Arrives(q, s, i, v, c) ==
    \/ q \in Correct /\ \E m \in sent : /\ m.from = q /\ m.stage = s /\ m.inst = i
                                      /\ m.value = v /\ m.content = c
    \/ /\ q \in Faulty /\ <<s, i.author>> \in FaultyMessages
       /\ \E d \in FaultyContent[i.author] : c = IF CarriesShares(s) THEN d ELSE HashOnly(d)

\* Whatever can be received may have been sent.
LEMMA ReceivedVoter ==
    ASSUME NEW q \in Proc, NEW s, NEW i, NEW v, NEW c, Arrives(q, s, i, v, c)
    PROVE  q \in Voters(s, i, v)
BY DEF Arrives, Voters, Sent

LEMMA HashOnlyType ==
    ASSUME NEW c \in Content
    PROVE  HashOnly(c) \in Content /\ HashOnly(c).xHash = c.xHash
BY DEF HashOnly, Content, NoShares, ShareVector

LEMMA IncomingArrives ==
    ASSUME sent \subseteq Message, NEW p \in Correct, NEW m \in Incoming(p)
    PROVE  /\ m.from \in Proc /\ m.stage \in BroadcastStages /\ m.inst \in Instance
           /\ m.value \in Value /\ m.content \in Content
           /\ Arrives(m.from, m.stage, m.inst, m.value, m.content)
           /\ Receivable(p, m.from, m.stage, m.inst, m.value)
<1>1. Receivable(p, m.from, m.stage, m.inst, m.value)
  BY DEF Receivable
<1>2. CASE m \in sent
  <2>1. m \in Message
    BY <1>2
  <2>2. QED
    BY <1>1, <1>2, <2>1 DEF Message, Arrives, Correct
<1>3. CASE m \in FaultyBroadcasts
  <2>0. PICK q \in Faulty, i \in Instance :
           \E s \in BroadcastStages, v \in Value, d \in FaultyContent[i.author] :
              m = Msg(q, FaultyTo, s, i, v, IF CarriesShares(s) THEN d ELSE HashOnly(d))
    BY <1>3 DEF FaultyBroadcasts
  <2>1. PICK s \in BroadcastStages, v \in Value, d \in FaultyContent[i.author] :
           m = Msg(q, FaultyTo, s, i, v, IF CarriesShares(s) THEN d ELSE HashOnly(d))
    BY <2>0
  <2>2. <<m.stage, m.inst.author>> \in FaultyMessages
    BY <1>3 DEF FaultyBroadcasts
  <2>3. i.author \in Proc /\ q \in Proc
    BY BoundAssumption, ProcAssumption DEF Instance
  <2>4. d \in Content
    BY <2>3, SecretAssumption
  <2>5. (IF CarriesShares(s) THEN d ELSE HashOnly(d)) \in Content
    BY <2>4, HashOnlyType
  <2>6. /\ m.from = q /\ m.stage = s /\ m.inst = i /\ m.value = v
        /\ m.content = IF CarriesShares(s) THEN d ELSE HashOnly(d)
    BY <2>1 DEF Msg
  <2>7. QED
    BY <1>1, <2>2, <2>3, <2>5, <2>6 DEF Arrives
<1>4. QED
  BY <1>2, <1>3 DEF Incoming

\* Counting one more vote.
LEMMA VoteAdded ==
    ASSUME NEW votes \in Votes, NEW q \in Proc, NEW v \in Value,
           NEW s, NEW i, Backed(votes, s, i), q \in Voters(s, i, v)
    PROVE  /\ votes \cup {<<q, v>>} \in Votes
           /\ Backed(votes \cup {<<q, v>>}, s, i)
BY DEF Votes, Backed, VotesFor

LEMMA WitnessVoteAdded ==
    ASSUME NEW votes \in Votes, NEW v \in Value,
           NEW W \in SUBSET Proc, NEW q \in W, Within(votes, W)
    PROVE  Within(votes \cup {<<q, v>>}, W)
BY DEF Votes, Within, VotesFor

\* Enough backed votes of READYs mean that a correct process was ready.
LEMMA ProcessesReady ==
    ASSUME NEW votes, NEW s \in ReadyStages, NEW i \in Instance, NEW v \in Value,
           Backed(votes, s, i), QuorumBehindReady,
           Cardinality(VotesFor(votes, v)) > Cardinality(Faulty)
    PROVE  EchoQuorum(i, v)
<1>1. VotesFor(votes, v) \in SUBSET Proc /\ VotesFor(votes, v) \subseteq Voters(s, i, v)
  BY DEF Backed, VotesFor
<1>2. PICK q \in VotesFor(votes, v) : q \in Correct
  BY <1>1, SomeoneCorrect
<1>3. Sent(q, s, i, v)
  BY <1>1, <1>2, CorrectVoter
<1>4. QED
  BY <1>3 DEF Sent, QuorumBehindReady, ReadyStages

LEMMA WitnessesReady ==
    ASSUME NEW votes, NEW s \in ReadyStages, NEW i \in Instance, NEW v \in Value,
           NEW W \in SUBSET Proc, Cardinality(W \cap Faulty) < WitnessThreshold,
           Backed(votes, s, i), Within(votes, W), QuorumBehindReady,
           Cardinality(VotesFor(votes, v)) >= WitnessThreshold
    PROVE  EchoQuorum(i, v)
<1>1. /\ VotesFor(votes, v) \in SUBSET W
      /\ VotesFor(votes, v) \subseteq Voters(s, i, v)
  BY DEF Backed, Within
<1>2. PICK q \in VotesFor(votes, v) : q \in Correct
  BY <1>1, CorrectWitness
<1>3. Sent(q, s, i, v)
  BY <1>1, <1>2, CorrectVoter
<1>4. QED
  BY <1>3 DEF Sent, QuorumBehindReady, ReadyStages

LEMMA EchoesReady ==
    ASSUME NEW votes, NEW i, NEW v \in Value, Backed(votes, "ECHO_FROM_PROCESS", i),
           Cardinality(VotesFor(votes, v)) >= QuorumThreshold
    PROVE  EchoQuorum(i, v)
<1>1. /\ VotesFor(votes, v) \in SUBSET Voters("ECHO_FROM_PROCESS", i, v)
      /\ Voters("ECHO_FROM_PROCESS", i, v) \in SUBSET Proc
  BY VotersType DEF Backed
<1>2. Cardinality(VotesFor(votes, v)) <= Cardinality(Voters("ECHO_FROM_PROCESS", i, v))
  BY <1>1, SubsetCardinality
<1>3. VotesFor(votes, v) \in SUBSET Proc
  BY <1>1
<1>4. QED
  BY <1>1, <1>2, <1>3, ProcSubset, Thresholds DEF EchoQuorum

-----------------------------------------------------------------------------
(* What a handler makes of the message state *)

\* The values of an authentic instance are those its author broadcast.
Sourced(i, v) == i \in Authentic => Sent(i.author, "NOTIFY", i, v)

\* From the state ms, a handler for the value v and the content c gets to x and
\* sends msgs.
Outcome(p, i, v, c, ms, x, msgs) ==
    /\ StateBacked(x, i) /\ x.stage >= ms.stage
    /\ x.ownEncryptedShare \in {ms.ownEncryptedShare, c.encryptedShares[p]}
    /\ \A m \in msgs :
          /\ m \in Message /\ m.from = p /\ m.inst = i /\ m.value = v
          /\ m.content \in {c, HashOnly(c)}
          /\ m.stage # "NOTIFY"
          /\ m.stage \in ReadyStages => EchoQuorum(i, v)
          /\ m.stage \in {"ECHO_FROM_WITNESS", "ECHO_FROM_PROCESS"} => Sourced(i, v)
          /\ m.stage = "ECHO_FROM_PROCESS" =>
                ms.stage < SentEchoFromProcess /\ x.stage >= SentEchoFromProcess

LEMMA NoStateIsNone ==
    ASSUME NEW ms \in MessageState
    PROVE  ms # NoState
<1>1. "stage" \in DOMAIN ms
  BY DEF MessageState
<1>2. "stage" \notin DOMAIN NoState
  BY DEF NoState
<1>3. QED
  BY <1>1, <1>2

LEMMA FreshState ==
    ASSUME NEW p \in Correct, NEW i, history[p] \in SUBSET (Instance \X Secret)
    PROVE  StateBacked(NewMessageState(p), i)
<1> DEFINE ms == NewMessageState(p)
           W == OwnWitnessSet[history[p]]
<1>1. W \in SUBSET Proc /\ Cardinality(W \cap Faulty) < WitnessThreshold
  BY WitnessAssumption
<1>2. PotWitnessSet[history[p]] \in SUBSET Proc
  BY WitnessAssumption
<1>3. ms \in MessageState
  BY <1>1, <1>2
  DEF NewMessageState, MessageState, Votes, InitialStage, DeliveredStage,
      InitialWitnessStage, SentValidate
<1>4. /\ ms.ownWitnessSet = W
      /\ ms.echoFromProcesses = {} /\ ms.readyFromProcesses = {}
      /\ ms.readyFromWitnesses = {} /\ ms.validateFromWitnesses = {}
  BY DEF NewMessageState
<1> HIDE DEF ms, W
<1>5. StateBacked(ms, i)
  BY <1>1, <1>3, <1>4 DEF StateBacked, Backed, Within, VotesFor
<1>6. QED
  BY <1>5 DEF ms

\* A state with the same votes and the same own witnesses.
LEMMA SameVotes ==
    ASSUME NEW ms, NEW i, StateBacked(ms, i), NEW x \in MessageState,
           x.ownWitnessSet = ms.ownWitnessSet,
           x.echoFromProcesses = ms.echoFromProcesses,
           x.readyFromProcesses = ms.readyFromProcesses,
           x.readyFromWitnesses = ms.readyFromWitnesses,
           x.validateFromWitnesses = ms.validateFromWitnesses
    PROVE  StateBacked(x, i)
BY DEF StateBacked

LEMMA StateParts ==
    ASSUME NEW ms, NEW i, StateBacked(ms, i)
    PROVE  /\ ms \in MessageState
           /\ ms.stage \in 0 .. 3 /\ ms.witnessStage \in 0 .. 3
           /\ ms.ownWitnessSet \in SUBSET Proc /\ ms.potWitnessSet \in SUBSET Proc
           /\ ms.echoFromProcesses \in Votes /\ ms.readyFromProcesses \in Votes
           /\ ms.readyFromWitnesses \in Votes /\ ms.validateFromWitnesses \in Votes
BY DEF StateBacked, MessageState, InitialStage, DeliveredStage, InitialWitnessStage,
       SentValidate

LEMMA MsgFields ==
    ASSUME NEW p \in Correct, NEW to \in SUBSET Proc, NEW s \in BroadcastStages,
           NEW i \in Instance, NEW v \in Value, NEW c \in Content,
           NEW m, m = Msg(p, to, s, i, v, c)
    PROVE  /\ m \in Message /\ m.from = p /\ m.to = to /\ m.stage = s
           /\ m.inst = i /\ m.value = v /\ m.content = c
BY DEF Msg, Message

\* In an authentic instance, NOTIFY comes from the author alone, and
\* ECHO_FROM_WITNESS from correct witnesses.
LEMMA NotifySourced ==
    ASSUME NEW q \in Proc, NEW i \in Instance, NEW v \in Value, NEW c,
           Arrives(q, "NOTIFY", i, v, c), NotifiedOnce
    PROVE  Sourced(i, v)
<1> SUFFICES ASSUME i \in Authentic
             PROVE  Sent(i.author, "NOTIFY", i, v)
  BY DEF Sourced
<1>1. q \in Correct /\ Sent(q, "NOTIFY", i, v)
  BY DEF Arrives, Authentic, Sent
<1>2. QED
  BY <1>1 DEF Sent, NotifiedOnce

LEMMA EchoFromWitnessSourced ==
    ASSUME NEW q \in Proc, NEW i \in Instance, NEW v \in Value, NEW c,
           Arrives(q, "ECHO_FROM_WITNESS", i, v, c), EchoSourced
    PROVE  Sourced(i, v)
<1> SUFFICES ASSUME i \in Authentic
             PROVE  Sent(i.author, "NOTIFY", i, v)
  BY DEF Sourced
<1>1. q \in Correct /\ Sent(q, "ECHO_FROM_WITNESS", i, v)
  BY DEF Arrives, Authentic, Sent
<1>2. QED
  BY <1>1 DEF Sent, EchoSourced

LEMMA OnNotify ==
    ASSUME NEW p \in Correct, NEW q \in Proc, NEW i \in Instance, NEW v \in Value,
           NEW c \in Content, NEW ms,
           StateBacked(ms, i), WitnessInv, Arrives(q, "NOTIFY", i, v, c),
           ReceiveNotify(p, i, v, c, ms)
    PROVE  \E x, msgs : Update(p, i, x, msgs) /\ Outcome(p, i, v, c, ms, x, msgs)
<1> DEFINE x == [ms EXCEPT !.encryptedShares = c.encryptedShares,
                           !.ownEncryptedShare = c.encryptedShares[p],
                           !.witnessStage = SentEchoFromWitness]
           m == Msg(p, Proc, "ECHO_FROM_WITNESS", i, v, c)
<1>1. /\ x \in MessageState /\ x.stage = ms.stage
      /\ x.ownEncryptedShare = c.encryptedShares[p]
      /\ x.ownWitnessSet = ms.ownWitnessSet
      /\ x.echoFromProcesses = ms.echoFromProcesses
      /\ x.readyFromProcesses = ms.readyFromProcesses
      /\ x.readyFromWitnesses = ms.readyFromWitnesses
      /\ x.validateFromWitnesses = ms.validateFromWitnesses
  <2>1. ms \in MessageState
    BY StateParts
  <2>2. SentEchoFromWitness \in InitialWitnessStage .. SentValidate
    BY DEF InitialWitnessStage, SentEchoFromWitness, SentValidate
  <2>3. /\ c.encryptedShares \in ShareVector \cup {None}
        /\ c.encryptedShares[p] \in Cipher \cup {None}
    BY DEF Content, ShareVector, Correct
  <2>4. QED
    BY <2>1, <2>2, <2>3, Zenon DEF MessageState
<1>2. StateBacked(x, i) /\ x.stage >= ms.stage
  <2> HIDE DEF x
  <2>1. StateBacked(x, i)
    BY <1>1, SameVotes
  <2>2. QED
    BY <1>1, <2>1, StateParts
<1>3. Sourced(i, v)
  BY NotifySourced DEF WitnessInv
<1>4. /\ m \in Message /\ m.from = p /\ m.inst = i /\ m.value = v
      /\ m.stage = "ECHO_FROM_WITNESS" /\ m.content = c
  BY DEF Msg, Message, BroadcastStages
<1>5. Update(p, i, x, {m})
  BY DEF ReceiveNotify
<1> HIDE DEF x, m
<1>6. Outcome(p, i, v, c, ms, x, {m})
  BY <1>1, <1>2, <1>3, <1>4 DEF Outcome, ReadyStages
<1>7. QED
  BY <1>5, <1>6

LEMMA OnEchoFromWitness ==
    ASSUME NEW p \in Correct, NEW q \in Proc, NEW i \in Instance, NEW v \in Value,
           NEW c \in Content, NEW ms,
           StateBacked(ms, i), WitnessInv, Arrives(q, "ECHO_FROM_WITNESS", i, v, c),
           ReceiveEchoFromWitness(p, q, i, v, c, ms)
    PROVE  \E x, msgs : Update(p, i, x, msgs) /\ Outcome(p, i, v, c, ms, x, msgs)
<1> DEFINE x == [ms EXCEPT !.ownEncryptedShare = c.encryptedShares[p],
                           !.stage = SentEchoFromProcess]
           m == Msg(p, ms.potWitnessSet, "ECHO_FROM_PROCESS", i, v, HashOnly(c))
<1>1. /\ x \in MessageState /\ x.stage = SentEchoFromProcess
      /\ x.ownEncryptedShare = c.encryptedShares[p]
      /\ x.ownWitnessSet = ms.ownWitnessSet
      /\ x.echoFromProcesses = ms.echoFromProcesses
      /\ x.readyFromProcesses = ms.readyFromProcesses
      /\ x.readyFromWitnesses = ms.readyFromWitnesses
      /\ x.validateFromWitnesses = ms.validateFromWitnesses
  <2>1. ms \in MessageState
    BY StateParts
  <2>2. SentEchoFromProcess \in InitialStage .. DeliveredStage
    BY DEF InitialStage, SentEchoFromProcess, DeliveredStage
  <2>3. c.encryptedShares[p] \in Cipher \cup {None}
    BY DEF Content, ShareVector, Correct
  <2>4. QED
    BY <2>1, <2>2, <2>3, Zenon DEF MessageState
<1>2. StateBacked(x, i)
  <2> HIDE DEF x
  <2>1. QED
    BY <1>1, SameVotes
<1>3. ms.stage < SentEchoFromProcess /\ x.stage >= SentEchoFromProcess /\ x.stage >= ms.stage
  <2> HIDE DEF x
  <2>1. QED
    BY <1>1, StateParts DEF ReceiveEchoFromWitness, TakesEchoFromWitness, SentEchoFromProcess
<1>4. Sourced(i, v)
  BY EchoFromWitnessSourced DEF WitnessInv
<1>5. /\ m \in Message /\ m.from = p /\ m.inst = i /\ m.value = v
      /\ m.stage = "ECHO_FROM_PROCESS" /\ m.content = HashOnly(c)
  BY StateParts, HashOnlyType DEF Msg, Message, BroadcastStages
<1>6. Update(p, i, x, {m})
  BY DEF ReceiveEchoFromWitness
<1> HIDE DEF x, m
<1>7. Outcome(p, i, v, c, ms, x, {m})
  BY <1>1, <1>2, <1>3, <1>4, <1>5 DEF Outcome, ReadyStages
<1>8. QED
  BY <1>6, <1>7

LEMMA OnEchoFromProcess ==
    ASSUME NEW p \in Correct, NEW q \in Proc, NEW i \in Instance, NEW v \in Value,
           NEW c \in Content, NEW ms,
           StateBacked(ms, i), WitnessInv, Arrives(q, "ECHO_FROM_PROCESS", i, v, c),
           ReceiveEchoFromProcess(p, q, i, v, c, ms)
    PROVE  \E x, msgs : Update(p, i, x, msgs) /\ Outcome(p, i, v, c, ms, x, msgs)
<1> DEFINE votes == ms.echoFromProcesses \cup {<<q, v>>}
           ms2 == [ms EXCEPT !.echoFromProcesses = @ \cup {<<q, v>>}]
           x == [ms2 EXCEPT !.witnessStage = SentReadyFromWitness]
           m == Msg(p, Proc, "READY_FROM_WITNESS", i, v, HashOnly(c))
<1>1. votes \in Votes /\ Backed(votes, "ECHO_FROM_PROCESS", i)
  BY ReceivedVoter, VoteAdded, StateParts DEF StateBacked
<1>2. /\ ms2 \in MessageState /\ ms2.stage = ms.stage
      /\ ms2.ownEncryptedShare = ms.ownEncryptedShare
      /\ ms2.ownWitnessSet = ms.ownWitnessSet
      /\ ms2.echoFromProcesses = votes
      /\ ms2.readyFromProcesses = ms.readyFromProcesses
      /\ ms2.readyFromWitnesses = ms.readyFromWitnesses
      /\ ms2.validateFromWitnesses = ms.validateFromWitnesses
  <2>1. ms \in MessageState
    BY StateParts
  <2>2. QED
    BY <1>1, <2>1, Zenon DEF MessageState
<1>3. StateBacked(ms2, i) /\ ms2.stage >= ms.stage
  <2> HIDE DEF ms2, votes
  <2>1. QED
    BY <1>1, <1>2, StateParts DEF StateBacked
<1>4. CASE /\ Cardinality(VotesFor(ms2.echoFromProcesses, v)) >= QuorumThreshold
           /\ Update(p, i, x, {m})
  <2>1. EchoQuorum(i, v)
    BY <1>1, <1>2, <1>4, EchoesReady
  <2>2. /\ x \in MessageState /\ x.stage = ms2.stage
        /\ x.ownEncryptedShare = ms2.ownEncryptedShare
        /\ x.ownWitnessSet = ms2.ownWitnessSet
        /\ x.echoFromProcesses = ms2.echoFromProcesses
        /\ x.readyFromProcesses = ms2.readyFromProcesses
        /\ x.readyFromWitnesses = ms2.readyFromWitnesses
        /\ x.validateFromWitnesses = ms2.validateFromWitnesses
    <3> HIDE DEF ms2
    <3>1. QED
      <4>1. SentReadyFromWitness \in InitialWitnessStage .. SentValidate
        BY DEF InitialWitnessStage, SentReadyFromWitness, SentValidate
      <4>2. QED
        BY <1>2, <4>1, Zenon DEF MessageState
  <2>3. StateBacked(x, i) /\ x.stage >= ms.stage
    <3> HIDE DEF x, ms2
    <3>1. QED
      BY <1>3, <2>2, SameVotes
  <2>4. /\ m \in Message /\ m.from = p /\ m.inst = i /\ m.value = v
        /\ m.stage = "READY_FROM_WITNESS" /\ m.content = HashOnly(c)
    BY HashOnlyType DEF Msg, Message, BroadcastStages
  <2> HIDE DEF x, m, ms2
  <2>5. Outcome(p, i, v, c, ms, x, {m})
    BY <1>2, <2>1, <2>2, <2>3, <2>4 DEF Outcome, ReadyStages
  <2>6. QED
    BY <1>4, <2>5
<1>5. CASE Update(p, i, ms2, {})
  <2> HIDE DEF ms2
  <2>1. Outcome(p, i, v, c, ms, ms2, {})
    BY <1>2, <1>3 DEF Outcome
  <2>2. QED
    BY <1>5, <2>1
<1>6. QED
  BY <1>4, <1>5 DEF ReceiveEchoFromProcess

LEMMA OnReadyFromWitness ==
    ASSUME NEW p \in Correct, NEW q \in Proc, NEW i \in Instance, NEW v \in Value,
           NEW c \in Content, NEW ms,
           StateBacked(ms, i), WitnessInv, Arrives(q, "READY_FROM_WITNESS", i, v, c),
           ReceiveReadyFromWitness(p, q, i, v, c, ms)
    PROVE  \E x, msgs : Update(p, i, x, msgs) /\ Outcome(p, i, v, c, ms, x, msgs)
<1> DEFINE votes == ms.readyFromWitnesses \cup {<<q, v>>}
           ms2 == [ms EXCEPT !.readyFromWitnesses = @ \cup {<<q, v>>}]
           x == [ms2 EXCEPT !.stage = SentReadyFromProcess]
           m == Msg(p, ms.potWitnessSet, "READY_FROM_PROCESS", i, v, HashOnly(c))
<1>1. q \in ms.ownWitnessSet /\ ms.stage < SentReadyFromProcess
  BY DEF ReceiveReadyFromWitness, TakesReadyFromWitness
<1>2. /\ votes \in Votes /\ Backed(votes, "READY_FROM_WITNESS", i)
      /\ Within(votes, ms.ownWitnessSet)
  BY <1>1, ReceivedVoter, VoteAdded, WitnessVoteAdded, StateParts DEF StateBacked
<1>3. /\ ms2 \in MessageState /\ ms2.stage = ms.stage
      /\ ms2.ownEncryptedShare = ms.ownEncryptedShare
      /\ ms2.ownWitnessSet = ms.ownWitnessSet
      /\ ms2.echoFromProcesses = ms.echoFromProcesses
      /\ ms2.readyFromProcesses = ms.readyFromProcesses
      /\ ms2.readyFromWitnesses = votes
      /\ ms2.validateFromWitnesses = ms.validateFromWitnesses
  <2>1. ms \in MessageState
    BY StateParts
  <2>2. QED
    BY <1>2, <2>1, Zenon DEF MessageState
<1>4. StateBacked(ms2, i) /\ ms2.stage >= ms.stage
  <2> HIDE DEF ms2, votes
  <2>1. QED
    BY <1>2, <1>3, StateParts DEF StateBacked
<1>5. CASE /\ Cardinality(VotesFor(ms2.readyFromWitnesses, v)) >= WitnessThreshold
           /\ Update(p, i, x, {m})
  <2>1. EchoQuorum(i, v)
    <3> HIDE DEF ms2, votes
    <3>1. QED
      BY <1>2, <1>3, <1>5, WitnessesReady, StateParts
      DEF WitnessInv, StateBacked, ReadyStages
  <2>2. /\ x \in MessageState /\ x.stage = SentReadyFromProcess
        /\ x.ownEncryptedShare = ms2.ownEncryptedShare
        /\ x.ownWitnessSet = ms2.ownWitnessSet
        /\ x.echoFromProcesses = ms2.echoFromProcesses
        /\ x.readyFromProcesses = ms2.readyFromProcesses
        /\ x.readyFromWitnesses = ms2.readyFromWitnesses
        /\ x.validateFromWitnesses = ms2.validateFromWitnesses
    <3> HIDE DEF ms2
    <3>1. QED
      <4>1. SentReadyFromProcess \in InitialStage .. DeliveredStage
        BY DEF InitialStage, SentReadyFromProcess, DeliveredStage
      <4>2. QED
        BY <1>3, <4>1, Zenon DEF MessageState
  <2>3. StateBacked(x, i) /\ x.stage >= ms.stage
    <3> HIDE DEF x, ms2
    <3>1. QED
      BY <1>1, <1>4, <2>2, SameVotes, StateParts DEF SentReadyFromProcess
  <2>4. /\ m \in Message /\ m.from = p /\ m.inst = i /\ m.value = v
        /\ m.stage = "READY_FROM_PROCESS" /\ m.content = HashOnly(c)
    BY StateParts, HashOnlyType DEF Msg, Message, BroadcastStages
  <2> HIDE DEF x, m, ms2
  <2>5. Outcome(p, i, v, c, ms, x, {m})
    BY <1>3, <2>1, <2>2, <2>3, <2>4 DEF Outcome, ReadyStages
  <2>6. QED
    BY <1>5, <2>5
<1>6. CASE Update(p, i, ms2, {})
  <2> HIDE DEF ms2
  <2>1. Outcome(p, i, v, c, ms, ms2, {})
    BY <1>3, <1>4 DEF Outcome
  <2>2. QED
    BY <1>6, <2>1
<1>7. QED
  BY <1>5, <1>6 DEF ReceiveReadyFromWitness

LEMMA OnReadyFromProcess ==
    ASSUME NEW p \in Correct, NEW q \in Proc, NEW i \in Instance, NEW v \in Value,
           NEW c \in Content, NEW ms,
           StateBacked(ms, i), WitnessInv, Arrives(q, "READY_FROM_PROCESS", i, v, c),
           ReceiveReadyFromProcess(p, q, i, v, c, ms)
    PROVE  \E x, msgs : Update(p, i, x, msgs) /\ Outcome(p, i, v, c, ms, x, msgs)
<1> DEFINE votes == ms.readyFromProcesses \cup {<<q, v>>}
           count == Cardinality(VotesFor(votes, v))
           ready == ms.witnessStage < SentReadyFromWitness /\ count >= ReadyMessagesThreshold
           validate == ms.witnessStage < SentValidate /\ count >= QuorumThreshold
           after == IF validate THEN SentValidate
                    ELSE IF ready THEN SentReadyFromWitness ELSE ms.witnessStage
           x == [ms EXCEPT !.readyFromProcesses = votes, !.witnessStage = after]
           msgs == {Msg(p, Proc, "READY_FROM_WITNESS", i, v, HashOnly(c)) : b \in {ready} \cap {TRUE}} \cup
                   {Msg(p, Proc, "VALIDATE", i, v, HashOnly(c)) : b \in {validate} \cap {TRUE}}
<1>1. Update(p, i, x, msgs)
  BY Zenon DEF ReceiveReadyFromProcess
<1>2. votes \in Votes /\ Backed(votes, "READY_FROM_PROCESS", i)
  BY ReceivedVoter, VoteAdded, StateParts DEF StateBacked
<1>3. /\ VotesFor(votes, v) \in SUBSET Proc
      /\ count \in Nat
  BY ProcSubset DEF VotesFor
<1>4. ready \/ validate => EchoQuorum(i, v)
  <2> SUFFICES ASSUME ready \/ validate
               PROVE  count > Cardinality(Faulty)
    BY <1>2, ProcessesReady DEF ReadyStages, WitnessInv
  <2>1. QED
    BY <1>3, Thresholds, ProcAssumption DEF ReadyMessagesThreshold
<1>5. /\ x \in MessageState /\ x.stage = ms.stage
      /\ x.ownEncryptedShare = ms.ownEncryptedShare
      /\ x.ownWitnessSet = ms.ownWitnessSet
      /\ x.echoFromProcesses = ms.echoFromProcesses
      /\ x.readyFromProcesses = votes
      /\ x.readyFromWitnesses = ms.readyFromWitnesses
      /\ x.validateFromWitnesses = ms.validateFromWitnesses
  <2>1. after \in InitialWitnessStage .. SentValidate
    <3> HIDE DEF ready, validate
    <3>1. QED
      BY StateParts DEF InitialWitnessStage, SentReadyFromWitness, SentValidate
  <2>2. ms \in MessageState
    BY StateParts
  <2> HIDE DEF votes, after
  <2>3. QED
    BY <1>2, <2>1, <2>2, Zenon DEF MessageState
<1>6. StateBacked(x, i) /\ x.stage >= ms.stage
  <2> HIDE DEF x, votes
  <2>1. QED
    BY <1>2, <1>5, StateParts DEF StateBacked
<1>7. ASSUME NEW m \in msgs
      PROVE  /\ m \in Message /\ m.from = p /\ m.inst = i /\ m.value = v
             /\ m.stage \in ReadyStages /\ EchoQuorum(i, v) /\ m.content = HashOnly(c)
  <2>1. /\ m = Msg(p, Proc, "READY_FROM_WITNESS", i, v, HashOnly(c)) \/ m = Msg(p, Proc, "VALIDATE", i, v, HashOnly(c))
        /\ ready \/ validate
    BY <1>7
  <2>2. QED
    BY <1>4, <2>1, MsgFields, HashOnlyType DEF BroadcastStages, ReadyStages
<1> HIDE DEF x, msgs
<1>8. Outcome(p, i, v, c, ms, x, msgs)
  BY <1>5, <1>6, <1>7 DEF Outcome, ReadyStages
<1>9. QED
  BY <1>1, <1>8

\* A VALIDATE either delivers, with enough validations, or is counted.
LEMMA OnValidate ==
    ASSUME NEW p \in Correct, NEW q \in Proc, NEW i \in Instance, NEW v \in Value,
           NEW c \in Content, NEW ms,
           StateBacked(ms, i), WitnessInv, Arrives(q, "VALIDATE", i, v, c),
           ReceiveValidate(p, q, i, v, c, ms)
    PROVE  \E x : /\ Outcome(p, i, v, c, ms, x, {})
                  /\ \/ Update(p, i, x, {})
                     \/ /\ Deliver(p, i, v, c, x) /\ EchoQuorum(i, v)
                        /\ ms.stage < DeliveredStage
<1> DEFINE votes == ms.validateFromWitnesses \cup {<<q, v>>}
           ms2 == [ms EXCEPT !.validateFromWitnesses = @ \cup {<<q, v>>}]
<1>1. q \in ms.ownWitnessSet
  BY DEF ReceiveValidate, TakesValidate
<1>2. /\ votes \in Votes /\ Backed(votes, "VALIDATE", i)
      /\ Within(votes, ms.ownWitnessSet)
  BY <1>1, ReceivedVoter, VoteAdded, WitnessVoteAdded, StateParts DEF StateBacked
<1>3. /\ ms2 \in MessageState /\ ms2.stage = ms.stage
      /\ ms2.ownEncryptedShare = ms.ownEncryptedShare
      /\ ms2.ownWitnessSet = ms.ownWitnessSet
      /\ ms2.echoFromProcesses = ms.echoFromProcesses
      /\ ms2.readyFromProcesses = ms.readyFromProcesses
      /\ ms2.readyFromWitnesses = ms.readyFromWitnesses
      /\ ms2.validateFromWitnesses = votes
  <2>1. ms \in MessageState
    BY StateParts
  <2>2. QED
    BY <1>2, <2>1, Zenon DEF MessageState
<1>4. StateBacked(ms2, i) /\ ms2.stage >= ms.stage
  <2> HIDE DEF ms2, votes
  <2>1. QED
    BY <1>2, <1>3, StateParts DEF StateBacked
<1>5. Cardinality(VotesFor(ms2.validateFromWitnesses, v)) >= WitnessThreshold => EchoQuorum(i, v)
  <2> HIDE DEF ms2, votes
  <2>1. QED
    BY <1>2, <1>3, WitnessesReady, StateParts DEF WitnessInv, StateBacked, ReadyStages
<1>6. \/ Update(p, i, ms2, {})
      \/ Deliver(p, i, v, c, ms2) /\ EchoQuorum(i, v) /\ ms.stage < DeliveredStage
  BY <1>5, Zenon DEF ReceiveValidate, TakesValidate
<1> HIDE DEF ms2
<1>7. Outcome(p, i, v, c, ms, ms2, {})
  BY <1>3, <1>4 DEF Outcome
<1>8. QED
  BY <1>6, <1>7

-----------------------------------------------------------------------------
(* What the handlers of commitment messages make of a work state *)

DoneStages == {"SentDoneToWitnesses", "SentDoneToProcesses"}
FailedStages == {"SentFailedToWitnesses", "SentFailedToProcesses"}

\* The messages of the reveal phase, with the data that their stages call for.
Commitments ==
    {m \in CommitmentMessage : /\ m.stage = "REVEAL" => m.data \in Share
                               /\ m.stage = "DONE" => m.data \in Secret}

\* Messages that reveal shares of A, give secrets of D and say FAILED only if
\* fails; and what a process that has delivered the hash h announces of them.
Admitted(m, A, D, fails) ==
    /\ m.stage = "REVEAL" => <<m.from, m.data>> \in A
    /\ m.stage = "DONE" => m.data \in D
    /\ m.stage = "FAILED" => fails
Sayable(D, fails, h) ==
    (DoneStages \X {x \in D : Hash[x] = h}) \cup {a \in FailedStages \X {None} : fails}

\* Enough shares of A make a secret of D, if one with the hash h, or else FAILED
\* may be said.
Conclusive(A, D, fails, h) ==
    /\ A \subseteq Proc \X Share /\ D \subseteq Secret /\ fails \in BOOLEAN
    /\ \A S \in SUBSET A :
          Cardinality(RevealFrom(S)) >= RevealThreshold /\ Reconstruct[S] # None =>
              IF Hash[Reconstruct[S]] = h THEN Reconstruct[S] \in D ELSE fails

\* The work states that handlers of admitted messages leave: it has committed
\* only what is mixed.
WorkStates(A, D, fails, h, mixed, pending) ==
    {st \in [reveal : RevealState, announced : SUBSET Sayable(D, fails, h),
             added : SUBSET D, committed : BOOLEAN, fatal : BOOLEAN] :
        /\ st.reveal.pending = pending
        /\ st.reveal.decryptedShares \subseteq A
        /\ st.committed => mixed}

LEMMA AnnounceKeeps ==
    ASSUME NEW A, NEW D, NEW fails, NEW h, NEW mixed, NEW pending, NEW W,
           W = WorkStates(A, D, fails, h, mixed, pending), NEW st \in W,
           NEW s, NEW x, <<s, x>> \in Sayable(D, fails, h)
    PROVE  Announce(st, s, x) \in W
<1> DEFINE R == [st.reveal EXCEPT !.revealStage = s]
           y == [st EXCEPT !.reveal = R, !.announced = @ \cup {<<s, x>>}]
           Work == [reveal : RevealState, announced : SUBSET Sayable(D, fails, h),
                    added : SUBSET D, committed : BOOLEAN, fatal : BOOLEAN]
<1>1. st \in Work
  BY DEF WorkStates
<1>2. s \in RevealStages
  BY DEF Sayable, DoneStages, FailedStages, RevealStages
<1>3. /\ R \in RevealState /\ R.pending = st.reveal.pending
      /\ R.decryptedShares = st.reveal.decryptedShares
  BY <1>1, <1>2 DEF RevealState
<1>4. Announce(st, s, x) = y
  BY Zenon DEF Announce
<1> HIDE DEF R
<1>5. /\ y \in Work
      /\ y.reveal = R /\ y.committed = st.committed
  BY <1>1, <1>3
<1> HIDE DEF y
<1>6. QED
  BY <1>3, <1>4, <1>5 DEF WorkStates

LEMMA FatalKeeps ==
    ASSUME NEW A, NEW D, NEW fails, NEW h, NEW mixed, NEW pending, NEW W,
           W = WorkStates(A, D, fails, h, mixed, pending), NEW st \in W
    PROVE  Fatal(st) \in W
BY DEF WorkStates, Fatal

\* Counting one more share.
LEMMA ShareCounted ==
    ASSUME NEW A, NEW D, NEW fails, NEW h, NEW mixed, NEW pending, NEW W,
           W = WorkStates(A, D, fails, h, mixed, pending), NEW st \in W,
           NEW q \in Proc, NEW s \in Share, <<q, s>> \in A,
           NEW x, x = [st EXCEPT !.reveal.decryptedShares = @ \cup {<<q, s>>}]
    PROVE  x \in W
<1> DEFINE R == [st.reveal EXCEPT !.decryptedShares = @ \cup {<<q, s>>}]
           Work == [reveal : RevealState, announced : SUBSET Sayable(D, fails, h),
                    added : SUBSET D, committed : BOOLEAN, fatal : BOOLEAN]
<1>1. st \in Work
  BY DEF WorkStates
<1>2. /\ R \in RevealState /\ R.pending = st.reveal.pending
      /\ R.decryptedShares = st.reveal.decryptedShares \cup {<<q, s>>}
  BY <1>1 DEF RevealState
<1>3. x = [st EXCEPT !.reveal = R]
  BY Zenon
<1> HIDE DEF R
<1>4. x \in Work /\ x.reveal = R /\ x.committed = st.committed
  BY <1>1, <1>2, <1>3
<1>5. QED
  BY <1>2, <1>4 DEF WorkStates

\* A verdict on enough shares.
LEMMA VerdictKeeps ==
    ASSUME NEW A, NEW D, NEW fails, NEW h, NEW mixed, NEW pending, NEW W,
           W = WorkStates(A, D, fails, h, mixed, pending), NEW st \in W,
           Conclusive(A, D, fails, h),
           Cardinality(RevealFrom(st.reveal.decryptedShares)) >= RevealThreshold
    PROVE  Verdict(h, st) \in W
<1> DEFINE x == Reconstruct[st.reveal.decryptedShares]
<1>1. /\ st.reveal.decryptedShares \in SUBSET A
      /\ A \subseteq Proc \X Share
  BY DEF WorkStates, Conclusive
<1>2. x \in Secret \cup {None}
  BY <1>1, SecretAssumption
<1>3. x # None => IF Hash[x] = h THEN x \in D ELSE fails
  BY <1>1 DEF Conclusive
<1>4. Verdict(h, st) = CASE x = None -> Fatal(st)
                         [] x # None /\ Hash[x] = h -> Announce(st, "SentDoneToProcesses", x)
                         [] x # None /\ Hash[x] # h -> Announce(st, "SentFailedToProcesses", None)
  BY DEF Verdict
<1> HIDE DEF x
<1>5. CASE x = None
  <2>1. Fatal(st) \in W
    BY FatalKeeps
  <2>2. QED
    BY <1>4, <1>5, <2>1
<1>6. CASE x # None /\ Hash[x] = h
  <2>1. <<"SentDoneToProcesses", x>> \in Sayable(D, fails, h)
    BY <1>3, <1>6 DEF Sayable, DoneStages
  <2>2. Announce(st, "SentDoneToProcesses", x) \in W
    BY <2>1, AnnounceKeeps
  <2>3. QED
    BY <1>4, <1>6, <2>2
<1>7. CASE x # None /\ Hash[x] # h
  <2>1. <<"SentFailedToProcesses", None>> \in Sayable(D, fails, h)
    BY <1>3, <1>7 DEF Sayable, FailedStages
  <2>2. Announce(st, "SentFailedToProcesses", None) \in W
    BY <2>1, AnnounceKeeps
  <2>3. QED
    BY <1>4, <1>7, <2>2
<1>8. QED
  BY <1>5, <1>6, <1>7

LEMMA OnRevealKeeps ==
    ASSUME NEW A, NEW D, NEW fails, NEW h, NEW mixed, NEW pending, NEW W,
           W = WorkStates(A, D, fails, h, mixed, pending), NEW st \in W,
           Conclusive(A, D, fails, h), NEW p, NEW ms,
           NEW m \in CommitmentMessage, m.data \in Share, <<m.from, m.data>> \in A
    PROVE  OnReveal(p, m, ms, h, st) \in W
<1> DEFINE x == [st EXCEPT !.reveal.decryptedShares = @ \cup {<<m.from, m.data>>}]
           n == Cardinality(RevealFrom(x.reveal.decryptedShares))
<1>1. x \in W
  <2>1. m.from \in Proc
    BY DEF CommitmentMessage
  <2>2. ASSUME NEW y, y = [st EXCEPT !.reveal.decryptedShares = @ \cup {<<m.from, m.data>>}]
        PROVE  y \in W
    BY <2>1, <2>2, ShareCounted
  <2>3. QED
    BY <2>2, Zenon
<1>2. \/ OnReveal(p, m, ms, h, st) = st
      \/ OnReveal(p, m, ms, h, st) = x
      \/ OnReveal(p, m, ms, h, st) = Fatal(x)
      \/ ~(n < RevealThreshold) /\ OnReveal(p, m, ms, h, st) = Verdict(h, x)
  BY Zenon DEF OnReveal
<1>3. n \in Nat
  BY ProcSubset DEF RevealFrom
<1> HIDE DEF x, n
<1>4. Fatal(x) \in W
  BY <1>1, FatalKeeps
<1>5. CASE ~(n < RevealThreshold)
  <2>1. Cardinality(RevealFrom(x.reveal.decryptedShares)) >= RevealThreshold
    BY <1>3, <1>5, Thresholds DEF n, RevealThreshold
  <2>2. Verdict(h, x) \in W
    BY <1>1, <2>1, VerdictKeeps
  <2>3. QED
    BY <1>1, <1>2, <1>4, <2>2
<1>6. QED
  BY <1>1, <1>2, <1>4, <1>5

LEMMA OnDoneKeeps ==
    ASSUME NEW A, NEW D, NEW fails, NEW h, NEW mixed, NEW pending, NEW W,
           W = WorkStates(A, D, fails, h, mixed, pending), NEW st \in W,
           NEW p, NEW ms, NEW m, m.data \in D
    PROVE  OnDone(p, m, ms, h, mixed, st) \in W
<1> SUFFICES ASSUME Hash[m.data] = h
             PROVE  OnDone(p, m, ms, h, mixed, st) \in W
  BY DEF OnDone
<1> DEFINE x == m.data
           y == IF IsWitness(p, ms) /\ st.reveal.revealStage # "SentDoneToProcesses"
                  THEN Announce(st, "SentDoneToProcesses", x) ELSE st
           z == Announce(y, "SentDoneToWitnesses", x)
           w == [z EXCEPT !.committed = TRUE, !.added = {x}]
<1>1. /\ <<"SentDoneToProcesses", x>> \in Sayable(D, fails, h)
      /\ <<"SentDoneToWitnesses", x>> \in Sayable(D, fails, h)
  BY DEF Sayable, DoneStages
<1>2. y \in W
  BY <1>1, AnnounceKeeps
<1>3. OnDone(p, m, ms, h, mixed, st) = IF m.from \in ms.ownWitnessSet /\ mixed THEN w ELSE y
  BY Zenon DEF OnDone
<1> HIDE DEF y
<1>4. z \in W
  BY <1>1, <1>2, AnnounceKeeps
<1> HIDE DEF z
<1>5. mixed => w \in W
  <2> DEFINE Work == [reveal : RevealState, announced : SUBSET Sayable(D, fails, h),
                      added : SUBSET D, committed : BOOLEAN, fatal : BOOLEAN]
  <2>1. z \in Work /\ {x} \in SUBSET D
    BY <1>4 DEF WorkStates
  <2>2. w \in Work /\ w.reveal = z.reveal
    <3> HIDE DEF x
    <3>1. QED
      BY <2>1
  <2>3. QED
    BY <1>4, <2>2 DEF WorkStates
<1>6. QED
  BY <1>2, <1>3, <1>5

LEMMA OnFailedKeeps ==
    ASSUME NEW A, NEW D, NEW fails, NEW h, NEW mixed, NEW pending, NEW W,
           W = WorkStates(A, D, fails, h, mixed, pending), NEW st \in W,
           fails, NEW p, NEW q, NEW ms
    PROVE  OnFailed(p, q, ms, st) \in W
<1> DEFINE x == IF q \in ms.ownWitnessSet /\ st.reveal.revealStage # "SentFailedToWitnesses"
                  THEN Announce(st, "SentFailedToWitnesses", None) ELSE st
<1>1. /\ <<"SentFailedToWitnesses", None>> \in Sayable(D, fails, h)
      /\ <<"SentFailedToProcesses", None>> \in Sayable(D, fails, h)
  BY DEF Sayable, FailedStages
<1>2. x \in W
  BY <1>1, AnnounceKeeps
<1>3. OnFailed(p, q, ms, st) =
          IF IsWitness(p, ms) /\ x.reveal.revealStage # "SentFailedToProcesses"
            THEN Announce(x, "SentFailedToProcesses", None) ELSE x
  BY Zenon DEF OnFailed
<1> HIDE DEF x
<1>4. Announce(x, "SentFailedToProcesses", None) \in W
  BY <1>1, <1>2, AnnounceKeeps
<1>5. QED
  BY <1>2, <1>3, <1>4

\* An admitted message keeps the work state one.
LEMMA OnCommitmentKeeps ==
    ASSUME NEW A, NEW D, NEW fails, NEW h, NEW mixed, NEW pending, NEW W,
           W = WorkStates(A, D, fails, h, mixed, pending), NEW st \in W,
           Conclusive(A, D, fails, h), NEW p, NEW ms,
           NEW m \in Commitments, Admitted(m, A, D, fails)
    PROVE  OnCommitment(p, m, ms, h, mixed, st) \in W
<1> DEFINE over == st.committed \/ st.fatal
<1>0. /\ m \in CommitmentMessage /\ m.stage \in {"REVEAL", "DONE", "FAILED"}
      /\ m.stage = "REVEAL" => m.data \in Share
  BY DEF Commitments, CommitmentMessage, CommitmentStages
<1>1. CASE over
  <2>1. OnCommitment(p, m, ms, h, mixed, st) = st
    BY <1>1 DEF OnCommitment
  <2>2. QED
    BY <2>1
<1>2. CASE ~over /\ m.stage = "REVEAL"
  <2>1. OnCommitment(p, m, ms, h, mixed, st) = OnReveal(p, m, ms, h, st)
    BY <1>2 DEF OnCommitment
  <2>2. m.data \in Share /\ <<m.from, m.data>> \in A
    BY <1>0, <1>2 DEF Admitted
  <2>3. QED
    BY <1>0, <2>1, <2>2, OnRevealKeeps
<1>3. CASE ~over /\ m.stage = "DONE"
  <2>1. OnCommitment(p, m, ms, h, mixed, st) = OnDone(p, m, ms, h, mixed, st)
    BY <1>3 DEF OnCommitment
  <2>2. m.data \in D
    BY <1>3 DEF Admitted
  <2>3. QED
    BY <2>1, <2>2, OnDoneKeeps
<1>4. CASE ~over /\ m.stage = "FAILED"
  <2>1. OnCommitment(p, m, ms, h, mixed, st) = OnFailed(p, m.from, ms, st)
    BY <1>4 DEF OnCommitment
  <2>2. fails
    BY <1>4 DEF Admitted
  <2>3. QED
    BY <2>1, <2>2, OnFailedKeeps
<1>5. QED
  BY <1>0, <1>1, <1>2, <1>3, <1>4

\* What every round of the loop over the pending messages keeps, the loop keeps:
\* its states are a chain, and the recursive function is that chain.
LEMMA LoopKeeps ==
    ASSUME NEW T, NEW p, NEW ms, NEW h, NEW pending, NEW n \in Nat, n = Len(pending),
           NEW before \in T,
           \A k \in 1 .. n, st \in T :
              OnCommitment(p, pending[k], ms, h, MixingTime = 0, st) \in T
    PROVE  HandleAll(p, pending, ms, h, before) \in T
<1> DEFINE On(k, st) == OnCommitment(p, pending[k], ms, h, MixingTime = 0, st)
           Step == [k \in 1 .. n |-> [st \in T |-> On(k, st)]]
           Chain(f) == [k \in 0 .. n |-> IF k = 0 THEN before ELSE On(k, f[k - 1])]
           after == CHOOSE f : f = Chain(f)
<1>1. HandleAll(p, pending, ms, h, before) = after[n]
  BY DEF HandleAll
<1>2. ASSUME NEW k \in 1 .. n, NEW st \in T
      PROVE  On(k, st) \in T
  OBVIOUS
<1> HIDE DEF On
<1>3. Step \in [1 .. n -> [T -> T]]
  BY <1>2
<1>4. PICK r : IsChain(r, T, before, n, Step)
  <2> HIDE DEF Step
  <2>1. QED
    BY <1>3, ChainExists
<1>5. ASSUME NEW k \in 1 .. n
      PROVE  r[k] = On(k, r[k - 1])
  <2>1. r[k - 1] \in T /\ r[k] = Step[k][r[k - 1]]
    <3> HIDE DEF Step
    <3>1. k - 1 \in 0 .. n
      OBVIOUS
    <3>2. QED
      BY <1>4, <3>1 DEF IsChain
  <2>2. QED
    BY <2>1
<1>6. r = Chain(r)
  <2>1. \A k \in 0 .. n : r[k] = IF k = 0 THEN before ELSE On(k, r[k - 1])
    BY <1>4, <1>5 DEF IsChain
  <2>2. QED
    BY <1>4, <2>1 DEF IsChain
<1>7. after = Chain(after)
  <2> HIDE DEF Chain
  <2>1. QED
    BY <1>6, Zenon
<1> HIDE DEF after
<1>8. after[0] = before /\ \A k \in 1 .. n : after[k] = On(k, after[k - 1])
  BY <1>7
<1>9. \A k \in 0 .. n : after[k] \in T
  BY <1>2, <1>8, ChainStays
<1>10. QED
  BY <1>1, <1>9

LEMMA BeforeWorks ==
    ASSUME NEW A, NEW D, NEW fails, NEW h, NEW mixed,
           NEW reveal \in RevealState, reveal.decryptedShares \subseteq A
    PROVE  Before(reveal) \in WorkStates(A, D, fails, h, mixed, reveal.pending)
<1>1. Before(reveal) \in [reveal : RevealState, announced : SUBSET Sayable(D, fails, h),
                          added : SUBSET D, committed : BOOLEAN, fatal : BOOLEAN]
  BY DEF Before
<1>2. Before(reveal).reveal = reveal /\ Before(reveal).committed = FALSE
  BY DEF Before
<1>3. QED
  BY <1>1, <1>2 DEF WorkStates

\* The pending messages handled by a delivery.
LEMMA ReplayKeeps ==
    ASSUME NEW A, NEW D, NEW fails, NEW h, Conclusive(A, D, fails, h),
           NEW p, NEW i, NEW ms, NEW r, r = revealLog[p][i], r \in RevealState,
           r.decryptedShares \subseteq A, NEW pending \in Seq(Commitments),
           r.pending = pending, \A k \in DOMAIN pending : Admitted(pending[k], A, D, fails)
    PROVE  Replay(p, i, ms, h) \in WorkStates(A, D, fails, h, MixingTime = 0, <<>>)
<1> DEFINE T == WorkStates(A, D, fails, h, MixingTime = 0, <<>>)
           reveal == [r EXCEPT !.pending = <<>>]
           before == Before(reveal)
           n == Len(pending)
<1>1. Replay(p, i, ms, h) = HandleAll(p, pending, ms, h, before)
  BY DEF Replay
<1>2. /\ reveal \in RevealState /\ reveal.pending = <<>>
      /\ reveal.decryptedShares \subseteq A
  <2>1. <<>> \in Seq(CommitmentMessage)
    OBVIOUS
  <2>2. QED
    BY <2>1, Zenon DEF RevealState
<1> HIDE DEF reveal
<1>3. before \in T
  BY <1>2, BeforeWorks
<1>4. n \in Nat /\ \A k \in 1 .. n : pending[k] \in Commitments /\ k \in DOMAIN pending
  OBVIOUS
<1> HIDE DEF before, n, T
<1>5. ASSUME NEW k \in 1 .. n, NEW st \in T
      PROVE  OnCommitment(p, pending[k], ms, h, MixingTime = 0, st) \in T
  BY <1>4, OnCommitmentKeeps DEF T
<1>6. HandleAll(p, pending, ms, h, before) \in T
  BY <1>3, <1>4, <1>5, LoopKeeps DEF n
<1>7. QED
  BY <1>1, <1>6 DEF T

\* The messages behind what has been announced.
LEMMA AnnouncementsTyped ==
    ASSUME NEW D \in SUBSET Secret, NEW fails, NEW h, NEW p \in Proc, NEW i \in Instance,
           NEW ms, ms.potWitnessSet \in SUBSET Proc,
           NEW announced \in SUBSET Sayable(D, fails, h),
           NEW m \in Announcements(p, i, ms, announced)
    PROVE  /\ m \in Commitments /\ m.from = p /\ m.inst = i
           /\ \/ m.stage = "DONE" /\ m.data \in D /\ Hash[m.data] = h
              \/ m.stage = "FAILED" /\ m.data = None /\ fails
<1> DEFINE To(s) == IF s \in {"SentDoneToWitnesses", "SentFailedToWitnesses"}
                      THEN ms.potWitnessSet ELSE Proc
           Stage(s) == IF s \in {"SentDoneToWitnesses", "SentDoneToProcesses"}
                         THEN "DONE" ELSE "FAILED"
<1>1. PICK a \in announced : m = Commitment(p, To(a[1]), Stage(a[1]), i, a[1], a[2])
  BY DEF Announcements
<1>2. a \in Sayable(D, fails, h)
  OBVIOUS
<1>3. \/ a[1] \in DoneStages /\ a[2] \in D /\ Hash[a[2]] = h
      \/ a[1] \in FailedStages /\ a[2] = None /\ fails
  BY <1>2 DEF Sayable
<1>4. /\ Stage(a[1]) \in CommitmentStages /\ a[1] \in RevealStages
      /\ a[1] \in DoneStages => Stage(a[1]) = "DONE"
      /\ a[1] \in FailedStages => Stage(a[1]) = "FAILED"
      /\ To(a[1]) \in SUBSET Proc
  BY <1>3 DEF DoneStages, FailedStages, RevealStages, CommitmentStages
<1> HIDE DEF To, Stage
<1>5. /\ m.from = p /\ m.to = To(a[1]) /\ m.stage = Stage(a[1]) /\ m.inst = i
      /\ m.sentAs = a[1] /\ m.data = a[2]
      /\ m = [from |-> p, to |-> To(a[1]), stage |-> Stage(a[1]), inst |-> i,
              sentAs |-> a[1], data |-> a[2]]
  BY <1>1 DEF Commitment
<1>6. m \in CommitmentMessage
  BY <1>3, <1>4, <1>5 DEF CommitmentMessage
<1>7. QED
  BY <1>3, <1>4, <1>5, <1>6 DEF Commitments

-----------------------------------------------------------------------------
(* Steps *)

LogType == [Correct -> [Instance -> MessageState \cup {NoState}]]
DeliveredType == [Correct -> [Instance -> Value \cup {None}]]

Typed ==
    /\ transactionCounter \in [Correct -> Nat]
    /\ deliveredMessages \in DeliveredType
    /\ finallyCommittedMessages \in [Correct -> SUBSET Instance]
    /\ messagesLog \in LogType
    /\ sent \subseteq Message

Inv == Typed /\ WitnessInv

CommitmentsTyped ==
    /\ deliveryOrder \in [Correct -> Seq(Instance)]
    /\ deliveredXHash \in [Correct -> [Instance -> XHashes \cup {None}]]
    /\ history \in [Correct -> SUBSET (Instance \X Secret)]
    /\ revealLog \in [Correct -> [Instance -> RevealState]]
    /\ \A p \in Correct, i \in Instance : revealLog[p][i].pending \in Seq(Commitments)
    /\ commitmentSent \subseteq Commitments
    /\ commitmentReceived \in [Correct -> SUBSET CommitmentMessage]

\* HandleReliable for a message of stage s for v with the content c from q.
Receives(p, q, s, i, v, c) ==
    /\ p \notin stopped /\ i \notin finallyCommittedMessages[p]
    /\ Arrives(q, s, i, v, c) /\ Receivable(p, q, s, i, v)
    /\ LET ms == RegisterMessage(p, i)
       IN  \/ s = "NOTIFY" /\ ReceiveNotify(p, i, v, c, ms)
           \/ s = "ECHO_FROM_WITNESS" /\ ReceiveEchoFromWitness(p, q, i, v, c, ms)
           \/ s = "ECHO_FROM_PROCESS" /\ ReceiveEchoFromProcess(p, q, i, v, c, ms)
           \/ s = "READY_FROM_WITNESS" /\ ReceiveReadyFromWitness(p, q, i, v, c, ms)
           \/ s = "READY_FROM_PROCESS" /\ ReceiveReadyFromProcess(p, q, i, v, c, ms)
           \/ s = "VALIDATE" /\ ReceiveValidate(p, q, i, v, c, ms)
           \/ RegisterOnly(p, q, s, i, ms)

LEMMA NextSteps ==
    ASSUME Typed, [Next]_vars
    PROVE  \/ \E p \in Correct, v \in Value : Broadcast(p, v)
           \/ \E p \in Correct, q \in Proc, s \in BroadcastStages, i \in Instance,
                 v \in Value, c \in Content : Receives(p, q, s, i, v, c)
           \/ \E p \in Correct, m \in commitmentSent \cup FaultyCommitments :
                 HandleCommitment(p, m)
           \/ UNCHANGED vars
<1>1. ASSUME NEW p \in Correct, NEW m \in Incoming(p), HandleReliable(p, m)
      PROVE  \E q \in Proc, s \in BroadcastStages, i \in Instance, v \in Value,
                c \in Content : Receives(p, q, s, i, v, c)
  <2>1. /\ m.from \in Proc /\ m.stage \in BroadcastStages /\ m.inst \in Instance
        /\ m.value \in Value /\ m.content \in Content
        /\ Arrives(m.from, m.stage, m.inst, m.value, m.content)
        /\ Receivable(p, m.from, m.stage, m.inst, m.value)
    BY IncomingArrives DEF Typed
  <2>2. Receives(p, m.from, m.stage, m.inst, m.value, m.content)
    BY <1>1, <2>1, Zenon DEF HandleReliable, FinallyCommitted, Receives
  <2>3. QED
    BY <2>1, <2>2
<1>2. QED
  BY <1>1 DEF Next

\* A received commitment message has the data that its stage calls for.
LEMMA CommitmentArrives ==
    ASSUME CommitmentsTyped, NEW m \in commitmentSent \cup FaultyCommitments
    PROVE  m \in Commitments /\ m \in CommitmentMessage /\ m.inst \in Instance
<1>1. CASE m \in commitmentSent
  BY <1>1 DEF CommitmentsTyped, Commitments, CommitmentMessage
<1>2. CASE m \in FaultyCommitments
  <2>1. PICK q \in Faulty, i \in Instance :
           \E s \in CommitmentStages, x \in FaultyData[i.author] \cup {None} :
              m = Commitment(q, FaultyTo, s, i, "InitialRevealStage", x)
    BY <1>2 DEF FaultyCommitments
  <2>2. PICK s \in CommitmentStages, x \in FaultyData[i.author] \cup {None} :
           m = Commitment(q, FaultyTo, s, i, "InitialRevealStage", x)
    BY <2>1
  <2>3. x \in Share \cup Secret \cup {None}
    <3>1. i.author \in Proc
      BY BoundAssumption DEF Instance
    <3>2. QED
      BY <3>1, SecretAssumption
  <2>4. q \in Proc /\ FaultyTo \in SUBSET Proc
    BY ProcAssumption, SecretAssumption
  <2>5. m \in CommitmentMessage
    BY <2>2, <2>3, <2>4 DEF Commitment, CommitmentMessage, RevealStages
  <2>6. /\ m.stage = "REVEAL" => m.data \in Share
        /\ m.stage = "DONE" => m.data \in Secret
    BY <1>2 DEF FaultyCommitments
  <2>7. QED
    BY <2>5, <2>6 DEF Commitments, CommitmentMessage
<1>3. QED
  BY <1>1, <1>2

LEMMA EntryReplaced ==
    ASSUME NEW S, NEW log \in [Correct -> [Instance -> S]],
           NEW p \in Correct, NEW i \in Instance, NEW x \in S,
           NEW log2, log2 = [log EXCEPT ![p][i] = x]
    PROVE  /\ log2 \in [Correct -> [Instance -> S]]
           /\ log2[p][i] = x
           /\ \A p2 \in Correct, i2 \in Instance :
                 <<p2, i2>> # <<p, i>> => log2[p2][i2] = log[p2][i2]
<1> DEFINE row == [log[p] EXCEPT ![i] = x]
<1>1. row \in [Instance -> S]
  OBVIOUS
<1>2. log2 = [log EXCEPT ![p] = row]
  BY Zenon
<1>3. row[i] = x /\ \A i2 \in Instance : i2 # i => row[i2] = log[p][i2]
  OBVIOUS
<1> HIDE DEF row
<1>4. /\ log2 \in [Correct -> [Instance -> S]]
      /\ log2[p] = row
      /\ \A p2 \in Correct : p2 # p => log2[p2] = log[p2]
  BY <1>1, <1>2
<1>5. QED
  BY <1>3, <1>4

\* A handler of p replaces the state ms of instance i by what it makes of it, or
\* drops the state and commits what is delivered; and it delivers at most a v with
\* a quorum of echoes, from a state that has not delivered.
Handles(p, i, v, c, ms, x, msgs) ==
    /\ Outcome(p, i, v, c, ms, x, msgs)
    /\ sent' = sent \cup msgs
    /\ transactionCounter' = transactionCounter
    /\ \/ /\ messagesLog' = [messagesLog EXCEPT ![p][i] = x]
          /\ finallyCommittedMessages' = finallyCommittedMessages
       \/ /\ messagesLog' = [messagesLog EXCEPT ![p][i] = NoState]
          /\ finallyCommittedMessages' =
                [finallyCommittedMessages EXCEPT ![p] = @ \cup {i}]
          /\ deliveredMessages'[p][i] # None
    /\ \/ deliveredMessages' = deliveredMessages /\ deliveredXHash' = deliveredXHash
       \/ /\ v \in Value /\ EchoQuorum(i, v)
          /\ ms.stage < DeliveredStage /\ x.stage >= DeliveredStage
          /\ deliveredMessages' = [deliveredMessages EXCEPT ![p][i] = v]
          /\ deliveredXHash' = [deliveredXHash EXCEPT ![p][i] = c.xHash]

LEMMA RegisteredState ==
    ASSUME Inv, CommitmentsTyped, NEW p \in Correct, NEW i \in Instance
    PROVE  StateBacked(RegisterMessage(p, i), i)
<1>1. CASE messagesLog[p][i] = NoState
  <2>1. history[p] \in SUBSET (Instance \X Secret)
    BY DEF CommitmentsTyped
  <2>2. QED
    BY <1>1, <2>1, FreshState DEF RegisterMessage
<1>2. CASE messagesLog[p][i] # NoState
  BY <1>2 DEF RegisterMessage, Inv, WitnessInv, VotesBacked
<1>3. QED
  BY <1>1, <1>2

LEMMA UpdateHandles ==
    ASSUME NEW p, NEW i, NEW v, NEW c, NEW ms, NEW x, NEW msgs,
           Update(p, i, x, msgs), Outcome(p, i, v, c, ms, x, msgs)
    PROVE  Handles(p, i, v, c, ms, x, msgs)
BY DEF Update, Handles, commitmentVars

\* Nothing is said while delivering or committing, and votes stay as they are.
LEMMA DeliverHandles ==
    ASSUME NEW p \in Correct, NEW i \in Instance, NEW v \in Value, NEW c, NEW ms, NEW y,
           StateBacked(ms, i), Typed, ms.stage < DeliveredStage,
           Outcome(p, i, v, c, ms, y, {}), Deliver(p, i, v, c, y), EchoQuorum(i, v)
    PROVE  \E x : Handles(p, i, v, c, ms, x, {})
<1> DEFINE x == [y EXCEPT !.stage = DeliveredStage]
           com == Replay(p, i, y, c.xHash).committed
<1>1. /\ sent' = sent /\ transactionCounter' = transactionCounter
      /\ deliveredMessages' = [deliveredMessages EXCEPT ![p][i] = v]
      /\ deliveredXHash' = [deliveredXHash EXCEPT ![p][i] = c.xHash]
      /\ messagesLog' = [messagesLog EXCEPT ![p] =
                            [messagesLog[p] EXCEPT ![i] = IF com THEN NoState ELSE x]]
      /\ finallyCommittedMessages' =
            [finallyCommittedMessages EXCEPT ![p] = IF com THEN @ \cup {i} ELSE @]
  BY Zenon DEF Deliver
<1>2. StateBacked(y, i) /\ y \in MessageState /\ ms.stage <= y.stage
  BY DEF Outcome, StateBacked
<1>3. /\ x \in MessageState /\ x.stage = DeliveredStage
      /\ x.ownEncryptedShare = y.ownEncryptedShare
      /\ x.ownWitnessSet = y.ownWitnessSet
      /\ x.echoFromProcesses = y.echoFromProcesses
      /\ x.readyFromProcesses = y.readyFromProcesses
      /\ x.readyFromWitnesses = y.readyFromWitnesses
      /\ x.validateFromWitnesses = y.validateFromWitnesses
  <2>1. DeliveredStage \in InitialStage .. DeliveredStage
    BY DEF InitialStage, DeliveredStage
  <2>2. QED
    BY <1>2, <2>1, Zenon DEF MessageState
<1> HIDE DEF x, com
<1>4. StateBacked(x, i)
  BY <1>2, <1>3, SameVotes
<1>5. Outcome(p, i, v, c, ms, x, {})
  BY <1>2, <1>3, <1>4, StateParts DEF Outcome, DeliveredStage
<1>6. x.stage >= DeliveredStage /\ deliveredMessages'[p][i] # None
  <2>1. deliveredMessages'[p][i] = v
    BY <1>1, EntryReplaced DEF Typed, DeliveredType
  <2>2. QED
    BY <1>3, <2>1, ValueAssumption DEF DeliveredStage
<1>7. CASE com
  <2>1. messagesLog' = [messagesLog EXCEPT ![p][i] = NoState]
    BY <1>1, <1>7, Zenon
  <2>2. finallyCommittedMessages' =
              [finallyCommittedMessages EXCEPT ![p] = @ \cup {i}]
    BY <1>1, <1>7
  <2>3. QED
    BY <1>1, <1>5, <1>6, <2>1, <2>2 DEF Handles
<1>8. CASE ~com
  <2>1. messagesLog' = [messagesLog EXCEPT ![p][i] = x]
    BY <1>1, <1>8, Zenon
  <2>2. finallyCommittedMessages' = finallyCommittedMessages
    BY <1>1, <1>8 DEF Typed
  <2>3. QED
    BY <1>1, <1>5, <1>6, <2>1, <2>2 DEF Handles
<1>9. QED
  BY <1>7, <1>8

\* Committing: the state stays or is dropped, and nothing is said or delivered.
LEMMA CommitmentHandles ==
    ASSUME Inv, CommitmentsTyped, NEW p \in Correct, NEW m, NEW v, NEW c,
           m.inst \in Instance, HandleCommitment(p, m)
    PROVE  \E x : Handles(p, m.inst, v, c, RegisterMessage(p, m.inst), x, {})
<1> DEFINE i == m.inst
           ms == RegisterMessage(p, i)
<1>1. /\ sent' = sent /\ transactionCounter' = transactionCounter
      /\ deliveredMessages' = deliveredMessages /\ deliveredXHash' = deliveredXHash
  BY DEF HandleCommitment
<1>2. StateBacked(ms, i)
  BY RegisteredState
<1>3. Outcome(p, i, v, c, ms, ms, {})
  <2> HIDE DEF ms, i
  <2>1. QED
    BY <1>2, StateParts DEF Outcome
<1>4. finallyCommittedMessages \in [Correct -> SUBSET Instance]
  BY DEF Inv, Typed
<1>5. CASE KeepPending(p, m, ms)
  <2>1. /\ messagesLog' = [messagesLog EXCEPT ![p][i] = ms]
        /\ finallyCommittedMessages' = finallyCommittedMessages
    BY <1>5 DEF KeepPending
  <2>2. QED
    BY <1>1, <1>3, <2>1 DEF Handles
<1>6. CASE ReceiveCommitment(p, m, ms)
  <2> DEFINE com == OnCommitment(p, m, ms, deliveredXHash[p][i], Mixed(p, i),
                                 Before(revealLog[p][i])).committed
  <2>1. /\ messagesLog' = [messagesLog EXCEPT ![p][i] = IF com THEN NoState ELSE ms]
        /\ finallyCommittedMessages' =
              [finallyCommittedMessages EXCEPT ![p] = IF com THEN @ \cup {i} ELSE @]
    BY <1>6, Zenon DEF ReceiveCommitment, StateAfter
  <2> HIDE DEF com, ms, i
  <2>2. CASE com
    <3>1. /\ messagesLog' = [messagesLog EXCEPT ![p][i] = NoState]
          /\ finallyCommittedMessages' =
                [finallyCommittedMessages EXCEPT ![p] = @ \cup {i}]
      BY <2>1, <2>2
    <3>2. deliveredMessages'[p][i] # None
      BY <1>1, <1>6 DEF ReceiveCommitment, Delivered, i
    <3>3. QED
      BY <1>1, <1>3, <3>1, <3>2 DEF Handles, i, ms
  <2>3. CASE ~com
    <3>1. /\ messagesLog' = [messagesLog EXCEPT ![p][i] = ms]
          /\ finallyCommittedMessages' = finallyCommittedMessages
      BY <1>4, <2>1, <2>3
    <3>2. QED
      BY <1>1, <1>3, <3>1 DEF Handles, i, ms
  <2>4. QED
    BY <2>2, <2>3
<1>7. QED
  BY <1>5, <1>6 DEF HandleCommitment

\* So does every handler of the broadcast, on the state the message registers.
LEMMA ReliableHandles ==
    ASSUME Inv, CommitmentsTyped, NEW p \in Correct, NEW q \in Proc,
           NEW s \in BroadcastStages, NEW i \in Instance, NEW v \in Value,
           NEW c \in Content, Receives(p, q, s, i, v, c)
    PROVE  \E x, msgs : Handles(p, i, v, c, RegisterMessage(p, i), x, msgs)
<1> DEFINE ms == RegisterMessage(p, i)
<1>1. StateBacked(ms, i) /\ WitnessInv /\ Arrives(q, s, i, v, c)
  BY RegisteredState DEF Inv, Receives
<1>2. Typed
  BY DEF Inv
<1>3. \/ s = "NOTIFY" /\ ReceiveNotify(p, i, v, c, ms)
      \/ s = "ECHO_FROM_WITNESS" /\ ReceiveEchoFromWitness(p, q, i, v, c, ms)
      \/ s = "ECHO_FROM_PROCESS" /\ ReceiveEchoFromProcess(p, q, i, v, c, ms)
      \/ s = "READY_FROM_WITNESS" /\ ReceiveReadyFromWitness(p, q, i, v, c, ms)
      \/ s = "READY_FROM_PROCESS" /\ ReceiveReadyFromProcess(p, q, i, v, c, ms)
      \/ s = "VALIDATE" /\ ReceiveValidate(p, q, i, v, c, ms)
      \/ RegisterOnly(p, q, s, i, ms)
  BY DEF Receives
<1> HIDE DEF ms
<1>4. CASE \/ s = "NOTIFY" /\ ReceiveNotify(p, i, v, c, ms)
           \/ s = "ECHO_FROM_WITNESS" /\ ReceiveEchoFromWitness(p, q, i, v, c, ms)
           \/ s = "ECHO_FROM_PROCESS" /\ ReceiveEchoFromProcess(p, q, i, v, c, ms)
           \/ s = "READY_FROM_WITNESS" /\ ReceiveReadyFromWitness(p, q, i, v, c, ms)
           \/ s = "READY_FROM_PROCESS" /\ ReceiveReadyFromProcess(p, q, i, v, c, ms)
  <2>1. \E x, msgs : Update(p, i, x, msgs) /\ Outcome(p, i, v, c, ms, x, msgs)
    BY <1>1, <1>4, OnNotify, OnEchoFromWitness, OnEchoFromProcess,
       OnReadyFromWitness, OnReadyFromProcess
  <2>2. QED
    BY <2>1, UpdateHandles DEF ms
<1>5. CASE s = "VALIDATE" /\ ReceiveValidate(p, q, i, v, c, ms)
  <2>1. PICK y : /\ Outcome(p, i, v, c, ms, y, {})
                 /\ \/ Update(p, i, y, {})
                    \/ /\ Deliver(p, i, v, c, y) /\ EchoQuorum(i, v)
                       /\ ms.stage < DeliveredStage
    BY <1>1, <1>5, OnValidate
  <2>2. CASE Update(p, i, y, {})
    BY <2>1, <2>2, UpdateHandles DEF ms
  <2>3. CASE Deliver(p, i, v, c, y) /\ EchoQuorum(i, v) /\ ms.stage < DeliveredStage
    BY <1>1, <1>2, <2>1, <2>3, DeliverHandles DEF ms
  <2>4. QED
    BY <2>1, <2>2, <2>3
<1>6. CASE RegisterOnly(p, q, s, i, ms)
  <2>1. Update(p, i, ms, {})
    BY <1>6 DEF RegisterOnly
  <2>2. Outcome(p, i, v, c, ms, ms, {})
    BY <1>1, StateParts DEF Outcome
  <2>3. QED
    BY <2>1, <2>2, UpdateHandles DEF ms
<1>7. QED
  BY <1>3, <1>4, <1>5, <1>6

-----------------------------------------------------------------------------
(* The network only grows *)

LEMMA SentMonotone ==
    ASSUME sent \subseteq sent', NEW q, NEW s, NEW i, NEW v, Sent(q, s, i, v)
    PROVE  Sent(q, s, i, v)'
BY DEF Sent

LEMMA VotersMonotone ==
    ASSUME sent \subseteq sent', NEW s, NEW i, NEW v
    PROVE  Voters(s, i, v) \subseteq Voters(s, i, v)'
BY SentMonotone DEF Voters

LEMMA QuorumMonotone ==
    ASSUME sent \subseteq sent', NEW i, NEW v, EchoQuorum(i, v)
    PROVE  EchoQuorum(i, v)'
<1> DEFINE A == Voters("ECHO_FROM_PROCESS", i, v)
           B == Voters("ECHO_FROM_PROCESS", i, v)'
<1>1. A \subseteq B
  BY VotersMonotone
<1>2. A \in SUBSET Proc /\ B \in SUBSET Proc
  BY DEF Voters
<1>3. Cardinality(A) >= QuorumThreshold
  BY DEF EchoQuorum
<1> HIDE DEF A, B
<1>4. Cardinality(A) <= Cardinality(B)
  BY <1>1, <1>2, SubsetCardinality
<1>5. Cardinality(B) >= QuorumThreshold
  BY <1>2, <1>3, <1>4, ProcSubset, Thresholds
<1>6. QED
  BY <1>5 DEF EchoQuorum, B, QuorumThreshold, N

LEMMA StateBackedMonotone ==
    ASSUME sent \subseteq sent', NEW x, NEW i, StateBacked(x, i)
    PROVE  StateBacked(x, i)'
BY VotersMonotone DEF StateBacked, Backed, Within

LEMMA SourcedMonotone ==
    ASSUME sent \subseteq sent', NEW i, NEW v, Sourced(i, v)
    PROVE  Sourced(i, v)'
BY SentMonotone DEF Sourced, Authentic

-----------------------------------------------------------------------------
(* What a handler keeps *)

\* The facts about a handler that the invariant depends on.
LEMMA HandlesShape ==
    ASSUME Inv, NEW p \in Correct, NEW i \in Instance, NEW v, NEW c, NEW ms,
           NEW x, NEW msgs, Handles(p, i, v, c, ms, x, msgs)
    PROVE  /\ Typed' /\ sent \subseteq sent'
           /\ messagesLog'[p][i] = x \/ messagesLog'[p][i] = NoState
           /\ i \notin finallyCommittedMessages'[p] => messagesLog'[p][i] = x
           /\ \A p2 \in Correct, i2 \in Instance :
                 /\ <<p2, i2>> # <<p, i>> =>
                       /\ messagesLog'[p2][i2] = messagesLog[p2][i2]
                       /\ deliveredMessages'[p2][i2] = deliveredMessages[p2][i2]
                 /\ i2 \in finallyCommittedMessages[p2] => i2 \in finallyCommittedMessages'[p2]
           /\ \/ deliveredMessages' = deliveredMessages
              \/ /\ deliveredMessages'[p][i] = v /\ EchoQuorum(i, v) /\ v \in Value
                 /\ ms.stage < DeliveredStage /\ x.stage >= DeliveredStage
           /\ \/ finallyCommittedMessages' = finallyCommittedMessages
              \/ /\ messagesLog'[p][i] = NoState /\ deliveredMessages'[p][i] # None
                 /\ \A p2 \in Correct, i2 \in Instance :
                       <<p2, i2>> # <<p, i>> =>
                          (i2 \in finallyCommittedMessages'[p2])
                              = (i2 \in finallyCommittedMessages[p2])
<1>1. /\ messagesLog \in LogType /\ deliveredMessages \in DeliveredType
      /\ finallyCommittedMessages \in [Correct -> SUBSET Instance]
      /\ transactionCounter \in [Correct -> Nat] /\ sent \subseteq Message
  BY DEF Inv, Typed
<1>2. /\ x \in MessageState /\ sent' = sent \cup msgs /\ msgs \subseteq Message
  BY DEF Handles, Outcome, StateBacked
<1>3. /\ messagesLog' \in LogType
      /\ \/ messagesLog'[p][i] = x
         \/ messagesLog'[p][i] = NoState /\ i \in finallyCommittedMessages'[p]
      /\ \A p2 \in Correct, i2 \in Instance :
            <<p2, i2>> # <<p, i>> => messagesLog'[p2][i2] = messagesLog[p2][i2]
  <2>1. CASE messagesLog' = [messagesLog EXCEPT ![p][i] = x]
    BY <1>1, <1>2, <2>1, EntryReplaced DEF LogType
  <2>2. CASE /\ messagesLog' = [messagesLog EXCEPT ![p][i] = NoState]
             /\ finallyCommittedMessages' =
                   [finallyCommittedMessages EXCEPT ![p] = @ \cup {i}]
    BY <1>1, <2>2, EntryReplaced DEF LogType
  <2>3. QED
    BY <2>1, <2>2 DEF Handles
<1>4. /\ deliveredMessages' \in DeliveredType
      /\ \/ deliveredMessages' = deliveredMessages
         \/ /\ deliveredMessages'[p][i] = v /\ EchoQuorum(i, v) /\ v \in Value
            /\ ms.stage < DeliveredStage /\ x.stage >= DeliveredStage
      /\ \A p2 \in Correct, i2 \in Instance :
            <<p2, i2>> # <<p, i>> => deliveredMessages'[p2][i2] = deliveredMessages[p2][i2]
  <2>1. CASE deliveredMessages' = deliveredMessages
    BY <1>1, <2>1
  <2>2. CASE /\ v \in Value /\ EchoQuorum(i, v)
             /\ ms.stage < DeliveredStage /\ x.stage >= DeliveredStage
             /\ deliveredMessages' = [deliveredMessages EXCEPT ![p][i] = v]
    BY <1>1, <2>2, EntryReplaced DEF DeliveredType
  <2>3. QED
    BY <2>1, <2>2 DEF Handles
<1>5. /\ finallyCommittedMessages' \in [Correct -> SUBSET Instance]
      /\ \A p2 \in Correct : finallyCommittedMessages[p2] \subseteq finallyCommittedMessages'[p2]
  BY <1>1 DEF Handles
<1>6. transactionCounter' = transactionCounter /\ sent' \subseteq Message
  BY <1>1, <1>2 DEF Handles
<1>7. Typed'
  BY <1>1, <1>3, <1>4, <1>5, <1>6 DEF Typed, LogType, DeliveredType
<1>8. \/ finallyCommittedMessages' = finallyCommittedMessages
      \/ /\ messagesLog'[p][i] = NoState /\ deliveredMessages'[p][i] # None
         /\ \A p2 \in Correct, i2 \in Instance :
               <<p2, i2>> # <<p, i>> =>
                  (i2 \in finallyCommittedMessages'[p2])
                      = (i2 \in finallyCommittedMessages[p2])
  <2>1. CASE /\ messagesLog' = [messagesLog EXCEPT ![p][i] = NoState]
             /\ finallyCommittedMessages' =
                   [finallyCommittedMessages EXCEPT ![p] = @ \cup {i}]
             /\ deliveredMessages'[p][i] # None
    <3>1. messagesLog'[p][i] = NoState
      BY <1>1, <2>1, EntryReplaced DEF LogType
    <3>2. QED
      BY <1>1, <2>1, <3>1
  <2>2. QED
    BY <2>1 DEF Handles
<1>9. QED
  BY <1>2, <1>3, <1>4, <1>5, <1>7, <1>8

\* Every conjunct of the invariant survives a handler.
LEMMA HandlesVotes ==
    ASSUME Inv, NEW p \in Correct, NEW i \in Instance, NEW v, NEW c, NEW ms, NEW x,
           NEW msgs,
           Handles(p, i, v, c, ms, x, msgs)
    PROVE  VotesBacked' /\ QuorumBehindReady' /\ DeliveryBacked'
<1> USE HandlesShape
<1>1. Outcome(p, i, v, c, ms, x, msgs) /\ sent' = sent \cup msgs /\ sent \subseteq sent'
  BY DEF Handles
<1>2. /\ VotesBacked /\ QuorumBehindReady /\ DeliveryBacked
      /\ sent \subseteq Message
  BY DEF Inv, WitnessInv, Typed
<1>3. VotesBacked'
  <2> SUFFICES ASSUME NEW p2 \in Correct, NEW i2 \in Instance,
                      messagesLog'[p2][i2] # NoState
               PROVE  StateBacked(messagesLog[p2][i2], i2)'
    BY DEF VotesBacked
  <2> DEFINE y == messagesLog'[p2][i2]
  <2>1. StateBacked(y, i2)
    <3>1. CASE <<p2, i2>> = <<p, i>>
      BY <1>1, <3>1 DEF Outcome
    <3>2. CASE <<p2, i2>> # <<p, i>>
      <4>1. messagesLog'[p2][i2] = messagesLog[p2][i2]
        BY <3>2
      <4>2. QED
        BY <1>2, <4>1 DEF VotesBacked
    <3>3. QED
      BY <3>1, <3>2
  <2>2. /\ Backed(y.echoFromProcesses, "ECHO_FROM_PROCESS", i2)
        /\ Backed(y.readyFromProcesses, "READY_FROM_PROCESS", i2)
        /\ Backed(y.readyFromWitnesses, "READY_FROM_WITNESS", i2)
        /\ Backed(y.validateFromWitnesses, "VALIDATE", i2)
        /\ y \in MessageState
        /\ Cardinality(y.ownWitnessSet \cap Faulty) < WitnessThreshold
        /\ Within(y.readyFromWitnesses, y.ownWitnessSet)
        /\ Within(y.validateFromWitnesses, y.ownWitnessSet)
    BY <2>1 DEF StateBacked
  <2>3. \A s, w : Voters(s, i2, w) \subseteq Voters(s, i2, w)'
    BY <1>1, VotersMonotone
  <2>4. QED
    BY <2>2, <2>3 DEF StateBacked, Backed, Within, VotesFor, MessageState, Votes
<1>4. QuorumBehindReady'
  <2> SUFFICES ASSUME NEW m \in sent', m.stage \in ReadyStages
               PROVE  EchoQuorum(m.inst, m.value)'
    BY DEF QuorumBehindReady, ReadyStages
  <2>1. EchoQuorum(m.inst, m.value)
    BY <1>1, <1>2 DEF Outcome, QuorumBehindReady, ReadyStages
  <2>2. QED
    BY <1>1, <2>1, QuorumMonotone
<1>5. DeliveryBacked'
  <2> SUFFICES ASSUME NEW p2 \in Correct, NEW i2 \in Instance, NEW w,
                      w = deliveredMessages'[p2][i2], w # None
               PROVE  EchoQuorum(i2, w)'
    BY DEF DeliveryBacked, Delivered, EchoQuorum, Voters, Sent, QuorumThreshold, N
  <2>1. EchoQuorum(i2, w)
    <3>1. CASE w = deliveredMessages[p2][i2]
      BY <1>2, <3>1 DEF DeliveryBacked, Delivered
    <3>2. CASE w # deliveredMessages[p2][i2]
      <4>1. p2 = p /\ i2 = i
        BY <3>2
      <4>2. QED
        BY <3>2, <4>1
    <3>3. QED
      BY <3>1, <3>2
  <2>2. QED
    BY <1>1, <2>1, QuorumMonotone
<1>6. QED
  BY <1>3, <1>4, <1>5

LEMMA HandlesSources ==
    ASSUME Inv, NEW p \in Correct, NEW i \in Instance, NEW v, NEW c, NEW ms, NEW x,
           NEW msgs,
           Handles(p, i, v, c, ms, x, msgs)
    PROVE  NotifiedOnce' /\ EchoSourced'
<1>1. /\ Outcome(p, i, v, c, ms, x, msgs) /\ sent' = sent \cup msgs
      /\ transactionCounter' = transactionCounter
  BY DEF Handles
<1>2. NotifiedOnce /\ EchoSourced
  BY DEF Inv, WitnessInv
<1>3. \A m \in sent' : m.stage = "NOTIFY" => m \in sent
  BY <1>1 DEF Outcome
<1>4. NotifiedOnce'
  BY <1>1, <1>2, <1>3 DEF NotifiedOnce
<1>5. EchoSourced'
  <2> SUFFICES ASSUME NEW m \in sent', m.inst \in Authentic,
                      m.stage \in {"ECHO_FROM_WITNESS", "ECHO_FROM_PROCESS"}
               PROVE  Sent(m.inst.author, "NOTIFY", m.inst, m.value)'
    BY DEF EchoSourced, Authentic
  <2>1. Sent(m.inst.author, "NOTIFY", m.inst, m.value)
    BY <1>1, <1>2 DEF EchoSourced, Outcome, Sourced
  <2>2. QED
    BY <1>1, <2>1, SentMonotone
<1>6. QED
  BY <1>4, <1>5

\* A process that has echoed has a state that says so, so it echoes once.
LEMMA HandlesEchoes ==
    ASSUME Inv, NEW p \in Correct, NEW i \in Instance, NEW v, NEW c, NEW ms, NEW x,
           NEW msgs,
           Handles(p, i, v, c, ms, x, msgs), ms = RegisterMessage(p, i), StateBacked(ms, i),
           i \notin finallyCommittedMessages[p], NotifiedOnce', EchoSourced'
    PROVE  EchoRecorded' /\ OneEcho'
<1>1. /\ Outcome(p, i, v, c, ms, x, msgs) /\ sent' = sent \cup msgs
      /\ x \in MessageState /\ x.stage \in 0 .. 3 /\ ms.stage \in 0 .. 3
  BY StateParts DEF Handles, Outcome
<1>2. EchoRecorded /\ OneEcho /\ sent \subseteq Message
  BY DEF Inv, WitnessInv, Typed
<1>3. ASSUME NEW m \in sent, m.stage = "ECHO_FROM_PROCESS", m.inst.author \in Faulty,
             m.from = p, m.inst = i
      PROVE  ms.stage >= SentEchoFromProcess
  BY <1>2, <1>3 DEF EchoRecorded, RegisterMessage
<1>4. EchoRecorded'
  <2> SUFFICES ASSUME NEW m \in sent', m.stage = "ECHO_FROM_PROCESS",
                      m.inst.author \in Faulty,
                      m.inst \notin finallyCommittedMessages'[m.from]
               PROVE  /\ messagesLog'[m.from][m.inst] # NoState
                      /\ messagesLog'[m.from][m.inst].stage >= SentEchoFromProcess
    BY DEF EchoRecorded
  <2>1. m.from \in Correct /\ m.inst \in Instance
    BY <1>1, <1>2 DEF Outcome, Message
  <2>2. CASE m.from = p /\ m.inst = i
    <3>1. messagesLog'[p][i] = x
      BY <2>2, HandlesShape
    <3>2. x.stage >= SentEchoFromProcess
      <4>1. CASE m \in sent
        BY <1>1, <1>3, <2>2, <4>1 DEF Outcome, SentEchoFromProcess
      <4>2. CASE m \in msgs
        BY <1>1, <4>2 DEF Outcome
      <4>3. QED
        BY <1>1, <4>1, <4>2
    <3>3. QED
      BY <1>1, <2>2, <3>1, <3>2, NoStateIsNone
  <2>3. CASE <<m.from, m.inst>> # <<p, i>>
    <3>1. /\ messagesLog'[m.from][m.inst] = messagesLog[m.from][m.inst]
          /\ m.inst \notin finallyCommittedMessages[m.from]
      BY <2>1, <2>3, HandlesShape
    <3>2. m \in sent
      BY <1>1, <2>3 DEF Outcome
    <3>3. QED
      BY <1>2, <3>1, <3>2 DEF EchoRecorded
  <2>4. QED
    BY <2>2, <2>3
<1>5. OneEcho'
  <2> SUFFICES ASSUME NEW m1 \in sent', NEW m2 \in sent',
                      m1.stage = "ECHO_FROM_PROCESS", m2.stage = "ECHO_FROM_PROCESS",
                      m1.inst = m2.inst, m1.from = m2.from, m1.inst \in Judged
               PROVE  m1.value = m2.value
    BY DEF OneEcho, Judged, Authentic
  <2>1. CASE m1.inst \in Authentic
    <3>1. /\ Sent(m1.inst.author, "NOTIFY", m1.inst, m1.value)'
          /\ Sent(m1.inst.author, "NOTIFY", m1.inst, m2.value)'
      BY <2>1 DEF EchoSourced, Authentic
    <3>2. QED
      BY <3>1 DEF Sent, NotifiedOnce
  <2>2. CASE m1.inst.author \in Faulty
    <3>1. CASE m1 \in sent /\ m2 \in sent
      BY <1>2, <3>1 DEF OneEcho
    <3>2. CASE m1 \in msgs /\ m2 \in msgs
      BY <1>1, <3>2 DEF Outcome
    <3>3. CASE m1 \in msgs /\ m2 \in sent
      <4>1. m1.from = p /\ m1.inst = i /\ ms.stage < SentEchoFromProcess
        BY <1>1, <3>3 DEF Outcome
      <4>2. ms.stage >= SentEchoFromProcess
        BY <1>3, <2>2, <3>3, <4>1
      <4>3. QED
        BY <1>1, <4>1, <4>2 DEF SentEchoFromProcess
    <3>4. CASE m1 \in sent /\ m2 \in msgs
      <4>1. m2.from = p /\ m2.inst = i /\ ms.stage < SentEchoFromProcess
        BY <1>1, <3>4 DEF Outcome
      <4>2. ms.stage >= SentEchoFromProcess
        BY <1>3, <2>2, <3>4, <4>1
      <4>3. QED
        BY <1>1, <4>1, <4>2 DEF SentEchoFromProcess
    <3>5. QED
      BY <1>1, <3>1, <3>2, <3>3, <3>4
  <2>3. QED
    BY <2>1, <2>2 DEF Judged
<1>6. QED
  BY <1>4, <1>5

LEMMA HandlesInv ==
    ASSUME Inv, CommitmentsTyped, NEW p \in Correct, NEW i \in Instance, NEW v, NEW c, NEW ms, NEW x,
           NEW msgs,
           Handles(p, i, v, c, ms, x, msgs), ms = RegisterMessage(p, i),
           i \notin finallyCommittedMessages[p]
    PROVE  Inv'
<1>1. StateBacked(ms, i)
  BY RegisteredState
<1>2. Typed'
  BY HandlesShape
<1>3. QED
  BY <1>1, <1>2, HandlesVotes, HandlesSources, HandlesEchoes DEF Inv, WitnessInv

-----------------------------------------------------------------------------
(* Broadcast *)

\* An author p begins the instance i of its next number with a fresh state x and
\* the message n.
Begins(p, v, i, x, n) ==
    /\ i.author = p /\ i.seqNumber = transactionCounter[p]
    /\ StateBacked(x, i)
    /\ n.from = p /\ n.stage = "NOTIFY" /\ n.inst = i /\ n.value = v
    /\ n.content = Genuine(p) /\ x.ownEncryptedShare = None
    /\ sent' = sent \cup {n}
    /\ messagesLog' = [messagesLog EXCEPT ![p][i] = x]
    /\ transactionCounter' = [transactionCounter EXCEPT ![p] = @ + 1]
    /\ UNCHANGED <<deliveredMessages, deliveredXHash, finallyCommittedMessages,
                   commitmentSent>>

LEMMA GenuineType ==
    ASSUME NEW p \in Proc
    PROVE  Genuine(p) \in Content /\ HashOnly(Genuine(p)) \in Content
<1>1. Sample[p] \in Secret
  BY SecretAssumption
<1>2. Hash[Sample[p]] \in XHashes
  BY <1>1 DEF XHashes
<1>3. \A q \in Proc : Encrypt[q][EncodeEntropy[Sample[p]][q]] \in Cipher
  BY <1>1, SecretAssumption
<1>4. Genuine(p) \in Content
  BY <1>2, <1>3 DEF Genuine, Content, ShareVector
<1>5. QED
  BY <1>4, HashOnlyType

LEMMA BroadcastShape ==
    ASSUME Inv, CommitmentsTyped, NEW p \in Correct, NEW v \in Value, Broadcast(p, v)
    PROVE  \E i \in Instance, x \in MessageState, n \in Message : Begins(p, v, i, x, n)
<1> DEFINE i == [author |-> p, seqNumber |-> transactionCounter[p]]
           x == NewMessageState(p)
           n == Msg(p, x.potWitnessSet, "NOTIFY", i, v, Genuine(p))
<1>1. /\ sent' = sent \cup {n}
      /\ messagesLog' = [messagesLog EXCEPT ![p][i] = x]
      /\ transactionCounter' = [transactionCounter EXCEPT ![p] = @ + 1]
      /\ UNCHANGED <<deliveredMessages, deliveredXHash, finallyCommittedMessages,
                     commitmentSent>>
  BY Zenon DEF Broadcast, commitmentVars
<1>2. i \in Instance /\ i.author = p /\ i.seqNumber = transactionCounter[p]
  <2>1. transactionCounter[p] \in Nat
    BY DEF Inv, Typed
  <2>2. transactionCounter[p] \in 0 .. MaxTransactions - 1 /\ p \in Authors
    BY <2>1, BoundAssumption DEF Broadcast
  <2>3. QED
    BY <2>2 DEF Instance
<1>3. StateBacked(x, i)
  <2>1. history[p] \in SUBSET (Instance \X Secret)
    BY DEF CommitmentsTyped
  <2> HIDE DEF x, i
  <2>2. QED
    BY <2>1, FreshState DEF x
<1>4. x.ownEncryptedShare = None
  BY DEF NewMessageState
<1> HIDE DEF x, i
<1>5. /\ n \in Message /\ n.from = p /\ n.stage = "NOTIFY" /\ n.inst = i /\ n.value = v
      /\ n.content = Genuine(p)
  <2>1. Genuine(p) \in Content
    BY GenuineType DEF Correct
  <2>2. QED
    BY <1>2, <1>3, <2>1, StateParts DEF Msg, Message, BroadcastStages
<1> HIDE DEF n
<1>6. x \in MessageState
  BY <1>3 DEF StateBacked
<1>7. Begins(p, v, i, x, n)
  BY <1>1, <1>2, <1>3, <1>4, <1>5 DEF Begins
<1>8. QED
  BY <1>2, <1>5, <1>6, <1>7

LEMMA BroadcastInv ==
    ASSUME Inv, CommitmentsTyped, NEW p \in Correct, NEW v \in Value, Broadcast(p, v)
    PROVE  Inv'
<1>0. PICK i \in Instance, x \in MessageState, n \in Message : Begins(p, v, i, x, n)
  BY BroadcastShape
<1>1. /\ i.author = p /\ i.seqNumber = transactionCounter[p]
      /\ StateBacked(x, i)
      /\ n.from = p /\ n.stage = "NOTIFY" /\ n.inst = i
      /\ sent' = sent \cup {n}
      /\ messagesLog' = [messagesLog EXCEPT ![p][i] = x]
      /\ transactionCounter' = [transactionCounter EXCEPT ![p] = @ + 1]
      /\ deliveredMessages' = deliveredMessages
      /\ finallyCommittedMessages' = finallyCommittedMessages
  BY <1>0 DEF Begins
<1>2. Typed /\ WitnessInv /\ sent \subseteq sent' /\ x \in MessageState
  BY <1>1 DEF Inv, StateBacked
<1>3. /\ messagesLog' \in LogType /\ messagesLog'[p][i] = x
      /\ \A p2 \in Correct, i2 \in Instance :
            <<p2, i2>> # <<p, i>> => messagesLog'[p2][i2] = messagesLog[p2][i2]
  BY <1>1, <1>2, EntryReplaced DEF LogType, Typed
<1>4. /\ transactionCounter' \in [Correct -> Nat]
      /\ \A p2 \in Correct : transactionCounter'[p2] >= transactionCounter[p2]
      /\ transactionCounter'[p] = transactionCounter[p] + 1
      /\ transactionCounter[p] \in Nat
  BY <1>1, <1>2 DEF Typed
<1>5. Typed'
  BY <1>1, <1>2, <1>3, <1>4 DEF Typed, LogType, DeliveredType
<1>6. VotesBacked'
  <2> SUFFICES ASSUME NEW p2 \in Correct, NEW i2 \in Instance, NEW y,
                      y = messagesLog'[p2][i2], y # NoState
               PROVE  StateBacked(y, i2)'
    BY Zenon DEF VotesBacked, StateBacked, Backed, Voters, Sent
  <2>1. StateBacked(y, i2)
    <3>1. CASE <<p2, i2>> = <<p, i>>
      BY <1>1, <1>3, <3>1
    <3>2. CASE <<p2, i2>> # <<p, i>>
      <4>1. y = messagesLog[p2][i2]
        BY <1>3, <3>2
      <4>2. QED
        BY <1>2, <4>1 DEF WitnessInv, VotesBacked
    <3>3. QED
      BY <3>1, <3>2
  <2>2. QED
    BY <1>2, <2>1, StateBackedMonotone
<1>7. QuorumBehindReady'
  <2> SUFFICES ASSUME NEW m \in sent', m.stage \in ReadyStages
               PROVE  EchoQuorum(m.inst, m.value)'
    BY DEF QuorumBehindReady, ReadyStages
  <2>1. m \in sent
    BY <1>1 DEF ReadyStages
  <2>2. EchoQuorum(m.inst, m.value)
    BY <1>2, <2>1 DEF WitnessInv, QuorumBehindReady, ReadyStages
  <2>3. QED
    BY <1>2, <2>2, QuorumMonotone
<1>8. DeliveryBacked'
  <2> SUFFICES ASSUME NEW p2 \in Correct, NEW i2 \in Instance, NEW w,
                      w = deliveredMessages'[p2][i2], w # None
               PROVE  EchoQuorum(i2, w)'
    BY DEF DeliveryBacked, Delivered, EchoQuorum, Voters, Sent, QuorumThreshold, N
  <2>1. EchoQuorum(i2, w)
    BY <1>1, <1>2 DEF WitnessInv, DeliveryBacked, Delivered
  <2>2. QED
    BY <1>2, <2>1, QuorumMonotone
<1>9. EchoRecorded'
  <2> SUFFICES ASSUME NEW m \in sent', m.stage = "ECHO_FROM_PROCESS",
                      m.inst.author \in Faulty
               PROVE  \/ m.inst \in finallyCommittedMessages[m.from]
                      \/ /\ messagesLog'[m.from][m.inst] # NoState
                         /\ messagesLog'[m.from][m.inst].stage >= SentEchoFromProcess
    BY <1>1 DEF EchoRecorded
  <2>1. m \in sent /\ m.from \in Correct /\ m.inst \in Instance /\ m.inst # i
    BY <1>1, <1>2 DEF Typed, Message, Correct
  <2>2. messagesLog'[m.from][m.inst] = messagesLog[m.from][m.inst]
    BY <1>3, <2>1
  <2>3. QED
    BY <1>2, <2>1, <2>2 DEF WitnessInv, EchoRecorded
<1>10. NotifiedOnce'
  <2>1. NotifiedOnce /\ sent \subseteq Message
    BY <1>2 DEF WitnessInv, Typed
  <2>2. ASSUME NEW m \in sent, m.stage = "NOTIFY"
        PROVE  m.from = m.inst.author /\ m.inst.seqNumber < transactionCounter[m.from]
    BY <2>1, <2>2 DEF NotifiedOnce
  <2>3. ASSUME NEW m \in sent, m.stage = "NOTIFY"
        PROVE  m.inst # i
    BY <1>1, <1>4, <2>2, <2>3
  <2>4. ASSUME NEW m \in sent', m.stage = "NOTIFY"
        PROVE  m.from = m.inst.author /\ m.inst.seqNumber < transactionCounter'[m.from]
    <3>1. CASE m \in sent
      <4>1. m.from \in Correct /\ m.inst.seqNumber \in Int
        BY <2>1, <3>1 DEF Message, Instance
      <4>2. /\ transactionCounter[m.from] \in Nat /\ transactionCounter'[m.from] \in Nat
            /\ transactionCounter'[m.from] >= transactionCounter[m.from]
        BY <1>2, <1>4, <4>1 DEF Typed
      <4>3. QED
        BY <2>2, <2>4, <3>1, <4>1, <4>2
    <3>2. CASE m = n
      BY <1>1, <1>4, <3>2
    <3>3. QED
      BY <1>1, <2>4, <3>1, <3>2
  <2>5. ASSUME NEW m1 \in sent', NEW m2 \in sent', m1.stage = "NOTIFY",
               m2.stage = "NOTIFY", m1.inst = m2.inst
        PROVE  m1.value = m2.value
    BY <1>1, <2>1, <2>3, <2>5 DEF NotifiedOnce
  <2>6. QED
    BY <2>4, <2>5 DEF NotifiedOnce
<1>11. EchoSourced'
  <2> SUFFICES ASSUME NEW m \in sent', m.inst \in Authentic,
                      m.stage \in {"ECHO_FROM_WITNESS", "ECHO_FROM_PROCESS"}
               PROVE  Sent(m.inst.author, "NOTIFY", m.inst, m.value)'
    BY DEF EchoSourced, Authentic
  <2>1. Sent(m.inst.author, "NOTIFY", m.inst, m.value)
    BY <1>1, <1>2 DEF WitnessInv, EchoSourced
  <2>2. QED
    BY <1>2, <2>1, SentMonotone
<1>12. OneEcho'
  BY <1>1, <1>2 DEF WitnessInv, OneEcho, Judged, Authentic
<1>13. QED
  BY <1>5, <1>6, <1>7, <1>8, <1>9, <1>10, <1>11, <1>12 DEF Inv, WitnessInv

-----------------------------------------------------------------------------
(* The theorems *)

\* Typing, a delivery and what it replays counts any shares and secrets.
LEMMA AnyConclusive ==
    ASSUME NEW h
    PROVE  Conclusive(Proc \X Share, Secret, TRUE, h)
<1>1. ASSUME NEW S \in SUBSET (Proc \X Share), Reconstruct[S] # None
      PROVE  Reconstruct[S] \in Secret
  BY <1>1, SecretAssumption
<1>2. QED
  BY <1>1 DEF Conclusive

LEMMA AnyAdmitted ==
    ASSUME NEW m \in Commitments
    PROVE  Admitted(m, Proc \X Share, Secret, TRUE)
BY DEF Commitments, CommitmentMessage, Admitted

LEMMA NewReveal ==
    /\ NewRevealState \in RevealState /\ NewRevealState.pending = <<>>
    /\ NewRevealState.decryptedShares = {}
    /\ NewRevealState.pending \in Seq(Commitments)
BY DEF NewRevealState, RevealState, RevealStages

\* The own share that a state has decrypts to a share, if it does.
LEMMA DecryptedType ==
    ASSUME NEW p \in Correct, NEW x \in MessageState \cup {NoState}, DecryptedShare(p, x) # None
    PROVE  x \in MessageState /\ DecryptedShare(p, x) \in Share
<1>1. x # NoState /\ x \in MessageState
  BY DEF DecryptedShare
<1>2. /\ x.ownEncryptedShare \in Cipher
      /\ DecryptedShare(p, x) = Decrypt[p][x.ownEncryptedShare]
  BY <1>1 DEF DecryptedShare, MessageState
<1>3. QED
  BY <1>1, <1>2, SecretAssumption DEF Correct

\* What a delivery reveals: the share of an instance that it has a state of.
LEMMA DeliverReveals ==
    ASSUME Inv, CommitmentsTyped, NEW p \in Correct, NEW i \in Instance, NEW v,
           NEW c, NEW ms \in MessageState, Deliver(p, i, v, c, ms),
           NEW m \in commitmentSent', m \notin commitmentSent,
           m \notin Announcements(p, i, ms, Replay(p, i, ms, c.xHash).announced)
    PROVE  LET order == Append(deliveryOrder[p], i)
               y == [ms EXCEPT !.stage = DeliveredStage]
           IN  \E k \in DOMAIN order : \E x \in MessageState :
                  /\ k = DueForReveal(order) /\ order[k] \in Instance
                  /\ DecryptedShare(p, x) \in Share
                  /\ x = IF order[k] = i THEN y ELSE messagesLog[p][order[k]]
                  /\ m = Commitment(p, x.potWitnessSet, "REVEAL", order[k],
                                    "InitialRevealStage", DecryptedShare(p, x))
<1> DEFINE order == Append(deliveryOrder[p], i)
           y     == [ms EXCEPT !.stage = DeliveredStage]
           com   == Replay(p, i, ms, c.xHash).committed
           log   == [messagesLog[p] EXCEPT ![i] = IF com THEN NoState ELSE y]
           due   == {k \in DOMAIN order : k = DueForReveal(order)}
           fatal == \/ Replay(p, i, ms, c.xHash).fatal
                    \/ \E k \in due : DecryptedShare(p, log[order[k]]) = None
<1>1. order \in Seq(Instance)
  BY DEF CommitmentsTyped
<1>2. y \in MessageState
  BY DEF MessageState, InitialStage, DeliveredStage
<1>3. /\ \A j \in Instance : log[j] \in MessageState \cup {NoState}
      /\ log[i] \in {NoState, y}
      /\ \A j \in Instance : j # i => log[j] = messagesLog[p][j]
  <2> HIDE DEF y, com
  <2>1. messagesLog[p] \in [Instance -> MessageState \cup {NoState}]
    BY DEF Inv, Typed, LogType
  <2>2. QED
    BY <1>2, <2>1
<1>4. commitmentSent' = commitmentSent
         \cup Announcements(p, i, ms, Replay(p, i, ms, c.xHash).announced)
         \cup (IF fatal THEN {}
               ELSE {Commitment(p, log[order[k]].potWitnessSet, "REVEAL", order[k],
                                "InitialRevealStage",
                                DecryptedShare(p, log[order[k]])) : k \in due})
  BY Zenon DEF Deliver
<1> HIDE DEF order, y, log, fatal, due
<1>5. ~fatal /\ \E k \in due :
         m = Commitment(p, log[order[k]].potWitnessSet, "REVEAL", order[k],
                        "InitialRevealStage", DecryptedShare(p, log[order[k]]))
  BY <1>4
<1>6. PICK k \in due :
         m = Commitment(p, log[order[k]].potWitnessSet, "REVEAL", order[k],
                        "InitialRevealStage", DecryptedShare(p, log[order[k]]))
  BY <1>5
<1>7. k \in DOMAIN order /\ k = DueForReveal(order) /\ order[k] \in Instance
  BY <1>1 DEF due
<1>8. DecryptedShare(p, log[order[k]]) # None
  BY <1>5 DEF fatal
<1>9. log[order[k]] \in MessageState /\ DecryptedShare(p, log[order[k]]) \in Share
  BY <1>3, <1>7, <1>8, DecryptedType
<1>10. log[order[k]] = IF order[k] = i THEN y ELSE messagesLog[p][order[k]]
  BY <1>3, <1>7, <1>9, NoStateIsNone
<1>11. QED
  BY <1>6, <1>7, <1>9, <1>10 DEF order, y

LEMMA RevealTyped ==
    ASSUME NEW p \in Correct, NEW j \in Instance, NEW x \in MessageState, NEW d \in Share
    PROVE  Commitment(p, x.potWitnessSet, "REVEAL", j, "InitialRevealStage", d) \in Commitments
<1>1. x.potWitnessSet \in SUBSET Proc
  BY DEF MessageState
<1>2. QED
  BY <1>1 DEF Commitment, Commitments, CommitmentMessage, CommitmentStages, RevealStages,
     Correct

\* A work state for which anything goes, taken over by p.
LEMMA WorkTaken ==
    ASSUME CommitmentsTyped, NEW p \in Correct, NEW i \in Instance, NEW h, NEW mixed,
           NEW pending \in Seq(Commitments),
           NEW st \in WorkStates(Proc \X Share, Secret, TRUE, h, mixed, pending),
           NEW ms \in MessageState,
           history' = [history EXCEPT ![p] = @ \cup ({i} \X st.added)],
           revealLog' = [revealLog EXCEPT ![p][i] =
                            IF st.committed THEN NewRevealState ELSE st.reveal]
    PROVE  /\ history' \in [Correct -> SUBSET (Instance \X Secret)]
           /\ revealLog' \in [Correct -> [Instance -> RevealState]]
           /\ \A q \in Correct, j \in Instance : revealLog'[q][j].pending \in Seq(Commitments)
           /\ Announcements(p, i, ms, st.announced) \subseteq Commitments
<1>1. /\ st.reveal \in RevealState /\ st.reveal.pending = pending
      /\ st.added \subseteq Secret /\ st.announced \in SUBSET Sayable(Secret, TRUE, h)
  BY DEF WorkStates
<1>2. history' \in [Correct -> SUBSET (Instance \X Secret)]
  BY <1>1 DEF CommitmentsTyped
<1> DEFINE r == IF st.committed THEN NewRevealState ELSE st.reveal
<1>3. r \in RevealState /\ r.pending \in Seq(Commitments)
  BY <1>1, NewReveal
<1> HIDE DEF r
<1>4. /\ revealLog' \in [Correct -> [Instance -> RevealState]]
      /\ revealLog'[p][i] = r
      /\ \A q \in Correct, j \in Instance :
            <<q, j>> # <<p, i>> => revealLog'[q][j] = revealLog[q][j]
  BY <1>3, EntryReplaced DEF CommitmentsTyped, r
<1>5. \A q \in Correct, j \in Instance : revealLog'[q][j].pending \in Seq(Commitments)
  BY <1>3, <1>4 DEF CommitmentsTyped
<1>6. ms.potWitnessSet \in SUBSET Proc /\ p \in Proc /\ Secret \in SUBSET Secret
  BY DEF MessageState, Correct
<1>7. ASSUME NEW announced, announced = st.announced, NEW D, D = Secret,
             NEW fails, fails = TRUE, NEW m \in Announcements(p, i, ms, announced)
      PROVE  m \in Commitments
  <2>1. D \in SUBSET Secret /\ announced \in SUBSET Sayable(D, fails, h)
    BY <1>1, <1>7
  <2>2. QED
    BY <1>6, <2>1, AnnouncementsTyped
<1>8. QED
  BY <1>2, <1>4, <1>5, <1>7

LEMMA DeliverCommitments ==
    ASSUME Inv, CommitmentsTyped, NEW p \in Correct, NEW i \in Instance, NEW v,
           NEW c \in Content, NEW ms \in MessageState, Deliver(p, i, v, c, ms)
    PROVE  CommitmentsTyped'
<1> DEFINE order == Append(deliveryOrder[p], i)
           st    == Replay(p, i, ms, c.xHash)
<1>1. /\ deliveryOrder' = [deliveryOrder EXCEPT ![p] = order]
      /\ deliveredXHash' = [deliveredXHash EXCEPT ![p][i] = c.xHash]
      /\ history' = [history EXCEPT ![p] = @ \cup ({i} \X st.added)]
      /\ revealLog' = [revealLog EXCEPT ![p][i] =
                          IF st.committed THEN NewRevealState ELSE st.reveal]
      /\ commitmentReceived' = commitmentReceived
  BY Zenon DEF Deliver
<1>2. order \in Seq(Instance) /\ c.xHash \in XHashes
  BY DEF CommitmentsTyped, Content
<1>3. st \in WorkStates(Proc \X Share, Secret, TRUE, c.xHash, MixingTime = 0, <<>>)
  <2> DEFINE r == revealLog[p][i]
  <2>1. r \in RevealState /\ r.pending \in Seq(Commitments)
    BY DEF CommitmentsTyped
  <2>2. r.decryptedShares \subseteq Proc \X Share
    BY <2>1 DEF RevealState
  <2> HIDE DEF r
  <2>3. ASSUME NEW k \in DOMAIN r.pending
        PROVE  Admitted(r.pending[k], Proc \X Share, Secret, TRUE)
    <3>1. r.pending[k] \in Commitments
      BY <2>1
    <3>2. QED
      BY <3>1, AnyAdmitted
  <2>4. QED
    BY <2>1, <2>2, <2>3, AnyConclusive, ReplayKeeps DEF r
<1> HIDE DEF order, st
<1>4. <<>> \in Seq(Commitments)
  OBVIOUS
<1>5. /\ history' \in [Correct -> SUBSET (Instance \X Secret)]
      /\ revealLog' \in [Correct -> [Instance -> RevealState]]
      /\ \A q \in Correct, j \in Instance : revealLog'[q][j].pending \in Seq(Commitments)
      /\ Announcements(p, i, ms, st.announced) \subseteq Commitments
  BY <1>1, <1>3, <1>4, WorkTaken
<1>6. commitmentSent' \subseteq Commitments
  <2> SUFFICES ASSUME NEW m \in commitmentSent', m \notin commitmentSent,
                      m \notin Announcements(p, i, ms, st.announced)
               PROVE  m \in Commitments
    BY <1>5 DEF CommitmentsTyped
  <2>1. PICK j \in Instance, x \in MessageState :
           /\ DecryptedShare(p, x) \in Share
           /\ m = Commitment(p, x.potWitnessSet, "REVEAL", j, "InitialRevealStage",
                             DecryptedShare(p, x))
    BY DeliverReveals DEF st
  <2>2. QED
    BY <2>1, RevealTyped
<1>7. deliveryOrder' \in [Correct -> Seq(Instance)]
  BY <1>1, <1>2 DEF CommitmentsTyped
<1>8. deliveredXHash' \in [Correct -> [Instance -> XHashes \cup {None}]]
  BY <1>1, <1>2, EntryReplaced DEF CommitmentsTyped
<1>9. QED
  BY <1>1, <1>5, <1>6, <1>7, <1>8 DEF CommitmentsTyped

LEMMA HandleCommitmentTyped ==
    ASSUME Inv, CommitmentsTyped, NEW p \in Correct,
           NEW m \in commitmentSent \cup FaultyCommitments, HandleCommitment(p, m)
    PROVE  CommitmentsTyped'
<1> DEFINE i == m.inst
           ms == RegisterMessage(p, i)
           h == deliveredXHash[p][i]
           r == revealLog[p][i]
           st == OnCommitment(p, m, ms, h, Mixed(p, i), Before(r))
<1>1. m \in Commitments /\ m \in CommitmentMessage /\ i \in Instance
  BY CommitmentArrives
<1>2. ms \in MessageState
  BY <1>1, RegisteredState DEF StateBacked
<1>3. /\ deliveryOrder' = deliveryOrder /\ deliveredXHash' = deliveredXHash
      /\ commitmentReceived' = [commitmentReceived EXCEPT ![p] = @ \cup {m}]
  BY DEF HandleCommitment
<1>4. commitmentReceived' \in [Correct -> SUBSET CommitmentMessage]
  BY <1>1, <1>3 DEF CommitmentsTyped
<1>5. r \in RevealState /\ r.pending \in Seq(Commitments)
  BY <1>1 DEF CommitmentsTyped
<1>6. CASE KeepPending(p, m, ms)
  <2> DEFINE r2 == [r EXCEPT !.pending = Append(@, m)]
  <2>1. revealLog' = [revealLog EXCEPT ![p][i] = r2]
    BY <1>6, Zenon DEF KeepPending
  <2>2. r2 \in RevealState /\ r2.pending \in Seq(Commitments)
    <3>1. r.pending \in Seq(CommitmentMessage)
      BY <1>5 DEF RevealState
    <3>2. /\ Append(r.pending, m) \in Seq(CommitmentMessage)
          /\ Append(r.pending, m) \in Seq(Commitments)
      BY <1>1, <1>5, <3>1
    <3> HIDE DEF r
    <3>3. QED
      BY <1>5, <3>2 DEF RevealState
  <2>3. history' = history /\ commitmentSent' = commitmentSent
    BY <1>6 DEF KeepPending
  <2> HIDE DEF r2
  <2>4. /\ revealLog' \in [Correct -> [Instance -> RevealState]]
        /\ revealLog'[p][i] = r2
        /\ \A q \in Correct, j \in Instance :
              <<q, j>> # <<p, i>> => revealLog'[q][j] = revealLog[q][j]
    BY <1>1, <2>1, <2>2, EntryReplaced DEF CommitmentsTyped
  <2>5. \A q \in Correct, j \in Instance : revealLog'[q][j].pending \in Seq(Commitments)
    BY <2>2, <2>4 DEF CommitmentsTyped
  <2>6. QED
    BY <1>3, <1>4, <2>3, <2>4, <2>5 DEF CommitmentsTyped
<1>7. CASE ReceiveCommitment(p, m, ms)
  <2>1. /\ history' = [history EXCEPT ![p] = @ \cup ({i} \X st.added)]
        /\ revealLog' = [revealLog EXCEPT ![p][i] =
                            IF st.committed THEN NewRevealState ELSE st.reveal]
        /\ commitmentSent' = commitmentSent \cup Announcements(p, i, ms, st.announced)
    BY <1>7, Zenon DEF ReceiveCommitment
  <2> DEFINE W == WorkStates(Proc \X Share, Secret, TRUE, h, Mixed(p, i), r.pending)
  <2>2. Before(r) \in W
    <3>1. r.decryptedShares \subseteq Proc \X Share
      BY <1>5 DEF RevealState
    <3> HIDE DEF r
    <3>2. QED
      BY <1>5, <3>1, BeforeWorks
  <2>3. st \in W
    BY <1>1, <2>2, AnyConclusive, AnyAdmitted, OnCommitmentKeeps
  <2> HIDE DEF st, i, ms, h, r
  <2>4. /\ history' \in [Correct -> SUBSET (Instance \X Secret)]
        /\ revealLog' \in [Correct -> [Instance -> RevealState]]
        /\ \A q \in Correct, j \in Instance : revealLog'[q][j].pending \in Seq(Commitments)
        /\ Announcements(p, i, ms, st.announced) \subseteq Commitments
    BY <1>1, <1>2, <1>5, <2>1, <2>3, WorkTaken
  <2>5. QED
    BY <1>3, <1>4, <2>1, <2>4 DEF CommitmentsTyped
<1>8. QED
  BY <1>6, <1>7 DEF HandleCommitment

\* A handler of the broadcast updates a state or delivers from one.
LEMMA UpdatesOrDelivers ==
    ASSUME Inv, CommitmentsTyped, NEW p \in Correct, NEW q \in Proc,
           NEW s \in BroadcastStages, NEW i \in Instance, NEW v \in Value,
           NEW c \in Content, Receives(p, q, s, i, v, c)
    PROVE  \/ \E x, msgs : Update(p, i, x, msgs)
           \/ \E y \in MessageState : Deliver(p, i, v, c, y)
<1> DEFINE ms == RegisterMessage(p, i)
<1>1. StateBacked(ms, i) /\ WitnessInv /\ Arrives(q, s, i, v, c)
  BY RegisteredState DEF Inv, Receives
<1>2. \/ \E x, msgs : Update(p, i, x, msgs)
      \/ s = "VALIDATE" /\ ReceiveValidate(p, q, i, v, c, ms)
  BY Zenon DEF Receives, ReceiveNotify, ReceiveEchoFromWitness,
     ReceiveEchoFromProcess, ReceiveReadyFromWitness, ReceiveReadyFromProcess, RegisterOnly
<1> HIDE DEF ms
<1>3. CASE s = "VALIDATE" /\ ReceiveValidate(p, q, i, v, c, ms)
  BY <1>1, <1>3, OnValidate DEF Outcome, StateBacked
<1>4. QED
  BY <1>2, <1>3

LEMMA CommitmentsNext == Inv /\ CommitmentsTyped /\ [Next]_vars => CommitmentsTyped'
<1> SUFFICES ASSUME Inv, CommitmentsTyped, [Next]_vars
             PROVE  CommitmentsTyped'
  OBVIOUS
<1>1. ASSUME NEW p \in Correct, NEW v \in Value, Broadcast(p, v)
      PROVE  CommitmentsTyped'
  <2> DEFINE i == [author |-> p, seqNumber |-> transactionCounter[p]]
  <2>1. /\ revealLog' = [revealLog EXCEPT ![p][i] = NewRevealState]
        /\ UNCHANGED <<deliveryOrder, deliveredXHash, history, commitmentSent,
                       commitmentReceived>>
    BY <1>1, Zenon DEF Broadcast, commitmentVars
  <2>2. i \in Instance
    <3>1. transactionCounter[p] \in 0 .. MaxTransactions - 1 /\ p \in Authors
      BY <1>1, BoundAssumption DEF Broadcast, Inv, Typed
    <3>2. QED
      BY <3>1 DEF Instance
  <2> HIDE DEF i
  <2>3. /\ revealLog' \in [Correct -> [Instance -> RevealState]]
        /\ revealLog'[p][i] = NewRevealState
        /\ \A q \in Correct, j \in Instance :
              <<q, j>> # <<p, i>> => revealLog'[q][j] = revealLog[q][j]
    BY <2>1, <2>2, NewReveal, EntryReplaced DEF CommitmentsTyped
  <2>4. \A q \in Correct, j \in Instance : revealLog'[q][j].pending \in Seq(Commitments)
    BY <2>3, NewReveal DEF CommitmentsTyped
  <2>5. QED
    BY <2>1, <2>3, <2>4 DEF CommitmentsTyped
<1>2. ASSUME NEW p \in Correct, NEW q \in Proc, NEW s \in BroadcastStages,
             NEW i \in Instance, NEW v \in Value, NEW c \in Content,
             Receives(p, q, s, i, v, c)
      PROVE  CommitmentsTyped'
  <2>1. CASE \E x, msgs : Update(p, i, x, msgs)
    BY <2>1 DEF Update, commitmentVars, CommitmentsTyped
  <2>2. CASE \E y \in MessageState : Deliver(p, i, v, c, y)
    BY <2>2, DeliverCommitments
  <2>3. QED
    BY <1>2, <2>1, <2>2, UpdatesOrDelivers
<1>3. ASSUME NEW p \in Correct, NEW m \in commitmentSent \cup FaultyCommitments,
             HandleCommitment(p, m)
      PROVE  CommitmentsTyped'
  BY <1>3, HandleCommitmentTyped
<1>4. CASE UNCHANGED vars
  BY <1>4 DEF vars, commitmentVars, CommitmentsTyped
<1>5. QED
  BY <1>1, <1>2, <1>3, <1>4, NextSteps DEF Inv

LEMMA InvInit == Init => Inv
<1> SUFFICES ASSUME Init
             PROVE  Inv
  OBVIOUS
<1>1. Typed
  BY DEF Init, Typed, LogType, DeliveredType
<1>2. WitnessInv
  BY DEF Init, WitnessInv, VotesBacked, QuorumBehindReady, DeliveryBacked, Delivered,
     OneEcho, EchoRecorded, NotifiedOnce, EchoSourced
<1>3. QED
  BY <1>1, <1>2 DEF Inv

LEMMA CommitmentsInit == Init => CommitmentsTyped
<1> SUFFICES ASSUME Init
             PROVE  CommitmentsTyped
  OBVIOUS
<1>1. /\ revealLog \in [Correct -> [Instance -> RevealState]]
      /\ \A p \in Correct, i \in Instance : revealLog[p][i].pending \in Seq(Commitments)
  <2> DEFINE r == NewRevealState
  <2>1. r \in RevealState /\ r.pending \in Seq(Commitments)
    BY NewReveal
  <2>2. revealLog = [p \in Correct |-> [i \in Instance |-> r]]
    BY DEF Init
  <2> HIDE DEF r
  <2>3. QED
    BY <2>1, <2>2
<1>2. QED
  BY <1>1 DEF Init, CommitmentsTyped

LEMMA InvNext == Inv /\ CommitmentsTyped /\ [Next]_vars => Inv'
<1> SUFFICES ASSUME Inv, CommitmentsTyped, [Next]_vars
             PROVE  Inv'
  OBVIOUS
<1>1. ASSUME NEW p \in Correct, NEW v \in Value, Broadcast(p, v)
      PROVE  Inv'
  BY <1>1, BroadcastInv
<1>2. ASSUME NEW p \in Correct, NEW q \in Proc, NEW s \in BroadcastStages,
             NEW i \in Instance, NEW v \in Value, NEW c \in Content,
             Receives(p, q, s, i, v, c)
      PROVE  Inv'
  <2>1. i \notin finallyCommittedMessages[p]
    BY <1>2 DEF Receives
  <2>2. PICK x, msgs : Handles(p, i, v, c, RegisterMessage(p, i), x, msgs)
    BY <1>2, ReliableHandles
  <2>3. QED
    BY <2>1, <2>2, HandlesInv
<1>3. ASSUME NEW p \in Correct, NEW m \in commitmentSent \cup FaultyCommitments,
             HandleCommitment(p, m)
      PROVE  Inv'
  <2> DEFINE i == m.inst
  <2>1. i \in Instance
    BY CommitmentArrives
  <2>2. i \notin finallyCommittedMessages[p]
    BY <1>3 DEF HandleCommitment, FinallyCommitted
  <2>3. PICK x : Handles(p, i, None, None, RegisterMessage(p, i), x, {})
    BY <1>3, <2>1, CommitmentHandles
  <2>4. QED
    BY <2>1, <2>2, <2>3, HandlesInv
<1>4. CASE UNCHANGED vars
  <2>1. UNCHANGED <<transactionCounter, deliveredMessages, finallyCommittedMessages,
                    messagesLog, sent>>
    BY <1>4 DEF vars, commitmentVars
  <2>2. Typed /\ WitnessInv
    BY DEF Inv
  <2>3. Typed'
    BY <2>1, <2>2 DEF Typed, LogType, DeliveredType
  <2>4. VotesBacked'
    <3> SUFFICES ASSUME NEW p2 \in Correct, NEW i2 \in Instance, NEW y,
                        y = messagesLog'[p2][i2], y # NoState
                 PROVE  StateBacked(y, i2)'
      BY Zenon DEF VotesBacked, StateBacked, Backed, Voters, Sent
    <3>1. StateBacked(y, i2)
      BY <2>1, <2>2 DEF WitnessInv, VotesBacked
    <3>2. QED
      BY <2>1, <3>1, StateBackedMonotone
  <2>5. QuorumBehindReady' /\ DeliveryBacked'
    BY <2>1, <2>2 DEF WitnessInv, QuorumBehindReady, DeliveryBacked, Delivered,
       EchoQuorum, QuorumThreshold, N, Voters, Sent
  <2>6. OneEcho' /\ EchoRecorded' /\ NotifiedOnce' /\ EchoSourced'
    BY <2>1, <2>2 DEF WitnessInv, OneEcho, EchoRecorded, NotifiedOnce, EchoSourced, Sent,
       Judged, Authentic
  <2>7. QED
    BY <2>3, <2>4, <2>5, <2>6 DEF Inv, WitnessInv
<1>5. QED
  BY <1>1, <1>2, <1>3, <1>4, NextSteps DEF Inv

\* Votes are backed by what was sent, READYs and deliveries by a quorum of
\* echoes, and echoes are remembered, in every reachable state.
THEOREM WitnessInductive == Spec => []WitnessInv
<1>1. Init => CommitmentsTyped
  BY CommitmentsInit
<1>2. Inv => WitnessInv
  BY DEF Inv
<1>3. QED
  BY <1>1, <1>2, InvInit, InvNext, CommitmentsNext, PTL DEF Spec

\* A correct process echoes one value per instance, of a faulty author because
\* its state remembers the echo, of a correct one because there is one value.
THEOREM EchoesOnce == Spec => []OneEcho
<1>1. WitnessInv => OneEcho
  BY DEF WitnessInv
<1>2. QED
  BY <1>1, WitnessInductive, PTL

\* No correct process is ready for or validates what lacks a quorum of echoes.
THEOREM ReadyNeedsQuorum == Spec => []QuorumBehindReady
<1>1. WitnessInv => QuorumBehindReady
  BY DEF WitnessInv
<1>2. QED
  BY <1>1, WitnessInductive, PTL

\* Two delivered values have a quorum of echoes each, so a correct process that
\* echoed both, and it echoes one.
LEMMA AgreementHolds ==
    ASSUME WitnessInv
    PROVE  Agreement
<1> SUFFICES ASSUME NEW p \in Correct, NEW q \in Correct, NEW i \in Judged,
                    Delivered(p, i), Delivered(q, i)
             PROVE  deliveredMessages[p][i] = deliveredMessages[q][i]
  BY DEF Agreement
<1> DEFINE v == deliveredMessages[p][i]
           w == deliveredMessages[q][i]
           A == Voters("ECHO_FROM_PROCESS", i, v)
           B == Voters("ECHO_FROM_PROCESS", i, w)
<1>1. i \in Instance
  BY DEF Judged, Authentic
<1>2. Cardinality(A) >= QuorumThreshold /\ Cardinality(B) >= QuorumThreshold
  BY <1>1 DEF WitnessInv, DeliveryBacked, EchoQuorum
<1>3. A \in SUBSET Proc /\ B \in SUBSET Proc
  BY VotersType
<1>4. PICK r \in A \cap B : r \in Correct
  <2> HIDE DEF A, B
  <2>1. QED
    BY <1>2, <1>3, QuorumsIntersect
<1>5. Sent(r, "ECHO_FROM_PROCESS", i, v) /\ Sent(r, "ECHO_FROM_PROCESS", i, w)
  BY <1>4, CorrectVoter
<1>6. QED
  BY <1>5 DEF Sent, WitnessInv, OneEcho

\* Whichever witness sets they have drawn and whatever the faulty processes and
\* the reveal phase do, correct processes deliver the same value.
THEOREM WitnessAgreement == Spec => []Agreement
BY WitnessInductive, AgreementHolds, PTL

-----------------------------------------------------------------------------
(* Delivered once, and committed for good *)

\* A process that has delivered remembers it until it commits, and with the
\* commit drops the state.
DeliveryRecorded ==
    \A p \in Correct, i \in Instance :
        Delivered(p, i) /\ i \notin finallyCommittedMessages[p] =>
            /\ messagesLog[p][i] # NoState
            /\ messagesLog[p][i].stage >= DeliveredStage
CommitDropsState ==
    \A p \in Correct, i \in Instance :
        i \in finallyCommittedMessages[p] => Delivered(p, i) /\ messagesLog[p][i] = NoState

Closed == DeliveryRecorded /\ CommitDropsState

LEMMA ClosedFrame ==
    ASSUME Closed, NEW p \in Correct, NEW i \in Instance,
           messagesLog'[p][i] = messagesLog[p][i],
           deliveredMessages'[p][i] = deliveredMessages[p][i],
           (i \in finallyCommittedMessages'[p]) = (i \in finallyCommittedMessages[p])
    PROVE  /\ (Delivered(p, i) /\ i \notin finallyCommittedMessages[p])' =>
                 /\ messagesLog'[p][i] # NoState
                 /\ messagesLog'[p][i].stage >= DeliveredStage
           /\ i \in finallyCommittedMessages'[p] =>
                 Delivered(p, i)' /\ messagesLog'[p][i] = NoState
BY DEF Closed, DeliveryRecorded, CommitDropsState, Delivered

LEMMA HandlesClosed ==
    ASSUME Inv, CommitmentsTyped, Closed, NEW p \in Correct, NEW i \in Instance, NEW v, NEW c, NEW ms, NEW x,
           NEW msgs,
           Handles(p, i, v, c, ms, x, msgs), ms = RegisterMessage(p, i),
           i \notin finallyCommittedMessages[p]
    PROVE  Closed'
<1>1. /\ x \in MessageState /\ x.stage \in 0 .. 3 /\ x # NoState
      /\ ms.stage \in 0 .. 3 /\ x.stage >= ms.stage
  <2>1. StateBacked(x, i) /\ StateBacked(ms, i) /\ x.stage >= ms.stage
    BY RegisteredState DEF Handles, Outcome
  <2>2. QED
    BY <2>1, StateParts, NoStateIsNone
<1>2. Delivered(p, i) => ms.stage >= DeliveredStage
  BY DEF Closed, DeliveryRecorded, RegisterMessage
<1>3. /\ (Delivered(p, i) /\ i \notin finallyCommittedMessages[p])' =>
            messagesLog'[p][i] # NoState /\ messagesLog'[p][i].stage >= DeliveredStage
      /\ i \in finallyCommittedMessages'[p] => Delivered(p, i)' /\ messagesLog'[p][i] = NoState
  <2>1. CASE i \notin finallyCommittedMessages'[p]
    <3>1. messagesLog'[p][i] = x
      BY <2>1, HandlesShape
    <3>2. Delivered(p, i)' => x.stage >= DeliveredStage
      <4>1. CASE deliveredMessages' = deliveredMessages
        BY <1>1, <1>2, <4>1 DEF Delivered, DeliveredStage
      <4>2. CASE x.stage >= DeliveredStage
        BY <4>2
      <4>3. QED
        BY <4>1, <4>2, HandlesShape
    <3>3. QED
      BY <1>1, <2>1, <3>1, <3>2
  <2>2. CASE i \in finallyCommittedMessages'[p]
    <3>1. finallyCommittedMessages' # finallyCommittedMessages
      BY <2>2
    <3>2. messagesLog'[p][i] = NoState /\ deliveredMessages'[p][i] # None
      BY <3>1, HandlesShape
    <3>3. QED
      BY <2>2, <3>2 DEF Delivered
  <2>3. QED
    BY <2>1, <2>2
<1>4. ASSUME NEW p2 \in Correct, NEW i2 \in Instance, <<p2, i2>> # <<p, i>>
      PROVE  /\ messagesLog'[p2][i2] = messagesLog[p2][i2]
             /\ deliveredMessages'[p2][i2] = deliveredMessages[p2][i2]
             /\ (i2 \in finallyCommittedMessages'[p2]) = (i2 \in finallyCommittedMessages[p2])
  BY <1>4, HandlesShape
<1>5. ASSUME NEW p2 \in Correct, NEW i2 \in Instance
      PROVE  /\ (Delivered(p2, i2) /\ i2 \notin finallyCommittedMessages[p2])' =>
                   /\ messagesLog'[p2][i2] # NoState
                   /\ messagesLog'[p2][i2].stage >= DeliveredStage
             /\ i2 \in finallyCommittedMessages'[p2] =>
                   Delivered(p2, i2)' /\ messagesLog'[p2][i2] = NoState
  <2>1. CASE <<p2, i2>> = <<p, i>>
    BY <1>3, <2>1
  <2>2. CASE <<p2, i2>> # <<p, i>>
    BY <1>4, <2>2, ClosedFrame
  <2>3. QED
    BY <2>1, <2>2
<1>6. QED
  BY <1>5 DEF Closed, DeliveryRecorded, CommitDropsState

\* What a quorum has echoed in an authentic instance, its author has broadcast.
LEMMA EchoesFromAuthor ==
    ASSUME Inv, NEW i \in Authentic, NEW v, EchoQuorum(i, v)
    PROVE  Sent(i.author, "NOTIFY", i, v)
<1> DEFINE A == Voters("ECHO_FROM_PROCESS", i, v)
<1>1. A \in SUBSET Proc /\ Cardinality(A) >= QuorumThreshold
  BY VotersType DEF EchoQuorum
<1>2. PICK r \in A : r \in Correct
  <2>1. A \cap A \in SUBSET Proc /\ A \cap A = A
    BY <1>1
  <2> HIDE DEF A
  <2>2. QED
    BY <1>1, <2>1, QuorumsIntersect
<1>3. Sent(r, "ECHO_FROM_PROCESS", i, v)
  BY <1>2, CorrectVoter
<1>4. QED
  BY <1>3 DEF Sent, Inv, WitnessInv, EchoSourced

\* An author's next instance has been delivered by nobody, if nobody else can
\* begin it, so the state that Broadcast replaces is none that says `delivered'.
LEMMA NextInstanceOpen ==
    ASSUME Inv, Judged = Instance, NEW p \in Correct, NEW i \in Instance,
           i.author = p, i.seqNumber = transactionCounter[p], NEW q \in Correct
    PROVE  ~Delivered(q, i) /\ (Closed => i \notin finallyCommittedMessages[q])
<1>1. i \in Authentic
  BY DEF Judged, Correct
<1>2. ASSUME Delivered(q, i)
      PROVE  FALSE
  <2>1. EchoQuorum(i, deliveredMessages[q][i])
    BY <1>2 DEF Inv, WitnessInv, DeliveryBacked
  <2>2. PICK m \in sent : m.stage = "NOTIFY" /\ m.inst = i
    BY <1>1, <2>1, EchoesFromAuthor DEF Sent
  <2>3. m.from = p /\ i.seqNumber < transactionCounter[p]
    BY <2>2 DEF Inv, WitnessInv, NotifiedOnce
  <2>4. transactionCounter[p] \in Nat
    BY DEF Inv, Typed
  <2>5. QED
    BY <2>3, <2>4
<1>3. QED
  BY <1>2 DEF Closed, CommitDropsState

LEMMA BroadcastClosed ==
    ASSUME Inv, CommitmentsTyped, Closed, Judged = Instance, NEW p \in Correct, NEW v \in Value,
           Broadcast(p, v)
    PROVE  Closed'
<1>1. PICK i \in Instance, x \in MessageState, n \in Message : Begins(p, v, i, x, n)
  BY BroadcastShape
<1>2. /\ i.author = p /\ i.seqNumber = transactionCounter[p]
      /\ messagesLog' = [messagesLog EXCEPT ![p][i] = x]
      /\ deliveredMessages' = deliveredMessages
      /\ finallyCommittedMessages' = finallyCommittedMessages
  BY <1>1 DEF Begins
<1>3. \A p2 \in Correct, i2 \in Instance :
         <<p2, i2>> # <<p, i>> => messagesLog'[p2][i2] = messagesLog[p2][i2]
  BY <1>2, EntryReplaced DEF Inv, Typed, LogType
<1>4. ~Delivered(p, i) /\ i \notin finallyCommittedMessages[p]
  BY <1>2, NextInstanceOpen
<1>5. QED
  BY <1>2, <1>3, <1>4 DEF Closed, DeliveryRecorded, CommitDropsState, Delivered

LEMMA ClosedNext ==
    Judged = Instance /\ Inv /\ CommitmentsTyped /\ Closed /\ [Next]_vars => Closed'
<1> SUFFICES ASSUME Judged = Instance, Inv, CommitmentsTyped, Closed, [Next]_vars
             PROVE  Closed'
  OBVIOUS
<1>1. ASSUME NEW p \in Correct, NEW v \in Value, Broadcast(p, v)
      PROVE  Closed'
  BY <1>1, BroadcastClosed
<1>2. ASSUME NEW p \in Correct, NEW q \in Proc, NEW s \in BroadcastStages,
             NEW i \in Instance, NEW v \in Value, NEW c \in Content,
             Receives(p, q, s, i, v, c)
      PROVE  Closed'
  <2>1. i \notin finallyCommittedMessages[p]
    BY <1>2 DEF Receives
  <2>2. PICK x, msgs : Handles(p, i, v, c, RegisterMessage(p, i), x, msgs)
    BY <1>2, ReliableHandles
  <2>3. QED
    BY <2>1, <2>2, HandlesClosed
<1>3. ASSUME NEW p \in Correct, NEW m \in commitmentSent \cup FaultyCommitments,
             HandleCommitment(p, m)
      PROVE  Closed'
  <2>1. m.inst \in Instance /\ m.inst \notin finallyCommittedMessages[p]
    BY <1>3, CommitmentArrives DEF HandleCommitment, FinallyCommitted
  <2>2. PICK x : Handles(p, m.inst, None, None, RegisterMessage(p, m.inst), x, {})
    BY <1>3, <2>1, CommitmentHandles
  <2>3. QED
    BY <2>1, <2>2, HandlesClosed
<1>4. CASE UNCHANGED vars
  BY <1>4 DEF vars, commitmentVars, Closed, DeliveryRecorded, CommitDropsState, Delivered
<1>5. QED
  BY <1>1, <1>2, <1>3, <1>4, NextSteps DEF Inv

LEMMA ClosedInductive ==
    ASSUME Judged = Instance
    PROVE  Spec => [](Inv /\ CommitmentsTyped /\ Closed)
<1>1. Init => CommitmentsTyped /\ Closed
  BY CommitmentsInit DEF Init, Closed, DeliveryRecorded, CommitDropsState, Delivered
<1>2. QED
  BY <1>1, InvInit, InvNext, CommitmentsNext, ClosedNext, PTL DEF Spec

\* What p newly says in the reveal phase while it handles something of instance i
\* is about i, or about an instance that it has a state of.
SpeaksOf(p, i) ==
    \A m \in commitmentSent' \ commitmentSent :
        /\ m.from = p
        /\ m.inst = i \/ (m.inst \in Instance /\ messagesLog[p][m.inst] # NoState)

LEMMA DeliverSpeaks ==
    ASSUME Inv, CommitmentsTyped, NEW p \in Correct, NEW i \in Instance, NEW v,
           NEW c, NEW ms \in MessageState, Deliver(p, i, v, c, ms)
    PROVE  SpeaksOf(p, i)
<1> DEFINE st == Replay(p, i, ms, c.xHash)
<1> SUFFICES ASSUME NEW m \in commitmentSent', m \notin commitmentSent
             PROVE  /\ m.from = p
                    /\ m.inst = i \/ (m.inst \in Instance /\ messagesLog[p][m.inst] # NoState)
  BY DEF SpeaksOf
<1>1. CASE m \in Announcements(p, i, ms, st.announced)
  <2> HIDE DEF st
  <2>1. QED
    BY <1>1 DEF Announcements, Commitment
<1>2. CASE m \notin Announcements(p, i, ms, st.announced)
  <2>1. PICK j \in Instance, x \in MessageState :
           /\ j # i => x = messagesLog[p][j]
           /\ m = Commitment(p, x.potWitnessSet, "REVEAL", j, "InitialRevealStage",
                             DecryptedShare(p, x))
    BY <1>2, DeliverReveals
  <2>2. m.from = p /\ m.inst = j
    BY <2>1 DEF Commitment
  <2>3. QED
    BY <2>1, <2>2, NoStateIsNone
<1>3. QED
  BY <1>1, <1>2

LEMMA ReliableSpeaks ==
    ASSUME Inv, CommitmentsTyped, NEW p \in Correct, NEW q \in Proc,
           NEW s \in BroadcastStages, NEW i \in Instance, NEW v \in Value,
           NEW c \in Content, Receives(p, q, s, i, v, c)
    PROVE  SpeaksOf(p, i)
<1>1. CASE \E x, msgs : Update(p, i, x, msgs)
  BY <1>1 DEF Update, commitmentVars, SpeaksOf
<1>2. CASE \E y \in MessageState : Deliver(p, i, v, c, y)
  BY <1>2, DeliverSpeaks
<1>3. QED
  BY <1>1, <1>2, UpdatesOrDelivers

LEMMA CommitmentSpeaks ==
    ASSUME NEW p \in Correct, NEW m, HandleCommitment(p, m)
    PROVE  SpeaksOf(p, m.inst)
<1>1. \/ commitmentSent' = commitmentSent
      \/ \E ms, announced :
            commitmentSent' = commitmentSent \cup Announcements(p, m.inst, ms, announced)
  BY Zenon DEF HandleCommitment, KeepPending, ReceiveCommitment
<1>2. QED
  BY <1>1 DEF SpeaksOf, Announcements, Commitment

\* What CommittedIsFinal says of a step.
Frozen ==
    \A p \in Correct, i \in Instance :
        i \in finallyCommittedMessages[p] =>
          /\ messagesLog'[p][i] = NoState
          /\ i \in finallyCommittedMessages'[p]
          /\ \A m \in (sent' \ sent) \cup (commitmentSent' \ commitmentSent) :
                ~(m.from = p /\ m.inst = i)

LEMMA HandlesFrozen ==
    ASSUME Inv, Closed, NEW p \in Correct, NEW i \in Instance, NEW v, NEW c, NEW ms, NEW x,
           NEW msgs,
           Handles(p, i, v, c, ms, x, msgs), i \notin finallyCommittedMessages[p],
           SpeaksOf(p, i)
    PROVE  Frozen
<1> SUFFICES ASSUME NEW p2 \in Correct, NEW i2 \in Instance,
                    i2 \in finallyCommittedMessages[p2]
             PROVE  /\ messagesLog'[p2][i2] = NoState
                    /\ i2 \in finallyCommittedMessages'[p2]
                    /\ \A m \in (sent' \ sent) \cup (commitmentSent' \ commitmentSent) :
                          ~(m.from = p2 /\ m.inst = i2)
  BY DEF Frozen
<1>1. messagesLog[p2][i2] = NoState
  BY DEF Closed, CommitDropsState
<1>2. <<p2, i2>> # <<p, i>>
  OBVIOUS
<1>3. messagesLog'[p2][i2] = NoState /\ i2 \in finallyCommittedMessages'[p2]
  BY <1>1, <1>2, HandlesShape
<1>4. ASSUME NEW m \in sent' \ sent
      PROVE  ~(m.from = p2 /\ m.inst = i2)
  BY <1>2 DEF Handles, Outcome
<1>5. ASSUME NEW m \in commitmentSent' \ commitmentSent
      PROVE  ~(m.from = p2 /\ m.inst = i2)
  BY <1>1, <1>2 DEF SpeaksOf
<1>6. QED
  BY <1>3, <1>4, <1>5

LEMMA FrozenNext ==
    Judged = Instance /\ Inv /\ CommitmentsTyped /\ Closed /\ [Next]_vars => Frozen
<1> SUFFICES ASSUME Judged = Instance, Inv, CommitmentsTyped, Closed, [Next]_vars
             PROVE  Frozen
  OBVIOUS
<1>1. ASSUME NEW p \in Correct, NEW v \in Value, Broadcast(p, v)
      PROVE  Frozen
  <2>1. PICK i \in Instance, x \in MessageState, n \in Message : Begins(p, v, i, x, n)
    BY <1>1, BroadcastShape
  <2>2. /\ i.author = p /\ i.seqNumber = transactionCounter[p]
        /\ n.inst = i /\ n.from = p /\ sent' = sent \cup {n}
        /\ messagesLog' = [messagesLog EXCEPT ![p][i] = x]
        /\ finallyCommittedMessages' = finallyCommittedMessages
        /\ commitmentSent' = commitmentSent
    BY <2>1 DEF Begins
  <2>3. \A p2 \in Correct, i2 \in Instance :
           <<p2, i2>> # <<p, i>> => messagesLog'[p2][i2] = messagesLog[p2][i2]
    BY <2>2, EntryReplaced DEF Inv, Typed, LogType
  <2>4. i \notin finallyCommittedMessages[p]
    BY <2>2, NextInstanceOpen
  <2>5. QED
    BY <2>2, <2>3, <2>4 DEF Frozen, Closed, CommitDropsState
<1>2. ASSUME NEW p \in Correct, NEW q \in Proc, NEW s \in BroadcastStages,
             NEW i \in Instance, NEW v \in Value, NEW c \in Content,
             Receives(p, q, s, i, v, c)
      PROVE  Frozen
  <2>1. i \notin finallyCommittedMessages[p]
    BY <1>2 DEF Receives
  <2>2. PICK x, msgs : Handles(p, i, v, c, RegisterMessage(p, i), x, msgs)
    BY <1>2, ReliableHandles
  <2>3. QED
    BY <1>2, <2>1, <2>2, HandlesFrozen, ReliableSpeaks
<1>3. ASSUME NEW p \in Correct, NEW m \in commitmentSent \cup FaultyCommitments,
             HandleCommitment(p, m)
      PROVE  Frozen
  <2>1. m.inst \in Instance /\ m.inst \notin finallyCommittedMessages[p]
    BY <1>3, CommitmentArrives DEF HandleCommitment, FinallyCommitted
  <2>2. PICK x : Handles(p, m.inst, None, None, RegisterMessage(p, m.inst), x, {})
    BY <1>3, <2>1, CommitmentHandles
  <2>3. QED
    BY <1>3, <2>1, <2>2, HandlesFrozen, CommitmentSpeaks
<1>4. CASE UNCHANGED vars
  BY <1>4 DEF vars, commitmentVars, Frozen, Closed, CommitDropsState
<1>5. QED
  BY <1>1, <1>2, <1>3, <1>4, NextSteps DEF Inv

\* What a process has committed stays closed: no message brings the state back,
\* be it late, replayed or of the reveal phase of another transaction, and the
\* process says nothing more about it.  Faulty processes must not begin
\* instances of correct authors, whose Broadcast would then replace a state.
THEOREM CommitsAreFinal ==
    ASSUME Judged = Instance
    PROVE  Spec => CommittedIsFinal
<1>1. Inv /\ CommitmentsTyped /\ Closed /\ [Next]_vars => Frozen
  BY FrozenNext
<1>2. CommittedIsFinal <=> [][Frozen]_vars
  BY PTL DEF CommittedIsFinal, Frozen
<1> HIDE DEF Frozen
<1>3. QED
  BY <1>1, <1>2, ClosedInductive, PTL DEF Spec

-----------------------------------------------------------------------------
(* Refinement *)

RefinedBroadcasts == {<<m.inst, m.value>> : m \in {x \in sent : x.stage = "NOTIFY"}}

LEMMA RefinesInit == Init => RB!Init
BY DEF Init, RB!Init

LEMMA InvAgreement == Inv => Agreement
BY AgreementHolds DEF Inv

LEMMA HandlesRefines ==
    ASSUME Inv, CommitmentsTyped, Inv', Closed, NEW p \in Correct, NEW i \in Instance, NEW v, NEW c, NEW ms, NEW x,
           NEW msgs, Handles(p, i, v, c, ms, x, msgs), ms = RegisterMessage(p, i),
           i \notin finallyCommittedMessages[p], Judged = Instance
    PROVE  RB!Next \/ UNCHANGED RB!vars
<1>1. RefinedBroadcasts' = RefinedBroadcasts
  BY DEF Handles, Outcome, RefinedBroadcasts
<1>2. CASE deliveredMessages' = deliveredMessages
  BY <1>1, <1>2 DEF RB!vars, RefinedBroadcasts
<1>3. CASE /\ v \in Value /\ EchoQuorum(i, v)
           /\ ms.stage < DeliveredStage /\ x.stage >= DeliveredStage
           /\ deliveredMessages' = [deliveredMessages EXCEPT ![p][i] = v]
  <2>1. ~Delivered(p, i)
    <3>1. StateBacked(ms, i)
      BY RegisteredState
    <3>2. ms.stage \in 0 .. 3
      BY <3>1, StateParts
    <3>3. QED
      BY <1>3, <3>2 DEF Closed, DeliveryRecorded, RegisterMessage, DeliveredStage
  <2>2. /\ deliveredMessages'[p][i] = v
        /\ \A p2 \in Correct, i2 \in Instance :
              <<p2, i2>> # <<p, i>> =>
                  deliveredMessages'[p2][i2] = deliveredMessages[p2][i2]
    BY <1>3, EntryReplaced DEF Inv, Typed, DeliveredType
  <2>3. Agreement'
    BY InvAgreement, PTL
  <2>4. ASSUME NEW p2 \in Correct
        PROVE  deliveredMessages[p2][i] \in {None, v}
    <3>1. CASE p2 = p
      BY <2>1, <3>1 DEF Delivered
    <3>2. CASE p2 # p
      <4>1. deliveredMessages'[p2][i] = deliveredMessages[p2][i]
        BY <2>2, <3>2
      <4>2. v # None /\ i \in Judged
        BY <1>3, ValueAssumption
      <4>3. QED
        BY <2>2, <2>3, <4>1, <4>2 DEF Agreement, Delivered, Judged, Authentic
    <3>3. QED
      BY <3>1, <3>2
  <2>5. i \in Authentic => <<i, v>> \in RefinedBroadcasts
    <3>1. ASSUME i \in Authentic
          PROVE  Sent(i.author, "NOTIFY", i, v)
      BY <1>3, <3>1, EchoesFromAuthor
    <3>2. QED
      BY <3>1 DEF Sent, RefinedBroadcasts
  <2>6. RB!Deliver(p, i, v)
    BY <1>1, <1>3, <2>1, <2>4, <2>5 DEF RB!Deliver, Delivered, RefinedBroadcasts
  <2>7. QED
    BY <1>3, <2>6 DEF RB!Next
<1>4. QED
  BY <1>2, <1>3 DEF Handles

LEMMA RefinesNext ==
    ASSUME Judged = Instance, Inv, Inv', CommitmentsTyped, Closed, [Next]_vars
    PROVE  [RB!Next]_(RB!vars)
<1>1. ASSUME NEW p \in Correct, NEW v \in Value, Broadcast(p, v)
      PROVE  RB!Next
  <2>1. PICK i \in Instance, x \in MessageState, n \in Message : Begins(p, v, i, x, n)
    BY <1>1, BroadcastShape
  <2>2. /\ i.author = p /\ i.seqNumber = transactionCounter[p]
        /\ n.inst = i /\ n.value = v /\ n.stage = "NOTIFY" /\ sent' = sent \cup {n}
        /\ deliveredMessages' = deliveredMessages
    BY <2>1 DEF Begins
  <2>3. RefinedBroadcasts' = RefinedBroadcasts \cup {<<i, v>>}
    BY <2>2 DEF RefinedBroadcasts
  <2>4. \A w \in Value : <<i, w>> \notin RefinedBroadcasts
    <3>1. transactionCounter[p] \in Nat
      BY DEF Inv, Typed
    <3>2. ASSUME NEW m \in sent, m.stage = "NOTIFY", m.inst = i
          PROVE  FALSE
      <4>1. m.from = p /\ i.seqNumber < transactionCounter[p]
        BY <2>2, <3>2 DEF Inv, WitnessInv, NotifiedOnce
      <4>2. QED
        BY <2>2, <3>1, <4>1
    <3>3. QED
      BY <3>2 DEF RefinedBroadcasts
  <2>5. RB!Initiate(i, v)
    BY <2>2, <2>3, <2>4 DEF RB!Initiate, RefinedBroadcasts
  <2>6. QED
    BY <2>5 DEF RB!Next
<1>2. ASSUME NEW p \in Correct, NEW q \in Proc, NEW s \in BroadcastStages,
             NEW i \in Instance, NEW v \in Value, NEW c \in Content,
             Receives(p, q, s, i, v, c)
      PROVE  RB!Next \/ UNCHANGED RB!vars
  <2>1. i \notin finallyCommittedMessages[p]
    BY <1>2 DEF Receives
  <2>2. PICK x, msgs : Handles(p, i, v, c, RegisterMessage(p, i), x, msgs)
    BY <1>2, ReliableHandles
  <2>3. QED
    BY <2>1, <2>2, HandlesRefines
<1>3. ASSUME NEW p \in Correct, NEW m \in commitmentSent \cup FaultyCommitments,
             HandleCommitment(p, m)
      PROVE  RB!Next \/ UNCHANGED RB!vars
  <2>1. m.inst \in Instance /\ m.inst \notin finallyCommittedMessages[p]
    BY <1>3, CommitmentArrives DEF HandleCommitment, FinallyCommitted
  <2>2. PICK x : Handles(p, m.inst, None, None, RegisterMessage(p, m.inst), x, {})
    BY <1>3, <2>1, CommitmentHandles
  <2>3. QED
    BY <2>1, <2>2, HandlesRefines
<1>4. CASE UNCHANGED vars
  BY <1>4 DEF vars, RB!vars
<1>5. QED
  BY <1>1, <1>2, <1>3, <1>4, NextSteps DEF Inv

\* Where faulty processes begin no instance of a correct author, the protocol
\* delivers like a reliable broadcast: once per process, one value per instance,
\* and of a correct author what it broadcast.
THEOREM Refinement ==
    ASSUME Judged = Instance
    PROVE  Spec => ImplementsReliableBroadcast
<1>1. Inv /\ Inv' /\ CommitmentsTyped /\ Closed /\ [Next]_vars => [RB!Next]_(RB!vars)
  BY RefinesNext
<1>2. QED
  BY <1>1, RefinesInit, ClosedInductive, PTL
  DEF Spec, RB!Spec, ImplementsReliableBroadcast
=============================================================================
