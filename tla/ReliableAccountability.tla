----------------------- MODULE ReliableAccountability -----------------------
(***************************************************************************)
(* Reliable broadcast based on stochastic accountability, the protocol of  *)
(* impl/protocols/accountability/reliable/process.go: a transaction is     *)
(* voted on by processes and by a small set of witnesses, and after        *)
(* MixingTime further deliveries the processes reveal their shares of its  *)
(* author's secret, from which later witness sets are drawn.               *)
(*                                                                         *)
(* A process keeps one state per instance; it is split here into the part  *)
(* of the broadcast (messagesLog) and the part of the reveal phase         *)
(* (revealLog).  As in Bracha, `sent' never shrinks, so that messages of   *)
(* the broadcast may be late, reordered, repeated or lost.  What a         *)
(* commitment message does depends on when it comes, so each of them is    *)
(* handled at most once, as the duplicate filter of the actor has it.      *)
(***************************************************************************)
EXTENDS Integers, FiniteSets, Sequences

CONSTANTS
    Proc, Faulty, F, Value, None,
    WitnessThreshold,   \* parameters.WitnessThreshold, `u' in the input file
    MixingTime,         \* flag mixing_time
    OwnWitnessSet,      \* witness sets selected after the secrets of a set of
    PotWitnessSet,      \*   <<instance, secret>> are in the history hashes
    Secret, Share,      \* the values X of x, and the bytes of a decrypted share
    Cipher,             \* the bytes of an encrypted share
    Sample,             \* the secret of a process: `sample' seeds its generator
                        \*   with the index of the process
    Hash,               \* hash of a secret
    EncodeEntropy,      \* the shares of a secret, one for every process
    Reconstruct,        \* the secret that decrypted shares make, None if it fails
    Encrypt, Decrypt,   \* under the keys of a process; Decrypt: None if it fails
    FaultyMessages,     \* pairs <<stage, author>>: the kinds of messages that
                        \*   faulty processes may send in instances of author
    FaultyContent,      \* bounds: the hashes and encrypted shares they put into
    FaultyData,         \*   those, the decrypted shares and secrets, and
    FaultyTo,           \*   whom they write to
    Authors,            \* bound: processes whose instances exist
    MaxTransactions,    \* bound: instances per author
    SendOwnDeliveredTransactions   \* processes that run a stress test

BroadcastStages == {"NOTIFY", "ECHO_FROM_WITNESS", "ECHO_FROM_PROCESS",
                    "READY_FROM_WITNESS", "READY_FROM_PROCESS", "VALIDATE"}
CommitmentStages == {"REVEAL", "DONE", "FAILED"}

Instance == [author : Authors, seqNumber : 0 .. MaxTransactions - 1]

ASSUME ProcAssumption ==
    /\ IsFiniteSet(Proc)
    /\ Faulty \subseteq Proc /\ F \in Nat /\ Cardinality(Faulty) <= F
    /\ FaultyMessages \subseteq (BroadcastStages \cup CommitmentStages) \X Proc
ASSUME ValueAssumption == None \notin Value
ASSUME BoundAssumption == Authors \subseteq Proc /\ MaxTransactions \in Nat
ASSUME ParameterAssumption ==
    /\ WitnessThreshold \in Nat /\ MixingTime \in Nat
    /\ SendOwnDeliveredTransactions \subseteq Proc

\* What Broadcast and sendProtocolMessage put beside the value: the hash of the
\* author's secret and, in the first two stages, an encrypted share for every
\* process (None where there is none).
ShareVector == [Proc -> Cipher \cup {None}]
NoShares == [q \in Proc |-> None]
XHashes == {Hash[x] : x \in Secret}
Content == [xHash : XHashes, encryptedShares : ShareVector]
Genuine(p) ==
    [xHash |-> Hash[Sample[p]],
     encryptedShares |-> [q \in Proc |-> Encrypt[q][EncodeEntropy[Sample[p]][q]]]]
HashOnly(c) == [c EXCEPT !.encryptedShares = NoShares]

\* Any F+1 shares of one secret reconstruct it; nothing is assumed of a mixture
\* of shares, nor that two secrets have different hashes.
ASSUME SecretAssumption ==
    /\ None \notin Secret /\ None \notin Share /\ None \notin Cipher
    /\ Sample \in [Proc -> Secret] /\ DOMAIN Hash = Secret /\ None \notin XHashes
    /\ EncodeEntropy \in [Secret -> [Proc -> Share]]
    /\ Reconstruct \in [SUBSET (Proc \X Share) -> Secret \cup {None}]
    /\ \A x \in Secret, R \in SUBSET Proc :
          Cardinality(R) >= F + 1 => Reconstruct[{<<q, EncodeEntropy[x][q]>> : q \in R}] = x
    /\ Encrypt \in [Proc -> [Share -> Cipher]]
    /\ Decrypt \in [Proc -> [Cipher -> Share \cup {None}]]
    /\ \A q \in Proc, x \in Share : Decrypt[q][Encrypt[q][x]] = x
    /\ FaultyContent \in [Proc -> SUBSET Content]
    /\ FaultyData \in [Proc -> SUBSET (Share \cup Secret)]
    /\ FaultyTo \subseteq Proc

\* The witness sets are those of any selection that finds the own witnesses
\* among the potential ones and fewer than WitnessThreshold faulty own ones.
ASSUME WitnessAssumption ==
    /\ OwnWitnessSet \in [SUBSET (Instance \X Secret) -> SUBSET Proc]
    /\ PotWitnessSet \in [SUBSET (Instance \X Secret) -> SUBSET Proc]
    /\ \A h \in SUBSET (Instance \X Secret) :
          /\ OwnWitnessSet[h] \subseteq PotWitnessSet[h]
          /\ Cardinality(OwnWitnessSet[h] \cap Faulty) < WitnessThreshold

VARIABLES
    transactionCounter,
    deliveredMessages,          \* per process and instance: value or None
    deliveredXHash,             \*   and the XHash that came with it
    finallyCommittedMessages,   \* per process: the instances committed
    history,                    \* per process: the secrets in its history
                                \*   hashes, with the instances they came from
    deliveryOrder,              \* per process: the instances in their order of
                                \*   delivery; a position is a checkpoint
    messagesLog,                \* per process and instance: NoState or a state
    revealLog,                  \* per process and instance: reveal phase
    ownDeliveredTransactions,
    sent,                       \* messages of the broadcast
    commitmentSent,             \* messages of the reveal phase
    commitmentReceived,         \* per process: those handled
    stopped                     \* processes ended by logger.Fatal or a panic

commitmentVars ==
    <<finallyCommittedMessages, history, commitmentSent, commitmentReceived>>
vars == <<transactionCounter, deliveredMessages, deliveredXHash, deliveryOrder,
          messagesLog, revealLog, ownDeliveredTransactions, sent, stopped,
          commitmentVars>>

-----------------------------------------------------------------------------
(* States and messages *)

Correct == Proc \ Faulty
N == Cardinality(Proc)

MutQuorumPlusOne == (N + F + 2) \div 2 + 1
QuorumThreshold == (N + F + 2) \div 2
MutReadyF == F
ReadyMessagesThreshold == F + 1

\* The constants of Stage and WitnessStage, compared with >= in the code.
InitialStage == 0
SentEchoFromProcess == 1
SentReadyFromProcess == 2
DeliveredStage == 3
InitialWitnessStage == 0
SentEchoFromWitness == 1
SentReadyFromWitness == 2
SentValidate == 3

\* A map of the processes that voted and its statistics of values are one set
\* of <<process, value>> pairs.
Votes == SUBSET (Proc \X Value)
Voted(votes, q) == \E v \in Value : <<q, v>> \in votes
VotesFor(votes, v) == {q \in Proc : <<q, v>> \in votes}

NoState == [registered |-> FALSE]
MessageState ==
    [stage                 : InitialStage .. DeliveredStage,
     witnessStage          : InitialWitnessStage .. SentValidate,
     echoFromProcesses     : Votes,
     readyFromProcesses    : Votes,
     readyFromWitnesses    : Votes,
     validateFromWitnesses : Votes,
     encryptedShares       : ShareVector \cup {None},
     ownEncryptedShare     : Cipher \cup {None},
     ownWitnessSet         : SUBSET Proc,
     potWitnessSet         : SUBSET Proc]

RevealStages == {"InitialRevealStage", "SentDoneToWitnesses", "SentDoneToProcesses",
                 "SentFailedToWitnesses", "SentFailedToProcesses"}
CommitmentMessage == [from : Proc, to : SUBSET Proc, stage : CommitmentStages,
                      inst : Instance, sentAs : RevealStages,
                      data : Share \cup Secret \cup {None}]   \* share or secret
RevealState ==
    [revealStage     : RevealStages,
     decryptedShares : SUBSET (Proc \X Share),
     pending         : Seq(CommitmentMessage)]
RevealFrom(shares) == {q \in Proc : \E x \in Share : <<q, x>> \in shares}

Message == [from : Correct, to : SUBSET Proc, stage : BroadcastStages,
            inst : Instance, value : Value, content : Content]
Msg(p, to, s, i, v, c) ==
    [from |-> p, to |-> to, stage |-> s, inst |-> i, value |-> v, content |-> c]
Commitment(p, to, s, i, sentAs, x) ==
    [from |-> p, to |-> to, stage |-> s, inst |-> i, sentAs |-> sentAs, data |-> x]

\* newMessageState and the choice of witnesses of initMessageState.
NewMessageState(p) ==
    [stage                 |-> InitialStage,
     witnessStage          |-> InitialWitnessStage,
     echoFromProcesses     |-> {},
     readyFromProcesses    |-> {},
     readyFromWitnesses    |-> {},
     validateFromWitnesses |-> {},
     encryptedShares       |-> None,
     ownEncryptedShare     |-> None,
     ownWitnessSet         |-> OwnWitnessSet[history[p]],
     potWitnessSet         |-> PotWitnessSet[history[p]]]
NewRevealState ==
    [revealStage |-> "InitialRevealStage", decryptedShares |-> {}, pending |-> <<>>]

Init ==
    /\ transactionCounter = [p \in Correct |-> 0]
    /\ deliveredMessages = [p \in Correct |-> [i \in Instance |-> None]]
    /\ deliveredXHash = [p \in Correct |-> [i \in Instance |-> None]]
    /\ finallyCommittedMessages = [p \in Correct |-> {}]
    /\ history = [p \in Correct |-> {}]
    /\ deliveryOrder = [p \in Correct |-> <<>>]
    /\ messagesLog = [p \in Correct |-> [i \in Instance |-> NoState]]
    /\ revealLog = [p \in Correct |-> [i \in Instance |-> NewRevealState]]
    /\ ownDeliveredTransactions = [p \in Correct |-> 0]
    /\ sent = {}
    /\ commitmentSent = {}
    /\ commitmentReceived = [p \in Correct |-> {}]
    /\ stopped = {}

\* registerMessage: whatever a message does, it fixes the witness sets.
RegisterMessage(p, i) ==
    IF messagesLog[p][i] = NoState THEN NewMessageState(p) ELSE messagesLog[p][i]

IsWitness(p, ms) == p \in ms.potWitnessSet
Delivered(p, i) == deliveredMessages[p][i] # None
FinallyCommitted(p, i) == i \in finallyCommittedMessages[p]
DeliveredMessagesCount(p) == Len(deliveryOrder[p])
Deliveries(p, i) == {k \in DOMAIN deliveryOrder[p] : deliveryOrder[p][k] = i}
Checkpoint(p, i) ==   \* its last delivery, should a process deliver i again
    CHOOSE k \in Deliveries(p, i) : \A l \in Deliveries(p, i) : l <= k

\* The messages of faulty processes, and those that can reach p: what correct
\* processes have sent it, and whatever faulty ones may say.
CarriesShares(s) == s \in {"NOTIFY", "ECHO_FROM_WITNESS"}
FaultyBroadcasts ==
    {m \in UNION {{Msg(q, FaultyTo, s, i, v, IF CarriesShares(s) THEN c ELSE HashOnly(c)) :
                      s \in BroadcastStages, v \in Value, c \in FaultyContent[i.author]} :
                  q \in Faulty, i \in Instance} :
        <<m.stage, m.inst.author>> \in FaultyMessages}
Incoming(p) == {m \in sent \cup FaultyBroadcasts : p \in m.to}
Receivable(p, q, s, i, v) ==
    \E m \in Incoming(p) : m.from = q /\ m.stage = s /\ m.inst = i /\ m.value = v

-----------------------------------------------------------------------------
(* The broadcast *)

\* Broadcast(value): NOTIFY goes to the witnesses of a fresh message state,
\* which takes the place of any state the instance may have.
Broadcast(p, v) ==
    /\ p \in Authors
    /\ transactionCounter[p] < MaxTransactions
    /\ LET i  == [author |-> p, seqNumber |-> transactionCounter[p]]
           ms == NewMessageState(p)
       IN  /\ messagesLog' = [messagesLog EXCEPT ![p][i] = ms]
           /\ revealLog' = [revealLog EXCEPT ![p][i] = NewRevealState]
           /\ sent' = sent \cup {Msg(p, ms.potWitnessSet, "NOTIFY", i, v, Genuine(p))}
    /\ transactionCounter' = [transactionCounter EXCEPT ![p] = @ + 1]
    /\ UNCHANGED <<deliveredMessages, deliveredXHash, deliveryOrder,
                   ownDeliveredTransactions, stopped, commitmentVars>>

\* What a handler does that neither delivers nor stops the process.
Update(p, i, ms, messages) ==
    /\ messagesLog' = [messagesLog EXCEPT ![p][i] = ms]
    /\ sent' = sent \cup messages
    /\ UNCHANGED <<transactionCounter, deliveredMessages, deliveredXHash, deliveryOrder,
                   revealLog, ownDeliveredTransactions, stopped, commitmentVars>>

\* A witness passes every process its share, once; every message carries on the
\* hash of the one that made its sender say it.
TakesNotify(p, ms) == IsWitness(p, ms) /\ ms.witnessStage < SentEchoFromWitness
ReceiveNotify(p, i, v, c, ms) ==
    /\ TakesNotify(p, ms)
    /\ Update(p, i, [ms EXCEPT !.encryptedShares = c.encryptedShares,
                               !.ownEncryptedShare = c.encryptedShares[p],
                               !.witnessStage = SentEchoFromWitness],
              {Msg(p, Proc, "ECHO_FROM_WITNESS", i, v, c)})

\* A process echoes the first value an own witness passes on.
TakesEchoFromWitness(q, ms) == q \in ms.ownWitnessSet /\ ms.stage < SentEchoFromProcess
MutStageCounts(p, q, i, v, c, ms) ==
    /\ q \in ms.ownWitnessSet
    /\ Update(p, i, [ms EXCEPT !.ownEncryptedShare = c.encryptedShares[p],
                               !.stage = @ + 1],
              {Msg(p, ms.potWitnessSet, "ECHO_FROM_PROCESS", i, v, HashOnly(c))})
ReceiveEchoFromWitness(p, q, i, v, c, ms) ==
    /\ TakesEchoFromWitness(q, ms)
    /\ Update(p, i, [ms EXCEPT !.ownEncryptedShare = c.encryptedShares[p],
                               !.stage = SentEchoFromProcess],
              {Msg(p, ms.potWitnessSet, "ECHO_FROM_PROCESS", i, v, HashOnly(c))})

\* A quorum of echoes makes a witness ready.
TakesEchoFromProcess(p, q, ms) ==
    /\ IsWitness(p, ms) /\ ms.witnessStage < SentReadyFromWitness
    /\ ~Voted(ms.echoFromProcesses, q)
MutReadyAfterNotify(p, q, i, v, c, ms) ==
    /\ TakesEchoFromProcess(p, q, ms)
    /\ LET ms2 == [ms EXCEPT !.echoFromProcesses = @ \cup {<<q, v>>}]
       IN  IF /\ Cardinality(VotesFor(ms2.echoFromProcesses, v)) >= QuorumThreshold
              /\ ms.witnessStage = SentEchoFromWitness
             THEN Update(p, i, [ms2 EXCEPT !.witnessStage = SentReadyFromWitness],
                         {Msg(p, Proc, "READY_FROM_WITNESS", i, v, HashOnly(c))})
             ELSE Update(p, i, ms2, {})
ReceiveEchoFromProcess(p, q, i, v, c, ms) ==
    /\ TakesEchoFromProcess(p, q, ms)
    /\ LET ms2 == [ms EXCEPT !.echoFromProcesses = @ \cup {<<q, v>>}]
       IN  \/ /\ Cardinality(VotesFor(ms2.echoFromProcesses, v)) >= QuorumThreshold
              /\ Update(p, i, [ms2 EXCEPT !.witnessStage = SentReadyFromWitness],
                        {Msg(p, Proc, "READY_FROM_WITNESS", i, v, HashOnly(c))})
           \/ /\ Cardinality(VotesFor(ms2.echoFromProcesses, v)) < QuorumThreshold
              /\ Update(p, i, ms2, {})

\* WitnessThreshold ready own witnesses make a process ready.
TakesReadyFromWitness(q, ms) ==
    /\ q \in ms.ownWitnessSet /\ ms.stage < SentReadyFromProcess
    /\ ~Voted(ms.readyFromWitnesses, q)
ReceiveReadyFromWitness(p, q, i, v, c, ms) ==
    /\ TakesReadyFromWitness(q, ms)
    /\ LET ms2 == [ms EXCEPT !.readyFromWitnesses = @ \cup {<<q, v>>}]
       IN  \/ /\ Cardinality(VotesFor(ms2.readyFromWitnesses, v)) >= WitnessThreshold
              /\ Update(p, i, [ms2 EXCEPT !.stage = SentReadyFromProcess],
                        {Msg(p, ms.potWitnessSet, "READY_FROM_PROCESS", i, v, HashOnly(c))})
           \/ /\ Cardinality(VotesFor(ms2.readyFromWitnesses, v)) < WitnessThreshold
              /\ Update(p, i, ms2, {})

\* f+1 ready processes make a witness ready, a quorum of them makes it validate.
TakesReadyFromProcess(p, q, ms) ==
    IsWitness(p, ms) /\ ~Voted(ms.readyFromProcesses, q)
ReceiveReadyFromProcess(p, q, i, v, c, ms) ==
    /\ TakesReadyFromProcess(p, q, ms)
    /\ LET votes    == ms.readyFromProcesses \cup {<<q, v>>}
           count    == Cardinality(VotesFor(votes, v))
           ready    == ms.witnessStage < SentReadyFromWitness /\ count >= ReadyMessagesThreshold
           validate == ms.witnessStage < SentValidate /\ count >= QuorumThreshold
       IN  Update(p, i,
                  [ms EXCEPT !.readyFromProcesses = votes,
                             !.witnessStage = IF validate THEN SentValidate
                                              ELSE IF ready THEN SentReadyFromWitness ELSE @],
                  {Msg(p, Proc, "READY_FROM_WITNESS", i, v, HashOnly(c)) : b \in {ready} \cap {TRUE}} \cup
                  {Msg(p, Proc, "VALIDATE", i, v, HashOnly(c)) : b \in {validate} \cap {TRUE}})

-----------------------------------------------------------------------------
(* The reveal phase *)

\* The handlers of commitment messages work on a reveal state and on what they
\* have done so far: the stages announced and with which secret, the secrets
\* added to the history, and whether the instance is committed or the process
\* ended.
Announce(st, sentAs, x) ==
    [st EXCEPT !.reveal.revealStage = sentAs, !.announced = @ \cup {<<sentAs, x>>}]
Fatal(st) == [st EXCEPT !.fatal = TRUE]

RevealThreshold == 2 * F + 1

\* The secret that the shares make is compared with the hash this process has
\* delivered, h.
MutHashNotCompared(h, st) ==
    LET x == Reconstruct[st.reveal.decryptedShares]
    IN  IF x = None THEN Fatal(st) ELSE Announce(st, "SentDoneToProcesses", x)
Verdict(h, st) ==
    LET x == Reconstruct[st.reveal.decryptedShares]
    IN  CASE x = None -> Fatal(st)
          [] x # None /\ Hash[x] = h -> Announce(st, "SentDoneToProcesses", x)
          [] x # None /\ Hash[x] # h -> Announce(st, "SentFailedToProcesses", None)

\* A witness that has the encrypted shares ends when a share is not its sender's.
WrongShare(m, ms) ==
    ms.encryptedShares # None /\ ms.encryptedShares[m.from] # Encrypt[m.from][m.data]
OnReveal(p, m, ms, h, st) ==
    LET st2 == [st EXCEPT !.reveal.decryptedShares = @ \cup {<<m.from, m.data>>}]
    IN  IF \/ ~IsWitness(p, ms)
           \/ m.from \in RevealFrom(st.reveal.decryptedShares)
           \/ st.reveal.revealStage \in {"SentDoneToProcesses", "SentFailedToProcesses"}
        THEN st
        ELSE IF WrongShare(m, ms) THEN Fatal(st2)
        ELSE IF Cardinality(RevealFrom(st2.reveal.decryptedShares)) < RevealThreshold THEN st2
        ELSE Verdict(h, st2)

\* DONE with a secret of the delivered hash, from whomever: a witness passes it
\* on; a process that has mixed the transaction and has it from an own witness
\* puts the secret into its history and commits.
OnDone(p, m, ms, h, mixed, st) ==
    LET x   == m.data
        st2 == IF IsWitness(p, ms) /\ st.reveal.revealStage # "SentDoneToProcesses"
                 THEN Announce(st, "SentDoneToProcesses", x) ELSE st
    IN  IF Hash[x] # h THEN st
        ELSE IF m.from \in ms.ownWitnessSet /\ mixed
          THEN [Announce(st2, "SentDoneToWitnesses", x)
                  EXCEPT !.committed = TRUE, !.added = {x}]
        ELSE st2

OnFailed(p, q, ms, st) ==
    LET st2 == IF q \in ms.ownWitnessSet /\ st.reveal.revealStage # "SentFailedToWitnesses"
                 THEN Announce(st, "SentFailedToWitnesses", None) ELSE st
    IN  IF IsWitness(p, ms) /\ st2.reveal.revealStage # "SentFailedToProcesses"
          THEN Announce(st2, "SentFailedToProcesses", None) ELSE st2

\* processCommitmentProtocolMessage, for an instance delivered with hash h.
OnCommitment(p, m, ms, h, mixed, st) ==
    CASE st.committed \/ st.fatal -> st
      [] ~(st.committed \/ st.fatal) /\ m.stage = "REVEAL" -> OnReveal(p, m, ms, h, st)
      [] ~(st.committed \/ st.fatal) /\ m.stage = "DONE" -> OnDone(p, m, ms, h, mixed, st)
      [] ~(st.committed \/ st.fatal) /\ m.stage = "FAILED" -> OnFailed(p, m.from, ms, st)

Before(reveal) ==
    [reveal |-> reveal, announced |-> {}, added |-> {}, committed |-> FALSE, fatal |-> FALSE]

\* The messages behind the stages announced.
Announcements(p, i, ms, announced) ==
    {Commitment(p, IF a[1] \in {"SentDoneToWitnesses", "SentFailedToWitnesses"}
                     THEN ms.potWitnessSet ELSE Proc,
                IF a[1] \in {"SentDoneToWitnesses", "SentDoneToProcesses"}
                  THEN "DONE" ELSE "FAILED",
                i, a[1], a[2]) : a \in announced}

\* deliver: the pending commitment messages are handled, with nothing mixed on
\* top of the transaction yet, and the transaction that MixingTime deliveries
\* are now mixed on top of is revealed to its witnesses.  That takes its message
\* state and the own share: without them startRevealPhase ends the process.
HandleAll(p, pending, ms, h, before) ==
    LET after[k \in 0 .. Len(pending)] ==
            IF k = 0 THEN before
                     ELSE OnCommitment(p, pending[k], ms, h, MixingTime = 0, after[k - 1])
    IN  after[Len(pending)]
MutKeepsPending(p, i, ms, h) ==
    HandleAll(p, revealLog[p][i].pending, ms, h, Before(revealLog[p][i]))
Replay(p, i, ms, h) ==
    HandleAll(p, revealLog[p][i].pending, ms, h,
              Before([revealLog[p][i] EXCEPT !.pending = <<>>]))

MutRevealsEarly(order) == Len(order) - MixingTime + 1
DueForReveal(order) == Len(order) - MixingTime
DecryptedShare(p, ms) ==
    IF ms = NoState THEN None
    ELSE IF ms.ownEncryptedShare = None THEN None
    ELSE Decrypt[p][ms.ownEncryptedShare]

Deliver(p, i, v, c, ms) ==
    LET order     == Append(deliveryOrder[p], i)
        replayed  == Replay(p, i, ms, c.xHash)
        log       == [messagesLog[p] EXCEPT ![i] =
                         IF replayed.committed THEN NoState
                                               ELSE [ms EXCEPT !.stage = DeliveredStage]]
        due       == {k \in DOMAIN order : k = DueForReveal(order)}
        fatal     == \/ replayed.fatal
                     \/ \E k \in due : DecryptedShare(p, log[order[k]]) = None
    IN  /\ deliveredMessages' = [deliveredMessages EXCEPT ![p][i] = v]
        /\ deliveredXHash' = [deliveredXHash EXCEPT ![p][i] = c.xHash]
        /\ deliveryOrder' = [deliveryOrder EXCEPT ![p] = order]
        /\ messagesLog' = [messagesLog EXCEPT ![p] = log]
        /\ revealLog' = [revealLog EXCEPT ![p][i] =
                            IF replayed.committed THEN NewRevealState ELSE replayed.reveal]
        /\ finallyCommittedMessages' =
               [finallyCommittedMessages EXCEPT ![p] =
                   IF replayed.committed THEN @ \cup {i} ELSE @]
        /\ history' = [history EXCEPT ![p] = @ \cup ({i} \X replayed.added)]
        /\ commitmentSent' = commitmentSent
               \cup Announcements(p, i, ms, replayed.announced)
               \cup (IF fatal THEN {}
                     ELSE {Commitment(p, log[order[k]].potWitnessSet, "REVEAL", order[k],
                                      "InitialRevealStage",
                                      DecryptedShare(p, log[order[k]])) : k \in due})
        /\ stopped' = IF fatal THEN stopped \cup {p} ELSE stopped
        /\ ownDeliveredTransactions' =
               IF ~fatal /\ p \in SendOwnDeliveredTransactions /\ i.author = p
                 THEN [ownDeliveredTransactions EXCEPT ![p] = @ + 1]
                 ELSE ownDeliveredTransactions
        /\ UNCHANGED <<transactionCounter, sent, commitmentReceived>>

\* WitnessThreshold validations by own witnesses deliver.
TakesValidate(q, ms) ==
    /\ q \in ms.ownWitnessSet /\ ms.stage < DeliveredStage
    /\ ~Voted(ms.validateFromWitnesses, q)
MutValidatedByAnyValues(p, q, i, v, c, ms) ==
    /\ TakesValidate(q, ms)
    /\ LET ms2 == [ms EXCEPT !.validateFromWitnesses = @ \cup {<<q, v>>}]
       IN  IF Cardinality(ms2.validateFromWitnesses) >= WitnessThreshold
             THEN Deliver(p, i, v, c, ms2) ELSE Update(p, i, ms2, {})
ReceiveValidate(p, q, i, v, c, ms) ==
    /\ TakesValidate(q, ms)
    /\ LET ms2 == [ms EXCEPT !.validateFromWitnesses = @ \cup {<<q, v>>}]
       IN  \/ /\ Cardinality(VotesFor(ms2.validateFromWitnesses, v)) >= WitnessThreshold
              /\ Deliver(p, i, v, c, ms2)
           \/ /\ Cardinality(VotesFor(ms2.validateFromWitnesses, v)) < WitnessThreshold
              /\ Update(p, i, ms2, {})

Takes(p, q, s, ms) ==
    \/ s = "NOTIFY" /\ TakesNotify(p, ms)
    \/ s = "ECHO_FROM_WITNESS" /\ TakesEchoFromWitness(q, ms)
    \/ s = "ECHO_FROM_PROCESS" /\ TakesEchoFromProcess(p, q, ms)
    \/ s = "READY_FROM_WITNESS" /\ TakesReadyFromWitness(q, ms)
    \/ s = "READY_FROM_PROCESS" /\ TakesReadyFromProcess(p, q, ms)
    \/ s = "VALIDATE" /\ TakesValidate(q, ms)

\* A message that is not taken still leaves the instance registered.
RegisterOnly(p, q, s, i, ms) ==
    /\ messagesLog[p][i] = NoState
    /\ ~Takes(p, q, s, ms)
    /\ Update(p, i, ms, {})

\* processReliableProtocolMessage; what a process has committed is closed.
HandleReliable(p, m) ==
    /\ p \notin stopped
    /\ ~FinallyCommitted(p, m.inst)
    /\ LET q == m.from  i == m.inst  v == m.value  c == m.content  s == m.stage
           ms == RegisterMessage(p, m.inst)
       IN  \/ s = "NOTIFY" /\ ReceiveNotify(p, i, v, c, ms)
           \/ s = "ECHO_FROM_WITNESS" /\ ReceiveEchoFromWitness(p, q, i, v, c, ms)
           \/ s = "ECHO_FROM_PROCESS" /\ ReceiveEchoFromProcess(p, q, i, v, c, ms)
           \/ s = "READY_FROM_WITNESS" /\ ReceiveReadyFromWitness(p, q, i, v, c, ms)
           \/ s = "READY_FROM_PROCESS" /\ ReceiveReadyFromProcess(p, q, i, v, c, ms)
           \/ s = "VALIDATE" /\ ReceiveValidate(p, q, i, v, c, ms)
           \/ RegisterOnly(p, q, s, i, ms)

\* The commitment messages of faulty processes.
FaultyCommitments ==
    {m \in UNION {{Commitment(q, FaultyTo, s, i, "InitialRevealStage", x) :
                      s \in CommitmentStages, x \in FaultyData[i.author] \cup {None}} :
                  q \in Faulty, i \in Instance} :
        /\ <<m.stage, m.inst.author>> \in FaultyMessages
        /\ m.stage = "REVEAL" => m.data \in Share
        /\ m.stage = "DONE" => m.data \in Secret
        /\ m.stage = "FAILED" => m.data = None}

\* A commitment message that comes before the delivery waits for it.
KeepPending(p, m, ms) ==
    /\ ~Delivered(p, m.inst)
    /\ messagesLog' = [messagesLog EXCEPT ![p][m.inst] = ms]
    /\ revealLog' = [revealLog EXCEPT ![p][m.inst].pending = Append(@, m)]
    /\ UNCHANGED <<finallyCommittedMessages, history, commitmentSent, stopped>>

MutMixedEarly(p, i) == DeliveredMessagesCount(p) - Checkpoint(p, i) >= MixingTime - 1
Mixed(p, i) == DeliveredMessagesCount(p) - Checkpoint(p, i) >= MixingTime

MutStateStays(p, i, ms, committed) == ms
StateAfter(p, i, ms, committed) == IF committed THEN NoState ELSE ms

ReceiveCommitment(p, m, ms) ==
    LET i  == m.inst
        st == OnCommitment(p, m, ms, deliveredXHash[p][i], Mixed(p, i),
                           Before(revealLog[p][i]))
    IN  /\ Delivered(p, i)
        /\ messagesLog' = [messagesLog EXCEPT ![p][i] = StateAfter(p, i, ms, st.committed)]
        /\ revealLog' = [revealLog EXCEPT ![p][i] =
                            IF st.committed THEN NewRevealState ELSE st.reveal]
        /\ finallyCommittedMessages' =
               [finallyCommittedMessages EXCEPT ![p] = IF st.committed THEN @ \cup {i} ELSE @]
        /\ history' = [history EXCEPT ![p] = @ \cup ({i} \X st.added)]
        /\ commitmentSent' = commitmentSent \cup Announcements(p, i, ms, st.announced)
        /\ stopped' = IF st.fatal THEN stopped \cup {p} ELSE stopped

\* The messages of correct processes come once, those of faulty ones again and
\* again; bound: before the delivery each of them waits once.
HandleCommitment(p, m) ==
    /\ p \notin stopped
    /\ p \in m.to
    /\ m \in commitmentReceived[p] => m.from \in Faulty /\ Delivered(p, m.inst)
    /\ ~FinallyCommitted(p, m.inst)
    /\ LET ms == RegisterMessage(p, m.inst)
       IN  KeepPending(p, m, ms) \/ ReceiveCommitment(p, m, ms)
    /\ commitmentReceived' = [commitmentReceived EXCEPT ![p] = @ \cup {m}]
    /\ UNCHANGED <<transactionCounter, deliveredMessages, deliveredXHash, deliveryOrder,
                   ownDeliveredTransactions, sent>>

Next ==
    \/ \E p \in Correct \ stopped, v \in Value : Broadcast(p, v)
    \/ \E p \in Correct : \E m \in Incoming(p) : HandleReliable(p, m)
    \/ \E p \in Correct, m \in commitmentSent \cup FaultyCommitments :
          HandleCommitment(p, m)

Spec == Init /\ [][Next]_vars

-----------------------------------------------------------------------------
(* Properties *)

TypeOK ==
    /\ transactionCounter \in [Correct -> 0 .. MaxTransactions]
    /\ deliveredMessages \in [Correct -> [Instance -> Value \cup {None}]]
    /\ deliveredXHash \in [Correct -> [Instance -> XHashes \cup {None}]]
    /\ finallyCommittedMessages \in [Correct -> SUBSET Instance]
    /\ history \in [Correct -> SUBSET (Instance \X Secret)]
    /\ deliveryOrder \in [Correct -> Seq(Instance)]
    /\ messagesLog \in [Correct -> [Instance -> MessageState \cup {NoState}]]
    /\ revealLog \in [Correct -> [Instance -> RevealState]]
    /\ ownDeliveredTransactions \in [Correct -> Nat]
    /\ sent \subseteq Message
    /\ commitmentSent \subseteq CommitmentMessage
    /\ commitmentReceived \in [Correct -> SUBSET CommitmentMessage]
    /\ stopped \subseteq Correct

\* The processes that may have given their vote of kind s to v in instance i.
Sent(q, s, i, v) ==
    \E m \in sent : m.from = q /\ m.stage = s /\ m.inst = i /\ m.value = v
Voters(s, i, v) ==
    {q \in Proc : \/ q \in Faulty /\ <<s, i.author>> \in FaultyMessages
                  \/ q \in Correct /\ Sent(q, s, i, v)}

\* Instances in which nobody but a correct author can put a value into
\* circulation.  (Neither NOTIFY nor ECHO_FROM_WITNESS is checked against the
\* author, and Broadcast resets a message state that is already there.)
Authentic ==
    {i \in Instance :
        /\ i.author \in Correct
        /\ \A s \in {"NOTIFY", "ECHO_FROM_WITNESS"} :
              Faulty = {} \/ <<s, i.author>> \notin FaultyMessages}
Judged == Authentic \cup {i \in Instance : i.author \in Faulty}

\* Consistency: whichever witness sets two correct processes have drawn, they
\* do not deliver different values for an instance.
Agreement ==
    \A p, q \in Correct, i \in Judged :
        Delivered(p, i) /\ Delivered(q, i) =>
            deliveredMessages[p][i] = deliveredMessages[q][i]

EchoQuorum(i, v) == Cardinality(Voters("ECHO_FROM_PROCESS", i, v)) >= QuorumThreshold

\* Nothing correct processes become ready for or validate lacks a quorum of
\* echoes, although READYs also spread by f+1 others and by own witnesses.
QuorumBehindReady ==
    \A m \in sent :
        m.stage \in {"READY_FROM_WITNESS", "READY_FROM_PROCESS", "VALIDATE"}
        => EchoQuorum(m.inst, m.value)

\* A correct process echoes one value per instance.
OneEcho ==
    \A m1, m2 \in sent :
        /\ m1.stage = "ECHO_FROM_PROCESS" /\ m2.stage = "ECHO_FROM_PROCESS"
        /\ m1.inst = m2.inst /\ m1.from = m2.from /\ m1.inst \in Judged
        => m1.value = m2.value

\* Every vote a state holds may have been given, those of witnesses by own ones.
Backed(votes, s, i) == \A v \in Value : VotesFor(votes, v) \subseteq Voters(s, i, v)
Within(votes, W) == \A v \in Value : VotesFor(votes, v) \subseteq W
StateBacked(ms, i) ==
    /\ ms \in MessageState
    /\ Cardinality(ms.ownWitnessSet \cap Faulty) < WitnessThreshold
    /\ Backed(ms.echoFromProcesses, "ECHO_FROM_PROCESS", i)
    /\ Backed(ms.readyFromProcesses, "READY_FROM_PROCESS", i)
    /\ Backed(ms.readyFromWitnesses, "READY_FROM_WITNESS", i)
    /\ Backed(ms.validateFromWitnesses, "VALIDATE", i)
    /\ Within(ms.readyFromWitnesses, ms.ownWitnessSet)
    /\ Within(ms.validateFromWitnesses, ms.ownWitnessSet)
VotesBacked ==
    \A p \in Correct, i \in Instance :
        messagesLog[p][i] # NoState => StateBacked(messagesLog[p][i], i)

\* Nothing is delivered without a quorum of echoes.
DeliveryBacked ==
    \A p \in Correct, i \in Instance :
        Delivered(p, i) => EchoQuorum(i, deliveredMessages[p][i])

\* A process that has echoed remembers it, or has committed the instance.
EchoRecorded ==
    \A m \in sent :
        m.stage = "ECHO_FROM_PROCESS" /\ m.inst.author \in Faulty =>
            \/ m.inst \in finallyCommittedMessages[m.from]
            \/ /\ messagesLog[m.from][m.inst] # NoState
               /\ messagesLog[m.from][m.inst].stage >= SentEchoFromProcess

\* An author broadcasts once per instance, and in an authentic one nothing else
\* is echoed.
NotifiedOnce ==
    /\ \A m \in sent :
          m.stage = "NOTIFY" =>
              m.from = m.inst.author /\ m.inst.seqNumber < transactionCounter[m.from]
    /\ \A m1, m2 \in sent :
          m1.stage = "NOTIFY" /\ m2.stage = "NOTIFY" /\ m1.inst = m2.inst
          => m1.value = m2.value
EchoSourced ==
    \A m \in sent :
        m.inst \in Authentic /\ m.stage \in {"ECHO_FROM_WITNESS", "ECHO_FROM_PROCESS"}
        => Sent(m.inst.author, "NOTIFY", m.inst, m.value)

\* The inductive invariant behind Agreement.
WitnessInv ==
    /\ VotesBacked /\ QuorumBehindReady /\ DeliveryBacked
    /\ OneEcho /\ EchoRecorded /\ NotifiedOnce /\ EchoSourced

\* MixingTime transactions have been delivered at p on top of i.
MixedOnTop(p, i) ==
    \E k \in Deliveries(p, i) : Len(deliveryOrder[p]) >= k + MixingTime

\* F+1 correct processes at least have delivered MixingTime transactions after i.
MixedByMany(i) == Cardinality({p \in Correct : MixedOnTop(p, i)}) >= F + 1

\* A faulty process has said DONE with x, as the author of i may: it knows x.
GivenAway(i, x) ==
    \E p \in Correct : \E m \in commitmentReceived[p] :
        m.from \in Faulty /\ m.stage = "DONE" /\ m.inst = i /\ m.data = x

\* The shares of a secret are not collected before enough other transactions are
\* mixed on top of it: unless faulty processes have given the secret away by a
\* DONE of their own, which witnesses relay at once, a correct process says DONE
\* only when F+1 correct ones have mixed the transaction, whatever the faulty
\* ones reveal.  (Who knows how `sample' seeds its generator need not wait: it
\* is with the author's index.)
SecretHidden ==
    \A m \in commitmentSent :
        m.stage = "DONE" => MixedByMany(m.inst) \/ GivenAway(m.inst, m.data)

\* A process commits what it has delivered and mixed, never earlier.
CommitAfterMixing ==
    \A p \in Correct : \A i \in finallyCommittedMessages[p] :
        Delivered(p, i) /\ MixedOnTop(p, i)

\* Instances of a correct author about which faulty processes vote, if they do,
\* with its own hash.
Untampered ==
    {i \in Authentic : \A c \in FaultyContent[i.author] : c.xHash = Hash[Sample[i.author]]}

\* A message that gives the author's secret or the sender's share of it; and an
\* instance about which a correct process has got another one from a faulty one:
\* a wrong share, a DONE with another secret, or a FAILED.
Truthful(m) ==
    \/ m.stage = "REVEAL" /\ m.data = EncodeEntropy[Sample[m.inst.author]][m.from]
    \/ m.stage = "DONE" /\ m.data = Sample[m.inst.author]
Misled(i) ==
    \E p \in Correct : \E m \in commitmentReceived[p] :
        m.from \in Faulty /\ m.inst = i /\ ~Truthful(m)

\* A correct process says DONE only with a secret of the hash that it has itself
\* delivered (votes count values, so others may have delivered another hash of a
\* faulty author); and about a correct author nobody says FAILED, or DONE with
\* another secret than the author's, unless it has been misled.
OneVerdict ==
    \A m \in commitmentSent :
        /\ m.stage = "DONE" => Hash[m.data] = deliveredXHash[m.from][m.inst]
        /\ m.inst \in Untampered => Truthful(m) \/ Misled(m.inst)

\* Commitment messages wait for the delivery and not beyond it.
PendingOnlyBeforeDelivery ==
    \A p \in Correct, i \in Instance : revealLog[p][i].pending # <<>> => ~Delivered(p, i)

\* What a commitment message says has its reasons: who reveals has mixed, DONE
\* comes of shares or of a secret given away, and no correct process says
\* anything false of an instance unless one has been misled.
MayReveal(i) == Faulty \cup {q \in Correct : MixedOnTop(q, i)}
Justified(m) ==
    /\ m.stage = "REVEAL" => m.from \in MayReveal(m.inst)
    /\ m.stage = "DONE" => MixedByMany(m.inst) \/ GivenAway(m.inst, m.data)
    /\ m.inst \in Untampered => Truthful(m) \/ Misled(m.inst)
AllJustified == \A m \in commitmentSent : Justified(m)

\* Every delivery has its place in the order.
DeliveryOrdered ==
    \A p \in Correct, i \in Instance :
        Delivered(p, i) => Deliveries(p, i) # {}

\* Shares are counted of processes that may reveal and are the author's unless
\* a process has been misled, and what waits is justified.
SharesOf(x) == {<<q, EncodeEntropy[x][q]>> : q \in Proc}
RevealBacked(reveal, i) ==
    /\ RevealFrom(reveal.decryptedShares) \subseteq MayReveal(i)
    /\ i \in Untampered =>
          reveal.decryptedShares \subseteq SharesOf(Sample[i.author]) \/ Misled(i)
    /\ \A k \in DOMAIN reveal.pending :
          reveal.pending[k].inst = i /\ Justified(reveal.pending[k])

\* In an untampered instance every message carries the author's hash and shares,
\* and so do the states and the deliveries that come of them.
Fits(c, i) == c \in {Genuine(i.author), HashOnly(Genuine(i.author))}
ContentGenuine ==
    /\ \A m \in sent : m.inst \in Untampered => Fits(m.content, m.inst)
    /\ \A p \in Correct, i \in Untampered :
          /\ messagesLog[p][i] # NoState =>
                messagesLog[p][i].ownEncryptedShare \in {None, Genuine(i.author).encryptedShares[p]}
          /\ Delivered(p, i) => deliveredXHash[p][i] = Hash[Sample[i.author]]

\* The inductive invariant of the reveal phase.
RevealInv ==
    /\ ContentGenuine /\ CommitAfterMixing /\ PendingOnlyBeforeDelivery
    /\ AllJustified /\ DeliveryOrdered
    /\ \A p \in Correct, i \in Instance : RevealBacked(revealLog[p][i], i)

\* A committed instance is closed: its message state is not created anew, and
\* the process says nothing more about it.
CommittedIsFinal ==
    [][\A p \in Correct, i \in Instance :
          i \in finallyCommittedMessages[p] =>
            /\ messagesLog'[p][i] = NoState
            /\ i \in finallyCommittedMessages'[p]
            /\ \A m \in (sent' \ sent) \cup (commitmentSent' \ commitmentSent) :
                  ~(m.from = p /\ m.inst = i)]_vars

\* The protocol delivers like a reliable broadcast.
RB == INSTANCE ReliableBroadcast
        WITH initiated <- {<<m.inst, m.value>> : m \in {x \in sent : x.stage = "NOTIFY"}},
             delivered <- deliveredMessages

ImplementsReliableBroadcast == RB!Spec

\* No process is ended by its own checks: in particular its share is there, and
\* can be decrypted, when the reveal phase of a transaction starts.
NoProcessStops == stopped = {}

\* What a message state shows to have been said.
Shows(ms, s) ==
    \/ s = "ECHO_FROM_WITNESS" /\ ms.witnessStage = SentEchoFromWitness
    \/ s = "READY_FROM_WITNESS" /\ ms.witnessStage >= SentReadyFromWitness
    \/ s = "VALIDATE" /\ ms.witnessStage = SentValidate
    \/ s = "ECHO_FROM_PROCESS" /\ ms.stage = SentEchoFromProcess
    \/ s = "READY_FROM_PROCESS" /\ ms.stage = SentReadyFromProcess
Said(p, s, i) == \E m \in sent : m.from = p /\ m.stage = s /\ m.inst = i

\* No threshold that the votes of a state reach has been passed over.
Heeded(ms) ==
    \A v \in Value :
        /\ ms.witnessStage < SentReadyFromWitness =>
              /\ Cardinality(VotesFor(ms.echoFromProcesses, v)) < QuorumThreshold
              /\ Cardinality(VotesFor(ms.readyFromProcesses, v)) < ReadyMessagesThreshold
        /\ ms.witnessStage < SentValidate =>
              Cardinality(VotesFor(ms.readyFromProcesses, v)) < QuorumThreshold
        /\ ms.stage < SentReadyFromProcess =>
              Cardinality(VotesFor(ms.readyFromWitnesses, v)) < WitnessThreshold
        /\ ms.stage < DeliveredStage =>
              Cardinality(VotesFor(ms.validateFromWitnesses, v)) < WitnessThreshold

\* In whatever order votes come, and although READYs overtake ECHOs and skip
\* stages: who has reached a stage has said what belongs to it, and who has the
\* votes for a stage has reached it.
ProgressInv ==
    \A p \in Correct, i \in Instance :
        LET ms == messagesLog[p][i]
        IN  ms # NoState =>
               /\ \A s \in BroadcastStages : Shows(ms, s) => Said(p, s, i)
               /\ ms.stage = DeliveredStage => Delivered(p, i)
               /\ Heeded(ms)

\* A message that would be taken, or register the instance, waits to be handled.
Waits(p, q, s, i, v) ==
    /\ p \notin stopped /\ ~FinallyCommitted(p, i) /\ Receivable(p, q, s, i, v)
    /\ messagesLog[p][i] = NoState \/ Takes(p, q, s, messagesLog[p][i])

\* No message of a correct process waits to be handled by another one.
Settled ==
    \A p, q \in Correct, s \in BroadcastStages, i \in Instance, v \in Value :
        ~Waits(p, q, s, i, v)

\* Validity: once the witness broadcast has settled, what a correct process
\* broadcasts all correct ones have delivered, whichever of their messages came
\* first and whatever the reveal phase of other transactions does meanwhile.
Validity ==
    Settled /\ NoProcessStops =>
        \A i \in Authentic, v \in Value :
            Sent(i.author, "NOTIFY", i, v) => \A q \in Correct : deliveredMessages[q][i] = v
=============================================================================
