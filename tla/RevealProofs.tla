---------------------------- MODULE RevealProofs ----------------------------
(***************************************************************************)
(* The reveal phase of reliable accountability: no secret is collected     *)
(* before enough processes have mixed the transaction, unless a faulty     *)
(* process gives it away, and no correct process says anything false of a  *)
(* correct author, unless it has been misled; however the commitment       *)
(* messages overtake the deliveries and each other, for every F that       *)
(* bounds the faulty processes, every mixing time, every selection of      *)
(* witnesses and whatever the faulty processes put into their messages.    *)
(*                                                                         *)
(* Then the progress of the broadcast beneath it, which deliveries and     *)
(* commits of the reveal phase interfere with: no threshold is passed      *)
(* over, and what is broadcast all deliver.                                *)
(***************************************************************************)
EXTENDS ReliableAccountabilityProofs, InductionTheorems

-----------------------------------------------------------------------------
(* What commitment messages of an instance may hold *)

\* The shares that may be counted, the secrets that DONE may be said with, and
\* whether FAILED may be said: RevealBacked and Justified put as sets.
AllowedShares(i) ==
    {a \in Proc \X Share : /\ a[1] \in MayReveal(i)
                           /\ i \in Untampered => a \in SharesOf(Sample[i.author]) \/ Misled(i)}
AllowedSecrets(i) ==
    {x \in Secret : /\ MixedByMany(i) \/ GivenAway(i, x)
                    /\ i \in Untampered => x = Sample[i.author] \/ Misled(i)}
MayFail(i) == i \in Untampered => Misled(i)
Allows(m, i) == Admitted(m, AllowedShares(i), AllowedSecrets(i), MayFail(i))

LEMMA SharesAllowed ==
    ASSUME NEW i, NEW S \in SUBSET (Proc \X Share)
    PROVE  S \subseteq AllowedShares(i)' <=>
               /\ RevealFrom(S) \subseteq MayReveal(i)'
               /\ i \in Untampered => S \subseteq SharesOf(Sample[i.author]) \/ Misled(i)'
<1>1. RevealFrom(S) \subseteq MayReveal(i)' <=> \A a \in S : a[1] \in MayReveal(i)'
  <2>1. \A a \in S : a = <<a[1], a[2]>> /\ a[1] \in Proc /\ a[2] \in Share
    OBVIOUS
  <2>2. QED
    BY <2>1 DEF RevealFrom
<1>2. QED
  BY <1>1 DEF AllowedShares

LEMMA JustifiedAllowed ==
    ASSUME NEW m \in Commitments
    PROVE  Justified(m)' <=> Allows(m, m.inst)'
<1> DEFINE i == m.inst
<1>1. /\ m.stage \in {"REVEAL", "DONE", "FAILED"} /\ m.from \in Proc
      /\ m.stage = "REVEAL" => m.data \in Share
      /\ m.stage = "DONE" => m.data \in Secret
  BY DEF Commitments, CommitmentMessage, CommitmentStages
<1>2. CASE m.stage = "REVEAL"
  <2>1. <<m.from, m.data>> \in SharesOf(Sample[i.author]) <=>
           m.data = EncodeEntropy[Sample[i.author]][m.from]
    BY <1>1 DEF SharesOf
  <2>2. Allows(m, i)' <=> <<m.from, m.data>> \in AllowedShares(i)'
    BY <1>2 DEF Allows, Admitted
  <2>3. QED
    BY <1>1, <1>2, <2>1, <2>2 DEF AllowedShares, Justified, Truthful
<1>3. CASE m.stage = "DONE"
  <2>1. Allows(m, i)' <=> m.data \in AllowedSecrets(i)'
    BY <1>3 DEF Allows, Admitted
  <2>2. QED
    BY <1>1, <1>3, <2>1 DEF AllowedSecrets, Justified, Truthful
<1>4. CASE m.stage = "FAILED"
  <2>1. Allows(m, i)' <=> MayFail(i)'
    BY <1>4 DEF Allows, Admitted
  <2>2. QED
    BY <1>4, <2>1 DEF MayFail, Justified, Truthful
<1>5. QED
  BY <1>1, <1>2, <1>3, <1>4

\* Of 2f+1 processes that are faulty or in C, f+1 are in C.
LEMMA EnoughRevealed ==
    ASSUME NEW C \in SUBSET Correct, NEW S \in SUBSET Proc, S \subseteq Faulty \cup C,
           Cardinality(S) >= RevealThreshold
    PROVE  Cardinality(C) >= F + 1
<1>1. C \in SUBSET Proc /\ S \ Faulty \in SUBSET C /\ S \cap Faulty \in SUBSET Faulty
  BY DEF Correct
<1>2. IsFiniteSet(S) /\ S \ Faulty \in SUBSET Proc /\ S \cap Faulty \in SUBSET Proc
  BY ProcSubset
<1>3. Cardinality(S \ Faulty) = Cardinality(S) - Cardinality(S \cap Faulty)
  BY <1>2, FS_Difference, Thresholds, ProcSubset
<1>4. Cardinality(S \cap Faulty) <= F /\ Cardinality(S \ Faulty) <= Cardinality(C)
  <2>1. Cardinality(S \cap Faulty) <= Cardinality(Faulty)
    BY <1>1, Thresholds, SubsetCardinality
  <2>2. Cardinality(S \cap Faulty) \in Nat
    BY <1>2, ProcSubset
  <2>3. Cardinality(S \cap Faulty) <= F
    BY <2>1, <2>2, Thresholds, ProcAssumption
  <2>4. QED
    BY <1>1, <2>3, SubsetCardinality
<1>5. /\ Cardinality(S) \in Nat /\ Cardinality(S \cap Faulty) \in Nat
      /\ Cardinality(C) \in Nat
  BY <1>1, <1>2, ProcSubset
<1>6. QED
  BY <1>3, <1>4, <1>5, Thresholds DEF RevealThreshold

\* F+1 shares of a secret make that secret.
LEMMA SharesReconstruct ==
    ASSUME NEW x \in Secret, NEW S, S \subseteq SharesOf(x),
           Cardinality(RevealFrom(S)) >= RevealThreshold
    PROVE  Reconstruct[S] = x
<1> DEFINE R == RevealFrom(S)
<1>1. R \in SUBSET Proc
  BY DEF RevealFrom
<1>2. \A q \in Proc : EncodeEntropy[x][q] \in Share
  BY SecretAssumption
<1>3. S = {<<q, EncodeEntropy[x][q]>> : q \in R}
  BY <1>2 DEF RevealFrom, SharesOf
<1> HIDE DEF R
<1>4. Cardinality(R) >= F + 1
  BY <1>1, ProcSubset, Thresholds DEF RevealThreshold, R
<1>5. QED
  BY <1>1, <1>3, <1>4, SecretAssumption

\* Whoever counts allowed shares against the hash that is delivered comes to an
\* allowed verdict.
LEMMA AllowedConclusive ==
    ASSUME NEW i \in Instance, NEW h, i \in Untampered => h = Hash[Sample[i.author]],
           NEW A, A = AllowedShares(i)', NEW D, D = AllowedSecrets(i)',
           NEW fails, fails = MayFail(i)'
    PROVE  Conclusive(A, D, fails, h)
<1> SUFFICES ASSUME NEW S \in SUBSET A,
                    Cardinality(RevealFrom(S)) >= RevealThreshold,
                    Reconstruct[S] # None
             PROVE  IF Hash[Reconstruct[S]] = h THEN Reconstruct[S] \in D ELSE fails
  BY DEF Conclusive, AllowedShares, AllowedSecrets, MayFail
<1> DEFINE C == {q \in Correct : MixedOnTop(q, i)'}
           x == Reconstruct[S]
<1>1. S \in SUBSET (Proc \X Share)
  BY DEF AllowedShares
<1>2. RevealFrom(S) \in SUBSET Proc /\ RevealFrom(S) \subseteq Faulty \cup C
  <2>1. RevealFrom(S) \subseteq MayReveal(i)'
    BY <1>1, SharesAllowed
  <2>2. QED
    BY <2>1 DEF MayReveal, RevealFrom
<1>3. MixedByMany(i)'
  <2> HIDE DEF C
  <2>1. C \in SUBSET Correct
    BY DEF C
  <2>2. Cardinality(C) >= F + 1
    BY <1>2, <2>1, EnoughRevealed
  <2>3. QED
    BY <2>2 DEF C, MixedByMany
<1>4. x \in Secret
  BY <1>1, SecretAssumption
<1>5. CASE i \in Untampered /\ ~Misled(i)'
  <2>1. Sample[i.author] \in Secret
    BY BoundAssumption, SecretAssumption DEF Instance
  <2>2. S \subseteq SharesOf(Sample[i.author])
    BY <1>1, <1>5, SharesAllowed
  <2>3. x = Sample[i.author]
    BY <2>1, <2>2, SharesReconstruct
  <2>4. QED
    BY <1>3, <1>4, <1>5, <2>3 DEF AllowedSecrets
<1>6. CASE ~(i \in Untampered /\ ~Misled(i)')
  BY <1>3, <1>4, <1>6 DEF AllowedSecrets, MayFail
<1>7. QED
  BY <1>5, <1>6

-----------------------------------------------------------------------------
(* Orders of delivery and what has been received only grow *)

OrdersGrow ==
    \A p \in Correct : \A k \in DOMAIN deliveryOrder[p] :
        /\ k \in DOMAIN deliveryOrder'[p] /\ deliveryOrder'[p][k] = deliveryOrder[p][k]
        /\ Len(deliveryOrder[p]) <= Len(deliveryOrder'[p])
Grows ==
    /\ OrdersGrow
    /\ \A p \in Correct : commitmentReceived[p] \subseteq commitmentReceived'[p]

LEMMA OrderExtended ==
    ASSUME CommitmentsTyped, NEW p \in Correct, NEW i \in Instance,
           deliveryOrder' = [deliveryOrder EXCEPT ![p] = Append(@, i)]
    PROVE  OrdersGrow /\ deliveryOrder'[p] = Append(deliveryOrder[p], i)
<1>1. \A q \in Correct : deliveryOrder[q] \in Seq(Instance)
  BY DEF CommitmentsTyped
<1>2. /\ deliveryOrder'[p] = Append(deliveryOrder[p], i)
      /\ \A q \in Correct : q # p => deliveryOrder'[q] = deliveryOrder[q]
  BY DEF CommitmentsTyped
<1>3. ASSUME NEW q \in Correct, NEW k \in DOMAIN deliveryOrder[q]
      PROVE  /\ k \in DOMAIN deliveryOrder'[q] /\ deliveryOrder'[q][k] = deliveryOrder[q][k]
             /\ Len(deliveryOrder[q]) <= Len(deliveryOrder'[q])
  <2>1. CASE q = p
    BY <1>1, <1>2, <2>1
  <2>2. CASE q # p
    BY <1>1, <1>2, <2>2
  <2>3. QED
    BY <2>1, <2>2
<1>4. QED
  BY <1>2, <1>3 DEF OrdersGrow

LEMMA StepGrows ==
    ASSUME Inv, CommitmentsTyped, [Next]_vars
    PROVE  Grows
<1>1. CASE deliveryOrder' = deliveryOrder /\ commitmentReceived' = commitmentReceived
  BY <1>1 DEF Grows, OrdersGrow, CommitmentsTyped
<1>2. ASSUME NEW p \in Correct, NEW v \in Value, Broadcast(p, v)
      PROVE  Grows
  BY <1>1, <1>2 DEF Broadcast, commitmentVars
<1>3. ASSUME NEW p \in Correct, NEW q \in Proc, NEW s \in BroadcastStages,
             NEW i \in Instance, NEW v \in Value, NEW c \in Content,
             Receives(p, q, s, i, v, c)
      PROVE  Grows
  <2>1. CASE \E x, msgs : Update(p, i, x, msgs)
    BY <1>1, <2>1 DEF Update, commitmentVars
  <2>2. CASE \E y \in MessageState : Deliver(p, i, v, c, y)
    <3>1. /\ deliveryOrder' = [deliveryOrder EXCEPT ![p] = Append(@, i)]
          /\ commitmentReceived' = commitmentReceived
      BY <2>2, Zenon DEF Deliver
    <3>2. QED
      BY <3>1, OrderExtended DEF Grows
  <2>3. QED
    BY <1>3, <2>1, <2>2, UpdatesOrDelivers
<1>4. ASSUME NEW p \in Correct, NEW m, HandleCommitment(p, m)
      PROVE  Grows
  <2>1. /\ commitmentReceived' = [commitmentReceived EXCEPT ![p] = @ \cup {m}]
        /\ deliveryOrder' = deliveryOrder
    BY <1>4 DEF HandleCommitment
  <2>2. QED
    BY <2>1 DEF Grows, OrdersGrow, CommitmentsTyped
<1>5. CASE UNCHANGED vars
  BY <1>1, <1>5 DEF vars, commitmentVars
<1>6. QED
  BY <1>2, <1>3, <1>4, <1>5, NextSteps DEF Inv

\* What is mixed stays mixed.
LEMMA MixedMonotone ==
    ASSUME CommitmentsTyped, CommitmentsTyped', Grows,
           NEW p \in Correct, NEW i, MixedOnTop(p, i)
    PROVE  MixedOnTop(p, i)'
<1>1. PICK k \in DOMAIN deliveryOrder[p] :
         deliveryOrder[p][k] = i /\ Len(deliveryOrder[p]) >= k + MixingTime
  BY DEF MixedOnTop, Deliveries
<1>2. /\ k \in DOMAIN deliveryOrder'[p] /\ deliveryOrder'[p][k] = i
      /\ Len(deliveryOrder[p]) <= Len(deliveryOrder'[p])
  BY <1>1 DEF Grows, OrdersGrow
<1>3. /\ Len(deliveryOrder[p]) \in Nat /\ Len(deliveryOrder'[p]) \in Nat
      /\ k \in Nat /\ MixingTime \in Nat
  BY ParameterAssumption DEF CommitmentsTyped
<1>4. Len(deliveryOrder'[p]) >= k + MixingTime
  BY <1>1, <1>2, <1>3
<1>5. QED
  BY <1>2, <1>4 DEF MixedOnTop, Deliveries

LEMMA MixedByManyMonotone ==
    ASSUME CommitmentsTyped, CommitmentsTyped', Grows, NEW i, MixedByMany(i)
    PROVE  MixedByMany(i)'
<1> DEFINE A == {q \in Correct : MixedOnTop(q, i)}
           B == {q \in Correct : MixedOnTop(q, i)'}
<1>1. A \subseteq B
  BY MixedMonotone
<1>2. A \in SUBSET Proc /\ B \in SUBSET Proc
  BY DEF Correct
<1>3. Cardinality(A) >= F + 1
  BY DEF MixedByMany
<1> HIDE DEF A, B
<1>4. Cardinality(A) <= Cardinality(B)
  BY <1>1, <1>2, SubsetCardinality
<1>5. Cardinality(B) >= F + 1
  BY <1>2, <1>3, <1>4, ProcSubset, Thresholds
<1>6. QED
  BY <1>5 DEF MixedByMany, B

\* So what was justified stays so.
LEMMA JustifiedMonotone ==
    ASSUME CommitmentsTyped, CommitmentsTyped', Grows
    PROVE  /\ \A m : Justified(m) => Justified(m)'
           /\ \A r, i : RevealBacked(r, i) => RevealBacked(r, i)'
<1>1. ASSUME NEW i
      PROVE  MayReveal(i) \subseteq MayReveal(i)'
  BY MixedMonotone DEF MayReveal
<1>2. ASSUME NEW i, Misled(i)
      PROVE  Misled(i)'
  BY <1>2 DEF Misled, Grows
<1>3. ASSUME NEW i, NEW x, GivenAway(i, x)
      PROVE  GivenAway(i, x)'
  BY <1>3 DEF GivenAway, Grows
<1>4. ASSUME NEW m, Justified(m)
      PROVE  Justified(m)'
  <2>1. m.stage = "REVEAL" => m.from \in MayReveal(m.inst)'
    BY <1>1, <1>4 DEF Justified
  <2>2. m.stage = "DONE" => MixedByMany(m.inst)' \/ GivenAway(m.inst, m.data)'
    BY <1>3, <1>4, MixedByManyMonotone DEF Justified
  <2>3. m.inst \in Untampered => Truthful(m) \/ Misled(m.inst)'
    BY <1>2, <1>4 DEF Justified
  <2>4. QED
    BY <2>1, <2>2, <2>3 DEF Justified, Untampered, Authentic, Truthful
<1>5. ASSUME NEW r, NEW i, RevealBacked(r, i)
      PROVE  RevealBacked(r, i)'
  <2>1. RevealFrom(r.decryptedShares) \subseteq MayReveal(i)'
    BY <1>1, <1>5 DEF RevealBacked
  <2>2. i \in Untampered =>
           r.decryptedShares \subseteq SharesOf(Sample[i.author]) \/ Misled(i)'
    BY <1>2, <1>5 DEF RevealBacked
  <2>3. \A k \in DOMAIN r.pending : r.pending[k].inst = i /\ Justified(r.pending[k])'
    BY <1>4, <1>5 DEF RevealBacked
  <2>4. QED
    BY <2>1, <2>2, <2>3 DEF RevealBacked, RevealFrom, Untampered, Authentic, SharesOf
<1>6. QED
  BY <1>4, <1>5

-----------------------------------------------------------------------------
(* The hash and the shares that messages carry *)

LEMMA HashOnlyIs ==
    ASSUME NEW h, NEW e, NEW c, c = [xHash |-> h, encryptedShares |-> e]
    PROVE  HashOnly(c) = [xHash |-> h, encryptedShares |-> NoShares]
<1> DEFINE y == [xHash |-> h, encryptedShares |-> NoShares]
<1>1. c.xHash = h /\ DOMAIN c = {"xHash", "encryptedShares"}
  OBVIOUS
<1>2. DOMAIN y = DOMAIN c /\ y.xHash = h /\ y.encryptedShares = NoShares
  BY <1>1
<1>3. HashOnly(c) = [f \in DOMAIN c |-> IF f = "encryptedShares" THEN NoShares ELSE c[f]]
  BY DEF HashOnly
<1>4. y = [f \in {"xHash", "encryptedShares"} |->
              IF f = "encryptedShares" THEN NoShares ELSE c[f]]
  BY <1>1, <1>2
<1>5. QED
  BY <1>1, <1>3, <1>4

\* In an untampered instance a message that arrives carries the author's own.
LEMMA ArrivesFitting ==
    ASSUME ContentGenuine, sent \subseteq Message, NEW i \in Untampered, NEW q, NEW s,
           NEW v, NEW c, Arrives(q, s, i, v, c)
    PROVE  Fits(c, i)
<1>1. CASE \E m \in sent : m.inst = i /\ m.content = c
  BY <1>1 DEF ContentGenuine
<1>2. CASE /\ q \in Faulty /\ <<s, i.author>> \in FaultyMessages
           /\ \E d \in FaultyContent[i.author] : c = IF CarriesShares(s) THEN d ELSE HashOnly(d)
  <2>1. ~CarriesShares(s)
    BY <1>2 DEF Untampered, Authentic, CarriesShares
  <2>2. PICK d \in FaultyContent[i.author] : c = HashOnly(d)
    BY <1>2, <2>1
  <2>3. i.author \in Proc
    BY BoundAssumption DEF Untampered, Authentic, Instance
  <2>4. d \in Content /\ d.xHash = Hash[Sample[i.author]]
    BY <2>3, SecretAssumption DEF Untampered
  <2>5. HashOnly(d) = [xHash |-> Hash[Sample[i.author]], encryptedShares |-> NoShares]
    <3>1. d = [xHash |-> Hash[Sample[i.author]], encryptedShares |-> d.encryptedShares]
      BY <2>4 DEF Content
    <3>2. QED
      BY <3>1, HashOnlyIs
  <2>6. HashOnly(Genuine(i.author)) =
           [xHash |-> Hash[Sample[i.author]], encryptedShares |-> NoShares]
    BY HashOnlyIs DEF Genuine
  <2>7. QED
    BY <2>2, <2>5, <2>6 DEF Fits
<1>3. QED
  BY <1>1, <1>2 DEF Arrives

LEMMA FittingContent ==
    ASSUME NEW i, NEW c, Fits(c, i)
    PROVE  /\ Fits(HashOnly(c), i) /\ c.xHash = Hash[Sample[i.author]]
           /\ \A p \in Proc : c.encryptedShares[p] \in {None, Genuine(i.author).encryptedShares[p]}
<1> DEFINE G == Genuine(i.author)
<1>1. G = [xHash |-> Hash[Sample[i.author]], encryptedShares |-> G.encryptedShares]
  BY DEF Genuine
<1> HIDE DEF G
<1>2. /\ HashOnly(G) = [xHash |-> Hash[Sample[i.author]], encryptedShares |-> NoShares]
      /\ HashOnly(HashOnly(G)) = HashOnly(G)
  BY <1>1, HashOnlyIs
<1>3. \A p \in Proc : NoShares[p] = None
  BY DEF NoShares
<1>4. QED
  BY <1>1, <1>2, <1>3 DEF Fits, G

LEMMA HandlesContent ==
    ASSUME Inv, CommitmentsTyped, ContentGenuine, NEW p \in Correct, NEW i \in Instance,
           NEW v, NEW c, NEW x, NEW msgs,
           Handles(p, i, v, c, RegisterMessage(p, i), x, msgs),
           i \in Untampered => Fits(c, i)
    PROVE  ContentGenuine'
<1> DEFINE ms == RegisterMessage(p, i)
<1>1. /\ Outcome(p, i, v, c, ms, x, msgs) /\ sent' = sent \cup msgs
      /\ x.ownEncryptedShare \in {ms.ownEncryptedShare, c.encryptedShares[p]}
  BY DEF Handles, Outcome
<1>2. i \in Untampered => ms.ownEncryptedShare \in {None, Genuine(i.author).encryptedShares[p]}
  BY DEF RegisterMessage, NewMessageState, ContentGenuine
<1> HIDE DEF ms
<1>3. ASSUME NEW m \in sent', m.inst \in Untampered
      PROVE  Fits(m.content, m.inst)
  <2>1. CASE m \in sent
    BY <1>3, <2>1 DEF ContentGenuine
  <2>2. CASE m \in msgs
    <3>1. m.inst = i /\ m.content \in {c, HashOnly(c)}
      BY <1>1, <2>2 DEF Outcome
    <3>2. QED
      BY <1>3, <2>2, <3>1, FittingContent
  <2>3. QED
    BY <1>1, <2>1, <2>2
<1>4. i \in Untampered => x.ownEncryptedShare \in {None, Genuine(i.author).encryptedShares[p]}
  BY <1>1, <1>2, FittingContent DEF Correct, ms
<1>5. ASSUME NEW q \in Correct, NEW j \in Untampered
      PROVE  /\ messagesLog'[q][j] # NoState =>
                   messagesLog'[q][j].ownEncryptedShare \in
                      {None, Genuine(j.author).encryptedShares[q]}
             /\ deliveredMessages'[q][j] # None =>
                   deliveredXHash'[q][j] = Hash[Sample[j.author]]
  <2>1. j \in Instance
    BY DEF Untampered, Authentic
  <2>2. messagesLog'[q][j] = messagesLog[q][j] \/ messagesLog'[q][j] = NoState
        \/ (q = p /\ j = i /\ messagesLog'[q][j] = x)
    BY <2>1 DEF Handles, Inv, Typed, LogType
  <2>3. messagesLog[q][j] # NoState =>
           messagesLog[q][j].ownEncryptedShare \in {None, Genuine(j.author).encryptedShares[q]}
    BY DEF ContentGenuine
  <2>4. CASE deliveredMessages' = deliveredMessages /\ deliveredXHash' = deliveredXHash
    BY <1>4, <2>2, <2>3, <2>4 DEF ContentGenuine, Delivered
  <2>5. CASE /\ v \in Value
             /\ deliveredMessages' = [deliveredMessages EXCEPT ![p][i] = v]
             /\ deliveredXHash' = [deliveredXHash EXCEPT ![p][i] = c.xHash]
    <3>1. CASE q = p /\ j = i
      <4>1. deliveredXHash'[p][i] = c.xHash
        BY <2>5 DEF CommitmentsTyped
      <4>2. QED
        BY <1>4, <2>2, <2>3, <3>1, <4>1, FittingContent
    <3>2. CASE ~(q = p /\ j = i)
      <4>1. /\ deliveredMessages'[q][j] = deliveredMessages[q][j]
            /\ deliveredXHash'[q][j] = deliveredXHash[q][j]
        BY <2>1, <2>5, <3>2 DEF Inv, Typed, DeliveredType, CommitmentsTyped
      <4>2. QED
        BY <1>4, <2>2, <2>3, <4>1 DEF ContentGenuine, Delivered
    <3>3. QED
      BY <3>1, <3>2
  <2>6. QED
    BY <2>4, <2>5 DEF Handles
<1>6. QED
  BY <1>3, <1>5 DEF ContentGenuine, Delivered, Fits, Untampered, Authentic, Genuine, HashOnly,
     NoShares

LEMMA ContentNext ==
    ASSUME Inv, CommitmentsTyped, ContentGenuine, [Next]_vars
    PROVE  ContentGenuine'
<1>1. ASSUME NEW p \in Correct, NEW v \in Value, Broadcast(p, v)
      PROVE  ContentGenuine'
  <2>1. PICK i \in Instance, x \in MessageState, n \in Message : Begins(p, v, i, x, n)
    BY <1>1, BroadcastShape
  <2>2. /\ i.author = p /\ n.inst = i /\ n.content = Genuine(p)
        /\ x.ownEncryptedShare = None /\ sent' = sent \cup {n}
        /\ deliveredMessages' = deliveredMessages /\ deliveredXHash' = deliveredXHash
        /\ messagesLog' = [messagesLog EXCEPT ![p][i] = x]
    BY <2>1 DEF Begins
  <2>3. \A m \in sent' : m.inst \in Untampered => Fits(m.content, m.inst)
    BY <2>2 DEF ContentGenuine, Fits
  <2>4. ASSUME NEW q \in Correct, NEW j \in Untampered, messagesLog'[q][j] # NoState
        PROVE  messagesLog'[q][j].ownEncryptedShare \in
                  {None, Genuine(j.author).encryptedShares[q]}
    <3>1. j \in Instance
      BY DEF Untampered, Authentic
    <3>2. (q = p /\ j = i /\ messagesLog'[q][j] = x) \/ messagesLog'[q][j] = messagesLog[q][j]
      BY <2>2, <3>1, EntryReplaced DEF Inv, Typed, LogType
    <3>3. QED
      BY <2>2, <2>4, <3>2 DEF ContentGenuine
  <2>5. ASSUME NEW q \in Correct, NEW j \in Untampered, deliveredMessages'[q][j] # None
        PROVE  deliveredXHash'[q][j] = Hash[Sample[j.author]]
    BY <2>2, <2>5 DEF ContentGenuine, Delivered
  <2>6. ASSUME NEW q \in Correct, NEW j \in Untampered
        PROVE  /\ messagesLog'[q][j] # NoState =>
                     messagesLog'[q][j].ownEncryptedShare \in
                        {None, Genuine(j.author).encryptedShares[q]}
               /\ deliveredMessages'[q][j] # None =>
                     deliveredXHash'[q][j] = Hash[Sample[j.author]]
    BY <2>4, <2>5
  <2>7. QED
    BY <2>3, <2>6, Zenon
    DEF ContentGenuine, Delivered, Fits, Untampered, Authentic, Genuine, HashOnly, NoShares
<1>2. ASSUME NEW p \in Correct, NEW q \in Proc, NEW s \in BroadcastStages,
             NEW i \in Instance, NEW v \in Value, NEW c \in Content,
             Receives(p, q, s, i, v, c)
      PROVE  ContentGenuine'
  <2>1. i \in Untampered => Fits(c, i)
    BY <1>2, ArrivesFitting DEF Receives, Inv, Typed
  <2>2. \E x, msgs : Handles(p, i, v, c, RegisterMessage(p, i), x, msgs)
    BY <1>2, ReliableHandles
  <2>3. QED
    BY <2>1, <2>2, HandlesContent
<1>3. ASSUME NEW p \in Correct, NEW m \in commitmentSent \cup FaultyCommitments,
             HandleCommitment(p, m)
      PROVE  ContentGenuine'
  <2>1. m.inst \in Instance
    BY CommitmentArrives
  <2>2. PICK c : c = Genuine(m.inst.author)
    OBVIOUS
  <2>3. \E x : Handles(p, m.inst, None, c, RegisterMessage(p, m.inst), x, {})
    BY <1>3, <2>1, CommitmentHandles
  <2>4. Fits(c, m.inst)
    BY <2>2 DEF Fits
  <2>5. QED
    BY <2>1, <2>3, <2>4, HandlesContent
<1>4. CASE UNCHANGED vars
  BY <1>4 DEF vars, commitmentVars, ContentGenuine, Delivered, Fits, Untampered, Authentic,
     Genuine, HashOnly, NoShares
<1>5. QED
  BY <1>1, <1>2, <1>3, <1>4, NextSteps DEF Inv

-----------------------------------------------------------------------------
(* What a step keeps *)

Phase == Inv /\ CommitmentsTyped /\ RevealInv
Advance == Phase /\ Inv' /\ CommitmentsTyped' /\ ContentGenuine' /\ Grows

\* A step of p for instance i leaves reveal as its reveal state and says what is
\* justified; it delivers i at most, and commits i only once it is mixed.
RevealStep(p, i, reveal) ==
    /\ revealLog' = [revealLog EXCEPT ![p][i] = reveal]
    /\ reveal \in RevealState /\ RevealBacked(reveal, i)'
    /\ reveal.pending # <<>> => deliveredMessages'[p][i] = None
    /\ \A m \in commitmentSent' : m \in commitmentSent \/ Justified(m)'
    /\ \/ deliveryOrder' = deliveryOrder /\ deliveredMessages' = deliveredMessages
       \/ /\ deliveryOrder' = [deliveryOrder EXCEPT ![p] = Append(@, i)]
          /\ \E v \in Value : deliveredMessages' = [deliveredMessages EXCEPT ![p][i] = v]
    /\ \/ finallyCommittedMessages' = finallyCommittedMessages
       \/ /\ finallyCommittedMessages' = [finallyCommittedMessages EXCEPT ![p] = @ \cup {i}]
          /\ deliveredMessages'[p][i] # None /\ MixedOnTop(p, i)'

LEMMA StepShape ==
    ASSUME Advance, NEW p \in Correct, NEW i \in Instance, NEW reveal,
           RevealStep(p, i, reveal)
    PROVE  /\ revealLog'[p][i] = reveal
           /\ \A q \in Correct, j \in Instance : <<q, j>> # <<p, i>> =>
                 /\ revealLog'[q][j] = revealLog[q][j]
                 /\ deliveredMessages'[q][j] = deliveredMessages[q][j]
           /\ deliveredMessages'[p][i] # deliveredMessages[p][i] =>
                 deliveryOrder'[p] = Append(deliveryOrder[p], i)
           /\ deliveredMessages[p][i] # None => deliveredMessages'[p][i] # None
<1>1. /\ revealLog \in [Correct -> [Instance -> RevealState]]
      /\ deliveryOrder \in [Correct -> Seq(Instance)]
      /\ deliveredMessages \in [Correct -> [Instance -> Value \cup {None}]]
  BY DEF Advance, Phase, CommitmentsTyped, Inv, Typed, DeliveredType
<1>2. /\ revealLog'[p][i] = reveal
      /\ \A q \in Correct, j \in Instance :
            <<q, j>> # <<p, i>> => revealLog'[q][j] = revealLog[q][j]
  BY <1>1, EntryReplaced DEF RevealStep
<1>3. CASE deliveryOrder' = deliveryOrder /\ deliveredMessages' = deliveredMessages
  BY <1>2, <1>3
<1>4. CASE /\ deliveryOrder' = [deliveryOrder EXCEPT ![p] = Append(@, i)]
           /\ \E v \in Value : deliveredMessages' = [deliveredMessages EXCEPT ![p][i] = v]
  <2>1. PICK v \in Value : deliveredMessages' = [deliveredMessages EXCEPT ![p][i] = v]
    BY <1>4
  <2>2. /\ deliveredMessages'[p][i] = v
        /\ \A q \in Correct, j \in Instance :
              <<q, j>> # <<p, i>> => deliveredMessages'[q][j] = deliveredMessages[q][j]
    BY <1>1, <2>1, EntryReplaced
  <2>3. deliveryOrder'[p] = Append(deliveryOrder[p], i)
    BY <1>1, <1>4
  <2>4. QED
    BY <1>2, <2>2, <2>3, ValueAssumption
<1>5. QED
  BY <1>3, <1>4 DEF RevealStep

LEMMA StepKeepsPending ==
    ASSUME Advance, NEW p \in Correct, NEW i \in Instance, NEW reveal,
           RevealStep(p, i, reveal)
    PROVE  PendingOnlyBeforeDelivery'
<1> SUFFICES ASSUME NEW q \in Correct, NEW j \in Instance,
                    revealLog'[q][j].pending # <<>>
             PROVE  deliveredMessages'[q][j] = None
  BY DEF PendingOnlyBeforeDelivery, Delivered
<1>1. CASE <<q, j>> = <<p, i>>
  <2>1. q = p /\ j = i /\ revealLog'[p][i] = reveal
    BY <1>1, StepShape
  <2>2. QED
    BY <2>1 DEF RevealStep
<1>2. CASE <<q, j>> # <<p, i>>
  BY <1>2, StepShape DEF Advance, Phase, RevealInv, PendingOnlyBeforeDelivery, Delivered
<1>3. QED
  BY <1>1, <1>2

LEMMA StepKeepsOrder ==
    ASSUME Advance, NEW p \in Correct, NEW i \in Instance, NEW reveal,
           RevealStep(p, i, reveal)
    PROVE  DeliveryOrdered'
<1> SUFFICES ASSUME NEW q \in Correct, NEW j \in Instance,
                    deliveredMessages'[q][j] # None
             PROVE  \E k \in DOMAIN deliveryOrder'[q] : deliveryOrder'[q][k] = j
  BY DEF DeliveryOrdered, Delivered, Deliveries
<1>1. CASE deliveredMessages'[q][j] = deliveredMessages[q][j]
  <2>1. PICK k \in DOMAIN deliveryOrder[q] : deliveryOrder[q][k] = j
    BY <1>1 DEF Advance, Phase, RevealInv, DeliveryOrdered, Delivered, Deliveries
  <2>2. QED
    BY <2>1 DEF Advance, Grows, OrdersGrow
<1>2. CASE deliveredMessages'[q][j] # deliveredMessages[q][j]
  <2>1. q = p /\ j = i /\ deliveryOrder'[p] = Append(deliveryOrder[p], i)
    BY <1>2, StepShape
  <2>2. deliveryOrder[p] \in Seq(Instance)
    BY DEF Advance, Phase, CommitmentsTyped
  <2>3. QED
    BY <2>1, <2>2
<1>3. QED
  BY <1>1, <1>2

LEMMA StepKeepsCommits ==
    ASSUME Advance, NEW p \in Correct, NEW i \in Instance, NEW reveal,
           RevealStep(p, i, reveal)
    PROVE  CommitAfterMixing'
<1> SUFFICES ASSUME NEW q \in Correct, NEW j \in finallyCommittedMessages'[q]
             PROVE  deliveredMessages'[q][j] # None /\ MixedOnTop(q, j)'
  BY DEF CommitAfterMixing, Delivered
<1>1. finallyCommittedMessages \in [Correct -> SUBSET Instance]
  BY DEF Advance, Phase, Inv, Typed
<1>2. CASE j \in finallyCommittedMessages[q]
  <2>1. deliveredMessages[q][j] # None /\ MixedOnTop(q, j) /\ j \in Instance
    BY <1>1, <1>2 DEF Advance, Phase, RevealInv, CommitAfterMixing, Delivered
  <2>2. MixedOnTop(q, j)'
    BY <2>1, MixedMonotone DEF Advance, Phase
  <2>3. deliveredMessages'[q][j] # None
    BY <2>1, StepShape
  <2>4. QED
    BY <2>2, <2>3
<1>3. CASE j \notin finallyCommittedMessages[q]
  <2>1. /\ q = p /\ j = i
        /\ deliveredMessages'[p][i] # None /\ MixedOnTop(p, i)'
    BY <1>1, <1>3 DEF RevealStep
  <2>2. QED
    BY <2>1
<1>4. QED
  BY <1>2, <1>3

LEMMA StepKeepsJustified ==
    ASSUME Advance, NEW p \in Correct, NEW i \in Instance, NEW reveal,
           RevealStep(p, i, reveal)
    PROVE  /\ AllJustified'
           /\ (\A q \in Correct, j \in Instance : RevealBacked(revealLog[q][j], j))'
<1>1. /\ \A m : Justified(m) => Justified(m)'
      /\ \A r, j : RevealBacked(r, j) => RevealBacked(r, j)'
  BY JustifiedMonotone DEF Advance, Phase
<1>2. AllJustified'
  BY <1>1 DEF Advance, Phase, RevealInv, AllJustified, RevealStep
<1>3. ASSUME NEW q \in Correct, NEW j \in Instance, NEW r, r = revealLog'[q][j]
      PROVE  RevealBacked(r, j)'
  <2>1. CASE <<q, j>> = <<p, i>>
    <3>1. j = i /\ r = reveal
      BY <1>3, <2>1, StepShape
    <3>2. QED
      BY <3>1 DEF RevealStep
  <2>2. CASE <<q, j>> # <<p, i>>
    <3>1. r = revealLog[q][j]
      BY <1>3, <2>2, StepShape
    <3>2. QED
      BY <1>1, <3>1 DEF Advance, Phase, RevealInv
  <2>3. QED
    BY <2>1, <2>2
<1>4. ASSUME NEW q \in Correct, NEW j \in Instance
      PROVE  RevealBacked(revealLog[q][j], j)'
  BY <1>3 DEF RevealBacked
<1>5. QED
  BY <1>2, <1>4

LEMMA StepKeeps ==
    ASSUME Advance, NEW p \in Correct, NEW i \in Instance, NEW reveal,
           RevealStep(p, i, reveal)
    PROVE  RevealInv'
BY StepKeepsPending, StepKeepsOrder, StepKeepsCommits, StepKeepsJustified
DEF RevealInv, Advance
-----------------------------------------------------------------------------
(* The steps of the reveal phase *)

LEMMA NewBacked ==
    ASSUME NEW i, NEW r, r = NewRevealState
    PROVE  r \in RevealState /\ RevealBacked(r, i)' /\ r.pending = <<>>
<1>1. r \in RevealState /\ r.pending = <<>> /\ r.decryptedShares = {}
  BY NewReveal
<1>2. RevealFrom(r.decryptedShares) = {}
  BY <1>1 DEF RevealFrom
<1>3. QED
  BY <1>1, <1>2 DEF RevealBacked, RevealFrom

\* What a handler finds: shares and waiting messages that are allowed.
LEMMA HeldAllowed ==
    ASSUME Advance, NEW p \in Correct, NEW i \in Instance, NEW r, r = revealLog[p][i]
    PROVE  /\ r \in RevealState /\ r.pending \in Seq(Commitments) /\ RevealBacked(r, i)'
           /\ r.decryptedShares \subseteq AllowedShares(i)'
           /\ \A k \in DOMAIN r.pending : Allows(r.pending[k], i)'
<1>1. r \in RevealState /\ r.pending \in Seq(Commitments)
  BY DEF Advance, Phase, CommitmentsTyped
<1>2. RevealBacked(r, i)'
  <2>1. RevealBacked(r, i)
    BY DEF Advance, Phase, RevealInv
  <2>2. QED
    BY <2>1, JustifiedMonotone DEF Advance, Phase
<1>3. r.decryptedShares \subseteq AllowedShares(i)'
  <2>1. r.decryptedShares \in SUBSET (Proc \X Share)
    BY <1>1 DEF RevealState
  <2>2. /\ RevealFrom(r.decryptedShares) \subseteq MayReveal(i)'
        /\ i \in Untampered =>
              r.decryptedShares \subseteq SharesOf(Sample[i.author]) \/ Misled(i)'
    BY <1>2 DEF RevealBacked, RevealFrom, Untampered, Authentic, SharesOf
  <2>3. QED
    BY <2>1, <2>2, SharesAllowed
<1>4. ASSUME NEW k \in DOMAIN r.pending, NEW m, m = r.pending[k]
      PROVE  Allows(m, i)'
  <2>1. m \in Commitments
    BY <1>1, <1>4
  <2>2. m.inst = i /\ Justified(m)'
    BY <1>2, <1>4 DEF RevealBacked
  <2>3. QED
    BY <2>1, <2>2, JustifiedAllowed
<1>5. QED
  BY <1>1, <1>2, <1>3, <1>4

\* What a work state leaves as the reveal state.
LEMMA WorkEnds ==
    ASSUME NEW i \in Instance, NEW A, A = AllowedShares(i)', NEW D, NEW fails, NEW h, NEW mixed,
           NEW st \in WorkStates(A, D, fails, h, mixed, <<>>),
           NEW r, r = IF st.committed THEN NewRevealState ELSE st.reveal
    PROVE  r \in RevealState /\ RevealBacked(r, i)' /\ r.pending = <<>>
<1>1. CASE st.committed
  BY <1>1, NewBacked
<1>2. CASE ~st.committed
  <2>1. /\ r \in RevealState /\ r.pending = <<>>
        /\ r.decryptedShares \subseteq AllowedShares(i)'
    BY <1>2 DEF WorkStates
  <2>2. r.decryptedShares \in SUBSET (Proc \X Share)
    BY <2>1 DEF RevealState
  <2>3. /\ RevealFrom(r.decryptedShares) \subseteq MayReveal(i)'
        /\ i \in Untampered =>
              r.decryptedShares \subseteq SharesOf(Sample[i.author]) \/ Misled(i)'
    BY <2>1, <2>2, SharesAllowed
  <2>4. QED
    BY <2>1, <2>3 DEF RevealBacked, RevealFrom, Untampered, Authentic, SharesOf
<1>3. QED
  BY <1>1, <1>2

\* What a work state announces.
LEMMA WorkAnnounces ==
    ASSUME NEW p \in Correct, NEW i \in Instance, NEW ms \in MessageState, NEW A,
           NEW D \in SUBSET Secret, NEW fails, NEW h, NEW mixed,
           NEW st \in WorkStates(A, D, fails, h, mixed, <<>>),
           NEW m \in Announcements(p, i, ms, st.announced)
    PROVE  /\ m \in Commitments /\ m.inst = i
           /\ \/ m.stage = "DONE" /\ m.data \in D
              \/ m.stage = "FAILED" /\ fails
<1>1. ms.potWitnessSet \in SUBSET Proc /\ p \in Proc
  BY DEF MessageState, Correct
<1>2. PICK announced \in SUBSET Sayable(D, fails, h) : announced = st.announced
  BY DEF WorkStates
<1>3. m \in Announcements(p, i, ms, announced)
  BY <1>2
<1>4. QED
  BY <1>1, <1>3, AnnouncementsTyped

LEMMA WorkSays ==
    ASSUME NEW p \in Correct, NEW i \in Instance, NEW ms \in MessageState, NEW A,
           NEW D \in SUBSET Secret, D \subseteq AllowedSecrets(i)', NEW fails,
           fails => MayFail(i)', NEW h, NEW mixed,
           NEW st \in WorkStates(A, D, fails, h, mixed, <<>>),
           NEW m \in Announcements(p, i, ms, st.announced)
    PROVE  Justified(m)'
<1>1. /\ m \in Commitments /\ m.inst = i
      /\ \/ m.stage = "DONE" /\ m.data \in D
         \/ m.stage = "FAILED" /\ fails
  BY WorkAnnounces
<1>2. Allows(m, m.inst)'
  BY <1>1 DEF Allows, Admitted
<1>3. QED
  BY <1>1, <1>2, JustifiedAllowed

\* The own share of an untampered instance is the author's.
LEMMA OwnShare ==
    ASSUME NEW p \in Correct, NEW j \in Untampered, NEW x \in MessageState,
           x.ownEncryptedShare \in {None, Genuine(j.author).encryptedShares[p]},
           DecryptedShare(p, x) \in Share
    PROVE  DecryptedShare(p, x) = EncodeEntropy[Sample[j.author]][p]
<1>1. p \in Proc /\ j.author \in Proc
  BY BoundAssumption DEF Correct, Untampered, Authentic, Instance
<1>2. EncodeEntropy[Sample[j.author]][p] \in Share
  BY <1>1, SecretAssumption
<1>3. x # NoState /\ x.ownEncryptedShare # None
  BY NoStateIsNone, SecretAssumption DEF DecryptedShare
<1>4. x.ownEncryptedShare = Encrypt[p][EncodeEntropy[Sample[j.author]][p]]
  BY <1>1, <1>3 DEF Genuine
<1>5. DecryptedShare(p, x) = Decrypt[p][x.ownEncryptedShare]
  BY <1>3 DEF DecryptedShare
<1>6. QED
  BY <1>1, <1>2, <1>4, <1>5, SecretAssumption

LEMMA DeliverStep ==
    ASSUME Advance, NEW p \in Correct, NEW i \in Instance, NEW v \in Value,
           NEW c \in Content, i \in Untampered => Fits(c, i),
           NEW ms \in MessageState, Deliver(p, i, v, c, ms),
           i \in Untampered => ms.ownEncryptedShare \in {None, Genuine(i.author).encryptedShares[p]}
    PROVE  \E reveal : RevealStep(p, i, reveal)
<1> DEFINE order == Append(deliveryOrder[p], i)
           st == Replay(p, i, ms, c.xHash)
<1>1. /\ deliveredMessages' = [deliveredMessages EXCEPT ![p][i] = v]
      /\ deliveryOrder' = [deliveryOrder EXCEPT ![p] = order]
      /\ revealLog' = [revealLog EXCEPT ![p][i] =
                          IF st.committed THEN NewRevealState ELSE st.reveal]
      /\ finallyCommittedMessages' =
            [finallyCommittedMessages EXCEPT ![p] = IF st.committed THEN @ \cup {i} ELSE @]
  BY Zenon DEF Deliver
<1>2. st \in WorkStates(AllowedShares(i)', AllowedSecrets(i)', MayFail(i)', c.xHash,
                        MixingTime = 0, <<>>)
  <2>1. ASSUME NEW A, A = AllowedShares(i)', NEW D, D = AllowedSecrets(i)',
               NEW fails, fails = MayFail(i)', NEW r, r = revealLog[p][i]
        PROVE  st \in WorkStates(A, D, fails, c.xHash, MixingTime = 0, <<>>)
    <3>1. /\ r \in RevealState /\ r.pending \in Seq(Commitments)
          /\ r.decryptedShares \subseteq A
          /\ \A k \in DOMAIN r.pending : Admitted(r.pending[k], A, D, fails)
      BY <2>1, HeldAllowed DEF Allows
    <3>2. Conclusive(A, D, fails, c.xHash)
      BY <2>1, FittingContent, AllowedConclusive
    <3>3. QED
      BY <2>1, <3>1, <3>2, ReplayKeeps
  <2>2. QED
    BY <2>1
<1>3. /\ order \in Seq(Instance) /\ order[Len(order)] = i
      /\ Len(order) \in DOMAIN order /\ MixingTime \in Nat
  <2>1. deliveryOrder[p] \in Seq(Instance)
    BY DEF Advance, Phase, CommitmentsTyped
  <2>2. QED
    BY <2>1, ParameterAssumption
<1>4. deliveryOrder'[p] = order
  BY <1>1 DEF Advance, Phase, CommitmentsTyped
<1> HIDE DEF st
<1>5. ASSUME NEW r, r = IF st.committed THEN NewRevealState ELSE st.reveal
      PROVE  r \in RevealState /\ RevealBacked(r, i)' /\ r.pending = <<>>
  BY <1>2, <1>5, WorkEnds
<1>6. st.committed => MixedOnTop(p, i)'
  <2>1. st.committed => MixingTime = 0
    BY <1>2 DEF WorkStates
  <2> HIDE DEF order
  <2>2. SUFFICES ASSUME MixingTime = 0
                 PROVE  MixedOnTop(p, i)'
    BY <2>1
  <2>3. Len(order) >= Len(order) + MixingTime
    BY <1>3, <2>2
  <2>4. QED
    BY <1>3, <1>4, <2>3 DEF MixedOnTop, Deliveries
<1>7. ASSUME NEW m \in commitmentSent', m \notin commitmentSent
      PROVE  Justified(m)'
  <2>1. CASE m \in Announcements(p, i, ms, st.announced)
    <3>1. PICK A, D : A = AllowedShares(i)' /\ D = AllowedSecrets(i)' /\ D \in SUBSET Secret
      BY DEF AllowedSecrets
    <3>2. PICK fails : fails = MayFail(i)'
      OBVIOUS
    <3>3. st \in WorkStates(A, D, fails, c.xHash, MixingTime = 0, <<>>)
      BY <1>2, <3>1, <3>2
    <3>4. D \subseteq AllowedSecrets(i)' /\ (fails => MayFail(i)')
      BY <3>1, <3>2
    <3>5. QED
      BY <2>1, <3>1, <3>3, <3>4, WorkSays
  <2>2. CASE m \notin Announcements(p, i, ms, st.announced)
    <3> DEFINE y == [ms EXCEPT !.stage = DeliveredStage]
    <3>1. PICK k \in DOMAIN order :
             \E x \in MessageState :
                /\ k = DueForReveal(order) /\ order[k] \in Instance
                /\ DecryptedShare(p, x) \in Share
                /\ x = IF order[k] = i THEN y ELSE messagesLog[p][order[k]]
                /\ m = Commitment(p, x.potWitnessSet, "REVEAL", order[k],
                                  "InitialRevealStage", DecryptedShare(p, x))
      BY <1>7, <2>2, DeliverReveals DEF st, Advance, Phase
    <3>2. PICK x \in MessageState :
             /\ k = DueForReveal(order) /\ order[k] \in Instance
             /\ DecryptedShare(p, x) \in Share
             /\ x = IF order[k] = i THEN y ELSE messagesLog[p][order[k]]
             /\ m = Commitment(p, x.potWitnessSet, "REVEAL", order[k],
                               "InitialRevealStage", DecryptedShare(p, x))
      BY <3>1
    <3>3. PICK j \in Instance : j = order[k]
      BY <3>2
    <3>4. y.ownEncryptedShare = ms.ownEncryptedShare
      BY DEF MessageState
    <3> HIDE DEF y
    <3>5. /\ m.from = p /\ m.stage = "REVEAL" /\ m.inst = j
          /\ m.data = DecryptedShare(p, x)
      BY <3>2, <3>3 DEF Commitment
    <3>6. MixedOnTop(p, j)'
      <4> HIDE DEF order
      <4>1. Len(order) >= k + MixingTime
        BY <1>3, <3>2 DEF DueForReveal
      <4>2. QED
        BY <1>4, <3>3, <4>1 DEF MixedOnTop, Deliveries
    <3>7. ASSUME j \in Untampered
          PROVE  m.data = EncodeEntropy[Sample[j.author]][p]
      <4>1. x.ownEncryptedShare \in {None, Genuine(j.author).encryptedShares[p]}
        <5>1. CASE j = i
          BY <3>2, <3>3, <3>4, <3>7, <5>1
        <5>2. CASE j # i
          <6>1. x = messagesLog[p][j] /\ x # NoState
            BY <3>2, <3>3, <5>2, NoStateIsNone
          <6>2. QED
            BY <3>7, <6>1 DEF Advance, Phase, RevealInv, ContentGenuine
        <5>3. QED
          BY <5>1, <5>2
      <4>2. QED
        BY <3>2, <3>5, <3>7, <4>1, OwnShare
    <3>8. p \in MayReveal(j)'
      BY <3>6 DEF MayReveal
    <3>9. j \in Untampered => Truthful(m)
      BY <3>5, <3>7 DEF Truthful
    <3>10. QED
      BY <3>5, <3>8, <3>9 DEF Justified, Untampered, Authentic, Truthful
  <2>3. QED
    BY <2>1, <2>2
<1>8. deliveredMessages'[p][i] # None
  <2>1. deliveredMessages'[p][i] = v
    BY <1>1, EntryReplaced DEF Advance, Phase, Inv, Typed, DeliveredType
  <2>2. QED
    BY <2>1, ValueAssumption
<1>9. \/ finallyCommittedMessages' = finallyCommittedMessages
      \/ /\ finallyCommittedMessages' = [finallyCommittedMessages EXCEPT ![p] = @ \cup {i}]
         /\ deliveredMessages'[p][i] # None /\ MixedOnTop(p, i)'
  <2>1. CASE st.committed
    BY <1>1, <1>6, <1>8, <2>1
  <2>2. CASE ~st.committed
    BY <1>1, <2>2 DEF Advance, Phase, Inv, Typed
  <2>3. QED
    BY <2>1, <2>2
<1>10. deliveryOrder' = [deliveryOrder EXCEPT ![p] = Append(@, i)]
  BY <1>1, Zenon DEF order
<1>11. ASSUME NEW r, r = IF st.committed THEN NewRevealState ELSE st.reveal
       PROVE  RevealStep(p, i, r)
  BY <1>1, <1>5, <1>7, <1>9, <1>10, <1>11 DEF RevealStep
<1>12. QED
  BY <1>11

LEMMA ReceivedJustified ==
    ASSUME Advance, NEW p \in Correct, NEW m \in commitmentSent \cup FaultyCommitments,
           commitmentReceived' = [commitmentReceived EXCEPT ![p] = @ \cup {m}]
    PROVE  m \in Commitments /\ m.inst \in Instance /\ Justified(m)' /\ Allows(m, m.inst)'
<1>1. m \in Commitments /\ m.inst \in Instance
  BY CommitmentArrives DEF Advance, Phase
<1>2. Justified(m)'
  <2>1. CASE m \in commitmentSent
    BY <2>1, JustifiedMonotone DEF Advance, Phase, RevealInv, AllJustified
  <2>2. CASE m \in FaultyCommitments
    <3>1. m.from \in Faulty
      BY <2>2 DEF FaultyCommitments, Commitment
    <3>2. m \in commitmentReceived'[p]
      BY DEF Advance, Phase, CommitmentsTyped
    <3>3. m.from \in MayReveal(m.inst)'
      BY <3>1 DEF MayReveal
    <3>4. m.stage = "DONE" => GivenAway(m.inst, m.data)'
      BY <3>1, <3>2 DEF GivenAway
    <3>5. Truthful(m) \/ Misled(m.inst)'
      BY <3>1, <3>2 DEF Misled, Truthful
    <3>6. QED
      BY <3>3, <3>4, <3>5 DEF Justified, Truthful
  <2>3. QED
    BY <2>1, <2>2
<1>3. QED
  BY <1>1, <1>2, JustifiedAllowed

LEMMA KeepPendingStep ==
    ASSUME Advance, NEW p \in Correct, NEW m \in commitmentSent \cup FaultyCommitments,
           commitmentReceived' = [commitmentReceived EXCEPT ![p] = @ \cup {m}], NEW ms,
           KeepPending(p, m, ms), UNCHANGED <<deliveredMessages, deliveryOrder>>
    PROVE  \E reveal : RevealStep(p, m.inst, reveal)
<1>1. PICK i \in Instance : i = m.inst
  BY ReceivedJustified
<1>2. m \in Commitments /\ m \in CommitmentMessage /\ Justified(m)'
  BY ReceivedJustified DEF Commitments
<1>3. PICK r : r = revealLog[p][i]
  OBVIOUS
<1>4. /\ r \in RevealState /\ r.pending \in Seq(Commitments)
      /\ r.pending \in Seq(CommitmentMessage) /\ RevealBacked(r, i)'
  BY <1>3, HeldAllowed DEF RevealState
<1>5. PICK r2 : r2 = [r EXCEPT !.pending = Append(@, m)]
  OBVIOUS
<1>6. /\ revealLog' = [revealLog EXCEPT ![p][i] = r2]
      /\ deliveredMessages[p][i] = None
      /\ finallyCommittedMessages' = finallyCommittedMessages
      /\ commitmentSent' = commitmentSent
  <2>1. revealLog' = [revealLog EXCEPT ![p][i].pending = Append(@, m)]
    BY <1>1 DEF KeepPending
  <2>2. QED
    BY <1>1, <1>3, <1>5, <2>1, Zenon DEF KeepPending, Delivered
<1>7. Append(r.pending, m) \in Seq(CommitmentMessage)
  BY <1>2, <1>4
<1>8. /\ r2 \in RevealState /\ r2.pending = Append(r.pending, m)
      /\ r2.decryptedShares = r.decryptedShares
  BY <1>4, <1>5, <1>7, Zenon DEF RevealState
<1>9. \A k \in DOMAIN r2.pending :
         r2.pending[k] = m \/ (k \in DOMAIN r.pending /\ r2.pending[k] = r.pending[k])
  BY <1>4, <1>8
<1>10. RevealBacked(r2, i)'
  <2>1. \A k \in DOMAIN r2.pending : r2.pending[k].inst = i /\ Justified(r2.pending[k])'
    BY <1>1, <1>2, <1>4, <1>9 DEF RevealBacked
  <2>2. QED
    BY <1>4, <1>8, <2>1 DEF RevealBacked
<1>11. RevealStep(p, i, r2)
  BY <1>6, <1>8, <1>10 DEF RevealStep
<1>12. QED
  BY <1>1, <1>11

LEMMA ReceiveCommitmentStep ==
    ASSUME Advance, NEW p \in Correct, NEW m \in commitmentSent \cup FaultyCommitments,
           commitmentReceived' = [commitmentReceived EXCEPT ![p] = @ \cup {m}],
           NEW ms \in MessageState, ReceiveCommitment(p, m, ms),
           UNCHANGED <<deliveredMessages, deliveryOrder>>
    PROVE  \E reveal : RevealStep(p, m.inst, reveal)
<1>1. PICK i \in Instance : i = m.inst
  BY ReceivedJustified
<1>2. m \in Commitments /\ Justified(m)' /\ Allows(m, i)'
  BY <1>1, ReceivedJustified
<1>3. PICK r : r = revealLog[p][i]
  OBVIOUS
<1> DEFINE h == deliveredXHash[p][i]
           st == OnCommitment(p, m, ms, h, Mixed(p, i), Before(r))
<1>4. /\ deliveredMessages[p][i] # None
      /\ revealLog' = [revealLog EXCEPT ![p][i] =
                          IF st.committed THEN NewRevealState ELSE st.reveal]
      /\ finallyCommittedMessages' =
            [finallyCommittedMessages EXCEPT ![p] = IF st.committed THEN @ \cup {i} ELSE @]
      /\ commitmentSent' = commitmentSent \cup Announcements(p, i, ms, st.announced)
  BY <1>1, <1>3, Zenon DEF ReceiveCommitment, Delivered
<1>5. /\ r \in RevealState /\ r.pending = <<>>
      /\ r.decryptedShares \subseteq AllowedShares(i)'
  BY <1>3, <1>4, HeldAllowed
  DEF Advance, Phase, RevealInv, PendingOnlyBeforeDelivery, Delivered
<1>6. i \in Untampered => h = Hash[Sample[i.author]]
  BY <1>4 DEF Advance, Phase, RevealInv, ContentGenuine, Delivered
<1>7. st \in WorkStates(AllowedShares(i)', AllowedSecrets(i)', MayFail(i)', h, Mixed(p, i), <<>>)
  <2> HIDE DEF h
  <2>1. ASSUME NEW A, A = AllowedShares(i)', NEW D, D = AllowedSecrets(i)',
               NEW fails, fails = MayFail(i)', NEW mixed, mixed = Mixed(p, i),
               NEW W, W = WorkStates(A, D, fails, h, mixed, <<>>)
        PROVE  OnCommitment(p, m, ms, h, mixed, Before(r)) \in W
    <3>1. Before(r) \in W
      BY <1>5, <2>1, BeforeWorks
    <3>2. Conclusive(A, D, fails, h)
      BY <1>6, <2>1, AllowedConclusive
    <3>3. Admitted(m, A, D, fails)
      BY <1>2, <2>1 DEF Allows
    <3>4. QED
      BY <1>2, <2>1, <3>1, <3>2, <3>3, OnCommitmentKeeps
  <2>2. QED
    BY <2>1
<1> HIDE DEF st
<1>8. ASSUME NEW x, x = IF st.committed THEN NewRevealState ELSE st.reveal
      PROVE  x \in RevealState /\ RevealBacked(x, i)' /\ x.pending = <<>>
  BY <1>7, <1>8, WorkEnds
<1>9. Mixed(p, i) => MixedOnTop(p, i)
  <2>1. deliveryOrder[p] \in Seq(Instance) /\ MixingTime \in Nat
    BY ParameterAssumption DEF Advance, Phase, CommitmentsTyped
  <2>2. Deliveries(p, i) # {} /\ Deliveries(p, i) \subseteq 1 .. Len(deliveryOrder[p])
    BY <1>4, <2>1 DEF Advance, Phase, RevealInv, DeliveryOrdered, Delivered, Deliveries
  <2>3. Checkpoint(p, i) \in Deliveries(p, i)
    <3>1. Len(deliveryOrder[p]) \in Nat
      BY <2>1
    <3>2. \E k \in Deliveries(p, i) : \A l \in Deliveries(p, i) : l <= k
      BY <2>2, <3>1, GreatestNumber
    <3>3. QED
      BY <3>2, Zenon DEF Checkpoint
  <2>4. QED
    BY <2>1, <2>2, <2>3 DEF Mixed, MixedOnTop, DeliveredMessagesCount
<1>10. st.committed => MixedOnTop(p, i)'
  <2>1. st.committed => MixedOnTop(p, i)
    BY <1>7, <1>9 DEF WorkStates
  <2>2. QED
    BY <2>1, MixedMonotone DEF Advance, Phase
<1>11. \A n \in commitmentSent' : n \in commitmentSent \/ Justified(n)'
  <2> SUFFICES ASSUME NEW n \in Announcements(p, i, ms, st.announced)
               PROVE  Justified(n)'
    BY <1>4
  <2>1. PICK A, D : A = AllowedShares(i)' /\ D = AllowedSecrets(i)' /\ D \in SUBSET Secret
    BY DEF AllowedSecrets
  <2>2. PICK fails : fails = MayFail(i)'
    OBVIOUS
  <2>3. st \in WorkStates(A, D, fails, h, Mixed(p, i), <<>>)
    BY <1>7, <2>1, <2>2
  <2>4. D \subseteq AllowedSecrets(i)' /\ (fails => MayFail(i)')
    BY <2>1, <2>2
  <2> HIDE DEF h
  <2>5. QED
    BY <2>1, <2>3, <2>4, WorkSays
<1>12. \/ finallyCommittedMessages' = finallyCommittedMessages
       \/ /\ finallyCommittedMessages' = [finallyCommittedMessages EXCEPT ![p] = @ \cup {i}]
          /\ deliveredMessages'[p][i] # None /\ MixedOnTop(p, i)'
  <2>1. CASE st.committed
    BY <1>4, <1>10, <2>1
  <2>2. CASE ~st.committed
    BY <1>4, <2>2 DEF Advance, Phase, Inv, Typed
  <2>3. QED
    BY <2>1, <2>2
<1>13. ASSUME NEW x, x = IF st.committed THEN NewRevealState ELSE st.reveal
       PROVE  RevealStep(p, i, x)
  BY <1>4, <1>8, <1>11, <1>12, <1>13 DEF RevealStep
<1>14. QED
  BY <1>1, <1>13

-----------------------------------------------------------------------------
(* The invariant of the reveal phase *)

LEMMA PhaseUnchanged ==
    ASSUME Advance, UNCHANGED <<deliveredMessages, finallyCommittedMessages, deliveryOrder,
                                revealLog, commitmentSent>>
    PROVE  RevealInv'
<1>1. /\ \A m : Justified(m) => Justified(m)'
      /\ \A r, j : RevealBacked(r, j) => RevealBacked(r, j)'
  BY JustifiedMonotone DEF Advance, Phase
<1>2. ASSUME NEW q \in Correct, NEW j \in Instance, NEW r, r = revealLog[q][j]
      PROVE  RevealBacked(r, j)'
  <2>1. RevealBacked(r, j)
    BY <1>2 DEF Advance, Phase, RevealInv
  <2>2. QED
    BY <1>1, <2>1
<1>3. ASSUME NEW q \in Correct, NEW j \in Instance
      PROVE  RevealBacked(revealLog[q][j], j)'
  BY <1>2 DEF RevealBacked
<1>4. AllJustified' /\ CommitAfterMixing'
  BY <1>1 DEF Advance, Phase, RevealInv, AllJustified, CommitAfterMixing, Delivered,
     MixedOnTop, Deliveries
<1>5. PendingOnlyBeforeDelivery' /\ DeliveryOrdered'
  BY DEF Advance, Phase, RevealInv, PendingOnlyBeforeDelivery, DeliveryOrdered, Delivered,
     Deliveries
<1>6. QED
  BY <1>3, <1>4, <1>5 DEF RevealInv, Advance

LEMMA BroadcastStep ==
    ASSUME Advance, NEW p \in Correct, NEW v \in Value, Broadcast(p, v)
    PROVE  RevealInv'
<1>1. PICK i \in Instance, x \in MessageState, n \in Message : Begins(p, v, i, x, n)
  BY BroadcastShape DEF Advance, Phase
<1> DEFINE j == [author |-> p, seqNumber |-> transactionCounter[p]]
<1>2. j = i
  BY <1>1 DEF Begins, Instance
<1>3. /\ revealLog' = [revealLog EXCEPT ![p][j] = NewRevealState]
      /\ deliveryOrder' = deliveryOrder /\ deliveredMessages' = deliveredMessages
      /\ finallyCommittedMessages' = finallyCommittedMessages
      /\ commitmentSent' = commitmentSent
  BY DEF Broadcast, commitmentVars
<1> HIDE DEF j
<1>4. ASSUME NEW r, r = NewRevealState
      PROVE  RevealStep(p, i, r)
  BY <1>2, <1>3, <1>4, NewBacked DEF RevealStep
<1>5. QED
  BY <1>4, StepKeeps

\* A handler of the broadcast leaves the reveal phase alone unless it delivers.
LEMMA ReliableStep ==
    ASSUME Advance, NEW p \in Correct, NEW q \in Proc, NEW s \in BroadcastStages,
           NEW i \in Instance, NEW v \in Value, NEW c \in Content,
           Receives(p, q, s, i, v, c)
    PROVE  RevealInv'
<1> DEFINE ms == RegisterMessage(p, i)
<1>1. StateBacked(ms, i) /\ WitnessInv /\ Arrives(q, s, i, v, c)
  BY RegisteredState DEF Advance, Phase, Inv, Receives
<1>2. \/ \E x, msgs : Update(p, i, x, msgs)
      \/ s = "VALIDATE" /\ ReceiveValidate(p, q, i, v, c, ms)
  BY Zenon DEF Receives, ReceiveNotify, ReceiveEchoFromWitness,
     ReceiveEchoFromProcess, ReceiveReadyFromWitness, ReceiveReadyFromProcess, RegisterOnly
<1>3. i \in Untampered => Fits(c, i)
  BY <1>1, ArrivesFitting DEF Advance, Phase, RevealInv, Inv, Typed
<1>4. i \in Untampered => ms.ownEncryptedShare \in {None, Genuine(i.author).encryptedShares[p]}
  BY DEF RegisterMessage, NewMessageState, Advance, Phase, RevealInv, ContentGenuine
<1> HIDE DEF ms
<1>5. CASE \E x, msgs : Update(p, i, x, msgs)
  BY <1>5, PhaseUnchanged DEF Update, commitmentVars
<1>6. CASE s = "VALIDATE" /\ ReceiveValidate(p, q, i, v, c, ms)
  <2>1. PICK y : /\ Outcome(p, i, v, c, ms, y, {})
                 /\ Update(p, i, y, {}) \/ Deliver(p, i, v, c, y)
    BY <1>1, <1>6, OnValidate
  <2>2. CASE Update(p, i, y, {})
    BY <2>2, PhaseUnchanged DEF Update, commitmentVars
  <2>3. CASE Deliver(p, i, v, c, y)
    <3>1. /\ y \in MessageState
          /\ y.ownEncryptedShare \in {ms.ownEncryptedShare, c.encryptedShares[p]}
      BY <2>1 DEF Outcome, StateBacked
    <3>2. i \in Untampered =>
             y.ownEncryptedShare \in {None, Genuine(i.author).encryptedShares[p]}
      BY <1>3, <1>4, <3>1, FittingContent DEF Correct
    <3>3. \E reveal : RevealStep(p, i, reveal)
      BY <1>3, <2>3, <3>1, <3>2, DeliverStep
    <3>4. QED
      BY <3>3, StepKeeps
  <2>4. QED
    BY <2>1, <2>2, <2>3
<1>7. QED
  BY <1>2, <1>5, <1>6

LEMMA CommitmentStep ==
    ASSUME Advance, NEW p \in Correct, NEW m \in commitmentSent \cup FaultyCommitments,
           HandleCommitment(p, m)
    PROVE  RevealInv'
<1>1. m.inst \in Instance
  BY CommitmentArrives DEF Advance, Phase
<1>2. RegisterMessage(p, m.inst) \in MessageState
  BY <1>1, RegisteredState DEF Advance, Phase, StateBacked
<1>3. PICK ms \in MessageState :
         /\ KeepPending(p, m, ms) \/ ReceiveCommitment(p, m, ms)
         /\ commitmentReceived' = [commitmentReceived EXCEPT ![p] = @ \cup {m}]
         /\ UNCHANGED <<deliveredMessages, deliveryOrder>>
  BY <1>2, Zenon DEF HandleCommitment
<1>4. \E reveal : RevealStep(p, m.inst, reveal)
  BY <1>3, KeepPendingStep, ReceiveCommitmentStep
<1>5. QED
  BY <1>1, <1>4, StepKeeps

LEMMA PhaseInit == Init => RevealInv
<1> SUFFICES ASSUME Init
             PROVE  RevealInv
  OBVIOUS
<1>1. ASSUME NEW i
      PROVE  RevealBacked(NewRevealState, i)
  BY NewReveal DEF RevealBacked, RevealFrom
<1>2. /\ \A p \in Correct, i \in Instance : /\ revealLog[p][i] = NewRevealState
                                            /\ deliveredMessages[p][i] = None
                                            /\ messagesLog[p][i] = NoState
      /\ sent = {} /\ commitmentSent = {} /\ \A p \in Correct : finallyCommittedMessages[p] = {}
  BY DEF Init
<1>3. ContentGenuine /\ CommitAfterMixing /\ AllJustified /\ DeliveryOrdered
  BY <1>2 DEF ContentGenuine, CommitAfterMixing, AllJustified, DeliveryOrdered, Delivered,
     Untampered, Authentic
<1>4. PendingOnlyBeforeDelivery
  BY <1>2 DEF PendingOnlyBeforeDelivery, Delivered
<1>5. QED
  BY <1>1, <1>2, <1>3, <1>4 DEF RevealInv

LEMMA PhaseNext == Phase /\ [Next]_vars => Phase'
<1> SUFFICES ASSUME Phase, [Next]_vars
             PROVE  Phase'
  OBVIOUS
<1>0. Advance
  BY InvNext, CommitmentsNext, ContentNext, StepGrows DEF Phase, Advance, RevealInv
<1>1. ASSUME NEW p \in Correct, NEW v \in Value, Broadcast(p, v)
      PROVE  RevealInv'
  BY <1>0, <1>1, BroadcastStep
<1>2. ASSUME NEW p \in Correct, NEW q \in Proc, NEW s \in BroadcastStages,
             NEW i \in Instance, NEW v \in Value, NEW c \in Content,
             Receives(p, q, s, i, v, c)
      PROVE  RevealInv'
  BY <1>0, <1>2, ReliableStep
<1>3. ASSUME NEW p \in Correct, NEW m \in commitmentSent \cup FaultyCommitments,
             HandleCommitment(p, m)
      PROVE  RevealInv'
  BY <1>0, <1>3, CommitmentStep
<1>4. ASSUME UNCHANGED vars
      PROVE  RevealInv'
  BY <1>0, <1>4, PhaseUnchanged DEF vars, commitmentVars
<1>5. RevealInv'
  BY <1>1, <1>2, <1>3, <1>4, NextSteps DEF Phase, Inv
<1>6. QED
  BY <1>0, <1>5 DEF Advance, Phase

LEMMA PhaseInductive == Spec => []Phase
<1>1. Init => Phase
  BY InvInit, CommitmentsInit, PhaseInit DEF Phase
<1>2. QED
  BY <1>1, PhaseNext, PTL DEF Spec

\* What is left of the type invariant.
CountersTyped ==
    /\ transactionCounter \in [Correct -> 0 .. MaxTransactions]
    /\ ownDeliveredTransactions \in [Correct -> Nat]
    /\ stopped \subseteq Correct

LEMMA ReliableCounters ==
    ASSUME CountersTyped, NEW p \in Correct, NEW i, NEW v, NEW c,
           \/ \E x, msgs : Update(p, i, x, msgs)
           \/ \E y \in MessageState : Deliver(p, i, v, c, y)
    PROVE  CountersTyped'
<1>1. CASE \E x, msgs : Update(p, i, x, msgs)
  BY <1>1 DEF Update, commitmentVars, CountersTyped
<1>2. CASE \E y \in MessageState : Deliver(p, i, v, c, y)
  <2>1. /\ transactionCounter' = transactionCounter
        /\ stopped' = stopped \/ stopped' = stopped \cup {p}
        /\ \/ ownDeliveredTransactions' = ownDeliveredTransactions
           \/ ownDeliveredTransactions' = [ownDeliveredTransactions EXCEPT ![p] = @ + 1]
    BY <1>2, Zenon DEF Deliver
  <2>2. QED
    BY <2>1 DEF CountersTyped
<1>3. QED
  BY <1>1, <1>2

LEMMA CountersNext == Phase /\ CountersTyped /\ [Next]_vars => CountersTyped'
<1> SUFFICES ASSUME Phase, CountersTyped, [Next]_vars
             PROVE  CountersTyped'
  OBVIOUS
<1>1. ASSUME NEW p \in Correct, NEW v \in Value, Broadcast(p, v)
      PROVE  CountersTyped'
  <2>1. /\ transactionCounter[p] < MaxTransactions
        /\ transactionCounter' = [transactionCounter EXCEPT ![p] = @ + 1]
        /\ UNCHANGED <<ownDeliveredTransactions, stopped>>
    BY <1>1 DEF Broadcast, commitmentVars
  <2>2. transactionCounter[p] + 1 \in 0 .. MaxTransactions
    BY <2>1, BoundAssumption DEF CountersTyped
  <2>3. QED
    BY <2>1, <2>2 DEF CountersTyped
<1>2. ASSUME NEW p \in Correct, NEW q \in Proc, NEW s \in BroadcastStages,
             NEW i \in Instance, NEW v \in Value, NEW c \in Content,
             Receives(p, q, s, i, v, c)
      PROVE  CountersTyped'
  BY <1>2, UpdatesOrDelivers, ReliableCounters DEF Phase
<1>3. ASSUME NEW p \in Correct, NEW m, HandleCommitment(p, m)
      PROVE  CountersTyped'
  <2>1. /\ UNCHANGED <<transactionCounter, ownDeliveredTransactions>>
        /\ stopped' = stopped \/ stopped' = stopped \cup {p}
    BY <1>3, Zenon DEF HandleCommitment, KeepPending, ReceiveCommitment
  <2>2. QED
    BY <2>1 DEF CountersTyped
<1>4. CASE UNCHANGED vars
  BY <1>4 DEF vars, commitmentVars, CountersTyped
<1>5. QED
  BY <1>1, <1>2, <1>3, <1>4, NextSteps DEF Phase, Inv

\* Every variable keeps its type: stages and votes, what waits, what is counted.
THEOREM ReliableTypes == Spec => []TypeOK
<1>1. Init => CountersTyped
  BY BoundAssumption DEF Init, CountersTyped
<1>2. Phase /\ CountersTyped => TypeOK
  BY DEF Phase, Inv, Typed, LogType, DeliveredType, CommitmentsTyped, Commitments,
     CountersTyped, TypeOK
<1>3. QED
  BY <1>1, <1>2, PhaseInductive, CountersNext, PTL DEF Spec

\* Whatever order deliveries and commitment messages come in, and whatever faulty
\* processes say: who reveals has mixed the transaction, DONE is said when enough
\* have or with a secret that a faulty process has given away, nothing false is
\* said of an untampered instance of a correct author by who has not been misled,
\* and what comes before the delivery waits for it and not beyond it.
THEOREM RevealInductive == Spec => []RevealInv
<1>1. Phase => RevealInv
  BY DEF Phase
<1>2. QED
  BY <1>1, PhaseInductive, PTL

\* Before any correct process says DONE, f+1 correct ones have mixed MixingTime
\* transactions on top, for of the 2f+1 shares that it takes f may come early; or
\* a correct process has received a DONE of a faulty one with that secret.
THEOREM SecretsStayHidden == Spec => []SecretHidden
<1>1. RevealInv => SecretHidden
  BY DEF RevealInv, AllJustified, Justified, SecretHidden
<1>2. QED
  BY <1>1, RevealInductive, PTL

\* A process commits only what it has delivered and mixed, also when the DONE has
\* waited for the delivery.
THEOREM CommitsAreMixed == Spec => []CommitAfterMixing
<1>1. RevealInv => CommitAfterMixing
  BY DEF RevealInv
<1>2. QED
  BY <1>1, RevealInductive, PTL

-----------------------------------------------------------------------------
(* DONE and the hash that its sender has delivered *)

DoneFits ==
    \A m \in commitmentSent :
        m.stage = "DONE" =>
            /\ m.from \in Correct /\ Delivered(m.from, m.inst)
            /\ Hash[m.data] = deliveredXHash[m.from][m.inst]

\* What a delivery announces of the commitment messages that have waited for it.
LEMMA DeliverSays ==
    ASSUME Inv, CommitmentsTyped, NEW p \in Correct, NEW i \in Instance, NEW v,
           NEW c \in Content, NEW ms \in MessageState, Deliver(p, i, v, c, ms),
           NEW m \in commitmentSent', m \notin commitmentSent, m.stage = "DONE"
    PROVE  m.from = p /\ m.inst = i /\ Hash[m.data] = c.xHash
<1> DEFINE st == Replay(p, i, ms, c.xHash)
           r  == revealLog[p][i]
<1>1. r \in RevealState /\ r.pending \in Seq(Commitments)
  BY DEF CommitmentsTyped
<1>2. r.decryptedShares \subseteq Proc \X Share
  BY <1>1 DEF RevealState
<1> HIDE DEF r
<1>3. ASSUME NEW k \in DOMAIN r.pending
      PROVE  Admitted(r.pending[k], Proc \X Share, Secret, TRUE)
  <2>1. r.pending[k] \in Commitments
    BY <1>1
  <2>2. QED
    BY <2>1, AnyAdmitted
<1>4. st \in WorkStates(Proc \X Share, Secret, TRUE, c.xHash, MixingTime = 0, <<>>)
  BY <1>1, <1>2, <1>3, AnyConclusive, ReplayKeeps DEF r
<1> HIDE DEF st
<1>5. m \in Announcements(p, i, ms, st.announced)
  <2>1. ASSUME m \notin Announcements(p, i, ms, st.announced)
        PROVE  FALSE
    <3>1. m.stage = "REVEAL"
      BY <2>1, DeliverReveals DEF st, Commitment
    <3>2. QED
      BY <3>1
  <2>2. QED
    BY <2>1
<1>6. PICK announced \in SUBSET Sayable(Secret, TRUE, c.xHash) : announced = st.announced
  BY <1>4 DEF WorkStates
<1>7. ms.potWitnessSet \in SUBSET Proc /\ p \in Proc
  BY DEF MessageState, Correct
<1>8. m.from = p /\ m.inst = i /\ (m.stage = "DONE" => Hash[m.data] = c.xHash)
  <2>1. ASSUME NEW D, D = Secret, NEW fails, fails = TRUE
        PROVE  m.from = p /\ m.inst = i /\ (m.stage = "DONE" => Hash[m.data] = c.xHash)
    <3>1. D \in SUBSET Secret /\ announced \in SUBSET Sayable(D, fails, c.xHash)
      BY <1>6, <2>1
    <3>2. m \in Announcements(p, i, ms, announced)
      BY <1>5, <1>6
    <3>3. QED
      BY <1>7, <3>1, <3>2, AnnouncementsTyped
  <2>2. QED
    BY <2>1
<1>9. QED
  BY <1>8

\* What a commitment message makes its receiver announce.
LEMMA CommitmentSays ==
    ASSUME Inv, CommitmentsTyped, NEW p \in Correct,
           NEW n \in commitmentSent \cup FaultyCommitments, HandleCommitment(p, n),
           NEW m \in commitmentSent', m \notin commitmentSent, m.stage = "DONE"
    PROVE  /\ m.from = p /\ m.inst = n.inst /\ Delivered(p, n.inst)
           /\ Hash[m.data] = deliveredXHash[p][n.inst]
<1>1. PICK i \in Instance : i = n.inst
  BY CommitmentArrives
<1>2. n \in Commitments
  BY CommitmentArrives
<1>3. PICK ms : ms = RegisterMessage(p, i)
  OBVIOUS
<1>4. ms \in MessageState
  BY <1>3, RegisteredState DEF StateBacked
<1>5. PICK h, r, mixed : h = deliveredXHash[p][i] /\ r = revealLog[p][i] /\ mixed = Mixed(p, i)
  OBVIOUS
<1> DEFINE st == OnCommitment(p, n, ms, h, mixed, Before(r))
<1>6. /\ Delivered(p, i)
      /\ commitmentSent' = commitmentSent \cup Announcements(p, i, ms, st.announced)
  <2>1. ~KeepPending(p, n, ms)
    BY DEF KeepPending
  <2>2. ReceiveCommitment(p, n, ms)
    BY <1>1, <1>3, <2>1 DEF HandleCommitment
  <2>3. QED
    BY <1>1, <1>5, <2>2, Zenon DEF ReceiveCommitment
<1>7. r \in RevealState /\ r.decryptedShares \subseteq Proc \X Share
  BY <1>5 DEF CommitmentsTyped, RevealState
<1>8. ASSUME NEW D, D = Secret, NEW fails, fails = TRUE,
             NEW A, A = Proc \X Share,
             NEW W, W = WorkStates(A, D, fails, h, mixed, r.pending)
      PROVE  st \in W
  <2>1. Before(r) \in W
    BY <1>7, <1>8, BeforeWorks
  <2>2. Conclusive(A, D, fails, h) /\ Admitted(n, A, D, fails)
    BY <1>2, <1>8, AnyConclusive, AnyAdmitted
  <2>3. QED
    BY <1>2, <1>8, <2>1, <2>2, OnCommitmentKeeps
<1>9. st \in WorkStates(Proc \X Share, Secret, TRUE, h, mixed, r.pending)
  BY <1>8
<1> HIDE DEF st
<1>10. PICK announced \in SUBSET Sayable(Secret, TRUE, h) : announced = st.announced
  BY <1>9 DEF WorkStates
<1>11. ms.potWitnessSet \in SUBSET Proc /\ p \in Proc
  BY <1>4 DEF MessageState, Correct
<1>12. m \in Announcements(p, i, ms, announced)
  BY <1>6, <1>10
<1>13. ASSUME NEW D, D = Secret, NEW fails, fails = TRUE
       PROVE  m.from = p /\ m.inst = i /\ (m.stage = "DONE" => Hash[m.data] = h)
  <2>1. D \in SUBSET Secret /\ announced \in SUBSET Sayable(D, fails, h)
    BY <1>10, <1>13
  <2>2. QED
    BY <1>11, <1>12, <2>1, AnnouncementsTyped
<1>14. QED
  BY <1>1, <1>5, <1>6, <1>13

\* A delivery comes once, so its hash stays what has been compared with.
LEMMA DeliversOnce ==
    ASSUME Inv, CommitmentsTyped, Closed, NEW p \in Correct, NEW q \in Proc,
           NEW s \in BroadcastStages, NEW i \in Instance, NEW v \in Value, NEW c \in Content,
           Receives(p, q, s, i, v, c)
    PROVE  \/ deliveredMessages' = deliveredMessages /\ deliveredXHash' = deliveredXHash
           \/ /\ ~Delivered(p, i)
              /\ deliveredMessages' = [deliveredMessages EXCEPT ![p][i] = v]
              /\ deliveredXHash' = [deliveredXHash EXCEPT ![p][i] = c.xHash]
<1>1. PICK ms : ms = RegisterMessage(p, i)
  OBVIOUS
<1>2. PICK x, msgs : Handles(p, i, v, c, ms, x, msgs)
  BY <1>1, ReliableHandles
<1>3. i \notin finallyCommittedMessages[p]
  BY DEF Receives
<1>4. ASSUME Delivered(p, i)
      PROVE  ms.stage >= DeliveredStage /\ ms.stage \in 0 .. 3
  <2>1. ms = messagesLog[p][i] /\ messagesLog[p][i].stage >= DeliveredStage
    BY <1>1, <1>3, <1>4 DEF Closed, DeliveryRecorded, RegisterMessage
  <2>2. StateBacked(ms, i)
    BY <1>1, RegisteredState
  <2>3. QED
    BY <2>1, <2>2, StateParts
<1>5. QED
  BY <1>2, <1>4 DEF Handles, DeliveredStage

LEMMA DoneFitsKept ==
    ASSUME CommitmentsTyped, DoneFits, Inv, NEW p \in Correct, NEW i \in Instance,
           NEW v \in Value, NEW c,
           \/ deliveredMessages' = deliveredMessages /\ deliveredXHash' = deliveredXHash
           \/ /\ ~Delivered(p, i)
              /\ deliveredMessages' = [deliveredMessages EXCEPT ![p][i] = v]
              /\ deliveredXHash' = [deliveredXHash EXCEPT ![p][i] = c.xHash],
           NEW m \in commitmentSent, m.stage = "DONE"
    PROVE  /\ m.from \in Correct /\ Delivered(m.from, m.inst)'
           /\ Hash[m.data] = deliveredXHash'[m.from][m.inst]
<1>1. m.inst \in Instance
  BY DEF CommitmentsTyped, Commitments, CommitmentMessage
<1>2. /\ m.from \in Correct /\ Delivered(m.from, m.inst)
      /\ Hash[m.data] = deliveredXHash[m.from][m.inst]
  BY DEF DoneFits
<1>3. CASE deliveredMessages' = deliveredMessages /\ deliveredXHash' = deliveredXHash
  BY <1>2, <1>3 DEF Delivered
<1>4. CASE /\ ~Delivered(p, i)
           /\ deliveredMessages' = [deliveredMessages EXCEPT ![p][i] = v]
           /\ deliveredXHash' = [deliveredXHash EXCEPT ![p][i] = c.xHash]
  <2>1. <<m.from, m.inst>> # <<p, i>>
    BY <1>2, <1>4
  <2>2. deliveredMessages'[m.from][m.inst] = deliveredMessages[m.from][m.inst]
    BY <1>1, <1>2, <1>4, <2>1, EntryReplaced DEF Inv, Typed, DeliveredType
  <2>3. deliveredXHash'[m.from][m.inst] = deliveredXHash[m.from][m.inst]
    BY <1>1, <1>2, <1>4, <2>1, EntryReplaced DEF CommitmentsTyped
  <2>4. QED
    BY <1>2, <2>2, <2>3 DEF Delivered
<1>5. QED
  BY <1>3, <1>4

LEMMA DoneFitsNext ==
    Inv /\ CommitmentsTyped /\ Closed /\ DoneFits /\ [Next]_vars => DoneFits'
<1> SUFFICES ASSUME Inv, CommitmentsTyped, Closed, DoneFits, [Next]_vars
             PROVE  DoneFits'
  OBVIOUS
<1>1. ASSUME NEW p \in Correct, NEW v \in Value, Broadcast(p, v)
      PROVE  DoneFits'
  BY <1>1 DEF Broadcast, commitmentVars, DoneFits, Delivered
<1>2. ASSUME NEW p \in Correct, NEW q \in Proc, NEW s \in BroadcastStages,
             NEW i \in Instance, NEW v \in Value, NEW c \in Content,
             Receives(p, q, s, i, v, c)
      PROVE  DoneFits'
  <2>1. \/ deliveredMessages' = deliveredMessages /\ deliveredXHash' = deliveredXHash
        \/ /\ ~Delivered(p, i)
           /\ deliveredMessages' = [deliveredMessages EXCEPT ![p][i] = v]
           /\ deliveredXHash' = [deliveredXHash EXCEPT ![p][i] = c.xHash]
    BY <1>2, DeliversOnce
  <2>2. ASSUME NEW m \in commitmentSent', m.stage = "DONE"
        PROVE  /\ m.from \in Correct /\ Delivered(m.from, m.inst)'
               /\ Hash[m.data] = deliveredXHash'[m.from][m.inst]
    <3>1. CASE m \in commitmentSent
      BY <2>1, <2>2, <3>1, DoneFitsKept
    <3>2. CASE m \notin commitmentSent
      <4>1. ~ \E x, msgs : Update(p, i, x, msgs)
        BY <3>2 DEF Update, commitmentVars
      <4>2. PICK y \in MessageState : Deliver(p, i, v, c, y)
        BY <1>2, <4>1, UpdatesOrDelivers
      <4>3. m.from = p /\ m.inst = i /\ Hash[m.data] = c.xHash
        BY <2>2, <3>2, <4>2, DeliverSays
      <4>4. /\ deliveredMessages' = [deliveredMessages EXCEPT ![p][i] = v]
            /\ deliveredXHash' = [deliveredXHash EXCEPT ![p][i] = c.xHash]
        BY <4>2 DEF Deliver
      <4>5. deliveredMessages'[p][i] = v
        BY <4>4, EntryReplaced DEF Inv, Typed, DeliveredType
      <4>6. deliveredXHash'[p][i] = c.xHash
        BY <4>4, EntryReplaced DEF CommitmentsTyped
      <4>7. QED
        BY <4>3, <4>5, <4>6, ValueAssumption DEF Delivered
    <3>3. QED
      BY <3>1, <3>2
  <2>3. QED
    BY <2>2, Zenon DEF DoneFits, Delivered
<1>3. ASSUME NEW p \in Correct, NEW n \in commitmentSent \cup FaultyCommitments,
             HandleCommitment(p, n)
      PROVE  DoneFits'
  <2>1. deliveredMessages' = deliveredMessages /\ deliveredXHash' = deliveredXHash
    BY <1>3 DEF HandleCommitment
  <2>2. ASSUME NEW m \in commitmentSent', m.stage = "DONE"
        PROVE  /\ m.from \in Correct /\ Delivered(m.from, m.inst)'
               /\ Hash[m.data] = deliveredXHash'[m.from][m.inst]
    <3>1. CASE m \in commitmentSent
      BY <2>1, <2>2, <3>1 DEF DoneFits, Delivered
    <3>2. CASE m \notin commitmentSent
      BY <1>3, <2>1, <2>2, <3>2, CommitmentSays DEF Delivered
    <3>3. QED
      BY <3>1, <3>2
  <2>3. QED
    BY <2>2, Zenon DEF DoneFits, Delivered
<1>4. CASE UNCHANGED vars
  BY <1>4 DEF vars, commitmentVars, DoneFits, Delivered
<1>5. QED
  BY <1>1, <1>2, <1>3, <1>4, NextSteps DEF Inv

\* A correct process says DONE only with a secret of the hash that it has itself
\* delivered; and about a correct author whose hash nobody forges, FAILED and
\* another secret are said only once a correct process has been misled.  The
\* other instances are those that an author may begin anew over a delivery.
THEOREM VerdictsAgree ==
    ASSUME Judged = Instance
    PROVE  Spec => []OneVerdict
<1>1. RevealInv /\ DoneFits => OneVerdict
  BY DEF RevealInv, AllJustified, Justified, DoneFits, OneVerdict
<1>2. Init => Inv /\ CommitmentsTyped /\ Closed /\ DoneFits
  BY InvInit, CommitmentsInit
  DEF Init, Closed, DeliveryRecorded, CommitDropsState, Delivered, DoneFits
<1>3. Inv /\ CommitmentsTyped /\ Closed /\ DoneFits /\ [Next]_vars
         => (Inv /\ CommitmentsTyped /\ Closed /\ DoneFits)'
  BY InvNext, CommitmentsNext, ClosedNext, DoneFitsNext
<1>4. QED
  BY <1>1, <1>2, <1>3, RevealInductive, PTL DEF Spec
-----------------------------------------------------------------------------
(* What a handler does for progress *)

\* Who is sent a message of stage s by a process with the potential witnesses W.
Audience(W, s) ==
    IF s \in {"NOTIFY", "ECHO_FROM_PROCESS", "READY_FROM_PROCESS"} THEN W ELSE Proc

\* A handler of p gets from the state ms to x and sends msgs: the witness sets
\* stay, what x shows beyond ms it says, and no threshold is passed over.
Moves(p, i, ms, x, msgs) ==
    /\ x \in MessageState
    /\ x.ownWitnessSet = ms.ownWitnessSet /\ x.potWitnessSet = ms.potWitnessSet
    /\ \A s \in BroadcastStages : Shows(x, s) => Shows(ms, s) \/ \E m \in msgs : m.stage = s
    /\ Heeded(ms) => Heeded(x)
    /\ \A m \in msgs : /\ m.from = p /\ m.inst = i
                       /\ m.to = Audience(ms.potWitnessSet, m.stage)

LEMMA QuorumIsMore ==
    ASSUME F <= N
    PROVE  QuorumThreshold >= ReadyMessagesThreshold
BY Thresholds DEF QuorumThreshold, ReadyMessagesThreshold

LEMMA WitnessesNeeded == WitnessThreshold \in Nat \ {0}
<1>1. {} \in SUBSET (Instance \X Secret) /\ OwnWitnessSet[{}] \cap Faulty \in SUBSET Proc
  BY ProcAssumption
<1>2. Cardinality(OwnWitnessSet[{}] \cap Faulty) < WitnessThreshold
  BY <1>1, WitnessAssumption
<1>3. Cardinality(OwnWitnessSet[{}] \cap Faulty) \in Nat
  BY <1>1, ProcSubset
<1>4. QED
  BY <1>2, <1>3, ParameterAssumption

\* Nobody has voted in a fresh state, and it shows nothing.
LEMMA FreshHeeded ==
    ASSUME NEW p \in Correct
    PROVE  /\ Heeded(NewMessageState(p)) /\ NewMessageState(p).stage = InitialStage
           /\ \A s \in BroadcastStages : ~Shows(NewMessageState(p), s)
<1> DEFINE ms == NewMessageState(p)
<1>1. /\ ms.stage = 0 /\ ms.witnessStage = 0
      /\ ms.echoFromProcesses = {} /\ ms.readyFromProcesses = {}
      /\ ms.readyFromWitnesses = {} /\ ms.validateFromWitnesses = {}
  BY DEF NewMessageState, InitialStage, InitialWitnessStage
<1> HIDE DEF ms
<1>2. \A v : VotesFor({}, v) = {}
  BY DEF VotesFor
<1>3. Cardinality({}) = 0
  BY FS_EmptySet
<1>4. QuorumThreshold > 0 /\ ReadyMessagesThreshold > 0
  BY Thresholds, ProcSubset DEF ReadyMessagesThreshold
<1>5. Heeded(ms)
  BY <1>1, <1>2, <1>3, <1>4, WitnessesNeeded DEF Heeded
<1>6. \A s \in BroadcastStages : ~Shows(ms, s)
  BY <1>1 DEF Shows, SentEchoFromWitness, SentReadyFromWitness, SentValidate,
     SentEchoFromProcess, SentReadyFromProcess
<1>7. QED
  BY <1>1, <1>5, <1>6 DEF ms, InitialStage

LEMMA NotifyMoves ==
    ASSUME NEW p \in Correct, NEW i \in Instance, NEW v \in Value,
           NEW c \in Content, NEW ms, StateBacked(ms, i),
           ReceiveNotify(p, i, v, c, ms)
    PROVE  \E x, msgs : /\ Update(p, i, x, msgs) /\ Moves(p, i, ms, x, msgs)
                        /\ x.stage = ms.stage
<1> DEFINE x == [ms EXCEPT !.encryptedShares = c.encryptedShares,
                           !.ownEncryptedShare = c.encryptedShares[p],
                           !.witnessStage = SentEchoFromWitness]
           m == Msg(p, Proc, "ECHO_FROM_WITNESS", i, v, c)
<1>1. /\ x \in MessageState /\ x.stage = ms.stage /\ x.witnessStage = SentEchoFromWitness
      /\ x.ownWitnessSet = ms.ownWitnessSet /\ x.potWitnessSet = ms.potWitnessSet
      /\ x.echoFromProcesses = ms.echoFromProcesses
      /\ x.readyFromProcesses = ms.readyFromProcesses
      /\ x.readyFromWitnesses = ms.readyFromWitnesses
      /\ x.validateFromWitnesses = ms.validateFromWitnesses
  <2>1. ms \in MessageState
    BY StateParts
  <2>2. SentEchoFromWitness \in InitialWitnessStage .. SentValidate
    BY DEF InitialWitnessStage, SentEchoFromWitness, SentValidate
  <2>3. /\ c.encryptedShares \in ShareVector \cup {None}
        /\ c.encryptedShares[p] \in Cipher \cup {None}
    BY DEF Content, ShareVector, Correct
  <2>4. QED
    BY <2>1, <2>2, <2>3, Zenon DEF MessageState
<1>2. Update(p, i, x, {m}) /\ ms.witnessStage < SentEchoFromWitness
  BY DEF ReceiveNotify, TakesNotify
<1>3. m.from = p /\ m.inst = i /\ m.to = Proc /\ m.stage = "ECHO_FROM_WITNESS"
  BY DEF Msg
<1> HIDE DEF x, m
<1>4. Heeded(ms) => Heeded(x)
  BY <1>1, <1>2, StateParts DEF Heeded, SentEchoFromWitness, SentReadyFromWitness, SentValidate
<1>5. \A s \in BroadcastStages : Shows(x, s) => Shows(ms, s) \/ m.stage = s
  BY <1>1, <1>3 DEF Shows, SentEchoFromWitness, SentReadyFromWitness, SentValidate
<1>6. Moves(p, i, ms, x, {m})
  BY <1>1, <1>3, <1>4, <1>5 DEF Moves, Audience
<1>7. QED
  BY <1>1, <1>2, <1>6

LEMMA EchoFromWitnessMoves ==
    ASSUME NEW p \in Correct, NEW q \in Proc, NEW i \in Instance, NEW v \in Value,
           NEW c \in Content, NEW ms, StateBacked(ms, i),
           ReceiveEchoFromWitness(p, q, i, v, c, ms)
    PROVE  \E x, msgs : /\ Update(p, i, x, msgs) /\ Moves(p, i, ms, x, msgs)
                        /\ x.stage < DeliveredStage
<1> DEFINE x == [ms EXCEPT !.ownEncryptedShare = c.encryptedShares[p],
                           !.stage = SentEchoFromProcess]
           m == Msg(p, ms.potWitnessSet, "ECHO_FROM_PROCESS", i, v, HashOnly(c))
<1>1. /\ x \in MessageState /\ x.stage = SentEchoFromProcess
      /\ x.witnessStage = ms.witnessStage
      /\ x.ownWitnessSet = ms.ownWitnessSet /\ x.potWitnessSet = ms.potWitnessSet
      /\ x.echoFromProcesses = ms.echoFromProcesses
      /\ x.readyFromProcesses = ms.readyFromProcesses
      /\ x.readyFromWitnesses = ms.readyFromWitnesses
      /\ x.validateFromWitnesses = ms.validateFromWitnesses
  <2>1. ms \in MessageState
    BY StateParts
  <2>2. SentEchoFromProcess \in InitialStage .. DeliveredStage
    BY DEF InitialStage, SentEchoFromProcess, DeliveredStage
  <2>3. c.encryptedShares[p] \in Cipher \cup {None}
    BY DEF Content, ShareVector, Correct
  <2>4. QED
    BY <2>1, <2>2, <2>3, Zenon DEF MessageState
<1>2. Update(p, i, x, {m}) /\ ms.stage < SentEchoFromProcess
  BY DEF ReceiveEchoFromWitness, TakesEchoFromWitness
<1>3. m.from = p /\ m.inst = i /\ m.to = ms.potWitnessSet /\ m.stage = "ECHO_FROM_PROCESS"
  BY DEF Msg
<1> HIDE DEF x, m
<1>4. Heeded(ms) => Heeded(x)
  BY <1>1, <1>2, StateParts
  DEF Heeded, SentEchoFromProcess, SentReadyFromProcess, DeliveredStage
<1>5. \A s \in BroadcastStages : Shows(x, s) => Shows(ms, s) \/ m.stage = s
  BY <1>1, <1>3 DEF Shows, SentEchoFromProcess, SentReadyFromProcess
<1>6. Moves(p, i, ms, x, {m})
  BY <1>1, <1>3, <1>4, <1>5 DEF Moves, Audience
<1>7. QED
  BY <1>1, <1>2, <1>6 DEF SentEchoFromProcess, DeliveredStage

LEMMA EchoFromProcessMoves ==
    ASSUME NEW p \in Correct, NEW q \in Proc, NEW i \in Instance, NEW v \in Value,
           NEW c \in Content, NEW ms, StateBacked(ms, i),
           ReceiveEchoFromProcess(p, q, i, v, c, ms)
    PROVE  \E x, msgs : /\ Update(p, i, x, msgs) /\ Moves(p, i, ms, x, msgs)
                        /\ x.stage = ms.stage
<1> DEFINE votes == ms.echoFromProcesses \cup {<<q, v>>}
           ms2 == [ms EXCEPT !.echoFromProcesses = @ \cup {<<q, v>>}]
           x == [ms2 EXCEPT !.witnessStage = SentReadyFromWitness]
           m == Msg(p, Proc, "READY_FROM_WITNESS", i, v, HashOnly(c))
<1>1. /\ ms2 \in MessageState /\ ms2.stage = ms.stage /\ ms2.witnessStage = ms.witnessStage
      /\ ms2.ownWitnessSet = ms.ownWitnessSet /\ ms2.potWitnessSet = ms.potWitnessSet
      /\ ms2.echoFromProcesses = votes
      /\ ms2.readyFromProcesses = ms.readyFromProcesses
      /\ ms2.readyFromWitnesses = ms.readyFromWitnesses
      /\ ms2.validateFromWitnesses = ms.validateFromWitnesses
  <2>1. ms \in MessageState
    BY StateParts
  <2>2. votes \in Votes
    BY StateParts DEF Votes
  <2>3. QED
    BY <2>1, <2>2, Zenon DEF MessageState
<1>2. \A u : u # v => VotesFor(votes, u) = VotesFor(ms.echoFromProcesses, u)
  BY DEF VotesFor
<1>3. ms.witnessStage < SentReadyFromWitness
  BY DEF ReceiveEchoFromProcess, TakesEchoFromProcess
<1>4. CASE /\ Cardinality(VotesFor(ms2.echoFromProcesses, v)) >= QuorumThreshold
           /\ Update(p, i, x, {m})
  <2>1. /\ x \in MessageState /\ x.stage = ms2.stage /\ x.witnessStage = SentReadyFromWitness
        /\ x.ownWitnessSet = ms2.ownWitnessSet /\ x.potWitnessSet = ms2.potWitnessSet
        /\ x.echoFromProcesses = ms2.echoFromProcesses
        /\ x.readyFromProcesses = ms2.readyFromProcesses
        /\ x.readyFromWitnesses = ms2.readyFromWitnesses
        /\ x.validateFromWitnesses = ms2.validateFromWitnesses
    <3> HIDE DEF ms2
    <3>1. SentReadyFromWitness \in InitialWitnessStage .. SentValidate
      BY DEF InitialWitnessStage, SentReadyFromWitness, SentValidate
    <3>2. QED
      BY <1>1, <3>1, Zenon DEF MessageState
  <2>2. m.from = p /\ m.inst = i /\ m.to = Proc /\ m.stage = "READY_FROM_WITNESS"
    BY DEF Msg
  <2> HIDE DEF x, m, ms2
  <2>3. Heeded(ms) => Heeded(x)
    BY <1>1, <1>3, <2>1, StateParts DEF Heeded, SentReadyFromWitness, SentValidate
  <2>4. \A s \in BroadcastStages : Shows(x, s) => Shows(ms, s) \/ m.stage = s
    BY <1>1, <2>1, <2>2 DEF Shows, SentEchoFromWitness, SentReadyFromWitness, SentValidate
  <2>5. Moves(p, i, ms, x, {m})
    BY <1>1, <2>1, <2>2, <2>3, <2>4 DEF Moves, Audience
  <2>6. QED
    BY <1>1, <1>4, <2>1, <2>5
<1>5. CASE /\ Cardinality(VotesFor(ms2.echoFromProcesses, v)) < QuorumThreshold
           /\ Update(p, i, ms2, {})
  <2> HIDE DEF ms2, votes
  <2>1. Heeded(ms) => Heeded(ms2)
    BY <1>1, <1>2, <1>5 DEF Heeded
  <2>2. \A s \in BroadcastStages : Shows(ms2, s) => Shows(ms, s)
    BY <1>1 DEF Shows
  <2>3. Moves(p, i, ms, ms2, {})
    BY <1>1, <2>1, <2>2 DEF Moves
  <2>4. QED
    BY <1>1, <1>5, <2>3
<1>6. QED
  BY <1>4, <1>5 DEF ReceiveEchoFromProcess

LEMMA ReadyFromWitnessMoves ==
    ASSUME NEW p \in Correct, NEW q \in Proc, NEW i \in Instance, NEW v \in Value,
           NEW c \in Content, NEW ms, StateBacked(ms, i),
           ReceiveReadyFromWitness(p, q, i, v, c, ms)
    PROVE  \E x, msgs : /\ Update(p, i, x, msgs) /\ Moves(p, i, ms, x, msgs)
                        /\ x.stage < DeliveredStage
<1> DEFINE votes == ms.readyFromWitnesses \cup {<<q, v>>}
           ms2 == [ms EXCEPT !.readyFromWitnesses = @ \cup {<<q, v>>}]
           x == [ms2 EXCEPT !.stage = SentReadyFromProcess]
           m == Msg(p, ms.potWitnessSet, "READY_FROM_PROCESS", i, v, HashOnly(c))
<1>1. /\ ms2 \in MessageState /\ ms2.stage = ms.stage /\ ms2.witnessStage = ms.witnessStage
      /\ ms2.ownWitnessSet = ms.ownWitnessSet /\ ms2.potWitnessSet = ms.potWitnessSet
      /\ ms2.echoFromProcesses = ms.echoFromProcesses
      /\ ms2.readyFromProcesses = ms.readyFromProcesses
      /\ ms2.readyFromWitnesses = votes
      /\ ms2.validateFromWitnesses = ms.validateFromWitnesses
  <2>1. ms \in MessageState
    BY StateParts
  <2>2. votes \in Votes
    BY StateParts DEF Votes
  <2>3. QED
    BY <2>1, <2>2, Zenon DEF MessageState
<1>2. \A u : u # v => VotesFor(votes, u) = VotesFor(ms.readyFromWitnesses, u)
  BY DEF VotesFor
<1>3. ms.stage < SentReadyFromProcess
  BY DEF ReceiveReadyFromWitness, TakesReadyFromWitness
<1>4. CASE /\ Cardinality(VotesFor(ms2.readyFromWitnesses, v)) >= WitnessThreshold
           /\ Update(p, i, x, {m})
  <2>1. /\ x \in MessageState /\ x.stage = SentReadyFromProcess /\ x.witnessStage = ms2.witnessStage
        /\ x.ownWitnessSet = ms2.ownWitnessSet /\ x.potWitnessSet = ms2.potWitnessSet
        /\ x.echoFromProcesses = ms2.echoFromProcesses
        /\ x.readyFromProcesses = ms2.readyFromProcesses
        /\ x.readyFromWitnesses = ms2.readyFromWitnesses
        /\ x.validateFromWitnesses = ms2.validateFromWitnesses
    <3> HIDE DEF ms2
    <3>1. SentReadyFromProcess \in InitialStage .. DeliveredStage
      BY DEF InitialStage, SentReadyFromProcess, DeliveredStage
    <3>2. QED
      BY <1>1, <3>1, Zenon DEF MessageState
  <2>2. m.from = p /\ m.inst = i /\ m.to = ms.potWitnessSet /\ m.stage = "READY_FROM_PROCESS"
    BY DEF Msg
  <2> HIDE DEF x, m, ms2
  <2>3. Heeded(ms) => Heeded(x)
    BY <1>1, <1>3, <2>1, StateParts DEF Heeded, SentReadyFromProcess, DeliveredStage
  <2>4. \A s \in BroadcastStages : Shows(x, s) => Shows(ms, s) \/ m.stage = s
    BY <1>1, <2>1, <2>2 DEF Shows, SentEchoFromProcess, SentReadyFromProcess
  <2>5. Moves(p, i, ms, x, {m})
    BY <1>1, <2>1, <2>2, <2>3, <2>4 DEF Moves, Audience
  <2>6. QED
    BY <1>4, <2>1, <2>5 DEF SentReadyFromProcess, DeliveredStage
<1>5. CASE /\ Cardinality(VotesFor(ms2.readyFromWitnesses, v)) < WitnessThreshold
           /\ Update(p, i, ms2, {})
  <2> HIDE DEF ms2, votes
  <2>1. Heeded(ms) => Heeded(ms2)
    BY <1>1, <1>2, <1>5 DEF Heeded
  <2>2. \A s \in BroadcastStages : Shows(ms2, s) => Shows(ms, s)
    BY <1>1 DEF Shows
  <2>3. Moves(p, i, ms, ms2, {})
    BY <1>1, <2>1, <2>2 DEF Moves
  <2>4. QED
    BY <1>1, <1>3, <1>5, <2>3, StateParts DEF SentReadyFromProcess, DeliveredStage
<1>6. QED
  BY <1>4, <1>5 DEF ReceiveReadyFromWitness

LEMMA ReadyFromProcessMoves ==
    ASSUME NEW p \in Correct, NEW q \in Proc, NEW i \in Instance, NEW v \in Value,
           NEW c \in Content, NEW ms, StateBacked(ms, i),
           ReceiveReadyFromProcess(p, q, i, v, c, ms),
           F <= N
    PROVE  \E x, msgs : /\ Update(p, i, x, msgs) /\ Moves(p, i, ms, x, msgs)
                        /\ x.stage = ms.stage
<1> DEFINE votes == ms.readyFromProcesses \cup {<<q, v>>}
           count == Cardinality(VotesFor(votes, v))
           ready == ms.witnessStage < SentReadyFromWitness /\ count >= ReadyMessagesThreshold
           validate == ms.witnessStage < SentValidate /\ count >= QuorumThreshold
           after == IF validate THEN SentValidate
                    ELSE IF ready THEN SentReadyFromWitness ELSE ms.witnessStage
           x == [ms EXCEPT !.readyFromProcesses = votes, !.witnessStage = after]
           r == Msg(p, Proc, "READY_FROM_WITNESS", i, v, HashOnly(c))
           d == Msg(p, Proc, "VALIDATE", i, v, HashOnly(c))
           msgs == {r : b \in {ready} \cap {TRUE}} \cup {d : b \in {validate} \cap {TRUE}}
<1>1. Update(p, i, x, msgs)
  BY Zenon DEF ReceiveReadyFromProcess
<1>2. /\ x \in MessageState /\ x.stage = ms.stage /\ x.witnessStage = after
      /\ x.ownWitnessSet = ms.ownWitnessSet /\ x.potWitnessSet = ms.potWitnessSet
      /\ x.echoFromProcesses = ms.echoFromProcesses
      /\ x.readyFromProcesses = votes
      /\ x.readyFromWitnesses = ms.readyFromWitnesses
      /\ x.validateFromWitnesses = ms.validateFromWitnesses
  <2>1. after \in InitialWitnessStage .. SentValidate
    <3> HIDE DEF ready, validate
    <3>1. QED
      BY StateParts DEF InitialWitnessStage, SentReadyFromWitness, SentValidate
  <2>2. ms \in MessageState /\ votes \in Votes
    BY StateParts DEF Votes
  <2> HIDE DEF votes, after
  <2>3. QED
    BY <2>1, <2>2, Zenon DEF MessageState
<1>3. \A u : u # v => VotesFor(votes, u) = VotesFor(ms.readyFromProcesses, u)
  BY DEF VotesFor
<1>4. count \in Nat
  <2>1. VotesFor(votes, v) \in SUBSET Proc
    BY DEF VotesFor
  <2>2. QED
    BY <2>1, ProcSubset
<1>5. (ready <=> r \in msgs) /\ (validate <=> d \in msgs) /\ msgs \subseteq {r, d}
  <2>1. r.stage # d.stage
    BY DEF Msg
  <2>2. {ready} \cap {TRUE} = (IF ready THEN {TRUE} ELSE {})
    OBVIOUS
  <2>3. {validate} \cap {TRUE} = (IF validate THEN {TRUE} ELSE {})
    OBVIOUS
  <2> HIDE DEF r, d, ready, validate
  <2>4. QED
    BY <2>1, <2>2, <2>3
<1>6. /\ r.from = p /\ r.inst = i /\ r.to = Proc /\ r.stage = "READY_FROM_WITNESS"
      /\ d.from = p /\ d.inst = i /\ d.to = Proc /\ d.stage = "VALIDATE"
  BY DEF Msg
<1> HIDE DEF x, msgs, r, d
<1>7. ms.witnessStage \in 0 .. 3 /\ ms.stage \in 0 .. 3
  BY StateParts
<1>8. Heeded(ms) => Heeded(x)
  <2> HIDE DEF votes
  <2>1. QED
    BY <1>2, <1>3, <1>4, <1>7, Thresholds
    DEF Heeded, SentReadyFromWitness, SentValidate, ReadyMessagesThreshold
<1>9. \A s \in BroadcastStages : Shows(x, s) => Shows(ms, s) \/ \E m \in msgs : m.stage = s
  <2>1. ASSUME NEW s \in BroadcastStages, Shows(x, s), ~Shows(ms, s)
        PROVE  \/ s = "READY_FROM_WITNESS" /\ ready
               \/ s = "VALIDATE" /\ validate
    BY <1>2, <1>4, <1>7, <2>1, Thresholds, QuorumIsMore
    DEF Shows, SentEchoFromWitness, SentReadyFromWitness, SentValidate,
        ReadyMessagesThreshold
  <2> HIDE DEF ready, validate
  <2>2. QED
    BY <1>5, <1>6, <2>1
<1>10. Moves(p, i, ms, x, msgs)
  BY <1>2, <1>5, <1>6, <1>8, <1>9 DEF Moves, Audience
<1>11. QED
  BY <1>1, <1>2, <1>10

\* A VALIDATE is counted, or with WitnessThreshold own witnesses behind it delivers.
LEMMA ValidateMoves ==
    ASSUME NEW p \in Correct, NEW q \in Proc, NEW i \in Instance, NEW v \in Value,
           NEW c \in Content, NEW ms, StateBacked(ms, i),
           Arrives(q, "VALIDATE", i, v, c),
           ReceiveValidate(p, q, i, v, c, ms)
    PROVE  \E y : /\ StateBacked(y, i) /\ y.ownWitnessSet = ms.ownWitnessSet
                  /\ \/ /\ Update(p, i, y, {}) /\ Moves(p, i, ms, y, {})
                        /\ y.stage = ms.stage
                     \/ /\ Deliver(p, i, v, c, y)
                        /\ Moves(p, i, ms, [y EXCEPT !.stage = DeliveredStage], {})
                        /\ Cardinality(VotesFor(y.validateFromWitnesses, v)) >= WitnessThreshold
<1> DEFINE votes == ms.validateFromWitnesses \cup {<<q, v>>}
           ms2 == [ms EXCEPT !.validateFromWitnesses = @ \cup {<<q, v>>}]
           x == [ms2 EXCEPT !.stage = DeliveredStage]
<1>1. /\ q \in ms.ownWitnessSet /\ ms.stage < DeliveredStage
      /\ \/ /\ Cardinality(VotesFor(ms2.validateFromWitnesses, v)) >= WitnessThreshold
            /\ Deliver(p, i, v, c, ms2)
         \/ /\ Cardinality(VotesFor(ms2.validateFromWitnesses, v)) < WitnessThreshold
            /\ Update(p, i, ms2, {})
  BY Zenon DEF ReceiveValidate, TakesValidate
<1>2. /\ votes \in Votes /\ Backed(votes, "VALIDATE", i)
      /\ Within(votes, ms.ownWitnessSet)
  BY <1>1, ReceivedVoter, VoteAdded, WitnessVoteAdded, StateParts DEF StateBacked
<1>3. /\ ms2 \in MessageState /\ ms2.stage = ms.stage /\ ms2.witnessStage = ms.witnessStage
      /\ ms2.ownWitnessSet = ms.ownWitnessSet /\ ms2.potWitnessSet = ms.potWitnessSet
      /\ ms2.echoFromProcesses = ms.echoFromProcesses
      /\ ms2.readyFromProcesses = ms.readyFromProcesses
      /\ ms2.readyFromWitnesses = ms.readyFromWitnesses
      /\ ms2.validateFromWitnesses = votes
  <2>1. ms \in MessageState
    BY StateParts
  <2>2. QED
    BY <1>2, <2>1, Zenon DEF MessageState
<1>4. \A u : u # v => VotesFor(votes, u) = VotesFor(ms.validateFromWitnesses, u)
  BY DEF VotesFor
<1>5. /\ x \in MessageState /\ x.stage = DeliveredStage /\ x.witnessStage = ms2.witnessStage
      /\ x.ownWitnessSet = ms2.ownWitnessSet /\ x.potWitnessSet = ms2.potWitnessSet
      /\ x.echoFromProcesses = ms2.echoFromProcesses
      /\ x.readyFromProcesses = ms2.readyFromProcesses
      /\ x.readyFromWitnesses = ms2.readyFromWitnesses
      /\ x.validateFromWitnesses = ms2.validateFromWitnesses
  <2> HIDE DEF ms2
  <2>1. DeliveredStage \in InitialStage .. DeliveredStage
    BY DEF InitialStage, DeliveredStage
  <2>2. QED
    BY <1>3, <2>1, Zenon DEF MessageState
<1> HIDE DEF ms2, votes
<1>6. StateBacked(ms2, i)
  BY <1>2, <1>3, StateParts DEF StateBacked
<1>7. CASE /\ Cardinality(VotesFor(ms2.validateFromWitnesses, v)) >= WitnessThreshold
           /\ Deliver(p, i, v, c, ms2)
  <2> HIDE DEF x
  <2>1. Heeded(ms) => Heeded(x)
    BY <1>1, <1>3, <1>5, StateParts DEF Heeded, SentReadyFromProcess, DeliveredStage
  <2>2. \A s \in BroadcastStages : Shows(x, s) => Shows(ms, s)
    BY <1>3, <1>5 DEF Shows, SentEchoFromProcess, SentReadyFromProcess, DeliveredStage
  <2>3. Moves(p, i, ms, x, {})
    BY <1>3, <1>5, <2>1, <2>2 DEF Moves
  <2>4. QED
    BY <1>3, <1>6, <1>7, <2>3 DEF x
<1>8. CASE /\ Cardinality(VotesFor(ms2.validateFromWitnesses, v)) < WitnessThreshold
           /\ Update(p, i, ms2, {})
  <2>1. Heeded(ms) => Heeded(ms2)
    BY <1>3, <1>4, <1>8 DEF Heeded
  <2>2. \A s \in BroadcastStages : Shows(ms2, s) => Shows(ms, s)
    BY <1>3 DEF Shows
  <2>3. Moves(p, i, ms, ms2, {})
    BY <1>3, <2>1, <2>2 DEF Moves
  <2>4. QED
    BY <1>3, <1>6, <1>8, <2>3
<1>9. QED
  BY <1>1, <1>7, <1>8

-----------------------------------------------------------------------------
(* Steps of progress *)

\* What waits for a delivery has registered its instance.
PendingHeld ==
    \A p \in Correct, i \in Instance :
        revealLog[p][i].pending # <<>> => messagesLog[p][i] # NoState

\* WitnessThreshold processes of W have validated v.
Validated(W, i, v) ==
    \E S \in SUBSET W :
        Cardinality(S) >= WitnessThreshold /\ S \subseteq Voters("VALIDATE", i, v)

\* A step of p for instance i makes x of the state ms, or drops a state of a
\* delivered instance; what it delivers, WitnessThreshold own witnesses validated.
Progresses(p, i, ms, x, msgs) ==
    /\ Moves(p, i, ms, x, msgs)
    /\ sent' = sent \cup msgs
    /\ \/ messagesLog' = [messagesLog EXCEPT ![p][i] = x]
       \/ /\ messagesLog' = [messagesLog EXCEPT ![p][i] = NoState]
          /\ msgs = {} /\ deliveredMessages'[p][i] # None
          /\ messagesLog[p][i] # NoState \/ deliveredMessages' = deliveredMessages
    /\ x.stage = DeliveredStage =>
          ms.stage = DeliveredStage \/ deliveredMessages'[p][i] # None
    /\ \A q \in Correct, j \in Instance :
          <<q, j>> # <<p, i>> => revealLog'[q][j] = revealLog[q][j]
    /\ \/ deliveredMessages' = deliveredMessages
       \/ \E v \in Value :
             /\ deliveredMessages' = [deliveredMessages EXCEPT ![p][i] = v]
             /\ Validated(ms.ownWitnessSet, i, v)

LEMMA UpdateProgresses ==
    ASSUME NEW p, NEW i, NEW ms, NEW x, NEW msgs, Update(p, i, x, msgs),
           Moves(p, i, ms, x, msgs), x.stage = ms.stage \/ x.stage < DeliveredStage
    PROVE  Progresses(p, i, ms, x, msgs)
BY DEF Update, Progresses, DeliveredStage

LEMMA RowElsewhere ==
    ASSUME NEW S, NEW log \in [Correct -> [Instance -> S]],
           NEW p \in Correct, NEW i \in Instance, NEW x,
           NEW log2, log2 = [log EXCEPT ![p][i] = x]
    PROVE  \A q \in Correct, j \in Instance : <<q, j>> # <<p, i>> => log2[q][j] = log[q][j]
OBVIOUS

\* Without messages that wait, a delivery commits nothing.
LEMMA NothingReplayed ==
    ASSUME Phase, NEW p \in Correct, NEW i \in Instance, NEW ms, NEW h,
           revealLog[p][i].pending = <<>>
    PROVE  ~Replay(p, i, ms, h).committed
<1> DEFINE R == revealLog[p][i]
           before == Before([R EXCEPT !.pending = <<>>])
<1>1. Replay(p, i, ms, h) = HandleAll(p, <<>>, ms, h, before)
  BY Zenon DEF Replay
<1>2. ~before.committed
  BY DEF Before
<1> HIDE DEF before
<1>3. HandleAll(p, <<>>, ms, h, before) \in {before}
  <2>1. Len(<<>>) = 0 /\ before \in {before}
    OBVIOUS
  <2>2. \A k \in 1 .. 0, st \in {before} :
           OnCommitment(p, <<>>[k], ms, h, MixingTime = 0, st) \in {before}
    OBVIOUS
  <2>3. ASSUME NEW T, T = {before}, NEW n \in Nat, n = 0, NEW none, none = <<>>
        PROVE  HandleAll(p, none, ms, h, before) \in T
    <3>1. n = Len(none) /\ before \in T
      BY <2>3
    <3>2. \A k \in 1 .. n, st \in T : OnCommitment(p, none[k], ms, h, MixingTime = 0, st) \in T
      BY <2>3
    <3>3. QED
      BY <3>1, <3>2, LoopKeeps
  <2>4. QED
    BY <2>3
<1>4. QED
  BY <1>1, <1>2, <1>3

LEMMA DeliverProgresses ==
    ASSUME Phase, PendingHeld, NEW p \in Correct, NEW i \in Instance, NEW v \in Value,
           NEW c, NEW ms, NEW y, StateBacked(y, i), y.ownWitnessSet = ms.ownWitnessSet,
           Deliver(p, i, v, c, y), Moves(p, i, ms, [y EXCEPT !.stage = DeliveredStage], {}),
           Cardinality(VotesFor(y.validateFromWitnesses, v)) >= WitnessThreshold
    PROVE  Progresses(p, i, ms, [y EXCEPT !.stage = DeliveredStage], {})
<1> DEFINE x == [y EXCEPT !.stage = DeliveredStage]
           com == Replay(p, i, y, c.xHash).committed
           r == IF com THEN NewRevealState ELSE Replay(p, i, y, c.xHash).reveal
           S == VotesFor(y.validateFromWitnesses, v)
<1>1. /\ sent' = sent \cup {}
      /\ deliveredMessages' = [deliveredMessages EXCEPT ![p][i] = v]
      /\ messagesLog' = [messagesLog EXCEPT ![p] =
                            [messagesLog[p] EXCEPT ![i] = IF com THEN NoState ELSE x]]
      /\ revealLog' = [revealLog EXCEPT ![p][i] = r]
  BY Zenon DEF Deliver
<1>2. com => messagesLog[p][i] # NoState
  BY NothingReplayed DEF PendingHeld
<1> HIDE DEF com, r
<1>3. deliveredMessages'[p][i] # None
  <2>1. deliveredMessages'[p][i] = v
    BY <1>1, EntryReplaced DEF Phase, Inv, Typed, DeliveredType
  <2>2. QED
    BY <2>1, ValueAssumption
<1>4. \/ messagesLog' = [messagesLog EXCEPT ![p][i] = x]
      \/ messagesLog' = [messagesLog EXCEPT ![p][i] = NoState] /\ messagesLog[p][i] # NoState
  <2> HIDE DEF x
  <2>1. CASE com
    BY <1>1, <1>2, <2>1, Zenon
  <2>2. CASE ~com
    BY <1>1, <2>2, Zenon
  <2>3. QED
    BY <2>1, <2>2
<1>5. S \in SUBSET ms.ownWitnessSet /\ S \subseteq Voters("VALIDATE", i, v)
  BY DEF StateBacked, Backed, Within
<1>6. \A q \in Correct, j \in Instance :
         <<q, j>> # <<p, i>> => revealLog'[q][j] = revealLog[q][j]
  BY <1>1, RowElsewhere DEF Phase, CommitmentsTyped
<1> HIDE DEF S, x
<1>7. Moves(p, i, ms, x, {})
  BY DEF x
<1>8. Cardinality(S) >= WitnessThreshold
  BY DEF S
<1>9. Validated(ms.ownWitnessSet, i, v)
  BY <1>5, <1>8 DEF Validated
<1>10. Progresses(p, i, ms, x, {})
  BY <1>1, <1>3, <1>4, <1>6, <1>7, <1>9 DEF Progresses
<1>11. QED
  BY <1>10 DEF x

LEMMA SameMoves ==
    ASSUME NEW p, NEW i, NEW ms, StateBacked(ms, i)
    PROVE  Moves(p, i, ms, ms, {})
BY DEF Moves, StateBacked

LEMMA ReliableProgresses ==
    ASSUME Phase, PendingHeld, F <= N,
           NEW p \in Correct, NEW q \in Proc, NEW s \in BroadcastStages,
           NEW i \in Instance, NEW v \in Value, NEW c \in Content,
           Receives(p, q, s, i, v, c)
    PROVE  \E x, msgs : Progresses(p, i, RegisterMessage(p, i), x, msgs)
<1> DEFINE ms == RegisterMessage(p, i)
<1> SUFFICES \E x, msgs : Progresses(p, i, ms, x, msgs)
  OBVIOUS
<1>1. StateBacked(ms, i) /\ Arrives(q, s, i, v, c)
  BY RegisteredState DEF Phase, Receives
<1>2. \/ s = "NOTIFY" /\ ReceiveNotify(p, i, v, c, ms)
      \/ s = "ECHO_FROM_WITNESS" /\ ReceiveEchoFromWitness(p, q, i, v, c, ms)
      \/ s = "ECHO_FROM_PROCESS" /\ ReceiveEchoFromProcess(p, q, i, v, c, ms)
      \/ s = "READY_FROM_WITNESS" /\ ReceiveReadyFromWitness(p, q, i, v, c, ms)
      \/ s = "READY_FROM_PROCESS" /\ ReceiveReadyFromProcess(p, q, i, v, c, ms)
      \/ s = "VALIDATE" /\ ReceiveValidate(p, q, i, v, c, ms)
      \/ RegisterOnly(p, q, s, i, ms)
  BY DEF Receives
<1> HIDE DEF ms
<1>3. ASSUME \E x, msgs : /\ Update(p, i, x, msgs) /\ Moves(p, i, ms, x, msgs)
                          /\ x.stage = ms.stage \/ x.stage < DeliveredStage
      PROVE  \E x, msgs : Progresses(p, i, ms, x, msgs)
  BY <1>3, UpdateProgresses
<1>4. CASE s = "NOTIFY" /\ ReceiveNotify(p, i, v, c, ms)
  BY <1>1, <1>3, <1>4, NotifyMoves
<1>5. CASE s = "ECHO_FROM_WITNESS" /\ ReceiveEchoFromWitness(p, q, i, v, c, ms)
  BY <1>1, <1>3, <1>5, EchoFromWitnessMoves
<1>6. CASE s = "ECHO_FROM_PROCESS" /\ ReceiveEchoFromProcess(p, q, i, v, c, ms)
  BY <1>1, <1>3, <1>6, EchoFromProcessMoves
<1>7. CASE s = "READY_FROM_WITNESS" /\ ReceiveReadyFromWitness(p, q, i, v, c, ms)
  BY <1>1, <1>3, <1>7, ReadyFromWitnessMoves
<1>8. CASE s = "READY_FROM_PROCESS" /\ ReceiveReadyFromProcess(p, q, i, v, c, ms)
  BY <1>1, <1>3, <1>8, ReadyFromProcessMoves
<1>9. CASE s = "VALIDATE" /\ ReceiveValidate(p, q, i, v, c, ms)
  <2>1. PICK y : /\ StateBacked(y, i) /\ y.ownWitnessSet = ms.ownWitnessSet
                 /\ \/ /\ Update(p, i, y, {}) /\ Moves(p, i, ms, y, {})
                       /\ y.stage = ms.stage
                    \/ /\ Deliver(p, i, v, c, y)
                       /\ Moves(p, i, ms, [y EXCEPT !.stage = DeliveredStage], {})
                       /\ Cardinality(VotesFor(y.validateFromWitnesses, v)) >= WitnessThreshold
    BY <1>1, <1>9, ValidateMoves
  <2>2. CASE Update(p, i, y, {}) /\ Moves(p, i, ms, y, {}) /\ y.stage = ms.stage
    BY <1>3, <2>2
  <2>3. CASE /\ Deliver(p, i, v, c, y)
             /\ Moves(p, i, ms, [y EXCEPT !.stage = DeliveredStage], {})
             /\ Cardinality(VotesFor(y.validateFromWitnesses, v)) >= WitnessThreshold
    <3>1. Progresses(p, i, ms, [y EXCEPT !.stage = DeliveredStage], {})
      BY <2>1, <2>3, DeliverProgresses
    <3>2. QED
      BY <3>1
  <2>4. QED
    BY <2>1, <2>2, <2>3
<1>10. CASE RegisterOnly(p, q, s, i, ms)
  <2>1. Update(p, i, ms, {}) /\ Moves(p, i, ms, ms, {})
    BY <1>1, <1>10, SameMoves DEF RegisterOnly
  <2>2. QED
    BY <1>3, <2>1
<1>11. QED
  BY <1>2, <1>4, <1>5, <1>6, <1>7, <1>8, <1>9, <1>10

LEMMA CommitmentProgresses ==
    ASSUME Phase, NEW p \in Correct, NEW m \in commitmentSent \cup FaultyCommitments,
           HandleCommitment(p, m)
    PROVE  \E x, msgs : Progresses(p, m.inst, RegisterMessage(p, m.inst), x, msgs)
<1> DEFINE i == m.inst
           ms == RegisterMessage(p, i)
<1>1. i \in Instance
  BY CommitmentArrives DEF Phase
<1>2. StateBacked(ms, i)
  BY <1>1, RegisteredState DEF Phase
<1>3. /\ sent' = sent \cup {} /\ UNCHANGED <<deliveredMessages, deliveryOrder>>
      /\ i \notin finallyCommittedMessages[p]
      /\ KeepPending(p, m, ms) \/ ReceiveCommitment(p, m, ms)
  BY Zenon DEF HandleCommitment, FinallyCommitted
<1>4. \E r : revealLog' = [revealLog EXCEPT ![p][i] = r]
  BY <1>3, Zenon DEF KeepPending, ReceiveCommitment
<1>5. \A q \in Correct, j \in Instance :
         <<q, j>> # <<p, i>> => revealLog'[q][j] = revealLog[q][j]
  <2> HIDE DEF i
  <2>1. PICK r : revealLog' = [revealLog EXCEPT ![p][i] = r]
    BY <1>4
  <2>2. QED
    BY <1>1, <2>1, RowElsewhere DEF Phase, CommitmentsTyped
<1>6. \/ messagesLog' = [messagesLog EXCEPT ![p][i] = ms]
      \/ messagesLog' = [messagesLog EXCEPT ![p][i] = NoState] /\ Delivered(p, i)
  <2>1. CASE KeepPending(p, m, ms)
    BY <2>1, Zenon DEF KeepPending
  <2>2. CASE ReceiveCommitment(p, m, ms)
    BY <2>2, Zenon DEF ReceiveCommitment, StateAfter
  <2>3. QED
    BY <1>3, <2>1, <2>2
<1> HIDE DEF ms, i
<1>7. Delivered(p, i) => deliveredMessages'[p][i] # None
  BY <1>3 DEF Delivered
<1>8. Moves(p, i, ms, ms, {})
  BY <1>2, SameMoves
<1>9. Progresses(p, i, ms, ms, {})
  BY <1>3, <1>5, <1>6, <1>7, <1>8 DEF Progresses
<1>10. QED
  BY <1>9 DEF ms, i

-----------------------------------------------------------------------------
(* What progress keeps, with one pair of witness sets per instance *)

\* Every correct process has drawn the witness sets own and pot.
Drew(own, pot) ==
    \A p \in Correct, i \in Instance :
        messagesLog[p][i] # NoState =>
            /\ messagesLog[p][i].ownWitnessSet = own[i]
            /\ messagesLog[p][i].potWitnessSet = pot[i]

Addressed(pot) == \A m \in sent : m.to = Audience(pot[m.inst], m.stage)

\* Behind what is delivered there are validations that every process is sent.
DeliveredByOwn(own) ==
    \A p \in Correct, i \in Instance, v \in Value :
        deliveredMessages[p][i] = v => Validated(own[i], i, v)

\* The facts about a step of progress.
LEMMA ProgressShape ==
    ASSUME Inv, NEW p \in Correct, NEW i \in Instance, NEW ms, NEW x, NEW msgs,
           Progresses(p, i, ms, x, msgs)
    PROVE  /\ x \in MessageState /\ x # NoState
           /\ \A q \in Correct, j \in Instance : <<q, j>> # <<p, i>> =>
                 /\ messagesLog'[q][j] = messagesLog[q][j]
                 /\ deliveredMessages'[q][j] = deliveredMessages[q][j]
           /\ \/ messagesLog'[p][i] = x
              \/ /\ messagesLog'[p][i] = NoState
                 /\ msgs = {} /\ deliveredMessages'[p][i] # None
                 /\ messagesLog[p][i] # NoState \/ deliveredMessages' = deliveredMessages
           /\ \/ deliveredMessages'[p][i] = deliveredMessages[p][i]
              \/ \E v \in Value :
                    deliveredMessages'[p][i] = v /\ Validated(ms.ownWitnessSet, i, v)
<1>1. messagesLog \in LogType /\ deliveredMessages \in DeliveredType
  BY DEF Inv, Typed
<1>2. x \in MessageState /\ x # NoState
  BY NoStateIsNone DEF Progresses, Moves
<1>3. /\ \A q \in Correct, j \in Instance :
            <<q, j>> # <<p, i>> => messagesLog'[q][j] = messagesLog[q][j]
      /\ \/ messagesLog'[p][i] = x
         \/ /\ messagesLog'[p][i] = NoState
            /\ msgs = {} /\ deliveredMessages'[p][i] # None
            /\ messagesLog[p][i] # NoState \/ deliveredMessages' = deliveredMessages
  <2>1. CASE messagesLog' = [messagesLog EXCEPT ![p][i] = x]
    BY <1>1, <1>2, <2>1, EntryReplaced DEF LogType
  <2>2. CASE /\ messagesLog' = [messagesLog EXCEPT ![p][i] = NoState]
             /\ msgs = {} /\ deliveredMessages'[p][i] # None
             /\ messagesLog[p][i] # NoState \/ deliveredMessages' = deliveredMessages
    BY <1>1, <2>2, EntryReplaced DEF LogType
  <2>3. QED
    BY <2>1, <2>2 DEF Progresses
<1>4. /\ \A q \in Correct, j \in Instance :
            <<q, j>> # <<p, i>> => deliveredMessages'[q][j] = deliveredMessages[q][j]
      /\ \/ deliveredMessages'[p][i] = deliveredMessages[p][i]
         \/ \E v \in Value :
               deliveredMessages'[p][i] = v /\ Validated(ms.ownWitnessSet, i, v)
  <2>1. CASE deliveredMessages' = deliveredMessages
    BY <2>1
  <2>2. ASSUME NEW v \in Value,
               deliveredMessages' = [deliveredMessages EXCEPT ![p][i] = v],
               Validated(ms.ownWitnessSet, i, v)
        PROVE  <1>4!:
    <3>1. /\ deliveredMessages'[p][i] = v
          /\ \A q \in Correct, j \in Instance :
                <<q, j>> # <<p, i>> => deliveredMessages'[q][j] = deliveredMessages[q][j]
      BY <1>1, <2>2, EntryReplaced DEF DeliveredType
    <3>2. QED
      BY <2>2, <3>1
  <2>3. QED
    BY <2>1, <2>2 DEF Progresses
<1>5. QED
  BY <1>2, <1>3, <1>4

LEMMA SaidMonotone ==
    ASSUME sent \subseteq sent', NEW p, NEW s, NEW i, Said(p, s, i)
    PROVE  Said(p, s, i)'
BY DEF Said

LEMMA ValidatedMonotone ==
    ASSUME sent \subseteq sent', NEW W, NEW i, NEW v, Validated(W, i, v)
    PROVE  Validated(W, i, v)'
BY VotersMonotone DEF Validated

LEMMA ProgressKept ==
    ASSUME Inv, ProgressInv, NEW p \in Correct, NEW i \in Instance, NEW x, NEW msgs,
           Progresses(p, i, RegisterMessage(p, i), x, msgs)
    PROVE  ProgressInv'
<1> DEFINE ms == RegisterMessage(p, i)
           Good(y, q, j) == /\ \A s \in BroadcastStages : Shows(y, s) => Said(q, s, j)'
                            /\ y.stage = DeliveredStage => Delivered(q, j)'
                            /\ Heeded(y)
<1>1. /\ Moves(p, i, ms, x, msgs) /\ sent' = sent \cup msgs /\ sent \subseteq sent'
      /\ x.stage = DeliveredStage => ms.stage = DeliveredStage \/ Delivered(p, i)'
  BY DEF Progresses, Delivered
<1>2. /\ \A s \in BroadcastStages : Shows(ms, s) => Said(p, s, i)
      /\ ms.stage = DeliveredStage => Delivered(p, i)
      /\ Heeded(ms)
  <2>1. CASE messagesLog[p][i] = NoState
    <3>1. ms = NewMessageState(p)
      BY <2>1 DEF RegisterMessage
    <3> HIDE DEF ms
    <3>2. ms.stage # DeliveredStage /\ Heeded(ms) /\ \A s \in BroadcastStages : ~Shows(ms, s)
      BY <3>1, FreshHeeded DEF InitialStage, DeliveredStage
    <3>3. QED
      BY <3>2
  <2>2. CASE messagesLog[p][i] # NoState
    BY <2>2 DEF RegisterMessage, ProgressInv
  <2>3. QED
    BY <2>1, <2>2
<1> HIDE DEF ms
<1>3. Delivered(p, i) => Delivered(p, i)'
  BY ProgressShape, ValueAssumption DEF Delivered, ms
<1>4. Good(x, p, i)
  <2>1. \A s \in BroadcastStages : Shows(x, s) => Said(p, s, i)'
    BY <1>1, <1>2, SaidMonotone DEF Moves, Said
  <2>2. QED
    BY <1>1, <1>2, <1>3, <2>1 DEF Moves
<1>5. ASSUME NEW q \in Correct, NEW j \in Instance, messagesLog'[q][j] # NoState
      PROVE  Good(messagesLog'[q][j], q, j)
  <2>1. CASE <<q, j>> = <<p, i>>
    <3>1. q = p /\ j = i /\ messagesLog'[q][j] = x
      BY <1>5, <2>1, ProgressShape DEF ms
    <3> HIDE DEF Good
    <3>2. QED
      BY <1>4, <3>1
  <2>2. CASE <<q, j>> # <<p, i>>
    <3>1. /\ messagesLog'[q][j] = messagesLog[q][j]
          /\ deliveredMessages'[q][j] = deliveredMessages[q][j]
      BY <2>2, ProgressShape DEF ms
    <3>2. /\ \A s \in BroadcastStages : Shows(messagesLog[q][j], s) => Said(q, s, j)
          /\ messagesLog[q][j].stage = DeliveredStage => Delivered(q, j)
          /\ Heeded(messagesLog[q][j])
      BY <1>5, <3>1 DEF ProgressInv
    <3>3. QED
      BY <1>1, <3>1, <3>2, SaidMonotone DEF Delivered
  <2>3. QED
    BY <2>1, <2>2
<1>6. QED
  BY <1>5, Zenon DEF ProgressInv, Good, Heeded, Shows

LEMMA PendingKept ==
    ASSUME Phase, Phase', PendingHeld, NEW p \in Correct, NEW i \in Instance, NEW ms,
           NEW x, NEW msgs, Progresses(p, i, ms, x, msgs)
    PROVE  PendingHeld'
<1> SUFFICES ASSUME NEW q \in Correct, NEW j \in Instance, messagesLog'[q][j] = NoState
             PROVE  revealLog'[q][j].pending = <<>>
  BY DEF PendingHeld
<1>1. CASE <<q, j>> = <<p, i>>
  <2>1. q = p /\ j = i /\ deliveredMessages'[p][i] # None
    BY <1>1, ProgressShape DEF Phase
  <2>2. QED
    BY <2>1 DEF Phase, RevealInv, PendingOnlyBeforeDelivery, Delivered
<1>2. CASE <<q, j>> # <<p, i>>
  <2>1. messagesLog'[q][j] = messagesLog[q][j] /\ revealLog'[q][j] = revealLog[q][j]
    BY <1>2, ProgressShape DEF Phase, Progresses
  <2>2. QED
    BY <2>1 DEF PendingHeld
<1>3. QED
  BY <1>1, <1>2

LEMMA AddressedKept ==
    ASSUME Phase, NEW own, NEW pot, Addressed(pot), Drew(own, pot)',
           NEW p \in Correct, NEW i \in Instance, NEW ms, NEW x, NEW msgs,
           Progresses(p, i, ms, x, msgs)
    PROVE  Addressed(pot)'
<1>1. sent' = sent \cup msgs /\ Moves(p, i, ms, x, msgs)
  BY DEF Progresses
<1>2. msgs # {} => ms.potWitnessSet = pot[i]
  <2>1. msgs # {} => messagesLog'[p][i] = x /\ x # NoState
    BY ProgressShape DEF Phase
  <2>2. QED
    BY <1>1, <2>1 DEF Drew, Moves
<1>3. \A m \in msgs : m.to = Audience(pot[m.inst], m.stage)
  BY <1>1, <1>2 DEF Moves
<1>4. QED
  BY <1>1, <1>3 DEF Addressed

LEMMA DeliveredByOwnKept ==
    ASSUME Phase, NEW own, NEW pot, DeliveredByOwn(own), Drew(own, pot), Drew(own, pot)',
           NEW p \in Correct, NEW i \in Instance, NEW ms, ms = RegisterMessage(p, i),
           NEW x, NEW msgs, Progresses(p, i, ms, x, msgs)
    PROVE  DeliveredByOwn(own)'
<1> SUFFICES ASSUME NEW q \in Correct, NEW j \in Instance, NEW w \in Value,
                    deliveredMessages'[q][j] = w
             PROVE  Validated(own[j], j, w)'
  BY DEF DeliveredByOwn
<1>1. Validated(own[j], j, w)
  <2>1. CASE deliveredMessages[q][j] = w
    BY <2>1 DEF DeliveredByOwn
  <2>2. CASE deliveredMessages[q][j] # w
    <3>1. q = p /\ j = i
      BY <2>2, ProgressShape DEF Phase
    <3>2. Validated(ms.ownWitnessSet, i, w)
      BY <2>2, <3>1, ProgressShape DEF Phase
    <3>3. ms.ownWitnessSet = own[i]
      <4>1. CASE messagesLog[p][i] # NoState
        BY <4>1 DEF Drew, RegisterMessage
      <4>2. CASE messagesLog[p][i] = NoState
        <5>1. messagesLog'[p][i] = x /\ x # NoState
          BY <2>2, <3>1, <4>2, ProgressShape DEF Phase
        <5>2. QED
          BY <5>1 DEF Drew, Progresses, Moves
      <4>3. QED
        BY <4>1, <4>2
    <3>4. QED
      BY <3>1, <3>2, <3>3
  <2>3. QED
    BY <2>1, <2>2
<1>2. QED
  BY <1>1, ValidatedMonotone DEF Progresses

\* The inductive invariant behind ProgressInv,
Progressing == Phase /\ ProgressInv /\ PendingHeld

\* and behind Validity.
ValidityInv(own, pot) == Progressing /\ Addressed(pot) /\ DeliveredByOwn(own)

\* Broadcast registers a fresh state, notifies the potential witnesses drawn for
\* it, and delivers nothing.
LEMMA BroadcastKept ==
    ASSUME Progressing, Phase', NEW p \in Correct, NEW v \in Value, Broadcast(p, v)
    PROVE  /\ Progressing'
           /\ deliveredMessages' = deliveredMessages /\ sent \subseteq sent'
           /\ \E i \in Instance :
                 /\ messagesLog' = [messagesLog EXCEPT ![p][i] = NewMessageState(p)]
                 /\ messagesLog'[p][i] = NewMessageState(p) /\ messagesLog'[p][i] # NoState
                 /\ \A m \in sent' \ sent : /\ m.inst = i /\ m.stage = "NOTIFY"
                                           /\ m.to = NewMessageState(p).potWitnessSet
<1> DEFINE i == [author |-> p, seqNumber |-> transactionCounter[p]]
           x == NewMessageState(p)
           n == Msg(p, x.potWitnessSet, "NOTIFY", i, v, Genuine(p))
<1>1. /\ sent' = sent \cup {n}
      /\ messagesLog' = [messagesLog EXCEPT ![p][i] = x]
      /\ revealLog' = [revealLog EXCEPT ![p][i] = NewRevealState]
      /\ UNCHANGED <<deliveredMessages, finallyCommittedMessages>>
  BY Zenon DEF Broadcast, commitmentVars
<1>2. /\ i \in Instance /\ n.stage = "NOTIFY" /\ n.inst = i /\ n.to = x.potWitnessSet
  <2>1. PICK j \in Instance, y \in MessageState, k \in Message : Begins(p, v, j, y, k)
    BY BroadcastShape DEF Progressing, Phase
  <2>2. i = j
    BY <2>1 DEF Begins, Instance
  <2>3. QED
    BY <2>2 DEF Msg
<1>3. /\ messagesLog \in LogType /\ deliveredMessages \in DeliveredType
      /\ revealLog \in [Correct -> [Instance -> RevealState]]
      /\ history[p] \in SUBSET (Instance \X Secret)
  BY DEF Progressing, Phase, Inv, Typed, CommitmentsTyped
<1> HIDE DEF i, n
<1>4. x \in MessageState /\ x # NoState
  BY <1>3, FreshState, NoStateIsNone DEF StateBacked
<1>5. /\ Heeded(x) /\ x.stage # DeliveredStage /\ \A s \in BroadcastStages : ~Shows(x, s)
  BY <1>3, FreshHeeded DEF InitialStage, DeliveredStage
<1> HIDE DEF x
<1>6. /\ messagesLog'[p][i] = x /\ revealLog'[p][i] = NewRevealState
      /\ \A q \in Correct, j \in Instance : <<q, j>> # <<p, i>> =>
            /\ messagesLog'[q][j] = messagesLog[q][j]
            /\ revealLog'[q][j] = revealLog[q][j]
  <2>1. NewRevealState \in RevealState
    BY NewReveal
  <2>2. QED
    BY <1>1, <1>2, <1>3, <1>4, <2>1, EntryReplaced DEF LogType
<1>7. ProgressInv'
  <2> DEFINE Good(y, q, j) == /\ \A s \in BroadcastStages : Shows(y, s) => Said(q, s, j)'
                              /\ y.stage = DeliveredStage => Delivered(q, j)'
                              /\ Heeded(y)
  <2>1. ASSUME NEW q \in Correct, NEW j \in Instance, messagesLog'[q][j] # NoState
        PROVE  Good(messagesLog'[q][j], q, j)
    <3>1. CASE <<q, j>> = <<p, i>>
      BY <1>5, <1>6, <3>1
    <3>2. CASE <<q, j>> # <<p, i>>
      <4>1. messagesLog'[q][j] = messagesLog[q][j]
        BY <1>6, <3>2
      <4>2. /\ \A s \in BroadcastStages : Shows(messagesLog[q][j], s) => Said(q, s, j)
            /\ messagesLog[q][j].stage = DeliveredStage => Delivered(q, j)
            /\ Heeded(messagesLog[q][j])
        BY <2>1, <4>1 DEF Progressing, ProgressInv
      <4>3. QED
        BY <1>1, <4>1, <4>2, SaidMonotone DEF Delivered
    <3>3. QED
      BY <3>1, <3>2
  <2>2. QED
    BY <2>1, Zenon DEF ProgressInv, Good, Heeded, Shows
<1>8. PendingHeld'
  BY <1>2, <1>4, <1>6 DEF Progressing, PendingHeld
<1>9. \A m \in sent' \ sent : m = n
  BY <1>1
<1>10. QED
  BY <1>1, <1>2, <1>4, <1>6, <1>7, <1>8, <1>9 DEF Progressing, x

LEMMA BroadcastDraws ==
    ASSUME NEW own, NEW pot, ValidityInv(own, pot), Drew(own, pot)', Phase',
           NEW p \in Correct, NEW v \in Value, Broadcast(p, v)
    PROVE  ValidityInv(own, pot)'
<1>1. PICK i \in Instance :
         /\ messagesLog'[p][i] = NewMessageState(p) /\ messagesLog'[p][i] # NoState
         /\ \A m \in sent' \ sent : /\ m.inst = i /\ m.stage = "NOTIFY"
                                   /\ m.to = NewMessageState(p).potWitnessSet
  BY BroadcastKept, Zenon DEF ValidityInv
<1>2. Progressing' /\ deliveredMessages' = deliveredMessages /\ sent \subseteq sent'
  BY BroadcastKept, Zenon DEF ValidityInv
<1>3. NewMessageState(p).potWitnessSet = pot[i]
  BY <1>1 DEF Drew
<1>4. Addressed(pot)'
  BY <1>1, <1>3 DEF ValidityInv, Addressed, Audience
<1>5. DeliveredByOwn(own)'
  BY <1>2, ValidatedMonotone DEF ValidityInv, DeliveredByOwn
<1>6. QED
  BY <1>2, <1>4, <1>5 DEF ValidityInv

LEMMA ProgressingKept ==
    ASSUME Progressing, Phase', NEW p \in Correct, NEW i \in Instance, NEW x, NEW msgs,
           Progresses(p, i, RegisterMessage(p, i), x, msgs)
    PROVE  Progressing'
<1>1. ProgressInv'
  BY ProgressKept DEF Progressing, Phase
<1>2. PendingHeld'
  BY PendingKept DEF Progressing
<1>3. QED
  BY <1>1, <1>2 DEF Progressing

\* What a step is for the invariants of progress.
Advances ==
    \/ \E p \in Correct, v \in Value : Broadcast(p, v)
    \/ \E p \in Correct, i \in Instance : \E x, msgs :
          Progresses(p, i, RegisterMessage(p, i), x, msgs)
    \/ UNCHANGED <<messagesLog, deliveredMessages, revealLog, sent>>

LEMMA NextAdvances ==
    ASSUME F <= N
    PROVE  Progressing /\ [Next]_vars => Phase' /\ Advances
<1> SUFFICES ASSUME Progressing, [Next]_vars
             PROVE  Phase' /\ Advances
  OBVIOUS
<1>1. F <= N
  OBVIOUS
<1>2. Phase /\ PendingHeld
  BY DEF Progressing
<1>3. Phase'
  BY <1>2, PhaseNext
<1>4. ASSUME NEW p \in Correct, NEW v \in Value, Broadcast(p, v)
      PROVE  Advances
  BY <1>4 DEF Advances
<1>5. ASSUME NEW p \in Correct, NEW q \in Proc, NEW s \in BroadcastStages,
             NEW i \in Instance, NEW v \in Value, NEW c \in Content,
             Receives(p, q, s, i, v, c)
      PROVE  Advances
  BY <1>1, <1>2, <1>5, ReliableProgresses, Zenon DEF Advances
<1>6. ASSUME NEW p \in Correct, NEW m \in commitmentSent \cup FaultyCommitments,
             HandleCommitment(p, m)
      PROVE  Advances
  <2>1. m.inst \in Instance
    BY <1>2, CommitmentArrives DEF Phase
  <2>2. QED
    BY <1>2, <1>6, <2>1, CommitmentProgresses, Zenon DEF Advances
<1>7. ASSUME UNCHANGED vars
      PROVE  Advances
  BY <1>7 DEF vars, Advances
<1>8. QED
  BY <1>2, <1>3, <1>4, <1>5, <1>6, <1>7, NextSteps DEF Phase, Inv

LEMMA ProgressingNext ==
    ASSUME F <= N
    PROVE  Progressing /\ [Next]_vars => Progressing'
<1> SUFFICES ASSUME Progressing, [Next]_vars
             PROVE  Progressing'
  OBVIOUS
<1>1. Phase' /\ Advances
  BY NextAdvances
<1>2. CASE UNCHANGED <<messagesLog, deliveredMessages, revealLog, sent>>
  <2>1. ProgressInv' /\ PendingHeld'
    BY <1>2 DEF Progressing, ProgressInv, Said, Delivered, PendingHeld
  <2>2. QED
    BY <1>1, <2>1 DEF Progressing
<1>3. QED
  BY <1>1, <1>2, BroadcastKept, ProgressingKept DEF Advances

LEMMA ProgressesKept ==
    ASSUME NEW own, NEW pot, ValidityInv(own, pot), Drew(own, pot), Drew(own, pot)',
           Phase', NEW p \in Correct, NEW i \in Instance, NEW x, NEW msgs,
           Progresses(p, i, RegisterMessage(p, i), x, msgs)
    PROVE  ValidityInv(own, pot)'
<1>1. Progressing'
  BY ProgressingKept DEF ValidityInv
<1>2. Addressed(pot)'
  BY AddressedKept DEF ValidityInv, Progressing
<1>3. DeliveredByOwn(own)'
  BY DeliveredByOwnKept DEF ValidityInv, Progressing
<1>4. QED
  BY <1>1, <1>2, <1>3 DEF ValidityInv

LEMMA ValidityInvNext ==
    ASSUME NEW own, NEW pot, F <= N
    PROVE  ValidityInv(own, pot) /\ Drew(own, pot) /\ Drew(own, pot)' /\ [Next]_vars
              => ValidityInv(own, pot)'
<1> SUFFICES ASSUME ValidityInv(own, pot), Drew(own, pot), Drew(own, pot)', [Next]_vars
             PROVE  ValidityInv(own, pot)'
  OBVIOUS
<1>1. Phase' /\ Advances /\ Progressing'
  BY NextAdvances, ProgressingNext DEF ValidityInv
<1>2. CASE UNCHANGED <<messagesLog, deliveredMessages, revealLog, sent>>
  <2>1. Addressed(pot)' /\ DeliveredByOwn(own)'
    BY <1>2 DEF ValidityInv, Addressed, DeliveredByOwn, Validated, Voters, Sent
  <2>2. QED
    BY <1>1, <2>1 DEF ValidityInv
<1>3. QED
  BY <1>1, <1>2, BroadcastDraws, ProgressesKept DEF Advances

-----------------------------------------------------------------------------
(* Settled without a delivery *)

\* The witness sets of every instance: enough correct own witnesses, all of them
\* potential ones, and a quorum of correct processes.
WellDrawn(own, pot) ==
    /\ own \in [Instance -> SUBSET Proc] /\ pot \in [Instance -> SUBSET Proc]
    /\ \A i \in Instance : /\ own[i] \subseteq pot[i]
                           /\ Cardinality(own[i] \cap Correct) >= WitnessThreshold
    /\ Cardinality(Correct) >= QuorumThreshold

\* The faulty processes are silent, the broadcast has settled, and i has been
\* begun with v.
Rests(own, pot, i, v) ==
    /\ FaultyMessages = {} /\ WellDrawn(own, pot)
    /\ ValidityInv(own, pot) /\ Drew(own, pot) /\ Settled /\ stopped = {}
    /\ i \in Instance /\ i \in Authentic /\ v \in Value /\ Sent(i.author, "NOTIFY", i, v)

\* Whatever is said of i is said of v.
LEMMA OneValue ==
    ASSUME NEW own, NEW pot, NEW i, NEW v, Rests(own, pot, i, v),
           NEW m \in sent, m.inst = i
    PROVE  m.value = v
<1>1. Inv /\ i \in Authentic /\ Sent(i.author, "NOTIFY", i, v)
  BY DEF Rests, ValidityInv, Progressing, Phase
<1>2. Sent(i.author, "NOTIFY", i, m.value)
  <2>1. m \in Message
    BY <1>1 DEF Inv, Typed
  <2>2. CASE m.stage = "NOTIFY"
    BY <1>1, <2>2 DEF Inv, WitnessInv, NotifiedOnce, Sent
  <2>3. CASE m.stage \in {"ECHO_FROM_WITNESS", "ECHO_FROM_PROCESS"}
    BY <1>1, <2>3 DEF Inv, WitnessInv, EchoSourced
  <2>4. CASE m.stage \in {"READY_FROM_WITNESS", "READY_FROM_PROCESS", "VALIDATE"}
    <3>1. EchoQuorum(i, m.value)
      BY <1>1, <2>4 DEF Inv, WitnessInv, QuorumBehindReady
    <3>2. QED
      BY <1>1, <3>1, EchoesFromAuthor
  <2>5. QED
    BY <2>1, <2>2, <2>3, <2>4 DEF Message, BroadcastStages
<1>3. QED
  BY <1>1, <1>2 DEF Sent, Inv, WitnessInv, NotifiedOnce

LEMMA VoterSaid ==
    ASSUME NEW own, NEW pot, NEW i, NEW v, Rests(own, pot, i, v),
           NEW s, NEW u, NEW q \in Voters(s, i, u)
    PROVE  q \in Correct /\ Said(q, s, i) /\ u = v
BY OneValue DEF Voters, Sent, Said, Rests

\* What was said reaches all it was sent to, unless they have committed.
LEMMA Heard ==
    ASSUME NEW own, NEW pot, NEW i, NEW v, Rests(own, pot, i, v),
           NEW p \in Correct, ~FinallyCommitted(p, i), NEW q \in Correct,
           NEW s \in BroadcastStages, Said(q, s, i), p \in Audience(pot[i], s)
    PROVE  messagesLog[p][i] # NoState /\ ~Takes(p, q, s, messagesLog[p][i])
<1>1. PICK m \in sent : m.from = q /\ m.stage = s /\ m.inst = i
  BY DEF Said
<1>2. m.value = v /\ m.to = Audience(pot[i], s)
  BY <1>1, OneValue DEF Rests, ValidityInv, Addressed
<1>3. Receivable(p, q, s, i, v)
  BY <1>1, <1>2 DEF Receivable, Incoming
<1>4. ~Waits(p, q, s, i, v) /\ p \notin stopped
  BY DEF Rests, Settled
<1>5. QED
  BY <1>3, <1>4 DEF Waits

\* The state of a process that has not delivered.
LEMMA StateAtRest ==
    ASSUME NEW own, NEW pot, NEW i, NEW v, Rests(own, pot, i, v),
           NEW p \in Correct, ~Delivered(p, i), NEW ms, ms = messagesLog[p][i]
    PROVE  /\ ~FinallyCommitted(p, i)
           /\ ms # NoState =>
                 /\ StateBacked(ms, i) /\ Heeded(ms)
                 /\ ms.ownWitnessSet = own[i] /\ ms.potWitnessSet = pot[i]
                 /\ ms.stage \in 0 .. 2 /\ ms.witnessStage \in 0 .. 3
                 /\ \A s \in BroadcastStages : Shows(ms, s) => Said(p, s, i)
<1>1. ValidityInv(own, pot) /\ Drew(own, pot) /\ i \in Instance
  BY DEF Rests
<1>2. ~FinallyCommitted(p, i)
  BY <1>1 DEF ValidityInv, Progressing, Phase, RevealInv, CommitAfterMixing, FinallyCommitted
<1>3. ASSUME ms # NoState
      PROVE  /\ StateBacked(ms, i) /\ Heeded(ms)
             /\ ms.ownWitnessSet = own[i] /\ ms.potWitnessSet = pot[i]
             /\ ms.stage # DeliveredStage
             /\ \A s \in BroadcastStages : Shows(ms, s) => Said(p, s, i)
  <2>1. StateBacked(ms, i)
    BY <1>1, <1>3 DEF ValidityInv, Progressing, Phase, Inv, WitnessInv, VotesBacked
  <2>2. QED
    BY <1>1, <1>3, <2>1 DEF ValidityInv, Progressing, ProgressInv, Drew
<1>4. ms # NoState => ms.stage \in 0 .. 2 /\ ms.witnessStage \in 0 .. 3
  BY <1>3, StateParts DEF DeliveredStage
<1>5. QED
  BY <1>2, <1>3, <1>4

\* All the votes are for v.
LEMMA VotesCounted ==
    ASSUME NEW own, NEW pot, NEW i, NEW v, Rests(own, pot, i, v),
           NEW votes \in Votes, NEW s, Backed(votes, s, i),
           NEW T \in Nat, Cardinality(VotesFor(votes, v)) < T,
           NEW S \in SUBSET Proc, \A q \in S : Voted(votes, q)
    PROVE  Cardinality(S) < T
<1>1. ASSUME NEW q \in S
      PROVE  q \in VotesFor(votes, v)
  <2>1. PICK u \in Value : <<q, u>> \in votes
    BY DEF Voted
  <2>2. q \in Voters(s, i, u)
    BY <2>1 DEF Backed, VotesFor
  <2>3. u = v
    BY <2>2, VoterSaid
  <2>4. QED
    BY <2>1, <2>3 DEF VotesFor
<1>2. VotesFor(votes, v) \in SUBSET Proc /\ S \in SUBSET VotesFor(votes, v)
  BY <1>1 DEF VotesFor
<1>3. QED
  BY <1>2, SubsetCardinality, ProcSubset

\* If an instance rests, who has not delivered lacks validations of own witnesses.
LEMMA TooFewValidations ==
    ASSUME NEW own, NEW pot, NEW i, NEW v, Rests(own, pot, i, v),
           NEW p \in Correct, ~Delivered(p, i),
           NEW S \in SUBSET own[i], S \subseteq Correct, S # {},
           \A q \in S : Said(q, "VALIDATE", i)
    PROVE  Cardinality(S) < WitnessThreshold
<1> DEFINE ms == messagesLog[p][i]
<1>1. \A q \in S : ms # NoState /\ ~Takes(p, q, "VALIDATE", ms)
  BY StateAtRest, Heard DEF Audience, BroadcastStages, Correct
<1>2. ms # NoState /\ S \in SUBSET Proc /\ WitnessThreshold \in Nat /\ v \in Value
  BY <1>1, ParameterAssumption DEF Correct, Rests
<1> HIDE DEF ms
<1>3. StateBacked(ms, i) /\ Heeded(ms) /\ ms.ownWitnessSet = own[i] /\ ms.stage \in 0 .. 2
  BY <1>2, StateAtRest DEF ms
<1>4. \A q \in S : Voted(ms.validateFromWitnesses, q)
  BY <1>1, <1>3 DEF Takes, TakesValidate, DeliveredStage
<1>5. Cardinality(VotesFor(ms.validateFromWitnesses, v)) < WitnessThreshold
  BY <1>2, <1>3 DEF Heeded, DeliveredStage
<1>6. Backed(ms.validateFromWitnesses, "VALIDATE", i) /\ ms.validateFromWitnesses \in Votes
  BY <1>3, StateParts DEF StateBacked
<1>7. QED
  BY <1>2, <1>4, <1>5, <1>6, VotesCounted

\* So does who is not ready lack ready own witnesses,
LEMMA TooFewReadyWitnesses ==
    ASSUME NEW own, NEW pot, NEW i, NEW v, Rests(own, pot, i, v),
           NEW p \in Correct, ~Delivered(p, i), ~Said(p, "READY_FROM_PROCESS", i),
           NEW S \in SUBSET own[i], S \subseteq Correct, S # {},
           \A q \in S : Said(q, "READY_FROM_WITNESS", i)
    PROVE  Cardinality(S) < WitnessThreshold
<1> DEFINE ms == messagesLog[p][i]
<1>1. \A q \in S : ms # NoState /\ ~Takes(p, q, "READY_FROM_WITNESS", ms)
  BY StateAtRest, Heard DEF Audience, BroadcastStages, Correct
<1>2. ms # NoState /\ S \in SUBSET Proc /\ WitnessThreshold \in Nat /\ v \in Value
  BY <1>1, ParameterAssumption DEF Correct, Rests
<1> HIDE DEF ms
<1>3. StateBacked(ms, i) /\ Heeded(ms) /\ ms.ownWitnessSet = own[i] /\ ms.stage \in 0 .. 1
  <2>1. /\ StateBacked(ms, i) /\ Heeded(ms) /\ ms.ownWitnessSet = own[i] /\ ms.stage \in 0 .. 2
        /\ ~Shows(ms, "READY_FROM_PROCESS")
    BY <1>2, StateAtRest DEF ms, BroadcastStages
  <2>2. QED
    BY <2>1 DEF Shows, SentReadyFromProcess
<1>4. \A q \in S : Voted(ms.readyFromWitnesses, q)
  BY <1>1, <1>3 DEF Takes, TakesReadyFromWitness, SentReadyFromProcess
<1>5. Cardinality(VotesFor(ms.readyFromWitnesses, v)) < WitnessThreshold
  BY <1>2, <1>3 DEF Heeded, SentReadyFromProcess
<1>6. Backed(ms.readyFromWitnesses, "READY_FROM_WITNESS", i) /\ ms.readyFromWitnesses \in Votes
  BY <1>3, StateParts DEF StateBacked
<1>7. QED
  BY <1>2, <1>4, <1>5, <1>6, VotesCounted

\* a witness that has not validated ready processes,
LEMMA TooFewReadyProcesses ==
    ASSUME NEW own, NEW pot, NEW i, NEW v, Rests(own, pot, i, v),
           NEW w \in Correct, w \in pot[i], ~Delivered(w, i), ~Said(w, "VALIDATE", i),
           NEW S \in SUBSET Correct, S # {},
           \A q \in S : Said(q, "READY_FROM_PROCESS", i)
    PROVE  Cardinality(S) < QuorumThreshold
<1> DEFINE ms == messagesLog[w][i]
<1>1. \A q \in S : ms # NoState /\ ~Takes(w, q, "READY_FROM_PROCESS", ms)
  BY StateAtRest, Heard DEF Audience, BroadcastStages, Correct
<1>2. ms # NoState /\ S \in SUBSET Proc /\ QuorumThreshold \in Nat /\ v \in Value
  BY <1>1, Thresholds DEF Correct, Rests
<1> HIDE DEF ms
<1>3. /\ StateBacked(ms, i) /\ Heeded(ms) /\ ms.potWitnessSet = pot[i]
      /\ ms.witnessStage \in 0 .. 2
  <2>1. /\ StateBacked(ms, i) /\ Heeded(ms) /\ ms.potWitnessSet = pot[i]
        /\ ms.witnessStage \in 0 .. 3 /\ ~Shows(ms, "VALIDATE")
    BY <1>2, StateAtRest DEF ms, BroadcastStages
  <2>2. QED
    BY <2>1 DEF Shows, SentValidate
<1>4. \A q \in S : Voted(ms.readyFromProcesses, q)
  BY <1>1, <1>3 DEF Takes, TakesReadyFromProcess, IsWitness
<1>5. Cardinality(VotesFor(ms.readyFromProcesses, v)) < QuorumThreshold
  BY <1>2, <1>3 DEF Heeded, SentValidate
<1>6. Backed(ms.readyFromProcesses, "READY_FROM_PROCESS", i) /\ ms.readyFromProcesses \in Votes
  BY <1>3, StateParts DEF StateBacked
<1>7. QED
  BY <1>2, <1>4, <1>5, <1>6, VotesCounted

\* and one that is not ready echoes.
LEMMA TooFewEchoes ==
    ASSUME NEW own, NEW pot, NEW i, NEW v, Rests(own, pot, i, v),
           NEW w \in Correct, w \in pot[i], ~Delivered(w, i),
           ~Said(w, "READY_FROM_WITNESS", i),
           NEW S \in SUBSET Correct, S # {},
           \A q \in S : Said(q, "ECHO_FROM_PROCESS", i)
    PROVE  Cardinality(S) < QuorumThreshold
<1> DEFINE ms == messagesLog[w][i]
<1>1. \A q \in S : ms # NoState /\ ~Takes(w, q, "ECHO_FROM_PROCESS", ms)
  BY StateAtRest, Heard DEF Audience, BroadcastStages, Correct
<1>2. ms # NoState /\ S \in SUBSET Proc /\ QuorumThreshold \in Nat /\ v \in Value
  BY <1>1, Thresholds DEF Correct, Rests
<1> HIDE DEF ms
<1>3. /\ StateBacked(ms, i) /\ Heeded(ms) /\ ms.potWitnessSet = pot[i]
      /\ ms.witnessStage \in 0 .. 1
  <2>1. /\ StateBacked(ms, i) /\ Heeded(ms) /\ ms.potWitnessSet = pot[i]
        /\ ms.witnessStage \in 0 .. 3 /\ ~Shows(ms, "READY_FROM_WITNESS")
    BY <1>2, StateAtRest DEF ms, BroadcastStages
  <2>2. QED
    BY <2>1 DEF Shows, SentReadyFromWitness
<1>4. \A q \in S : Voted(ms.echoFromProcesses, q)
  BY <1>1, <1>3 DEF Takes, TakesEchoFromProcess, IsWitness, SentReadyFromWitness
<1>5. Cardinality(VotesFor(ms.echoFromProcesses, v)) < QuorumThreshold
  BY <1>2, <1>3 DEF Heeded, SentReadyFromWitness
<1>6. Backed(ms.echoFromProcesses, "ECHO_FROM_PROCESS", i) /\ ms.echoFromProcesses \in Votes
  BY <1>3, StateParts DEF StateBacked
<1>7. QED
  BY <1>2, <1>4, <1>5, <1>6, VotesCounted

\* Without a delivery, a witness that is not ready has passed the value on, and
\* whoever is not ready has echoed it.
LEMMA WitnessEchoed ==
    ASSUME NEW own, NEW pot, NEW i, NEW v, Rests(own, pot, i, v),
           NEW w \in Correct, w \in pot[i], ~Delivered(w, i),
           ~Said(w, "READY_FROM_WITNESS", i)
    PROVE  Said(w, "ECHO_FROM_WITNESS", i)
<1> DEFINE ms == messagesLog[w][i]
<1>1. i.author \in Correct /\ Said(i.author, "NOTIFY", i)
  BY DEF Rests, Authentic, Sent, Said
<1>2. ms # NoState /\ ~Takes(w, i.author, "NOTIFY", ms)
  BY <1>1, StateAtRest, Heard DEF Audience, BroadcastStages
<1> HIDE DEF ms
<1>3. /\ ms.potWitnessSet = pot[i] /\ ms.witnessStage \in 0 .. 3
      /\ \A s \in BroadcastStages : Shows(ms, s) => Said(w, s, i)
  BY <1>2, StateAtRest DEF ms
<1>4. ms.witnessStage \in 1 .. 3
  BY <1>2, <1>3 DEF Takes, TakesNotify, IsWitness, SentEchoFromWitness
<1>5. Shows(ms, "ECHO_FROM_WITNESS") \/ Shows(ms, "READY_FROM_WITNESS")
  BY <1>4 DEF Shows, SentEchoFromWitness, SentReadyFromWitness
<1>6. QED
  BY <1>3, <1>5 DEF BroadcastStages

LEMMA ProcessEchoed ==
    ASSUME NEW own, NEW pot, NEW i, NEW v, Rests(own, pot, i, v),
           NEW p \in Correct, ~Delivered(p, i), ~Said(p, "READY_FROM_PROCESS", i),
           NEW w \in Correct, w \in own[i], Said(w, "ECHO_FROM_WITNESS", i)
    PROVE  Said(p, "ECHO_FROM_PROCESS", i)
<1> DEFINE ms == messagesLog[p][i]
<1>1. ms # NoState /\ ~Takes(p, w, "ECHO_FROM_WITNESS", ms)
  BY StateAtRest, Heard DEF Audience, BroadcastStages, Correct
<1> HIDE DEF ms
<1>2. /\ ms.ownWitnessSet = own[i] /\ ms.stage \in 0 .. 2
      /\ \A s \in BroadcastStages : Shows(ms, s) => Said(p, s, i)
  BY <1>1, StateAtRest DEF ms
<1>3. ms.stage \in 1 .. 2
  BY <1>1, <1>2 DEF Takes, TakesEchoFromWitness, SentEchoFromProcess
<1>4. Shows(ms, "ECHO_FROM_PROCESS") \/ Shows(ms, "READY_FROM_PROCESS")
  BY <1>3 DEF Shows, SentEchoFromProcess, SentReadyFromProcess
<1>5. QED
  BY <1>2, <1>4 DEF BroadcastStages

\* If no correct process delivers i, one of its witnesses lacks votes at some
\* stage: the own witnesses are not all ready, so one of them has not enough
\* echoes; then either READY is said with a quorum of echoes behind it, or
\* nobody is ready and everybody has echoed.
LEMMA SomeoneDelivers ==
    ASSUME NEW own, NEW pot, NEW i, NEW v, Rests(own, pot, i, v)
    PROVE  \E r \in Correct : Delivered(r, i)
<1> SUFFICES ASSUME \A r \in Correct : ~Delivered(r, i)
             PROVE  FALSE
  OBVIOUS
<1> DEFINE W == own[i] \cap Correct
<1>1. /\ own[i] \in SUBSET Proc /\ own[i] \subseteq pot[i]
      /\ Cardinality(W) >= WitnessThreshold /\ Cardinality(Correct) >= QuorumThreshold
  BY DEF Rests, WellDrawn
<1>2. /\ W \in SUBSET own[i] /\ W \subseteq Correct /\ W \subseteq pot[i]
      /\ W \in SUBSET Proc /\ Correct \in SUBSET Proc
  BY <1>1 DEF Correct
<1>3. Cardinality(W) \in Nat /\ Cardinality(Correct) \in Nat
  BY <1>2, ProcSubset
<1>4. QuorumThreshold \in Nat \ {0}
  BY Thresholds, ProcSubset
<1>5. W # {} /\ Correct # {}
  BY <1>1, <1>4, WitnessesNeeded, FS_EmptySet
<1> HIDE DEF W
<1>6. CASE \A w \in W : Said(w, "READY_FROM_WITNESS", i)
  <2>1. \A q \in Correct : Said(q, "READY_FROM_PROCESS", i)
    BY <1>1, <1>2, <1>3, <1>5, <1>6, TooFewReadyWitnesses, WitnessesNeeded
  <2>2. \A w \in W : Said(w, "VALIDATE", i)
    BY <1>1, <1>2, <1>3, <1>4, <1>5, <2>1, TooFewReadyProcesses
  <2>3. QED
    BY <1>1, <1>2, <1>3, <1>5, <2>2, TooFewValidations, WitnessesNeeded
<1>7. CASE \E w \in W : ~Said(w, "READY_FROM_WITNESS", i)
  <2>1. PICK w \in W : ~Said(w, "READY_FROM_WITNESS", i)
    BY <1>7
  <2>2. /\ w \in Correct /\ w \in own[i] /\ w \in pot[i]
        /\ Said(w, "ECHO_FROM_WITNESS", i)
    BY <1>2, <2>1, WitnessEchoed
  <2>3. \A S \in SUBSET Correct :
           S # {} /\ (\A q \in S : Said(q, "ECHO_FROM_PROCESS", i))
           => Cardinality(S) < QuorumThreshold
    BY <2>1, <2>2, TooFewEchoes
  <2>4. CASE \E q \in Correct : Said(q, "READY_FROM_PROCESS", i)
    <3> DEFINE S == Voters("ECHO_FROM_PROCESS", i, v)
    <3>1. PICK m \in sent : m.stage = "READY_FROM_PROCESS" /\ m.inst = i
      BY <2>4 DEF Said
    <3>2. QuorumBehindReady
      BY DEF Rests, ValidityInv, Progressing, Phase, Inv, WitnessInv
    <3>3. EchoQuorum(i, m.value) /\ m.value = v
      BY <3>1, <3>2, OneValue DEF QuorumBehindReady
    <3>4. Cardinality(S) >= QuorumThreshold
      BY <3>3 DEF EchoQuorum
    <3>5. S \in SUBSET Correct /\ \A q \in S : Said(q, "ECHO_FROM_PROCESS", i)
      BY VoterSaid
    <3> HIDE DEF S
    <3>6. S # {} /\ Cardinality(S) \in Nat
      BY <1>2, <1>4, <3>4, <3>5, FS_EmptySet, ProcSubset
    <3>7. QED
      BY <1>4, <2>3, <3>4, <3>5, <3>6
  <2>5. CASE \A q \in Correct : ~Said(q, "READY_FROM_PROCESS", i)
    <3>1. \A q \in Correct : Said(q, "ECHO_FROM_PROCESS", i)
      BY <2>2, <2>5, ProcessEchoed
    <3>2. QED
      BY <1>1, <1>3, <1>4, <1>5, <2>3, <3>1
  <2>6. QED
    BY <2>4, <2>5
<1>8. QED
  BY <1>6, <1>7

\* What one has delivered, own witnesses of all have validated.
LEMMA EveryoneDelivers ==
    ASSUME NEW own, NEW pot, NEW i, NEW v, Rests(own, pot, i, v), NEW p \in Correct
    PROVE  deliveredMessages[p][i] = v
<1>1. /\ Inv /\ DeliveredByOwn(own) /\ i \in Instance /\ i \in Authentic
      /\ NotifiedOnce /\ Sent(i.author, "NOTIFY", i, v) /\ own[i] \in SUBSET Proc
  BY DEF Rests, WellDrawn, ValidityInv, Progressing, Phase, Inv, WitnessInv
<1>2. ASSUME NEW r \in Correct, Delivered(r, i)
      PROVE  deliveredMessages[r][i] = v
  <2>1. EchoQuorum(i, deliveredMessages[r][i])
    BY <1>1, <1>2 DEF Inv, WitnessInv, DeliveryBacked
  <2>2. Sent(i.author, "NOTIFY", i, deliveredMessages[r][i])
    BY <1>1, <2>1, EchoesFromAuthor
  <2>3. QED
    BY <1>1, <2>2 DEF NotifiedOnce, Sent
<1>3. PICK r \in Correct : Delivered(r, i)
  BY SomeoneDelivers
<1>4. v \in Value
  BY DEF Rests
<1>5. PICK S \in SUBSET own[i] : /\ Cardinality(S) >= WitnessThreshold
                                 /\ S \subseteq Voters("VALIDATE", i, v)
  BY <1>1, <1>2, <1>3, <1>4 DEF DeliveredByOwn, Validated
<1>6. S \subseteq Correct /\ \A q \in S : Said(q, "VALIDATE", i)
  BY <1>5, VoterSaid
<1>7. S # {} /\ Cardinality(S) \in Nat
  BY <1>1, <1>5, WitnessesNeeded, FS_EmptySet, ProcSubset
<1>8. Delivered(p, i)
  BY <1>5, <1>6, <1>7, TooFewValidations, WitnessesNeeded
<1>9. QED
  BY <1>2, <1>8

-----------------------------------------------------------------------------
(* The theorems *)

LEMMA ValidityInvInit ==
    ASSUME NEW own, NEW pot
    PROVE  Init => ValidityInv(own, pot)
<1> SUFFICES ASSUME Init
             PROVE  ValidityInv(own, pot)
  OBVIOUS
<1>1. Phase
  BY InvInit, CommitmentsInit, PhaseInit DEF Phase
<1>2. /\ sent = {}
      /\ \A p \in Correct, i \in Instance : /\ messagesLog[p][i] = NoState
                                            /\ revealLog[p][i].pending = <<>>
                                            /\ deliveredMessages[p][i] = None
  BY DEF Init, NewRevealState
<1>3. ProgressInv /\ PendingHeld
  BY <1>2 DEF ProgressInv, PendingHeld
<1>4. Addressed(pot)
  BY <1>2 DEF Addressed
<1>5. DeliveredByOwn(own)
  BY <1>2, ValueAssumption DEF DeliveredByOwn
<1>6. QED
  BY <1>1, <1>3, <1>4, <1>5 DEF ValidityInv, Progressing

\* Whatever order votes come in, and whatever the faulty processes say: no
\* threshold is passed over, and who has reached a stage has said what belongs
\* to it.
THEOREM VotesHeeded ==
    ASSUME F <= N
    PROVE  Spec => []ProgressInv
<1>1. Init => Progressing
  BY ValidityInvInit DEF ValidityInv
<1>2. Progressing /\ [Next]_vars => Progressing'
  BY ProgressingNext
<1>3. Progressing => ProgressInv
  BY DEF Progressing
<1>4. QED
  BY <1>1, <1>2, <1>3, PTL DEF Spec

\* Where the correct processes make a quorum, F is no more than their number.
LEMMA FewFaulty ==
    ASSUME Cardinality(Correct) >= QuorumThreshold
    PROVE  F <= N
<1>1. Correct \in SUBSET Proc
  BY DEF Correct
<1>2. /\ Cardinality(Correct) <= N /\ Cardinality(Correct) \in Nat
      /\ QuorumThreshold <= Cardinality(Correct)
  BY <1>1, ProcSubset
<1>3. QED
  BY <1>2, Thresholds DEF QuorumThreshold

LEMMA ValidityFollows ==
    ASSUME NEW own, NEW pot, FaultyMessages = {}, WellDrawn(own, pot),
           ValidityInv(own, pot), Drew(own, pot)
    PROVE  Validity
<1> SUFFICES ASSUME Settled, NoProcessStops, NEW i \in Authentic, NEW v \in Value,
                    Sent(i.author, "NOTIFY", i, v), NEW p \in Correct
             PROVE  deliveredMessages[p][i] = v
  BY DEF Validity
<1>1. Rests(own, pot, i, v)
  BY DEF Rests, NoProcessStops, Authentic
<1>2. QED
  BY <1>1, EveryoneDelivers

\* Validity in every behaviour in which the correct processes draw the same
\* witnesses for an instance, enough of them correct, and the faulty ones are silent.
THEOREM ValidityHolds ==
    ASSUME NEW own, NEW pot, FaultyMessages = {}, WellDrawn(own, pot)
    PROVE  Spec /\ []Drew(own, pot) => []Validity
<1>1. Init => ValidityInv(own, pot)
  BY ValidityInvInit
<1>2. ValidityInv(own, pot) /\ Drew(own, pot) /\ Drew(own, pot)' /\ [Next]_vars
         => ValidityInv(own, pot)'
  BY FewFaulty, ValidityInvNext DEF WellDrawn
<1>3. ValidityInv(own, pot) /\ Drew(own, pot) => Validity
  BY ValidityFollows
<1>4. QED
  BY <1>1, <1>2, <1>3, PTL DEF Spec

\* The witnesses are the same after every history, with enough correct own ones,
\* and a quorum of processes is correct.
ConstantWitnesses ==
    /\ \A h \in SUBSET (Instance \X Secret) :
          OwnWitnessSet[h] = OwnWitnessSet[{}] /\ PotWitnessSet[h] = PotWitnessSet[{}]
    /\ Cardinality(OwnWitnessSet[{}] \cap Correct) >= WitnessThreshold
    /\ Cardinality(Correct) >= QuorumThreshold

ConstantOwn == [i \in Instance |-> OwnWitnessSet[{}]]
ConstantPot == [i \in Instance |-> PotWitnessSet[{}]]
DrewConstant == Drew(ConstantOwn, ConstantPot)
ConstantInv == ValidityInv(ConstantOwn, ConstantPot)

LEMMA DrewConstantNext ==
    ASSUME ConstantWitnesses, F <= N
    PROVE  Progressing /\ DrewConstant /\ [Next]_vars => DrewConstant'
<1> DEFINE own == ConstantOwn
           pot == ConstantPot
           W == OwnWitnessSet[{}]
           P == PotWitnessSet[{}]
<1> SUFFICES ASSUME Progressing, Drew(own, pot), [Next]_vars
             PROVE  Drew(own, pot)'
  BY DEF DrewConstant
<1>0. \A i \in Instance : own[i] = W /\ pot[i] = P
  BY DEF ConstantOwn, ConstantPot
<1> HIDE DEF own, pot, W, P
<1>1. Inv /\ Advances /\ messagesLog \in LogType
  BY NextAdvances DEF Progressing, Phase, Inv, Typed
<1>2. ASSUME NEW p \in Correct, NEW i \in Instance, NEW x,
             x.ownWitnessSet = W, x.potWitnessSet = P,
             messagesLog'[p][i] = x \/ messagesLog'[p][i] = NoState,
             \A q \in Correct, j \in Instance :
                <<q, j>> # <<p, i>> => messagesLog'[q][j] = messagesLog[q][j]
      PROVE  Drew(own, pot)'
  BY <1>0, <1>2 DEF Drew
<1>3. ASSUME NEW p \in Correct
      PROVE  /\ NewMessageState(p).ownWitnessSet = W
             /\ NewMessageState(p).potWitnessSet = P
  <2>1. history[p] \in SUBSET (Instance \X Secret)
    BY DEF Progressing, Phase, CommitmentsTyped
  <2>2. QED
    BY <2>1 DEF NewMessageState, ConstantWitnesses, W, P
<1>4. ASSUME NEW p \in Correct, NEW v \in Value, Broadcast(p, v)
      PROVE  Drew(own, pot)'
  <2>1. Phase'
    BY NextAdvances
  <2>2. PICK i \in Instance :
           /\ messagesLog' = [messagesLog EXCEPT ![p][i] = NewMessageState(p)]
           /\ messagesLog'[p][i] = NewMessageState(p)
    BY <1>4, <2>1, BroadcastKept, Zenon
  <2>3. \A q \in Correct, j \in Instance :
           <<q, j>> # <<p, i>> => messagesLog'[q][j] = messagesLog[q][j]
    BY <1>1, <2>2 DEF LogType
  <2>4. QED
    BY <1>2, <1>3, <2>2, <2>3
<1>5. ASSUME NEW p \in Correct, NEW i \in Instance, NEW x, NEW msgs,
             Progresses(p, i, RegisterMessage(p, i), x, msgs)
      PROVE  Drew(own, pot)'
  <2> DEFINE ms == RegisterMessage(p, i)
  <2>1. ms.ownWitnessSet = W /\ ms.potWitnessSet = P
    BY <1>0, <1>3 DEF RegisterMessage, Drew
  <2>2. x.ownWitnessSet = ms.ownWitnessSet /\ x.potWitnessSet = ms.potWitnessSet
    BY <1>5 DEF Progresses, Moves
  <2> HIDE DEF ms
  <2>3. /\ messagesLog'[p][i] = x \/ messagesLog'[p][i] = NoState
        /\ \A q \in Correct, j \in Instance : <<q, j>> # <<p, i>> =>
              messagesLog'[q][j] = messagesLog[q][j]
    BY <1>1, <1>5, ProgressShape
  <2>4. QED
    BY <1>2, <2>1, <2>2, <2>3
<1>6. CASE UNCHANGED <<messagesLog, deliveredMessages, revealLog, sent>>
  BY <1>6 DEF Drew
<1>7. QED
  BY <1>1, <1>4, <1>5, <1>6 DEF Advances

\* So it holds of parameters for which the witnesses are the same after every
\* history, enough of them correct, however many transactions are committed.
THEOREM ValidityOfConstantWitnesses ==
    ASSUME FaultyMessages = {}, ConstantWitnesses
    PROVE  Spec => []Validity
<1>1. WellDrawn(ConstantOwn, ConstantPot) /\ F <= N
  <2>1. {} \in SUBSET (Instance \X Secret)
    OBVIOUS
  <2>2. QED
    BY <2>1, WitnessAssumption, FewFaulty
    DEF WellDrawn, ConstantOwn, ConstantPot, ConstantWitnesses
<1>2. Init => ConstantInv /\ DrewConstant
  <2>1. Init => ConstantInv
    BY ValidityInvInit DEF ConstantInv
  <2>2. Init => DrewConstant
    BY DEF Init, Drew, DrewConstant
  <2>3. QED
    BY <2>1, <2>2
<1>3. ConstantInv /\ DrewConstant /\ [Next]_vars => DrewConstant'
  BY <1>1, DrewConstantNext DEF ConstantInv, ValidityInv
<1>4. ConstantInv /\ DrewConstant /\ DrewConstant' /\ [Next]_vars => ConstantInv'
  BY <1>1, ValidityInvNext DEF ConstantInv, DrewConstant
<1>5. ConstantInv /\ DrewConstant => Validity
  BY <1>1, ValidityFollows DEF ConstantInv, DrewConstant
<1>6. QED
  BY <1>2, <1>3, <1>4, <1>5, PTL DEF Spec
=============================================================================
