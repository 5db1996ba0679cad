--------------------------- MODULE ScalableProofs ---------------------------
(***************************************************************************)
(* The scalable broadcast for any samples, sizes and thresholds: what is   *)
(* delivered stays delivered, what has been cleaned up stays closed, and a *)
(* process hands its simulation one notice per own transaction.  If nobody *)
(* speaks of an instance before its author, nobody misses an announcement, *)
(* whatever overtakes what, and no READY counts more than twice; and where *)
(* the samples leave nobody out and make READYs spread, what one process   *)
(* delivers all do.                                                        *)
(***************************************************************************)
EXTENDS Scalable, FiniteSetTheorems, TLAPS

-----------------------------------------------------------------------------
(* Bags *)

LEMMA BagUnionSet ==
    ASSUME NEW A, NEW B
    PROVE  BagToSet(A (+) B) = BagToSet(A) \cup BagToSet(B)
BY DEF BagToSet, (+)

LEMMA BagMinusSet ==
    ASSUME NEW A, NEW B
    PROVE  BagToSet(A (-) B) \subseteq BagToSet(A)
BY DEF BagToSet, (-)

LEMMA SetBagSet ==
    ASSUME NEW S
    PROVE  BagToSet(SetToBag(S)) = S
BY DEF BagToSet, SetToBag

LEMMA EmptyBagSet == BagToSet(EmptyBag) = {}
BY SetBagSet DEF EmptyBag

LEMMA AreBags ==
    /\ \A S : IsABag(SetToBag(S))
    /\ IsABag(EmptyBag)
    /\ \A A, B : IsABag(A) /\ IsABag(B) => IsABag(A (+) B)
    /\ \A A, m : IsABag(A) => IsABag(A (-) SetToBag({m}))
<1>1. \A S : IsABag(SetToBag(S))
  BY DEF IsABag, SetToBag
<1>2. ASSUME NEW A, NEW B, IsABag(A), IsABag(B)
      PROVE  IsABag(A (+) B)
  BY <1>2 DEF IsABag, (+)
<1>3. ASSUME NEW A, NEW m, IsABag(A)
      PROVE  IsABag(A (-) SetToBag({m}))
  BY <1>3 DEF IsABag, (-), SetToBag
<1>4. QED
  BY <1>1, <1>2, <1>3 DEF EmptyBag

Copies(m, B) == IF m \in BagToSet(B) THEN B[m] ELSE 0

LEMMA CopiesFacts ==
    /\ \A m, S : Copies(m, SetToBag(S)) = IF m \in S THEN 1 ELSE 0
    /\ \A m, A : /\ IsABag(A) => Copies(m, A) \in Nat
                 /\ m \notin BagToSet(A) => Copies(m, A) = 0
                 /\ IsABag(A) /\ m \in BagToSet(A) => Copies(m, A) > 0
    /\ \A m, A, B : IsABag(A) /\ IsABag(B) =>
          Copies(m, A (+) B) = Copies(m, A) + Copies(m, B)
    /\ \A m, A, m2 : IsABag(A) =>
          Copies(m2, A (-) SetToBag({m})) =
             IF m2 = m /\ m \in BagToSet(A) THEN Copies(m, A) - 1 ELSE Copies(m2, A)
<1>1. \A m, S : Copies(m, SetToBag(S)) = IF m \in S THEN 1 ELSE 0
  BY DEF Copies, BagToSet, SetToBag
<1>2. ASSUME NEW m, NEW A
      PROVE  /\ IsABag(A) => Copies(m, A) \in Nat
             /\ m \notin BagToSet(A) => Copies(m, A) = 0
             /\ IsABag(A) /\ m \in BagToSet(A) => Copies(m, A) > 0
  BY DEF Copies, BagToSet, IsABag
<1>3. ASSUME NEW m, NEW A, NEW B, IsABag(A), IsABag(B)
      PROVE  Copies(m, A (+) B) = Copies(m, A) + Copies(m, B)
  BY <1>3 DEF Copies, BagToSet, IsABag, (+)
<1>4. ASSUME NEW m, NEW A, NEW m2, IsABag(A)
      PROVE  Copies(m2, A (-) SetToBag({m})) =
                IF m2 = m /\ m \in BagToSet(A) THEN Copies(m, A) - 1 ELSE Copies(m2, A)
  BY <1>4 DEF Copies, BagToSet, IsABag, (-), SetToBag
<1>5. QED
  BY <1>1, <1>2, <1>3, <1>4

-----------------------------------------------------------------------------
(* What a process says of an instance *)

\* Announcements carry values.
WithValue == {m \in Message : m.stage \in Announcements => m.value \in Value}
Own(p, i) == {m \in WithValue : m.from = p /\ m.inst = i}

LEMMA MsgOwn ==
    ASSUME NEW p \in Correct, NEW q \in Correct, NEW s \in Subscriptions \cup Announcements,
           NEW i \in Instance, NEW v \in Value \cup {None}, s \in Announcements => v \in Value
    PROVE  Msg(p, q, s, i, v) \in Own(p, i)
BY DEF Msg, Own, WithValue, Message, Correct

LEMMA ToSetOwn ==
    ASSUME NEW p \in Correct, NEW S, NEW s \in Subscriptions \cup Announcements,
           NEW i \in Instance, NEW v \in Value \cup {None}, s \in Announcements => v \in Value
    PROVE  BagToSet(ToSet(p, S, s, i, v)) \subseteq Own(p, i)
BY SetBagSet, MsgOwn DEF ToSet

LEMMA SubscribeOwn ==
    ASSUME NEW p \in Correct, NEW i \in Instance, NEW ms
    PROVE  BagToSet(Subscribe(p, i, ms)) \subseteq Own(p, i)
<1>1. \A S, s : s \in Subscriptions => BagToSet(ToSet(p, S, s, i, None)) \subseteq Own(p, i)
  BY ToSetOwn DEF Subscriptions, Announcements
<1>2. {"GOSSIP_SUBSCRIBE", "ECHO_SUBSCRIBE", "READY_SUBSCRIBE"} \subseteq Subscriptions
  BY DEF Subscriptions
<1>3. QED
  BY <1>1, <1>2, BagUnionSet DEF Subscribe

LEMMA ReadyOwn ==
    ASSUME NEW p \in Correct, NEW i \in Instance, NEW v \in Value, NEW ms
    PROVE  /\ BagToSet(Ready(p, i, v, ms)) \subseteq Own(p, i)
           /\ BagToSet(Gossip(p, i, v, ms)) \subseteq Own(p, i)
BY ToSetOwn DEF Ready, Gossip, Announcements

LEMMA FreshStateType ==
    ASSUME NEW ms \in FreshStates
    PROVE  ms \in MessageState
<1>1. PICK g \in GossipSamples, e \in EchoSamples, r \in ReadySamples, d \in DeliverySamples :
         ms = FreshState(g, e, r, d)
  BY DEF FreshStates
<1>2. g \in SUBSET Proc /\ e \in Sample /\ r \in Sample /\ d \in Sample
  BY SampleAssumption
<1>3. QED
  BY <1>1, <1>2 DEF FreshState, MessageState

-----------------------------------------------------------------------------
(* Handlers *)

\* A handler of p for m replaces the state by x, sends msgs, which are its own,
\* and delivers at most m's value, at most once.
Handled(p, m, x, msgs) ==
    /\ x \in MessageState \cup {NoState}
    /\ IsABag(msgs) /\ BagToSet(msgs) \subseteq Own(p, m.inst)
    /\ messagesLog' = [messagesLog EXCEPT ![p][m.inst] = x]
    /\ Exchange(m, msgs)
    /\ UNCHANGED transactionCounter
    /\ \/ UNCHANGED <<deliveredMessages, cleanUpPending, ownDeliveredTransactions>>
       \/ ~Delivered(p, m.inst) /\ m.value \in Value /\ Deliver(p, m.inst, m.value)

\* What handling m makes of a state x of p, if p sends M with it: y keeps what x
\* has, every announcement that is new to somebody is sent to them, m is taken
\* into account, and nothing else is.
Grown(x, y) ==
    /\ y.echoSample = x.echoSample /\ y.readySample = x.readySample
    /\ y.deliverySample = x.deliverySample
    /\ x.gossipSample \subseteq y.gossipSample
    /\ x.echoSubscriptionSet \subseteq y.echoSubscriptionSet
    /\ x.readySubscriptionSet \subseteq y.readySubscriptionSet
    /\ x.receivedEcho \subseteq y.receivedEcho
    /\ x.sentReadyMessages \subseteq y.sentReadyMessages
    /\ x.gossipMessage \in {None, y.gossipMessage}
    /\ x.echoMessage \in {None, y.echoMessage}
ToldGossip(p, i, x, y, M) ==
    \A q \in y.gossipSample \cap Correct :
        \/ y.gossipMessage = None
        \/ x.gossipMessage # None /\ q \in x.gossipSample
        \/ Msg(p, q, "GOSSIP", i, y.gossipMessage) \in M
ToldEcho(p, i, x, y, M) ==
    \A q \in y.echoSubscriptionSet \cap Correct :
        \/ y.echoMessage = None
        \/ x.echoMessage # None /\ q \in x.echoSubscriptionSet
        \/ Msg(p, q, "ECHO", i, y.echoMessage) \in M
ToldReady(p, i, x, y, M) ==
    \A q \in y.readySubscriptionSet \cap Correct, v \in y.sentReadyMessages :
        \/ v \in x.sentReadyMessages /\ q \in x.readySubscriptionSet
        \/ Msg(p, q, "READY", i, v) \in M
Told(p, i, x, y, M) == ToldGossip(p, i, x, y, M) /\ ToldEcho(p, i, x, y, M) /\ ToldReady(p, i, x, y, M)
Noted(m, y) ==
    /\ m.stage = "GOSSIP_SUBSCRIBE" => m.from \in y.gossipSample
    /\ m.stage = "GOSSIP" => y.echoMessage # None
    /\ m.stage = "ECHO_SUBSCRIBE" => m.from \in y.echoSubscriptionSet
    /\ m.stage = "ECHO" => y.echoSample[m.from] = 0 \/ m.from \in y.receivedEcho
    /\ m.stage = "READY_SUBSCRIBE" => m.from \in y.readySubscriptionSet
SameReadys(x, y) ==
    y.readySampleStat = x.readySampleStat /\ y.deliverySampleStat = x.deliverySampleStat
Learned(m, x, y) ==
    /\ y.gossipSample \subseteq
           x.gossipSample \cup (IF m.stage = "GOSSIP_SUBSCRIBE" THEN {m.from} ELSE {})
    /\ \/ y.receivedEcho = x.receivedEcho /\ y.echoMessagesStat = x.echoMessagesStat
       \/ /\ m.stage = "ECHO" /\ m.from \notin x.receivedEcho
          /\ y.receivedEcho = x.receivedEcho \cup {m.from}
          /\ y.echoMessagesStat =
                [x.echoMessagesStat EXCEPT ![m.value] = @ + x.echoSample[m.from]]
    /\ IF m.stage = "READY"
         THEN /\ y.readySampleStat =
                    [x.readySampleStat EXCEPT ![m.value] = @ + x.readySample[m.from]]
              /\ y.deliverySampleStat =
                    [x.deliverySampleStat EXCEPT ![m.value] = @ + x.deliverySample[m.from]]
         ELSE SameReadys(x, y)
Advance(p, m, x, y, M) ==
    /\ y \in MessageState
    /\ Grown(x, y) /\ Told(p, m.inst, x, y, M) /\ Noted(m, y) /\ Learned(m, x, y)

AllTruthful(x, M) == \A m \in M : Truthful(x, m)

\* How often x may still send READY of v to q: once from the sieve, and once when
\* both the subscription of q and the decision to send it are there.
Spare(x, q, v) ==
    (IF x.sentReadyFromSieve /\ x.echoMessage = v THEN 0 ELSE 1)
    + (IF q \in x.readySubscriptionSet /\ v \in x.sentReadyMessages THEN 0 ELSE 1)
Frugal(p, i, x, y, msgs) ==
    \A q \in Correct, v \in Value :
        Copies(Msg(p, q, "READY", i, v), msgs) + Spare(y, q, v) <= Spare(x, q, v)

\* The messages that come with a fresh state, or none.
Opening(p, i, msgs) ==
    /\ IsABag(msgs) /\ BagToSet(msgs) \subseteq Own(p, i)
    /\ \A m \in BagToSet(msgs) : m.stage # "READY"

\* A value is delivered when enough READYs for it are counted.
Earned(p, i, x) ==
    \/ deliveredMessages'[p][i] = deliveredMessages[p][i]
    \/ x.deliverySampleStat[deliveredMessages'[p][i]] >= DeliveryThreshold

\* A handler that starts from ms, a state of which p says no more than the
\* messages `opening'.
Outcome(p, m, ms, opening) ==
    \E x, msgs :
        /\ Handled(p, m, x, msgs)
        /\ BagToSet(opening) \subseteq BagToSet(msgs)
        /\ Advance(p, m, ms, x, BagToSet(msgs))
        /\ Frugal(p, m.inst, ms, x, msgs)
        /\ AllTruthful(ms, BagToSet(opening)) => AllTruthful(x, BagToSet(msgs))
        /\ Acted(ms, Delivered(p, m.inst)) => Acted(x, Delivered(p, m.inst)')
        /\ Earned(p, m.inst, x)

LEMMA UpdateHandled ==
    ASSUME NEW p, NEW m, NEW x \in MessageState \cup {NoState}, NEW msgs,
           IsABag(msgs), BagToSet(msgs) \subseteq Own(p, m.inst), Update(p, m, x, msgs)
    PROVE  Handled(p, m, x, msgs)
BY DEF Update, Handled

LEMMA StateFields ==
    ASSUME NEW ms \in MessageState
    PROVE  /\ ms.gossipSample \in SUBSET Proc
           /\ ms.echoSample \in Sample /\ ms.readySample \in Sample
           /\ ms.deliverySample \in Sample
           /\ ms.echoSubscriptionSet \in SUBSET Proc /\ ms.readySubscriptionSet \in SUBSET Proc
           /\ ms.receivedEcho \in SUBSET Proc
           /\ ms.echoMessagesStat \in [Value -> Nat]
           /\ ms.readySampleStat \in [Value -> Nat]
           /\ ms.deliverySampleStat \in [Value -> Nat]
           /\ ms.gossipMessage \in Value \cup {None} /\ ms.echoMessage \in Value \cup {None}
           /\ ms.sentReadyMessages \in SUBSET Value /\ ms.sentReadyFromSieve \in BOOLEAN
BY DEF MessageState

\* Replacing one field of a state, or two.
LEMMA StateUpdates ==
    ASSUME NEW ms \in MessageState
    PROVE  /\ \A S \in SUBSET Proc :
                 /\ [ms EXCEPT !.gossipSample = S] \in MessageState
                 /\ [ms EXCEPT !.echoSubscriptionSet = S] \in MessageState
                 /\ [ms EXCEPT !.readySubscriptionSet = S] \in MessageState
           /\ \A v \in Value \cup {None} :
                 /\ [ms EXCEPT !.gossipMessage = v] \in MessageState
                 /\ [ms EXCEPT !.echoMessage = v] \in MessageState
           /\ \A V \in SUBSET Value :
                 /\ [ms EXCEPT !.sentReadyMessages = V] \in MessageState
                 /\ [ms EXCEPT !.sentReadyMessages = V, !.sentReadyFromSieve = TRUE]
                       \in MessageState
           /\ \A S \in SUBSET Proc, f \in [Value -> Nat] :
                 [ms EXCEPT !.receivedEcho = S, !.echoMessagesStat = f] \in MessageState
           /\ \A f, g \in [Value -> Nat] :
                 [ms EXCEPT !.readySampleStat = f, !.deliverySampleStat = g] \in MessageState
BY DEF MessageState

\* The READY a state that passes the sieve sends.
LEMMA SieveOutcome ==
    ASSUME NEW p \in Correct, NEW i \in Instance, NEW ms \in MessageState
    PROVE  /\ AfterSieve(ms) \in MessageState
           /\ BagToSet(FromSieve(p, i, ms)) \subseteq Own(p, i)
<1>1. CASE PassesSieve(ms)
  <2>1. ms.echoMessage \in Value
    BY <1>1, StateFields DEF PassesSieve
  <2>2. ms.sentReadyMessages \cup {ms.echoMessage} \in SUBSET Value
    BY <2>1, StateFields
  <2>3. AfterSieve(ms) \in MessageState
    BY <1>1, <2>2, StateUpdates DEF AfterSieve
  <2>4. QED
    BY <1>1, <2>1, <2>3, ReadyOwn DEF FromSieve
<1>2. CASE ~PassesSieve(ms)
  BY <1>2, EmptyBagSet DEF AfterSieve, FromSieve
<1>3. QED
  BY <1>1, <1>2

\* The messages two bags hold are a process's own if those of each are.
LEMMA BothOwn ==
    ASSUME NEW p, NEW i, NEW A, NEW B,
           BagToSet(A) \subseteq Own(p, i), BagToSet(B) \subseteq Own(p, i)
    PROVE  BagToSet(A (+) B) \subseteq Own(p, i)
BY BagUnionSet

\* Writing one entry of a table of processes and instances.
LEMMA LogUpdate ==
    ASSUME NEW S, NEW f \in [Correct -> [Instance -> S]], NEW p \in Correct,
           NEW i \in Instance, NEW x \in S
    PROVE  /\ [f EXCEPT ![p][i] = x] \in [Correct -> [Instance -> S]]
           /\ [f EXCEPT ![p][i] = x][p][i] = x
           /\ \A p2 \in Correct, i2 \in Instance :
                 <<p2, i2>> # <<p, i>> => [f EXCEPT ![p][i] = x][p2][i2] = f[p2][i2]
OBVIOUS

LEMMA ToSetMessages ==
    ASSUME NEW p, NEW S, NEW s, NEW i, NEW v
    PROVE  BagToSet(ToSet(p, S, s, i, v)) = {Msg(p, q, s, i, v) : q \in S \cap Correct}
BY SetBagSet DEF ToSet

\* What was true stays true.
LEMMA TruthfulKept ==
    ASSUME NEW x, NEW y, Grown(x, y), NEW m \in WithValue, Truthful(x, m)
    PROVE  Truthful(y, m)
BY ProcAssumption DEF Grown, Truthful, WithValue, Announcements

\* A state that has sent, or has decided, no more than another.
LEMMA FrugalSame ==
    ASSUME NEW p, NEW i, NEW x, NEW y, NEW msgs, IsABag(msgs),
           \A m \in BagToSet(msgs) : m.stage # "READY",
           x.readySubscriptionSet \subseteq y.readySubscriptionSet,
           y.sentReadyMessages = x.sentReadyMessages,
           y.sentReadyFromSieve = x.sentReadyFromSieve,
           x.echoMessage \in {None, y.echoMessage}
    PROVE  Frugal(p, i, x, y, msgs)
<1>1. ASSUME NEW q, NEW v
      PROVE  Copies(Msg(p, q, "READY", i, v), msgs) = 0
  <2>1. Msg(p, q, "READY", i, v).stage = "READY"
    BY DEF Msg
  <2>2. QED
    BY <2>1, CopiesFacts
<1>2. QED
  BY <1>1, ProcAssumption DEF Frugal, Spare

LEMMA UpdateOutcome ==
    ASSUME NEW p \in Correct, NEW m \in WithValue, NEW ms \in MessageState, NEW opening,
           Opening(p, m.inst, opening), NEW x, NEW msgs, NEW M, IsABag(msgs),
           M \subseteq Own(p, m.inst), BagToSet(msgs) = BagToSet(opening) \cup M,
           Update(p, m, x, msgs), Advance(p, m, ms, x, M), AllTruthful(x, M),
           Frugal(p, m.inst, ms, x, msgs),
           Acted(ms, Delivered(p, m.inst)) => Acted(x, Delivered(p, m.inst))
    PROVE  Outcome(p, m, ms, opening)
<1> USE DEF Opening
<1>1. Handled(p, m, x, msgs)
  BY UpdateHandled DEF Advance
<1>2. Advance(p, m, ms, x, BagToSet(msgs))
  BY DEF Advance, Told, ToldGossip, ToldEcho, ToldReady
<1>3. AllTruthful(ms, BagToSet(opening)) => AllTruthful(x, BagToSet(msgs))
  BY TruthfulKept DEF AllTruthful, Own, Advance
<1>4. Delivered(p, m.inst)' = Delivered(p, m.inst) /\ Earned(p, m.inst, x)
  BY DEF Update, Delivered, Earned
<1>5. QED
  BY <1>1, <1>2, <1>3, <1>4 DEF Outcome

\* The same if nothing is sent but the subscriptions.
LEMMA QuietOutcome ==
    ASSUME NEW p \in Correct, NEW m \in WithValue, NEW ms \in MessageState, NEW opening,
           Opening(p, m.inst, opening), NEW x,
           Update(p, m, x, opening), Advance(p, m, ms, x, {}),
           x.sentReadyMessages = ms.sentReadyMessages,
           x.sentReadyFromSieve = ms.sentReadyFromSieve,
           Acted(ms, Delivered(p, m.inst)) => Acted(x, Delivered(p, m.inst))
    PROVE  Outcome(p, m, ms, opening)
<1>1. BagToSet(opening) = BagToSet(opening) \cup {} /\ AllTruthful(x, {})
  BY DEF AllTruthful
<1>2. Frugal(p, m.inst, ms, x, opening)
  BY FrugalSame DEF Opening, Advance, Grown
<1>3. QED
  BY <1>1, <1>2, UpdateOutcome DEF Opening

\* And if something is sent, but no READY.
LEMMA AnswerOutcome ==
    ASSUME NEW p \in Correct, NEW m \in WithValue, NEW ms \in MessageState, NEW opening,
           Opening(p, m.inst, opening), NEW x, NEW more, IsABag(more),
           BagToSet(more) \subseteq Own(p, m.inst),
           \A m2 \in BagToSet(more) : m2.stage # "READY",
           Update(p, m, x, opening (+) more), Advance(p, m, ms, x, BagToSet(more)),
           AllTruthful(x, BagToSet(more)),
           x.sentReadyMessages = ms.sentReadyMessages,
           x.sentReadyFromSieve = ms.sentReadyFromSieve,
           Acted(ms, Delivered(p, m.inst)) => Acted(x, Delivered(p, m.inst))
    PROVE  Outcome(p, m, ms, opening)
<1>1. /\ BagToSet(opening (+) more) = BagToSet(opening) \cup BagToSet(more)
      /\ IsABag(opening (+) more)
  BY BagUnionSet, AreBags DEF Opening
<1>2. Frugal(p, m.inst, ms, x, opening (+) more)
  BY <1>1, FrugalSame DEF Opening, Advance, Grown
<1>3. QED
  BY <1>1, <1>2, UpdateOutcome

LEMMA GossipSubscribeHandled ==
    ASSUME NEW p \in Correct, NEW m \in WithValue, NEW ms \in MessageState, NEW opening,
           Opening(p, m.inst, opening), m.stage = "GOSSIP_SUBSCRIBE",
           ReceiveGossipSubscribe(p, m, ms, opening)
    PROVE  Outcome(p, m, ms, opening)
<1> DEFINE x == [ms EXCEPT !.gossipSample = @ \cup {m.from}]
           answer == ToSet(p, {m.from}, "GOSSIP", m.inst, ms.gossipMessage)
<1>1. m.inst \in Instance /\ m.from \in Proc
  BY DEF WithValue, Message
<1>2. ms.gossipSample \cup {m.from} \in SUBSET Proc
  BY <1>1, StateFields
<1>3. x \in MessageState
  BY <1>2, StateUpdates
<1>4. /\ Grown(ms, x) /\ Noted(m, x) /\ Learned(m, ms, x)
      /\ \A M : ToldEcho(p, m.inst, ms, x, M) /\ ToldReady(p, m.inst, ms, x, M)
      /\ Acted(ms, Delivered(p, m.inst)) => Acted(x, Delivered(p, m.inst))
  BY DEF MessageState, Grown, Noted, Learned, SameReadys, ToldEcho, ToldReady, Acted, PassesSieve
<1>5. /\ x.gossipMessage = ms.gossipMessage /\ x.gossipSample = ms.gossipSample \cup {m.from}
      /\ x.sentReadyMessages = ms.sentReadyMessages
      /\ x.sentReadyFromSieve = ms.sentReadyFromSieve
  BY DEF MessageState
<1> HIDE DEF x
<1>6. CASE ms.gossipMessage = None
  <2>1. Update(p, m, x, opening)
    BY <1>6 DEF ReceiveGossipSubscribe, x
  <2>2. Advance(p, m, ms, x, {})
    BY <1>3, <1>4, <1>5, <1>6 DEF Advance, Told, ToldGossip
  <2>3. QED
    BY <1>4, <1>5, <2>1, <2>2, QuietOutcome
<1>7. CASE ms.gossipMessage # None
  <2>1. Update(p, m, x, opening (+) answer)
    BY <1>7 DEF ReceiveGossipSubscribe, x
  <2>2. ms.gossipMessage \in Value
    BY <1>7, StateFields
  <2>3. BagToSet(answer) \subseteq Own(p, m.inst)
    BY <1>1, <2>2, ToSetOwn DEF Announcements
  <2>4. BagToSet(answer) = {Msg(p, q, "GOSSIP", m.inst, ms.gossipMessage) : q \in {m.from} \cap Correct}
    BY ToSetMessages
  <2>5. Advance(p, m, ms, x, BagToSet(answer))
    BY <1>3, <1>4, <1>5, <2>4 DEF Advance, Told, ToldGossip
  <2>6. AllTruthful(x, BagToSet(answer))
    BY <2>4 DEF AllTruthful, Truthful, Msg
  <2>7. IsABag(answer) /\ \A m2 \in BagToSet(answer) : m2.stage # "READY"
    BY <2>4, AreBags DEF ToSet, Msg
  <2> HIDE DEF answer
  <2>8. QED
    BY <1>4, <1>5, <2>1, <2>3, <2>5, <2>6, <2>7, AnswerOutcome
<1>8. QED
  BY <1>6, <1>7

LEMMA EchoSubscribeHandled ==
    ASSUME NEW p \in Correct, NEW m \in WithValue, NEW ms \in MessageState, NEW opening,
           Opening(p, m.inst, opening), m.stage = "ECHO_SUBSCRIBE",
           ReceiveEchoSubscribe(p, m, ms, opening)
    PROVE  Outcome(p, m, ms, opening)
<1> DEFINE x == [ms EXCEPT !.echoSubscriptionSet = @ \cup {m.from}]
           answer == ToSet(p, {m.from}, "ECHO", m.inst, ms.echoMessage)
<1>1. m.inst \in Instance /\ m.from \in Proc
  BY DEF WithValue, Message
<1>2. ms.echoSubscriptionSet \cup {m.from} \in SUBSET Proc
  BY <1>1, StateFields
<1>3. x \in MessageState
  BY <1>2, StateUpdates
<1>4. /\ Grown(ms, x) /\ Noted(m, x) /\ Learned(m, ms, x)
      /\ \A M : ToldGossip(p, m.inst, ms, x, M) /\ ToldReady(p, m.inst, ms, x, M)
      /\ Acted(ms, Delivered(p, m.inst)) => Acted(x, Delivered(p, m.inst))
  BY DEF MessageState, Grown, Noted, Learned, SameReadys, ToldGossip, ToldReady, Acted, PassesSieve
<1>5. /\ x.echoMessage = ms.echoMessage
      /\ x.echoSubscriptionSet = ms.echoSubscriptionSet \cup {m.from}
      /\ x.sentReadyMessages = ms.sentReadyMessages
      /\ x.sentReadyFromSieve = ms.sentReadyFromSieve
  BY DEF MessageState
<1> HIDE DEF x
<1>6. CASE m.from \in ms.echoSubscriptionSet
  <2>1. Update(p, m, ms, opening)
    BY <1>6 DEF ReceiveEchoSubscribe
  <2>2. Grown(ms, ms) /\ Noted(m, ms) /\ Learned(m, ms, ms) /\ Told(p, m.inst, ms, ms, {})
    BY <1>6 DEF Grown, Noted, Learned, SameReadys, Told, ToldGossip, ToldEcho, ToldReady
  <2>3. QED
    BY <2>1, <2>2, QuietOutcome DEF Advance
<1>7. CASE m.from \notin ms.echoSubscriptionSet /\ ms.echoMessage = None
  <2>1. Update(p, m, x, opening)
    BY <1>7 DEF ReceiveEchoSubscribe, x
  <2>2. Advance(p, m, ms, x, {})
    BY <1>3, <1>4, <1>5, <1>7 DEF Advance, Told, ToldEcho
  <2>3. QED
    BY <1>4, <1>5, <2>1, <2>2, QuietOutcome
<1>8. CASE m.from \notin ms.echoSubscriptionSet /\ ms.echoMessage # None
  <2>1. Update(p, m, x, opening (+) answer)
    BY <1>8 DEF ReceiveEchoSubscribe, x
  <2>2. ms.echoMessage \in Value
    BY <1>8, StateFields
  <2>3. BagToSet(answer) \subseteq Own(p, m.inst)
    BY <1>1, <2>2, ToSetOwn DEF Announcements
  <2>4. BagToSet(answer) = {Msg(p, q, "ECHO", m.inst, ms.echoMessage) : q \in {m.from} \cap Correct}
    BY ToSetMessages
  <2>5. Advance(p, m, ms, x, BagToSet(answer))
    BY <1>3, <1>4, <1>5, <2>4 DEF Advance, Told, ToldEcho
  <2>6. AllTruthful(x, BagToSet(answer))
    BY <1>5, <2>4 DEF AllTruthful, Truthful, Msg
  <2>7. IsABag(answer) /\ \A m2 \in BagToSet(answer) : m2.stage # "READY"
    BY <2>4, AreBags DEF ToSet, Msg
  <2> HIDE DEF answer
  <2>8. QED
    BY <1>4, <1>5, <2>1, <2>3, <2>5, <2>6, <2>7, AnswerOutcome
<1>9. QED
  BY <1>6, <1>7, <1>8

LEMMA ReadySubscribeHandled ==
    ASSUME NEW p \in Correct, NEW m \in WithValue, NEW ms \in MessageState, NEW opening,
           Opening(p, m.inst, opening), m.stage = "READY_SUBSCRIBE",
           ReceiveReadySubscribe(p, m, ms, opening)
    PROVE  Outcome(p, m, ms, opening)
<1> DEFINE x == [ms EXCEPT !.readySubscriptionSet = @ \cup {m.from}]
           answer == {Msg(p, m.from, "READY", m.inst, v) :
                        v \in IF m.from \in Correct THEN ms.sentReadyMessages ELSE {}}
<1>1. m.inst \in Instance /\ m.from \in Proc
  BY DEF WithValue, Message
<1>2. ms.readySubscriptionSet \cup {m.from} \in SUBSET Proc
  BY <1>1, StateFields
<1>3. x \in MessageState
  BY <1>2, StateUpdates
<1>4. /\ Grown(ms, x) /\ Noted(m, x) /\ Learned(m, ms, x)
      /\ \A M : ToldGossip(p, m.inst, ms, x, M) /\ ToldEcho(p, m.inst, ms, x, M)
      /\ Acted(ms, Delivered(p, m.inst)) => Acted(x, Delivered(p, m.inst))
  BY DEF MessageState, Grown, Noted, Learned, SameReadys, ToldGossip, ToldEcho, Acted, PassesSieve
<1>5. /\ x.sentReadyMessages = ms.sentReadyMessages /\ x.echoMessage = ms.echoMessage
      /\ x.sentReadyFromSieve = ms.sentReadyFromSieve
      /\ x.readySubscriptionSet = ms.readySubscriptionSet \cup {m.from}
  BY DEF MessageState
<1>6. answer \subseteq Own(p, m.inst)
  <2>1. \A v \in ms.sentReadyMessages : v \in Value
    BY StateFields
  <2>2. m.from \in Correct => \A v \in Value : Msg(p, m.from, "READY", m.inst, v) \in Own(p, m.inst)
    BY <1>1, MsgOwn DEF Announcements
  <2>3. QED
    BY <2>1, <2>2
<1> HIDE DEF x
<1>7. CASE m.from \in ms.readySubscriptionSet
  <2>1. Update(p, m, ms, opening)
    BY <1>7 DEF ReceiveReadySubscribe
  <2>2. Grown(ms, ms) /\ Noted(m, ms) /\ Learned(m, ms, ms) /\ Told(p, m.inst, ms, ms, {})
    BY <1>7 DEF Grown, Noted, Learned, SameReadys, Told, ToldGossip, ToldEcho, ToldReady
  <2>3. QED
    BY <2>1, <2>2, QuietOutcome DEF Advance
<1>8. CASE m.from \notin ms.readySubscriptionSet
  <2>1. Update(p, m, x, opening (+) SetToBag(answer))
    BY <1>8 DEF ReceiveReadySubscribe, x
  <2>2. ToldReady(p, m.inst, ms, x, answer)
    BY <1>5 DEF ToldReady
  <2>3. AllTruthful(x, answer)
    BY <1>5 DEF AllTruthful, Truthful, Msg
  <2> HIDE DEF answer
  <2>4. Advance(p, m, ms, x, answer)
    BY <1>3, <1>4, <2>2 DEF Advance, Told
  <2>5. BagToSet(SetToBag(answer)) = answer /\ IsABag(SetToBag(answer))
    BY SetBagSet, AreBags
  <2>6. IsABag(opening (+) SetToBag(answer))
    BY <2>5, AreBags DEF Opening
  <2>7. Frugal(p, m.inst, ms, x, opening (+) SetToBag(answer))
    <3> SUFFICES ASSUME NEW q \in Correct, NEW v \in Value
                 PROVE  Copies(Msg(p, q, "READY", m.inst, v), opening (+) SetToBag(answer))
                           + Spare(x, q, v) <= Spare(ms, q, v)
      BY DEF Frugal
    <3> DEFINE r == Msg(p, q, "READY", m.inst, v)
    <3>1. r.stage = "READY" /\ r.value = v /\ r.to = q
      BY DEF Msg
    <3>2. Copies(r, opening) = 0
      BY <3>1, CopiesFacts DEF Opening
    <3>3. r \in answer => q = m.from /\ v \in ms.sentReadyMessages
      BY <3>1 DEF answer, Msg
    <3> HIDE DEF r
    <3>4. Copies(r, opening (+) SetToBag(answer)) = IF r \in answer THEN 1 ELSE 0
      BY <2>5, <3>2, CopiesFacts DEF Opening
    <3>5. QED
      BY <1>5, <1>8, <3>3, <3>4 DEF Spare, r
  <2>8. QED
    BY <1>4, <1>6, <2>1, <2>3, <2>4, <2>5, <2>6, <2>7, BagUnionSet, UpdateOutcome
<1>9. QED
  BY <1>7, <1>8

\* All that Acted asks for but the sieve.
ActedButSieve(ms, delivered) ==
    /\ ms.sentReadyFromSieve => ms.echoMessage \in ms.sentReadyMessages
    /\ ms.echoMessage # None => ms.gossipMessage # None
    /\ \A v \in Value :
          /\ ReadyThreshold \in 1 .. ms.readySampleStat[v] => v \in ms.sentReadyMessages
          /\ DeliveryThreshold \in 1 .. ms.deliverySampleStat[v] => delivered

LEMMA SieveActs ==
    ASSUME NEW p \in Correct, NEW i \in Instance, NEW y \in MessageState
    PROVE  LET z == AfterSieve(y) IN
           /\ z \in MessageState
           /\ BagToSet(FromSieve(p, i, y)) \subseteq Own(p, i)
           /\ Grown(y, z) /\ ToldReady(p, i, y, z, BagToSet(FromSieve(p, i, y)))
           /\ AllTruthful(z, BagToSet(FromSieve(p, i, y)))
           /\ z.gossipSample = y.gossipSample /\ z.echoSubscriptionSet = y.echoSubscriptionSet
           /\ z.readySubscriptionSet = y.readySubscriptionSet
           /\ z.gossipMessage = y.gossipMessage /\ z.echoMessage = y.echoMessage
           /\ z.receivedEcho = y.receivedEcho /\ z.echoMessagesStat = y.echoMessagesStat
           /\ SameReadys(y, z)
           /\ IsABag(FromSieve(p, i, y)) /\ Frugal(p, i, y, z, FromSieve(p, i, y))
           /\ \A d \in BOOLEAN : ActedButSieve(y, d) => Acted(z, d)
<1> DEFINE z == AfterSieve(y)
<1>1. z \in MessageState /\ BagToSet(FromSieve(p, i, y)) \subseteq Own(p, i)
  BY SieveOutcome
<1>2. CASE PassesSieve(y)
  <2>1. z = [y EXCEPT !.sentReadyMessages = @ \cup {y.echoMessage}, !.sentReadyFromSieve = TRUE]
    BY <1>2 DEF AfterSieve
  <2>2. BagToSet(FromSieve(p, i, y)) =
           {Msg(p, q, "READY", i, y.echoMessage) : q \in y.readySubscriptionSet \cap Correct}
    BY <1>2, ToSetMessages DEF FromSieve, Ready
  <2> DEFINE M == BagToSet(FromSieve(p, i, y))
  <2>3. /\ z.sentReadyMessages = y.sentReadyMessages \cup {y.echoMessage}
        /\ z.gossipSample = y.gossipSample /\ z.echoSubscriptionSet = y.echoSubscriptionSet
        /\ z.readySubscriptionSet = y.readySubscriptionSet
        /\ z.gossipMessage = y.gossipMessage /\ z.echoMessage = y.echoMessage
        /\ z.receivedEcho = y.receivedEcho /\ z.echoMessagesStat = y.echoMessagesStat
        /\ z.echoSample = y.echoSample /\ z.readySample = y.readySample
        /\ z.deliverySample = y.deliverySample
        /\ SameReadys(y, z) /\ z.sentReadyFromSieve = TRUE
    BY <2>1 DEF MessageState, SameReadys
  <2> HIDE DEF z, M
  <2>4. Grown(y, z)
    BY <2>3 DEF Grown
  <2>5. ToldReady(p, i, y, z, M) /\ AllTruthful(z, M)
    BY <2>2, <2>3 DEF ToldReady, AllTruthful, Truthful, Msg, M
  <2>6. \A d \in BOOLEAN : ActedButSieve(y, d) => Acted(z, d)
    BY <2>3 DEF ActedButSieve, Acted, SameReadys, PassesSieve
  <2>7. IsABag(FromSieve(p, i, y)) /\ Frugal(p, i, y, z, FromSieve(p, i, y))
    <3> DEFINE S == {Msg(p, q, "READY", i, y.echoMessage) : q \in y.readySubscriptionSet \cap Correct}
    <3>1. FromSieve(p, i, y) = SetToBag(S)
      BY <1>2 DEF FromSieve, Ready, ToSet
    <3> SUFFICES ASSUME NEW q \in Correct, NEW v \in Value
                 PROVE  Copies(Msg(p, q, "READY", i, v), SetToBag(S))
                           + Spare(z, q, v) <= Spare(y, q, v)
      BY <3>1, AreBags DEF Frugal
    <3>2. Copies(Msg(p, q, "READY", i, v), SetToBag(S)) \in {0, 1}
      BY CopiesFacts
    <3>3. Msg(p, q, "READY", i, v) \in S => v = y.echoMessage
      BY DEF Msg
    <3>4. Copies(Msg(p, q, "READY", i, v), SetToBag(S)) = 1 => v = y.echoMessage
      BY <3>3, CopiesFacts
    <3> HIDE DEF S
    <3>5. QED
      BY <1>2, <2>3, <3>2, <3>4 DEF Spare, PassesSieve
  <2>8. QED
    BY <1>1, <2>3, <2>4, <2>5, <2>6, <2>7 DEF z, M
<1>3. CASE ~PassesSieve(y)
  <2>1. z = y /\ BagToSet(FromSieve(p, i, y)) = {}
    BY <1>3, EmptyBagSet DEF AfterSieve, FromSieve
  <2>2. Grown(y, y) /\ ToldReady(p, i, y, y, {}) /\ SameReadys(y, y) /\ AllTruthful(y, {})
    BY DEF Grown, ToldReady, SameReadys, AllTruthful
  <2>3. \A d \in BOOLEAN : ActedButSieve(y, d) => Acted(y, d)
    BY <1>3 DEF ActedButSieve, Acted
  <2>4. FromSieve(p, i, y) = EmptyBag
    BY <1>3 DEF FromSieve
  <2>5. IsABag(EmptyBag) /\ Frugal(p, i, y, y, EmptyBag)
    BY AreBags, EmptyBagSet, FrugalSame
  <2>6. QED
    BY <1>1, <2>1, <2>2, <2>3, <2>4, <2>5
<1>4. QED
  BY <1>2, <1>3

\* Other messages do not add to the READYs.
LEMMA FrugalMore ==
    ASSUME NEW p, NEW i, NEW x, NEW y, NEW z, NEW others, NEW msgs, IsABag(others), IsABag(msgs),
           \A m \in BagToSet(others) : m.stage # "READY",
           Frugal(p, i, y, z, msgs),
           y.readySubscriptionSet = x.readySubscriptionSet,
           y.sentReadyMessages = x.sentReadyMessages,
           y.sentReadyFromSieve = x.sentReadyFromSieve,
           x.echoMessage \in {None, y.echoMessage}
    PROVE  Frugal(p, i, x, z, others (+) msgs)
<1>1. ASSUME NEW q \in Correct, NEW v \in Value
      PROVE  /\ Copies(Msg(p, q, "READY", i, v), others (+) msgs) =
                   Copies(Msg(p, q, "READY", i, v), msgs)
             /\ Copies(Msg(p, q, "READY", i, v), msgs) \in Nat
  <2> DEFINE r == Msg(p, q, "READY", i, v)
  <2>1. r.stage = "READY"
    BY DEF Msg
  <2> HIDE DEF r
  <2>2. Copies(r, others) = 0 /\ Copies(r, msgs) \in Nat
    BY <2>1, CopiesFacts
  <2>3. QED
    BY <2>2, CopiesFacts DEF r
<1>2. \A q \in Correct, v \in Value : Spare(y, q, v) <= Spare(x, q, v) /\ Spare(z, q, v) \in Nat
                                       /\ Spare(x, q, v) \in Nat /\ Spare(y, q, v) \in Nat
  BY ProcAssumption DEF Spare
<1>3. QED
  BY <1>1, <1>2 DEF Frugal

LEMMA EchoHandled ==
    ASSUME NEW p \in Correct, NEW m \in WithValue, NEW ms \in MessageState, NEW opening,
           Opening(p, m.inst, opening), m.stage = "ECHO",
           ReceiveEcho(p, m, ms, opening)
    PROVE  Outcome(p, m, ms, opening)
<1> DEFINE S == ms.receivedEcho \cup {m.from}
           f == [ms.echoMessagesStat EXCEPT ![m.value] = @ + ms.echoSample[m.from]]
           y == [ms EXCEPT !.receivedEcho = S, !.echoMessagesStat = f]
           M == BagToSet(FromSieve(p, m.inst, y))
<1>1. m.inst \in Instance /\ m.from \in Proc /\ m.value \in Value
  BY DEF WithValue, Message, Announcements
<1>2. CASE (ms.echoSample[m.from] = 0 \/ m.from \in ms.receivedEcho) /\ Update(p, m, ms, opening)
  <2>1. Grown(ms, ms) /\ Noted(m, ms) /\ Learned(m, ms, ms) /\ Told(p, m.inst, ms, ms, {})
    BY <1>2 DEF Grown, Noted, Learned, SameReadys, Told, ToldGossip, ToldEcho, ToldReady
  <2>2. QED
    BY <1>2, <2>1, QuietOutcome DEF Advance
<1>3. CASE /\ ms.echoSample[m.from] > 0 /\ m.from \notin ms.receivedEcho
           /\ Update(p, m, AfterSieve(y), opening (+) FromSieve(p, m.inst, y))
  <2>1. S \in SUBSET Proc /\ f \in [Value -> Nat]
    BY <1>1, StateFields DEF Sample
  <2>2. y \in MessageState
    <3> HIDE DEF S, f
    <3> QED
      BY <2>1, StateUpdates
  <2>3. /\ y.receivedEcho = S /\ y.echoMessagesStat = f
        /\ y.gossipSample = ms.gossipSample /\ y.echoSubscriptionSet = ms.echoSubscriptionSet
        /\ y.readySubscriptionSet = ms.readySubscriptionSet
        /\ y.gossipMessage = ms.gossipMessage /\ y.echoMessage = ms.echoMessage
        /\ y.echoSample = ms.echoSample /\ y.readySample = ms.readySample
        /\ y.deliverySample = ms.deliverySample /\ y.sentReadyMessages = ms.sentReadyMessages
        /\ y.sentReadyFromSieve = ms.sentReadyFromSieve /\ SameReadys(ms, y)
    BY DEF MessageState, SameReadys
  <2> HIDE DEF y
  <2> DEFINE z == AfterSieve(y)
  <2>4. /\ z \in MessageState /\ M \subseteq Own(p, m.inst) /\ AllTruthful(z, M)
        /\ Grown(y, z) /\ ToldReady(p, m.inst, y, z, M)
        /\ z.gossipSample = y.gossipSample /\ z.echoSubscriptionSet = y.echoSubscriptionSet
        /\ z.readySubscriptionSet = y.readySubscriptionSet
        /\ z.gossipMessage = y.gossipMessage /\ z.echoMessage = y.echoMessage
        /\ z.receivedEcho = y.receivedEcho /\ z.echoMessagesStat = y.echoMessagesStat
        /\ SameReadys(y, z)
        /\ IsABag(FromSieve(p, m.inst, y)) /\ Frugal(p, m.inst, y, z, FromSieve(p, m.inst, y))
        /\ \A d \in BOOLEAN : ActedButSieve(y, d) => Acted(z, d)
    BY <1>1, <2>2, SieveActs
  <2> HIDE DEF z, M
  <2>5. Grown(ms, z)
    BY <2>3, <2>4 DEF Grown, S
  <2>6. Told(p, m.inst, ms, z, M)
    BY <2>3, <2>4 DEF Told, ToldGossip, ToldEcho, ToldReady
  <2>7. Noted(m, z) /\ Learned(m, ms, z)
    BY <1>3, <2>3, <2>4 DEF Noted, Learned, SameReadys, S, f
  <2>8. Acted(ms, Delivered(p, m.inst)) => Acted(z, Delivered(p, m.inst))
    BY <2>3, <2>4 DEF Acted, ActedButSieve, SameReadys, Delivered
  <2>9. BagToSet(opening (+) FromSieve(p, m.inst, y)) = BagToSet(opening) \cup M
    BY BagUnionSet DEF M
  <2>10. Update(p, m, z, opening (+) FromSieve(p, m.inst, y))
    BY <1>3 DEF z
  <2>11. Advance(p, m, ms, z, M)
    BY <2>4, <2>5, <2>6, <2>7 DEF Advance
  <2>12. IsABag(opening (+) FromSieve(p, m.inst, y))
    BY <2>4, AreBags DEF Opening
  <2>13. Frugal(p, m.inst, ms, z, opening (+) FromSieve(p, m.inst, y))
    BY <2>3, <2>4, FrugalMore DEF Opening
  <2>14. QED
    BY <2>4, <2>8, <2>9, <2>10, <2>11, <2>12, <2>13, UpdateOutcome
<1>4. QED
  <2>1. y = [ms EXCEPT !.receivedEcho = @ \cup {m.from},
                       !.echoMessagesStat[m.value] = @ + ms.echoSample[m.from]]
    OBVIOUS
  <2> HIDE DEF y
  <2>2. QED
    BY <1>2, <1>3, <2>1 DEF ReceiveEcho

LEMMA GossipHandled ==
    ASSUME NEW p \in Correct, NEW m \in WithValue, NEW ms \in MessageState, NEW opening,
           Opening(p, m.inst, opening), m.stage = "GOSSIP",
           ReceiveGossip(p, m, ms, opening)
    PROVE  Outcome(p, m, ms, opening)
<1> DEFINE i == m.inst
           gossip == IF ms.gossipMessage = None THEN Gossip(p, i, m.value, ms) ELSE EmptyBag
           ms2 == IF ms.gossipMessage = None THEN Gossiping(ms, m.value) ELSE ms
           ms3 == [ms2 EXCEPT !.echoMessage = m.value]
           echo == ToSet(p, ms.echoSubscriptionSet, "ECHO", i, m.value)
           G == BagToSet(gossip)
           E == BagToSet(echo)
           F == BagToSet(FromSieve(p, i, ms3))
           z == AfterSieve(ms3)
<1>1. i \in Instance /\ m.value \in Value /\ m.value # None
  BY ProcAssumption DEF WithValue, Message, Announcements
<1>2. G \subseteq Own(p, i) /\ E \subseteq Own(p, i)
  BY <1>1, ReadyOwn, EmptyBagSet, ToSetOwn DEF Announcements
<1>3. G = IF ms.gossipMessage = None
            THEN {Msg(p, q, "GOSSIP", i, m.value) : q \in ms.gossipSample \cap Correct} ELSE {}
  <2>1. CASE ms.gossipMessage = None
    <3>1. gossip = ToSet(p, ms.gossipSample, "GOSSIP", i, m.value)
      BY <2>1 DEF Gossip
    <3>2. QED
      BY <2>1, <3>1, ToSetMessages
  <2>2. CASE ms.gossipMessage # None
    BY <2>2, EmptyBagSet
  <2>3. QED
    BY <2>1, <2>2
<1>4. E = {Msg(p, q, "ECHO", i, m.value) : q \in ms.echoSubscriptionSet \cap Correct}
  BY ToSetMessages
<1>4b. /\ IsABag(gossip) /\ IsABag(echo)
       /\ \A m2 \in G \cup E : m2.stage # "READY"
  <2>1. IsABag(gossip) /\ IsABag(echo)
    BY AreBags DEF Gossip, ToSet
  <2>2. \A m2 \in G \cup E : m2.stage # "READY"
    BY <1>3, <1>4 DEF Msg
  <2>3. QED
    BY <2>1, <2>2
<1>5. ms2 \in MessageState
  BY <1>1, StateUpdates DEF Gossiping
<1>6. /\ ms2.gossipMessage = IF ms.gossipMessage = None THEN m.value ELSE ms.gossipMessage
      /\ ms2.echoMessage = ms.echoMessage
      /\ ms2.receivedEcho = ms.receivedEcho /\ ms2.echoMessagesStat = ms.echoMessagesStat
      /\ ms2.gossipSample = ms.gossipSample /\ ms2.echoSubscriptionSet = ms.echoSubscriptionSet
      /\ ms2.readySubscriptionSet = ms.readySubscriptionSet
      /\ ms2.echoSample = ms.echoSample /\ ms2.readySample = ms.readySample
      /\ ms2.deliverySample = ms.deliverySample /\ ms2.sentReadyMessages = ms.sentReadyMessages
      /\ ms2.sentReadyFromSieve = ms.sentReadyFromSieve /\ SameReadys(ms, ms2)
  BY DEF MessageState, Gossiping, SameReadys
<1>7. \/ ms.echoMessage # None /\ Update(p, m, ms2, opening (+) gossip)
      \/ /\ ms.echoMessage = None
         /\ Update(p, m, z, opening (+) gossip (+) echo (+) FromSieve(p, i, ms3))
  BY DEF ReceiveGossip
<1> HIDE DEF gossip, echo, ms2, G, E
<1>8. CASE ms.echoMessage # None /\ Update(p, m, ms2, opening (+) gossip)
  <2>1. Grown(ms, ms2) /\ Noted(m, ms2) /\ Learned(m, ms, ms2)
    BY <1>6, <1>8 DEF Grown, Noted, Learned, SameReadys
  <2>2. Told(p, i, ms, ms2, G)
    BY <1>3, <1>6 DEF Told, ToldGossip, ToldEcho, ToldReady
  <2>3. AllTruthful(ms2, G)
    BY <1>3 DEF AllTruthful, Truthful, Msg
  <2>4. Acted(ms, Delivered(p, i)) => Acted(ms2, Delivered(p, i))
    BY <1>1, <1>6 DEF Acted, PassesSieve, SameReadys
  <2>5. Advance(p, m, ms, ms2, G)
    BY <1>5, <2>1, <2>2 DEF Advance
  <2>6. QED
    BY <1>2, <1>4b, <1>6, <1>8, <2>3, <2>4, <2>5, AnswerOutcome DEF G
<1>9. CASE /\ ms.echoMessage = None
           /\ Update(p, m, z, opening (+) gossip (+) echo (+) FromSieve(p, i, ms3))
  <2>1. ms3 \in MessageState
    BY <1>1, <1>5, StateUpdates
  <2>2. /\ ms3.echoMessage = m.value /\ ms3.gossipMessage = ms2.gossipMessage
        /\ ms3.receivedEcho = ms2.receivedEcho /\ ms3.echoMessagesStat = ms2.echoMessagesStat
        /\ ms3.gossipSample = ms2.gossipSample /\ ms3.echoSubscriptionSet = ms2.echoSubscriptionSet
        /\ ms3.readySubscriptionSet = ms2.readySubscriptionSet
        /\ ms3.echoSample = ms2.echoSample /\ ms3.readySample = ms2.readySample
        /\ ms3.deliverySample = ms2.deliverySample
        /\ ms3.sentReadyMessages = ms2.sentReadyMessages
        /\ ms3.sentReadyFromSieve = ms2.sentReadyFromSieve /\ SameReadys(ms2, ms3)
    BY <1>5 DEF MessageState, SameReadys
  <2> HIDE DEF ms3
  <2>3. /\ z \in MessageState /\ F \subseteq Own(p, i) /\ AllTruthful(z, F)
        /\ Grown(ms3, z) /\ ToldReady(p, i, ms3, z, F)
        /\ z.gossipSample = ms3.gossipSample /\ z.echoSubscriptionSet = ms3.echoSubscriptionSet
        /\ z.readySubscriptionSet = ms3.readySubscriptionSet
        /\ z.gossipMessage = ms3.gossipMessage /\ z.echoMessage = ms3.echoMessage
        /\ z.receivedEcho = ms3.receivedEcho /\ z.echoMessagesStat = ms3.echoMessagesStat
        /\ SameReadys(ms3, z)
        /\ IsABag(FromSieve(p, i, ms3)) /\ Frugal(p, i, ms3, z, FromSieve(p, i, ms3))
        /\ \A d \in BOOLEAN : ActedButSieve(ms3, d) => Acted(z, d)
    BY <1>1, <2>1, SieveActs
  <2> HIDE DEF z, F
  <2> DEFINE M == G \cup E \cup F
  <2>4. Grown(ms, z)
    BY <1>6, <1>9, <2>2, <2>3 DEF Grown
  <2>5. ToldGossip(p, i, ms, z, M) /\ ToldEcho(p, i, ms, z, M) /\ ToldReady(p, i, ms, z, M)
    BY <1>3, <1>4, <1>6, <2>2, <2>3 DEF ToldGossip, ToldEcho, ToldReady
  <2>6. Noted(m, z) /\ Learned(m, ms, z)
    BY <1>1, <1>6, <2>2, <2>3 DEF Noted, Learned, SameReadys
  <2>7. AllTruthful(z, M)
    <3>1. AllTruthful(z, G) /\ AllTruthful(z, E)
      BY <1>3, <1>4, <2>2, <2>3 DEF AllTruthful, Truthful, Msg
    <3>2. QED
      BY <2>3, <3>1 DEF AllTruthful
  <2>8. Acted(ms, Delivered(p, i)) => Acted(z, Delivered(p, i))
    <3>1. ms.sentReadyMessages \subseteq Value
      BY StateFields
    <3>2. Acted(ms, Delivered(p, i)) => ActedButSieve(ms3, Delivered(p, i))
      BY <1>1, <1>6, <1>9, <2>2, <3>1, ProcAssumption DEF Acted, ActedButSieve, SameReadys
    <3>3. QED
      BY <2>3, <3>2 DEF Delivered
  <2> DEFINE others == opening (+) gossip (+) echo
             msgs == others (+) FromSieve(p, i, ms3)
  <2>9. BagToSet(msgs) = BagToSet(opening) \cup M
    BY BagUnionSet DEF G, E, F
  <2>10. Update(p, m, z, msgs) /\ M \subseteq Own(p, i)
    BY <1>2, <1>9, <2>3
  <2>11. Advance(p, m, ms, z, M)
    BY <2>3, <2>4, <2>5, <2>6 DEF Advance, Told
  <2>12. IsABag(others) /\ \A m2 \in BagToSet(others) : m2.stage # "READY"
    BY <1>4b, AreBags, BagUnionSet DEF Opening, G, E
  <2> HIDE DEF others
  <2>13. IsABag(msgs) /\ Frugal(p, i, ms, z, msgs)
    <3>1. /\ ms3.readySubscriptionSet = ms.readySubscriptionSet
          /\ ms3.sentReadyMessages = ms.sentReadyMessages
          /\ ms3.sentReadyFromSieve = ms.sentReadyFromSieve
          /\ ms.echoMessage = None
      BY <1>6, <1>9, <2>2
    <3>2. QED
      BY <2>3, <2>12, <3>1, AreBags, FrugalMore
  <2> HIDE DEF msgs, M
  <2>14. QED
    BY <2>7, <2>8, <2>9, <2>10, <2>11, <2>13, UpdateOutcome
<1>10. QED
  BY <1>7, <1>8, <1>9

LEMMA ReadyHandled ==
    ASSUME TypeOK, NEW p \in Correct, NEW m \in WithValue, NEW ms \in MessageState, NEW opening,
           Opening(p, m.inst, opening), m.stage = "READY",
           ReceiveReady(p, m, ms, opening)
    PROVE  Outcome(p, m, ms, opening)
<1> DEFINE i == m.inst
           v == m.value
           q == m.from
           f == [ms.readySampleStat EXCEPT ![v] = @ + ms.readySample[q]]
           g == [ms.deliverySampleStat EXCEPT ![v] = @ + ms.deliverySample[q]]
           ms2 == CountReady(ms, q, v)
           amplifies == Amplifies(ms2, q, v)
           x == IF amplifies THEN [ms2 EXCEPT !.sentReadyMessages = @ \cup {v}] ELSE ms2
           msgs == IF amplifies THEN opening (+) Ready(p, i, v, ms2) ELSE opening
           M == IF amplifies THEN BagToSet(Ready(p, i, v, ms2)) ELSE {}
<1>1. i \in Instance /\ q \in Proc /\ v \in Value /\ v # None
  BY ProcAssumption DEF WithValue, Message, Announcements
<1>2. f \in [Value -> Nat] /\ g \in [Value -> Nat]
  BY <1>1, StateFields DEF Sample
<1>3. ms2 = [ms EXCEPT !.readySampleStat = f, !.deliverySampleStat = g]
  BY DEF CountReady
<1>4. ms2 \in MessageState
  <2> HIDE DEF f, g, ms2
  <2>1. QED
    BY <1>2, <1>3, StateUpdates
<1>5. /\ messagesLog' = [messagesLog EXCEPT ![p][i] = x]
      /\ Exchange(m, msgs)
      /\ UNCHANGED transactionCounter
      /\ \/ Delivers(p, i, ms2, q, v) /\ Deliver(p, i, v)
         \/ /\ ~Delivers(p, i, ms2, q, v)
            /\ UNCHANGED <<deliveredMessages, cleanUpPending, ownDeliveredTransactions>>
  BY DEF ReceiveReady
<1>6. /\ ms2.readySampleStat = f /\ ms2.deliverySampleStat = g
      /\ ms2.gossipMessage = ms.gossipMessage /\ ms2.echoMessage = ms.echoMessage
      /\ ms2.receivedEcho = ms.receivedEcho /\ ms2.echoMessagesStat = ms.echoMessagesStat
      /\ ms2.gossipSample = ms.gossipSample /\ ms2.echoSubscriptionSet = ms.echoSubscriptionSet
      /\ ms2.readySubscriptionSet = ms.readySubscriptionSet
      /\ ms2.echoSample = ms.echoSample /\ ms2.readySample = ms.readySample
      /\ ms2.deliverySample = ms.deliverySample /\ ms2.sentReadyMessages = ms.sentReadyMessages
      /\ ms2.sentReadyFromSieve = ms.sentReadyFromSieve
  <2> HIDE DEF f, g, ms2
  <2>1. QED
    BY <1>3 DEF MessageState
<1> HIDE DEF ms2, f, g
<1>7. /\ x.readySampleStat = f /\ x.deliverySampleStat = g
      /\ x.gossipMessage = ms.gossipMessage /\ x.echoMessage = ms.echoMessage
      /\ x.receivedEcho = ms.receivedEcho /\ x.echoMessagesStat = ms.echoMessagesStat
      /\ x.gossipSample = ms.gossipSample /\ x.echoSubscriptionSet = ms.echoSubscriptionSet
      /\ x.readySubscriptionSet = ms.readySubscriptionSet
      /\ x.echoSample = ms.echoSample /\ x.readySample = ms.readySample
      /\ x.deliverySample = ms.deliverySample
      /\ x.sentReadyMessages = ms.sentReadyMessages \cup (IF amplifies THEN {v} ELSE {})
      /\ x.sentReadyFromSieve = ms.sentReadyFromSieve
  <2> HIDE DEF amplifies
  <2>1. QED
    BY <1>4, <1>6 DEF MessageState
<1>8. x \in MessageState
  <2> HIDE DEF amplifies
  <2>1. ms2.sentReadyMessages \cup {v} \in SUBSET Value
    BY <1>1, <1>4, StateFields
  <2>2. QED
    BY <1>4, <2>1, StateUpdates
<1>9. /\ M \subseteq Own(p, i) /\ BagToSet(msgs) = BagToSet(opening) \cup M
      /\ M = IF amplifies THEN {Msg(p, r, "READY", i, v) : r \in ms.readySubscriptionSet \cap Correct}
                          ELSE {}
  <2> HIDE DEF amplifies
  <2>1. BagToSet(Ready(p, i, v, ms2)) \subseteq Own(p, i)
    BY <1>1, ReadyOwn
  <2>2. BagToSet(Ready(p, i, v, ms2)) =
           {Msg(p, r, "READY", i, v) : r \in ms.readySubscriptionSet \cap Correct}
    BY <1>6, ToSetMessages DEF Ready
  <2>3. QED
    BY <2>1, <2>2, BagUnionSet
<1>10. \/ ms.readySample[q] = 0 /\ ~amplifies
       \/ amplifies \/ v \in ms.sentReadyMessages \/ ~(ReadyThreshold <= f[v])
  BY <1>1, <1>2, <1>6, StateFields, ThresholdAssumption DEF Amplifies, Sample
<1>10b. IsABag(msgs) /\ Frugal(p, i, ms, x, msgs)
  <2>1. CASE amplifies
    <3> DEFINE R == Ready(p, i, v, ms2)
    <3> SUFFICES ASSUME NEW u \in Value, NEW r \in Correct
                 PROVE  /\ IsABag(opening (+) R)
                        /\ Copies(Msg(p, r, "READY", i, u), opening (+) R)
                              + Spare(x, r, u) <= Spare(ms, r, u)
      BY <1>1, <2>1 DEF Frugal
    <3> DEFINE k == Msg(p, r, "READY", i, u)
    <3>1. IsABag(opening) /\ Copies(k, opening) = 0
      BY CopiesFacts DEF Opening, Msg
    <3>2. IsABag(R) /\ BagToSet(R) = M
      BY <2>1, AreBags, <1>9, <1>6, ToSetMessages DEF Ready, ToSet
    <3>3. Copies(k, R) = IF k \in M THEN 1 ELSE 0
      BY <3>2, CopiesFacts, SetBagSet DEF Ready, ToSet
    <3>4. k \in M => u = v /\ r \in ms.readySubscriptionSet
      BY <1>9, <2>1 DEF Msg
    <3>5. v \notin ms.sentReadyMessages
      BY <1>6, <2>1 DEF Amplifies
    <3>6. IsABag(opening (+) R) /\ Copies(k, opening (+) R) = IF k \in M THEN 1 ELSE 0
      BY <3>1, <3>2, <3>3, AreBags, CopiesFacts
    <3> HIDE DEF k, R
    <3>7. Copies(k, opening (+) R) + Spare(x, r, u) <= Spare(ms, r, u)
      <4> HIDE DEF x, M, amplifies
      <4>1. x.sentReadyMessages = ms.sentReadyMessages \cup {v}
        BY <1>7, <2>1
      <4>2. QED
        BY <1>7, <3>4, <3>5, <3>6, <4>1 DEF Spare
    <3>8. QED
      BY <3>6, <3>7 DEF k
  <2>2. CASE ~amplifies
    <3>1. /\ msgs = opening /\ x.readySubscriptionSet = ms.readySubscriptionSet
          /\ x.sentReadyMessages = ms.sentReadyMessages
          /\ x.sentReadyFromSieve = ms.sentReadyFromSieve /\ x.echoMessage = ms.echoMessage
      BY <1>7, <2>2
    <3> HIDE DEF x, msgs, amplifies
    <3>2. QED
      BY <3>1, FrugalSame DEF Opening
  <2>3. QED
    BY <2>1, <2>2
<1> HIDE DEF x, msgs, M, amplifies
<1>11. Advance(p, m, ms, x, M)
  <2>1. Grown(ms, x) /\ Noted(m, x)
    BY <1>7 DEF Grown, Noted
  <2>2. Learned(m, ms, x)
    BY <1>7 DEF Learned, f, g
  <2>3. Told(p, i, ms, x, M)
    BY <1>7, <1>9 DEF Told, ToldGossip, ToldEcho, ToldReady
  <2>4. QED
    BY <1>8, <2>1, <2>2, <2>3 DEF Advance
<1>12. AllTruthful(x, M)
  BY <1>7, <1>9 DEF AllTruthful, Truthful, Msg
<1>13. /\ Handled(p, m, x, msgs)
       /\ Delivered(p, i) => Delivered(p, i)'
       /\ Delivers(p, i, ms2, q, v) => Delivered(p, i)'
       /\ Earned(p, i, x)
  <2>1. IsABag(msgs) /\ BagToSet(msgs) \subseteq Own(p, i)
    BY <1>9, <1>10b DEF Opening
  <2>2. CASE Delivers(p, i, ms2, q, v) /\ Deliver(p, i, v)
    <3>1. ~Delivered(p, i)
      BY <2>2 DEF Delivers
    <3>2. deliveredMessages'[p][i] = v
      BY <1>1, <2>2, LogUpdate DEF Deliver, TypeOK
    <3>3. x.deliverySampleStat[v] >= DeliveryThreshold
      BY <1>6, <1>7, <2>2 DEF Delivers
    <3>4. QED
      BY <1>1, <1>5, <1>8, <2>1, <2>2, <3>1, <3>2, <3>3 DEF Handled, Delivered, Earned
  <2>3. CASE /\ ~Delivers(p, i, ms2, q, v)
             /\ UNCHANGED <<deliveredMessages, cleanUpPending, ownDeliveredTransactions>>
    BY <1>5, <1>8, <2>1, <2>3 DEF Handled, Delivered, Earned
  <2>4. QED
    BY <1>5, <2>2, <2>3
<1>14. ASSUME Acted(ms, Delivered(p, i))
       PROVE  Acted(x, Delivered(p, i)')
  <2>1. /\ ~PassesSieve(x)
        /\ x.echoMessage # None => x.gossipMessage # None
        /\ x.sentReadyFromSieve => x.echoMessage \in x.sentReadyMessages
    BY <1>7, <1>14 DEF Acted, PassesSieve
  <2> SUFFICES ASSUME NEW u \in Value
               PROVE  /\ ReadyThreshold \in 1 .. x.readySampleStat[u] => u \in x.sentReadyMessages
                      /\ DeliveryThreshold \in 1 .. x.deliverySampleStat[u] => Delivered(p, i)'
    BY <2>1 DEF Acted
  <2>2. /\ ms.readySampleStat[u] \in Nat /\ ms.deliverySampleStat[u] \in Nat
        /\ ms.readySample[q] \in Nat /\ ms.deliverySample[q] \in Nat
    BY <1>1, StateFields DEF Sample
  <2>3. /\ ReadyThreshold \in 1 .. ms.readySampleStat[u] => u \in ms.sentReadyMessages
        /\ DeliveryThreshold \in 1 .. ms.deliverySampleStat[u] => Delivered(p, i)
    BY <1>14 DEF Acted
  <2>4. /\ u # v => f[u] = ms.readySampleStat[u] /\ g[u] = ms.deliverySampleStat[u]
        /\ f[v] = ms.readySampleStat[v] + ms.readySample[q]
        /\ g[v] = ms.deliverySampleStat[v] + ms.deliverySample[q]
    BY <1>1, StateFields DEF f, g
  <2>5. ReadyThreshold \in 1 .. x.readySampleStat[u] => u \in x.sentReadyMessages
    <3>1. CASE u # v
      BY <1>7, <2>3, <2>4, <3>1
    <3>2. CASE u = v
      BY <1>7, <1>10, <2>2, <2>3, <2>4, <3>2
    <3>3. QED
      BY <3>1, <3>2
  <2>6. DeliveryThreshold \in 1 .. x.deliverySampleStat[u] => Delivered(p, i)'
    <3>1. CASE u # v
      BY <1>7, <1>13, <2>3, <2>4, <3>1
    <3>2. CASE u = v
      <4>1. DeliveryThreshold \in 1 .. g[v] => Delivered(p, i) \/ Delivers(p, i, ms2, q, v)
        BY <1>6, <2>2, <2>3, <2>4, <3>2 DEF Delivers
      <4>2. QED
        BY <1>7, <1>13, <3>2, <4>1
    <3>3. QED
      BY <3>1, <3>2
  <2>7. QED
    BY <2>5, <2>6
<1>15. /\ BagToSet(opening) \subseteq BagToSet(msgs) /\ Advance(p, m, ms, x, BagToSet(msgs))
       /\ AllTruthful(ms, BagToSet(opening)) => AllTruthful(x, BagToSet(msgs))
  <2>1. Advance(p, m, ms, x, BagToSet(msgs))
    BY <1>9, <1>11 DEF Advance, Told, ToldGossip, ToldEcho, ToldReady
  <2>2. AllTruthful(ms, BagToSet(opening)) => AllTruthful(x, BagToSet(msgs))
    BY <1>9, <1>11, <1>12, TruthfulKept DEF AllTruthful, Own, Advance, Opening
  <2>3. QED
    BY <1>9, <2>1, <2>2
<1>16. QED
  BY <1>10b, <1>13, <1>14, <1>15 DEF Outcome

\* Every message that is handled is one that was sent or may be.
LEMMA ArrivalType ==
    ASSUME BagToSet(network) \subseteq WithValue,
           NEW m \in BagToSet(network) \cup FaultyArrivals
    PROVE  m \in WithValue /\ m.to \in Correct
BY ProcAssumption DEF FaultyArrivals, WithValue, Message, Subscriptions, Announcements

\* The subscriptions of a fresh state, and no messages at all, are openings.
LEMMA Openings ==
    ASSUME NEW p \in Correct, NEW i \in Instance
    PROVE  /\ Opening(p, i, EmptyBag)
           /\ \A ms : Opening(p, i, Subscribe(p, i, ms))
<1>1. Opening(p, i, EmptyBag)
  BY AreBags, EmptyBagSet DEF Opening
<1>2. ASSUME NEW ms
      PROVE  Opening(p, i, Subscribe(p, i, ms))
  <2>1. BagToSet(Subscribe(p, i, ms)) \subseteq Own(p, i)
    BY SubscribeOwn
  <2>2. IsABag(Subscribe(p, i, ms))
    BY AreBags DEF Subscribe, ToSet
  <2>3. \A S, s : s # "READY" => \A m \in BagToSet(ToSet(p, S, s, i, None)) : m.stage # "READY"
    BY ToSetMessages DEF Msg
  <2>4. \A m \in BagToSet(Subscribe(p, i, ms)) : m.stage # "READY"
    BY <2>3, BagUnionSet DEF Subscribe
  <2>5. QED
    BY <2>1, <2>2, <2>4 DEF Opening
<1>3. QED
  BY <1>1, <1>2

\* A message is ignored, or handled from the state there is or from a fresh one.
LEMMA MessageOutcome ==
    ASSUME TypeOK, NEW p \in Correct, NEW m \in WithValue, HandleMessage(p, m)
    PROVE  \/ Ignore(p, m)
           \/ Has(p, m.inst) /\ Outcome(p, m, messagesLog[p][m.inst], EmptyBag)
           \/ /\ ~Has(p, m.inst) /\ ~Delivered(p, m.inst)
              /\ \E ms \in FreshStates : Outcome(p, m, ms, Subscribe(p, m.inst, ms))
<1>1. m.inst \in Instance
  BY DEF WithValue, Message
<1>2. \A ms \in MessageState : \A opening :
         Opening(p, m.inst, opening) /\ ProcessProtocolMessage(p, m, ms, opening)
           => Outcome(p, m, ms, opening)
  <2> SUFFICES ASSUME NEW ms \in MessageState, NEW opening,
                      Opening(p, m.inst, opening),
                      ProcessProtocolMessage(p, m, ms, opening)
               PROVE  Outcome(p, m, ms, opening)
    OBVIOUS
  <2>1. CASE m.stage = "GOSSIP_SUBSCRIBE" /\ ReceiveGossipSubscribe(p, m, ms, opening)
    BY <2>1, GossipSubscribeHandled
  <2>2. CASE m.stage = "GOSSIP" /\ ReceiveGossip(p, m, ms, opening)
    BY <2>2, GossipHandled
  <2>3. CASE m.stage = "ECHO_SUBSCRIBE" /\ ReceiveEchoSubscribe(p, m, ms, opening)
    BY <2>3, EchoSubscribeHandled
  <2>4. CASE m.stage = "ECHO" /\ ReceiveEcho(p, m, ms, opening)
    BY <2>4, EchoHandled
  <2>5. CASE m.stage = "READY_SUBSCRIBE" /\ ReceiveReadySubscribe(p, m, ms, opening)
    BY <2>5, ReadySubscribeHandled
  <2>6. CASE m.stage = "READY" /\ ReceiveReady(p, m, ms, opening)
    BY <2>6, ReadyHandled
  <2>7. QED
    BY <2>1, <2>2, <2>3, <2>4, <2>5, <2>6 DEF ProcessProtocolMessage
<1>3. CASE Ignore(p, m)
  BY <1>3
<1>4. CASE /\ messagesLog[p][m.inst] # NoState
           /\ ProcessProtocolMessage(p, m, messagesLog[p][m.inst], EmptyBag)
  <2>1. messagesLog[p][m.inst] \in MessageState
    BY <1>1, <1>4 DEF TypeOK
  <2>2. QED
    BY <1>1, <1>2, <1>4, <2>1, Openings DEF Has
<1>5. CASE /\ messagesLog[p][m.inst] = NoState /\ MayOpen(p, m.inst)
           /\ \E ms \in FreshStates : ProcessProtocolMessage(p, m, ms, Subscribe(p, m.inst, ms))
  BY <1>1, <1>2, <1>5, FreshStateType, Openings DEF Has, MayOpen
<1>6. QED
  BY <1>3, <1>4, <1>5 DEF HandleMessage

LEMMA MessageHandled ==
    ASSUME TypeOK, NEW p \in Correct, NEW m \in WithValue, HandleMessage(p, m)
    PROVE  \E x, msgs : Handled(p, m, x, msgs)
<1>1. CASE Ignore(p, m)
  <2>1. Update(p, m, NoState, EmptyBag)
    BY <1>1 DEF Ignore
  <2>2. QED
    BY <2>1, AreBags, EmptyBagSet, UpdateHandled
<1>2. QED
  BY <1>1, MessageOutcome DEF Outcome

\* Nothing else enters the network.
LEMMA ExchangeSets ==
    ASSUME NEW m, NEW msgs, Exchange(m, msgs)
    PROVE  /\ BagToSet(network') \subseteq BagToSet(network) \cup BagToSet(msgs)
           /\ BagToSet(faultySent') \subseteq BagToSet(faultySent) \cup {m}
<1>1. BagToSet(network') \subseteq BagToSet(network) \cup BagToSet(msgs)
  <2>1. CASE m.from \in Correct
    <3>1. network' = (network (-) SetToBag({m})) (+) msgs
      BY <2>1 DEF Exchange
    <3>2. QED
      BY <3>1, BagUnionSet, BagMinusSet
  <2>2. CASE m.from \notin Correct
    BY <2>2, BagUnionSet DEF Exchange
  <2>3. QED
    BY <2>1, <2>2
<1>2. BagToSet(faultySent') \subseteq BagToSet(faultySent) \cup {m}
  <2>1. BagToSet(faultySent (+) SetToBag({m})) = BagToSet(faultySent) \cup {m}
    BY BagUnionSet, SetBagSet
  <2>2. QED
    BY <2>1 DEF Exchange
<1>3. QED
  BY <1>1, <1>2

-----------------------------------------------------------------------------
(* Types.  The notices of own transactions are bounded because each is of  *)
(* another instance: they count what the process has delivered of its own. *)

DeliveredOwn(p) == {i \in Instance : i.author = p /\ Delivered(p, i)}
OwnCounted ==
    \A p \in Correct :
        ownDeliveredTransactions[p] =
            IF p \in SendOwnDeliveredTransactions THEN Cardinality(DeliveredOwn(p)) ELSE 0

Inv ==
    /\ TypeOK
    /\ IsABag(network) /\ BagToSet(network) \subseteq WithValue
    /\ OwnCounted

LEMMA OwnInstances ==
    ASSUME NEW p, NEW S, \A i \in S : i \in Instance /\ i.author = p
    PROVE  IsFiniteSet(S) /\ Cardinality(S) \in 0 .. MaxTransactions
<1> DEFINE N == 0 .. MaxTransactions - 1
           f == [i \in S |-> i.seqNumber]
<1>1. MaxTransactions \in Nat
  BY BoundAssumption
<1>2. IsFiniteSet(N) /\ Cardinality(N) = MaxTransactions
  BY <1>1, FS_Interval
<1>3. f \in [S -> N] /\ \A i, j \in S : f[i] = f[j] => i = j
  BY DEF Instance
<1>4. f \in Injection(S, N)
  <2> HIDE DEF N
  <2> QED
    BY <1>3 DEF Injection, IsInjective
<1>5. IsFiniteSet(S) /\ Cardinality(S) <= Cardinality(N)
  <2> HIDE DEF f, N
  <2> QED
    BY <1>2, <1>4, FS_Injection
<1>6. Cardinality(S) \in Nat
  BY <1>5, FS_CardinalityType
<1>7. QED
  BY <1>1, <1>2, <1>5, <1>6

LEMMA InitInv == Init => Inv
<1> SUFFICES ASSUME Init
             PROVE  Inv
  OBVIOUS
<1>1. MaxTransactions \in Nat
  BY BoundAssumption
<1>2. BagToSet(network) = {} /\ BagToSet(faultySent) = {}
  BY EmptyBagSet DEF Init
<1>3. TypeOK
  BY <1>1, <1>2 DEF Init, TypeOK
<1>4. OwnCounted
  <2>1. \A p \in Correct : DeliveredOwn(p) = {}
    BY DEF Init, DeliveredOwn, Delivered
  <2>2. QED
    BY <2>1, FS_EmptySet DEF Init, OwnCounted
<1>5. IsABag(network)
  BY AreBags DEF Init
<1>6. QED
  BY <1>2, <1>3, <1>4, <1>5 DEF Inv

LEMMA BroadcastInv ==
    ASSUME Inv, NEW p \in Correct, NEW v \in Value, Broadcast(p, v)
    PROVE  Inv'
<1> DEFINE i == [author |-> p, seqNumber |-> transactionCounter[p]]
<1>1. transactionCounter[p] \in Nat /\ transactionCounter[p] < MaxTransactions
      /\ MaxTransactions \in Nat
  BY BoundAssumption DEF Inv, TypeOK, Broadcast
<1>2. i \in Instance
  BY <1>1 DEF Instance, Broadcast
<1>3. PICK ms \in FreshStates :
         /\ messagesLog' = [messagesLog EXCEPT ![p][i] = Gossiping(ms, v)]
         /\ network' = network (+) Subscribe(p, i, ms) (+) Gossip(p, i, v, ms)
  BY DEF Broadcast
<1>4. Gossiping(ms, v) \in MessageState
  BY FreshStateType, StateUpdates DEF Gossiping
<1>5. BagToSet(network') \subseteq WithValue
  <2>1. BagToSet(Subscribe(p, i, ms)) \subseteq Own(p, i) /\ BagToSet(Gossip(p, i, v, ms)) \subseteq Own(p, i)
    BY <1>2, SubscribeOwn, ReadyOwn
  <2>2. BagToSet(network') = BagToSet(network) \cup BagToSet(Subscribe(p, i, ms))
                               \cup BagToSet(Gossip(p, i, v, ms))
    BY <1>3, BagUnionSet
  <2>3. QED
    BY <2>1, <2>2 DEF Own, Inv
<1>6. TypeOK'
  <2>1. transactionCounter' \in [Correct -> 0 .. MaxTransactions]
    BY <1>1 DEF Broadcast, Inv, TypeOK
  <2>2. messagesLog' \in [Correct -> [Instance -> MessageState \cup {NoState}]]
    BY <1>2, <1>3, <1>4, LogUpdate DEF Inv, TypeOK
  <2>3. BagToSet(network') \subseteq Message
    BY <1>5 DEF WithValue
  <2>4. QED
    BY <2>1, <2>2, <2>3 DEF Broadcast, Inv, TypeOK
<1>7. OwnCounted'
  BY DEF Broadcast, Inv, OwnCounted, DeliveredOwn, Delivered
<1>8. IsABag(network')
  BY <1>3, AreBags DEF Inv, Subscribe, Gossip, ToSet
<1>9. QED
  BY <1>5, <1>6, <1>7, <1>8 DEF Inv

\* A notice goes with a delivery the process has not made before.
LEMMA DeliverCounted ==
    ASSUME Inv, NEW p \in Correct, NEW i \in Instance, NEW v \in Value,
           ~Delivered(p, i), Deliver(p, i, v)
    PROVE  /\ deliveredMessages' \in [Correct -> [Instance -> Value \cup {None}]]
           /\ ownDeliveredTransactions' \in [Correct -> 0 .. MaxTransactions]
           /\ OwnCounted'
<1>1. /\ deliveredMessages \in [Correct -> [Instance -> Value \cup {None}]]
      /\ ownDeliveredTransactions \in [Correct -> 0 .. MaxTransactions]
      /\ OwnCounted /\ MaxTransactions \in Nat /\ v # None
  BY BoundAssumption, ProcAssumption DEF Inv, TypeOK
<1>2. /\ deliveredMessages' \in [Correct -> [Instance -> Value \cup {None}]]
      /\ deliveredMessages'[p][i] = v
      /\ \A p2 \in Correct, i2 \in Instance :
            <<p2, i2>> # <<p, i>> => deliveredMessages'[p2][i2] = deliveredMessages[p2][i2]
  BY <1>1, LogUpdate DEF Deliver
<1>3. DeliveredOwn(p)' = IF i.author = p THEN DeliveredOwn(p) \cup {i} ELSE DeliveredOwn(p)
  BY <1>1, <1>2 DEF DeliveredOwn, Delivered
<1>4. i \notin DeliveredOwn(p)
  BY DEF DeliveredOwn
<1>5. \A p2 \in Correct : p2 # p => DeliveredOwn(p2)' = DeliveredOwn(p2)
  BY <1>2 DEF DeliveredOwn, Delivered
<1>6. IsFiniteSet(DeliveredOwn(p)) /\ Cardinality(DeliveredOwn(p)) \in Nat
  <2>1. \A j \in DeliveredOwn(p) : j \in Instance /\ j.author = p
    BY DEF DeliveredOwn
  <2>2. IsFiniteSet(DeliveredOwn(p)) /\ Cardinality(DeliveredOwn(p)) \in 0 .. MaxTransactions
    BY <2>1, OwnInstances
  <2>3. QED
    BY <1>1, <2>2
<1>7. i.author = p => Cardinality(DeliveredOwn(p)') = Cardinality(DeliveredOwn(p)) + 1
  BY <1>3, <1>4, <1>6, FS_AddElement
<1>8. OwnCounted'
  <2> SUFFICES ASSUME NEW p2 \in Correct
               PROVE  ownDeliveredTransactions'[p2] =
                         IF p2 \in SendOwnDeliveredTransactions
                           THEN Cardinality(DeliveredOwn(p2)') ELSE 0
    BY DEF OwnCounted
  <2>1. ownDeliveredTransactions[p2] =
           IF p2 \in SendOwnDeliveredTransactions THEN Cardinality(DeliveredOwn(p2)) ELSE 0
    BY <1>1 DEF OwnCounted
  <2>2. CASE p2 # p
    BY <1>1, <1>5, <2>1, <2>2 DEF Deliver
  <2>3. CASE p2 = p /\ i.author = p /\ p \in SendOwnDeliveredTransactions
    <3>1. ownDeliveredTransactions'[p] = ownDeliveredTransactions[p] + 1
      BY <1>1, <2>3 DEF Deliver
    <3>2. QED
      BY <1>7, <2>1, <2>3, <3>1
  <2>4. CASE p2 = p /\ ~(i.author = p /\ p \in SendOwnDeliveredTransactions)
    <3>1. ownDeliveredTransactions'[p] = ownDeliveredTransactions[p]
      BY <2>4 DEF Deliver
    <3>2. QED
      BY <1>3, <2>1, <2>4, <3>1
  <2>5. QED
    BY <2>2, <2>3, <2>4
<1>9. \A p2 \in Correct : Cardinality(DeliveredOwn(p2)') \in 0 .. MaxTransactions
  <2> SUFFICES ASSUME NEW p2 \in Correct
               PROVE  Cardinality(DeliveredOwn(p2)') \in 0 .. MaxTransactions
    OBVIOUS
  <2> DEFINE S == DeliveredOwn(p2)'
  <2>1. \A j \in S : j \in Instance /\ j.author = p2
    BY DEF DeliveredOwn
  <2> HIDE DEF S
  <2>2. Cardinality(S) \in 0 .. MaxTransactions
    BY <2>1, OwnInstances
  <2>3. QED
    BY <2>2 DEF S
<1>10. ownDeliveredTransactions' \in [Correct -> 0 .. MaxTransactions]
  <2>1. \A p2 \in Correct : ownDeliveredTransactions'[p2] \in 0 .. MaxTransactions
    BY <1>1, <1>8, <1>9 DEF OwnCounted
  <2>2. ownDeliveredTransactions' = [p2 \in Correct |-> ownDeliveredTransactions'[p2]]
    BY <1>1 DEF Deliver
  <2>3. QED
    BY <2>1, <2>2
<1>11. QED
  BY <1>2, <1>8, <1>10

LEMMA MessageInv ==
    ASSUME Inv, NEW m \in BagToSet(network) \cup FaultyArrivals, HandleMessage(m.to, m)
    PROVE  Inv'
<1> DEFINE p == m.to
<1>1. m \in WithValue /\ p \in Correct
  BY ArrivalType DEF Inv
<1>2. m.inst \in Instance /\ m \in Message
  BY <1>1 DEF WithValue, Message
<1>3. PICK x, msgs : Handled(p, m, x, msgs)
  BY <1>1, MessageHandled DEF Inv
<1>4. BagToSet(network') \subseteq WithValue /\ BagToSet(faultySent') \subseteq Message
  <2>1. BagToSet(msgs) \subseteq WithValue /\ Exchange(m, msgs)
    BY <1>3 DEF Handled, Own
  <2>2. QED
    BY <1>2, <2>1, ExchangeSets DEF Inv, TypeOK
<1>5. messagesLog' \in [Correct -> [Instance -> MessageState \cup {NoState}]]
  BY <1>1, <1>2, <1>3, LogUpdate DEF Inv, TypeOK, Handled
<1>6. /\ deliveredMessages' \in [Correct -> [Instance -> Value \cup {None}]]
      /\ ownDeliveredTransactions' \in [Correct -> 0 .. MaxTransactions]
      /\ cleanUpPending' \subseteq Correct \X Instance
      /\ OwnCounted'
  <2>1. CASE UNCHANGED <<deliveredMessages, cleanUpPending, ownDeliveredTransactions>>
    BY <2>1 DEF Inv, TypeOK, OwnCounted, DeliveredOwn, Delivered
  <2>2. CASE ~Delivered(p, m.inst) /\ m.value \in Value /\ Deliver(p, m.inst, m.value)
    <3>1. cleanUpPending' \subseteq Correct \X Instance
      BY <1>1, <1>2, <2>2 DEF Deliver, Inv, TypeOK
    <3>2. QED
      BY <1>1, <1>2, <2>2, <3>1, DeliverCounted
  <2>3. QED
    BY <1>3, <2>1, <2>2 DEF Handled
<1>7. transactionCounter' \in [Correct -> 0 .. MaxTransactions]
  BY <1>3 DEF Handled, Inv, TypeOK
<1>8. BagToSet(network') \subseteq Message
  BY <1>4 DEF WithValue
<1>9. IsABag(network')
  BY <1>3, AreBags DEF Handled, Exchange, Inv
<1>10. QED
  BY <1>4, <1>5, <1>6, <1>7, <1>8, <1>9 DEF Inv, TypeOK

LEMMA CleanUpInv ==
    ASSUME Inv, NEW p \in Correct, NEW i \in Instance, CleanUp(p, i)
    PROVE  Inv'
<1>1. messagesLog' \in [Correct -> [Instance -> MessageState \cup {NoState}]]
  BY LogUpdate DEF CleanUp, Inv, TypeOK
<1>2. TypeOK'
  BY <1>1 DEF CleanUp, Inv, TypeOK
<1>3. OwnCounted'
  BY DEF CleanUp, Inv, OwnCounted, DeliveredOwn, Delivered
<1>4. QED
  BY <1>2, <1>3 DEF CleanUp, Inv

LEMMA NextInv ==
    ASSUME Inv, [Next]_vars
    PROVE  Inv'
<1>1. CASE \E p \in Correct, v \in Value : Broadcast(p, v)
  BY <1>1, BroadcastInv
<1>2. CASE \E m \in BagToSet(network) \cup FaultyArrivals : HandleMessage(m.to, m)
  BY <1>2, MessageInv
<1>3. CASE \E p \in Correct, i \in Instance : CleanUp(p, i)
  BY <1>3, CleanUpInv
<1>4. CASE UNCHANGED vars
  BY <1>4 DEF vars, Inv, TypeOK, OwnCounted, DeliveredOwn, Delivered
<1>5. QED
  BY <1>1, <1>2, <1>3, <1>4 DEF Next

\* The counters and tables keep their types whatever the samples are; in
\* particular a process hands its simulation at most one notice for each of its
\* own transactions.
THEOREM TypeCorrect == Spec => []TypeOK
<1>1. Init => Inv
  BY InitInv
<1>2. Inv /\ [Next]_vars => Inv'
  BY NextInv
<1>3. Inv => TypeOK
  BY DEF Inv
<1>4. QED
  BY <1>1, <1>2, <1>3, PTL DEF Spec

-----------------------------------------------------------------------------
(* What is delivered is final *)

LEMMA BroadcastFinal ==
    ASSUME Inv, NEW p \in Correct, NEW v \in Value, Broadcast(p, v)
    PROVE  UNCHANGED deliveredMessages /\ transactionCounter' # transactionCounter
<1>1. transactionCounter[p] \in Nat /\ transactionCounter'[p] = transactionCounter[p] + 1
  BY BoundAssumption DEF Inv, TypeOK, Broadcast
<1>2. QED
  BY <1>1 DEF Broadcast

\* A handler leaves every other instance of every process alone, and one that
\* is closed.
LEMMA MessageFinal ==
    ASSUME Inv, NEW m \in BagToSet(network) \cup FaultyArrivals, HandleMessage(m.to, m),
           NEW p \in Correct, NEW i \in Instance, Delivered(p, i)
    PROVE  /\ deliveredMessages'[p][i] = deliveredMessages[p][i]
           /\ messagesLog[p][i] = NoState =>
                 /\ messagesLog'[p][i] = NoState
                 /\ \A m2 \in BagToSet(network') \ BagToSet(network) :
                       ~(m2.from = p /\ m2.inst = i)
<1>1. m \in WithValue /\ m.to \in Correct /\ m.inst \in Instance
  BY ArrivalType DEF Inv, WithValue, Message
<1>2. PICK x, msgs : Handled(m.to, m, x, msgs)
  BY <1>1, MessageHandled DEF Inv
<1>3. deliveredMessages'[p][i] = deliveredMessages[p][i]
  <2>1. CASE UNCHANGED deliveredMessages
    BY <2>1
  <2>2. CASE ~Delivered(m.to, m.inst) /\ Deliver(m.to, m.inst, m.value)
    <3>1. <<p, i>> # <<m.to, m.inst>>
      BY <2>2
    <3>2. deliveredMessages \in [Correct -> [Instance -> Value \cup {None}]] /\ m.value \in Value \cup {None}
      BY <1>1 DEF Inv, TypeOK, WithValue, Message
    <3>3. QED
      BY <1>1, <2>2, <3>1, <3>2, LogUpdate DEF Deliver
  <2>3. QED
    BY <1>2, <2>1, <2>2 DEF Handled
<1>4. ASSUME messagesLog[p][i] = NoState
      PROVE  /\ messagesLog'[p][i] = NoState
             /\ \A m2 \in BagToSet(network') \ BagToSet(network) : ~(m2.from = p /\ m2.inst = i)
  <2>1. CASE <<p, i>> = <<m.to, m.inst>>
    <3>1. Update(p, m, NoState, EmptyBag)
      BY <1>4, <2>1 DEF HandleMessage, MayOpen, Ignore
    <3>2. messagesLog'[p][i] = NoState
      BY <2>1, <3>1, LogUpdate DEF Update, Inv, TypeOK
    <3>3. BagToSet(network') \subseteq BagToSet(network)
      BY <3>1, ExchangeSets, EmptyBagSet DEF Update
    <3>4. QED
      BY <3>2, <3>3
  <2>2. CASE <<p, i>> # <<m.to, m.inst>>
    <3>1. messagesLog'[p][i] = NoState
      BY <1>1, <1>2, <1>4, <2>2, LogUpdate DEF Handled, Inv, TypeOK
    <3>2. BagToSet(network') \subseteq BagToSet(network) \cup Own(m.to, m.inst)
      BY <1>2, ExchangeSets DEF Handled
    <3>3. \A m2 \in Own(m.to, m.inst) : ~(m2.from = p /\ m2.inst = i)
      BY <2>2 DEF Own
    <3>4. QED
      BY <3>1, <3>2, <3>3
  <2>3. QED
    BY <2>1, <2>2
<1>5. QED
  BY <1>3, <1>4

LEMMA CleanUpFinal ==
    ASSUME Inv, NEW p2 \in Correct, NEW i2 \in Instance, CleanUp(p2, i2),
           NEW p \in Correct, NEW i \in Instance
    PROVE  /\ deliveredMessages'[p][i] = deliveredMessages[p][i]
           /\ messagesLog[p][i] = NoState => messagesLog'[p][i] = NoState
           /\ network' = network
<1>1. messagesLog[p][i] = NoState => messagesLog'[p][i] = NoState
  BY LogUpdate DEF CleanUp, Inv, TypeOK
<1>2. QED
  BY <1>1 DEF CleanUp

LEMMA StepFinal ==
    ASSUME Inv, [Next]_vars, NEW p \in Correct, NEW i \in Instance, Delivered(p, i)
    PROVE  /\ deliveredMessages'[p][i] = deliveredMessages[p][i]
           /\ messagesLog[p][i] = NoState /\ UNCHANGED transactionCounter =>
                 /\ messagesLog'[p][i] = NoState
                 /\ \A m \in BagToSet(network') \ BagToSet(network) :
                       ~(m.from = p /\ m.inst = i)
<1>1. CASE \E p2 \in Correct, v \in Value : Broadcast(p2, v)
  BY <1>1, BroadcastFinal
<1>2. CASE \E m \in BagToSet(network) \cup FaultyArrivals : HandleMessage(m.to, m)
  BY <1>2, MessageFinal
<1>3. CASE \E p2 \in Correct, i2 \in Instance : CleanUp(p2, i2)
  BY <1>3, CleanUpFinal
<1>4. CASE UNCHANGED vars
  BY <1>4 DEF vars
<1>5. QED
  BY <1>1, <1>2, <1>3, <1>4 DEF Next

\* Whatever the samples, thresholds and faulty processes, and however late a
\* message comes: what a process has delivered it keeps, and after the clean-up
\* nobody but the author, with its own Broadcast, opens the instance again.
THEOREM Finality == Spec => ClosedIsFinal
<1>1. Init => Inv
  BY InitInv
<1>2. Inv /\ [Next]_vars => Inv'
  BY NextInv
<1>3. Inv /\ [Next]_vars =>
         [\A p \in Correct, i \in Instance :
             Delivered(p, i) =>
               /\ deliveredMessages'[p][i] = deliveredMessages[p][i]
               /\ messagesLog[p][i] = NoState /\ UNCHANGED transactionCounter =>
                     /\ messagesLog'[p][i] = NoState
                     /\ \A m \in BagToSet(network') \ BagToSet(network) :
                           ~(m.from = p /\ m.inst = i)]_vars
  BY StepFinal
<1>4. QED
  BY <1>1, <1>2, <1>3, PTL DEF Spec, ClosedIsFinal

-----------------------------------------------------------------------------
(* Nobody misses an announcement.  The proof has two parts: what a step    *)
(* does to the state of a process in an instance, whichever action it is   *)
(* of, and that steps of this kind keep NothingMissed.                     *)

\* Where p starts from: the state it has, or a fresh one whose subscriptions it
\* sends.
StartsFrom(p, i, ms) ==
    \/ Has(p, i) /\ ms = messagesLog[p][i]
    \/ /\ ~Has(p, i) /\ ~Delivered(p, i) /\ ms \in FreshStates
       /\ BagToSet(Subscribe(p, i, ms)) \subseteq BagToSet(network)'

LearnedNothing(x, y) ==
    /\ y.gossipSample = x.gossipSample
    /\ y.receivedEcho = x.receivedEcho /\ y.echoMessagesStat = x.echoMessagesStat
    /\ SameReadys(x, y)
\* T holds the message that is handled, if one is.
Evolves(p, i, T) ==
    \E ms \in MessageState :
        /\ StartsFrom(p, i, ms)
        /\ messagesLog'[p][i] \in MessageState
        /\ Grown(ms, messagesLog'[p][i])
        /\ Told(p, i, ms, messagesLog'[p][i], BagToSet(network)')
        /\ \/ /\ LearnedNothing(ms, messagesLog'[p][i])
              /\ \A m \in T : ~(m.to = p /\ m.inst = i)
           \/ \E m \in T : /\ m.to = p /\ m.inst = i
                           /\ Noted(m, messagesLog'[p][i])
                           /\ Learned(m, ms, messagesLog'[p][i])
        /\ Acted(ms, Delivered(p, i)) => Acted(messagesLog'[p][i], Delivered(p, i)')

\* How many READYs of v from p to q are under way, or may still be sent.
ReadyTo(p, q, i, v) == Msg(p, q, "READY", i, v)
Left(p, q, i, v) ==
    Copies(ReadyTo(p, q, i, v), network)
    + (IF Has(p, i) THEN Spare(messagesLog[p][i], q, v) ELSE IF Delivered(p, i) THEN 0 ELSE 2)
Spends(p, q, i, v, T) ==
    Left(p, q, i, v)' + (IF ReadyTo(p, q, i, v) \in T THEN 1 ELSE 0) <= Left(p, q, i, v)

StepOf(T) ==
    /\ T \subseteq BagToSet(network) \cup FaultyArrivals
    /\ \A m1, m2 \in T : m1 = m2
    /\ BagToSet(network) \ BagToSet(network)' \subseteq T
    /\ \A p \in Correct, i \in Instance :
          /\ Has(p, i)' => Evolves(p, i, T) /\ Earned(p, i, messagesLog'[p][i])
          /\ Has(p, i) /\ ~Has(p, i)' => Delivered(p, i)'
          /\ Delivered(p, i) => Delivered(p, i)'
          /\ Delivered(p, i)' => Delivered(p, i) \/ Has(p, i)'
          /\ <<p, i>> \in cleanUpPending' => <<p, i>> \in cleanUpPending \/ Delivered(p, i)'
    /\ \A p, q \in Correct, i \in Instance, v \in Value : Spends(p, q, i, v, T)
    /\ \A m \in T : CleanedUp(m.to, m.inst)' \/ Has(m.to, m.inst)'
    /\ \A m \in BagToSet(network)' \ BagToSet(network) :
          m.from \in Correct /\ Has(m.from, m.inst)' /\ Truthful(messagesLog'[m.from][m.inst], m)

LEMMA HasState ==
    ASSUME TypeOK, NEW p \in Correct, NEW i \in Instance, Has(p, i)
    PROVE  messagesLog[p][i] \in MessageState
BY DEF TypeOK, Has

\* A process whose state of i does not change.
LEMMA Rests ==
    ASSUME TypeOK, NEW p \in Correct, NEW i \in Instance, NEW T,
           \A m \in T : ~(m.to = p /\ m.inst = i),
           messagesLog'[p][i] = messagesLog[p][i],
           deliveredMessages'[p][i] = deliveredMessages[p][i], Has(p, i)'
    PROVE  Evolves(p, i, T)
<1> DEFINE ms == messagesLog[p][i]
<1>1. Has(p, i) /\ ms \in MessageState /\ StartsFrom(p, i, ms)
  BY HasState DEF Has, StartsFrom
<1>2. /\ Grown(ms, ms) /\ LearnedNothing(ms, ms)
      /\ Told(p, i, ms, ms, BagToSet(network)')
  BY DEF Grown, LearnedNothing, SameReadys, Told, ToldGossip, ToldEcho, ToldReady
<1>3. Delivered(p, i)' = Delivered(p, i)
  BY DEF Delivered
<1> HIDE DEF ms
<1>4. messagesLog'[p][i] = ms
  BY DEF ms
<1>5. QED
  BY <1>1, <1>2, <1>3, <1>4 DEF Evolves

LEMMA FreshActed ==
    ASSUME NEW ms \in FreshStates, NEW d
    PROVE  /\ ms \in MessageState /\ Acted(ms, d)
           /\ ms.gossipMessage = None /\ ms.echoMessage = None
           /\ ms.echoSubscriptionSet = {} /\ ms.readySubscriptionSet = {}
           /\ ms.receivedEcho = {} /\ ms.sentReadyMessages = {}
           /\ \A v \in Value : /\ ms.echoMessagesStat[v] = 0
                               /\ ms.readySampleStat[v] = 0 /\ ms.deliverySampleStat[v] = 0
<1>1. ms \in MessageState
  BY FreshStateType
<1>2. PICK g \in GossipSamples, e \in EchoSamples, r \in ReadySamples, d2 \in DeliverySamples :
         ms = FreshState(g, e, r, d2)
  BY DEF FreshStates
<1>3. /\ ms.gossipMessage = None /\ ms.echoMessage = None
      /\ ms.echoSubscriptionSet = {} /\ ms.readySubscriptionSet = {}
      /\ ms.receivedEcho = {} /\ ms.sentReadyMessages = {} /\ ms.sentReadyFromSieve = FALSE
      /\ \A v \in Value : /\ ms.echoMessagesStat[v] = 0
                          /\ ms.readySampleStat[v] = 0 /\ ms.deliverySampleStat[v] = 0
  BY <1>2 DEF FreshState
<1>4. QED
  BY <1>1, <1>3 DEF Acted, PassesSieve

\* The subscriptions of a fresh state are what it says.
LEMMA SubscribeMessages ==
    ASSUME NEW p, NEW i, NEW ms
    PROVE  /\ \A q \in ms.gossipSample \cap Correct :
                 Msg(p, q, "GOSSIP_SUBSCRIBE", i, None) \in BagToSet(Subscribe(p, i, ms))
           /\ \A q \in Members(ms.echoSample) \cap Correct :
                 Msg(p, q, "ECHO_SUBSCRIBE", i, None) \in BagToSet(Subscribe(p, i, ms))
           /\ \A q \in (Members(ms.readySample) \cup Members(ms.deliverySample)) \cap Correct :
                 Msg(p, q, "READY_SUBSCRIBE", i, None) \in BagToSet(Subscribe(p, i, ms))
           /\ AllTruthful(ms, BagToSet(Subscribe(p, i, ms)))
<1> DEFINE A == ToSet(p, ms.gossipSample, "GOSSIP_SUBSCRIBE", i, None)
           B == ToSet(p, Members(ms.echoSample), "ECHO_SUBSCRIBE", i, None)
           C == ToSet(p, Members(ms.readySample), "READY_SUBSCRIBE", i, None)
           D == ToSet(p, Members(ms.deliverySample), "READY_SUBSCRIBE", i, None)
<1>1. /\ BagToSet(A) = {Msg(p, q, "GOSSIP_SUBSCRIBE", i, None) : q \in ms.gossipSample \cap Correct}
      /\ BagToSet(B) = {Msg(p, q, "ECHO_SUBSCRIBE", i, None) : q \in Members(ms.echoSample) \cap Correct}
      /\ BagToSet(C) = {Msg(p, q, "READY_SUBSCRIBE", i, None) : q \in Members(ms.readySample) \cap Correct}
      /\ BagToSet(D) = {Msg(p, q, "READY_SUBSCRIBE", i, None) : q \in Members(ms.deliverySample) \cap Correct}
  BY ToSetMessages
<1>2. BagToSet(Subscribe(p, i, ms)) = BagToSet(A) \cup BagToSet(B) \cup BagToSet(C) \cup BagToSet(D)
  BY BagUnionSet DEF Subscribe
<1> HIDE DEF A, B, C, D
<1>3. AllTruthful(ms, BagToSet(Subscribe(p, i, ms)))
  <2>1. AllTruthful(ms, BagToSet(A))
    BY <1>1 DEF AllTruthful, Truthful, Msg
  <2>2. AllTruthful(ms, BagToSet(B)) /\ AllTruthful(ms, BagToSet(C)) /\ AllTruthful(ms, BagToSet(D))
    BY <1>1 DEF AllTruthful, Truthful, Msg
  <2>3. QED
    BY <1>2, <2>1, <2>2 DEF AllTruthful
<1>4. QED
  BY <1>1, <1>2, <1>3

LEMMA SpareBounds ==
    \A x, q, v : Spare(x, q, v) \in 0 .. 2
BY DEF Spare

\* A step that adds no READY to the network and leaves a state alone, replaces it
\* by none, or opens one, spends nothing.
LEMMA SpendsNothing ==
    ASSUME Inv, NEW p \in Correct, NEW q \in Correct, NEW i \in Instance, NEW v \in Value,
           Copies(ReadyTo(p, q, i, v), network') = Copies(ReadyTo(p, q, i, v), network),
           \/ UNCHANGED <<messagesLog[p][i], deliveredMessages[p][i]>>
           \/ Delivered(p, i) /\ ~Has(p, i)' /\ Delivered(p, i)'
           \/ ~Has(p, i) /\ ~Delivered(p, i) /\ Has(p, i)'
    PROVE  Spends(p, q, i, v, {})
<1>1. Copies(ReadyTo(p, q, i, v), network) \in Nat
  BY CopiesFacts DEF Inv
<1>2. CASE UNCHANGED <<messagesLog[p][i], deliveredMessages[p][i]>>
  <2>1. Left(p, q, i, v)' = Left(p, q, i, v)
    BY <1>2 DEF Left, Has, Delivered, ReadyTo
  <2>2. Left(p, q, i, v) \in Nat
    BY <1>1, SpareBounds DEF Left
  <2>3. QED
    BY <2>1, <2>2 DEF Spends
<1>3. CASE Delivered(p, i) /\ ~Has(p, i)' /\ Delivered(p, i)'
  <2>1. Left(p, q, i, v)' = Copies(ReadyTo(p, q, i, v), network)
    BY <1>1, <1>3 DEF Left, ReadyTo
  <2>2. Copies(ReadyTo(p, q, i, v), network) <= Left(p, q, i, v)
    BY <1>1, <1>3, SpareBounds DEF Left
  <2>3. QED
    BY <1>1, <2>1, <2>2, SpareBounds DEF Spends, Left
<1>4. CASE ~Has(p, i) /\ ~Delivered(p, i) /\ Has(p, i)'
  <2>1. Left(p, q, i, v)' = Copies(ReadyTo(p, q, i, v), network) + Spare(messagesLog'[p][i], q, v)
    BY <1>1, <1>4 DEF Left, ReadyTo
  <2>2. Left(p, q, i, v) = Copies(ReadyTo(p, q, i, v), network) + 2
    BY <1>4 DEF Left
  <2>3. QED
    BY <1>1, <2>1, <2>2, SpareBounds DEF Spends
<1>5. QED
  BY <1>2, <1>3, <1>4

LEMMA BroadcastStep ==
    ASSUME Inv, BroadcastFirst, NEW p \in Correct, NEW v \in Value, Broadcast(p, v)
    PROVE  StepOf({})
<1>1. transactionCounter[p] \in Nat /\ transactionCounter[p] < MaxTransactions
      /\ MaxTransactions \in Nat
  BY BoundAssumption DEF Inv, TypeOK, Broadcast
<1>2. PICK i \in Instance : /\ i = [author |-> p, seqNumber |-> transactionCounter[p]]
                            /\ i.author = p /\ i.seqNumber = transactionCounter[p]
  BY <1>1 DEF Instance, Broadcast
<1>3. PICK ms \in FreshStates :
         /\ messagesLog' = [messagesLog EXCEPT ![p][i] = Gossiping(ms, v)]
         /\ network' = network (+) Subscribe(p, i, ms) (+) Gossip(p, i, v, ms)
  BY <1>2 DEF Broadcast
<1> DEFINE y == Gossiping(ms, v)
           G == BagToSet(Gossip(p, i, v, ms))
<1>4. ms \in MessageState /\ y \in MessageState
  BY FreshStateType, StateUpdates DEF Gossiping
<1>5. ~Has(p, i) /\ ~Delivered(p, i)
  BY <1>1, <1>2 DEF BroadcastFirst
<1>6. /\ y.gossipMessage = v /\ y.echoMessage = ms.echoMessage
      /\ y.receivedEcho = ms.receivedEcho /\ y.echoMessagesStat = ms.echoMessagesStat
      /\ y.gossipSample = ms.gossipSample /\ y.echoSubscriptionSet = ms.echoSubscriptionSet
      /\ y.readySubscriptionSet = ms.readySubscriptionSet
      /\ y.echoSample = ms.echoSample /\ y.readySample = ms.readySample
      /\ y.deliverySample = ms.deliverySample /\ y.sentReadyMessages = ms.sentReadyMessages
      /\ y.sentReadyFromSieve = ms.sentReadyFromSieve /\ SameReadys(ms, y)
  BY <1>4 DEF MessageState, Gossiping, SameReadys
<1>7. BagToSet(network') = BagToSet(network) \cup BagToSet(Subscribe(p, i, ms)) \cup G
  BY <1>3, BagUnionSet
<1>8. G = {Msg(p, q, "GOSSIP", i, v) : q \in ms.gossipSample \cap Correct}
  BY ToSetMessages DEF Gossip
<1>9. messagesLog \in [Correct -> [Instance -> MessageState \cup {NoState}]]
  BY DEF Inv, TypeOK
<1>10. messagesLog'[p][i] = y /\ Has(p, i)'
  <2>1. y # NoState
    BY <1>4 DEF MessageState, NoState
  <2>2. messagesLog'[p][i] = y
    BY <1>2, <1>3, <1>4, <1>9, LogUpdate
  <2> HIDE DEF y
  <2>3. QED
    BY <2>1, <2>2 DEF Has
<1> HIDE DEF y, G
<1>11. Evolves(p, i, {})
  <2>1. StartsFrom(p, i, ms)
    BY <1>5, <1>7 DEF StartsFrom
  <2>2. Grown(ms, y) /\ LearnedNothing(ms, y)
    BY <1>6, FreshActed DEF Grown, LearnedNothing
  <2>3. Told(p, i, ms, y, BagToSet(network)')
    BY <1>6, <1>7, <1>8, FreshActed DEF Told, ToldGossip, ToldEcho, ToldReady
  <2>4. Acted(y, Delivered(p, i)')
    <3>1. Acted(ms, Delivered(p, i)') /\ ms.echoMessage = None
      BY FreshActed
    <3>2. QED
      BY <1>6, <3>1 DEF Acted, PassesSieve, SameReadys
  <2>5. QED
    BY <1>4, <1>10, <2>1, <2>2, <2>3, <2>4 DEF Evolves
<1>12. \A p2 \in Correct, i2 \in Instance :
          /\ Has(p2, i2)' => Evolves(p2, i2, {})
          /\ Has(p2, i2) /\ ~Has(p2, i2)' => Delivered(p2, i2)'
          /\ Delivered(p2, i2)' = Delivered(p2, i2)
  <2> SUFFICES ASSUME NEW p2 \in Correct, NEW i2 \in Instance
               PROVE  /\ Has(p2, i2)' => Evolves(p2, i2, {})
                      /\ Has(p2, i2) => Has(p2, i2)'
                      /\ Delivered(p2, i2)' = Delivered(p2, i2)
    OBVIOUS
  <2>1. deliveredMessages' = deliveredMessages
    BY DEF Broadcast
  <2>2. CASE <<p2, i2>> = <<p, i>>
    BY <1>10, <1>11, <2>1, <2>2 DEF Delivered
  <2>3. CASE <<p2, i2>> # <<p, i>>
    <3>1. messagesLog'[p2][i2] = messagesLog[p2][i2]
      BY <1>2, <1>3, <1>4, <1>9, <2>3, LogUpdate DEF y
    <3>2. QED
      BY <2>1, <3>1, Rests DEF Inv, Has, Delivered
  <2>4. QED
    BY <2>2, <2>3
<1>13. ASSUME NEW m \in BagToSet(network') \ BagToSet(network)
       PROVE  m.from \in Correct /\ Has(m.from, m.inst)' /\ Truthful(messagesLog'[m.from][m.inst], m)
  <2>1. m \in Own(p, i)
    BY <1>2, <1>7, SubscribeOwn, ReadyOwn DEF G
  <2>2. Truthful(y, m)
    <3>1. CASE m \in BagToSet(Subscribe(p, i, ms))
      <4>1. Truthful(ms, m) /\ Grown(ms, y)
        BY <1>6, <3>1, SubscribeMessages, FreshActed DEF AllTruthful, Grown
      <4>2. QED
        BY <2>1, <4>1, TruthfulKept DEF Own
    <3>2. CASE m \in G
      BY <1>8, <3>2 DEF Truthful, Msg
    <3>3. QED
      BY <1>7, <3>1, <3>2
  <2>3. QED
    BY <1>10, <2>1, <2>2 DEF Own, Has
<1>14. ASSUME NEW p2 \in Correct, NEW q \in Correct, NEW i2 \in Instance, NEW u \in Value
       PROVE  Spends(p2, q, i2, u, {})
  <2> DEFINE r == ReadyTo(p2, q, i2, u)
  <2>1. r.stage = "READY"
    BY DEF ReadyTo, Msg
  <2>2. r \notin BagToSet(Subscribe(p, i, ms)) /\ r \notin G
    <3>1. r \notin BagToSet(Subscribe(p, i, ms))
      BY <2>1, Openings DEF Opening
    <3>2. QED
      BY <1>8, <2>1, <3>1 DEF Msg
  <2> HIDE DEF r
  <2>3. IsABag(network) /\ IsABag(Subscribe(p, i, ms)) /\ IsABag(Gossip(p, i, v, ms))
    BY AreBags DEF Inv, Subscribe, Gossip, ToSet
  <2>4. IsABag(network (+) Subscribe(p, i, ms))
    BY <2>3, AreBags
  <2>5. Copies(r, network') = Copies(r, network)
    <3>1. Copies(r, Subscribe(p, i, ms)) = 0 /\ Copies(r, Gossip(p, i, v, ms)) = 0
      BY <2>2, CopiesFacts DEF G
    <3>2. Copies(r, network) \in Nat
      BY <2>3, CopiesFacts
    <3>3. Copies(r, network (+) Subscribe(p, i, ms)) = Copies(r, network)
      BY <2>3, <3>1, <3>2, CopiesFacts
    <3>4. QED
      BY <1>3, <2>3, <2>4, <3>1, <3>2, <3>3, CopiesFacts
  <2>6. CASE <<p2, i2>> = <<p, i>>
    BY <1>5, <1>10, <2>5, <2>6, SpendsNothing DEF r
  <2>7. CASE <<p2, i2>> # <<p, i>>
    <3>1. messagesLog'[p2][i2] = messagesLog[p2][i2] /\ deliveredMessages' = deliveredMessages
      BY <1>2, <1>3, <1>4, <1>9, <2>7, LogUpdate DEF y, Broadcast
    <3>2. QED
      BY <2>5, <3>1, SpendsNothing DEF r
  <2>8. QED
    BY <2>6, <2>7
<1>15. \A p2 \in Correct, i2 \in Instance : Earned(p2, i2, messagesLog'[p2][i2])
  BY DEF Broadcast, Earned
<1>16. QED
  BY <1>7, <1>12, <1>13, <1>14, <1>15 DEF StepOf, Broadcast


LEMMA ExchangeKeeps ==
    ASSUME NEW m, NEW msgs, IsABag(network), Exchange(m, msgs)
    PROVE  /\ BagToSet(msgs) \subseteq BagToSet(network')
           /\ BagToSet(network) \ {m} \subseteq BagToSet(network')
<1>1. BagToSet(network) \ {m} \subseteq BagToSet(network (-) SetToBag({m}))
  BY DEF IsABag, BagToSet, (-), SetToBag
<1>2. QED
  BY <1>1, BagUnionSet DEF Exchange

\* A message that is handled is one less, if a correct process has sent it.
LEMMA ExchangeCopies ==
    ASSUME NEW m, NEW msgs, IsABag(network), IsABag(msgs), Exchange(m, msgs),
           m \in BagToSet(network) \cup FaultyArrivals, NEW r, r.from \in Correct
    PROVE  /\ Copies(r, network') + (IF r = m THEN 1 ELSE 0) = Copies(r, network) + Copies(r, msgs)
           /\ Copies(r, network) \in Nat /\ Copies(r, msgs) \in Nat /\ Copies(r, network') \in Nat
<1>1. Copies(r, network) \in Nat /\ Copies(r, msgs) \in Nat
  BY CopiesFacts
<1>2. CASE m.from \in Correct
  <2>1. m \in BagToSet(network)
    BY <1>2 DEF FaultyArrivals, Correct
  <2>2. IsABag(network (-) SetToBag({m}))
    BY AreBags
  <2>3. Copies(r, network (-) SetToBag({m})) = Copies(r, network) - (IF r = m THEN 1 ELSE 0)
    BY <1>1, <2>1, CopiesFacts
  <2>4. r = m => Copies(r, network) > 0
    BY <2>1, CopiesFacts
  <2>5. Copies(r, network') = Copies(r, network (-) SetToBag({m})) + Copies(r, msgs)
    BY <1>2, <2>2, CopiesFacts DEF Exchange
  <2>6. QED
    BY <1>1, <2>3, <2>4, <2>5
<1>3. CASE m.from \notin Correct
  <2>1. Copies(r, network') = Copies(r, network) + Copies(r, msgs)
    BY <1>3, CopiesFacts DEF Exchange
  <2>2. QED
    BY <1>1, <1>3, <2>1
<1>4. QED
  BY <1>2, <1>3

\* The step of a handler: one process changes its state of one instance.
LEMMA HandlerStep ==
    ASSUME Inv, NEW m \in WithValue, NEW p \in Correct, m.to = p,
           m \in BagToSet(network) \cup FaultyArrivals,
           NEW ms \in MessageState, NEW opening, Outcome(p, m, ms, opening),
           \/ Has(p, m.inst) /\ ms = messagesLog[p][m.inst]
           \/ /\ ~Has(p, m.inst) /\ ~Delivered(p, m.inst) /\ ms \in FreshStates
              /\ opening = Subscribe(p, m.inst, ms),
           AllTruthful(ms, BagToSet(opening))
    PROVE  StepOf({m})
<1>1. PICK i \in Instance : i = m.inst
  BY DEF WithValue, Message
<1>2. PICK x, msgs :
         /\ Handled(p, m, x, msgs)
         /\ BagToSet(opening) \subseteq BagToSet(msgs)
         /\ Advance(p, m, ms, x, BagToSet(msgs))
         /\ AllTruthful(x, BagToSet(msgs)) /\ Frugal(p, i, ms, x, msgs) /\ Earned(p, i, x)
         /\ Acted(ms, Delivered(p, i)) => Acted(x, Delivered(p, i)')
  BY <1>1 DEF Outcome, Delivered
<1>3. /\ messagesLog \in [Correct -> [Instance -> MessageState \cup {NoState}]]
      /\ deliveredMessages \in [Correct -> [Instance -> Value \cup {None}]]
      /\ IsABag(network)
  BY DEF Inv, TypeOK
<1>4. x \in MessageState /\ x # NoState
  BY <1>2 DEF Advance, MessageState, NoState
<1>5. messagesLog' = [messagesLog EXCEPT ![p][i] = x]
  BY <1>1, <1>2 DEF Handled
<1>6. messagesLog'[p][i] = x /\ Has(p, i)'
  BY <1>3, <1>4, <1>5, LogUpdate DEF Has
<1>7. \A p2 \in Correct, i2 \in Instance :
         <<p2, i2>> # <<p, i>> => messagesLog'[p2][i2] = messagesLog[p2][i2]
  BY <1>3, <1>4, <1>5, LogUpdate
<1>8. /\ Delivered(p, i) => Delivered(p, i)'
      /\ \A p2 \in Correct, i2 \in Instance :
            <<p2, i2>> # <<p, i>> => deliveredMessages'[p2][i2] = deliveredMessages[p2][i2]
      /\ \A c \in cleanUpPending' : c \in cleanUpPending \/ (c = <<p, i>> /\ Delivered(p, i)')
  <2>1. CASE UNCHANGED <<deliveredMessages, cleanUpPending, ownDeliveredTransactions>>
    BY <2>1 DEF Delivered
  <2>2. CASE ~Delivered(p, i) /\ m.value \in Value /\ Deliver(p, i, m.value)
    <3>1. deliveredMessages' = [deliveredMessages EXCEPT ![p][i] = m.value] /\ m.value \in Value
      BY <2>2 DEF Deliver
    <3>2. deliveredMessages'[p][i] = m.value /\ m.value # None
      BY <1>3, <3>1, LogUpdate, ProcAssumption
    <3>3. \A p2 \in Correct, i2 \in Instance :
            <<p2, i2>> # <<p, i>> => deliveredMessages'[p2][i2] = deliveredMessages[p2][i2]
      BY <1>3, <3>1, LogUpdate
    <3>4. QED
      BY <2>2, <3>2, <3>3 DEF Deliver, Delivered
  <2>3. QED
    BY <1>1, <1>2, <2>1, <2>2 DEF Handled
<1>9. BagToSet(msgs) \subseteq BagToSet(network)' /\ BagToSet(network) \ {m} \subseteq BagToSet(network)'
  BY <1>2, <1>3, ExchangeKeeps DEF Handled
<1>10. Evolves(p, i, {m})
  <2>1. StartsFrom(p, i, ms)
    BY <1>1, <1>2, <1>9 DEF StartsFrom
  <2>2. Grown(ms, x) /\ Noted(m, x) /\ Learned(m, ms, x)
    BY <1>2 DEF Advance
  <2>3. Told(p, i, ms, x, BagToSet(network)')
    BY <1>1, <1>2, <1>9 DEF Advance, Told, ToldGossip, ToldEcho, ToldReady
  <2>4. QED
    BY <1>1, <1>2, <1>4, <1>6, <2>1, <2>2, <2>3 DEF Evolves
<1>11. ASSUME NEW p2 \in Correct, NEW i2 \in Instance
       PROVE  /\ Has(p2, i2)' => Evolves(p2, i2, {m})
              /\ Has(p2, i2) => Has(p2, i2)'
              /\ Delivered(p2, i2) => Delivered(p2, i2)'
              /\ Delivered(p2, i2)' => Delivered(p2, i2) \/ Has(p2, i2)'
              /\ <<p2, i2>> \in cleanUpPending' =>
                    <<p2, i2>> \in cleanUpPending \/ Delivered(p2, i2)'
  <2>1. CASE <<p2, i2>> = <<p, i>>
    BY <1>6, <1>8, <1>10, <2>1
  <2>2. CASE <<p2, i2>> # <<p, i>>
    <3>1. /\ messagesLog'[p2][i2] = messagesLog[p2][i2]
          /\ deliveredMessages'[p2][i2] = deliveredMessages[p2][i2]
      BY <1>7, <1>8, <2>2
    <3>2. \A m2 \in {m} : ~(m2.to = p2 /\ m2.inst = i2)
      BY <1>1, <2>2
    <3>3. Has(p2, i2)' => Evolves(p2, i2, {m})
      BY <3>1, <3>2, Rests DEF Inv
    <3>4. Has(p2, i2)' = Has(p2, i2) /\ Delivered(p2, i2)' = Delivered(p2, i2)
      BY <3>1 DEF Has, Delivered
    <3>5. <<p2, i2>> \in cleanUpPending' => <<p2, i2>> \in cleanUpPending
      BY <1>8, <2>2
    <3>6. QED
      BY <3>3, <3>4, <3>5
  <2>3. QED
    BY <2>1, <2>2
<1>12. ASSUME NEW m2 \in BagToSet(network)' \ BagToSet(network)
       PROVE  m2.from \in Correct /\ Has(m2.from, m2.inst)' /\ Truthful(messagesLog'[m2.from][m2.inst], m2)
  <2>1. m2 \in BagToSet(msgs)
    BY <1>2, <1>12, ExchangeSets DEF Handled
  <2>2. m2.from = p /\ m2.inst = i /\ Truthful(x, m2)
    BY <1>1, <1>2, <2>1 DEF Handled, Own, AllTruthful
  <2>3. QED
    BY <1>6, <2>2 DEF Has
<1>13. \A m2 \in {m} : Has(m2.to, m2.inst)'
  BY <1>1, <1>6 DEF Has
<1>14. BagToSet(network) \ BagToSet(network)' \subseteq {m}
  BY <1>9
<1>15. ASSUME NEW p2 \in Correct, NEW q \in Correct, NEW i2 \in Instance, NEW v \in Value
       PROVE  Spends(p2, q, i2, v, {m})
  <2> DEFINE r == ReadyTo(p2, q, i2, v)
  <2>1. r.from = p2 /\ r.inst = i2
    BY DEF ReadyTo, Msg
  <2> HIDE DEF r
  <2>2. /\ Copies(r, network') + (IF r = m THEN 1 ELSE 0) = Copies(r, network) + Copies(r, msgs)
        /\ Copies(r, network) \in Nat /\ Copies(r, msgs) \in Nat /\ Copies(r, network') \in Nat
    BY <1>2, <1>3, <2>1, ExchangeCopies DEF Handled
  <2>3. CASE <<p2, i2>> = <<p, i>>
    <3>1. Copies(r, msgs) + Spare(x, q, v) <= Spare(ms, q, v)
      BY <1>2, <2>3 DEF Frugal, r, ReadyTo
    <3>2. Left(p2, q, i2, v)' = Copies(r, network') + Spare(x, q, v)
      BY <1>6, <2>3 DEF Left, ReadyTo, r
    <3>3. Copies(r, network) + Spare(ms, q, v) <= Left(p2, q, i2, v)
      BY <1>1, <2>2, <2>3, SpareBounds DEF Left, r
    <3>4. Left(p2, q, i2, v) \in Nat
      BY <2>2, SpareBounds DEF Left, r
    <3>5. QED
      BY <2>2, <3>1, <3>2, <3>3, <3>4, SpareBounds DEF Spends, r
  <2>4. CASE <<p2, i2>> # <<p, i>>
    <3>1. r \notin BagToSet(msgs)
      BY <1>1, <1>2, <2>1, <2>4 DEF Handled, Own
    <3>2. Copies(r, msgs) = 0
      BY <3>1, CopiesFacts
    <3>3. /\ messagesLog'[p2][i2] = messagesLog[p2][i2]
          /\ deliveredMessages'[p2][i2] = deliveredMessages[p2][i2]
      BY <1>7, <1>8, <2>4
    <3>4. Left(p2, q, i2, v)' + (IF r = m THEN 1 ELSE 0) = Left(p2, q, i2, v)
      BY <2>2, <3>2, <3>3, SpareBounds DEF Left, Has, Delivered, ReadyTo, r
    <3>5. Left(p2, q, i2, v) \in Nat
      BY <2>2, SpareBounds DEF Left, r
    <3>6. QED
      BY <3>4, <3>5 DEF Spends, r
  <2>5. QED
    BY <2>3, <2>4
<1>16. \A p2 \in Correct, i2 \in Instance : Has(p2, i2)' => Earned(p2, i2, messagesLog'[p2][i2])
  BY <1>2, <1>6, <1>8 DEF Earned
<1>17. QED
  BY <1>11, <1>12, <1>13, <1>14, <1>15, <1>16 DEF StepOf

LEMMA IgnoreStep ==
    ASSUME Inv, NEW m \in WithValue, NEW p \in Correct, m.to = p,
           m \in BagToSet(network) \cup FaultyArrivals, Ignore(p, m)
    PROVE  StepOf({m})
<1>1. PICK i \in Instance : i = m.inst
  BY DEF WithValue, Message
<1>2. /\ messagesLog[p][i] = NoState /\ Delivered(p, i)
      /\ messagesLog' = [messagesLog EXCEPT ![p][i] = NoState]
      /\ Exchange(m, EmptyBag)
      /\ UNCHANGED <<deliveredMessages, cleanUpPending>>
  BY <1>1 DEF Ignore, MayOpen, Update
<1>3. \A p2 \in Correct, i2 \in Instance : messagesLog'[p2][i2] = messagesLog[p2][i2]
  BY <1>2, LogUpdate DEF Inv, TypeOK
<1>4. BagToSet(network) \ {m} \subseteq BagToSet(network)'
  BY <1>2, ExchangeKeeps DEF Inv
<1>5. BagToSet(network)' \subseteq BagToSet(network)
  BY <1>2, ExchangeSets, EmptyBagSet
<1>6. ASSUME NEW p2 \in Correct, NEW i2 \in Instance
      PROVE  /\ Has(p2, i2)' => Evolves(p2, i2, {m})
             /\ Has(p2, i2)' = Has(p2, i2) /\ Delivered(p2, i2)' = Delivered(p2, i2)
  <2>1. Has(p2, i2)' = Has(p2, i2) /\ Delivered(p2, i2)' = Delivered(p2, i2)
    BY <1>2, <1>3 DEF Has, Delivered
  <2>2. ASSUME Has(p2, i2)'
        PROVE  Evolves(p2, i2, {m})
    <3>1. ~(m.to = p2 /\ m.inst = i2)
      BY <1>1, <1>2, <1>3, <2>2 DEF Has
    <3>2. \A m2 \in {m} : ~(m2.to = p2 /\ m2.inst = i2)
      BY <3>1
    <3>3. QED
      BY <1>2, <1>3, <2>2, <3>2, Rests DEF Inv
  <2>3. QED
    BY <2>1, <2>2
<1>7. \A m2 \in {m} : CleanedUp(m2.to, m2.inst)'
  BY <1>1, <1>2, <1>3 DEF CleanedUp, Has, Delivered
<1>8. ASSUME NEW p2 \in Correct, NEW q \in Correct, NEW i2 \in Instance, NEW v \in Value
      PROVE  Spends(p2, q, i2, v, {m})
  <2> DEFINE r == ReadyTo(p2, q, i2, v)
  <2>1. r.from = p2
    BY DEF ReadyTo, Msg
  <2> HIDE DEF r
  <2>2. Copies(r, EmptyBag) = 0 /\ IsABag(EmptyBag)
    BY CopiesFacts, EmptyBagSet, AreBags
  <2>3. /\ Copies(r, network') + (IF r = m THEN 1 ELSE 0) = Copies(r, network)
        /\ Copies(r, network) \in Nat /\ Copies(r, network') \in Nat
    BY <1>2, <2>1, <2>2, ExchangeCopies DEF Inv
  <2>4. messagesLog'[p2][i2] = messagesLog[p2][i2] /\ deliveredMessages' = deliveredMessages
    BY <1>2, <1>3
  <2>5. Left(p2, q, i2, v)' + (IF r = m THEN 1 ELSE 0) = Left(p2, q, i2, v)
    BY <2>3, <2>4, SpareBounds DEF Left, Has, Delivered, ReadyTo, r
  <2>6. Left(p2, q, i2, v) \in Nat
    BY <2>3, SpareBounds DEF Left, r
  <2>7. QED
    BY <2>5, <2>6 DEF Spends, r
<1>9. \A p2 \in Correct, i2 \in Instance : Earned(p2, i2, messagesLog'[p2][i2])
  BY <1>2 DEF Earned
<1>10. QED
  BY <1>2, <1>4, <1>5, <1>6, <1>7, <1>8, <1>9 DEF StepOf

LEMMA MessageStep ==
    ASSUME Inv, NEW m \in BagToSet(network) \cup FaultyArrivals, HandleMessage(m.to, m)
    PROVE  StepOf({m})
<1>1. PICK p \in Correct : p = m.to /\ m \in WithValue
  BY ArrivalType DEF Inv
<1>2. CASE Ignore(p, m)
  BY <1>1, <1>2, IgnoreStep
<1>3. CASE Has(p, m.inst) /\ Outcome(p, m, messagesLog[p][m.inst], EmptyBag)
  <2>1. messagesLog[p][m.inst] \in MessageState
    BY <1>1, <1>3, HasState DEF Inv, WithValue, Message
  <2>2. AllTruthful(messagesLog[p][m.inst], BagToSet(EmptyBag))
    BY EmptyBagSet DEF AllTruthful
  <2>3. QED
    BY <1>1, <1>3, <2>1, <2>2, HandlerStep
<1>4. CASE /\ ~Has(p, m.inst) /\ ~Delivered(p, m.inst)
           /\ \E ms \in FreshStates : Outcome(p, m, ms, Subscribe(p, m.inst, ms))
  <2>1. PICK ms \in FreshStates : Outcome(p, m, ms, Subscribe(p, m.inst, ms))
    BY <1>4
  <2>2. ms \in MessageState /\ AllTruthful(ms, BagToSet(Subscribe(p, m.inst, ms)))
    BY FreshStateType, SubscribeMessages
  <2>3. QED
    BY <1>1, <1>4, <2>1, <2>2, HandlerStep
<1>5. QED
  BY <1>1, <1>2, <1>3, <1>4, MessageOutcome DEF Inv

LEMMA CleanUpStep ==
    ASSUME Inv, Backed, NEW p \in Correct, NEW i \in Instance, CleanUp(p, i)
    PROVE  StepOf({})
<1>1. /\ Delivered(p, i) /\ network' = network /\ deliveredMessages' = deliveredMessages
      /\ messagesLog' = [messagesLog EXCEPT ![p][i] = NoState]
      /\ cleanUpPending' \subseteq cleanUpPending
  BY DEF CleanUp, Backed
<1>2. /\ messagesLog'[p][i] = NoState
      /\ \A p2 \in Correct, i2 \in Instance :
            <<p2, i2>> # <<p, i>> => messagesLog'[p2][i2] = messagesLog[p2][i2]
  BY <1>1, LogUpdate DEF Inv, TypeOK
<1>3. ASSUME NEW p2 \in Correct, NEW i2 \in Instance
      PROVE  /\ Has(p2, i2)' => Evolves(p2, i2, {})
             /\ Has(p2, i2) /\ ~Has(p2, i2)' => Delivered(p2, i2)'
             /\ Delivered(p2, i2)' = Delivered(p2, i2)
  <2>1. Delivered(p2, i2)' = Delivered(p2, i2)
    BY <1>1 DEF Delivered
  <2>2. CASE <<p2, i2>> = <<p, i>>
    BY <1>1, <1>2, <2>1, <2>2 DEF Has
  <2>3. CASE <<p2, i2>> # <<p, i>>
    <3>1. messagesLog'[p2][i2] = messagesLog[p2][i2]
      BY <1>2, <2>3
    <3>2. QED
      BY <1>1, <2>1, <3>1, Rests DEF Inv, Has
  <2>4. QED
    BY <2>2, <2>3
<1>4. ASSUME NEW p2 \in Correct, NEW q \in Correct, NEW i2 \in Instance, NEW v \in Value
      PROVE  Spends(p2, q, i2, v, {})
  <2>1. CASE <<p2, i2>> = <<p, i>>
    BY <1>1, <1>2, <2>1, SpendsNothing DEF Has, Delivered
  <2>2. CASE <<p2, i2>> # <<p, i>>
    BY <1>1, <1>2, <2>2, SpendsNothing
  <2>3. QED
    BY <2>1, <2>2
<1>5. \A p2 \in Correct, i2 \in Instance : Earned(p2, i2, messagesLog'[p2][i2])
  BY <1>1 DEF Earned
<1>6. QED
  BY <1>1, <1>3, <1>4, <1>5 DEF StepOf

LEMMA StutterStep ==
    ASSUME Inv, UNCHANGED vars
    PROVE  StepOf({})
<1>1. /\ network' = network /\ deliveredMessages' = deliveredMessages
      /\ messagesLog' = messagesLog /\ cleanUpPending' = cleanUpPending
  BY DEF vars
<1>2. ASSUME NEW p \in Correct, NEW i \in Instance
      PROVE  /\ Has(p, i)' => Evolves(p, i, {})
             /\ Has(p, i)' = Has(p, i) /\ Delivered(p, i)' = Delivered(p, i)
  BY <1>1, Rests DEF Inv, Has, Delivered
<1>3. \A p, q \in Correct, i \in Instance, v \in Value : Spends(p, q, i, v, {})
  BY <1>1, SpendsNothing
<1>4. \A p \in Correct, i \in Instance : Earned(p, i, messagesLog'[p][i])
  BY <1>1 DEF Earned
<1>5. QED
  BY <1>1, <1>2, <1>3, <1>4 DEF StepOf

LEMMA EveryStep ==
    ASSUME Inv, BroadcastFirst, Backed, [Next]_vars
    PROVE  \E T : StepOf(T)
<1>1. CASE \E p \in Correct, v \in Value : Broadcast(p, v)
  BY <1>1, BroadcastStep
<1>2. CASE \E m \in BagToSet(network) \cup FaultyArrivals : HandleMessage(m.to, m)
  BY <1>2, MessageStep
<1>3. CASE \E p \in Correct, i \in Instance : CleanUp(p, i)
  BY <1>3, CleanUpStep
<1>4. CASE UNCHANGED vars
  BY <1>4, StutterStep
<1>5. QED
  BY <1>1, <1>2, <1>3, <1>4 DEF Next

-----------------------------------------------------------------------------
(* How many draws fall on a set of processes *)

Draws(sample, S) == UNION {{q} \X (1 .. sample[q]) : q \in S}

LEMMA DrawsFinite ==
    ASSUME NEW s \in Sample, NEW S \in SUBSET Proc
    PROVE  IsFiniteSet(Draws(s, S)) /\ Weight(s, S) = Cardinality(Draws(s, S)) /\ Weight(s, S) \in Nat
<1> DEFINE f == [q \in S |-> {q} \X (1 .. s[q])]
           T == {{q} \X (1 .. s[q]) : q \in S}
<1>1. IsFiniteSet(S)
  BY ProcAssumption, FS_Subset
<1>2. f \in Surjection(S, T)
  BY DEF Surjection
<1>3. IsFiniteSet(T)
  <2> HIDE DEF f, T
  <2> QED
    BY <1>1, <1>2, FS_Surjection
<1>4. \A D \in T : IsFiniteSet(D)
  <2> SUFFICES ASSUME NEW q \in S
               PROVE  IsFiniteSet({q} \X (1 .. s[q]))
    OBVIOUS
  <2>1. s[q] \in Int /\ 1 \in Int
    BY DEF Sample
  <2>2. IsFiniteSet(1 .. s[q]) /\ IsFiniteSet({q})
    BY <2>1, FS_Interval, FS_Singleton
  <2>3. QED
    BY <2>2, FS_Product
<1>5. IsFiniteSet(UNION T)
  <2> HIDE DEF T
  <2> QED
    BY <1>3, <1>4, FS_UNION
<1>6. QED
  BY <1>5, FS_CardinalityType DEF Weight, Draws

LEMMA WeightMono ==
    ASSUME NEW s \in Sample, NEW S \in SUBSET Proc, NEW R \in SUBSET S
    PROVE  Weight(s, R) <= Weight(s, S)
<1>1. Draws(s, R) \subseteq Draws(s, S)
  BY DEF Draws
<1>2. R \in SUBSET Proc
  OBVIOUS
<1>3. QED
  BY <1>1, <1>2, DrawsFinite, FS_Subset

LEMMA WeightEmpty ==
    ASSUME NEW s
    PROVE  Weight(s, {}) = 0
<1>1. UNION {{q} \X (1 .. s[q]) : q \in {}} = {}
  OBVIOUS
<1>2. QED
  BY <1>1, FS_EmptySet DEF Weight

\* One more process brings its own draws, if it was not there.
LEMMA WeightAdd ==
    ASSUME NEW s \in Sample, NEW S \in SUBSET Proc, NEW q \in Proc
    PROVE  /\ Weight(s, S \cup {q}) <= Weight(s, S) + s[q]
           /\ q \notin S => Weight(s, S \cup {q}) = Weight(s, S) + s[q]
<1> DEFINE D == {q} \X (1 .. s[q])
<1>1. Draws(s, S \cup {q}) = Draws(s, S) \cup D
  BY DEF Draws
<1>2. s[q] \in Nat /\ S \cup {q} \in SUBSET Proc
  BY DEF Sample
<1>3. IsFiniteSet(D) /\ Cardinality(D) = s[q]
  <2>1. IsFiniteSet(1 .. s[q]) /\ Cardinality(1 .. s[q]) = s[q]
    BY <1>2, FS_Interval
  <2>2. IsFiniteSet({q}) /\ Cardinality({q}) = 1
    BY FS_Singleton
  <2>3. IsFiniteSet(D) /\ Cardinality(D) = Cardinality({q}) * Cardinality(1 .. s[q])
    BY <2>1, <2>2, FS_Product
  <2>4. \A n \in Nat : 1 * n = n
    OBVIOUS
  <2> HIDE DEF D
  <2>5. QED
    BY <1>2, <2>1, <2>2, <2>3, <2>4
<1>4. Cardinality(Draws(s, S) \cup D) =
         Cardinality(Draws(s, S)) + Cardinality(D) - Cardinality(Draws(s, S) \cap D)
  <2> HIDE DEF D
  <2> QED
    BY <1>3, DrawsFinite, FS_Union
<1>5. Cardinality(Draws(s, S) \cap D) \in Nat
  <2> HIDE DEF D
  <2> QED
    BY <1>3, FS_Intersection, FS_CardinalityType
<1>6. q \notin S => Cardinality(Draws(s, S) \cap D) = 0
  <2>1. q \notin S => Draws(s, S) \cap D = {}
    BY DEF Draws
  <2>2. QED
    BY <2>1, FS_EmptySet
<1>7. /\ Weight(s, S) = Cardinality(Draws(s, S)) /\ Weight(s, S) \in Nat
      /\ Weight(s, S \cup {q}) = Cardinality(Draws(s, S \cup {q}))
      /\ Weight(s, S \cup {q}) \in Nat
  BY <1>2, DrawsFinite
<1> HIDE DEF D
<1>8. /\ Weight(s, S \cup {q}) = Weight(s, S) + s[q] - Cardinality(Draws(s, S) \cap D)
      /\ Weight(s, S) \in Nat /\ s[q] \in Nat
      /\ Cardinality(Draws(s, S) \cap D) \in Nat
  BY <1>1, <1>2, <1>3, <1>4, <1>5, <1>7
<1>9. QED
  BY <1>6, <1>8

\* What becomes of the state of a process, and of a message.
LEMMA Goes ==
    ASSUME NEW T, StepOf(T), NEW p \in Correct, NEW i \in Instance
    PROVE  /\ CleanedUp(p, i) => CleanedUp(p, i)'
           /\ Has(p, i) => Has(p, i)' \/ CleanedUp(p, i)'
           /\ Has(p, i) /\ Has(p, i)' => Grown(messagesLog[p][i], messagesLog'[p][i])
<1>1. /\ Has(p, i)' => Evolves(p, i, T)
      /\ Has(p, i) /\ ~Has(p, i)' => Delivered(p, i)'
      /\ Delivered(p, i) => Delivered(p, i)'
  BY DEF StepOf
<1>2. Has(p, i)' => Has(p, i) \/ ~Delivered(p, i)
  BY <1>1 DEF Evolves, StartsFrom
<1>3. Has(p, i) /\ Has(p, i)' => Grown(messagesLog[p][i], messagesLog'[p][i])
  BY <1>1 DEF Evolves, StartsFrom
<1>4. QED
  BY <1>1, <1>2, <1>3 DEF CleanedUp

LEMMA Arrives ==
    ASSUME Inv, NEW T, StepOf(T), NEW m \in BagToSet(network), NEW q \in Correct, NEW i \in Instance,
           m.to = q, m.inst = i, ~CleanedUp(q, i)'
    PROVE  m \in BagToSet(network)' \/ (Has(q, i)' /\ Noted(m, messagesLog'[q][i]))
<1> SUFFICES ASSUME m \notin BagToSet(network)'
             PROVE  Has(q, i)' /\ Noted(m, messagesLog'[q][i])
  OBVIOUS
<1>1. m \in T /\ \A m2 \in T : m2 = m
  BY DEF StepOf
<1>2. Has(q, i)'
  BY <1>1 DEF StepOf, CleanedUp, Has, Delivered
<1>3. Evolves(q, i, T)
  BY <1>2 DEF StepOf
<1>4. QED
  BY <1>1, <1>2, <1>3 DEF Evolves

\* A message of a correct process is one from the network, and says what the
\* process holds.
LEMMA SaidBy ==
    ASSUME Inv, Backed, NEW T, StepOf(T), NEW m \in T, NEW q \in Correct, NEW i \in Instance,
           m.from = q, m.inst = i, ~CleanedUp(q, i)'
    PROVE  /\ m \in BagToSet(network) /\ m \in WithValue
           /\ Has(q, i) /\ Has(q, i)' /\ Truthful(messagesLog[q][i], m)
<1>1. m \in BagToSet(network) /\ m \in WithValue
  BY ProcAssumption DEF StepOf, FaultyArrivals, Correct, Inv
<1>2. ~CleanedUp(q, i)
  BY Goes
<1>3. Has(q, i) /\ Truthful(messagesLog[q][i], m)
  BY <1>1, <1>2 DEF Backed
<1>4. QED
  BY <1>1, <1>3, Goes

LEMMA SubscribedStep ==
    ASSUME Inv, Subscribed, Backed, NEW T, StepOf(T)
    PROVE  Subscribed'
<1> SUFFICES ASSUME NEW p \in Correct, NEW q \in Correct, NEW i \in Instance,
                    Has(p, i)', ~CleanedUp(q, i)'
             PROVE  /\ q \in messagesLog'[p][i].gossipSample =>
                          \/ InTransit(p, q, "GOSSIP_SUBSCRIBE", i, None)'
                          \/ Has(q, i)' /\ p \in messagesLog'[q][i].gossipSample
                    /\ q \in Members(messagesLog'[p][i].echoSample) =>
                          \/ InTransit(p, q, "ECHO_SUBSCRIBE", i, None)'
                          \/ Has(q, i)' /\ p \in messagesLog'[q][i].echoSubscriptionSet
                    /\ q \in Members(messagesLog'[p][i].readySample)
                               \cup Members(messagesLog'[p][i].deliverySample) =>
                          \/ InTransit(p, q, "READY_SUBSCRIBE", i, None)'
                          \/ Has(q, i)' /\ p \in messagesLog'[q][i].readySubscriptionSet
  BY DEF Subscribed
<1> DEFINE y == messagesLog'[p][i]
           G == Msg(p, q, "GOSSIP_SUBSCRIBE", i, None)
           E == Msg(p, q, "ECHO_SUBSCRIBE", i, None)
           R == Msg(p, q, "READY_SUBSCRIBE", i, None)
<1>1. PICK ms \in MessageState :
         /\ StartsFrom(p, i, ms) /\ Grown(ms, y)
         /\ \/ LearnedNothing(ms, y)
            \/ \E m \in T : m.to = p /\ m.inst = i /\ Learned(m, ms, y)
  BY DEF StepOf, Evolves
<1>2. ~CleanedUp(q, i)
  BY Goes
<1>3. y.echoSample = ms.echoSample /\ y.readySample = ms.readySample
      /\ y.deliverySample = ms.deliverySample
  BY <1>1 DEF Grown
<1>4. q \in y.gossipSample => q \in ms.gossipSample \/ (Has(q, i)' /\ p \in messagesLog'[q][i].gossipSample)
  <2> SUFFICES ASSUME q \in y.gossipSample, q \notin ms.gossipSample
               PROVE  Has(q, i)' /\ p \in messagesLog'[q][i].gossipSample
    OBVIOUS
  <2>1. PICK m \in T : /\ m.to = p /\ m.inst = i /\ m.stage = "GOSSIP_SUBSCRIBE" /\ m.from = q
    BY <1>1 DEF LearnedNothing, Learned
  <2>2. Has(q, i) /\ Has(q, i)' /\ p \in messagesLog[q][i].gossipSample
    BY <2>1, SaidBy DEF Truthful
  <2>3. Grown(messagesLog[q][i], messagesLog'[q][i])
    BY <2>2, Goes
  <2>4. QED
    BY <2>2, <2>3 DEF Grown
<1>5. /\ G.to = q /\ G.inst = i /\ G.from = p /\ G.stage = "GOSSIP_SUBSCRIBE"
      /\ E.to = q /\ E.inst = i /\ E.from = p /\ E.stage = "ECHO_SUBSCRIBE"
      /\ R.to = q /\ R.inst = i /\ R.from = p /\ R.stage = "READY_SUBSCRIBE"
  BY DEF Msg
<1>6. /\ G \in BagToSet(network) =>
            G \in BagToSet(network)' \/ (Has(q, i)' /\ p \in messagesLog'[q][i].gossipSample)
      /\ E \in BagToSet(network) =>
            E \in BagToSet(network)' \/ (Has(q, i)' /\ p \in messagesLog'[q][i].echoSubscriptionSet)
      /\ R \in BagToSet(network) =>
            R \in BagToSet(network)' \/ (Has(q, i)' /\ p \in messagesLog'[q][i].readySubscriptionSet)
  <2> HIDE DEF G, E, R
  <2> QED
    BY <1>5, Arrives DEF Noted
<1> HIDE DEF y, G, E, R
<1>7. CASE Has(p, i) /\ ms = messagesLog[p][i]
  <2>1. /\ q \in ms.gossipSample =>
              G \in BagToSet(network) \/ (Has(q, i) /\ p \in messagesLog[q][i].gossipSample)
        /\ q \in Members(ms.echoSample) =>
              E \in BagToSet(network) \/ (Has(q, i) /\ p \in messagesLog[q][i].echoSubscriptionSet)
        /\ q \in Members(ms.readySample) \cup Members(ms.deliverySample) =>
              R \in BagToSet(network) \/ (Has(q, i) /\ p \in messagesLog[q][i].readySubscriptionSet)
    BY <1>2, <1>7 DEF Subscribed, InTransit, G, E, R
  <2>2. Has(q, i) => Has(q, i)' /\ Grown(messagesLog[q][i], messagesLog'[q][i])
    BY Goes
  <2>3. QED
    BY <1>3, <1>4, <1>6, <2>1, <2>2 DEF Grown, InTransit, y, G, E, R
<1>8. CASE ms \in FreshStates /\ BagToSet(Subscribe(p, i, ms)) \subseteq BagToSet(network)'
  <2>1. /\ q \in ms.gossipSample => G \in BagToSet(network)'
        /\ q \in Members(ms.echoSample) => E \in BagToSet(network)'
        /\ q \in Members(ms.readySample) \cup Members(ms.deliverySample) => R \in BagToSet(network)'
    BY <1>8, SubscribeMessages DEF G, E, R
  <2>2. QED
    BY <1>3, <1>4, <2>1 DEF InTransit, y, G, E, R
<1>9. QED
  BY <1>1, <1>7, <1>8 DEF StartsFrom

LEMMA AnnouncedStep ==
    ASSUME Inv, Announced, NEW T, StepOf(T)
    PROVE  Announced'
<1> SUFFICES ASSUME NEW p \in Correct, NEW q \in Correct, NEW i \in Instance,
                    Has(p, i)', ~CleanedUp(q, i)'
             PROVE  LET y == messagesLog'[p][i]
                        z == messagesLog'[q][i]
                    IN  /\ q \in y.gossipSample /\ y.gossipMessage # None =>
                              \/ Msg(p, q, "GOSSIP", i, y.gossipMessage) \in BagToSet(network)'
                              \/ Has(q, i)' /\ z.echoMessage # None
                        /\ q \in y.echoSubscriptionSet /\ y.echoMessage # None =>
                              \/ Msg(p, q, "ECHO", i, y.echoMessage) \in BagToSet(network)'
                              \/ Has(q, i)' /\ (z.echoSample[p] = 0 \/ p \in z.receivedEcho)
                        /\ q \in y.readySubscriptionSet =>
                              \A v \in y.sentReadyMessages :
                                  Msg(p, q, "READY", i, v) \in BagToSet(network)' \/ Has(q, i)'
  BY DEF Announced, InTransit
<1> DEFINE y == messagesLog'[p][i]
           z == messagesLog'[q][i]
           other == messagesLog[q][i]
           G == Msg(p, q, "GOSSIP", i, y.gossipMessage)
           E == Msg(p, q, "ECHO", i, y.echoMessage)
           R(v) == Msg(p, q, "READY", i, v)
<1>1. PICK ms \in MessageState :
         /\ StartsFrom(p, i, ms) /\ Grown(ms, y) /\ Told(p, i, ms, y, BagToSet(network)')
  BY DEF StepOf, Evolves
<1>2. ~CleanedUp(q, i)
  BY Goes
<1>3. ms.gossipMessage # None \/ ms.echoMessage # None \/ ms.sentReadyMessages # {} =>
         Has(p, i) /\ ms = messagesLog[p][i]
  BY <1>1, FreshActed DEF StartsFrom
<1>4. Has(q, i) => Has(q, i)' /\ Grown(other, z)
  BY Goes
<1>5. /\ G.to = q /\ G.inst = i /\ G.from = p /\ G.stage = "GOSSIP"
      /\ E.to = q /\ E.inst = i /\ E.from = p /\ E.stage = "ECHO"
      /\ \A v : R(v).to = q /\ R(v).inst = i /\ R(v).from = p /\ R(v).stage = "READY"
  BY DEF Msg
<1>6. /\ G \in BagToSet(network) => G \in BagToSet(network)' \/ (Has(q, i)' /\ z.echoMessage # None)
      /\ E \in BagToSet(network) => \/ E \in BagToSet(network)'
                                    \/ Has(q, i)' /\ (z.echoSample[p] = 0 \/ p \in z.receivedEcho)
      /\ \A v : R(v) \in BagToSet(network) => R(v) \in BagToSet(network)' \/ Has(q, i)'
  <2> HIDE DEF G, E, R, z
  <2> QED
    BY <1>5, Arrives DEF Noted, z
<1> HIDE DEF y, z, other, G, E, R
<1>7. q \in y.gossipSample /\ y.gossipMessage # None =>
         G \in BagToSet(network)' \/ (Has(q, i)' /\ z.echoMessage # None)
  <2> SUFFICES ASSUME q \in y.gossipSample, y.gossipMessage # None, G \notin BagToSet(network)'
               PROVE  Has(q, i)' /\ z.echoMessage # None
    OBVIOUS
  <2>1. ms.gossipMessage # None /\ q \in ms.gossipSample
    BY <1>1 DEF Told, ToldGossip, G
  <2>2. ms.gossipMessage = y.gossipMessage
    BY <1>1, <2>1 DEF Grown
  <2>3. G \in BagToSet(network) \/ (Has(q, i) /\ other.echoMessage # None)
    BY <1>2, <1>3, <2>1, <2>2 DEF Announced, InTransit, G, other
  <2>4. QED
    BY <1>4, <1>6, <2>3 DEF Grown
<1>8. q \in y.echoSubscriptionSet /\ y.echoMessage # None =>
         \/ E \in BagToSet(network)'
         \/ Has(q, i)' /\ (z.echoSample[p] = 0 \/ p \in z.receivedEcho)
  <2> SUFFICES ASSUME q \in y.echoSubscriptionSet, y.echoMessage # None, E \notin BagToSet(network)'
               PROVE  Has(q, i)' /\ (z.echoSample[p] = 0 \/ p \in z.receivedEcho)
    OBVIOUS
  <2>1. ms.echoMessage # None /\ q \in ms.echoSubscriptionSet
    BY <1>1 DEF Told, ToldEcho, E
  <2>2. ms.echoMessage = y.echoMessage
    BY <1>1, <2>1 DEF Grown
  <2>3. \/ E \in BagToSet(network)
        \/ Has(q, i) /\ (other.echoSample[p] = 0 \/ p \in other.receivedEcho)
    BY <1>2, <1>3, <2>1, <2>2 DEF Announced, InTransit, E, other
  <2>4. QED
    BY <1>4, <1>6, <2>3 DEF Grown
<1>9. ASSUME q \in y.readySubscriptionSet, NEW v \in y.sentReadyMessages
      PROVE  R(v) \in BagToSet(network)' \/ Has(q, i)'
  <2> SUFFICES ASSUME R(v) \notin BagToSet(network)'
               PROVE  Has(q, i)'
    OBVIOUS
  <2>1. v \in ms.sentReadyMessages /\ q \in ms.readySubscriptionSet
    BY <1>1, <1>9 DEF Told, ToldReady, R
  <2>2. R(v) \in BagToSet(network) \/ Has(q, i)
    BY <1>2, <1>3, <2>1 DEF Announced, InTransit, R
  <2>3. QED
    BY <1>4, <1>6, <2>2
<1>10. QED
  BY <1>7, <1>8, <1>9 DEF y, z, G, E, R

LEMMA ActedOnStep ==
    ASSUME ActedOn, NEW T, StepOf(T)
    PROVE  ActedOn'
<1> SUFFICES ASSUME NEW p \in Correct, NEW i \in Instance, Has(p, i)'
             PROVE  Acted(messagesLog'[p][i], Delivered(p, i)')
  BY DEF ActedOn
<1>1. PICK ms \in MessageState :
         /\ StartsFrom(p, i, ms)
         /\ Acted(ms, Delivered(p, i)) => Acted(messagesLog'[p][i], Delivered(p, i)')
  BY DEF StepOf, Evolves
<1>2. Acted(ms, Delivered(p, i))
  BY <1>1, FreshActed DEF StartsFrom, ActedOn
<1>3. QED
  BY <1>1, <1>2

LEMMA BackedStep ==
    ASSUME Inv, Backed, NEW T, StepOf(T)
    PROVE  Backed'
<1>1. ASSUME NEW m \in BagToSet(network)'
      PROVE  /\ m.from \in Correct
             /\ \/ CleanedUp(m.from, m.inst)'
                \/ Has(m.from, m.inst)' /\ Truthful(messagesLog'[m.from][m.inst], m)
  <2>1. CASE m \notin BagToSet(network)
    BY <2>1 DEF StepOf
  <2>2. CASE m \in BagToSet(network)
    <3>1. PICK q \in Correct, i \in Instance : q = m.from /\ i = m.inst /\ m \in WithValue
      BY <2>2 DEF Backed, Inv, WithValue, Message
    <3>2. CleanedUp(q, i) \/ (Has(q, i) /\ Truthful(messagesLog[q][i], m))
      BY <2>2, <3>1 DEF Backed
    <3>3. CleanedUp(q, i)' \/ (Has(q, i)' /\ Truthful(messagesLog'[q][i], m))
      BY <3>1, <3>2, Goes, TruthfulKept
    <3>4. QED
      BY <3>1, <3>3 DEF CleanedUp, Has, Delivered
  <2>3. QED
    BY <2>1, <2>2
<1>2. ASSUME NEW p \in Correct, NEW q \in Correct, NEW i \in Instance,
             Has(p, i)', q \in messagesLog'[p][i].receivedEcho
      PROVE  CleanedUp(q, i)' \/ (Has(q, i)' /\ messagesLog'[q][i].echoMessage # None)
  <2> SUFFICES ASSUME ~CleanedUp(q, i)'
               PROVE  Has(q, i)' /\ messagesLog'[q][i].echoMessage # None
    OBVIOUS
  <2>1. PICK ms \in MessageState :
           /\ StartsFrom(p, i, ms)
           /\ \/ LearnedNothing(ms, messagesLog'[p][i])
              \/ \E m \in T : m.to = p /\ m.inst = i /\ Learned(m, ms, messagesLog'[p][i])
    BY <1>2 DEF StepOf, Evolves
  <2>2. Has(q, i) /\ messagesLog[q][i].echoMessage # None
    <3>1. CASE q \in ms.receivedEcho
      <4>1. Has(p, i) /\ q \in messagesLog[p][i].receivedEcho
        BY <2>1, <3>1, FreshActed DEF StartsFrom
      <4>2. ~CleanedUp(q, i)
        BY Goes
      <4>3. QED
        BY <4>1, <4>2 DEF Backed
    <3>2. CASE q \notin ms.receivedEcho
      <4>1. PICK m \in T : m.inst = i /\ m.stage = "ECHO" /\ m.from = q
        BY <1>2, <2>1, <3>2 DEF LearnedNothing, Learned
      <4>2. Has(q, i) /\ m.value = messagesLog[q][i].echoMessage /\ m \in WithValue
        BY <4>1, SaidBy DEF Truthful
      <4>3. QED
        BY <4>1, <4>2, ProcAssumption DEF WithValue, Announcements
    <3>3. QED
      BY <3>1, <3>2
  <2>3. Has(q, i)' /\ Grown(messagesLog[q][i], messagesLog'[q][i])
    BY <2>2, Goes
  <2>4. QED
    BY <2>2, <2>3 DEF Grown
<1>3. ASSUME NEW p \in Correct, NEW i \in Instance, <<p, i>> \in cleanUpPending'
      PROVE  Delivered(p, i)'
  BY <1>3 DEF StepOf, Backed
<1>4. QED
  BY <1>1, <1>2, <1>3 DEF Backed

LEMMA EchoesCounted ==
    ASSUME Inv, Backed, Counted, NEW T, StepOf(T), NEW p \in Correct, NEW i \in Instance,
           NEW v \in Value, Has(p, i)'
    PROVE  Weight(messagesLog'[p][i].echoSample, EchoesHeard(p, i, v)')
              <= messagesLog'[p][i].echoMessagesStat[v]
<1> DEFINE y == messagesLog'[p][i]
           H == IF Has(p, i) THEN EchoesHeard(p, i, v) ELSE {}
           H2 == EchoesHeard(p, i, v)'
<1>1. PICK ms \in MessageState :
         /\ StartsFrom(p, i, ms) /\ Grown(ms, y)
         /\ \/ LearnedNothing(ms, y)
            \/ \E m \in T : m.to = p /\ m.inst = i /\ Learned(m, ms, y)
  BY DEF StepOf, Evolves
<1>2. /\ H2 = {q \in y.receivedEcho \cap Correct :
                  Has(q, i)' /\ messagesLog'[q][i].echoMessage = v}
      /\ Has(p, i) => H = {q \in messagesLog[p][i].receivedEcho \cap Correct :
                             Has(q, i) /\ messagesLog[q][i].echoMessage = v}
  BY DEF EchoesHeard
<1>3. ms.echoSample \in Sample /\ ms.echoMessagesStat \in [Value -> Nat] /\ H \in SUBSET Proc
      /\ y.echoSample = ms.echoSample
  BY <1>1, StateFields DEF EchoesHeard, Correct, Grown
<1>4. Weight(ms.echoSample, H) <= ms.echoMessagesStat[v]
  <2>1. CASE Has(p, i)
    BY <1>1, <2>1 DEF StartsFrom, Counted
  <2>2. CASE ~Has(p, i)
    BY <1>1, <1>3, <2>2, WeightEmpty
  <2>3. QED
    BY <2>1, <2>2
<1> HIDE DEF H, H2, y
<1>5. ASSUME NEW q \in H2
      PROVE  q \in H \/ q \notin ms.receivedEcho
  <2> SUFFICES ASSUME q \in ms.receivedEcho
               PROVE  q \in H
    OBVIOUS
  <2>1. Has(p, i) /\ q \in messagesLog[p][i].receivedEcho
    BY <1>1, FreshActed DEF StartsFrom
  <2>2. q \in Correct /\ Has(q, i)' /\ messagesLog'[q][i].echoMessage = v
    BY <1>2, <1>5
  <2>3. ~CleanedUp(q, i)'
    BY <2>2 DEF CleanedUp, Has
  <2>4. Has(q, i) /\ messagesLog[q][i].echoMessage # None
    BY <2>1, <2>2, <2>3, Goes DEF Backed
  <2>5. messagesLog[q][i].echoMessage = v
    BY <2>2, <2>4, Goes DEF Grown
  <2>6. QED
    BY <1>2, <2>1, <2>2, <2>4, <2>5
<1>6. CASE y.receivedEcho = ms.receivedEcho /\ y.echoMessagesStat = ms.echoMessagesStat
  <2>1. H2 \subseteq H
    BY <1>2, <1>5, <1>6
  <2>2. H2 \in SUBSET H
    BY <2>1
  <2>3. Weight(ms.echoSample, H2) <= Weight(ms.echoSample, H)
    BY <1>3, <2>2, WeightMono
  <2>4. /\ Weight(ms.echoSample, H2) \in Nat /\ Weight(ms.echoSample, H) \in Nat
        /\ ms.echoMessagesStat[v] \in Nat
    BY <1>3, <2>1, DrawsFinite
  <2>5. QED
    BY <1>3, <1>4, <1>6, <2>3, <2>4 DEF y, H2
<1>7. CASE \E m \in T : /\ m.to = p /\ m.inst = i /\ m.stage = "ECHO"
                        /\ y.receivedEcho = ms.receivedEcho \cup {m.from}
                        /\ y.echoMessagesStat =
                              [ms.echoMessagesStat EXCEPT ![m.value] = @ + ms.echoSample[m.from]]
  <2>1. PICK m \in T : /\ m.inst = i /\ m.stage = "ECHO"
                       /\ y.receivedEcho = ms.receivedEcho \cup {m.from}
                       /\ y.echoMessagesStat =
                             [ms.echoMessagesStat EXCEPT ![m.value] = @ + ms.echoSample[m.from]]
    BY <1>7
  <2>2. m.from \in Proc /\ m.value \in Value
    BY <2>1, ArrivalType DEF StepOf, Inv, WithValue, Message, Announcements
  <2>3. H2 \subseteq H \cup {m.from}
    BY <1>2, <1>5, <2>1
  <2>4. m.from \in H2 => m.value = v
    <3> SUFFICES ASSUME m.from \in H2
                 PROVE  m.value = v
      OBVIOUS
    <3>1. PICK q \in Correct : q = m.from /\ Has(q, i)' /\ messagesLog'[q][i].echoMessage = v
      BY <1>2
    <3>2. ~CleanedUp(q, i)'
      BY <3>1 DEF CleanedUp, Has
    <3>3. Has(q, i) /\ m.value = messagesLog[q][i].echoMessage
      BY <2>1, <3>1, <3>2, SaidBy DEF Truthful
    <3>4. m.value # None
      BY <2>2, ProcAssumption
    <3>5. QED
      BY <3>1, <3>3, <3>4, Goes DEF Grown
  <2>5. /\ ms.echoMessagesStat[v] \in Nat /\ ms.echoSample[m.from] \in Nat
        /\ y.echoMessagesStat[v] =
              ms.echoMessagesStat[v] + (IF m.value = v THEN ms.echoSample[m.from] ELSE 0)
    BY <1>3, <2>1, <2>2 DEF Sample
  <2>6. CASE m.value = v
    <3>1. H2 \in SUBSET (H \cup {m.from}) /\ H \cup {m.from} \in SUBSET Proc
      BY <1>3, <2>2, <2>3
    <3>2. /\ Weight(ms.echoSample, H2) <= Weight(ms.echoSample, H \cup {m.from})
          /\ Weight(ms.echoSample, H \cup {m.from})
                <= Weight(ms.echoSample, H) + ms.echoSample[m.from]
      BY <1>3, <2>2, <3>1, WeightMono, WeightAdd
    <3>3. /\ Weight(ms.echoSample, H2) \in Nat /\ Weight(ms.echoSample, H) \in Nat
          /\ Weight(ms.echoSample, H \cup {m.from}) \in Nat
      BY <1>3, <3>1, DrawsFinite
    <3>4. Weight(ms.echoSample, H2) <= y.echoMessagesStat[v]
      BY <1>4, <2>5, <2>6, <3>2, <3>3
    <3>5. QED
      BY <1>3, <3>4 DEF y, H2
  <2>7. CASE m.value # v
    <3>1. H2 \in SUBSET H /\ H2 \in SUBSET Proc
      BY <1>3, <2>3, <2>4, <2>7
    <3>2. Weight(ms.echoSample, H2) <= Weight(ms.echoSample, H)
      BY <1>3, <3>1, WeightMono
    <3>3. Weight(ms.echoSample, H2) \in Nat /\ Weight(ms.echoSample, H) \in Nat
      BY <1>3, <3>1, DrawsFinite
    <3>4. Weight(ms.echoSample, H2) <= y.echoMessagesStat[v]
      BY <1>4, <2>5, <2>7, <3>2, <3>3
    <3>5. QED
      BY <1>3, <3>4 DEF y, H2
  <2>8. QED
    BY <2>6, <2>7
<1>8. QED
  BY <1>1, <1>6, <1>7 DEF LearnedNothing, Learned

\* Whose READYs have come: those that had come, and the sender of one that is
\* handled now.
LEMMA ReadysGrow ==
    ASSUME Inv, Announced, NEW T, StepOf(T), NEW p \in Correct, NEW i \in Instance,
           NEW v \in Value, Has(p, i)', NEW q \in ReadysHeard(p, i, v)'
    PROVE  \/ Has(p, i) /\ q \in ReadysHeard(p, i, v)
           \/ Msg(q, p, "READY", i, v) \in T
<1> DEFINE R == Msg(q, p, "READY", i, v)
           z == messagesLog'[q][i]
<1>1. /\ q \in Correct /\ Has(q, i)' /\ p \in z.readySubscriptionSet
      /\ v \in z.sentReadyMessages /\ R \notin BagToSet(network)'
  BY DEF ReadysHeard, InTransit
<1>2. PICK ms \in MessageState :
         StartsFrom(q, i, ms) /\ Told(q, i, ms, z, BagToSet(network)')
  BY <1>1 DEF StepOf, Evolves
<1>3. v \in ms.sentReadyMessages /\ p \in ms.readySubscriptionSet
  BY <1>1, <1>2 DEF Told, ToldReady
<1>4. Has(q, i) /\ ms = messagesLog[q][i]
  BY <1>2, <1>3, FreshActed DEF StartsFrom
<1>5. CASE R \in BagToSet(network)
  BY <1>1, <1>5 DEF StepOf
<1>6. CASE R \notin BagToSet(network)
  <2>1. ~CleanedUp(p, i)
    <3>1. ~CleanedUp(p, i)'
      BY DEF CleanedUp
    <3>2. QED
      BY <3>1, Goes
  <2>2. Has(p, i)
    BY <1>1, <1>3, <1>4, <1>6, <2>1 DEF Announced, InTransit
  <2>3. QED
    BY <1>1, <1>3, <1>4, <1>6, <2>2 DEF ReadysHeard, InTransit
<1>7. QED
  BY <1>5, <1>6

\* A count that grows by what the sender of a READY weighs in a sample.
LEMMA CountGrows ==
    ASSUME NEW s \in Sample, NEW H \in SUBSET Proc, NEW H2 \in SUBSET Proc, NEW n \in Nat,
           NEW n2, Weight(s, H) <= n,
           \/ H2 \subseteq H /\ n2 \in Nat /\ n <= n2
           \/ \E q \in Proc : H2 \subseteq H \cup {q} /\ n2 = n + s[q]
    PROVE  Weight(s, H2) <= n2
<1>1. CASE H2 \subseteq H /\ n2 \in Nat /\ n <= n2
  <2>1. H2 \in SUBSET H
    BY <1>1
  <2>2. Weight(s, H2) <= Weight(s, H)
    BY <2>1, WeightMono
  <2>3. Weight(s, H2) \in Nat /\ Weight(s, H) \in Nat
    BY DrawsFinite
  <2>4. QED
    BY <1>1, <2>2, <2>3
<1>2. CASE \E q \in Proc : H2 \subseteq H \cup {q} /\ n2 = n + s[q]
  <2>1. PICK q \in Proc : H2 \subseteq H \cup {q} /\ n2 = n + s[q]
    BY <1>2
  <2>2. H2 \in SUBSET (H \cup {q}) /\ H \cup {q} \in SUBSET Proc
    BY <2>1
  <2>3. Weight(s, H2) <= Weight(s, H \cup {q}) /\ Weight(s, H \cup {q}) <= Weight(s, H) + s[q]
    BY <2>2, WeightMono, WeightAdd
  <2>4. /\ Weight(s, H2) \in Nat /\ Weight(s, H) \in Nat /\ Weight(s, H \cup {q}) \in Nat
        /\ s[q] \in Nat
    BY <2>2, DrawsFinite DEF Sample
  <2>5. QED
    BY <2>1, <2>3, <2>4
<1>3. QED
  BY <1>1, <1>2

LEMMA ReadysCounted ==
    ASSUME Inv, Announced, Counted, NEW T, StepOf(T), NEW p \in Correct, NEW i \in Instance,
           NEW v \in Value, Has(p, i)'
    PROVE  /\ Weight(messagesLog'[p][i].readySample, ReadysHeard(p, i, v)')
                 <= messagesLog'[p][i].readySampleStat[v]
           /\ Weight(messagesLog'[p][i].deliverySample, ReadysHeard(p, i, v)')
                 <= messagesLog'[p][i].deliverySampleStat[v]
<1> DEFINE y == messagesLog'[p][i]
           H == IF Has(p, i) THEN ReadysHeard(p, i, v) ELSE {}
           H2 == ReadysHeard(p, i, v)'
<1>1. PICK ms \in MessageState :
         /\ StartsFrom(p, i, ms) /\ Grown(ms, y)
         /\ \/ LearnedNothing(ms, y) /\ \A m \in T : ~(m.to = p /\ m.inst = i)
            \/ \E m \in T : m.to = p /\ m.inst = i /\ Learned(m, ms, y)
  BY DEF StepOf, Evolves
<1>2. /\ ms.readySample \in Sample /\ ms.readySampleStat \in [Value -> Nat]
      /\ ms.deliverySample \in Sample /\ ms.deliverySampleStat \in [Value -> Nat]
      /\ y.readySample = ms.readySample /\ y.deliverySample = ms.deliverySample
      /\ H \in SUBSET Proc /\ H2 \in SUBSET Proc
  BY <1>1, StateFields DEF ReadysHeard, Correct, Grown
<1>3. /\ Weight(ms.readySample, H) <= ms.readySampleStat[v]
      /\ Weight(ms.deliverySample, H) <= ms.deliverySampleStat[v]
  <2>1. CASE Has(p, i)
    BY <1>1, <2>1 DEF StartsFrom, Counted
  <2>2. CASE ~Has(p, i)
    BY <1>1, <1>2, <2>2, WeightEmpty
  <2>3. QED
    BY <2>1, <2>2
<1>4. \A q \in H2 : q \in H \/ Msg(q, p, "READY", i, v) \in T
  BY ReadysGrow
<1>5. \A q : /\ Msg(q, p, "READY", i, v).from = q /\ Msg(q, p, "READY", i, v).to = p
             /\ Msg(q, p, "READY", i, v).stage = "READY" /\ Msg(q, p, "READY", i, v).inst = i
             /\ Msg(q, p, "READY", i, v).value = v
  BY DEF Msg
<1> HIDE DEF y, H, H2
<1>6. CASE SameReadys(ms, y) /\ \A m \in T : ~(m.to = p /\ m.inst = i /\ m.stage = "READY")
  <2>1. H2 \subseteq H
    BY <1>4, <1>5, <1>6
  <2>2. /\ Weight(ms.readySample, H2) <= ms.readySampleStat[v]
        /\ Weight(ms.deliverySample, H2) <= ms.deliverySampleStat[v]
    BY <1>2, <1>3, <2>1, CountGrows
  <2>3. QED
    BY <1>2, <1>6, <2>2 DEF y, H2, SameReadys
<1>7. CASE \E m \in T : m.to = p /\ m.inst = i /\ m.stage = "READY" /\ Learned(m, ms, y)
  <2>1. PICK m \in T : m.to = p /\ m.inst = i /\ m.stage = "READY" /\ Learned(m, ms, y)
    BY <1>7
  <2>2. m.from \in Proc /\ m.value \in Value
    BY <2>1, ArrivalType DEF StepOf, Inv, WithValue, Message, Announcements
  <2>3. \A m2 \in T : m2 = m
    BY DEF StepOf
  <2>4. /\ y.readySampleStat = [ms.readySampleStat EXCEPT ![m.value] = @ + ms.readySample[m.from]]
        /\ y.deliverySampleStat =
              [ms.deliverySampleStat EXCEPT ![m.value] = @ + ms.deliverySample[m.from]]
    BY <2>1 DEF Learned
  <2>5. CASE m.value = v
    <3>1. H2 \subseteq H \cup {m.from}
      BY <1>4, <1>5, <2>3
    <3>2. /\ y.readySampleStat[v] = ms.readySampleStat[v] + ms.readySample[m.from]
          /\ y.deliverySampleStat[v] = ms.deliverySampleStat[v] + ms.deliverySample[m.from]
      BY <1>2, <2>4, <2>5
    <3>3. Weight(ms.readySample, H2) <= y.readySampleStat[v]
      BY <1>2, <1>3, <2>2, <3>1, <3>2, CountGrows
    <3>4. Weight(ms.deliverySample, H2) <= y.deliverySampleStat[v]
      BY <1>2, <1>3, <2>2, <3>1, <3>2, CountGrows
    <3>5. QED
      BY <1>2, <3>3, <3>4 DEF y, H2
  <2>6. CASE m.value # v
    <3>1. H2 \subseteq H
      BY <1>4, <1>5, <2>3, <2>6
    <3>2. /\ y.readySampleStat[v] = ms.readySampleStat[v]
          /\ y.deliverySampleStat[v] = ms.deliverySampleStat[v]
      BY <1>2, <2>4, <2>6
    <3>3. /\ Weight(ms.readySample, H2) <= ms.readySampleStat[v]
          /\ Weight(ms.deliverySample, H2) <= ms.deliverySampleStat[v]
      BY <1>2, <1>3, <3>1, CountGrows
    <3>4. QED
      BY <1>2, <3>2, <3>3 DEF y, H2
  <2>7. QED
    BY <2>5, <2>6
<1>8. QED
  <2>1. \A m1, m2 \in T : m1 = m2
    BY DEF StepOf
  <2>2. QED
    BY <1>1, <1>6, <1>7, <2>1 DEF LearnedNothing, Learned

LEMMA CountedStep ==
    ASSUME Inv, Announced, Backed, Counted, NEW T, StepOf(T)
    PROVE  Counted'
BY EchoesCounted, ReadysCounted DEF Counted

LEMMA NothingMissedStep ==
    ASSUME Inv, BroadcastFirst, NothingMissed, [Next]_vars
    PROVE  NothingMissed'
<1>1. PICK T : StepOf(T)
  BY EveryStep DEF NothingMissed
<1>2. QED
  BY <1>1, SubscribedStep, AnnouncedStep, ActedOnStep, BackedStep, CountedStep DEF NothingMissed

LEMMA NothingMissedInit == Init => NothingMissed
<1> SUFFICES ASSUME Init
             PROVE  NothingMissed
  OBVIOUS
<1>1. \A p \in Correct, i \in Instance : ~Has(p, i)
  BY DEF Init, Has
<1>2. BagToSet(network) = {} /\ cleanUpPending = {}
  BY EmptyBagSet DEF Init
<1>3. QED
  BY <1>1, <1>2 DEF NothingMissed, Subscribed, Announced, Counted, ActedOn, Backed

\* No announcement gets lost on the way to those it concerns, whatever the order
\* in which subscriptions and announcements arrive, if nobody hears of an
\* instance before its author broadcasts it.
THEOREM NobodyMisses == Spec /\ []BroadcastFirst => []NothingMissed
<1>1. Init => Inv /\ NothingMissed
  BY InitInv, NothingMissedInit
<1>2. Inv /\ NothingMissed /\ BroadcastFirst /\ [Next]_vars => (Inv /\ NothingMissed)'
  BY NextInv, NothingMissedStep
<1>3. QED
  BY <1>1, <1>2, PTL DEF Spec

-----------------------------------------------------------------------------
(* A READY comes twice at most.  What the copies on their way and the      *)
(* READYs that may still be sent leave of two has been counted.            *)

\* From whom p has had READY of v at least n times.
HeardTimes(p, i, v, n) == {q \in Correct : Left(q, p, i, v) + n <= 2}
Twice(s, p, i, v) == Weight(s, HeardTimes(p, i, v, 1)) + Weight(s, HeardTimes(p, i, v, 2))
Budget ==
    /\ \A p, q \in Correct, i \in Instance, v \in Value : Left(q, p, i, v) \in 0 .. 2
    /\ \A p \in Correct, i \in Instance, v \in Value :
          Has(p, i) =>
              LET ms == messagesLog[p][i]
              IN  /\ Untold(ms.readySample, v) =>
                        ms.readySampleStat[v] <= Twice(ms.readySample, p, i, v)
                  /\ Untold(ms.deliverySample, v) =>
                        ms.deliverySampleStat[v] <= Twice(ms.deliverySample, p, i, v)

LEMMA LeftType ==
    ASSUME IsABag(network), NEW p, NEW q, NEW i, NEW v
    PROVE  Left(p, q, i, v) \in Nat
BY SpareBounds, CopiesFacts DEF Left

\* A count that grows with the first or the second READY of a process.
LEMMA CountBounded ==
    ASSUME NEW s \in Sample, NEW H1 \in SUBSET Proc, NEW H2 \in SUBSET Proc,
           NEW K1 \in SUBSET Proc, NEW K2 \in SUBSET Proc, H1 \subseteq K1, H2 \subseteq K2,
           NEW n \in Nat, NEW n2, n <= Weight(s, H1) + Weight(s, H2),
           \/ n2 = n
           \/ \E q \in Proc : /\ n2 = n + s[q]
                              /\ s[q] = 0 \/ (q \in K1 \ H1) \/ (q \in K2 \ H2)
    PROVE  n2 <= Weight(s, K1) + Weight(s, K2)
<1>1. /\ Weight(s, H1) \in Nat /\ Weight(s, H2) \in Nat
      /\ Weight(s, K1) \in Nat /\ Weight(s, K2) \in Nat
  BY DrawsFinite
<1>2. Weight(s, H1) <= Weight(s, K1) /\ Weight(s, H2) <= Weight(s, K2)
  BY WeightMono
<1>3. \A H, K \in SUBSET Proc, q \in Proc :
         H \subseteq K /\ q \in K \ H => Weight(s, H) + s[q] <= Weight(s, K)
  <2> SUFFICES ASSUME NEW H \in SUBSET Proc, NEW K \in SUBSET Proc, NEW q \in Proc,
                      H \subseteq K, q \in K \ H
               PROVE  Weight(s, H) + s[q] <= Weight(s, K)
    OBVIOUS
  <2>1. Weight(s, H \cup {q}) = Weight(s, H) + s[q]
    BY WeightAdd
  <2>2. H \cup {q} \in SUBSET K
    OBVIOUS
  <2>3. QED
    BY <2>1, <2>2, WeightMono
<1>4. \A q \in Proc : s[q] \in Nat
  BY DEF Sample
<1>5. CASE n2 = n
  BY <1>1, <1>2, <1>5
<1>6. ASSUME NEW q \in Proc, n2 = n + s[q], s[q] = 0 \/ (q \in K1 \ H1) \/ (q \in K2 \ H2)
      PROVE  n2 <= Weight(s, K1) + Weight(s, K2)
  <2>1. CASE s[q] = 0
    BY <1>1, <1>2, <1>6, <2>1
  <2>2. CASE q \in K1 \ H1
    <3>1. Weight(s, H1) + s[q] <= Weight(s, K1)
      BY <1>3, <2>2
    <3>2. QED
      BY <1>1, <1>2, <1>4, <1>6, <3>1
  <2>3. CASE q \in K2 \ H2
    <3>1. Weight(s, H2) + s[q] <= Weight(s, K2)
      BY <1>3, <2>3
    <3>2. QED
      BY <1>1, <1>2, <1>4, <1>6, <3>1
  <2>4. QED
    BY <1>6, <2>1, <2>2, <2>3
<1>7. QED
  BY <1>5, <1>6

\* The sender of a READY that is counted.
LEMMA ReadyCounted ==
    ASSUME Inv, Inv', Backed, Budget, NEW T, StepOf(T), NEW m \in T, m.stage = "READY",
           NEW p \in Correct, NEW i \in Instance, NEW v \in Value,
           m.to = p, m.inst = i, m.value = v, NEW s \in Sample, Untold(s, v)
    PROVE  \/ s[m.from] = 0
           \/ m.from \in HeardTimes(p, i, v, 1)' \ HeardTimes(p, i, v, 1)
           \/ m.from \in HeardTimes(p, i, v, 2)' \ HeardTimes(p, i, v, 2)
<1>1. m \in BagToSet(network) \cup FaultyArrivals /\ m \in Message
  BY ArrivalType DEF StepOf, Inv, WithValue
<1>2. CASE m \in FaultyArrivals
  BY <1>2 DEF FaultyArrivals, Untold
<1>3. CASE m \in BagToSet(network)
  <2>1. PICK q \in Correct : q = m.from
    BY <1>3 DEF Backed
  <2>2. m = ReadyTo(q, p, i, v)
    BY <1>1, <2>1 DEF Message, Msg, ReadyTo
  <2>3. Spends(q, p, i, v, T)
    BY DEF StepOf
  <2>4. Left(q, p, i, v)' + 1 <= Left(q, p, i, v)
    BY <2>2, <2>3 DEF Spends
  <2>5. Left(q, p, i, v) \in 0 .. 2
    BY DEF Budget
  <2>6. Left(q, p, i, v)' \in Nat
    <3>1. IsABag(network')
      BY DEF Inv
    <3>2. QED
      BY <3>1, SpareBounds, CopiesFacts DEF Left
  <2>7. CASE Left(q, p, i, v) = 2
    <3>1. q \notin HeardTimes(p, i, v, 1)
      BY <2>7 DEF HeardTimes
    <3>2. q \in HeardTimes(p, i, v, 1)'
      BY <2>4, <2>6, <2>7 DEF HeardTimes
    <3>3. QED
      BY <2>1, <3>1, <3>2
  <2>8. CASE Left(q, p, i, v) = 1
    <3>1. q \notin HeardTimes(p, i, v, 2)
      BY <2>8 DEF HeardTimes
    <3>2. q \in HeardTimes(p, i, v, 2)'
      BY <2>4, <2>6, <2>8 DEF HeardTimes
    <3>3. QED
      BY <2>1, <3>1, <3>2
  <2>9. QED
    BY <2>4, <2>5, <2>6, <2>7, <2>8
<1>4. QED
  BY <1>1, <1>2, <1>3

LEMMA HeardGrows ==
    ASSUME Inv, Inv', NEW T, StepOf(T), NEW p \in Correct, NEW i \in Instance, NEW v \in Value,
           NEW n \in {1, 2}
    PROVE  HeardTimes(p, i, v, n) \subseteq HeardTimes(p, i, v, n)'
<1> SUFFICES ASSUME NEW q \in Correct, Left(q, p, i, v) + n <= 2
             PROVE  Left(q, p, i, v)' + n <= 2
  BY DEF HeardTimes
<1>1. Left(q, p, i, v) \in Nat
  BY LeftType DEF Inv
<1>2. Left(q, p, i, v)' \in Nat
  <2>1. IsABag(network')
    BY DEF Inv
  <2>2. QED
    BY <2>1, SpareBounds, CopiesFacts DEF Left
<1>3. Spends(q, p, i, v, T)
  BY DEF StepOf
<1>4. QED
  BY <1>1, <1>2, <1>3 DEF Spends

LEMMA BudgetStep ==
    ASSUME Inv, Inv', Backed, Budget, NEW T, StepOf(T)
    PROVE  Budget'
<1>1. ASSUME NEW p \in Correct, NEW q \in Correct, NEW i \in Instance, NEW v \in Value
      PROVE  Left(q, p, i, v)' \in 0 .. 2
  <2>1. Left(q, p, i, v) \in 0 .. 2 /\ Spends(q, p, i, v, T)
    BY DEF Budget, StepOf
  <2>2. Left(q, p, i, v)' \in Nat
    <3>1. IsABag(network')
      BY DEF Inv
    <3>2. QED
      BY <3>1, SpareBounds, CopiesFacts DEF Left
  <2>3. QED
    BY <2>1, <2>2 DEF Spends
<1>2. ASSUME NEW p \in Correct, NEW i \in Instance, NEW v \in Value, Has(p, i)'
      PROVE  LET y == messagesLog'[p][i]
             IN  /\ Untold(y.readySample, v) =>
                       y.readySampleStat[v] <= Weight(y.readySample, HeardTimes(p, i, v, 1)')
                                                 + Weight(y.readySample, HeardTimes(p, i, v, 2)')
                 /\ Untold(y.deliverySample, v) =>
                       y.deliverySampleStat[v] <= Weight(y.deliverySample, HeardTimes(p, i, v, 1)')
                                                    + Weight(y.deliverySample, HeardTimes(p, i, v, 2)')
  <2> DEFINE y == messagesLog'[p][i]
             H1 == HeardTimes(p, i, v, 1)
             H2 == HeardTimes(p, i, v, 2)
             K1 == HeardTimes(p, i, v, 1)'
             K2 == HeardTimes(p, i, v, 2)'
  <2>1. PICK ms \in MessageState :
           /\ StartsFrom(p, i, ms) /\ Grown(ms, y)
           /\ \/ LearnedNothing(ms, y)
              \/ \E m \in T : m.to = p /\ m.inst = i /\ Learned(m, ms, y)
    BY <1>2 DEF StepOf, Evolves
  <2>2. /\ H1 \in SUBSET Proc /\ H2 \in SUBSET Proc /\ K1 \in SUBSET Proc /\ K2 \in SUBSET Proc
        /\ H1 \subseteq K1 /\ H2 \subseteq K2
    BY HeardGrows DEF HeardTimes, Correct
  <2>3. /\ ms.readySample \in Sample /\ ms.readySampleStat \in [Value -> Nat]
        /\ ms.deliverySample \in Sample /\ ms.deliverySampleStat \in [Value -> Nat]
        /\ y.readySample = ms.readySample /\ y.deliverySample = ms.deliverySample
    BY <2>1, StateFields DEF Grown
  <2>4. /\ Untold(ms.readySample, v) =>
              ms.readySampleStat[v] <= Weight(ms.readySample, H1) + Weight(ms.readySample, H2)
        /\ Untold(ms.deliverySample, v) =>
              ms.deliverySampleStat[v] <= Weight(ms.deliverySample, H1) + Weight(ms.deliverySample, H2)
    <3>1. CASE Has(p, i) /\ ms = messagesLog[p][i]
      BY <3>1 DEF Budget, Twice
    <3>2. CASE ms \in FreshStates
      <4>1. ms.readySampleStat[v] = 0 /\ ms.deliverySampleStat[v] = 0
        BY <3>2, FreshActed
      <4>2. /\ Weight(ms.readySample, H1) \in Nat /\ Weight(ms.readySample, H2) \in Nat
            /\ Weight(ms.deliverySample, H1) \in Nat /\ Weight(ms.deliverySample, H2) \in Nat
        BY <2>2, <2>3, DrawsFinite
      <4>3. QED
        BY <4>1, <4>2
    <3>3. QED
      BY <2>1, <3>1, <3>2 DEF StartsFrom
  <2> HIDE DEF y, H1, H2, K1, K2
  <2>5. CASE y.readySampleStat[v] = ms.readySampleStat[v] /\ y.deliverySampleStat[v] = ms.deliverySampleStat[v]
    <3>1. ms.readySampleStat[v] \in Nat /\ ms.deliverySampleStat[v] \in Nat
      BY <2>3
    <3>2. Untold(y.readySample, v) =>
             y.readySampleStat[v] <= Weight(y.readySample, K1) + Weight(y.readySample, K2)
      BY <2>2, <2>3, <2>4, <2>5, <3>1, CountBounded
    <3>3. Untold(y.deliverySample, v) =>
             y.deliverySampleStat[v] <= Weight(y.deliverySample, K1) + Weight(y.deliverySample, K2)
      BY <2>2, <2>3, <2>4, <2>5, <3>1, CountBounded
    <3>4. QED
      BY <3>2, <3>3 DEF y, K1, K2
  <2>6. ASSUME NEW m \in T, m.to = p, m.inst = i, m.stage = "READY", m.value = v,
               y.readySampleStat[v] = ms.readySampleStat[v] + ms.readySample[m.from],
               y.deliverySampleStat[v] = ms.deliverySampleStat[v] + ms.deliverySample[m.from]
        PROVE  /\ Untold(y.readySample, v) =>
                     y.readySampleStat[v] <= Weight(y.readySample, K1) + Weight(y.readySample, K2)
               /\ Untold(y.deliverySample, v) =>
                     y.deliverySampleStat[v] <= Weight(y.deliverySample, K1) + Weight(y.deliverySample, K2)
    <3>1. m.from \in Proc
      BY ArrivalType DEF StepOf, Inv, WithValue, Message
    <3>2. \A s \in Sample : Untold(s, v) => s[m.from] = 0 \/ m.from \in K1 \ H1 \/ m.from \in K2 \ H2
      BY <2>6, ReadyCounted DEF H1, H2, K1, K2
    <3>3. ms.readySampleStat[v] \in Nat /\ ms.deliverySampleStat[v] \in Nat
      BY <2>3
    <3>4. Untold(y.readySample, v) =>
             y.readySampleStat[v] <= Weight(y.readySample, K1) + Weight(y.readySample, K2)
      BY <2>2, <2>3, <2>4, <2>6, <3>1, <3>2, <3>3, CountBounded
    <3>5. Untold(y.deliverySample, v) =>
             y.deliverySampleStat[v] <= Weight(y.deliverySample, K1) + Weight(y.deliverySample, K2)
      BY <2>2, <2>3, <2>4, <2>6, <3>1, <3>2, <3>3, CountBounded
    <3>6. QED
      BY <3>4, <3>5
  <2>7. CASE LearnedNothing(ms, y)
    BY <2>5, <2>7 DEF LearnedNothing, SameReadys
  <2>8. CASE \E m \in T : m.to = p /\ m.inst = i /\ Learned(m, ms, y)
    <3>1. PICK m \in T : m.to = p /\ m.inst = i /\ Learned(m, ms, y)
      BY <2>8
    <3>2. CASE m.stage # "READY"
      BY <2>5, <3>1, <3>2 DEF Learned, SameReadys
    <3>3. CASE m.stage = "READY" /\ m.value # v
      BY <2>3, <2>5, <3>1, <3>3 DEF Learned
    <3>4. CASE m.stage = "READY" /\ m.value = v
      <4>1. /\ y.readySampleStat[v] = ms.readySampleStat[v] + ms.readySample[m.from]
            /\ y.deliverySampleStat[v] = ms.deliverySampleStat[v] + ms.deliverySample[m.from]
        BY <2>3, <3>1, <3>4 DEF Learned
      <4>2. QED
        BY <2>6, <3>1, <3>4, <4>1 DEF y, K1, K2
    <3>5. QED
      BY <3>2, <3>3, <3>4
  <2>9. QED
    BY <2>1, <2>7, <2>8
<1>3. QED
  BY <1>1, <1>2 DEF Budget, Twice, Untold

LEMMA BudgetInit == Init => Budget
<1> SUFFICES ASSUME Init
             PROVE  Budget
  OBVIOUS
<1>1. \A p \in Correct, i \in Instance : ~Has(p, i) /\ ~Delivered(p, i)
  BY DEF Init, Has, Delivered
<1>2. \A m : Copies(m, network) = 0
  BY EmptyBagSet, CopiesFacts DEF Init
<1>3. QED
  BY <1>1, <1>2 DEF Budget, Left

\* Who has been heard has announced.
LEMMA BudgetMeaning ==
    ASSUME Inv, ActedOn, Budget
    PROVE  ReadyCountedTwiceAtMost
<1>1. ASSUME NEW p \in Correct, NEW i \in Instance, NEW v \in Value, NEW n \in {1, 2}
      PROVE  HeardTimes(p, i, v, n) \subseteq Readied(i, v)
  <2> SUFFICES ASSUME NEW q \in Correct, Left(q, p, i, v) + n <= 2
               PROVE  q \in Readied(i, v)
    BY DEF HeardTimes
  <2>1. Copies(ReadyTo(q, p, i, v), network) \in Nat
    BY CopiesFacts DEF Inv
  <2>2. CASE Has(q, i)
    <3>1. Spare(messagesLog[q][i], p, v) < 2
      BY <2>1, <2>2, SpareBounds DEF Left
    <3>2. v \in messagesLog[q][i].sentReadyMessages
      BY <2>2, <3>1 DEF Spare, ActedOn, Acted
    <3>3. QED
      BY <2>2, <3>2 DEF Readied
  <2>3. CASE ~Has(q, i)
    BY <2>1, <2>3 DEF Left, Readied, CleanedUp
  <2>4. QED
    BY <2>2, <2>3
<1>2. ASSUME NEW p \in Correct, NEW i \in Instance, NEW v \in Value, NEW s \in Sample, NEW n \in Nat,
             n <= Twice(s, p, i, v)
      PROVE  n <= 2 * Weight(s, Readied(i, v))
  <2>1. Readied(i, v) \in SUBSET Proc
    BY DEF Readied, Correct
  <2>2. /\ HeardTimes(p, i, v, 1) \in SUBSET Readied(i, v)
        /\ HeardTimes(p, i, v, 2) \in SUBSET Readied(i, v)
    BY <1>1
  <2>3. /\ Weight(s, HeardTimes(p, i, v, 1)) <= Weight(s, Readied(i, v))
        /\ Weight(s, HeardTimes(p, i, v, 2)) <= Weight(s, Readied(i, v))
    BY <2>1, <2>2, WeightMono
  <2>4. /\ Weight(s, HeardTimes(p, i, v, 1)) \in Nat /\ Weight(s, HeardTimes(p, i, v, 2)) \in Nat
        /\ Weight(s, Readied(i, v)) \in Nat
    BY <2>1, <2>2, DrawsFinite
  <2>5. QED
    BY <1>2, <2>3, <2>4 DEF Twice
<1>3. ASSUME NEW p \in Correct, NEW i \in Instance, NEW v \in Value, Has(p, i)
      PROVE  LET ms == messagesLog[p][i]
             IN  /\ ms.readySample \in Sample /\ ms.readySampleStat[v] \in Nat
                 /\ ms.deliverySample \in Sample /\ ms.deliverySampleStat[v] \in Nat
  BY <1>3, HasState, StateFields DEF Inv
<1>4. QED
  BY <1>2, <1>3 DEF ReadyCountedTwiceAtMost, Budget

\* Although nothing remembers which READYs were counted (receivedReady is never
\* looked at), none is counted more than twice: what bounds it is in the sender.
THEOREM CountedTwiceAtMost == Spec /\ []BroadcastFirst => []ReadyCountedTwiceAtMost
<1>1. Init => Inv /\ NothingMissed /\ Budget
  BY InitInv, NothingMissedInit, BudgetInit
<1>2. ASSUME Inv, NothingMissed, Budget, BroadcastFirst, [Next]_vars
      PROVE  Inv' /\ NothingMissed' /\ Budget'
  <2>1. PICK T : StepOf(T)
    BY <1>2, EveryStep DEF NothingMissed
  <2>2. Inv' /\ NothingMissed'
    BY <1>2, NextInv, NothingMissedStep
  <2>3. QED
    BY <1>2, <2>1, <2>2, BudgetStep DEF NothingMissed
<1>3. Inv /\ NothingMissed /\ Budget => ReadyCountedTwiceAtMost
  BY BudgetMeaning DEF NothingMissed
<1>4. QED
  BY <1>1, <1>2, <1>3, PTL DEF Spec

-----------------------------------------------------------------------------
(* Totality *)

\* An instance that its author has not broadcast is unheard of if nobody lies
\* about it.
Unheard ==
    \A i \in Instance :
        i.author \in Correct /\ transactionCounter[i.author] <= i.seqNumber =>
            /\ \A p \in Correct : ~Has(p, i) /\ ~Delivered(p, i)
            /\ \A m \in BagToSet(network) : m.inst # i

LEMMA UnheardBroadcast ==
    ASSUME Inv, Unheard, NEW p \in Correct, NEW v \in Value, Broadcast(p, v)
    PROVE  Unheard'
<1>1. transactionCounter[p] \in Nat /\ transactionCounter[p] < MaxTransactions
      /\ MaxTransactions \in Nat
  BY BoundAssumption DEF Inv, TypeOK, Broadcast
<1>2. PICK j \in Instance : /\ j = [author |-> p, seqNumber |-> transactionCounter[p]]
                            /\ j.author = p /\ j.seqNumber = transactionCounter[p]
  BY <1>1 DEF Instance, Broadcast
<1>3. PICK ms \in FreshStates :
         /\ messagesLog' = [messagesLog EXCEPT ![p][j] = Gossiping(ms, v)]
         /\ network' = network (+) Subscribe(p, j, ms) (+) Gossip(p, j, v, ms)
  BY <1>2 DEF Broadcast
<1> SUFFICES ASSUME NEW i \in Instance, i.author \in Correct,
                    transactionCounter'[i.author] <= i.seqNumber
             PROVE  /\ \A q \in Correct : ~Has(q, i)' /\ ~Delivered(q, i)'
                    /\ \A m \in BagToSet(network') : m.inst # i
  BY DEF Unheard
<1>4. /\ transactionCounter \in [Correct -> 0 .. MaxTransactions]
      /\ transactionCounter' = [transactionCounter EXCEPT ![p] = @ + 1]
  BY DEF Inv, TypeOK, Broadcast
<1>5. transactionCounter[i.author] <= i.seqNumber /\ i # j
  <2>1. i.seqNumber \in Int
    BY DEF Instance
  <2>2. transactionCounter[i.author] \in Int
    BY <1>4
  <2>3. QED
    BY <1>1, <1>2, <1>4, <2>1, <2>2
<1>6. /\ \A q \in Correct : ~Has(q, i) /\ ~Delivered(q, i)
      /\ \A m \in BagToSet(network) : m.inst # i
  BY <1>5 DEF Unheard
<1>7. \A q \in Correct : messagesLog'[q][i] = messagesLog[q][i]
  <2>1. Gossiping(ms, v) \in MessageState
    BY FreshStateType, StateUpdates DEF Gossiping
  <2>2. QED
    BY <1>2, <1>3, <1>5, <2>1, LogUpdate DEF Inv, TypeOK
<1>8. \A m \in BagToSet(network') : m \in BagToSet(network) \/ m.inst = j
  <2>1. /\ BagToSet(Subscribe(p, j, ms)) \subseteq Own(p, j)
        /\ BagToSet(Gossip(p, j, v, ms)) \subseteq Own(p, j)
    BY SubscribeOwn, ReadyOwn
  <2>2. BagToSet(network') = BagToSet(network) \cup BagToSet(Subscribe(p, j, ms))
                               \cup BagToSet(Gossip(p, j, v, ms))
    BY <1>3, BagUnionSet
  <2>3. QED
    BY <2>1, <2>2 DEF Own
<1>9. QED
  BY <1>5, <1>6, <1>7, <1>8 DEF Has, Delivered, Broadcast

LEMMA UnheardStep ==
    ASSUME FaultyMessages = {}, Inv, Unheard, [Next]_vars
    PROVE  Unheard'
<1>1. CASE \E p \in Correct, v \in Value : Broadcast(p, v)
  BY <1>1, UnheardBroadcast
<1>2. CASE \E m \in BagToSet(network) \cup FaultyArrivals : HandleMessage(m.to, m)
  <2>1. PICK m \in BagToSet(network) : HandleMessage(m.to, m)
    BY <1>2 DEF FaultyArrivals
  <2>2. m \in WithValue /\ m.to \in Correct /\ m.inst \in Instance
    <3>1. m \in WithValue
      BY ArrivalType DEF Inv
    <3>2. QED
      BY <3>1 DEF WithValue, Message
  <2>3. PICK x, msgs : Handled(m.to, m, x, msgs)
    BY <2>1, <2>2, MessageHandled DEF Inv
  <2> SUFFICES ASSUME NEW i \in Instance, i.author \in Correct,
                      transactionCounter'[i.author] <= i.seqNumber
               PROVE  /\ \A q \in Correct : ~Has(q, i)' /\ ~Delivered(q, i)'
                      /\ \A m2 \in BagToSet(network') : m2.inst # i
    BY DEF Unheard
  <2>4. /\ \A q \in Correct : ~Has(q, i) /\ ~Delivered(q, i)
        /\ \A m2 \in BagToSet(network) : m2.inst # i
    BY <2>3 DEF Unheard, Handled
  <2>5. m.inst # i
    BY <2>4
  <2>6. \A m2 \in BagToSet(network') : m2.inst # i
    BY <2>3, <2>4, <2>5, ExchangeSets DEF Handled, Own
  <2>7. \A q \in Correct : messagesLog'[q][i] = messagesLog[q][i]
    BY <2>2, <2>3, <2>5, LogUpdate DEF Handled, Inv, TypeOK
  <2>8. \A q \in Correct : deliveredMessages'[q][i] = deliveredMessages[q][i]
    <3>1. CASE UNCHANGED deliveredMessages
      BY <3>1
    <3>2. CASE m.value \in Value /\ Deliver(m.to, m.inst, m.value)
      BY <2>2, <2>5, <3>2, LogUpdate DEF Deliver, Inv, TypeOK
    <3>3. QED
      BY <2>3, <3>1, <3>2 DEF Handled
  <2>9. QED
    BY <2>4, <2>6, <2>7, <2>8 DEF Has, Delivered
<1>3. CASE \E p \in Correct, i \in Instance : CleanUp(p, i)
  <2>1. PICK p \in Correct, j \in Instance : CleanUp(p, j)
    BY <1>3
  <2>2. \A q \in Correct, i \in Instance :
           ~Has(q, i) => ~Has(q, i)'
    BY <2>1, LogUpdate DEF CleanUp, Has, Inv, TypeOK
  <2>3. QED
    BY <2>1, <2>2 DEF Unheard, CleanUp, Delivered
<1>4. CASE UNCHANGED vars
  BY <1>4 DEF vars, Unheard, Has, Delivered
<1>5. QED
  BY <1>1, <1>2, <1>3, <1>4 DEF Next

\* With faulty processes that are silent, an author's Broadcast is the first
\* anybody hears of the instance and takes the place of no state.
THEOREM AuthorIsFirst ==
    ASSUME FaultyMessages = {}
    PROVE  Spec => []BroadcastFirst
<1>1. Init => Inv /\ Unheard
  BY InitInv, EmptyBagSet DEF Init, Unheard, Has, Delivered
<1>2. Inv /\ Unheard /\ [Next]_vars => Inv' /\ Unheard'
  BY NextInv, UnheardStep
<1>3. Unheard => BroadcastFirst
  BY DEF Unheard, BroadcastFirst
<1>4. QED
  BY <1>1, <1>2, <1>3, PTL DEF Spec

\* What a process delivered it has counted enough READYs for, and its samples
\* are drawn.
DeliveredCounted ==
    \A p \in Correct, i \in Instance :
        Has(p, i) /\ Delivered(p, i) =>
            DeliveryThreshold <= messagesLog[p][i].deliverySampleStat[deliveredMessages[p][i]]
Drawn ==
    \A p \in Correct, i \in Instance :
        Has(p, i) =>
            LET ms == messagesLog[p][i]
            IN  /\ ms.echoSample \in EchoSamples /\ ms.readySample \in ReadySamples
                /\ ms.deliverySample \in DeliverySamples
                /\ \E g \in GossipSamples : g \subseteq ms.gossipSample

LEMMA DeliveredCountedStep ==
    ASSUME Inv, Inv', DeliveredCounted, NEW T, StepOf(T)
    PROVE  DeliveredCounted'
<1> SUFFICES ASSUME NEW p \in Correct, NEW i \in Instance, Has(p, i)', Delivered(p, i)'
             PROVE  DeliveryThreshold <=
                       messagesLog'[p][i].deliverySampleStat[deliveredMessages'[p][i]]
  BY DEF DeliveredCounted
<1> DEFINE y == messagesLog'[p][i]
           v == deliveredMessages'[p][i]
<1>1. PICK ms \in MessageState :
         /\ StartsFrom(p, i, ms) /\ Grown(ms, y)
         /\ \/ LearnedNothing(ms, y)
            \/ \E m \in T : Learned(m, ms, y)
  BY DEF StepOf, Evolves
<1>2. v \in Value
  BY DEF Delivered, Inv, TypeOK
<1>3. Earned(p, i, y)
  BY DEF StepOf
<1>4. CASE v = deliveredMessages[p][i]
  <2>1. Has(p, i) /\ ms = messagesLog[p][i] /\ Delivered(p, i)
    BY <1>1, <1>4 DEF StartsFrom, Delivered
  <2>2. DeliveryThreshold <= ms.deliverySampleStat[v]
    BY <1>4, <2>1 DEF DeliveredCounted
  <2>3. ms.deliverySampleStat \in [Value -> Nat] /\ ms.deliverySample \in Sample
    BY <1>1, StateFields
  <2>4. ms.deliverySampleStat[v] <= y.deliverySampleStat[v] /\ y.deliverySampleStat[v] \in Nat
    <3>1. CASE y.deliverySampleStat = ms.deliverySampleStat
      BY <1>2, <2>3, <3>1
    <3>2. CASE \E m \in T : y.deliverySampleStat =
                 [ms.deliverySampleStat EXCEPT ![m.value] = @ + ms.deliverySample[m.from]]
      <4>1. PICK m \in T : y.deliverySampleStat =
                 [ms.deliverySampleStat EXCEPT ![m.value] = @ + ms.deliverySample[m.from]]
        BY <3>2
      <4>2. m.from \in Proc
        BY ArrivalType DEF StepOf, Inv, WithValue, Message
      <4>3. ms.deliverySample[m.from] \in Nat
        BY <2>3, <4>2 DEF Sample
      <4>4. QED
        BY <1>2, <2>3, <4>1, <4>3
    <3>3. QED
      BY <1>1, <3>1, <3>2 DEF LearnedNothing, Learned, SameReadys
  <2>5. QED
    BY <1>2, <2>2, <2>3, <2>4, ThresholdAssumption
<1>5. CASE v # deliveredMessages[p][i]
  BY <1>3, <1>5 DEF Earned
<1>6. QED
  BY <1>4, <1>5

LEMMA DrawnStep ==
    ASSUME Drawn, NEW T, StepOf(T)
    PROVE  Drawn'
<1> SUFFICES ASSUME NEW p \in Correct, NEW i \in Instance, Has(p, i)'
             PROVE  LET y == messagesLog'[p][i]
                    IN  /\ y.echoSample \in EchoSamples /\ y.readySample \in ReadySamples
                        /\ y.deliverySample \in DeliverySamples
                        /\ \E g \in GossipSamples : g \subseteq y.gossipSample
  BY DEF Drawn
<1>1. PICK ms \in MessageState : StartsFrom(p, i, ms) /\ Grown(ms, messagesLog'[p][i])
  BY DEF StepOf, Evolves
<1>2. /\ ms.echoSample \in EchoSamples /\ ms.readySample \in ReadySamples
      /\ ms.deliverySample \in DeliverySamples
      /\ \E g \in GossipSamples : g \subseteq ms.gossipSample
  <2>1. CASE Has(p, i) /\ ms = messagesLog[p][i]
    BY <2>1 DEF Drawn
  <2>2. CASE ms \in FreshStates
    <3>1. PICK g \in GossipSamples, e \in EchoSamples, r \in ReadySamples, d \in DeliverySamples :
             ms = FreshState(g, e, r, d)
      BY <2>2 DEF FreshStates
    <3>2. /\ ms.gossipSample = g /\ ms.echoSample = e /\ ms.readySample = r
          /\ ms.deliverySample = d
      BY <3>1 DEF FreshState
    <3>3. QED
      BY <3>2
  <2>3. QED
    BY <1>1, <2>1, <2>2 DEF StartsFrom
<1>3. QED
  BY <1>1, <1>2 DEF Grown

Held == Inv /\ NothingMissed /\ Budget /\ DeliveredCounted /\ Drawn

LEMMA HeldInit == Init => Held
<1> SUFFICES ASSUME Init
             PROVE  Held
  OBVIOUS
<1>1. \A p \in Correct, i \in Instance : ~Has(p, i)
  BY DEF Init, Has
<1>2. QED
  BY <1>1, InitInv, NothingMissedInit, BudgetInit DEF Held, DeliveredCounted, Drawn

LEMMA HeldStep ==
    ASSUME Held, BroadcastFirst, [Next]_vars
    PROVE  Held'
<1>1. PICK T : StepOf(T)
  BY EveryStep DEF Held, NothingMissed
<1>2. Inv' /\ NothingMissed'
  BY NextInv, NothingMissedStep DEF Held
<1>3. Budget' /\ DeliveredCounted' /\ Drawn'
  BY <1>1, <1>2, BudgetStep, DeliveredCountedStep, DrawnStep DEF Held, NothingMissed
<1>4. QED
  BY <1>2, <1>3 DEF Held

\* Processes that were not drawn weigh nothing.
LEMMA WeightDrawn ==
    ASSUME NEW s \in Sample, NEW S \in SUBSET Proc, NEW H \in SUBSET Proc,
           \A q \in S : s[q] > 0 => q \in H
    PROVE  Weight(s, S) <= Weight(s, H)
<1>1. Draws(s, S) \subseteq Draws(s, H)
  <2> SUFFICES ASSUME NEW q \in S, NEW k \in 1 .. s[q]
               PROVE  q \in H
    BY DEF Draws
  <2>1. s[q] \in Nat
    BY DEF Sample
  <2>2. QED
    BY <2>1
<1>2. QED
  BY <1>1, DrawsFinite, FS_Subset

\* When nothing is under way, all that was announced has been heard.
LEMMA AllHeard ==
    ASSUME Inv, NothingMissed, NEW i \in Instance, Settled(i), \A q \in Correct : Has(q, i),
           NEW p \in Correct, NEW v \in Value
    PROVE  LET ms == messagesLog[p][i]
           IN  /\ Weight(ms.echoSample, Echoers(i, v)) <= ms.echoMessagesStat[v]
               /\ Weight(ms.readySample, Readied(i, v)) <= ms.readySampleStat[v]
               /\ Weight(ms.deliverySample, Readied(i, v)) <= ms.deliverySampleStat[v]
<1> DEFINE ms == messagesLog[p][i]
<1>1. /\ ms.echoSample \in Sample /\ ms.readySample \in Sample /\ ms.deliverySample \in Sample
      /\ ms.echoMessagesStat[v] \in Nat /\ ms.readySampleStat[v] \in Nat
      /\ ms.deliverySampleStat[v] \in Nat
  BY HasState, StateFields DEF Inv
<1>2. /\ \A m : m \notin BagToSet(network)
      /\ \A q \in Correct : ~CleanedUp(q, i)
  BY EmptyBagSet DEF Settled, CleanedUp
<1>3. \A q \in Correct :
         /\ q \in Members(ms.echoSample) => p \in messagesLog[q][i].echoSubscriptionSet
         /\ q \in Members(ms.readySample) \cup Members(ms.deliverySample) =>
               p \in messagesLog[q][i].readySubscriptionSet
  BY <1>2 DEF NothingMissed, Subscribed, InTransit
<1>4. \A q \in Echoers(i, v) : ms.echoSample[q] > 0 => q \in EchoesHeard(p, i, v)
  <2> SUFFICES ASSUME NEW q \in Correct, messagesLog[q][i].echoMessage = v, ms.echoSample[q] > 0
               PROVE  q \in EchoesHeard(p, i, v)
    BY DEF Echoers
  <2>1. p \in messagesLog[q][i].echoSubscriptionSet
    BY <1>3 DEF Members, Correct
  <2>2. v # None
    BY ProcAssumption
  <2>3. ms.echoSample[q] = 0 \/ q \in ms.receivedEcho
    BY <1>2, <2>1, <2>2 DEF NothingMissed, Announced, InTransit
  <2>4. ms.echoSample[q] \in Nat
    BY <1>1 DEF Sample, Correct
  <2>5. QED
    BY <2>3, <2>4 DEF EchoesHeard
<1>5. \A q \in Readied(i, v) :
         /\ ms.readySample[q] > 0 => q \in ReadysHeard(p, i, v)
         /\ ms.deliverySample[q] > 0 => q \in ReadysHeard(p, i, v)
  <2> SUFFICES ASSUME NEW q \in Readied(i, v),
                      ms.readySample[q] > 0 \/ ms.deliverySample[q] > 0
               PROVE  q \in ReadysHeard(p, i, v)
    OBVIOUS
  <2>1. q \in Correct /\ v \in messagesLog[q][i].sentReadyMessages
    BY <1>2 DEF Readied
  <2>2. p \in messagesLog[q][i].readySubscriptionSet
    BY <1>3, <2>1 DEF Members, Correct
  <2>3. QED
    BY <1>2, <2>1, <2>2 DEF ReadysHeard, InTransit
<1>6. /\ Echoers(i, v) \in SUBSET Proc /\ EchoesHeard(p, i, v) \in SUBSET Proc
      /\ Readied(i, v) \in SUBSET Proc /\ ReadysHeard(p, i, v) \in SUBSET Proc
  BY DEF Echoers, EchoesHeard, Readied, ReadysHeard, Correct
<1>7. /\ Weight(ms.echoSample, EchoesHeard(p, i, v)) <= ms.echoMessagesStat[v]
      /\ Weight(ms.readySample, ReadysHeard(p, i, v)) <= ms.readySampleStat[v]
      /\ Weight(ms.deliverySample, ReadysHeard(p, i, v)) <= ms.deliverySampleStat[v]
  BY DEF NothingMissed, Counted
<1> HIDE DEF ms
<1>8. /\ Weight(ms.echoSample, Echoers(i, v)) <= Weight(ms.echoSample, EchoesHeard(p, i, v))
      /\ Weight(ms.readySample, Readied(i, v)) <= Weight(ms.readySample, ReadysHeard(p, i, v))
      /\ Weight(ms.deliverySample, Readied(i, v)) <= Weight(ms.deliverySample, ReadysHeard(p, i, v))
  BY <1>1, <1>4, <1>5, <1>6, WeightDrawn
<1>9. /\ \A s \in Sample, S \in SUBSET Proc : Weight(s, S) \in Nat
  BY DrawsFinite
<1>10. QED
  <2>1. \A a, b, c \in Nat : a <= b /\ b <= c => a <= c
    OBVIOUS
  <2>2. QED
    BY <1>1, <1>6, <1>7, <1>8, <1>9, <2>1 DEF ms

\* Nobody is left out of an instance when all subscriptions have arrived.
LEMMA AllReached ==
    ASSUME Inv, NothingMissed, NEW i \in Instance, Settled(i), Reached(i),
           NEW p \in Correct, Has(p, i)
    PROVE  \A q \in Correct : Has(q, i)
<1> DEFINE S == {q \in Correct : Has(q, i)}
<1>1. /\ \A m : m \notin BagToSet(network)
      /\ \A q \in Correct : ~CleanedUp(q, i)
  BY EmptyBagSet DEF Settled, CleanedUp, Has
<1>2. ASSUME NEW q \in S
      PROVE  LET ms == messagesLog[q][i]
             IN  Contacts(ms.gossipSample, ms.echoSample, ms.readySample, ms.deliverySample)
                    \subseteq S
  BY <1>1, <1>2 DEF NothingMissed, Subscribed, InTransit, Contacts
<1>3. S \in SUBSET Correct /\ S # {}
  OBVIOUS
<1>4. S = Correct
  BY <1>2, <1>3 DEF Reached
<1>5. QED
  BY <1>4

LEMMA SettledTotality ==
    ASSUME Held, ReadyThreshold > 0, DeliveryThreshold > 0,
           \A d \in DeliverySamples, v \in Value : Untold(d, v),
           NEW i \in Instance, Settled(i), Reached(i), Contagious(i),
           NEW p \in Correct, Delivered(p, i), NEW q \in Correct
    PROVE  Delivered(q, i)
<1> DEFINE v == deliveredMessages[p][i]
           S == Readied(i, v)
<1>1. Has(p, i) /\ v \in Value
  BY DEF Settled, Has, Held, Inv, TypeOK, Delivered
<1>2. \A r \in Correct : Has(r, i)
  BY <1>1, AllReached DEF Held
<1>3. \A r \in Correct :
         LET ms == messagesLog[r][i]
         IN  /\ Weight(ms.echoSample, Echoers(i, v)) <= ms.echoMessagesStat[v]
             /\ Weight(ms.readySample, S) <= ms.readySampleStat[v]
             /\ Weight(ms.deliverySample, S) <= ms.deliverySampleStat[v]
  BY <1>1, <1>2, AllHeard DEF Held
<1>4. \A r \in Correct :
         LET ms == messagesLog[r][i]
         IN  /\ ms.echoSample \in Sample /\ ms.readySample \in Sample
             /\ ms.deliverySample \in Sample
             /\ ms.echoMessagesStat[v] \in Nat /\ ms.readySampleStat[v] \in Nat
             /\ ms.deliverySampleStat[v] \in Nat
             /\ Acted(ms, Delivered(r, i))
  BY <1>1, <1>2, HasState, StateFields DEF Held, Inv, NothingMissed, ActedOn
<1>5. /\ Echoers(i, v) \in SUBSET Proc /\ S \in SUBSET Correct /\ S \in SUBSET Proc
      /\ \A r \in Correct : r \in S <=> v \in messagesLog[r][i].sentReadyMessages
  BY <1>2 DEF Echoers, Readied, Correct, CleanedUp
<1>6. \A s \in Sample, R \in SUBSET Proc : Weight(s, R) \in Nat
  BY DrawsFinite
<1>7. DeliveryThreshold <= 2 * Weight(messagesLog[p][i].deliverySample, S)
  <2>1. messagesLog[p][i].deliverySampleStat[v]
           <= 2 * Weight(messagesLog[p][i].deliverySample, S)
    <3>1. Untold(messagesLog[p][i].deliverySample, v)
      BY <1>1 DEF Held, Drawn
    <3>2. ReadyCountedTwiceAtMost
      BY BudgetMeaning DEF Held, NothingMissed
    <3>3. QED
      BY <1>1, <3>1, <3>2 DEF ReadyCountedTwiceAtMost
  <2>2. DeliveryThreshold <= messagesLog[p][i].deliverySampleStat[v]
    BY <1>1 DEF Held, DeliveredCounted
  <2>3. QED
    BY <1>4, <1>5, <1>6, <2>1, <2>2, ThresholdAssumption
<1>8. ASSUME NEW r \in Correct, r \in Echoers(i, v),
             EchoThreshold <= Weight(messagesLog[r][i].echoSample, Echoers(i, v))
      PROVE  r \in S
  <2> DEFINE ms == messagesLog[r][i]
  <2>1. ms.echoMessage = v /\ v # None
    BY <1>1, <1>8, ProcAssumption DEF Echoers
  <2>2. EchoThreshold <= ms.echoMessagesStat[v]
    BY <1>3, <1>4, <1>5, <1>6, <1>8, ThresholdAssumption
  <2>3. ms.sentReadyFromSieve
    BY <1>4, <2>1, <2>2, ThresholdAssumption DEF Acted, PassesSieve
  <2>4. QED
    BY <1>4, <1>5, <2>1, <2>3 DEF Acted
<1>9. ASSUME NEW r \in Correct, ReadyThreshold <= Weight(messagesLog[r][i].readySample, S)
      PROVE  r \in S
  <2>1. ReadyThreshold \in 1 .. messagesLog[r][i].readySampleStat[v]
    BY <1>3, <1>4, <1>5, <1>6, <1>9, ThresholdAssumption
  <2>2. QED
    BY <1>1, <1>4, <1>5, <2>1 DEF Acted
<1> HIDE DEF v, S
<1>10. DeliveryThreshold <= Weight(messagesLog[q][i].deliverySample, S)
  BY <1>1, <1>2, <1>5, <1>7, <1>8, <1>9 DEF Contagious
<1>11. DeliveryThreshold \in 1 .. messagesLog[q][i].deliverySampleStat[v]
  BY <1>3, <1>4, <1>5, <1>6, <1>10, ThresholdAssumption
<1>12. QED
  BY <1>1, <1>4, <1>11 DEF Acted

\* What one correct process has delivered all have when everything sent is
\* handled and nobody has cleaned up, wherever the samples that were drawn leave
\* nobody out and make READYs spread; no faulty process that was drawn says READY.
THEOREM TotalityWhereFavourable ==
    ASSUME ReadyThreshold > 0, DeliveryThreshold > 0,
           \A d \in DeliverySamples, v \in Value : Untold(d, v)
    PROVE  Spec /\ []BroadcastFirst /\ []Favourable => []Totality
<1>1. Init => Held
  BY HeldInit
<1>2. Held /\ BroadcastFirst /\ [Next]_vars => Held'
  BY HeldStep
<1>3. Held /\ Favourable => Totality
  BY SettledTotality DEF Favourable, Totality
<1>4. QED
  BY <1>1, <1>2, <1>3, PTL DEF Spec

\* Samples that always reach everybody reach everybody here.
LEMMA DrawnReached ==
    ASSUME Inv, Drawn, NEW i \in Instance,
           AlwaysReached(GossipSamples, EchoSamples, ReadySamples, DeliverySamples)
    PROVE  Reached(i)
<1> SUFFICES ASSUME NEW S \in SUBSET Correct, S # {},
                    \A p \in S :
                        LET ms == messagesLog[p][i]
                        IN  /\ Has(p, i)
                            /\ Contacts(ms.gossipSample, ms.echoSample, ms.readySample,
                                        ms.deliverySample) \subseteq S
             PROVE  S = Correct
  BY DEF Reached
<1>1. PICK p0 \in S : TRUE
  OBVIOUS
<1> DEFINE home(p) == IF p \in S THEN p ELSE p0
           ms(p)   == messagesLog[home(p)][i]
           kept(p) == CHOOSE g \in GossipSamples : g \subseteq ms(p).gossipSample
           g == [p \in Correct |-> kept(p)]
           e == [p \in Correct |-> ms(p).echoSample]
           r == [p \in Correct |-> ms(p).readySample]
           d == [p \in Correct |-> ms(p).deliverySample]
<1>2. ASSUME NEW p \in Correct
      PROVE  /\ ms(p).echoSample \in EchoSamples /\ ms(p).readySample \in ReadySamples
             /\ ms(p).deliverySample \in DeliverySamples
             /\ kept(p) \in GossipSamples /\ kept(p) \subseteq ms(p).gossipSample
  <2>1. home(p) \in S
    BY <1>1
  <2>2. Has(home(p), i) /\ home(p) \in Correct
    BY <2>1
  <2>3. QED
    BY <2>2 DEF Drawn
<1>3. /\ g \in [Correct -> GossipSamples] /\ e \in [Correct -> EchoSamples]
      /\ r \in [Correct -> ReadySamples] /\ d \in [Correct -> DeliverySamples]
  BY <1>2
<1>4. ASSUME NEW p \in S
      PROVE  Contacts(g[p], e[p], r[p], d[p]) \subseteq S
  <2>1. /\ ms(p) = messagesLog[p][i] /\ p \in Correct
        /\ g[p] \subseteq ms(p).gossipSample
        /\ e[p] = ms(p).echoSample /\ r[p] = ms(p).readySample /\ d[p] = ms(p).deliverySample
    BY <1>2
  <2>2. Contacts(ms(p).gossipSample, ms(p).echoSample, ms(p).readySample, ms(p).deliverySample)
           \subseteq S
    BY <2>1
  <2>3. QED
    BY <2>1, <2>2 DEF Contacts
<1> HIDE DEF g, e, r, d
<1>5. QED
  BY <1>3, <1>4 DEF AlwaysReached

\* READYs that always spread spread here, and the ECHOs can only help them.
LEMMA DrawnContagious ==
    ASSUME Inv, Drawn, NEW i \in Instance,
           AlwaysContagious(ReadySamples, DeliverySamples, ReadyThreshold, DeliveryThreshold)
    PROVE  Contagious(i)
<1> SUFFICES ASSUME NEW v \in Value, NEW S \in SUBSET Correct,
                    \A p \in Correct : Has(p, i),
                    \E p \in Correct :
                        DeliveryThreshold <= 2 * Weight(messagesLog[p][i].deliverySample, S),
                    \A p \in Correct :
                        ReadyThreshold <= Weight(messagesLog[p][i].readySample, S) => p \in S
             PROVE  \A p \in Correct :
                        DeliveryThreshold <= Weight(messagesLog[p][i].deliverySample, S)
  BY DEF Contagious
<1> DEFINE r == [p \in Correct |-> messagesLog[p][i].readySample]
           d == [p \in Correct |-> messagesLog[p][i].deliverySample]
<1>1. r \in [Correct -> ReadySamples] /\ d \in [Correct -> DeliverySamples]
  BY DEF Drawn
<1>2. \A p \in Correct : /\ r[p] = messagesLog[p][i].readySample
                         /\ d[p] = messagesLog[p][i].deliverySample
  OBVIOUS
<1> HIDE DEF r, d
<1>3. \A p \in Correct : DeliveryThreshold <= Weight(d[p], S)
  <2>1. \E p \in Correct : DeliveryThreshold <= 2 * Weight(d[p], S)
    BY <1>2
  <2>2. \A p \in Correct : ReadyThreshold <= Weight(r[p], S) => p \in S
    BY <1>2
  <2>3. QED
    BY <1>1, <2>1, <2>2 DEF AlwaysContagious
<1>4. QED
  BY <1>2, <1>3

\* Totality from the parameters alone: samples and thresholds with which nobody
\* is ever left out and READYs always spread.
THEOREM TotalityOfSamples ==
    ASSUME ReadyThreshold > 0, DeliveryThreshold > 0,
           \A d \in DeliverySamples, v \in Value : Untold(d, v),
           AlwaysReached(GossipSamples, EchoSamples, ReadySamples, DeliverySamples),
           AlwaysContagious(ReadySamples, DeliverySamples, ReadyThreshold, DeliveryThreshold)
    PROVE  Spec /\ []BroadcastFirst => []Totality
<1>1. Init => Held
  BY HeldInit
<1>2. Held /\ BroadcastFirst /\ [Next]_vars => Held'
  BY HeldStep
<1>3. Held => Favourable
  BY DrawnReached, DrawnContagious DEF Held, Favourable
<1>4. Held /\ Favourable => Totality
  BY SettledTotality DEF Favourable, Totality
<1>5. QED
  BY <1>1, <1>2, <1>3, <1>4, PTL DEF Spec

\* With silent faulty processes, nothing is left to ask of the behaviour.
THEOREM TotalityAmongSilent ==
    ASSUME FaultyMessages = {}, ReadyThreshold > 0, DeliveryThreshold > 0,
           AlwaysReached(GossipSamples, EchoSamples, ReadySamples, DeliverySamples),
           AlwaysContagious(ReadySamples, DeliverySamples, ReadyThreshold, DeliveryThreshold)
    PROVE  Spec => []Totality
<1>1. \A d \in DeliverySamples, v \in Value : Untold(d, v)
  BY DEF Untold
<1>2. Spec => []BroadcastFirst
  BY AuthorIsFirst
<1>3. Spec /\ []BroadcastFirst => []Totality
  BY <1>1, TotalityOfSamples
<1>4. QED
  BY <1>2, <1>3
=============================================================================
