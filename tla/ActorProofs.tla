---------------------------- MODULE ActorProofs ----------------------------
(***************************************************************************)
(* The receive loop processes a message at most once, for any network, any *)
(* channel sizes and any number of stamps.                                 *)
(***************************************************************************)
EXTENDS Actor, SequenceTheorems, TLAPS

LEMMA StampType ==
    ASSUME NEW m \in Message
    PROVE  /\ Stamp(m) \in 0 .. StampModulus - 1
           /\ m.sender \in Actors /\ m.to \in Actors
BY ActorAssumption DEF Stamp, Message

\* The queue operations on a channel that is not empty, or takes one more.
LEMMA QueueTail ==
    ASSUME NEW s \in Seq(Message), s # <<>>
    PROVE  /\ Head(s) \in Message /\ Tail(s) \in Seq(Message)
           /\ Len(Tail(s)) <= Len(s)
           /\ \A k \in DOMAIN Tail(s) : k + 1 \in DOMAIN s /\ Tail(s)[k] = s[k + 1]
           /\ 1 \in DOMAIN s /\ Head(s) = s[1]
BY HeadTailProperties

LEMMA QueueAppend ==
    ASSUME NEW s \in Seq(Message), NEW m \in Message
    PROVE  /\ Append(s, m) \in Seq(Message)
           /\ Len(Append(s, m)) = Len(s) + 1
           /\ \A k \in DOMAIN Append(s, m) :
                Append(s, m)[k] = IF k \in DOMAIN s THEN s[k] ELSE m
           /\ DOMAIN Append(s, m) = DOMAIN s \cup {Len(s) + 1}
           /\ Len(s) + 1 \notin DOMAIN s
BY AppendProperties

LEMMA InvInit == Init => ActorInv
<1> SUFFICES ASSUME Init
             PROVE  ActorInv
  OBVIOUS
<1>1. /\ \A a \in Actors : /\ writeChannel[a] = <<>> /\ readChannel[a] = <<>>
                          /\ processed[a] = <<>>
      /\ <<>> \in Seq(Message) /\ Len(<<>>) = 0 /\ DOMAIN <<>> = {}
  BY DEF Init
<1>2. /\ writeChannel \in [Actors -> Seq(Message)]
      /\ readChannel \in [Actors -> Seq(Message)]
      /\ processed \in [Actors -> Seq(Message)]
  BY <1>1 DEF Init
<1>3. TypeOK
  BY <1>1, <1>2, ActorAssumption DEF Init, TypeOK
<1>4. HandlerWaits
  BY DEF Init, HandlerWaits, Goroutines
<1>5. Addressed /\ Remembered /\ AtMostOnce
  BY <1>1 DEF Addressed, Remembered, AtMostOnce
<1>6. QED
  BY <1>3, <1>4, <1>5 DEF ActorInv

\* Replacing what one goroutine of an actor has made.
LEMMA MadeUpdate ==
    ASSUME made \in [Actors -> [Goroutines -> Message \cup {NoMessage}]],
           NEW a \in Actors, NEW g \in Goroutines, NEW x \in Message \cup {NoMessage},
           made' = [made EXCEPT ![a][g] = x]
    PROVE  /\ made' \in [Actors -> [Goroutines -> Message \cup {NoMessage}]]
           /\ made'[a][g] = x
           /\ \A b \in Actors, h \in Goroutines :
                 <<b, h>> # <<a, g>> => made'[b][h] = made[b][h]
<1> DEFINE row == [made[a] EXCEPT ![g] = x]
           Row == [Goroutines -> Message \cup {NoMessage}]
<1>1. made' = [made EXCEPT ![a] = row]
  BY Zenon
<1>2. row \in Row /\ row[g] = x /\ \A h \in Goroutines : h # g => row[h] = made[a][h]
  OBVIOUS
<1> HIDE DEF row, Row
<1>3. made' \in [Actors -> Row] /\ made'[a] = row
      /\ \A b \in Actors : b # a => made'[b] = made[b]
  BY <1>1, <1>2 DEF Row
<1>4. QED
  BY <1>2, <1>3 DEF Row

LEMMA InvMake ==
    ASSUME ActorInv, NEW a \in Actors, NEW g \in Goroutines, MakeNewMessage(a, g)
    PROVE  ActorInv'
<1>1. PICK to \in Actors, size \in Sizes :
        made' = [made EXCEPT ![a][g] =
                   [sender |-> a, number |-> messageCounter[a], to |-> to, size |-> size]]
  BY Zenon DEF MakeNewMessage
<1> DEFINE m == [sender |-> a, number |-> messageCounter[a], to |-> to, size |-> size]
<1>2. /\ made \in [Actors -> [Goroutines -> Message \cup {NoMessage}]]
      /\ messageCounter \in [Actors -> 0 .. MaxMessages]
      /\ replies \in [Actors -> 0 .. MaxReplies]
      /\ HandlerWaits
  BY DEF ActorInv, TypeOK
<1>3. /\ messageCounter' = [messageCounter EXCEPT ![a] = @ + 1]
      /\ g = "receiveMessages" => replies[a] > 0
      /\ WithinBound(a, g)
      /\ UNCHANGED <<replies, writeChannel, network, readChannel, receivedMessages,
                     processed>>
  BY Zenon DEF MakeNewMessage
<1>4. messageCounter[a] \in 0 .. MaxMessages - 1
  BY <1>2, <1>3, ActorAssumption DEF WithinBound
<1>5. m \in Message
  BY <1>4 DEF Message
<1>6. messageCounter' \in [Actors -> 0 .. MaxMessages]
  BY <1>2, <1>3, <1>4, ActorAssumption
<1> HIDE DEF m
<1>7. /\ made' \in [Actors -> [Goroutines -> Message \cup {NoMessage}]]
      /\ \A b \in Actors, h \in Goroutines :
            <<b, h>> # <<a, g>> => made'[b][h] = made[b][h]
  BY <1>1, <1>2, <1>5, MadeUpdate DEF m
<1>8. HandlerWaits'
  BY <1>2, <1>3, <1>7 DEF HandlerWaits, Goroutines
<1>9. QED
  BY <1>3, <1>6, <1>7, <1>8 DEF ActorInv, TypeOK, Addressed, Remembered, AtMostOnce

LEMMA InvSend ==
    ASSUME ActorInv, NEW a \in Actors, NEW g \in Goroutines, Send(a, g)
    PROVE  ActorInv'
<1>1. /\ made \in [Actors -> [Goroutines -> Message \cup {NoMessage}]]
      /\ writeChannel \in [Actors -> Seq(Message)]
      /\ replies \in [Actors -> 0 .. MaxReplies]
      /\ HandlerWaits
  BY DEF ActorInv, TypeOK
<1>2. made[a][g] \in Message /\ Len(writeChannel[a]) < ChannelSize
  BY <1>1 DEF Send, HasRoom
<1>3. made' = [made EXCEPT ![a][g] = NoMessage]
  BY Zenon DEF Send
<1>4. /\ made' \in [Actors -> [Goroutines -> Message \cup {NoMessage}]]
      /\ made'[a][g] = NoMessage
      /\ \A b \in Actors, h \in Goroutines :
            <<b, h>> # <<a, g>> => made'[b][h] = made[b][h]
  BY <1>1, <1>3, MadeUpdate
<1>5. /\ replies' \in [Actors -> 0 .. MaxReplies]
      /\ g # "receiveMessages" => replies' = replies
      /\ \A b \in Actors : b # a => replies'[b] = replies[b]
  <2>1. CASE g = "receiveMessages"
    <3>1. replies[a] > 0 /\ replies' = [replies EXCEPT ![a] = @ - 1]
      BY <1>1, <2>1 DEF Send, HandlerWaits
    <3>2. QED
      BY <1>1, <2>1, <3>1, ActorAssumption
  <2>2. CASE g # "receiveMessages"
    BY <1>1, <2>2 DEF Send
  <2>3. QED
    BY <2>1, <2>2
<1>6. HandlerWaits'
  BY <1>1, <1>4, <1>5 DEF HandlerWaits, Goroutines
<1>7. /\ writeChannel' \in [Actors -> Seq(Message)]
      /\ \A b \in Actors : Len(writeChannel'[b]) <= ChannelSize
  BY <1>1, <1>2, QueueAppend, ActorAssumption DEF Send, ActorInv, TypeOK
<1>8. UNCHANGED <<messageCounter, network, readChannel, receivedMessages, processed>>
  BY DEF Send
<1>9. QED
  BY <1>4, <1>5, <1>6, <1>7, <1>8 DEF ActorInv, TypeOK, Addressed, Remembered, AtMostOnce

LEMMA InvNetwork ==
    ASSUME ActorInv,
           \/ \E a \in Actors : SendMessages(a)
           \/ \E m \in network : Lose(m)
    PROVE  ActorInv'
<1>1. ASSUME NEW a \in Actors, SendMessages(a)
      PROVE  ActorInv'
  <2>1. writeChannel[a] \in Seq(Message) /\ writeChannel[a] # <<>>
    BY <1>1 DEF ActorInv, TypeOK, SendMessages
  <2>2. /\ writeChannel' \in [Actors -> Seq(Message)]
        /\ \A b \in Actors : Len(writeChannel'[b]) <= ChannelSize
        /\ network' \subseteq Message
    BY <1>1, <2>1, QueueTail, ActorAssumption DEF SendMessages, ActorInv, TypeOK
  <2>3. QED
    BY <1>1, <2>2
    DEF SendMessages, ActorInv, TypeOK, HandlerWaits, Addressed, Remembered, AtMostOnce
<1>2. ASSUME NEW m \in network, Lose(m)
      PROVE  ActorInv'
  BY <1>2 DEF Lose, ActorInv, TypeOK, HandlerWaits, Addressed, Remembered, AtMostOnce
<1>3. QED
  BY <1>1, <1>2

LEMMA InvListen ==
    ASSUME ActorInv, NEW a \in Actors, ListenForMessages(a)
    PROVE  ActorInv'
<1>1. PICK m \in network :
        /\ m.to = a
        /\ readChannel' = [readChannel EXCEPT ![a] = Append(@, m)]
        /\ network' \subseteq network
  BY DEF ListenForMessages
<1>2. m \in Message /\ readChannel \in [Actors -> Seq(Message)] /\ Addressed
  BY DEF ActorInv, TypeOK
<1>3. Len(readChannel[a]) < ChannelSize
  BY DEF ListenForMessages, HasRoom
<1>4. /\ readChannel' \in [Actors -> Seq(Message)]
      /\ \A b \in Actors : Len(readChannel'[b]) <= ChannelSize
  BY <1>1, <1>2, <1>3, QueueAppend, ActorAssumption DEF ActorInv, TypeOK
<1>5. Addressed'
  BY <1>1, <1>2, QueueAppend DEF Addressed
<1>6. UNCHANGED <<messageCounter, made, replies, writeChannel, receivedMessages, processed>>
  BY DEF ListenForMessages
<1>7. QED
  BY <1>1, <1>4, <1>5, <1>6 DEF ActorInv, TypeOK, HandlerWaits, Remembered, AtMostOnce

\* Taking the head off the read channel keeps the channels in order.
LEMMA PopReadChannel ==
    ASSUME ActorInv, NEW a \in Actors, readChannel[a] # <<>>,
           readChannel' = [readChannel EXCEPT ![a] = Tail(@)]
    PROVE  /\ Head(readChannel[a]) \in Message /\ Head(readChannel[a]).to = a
           /\ readChannel' \in [Actors -> Seq(Message)]
           /\ \A b \in Actors : Len(readChannel'[b]) <= ChannelSize
           /\ Addressed'
<1>1. readChannel \in [Actors -> Seq(Message)] /\ Addressed
  BY DEF ActorInv, TypeOK
<1>2. Head(readChannel[a]) \in Message /\ Head(readChannel[a]).to = a
  BY <1>1, QueueTail DEF Addressed
<1>3. /\ readChannel' \in [Actors -> Seq(Message)]
      /\ \A b \in Actors : Len(readChannel'[b]) <= ChannelSize
  BY <1>1, QueueTail, ActorAssumption DEF ActorInv, TypeOK
<1>4. Addressed'
  BY <1>1, QueueTail DEF Addressed
<1>5. QED
  BY <1>2, <1>3, <1>4

LEMMA InvProcess ==
    ASSUME ActorInv, NEW a \in Actors, Process(a)
    PROVE  ActorInv'
<1> DEFINE m == Head(readChannel[a])
           old == processed[a]
<1>1. /\ readChannel[a] # <<>>
      /\ readChannel' = [readChannel EXCEPT ![a] = Tail(@)]
      /\ Idle(a) /\ Acceptable(a, m)
      /\ receivedMessages' = [receivedMessages EXCEPT ![a] = @ \cup {<<m.sender, Stamp(m)>>}]
      /\ processed' = [processed EXCEPT ![a] = Append(@, m)]
      /\ UNCHANGED <<messageCounter, made, writeChannel, network>>
  BY DEF Process
<1>2. /\ m \in Message /\ m.to = a
      /\ readChannel' \in [Actors -> Seq(Message)]
      /\ \A b \in Actors : Len(readChannel'[b]) <= ChannelSize
      /\ Addressed'
  BY <1>1, PopReadChannel
<1>3. replies' \in [Actors -> 0 .. MaxReplies] /\ \A b \in Actors \ {a} : replies'[b] = replies[b]
  BY ActorAssumption DEF Process, ActorInv, TypeOK
<1> HIDE DEF m
<1>4. /\ processed \in [Actors -> Seq(Message)] /\ old \in Seq(Message)
      /\ receivedMessages \in [Actors -> SUBSET (Actors \X (0 .. StampModulus - 1))]
      /\ Remembered /\ AtMostOnce /\ HandlerWaits
  BY DEF ActorInv, TypeOK
<1>5. receivedMessages' \in [Actors -> SUBSET (Actors \X (0 .. StampModulus - 1))]
  BY <1>1, <1>2, <1>4, StampType
<1>6. processed' \in [Actors -> Seq(Message)]
  BY <1>1, <1>2, <1>4, QueueAppend
<1>7. /\ \A k \in DOMAIN processed'[a] :
            processed'[a][k] = IF k \in DOMAIN old THEN old[k] ELSE m
      /\ DOMAIN processed'[a] = DOMAIN old \cup {Len(old) + 1}
      /\ Len(old) + 1 \notin DOMAIN old
      /\ \A b \in Actors \ {a} : processed'[b] = processed[b]
  BY <1>1, <1>2, <1>4, QueueAppend
<1>8. \A k \in DOMAIN old : old[k] # m
  BY <1>1, <1>4 DEF Remembered, Acceptable
<1>9. AtMostOnce'
  <2>1. ASSUME NEW k \in DOMAIN processed'[a]
        PROVE  processed'[a][k].to = a
    BY <1>2, <1>4, <1>7, <2>1 DEF AtMostOnce
  <2>2. ASSUME NEW k \in DOMAIN processed'[a], NEW l \in DOMAIN processed'[a], k # l
        PROVE  processed'[a][k] # processed'[a][l]
    BY <1>4, <1>7, <1>8, <2>2 DEF AtMostOnce
  <2>3. QED
    BY <1>4, <1>7, <2>1, <2>2 DEF AtMostOnce
<1>10. Remembered'
  BY <1>1, <1>4, <1>7 DEF Remembered
<1>11. HandlerWaits'
  <2>1. made[a]["receiveMessages"] = NoMessage
    BY <1>1, <1>4 DEF HandlerWaits, Idle
  <2>2. QED
    BY <1>1, <1>3, <1>4, <2>1 DEF HandlerWaits
<1>12. QED
  BY <1>1, <1>2, <1>3, <1>5, <1>6, <1>9, <1>10, <1>11 DEF ActorInv, TypeOK

LEMMA InvDrop ==
    ASSUME ActorInv, NEW a \in Actors, Drop(a)
    PROVE  ActorInv'
<1>1. /\ readChannel[a] # <<>>
      /\ readChannel' = [readChannel EXCEPT ![a] = Tail(@)]
      /\ UNCHANGED <<messageCounter, made, replies, writeChannel, network,
                     receivedMessages, processed>>
  BY DEF Drop
<1>2. /\ readChannel' \in [Actors -> Seq(Message)]
      /\ \A b \in Actors : Len(readChannel'[b]) <= ChannelSize
      /\ Addressed'
  BY <1>1, PopReadChannel
<1>3. QED
  BY <1>1, <1>2 DEF ActorInv, TypeOK, HandlerWaits, Remembered, AtMostOnce

LEMMA InvNext == ActorInv /\ [Next]_vars => ActorInv'
<1> SUFFICES ASSUME ActorInv, [Next]_vars
             PROVE  ActorInv'
  OBVIOUS
<1>1. CASE Next
  BY <1>1, InvMake, InvSend, InvNetwork, InvListen, InvProcess, InvDrop DEF Next
<1>2. CASE UNCHANGED vars
  BY <1>2 DEF vars, ActorInv, TypeOK, HandlerWaits, Addressed, Remembered, AtMostOnce
<1>3. QED
  BY <1>1, <1>2

\* Every step of the goroutines and of the network preserves the types, the
\* capacities of the channels, and the memory of the stamps processed.
THEOREM ActorInductive == Spec => []ActorInv
BY InvInit, InvNext, PTL DEF Spec

\* Every channel keeps its capacity and every variable its type.
THEOREM ActorTypes == Spec => []TypeOK
<1>1. ActorInv => TypeOK
  BY DEF ActorInv
<1>2. QED
  BY <1>1, ActorInductive, PTL

\* No actor processes a message twice or one that was sent to another actor,
\* whatever the network duplicates, reorders or loses.
THEOREM ProcessedAtMostOnce == Spec => []AtMostOnce
<1>1. ActorInv => AtMostOnce
  BY DEF ActorInv
<1>2. QED
  BY <1>1, ActorInductive, PTL

-----------------------------------------------------------------------------
(* Only duplicates are dropped.  A dropped message and the processed one     *)
(* whose stamp it bears have the same sender and, while stamps do not        *)
(* repeat, the same number; and a number is given to one message.            *)

Queued(queue, m) == \E k \in DOMAIN queue : queue[k] = m

\* m is somewhere in the system or has been processed.
Known(m) ==
    \/ \E b \in Actors, g \in Goroutines : made[b][g] = m
    \/ m \in network
    \/ \E b \in Actors : \/ Queued(writeChannel[b], m) \/ Queued(readChannel[b], m)
                         \/ Queued(processed[b], m)

NumbersTaken == \A m \in Message : Known(m) => m.number < messageCounter[m.sender]
NumbersUnique ==
    \A m, x \in Message :
        Known(m) /\ Known(x) /\ m.sender = x.sender /\ m.number = x.number => m = x
StampsTraced ==
    \A a \in Actors : \A pair \in receivedMessages[a] :
        \E k \in DOMAIN processed[a] :
            pair = <<processed[a][k].sender, Stamp(processed[a][k])>>
StampInv == NumbersTaken /\ NumbersUnique /\ StampsTraced

\* A step that makes no message adds none.
NothingNew == \A m \in Message : Known(m)' => Known(m)

LEMMA TailQueued ==
    ASSUME NEW s \in Seq(Message), s # <<>>, NEW m, Queued(Tail(s), m)
    PROVE  Queued(s, m)
BY QueueTail DEF Queued

LEMMA AppendQueued ==
    ASSUME NEW s \in Seq(Message), NEW x \in Message, NEW m
    PROVE  Queued(Append(s, x), m) => Queued(s, m) \/ m = x
BY QueueAppend DEF Queued

LEMMA HeadQueued ==
    ASSUME NEW s \in Seq(Message), s # <<>>
    PROVE  Queued(s, Head(s))
BY QueueTail DEF Queued

LEMMA NewSend ==
    ASSUME ActorInv, NEW a \in Actors, NEW g \in Goroutines, Send(a, g)
    PROVE  NothingNew
<1>1. /\ made \in [Actors -> [Goroutines -> Message \cup {NoMessage}]]
      /\ writeChannel \in [Actors -> Seq(Message)]
  BY DEF ActorInv, TypeOK
<1>2. /\ made[a][g] # NoMessage
      /\ made' = [made EXCEPT ![a][g] = NoMessage]
      /\ writeChannel' = [writeChannel EXCEPT ![a] = Append(@, made[a][g])]
      /\ UNCHANGED <<network, readChannel, processed>>
  BY Zenon DEF Send
<1>3. made[a][g] \in Message
  BY <1>1, <1>2
<1>4. \A b \in Actors, h \in Goroutines : made'[b][h] \in {NoMessage, made[b][h]}
  BY <1>1, <1>2, MadeUpdate
<1>5. ASSUME NEW m \in Message, NEW b \in Actors, Queued(writeChannel'[b], m)
      PROVE  Known(m)
  <2>1. CASE b = a
    <3>1. Queued(Append(writeChannel[a], made[a][g]), m)
      BY <1>1, <1>2, <1>5, <2>1
    <3>2. Queued(writeChannel[a], m) \/ m = made[a][g]
      BY <1>1, <1>3, <3>1, AppendQueued
    <3>3. QED
      BY <3>2 DEF Known
  <2>2. CASE b # a
    BY <1>1, <1>2, <1>5, <2>2 DEF Known
  <2>3. QED
    BY <2>1, <2>2
<1>6. QED
  BY <1>2, <1>4, <1>5, NoMessageAssumption DEF NothingNew, Known

LEMMA NewNetwork ==
    ASSUME ActorInv,
           \/ \E a \in Actors : SendMessages(a)
           \/ \E m \in network : Lose(m)
    PROVE  NothingNew
<1>1. ASSUME NEW a \in Actors, SendMessages(a)
      PROVE  NothingNew
  <2>1. /\ writeChannel \in [Actors -> Seq(Message)] /\ writeChannel[a] # <<>>
        /\ writeChannel' = [writeChannel EXCEPT ![a] = Tail(@)]
        /\ network' = network \cup {Head(writeChannel[a])}
        /\ UNCHANGED <<made, readChannel, processed>>
    BY <1>1 DEF ActorInv, TypeOK, SendMessages
  <2>2. \A m \in Message, b \in Actors :
            Queued(writeChannel'[b], m) => Queued(writeChannel[b], m)
    BY <2>1, TailQueued
  <2>3. Queued(writeChannel[a], Head(writeChannel[a]))
    BY <2>1, HeadQueued
  <2>4. QED
    BY <2>1, <2>2, <2>3 DEF NothingNew, Known
<1>2. ASSUME NEW m \in network, Lose(m)
      PROVE  NothingNew
  BY <1>2 DEF Lose, NothingNew, Known
<1>3. QED
  BY <1>1, <1>2

LEMMA NewListen ==
    ASSUME ActorInv, NEW a \in Actors, ListenForMessages(a)
    PROVE  NothingNew
<1>1. PICK x \in network :
        /\ readChannel' = [readChannel EXCEPT ![a] = Append(@, x)]
        /\ network' \subseteq network
  BY DEF ListenForMessages
<1>2. /\ readChannel \in [Actors -> Seq(Message)] /\ x \in Message
      /\ UNCHANGED <<made, writeChannel, processed>>
  BY DEF ActorInv, TypeOK, ListenForMessages
<1>3. \A m \in Message, b \in Actors :
          Queued(readChannel'[b], m) => Queued(readChannel[b], m) \/ m = x
  BY <1>1, <1>2, AppendQueued
<1>4. QED
  BY <1>1, <1>2, <1>3 DEF NothingNew, Known

LEMMA NewReceive ==
    ASSUME ActorInv, NEW a \in Actors, Process(a) \/ Drop(a)
    PROVE  NothingNew
<1> DEFINE x == Head(readChannel[a])
<1>1. /\ readChannel \in [Actors -> Seq(Message)] /\ readChannel[a] # <<>>
      /\ processed \in [Actors -> Seq(Message)]
      /\ readChannel' = [readChannel EXCEPT ![a] = Tail(@)]
      /\ UNCHANGED <<made, writeChannel, network>>
      /\ \/ processed' = processed
         \/ processed' = [processed EXCEPT ![a] = Append(@, x)]
  BY DEF ActorInv, TypeOK, Process, Drop
<1>2. x \in Message /\ Queued(readChannel[a], x)
  BY <1>1, QueueTail, HeadQueued
<1> HIDE DEF x
<1>3. \A m \in Message, b \in Actors :
          Queued(readChannel'[b], m) => Queued(readChannel[b], m)
  BY <1>1, TailQueued
<1>4. \A m \in Message, b \in Actors :
          Queued(processed'[b], m) => Queued(processed[b], m) \/ m = x
  <2>1. CASE processed' = processed
    BY <2>1
  <2>2. CASE processed' = [processed EXCEPT ![a] = Append(@, x)]
    <3>1. /\ processed'[a] = Append(processed[a], x) /\ processed[a] \in Seq(Message)
          /\ \A b \in Actors \ {a} : processed'[b] = processed[b]
      BY <1>1, <2>2
    <3>2. QED
      BY <1>2, <3>1, AppendQueued
  <2>3. QED
    BY <1>1, <2>1, <2>2
<1>5. QED
  BY <1>1, <1>2, <1>3, <1>4 DEF NothingNew, Known

\* The one message that is made gets a number nobody has.
LEMMA NewMake ==
    ASSUME ActorInv, StampInv, NEW a \in Actors, NEW g \in Goroutines, MakeNewMessage(a, g)
    PROVE  (NumbersTaken /\ NumbersUnique)'
<1>1. PICK to \in Actors, size \in Sizes :
        made' = [made EXCEPT ![a][g] =
                   [sender |-> a, number |-> messageCounter[a], to |-> to, size |-> size]]
  BY Zenon DEF MakeNewMessage
<1> DEFINE x == [sender |-> a, number |-> messageCounter[a], to |-> to, size |-> size]
<1>2. /\ made \in [Actors -> [Goroutines -> Message \cup {NoMessage}]]
      /\ messageCounter \in [Actors -> 0 .. MaxMessages]
      /\ replies \in [Actors -> 0 .. MaxReplies]
  BY DEF ActorInv, TypeOK
<1>3. /\ messageCounter' = [messageCounter EXCEPT ![a] = @ + 1]
      /\ WithinBound(a, g)
      /\ UNCHANGED <<writeChannel, network, readChannel, processed>>
  BY Zenon DEF MakeNewMessage
<1>4. messageCounter[a] \in 0 .. MaxMessages - 1
  BY <1>2, <1>3, ActorAssumption DEF WithinBound
<1>5. x \in Message /\ x.sender = a /\ x.number = messageCounter[a]
  BY <1>4 DEF Message
<1>6. \A b \in Actors, h \in Goroutines : made'[b][h] \in {x, made[b][h]}
  BY <1>1, <1>2, <1>5, MadeUpdate
<1> HIDE DEF x
<1>7. \A m \in Message : Known(m)' => Known(m) \/ m = x
  BY <1>3, <1>6 DEF Known
<1>8. /\ \A b \in Actors : messageCounter[b] \in Nat /\ messageCounter'[b] >= messageCounter[b]
      /\ messageCounter'[a] \in Nat /\ messageCounter'[a] = messageCounter[a] + 1
      /\ \A b \in Actors : messageCounter'[b] \in Nat
      /\ \A m \in Message : m.sender \in Actors /\ m.number \in Nat
  BY <1>2, <1>3, ActorAssumption DEF Message
<1>9. NumbersTaken'
  <2> SUFFICES ASSUME NEW m \in Message, Known(m)'
               PROVE  m.number < messageCounter'[m.sender]
    BY DEF NumbersTaken
  <2>1. CASE Known(m)
    BY <1>8, <2>1 DEF StampInv, NumbersTaken
  <2>2. CASE m = x
    BY <1>5, <1>8, <2>2
  <2>3. QED
    BY <1>7, <2>1, <2>2
<1>10. \A m \in Message : Known(m) => ~(m.sender = a /\ m.number = messageCounter[a])
  BY <1>8 DEF StampInv, NumbersTaken
<1>11. NumbersUnique'
  BY <1>5, <1>7, <1>10 DEF StampInv, NumbersUnique
<1>12. QED
  BY <1>9, <1>11

LEMMA TracedProcess ==
    ASSUME ActorInv, StampsTraced, NEW a \in Actors, Process(a)
    PROVE  StampsTraced'
<1> DEFINE x == Head(readChannel[a])
           old == processed[a]
<1>1. /\ readChannel[a] # <<>>
      /\ receivedMessages' = [receivedMessages EXCEPT ![a] = @ \cup {<<x.sender, Stamp(x)>>}]
      /\ processed' = [processed EXCEPT ![a] = Append(@, x)]
      /\ processed \in [Actors -> Seq(Message)] /\ readChannel \in [Actors -> Seq(Message)]
      /\ receivedMessages \in [Actors -> SUBSET (Actors \X (0 .. StampModulus - 1))]
  BY DEF Process, ActorInv, TypeOK
<1>2. x \in Message
  BY <1>1, QueueTail
<1> HIDE DEF x
<1>3. /\ DOMAIN processed'[a] = DOMAIN old \cup {Len(old) + 1}
      /\ \A k \in DOMAIN old : processed'[a][k] = old[k]
      /\ processed'[a][Len(old) + 1] = x
  BY <1>1, <1>2, QueueAppend
<1>4. ASSUME NEW pair \in receivedMessages'[a]
      PROVE  \E k \in DOMAIN processed'[a] :
                pair = <<processed'[a][k].sender, Stamp(processed'[a][k])>>
  <2>1. CASE pair \in receivedMessages[a]
    BY <1>3, <2>1 DEF StampsTraced
  <2>2. CASE pair = <<x.sender, Stamp(x)>>
    BY <1>3, <2>2
  <2>3. QED
    BY <1>1, <1>4, <2>1, <2>2
<1>5. \A b \in Actors \ {a} :
          processed'[b] = processed[b] /\ receivedMessages'[b] = receivedMessages[b]
  BY <1>1
<1>6. QED
  BY <1>4, <1>5 DEF StampsTraced

LEMMA StampNext == ActorInv /\ StampInv /\ [Next]_vars => StampInv'
<1> SUFFICES ASSUME ActorInv, StampInv, [Next]_vars
             PROVE  StampInv'
  OBVIOUS
<1>1. ASSUME NothingNew, UNCHANGED messageCounter
      PROVE  (NumbersTaken /\ NumbersUnique)'
  BY <1>1 DEF NothingNew, StampInv, NumbersTaken, NumbersUnique
<1>2. ASSUME UNCHANGED <<receivedMessages, processed>>
      PROVE  StampsTraced'
  BY <1>2 DEF StampInv, StampsTraced
<1>3. CASE \E a \in Actors, g \in Goroutines : MakeNewMessage(a, g)
  <2>1. UNCHANGED <<receivedMessages, processed>>
    BY <1>3 DEF MakeNewMessage
  <2>2. QED
    BY <1>2, <1>3, <2>1, NewMake DEF StampInv
<1>4. CASE \E a \in Actors, g \in Goroutines : Send(a, g)
  <2>1. UNCHANGED <<messageCounter, receivedMessages, processed>>
    BY <1>4 DEF Send
  <2>2. QED
    BY <1>1, <1>2, <1>4, <2>1, NewSend DEF StampInv
<1>5. CASE (\E a \in Actors : SendMessages(a)) \/ (\E m \in network : Lose(m))
  <2>1. UNCHANGED <<messageCounter, receivedMessages, processed>>
    BY <1>5 DEF SendMessages, Lose
  <2>2. QED
    BY <1>1, <1>2, <1>5, <2>1, NewNetwork DEF StampInv
<1>6. CASE \E a \in Actors : ListenForMessages(a)
  <2>1. UNCHANGED <<messageCounter, receivedMessages, processed>>
    BY <1>6 DEF ListenForMessages
  <2>2. QED
    BY <1>1, <1>2, <1>6, <2>1, NewListen DEF StampInv
<1>7. CASE \E a \in Actors : Process(a)
  <2>1. UNCHANGED messageCounter
    BY <1>7 DEF Process
  <2>2. QED
    BY <1>1, <1>7, <2>1, NewReceive, TracedProcess DEF StampInv
<1>8. CASE \E a \in Actors : Drop(a)
  <2>1. UNCHANGED <<messageCounter, receivedMessages, processed>>
    BY <1>8 DEF Drop
  <2>2. QED
    BY <1>1, <1>2, <1>8, <2>1, NewReceive DEF StampInv
<1>9. CASE UNCHANGED vars
  <2>1. NothingNew /\ UNCHANGED <<messageCounter, receivedMessages, processed>>
    BY <1>9 DEF vars, NothingNew, Known
  <2>2. QED
    BY <1>1, <1>2, <2>1 DEF StampInv
<1>10. QED
  BY <1>3, <1>4, <1>5, <1>6, <1>7, <1>8, <1>9 DEF Next

LEMMA StampInit == Init => StampInv
<1> SUFFICES ASSUME Init
             PROVE  StampInv
  OBVIOUS
<1>1. ASSUME NEW m \in Message
      PROVE  ~Known(m)
  BY NoMessageAssumption DEF Init, Known, Queued
<1>2. StampsTraced
  BY DEF Init, StampsTraced
<1>3. QED
  BY <1>1, <1>2 DEF StampInv, NumbersTaken, NumbersUnique

\* Numbers are given once, and every stamp that is remembered was processed.
THEOREM StampInductive == Spec => [](ActorInv /\ StampInv)
<1>1. Init => ActorInv /\ StampInv
  BY InvInit, StampInit
<1>2. ActorInv /\ StampInv /\ [Next]_vars => (ActorInv /\ StampInv)'
  BY InvNext, StampNext
<1>3. QED
  BY <1>1, <1>2, PTL DEF Spec

LEMMA DroppedIsDuplicate ==
    ASSUME MaxMessages <= StampModulus, ActorInv, StampInv, NEW a \in Actors, Drop(a),
           Head(readChannel[a]).size = "fits"
    PROVE  Head(readChannel[a]) \in MessagesIn(processed[a])
<1> DEFINE m == Head(readChannel[a])
<1>1. /\ readChannel[a] \in Seq(Message) /\ readChannel[a] # <<>>
      /\ processed[a] \in Seq(Message)
      /\ <<m.sender, Stamp(m)>> \in receivedMessages[a]
  BY DEF ActorInv, TypeOK, Drop, Acceptable
<1>2. m \in Message /\ Queued(readChannel[a], m)
  BY <1>1, QueueTail, HeadQueued
<1> HIDE DEF m
<1>3. PICK k \in DOMAIN processed[a] :
          <<m.sender, Stamp(m)>> = <<processed[a][k].sender, Stamp(processed[a][k])>>
  BY <1>1 DEF StampInv, StampsTraced
<1> DEFINE x == processed[a][k]
<1>4. x \in Message /\ Queued(processed[a], x)
  BY <1>1, <1>3 DEF Queued
<1>5. x.sender = m.sender /\ Stamp(x) = Stamp(m)
  BY <1>3
<1>6. x \in MessagesIn(processed[a])
  BY <1>3 DEF MessagesIn
<1> HIDE DEF x
<1>7. Stamp(x) = x.number /\ Stamp(m) = m.number
  BY <1>2, <1>4, ActorAssumption DEF Stamp, Message
<1>8. Known(m) /\ Known(x)
  BY <1>2, <1>4 DEF Known
<1>9. x = m
  BY <1>2, <1>4, <1>5, <1>7, <1>8 DEF StampInv, NumbersUnique
<1>10. QED
  BY <1>6, <1>9 DEF m

\* While no actor makes more messages than there are stamps, what the receive
\* loop drops is truncated or the duplicate of a message it has processed.
THEOREM OnlyDuplicatesDropped ==
    ASSUME MaxMessages <= StampModulus
    PROVE  Spec => DropsOnlyDuplicates
<1>1. ActorInv /\ StampInv =>
        [\A a \in Actors :
            Drop(a) /\ Head(readChannel[a]).size = "fits" =>
                Head(readChannel[a]) \in MessagesIn(processed[a])]_vars
  BY DroppedIsDuplicate
<1>2. QED
  BY <1>1, StampInductive, PTL DEF DropsOnlyDuplicates
=============================================================================
