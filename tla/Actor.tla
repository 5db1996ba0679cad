------------------------------- MODULE Actor -------------------------------
(***************************************************************************)
(* How messages travel between two actors: context/context.go stamps a     *)
(* message and puts it in the write channel, one goroutine of              *)
(* simulation/actor/mailbox.go writes it to UDP and another one reads      *)
(* datagrams into the read channel, and the receive loop of                *)
(* simulation/actor/actor.go drops what it has received before and hands   *)
(* the rest to the actor instance, which may send messages in turn.        *)
(* An actor also sends from the goroutine `simulate' of its node.          *)
(***************************************************************************)
EXTENDS Integers, Sequences

CONSTANTS
    Actors,        \* nodes and the main server
    ChannelSize,   \* capacity of a read or write channel (100000)
    StampModulus,  \* number of stamps, 2^32 for the int32 counter
    Sizes,         \* of a datagram: "fits" in the read buffer or is "oversized"
    Lossy,         \* the network may lose a datagram
    Duplicating,   \* the network may deliver a datagram more than once
    MaxMessages,   \* bound: messages made per actor
    MaxReplies,    \* bound: messages a handler sends
    NoMessage

ASSUME ActorAssumption ==
    /\ ChannelSize \in Nat \ {0} /\ StampModulus \in Nat \ {0}
    /\ MaxMessages \in Nat /\ MaxReplies \in Nat
    /\ Lossy \in BOOLEAN /\ Duplicating \in BOOLEAN
    /\ Sizes \subseteq {"fits", "oversized"}

\* The two goroutines of an actor that send.
Goroutines == {"receiveMessages", "simulate"}

\* number tells the messages of a sender apart and is not part of the message;
\* its stamp is what the receiver sees of it.
Message == [sender : Actors, number : 0 .. MaxMessages - 1, to : Actors, size : Sizes]
Stamp(m) == m.number % StampModulus

ASSUME NoMessageAssumption == NoMessage \notin Message

VARIABLES
    messageCounter,    \* per actor: messages made so far
    made,              \* per actor and goroutine: message made, not yet enqueued
    replies,           \* per actor: messages the running handler has yet to send
    writeChannel,      \* per actor: messages for the goroutine sendMessages
    network,           \* datagrams under way
    readChannel,       \* per actor: datagrams for the receive loop
    receivedMessages,  \* per actor: the <<sender, stamp>> pairs received
    processed          \* per actor: the messages handed to ProcessMessage

vars == <<messageCounter, made, replies, writeChannel, network, readChannel,
          receivedMessages, processed>>

Init ==
    /\ messageCounter = [a \in Actors |-> 0]
    /\ made = [a \in Actors |-> [g \in Goroutines |-> NoMessage]]
    /\ replies = [a \in Actors |-> 0]
    /\ writeChannel = [a \in Actors |-> <<>>]
    /\ network = {}
    /\ readChannel = [a \in Actors |-> <<>>]
    /\ receivedMessages = [a \in Actors |-> {}]
    /\ processed = [a \in Actors |-> <<>>]

MutUnboundedChannel(channel) == TRUE
MutOneShort(channel) == Len(channel) < ChannelSize - 1
HasRoom(channel) == Len(channel) < ChannelSize

\* The bound MaxMessages never stops a handler in the middle of its replies.
WithinBound(a, g) ==
    messageCounter[a] + (IF g = "simulate" THEN replies[a] ELSE 0) < MaxMessages

\* MakeNewMessage: takes the next stamp, under the mutex the goroutines share.
MakeNewMessage(a, g) ==
    /\ made[a][g] = NoMessage
    /\ g = "receiveMessages" => replies[a] > 0
    /\ WithinBound(a, g)
    /\ \E to \in Actors, size \in Sizes :
          made' = [made EXCEPT ![a][g] =
                      [sender |-> a, number |-> messageCounter[a], to |-> to, size |-> size]]
    /\ messageCounter' = [messageCounter EXCEPT ![a] = @ + 1]
    /\ UNCHANGED <<replies, writeChannel, network, readChannel,
                   receivedMessages, processed>>

\* Send: blocks while the write channel is full.
Send(a, g) ==
    /\ made[a][g] # NoMessage
    /\ HasRoom(writeChannel[a])
    /\ writeChannel' = [writeChannel EXCEPT ![a] = Append(@, made[a][g])]
    /\ made' = [made EXCEPT ![a][g] = NoMessage]
    /\ replies' = IF g = "receiveMessages"
                    THEN [replies EXCEPT ![a] = @ - 1] ELSE replies
    /\ UNCHANGED <<messageCounter, network, readChannel, receivedMessages, processed>>

\* sendMessages: one message goes out, once.
SendMessages(a) ==
    /\ writeChannel[a] # <<>>
    /\ network' = network \cup {Head(writeChannel[a])}
    /\ writeChannel' = [writeChannel EXCEPT ![a] = Tail(@)]
    /\ UNCHANGED <<messageCounter, made, replies, readChannel, receivedMessages, processed>>

Lose(m) ==
    /\ Lossy
    /\ m \in network
    /\ network' = network \ {m}
    /\ UNCHANGED <<messageCounter, made, replies, writeChannel, readChannel,
                   receivedMessages, processed>>

\* listenForMessages: blocks while the read channel is full.
ListenForMessages(a) ==
    /\ HasRoom(readChannel[a])
    /\ \E m \in network :
          /\ m.to = a
          /\ readChannel' = [readChannel EXCEPT ![a] = Append(@, m)]
          /\ network' \in {network \ {m}} \cup (IF Duplicating THEN {network} ELSE {})
    /\ UNCHANGED <<messageCounter, made, replies, writeChannel, receivedMessages, processed>>

MutProcessDuplicates(a, m) == m.size = "fits"
MutOneStampForAll(a, m) ==
    m.size = "fits" /\ \A b \in Actors : <<b, Stamp(m)>> \notin receivedMessages[a]
\* What receiveMessages does with a datagram: a truncated one cannot be
\* unmarshalled, and a pair received before is not processed again.
Acceptable(a, m) ==
    /\ m.size = "fits"
    /\ <<m.sender, Stamp(m)>> \notin receivedMessages[a]

Idle(a) == replies[a] = 0

Process(a) ==
    /\ Idle(a) /\ readChannel[a] # <<>>
    /\ LET m == Head(readChannel[a])
       IN  /\ Acceptable(a, m)
           /\ receivedMessages' = [receivedMessages EXCEPT ![a] = @ \cup {<<m.sender, Stamp(m)>>}]
           /\ processed' = [processed EXCEPT ![a] = Append(@, m)]
    /\ \E r \in 0 .. MaxReplies :
          /\ r <= MaxMessages - messageCounter[a]
          /\ replies' = [replies EXCEPT ![a] = r]
    /\ readChannel' = [readChannel EXCEPT ![a] = Tail(@)]
    /\ UNCHANGED <<messageCounter, made, writeChannel, network>>

Drop(a) ==
    /\ Idle(a) /\ readChannel[a] # <<>>
    /\ ~Acceptable(a, Head(readChannel[a]))
    /\ readChannel' = [readChannel EXCEPT ![a] = Tail(@)]
    /\ UNCHANGED <<messageCounter, made, replies, writeChannel, network,
                   receivedMessages, processed>>

Next ==
    \/ \E a \in Actors, g \in Goroutines : MakeNewMessage(a, g) \/ Send(a, g)
    \/ \E a \in Actors : \/ SendMessages(a)
                         \/ ListenForMessages(a)
                         \/ Process(a)
                         \/ Drop(a)
    \/ \E m \in network : Lose(m)

Spec == Init /\ [][Next]_vars

\* Every goroutine that can run runs in the end, and the network goes on
\* delivering; whether anything more is sent by `simulate' is open.
Fairness ==
    \A a \in Actors :
        /\ \A g \in Goroutines : WF_vars(Send(a, g))
        /\ WF_vars(MakeNewMessage(a, "receiveMessages"))
        /\ WF_vars(SendMessages(a))
        /\ WF_vars(ListenForMessages(a))
        /\ WF_vars(Process(a) \/ Drop(a))

FairSpec == Spec /\ Fairness

-----------------------------------------------------------------------------
(* Properties *)

MessagesIn(s) == {s[k] : k \in DOMAIN s}

TypeOK ==
    /\ messageCounter \in [Actors -> 0 .. MaxMessages]
    /\ made \in [Actors -> [Goroutines -> Message \cup {NoMessage}]]
    /\ replies \in [Actors -> 0 .. MaxReplies]
    /\ writeChannel \in [Actors -> Seq(Message)]
    /\ network \subseteq Message
    /\ readChannel \in [Actors -> Seq(Message)]
    /\ receivedMessages \in [Actors -> SUBSET (Actors \X (0 .. StampModulus - 1))]
    /\ processed \in [Actors -> Seq(Message)]
    /\ \A a \in Actors : Len(writeChannel[a]) <= ChannelSize /\ Len(readChannel[a]) <= ChannelSize

\* However often the network delivers a datagram, its message is processed at
\* most once, and by nobody but the actor it was sent to.
AtMostOnce ==
    \A a \in Actors :
        \A k, l \in DOMAIN processed[a] :
            /\ processed[a][k].to = a
            /\ k # l => processed[a][k] # processed[a][l]

\* A handler that has made a message still counts it among its replies.
HandlerWaits ==
    \A a \in Actors : made[a]["receiveMessages"] # NoMessage => replies[a] > 0

\* Datagrams arrive where they were sent to.
Addressed == \A a \in Actors : \A k \in DOMAIN readChannel[a] : readChannel[a][k].to = a

\* Whatever was processed is remembered by its sender and stamp.
Remembered ==
    \A a \in Actors : \A k \in DOMAIN processed[a] :
        LET m == processed[a][k]
        IN  <<m.sender, Stamp(m)>> \in receivedMessages[a]

\* The inductive invariant behind AtMostOnce.
ActorInv == TypeOK /\ HandlerWaits /\ Addressed /\ Remembered /\ AtMostOnce

\* The receive loop drops a complete message only as the duplicate of one it
\* has processed, never a different message with an equal stamp.  (It takes
\* that no actor makes more messages than there are stamps.)
DropsOnlyDuplicates ==
    [][\A a \in Actors :
          Drop(a) /\ Head(readChannel[a]).size = "fits" =>
              Head(readChannel[a]) \in MessagesIn(processed[a])]_vars

\* Message number k of a is held by the program: by a goroutine that wants to
\* send it, or in a channel.
Held(a, k) ==
    LET Is(m) == m # NoMessage /\ m.sender = a /\ m.number = k
    IN  \/ \E g \in Goroutines : Is(made[a][g])
        \/ \E b \in Actors : \E m \in MessagesIn(writeChannel[b]) \cup MessagesIn(readChannel[b]) :
               Is(m)

\* The goroutines of the actors never wait for one another in a circle, though
\* the receive loop itself sends and every channel may be full: what the
\* program holds it passes on, and nothing but the network can lose it.
NoGridlock ==
    \A a \in Actors, k \in 0 .. MaxMessages - 1 : Held(a, k) ~> ~Held(a, k)
=============================================================================
