# Formal models of stochastic-checking-simulation

This directory holds TLA+ modules, TLC configurations and TLAPS proofs for the Go program in `src/`: a testbed in
which `n` nodes run one of four Byzantine broadcast protocols over UDP, under the control of a main server that starts
them together. The modules follow the code, handler by handler; where the code does something its documentation does
not say, the model does what the code does and a run shows it.

    tlc -workers 2 -config MCBracha_equivocation.cfg MCBracha      # one run; all are listed below
    tlapm BrachaProofs.tla                                         # check the proofs
    tlapm ActorProofs.tla                                          # likewise the other *Proofs modules
                                                                   # and InductionTheorems

`PROJECT.json` lists components, runs, mutants (small mistakes in a definition that each property must notice), the
source lines behind every definition, findings, hazards and theorems.

## 1. The system

| Component | Source (under `src/`) | State it keeps | Operations |
|---|---|---|---|
| Bracha reliable broadcast | `impl/protocols/bracha/process.go` | per instance (author, sequence number): stage, who voted, counters per value; delivered values; own counter | `Broadcast`; handlers of INITIAL, ECHO, READY; `deliver` |
| Reliable accountability | `impl/protocols/accountability/reliable/` | per instance: two stages (process, witness), four vote sets, own share, witness sets, reveal stage, pending messages; delivery order; committed instances; two history hashes | `Broadcast`; six handlers of the witness broadcast; REVEAL, DONE, FAILED; `deliver`, `startRevealPhase`, clean-up |
| Consistent accountability | `impl/protocols/accountability/consistent/process.go` | per instance: witness set, who echoed, counters per value; history hash | `Broadcast`; handlers of VERIFY and ECHO; `deliver` |
| Scalable broadcast | `impl/protocols/scalable/process.go` | per instance: four samples, two subscription sets, statistics, what was gossiped, echoed, announced | `Broadcast`; handlers of three subscriptions and of GOSSIP, ECHO, READY; `deliver`; the goroutine that deletes the state |
| History hash and witness selection | `impl/hashing/`, `impl/utils/hashing.go` | bins of a multi-ring | insertion, distance, selection of the nearest nodes |
| Actor: transport | `context/context.go`, `simulation/actor/` | stamp counter, write and read channel, stamps seen | `MakeNewMessage`, `Send`; goroutines `sendMessages`, `listenForMessages`, `receiveMessages` |
| Nodes and main server | `simulation/node/node.go`, `simulation/mainserver/server.go` | who has connected; where `simulate` stands; channel of delivery notices | `Start`, `Started`, `Simulate`, `Broadcast` messages, `simulate` in two modes |
| Start-up, parameters, messages, event log, scripts | `simulation/*/main.go`, `impl/parameters`, `impl/messages`, `impl/eventlogger`, `scripts/`, `*.py` | none that runs | flags, generated code, output |

How they interact: a node's receive loop takes a datagram from its read channel, drops it if its sender and stamp have
been seen, and otherwise calls the protocol's handler to the end. Handlers send through the context, which stamps the
message and puts it into the write channel. The goroutine `simulate` never touches the protocol; it sends the node a
`Broadcast` message, and in a stress test waits on the channel into which `deliver` puts a notice for every own
delivery. Only the stamp counter is shared by two goroutines (under a mutex). In the scalable protocol a sleeping
goroutine per delivery shares the states, under a mutex per author.

What is hard here, and hard to test:

* **Concurrency and order.** UDP reorders, loses and duplicates; votes overtake each other, READY comes before ECHO,
  READYs before subscriptions, reveal messages before the delivery. Faulty processes tell different processes different
  things.
* **State that is deleted or replaced.** Every protocol deletes an instance's state after delivery or commit, and late
  messages keep coming. `Broadcast` of reliable accountability and of the scalable protocol replaces a state without
  looking whether there is one.
* **Bounded channels.** The receive loop itself sends and writes notices; everything blocks when full.
* **Off-by-one thresholds.** Quorums of `⌈(n+f+1)/2⌉`, `f+1`, `2f+1`, a witness threshold, checkpoints, sample weights.
* **No failure handling.** Nothing is persisted and nothing restarts; a lost message is never sent again.

What makes each part correct:

* *Broadcast protocols*: agreement, validity, totality, each value delivered once and finally; for the reveal phase also
  that a secret stays hidden until `MixingTime` deliveries later and that all reach one verdict.
* *Transport*: a message is processed at most once, only duplicates are dropped, goroutines do not block each other.
* *Simulation*: nobody broadcasts before everybody listens; one transaction in flight in a stress test; all get through.

The hazards list in `PROJECT.json` goes through these line by line, with the properties that cover each.

## 2. Modules

    ReliableBroadcast            what a broadcast promises (abstract)
       ^              ^ implemented by
    Bracha       ReliableAccountability     Scalable     ConsistentAccountability
       ^ EXTENDS                                                  | EXTENDS
    Simulation                                           WitnessSelection (history hash)

    Actor: the transport below all of them

    BrachaProofs, ReliableAccountabilityProofs, ScalableProofs, ActorProofs extend the module they
    are named after; SimulationProofs extends Simulation and BrachaProofs.
    InductionTheorems: induction over numbers and loops, which the next two build on.
    RevealProofs extends ReliableAccountabilityProofs by the reveal phase and by validity;
    ConsistentAccountabilityProofs extends ConsistentAccountability, WitnessSelection included.

`MC*.tla` give the constants their values for TLC.

**ReliableBroadcast.** Two variables, the pairs that were broadcast and what everybody delivered; `Deliver` happens at
most once per process and instance, in agreement with the others, and for an *authentic* instance only what its author
broadcast. `Authentic` is a parameter because Bracha's INITIAL is echoed whoever sends it: if faulty processes send
INITIALs for the instance of a correct author, the code lets them choose its value.

**Bracha.** One process per element of `Correct`; the variables carry the names of the Go fields. `sent` is the set of
all messages of correct processes and never shrinks, so a message may be handled late, in any order, twice or never; a
vote handled twice is what the maps `receivedEcho`, `receivedReady` must catch. Faulty processes have no state: any
message of a kind in `FaultyMessages` (pairs of a stage and the author of the instance) may come from them at any time.
`ReceiveInitial`, `ReceiveEcho`, `ReceiveReady` each model a whole `case` of `processProtocolMessage` with all it sends;
`ReceiveReady` contains `deliver`. `Accepts` is the condition under which a handler does more than ignore a message.

**Simulation** extends Bracha by the program around it: `Start`, the barrier in the main server, the goroutine
`simulate` in both modes (stress test and counted loop), `Broadcast` messages a node sends itself, and the dispatch of
protocol messages, which a node that has not started cannot receive.

**Actor** is the layer below: a message is made (`MakeNewMessage`, stamped), enqueued (`Send`, blocking), sent
(`SendMessages`), and on the other side read (`ListenForMessages`, blocking) and processed or dropped. Both the receive
loop and the goroutine `simulate` make messages. The network loses, reorders and duplicates. Protocol modules use what
Actor shows: at most once, any order, maybe never.

**ReliableAccountability.** Witness broadcast and reveal phase in one module, since they share the message state and
`deliver` calls into the reveal phase (replay of pending messages, start of the reveal of an older transaction). The
witness sets are functions from the committed secrets to sets of processes, so "the history decides the witnesses"
remains while the hash does not. `stopped` are processes the code ends by `logger.Fatal` or a nil dereference. `Replay`
hands the pending messages of an instance to their handler one by one, as the loop in the code does (`HandleAll`, a
recursive function over the turns of the loop); a `Checkpoint` is the number of the last delivery of an instance, as
`transactionToCheckpoint` records it.

Secrets, shares and ciphertexts are values. `Hash`, `EncodeEntropy`, `Reconstruct`, `Encrypt` and `Decrypt` are constant
functions on them; all that is assumed is that F+1 shares of one secret make it (`dataShares` in the code) and that a
process can decrypt what was encrypted for it. Nothing is assumed of a mixture of shares, which may make another secret
or none, nor that two secrets have different hashes (the code's hash is a sum). `Encrypt` is a function because the
code encrypts with a reader of zeros in the place of random bytes, and compares ciphertexts. So the reveal phase is
decided where the code decides it:

* Every message of the broadcast has a `content`, the XHash and, in the first two stages, the encrypted shares. Votes
  count *values* only (process.go:471, 488, 507, 537); the XHash that a process delivers (`deliveredXHash`) is the one of
  the message that made it deliver. A faulty author can thus have one process deliver its value with one hash and
  another process the same value with another, and they then disagree on DONE and FAILED.
* `Verdict` compares the hash of what the collected shares make with the hash this process has delivered; shares that
  make nothing end it. A share that is not what its sender was given (`WrongShare`, l.605-618) ends a witness that has
  the encrypted shares; where it has not, the share enters the reconstruction, and a correct author's secret may FAIL.
* `OnDone` takes a DONE from any sender whose secret has the delivered hash, as the code does: a witness relays it
  before anybody has mixed the transaction. An author knows its secret, so a faulty one can give it away (`GivenAway`).

What the reveal phase promises is therefore stated with these in it. `SecretHidden`: a correct process says DONE only
when F+1 correct processes have mixed, or after a DONE of a faulty process with that secret. `OneVerdict`: a DONE has a
secret of the hash its sender has delivered; and about a correct author whose hash nobody forges (`Untampered`), nobody
says FAILED or DONE with another secret unless a correct process has been misled (`Misled`) by a message of a faulty one
about this very instance. Without the exceptions neither would hold of the code.

**WitnessSelection** has the multi-rings, the insertion into a history hash and `GetWitnessSet` as operators; the
hashes themselves, library code, are constants. Go's remainder, which takes the sign of the dividend, is written out,
since every bin goes below 0 sooner or later; the loop that adds up the distances is a recursive function.
**ConsistentAccountability** extends it by the protocol: the first message of an instance makes a process ask the
witnesses its history selects; any later one counts as an echo. Since the first message is used up without counting,
messages are a bag here, too. In process.go the histories of other nodes are missing: `GetWitnessSet` is passed the
one hash of node 0 and panics when it looks for the next. `HashedNodes` is the set of nodes it gets a hash for; with
all nodes the protocol behaves as the selection is written for, the way the reliable protocol calls it.

**Scalable.** Samples are drawn from a CONSTANT set; a sample says how often each process was drawn, since the code adds
that weight to its statistics. READYs count every time they come, so here the network is a bag from which a message is
taken when it is handled (once: the filter of the actor); messages still there at the end of a behaviour are late or
lost. `CleanUp` is the goroutine `deliver` starts.

What the module says beside the operations comes in two parts. *Who has heard what* relates the states of two processes
and the messages between them (`Subscribed`, `Announced`, `Counted`, `ActedOn`, `Backed`; together `NothingMissed`);
`Weight` is how many draws of a sample fell on a set of processes. *What totality asks of the samples* names the luck the
protocol needs: that whoever hears of an instance, all do in the end (`Reached`), and that READYs which let one process
deliver let all (`Contagious`). `AlwaysReached` and `AlwaysContagious` are the same for every possible draw, conditions
on the parameters alone; `SomeSamplesSuffice` in `MCScalable` shows parameters that meet them. `BroadcastFirst` says
that nobody heard of an instance before its author broadcast it, which finding 2 is about.

Abstractions common to all: values are model values; logging and message counts that are only logged are left out;
sleeps are left out (a sleeping goroutine may wake at any time).

## 3. Runs

| Run | Instance | What it shows |
|---|---|---|
| `bracha_equivocation` | n=4, f=1, faulty author equivocating in INITIAL and ECHO, 2 values | the counters never exceed the processes behind them (in `QuorumInv`); READYs carry one value; delivered instances stay closed; `QuorumInv`, `ProgressInv` (see proofs) |
| `bracha_all_lies` | n=4, f=1, 1 instance: of a faulty author, with lies of every kind, or of a correct one next to false READYs | if one correct process delivers, all do; what a correct author broadcasts is delivered; who delivers has sent its READY first; every step is one of `ReliableBroadcast` |
| `simulation` | a stress-test node and a node with a counted loop, 2 sequence numbers | barrier, one transaction in flight, everything gets through |
| `actor` | 2 actors, channels of 1, 2 messages each, handlers that reply, loss and duplication | nothing processed twice, only duplicates dropped, no gridlock |
| `reliable_agreement` | 3 witnesses, one faulty and the author, 2 values, it sends NOTIFY, ECHO, READY, VALIDATE at will | an echo quorum behind each READY and VALIDATE, agreement; `WitnessInv` (see proofs), with one echo per process |
| `reliable_reveal` | 2 processes, both witnesses, 2 transactions, mixing time 1 | commit only after delivery and mixing, committed instances closed, no threshold passed over (`ProgressInv`), validity |
| `reliable_verdict` | correct p1 and faulty p3 as authors, one witness, mixing time 1, 2 secrets; p3 sends a hash that its shares do not fit, and shares, a FAILED and a DONE at will | no DONE before the transaction is mixed unless p3 gave the secret away; each DONE fits what its sender delivered, no false verdict on p1 unless p3 misled somebody; `RevealInv` (see proofs); implements `ReliableBroadcast` |
| `reliable_share` | 3 correct processes, 2 transactions, the witness moves | *violation*: a process can lose its share and is ended |
| `scalable_samples` | 2 processes, READY samples of any two draws, clean-up at any time | whatever overtakes what, every subscription and announcement is under way or was taken into account; no READY counts more than twice; totality if the clean-up has taken no state yet; delivered instances stay closed; one notice per own delivery |
| `scalable_rebroadcast` | 2 correct, 1 faulty process that gossips for the author's next instance | *violation*: two correct processes deliver different values |
| `consistent_histories` | 3 nodes, one of them silent, a hash for each, 3 transactions of a stress test, 2 bins of 5 | the same history selects the same witnesses in whatever order it was made, the nearest ones; nodes within one process's own radius are potential witnesses of another whose history differs a little; what is broadcast is delivered |
| `consistent_start` | 2 nodes and the one hash of process.go:117 | *violation*: the first broadcast ends its author |

**Why the bounds are enough.** In Bracha every threshold separates cases at n=4, f=1: three ECHOs, two READYs, three
READYs, so that a quorum with and one without the faulty process exist. Two values are needed to disagree, one
suffices for totality. Instances do not influence one another in Bracha (the proofs are for any number of them), so
one instance is used except where order between transactions matters: in the simulation and the reveal phase. n=4 with
all lies *and* two values has more than two million states under symmetry; the two Bracha runs split it by what the
faulty process may say (`WithinOneInstance` keeps to one instance once it has begun), and the theorems below cover the
rest. In `reliable_agreement` the quorum is three of three, so the faulty process has to send votes of every kind,
READYs of processes included, for a delivery to happen at all; its witnesses are the same after every history, and
that agreement does not depend on that is left to the theorem `WitnessAgreement`. In `reliable_reveal`, mixing time 1
with two transactions is the least in which one delivery triggers the reveal of another. In `reliable_verdict` mixing
time 1 is the least in which having mixed differs from having delivered, so that an off-by-one shows; two secrets with
one share each (`s1` of `x1`, and `x2` whenever a share differs) are enough for a wrong share and for a hash that does
not fit. What the faulty process puts into its messages is bounded by `FaultyContent` (hashes and encrypted shares),
`FaultyData` (shares and secrets) and `FaultyTo` (receivers; here p1, the witness), and a commitment message of its
own waits once for a delivery; after the delivery it may come any number of times. The theorems set no such bounds but
the last. In `actor`, capacity 1 makes every channel full as soon as possible, and `MaxMessages = StampModulus` is the
largest number of messages for which stamps do not repeat (int32 in the code; see hazards). In `scalable_samples` the
threshold 2 with any two draws gives samples in which one process decides and samples in which both must; threshold 1
for the READYs lets amplification come before the sieve. In `consistent_histories` three transactions suffice for two
orders with the same set and for a witness that moves (the hashes in `MCConsistentAccountability` are chosen for
that), and steps from 0 downwards wrap around a ring of 5; the `ACTION_CONSTRAINT` has the author send its next
transaction when it has delivered the last, as a stress test does, and handles first what can change nothing any more.
The silent node p3 moves away from its origin with every transaction, but not at once: after any single transaction
all three nodes are at distance 1, and it is the order in which the selection takes nodes at the same distance (see
section 5) that keeps p3 from being the only own witness there. With it as the witness nothing would be delivered.
Symmetry is used only for processes and values the configuration treats alike, and never with a liveness property.

CHECK_DEADLOCK is FALSE throughout: a bounded number of transactions ends, in the code as in the models.

**Fairness.** `actor` assumes that every goroutine that can run does (the Go scheduler) and that a datagram that is not
lost is read. `simulation` assumes the same of every loop, that all nodes are started, and that no message is lost:
without retransmission nothing can be promised otherwise (`scripts/mininet_run.py` sets a loss of its links, which is
what `Lossy` in Actor stands for). The faulty processes never get fairness. Where liveness of a protocol is a matter
of all messages having been handled it is stated without fairness: `Settled` says that no message of a correct process
would still change anything (in Bracha that none is one its receiver `Accepts`, in ReliableAccountability that none
`Waits`), and `Validity`, `Totality` are invariants
of the form *Settled implies ...*. A behaviour changes the state
finitely often (votes only accumulate), so under weak fairness of the handlers every behaviour gets to a settled state.

**What the violations say** (`findings` in `PROJECT.json` quotes the sources):

1. Reliable accountability: READY_FROM_WITNESS handled before ECHO_FROM_WITNESS moves the stage on, and the echo that
   carries the process's share is then ignored. Later `startRevealPhase` cannot decrypt a nil share and ends the
   process. No faulty process is needed.
2. Scalable: `Broadcast` initialises the state of its instance even if there is one, so a correct author can echo two
   values and correct processes deliver both, although all samples consist of correct processes. The same reset makes it
   forget subscribers.
3. Consistent accountability: `initMessageState` passes one history hash where `GetWitnessSet` reads one per node, so with
   two nodes or more the first broadcast, or the first message, ends the process with an index out of range.

Also seen while modelling, without a run of their own: the comment at context.go:16 announces retransmission until
acknowledgement, but the code of it is commented out, so a lost message stays lost; `recovery_timeout` (README.md:66) is
read and never used; with mixing time 0 a replayed DONE deletes a state `startRevealPhase` then dereferences; DONEs that
come before `MixingTime` deliveries are dropped for good, so a slow process may never commit; `sample` of the reliable
protocol seeds its generator with the index of the process, so all transactions of a process have the same secret
(`SecretHidden` is about when shares are collected, not about what else is known of a secret); the example input.json
asks for more validations than there are own witnesses; `receivedReady` of the scalable protocol is
never consulted, so a process that announces READY by amplification and again from the sieve counts twice in a sample.

## 4. Proofs

`BrachaProofs` is for every finite set of processes, every `F`, at most `F` faulty processes that send anything, and all
values, authors and numbers of transactions. For safety `n > 3f` is not assumed: the quorum of ECHOs is
computed from n and f so that two of them always share a correct process; what a smaller n costs is validity.

* `TypeCorrect`: `Spec => []TypeOK`.
* `Inductive`: `Spec => []QuorumInv`, from which the next five follow.
* `Consistency` (`Agreement`), `OneReady` (`OneReadyValue`), `CountersAreVotes` (`VotesBacked`), `ReadyBeforeDelivery`
  (`DeliveredImpliesOwnReady`), `Finality` (`DeliveredIsFinal`).
* `Refinement`: `Spec => ImplementsReliableBroadcast`, the initial states and every step.
* `Progress`: `Spec => []ProgressInv`, and from it, with `N > 3 * F` as their hypothesis, `AllOrNone` (`Totality`) and
  `BroadcastsAreDelivered` (`Validity`).

Agreement alone is not inductive: a handler looks at its own counters, not at who voted. `QuorumInv` connects them. The
argument: a counter is at most the number of processes that may have voted so (`VotesBacked`: the receive sets and the
counters advance together, once per sender); so a READY sent from ECHOs has a quorum of ECHO votes behind it, and one
sent by amplification has f+1 READYs behind it, one of them of a correct process, which has the quorum already
(`ReadyJustified`, hence the amplification adds nothing new); a delivery has 2f+1 READYs behind it
(`DeliveryJustified`), one at least correct. Two ECHO quorums share more than f processes (lemma `QuorumsIntersect`),
hence a correct one, which echoes one value per instance (`OneEcho`, which needs that the stage records what was sent,
`StageRecordsSent`). So READYs and deliveries agree. For the refinement, `InitialOnce` says that an author uses an
instance once and `EchoAuthentic` that correct processes echo in an authentic instance only what was broadcast.

Totality and validity say what has happened when no message is left to handle, so their invariant looks the other way:
`QuorumInv` says that no counter is too high, `ProgressInv` that none is too low and that no threshold reached was
passed over. A process that has recorded a vote has counted it, in either stage; who has counted a quorum of ECHOs or f+1
READYs for a value has sent its READY; who has counted 2f+1 READYs has delivered; and who has sent an ECHO or READY has
put it in `sent`. In a settled network a counter then reaches at least the number of correct voters. One delivery has
2f+1 READYs behind it, f+1 of them of correct processes: these reach everybody, everybody sends its READY, and the n-f
correct ones are 2f+1 or more. Validity needs the ECHOs of the correct processes alone to be a quorum,
⌈(n+f+1)/2⌉ ≤ n-f, which again is n > 3f. TLC checks `QuorumInv` and `ProgressInv` in `bracha_equivocation`.

`ActorProofs`: `ActorInductive` (`Spec => []ActorInv`), `ActorTypes`, and `ProcessedAtMostOnce` for every number of
actors, channel size, stamp range and network behaviour. The invariant adds that whatever was processed is remembered by
its stamp, that the channels hold only what is addressed to their owner, and that a handler counts the message it is
about to send. `OnlyDuplicatesDropped` needs that no actor makes more messages than there are stamps
(`MaxMessages <= StampModulus`, which the theorem assumes; beyond it the filter drops new messages by design). It rests
on `StampInductive`: every message a goroutine holds, that is queued, under way or remembered was numbered below its
sender's counter, no two messages of an actor have the same number, and each stamp a receiver remembers is that of a
message it has processed.

`ReliableAccountabilityProofs` is about the witness broadcast of reliable accountability with the reveal phase running
in the same states: for all finite sets of processes, at most `F` of them faulty, any witness sets that
`WitnessAssumption` admits (fewer than `WitnessThreshold` faulty own witnesses), any interleaving.

* `WitnessInductive`: `Spec => []WitnessInv`; `EchoesOnce` (`OneEcho`); `ReadyNeedsQuorum` (`QuorumBehindReady`);
  `WitnessAgreement` (`Agreement`).
* If also the faulty processes begin no instance of a correct author (`Judged = Instance`): `CommitsAreFinal`
  (`CommittedIsFinal`), and `Refinement` (`Spec => ImplementsReliableBroadcast`, every step of the protocol and of the
  reveal phase). Without that condition `Broadcast` may replace a state that has already delivered.

READYs spread in two directions here, from `WitnessThreshold` own witnesses to processes and from f+1 processes to
witnesses, so that no single handler has the quorum in its hands. `WitnessInv` says that every vote a state holds
may have been given, and votes of witnesses by own ones (`VotesBacked`); hence each such step has one correct sender
behind it, who had a quorum of ECHO_FROM_PROCESS behind it (`QuorumBehindReady`, `DeliveryBacked`). Two such quorums
share a correct process (lemma `QuorumsIntersect`), which echoes one value: for a faulty author because its state says
that it has echoed and is deleted only with the commit, which closes the instance (`EchoRecorded`); for an authentic
instance, where `Broadcast` may reset the state, because all echoes go back to the one NOTIFY (`NotifiedOnce`,
`EchoSourced`). What a handler does is put into one predicate (`Handles`), each handler is shown to satisfy it once, and
each conjunct of the invariant is shown to survive it. The reveal phase enters by what it may touch: `deliver` and
the commitment handlers keep the votes, say nothing in the broadcast, and drop a state only with the commit.

The handlers of messages look whether an instance has been committed; `Broadcast` and the reveal phase do not. `Closed` is
what makes a commit final all the same: a delivery is on record in the state until the commit, which drops the state, and
without a state nothing is revealed; and the instance `Broadcast` begins has been delivered by nobody, since a delivery
goes back to a quorum of echoes, one of a correct process, and so to the NOTIFY of an earlier `Broadcast`. Hence also no
second delivery, which is what the refinement needs beside agreement.

`RevealProofs` is about the reveal phase itself, under the same assumptions, for all secrets, shares, hashes and
encryptions and whatever faulty processes send: `ReliableTypes` (`TypeOK`), `RevealInductive` (`Spec => []RevealInv`),
`SecretsStayHidden` (`SecretHidden`), `CommitsAreMixed` (`CommitAfterMixing`) and, where faulty processes begin no
instance of a correct author (`Judged = Instance`), `VerdictsAgree` (`OneVerdict`). The three properties are about
what a process does with messages it has kept for later, and with shares it has collected from others; the invariant
follows each back to its origin. A correct process that reveals has delivered the instance and then `MixingTime`
others (`RevealBacked`), so of the 2f+1 processes behind a verdict f+1 are correct ones which had mixed (lemma
`EnoughRevealed`). Every message under way and every message kept has its reasons (`AllJustified`): a DONE goes back
to such a verdict or to the DONE of a faulty process; and in an untampered instance it is truthful unless somebody has
been misled, since every delivery there has the author's hash, every own share is the one the author encrypted
(`ContentGenuine`), and so every share that a correct process reveals is the author's. `DeliveryOrdered` ties the
order of deliveries to the checkpoints, and pending messages exist only before the delivery
(`PendingOnlyBeforeDelivery`), so that `deliver` replays each of them once. The replay is a loop in which every turn
may announce, commit and drop the state the next turn looks at. `LoopKeeps` proves by induction over its turns that a
set of states which each turn preserves is preserved by the whole loop. What a handler of commitment messages does is
a function on the states such a loop goes through; the facts about these are in `ReliableAccountabilityProofs`. For
`VerdictsAgree`, `DoneFits` adds to the invariant that what a process has said by DONE has the hash it has delivered,
and `Closed` of that module that it delivers once, so the hash does not change afterwards: an author that began an
instance anew over a delivery could change it.

Its second half is about the progress of the broadcast below. `VotesHeeded` (`ProgressInv`, for F <= N) says that no
handler passes a threshold over: the stages only grow and READYs skip some, so each handler has to act on what earlier
votes of other kinds left behind, and a delivery or commit may take the state away in the middle of it. `ValidityHolds`
(`Validity`) then looks at a broadcast that has settled without reaching everybody (`Rests`) and takes it back stage by
stage. Whoever lacks a delivery lacks validations (`TooFewValidations`), hence a witness lacks ready processes, these lack
ready witnesses, these lack echoes; and either some READY exists, which has a quorum of echoes behind it, or nobody has
left the first stages and all have echoed (`SomeoneDelivers`). The hypotheses: correct processes draw the same witnesses
for an instance (`Drew`), `WitnessThreshold` own ones of them correct, a quorum of processes is correct (`WellDrawn`), and
the faulty ones are silent. `ValidityOfConstantWitnesses` derives the first from a selection that yields the same set
after every history (`DrewConstant` becomes part of the invariant). None can simply be dropped:

* Where processes draw different witnesses, one of them may deliver by the validations of its own, commit, and from then
  on serve no one else as a witness (`FinallyCommitted` comes first in the handlers).
* Where faulty processes vote to some only, a process that READYs of witnesses move past the echo stage before it has
  echoed never echoes, and the echoes of the others need not be a quorum. With four processes, F = 1, WitnessThreshold 2,
  p1, p2 and the faulty p4 as own and potential witnesses, and p4 sending an ECHO_FROM_PROCESS to p1 and a
  READY_FROM_WITNESS to p3 only, TLC finds such an end: p3 is ready and has not echoed, p2 waits for a third echo.

`ConsistentAccountabilityProofs` has the witness selection and the protocol on top of it, for all numbers of nodes, ring
shapes, sizes, radii and hashes:

* `ConsistentTypes` (`TypeOK`), of which the point is that `set` keeps every bin within its ring: a step down from 0, by
  Go's negative remainder, ends at the top.
* `HistoryInductive` (`HistoryInv`): each bin stands where the number of upward and downward turns in the *set* of
  delivered transactions takes it, modulo the capacity. A value modulo the capacity is unique (`OnRingUnique`), hence
  `OrderDoesNotMatter` (`SameHistorySameWitnesses`).
* `NobodyDelivers`: the code as it is. Where `HashedNodes` is not all of `Proc`, as process.go:117 has it with two nodes
  or more, whoever broadcasts is ended by the selection before it has sent anything, and nobody registers, sends or
  delivers anything.

What follows is about the selection, and the protocol, called with a hash for every node: each of these theorems has
`HashedNodes = Proc` as a hypothesis. The reliable protocol calls the selection so (process.go:226); the consistent one
does not, so for it they say what the code would do with that call corrected.

* `NearestSelected` (`SelectsNearest`), if the own size and radius are at most the potential ones. A sorted order of
  the nodes exists (`SortExists`, induction over their number); the positions at which the loop goes on are a prefix
  of it (`PotPositionsQualify`); and what stands there is nearest (`QualifyingAreNearest`).
* `RadiusMakesUp` (`OwnWithinReach`): one insertion moves one bin by one step and so the
  distance by at most one (`DistanceStep`, induction over the loop that adds up the bins); two histories are joined by
  as many insertions and removals as they differ in (`HashesNear`, through their intersection).
* `KnownInductive`, `OnlyBroadcastDelivered` (these two without the hypothesis): messages, votes and deliveries name what
  was broadcast, one value per instance, so that correct processes agree. Faulty processes are silent in this module.
* `BroadcastsDelivered` (`Validity`), if every selection holds `WitnessThreshold` correct witnesses (`EnoughWitnesses`);
  `WideSelectionsSuffice` derives the latter from parameters: own sets of at least `WitnessThreshold` plus the number of
  faulty processes. As validity is not what the code as it is has, the two are not among the results `PROJECT.json`
  lists. (In the run own sets have one node, which is never the silent one owing to the order of ties, see section 3: there
  the first theorem applies.) The invariant
  `HeardInv` says of every process and instance broadcast that it has delivered, or waits with too few votes while each
  of its correct witnesses is being asked, answers or has voted, or will hear of it: an echo is on its way to it, or a
  witness of the author is still being asked and will echo to all. So the first message, which is used up without
  being counted, is never the one that is missed: the answer to the questions that it makes a process ask is another.

`InductionTheorems` has what these inductions rest on: the library's induction theorems take an operator as a parameter,
but well-foundedness of < is a statement about a relation; from it follow the least number of a set, induction with a
set in the place of the predicate (`SetInduction`), and that a loop over 1..n has a record of its intermediate results
(`ChainExists`, `ChainStays`), which is what the CHOOSE behind a recursive function needs.

`ScalableProofs` holds for any samples, thresholds, faulty processes and any order of messages and clean-ups.

* `TypeCorrect` (`TypeOK`) and `Finality` (`ClosedIsFinal`). What each of the six handlers does is again put into one
  predicate (`Handled`: it writes one state, sends only messages of its own about that instance, and delivers at most
  once), and each handler is shown to satisfy it. The type invariant needs a count: `ownDeliveredTransactions` is the
  number of own instances delivered (`OwnCounted`), so that no instance is notified twice.
* `NobodyMisses` (`NothingMissed`), where authors come first (`[]BroadcastFirst`). A handler answers a subscriber with
  what was sent before and sends what is new to those who have subscribed; that nothing falls between the two is a
  statement about two processes and the network, whichever of the messages overtakes which. Every step, whatever its
  action, is put into one form (`StepOf(T)`: it takes the messages T from the network; `Evolves`, `Told`, `Noted`,
  `Learned`: a state grows, what is new to somebody is sent to them, what was taken is accounted for), and each part of
  `NothingMissed` is shown to survive steps of this form. `Backed` is what makes it inductive: correct processes say
  only what their state shows, or have cleaned up.
* `CountedTwiceAtMost` (`ReadyCountedTwiceAtMost`): the receiver counts every READY it gets, so the bound is in the
  sender, which sends one from the sieve and one by amplification or to a late subscriber. `Spare` is how many a state
  may still send; the copies under way and what is spare leave of two what the receiver has counted (`Left`, `Budget`).
* Totality needs luck with the samples, and where that luck is granted it is a theorem: `TotalityWhereFavourable` for
  behaviours whose draws are favourable (`[]Favourable`), `TotalityOfSamples` for parameters with which all draws are
  (`AlwaysReached`, `AlwaysContagious`), `TotalityAmongSilent` without any condition on the behaviour where faulty
  processes are silent (`AuthorIsFirst`: then `BroadcastFirst` holds). Thresholds above 0, and no faulty process in a
  delivery sample that announces READY, are hypotheses, too. The argument: in a settled network everything announced has
  been counted (`AllHeard`), all have a state (`AllReached`), the READYs behind the one delivery weigh at least half the
  threshold, since each counted twice at most, and nobody has passed a threshold over (`ActedOn`), so the set of those
  who announced READY is closed under what spreads it, and is enough for all. The factor 2 is not slack: with three
  processes, one that announces READY by amplification and again from the sieve lets another deliver that has drawn it
  once and needs 2, with a second process in that sample that has announced nothing.

Agreement of this protocol is probabilistic and no theorem (finding 2 shows how it is lost even with samples of correct
processes only).

`SimulationProofs` builds on `QuorumInv`: `SimTypes`; `AllListenFirst` (`NoEarlyBroadcast`, if no process lies: a
faulty one may talk, and be answered, before the start); and `OneTransactionInFlight` (`OneInFlight`), in spite of
faulty processes, as long as they send no INITIAL in the name of a stress test (`StressTestsAuthentic`; otherwise they
could have its next transaction delivered before it begins). The invariant follows the barrier (`Barrier`: who
simulates has been told so by a server to which all have connected) and then counts: transactions begun, own
deliveries, notices waiting and the `Broadcast` message under way add up, because an own delivery needs an own INITIAL
(`EchoAuthentic`).

Assumptions used: the named ASSUMEs of the modules (finite `Proc`, at most `F` faulty, `None` is no value, bounds and
thresholds are natural numbers) and those stated in the theorems. TLC evaluates the former in every run.

**Only model-checked**: all liveness, and `Validity` of ReliableAccountability beyond the hypotheses of its theorems.
TLAPS does not reason about liveness under fairness or about ENABLED (no property here is stated with it), and its
provers cannot instantiate theorems that take an operator as a parameter (induction schemes, folds); loops that the
proofs are about are therefore recursive functions. The modules with theorems use no RECURSIVE operators.

## 5. Not modelled, and where the models stop

* Start-up, flags, topology: read once, before anything runs, and turned into addresses; their values are the constants
  of the modules. Which node is whose neighbour is decided by index arithmetic without state.
* Messages: generated code, and copies of records. Event log and its analysis: output that nothing reads back. Key
  tools and scripts: run by hand around the program; the loss that `mininet_run.py` sets for its links is `Lossy` in
  Actor.
* ReliableAccountability: Reed-Solomon coding, RSA and the sum that is the hash of a secret are constant functions
  (see section 2); messages no correct process would make, such as a vector of encrypted shares shorter than the
  number of processes, on which the handlers would panic (a share is there, or `None`); a process says FAILED once of
  each kind, though the code can repeat it; a message of a faulty process waits for a delivery once, though it may be
  repeated; the delay between two deliveries.
* The branches that end a process at a message of an unknown type (`default` of `HandleMessage` in each protocol): no
  process of the program makes one, and faulty processes are given the known kinds only.
* Identity of senders: a message names its sender itself and nothing verifies it (`actor.go`). The models assume that
  the name is right, that is, authenticated links; a faulty process speaks in its own name only. (It may name any
  *author*, and does, where `FaultyMessages` lets it.)
* WitnessSelection: the hash functions are constants; `merge`, `copy` and `multiRingFromBytes`, which only tests call;
  nodes at the same distance come in an order that depends on the distances alone, as with `sort.Sort` on the same input.
* ConsistentAccountability: faulty processes are silent. With the code as it is no process survives its first message, so
  what lies could do to it is a question about a program that does not run.
* Scalable: faulty processes do not subscribe (their subscriptions make others send to faulty processes only); samples
  are a fixed set in each run; the gossip sample's distribution.
* Actor: datagrams too long for the buffer are in the module (`Sizes`) and not in the runs; socket errors, which only
  print.

## 6. What could come next

1. **Scalable**: a faulty author that gossips two values against the sieve; how likely favourable samples are.
2. **Composition**: ReliableAccountability under Simulation's notices; Actor as an implementation of the network the
   protocol modules assume.
3. **ConsistentAccountability** with lying processes, once the selection is called with all histories.
4. **Proofs**: `Validity` of ReliableAccountability where witness sets differ by a bounded number of transactions and no
   witness commits before the others have delivered.

Properties are joined into few runs, one per question; new questions will rather share an instance than add one.
