# A verification development for delta-stream

delta-stream keeps copies of one authoritative state up to date by sending
snapshots and deltas as sequenced, hashed packets. This directory models the
parts of it whose correctness depends on order, loss, failure and concurrency,
checks them with TLC and proves the core with TLAPS.

## The system

| part | source (`src/src/`) | state | operations | hard behaviour |
|---|---|---|---|---|
| publisher | `sync.rs` `GenericEncoder`/`Encoder`, `api.rs` | sequence, last state | `encode`, `force_snapshot`, `recovery_snapshot` | fails after taking a sequence, before or after replacing the last state |
| subscriber | `sync.rs` `GenericDecoder`/`Decoder`, `replay.rs`, `migration.rs` | sequence, state, replay window | `apply_packet`, `apply_packet_with_migrations`, `reset` | packets lost, repeated, reordered, too large, of another schema |
| JSON delta | `schema.rs` | none | `between`, `apply` | added, changed and removed fields |
| wire format | `packet.rs` | none | `encode`, `decode_with_config`, `zstd_candidate` | limits, damaged and cut bytes |
| agent states | `state.rs`, `binary.rs` | none | `between`, `apply`, encode and decode | counters of any size, floats, cut payloads |
| recovery history | `recovery_history.rs` | packets, byte count | `record`, `plan` | eviction by two bounds, holes, snapshots amid deltas |
| sessions | `session.rs`, `control.rs` | shared encoder, state and history; per subscriber a decoder and `awaiting_snapshot` | `publish_state`, `control_loop`, `run` | every await is an interleaving point; lost requests and replies; errors that end a loop |
| reorder buffer | `reorder.rs` | decoder, pending map | `apply`, `clear_pending`, `reset` | chains of early packets, overtaken packets |
| CRDT values | `crdt/` | component maps, stamped value | `increment`, `merge`, `assign` | repeated and reordered merges, equal stamps, overflow |
| byte streams | `byte_sync.rs`, `v30_sync.rs` | sequence, last bytes, tuner or advisor | `encode`, `force_snapshot`, `recovery_snapshot`, `apply_packet` | a publisher that restarts at sequence 0; mode and base checks before commit |
| smart deltas | `smart_delta.rs` | `AdaptiveTuner` | five delta families | lengths, overlaps, varints, a threshold that halves and doubles |
| policies | `adaptive.rs`, `fast_selector.rs` | recent winners | `select`, `shortlist`, `observe` | lock-in, ratchets |
| partial repair | `partial_repair.rs`, `recovery_v30.rs` | none | `manifest`, `build`, `apply`, `plan_recovery` | stale base, chunk boundaries |
| simulations | `multi_client.rs`, `torture.rs`, `chaos.rs`, `edge_cases.rs`, `v30_torture.rs` | many clients | tick, deliver, recover, restart | drops, late joins, restarts |
| transports | `transport/`, `ws_broker.rs` | broadcast cursors, sockets, client ids | publish, subscribe | lagging receivers, a task per topic, one connection per client id |
| demo server | `demo_server.rs` | publisher and clients | tick, drop, reset | an error midway |

The publisher turns each state into a packet; a transport carries it to the
subscribers; a subscriber answers `Applied`, `Duplicate`, `NeedSnapshot` or an
error. `NeedSnapshot` is a request for recovery, which the application (or a
session) serves with `recovery_snapshot` or with a replay from the recovery
history. Recovery does not advance the stream, so that it leaves no gap for the
other subscribers.

## Modules

Pure definitions (no variables):

* `Decoder` - packets, the replay window, and what a decoder answers to a
  packet and becomes: `Outcome` tests in the order of `apply_packet`. States,
  hashes, deltas and sizes are parameters; `HashAssumption` says that hashes of
  the states in play do not collide, `PatchAssumption` that a delta turns its
  base into its target up to the signs of zeros: `between` asks `==` what has
  changed, and `0.0 == -0.0`, while the hash of a state sees the difference.
  `Like[s]` are the states that pass for s. `ByteDecoder` is `ByteStateDecoder`,
  which differs: it has no replay window, reads the payload before it looks at the
  base, and takes deltas of five families, of which the encoder chooses. Of a delta
  it checks the hash of the base only, so that the result is right because the
  families are exact (`DeltasAssumption`, proved of `SmartDelta`).
* `ReorderBuffer` - what a `ReorderDecoder` does with one packet: file it, refuse
  it, or apply it and drain the map.
* `RecoveryHistory` - `record` and `plan` over a record of packets and bytes.
* `JsonFieldDelta` - the delta of the generic path: every field arrives but one
  whose value changes in the sign of a zero only. `RoundTripHolds` proves it for all
  objects, which is what `PatchAssumption` says of them.
* `SmartDelta` - the five delta families of byte states, with the gap coding of
  ranges, the greedy prefix and suffix of splices, and the checks of `apply`.
  `PartialRepair` extends it with manifests and chunk-wise repair.
* `AgentDelta` - new texts, signed counter differences and a float compared as
  IEEE 754 says; `AgentCodec` - the payloads of agent states and deltas, field
  by field, and their `Reader`; `Varint` - the numbers in payloads.
* `Wire` - the envelope of a packet, one symbol per header field, and the checks
  of `decode_with_config`; a publisher that encodes packet after packet, and damage
  in one place on the way.
* `AdaptivePolicy` - the choice between raw and compressed snapshots and deltas,
  over the sizes it compares. `StrategyAdvisor` - the profile of a change, the
  shortlist and memory of the advisor, and the tuner's threshold. `ByteEncoders`
  puts them together: which packet each of the two byte encoders sends.
* `Crdt` - counters as functions from replicas to 64-bit components, registers
  as stamped values, and their merges.

Specifications:

* `AuthoritativeStream` - what the library promises: one history of published
  states; a client shows an entry of it and only moves forward, except by reset.
* `StateSync` - one publisher and its subscribers. `net[c]` is the set of all
  packets ever sent towards `c`, and a client may take any of them at any time
  or never: loss, delay, repetition and reordering in one. `FailedUpdate` is an
  update that fails after its sequence was taken. `log` and `burnt` are history
  variables. It implements `AuthoritativeStream`, in which a client may show for a
  published state one that passes for it.
* `Reorder` - extends `StateSync`: the same publisher and network, with a
  `ReorderDecoder` in front of each decoder. It implements `AuthoritativeStream` too:
  a drain that takes several packets is one step forward.
* `ByteStream` - a byte-state publisher that may crash and start again
  (`Restart`: nothing is stored, the sequence is 0 again), over the network of
  `StateSync`, which with `LateDelivery` still holds packets of ended lives. The
  `log` runs through all lives; `start` and `adopted` say where each begins and which
  one a client follows.
* `RecoveryPlanning` - an encoder and a history side by side; the properties
  speak of every plan that could be made in a state, for a client anywhere and,
  with `plan_recovery`, for a receiver of any bytes.
* `Session` - `session.rs`, one action between any two awaits. `StoreState`,
  `EncodeState`/`FailToEncode`, `SendPacket`, `RecordSent`/`FailToSend` are
  `publish_state`;
  `ReadState`, `BuildSnapshot`, `PlanRecovery`, `Reply`/`StopControl` the control
  loop; `TakePacket`, `IgnoreDuplicate`, `DiscardPacket`, `Join`, `EndSession` the
  subscriber. Each subscriber has one subscription for data and replies; `Faults`
  selects the failures of an instance. With `"overtaking"` neighbours of different
  topics may change places, as they do behind NATS and PubNub, which read each
  topic in a task of its own (`Overtake`).
* `Simulations` - the rounds of the crate's four fault simulations. The code
  computes who is dropped, delayed, repeated, offline or late from the round and
  the client's number; here any client may meet any fate its simulation has.
* `DemoServer` - the dashboard's handlers under their mutex, each `?` an action of
  its own that keeps what was done before it.
* `Transports` - `LocalTransport`, and `WebSocketRealtimeTransport` with the relay:
  a bus that overwrites what laggards have not taken, connections and channels that
  make their senders wait. `MqttTransport` - the connections of publish and
  subscribe calls to a broker that keeps one per client id.
* `StateUpdates` - a state and the one before it, which every encoder keeps as the base
  of the next delta: JSON objects, bytes or agent states. Its properties say what the
  receiver of a delta, or of a repair, ends up with.
* `Payloads` - an agent state and the one before it, with the payloads the agent encoder
  writes for them, and the numbers inside payloads. Its property says what is read back.
* `EncoderLearning` - the choices of `AdaptivePolicy` and `ByteEncoders` over a run of
  updates, with what the advisor and the tuner keep from one to the next. A packet is a
  size before and after compression; an update offers any of the instance's packets.
  `narrow` is a history variable: updates in a row that tried one family only.
* `CounterReplicas`, `RegisterReplicas` - replicas that update their own copy
  and send whole states to each other. `net` keeps every state ever sent, so a
  state can be merged late, twice or never. In the counters `updates` and `known`
  are history variables: what each replica counted, and how much of it has
  reached whom.

How they compose: `StateSync`, `Session`, `DemoServer`, `RecoveryPlanning` and
`Reorder` all take their receiving half from `Decoder`, `Simulations` and `ByteStream`
from `ByteDecoder`; `StateUpdates` takes its deltas from `JsonFieldDelta`, `AgentDelta`
and `PartialRepair`, `Payloads` what is written from `AgentCodec` and `Varint`; `Session` and `RecoveryPlanning` share `RecoveryHistory`; `Reorder`
and `Simulations` share `ReorderBuffer`.

Proofs: `FoldTheorems` (folds and loops of every length), `DecoderProofs` (lemmas about
the replay window), `StateSyncProofs` (with `Reorder`), `SessionProofs`, `RecoveryProofs`
(deltas, repairs, histories and plans), `ByteStreamProofs` (with `EncoderLearning`, `Wire` and
`Payloads`),
`CrdtProofs`, `DriverProofs` (the dashboard, the transports and the simulations).
Instances: `MC*`; `MCDeltas` checks `StateUpdates`, `Payloads`, `EncoderLearning` and `Wire` side
by side, one of them per behaviour; `MCDrivers` extends `ByteStream`,
`Transports` and `Simulations` and takes the dashboard by INSTANCE. Operators marked
as mutants are plausible bugs: replacing the definition that follows by the mutant
must make a property fail, which shows that the property depends on that piece of
the code. They take no part in any specification.

## Runs

| run | question | bounds, and why they suffice |
|---|---|---|
| `deltas` | does everything that is computed from a pair of states come back: deltas, repairs, payloads, packets; is the choice among them sound, and does what the encoders learn never shut a choice out? | every pair of JSON objects (3 fields, 3 values, of which two are the zeros of both signs: a field is added, kept, changed, changed in the sign of a zero, and removed next to another), of byte states up to 5 bytes (one-bit bytes, since bytes are only compared and xored; runs, gaps and chunks of every relation; gaps 0..2, chunks 0..3), of agent states (4 floats with both zeros and a NaN); numbers of 4 and 5 bits in groups of 3, which leave the last group 1 and 2 bits as 64 and 128 do in groups of 7; packets around a payload limit of 2; sizes 0..4 under 32 policies. The advisor learns from updates of every profile and every pair of sizes, with a memory of 3 winners and a forced exploration every third update, the tuner in batches of 2: both go through several rounds of learning |
| `state_sync` | consistency, duplicates, gaps, refinement | 2 clients (the publisher's schema and the next, with a limit that admits every delta and not the largest snapshot), 3 states, two of which differ in the sign of a zero, 3 updates of which 1 may fail, replay window 1: deltas that change the state are applied, deltas that should have changed it leave a client with the other zero, which the next delta must not take for its base, the window overflows, a delta can follow a failed update, a stale snapshot can meet a newer state. The two zeros are symmetric: nothing tells which is which |
| `recovery_planning` | are plans right and cheapest? | 4 updates, 3 packets or 9 units: both bounds evict, two deltas cost less than a snapshot and three more; clients at every sequence, spent ones included, that hold the state or one that passes for it; three byte states, of which two pass for each other and the third is shorter, and receivers of other bytes: a repair is cheaper, dearer or impossible |
| `session_safety` | order, progress of requests, where wrong states come from | 2 publishers, 1 client with 2 sessions, 3 updates, 3 states with both zeros, every fault: a recovery snapshot is taken at a spent sequence, a replay meets a client that holds the other zero |
| `session_liveness` | are requests answered, does `publish_state` return? | 2 publishers, 1 client, 3 updates, the same 3 states, data loss, overtaking, updates that fail to be encoded or sent |
| `session_authoritative`, `session_wedge`, `session_discarded` | three statements of the documentation | 1 publisher, 1 client, 3 updates, 2 states that `==` tells apart, no fault |
| `reorder` | does buffering keep the guarantees? | 4 updates, any of which may fail, gap 2, 2 pending: chains of two are drained, the map fills, packets are overtaken |
| `crdts` | is every update counted exactly once, is a write ever undone, do replicas agree in the end? | 2 replicas that count, amounts 1 and 2, components up to 2, 2 updates: a component overflows and refuses, both count concurrently, stale states are merged; 3 replicas that write, 2 values, 2 timestamps: equal timestamps of different replicas, and a third that learns them in either order |
| `drivers` | byte streams across restarts, the simulations, the dashboard, the transports | a log of 5 over 2 lives: the second life reaches and passes the sequences of the first; 2 clients and 4 rounds: held back, met again, recovered and met once more, with a gap of 1; 4 ticks between resets; 5 messages on a bus that keeps 2, with connections and channels of 1: a receiver lags, is told, and lags again |
| `mqtt` | may a session and a subscriber subscribe at the same time? | one publish and two subscribe calls |

`crdts` and `drivers` check systems that share no state: a variable `part` says which
one a behaviour is, and the others stay as they began, so that what is explored is
the sum of the systems and not their product.

`CHECK_DEADLOCK` is off where an instance has an end at which the system really waits
for the user: after `MaxSequence` updates in the session and planning runs, when a
simulation is done or the last message delivered in `drivers`, when all calls have
returned in `mqtt`.

Fairness. `Session!Fairness`: the executor polls every ready task, so each
step of a publisher that has begun, of the control loop and of a subscriber with
a message is eventually taken; a tokio `Mutex` is fair to its waiters, hence
strong fairness where the encoder lock is awaited. Nothing is assumed of users:
publishing a new state and joining are not fair. No property under fairness is
claimed when requests or replies can be lost, because the code never retries.
`MCCrdts!Delivery` assumes, as the README of the library does
(`src/README.md`, "after every replica eventually receives the same states"), that
every replica eventually merges what every other holds.

## What the runs show about the code

Four statements of the documentation do not hold of the code (`findings` in
`PROJECT.json`): a recovery snapshot may carry another sequence's state
(`session.rs` reads the state before it locks the encoder); a client with an
incompatible base state may be answered with the delta it refused and wait for
ever; a delta discarded while a request is outstanding is not asked for; and two
subscriptions over MQTT push each other off the broker, since they share a client
id. What remains true is checked next to them: only a recovery snapshot can
mislead in more than the signs of zeros (`OnlyRecoverySnapshotsMislead`), and a
client that holds an encoded state bit for bit, or none, is always answered
(`IntactRequestsAnswered`), even when updates fail and data and replies overtake
each other. That data packets arrive in order (`DataInOrder`) is for transports that
keep one topic's order: the relay tasks of `WebSocketRealtimeTransport`, one for each
connection of a publisher, do not.

What is left out of `IntactRequestsAnswered` is not idle caution: when `encode` fails
(`session.rs:57`) the sequence is taken, while `last_state` stays behind. A client that
is recovered at that sequence holds the state that was given there; it refuses the
next delta, which is computed from the state before, is replayed the same delta, and
waits until a snapshot is sent. `PlanRestores` makes the exception explicit: wherever a
client is, a plan takes it to the current sequence, unless the plan is a replay
and the client comes to hold a state that no delta was computed from.

What the models show of restarts: the wire says nothing of a publisher's lives, so
a client that holds sequence n dismisses what a restarted publisher sends up to n,
and a late packet of the old life can take it back (`ForwardUnlessLate` says that
nothing else can). It never shows bytes that were not published under its sequence
by the life it follows (`EntryShown`).

Smaller observations: `AgentDelta::between` compares
floats, and `JsonFieldDelta::between` JSON values, with `==`, so a zero that only
changes its sign is not sent. The receiver's bits, and with them its state hash, leave the
publisher's, and it refuses the next delta and asks for recovery (`EveryDeltaRestores`
makes exactly this exception; elsewhere the states that differ so are `Like` each other,
and the properties say which of them they accept). `GCounter::merge` answers that nothing changed
when it only learnt of components of zero, although the trait promises to report
changes and the map, and with it equality, did change. The adaptive policy passes
over a small compressed delta when the raw one misses its ratio. A packet that the
decoder has overtaken stays in the reorder buffer until it is cleared, and counts
against `max_pending`, where `docs/ARCHITECTURE.md:86` speaks of future deltas.

## Proofs

All for any values of the constants: any sets of states, clients, publishers, replicas
and topics, any capacities, limits, faults and bounds.

Assumptions. Hashes of the states in play do not collide (`HashAssumption`), a delta
turns its base into its target up to the signs of zeros (`PatchAssumption`, which is what
`RoundTripHolds` proves of JSON objects and `AgentRoundTripHolds` of agent states) and, of
byte states, exactly (`DeltasAssumption`, which `SmartRestoresHolds` proves of every
family), sizes are numbers (`SizeAssumption`), capacities are positive, and what
stands for `None` is no value of the type it is an option of. `RecoveryPlanning` assumes
that receivers accept payloads as large as those sent (`LimitAssumption`); the theorem on
repairs, that hashes tell the chunks of the two states apart (`ChunksTold`), which is what
the code relies on when it compares manifests, and `StateUpdates` that they tell all
states apart (`ChunkHashAssumption`), that xor of two bytes undoes itself and that of
floats that differ only the two zeros compare equal. `EncoderLearning` assumes that sizes
are numbers and packets on offer uncompressed (`OffersAssumption`), and of the settings what
the defaults satisfy: `explore_every` and the least number of winners are positive (the code
takes an `explore_every` of zero for no exploration, and then a streak may close the
choice) and the tuner starts between its floor and its ceiling (`LearningAssumption`).
The theorem on the dashboard assumes that
deltas between the states it streams are exact (`AdvancedStates`): `advance()` never makes
a load of negative zero; TLC evaluates it on the instance that is checked.
`AgentCodec` assumes that the payload has every field once (`FieldOrderAssumption`), of one
kind each (`FieldKindsAssumption`), `Varint` that numbers and groups have bits
(`WidthsAssumption`); `Wire` that packets have numbers in their headers
(`PacketsAssumption`) and that the checksum shows any change of a single symbol, as a CRC32 does
of any burst of up to 32 bits (`ChecksumAssumption`). It does not assume that the checksum
shows other damage.

Folds and loops. Several models fold over a sequence as the code loops over it, and the
library's induction theorems cannot be instantiated here. `FoldTheorems` gets by without:
`SetInduction` states induction of a set of numbers and follows from the well-founded
order of finite sets; from it follow that a loop of any number of turns defines a
function (`IterationExists`) and the two equations of a fold (`FoldEmpty`, `FoldAppend`).
The step of the fold is a constant of that module, so that every proof that needs a fold
instantiates it with its own.

`StateSyncProofs`:

* `TypeCorrectness`, `ConsistencyHolds`, `DuplicateIsStaleHolds` from one inductive
  invariant, `InductiveInvariant`. `Consistency` alone is not inductive: a packet
  in flight must carry the state logged under its sequence (`PacketsCarryLog`,
  monotone because the log only grows), and the replay window must hold the
  decoder's sequence and nothing newer (`WindowInvariant`), or a reset and a
  repeated packet could break it. A delta may be computed from another state
  than that of the sequence before it (a failed update); `Carries` therefore lets
  the base be any state, and the step "a matching base yields what passes for the
  logged state" rests on `HashAssumption` and `PatchAssumption`. The hash is what keeps
  deviations from adding up: a client with the other zero refuses the next delta.
* `NextPacketFitsHolds` from `GaplessStream`, which relates the encoder's last
  state to the log. It is about clients that hold what was published bit for bit:
  what fits their limit is applied, not merely not refused for a gap.
* `Refinement`: every step is a step of `AuthoritativeStream` or a stutter.
* `ReorderTypeCorrectness`, `NothingReadyWaitsHolds` and `ReorderRefinement` say the same of
  clients that buffer (`ReorderInvariance`). Their invariant adds that what waits carries
  its own sequence and the state published under it. A drain is a loop: `TurnKeeps` shows
  one turn right, `DrainSettles` by induction that as many turns as packets wait suffice,
  since every turn that is not the last removes one.

`SessionProofs` proves `TypeOK` (the lock is held by exactly the call with a packet in
hand), `DataInOrder` and `RecoveryMovesForward` from `SessionInvariant`, one lemma per
action. None of the three is inductive. That queues are ordered needs the packet
about to be sent or recorded to be newer than everything queued, which holds
because its sequence is the encoder's and only the lock's holder can have one
(`PublishersOK`). That a request is answered with something newer needs, along the
whole way of a request, that its client was behind the publisher when it asked:
the decoder refuses only what is newer than what it holds (`StaleComparesSequences`,
from the order of its replay window), and packets never lead the encoder
(`InboxOK`); then that `plan` leads beyond the client (`PlanLeadsForward`) and that
`record` leaves a suffix (`RecordKeepsSuffix`), whatever packets weigh. `BoundOK`,
that every stored state still has a sequence to take, keeps the sequence in its
type.

On top of it `ContentsInvariance` follows contents through the same actions: a packet in
hand, in the history or on the data topic carries the state given under its sequence, or is
a delta to it from some state; a reply is such a packet or a recovery snapshot, of any state.
What a replay sends was in the history (`MissingAreRetained`, a fold), and a delta on the
wrong base is refused, so that one that is taken leaves what passes for its target
(`TakenState`).
`OnlyRecoverySnapshotsMisleadHolds` is the action property that follows: together with the
violation run `session_authoritative` it says that the one race that run shows is the
only way to a wrong state, but for the signs of zeros.

`RecoveryProofs`:

* `RoundTripHolds` and `AgentRoundTripHolds`, for all objects, texts, counters and ranges:
  what comes back is the new value, or the old one where `==` sees no difference.
* `SmartRestoresHolds`: each of the five families of byte deltas. All but xor and
  splices write blocks into a copy of the old bytes, and one lemma serves them
  (`WritingRestores`): blocks that hold bytes of the new state and cover every place
  where the two differ leave the new state, in whatever order they are written. What is
  left to each family is that its blocks cover the differences (`RangesCover`: each
  changed byte lies between the last start of a range at or before it and that range's
  end) and that the gaps it sends add up to the places they were computed from
  (`SumsUndoGaps`, and for ranges with the lengths of the runs in between).
  `SpliceWastesNothing`: a splice with a shorter middle would need a longer common prefix
  or suffix than the greatest.
* `EveryDeltaRestoresHolds`, `NothingSpareHolds` and `SafeRepairHolds` state the invariants of
  `StateUpdates` for states of any range and any bound on their length. That a repair
  never misleads needs that writing it over other bytes leaves a state
  (`RepairedBytes`), which the hash then tells from the target.
* `RepairRestoresHolds`: a partial repair restores the target at no more than its size, for
  all byte states and chunk sizes, the last chunk of either side cut short or not. The
  fold that writes the chunks is described by what it has written so far (`WritePatch`).
* `PlanningTypeCorrectness`, `PlanIsCheapestHolds` and `PlanRestoresHolds` from
  `PlanningInvariant`: the history is within its bounds, its byte counter is the total of
  what it holds (so that subtracting what is evicted stays exact, `TotalSplits`), its
  sequences rise, and each packet is faithful to the log, a delta to the state before
  it unless that update failed. A chained replay then leads through published states
  (`ChainRestores`, one packet at a time through the decoder): a client is in step
  (`DecodersAtInStep`), the packet of the next sequence moves it on or, if it holds no
  state that deltas are computed from, leaves it where it is (`FaithfulMoves`), and those
  after that come too early for it (`EarlyDeltaIgnored`). A rising run of packets
  that takes in every sequence of a gap is the gap (`RunFillsGap`), so that a replay
  exists wherever the retained packets allow one (`MissingAreAll`).

`ByteStreamProofs` proves `ByteTypeOK`, `EntryShown` and `ForwardUnlessLate` from
`ByteInvariant`: lives are consecutive segments of the log (`LivesAreSegments`), and
a packet of any life carries what was logged at its place. `ByteRefinement` adds that
without late packets all lives together are one `AuthoritativeStream`. The decoder
checks the hash of a delta's base and of a snapshot; that the bytes a delta leaves are
those published rests on `DeltasAssumption`.

The stream leaves the choice of the packet free; the theorems on `EncoderLearning` say
what the choices are worth, for packets of any sizes. One choice at a time, `NeverWorseHolds`: with any adaptive
policy, offering a delta never costs more than keeping silent about it.
`ByteChoiceHolds`: whatever the tuner has tried, what `ByteStateEncoder` sends costs no
more than the snapshot or any family, the penalty for compression included.
`FastChoiceHolds`: whatever the advisor has learned, `FastByteStateEncoder` tries at most
two families, each able to express the change, and sends nothing larger than what it tried
or the snapshot. The loops over families are folds; the best so far only improves
(`ConsiderBothKeeps`, `ConsiderFastKeeps`). Over a run of updates they become the invariants
`DeltaNeverCostsHolds` and `EncodersChooseWellHolds`. `LearningStaysOpenHolds` is about what
is learned, and not inductive by itself: a streak of narrow choices is bounded only because
the advisor counts every update, whatever it sends (`FastChoiceCounts`, through the fold), and
explores when the count has reached `explore_every`, so that the count stays ahead of the
streak (`NarrowSinceExploring`); and the tuner's threshold must stay between its floor and its
ceiling through every attempt of an update (`ByteChoiceTunes`), which halving and doubling
respect (`ObservingTunes`). `LearningInvariance` states both.

It also holds the theorems on `Wire`. `PacketsArriveHolds` follows from `EnvelopeInvariance`: the
bytes a receiver has are those of the packet encoded last, or those with one place
damaged. An intact one is decoded to what was encoded wherever it fits (`IntactPacket`). Of a
damaged one the payload is never another (`DamagedPayload`): the checksum shows a change in
it, what was cut or extended no longer has the length it names, and a header field
that is not checked leaves the payload as it was.

And it proves the invariant of `Payloads`, `PayloadsReadBackHolds`, from two lemmas.
`CodecRestoresHolds`: the payloads of agent states and of their deltas, for any order of
the fields and any texts. Writing and reading are folds over the fields. The lemma by
induction over them (`ReadingFields`) is about the bytes a reader has, whole, cut or
extended, together with those it lacks: as long as there are enough, the fields read so far
have their values and what is left is the rest of the payload; once there are not, the
reader has failed for good. From it follow all three cases (`DecodersRestore`): nothing
is left of the payload itself, a reader of less fails, and one of more has bytes
left, which `finish` refuses. `VarRestoresHolds`: numbers of any width in groups of any.
The loop that writes and the one that reads what it wrote run side by side
(`Reversed`): before the last group what was read and what is left to write, moved
up by the bits that were read, make the number (`LoopsContinue`), so that the reader never
meets its overflow check while there is more to come; and a number has no more groups
than bits, so that the writer is done. The powers of two are a fold as well
(`PowersMultiply`, `PowersRise`).

`CrdtProofs` proves the laws of the counters' merge (commutative, associative,
idempotent) for all counters over any replicas and any maximum, then an inductive
invariant, `CounterInvariant`: the types, which need that merging never leaves
the range, and `OwnersLead`, that nobody knows more of a replica than itself.
The latter must hold of the states in transit too, since they become replicas'
states. `ExactlyOnceHolds` needs sums: a component is the total of the updates its
replica made, as far as the holder has heard (`ExactlyOnceOf`), of every state held or
in transit; merging takes the greater of two totals of prefixes of one sequence, which is
the total of the longer prefix (`TotalsGrow`). For registers the laws hold only while equal
stamps carry equal values, since values are not compared. `RegisterInvariant` is the
types, `StampsIdentifyValues`, and `WritersLead`: no state, held or in transit,
beats its writer's own, so that a replica never issues a stamp twice. From it
follow `StampsIdentifyValues`, `RegisterMergeLaws` and `NeverUndone`.

`DriverProofs`:

* the action property `DashboardIsHonest` of `DemoServer`. Its invariant says that the
  subscriber never leads the publisher and, unless a packet was missed, holds the state
  the next delta is computed from. That its hash then equals the publisher's needs deltas
  that are exact (`AdvancedStates`).
* `OnlyLagLosesHolds` and `GapsAreAnnouncedHolds` of `Transports`, from `WireInvariant`. It
  treats the three queues of a subscriber as one way (`Way`): moving a message from one
  to the next leaves it as it was (`WayStays`), a message the receiver takes is the last
  on it (`WayGrows`) and newer than all before (`RisesOn`), and a connection that ends cuts
  it short. What is on the way is exactly what the receiver is past and was not told it
  missed, and it never is past the end of the bus, so later messages change nothing
  (`OthersStay`). For the announcements it must say of every message missed, not of the
  last gap only, that an error stands between what came before it and what came after;
  later items keep it there (`StillAnnounced`).
* `ServedIsCurrentHolds`, `AllConvergeHolds` and `ReorderedWithoutResyncHolds` of
  `Simulations`, from `SimInvariant`: whatever a client holds, what waits in its reorder
  buffer and what is held back for it was sent in some round, for the state of that round
  (`Sent`); the clients the last round reached are current; nothing has failed. Each way of
  handing packets over is a lemma that keeps this, the loops by `FoldTheorems`, the drain of
  the reorder buffer included. That nothing fails is the hard part: no packet that was sent
  is ever refused by a client that keeps to this, whatever its order, and the recovery
  of a round always applies. For the held-back packet the invariant also says that it
  fits the state its client still has (`HeldBackFits`). The hypothesis `PayloadsFit` says that
  what is streamed is within the clients' size limit, as it is for the simulations' small
  states and the default limit; TLC evaluates it on the instance that is checked.

Model-checked only: everything under fairness (`IntactRequestsAnswered`, `PublishCompletes`, the
convergence of the replicas), which the provers cannot reason about.

## Not modelled

The contents of bytes: zstd, CRC32 and FNV-1a are parameters that do what the
code relies on, a header field or a float is one symbol. JSON text, UTF-8, 64-bit
saturation of the sequence, the JSON encoding of CRDT states and their sums.
Of NATS and PubNub only the loss of order between topics is modelled, in `Session`;
what their brokers lose or keep is not in the code. HTTP and the page of the demo
server. `runtime.rs` and `metrics.rs` are counters and a threshold function of their
own; `app.rs`, the benchmarks and the validation reports are command lines and output
without protocol state. The cases of `edge_cases.rs` other than the restart feed
unusual states to the codecs. In the models of streams the policy is a free choice
among the candidates, which covers every policy, and what the policies choose is
checked in `deltas`. `PROJECT.json` lists every part with its status.

## Plan

1. (done) `Decoder`, `StateSync`, `AuthoritativeStream`, `JsonFieldDelta`,
   `RecoveryHistory`, `RecoveryPlanning`, `Session`, `Reorder`; proofs of `StateSync`.
2. (done) `Crdt` with its replicas and proofs; `SmartDelta`, `PartialRepair`,
   `AgentDelta`, `AgentCodec`, `Varint`, `Wire`, `AdaptivePolicy`.
3. (done) Byte streams with restarts and the refinement of `AuthoritativeStream`, the
   encoders' memory, `plan_recovery`, the simulations, the demo server, the
   transports; proofs of `ByteStream`, `Session` and `DemoServer`.
4. (done) Folds and loops in proofs, and with them the proofs of `RecoveryPlanning`, `Reorder`,
   `PartialRepair`, `ExactlyOnce` and `OnlyRecoverySnapshotsMislead`; proofs of `Transports`
   and of `Simulations`, of `StateUpdates`, of `Payloads` and `Wire`, and of what the
   encoders choose and learn.
5. Proofs that `GaplessStream` survives recoveries in `Session`, and that a subscriber of
   `Session` whose recoveries are authoritative implements `AuthoritativeStream`.
