------------------------------- MODULE Decoder -------------------------------
(***************************************************************************)
(* Packets and the receiving half of a stream: the packet constructors of  *)
(* src/packet.rs, the ReplayWindow of src/replay.rs and the decision that  *)
(* GenericDecoder::apply_packet and apply_packet_with_migrations           *)
(* (src/sync.rs) take on every packet.  Decoder::apply_packet, its         *)
(* counterpart for AgentState, takes the same decision.                    *)
(*                                                                         *)
(* The module has no variables.  A decoder is a record                     *)
(*    [sequence |-> Option<u64>, state |-> Option<T>, seen |-> window]     *)
(* and its configuration a record                                          *)
(*    [schema |-> T::schema_hash(), limit |-> decode_config limit].        *)
(***************************************************************************)
EXTENDS Integers, Sequences

CONSTANTS State,            \* the application states
          None,             \* Option::None
          PlainZeros(_),    \* a state with every -0.0 in it made 0.0
          Hash(_),          \* fnv1a64 of a state's canonical encoding
          Diff(_, _),       \* the delta from one state to another
          Patch(_, _),      \* a delta applied to a base state
          Size(_),          \* the logical size of a payload
          WindowCapacity,   \* ReplayWindow's capacity (256 by default)
          HasRoute(_, _),   \* MigrationRegistry::contains
          Migrate(_, _, _)  \* the registered migration of a payload

ASSUME NoneAssumption == None \notin State /\ None \notin Nat

ASSUME CapacityAssumption == WindowCapacity \in Nat \ {0}

\* 64-bit hashes of the states in play do not collide.
ASSUME HashAssumption == \A s, t \in State : Hash(s) = Hash(t) => s = t

\* The states that pass for s: those that differ from it in nothing but the
\* signs of zeros, s itself among them.
Like[s \in State] == {t \in State : PlainZeros(t) = PlainZeros(s)}

\* A delta lists what == tells apart, and 0.0 == -0.0: it turns its base into
\* its target up to the signs of zeros (checked of AgentDelta and
\* JsonFieldDelta).
ASSUME PatchAssumption == \A s, t \in State : Patch(Diff(s, t), s) \in Like[t]
-----------------------------------------------------------------------------
(***************************************************************************)
(* Packets.  A snapshot carries the hash of its own state and base         *)
(* sequence 0; a delta names the sequence before its own and the hash of   *)
(* the state it was computed from.                                         *)
(***************************************************************************)
SnapshotPacket(n, schema, s) ==
  [kind |-> "Snapshot", sequence |-> n, base_sequence |-> 0,
   base_hash |-> Hash(s), schema_hash |-> schema, payload |-> s]

DeltaPacket(n, schema, base, s) ==
  [kind |-> "Delta", sequence |-> n, base_sequence |-> n - 1,
   base_hash |-> Hash(base), schema_hash |-> schema, payload |-> Diff(base, s)]
-----------------------------------------------------------------------------
(***************************************************************************)
(* The replay window: the last WindowCapacity sequences applied, oldest    *)
(* first.                                                                  *)
(***************************************************************************)
InWindow(seen, n) == \E i \in 1..Len(seen) : seen[i] = n

\* A mutant of Record: nothing is ever forgotten.
RecordForever(seen, n) ==
  IF InWindow(seen, n) THEN seen ELSE Append(seen, n)

Record(seen, n) ==
  IF InWindow(seen, n) THEN seen
  ELSE IF Len(seen) < WindowCapacity THEN Append(seen, n)
  ELSE Append(Tail(seen), n)
-----------------------------------------------------------------------------
EmptyDecoder == [sequence |-> None, state |-> None, seen |-> <<>>]

\* A mutant of Stale: only the replay window is consulted.
StaleByWindow(d, p) == InWindow(d.seen, p.sequence)

\* Already applied, or older than the state the decoder holds.
Stale(d, p) ==
  \/ InWindow(d.seen, p.sequence)
  \/ d.sequence # None /\ p.sequence < d.sequence

\* A mutant of BaseMatches: the base hash is not compared.
BaseMatchesBySequence(d, p) == d.sequence = p.base_sequence

\* The decoder holds exactly the state the delta was computed from.
BaseMatches(d, p) ==
  /\ d.sequence = p.base_sequence
  /\ Hash(d.state) = p.base_hash

\* The payload exceeds the decoder's limit, or a snapshot is not the state
\* its header announces.
Unreadable(config, p) ==
  \/ Size(p.payload) > config.limit
  \/ p.kind = "Snapshot" /\ Hash(p.payload) # p.base_hash

(***************************************************************************)
(* What apply_packet answers: an ApplyResult, or "Rejected" for an Err.    *)
(* The order of the tests is the code's.                                   *)
(***************************************************************************)
Outcome(d, config, p) ==
  IF p.schema_hash # config.schema THEN "Rejected"
  ELSE IF Stale(d, p) THEN "Duplicate"
  ELSE IF p.kind = "Delta" /\ ~BaseMatches(d, p) THEN "NeedSnapshot"
  ELSE IF Unreadable(config, p) THEN "Rejected"
  ELSE "Applied"

(***************************************************************************)
(* What apply_packet_with_migrations answers.  Across schemas a delta is   *)
(* refused before the duplicate test, and a snapshot is taken only along a *)
(* registered route.                                                       *)
(***************************************************************************)
MigratingOutcome(d, config, p) ==
  IF p.schema_hash = config.schema THEN Outcome(d, config, p)
  ELSE IF p.kind # "Snapshot" THEN "NeedSnapshot"
  ELSE IF Stale(d, p) THEN "Duplicate"
  ELSE IF Unreadable(config, p) THEN "Rejected"
  ELSE IF ~HasRoute(p.schema_hash, config.schema) THEN "Rejected"
  ELSE "Applied"

\* The state an applied packet leaves the decoder with.
Resulting(d, config, p) ==
  IF p.schema_hash # config.schema
  THEN Migrate(p.schema_hash, config.schema, p.payload)
  ELSE IF p.kind = "Snapshot" THEN p.payload
  ELSE Patch(p.payload, d.state)

Advance(d, config, p) ==
  [sequence |-> p.sequence,
   state    |-> Resulting(d, config, p),
   seen     |-> Record(d.seen, p.sequence)]

\* The decoder after apply_packet: only "Applied" changes it.
Apply(d, config, p) ==
  IF Outcome(d, config, p) = "Applied" THEN Advance(d, config, p) ELSE d

\* The decoder after apply_packet_with_migrations.
ApplyMigrating(d, config, p) ==
  IF MigratingOutcome(d, config, p) = "Applied"
  THEN Advance(d, config, p) ELSE d
=============================================================================
