----------------------------- MODULE StateUpdates -----------------------------
(***************************************************************************)
(* A state and the update before it, for the three kinds of state the      *)
(* library streams: JSON objects (src/schema.rs), bytes (src/byte_sync.rs  *)
(* and src/v30_sync.rs) and agent states (src/state.rs).  Every encoder    *)
(* keeps the previous state and computes its delta, or the repair of a     *)
(* receiver that stayed there, from the two; the properties say what the   *)
(* receiver of either gets.                                                *)
(***************************************************************************)
EXTENDS JsonFieldDelta, AgentDelta, PartialRepair

CONSTANTS ByteValue,    \* u8
          MaxLength,    \* bound on the bytes of a state
          RangeGaps,    \* gaps the ranges may bridge
          ChunkSizes,   \* sizes of chunks, of deltas and of repairs
          Bystanders    \* bytes of receivers a repair was not made for

ByteStates == UNION {[1..n -> ByteValue] : n \in 0..MaxLength}

ASSUME RangesAssumption ==
  MaxLength \in Nat /\ RangeGaps \subseteq Nat /\ ChunkSizes \subseteq Nat

\* Xor of bytes undoes itself; resize fills with the byte 0.
ASSUME XorAssumption ==
  0 \in ByteValue /\ \A a, b \in ByteValue : Xor(a, Xor(a, b)) = b

\* Of the floats that differ, == holds of the two zeros only.
ASSUME FloatAssumption ==
  \A x, y \in Float :
    FloatEqual(x, y) => x = y \/ {x, y} = {"zero", "negative zero"}

\* fnv1a64 does not collide on the states in play and their chunks.
ASSUME ChunkHashAssumption ==
  \A s, t \in ByteStates : HashOf(s) = HashOf(t) => s = t

ASSUME BystandersAssumption == Bystanders \subseteq ByteStates

StateKinds == {"json", "bytes", "agent"}

StatesOf(k) == CASE k = "json"  -> JsonObject
                 [] k = "bytes" -> ByteStates
                 [] k = "agent" -> AgentStates

VARIABLES kind, previous, current

updateVars == <<kind, previous, current>>

UpdatesInit ==
  /\ kind \in StateKinds
  /\ current \in StatesOf(kind)
  /\ previous = current

\* The encoder takes its last state for the base of the next delta.
UpdateState ==
  /\ kind \in StateKinds
  /\ current' \in StatesOf(kind)
  /\ previous' = current
  /\ UNCHANGED kind

UpdatesSpec == UpdatesInit /\ [][UpdateState]_updateVars
-----------------------------------------------------------------------------
\* Whatever a delta is computed with, applying it to its base gives its
\* target back: bytes exactly, by each family under any policy
\* (src/smart_delta.rs), agent states (src/binary.rs) and the fields of JSON
\* objects (src/schema.rs) but for the signs of zeros, which == does not see.
\* Every guarantee the packets make rests on it.
EveryDeltaRestores ==
  /\ kind = "json" => Restores(previous, current)
  /\ kind = "bytes" => \A gap \in RangeGaps, size \in ChunkSizes :
                         SmartRestores(previous, current, gap, size)
  /\ kind = "agent" => AgentRestores(previous, current)

\* A JSON delta names no field it need not (src/schema.rs between): without
\* any one of them the receiver would hold an object that is not == the new
\* one.  The greedy prefix and suffix of encode_splice waste nothing.
NothingSpare ==
  /\ kind = "json" => NoEntrySpare(previous, current)
  /\ kind = "bytes" => SpliceIsShortest(previous, current)

\* A partial repair (src/partial_repair.rs) restores the state it was built
\* from, whatever the lengths, and never misleads another receiver.
SafeRepair ==
  kind = "bytes" =>
    \A size \in ChunkSizes :
      /\ RepairRestores(previous, current, size)
      /\ RepairNeverMisleads(previous, current, size, Bystanders)
=============================================================================
