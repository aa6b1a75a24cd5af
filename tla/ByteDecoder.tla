----------------------------- MODULE ByteDecoder -----------------------------
(***************************************************************************)
(* ByteStateDecoder (src/byte_sync.rs), the receiving half of the streams  *)
(* of plain bytes.  It has no replay window and no migrations, and it      *)
(* reads the payload, which may be too large, before it looks at the base. *)
(* A decoder is a record [sequence |-> Option<u64>, state |-> Option<..>]. *)
(***************************************************************************)
EXTENDS Decoder

CONSTANTS Deltas(_, _),  \* the payloads of encode_candidates for two states
          Invalid        \* what Patch yields for a payload that does not fit

\* Every smart delta turns its base into its target (checked of SmartDelta).
ASSUME DeltasAssumption ==
  \A s, t \in State : \A d \in Deltas(s, t) : Patch(d, s) = t /\ t # Invalid

ByteDeltaPacket(n, schema, base, s, payload) ==
  [DeltaPacket(n, schema, base, s) EXCEPT !.payload = payload]

EmptyByteDecoder == [sequence |-> None, state |-> None]

\* A mutant of NotNewer: only the packet just applied is recognised.
NotNewerButLast(d, p) == d.sequence = p.sequence

NotNewer(d, p) == d.sequence # None /\ p.sequence <= d.sequence

\* A mutant of OnBase: the base hash is not compared.
OnBaseBySequence(d, p) == d.sequence = p.base_sequence

OnBase(d, p) == d.sequence = p.base_sequence /\ Hash(d.state) = p.base_hash

\* What apply answers: a ByteApplyResult, or "Rejected" for an Err.
ByteOutcome(d, config, p) ==
  IF p.schema_hash # config.schema THEN "Rejected"
  ELSE IF NotNewer(d, p) THEN "Duplicate"
  ELSE IF Size(p.payload) > config.limit THEN "Rejected"
  ELSE IF p.kind = "Snapshot"
       THEN IF Hash(p.payload) = p.base_hash THEN "Applied" ELSE "Rejected"
  ELSE IF ~OnBase(d, p) THEN "NeedRecovery"
  ELSE IF Patch(p.payload, d.state) = Invalid THEN "Rejected"
  ELSE "Applied"

\* The state that next becomes.
ByteResulting(d, p) ==
  IF p.kind = "Snapshot" THEN p.payload ELSE Patch(p.payload, d.state)

\* The decoder after apply: nothing but "Applied" changes it.
ByteApply(d, config, p) ==
  IF ByteOutcome(d, config, p) = "Applied"
  THEN [sequence |-> p.sequence, state |-> ByteResulting(d, p)] ELSE d
=============================================================================
