------------------------------- MODULE Payloads -------------------------------
(***************************************************************************)
(* What is written to the payloads of packets, and must be read back: an   *)
(* agent state with the delta to it from the state before (AgentCodec), as *)
(* the encoder of src/sync.rs writes them update after update (StateSync   *)
(* has its sequence), and the lengths, places and counters inside payloads *)
(* (Varint).                                                               *)
(***************************************************************************)
EXTENDS AgentCodec, Varint

CONSTANT Numbers   \* lengths, places, counters and their differences

ASSUME NumbersAssumption == Numbers \subseteq Int

Subjects == {"agent", "number"}

PayloadsOf(f) == CASE f = "agent" -> AgentStates
                 [] f = "number" -> Numbers

VARIABLES subject,   \* what is written
          earlier,   \* what was written before
          latest     \* what is written now

payloadVars == <<subject, earlier, latest>>

PayloadsInit ==
  /\ subject \in Subjects
  /\ latest \in PayloadsOf(subject)
  /\ earlier = latest

\* The encoder takes its last state for the base of the next delta.
WriteNext ==
  /\ subject \in Subjects
  /\ latest' \in PayloadsOf(subject)
  /\ earlier' = latest
  /\ UNCHANGED subject

PayloadsSpec == PayloadsInit /\ [][WriteNext]_payloadVars
-----------------------------------------------------------------------------
\* What is written to a payload is read back from it: every number, whatever
\* the width leaves to the last of its groups (src/smart_delta.rs and
\* src/binary.rs), and agent states with the deltas to them (src/binary.rs),
\* of which nothing is read when they are cut or extended.
PayloadsReadBack ==
  /\ subject = "number" => \A width \in Widths : VarRestores(width, latest)
  /\ subject = "agent" => CodecRestores(earlier, latest)
=============================================================================
