------------------------------ MODULE AgentCodec ------------------------------
(***************************************************************************)
(* The payloads of AgentStates and their deltas (src/binary.rs): the       *)
(* fields in a fixed order, in a delta only those of its mask, read back   *)
(* by a Reader that must end where the payload does.  A text is its length *)
(* and its symbols; a number (see Varint) and the float are one symbol.    *)
(***************************************************************************)
EXTENDS AgentDelta, SequencesExt

CONSTANTS FieldOrder,   \* every field, in the order of the payload
          BadPayload    \* stands for the InvalidPacket errors

AgentFields == TextField \cup CounterField \cup {"progress", "cpu_percent"}

ASSUME FieldOrderAssumption ==
  /\ FieldOrder \in Seq(AgentFields) /\ ToSet(FieldOrder) = AgentFields
  /\ \A m, n \in 1..Len(FieldOrder) : FieldOrder[m] = FieldOrder[n] => m = n

ASSUME FieldKindsAssumption ==
  /\ TextField \cap CounterField = {}
  /\ {"progress", "cpu_percent"} \cap (TextField \cup CounterField) = {}

\* A text is a sequence of symbols.
ASSUME TextAssumption == \A t \in Text : t \in Seq(ToSet(t))

\* A state and a delta as functions from their fields to values.
StateFields(s) ==
  [f \in AgentFields |-> IF f \in TextField THEN s.text[f]
                         ELSE IF f \in CounterField THEN s.counter[f] ELSE s[f]]

DeltaFields(d) ==
  [f \in DOMAIN d.text \cup DOMAIN d.counter
          \cup {g \in {"progress", "cpu_percent"} : d[g] # {}} |->
     IF f \in TextField THEN d.text[f]
     ELSE IF f \in CounterField THEN d.counter[f] ELSE Given(d[f], 0)]

\* put_string, put_var_u128, put_var_i128, to_le_bytes
PutField(f, value) == IF f \in TextField THEN <<Len(value)>> \o value ELSE <<value>>

PutFields(values) ==
  FoldLeft(LAMBDA bytes, f : bytes \o (IF f \in DOMAIN values THEN PutField(f, values[f])
                                      ELSE <<>>),
           <<>>, FieldOrder)

EncodeAgentState(values) == PutFields(values)

EncodeAgentDelta(values) == <<DOMAIN values>> \o PutFields(values)

\* values, and one more.
With(values, f, value) ==
  [g \in DOMAIN values \cup {f} |-> IF g = f THEN value ELSE values[g]]

\* One step of the Reader: [ok, rest, values] with the next field read, or
\* not ok any more.
ReadField(r, f) ==
  LET size == IF f \in TextField THEN Head(r.rest) ELSE 0
  IN  IF r.rest = <<>> \/ size + 1 > Len(r.rest) THEN [r EXCEPT !.ok = FALSE]
      ELSE [ok     |-> TRUE,
            rest   |-> SubSeq(r.rest, size + 2, Len(r.rest)),
            values |-> With(r.values, f, IF f \in TextField THEN SubSeq(r.rest, 2, size + 1)
                                         ELSE Head(r.rest))]

\* A mutant of Finish: what follows the last field is ignored.
FinishLoosely(r) == IF ~r.ok THEN BadPayload ELSE r.values

\* Reader::finish
Finish(r) == IF ~r.ok \/ r.rest # <<>> THEN BadPayload ELSE r.values

ReadFields(fields, symbols) ==
  Finish(FoldLeft(LAMBDA r, f : IF r.ok /\ f \in fields THEN ReadField(r, f) ELSE r,
                  [ok |-> TRUE, rest |-> symbols, values |-> <<>>], FieldOrder))

\* The counters of a state must fit their types.
DecodeAgentState(symbols) ==
  LET values == ReadFields(ToSet(FieldOrder), symbols)
  IN  IF values # BadPayload /\ (\/ values["progress"] > MaxU8
                              \/ \E f \in CounterField : values[f] > MaxU64)
      THEN BadPayload ELSE values

DecodeAgentDelta(symbols) ==
  IF symbols = <<>> THEN BadPayload ELSE ReadFields(Head(symbols), Tail(symbols))
-----------------------------------------------------------------------------
\* Payloads whose tail was lost, or that go on after their end.
CutOrExtended(symbols) ==
  {SubSeq(symbols, 1, n) : n \in 0..(Len(symbols) - 1)} \cup {Append(symbols, 0)}

\* A state and the delta to it are read back as they were written, and no
\* payload that is cut or goes on is taken for another state or delta.
CodecRestores(old, new) ==
  LET state == StateFields(new)
      delta == DeltaFields(AgentBetween(old, new))
  IN  /\ DecodeAgentState(EncodeAgentState(state)) = state
      /\ DecodeAgentDelta(EncodeAgentDelta(delta)) = delta
      /\ \A cut \in CutOrExtended(EncodeAgentState(state)) : DecodeAgentState(cut) = BadPayload
      /\ \A cut \in CutOrExtended(EncodeAgentDelta(delta)) : DecodeAgentDelta(cut) = BadPayload
=============================================================================
