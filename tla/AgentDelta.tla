------------------------------ MODULE AgentDelta ------------------------------
(***************************************************************************)
(* The delta between two AgentStates (src/binary.rs): new values for the   *)
(* texts and the float, signed differences for the counters.  The fields   *)
(* stand for their kinds: progress is the u8, CounterField the u64 fields, *)
(* TextField the strings and cpu_percent the f32, which is compared as     *)
(* IEEE 754 says but hashed and sent as its bits.                          *)
(***************************************************************************)
EXTENDS Integers

CONSTANTS TextField, CounterField, Text, Float,
          MaxU8, MaxU64,        \* scaled down by the instances
          FloatEqual(_, _),     \* == of f32
          Overflow              \* stands for the overflow errors of apply

ASSUME MaximaAssumption == MaxU8 \in Nat /\ MaxU64 \in Nat

AgentStates == [text : [TextField -> Text], progress : 0..MaxU8,
                counter : [CounterField -> 0..MaxU64], cpu_percent : Float]

DifferentIn(fields, f, g) == {x \in fields : f[x] # g[x]}

\* A mutant of CounterDifference: the difference of two u64 as a u64.
CounterDifferenceUnsigned(old, new) == IF old < new THEN new - old ELSE 0

\* The differences are i128, wide enough for any two u64.
CounterDifference(old, new) == new - old

\* The presence of a field is its bit in the mask.
AgentBetween(old, new) ==
  [text     |-> [x \in DifferentIn(TextField, old.text, new.text) |-> new.text[x]],
   progress |-> IF old.progress = new.progress THEN {}
                ELSE {CounterDifference(old.progress, new.progress)},
   counter  |-> [x \in DifferentIn(CounterField, old.counter, new.counter) |->
                   CounterDifference(old.counter[x], new.counter[x])],
   cpu_percent |-> IF FloatEqual(old.cpu_percent, new.cpu_percent) THEN {}
                   ELSE {new.cpu_percent}]

\* The value a field takes: the one there is in the delta, or its own.
Given(values, own) == IF values = {} THEN own ELSE CHOOSE v \in values : TRUE

AgentApply(d, base) ==
  LET counter(x) == base.counter[x] + (IF x \in DOMAIN d.counter THEN d.counter[x] ELSE 0)
      progress   == base.progress + Given(d.progress, 0)
  IN  IF progress \notin 0..MaxU8 \/ \E x \in CounterField : counter(x) \notin 0..MaxU64
      THEN Overflow
      ELSE [text     |-> [x \in TextField |->
                            IF x \in DOMAIN d.text THEN d.text[x] ELSE base.text[x]],
            progress |-> progress,
            counter  |-> [x \in CounterField |-> counter(x)],
            cpu_percent |-> Given(d.cpu_percent, base.cpu_percent)]
-----------------------------------------------------------------------------
\* The delta restores the new state, bit for bit except where the float is a
\* zero that only changed its sign.
AgentRestores(old, new) ==
  LET result == AgentApply(AgentBetween(old, new), old)
  IN  \/ result = new
      \/ /\ result = [new EXCEPT !.cpu_percent = old.cpu_percent]
         /\ {old.cpu_percent, new.cpu_percent} = {"zero", "negative zero"}
=============================================================================
