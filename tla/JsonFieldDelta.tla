---------------------------- MODULE JsonFieldDelta ----------------------------
(***************************************************************************)
(* The delta of the generic path (src/schema.rs): states are JSON objects, *)
(* functions from a set of field names to values, and a delta lists the    *)
(* top-level fields that changed and those that were removed.  Whether a   *)
(* field changed is up to == of serde_json::Value, to which 0.0 is -0.0,   *)
(* though they are printed, and hashed, differently.                       *)
(***************************************************************************)
EXTENDS Integers, FiniteSets

CONSTANTS Field, Value,
          PlainZero(_)   \* a value with every -0.0 in it made 0.0

\* == of serde_json::Value; no value is a NaN.
ValueEqual(v, w) == PlainZero(v) = PlainZero(w)

JsonObject == UNION {[fields -> Value] : fields \in SUBSET Field}

\* Two mutants of ChangedFields: one forgets the fields old lacks, the other
\* lists every field again.
ChangedInBoth(old, new) ==
  {f \in DOMAIN new : f \in DOMAIN old /\ ~ValueEqual(old[f], new[f])}

EveryField(old, new) == DOMAIN new

\* The fields of new that old lacks or gives a value that is not ==.
ChangedFields(old, new) ==
  {f \in DOMAIN new : ~(f \in DOMAIN old /\ ValueEqual(old[f], new[f]))}

Between(old, new) ==
  [changed |-> [f \in ChangedFields(old, new) |-> new[f]],
   removed |-> DOMAIN old \ DOMAIN new]

\* apply: the removals first, then the insertions.
ApplyDelta(delta, base) ==
  [f \in (DOMAIN base \ delta.removed) \cup DOMAIN delta.changed |->
     IF f \in DOMAIN delta.changed THEN delta.changed[f] ELSE base[f]]
-----------------------------------------------------------------------------
\* == of two objects.
ObjectEqual(s, t) ==
  DOMAIN s = DOMAIN t /\ \A f \in DOMAIN s : ValueEqual(s[f], t[f])

\* The delta between two states turns the first into the second, bit for bit
\* except where a field of both holds values that differ in the sign of a
\* zero: such a field stays as it was.
Restores(old, new) ==
  LET result == ApplyDelta(Between(old, new), old)
  IN  /\ DOMAIN result = DOMAIN new
      /\ \A f \in DOMAIN new :
           \/ result[f] = new[f]
           \/ f \in DOMAIN old /\ result[f] = old[f] /\ ValueEqual(old[f], new[f])

\* A delta without one of the entries of Between.
Without(delta, f) ==
  [changed |-> [g \in DOMAIN delta.changed \ {f} |-> delta.changed[g]],
   removed |-> delta.removed \ {f}]

\* Every entry is needed: leaving any one out yields a state that == tells
\* from the new one.
NoEntrySpare(old, new) ==
  LET delta == Between(old, new)
  IN  \A f \in DOMAIN delta.changed \cup delta.removed :
        ~ObjectEqual(ApplyDelta(Without(delta, f), old), new)
=============================================================================
