----------------------------- MODULE MCStateSync -----------------------------
(***************************************************************************)
(* Instance of StateSync for TLC.  States are JSON objects; two of the     *)
(* three differ in the sign of a zero only.  Every delta has at most two   *)
(* fields, for none names the task, and so fits every client's limit; the  *)
(* largest snapshot does not.  "plain" speaks the publisher's schema,      *)
(* "migrating" runs the next version.                                      *)
(***************************************************************************)
EXTENDS StateSync, TLC

CONSTANTS zero, minus_zero

\* Nothing tells which of the two is which.
Zeros == Permutations({zero, minus_zero})

MCField == {"a", "b", "task"}
MCValue == {zero, minus_zero, "one"}

MCPlainZero(v) == IF v \in {zero, minus_zero} THEN "zero" ELSE v

Json == INSTANCE JsonFieldDelta WITH
          Field <- MCField, Value <- MCValue, PlainZero <- MCPlainZero

MCState == {[a |-> zero, task |-> "one"], [a |-> minus_zero, task |-> "one"],
            [a |-> "one", b |-> "one", task |-> "one"]}

MCPlainZeros(s) == [s EXCEPT !.a = MCPlainZero(@)]

MCHash(s) == <<"fnv1a64", s>>
MCDiff(s, t) == Json!Between(s, t)
MCPatch(d, s) == Json!ApplyDelta(d, s)

MCSize(payload) ==
  IF "changed" \in DOMAIN payload
  THEN Cardinality(DOMAIN payload.changed) + Cardinality(payload.removed)
  ELSE Cardinality(DOMAIN payload)

MCHasRoute(from, to) == from = "v1" /\ to = "v2"

MCMigrate(from, to, s) == [f \in DOMAIN s \cup {"added"} |->
                             IF f = "added" THEN "one" ELSE s[f]]

MCClients == {"plain", "migrating"}

MCConfig == [c \in MCClients |->
               [schema |-> IF c = "plain" THEN "v1" ELSE "v2", limit |-> 2]]
=============================================================================
