------------------------------ MODULE MCReorder ------------------------------
(***************************************************************************)
(* Instance of Reorder for TLC: one client, two states of one counter.     *)
(***************************************************************************)
EXTENDS Reorder

MCField == {"progress"}
MCValue == {0, 1}

MCPlainZero(v) == v

Json == INSTANCE JsonFieldDelta WITH
          Field <- MCField, Value <- MCValue, PlainZero <- MCPlainZero

MCState == [MCField -> MCValue]
MCPlainZeros(s) == s
MCHash(s) == <<"fnv1a64", s>>
MCDiff(s, t) == Json!Between(s, t)
MCPatch(d, s) == Json!ApplyDelta(d, s)
MCSize(payload) == 1
MCHasRoute(from, to) == FALSE
MCMigrate(from, to, s) == s
MCClients == {"c1"}
MCConfig == [c \in MCClients |-> [schema |-> "AgentState", limit |-> 1]]
=============================================================================
