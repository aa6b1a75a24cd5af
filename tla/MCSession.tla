------------------------------ MODULE MCSession ------------------------------
(***************************************************************************)
(* Instance of Session for TLC.  States are objects with one field and     *)
(* deltas name the fields that change, which those from one zero to the    *)
(* other do not; a snapshot weighs more than two deltas and less than      *)
(* three.                                                                  *)
(***************************************************************************)
EXTENDS Session

MCField == {"cpu_percent"}
MCValue == {"0.0", "-0.0", "1.0"}
MCPlainZero(v) == IF v = "-0.0" THEN "0.0" ELSE v
MCPlainZeros(s) == [f \in DOMAIN s |-> MCPlainZero(s[f])]

Json == INSTANCE JsonFieldDelta WITH
          Field <- MCField, Value <- MCValue, PlainZero <- MCPlainZero

MCState == [MCField -> MCValue]

\* Without -0.0, so that deltas are exact.
MCStatesApart == [MCField -> {"0.0", "1.0"}]
MCHash(s) == <<"fnv1a64", s>>
MCDiff(s, t) == Json!Between(s, t)
MCPatch(d, s) == Json!ApplyDelta(d, s)
MCSize(payload) == IF "changed" \in DOMAIN payload THEN 1 ELSE 4
MCHasRoute(from, to) == FALSE
MCMigrate(from, to, s) == s

TwoPublishers == {"p1", "p2"}
OnePublisher == {"p1"}
OneClient == {"c1"}
AllFaults ==
  {"data_loss", "recovery_loss", "overtaking", "publish_error", "session_error"}
DataFaults == {"data_loss", "overtaking", "publish_error"}
NoFaults == {}
=============================================================================
