-------------------------- MODULE MCRecoveryPlanning --------------------------
(***************************************************************************)
(* Instance of RecoveryPlanning for TLC: a snapshot costs as many units    *)
(* over the header as the state has bytes, a delta between any two one.    *)
(* The first two states differ in the sign of a zero: 2 stands for the     *)
(* byte that tells -0.0 from 0.0.                                          *)
(***************************************************************************)
EXTENDS RecoveryPlanning

MCState == {<<0, 0, 0, 0>>, <<0, 0, 0, 2>>, <<0, 1, 1>>}
MCPlainZeros(s) == [i \in DOMAIN s |-> s[i] % 2]
MCHash(s) == <<"fnv1a64", s>>
MCDiff(s, t) == <<s, t>>
MCPatch(d, s) ==
  IF d[1] # s THEN None
  ELSE IF MCPlainZeros(d[2]) = MCPlainZeros(s) THEN s ELSE d[2]
MCSize(payload) == IF Len(payload) = 2 THEN 1 ELSE Len(payload)
MCHasRoute(from, to) == FALSE
MCMigrate(from, to, s) == s
MCXor(a, b) == IF a = b THEN 0 ELSE 1
=============================================================================
