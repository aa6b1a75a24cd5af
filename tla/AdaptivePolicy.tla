---------------------------- MODULE AdaptivePolicy ----------------------------
(***************************************************************************)
(* Which form of an update is sent (src/adaptive.rs).  A packet is what    *)
(* the choice reads of it: [kind, len, zstd, compressed], its payload's    *)
(* length and the length zstd would make of it.  A policy is a record of   *)
(* the fields of AdaptivePolicy; max_delta_ratio is <<numerator,           *)
(* denominator>>.                                                          *)
(***************************************************************************)
EXTENDS Integers, Sequences

CONSTANTS HeaderLen, MinZstdPayload   \* 46 and 64

EncodedLen(p) == HeaderLen + p.len

\* zstd_candidate: a compressed copy when that pays.
ZstdCandidate(p, min_savings) ==
  IF p.compressed \/ p.len < MinZstdPayload \/ p.zstd + min_savings >= p.len
  THEN p
  ELSE [p EXCEPT !.len = p.zstd, !.compressed = TRUE]

Score(policy, p) ==
  EncodedLen(p) +
  (IF p.compressed THEN policy.compression_cpu_penalty_bytes ELSE 0)

\* A mutant of DeltaAllowed: only the ratio is looked at.
DeltaAllowedByRatio(policy, snapshot, delta) ==
  EncodedLen(delta) * policy.max_delta_ratio[2]
    <= policy.max_delta_ratio[1] * EncodedLen(snapshot)

DeltaAllowed(policy, snapshot, delta) ==
  /\ EncodedLen(delta) * policy.max_delta_ratio[2]
       <= policy.max_delta_ratio[1] * EncodedLen(snapshot)
  /\ EncodedLen(delta) + policy.min_delta_savings_bytes <= EncodedLen(snapshot)

\* A packet and, when zstd makes it smaller, its compressed form.
Forms(policy, p) ==
  LET compressed == ZstdCandidate(p, policy.min_compression_savings_bytes)
  IN  IF policy.enable_zstd /\ compressed.compressed
      THEN <<p, compressed>> ELSE <<p>>

\* A mutant of FirstBest: the penalty for compression is forgotten.
FirstBestUnpenalized(policy, candidates) ==
  CHOOSE i \in DOMAIN candidates :
    /\ \A j \in DOMAIN candidates : EncodedLen(candidates[i]) <= EncodedLen(candidates[j])
    /\ \A j \in 1..(i - 1) : EncodedLen(candidates[j]) > EncodedLen(candidates[i])

\* A later candidate replaces an earlier one only when it scores lower.
FirstBest(policy, candidates) ==
  CHOOSE i \in DOMAIN candidates :
    /\ \A j \in DOMAIN candidates : Score(policy, candidates[i]) <= Score(policy, candidates[j])
    /\ \A j \in 1..(i - 1) : Score(policy, candidates[j]) > Score(policy, candidates[i])

SelectInitial(policy, snapshot) ==
  LET c == Forms(policy, snapshot)
  IN  c[FirstBest(policy, c)]

Select(policy, snapshot, delta) ==
  LET c == Forms(policy, snapshot) \o
             (IF DeltaAllowed(policy, snapshot, delta) THEN Forms(policy, delta) ELSE <<>>)
  IN  c[FirstBest(policy, c)]
-----------------------------------------------------------------------------
\* Whatever compression and its penalty do, the packet sent costs no more
\* than the plain snapshot, a delta is sent only where it saves what the
\* policy asks for, and offering a delta never makes the choice worse.
NeverWorse(policy, snapshot, delta) ==
  LET chosen == Select(policy, snapshot, delta)
  IN  /\ Score(policy, chosen) <= Score(policy, SelectInitial(policy, snapshot))
      /\ EncodedLen(chosen) <= EncodedLen(snapshot)
      /\ chosen.kind = "Delta" =>
           EncodedLen(chosen) + policy.min_delta_savings_bytes <= EncodedLen(snapshot)
=============================================================================
