----------------------------- MODULE ByteEncoders -----------------------------
(***************************************************************************)
(* Which packet the byte encoders send: ByteStateEncoder::encode           *)
(* (src/byte_sync.rs) tries every delta family, FastByteStateEncoder       *)
(* (src/v30_sync.rs) those its advisor shortlists.  As in AdaptivePolicy a *)
(* packet is the sizes the choice reads of it; kind is "Snapshot" or the   *)
(* family of a delta.                                                      *)
(***************************************************************************)
EXTENDS AdaptivePolicy, StrategyAdvisor

-----------------------------------------------------------------------------
(***************************************************************************)
(* ByteStateEncoder.  A choice is [tuner, best, score].                    *)
(***************************************************************************)
Packed(policy, p) == ZstdCandidate(p, policy.min_compression_savings_bytes)

\* The packet itself replaces the best only if it is smaller; then its
\* compressed form, if the tuner has it tried.
ConsiderBoth(policy, choice, p) ==
  LET plain == IF EncodedLen(p) < choice.score
               THEN [choice EXCEPT !.best = p, !.score = EncodedLen(p)] ELSE choice
      packed == Packed(policy, p)
      tried  == policy.enable_zstd /\ ShouldTryZstd(choice.tuner, p.len)
      wins   == tried /\ packed.compressed /\ Score(policy, packed) < plain.score
  IN  [tuner |-> IF tried THEN TunerObserve(choice.tuner, EncodedLen(p), EncodedLen(packed))
                 ELSE choice.tuner,
       best  |-> IF wins THEN packed ELSE plain.best,
       score |-> IF wins THEN Score(policy, packed) ELSE plain.score]

\* The snapshot first, then the candidates in their order (none for the
\* first update).
ByteChoice(policy, tuner, snapshot, deltas) ==
  FoldLeft(LAMBDA choice, p : ConsiderBoth(policy, choice, p),
           [tuner |-> tuner, best |-> snapshot, score |-> EncodedLen(snapshot)],
           <<snapshot>> \o deltas)
-----------------------------------------------------------------------------
(***************************************************************************)
(* FastByteStateEncoder.  A choice is [advisor, best].                     *)
(***************************************************************************)
Smaller(p, best) == IF EncodedLen(p) < EncodedLen(best) THEN p ELSE best

\* A mutant of ConsiderFast: the compressed form is compared with its plain
\* one only, and replaces the best when it is smaller than that.
ConsiderFastByItself(policy, choice, p) ==
  LET packed == Packed(policy, p)
  IN  IF policy.enable_zstd
         /\ ShouldCompress(choice.advisor, p.len, policy.min_zstd_payload)
         /\ packed.compressed
      THEN [advisor |-> ObserveCompression(choice.advisor, TRUE), best |-> packed]
      ELSE [choice EXCEPT !.best = Smaller(p, @)]

ConsiderFast(policy, choice, p) ==
  LET packed == Packed(policy, p)
  IN  IF policy.enable_zstd
         /\ ShouldCompress(choice.advisor, p.len, policy.min_zstd_payload)
      THEN [advisor |-> ObserveCompression(choice.advisor,
                          packed.compressed /\ EncodedLen(packed) < EncodedLen(p)),
            best    |-> IF packed.compressed THEN Smaller(packed, Smaller(p, choice.best))
                        ELSE Smaller(p, choice.best)]
      ELSE [choice EXCEPT !.best = Smaller(p, @)]

\* deltas gives the packet of every kind that can express the change.
FastChoice(policy, advisor, profile, snapshot, deltas) ==
  LET kinds  == Shortlist(advisor, profile)
      choice == FoldLeft(LAMBDA c, kind : ConsiderFast(policy, c, deltas[kind]),
                         [advisor |-> advisor, best |-> snapshot], kinds)
  IN  [choice EXCEPT !.advisor =
         IF choice.best.kind = "Snapshot" THEN ObserveNoDelta(@)
         ELSE ObserveWinner(@, choice.best.kind)]

\* The first update: a snapshot, compressed when that is smaller.
FastFirst(policy, snapshot) ==
  IF policy.enable_zstd /\ snapshot.len >= policy.min_zstd_payload
  THEN Smaller(Packed(policy, snapshot), snapshot) ELSE snapshot
-----------------------------------------------------------------------------
(***************************************************************************)
(* What the choices guarantee.                                             *)
(***************************************************************************)
\* encode_candidate refuses a same-length kind for states of two lengths.
Encodable(kind, profile) == kind \in AnyLengthKinds \/ ~profile.resized

\* At most two families are tried, each able to express the change, and the
\* packet sent is no larger than the snapshot or any family tried.
FastChoiceSound(policy, advisor, profile, snapshot, deltas) ==
  LET kinds == Shortlist(advisor, profile)
      sent  == FastChoice(policy, advisor, profile, snapshot, deltas).best
  IN  /\ Len(kinds) \in 1..2
      /\ \A i \in DOMAIN kinds : Encodable(kinds[i], profile)
      /\ EncodedLen(sent) <= EncodedLen(snapshot)
      /\ \A i \in DOMAIN kinds : EncodedLen(sent) <= EncodedLen(deltas[kinds[i]])
      /\ sent.kind \in {"Snapshot"} \cup Range(kinds)
      /\ EncodedLen(FastFirst(policy, snapshot)) <= EncodedLen(snapshot)

\* The packet sent costs no more than the snapshot or any family, with the
\* penalty for compression, whatever the tuner has tried.
ByteChoiceSound(policy, tuner, snapshot, deltas) ==
  LET choice == ByteChoice(policy, tuner, snapshot, deltas)
  IN  /\ choice.score = Score(policy, choice.best)
      /\ \A p \in Range(<<snapshot>> \o deltas) : choice.score <= EncodedLen(p)
=============================================================================
