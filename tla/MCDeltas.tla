------------------------------- MODULE MCDeltas -------------------------------
(***************************************************************************)
(* What is computed from one update and the one before it (StateUpdates);  *)
(* how it is written (Payloads); the choice among what was computed        *)
(* (EncoderLearning); and the packets that carry it (Wire).                *)
(***************************************************************************)
EXTENDS StateUpdates, Payloads, EncoderLearning, Wire

MCPlainZero(v) == IF v = "-0.0" THEN "0.0" ELSE v

MCText == {<<>>, <<1>>}

\* == of f32: no NaN equals anything, and the zeros are equal.
MCFloatEqual(x, y) == x # "nan" /\ (x = y \/ {x, y} = {"zero", "negative zero"})

MCBystanders == {<<>>, <<0, 1>>, <<1, 1, 1>>}

MCFieldOrder == <<"status", "progress", "tokens", "cpu_percent", "task">>

\* Groups of three bits leave one bit of a width of four to the last group,
\* as groups of seven do of 64, and two of a width of five, as of 128.
MCNumbers == -16..31

\* The sum of symbols in 0..7 sees damage in one place, as crc32 does, and
\* not every other.
MCChecksum(payload) == FoldLeft(LAMBDA sum, symbol : sum + symbol, 0, payload) % 8

MCKnownFlag(flags) == flags \in {0, 1}

MCPackets == [kind : {1, 2}, flags : 0..2, sequence : {5}, base_sequence : {4},
              base_hash : {0}, schema_hash : {6},
              payload : UNION {[1..n -> {0, 1}] : n \in 0..3}]

Sized(k) == [kind : {k}, len : 0..4, zstd : 0..4, compressed : {FALSE}]

MCAdaptivePolicies ==
  [min_delta_savings_bytes : {0, 2}, max_delta_ratio : {<<1, 1>>, <<3, 4>>},
   enable_zstd : BOOLEAN, min_compression_savings_bytes : {0, 1},
   compression_cpu_penalty_bytes : {0, 2}]

\* zstd is worth something to a policy without a penalty, and not to one
\* with a penalty.
MCEncoderPolicies ==
  [enable_zstd : {TRUE}, min_compression_savings_bytes : {0},
   compression_cpu_penalty_bytes : {0, 2}, min_zstd_payload : {2}]

\* A profile for every rule of the shortlist.
MCProfiles == {Analyze(old, new) : old \in {<<0, 0, 0, 0>>},
               new \in {<<1, 0, 0, 0>>, <<1, 1, 0, 0>>, <<1, 0, 1, 0>>, <<0, 0>>}}

MCPlainDeltas == Sized("Delta")

Small == {p \in Sized("Delta") : p.len \in {1, 4} /\ p.zstd \in {0, 2, 4}}

MCSnapshots ==
  [k \in EncoderKinds |->
     IF k = "adaptive" THEN Sized("Snapshot")
     ELSE {[kind |-> "Snapshot", len |-> 2, zstd |-> 2, compressed |-> FALSE]}]

\* Packets of every kind, of two sizes: those of three of the kinds and the
\* others.
MCOffers == {[k \in SmartKinds |-> IF k \in {"Sparse", "Splice", "Xor"}
                                   THEN [p EXCEPT !.kind = k] ELSE [q EXCEPT !.kind = k]] :
             p \in Small, q \in Small}

MCFamilies == {<<p, q>> : p \in Small, q \in Small}

\* One-bit bytes: all the code does with a byte is compare and xor it.
MCXor(a, b) == IF a = b THEN 0 ELSE 1
MCHashOf(bytes) == <<"fnv1a64", bytes>>

UpdatesIdle == kind = "none" /\ previous = "none" /\ current = "none"
PayloadsIdle == subject = "none" /\ earlier = "none" /\ latest = "none"
LearningIdle ==
  encoder = "none" /\ offered = "none" /\ memory = NewAdvisor /\ narrow = 0 /\ tuning = NewTuner
WireIdle == written = Refused /\ wire = <<>> /\ damaged = FALSE

\* A run is one of four parts, and what the others are about stays out of it.
Init ==
  \/ UpdatesInit /\ PayloadsIdle /\ LearningIdle /\ WireIdle
  \/ PayloadsInit /\ UpdatesIdle /\ LearningIdle /\ WireIdle
  \/ LearningInit /\ UpdatesIdle /\ PayloadsIdle /\ WireIdle
  \/ WireInit /\ UpdatesIdle /\ PayloadsIdle /\ LearningIdle

Next ==
  \/ UpdateState /\ UNCHANGED <<payloadVars, learningVars, wireVars>>
  \/ WriteNext /\ UNCHANGED <<updateVars, learningVars, wireVars>>
  \/ LearningNext /\ UNCHANGED <<updateVars, payloadVars, wireVars>>
  \/ written # Refused /\ WireNext /\ UNCHANGED <<updateVars, payloadVars, learningVars>>

Spec == Init /\ [][Next]_<<updateVars, payloadVars, learningVars, wireVars>>
=============================================================================
