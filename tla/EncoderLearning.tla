---------------------------- MODULE EncoderLearning ----------------------------
(***************************************************************************)
(* The encoders over a run of updates: Encoder with its AdaptivePolicy     *)
(* (src/adaptive.rs), FastByteStateEncoder, which keeps a StrategyAdvisor, *)
(* and ByteStateEncoder, which keeps an AdaptiveTuner.  An update offers   *)
(* the plain snapshot and the deltas of its state, as packets reduced to   *)
(* their sizes; what is sent moves what the encoder has learned.           *)
(***************************************************************************)
EXTENDS ByteEncoders

CONSTANTS AdaptivePolicies,   \* of Encoder
          EncoderPolicies,    \* of the byte encoders
          Snapshots,          \* [EncoderKinds -> sets of plain snapshots]
          PlainDeltas,        \* of Encoder
          Offers,             \* for the fast encoder: a plain delta of each kind
          Families,           \* for the byte encoder: sequences of plain deltas
          Profiles,           \* shapes of a change
          MaxAttempts         \* bound on the compressions counted

EncoderKinds == {"adaptive", "advised", "tuned"}

PolicyOK(policy) ==
  /\ policy.enable_zstd \in BOOLEAN
  /\ policy.min_compression_savings_bytes \in Nat
  /\ policy.compression_cpu_penalty_bytes \in Nat

\* Packets before anything was compressed.
Plain == {p \in [kind : SmartKinds \cup {"Snapshot", "Delta"}, len : Nat, zstd : Nat,
                 compressed : BOOLEAN] : ~p.compressed}

ASSUME EncoderPoliciesAssumption ==
  /\ HeaderLen \in Nat
  /\ \A policy \in AdaptivePolicies :
       PolicyOK(policy) /\ policy.min_delta_savings_bytes \in Nat
  /\ \A policy \in EncoderPolicies : PolicyOK(policy)

ASSUME OffersAssumption ==
  /\ \A k \in EncoderKinds : \A p \in Snapshots[k] : p \in Plain /\ p.kind = "Snapshot"
  /\ PlainDeltas \subseteq Plain
  /\ \A offer \in Offers, k \in SmartKinds : offer[k] \in Plain /\ offer[k].kind = k
  /\ \A deltas \in Families : deltas \in Seq(Plain)
  /\ \A profile \in Profiles : profile.resized \in BOOLEAN

\* The defaults explore; the thresholds of the tuner are in order.
ASSUME LearningAssumption ==
  /\ ExploreEvery \in Nat \ {0} /\ MinWinners \in Nat \ {0}
  /\ TunerFloor \in Nat /\ TunerCeiling \in Nat
  /\ TunerStart \in TunerFloor..TunerCeiling

VARIABLES encoder,   \* which of the encoders
          offered,   \* the snapshot of the update at hand
          memory,    \* the advisor
          narrow,    \* updates in a row for which it tried one family only
          tuning     \* the tuner

learningVars == <<encoder, offered, memory, narrow, tuning>>

LearningInit ==
  /\ encoder \in EncoderKinds
  /\ offered \in Snapshots[encoder]
  /\ memory = NewAdvisor
  /\ narrow = 0
  /\ tuning = NewTuner

\* select of AdaptivePolicy learns nothing.
AdaptiveUpdate ==
  /\ encoder = "adaptive"
  /\ offered' \in Snapshots["adaptive"]
  /\ UNCHANGED <<encoder, memory, narrow, tuning>>

\* FastByteStateEncoder::encode after the first update, which learns nothing.
AdvisedUpdate ==
  /\ encoder = "advised"
  /\ \E policy \in EncoderPolicies, profile \in Profiles, offer \in Offers :
       /\ memory' = FastChoice(policy, memory, profile, offered, offer).advisor
       /\ narrow' = IF Len(Shortlist(memory, profile)) = 1 THEN narrow + 1 ELSE 0
  /\ memory'.attempts <= MaxAttempts
  /\ offered' \in Snapshots["advised"]
  /\ UNCHANGED <<encoder, tuning>>

\* ByteStateEncoder::encode.
TunedUpdate ==
  /\ encoder = "tuned"
  /\ \E policy \in EncoderPolicies, deltas \in Families :
       tuning' = ByteChoice(policy, tuning, offered, deltas).tuner
  /\ offered' \in Snapshots["tuned"]
  /\ UNCHANGED <<encoder, memory, narrow>>

LearningNext == AdaptiveUpdate \/ AdvisedUpdate \/ TunedUpdate

LearningSpec == LearningInit /\ [][LearningNext]_learningVars
-----------------------------------------------------------------------------
\* Whatever the policy, offering it a delta is never a loss (src/adaptive.rs).
DeltaNeverCosts ==
  encoder = "adaptive" =>
    \A policy \in AdaptivePolicies, delta \in PlainDeltas : NeverWorse(policy, offered, delta)

\* Whatever the byte encoders have learned, they try what can express the
\* change, at most two families in the fast encoder, and send nothing larger
\* than the snapshot or what they tried (src/byte_sync.rs, src/v30_sync.rs).
EncodersChooseWell ==
  /\ encoder = "advised" =>
       \A policy \in EncoderPolicies, profile \in Profiles, offer \in Offers :
         FastChoiceSound(policy, memory, profile, offered, offer)
  /\ encoder = "tuned" =>
       \A policy \in EncoderPolicies, deltas \in Families :
         ByteChoiceSound(policy, tuning, offered, deltas)

\* No streak of wins closes the choice for good: fewer than explore_every
\* updates in a row try one family only (src/fast_selector.rs), and payloads
\* as large as the ceiling are always tried compressed (src/smart_delta.rs).
LearningStaysOpen ==
  /\ narrow < ExploreEvery
  /\ ShouldTryZstd(tuning, TunerCeiling)
=============================================================================
