---------------------------- MODULE ReorderBuffer ----------------------------
(***************************************************************************)
(* What a ReorderDecoder (src/reorder.rs) does with a packet: a delta that *)
(* arrives too early waits in a bounded map from sequences to packets, and *)
(* waiting packets are drained as soon as the decoder reaches them.        *)
(***************************************************************************)
EXTENDS Decoder, FiniteSets, Functions

CONSTANTS MaxGap,      \* max_gap
          MaxPending   \* max_pending

ASSUME ReorderBoundsAssumption == MaxGap \in Nat \ {0} /\ MaxPending \in Nat \ {0}

\* A delta whose base the decoder has not reached.
Early(d, p) ==
  p.kind = "Delta" /\ d.sequence # None /\ d.sequence < p.base_sequence

\* A mutant of HasRoom: the widest gap is refused.
HasRoomShort(d, waiting, p) ==
  /\ p.base_sequence - d.sequence < MaxGap
  /\ Cardinality(DOMAIN waiting) < MaxPending

HasRoom(d, waiting, p) ==
  /\ p.base_sequence - d.sequence <= MaxGap
  /\ Cardinality(DOMAIN waiting) < MaxPending

\* A mutant of Keep: packets are filed under the sequence they follow.
KeepUnderBase(waiting, p) ==
  [n \in DOMAIN waiting \cup {p.base_sequence} |->
     IF n \in DOMAIN waiting THEN waiting[n] ELSE p]

\* An entry of the map is never overwritten.
Keep(waiting, p) ==
  [n \in DOMAIN waiting \cup {p.sequence} |->
     IF n \in DOMAIN waiting THEN waiting[n] ELSE p]

(***************************************************************************)
(* One turn of the loop that follows an applied packet: the packet after   *)
(* the decoder's sequence leaves the map whatever comes of it, and the     *)
(* loop goes on unless it needs a snapshot or is refused.  r is [decoder,  *)
(* waiting, answer].                                                       *)
(***************************************************************************)
DrainNext(config, r) ==
  LET next == r.decoder.sequence + 1 IN
  IF r.answer # "Applied" \/ next \notin DOMAIN r.waiting THEN r
  ELSE LET outcome == Outcome(r.decoder, config, r.waiting[next])
       IN  [decoder |-> Apply(r.decoder, config, r.waiting[next]),
            waiting |-> Restrict(r.waiting, DOMAIN r.waiting \ {next}),
            answer  |-> IF outcome = "Duplicate" THEN "Applied" ELSE outcome]

Applied(d, waiting) == [decoder |-> d, waiting |-> waiting, answer |-> "Applied"]

\* A mutant of Drain: one waiting packet is taken at most.
DrainOne(config, d, waiting) == DrainNext(config, Applied(d, waiting))

\* A mutant of Drain: the packet that waits is patched in unchecked.
DrainTrusting(config, d, waiting) ==
  LET next == d.sequence + 1
  IN  IF next \in DOMAIN waiting
      THEN Applied(Advance(d, config, waiting[next]), Restrict(waiting, DOMAIN waiting \ {next}))
      ELSE Applied(d, waiting)

\* The loop runs once per waiting packet at most.
Drain(config, d, waiting) ==
  LET turns == Cardinality(DOMAIN waiting)
      after[i \in 0..turns] ==
        IF i = 0 THEN Applied(d, waiting) ELSE DrainNext(config, after[i - 1])
  IN  after[turns]

(***************************************************************************)
(* ReorderDecoder::apply: an early delta is buffered or, when it does not  *)
(* fit, answered with NeedRecovery (here "NeedSnapshot"); anything else    *)
(* goes to the decoder.                                                    *)
(***************************************************************************)
ReorderApply(config, d, waiting, p) ==
  LET outcome == Outcome(d, config, p)
      kept(w, answer) == [decoder |-> d, waiting |-> w, answer |-> answer]
  IN  IF Early(d, p)
      THEN IF HasRoom(d, waiting, p) THEN kept(Keep(waiting, p), "Buffered")
           ELSE kept(waiting, "NeedSnapshot")
      ELSE IF outcome = "Applied" THEN Drain(config, Apply(d, config, p), waiting)
      ELSE kept(waiting, outcome)
=============================================================================
