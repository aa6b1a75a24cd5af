--------------------------- MODULE RecoveryPlanning ---------------------------
(***************************************************************************)
(* A publisher that records what it publishes and plans recoveries from    *)
(* it: an Encoder (src/sync.rs) and a RecoveryHistory side by side, as in  *)
(* the sessions and simulations of the crate.  plan_recovery               *)
(* (src/recovery_v30.rs) weighs the history's plan against a repair of the *)
(* receiver's bytes.  The properties are about every plan the publisher    *)
(* could make now, for a client at any sequence.                           *)
(***************************************************************************)
EXTENDS RecoveryHistory, PartialRepair

CONSTANTS Schema,       \* agent_schema_hash()
          Limit,        \* decode_config.limit of the receivers
          MaxSequence   \* bound on the number of updates

ASSUME MaxSequenceAssumption == MaxSequence \in Nat

\* Receivers are set up for the payloads they are sent.
ASSUME LimitAssumption ==
  /\ Limit \in Nat
  /\ \A s, t \in State : Size(s) <= Limit /\ Size(Diff(s, t)) <= Limit

VARIABLES sequence, last_state,   \* the Encoder
          log,                    \* log[n]: the state given under sequence n
          burnt,                  \* sequences whose encode failed
          history                 \* the RecoveryHistory

vars == <<sequence, last_state, log, burnt, history>>

Init ==
  /\ sequence = 0
  /\ last_state = None
  /\ log \in [0..0 -> State]
  /\ burnt = {}
  /\ history = EmptyHistory

TakeSequence(s) ==
  /\ sequence < MaxSequence
  /\ sequence' = sequence + 1
  /\ log' = [n \in 0..(sequence + 1) |-> IF n = sequence + 1 THEN s ELSE log[n]]

\* The packets the policy may select.
Candidates(s) ==
  {SnapshotPacket(sequence + 1, Schema, s)} \cup
  (IF last_state = None THEN {}
   ELSE {DeltaPacket(sequence + 1, Schema, last_state, s)})

\* An update published and recorded.
Update(s) ==
  /\ TakeSequence(s)
  /\ \E p \in Candidates(s) : history' = RecordPacket(history, p)
  /\ last_state' = s
  /\ UNCHANGED burnt

\* An update encoded but not recorded, because publishing it failed.
UnrecordedUpdate(s) ==
  /\ TakeSequence(s)
  /\ last_state' = s
  /\ UNCHANGED <<burnt, history>>

\* An update whose encoding failed after it took a sequence.
FailedUpdate(s) ==
  /\ TakeSequence(s)
  /\ burnt' = burnt \cup {sequence + 1}
  /\ UNCHANGED <<last_state, history>>

Next == \E s \in State : Update(s) \/ UnrecordedUpdate(s) \/ FailedUpdate(s)

Spec == Init /\ [][Next]_vars
-----------------------------------------------------------------------------
\* A mutant of PlanV30: the repair is weighed against the snapshot only.
PlanV30SnapshotOnly(h, n, receiver, authoritative, snapshot, size) ==
  LET packets == Plan(h, n, snapshot)
      repair  == BuildRepair(receiver, authoritative, size)
  IN  IF receiver # None /\ PayloadBytes(repair) < EncodedLen(snapshot)
      THEN [packets |-> <<>>, repair |-> repair]
      ELSE [packets |-> packets, repair |-> None]

\* plan_recovery: a replay or snapshot, or a repair that costs less.
PlanV30(h, n, receiver, authoritative, snapshot, size) ==
  LET packets == Plan(h, n, snapshot)
      repair  == BuildRepair(receiver, authoritative, size)
  IN  IF receiver # None /\ PayloadBytes(repair) < TotalLen(packets)
      THEN [packets |-> <<>>, repair |-> repair]
      ELSE [packets |-> packets, repair |-> None]

EstimatedBytes(plan) ==
  IF plan.repair = None THEN TotalLen(plan.packets) ELSE PayloadBytes(plan.repair)
-----------------------------------------------------------------------------
RecoverySnapshot == SnapshotPacket(sequence, Schema, log[sequence])

Config == [schema |-> Schema, limit |-> Limit]

\* The decoders of clients at sequence n, which may hold whatever passes for
\* the state given under it: deltas do not tell the signs of zeros, and a
\* recovery snapshot may be taken at a burnt sequence.
DecodersAt(n) ==
  IF n = None THEN {EmptyDecoder}
  ELSE {[sequence |-> n, state |-> s, seen |-> <<n>>] : s \in Like[log[n]]}

\* A decoder that does not hold, bit for bit, a state published: the base
\* hash of the next delta may be that of another.
Diverged(d) == d.sequence \in burnt \/ d.state # log[d.sequence]

\* A decoder after the packets of a plan.
Follow(d, packets) == FoldLeft(LAMBDA e, p : Apply(e, Config, p), d, packets)

\* Type invariant: the two bounds of the history hold, and its byte counter
\* is the total of what it retains however packets were evicted.
TypeOK ==
  /\ sequence \in 0..MaxSequence
  /\ last_state \in State \cup {None}
  /\ log \in [0..sequence -> State]
  /\ burnt \subseteq 1..sequence
  /\ Len(history.packets) <= MaxPackets
  /\ history.bytes <= MaxBytes
  /\ history.bytes = TotalLen(history.packets)

\* Receivers whose bytes the publisher knows may hold anything.
Receivers == State \cup {<<>>}

\* Whatever was evicted, lost before it was recorded, or sent as a snapshot,
\* a plan brings a client at any sequence, or none, to the publisher's
\* sequence and state (up to the signs of zeros, the client's or a delta's).
\* The one exception is a replay that comes upon a client that diverged,
\* which stays there; it never misleads the client.  A repair brings the
\* bytes it was made for, published or not, to the publisher's state.
PlanRestores ==
  \A n \in 0..sequence \cup {None} :
    LET replay == Plan(history, n, RecoverySnapshot) IN
    /\ \A client \in DecodersAt(n) :
         LET d == Follow(client, replay)
         IN  /\ d.state \in Like[log[d.sequence]]
             /\ \/ d.sequence = sequence
                \/ replay # <<RecoverySnapshot>> /\ Diverged(d)
    /\ \A bytes \in Receivers, size \in 0..2 :
         LET plan == PlanV30(history, n, bytes, log[sequence], RecoverySnapshot, size)
         IN  \/ plan.repair = None /\ plan.packets = replay
             \/ ApplyRepair(bytes, plan.repair) = log[sequence]

\* A plan never costs more than the snapshot, a replay is only packets the
\* client lacks, a repair never costs more than the replay it is sent
\* instead of, and only the packets evicted, lost or published as snapshots
\* make a plan fall back: a retained unbroken run of deltas cheaper than the
\* snapshot is replayed.
PlanIsCheapest ==
  \A n \in 0..sequence :
    LET plan == Plan(history, n, RecoverySnapshot)
    IN  /\ TotalLen(plan) <= EncodedLen(RecoverySnapshot)
        /\ plan # <<RecoverySnapshot>> => Len(plan) = sequence - n
        /\ \A bytes \in Receivers \cup {None} :
             EstimatedBytes(PlanV30(history, n, bytes, log[sequence], RecoverySnapshot, 2))
               <= TotalLen(plan)
        /\ ( /\ n < sequence
             /\ \A m \in (n + 1)..sequence :
                  \E i \in 1..Len(history.packets) :
                    history.packets[i].sequence = m /\ history.packets[i].kind = "Delta"
             /\ TotalLen(Missing(history, n, RecoverySnapshot)) < EncodedLen(RecoverySnapshot) )
           => plan # <<RecoverySnapshot>>
=============================================================================
