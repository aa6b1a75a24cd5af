------------------------------ MODULE StateSync ------------------------------
(***************************************************************************)
(* One Publisher and its Subscribers (src/sync.rs GenericEncoder and       *)
(* GenericDecoder behind src/api.rs) over a network that may lose,         *)
(* duplicate, delay and reorder packets: net[c] holds every packet ever    *)
(* sent towards c, and a client may receive any of them at any time, any   *)
(* number of times, or never.                                              *)
(*                                                                         *)
(* log and burnt are history variables: log[n] is the state the            *)
(* application handed to the publisher under sequence n (log[0] the one it *)
(* started from) and burnt the sequences whose update failed after the     *)
(* sequence was taken, so that no client was sent a packet for them.       *)
(***************************************************************************)
EXTENDS Decoder, FiniteSets

CONSTANTS Clients,
          Config,           \* Config[c]: the schema and the limit of client c
          PublisherSchema,
          MaxSequence,      \* bound on the number of updates
          MaxFailures       \* bound on the updates that fail

ASSUME MaxSequenceAssumption == MaxSequence \in Nat /\ MaxFailures \in Nat

VARIABLES sequence,    \* GenericEncoder::sequence
          last_state,  \* GenericEncoder::last_state
          log, burnt,
          net,
          dec          \* dec[c]: the GenericDecoder of client c

vars == <<sequence, last_state, log, burnt, net, dec>>

\* What a client of its own schema version may show for a published state.
View(c, s) ==
  IF Config[c].schema = PublisherSchema THEN Like[s]
  ELSE {Migrate(PublisherSchema, Config[c].schema, s)}

Init ==
  /\ sequence = 0
  /\ last_state = None
  /\ log \in [0..0 -> State]
  /\ burnt = {}
  /\ net = [c \in Clients |-> {}]
  /\ dec = [c \in Clients |-> EmptyDecoder]
-----------------------------------------------------------------------------
(***************************************************************************)
(* The publisher.                                                          *)
(***************************************************************************)
\* sequence.saturating_add(1), below saturation, for an update to state s.
TakeSequence(s) ==
  /\ sequence < MaxSequence
  /\ sequence' = sequence + 1
  /\ log' = [i \in 0..(sequence + 1) |-> IF i = sequence + 1 THEN s ELSE log[i]]

\* The policy weighs the snapshot against the delta from last_state; the
\* first packet is a snapshot.
Candidates(s) ==
  {SnapshotPacket(sequence + 1, PublisherSchema, s)} \cup
  (IF last_state = None THEN {}
   ELSE {DeltaPacket(sequence + 1, PublisherSchema, last_state, s)})

Broadcast(p) == net' = [c \in Clients |-> net[c] \cup {p}]

Encode(s) ==
  /\ TakeSequence(s)
  /\ \E p \in Candidates(s) : Broadcast(p)
  /\ last_state' = s
  /\ UNCHANGED <<burnt, dec>>

ForceSnapshot(s) ==
  /\ TakeSequence(s)
  /\ Broadcast(SnapshotPacket(sequence + 1, PublisherSchema, s))
  /\ last_state' = s
  /\ UNCHANGED <<burnt, dec>>

(***************************************************************************)
(* An update that fails after its sequence was taken: while the candidates *)
(* are built (encode leaves last_state alone), in the policy of            *)
(* force_snapshot or in to_bytes (last_state already moved on).            *)
(***************************************************************************)
FailedUpdate(s) ==
  /\ Cardinality(burnt) < MaxFailures
  /\ TakeSequence(s)
  /\ burnt' = burnt \cup {sequence + 1}
  /\ last_state' \in {last_state, s}
  /\ UNCHANGED <<net, dec>>

\* A mutant of RecoverySnapshot: the recovery takes a sequence of its own.
RecoverySnapshotAdvancing(c) ==
  /\ TakeSequence(log[sequence])
  /\ net' = [net EXCEPT ![c] = @ \cup
               {SnapshotPacket(sequence + 1, PublisherSchema, log[sequence])}]
  /\ UNCHANGED <<last_state, burnt, dec>>

\* A recovery snapshot of the application's current state, for one client.
RecoverySnapshot(c) ==
  /\ net' = [net EXCEPT ![c] = @ \cup
               {SnapshotPacket(sequence, PublisherSchema, log[sequence])}]
  /\ UNCHANGED <<sequence, last_state, log, burnt, dec>>
-----------------------------------------------------------------------------
(***************************************************************************)
(* The clients: apply (or receive), apply_with_migrations and reset.       *)
(***************************************************************************)
Receive(c) ==
  /\ \E p \in net[c] : dec' = [dec EXCEPT ![c] = Apply(@, Config[c], p)]
  /\ UNCHANGED <<sequence, last_state, log, burnt, net>>

ReceiveMigrating(c) ==
  /\ \E p \in net[c] : dec' = [dec EXCEPT ![c] = ApplyMigrating(@, Config[c], p)]
  /\ UNCHANGED <<sequence, last_state, log, burnt, net>>

\* A mutant of Reset: the replay window survives.
ResetKeepingWindow(c) ==
  /\ dec' = [dec EXCEPT ![c] = [EmptyDecoder EXCEPT !.seen = dec[c].seen]]
  /\ UNCHANGED <<sequence, last_state, log, burnt, net>>

\* reset clears the sequence, the state and the replay window.
Reset(c) ==
  /\ dec' = [dec EXCEPT ![c] = EmptyDecoder]
  /\ UNCHANGED <<sequence, last_state, log, burnt, net>>

Next ==
  \/ \E s \in State : Encode(s) \/ ForceSnapshot(s) \/ FailedUpdate(s)
  \/ \E c \in Clients :
       RecoverySnapshot(c) \/ Receive(c) \/ ReceiveMigrating(c) \/ Reset(c)

Spec == Init /\ [][Next]_vars
-----------------------------------------------------------------------------
(***************************************************************************)
(* Types.                                                                  *)
(***************************************************************************)
Packets ==
  [kind : {"Snapshot", "Delta"}, sequence : 0..sequence,
   base_sequence : 0..sequence, base_hash : {Hash(s) : s \in State},
   schema_hash : {PublisherSchema},
   payload : State \cup {Diff(s, t) : s, t \in State}]

\* All that a client may ever show.
Views == UNION {View(c, s) : c \in Clients, s \in State}

Decoders ==
  [sequence : 0..sequence \cup {None},
   state : Views \cup {None},
   seen : Seq(0..sequence)]

\* Type invariant: packets and decoders never name a sequence the publisher
\* has not reached, and a replay window never exceeds its capacity.
TypeOK ==
  /\ sequence \in 0..MaxSequence
  /\ last_state \in State \cup {None}
  /\ log \in [0..sequence -> State]
  /\ burnt \subseteq 1..sequence
  /\ net \in [Clients -> SUBSET Packets]
  /\ dec \in [Clients -> Decoders]
  /\ \A c \in Clients : Len(dec[c].seen) <= WindowCapacity
-----------------------------------------------------------------------------
(***************************************************************************)
(* Properties.                                                             *)
(***************************************************************************)
\* A client that holds sequence n holds the state published under n (in its
\* own schema, up to the signs of zeros), whatever was lost, repeated,
\* reordered, failed half-way or recovered in between: deviations do not add
\* up.  This is what the base sequence and base hash tests of apply_packet
\* are for.
Consistency ==
  \A c \in Clients :
    IF dec[c].sequence = None THEN dec[c].state = None
    ELSE dec[c].state \in View(c, log[dec[c].sequence])

\* apply_packet answers Duplicate only for a packet that is not newer than
\* the state the client holds: no packet that could move the client forward
\* is dismissed because its sequence lingers in the replay window.
DuplicateIsStale ==
  \A c \in Clients : \A p \in net[c] :
    Outcome(dec[c], Config[c], p) = "Duplicate" =>
      dec[c].sequence # None /\ p.sequence <= dec[c].sequence

\* One client's recovery leaves no gap for the others: a client that speaks
\* the publisher's schema and holds, bit for bit, the state published under n
\* is sent a packet for n + 1 that it takes without recovery if the payload
\* is within its limit, unless one of the two updates failed.
NextPacketFits ==
  \A c \in Clients :
    LET n == dec[c].sequence IN
    ( /\ n # None
      /\ n < sequence
      /\ {n, n + 1} \cap burnt = {}
      /\ n > 0
      /\ Config[c].schema = PublisherSchema
      /\ dec[c].state = log[n] )
    => \E p \in net[c] :
         /\ p.sequence = n + 1
         /\ \/ Outcome(dec[c], Config[c], p) = "Applied"
            \/ Size(p.payload) > Config[c].limit

(***************************************************************************)
(* The inductive invariant behind Consistency.                             *)
(***************************************************************************)
\* p carries state s: whole, or as a delta from some state whose hash it
\* names.  The base need not be the state of the sequence before, because a
\* failed update leaves last_state behind while the sequence moves on.
Carries(p, s) ==
  \/ p = SnapshotPacket(p.sequence, PublisherSchema, s)
  \/ /\ p.sequence # 0
     /\ \E base \in State : p = DeltaPacket(p.sequence, PublisherSchema, base, s)

\* Every packet in flight carries the state published under its sequence.
PacketsCarryLog ==
  \A c \in Clients : \A p \in net[c] :
    p.sequence \in 0..sequence /\ Carries(p, log[p.sequence])

\* The replay window of a decoder at sequence n holds n and nothing newer;
\* a decoder without a state has an empty one.
WindowInvariant ==
  \A c \in Clients :
    IF dec[c].sequence = None THEN dec[c].seen = <<>>
    ELSE /\ InWindow(dec[c].seen, dec[c].sequence)
         /\ \A i \in 1..Len(dec[c].seen) : dec[c].seen[i] <= dec[c].sequence

InductiveInvariant ==
  TypeOK /\ PacketsCarryLog /\ WindowInvariant /\ Consistency

\* Behind NextPacketFits: every client was sent, for every update that did
\* not fail, a snapshot or a delta from the update before.
GaplessStream ==
  /\ sequence # 0 /\ sequence \notin burnt => last_state = log[sequence]
  /\ \A c \in Clients : \A n \in 1..sequence :
       n \notin burnt =>
         \E p \in net[c] :
           /\ p.sequence = n
           /\ \/ p.kind = "Snapshot"
              \/ n # 1 /\ n - 1 \notin burnt => p.base_hash = Hash(log[n - 1])

(***************************************************************************)
(* The publisher and the clients implement AuthoritativeStream.            *)
(***************************************************************************)
ViewOf(c) ==
  IF dec[c].sequence = None THEN None
  ELSE [index |-> dec[c].sequence, state |-> dec[c].state]

Abstract == INSTANCE AuthoritativeStream WITH
              Shown <- View, history <- log, view <- [c \in Clients |-> ViewOf(c)]

\* Every client's view passes for an entry of the published history and only
\* moves forward in it, except by reset.
ImplementsStream == Abstract!Spec
=============================================================================
