------------------------------ MODULE ByteStream ------------------------------
(***************************************************************************)
(* A ByteStateEncoder (src/byte_sync.rs; FastByteStateEncoder of           *)
(* src/v30_sync.rs makes the same packets, from fewer candidates) and the  *)
(* decoders it feeds, when the publisher's process may crash and start     *)
(* again.  Nothing of a publisher is stored: every life starts from        *)
(* sequence 0 with no previous state, and the wire says nothing of lives.  *)
(*                                                                         *)
(* The network is that of StateSync.  With LateDelivery it may still hand  *)
(* out packets of a life that has ended.                                   *)
(*                                                                         *)
(* log, start and adopted are history variables: log is every state the    *)
(* application had the publisher number, through all lives, life l begins  *)
(* at log[start[l]], and adopted[c] is the life of the packet c applied    *)
(* last.                                                                   *)
(***************************************************************************)
EXTENDS ByteDecoder

CONSTANTS Clients, Schema, Limit,
          LateDelivery,
          MaxTop,       \* bound on the length of the log
          MaxLives      \* bound on the lives of the publisher

ASSUME ByteBoundsAssumption ==
  MaxTop \in Nat /\ MaxLives \in Nat \ {0} /\ LateDelivery \in BOOLEAN

VARIABLES life,
          sequence, previous,   \* the encoder
          log, start,
          net,                  \* net[c]: packets sent towards c, with their life
          dec, adopted

vars == <<life, sequence, previous, log, start, net, dec, adopted>>

Config == [schema |-> Schema, limit |-> Limit]

Init ==
  /\ life = 1
  /\ sequence = 0
  /\ previous = None
  /\ log \in [0..0 -> State]
  /\ start = [l \in {1} |-> 0]
  /\ net = [c \in Clients |-> {}]
  /\ dec = [c \in Clients |-> EmptyByteDecoder]
  /\ adopted = [c \in Clients |-> 1]

Top == start[life] + sequence

Sent(p) == [life |-> life, packet |-> p]

\* The publisher numbers one more state.
Extend(s) == log' = [i \in 0..(Top + 1) |-> IF i = Top + 1 THEN s ELSE log[i]]
-----------------------------------------------------------------------------
(***************************************************************************)
(* The publisher.                                                          *)
(***************************************************************************)
\* checked_add, below exhaustion.
TakeSequence(s) ==
  /\ Top < MaxTop
  /\ sequence' = sequence + 1
  /\ Extend(s)

\* The packets encode chooses from: the snapshot and, from the second update
\* on, one packet per delta family.
Candidates(s) ==
  {SnapshotPacket(sequence + 1, Schema, s)} \cup
  (IF previous = None THEN {}
   ELSE {ByteDeltaPacket(sequence + 1, Schema, previous, s, d) : d \in Deltas(previous, s)})

Encode(s) ==
  /\ TakeSequence(s)
  /\ \E p \in Candidates(s) : net' = [c \in Clients |-> net[c] \cup {Sent(p)}]
  /\ previous' = s
  /\ UNCHANGED <<life, start, dec, adopted>>

\* A candidate fails to compress after the sequence was taken: the previous
\* state stays.
FailedEncode(s) ==
  /\ TakeSequence(s)
  /\ UNCHANGED <<life, previous, start, net, dec, adopted>>

\* recovery_snapshot of the application's current state.
RecoverySnapshot(c) ==
  /\ net' = [net EXCEPT ![c] = @ \cup {Sent(SnapshotPacket(sequence, Schema, log[Top]))}]
  /\ UNCHANGED <<life, sequence, previous, log, start, dec, adopted>>

\* The process ends and another takes over, with a state of its own.
Restart(s) ==
  /\ life < MaxLives /\ Top < MaxTop
  /\ life' = life + 1
  /\ sequence' = 0
  /\ previous' = None
  /\ Extend(s)
  /\ start' = [l \in 1..(life + 1) |-> IF l = life + 1 THEN Top + 1 ELSE start[l]]
  /\ net' = IF LateDelivery THEN net ELSE [c \in Clients |-> {}]
  /\ UNCHANGED <<dec, adopted>>
-----------------------------------------------------------------------------
(***************************************************************************)
(* The clients.                                                            *)
(***************************************************************************)
Take(c, m) ==
  /\ dec' = [dec EXCEPT ![c] = ByteApply(@, Config, m.packet)]
  /\ adopted' = [adopted EXCEPT ![c] =
                   IF ByteOutcome(dec[c], Config, m.packet) = "Applied" THEN m.life ELSE @]
  /\ UNCHANGED <<life, sequence, previous, log, start, net>>

Receive(c) == \E m \in net[c] : Take(c, m)

\* A mutant of Reset: the state survives.
ResetSequence(c) ==
  /\ dec' = [dec EXCEPT ![c].sequence = None]
  /\ UNCHANGED <<life, sequence, previous, log, start, net, adopted>>

Reset(c) ==
  /\ dec' = [dec EXCEPT ![c] = EmptyByteDecoder]
  /\ UNCHANGED <<life, sequence, previous, log, start, net, adopted>>

Next ==
  \/ \E s \in State : Encode(s) \/ FailedEncode(s) \/ Restart(s)
  \/ \E c \in Clients : RecoverySnapshot(c) \/ Receive(c) \/ Reset(c)

Spec == Init /\ [][Next]_vars
-----------------------------------------------------------------------------
(***************************************************************************)
(* Properties.                                                             *)
(***************************************************************************)
\* The number of the last update of life l.
LastOf(l) == IF l = life THEN sequence ELSE start[l + 1] - 1 - start[l]

Packets ==
  [kind : {"Snapshot", "Delta"}, sequence : Nat, base_sequence : Nat,
   base_hash : {Hash(s) : s \in State}, schema_hash : {Schema},
   payload : State \cup UNION {Deltas(s, t) : s, t \in State}]

Decoders ==
  [sequence : Nat, state : State] \cup {EmptyByteDecoder}

\* Type invariant: lives lie one after the other in the log, and packets and
\* decoders name only lives and sequences that have been.
ByteTypeOK ==
  /\ life \in 1..MaxLives
  /\ sequence \in Nat /\ Top <= MaxTop
  /\ previous \in State \cup {None}
  /\ start \in [1..life -> Nat]
  /\ start[1] = 0
  /\ \A k, l \in 1..life : k < l => start[k] < start[l]
  /\ log \in [0..Top -> State]
  /\ net \in [Clients -> SUBSET [life : 1..life, packet : Packets]]
  /\ \A c \in Clients : \A m \in net[c] : m.packet.sequence <= LastOf(m.life)
  /\ dec \in [Clients -> Decoders]
  /\ adopted \in [Clients -> 1..life]
  /\ \A c \in Clients : dec[c].sequence # None => dec[c].sequence <= LastOf(adopted[c])

\* Where in the history a client stands.
Index(c) == start[adopted[c]] + dec[c].sequence

\* Through crashes, failed updates, late and repeated packets, a client at
\* sequence n shows exactly what some life of the publisher published under
\* n, the life its last packet came from: a delta of one life never lands on
\* a state of another that it was not computed from.
EntryShown ==
  \A c \in Clients : dec[c].sequence # None => dec[c].state = log[Index(c)]

\* "Old snapshot arriving after newer state must not roll state backward"
\* (edge_cases.rs): a client that does not reset moves back only when it is
\* given, after a restart, a packet of an earlier life.
ForwardUnlessLate ==
  [][\A c \in Clients :
       dec[c].sequence # None /\ dec'[c].sequence # None /\ dec'[c] # dec[c] =>
         Index(c) < Index(c)' \/ adopted'[c] < adopted[c]]_vars

(***************************************************************************)
(* The inductive invariant behind EntryShown.                              *)
(***************************************************************************)
ByteCarries(p, s) ==
  \/ p = SnapshotPacket(p.sequence, Schema, s)
  \/ \E base \in State : \E d \in Deltas(base, s) :
       p.sequence # 0 /\ p = ByteDeltaPacket(p.sequence, Schema, base, s, d)

ByteInvariant ==
  /\ ByteTypeOK
  /\ \A c \in Clients : \A m \in net[c] :
       ByteCarries(m.packet, log[start[m.life] + m.packet.sequence])
  /\ EntryShown

(***************************************************************************)
(* Where no packet outlives its publisher, all lives together are one      *)
(* AuthoritativeStream.                                                    *)
(***************************************************************************)
ViewOf(c) ==
  IF dec[c].sequence = None THEN None
  ELSE [index |-> Index(c), state |-> dec[c].state]

Same(c, s) == {s}

Abstract == INSTANCE AuthoritativeStream WITH
              Shown <- Same, history <- log, view <- [c \in Clients |-> ViewOf(c)]

ImplementsStream == Abstract!Spec

\* What it rests on: only packets of the present life are about.
NoLatePackets ==
  ~LateDelivery => \A c \in Clients : \A m \in net[c] : m.life = life
=============================================================================
