--------------------------- MODULE StateSyncProofs ---------------------------
(***************************************************************************)
(* Proofs about StateSync: its inductive invariant, for any set of         *)
(* clients, any states, any window capacity and any number of updates, and *)
(* that StateSync implements AuthoritativeStream; then the same of Reorder,*)
(* whose clients drain a buffer after every packet they apply.             *)
(***************************************************************************)
EXTENDS Reorder, DecoderProofs, FiniteSetTheorems

-----------------------------------------------------------------------------
(***************************************************************************)
(* The replay window.                                                      *)
(***************************************************************************)
\* With such a window the duplicate test is a comparison of sequences.
LEMMA StaleMeansNotNewer ==
  ASSUME TypeOK, WindowInvariant, NEW c \in Clients, NEW p, p.sequence \in Nat
  PROVE  Stale(dec[c], p) <=>
           dec[c].sequence # None /\ p.sequence <= dec[c].sequence
<1>1. dec[c].seen \in Seq(0..sequence) /\ dec[c].sequence \in 0..sequence \cup {None}
  BY DEF TypeOK, Decoders
<1>2. CASE dec[c].sequence = None
  <2>1. Len(dec[c].seen) = 0
    BY <1>2 DEF WindowInvariant
  <2>2. QED
    BY <1>2, <2>1 DEF Stale, InWindow
<1>3. CASE dec[c].sequence # None
  <2>1. /\ InWindow(dec[c].seen, dec[c].sequence)
        /\ \A i \in 1..Len(dec[c].seen) : dec[c].seen[i] <= dec[c].sequence
    BY <1>3 DEF WindowInvariant
  <2>2. dec[c].sequence \in Nat
    BY <1>1, <1>3 DEF TypeOK
  <2>3. QED
    BY <1>3, <2>1, <2>2 DEF Stale, InWindow
<1>4. QED
  BY <1>2, <1>3
-----------------------------------------------------------------------------
(***************************************************************************)
(* The inductive invariant.                                                *)
(***************************************************************************)
\* What a client may show is a constant of the stream.
LEMMA ViewsStay == Views' = Views
BY DEF Views, View

\* A step that changes nothing the invariant speaks of keeps it.
LEMMA StutterKeepsInvariant ==
  ASSUME InductiveInvariant, UNCHANGED vars
  PROVE  InductiveInvariant'
<1>1. Decoders' = Decoders /\ Packets' = Packets
  BY ViewsStay DEF Decoders, Packets, vars
<1>2. TypeOK'
  BY <1>1 DEF InductiveInvariant, TypeOK, vars
<1>3. Consistency'
  BY DEF InductiveInvariant, Consistency, View, vars
<1>. QED
  BY <1>2, <1>3 DEF vars, InductiveInvariant, PacketsCarryLog, WindowInvariant

\* The packets the publisher builds are well-typed and carry the state they
\* were built for.
LEMMA PacketsTyped ==
  ASSUME NEW n \in Nat, NEW top \in Nat, n <= top, NEW s \in State, NEW base \in State
  PROVE  /\ SnapshotPacket(n, PublisherSchema, s) \in
              [kind : {"Snapshot", "Delta"}, sequence : 0..top, base_sequence : 0..top,
               base_hash : {Hash(t) : t \in State}, schema_hash : {PublisherSchema},
               payload : State \cup {Diff(t, u) : t, u \in State}]
         /\ n # 0 => DeltaPacket(n, PublisherSchema, base, s) \in
              [kind : {"Snapshot", "Delta"}, sequence : 0..top, base_sequence : 0..top,
               base_hash : {Hash(t) : t \in State}, schema_hash : {PublisherSchema},
               payload : State \cup {Diff(t, u) : t, u \in State}]
BY DEF SnapshotPacket, DeltaPacket

LEMMA InitInductive == Init => InductiveInvariant
<1>1. SUFFICES ASSUME Init PROVE InductiveInvariant
  OBVIOUS
<1>2. \A c \in Clients :
        dec[c].sequence = None /\ dec[c].state = None /\ dec[c].seen = <<>>
  BY <1>1 DEF Init, EmptyDecoder
<1>3. /\ dec \in [Clients -> Decoders]
      /\ \A c \in Clients : Len(dec[c].seen) <= WindowCapacity
  <2>1. Len(<<>>) <= WindowCapacity /\ <<>> \in Seq(0..sequence)
    BY CapacityAssumption
  <2>2. EmptyDecoder \in Decoders
    BY <2>1 DEF EmptyDecoder, Decoders
  <2>3. QED
    BY <1>1, <1>2, <2>1, <2>2 DEF Init
<1>4. TypeOK
  BY <1>1, <1>3, MaxSequenceAssumption DEF Init, TypeOK
<1>5. QED
  BY <1>1, <1>2, <1>4
  DEF Init, InductiveInvariant, PacketsCarryLog, WindowInvariant, Consistency

\* What every step of the publisher does to the history.
LEMMA TakeSequenceExtendsLog ==
  ASSUME TypeOK, NEW s \in State, TakeSequence(s)
  PROVE  /\ sequence \in Nat
         /\ sequence' = sequence + 1
         /\ sequence' \in 0..MaxSequence
         /\ log' \in [0..sequence' -> State]
         /\ log'[sequence'] = s
         /\ \A n \in 0..sequence : log'[n] = log[n]
BY MaxSequenceAssumption DEF TypeOK, TakeSequence

\* Extending the history with s, and sending only packets that carry s under
\* the new sequence, keeps the invariant.
LEMMA PublishKeepsInvariant ==
  ASSUME InductiveInvariant, NEW s \in State, TakeSequence(s),
         UNCHANGED dec,
         last_state' \in State \cup {None}, burnt' \subseteq 1..sequence',
         net' \in [Clients -> SUBSET Packets'],
         \A c \in Clients : \A p \in net'[c] :
           p \in net[c] \/ (p.sequence = sequence' /\ Carries(p, s))
  PROVE  InductiveInvariant'
<1>1. /\ sequence \in Nat
      /\ sequence' = sequence + 1
      /\ sequence' \in 0..MaxSequence
      /\ log' \in [0..sequence' -> State]
      /\ log'[sequence'] = s
      /\ \A n \in 0..sequence : log'[n] = log[n]
  BY TakeSequenceExtendsLog DEF InductiveInvariant
<1>2. TypeOK'
  <2>1. 0..sequence \subseteq 0..sequence' /\ Seq(0..sequence) \subseteq Seq(0..sequence')
    BY <1>1
  <2>2. Decoders \subseteq Decoders'
    BY <2>1 DEF Decoders, View
  <2>3. QED
    BY <1>1, <2>2 DEF InductiveInvariant, TypeOK
<1>3. PacketsCarryLog'
  <2>1. SUFFICES ASSUME NEW c \in Clients, NEW p \in net'[c]
                 PROVE  p.sequence \in 0..sequence' /\ Carries(p, log'[p.sequence])
    BY DEF PacketsCarryLog, Carries
  <2>2. CASE p \in net[c]
    BY <1>1, <2>2 DEF InductiveInvariant, PacketsCarryLog
  <2>3. CASE p.sequence = sequence' /\ Carries(p, s)
    BY <1>1, <2>3
  <2>4. QED
    BY <2>2, <2>3
<1>4. WindowInvariant'
  BY DEF InductiveInvariant, WindowInvariant
<1>5. Consistency'
  BY <1>1 DEF InductiveInvariant, TypeOK, Decoders, Consistency, View
<1>6. QED
  BY <1>2, <1>3, <1>4, <1>5 DEF InductiveInvariant

\* Sending every client a packet that carries s does so too.
LEMMA BroadcastKeepsInvariant ==
  ASSUME InductiveInvariant, NEW s \in State, TakeSequence(s),
         UNCHANGED dec,
         last_state' \in State \cup {None}, burnt' = burnt,
         NEW p, Broadcast(p),
         p.sequence = sequence', Carries(p, s)
  PROVE  InductiveInvariant'
<1>1. sequence \in Nat /\ sequence' = sequence + 1
  BY TakeSequenceExtendsLog DEF InductiveInvariant
<1>2. p \in Packets'
  <2>1. CASE p = SnapshotPacket(p.sequence, PublisherSchema, s)
    BY <1>1, <2>1, PacketsTyped DEF Packets
  <2>2. CASE \E base \in State : p = DeltaPacket(p.sequence, PublisherSchema, base, s)
    BY <1>1, <2>2, PacketsTyped DEF Packets
  <2>3. QED
    BY <2>1, <2>2 DEF Carries
<1>3. /\ \A c \in Clients : net[c] \subseteq Packets
      /\ Packets \subseteq Packets'
  BY <1>1 DEF InductiveInvariant, TypeOK, Packets
<1>4. net' \in [Clients -> SUBSET Packets']
  BY <1>2, <1>3 DEF Broadcast
<1>5. \A c \in Clients : \A q \in net'[c] :
        q \in net[c] \/ (q.sequence = sequence' /\ Carries(q, s))
  BY DEF Broadcast
<1>6. burnt' \subseteq 1..sequence'
  BY <1>1 DEF InductiveInvariant, TypeOK
<1>7. QED
  BY <1>4, <1>5, <1>6, PublishKeepsInvariant

(***************************************************************************)
(* What the invariant says of one decoder: d is in order as client c's.    *)
(* The lemmas are about any such decoder, so that they hold of those in    *)
(* the middle of a step as well.                                           *)
(***************************************************************************)
InOrder(c, d) ==
  /\ d \in Decoders
  /\ Len(d.seen) <= WindowCapacity
  /\ WindowInOrder(d)
  /\ IF d.sequence = None THEN d.state = None
     ELSE d.state \in View(c, log[d.sequence])

LEMMA DecodersInOrder ==
  ASSUME InductiveInvariant, NEW c \in Clients
  PROVE  InOrder(c, dec[c])
BY DEF InductiveInvariant, TypeOK, WindowInvariant, Consistency, InOrder, WindowInOrder

LEMMA EmptyInOrder ==
  ASSUME NEW c \in Clients
  PROVE  InOrder(c, EmptyDecoder)
<1>1. Len(<<>>) <= WindowCapacity /\ <<>> \in Seq(0..sequence)
  BY CapacityAssumption
<1>. QED BY <1>1 DEF EmptyDecoder, InOrder, Decoders, WindowInOrder

\* An applied packet takes the decoder to the state published under its
\* sequence, or to one that passes for it.  For a delta this is where the base
\* hash matters: it makes the decoder's state, bit for bit, the delta's base.
LEMMA AppliedStateIsPublished ==
  ASSUME InductiveInvariant, NEW c \in Clients, NEW p \in net[c], NEW d, InOrder(c, d),
         \/ Outcome(d, Config[c], p) = "Applied"
         \/ MigratingOutcome(d, Config[c], p) = "Applied"
  PROVE  Resulting(d, Config[c], p) \in View(c, log[p.sequence])
<1>1. /\ p.sequence \in 0..sequence
      /\ log[p.sequence] \in State
      /\ p.schema_hash = PublisherSchema
      /\ Carries(p, log[p.sequence])
  BY DEF InductiveInvariant, PacketsCarryLog, TypeOK, Packets
<1>2. CASE p = SnapshotPacket(p.sequence, PublisherSchema, log[p.sequence])
  <2>1. p.kind = "Snapshot" /\ p.payload = log[p.sequence]
    BY <1>2 DEF SnapshotPacket
  <2>2. QED
    BY <1>1, <2>1, LikeItself DEF Resulting, View
<1>3. ASSUME NEW base \in State, p.sequence # 0,
             p = DeltaPacket(p.sequence, PublisherSchema, base, log[p.sequence])
      PROVE  Resulting(d, Config[c], p) \in View(c, log[p.sequence])
  <2>1. /\ p.kind = "Delta"
        /\ p.base_sequence = p.sequence - 1
        /\ p.base_hash = Hash(base)
        /\ p.payload = Diff(base, log[p.sequence])
    BY <1>3 DEF DeltaPacket
  <2>2. Config[c].schema = PublisherSchema /\ BaseMatches(d, p)
    BY <1>1, <2>1 DEF Outcome, MigratingOutcome
  <2>3. d.sequence # None
    <3>1. p.sequence - 1 \in Nat
      BY <1>1, <1>3 DEF InductiveInvariant, TypeOK
    <3>2. d.sequence = p.sequence - 1
      BY <2>1, <2>2 DEF BaseMatches
    <3>3. None \notin Nat
      BY NoneAssumption
    <3>4. QED
      BY <3>1, <3>2, <3>3
  <2>4. d.state \in State
    <3>1. d.sequence \in 0..sequence /\ log[d.sequence] \in State
      BY <2>3 DEF InductiveInvariant, InOrder, TypeOK, Decoders
    <3>. QED BY <2>2, <2>3, <3>1, LikeItself DEF InOrder, View
  <2>5. d.state = base
    BY <2>1, <2>2, <2>4, HashAssumption DEF BaseMatches
  <2>6. QED
    BY <1>1, <2>1, <2>2, <2>5, PatchAssumption DEF Resulting, View
<1>4. QED
  BY <1>1, <1>2, <1>3 DEF Carries

\* An applied packet is newer than the state the decoder holds, and leaves
\* the decoder in order.
LEMMA AdvanceInOrder ==
  ASSUME InductiveInvariant, NEW c \in Clients, NEW p \in net[c], NEW d, InOrder(c, d),
         \/ Outcome(d, Config[c], p) = "Applied"
         \/ MigratingOutcome(d, Config[c], p) = "Applied"
  PROVE  /\ InOrder(c, Advance(d, Config[c], p))
         /\ Advance(d, Config[c], p).sequence = p.sequence
         /\ p.sequence \in 0..sequence /\ p.sequence # None
         /\ d.sequence # None => d.sequence < p.sequence
<1>1. /\ sequence \in Nat
      /\ p.sequence \in 0..sequence
      /\ d.seen \in Seq(0..sequence) /\ d.seen \in Seq(Nat)
      /\ d.sequence \in 0..sequence \cup {None}
      /\ d.sequence \in Nat \cup {None}
  <2>1. sequence \in Nat /\ d \in Decoders
    BY DEF InductiveInvariant, TypeOK, InOrder
  <2>2. Seq(0..sequence) \subseteq Seq(Nat)
    BY <2>1
  <2>. QED BY <2>1, <2>2 DEF InductiveInvariant, PacketsCarryLog, Decoders
<1>2. ~Stale(d, p)
  BY DEF Outcome, MigratingOutcome
<1>. DEFINE e == Advance(d, Config[c], p)
<1>3. /\ e.sequence = p.sequence
      /\ e.seen \in Seq(0..sequence)
      /\ Len(e.seen) <= WindowCapacity
      /\ WindowInOrder(e)
  BY <1>1, <1>2, AdvanceKeepsWindow DEF InOrder
<1>4. /\ e.state \in View(c, log[p.sequence])
      /\ e = [sequence |-> e.sequence, state |-> e.state, seen |-> e.seen]
  BY AppliedStateIsPublished DEF Advance
<1>5. p.sequence # None /\ p.sequence \in Nat
  BY <1>1, NoneAssumption
<1>6. d.sequence # None => d.sequence < p.sequence
  BY <1>1, <1>2, <1>5, StaleComparesSequences DEF InOrder
<1>. HIDE DEF e
<1>7. InOrder(c, e)
  <2>1. log[p.sequence] \in State
    BY <1>1 DEF InductiveInvariant, TypeOK
  <2>2. e.state \in Views
    BY <1>4, <2>1 DEF Views
  <2>3. e \in Decoders
    BY <1>1, <1>3, <1>4, <2>2 DEF Decoders
  <2>. QED BY <1>3, <1>4, <1>5, <2>3 DEF InOrder
<1>. QED BY <1>1, <1>3, <1>5, <1>6, <1>7 DEF e

\* Giving one client a decoder that is in order keeps the invariant.
LEMMA OrderKeepsInvariant ==
  ASSUME InductiveInvariant, NEW c \in Clients, NEW d, InOrder(c, d),
         dec' = [dec EXCEPT ![c] = d],
         UNCHANGED <<sequence, last_state, log, burnt, net>>
  PROVE  InductiveInvariant'
<1>1. /\ dec'[c] = d
      /\ \A e \in Clients : e # c => dec'[e] = dec[e]
  BY DEF InductiveInvariant, TypeOK
<1>2. TypeOK'
  <2>1. Decoders' = Decoders
    BY DEF Decoders, View
  <2>2. dec' \in [Clients -> Decoders']
    BY <2>1 DEF InOrder, InductiveInvariant, TypeOK
  <2>3. \A e \in Clients : Len(dec'[e].seen) <= WindowCapacity
    BY <1>1 DEF InOrder, InductiveInvariant, TypeOK
  <2>4. QED
    BY <2>2, <2>3 DEF InductiveInvariant, TypeOK, Packets
<1>3. PacketsCarryLog'
  BY DEF InductiveInvariant, PacketsCarryLog
<1>4. WindowInvariant'
  BY <1>1 DEF InOrder, WindowInOrder, InductiveInvariant, WindowInvariant
<1>5. Consistency'
  BY <1>1 DEF InOrder, InductiveInvariant, Consistency, View
<1>6. QED
  BY <1>2, <1>3, <1>4, <1>5 DEF InductiveInvariant

LEMMA ResetKeepsInvariant ==
  ASSUME InductiveInvariant, NEW c \in Clients, Reset(c)
  PROVE  InductiveInvariant'
BY EmptyInOrder, OrderKeepsInvariant DEF Reset

\* Every step keeps the invariant.
LEMMA NextInductive == InductiveInvariant /\ [Next]_vars => InductiveInvariant'
<1>1. SUFFICES ASSUME InductiveInvariant, [Next]_vars
               PROVE  InductiveInvariant'
  OBVIOUS
<1>2. ASSUME NEW s \in State, Encode(s)
      PROVE  InductiveInvariant'
  <2>1. PICK p \in Candidates(s) : Broadcast(p)
    BY <1>2 DEF Encode
  <2>2. /\ TakeSequence(s)
        /\ UNCHANGED dec
        /\ last_state' \in State \cup {None}
        /\ burnt' = burnt
    BY <1>2 DEF Encode
  <2>3. sequence \in Nat /\ sequence' = sequence + 1
    BY <1>1, <2>2, TakeSequenceExtendsLog DEF InductiveInvariant
  <2>4. p.sequence = sequence' /\ Carries(p, s)
    <3>1. CASE p = SnapshotPacket(sequence + 1, PublisherSchema, s)
      BY <2>3, <3>1 DEF Carries, SnapshotPacket
    <3>2. CASE /\ last_state \in State
               /\ p = DeltaPacket(sequence + 1, PublisherSchema, last_state, s)
      BY <2>3, <3>2 DEF Carries, DeltaPacket
    <3>3. QED
      BY <1>1, <2>1, <3>1, <3>2 DEF Candidates, InductiveInvariant, TypeOK
  <2>5. QED
    BY <1>1, <2>1, <2>2, <2>4, BroadcastKeepsInvariant
<1>3. ASSUME NEW s \in State, ForceSnapshot(s)
      PROVE  InductiveInvariant'
  <2>. DEFINE p == SnapshotPacket(sequence + 1, PublisherSchema, s)
  <2>1. /\ TakeSequence(s)
        /\ UNCHANGED dec
        /\ last_state' \in State \cup {None}
        /\ burnt' = burnt
        /\ Broadcast(p)
    BY <1>3 DEF ForceSnapshot
  <2>2. p.sequence = sequence' /\ Carries(p, s)
    BY <1>1, <2>1, TakeSequenceExtendsLog DEF InductiveInvariant, Carries, SnapshotPacket
  <2>. HIDE DEF p
  <2>3. QED
    BY <1>1, <2>1, <2>2, BroadcastKeepsInvariant
<1>4. ASSUME NEW s \in State, FailedUpdate(s)
      PROVE  InductiveInvariant'
  <2>1. /\ TakeSequence(s)
        /\ UNCHANGED dec
        /\ burnt' = burnt \cup {sequence + 1}
        /\ last_state' \in State \cup {None}
        /\ net' = net
    BY <1>1, <1>4 DEF FailedUpdate, InductiveInvariant, TypeOK
  <2>2. sequence \in Nat /\ sequence' = sequence + 1 /\ burnt' \subseteq 1..sequence'
    BY <2>1, <1>1, TakeSequenceExtendsLog DEF InductiveInvariant, TypeOK
  <2>3. net' \in [Clients -> SUBSET Packets']
    BY <1>1, <2>1, <2>2 DEF InductiveInvariant, TypeOK, Packets
  <2>4. QED
    BY <1>1, <2>1, <2>2, <2>3, PublishKeepsInvariant
<1>5. ASSUME NEW c \in Clients, RecoverySnapshot(c)
      PROVE  InductiveInvariant'
  <2>. DEFINE new == SnapshotPacket(sequence, PublisherSchema, log[sequence])
  <2>1. sequence \in Nat /\ log[sequence] \in State
    BY <1>1 DEF InductiveInvariant, TypeOK
  <2>2. new \in Packets /\ new.sequence = sequence /\ Carries(new, log[sequence])
    BY <2>1, PacketsTyped DEF Packets, SnapshotPacket, Carries
  <2>3. /\ UNCHANGED <<sequence, last_state, log, burnt, dec>>
        /\ net' \in [Clients -> SUBSET Packets]
        /\ \A e \in Clients : net'[e] \subseteq net[e] \cup {new}
    BY <1>1, <1>5, <2>2 DEF RecoverySnapshot, InductiveInvariant, TypeOK
  <2>4. PacketsCarryLog'
    BY <1>1, <2>1, <2>2, <2>3 DEF InductiveInvariant, PacketsCarryLog
  <2>5. TypeOK'
    <3>1. Decoders' = Decoders /\ Packets' = Packets
      BY <2>3, ViewsStay DEF Decoders, Packets
    <3>. QED BY <1>1, <2>3, <3>1 DEF InductiveInvariant, TypeOK
  <2>6. Consistency'
    BY <1>1, <2>3 DEF InductiveInvariant, Consistency, View
  <2>. QED
    BY <1>1, <2>3, <2>4, <2>5, <2>6 DEF InductiveInvariant, WindowInvariant
<1>6. ASSUME NEW c \in Clients, Receive(c)
      PROVE  InductiveInvariant'
  <2>1. PICK p \in net[c] : dec' = [dec EXCEPT ![c] = Apply(dec[c], Config[c], p)]
    BY <1>6 DEF Receive
  <2>2. UNCHANGED <<sequence, last_state, log, burnt, net>>
    BY <1>6 DEF Receive
  <2>3. CASE Outcome(dec[c], Config[c], p) = "Applied"
    BY <1>1, <2>1, <2>2, <2>3, DecodersInOrder, AdvanceInOrder, OrderKeepsInvariant DEF Apply
  <2>4. CASE Outcome(dec[c], Config[c], p) # "Applied"
    <3>1. UNCHANGED vars
      BY <1>1, <2>1, <2>2, <2>4 DEF Apply, vars, InductiveInvariant, TypeOK
    <3>2. QED
      BY <1>1, <3>1, StutterKeepsInvariant
  <2>5. QED
    BY <2>3, <2>4
<1>7. ASSUME NEW c \in Clients, ReceiveMigrating(c)
      PROVE  InductiveInvariant'
  <2>1. PICK p \in net[c] :
          dec' = [dec EXCEPT ![c] = ApplyMigrating(dec[c], Config[c], p)]
    BY <1>7 DEF ReceiveMigrating
  <2>2. UNCHANGED <<sequence, last_state, log, burnt, net>>
    BY <1>7 DEF ReceiveMigrating
  <2>3. CASE MigratingOutcome(dec[c], Config[c], p) = "Applied"
    BY <1>1, <2>1, <2>2, <2>3, DecodersInOrder, AdvanceInOrder, OrderKeepsInvariant
    DEF ApplyMigrating
  <2>4. CASE MigratingOutcome(dec[c], Config[c], p) # "Applied"
    <3>1. UNCHANGED vars
      BY <1>1, <2>1, <2>2, <2>4 DEF ApplyMigrating, vars, InductiveInvariant, TypeOK
    <3>2. QED
      BY <1>1, <3>1, StutterKeepsInvariant
  <2>5. QED
    BY <2>3, <2>4
<1>8. ASSUME NEW c \in Clients, Reset(c)
      PROVE  InductiveInvariant'
  BY <1>1, <1>8, ResetKeepsInvariant
<1>9. CASE UNCHANGED vars
  BY <1>1, <1>9, StutterKeepsInvariant
<1>10. QED
  BY <1>1, <1>2, <1>3, <1>4, <1>5, <1>6, <1>7, <1>8, <1>9 DEF Next

\* The inductive invariant holds in every reachable state, for any clients,
\* states, window capacity and number of updates.
THEOREM Invariance == Spec => []InductiveInvariant
<1>1. Init => InductiveInvariant
  BY InitInductive
<1>2. InductiveInvariant /\ [Next]_vars => InductiveInvariant'
  BY NextInductive
<1>3. QED
  BY <1>1, <1>2, PTL DEF Spec

\* Type correctness of the publisher, the packets in flight and the decoders.
THEOREM TypeCorrectness == Spec => []TypeOK
BY Invariance, PTL DEF InductiveInvariant

\* A client at sequence n shows the state published under n, whatever the
\* network does and whichever updates fail half-way.
THEOREM ConsistencyHolds == Spec => []Consistency
BY Invariance, PTL DEF InductiveInvariant

\* No packet newer than a client's state is dismissed as a duplicate.
THEOREM DuplicateIsStaleHolds == Spec => []DuplicateIsStale
<1>1. InductiveInvariant => DuplicateIsStale
  <2>1. SUFFICES ASSUME InductiveInvariant, NEW c \in Clients, NEW p \in net[c],
                        Outcome(dec[c], Config[c], p) = "Duplicate"
                 PROVE  dec[c].sequence # None /\ p.sequence <= dec[c].sequence
    BY DEF DuplicateIsStale
  <2>2. Stale(dec[c], p) /\ p.sequence \in Nat
    BY <2>1 DEF Outcome, InductiveInvariant, PacketsCarryLog
  <2>3. QED
    BY <2>1, <2>2, StaleMeansNotNewer DEF InductiveInvariant
<1>2. QED
  BY <1>1, Invariance, PTL
-----------------------------------------------------------------------------
(***************************************************************************)
(* No gap for the others.                                                  *)
(***************************************************************************)
\* A new packet for sequence n, a snapshot or a delta from last_state, keeps
\* the stream gapless.
LEMMA BroadcastKeepsGapless ==
  ASSUME InductiveInvariant, GaplessStream, NEW s \in State, TakeSequence(s),
         NEW p \in Candidates(s), Broadcast(p),
         last_state' = s, burnt' = burnt
  PROVE  GaplessStream'
<1>1. /\ sequence \in Nat
      /\ sequence' = sequence + 1
      /\ log'[sequence'] = s
      /\ \A n \in 0..sequence : log'[n] = log[n]
  BY TakeSequenceExtendsLog DEF InductiveInvariant
<1>2. /\ p.sequence = sequence'
      /\ \/ p.kind = "Snapshot"
         \/ p.base_hash = Hash(last_state)
  BY <1>1 DEF Candidates, SnapshotPacket, DeltaPacket
<1>3. ASSUME NEW c \in Clients, NEW n \in 1..sequence', n \notin burnt'
      PROVE  \E q \in net'[c] :
               /\ q.sequence = n
               /\ \/ q.kind = "Snapshot"
                  \/ n # 1 /\ n - 1 \notin burnt' => q.base_hash = Hash(log'[n - 1])
  <2>1. net'[c] = net[c] \cup {p}
    BY DEF Broadcast
  <2>2. CASE n = sequence'
    <3>1. n # 1 /\ n - 1 \notin burnt' => last_state = log'[n - 1]
      BY <1>1, <2>2 DEF GaplessStream
    <3>2. QED
      BY <1>2, <2>1, <2>2, <3>1
  <2>3. CASE n \in 1..sequence
    <3>1. PICK q \in net[c] :
            /\ q.sequence = n
            /\ \/ q.kind = "Snapshot"
               \/ n # 1 /\ n - 1 \notin burnt => q.base_hash = Hash(log[n - 1])
      BY <1>3, <2>3 DEF GaplessStream
    <3>2. log'[n - 1] = log[n - 1]
      BY <1>1, <2>3
    <3>3. QED
      BY <2>1, <3>1, <3>2
  <2>4. QED
    BY <1>1, <2>2, <2>3
<1>4. QED
  BY <1>1, <1>3 DEF GaplessStream

\* Steps that only add packets keep it too.
LEMMA MorePacketsKeepGapless ==
  ASSUME GaplessStream, UNCHANGED <<sequence, last_state, log, burnt>>,
         \A c \in Clients : net[c] \subseteq net'[c]
  PROVE  GaplessStream'
BY DEF GaplessStream

LEMMA NextKeepsGapless ==
  InductiveInvariant /\ GaplessStream /\ [Next]_vars => GaplessStream'
<1>1. SUFFICES ASSUME InductiveInvariant, GaplessStream, [Next]_vars
               PROVE  GaplessStream'
  OBVIOUS
<1>2. ASSUME NEW s \in State, Encode(s)
      PROVE  GaplessStream'
  BY <1>1, <1>2, BroadcastKeepsGapless DEF Encode
<1>3. ASSUME NEW s \in State, ForceSnapshot(s)
      PROVE  GaplessStream'
  <2>1. SnapshotPacket(sequence + 1, PublisherSchema, s) \in Candidates(s)
    BY DEF Candidates
  <2>2. QED
    BY <1>1, <1>3, <2>1, BroadcastKeepsGapless DEF ForceSnapshot
<1>4. ASSUME NEW s \in State, FailedUpdate(s)
      PROVE  GaplessStream'
  <2>1. /\ sequence \in Nat
        /\ sequence' = sequence + 1
        /\ \A n \in 0..sequence : log'[n] = log[n]
        /\ burnt' = burnt \cup {sequence + 1}
        /\ net' = net
    BY <1>1, <1>4, TakeSequenceExtendsLog DEF FailedUpdate, InductiveInvariant
  <2>2. ASSUME NEW c \in Clients, NEW n \in 1..sequence', n \notin burnt'
        PROVE  \E q \in net'[c] :
                 /\ q.sequence = n
                 /\ \/ q.kind = "Snapshot"
                    \/ n # 1 /\ n - 1 \notin burnt' =>
                         q.base_hash = Hash(log'[n - 1])
    <3>1. n \in 1..sequence /\ n \notin burnt /\ n - 1 # sequence + 1
      BY <2>1, <2>2
    <3>2. PICK q \in net[c] :
            /\ q.sequence = n
            /\ \/ q.kind = "Snapshot"
               \/ n # 1 /\ n - 1 \notin burnt => q.base_hash = Hash(log[n - 1])
      BY <1>1, <3>1 DEF GaplessStream
    <3>3. log'[n - 1] = log[n - 1]
      BY <2>1, <3>1
    <3>4. QED
      BY <2>1, <3>1, <3>2, <3>3
  <2>3. QED
    BY <2>1, <2>2 DEF GaplessStream
<1>5. ASSUME NEW c \in Clients, RecoverySnapshot(c)
      PROVE  GaplessStream'
  BY <1>1, <1>5, MorePacketsKeepGapless
  DEF RecoverySnapshot, InductiveInvariant, TypeOK
<1>6. ASSUME NEW c \in Clients, Receive(c) \/ ReceiveMigrating(c) \/ Reset(c)
      PROVE  GaplessStream'
  BY <1>1, <1>6, MorePacketsKeepGapless DEF Receive, ReceiveMigrating, Reset
<1>7. CASE UNCHANGED vars
  BY <1>1, <1>7, MorePacketsKeepGapless DEF vars
<1>8. QED
  BY <1>1, <1>2, <1>3, <1>4, <1>5, <1>6, <1>7 DEF Next

\* In a gapless stream the next packet fits.
LEMMA GaplessImpliesFits ==
  InductiveInvariant /\ GaplessStream => NextPacketFits
<1>1. SUFFICES ASSUME InductiveInvariant, GaplessStream, NEW c \in Clients,
                      dec[c].sequence # None, dec[c].sequence < sequence,
                      {dec[c].sequence, dec[c].sequence + 1} \cap burnt = {},
                      dec[c].sequence > 0,
                      Config[c].schema = PublisherSchema,
                      dec[c].state = log[dec[c].sequence]
               PROVE  \E p \in net[c] :
                        /\ p.sequence = dec[c].sequence + 1
                        /\ \/ Outcome(dec[c], Config[c], p) = "Applied"
                           \/ Size(p.payload) > Config[c].limit
  BY DEF NextPacketFits
<1>. DEFINE n == dec[c].sequence
<1>2. n \in 1..sequence /\ n + 1 \in 1..sequence /\ n \notin burnt /\ n + 1 \notin burnt
  BY <1>1 DEF InductiveInvariant, TypeOK, Decoders
<1>3. PICK p \in net[c] :
        /\ p.sequence = n + 1
        /\ p.kind = "Snapshot" \/ p.base_hash = Hash(log[n])
  BY <1>1, <1>2 DEF GaplessStream
<1>4. /\ p.schema_hash = PublisherSchema
      /\ p.kind # "Snapshot" => p.base_sequence = n
      /\ p.kind = "Snapshot" => Hash(p.payload) = p.base_hash
  BY <1>1, <1>2, <1>3
  DEF InductiveInvariant, TypeOK, Packets, PacketsCarryLog, Carries,
      SnapshotPacket, DeltaPacket
<1>6. ~Stale(dec[c], p)
  BY <1>1, <1>2, <1>3, StaleMeansNotNewer DEF InductiveInvariant
<1>7. QED
  BY <1>1, <1>3, <1>4, <1>6 DEF Outcome, BaseMatches, Unreadable

\* Recovering one client, or losing packets of another, never makes a client
\* that holds what was published, bit for bit, need a recovery of its own: it
\* is sent the next packet, and takes it if it is within its limit.
THEOREM NextPacketFitsHolds == Spec => []NextPacketFits
<1>1. Init => InductiveInvariant /\ GaplessStream
  BY InitInductive DEF Init, GaplessStream
<1>2. InductiveInvariant /\ GaplessStream /\ [Next]_vars =>
        (InductiveInvariant /\ GaplessStream)'
  BY NextInductive, NextKeepsGapless
<1>3. QED
  BY <1>1, <1>2, GaplessImpliesFits, PTL DEF Spec

-----------------------------------------------------------------------------
(***************************************************************************)
(* StateSync implements AuthoritativeStream.                               *)
(***************************************************************************)
\* A client whose decoder moves forward, in order, adopts a later entry of
\* the history.
LEMMA ForwardAdopts ==
  ASSUME InductiveInvariant, NEW c \in Clients, NEW d, InOrder(c, d), d.sequence # None,
         dec[c].sequence # None => dec[c].sequence < d.sequence,
         dec' = [dec EXCEPT ![c] = d],
         log' = log
  PROVE  Abstract!Adopt(c)
<1>1. /\ d.sequence \in DOMAIN log
      /\ dec \in [Clients -> Decoders]
      /\ d.state \in View(c, log[d.sequence])
  BY DEF InductiveInvariant, TypeOK, InOrder, Decoders
<1>2. ViewOf(c) # None => ViewOf(c).index < d.sequence
  BY DEF ViewOf
<1>3. /\ dec'[c] = d
      /\ \A e \in Clients : e # c => dec'[e] = dec[e]
  BY <1>1
<1>4. [e \in Clients |-> ViewOf(e)]' =
        [[e \in Clients |-> ViewOf(e)] EXCEPT
           ![c] = [index |-> d.sequence, state |-> d.state]]
  <2>1. \A e \in Clients : e # c => ViewOf(e)' = ViewOf(e)
    BY <1>3 DEF ViewOf
  <2>2. ViewOf(c)' = [index |-> d.sequence, state |-> d.state]
    BY <1>1, <1>3 DEF ViewOf
  <2>3. QED
    BY <2>1, <2>2
<1>5. QED
  BY <1>1, <1>2, <1>4 DEF Abstract!Adopt

\* A decoder that applies a packet does.
LEMMA ApplyAdopts ==
  ASSUME InductiveInvariant, NEW c \in Clients, NEW p \in net[c],
         \/ Outcome(dec[c], Config[c], p) = "Applied"
         \/ MigratingOutcome(dec[c], Config[c], p) = "Applied",
         dec' = [dec EXCEPT ![c] = Advance(dec[c], Config[c], p)],
         log' = log
  PROVE  Abstract!Adopt(c)
BY DecodersInOrder, AdvanceInOrder, ForwardAdopts

\* Taking a sequence publishes, and leaves every view alone.
LEMMA TakeSequencePublishes ==
  ASSUME InductiveInvariant, NEW s \in State, TakeSequence(s), UNCHANGED dec
  PROVE  Abstract!Publish
<1>1. sequence \in Nat /\ DOMAIN log = 0..sequence
  BY DEF InductiveInvariant, TypeOK
<1>2. sequence \in DOMAIN log /\ sequence + 1 \notin DOMAIN log
  BY <1>1
<1>3. UNCHANGED [c \in Clients |-> ViewOf(c)]
  BY DEF ViewOf
<1>4. QED
  BY <1>2, <1>3 DEF TakeSequence, Abstract!Publish

LEMMA StepRefines ==
  InductiveInvariant /\ [Next]_vars =>
    [Abstract!Next]_<<log, [c \in Clients |-> ViewOf(c)]>>
<1>1. SUFFICES ASSUME InductiveInvariant, [Next]_vars
               PROVE  \/ Abstract!Next
                      \/ UNCHANGED <<log, [c \in Clients |-> ViewOf(c)]>>
  OBVIOUS
<1>2. ASSUME NEW s \in State, Encode(s) \/ ForceSnapshot(s) \/ FailedUpdate(s)
      PROVE  Abstract!Publish
  BY <1>1, <1>2, TakeSequencePublishes DEF Encode, ForceSnapshot, FailedUpdate
<1>3. ASSUME NEW c \in Clients, Receive(c)
      PROVE  Abstract!Adopt(c) \/ UNCHANGED <<log, dec>>
  <2>1. PICK p \in net[c] : dec' = [dec EXCEPT ![c] = Apply(dec[c], Config[c], p)]
    BY <1>3 DEF Receive
  <2>2. log' = log /\ dec \in [Clients -> Decoders]
    BY <1>1, <1>3 DEF Receive, InductiveInvariant, TypeOK
  <2>3. CASE Outcome(dec[c], Config[c], p) = "Applied"
    BY <1>1, <2>1, <2>2, <2>3, ApplyAdopts DEF Apply
  <2>4. CASE Outcome(dec[c], Config[c], p) # "Applied"
    BY <2>1, <2>2, <2>4 DEF Apply
  <2>5. QED
    BY <2>3, <2>4
<1>4. ASSUME NEW c \in Clients, ReceiveMigrating(c)
      PROVE  Abstract!Adopt(c) \/ UNCHANGED <<log, dec>>
  <2>1. PICK p \in net[c] :
          dec' = [dec EXCEPT ![c] = ApplyMigrating(dec[c], Config[c], p)]
    BY <1>4 DEF ReceiveMigrating
  <2>2. log' = log /\ dec \in [Clients -> Decoders]
    BY <1>1, <1>4 DEF ReceiveMigrating, InductiveInvariant, TypeOK
  <2>3. CASE MigratingOutcome(dec[c], Config[c], p) = "Applied"
    BY <1>1, <2>1, <2>2, <2>3, ApplyAdopts DEF ApplyMigrating
  <2>4. CASE MigratingOutcome(dec[c], Config[c], p) # "Applied"
    BY <2>1, <2>2, <2>4 DEF ApplyMigrating
  <2>5. QED
    BY <2>3, <2>4
<1>5. ASSUME NEW c \in Clients, Reset(c)
      PROVE  Abstract!Forget(c)
  <2>1. /\ log' = log
        /\ dec'[c].sequence = None
        /\ \A e \in Clients : e # c => dec'[e] = dec[e]
    BY <1>1, <1>5 DEF Reset, EmptyDecoder, InductiveInvariant, TypeOK
  <2>2. ViewOf(c)' = None /\ \A e \in Clients : e # c => ViewOf(e)' = ViewOf(e)
    BY <2>1 DEF ViewOf
  <2>3. QED
    BY <2>1, <2>2 DEF Abstract!Forget
<1>6. ASSUME NEW c \in Clients, RecoverySnapshot(c)
      PROVE  UNCHANGED <<log, dec>>
  BY <1>6 DEF RecoverySnapshot
<1>7. ASSUME UNCHANGED <<log, dec>>
      PROVE  UNCHANGED <<log, [c \in Clients |-> ViewOf(c)]>>
  BY <1>7 DEF ViewOf
<1>8. CASE UNCHANGED vars
  BY <1>7, <1>8 DEF vars
<1>9. QED
  BY <1>1, <1>2, <1>3, <1>4, <1>5, <1>6, <1>7, <1>8 DEF Next, Abstract!Next

LEMMA InitRefines == Init => Abstract!Init
BY DEF Init, EmptyDecoder, ViewOf, Abstract!Init, Abstract!InitialHistory

\* Every behaviour of publisher, network and clients is one of the abstract
\* stream: what clients show is published, and moves forward only.
THEOREM Refinement == Spec => ImplementsStream
<1>1. Init => Abstract!Init
  BY InitRefines
<1>2. InductiveInvariant /\ [Next]_vars =>
        [Abstract!Next]_<<log, [c \in Clients |-> ViewOf(c)]>>
  BY StepRefines
<1>3. QED
  BY <1>1, <1>2, Invariance, PTL DEF Spec, ImplementsStream, Abstract!Spec
-----------------------------------------------------------------------------
(***************************************************************************)
(* Clients behind a reorder buffer.                                        *)
(***************************************************************************)
\* w is in order as the map of client c: finite, within its bound, and every
\* packet in it was sent to c and lies under its own sequence.
Waiting(c, w) ==
  /\ IsFiniteSet(DOMAIN w) /\ Cardinality(DOMAIN w) <= MaxPending
  /\ \A n \in DOMAIN w : w[n] \in net[c] /\ w[n].sequence = n

Ready(d, w) == d.sequence # None /\ d.sequence + 1 \in DOMAIN w

\* The drain loop as a function of its turns.
DrainStart(k) == Applied(k.decoder, k.waiting)
DrainStep(k, r, e) == DrainNext(k.config, r)

Loop == INSTANCE FoldTheorems WITH Start <- DrainStart, Step <- DrainStep

LEMMA DrainLoops ==
  ASSUME NEW config, NEW d, NEW w, Cardinality(DOMAIN w) \in Nat
  PROVE  \E after :
           /\ after[0] = Applied(d, w)
           /\ \A i \in 1..Cardinality(DOMAIN w) : after[i] = DrainNext(config, after[i - 1])
           /\ Drain(config, d, w) = after[Cardinality(DOMAIN w)]
<1>. DEFINE turns == Cardinality(DOMAIN w)
            Body(f) == [i \in 0..turns |-> IF i = 0 THEN Applied(d, w)
                                           ELSE DrainNext(config, f[i - 1])]
            after == CHOOSE f : f = Body(f)
            k == [config |-> config, decoder |-> d, waiting |-> w]
<1>1. Drain(config, d, w) = after[turns]
  BY DEF Drain
<1>2. \E f : f = Body(f)
  <2>1. PICK f : Loop!Iterates(f, k, turns)
    BY Loop!IterationExists
  <2>2. f = Body(f)
    BY <2>1 DEF Loop!Iterates, DrainStart, DrainStep
  <2>. QED BY <2>2
<1>3. after = Body(after)
  BY <1>2
<1>. HIDE DEF after
<1>4. after[0] = Applied(d, w) /\ \A i \in 1..turns : after[i] = DrainNext(config, after[i - 1])
  BY <1>3
<1>. QED BY <1>1, <1>4

\* In the middle of a drain that began at sequence from.
Draining(c, from, r) ==
  /\ InOrder(c, r.decoder) /\ Waiting(c, r.waiting)
  /\ r.decoder.sequence # None /\ from <= r.decoder.sequence

\* A turn that finds the next packet takes it out of the map, keeps the
\* decoder in order, and unless the packet was applied leaves nothing ready.
LEMMA TurnKeeps ==
  ASSUME InductiveInvariant, NEW c \in Clients, NEW from \in Nat, NEW r,
         Draining(c, from, r), r.answer = "Applied", Ready(r.decoder, r.waiting),
         NEW q, q = DrainNext(Config[c], r)
  PROVE  /\ Draining(c, from, q)
         /\ Cardinality(DOMAIN q.waiting) = Cardinality(DOMAIN r.waiting) - 1
         /\ Ready(q.decoder, q.waiting) => q.answer = "Applied"
<1>. DEFINE d == r.decoder
            w == r.waiting
            next == d.sequence + 1
            p == w[next]
            rest == DOMAIN w \ {next}
<1>1. p \in net[c] /\ p.sequence = next
  BY DEF Draining, Waiting, Ready
<1>2. d.sequence \in Nat
  BY DEF Draining, InOrder, Decoders, InductiveInvariant, TypeOK
<1>3. /\ q.decoder = Apply(d, Config[c], p)
      /\ q.waiting = [n \in rest |-> w[n]]
      /\ Outcome(d, Config[c], p) = "Applied" => q.answer = "Applied"
  BY DEF DrainNext, Ready, Restrict
<1>4. Waiting(c, q.waiting) /\ Cardinality(DOMAIN q.waiting) = Cardinality(DOMAIN w) - 1
  <2>1. next \in DOMAIN w /\ IsFiniteSet(DOMAIN w) /\ Cardinality(DOMAIN w) <= MaxPending
    BY DEF Draining, Waiting, Ready
  <2>2. /\ IsFiniteSet(rest) /\ Cardinality(rest) = Cardinality(DOMAIN w) - 1
        /\ Cardinality(DOMAIN w) \in Nat
    BY <2>1, FS_RemoveElement, FS_CardinalityType
  <2>3. Cardinality(rest) <= MaxPending
    BY <2>1, <2>2, ReorderBoundsAssumption
  <2>4. DOMAIN q.waiting = rest /\ \A n \in rest : q.waiting[n] = w[n]
    BY <1>3
  <2>. QED BY <2>2, <2>3, <2>4 DEF Draining, Waiting
<1>5. CASE Outcome(d, Config[c], p) = "Applied"
  <2>1. /\ InOrder(c, q.decoder) /\ q.decoder.sequence = p.sequence
        /\ q.decoder.sequence # None
    BY <1>1, <1>3, <1>5, AdvanceInOrder DEF Apply, Draining
  <2>2. from <= q.decoder.sequence
    BY <1>1, <1>2, <2>1 DEF Draining
  <2>. QED BY <1>3, <1>4, <1>5, <2>1, <2>2 DEF Draining
<1>6. CASE Outcome(d, Config[c], p) # "Applied"
  <2>1. q.decoder = d
    BY <1>3, <1>6 DEF Apply
  <2>2. ~Ready(q.decoder, q.waiting)
    BY <1>3, <2>1 DEF Ready
  <2>. QED BY <1>4, <2>1, <2>2 DEF Draining
<1>. QED BY <1>5, <1>6

\* Draining moves a decoder forward only, and stops only when nothing is
\* ready: it takes a packet with every turn that goes on, and there are as
\* many turns as packets.
LEMMA DrainSettles ==
  ASSUME InductiveInvariant, NEW c \in Clients, NEW d, NEW w,
         InOrder(c, d), d.sequence # None, Waiting(c, w),
         NEW r, r = Drain(Config[c], d, w)
  PROVE  Draining(c, d.sequence, r) /\ ~Ready(r.decoder, r.waiting)
<1>. DEFINE turns == Cardinality(DOMAIN w)
<1>1. turns \in Nat /\ d.sequence \in Nat
  BY FS_CardinalityType DEF Waiting, InOrder, Decoders, InductiveInvariant, TypeOK
<1>2. PICK after : /\ after[0] = Applied(d, w)
                   /\ \A i \in 1..turns : after[i] = DrainNext(Config[c], after[i - 1])
                   /\ r = after[turns]
  BY <1>1, DrainLoops
<1>. DEFINE Going(i) ==
              /\ Draining(c, d.sequence, after[i])
              /\ Ready(after[i].decoder, after[i].waiting) =>
                   /\ after[i].answer = "Applied"
                   /\ Cardinality(DOMAIN after[i].waiting) <= turns - i
            T == {i \in Nat : i <= turns => Going(i)}
<1>3. 0 \in T
  <2>1. after[0].decoder = d /\ after[0].waiting = w /\ after[0].answer = "Applied"
    BY <1>2 DEF Applied
  <2>. QED BY <1>1, <2>1 DEF Draining
<1>4. ASSUME NEW i \in T PROVE i + 1 \in T
  <2>. SUFFICES ASSUME i + 1 <= turns PROVE Going(i + 1)
    OBVIOUS
  <2>. DEFINE now == after[i]
              then == after[i + 1]
  <2>1. Going(i)
    BY <1>1
  <2>2. then = DrainNext(Config[c], now)
    BY <1>1, <1>2
  <2>3. CASE Ready(now.decoder, now.waiting)
    <3>1. /\ Draining(c, d.sequence, then)
          /\ Cardinality(DOMAIN then.waiting) = Cardinality(DOMAIN now.waiting) - 1
          /\ Ready(then.decoder, then.waiting) => then.answer = "Applied"
      <4>. HIDE DEF now, then
      <4>1. Draining(c, d.sequence, now) /\ now.answer = "Applied"
        BY <2>1, <2>3 DEF now
      <4>. QED BY <1>1, <2>2, <2>3, <4>1, TurnKeeps
    <3>2. Cardinality(DOMAIN now.waiting) \in Nat
      BY <2>1, FS_CardinalityType DEF Draining, Waiting
    <3>. QED BY <1>1, <2>1, <2>3, <3>1, <3>2
  <2>4. CASE ~Ready(now.decoder, now.waiting)
    <3>1. now.decoder.sequence + 1 \notin DOMAIN now.waiting
      BY <2>1, <2>4 DEF Ready, Draining
    <3>2. then = now
      BY <2>2, <3>1 DEF DrainNext
    <3>. QED BY <2>1, <2>4, <3>2
  <2>. QED BY <2>3, <2>4
<1>5. T = Nat
  <2>. HIDE DEF T
  <2>1. T \in SUBSET Nat
    BY DEF T
  <2>. QED BY <1>3, <1>4, <2>1, Loop!SetInduction
<1>6. Going(turns)
  BY <1>1, <1>5
<1>7. ~Ready(r.decoder, r.waiting)
  <2>. SUFFICES ASSUME Ready(r.decoder, r.waiting) PROVE FALSE
    OBVIOUS
  <2>1. /\ IsFiniteSet(DOMAIN r.waiting)
        /\ Cardinality(DOMAIN r.waiting) <= turns - turns
    BY <1>2, <1>6 DEF Draining, Waiting
  <2>2. DOMAIN r.waiting = {}
    BY <1>1, <2>1, FS_CardinalityType, FS_EmptySet
  <2>. QED BY <2>2 DEF Ready
<1>. QED BY <1>2, <1>6, <1>7

ReorderInvariant ==
  /\ InductiveInvariant
  /\ DOMAIN pending = Clients
  /\ \A c \in Clients : Waiting(c, pending[c]) /\ ~Ready(dec[c], pending[c])

\* What a packet does to the client that takes it: it buffers it, drops it,
\* or moves forward and drains.
LEMMA ReorderApplyKeeps ==
  ASSUME ReorderInvariant, NEW c \in Clients, NEW p \in net[c],
         NEW r, r = ReorderApply(Config[c], dec[c], pending[c], p)
  PROVE  /\ InOrder(c, r.decoder)
         /\ Waiting(c, r.waiting) /\ ~Ready(r.decoder, r.waiting)
         /\ \/ r.decoder = dec[c]
            \/ /\ r.decoder.sequence # None
               /\ dec[c].sequence # None => dec[c].sequence < r.decoder.sequence
<1>. DEFINE d == dec[c]
            w == pending[c]
<1>1. /\ InductiveInvariant /\ InOrder(c, d) /\ Waiting(c, w) /\ ~Ready(d, w)
      /\ p.sequence \in Nat
      /\ d.sequence # None => d.sequence \in Nat
      /\ MaxPending \in Nat
  BY DecodersInOrder, ReorderBoundsAssumption
  DEF ReorderInvariant, InductiveInvariant, PacketsCarryLog, TypeOK, Decoders
<1>2. CASE Early(d, p) /\ HasRoom(d, w, p)
  <2>1. r.decoder = d /\ r.waiting = Keep(w, p)
    BY <1>2 DEF ReorderApply
  <2>2. d.sequence # None => p.sequence # d.sequence + 1
    <3>1. Carries(p, log[p.sequence]) /\ p.kind = "Delta" /\ d.sequence < p.base_sequence
      BY <1>1, <1>2 DEF InductiveInvariant, PacketsCarryLog, Early
    <3>2. p.base_sequence = p.sequence - 1
      BY <3>1 DEF Carries, SnapshotPacket, DeltaPacket
    <3>. QED BY <1>1, <3>1, <3>2
  <2>3. Waiting(c, Keep(w, p))
    <3>1. /\ DOMAIN Keep(w, p) = DOMAIN w \cup {p.sequence}
          /\ \A n \in DOMAIN w : Keep(w, p)[n] = w[n]
          /\ p.sequence \notin DOMAIN w => Keep(w, p)[p.sequence] = p
      BY DEF Keep
    <3>2. IsFiniteSet(DOMAIN w) /\ Cardinality(DOMAIN w) \in Nat /\ Cardinality(DOMAIN w) < MaxPending
      BY <1>1, <1>2, FS_CardinalityType DEF Waiting, HasRoom
    <3>3. IsFiniteSet(DOMAIN w \cup {p.sequence})
          /\ Cardinality(DOMAIN w \cup {p.sequence}) <= MaxPending
      <4>. DEFINE D == DOMAIN w
                  x == p.sequence
      <4>. HIDE DEF D, x
      <4>1. /\ IsFiniteSet(D \cup {x})
            /\ \/ Cardinality(D \cup {x}) = Cardinality(D)
               \/ Cardinality(D \cup {x}) = Cardinality(D) + 1
        BY <3>2, FS_AddElement DEF D
      <4>2. Cardinality(D) \in Nat /\ Cardinality(D) < MaxPending
        BY <3>2 DEF D
      <4>. QED BY <1>1, <4>1, <4>2 DEF D, x
    <3>. QED BY <1>1, <3>1, <3>3 DEF Waiting
  <2>4. ~Ready(d, Keep(w, p))
    BY <1>1, <2>2 DEF Ready, Keep
  <2>. QED BY <1>1, <2>1, <2>3, <2>4
<1>3. CASE ~Early(d, p) /\ Outcome(d, Config[c], p) = "Applied"
  <2>. DEFINE e == Advance(d, Config[c], p)
  <2>1. /\ InOrder(c, e) /\ e.sequence # None /\ e.sequence \in Nat
        /\ d.sequence # None => d.sequence < e.sequence
    BY <1>1, <1>3, AdvanceInOrder
  <2>2. r = Drain(Config[c], e, w)
    BY <1>3 DEF ReorderApply, Apply
  <2>. HIDE DEF e
  <2>3. Draining(c, e.sequence, r) /\ ~Ready(r.decoder, r.waiting)
    BY <1>1, <2>1, <2>2, DrainSettles
  <2>4. /\ InOrder(c, r.decoder) /\ Waiting(c, r.waiting)
        /\ r.decoder.sequence # None /\ e.sequence <= r.decoder.sequence
    BY <2>3 DEF Draining
  <2>5. r.decoder.sequence \in Nat
    BY <1>1, <2>4 DEF InOrder, Decoders, InductiveInvariant, TypeOK
  <2>. QED BY <1>1, <2>1, <2>3, <2>4, <2>5
<1>4. CASE /\ ~(Early(d, p) /\ HasRoom(d, w, p))
           /\ ~(~Early(d, p) /\ Outcome(d, Config[c], p) = "Applied")
  <2>1. r.decoder = d /\ r.waiting = w
    BY <1>4 DEF ReorderApply
  <2>. QED BY <1>1, <2>1
<1>. QED BY <1>2, <1>3, <1>4

\* Steps that leave the decoders and the maps alone and only add packets.
LEMMA MorePacketsKeepReorder ==
  ASSUME ReorderInvariant, InductiveInvariant', UNCHANGED <<dec, pending>>,
         \A c \in Clients : net[c] \subseteq net'[c]
  PROVE  ReorderInvariant'
BY DEF ReorderInvariant, Waiting, Ready

LEMMA PublishKeepsReorder ==
  ASSUME ReorderInvariant, Publish
  PROVE  ReorderInvariant'
<1>1. InductiveInvariant'
  BY NextInductive DEF ReorderInvariant, Publish, Next
<1>2. UNCHANGED <<dec, pending>>
  BY DEF Publish, Encode, ForceSnapshot, FailedUpdate, RecoverySnapshot
<1>3. \A c \in Clients : net[c] \subseteq net'[c]
  BY DEF ReorderInvariant, InductiveInvariant, TypeOK, Publish, Encode, ForceSnapshot,
         FailedUpdate, RecoverySnapshot, Broadcast
<1>. QED BY <1>1, <1>2, <1>3, MorePacketsKeepReorder

LEMMA ReceiveKeepsReorder ==
  ASSUME ReorderInvariant, NEW c \in Clients, NEW p \in net[c], ReorderReceive(c, p)
  PROVE  ReorderInvariant' /\ (Abstract!Adopt(c) \/ UNCHANGED <<log, dec>>)
<1>. DEFINE r == ReorderApply(Config[c], dec[c], pending[c], p)
<1>1. /\ dec' = [dec EXCEPT ![c] = r.decoder]
      /\ pending' = [pending EXCEPT ![c] = r.waiting]
      /\ UNCHANGED <<sequence, last_state, log, burnt, net>>
  BY DEF ReorderReceive
<1>2. /\ InOrder(c, r.decoder)
      /\ Waiting(c, r.waiting) /\ ~Ready(r.decoder, r.waiting)
      /\ \/ r.decoder = dec[c]
         \/ /\ r.decoder.sequence # None
            /\ dec[c].sequence # None => dec[c].sequence < r.decoder.sequence
  <2>. HIDE DEF r
  <2>. QED BY ReorderApplyKeeps DEF r
<1>. HIDE DEF r
<1>3. InductiveInvariant /\ InductiveInvariant'
  BY <1>1, <1>2, OrderKeepsInvariant DEF ReorderInvariant
<1>4. DOMAIN dec = Clients /\ DOMAIN pending = Clients
  BY DEF ReorderInvariant, InductiveInvariant, TypeOK
<1>5. \A e \in Clients :
        /\ dec'[e] = IF e = c THEN r.decoder ELSE dec[e]
        /\ pending'[e] = IF e = c THEN r.waiting ELSE pending[e]
  BY <1>1, <1>4
<1>6. \A e \in Clients : Waiting(e, pending'[e]) /\ ~Ready(dec'[e], pending'[e])
  BY <1>2, <1>5 DEF ReorderInvariant
<1>7. ReorderInvariant'
  BY <1>1, <1>3, <1>4, <1>6 DEF ReorderInvariant, Waiting, Ready
<1>8. CASE r.decoder = dec[c]
  BY <1>1, <1>7, <1>8 DEF ReorderInvariant, InductiveInvariant, TypeOK
<1>9. CASE /\ r.decoder.sequence # None
           /\ dec[c].sequence # None => dec[c].sequence < r.decoder.sequence
  BY <1>1, <1>2, <1>3, <1>7, <1>9, ForwardAdopts
<1>. QED BY <1>2, <1>8, <1>9

LEMMA ClearKeepsReorder ==
  ASSUME ReorderInvariant, NEW c \in Clients, ClearPending(c) \/ ResetAll(c)
  PROVE  ReorderInvariant'
<1>1. Waiting(c, <<>>) /\ \A d : ~Ready(d, <<>>)
  <2>1. DOMAIN <<>> = {}
    OBVIOUS
  <2>2. IsFiniteSet({}) /\ Cardinality({}) <= MaxPending
    BY FS_EmptySet, ReorderBoundsAssumption
  <2>. QED BY <2>1, <2>2 DEF Waiting, Ready
<1>2. UNCHANGED net /\ pending' = [pending EXCEPT ![c] = <<>>]
  BY DEF ClearPending, ResetAll, Reset, vars
<1>3. InductiveInvariant'
  BY NextInductive DEF ReorderInvariant, ClearPending, ResetAll, Next
<1>4. \A e \in Clients : e # c => dec'[e] = dec[e]
  BY DEF ClearPending, ResetAll, Reset, vars, ReorderInvariant, InductiveInvariant, TypeOK
<1>5. \A e \in Clients : pending'[e] = IF e = c THEN <<>> ELSE pending[e]
  BY <1>2 DEF ReorderInvariant
<1>6. \A e \in Clients : Waiting(e, pending'[e]) /\ ~Ready(dec'[e], pending'[e])
  BY <1>1, <1>4, <1>5 DEF ReorderInvariant
<1>. QED BY <1>2, <1>3, <1>6 DEF ReorderInvariant, Waiting, Ready

\* The buffers hold what was sent, within their bounds, and nothing that
\* their decoders could take next, in every reachable state.
THEOREM ReorderInvariance == ReorderSpec => []ReorderInvariant
<1>1. ReorderInit => ReorderInvariant
  <2>. SUFFICES ASSUME ReorderInit PROVE ReorderInvariant
    OBVIOUS
  <2>1. InductiveInvariant
    BY InitInductive DEF ReorderInit
  <2>2. \A c \in Clients : Waiting(c, <<>>) /\ ~Ready(dec[c], <<>>)
    <3>1. DOMAIN <<>> = {}
      OBVIOUS
    <3>2. IsFiniteSet({}) /\ Cardinality({}) <= MaxPending
      BY FS_EmptySet, ReorderBoundsAssumption
    <3>. QED BY <3>1, <3>2 DEF Waiting, Ready
  <2>. QED BY <2>1, <2>2 DEF ReorderInit, ReorderInvariant
<1>2. ReorderInvariant /\ [ReorderNext]_reorderVars => ReorderInvariant'
  <2>. SUFFICES ASSUME ReorderInvariant, [ReorderNext]_reorderVars
                PROVE  ReorderInvariant'
    OBVIOUS
  <2>1. CASE Publish
    BY <2>1, PublishKeepsReorder
  <2>2. ASSUME NEW c \in Clients, NEW p \in net[c], ReorderReceive(c, p)
        PROVE  ReorderInvariant'
    BY <2>2, ReceiveKeepsReorder
  <2>3. ASSUME NEW c \in Clients, ClearPending(c) \/ ResetAll(c)
        PROVE  ReorderInvariant'
    BY <2>3, ClearKeepsReorder
  <2>4. CASE UNCHANGED reorderVars
    <3>1. InductiveInvariant'
      BY <2>4, NextInductive DEF reorderVars, ReorderInvariant
    <3>. QED BY <2>4, <3>1, MorePacketsKeepReorder DEF reorderVars, vars
  <2>. QED BY <2>1, <2>2, <2>3, <2>4 DEF ReorderNext
<1>. QED BY <1>1, <1>2, PTL DEF ReorderSpec

\* ReorderTypeOK: the maps never exceed max_pending, and hold packets of the
\* stream under their own sequences.
THEOREM ReorderTypeCorrectness == ReorderSpec => []ReorderTypeOK
<1>1. ReorderInvariant => ReorderTypeOK
  BY DEF ReorderInvariant, Waiting, ReorderTypeOK
<1>. QED BY <1>1, ReorderInvariance, PTL

\* NothingReadyWaits: the packet a client could take next is never left
\* waiting, however early, late or often packets arrived.
THEOREM NothingReadyWaitsHolds == ReorderSpec => []NothingReadyWaits
<1>1. ReorderInvariant => NothingReadyWaits
  BY DEF ReorderInvariant, Ready, NothingReadyWaits
<1>. QED BY <1>1, ReorderInvariance, PTL

\* A client behind a reorder buffer keeps the promise of one without: it
\* shows published states only and moves forward in them, although one
\* packet may make it apply many.
THEOREM ReorderRefinement == ReorderSpec => ImplementsStream
<1>1. ReorderInit => Abstract!Init
  BY InitRefines DEF ReorderInit
<1>2. ReorderInvariant /\ [ReorderNext]_reorderVars =>
        [Abstract!Next]_<<log, [c \in Clients |-> ViewOf(c)]>>
  <2>. SUFFICES ASSUME ReorderInvariant, [ReorderNext]_reorderVars
                PROVE  \/ Abstract!Next
                       \/ UNCHANGED <<log, [c \in Clients |-> ViewOf(c)]>>
    OBVIOUS
  <2>1. UNCHANGED <<log, dec>> => UNCHANGED <<log, [c \in Clients |-> ViewOf(c)]>>
    BY DEF ViewOf
  <2>2. Next => \/ Abstract!Next
                \/ UNCHANGED <<log, [c \in Clients |-> ViewOf(c)]>>
    BY StepRefines DEF ReorderInvariant
  <2>3. CASE Publish
    BY <2>2, <2>3 DEF Publish, Next
  <2>4. ASSUME NEW c \in Clients, NEW p \in net[c], ReorderReceive(c, p)
        PROVE  Abstract!Next \/ UNCHANGED <<log, dec>>
    BY <2>4, ReceiveKeepsReorder DEF Abstract!Next
  <2>5. ASSUME NEW c \in Clients, ResetAll(c)
        PROVE  Next
    BY <2>5 DEF ResetAll, Next
  <2>6. ASSUME NEW c \in Clients, ClearPending(c)
        PROVE  UNCHANGED <<log, dec>>
    BY <2>6 DEF ClearPending, vars
  <2>7. CASE UNCHANGED reorderVars
    BY <2>1, <2>7 DEF reorderVars, vars
  <2>. QED BY <2>1, <2>2, <2>3, <2>4, <2>5, <2>6, <2>7 DEF ReorderNext
<1>. QED BY <1>1, <1>2, ReorderInvariance, PTL DEF ReorderSpec, ImplementsStream, Abstract!Spec
=============================================================================
