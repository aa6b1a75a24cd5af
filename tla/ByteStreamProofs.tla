--------------------------- MODULE ByteStreamProofs ---------------------------
(***************************************************************************)
(* Proofs about ByteStream, for any clients, states, deltas and bounds:    *)
(* its inductive invariant, that clients move forward unless a late packet *)
(* takes them back, and that without late packets all lives together are   *)
(* one AuthoritativeStream; about ByteEncoders and AdaptivePolicy, for any *)
(* sizes: which packet of those it could send a publisher sends; and that  *)
(* payloads and packets are read back (Payloads, Wire).                    *)
(***************************************************************************)
EXTENDS ByteStream, EncoderLearning, Wire, Payloads, SequenceTheorems, TLAPS

\* The part of the type invariant about lives and the log.
LivesOK ==
  /\ life \in Nat \ {0}
  /\ sequence \in Nat
  /\ start \in [1..life -> Nat]
  /\ start[1] = 0
  /\ \A k, l \in 1..life : k < l => start[k] < start[l]

LEMMA TypeOKImpliesLivesOK == ByteTypeOK => LivesOK
BY ByteBoundsAssumption DEF ByteTypeOK, LivesOK

\* No update of a life lies beyond the log, and those of a life lie before
\* the next life begins.
LEMMA LivesAreSegments ==
  ASSUME LivesOK, NEW k \in 1..life
  PROVE  /\ LastOf(k) \in Nat
         /\ start[k] + LastOf(k) <= Top
         /\ \A l \in 1..life : k < l => start[k] + LastOf(k) < start[l]
<1>1. CASE k = life
  BY <1>1 DEF LivesOK, LastOf, Top
<1>2. CASE k # life
  <2>1. k + 1 \in 1..life /\ k < k + 1 /\ k < life
    BY <1>2 DEF LivesOK
  <2>2. LastOf(k) = start[k + 1] - 1 - start[k]
    BY <1>2 DEF LastOf
  <2>3. start[k] < start[k + 1] /\ start[k] \in Nat /\ start[k + 1] \in Nat
    BY <2>1 DEF LivesOK
  <2>4. \A l \in 1..life : k < l => start[k + 1] <= start[l]
    <3>1. TAKE l \in 1..life
    <3>2. HAVE k < l
    <3>3. l = k + 1 \/ k + 1 < l
      BY <3>2 DEF LivesOK
    <3>4. start[l] \in Nat
      BY DEF LivesOK
    <3>5. QED
      BY <2>1, <2>3, <3>3, <3>4 DEF LivesOK
  <2>5. start[k + 1] <= start[life] /\ start[life] \in Nat
    BY <2>1, <2>4 DEF LivesOK
  <2>6. start[k] + LastOf(k) < start[life]
    BY <2>2, <2>3, <2>5
  <2>7. QED
    <3>1. \A l \in 1..life : start[l] \in Nat
      BY DEF LivesOK
    <3>2. QED
      BY <2>2, <2>3, <2>4, <2>6, <3>1 DEF LivesOK, Top
<1>3. QED
  BY <1>1, <1>2

\* Every packet in flight, and every client, has its place in the log.
LEMMA PlacesInLog ==
  ASSUME ByteTypeOK, NEW c \in Clients
  PROVE  /\ \A m \in net[c] : start[m.life] + m.packet.sequence \in 0..Top
         /\ dec[c].sequence # None => Index(c) \in 0..Top /\ dec[c].sequence \in Nat
<1>1. LivesOK
  BY TypeOKImpliesLivesOK
<1>2. \A m \in net[c] : start[m.life] + m.packet.sequence \in 0..Top
  <2>1. TAKE m \in net[c]
  <2>2. /\ m.life \in 1..life
        /\ m.packet.sequence \in Nat
        /\ m.packet.sequence <= LastOf(m.life)
    BY DEF ByteTypeOK, Packets
  <2>3. start[m.life] \in Nat /\ Top \in Nat
    BY <1>1, <2>2 DEF LivesOK, Top
  <2>4. LastOf(m.life) \in Nat /\ start[m.life] + LastOf(m.life) <= Top
    BY <1>1, <2>2, LivesAreSegments
  <2>5. QED
    BY <2>2, <2>3, <2>4
<1>3. ASSUME dec[c].sequence # None
      PROVE  Index(c) \in 0..Top /\ dec[c].sequence \in Nat
  <2>1. /\ dec[c].sequence \in Nat
        /\ adopted[c] \in 1..life
        /\ dec[c].sequence <= LastOf(adopted[c])
    BY <1>3 DEF ByteTypeOK, Decoders, EmptyByteDecoder
  <2>2. start[adopted[c]] \in Nat /\ Top \in Nat
    BY <1>1, <2>1 DEF LivesOK, Top
  <2>3. LastOf(adopted[c]) \in Nat /\ start[adopted[c]] + LastOf(adopted[c]) <= Top
    BY <1>1, <2>1, LivesAreSegments
  <2>4. QED
    BY <2>1, <2>2, <2>3 DEF Index
<1>4. QED
  BY <1>2, <1>3
-----------------------------------------------------------------------------
(***************************************************************************)
(* The inductive invariant.                                                *)
(***************************************************************************)
PacketsCarryLog ==
  \A c \in Clients : \A m \in net[c] :
    ByteCarries(m.packet, log[start[m.life] + m.packet.sequence])

\* The packets the publisher builds are well-typed and carry the state they
\* were built for.
LEMMA BuiltPackets ==
  ASSUME NEW n \in Nat, NEW s \in State
  PROVE  /\ SnapshotPacket(n, Schema, s) \in Packets
         /\ SnapshotPacket(n, Schema, s).sequence = n
         /\ ByteCarries(SnapshotPacket(n, Schema, s), s)
         /\ \A base \in State : \A d \in Deltas(base, s) :
              n # 0 => /\ ByteDeltaPacket(n, Schema, base, s, d) \in Packets
                       /\ ByteDeltaPacket(n, Schema, base, s, d).sequence = n
                       /\ ByteCarries(ByteDeltaPacket(n, Schema, base, s, d), s)
<1>1. /\ SnapshotPacket(n, Schema, s) \in Packets
      /\ SnapshotPacket(n, Schema, s).sequence = n
  BY DEF SnapshotPacket, Packets
<1>2. ByteCarries(SnapshotPacket(n, Schema, s), s)
  BY <1>1 DEF ByteCarries
<1>3. ASSUME NEW base \in State, NEW d \in Deltas(base, s), n # 0
      PROVE  /\ ByteDeltaPacket(n, Schema, base, s, d) \in Packets
             /\ ByteDeltaPacket(n, Schema, base, s, d).sequence = n
             /\ ByteCarries(ByteDeltaPacket(n, Schema, base, s, d), s)
  <2>1. ByteDeltaPacket(n, Schema, base, s, d) =
          [kind |-> "Delta", sequence |-> n, base_sequence |-> n - 1,
           base_hash |-> Hash(base), schema_hash |-> Schema, payload |-> d]
    BY DEF ByteDeltaPacket, DeltaPacket
  <2>2. d \in UNION {Deltas(t, u) : t, u \in State}
    OBVIOUS
  <2>3. n - 1 \in Nat
    BY <1>3
  <2>4. QED
    BY <1>3, <2>1, <2>2, <2>3 DEF Packets, ByteCarries
<1>4. QED
  BY <1>1, <1>2, <1>3

LEMMA ByteInitInductive == Init => ByteInvariant
<1>1. SUFFICES ASSUME Init PROVE ByteInvariant
  OBVIOUS
<1>2. /\ life = 1 /\ sequence = 0 /\ Top = 0 /\ LastOf(1) = 0
      /\ start \in [1..1 -> Nat] /\ start[1] = 0
  BY <1>1 DEF Init, Top, LastOf
<1>3. ByteTypeOK
  BY <1>1, <1>2, ByteBoundsAssumption DEF Init, ByteTypeOK, Decoders, EmptyByteDecoder
<1>4. QED
  BY <1>1, <1>3 DEF Init, ByteInvariant, EntryShown, EmptyByteDecoder

\* Numbering one more state in the present life, and sending only packets
\* that carry it, keeps the invariant.
LEMMA UpdateKeepsInvariant ==
  ASSUME ByteInvariant, NEW s \in State, TakeSequence(s),
         UNCHANGED <<life, start, dec, adopted>>,
         previous' \in State \cup {None},
         net' \in [Clients -> SUBSET [life : 1..life, packet : Packets]],
         \A c \in Clients : \A m \in net'[c] :
           \/ m \in net[c]
           \/ /\ m.life = life
              /\ m.packet.sequence = sequence + 1
              /\ ByteCarries(m.packet, s)
  PROVE  ByteInvariant'
<1>1. LivesOK /\ ByteTypeOK
  BY TypeOKImpliesLivesOK DEF ByteInvariant
<1>2. /\ Top \in Nat /\ start[life] \in Nat /\ life \in 1..life
      /\ Top' = Top + 1
      /\ Top' <= MaxTop
      /\ sequence' = sequence + 1
      /\ log' \in [0..Top' -> State]
      /\ log'[Top + 1] = s
      /\ \A i \in 0..Top : log'[i] = log[i]
  <2>1. /\ Top \in Nat /\ start[life] \in Nat /\ life \in 1..life
        /\ Top' = Top + 1 /\ sequence' = sequence + 1
    <3>1. sequence \in Nat /\ life \in 1..life /\ start[life] \in Nat
      BY <1>1 DEF LivesOK
    <3>2. sequence' = sequence + 1
      BY DEF TakeSequence
    <3>3. Top' = start[life] + sequence'
      BY DEF Top
    <3>. QED BY <3>1, <3>2, <3>3 DEF Top
  <2>2. log' = [i \in 0..(Top + 1) |-> IF i = Top + 1 THEN s ELSE log[i]]
    BY DEF TakeSequence, Extend
  <2>3. log \in [0..Top -> State] /\ Top < MaxTop
    BY <1>1 DEF ByteTypeOK, TakeSequence
  <2>4. QED
    BY <2>1, <2>2, <2>3, ByteBoundsAssumption
<1>3. \A l \in 1..life : LastOf(l)' >= LastOf(l) /\ LastOf(l) \in Nat /\ LastOf(l)' \in Nat
  BY <1>1, <1>2, LivesAreSegments DEF LastOf, LivesOK
<1>4. \A c \in Clients : \A m \in net'[c] : m.packet.sequence <= LastOf(m.life)'
  <2>1. TAKE c \in Clients
  <2>2. TAKE m \in net'[c]
  <2>3. m.life \in 1..life /\ m.packet.sequence \in Nat
    BY DEF Packets
  <2>4. CASE m \in net[c]
    BY <1>1, <1>3, <2>3, <2>4 DEF ByteTypeOK
  <2>5. CASE m.life = life /\ m.packet.sequence = sequence + 1
    BY <1>1, <1>2, <2>5 DEF LastOf, LivesOK
  <2>6. QED
    BY <2>4, <2>5
<1>5. \A c \in Clients : dec[c].sequence # None => dec[c].sequence <= LastOf(adopted[c])'
  <2>1. SUFFICES ASSUME NEW c \in Clients, dec[c].sequence # None
                 PROVE  dec[c].sequence <= LastOf(adopted[c])'
    OBVIOUS
  <2>2. /\ adopted[c] \in 1..life
        /\ dec[c].sequence \in Nat
        /\ dec[c].sequence <= LastOf(adopted[c])
    BY <1>1, <2>1 DEF ByteTypeOK, Decoders, EmptyByteDecoder
  <2>3. QED
    BY <1>3, <2>2 DEF LastOf
<1>6. ByteTypeOK'
  BY <1>1, <1>2, <1>4, <1>5 DEF ByteTypeOK, LivesOK, Packets, Decoders
<1>7. PacketsCarryLog'
  <2>1. SUFFICES ASSUME NEW c \in Clients, NEW m \in net'[c]
                 PROVE  ByteCarries(m.packet, log'[start[m.life] + m.packet.sequence])
    BY DEF PacketsCarryLog, ByteCarries
  <2>2. CASE m \in net[c]
    <3>1. start[m.life] + m.packet.sequence \in 0..Top
      BY <1>1, <2>2, PlacesInLog
    <3>2. ByteCarries(m.packet, log[start[m.life] + m.packet.sequence])
      BY <2>2 DEF ByteInvariant
    <3>3. QED
      BY <1>2, <3>1, <3>2
  <2>3. CASE m.life = life /\ m.packet.sequence = sequence + 1 /\ ByteCarries(m.packet, s)
    <3>1. start[m.life] + m.packet.sequence = Top + 1
      BY <1>1, <1>2, <2>3 DEF Top, LivesOK
    <3>2. QED
      BY <1>2, <2>3, <3>1
  <2>4. QED
    BY <2>2, <2>3
<1>8. EntryShown'
  <2>1. SUFFICES ASSUME NEW c \in Clients, dec[c].sequence # None
                 PROVE  dec[c].state = log'[Index(c)]
    BY DEF EntryShown, Index
  <2>2. Index(c) \in 0..Top
    BY <1>1, <2>1, PlacesInLog
  <2>3. dec[c].state = log[Index(c)]
    BY <2>1 DEF ByteInvariant, EntryShown
  <2>4. QED
    BY <1>2, <2>2, <2>3
<1>9. QED
  BY <1>6, <1>7, <1>8 DEF ByteInvariant, PacketsCarryLog

LEMMA EncodeKeepsInvariant ==
  ASSUME ByteInvariant, NEW s \in State, Encode(s)
  PROVE  ByteInvariant'
<1>1. sequence \in Nat /\ life \in 1..life /\ ByteTypeOK /\ sequence + 1 # 0
  BY ByteBoundsAssumption DEF ByteInvariant, ByteTypeOK
<1>2. PICK p \in Candidates(s) : net' = [c \in Clients |-> net[c] \cup {Sent(p)}]
  BY DEF Encode
<1>3. p \in Packets /\ p.sequence = sequence + 1 /\ ByteCarries(p, s)
  <2>1. CASE p = SnapshotPacket(sequence + 1, Schema, s)
    BY <1>1, <2>1, BuiltPackets
  <2>2. CASE /\ previous # None
             /\ \E d \in Deltas(previous, s) :
                  p = ByteDeltaPacket(sequence + 1, Schema, previous, s, d)
    <3>1. previous \in State
      BY <1>1, <2>2 DEF ByteTypeOK
    <3>2. QED
      BY <1>1, <2>2, <3>1, BuiltPackets
  <2>3. QED
    BY <1>2, <2>1, <2>2 DEF Candidates
<1>4. /\ Sent(p) \in [life : 1..life, packet : Packets]
      /\ Sent(p).life = life /\ Sent(p).packet = p
  BY <1>1, <1>3 DEF Sent
<1>5. net' \in [Clients -> SUBSET [life : 1..life, packet : Packets]]
  BY <1>1, <1>2, <1>4 DEF ByteTypeOK
<1>6. \A c \in Clients : \A m \in net'[c] :
        \/ m \in net[c]
        \/ m.life = life /\ m.packet.sequence = sequence + 1 /\ ByteCarries(m.packet, s)
  BY <1>2, <1>3, <1>4
<1>7. QED
  BY <1>5, <1>6, UpdateKeepsInvariant DEF Encode

LEMMA FailedEncodeKeepsInvariant ==
  ASSUME ByteInvariant, NEW s \in State, FailedEncode(s)
  PROVE  ByteInvariant'
<1>1. /\ previous' \in State \cup {None}
      /\ net' \in [Clients -> SUBSET [life : 1..life, packet : Packets]]
  BY DEF ByteInvariant, ByteTypeOK, FailedEncode
<1>2. QED
  BY <1>1, UpdateKeepsInvariant DEF FailedEncode

\* A snapshot of the log's last entry, sent to one client, keeps it.
LEMMA RecoveryKeepsInvariant ==
  ASSUME ByteInvariant, NEW c \in Clients, RecoverySnapshot(c)
  PROVE  ByteInvariant'
<1>. DEFINE m == Sent(SnapshotPacket(sequence, Schema, log[Top]))
<1>1. /\ LivesOK /\ ByteTypeOK
      /\ UNCHANGED <<life, sequence, previous, log, start, dec, adopted>>
  BY TypeOKImpliesLivesOK DEF ByteInvariant, RecoverySnapshot
<1>2. /\ sequence \in Nat /\ life \in 1..life /\ Top \in Nat
      /\ log[Top] \in State
  BY <1>1 DEF LivesOK, ByteTypeOK, Top
<1>3. /\ m \in [life : 1..life, packet : Packets]
      /\ m.life = life
      /\ m.packet.sequence = sequence
      /\ ByteCarries(m.packet, log[Top])
  BY <1>2, BuiltPackets DEF Sent
<1>. HIDE DEF m
<1>4. net' = [net EXCEPT ![c] = @ \cup {m}]
  BY DEF RecoverySnapshot, m
<1>5. \A e \in Clients : \A q \in net'[e] : q \in net[e] \/ q = m
  BY <1>1, <1>4 DEF ByteTypeOK
<1>6. net' \in [Clients -> SUBSET [life : 1..life, packet : Packets]]
  BY <1>1, <1>3, <1>4 DEF ByteTypeOK
<1>7. \A l : LastOf(l)' = LastOf(l)
  BY <1>1 DEF LastOf
<1>8. \A e \in Clients : \A q \in net'[e] : q.packet.sequence <= LastOf(q.life)
  BY <1>1, <1>2, <1>3, <1>5 DEF ByteTypeOK, LastOf
<1>9. ByteTypeOK'
  <2>1. \A e \in Clients : \A q \in net'[e] : q.packet.sequence <= LastOf(q.life)'
    BY <1>7, <1>8
  <2>2. \A e \in Clients : dec[e].sequence # None => dec[e].sequence <= LastOf(adopted[e])'
    BY <1>1, <1>7 DEF ByteTypeOK
  <2>3. QED
    BY <1>1, <1>6, <2>1, <2>2 DEF ByteTypeOK, Packets, Decoders, Top
<1>10. \A e \in Clients : \A q \in net'[e] :
         ByteCarries(q.packet, log[start[q.life] + q.packet.sequence])
  BY <1>3, <1>5 DEF ByteInvariant, Top
<1>11. QED
  BY <1>1, <1>9, <1>10 DEF ByteInvariant, ByteCarries, EntryShown, Index

\* A new life appends its initial state to the log; what was sent before
\* stays where it was.
LEMMA RestartKeepsInvariant ==
  ASSUME ByteInvariant, NEW s \in State, Restart(s)
  PROVE  ByteInvariant'
<1>1. /\ LivesOK /\ ByteTypeOK
      /\ UNCHANGED <<dec, adopted>>
      /\ life' = life + 1 /\ sequence' = 0 /\ previous' = None
      /\ life < MaxLives /\ Top < MaxTop
  BY TypeOKImpliesLivesOK DEF ByteInvariant, Restart
<1>2. /\ Top \in Nat /\ life \in Nat \ {0} /\ life' \in 1..MaxLives
      /\ \A l \in 1..life : start[l] \in Nat /\ start[l] <= Top
  <2>1. Top \in Nat /\ life \in Nat \ {0} /\ \A l \in 1..life : start[l] \in Nat
    BY <1>1 DEF LivesOK, Top
  <2>2. \A l \in 1..life : LastOf(l) \in Nat /\ start[l] + LastOf(l) <= Top
    BY <1>1, LivesAreSegments
  <2>3. QED
    BY <1>1, <2>1, <2>2, ByteBoundsAssumption
<1>3. /\ start' \in [1..life' -> Nat]
      /\ start'[life + 1] = Top + 1
      /\ \A l \in 1..life : start'[l] = start[l]
  <2>1. start' = [l \in 1..(life + 1) |-> IF l = life + 1 THEN Top + 1 ELSE start[l]]
    BY DEF Restart
  <2>2. QED
    BY <1>1, <1>2, <2>1
<1>4. /\ Top' = Top + 1
      /\ log' \in [0..Top' -> State]
      /\ log'[Top + 1] = s
      /\ \A i \in 0..Top : log'[i] = log[i]
  <2>1. Top' = Top + 1
    BY <1>1, <1>2, <1>3 DEF Top
  <2>2. log' = [i \in 0..(Top + 1) |-> IF i = Top + 1 THEN s ELSE log[i]]
    BY DEF Restart, Extend
  <2>3. log \in [0..Top -> State]
    BY <1>1 DEF ByteTypeOK
  <2>4. QED
    BY <1>2, <2>1, <2>2, <2>3
<1>5. \A l \in 1..life : LastOf(l)' = LastOf(l)
  <2>1. TAKE l \in 1..life
  <2>2. l # life + 1 /\ l \in Nat
    BY <1>2
  <2>3. CASE l = life
    <3>1. LastOf(l)' = start'[life + 1] - 1 - start'[life]
      BY <1>1, <1>2, <2>3 DEF LastOf
    <3>2. LastOf(l) = sequence /\ Top = start[life] + sequence /\ sequence \in Nat
      BY <1>1, <2>3 DEF LastOf, Top, LivesOK
    <3>3. QED
      BY <1>2, <1>3, <2>3, <3>1, <3>2
  <2>4. CASE l # life
    <3>1. l + 1 \in 1..life
      BY <1>2, <2>4
    <3>2. QED
      BY <1>1, <1>3, <2>2, <2>4, <3>1 DEF LastOf
  <2>5. QED
    BY <2>3, <2>4
<1>6. /\ net' \in [Clients -> SUBSET [life : 1..life, packet : Packets]]
      /\ \A c \in Clients : net'[c] \subseteq net[c]
  BY <1>1 DEF Restart, ByteTypeOK
<1>7. ByteTypeOK'
  <2>1. 1..life \subseteq 1..life' /\ 1 \in 1..life
    BY <1>1, <1>2
  <2>2. net' \in [Clients -> SUBSET [life : 1..life', packet : Packets]]
    BY <1>6, <2>1
  <2>3. start'[1] = 0
    BY <1>1, <1>3, <2>1 DEF LivesOK
  <2>4. \A k, l \in 1..life' : k < l => start'[k] < start'[l]
    <3>1. SUFFICES ASSUME NEW k \in 1..life', NEW l \in 1..life', k < l
                   PROVE  start'[k] < start'[l]
      OBVIOUS
    <3>2. k \in 1..life /\ start'[k] = start[k]
      BY <1>1, <1>2, <1>3, <3>1
    <3>3. CASE l = life + 1
      BY <1>2, <1>3, <3>2, <3>3
    <3>4. CASE l # life + 1
      <4>1. l \in 1..life
        BY <1>1, <1>2, <3>4
      <4>2. QED
        BY <1>1, <1>3, <3>1, <3>2, <4>1 DEF LivesOK
    <3>5. QED
      BY <3>3, <3>4
  <2>5. \A c \in Clients : \A m \in net'[c] : m.packet.sequence <= LastOf(m.life)'
    <3>1. TAKE c \in Clients
    <3>2. TAKE m \in net'[c]
    <3>3. m \in net[c] /\ m.life \in 1..life
      BY <1>6
    <3>4. m.packet.sequence <= LastOf(m.life)
      BY <1>1, <3>3 DEF ByteTypeOK
    <3>5. LastOf(m.life)' = LastOf(m.life)
      BY <1>5, <3>3 DEF LastOf
    <3>6. QED
      BY <3>4, <3>5 DEF LastOf
  <2>6. \A c \in Clients : dec'[c].sequence # None => dec'[c].sequence <= LastOf(adopted[c])'
    <3>1. SUFFICES ASSUME NEW c \in Clients, dec[c].sequence # None
                   PROVE  dec[c].sequence <= LastOf(adopted[c])'
      BY <1>1
    <3>2. adopted[c] \in 1..life /\ dec[c].sequence <= LastOf(adopted[c])
      BY <1>1, <3>1 DEF ByteTypeOK
    <3>3. LastOf(adopted[c])' = LastOf(adopted[c])
      BY <1>1, <1>5, <3>2 DEF LastOf
    <3>4. QED
      BY <3>2, <3>3
  <2>7. dec' \in [Clients -> Decoders'] /\ adopted' \in [Clients -> 1..life'] /\ Packets' = Packets
    BY <1>1, <2>1 DEF ByteTypeOK, Packets, Decoders
  <2>8. Top' <= MaxTop /\ sequence' \in Nat
    BY <1>1, <1>2, <1>4, ByteBoundsAssumption
  <2>9. QED
    BY <1>1, <1>2, <1>3, <1>4, <2>2, <2>3, <2>4, <2>5, <2>6, <2>7, <2>8 DEF ByteTypeOK
<1>8. \A c \in Clients : \A m \in net'[c] :
        ByteCarries(m.packet, log'[start'[m.life] + m.packet.sequence])
  <2>1. TAKE c \in Clients
  <2>2. TAKE m \in net'[c]
  <2>3. m \in net[c] /\ m.life \in 1..life
    BY <1>6
  <2>4. start[m.life] + m.packet.sequence \in 0..Top /\ start'[m.life] = start[m.life]
    BY <1>1, <1>3, <2>3, PlacesInLog
  <2>5. ByteCarries(m.packet, log[start[m.life] + m.packet.sequence])
    BY <2>3 DEF ByteInvariant
  <2>6. QED
    BY <1>4, <2>4, <2>5
<1>9. EntryShown'
  <2>1. SUFFICES ASSUME NEW c \in Clients, dec[c].sequence # None
                 PROVE  dec[c].state = log'[Index(c)']
    BY <1>1 DEF EntryShown
  <2>2. Index(c)' = Index(c) /\ Index(c) \in 0..Top
    BY <1>1, <1>3, <2>1, PlacesInLog DEF Index, ByteTypeOK
  <2>3. dec[c].state = log[Index(c)]
    BY <2>1 DEF ByteInvariant, EntryShown
  <2>4. QED
    BY <1>4, <2>2, <2>3
<1>10. QED
  BY <1>7, <1>8, <1>9 DEF ByteInvariant, ByteCarries
-----------------------------------------------------------------------------
(***************************************************************************)
(* The clients' steps.                                                     *)
(***************************************************************************)
\* An applied packet takes the decoder to the state published under its
\* sequence, in the life that sent it; and it is newer than what the decoder
\* had, if the decoder had something.
LEMMA AppliedIsPublished ==
  ASSUME ByteInvariant, NEW c \in Clients, NEW m \in net[c],
         ByteOutcome(dec[c], Config, m.packet) = "Applied"
  PROVE  /\ ByteResulting(dec[c], m.packet) = log[start[m.life] + m.packet.sequence]
         /\ dec[c].sequence # None => dec[c].sequence < m.packet.sequence
<1>. DEFINE p == m.packet
            s == log[start[m.life] + m.packet.sequence]
<1>1. /\ ByteTypeOK
      /\ p.sequence \in Nat
      /\ ByteCarries(p, s)
      /\ s \in State
  <2>1. ByteTypeOK /\ p.sequence \in Nat /\ ByteCarries(p, s)
    BY DEF ByteInvariant, ByteTypeOK, Packets
  <2>2. start[m.life] + m.packet.sequence \in 0..Top
    BY <2>1, PlacesInLog
  <2>3. log \in [0..Top -> State]
    BY <2>1 DEF ByteTypeOK
  <2>4. QED
    BY <2>1, <2>2, <2>3
<1>2. dec[c].sequence # None => dec[c].sequence \in Nat /\ dec[c].state \in State
  BY <1>1 DEF ByteTypeOK, Decoders, EmptyByteDecoder
<1>3. ~NotNewer(dec[c], p)
  BY DEF ByteOutcome
<1>4. dec[c].sequence # None => dec[c].sequence < p.sequence
  BY <1>1, <1>2, <1>3 DEF NotNewer
<1>. HIDE DEF p, s
<1>5. CASE p = SnapshotPacket(p.sequence, Schema, s)
  <2>1. p.kind = "Snapshot" /\ p.payload = s
    BY <1>5 DEF SnapshotPacket
  <2>2. QED
    BY <1>4, <2>1 DEF ByteResulting, p, s
<1>6. ASSUME NEW base \in State, NEW d \in Deltas(base, s), p.sequence # 0,
             p = ByteDeltaPacket(p.sequence, Schema, base, s, d)
      PROVE  ByteResulting(dec[c], p) = s
  <2>1. /\ p.kind = "Delta" /\ p.base_sequence = p.sequence - 1
        /\ p.base_hash = Hash(base) /\ p.payload = d
    BY <1>6 DEF ByteDeltaPacket, DeltaPacket
  <2>2. OnBase(dec[c], p)
    BY <2>1 DEF ByteOutcome, p
  <2>3. dec[c].sequence = p.sequence - 1 /\ p.sequence - 1 \in Nat
    BY <1>1, <1>6, <2>1, <2>2 DEF OnBase, p
  <2>4. dec[c].state \in State
    BY <1>2, <2>3, NoneAssumption
  <2>5. dec[c].state = base
    BY <2>1, <2>2, <2>4, HashAssumption DEF OnBase
  <2>6. Patch(d, base) = s
    BY <1>1, DeltasAssumption DEF s
  <2>7. QED
    BY <2>1, <2>5, <2>6 DEF ByteResulting
<1>7. QED
  BY <1>1, <1>4, <1>5, <1>6 DEF ByteCarries, p, s

LEMMA TakeKeepsInvariant ==
  ASSUME ByteInvariant, NEW c \in Clients, NEW m \in net[c], Take(c, m)
  PROVE  ByteInvariant'
<1>1. /\ ByteTypeOK
      /\ UNCHANGED <<life, sequence, previous, log, start, net>>
  BY DEF ByteInvariant, Take
<1>2. CASE ByteOutcome(dec[c], Config, m.packet) = "Applied"
  <2>1. /\ dec'[c].sequence = m.packet.sequence
        /\ dec'[c].state = log[start[m.life] + m.packet.sequence]
        /\ adopted'[c] = m.life
        /\ dec'[c] \in [sequence : Nat, state : State]
    <3>1. log[start[m.life] + m.packet.sequence] \in State
      <4>1. start[m.life] + m.packet.sequence \in 0..Top
        BY <1>1, PlacesInLog
      <4>2. log \in [0..Top -> State]
        BY <1>1 DEF ByteTypeOK
      <4>3. QED
        BY <4>1, <4>2
    <3>2. m.packet.sequence \in Nat
      BY <1>1 DEF ByteTypeOK, Packets
    <3>3. dec'[c] = [sequence |-> m.packet.sequence,
                     state |-> log[start[m.life] + m.packet.sequence]]
      BY <1>1, <1>2, AppliedIsPublished DEF Take, ByteApply, ByteTypeOK
    <3>4. adopted'[c] = m.life
      BY <1>1, <1>2 DEF Take, ByteTypeOK
    <3>5. QED
      BY <3>1, <3>2, <3>3, <3>4
  <2>2. \A e \in Clients : e # c => dec'[e] = dec[e] /\ adopted'[e] = adopted[e]
    BY <1>1 DEF Take, ByteTypeOK
  <2>3. m.life \in 1..life /\ m.packet.sequence <= LastOf(m.life)
    BY <1>1 DEF ByteTypeOK
  <2>4. /\ dec' \in [Clients -> Decoders]
        /\ adopted' \in [Clients -> 1..life]
    BY <1>1, <2>1, <2>3 DEF Take, ByteTypeOK, Decoders
  <2>5. \A e \in Clients : dec'[e].sequence # None => dec'[e].sequence <= LastOf(adopted'[e])
    BY <1>1, <2>1, <2>2, <2>3 DEF ByteTypeOK
  <2>6. ByteTypeOK'
    <3>1. Top' = Top /\ Packets' = Packets /\ Decoders' = Decoders
      BY <1>1 DEF Top, Packets, Decoders
    <3>2. (\A e \in Clients : \A q \in net[e] : q.packet.sequence <= LastOf(q.life))'
      BY <1>1 DEF ByteTypeOK, LastOf
    <3>3. (\A e \in Clients :
             dec[e].sequence # None => dec[e].sequence <= LastOf(adopted[e]))'
      BY <1>1, <2>5 DEF LastOf
    <3>4. QED
      BY <1>1, <2>4, <3>1, <3>2, <3>3 DEF ByteTypeOK
  <2>7. \A e \in Clients : dec'[e].sequence # None =>
          dec'[e].state = log[start[adopted'[e]] + dec'[e].sequence]
    BY <2>1, <2>2 DEF ByteInvariant, EntryShown, Index
  <2>8. QED
    BY <1>1, <2>6, <2>7 DEF ByteInvariant, ByteCarries, EntryShown, Index
<1>3. CASE ByteOutcome(dec[c], Config, m.packet) # "Applied"
  <2>1. dec' = dec /\ adopted' = adopted
    BY <1>1, <1>3 DEF Take, ByteApply, ByteTypeOK
  <2>2. QED
    BY <1>1, <2>1
    DEF ByteInvariant, ByteTypeOK, ByteCarries, EntryShown, Index, Packets, Decoders,
        Top, LastOf
<1>4. QED
  BY <1>2, <1>3

LEMMA ByteResetKeepsInvariant ==
  ASSUME ByteInvariant, NEW c \in Clients, Reset(c)
  PROVE  ByteInvariant'
<1>1. /\ ByteTypeOK
      /\ UNCHANGED <<life, sequence, previous, log, start, net, adopted>>
      /\ dec'[c].sequence = None
      /\ \A e \in Clients : e # c => dec'[e] = dec[e]
      /\ dec' \in [Clients -> Decoders]
  BY DEF ByteInvariant, ByteTypeOK, Reset, EmptyByteDecoder, Decoders
<1>2. ByteTypeOK'
  <2>1. \A e \in Clients : dec'[e].sequence # None => dec'[e].sequence <= LastOf(adopted[e])
    BY <1>1 DEF ByteTypeOK
  <2>2. \A l : LastOf(l)' = LastOf(l)
    BY <1>1 DEF LastOf
  <2>3. Top' = Top /\ Packets' = Packets /\ Decoders' = Decoders
    BY <1>1 DEF Top, Packets, Decoders
  <2>4. QED
    BY <1>1, <2>1, <2>2, <2>3 DEF ByteTypeOK
<1>3. QED
  BY <1>1, <1>2 DEF ByteInvariant, ByteCarries, EntryShown, Index
-----------------------------------------------------------------------------
LEMMA ByteNextInductive == ByteInvariant /\ [Next]_vars => ByteInvariant'
<1>1. SUFFICES ASSUME ByteInvariant, [Next]_vars PROVE ByteInvariant'
  OBVIOUS
<1>2. ASSUME NEW s \in State, Encode(s) PROVE ByteInvariant'
  BY <1>1, <1>2, EncodeKeepsInvariant
<1>3. ASSUME NEW s \in State, FailedEncode(s) PROVE ByteInvariant'
  BY <1>1, <1>3, FailedEncodeKeepsInvariant
<1>4. ASSUME NEW s \in State, Restart(s) PROVE ByteInvariant'
  BY <1>1, <1>4, RestartKeepsInvariant
<1>5. ASSUME NEW c \in Clients, RecoverySnapshot(c) PROVE ByteInvariant'
  BY <1>1, <1>5, RecoveryKeepsInvariant
<1>6. ASSUME NEW c \in Clients, Receive(c) PROVE ByteInvariant'
  BY <1>1, <1>6, TakeKeepsInvariant DEF Receive
<1>7. ASSUME NEW c \in Clients, Reset(c) PROVE ByteInvariant'
  BY <1>1, <1>7, ByteResetKeepsInvariant
<1>8. CASE UNCHANGED vars
  BY <1>1, <1>8
  DEF vars, ByteInvariant, ByteTypeOK, ByteCarries, EntryShown, Index, Packets,
      Decoders, Top, LastOf
<1>9. QED
  BY <1>1, <1>2, <1>3, <1>4, <1>5, <1>6, <1>7, <1>8 DEF Next

\* The inductive invariant: types, packets carry the log, clients show it.
THEOREM ByteInvariance == Spec => []ByteInvariant
BY ByteInitInductive, ByteNextInductive, PTL DEF Spec

\* Lives lie one after the other in the log, and neither a packet nor a
\* client is ever at a sequence its life has not reached.
THEOREM ByteTypeCorrectness == Spec => []ByteTypeOK
<1>1. ByteInvariant => ByteTypeOK
  BY DEF ByteInvariant
<1>2. QED
  BY <1>1, ByteInvariance, PTL

\* A client shows what was published under its sequence in the life its last
\* packet came from: the base test of apply keeps the lives apart.
THEOREM EntryShownHolds == Spec => []EntryShown
<1>1. ByteInvariant => EntryShown
  BY DEF ByteInvariant
<1>2. QED
  BY <1>1, ByteInvariance, PTL

\* A packet a client applies puts it further on in the log, unless the packet
\* is of an earlier life than the one before.
LEMMA TakeMovesForward ==
  ASSUME ByteInvariant, NEW c \in Clients, NEW m \in net[c],
         ByteOutcome(dec[c], Config, m.packet) = "Applied",
         dec[c].sequence # None
  PROVE  \/ Index(c) < start[m.life] + m.packet.sequence
         \/ m.life < adopted[c]
<1>1. /\ ByteTypeOK /\ LivesOK
      /\ m.life \in 1..life /\ adopted[c] \in 1..life
      /\ m.packet.sequence \in Nat
      /\ dec[c].sequence \in Nat
      /\ dec[c].sequence <= LastOf(adopted[c])
  <2>1. ByteTypeOK /\ LivesOK
    BY TypeOKImpliesLivesOK DEF ByteInvariant
  <2>2. m.life \in 1..life /\ adopted[c] \in 1..life /\ m.packet.sequence \in Nat
    BY <2>1 DEF ByteTypeOK, Packets
  <2>3. dec[c].sequence \in Nat /\ dec[c].sequence <= LastOf(adopted[c])
    BY <2>1, PlacesInLog DEF ByteTypeOK
  <2>4. QED
    BY <2>1, <2>2, <2>3
<1>2. start[m.life] \in Nat /\ start[adopted[c]] \in Nat
  BY <1>1 DEF LivesOK
<1>3. dec[c].sequence < m.packet.sequence
  BY AppliedIsPublished
<1>4. CASE m.life = adopted[c]
  BY <1>1, <1>2, <1>3, <1>4 DEF Index
<1>5. CASE adopted[c] < m.life
  <2>1. /\ start[adopted[c]] + LastOf(adopted[c]) < start[m.life]
        /\ LastOf(adopted[c]) \in Nat
    BY <1>1, <1>5, LivesAreSegments
  <2>2. QED
    BY <1>1, <1>2, <2>1 DEF Index
<1>6. QED
  BY <1>1, <1>4, <1>5

\* A client that does not reset moves back only when it is given, after a
\* restart, a packet of an earlier life.
THEOREM ForwardUnlessLateHolds == Spec => ForwardUnlessLate
<1>. DEFINE Forward(c) == dec[c].sequence # None /\ dec'[c].sequence # None /\ dec'[c] # dec[c]
                            => Index(c) < Index(c)' \/ adopted'[c] < adopted[c]
<1>1. ASSUME ByteInvariant, Next, NEW c \in Clients
      PROVE  Forward(c)
  <2>1. ASSUME dec[c].sequence # None, dec'[c].sequence # None, dec'[c] # dec[c]
        PROVE  Index(c) < Index(c)' \/ adopted'[c] < adopted[c]
    <3>1. /\ dec \in [Clients -> Decoders]
          /\ adopted \in [Clients -> 1..life]
      BY <1>1 DEF ByteInvariant, ByteTypeOK
    <3>2. \A s \in State : Encode(s) \/ FailedEncode(s) \/ Restart(s) => dec' = dec
      BY DEF Encode, FailedEncode, Restart
    <3>3. \A e \in Clients : RecoverySnapshot(e) => dec' = dec
      BY DEF RecoverySnapshot
    <3>4. \A e \in Clients : Reset(e) => dec'[c] = dec[c] \/ dec'[c].sequence = None
      BY <3>1 DEF Reset, EmptyByteDecoder
    <3>5. PICK e \in Clients : Receive(e)
      BY <1>1, <2>1, <3>2, <3>3, <3>4 DEF Next
    <3>6. PICK m \in net[e] : Take(e, m)
      BY <3>5 DEF Receive
    <3>7. e = c /\ ByteOutcome(dec[c], Config, m.packet) = "Applied"
      BY <2>1, <3>1, <3>6 DEF Take, ByteApply
    <3>8. /\ dec'[c].sequence = m.packet.sequence
          /\ adopted'[c] = m.life
          /\ start' = start
      BY <3>1, <3>6, <3>7 DEF Take, ByteApply
    <3>9. QED
      BY <1>1, <2>1, <3>6, <3>7, <3>8, TakeMovesForward DEF Index
  <2>2. QED
    BY <2>1
<1>2. ByteInvariant /\ [Next]_vars => [\A c \in Clients : Forward(c)]_vars
  BY <1>1
<1>3. QED
  BY <1>2, ByteInvariance, PTL DEF Spec, ForwardUnlessLate
-----------------------------------------------------------------------------
(***************************************************************************)
(* Without late packets, all lives together are one stream.                *)
(***************************************************************************)
LEMMA NoLateInit == Init => NoLatePackets
BY DEF Init, NoLatePackets

LEMMA NoLateNext == ByteInvariant /\ NoLatePackets /\ [Next]_vars => NoLatePackets'
<1>1. SUFFICES ASSUME ByteInvariant, NoLatePackets, [Next]_vars, ~LateDelivery,
                      NEW c \in Clients, NEW m \in net'[c]
               PROVE  m.life = life'
  BY DEF NoLatePackets
<1>2. /\ \A e \in Clients : \A q \in net[e] : q.life = life
      /\ net \in [Clients -> SUBSET [life : 1..life, packet : Packets]]
  BY <1>1 DEF NoLatePackets, ByteInvariant, ByteTypeOK
<1>3. ASSUME NEW s \in State, Encode(s) PROVE m.life = life'
  BY <1>1, <1>2, <1>3 DEF Encode, Sent
<1>4. ASSUME NEW s \in State, Restart(s) PROVE m.life = life'
  BY <1>1, <1>4 DEF Restart
<1>5. ASSUME NEW e \in Clients, RecoverySnapshot(e) PROVE m.life = life'
  BY <1>1, <1>2, <1>5 DEF RecoverySnapshot, Sent
<1>6. CASE UNCHANGED <<life, net>>
  BY <1>1, <1>2, <1>6
<1>7. QED
  BY <1>1, <1>3, <1>4, <1>5, <1>6 DEF Next, FailedEncode, Receive, Take, Reset, vars

\* One more entry of the log is a publication: no client's view changes.
LEMMA ExtendPublishes ==
  ASSUME ByteInvariant, NEW s \in State, Extend(s), UNCHANGED <<dec, adopted>>,
         \A l \in 1..life : start'[l] = start[l]
  PROVE  Abstract!Publish
<1>1. Top \in Nat /\ DOMAIN log = 0..Top /\ ByteTypeOK
  BY TypeOKImpliesLivesOK DEF ByteInvariant, ByteTypeOK, LivesOK, Top
<1>2. Top \in DOMAIN log /\ Top + 1 \notin DOMAIN log
  BY <1>1
<1>3. \A c \in Clients : ViewOf(c)' = ViewOf(c)
  BY <1>1 DEF ViewOf, Index, ByteTypeOK
<1>4. QED
  BY <1>2, <1>3 DEF Extend, Abstract!Publish

LEMMA TakeAdopts ==
  ASSUME ByteInvariant, NEW c \in Clients, NEW m \in net[c], m.life = life, Take(c, m),
         ByteOutcome(dec[c], Config, m.packet) = "Applied"
  PROVE  Abstract!Adopt(c)
<1>. DEFINE n == start[m.life] + m.packet.sequence
<1>1. ByteTypeOK /\ n \in 0..Top /\ DOMAIN log = 0..Top /\ m.packet.sequence \in Nat
  BY PlacesInLog DEF ByteInvariant, ByteTypeOK, Packets
<1>2. /\ dec'[c] = [sequence |-> m.packet.sequence, state |-> log[n]]
      /\ adopted'[c] = m.life
      /\ \A e \in Clients : e # c => dec'[e] = dec[e] /\ adopted'[e] = adopted[e]
      /\ UNCHANGED <<log, start>>
  BY <1>1, AppliedIsPublished DEF Take, ByteApply, ByteTypeOK
<1>3. ViewOf(c) # None => ViewOf(c).index < n
  <2>1. SUFFICES ASSUME dec[c].sequence # None PROVE Index(c) < n
    BY DEF ViewOf
  <2>2. adopted[c] \in 1..life /\ life \in Nat
    BY <1>1, ByteBoundsAssumption DEF ByteTypeOK
  <2>3. QED
    BY <2>1, <2>2, TakeMovesForward
<1>4. m.packet.sequence # None
  BY <1>1, NoneAssumption
<1>5. ViewOf(c)' = [index |-> n, state |-> log[n]]
  BY <1>2, <1>4 DEF ViewOf, Index
<1>6. \A e \in Clients : e # c => ViewOf(e)' = ViewOf(e)
  BY <1>2 DEF ViewOf, Index
<1>7. [e \in Clients |-> ViewOf(e)]' =
        [[e \in Clients |-> ViewOf(e)] EXCEPT
           ![c] = [index |-> n, state |-> log[n]]]
  BY <1>5, <1>6
<1>8. n \in DOMAIN log /\ log' = log
  BY <1>1, <1>2
<1>9. log[n] \in Same(c, log[n])
  BY DEF Same
<1>. HIDE DEF n
<1>10. QED
  BY <1>3, <1>7, <1>8, <1>9 DEF Abstract!Adopt

LEMMA ByteStepRefines ==
  ASSUME ~LateDelivery
  PROVE  ByteInvariant /\ NoLatePackets /\ [Next]_vars =>
           [Abstract!Next]_<<log, [c \in Clients |-> ViewOf(c)]>>
<1>1. SUFFICES ASSUME ByteInvariant, NoLatePackets, [Next]_vars
               PROVE  \/ Abstract!Next
                      \/ UNCHANGED <<log, [c \in Clients |-> ViewOf(c)]>>
  OBVIOUS
<1>2. /\ dec \in [Clients -> Decoders]
      /\ adopted \in [Clients -> 1..life]
      /\ life \in Nat
  BY <1>1, ByteBoundsAssumption DEF ByteInvariant, ByteTypeOK
<1>3. ASSUME NEW s \in State, Encode(s) \/ FailedEncode(s)
      PROVE  Abstract!Publish
  BY <1>1, <1>3, ExtendPublishes DEF Encode, FailedEncode, TakeSequence
<1>4. ASSUME NEW s \in State, Restart(s)
      PROVE  Abstract!Publish
  <2>1. \A l \in 1..life : start'[l] = start[l]
    BY <1>2, <1>4 DEF Restart
  <2>2. QED
    BY <1>1, <1>4, <2>1, ExtendPublishes DEF Restart
<1>5. ASSUME UNCHANGED <<log, start, dec, adopted>>
      PROVE  UNCHANGED <<log, [c \in Clients |-> ViewOf(c)]>>
  BY <1>5 DEF ViewOf, Index
<1>6. ASSUME NEW c \in Clients, Receive(c)
      PROVE  Abstract!Adopt(c) \/ UNCHANGED <<log, start, dec, adopted>>
  <2>1. PICK m \in net[c] : Take(c, m)
    BY <1>6 DEF Receive
  <2>2. m.life = life
    BY <1>1 DEF NoLatePackets
  <2>3. CASE ByteOutcome(dec[c], Config, m.packet) = "Applied"
    BY <1>1, <2>1, <2>2, <2>3, TakeAdopts
  <2>4. CASE ByteOutcome(dec[c], Config, m.packet) # "Applied"
    BY <1>2, <2>1, <2>4 DEF Take, ByteApply
  <2>5. QED
    BY <2>3, <2>4
<1>7. ASSUME NEW c \in Clients, Reset(c)
      PROVE  Abstract!Forget(c)
  <2>1. /\ log' = log /\ start' = start /\ adopted' = adopted
        /\ dec'[c].sequence = None
        /\ \A e \in Clients : e # c => dec'[e] = dec[e]
    BY <1>2, <1>7 DEF Reset, EmptyByteDecoder
  <2>2. ViewOf(c)' = None /\ \A e \in Clients : e # c => ViewOf(e)' = ViewOf(e)
    BY <2>1 DEF ViewOf, Index
  <2>3. QED
    BY <2>1, <2>2 DEF Abstract!Forget
<1>8. ASSUME NEW c \in Clients, RecoverySnapshot(c)
      PROVE  UNCHANGED <<log, start, dec, adopted>>
  BY <1>8 DEF RecoverySnapshot
<1>9. CASE UNCHANGED vars
  BY <1>5, <1>9 DEF vars
<1>10. QED
  BY <1>1, <1>3, <1>4, <1>5, <1>6, <1>7, <1>8, <1>9 DEF Next, Abstract!Next

\* A transport that drops what a dead publisher sent makes all its lives one
\* authoritative stream: what clients show is published, and moves forward.
THEOREM ByteRefinement ==
  ASSUME ~LateDelivery
  PROVE  Spec => ImplementsStream
<1>1. Init => Abstract!Init
  BY DEF Init, EmptyByteDecoder, ViewOf, Abstract!Init, Abstract!InitialHistory
<1>2. ByteInvariant /\ NoLatePackets /\ [Next]_vars =>
        [Abstract!Next]_<<log, [c \in Clients |-> ViewOf(c)]>>
  BY ByteStepRefines
<1>3. QED
  BY <1>1, <1>2, NoLateInit, NoLateNext, ByteInitInductive, ByteNextInductive, PTL
  DEF Spec, ImplementsStream, Abstract!Spec
-----------------------------------------------------------------------------
(***************************************************************************)
(* Which packet is sent.                                                   *)
(***************************************************************************)
ChoiceStart(k) == k.start
ChoiceStep(k, choice, p) == ConsiderBoth(k.policy, choice, p)

Tries == INSTANCE FoldTheorems WITH Start <- ChoiceStart, Step <- ChoiceStep

\* What compression may make of a packet.
LEMMA CandidateSizes ==
  ASSUME HeaderLen \in Nat, NEW policy, PolicyOK(policy), NEW p \in Plain,
         NEW packed, packed = ZstdCandidate(p, policy.min_compression_savings_bytes)
  PROVE  /\ p.len \in Nat /\ ~p.compressed
         /\ EncodedLen(p) \in Nat /\ Score(policy, p) = EncodedLen(p)
         /\ packed.kind = p.kind /\ packed.len \in Nat /\ EncodedLen(packed) \in Nat
         /\ Score(policy, packed) \in Nat /\ EncodedLen(packed) <= Score(policy, packed)
         /\ EncodedLen(packed) <= EncodedLen(p)
         /\ packed.compressed => EncodedLen(packed) < EncodedLen(p)
         /\ ~packed.compressed => packed = p
<1>1. /\ p.len \in Nat /\ p.zstd \in Nat /\ ~p.compressed
      /\ p = [kind |-> p.kind, len |-> p.len, zstd |-> p.zstd, compressed |-> p.compressed]
  BY DEF Plain
<1>2. CASE p.len < MinZstdPayload \/ p.zstd + policy.min_compression_savings_bytes >= p.len
  <2>1. packed = p
    BY <1>2 DEF ZstdCandidate
  <2>. QED BY <1>1, <2>1 DEF EncodedLen, Score
<1>3. CASE ~(p.len < MinZstdPayload \/ p.zstd + policy.min_compression_savings_bytes >= p.len)
  <2>1. packed = [p EXCEPT !.len = p.zstd, !.compressed = TRUE]
    BY <1>1, <1>3 DEF ZstdCandidate
  <2>2. /\ packed.kind = p.kind /\ packed.len = p.zstd /\ packed.compressed = TRUE
    BY <1>1, <2>1
  <2>3. p.zstd < p.len
    BY <1>1, <1>3 DEF PolicyOK
  <2>. QED BY <1>1, <2>2, <2>3 DEF EncodedLen, Score, PolicyOK
<1>. QED BY <1>2, <1>3

\* There is a first of the candidates with the lowest score.
LEMMA FirstBestExists ==
  ASSUME NEW policy, NEW c, NEW n \in Nat \ {0}, DOMAIN c = 1..n,
         \A i \in 1..n : Score(policy, c[i]) \in Nat,
         NEW b, b = FirstBest(policy, c)
  PROVE  b \in 1..n /\ \A j \in 1..n : Score(policy, c[b]) <= Score(policy, c[j])
<1>. DEFINE score(i) == Score(policy, c[i])
            S == {score(i) : i \in 1..n}
<1>1. S \in SUBSET Nat /\ score(1) \in S
  OBVIOUS
<1>2. PICK low \in S : \A k \in S : low <= k
  BY <1>1, Tries!LeastExists
<1>. DEFINE L == {i \in 1..n : score(i) = low}
<1>3. L \in SUBSET Nat /\ L # {}
  OBVIOUS
<1>4. PICK i \in L : \A k \in L : i <= k
  BY <1>3, Tries!LeastExists
<1>5. i \in 1..n /\ score(i) = low /\ \A j \in 1..n : score(j) \in Nat /\ low <= score(j)
  BY <1>2
<1>6. \A j \in 1..(i - 1) : score(j) > score(i)
  <2>. TAKE j \in 1..(i - 1)
  <2>1. j \in 1..n /\ j \notin L
    BY <1>4, <1>5
  <2>. QED BY <1>5, <2>1
<1>. DEFINE Best(x) == /\ \A j \in DOMAIN c : Score(policy, c[x]) <= Score(policy, c[j])
                       /\ \A j \in 1..(x - 1) : Score(policy, c[j]) > Score(policy, c[x])
<1>7. \E x \in DOMAIN c : Best(x)
  BY <1>5, <1>6
<1>8. b = CHOOSE x \in DOMAIN c : Best(x)
  BY DEF FirstBest
<1>9. b \in DOMAIN c /\ Best(b)
  <2>. HIDE DEF Best
  <2>. QED BY <1>7, <1>8
<1>. QED BY <1>9

\* Whatever the policy, offering it a delta is never a loss: the choice is no
\* worse than without the delta, no larger than the plain snapshot, and a
\* delta is sent only where it saves what the policy asks for.
THEOREM NeverWorseHolds ==
  ASSUME HeaderLen \in Nat, NEW policy, PolicyOK(policy),
         policy.min_delta_savings_bytes \in Nat,
         NEW snapshot \in Plain, snapshot.kind = "Snapshot",
         NEW delta \in Plain
  PROVE  NeverWorse(policy, snapshot, delta)
<1>. DEFINE P == ZstdCandidate(snapshot, policy.min_compression_savings_bytes)
            Q == ZstdCandidate(delta, policy.min_compression_savings_bytes)
            a == Forms(policy, snapshot)
            d == IF DeltaAllowed(policy, snapshot, delta) THEN Forms(policy, delta) ELSE <<>>
            c == a \o d
            All == {snapshot, delta, P, Q}
            chosen == Select(policy, snapshot, delta)
            first == SelectInitial(policy, snapshot)
<1>1. /\ EncodedLen(snapshot) \in Nat /\ Score(policy, snapshot) = EncodedLen(snapshot)
      /\ \A p \in All : /\ Score(policy, p) \in Nat /\ EncodedLen(p) \in Nat
                        /\ EncodedLen(p) <= Score(policy, p)
      /\ P.kind = "Snapshot" /\ EncodedLen(Q) <= EncodedLen(delta)
  <2>1. /\ EncodedLen(snapshot) \in Nat /\ Score(policy, snapshot) = EncodedLen(snapshot)
        /\ P.kind = "Snapshot" /\ Score(policy, P) \in Nat /\ EncodedLen(P) \in Nat
        /\ EncodedLen(P) <= Score(policy, P)
    BY CandidateSizes
  <2>2. /\ EncodedLen(delta) \in Nat /\ Score(policy, delta) = EncodedLen(delta)
        /\ EncodedLen(Q) <= EncodedLen(delta)
        /\ Score(policy, Q) \in Nat /\ EncodedLen(Q) \in Nat
        /\ EncodedLen(Q) <= Score(policy, Q)
    BY CandidateSizes
  <2>. QED BY <2>1, <2>2
<1>2. a \in {<<snapshot>>, <<snapshot, P>>} /\ d \in {<<>>, <<delta>>, <<delta, Q>>}
      /\ (d # <<>> => DeltaAllowed(policy, snapshot, delta))
  BY DEF Forms
<1>. HIDE DEF a, d
<1>3. /\ a \in Seq({snapshot, P}) /\ Len(a) \in 1..2 /\ a[1] = snapshot
      /\ d \in Seq({delta, Q}) /\ Len(d) \in 0..2
  <2>1. \A x, y : /\ <<x>> \in Seq({x, y}) /\ Len(<<x>>) = 1 /\ <<x>>[1] = x
                 /\ <<x, y>> \in Seq({x, y}) /\ Len(<<x, y>>) = 2 /\ <<x, y>>[1] = x
                 /\ <<>> \in Seq({x, y}) /\ Len(<<>>) = 0
    OBVIOUS
  <2>2. 1 \in 1..2 /\ 2 \in 1..2 /\ {0, 1, 2} \subseteq 0..2
    OBVIOUS
  <2>. HIDE DEF P, Q
  <2>. QED BY <1>2, <2>1, <2>2
<1>4. /\ c \in Seq(All) /\ Len(c) = Len(a) + Len(d) /\ DOMAIN c = 1..Len(c)
      /\ DOMAIN a = 1..Len(a)
      /\ \A i \in 1..Len(a) : c[i] = a[i] /\ a[i] \in {snapshot, P}
      /\ \A i \in 1..Len(c) : i > Len(a) => Len(d) # 0 /\ c[i] \in {delta, Q}
  <2>1. /\ a \in Seq(All) /\ d \in Seq(All)
    BY <1>3
  <2>2. \A i \in 1..Len(c) : i > Len(a) => i - Len(a) \in 1..Len(d) /\ c[i] = d[i - Len(a)]
    BY <1>3, <2>1
  <2>. QED BY <1>3, <2>1, <2>2
<1>5. chosen = c[FirstBest(policy, c)] /\ first = a[FirstBest(policy, a)]
  BY DEF Select, SelectInitial, a, d
<1>. HIDE DEF c, P, Q, chosen, first
<1>6. /\ FirstBest(policy, c) \in 1..Len(c)
      /\ \A j \in 1..Len(c) : Score(policy, chosen) <= Score(policy, c[j])
  <2>1. Len(c) \in Nat \ {0} /\ \A i \in 1..Len(c) : Score(policy, c[i]) \in Nat
    <3>1. Len(a) \in {1, 2} /\ Len(d) \in Nat
      BY <1>3
    <3>2. \A i \in 1..Len(c) : c[i] \in All
      BY <1>4, <3>1
    <3>. QED BY ONLY <1>1, <1>4, <3>1, <3>2
  <2>2. \A b : b = FirstBest(policy, c) =>
          b \in 1..Len(c) /\ \A j \in 1..Len(c) : Score(policy, c[b]) <= Score(policy, c[j])
    BY ONLY <1>4, <2>1, FirstBestExists
  <2>. QED BY <1>5, <2>2
<1>7. FirstBest(policy, a) \in 1..Len(a)
  <2>1. Len(a) \in Nat \ {0} /\ \A i \in 1..Len(a) : Score(policy, a[i]) \in Nat
    <3>1. Len(a) \in {1, 2} /\ Len(d) \in Nat
      BY <1>3
    <3>2. \A i \in 1..Len(a) : a[i] \in All
      BY <1>4, <3>1
    <3>. QED BY ONLY <1>1, <1>4, <3>1, <3>2
  <2>2. \A b : b = FirstBest(policy, a) => b \in 1..Len(a)
    BY ONLY <1>4, <2>1, FirstBestExists
  <2>. QED BY <2>2
<1>8. chosen \in All
  BY <1>4, <1>5, <1>6
<1>9. Score(policy, chosen) <= Score(policy, first)
  <2>1. FirstBest(policy, a) \in 1..Len(c) /\ c[FirstBest(policy, a)] = first
    BY <1>3, <1>4, <1>5, <1>7
  <2>. QED BY <1>6, <2>1
<1>10. EncodedLen(chosen) <= EncodedLen(snapshot)
  <2>1. 1 \in 1..Len(c) /\ c[1] = snapshot
    BY <1>3, <1>4
  <2>2. Score(policy, chosen) <= EncodedLen(snapshot)
    BY <1>1, <1>6, <2>1
  <2>. QED BY <1>1, <1>8, <2>2
<1>11. ASSUME chosen.kind = "Delta"
       PROVE  EncodedLen(chosen) + policy.min_delta_savings_bytes <= EncodedLen(snapshot)
  <2>1. FirstBest(policy, c) > Len(a)
    <3>1. chosen \notin {snapshot, P}
      BY <1>1, <1>11
    <3>. QED BY <1>3, <1>4, <1>5, <1>6, <3>1
  <2>2. Len(d) # 0 /\ chosen \in {delta, Q}
    BY <1>4, <1>5, <1>6, <2>1
  <2>3. DeltaAllowed(policy, snapshot, delta)
    BY <1>2, <2>2
  <2>4. EncodedLen(delta) + policy.min_delta_savings_bytes <= EncodedLen(snapshot)
    BY <2>3 DEF DeltaAllowed
  <2>. QED BY <1>1, <2>2, <2>4 DEF PolicyOK
<1>. QED BY <1>9, <1>10, <1>11 DEF NeverWorse, chosen, first

-----------------------------------------------------------------------------
\* One packet considered.
LEMMA ConsiderBothKeeps ==
  ASSUME HeaderLen \in Nat, NEW policy, PolicyOK(policy), NEW p \in Plain,
         NEW choice, choice = [tuner |-> choice.tuner, best |-> choice.best,
                               score |-> choice.score],
         choice.score \in Nat, choice.score = Score(policy, choice.best),
         NEW after, after = ConsiderBoth(policy, choice, p)
  PROVE  /\ after = [tuner |-> after.tuner, best |-> after.best, score |-> after.score]
         /\ after.score \in Nat /\ after.score = Score(policy, after.best)
         /\ after.score <= choice.score /\ after.score <= EncodedLen(p)
<1>. DEFINE packed == Packed(policy, p)
            plain == IF EncodedLen(p) < choice.score
                     THEN [choice EXCEPT !.best = p, !.score = EncodedLen(p)] ELSE choice
            tried == policy.enable_zstd /\ ShouldTryZstd(choice.tuner, p.len)
            wins == tried /\ packed.compressed /\ Score(policy, packed) < plain.score
<1>1. /\ EncodedLen(p) \in Nat /\ Score(policy, p) = EncodedLen(p)
      /\ Score(policy, packed) \in Nat
  BY CandidateSizes DEF Packed
<1>2. after = [tuner |-> IF tried THEN TunerObserve(choice.tuner, EncodedLen(p), EncodedLen(packed))
                         ELSE choice.tuner,
               best  |-> IF wins THEN packed ELSE plain.best,
               score |-> IF wins THEN Score(policy, packed) ELSE plain.score]
  BY DEF ConsiderBoth
<1>3. /\ plain.score \in Nat /\ plain.score = Score(policy, plain.best)
      /\ plain.score <= choice.score /\ plain.score <= EncodedLen(p)
  BY <1>1
<1>. HIDE DEF packed, plain, tried, wins
<1>4. /\ after.best = IF wins THEN packed ELSE plain.best
      /\ after.score = IF wins THEN Score(policy, packed) ELSE plain.score
      /\ after = [tuner |-> after.tuner, best |-> after.best, score |-> after.score]
  BY <1>2
<1>5. wins => Score(policy, packed) < plain.score
  BY DEF wins
<1>. QED BY <1>1, <1>3, <1>4, <1>5

\* Whatever the tuner has tried, ByteStateEncoder sends what costs no more
\* than the snapshot or any family, the penalty for compression included.
THEOREM ByteChoiceHolds ==
  ASSUME HeaderLen \in Nat, NEW policy, PolicyOK(policy), NEW tuner,
         NEW snapshot \in Plain, NEW deltas \in Seq(Plain)
  PROVE  ByteChoiceSound(policy, tuner, snapshot, deltas)
<1>. DEFINE s == <<snapshot>> \o deltas
            begin == [tuner |-> tuner, best |-> snapshot, score |-> EncodedLen(snapshot)]
            k == [start |-> begin, policy |-> policy]
            Good(choice, i) ==
              /\ choice = [tuner |-> choice.tuner, best |-> choice.best, score |-> choice.score]
              /\ choice.score \in Nat /\ choice.score = Score(policy, choice.best)
              /\ \A j \in 1..i : choice.score <= EncodedLen(s[j])
            T == {i \in Nat : i <= Len(s) => Good(Tries!Fold(k, SubSeq(s, 1, i)), i)}
<1>1. s \in Seq(Plain) /\ Len(s) \in Nat /\ DOMAIN s = 1..Len(s)
  OBVIOUS
<1>2. k.start = begin /\ k.policy = policy
  OBVIOUS
<1>. HIDE DEF s, k
<1>3. 0 \in T
  <2>1. SubSeq(s, 1, 0) = <<>>
    BY <1>1
  <2>2. Tries!Fold(k, <<>>) = begin
    BY <1>2, Tries!FoldEmpty DEF ChoiceStart
  <2>3. EncodedLen(snapshot) \in Nat /\ Score(policy, snapshot) = EncodedLen(snapshot)
    BY CandidateSizes
  <2>4. Good(begin, 0)
    BY <2>3
  <2>. QED BY <2>1, <2>2, <2>4
<1>4. ASSUME NEW i \in T PROVE i + 1 \in T
  <2>. SUFFICES ASSUME i + 1 <= Len(s)
                PROVE  Good(Tries!Fold(k, SubSeq(s, 1, i + 1)), i + 1)
    OBVIOUS
  <2>. DEFINE before == Tries!Fold(k, SubSeq(s, 1, i))
              after == Tries!Fold(k, SubSeq(s, 1, i + 1))
  <2>1. /\ SubSeq(s, 1, i) \in Seq(Plain) /\ s[i + 1] \in Plain
        /\ SubSeq(s, 1, i + 1) = Append(SubSeq(s, 1, i), s[i + 1])
    BY <1>1, Tries!PrefixGrows
  <2>2. Tries!Fold(k, Append(SubSeq(s, 1, i), s[i + 1])) = ChoiceStep(k, before, s[i + 1])
    <3>1. \A t \in Seq(Plain), e \in Plain :
            Tries!Fold(k, Append(t, e)) = ChoiceStep(k, Tries!Fold(k, t), e)
      BY ONLY Tries!FoldAppend
    <3>. QED BY <2>1, <3>1
  <2>3. after = ConsiderBoth(policy, before, s[i + 1])
    BY <1>2, <2>1, <2>2 DEF ChoiceStep
  <2>4. Good(before, i)
    BY <1>1
  <2>. HIDE DEF before, after
  <2>5. /\ after = [tuner |-> after.tuner, best |-> after.best, score |-> after.score]
        /\ after.score \in Nat /\ after.score = Score(policy, after.best)
        /\ after.score <= before.score /\ after.score <= EncodedLen(s[i + 1])
    <3>1. /\ before = [tuner |-> before.tuner, best |-> before.best, score |-> before.score]
          /\ before.score \in Nat /\ before.score = Score(policy, before.best)
      BY <2>4
    <3>. QED BY ONLY HeaderLen \in Nat, PolicyOK(policy), <2>1, <2>3, <3>1, ConsiderBothKeeps
  <2>6. \A j \in 1..(i + 1) : after.score <= EncodedLen(s[j])
    <3>1. \A j \in 1..i : EncodedLen(s[j]) \in Nat
      <4>. TAKE j \in 1..i
      <4>1. s[j] \in Plain
        BY <1>1
      <4>. QED BY <4>1, CandidateSizes
    <3>. QED BY <2>4, <2>5, <3>1
  <2>. QED BY <2>5, <2>6 DEF after
<1>5. T = Nat
  <2>. HIDE DEF T
  <2>1. T \in SUBSET Nat
    BY DEF T
  <2>. QED BY <1>3, <1>4, <2>1, Tries!SetInduction
<1>6. Good(Tries!Fold(k, s), Len(s))
  <2>1. SubSeq(s, 1, Len(s)) = s
    BY <1>1, SubSeqFull
  <2>2. Len(s) \in T
    BY <1>1, <1>5
  <2>3. Good(Tries!Fold(k, SubSeq(s, 1, Len(s))), Len(s))
    <3>. HIDE DEF Good
    <3>. QED BY <1>1, <2>2
  <2>. QED BY <2>1, <2>3
<1>7. ByteChoice(policy, tuner, snapshot, deltas) = Tries!Fold(k, s)
  BY <1>2 DEF ByteChoice, Tries!Fold, ChoiceStart, ChoiceStep, FoldLeft, Tries!FoldLeft,
              MapThenFoldSet, Tries!MapThenFoldSet, Max, Tries!Max, s
<1>8. Range(s) = {s[j] : j \in 1..Len(s)}
  BY <1>1 DEF Range
<1>. QED BY <1>6, <1>7, <1>8 DEF ByteChoiceSound, s

-----------------------------------------------------------------------------
FastStart(k) == k.start
FastStep(k, choice, kind) == ConsiderFast(k.policy, choice, k.deltas[kind])

Shortlisted == INSTANCE FoldTheorems WITH Start <- FastStart, Step <- FastStep

\* One or two families tried, one after the other.
LEMMA ShortlistedFolds ==
  ASSUME NEW k, NEW x \in SmartKinds, NEW y \in SmartKinds
  PROVE  /\ Shortlisted!Fold(k, <<x>>) = FastStep(k, FastStart(k), x)
         /\ Shortlisted!Fold(k, <<x, y>>) = FastStep(k, FastStep(k, FastStart(k), x), y)
<1>1. Shortlisted!Fold(k, <<>>) = FastStart(k)
  BY Shortlisted!FoldEmpty
<1>2. \A t \in Seq(SmartKinds), e \in SmartKinds :
        Shortlisted!Fold(k, Append(t, e)) = FastStep(k, Shortlisted!Fold(k, t), e)
  BY ONLY Shortlisted!FoldAppend
<1>3. /\ <<>> \in Seq(SmartKinds) /\ <<x>> \in Seq(SmartKinds)
      /\ Append(<<>>, x) = <<x>> /\ Append(<<x>>, y) = <<x, y>>
  <2>1. \A e, f : Append(<<>>, e) = <<e>> /\ Append(<<e>>, f) = <<e, f>>
    <3>. TAKE e, f
    <3>. DEFINE S == {e, f}
    <3>1. /\ Append(<<>>, e) \in Seq(S) /\ <<e>> \in Seq(S)
          /\ Len(Append(<<>>, e)) = 1 /\ Len(<<e>>) = 1
          /\ Append(<<>>, e)[1] = e /\ <<e>>[1] = e
      OBVIOUS
    <3>2. Append(<<>>, e) = <<e>>
      BY ONLY <3>1, SeqEqual
    <3>3. /\ Append(<<e>>, f) \in Seq(S) /\ <<e, f>> \in Seq(S)
          /\ Len(Append(<<e>>, f)) = 2 /\ Len(<<e, f>>) = 2
          /\ \A i \in 1..2 : Append(<<e>>, f)[i] = <<e, f>>[i]
      OBVIOUS
    <3>4. Append(<<e>>, f) = <<e, f>>
      BY ONLY <3>3, SeqEqual
    <3>. QED BY <3>2, <3>4
  <2>2. <<>> \in Seq(SmartKinds) /\ <<x>> \in Seq(SmartKinds)
    OBVIOUS
  <2>. QED BY <2>1, <2>2
<1>4. Shortlisted!Fold(k, <<x>>) = FastStep(k, FastStart(k), x)
  BY <1>1, <1>2, <1>3
<1>. QED BY <1>2, <1>3, <1>4

\* One family tried.
LEMMA ConsiderFastKeeps ==
  ASSUME HeaderLen \in Nat, NEW policy, PolicyOK(policy), NEW p \in Plain,
         NEW choice, choice = [advisor |-> choice.advisor, best |-> choice.best],
         EncodedLen(choice.best) \in Nat,
         NEW after, after = ConsiderFast(policy, choice, p)
  PROVE  /\ after = [advisor |-> after.advisor, best |-> after.best]
         /\ EncodedLen(after.best) \in Nat
         /\ EncodedLen(after.best) <= EncodedLen(choice.best)
         /\ EncodedLen(after.best) <= EncodedLen(p)
         /\ after.best.kind \in {choice.best.kind, p.kind}
<1>. DEFINE packed == Packed(policy, p)
            best == choice.best
<1>1. /\ EncodedLen(p) \in Nat /\ EncodedLen(packed) \in Nat
      /\ EncodedLen(packed) <= EncodedLen(p) /\ packed.kind = p.kind
  BY CandidateSizes DEF Packed
<1>2. /\ after = [advisor |-> after.advisor, best |-> after.best]
      /\ after.best \in {Smaller(p, best), Smaller(packed, Smaller(p, best))}
  <2>1. [choice EXCEPT !.best = Smaller(p, @)]
          = [advisor |-> choice.advisor, best |-> Smaller(p, best)]
    OBVIOUS
  <2>. QED BY <2>1 DEF ConsiderFast
<1>. HIDE DEF packed, best
<1>. QED BY <1>1, <1>2 DEF Smaller, best

\* What is shortlisted can express the change.
LEMMA ShortlistFits ==
  ASSUME NEW a, NEW profile, profile.resized \in BOOLEAN
  PROVE  \E x, y \in SmartKinds :
           /\ Shortlist(a, profile) \in {<<x>>, <<x, y>>}
           /\ Encodable(x, profile) /\ Encodable(y, profile)
<1>1. CASE profile.resized
  BY <1>1 DEF Shortlist, Encodable, SmartKinds, AnyLengthKinds
<1>2. CASE ~profile.resized /\ Dominant(a) # {} /\ ~ShouldExplore(a)
  <2>1. PICK x \in SmartKinds : x = CHOOSE kind \in Dominant(a) : TRUE
    <3>1. (CHOOSE kind \in Dominant(a) : TRUE) \in Dominant(a)
      BY <1>2
    <3>. QED BY <3>1 DEF Dominant
  <2>2. Shortlist(a, profile) = <<x>>
    BY <1>2, <2>1 DEF Shortlist
  <2>. QED BY <1>2, <2>2 DEF Encodable
<1>3. CASE ~profile.resized /\ ~(Dominant(a) # {} /\ ~ShouldExplore(a))
  <2>1. Shortlist(a, profile) = ByShape(profile)
    BY <1>3 DEF Shortlist
  <2>2. ByShape(profile) \in {<<"Sparse", "Ranges">>, <<"Xor", "Ranges">>, <<"Ranges", "Sparse">>}
    BY DEF ByShape
  <2>3. {"Sparse", "Ranges", "Xor"} \subseteq SmartKinds
    BY DEF SmartKinds, SameLengthKinds
  <2>. QED BY <1>3, <2>1, <2>2, <2>3 DEF Encodable
<1>. QED BY <1>1, <1>2, <1>3

\* Whatever the advisor has learned, FastByteStateEncoder tries one or two
\* families that can express the change and sends nothing larger than the
\* snapshot or what it tried.
THEOREM FastChoiceHolds ==
  ASSUME HeaderLen \in Nat, NEW policy, PolicyOK(policy), NEW advisor,
         NEW profile, profile.resized \in BOOLEAN,
         NEW snapshot \in Plain, snapshot.kind = "Snapshot",
         NEW deltas, \A kind \in SmartKinds : deltas[kind] \in Plain /\ deltas[kind].kind = kind
  PROVE  FastChoiceSound(policy, advisor, profile, snapshot, deltas)
<1>. DEFINE kinds == Shortlist(advisor, profile)
            begin == [advisor |-> advisor, best |-> snapshot]
            k == [start |-> begin, policy |-> policy, deltas |-> deltas]
            folded == Shortlisted!Fold(k, kinds)
            sent == FastChoice(policy, advisor, profile, snapshot, deltas).best
<1>1. PICK x, y \in SmartKinds : /\ kinds \in {<<x>>, <<x, y>>}
                                 /\ Encodable(x, profile) /\ Encodable(y, profile)
  BY ShortlistFits
<1>2. k.start = begin /\ k.policy = policy /\ k.deltas = deltas
  OBVIOUS
<1>3. /\ EncodedLen(snapshot) \in Nat
      /\ \A kind \in SmartKinds : EncodedLen(deltas[kind]) \in Nat
  BY CandidateSizes
<1>. HIDE DEF kinds, k
<1>. DEFINE one == FastStep(k, begin, x)
            two == FastStep(k, one, y)
<1>4. Shortlisted!Fold(k, <<x>>) = one /\ Shortlisted!Fold(k, <<x, y>>) = two
  BY <1>2, ShortlistedFolds DEF FastStart
<1>5. /\ one = ConsiderFast(policy, begin, deltas[x])
      /\ two = ConsiderFast(policy, one, deltas[y])
  BY <1>2 DEF FastStep
<1>. HIDE DEF one, two
<1>6. /\ one = [advisor |-> one.advisor, best |-> one.best]
      /\ EncodedLen(one.best) \in Nat
      /\ EncodedLen(one.best) <= EncodedLen(snapshot)
      /\ EncodedLen(one.best) <= EncodedLen(deltas[x])
      /\ one.best.kind \in {"Snapshot", x}
  <2>1. begin = [advisor |-> begin.advisor, best |-> begin.best] /\ begin.best = snapshot
    OBVIOUS
  <2>. HIDE DEF begin
  <2>2. deltas[x] \in Plain
    OBVIOUS
  <2>3. /\ one = [advisor |-> one.advisor, best |-> one.best]
        /\ EncodedLen(one.best) \in Nat
        /\ EncodedLen(one.best) <= EncodedLen(begin.best)
        /\ EncodedLen(one.best) <= EncodedLen(deltas[x])
        /\ one.best.kind \in {begin.best.kind, deltas[x].kind}
    BY ONLY HeaderLen \in Nat, PolicyOK(policy), <1>3, <1>5, <2>1, <2>2, ConsiderFastKeeps
  <2>. QED BY <2>1, <2>3
<1>7. /\ two = [advisor |-> two.advisor, best |-> two.best]
      /\ EncodedLen(two.best) \in Nat
      /\ EncodedLen(two.best) <= EncodedLen(one.best)
      /\ EncodedLen(two.best) <= EncodedLen(deltas[y])
      /\ two.best.kind \in {one.best.kind, y}
  <2>1. deltas[y] \in Plain /\ deltas[y].kind = y
    OBVIOUS
  <2>2. /\ two = [advisor |-> two.advisor, best |-> two.best]
        /\ EncodedLen(two.best) \in Nat
        /\ EncodedLen(two.best) <= EncodedLen(one.best)
        /\ EncodedLen(two.best) <= EncodedLen(deltas[y])
        /\ two.best.kind \in {one.best.kind, deltas[y].kind}
    BY ONLY HeaderLen \in Nat, PolicyOK(policy), <1>5, <1>6, <2>1, ConsiderFastKeeps
  <2>. QED BY <2>1, <2>2
<1>8. sent = folded.best
  <2>1. folded = FoldLeft(LAMBDA c, kind : ConsiderFast(policy, c, deltas[kind]), begin, kinds)
    BY <1>2 DEF Shortlisted!Fold, FastStart, FastStep, FoldLeft, Shortlisted!FoldLeft,
                MapThenFoldSet, Shortlisted!MapThenFoldSet, Max, Shortlisted!Max
  <2>2. folded = [advisor |-> folded.advisor, best |-> folded.best]
    BY <1>1, <1>4, <1>6, <1>7
  <2>3. \E a : FastChoice(policy, advisor, profile, snapshot, deltas) = [folded EXCEPT !.advisor = a]
    <3>. HIDE DEF folded
    <3>. QED BY <2>1 DEF FastChoice, kinds
  <2>. HIDE DEF folded
  <2>. QED BY <2>2, <2>3
<1>9. EncodedLen(FastFirst(policy, snapshot)) <= EncodedLen(snapshot)
  <2>1. EncodedLen(Packed(policy, snapshot)) \in Nat
    BY CandidateSizes DEF Packed
  <2>. QED BY <1>3, <2>1 DEF FastFirst, Smaller
<1>. HIDE DEF sent, folded
<1>10. CASE kinds = <<x>>
  <2>1. sent = one.best
    BY <1>4, <1>8, <1>10 DEF folded
  <2>2. DOMAIN kinds = {1} /\ Len(kinds) \in 1..2 /\ kinds[1] = x /\ Range(kinds) = {x}
    BY <1>10 DEF Range
  <2>. QED BY <1>1, <1>6, <1>9, <2>1, <2>2 DEF FastChoiceSound, sent, kinds
<1>11. CASE kinds = <<x, y>>
  <2>1. sent = two.best
    BY <1>4, <1>8, <1>11 DEF folded
  <2>2. DOMAIN kinds = {1, 2} /\ Len(kinds) \in 1..2 /\ kinds[1] = x /\ kinds[2] = y
        /\ Range(kinds) = {x, y}
    BY <1>11 DEF Range
  <2>3. /\ EncodedLen(sent) <= EncodedLen(snapshot) /\ EncodedLen(sent) <= EncodedLen(deltas[x])
        /\ EncodedLen(sent) <= EncodedLen(deltas[y]) /\ sent.kind \in {"Snapshot", x, y}
    BY <1>3, <1>6, <1>7, <2>1
  <2>. QED BY <1>1, <1>9, <2>2, <2>3 DEF FastChoiceSound, sent, kinds
<1>. QED BY <1>1, <1>10, <1>11
-----------------------------------------------------------------------------
(***************************************************************************)
(* What the encoders learn over a run of updates (EncoderLearning).        *)
(***************************************************************************)
IsChoice(c) == c = [advisor |-> c.advisor, best |-> c.best]

IsAdvisor(a) == a = [winners |-> a.winners, updates |-> a.updates,
                     attempts |-> a.attempts, wins |-> a.wins]

\* Trying a family counts compressions and nothing else.
LEMMA ConsiderFastCounts ==
  ASSUME NEW policy, NEW p, NEW choice, IsChoice(choice), IsAdvisor(choice.advisor),
         NEW after, after = ConsiderFast(policy, choice, p)
  PROVE  /\ IsChoice(after) /\ IsAdvisor(after.advisor)
         /\ after.advisor.updates = choice.advisor.updates
<1>. DEFINE a == choice.advisor
<1>1. ASSUME NEW won, NEW b, b = ObserveCompression(a, won)
      PROVE  IsAdvisor(b) /\ b.updates = a.updates
  <2>1. b = [winners |-> a.winners, updates |-> a.updates, attempts |-> a.attempts + 1,
             wins |-> IF won THEN a.wins + 1 ELSE a.wins]
    <3>1. a = [winners |-> a.winners, updates |-> a.updates,
               attempts |-> a.attempts, wins |-> a.wins]
      BY DEF IsAdvisor
    <3>. HIDE DEF a
    <3>2. b = [a EXCEPT !.attempts = a.attempts + 1,
                        !.wins = IF won THEN a.wins + 1 ELSE a.wins]
      BY <1>1 DEF ObserveCompression
    <3>. QED BY <3>1, <3>2
  <2>. HIDE DEF a
  <2>. QED BY <2>1 DEF IsAdvisor
<1>2. [choice EXCEPT !.best = Smaller(p, @)] = [advisor |-> a, best |-> Smaller(p, choice.best)]
  BY DEF IsChoice
<1>3. \/ \E best : after = [advisor |-> a, best |-> best]
      \/ \E won, best : after = [advisor |-> ObserveCompression(a, won), best |-> best]
  BY <1>2 DEF ConsiderFast
<1>. HIDE DEF a
<1>4. CASE \E best : after = [advisor |-> a, best |-> best]
  <2>1. IsChoice(after) /\ after.advisor = a
    BY <1>4 DEF IsChoice
  <2>. QED BY <2>1 DEF a
<1>5. CASE \E won, best : after = [advisor |-> ObserveCompression(a, won), best |-> best]
  <2>1. PICK won, best : after = [advisor |-> ObserveCompression(a, won), best |-> best]
    BY <1>5
  <2>2. IsChoice(after) /\ after.advisor = ObserveCompression(a, won)
    BY <2>1 DEF IsChoice
  <2>3. IsAdvisor(ObserveCompression(a, won)) /\ ObserveCompression(a, won).updates = a.updates
    BY <1>1
  <2>. QED BY <2>2, <2>3 DEF a
<1>. QED BY <1>3, <1>4, <1>5

\* An update counts, whatever it sends.
LEMMA FastChoiceCounts ==
  ASSUME NEW policy, NEW advisor, IsAdvisor(advisor),
         NEW profile, profile.resized \in BOOLEAN, NEW snapshot, NEW deltas,
         NEW after, after = FastChoice(policy, advisor, profile, snapshot, deltas).advisor
  PROVE  IsAdvisor(after) /\ after.updates = CountUpdate(advisor).updates
<1>. DEFINE kinds == Shortlist(advisor, profile)
            begin == [advisor |-> advisor, best |-> snapshot]
            k == [start |-> begin, policy |-> policy, deltas |-> deltas]
            folded == Shortlisted!Fold(k, kinds)
            Kept(c) == IsChoice(c) /\ IsAdvisor(c.advisor) /\ c.advisor.updates = advisor.updates
<1>1. PICK x, y \in SmartKinds : kinds \in {<<x>>, <<x, y>>}
  BY ShortlistFits
<1>2. k.start = begin /\ k.policy = policy /\ k.deltas = deltas
  OBVIOUS
<1>3. Kept(begin)
  BY DEF IsChoice
<1>. HIDE DEF kinds, k, begin
<1>4. /\ Shortlisted!Fold(k, <<x>>) = FastStep(k, begin, x)
      /\ Shortlisted!Fold(k, <<x, y>>) = FastStep(k, FastStep(k, begin, x), y)
  BY <1>2, ShortlistedFolds DEF FastStart
<1>5. ASSUME NEW c, Kept(c), NEW z PROVE Kept(FastStep(k, c, z))
  <2>1. FastStep(k, c, z) = ConsiderFast(policy, c, deltas[z])
    BY <1>2 DEF FastStep
  <2>. QED BY <1>5, <2>1, ConsiderFastCounts
<1>6. Kept(folded)
  <2>. HIDE DEF Kept
  <2>1. Kept(FastStep(k, begin, x)) /\ Kept(FastStep(k, FastStep(k, begin, x), y))
    BY <1>3, <1>5
  <2>. QED BY <1>1, <1>4, <2>1
<1>7. folded = FoldLeft(LAMBDA c, kind : ConsiderFast(policy, c, deltas[kind]), begin, kinds)
  BY <1>2 DEF Shortlisted!Fold, FastStart, FastStep, FoldLeft, Shortlisted!FoldLeft,
              MapThenFoldSet, Shortlisted!MapThenFoldSet, Max, Shortlisted!Max
<1>. DEFINE b == folded.advisor
<1>8. after = ObserveNoDelta(b) \/ after = ObserveWinner(b, folded.best.kind)
  <2>1. FastChoice(policy, advisor, profile, snapshot, deltas)
          = [folded EXCEPT !.advisor = IF folded.best.kind = "Snapshot" THEN ObserveNoDelta(b)
                                       ELSE ObserveWinner(b, folded.best.kind)]
    BY <1>7 DEF FastChoice, kinds, begin
  <2>2. folded = [advisor |-> folded.advisor, best |-> folded.best]
    BY <1>6 DEF IsChoice
  <2>. HIDE DEF folded
  <2>. QED BY <2>1, <2>2
<1>9. IsAdvisor(b) /\ b.updates = advisor.updates
  BY <1>6
<1>. HIDE DEF b, folded
<1>. DEFINE n == IF ExploreEvery > 0 THEN (b.updates % ExploreEvery) + 1 ELSE b.updates
            counted == CountUpdate(b)
<1>10. counted = [winners |-> b.winners, updates |-> n, attempts |-> b.attempts, wins |-> b.wins]
  <2>1. b = [winners |-> b.winners, updates |-> b.updates,
             attempts |-> b.attempts, wins |-> b.wins]
    BY <1>9 DEF IsAdvisor
  <2>2. counted = [b EXCEPT !.updates = n]
    BY DEF CountUpdate
  <2>. HIDE DEF n
  <2>. QED BY <2>1, <2>2
<1>11. CountUpdate(advisor).updates = n
  <2>1. advisor = [winners |-> advisor.winners, updates |-> advisor.updates,
                   attempts |-> advisor.attempts, wins |-> advisor.wins]
    BY DEF IsAdvisor
  <2>2. CountUpdate(advisor) = [advisor EXCEPT !.updates = n]
    BY <1>9 DEF CountUpdate
  <2>. HIDE DEF n
  <2>. QED BY <2>1, <2>2
<1>. HIDE DEF n, counted
<1>12. CASE after = ObserveNoDelta(b)
  <2>1. after = [winners |-> b.winners, updates |-> n, attempts |-> b.attempts, wins |-> b.wins]
    BY <1>10, <1>12 DEF ObserveNoDelta, counted
  <2>. QED BY <1>11, <2>1 DEF IsAdvisor
<1>13. CASE after = ObserveWinner(b, folded.best.kind)
  <2>1. \E w : after = [counted EXCEPT !.winners = w]
    BY <1>13 DEF ObserveWinner, counted
  <2>2. PICK w : after = [winners |-> w, updates |-> n, attempts |-> b.attempts, wins |-> b.wins]
    BY <1>10, <2>1
  <2>. QED BY <1>11, <2>2 DEF IsAdvisor
<1>. QED BY <1>8, <1>12, <1>13

\* One family is tried only where there is a favourite and no exploration is
\* due.
LEMMA NarrowWithFavourite ==
  ASSUME NEW a, NEW profile, Len(Shortlist(a, profile)) = 1
  PROVE  Dominant(a) # {} /\ ~ShouldExplore(a)
<1>1. \A x, y : Len(<<x, y>>) = 2
  OBVIOUS
<1>2. Len(ByShape(profile)) = 2
  BY <1>1 DEF ByShape
<1>. QED BY <1>1, <1>2 DEF Shortlist

Tuners == [attempts : Nat, wins : Nat, min : TunerFloor..TunerCeiling]

\* Retuning stays between the floor and the ceiling.
LEMMA ObservingTunes ==
  ASSUME NEW t \in Tuners, NEW before, NEW after
  PROVE  TunerObserve(t, before, after) \in Tuners
<1>1. /\ t.attempts \in Nat /\ t.wins \in Nat /\ t.min \in Nat
      /\ TunerFloor \in Nat /\ TunerCeiling \in Nat
      /\ TunerFloor <= t.min /\ t.min <= TunerCeiling
  BY LearningAssumption DEF Tuners
<1>. DEFINE won == IF after < before THEN t.wins + 1 ELSE t.wins
            counted == [t EXCEPT !.attempts = t.attempts + 1, !.wins = won]
<1>2. counted \in Tuners /\ counted.min = t.min
  <2>1. won \in Nat /\ t.attempts + 1 \in Nat
    BY <1>1
  <2>2. t = [attempts |-> t.attempts, wins |-> t.wins, min |-> t.min]
    BY DEF Tuners
  <2>3. counted = [attempts |-> t.attempts + 1, wins |-> won, min |-> t.min]
    <3>. DEFINE n == t.attempts + 1
                c == counted
    <3>1. c = [t EXCEPT !.attempts = n, !.wins = won]
      OBVIOUS
    <3>. HIDE DEF n, won, c
    <3>2. c = [attempts |-> n, wins |-> won, min |-> t.min]
      BY <2>2, <3>1
    <3>. QED BY <3>2 DEF n, c
  <2>. HIDE DEF counted, won
  <2>. QED BY <1>1, <2>1, <2>3 DEF Tuners
<1>3. TunerObserve(t, before, after) = IF counted.attempts >= TunerBatch THEN Retuned(counted)
                                       ELSE counted
  BY DEF TunerObserve
<1>. HIDE DEF counted
<1>. DEFINE m == counted.min
            halved == m \div 2
<1>4. m \in Nat /\ TunerFloor <= m /\ m <= TunerCeiling /\ halved \in Nat /\ halved <= m
  BY <1>1, <1>2
<1>5. Retuned(counted) \in Tuners
  <2>1. Retuned(counted) \in {[attempts |-> 0, wins |-> 0, min |-> TunerCeiling],
                              [attempts |-> 0, wins |-> 0, min |-> TunerFloor],
                              [attempts |-> 0, wins |-> 0, min |-> m]}
                             \cup {[attempts |-> 0, wins |-> 0, min |-> x] :
                                     x \in {y \in {m * 2} : ~(y > TunerCeiling)}}
                             \cup {[attempts |-> 0, wins |-> 0, min |-> x] :
                                     x \in {y \in {halved} : ~(y < TunerFloor)}}
    BY DEF Retuned
  <2>2. ~(m * 2 > TunerCeiling) => m * 2 \in TunerFloor..TunerCeiling
    BY <1>1, <1>4
  <2>3. ~(halved < TunerFloor) => halved \in TunerFloor..TunerCeiling
    BY <1>1, <1>4
  <2>4. {TunerCeiling, TunerFloor, m} \subseteq TunerFloor..TunerCeiling
    BY <1>1, <1>4
  <2>. HIDE DEF halved, m
  <2>. QED BY <2>1, <2>2, <2>3, <2>4 DEF Tuners
<1>. QED BY <1>2, <1>3, <1>5

\* So does the byte encoder's choice, which observes every compression tried.
LEMMA ByteChoiceTunes ==
  ASSUME NEW policy, NEW tuner \in Tuners, NEW snapshot \in Plain, NEW deltas \in Seq(Plain)
  PROVE  ByteChoice(policy, tuner, snapshot, deltas).tuner \in Tuners
<1>. DEFINE s == <<snapshot>> \o deltas
            begin == [tuner |-> tuner, best |-> snapshot, score |-> EncodedLen(snapshot)]
            k == [start |-> begin, policy |-> policy]
            Good(choice) == choice.tuner \in Tuners
            T == {i \in Nat : i <= Len(s) => Good(Tries!Fold(k, SubSeq(s, 1, i)))}
<1>1. s \in Seq(Plain) /\ Len(s) \in Nat
  OBVIOUS
<1>2. k.start = begin /\ k.policy = policy
  OBVIOUS
<1>. HIDE DEF s, k
<1>3. 0 \in T
  <2>1. SubSeq(s, 1, 0) = <<>>
    BY <1>1
  <2>2. Tries!Fold(k, <<>>) = begin
    BY <1>2, Tries!FoldEmpty DEF ChoiceStart
  <2>3. Good(begin)
    OBVIOUS
  <2>. HIDE DEF Good, begin
  <2>. QED BY <2>1, <2>2, <2>3
<1>4. ASSUME NEW i \in T PROVE i + 1 \in T
  <2>. SUFFICES ASSUME i + 1 <= Len(s)
                PROVE  Good(Tries!Fold(k, SubSeq(s, 1, i + 1)))
    OBVIOUS
  <2>. DEFINE before == Tries!Fold(k, SubSeq(s, 1, i))
              after == Tries!Fold(k, SubSeq(s, 1, i + 1))
              p == s[i + 1]
  <2>1. /\ SubSeq(s, 1, i) \in Seq(Plain) /\ p \in Plain
        /\ SubSeq(s, 1, i + 1) = Append(SubSeq(s, 1, i), p)
    BY <1>1, Tries!PrefixGrows
  <2>2. Tries!Fold(k, Append(SubSeq(s, 1, i), p)) = ChoiceStep(k, before, p)
    <3>1. \A t \in Seq(Plain), e \in Plain :
            Tries!Fold(k, Append(t, e)) = ChoiceStep(k, Tries!Fold(k, t), e)
      BY ONLY Tries!FoldAppend
    <3>. HIDE DEF p
    <3>. QED BY <2>1, <3>1
  <2>3. after = ConsiderBoth(policy, before, p)
    BY <1>2, <2>1, <2>2 DEF ChoiceStep
  <2>4. before.tuner \in Tuners
    BY <1>1
  <2>. HIDE DEF before, after, p
  <2>5. after.tuner \in {before.tuner} \cup
          {TunerObserve(before.tuner, EncodedLen(p), EncodedLen(Packed(policy, p)))}
    BY <2>3 DEF ConsiderBoth
  <2>. QED BY <2>4, <2>5, ObservingTunes DEF after
<1>5. T = Nat
  <2>. HIDE DEF T
  <2>1. T \in SUBSET Nat
    BY DEF T
  <2>. QED BY <1>3, <1>4, <2>1, Tries!SetInduction
<1>6. Good(Tries!Fold(k, s))
  <2>1. SubSeq(s, 1, Len(s)) = s
    BY <1>1, SubSeqFull
  <2>2. Len(s) \in T
    BY <1>1, <1>5
  <2>. HIDE DEF Good
  <2>3. Good(Tries!Fold(k, SubSeq(s, 1, Len(s))))
    BY <1>1, <2>2
  <2>. QED BY <2>1, <2>3
<1>7. ByteChoice(policy, tuner, snapshot, deltas) = Tries!Fold(k, s)
  BY <1>2 DEF ByteChoice, Tries!Fold, ChoiceStart, ChoiceStep, FoldLeft, Tries!FoldLeft,
              MapThenFoldSet, Tries!MapThenFoldSet, Max, Tries!Max, s
<1>. QED BY <1>6, <1>7

\* The updates since the last exploration bound those that tried one family
\* only; before the first update there are no winners.
NarrowSinceExploring ==
  /\ IsAdvisor(memory)
  /\ memory.updates \in 0..ExploreEvery
  /\ narrow \in Nat
  /\ memory.updates = 0 => memory.winners = <<>> /\ narrow = 0
  /\ memory.updates # 0 => narrow < memory.updates

LearningInvariant ==
  /\ encoder \in EncoderKinds
  /\ offered \in Snapshots[encoder]
  /\ NarrowSinceExploring
  /\ tuning \in Tuners

LEMMA AdvisedKeepsCount ==
  ASSUME NarrowSinceExploring, NEW policy, NEW profile, profile.resized \in BOOLEAN,
         NEW offer,
         memory' = FastChoice(policy, memory, profile, offered, offer).advisor,
         narrow' = IF Len(Shortlist(memory, profile)) = 1 THEN narrow + 1 ELSE 0
  PROVE  NarrowSinceExploring'
<1>. DEFINE u == memory.updates
<1>1. ExploreEvery \in Nat \ {0} /\ MinWinners \in Nat \ {0}
  BY LearningAssumption
<1>2. u \in Nat /\ u <= ExploreEvery /\ narrow \in Nat
  BY <1>1 DEF NarrowSinceExploring
<1>3. IsAdvisor(memory') /\ memory'.updates = (u % ExploreEvery) + 1
  <2>1. IsAdvisor(memory') /\ memory'.updates = CountUpdate(memory).updates
    BY FastChoiceCounts DEF NarrowSinceExploring
  <2>2. CountUpdate(memory).updates = (u % ExploreEvery) + 1
    BY <1>1 DEF CountUpdate, NarrowSinceExploring, IsAdvisor
  <2>. QED BY <2>1, <2>2
<1>4. u % ExploreEvery = IF u = ExploreEvery THEN 0 ELSE u
  <2>1. CASE u = ExploreEvery
    <3>1. \A n \in Nat \ {0} : n % n = 0
      OBVIOUS
    <3>. QED BY <1>1, <2>1, <3>1
  <2>2. CASE u # ExploreEvery
    <3>1. \A m \in Nat, n \in Nat \ {0} : m < n => m % n = m
      OBVIOUS
    <3>2. u < ExploreEvery
      BY <1>1, <1>2, <2>2
    <3>. QED BY <1>1, <1>2, <2>2, <3>1, <3>2
  <2>. QED BY <2>1, <2>2
<1>5. ASSUME Len(Shortlist(memory, profile)) = 1 PROVE u # 0 /\ u # ExploreEvery
  <2>1. Dominant(memory) # {} /\ ~ShouldExplore(memory)
    BY <1>5, NarrowWithFavourite
  <2>2. u # 0
    <3>. SUFFICES ASSUME u = 0 PROVE FALSE
      OBVIOUS
    <3>1. Len(memory.winners) = 0
      BY DEF NarrowSinceExploring
    <3>. QED BY <1>1, <2>1, <3>1 DEF Dominant
  <2>3. u # ExploreEvery
    <3>1. \A n \in Nat \ {0} : n % n = 0 /\ n > 0
      OBVIOUS
    <3>. QED BY <1>1, <2>1, <3>1 DEF ShouldExplore
  <2>. QED BY <2>2, <2>3
<1>6. memory'.updates \in 1..ExploreEvery
  BY <1>1, <1>2, <1>3, <1>4
<1>7. narrow' \in Nat /\ narrow' < memory'.updates
  <2>1. CASE Len(Shortlist(memory, profile)) = 1
    <3>1. u # 0 /\ u # ExploreEvery /\ narrow < u
      BY <1>5, <2>1 DEF NarrowSinceExploring
    <3>2. narrow' = narrow + 1 /\ memory'.updates = u + 1
      BY <1>3, <1>4, <2>1, <3>1
    <3>. HIDE DEF u
    <3>. QED BY <1>2, <3>1, <3>2
  <2>2. CASE Len(Shortlist(memory, profile)) # 1
    BY <1>1, <1>6, <2>2
  <2>. QED BY <2>1, <2>2
<1>8. memory'.updates \in 0..ExploreEvery /\ memory'.updates # 0
  BY <1>1, <1>6
<1>. QED BY <1>3, <1>7, <1>8 DEF NarrowSinceExploring

\* The inductive invariant of what the encoders learn.
THEOREM LearningInvariance == LearningSpec => []LearningInvariant
<1>1. LearningInit => LearningInvariant
  <2>. SUFFICES ASSUME LearningInit PROVE LearningInvariant
    OBVIOUS
  <2>1. NarrowSinceExploring
    <3>1. ExploreEvery \in Nat
      BY LearningAssumption
    <3>2. memory = [winners |-> <<>>, updates |-> 0, attempts |-> 0, wins |-> 0] /\ narrow = 0
      BY DEF LearningInit, NewAdvisor
    <3>. QED BY <3>1, <3>2 DEF NarrowSinceExploring, IsAdvisor
  <2>2. tuning \in Tuners
    BY LearningAssumption DEF LearningInit, NewTuner, Tuners
  <2>. QED BY <2>1, <2>2 DEF LearningInit, LearningInvariant
<1>2. LearningInvariant /\ [LearningNext]_learningVars => LearningInvariant'
  <2>. SUFFICES ASSUME LearningInvariant, [LearningNext]_learningVars
                PROVE  LearningInvariant'
    OBVIOUS
  <2>1. CASE AdaptiveUpdate
    BY <2>1 DEF AdaptiveUpdate, LearningInvariant, NarrowSinceExploring
  <2>2. CASE AdvisedUpdate
    <3>1. PICK policy \in EncoderPolicies, profile \in Profiles, offer \in Offers :
            /\ memory' = FastChoice(policy, memory, profile, offered, offer).advisor
            /\ narrow' = IF Len(Shortlist(memory, profile)) = 1 THEN narrow + 1 ELSE 0
      BY <2>2 DEF AdvisedUpdate
    <3>2. profile.resized \in BOOLEAN
      BY OffersAssumption
    <3>3. NarrowSinceExploring'
      BY <3>1, <3>2, AdvisedKeepsCount DEF LearningInvariant
    <3>. QED BY <2>2, <3>3 DEF AdvisedUpdate, LearningInvariant
  <2>3. CASE TunedUpdate
    <3>1. PICK policy \in EncoderPolicies, deltas \in Families :
            tuning' = ByteChoice(policy, tuning, offered, deltas).tuner
      BY <2>3 DEF TunedUpdate
    <3>2. deltas \in Seq(Plain) /\ offered \in Plain /\ tuning \in Tuners
      BY OffersAssumption DEF LearningInvariant
    <3>3. tuning' \in Tuners
      BY <3>1, <3>2, ByteChoiceTunes
    <3>. QED BY <2>3, <3>3 DEF TunedUpdate, LearningInvariant, NarrowSinceExploring
  <2>4. CASE UNCHANGED learningVars
    BY <2>4 DEF learningVars, LearningInvariant, NarrowSinceExploring
  <2>. QED BY <2>1, <2>2, <2>3, <2>4 DEF LearningNext
<1>. QED BY <1>1, <1>2, PTL DEF LearningSpec

\* Whatever the encoder has gone through, no choice is shut out for good.
THEOREM LearningStaysOpenHolds == LearningSpec => []LearningStaysOpen
<1>1. LearningInvariant => LearningStaysOpen
  <2>. SUFFICES ASSUME LearningInvariant PROVE LearningStaysOpen
    OBVIOUS
  <2>1. /\ ExploreEvery \in Nat \ {0} /\ TunerFloor \in Nat /\ TunerCeiling \in Nat
    BY LearningAssumption
  <2>2. narrow < ExploreEvery
    <3>1. /\ memory.updates \in 0..ExploreEvery /\ narrow \in Nat
          /\ (memory.updates = 0 => narrow = 0) /\ (memory.updates # 0 => narrow < memory.updates)
      BY DEF LearningInvariant, NarrowSinceExploring
    <3>. QED BY <2>1, <3>1
  <2>3. tuning.min \in Nat /\ TunerFloor <= tuning.min /\ tuning.min <= TunerCeiling
    BY <2>1 DEF LearningInvariant, Tuners
  <2>4. ShouldTryZstd(tuning, TunerCeiling)
    BY <2>1, <2>3 DEF ShouldTryZstd
  <2>. QED BY <2>2, <2>4 DEF LearningStaysOpen
<1>. QED BY <1>1, LearningInvariance, PTL

\* Whatever policy Encoder has, offering a delta never costs.
THEOREM DeltaNeverCostsHolds == LearningSpec => []DeltaNeverCosts
<1>1. LearningInvariant => DeltaNeverCosts
  <2>. SUFFICES ASSUME LearningInvariant, encoder = "adaptive",
                       NEW policy \in AdaptivePolicies, NEW delta \in PlainDeltas
                PROVE  NeverWorse(policy, offered, delta)
    BY DEF DeltaNeverCosts
  <2>1. offered \in Plain /\ offered.kind = "Snapshot" /\ delta \in Plain
    BY OffersAssumption DEF LearningInvariant
  <2>2. HeaderLen \in Nat /\ PolicyOK(policy) /\ policy.min_delta_savings_bytes \in Nat
    BY EncoderPoliciesAssumption
  <2>. QED BY <2>1, <2>2, NeverWorseHolds
<1>. QED BY <1>1, LearningInvariance, PTL

\* Whatever the byte encoders have learned, they choose well.
THEOREM EncodersChooseWellHolds == LearningSpec => []EncodersChooseWell
<1>1. LearningInvariant => EncodersChooseWell
  <2>. SUFFICES ASSUME LearningInvariant PROVE EncodersChooseWell
    OBVIOUS
  <2>1. offered \in Plain /\ offered.kind = "Snapshot"
    BY OffersAssumption DEF LearningInvariant
  <2>2. ASSUME NEW policy \in EncoderPolicies PROVE HeaderLen \in Nat /\ PolicyOK(policy)
    BY EncoderPoliciesAssumption
  <2>3. ASSUME NEW policy \in EncoderPolicies, NEW profile \in Profiles, NEW offer \in Offers
        PROVE  FastChoiceSound(policy, memory, profile, offered, offer)
    <3>1. profile.resized \in BOOLEAN
      BY OffersAssumption
    <3>2. \A k \in SmartKinds : offer[k] \in Plain /\ offer[k].kind = k
      BY OffersAssumption
    <3>. QED BY <2>1, <2>2, <3>1, <3>2, FastChoiceHolds
  <2>4. ASSUME NEW policy \in EncoderPolicies, NEW deltas \in Families
        PROVE  ByteChoiceSound(policy, tuning, offered, deltas)
    <3>1. deltas \in Seq(Plain)
      BY OffersAssumption
    <3>. QED BY <2>1, <2>2, <3>1, ByteChoiceHolds
  <2>. QED BY <2>3, <2>4 DEF EncodersChooseWell
<1>. QED BY <1>1, LearningInvariance, PTL
-----------------------------------------------------------------------------
\* The bytes of a packet that can be written.
HeaderOf(p) ==
  << Magic, WireVersion, p.kind, p.flags, p.sequence, p.base_sequence,
     p.base_hash, p.schema_hash, Checksum(p.payload), Len(p.payload) >>

BytesOf(bytes, p) == bytes = HeaderOf(p) \o p.payload

Writable(p) == KnownFlag(p.flags) /\ Len(p.payload) <= MaxWirePayload

EnvelopeInvariant ==
  /\ written \in WirePackets
  /\ Writable(written)
  /\ ~damaged => BytesOf(wire, written)
  /\ damaged => \E bytes : BytesOf(bytes, written) /\ wire \in Damaged(bytes)

\* Where the header and the payload are in the bytes.
LEMMA BytesOfPacket ==
  ASSUME NEW p \in WirePackets, NEW bytes, BytesOf(bytes, p)
  PROVE  /\ \E T : bytes \in Seq(T) /\ Symbols \subseteq T
         /\ DOMAIN bytes = 1..Len(bytes)
         /\ Len(bytes) = WireHeaderLen + Len(p.payload)
         /\ Len(p.payload) \in Nat
         /\ \A i \in 1..WireHeaderLen : bytes[i] = HeaderOf(p)[i]
         /\ \A i \in 1..Len(p.payload) : bytes[WireHeaderLen + i] = p.payload[i]
<1>. DEFINE h == HeaderOf(p)
            q == p.payload
<1>1. q \in Seq(Symbols) /\ Len(q) \in Nat
  BY PacketsAssumption
<1>2. h \in Seq({h[i] : i \in 1..10}) /\ Len(h) = 10
  BY DEF HeaderOf
<1>. DEFINE T == {h[i] : i \in 1..10} \cup Symbols
<1>3. h \in Seq(T) /\ q \in Seq(T)
  <2>. HIDE DEF h, q
  <2>. QED BY <1>1, <1>2
<1>. HIDE DEF h, q, T
<1>4. /\ bytes \in Seq(T) /\ Len(bytes) = 10 + Len(q)
      /\ \A i \in 1..(Len(h) + Len(q)) :
           bytes[i] = IF i <= Len(h) THEN h[i] ELSE q[i - Len(h)]
  <2>1. bytes = h \o q
    BY DEF BytesOf, h, q
  <2>2. /\ h \o q \in Seq(T) /\ Len(h \o q) = Len(h) + Len(q)
        /\ \A i \in 1..(Len(h) + Len(q)) :
             (h \o q)[i] = IF i <= Len(h) THEN h[i] ELSE q[i - Len(h)]
    BY <1>3, ConcatProperties
  <2>. QED BY <1>2, <2>1, <2>2
<1>5. /\ DOMAIN bytes = 1..Len(bytes)
      /\ \A i \in 1..10 : bytes[i] = h[i]
      /\ \A i \in 1..Len(q) : bytes[10 + i] = q[i]
  BY <1>1, <1>2, <1>4
<1>6. \E X : bytes \in Seq(X) /\ Symbols \subseteq X
  BY <1>4 DEF T
<1>. QED BY <1>1, <1>4, <1>5, <1>6 DEF WireHeaderLen, h, q

\* No damage in one place that passes the checks touches the payload.
LEMMA DamagedPayload ==
  ASSUME NEW p \in WirePackets, NEW bytes, BytesOf(bytes, p),
         NEW d \in Damaged(bytes), Acceptable(d, DefaultLimit)
  PROVE  SubSeq(d, WireHeaderLen + 1, Len(d)) = p.payload
<1>. DEFINE q == p.payload
            r == SubSeq(d, 11, Len(d))
<1>1. /\ q \in Seq(Symbols) /\ Len(q) \in Nat
      /\ DOMAIN bytes = 1..Len(bytes) /\ Len(bytes) = 10 + Len(q)
      /\ \A i \in 1..10 : bytes[i] = HeaderOf(p)[i]
      /\ \A i \in 1..Len(q) : bytes[10 + i] = q[i]
  BY BytesOfPacket, PacketsAssumption DEF WireHeaderLen
<1>2. PICK T : bytes \in Seq(T) /\ Symbols \subseteq T
  BY BytesOfPacket
<1>3. bytes[9] = Checksum(q) /\ bytes[10] = Len(q)
  <2>1. HeaderOf(p)[9] = Checksum(q) /\ HeaderOf(p)[10] = Len(q)
    BY DEF HeaderOf
  <2>. QED BY <1>1, <2>1
<1>4. 10 <= Len(d) /\ 10 + d[10] = Len(d) /\ d[9] = Checksum(r)
  BY DEF Acceptable, WireHeaderLen
<1>. HIDE DEF q, r
<1>5. CASE \E n \in 0..(Len(bytes) - 1) : d = SubSeq(bytes, 1, n)
  <2>1. PICK n \in 0..(Len(bytes) - 1) : d = SubSeq(bytes, 1, n)
    BY <1>5
  <2>2. Len(d) = n /\ \A i \in 1..n : d[i] = bytes[i]
    BY <1>1, <1>2, <2>1
  <2>3. d[10] = Len(q)
    BY <1>1, <1>3, <1>4, <2>2
  <2>. QED BY <1>1, <1>4, <2>2, <2>3
<1>6. CASE \E s \in Symbols : d = Append(bytes, s)
  <2>1. PICK s \in Symbols : d = Append(bytes, s)
    BY <1>6
  <2>2. Len(d) = Len(bytes) + 1 /\ \A i \in 1..Len(bytes) : d[i] = bytes[i]
    BY <1>1, <1>2, <2>1
  <2>3. d[10] = Len(q)
    BY <1>1, <1>3, <2>2
  <2>. QED BY <1>1, <1>4, <2>2, <2>3
<1>7. CASE \E i \in 1..Len(bytes), s \in Symbols : d = [bytes EXCEPT ![i] = s]
  <2>1. PICK i \in 1..Len(bytes), s \in Symbols : d = [bytes EXCEPT ![i] = s]
    BY <1>7
  <2>2. /\ d \in Seq(T) /\ Len(d) = Len(bytes)
        /\ \A j \in 1..Len(bytes) : d[j] = IF j = i THEN s ELSE bytes[j]
    BY <1>1, <1>2, <2>1
  <2>3. /\ r \in Seq(T) /\ Len(r) = Len(q)
        /\ \A j \in 1..Len(q) : r[j] = d[10 + j]
    BY <1>1, <2>2 DEF r
  <2>4. q \in Seq(T)
    BY <1>1, <1>2
  <2>5. CASE i <= 10
    <3>1. \A j \in 1..Len(q) : r[j] = q[j]
      BY <1>1, <2>2, <2>3, <2>5
    <3>2. r = q
      BY <2>3, <2>4, <3>1
    <3>. QED BY <3>2 DEF r, q, WireHeaderLen
  <2>6. CASE i > 10
    <3>. DEFINE k == i - 10
    <3>1. k \in 1..Len(q)
      BY <1>1, <2>6
    <3>2. \A j \in 1..Len(q) : r[j] = IF j = k THEN s ELSE q[j]
      BY <1>1, <2>2, <2>3, <2>6
    <3>. HIDE DEF k
    <3>3. [q EXCEPT ![k] = s] \in Seq(T) /\ Len([q EXCEPT ![k] = s]) = Len(q)
      BY <1>2, <2>4, <3>1
    <3>4. r = [q EXCEPT ![k] = s]
      BY <2>3, <2>4, <3>1, <3>2, <3>3
    <3>5. d[9] = Checksum(q)
      BY <1>1, <1>3, <2>2, <2>6
    <3>6. s = q[k]
      BY <1>4, <3>1, <3>4, <3>5, ChecksumAssumption DEF q
    <3>7. r = q
      BY <2>3, <2>4, <3>2, <3>6
    <3>. QED BY <3>7 DEF r, q, WireHeaderLen
  <2>. QED BY <1>1, <2>5, <2>6
<1>. QED BY <1>5, <1>6, <1>7 DEF Damaged

\* What was not damaged passes every check, and is the packet again.
LEMMA IntactPacket ==
  ASSUME NEW p \in WirePackets, Writable(p), NEW limit \in Nat,
         NEW bytes, BytesOf(bytes, p)
  PROVE  DecodeWire(bytes, limit) = IF Len(bytes) <= limit THEN p ELSE Refused
<1>. DEFINE q == p.payload
            r == SubSeq(bytes, 11, Len(bytes))
<1>1. /\ q \in Seq(Symbols) /\ Len(q) \in Nat
      /\ DOMAIN bytes = 1..Len(bytes) /\ Len(bytes) = 10 + Len(q)
      /\ \A i \in 1..10 : bytes[i] = HeaderOf(p)[i]
      /\ \A i \in 1..Len(q) : bytes[10 + i] = q[i]
  BY BytesOfPacket, PacketsAssumption DEF WireHeaderLen
<1>2. PICK T : bytes \in Seq(T) /\ Symbols \subseteq T
  BY BytesOfPacket
<1>3. /\ bytes[1] = Magic /\ bytes[2] = WireVersion /\ bytes[3] = p.kind
      /\ bytes[4] = p.flags /\ bytes[5] = p.sequence /\ bytes[6] = p.base_sequence
      /\ bytes[7] = p.base_hash /\ bytes[8] = p.schema_hash
      /\ bytes[9] = Checksum(q) /\ bytes[10] = Len(q)
  <2>1. /\ HeaderOf(p)[1] = Magic /\ HeaderOf(p)[2] = WireVersion /\ HeaderOf(p)[3] = p.kind
        /\ HeaderOf(p)[4] = p.flags /\ HeaderOf(p)[5] = p.sequence
        /\ HeaderOf(p)[6] = p.base_sequence /\ HeaderOf(p)[7] = p.base_hash
        /\ HeaderOf(p)[8] = p.schema_hash /\ HeaderOf(p)[9] = Checksum(q)
        /\ HeaderOf(p)[10] = Len(q)
    BY DEF HeaderOf
  <2>. HIDE DEF q
  <2>. QED BY <1>1, <2>1
<1>. HIDE DEF q
<1>4. r = q
  <2>1. /\ r \in Seq(T) /\ Len(r) = Len(q)
        /\ \A j \in 1..Len(q) : r[j] = bytes[10 + j]
    BY <1>1, <1>2
  <2>2. q \in Seq(T)
    BY <1>1, <1>2
  <2>. HIDE DEF r
  <2>. QED BY <1>1, <2>1, <2>2
<1>. HIDE DEF r
<1>5. /\ p.kind \in PacketKinds /\ KnownFlag(p.flags)
      /\ Len(q) <= MaxWirePayload
      /\ p = [kind |-> p.kind, flags |-> p.flags, sequence |-> p.sequence,
              base_sequence |-> p.base_sequence, base_hash |-> p.base_hash,
              schema_hash |-> p.schema_hash, payload |-> q]
  BY PacketsAssumption DEF Writable, q
<1>6. Acceptable(bytes, limit) <=> Len(bytes) <= limit
  <2>1. SubSeq(bytes, WireHeaderLen + 1, Len(bytes)) = q
    BY <1>4 DEF r, WireHeaderLen
  <2>2. WireVersion \in MinWireVersion..WireVersion
    BY VersionsAssumption
  <2>3. /\ Len(bytes) \in WireHeaderLen..limit <=> Len(bytes) <= limit
        /\ WireHeaderLen + bytes[10] = Len(bytes)
    BY <1>1, <1>3 DEF WireHeaderLen
  <2>4. /\ bytes[1] = Magic /\ bytes[2] \in MinWireVersion..WireVersion
        /\ bytes[3] \in PacketKinds /\ KnownFlag(bytes[4])
        /\ bytes[10] <= MaxWirePayload
        /\ bytes[9] = Checksum(SubSeq(bytes, WireHeaderLen + 1, Len(bytes)))
    BY <1>3, <1>5, <2>1, <2>2
  <2>. QED BY <2>3, <2>4 DEF Acceptable
<1>7. CASE Len(bytes) <= limit
  <2>1. DecodeWire(bytes, limit)
          = [kind |-> bytes[3], flags |-> bytes[4], sequence |-> bytes[5],
             base_sequence |-> bytes[6], base_hash |-> bytes[7],
             schema_hash |-> bytes[8], payload |-> r]
    BY <1>6, <1>7 DEF DecodeWire, r, WireHeaderLen
  <2>. QED BY <1>3, <1>4, <1>5, <1>7, <2>1
<1>8. CASE ~(Len(bytes) <= limit)
  BY <1>6, <1>8 DEF DecodeWire
<1>. QED BY <1>7, <1>8

LEMMA EncodedPacket ==
  ASSUME NEW p \in WirePackets, EncodeWire(p) # Refused
  PROVE  Writable(p) /\ BytesOf(EncodeWire(p), p)
<1>1. KnownFlag(p.flags) /\ ~(Len(p.payload) > MaxWirePayload)
  BY DEF EncodeWire
<1>2. EncodeWire(p) = HeaderOf(p) \o p.payload
  BY <1>1 DEF EncodeWire, HeaderOf
<1>3. Len(p.payload) \in Nat
  BY PacketsAssumption
<1>4. Len(p.payload) <= MaxWirePayload
  BY <1>1, <1>3, VersionsAssumption
<1>. QED BY <1>1, <1>2, <1>4 DEF Writable, BytesOf

\* What is under way is what was written, but for one place when damaged.
THEOREM EnvelopeInvariance == WireSpec => []EnvelopeInvariant
<1>1. WireInit => EnvelopeInvariant
  BY EncodedPacket DEF WireInit, EnvelopeInvariant
<1>2. EnvelopeInvariant /\ [WireNext]_wireVars => EnvelopeInvariant'
  <2>. SUFFICES ASSUME EnvelopeInvariant, [WireNext]_wireVars PROVE EnvelopeInvariant'
    OBVIOUS
  <2>1. CASE WritePacket
    <3>1. PICK packet \in WirePackets :
            /\ EncodeWire(packet) # Refused /\ written' = packet
            /\ wire' = EncodeWire(packet) /\ damaged' = FALSE
      BY <2>1 DEF WritePacket
    <3>2. Writable(packet) /\ BytesOf(EncodeWire(packet), packet)
      BY <3>1, EncodedPacket
    <3>. QED BY <3>1, <3>2 DEF EnvelopeInvariant
  <2>2. CASE DamagePacket
    <3>1. /\ BytesOf(wire, written)
          /\ written' = written /\ damaged' = TRUE /\ wire' \in Damaged(wire)
      BY <2>2 DEF DamagePacket, EnvelopeInvariant
    <3>. QED BY <3>1 DEF EnvelopeInvariant
  <2>3. CASE UNCHANGED wireVars
    BY <2>3 DEF EnvelopeInvariant, wireVars
  <2>. QED BY <2>1, <2>2, <2>3 DEF WireNext
<1>. QED BY <1>1, <1>2, PTL DEF WireSpec

\* Every packet that is written is read again by whoever has room for it, and
\* none with a symbol changed, lost or added is read with another payload
\* (src/packet.rs encode, decode_with_config), for any checksum that sees the
\* change of one symbol.
THEOREM PacketsArriveHolds == WireSpec => []PacketsArrive
<1>1. EnvelopeInvariant => PacketsArrive
  <2>. SUFFICES ASSUME EnvelopeInvariant PROVE PacketsArrive
    OBVIOUS
  <2>1. ASSUME ~damaged, NEW limit \in 0..DefaultLimit
        PROVE  DecodeWire(wire, limit) = IF Len(wire) <= limit THEN written ELSE Refused
    <3>1. limit \in Nat
      BY VersionsAssumption DEF DefaultLimit, WireHeaderLen
    <3>. QED BY <2>1, <3>1, IntactPacket DEF EnvelopeInvariant
  <2>2. ASSUME damaged, DecodeWire(wire, DefaultLimit) # Refused
        PROVE  DecodeWire(wire, DefaultLimit).payload = written.payload
    <3>1. Acceptable(wire, DefaultLimit)
      BY <2>2 DEF DecodeWire
    <3>2. SubSeq(wire, WireHeaderLen + 1, Len(wire)) = written.payload
      BY <2>2, <3>1, DamagedPayload DEF EnvelopeInvariant
    <3>. QED BY <3>1, <3>2 DEF DecodeWire
  <2>. QED BY <2>1, <2>2 DEF PacketsArrive
<1>. QED BY <1>1, EnvelopeInvariance, PTL
-----------------------------------------------------------------------------
(***************************************************************************)
(* The payloads of agent states (AgentCodec).                              *)
(***************************************************************************)
\* What a field adds to a payload.
Piece(v, f) == IF f \in DOMAIN v THEN PutField(f, v[f]) ELSE <<>>

PutStart(v) == <<>>
PutStep(v, bytes, f) == bytes \o Piece(v, f)

Puts == INSTANCE FoldTheorems WITH Start <- PutStart, Step <- PutStep

ReadStart(k) == [ok |-> TRUE, rest |-> k.symbols, values |-> <<>>]
ReadNext(fields, r, f) == IF r.ok /\ f \in fields THEN ReadField(r, f) ELSE r
ReadStep(k, r, f) == ReadNext(k.fields, r, f)

Reads == INSTANCE FoldTheorems WITH Start <- ReadStart, Step <- ReadStep

\* Values for some of the fields, texts for the texts among them.
Sendable(v) ==
  /\ v = [f \in DOMAIN v |-> v[f]]
  /\ DOMAIN v \subseteq AgentFields
  /\ \A f \in DOMAIN v \cap TextField : v[f] \in Text

\* The symbols of texts that a value consists of.
SizeOf(v, f) == IF f \in TextField THEN Len(v[f]) ELSE 0

\* What the reader has after some fields.
Reading(d, values) == [ok |-> TRUE, rest |-> d, values |-> values]

\* The bytes c there are, and those that are not, are those of p and of z.
Meets(c, x, p, z) == c \o x = p \o z

LEMMA JoinLaws ==
  \A S : \A s, t, u \in Seq(S) : /\ (s \o t) \o u = s \o (t \o u)
                                 /\ s \o t \in Seq(S)
                                 /\ Len(s \o t) = Len(s) + Len(t)
                                 /\ <<>> \o s = s
BY ConcatAssociative, ConcatProperties, ConcatEmptySeq

LEMMA MeetsFurther ==
  ASSUME NEW T, NEW a \in Seq(T), NEW p \in Seq(T), NEW y \in Seq(T), NEW c, NEW x,
         Meets(c, x, a \o p, y)
  PROVE  Meets(c, x, a, p \o y)
BY ConcatAssociative DEF Meets

LEMMA MeetsBehind ==
  ASSUME NEW T, NEW p \in Seq(T), NEW d \in Seq(T), NEW x \in Seq(T), NEW z \in Seq(T),
         Meets(p \o d, x, p, z)
  PROVE  d \o x = z
<1>1. p \o (d \o x) = p \o z
  <2>1. (p \o d) \o x = p \o (d \o x)
    BY JoinLaws
  <2>. QED BY <2>1 DEF Meets
<1>2. d \o x \in Seq(T)
  BY JoinLaws
<1>. QED BY <1>1, <1>2, ConcatSimplifications

LEMMA PieceShape ==
  ASSUME NEW v, Sendable(v), NEW f \in DOMAIN v
  PROVE  /\ SizeOf(v, f) \in Nat
         /\ \E T : Piece(v, f) \in Seq(T)
         /\ Len(Piece(v, f)) = SizeOf(v, f) + 1
         /\ f \notin TextField => Piece(v, f)[1] = v[f]
         /\ f \in TextField => /\ Piece(v, f)[1] = SizeOf(v, f)
                               /\ v[f] \in Seq(ToSet(v[f]))
                               /\ \A i \in 1..SizeOf(v, f) : Piece(v, f)[i + 1] = v[f][i]
<1>1. CASE f \notin TextField
  <2>1. Piece(v, f) = <<v[f]>> /\ SizeOf(v, f) = 0
    BY <1>1 DEF Piece, PutField, SizeOf
  <2>2. Piece(v, f) \in Seq({v[f]})
    BY <2>1
  <2>3. Len(Piece(v, f)) = 1 /\ Piece(v, f)[1] = v[f]
    BY <2>1
  <2>4. SizeOf(v, f) \in Nat /\ Len(Piece(v, f)) = SizeOf(v, f) + 1
    BY <2>1, <2>3
  <2>5. \E T : Piece(v, f) \in Seq(T)
    BY <2>2
  <2>. QED BY <1>1, <2>3, <2>4, <2>5
<1>2. CASE f \in TextField
  <2>. DEFINE t == v[f]
              n == Len(t)
              T == {n} \cup ToSet(t)
  <2>1. t \in Seq(ToSet(t))
    BY <1>2, TextAssumption DEF Sendable
  <2>2. Piece(v, f) = <<n>> \o t /\ SizeOf(v, f) = n
    BY <1>2 DEF Piece, PutField, SizeOf
  <2>. HIDE DEF t
  <2>3. n \in Nat /\ <<n>> \in Seq({n})
    BY <2>1
  <2>. HIDE DEF n
  <2>4. <<n>> \in Seq(T) /\ t \in Seq(T) /\ Len(<<n>>) = 1 /\ <<n>>[1] = n
    BY <2>1, <2>3
  <2>. HIDE DEF T
  <2>5. /\ <<n>> \o t \in Seq(T) /\ Len(<<n>> \o t) = Len(<<n>>) + Len(t)
        /\ \A i \in 1..(Len(<<n>>) + Len(t)) :
             (<<n>> \o t)[i] = IF i <= Len(<<n>>) THEN <<n>>[i] ELSE t[i - Len(<<n>>)]
    BY <2>4, ConcatProperties
  <2>. DEFINE p == Piece(v, f)
  <2>6. Len(t) = n
    BY DEF n
  <2>7. /\ p \in Seq(T) /\ Len(p) = n + 1
        /\ \A i \in 1..(n + 1) : p[i] = IF i <= 1 THEN n ELSE t[i - 1]
    BY <2>2, <2>3, <2>4, <2>5, <2>6
  <2>. HIDE DEF p
  <2>8. p[1] = n /\ \A i \in 1..n : p[i + 1] = t[i]
    BY <2>3, <2>7
  <2>. QED BY <1>2, <2>1, <2>2, <2>3, <2>7, <2>8 DEF p, t
<1>. QED BY <1>1, <1>2

\* Its value is read, and d is left, or it is not all there.
FieldRead(v, f, values, c, x, z, T) ==
  /\ Len(c) < Len(Piece(v, f)) => ~ReadField(Reading(c, values), f).ok
  /\ Len(c) >= Len(Piece(v, f)) =>
       \E d \in Seq(T) :
         /\ ReadField(Reading(c, values), f) = Reading(d, With(values, f, v[f]))
         /\ d \o x = z
         /\ Len(d) = Len(c) - Len(Piece(v, f))

\* Reading a field from the bytes there are, of a payload that goes on with it.
LEMMA ReadingField ==
  ASSUME NEW v, Sendable(v), NEW f \in DOMAIN v, NEW T, Piece(v, f) \in Seq(T),
         NEW c \in Seq(T), NEW x \in Seq(T), NEW z \in Seq(T),
         Meets(c, x, Piece(v, f), z), NEW values
  PROVE  FieldRead(v, f, values, c, x, z, T)
<1>. DEFINE p == Piece(v, f)
            n == SizeOf(v, f)
            r == Reading(c, values)
            size == IF f \in TextField THEN Head(r.rest) ELSE 0
            value == IF f \in TextField THEN SubSeq(r.rest, 2, size + 1) ELSE Head(r.rest)
<1>1. r.rest = c /\ r.values = values /\ [r EXCEPT !.ok = FALSE].ok = FALSE
  BY DEF Reading
<1>2. ReadField(r, f) =
        IF r.rest = <<>> \/ size + 1 > Len(r.rest) THEN [r EXCEPT !.ok = FALSE]
        ELSE [ok |-> TRUE, rest |-> SubSeq(r.rest, size + 2, Len(r.rest)),
              values |-> With(r.values, f, value)]
  BY DEF ReadField
<1>. HIDE DEF r
<1>3. /\ n \in Nat /\ p \in Seq(T) /\ Len(p) = n + 1
      /\ f \notin TextField => p[1] = v[f] /\ n = 0
      /\ f \in TextField => /\ p[1] = n /\ v[f] \in Seq(ToSet(v[f])) /\ Len(v[f]) = n
                            /\ \A i \in 1..n : p[i + 1] = v[f][i]
  BY PieceShape DEF SizeOf
<1>. HIDE DEF p, n
<1>4. /\ Len(c) \in Nat /\ Len(x) \in Nat /\ Len(z) \in Nat
      /\ \A i \in 1..Len(c) : (c \o x)[i] = c[i]
      /\ \A i \in 1..Len(p) : (p \o z)[i] = p[i]
  <2>1. \A i \in 1..(Len(c) + Len(x)) : (c \o x)[i] = IF i <= Len(c) THEN c[i] ELSE x[i - Len(c)]
    BY ConcatProperties
  <2>2. \A i \in 1..(Len(p) + Len(z)) : (p \o z)[i] = IF i <= Len(p) THEN p[i] ELSE z[i - Len(p)]
    BY <1>3, ConcatProperties
  <2>3. Len(c) \in Nat /\ Len(x) \in Nat /\ Len(z) \in Nat /\ Len(p) \in Nat
    BY <1>3
  <2>. QED BY <2>1, <2>2, <2>3
<1>5. \A i \in 1..Len(c) : i <= Len(p) => c[i] = p[i]
  <2>1. c \o x = p \o z
    BY DEF p, Meets
  <2>. QED BY <1>3, <1>4, <2>1
<1>6. ASSUME c # <<>> PROVE size = n
  <2>1. Len(c) >= 1 /\ Head(c) = c[1]
    BY <1>4, <1>6
  <2>2. c[1] = p[1]
    BY <1>3, <1>4, <1>5, <2>1
  <2>. QED BY <1>1, <1>3, <2>1, <2>2
<1>7. ASSUME Len(c) < Len(p) PROVE ~ReadField(r, f).ok
  <2>1. c # <<>> => size + 1 > Len(c)
    BY <1>3, <1>4, <1>6, <1>7
  <2>2. ReadField(r, f) = [r EXCEPT !.ok = FALSE]
    BY <1>1, <1>2, <2>1
  <2>. QED BY <1>1, <2>2
<1>8. ASSUME Len(c) >= Len(p)
      PROVE  \E d \in Seq(T) : /\ ReadField(r, f) = Reading(d, With(values, f, v[f]))
                               /\ d \o x = z /\ Len(d) = Len(c) - Len(p)
  <2>. DEFINE d == SubSeq(c, n + 2, Len(c))
  <2>1. c # <<>> /\ Len(c) >= n + 1
    BY <1>3, <1>4, <1>8
  <2>2. size = n
    BY <1>6, <2>1
  <2>3. value = v[f]
    <3>1. CASE f \notin TextField
      <4>1. Head(c) = c[1] /\ c[1] = p[1]
        BY <1>3, <1>4, <1>5, <2>1
      <4>. QED BY <1>1, <1>3, <3>1, <4>1
    <3>2. CASE f \in TextField
      <4>1. value = SubSeq(c, 2, n + 1)
        BY <1>1, <2>2, <3>2
      <4>. DEFINE s == SubSeq(c, 2, n + 1)
      <4>2. s \in Seq(T) /\ Len(s) = n /\ \A i \in 1..n : s[i] = c[i + 1]
        BY <1>3, <1>4, <2>1
      <4>. HIDE DEF s
      <4>3. \A i \in 1..n : c[i + 1] = v[f][i]
        BY <1>3, <1>4, <1>5, <2>1, <3>2
      <4>. DEFINE t == v[f]
      <4>4. s = t
        <5>1. t \in Seq(ToSet(t)) /\ Len(t) = n /\ \A i \in 1..n : s[i] = t[i]
          BY <1>3, <3>2, <4>2, <4>3
        <5>. HIDE DEF t
        <5>2. s = [i \in 1..n |-> s[i]] /\ t = [i \in 1..n |-> t[i]]
          BY <4>2, <5>1
        <5>. QED BY <5>1, <5>2
      <4>. QED BY <4>1, <4>4 DEF s, t
    <3>. QED BY <3>1, <3>2
  <2>. HIDE DEF size, value
  <2>4. ReadField(r, f) = [ok |-> TRUE, rest |-> d, values |-> With(values, f, v[f])]
    <3>1. ~(c = <<>> \/ n + 1 > Len(c))
      BY <1>3, <1>4, <2>1
    <3>. QED BY <1>1, <1>2, <2>2, <2>3, <3>1
  <2>5. d \in Seq(T) /\ Len(d) = Len(c) - Len(p)
    BY <1>3, <1>4, <2>1
  <2>6. d \o x = z
    <3>. DEFINE b == SubSeq(c, 1, n + 1)
    <3>1. b \in Seq(T) /\ Len(b) = n + 1 /\ \A i \in 1..(n + 1) : b[i] = c[i]
      BY <1>3, <1>4, <2>1
    <3>2. b \o d = c
      <4>1. b \o d = SubSeq(c, 1, Len(c))
        <5>1. /\ 1 \in 1..(Len(c) + 1) /\ n + 1 \in (1 - 1)..Len(c)
              /\ Len(c) \in (n + 1)..Len(c) /\ (n + 1) + 1 = n + 2
          BY <1>3, <1>4, <2>1
        <5>. HIDE DEF b, d
        <5>2. \A m \in 1..(Len(c) + 1) : \A k \in (m - 1)..Len(c) : \A l \in k..Len(c) :
                SubSeq(c, m, k) \o SubSeq(c, k + 1, l) = SubSeq(c, m, l)
          BY ConcatAdjacentSubSeq
        <5>3. SubSeq(c, 1, n + 1) \o SubSeq(c, (n + 1) + 1, Len(c)) = SubSeq(c, 1, Len(c))
          BY <5>1, <5>2
        <5>. QED BY <5>1, <5>3 DEF b, d
      <4>. HIDE DEF b, d
      <4>. QED BY <4>1, SubSeqFull
    <3>. HIDE DEF b, d
    <3>3. b = p
      <4>1. \A i \in 1..(n + 1) : b[i] = p[i]
        BY <1>3, <1>4, <1>5, <2>1, <3>1
      <4>2. b = [i \in 1..(n + 1) |-> b[i]] /\ p = [i \in 1..(n + 1) |-> p[i]]
        BY <1>3, <3>1
      <4>. QED BY <4>1, <4>2
    <3>4. Meets(c, x, p, z)
      BY DEF p
    <3>. QED BY <1>3, <2>5, <3>2, <3>3, <3>4, MeetsBehind
  <2>. HIDE DEF d
  <2>. QED BY <2>4, <2>5, <2>6 DEF Reading, With
<1>. QED BY <1>7, <1>8 DEF p, r, FieldRead

\* The values read from the first k fields.
FirstFields(k) == {FieldOrder[i] : i \in 1..k}

FirstValues(v, k) == [f \in FirstFields(k) \cap DOMAIN v |-> v[f]]

PutUpTo(v, n) == Puts!Fold(v, SubSeq(FieldOrder, 1, n))

ReadUpTo(fields, symbols, n) ==
  Reads!Fold([fields |-> fields, symbols |-> symbols], SubSeq(FieldOrder, 1, n))

FieldsRead(v, k, r, x, y, T, missing, left) ==
  /\ missing => ~r.ok
  /\ ~missing => \E d \in Seq(T) : /\ r = Reading(d, FirstValues(v, k))
                                   /\ d \o x = y /\ Len(d) = left

LEMMA FieldSteps ==
  ASSUME NEW v, NEW fields, NEW symbols
  PROVE  /\ PutUpTo(v, 0) = <<>> /\ ReadUpTo(fields, symbols, 0) = Reading(symbols, <<>>)
         /\ \A n \in Nat : n + 1 <= Len(FieldOrder) =>
              /\ PutUpTo(v, n + 1) = PutUpTo(v, n) \o Piece(v, FieldOrder[n + 1])
              /\ ReadUpTo(fields, symbols, n + 1)
                   = ReadNext(fields, ReadUpTo(fields, symbols, n), FieldOrder[n + 1])
<1>. DEFINE s == FieldOrder
            k == [fields |-> fields, symbols |-> symbols]
<1>1. s \in Seq(AgentFields)
  BY FieldOrderAssumption
<1>2. SubSeq(s, 1, 0) = <<>>
  BY <1>1
<1>3. Puts!Fold(v, <<>>) = <<>>
  BY Puts!FoldEmpty DEF PutStart
<1>4. Reads!Fold(k, <<>>) = ReadStart(k)
  BY Reads!FoldEmpty
<1>5. ReadStart(k) = Reading(symbols, <<>>)
  BY DEF ReadStart, Reading
<1>6. PutUpTo(v, 0) = <<>> /\ ReadUpTo(fields, symbols, 0) = Reading(symbols, <<>>)
  BY <1>2, <1>3, <1>4, <1>5 DEF PutUpTo, ReadUpTo
<1>7. ASSUME NEW n \in Nat, n + 1 <= Len(s)
      PROVE  /\ PutUpTo(v, n + 1) = PutUpTo(v, n) \o Piece(v, s[n + 1])
             /\ ReadUpTo(fields, symbols, n + 1)
                  = ReadNext(fields, ReadUpTo(fields, symbols, n), s[n + 1])
  <2>. DEFINE f == s[n + 1]
              q == SubSeq(s, 1, n)
  <2>1. q \in Seq(AgentFields) /\ f \in AgentFields /\ SubSeq(s, 1, n + 1) = Append(q, f)
    <3>1. \A m \in Nat : m + 1 <= Len(s) =>
            /\ SubSeq(s, 1, m) \in Seq(AgentFields) /\ s[m + 1] \in AgentFields
            /\ SubSeq(s, 1, m + 1) = Append(SubSeq(s, 1, m), s[m + 1])
      BY <1>1, Puts!PrefixGrows
    <3>. QED BY <1>7, <3>1
  <2>. HIDE DEF f, q, k
  <2>2. Puts!Fold(v, Append(q, f)) = PutStep(v, Puts!Fold(v, q), f)
    <3>1. \A t \in Seq(AgentFields), e \in AgentFields :
            Puts!Fold(v, Append(t, e)) = PutStep(v, Puts!Fold(v, t), e)
      BY ONLY Puts!FoldAppend
    <3>. QED BY <2>1, <3>1
  <2>3. Reads!Fold(k, Append(q, f)) = ReadStep(k, Reads!Fold(k, q), f)
    <3>1. \A t \in Seq(AgentFields), e \in AgentFields :
            Reads!Fold(k, Append(t, e)) = ReadStep(k, Reads!Fold(k, t), e)
      BY ONLY Reads!FoldAppend
    <3>. QED BY <2>1, <3>1
  <2>4. PutUpTo(v, n + 1) = PutUpTo(v, n) \o Piece(v, f)
    BY <2>1, <2>2 DEF PutUpTo, PutStep, q
  <2>5. ReadUpTo(fields, symbols, n + 1) = ReadStep(k, ReadUpTo(fields, symbols, n), f)
    BY <2>1, <2>3 DEF ReadUpTo, k, q
  <2>6. k.fields = fields
    BY DEF k
  <2>. QED BY <2>4, <2>5, <2>6 DEF ReadStep, f
<1>. QED BY <1>6, <1>7

\* How many bytes there are decides what is read: all of what the fields put
\* there, or that something is missing.
LEMMA ReadingFields ==
  ASSUME NEW v, Sendable(v), NEW T, \A f \in AgentFields : Piece(v, f) \in Seq(T),
         NEW c \in Seq(T), NEW x \in Seq(T),
         NEW fields, fields \cap AgentFields = DOMAIN v,
         NEW k \in 0..Len(FieldOrder)
  PROVE  /\ PutUpTo(v, k) \in Seq(T)
         /\ \A y \in Seq(T) :
              Meets(c, x, PutUpTo(v, k), y) =>
                FieldsRead(v, k, ReadUpTo(fields, c, k), x, y, T,
                           Len(c) < Len(PutUpTo(v, k)), Len(c) - Len(PutUpTo(v, k)))
<1>. DEFINE s == FieldOrder
            N == Len(s)
            P(n) == PutUpTo(v, n)
            R(n) == ReadUpTo(fields, c, n)
            Good(n) == /\ P(n) \in Seq(T)
                       /\ \A y \in Seq(T) :
                            Meets(c, x, P(n), y) =>
                              FieldsRead(v, n, R(n), x, y, T,
                                         Len(c) < Len(P(n)), Len(c) - Len(P(n)))
            S == {n \in Nat : n <= N => Good(n)}
<1>1. /\ N \in Nat
      /\ \A i \in 1..N : s[i] \in AgentFields
      /\ \A m, n \in 1..N : s[m] = s[n] => m = n
  BY FieldOrderAssumption
<1>2. Good(0)
  <2>1. P(0) = <<>> /\ R(0) = Reading(c, <<>>)
    BY FieldSteps
  <2>2. FirstValues(v, 0) = <<>>
    <3>1. FirstFields(0) = {}
      BY DEF FirstFields
    <3>. QED BY <3>1 DEF FirstValues
  <2>3. P(0) \in Seq(T) /\ Len(P(0)) = 0
    <3>1. <<>> \in Seq(T) /\ Len(<<>>) = 0
      OBVIOUS
    <3>. HIDE DEF P
    <3>. QED BY <2>1, <3>1
  <2>4. Len(c) \in Nat /\ ~(Len(c) < 0) /\ Len(c) - 0 = Len(c)
    OBVIOUS
  <2>5. ASSUME NEW y \in Seq(T), Meets(c, x, P(0), y)
        PROVE  FieldsRead(v, 0, R(0), x, y, T, Len(c) < Len(P(0)), Len(c) - Len(P(0)))
    <3>1. <<>> \o y = y
      BY JoinLaws
    <3>2. c \o x = y
      BY <2>1, <2>5, <3>1 DEF Meets
    <3>. QED BY <2>1, <2>2, <2>3, <2>4, <3>2 DEF FieldsRead
  <2>. QED BY <2>3, <2>5
<1>3. ASSUME NEW n \in Nat, n + 1 <= N, Good(n) PROVE Good(n + 1)
  <2>. DEFINE f == s[n + 1]
              a == P(n)
              b == P(n + 1)
              r == R(n)
              t == R(n + 1)
              p == Piece(v, f)
  <2>1. f \in AgentFields /\ p \in Seq(T)
    BY <1>1, <1>3
  <2>2. b = a \o p /\ t = ReadNext(fields, r, f)
    BY <1>3, FieldSteps
  <2>3. f \in fields <=> f \in DOMAIN v
    BY <2>1
  <2>4. f \notin FirstFields(n) /\ FirstFields(n + 1) = FirstFields(n) \cup {f}
    <3>1. 1..(n + 1) = (1..n) \cup {n + 1} /\ n + 1 \notin 1..n /\ n + 1 \in 1..N
      BY <1>3
    <3>2. \A i \in 1..n : i \in 1..N /\ i # n + 1
      BY <1>1, <1>3
    <3>3. f \notin FirstFields(n)
      BY <1>1, <3>1, <3>2 DEF FirstFields
    <3>4. FirstFields(n + 1) = FirstFields(n) \cup {f}
      BY <3>1 DEF FirstFields
    <3>. QED BY <3>3, <3>4
  <2>5. f \notin DOMAIN v => p = <<>>
    BY DEF Piece
  <2>6. a \in Seq(T)
    BY <1>3
  <2>. HIDE DEF a, b, p, r, t, P, R, f
  <2>7. b \in Seq(T) /\ Len(b) = Len(a) + Len(p)
    BY <2>1, <2>2, <2>6, JoinLaws
  <2>8. Len(a) \in Nat /\ Len(b) \in Nat /\ Len(c) \in Nat /\ Len(p) \in Nat
    BY <2>1, <2>6, <2>7
  <2>9. ASSUME NEW y \in Seq(T), Meets(c, x, b, y)
        PROVE  FieldsRead(v, n + 1, t, x, y, T, Len(c) < Len(b), Len(c) - Len(b))
    <3>1. p \o y \in Seq(T) /\ Meets(c, x, a, p \o y)
      <4>1. p \o y \in Seq(T)
        BY <2>1, JoinLaws
      <4>2. Meets(c, x, a \o p, y)
        BY <2>2, <2>9
      <4>. QED BY <2>1, <2>6, <4>1, <4>2, MeetsFurther
    <3>2. FieldsRead(v, n, r, x, p \o y, T, Len(c) < Len(a), Len(c) - Len(a))
      BY <1>3, <3>1 DEF a, r
    <3>3. CASE Len(c) < Len(a)
      <4>1. ~t.ok
        BY <2>2, <3>2, <3>3 DEF FieldsRead, ReadNext
      <4>2. Len(c) < Len(b)
        BY <2>7, <2>8, <3>3
      <4>. QED BY <4>1, <4>2 DEF FieldsRead
    <3>4. CASE ~(Len(c) < Len(a))
      <4>1. PICK d \in Seq(T) : /\ r = Reading(d, FirstValues(v, n))
                                /\ d \o x = p \o y /\ Len(d) = Len(c) - Len(a)
        BY <3>2, <3>4 DEF FieldsRead
      <4>2. r.ok /\ Meets(d, x, p, y)
        BY <4>1 DEF Reading, Meets
      <4>3. CASE f \notin DOMAIN v
        <5>1. t = r /\ p = <<>>
          BY <2>2, <2>3, <2>5, <4>3 DEF ReadNext
        <5>2. FirstValues(v, n + 1) = FirstValues(v, n)
          <6>1. FirstFields(n + 1) \cap DOMAIN v = FirstFields(n) \cap DOMAIN v
            BY <2>4, <4>3
          <6>. QED BY <6>1 DEF FirstValues
        <5>3. Len(p) = 0 /\ p \o y = y
          BY <5>1, JoinLaws
        <5>4. Len(b) = Len(a)
          BY <2>7, <2>8, <5>3
        <5>5. d \o x = y
          BY <4>1, <5>3
        <5>. QED BY <3>4, <4>1, <5>1, <5>2, <5>4, <5>5 DEF FieldsRead
      <4>4. CASE f \in DOMAIN v
        <5>1. t = ReadField(Reading(d, FirstValues(v, n)), f)
          BY <2>2, <2>3, <4>1, <4>2, <4>4 DEF ReadNext
        <5>2. /\ Len(d) < Len(p) => ~t.ok
              /\ Len(d) >= Len(p) =>
                   \E e \in Seq(T) : /\ t = Reading(e, With(FirstValues(v, n), f, v[f]))
                                     /\ e \o x = y /\ Len(e) = Len(d) - Len(p)
          <6>. DEFINE values == FirstValues(v, n)
          <6>2. Piece(v, f) \in Seq(T) /\ Meets(d, x, Piece(v, f), y) /\ p = Piece(v, f)
            BY <2>1, <4>2 DEF p
          <6>1. d \in Seq(T)
            BY <4>1
          <6>. HIDE DEF values
          <6>3. FieldRead(v, f, values, d, x, y, T)
            BY <4>4, <6>1, <6>2, ReadingField
          <6>. QED BY <5>1, <6>2, <6>3 DEF values, FieldRead
        <5>3. With(FirstValues(v, n), f, v[f]) = FirstValues(v, n + 1)
          <6>. DEFINE D == FirstFields(n) \cap DOMAIN v
                      E == FirstFields(n + 1) \cap DOMAIN v
          <6>1. E = D \cup {f} /\ f \notin D
            BY <2>4, <4>4
          <6>2. FirstValues(v, n) = [g \in D |-> v[g]] /\ FirstValues(v, n + 1) = [g \in E |-> v[g]]
            BY DEF FirstValues
          <6>. HIDE DEF D, E
          <6>3. With([g \in D |-> v[g]], f, v[f]) = [g \in D \cup {f} |-> v[g]]
            BY <6>1 DEF With
          <6>. QED BY <6>1, <6>2, <6>3
        <5>4. /\ Len(d) < Len(p) <=> Len(c) < Len(b)
              /\ Len(d) - Len(p) = Len(c) - Len(b)
              /\ Len(d) >= Len(p) <=> ~(Len(c) < Len(b))
          BY <2>7, <2>8, <4>1
        <5>. QED BY <5>2, <5>3, <5>4 DEF FieldsRead
      <4>. QED BY <4>3, <4>4
    <3>. QED BY <3>3, <3>4
  <2>. QED BY <2>7, <2>9 DEF b, t
<1>. HIDE DEF Good, P, R
<1>4. S = Nat
  <2>. DEFINE X == S
  <2>1. 0 \in X /\ X \in SUBSET Nat
    BY <1>2
  <2>2. ASSUME NEW n \in X PROVE n + 1 \in X
    <3>1. n \in Nat /\ n + 1 \in Nat /\ (n + 1 <= N => n <= N)
      BY <1>1
    <3>. QED BY <1>3, <3>1
  <2>. HIDE DEF X
  <2>3. X = Nat
    BY <2>1, <2>2, Puts!SetInduction
  <2>. QED BY <2>3 DEF X
<1>5. Good(k)
  BY <1>1, <1>4
<1>. QED BY <1>5 DEF Good, P, R
LEMMA PutsIsFold ==
  ASSUME NEW v
  PROVE  PutFields(v) = Puts!Fold(v, FieldOrder)
BY DEF PutFields, Puts!Fold, PutStart, PutStep, Piece, FoldLeft, Puts!FoldLeft,
       MapThenFoldSet, Puts!MapThenFoldSet, Max, Puts!Max

LEMMA ReadsIsFold ==
  ASSUME NEW fields, NEW symbols
  PROVE  ReadFields(fields, symbols)
           = Finish(Reads!Fold([fields |-> fields, symbols |-> symbols], FieldOrder))
BY DEF ReadFields, Reads!Fold, ReadStart, ReadStep, ReadNext, FoldLeft, Reads!FoldLeft,
       MapThenFoldSet, Reads!MapThenFoldSet, Max, Reads!Max

OnlyThatReadsBack(v, fields) ==
  /\ ReadFields(fields, PutFields(v)) = v
  /\ \A cut \in CutOrExtended(PutFields(v)) : ReadFields(fields, cut) = BadPayload

\* The payload of some fields is read back, and nothing else is: not a part of
\* it, and not more.
LEMMA DecodersRestore ==
  ASSUME NEW v, Sendable(v), NEW fields, fields \cap AgentFields = DOMAIN v
  PROVE  (\E T : PutFields(v) \in Seq(T)) /\ OnlyThatReadsBack(v, fields)
<1>. DEFINE N == Len(FieldOrder)
            P == PutFields(v)
            R(c) == ReadUpTo(fields, c, N)
            T == {0} \cup UNION {{Piece(v, f)[i] : i \in 1..Len(Piece(v, f))} : f \in AgentFields}
<1>1. FieldOrder \in Seq(AgentFields) /\ N \in Nat /\ SubSeq(FieldOrder, 1, N) = FieldOrder
  BY FieldOrderAssumption, SubSeqFull
<1>2. P = PutUpTo(v, N) /\ \A c : ReadFields(fields, c) = Finish(R(c))
  BY <1>1, PutsIsFold, ReadsIsFold DEF PutUpTo, ReadUpTo
<1>3. FirstValues(v, N) = v
  <2>1. FirstFields(N) = AgentFields
    BY FieldOrderAssumption DEF FirstFields, ToSet
  <2>. QED BY <2>1 DEF FirstValues, Sendable
<1>4. 0 \in T /\ \A f \in AgentFields : Piece(v, f) \in Seq(T)
  <2>1. ASSUME NEW f \in AgentFields PROVE Piece(v, f) \in Seq(T)
    <3>1. \E U : Piece(v, f) \in Seq(U)
      <4>1. CASE f \in DOMAIN v
        BY <4>1, PieceShape
      <4>2. CASE f \notin DOMAIN v
        <5>1. Piece(v, f) = <<>>
          BY <4>2 DEF Piece
        <5>2. Piece(v, f) \in Seq({})
          BY <5>1
        <5>. QED BY <5>2
      <4>. QED BY <4>1, <4>2
    <3>2. PICK U : Piece(v, f) \in Seq(U)
      BY <3>1
    <3>3. \A i \in 1..Len(Piece(v, f)) : Piece(v, f)[i] \in T
      OBVIOUS
    <3>. DEFINE p == Piece(v, f)
    <3>. HIDE DEF p, T
    <3>4. p \in Seq(U) /\ \A i \in 1..Len(p) : p[i] \in T
      BY <3>2, <3>3 DEF p
    <3>5. p \in Seq(T)
      BY <3>4
    <3>. QED BY <3>5 DEF p
  <2>. QED BY <2>1
<1>. HIDE DEF T
<1>5. N \in 0..N
  BY <1>1
<1>6. <<>> \in Seq(T) /\ <<0>> \in Seq(T)
  BY <1>4
<1>7. P \in Seq(T)
  BY <1>2, <1>4, <1>5, <1>6, ReadingFields
<1>8. ASSUME NEW c \in Seq(T), NEW x \in Seq(T), NEW y \in Seq(T), Meets(c, x, P, y)
      PROVE  FieldsRead(v, N, R(c), x, y, T, Len(c) < Len(P), Len(c) - Len(P))
  BY <1>2, <1>4, <1>5, <1>8, ReadingFields
<1>. HIDE DEF P, R, N
<1>9. ReadFields(fields, P) = v
  <2>1. Meets(P, <<>>, P, <<>>)
    BY DEF Meets
  <2>2. FieldsRead(v, N, R(P), <<>>, <<>>, T, Len(P) < Len(P), Len(P) - Len(P))
    BY <1>6, <1>7, <1>8, <2>1
  <2>3. Len(P) \in Nat /\ ~(Len(P) < Len(P)) /\ Len(P) - Len(P) = 0
    BY <1>7
  <2>4. PICK d \in Seq(T) : R(P) = Reading(d, v) /\ Len(d) = 0
    BY <1>3, <2>2, <2>3 DEF FieldsRead
  <2>5. d = <<>>
    BY <2>4
  <2>6. Finish(R(P)) = v
    BY <2>4, <2>5 DEF Finish, Reading
  <2>. QED BY <1>2, <2>6
<1>10. ASSUME NEW n \in 0..(Len(P) - 1) PROVE ReadFields(fields, SubSeq(P, 1, n)) = BadPayload
  <2>. DEFINE c == SubSeq(P, 1, n)
              x == SubSeq(P, n + 1, Len(P))
  <2>1. c \in Seq(T) /\ x \in Seq(T) /\ Len(c) = n /\ Len(c) < Len(P)
    BY <1>7
  <2>2. c \o x = P /\ P \o <<>> = P
    <3>1. c \o x = SubSeq(P, 1, Len(P))
      <4>1. 1 \in 1..(Len(P) + 1) /\ n \in (1 - 1)..Len(P) /\ Len(P) \in n..Len(P)
        BY <1>7
      <4>. QED BY <1>7, <4>1, ConcatAdjacentSubSeq
    <3>2. P \o <<>> = P
      BY <1>7, ConcatEmptySeq
    <3>. QED BY <1>7, <3>1, <3>2, SubSeqFull
  <2>. HIDE DEF c, x
  <2>3. FieldsRead(v, N, R(c), x, <<>>, T, Len(c) < Len(P), Len(c) - Len(P))
    <3>1. Meets(c, x, P, <<>>)
      BY <2>2 DEF Meets
    <3>. QED BY <1>6, <1>8, <2>1, <3>1
  <2>4. ~R(c).ok
    BY <2>1, <2>3 DEF FieldsRead
  <2>. QED BY <1>2, <2>4 DEF Finish, c
<1>11. ReadFields(fields, Append(P, 0)) = BadPayload
  <2>. DEFINE c == Append(P, 0)
  <2>1. c \in Seq(T) /\ Len(c) = Len(P) + 1 /\ Len(P) \in Nat
    BY <1>4, <1>7
  <2>2. c = P \o <<0>>
    BY <1>4, <1>7, AppendIsConcat
  <2>. HIDE DEF c
  <2>3. c \o <<>> = c
    BY <2>1, ConcatEmptySeq
  <2>4. FieldsRead(v, N, R(c), <<>>, <<0>>, T, Len(c) < Len(P), Len(c) - Len(P))
    <3>1. Meets(c, <<>>, P, <<0>>)
      BY <2>2, <2>3 DEF Meets
    <3>. QED BY <1>6, <1>8, <2>1, <3>1
  <2>5. ~(Len(c) < Len(P)) /\ Len(c) - Len(P) = 1
    BY <2>1
  <2>6. PICK d \in Seq(T) : R(c) = Reading(d, v) /\ Len(d) = 1
    BY <1>3, <2>4, <2>5 DEF FieldsRead
  <2>7. d # <<>>
    BY <2>6
  <2>8. Finish(R(c)) = BadPayload
    BY <2>6, <2>7 DEF Finish, Reading
  <2>. QED BY <1>2, <2>8 DEF c
<1>12. \A cut \in CutOrExtended(P) : ReadFields(fields, cut) = BadPayload
  <2>. SUFFICES ASSUME NEW cut \in CutOrExtended(P) PROVE ReadFields(fields, cut) = BadPayload
    OBVIOUS
  <2>1. cut = Append(P, 0) \/ \E n \in 0..(Len(P) - 1) : cut = SubSeq(P, 1, n)
    BY DEF CutOrExtended
  <2>2. ASSUME NEW n \in 0..(Len(P) - 1), cut = SubSeq(P, 1, n) PROVE ReadFields(fields, cut) = BadPayload
    BY <1>10, <2>2
  <2>3. ASSUME cut = Append(P, 0) PROVE ReadFields(fields, cut) = BadPayload
    BY <1>11, <2>3
  <2>. QED BY <2>1, <2>2, <2>3
<1>13. \E U : P \in Seq(U)
  BY <1>7
<1>. QED BY <1>9, <1>12, <1>13 DEF P, OnlyThatReadsBack
LEMMA StatesAreSendable ==
  ASSUME NEW s \in AgentStates
  PROVE  Sendable(StateFields(s)) /\ DOMAIN StateFields(s) = AgentFields
<1>1. \A f \in TextField : s.text[f] \in Text
  BY DEF AgentStates
<1>. QED BY <1>1 DEF Sendable, StateFields, AgentFields

LEMMA DeltasAreSendable ==
  ASSUME NEW old \in AgentStates, NEW new \in AgentStates
  PROVE  Sendable(DeltaFields(AgentBetween(old, new)))
<1>. DEFINE d == AgentBetween(old, new)
            others == {g \in {"progress", "cpu_percent"} : d[g] # {}}
            v == DeltaFields(d)
<1>1. /\ DOMAIN d.text \subseteq TextField /\ DOMAIN d.counter \subseteq CounterField
      /\ \A f \in DOMAIN d.text : d.text[f] \in Text
  BY DEF AgentBetween, DifferentIn, AgentStates
<1>. HIDE DEF d
<1>2. /\ DOMAIN v = DOMAIN d.text \cup DOMAIN d.counter \cup others
      /\ v = [f \in DOMAIN v |-> v[f]]
      /\ \A f \in DOMAIN v \cap TextField : v[f] = d.text[f]
  BY DEF DeltaFields
<1>. HIDE DEF v
<1>3. DOMAIN v \subseteq AgentFields
  BY <1>1, <1>2 DEF AgentFields
<1>4. ASSUME NEW f \in DOMAIN v \cap TextField PROVE v[f] \in Text
  <2>1. f \in DOMAIN d.text
    BY <1>1, <1>2, FieldKindsAssumption
  <2>. QED BY <1>1, <1>2, <2>1
<1>. QED BY <1>2, <1>3, <1>4 DEF Sendable, v, d

LEMMA StatesReadBack ==
  ASSUME NEW s \in AgentStates
  PROVE  LET v == StateFields(s)
         IN  /\ DecodeAgentState(EncodeAgentState(v)) = v
             /\ \A cut \in CutOrExtended(EncodeAgentState(v)) : DecodeAgentState(cut) = BadPayload
<1>. DEFINE v == StateFields(s)
            P == PutFields(v)
<1>1. /\ v["progress"] \in 0..MaxU8
      /\ \A f \in CounterField : v[f] \in 0..MaxU64
  BY FieldKindsAssumption DEF StateFields, AgentStates, AgentFields
<1>2. /\ ReadFields(ToSet(FieldOrder), P) = v
      /\ \A cut \in CutOrExtended(P) : ReadFields(ToSet(FieldOrder), cut) = BadPayload
  <2>1. ToSet(FieldOrder) \cap AgentFields = DOMAIN v
    BY StatesAreSendable, FieldOrderAssumption
  <2>2. OnlyThatReadsBack(v, ToSet(FieldOrder))
    <3>. DEFINE F == ToSet(FieldOrder)
    <3>1. Sendable(v)
      BY StatesAreSendable
    <3>2. F \cap AgentFields = DOMAIN v
      BY <2>1
    <3>. HIDE DEF F, v
    <3>3. OnlyThatReadsBack(v, F)
      BY <3>1, <3>2, DecodersRestore
    <3>. QED BY <3>3 DEF F
  <2>. QED BY <2>2 DEF OnlyThatReadsBack
<1>3. EncodeAgentState(v) = P
  BY DEF EncodeAgentState
<1>. HIDE DEF v, P
<1>4. ~(v["progress"] > MaxU8) /\ \A f \in CounterField : ~(v[f] > MaxU64)
  BY <1>1, MaximaAssumption
<1>5. DecodeAgentState(P) = v
  BY <1>2, <1>4 DEF DecodeAgentState
<1>6. \A cut \in CutOrExtended(P) : DecodeAgentState(cut) = BadPayload
  BY <1>2 DEF DecodeAgentState
<1>. QED BY <1>3, <1>5, <1>6 DEF v

LEMMA DeltasReadBack ==
  ASSUME NEW v, Sendable(v)
  PROVE  /\ DecodeAgentDelta(EncodeAgentDelta(v)) = v
         /\ \A cut \in CutOrExtended(EncodeAgentDelta(v)) : DecodeAgentDelta(cut) = BadPayload
<1>. DEFINE P == PutFields(v)
            D == DOMAIN v
            b == EncodeAgentDelta(v)
<1>0. D \cap AgentFields = DOMAIN v
  BY DEF Sendable
<1>1. PICK T : P \in Seq(T)
  BY <1>0, DecodersRestore
<1>2. /\ ReadFields(D, P) = v
      /\ \A cut \in CutOrExtended(P) : ReadFields(D, cut) = BadPayload
  BY <1>0, DecodersRestore DEF OnlyThatReadsBack
<1>3. b = <<D>> \o P
  BY DEF EncodeAgentDelta
<1>. HIDE DEF b, P, D
<1>. DEFINE U == {0, D} \cup T
<1>4. <<D>> \in Seq(U) /\ P \in Seq(U) /\ 0 \in U
  <2>1. D \in U /\ T \subseteq U /\ 0 \in U
    OBVIOUS
  <2>. HIDE DEF U
  <2>. QED BY <1>1, <2>1
<1>. HIDE DEF U
<1>5. /\ b \in Seq(U) /\ Len(b) = Len(P) + 1 /\ Len(P) \in Nat
      /\ b[1] = D /\ \A i \in 1..Len(P) : b[i + 1] = P[i]
  <2>1. /\ b \in Seq(U) /\ Len(b) = Len(<<D>>) + Len(P)
        /\ \A i \in 1..(Len(<<D>>) + Len(P)) :
             b[i] = IF i <= Len(<<D>>) THEN <<D>>[i] ELSE P[i - Len(<<D>>)]
    BY <1>3, <1>4, ConcatProperties
  <2>2. Len(<<D>>) = 1 /\ <<D>>[1] = D /\ Len(P) \in Nat
    BY <1>4
  <2>. QED BY <2>1, <2>2
<1>6. ASSUME NEW c \in Seq(U), c # <<>>, NEW t \in Seq(U), Len(c) = Len(t) + 1, c[1] = D,
             \A i \in 1..Len(t) : c[i + 1] = t[i]
      PROVE  DecodeAgentDelta(c) = ReadFields(D, t)
  <2>1. Head(c) = D
    BY <1>6
  <2>2. Tail(c) = t
    <3>1. /\ Tail(c) \in Seq(U) /\ Len(Tail(c)) = Len(t)
          /\ \A i \in 1..Len(t) : Tail(c)[i] = t[i]
      BY <1>6
    <3>. DEFINE s == Tail(c)
    <3>. HIDE DEF s
    <3>2. s \in Seq(U) /\ Len(s) = Len(t) /\ \A i \in 1..Len(t) : s[i] = t[i]
      BY <3>1 DEF s
    <3>3. s = [i \in 1..Len(t) |-> s[i]] /\ t = [i \in 1..Len(t) |-> t[i]]
      BY <3>2
    <3>4. s = t
      BY <3>2, <3>3
    <3>. QED BY <3>4 DEF s
  <2>. QED BY <1>6, <2>1, <2>2 DEF DecodeAgentDelta
<1>7. DecodeAgentDelta(b) = v
  <2>1. b # <<>>
    BY <1>5
  <2>. QED BY <1>2, <1>4, <1>5, <1>6, <2>1
<1>8. ASSUME NEW n \in 0..(Len(b) - 1) PROVE DecodeAgentDelta(SubSeq(b, 1, n)) = BadPayload
  <2>. DEFINE c == SubSeq(b, 1, n)
              t == SubSeq(P, 1, n - 1)
  <2>1. CASE n = 0
    <3>1. c = <<>>
      BY <1>5, <2>1
    <3>. QED BY <3>1 DEF DecodeAgentDelta
  <2>2. CASE n # 0
    <3>1. n - 1 \in 0..(Len(P) - 1) /\ n \in 1..Len(b) /\ n - 1 + 1 = n
      BY <1>5, <2>2
    <3>2. c \in Seq(U) /\ Len(c) = n /\ \A i \in 1..n : c[i] = b[i]
      BY <1>5, <3>1
    <3>3. t \in Seq(U) /\ Len(t) = n - 1 /\ \A i \in 1..(n - 1) : t[i] = P[i]
      BY <1>4, <1>5, <3>1
    <3>4. ReadFields(D, t) = BadPayload
      BY <1>2, <3>1 DEF CutOrExtended
    <3>. HIDE DEF c, t
    <3>5. c # <<>> /\ c[1] = D /\ Len(c) = Len(t) + 1 /\ \A i \in 1..Len(t) : c[i + 1] = t[i]
      BY <1>5, <3>1, <3>2, <3>3
    <3>6. DecodeAgentDelta(c) = ReadFields(D, t)
      BY <1>6, <3>2, <3>3, <3>5
    <3>. QED BY <3>4, <3>6 DEF c
  <2>. QED BY <2>1, <2>2
<1>9. DecodeAgentDelta(Append(b, 0)) = BadPayload
  <2>. DEFINE c == Append(b, 0)
              t == Append(P, 0)
  <2>1. c \in Seq(U) /\ Len(c) = Len(b) + 1 /\ c[Len(b) + 1] = 0 /\ \A i \in 1..Len(b) : c[i] = b[i]
    BY <1>4, <1>5
  <2>2. t \in Seq(U) /\ Len(t) = Len(P) + 1 /\ t[Len(P) + 1] = 0 /\ \A i \in 1..Len(P) : t[i] = P[i]
    BY <1>4, <1>5
  <2>3. ReadFields(D, t) = BadPayload
    BY <1>2 DEF CutOrExtended
  <2>. HIDE DEF c, t
  <2>4. c # <<>> /\ c[1] = D /\ Len(c) = Len(t) + 1 /\ \A i \in 1..Len(t) : c[i + 1] = t[i]
    BY <1>5, <2>1, <2>2
  <2>5. DecodeAgentDelta(c) = ReadFields(D, t)
    BY <1>6, <2>1, <2>2, <2>4
  <2>. QED BY <2>3, <2>5 DEF c
<1>10. \A cut \in CutOrExtended(b) : DecodeAgentDelta(cut) = BadPayload
  <2>. SUFFICES ASSUME NEW cut \in CutOrExtended(b) PROVE DecodeAgentDelta(cut) = BadPayload
    OBVIOUS
  <2>1. cut = Append(b, 0) \/ \E n \in 0..(Len(b) - 1) : cut = SubSeq(b, 1, n)
    BY DEF CutOrExtended
  <2>2. ASSUME NEW n \in 0..(Len(b) - 1), cut = SubSeq(b, 1, n) PROVE DecodeAgentDelta(cut) = BadPayload
    BY <1>8, <2>2
  <2>3. ASSUME cut = Append(b, 0) PROVE DecodeAgentDelta(cut) = BadPayload
    BY <1>9, <2>3
  <2>. QED BY <2>1, <2>2, <2>3
<1>. QED BY <1>7, <1>10 DEF b

\* What AgentState and AgentDelta encode is decoded again, for any order of
\* the fields and any texts, and no payload that was cut or goes on passes for
\* another state or delta (encode_state, decode_state, encode_delta and
\* decode_delta of src/binary.rs).
THEOREM CodecRestoresHolds ==
  ASSUME NEW old \in AgentStates, NEW new \in AgentStates
  PROVE  CodecRestores(old, new)
BY StatesReadBack, DeltasAreSendable, DeltasReadBack DEF CodecRestores
-----------------------------------------------------------------------------
(***************************************************************************)
(* The numbers of payloads (Varint).                                       *)
(***************************************************************************)
DoubleStart(k) == 1
DoubleStep(k, power, i) == 2 * power

Doubled == INSTANCE FoldTheorems WITH Start <- DoubleStart, Step <- DoubleStep

PuttingStart(k) == [out |-> <<>>, rest |-> k, done |-> FALSE]
PuttingStep(k, s, i) == PutTurn(s)

Putting == INSTANCE FoldTheorems WITH Start <- PuttingStart, Step <- PuttingStep

GettingStart(k) == [value |-> 0, shift |-> 0, status |-> "reading"]
GettingStep(k, r, group) == ReadTurn(k, r, group)

Getting == INSTANCE FoldTheorems WITH Start <- GettingStart, Step <- GettingStep

LEMMA PowersAreFold ==
  ASSUME NEW n
  PROVE  Pow2(n) = Doubled!Fold(0, UpTo(n))
BY DEF Pow2, Doubled!Fold, DoubleStart, DoubleStep, FoldLeft, Doubled!FoldLeft,
       MapThenFoldSet, Doubled!MapThenFoldSet, Max, Doubled!Max

LEMMA PutsAreFold ==
  ASSUME NEW width, NEW value
  PROVE  PutVar(width, value) = Putting!Fold(value, UpTo(width)).out
BY DEF PutVar, Putting!Fold, PuttingStart, PuttingStep, FoldLeft, Putting!FoldLeft,
       MapThenFoldSet, Putting!MapThenFoldSet, Max, Putting!Max

LEMMA ReadsAreFold ==
  ASSUME NEW width, NEW groups
  PROVE  LET r == Getting!Fold(width, groups)
         IN  ReadVar(width, groups) = IF r.status = "read" THEN r.value ELSE Malformed
BY DEF ReadVar, Getting!Fold, GettingStart, GettingStep, FoldLeft, Getting!FoldLeft,
       MapThenFoldSet, Getting!MapThenFoldSet, Max, Getting!Max

LEMMA UpToNone == UpTo(0) = <<>>
BY DEF UpTo

LEMMA UpToGrows ==
  ASSUME NEW n \in Nat
  PROVE  UpTo(n) \in Seq(Nat) /\ UpTo(n + 1) = Append(UpTo(n), n + 1)
<1>. DEFINE s == UpTo(n)
            t == UpTo(n + 1)
            u == Append(s, n + 1)
<1>1. /\ s \in Seq(Nat) /\ Len(s) = n /\ \A i \in 1..n : s[i] = i
      /\ t \in Seq(Nat) /\ Len(t) = n + 1 /\ \A i \in 1..(n + 1) : t[i] = i
  BY DEF UpTo
<1>. HIDE DEF s, t
<1>2. u \in Seq(Nat) /\ Len(u) = n + 1 /\ \A i \in 1..(n + 1) : u[i] = i
  BY <1>1
<1>. HIDE DEF u
<1>3. t = [i \in 1..(n + 1) |-> t[i]] /\ u = [i \in 1..(n + 1) |-> u[i]]
  BY <1>1, <1>2
<1>4. t = u
  BY <1>1, <1>2, <1>3
<1>. QED BY <1>1, <1>4 DEF s, t, u

LEMMA Doubling ==
  Pow2(0) = 1 /\ \A n \in Nat : Pow2(n + 1) = 2 * Pow2(n)
<1>1. Pow2(0) = 1
  BY UpToNone, PowersAreFold, Doubled!FoldEmpty DEF DoubleStart
<1>2. ASSUME NEW n \in Nat PROVE Pow2(n + 1) = 2 * Pow2(n)
  <2>1. \A t \in Seq(Nat), e \in Nat :
          Doubled!Fold(0, Append(t, e)) = DoubleStep(0, Doubled!Fold(0, t), e)
    BY ONLY Doubled!FoldAppend
  <2>2. UpTo(n) \in Seq(Nat) /\ UpTo(n + 1) = Append(UpTo(n), n + 1)
    BY ONLY n \in Nat, UpToGrows
  <2>3. Doubled!Fold(0, UpTo(n + 1)) = DoubleStep(0, Doubled!Fold(0, UpTo(n)), n + 1)
    <3>1. n + 1 \in Nat
      OBVIOUS
    <3>. DEFINE t == UpTo(n)
                e == n + 1
    <3>. HIDE DEF t, e
    <3>2. t \in Seq(Nat) /\ e \in Nat /\ UpTo(e) = Append(t, e)
      BY <2>2, <3>1 DEF t, e
    <3>3. Doubled!Fold(0, UpTo(e)) = DoubleStep(0, Doubled!Fold(0, t), e)
      BY <2>1, <3>2
    <3>. QED BY <3>3 DEF t, e
  <2>. QED BY <2>3, PowersAreFold DEF DoubleStep
<1>. QED BY <1>1, <1>2

LEMMA PowersArePositive == \A n \in Nat : Pow2(n) \in Nat /\ Pow2(n) >= 1
<1>. DEFINE S == {n \in Nat : Pow2(n) \in Nat /\ Pow2(n) >= 1}
<1>1. 0 \in S /\ S \in SUBSET Nat
  BY Doubling
<1>2. ASSUME NEW n \in S PROVE n + 1 \in S
  <2>1. Pow2(n + 1) = 2 * Pow2(n)
    BY Doubling
  <2>. QED BY <2>1
<1>. HIDE DEF S
<1>3. S = Nat
  BY <1>1, <1>2, Doubled!SetInduction
<1>. QED BY <1>3 DEF S

LEMMA PowersMultiply == \A m, n \in Nat : Pow2(m + n) = Pow2(m) * Pow2(n)
<1>. SUFFICES ASSUME NEW m \in Nat PROVE \A n \in Nat : Pow2(m + n) = Pow2(m) * Pow2(n)
  OBVIOUS
<1>. DEFINE S == {n \in Nat : Pow2(m + n) = Pow2(m) * Pow2(n)}
<1>0. Pow2(m) \in Nat
  BY PowersArePositive
<1>1. 0 \in S /\ S \in SUBSET Nat
  <2>1. m + 0 = m /\ Pow2(m) * 1 = Pow2(m)
    BY <1>0
  <2>. QED BY <2>1, Doubling
<1>2. ASSUME NEW n \in S PROVE n + 1 \in S
  <2>. DEFINE a == Pow2(m)
              b == Pow2(n)
  <2>1. a \in Nat /\ b \in Nat /\ Pow2(m + n) = a * b
    BY PowersArePositive
  <2>2. Pow2(n + 1) = 2 * b
    BY Doubling
  <2>3. m + (n + 1) = (m + n) + 1 /\ m + n \in Nat
    OBVIOUS
  <2>4. Pow2(m + (n + 1)) = 2 * Pow2(m + n)
    BY <2>3, Doubling
  <2>. HIDE DEF a, b
  <2>5. 2 * (a * b) = a * (2 * b)
    BY <2>1
  <2>6. Pow2(m + (n + 1)) = Pow2(m) * Pow2(n + 1)
    BY <2>1, <2>2, <2>4, <2>5 DEF a
  <2>. QED BY <2>6
<1>. HIDE DEF S
<1>3. S = Nat
  BY <1>1, <1>2, Doubled!SetInduction
<1>. QED BY <1>3 DEF S

LEMMA PowersRise == \A m, n \in Nat : m <= n => Pow2(m) <= Pow2(n)
<1>. SUFFICES ASSUME NEW m \in Nat, NEW n \in Nat, m <= n PROVE Pow2(m) <= Pow2(n)
  OBVIOUS
<1>. DEFINE a == Pow2(m)
            b == Pow2(n - m)
<1>1. n - m \in Nat /\ m + (n - m) = n
  OBVIOUS
<1>2. Pow2(n) = a * b
  BY <1>1, PowersMultiply
<1>3. a \in Nat /\ b \in Nat /\ b >= 1
  BY <1>1, PowersArePositive
<1>. HIDE DEF a, b
<1>4. a <= a * b
  BY <1>3
<1>. QED BY <1>2, <1>4 DEF a

LEMMA Division ==
  ASSUME NEW n \in Nat, NEW b \in Nat, b >= 1
  PROVE  /\ n \div b \in Nat /\ n % b \in Nat /\ n % b < b
         /\ n = b * (n \div b) + (n % b)
OBVIOUS

LEMMA Remainder == ASSUME NEW n \in Nat, NEW b \in Nat, n < b PROVE n % b = n
OBVIOUS

LEMMA Regrouping ==
  ASSUME NEW p \in Nat, NEW b \in Nat, NEW q \in Nat, NEW d \in Nat, NEW v \in Nat
  PROVE  (p * b) * q + (v + d * p) = p * (b * q + d) + v
OBVIOUS

Groups == [bits : Nat, more : BOOLEAN]

\* Of a loop that writes value, after n turns, and of the loop that reads what it wrote.
Reversed(width, value, s, r, n) ==
  /\ s.out \in Seq(Groups)
  /\ s.done \in BOOLEAN
  /\ s.done => r.status = "read" /\ r.value = value
  /\ ~s.done => /\ r.status = "reading" /\ r.shift = GroupBits * n
                /\ s.rest \in Nat /\ r.value \in Nat
                /\ Pow2(r.shift) * s.rest + r.value = value
                /\ n > 0 => s.rest >= 1

LEMMA LoopsStart ==
  ASSUME NEW width, NEW value \in Nat,
         NEW s, s = [out |-> <<>>, rest |-> value, done |-> FALSE],
         NEW r, r = [value |-> 0, shift |-> 0, status |-> "reading"]
  PROVE  Reversed(width, value, s, r, 0)
<1>1. s.out = <<>> /\ s.rest = value /\ ~s.done /\ s.done \in BOOLEAN
  OBVIOUS
<1>2. r.value = 0 /\ r.shift = 0 /\ r.status = "reading"
  OBVIOUS
<1>3. GroupBits * 0 = 0 /\ 1 * value + 0 = value
  BY WidthsAssumption
<1>4. Pow2(r.shift) * s.rest + r.value = value
  BY <1>1, <1>2, <1>3, Doubling
<1>5. s.out \in Seq(Groups)
  BY <1>1
<1>6. r.shift = GroupBits * 0 /\ s.rest \in Nat /\ r.value \in Nat /\ ~(0 > 0)
  BY <1>1, <1>2, <1>3
<1>. QED BY <1>1, <1>2, <1>4, <1>5, <1>6 DEF Reversed

LEMMA LoopsContinue ==
  ASSUME NEW width \in Nat, NEW value \in Nat, value < Pow2(width), NEW n \in Nat,
         NEW s, NEW r, Reversed(width, value, s, r, n), ~s.done
  PROVE  \E g \in Groups :
           /\ PutTurn(s).out = Append(s.out, g)
           /\ Reversed(width, value, PutTurn(s), ReadTurn(width, r, g), n + 1)
<1>. DEFINE b == Pow2(GroupBits)
            p == Pow2(r.shift)
            w == Pow2(width)
            rest == s.rest
            v == r.value
            q == rest \div b
            d == rest % b
            g == Group(rest, rest >= b)
            read == (v + d * p) % w
<1>1. /\ s.out \in Seq(Groups) /\ ~s.done /\ r.status = "reading" /\ r.shift = GroupBits * n
      /\ rest \in Nat /\ v \in Nat /\ p * rest + v = value
  BY DEF Reversed
<1>2. GroupBits \in Nat /\ r.shift \in Nat /\ r.shift + GroupBits \in Nat
      /\ r.shift + GroupBits = GroupBits * (n + 1)
  <2>1. GroupBits \in Nat
    BY WidthsAssumption
  <2>2. GroupBits * n \in Nat /\ GroupBits * n + GroupBits = GroupBits * (n + 1)
    BY <2>1
  <2>. QED BY <1>1, <2>1, <2>2
<1>3. /\ b \in Nat /\ b >= 1 /\ p \in Nat /\ p >= 1 /\ w \in Nat /\ w >= 1
      /\ Pow2(r.shift + GroupBits) = p * b
  BY <1>2, PowersArePositive, PowersMultiply
<1>4. value < w
  OBVIOUS
<1>5. g = [bits |-> d, more |-> rest >= b]
  BY DEF Group
<1>6. /\ rest >= b    => PutTurn(s) = [out |-> Append(s.out, g), rest |-> q, done |-> FALSE]
      /\ ~(rest >= b) => PutTurn(s) = [out |-> Append(s.out, g), rest |-> rest, done |-> TRUE]
  <2>1. CASE rest >= b
    <3>1. g = Group(rest, TRUE)
      BY <2>1
    <3>. QED BY <1>1, <2>1, <3>1 DEF PutTurn
  <2>2. CASE ~(rest >= b)
    <3>1. g = Group(rest, FALSE)
      <4>1. (rest >= b) = FALSE
        BY <2>2
      <4>. QED BY <4>1 DEF g
    <3>. HIDE DEF g
    <3>. QED BY <1>1, <2>2, <3>1 DEF PutTurn
  <2>. QED BY <2>1, <2>2
<1>. HIDE DEF g, b, w
<1>7. ReadTurn(width, r, g) =
        IF rest >= b
        THEN [value |-> read, shift |-> r.shift + GroupBits,
              status |-> IF r.shift + GroupBits >= width THEN "malformed" ELSE "reading"]
        ELSE [value |-> read, shift |-> r.shift, status |-> "read"]
  <2>1. g.bits = d /\ g.more = (rest >= b)
    BY <1>5
  <2>. QED BY <1>1, <2>1 DEF ReadTurn, w
<1>. HIDE DEF p, rest, v, q, d, read
<1>8. q \in Nat /\ d \in Nat /\ d < b /\ rest = b * q + d
  BY <1>1, <1>3, Division DEF q, d
<1>9. /\ v + d * p \in Nat
      /\ (p * b) * q + (v + d * p) = value
      /\ v + d * p <= value
  <2>1. (p * b) * q + (v + d * p) = p * (b * q + d) + v
    BY <1>1, <1>3, <1>8, Regrouping
  <2>2. (p * b) * q \in Nat /\ d * p \in Nat
    BY <1>3, <1>8
  <2>. HIDE DEF p
  <2>3. (p * b) * q + (v + d * p) = value
    BY <1>1, <1>8, <2>1
  <2>. QED BY <1>1, <2>2, <2>3
<1>10. read = v + d * p
  <2>1. v + d * p < w
    BY <1>3, <1>4, <1>9
  <2>. QED BY <1>3, <1>9, <2>1, Remainder DEF read
<1>11. g \in Groups
  BY <1>5, <1>8 DEF Groups
<1>12. CASE rest >= b
  <2>1. q >= 1
    <3>1. CASE q = 0
      <4>1. rest = d
        BY <1>3, <1>8, <3>1
      <4>. QED BY <1>1, <1>3, <1>8, <1>12, <4>1
    <3>. QED BY <1>8, <3>1
  <2>2. r.shift + GroupBits < width
    <3>1. p * b <= value
      <4>1. p * b <= (p * b) * q /\ p * b \in Nat /\ (p * b) * q \in Nat
        BY <1>3, <1>8, <2>1
      <4>. QED BY <1>9, <4>1
    <3>2. Pow2(r.shift + GroupBits) < Pow2(width)
      BY <1>3, <1>4, <3>1 DEF w
    <3>. QED BY <1>2, <3>2, PowersRise, PowersArePositive
  <2>3. ReadTurn(width, r, g) = [value |-> v + d * p, shift |-> r.shift + GroupBits,
                                 status |-> "reading"]
    BY <1>2, <1>7, <1>10, <1>12, <2>2
  <2>4. PutTurn(s) = [out |-> Append(s.out, g), rest |-> q, done |-> FALSE]
    BY <1>6, <1>12
  <2>5. Reversed(width, value, PutTurn(s), ReadTurn(width, r, g), n + 1)
    <3>1. Append(s.out, g) \in Seq(Groups)
      BY <1>1, <1>11
    <3>2. Pow2(r.shift + GroupBits) * q + (v + d * p) = value
      BY <1>3, <1>9
    <3>. QED BY <1>2, <1>8, <1>9, <2>1, <2>3, <2>4, <3>1, <3>2 DEF Reversed
  <2>. QED BY <1>11, <2>4, <2>5
<1>13. CASE ~(rest >= b)
  <2>1. d = rest
    BY <1>1, <1>3, <1>13, Remainder DEF d
  <2>2. v + d * p = value
    BY <1>1, <1>3, <2>1
  <2>3. ReadTurn(width, r, g) = [value |-> value, shift |-> r.shift, status |-> "read"]
    BY <1>7, <1>10, <1>13, <2>2
  <2>4. PutTurn(s) = [out |-> Append(s.out, g), rest |-> rest, done |-> TRUE]
    BY <1>6, <1>13
  <2>5. Reversed(width, value, PutTurn(s), ReadTurn(width, r, g), n + 1)
    <3>1. Append(s.out, g) \in Seq(Groups)
      BY <1>1, <1>11
    <3>. QED BY <2>3, <2>4, <3>1 DEF Reversed
  <2>. QED BY <1>11, <2>4, <2>5
<1>. QED BY <1>12, <1>13

\* Every number less than 2^width is read back from what put_var writes.
LEMMA NumbersRead ==
  ASSUME NEW width \in Nat, width > 0, NEW value \in Nat, value < Pow2(width)
  PROVE  ReadVar(width, PutVar(width, value)) = value
<1>. DEFINE W(n) == Putting!Fold(value, UpTo(n))
            R(n) == Getting!Fold(width, W(n).out)
            S == {n \in Nat : Reversed(width, value, W(n), R(n), n)}
<1>1. Reversed(width, value, W(0), R(0), 0)
  <2>1. W(0) = [out |-> <<>>, rest |-> value, done |-> FALSE]
    BY UpToNone, Putting!FoldEmpty DEF PuttingStart
  <2>2. R(0) = [value |-> 0, shift |-> 0, status |-> "reading"]
    <3>1. W(0).out = <<>>
      BY <2>1
    <3>. QED BY <3>1, Getting!FoldEmpty DEF GettingStart
  <2>. HIDE DEF W, R
  <2>. QED BY <2>1, <2>2, LoopsStart
<1>2. ASSUME NEW n \in Nat, Reversed(width, value, W(n), R(n), n)
      PROVE  Reversed(width, value, W(n + 1), R(n + 1), n + 1)
  <2>1. W(n + 1) = PutTurn(W(n))
    <3>1. \A t \in Seq(Nat), e \in Nat :
            Putting!Fold(value, Append(t, e)) = PuttingStep(value, Putting!Fold(value, t), e)
      BY ONLY Putting!FoldAppend
    <3>2. UpTo(n) \in Seq(Nat) /\ n + 1 \in Nat /\ UpTo(n + 1) = Append(UpTo(n), n + 1)
      <4>1. n + 1 \in Nat
        OBVIOUS
      <4>. QED BY <4>1, UpToGrows
    <3>. DEFINE t == UpTo(n)
                e == n + 1
    <3>. HIDE DEF t, e
    <3>3. t \in Seq(Nat) /\ e \in Nat /\ UpTo(e) = Append(t, e)
      BY <3>2 DEF t, e
    <3>4. Putting!Fold(value, UpTo(e)) = PuttingStep(value, Putting!Fold(value, t), e)
      BY <3>1, <3>3
    <3>. QED BY <3>4 DEF t, e, PuttingStep
  <2>. DEFINE s == W(n)
              r == R(n)
  <2>2. CASE s.done
    <3>1. W(n + 1) = s
      BY <2>1, <2>2 DEF PutTurn
    <3>2. R(n + 1) = r
      BY <3>1
    <3>. HIDE DEF W, R, s, r
    <3>3. Reversed(width, value, s, r, n)
      BY <1>2 DEF s, r
    <3>4. Reversed(width, value, s, r, n + 1)
      BY <2>2, <3>3 DEF Reversed
    <3>. QED BY <3>1, <3>2, <3>4
  <2>3. CASE ~s.done
    <3>1. PICK g \in Groups :
            /\ PutTurn(s).out = Append(s.out, g)
            /\ Reversed(width, value, PutTurn(s), ReadTurn(width, r, g), n + 1)
      <4>. HIDE DEF s, r
      <4>1. Reversed(width, value, s, r, n)
        BY <1>2 DEF s, r
      <4>. QED BY <2>3, <4>1, LoopsContinue
    <3>2. s.out \in Seq(Groups)
      BY <1>2 DEF Reversed
    <3>3. R(n + 1) = ReadTurn(width, r, g)
      <4>1. \A t \in Seq(Groups), e \in Groups :
              Getting!Fold(width, Append(t, e)) = GettingStep(width, Getting!Fold(width, t), e)
        BY ONLY Getting!FoldAppend
      <4>2. Getting!Fold(width, Append(s.out, g)) = GettingStep(width, r, g)
        BY <3>2, <4>1
      <4>3. W(n + 1).out = Append(s.out, g)
        BY <2>1, <3>1
      <4>. QED BY <4>2, <4>3 DEF GettingStep
    <3>. HIDE DEF W, R
    <3>. QED BY <2>1, <3>1, <3>3 DEF s
  <2>. QED BY <2>2, <2>3
<1>. HIDE DEF W, R
<1>3. 0 \in S /\ S \in SUBSET Nat
  BY <1>1
<1>4. ASSUME NEW n \in S PROVE n + 1 \in S
  BY <1>2
<1>. HIDE DEF S
<1>5. S = Nat
  BY <1>3, <1>4, Doubled!SetInduction
<1>6. Reversed(width, value, W(width), R(width), width)
  BY <1>5 DEF S
<1>7. W(width).done
  <2>. SUFFICES ASSUME ~W(width).done PROVE FALSE
    OBVIOUS
  <2>. DEFINE rest == W(width).rest
              v == R(width).value
              m == GroupBits * width
              p == Pow2(m)
  <2>1. rest \in Nat /\ rest >= 1 /\ v \in Nat /\ p * rest + v = value
    BY <1>6 DEF Reversed
  <2>2. m \in Nat /\ width <= m
    BY WidthsAssumption
  <2>. HIDE DEF rest, v, m
  <2>3. Pow2(width) <= p /\ p \in Nat /\ Pow2(width) \in Nat
    BY <2>2, PowersRise, PowersArePositive
  <2>. HIDE DEF p
  <2>4. p <= p * rest /\ p * rest \in Nat
    BY <2>1, <2>3
  <2>. QED BY <2>1, <2>3, <2>4
<1>8. R(width).status = "read" /\ R(width).value = value
  BY <1>6, <1>7 DEF Reversed
<1>. DEFINE groups == PutVar(width, value)
            read == Getting!Fold(width, groups)
<1>9. groups = W(width).out
  BY PutsAreFold DEF W
<1>10. read = R(width)
  BY <1>9 DEF R
<1>11. ReadVar(width, groups) = IF read.status = "read" THEN read.value ELSE Malformed
  BY ReadsAreFold
<1>. HIDE DEF groups, read
<1>12. ReadVar(width, groups) = value
  BY <1>8, <1>10, <1>11
<1>. QED BY <1>12 DEF groups

\* Whatever the width of a number and of its groups, it is read back, signed
\* numbers through their zigzag.
LEMMA VarRestoresHolds ==
  ASSUME NEW width \in Widths, NEW value \in Int
  PROVE  VarRestores(width, value)
<1>1. width \in Nat /\ width > 0
  BY WidthsAssumption
<1>2. Pow2(width) \in Nat
  BY <1>1, PowersArePositive
<1>3. ASSUME value \in 0..(Pow2(width) - 1)
      PROVE  ReadVar(width, PutVar(width, value)) = value
  BY <1>1, <1>2, <1>3, NumbersRead
<1>4. ASSUME value \in Signed(width)
      PROVE  Unzigzag(ReadVar(width, PutVar(width, Zigzag(value)))) = value
  <2>. DEFINE z == Zigzag(value)
              h == Pow2(width - 1)
  <2>1. width - 1 \in Nat /\ (width - 1) + 1 = width
    BY <1>1
  <2>2. Pow2(width) = 2 * h /\ h \in Nat
    BY <2>1, Doubling, PowersArePositive
  <2>3. -h <= value /\ value <= h - 1
    BY <1>4, <2>2 DEF Signed
  <2>. HIDE DEF h
  <2>4. z \in Nat /\ z < Pow2(width)
    BY <2>2, <2>3 DEF Zigzag
  <2>5. Unzigzag(z) = value
    BY DEF Unzigzag, Zigzag
  <2>. HIDE DEF z
  <2>6. ReadVar(width, PutVar(width, z)) = z
    BY <1>1, <2>4, NumbersRead
  <2>. QED BY <2>5, <2>6 DEF z
<1>. QED BY <1>3, <1>4 DEF VarRestores

PayloadsTypeOK ==
  /\ subject \in Subjects
  /\ earlier \in PayloadsOf(subject)
  /\ latest \in PayloadsOf(subject)

\* Whatever the numbers and the agent states are, and however numbers are
\* divided into groups and states into fields, they are read back.
THEOREM PayloadsReadBackHolds == PayloadsSpec => []PayloadsReadBack
<1>1. PayloadsInit => PayloadsTypeOK
  BY DEF PayloadsInit, PayloadsTypeOK
<1>2. PayloadsTypeOK /\ [WriteNext]_payloadVars => PayloadsTypeOK'
  BY DEF PayloadsTypeOK, WriteNext, payloadVars, PayloadsOf
<1>3. PayloadsTypeOK => PayloadsReadBack
  <2>. SUFFICES ASSUME PayloadsTypeOK PROVE PayloadsReadBack
    OBVIOUS
  <2>1. ASSUME subject = "number", NEW width \in Widths PROVE VarRestores(width, latest)
    <3>1. latest \in Int
      BY <2>1, NumbersAssumption DEF PayloadsTypeOK, PayloadsOf
    <3>. QED BY <3>1, VarRestoresHolds
  <2>2. ASSUME subject = "agent" PROVE CodecRestores(earlier, latest)
    <3>1. earlier \in AgentStates /\ latest \in AgentStates
      BY <2>2 DEF PayloadsTypeOK, PayloadsOf
    <3>. QED BY <3>1, CodecRestoresHolds
  <2>. QED BY <2>1, <2>2 DEF PayloadsReadBack
<1>. QED BY <1>1, <1>2, <1>3, PTL DEF PayloadsSpec
=============================================================================
