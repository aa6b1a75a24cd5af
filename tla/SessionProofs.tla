----------------------------- MODULE SessionProofs -----------------------------
(***************************************************************************)
(* Proofs about Session, for any publishers, clients, states, faults and   *)
(* bounds: the encoder's lock, the order of data packets, and that every   *)
(* request is answered with something newer than what its client held, and *)
(* that only a recovery snapshot can leave a client with a state that      *)
(* differs in more than the signs of zeros from the one published under    *)
(* its sequence.                                                           *)
(***************************************************************************)
EXTENDS Session, DecoderProofs, FiniteSetTheorems, SequenceTheorems

-----------------------------------------------------------------------------
(***************************************************************************)
(* Sequences of anything.                                                  *)
(***************************************************************************)
Elements(s) == {s[i] : i \in 1..Len(s)}

IsSeq(s) == Len(s) \in Nat /\ s \in Seq(Elements(s))

LEMMA SeqIsSeq ==
  ASSUME NEW S, NEW s \in Seq(S)
  PROVE  IsSeq(s)
<1>1. Len(s) \in Nat /\ s = [i \in 1..Len(s) |-> s[i]]
  OBVIOUS
<1>2. \A i \in 1..Len(s) : s[i] \in Elements(s)
  BY DEF Elements
<1>3. s \in [1..Len(s) -> Elements(s)]
  BY <1>1, <1>2
<1>4. QED
  BY <1>1, <1>3, SeqDef DEF IsSeq

LEMMA AppendIsSeq ==
  ASSUME NEW s, IsSeq(s), NEW x
  PROVE  /\ IsSeq(Append(s, x))
         /\ Len(Append(s, x)) = Len(s) + 1
         /\ Append(s, x)[Len(s) + 1] = x
         /\ \A i \in 1..Len(s) : Append(s, x)[i] = s[i]
<1>1. s \in Seq(Elements(s) \cup {x}) /\ x \in Elements(s) \cup {x}
  <2>1. Elements(s) \subseteq Elements(s) \cup {x}
    OBVIOUS
  <2>2. QED
    BY <2>1, SeqMonotonic DEF IsSeq
<1>2. Append(s, x) \in Seq(Elements(s) \cup {x})
  BY <1>1
<1>3. IsSeq(Append(s, x))
  BY <1>2, SeqIsSeq
<1>4. /\ Len(Append(s, x)) = Len(s) + 1
      /\ Append(s, x)[Len(s) + 1] = x
      /\ \A i \in 1..Len(s) : Append(s, x)[i] = s[i]
  BY <1>1
<1>5. QED
  BY <1>3, <1>4

LEMMA TailIsSeq ==
  ASSUME NEW s, IsSeq(s), s # <<>>
  PROVE  /\ IsSeq(Tail(s))
         /\ Len(Tail(s)) = Len(s) - 1
         /\ Len(s) > 0
         /\ Head(s) = s[1]
         /\ \A i \in 1..(Len(s) - 1) : Tail(s)[i] = s[i + 1]
<1>1. s \in Seq(Elements(s)) /\ Tail(s) \in Seq(Elements(s))
  BY DEF IsSeq
<1>2. IsSeq(Tail(s))
  BY <1>1, SeqIsSeq
<1>3. /\ Len(Tail(s)) = Len(s) - 1
      /\ Len(s) > 0
      /\ Head(s) = s[1]
      /\ \A i \in 1..(Len(s) - 1) : Tail(s)[i] = s[i + 1]
  BY <1>1
<1>4. QED
  BY <1>2, <1>3

LEMMA SubSeqIsSeq ==
  ASSUME NEW s, IsSeq(s), NEW k \in 0..Len(s)
  PROVE  /\ IsSeq(SubSeq(s, k + 1, Len(s)))
         /\ Len(SubSeq(s, k + 1, Len(s))) = Len(s) - k
         /\ \A i \in 1..(Len(s) - k) : SubSeq(s, k + 1, Len(s))[i] = s[i + k]
<1>1. s \in Seq(Elements(s)) /\ Len(s) \in Nat
  BY DEF IsSeq
<1>2. SubSeq(s, k + 1, Len(s)) \in Seq(Elements(s))
  BY <1>1
<1>3. IsSeq(SubSeq(s, k + 1, Len(s)))
  BY <1>2, SeqIsSeq
<1>4. /\ Len(SubSeq(s, k + 1, Len(s))) = Len(s) - k
      /\ \A i \in 1..(Len(s) - k) : SubSeq(s, k + 1, Len(s))[i] = s[i + k]
  BY <1>1
<1>5. QED
  BY <1>3, <1>4

LEMMA EmptyIsSeq == IsSeq(<<>>) /\ Len(<<>>) = 0
<1>1. <<>> \in Seq({})
  OBVIOUS
<1>2. QED
  BY <1>1, SeqIsSeq

\* Two neighbours change places.
LEMMA SwapIsSeq ==
  ASSUME NEW s, IsSeq(s), NEW k \in 1..(Len(s) - 1)
  PROVE  LET t == [s EXCEPT ![k] = s[k + 1], ![k + 1] = s[k]]
         IN  /\ IsSeq(t)
             /\ Len(t) = Len(s)
             /\ t[k] = s[k + 1]
             /\ t[k + 1] = s[k]
             /\ \A i \in 1..Len(s) : i \notin {k, k + 1} => t[i] = s[i]
<1>. DEFINE t == [s EXCEPT ![k] = s[k + 1], ![k + 1] = s[k]]
<1>1. Len(s) \in Nat /\ s \in [1..Len(s) -> Elements(s)] /\ k + 1 \in 1..Len(s) /\ k \in 1..Len(s)
  BY DEF IsSeq
<1>2. t \in [1..Len(s) -> Elements(s)]
  BY <1>1 DEF Elements
<1>3. t \in Seq(Elements(s))
  BY <1>1, <1>2, SeqDef
<1>4. Len(t) = Len(s)
  BY <1>1, <1>2, <1>3
<1>5. IsSeq(t)
  BY <1>3, SeqIsSeq
<1>6. QED
  BY <1>1, <1>4, <1>5
-----------------------------------------------------------------------------
(***************************************************************************)
(* What record and plan do, whatever sizes packets have.                   *)
(***************************************************************************)
\* The history after record is a suffix of the old one and the new packet.
LEMMA RecordKeepsSuffix ==
  ASSUME NEW h, IsSeq(h.packets), NEW p
  PROVE  \E k \in 0..(Len(h.packets) + 1) :
           RecordPacket(h, p).packets =
             SubSeq(Append(h.packets, p), k + 1, Len(h.packets) + 1)
<1>. DEFINE all == Append(h.packets, p)
            bytes(k) == h.bytes + EncodedLen(p) - TotalLen(SubSeq(all, 1, k))
            fits(k) == Len(all) - k <= MaxPackets /\ bytes(k) <= MaxBytes
            unfit == {k \in 0..(Len(all) - 1) : ~fits(k)}
<1>1. Len(all) = Len(h.packets) + 1 /\ Len(all) \in Nat
  BY AppendIsSeq DEF IsSeq
<1>2. RecordPacket(h, p).packets = SubSeq(all, Cardinality(unfit) + 1, Len(all))
  BY DEF RecordPacket
<1>3. unfit \subseteq 0..(Len(all) - 1)
  OBVIOUS
<1>. HIDE DEF all, unfit
<1>4. /\ IsFiniteSet(0..(Len(all) - 1))
      /\ Cardinality(0..(Len(all) - 1)) = Len(all)
  BY <1>1, FS_Interval
<1>5. Cardinality(unfit) \in 0..Len(all)
  <2>1. IsFiniteSet(unfit) /\ Cardinality(unfit) <= Cardinality(0..(Len(all) - 1))
    BY <1>3, <1>4, FS_Subset
  <2>2. Cardinality(unfit) \in Nat
    BY <2>1, FS_CardinalityType
  <2>3. QED
    BY <1>1, <1>4, <2>1, <2>2
<1>6. QED
  BY <1>1, <1>2, <1>5 DEF all

\* A plan for a client behind the snapshot leads past the client's sequence
\* and never past the snapshot's.
LEMMA PlanLeadsForward ==
  ASSUME NEW h, NEW snapshot, NEW local, snapshot.sequence \in Nat,
         local \in Nat \cup {None}, local # None => local < snapshot.sequence
  PROVE  LET plan == Plan(h, local, snapshot)
         IN  /\ Len(plan) \in Nat \ {0}
             /\ \A i \in 1..Len(plan) : plan[i].sequence \in 0..snapshot.sequence
             /\ local # None => local < plan[Len(plan)].sequence
<1>. DEFINE plan == Plan(h, local, snapshot)
<1>1. CASE plan = <<snapshot>>
  <2>1. Len(plan) = 1 /\ plan[1] = snapshot
    BY <1>1
  <2>2. QED
    BY <2>1
<1>2. CASE plan # <<snapshot>>
  <2>. DEFINE replay == Missing(h, local, snapshot)
  <2>1. /\ local # None
        /\ plan = replay
        /\ Chained(replay, local, snapshot.sequence)
    BY <1>2 DEF Plan
  <2>. HIDE DEF plan, replay
  <2>2. /\ Len(plan) = snapshot.sequence - local
        /\ \A i \in 1..Len(plan) : plan[i].sequence = local + i
    BY <2>1 DEF Chained
  <2>3. local \in Nat /\ local < snapshot.sequence
    BY <1>2, <2>1
  <2>4. Len(plan) \in Nat \ {0} /\ Len(plan) \in 1..Len(plan)
    BY <2>2, <2>3
  <2>5. \A i \in 1..Len(plan) : plan[i].sequence \in 0..snapshot.sequence
    BY <2>2, <2>3
  <2>6. local < plan[Len(plan)].sequence
    BY <2>2, <2>3, <2>4
  <2>7. QED
    BY <2>4, <2>5, <2>6 DEF plan
<1>3. QED
  BY <1>1, <1>2
-----------------------------------------------------------------------------
(***************************************************************************)
(* The inductive invariant, part by part.                                  *)
(***************************************************************************)
InFlight(p) == task[p].pc \in {"encoded", "sent"}

\* Only the holder of the encoder has a packet in hand, the newest one.
PublishersOK ==
  /\ sequence \in Nat
  /\ last_state \in State \cup {None}
  /\ state \in State
  /\ log \in [0..sequence -> State]
  /\ encoder_lock \in Publishers \cup {None}
  /\ DOMAIN task = Publishers
  /\ \A p \in Publishers :
       /\ DOMAIN task[p] = {"pc", "state", "packet"}
       /\ task[p].pc \in {"idle", "stored", "encoded", "sent"}
       /\ encoder_lock = p <=> InFlight(p)
       /\ task[p].pc = "stored" => task[p].state \in State
       /\ InFlight(p) => task[p].packet.sequence = sequence

\* Every stored state still has a sequence to take.
BoundOK == sequence + Cardinality(Pending) <= MaxSequence

\* The history is in order, and the packet in hand is newer.
HistoryOK ==
  /\ IsSeq(history.packets)
  /\ \A i \in 1..Len(history.packets) : history.packets[i].sequence \in 0..sequence
  /\ \A i, j \in 1..Len(history.packets) :
       i < j => history.packets[i].sequence < history.packets[j].sequence
  /\ \A p \in Publishers : InFlight(p) =>
       \A i \in 1..Len(history.packets) : history.packets[i].sequence < sequence

\* Data packets under way are in order, and the packet to send is newer.
InboxOK ==
  /\ DOMAIN inbox = Clients
  /\ \A c \in Clients :
       /\ IsSeq(inbox[c])
       /\ \A i \in 1..Len(inbox[c]) : inbox[c][i].packet.sequence \in 0..sequence
       /\ \A i, j \in 1..Len(inbox[c]) :
            i < j /\ IsData(c, i) /\ IsData(c, j) =>
              inbox[c][i].packet.sequence < inbox[c][j].packet.sequence
       /\ \A p \in Publishers : task[p].pc = "encoded" =>
            \A i \in 1..Len(inbox[c]) :
              IsData(c, i) => inbox[c][i].packet.sequence < sequence

\* A client asks only while the publisher is ahead of it.
RequestOK(r) ==
  /\ r.client \in Clients
  /\ r.local \in Nat \cup {None}
  /\ r.local # None => r.local < sequence

ControlOK == IsSeq(control) /\ \A i \in 1..Len(control) : RequestOK(control[i])

LoopOK ==
  /\ DOMAIN loop = {"pc", "request", "state", "snapshot", "packets", "next"}
  /\ loop.pc \in {"idle", "read", "built", "planned", "stopped"}
  /\ loop.pc # "planned" => loop.next = 1
  /\ loop.pc \in {"read", "built", "planned"} => RequestOK(loop.request)
  /\ loop.pc \in {"built", "planned"} =>
       /\ loop.snapshot.sequence \in 0..sequence
       /\ loop.request.local # None => loop.request.local < loop.snapshot.sequence
  /\ loop.pc = "planned" =>
       /\ Len(loop.packets) \in Nat
       /\ loop.next \in 1..Len(loop.packets)
       /\ \A i \in 1..Len(loop.packets) : loop.packets[i].sequence \in 0..sequence
       /\ loop.request.local # None =>
            loop.request.local < loop.packets[Len(loop.packets)].sequence

ClientsOK ==
  /\ DOMAIN sub = Clients
  /\ sessions \in [Clients -> 0..MaxSessions]
  /\ \A c \in Clients :
       /\ DOMAIN sub[c] = {"running", "decoder", "awaiting"}
       /\ ~sub[c].running => sub[c] = NoSession /\ inbox[c] = <<>>
       /\ sub[c].decoder.sequence \in 0..sequence \cup {None}
       /\ sub[c].decoder.seen \in Seq(0..sequence)
       /\ Len(sub[c].decoder.seen) <= WindowCapacity
       /\ WindowInOrder(sub[c].decoder)

SessionInvariant ==
  /\ PublishersOK
  /\ BoundOK
  /\ HistoryOK
  /\ InboxOK
  /\ ControlOK
  /\ LoopOK
  /\ ClientsOK

LEMMA NewSessionOK ==
  /\ DOMAIN NoSession = {"running", "decoder", "awaiting"}
  /\ NoSession.running = FALSE
  /\ NoSession.decoder.sequence = None
  /\ NoSession.decoder.seen = <<>>
  /\ \A n \in Nat : NoSession.decoder.seen \in Seq(0..n)
  /\ Len(NoSession.decoder.seen) <= WindowCapacity
  /\ WindowInOrder(NoSession.decoder)
<1>1. /\ DOMAIN NoSession = {"running", "decoder", "awaiting"}
      /\ NoSession.running = FALSE
      /\ NoSession.decoder = EmptyDecoder
  BY DEF NoSession
<1>2. EmptyDecoder.sequence = None /\ EmptyDecoder.seen = <<>>
  BY DEF EmptyDecoder
<1>3. Len(<<>>) <= WindowCapacity /\ \A n \in Nat : <<>> \in Seq(0..n)
  BY CapacityAssumption
<1>4. QED
  BY <1>1, <1>2, <1>3 DEF WindowInOrder

LEMMA SessionInit == Init => SessionInvariant
<1>1. SUFFICES ASSUME Init PROVE SessionInvariant
  OBVIOUS
<1>2. /\ \A p \in Publishers : task[p] = IdleTask
      /\ \A c \in Clients : sub[c] = NoSession /\ inbox[c] = <<>>
  BY <1>1 DEF Init
<1>3. PublishersOK
  BY <1>1, <1>2, PublishersAssumption DEF Init, PublishersOK, IdleTask, InFlight
<1>4. BoundOK
  <2>1. Pending = {}
    BY <1>2 DEF Pending, IdleTask
  <2>2. Cardinality({}) = 0
    BY FS_EmptySet
  <2>3. QED
    BY <1>1, <2>1, <2>2, SessionBoundsAssumption DEF Init, BoundOK
<1>5. HistoryOK
  BY <1>1, EmptyIsSeq DEF Init, HistoryOK, EmptyHistory
<1>6. InboxOK
  BY <1>1, <1>2, EmptyIsSeq DEF Init, InboxOK
<1>7. ControlOK
  BY <1>1, EmptyIsSeq DEF Init, ControlOK
<1>8. LoopOK
  BY <1>1 DEF Init, LoopOK, IdleLoop
<1>9. ClientsOK
  <2>1. sessions \in [Clients -> 0..MaxSessions] /\ sequence \in Nat
    BY <1>1, SessionBoundsAssumption DEF Init
  <2>2. QED
    BY <1>1, <1>2, <2>1, NewSessionOK DEF Init, ClientsOK
<1>10. QED
  BY <1>3, <1>4, <1>5, <1>6, <1>7, <1>8, <1>9 DEF SessionInvariant
-----------------------------------------------------------------------------
(***************************************************************************)
(* publish_state.                                                          *)
(***************************************************************************)
\* What a step that leaves the sequence alone need not say again.
LEMMA RequestsStay ==
  ASSUME sequence \in Nat, sequence' \in Nat, sequence <= sequence', NEW r, RequestOK(r)
  PROVE  RequestOK(r)'
BY DEF RequestOK

LEMMA StoreStateKeepsInvariant ==
  ASSUME SessionInvariant, NEW p \in Publishers, NEW s \in State, StoreState(p, s)
  PROVE  SessionInvariant'
<1>1. /\ task[p].pc = "idle"
      /\ state' = s
      /\ UNCHANGED <<sequence, last_state, encoder_lock, history, log, loop, control,
                     inbox, sub, sessions>>
      /\ task'[p] = [pc |-> "stored", state |-> s, packet |-> None]
      /\ \A q \in Publishers : q # p => task'[q] = task[q]
      /\ DOMAIN task' = Publishers
  BY DEF StoreState, SessionInvariant, PublishersOK, subscriberVars, IdleTask
<1>2. \A q \in Publishers : (InFlight(q)' <=> InFlight(q))
                            /\ (InFlight(q) => task'[q] = task[q])
  BY <1>1 DEF InFlight
<1>3. PublishersOK'
  BY <1>1, <1>2 DEF SessionInvariant, PublishersOK, InFlight
<1>4. BoundOK'
  <2>1. Pending' = Pending \cup {p} /\ p \notin Pending
    BY <1>1 DEF Pending
  <2>2. IsFiniteSet(Pending)
    BY PublishersAssumption, FS_Subset DEF Pending
  <2>3. Cardinality(Pending) \in Nat /\ Cardinality(Pending') = Cardinality(Pending) + 1
    BY <2>1, <2>2, FS_CardinalityType, FS_AddElement
  <2>4. sequence + Cardinality(Pending) < MaxSequence
    BY DEF StoreState
  <2>5. QED
    BY <1>1, <2>3, <2>4, SessionBoundsAssumption
    DEF BoundOK, SessionInvariant, PublishersOK
<1>5. HistoryOK'
  BY <1>1, <1>2 DEF SessionInvariant, HistoryOK
<1>6. InboxOK'
  BY <1>1 DEF SessionInvariant, InboxOK, IsData
<1>7. ControlOK' /\ LoopOK'
  BY <1>1 DEF SessionInvariant, ControlOK, LoopOK, RequestOK
<1>8. ClientsOK'
  BY <1>1 DEF SessionInvariant, ClientsOK
<1>9. QED
  BY <1>3, <1>4, <1>5, <1>6, <1>7, <1>8 DEF SessionInvariant

LEMMA EncodeStateKeepsInvariant ==
  ASSUME SessionInvariant, NEW p \in Publishers, EncodeState(p)
  PROVE  SessionInvariant'
<1>1. /\ task[p].pc = "stored" /\ task[p].state \in State
      /\ encoder_lock = None /\ encoder_lock' = p
      /\ sequence \in Nat /\ sequence' = sequence + 1
      /\ last_state' = task[p].state
      /\ UNCHANGED <<state, history, loop, control, inbox, sub, sessions>>
  BY DEF EncodeState, TakeSequence, SessionInvariant, PublishersOK, subscriberVars
<1>2. PICK packet \in Candidates(task[p].state) :
        task' = [task EXCEPT ![p].pc = "encoded", ![p].packet = packet]
  BY DEF EncodeState
<1>3. packet.sequence = sequence + 1
  BY <1>2 DEF Candidates, SnapshotPacket, DeltaPacket
<1>4. /\ DOMAIN task' = Publishers
      /\ DOMAIN task'[p] = {"pc", "state", "packet"}
      /\ task'[p].pc = "encoded"
      /\ task'[p].packet = packet
      /\ \A q \in Publishers : q # p => task'[q] = task[q]
  BY <1>2 DEF SessionInvariant, PublishersOK
<1>5. \A q \in Publishers : ~InFlight(q) /\ (InFlight(q)' <=> q = p)
  <2>1. \A q \in Publishers : ~InFlight(q)
    BY <1>1, PublishersAssumption DEF SessionInvariant, PublishersOK
  <2>2. QED
    BY <1>4, <2>1 DEF InFlight
<1>6. PublishersOK'
  <2>1. log' = [n \in 0..(sequence + 1) |->
                  IF n = sequence + 1 THEN task[p].state ELSE log[n]]
    BY DEF EncodeState, TakeSequence
  <2>2. log' \in [0..sequence' -> State]
    BY <1>1, <2>1 DEF SessionInvariant, PublishersOK
  <2>3. \A q \in Publishers :
          /\ DOMAIN task'[q] = {"pc", "state", "packet"}
          /\ task'[q].pc \in {"idle", "stored", "encoded", "sent"}
          /\ encoder_lock' = q <=> InFlight(q)'
          /\ task'[q].pc = "stored" => task'[q].state \in State
          /\ InFlight(q)' => task'[q].packet.sequence = sequence'
    BY <1>1, <1>3, <1>4, <1>5 DEF SessionInvariant, PublishersOK
  <2>4. QED
    BY <1>1, <1>4, <2>2, <2>3 DEF SessionInvariant, PublishersOK
<1>7. BoundOK'
  <2>1. Pending' = Pending \ {p} /\ p \in Pending
    BY <1>1, <1>4 DEF Pending
  <2>2. IsFiniteSet(Pending)
    BY PublishersAssumption, FS_Subset DEF Pending
  <2>3. /\ Cardinality(Pending) \in Nat
        /\ Cardinality(Pending') = Cardinality(Pending) - 1
    BY <2>1, <2>2, FS_CardinalityType, FS_RemoveElement
  <2>4. QED
    BY <1>1, <2>3, SessionBoundsAssumption DEF SessionInvariant, BoundOK
<1>8. HistoryOK'
  BY <1>1, <1>5 DEF SessionInvariant, HistoryOK
<1>9. InboxOK'
  BY <1>1 DEF SessionInvariant, InboxOK, IsData
<1>10. ControlOK' /\ LoopOK'
  BY <1>1, RequestsStay DEF SessionInvariant, ControlOK, LoopOK, RequestOK
<1>11. ClientsOK'
  <2>1. 0..sequence \subseteq 0..sequence'
    BY <1>1
  <2>2. Seq(0..sequence) \subseteq Seq(0..sequence')
    BY <2>1, SeqMonotonic
  <2>3. QED
    BY <1>1, <2>1, <2>2 DEF SessionInvariant, ClientsOK
<1>12. QED
  BY <1>6, <1>7, <1>8, <1>9, <1>10, <1>11 DEF SessionInvariant

LEMMA FailToEncodeKeepsInvariant ==
  ASSUME SessionInvariant, NEW p \in Publishers, FailToEncode(p)
  PROVE  SessionInvariant'
<1>1. /\ task[p].pc = "stored" /\ task[p].state \in State
      /\ encoder_lock = None
      /\ sequence \in Nat /\ sequence' = sequence + 1
      /\ UNCHANGED <<last_state, encoder_lock, state, history, loop, control, inbox,
                     sub, sessions>>
  BY DEF FailToEncode, TakeSequence, SessionInvariant, PublishersOK, subscriberVars
<1>2. /\ DOMAIN task' = Publishers
      /\ task'[p] = [pc |-> "idle", state |-> None, packet |-> None]
      /\ \A q \in Publishers : q # p => task'[q] = task[q]
  BY DEF FailToEncode, SessionInvariant, PublishersOK, IdleTask
<1>3. \A q \in Publishers : ~InFlight(q) /\ ~InFlight(q)'
  <2>1. \A q \in Publishers : ~InFlight(q)
    BY <1>1, PublishersAssumption DEF SessionInvariant, PublishersOK
  <2>2. QED
    BY <1>2, <2>1 DEF InFlight
<1>4. PublishersOK'
  <2>1. log' = [n \in 0..(sequence + 1) |->
                  IF n = sequence + 1 THEN task[p].state ELSE log[n]]
    BY DEF FailToEncode, TakeSequence
  <2>2. log' \in [0..sequence' -> State]
    BY <1>1, <2>1 DEF SessionInvariant, PublishersOK
  <2>3. \A q \in Publishers :
          /\ DOMAIN task'[q] = {"pc", "state", "packet"}
          /\ task'[q].pc \in {"idle", "stored", "encoded", "sent"}
          /\ encoder_lock' = q <=> InFlight(q)'
          /\ task'[q].pc = "stored" => task'[q].state \in State
          /\ InFlight(q)' => task'[q].packet.sequence = sequence'
    BY <1>1, <1>2, <1>3, PublishersAssumption DEF SessionInvariant, PublishersOK
  <2>4. QED
    BY <1>1, <1>2, <2>2, <2>3 DEF SessionInvariant, PublishersOK
<1>5. BoundOK'
  <2>1. Pending' = Pending \ {p} /\ p \in Pending
    BY <1>1, <1>2 DEF Pending
  <2>2. IsFiniteSet(Pending)
    BY PublishersAssumption, FS_Subset DEF Pending
  <2>3. /\ Cardinality(Pending) \in Nat
        /\ Cardinality(Pending') = Cardinality(Pending) - 1
    BY <2>1, <2>2, FS_CardinalityType, FS_RemoveElement
  <2>4. QED
    BY <1>1, <2>3, SessionBoundsAssumption DEF SessionInvariant, BoundOK
<1>6. HistoryOK'
  BY <1>1, <1>3 DEF SessionInvariant, HistoryOK
<1>7. InboxOK'
  <2>1. \A q \in Publishers : task'[q].pc # "encoded"
    BY <1>3 DEF InFlight
  <2>2. QED
    BY <1>1, <2>1 DEF SessionInvariant, InboxOK, IsData
<1>8. ControlOK' /\ LoopOK'
  BY <1>1, RequestsStay DEF SessionInvariant, ControlOK, LoopOK, RequestOK
<1>9. ClientsOK'
  <2>1. 0..sequence \subseteq 0..sequence'
    BY <1>1
  <2>2. Seq(0..sequence) \subseteq Seq(0..sequence')
    BY <2>1, SeqMonotonic
  <2>3. QED
    BY <1>1, <2>1, <2>2 DEF SessionInvariant, ClientsOK
<1>10. QED
  BY <1>4, <1>5, <1>6, <1>7, <1>8, <1>9 DEF SessionInvariant

\* The lock and the packets in hand as two publishers see them.
LEMMA OneInFlight ==
  ASSUME PublishersOK, NEW p \in Publishers, NEW q \in Publishers,
         InFlight(p), InFlight(q)
  PROVE  p = q
BY DEF PublishersOK

LEMMA SendPacketKeepsInvariant ==
  ASSUME SessionInvariant, NEW p \in Publishers, SendPacket(p)
  PROVE  SessionInvariant'
<1>1. /\ task[p].pc = "encoded"
      /\ UNCHANGED <<sequence, last_state, encoder_lock, state, history, log, loop,
                     control, sub, sessions>>
      /\ DOMAIN task' = Publishers
      /\ DOMAIN task'[p] = {"pc", "state", "packet"}
      /\ task'[p].pc = "sent"
      /\ task'[p].packet = task[p].packet
      /\ \A q \in Publishers : q # p => task'[q] = task[q]
  BY DEF SendPacket, SessionInvariant, PublishersOK, subscriberVars
<1>2. InFlight(p) /\ \A q \in Publishers : InFlight(q)' <=> InFlight(q)
  BY <1>1 DEF InFlight
<1>3. \A q \in Publishers : task'[q].pc # "encoded"
  <2>1. \A q \in Publishers : InFlight(q) => q = p
    BY <1>2, OneInFlight DEF SessionInvariant
  <2>2. QED
    BY <1>1, <2>1 DEF InFlight
<1>4. /\ PublishersOK
      /\ task[p].packet.sequence = sequence
      /\ sequence \in Nat
  BY <1>2 DEF SessionInvariant, PublishersOK
<1>5. PublishersOK'
  BY <1>1, <1>2 DEF SessionInvariant, PublishersOK, InFlight
<1>6. BoundOK'
  <2>1. Pending' = Pending
    BY <1>1 DEF Pending
  <2>2. QED
    BY <1>1, <2>1 DEF SessionInvariant, BoundOK
<1>7. HistoryOK'
  BY <1>1, <1>2 DEF SessionInvariant, HistoryOK
<1>8. InboxOK'
  <2>1. DOMAIN inbox' = Clients
    BY DEF SendPacket
  <2>2. ASSUME NEW c \in Clients
        PROVE  /\ IsSeq(inbox'[c])
               /\ \A i \in 1..Len(inbox'[c]) :
                    inbox'[c][i].packet.sequence \in 0..sequence'
               /\ \A i, j \in 1..Len(inbox'[c]) :
                    i < j /\ IsData(c, i)' /\ IsData(c, j)' =>
                      inbox'[c][i].packet.sequence < inbox'[c][j].packet.sequence
    <3>. DEFINE m == Message("data", task[p].packet)
    <3>1. CASE ~sub[c].running
      <4>1. inbox'[c] = inbox[c]
        BY <3>1 DEF SendPacket
      <4>2. QED
        BY <1>1, <4>1 DEF SessionInvariant, InboxOK, IsData
    <3>2. CASE sub[c].running
      <4>1. inbox'[c] = Append(inbox[c], m)
        BY <3>2 DEF SendPacket
      <4>2. IsSeq(inbox[c]) /\ Len(inbox[c]) \in Nat
        BY DEF SessionInvariant, InboxOK, IsSeq
      <4>3. m.packet.sequence = sequence /\ m.packet = task[p].packet
        BY <1>4 DEF Message
      <4>. HIDE DEF m
      <4>4. /\ IsSeq(inbox'[c])
            /\ Len(inbox'[c]) = Len(inbox[c]) + 1
            /\ inbox'[c][Len(inbox[c]) + 1] = m
            /\ \A i \in 1..Len(inbox[c]) : inbox'[c][i] = inbox[c][i]
        BY <4>1, <4>2, AppendIsSeq
      <4>5. \A i \in 1..Len(inbox'[c]) :
              inbox'[c][i].packet.sequence \in 0..sequence'
        BY <1>1, <1>4, <4>2, <4>3, <4>4 DEF SessionInvariant, InboxOK
      <4>6. ASSUME NEW i \in 1..Len(inbox'[c]), NEW j \in 1..Len(inbox'[c]),
                   i < j, IsData(c, i)', IsData(c, j)'
            PROVE  inbox'[c][i].packet.sequence < inbox'[c][j].packet.sequence
        <5>1. i \in 1..Len(inbox[c]) /\ IsData(c, i) /\ inbox'[c][i] = inbox[c][i]
          BY <4>2, <4>4, <4>6 DEF IsData
        <5>2. CASE j = Len(inbox[c]) + 1
          BY <1>1, <4>3, <4>4, <5>1, <5>2 DEF SessionInvariant, InboxOK
        <5>3. CASE j # Len(inbox[c]) + 1
          <6>1. j \in 1..Len(inbox[c]) /\ IsData(c, j) /\ inbox'[c][j] = inbox[c][j]
            BY <4>2, <4>4, <4>6, <5>3 DEF IsData
          <6>2. QED
            BY <4>6, <5>1, <6>1 DEF SessionInvariant, InboxOK
        <5>4. QED
          BY <5>2, <5>3
      <4>7. QED
        BY <4>4, <4>5, <4>6
    <3>3. QED
      BY <3>1, <3>2
  <2>3. QED
    BY <1>3, <2>1, <2>2 DEF InboxOK
<1>9. ControlOK' /\ LoopOK'
  BY <1>1 DEF SessionInvariant, ControlOK, LoopOK, RequestOK
<1>10. ClientsOK'
  <2>1. \A c \in Clients : ~sub[c].running => inbox'[c] = inbox[c]
    BY DEF SendPacket
  <2>2. QED
    BY <1>1, <2>1 DEF SessionInvariant, ClientsOK
<1>11. QED
  BY <1>5, <1>6, <1>7, <1>8, <1>9, <1>10 DEF SessionInvariant

\* Both ends of a call release the encoder and forget the packet.
LEMMA ReleaseKeepsPublishers ==
  ASSUME SessionInvariant, NEW p \in Publishers, InFlight(p),
         encoder_lock' = None, task' = [task EXCEPT ![p] = IdleTask],
         UNCHANGED <<sequence, last_state, state, log>>
  PROVE  /\ PublishersOK'
         /\ BoundOK'
         /\ \A q \in Publishers : task'[q].pc \notin {"encoded", "sent"}
<1>1. /\ DOMAIN task' = Publishers
      /\ task'[p] = IdleTask
      /\ \A q \in Publishers : q # p => task'[q] = task[q]
  BY DEF SessionInvariant, PublishersOK
<1>2. \A q \in Publishers : InFlight(q) => q = p
  BY OneInFlight DEF SessionInvariant
<1>3. /\ DOMAIN IdleTask = {"pc", "state", "packet"}
      /\ IdleTask.pc = "idle"
  BY DEF IdleTask
<1>4. \A q \in Publishers : task'[q].pc \notin {"encoded", "sent"}
  BY <1>1, <1>2, <1>3 DEF InFlight
<1>5. PublishersOK'
  <2>1. \A q \in Publishers :
          /\ DOMAIN task'[q] = {"pc", "state", "packet"}
          /\ task'[q].pc \in {"idle", "stored", "encoded", "sent"}
          /\ task'[q].pc = "stored" => task'[q].state \in State
    BY <1>1, <1>3 DEF SessionInvariant, PublishersOK
  <2>2. \A q \in Publishers : encoder_lock' = q <=> InFlight(q)'
    BY <1>4, PublishersAssumption DEF InFlight
  <2>3. QED
    BY <1>1, <1>4, <2>1, <2>2 DEF SessionInvariant, PublishersOK, InFlight
<1>6. BoundOK'
  <2>1. Pending' = Pending
    BY <1>1, <1>3 DEF Pending, InFlight
  <2>2. QED
    BY <2>1 DEF SessionInvariant, BoundOK
<1>7. QED
  BY <1>4, <1>5, <1>6

LEMMA RecordSentKeepsInvariant ==
  ASSUME SessionInvariant, NEW p \in Publishers, RecordSent(p)
  PROVE  SessionInvariant'
<1>. DEFINE n == Len(history.packets)
            all == Append(history.packets, task[p].packet)
<1>1. /\ InFlight(p)
      /\ task[p].packet.sequence = sequence
      /\ sequence \in Nat
      /\ UNCHANGED <<sequence, last_state, state, log, loop, control, inbox, sub, sessions>>
      /\ history' = RecordPacket(history, task[p].packet)
  BY DEF RecordSent, SessionInvariant, PublishersOK, subscriberVars, InFlight
<1>2. /\ PublishersOK'
      /\ BoundOK'
      /\ \A q \in Publishers : task'[q].pc \notin {"encoded", "sent"}
  BY <1>1, ReleaseKeepsPublishers DEF RecordSent
<1>3. HistoryOK'
  <2>1. IsSeq(history.packets) /\ n \in Nat
    BY DEF SessionInvariant, HistoryOK, IsSeq
  <2>2. /\ IsSeq(all)
        /\ Len(all) = n + 1
        /\ all[n + 1] = task[p].packet
        /\ \A i \in 1..n : all[i] = history.packets[i]
    BY <2>1, AppendIsSeq
  <2>3. PICK k \in 0..(n + 1) :
          history'.packets = SubSeq(all, k + 1, n + 1)
    BY <1>1, <2>1, RecordKeepsSuffix
  <2>. HIDE DEF all
  <2>4. /\ IsSeq(history'.packets)
        /\ Len(history'.packets) = n + 1 - k
        /\ \A i \in 1..(n + 1 - k) : history'.packets[i] = all[i + k]
    <3>1. k \in 0..Len(all) /\ history'.packets = SubSeq(all, k + 1, Len(all))
      BY <2>2, <2>3
    <3>. HIDE DEF n
    <3>2. /\ IsSeq(SubSeq(all, k + 1, Len(all)))
          /\ Len(SubSeq(all, k + 1, Len(all))) = Len(all) - k
          /\ \A i \in 1..(Len(all) - k) : SubSeq(all, k + 1, Len(all))[i] = all[i + k]
      BY <2>2, <3>1, SubSeqIsSeq
    <3>3. QED
      BY <2>1, <2>2, <2>3, <3>1, <3>2
  <2>5. /\ \A i \in 1..(n + 1) : all[i].sequence \in 0..sequence
        /\ \A i, j \in 1..(n + 1) : i < j => all[i].sequence < all[j].sequence
    <3>1. \A i \in 1..n : /\ all[i].sequence \in 0..sequence
                          /\ all[i].sequence < sequence
      BY <1>1, <2>2 DEF SessionInvariant, HistoryOK
    <3>2. \A i, j \in 1..n : i < j => all[i].sequence < all[j].sequence
      BY <2>2 DEF SessionInvariant, HistoryOK
    <3>3. all[n + 1].sequence = sequence
      BY <1>1, <2>2
    <3>4. \A i \in 1..(n + 1) : i \in 1..n \/ i = n + 1
      BY <2>1
    <3>5. \A i, j \in 1..(n + 1) : i < j => i \in 1..n
      BY <2>1
    <3>6. QED
      BY <1>1, <3>1, <3>2, <3>3, <3>4, <3>5
  <2>6. \A i \in 1..(n + 1 - k) : i + k \in 1..(n + 1)
    BY <2>1
  <2>7. \A i \in 1..Len(history'.packets) : history'.packets[i].sequence \in 0..sequence'
    BY <1>1, <2>4, <2>5, <2>6
  <2>8. \A i, j \in 1..Len(history'.packets) :
          i < j => history'.packets[i].sequence < history'.packets[j].sequence
    <3>1. \A i, j \in 1..(n + 1 - k) : i < j => i + k < j + k
      BY <2>1
    <3>2. QED
      BY <2>4, <2>5, <2>6, <3>1
  <2>9. QED
    BY <1>2, <2>4, <2>7, <2>8 DEF HistoryOK, InFlight
<1>4. InboxOK'
  BY <1>1, <1>2 DEF SessionInvariant, InboxOK, IsData
<1>5. ControlOK' /\ LoopOK'
  BY <1>1 DEF SessionInvariant, ControlOK, LoopOK, RequestOK
<1>6. ClientsOK'
  BY <1>1 DEF SessionInvariant, ClientsOK
<1>7. QED
  BY <1>2, <1>3, <1>4, <1>5, <1>6 DEF SessionInvariant

LEMMA FailToSendKeepsInvariant ==
  ASSUME SessionInvariant, NEW p \in Publishers, FailToSend(p)
  PROVE  SessionInvariant'
<1>1. /\ InFlight(p)
      /\ UNCHANGED <<sequence, last_state, state, log, history, loop, control, inbox,
                     sub, sessions>>
  BY DEF FailToSend, subscriberVars, InFlight
<1>2. /\ PublishersOK'
      /\ BoundOK'
      /\ \A q \in Publishers : task'[q].pc \notin {"encoded", "sent"}
  BY <1>1, ReleaseKeepsPublishers DEF FailToSend
<1>3. HistoryOK' /\ InboxOK'
  BY <1>1, <1>2 DEF SessionInvariant, HistoryOK, InboxOK, IsData, InFlight
<1>4. ControlOK' /\ LoopOK'
  BY <1>1 DEF SessionInvariant, ControlOK, LoopOK, RequestOK
<1>5. ClientsOK'
  BY <1>1 DEF SessionInvariant, ClientsOK
<1>6. QED
  BY <1>2, <1>3, <1>4, <1>5 DEF SessionInvariant
-----------------------------------------------------------------------------
(***************************************************************************)
(* The control loop.                                                       *)
(***************************************************************************)
\* A step of the loop that touches nothing of the publishers, the clients and
\* the subscriptions only has the control topic and itself to keep right.
LEMMA LoopStepKeepsRest ==
  ASSUME SessionInvariant, UNCHANGED <<publisherVars, inbox, subscriberVars>>
  PROVE  PublishersOK' /\ BoundOK' /\ HistoryOK' /\ InboxOK' /\ ClientsOK'
<1>1. UNCHANGED <<sequence, last_state, encoder_lock, state, history, task, log, inbox,
                  sub, sessions>>
  BY DEF publisherVars, subscriberVars
<1>2. PublishersOK' /\ BoundOK' /\ HistoryOK'
  BY <1>1 DEF SessionInvariant, PublishersOK, BoundOK, HistoryOK, InFlight, Pending
<1>3. InboxOK' /\ ClientsOK'
  BY <1>1 DEF SessionInvariant, InboxOK, ClientsOK, IsData
<1>4. QED
  BY <1>2, <1>3

\* Taking the oldest request leaves the others.
LEMMA TakeRequest ==
  ASSUME ControlOK, control # <<>>, control' = Tail(control), sequence' = sequence
  PROVE  ControlOK' /\ RequestOK(Head(control))
<1>1. /\ IsSeq(control')
      /\ Len(control') = Len(control) - 1
      /\ Len(control) \in Nat /\ Len(control) > 0
      /\ Head(control) = control[1]
      /\ \A i \in 1..(Len(control) - 1) : control'[i] = control[i + 1]
  BY TailIsSeq DEF ControlOK, IsSeq
<1>2. \A i \in 1..(Len(control) - 1) : i + 1 \in 1..Len(control)
  BY <1>1
<1>3. \A i \in 1..Len(control) : RequestOK(control[i])
  BY DEF ControlOK
<1>4. \A i \in 1..Len(control') : RequestOK(control'[i])
  BY <1>1, <1>2, <1>3
<1>5. QED
  BY <1>1, <1>3, <1>4 DEF ControlOK, RequestOK

LEMMA ReadStateKeepsInvariant ==
  ASSUME SessionInvariant, ReadState
  PROVE  SessionInvariant'
<1>1. UNCHANGED <<publisherVars, inbox, subscriberVars>> /\ sequence' = sequence
  BY DEF ReadState, publisherVars
<1>2. PublishersOK' /\ BoundOK' /\ HistoryOK' /\ InboxOK' /\ ClientsOK'
  BY <1>1, LoopStepKeepsRest
<1>3. ControlOK' /\ RequestOK(Head(control))
  BY <1>1, TakeRequest DEF ReadState, SessionInvariant
<1>4. LoopOK'
  <2>1. /\ DOMAIN loop' = {"pc", "request", "state", "snapshot", "packets", "next"}
        /\ loop'.pc = "read"
        /\ loop'.next = 1
        /\ loop'.request = Head(control)
    BY DEF ReadState, SessionInvariant, LoopOK
  <2>2. QED
    BY <1>1, <1>3, <2>1 DEF LoopOK, RequestOK
<1>5. QED
  BY <1>2, <1>3, <1>4 DEF SessionInvariant

LEMMA BuildSnapshotKeepsInvariant ==
  ASSUME SessionInvariant, BuildSnapshot
  PROVE  SessionInvariant'
<1>1. UNCHANGED <<publisherVars, inbox, subscriberVars>>
      /\ sequence' = sequence /\ control' = control
  BY DEF BuildSnapshot, publisherVars
<1>2. PublishersOK' /\ BoundOK' /\ HistoryOK' /\ InboxOK' /\ ClientsOK'
  BY <1>1, LoopStepKeepsRest
<1>3. ControlOK'
  BY <1>1 DEF SessionInvariant, ControlOK, RequestOK
<1>4. LoopOK'
  <2>1. /\ DOMAIN loop' = {"pc", "request", "state", "snapshot", "packets", "next"}
        /\ loop'.pc = "built"
        /\ loop'.next = 1
        /\ loop'.request = loop.request
        /\ loop'.snapshot = SnapshotPacket(sequence, Schema, loop.state)
    BY DEF BuildSnapshot, SessionInvariant, LoopOK
  <2>2. loop'.snapshot.sequence = sequence
    BY <2>1 DEF SnapshotPacket
  <2>3. RequestOK(loop.request) /\ sequence \in Nat
    BY DEF BuildSnapshot, SessionInvariant, LoopOK, PublishersOK
  <2>4. QED
    BY <1>1, <2>1, <2>2, <2>3 DEF LoopOK, RequestOK
<1>5. QED
  BY <1>2, <1>3, <1>4 DEF SessionInvariant

LEMMA PlanRecoveryKeepsInvariant ==
  ASSUME SessionInvariant, PlanRecovery
  PROVE  SessionInvariant'
<1>1. UNCHANGED <<publisherVars, inbox, subscriberVars>>
      /\ sequence' = sequence /\ control' = control
  BY DEF PlanRecovery, publisherVars
<1>2. PublishersOK' /\ BoundOK' /\ HistoryOK' /\ InboxOK' /\ ClientsOK'
  BY <1>1, LoopStepKeepsRest
<1>3. ControlOK'
  BY <1>1 DEF SessionInvariant, ControlOK, RequestOK
<1>4. LoopOK'
  <2>. DEFINE plan == Plan(history, loop.request.local, loop.snapshot)
  <2>1. /\ DOMAIN loop' = {"pc", "request", "state", "snapshot", "packets", "next"}
        /\ loop'.pc = "planned"
        /\ loop'.request = loop.request
        /\ loop'.snapshot = loop.snapshot
        /\ loop'.packets = plan
        /\ loop'.next = 1
    BY DEF PlanRecovery, SessionInvariant, LoopOK
  <2>2. /\ RequestOK(loop.request)
        /\ loop.snapshot.sequence \in 0..sequence
        /\ loop.request.local # None => loop.request.local < loop.snapshot.sequence
        /\ sequence \in Nat
    BY DEF PlanRecovery, SessionInvariant, LoopOK, PublishersOK
  <2>3. /\ Len(plan) \in Nat \ {0}
        /\ \A i \in 1..Len(plan) : plan[i].sequence \in 0..loop.snapshot.sequence
        /\ loop.request.local # None => loop.request.local < plan[Len(plan)].sequence
    BY <2>2, PlanLeadsForward DEF RequestOK
  <2>. HIDE DEF plan
  <2>4. QED
    BY <1>1, <2>1, <2>2, <2>3 DEF LoopOK, RequestOK
<1>5. QED
  BY <1>2, <1>3, <1>4 DEF SessionInvariant

\* The publisher's part of a step that it takes no part in.
LEMMA PublisherIdle ==
  ASSUME SessionInvariant, UNCHANGED publisherVars
  PROVE  /\ PublishersOK' /\ BoundOK' /\ HistoryOK'
         /\ UNCHANGED <<sequence, task>>
         /\ sequence \in Nat
<1>1. UNCHANGED <<sequence, last_state, encoder_lock, state, history, task, log>>
  BY DEF publisherVars
<1>2. PublishersOK' /\ BoundOK' /\ HistoryOK'
  BY <1>1 DEF SessionInvariant, PublishersOK, BoundOK, HistoryOK, InFlight, Pending
<1>3. QED
  BY <1>1, <1>2 DEF SessionInvariant, PublishersOK

\* What InboxOK says of one subscription.
OrderedInbox(c) ==
  /\ IsSeq(inbox[c])
  /\ \A i \in 1..Len(inbox[c]) : inbox[c][i].packet.sequence \in 0..sequence
  /\ \A i, j \in 1..Len(inbox[c]) :
       i < j /\ IsData(c, i) /\ IsData(c, j) =>
         inbox[c][i].packet.sequence < inbox[c][j].packet.sequence
  /\ \A p \in Publishers : task[p].pc = "encoded" =>
       \A i \in 1..Len(inbox[c]) :
         IsData(c, i) => inbox[c][i].packet.sequence < sequence

\* Only one subscription changes.
LEMMA OneInboxChanges ==
  ASSUME InboxOK, NEW c \in Clients, NEW s, inbox' = [inbox EXCEPT ![c] = s],
         UNCHANGED <<sequence, task>>, OrderedInbox(c)'
  PROVE  /\ InboxOK'
         /\ inbox'[c] = s
         /\ \A d \in Clients : d # c => inbox'[d] = inbox[d]
<1>1. /\ DOMAIN inbox' = Clients
      /\ inbox'[c] = s
      /\ \A d \in Clients : d # c => inbox'[d] = inbox[d]
  BY DEF InboxOK
<1>2. \A d \in Clients : d # c => OrderedInbox(d)'
  BY <1>1 DEF InboxOK, OrderedInbox, IsData
<1>3. InboxOK'
  BY <1>1, <1>2 DEF InboxOK, OrderedInbox
<1>4. QED
  BY <1>1, <1>3

\* Taking or losing the oldest message leaves the others in order.
LEMMA TailKeepsOrder ==
  ASSUME InboxOK, NEW c \in Clients, inbox[c] # <<>>,
         inbox' = [inbox EXCEPT ![c] = Tail(@)], UNCHANGED <<sequence, task>>
  PROVE  /\ InboxOK'
         /\ HeadPacket(c).sequence \in 0..sequence
         /\ \A d \in Clients : d # c => inbox'[d] = inbox[d]
<1>1. /\ IsSeq(inbox[c])
      /\ Len(inbox[c]) \in Nat
      /\ inbox' = [inbox EXCEPT ![c] = Tail(inbox[c])]
      /\ inbox'[c] = Tail(inbox[c])
      /\ OrderedInbox(c)
  BY DEF InboxOK, IsSeq, OrderedInbox
<1>2. /\ IsSeq(inbox'[c])
      /\ Len(inbox'[c]) = Len(inbox[c]) - 1
      /\ Len(inbox[c]) > 0
      /\ Head(inbox[c]) = inbox[c][1]
      /\ \A i \in 1..(Len(inbox[c]) - 1) : inbox'[c][i] = inbox[c][i + 1]
  BY <1>1, TailIsSeq
<1>3. \A i \in 1..(Len(inbox[c]) - 1) :
        i + 1 \in 1..Len(inbox[c]) /\ (IsData(c, i)' => IsData(c, i + 1))
  BY <1>1, <1>2 DEF IsData
<1>4. \A i, j \in 1..(Len(inbox[c]) - 1) : i < j => i + 1 < j + 1
  BY <1>1
<1>5. OrderedInbox(c)'
  <2>1. \A i \in 1..Len(inbox'[c]) : inbox'[c][i].packet.sequence \in 0..sequence'
    BY <1>1, <1>2, <1>3 DEF OrderedInbox
  <2>2. ASSUME NEW i \in 1..Len(inbox'[c]), NEW j \in 1..Len(inbox'[c]),
               i < j, IsData(c, i)', IsData(c, j)'
        PROVE  inbox'[c][i].packet.sequence < inbox'[c][j].packet.sequence
    <3>1. /\ i + 1 \in 1..Len(inbox[c]) /\ IsData(c, i + 1)
          /\ j + 1 \in 1..Len(inbox[c]) /\ IsData(c, j + 1)
          /\ i + 1 < j + 1
      BY <1>2, <1>3, <1>4, <2>2
    <3>2. inbox[c][i + 1].packet.sequence < inbox[c][j + 1].packet.sequence
      BY <1>1, <3>1 DEF OrderedInbox
    <3>3. inbox'[c][i] = inbox[c][i + 1] /\ inbox'[c][j] = inbox[c][j + 1]
      BY <1>2, <2>2
    <3>4. QED
      BY <3>2, <3>3
  <2>3. \A p \in Publishers : task'[p].pc = "encoded" =>
          \A i \in 1..Len(inbox'[c]) :
            IsData(c, i)' => inbox'[c][i].packet.sequence < sequence'
    BY <1>1, <1>2, <1>3 DEF OrderedInbox
  <2>4. QED
    BY <1>2, <2>1, <2>2, <2>3 DEF OrderedInbox
<1>6. HeadPacket(c).sequence \in 0..sequence
  BY <1>1, <1>2 DEF OrderedInbox, HeadPacket
<1>7. QED
  BY <1>1, <1>5, <1>6, OneInboxChanges

LEMMA ReplyKeepsInvariant ==
  ASSUME SessionInvariant, Reply
  PROVE  SessionInvariant'
<1>. DEFINE m == Message("reply", loop.packets[loop.next])
<1>0. PICK c \in Clients : c = loop.request.client
  BY DEF Reply, SessionInvariant, LoopOK, RequestOK
<1>1. UNCHANGED <<publisherVars, control, sub, sessions>>
  BY DEF Reply, subscriberVars
<1>2. /\ PublishersOK' /\ BoundOK' /\ HistoryOK'
      /\ UNCHANGED <<sequence, task>>
      /\ sequence \in Nat
  BY <1>1, PublisherIdle
<1>3. /\ loop.pc = "planned"
      /\ Len(loop.packets) \in Nat
      /\ loop.next \in 1..Len(loop.packets)
      /\ loop.packets[loop.next].sequence \in 0..sequence
  BY DEF Reply, SessionInvariant, LoopOK, RequestOK
<1>4. m.topic = "reply" /\ m.packet = loop.packets[loop.next]
  BY DEF Message
<1>5. InboxOK' /\ \A d \in Clients : ~sub[d].running => inbox'[d] = inbox[d]
  <2>1. CASE ~sub[c].running
    <3>1. inbox' = inbox
      BY <1>0, <2>1 DEF Reply
    <3>2. QED
      BY <1>2, <3>1 DEF SessionInvariant, InboxOK, IsData
  <2>2. CASE sub[c].running
    <3>. DEFINE t == Append(inbox[c], m)
    <3>1. inbox' = [inbox EXCEPT ![c] = t]
      BY <1>0, <2>2 DEF Reply
    <3>2. /\ InboxOK /\ OrderedInbox(c) /\ IsSeq(inbox[c]) /\ Len(inbox[c]) \in Nat
          /\ inbox'[c] = t
      BY <1>3, <3>1 DEF SessionInvariant, InboxOK, OrderedInbox, IsSeq
    <3>3. /\ IsSeq(t)
          /\ Len(t) = Len(inbox[c]) + 1
          /\ t[Len(inbox[c]) + 1] = m
          /\ \A i \in 1..Len(inbox[c]) : t[i] = inbox[c][i]
      BY <3>2, AppendIsSeq
    <3>. HIDE DEF m, t
    <3>4. \A i \in 1..Len(t) :
            \/ i = Len(inbox[c]) + 1 /\ ~IsData(c, i)'
            \/ i \in 1..Len(inbox[c]) /\ t[i] = inbox[c][i] /\ (IsData(c, i)' <=> IsData(c, i))
      BY <1>4, <3>2, <3>3 DEF IsData
    <3>5. OrderedInbox(c)'
      <4>1. \A i \in 1..Len(t) : t[i].packet.sequence \in 0..sequence'
        BY <1>2, <1>3, <1>4, <3>2, <3>3, <3>4 DEF OrderedInbox
      <4>2. \A i, j \in 1..Len(t) :
              i < j /\ IsData(c, i)' /\ IsData(c, j)' =>
                t[i].packet.sequence < t[j].packet.sequence
        BY <3>2, <3>4 DEF OrderedInbox
      <4>3. \A p \in Publishers : task'[p].pc = "encoded" =>
              \A i \in 1..Len(t) : IsData(c, i)' => t[i].packet.sequence < sequence'
        BY <1>2, <3>2, <3>4 DEF OrderedInbox
      <4>4. QED
        BY <3>2, <3>3, <4>1, <4>2, <4>3 DEF OrderedInbox
    <3>6. /\ InboxOK'
          /\ \A d \in Clients : d # c => inbox'[d] = inbox[d]
      BY <1>2, <1>3, <3>1, <3>2, <3>5, OneInboxChanges
    <3>7. QED
      BY <2>2, <3>6
  <2>3. QED
    BY <2>1, <2>2
<1>6. ControlOK'
  BY <1>1, <1>2 DEF SessionInvariant, ControlOK, RequestOK
<1>7. LoopOK'
  <2>1. CASE loop' = IdleLoop
    BY <2>1 DEF IdleLoop, LoopOK
  <2>2. CASE loop' # IdleLoop
    <3>1. /\ loop.next # Len(loop.packets)
          /\ loop' = [loop EXCEPT !.next = loop.next + 1]
      BY <2>2 DEF Reply
    <3>2. loop.next + 1 \in 1..Len(loop.packets)
      BY <1>3, <3>1
    <3>3. QED
      BY <1>2, <1>3, <3>1, <3>2 DEF SessionInvariant, LoopOK, RequestOK
  <2>3. QED
    BY <2>1, <2>2
<1>8. ClientsOK'
  BY <1>1, <1>2, <1>5 DEF SessionInvariant, ClientsOK
<1>9. QED
  BY <1>2, <1>5, <1>6, <1>7, <1>8 DEF SessionInvariant

LEMMA StopControlKeepsInvariant ==
  ASSUME SessionInvariant, StopControl
  PROVE  SessionInvariant'
<1>1. UNCHANGED <<publisherVars, inbox, subscriberVars>>
      /\ sequence' = sequence /\ control' = control
  BY DEF StopControl, publisherVars
<1>2. PublishersOK' /\ BoundOK' /\ HistoryOK' /\ InboxOK' /\ ClientsOK'
  BY <1>1, LoopStepKeepsRest
<1>3. ControlOK'
  BY <1>1 DEF SessionInvariant, ControlOK, RequestOK
<1>4. LoopOK'
  BY DEF StopControl, IdleLoop, LoopOK
<1>5. QED
  BY <1>2, <1>3, <1>4 DEF SessionInvariant
-----------------------------------------------------------------------------
(***************************************************************************)
(* The subscribers.                                                        *)
(***************************************************************************)
\* What ClientsOK says of one client.
ClientOK(c) ==
  /\ DOMAIN sub[c] = {"running", "decoder", "awaiting"}
  /\ ~sub[c].running => sub[c] = NoSession /\ inbox[c] = <<>>
  /\ sub[c].decoder.sequence \in 0..sequence \cup {None}
  /\ sub[c].decoder.seen \in Seq(0..sequence)
  /\ Len(sub[c].decoder.seen) <= WindowCapacity
  /\ WindowInOrder(sub[c].decoder)

\* Only one client and its subscription change.
LEMMA OneClientChanges ==
  ASSUME ClientsOK, NEW c \in Clients, DOMAIN sub' = Clients, sequence' = sequence,
         sessions' \in [Clients -> 0..MaxSessions], ClientOK(c)',
         \A d \in Clients : d # c => sub'[d] = sub[d] /\ inbox'[d] = inbox[d]
  PROVE  ClientsOK'
<1>1. \A d \in Clients : d # c => ClientOK(d)'
  BY DEF ClientsOK, ClientOK
<1>2. QED
  BY <1>1 DEF ClientsOK, ClientOK

\* Requests and the loop are right as long as the sequence stays.
LEMMA LoopStays ==
  ASSUME SessionInvariant, sequence' = sequence, loop' = loop
  PROVE  LoopOK' /\ (control' = control => ControlOK')
BY DEF SessionInvariant, LoopOK, ControlOK, RequestOK

LEMMA JoinKeepsInvariant ==
  ASSUME SessionInvariant, NEW c \in Clients, Join(c)
  PROVE  SessionInvariant'
<1>1. UNCHANGED <<publisherVars, loop, control, inbox>>
  BY DEF Join
<1>2. /\ PublishersOK' /\ BoundOK' /\ HistoryOK'
      /\ UNCHANGED <<sequence, task>>
      /\ sequence \in Nat
  BY <1>1, PublisherIdle
<1>3. InboxOK'
  BY <1>1, <1>2 DEF SessionInvariant, InboxOK, IsData
<1>4. ControlOK' /\ LoopOK'
  BY <1>1, <1>2, LoopStays
<1>5. ClientsOK'
  <2>1. /\ sub' = [sub EXCEPT ![c] = [NoSession EXCEPT !.running = TRUE]]
        /\ sessions' = [sessions EXCEPT ![c] = sessions[c] + 1]
        /\ sessions[c] < MaxSessions
        /\ sessions[c] \in Nat
        /\ sessions \in [Clients -> 0..MaxSessions]
        /\ DOMAIN sub = Clients
    BY DEF Join, SessionInvariant, ClientsOK
  <2>2. sessions' \in [Clients -> 0..MaxSessions]
    BY <2>1, SessionBoundsAssumption
  <2>3. /\ DOMAIN sub' = Clients
        /\ sub'[c] = [NoSession EXCEPT !.running = TRUE]
        /\ \A d \in Clients : d # c => sub'[d] = sub[d]
    BY <2>1
  <2>4. /\ DOMAIN sub'[c] = {"running", "decoder", "awaiting"}
        /\ sub'[c].running = TRUE
        /\ sub'[c].decoder = NoSession.decoder
    BY <2>3, NewSessionOK
  <2>5. ClientOK(c)'
    BY <1>2, <2>4, NewSessionOK DEF ClientOK
  <2>6. QED
    BY <1>1, <1>2, <2>2, <2>3, <2>5, OneClientChanges DEF SessionInvariant
<1>6. QED
  BY <1>2, <1>3, <1>4, <1>5 DEF SessionInvariant

\* What handling the oldest message leaves to show.
LEMMA HandlesKeepsRest ==
  ASSUME SessionInvariant, NEW c \in Clients, NEW outcome, Handles(c, outcome),
         UNCHANGED <<publisherVars, loop>>
  PROVE  /\ PublishersOK' /\ BoundOK' /\ HistoryOK' /\ InboxOK' /\ LoopOK'
         /\ control' = control => ControlOK'
         /\ sequence' = sequence /\ sequence \in Nat
         /\ sub[c].running
         /\ ClientOK(c)
         /\ HeadPacket(c).sequence \in 0..sequence
         /\ HeadOutcome(c) = outcome
         /\ \A d \in Clients : d # c => inbox'[d] = inbox[d]
<1>1. /\ PublishersOK' /\ BoundOK' /\ HistoryOK'
      /\ UNCHANGED <<sequence, task>>
      /\ sequence \in Nat
  BY PublisherIdle
<1>2. /\ InboxOK'
      /\ HeadPacket(c).sequence \in 0..sequence
      /\ \A d \in Clients : d # c => inbox'[d] = inbox[d]
  BY <1>1, TailKeepsOrder DEF Handles, SessionInvariant
<1>3. LoopOK' /\ (control' = control => ControlOK')
  BY <1>1, LoopStays
<1>4. sub[c].running /\ HeadOutcome(c) = outcome /\ ClientOK(c)
  BY DEF Handles, SessionInvariant, ClientsOK, ClientOK
<1>5. QED
  BY <1>1, <1>2, <1>3, <1>4

LEMMA TakePacketKeepsInvariant ==
  ASSUME SessionInvariant, NEW c \in Clients, TakePacket(c)
  PROVE  SessionInvariant'
<1>. DEFINE d == sub[c].decoder
            p == HeadPacket(c)
<1>1. UNCHANGED <<publisherVars, loop, control, sessions>> /\ Handles(c, "Applied")
  BY DEF TakePacket
<1>2. /\ PublishersOK' /\ BoundOK' /\ HistoryOK' /\ InboxOK' /\ LoopOK' /\ ControlOK'
      /\ sequence' = sequence /\ sequence \in Nat
      /\ sub[c].running
      /\ ClientOK(c)
      /\ p.sequence \in 0..sequence
      /\ Outcome(d, Config, p) = "Applied"
      /\ \A e \in Clients : e # c => inbox'[e] = inbox[e]
  BY <1>1, HandlesKeepsRest DEF HeadOutcome
<1>3. /\ DOMAIN sub' = Clients
      /\ sub'[c] = [sub[c] EXCEPT !.decoder = Apply(d, Config, p), !.awaiting = FALSE]
      /\ \A e \in Clients : e # c => sub'[e] = sub[e]
  BY DEF TakePacket, SessionInvariant, ClientsOK
<1>4. /\ DOMAIN sub'[c] = {"running", "decoder", "awaiting"}
      /\ sub'[c].running
      /\ sub'[c].decoder = Advance(d, Config, p)
  BY <1>2, <1>3 DEF ClientOK, Apply
<1>5. ~Stale(d, p)
  BY <1>2 DEF Outcome
<1>6. /\ Advance(d, Config, p).sequence = p.sequence
      /\ Advance(d, Config, p).seen \in Seq(0..sequence)
      /\ Len(Advance(d, Config, p).seen) <= WindowCapacity
      /\ WindowInOrder(Advance(d, Config, p))
  BY <1>2, <1>5, AdvanceKeepsWindow DEF ClientOK
<1>7. ClientOK(c)'
  BY <1>2, <1>4, <1>6 DEF ClientOK
<1>8. ClientsOK'
  BY <1>1, <1>2, <1>3, <1>7, OneClientChanges DEF SessionInvariant, ClientsOK
<1>9. QED
  BY <1>2, <1>8 DEF SessionInvariant

LEMMA IgnoreDuplicateKeepsInvariant ==
  ASSUME SessionInvariant, NEW c \in Clients, IgnoreDuplicate(c)
  PROVE  SessionInvariant'
<1>1. UNCHANGED <<publisherVars, loop, control, sub, sessions>> /\ Handles(c, "Duplicate")
  BY DEF IgnoreDuplicate, subscriberVars
<1>2. /\ PublishersOK' /\ BoundOK' /\ HistoryOK' /\ InboxOK' /\ LoopOK' /\ ControlOK'
      /\ sequence' = sequence
      /\ sub[c].running
      /\ ClientOK(c)
      /\ \A e \in Clients : e # c => inbox'[e] = inbox[e]
  BY <1>1, HandlesKeepsRest
<1>3. ClientOK(c)'
  BY <1>1, <1>2 DEF ClientOK
<1>4. ClientsOK'
  BY <1>1, <1>2, <1>3, OneClientChanges DEF SessionInvariant, ClientsOK
<1>5. QED
  BY <1>2, <1>4 DEF SessionInvariant

LEMMA DiscardPacketKeepsInvariant ==
  ASSUME SessionInvariant, NEW c \in Clients, DiscardPacket(c)
  PROVE  SessionInvariant'
<1>. DEFINE d == sub[c].decoder
            p == HeadPacket(c)
            request == [client |-> c, local |-> d.sequence]
<1>1. UNCHANGED <<publisherVars, loop, sessions>> /\ Handles(c, "NeedSnapshot")
  BY DEF DiscardPacket
<1>2. /\ PublishersOK' /\ BoundOK' /\ HistoryOK' /\ InboxOK' /\ LoopOK'
      /\ control' = control => ControlOK'
      /\ sequence' = sequence /\ sequence \in Nat
      /\ sub[c].running
      /\ ClientOK(c)
      /\ p.sequence \in 0..sequence
      /\ Outcome(d, Config, p) = "NeedSnapshot"
      /\ \A e \in Clients : e # c => inbox'[e] = inbox[e]
  BY <1>1, HandlesKeepsRest DEF HeadOutcome
<1>3. RequestOK(request)
  <2>1. ~Stale(d, p)
    BY <1>2 DEF Outcome
  <2>2. /\ d.seen \in Seq(Nat)
        /\ d.sequence \in Nat \cup {None}
        /\ WindowInOrder(d)
        /\ p.sequence \in Nat /\ p.sequence <= sequence
    <3>1. 0..sequence \subseteq Nat
      BY <1>2
    <3>2. Seq(0..sequence) \subseteq Seq(Nat)
      BY <3>1, SeqMonotonic
    <3>3. QED
      BY <1>2, <3>1, <3>2 DEF ClientOK
  <2>3. d.sequence # None => d.sequence < p.sequence
    BY <2>1, <2>2, StaleComparesSequences
  <2>. HIDE DEF d, p
  <2>4. QED
    BY <1>2, <2>2, <2>3 DEF RequestOK
<1>4. ControlOK'
  <2>1. CASE sub[c].awaiting
    BY <1>2, <2>1 DEF DiscardPacket
  <2>2. CASE ~sub[c].awaiting
    <3>1. control' = Append(control, request)
      BY <2>2 DEF DiscardPacket
    <3>2. IsSeq(control) /\ Len(control) \in Nat /\ \A i \in 1..Len(control) : RequestOK(control[i])
      BY DEF SessionInvariant, ControlOK, IsSeq
    <3>. HIDE DEF request
    <3>3. /\ IsSeq(control')
          /\ Len(control') = Len(control) + 1
          /\ control'[Len(control) + 1] = request
          /\ \A i \in 1..Len(control) : control'[i] = control[i]
      BY <3>1, <3>2, AppendIsSeq
    <3>4. \A i \in 1..Len(control') : RequestOK(control'[i])
      BY <1>3, <3>2, <3>3
    <3>5. QED
      BY <1>2, <3>3, <3>4 DEF ControlOK, RequestOK
  <2>3. QED
    BY <2>1, <2>2
<1>5. /\ DOMAIN sub' = Clients
      /\ sub'[c] = [sub[c] EXCEPT !.awaiting = TRUE]
      /\ \A e \in Clients : e # c => sub'[e] = sub[e]
  BY DEF DiscardPacket, SessionInvariant, ClientsOK
<1>6. ClientOK(c)'
  BY <1>2, <1>5 DEF ClientOK
<1>7. ClientsOK'
  BY <1>1, <1>2, <1>5, <1>6, OneClientChanges DEF SessionInvariant, ClientsOK
<1>8. QED
  BY <1>2, <1>4, <1>7 DEF SessionInvariant

LEMMA EndSessionKeepsInvariant ==
  ASSUME SessionInvariant, NEW c \in Clients, EndSession(c)
  PROVE  SessionInvariant'
<1>1. /\ UNCHANGED <<publisherVars, loop, control, sessions>>
      /\ sub' = [sub EXCEPT ![c] = NoSession]
      /\ inbox' = [inbox EXCEPT ![c] = <<>>]
  BY DEF EndSession
<1>2. /\ PublishersOK' /\ BoundOK' /\ HistoryOK'
      /\ UNCHANGED <<sequence, task>>
      /\ sequence \in Nat
  BY <1>1, PublisherIdle
<1>3. ControlOK' /\ LoopOK'
  BY <1>1, <1>2, LoopStays
<1>4. /\ InboxOK'
      /\ inbox'[c] = <<>>
      /\ \A d \in Clients : d # c => inbox'[d] = inbox[d]
  <2>1. inbox'[c] = <<>> /\ InboxOK
    BY <1>1 DEF SessionInvariant, InboxOK
  <2>2. OrderedInbox(c)'
    BY <2>1, EmptyIsSeq DEF OrderedInbox
  <2>3. QED
    BY <1>1, <1>2, <2>1, <2>2, OneInboxChanges
<1>5. ClientsOK'
  <2>1. /\ DOMAIN sub' = Clients
        /\ sub'[c] = NoSession
        /\ \A d \in Clients : d # c => sub'[d] = sub[d]
    BY <1>1 DEF SessionInvariant, ClientsOK
  <2>2. ClientOK(c)'
    BY <1>2, <1>4, <2>1, NewSessionOK DEF ClientOK
  <2>3. QED
    BY <1>1, <1>2, <1>4, <2>1, <2>2, OneClientChanges DEF SessionInvariant, ClientsOK
<1>6. QED
  BY <1>2, <1>3, <1>4, <1>5 DEF SessionInvariant
-----------------------------------------------------------------------------
(***************************************************************************)
(* The transports.                                                         *)
(***************************************************************************)
\* A step of the transports that changes one subscription, not an empty one.
LEMMA TransportKeepsRest ==
  ASSUME SessionInvariant, NEW c \in Clients, inbox[c] # <<>>, InboxOK',
         UNCHANGED <<publisherVars, loop, control, subscriberVars>>,
         \A d \in Clients : d # c => inbox'[d] = inbox[d]
  PROVE  SessionInvariant'
<1>1. /\ PublishersOK' /\ BoundOK' /\ HistoryOK'
      /\ UNCHANGED <<sequence, task, sub, sessions>>
      /\ sequence \in Nat
  BY PublisherIdle DEF subscriberVars
<1>2. ControlOK' /\ LoopOK'
  BY <1>1, LoopStays
<1>3. ClientsOK'
  <2>1. ClientOK(c)'
    BY <1>1 DEF SessionInvariant, ClientsOK, ClientOK
  <2>2. QED
    BY <1>1, <2>1, OneClientChanges DEF SessionInvariant, ClientsOK
<1>4. QED
  BY <1>1, <1>2, <1>3 DEF SessionInvariant

LEMMA LoseMessageKeepsInvariant ==
  ASSUME SessionInvariant, NEW c \in Clients, LoseMessage(c)
  PROVE  SessionInvariant'
<1>1. /\ inbox[c] # <<>>
      /\ inbox' = [inbox EXCEPT ![c] = Tail(@)]
      /\ UNCHANGED <<publisherVars, loop, control, subscriberVars>>
      /\ UNCHANGED <<sequence, task>>
  BY DEF LoseMessage, publisherVars
<1>2. InboxOK' /\ \A d \in Clients : d # c => inbox'[d] = inbox[d]
  BY <1>1, TailKeepsOrder DEF SessionInvariant
<1>3. QED
  BY <1>1, <1>2, TransportKeepsRest

LEMMA OvertakeKeepsInvariant ==
  ASSUME SessionInvariant, NEW c \in Clients, Overtake(c)
  PROVE  SessionInvariant'
<1>1. /\ UNCHANGED <<publisherVars, loop, control, subscriberVars>>
      /\ UNCHANGED <<sequence, task>>
  BY DEF Overtake, publisherVars
<1>2. PICK k \in 1..(Len(inbox[c]) - 1) :
        /\ inbox[c][k].topic # inbox[c][k + 1].topic
        /\ inbox' = [inbox EXCEPT ![c] = [inbox[c] EXCEPT ![k] = inbox[c][k + 1],
                                                        ![k + 1] = inbox[c][k]]]
  BY DEF Overtake
<1>. DEFINE s == inbox[c]
            t == [s EXCEPT ![k] = s[k + 1], ![k + 1] = s[k]]
            from(i) == IF i = k THEN k + 1 ELSE IF i = k + 1 THEN k ELSE i
<1>3. /\ InboxOK /\ OrderedInbox(c)
      /\ IsSeq(s) /\ Len(s) \in Nat
      /\ inbox' = [inbox EXCEPT ![c] = t]
      /\ inbox'[c] = t
  BY <1>2 DEF SessionInvariant, InboxOK, OrderedInbox, IsSeq
<1>4. /\ IsSeq(t)
      /\ Len(t) = Len(s)
      /\ t[k] = s[k + 1]
      /\ t[k + 1] = s[k]
      /\ \A i \in 1..Len(s) : i \notin {k, k + 1} => t[i] = s[i]
  <2>. HIDE DEF s
  <2>1. IsSeq(s) /\ k \in 1..(Len(s) - 1)
    BY <1>3 DEF s
  <2>2. QED
    BY <2>1, SwapIsSeq
<1>5. \A i \in 1..Len(t) : from(i) \in 1..Len(s) /\ t[i] = s[from(i)]
  BY <1>3, <1>4
<1>6. \A i \in 1..Len(t) : IsData(c, i)' <=> IsData(c, from(i))
  BY <1>3, <1>5 DEF IsData
<1>7. ~(IsData(c, k) /\ IsData(c, k + 1))
  BY <1>2 DEF IsData
<1>8. ASSUME NEW i \in 1..Len(t), NEW j \in 1..Len(t), i < j,
             IsData(c, from(i)), IsData(c, from(j))
      PROVE  from(i) < from(j)
  <2>1. ~(i = k /\ j = k + 1)
    BY <1>3, <1>7, <1>8
  <2>2. i \in Int /\ j \in Int /\ k \in Int
    BY <1>3, <1>4
  <2>3. QED
    BY <1>8, <2>1, <2>2
<1>9. OrderedInbox(c)'
  <2>. HIDE DEF t, from
  <2>1. \A i \in 1..Len(t) : t[i].packet.sequence \in 0..sequence
    BY <1>3, <1>5 DEF OrderedInbox
  <2>2. \A i, j \in 1..Len(t) :
          i < j /\ IsData(c, i)' /\ IsData(c, j)' =>
            t[i].packet.sequence < t[j].packet.sequence
    BY <1>3, <1>5, <1>6, <1>8 DEF OrderedInbox
  <2>3. \A p \in Publishers : task[p].pc = "encoded" =>
          \A i \in 1..Len(t) : IsData(c, i)' => t[i].packet.sequence < sequence
    BY <1>3, <1>5, <1>6 DEF OrderedInbox
  <2>4. QED
    BY <1>1, <1>3, <1>4, <2>1, <2>2, <2>3 DEF OrderedInbox
<1>10. InboxOK' /\ \A d \in Clients : d # c => inbox'[d] = inbox[d]
  BY <1>1, <1>3, <1>9, OneInboxChanges
<1>11. inbox[c] # <<>>
  BY <1>3, EmptyIsSeq
<1>12. QED
  BY <1>1, <1>10, <1>11, TransportKeepsRest

LEMMA LoseRequestKeepsInvariant ==
  ASSUME SessionInvariant, LoseRequest
  PROVE  SessionInvariant'
<1>1. UNCHANGED <<publisherVars, loop, inbox, subscriberVars>>
      /\ sequence' = sequence /\ loop' = loop
  BY DEF LoseRequest, publisherVars
<1>2. PublishersOK' /\ BoundOK' /\ HistoryOK' /\ InboxOK' /\ ClientsOK'
  BY <1>1, LoopStepKeepsRest
<1>3. ControlOK'
  BY <1>1, TakeRequest DEF LoseRequest, SessionInvariant
<1>4. LoopOK'
  BY <1>1, LoopStays
<1>5. QED
  BY <1>2, <1>3, <1>4 DEF SessionInvariant
-----------------------------------------------------------------------------
(***************************************************************************)
(* The theorems.                                                           *)
(***************************************************************************)
LEMMA SessionNext == SessionInvariant /\ [Next]_vars => SessionInvariant'
<1>1. SUFFICES ASSUME SessionInvariant, [Next]_vars PROVE SessionInvariant'
  OBVIOUS
<1>2. CASE \E p \in Publishers : Publish(p)
  BY <1>1, <1>2, EncodeStateKeepsInvariant, FailToEncodeKeepsInvariant,
     SendPacketKeepsInvariant, RecordSentKeepsInvariant, FailToSendKeepsInvariant
  DEF Publish
<1>3. CASE \E p \in Publishers : \E s \in State : StoreState(p, s)
  BY <1>1, <1>3, StoreStateKeepsInvariant
<1>4. CASE ControlLoop
  BY <1>1, <1>4, ReadStateKeepsInvariant, BuildSnapshotKeepsInvariant,
     PlanRecoveryKeepsInvariant, ReplyKeepsInvariant, StopControlKeepsInvariant
  DEF ControlLoop
<1>5. CASE \E c \in Clients : Join(c) \/ EndSession(c)
  BY <1>1, <1>5, JoinKeepsInvariant, EndSessionKeepsInvariant
<1>6. CASE \E c \in Clients : Handle(c)
  BY <1>1, <1>6, TakePacketKeepsInvariant, IgnoreDuplicateKeepsInvariant,
     DiscardPacketKeepsInvariant DEF Handle
<1>7. CASE \E c \in Clients : LoseMessage(c) \/ Overtake(c)
  BY <1>1, <1>7, LoseMessageKeepsInvariant, OvertakeKeepsInvariant
<1>8. CASE LoseRequest
  BY <1>1, <1>8, LoseRequestKeepsInvariant
<1>9. CASE UNCHANGED vars
  <2>1. UNCHANGED <<publisherVars, loop, control, inbox, subscriberVars>>
    BY <1>9 DEF vars
  <2>2. /\ PublishersOK' /\ BoundOK' /\ HistoryOK' /\ InboxOK' /\ ClientsOK'
        /\ sequence' = sequence
    BY <1>1, <2>1, LoopStepKeepsRest, PublisherIdle
  <2>3. LoopOK' /\ ControlOK'
    BY <1>1, <2>1, <2>2, LoopStays
  <2>4. QED
    BY <2>2, <2>3 DEF SessionInvariant
<1>10. QED
  BY <1>1, <1>2, <1>3, <1>4, <1>5, <1>6, <1>7, <1>8, <1>9 DEF Next

\* The invariant is inductive: whatever overlaps, fails, is lost or overtaken
\* in session.rs, the encoder's holder has the newest packet in hand, queues
\* are ordered, and every request is from a client behind the publisher.
THEOREM SessionInvariance == Spec => []SessionInvariant
<1>1. Init => SessionInvariant
  BY SessionInit
<1>2. SessionInvariant /\ [Next]_vars => SessionInvariant'
  BY SessionNext
<1>3. QED
  BY <1>1, <1>2, PTL DEF Spec

\* Only sequences that were given out are spent in vain.
BurntOK == burnt \subseteq 1..sequence

LEMMA BurntInvariance == Spec => []BurntOK
<1>1. Init => BurntOK
  BY DEF Init, BurntOK
<1>2. SessionInvariant /\ BurntOK /\ [Next]_vars => BurntOK'
  <2>1. SUFFICES ASSUME SessionInvariant, BurntOK, [Next]_vars PROVE BurntOK'
    OBVIOUS
  <2>2. sequence \in Nat
    BY <2>1 DEF SessionInvariant, PublishersOK
  <2>3. CASE \E p \in Publishers : FailToEncode(p)
    <3>1. sequence' = sequence + 1 /\ burnt' = burnt \cup {sequence + 1}
      BY <2>3 DEF FailToEncode, TakeSequence
    <3>2. QED
      BY <2>1, <2>2, <3>1 DEF BurntOK
  <2>4. CASE \E p \in Publishers : EncodeState(p)
    <3>1. sequence' = sequence + 1 /\ burnt' = burnt
      BY <2>4 DEF EncodeState, TakeSequence
    <3>2. QED
      BY <2>1, <2>2, <3>1 DEF BurntOK
  <2>5. CASE UNCHANGED <<sequence, burnt>>
    BY <2>1, <2>5 DEF BurntOK
  <2>6. QED
    BY <2>1, <2>3, <2>4, <2>5
    DEF Next, Publish, StoreState, SendPacket, RecordSent, FailToSend, ControlLoop,
        ReadState, BuildSnapshot, PlanRecovery, Reply, StopControl, Join, Handle,
        TakePacket, IgnoreDuplicate, DiscardPacket, EndSession, LoseMessage, Overtake,
        LoseRequest, vars, publisherVars
<1>3. QED
  BY <1>1, <1>2, SessionInvariance, PTL DEF Spec

\* The encoder (a tokio Mutex in PublisherSession) is held by exactly the call
\* that has encoded and neither recorded nor failed yet, and a plan always has
\* a packet left to send.
THEOREM SessionTypeCorrectness == Spec => []TypeOK
<1>1. SessionInvariant /\ BurntOK => TypeOK
  <2>1. SUFFICES ASSUME SessionInvariant, BurntOK PROVE TypeOK
    OBVIOUS
  <2>2. sequence \in 0..MaxSequence
    <3>1. IsFiniteSet(Pending)
      BY PublishersAssumption, FS_Subset DEF Pending
    <3>2. Cardinality(Pending) \in Nat
      BY <3>1, FS_CardinalityType
    <3>3. QED
      BY <2>1, <3>2, SessionBoundsAssumption
      DEF SessionInvariant, BoundOK, PublishersOK
  <2>3. QED
    BY <2>1, <2>2
    DEF SessionInvariant, PublishersOK, ControlOK, RequestOK, LoopOK, ClientsOK,
        InFlight, BurntOK, TypeOK
<1>2. QED
  BY <1>1, SessionInvariance, BurntInvariance, PTL

\* However publish_state calls overlap, data packets reach the history and
\* every subscriber in the order of their sequences.
THEOREM DataInOrderHolds == Spec => []DataInOrder
<1>1. SessionInvariant => DataInOrder
  BY DEF SessionInvariant, HistoryOK, InboxOK, DataInOrder
<1>2. QED
  BY <1>1, SessionInvariance, PTL

\* The control loop answers every request with something newer than what its
\* client held when it asked.
THEOREM RecoveryMovesForwardHolds == Spec => []RecoveryMovesForward
<1>1. SessionInvariant => RecoveryMovesForward
  BY DEF SessionInvariant, ControlOK, RequestOK, LoopOK, RecoveryMovesForward
<1>2. QED
  BY <1>1, SessionInvariance, PTL
-----------------------------------------------------------------------------
(***************************************************************************)
(* What packets carry, whichever way they go.                              *)
(***************************************************************************)
LEMMA ElementsGrow ==
  ASSUME NEW s, IsSeq(s), NEW x
  PROVE  Elements(Append(s, x)) = Elements(s) \cup {x}
<1>. DEFINE t == Append(s, x)
<1>1. /\ Len(s) \in Nat /\ Len(t) = Len(s) + 1 /\ t[Len(s) + 1] = x
      /\ \A i \in 1..Len(s) : t[i] = s[i]
  BY AppendIsSeq DEF IsSeq
<1>. HIDE DEF t
<1>2. \A i \in 1..Len(t) : t[i] \in Elements(s) \cup {x}
  BY <1>1 DEF Elements
<1>3. \A i \in 1..Len(s) : s[i] \in Elements(t)
  BY <1>1 DEF Elements
<1>4. x \in Elements(t)
  <2>1. Len(s) + 1 \in 1..Len(t)
    BY <1>1
  <2>. QED BY <1>1, <2>1 DEF Elements
<1>5. Elements(t) \subseteq Elements(s) \cup {x} /\ Elements(s) \subseteq Elements(t)
  BY <1>2, <1>3 DEF Elements
<1>. QED BY <1>4, <1>5 DEF t

LEMMA ElementsOfTail ==
  ASSUME NEW s, IsSeq(s), s # <<>>
  PROVE  Elements(Tail(s)) \subseteq Elements(s) /\ Head(s) \in Elements(s)
<1>1. /\ Len(Tail(s)) = Len(s) - 1 /\ Len(s) > 0 /\ Len(s) \in Nat /\ Head(s) = s[1]
      /\ \A i \in 1..(Len(s) - 1) : Tail(s)[i] = s[i + 1]
  BY TailIsSeq DEF IsSeq
<1>2. \A i \in 1..(Len(s) - 1) : i + 1 \in 1..Len(s)
  BY <1>1
<1>3. 1 \in 1..Len(s)
  BY <1>1
<1>. QED BY <1>1, <1>2, <1>3 DEF Elements

\* The packets a replay is made of were retained.
SieveStart(k) == <<>>
SieveStep(k, kept, p) ==
  IF k[1] < p.sequence /\ p.sequence <= k[2] THEN Append(kept, p) ELSE kept

Sieve == INSTANCE FoldTheorems WITH Start <- SieveStart, Step <- SieveStep

LEMMA MissingIsFold ==
  ASSUME NEW h, NEW local, NEW snapshot
  PROVE  Missing(h, local, snapshot) = Sieve!Fold(<<local, snapshot.sequence>>, h.packets)
BY DEF Missing, Sieve!Fold, SieveStart, SieveStep, FoldLeft, Sieve!FoldLeft,
       MapThenFoldSet, Sieve!MapThenFoldSet, Max, Sieve!Max

LEMMA PrefixOfSeq ==
  ASSUME NEW S, NEW s \in Seq(S), NEW n \in Nat, n + 1 <= Len(s)
  PROVE  /\ SubSeq(s, 1, n + 1) = Append(SubSeq(s, 1, n), s[n + 1])
         /\ SubSeq(s, 1, n) \in Seq(S)
         /\ s[n + 1] \in S
<1>. DEFINE a == SubSeq(s, 1, n + 1)
            b == Append(SubSeq(s, 1, n), s[n + 1])
<1>1. /\ a \in Seq(S) /\ b \in Seq(S)
      /\ Len(a) = n + 1 /\ Len(b) = n + 1
      /\ \A j \in 1..(n + 1) : a[j] = b[j]
      /\ SubSeq(s, 1, n) \in Seq(S) /\ s[n + 1] \in S
  OBVIOUS
<1>. HIDE DEF a, b
<1>2. a = b
  BY <1>1, SeqEqual
<1>. QED BY <1>1, <1>2 DEF a, b

LEMMA MissingAreRetained ==
  ASSUME NEW h, IsSeq(h.packets), NEW local, NEW snapshot
  PROVE  /\ IsSeq(Missing(h, local, snapshot))
         /\ Elements(Missing(h, local, snapshot)) \subseteq Elements(h.packets)
<1>. DEFINE s == h.packets
            S == Elements(s)
            k == <<local, snapshot.sequence>>
            kept(n) == Sieve!Fold(k, SubSeq(s, 1, n))
            T == {n \in Nat : n <= Len(s) => kept(n) \in Seq(S)}
<1>1. s \in Seq(S) /\ Len(s) \in Nat
  BY DEF IsSeq
<1>. HIDE DEF s, S, kept
<1>2. 0 \in T
  <2>1. SubSeq(s, 1, 0) = <<>> /\ <<>> \in Seq(S)
    BY <1>1
  <2>2. kept(0) = <<>>
    BY <2>1, Sieve!FoldEmpty DEF SieveStart, kept
  <2>. QED BY <2>1, <2>2
<1>3. ASSUME NEW n \in T PROVE n + 1 \in T
  <2>. SUFFICES ASSUME n + 1 <= Len(s) PROVE kept(n + 1) \in Seq(S)
    OBVIOUS
  <2>1. n \in Nat /\ n + 1 <= Len(s) /\ kept(n) \in Seq(S)
    BY <1>1
  <2>. HIDE DEF T
  <2>2. /\ SubSeq(s, 1, n + 1) = Append(SubSeq(s, 1, n), s[n + 1])
        /\ SubSeq(s, 1, n) \in Seq(S)
        /\ s[n + 1] \in S
    BY <1>1, <2>1, PrefixOfSeq
  <2>3. kept(n + 1) = SieveStep(k, kept(n), s[n + 1])
    <3>1. Sieve!Fold(k, Append(SubSeq(s, 1, n), s[n + 1]))
            = SieveStep(k, Sieve!Fold(k, SubSeq(s, 1, n)), s[n + 1])
      BY <2>2, Sieve!FoldAppend
    <3>. QED BY <2>2, <3>1 DEF kept
  <2>4. Append(kept(n), s[n + 1]) \in Seq(S)
    BY <2>1, <2>2
  <2>. QED BY <2>1, <2>3, <2>4 DEF SieveStep
<1>4. T = Nat
  <2>. HIDE DEF T
  <2>1. T \in SUBSET Nat
    BY DEF T
  <2>. QED BY <1>2, <1>3, <2>1, Sieve!SetInduction
<1>5. kept(Len(s)) \in Seq(S)
  BY <1>1, <1>4
<1>6. SubSeq(s, 1, Len(s)) = s
  BY <1>1
<1>7. Missing(h, local, snapshot) \in Seq(S)
  BY <1>5, <1>6, MissingIsFold DEF kept, s
<1>. DEFINE q == Missing(h, local, snapshot)
<1>. HIDE DEF q
<1>8. q \in Seq(S)
  BY <1>7 DEF q
<1>9. IsSeq(q) /\ Elements(q) \subseteq S
  BY <1>8, SeqIsSeq DEF Elements
<1>. QED BY <1>9 DEF q, S, s

\* The packet carries the state that was encoded under its sequence.
Carries(p, published) ==
  /\ p.sequence \in DOMAIN published \ {0}
  /\ \/ p = SnapshotPacket(p.sequence, Schema, published[p.sequence])
     \/ \E base \in State :
          p = DeltaPacket(p.sequence, Schema, base, published[p.sequence])

RecoverySnapshots == {SnapshotPacket(n, Schema, s) : n \in Nat, s \in State}

\* A recovery snapshot carries some stored state; everything else carries
\* what was encoded under its sequence.
TaskCarries(p) == InFlight(p) => Carries(task[p].packet, log)

HistoryCarries == \A p \in Elements(history.packets) : Carries(p, log)

MessageCarries(m, published) ==
  \/ Carries(m.packet, published)
  \/ m.topic = "reply" /\ m.packet \in RecoverySnapshots

InboxCarries(c) == \A m \in Elements(inbox[c]) : MessageCarries(m, log)

LoopCarries ==
  /\ loop.pc \in {"read", "built", "planned"} => loop.state \in State
  /\ loop.pc \in {"built", "planned"} => loop.snapshot \in RecoverySnapshots
  /\ loop.pc = "planned" =>
       \A p \in Elements(loop.packets) : Carries(p, log) \/ p \in RecoverySnapshots

ClientHolds(c) ==
  LET d == sub[c].decoder
  IN  d.sequence # None => d.sequence \in Nat /\ d.state \in State

ContentsOK ==
  /\ \A p \in Publishers : TaskCarries(p)
  /\ HistoryCarries
  /\ \A c \in Clients : InboxCarries(c)
  /\ LoopCarries
  /\ \A c \in Clients : ClientHolds(c)

LEMMA InitCarries == Init => ContentsOK
<1>. SUFFICES ASSUME Init PROVE ContentsOK
  OBVIOUS
<1>1. Elements(<<>>) = {}
  BY EmptyIsSeq DEF Elements
<1>2. \A p \in Publishers : TaskCarries(p)
  BY DEF Init, IdleTask, TaskCarries, InFlight
<1>3. HistoryCarries
  BY <1>1 DEF Init, EmptyHistory, HistoryCarries
<1>4. \A c \in Clients : InboxCarries(c) /\ ClientHolds(c)
  BY <1>1 DEF Init, InboxCarries, ClientHolds, NoSession, EmptyDecoder
<1>5. LoopCarries
  BY DEF Init, IdleLoop, LoopCarries
<1>. QED BY <1>2, <1>3, <1>4, <1>5 DEF ContentsOK

\* A packet carries what it carried when the log has grown.
LEMMA CarriesStays ==
  ASSUME NEW l, NEW m, DOMAIN l \subseteq DOMAIN m, \A n \in DOMAIN l : m[n] = l[n],
         NEW p, Carries(p, l)
  PROVE  Carries(p, m)
BY DEF Carries

\* Where the log stays, only what changes must be shown anew.
LEMMA ContentsStay ==
  ASSUME ContentsOK, UNCHANGED log
  PROVE  /\ \A p \in Publishers : task'[p] = task[p] => TaskCarries(p)'
         /\ history' = history => HistoryCarries'
         /\ \A c \in Clients : inbox'[c] = inbox[c] => InboxCarries(c)'
         /\ loop' = loop => LoopCarries'
         /\ \A c \in Clients : sub'[c] = sub[c] => ClientHolds(c)'
<1>1. \A p \in Publishers : task'[p] = task[p] => TaskCarries(p)'
  BY DEF ContentsOK, TaskCarries, InFlight
<1>2. history' = history => HistoryCarries'
  BY DEF ContentsOK, HistoryCarries
<1>3. \A c \in Clients : inbox'[c] = inbox[c] => InboxCarries(c)'
  BY DEF ContentsOK, InboxCarries
<1>4. loop' = loop => LoopCarries'
  BY DEF ContentsOK, LoopCarries
<1>5. \A c \in Clients : sub'[c] = sub[c] => ClientHolds(c)'
  BY DEF ContentsOK, ClientHolds
<1>. QED BY <1>1, <1>2, <1>3, <1>4, <1>5

LEMMA EncodeStateCarries ==
  ASSUME SessionInvariant, ContentsOK, NEW p \in Publishers, EncodeState(p)
  PROVE  ContentsOK'
<1>. DEFINE n == sequence + 1
            s == task[p].state
<1>1. /\ task[p].pc = "stored" /\ s \in State /\ sequence \in Nat
      /\ last_state \in State \cup {None}
      /\ log \in [0..sequence -> State]
      /\ DOMAIN task = Publishers
      /\ DOMAIN task[p] = {"pc", "state", "packet"}
      /\ UNCHANGED <<history, loop, inbox, sub>>
      /\ log' = [i \in 0..n |-> IF i = n THEN s ELSE log[i]]
  BY DEF EncodeState, TakeSequence, SessionInvariant, PublishersOK, subscriberVars
<1>2. PICK packet \in Candidates(s) :
        task' = [task EXCEPT ![p].pc = "encoded", ![p].packet = packet]
  BY DEF EncodeState
<1>3. /\ DOMAIN log \subseteq DOMAIN log'
      /\ \A i \in DOMAIN log : log'[i] = log[i]
      /\ n \in DOMAIN log' \ {0} /\ log'[n] = s
  BY <1>1
<1>4. Carries(packet, log')
  <2>1. packet.sequence = n
    BY <1>2 DEF Candidates, SnapshotPacket, DeltaPacket
  <2>2. \/ packet = SnapshotPacket(n, Schema, s)
        \/ last_state \in State /\ packet = DeltaPacket(n, Schema, last_state, s)
    BY <1>1, <1>2 DEF Candidates
  <2>. QED BY <1>3, <2>1, <2>2 DEF Carries
<1>. HIDE DEF n, s
<1>5. \A q : Carries(q, log) => Carries(q, log')
  BY <1>3, CarriesStays
<1>6. \A q \in Publishers : TaskCarries(q)'
  <2>1. \A q \in Publishers : q # p => task'[q] = task[q]
    BY <1>1, <1>2
  <2>2. task'[p].packet = packet
    BY <1>1, <1>2
  <2>. QED BY <1>4, <1>5, <2>1, <2>2 DEF ContentsOK, TaskCarries, InFlight
<1>7. HistoryCarries'
  BY <1>1, <1>5 DEF ContentsOK, HistoryCarries
<1>8. \A c \in Clients : InboxCarries(c)'
  BY <1>1, <1>5 DEF ContentsOK, InboxCarries, MessageCarries
<1>9. LoopCarries'
  BY <1>1, <1>5 DEF ContentsOK, LoopCarries
<1>10. \A c \in Clients : ClientHolds(c)'
  BY <1>1 DEF ContentsOK, ClientHolds
<1>. QED BY <1>6, <1>7, <1>8, <1>9, <1>10 DEF ContentsOK

LEMMA FailToEncodeCarries ==
  ASSUME SessionInvariant, ContentsOK, NEW p \in Publishers, FailToEncode(p)
  PROVE  ContentsOK'
<1>1. /\ log \in [0..sequence -> State] /\ sequence \in Nat
      /\ DOMAIN task = Publishers
      /\ UNCHANGED <<history, loop, inbox, sub>>
      /\ task' = [task EXCEPT ![p] = IdleTask]
      /\ log' = [n \in 0..(sequence + 1) |->
                  IF n = sequence + 1 THEN task[p].state ELSE log[n]]
  BY DEF FailToEncode, TakeSequence, SessionInvariant, PublishersOK, subscriberVars
<1>2. DOMAIN log \subseteq DOMAIN log' /\ \A i \in DOMAIN log : log'[i] = log[i]
  BY <1>1
<1>3. \A q : Carries(q, log) => Carries(q, log')
  BY <1>2, CarriesStays
<1>4. \A q \in Publishers : TaskCarries(q)'
  <2>1. \A q \in Publishers : q # p => task'[q] = task[q]
    BY <1>1
  <2>2. task'[p].pc = "idle"
    BY <1>1 DEF IdleTask
  <2>. QED BY <1>3, <2>1, <2>2 DEF ContentsOK, TaskCarries, InFlight
<1>5. HistoryCarries'
  BY <1>1, <1>3 DEF ContentsOK, HistoryCarries
<1>6. \A c \in Clients : InboxCarries(c)'
  BY <1>1, <1>3 DEF ContentsOK, InboxCarries, MessageCarries
<1>7. LoopCarries'
  BY <1>1, <1>3 DEF ContentsOK, LoopCarries
<1>8. \A c \in Clients : ClientHolds(c)'
  BY <1>1 DEF ContentsOK, ClientHolds
<1>. QED BY <1>4, <1>5, <1>6, <1>7, <1>8 DEF ContentsOK

LEMMA SendPacketCarries ==
  ASSUME SessionInvariant, ContentsOK, NEW p \in Publishers, SendPacket(p)
  PROVE  ContentsOK'
<1>. DEFINE m == Message("data", task[p].packet)
<1>1. /\ UNCHANGED <<history, log, loop, sub>>
      /\ InFlight(p)
      /\ DOMAIN task = Publishers
      /\ task' = [task EXCEPT ![p].pc = "sent"]
  BY DEF SendPacket, InFlight, subscriberVars, SessionInvariant, PublishersOK
<1>2. MessageCarries(m, log)
  BY <1>1 DEF ContentsOK, TaskCarries, MessageCarries, Message
<1>3. \A q \in Publishers : TaskCarries(q)'
  <2>1. \A q \in Publishers : q # p => task'[q] = task[q]
    BY <1>1
  <2>2. task'[p].packet = task[p].packet
    BY <1>1 DEF SessionInvariant, PublishersOK
  <2>. QED BY <1>1, <2>1, <2>2 DEF ContentsOK, TaskCarries, InFlight
<1>4. ASSUME NEW c \in Clients PROVE InboxCarries(c)'
  <2>1. CASE ~sub[c].running
    <3>1. inbox'[c] = inbox[c]
      BY <2>1 DEF SendPacket
    <3>. QED BY <1>1, <3>1, ContentsStay
  <2>2. CASE sub[c].running
    <3>1. inbox'[c] = Append(inbox[c], m)
      BY <2>2 DEF SendPacket
    <3>2. IsSeq(inbox[c])
      BY DEF SessionInvariant, InboxOK
    <3>. HIDE DEF m
    <3>3. Elements(inbox'[c]) = Elements(inbox[c]) \cup {m}
      BY <3>1, <3>2, ElementsGrow
    <3>. QED BY <1>1, <1>2, <3>3 DEF ContentsOK, InboxCarries
  <2>. QED BY <2>1, <2>2
<1>. QED BY <1>1, <1>3, <1>4, ContentsStay DEF ContentsOK

\* A call that ends forgets its packet.
LEMMA IdleCarries ==
  ASSUME SessionInvariant, ContentsOK, NEW p \in Publishers, UNCHANGED log,
         task' = [task EXCEPT ![p] = IdleTask]
  PROVE  \A q \in Publishers : TaskCarries(q)'
<1>1. task'[p] = IdleTask /\ \A q \in Publishers : q # p => task'[q] = task[q]
  BY DEF SessionInvariant, PublishersOK
<1>2. TaskCarries(p)'
  BY <1>1 DEF TaskCarries, InFlight, IdleTask
<1>. QED BY <1>1, <1>2, ContentsStay

LEMMA RecordSentCarries ==
  ASSUME SessionInvariant, ContentsOK, NEW p \in Publishers, RecordSent(p)
  PROVE  ContentsOK'
<1>. DEFINE packet == task[p].packet
            all == Append(history.packets, packet)
            n == Len(history.packets)
<1>1. /\ UNCHANGED <<log, loop, inbox, sub>>
      /\ InFlight(p)
      /\ task' = [task EXCEPT ![p] = IdleTask]
      /\ history' = RecordPacket(history, packet)
  BY DEF RecordSent, InFlight, subscriberVars
<1>2. Carries(packet, log)
  BY <1>1 DEF ContentsOK, TaskCarries
<1>3. HistoryCarries'
  <2>1. IsSeq(history.packets) /\ n \in Nat
    BY DEF SessionInvariant, HistoryOK, IsSeq
  <2>2. IsSeq(all) /\ Len(all) = n + 1
    BY <2>1, AppendIsSeq
  <2>3. Elements(all) = Elements(history.packets) \cup {packet}
    BY <2>1, ElementsGrow
  <2>4. PICK k \in 0..(n + 1) : history'.packets = SubSeq(all, k + 1, n + 1)
    BY <1>1, <2>1, RecordKeepsSuffix
  <2>. HIDE DEF all, n, packet
  <2>5. /\ Len(history'.packets) = Len(all) - k
        /\ \A i \in 1..(Len(all) - k) : history'.packets[i] = all[i + k]
    BY <2>2, <2>4, SubSeqIsSeq
  <2>6. \A i \in 1..(Len(all) - k) : i + k \in 1..Len(all)
    BY <2>1, <2>2
  <2>7. Elements(history'.packets) \subseteq Elements(all)
    BY <2>5, <2>6 DEF Elements
  <2>. QED BY <1>1, <1>2, <2>3, <2>7 DEF ContentsOK, HistoryCarries
<1>. QED BY <1>1, <1>3, IdleCarries, ContentsStay DEF ContentsOK

LEMMA FailToSendCarries ==
  ASSUME SessionInvariant, ContentsOK, NEW p \in Publishers, FailToSend(p)
  PROVE  ContentsOK'
<1>1. /\ UNCHANGED <<log, history, loop, inbox, sub>>
      /\ task' = [task EXCEPT ![p] = IdleTask]
  BY DEF FailToSend, subscriberVars
<1>. QED BY <1>1, IdleCarries, ContentsStay DEF ContentsOK

LEMMA StoreStateCarries ==
  ASSUME SessionInvariant, ContentsOK, NEW p \in Publishers, NEW s \in State, StoreState(p, s)
  PROVE  ContentsOK'
<1>1. /\ UNCHANGED <<log, history, loop, inbox, sub>>
      /\ task'[p].pc = "stored"
      /\ \A q \in Publishers : q # p => task'[q] = task[q]
  BY DEF StoreState, subscriberVars, SessionInvariant, PublishersOK, IdleTask
<1>2. TaskCarries(p)'
  BY <1>1 DEF TaskCarries, InFlight
<1>. QED BY <1>1, <1>2, ContentsStay DEF ContentsOK

\* The loop works on one request.
LEMMA LoopStepCarries ==
  ASSUME ContentsOK, UNCHANGED <<publisherVars, inbox, subscriberVars>>, LoopCarries'
  PROVE  ContentsOK'
<1>1. UNCHANGED <<log, task, history, inbox, sub>>
  BY DEF publisherVars, subscriberVars
<1>. QED BY <1>1, ContentsStay DEF ContentsOK

LEMMA ReadStateCarries ==
  ASSUME SessionInvariant, ContentsOK, ReadState
  PROVE  ContentsOK'
<1>1. loop'.pc = "read" /\ loop'.state \in State
  BY DEF ReadState, SessionInvariant, LoopOK, PublishersOK
<1>2. LoopCarries'
  BY <1>1 DEF LoopCarries
<1>. QED BY <1>2, LoopStepCarries DEF ReadState

LEMMA BuildSnapshotCarries ==
  ASSUME SessionInvariant, ContentsOK, BuildSnapshot
  PROVE  ContentsOK'
<1>1. /\ loop'.pc = "built"
      /\ loop'.state = loop.state
      /\ loop'.snapshot = SnapshotPacket(sequence, Schema, loop.state)
  BY DEF BuildSnapshot, SessionInvariant, LoopOK
<1>2. loop.state \in State /\ sequence \in Nat
  BY DEF BuildSnapshot, ContentsOK, LoopCarries, SessionInvariant, PublishersOK
<1>3. LoopCarries'
  BY <1>1, <1>2 DEF LoopCarries, RecoverySnapshots
<1>. QED BY <1>3, LoopStepCarries DEF BuildSnapshot

LEMMA PlanRecoveryCarries ==
  ASSUME SessionInvariant, ContentsOK, PlanRecovery
  PROVE  ContentsOK'
<1>. DEFINE plan == Plan(history, loop.request.local, loop.snapshot)
            replay == Missing(history, loop.request.local, loop.snapshot)
<1>1. /\ loop.pc = "built"
      /\ loop'.pc = "planned"
      /\ loop'.state = loop.state
      /\ loop'.snapshot = loop.snapshot
      /\ loop'.packets = plan
      /\ UNCHANGED log
  BY DEF PlanRecovery, SessionInvariant, LoopOK, publisherVars
<1>2. loop.state \in State /\ loop.snapshot \in RecoverySnapshots
  BY <1>1 DEF ContentsOK, LoopCarries
<1>3. \A p \in Elements(plan) : Carries(p, log) \/ p \in RecoverySnapshots
  <2>1. CASE plan = <<loop.snapshot>>
    <3>1. Elements(<<loop.snapshot>>) = {loop.snapshot}
      BY DEF Elements
    <3>. QED BY <1>2, <2>1, <3>1
  <2>2. CASE plan # <<loop.snapshot>>
    <3>1. plan = replay
      BY <2>2 DEF Plan
    <3>2. IsSeq(history.packets)
      BY DEF SessionInvariant, HistoryOK
    <3>3. Elements(replay) \subseteq Elements(history.packets)
      BY <3>2, MissingAreRetained
    <3>. QED BY <3>1, <3>3 DEF ContentsOK, HistoryCarries
  <2>. QED BY <2>1, <2>2
<1>. HIDE DEF plan
<1>4. LoopCarries'
  BY <1>1, <1>2, <1>3 DEF LoopCarries
<1>. QED BY <1>4, LoopStepCarries DEF PlanRecovery

LEMMA StopControlCarries ==
  ASSUME SessionInvariant, ContentsOK, StopControl
  PROVE  ContentsOK'
<1>1. LoopCarries'
  BY DEF StopControl, IdleLoop, LoopCarries
<1>. QED BY <1>1, LoopStepCarries DEF StopControl

LEMMA ReplyCarries ==
  ASSUME SessionInvariant, ContentsOK, Reply
  PROVE  ContentsOK'
<1>. DEFINE client == loop.request.client
            packet == loop.packets[loop.next]
            m == Message("reply", packet)
<1>1. /\ loop.pc = "planned"
      /\ UNCHANGED <<log, task, history, sub>>
      /\ inbox' = IF sub[client].running
                  THEN [inbox EXCEPT ![client] = Append(inbox[client], m)] ELSE inbox
      /\ loop' = IF loop.next = Len(loop.packets) THEN IdleLoop
                 ELSE [loop EXCEPT !.next = loop.next + 1]
  BY DEF Reply, publisherVars, subscriberVars
<1>2. /\ loop.next \in 1..Len(loop.packets)
      /\ DOMAIN loop = {"pc", "request", "state", "snapshot", "packets", "next"}
      /\ DOMAIN inbox = Clients
      /\ \A c \in Clients : IsSeq(inbox[c])
  BY <1>1 DEF SessionInvariant, LoopOK, InboxOK
<1>3. packet \in Elements(loop.packets)
  BY <1>2 DEF Elements
<1>4. Carries(packet, log) \/ packet \in RecoverySnapshots
  BY <1>1, <1>3 DEF ContentsOK, LoopCarries
<1>5. MessageCarries(m, log)
  BY <1>4 DEF MessageCarries, Message
<1>. HIDE DEF m, packet
<1>6. ASSUME NEW c \in Clients PROVE InboxCarries(c)'
  <2>1. CASE inbox'[c] = inbox[c]
    BY <1>1, <2>1, ContentsStay
  <2>2. CASE inbox'[c] # inbox[c]
    <3>1. inbox'[c] = Append(inbox[c], m)
      BY <1>1, <1>2, <2>2
    <3>2. Elements(inbox'[c]) = Elements(inbox[c]) \cup {m}
      BY <1>2, <3>1, ElementsGrow
    <3>. QED BY <1>1, <1>5, <3>2 DEF ContentsOK, InboxCarries
  <2>. QED BY <2>1, <2>2
<1>7. LoopCarries'
  <2>1. CASE loop' = IdleLoop
    BY <2>1 DEF IdleLoop, LoopCarries
  <2>2. CASE loop' # IdleLoop
    <3>1. /\ loop'.pc = loop.pc /\ loop'.state = loop.state
          /\ loop'.snapshot = loop.snapshot /\ loop'.packets = loop.packets
      BY <1>1, <1>2, <2>2
    <3>. QED BY <1>1, <3>1 DEF ContentsOK, LoopCarries
  <2>. QED BY <2>1, <2>2
<1>. QED BY <1>1, <1>6, <1>7, ContentsStay DEF ContentsOK

\* What is left of a subscription carries what it carried.
LEMMA FewerMessagesCarry ==
  ASSUME ContentsOK, NEW c \in Clients, UNCHANGED log,
         Elements(inbox'[c]) \subseteq Elements(inbox[c])
  PROVE  InboxCarries(c)'
BY DEF ContentsOK, InboxCarries

LEMMA TailCarries ==
  ASSUME SessionInvariant, ContentsOK, NEW c \in Clients, inbox[c] # <<>>,
         inbox' = [inbox EXCEPT ![c] = Tail(@)], UNCHANGED log
  PROVE  /\ \A d \in Clients : InboxCarries(d)'
         /\ MessageCarries(Head(inbox[c]), log)
<1>1. /\ IsSeq(inbox[c])
      /\ inbox'[c] = Tail(inbox[c])
      /\ \A d \in Clients : d # c => inbox'[d] = inbox[d]
  BY DEF SessionInvariant, InboxOK
<1>2. Elements(Tail(inbox[c])) \subseteq Elements(inbox[c]) /\ Head(inbox[c]) \in Elements(inbox[c])
  BY <1>1, ElementsOfTail
<1>3. InboxCarries(c)'
  BY <1>1, <1>2, FewerMessagesCarry
<1>4. MessageCarries(Head(inbox[c]), log)
  BY <1>2 DEF ContentsOK, InboxCarries
<1>. QED BY <1>1, <1>3, <1>4, ContentsStay

LEMMA JoinCarries ==
  ASSUME SessionInvariant, ContentsOK, NEW c \in Clients, Join(c)
  PROVE  ContentsOK'
<1>1. /\ UNCHANGED <<log, task, history, loop, inbox>>
      /\ sub' = [sub EXCEPT ![c] = [NoSession EXCEPT !.running = TRUE]]
      /\ DOMAIN sub = Clients
  BY DEF Join, publisherVars, SessionInvariant, ClientsOK
<1>2. ClientHolds(c)'
  BY <1>1 DEF ClientHolds, NoSession, EmptyDecoder
<1>3. \A d \in Clients : d # c => sub'[d] = sub[d]
  BY <1>1
<1>. QED BY <1>1, <1>2, <1>3, ContentsStay DEF ContentsOK

LEMMA EndSessionCarries ==
  ASSUME SessionInvariant, ContentsOK, NEW c \in Clients, EndSession(c)
  PROVE  ContentsOK'
<1>1. /\ UNCHANGED <<log, task, history, loop>>
      /\ sub' = [sub EXCEPT ![c] = NoSession]
      /\ inbox' = [inbox EXCEPT ![c] = <<>>]
      /\ DOMAIN sub = Clients /\ DOMAIN inbox = Clients
  BY DEF EndSession, publisherVars, SessionInvariant, ClientsOK, InboxOK
<1>2. ClientHolds(c)'
  BY <1>1 DEF ClientHolds, NoSession, EmptyDecoder
<1>3. Elements(inbox'[c]) = {}
  BY <1>1, EmptyIsSeq DEF Elements
<1>4. InboxCarries(c)'
  BY <1>1, <1>3, FewerMessagesCarry
<1>5. \A d \in Clients : d # c => sub'[d] = sub[d] /\ inbox'[d] = inbox[d]
  BY <1>1
<1>. QED BY <1>1, <1>2, <1>4, <1>5, ContentsStay DEF ContentsOK

\* What a client takes from a packet, whatever state it held: one that passes
\* for the state given under its sequence, unless the packet is a recovery
\* snapshot.
LEMMA TakenState ==
  ASSUME SessionInvariant, ContentsOK, NEW c \in Clients, NEW d, NEW p,
         d = sub[c].decoder, Outcome(d, Config, p) = "Applied",
         Carries(p, log) \/ p \in RecoverySnapshots
  PROVE  /\ Apply(d, Config, p).sequence = p.sequence
         /\ p.sequence \in Nat
         /\ Apply(d, Config, p).state \in State
         /\ Carries(p, log) => Apply(d, Config, p).state \in Like[log[p.sequence]]
<1>. DEFINE n == p.sequence
            s == Resulting(d, Config, p)
<1>1. /\ log \in [0..sequence -> State] /\ sequence \in Nat
      /\ d.sequence # None => d.sequence \in Nat /\ d.state \in State
  BY DEF SessionInvariant, PublishersOK, ContentsOK, ClientHolds
<1>2. /\ Apply(d, Config, p).sequence = n
      /\ Apply(d, Config, p).state = s
  BY DEF Apply, Advance
<1>3. /\ p.schema_hash = Config.schema
      /\ p.kind = "Delta" => BaseMatches(d, p)
  BY DEF Outcome
<1>4. s = IF p.kind = "Snapshot" THEN p.payload ELSE Patch(p.payload, d.state)
  BY <1>3 DEF Resulting
<1>5. CASE p \in RecoverySnapshots /\ ~Carries(p, log)
  <2>1. PICK m \in Nat, t \in State : p = SnapshotPacket(m, Schema, t)
    BY <1>5 DEF RecoverySnapshots
  <2>2. p.kind = "Snapshot" /\ p.payload \in State /\ n \in Nat
    BY <2>1 DEF SnapshotPacket
  <2>. QED BY <1>2, <1>4, <1>5, <2>2
<1>6. CASE Carries(p, log)
  <2>1. n \in 1..sequence /\ log[n] \in State
    <3>1. n \in DOMAIN log \ {0}
      BY <1>6 DEF Carries
    <3>. QED BY <1>1, <3>1
  <2>2. CASE p = SnapshotPacket(n, Schema, log[n])
    <3>1. p.kind = "Snapshot" /\ p.payload = log[n]
      BY <2>2 DEF SnapshotPacket
    <3>2. log[n] \in Like[log[n]]
      BY <2>1, LikeItself
    <3>. QED BY <1>2, <1>4, <2>1, <3>1, <3>2
  <2>3. CASE \E base \in State : p = DeltaPacket(n, Schema, base, log[n])
    <3>1. PICK base \in State : p = DeltaPacket(n, Schema, base, log[n])
      BY <2>3
    <3>2. /\ p.kind = "Delta" /\ p.base_sequence = n - 1
          /\ p.base_hash = Hash(base) /\ p.payload = Diff(base, log[n])
      BY <3>1 DEF DeltaPacket
    <3>3. d.sequence = n - 1 /\ Hash(d.state) = Hash(base)
      BY <1>3, <3>2 DEF BaseMatches
    <3>4. d.sequence # None
      BY <2>1, <3>3, NoneAssumption
    <3>5. d.state = base
      BY <1>1, <3>3, <3>4, HashAssumption
    <3>6. Patch(p.payload, d.state) \in Like[log[n]]
      BY <2>1, <3>2, <3>5, PatchAssumption
    <3>7. Like[log[n]] \subseteq State
      BY <2>1 DEF Like
    <3>. QED BY <1>2, <1>4, <2>1, <3>2, <3>6, <3>7
  <2>. QED BY <1>6, <2>2, <2>3 DEF Carries
<1>. QED BY <1>5, <1>6

LEMMA TakePacketCarries ==
  ASSUME SessionInvariant, ContentsOK, NEW c \in Clients, TakePacket(c)
  PROVE  ContentsOK'
<1>. DEFINE d == sub[c].decoder
            p == HeadPacket(c)
<1>1. /\ UNCHANGED <<log, task, history, loop>>
      /\ inbox[c] # <<>> /\ inbox' = [inbox EXCEPT ![c] = Tail(@)]
      /\ Outcome(d, Config, p) = "Applied"
  BY DEF TakePacket, Handles, HeadOutcome, publisherVars
<1>2. /\ sub'[c].decoder = Apply(d, Config, p)
      /\ \A e \in Clients : e # c => sub'[e] = sub[e]
  BY DEF TakePacket, SessionInvariant, ClientsOK
<1>3. /\ \A e \in Clients : InboxCarries(e)'
      /\ Carries(p, log) \/ p \in RecoverySnapshots
  BY <1>1, TailCarries DEF MessageCarries, HeadPacket
<1>4. /\ Apply(d, Config, p).sequence \in Nat
      /\ Apply(d, Config, p).state \in State
  BY <1>1, <1>3, TakenState
<1>5. ClientHolds(c)'
  BY <1>2, <1>4 DEF ClientHolds
<1>. QED BY <1>1, <1>2, <1>3, <1>5, ContentsStay DEF ContentsOK

LEMMA IgnoreDuplicateCarries ==
  ASSUME SessionInvariant, ContentsOK, NEW c \in Clients, IgnoreDuplicate(c)
  PROVE  ContentsOK'
<1>1. /\ UNCHANGED <<log, task, history, loop, sub>>
      /\ inbox[c] # <<>> /\ inbox' = [inbox EXCEPT ![c] = Tail(@)]
  BY DEF IgnoreDuplicate, Handles, publisherVars, subscriberVars
<1>. QED BY <1>1, TailCarries, ContentsStay DEF ContentsOK

LEMMA DiscardPacketCarries ==
  ASSUME SessionInvariant, ContentsOK, NEW c \in Clients, DiscardPacket(c)
  PROVE  ContentsOK'
<1>1. /\ UNCHANGED <<log, task, history, loop>>
      /\ inbox[c] # <<>> /\ inbox' = [inbox EXCEPT ![c] = Tail(@)]
      /\ DOMAIN sub = Clients
      /\ DOMAIN sub[c] = {"running", "decoder", "awaiting"}
      /\ sub' = [sub EXCEPT ![c].awaiting = TRUE]
  BY DEF DiscardPacket, Handles, publisherVars, SessionInvariant, ClientsOK
<1>2. sub'[c].decoder = sub[c].decoder /\ \A e \in Clients : e # c => sub'[e] = sub[e]
  BY <1>1
<1>3. ClientHolds(c)'
  BY <1>2 DEF ContentsOK, ClientHolds
<1>. QED BY <1>1, <1>2, <1>3, TailCarries, ContentsStay DEF ContentsOK

LEMMA LoseMessageCarries ==
  ASSUME SessionInvariant, ContentsOK, NEW c \in Clients, LoseMessage(c)
  PROVE  ContentsOK'
<1>1. /\ UNCHANGED <<log, task, history, loop, sub>>
      /\ inbox[c] # <<>> /\ inbox' = [inbox EXCEPT ![c] = Tail(@)]
  BY DEF LoseMessage, publisherVars, subscriberVars
<1>. QED BY <1>1, TailCarries, ContentsStay DEF ContentsOK

LEMMA OvertakeCarries ==
  ASSUME SessionInvariant, ContentsOK, NEW c \in Clients, Overtake(c)
  PROVE  ContentsOK'
<1>1. UNCHANGED <<log, task, history, loop, sub>>
  BY DEF Overtake, publisherVars, subscriberVars
<1>. DEFINE s == inbox[c]
<1>2. PICK k \in 1..(Len(s) - 1) :
        inbox' = [inbox EXCEPT ![c] = [s EXCEPT ![k] = s[k + 1], ![k + 1] = s[k]]]
  BY DEF Overtake
<1>. DEFINE t == [s EXCEPT ![k] = s[k + 1], ![k + 1] = s[k]]
<1>3. /\ IsSeq(s) /\ Len(s) \in Nat
      /\ inbox'[c] = t
      /\ \A d \in Clients : d # c => inbox'[d] = inbox[d]
  BY <1>2 DEF SessionInvariant, InboxOK, IsSeq
<1>4. /\ Len(t) = Len(s)
      /\ t[k] = s[k + 1] /\ t[k + 1] = s[k]
      /\ \A i \in 1..Len(s) : i \notin {k, k + 1} => t[i] = s[i]
  <2>. HIDE DEF s
  <2>1. IsSeq(s) /\ k \in 1..(Len(s) - 1)
    BY <1>3 DEF s
  <2>. QED BY <2>1, SwapIsSeq
<1>. HIDE DEF t
<1>5. Elements(inbox'[c]) \subseteq Elements(inbox[c])
  <2>1. k \in 1..Len(s) /\ k + 1 \in 1..Len(s)
    BY <1>3
  <2>2. \A i \in 1..Len(t) : t[i] \in Elements(s)
    BY <1>4, <2>1 DEF Elements
  <2>. QED BY <1>3, <2>2 DEF Elements
<1>6. InboxCarries(c)'
  BY <1>1, <1>5, FewerMessagesCarry
<1>. QED BY <1>1, <1>3, <1>6, ContentsStay DEF ContentsOK

LEMMA NextCarries == SessionInvariant /\ ContentsOK /\ [Next]_vars => ContentsOK'
<1>. SUFFICES ASSUME SessionInvariant, ContentsOK, [Next]_vars PROVE ContentsOK'
  OBVIOUS
<1>1. CASE \E p \in Publishers : Publish(p)
  BY <1>1, EncodeStateCarries, FailToEncodeCarries, SendPacketCarries,
     RecordSentCarries, FailToSendCarries
  DEF Publish
<1>2. CASE \E p \in Publishers : \E s \in State : StoreState(p, s)
  BY <1>2, StoreStateCarries
<1>3. CASE ControlLoop
  BY <1>3, ReadStateCarries, BuildSnapshotCarries, PlanRecoveryCarries, ReplyCarries,
     StopControlCarries DEF ControlLoop
<1>4. CASE \E c \in Clients : Join(c) \/ EndSession(c)
  BY <1>4, JoinCarries, EndSessionCarries
<1>5. CASE \E c \in Clients : Handle(c)
  BY <1>5, TakePacketCarries, IgnoreDuplicateCarries, DiscardPacketCarries DEF Handle
<1>6. CASE \E c \in Clients : LoseMessage(c) \/ Overtake(c)
  BY <1>6, LoseMessageCarries, OvertakeCarries
<1>7. CASE LoseRequest \/ UNCHANGED vars
  <2>1. UNCHANGED <<log, task, history, loop, inbox, sub>>
    BY <1>7 DEF LoseRequest, vars, publisherVars, subscriberVars
  <2>. QED BY <2>1, ContentsStay DEF ContentsOK
<1>. QED BY <1>1, <1>2, <1>3, <1>4, <1>5, <1>6, <1>7 DEF Next

\* The packet in hand, the history and the data topic carry, each, the state
\* given under its sequence or a delta to it from some state; recovery
\* snapshots carry a stored state.
THEOREM ContentsInvariance == Spec => []ContentsOK
<1>1. Init => ContentsOK
  BY InitCarries
<1>2. SessionInvariant /\ ContentsOK /\ [Next]_vars => ContentsOK'
  BY NextCarries
<1>. QED BY <1>1, <1>2, SessionInvariance, PTL DEF Spec

\* OnlyRecoverySnapshotsMislead: whatever state a client started from, a
\* delta, sent or replayed, or a data snapshot leaves it with a state that
\* differs from the one published under its sequence in the signs of zeros at
\* most.
THEOREM OnlyRecoverySnapshotsMisleadHolds == Spec => OnlyRecoverySnapshotsMislead
<1>. DEFINE Truthful ==
       \A c \in Clients :
         LET before == sub[c].decoder
             after  == sub'[c].decoder
         IN  ( /\ after.sequence \notin {None, before.sequence}
               /\ ~ ( /\ Head(inbox[c]).topic = "reply"
                      /\ HeadPacket(c).kind = "Snapshot" ) )
             => after.state \in Like[log'[after.sequence]]
<1>1. SessionInvariant /\ ContentsOK /\ [Next]_vars => [Truthful]_vars
  <2>. SUFFICES ASSUME SessionInvariant, ContentsOK, Next, NEW c \in Clients,
                       sub'[c].decoder.sequence \notin {None, sub[c].decoder.sequence},
                       ~ ( /\ Head(inbox[c]).topic = "reply"
                           /\ HeadPacket(c).kind = "Snapshot" )
                PROVE  sub'[c].decoder.state \in Like[log'[sub'[c].decoder.sequence]]
    OBVIOUS
  <2>1. TakePacket(c)
    <3>1. CASE \E e \in Clients : TakePacket(e)
      BY <3>1 DEF TakePacket, SessionInvariant, ClientsOK
    <3>2. CASE \E e \in Clients : Join(e) \/ EndSession(e) \/ DiscardPacket(e)
      <4>1. PICK e \in Clients : Join(e) \/ EndSession(e) \/ DiscardPacket(e)
        BY <3>2
      <4>2. e = c
        BY <4>1 DEF Join, EndSession, DiscardPacket, SessionInvariant, ClientsOK
      <4>3. NoSession.decoder.sequence = None
        BY DEF NoSession, EmptyDecoder
      <4>4. CASE Join(c) \/ EndSession(c)
        BY <4>3, <4>4 DEF Join, EndSession, SessionInvariant, ClientsOK, NoSession
      <4>5. CASE DiscardPacket(c)
        <5>1. sub'[c].decoder = sub[c].decoder
          BY <4>5 DEF DiscardPacket, SessionInvariant, ClientsOK
        <5>. QED BY <5>1
      <4>. QED BY <4>1, <4>2, <4>4, <4>5
    <3>3. CASE sub' = sub
      BY <3>3
    <3>4. \/ \E e \in Clients : TakePacket(e) \/ Join(e) \/ EndSession(e) \/ DiscardPacket(e)
          \/ sub' = sub
      BY DEF Next, Publish, StoreState, EncodeState, FailToEncode, SendPacket, RecordSent,
             FailToSend,
             ControlLoop, ReadState, BuildSnapshot, PlanRecovery, Reply, StopControl,
             Handle, IgnoreDuplicate, LoseMessage, Overtake, LoseRequest, subscriberVars
    <3>. QED BY <3>1, <3>2, <3>3, <3>4
  <2>. DEFINE d == sub[c].decoder
              p == HeadPacket(c)
  <2>2. /\ UNCHANGED log
        /\ inbox[c] # <<>> /\ inbox' = [inbox EXCEPT ![c] = Tail(@)]
        /\ Outcome(d, Config, p) = "Applied"
        /\ sub'[c].decoder = Apply(d, Config, p)
    BY <2>1 DEF TakePacket, Handles, HeadOutcome, publisherVars, SessionInvariant, ClientsOK
  <2>3. MessageCarries(Head(inbox[c]), log)
    BY <2>2, TailCarries
  <2>4. Carries(p, log)
    <3>1. p \in RecoverySnapshots => p.kind = "Snapshot"
      BY DEF RecoverySnapshots, SnapshotPacket
    <3>. QED BY <2>3, <3>1 DEF MessageCarries, HeadPacket
  <2>5. /\ sub'[c].decoder.sequence = p.sequence
        /\ sub'[c].decoder.state \in Like[log[p.sequence]]
    BY <2>2, <2>4, TakenState
  <2>. QED BY <2>2, <2>5
<1>. QED BY <1>1, SessionInvariance, ContentsInvariance, PTL
         DEF Spec, OnlyRecoverySnapshotsMislead
=============================================================================
