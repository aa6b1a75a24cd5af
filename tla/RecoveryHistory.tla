--------------------------- MODULE RecoveryHistory ---------------------------
(***************************************************************************)
(* The bounded history of published packets and the plan it makes for a    *)
(* client that fell behind (src/recovery_history.rs).  The module has no   *)
(* variables; a history is a record [packets, bytes].                      *)
(***************************************************************************)
EXTENDS Decoder, SequencesExt

CONSTANTS HeaderLen,    \* HEADER_LEN of the wire envelope
          MaxPackets,   \* max_packets
          MaxBytes      \* max_bytes

ASSUME HistoryBoundsAssumption ==
  HeaderLen \in Nat /\ MaxPackets \in Nat \ {0} /\ MaxBytes \in Nat \ {0}

ASSUME SizeAssumption ==
  \A s, t \in State : Size(s) \in Nat /\ Size(Diff(s, t)) \in Nat

EmptyHistory == [packets |-> <<>>, bytes |-> 0]

\* Packet::encoded_len
EncodedLen(p) == HeaderLen + Size(p.payload)

TotalLen(packets) == FoldLeft(LAMBDA total, p : total + EncodedLen(p), 0, packets)

\* A mutant of RecordPacket: eviction stops once either bound holds.
RecordPacketLoosely(h, p) ==
  LET all      == Append(h.packets, p)
      bytes(k) == h.bytes + EncodedLen(p) - TotalLen(SubSeq(all, 1, k))
      fits(k)  == Len(all) - k <= MaxPackets \/ bytes(k) <= MaxBytes
      evicted  == Cardinality({k \in 0..(Len(all) - 1) : ~fits(k)})
  IN  [packets |-> SubSeq(all, evicted + 1, Len(all)), bytes |-> bytes(evicted)]

\* record: the new packet goes to the back, and the oldest are evicted while
\* either bound is exceeded; a packet larger than max_bytes evicts itself too.
RecordPacket(h, p) ==
  LET all      == Append(h.packets, p)
      bytes(k) == h.bytes + EncodedLen(p) - TotalLen(SubSeq(all, 1, k))
      fits(k)  == Len(all) - k <= MaxPackets /\ bytes(k) <= MaxBytes
      evicted  == Cardinality({k \in 0..(Len(all) - 1) : ~fits(k)})
  IN  [packets |-> SubSeq(all, evicted + 1, Len(all)), bytes |-> bytes(evicted)]

\* A mutant of Missing: the newest packet is left out.
MissingButLast(h, local, snapshot) ==
  FoldLeft(LAMBDA kept, p : IF local < p.sequence /\ p.sequence < snapshot.sequence
                            THEN Append(kept, p) ELSE kept,
           <<>>, h.packets)

\* The retained packets a client at local lacks to reach the snapshot.
Missing(h, local, snapshot) ==
  FoldLeft(LAMBDA kept, p : IF local < p.sequence /\ p.sequence <= snapshot.sequence
                            THEN Append(kept, p) ELSE kept,
           <<>>, h.packets)

\* A mutant of Chained: where the run starts is not checked.
ChainedFromAnywhere(packets, local, last) ==
  \A i \in 1..Len(packets) : packets[i].sequence = last - Len(packets) + i

\* packets leads from local to last, each a delta from the one before.
Chained(packets, local, last) ==
  /\ Len(packets) = last - local
  /\ \A i \in 1..Len(packets) :
       packets[i].sequence = local + i /\ packets[i].base_sequence = local + i - 1

\* A mutant of Plan: the cost of the replay does not matter.
PlanReplayFirst(h, local, snapshot) ==
  IF local = None THEN <<snapshot>>
  ELSE LET replay == Missing(h, local, snapshot)
       IN  IF local < snapshot.sequence /\ Chained(replay, local, snapshot.sequence)
           THEN replay ELSE <<snapshot>>

\* plan: the packets to send to a client at local, a replay when the retained
\* chain is complete and cheaper than the snapshot.
Plan(h, local, snapshot) ==
  IF local = None THEN <<snapshot>>
  ELSE LET replay == Missing(h, local, snapshot)
       IN  IF /\ local < snapshot.sequence
              /\ Chained(replay, local, snapshot.sequence)
              /\ TotalLen(replay) < EncodedLen(snapshot)
           THEN replay ELSE <<snapshot>>
=============================================================================
