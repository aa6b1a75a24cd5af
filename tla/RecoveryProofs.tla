----------------------------- MODULE RecoveryProofs ----------------------------
(***************************************************************************)
(* What brings a client to the published state does so, whatever the       *)
(* states are.  The deltas of src/smart_delta.rs restore their targets,    *)
(* those of src/schema.rs and src/binary.rs up to the signs of zeros, as   *)
(* PatchAssumption of Decoder says.  A repair misleads nobody.  The        *)
(* history of packets keeps its bounds, and the plans made from it lead to *)
(* the present state wherever the chain of deltas is whole.                *)
(***************************************************************************)
EXTENDS StateUpdates, RecoveryPlanning, DecoderProofs, SequenceTheorems,
        FiniteSetTheorems, TLAPS

\* GenericDelta's apply undoes its between up to the signs of zeros: whatever
\* fields an update adds, changes or removes, the receiver that holds the
\* base ends with the published fields, each with the published value or,
\* where == does not see the change, with the value it had.
THEOREM RoundTripHolds ==
  ASSUME NEW old \in JsonObject, NEW new \in JsonObject
  PROVE  Restores(old, new)
<1> DEFINE delta == Between(old, new)
           result == ApplyDelta(delta, old)
<1>1. DOMAIN result = DOMAIN new
  <2>1. DOMAIN result =
          (DOMAIN old \ (DOMAIN old \ DOMAIN new)) \cup ChangedFields(old, new)
    BY DEF ApplyDelta, Between
  <2>2. (DOMAIN old \ (DOMAIN old \ DOMAIN new)) \cup ChangedFields(old, new)
          = DOMAIN new
    BY DEF ChangedFields
  <2> QED BY <2>1, <2>2
<1>2. ASSUME NEW f \in DOMAIN new
      PROVE  \/ result[f] = new[f]
             \/ f \in DOMAIN old /\ result[f] = old[f] /\ ValueEqual(old[f], new[f])
  <2>1. CASE f \in ChangedFields(old, new)
    <3>1. f \in DOMAIN delta.changed /\ delta.changed[f] = new[f]
      BY <2>1 DEF Between
    <3> QED BY <1>1, <1>2, <3>1 DEF ApplyDelta
  <2>2. CASE f \notin ChangedFields(old, new)
    <3>1. f \notin DOMAIN delta.changed
      BY <2>2 DEF Between
    <3>2. f \in DOMAIN old /\ ValueEqual(old[f], new[f])
      BY <1>2, <2>2 DEF ChangedFields
    <3> QED BY <1>1, <1>2, <3>1, <3>2 DEF ApplyDelta
  <2> QED BY <2>1, <2>2
<1> QED
  BY <1>1, <1>2 DEF Restores

\* AgentDelta::apply undoes between for all counters of any range and all
\* texts, and restores the float unless it compares equal to the old one.
THEOREM AgentRoundTripHolds ==
  ASSUME NEW old \in AgentStates, NEW new \in AgentStates,
         MaxU8 \in Nat, MaxU64 \in Nat
  PROVE  AgentApply(AgentBetween(old, new), old) =
           IF FloatEqual(old.cpu_percent, new.cpu_percent)
           THEN [new EXCEPT !.cpu_percent = old.cpu_percent] ELSE new
<1>. DEFINE d == AgentBetween(old, new)
            number(x) == old.counter[x] +
                           (IF x \in DOMAIN d.counter THEN d.counter[x] ELSE 0)
<1>1. /\ old.progress \in 0..MaxU8 /\ new.progress \in 0..MaxU8
      /\ \A x \in CounterField : old.counter[x] \in 0..MaxU64 /\ new.counter[x] \in 0..MaxU64
      /\ new = [text |-> new.text, progress |-> new.progress,
                counter |-> new.counter, cpu_percent |-> new.cpu_percent]
      /\ new.text = [x \in TextField |-> new.text[x]]
      /\ new.counter = [x \in CounterField |-> new.counter[x]]
  BY DEF AgentStates
<1>2. old.progress + Given(d.progress, 0) = new.progress
  BY <1>1 DEF AgentBetween, Given, CounterDifference
<1>3. \A x \in CounterField : number(x) = new.counter[x]
  <2>. TAKE x \in CounterField
  <2>1. CASE old.counter[x] = new.counter[x]
    BY <1>1, <2>1 DEF AgentBetween, DifferentIn
  <2>2. CASE old.counter[x] # new.counter[x]
    <3>1. d.counter[x] = new.counter[x] - old.counter[x] /\ x \in DOMAIN d.counter
      BY <2>2 DEF AgentBetween, DifferentIn, CounterDifference
    <3>. QED BY <1>1, <3>1
  <2>. QED BY <2>1, <2>2
<1>4. \A x \in TextField :
        (IF x \in DOMAIN d.text THEN d.text[x] ELSE old.text[x]) = new.text[x]
  BY DEF AgentBetween, DifferentIn
<1>5. Given(d.cpu_percent, old.cpu_percent) =
        IF FloatEqual(old.cpu_percent, new.cpu_percent) THEN old.cpu_percent
        ELSE new.cpu_percent
  BY DEF AgentBetween, Given
<1>6. AgentApply(d, old) =
        [text |-> [x \in TextField |-> new.text[x]],
         progress |-> new.progress,
         counter |-> [x \in CounterField |-> new.counter[x]],
         cpu_percent |-> Given(d.cpu_percent, old.cpu_percent)]
  <2>. HIDE DEF d
  <2>1. /\ old.progress + Given(d.progress, 0) \in 0..MaxU8
        /\ \A x \in CounterField : number(x) \in 0..MaxU64
    BY <1>1, <1>2, <1>3
  <2>. QED BY <1>2, <1>3, <1>4, <2>1 DEF AgentApply
<1>. QED BY <1>1, <1>5, <1>6
-----------------------------------------------------------------------------
(***************************************************************************)
(* The history of packets and its byte counter.                            *)
(***************************************************************************)
CostStart(k) == 0
CostStep(k, total, p) == total + EncodedLen(p)

Costs == INSTANCE FoldTheorems WITH Start <- CostStart, Step <- CostStep

LEMMA TotalIsFold ==
  ASSUME NEW s
  PROVE  TotalLen(s) = Costs!Fold(0, s)
BY DEF TotalLen, Costs!Fold, CostStart, CostStep, FoldLeft, Costs!FoldLeft,
       MapThenFoldSet, Costs!MapThenFoldSet, Max, Costs!Max

LEMMA TotalOfNothing == TotalLen(<<>>) = 0
BY TotalIsFold, Costs!FoldEmpty DEF CostStart

LEMMA TotalOfMore ==
  ASSUME NEW P, NEW s \in Seq(P), NEW p \in P
  PROVE  TotalLen(Append(s, p)) = TotalLen(s) + EncodedLen(p)
<1>1. Costs!Fold(0, Append(s, p)) = CostStep(0, Costs!Fold(0, s), p)
  BY Costs!FoldAppend
<1>. QED BY <1>1, TotalIsFold DEF CostStep

\* The cost of the packets from m + 1 to n grows with n by theirs.
LEMMA TotalOfRun ==
  ASSUME NEW P, \A p \in P : EncodedLen(p) \in Nat,
         NEW s \in Seq(P), NEW m \in 0..Len(s), NEW n \in m..Len(s)
  PROVE  /\ TotalLen(SubSeq(s, m + 1, n)) \in Nat
         /\ n < Len(s) => TotalLen(SubSeq(s, m + 1, n + 1))
                            = TotalLen(SubSeq(s, m + 1, n)) + EncodedLen(s[n + 1])
<1>1. ASSUME NEW i \in m..Len(s), i < Len(s)
      PROVE  TotalLen(SubSeq(s, m + 1, i + 1))
               = TotalLen(SubSeq(s, m + 1, i)) + EncodedLen(s[i + 1])
  <2>1. SubSeq(s, m + 1, i + 1) = Append(SubSeq(s, m + 1, i), s[i + 1])
    <3>1. m \in Nat /\ i \in Nat /\ Len(s) \in Nat
      OBVIOUS
    <3>. DEFINE a == SubSeq(s, m + 1, i + 1)
                b == Append(SubSeq(s, m + 1, i), s[i + 1])
    <3>2. /\ a \in Seq(P) /\ b \in Seq(P)
          /\ Len(a) = i + 1 - m /\ Len(b) = i + 1 - m
          /\ \A j \in 1..(i + 1 - m) : a[j] = b[j]
      BY <1>1, <3>1
    <3>. HIDE DEF a, b
    <3>3. a = b
      BY <3>2, SeqEqual
    <3>. QED BY <3>3 DEF a, b
  <2>2. SubSeq(s, m + 1, i) \in Seq(P) /\ s[i + 1] \in P
    BY <1>1
  <2>. QED BY <2>1, <2>2, TotalOfMore
<1>. DEFINE T == {j \in Nat : m + j <= Len(s) => TotalLen(SubSeq(s, m + 1, m + j)) \in Nat}
<1>2. 0 \in T
  <2>1. SubSeq(s, m + 1, m) = <<>> /\ m + 0 = m
    OBVIOUS
  <2>2. TotalLen(SubSeq(s, m + 1, m)) = 0
    BY <2>1, TotalOfNothing
  <2>. DEFINE to(i) == TotalLen(SubSeq(s, m + 1, i))
  <2>3. to(m) \in Nat
    BY <2>2
  <2>4. to(m + 0) \in Nat
    <3>. HIDE DEF to
    <3>. QED BY <2>1, <2>3
  <2>. QED BY <2>4
<1>3. ASSUME NEW j \in T PROVE j + 1 \in T
  <2>. SUFFICES ASSUME m + (j + 1) <= Len(s)
                PROVE  TotalLen(SubSeq(s, m + 1, m + (j + 1))) \in Nat
    OBVIOUS
  <2>. DEFINE i == m + j
  <2>1. i \in m..Len(s) /\ i < Len(s) /\ m + (j + 1) = i + 1
    OBVIOUS
  <2>2. TotalLen(SubSeq(s, m + 1, i)) \in Nat
    BY <2>1
  <2>3. EncodedLen(s[i + 1]) \in Nat
    <3>1. s[i + 1] \in P
      BY <2>1
    <3>. QED BY <3>1
  <2>. HIDE DEF i
  <2>. QED BY <1>1, <2>1, <2>2, <2>3
<1>4. T = Nat
  <2>. HIDE DEF T
  <2>1. T \in SUBSET Nat
    BY DEF T
  <2>. QED BY <1>2, <1>3, <2>1, Costs!SetInduction
<1>5. TotalLen(SubSeq(s, m + 1, n)) \in Nat
  <2>1. n - m \in Nat /\ m + (n - m) = n /\ n <= Len(s)
    OBVIOUS
  <2>2. n - m \in T
    BY <1>4, <2>1
  <2>. QED BY <2>1, <2>2
<1>. QED BY <1>1, <1>5

\* Costs add up.
LEMMA TotalSplits ==
  ASSUME NEW P, \A p \in P : EncodedLen(p) \in Nat,
         NEW s \in Seq(P), NEW m \in 0..Len(s)
  PROVE  /\ TotalLen(s) \in Nat
         /\ TotalLen(SubSeq(s, 1, m)) \in Nat
         /\ TotalLen(SubSeq(s, m + 1, Len(s))) \in Nat
         /\ TotalLen(s) = TotalLen(SubSeq(s, 1, m)) + TotalLen(SubSeq(s, m + 1, Len(s)))
<1>. DEFINE to(n) == TotalLen(SubSeq(s, 1, n))
            after(n) == TotalLen(SubSeq(s, m + 1, n))
            T == {j \in Nat : m + j <= Len(s) => to(m + j) = to(m) + after(m + j)}
<1>1. /\ Len(s) \in Nat /\ m \in Nat /\ 0 \in 0..Len(s)
      /\ \A n \in 0..Len(s) : to(n) \in Nat
      /\ \A n \in m..Len(s) : after(n) \in Nat
  <2>1. Len(s) \in Nat /\ 0 \in 0..Len(s)
    OBVIOUS
  <2>2. ASSUME NEW n \in 0..Len(s) PROVE to(n) \in Nat
    <3>1. TotalLen(SubSeq(s, 0 + 1, n)) \in Nat
      BY <2>1, TotalOfRun
    <3>. QED BY <3>1
  <2>3. ASSUME NEW n \in m..Len(s) PROVE after(n) \in Nat
    BY TotalOfRun
  <2>. QED BY <2>1, <2>2, <2>3
<1>2. ASSUME NEW n \in m..Len(s), n < Len(s)
      PROVE  /\ to(n + 1) = to(n) + EncodedLen(s[n + 1])
             /\ after(n + 1) = after(n) + EncodedLen(s[n + 1])
  <2>1. n \in 0..Len(s)
    BY <1>1
  <2>2. TotalLen(SubSeq(s, 0 + 1, n + 1)) = TotalLen(SubSeq(s, 0 + 1, n)) + EncodedLen(s[n + 1])
    BY <1>1, <1>2, <2>1, TotalOfRun
  <2>. QED BY <1>2, <2>2, TotalOfRun
<1>3. 0 \in T
  <2>1. SubSeq(s, m + 1, m) = <<>>
    OBVIOUS
  <2>2. after(m) = 0
    BY <2>1, TotalOfNothing
  <2>. HIDE DEF to, after
  <2>. QED BY <1>1, <2>2
<1>4. ASSUME NEW j \in T PROVE j + 1 \in T
  <2>. SUFFICES ASSUME m + (j + 1) <= Len(s)
                PROVE  to(m + (j + 1)) = to(m) + after(m + (j + 1))
    OBVIOUS
  <2>. DEFINE i == m + j
  <2>1. i \in m..Len(s) /\ i < Len(s) /\ m + (j + 1) = i + 1 /\ i \in 0..Len(s)
    OBVIOUS
  <2>2. to(i) = to(m) + after(i)
    BY <2>1
  <2>3. EncodedLen(s[i + 1]) \in Nat
    <3>1. s[i + 1] \in P
      BY <2>1
    <3>. QED BY <3>1
  <2>4. /\ to(i + 1) = to(i) + EncodedLen(s[i + 1])
        /\ after(i + 1) = after(i) + EncodedLen(s[i + 1])
    BY <1>2, <2>1
  <2>5. to(m) \in Nat /\ after(i) \in Nat
    BY <1>1, <2>1
  <2>. HIDE DEF to, after, i
  <2>6. to(i + 1) = to(m) + after(i + 1)
    BY <2>2, <2>3, <2>4, <2>5
  <2>. QED BY <2>1, <2>6
<1>5. T = Nat
  <2>. HIDE DEF T
  <2>1. T \in SUBSET Nat
    BY DEF T
  <2>. QED BY <1>3, <1>4, <2>1, Costs!SetInduction
<1>6. to(Len(s)) = to(m) + after(Len(s))
  <2>1. Len(s) - m \in Nat /\ m + (Len(s) - m) = Len(s)
    BY <1>1
  <2>2. Len(s) - m \in T
    BY <1>5, <2>1
  <2>. HIDE DEF to, after
  <2>. QED BY <2>1, <2>2
<1>7. SubSeq(s, 1, Len(s)) = s
  BY SubSeqFull
<1>8. to(m) \in Nat /\ after(Len(s)) \in Nat
  <2>1. Len(s) \in m..Len(s)
    BY <1>1
  <2>. QED BY <1>1, <2>1
<1>9. TotalLen(s) = to(Len(s))
  BY <1>7
<1>. HIDE DEF to, after
<1>10. TotalLen(s) = to(m) + after(Len(s)) /\ TotalLen(s) \in Nat
  BY <1>6, <1>8, <1>9
<1>. QED BY <1>8, <1>10 DEF to, after

\* The newest of some packets.
Newest(kept, packets) ==
  \E m \in 0..Len(packets) : kept = SubSeq(packets, m + 1, Len(packets))

\* record keeps the newest packets that fit both bounds, and its counter is
\* their total.
LEMMA RecordKeepsBounds ==
  ASSUME NEW P, \A p \in P : EncodedLen(p) \in Nat,
         NEW h, h.packets \in Seq(P), h.bytes = TotalLen(h.packets),
         NEW p \in P, NEW r, r = RecordPacket(h, p)
  PROVE  /\ Newest(r.packets, Append(h.packets, p))
         /\ r.packets \in Seq(P)
         /\ Len(r.packets) <= MaxPackets
         /\ r.bytes = TotalLen(r.packets)
         /\ r.bytes <= MaxBytes
<1>. DEFINE all == Append(h.packets, p)
            total == h.bytes + EncodedLen(p)
            bytes(k) == h.bytes + EncodedLen(p) - TotalLen(SubSeq(all, 1, k))
            fits(k) == Len(all) - k <= MaxPackets /\ bytes(k) <= MaxBytes
            unfit == {k \in 0..(Len(all) - 1) : ~fits(k)}
            m == Cardinality(unfit)
            n == Len(all)
<1>1. /\ all \in Seq(P) /\ n = Len(h.packets) + 1 /\ n \in Nat
      /\ MaxPackets \in Nat /\ MaxBytes \in Nat
  BY HistoryBoundsAssumption
<1>2. TotalLen(all) = total
  <2>1. TotalLen(Append(h.packets, p)) = TotalLen(h.packets) + EncodedLen(p)
    BY TotalOfMore
  <2>. QED BY <2>1
<1>3. r.packets = SubSeq(all, m + 1, n) /\ r.bytes = bytes(m)
  BY DEF RecordPacket
<1>. HIDE DEF all, n
<1>t. TotalLen(all) \in Nat /\ h.bytes \in Nat /\ EncodedLen(p) \in Nat
  <2>1. 0 \in 0..Len(all) /\ 0 \in 0..Len(h.packets)
    BY <1>1 DEF n
  <2>. QED BY <1>1, <2>1, TotalSplits
<1>s. \A k \in 0..n : /\ TotalLen(SubSeq(all, 1, k)) \in Nat
                      /\ bytes(k) = total - TotalLen(SubSeq(all, 1, k))
  <2>. TAKE k \in 0..n
  <2>1. TotalLen(SubSeq(all, 1, k)) \in Nat
    BY <1>1, TotalSplits DEF n
  <2>. QED BY <1>t, <2>1
<1>. HIDE DEF total, bytes
<1>4. \A k \in 0..n : /\ bytes(k) = TotalLen(SubSeq(all, k + 1, n)) /\ bytes(k) \in Nat
                      /\ TotalLen(SubSeq(all, 1, k)) \in Nat
  <2>. TAKE k \in 0..n
  <2>1. /\ TotalLen(SubSeq(all, 1, k)) \in Nat
        /\ TotalLen(SubSeq(all, k + 1, n)) \in Nat
        /\ TotalLen(all) = TotalLen(SubSeq(all, 1, k)) + TotalLen(SubSeq(all, k + 1, n))
    BY <1>1, TotalSplits DEF n
  <2>2. bytes(k) = TotalLen(all) - TotalLen(SubSeq(all, 1, k))
    BY <1>2, <1>s
  <2>. QED BY <2>1, <2>2
<1>5. \A k \in 0..n : k < n => bytes(k + 1) <= bytes(k)
  <2>. SUFFICES ASSUME NEW k \in 0..n, k < n PROVE bytes(k + 1) <= bytes(k)
    OBVIOUS
  <2>1. TotalLen(SubSeq(all, 0 + 1, k + 1)) = TotalLen(SubSeq(all, 0 + 1, k)) + EncodedLen(all[k + 1])
    <3>1. 0 \in 0..Len(all) /\ k \in 0..Len(all) /\ k < Len(all)
      BY <1>1 DEF n
    <3>. QED BY <1>1, <3>1, TotalOfRun
  <2>2. EncodedLen(all[k + 1]) \in Nat
    <3>1. all[k + 1] \in P
      BY <1>1 DEF n
    <3>. QED BY <3>1
  <2>3. TotalLen(SubSeq(all, 1, k)) <= TotalLen(SubSeq(all, 1, k + 1))
    <3>1. TotalLen(SubSeq(all, 1, k)) \in Nat
      BY <1>4
    <3>. QED BY <2>1, <2>2, <3>1
  <2>4. /\ TotalLen(SubSeq(all, 1, k)) \in Nat /\ TotalLen(SubSeq(all, 1, k + 1)) \in Nat
        /\ total \in Nat
    <3>1. k + 1 \in 0..n
      BY <1>1
    <3>. QED BY <1>2, <1>t, <1>4, <3>1
  <2>5. k + 1 \in 0..n
    BY <1>1
  <2>6. /\ bytes(k) = total - TotalLen(SubSeq(all, 1, k))
        /\ bytes(k + 1) = total - TotalLen(SubSeq(all, 1, k + 1))
    BY <1>s, <2>5
  <2>. QED BY <2>3, <2>4, <2>6
<1>6. fits(n)
  <2>1. SubSeq(all, n + 1, n) = <<>>
    BY <1>1
  <2>2. bytes(n) = 0
    <3>1. n \in 0..n
      BY <1>1
    <3>. QED BY <1>4, <2>1, <3>1, TotalOfNothing
  <2>. QED BY <1>1, <2>2 DEF n
<1>7. PICK l \in {k \in 0..n : fits(k)} : \A k \in {k \in 0..n : fits(k)} : l <= k
  <2>1. {k \in 0..n : fits(k)} \in SUBSET Nat /\ {k \in 0..n : fits(k)} # {}
    <3>1. n \in 0..n
      BY <1>1
    <3>. HIDE DEF fits
    <3>. QED BY <1>6, <3>1
  <2>. HIDE DEF fits
  <2>. QED BY <2>1, Costs!LeastExists
<1>8. \A j \in Nat : l + j <= n => fits(l + j)
  <2>. DEFINE T == {j \in Nat : l + j <= n => fits(l + j)}
  <2>1. 0 \in T
    BY <1>7
  <2>2. ASSUME NEW j \in T PROVE j + 1 \in T
    <3>. SUFFICES ASSUME l + (j + 1) <= n PROVE fits(l + (j + 1))
      OBVIOUS
    <3>. DEFINE i == l + j
    <3>1. i \in 0..n /\ i < n /\ l + (j + 1) = i + 1 /\ i + 1 \in 0..n
      BY <1>1, <1>7
    <3>2. n - i <= MaxPackets /\ bytes(i) <= MaxBytes
      BY <3>1 DEF n
    <3>3. bytes(i + 1) <= bytes(i) /\ bytes(i) \in Nat /\ bytes(i + 1) \in Nat
      BY <1>4, <1>5, <3>1
    <3>. HIDE DEF i
    <3>4. n - (i + 1) <= MaxPackets /\ bytes(i + 1) <= MaxBytes
      BY <1>1, <3>1, <3>2, <3>3
    <3>. QED BY <3>1, <3>4 DEF n
  <2>3. T = Nat
    <3>. HIDE DEF T
    <3>1. T \in SUBSET Nat
      BY DEF T
    <3>. QED BY <2>1, <2>2, <3>1, Costs!SetInduction
  <2>. QED BY <2>3
<1>9. unfit = 0..(l - 1)
  <2>1. l \in Nat /\ l <= n
    BY <1>7
  <2>2. ASSUME NEW k \in 0..(n - 1), ~fits(k) PROVE k < l
    <3>. SUFFICES ASSUME l <= k PROVE FALSE
      BY <1>1, <2>1
    <3>1. k - l \in Nat /\ l + (k - l) = k /\ l + (k - l) <= n
      BY <1>1, <2>1
    <3>2. fits(l + (k - l))
      BY <1>8, <3>1
    <3>. QED BY <2>2, <3>1, <3>2
  <2>3. ASSUME NEW k \in 0..(l - 1) PROVE k \in 0..(n - 1) /\ ~fits(k)
    BY <1>1, <1>7, <2>1
  <2>4. unfit = {k \in 0..(n - 1) : ~fits(k)}
    BY DEF n
  <2>. HIDE DEF fits, unfit
  <2>. QED BY <1>1, <2>1, <2>2, <2>3, <2>4
<1>10. m = l
  <2>1. l - 1 \in Int /\ l \in Nat /\ 0 \in Int
    BY <1>7
  <2>2. Cardinality(0..(l - 1)) = IF 0 > l - 1 THEN 0 ELSE (l - 1) - 0 + 1
    BY <2>1, FS_Interval
  <2>3. Cardinality(0..(l - 1)) = l
    BY <2>1, <2>2
  <2>. QED BY <1>9, <2>3
<1>11. m \in 0..n /\ fits(m)
  BY <1>7, <1>10
<1>. HIDE DEF m
<1>12. /\ SubSeq(all, m + 1, n) \in Seq(P) /\ Len(SubSeq(all, m + 1, n)) = n - m
  BY <1>1, <1>11 DEF n
<1>13. bytes(m) = TotalLen(SubSeq(all, m + 1, n)) /\ bytes(m) <= MaxBytes /\ n - m <= MaxPackets
  BY <1>4, <1>11 DEF n
<1>. QED BY <1>1, <1>3, <1>11, <1>12, <1>13 DEF all, n, Newest
-----------------------------------------------------------------------------
(***************************************************************************)
(* The packets a client lacks.                                             *)
(***************************************************************************)
SieveStart(k) == <<>>
SieveStep(k, kept, p) ==
  IF k[1] < p.sequence /\ p.sequence <= k[2] THEN Append(kept, p) ELSE kept

Sieve == INSTANCE FoldTheorems WITH Start <- SieveStart, Step <- SieveStep

LEMMA MissingIsFold ==
  ASSUME NEW h, NEW local, NEW snapshot
  PROVE  Missing(h, local, snapshot) = Sieve!Fold(<<local, snapshot.sequence>>, h.packets)
BY DEF Missing, Sieve!Fold, SieveStart, SieveStep, FoldLeft, Sieve!FoldLeft,
       MapThenFoldSet, Sieve!MapThenFoldSet, Max, Sieve!Max

Rising(s) == \A i, j \in 1..Len(s) : i < j => s[i].sequence < s[j].sequence

\* The packets of s with a sequence above a and up to b.
InGap(q, s, a, b) ==
  /\ \A i \in 1..Len(q) : /\ \E j \in 1..Len(s) : q[i] = s[j]
                          /\ q[i].sequence \in (a + 1)..b
  /\ \A j \in 1..Len(s) : s[j].sequence \in (a + 1)..b => \E i \in 1..Len(q) : q[i] = s[j]

\* They are the retained ones in the gap, all of them and in order.
LEMMA MissingAreAll ==
  ASSUME NEW P, \A p \in P : p.sequence \in Nat,
         NEW h, h.packets \in Seq(P), Rising(h.packets),
         NEW local \in Nat, NEW snapshot, snapshot.sequence \in Nat,
         NEW q, q = Missing(h, local, snapshot)
  PROVE  q \in Seq(P) /\ Rising(q) /\ InGap(q, h.packets, local, snapshot.sequence)
<1>. DEFINE s == h.packets
            k == <<local, snapshot.sequence>>
            gap == (local + 1)..snapshot.sequence
            kept(n) == Sieve!Fold(k, SubSeq(s, 1, n))
            Sifted(r, n) == /\ r \in Seq(P)
                            /\ \A i \in 1..Len(r) : /\ \E j \in 1..n : r[i] = s[j]
                                                    /\ r[i].sequence \in gap
                            /\ Rising(r)
                            /\ \A j \in 1..n : s[j].sequence \in gap
                                                 => \E i \in 1..Len(r) : r[i] = s[j]
            T == {n \in Nat : n <= Len(s) => Sifted(kept(n), n)}
<1>. HIDE DEF s, kept, Sifted
<1>1. /\ s \in Seq(P) /\ Len(s) \in Nat /\ Rising(s)
      /\ \A j \in 1..Len(s) : s[j] \in P /\ s[j].sequence \in Nat
  BY DEF s
<1>2. 0 \in T
  <2>1. SubSeq(s, 1, 0) = <<>>
    BY <1>1
  <2>2. kept(0) = <<>>
    BY <2>1, Sieve!FoldEmpty DEF SieveStart, kept
  <2>3. Sifted(<<>>, 0)
    BY DEF Rising, Sifted
  <2>. QED BY <2>2, <2>3
<1>3. ASSUME NEW n \in T PROVE n + 1 \in T
  <2>. SUFFICES ASSUME n + 1 <= Len(s) PROVE Sifted(kept(n + 1), n + 1)
    OBVIOUS
  <2>1. n \in Nat /\ Sifted(kept(n), n) /\ n + 1 \in 1..Len(s)
    BY <1>1
  <2>2. SubSeq(s, 1, n + 1) = Append(SubSeq(s, 1, n), s[n + 1]) /\ SubSeq(s, 1, n) \in Seq(P)
    BY <1>1, <2>1, Costs!PrefixGrows
  <2>3. kept(n + 1) = SieveStep(k, kept(n), s[n + 1])
    <3>1. s[n + 1] \in P
      BY <1>1, <2>1
    <3>2. Sieve!Fold(k, Append(SubSeq(s, 1, n), s[n + 1]))
            = SieveStep(k, Sieve!Fold(k, SubSeq(s, 1, n)), s[n + 1])
      BY <2>2, <3>1, Sieve!FoldAppend
    <3>. QED BY <2>2, <3>2 DEF kept
  <2>. DEFINE r == kept(n)
              e == s[n + 1]
  <2>4. e \in P /\ e.sequence \in Nat
    BY <1>1, <2>1
  <2>5. /\ r \in Seq(P)
        /\ \A i \in 1..Len(r) : (\E j \in 1..n : r[i] = s[j]) /\ r[i].sequence \in gap
        /\ Rising(r)
        /\ \A j \in 1..n : s[j].sequence \in gap => \E i \in 1..Len(r) : r[i] = s[j]
    BY <2>1 DEF Sifted
  <2>6. kept(n + 1) = IF e.sequence \in gap THEN Append(r, e) ELSE r
    <3>1. kept(n + 1) = IF local < e.sequence /\ e.sequence <= snapshot.sequence
                        THEN Append(r, e) ELSE r
      BY <2>3 DEF SieveStep
    <3>. HIDE DEF r, e
    <3>. QED BY <2>4, <3>1
  <2>. HIDE DEF r
  <2>7. CASE e.sequence \in gap
    <3>. DEFINE t == Append(r, e)
    <3>1. /\ t \in Seq(P) /\ Len(t) = Len(r) + 1 /\ Len(r) \in Nat
          /\ \A i \in 1..Len(r) : t[i] = r[i]
          /\ t[Len(r) + 1] = e
      BY <2>4, <2>5
    <3>. HIDE DEF t
    <3>2. ASSUME NEW i \in 1..Len(t)
          PROVE  (\E j \in 1..(n + 1) : t[i] = s[j]) /\ t[i].sequence \in gap
      <4>1. CASE i = Len(r) + 1
        BY <2>1, <2>7, <3>1, <4>1
      <4>2. CASE i \in 1..Len(r)
        <5>1. PICK j \in 1..n : r[i] = s[j]
          BY <2>5, <4>2
        <5>2. j \in 1..(n + 1) /\ t[i] = s[j] /\ r[i].sequence \in gap
          BY <2>1, <2>5, <3>1, <4>2, <5>1
        <5>. QED BY <3>1, <4>2, <5>2
      <4>. QED BY <3>1, <4>1, <4>2
    <3>3. ASSUME NEW i \in 1..Len(t), NEW j \in 1..Len(t), i < j
          PROVE  t[i].sequence < t[j].sequence
      <4>1. CASE j = Len(r) + 1
        <5>1. i \in 1..Len(r)
          BY <3>1, <3>3, <4>1
        <5>2. PICK l \in 1..n : r[i] = s[l]
          BY <2>5, <5>1
        <5>3. s[l].sequence < s[n + 1].sequence
          <6>1. l \in 1..Len(s) /\ n + 1 \in 1..Len(s) /\ l < n + 1
            BY <1>1, <2>1
          <6>2. Rising(s)
            BY <1>1
          <6>. QED BY ONLY <6>1, <6>2 DEF Rising
        <5>4. t[i] = s[l] /\ t[j] = s[n + 1]
          BY <3>1, <4>1, <5>1, <5>2
        <5>. QED BY <5>3, <5>4
      <4>2. CASE j \in 1..Len(r)
        <5>1. i \in 1..Len(r)
          BY <3>1, <3>3, <4>2
        <5>. QED BY <2>5, <3>1, <3>3, <4>2, <5>1 DEF Rising
      <4>. QED BY <3>1, <4>1, <4>2
    <3>4. ASSUME NEW j \in 1..(n + 1), s[j].sequence \in gap
          PROVE  \E i \in 1..Len(t) : t[i] = s[j]
      <4>1. CASE j = n + 1
        <5>1. Len(r) + 1 \in 1..Len(t)
          BY <3>1
        <5>. QED BY <3>1, <4>1, <5>1
      <4>2. CASE j \in 1..n
        <5>1. PICK i \in 1..Len(r) : r[i] = s[j]
          BY <2>5, <3>4, <4>2
        <5>2. i \in 1..Len(t) /\ t[i] = s[j]
          BY <3>1, <5>1
        <5>. QED BY <5>2
      <4>. QED BY <2>1, <4>1, <4>2
    <3>5. Sifted(t, n + 1)
      <4>1. Rising(t)
        BY <3>3 DEF Rising
      <4>. QED BY <3>1, <3>2, <3>4, <4>1 DEF Sifted
    <3>. QED BY <2>6, <2>7, <3>5 DEF t
  <2>8. CASE e.sequence \notin gap
    <3>1. ASSUME NEW i \in 1..Len(r)
          PROVE  (\E j \in 1..(n + 1) : r[i] = s[j]) /\ r[i].sequence \in gap
      <4>1. PICK j \in 1..n : r[i] = s[j]
        BY <2>5
      <4>2. j \in 1..(n + 1)
        BY <2>1
      <4>. QED BY <2>5, <4>1, <4>2
    <3>2. ASSUME NEW j \in 1..(n + 1), s[j].sequence \in gap
          PROVE  \E i \in 1..Len(r) : r[i] = s[j]
      <4>1. j \in 1..n
        BY <2>1, <2>8, <3>2
      <4>. QED BY <2>5, <3>2, <4>1
    <3>3. Sifted(r, n + 1)
      BY <2>5, <3>1, <3>2 DEF Sifted
    <3>. QED BY <2>6, <2>8, <3>3
  <2>. QED BY <2>7, <2>8
<1>4. T = Nat
  <2>. HIDE DEF T
  <2>1. T \in SUBSET Nat
    BY DEF T
  <2>. QED BY <1>2, <1>3, <2>1, Costs!SetInduction
<1>5. Sifted(kept(Len(s)), Len(s))
  BY <1>1, <1>4
<1>6. q = kept(Len(s))
  <2>1. SubSeq(s, 1, Len(s)) = s
    BY <1>1, SubSeqFull
  <2>2. q = Sieve!Fold(k, s)
    BY MissingIsFold DEF s
  <2>. QED BY <2>1, <2>2 DEF kept
<1>. QED BY <1>5, <1>6 DEF s, Sifted, InGap

\* A rising run of packets that takes in every sequence of a gap, and no
\* other, is the gap.
LEMMA RunFillsGap ==
  ASSUME NEW P, \A p \in P : p.sequence \in Nat, NEW q \in Seq(P), Rising(q),
         NEW a \in Nat, NEW b \in Nat, a <= b,
         \A i \in 1..Len(q) : q[i].sequence \in (a + 1)..b,
         \A m \in (a + 1)..b : \E i \in 1..Len(q) : q[i].sequence = m
  PROVE  Len(q) = b - a /\ \A i \in 1..Len(q) : q[i].sequence = a + i
<1>. DEFINE T == {i \in Nat : i # 0 /\ i <= Len(q) => q[i].sequence = a + i}
<1>1. /\ Len(q) \in Nat
      /\ \A i \in 1..Len(q) : q[i].sequence \in Nat
  OBVIOUS
<1>2. 0 \in T
  OBVIOUS
<1>3. ASSUME NEW i \in T PROVE i + 1 \in T
  <2>. SUFFICES ASSUME i + 1 <= Len(q) PROVE q[i + 1].sequence = a + (i + 1)
    OBVIOUS
  <2>1. i + 1 \in 1..Len(q) /\ i \in Nat
    BY <1>1
  <2>2. \A j \in 1..i : q[j].sequence <= a + i
    <3>. TAKE j \in 1..i
    <3>1. i \in 1..Len(q) /\ q[i].sequence = a + i /\ j \in 1..Len(q)
      BY <1>1, <2>1
    <3>2. j < i => q[j].sequence < q[i].sequence
      BY <3>1 DEF Rising
    <3>. QED BY <1>1, <3>1, <3>2
  <2>3. q[i + 1].sequence >= a + (i + 1)
    <3>1. CASE i = 0
      BY <2>1, <3>1
    <3>2. CASE i # 0
      <4>1. i \in 1..Len(q) /\ q[i].sequence = a + i
        BY <1>1, <2>1, <3>2
      <4>2. q[i].sequence < q[i + 1].sequence
        BY <2>1, <4>1 DEF Rising
      <4>. QED BY <1>1, <2>1, <4>1, <4>2
    <3>. QED BY <3>1, <3>2
  <2>4. a + (i + 1) \in (a + 1)..b
    <3>1. q[i + 1].sequence <= b
      BY <2>1
    <3>. QED BY <1>1, <2>1, <2>3, <3>1
  <2>5. PICK j \in 1..Len(q) : q[j].sequence = a + (i + 1)
    BY <2>4
  <2>6. j \notin 1..i
    BY <2>1, <2>2, <2>5
  <2>7. j > i + 1 => q[i + 1].sequence < q[j].sequence
    BY <2>1 DEF Rising
  <2>8. q[i + 1].sequence \in Nat /\ (j > i + 1 \/ j = i + 1)
    BY <1>1, <2>1, <2>6
  <2>. DEFINE x == q[i + 1].sequence
              y == a + (i + 1)
  <2>9. x \in Nat /\ x >= y /\ y \in Nat /\ (x < y \/ x = y)
    BY <2>1, <2>3, <2>5, <2>7, <2>8
  <2>. HIDE DEF x, y
  <2>10. x = y
    BY <2>9
  <2>. QED BY <2>10 DEF x, y
<1>4. T = Nat
  <2>. HIDE DEF T
  <2>1. T \in SUBSET Nat
    BY DEF T
  <2>. QED BY <1>2, <1>3, <2>1, Costs!SetInduction
<1>5. \A i \in 1..Len(q) : q[i].sequence = a + i
  BY <1>4
<1>6. Len(q) <= b - a
  <2>1. CASE Len(q) = 0
    BY <2>1
  <2>2. CASE Len(q) # 0
    <3>1. Len(q) \in 1..Len(q)
      BY <1>1, <2>2
    <3>2. q[Len(q)].sequence = a + Len(q) /\ q[Len(q)].sequence \in (a + 1)..b
      BY <1>5, <3>1
    <3>. QED BY <1>1, <3>2
  <2>. QED BY <2>1, <2>2
<1>7. ~(Len(q) < b - a)
  <2>. SUFFICES ASSUME Len(q) < b - a PROVE FALSE
    OBVIOUS
  <2>1. a + (Len(q) + 1) \in (a + 1)..b
    BY <1>1
  <2>2. PICK j \in 1..Len(q) : q[j].sequence = a + (Len(q) + 1)
    BY <2>1
  <2>. QED BY <1>1, <1>5, <2>2
<1>8. Len(q) = b - a
  BY <1>1, <1>6, <1>7
<1>. QED BY <1>5, <1>8
-----------------------------------------------------------------------------
(***************************************************************************)
(* Partial repairs.                                                        *)
(***************************************************************************)
PickStart(k) == <<>>
PickStep(k, at, i) == IF i \in k THEN Append(at, i) ELSE at

Picks == INSTANCE FoldTheorems WITH Start <- PickStart, Step <- PickStep

LEMMA AscendingIsFold ==
  ASSUME NEW numbers, NEW count
  PROVE  Ascending(numbers, count) = Picks!Fold(numbers, [n \in 1..count |-> n - 1])
BY DEF Ascending, Picks!Fold, PickStart, PickStep, FoldLeft, Picks!FoldLeft,
       MapThenFoldSet, Picks!MapThenFoldSet, Max, Picks!Max

LEMMA AscendingSteps ==
  ASSUME NEW numbers, NEW count \in Nat
  PROVE  /\ Ascending(numbers, 0) = <<>>
         /\ Ascending(numbers, count + 1) = IF count \in numbers
                                            THEN Append(Ascending(numbers, count), count)
                                            ELSE Ascending(numbers, count)
<1>. DEFINE upTo(c) == [n \in 1..c |-> n - 1]
<1>1. Ascending(numbers, 0) = <<>>
  <2>1. upTo(0) = <<>>
    OBVIOUS
  <2>. HIDE DEF upTo
  <2>2. Ascending(numbers, 0) = Picks!Fold(numbers, upTo(0))
    BY AscendingIsFold DEF upTo
  <2>. QED BY <2>1, <2>2, Picks!FoldEmpty DEF PickStart
<1>2. upTo(count) \in Seq(Nat) /\ upTo(count + 1) = Append(upTo(count), count)
  <2>. DEFINE a == upTo(count + 1)
              b == Append(upTo(count), count)
  <2>1. /\ upTo(count) \in Seq(Nat) /\ Len(upTo(count)) = count
        /\ a \in Seq(Nat) /\ Len(a) = count + 1
        /\ \A i \in 1..(count + 1) : a[i] = i - 1
    OBVIOUS
  <2>2. \A i \in 1..count : upTo(count)[i] = i - 1
    OBVIOUS
  <2>. HIDE DEF upTo
  <2>3. /\ b \in Seq(Nat) /\ Len(b) = count + 1
        /\ \A i \in 1..count : b[i] = upTo(count)[i]
        /\ b[count + 1] = count
    BY <2>1
  <2>. HIDE DEF a, b
  <2>4. \A i \in 1..(count + 1) : a[i] = b[i]
    <3>. TAKE i \in 1..(count + 1)
    <3>1. CASE i = count + 1
      BY <2>1, <2>3, <3>1
    <3>2. CASE i \in 1..count
      BY <2>1, <2>2, <2>3, <3>2
    <3>. QED BY <3>1, <3>2
  <2>5. a = b
    BY <2>1, <2>3, <2>4, SeqEqual
  <2>. QED BY <2>1, <2>5 DEF a, b
<1>3. /\ Ascending(numbers, count) = Picks!Fold(numbers, upTo(count))
      /\ Ascending(numbers, count + 1) = Picks!Fold(numbers, upTo(count + 1))
  BY AscendingIsFold
<1>. HIDE DEF upTo
<1>4. Picks!Fold(numbers, Append(upTo(count), count))
        = PickStep(numbers, Picks!Fold(numbers, upTo(count)), count)
  BY <1>2, Picks!FoldAppend
<1>. QED BY <1>1, <1>2, <1>3, <1>4 DEF PickStep

\* Ascending gives the numbers below count, all of them and in order.
Lists(at, numbers, count) ==
  /\ at \in Seq(Nat)
  /\ \A i \in 1..Len(at) : at[i] \in numbers /\ at[i] < count
  /\ \A i, j \in 1..Len(at) : i < j => at[i] < at[j]
  /\ \A x \in numbers : x \in Nat /\ x < count => \E i \in 1..Len(at) : at[i] = x

LEMMA AscendingLists ==
  ASSUME NEW numbers, NEW count \in Nat
  PROVE  Lists(Ascending(numbers, count), numbers, count)
<1>. DEFINE T == {c \in Nat : Lists(Ascending(numbers, c), numbers, c)}
<1>1. 0 \in T
  <2>1. Lists(<<>>, numbers, 0)
    BY DEF Lists
  <2>. QED BY <2>1, AscendingSteps
<1>2. ASSUME NEW c \in T PROVE c + 1 \in T
  <2>. DEFINE a == Ascending(numbers, c)
              b == Append(a, c)
  <2>1. Lists(a, numbers, c) /\ c \in Nat
    OBVIOUS
  <2>2. Ascending(numbers, c + 1) = IF c \in numbers THEN b ELSE a
    BY <2>1, AscendingSteps
  <2>. HIDE DEF a
  <2>3. CASE c \in numbers
    <3>1. /\ b \in Seq(Nat) /\ Len(b) = Len(a) + 1 /\ Len(a) \in Nat
          /\ \A i \in 1..Len(a) : b[i] = a[i]
          /\ b[Len(a) + 1] = c
      BY <2>1 DEF Lists
    <3>. HIDE DEF b
    <3>2. ASSUME NEW i \in 1..Len(b) PROVE b[i] \in numbers /\ b[i] < c + 1
      <4>1. CASE i = Len(a) + 1
        BY <2>1, <2>3, <3>1, <4>1
      <4>2. CASE i \in 1..Len(a)
        <5>1. a[i] \in numbers /\ a[i] < c /\ a[i] \in Nat
          BY <2>1, <4>2 DEF Lists
        <5>. QED BY <2>1, <3>1, <4>2, <5>1
      <4>. QED BY <3>1, <4>1, <4>2
    <3>3. ASSUME NEW i \in 1..Len(b), NEW j \in 1..Len(b), i < j PROVE b[i] < b[j]
      <4>1. i \in 1..Len(a)
        BY <3>1, <3>3
      <4>2. CASE j = Len(a) + 1
        BY <2>1, <3>1, <4>1, <4>2 DEF Lists
      <4>3. CASE j \in 1..Len(a)
        BY <2>1, <3>1, <3>3, <4>1, <4>3 DEF Lists
      <4>. QED BY <3>1, <4>2, <4>3
    <3>4. ASSUME NEW x \in numbers, x \in Nat, x < c + 1 PROVE \E i \in 1..Len(b) : b[i] = x
      <4>1. CASE x = c
        <5>1. Len(a) + 1 \in 1..Len(b)
          BY <3>1
        <5>. QED BY <3>1, <4>1, <5>1
      <4>2. CASE x < c
        <5>1. PICK i \in 1..Len(a) : a[i] = x
          BY <2>1, <3>4, <4>2 DEF Lists
        <5>2. i \in 1..Len(b) /\ b[i] = x
          BY <3>1, <5>1
        <5>. QED BY <5>2
      <4>. QED BY <2>1, <3>4, <4>1, <4>2
    <3>5. Lists(b, numbers, c + 1)
      BY <3>1, <3>2, <3>3, <3>4 DEF Lists
    <3>. QED BY <2>2, <2>3, <3>5
  <2>4. CASE c \notin numbers
    <3>1. ASSUME NEW i \in 1..Len(a) PROVE a[i] \in numbers /\ a[i] < c + 1
      <4>1. a[i] \in numbers /\ a[i] < c /\ a[i] \in Nat
        BY <2>1 DEF Lists
      <4>. QED BY <2>1, <4>1
    <3>2. ASSUME NEW x \in numbers, x \in Nat, x < c + 1 PROVE \E i \in 1..Len(a) : a[i] = x
      <4>1. x < c
        BY <2>1, <2>4, <3>2
      <4>. QED BY <2>1, <3>2, <4>1 DEF Lists
    <3>3. Lists(a, numbers, c + 1)
      BY <2>1, <3>1, <3>2 DEF Lists
    <3>. QED BY <2>2, <2>4, <3>3
  <2>. QED BY <2>3, <2>4
<1>3. T = Nat
  <2>. HIDE DEF T
  <2>1. T \in SUBSET Nat
    BY DEF T
  <2>. QED BY <1>1, <1>2, <2>1, Costs!SetInduction
<1>. QED BY <1>3
-----------------------------------------------------------------------------
LEMMA ProductsOrder ==
  ASSUME NEW a \in Nat, NEW b \in Nat, NEW s \in Nat \ {0}
  PROVE  /\ a * s \in Nat /\ (a + 1) * s = a * s + s
         /\ a < b => a * s + s <= b * s
<1>1. a * s \in Nat /\ (a + 1) * s = a * s + s
  OBVIOUS
<1>2. ASSUME a < b PROVE a * s + s <= b * s
  <2>. DEFINE d == b - (a + 1)
  <2>1. d \in Nat /\ b = (a + 1) + d
    BY <1>2
  <2>. HIDE DEF d
  <2>2. d * s \in Nat /\ b * s = (a + 1) * s + d * s
    BY <2>1
  <2>. QED BY <1>1, <2>2
<1>. QED BY <1>1, <1>2

\* The chunks of some bytes are those that start before their end.
LEMMA ChunkCounts ==
  ASSUME NEW Byte, NEW t \in Seq(Byte), NEW s \in Nat \ {0}
  PROVE  /\ ChunkCount(t, s) \in Nat
         /\ \A k \in Nat : k < ChunkCount(t, s) <=> k * s < Len(t)
<1>. DEFINE n == Len(t)
            q == (n + s - 1) \div s
<1>1. n \in Nat /\ n + s - 1 \in Nat
  OBVIOUS
<1>2. q \in Nat /\ q * s <= n + s - 1 /\ n + s - 1 < q * s + s
  <2>. DEFINE x == n + s - 1
  <2>1. x \in Nat
    BY <1>1
  <2>. HIDE DEF x
  <2>2. x \div s \in Nat /\ (x \div s) * s <= x /\ x < (x \div s) * s + s
    BY <2>1
  <2>. QED BY <2>2 DEF x
<1>. HIDE DEF n, q
<1>3. ASSUME NEW k \in Nat PROVE k < q <=> k * s < n
  <2>1. /\ k * s \in Nat /\ q * s \in Nat
        /\ k < q => k * s + s <= q * s
        /\ q < k => q * s + s <= k * s
    BY <1>2, ProductsOrder
  <2>. DEFINE ks == k * s
              qs == q * s
  <2>2. /\ ks \in Nat /\ qs \in Nat /\ (k < q => ks + s <= qs) /\ (q < k => qs + s <= ks)
        /\ (q = k => qs = ks) /\ qs <= n + s - 1 /\ n + s - 1 < qs + s
    BY <1>2, <2>1
  <2>. HIDE DEF ks, qs
  <2>3. k < q <=> ks < n
    BY <1>1, <1>2, <2>2
  <2>. QED BY <2>3 DEF ks
<1>. QED BY <1>2, <1>3 DEF ChunkCount, q, n

\* Every byte is in a chunk.
LEMMA ChunkExists ==
  ASSUME NEW s \in Nat \ {0}, NEW i \in Nat
  PROVE  \E k \in Nat : k * s <= i /\ i < k * s + s
<1>. DEFINE Within(j, k) == k * s <= j /\ j < k * s + s
            T == {j \in Nat : \E k \in Nat : Within(j, k)}
<1>. HIDE DEF Within
<1>1. 0 \in T
  <2>1. Within(0, 0)
    BY DEF Within
  <2>. QED BY <2>1
<1>2. ASSUME NEW j \in T PROVE j + 1 \in T
  <2>1. PICK k \in Nat : Within(j, k)
    OBVIOUS
  <2>2. k * s \in Nat /\ (k + 1) * s = k * s + s /\ k + 1 \in Nat
    BY ProductsOrder
  <2>3. Within(j + 1, k) \/ Within(j + 1, k + 1)
    <3>. DEFINE ks == k * s
                next == (k + 1) * s
    <3>1. ks \in Nat /\ next = ks + s /\ ks <= j /\ j < ks + s
      BY <2>1, <2>2 DEF Within
    <3>. HIDE DEF ks, next
    <3>2. \/ ks <= j + 1 /\ j + 1 < ks + s
          \/ next <= j + 1 /\ j + 1 < next + s
      BY <3>1
    <3>. QED BY <3>2 DEF Within, ks, next
  <2>. QED BY <2>2, <2>3
<1>3. T = Nat
  <2>. HIDE DEF T
  <2>1. T \in SUBSET Nat
    BY DEF T
  <2>. QED BY <1>1, <1>2, <2>1, Costs!SetInduction
<1>4. \E k \in Nat : Within(i, k)
  BY <1>3
<1>. QED BY <1>4 DEF Within

ChunkStart(s, k) == k * s
ChunkEnd(t, s, k) == IF k * s + s < Len(t) THEN k * s + s ELSE Len(t)

LEMMA ChunkBytes ==
  ASSUME NEW Byte, NEW t \in Seq(Byte), NEW s \in Nat \ {0}, NEW k \in Nat,
         ChunkStart(s, k) < Len(t)
  PROVE  /\ Chunk(t, s, k) \in Seq(Byte)
         /\ Len(Chunk(t, s, k)) = ChunkEnd(t, s, k) - ChunkStart(s, k)
         /\ \A j \in 1..Len(Chunk(t, s, k)) : Chunk(t, s, k)[j] = t[ChunkStart(s, k) + j]
<1>. DEFINE a == ChunkStart(s, k)
            b == ChunkEnd(t, s, k)
<1>1. a \in Nat /\ b \in Nat /\ a < b /\ b <= Len(t) /\ (k + 1) * s = k * s + s
  BY ProductsOrder DEF ChunkStart, ChunkEnd
<1>2. Chunk(t, s, k) = SubSeq(t, a + 1, b)
  BY <1>1 DEF Chunk, Slice, ChunkStart, ChunkEnd
<1>. HIDE DEF a, b
<1>3. /\ SubSeq(t, a + 1, b) \in Seq(Byte) /\ Len(SubSeq(t, a + 1, b)) = b - a
      /\ \A j \in 1..(b - a) : SubSeq(t, a + 1, b)[j] = t[a + j]
  BY <1>1
<1>. QED BY <1>2, <1>3 DEF a, b
-----------------------------------------------------------------------------
\* The patch of a repair for chunk k.
PatchOf(t, s, k) ==
  [index |-> k, bytes |-> IF k * s >= Len(t) THEN <<>> ELSE Chunk(t, s, k)]

\* What it holds: the bytes of t from the start of the chunk to its end.
HoldsChunk(bytes, t, s, k) ==
  /\ DOMAIN bytes = 1..Len(bytes)
  /\ Len(bytes) \in Nat
  /\ ChunkStart(s, k) >= Len(t) => bytes = <<>> /\ Len(bytes) = 0
  /\ ChunkStart(s, k) < Len(t) => ChunkStart(s, k) + Len(bytes) = ChunkEnd(t, s, k)
  /\ \A j \in 1..Len(bytes) : bytes[j] = t[ChunkStart(s, k) + j]

LEMMA PatchBytes ==
  ASSUME NEW Byte, NEW t \in Seq(Byte), NEW s \in Nat \ {0}, NEW k \in Nat
  PROVE  HoldsChunk(PatchOf(t, s, k).bytes, t, s, k)
<1>. DEFINE bytes == PatchOf(t, s, k).bytes
<1>1. ChunkStart(s, k) \in Nat /\ Len(t) \in Nat
  BY ProductsOrder DEF ChunkStart
<1>2. bytes = IF ChunkStart(s, k) >= Len(t) THEN <<>> ELSE Chunk(t, s, k)
  BY DEF PatchOf, ChunkStart
<1>. HIDE DEF bytes
<1>3. ASSUME ChunkStart(s, k) >= Len(t) PROVE HoldsChunk(bytes, t, s, k)
  <2>1. bytes = <<>> /\ ~(ChunkStart(s, k) < Len(t))
    BY <1>1, <1>2, <1>3
  <2>. QED BY <2>1 DEF HoldsChunk
<1>4. ASSUME ChunkStart(s, k) < Len(t) PROVE HoldsChunk(bytes, t, s, k)
  <2>1. bytes = Chunk(t, s, k)
    BY <1>1, <1>2, <1>4
  <2>2. /\ bytes \in Seq(Byte)
        /\ Len(bytes) = ChunkEnd(t, s, k) - ChunkStart(s, k)
        /\ \A j \in 1..Len(bytes) : bytes[j] = t[ChunkStart(s, k) + j]
    BY <1>4, <2>1, ChunkBytes
  <2>3. Len(bytes) \in Nat /\ DOMAIN bytes = 1..Len(bytes)
    BY <2>2
  <2>4. ChunkEnd(t, s, k) \in Nat
    BY <1>1 DEF ChunkEnd, ChunkStart
  <2>. QED BY <1>1, <1>4, <2>2, <2>3, <2>4 DEF HoldsChunk
<1>. QED BY <1>1, <1>3, <1>4 DEF bytes

InChunk(s, k, i) == k * s < i /\ i <= k * s + s

Patched(out, t, s, k) ==
  [i \in 1..Len(t) |-> IF InChunk(s, k, i) THEN t[i] ELSE out[i]]

\* Writing a patch sets the bytes of its chunk.
LEMMA WritePatch ==
  ASSUME NEW Byte, NEW t \in Seq(Byte), NEW s \in Nat \ {0}, NEW k \in Nat,
         NEW out, DOMAIN out = 1..Len(t)
  PROVE  Write(out, Block(ChunkStart(s, k), PatchOf(t, s, k).bytes)) = Patched(out, t, s, k)
<1>. DEFINE a == k * s
            bytes == PatchOf(t, s, k).bytes
            w == Write(out, Block(a, bytes))
<1>1. a \in Nat /\ Len(t) \in Nat
  BY ProductsOrder
<1>2. /\ DOMAIN bytes = 1..Len(bytes)
      /\ Len(bytes) \in Nat
      /\ a >= Len(t) => bytes = <<>> /\ Len(bytes) = 0
      /\ a < Len(t) => a + Len(bytes) = IF a + s < Len(t) THEN a + s ELSE Len(t)
      /\ \A j \in 1..Len(bytes) : bytes[j] = t[a + j]
  <2>1. a = ChunkStart(s, k) /\ ChunkEnd(t, s, k) = IF a + s < Len(t) THEN a + s ELSE Len(t)
    BY DEF ChunkStart, ChunkEnd
  <2>. HIDE DEF a
  <2>2. /\ DOMAIN bytes = 1..Len(bytes)
        /\ Len(bytes) \in Nat
        /\ ChunkStart(s, k) >= Len(t) => bytes = <<>> /\ Len(bytes) = 0
        /\ ChunkStart(s, k) < Len(t) => ChunkStart(s, k) + Len(bytes) = ChunkEnd(t, s, k)
        /\ \A j \in 1..Len(bytes) : bytes[j] = t[ChunkStart(s, k) + j]
    BY PatchBytes DEF HoldsChunk
  <2>. HIDE DEF bytes
  <2>. QED BY <2>1, <2>2
<1>3. w = [i \in 1..Len(t) |-> IF i - a \in DOMAIN bytes THEN bytes[i - a] ELSE out[i]]
  BY DEF Write, Block
<1>. HIDE DEF a, bytes, w
<1>4. ASSUME NEW i \in 1..Len(t)
      PROVE  (IF i - a \in DOMAIN bytes THEN bytes[i - a] ELSE out[i])
               = IF a < i /\ i <= a + s THEN t[i] ELSE out[i]
  <2>1. CASE i - a \in DOMAIN bytes
    <3>1. i - a \in 1..Len(bytes) /\ a < Len(t)
      BY <1>1, <1>2, <2>1
    <3>2. a < i /\ i <= a + s /\ a + (i - a) = i
      BY <1>1, <1>2, <3>1
    <3>3. bytes[i - a] = t[i]
      BY <1>2, <3>1, <3>2
    <3>. QED BY <2>1, <3>2, <3>3
  <2>2. CASE i - a \notin DOMAIN bytes
    <3>1. ~(a < i /\ i <= a + s)
      <4>. SUFFICES ASSUME a < i, i <= a + s PROVE FALSE
        OBVIOUS
      <4>1. a < Len(t)
        BY <1>1
      <4>2. i <= a + Len(bytes)
        BY <1>1, <1>2, <4>1
      <4>. QED BY <1>1, <1>2, <2>2, <4>2
    <3>. QED BY <2>2, <3>1
  <2>. QED BY <2>1, <2>2
<1>5. w = [i \in 1..Len(t) |-> IF a < i /\ i <= a + s THEN t[i] ELSE out[i]]
  BY <1>3, <1>4
<1>. QED BY <1>5 DEF a, w, bytes, ChunkStart, InChunk, Patched

WriteStart(k) == k[1]
WriteStep(k, out, p) == Write(out, Block(p.index * k[2], p.bytes))

Writes == INSTANCE FoldTheorems WITH Start <- WriteStart, Step <- WriteStep

PayloadStart(k) == 0
PayloadStep(k, sum, p) == sum + Len(p.bytes)

Payloads == INSTANCE FoldTheorems WITH Start <- PayloadStart, Step <- PayloadStep

LEMMA PayloadIsFold ==
  ASSUME NEW r
  PROVE  PayloadBytes(r) = Payloads!Fold(0, r.patches)
BY DEF PayloadBytes, Payloads!Fold, PayloadStart, PayloadStep, FoldLeft, Payloads!FoldLeft,
       MapThenFoldSet, Payloads!MapThenFoldSet, Max, Payloads!Max

LEMMA ApplyIsFold ==
  ASSUME NEW base, NEW r,
         \A n \in DOMAIN r.patches :
           \/ r.patches[n].bytes = <<>> /\ r.patches[n].index * r.size >= r.len
           \/ Fits(Resize(base, r.len), Block(r.patches[n].index * r.size, r.patches[n].bytes)),
         NEW out, out = Writes!Fold(<<Resize(base, r.len), r.size>>, r.patches)
  PROVE  ApplyRepair(base, r) = IF out = Invalid \/ ~RepairedHash(out, r) THEN Invalid ELSE out
<1>1. out = FoldLeft(LAMBDA o, p : Write(o, Block(p.index * r.size, p.bytes)),
                     Resize(base, r.len), r.patches)
  BY DEF Writes!Fold, WriteStart, WriteStep, FoldLeft, Writes!FoldLeft,
         MapThenFoldSet, Writes!MapThenFoldSet, Max, Writes!Max
<1>. QED BY <1>1 DEF ApplyRepair

\* Hashes tell the chunks of two states apart.
ChunksTold(a, b, s) ==
  \A k \in Nat : HashOf(Chunk(a, s, k)) = HashOf(Chunk(b, s, k)) => Chunk(a, s, k) = Chunk(b, s, k)

\* What build sends: a patch for every chunk that differs, in order.
Repairs(r, at, differing, receiver, target, s) ==
  /\ Lists(at, differing, Max({ChunkCount(receiver, s), ChunkCount(target, s)}))
  /\ differing \in SUBSET Nat
  /\ \A k \in differing : k < Max({ChunkCount(receiver, s), ChunkCount(target, s)})
  /\ \A k \in Nat \ differing : k < ChunkCount(target, s) =>
       /\ k < ChunkCount(receiver, s)
       /\ HashOf(Chunk(receiver, s, k)) = HashOf(Chunk(target, s, k))
  /\ r = [len |-> Len(target), size |-> s, hash |-> HashOf(target),
          patches |-> [n \in 1..Len(at) |-> PatchOf(target, s, at[n])]]

LEMMA RepairLists ==
  ASSUME NEW Byte, NEW receiver \in Seq(Byte), NEW target \in Seq(Byte), NEW size \in Nat,
         NEW s, s = ChunkSize(size), NEW r, r = BuildRepair(receiver, target, size)
  PROVE  \E at, differing : Repairs(r, at, differing, receiver, target, s)
<1>. DEFINE m == ChunkCount(receiver, s)
            n == ChunkCount(target, s)
            count == Max({m, n})
            differing == DifferingChunks(Manifest(receiver, s), Manifest(target, s))
            at == Ascending(differing, count)
<1>1. s \in Nat \ {0}
  BY DEF ChunkSize
<1>2. m \in Nat /\ n \in Nat
  BY <1>1, ChunkCounts
<1>. HIDE DEF m, n
<1>3. count \in Nat /\ m <= count /\ n <= count
  <2>1. \E x \in {m, n} : \A y \in {m, n} : x >= y
    BY <1>2
  <2>2. count \in {m, n} /\ \A y \in {m, n} : count >= y
    BY <2>1 DEF Max
  <2>. HIDE DEF count
  <2>. QED BY <1>2, <2>2
<1>4. /\ DOMAIN Manifest(receiver, s) = 0..(m - 1)
      /\ DOMAIN Manifest(target, s) = 0..(n - 1)
      /\ \A k \in 0..(m - 1) : Manifest(receiver, s)[k] = HashOf(Chunk(receiver, s, k))
      /\ \A k \in 0..(n - 1) : Manifest(target, s)[k] = HashOf(Chunk(target, s, k))
  BY DEF Manifest, m, n
<1>5. differing \subseteq 0..(m - 1) \cup 0..(n - 1)
  BY <1>4 DEF DifferingChunks
<1>6. \A k \in Nat \ differing : k < n =>
        k < m /\ HashOf(Chunk(receiver, s, k)) = HashOf(Chunk(target, s, k))
  <2>. SUFFICES ASSUME NEW k \in Nat, k \notin differing, k < n
                PROVE  k < m /\ HashOf(Chunk(receiver, s, k)) = HashOf(Chunk(target, s, k))
    OBVIOUS
  <2>1. k \in 0..(n - 1)
    BY <1>2
  <2>2. k \in 0..(m - 1) /\ Manifest(receiver, s)[k] = Manifest(target, s)[k]
    BY <1>4, <2>1 DEF DifferingChunks
  <2>. QED BY <1>2, <1>4, <2>1, <2>2
<1>7. Lists(at, differing, count)
  BY <1>3, AscendingLists
<1>8. r = [len |-> Len(target), size |-> s, hash |-> HashOf(target),
           patches |-> [i \in 1..Len(at) |-> PatchOf(target, s, at[i])]]
  <2>1. DOMAIN at = 1..Len(at)
    BY <1>7 DEF Lists
  <2>2. r = [len |-> Len(target), size |-> s, hash |-> HashOf(target),
             patches |-> [i \in DOMAIN at |-> PatchOf(target, s, at[i])]]
    BY DEF BuildRepair, PatchOf, m, n
  <2>. QED BY <2>1, <2>2
<1>9. differing \in SUBSET Nat /\ \A k \in differing : k < count
  <2>. HIDE DEF differing, count
  <2>. QED BY <1>2, <1>3, <1>5
<1>. HIDE DEF differing, at, count
<1>10. count = Max({ChunkCount(receiver, s), ChunkCount(target, s)})
  BY DEF count, m, n
<1>11. Repairs(r, at, differing, receiver, target, s)
  BY <1>6, <1>7, <1>8, <1>9, <1>10 DEF Repairs, m, n
<1>. QED BY <1>11

\* The patches never hold more bytes than the target.
LEMMA RepairCosts ==
  ASSUME NEW Byte, NEW receiver \in Seq(Byte), NEW target \in Seq(Byte), NEW size \in Nat
  PROVE  /\ PayloadBytes(BuildRepair(receiver, target, size)) \in Nat
         /\ PayloadBytes(BuildRepair(receiver, target, size)) <= Len(target)
<1>. DEFINE s == ChunkSize(size)
            r == BuildRepair(receiver, target, size)
            len == Len(target)
<1>1. s \in Nat \ {0} /\ len \in Nat
  BY DEF ChunkSize
<1>2. PICK at, differing : Repairs(r, at, differing, receiver, target, s)
  BY RepairLists
<1>. DEFINE Sent == {PatchOf(target, s, k) : k \in Nat}
            patches == [n \in 1..Len(at) |-> PatchOf(target, s, at[n])]
<1>3. /\ at \in Seq(Nat) /\ Len(at) \in Nat /\ \A n \in 1..Len(at) : at[n] \in Nat
      /\ \A i, j \in 1..Len(at) : i < j => at[i] < at[j]
  BY <1>2 DEF Repairs, Lists
<1>4. /\ patches \in Seq(Sent) /\ Len(patches) = Len(at)
      /\ \A n \in 1..Len(at) : patches[n] = PatchOf(target, s, at[n])
  BY <1>3
<1>5. /\ r.patches = patches /\ r.size = s /\ r.len = len /\ r.hash = HashOf(target)
  BY <1>2 DEF Repairs
<1>. HIDE DEF s, r, len, patches
<1>6. PayloadBytes(r) \in Nat /\ PayloadBytes(r) <= len
  <2>. DEFINE sum(m) == Payloads!Fold(0, SubSeq(patches, 1, m))
              Within(n, m) == /\ n \in Nat /\ n <= len
                              /\ \A c \in Nat : (\A i \in 1..m : at[i] < c) => n <= ChunkStart(s, c)
              S == {m \in Nat : m <= Len(at) => Within(sum(m), m)}
  <2>. HIDE DEF sum, Within
  <2>1. 0 \in S
    <3>1. SubSeq(patches, 1, 0) = <<>>
      BY <1>4
    <3>2. sum(0) = 0
      BY <3>1, Payloads!FoldEmpty DEF PayloadStart, sum
    <3>3. Within(0, 0)
      BY <1>1, ProductsOrder DEF Within, ChunkStart
    <3>. QED BY <3>2, <3>3
  <2>2. ASSUME NEW m \in S PROVE m + 1 \in S
    <3>. SUFFICES ASSUME m + 1 <= Len(at) PROVE Within(sum(m + 1), m + 1)
      OBVIOUS
    <3>1. m \in Nat /\ m + 1 \in 1..Len(at) /\ Within(sum(m), m) /\ at[m + 1] \in Nat
      BY <1>3
    <3>2. /\ SubSeq(patches, 1, m) \in Seq(Sent) /\ patches[m + 1] \in Sent
          /\ SubSeq(patches, 1, m + 1) = Append(SubSeq(patches, 1, m), patches[m + 1])
      BY <1>4, <3>1, Costs!PrefixGrows
    <3>. HIDE DEF Sent
    <3>. DEFINE c == at[m + 1]
                bytes == PatchOf(target, s, c).bytes
                a == ChunkStart(s, c)
    <3>3. sum(m + 1) = sum(m) + Len(bytes)
      <4>1. sum(m + 1) = PayloadStep(0, sum(m), patches[m + 1])
        <5>1. Payloads!Fold(0, Append(SubSeq(patches, 1, m), patches[m + 1]))
                = PayloadStep(0, Payloads!Fold(0, SubSeq(patches, 1, m)), patches[m + 1])
          BY <3>2, Payloads!FoldAppend
        <5>. QED BY <3>2, <5>1 DEF sum
      <4>2. patches[m + 1] = PatchOf(target, s, c)
        BY <1>4, <3>1
      <4>. QED BY <4>1, <4>2 DEF PayloadStep
    <3>4. /\ Len(bytes) \in Nat
          /\ a >= len => Len(bytes) = 0
          /\ a < len => a + Len(bytes) = ChunkEnd(target, s, c)
      <4>1. c \in Nat
        BY <3>1
      <4>. HIDE DEF c
      <4>2. /\ Len(bytes) \in Nat
            /\ ChunkStart(s, c) >= Len(target) => Len(bytes) = 0
            /\ ChunkStart(s, c) < Len(target) => ChunkStart(s, c) + Len(bytes) = ChunkEnd(target, s, c)
        <5>1. HoldsChunk(bytes, target, s, c)
          BY <1>1, <4>1, PatchBytes
        <5>. QED BY <5>1 DEF HoldsChunk
      <4>. QED BY <4>2 DEF len
    <3>5. /\ a \in Nat
          /\ ChunkEnd(target, s, c) = IF a + s < len THEN a + s ELSE len
      BY <1>1, <3>1, ProductsOrder DEF ChunkStart, ChunkEnd, len
    <3>6. sum(m) \in Nat /\ sum(m) <= len /\ sum(m) <= a
      <4>1. \A i \in 1..m : at[i] < c
        <5>. TAKE i \in 1..m
        <5>1. i \in 1..Len(at) /\ i < m + 1
          BY <1>3, <3>1
        <5>. QED BY <1>3, <3>1, <5>1
      <4>2. c \in Nat
        BY <3>1
      <4>. HIDE DEF c
      <4>. QED BY <3>1, <4>1, <4>2 DEF Within
    <3>7. ASSUME NEW d \in Nat, \A i \in 1..(m + 1) : at[i] < d PROVE a + s <= ChunkStart(s, d)
      <4>1. c < d
        BY <3>1, <3>7
      <4>. QED BY <1>1, <3>1, <4>1, ProductsOrder DEF ChunkStart
    <3>8. \A d \in Nat : ChunkStart(s, d) \in Nat
      BY <1>1, ProductsOrder DEF ChunkStart
    <3>. HIDE DEF c, bytes, a
    <3>9. /\ sum(m + 1) \in Nat /\ sum(m + 1) <= len /\ sum(m + 1) <= a + s
      BY <1>1, <3>3, <3>4, <3>5, <3>6
    <3>10. \A d \in Nat : (\A i \in 1..(m + 1) : at[i] < d) => sum(m + 1) <= ChunkStart(s, d)
      <4>. SUFFICES ASSUME NEW d \in Nat, \A i \in 1..(m + 1) : at[i] < d
                    PROVE  sum(m + 1) <= ChunkStart(s, d)
        OBVIOUS
      <4>1. a + s <= ChunkStart(s, d) /\ ChunkStart(s, d) \in Nat
        BY <3>7, <3>8
      <4>. QED BY <1>1, <3>5, <3>9, <4>1
    <3>. QED BY <3>9, <3>10 DEF Within
  <2>3. S = Nat
    <3>. HIDE DEF S
    <3>1. S \in SUBSET Nat
      BY DEF S
    <3>. QED BY <2>1, <2>2, <3>1, Costs!SetInduction
  <2>4. Within(sum(Len(at)), Len(at))
    BY <1>3, <2>3
  <2>5. sum(Len(at)) = PayloadBytes(r)
    <3>1. SubSeq(patches, 1, Len(at)) = patches
      BY <1>4, SubSeqFull
    <3>. QED BY <1>5, <3>1, PayloadIsFold DEF sum
  <2>. QED BY <2>4, <2>5 DEF Within
<1>. QED BY <1>6 DEF r, len

\* A repair built for a receiver turns its bytes into the target, whatever
\* the lengths and the size of the chunks, and sends no more bytes than the
\* target has.
THEOREM RepairRestoresHolds ==
  ASSUME NEW Byte, NEW receiver \in Seq(Byte), NEW target \in Seq(Byte), NEW size \in Nat,
         ChunksTold(receiver, target, ChunkSize(size))
  PROVE  RepairRestores(receiver, target, size)
<1>. DEFINE s == ChunkSize(size)
            r == BuildRepair(receiver, target, size)
            len == Len(target)
            blank == Resize(receiver, len)
<1>1. s \in Nat \ {0} /\ len \in Nat
  BY DEF ChunkSize
<1>2. PICK at, differing : Repairs(r, at, differing, receiver, target, s)
  BY RepairLists
<1>. DEFINE Sent == {PatchOf(target, s, k) : k \in Nat}
            patches == [n \in 1..Len(at) |-> PatchOf(target, s, at[n])]
<1>3. /\ at \in Seq(Nat) /\ Len(at) \in Nat /\ \A n \in 1..Len(at) : at[n] \in Nat
      /\ \A i, j \in 1..Len(at) : i < j => at[i] < at[j]
  BY <1>2 DEF Repairs, Lists
<1>4. /\ patches \in Seq(Sent) /\ Len(patches) = Len(at)
      /\ \A n \in 1..Len(at) : patches[n] = PatchOf(target, s, at[n])
  BY <1>3
<1>5. /\ r.patches = patches /\ r.size = s /\ r.len = len /\ r.hash = HashOf(target)
  BY <1>2 DEF Repairs
<1>6. DOMAIN blank = 1..len
  BY DEF Resize
<1>. HIDE DEF s, r, len, blank, patches
<1>7. \A i \in 1..len : (\A n \in 1..Len(at) : ~InChunk(s, at[n], i)) => blank[i] = target[i]
  <2>. SUFFICES ASSUME NEW i \in 1..len, \A n \in 1..Len(at) : ~InChunk(s, at[n], i)
                PROVE  blank[i] = target[i]
    OBVIOUS
  <2>1. i - 1 \in Nat /\ s \in Nat \ {0}
    BY <1>1
  <2>2. PICK k \in Nat : k * s <= i - 1 /\ i - 1 < k * s + s
    BY <2>1, ChunkExists
  <2>3. k * s \in Nat
    BY <2>1, ProductsOrder
  <2>4. InChunk(s, k, i) /\ k * s < len
    <3>. DEFINE ks == k * s
    <3>1. ks \in Nat /\ ks <= i - 1 /\ i - 1 < ks + s
      BY <2>2, <2>3
    <3>. HIDE DEF ks
    <3>2. ks < i /\ i <= ks + s /\ ks < len
      BY <1>1, <3>1
    <3>. QED BY <3>2 DEF InChunk, ks
  <2>5. k \notin differing
    <3>. SUFFICES ASSUME k \in differing PROVE FALSE
      OBVIOUS
    <3>1. \E n \in 1..Len(at) : at[n] = k
      BY <1>2 DEF Repairs, Lists
    <3>. QED BY <2>4, <3>1
  <2>6. k < ChunkCount(target, s)
    BY <1>1, <2>4, ChunkCounts DEF len
  <2>7. /\ k < ChunkCount(receiver, s)
        /\ HashOf(Chunk(receiver, s, k)) = HashOf(Chunk(target, s, k))
    BY <1>2, <2>5, <2>6 DEF Repairs
  <2>8. Chunk(receiver, s, k) = Chunk(target, s, k)
    BY <2>7 DEF ChunksTold, s
  <2>9. k * s < Len(receiver)
    BY <1>1, <2>7, ChunkCounts
  <2>. DEFINE ks == ChunkStart(s, k)
              chunk == Chunk(target, s, k)
  <2>10. ks \in Nat /\ ks < len /\ ks < Len(receiver) /\ ks < i /\ i <= ks + s
    BY <2>3, <2>4, <2>9 DEF ChunkStart, InChunk
  <2>11. /\ Len(chunk) = ChunkEnd(target, s, k) - ks
         /\ Len(chunk) = ChunkEnd(receiver, s, k) - ks
         /\ \A j \in 1..Len(chunk) : chunk[j] = target[ks + j] /\ chunk[j] = receiver[ks + j]
    <3>1. /\ Len(Chunk(target, s, k)) = ChunkEnd(target, s, k) - ks
          /\ \A j \in 1..Len(Chunk(target, s, k)) : Chunk(target, s, k)[j] = target[ks + j]
      BY <1>1, <2>10, ChunkBytes DEF len
    <3>2. /\ Len(Chunk(receiver, s, k)) = ChunkEnd(receiver, s, k) - ks
          /\ \A j \in 1..Len(Chunk(receiver, s, k)) : Chunk(receiver, s, k)[j] = receiver[ks + j]
      BY <1>1, <2>10, ChunkBytes
    <3>. HIDE DEF ks
    <3>. QED BY <2>8, <3>1, <3>2
  <2>12. /\ ChunkEnd(target, s, k) = IF ks + s < len THEN ks + s ELSE len
         /\ ChunkEnd(receiver, s, k) = IF ks + s < Len(receiver) THEN ks + s ELSE Len(receiver)
    BY DEF ChunkEnd, ChunkStart, len
  <2>. HIDE DEF ks, chunk
  <2>13. i - ks \in 1..Len(chunk) /\ ks + (i - ks) = i /\ i <= Len(receiver)
    <3>1. Len(receiver) \in Nat
      OBVIOUS
    <3>. QED BY <1>1, <2>10, <2>11, <2>12, <3>1
  <2>14. target[i] = receiver[i]
    BY <2>11, <2>13
  <2>15. blank[i] = receiver[i]
    BY <2>13 DEF blank, Resize
  <2>. QED BY <2>14, <2>15
<1>. DEFINE k == <<blank, s>>
            after(m) == Writes!Fold(k, SubSeq(patches, 1, m))
            Written(out, m) ==
              out = [i \in 1..len |-> IF \E n \in 1..m : InChunk(s, at[n], i)
                                      THEN target[i] ELSE blank[i]]
            T == {m \in Nat : m <= Len(at) => Written(after(m), m)}
<1>. HIDE DEF after, Written
<1>8. 0 \in T
  <2>1. SubSeq(patches, 1, 0) = <<>>
    BY <1>4
  <2>2. after(0) = blank
    <3>1. Writes!Fold(k, <<>>) = WriteStart(k)
      BY Writes!FoldEmpty
    <3>. QED BY <2>1, <3>1 DEF WriteStart, after
  <2>3. blank = [i \in 1..len |-> blank[i]]
    BY DEF blank, Resize
  <2>4. Written(blank, 0)
    BY <2>3 DEF Written
  <2>. QED BY <2>2, <2>4
<1>9. ASSUME NEW m \in T PROVE m + 1 \in T
  <2>. SUFFICES ASSUME m + 1 <= Len(at) PROVE Written(after(m + 1), m + 1)
    OBVIOUS
  <2>1. m \in Nat /\ m + 1 \in 1..Len(at) /\ Written(after(m), m) /\ at[m + 1] \in Nat
    BY <1>3
  <2>2. /\ SubSeq(patches, 1, m) \in Seq(Sent) /\ patches[m + 1] \in Sent
        /\ SubSeq(patches, 1, m + 1) = Append(SubSeq(patches, 1, m), patches[m + 1])
    BY <1>4, <2>1, Costs!PrefixGrows
  <2>. HIDE DEF Sent
  <2>3. after(m + 1) = WriteStep(k, after(m), patches[m + 1])
    <3>1. Writes!Fold(k, Append(SubSeq(patches, 1, m), patches[m + 1]))
            = WriteStep(k, Writes!Fold(k, SubSeq(patches, 1, m)), patches[m + 1])
      BY <2>2, Writes!FoldAppend
    <3>. QED BY <2>2, <3>1 DEF after
  <2>4. patches[m + 1] = PatchOf(target, s, at[m + 1])
    BY <1>4, <2>1
  <2>. DEFINE c == at[m + 1]
              out == after(m)
  <2>5. after(m + 1) = Write(out, Block(ChunkStart(s, c), PatchOf(target, s, c).bytes))
    <3>1. PatchOf(target, s, c).index = c
      BY DEF PatchOf
    <3>. QED BY <2>3, <2>4, <3>1 DEF WriteStep, ChunkStart
  <2>6. out = [i \in 1..len |-> IF \E n \in 1..m : InChunk(s, at[n], i)
                                THEN target[i] ELSE blank[i]]
    BY <2>1 DEF Written
  <2>7. c \in Nat /\ DOMAIN out = 1..len
    BY <2>1, <2>6
  <2>. HIDE DEF out
  <2>8. Write(out, Block(ChunkStart(s, c), PatchOf(target, s, c).bytes)) =
          [i \in 1..len |-> IF InChunk(s, c, i) THEN target[i] ELSE out[i]]
    <3>1. DOMAIN out = 1..Len(target)
      BY <2>7 DEF len
    <3>. HIDE DEF c
    <3>2. Write(out, Block(ChunkStart(s, c), PatchOf(target, s, c).bytes)) = Patched(out, target, s, c)
      BY <1>1, <2>7, <3>1, WritePatch
    <3>. QED BY <3>2 DEF Patched, len
  <2>9. after(m + 1) = [i \in 1..len |-> IF InChunk(s, c, i) THEN target[i] ELSE out[i]]
    BY <2>5, <2>8
  <2>10. \A i : (\E n \in 1..(m + 1) : InChunk(s, at[n], i))
                  <=> InChunk(s, c, i) \/ \E n \in 1..m : InChunk(s, at[n], i)
    <3>1. \A n : n \in 1..(m + 1) <=> n \in 1..m \/ n = m + 1
      BY <2>1
    <3>. QED BY <3>1
  <2>11. \A i \in 1..len : (IF InChunk(s, c, i) THEN target[i] ELSE out[i])
                             = IF \E n \in 1..(m + 1) : InChunk(s, at[n], i)
                               THEN target[i] ELSE blank[i]
    BY <2>6, <2>10
  <2>. QED BY <2>9, <2>11 DEF Written
<1>10. T = Nat
  <2>. HIDE DEF T
  <2>1. T \in SUBSET Nat
    BY DEF T
  <2>. QED BY <1>8, <1>9, <2>1, Costs!SetInduction
<1>11. Written(after(Len(at)), Len(at))
  BY <1>3, <1>10
<1>12. after(Len(at)) = target
  <2>1. after(Len(at)) = [i \in 1..len |-> target[i]]
    BY <1>7, <1>11 DEF Written
  <2>2. target = [i \in 1..len |-> target[i]]
    BY DEF len
  <2>. QED BY <2>1, <2>2
<1>13. after(Len(at)) = Writes!Fold(<<Resize(receiver, r.len), r.size>>, r.patches)
  <2>1. SubSeq(patches, 1, Len(at)) = patches
    BY <1>4, SubSeqFull
  <2>. QED BY <1>5, <2>1 DEF after, blank
<1>14. \A n \in DOMAIN r.patches :
         \/ r.patches[n].bytes = <<>> /\ r.patches[n].index * r.size >= r.len
         \/ Fits(Resize(receiver, r.len), Block(r.patches[n].index * r.size, r.patches[n].bytes))
  <2>. SUFFICES ASSUME NEW n \in DOMAIN r.patches
                PROVE  \/ r.patches[n].bytes = <<>> /\ r.patches[n].index * r.size >= r.len
                       \/ Fits(blank, Block(r.patches[n].index * r.size, r.patches[n].bytes))
    BY <1>5 DEF blank
  <2>. DEFINE c == at[n]
              bytes == PatchOf(target, s, c).bytes
  <2>1. n \in 1..Len(at) /\ c \in Nat
    BY <1>3, <1>4, <1>5
  <2>2. r.patches[n].bytes = bytes /\ r.patches[n].index * r.size = ChunkStart(s, c)
    <3>1. r.patches[n] = PatchOf(target, s, c)
      BY <1>4, <1>5, <2>1
    <3>2. PatchOf(target, s, c).index = c
      BY DEF PatchOf
    <3>. HIDE DEF c
    <3>. QED BY <1>5, <3>1, <3>2 DEF ChunkStart
  <2>3. /\ Len(bytes) \in Nat
        /\ ChunkStart(s, c) >= len => bytes = <<>> /\ Len(bytes) = 0
        /\ ChunkStart(s, c) < len => ChunkStart(s, c) + Len(bytes) = ChunkEnd(target, s, c)
    <3>. HIDE DEF c
    <3>1. HoldsChunk(bytes, target, s, c)
      BY <1>1, <2>1, PatchBytes
    <3>. QED BY <3>1 DEF HoldsChunk, len
  <2>4. ChunkStart(s, c) \in Nat /\ (ChunkStart(s, c) < len => ChunkEnd(target, s, c) <= len)
    BY <1>1, <2>1, ProductsOrder DEF ChunkStart, ChunkEnd, len
  <2>5. Len(blank) = len
    BY <1>1, <1>6
  <2>. HIDE DEF bytes, c
  <2>. QED BY <1>1, <1>5, <2>2, <2>3, <2>4, <2>5 DEF Fits, Block
<1>15. ApplyRepair(receiver, r) = target
  <2>1. ApplyRepair(receiver, r) =
          IF target = Invalid \/ ~RepairedHash(target, r) THEN Invalid ELSE target
    BY <1>12, <1>13, <1>14, ApplyIsFold
  <2>. QED BY <1>5, <2>1 DEF RepairedHash
<1>. QED BY <1>15, RepairCosts DEF RepairRestores, r
-----------------------------------------------------------------------------
(***************************************************************************)
(* The families of byte deltas.                                            *)
(***************************************************************************)
IsGreatest(m, S) == m \in S /\ \A x \in S : x <= m

\* Every set of numbers up to a bound has a greatest.
LEMMA GreatestOfRange ==
  ASSUME NEW n \in Nat, NEW S \in SUBSET (0..n), NEW w \in S
  PROVE  IsGreatest(Max(S), S)
<1>. DEFINE U == {m \in Nat : \A x \in S : x <= m}
<1>1. U \in SUBSET Nat /\ n \in U
  OBVIOUS
<1>2. PICK l \in U : \A m \in U : l <= m
  BY <1>1, Costs!LeastExists
<1>3. l \in S
  <2>. SUFFICES ASSUME l \notin S PROVE FALSE
    OBVIOUS
  <2>1. PICK x : x \in S
    OBVIOUS
  <2>2. \A y \in S : y \in Nat /\ y <= l /\ y # l
    BY <1>2
  <2>3. l - 1 \in U
    BY <1>2, <2>1, <2>2
  <2>. QED BY <1>2, <2>3
<1>4. \E x \in S : \A y \in S : x >= y
  BY <1>2, <1>3
<1>5. Max(S) \in S /\ \A y \in S : Max(S) >= y
  BY <1>4 DEF Max
<1>. QED BY <1>5 DEF IsGreatest

\* A block that holds the bytes of t at its place.
Holds(t, block) ==
  /\ block.start \in Nat /\ Len(block.bytes) \in Nat
  /\ DOMAIN block.bytes = 1..Len(block.bytes)
  /\ block.start + Len(block.bytes) <= Len(t)
  /\ \A j \in 1..Len(block.bytes) : block.bytes[j] = t[block.start + j]

Covers(block, i) == block.start < i /\ i <= block.start + Len(block.bytes)

LEMMA WriteHeld ==
  ASSUME NEW Byte, NEW t \in Seq(Byte), NEW out, DOMAIN out = 1..Len(t),
         NEW block, Holds(t, block)
  PROVE  Write(out, block) = [i \in 1..Len(t) |-> IF Covers(block, i) THEN t[i] ELSE out[i]]
<1>. DEFINE a == block.start
            bytes == block.bytes
            len == Len(t)
            w == Write(out, block)
<1>1. w = [i \in 1..len |-> IF i - a \in DOMAIN bytes THEN bytes[i - a] ELSE out[i]]
  BY DEF Write
<1>2. /\ a \in Nat /\ Len(bytes) \in Nat /\ DOMAIN bytes = 1..Len(bytes)
      /\ \A j \in 1..Len(bytes) : bytes[j] = t[a + j]
  BY DEF Holds
<1>3. \A i : Covers(block, i) <=> a < i /\ i <= a + Len(bytes)
  BY DEF Covers
<1>. HIDE DEF a, bytes, w
<1>4. ASSUME NEW i \in 1..len
      PROVE  (IF i - a \in DOMAIN bytes THEN bytes[i - a] ELSE out[i])
               = IF Covers(block, i) THEN t[i] ELSE out[i]
  <2>1. i - a \in DOMAIN bytes <=> Covers(block, i)
    BY <1>2, <1>3
  <2>2. ASSUME i - a \in DOMAIN bytes PROVE bytes[i - a] = t[i]
    <3>1. a + (i - a) = i
      BY <1>2
    <3>. QED BY <1>2, <2>2, <3>1
  <2>. QED BY <2>1, <2>2
<1>. QED BY <1>1, <1>4 DEF w

BlockStart(k) == k
BlockStep(k, out, block) == Write(out, block)

Blocks == INSTANCE FoldTheorems WITH Start <- BlockStart, Step <- BlockStep

LEMMA WriteAllIsFold ==
  ASSUME NEW out, NEW blocks, \A n \in DOMAIN blocks : Fits(out, blocks[n])
  PROVE  WriteAll(out, blocks) = Blocks!Fold(out, blocks)
BY DEF WriteAll, Blocks!Fold, BlockStart, BlockStep, FoldLeft, Blocks!FoldLeft,
       MapThenFoldSet, Blocks!MapThenFoldSet, Max, Blocks!Max

\* Blocks of t that cover every place where out differs make out t.
LEMMA WritingRestores ==
  ASSUME NEW Byte, NEW t \in Seq(Byte), NEW out, out = [i \in 1..Len(t) |-> out[i]],
         NEW B, NEW blocks \in Seq(B), \A n \in 1..Len(blocks) : Holds(t, blocks[n]),
         \A i \in 1..Len(t) : out[i] = t[i] \/ \E n \in 1..Len(blocks) : Covers(blocks[n], i)
  PROVE  WriteAll(out, blocks) = t
<1>. DEFINE count == Len(blocks)
            len == Len(t)
            Written(o, m) == o = [i \in 1..len |-> IF \E n \in 1..m : Covers(blocks[n], i)
                                                   THEN t[i] ELSE out[i]]
            after(m) == Blocks!Fold(out, SubSeq(blocks, 1, m))
            T == {m \in Nat : m <= count => Written(after(m), m)}
<1>1. count \in Nat /\ len \in Nat /\ DOMAIN blocks = 1..count /\ Len(out) = len
  OBVIOUS
<1>2. \A n \in DOMAIN blocks : Fits(out, blocks[n])
  <2>. SUFFICES ASSUME NEW n \in 1..count PROVE Fits(out, blocks[n])
    BY <1>1
  <2>. QED BY <1>1 DEF Holds, Fits
<1>. HIDE DEF after, Written
<1>3. 0 \in T
  <2>1. SubSeq(blocks, 1, 0) = <<>>
    OBVIOUS
  <2>2. after(0) = out
    <3>1. Blocks!Fold(out, <<>>) = BlockStart(out)
      BY Blocks!FoldEmpty
    <3>. QED BY <2>1, <3>1 DEF BlockStart, after
  <2>3. Written(out, 0)
    <3>1. \A i \in 1..len : out[i] = IF \E n \in 1..0 : Covers(blocks[n], i) THEN t[i] ELSE out[i]
      OBVIOUS
    <3>. QED BY <3>1 DEF Written
  <2>. QED BY <2>2, <2>3
<1>4. ASSUME NEW m \in T PROVE m + 1 \in T
  <2>. SUFFICES ASSUME m + 1 <= count PROVE Written(after(m + 1), m + 1)
    OBVIOUS
  <2>1. m \in Nat /\ m + 1 \in 1..count /\ Written(after(m), m)
    BY <1>1
  <2>2. /\ SubSeq(blocks, 1, m) \in Seq(B) /\ blocks[m + 1] \in B
        /\ SubSeq(blocks, 1, m + 1) = Append(SubSeq(blocks, 1, m), blocks[m + 1])
    BY <2>1, Costs!PrefixGrows
  <2>3. after(m + 1) = BlockStep(out, after(m), blocks[m + 1])
    <3>1. \A s \in Seq(B), e \in B :
            Blocks!Fold(out, Append(s, e)) = BlockStep(out, Blocks!Fold(out, s), e)
      BY Blocks!FoldAppend
    <3>2. after(m + 1) = Blocks!Fold(out, Append(SubSeq(blocks, 1, m), blocks[m + 1]))
      BY <2>2 DEF after
    <3>3. after(m) = Blocks!Fold(out, SubSeq(blocks, 1, m))
      BY DEF after
    <3>. QED BY <2>2, <3>1, <3>2, <3>3
  <2>. DEFINE o == after(m)
              b == blocks[m + 1]
  <2>4. o = [i \in 1..len |-> IF \E n \in 1..m : Covers(blocks[n], i) THEN t[i] ELSE out[i]]
    BY <2>1 DEF Written
  <2>5. DOMAIN o = 1..Len(t) /\ Holds(t, b)
    BY <2>1, <2>4
  <2>. HIDE DEF o
  <2>6. Write(o, b) = [i \in 1..len |-> IF Covers(b, i) THEN t[i] ELSE o[i]]
    <3>. HIDE DEF b
    <3>. QED BY <2>5, WriteHeld
  <2>7. \A i : (\E n \in 1..(m + 1) : Covers(blocks[n], i))
                  <=> Covers(b, i) \/ \E n \in 1..m : Covers(blocks[n], i)
    <3>1. \A n : n \in 1..(m + 1) <=> n \in 1..m \/ n = m + 1
      BY <2>1
    <3>. QED BY <3>1
  <2>8. \A i \in 1..len : (IF Covers(b, i) THEN t[i] ELSE o[i])
                            = IF \E n \in 1..(m + 1) : Covers(blocks[n], i) THEN t[i] ELSE out[i]
    BY <2>4, <2>7
  <2>9. after(m + 1) = Write(o, b)
    BY <2>3 DEF BlockStep, o
  <2>. QED BY <2>6, <2>8, <2>9 DEF Written
<1>5. T = Nat
  <2>. HIDE DEF T
  <2>1. T \in SUBSET Nat
    BY DEF T
  <2>. QED BY <1>3, <1>4, <2>1, Costs!SetInduction
<1>6. Written(after(count), count) /\ SubSeq(blocks, 1, count) = blocks
  BY <1>1, <1>5, SubSeqFull
<1>7. after(count) = [i \in 1..len |-> t[i]]
  BY <1>6 DEF Written
<1>8. t = [i \in 1..len |-> t[i]]
  OBVIOUS
<1>. QED BY <1>2, <1>6, <1>7, <1>8, WriteAllIsFold DEF after

SumStart(k) == 0
SumStep(k, sum, x) == sum + x

Added == INSTANCE FoldTheorems WITH Start <- SumStart, Step <- SumStep

RunsStart(k) == 0
RunsStep(k, sum, run) == sum + Len(run)

Runs == INSTANCE FoldTheorems WITH Start <- RunsStart, Step <- RunsStep

LEMMA SumIsFold ==
  ASSUME NEW s
  PROVE  FoldLeft(+, 0, s) = Added!Fold(0, s)
BY DEF Added!Fold, SumStart, SumStep, FoldLeft, Added!FoldLeft,
       MapThenFoldSet, Added!MapThenFoldSet, Max, Added!Max

LEMMA RunsIsFold ==
  ASSUME NEW s
  PROVE  FoldLeft(LAMBDA sum, run : sum + Len(run), 0, s) = Runs!Fold(0, s)
BY DEF Runs!Fold, RunsStart, RunsStep, FoldLeft, Runs!FoldLeft,
       MapThenFoldSet, Runs!MapThenFoldSet, Max, Runs!Max

\* The sum of a prefix, number by number.
LEMMA SumSteps ==
  ASSUME NEW s \in Seq(Int)
  PROVE  /\ FoldLeft(+, 0, SubSeq(s, 1, 0)) = 0
         /\ \A n \in Nat : n + 1 <= Len(s) =>
              FoldLeft(+, 0, SubSeq(s, 1, n + 1)) = FoldLeft(+, 0, SubSeq(s, 1, n)) + s[n + 1]
<1>1. FoldLeft(+, 0, SubSeq(s, 1, 0)) = 0
  <2>1. SubSeq(s, 1, 0) = <<>>
    OBVIOUS
  <2>2. Added!Fold(0, <<>>) = 0
    BY Added!FoldEmpty DEF SumStart
  <2>. QED BY <2>1, <2>2, SumIsFold
<1>2. ASSUME NEW n \in Nat, n + 1 <= Len(s)
      PROVE  FoldLeft(+, 0, SubSeq(s, 1, n + 1)) = FoldLeft(+, 0, SubSeq(s, 1, n)) + s[n + 1]
  <2>1. /\ SubSeq(s, 1, n) \in Seq(Int) /\ s[n + 1] \in Int
        /\ SubSeq(s, 1, n + 1) = Append(SubSeq(s, 1, n), s[n + 1])
    BY <1>2, Costs!PrefixGrows
  <2>2. Added!Fold(0, Append(SubSeq(s, 1, n), s[n + 1]))
          = SumStep(0, Added!Fold(0, SubSeq(s, 1, n)), s[n + 1])
    BY <2>1, Added!FoldAppend
  <2>3. /\ FoldLeft(+, 0, SubSeq(s, 1, n + 1)) = Added!Fold(0, Append(SubSeq(s, 1, n), s[n + 1]))
        /\ FoldLeft(+, 0, SubSeq(s, 1, n)) = Added!Fold(0, SubSeq(s, 1, n))
    BY <2>1, SumIsFold
  <2>. QED BY <2>2, <2>3 DEF SumStep
<1>. QED BY <1>1, <1>2

\* The lengths of the first runs, run by run.
LEMMA RunSteps ==
  ASSUME NEW R, NEW s \in Seq(R)
  PROVE  /\ FoldLeft(LAMBDA sum, run : sum + Len(run), 0, SubSeq(s, 1, 0)) = 0
         /\ \A n \in Nat : n + 1 <= Len(s) =>
              FoldLeft(LAMBDA sum, run : sum + Len(run), 0, SubSeq(s, 1, n + 1))
                = FoldLeft(LAMBDA sum, run : sum + Len(run), 0, SubSeq(s, 1, n)) + Len(s[n + 1])
<1>. DEFINE total(n) == FoldLeft(LAMBDA sum, run : sum + Len(run), 0, SubSeq(s, 1, n))
<1>0. \A n : total(n) = Runs!Fold(0, SubSeq(s, 1, n))
  BY RunsIsFold
<1>. HIDE DEF total
<1>1. total(0) = 0
  <2>1. SubSeq(s, 1, 0) = <<>>
    OBVIOUS
  <2>2. Runs!Fold(0, <<>>) = 0
    BY Runs!FoldEmpty DEF RunsStart
  <2>. QED BY <1>0, <2>1, <2>2
<1>2. ASSUME NEW n \in Nat, n + 1 <= Len(s)
      PROVE  total(n + 1) = total(n) + Len(s[n + 1])
  <2>1. /\ SubSeq(s, 1, n) \in Seq(R) /\ s[n + 1] \in R
        /\ SubSeq(s, 1, n + 1) = Append(SubSeq(s, 1, n), s[n + 1])
    BY <1>2, Costs!PrefixGrows
  <2>2. Runs!Fold(0, Append(SubSeq(s, 1, n), s[n + 1]))
          = RunsStep(0, Runs!Fold(0, SubSeq(s, 1, n)), s[n + 1])
    BY <2>1, Runs!FoldAppend
  <2>3. total(n + 1) = Runs!Fold(0, Append(SubSeq(s, 1, n), s[n + 1]))
    BY <1>0, <2>1
  <2>4. total(n) = Runs!Fold(0, SubSeq(s, 1, n))
    BY <1>0
  <2>. QED BY <2>2, <2>3, <2>4 DEF RunsStep
<1>. QED BY <1>1, <1>2 DEF total

\* Positions written as distances are read back.
LEMMA SumsUndoGaps ==
  ASSUME NEW at \in Seq(Nat)
  PROVE  Sums(Gaps(at)) = at
<1>. DEFINE gaps == Gaps(at)
            sum(n) == FoldLeft(+, 0, SubSeq(gaps, 1, n))
            T == {n \in Nat : n <= Len(at) => sum(n) = IF n = 0 THEN 0 ELSE at[n]}
<1>1. /\ gaps \in Seq(Int) /\ Len(gaps) = Len(at) /\ Len(at) \in Nat /\ DOMAIN gaps = 1..Len(at)
      /\ \A n \in 1..Len(at) : gaps[n] = IF n = 1 THEN at[1] ELSE at[n] - at[n - 1]
  BY DEF Gaps
<1>. HIDE DEF gaps
<1>2. /\ sum(0) = 0
      /\ \A n \in Nat : n + 1 <= Len(at) => sum(n + 1) = sum(n) + gaps[n + 1]
  BY <1>1, SumSteps
<1>3. Sums(gaps) = [n \in 1..Len(at) |-> sum(n)]
  BY <1>1 DEF Sums
<1>. HIDE DEF sum
<1>4. 0 \in T
  BY <1>2
<1>5. ASSUME NEW n \in T PROVE n + 1 \in T
  <2>. SUFFICES ASSUME n + 1 <= Len(at) PROVE sum(n + 1) = at[n + 1]
    OBVIOUS
  <2>1. n \in Nat /\ sum(n) = (IF n = 0 THEN 0 ELSE at[n]) /\ n + 1 \in 1..Len(at)
    BY <1>1
  <2>2. sum(n + 1) = sum(n) + gaps[n + 1] /\ at[n + 1] \in Nat
    BY <1>2, <2>1
  <2>3. CASE n = 0
    BY <1>1, <2>1, <2>2, <2>3
  <2>4. CASE n # 0
    <3>1. n \in 1..Len(at) /\ (n + 1) - 1 = n /\ n + 1 # 1
      BY <1>1, <2>1, <2>4
    <3>2. gaps[n + 1] = at[n + 1] - at[(n + 1) - 1]
      BY <1>1, <2>1, <3>1
    <3>3. at[n] \in Nat /\ gaps[n + 1] = at[n + 1] - at[n]
      BY <3>1, <3>2
    <3>. QED BY <2>1, <2>2, <2>4, <3>3
  <2>. QED BY <2>3, <2>4
<1>6. T = Nat
  <2>. HIDE DEF T
  <2>1. T \in SUBSET Nat
    BY DEF T
  <2>. QED BY <1>4, <1>5, <2>1, Costs!SetInduction
<1>7. \A n \in 1..Len(at) : sum(n) = at[n]
  BY <1>1, <1>6
<1>8. Sums(gaps) = [n \in 1..Len(at) |-> at[n]]
  BY <1>3, <1>7
<1>. QED BY <1>8 DEF gaps
-----------------------------------------------------------------------------
LEMMA SparseRestores ==
  ASSUME NEW Byte, NEW old \in Seq(Byte), NEW new \in Seq(Byte), Len(old) = Len(new)
  PROVE  ApplySparse(old, EncodeSparse(old, new)) = new
<1>. DEFINE changed == Changed(old, new)
            at == Ascending(changed, Len(new))
            d == EncodeSparse(old, new)
            blocks == [n \in 1..Len(at) |-> Block(at[n], <<new[at[n] + 1]>>)]
<1>1. Lists(at, changed, Len(new)) /\ Len(new) \in Nat
  BY AscendingLists
<1>2. at \in Seq(Nat) /\ Len(at) \in Nat /\ DOMAIN at = 1..Len(at)
  BY <1>1 DEF Lists
<1>3. /\ d.len = Len(new) /\ d.gaps = Gaps(at)
      /\ d.bytes = [n \in DOMAIN at |-> new[at[n] + 1]]
  BY DEF EncodeSparse
<1>. HIDE DEF d, at
<1>4. Sums(d.gaps) = at
  BY <1>2, <1>3, SumsUndoGaps
<1>5. ApplySparse(old, d) = WriteAll(old, [n \in DOMAIN at |-> Block(at[n], <<d.bytes[n]>>)])
  BY <1>3, <1>4 DEF ApplySparse
<1>6. [n \in DOMAIN at |-> Block(at[n], <<d.bytes[n]>>)] = blocks
  BY <1>2, <1>3
<1>7. ASSUME NEW n \in 1..Len(at)
      PROVE  /\ blocks[n].start = at[n] /\ blocks[n].bytes = <<new[at[n] + 1]>>
             /\ at[n] \in Nat /\ at[n] < Len(new)
  BY <1>1, <1>2 DEF Lists, Block
<1>. DEFINE B == {Block(a, <<new[a + 1]>>) : a \in Nat}
<1>8. blocks \in Seq(B) /\ Len(blocks) = Len(at)
  <2>1. \A n \in 1..Len(at) : Block(at[n], <<new[at[n] + 1]>>) \in B
    BY <1>2
  <2>. HIDE DEF B
  <2>. QED BY <1>2, <2>1
<1>. HIDE DEF blocks, B
<1>9. \A n \in 1..Len(blocks) : Holds(new, blocks[n])
  <2>. SUFFICES ASSUME NEW n \in 1..Len(at) PROVE Holds(new, blocks[n])
    BY <1>8
  <2>. DEFINE bytes == blocks[n].bytes
              byte == new[at[n] + 1]
  <2>1. bytes = <<byte>>
    BY <1>7
  <2>. HIDE DEF byte
  <2>2. Len(bytes) = 1 /\ DOMAIN bytes = 1..1 /\ bytes[1] = byte
    BY <2>1
  <2>. HIDE DEF bytes
  <2>3. \A j \in 1..Len(bytes) : j = 1
    BY <2>2
  <2>. QED BY <1>1, <1>7, <2>2, <2>3 DEF Holds, bytes, byte
<1>10. \A i \in 1..Len(new) : old[i] = new[i] \/ \E n \in 1..Len(blocks) : Covers(blocks[n], i)
  <2>. SUFFICES ASSUME NEW i \in 1..Len(new), old[i] # new[i]
                PROVE  \E n \in 1..Len(blocks) : Covers(blocks[n], i)
    OBVIOUS
  <2>1. i - 1 \in changed /\ i - 1 \in Nat /\ i - 1 < Len(new)
    <3>1. (i - 1) + 1 = i /\ i - 1 \in 0..(Len(new) - 1)
      BY <1>1
    <3>. QED BY <3>1 DEF Changed
  <2>2. PICK n \in 1..Len(at) : at[n] = i - 1
    BY <1>1, <2>1 DEF Lists
  <2>3. Len(blocks[n].bytes) = 1 /\ blocks[n].start = i - 1
    <3>1. \A byte : Len(<<byte>>) = 1
      OBVIOUS
    <3>2. blocks[n].bytes = <<new[at[n] + 1]>> /\ blocks[n].start = i - 1
      BY <1>7, <2>2
    <3>. QED BY <3>1, <3>2
  <2>4. Covers(blocks[n], i)
    BY <2>3 DEF Covers
  <2>. QED BY <1>8, <2>4
<1>11. old = [i \in 1..Len(new) |-> old[i]]
  OBVIOUS
<1>12. WriteAll(old, blocks) = new
  BY <1>8, <1>9, <1>10, <1>11, WritingRestores
<1>. QED BY <1>5, <1>6, <1>12 DEF d

\* Xor is its own inverse.
XorUndoesItself(Byte) == \A a, b \in Byte : Xor(a, Xor(a, b)) = b

LEMMA XorRestores ==
  ASSUME NEW Byte, XorUndoesItself(Byte),
         NEW old \in Seq(Byte), NEW new \in Seq(Byte), Len(old) = Len(new)
  PROVE  ApplyXor(old, EncodeXor(old, new)) = new
<1>. DEFINE bytes == [i \in 1..Len(new) |-> Xor(old[i], new[i])]
<1>1. EncodeXor(old, new).bytes = bytes
  BY DEF EncodeXor
<1>2. Len(bytes) = Len(new) /\ DOMAIN bytes = 1..Len(new)
  OBVIOUS
<1>3. \A i \in 1..Len(new) : bytes[i] = Xor(old[i], new[i]) /\ old[i] \in Byte /\ new[i] \in Byte
  OBVIOUS
<1>. HIDE DEF bytes
<1>4. ApplyXor(old, EncodeXor(old, new)) = [i \in 1..Len(new) |-> Xor(old[i], bytes[i])]
  BY <1>1, <1>2 DEF ApplyXor
<1>5. \A i \in 1..Len(new) : Xor(old[i], bytes[i]) = new[i]
  BY <1>3 DEF XorUndoesItself
<1>6. new = [i \in 1..Len(new) |-> new[i]]
  OBVIOUS
<1>. QED BY <1>4, <1>5, <1>6
-----------------------------------------------------------------------------
\* What a splice yields, and its bytes place by place.
Spliced(old, new, p, s) ==
  SubSeq(old, 1, p) \o Slice(new, p, Len(new) - s) \o SubSeq(old, Len(old) - s + 1, Len(old))

\* ab is a followed by b.
Joins(ab, a, b) ==
  /\ Len(ab) = Len(a) + Len(b)
  /\ \A i \in 1..Len(a) + Len(b) : ab[i] = IF i <= Len(a) THEN a[i] ELSE b[i - Len(a)]

LEMMA Joining ==
  ASSUME NEW S, NEW a \in Seq(S), NEW b \in Seq(S)
  PROVE  a \o b \in Seq(S) /\ Joins(a \o b, a, b)
BY ConcatProperties, Zenon DEF Joins

\* The places of x come from old, new and old again.
TakesParts(x, old, new, p, s) ==
  /\ Len(x) = Len(new)
  /\ Len(Slice(new, p, Len(new) - s)) = Len(new) - s - p
  /\ \A i \in 1..p : x[i] = old[i]
  /\ \A i \in (p + 1)..(Len(new) - s) : x[i] = new[i]
  /\ \A i \in 0..(s - 1) : x[Len(new) - i] = old[Len(old) - i]

LEMMA ThreeParts ==
  ASSUME NEW Byte, NEW old \in Seq(Byte), NEW new \in Seq(Byte), NEW p \in Nat, NEW s \in Nat,
         p + s <= Len(old), p + s <= Len(new), NEW x, x = Spliced(old, new, p, s)
  PROVE  x \in Seq(Byte) /\ TakesParts(x, old, new, p, s)
<1>. DEFINE m == Len(old)
            n == Len(new)
            a == SubSeq(old, 1, p)
            b == SubSeq(new, p + 1, n - s)
            c == SubSeq(old, m - s + 1, m)
            ab == a \o b
            y == ab \o c
<1>1. m \in Nat /\ n \in Nat /\ p + s <= m /\ p + s <= n
  OBVIOUS
<1>2. a \in Seq(Byte) /\ Len(a) = p /\ \A i \in 1..p : a[i] = old[i]
  BY <1>1
<1>3. b \in Seq(Byte) /\ Len(b) = n - s - p /\ \A i \in 1..(n - s - p) : b[i] = new[p + i]
  BY <1>1
<1>4. c \in Seq(Byte) /\ Len(c) = s /\ \A i \in 1..s : c[i] = old[m - s + i]
  BY <1>1
<1>5. x = y
  BY DEF Spliced, Slice
<1>. HIDE DEF m, n, a, b, c, y
<1>6. /\ ab \in Seq(Byte) /\ Len(ab) = n - s
      /\ \A i \in 1..(n - s) : ab[i] = IF i <= p THEN a[i] ELSE b[i - p]
  <2>1. /\ ab \in Seq(Byte) /\ Len(ab) = Len(a) + Len(b)
        /\ \A i \in 1..Len(a) + Len(b) : ab[i] = IF i <= Len(a) THEN a[i] ELSE b[i - Len(a)]
    <3>1. ab \in Seq(Byte) /\ Joins(ab, a, b)
      BY <1>2, <1>3, Joining
    <3>. QED BY <3>1 DEF Joins
  <2>2. Len(a) + Len(b) = n - s
    BY <1>1, <1>2, <1>3
  <2>. HIDE DEF ab
  <2>. QED BY <1>2, <2>1, <2>2
<1>. HIDE DEF ab
<1>7. /\ x \in Seq(Byte) /\ Len(x) = n
      /\ \A i \in 1..n : x[i] = IF i <= n - s THEN ab[i] ELSE c[i - (n - s)]
  <2>1. /\ y \in Seq(Byte) /\ Len(y) = Len(ab) + Len(c)
        /\ \A i \in 1..Len(ab) + Len(c) : y[i] = IF i <= Len(ab) THEN ab[i] ELSE c[i - Len(ab)]
    <3>1. y \in Seq(Byte) /\ Joins(y, ab, c)
      BY <1>4, <1>6, Joining DEF y
    <3>. QED BY <3>1 DEF Joins
  <2>2. Len(ab) + Len(c) = n /\ x = y
    BY <1>1, <1>4, <1>5, <1>6
  <2>. HIDE DEF y
  <2>. QED BY <1>6, <2>1, <2>2
<1>8. \A i \in 1..p : x[i] = old[i]
  <2>. SUFFICES ASSUME NEW i \in 1..p PROVE x[i] = old[i]
    OBVIOUS
  <2>1. i \in 1..n /\ i \in 1..(n - s) /\ i <= p /\ i <= n - s
    BY <1>1
  <2>. QED BY <1>2, <1>6, <1>7, <2>1
<1>9. \A i \in (p + 1)..(n - s) : x[i] = new[i]
  <2>. SUFFICES ASSUME NEW i \in (p + 1)..(n - s) PROVE x[i] = new[i]
    OBVIOUS
  <2>1. /\ i \in 1..n /\ i \in 1..(n - s) /\ ~(i <= p) /\ i <= n - s
        /\ i - p \in 1..(n - s - p) /\ p + (i - p) = i
    BY <1>1
  <2>2. x[i] = b[i - p]
    BY <1>6, <1>7, <2>1
  <2>. QED BY <1>3, <2>1, <2>2
<1>10. \A i \in 0..(s - 1) : x[n - i] = old[m - i]
  <2>. SUFFICES ASSUME NEW i \in 0..(s - 1) PROVE x[n - i] = old[m - i]
    OBVIOUS
  <2>1. /\ n - i \in 1..n /\ ~(n - i <= n - s) /\ s - i \in 1..s
        /\ (n - i) - (n - s) = s - i /\ m - s + (s - i) = m - i
    BY <1>1
  <2>2. x[n - i] = c[s - i]
    BY <1>7, <2>1
  <2>. QED BY <1>4, <2>1, <2>2
<1>11. Len(Slice(new, p, n - s)) = n - s - p
  BY <1>3 DEF Slice, b
<1>. QED BY <1>7, <1>8, <1>9, <1>10, <1>11 DEF TakesParts, m, n

\* What encode_splice shares is shared, and nothing longer is.
LEMMA SharedEnds ==
  ASSUME NEW Byte, NEW old \in Seq(Byte), NEW new \in Seq(Byte),
         NEW p, p = SharedPrefix(old, new), NEW s, s = SharedSuffix(old, new)
  PROVE  /\ CommonLen(old, new) \in Nat
         /\ CommonLen(old, new) <= Len(old) /\ CommonLen(old, new) <= Len(new)
         /\ p \in Nat /\ s \in Nat /\ p + s <= CommonLen(old, new)
         /\ \A i \in 1..p : old[i] = new[i]
         /\ SharedAtEnd(old, new, s)
         /\ \A q \in 0..CommonLen(old, new) : (\A i \in 1..q : old[i] = new[i]) => q <= p
         /\ \A q \in 0..(CommonLen(old, new) - p) : SharedAtEnd(old, new, q) => q <= s
<1>. DEFINE c == CommonLen(old, new)
            Heads == {q \in 0..c : \A i \in 1..q : old[i] = new[i]}
            Tails == {q \in 0..(c - p) : SharedAtEnd(old, new, q)}
<1>1. c \in Nat /\ c <= Len(old) /\ c <= Len(new)
  BY DEF CommonLen
<1>2. p = Max(Heads)
  BY DEF SharedPrefix
<1>3. s = Max(Tails)
  BY DEF SharedSuffix
<1>. HIDE DEF c
<1>4. Heads \in SUBSET (0..c) /\ 0 \in Heads
  BY <1>1
<1>5. p \in Heads /\ \A q \in Heads : q <= p
  <2>. HIDE DEF Heads
  <2>. QED BY <1>1, <1>2, <1>4, GreatestOfRange DEF IsGreatest
<1>6. c - p \in Nat /\ p \in 0..c
  BY <1>1, <1>5
<1>7. Tails \in SUBSET (0..(c - p)) /\ 0 \in Tails
  <2>1. SharedAtEnd(old, new, 0)
    BY DEF SharedAtEnd
  <2>. QED BY <1>6, <2>1
<1>8. s \in Tails /\ \A q \in Tails : q <= s
  <2>. HIDE DEF Tails
  <2>. QED BY <1>3, <1>6, <1>7, GreatestOfRange DEF IsGreatest
<1>9. s \in 0..(c - p) /\ SharedAtEnd(old, new, s)
  BY <1>8
<1>10. p + s <= c /\ p \in Nat /\ s \in Nat
  BY <1>1, <1>6, <1>9
<1>. QED BY <1>1, <1>5, <1>8, <1>9, <1>10 DEF c

LEMMA SpliceRestores ==
  ASSUME NEW Byte, NEW old \in Seq(Byte), NEW new \in Seq(Byte)
  PROVE  ApplySplice(old, EncodeSplice(old, new)) = new
<1>. DEFINE p == SharedPrefix(old, new)
            s == SharedSuffix(old, new)
            d == EncodeSplice(old, new)
            x == Spliced(old, new, p, s)
<1>1. /\ CommonLen(old, new) \in Nat
      /\ CommonLen(old, new) <= Len(old) /\ CommonLen(old, new) <= Len(new)
      /\ p \in Nat /\ s \in Nat /\ p + s <= CommonLen(old, new)
      /\ \A i \in 1..p : old[i] = new[i]
      /\ SharedAtEnd(old, new, s)
  BY SharedEnds
<1>2. /\ d.len = Len(new) /\ d.prefix = p /\ d.suffix = s
      /\ d.middle = Slice(new, p, Len(new) - s)
  BY DEF EncodeSplice, Splice
<1>. HIDE DEF d, p, s, x
<1>3. p + s <= Len(old) /\ p + s <= Len(new)
  BY <1>1
<1>4. /\ x \in Seq(Byte) /\ Len(x) = Len(new)
      /\ Len(Slice(new, p, Len(new) - s)) = Len(new) - s - p
      /\ \A i \in 1..p : x[i] = old[i]
      /\ \A i \in (p + 1)..(Len(new) - s) : x[i] = new[i]
      /\ \A i \in 0..(s - 1) : x[Len(new) - i] = old[Len(old) - i]
  <2>1. x = Spliced(old, new, p, s)
    BY DEF x
  <2>2. p \in Nat /\ s \in Nat
    BY <1>1
  <2>3. x \in Seq(Byte) /\ TakesParts(x, old, new, p, s)
    BY <1>3, <2>1, <2>2, ThreeParts
  <2>. QED BY <2>3 DEF TakesParts
<1>5. ApplySplice(old, d) = x
  <2>1. p + Len(d.middle) + s = Len(new)
    BY <1>1, <1>2, <1>4
  <2>2. ~(d.prefix + d.suffix > Len(old) \/ d.prefix + Len(d.middle) + d.suffix # d.len)
    BY <1>1, <1>2, <1>3, <2>1
  <2>. QED BY <1>2, <2>2 DEF ApplySplice, Spliced, x
<1>6. \A i \in 1..Len(new) : x[i] = new[i]
  <2>. SUFFICES ASSUME NEW i \in 1..Len(new) PROVE x[i] = new[i]
    OBVIOUS
  <2>1. CASE i \in 1..p
    BY <1>1, <1>4, <2>1
  <2>2. CASE i \in (p + 1)..(Len(new) - s)
    BY <1>4, <2>2
  <2>3. CASE i > Len(new) - s
    <3>. DEFINE k == Len(new) - i
    <3>1. k \in 0..(s - 1) /\ i = Len(new) - k
      BY <1>1, <2>3
    <3>. HIDE DEF k
    <3>2. old[Len(old) - k] = new[Len(new) - k]
      BY <1>1, <3>1 DEF SharedAtEnd
    <3>. QED BY <1>4, <3>1, <3>2
  <2>. QED BY <1>1, <1>3, <2>1, <2>2, <2>3
<1>7. x = new
  BY <1>4, <1>6, SeqEqual
<1>. QED BY <1>5, <1>7 DEF d

\* The greedy prefix, and then the greedy suffix of what is left, leave the
\* shortest middle there is.
LEMMA SpliceWastesNothing ==
  ASSUME NEW Byte, NEW old \in Seq(Byte), NEW new \in Seq(Byte)
  PROVE  SpliceIsShortest(old, new)
<1>. DEFINE c == CommonLen(old, new)
            p == SharedPrefix(old, new)
            s == SharedSuffix(old, new)
<1>1. /\ c \in Nat /\ c <= Len(old) /\ c <= Len(new)
      /\ p \in Nat /\ s \in Nat /\ p + s <= c
      /\ \A q \in 0..c : (\A i \in 1..q : old[i] = new[i]) => q <= p
      /\ \A q \in 0..(c - p) : SharedAtEnd(old, new, q) => q <= s
  BY SharedEnds
<1>2. \A u, v \in Nat : u + v <= Len(new) =>
        Len(Splice(new, u, v).middle) = Len(new) - v - u
  <2>. SUFFICES ASSUME NEW u \in Nat, NEW v \in Nat, u + v <= Len(new)
                PROVE  Len(Slice(new, u, Len(new) - v)) = Len(new) - v - u
    BY DEF Splice
  <2>1. /\ Len(new) \in Nat /\ u + 1 \in Nat /\ Len(new) - v \in Nat
        /\ Slice(new, u, Len(new) - v) = SubSeq(new, u + 1, Len(new) - v)
    BY DEF Slice
  <2>. DEFINE i == u + 1
              j == Len(new) - v
  <2>2. Len(SubSeq(new, i, j)) = IF i <= j THEN j - i + 1 ELSE 0
    <3>1. i \in 1..Len(new) + 1 /\ j \in (i - 1)..Len(new)
      BY <2>1
    <3>. HIDE DEF i, j
    <3>. QED BY <3>1
  <2>. QED BY <2>1, <2>2
<1>3. EncodeSplice(old, new) = Splice(new, p, s)
  BY DEF EncodeSplice
<1>. HIDE DEF c, p, s
<1>4. SUFFICES ASSUME NEW u \in 0..c, NEW v \in 0..c, u + v <= c,
                      ApplySplice(old, Splice(new, u, v)) = new
               PROVE  u + v <= p + s
  <2>1. Len(new) \in Nat
    OBVIOUS
  <2>2. ASSUME NEW u \in 0..c, NEW v \in 0..c, u + v <= c, u + v <= p + s
        PROVE  Len(Splice(new, p, s).middle) <= Len(Splice(new, u, v).middle)
    <3>1. u \in Nat /\ v \in Nat /\ u + v <= Len(new) /\ p + s <= Len(new)
      BY <1>1, <2>1, <2>2
    <3>2. /\ Len(Splice(new, u, v).middle) = Len(new) - v - u
          /\ Len(Splice(new, p, s).middle) = Len(new) - s - p
      BY <1>1, <1>2, <3>1
    <3>. QED BY <1>1, <2>1, <2>2, <3>1, <3>2
  <2>. QED BY <1>3, <1>4, <2>2 DEF SpliceIsShortest, c
<1>. DEFINE x == Spliced(old, new, u, v)
            d == Splice(new, u, v)
<1>5. /\ d.len = Len(new) /\ d.prefix = u /\ d.suffix = v
      /\ d.middle = Slice(new, u, Len(new) - v)
  BY DEF Splice
<1>6. u \in Nat /\ v \in Nat /\ u + v <= Len(old) /\ u + v <= Len(new) /\ Len(old) \in Nat
      /\ Len(new) \in Nat
  BY <1>1, <1>4
<1>7. /\ Len(Slice(new, u, Len(new) - v)) = Len(new) - v - u
      /\ \A i \in 1..u : x[i] = old[i]
      /\ \A i \in 0..(v - 1) : x[Len(new) - i] = old[Len(old) - i]
  <2>1. /\ x \in Seq(Byte) /\ Len(x) = Len(new)
        /\ Len(Slice(new, u, Len(new) - v)) = Len(new) - v - u
        /\ \A i \in 1..u : x[i] = old[i]
        /\ \A i \in (u + 1)..(Len(new) - v) : x[i] = new[i]
        /\ \A i \in 0..(v - 1) : x[Len(new) - i] = old[Len(old) - i]
    <3>1. u \in Nat /\ v \in Nat /\ u + v <= Len(old) /\ u + v <= Len(new)
      BY <1>6
    <3>2. x = Spliced(old, new, u, v)
      OBVIOUS
    <3>. HIDE DEF x
    <3>3. x \in Seq(Byte) /\ TakesParts(x, old, new, u, v)
      BY <3>1, <3>2, ThreeParts
    <3>. QED BY <3>3 DEF TakesParts
  <2>. QED BY <2>1
<1>. HIDE DEF d
<1>8. ApplySplice(old, d) = x
  <2>1. u + Len(d.middle) + v = Len(new)
    BY <1>5, <1>6, <1>7
  <2>2. ~(d.prefix + d.suffix > Len(old) \/ d.prefix + Len(d.middle) + d.suffix # d.len)
    BY <1>5, <1>6, <2>1
  <2>. QED BY <1>5, <2>2 DEF ApplySplice, Spliced
<1>9. x = new
  BY <1>4, <1>8 DEF d
<1>. HIDE DEF x
<1>10. u <= p
  BY <1>1, <1>7, <1>9
<1>11. SharedAtEnd(old, new, v)
  BY <1>7, <1>9 DEF SharedAtEnd
<1>12. CASE v <= c - p
  <2>1. v \in 0..(c - p)
    BY <1>1, <1>6, <1>12
  <2>2. v <= s
    BY <1>1, <1>11, <2>1
  <2>. QED BY <1>1, <1>6, <1>10, <2>2
<1>13. CASE v > c - p
  <2>1. c - p \in 0..(c - p) /\ 0..((c - p) - 1) \subseteq 0..(v - 1)
    BY <1>1, <1>6, <1>13
  <2>2. SharedAtEnd(old, new, c - p)
    BY <1>11, <2>1 DEF SharedAtEnd
  <2>3. c - p <= s
    BY <1>1, <2>1, <2>2
  <2>. QED BY <1>1, <1>4, <1>6, <2>3
<1>. QED BY <1>1, <1>6, <1>12, <1>13
-----------------------------------------------------------------------------
LEMMA SliceAt ==
  ASSUME NEW T, NEW q \in Seq(T), NEW a \in Nat, NEW n \in Nat, a + n <= Len(q), NEW j \in 1..n
  PROVE  SubSeq(q, a + 1, a + n)[j] = q[a + j]
OBVIOUS

\* A chunk and its place.
ChunkBlock(t, s, k) == Block(ChunkStart(s, k), Chunk(t, s, k))

\* Bytes of a kept chunk are the receiver's already.
LEMMA KeptBytes ==
  ASSUME NEW Byte, NEW old \in Seq(Byte), NEW new \in Seq(Byte), NEW s \in Nat \ {0},
         NEW k \in Nat, ChunkStart(s, k) < Len(new), ChunkKept(old, new, s, k),
         NEW i \in 1..Len(new), InChunk(s, k, i)
  PROVE  i <= Len(old) /\ old[i] = new[i]
<1>. DEFINE a == ChunkStart(s, k)
            chunk == Chunk(new, s, k)
            n == Len(chunk)
            m == Len(old)
<1>1. /\ a \in Nat /\ Len(new) \in Nat /\ m \in Nat /\ a < i /\ i <= a + s /\ a < Len(new)
  BY ProductsOrder DEF ChunkStart, InChunk
<1>2. /\ chunk \in Seq(Byte) /\ n = ChunkEnd(new, s, k) - a
      /\ \A j \in 1..n : chunk[j] = new[a + j]
  BY ChunkBytes
<1>3. ChunkEnd(new, s, k) = IF a + s < Len(new) THEN a + s ELSE Len(new)
  BY DEF ChunkEnd, ChunkStart
<1>4. a + n <= m /\ SubSeq(old, a + 1, a + n) = chunk
  BY DEF ChunkKept, Slice, ChunkStart
<1>. HIDE DEF a, chunk, n
<1>5. n \in Nat /\ i - a \in 1..n /\ a + (i - a) = i
  BY <1>1, <1>2, <1>3
<1>. HIDE DEF m
<1>6. \A j \in 1..n : SubSeq(old, a + 1, a + n)[j] = old[a + j]
  <2>1. a \in Nat /\ n \in Nat /\ a + n <= Len(old)
    BY <1>1, <1>4, <1>5 DEF m
  <2>. QED BY <2>1, SliceAt
<1>7. i <= m
  BY <1>1, <1>4, <1>5
<1>8. old[a + (i - a)] = new[a + (i - a)]
  BY <1>2, <1>4, <1>5, <1>6
<1>. QED BY <1>5, <1>7, <1>8 DEF m

LEMMA ChunksRestore ==
  ASSUME NEW Byte, NEW old \in Seq(Byte), NEW new \in Seq(Byte), NEW s \in Nat \ {0}
  PROVE  ApplyChunks(old, EncodeChunks(old, new, s)) = new
<1>. DEFINE count == ChunkCount(new, s)
            sent == {k \in 0..(count - 1) : ~ChunkKept(old, new, s, k)}
            at == Ascending(sent, count)
            d == EncodeChunks(old, new, s)
            blank == Resize(old, Len(new))
            blocks == [n \in 1..Len(at) |-> ChunkBlock(new, s, at[n])]
            B == {ChunkBlock(new, s, k) : k \in Nat}
<1>1. count \in Nat /\ \A k \in Nat : k < count <=> ChunkStart(s, k) < Len(new)
  BY ChunkCounts DEF ChunkStart
<1>2. /\ d.len = Len(new) /\ d.size = s /\ d.gaps = Gaps(at)
      /\ d.chunks = [n \in DOMAIN at |-> Chunk(new, s, at[n])]
  BY DEF EncodeChunks
<1>. HIDE DEF count, d
<1>3. Lists(at, sent, count)
  BY <1>1, AscendingLists
<1>. HIDE DEF at
<1>4. /\ at \in Seq(Nat) /\ Len(at) \in Nat /\ DOMAIN at = 1..Len(at)
      /\ \A n \in 1..Len(at) : at[n] \in Nat /\ at[n] < count
      /\ \A k \in sent : \E n \in 1..Len(at) : at[n] = k
  <2>1. \A k \in sent : k \in Nat /\ k < count
    BY <1>1
  <2>. HIDE DEF sent
  <2>. QED BY <1>3, <2>1 DEF Lists
<1>5. Sums(d.gaps) = at
  BY <1>2, <1>4, SumsUndoGaps
<1>6. ApplyChunks(old, d) =
        WriteAll(blank, [n \in DOMAIN at |-> Block(at[n] * d.size, d.chunks[n])])
  BY <1>2, <1>5 DEF ApplyChunks
<1>7. [n \in DOMAIN at |-> Block(at[n] * d.size, d.chunks[n])] = blocks
  BY <1>2, <1>4 DEF ChunkBlock, ChunkStart
<1>8. blocks \in Seq(B) /\ Len(blocks) = Len(at)
  <2>1. \A n \in 1..Len(at) : ChunkBlock(new, s, at[n]) \in B
    BY <1>4
  <2>. HIDE DEF B
  <2>. QED BY <1>4, <2>1
<1>9. \A n \in 1..Len(at) : blocks[n] = ChunkBlock(new, s, at[n])
  OBVIOUS
<1>. HIDE DEF blocks, B
<1>10. ASSUME NEW k \in Nat, k < count
       PROVE  /\ Holds(new, ChunkBlock(new, s, k))
              /\ \A i \in 1..Len(new) : InChunk(s, k, i) => Covers(ChunkBlock(new, s, k), i)
  <2>. DEFINE a == ChunkStart(s, k)
              chunk == Chunk(new, s, k)
              n == Len(chunk)
  <2>1. a < Len(new) /\ a \in Nat /\ Len(new) \in Nat
    BY <1>1, <1>10, ProductsOrder DEF ChunkStart
  <2>2. /\ chunk \in Seq(Byte) /\ n = ChunkEnd(new, s, k) - a
        /\ \A j \in 1..n : chunk[j] = new[a + j]
    BY <2>1, ChunkBytes
  <2>3. ChunkEnd(new, s, k) = IF a + s < Len(new) THEN a + s ELSE Len(new)
    BY DEF ChunkEnd, ChunkStart
  <2>4. \A i : InChunk(s, k, i) <=> a < i /\ i <= a + s
    BY DEF InChunk, ChunkStart
  <2>5. ChunkBlock(new, s, k).start = a /\ ChunkBlock(new, s, k).bytes = chunk
    BY DEF ChunkBlock, Block
  <2>6. DOMAIN chunk = 1..n /\ n \in Nat
    BY <2>2
  <2>. HIDE DEF a, chunk, n
  <2>7. a + n <= Len(new) /\ \A i \in 1..Len(new) : InChunk(s, k, i) => a < i /\ i <= a + n
    BY <2>1, <2>2, <2>3, <2>4
  <2>8. Holds(new, ChunkBlock(new, s, k))
    BY <2>1, <2>2, <2>5, <2>6, <2>7 DEF Holds, n
  <2>9. \A i \in 1..Len(new) : InChunk(s, k, i) => Covers(ChunkBlock(new, s, k), i)
    BY <2>5, <2>7 DEF Covers, n
  <2>. QED BY <2>8, <2>9
<1>11. \A n \in 1..Len(blocks) : Holds(new, blocks[n])
  BY <1>4, <1>8, <1>9, <1>10
<1>12. \A i \in 1..Len(new) : blank[i] = new[i] \/ \E n \in 1..Len(blocks) : Covers(blocks[n], i)
  <2>. SUFFICES ASSUME NEW i \in 1..Len(new), blank[i] # new[i]
                PROVE  \E n \in 1..Len(blocks) : Covers(blocks[n], i)
    OBVIOUS
  <2>1. i - 1 \in Nat
    OBVIOUS
  <2>2. PICK k \in Nat : k * s <= i - 1 /\ i - 1 < k * s + s
    BY <2>1, ChunkExists
  <2>3. InChunk(s, k, i) /\ ChunkStart(s, k) < Len(new)
    <3>. DEFINE ks == k * s
    <3>1. ks \in Nat /\ ks <= i - 1 /\ i - 1 < ks + s /\ i \in Nat /\ i <= Len(new) /\ Len(new) \in Nat
      BY <2>2, ProductsOrder
    <3>. HIDE DEF ks
    <3>2. ks < i /\ i <= ks + s /\ ks < Len(new)
      BY <3>1
    <3>. QED BY <3>2 DEF InChunk, ChunkStart, ks
  <2>4. k < count
    BY <1>1, <2>3
  <2>5. ~ChunkKept(old, new, s, k)
    <3>. SUFFICES ASSUME ChunkKept(old, new, s, k) PROVE FALSE
      OBVIOUS
    <3>1. i <= Len(old) /\ old[i] = new[i]
      BY <2>3, KeptBytes
    <3>2. blank[i] = old[i]
      BY <3>1 DEF Resize
    <3>. QED BY <3>1, <3>2
  <2>6. k \in sent
    BY <1>1, <2>4, <2>5
  <2>7. PICK n \in 1..Len(at) : at[n] = k
    BY <1>4, <2>6
  <2>8. Covers(ChunkBlock(new, s, k), i)
    BY <1>10, <2>3, <2>4
  <2>9. blocks[n] = ChunkBlock(new, s, k)
    BY <1>9, <2>7
  <2>. QED BY <1>8, <2>8, <2>9
<1>13. blank = [i \in 1..Len(new) |-> blank[i]]
  BY DEF Resize
<1>. HIDE DEF blank
<1>14. WriteAll(blank, blocks) = new
  BY <1>8, <1>11, <1>12, <1>13, WritingRestores
<1>. QED BY <1>6, <1>7, <1>14 DEF d
-----------------------------------------------------------------------------
\* Every changed byte lies in the range that starts last before it.
LEMMA RangesCover ==
  ASSUME NEW old, NEW new, Len(new) \in Nat, NEW gap \in Nat,
         NEW i \in Changed(old, new)
  PROVE  \E a \in RangeStarts(old, new, gap) : a <= i /\ i < RangeEnd(old, new, gap, a)
<1>. DEFINE changed == Changed(old, new)
            starts == RangeStarts(old, new, gap)
            before == {a \in starts : a <= i}
            n == Len(new)
<1>1. changed \subseteq 0..(n - 1) /\ n \in Nat
  BY DEF Changed
<1>2. starts \subseteq changed /\ \A a \in changed : changed \cap (a - 1 - gap)..(a - 1) = {} => a \in starts
  BY DEF RangeStarts
<1>3. i \in changed
  OBVIOUS
<1>4. \A a : RangeEnd(old, new, gap, a) =
               1 + Max({x \in changed : a <= x /\ starts \cap (a + 1)..x = {}})
  BY DEF RangeEnd
<1>. HIDE DEF changed, starts, n
<1>5. \E w : w \in before
  <2>1. changed \in SUBSET Nat /\ changed # {}
    BY <1>1, <1>3
  <2>2. PICK l \in changed : \A k \in changed : l <= k
    BY <2>1, Costs!LeastExists
  <2>3. changed \cap (l - 1 - gap)..(l - 1) = {}
    <3>1. l \in Nat
      BY <1>1
    <3>. QED BY <2>2, <3>1
  <2>. QED BY <1>2, <1>3, <2>2, <2>3
<1>6. before \in SUBSET (0..n)
  <2>1. 0..(n - 1) \subseteq 0..n
    BY <1>1
  <2>. QED BY <1>1, <1>2, <2>1
<1>. DEFINE a == Max(before)
<1>7. a \in before /\ \A x \in before : x <= a
  <2>1. n \in Nat
    BY <1>1
  <2>. HIDE DEF before
  <2>2. PICK w : w \in before
    BY <1>5
  <2>3. IsGreatest(Max(before), before)
    BY <1>6, <2>1, <2>2, GreatestOfRange
  <2>. QED BY <2>3 DEF IsGreatest
<1>8. a \in starts /\ a <= i /\ a \in Nat /\ i \in Nat /\ starts \subseteq Nat
  <2>1. \A x \in changed : x \in Nat
    BY <1>1
  <2>2. a \in starts /\ a <= i
    <3>1. \A x \in before : x \in starts /\ x <= i
      OBVIOUS
    <3>. HIDE DEF before
    <3>2. a \in before
      BY <1>7
    <3>. HIDE DEF a
    <3>. QED BY <3>1, <3>2
  <2>. HIDE DEF a
  <2>. QED BY <1>2, <1>3, <2>1, <2>2
<1>9. \A x \in starts : x <= i => x <= a
  BY <1>7
<1>. HIDE DEF a, before
<1>10. starts \cap (a + 1)..i = {}
  BY <1>8, <1>9
<1>. DEFINE run == {x \in changed : a <= x /\ starts \cap (a + 1)..x = {}}
<1>11. i \in run /\ run \in SUBSET (0..n)
  <2>1. 0..(n - 1) \subseteq 0..n
    BY <1>1
  <2>2. i \in run
    BY <1>3, <1>8, <1>10
  <2>. QED BY <1>1, <2>1, <2>2
<1>12. i <= Max(run) /\ Max(run) \in Nat
  <2>. HIDE DEF run
  <2>1. Max(run) \in run /\ \A x \in run : x <= Max(run)
    <3>1. n \in Nat
      BY <1>1
    <3>2. IsGreatest(Max(run), run)
      BY <1>11, <3>1, GreatestOfRange
    <3>. QED BY <3>2 DEF IsGreatest
  <2>2. i \in run /\ \A x \in run : x \in 0..n
    BY <1>11
  <2>3. i <= Max(run) /\ Max(run) \in 0..n
    BY <2>1, <2>2
  <2>. QED BY <1>1, <2>3
<1>13. RangeEnd(old, new, gap, a) = 1 + Max(run)
  BY <1>4
<1>14. i < RangeEnd(old, new, gap, a)
  BY <1>8, <1>12, <1>13
<1>. QED BY <1>8, <1>14 DEF starts

\* A range is not empty and ends within the bytes.
LEMMA RangeBounds ==
  ASSUME NEW old, NEW new, Len(new) \in Nat, NEW gap \in Nat,
         NEW a \in RangeStarts(old, new, gap)
  PROVE  /\ a \in Nat /\ a < Len(new)
         /\ RangeEnd(old, new, gap, a) \in Nat
         /\ a < RangeEnd(old, new, gap, a) /\ RangeEnd(old, new, gap, a) <= Len(new)
<1>. DEFINE changed == Changed(old, new)
            starts == RangeStarts(old, new, gap)
            run == {x \in changed : a <= x /\ starts \cap (a + 1)..x = {}}
            n == Len(new)
<1>1. changed \subseteq 0..(n - 1) /\ n \in Nat /\ a \in changed
  BY DEF Changed, RangeStarts
<1>2. RangeEnd(old, new, gap, a) = 1 + Max(run)
  BY DEF RangeEnd
<1>. HIDE DEF changed, starts, n
<1>3. a \in run /\ run \in SUBSET (0..n) /\ \A x \in run : a <= x /\ x < n /\ x \in Nat
  <2>1. /\ 0..(n - 1) \subseteq 0..n
        /\ \A x \in changed : x \in 0..(n - 1) /\ x < n /\ x \in Nat
    BY <1>1
  <2>2. a <= a /\ (a + 1)..a = {}
    BY <1>1, <2>1
  <2>3. a \in run
    BY <1>1, <2>2
  <2>. QED BY <2>1, <2>3
<1>. HIDE DEF run
<1>4. Max(run) \in run
  <2>1. n \in Nat /\ run \in SUBSET (0..n) /\ a \in run
    BY <1>1, <1>3
  <2>2. IsGreatest(Max(run), run)
    BY <2>1, GreatestOfRange
  <2>. QED BY <2>2 DEF IsGreatest
<1>. DEFINE m == Max(run)
<1>5. a <= m /\ m < n /\ m \in Nat
  BY <1>3, <1>4
<1>6. RangeEnd(old, new, gap, a) = 1 + m
  BY <1>2
<1>7. a \in Nat
  BY <1>3
<1>. HIDE DEF m
<1>8. a < Len(new) /\ 1 + m \in Nat /\ a < 1 + m /\ 1 + m <= Len(new)
  BY <1>1, <1>5, <1>7 DEF n
<1>. QED BY <1>6, <1>7, <1>8

RangeRun(old, new, gap, a) == Slice(new, a, RangeEnd(old, new, gap, a))
RangeBlock(old, new, gap, a) == Block(a, RangeRun(old, new, gap, a))

LEMMA RangeHolds ==
  ASSUME NEW Byte, NEW old, NEW new \in Seq(Byte), NEW gap \in Nat,
         NEW a \in RangeStarts(old, new, gap)
  PROVE  /\ Holds(new, RangeBlock(old, new, gap, a))
         /\ Len(RangeRun(old, new, gap, a)) = RangeEnd(old, new, gap, a) - a
<1>. DEFINE b == RangeEnd(old, new, gap, a)
            run == RangeRun(old, new, gap, a)
<1>1. a \in Nat /\ b \in Nat /\ a < b /\ b <= Len(new) /\ Len(new) \in Nat
  BY RangeBounds
<1>2. run = SubSeq(new, a + 1, b)
  BY DEF RangeRun, Slice
<1>. HIDE DEF b, run
<1>3. /\ SubSeq(new, a + 1, b) \in Seq(Byte) /\ Len(SubSeq(new, a + 1, b)) = b - a
      /\ \A j \in 1..(b - a) : SubSeq(new, a + 1, b)[j] = new[a + j]
  BY <1>1
<1>4. /\ run \in Seq(Byte) /\ Len(run) = b - a /\ DOMAIN run = 1..(b - a)
      /\ \A j \in 1..(b - a) : run[j] = new[a + j]
  BY <1>2, <1>3
<1>5. RangeBlock(old, new, gap, a).start = a /\ RangeBlock(old, new, gap, a).bytes = run
  BY DEF RangeBlock, Block, run
<1>6. b - a \in Nat /\ a + (b - a) <= Len(new)
  BY <1>1
<1>7. Holds(new, RangeBlock(old, new, gap, a))
  BY <1>1, <1>4, <1>5, <1>6 DEF Holds
<1>. QED BY <1>4, <1>7 DEF run, b

LEMMA RangesRestore ==
  ASSUME NEW Byte, NEW old \in Seq(Byte), NEW new \in Seq(Byte), Len(old) = Len(new),
         NEW gap \in Nat
  PROVE  ApplyRanges(old, EncodeRanges(old, new, gap)) = new
<1>. DEFINE starts == RangeStarts(old, new, gap)
            start == Ascending(starts, Len(new))
            end == [n \in DOMAIN start |-> RangeEnd(old, new, gap, start[n])]
            d == EncodeRanges(old, new, gap)
            blocks == [n \in 1..Len(start) |-> RangeBlock(old, new, gap, start[n])]
            B == {RangeBlock(old, new, gap, a) : a \in starts}
            skipped(n) == FoldLeft(+, 0, SubSeq(d.gaps, 1, n))
            written(n) == FoldLeft(LAMBDA sum, run : sum + Len(run), 0, SubSeq(d.runs, 1, n))
            T == {n \in Nat : n + 1 <= Len(start) =>
                                skipped(n + 1) + written(n) = start[n + 1] /\ written(n) \in Int}
<1>1. /\ d.len = Len(new)
      /\ d.gaps = [n \in DOMAIN start |-> RangeGap(start, end, n)]
      /\ d.runs = [n \in DOMAIN start |-> Slice(new, start[n], end[n])]
  BY DEF EncodeRanges
<1>2. ApplyRanges(old, d) =
        WriteAll(old, [n \in DOMAIN d.gaps |-> Block(skipped(n) + written(n - 1), d.runs[n])])
  BY <1>1 DEF ApplyRanges
<1>3. Lists(start, starts, Len(new)) /\ Len(new) \in Nat
  BY AscendingLists
<1>. HIDE DEF start, d, starts
<1>4. /\ start \in Seq(Nat) /\ Len(start) \in Nat /\ DOMAIN start = 1..Len(start)
      /\ \A n \in 1..Len(start) : start[n] \in starts /\ start[n] \in Nat
      /\ \A a \in starts : \E n \in 1..Len(start) : start[n] = a
  <2>1. \A a \in starts : a \in Nat /\ a < Len(new)
    BY <1>3, RangeBounds DEF starts
  <2>. QED BY <1>3, <2>1 DEF Lists
<1>5. \A n \in 1..Len(start) :
        end[n] = RangeEnd(old, new, gap, start[n]) /\ end[n] \in Nat /\ start[n] < end[n]
  BY <1>3, <1>4, RangeBounds DEF starts
<1>6. /\ Len(d.gaps) = Len(start) /\ DOMAIN d.gaps = 1..Len(start)
      /\ \A n \in 1..Len(start) :
           d.gaps[n] = IF n = 1 THEN start[1] ELSE start[n] - end[n - 1]
  <2>1. d.gaps = [n \in 1..Len(start) |-> IF n = 1 THEN start[1] ELSE start[n] - end[n - 1]]
    BY <1>1, <1>4 DEF RangeGap
  <2>. HIDE DEF end
  <2>. QED BY <1>4, <2>1
<1>7. /\ Len(d.runs) = Len(start) /\ DOMAIN d.runs = 1..Len(start)
      /\ \A n \in 1..Len(start) :
           d.runs[n] = RangeRun(old, new, gap, start[n]) /\ Len(d.runs[n]) = end[n] - start[n]
  <2>1. d.runs = [n \in 1..Len(start) |-> RangeRun(old, new, gap, start[n])]
    BY <1>1, <1>4 DEF RangeRun
  <2>2. \A n \in 1..Len(start) : Len(RangeRun(old, new, gap, start[n])) = end[n] - start[n]
    <3>1. \A a \in starts :
            Len(RangeRun(old, new, gap, a)) = RangeEnd(old, new, gap, a) - a
      BY RangeHolds DEF starts
    <3>. HIDE DEF end
    <3>. QED BY <1>4, <1>5, <3>1
  <2>. HIDE DEF end
  <2>. QED BY <1>4, <2>1, <2>2
<1>. HIDE DEF end
<1>8. d.gaps \in Seq(Int)
  <2>1. \A n \in 1..Len(start) : d.gaps[n] \in Int
    <3>. SUFFICES ASSUME NEW n \in 1..Len(start) PROVE d.gaps[n] \in Int
      OBVIOUS
    <3>1. CASE n = 1
      BY <1>4, <1>6, <3>1
    <3>2. CASE n # 1
      <4>1. n - 1 \in 1..Len(start)
        BY <1>4, <3>2
      <4>2. d.gaps[n] = start[n] - end[n - 1] /\ start[n] \in Nat /\ end[n - 1] \in Nat
        BY <1>4, <1>5, <1>6, <3>2, <4>1
      <4>. QED BY <4>2
    <3>. QED BY <3>1, <3>2
  <2>2. d.gaps = [n \in 1..Len(start) |-> d.gaps[n]]
    BY <1>1, <1>4
  <2>. QED BY <1>4, <2>1, <2>2
<1>. DEFINE R == {RangeRun(old, new, gap, a) : a \in starts}
<1>9. d.runs \in Seq(R)
  <2>1. \A n \in 1..Len(start) : d.runs[n] \in R
    BY <1>4, <1>7
  <2>2. d.runs = [n \in 1..Len(start) |-> d.runs[n]]
    BY <1>1, <1>4
  <2>. HIDE DEF R
  <2>. QED BY <1>4, <2>1, <2>2
<1>. HIDE DEF R
<1>10. /\ skipped(0) = 0
       /\ \A n \in Nat : n + 1 <= Len(start) => skipped(n + 1) = skipped(n) + d.gaps[n + 1]
  BY <1>6, <1>8, SumSteps
<1>11. /\ written(0) = 0
       /\ \A n \in Nat : n + 1 <= Len(start) => written(n + 1) = written(n) + Len(d.runs[n + 1])
  BY <1>7, <1>9, RunSteps
<1>. HIDE DEF skipped, written
<1>12. 0 \in T
  <2>. SUFFICES ASSUME 0 + 1 <= Len(start)
                PROVE  skipped(0 + 1) + written(0) = start[0 + 1] /\ written(0) \in Int
    OBVIOUS
  <2>1. 1 \in 1..Len(start) /\ 0 + 1 = 1
    BY <1>4
  <2>2. d.gaps[1] = start[1] /\ start[1] \in Nat
    BY <1>4, <1>6, <2>1
  <2>3. skipped(0 + 1) = skipped(0) + d.gaps[0 + 1]
    BY <1>10
  <2>. QED BY <1>10, <1>11, <2>1, <2>2, <2>3
<1>13. ASSUME NEW n \in T PROVE n + 1 \in T
  <2>. DEFINE m == n + 1
  <2>1. n \in Nat /\ m \in Nat
    OBVIOUS
  <2>. SUFFICES ASSUME m + 1 <= Len(start)
                PROVE  skipped(m + 1) + written(m) = start[m + 1] /\ written(m) \in Int
    OBVIOUS
  <2>2. skipped(m) + written(n) = start[m] /\ written(n) \in Int
    BY <1>4, <2>1
  <2>3. m \in 1..Len(start) /\ m + 1 \in 1..Len(start) /\ m + 1 # 1 /\ (m + 1) - 1 = m
    BY <1>4, <2>1
  <2>4. written(m) = written(n) + Len(d.runs[m])
    BY <1>11, <2>1, <2>3
  <2>. HIDE DEF m
  <2>5. skipped(m + 1) = skipped(m) + d.gaps[m + 1]
    BY <1>10, <2>1
  <2>6. d.gaps[m + 1] = start[m + 1] - end[m]
    BY <1>6, <2>3
  <2>7. Len(d.runs[m]) = end[m] - start[m] /\ end[m] \in Nat /\ start[m] \in Nat /\ start[m + 1] \in Nat
    BY <1>4, <1>5, <1>7, <2>3
  <2>8. skipped(m) \in Int
    <3>1. \A k \in Nat : k <= Len(start) => skipped(k) \in Int
      <4>. DEFINE U == {k \in Nat : k <= Len(start) => skipped(k) \in Int}
      <4>1. 0 \in U
        BY <1>10
      <4>2. ASSUME NEW k \in U PROVE k + 1 \in U
        <5>1. \A j \in 1..Len(start) : d.gaps[j] \in Int
          BY <1>6, <1>8
        <5>2. k + 1 <= Len(start) => k + 1 \in 1..Len(start) /\ k <= Len(start)
          BY <1>4
        <5>. QED BY <1>10, <5>1, <5>2
      <4>3. U = Nat
        <5>. HIDE DEF U
        <5>1. U \in SUBSET Nat
          BY DEF U
        <5>. QED BY <4>1, <4>2, <5>1, Costs!SetInduction
      <4>. QED BY <4>3
    <3>. QED BY <1>4, <2>3, <3>1
  <2>9. skipped(m + 1) + written(m) = start[m + 1]
    <3>. DEFINE a == skipped(m)
                b == written(n)
                c == start[m]
                e == end[m]
                f == start[m + 1]
    <3>1. a + b = c /\ a \in Int /\ b \in Int /\ c \in Nat /\ e \in Nat /\ f \in Nat
      BY <2>2, <2>7, <2>8
    <3>2. written(m) = b + (e - c) /\ skipped(m + 1) = a + (f - e)
      BY <2>4, <2>5, <2>6, <2>7
    <3>. HIDE DEF a, b, c, e, f
    <3>3. skipped(m + 1) + written(m) = f
      BY <3>1, <3>2
    <3>. QED BY <3>3 DEF f
  <2>10. written(m) \in Int
    BY <2>2, <2>4, <2>7
  <2>. QED BY <2>9, <2>10
<1>14. T = Nat
  <2>. HIDE DEF T
  <2>1. T \in SUBSET Nat
    BY DEF T
  <2>. QED BY <1>12, <1>13, <2>1, Costs!SetInduction
<1>15. \A n \in 1..Len(start) : skipped(n) + written(n - 1) = start[n]
  <2>. SUFFICES ASSUME NEW n \in 1..Len(start) PROVE skipped(n) + written(n - 1) = start[n]
    OBVIOUS
  <2>. DEFINE m == n - 1
  <2>1. m \in Nat /\ m + 1 = n /\ m + 1 <= Len(start)
    BY <1>4
  <2>. HIDE DEF m
  <2>2. skipped(m + 1) + written(m) = start[m + 1]
    BY <1>14, <2>1
  <2>. QED BY <2>1, <2>2 DEF m
<1>16. [n \in DOMAIN d.gaps |-> Block(skipped(n) + written(n - 1), d.runs[n])] = blocks
  BY <1>6, <1>7, <1>15 DEF RangeBlock
<1>17. blocks \in Seq(B) /\ Len(blocks) = Len(start)
  <2>1. \A n \in 1..Len(start) : RangeBlock(old, new, gap, start[n]) \in B
    BY <1>4
  <2>. HIDE DEF B
  <2>. QED BY <1>4, <2>1
<1>18. \A n \in 1..Len(start) : blocks[n] = RangeBlock(old, new, gap, start[n])
  OBVIOUS
<1>. HIDE DEF blocks, B
<1>19. \A n \in 1..Len(blocks) : Holds(new, blocks[n])
  BY <1>4, <1>17, <1>18, RangeHolds DEF starts
<1>20. \A i \in 1..Len(new) : old[i] = new[i] \/ \E n \in 1..Len(blocks) : Covers(blocks[n], i)
  <2>. SUFFICES ASSUME NEW i \in 1..Len(new), old[i] # new[i]
                PROVE  \E n \in 1..Len(blocks) : Covers(blocks[n], i)
    OBVIOUS
  <2>. DEFINE j == i - 1
  <2>1. j \in Changed(old, new) /\ j \in Nat
    <3>1. (i - 1) + 1 = i /\ i - 1 \in 0..(Len(new) - 1)
      BY <1>3
    <3>. QED BY <3>1 DEF Changed
  <2>2. i = j + 1
    BY <1>3
  <2>. HIDE DEF j
  <2>3. PICK a \in RangeStarts(old, new, gap) : a <= j /\ j < RangeEnd(old, new, gap, a)
    BY <1>3, <2>1, RangesCover
  <2>4. a \in Nat /\ RangeEnd(old, new, gap, a) \in Nat
    BY <1>3, RangeBounds
  <2>5. Len(RangeRun(old, new, gap, a)) = RangeEnd(old, new, gap, a) - a
    BY RangeHolds
  <2>6. Covers(RangeBlock(old, new, gap, a), i)
    <3>1. /\ RangeBlock(old, new, gap, a).start = a
          /\ RangeBlock(old, new, gap, a).bytes = RangeRun(old, new, gap, a)
      BY DEF RangeBlock, Block
    <3>. QED BY <2>1, <2>2, <2>3, <2>4, <2>5, <3>1 DEF Covers
  <2>7. PICK n \in 1..Len(start) : start[n] = a
    BY <1>4, <2>3 DEF starts
  <2>8. blocks[n] = RangeBlock(old, new, gap, a)
    BY <1>18, <2>7
  <2>. QED BY <1>17, <2>6, <2>8
<1>21. old = [i \in 1..Len(new) |-> old[i]]
  OBVIOUS
<1>22. WriteAll(old, blocks) = new
  BY <1>17, <1>19, <1>20, <1>21, WritingRestores
<1>. QED BY <1>2, <1>16, <1>22 DEF d
-----------------------------------------------------------------------------
\* apply undoes encode for each family of src/smart_delta.rs: whichever of the
\* candidates an encoder sends, the receiver of the old state ends with the
\* new one, whatever their lengths, where they differ, and however ranges
\* are joined or bytes chunked.
THEOREM SmartRestoresHolds ==
  ASSUME NEW Byte, XorUndoesItself(Byte), NEW old \in Seq(Byte), NEW new \in Seq(Byte),
         NEW gap \in Nat, NEW size \in Nat
  PROVE  SmartRestores(old, new, gap, size)
<1>. DEFINE s == IF size = 0 THEN 1 ELSE size
<1>1. s \in Nat \ {0}
  OBVIOUS
<1>. HIDE DEF s
<1>2. ApplySmart(old, EncodeSplice(old, new)) = new
  <2>1. EncodeSplice(old, new).kind = "Splice"
    BY DEF EncodeSplice, Splice
  <2>. QED BY <2>1, SpliceRestores DEF ApplySmart
<1>3. ApplySmart(old, EncodeChunks(old, new, s)) = new
  <2>1. EncodeChunks(old, new, s).kind = "Chunks"
    BY DEF EncodeChunks
  <2>. QED BY <1>1, <2>1, ChunksRestore DEF ApplySmart
<1>4. ASSUME Len(old) = Len(new)
      PROVE  /\ ApplySmart(old, EncodeSparse(old, new)) = new
             /\ ApplySmart(old, EncodeRanges(old, new, gap)) = new
             /\ ApplySmart(old, EncodeXor(old, new)) = new
  <2>1. /\ EncodeSparse(old, new).kind = "Sparse"
        /\ EncodeRanges(old, new, gap).kind = "Ranges"
        /\ EncodeXor(old, new).kind = "Xor"
    BY DEF EncodeSparse, EncodeRanges, EncodeXor
  <2>2. ApplySparse(old, EncodeSparse(old, new)) = new
    BY <1>4, SparseRestores
  <2>3. ApplyRanges(old, EncodeRanges(old, new, gap)) = new
    BY <1>4, RangesRestore
  <2>4. ApplyXor(old, EncodeXor(old, new)) = new
    BY <1>4, XorRestores
  <2>. QED BY <2>1, <2>2, <2>3, <2>4 DEF ApplySmart
<1>. QED BY <1>2, <1>3, <1>4 DEF SmartRestores, SmartCandidates, s
-----------------------------------------------------------------------------
(***************************************************************************)
(* States and the ones before them, of each kind (StateUpdates).           *)
(***************************************************************************)
UpdatesTypeOK ==
  /\ kind \in StateKinds
  /\ previous \in StatesOf(kind)
  /\ current \in StatesOf(kind)

\* The encoder's base and its target are states of one kind.
THEOREM UpdatesTypeCorrectness == UpdatesSpec => []UpdatesTypeOK
<1>1. UpdatesInit => UpdatesTypeOK
  BY DEF UpdatesInit, UpdatesTypeOK
<1>2. UpdatesTypeOK /\ [UpdateState]_updateVars => UpdatesTypeOK'
  BY DEF UpdatesTypeOK, UpdateState, updateVars, StatesOf
<1>. QED BY <1>1, <1>2, PTL DEF UpdatesSpec

LEMMA BytesAreSequences ==
  /\ ByteStates \subseteq Seq(ByteValue)
  /\ \A s \in Seq(ByteValue) : Len(s) <= MaxLength => s \in ByteStates
  /\ \A s \in ByteStates : Len(s) <= MaxLength
<1>1. MaxLength \in Nat
  BY RangesAssumption
<1>2. ASSUME NEW s \in ByteStates PROVE s \in Seq(ByteValue) /\ Len(s) <= MaxLength
  <2>1. PICK n \in 0..MaxLength : s \in [1..n -> ByteValue]
    BY DEF ByteStates
  <2>2. n \in Nat /\ n <= MaxLength
    BY <1>1, <2>1
  <2>3. s \in Seq(ByteValue) /\ Len(s) = n
    BY <2>1, <2>2
  <2>. QED BY <2>2, <2>3
<1>3. ASSUME NEW s \in Seq(ByteValue), Len(s) <= MaxLength PROVE s \in ByteStates
  <2>1. Len(s) \in 0..MaxLength /\ s \in [1..Len(s) -> ByteValue]
    BY <1>1, <1>3
  <2>. QED BY <2>1 DEF ByteStates
<1>. QED BY <1>2, <1>3

\* Whatever the states of an update, every delta computed from them restores
\* the second at a receiver of the first, bytes exactly and the other kinds
\* up to the signs of zeros.
THEOREM EveryDeltaRestoresHolds == UpdatesSpec => []EveryDeltaRestores
<1>1. UpdatesTypeOK => EveryDeltaRestores
  <2>. SUFFICES ASSUME UpdatesTypeOK PROVE EveryDeltaRestores
    OBVIOUS
  <2>1. ASSUME kind = "json" PROVE Restores(previous, current)
    <3>1. previous \in JsonObject /\ current \in JsonObject
      BY <2>1 DEF UpdatesTypeOK, StatesOf
    <3>. QED BY <3>1, RoundTripHolds
  <2>2. ASSUME kind = "bytes", NEW gap \in RangeGaps, NEW size \in ChunkSizes
        PROVE  SmartRestores(previous, current, gap, size)
    <3>1. previous \in Seq(ByteValue) /\ current \in Seq(ByteValue)
      BY <2>2, BytesAreSequences DEF UpdatesTypeOK, StatesOf
    <3>2. gap \in Nat /\ size \in Nat
      BY RangesAssumption
    <3>3. XorUndoesItself(ByteValue)
      BY XorAssumption DEF XorUndoesItself
    <3>. QED BY <3>1, <3>2, <3>3, SmartRestoresHolds
  <2>3. ASSUME kind = "agent" PROVE AgentRestores(previous, current)
    <3>1. previous \in AgentStates /\ current \in AgentStates
      BY <2>3 DEF UpdatesTypeOK, StatesOf
    <3>2. MaxU8 \in Nat /\ MaxU64 \in Nat
      BY MaximaAssumption
    <3>3. AgentApply(AgentBetween(previous, current), previous) =
            IF FloatEqual(previous.cpu_percent, current.cpu_percent)
            THEN [current EXCEPT !.cpu_percent = previous.cpu_percent] ELSE current
      BY <3>1, <3>2, AgentRoundTripHolds
    <3>4. CASE FloatEqual(previous.cpu_percent, current.cpu_percent)
      <4>1. previous.cpu_percent \in Float /\ current.cpu_percent \in Float
        BY <3>1 DEF AgentStates
      <4>2. \/ previous.cpu_percent = current.cpu_percent
            \/ {previous.cpu_percent, current.cpu_percent} = {"zero", "negative zero"}
        BY <3>4, <4>1, FloatAssumption
      <4>3. [current EXCEPT !.cpu_percent = current.cpu_percent] = current
        BY <3>1 DEF AgentStates
      <4>. QED BY <3>3, <3>4, <4>2, <4>3 DEF AgentRestores
    <3>. QED BY <3>3, <3>4 DEF AgentRestores
  <2>. QED BY <2>1, <2>2, <2>3 DEF EveryDeltaRestores
<1>. QED BY <1>1, UpdatesTypeCorrectness, PTL

\* between lists no field that could be left out: without any one of its
\* entries the receiver would get an object that is not == the new one.
THEOREM NoEntrySpareHolds ==
  ASSUME NEW old \in JsonObject, NEW new \in JsonObject
  PROVE  NoEntrySpare(old, new)
<1>. DEFINE delta == Between(old, new)
<1>. SUFFICES ASSUME NEW f \in DOMAIN delta.changed \cup delta.removed
              PROVE  ~ObjectEqual(ApplyDelta(Without(delta, f), old), new)
  BY DEF NoEntrySpare
<1>. DEFINE result == ApplyDelta(Without(delta, f), old)
<1>1. /\ DOMAIN delta.changed = ChangedFields(old, new)
      /\ delta.removed = DOMAIN old \ DOMAIN new
  BY DEF Between
<1>2. /\ DOMAIN Without(delta, f).changed = ChangedFields(old, new) \ {f}
      /\ Without(delta, f).removed = (DOMAIN old \ DOMAIN new) \ {f}
  BY <1>1 DEF Without
<1>3. /\ DOMAIN result = (DOMAIN old \ ((DOMAIN old \ DOMAIN new) \ {f}))
                           \cup (ChangedFields(old, new) \ {f})
      /\ f \in DOMAIN result => result[f] = old[f]
  BY <1>2 DEF ApplyDelta
<1>. HIDE DEF result
<1>4. CASE f \in ChangedFields(old, new)
  <2>1. f \in DOMAIN new /\ ~(f \in DOMAIN old /\ ValueEqual(old[f], new[f]))
    BY <1>4 DEF ChangedFields
  <2>2. f \in DOMAIN result => f \in DOMAIN old /\ result[f] = old[f]
    BY <1>3
  <2>. QED BY <2>1, <2>2 DEF result, ObjectEqual
<1>5. CASE f \in DOMAIN old \ DOMAIN new
  <2>1. f \in DOMAIN result
    BY <1>3, <1>5
  <2>. QED BY <1>5, <2>1 DEF result, ObjectEqual
<1>. QED BY <1>1, <1>4, <1>5

\* No delta of JSON objects and no splice says more than it must.
THEOREM NothingSpareHolds == UpdatesSpec => []NothingSpare
<1>1. UpdatesTypeOK => NothingSpare
  <2>. SUFFICES ASSUME UpdatesTypeOK PROVE NothingSpare
    OBVIOUS
  <2>1. ASSUME kind = "json" PROVE NoEntrySpare(previous, current)
    <3>1. previous \in JsonObject /\ current \in JsonObject
      BY <2>1 DEF UpdatesTypeOK, StatesOf
    <3>. QED BY <3>1, NoEntrySpareHolds
  <2>2. ASSUME kind = "bytes" PROVE SpliceIsShortest(previous, current)
    <3>1. previous \in Seq(ByteValue) /\ current \in Seq(ByteValue)
      BY <2>2, BytesAreSequences DEF UpdatesTypeOK, StatesOf
    <3>. QED BY <3>1, SpliceWastesNothing
  <2>. QED BY <2>1, <2>2 DEF NothingSpare
<1>. QED BY <1>1, UpdatesTypeCorrectness, PTL

\* What a repair writes over other bytes of the range Byte stays in it.
LEMMA RepairedBytes ==
  ASSUME NEW Byte, 0 \in Byte, NEW other \in Seq(Byte),
         NEW receiver \in Seq(Byte), NEW target \in Seq(Byte), NEW size \in Nat,
         NEW result, result = ApplyRepair(other, BuildRepair(receiver, target, size)),
         result # Invalid
  PROVE  /\ result \in [1..Len(target) -> Byte]
         /\ HashOf(result) = HashOf(target)
<1>. DEFINE s == ChunkSize(size)
            r == BuildRepair(receiver, target, size)
            len == Len(target)
            blank == Resize(other, len)
            fits == \A n \in DOMAIN r.patches :
                      \/ r.patches[n].bytes = <<>> /\ r.patches[n].index * r.size >= r.len
                      \/ Fits(Resize(other, r.len),
                              Block(r.patches[n].index * r.size, r.patches[n].bytes))
            out == Writes!Fold(<<Resize(other, r.len), r.size>>, r.patches)
<1>1. s \in Nat \ {0} /\ len \in Nat
  BY DEF ChunkSize
<1>2. PICK at, differing : Repairs(r, at, differing, receiver, target, s)
  BY RepairLists
<1>. DEFINE Sent == {PatchOf(target, s, c) : c \in Nat}
            patches == [n \in 1..Len(at) |-> PatchOf(target, s, at[n])]
<1>3. /\ at \in Seq(Nat) /\ Len(at) \in Nat /\ \A n \in 1..Len(at) : at[n] \in Nat
  BY <1>2 DEF Repairs, Lists
<1>4. /\ patches \in Seq(Sent) /\ Len(patches) = Len(at)
      /\ \A n \in 1..Len(at) : patches[n] = PatchOf(target, s, at[n])
  <2>1. \A n \in 1..Len(at) : PatchOf(target, s, at[n]) \in Sent
    BY <1>3
  <2>. HIDE DEF Sent, s
  <2>. QED BY <1>3, <2>1
<1>5. /\ r.patches = patches /\ r.size = s /\ r.len = len /\ r.hash = HashOf(target)
  BY <1>2 DEF Repairs
<1>6. blank \in [1..len -> Byte]
  <2>1. \A i \in 1..len : i <= Len(other) => other[i] \in Byte
    BY <1>1
  <2>. QED BY <2>1 DEF Resize
<1>. HIDE DEF fits, out
<1>7. fits
  <2>. SUFFICES ASSUME ~fits PROVE FALSE
    OBVIOUS
  <2>1. ApplyRepair(other, r) = Invalid
    BY DEF ApplyRepair, fits
  <2>. QED BY <2>1
<1>8. result = IF out = Invalid \/ ~RepairedHash(out, r) THEN Invalid ELSE out
  BY <1>7, ApplyIsFold DEF fits, out
<1>9. result = out /\ HashOf(out) = HashOf(target)
  BY <1>5, <1>8 DEF RepairedHash
<1>. HIDE DEF s, r, len, blank, patches
<1>. DEFINE k == <<blank, s>>
            after(m) == Writes!Fold(k, SubSeq(patches, 1, m))
            T == {m \in Nat : m <= Len(at) => after(m) \in [1..len -> Byte]}
<1>. HIDE DEF after
<1>10. 0 \in T
  <2>1. SubSeq(patches, 1, 0) = <<>>
    BY <1>4
  <2>2. Writes!Fold(k, <<>>) = WriteStart(k)
    BY Writes!FoldEmpty
  <2>3. after(0) = blank
    BY <2>1, <2>2 DEF WriteStart, after
  <2>. QED BY <1>6, <2>3
<1>11. ASSUME NEW m \in T PROVE m + 1 \in T
  <2>. SUFFICES ASSUME m + 1 <= Len(at) PROVE after(m + 1) \in [1..len -> Byte]
    OBVIOUS
  <2>1. m \in Nat /\ m + 1 \in 1..Len(at) /\ after(m) \in [1..len -> Byte] /\ at[m + 1] \in Nat
    BY <1>3
  <2>2. /\ SubSeq(patches, 1, m) \in Seq(Sent) /\ patches[m + 1] \in Sent
        /\ SubSeq(patches, 1, m + 1) = Append(SubSeq(patches, 1, m), patches[m + 1])
    BY <1>4, <2>1, Costs!PrefixGrows
  <2>. HIDE DEF Sent
  <2>3. Writes!Fold(k, Append(SubSeq(patches, 1, m), patches[m + 1]))
          = WriteStep(k, Writes!Fold(k, SubSeq(patches, 1, m)), patches[m + 1])
    BY <2>2, Writes!FoldAppend
  <2>4. patches[m + 1] = PatchOf(target, s, at[m + 1])
    BY <1>4, <2>1
  <2>. DEFINE c == at[m + 1]
              bytes == PatchOf(target, s, c).bytes
              o == after(m)
  <2>5. after(m + 1) = Write(o, Block(ChunkStart(s, c), bytes))
    <3>1. PatchOf(target, s, c).index = c
      BY DEF PatchOf
    <3>. QED BY <2>2, <2>3, <2>4, <3>1 DEF WriteStep, ChunkStart, after
  <2>6. c \in Nat /\ o \in [1..len -> Byte]
    BY <2>1
  <2>. HIDE DEF o, c
  <2>7. Write(o, Block(ChunkStart(s, c), bytes)) = Patched(o, target, s, c)
    <3>1. DOMAIN o = 1..Len(target)
      BY <2>6 DEF len
    <3>. QED BY <1>1, <2>6, <3>1, WritePatch
  <2>8. Patched(o, target, s, c) \in [1..len -> Byte]
    <3>1. \A i \in 1..len : target[i] \in Byte
      BY DEF len
    <3>2. \A i \in 1..len : o[i] \in Byte
      BY <2>6
    <3>. QED BY <3>1, <3>2 DEF Patched, len
  <2>. QED BY <2>5, <2>7, <2>8
<1>12. T = Nat
  <2>. HIDE DEF T
  <2>1. T \in SUBSET Nat
    BY DEF T
  <2>. QED BY <1>10, <1>11, <2>1, Costs!SetInduction
<1>13. after(Len(at)) = out
  <2>1. SubSeq(patches, 1, Len(at)) = patches
    BY <1>4, SubSeqFull
  <2>. QED BY <1>5, <2>1 DEF after, out, blank
<1>. QED BY <1>3, <1>9, <1>12, <1>13 DEF len

\* A repair restores the state it was built from at the receiver it was built
\* for, and at any other it does so or is refused.
THEOREM SafeRepairHolds == UpdatesSpec => []SafeRepair
<1>1. UpdatesTypeOK => SafeRepair
  <2>. SUFFICES ASSUME UpdatesTypeOK, kind = "bytes", NEW size \in ChunkSizes
                PROVE  /\ RepairRestores(previous, current, size)
                       /\ RepairNeverMisleads(previous, current, size, Bystanders)
    BY DEF SafeRepair
  <2>1. previous \in ByteStates /\ current \in ByteStates
    BY DEF UpdatesTypeOK, StatesOf
  <2>2. /\ previous \in Seq(ByteValue) /\ current \in Seq(ByteValue)
        /\ Len(previous) <= MaxLength /\ Len(current) <= MaxLength
    BY <2>1, BytesAreSequences
  <2>3. size \in Nat /\ 0 \in ByteValue /\ MaxLength \in Nat
    BY RangesAssumption, XorAssumption
  <2>4. ChunksTold(previous, current, ChunkSize(size))
    <3>. DEFINE s == ChunkSize(size)
    <3>1. s \in Nat \ {0}
      BY <2>3 DEF ChunkSize
    <3>. HIDE DEF s
    <3>2. ASSUME NEW b \in Seq(ByteValue), Len(b) <= MaxLength, NEW n \in Nat
          PROVE  Chunk(b, s, n) \in ByteStates
      <4>. DEFINE first == n * s + 1
                  last == IF (n + 1) * s < Len(b) THEN (n + 1) * s ELSE Len(b)
      <4>1. n * s \in Nat /\ (n + 1) * s \in Nat /\ Len(b) \in Nat
        BY <3>1, ProductsOrder
      <4>2. first \in Nat /\ first >= 1 /\ last \in Nat /\ last <= Len(b)
        BY <4>1
      <4>3. Chunk(b, s, n) = SubSeq(b, first, last)
        BY DEF Chunk, Slice
      <4>. HIDE DEF first, last
      <4>4. SubSeq(b, first, last) \in Seq(ByteValue) /\ Len(SubSeq(b, first, last)) <= Len(b)
        BY <4>1, <4>2
      <4>5. Len(SubSeq(b, first, last)) <= MaxLength
        BY <2>3, <3>2, <4>1, <4>4
      <4>. QED BY <4>3, <4>4, <4>5, BytesAreSequences
    <3>. QED BY <2>2, <3>2, ChunkHashAssumption DEF ChunksTold, s
  <2>5. RepairRestores(previous, current, size)
    BY <2>2, <2>3, <2>4, RepairRestoresHolds
  <2>6. ASSUME NEW other \in Bystanders
        PROVE  ApplyRepair(other, BuildRepair(previous, current, size)) \in {current, Invalid}
    <3>. DEFINE result == ApplyRepair(other, BuildRepair(previous, current, size))
    <3>1. other \in Seq(ByteValue)
      BY BystandersAssumption, BytesAreSequences
    <3>. HIDE DEF result
    <3>2. ASSUME result # Invalid PROVE result = current
      <4>1. result \in [1..Len(current) -> ByteValue] /\ HashOf(result) = HashOf(current)
        BY <2>2, <2>3, <3>1, <3>2, RepairedBytes DEF result
      <4>2. Len(current) \in 0..MaxLength
        BY <2>2, <2>3
      <4>3. result \in ByteStates
        BY <4>1, <4>2 DEF ByteStates
      <4>. QED BY <2>1, <4>1, <4>3, ChunkHashAssumption
    <3>. QED BY <3>2 DEF result
  <2>. QED BY <2>5, <2>6 DEF RepairNeverMisleads
<1>. QED BY <1>1, UpdatesTypeCorrectness, PTL
-----------------------------------------------------------------------------
(***************************************************************************)
(* The publisher.                                                          *)
(***************************************************************************)
Published ==
  {SnapshotPacket(n, Schema, s) : n \in Nat, s \in State} \cup
  {DeltaPacket(n, Schema, s, t) : n \in Nat, s \in State, t \in State}

LEMMA PublishedPackets ==
  \A p \in Published :
    p.sequence \in Nat /\ EncodedLen(p) \in Nat /\ p.schema_hash = Schema
<1>. SUFFICES ASSUME NEW p \in Published
              PROVE  p.sequence \in Nat /\ EncodedLen(p) \in Nat /\ p.schema_hash = Schema
  OBVIOUS
<1>1. p.sequence \in Nat /\ p.schema_hash = Schema
  BY DEF Published, SnapshotPacket, DeltaPacket
<1>2. Size(p.payload) \in Nat
  <2>1. CASE \E n \in Nat, s \in State : p = SnapshotPacket(n, Schema, s)
    <3>1. PICK s \in State : p.payload = s
      BY <2>1 DEF SnapshotPacket
    <3>. QED BY <3>1, SizeAssumption
  <2>2. CASE \E n \in Nat, s \in State, t \in State : p = DeltaPacket(n, Schema, s, t)
    <3>1. PICK s \in State, t \in State : p.payload = Diff(s, t)
      BY <2>2 DEF DeltaPacket
    <3>. QED BY <3>1, SizeAssumption
  <2>. QED BY <2>1, <2>2 DEF Published
<1>. QED BY <1>1, <1>2, HistoryBoundsAssumption DEF EncodedLen

\* A packet of a stream of given states, up to the last: a snapshot of the state given under its
\* sequence, or a delta to it, from the state before unless that was never
\* published.
Faithful(p, last, given, lost) ==
  /\ p.sequence \in (1..last) \ lost
  /\ \/ p = SnapshotPacket(p.sequence, Schema, given[p.sequence])
     \/ \E base \in State :
          /\ p = DeltaPacket(p.sequence, Schema, base, given[p.sequence])
          /\ p.sequence # 1
          /\ p.sequence - 1 \notin lost => base = given[p.sequence - 1]

PlanningInvariant ==
  /\ sequence \in 0..MaxSequence
  /\ log \in [0..sequence -> State]
  /\ burnt \subseteq 1..sequence
  /\ last_state \in State \cup {None}
  /\ sequence = 0 => last_state = None
  /\ sequence # 0 /\ sequence \notin burnt => last_state = log[sequence]
  /\ history.packets \in Seq(Published)
  /\ Len(history.packets) <= MaxPackets
  /\ history.bytes <= MaxBytes
  /\ history.bytes = TotalLen(history.packets)
  /\ Rising(history.packets)
  /\ \A i \in 1..Len(history.packets) : Faithful(history.packets[i], sequence, log, burnt)

\* What was recorded stays faithful when the log grows.
LEMMA FaithfulStays ==
  ASSUME PlanningInvariant, NEW s \in State, TakeSequence(s),
         burnt' \in {burnt, burnt \cup {sequence + 1}}, NEW p, Faithful(p, sequence, log, burnt)
  PROVE  Faithful(p, sequence', log', burnt') /\ p.sequence <= sequence
<1>1. /\ p.sequence \in (1..sequence) \ burnt /\ sequence \in Nat
      /\ sequence' = sequence + 1
      /\ \A n \in 0..sequence : log'[n] = log[n]
  BY DEF Faithful, TakeSequence, PlanningInvariant
<1>2. /\ p.sequence \in (1..sequence') \ burnt' /\ p.sequence - 1 \in 0..sequence
      /\ log'[p.sequence] = log[p.sequence]
      /\ log'[p.sequence - 1] = log[p.sequence - 1]
      /\ p.sequence - 1 \notin burnt' => p.sequence - 1 \notin burnt
  BY <1>1
<1>3. CASE p = SnapshotPacket(p.sequence, Schema, log[p.sequence])
  BY <1>1, <1>2, <1>3 DEF Faithful
<1>4. CASE \E base \in State :
             /\ p = DeltaPacket(p.sequence, Schema, base, log[p.sequence])
             /\ p.sequence # 1
             /\ p.sequence - 1 \notin burnt => base = log[p.sequence - 1]
  BY <1>1, <1>2, <1>4 DEF Faithful
<1>. QED BY <1>1, <1>3, <1>4 DEF Faithful

\* Spec => []PlanningInvariant: the history is a rising run of packets that
\* are faithful to the published states, within its bounds, and last_state
\* is the last state published.
THEOREM PlanningInvariance == Spec => []PlanningInvariant
<1>1. Init => PlanningInvariant
  <2>. SUFFICES ASSUME Init PROVE PlanningInvariant
    OBVIOUS
  <2>1. history.packets = <<>> /\ history.bytes = 0
    BY DEF Init, EmptyHistory
  <2>2. /\ history.packets \in Seq(Published) /\ Rising(history.packets)
        /\ \A i \in 1..Len(history.packets) : Faithful(history.packets[i], sequence, log, burnt)
        /\ Len(history.packets) = 0
    BY <2>1 DEF Rising
  <2>. QED
    BY <2>1, <2>2, TotalOfNothing, HistoryBoundsAssumption, MaxSequenceAssumption
    DEF Init, PlanningInvariant
<1>2. PlanningInvariant /\ [Next]_vars => PlanningInvariant'
  <2>. SUFFICES ASSUME PlanningInvariant, [Next]_vars PROVE PlanningInvariant'
    OBVIOUS
  <2>1. ASSUME NEW s \in State, TakeSequence(s)
        PROVE  /\ sequence' \in 0..MaxSequence /\ sequence' = sequence + 1
               /\ log' \in [0..sequence' -> State] /\ log'[sequence'] = s
               /\ \A n \in 0..sequence : log'[n] = log[n]
    BY <2>1, MaxSequenceAssumption DEF TakeSequence, PlanningInvariant
  <2>2. ASSUME NEW s \in State, TakeSequence(s), UNCHANGED history,
               burnt' \in {burnt, burnt \cup {sequence + 1}}
        PROVE  /\ history'.packets \in Seq(Published)
               /\ Len(history'.packets) <= MaxPackets
               /\ history'.bytes <= MaxBytes
               /\ history'.bytes = TotalLen(history'.packets)
               /\ Rising(history'.packets)
               /\ \A i \in 1..Len(history'.packets) : Faithful(history'.packets[i], sequence', log', burnt')
    <3>1. \A i \in 1..Len(history.packets) : Faithful(history.packets[i], sequence', log', burnt')
      <4>. TAKE i \in 1..Len(history.packets)
      <4>1. Faithful(history.packets[i], sequence, log, burnt)
        BY DEF PlanningInvariant
      <4>. QED BY <2>2, <4>1, FaithfulStays
    <3>. QED BY <2>2, <3>1 DEF PlanningInvariant
  <2>3. ASSUME NEW s \in State, Update(s) PROVE PlanningInvariant'
    <3>1. PICK p \in Candidates(s) : history' = RecordPacket(history, p)
      BY <2>3 DEF Update
    <3>2. TakeSequence(s) /\ last_state' = s /\ burnt' = burnt
      BY <2>3 DEF Update
    <3>3. /\ sequence' \in 0..MaxSequence /\ sequence' = sequence + 1
          /\ log' \in [0..sequence' -> State] /\ log'[sequence'] = s
          /\ \A n \in 0..sequence : log'[n] = log[n]
          /\ sequence \in Nat /\ burnt \subseteq 1..sequence
      BY <2>1, <3>2 DEF PlanningInvariant
    <3>4. p \in Published /\ p.sequence = sequence' /\ Faithful(p, sequence', log', burnt')
      <4>1. CASE p = SnapshotPacket(sequence + 1, Schema, s)
        <5>1. p.sequence = sequence + 1
          BY <4>1 DEF SnapshotPacket
        <5>. QED BY <3>2, <3>3, <4>1, <5>1 DEF Published, Faithful
      <4>2. CASE last_state # None /\ p = DeltaPacket(sequence + 1, Schema, last_state, s)
        <5>1. p.sequence = sequence + 1
          BY <4>2 DEF DeltaPacket
        <5>2. /\ last_state \in State /\ sequence # 0
              /\ sequence \notin burnt => last_state = log[sequence]
          BY <4>2 DEF PlanningInvariant
        <5>3. p \in Published
          BY <3>3, <4>2, <5>2 DEF Published
        <5>4. /\ p.sequence \in (1..sequence') \ burnt' /\ p.sequence # 1
              /\ log'[p.sequence] = s
              /\ p.sequence - 1 = sequence /\ log'[sequence] = log[sequence]
          BY <3>2, <3>3, <5>1, <5>2
        <5>5. Faithful(p, sequence', log', burnt')
          BY <3>2, <3>3, <4>2, <5>1, <5>2, <5>4 DEF Faithful
        <5>. QED BY <3>3, <5>1, <5>3, <5>5
      <4>. QED BY <3>1, <4>1, <4>2 DEF Candidates
    <3>. DEFINE old == history.packets
                new == history'.packets
                all == Append(old, p)
    <3>5. /\ old \in Seq(Published) /\ Rising(old)
          /\ \A i \in 1..Len(old) : Faithful(old[i], sequence', log', burnt') /\ old[i].sequence <= sequence
      <4>1. old \in Seq(Published) /\ Rising(old) /\ \A i \in 1..Len(old) : Faithful(old[i], sequence, log, burnt)
        BY DEF PlanningInvariant
      <4>. QED BY <3>2, <4>1, FaithfulStays
    <3>6. /\ Newest(new, all)
          /\ new \in Seq(Published)
          /\ Len(new) <= MaxPackets
          /\ history'.bytes = TotalLen(new)
          /\ history'.bytes <= MaxBytes
      <4>1. \A x \in Published : EncodedLen(x) \in Nat
        BY PublishedPackets
      <4>2. history.packets \in Seq(Published) /\ history.bytes = TotalLen(history.packets)
        BY DEF PlanningInvariant
      <4>. QED BY <3>1, <3>4, <4>1, <4>2, RecordKeepsBounds
    <3>. HIDE DEF old, new
    <3>7. PICK m \in 0..(Len(old) + 1) : new = SubSeq(all, m + 1, Len(old) + 1)
      <4>1. Len(all) = Len(old) + 1
        BY <3>4, <3>5
      <4>. HIDE DEF all
      <4>. QED BY <3>6, <4>1 DEF Newest
    <3>8. /\ Len(all) = Len(old) + 1 /\ Len(old) \in Nat
          /\ \A i \in 1..Len(old) : all[i] = old[i]
          /\ all[Len(old) + 1] = p
      BY <3>4, <3>5
    <3>9. \A i \in 1..Len(new) : m + i \in 1..(Len(old) + 1) /\ new[i] = all[m + i]
      BY <3>7, <3>8
    <3>. HIDE DEF all
    <3>10. \A i \in 1..(Len(old) + 1) : Faithful(all[i], sequence', log', burnt')
      BY <3>4, <3>5, <3>8
    <3>11. \A i \in 1..(Len(old) + 1), j \in 1..(Len(old) + 1) :
             i < j => all[i].sequence < all[j].sequence
      <4>. SUFFICES ASSUME NEW i \in 1..(Len(old) + 1), NEW j \in 1..(Len(old) + 1), i < j
                    PROVE  all[i].sequence < all[j].sequence
        OBVIOUS
      <4>1. i \in 1..Len(old) /\ all[i] = old[i]
        BY <3>8
      <4>2. CASE j = Len(old) + 1
        <5>1. old[i].sequence <= sequence /\ old[i].sequence \in Nat
          BY <3>5, <4>1, PublishedPackets
        <5>. QED BY <3>3, <3>4, <3>8, <4>1, <4>2, <5>1
      <4>3. CASE j \in 1..Len(old)
        BY <3>5, <3>8, <4>1, <4>3 DEF Rising
      <4>. QED BY <3>8, <4>2, <4>3
    <3>12. Rising(new)
      <4>. SUFFICES ASSUME NEW i \in 1..Len(new), NEW j \in 1..Len(new), i < j
                    PROVE  new[i].sequence < new[j].sequence
        BY DEF Rising
      <4>1. /\ m + i \in 1..(Len(old) + 1) /\ m + j \in 1..(Len(old) + 1)
            /\ new[i] = all[m + i] /\ new[j] = all[m + j]
        BY <3>9
      <4>2. m + i < m + j
        BY <3>7, <3>8
      <4>3. all[m + i].sequence < all[m + j].sequence
        BY <3>11, <4>1, <4>2
      <4>. QED BY <4>1, <4>3
    <3>13. \A i \in 1..Len(new) : Faithful(new[i], sequence', log', burnt')
      <4>. TAKE i \in 1..Len(new)
      <4>1. Faithful(all[m + i], sequence', log', burnt') /\ new[i] = all[m + i]
        BY <3>9, <3>10
      <4>. QED BY <4>1 DEF Faithful
    <3>14. burnt' \subseteq 1..sequence' /\ sequence' # 0 /\ last_state' = log'[sequence']
      BY <3>2, <3>3
    <3>. QED BY <3>2, <3>3, <3>6, <3>12, <3>13, <3>14 DEF PlanningInvariant, new
  <2>4. ASSUME NEW s \in State, UnrecordedUpdate(s) PROVE PlanningInvariant'
    <3>1. TakeSequence(s) /\ last_state' = s /\ burnt' = burnt /\ history' = history
      BY <2>4 DEF UnrecordedUpdate
    <3>2. sequence' # 0 /\ last_state' = log'[sequence'] /\ burnt' \subseteq 1..sequence'
      BY <2>1, <3>1 DEF PlanningInvariant
    <3>. QED BY <2>1, <2>2, <3>1, <3>2 DEF PlanningInvariant
  <2>5. ASSUME NEW s \in State, FailedUpdate(s) PROVE PlanningInvariant'
    <3>1. /\ TakeSequence(s) /\ last_state' = last_state /\ history' = history
          /\ burnt' = burnt \cup {sequence + 1}
      BY <2>5 DEF FailedUpdate
    <3>2. sequence' # 0 /\ sequence' \in burnt' /\ burnt' \subseteq 1..sequence'
      BY <2>1, <3>1 DEF PlanningInvariant
    <3>. QED BY <2>1, <2>2, <3>1, <3>2 DEF PlanningInvariant
  <2>6. CASE UNCHANGED vars
    BY <2>6 DEF PlanningInvariant, vars, Rising, Faithful
  <2>. QED BY <2>3, <2>4, <2>5, <2>6 DEF Next
<1>. QED BY <1>1, <1>2, PTL DEF Spec

\* Spec => []TypeOK: the variables keep their types, and however packets are
\* evicted the history stays within max_packets and max_bytes and its byte
\* counter is the total of what it retains.
THEOREM PlanningTypeCorrectness == Spec => []TypeOK
<1>1. PlanningInvariant => TypeOK
  BY DEF PlanningInvariant, TypeOK
<1>. QED BY <1>1, PlanningInvariance, PTL
-----------------------------------------------------------------------------
(***************************************************************************)
(* The plans.                                                              *)
(***************************************************************************)
LEMMA SnapshotIsPublished ==
  ASSUME PlanningInvariant
  PROVE  /\ RecoverySnapshot \in Published
         /\ RecoverySnapshot.sequence = sequence
         /\ TotalLen(<<RecoverySnapshot>>) = EncodedLen(RecoverySnapshot)
         /\ EncodedLen(RecoverySnapshot) \in Nat
<1>1. RecoverySnapshot \in Published
  BY DEF PlanningInvariant, RecoverySnapshot, Published
<1>2. RecoverySnapshot.sequence = sequence
  BY DEF RecoverySnapshot, SnapshotPacket
<1>. DEFINE x == RecoverySnapshot
<1>. HIDE DEF x
<1>3. x \in Published /\ EncodedLen(x) \in Nat
  BY <1>1, PublishedPackets DEF x
<1>4. TotalLen(Append(<<>>, x)) = TotalLen(<<>>) + EncodedLen(x)
  <2>1. <<>> \in Seq(Published)
    OBVIOUS
  <2>. QED BY <1>3, <2>1, TotalOfMore
<1>5. Append(<<>>, x) = <<x>>
  OBVIOUS
<1>6. TotalLen(<<x>>) = EncodedLen(x)
  BY <1>3, <1>4, <1>5, TotalOfNothing
<1>. QED BY <1>1, <1>2, <1>3, <1>6 DEF x

\* What is replayed to a client at n: packets of the history in the gap.
LEMMA ReplayOfGap ==
  ASSUME PlanningInvariant, NEW n \in Nat,
         NEW q, q = Missing(history, n, RecoverySnapshot)
  PROVE  /\ q \in Seq(Published) /\ Rising(q) /\ TotalLen(q) \in Nat
         /\ InGap(q, history.packets, n, sequence)
<1>1. \A p \in Published : p.sequence \in Nat /\ EncodedLen(p) \in Nat
  BY PublishedPackets
<1>2. history.packets \in Seq(Published) /\ Rising(history.packets) /\ sequence \in Nat
  BY DEF PlanningInvariant
<1>3. RecoverySnapshot.sequence = sequence
  BY SnapshotIsPublished
<1>. HIDE DEF RecoverySnapshot
<1>4. /\ q \in Seq(Published) /\ Rising(q)
      /\ InGap(q, history.packets, n, RecoverySnapshot.sequence)
  BY <1>1, <1>2, <1>3, MissingAreAll
<1>5. TotalLen(q) \in Nat
  <2>1. 0 \in 0..Len(q)
    BY <1>4
  <2>. QED BY <1>1, <1>4, <2>1, TotalSplits
<1>. QED BY <1>3, <1>4, <1>5

LEMMA PublishedDeltas ==
  \A p \in Published : p.kind = "Delta" => p.base_sequence = p.sequence - 1
BY DEF Published, SnapshotPacket, DeltaPacket

\* Spec => []PlanIsCheapest: whatever was evicted, lost or sent as a
\* snapshot, no plan costs more than the snapshot, a repair never more than
\* the plan it replaces, and a retained unbroken run of deltas that is
\* cheaper than the snapshot is replayed.
THEOREM PlanIsCheapestHolds ==
  ASSUME NEW Byte, State \subseteq Seq(Byte)
  PROVE  Spec => []PlanIsCheapest
<1>1. PlanningInvariant => PlanIsCheapest
  <2>. SUFFICES ASSUME PlanningInvariant, NEW n \in 0..sequence
                PROVE
         LET plan == Plan(history, n, RecoverySnapshot)
         IN  /\ TotalLen(plan) <= EncodedLen(RecoverySnapshot)
             /\ plan # <<RecoverySnapshot>> => Len(plan) = sequence - n
             /\ \A bytes \in Receivers \cup {None} :
                  EstimatedBytes(PlanV30(history, n, bytes, log[sequence], RecoverySnapshot, 2))
                    <= TotalLen(plan)
             /\ ( /\ n < sequence
                  /\ \A m \in (n + 1)..sequence :
                       \E i \in 1..Len(history.packets) :
                         history.packets[i].sequence = m /\ history.packets[i].kind = "Delta"
                  /\ TotalLen(Missing(history, n, RecoverySnapshot))
                       < EncodedLen(RecoverySnapshot) )
                => plan # <<RecoverySnapshot>>
    BY DEF PlanIsCheapest
  <2>. DEFINE x == RecoverySnapshot
              plan == Plan(history, n, x)
              q == Missing(history, n, x)
  <2>1. sequence \in Nat /\ n \in Nat /\ n # None /\ x.sequence = sequence
    <3>1. sequence \in Nat
      BY DEF PlanningInvariant
    <3>2. x.sequence = sequence
      BY SnapshotIsPublished
    <3>3. n \in Nat /\ n # None
      BY <3>1, NoneAssumption
    <3>. QED BY <3>1, <3>2, <3>3
  <2>2. /\ TotalLen(<<x>>) = EncodedLen(x) /\ EncodedLen(x) \in Nat
        /\ q \in Seq(Published) /\ TotalLen(q) \in Nat /\ Rising(q)
        /\ InGap(q, history.packets, n, sequence)
    BY <2>1, SnapshotIsPublished, ReplayOfGap
  <2>. HIDE DEF x, q
  <2>3. plan = IF n < sequence /\ Chained(q, n, sequence) /\ TotalLen(q) < EncodedLen(x)
               THEN q ELSE <<x>>
    BY <2>1 DEF Plan, q
  <2>. HIDE DEF plan
  <2>4. TotalLen(plan) <= EncodedLen(x) /\ TotalLen(plan) \in Nat
    BY <2>2, <2>3
  <2>5. plan # <<x>> => Len(plan) = sequence - n
    BY <2>3 DEF Chained
  <2>6. ASSUME NEW bytes \in Receivers \cup {None}
        PROVE  EstimatedBytes(PlanV30(history, n, bytes, log[sequence], x, 2)) <= TotalLen(plan)
    <3>. DEFINE repair == BuildRepair(bytes, log[sequence], 2)
    <3>1. PlanV30(history, n, bytes, log[sequence], x, 2) =
            IF bytes # None /\ PayloadBytes(repair) < TotalLen(plan)
            THEN [packets |-> <<>>, repair |-> repair]
            ELSE [packets |-> plan, repair |-> None]
      BY DEF PlanV30, plan
    <3>5. bytes # None => PayloadBytes(repair) \in Nat
      <4>. SUFFICES ASSUME bytes # None PROVE PayloadBytes(repair) \in Nat
        OBVIOUS
      <4>1. <<>> \in Seq(Byte)
        OBVIOUS
      <4>2. log[sequence] \in State
        BY DEF PlanningInvariant
      <4>3. bytes \in Seq(Byte) /\ log[sequence] \in Seq(Byte) /\ 2 \in Nat
        BY <4>1, <4>2 DEF Receivers
      <4>. QED BY <4>3, RepairCosts
    <3>. HIDE DEF repair
    <3>2. CASE bytes # None /\ PayloadBytes(repair) < TotalLen(plan) /\ repair # None
      BY <2>4, <3>1, <3>2, <3>5 DEF EstimatedBytes
    <3>3. CASE bytes # None /\ PayloadBytes(repair) < TotalLen(plan) /\ repair = None
      BY <2>4, <3>1, <3>3, TotalOfNothing DEF EstimatedBytes
    <3>4. CASE ~(bytes # None /\ PayloadBytes(repair) < TotalLen(plan))
      BY <2>4, <3>1, <3>4 DEF EstimatedBytes
    <3>. QED BY <3>2, <3>3, <3>4
  <2>7. ASSUME n < sequence,
               \A m \in (n + 1)..sequence :
                 \E i \in 1..Len(history.packets) :
                   history.packets[i].sequence = m /\ history.packets[i].kind = "Delta",
               TotalLen(q) < EncodedLen(x)
        PROVE  plan # <<x>>
    <3>. DEFINE s == history.packets
    <3>1. /\ s \in Seq(Published) /\ Rising(s) /\ Len(s) \in Nat
          /\ \A j \in 1..Len(s) : s[j] \in Published /\ s[j].sequence \in Nat
      BY PublishedPackets DEF PlanningInvariant
    <3>2. /\ \A i \in 1..Len(q) : /\ \E j \in 1..Len(s) : q[i] = s[j]
                                  /\ q[i].sequence \in (n + 1)..sequence
          /\ \A j \in 1..Len(s) : s[j].sequence \in (n + 1)..sequence
                                    => \E i \in 1..Len(q) : q[i] = s[j]
          /\ \A m \in (n + 1)..sequence :
               \E i \in 1..Len(s) : s[i].sequence = m /\ s[i].kind = "Delta"
      <4>1. InGap(q, s, n, sequence)
        BY <2>2
      <4>. QED BY <2>7, <4>1 DEF InGap
    <3>. HIDE DEF s
    <3>3. \A m \in (n + 1)..sequence : \E i \in 1..Len(q) : q[i].sequence = m
      <4>. TAKE m \in (n + 1)..sequence
      <4>1. PICK j \in 1..Len(s) : s[j].sequence = m
        BY <3>2
      <4>2. PICK i \in 1..Len(q) : q[i] = s[j]
        BY <3>2, <4>1
      <4>. QED BY <4>1, <4>2
    <3>4. Len(q) = sequence - n /\ \A i \in 1..Len(q) : q[i].sequence = n + i
      <4>1. \A i \in 1..Len(q) : q[i].sequence \in (n + 1)..sequence
        BY <3>2
      <4>2. n <= sequence
        BY <2>1, <2>7
      <4>3. \A p \in Published : p.sequence \in Nat
        BY PublishedPackets
      <4>. QED BY <2>1, <2>2, <3>3, <4>1, <4>2, <4>3, RunFillsGap
    <3>5. \A i, j \in 1..Len(s) : s[i].sequence = s[j].sequence => i = j
      <4>. SUFFICES ASSUME NEW i \in 1..Len(s), NEW j \in 1..Len(s), i < j
                    PROVE  s[i].sequence # s[j].sequence
        BY <3>1
      <4>. QED BY <3>1 DEF Rising
    <3>6. ASSUME NEW i \in 1..Len(q) PROVE q[i].base_sequence = n + i - 1
      <4>1. PICK j \in 1..Len(s) : q[i] = s[j]
        BY <3>2
      <4>2. PICK l \in 1..Len(s) : s[l].sequence = q[i].sequence /\ s[l].kind = "Delta"
        BY <3>2
      <4>3. q[i].kind = "Delta" /\ q[i] \in Published
        BY <3>1, <3>5, <4>1, <4>2
      <4>4. q[i].base_sequence = q[i].sequence - 1
        BY <4>3, PublishedDeltas
      <4>. QED BY <2>1, <3>4, <4>4
    <3>7. Chained(q, n, sequence)
      BY <3>4, <3>6 DEF Chained
    <3>8. plan = q
      BY <2>3, <2>7, <3>7
    <3>. QED BY <2>2, <2>7, <3>8
  <2>. QED BY <2>4, <2>5, <2>6, <2>7 DEF x, q, plan
<1>. QED BY <1>1, PlanningInvariance, PTL
-----------------------------------------------------------------------------
(***************************************************************************)
(* The receiver of a plan.                                                 *)
(***************************************************************************)
FollowStart(d) == d
FollowStep(d, e, p) == Apply(e, Config, p)

Follows == INSTANCE FoldTheorems WITH Start <- FollowStart, Step <- FollowStep

LEMMA FollowIsFold ==
  ASSUME NEW d, NEW packets
  PROVE  Follow(d, packets) = Follows!Fold(d, packets)
BY DEF Follow, Follows!Fold, FollowStart, FollowStep, FoldLeft, Follows!FoldLeft,
       MapThenFoldSet, Follows!MapThenFoldSet, Max, Follows!Max

\* A decoder at n that holds what passes for the state given under n, and
\* has seen no newer one.
InStep(d, n) ==
  /\ d.sequence = n
  /\ d.state \in Like[log[n]]
  /\ d.seen \in Seq(Nat)
  /\ Len(d.seen) <= WindowCapacity
  /\ WindowInOrder(d)

LEMMA DecodersAtInStep ==
  ASSUME NEW n \in Nat, NEW d \in DecodersAt(n)
  PROVE  InStep(d, n)
<1>0. n # None
  BY NoneAssumption
<1>1. /\ d.sequence = n /\ d.state \in Like[log[n]]
      /\ d.seen = <<n>>
  BY <1>0 DEF DecodersAt
<1>2. /\ <<n>> \in Seq(Nat) /\ Len(<<n>>) = 1 /\ <<n>>[1] = n
      /\ 1 <= WindowCapacity
  BY CapacityAssumption
<1>. QED BY <1>0, <1>1, <1>2 DEF InStep, WindowInOrder, InWindow

\* A snapshot brings a decoder that is in step, or holds nothing, to its
\* own sequence.
LEMMA SnapshotRestores ==
  ASSUME PlanningInvariant, NEW d,
         d = EmptyDecoder \/ \E n \in 0..sequence : InStep(d, n),
         NEW e, e = Apply(d, Config, RecoverySnapshot)
  PROVE  e.sequence = sequence /\ e.state \in Like[log[sequence]]
<1>. DEFINE p == RecoverySnapshot
<1>1. /\ p.kind = "Snapshot" /\ p.sequence = sequence /\ p.schema_hash = Config.schema
      /\ p.payload = log[sequence] /\ p.base_hash = Hash(log[sequence])
  BY DEF RecoverySnapshot, SnapshotPacket, Config
<1>2. sequence \in Nat /\ log[sequence] \in State
  BY DEF PlanningInvariant
<1>3. ~Unreadable(Config, p)
  <2>1. Size(log[sequence]) \in Nat /\ Size(log[sequence]) <= Limit /\ Limit \in Nat
    BY <1>2, SizeAssumption, LimitAssumption
  <2>2. ~(Size(log[sequence]) > Limit)
    BY <2>1
  <2>. QED BY <1>1, <2>2 DEF Unreadable, Config
<1>. HIDE DEF p
<1>4. ~Stale(d, p) => e.sequence = sequence /\ e.state \in Like[log[sequence]]
  <2>. SUFFICES ASSUME ~Stale(d, p) PROVE e.sequence = sequence /\ e.state \in Like[log[sequence]]
    OBVIOUS
  <2>1. Outcome(d, Config, p) = "Applied"
    BY <1>1, <1>3 DEF Outcome
  <2>2. e = Advance(d, Config, p)
    BY <2>1 DEF Apply, p
  <2>. QED BY <1>1, <1>2, <2>2, LikeItself DEF Advance, Resulting
<1>5. CASE d = EmptyDecoder
  <2>1. ~Stale(d, p)
    BY <1>5 DEF EmptyDecoder, Stale, InWindow
  <2>. QED BY <1>4, <2>1
<1>6. CASE \E n \in 0..sequence : InStep(d, n)
  <2>1. PICK n \in 0..sequence : InStep(d, n)
    BY <1>6
  <2>2. /\ WindowInOrder(d) /\ d.seen \in Seq(Nat) /\ d.sequence = n /\ n \in Nat
        /\ d.state \in Like[log[n]] /\ n # None
    BY <2>1, NoneAssumption DEF InStep
  <2>3. Stale(d, p) <=> sequence <= n
    BY <1>1, <1>2, <2>2, StaleComparesSequences
  <2>4. CASE n = sequence
    <3>1. Outcome(d, Config, p) = "Duplicate"
      BY <1>1, <1>2, <2>3, <2>4 DEF Outcome
    <3>2. e = d
      BY <3>1 DEF Apply, p
    <3>. QED BY <2>2, <2>4, <3>2
  <2>5. CASE n # sequence
    BY <1>2, <1>4, <2>3, <2>5
  <2>. QED BY <2>4, <2>5
<1>. QED BY <1>5, <1>6

\* A recorded packet that is the next for a decoder moves it to what passes
\* for the state published, or finds that the decoder diverged.
LEMMA FaithfulMoves ==
  ASSUME PlanningInvariant, NEW n \in Nat, n + 1 <= sequence,
         NEW d, InStep(d, n),
         NEW p \in Published, Faithful(p, sequence, log, burnt),
         p.sequence = n + 1, p.base_sequence = n
  PROVE  \/ InStep(Apply(d, Config, p), n + 1)
         \/ Apply(d, Config, p) = d /\ Diverged(d)
<1>1. /\ p.schema_hash = Config.schema /\ n + 1 \in Nat /\ n # None
      /\ log[n] \in State /\ log[n + 1] \in State
  BY PublishedPackets, NoneAssumption DEF Config, PlanningInvariant
<1>2. /\ WindowInOrder(d) /\ d.seen \in Seq(Nat) /\ d.sequence = n
      /\ d.state \in Like[log[n]] /\ Len(d.seen) <= WindowCapacity
  BY DEF InStep
<1>3. ~Stale(d, p) /\ d.state \in State
  BY <1>1, <1>2, StaleComparesSequences, LikeItself
<1>4. ASSUME Outcome(d, Config, p) = "Applied", Resulting(d, Config, p) \in Like[log[n + 1]]
      PROVE  InStep(Apply(d, Config, p), n + 1)
  <2>. DEFINE e == Advance(d, Config, p)
  <2>1. /\ Apply(d, Config, p) = e
        /\ e.sequence = n + 1 /\ e.state \in Like[log[n + 1]] /\ e.seen = Record(d.seen, n + 1)
    BY <1>4 DEF Apply, Advance
  <2>2. \A i \in 1..Len(d.seen) : d.seen[i] <= n + 1
    BY <1>1, <1>2 DEF WindowInOrder
  <2>3. /\ Record(d.seen, n + 1) \in Seq(Nat)
        /\ Len(Record(d.seen, n + 1)) <= WindowCapacity
        /\ InWindow(Record(d.seen, n + 1), n + 1)
        /\ \A i \in 1..Len(Record(d.seen, n + 1)) : Record(d.seen, n + 1)[i] <= n + 1
    BY <1>1, <1>2, <2>2, RecordKeepsWindow
  <2>. HIDE DEF e
  <2>. QED BY <1>1, <2>1, <2>3, NoneAssumption DEF InStep, WindowInOrder
<1>5. CASE p = SnapshotPacket(n + 1, Schema, log[n + 1])
  <2>1. p.kind = "Snapshot" /\ p.payload = log[n + 1] /\ p.base_hash = Hash(log[n + 1])
    BY <1>5 DEF SnapshotPacket
  <2>2. ~Unreadable(Config, p)
    <3>1. Size(log[n + 1]) \in Nat /\ Size(log[n + 1]) <= Limit /\ Limit \in Nat
      BY <1>1, SizeAssumption, LimitAssumption
    <3>2. ~(Size(log[n + 1]) > Limit)
      BY <3>1
    <3>. QED BY <2>1, <3>2 DEF Unreadable, Config
  <2>. QED BY <1>1, <1>3, <1>4, <2>1, <2>2, LikeItself DEF Outcome, Resulting
<1>6. ASSUME NEW base \in State, p = DeltaPacket(n + 1, Schema, base, log[n + 1]),
             n \notin burnt => base = log[n]
      PROVE  \/ InStep(Apply(d, Config, p), n + 1)
             \/ Apply(d, Config, p) = d /\ Diverged(d)
  <2>1. /\ p.kind = "Delta" /\ p.payload = Diff(base, log[n + 1])
        /\ p.base_hash = Hash(base)
    BY <1>6 DEF DeltaPacket
  <2>2. CASE d.state = base
    <3>1. ~Unreadable(Config, p)
      <4>. DEFINE size == Size(Diff(base, log[n + 1]))
      <4>1. size \in Nat /\ size <= Limit /\ Limit \in Nat
        BY <1>1, SizeAssumption, LimitAssumption
      <4>2. ~(size > Limit)
        BY <4>1
      <4>. QED BY <2>1, <4>2 DEF Unreadable, Config
    <3>2. BaseMatches(d, p)
      BY <1>2, <2>1, <2>2 DEF BaseMatches
    <3>3. Patch(p.payload, d.state) \in Like[log[n + 1]]
      BY <1>1, <2>1, <2>2, PatchAssumption
    <3>. QED BY <1>1, <1>3, <1>4, <2>1, <3>1, <3>2, <3>3 DEF Outcome, Resulting
  <2>3. CASE d.state # base
    <3>1. ~BaseMatches(d, p)
      BY <1>3, <2>1, <2>3, HashAssumption DEF BaseMatches
    <3>2. Apply(d, Config, p) = d
      BY <1>1, <1>3, <2>1, <3>1 DEF Outcome, Apply
    <3>3. Diverged(d)
      BY <1>2, <1>6, <2>3 DEF Diverged
    <3>. QED BY <3>2, <3>3
  <2>. QED BY <2>2, <2>3
<1>7. \/ p = SnapshotPacket(n + 1, Schema, log[n + 1])
      \/ \E base \in State : /\ p = DeltaPacket(n + 1, Schema, base, log[n + 1])
                             /\ n \notin burnt => base = log[n]
  <2>1. n + 1 - 1 = n
    OBVIOUS
  <2>. QED BY <2>1 DEF Faithful
<1>. QED BY <1>5, <1>6, <1>7

\* A delta from a later sequence leaves a decoder alone.
LEMMA EarlyDeltaIgnored ==
  ASSUME PlanningInvariant, NEW n \in Nat, NEW m \in Nat, n < m,
         NEW d, InStep(d, n),
         NEW p \in Published, Faithful(p, sequence, log, burnt), p.base_sequence = m
  PROVE  Apply(d, Config, p) = d
<1>1. d.sequence = n /\ p.schema_hash = Config.schema
  BY PublishedPackets DEF InStep, Config
<1>2. p.kind = "Delta"
  <2>1. p.base_sequence # 0
    OBVIOUS
  <2>2. CASE p = SnapshotPacket(p.sequence, Schema, log[p.sequence])
    BY <2>1, <2>2 DEF SnapshotPacket
  <2>3. CASE \E base \in State : p = DeltaPacket(p.sequence, Schema, base, log[p.sequence])
    BY <2>3 DEF DeltaPacket
  <2>. QED BY <2>2, <2>3 DEF Faithful
<1>3. ~BaseMatches(d, p)
  BY <1>1 DEF BaseMatches
<1>. QED BY <1>1, <1>2, <1>3 DEF Outcome, Apply

\* A complete chain of packets leads a decoder to the publisher's sequence,
\* unless the decoder diverged, from the first or on the way.
LEMMA ChainRestores ==
  ASSUME PlanningInvariant, NEW n \in 0..sequence, NEW start \in DecodersAt(n),
         NEW q \in Seq(Published), Chained(q, n, sequence),
         \A i \in 1..Len(q) : Faithful(q[i], sequence, log, burnt)
  PROVE  LET d == Follow(start, q)
         IN  /\ d.state \in Like[log[d.sequence]]
             /\ d.sequence = sequence \/ Diverged(d)
<1>. DEFINE after(m) == Follows!Fold(start, SubSeq(q, 1, m))
            Led(d, c) == \/ InStep(d, c)
                         \/ Diverged(d) /\ \E j \in Nat : j < c /\ InStep(d, j)
            T == {m \in Nat : m <= Len(q) => Led(after(m), n + m)}
<1>. HIDE DEF after
<1>1. /\ n \in Nat /\ sequence \in Nat /\ Len(q) = sequence - n /\ Len(q) \in Nat
      /\ \A i \in 1..Len(q) : q[i].sequence = n + i /\ q[i].base_sequence = n + i - 1
  BY DEF PlanningInvariant, Chained
<1>2. 0 \in T
  <2>1. SubSeq(q, 1, 0) = <<>>
    OBVIOUS
  <2>2. Follows!Fold(start, <<>>) = FollowStart(start)
    BY Follows!FoldEmpty
  <2>3. after(0) = start
    BY <2>1, <2>2 DEF FollowStart, after
  <2>4. InStep(start, n) /\ n + 0 = n
    BY <1>1, DecodersAtInStep
  <2>. QED BY <2>3, <2>4
<1>3. ASSUME NEW m \in T PROVE m + 1 \in T
  <2>. SUFFICES ASSUME m + 1 <= Len(q) PROVE Led(after(m + 1), n + (m + 1))
    OBVIOUS
  <2>. DEFINE c == n + m
  <2>1. /\ m \in Nat /\ Led(after(m), c) /\ c \in Nat /\ n + (m + 1) = c + 1
        /\ c + 1 <= sequence /\ m + 1 \in 1..Len(q)
    BY <1>1
  <2>2. /\ SubSeq(q, 1, m) \in Seq(Published) /\ q[m + 1] \in Published
        /\ SubSeq(q, 1, m + 1) = Append(SubSeq(q, 1, m), q[m + 1])
    BY <2>1, Costs!PrefixGrows
  <2>3. after(m + 1) = Apply(after(m), Config, q[m + 1])
    <3>1. Follows!Fold(start, Append(SubSeq(q, 1, m), q[m + 1]))
            = FollowStep(start, Follows!Fold(start, SubSeq(q, 1, m)), q[m + 1])
      BY <2>2, Follows!FoldAppend
    <3>. QED BY <2>2, <3>1 DEF after, FollowStep
  <2>4. q[m + 1].sequence = c + 1 /\ q[m + 1].base_sequence = c
    <3>1. q[m + 1].sequence = n + (m + 1) /\ q[m + 1].base_sequence = n + (m + 1) - 1
      BY <1>1, <2>1
    <3>2. n + (m + 1) - 1 = c
      BY <1>1, <2>1
    <3>. QED BY <2>1, <3>1, <3>2
  <2>5. Faithful(q[m + 1], sequence, log, burnt)
    BY <2>1
  <2>. HIDE DEF c
  <2>6. CASE InStep(after(m), c)
    <3>1. \/ InStep(after(m + 1), c + 1)
          \/ after(m + 1) = after(m) /\ Diverged(after(m))
      BY <2>1, <2>2, <2>3, <2>4, <2>5, <2>6, FaithfulMoves
    <3>2. c < c + 1
      BY <2>1
    <3>. QED BY <2>1, <2>6, <3>1, <3>2
  <2>7. ASSUME Diverged(after(m)), NEW j \in Nat, j < c, InStep(after(m), j)
        PROVE  Led(after(m + 1), c + 1)
    <3>1. after(m + 1) = after(m)
      BY <2>1, <2>2, <2>3, <2>4, <2>5, <2>7, EarlyDeltaIgnored
    <3>2. j < c + 1
      BY <2>1, <2>7
    <3>. QED BY <2>7, <3>1, <3>2
  <2>8. Led(after(m + 1), c + 1)
    BY <2>1, <2>6, <2>7
  <2>. QED BY <2>1, <2>8
<1>4. T = Nat
  <2>. HIDE DEF T
  <2>1. T \in SUBSET Nat
    BY DEF T
  <2>. QED BY <1>2, <1>3, <2>1, Costs!SetInduction
<1>5. Led(after(Len(q)), sequence)
  <2>1. Len(q) \in T /\ n + Len(q) = sequence
    BY <1>1, <1>4
  <2>. QED BY <1>1, <2>1
<1>6. after(Len(q)) = Follow(start, q)
  <2>1. SubSeq(q, 1, Len(q)) = q
    BY SubSeqFull
  <2>. QED BY <2>1, FollowIsFold DEF after
<1>. QED BY <1>5, <1>6 DEF InStep

\* Spec => []PlanRestores: whatever was evicted, lost before it was recorded
\* or sent as a snapshot, a plan brings a client at any sequence, or none, to
\* the publisher's sequence and state up to the signs of zeros, but for the
\* replay that meets a client that diverged, which it does not mislead; a
\* repair sent instead restores that state.
THEOREM PlanRestoresHolds ==
  ASSUME NEW Byte, State \subseteq Seq(Byte),
         \A s \in {1, 2}, a \in Receivers, b \in State : ChunksTold(a, b, s)
  PROVE  Spec => []PlanRestores
<1>1. PlanningInvariant => PlanRestores
  <2>. SUFFICES ASSUME PlanningInvariant, NEW n \in 0..sequence \cup {None}
                PROVE
         LET replay == Plan(history, n, RecoverySnapshot) IN
         /\ \A client \in DecodersAt(n) :
              LET d == Follow(client, replay)
              IN  /\ d.state \in Like[log[d.sequence]]
                  /\ \/ d.sequence = sequence
                     \/ replay # <<RecoverySnapshot>> /\ Diverged(d)
         /\ \A bytes \in Receivers, size \in 0..2 :
              LET plan == PlanV30(history, n, bytes, log[sequence], RecoverySnapshot, size)
              IN  \/ plan.repair = None /\ plan.packets = replay
                  \/ ApplyRepair(bytes, plan.repair) = log[sequence]
    BY DEF PlanRestores
  <2>. DEFINE x == RecoverySnapshot
              plan == Plan(history, n, x)
  <2>1. /\ sequence \in Nat /\ x \in Published /\ x.sequence = sequence
        /\ log[sequence] \in State
        /\ n # None => n \in 0..sequence /\ n \in Nat
    BY SnapshotIsPublished DEF PlanningInvariant
  <2>2. ASSUME plan = <<x>>, NEW start \in DecodersAt(n)
        PROVE  LET d == Follow(start, plan)
               IN  d.sequence = sequence /\ d.state \in Like[log[d.sequence]]
    <3>. DEFINE d == Follow(start, plan)
    <3>1. d = Apply(start, Config, x)
      <4>. HIDE DEF x
      <4>1. <<x>> = Append(<<>>, x) /\ <<>> \in Seq(Published)
        OBVIOUS
      <4>2. Follows!Fold(start, Append(<<>>, x)) = FollowStep(start, Follows!Fold(start, <<>>), x)
        BY <2>1, <4>1, Follows!FoldAppend
      <4>3. Follows!Fold(start, <<>>) = FollowStart(start)
        BY Follows!FoldEmpty
      <4>4. Follow(start, <<x>>) = Follows!Fold(start, <<x>>)
        BY FollowIsFold
      <4>. HIDE DEF plan
      <4>. QED BY <2>2, <4>1, <4>2, <4>3, <4>4 DEF FollowStep, FollowStart
    <3>2. start = EmptyDecoder \/ \E m \in 0..sequence : InStep(start, m)
      <4>1. CASE n = None
        BY <2>2, <4>1 DEF DecodersAt
      <4>2. CASE n # None
        BY <2>1, <2>2, <4>2, DecodersAtInStep
      <4>. QED BY <4>1, <4>2
    <3>. HIDE DEF d
    <3>3. d = Apply(start, Config, RecoverySnapshot)
      BY <3>1
    <3>4. d.sequence = sequence /\ d.state \in Like[log[sequence]]
      BY <3>2, <3>3, SnapshotRestores
    <3>. QED BY <3>4 DEF d
  <2>3. ASSUME plan # <<x>>, NEW start \in DecodersAt(n)
        PROVE  LET d == Follow(start, plan)
               IN  /\ d.state \in Like[log[d.sequence]]
                   /\ d.sequence = sequence \/ Diverged(d)
    <3>. DEFINE q == Missing(history, n, x)
    <3>1. n # None /\ plan = q /\ Chained(q, n, sequence)
      BY <2>1, <2>3 DEF Plan
    <3>2. q \in Seq(Published) /\ InGap(q, history.packets, n, sequence)
      BY <2>1, <3>1, ReplayOfGap
    <3>. HIDE DEF q, plan
    <3>3. \A i \in 1..Len(q) : Faithful(q[i], sequence, log, burnt)
      <4>. TAKE i \in 1..Len(q)
      <4>1. PICK j \in 1..Len(history.packets) : q[i] = history.packets[j]
        BY <3>2 DEF InGap
      <4>2. Faithful(history.packets[j], sequence, log, burnt)
        BY DEF PlanningInvariant
      <4>. QED BY <4>1, <4>2
    <3>. QED BY <2>1, <2>3, <3>1, <3>2, <3>3, ChainRestores
  <2>4. ASSUME NEW bytes \in Receivers, NEW size \in 0..2
        PROVE  LET v == PlanV30(history, n, bytes, log[sequence], x, size)
               IN  \/ v.repair = None /\ v.packets = plan
                   \/ ApplyRepair(bytes, v.repair) = log[sequence]
    <3>. DEFINE repair == BuildRepair(bytes, log[sequence], size)
                v == PlanV30(history, n, bytes, log[sequence], x, size)
    <3>1. v = IF bytes # None /\ PayloadBytes(repair) < TotalLen(plan)
              THEN [packets |-> <<>>, repair |-> repair]
              ELSE [packets |-> plan, repair |-> None]
      BY DEF PlanV30
    <3>2. ApplyRepair(bytes, repair) = log[sequence]
      <4>1. <<>> \in Seq(Byte)
        OBVIOUS
      <4>2. bytes \in Seq(Byte) /\ log[sequence] \in Seq(Byte) /\ size \in Nat
        <5>1. bytes \in State \cup {<<>>}
          BY DEF Receivers
        <5>2. bytes \in Seq(Byte)
          BY <4>1, <5>1
        <5>. QED BY <2>1, <5>2
      <4>3. ChunkSize(size) \in {1, 2}
        BY DEF ChunkSize
      <4>4. ChunksTold(bytes, log[sequence], ChunkSize(size))
        BY <2>1, <4>3
      <4>5. RepairRestores(bytes, log[sequence], size)
        BY <4>2, <4>4, RepairRestoresHolds
      <4>. QED BY <4>5 DEF RepairRestores
    <3>. HIDE DEF repair, plan, v
    <3>3. \/ v.repair = None /\ v.packets = plan
          \/ v.repair = repair
      BY <3>1
    <3>4. \/ v.repair = None /\ v.packets = plan
          \/ ApplyRepair(bytes, v.repair) = log[sequence]
      BY <3>2, <3>3
    <3>. QED BY <3>4 DEF v
  <2>5. ASSUME NEW start \in DecodersAt(n)
        PROVE  LET d == Follow(start, plan)
               IN  /\ d.state \in Like[log[d.sequence]]
                   /\ \/ d.sequence = sequence
                      \/ plan # <<x>> /\ Diverged(d)
    <3>1. CASE plan = <<x>>
      BY <2>2, <2>5, <3>1
    <3>2. CASE plan # <<x>>
      BY <2>3, <2>5, <3>2
    <3>. QED BY <3>1, <3>2
  <2>. HIDE DEF plan
  <2>. QED BY <2>4, <2>5 DEF plan
<1>. QED BY <1>1, PlanningInvariance, PTL
=============================================================================
