---------------------------- MODULE DecoderProofs ----------------------------
(***************************************************************************)
(* Lemmas about the decoder that the proofs of several systems rest on.    *)
(***************************************************************************)
EXTENDS Decoder, TLAPS

\* A state passes for itself.
LEMMA LikeItself ==
  ASSUME NEW s \in State
  PROVE  s \in Like[s] /\ Like[s] \subseteq State
BY DEF Like

\* Recording n in a window that holds nothing newer leaves a window within
\* its capacity that holds n and nothing newer.
LEMMA RecordKeepsWindow ==
  ASSUME NEW S \in SUBSET Nat, NEW seen \in Seq(S), NEW n \in S,
         Len(seen) <= WindowCapacity,
         \A i \in 1..Len(seen) : seen[i] <= n
  PROVE  /\ Record(seen, n) \in Seq(S)
         /\ Len(Record(seen, n)) <= WindowCapacity
         /\ InWindow(Record(seen, n), n)
         /\ \A i \in 1..Len(Record(seen, n)) : Record(seen, n)[i] <= n
<1>1. CASE InWindow(seen, n)
  BY <1>1 DEF Record
<1>2. CASE ~InWindow(seen, n) /\ Len(seen) < WindowCapacity
  <2>1. Record(seen, n) = Append(seen, n)
    BY <1>2 DEF Record
  <2>2. QED
    BY <1>2, <2>1, CapacityAssumption DEF InWindow
<1>3. CASE ~InWindow(seen, n) /\ ~(Len(seen) < WindowCapacity)
  <2>1. Record(seen, n) = Append(Tail(seen), n)
    BY <1>3 DEF Record
  <2>2. Len(seen) = WindowCapacity /\ Len(seen) \in Nat \ {0}
    BY <1>3, CapacityAssumption
  <2>3. /\ Tail(seen) \in Seq(S)
        /\ Len(Tail(seen)) = Len(seen) - 1
        /\ \A i \in 1..Len(Tail(seen)) : Tail(seen)[i] = seen[i + 1]
    BY <2>2
  <2>4. /\ Append(Tail(seen), n) \in Seq(S)
        /\ Len(Append(Tail(seen), n)) = WindowCapacity
        /\ Append(Tail(seen), n)[WindowCapacity] = n
        /\ \A i \in 1..(WindowCapacity - 1) : Append(Tail(seen), n)[i] = seen[i + 1]
    BY <2>2, <2>3
  <2>5. \A i \in 1..Len(Append(Tail(seen), n)) : Append(Tail(seen), n)[i] <= n
    BY <2>2, <2>4
  <2>6. QED
    BY <2>1, <2>2, <2>4, <2>5, CapacityAssumption DEF InWindow
<1>4. QED
  BY <1>1, <1>2, <1>3

\* A window is in order when it holds the decoder's sequence and nothing
\* newer, or nothing at all.
WindowInOrder(d) ==
  IF d.sequence = None THEN d.seen = <<>>
  ELSE /\ InWindow(d.seen, d.sequence)
       /\ \A i \in 1..Len(d.seen) : d.seen[i] <= d.sequence

\* With such a window the duplicate test is a comparison of sequences.
LEMMA StaleComparesSequences ==
  ASSUME NEW d, WindowInOrder(d), d.seen \in Seq(Nat),
         d.sequence \in Nat \cup {None}, NEW p, p.sequence \in Nat
  PROVE  Stale(d, p) <=> d.sequence # None /\ p.sequence <= d.sequence
<1>1. CASE d.sequence = None
  BY <1>1 DEF WindowInOrder, Stale, InWindow
<1>2. CASE d.sequence # None
  BY <1>2 DEF WindowInOrder, Stale, InWindow
<1>3. QED
  BY <1>1, <1>2

\* A decoder that takes a packet that is not stale keeps its window in order
\* and within its capacity.
LEMMA AdvanceKeepsWindow ==
  ASSUME NEW d, NEW config, NEW p, NEW top \in Nat,
         WindowInOrder(d), d.seen \in Seq(0..top), Len(d.seen) <= WindowCapacity,
         d.sequence \in 0..top \cup {None}, p.sequence \in 0..top, ~Stale(d, p)
  PROVE  /\ Advance(d, config, p).sequence = p.sequence
         /\ Advance(d, config, p).seen \in Seq(0..top)
         /\ Len(Advance(d, config, p).seen) <= WindowCapacity
         /\ WindowInOrder(Advance(d, config, p))
<1>1. 0..top \in SUBSET Nat /\ d.seen \in Seq(Nat) /\ p.sequence \in Nat /\ p.sequence # None
  BY NoneAssumption
<1>2. d.sequence # None => d.sequence < p.sequence /\ d.sequence \in Nat
  BY <1>1, StaleComparesSequences
<1>3. \A i \in 1..Len(d.seen) : d.seen[i] <= p.sequence
  BY <1>1, <1>2 DEF WindowInOrder
<1>4. /\ Record(d.seen, p.sequence) \in Seq(0..top)
      /\ Len(Record(d.seen, p.sequence)) <= WindowCapacity
      /\ InWindow(Record(d.seen, p.sequence), p.sequence)
      /\ \A i \in 1..Len(Record(d.seen, p.sequence)) :
           Record(d.seen, p.sequence)[i] <= p.sequence
  BY <1>1, <1>3, RecordKeepsWindow
<1>5. /\ Advance(d, config, p).sequence = p.sequence
      /\ Advance(d, config, p).seen = Record(d.seen, p.sequence)
  BY DEF Advance
<1>6. QED
  BY <1>1, <1>4, <1>5 DEF WindowInOrder
=============================================================================
