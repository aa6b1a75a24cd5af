------------------------------ MODULE CrdtProofs ------------------------------
(***************************************************************************)
(* The replicated values for any replicas: the laws of GCounter and        *)
(* PNCounter merges for all counters, and what they make of                *)
(* CounterReplicas; that a stamp of RegisterReplicas belongs to one value, *)
(* so that merging is a join and nothing is undone.                        *)
(***************************************************************************)
EXTENDS CounterReplicas, RegisterReplicas, TLAPS

LEMMA CounterShape ==
  ASSUME NEW g \in Counters
  PROVE  /\ DOMAIN g \subseteq Replicas
         /\ g = [r \in DOMAIN g |-> g[r]]
         /\ \A r \in DOMAIN g : g[r] \in 0..MaxU64
BY DEF Counters

LEMMA ComponentType ==
  ASSUME NEW g \in Counters, NEW r
  PROVE  Component(g, r) \in 0..MaxU64
BY CounterShape, MaxU64Assumption DEF Component

LEMMA MergeType ==
  ASSUME NEW g \in Counters, NEW h \in Counters
  PROVE  Merge(g, h) \in Counters
<1>1. DOMAIN g \cup DOMAIN h \in SUBSET Replicas
  BY CounterShape
<1>2. Merge(g, h) \in [DOMAIN g \cup DOMAIN h -> 0..MaxU64]
  BY ComponentType DEF Merge
<1>. QED BY <1>1, <1>2 DEF Counters

LEMMA IncrementType ==
  ASSUME NEW g \in Counters, NEW r \in Replicas, NEW amount \in Nat
  PROVE  Increment(g, r, amount) \in Counters
<1>1. DOMAIN g \cup {r} \in SUBSET Replicas
  BY CounterShape
<1>2. Component(g, r) + amount \in 0..MaxU64 \/ Overflows(g, r, amount)
  BY ComponentType, MaxU64Assumption DEF Overflows
<1>3. Increment(g, r, amount) \in [DOMAIN g \cup {r} -> 0..MaxU64]
  BY <1>2, ComponentType DEF Increment
<1>. QED BY <1>1, <1>3 DEF Counters

\* A component is read from a merge as the larger of the two.
LEMMA MergeComponent ==
  ASSUME NEW g \in Counters, NEW h \in Counters, NEW r
  PROVE  Component(Merge(g, h), r) =
           IF Component(g, r) < Component(h, r) THEN Component(h, r)
           ELSE Component(g, r)
<1>1. CASE r \in DOMAIN g \cup DOMAIN h
  BY <1>1 DEF Merge, Component
<1>2. CASE r \notin DOMAIN g \cup DOMAIN h
  BY <1>2 DEF Merge, Component
<1>. QED BY <1>1, <1>2

LEMMA IncrementComponent ==
  ASSUME NEW g \in Counters, NEW r, NEW amount \in Nat, NEW q
  PROVE  Component(Increment(g, r, amount), q) =
           IF q = r /\ ~Overflows(g, r, amount) THEN Component(g, r) + amount
           ELSE Component(g, q)
<1>1. CASE q \in DOMAIN g \cup {r}
  BY <1>1 DEF Increment, Component
<1>2. CASE q \notin DOMAIN g \cup {r}
  BY <1>2 DEF Increment, Component
<1>. QED BY <1>1, <1>2

\* Two counters are equal when they list the same replicas with the same
\* components.
LEMMA CounterEquality ==
  ASSUME NEW g \in Counters, NEW h \in Counters,
         DOMAIN g = DOMAIN h,
         \A r \in DOMAIN g : Component(g, r) = Component(h, r)
  PROVE  g = h
<1>1. \A r \in DOMAIN g : g[r] = h[r]
  BY DEF Component
<1>2. g = [r \in DOMAIN g |-> g[r]] /\ h = [r \in DOMAIN h |-> h[r]]
  BY CounterShape
<1>. QED BY <1>1, <1>2

LEMMA MergeDomain ==
  ASSUME NEW g, NEW h
  PROVE  DOMAIN Merge(g, h) = DOMAIN g \cup DOMAIN h
BY DEF Merge

\* The laws src/crdt/mod.rs demands, for every pair or triple of counters.
THEOREM GCounterLaws ==
  ASSUME NEW a \in Counters, NEW b \in Counters, NEW c \in Counters
  PROVE  /\ Merge(a, b) = Merge(b, a)
         /\ Merge(Merge(a, b), c) = Merge(a, Merge(b, c))
         /\ Merge(a, a) = a
<1>. DEFINE C(g, r) == Component(g, r)
<1>1. \A g \in {a, b, c} : \A r : C(g, r) \in Int
  BY ComponentType, MaxU64Assumption
<1>2. Merge(a, b) = Merge(b, a)
  <2>1. DOMAIN Merge(a, b) = DOMAIN Merge(b, a)
    BY MergeDomain
  <2>2. \A r : C(Merge(a, b), r) = C(Merge(b, a), r)
    BY <1>1, MergeComponent
  <2>. QED BY <2>1, <2>2, MergeType, CounterEquality
<1>3. Merge(Merge(a, b), c) = Merge(a, Merge(b, c))
  <2>1. DOMAIN Merge(Merge(a, b), c) = DOMAIN Merge(a, Merge(b, c))
    <3>1. /\ DOMAIN Merge(Merge(a, b), c) = DOMAIN Merge(a, b) \cup DOMAIN c
          /\ DOMAIN Merge(a, Merge(b, c)) = DOMAIN a \cup DOMAIN Merge(b, c)
      BY MergeDomain
    <3>2. /\ DOMAIN Merge(a, b) = DOMAIN a \cup DOMAIN b
          /\ DOMAIN Merge(b, c) = DOMAIN b \cup DOMAIN c
      BY MergeDomain
    <3>. QED BY <3>1, <3>2
  <2>2. Merge(a, b) \in Counters /\ Merge(b, c) \in Counters
    BY MergeType
  <2>3. \A r : C(Merge(Merge(a, b), c), r) = C(Merge(a, Merge(b, c)), r)
    <3>. TAKE r
    <3>1. /\ C(Merge(a, b), r) = IF C(a, r) < C(b, r) THEN C(b, r) ELSE C(a, r)
          /\ C(Merge(b, c), r) = IF C(b, r) < C(c, r) THEN C(c, r) ELSE C(b, r)
      BY MergeComponent
    <3>2. C(Merge(Merge(a, b), c), r) =
            IF C(Merge(a, b), r) < C(c, r) THEN C(c, r) ELSE C(Merge(a, b), r)
      BY <2>2, MergeComponent
    <3>3. C(Merge(a, Merge(b, c)), r) =
            IF C(a, r) < C(Merge(b, c), r) THEN C(Merge(b, c), r) ELSE C(a, r)
      BY <2>2, MergeComponent
    <3>4. C(a, r) \in Int /\ C(b, r) \in Int /\ C(c, r) \in Int
      BY <1>1
    <3>. HIDE DEF C
    <3>. QED BY <3>1, <3>2, <3>3, <3>4
  <2>. QED BY <2>1, <2>2, <2>3, MergeType, CounterEquality
<1>4. Merge(a, a) = a
  <2>1. DOMAIN Merge(a, a) = DOMAIN a
    BY MergeDomain
  <2>2. \A r : C(Merge(a, a), r) = C(a, r)
    BY <1>1, MergeComponent
  <2>. QED BY <2>1, <2>2, MergeType, CounterEquality
<1>. QED BY <1>2, <1>3, <1>4

\* The same of PNCounter, which merges both of its counters.
THEOREM PNCounterLaws ==
  ASSUME NEW a \in PNCounters, NEW b \in PNCounters, NEW c \in PNCounters
  PROVE  /\ MergePN(a, b) = MergePN(b, a)
         /\ MergePN(MergePN(a, b), c) = MergePN(a, MergePN(b, c))
         /\ MergePN(a, a) = a
<1>1. \A side \in {"positive", "negative"} :
        /\ a[side] \in Counters
        /\ b[side] \in Counters
        /\ c[side] \in Counters
  BY DEF PNCounters
<1>2. MergePN(a, b) = MergePN(b, a)
  BY <1>1, GCounterLaws DEF MergePN
<1>3. MergePN(MergePN(a, b), c) = MergePN(a, MergePN(b, c))
  BY <1>1, GCounterLaws DEF MergePN
<1>4. MergePN(a, a) = a
  BY <1>1, GCounterLaws DEF MergePN, PNCounters
<1>. QED BY <1>2, <1>3, <1>4
-----------------------------------------------------------------------------
LEMMA MergePNType ==
  ASSUME NEW c \in PNCounters, NEW d \in PNCounters
  PROVE  MergePN(c, d) \in PNCounters
BY MergeType DEF MergePN, PNCounters

LEMMA ZeroType == ZeroPN \in PNCounters
<1>1. ZeroCounter \in [{} -> 0..MaxU64]
  BY DEF ZeroCounter
<1>2. {} \in SUBSET Replicas
  OBVIOUS
<1>3. ZeroCounter \in Counters
  BY <1>1, <1>2 DEF Counters
<1>. QED BY <1>3 DEF ZeroPN, PNCounters

Sides == {"positive", "negative"}

\* What both kinds of step do to the counters: one replica moves to c, which
\* is sent too.
Moves(r, c) ==
  /\ counter' = [counter EXCEPT ![r] = c]
  /\ \E k : net' = net \cup {Message(c, k)}

LEMMA MovesType ==
  ASSUME CounterTypeOK, NEW r \in Replicas, NEW c \in PNCounters, Moves(r, c)
  PROVE  CounterTypeOK'
BY DEF CounterTypeOK, Moves, Message

\* The lead is kept by a move to a state whose own component does not shrink
\* and whose other components somebody has.
LEMMA MovesLead ==
  ASSUME CounterTypeOK, OwnersLead,
         NEW r \in Replicas, NEW c \in PNCounters, Moves(r, c),
         \A side \in Sides :
           Component(counter[r][side], r) <= Component(c[side], r),
         \A side \in Sides : \A q \in Replicas \ {r} :
           Component(c[side], q) <= Component(counter[q][side], q)
  PROVE  OwnersLead'
<1>. SUFFICES ASSUME NEW q \in Replicas, NEW side \in Sides
              PROVE  /\ \A p \in Replicas :
                          Component(counter'[p][side], q)
                            <= Component(counter'[q][side], q)
                     /\ \A m \in net' :
                          Component(m.counter[side], q)
                            <= Component(counter'[q][side], q)
  BY DEF OwnersLead, Sides
<1>1. /\ counter \in [Replicas -> PNCounters]
      /\ \A d \in PNCounters : d[side] \in Counters
      /\ \A m \in net : m.counter \in PNCounters
  BY DEF CounterTypeOK, PNCounters, Sides
<1>2. /\ \A p \in Replicas : Component(counter[p][side], q) \in Int
      /\ \A m \in net : Component(m.counter[side], q) \in Int
      /\ Component(c[side], q) \in Int
      /\ Component(counter[r][side], q) \in Int
  BY <1>1, ComponentType, MaxU64Assumption
<1>3. /\ counter'[r] = c
      /\ \A p \in Replicas \ {r} : counter'[p] = counter[p]
  BY <1>1 DEF Moves
<1>4. /\ \A p \in Replicas :
           Component(counter[p][side], q) <= Component(counter[q][side], q)
      /\ \A m \in net :
           Component(m.counter[side], q) <= Component(counter[q][side], q)
  BY DEF OwnersLead, Sides
<1>5. \A m \in net' : m \in net \/ m.counter = c
  BY DEF Moves, Message
<1>6. Component(counter[q][side], q) <= Component(counter'[q][side], q)
  <2>1. CASE q = r
    BY <2>1, <1>3
  <2>2. CASE q # r
    BY <2>2, <1>3, <1>2
  <2>. QED BY <2>1, <2>2
<1>7. Component(c[side], q) <= Component(counter'[q][side], q)
  <2>1. CASE q = r
    BY <2>1, <1>3, <1>2
  <2>2. CASE q # r
    BY <2>2, <1>3
  <2>. QED BY <2>1, <2>2
<1>8. Component(counter'[q][side], q) \in Int
  BY <1>2, <1>3
<1>9. \A p \in Replicas :
        Component(counter'[p][side], q) <= Component(counter'[q][side], q)
  <2>. TAKE p \in Replicas
  <2>1. CASE p = r
    BY <2>1, <1>3, <1>7
  <2>2. CASE p # r
    <3>1. Component(counter'[p][side], q) = Component(counter[p][side], q)
      BY <2>2, <1>3
    <3>. QED BY <3>1, <1>2, <1>4, <1>6, <1>8
  <2>. QED BY <2>1, <2>2
<1>10. \A m \in net' :
         Component(m.counter[side], q) <= Component(counter'[q][side], q)
  <2>. TAKE m \in net'
  <2>1. CASE m \in net
    BY <2>1, <1>2, <1>4, <1>6, <1>8
  <2>2. CASE m.counter = c
    BY <2>2, <1>7
  <2>. QED BY <2>1, <2>2, <1>5
<1>. QED BY <1>9, <1>10

CounterInvariant == CounterTypeOK /\ OwnersLead

LEMMA CountKeeps ==
  ASSUME CounterInvariant,
         NEW r \in Replicas, NEW side \in Sides, NEW amount \in Amounts,
         Count(r, side, amount)
  PROVE  CounterInvariant'
<1>. DEFINE c == [counter[r] EXCEPT ![side] = Increment(@, r, amount)]
<1>1. amount \in Nat
  BY AmountsAssumption
<1>2. counter[r] \in PNCounters /\ \A s \in Sides : counter[r][s] \in Counters
  BY DEF CounterInvariant, CounterTypeOK, PNCounters, Sides
<1>3. Increment(counter[r][side], r, amount) \in Counters
  BY <1>1, <1>2, IncrementType
<1>4. c \in PNCounters
  BY <1>2, <1>3 DEF PNCounters, Sides
<1>5. Moves(r, c)
  BY DEF Count, Moves
<1>6. \A s \in Sides : \A q \in Replicas :
        Component(c[s], q) =
          IF s = side /\ q = r /\ ~Overflows(counter[r][side], r, amount)
          THEN Component(counter[r][side], r) + amount
          ELSE Component(counter[r][s], q)
  <2>. TAKE s \in Sides
  <2>. TAKE q \in Replicas
  <2>1. CASE s = side
    <3>1. c[s] = Increment(counter[r][side], r, amount)
      BY <2>1, <1>2 DEF PNCounters, Sides
    <3>. QED BY <3>1, <2>1, <1>1, <1>2, IncrementComponent
  <2>2. CASE s # side
    <3>1. c[s] = counter[r][s]
      BY <2>2, <1>2 DEF PNCounters, Sides
    <3>. QED BY <3>1, <2>2
  <2>. QED BY <2>1, <2>2
<1>. HIDE DEF c
<1>7. \A s \in Sides : Component(counter[r][s], r) <= Component(c[s], r)
  <2>. TAKE s \in Sides
  <2>1. Component(counter[r][s], r) \in Int
    BY <1>2, ComponentType, MaxU64Assumption
  <2>. QED BY <2>1, <1>1, <1>6
<1>8. \A s \in Sides : \A q \in Replicas \ {r} :
        Component(c[s], q) <= Component(counter[q][s], q)
  BY <1>6 DEF CounterInvariant, OwnersLead, Sides
<1>. QED BY <1>4, <1>5, <1>7, <1>8, MovesType, MovesLead DEF CounterInvariant

LEMMA MergeKeeps ==
  ASSUME CounterInvariant, NEW r \in Replicas, NEW m \in net, MergeState(r, m)
  PROVE  CounterInvariant'
<1>. DEFINE c == MergePN(counter[r], m.counter)
<1>1. counter[r] \in PNCounters /\ m.counter \in PNCounters
  BY DEF CounterInvariant, CounterTypeOK
<1>2. c \in PNCounters
  BY <1>1, MergePNType
<1>3. Moves(r, c)
  BY DEF MergeState, Moves
<1>4. \A s \in Sides : counter[r][s] \in Counters /\ m.counter[s] \in Counters
  BY <1>1 DEF PNCounters, Sides
<1>5. \A s \in Sides : c[s] = Merge(counter[r][s], m.counter[s])
  BY DEF MergePN, Sides
<1>6. \A s \in Sides : \A q \in Replicas :
        /\ Component(counter[r][s], q) \in Int
        /\ Component(m.counter[s], q) \in Int
        /\ Component(c[s], q) =
             IF Component(counter[r][s], q) < Component(m.counter[s], q)
             THEN Component(m.counter[s], q) ELSE Component(counter[r][s], q)
  BY <1>4, <1>5, MergeComponent, ComponentType, MaxU64Assumption
<1>. HIDE DEF c
<1>7. \A s \in Sides : Component(counter[r][s], r) <= Component(c[s], r)
  BY <1>6
<1>8. \A s \in Sides : \A q \in Replicas \ {r} :
        Component(c[s], q) <= Component(counter[q][s], q)
  BY <1>6 DEF CounterInvariant, OwnersLead, Sides
<1>. QED BY <1>2, <1>3, <1>7, <1>8, MovesType, MovesLead DEF CounterInvariant

\* Both parts hold in every reachable state.
THEOREM CounterInvariance == CounterSpec => []CounterInvariant
<1>1. CounterInit => CounterInvariant
  <2>. SUFFICES ASSUME CounterInit PROVE CounterInvariant
    OBVIOUS
  <2>1. CounterTypeOK
    BY ZeroType DEF CounterInit, CounterTypeOK, Message
  <2>2. \A side \in Sides : \A q : Component(ZeroPN[side], q) = 0
    BY DEF ZeroPN, ZeroCounter, Component, Sides
  <2>3. OwnersLead
    BY <2>2 DEF CounterInit, OwnersLead, Message, Sides
  <2>. QED BY <2>1, <2>3 DEF CounterInvariant
<1>2. CounterInvariant /\ [CounterNext]_counterVars => CounterInvariant'
  <2>. SUFFICES ASSUME CounterInvariant, [CounterNext]_counterVars
                PROVE  CounterInvariant'
    OBVIOUS
  <2>1. ASSUME NEW r \in Replicas, NEW side \in Sides, NEW amount \in Amounts,
               Count(r, side, amount)
        PROVE  CounterInvariant'
    BY <2>1, CountKeeps
  <2>2. ASSUME NEW r \in Replicas, NEW m \in net, MergeState(r, m)
        PROVE  CounterInvariant'
    BY <2>2, MergeKeeps
  <2>3. CASE UNCHANGED counterVars
    BY <2>3 DEF CounterInvariant, CounterTypeOK, OwnersLead, counterVars
  <2>. QED BY <2>1, <2>2, <2>3 DEF CounterNext, Sides
<1>. QED BY <1>1, <1>2, PTL DEF CounterSpec

\* CounterTypeOK: no component leaves the range of a u64.
THEOREM CounterTypeCorrectness == CounterSpec => []CounterTypeOK
<1>1. CounterInvariant => CounterTypeOK
  BY DEF CounterInvariant
<1>. QED BY <1>1, CounterInvariance, PTL

\* OwnersLead: nobody, and no state on its way, is ahead of a replica in
\* that replica's own component.
THEOREM OwnersLeadHolds == CounterSpec => []OwnersLead
<1>1. CounterInvariant => OwnersLead
  BY DEF CounterInvariant
<1>. QED BY <1>1, CounterInvariance, PTL

\* MergeLaws: the laws hold of all states in use.
THEOREM MergeLawsHold == CounterSpec => []MergeLaws
<1>1. CounterInvariant => MergeLaws
  <2>. SUFFICES ASSUME CounterInvariant,
                       NEW a \in {m.counter : m \in net},
                       NEW b \in {m.counter : m \in net},
                       NEW c \in {m.counter : m \in net}
                PROVE  /\ MergePN(a, b) = MergePN(b, a)
                       /\ MergePN(MergePN(a, b), c) = MergePN(a, MergePN(b, c))
                       /\ MergePN(a, a) = a
    BY DEF MergeLaws
  <2>1. a \in PNCounters /\ b \in PNCounters /\ c \in PNCounters
    BY DEF CounterInvariant, CounterTypeOK
  <2>. QED BY <2>1, PNCounterLaws
<1>. QED BY <1>1, CounterInvariance, PTL
-----------------------------------------------------------------------------
(***************************************************************************)
(* Every update is counted exactly once.                                   *)
(***************************************************************************)
Updates == [side : Sides, amount : Amounts]

AmountStart(side) == 0
AmountStep(side, total, u) == IF u.side = side THEN total + u.amount ELSE total

Tally == INSTANCE FoldTheorems WITH Start <- AmountStart, Step <- AmountStep

\* What the first n of some updates count on one side.
TotalOf(s, side, n) == Tally!Fold(side, SubSeq(s, 1, n))

LEMMA AmountsAreTotals ==
  ASSUME NEW r, NEW side, NEW n
  PROVE  AmountsOf(r, side, n) = TotalOf(updates[r], side, n)
BY DEF AmountsOf, TotalOf, Tally!Fold, AmountStart, AmountStep, FoldLeft, Tally!FoldLeft,
       MapThenFoldSet, Tally!MapThenFoldSet, Max, Tally!Max

LEMMA TotalOfNone ==
  ASSUME NEW s, NEW side
  PROVE  TotalOf(s, side, 0) = 0
<1>1. SubSeq(s, 1, 0) = <<>>
  OBVIOUS
<1>. QED BY <1>1, Tally!FoldEmpty DEF TotalOf, AmountStart

LEMMA TotalOfNext ==
  ASSUME NEW s \in Seq(Updates), NEW side, NEW n \in Nat, n + 1 <= Len(s)
  PROVE  TotalOf(s, side, n + 1) = AmountStep(side, TotalOf(s, side, n), s[n + 1])
<1>1. s[n + 1] \in Updates
  OBVIOUS
<1>2. SubSeq(s, 1, n) \in Seq(Updates)
  OBVIOUS
<1>3. SubSeq(s, 1, n + 1) = Append(SubSeq(s, 1, n), s[n + 1])
  <2>. DEFINE a == SubSeq(s, 1, n + 1)
              b == Append(SubSeq(s, 1, n), s[n + 1])
  <2>1. /\ a \in Seq(Updates) /\ b \in Seq(Updates)
        /\ Len(a) = n + 1 /\ Len(b) = n + 1
        /\ \A i \in 1..(n + 1) : a[i] = b[i]
    BY <1>1, <1>2
  <2>. HIDE DEF a, b
  <2>2. a = b
    BY <2>1
  <2>. QED BY <2>2 DEF a, b
<1>4. Tally!Fold(side, Append(SubSeq(s, 1, n), s[n + 1]))
        = AmountStep(side, Tally!Fold(side, SubSeq(s, 1, n)), s[n + 1])
  <2>. DEFINE t == SubSeq(s, 1, n)
              u == s[n + 1]
  <2>1. t \in Seq(Updates) /\ u \in Updates
    BY <1>1, <1>2
  <2>. HIDE DEF t, u
  <2>2. Tally!Fold(side, Append(t, u)) = AmountStep(side, Tally!Fold(side, t), u)
    BY <2>1, Tally!FoldAppend
  <2>. QED BY <2>2 DEF t, u
<1>. QED BY <1>3, <1>4 DEF TotalOf

\* Totals are numbers and grow with what is counted.
LEMMA TotalsGrow ==
  ASSUME NEW s \in Seq(Updates), NEW side, NEW m \in Nat, NEW n \in Nat,
         m <= n, n <= Len(s)
  PROVE  /\ TotalOf(s, side, m) \in Nat /\ TotalOf(s, side, n) \in Nat
         /\ TotalOf(s, side, m) <= TotalOf(s, side, n)
<1>. DEFINE Grows(j) == j <= Len(s) => /\ TotalOf(s, side, j) \in Nat
                                       /\ \A i \in 0..j : /\ TotalOf(s, side, i) \in Nat
                                                          /\ TotalOf(s, side, i) <= TotalOf(s, side, j)
            T == {j \in Nat : Grows(j)}
<1>1. 0 \in T
  BY TotalOfNone
<1>2. ASSUME NEW j \in T PROVE j + 1 \in T
  <2>. SUFFICES ASSUME j + 1 <= Len(s) PROVE Grows(j + 1)
    OBVIOUS
  <2>1. /\ TotalOf(s, side, j) \in Nat
        /\ \A i \in 0..j : TotalOf(s, side, i) \in Nat /\ TotalOf(s, side, i) <= TotalOf(s, side, j)
    OBVIOUS
  <2>2. TotalOf(s, side, j + 1) = AmountStep(side, TotalOf(s, side, j), s[j + 1])
    BY TotalOfNext
  <2>3. s[j + 1].amount \in Nat
    <3>1. s[j + 1] \in Updates
      OBVIOUS
    <3>. QED BY <3>1, AmountsAssumption DEF Updates
  <2>4. TotalOf(s, side, j + 1) \in Nat /\ TotalOf(s, side, j) <= TotalOf(s, side, j + 1)
    BY <2>1, <2>2, <2>3 DEF AmountStep
  <2>5. \A i \in 0..(j + 1) : i \in 0..j \/ i = j + 1
    OBVIOUS
  <2>. QED BY <2>1, <2>4, <2>5
<1>3. T = Nat
  <2>. HIDE DEF T
  <2>1. T \in SUBSET Nat
    BY DEF T
  <2>. QED BY <1>1, <1>2, <2>1, Tally!SetInduction
<1>. QED BY <1>3
\* Counting more leaves the totals of what was counted before alone.
LEMMA TotalsStay ==
  ASSUME NEW s \in Seq(Updates), NEW u \in Updates, NEW side, NEW n \in 0..Len(s)
  PROVE  TotalOf(Append(s, u), side, n) = TotalOf(s, side, n)
<1>1. SubSeq(Append(s, u), 1, n) = SubSeq(s, 1, n)
  <2>. DEFINE a == SubSeq(Append(s, u), 1, n)
              b == SubSeq(s, 1, n)
  <2>1. /\ a \in Seq(Updates) /\ b \in Seq(Updates)
        /\ Len(a) = n /\ Len(b) = n
        /\ \A i \in 1..n : a[i] = b[i]
    OBVIOUS
  <2>. HIDE DEF a, b
  <2>2. a = b
    BY <2>1
  <2>. QED BY <2>2 DEF a, b
<1>. QED BY <1>1 DEF TotalOf

\* Nobody knows of more updates than were made, and each replica knows its
\* own.
HistoryTypeOK ==
  /\ updates \in [Replicas -> Seq(Updates)]
  /\ known \in [Replicas -> [Replicas -> Nat]]
  /\ \A r, q \in Replicas : known[r][q] <= Len(updates[q])
  /\ \A r \in Replicas : known[r][r] = Len(updates[r])
  /\ \A m \in net : /\ m.known \in [Replicas -> Nat]
                    /\ \A q \in Replicas : m.known[q] <= Len(updates[q])

\* Known, with the updates as a parameter.
KnownOf(s, c, k) ==
  \A q \in Replicas : \A side \in Sides : Component(c[side], q) = TotalOf(s[q], side, k[q])

LEMMA KnownIsKnownOf ==
  ASSUME NEW c, NEW k
  PROVE  Known(c, k) <=> KnownOf(updates, c, k)
BY AmountsAreTotals DEF Known, KnownOf, Sides

ExactlyOnceOf(s) ==
  /\ \A r \in Replicas : KnownOf(s, counter[r], known[r])
  /\ \A m \in net : KnownOf(s, m.counter, m.known)

LEMMA ExactlyOnceIsOf == ExactlyOnce <=> ExactlyOnceOf(updates)
BY KnownIsKnownOf DEF ExactlyOnce, ExactlyOnceOf

CountedInvariant == CounterInvariant /\ HistoryTypeOK /\ ExactlyOnceOf(updates)

LEMMA CountIsCounted ==
  ASSUME CountedInvariant,
         NEW r \in Replicas, NEW side \in Sides, NEW amount \in Amounts,
         Count(r, side, amount)
  PROVE  HistoryTypeOK' /\ ExactlyOnceOf(updates)'
<1>. DEFINE counted == ~Overflows(counter[r][side], r, amount)
            u == [side |-> side, amount |-> amount]
            c == [counter[r] EXCEPT ![side] = Increment(@, r, amount)]
            k == [known[r] EXCEPT ![r] = IF counted THEN @ + 1 ELSE @]
            s == updates[r]
<1>1. /\ counter' = [counter EXCEPT ![r] = c]
      /\ known' = [known EXCEPT ![r] = k]
      /\ updates' = [updates EXCEPT ![r] = IF counted THEN Append(@, u) ELSE @]
      /\ net' = net \cup {Message(c, k)}
  BY DEF Count
<1>2. /\ u \in Updates /\ s \in Seq(Updates) /\ amount \in Nat
      /\ known[r] \in [Replicas -> Nat] /\ known[r][r] = Len(s)
      /\ counter[r] \in PNCounters /\ \A side2 \in Sides : counter[r][side2] \in Counters
  BY AmountsAssumption DEF Updates, CountedInvariant, HistoryTypeOK, CounterInvariant, CounterTypeOK, PNCounters, Sides
<1>3. \A side2 \in Sides : \A q \in Replicas :
        Component(c[side2], q) =
          IF side2 = side /\ q = r /\ counted
          THEN Component(counter[r][side], r) + amount
          ELSE Component(counter[r][side2], q)
  <2>. TAKE side2 \in Sides
  <2>. TAKE q \in Replicas
  <2>1. CASE side2 = side
    <3>1. c[side2] = Increment(counter[r][side], r, amount)
      BY <2>1, <1>2 DEF PNCounters, Sides
    <3>. QED BY <3>1, <2>1, <1>2, IncrementComponent
  <2>2. CASE side2 # side
    <3>1. c[side2] = counter[r][side2]
      BY <2>2, <1>2 DEF PNCounters, Sides
    <3>. QED BY <3>1, <2>2
  <2>. QED BY <2>1, <2>2
<1>4. /\ k \in [Replicas -> Nat]
      /\ \A q \in Replicas : k[q] = IF q = r /\ counted THEN known[r][q] + 1 ELSE known[r][q]
  BY <1>2
<1>. HIDE DEF c, k, counted
<1>t. /\ updates \in [Replicas -> Seq(Updates)]
      /\ \A q \in Replicas : updates[q] \in Seq(Updates) /\ Len(updates[q]) \in Nat
      /\ known \in [Replicas -> [Replicas -> Nat]]
      /\ \A p, q \in Replicas : known[p][q] \in Nat /\ known[p][q] <= Len(updates[q])
      /\ \A q \in Replicas : known[q][q] = Len(updates[q])
  BY DEF CountedInvariant, HistoryTypeOK
<1>a. Append(s, u) \in Seq(Updates) /\ Len(Append(s, u)) = Len(s) + 1
  BY <1>2
<1>b. \A q \in Replicas :
        updates'[q] = IF q = r /\ counted THEN Append(s, u) ELSE updates[q]
  BY <1>1, <1>t
<1>c. s = updates[r] /\ Len(s) \in Nat /\ Len(updates[r]) = Len(s)
  BY <1>t DEF s
<1>. HIDE DEF u, s
<1>5. \A q \in Replicas :
        /\ updates'[q] \in Seq(Updates)
        /\ Len(updates[q]) <= Len(updates'[q])
        /\ Len(updates'[q]) \in Nat
  <2>. TAKE q \in Replicas
  <2>1. CASE q = r /\ counted
    <3>1. updates'[q] = Append(s, u) /\ updates[q] = s
      BY <1>b, <1>c, <2>1
    <3>2. Len(s) <= Len(Append(s, u)) /\ Len(Append(s, u)) \in Nat
      BY <1>a, <1>c
    <3>. QED BY <1>a, <3>1, <3>2
  <2>2. CASE ~(q = r /\ counted)
    BY <1>t, <1>b, <2>2
  <2>. QED BY <2>1, <2>2
<1>6. HistoryTypeOK'
  <2>1. updates' \in [Replicas -> Seq(Updates)] /\ known' \in [Replicas -> [Replicas -> Nat]]
    <3>1. updates' = [q \in Replicas |-> updates'[q]]
      BY <1>1, <1>t
    <3>2. known' \in [Replicas -> [Replicas -> Nat]]
      BY <1>1, <1>4, <1>t
    <3>. QED BY <1>5, <3>1, <3>2
  <2>2. \A q \in Replicas : k[q] <= Len(updates'[q])
    <3>. TAKE q \in Replicas
    <3>1. CASE q = r /\ counted
      <4>1. k[q] = Len(s) + 1 /\ updates'[q] = Append(s, u)
        BY <1>2, <1>4, <1>b, <3>1
      <4>. QED BY <4>1, <1>a, <1>c
    <3>2. CASE ~(q = r /\ counted)
      BY <1>4, <1>b, <1>t, <3>2
    <3>. QED BY <3>1, <3>2
  <2>3. \A p \in Replicas : known'[p] = IF p = r THEN k ELSE known[p]
    BY <1>1 DEF CountedInvariant, HistoryTypeOK
  <2>4. \A p, q \in Replicas : known'[p][q] <= Len(updates'[q])
    <3>1. \A p, q \in Replicas : /\ known[p][q] \in Nat /\ known[p][q] <= Len(updates[q])
                                 /\ Len(updates[q]) \in Nat /\ Len(updates'[q]) \in Nat
      BY <1>5 DEF CountedInvariant, HistoryTypeOK
    <3>. QED BY <1>5, <2>2, <2>3, <3>1
  <2>5. \A p \in Replicas : known'[p][p] = Len(updates'[p])
    <3>. TAKE p \in Replicas
    <3>1. CASE p = r /\ counted
      BY <1>2, <1>4, <1>a, <1>b, <1>t, <2>3, <3>1
    <3>2. CASE ~(p = r /\ counted)
      BY <1>4, <1>b, <1>t, <2>3, <3>2
    <3>. QED BY <3>1, <3>2
  <2>6. \A m \in net' : m \in net \/ m.known = k
    BY <1>1 DEF Message
  <2>7. \A m \in net' : m.known \in [Replicas -> Nat] /\ \A q \in Replicas : m.known[q] <= Len(updates'[q])
    <3>1. \A m \in net : \A q \in Replicas :
            /\ m.known[q] \in Nat /\ m.known[q] <= Len(updates[q])
            /\ Len(updates[q]) \in Nat /\ Len(updates'[q]) \in Nat
      BY <1>5 DEF CountedInvariant, HistoryTypeOK
    <3>2. \A m \in net : m.known \in [Replicas -> Nat]
      BY DEF CountedInvariant, HistoryTypeOK
    <3>3. \A m \in net : \A q \in Replicas : m.known[q] <= Len(updates'[q])
      BY <1>5, <3>1
    <3>. QED BY <1>4, <2>2, <2>6, <3>2, <3>3
  <2>. QED BY <2>1, <2>4, <2>5, <2>7 DEF HistoryTypeOK
<1>7. \A q \in Replicas : \A n \in 0..Len(updates[q]) : \A side2 \in Sides :
        TotalOf(updates'[q], side2, n) = TotalOf(updates[q], side2, n)
  <2>. TAKE q \in Replicas
  <2>. TAKE n \in 0..Len(updates[q])
  <2>. TAKE side2 \in Sides
  <2>1. CASE q = r /\ counted
    BY <1>2, <1>b, <2>1, TotalsStay DEF s
  <2>2. CASE ~(q = r /\ counted)
    BY <1>b, <2>2
  <2>. QED BY <2>1, <2>2
<1>8. ASSUME NEW d, NEW j \in [Replicas -> Nat], \A q \in Replicas : j[q] <= Len(updates[q]),
             KnownOf(updates, d, j)
      PROVE  KnownOf(updates', d, j)
  <2>1. \A q \in Replicas : j[q] \in 0..Len(updates[q])
    <3>. TAKE q \in Replicas
    <3>1. j[q] \in Nat /\ j[q] <= Len(updates[q])
      BY <1>8
    <3>. QED BY <1>t, <3>1
  <2>. QED BY <1>7, <1>8, <2>1 DEF KnownOf
<1>9. KnownOf(updates', c, k)
  <2>. SUFFICES ASSUME NEW q \in Replicas, NEW side2 \in Sides
                PROVE  Component(c[side2], q) = TotalOf(updates'[q], side2, k[q])
    BY DEF KnownOf
  <2>1. Component(counter[r][side2], q) = TotalOf(updates[q], side2, known[r][q])
    BY DEF CountedInvariant, ExactlyOnceOf, KnownOf
  <2>2. known[r][q] \in 0..Len(updates[q])
    BY <1>t
  <2>3. CASE q # r \/ ~counted
    BY <1>3, <1>4, <1>7, <2>1, <2>2, <2>3
  <2>4. CASE q = r /\ counted
    <3>. DEFINE t == Append(s, u)
    <3>1. /\ t \in Seq(Updates) /\ Len(s) \in Nat /\ Len(t) = Len(s) + 1
          /\ t[Len(s) + 1] = u
      BY <1>2
    <3>2. updates'[q] = t /\ k[q] = Len(s) + 1 /\ known[r][q] = Len(s)
      BY <1>2, <1>4, <1>b, <2>4
    <3>. HIDE DEF t
    <3>3. TotalOf(t, side2, Len(s) + 1) = AmountStep(side2, TotalOf(t, side2, Len(s)), u)
      BY <3>1, TotalOfNext
    <3>4. TotalOf(t, side2, Len(s)) = Component(counter[r][side2], r)
      BY <1>7, <2>1, <2>2, <2>4, <3>2
    <3>5. u.side = side /\ u.amount = amount
      BY DEF u
    <3>. QED BY <1>3, <2>4, <3>2, <3>3, <3>4, <3>5 DEF AmountStep
  <2>. QED BY <2>3, <2>4
<1>10. \A p \in Replicas : KnownOf(updates', counter'[p], known'[p])
  <2>. TAKE p \in Replicas
  <2>1. CASE p = r
    <3>1. counter'[r] = c /\ known'[r] = k
      BY <1>1 DEF CountedInvariant, CounterInvariant, CounterTypeOK, HistoryTypeOK
    <3>. QED BY <1>9, <2>1, <3>1
  <2>2. CASE p # r
    <3>1. counter'[p] = counter[p] /\ known'[p] = known[p]
      BY <1>1, <2>2 DEF CountedInvariant, CounterInvariant, CounterTypeOK, HistoryTypeOK
    <3>2. /\ KnownOf(updates, counter[p], known[p]) /\ known[p] \in [Replicas -> Nat]
          /\ \A q \in Replicas : known[p][q] <= Len(updates[q])
      BY DEF CountedInvariant, ExactlyOnceOf, HistoryTypeOK
    <3>. QED BY <1>8, <3>1, <3>2
  <2>. QED BY <2>1, <2>2
<1>11. \A m \in net' : KnownOf(updates', m.counter, m.known)
  <2>. TAKE m \in net'
  <2>1. CASE m \in net
    <3>1. /\ KnownOf(updates, m.counter, m.known) /\ m.known \in [Replicas -> Nat]
          /\ \A q \in Replicas : m.known[q] <= Len(updates[q])
      BY <2>1 DEF CountedInvariant, ExactlyOnceOf, HistoryTypeOK
    <3>. QED BY <1>8, <3>1
  <2>2. CASE m.counter = c /\ m.known = k
    BY <1>9, <2>2
  <2>. QED BY <1>1, <2>1, <2>2 DEF Message
<1>. QED BY <1>6, <1>10, <1>11 DEF ExactlyOnceOf

LEMMA MergeIsCounted ==
  ASSUME CountedInvariant, NEW r \in Replicas, NEW m \in net, MergeState(r, m)
  PROVE  HistoryTypeOK' /\ ExactlyOnceOf(updates)'
<1>. DEFINE c == MergePN(counter[r], m.counter)
            k == [q \in Replicas |-> IF known[r][q] < m.known[q] THEN m.known[q]
                                     ELSE known[r][q]]
<1>1. /\ counter' = [counter EXCEPT ![r] = c]
      /\ known' = [known EXCEPT ![r] = k]
      /\ net' = net \cup {Message(c, k)}
      /\ updates' = updates
  BY DEF MergeState
<1>2. /\ counter \in [Replicas -> PNCounters] /\ m.counter \in PNCounters
      /\ known \in [Replicas -> [Replicas -> Nat]] /\ m.known \in [Replicas -> Nat]
      /\ updates \in [Replicas -> Seq(Updates)]
  BY DEF CountedInvariant, CounterInvariant, CounterTypeOK, HistoryTypeOK
<1>3. \A q \in Replicas :
        /\ updates[q] \in Seq(Updates) /\ Len(updates[q]) \in Nat
        /\ known[r][q] \in Nat /\ known[r][q] <= Len(updates[q])
        /\ m.known[q] \in Nat /\ m.known[q] <= Len(updates[q])
  BY <1>2 DEF CountedInvariant, HistoryTypeOK
<1>4. /\ k \in [Replicas -> Nat]
      /\ \A q \in Replicas : /\ k[q] = IF known[r][q] < m.known[q] THEN m.known[q]
                                       ELSE known[r][q]
                             /\ k[q] <= Len(updates[q])
  BY <1>3
<1>5. \A s \in Sides : counter[r][s] \in Counters /\ m.counter[s] \in Counters
  BY <1>2 DEF PNCounters, Sides
<1>6. \A s \in Sides : c[s] = Merge(counter[r][s], m.counter[s])
  BY DEF MergePN, Sides
<1>7. \A s \in Sides : \A q \in Replicas :
        Component(c[s], q) =
          IF Component(counter[r][s], q) < Component(m.counter[s], q)
          THEN Component(m.counter[s], q) ELSE Component(counter[r][s], q)
  BY <1>5, <1>6, MergeComponent
<1>8. /\ KnownOf(updates, counter[r], known[r])
      /\ KnownOf(updates, m.counter, m.known)
  BY DEF CountedInvariant, ExactlyOnceOf
<1>. HIDE DEF c, k
<1>9. KnownOf(updates, c, k)
  <2>. SUFFICES ASSUME NEW q \in Replicas, NEW side \in Sides
                PROVE  Component(c[side], q) = TotalOf(updates[q], side, k[q])
    BY DEF KnownOf
  <2>. DEFINE mine == TotalOf(updates[q], side, known[r][q])
              theirs == TotalOf(updates[q], side, m.known[q])
  <2>1. /\ Component(counter[r][side], q) = mine
        /\ Component(m.counter[side], q) = theirs
    BY <1>8 DEF KnownOf
  <2>2. CASE known[r][q] < m.known[q]
    <3>1. known[r][q] <= m.known[q]
      BY <1>3, <2>2
    <3>2. mine \in Nat /\ theirs \in Nat /\ mine <= theirs
      BY <1>3, <3>1, TotalsGrow
    <3>. HIDE DEF mine, theirs
    <3>3. Component(c[side], q) = theirs
      BY <1>7, <2>1, <3>2
    <3>. QED BY <1>4, <2>2, <3>3 DEF theirs
  <2>3. CASE ~(known[r][q] < m.known[q])
    <3>1. m.known[q] <= known[r][q]
      BY <1>3, <2>3
    <3>2. mine \in Nat /\ theirs \in Nat /\ theirs <= mine
      BY <1>3, <3>1, TotalsGrow
    <3>. HIDE DEF mine, theirs
    <3>3. Component(c[side], q) = mine
      BY <1>7, <2>1, <3>2
    <3>. QED BY <1>4, <2>3, <3>3 DEF mine
  <2>. QED BY <2>2, <2>3
<1>10. \A p \in Replicas : /\ counter'[p] = IF p = r THEN c ELSE counter[p]
                           /\ known'[p] = IF p = r THEN k ELSE known[p]
  BY <1>1, <1>2
<1>11. \A n \in net' : n \in net \/ (n.counter = c /\ n.known = k)
  BY <1>1 DEF Message
<1>12. ExactlyOnceOf(updates)'
  <2>1. \A p \in Replicas : KnownOf(updates, counter'[p], known'[p])
    BY <1>9, <1>10 DEF CountedInvariant, ExactlyOnceOf
  <2>2. ASSUME NEW p \in Replicas PROVE KnownOf(updates, counter[p], known[p])
    BY DEF CountedInvariant, ExactlyOnceOf
  <2>3. \A n \in net' : KnownOf(updates, n.counter, n.known)
    BY <1>9, <1>11 DEF CountedInvariant, ExactlyOnceOf
  <2>. QED BY <1>1, <2>1, <2>3 DEF ExactlyOnceOf
<1>13. HistoryTypeOK'
  <2>1. known' \in [Replicas -> [Replicas -> Nat]]
    BY <1>1, <1>2, <1>4
  <2>2. \A p, q \in Replicas : known[p][q] <= Len(updates[q])
    BY DEF CountedInvariant, HistoryTypeOK
  <2>3. \A p, q \in Replicas : known'[p][q] <= Len(updates[q])
    BY <1>4, <1>10, <2>2
  <2>4. \A p \in Replicas : known[p][p] = Len(updates[p])
    BY DEF CountedInvariant, HistoryTypeOK
  <2>5. k[r] = Len(updates[r])
    BY <1>3, <1>4, <2>4
  <2>6. \A p \in Replicas : known'[p][p] = Len(updates[p])
    BY <1>10, <2>4, <2>5
  <2>7. \A n \in net' : /\ n.known \in [Replicas -> Nat]
                        /\ \A q \in Replicas : n.known[q] <= Len(updates[q])
    BY <1>4, <1>11 DEF CountedInvariant, HistoryTypeOK
  <2>8. /\ updates' \in [Replicas -> Seq(Updates)]
        /\ \A q \in Replicas : Len(updates'[q]) = Len(updates[q])
    BY <1>1, <1>2
  <2>9. \A p, q \in Replicas : known'[p][q] <= Len(updates'[q])
    BY <2>3, <2>8
  <2>10. \A n \in net' : \A q \in Replicas : n.known[q] <= Len(updates'[q])
    BY <2>7, <2>8
  <2>. HIDE DEF Updates
  <2>. QED BY <2>1, <2>6, <2>7, <2>8, <2>9, <2>10 DEF HistoryTypeOK
<1>. QED BY <1>12, <1>13

THEOREM CountedInvariance == CounterSpec => []CountedInvariant
<1>1. CounterInit => HistoryTypeOK /\ ExactlyOnceOf(updates)
  <2>. SUFFICES ASSUME CounterInit PROVE HistoryTypeOK /\ ExactlyOnceOf(updates)
    OBVIOUS
  <2>1. /\ \A r \in Replicas : updates[r] = <<>> /\ counter[r] = ZeroPN
        /\ known = [r \in Replicas |-> [q \in Replicas |-> 0]]
        /\ \A m \in net : m.counter = ZeroPN /\ m.known = [q \in Replicas |-> 0]
    BY DEF CounterInit, Message
  <2>2. HistoryTypeOK
    <3>1. <<>> \in Seq(Updates) /\ Len(<<>>) = 0
      OBVIOUS
    <3>2. updates \in [Replicas -> Seq(Updates)]
      BY <3>1 DEF CounterInit
    <3>. QED BY <2>1, <3>1, <3>2 DEF HistoryTypeOK
  <2>3. \A side \in Sides : \A q \in Replicas : Component(ZeroPN[side], q) = 0
    BY DEF ZeroPN, ZeroCounter, Component, Sides
  <2>4. KnownOf(updates, ZeroPN, [q \in Replicas |-> 0])
    BY <2>1, <2>3, TotalOfNone DEF KnownOf
  <2>. QED BY <2>1, <2>2, <2>4 DEF ExactlyOnceOf
<1>2. /\ CounterInvariant /\ HistoryTypeOK /\ ExactlyOnceOf(updates)
      /\ [CounterNext]_counterVars
      => HistoryTypeOK' /\ ExactlyOnceOf(updates)'
  <2>. SUFFICES ASSUME CounterInvariant, HistoryTypeOK, ExactlyOnceOf(updates),
                       [CounterNext]_counterVars
                PROVE  HistoryTypeOK' /\ ExactlyOnceOf(updates)'
    OBVIOUS
  <2>1. ASSUME NEW r \in Replicas, NEW side \in Sides, NEW amount \in Amounts,
               Count(r, side, amount)
        PROVE  HistoryTypeOK' /\ ExactlyOnceOf(updates)'
    BY <2>1, CountIsCounted DEF CountedInvariant
  <2>2. ASSUME NEW r \in Replicas, NEW m \in net, MergeState(r, m)
        PROVE  HistoryTypeOK' /\ ExactlyOnceOf(updates)'
    BY <2>2, MergeIsCounted DEF CountedInvariant
  <2>3. CASE UNCHANGED counterVars
    BY <2>3 DEF HistoryTypeOK, ExactlyOnceOf, KnownOf, counterVars
  <2>. QED BY <2>1, <2>2, <2>3 DEF CounterNext, Sides
<1>. QED BY <1>1, <1>2, CounterInvariance, PTL DEF CounterSpec, CountedInvariant

\* ExactlyOnce: whatever merges happen, late, repeated or out of order, a
\* replica's components are the sums of the updates whose effect has reached
\* it, each counted once.
THEOREM ExactlyOnceHolds == CounterSpec => []ExactlyOnce
<1>1. CountedInvariant => ExactlyOnce
  BY ExactlyOnceIsOf DEF CountedInvariant
<1>. QED BY <1>1, CountedInvariance, PTL
-----------------------------------------------------------------------------
(***************************************************************************)
(* Registers.                                                              *)
(***************************************************************************)
\* Every state that exists has lost to, or is, what its writer holds: this is
\* why assign can never reuse a stamp.
WritersLead == \A x \in writes : ~Wins(x, register[x.replica])

RegisterInvariant == RegisterTypeOK /\ StampsIdentifyValues /\ WritersLead

LEMMA StampTypes ==
  ASSUME NEW x \in Registers
  PROVE  x.timestamp \in Int /\ x.replica \in Int /\ x.replica \in Writers
<1>1. x.timestamp \in Timestamps /\ x.replica \in Writers
  BY DEF Registers
<1>2. \A n \in Nat : n \in Int
  OBVIOUS
<1>. QED BY <1>1, <1>2, TimestampsAssumption, WritersAssumption

\* Wins is a strict order.
LEMMA WinsTransitive ==
  ASSUME NEW x \in Registers, NEW y \in Registers, NEW z \in Registers,
         ~Wins(x, y), ~Wins(y, z)
  PROVE  ~Wins(x, z)
BY StampTypes DEF Wins

LEMMA WinsTotal ==
  ASSUME NEW x \in Registers, NEW y \in Registers, ~Wins(x, y), ~Wins(y, x)
  PROVE  x.timestamp = y.timestamp /\ x.replica = y.replica
BY StampTypes DEF Wins

LEMMA WinsAsymmetric ==
  ASSUME NEW x \in Registers, NEW y \in Registers, Wins(x, y)
  PROVE  ~Wins(y, x)
BY StampTypes DEF Wins

\* merge is commutative, associative and idempotent on registers whose stamps
\* identify them.
LEMMA AssignIsJoin ==
  ASSUME NEW x \in Registers, NEW y \in Registers, NEW z \in Registers,
         \A u, v \in {x, y, z} :
           u.timestamp = v.timestamp /\ u.replica = v.replica => u = v
  PROVE  /\ AssignRegister(x, y) = AssignRegister(y, x)
         /\ AssignRegister(AssignRegister(x, y), z) =
              AssignRegister(x, AssignRegister(y, z))
         /\ AssignRegister(x, x) = x
<1>1. \A u, v \in {x, y, z} : Wins(u, v) \/ Wins(v, u) \/ u = v
  BY WinsTotal
<1>2. \A u, v \in {x, y, z} : Wins(u, v) => ~Wins(v, u)
  BY WinsAsymmetric
<1>3. \A u, v, w \in {x, y, z} : ~Wins(u, v) /\ ~Wins(v, w) => ~Wins(u, w)
  BY WinsTransitive
<1>4. AssignRegister(x, y) = AssignRegister(y, x)
  BY <1>1, <1>2 DEF AssignRegister
<1>5. AssignRegister(AssignRegister(x, y), z) = AssignRegister(x, AssignRegister(y, z))
  BY <1>1, <1>2, <1>3 DEF AssignRegister
<1>6. AssignRegister(x, x) = x
  BY DEF AssignRegister
<1>. QED BY <1>4, <1>5, <1>6

\* A replica that moves to x, which is new only if it beats what its writer
\* holds, keeps the invariant.
LEMMA HoldKeeps ==
  ASSUME RegisterInvariant, NEW r \in Writers, NEW x \in Registers, Hold(r, x),
         ~Wins(register[r], x),
         x \in writes \/ (x.replica = r /\ Wins(x, register[r]))
  PROVE  RegisterInvariant'
<1>1. /\ register \in [Writers -> Registers]
      /\ writes \subseteq Registers
      /\ \A y \in writes : ~Wins(y, register[y.replica])
      /\ \A p \in Writers : register[p] \in writes
  BY DEF RegisterInvariant, RegisterTypeOK, WritersLead
<1>2. writes' = writes \cup {x} /\ register' = [register EXCEPT ![r] = x]
  BY DEF Hold
<1>3. RegisterTypeOK'
  BY <1>1, <1>2 DEF RegisterTypeOK
<1>4. ASSUME NEW y \in writes, y.timestamp = x.timestamp, y.replica = x.replica,
             x \notin writes
      PROVE  FALSE
  <2>1. ~Wins(y, register[r])
    BY <1>1, <1>4
  <2>. QED BY <1>4, <2>1 DEF Wins
<1>5. StampsIdentifyValues'
  <2>. SUFFICES ASSUME NEW y \in writes', NEW z \in writes',
                       y.timestamp = z.timestamp, y.replica = z.replica
                PROVE  y = z
    BY DEF StampsIdentifyValues
  <2>1. CASE x \in writes
    BY <2>1, <1>2 DEF RegisterInvariant, StampsIdentifyValues
  <2>2. CASE x \notin writes
    BY <2>2, <1>2, <1>4 DEF RegisterInvariant, StampsIdentifyValues
  <2>. QED BY <2>1, <2>2
<1>6. WritersLead'
  <2>. SUFFICES ASSUME NEW y \in writes' PROVE ~Wins(y, register'[y.replica])
    BY DEF WritersLead
  <2>1. y \in Registers /\ y.replica \in Writers
    BY <1>1, <1>2, StampTypes
  <2>2. \A p \in Writers : register[p] \in Registers /\ ~Wins(register[p], register'[p])
    <3>. TAKE p \in Writers
    <3>1. ~Wins(register[p], register[p])
      BY <1>1, WinsAsymmetric
    <3>. QED BY <3>1, <1>1, <1>2
  <2>3. CASE y \in writes
    <3>1. register'[y.replica] \in Registers
      BY <2>1, <1>1, <1>2
    <3>2. ~Wins(y, register[y.replica])
      BY <2>3, <1>1
    <3>. QED BY <3>1, <3>2, <2>1, <2>2, WinsTransitive
  <2>4. CASE y = x /\ x.replica = r
    <3>1. register'[r] = x
      BY <1>1, <1>2
    <3>. QED BY <3>1, <2>4, WinsAsymmetric
  <2>. QED BY <2>3, <2>4, <1>2
<1>. QED BY <1>3, <1>5, <1>6 DEF RegisterInvariant

LEMMA AssignKeeps ==
  ASSUME RegisterInvariant, NEW r \in Writers, NEW value \in Values,
         NEW timestamp \in Timestamps, Assign(r, value, timestamp)
  PROVE  RegisterInvariant'
<1>. DEFINE y == [value |-> value, timestamp |-> timestamp, replica |-> r]
<1>1. y \in Registers /\ y.replica = r
  BY DEF Registers
<1>2. register[r] \in Registers /\ register[r] \in writes
  BY DEF RegisterInvariant, RegisterTypeOK
<1>3. Hold(r, AssignRegister(register[r], y))
  BY DEF Assign
<1>. HIDE DEF y
<1>4. CASE Wins(y, register[r])
  <2>1. Hold(r, y)
    BY <1>3, <1>4 DEF AssignRegister
  <2>. QED BY <2>1, <1>1, <1>2, <1>4, HoldKeeps, WinsAsymmetric
<1>5. CASE ~Wins(y, register[r])
  <2>1. Hold(r, register[r])
    BY <1>3, <1>5 DEF AssignRegister
  <2>. QED BY <2>1, <1>2, HoldKeeps, WinsAsymmetric
<1>. QED BY <1>4, <1>5

LEMMA MergeRegisterKeeps ==
  ASSUME RegisterInvariant, NEW r \in Writers, NEW x \in writes, MergeRegister(r, x)
  PROVE  RegisterInvariant'
<1>1. register[r] \in Registers /\ register[r] \in writes /\ x \in Registers
  BY DEF RegisterInvariant, RegisterTypeOK
<1>2. CASE Wins(x, register[r])
  <2>1. Hold(r, x)
    BY <1>2 DEF MergeRegister, AssignRegister
  <2>. QED BY <2>1, <1>1, <1>2, HoldKeeps, WinsAsymmetric
<1>3. CASE ~Wins(x, register[r])
  <2>1. Hold(r, register[r])
    BY <1>3 DEF MergeRegister, AssignRegister
  <2>. QED BY <2>1, <1>1, HoldKeeps, WinsAsymmetric
<1>. QED BY <1>2, <1>3

\* The inductive invariant holds in every reachable state.
THEOREM RegisterInvariance == RegisterSpec => []RegisterInvariant
<1>1. RegisterInit => RegisterInvariant
  <2>. SUFFICES ASSUME RegisterInit PROVE RegisterInvariant
    OBVIOUS
  <2>1. RegisterTypeOK
    BY DEF RegisterInit, RegisterTypeOK
  <2>2. StampsIdentifyValues
    BY DEF RegisterInit, StampsIdentifyValues
  <2>3. WritersLead
    <3>. SUFFICES ASSUME NEW p \in Writers
                  PROVE  ~Wins(register[p], register[register[p].replica])
      BY DEF RegisterInit, WritersLead
    <3>1. register[p] \in Registers /\ register[p].replica = p
      BY DEF RegisterInit
    <3>. QED BY <3>1, WinsAsymmetric
  <2>. QED BY <2>1, <2>2, <2>3 DEF RegisterInvariant
<1>2. RegisterInvariant /\ [RegisterNext]_registerVars => RegisterInvariant'
  <2>. SUFFICES ASSUME RegisterInvariant, [RegisterNext]_registerVars
                PROVE  RegisterInvariant'
    OBVIOUS
  <2>1. CASE RegisterNext
    BY <2>1, AssignKeeps, MergeRegisterKeeps DEF RegisterNext
  <2>2. CASE UNCHANGED registerVars
    BY <2>2 DEF RegisterInvariant, RegisterTypeOK, StampsIdentifyValues,
                WritersLead, Wins, registerVars
  <2>. QED BY <2>1, <2>2
<1>. QED BY <1>1, <1>2, PTL DEF RegisterSpec

\* StampsIdentifyValues: replicas that agree on who wrote last agree on what
\* was written.
THEOREM StampsIdentifyValuesHolds == RegisterSpec => []StampsIdentifyValues
<1>1. RegisterInvariant => StampsIdentifyValues
  BY DEF RegisterInvariant
<1>. QED BY <1>1, RegisterInvariance, PTL

\* RegisterMergeLaws: the order in which states arrive makes no difference.
THEOREM RegisterMergeLawsHold == RegisterSpec => []RegisterMergeLaws
<1>1. RegisterInvariant => RegisterMergeLaws
  <2>. SUFFICES ASSUME RegisterInvariant, NEW x \in writes, NEW y \in writes, NEW z \in writes
                PROVE  /\ AssignRegister(x, y) = AssignRegister(y, x)
                       /\ AssignRegister(AssignRegister(x, y), z) =
                            AssignRegister(x, AssignRegister(y, z))
                       /\ AssignRegister(x, x) = x
    BY DEF RegisterMergeLaws
  <2>1. x \in Registers /\ y \in Registers /\ z \in Registers
    BY DEF RegisterInvariant, RegisterTypeOK
  <2>2. \A u, v \in {x, y, z} :
          u.timestamp = v.timestamp /\ u.replica = v.replica => u = v
    BY DEF RegisterInvariant, StampsIdentifyValues
  <2>. QED BY <2>1, <2>2, AssignIsJoin
<1>. QED BY <1>1, RegisterInvariance, PTL

\* NeverUndone: a late or repeated state never replaces a newer write.
THEOREM NeverUndoneHolds == RegisterSpec => NeverUndone
<1>1. RegisterInvariant /\ [RegisterNext]_registerVars =>
        [\A r \in Writers :
           register'[r] # register[r] =>
             \/ register'[r].timestamp > register[r].timestamp
             \/ /\ register'[r].timestamp = register[r].timestamp
                /\ register'[r].replica > register[r].replica]_registerVars
  <2>. SUFFICES ASSUME RegisterInvariant, RegisterNext, NEW r \in Writers,
                       register'[r] # register[r]
                PROVE  Wins(register'[r], register[r])
    BY DEF Wins
  <2>1. PICK p \in Writers, x \in Registers :
               Hold(p, AssignRegister(register[p], x))
    <3>1. writes \subseteq Registers
      BY DEF RegisterInvariant, RegisterTypeOK
    <3>2. \A q \in Writers, v \in Values, t \in Timestamps :
            [value |-> v, timestamp |-> t, replica |-> q] \in Registers
      BY DEF Registers
    <3>. QED BY <3>1, <3>2 DEF RegisterNext, Assign, MergeRegister
  <2>2. register \in [Writers -> Registers]
    BY DEF RegisterInvariant, RegisterTypeOK
  <2>3. p = r
    BY <2>1, <2>2 DEF Hold
  <2>4. register'[r] = AssignRegister(register[r], x)
    BY <2>1, <2>2, <2>3 DEF Hold
  <2>. QED BY <2>4 DEF AssignRegister
<1>. QED BY <1>1, RegisterInvariance, PTL DEF RegisterSpec, NeverUndone
=============================================================================
