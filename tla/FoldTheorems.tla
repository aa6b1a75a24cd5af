----------------------------- MODULE FoldTheorems -----------------------------
(***************************************************************************)
(* What a fold over a sequence computes, for sequences of every length, and*)
(* that a loop of any number of turns defines a function.                  *)
(* The step and the start are constants of the module, which the proofs    *)
(* that need a fold instantiate; k stands for whatever else the step       *)
(* depends on.                                                             *)
(*                                                                         *)
(* Induction is stated of sets of numbers, so that it can be used by       *)
(* citing it; it rests on the well-founded order of finite sets.           *)
(***************************************************************************)
EXTENDS Integers, SequencesExt, FiniteSetTheorems, SequenceTheorems, TLAPS

CONSTANTS Start(_), Step(_, _, _)

Fold(k, s) == FoldLeft(LAMBDA total, x : Step(k, total, x), Start(k), s)

\* Induction: a set with 0 and the successors of its members is Nat.
LEMMA SetInduction ==
  ASSUME NEW T \in SUBSET Nat, 0 \in T, \A n \in T : n + 1 \in T
  PROVE  T = Nat
<1>. DEFINE R == StrictSubsetOrdering(Nat)
            F == {0..(n - 1) : n \in Nat \ T}
<1>1. SUFFICES ASSUME Nat \ T # {} PROVE FALSE
  OBVIOUS
<1>2. IsWellFoundedOn(R, FiniteSubsetsOf(Nat))
  BY FS_StrictSubsetOrderingWellFounded
<1>3. F \subseteq FiniteSubsetsOf(Nat) /\ F # {}
  <2>1. \A n \in Nat : 0..(n - 1) \in FiniteSubsetsOf(Nat)
    BY FS_Interval DEF FiniteSubsetsOf
  <2>. QED BY <1>1, <2>1
<1>4. PICK X \in F : \A Y \in F : ~(<<Y, X>> \in R)
  <2>. HIDE DEF R, F
  <2>. QED BY <1>2, <1>3, WFMin
<1>5. PICK n \in Nat \ T : X = 0..(n - 1)
  OBVIOUS
<1>6. n - 1 \in Nat \ T
  OBVIOUS
<1>7. 0..(n - 2) \in F /\ 0..(n - 2) \subseteq X /\ 0..(n - 2) # X
  <2>1. 0..(n - 2) \in F
    BY <1>6
  <2>2. n - 1 \in X /\ n - 1 \notin 0..(n - 2)
    BY <1>5, <1>6
  <2>. QED BY <1>5, <2>1, <2>2
<1>8. <<0..(n - 2), X>> \in R
  BY <1>3, <1>4, <1>5, <1>7 DEF StrictSubsetOrdering, FiniteSubsetsOf
<1>. QED BY <1>4, <1>7, <1>8

\* A longer prefix is the shorter one and what follows it.
LEMMA PrefixGrows ==
  ASSUME NEW P, NEW s \in Seq(P), NEW n \in Nat, n + 1 <= Len(s)
  PROVE  /\ SubSeq(s, 1, n) \in Seq(P) /\ s[n + 1] \in P
         /\ SubSeq(s, 1, n + 1) = Append(SubSeq(s, 1, n), s[n + 1])
<1>. DEFINE a == SubSeq(s, 1, n + 1)
            b == Append(SubSeq(s, 1, n), s[n + 1])
<1>1. /\ a \in Seq(P) /\ b \in Seq(P)
      /\ Len(a) = n + 1 /\ Len(b) = n + 1
      /\ \A j \in 1..(n + 1) : a[j] = b[j]
      /\ SubSeq(s, 1, n) \in Seq(P) /\ s[n + 1] \in P
  OBVIOUS
<1>. HIDE DEF a, b
<1>2. a = b
  BY <1>1, SeqEqual
<1>. QED BY <1>1, <1>2 DEF a, b

\* A nonempty set of numbers has a least one.
LEMMA LeastExists ==
  ASSUME NEW S \in SUBSET Nat, S # {}
  PROVE  \E l \in S : \A k \in S : l <= k
<1>. SUFFICES ASSUME \A l \in S : \E k \in S : k < l PROVE FALSE
  OBVIOUS
<1>. DEFINE T == {n \in Nat : \A k \in 0..n : k \notin S}
<1>1. 0 \in T
  OBVIOUS
<1>2. ASSUME NEW n \in T PROVE n + 1 \in T
  <2>1. n + 1 \notin S
    OBVIOUS
  <2>. QED BY <2>1
<1>3. T = Nat
  <2>. HIDE DEF T
  <2>1. T \in SUBSET Nat
    BY DEF T
  <2>. QED BY <1>1, <1>2, <2>1, SetInduction
<1>4. \A n \in Nat : n \notin S
  <2>. TAKE n \in Nat
  <2>1. n \in T /\ n \in 0..n
    BY <1>3
  <2>. QED BY <2>1
<1>. QED BY <1>4

\* A nonempty set of numbers up to n has a greatest element, which is Max.
LEMMA MaxIsGreatest ==
  ASSUME NEW n \in Nat, NEW S \in SUBSET (1..n), S # {}
  PROVE  Max(S) \in S /\ \A x \in S : x <= Max(S)
<1>. DEFINE Bounded(m) == \A X \in SUBSET (1..m) : X # {} => \E x \in X : \A y \in X : x >= y
            T == {m \in Nat : Bounded(m)}
<1>1. 0 \in T
  <2>1. 1..0 = {}
    OBVIOUS
  <2>. QED BY <2>1
<1>2. ASSUME NEW m \in T PROVE m + 1 \in T
  <2>. SUFFICES ASSUME NEW X \in SUBSET (1..(m + 1)), X # {}
                PROVE  \E x \in X : \A y \in X : x >= y
    OBVIOUS
  <2>1. CASE m + 1 \in X
    BY <2>1
  <2>2. CASE m + 1 \notin X
    <3>1. X \in SUBSET (1..m)
      BY <2>2
    <3>. QED BY <3>1
  <2>. QED BY <2>1, <2>2
<1>3. T = Nat
  <2>. HIDE DEF T
  <2>1. T \in SUBSET Nat
    BY DEF T
  <2>. QED BY <1>1, <1>2, <2>1, SetInduction
<1>4. \E x \in S : \A y \in S : x >= y
  BY <1>3
<1>. QED BY <1>4 DEF Max

-----------------------------------------------------------------------------
(***************************************************************************)
(* The function that a loop of n turns defines, whose turns depend on k    *)
(* and on nothing else.                                                    *)
(***************************************************************************)
Iterates(f, k, n) == f = [i \in 0..n |-> IF i = 0 THEN Start(k) ELSE Step(k, f[i - 1], k)]

\* It exists, whatever the turns are.
THEOREM IterationExists == \A k : \A n \in Nat : \E f : Iterates(f, k, n)
<1>. SUFFICES ASSUME NEW k PROVE \A n \in Nat : \E f : Iterates(f, k, n)
  OBVIOUS
<1>. DEFINE T == {n \in Nat : \E f : Iterates(f, k, n)}
<1>1. 0 \in T
  <2>. DEFINE f == [i \in 0..0 |-> Start(k)]
  <2>1. Iterates(f, k, 0)
    BY DEF Iterates
  <2>. QED BY <2>1
<1>2. ASSUME NEW n \in T PROVE n + 1 \in T
  <2>1. PICK f : Iterates(f, k, n)
    OBVIOUS
  <2>. DEFINE g == [i \in 0..(n + 1) |-> IF i = n + 1 THEN Step(k, f[n], k) ELSE f[i]]
  <2>2. ASSUME NEW i \in 0..(n + 1)
        PROVE  g[i] = IF i = 0 THEN Start(k) ELSE Step(k, g[i - 1], k)
    <3>1. CASE i = n + 1
      BY <3>1
    <3>2. CASE i \in 0..n
      <4>1. f[i] = IF i = 0 THEN Start(k) ELSE Step(k, f[i - 1], k)
        BY <2>1, <3>2 DEF Iterates
      <4>2. g[i] = f[i] /\ (i # 0 => g[i - 1] = f[i - 1])
        BY <3>2
      <4>. QED BY <4>1, <4>2
    <3>. QED BY <3>1, <3>2
  <2>3. Iterates(g, k, n + 1)
    <3>. HIDE DEF g
    <3>1. g = [i \in 0..(n + 1) |-> g[i]]
      BY DEF g
    <3>. QED BY <2>2, <3>1 DEF Iterates
  <2>. HIDE DEF g
  <2>. QED BY <2>3
<1>3. T = Nat
  <2>. HIDE DEF T
  <2>1. T \in SUBSET Nat
    BY DEF T
  <2>. QED BY <1>1, <1>2, <2>1, SetInduction
<1>. QED BY <1>3
-----------------------------------------------------------------------------
(***************************************************************************)
(* The recursion behind a fold.  Unfolds(f, k, s, m): f is the function    *)
(* that the definition of FoldLeft chooses, on subsets of 1..m.            *)
(***************************************************************************)
Unfolds(f, k, s, m) ==
  f = [S \in SUBSET (1..m) |->
         IF S = {} THEN Start(k) ELSE Step(k, f[S \ {Max(S)}], s[Max(S)])]

LEMMA UnfoldingExists ==
  ASSUME NEW k, NEW s, NEW n \in Nat
  PROVE  \E f : Unfolds(f, k, s, n)
<1>. DEFINE T == {m \in Nat : \E f : Unfolds(f, k, s, m)}
<1>1. 0 \in T
  <2>. DEFINE f == [S \in SUBSET (1..0) |-> Start(k)]
  <2>1. Unfolds(f, k, s, 0)
    BY DEF Unfolds
  <2>. QED BY <2>1
<1>2. ASSUME NEW m \in T PROVE m + 1 \in T
  <2>1. PICK f : Unfolds(f, k, s, m)
    OBVIOUS
  <2>. DEFINE g == [S \in SUBSET (1..(m + 1)) |->
                      IF m + 1 \in S THEN Step(k, f[S \ {m + 1}], s[m + 1]) ELSE f[S]]
  <2>2. ASSUME NEW S \in SUBSET (1..(m + 1))
        PROVE  g[S] = IF S = {} THEN Start(k) ELSE Step(k, g[S \ {Max(S)}], s[Max(S)])
    <3>1. CASE m + 1 \in S
      <4>1. Max(S) = m + 1
        <5>1. Max(S) \in S /\ \A x \in S : x <= Max(S)
          BY <3>1, MaxIsGreatest
        <5>2. Max(S) \in 1..(m + 1) /\ m + 1 <= Max(S)
          BY <3>1, <5>1
        <5>. QED BY <5>2
      <4>2. S \ {m + 1} \in SUBSET (1..m)
        OBVIOUS
      <4>3. g[S \ {m + 1}] = f[S \ {m + 1}]
        BY <4>2
      <4>. QED BY <3>1, <4>1, <4>3
    <3>2. CASE m + 1 \notin S
      <4>1. S \in SUBSET (1..m)
        BY <3>2
      <4>2. f[S] = IF S = {} THEN Start(k) ELSE Step(k, f[S \ {Max(S)}], s[Max(S)])
        BY <2>1, <4>1 DEF Unfolds
      <4>3. S \ {Max(S)} \in SUBSET (1..m) /\ m + 1 \notin S \ {Max(S)}
        BY <3>2, <4>1
      <4>4. g[S \ {Max(S)}] = f[S \ {Max(S)}] /\ g[S] = f[S]
        BY <3>2, <4>3
      <4>. QED BY <4>2, <4>4
    <3>. QED BY <3>1, <3>2
  <2>3. Unfolds(g, k, s, m + 1)
    <3>. HIDE DEF g
    <3>1. g = [S \in SUBSET (1..(m + 1)) |-> g[S]]
      BY DEF g
    <3>. QED BY <2>2, <3>1 DEF Unfolds
  <2>. HIDE DEF g
  <2>. QED BY <2>3
<1>3. T = Nat
  <2>. HIDE DEF T
  <2>1. T \in SUBSET Nat
    BY DEF T
  <2>. QED BY <1>1, <1>2, <2>1, SetInduction
<1>. QED BY <1>3

\* Prefixes that agree unfold to the same values.
LEMMA UnfoldingAgrees ==
  ASSUME NEW k, NEW n \in Nat, NEW s, NEW t, NEW p \in Nat, NEW q \in Nat,
         n <= p, n <= q, \A i \in 1..n : s[i] = t[i],
         NEW f, Unfolds(f, k, s, p), NEW g, Unfolds(g, k, t, q)
  PROVE  f[1..n] = g[1..n]
<1>. DEFINE T == {m \in Nat : m <= n => f[1..m] = g[1..m]}
<1>1. 0 \in T
  <2>1. 1..0 = {} /\ {} \in SUBSET (1..p) /\ {} \in SUBSET (1..q)
    OBVIOUS
  <2>2. f[{}] = Start(k) /\ g[{}] = Start(k)
    BY <2>1 DEF Unfolds
  <2>. QED BY <2>1, <2>2
<1>2. ASSUME NEW m \in T PROVE m + 1 \in T
  <2>. SUFFICES ASSUME m + 1 <= n PROVE f[1..(m + 1)] = g[1..(m + 1)]
    OBVIOUS
  <2>. DEFINE S == 1..(m + 1)
  <2>1. S \in SUBSET (1..p) /\ S \in SUBSET (1..q) /\ S # {}
    <3>1. m + 1 \in S
      OBVIOUS
    <3>. QED BY <3>1
  <2>2. Max(S) = m + 1
    <3>1. Max(S) \in S /\ \A x \in S : x <= Max(S)
      <4>. HIDE DEF S
      <4>. QED BY <2>1, MaxIsGreatest
    <3>2. m + 1 \in S
      OBVIOUS
    <3>. QED BY <3>1, <3>2
  <2>3. S \ {m + 1} = 1..m
    OBVIOUS
  <2>4. f[S] = Step(k, f[S \ {Max(S)}], s[Max(S)])
    <3>. HIDE DEF S
    <3>. QED BY <2>1 DEF Unfolds
  <2>5. g[S] = Step(k, g[S \ {Max(S)}], t[Max(S)])
    <3>. HIDE DEF S
    <3>. QED BY <2>1 DEF Unfolds
  <2>6. s[m + 1] = t[m + 1] /\ f[1..m] = g[1..m]
    OBVIOUS
  <2>. QED BY <2>2, <2>3, <2>4, <2>5, <2>6
<1>3. T = Nat
  <2>. HIDE DEF T
  <2>1. T \in SUBSET Nat
    BY DEF T
  <2>. QED BY <1>1, <1>2, <2>1, SetInduction
<1>. QED BY <1>3

\* The value of a fold is that of any unfolding.
LEMMA FoldUnfolds ==
  ASSUME NEW k, NEW S, NEW s \in Seq(S)
  PROVE  \E f : Unfolds(f, k, s, Len(s)) /\ Fold(k, s) = f[1..Len(s)]
<1>. DEFINE f == CHOOSE f : Unfolds(f, k, s, Len(s))
<1>1. Unfolds(f, k, s, Len(s))
  BY UnfoldingExists
<1>2. DOMAIN s = 1..Len(s)
  OBVIOUS
<1>3. Fold(k, s) = f[1..Len(s)]
  BY <1>2 DEF Fold, FoldLeft, MapThenFoldSet, Unfolds
<1>. QED BY <1>1, <1>3
-----------------------------------------------------------------------------
\* Nothing to fold leaves the start.
THEOREM FoldEmpty == \A k : Fold(k, <<>>) = Start(k)
<1>. SUFFICES ASSUME NEW k PROVE Fold(k, <<>>) = Start(k)
  OBVIOUS
<1>1. <<>> \in Seq({}) /\ Len(<<>>) = 0 /\ 1..0 = {}
  OBVIOUS
<1>2. PICK f : Unfolds(f, k, <<>>, 0) /\ Fold(k, <<>>) = f[{}]
  BY <1>1, FoldUnfolds
<1>3. {} \in SUBSET (1..0)
  OBVIOUS
<1>. QED BY <1>2, <1>3 DEF Unfolds

\* The last element is folded last.
THEOREM FoldAppend ==
  \A k, S : \A s \in Seq(S), e \in S : Fold(k, Append(s, e)) = Step(k, Fold(k, s), e)
<1>. SUFFICES ASSUME NEW k, NEW S, NEW s \in Seq(S), NEW e \in S
              PROVE  Fold(k, Append(s, e)) = Step(k, Fold(k, s), e)
  OBVIOUS
<1>. DEFINE n == Len(s)
            t == Append(s, e)
<1>1. /\ n \in Nat /\ t \in Seq(S) /\ Len(t) = n + 1
      /\ \A i \in 1..n : t[i] = s[i]
      /\ t[n + 1] = e
  OBVIOUS
<1>. HIDE DEF t, n
<1>2. PICK f : Unfolds(f, k, s, n) /\ Fold(k, s) = f[1..n]
  BY FoldUnfolds DEF n
<1>3. PICK g : Unfolds(g, k, t, n + 1) /\ Fold(k, t) = g[1..(n + 1)]
  BY <1>1, FoldUnfolds
<1>4. f[1..n] = g[1..n]
  BY <1>1, <1>2, <1>3, UnfoldingAgrees
<1>5. Max(1..(n + 1)) = n + 1
  <2>1. n + 1 \in Nat /\ 1..(n + 1) # {} /\ n + 1 \in 1..(n + 1)
    BY <1>1
  <2>2. Max(1..(n + 1)) \in 1..(n + 1) /\ \A x \in 1..(n + 1) : x <= Max(1..(n + 1))
    BY <2>1, MaxIsGreatest
  <2>. QED BY <1>1, <2>1, <2>2
<1>6. 1..(n + 1) # {} /\ (1..(n + 1)) \ {n + 1} = 1..n
  <2>1. n + 1 \in 1..(n + 1)
    BY <1>1
  <2>2. \A x : x \in (1..(n + 1)) \ {n + 1} <=> x \in 1..n
    BY <1>1
  <2>. QED BY <2>1, <2>2
<1>7. g[1..(n + 1)] = Step(k, g[1..n], t[n + 1])
  BY <1>3, <1>5, <1>6 DEF Unfolds
<1>. QED BY <1>1, <1>2, <1>3, <1>4, <1>7 DEF t
=============================================================================
