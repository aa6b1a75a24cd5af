---------------------------- MODULE StrategyAdvisor ----------------------------
(***************************************************************************)
(* What the byte encoders learn: the StrategyAdvisor of                    *)
(* src/fast_selector.rs, which shortlists delta families from the shape of *)
(* the change and from recent winners, and the AdaptiveTuner of            *)
(* src/smart_delta.rs, which raises and lowers the size from which         *)
(* compression is tried.                                                   *)
(*                                                                         *)
(* An advisor is [winners, updates, attempts, wins].  Of the number of     *)
(* updates only "a positive multiple of explore_every" is ever read, so it *)
(* is counted 0, 1 .. ExploreEvery, 1 ..  A tuner is [attempts, wins, min].*)
(***************************************************************************)
EXTENDS Integers, SequencesExt

CONSTANTS ExploreEvery, WinnerWindow,   \* SelectorPolicy
          SparsePercent, RangeRunLimit,
          DensePercent,                 \* 45
          MinWinners,                   \* 8
          FreeAttempts,                 \* 16
          TunerBatch,                   \* 32
          TunerFloor, TunerCeiling,     \* 64 and 64 KiB
          TunerStart                    \* 256

-----------------------------------------------------------------------------
(***************************************************************************)
(* ChangeProfile.                                                          *)
(***************************************************************************)
\* The positions below the shorter length at which the states differ.
DifferingAt(old, new) ==
  {i \in DOMAIN old \cap DOMAIN new : old[i] # new[i]}

Analyze(old, new) ==
  LET at     == DifferingAt(old, new)
      longer == IF Len(old) < Len(new) THEN Len(new) ELSE Len(old)
      grown  == longer - Cardinality(DOMAIN old \cap DOMAIN new)
  IN  [resized       |-> Len(old) # Len(new),
       changed_bytes |-> grown + Cardinality(at),
       changed_runs  |-> Cardinality({i \in at : i - 1 \notin at}),
       size          |-> IF longer = 0 THEN 1 ELSE longer]

ChangedUpTo(profile, percent) == profile.changed_bytes * 100 <= percent * profile.size
-----------------------------------------------------------------------------
(***************************************************************************)
(* StrategyAdvisor.                                                        *)
(***************************************************************************)
SameLengthKinds == {"Sparse", "Ranges", "Xor"}
AnyLengthKinds == {"Splice", "Chunks"}
SmartKinds == SameLengthKinds \cup AnyLengthKinds

NewAdvisor == [winners |-> <<>>, updates |-> 0, attempts |-> 0, wins |-> 0]

WonBy(a, kind) == Cardinality({i \in DOMAIN a.winners : a.winners[i] = kind})

\* The kind that won three of four of the recent updates, if any did.
Dominant(a) ==
  {kind \in SmartKinds :
     Len(a.winners) >= MinWinners /\ WonBy(a, kind) * 4 >= Len(a.winners) * 3}

ShouldExplore(a) == ExploreEvery > 0 /\ a.updates > 0 /\ a.updates % ExploreEvery = 0

\* For states of one length without a clear favourite.
ByShape(profile) ==
  IF ChangedUpTo(profile, SparsePercent) THEN <<"Sparse", "Ranges">>
  ELSE IF profile.changed_runs > RangeRunLimit
          /\ profile.changed_bytes * 100 >= DensePercent * profile.size
       THEN <<"Xor", "Ranges">>
  ELSE <<"Ranges", "Sparse">>

\* A mutant of Shortlist: the favourite is asked before the lengths.
ShortlistFavouriteFirst(a, profile) ==
  IF Dominant(a) # {} /\ ~ShouldExplore(a) THEN <<CHOOSE kind \in Dominant(a) : TRUE>>
  ELSE IF profile.resized THEN <<"Splice", "Chunks">>
  ELSE ByShape(profile)

Shortlist(a, profile) ==
  IF profile.resized THEN <<"Splice", "Chunks">>
  ELSE IF Dominant(a) # {} /\ ~ShouldExplore(a) THEN <<CHOOSE kind \in Dominant(a) : TRUE>>
  ELSE ByShape(profile)

CountUpdate(a) ==
  [a EXCEPT !.updates = IF ExploreEvery > 0 THEN (@ % ExploreEvery) + 1 ELSE @]

ObserveWinner(a, kind) ==
  [CountUpdate(a) EXCEPT
     !.winners = Append(IF Len(@) = WinnerWindow THEN Tail(@) ELSE @, kind)]

\* A mutant of ObserveNoDelta: only updates that a delta won are counted.
ObserveNothing(a) == a

ObserveNoDelta(a) == CountUpdate(a)

ObserveCompression(a, won) ==
  [a EXCEPT !.attempts = @ + 1, !.wins = IF won THEN @ + 1 ELSE @]

\* compression_win_rate is at least 15 percent.
Compressible(a) == a.attempts > 0 /\ a.wins * 20 >= a.attempts * 3

ShouldCompress(a, len, min_payload) ==
  /\ len >= min_payload
  /\ a.attempts < FreeAttempts \/ Compressible(a) \/ ShouldExplore(a)
-----------------------------------------------------------------------------
(***************************************************************************)
(* AdaptiveTuner.                                                          *)
(***************************************************************************)
NewTuner == [attempts |-> 0, wins |-> 0, min |-> TunerStart]

ShouldTryZstd(t, len) == len >= t.min /\ len >= TunerFloor

\* A mutant of Retuned: nothing stops the doubling.
RetunedUnclamped(t) ==
  [attempts |-> 0, wins |-> 0,
   min |-> IF t.wins * 10 < t.attempts THEN t.min * 2
           ELSE IF t.wins * 10 > t.attempts * 6 /\ t.min \div 2 >= TunerFloor THEN t.min \div 2
           ELSE t.min]

\* After a batch of attempts the threshold doubles when fewer than a tenth
\* paid, and halves when more than six tenths did.
Retuned(t) ==
  [attempts |-> 0, wins |-> 0,
   min |-> IF t.wins * 10 < t.attempts
           THEN IF t.min * 2 > TunerCeiling THEN TunerCeiling ELSE t.min * 2
           ELSE IF t.wins * 10 > t.attempts * 6
           THEN IF t.min \div 2 < TunerFloor THEN TunerFloor ELSE t.min \div 2
           ELSE t.min]

TunerObserve(t, before, after) ==
  LET counted == [t EXCEPT !.attempts = @ + 1, !.wins = IF after < before THEN @ + 1 ELSE @]
  IN  IF counted.attempts >= TunerBatch THEN Retuned(counted) ELSE counted
=============================================================================
