--------------------------------- MODULE Crdt ---------------------------------
(***************************************************************************)
(* The replicated values of src/crdt: GCounter, PNCounter, LwwRegister and *)
(* their merges.  A GCounter is the map of its components, a PNCounter a   *)
(* pair of them, a register its value with the stamp that won.  Replica    *)
(* identifiers are numbers: all that matters of them is their order.       *)
(***************************************************************************)
EXTENDS Integers

CONSTANTS Replicas,    \* the replicas of a counter
          MaxU64       \* the largest u64, scaled down by the instances

ASSUME ReplicasAssumption == Replicas \subseteq Nat
ASSUME MaxU64Assumption == MaxU64 \in Nat

Counters == UNION {[R -> 0..MaxU64] : R \in SUBSET Replicas}

PNCounters == [positive : Counters, negative : Counters]
-----------------------------------------------------------------------------
(***************************************************************************)
(* GCounter.                                                               *)
(***************************************************************************)
ZeroCounter == [r \in {} |-> 0]

Component(g, r) == IF r \in DOMAIN g THEN g[r] ELSE 0

Overflows(g, r, amount) == Component(g, r) + amount > MaxU64

\* increment: the entry is made before the addition is checked.
Increment(g, r, amount) ==
  [q \in DOMAIN g \cup {r} |->
     IF q = r /\ ~Overflows(g, r, amount) THEN Component(g, r) + amount
     ELSE Component(g, q)]

\* Two mutants of Merge: one adds the components up, the other keeps every
\* component that is already there.
MergeAdding(g, h) ==
  [r \in DOMAIN g \cup DOMAIN h |-> Component(g, r) + Component(h, r)]

MergeMissing(g, h) ==
  [r \in DOMAIN g \cup DOMAIN h |-> IF r \in DOMAIN g THEN g[r] ELSE h[r]]

Merge(g, h) ==
  [r \in DOMAIN g \cup DOMAIN h |->
     IF Component(g, r) < Component(h, r) THEN Component(h, r) ELSE Component(g, r)]
-----------------------------------------------------------------------------
(***************************************************************************)
(* PNCounter.                                                              *)
(***************************************************************************)
ZeroPN == [positive |-> ZeroCounter, negative |-> ZeroCounter]

\* A mutant of MergePN: the second merge is skipped when the first one
\* changed something.
MergePNShort(c, d) ==
  [positive |-> Merge(c.positive, d.positive),
   negative |-> IF Merge(c.positive, d.positive) # c.positive THEN c.negative
                ELSE Merge(c.negative, d.negative)]

MergePN(c, d) == [positive |-> Merge(c.positive, d.positive),
                  negative |-> Merge(c.negative, d.negative)]
-----------------------------------------------------------------------------
(***************************************************************************)
(* LwwRegister.                                                            *)
(***************************************************************************)
\* Two mutants of Wins: a stamp wins over itself; replicas break no ties.
WinsTies(x, y) ==
  \/ x.timestamp > y.timestamp
  \/ x.timestamp = y.timestamp /\ x.replica >= y.replica

WinsByTimestamp(x, y) == x.timestamp > y.timestamp

Wins(x, y) ==
  \/ x.timestamp > y.timestamp
  \/ x.timestamp = y.timestamp /\ x.replica > y.replica

\* A mutant of AssignRegister: the last write to arrive wins.
AssignArriving(x, y) == y

\* assign, and merge, which assigns the other register's contents.
AssignRegister(x, y) == IF Wins(y, x) THEN y ELSE x
=============================================================================
