--------------------------- MODULE CounterReplicas ---------------------------
(***************************************************************************)
(* Replicas of a PNCounter (src/crdt/pncounter.rs) that update their own   *)
(* components and merge states they are sent.  The library leaves delivery *)
(* to the application: net holds every state any replica has had, and any  *)
(* replica may merge any of them, late, repeatedly, out of order or never. *)
(*                                                                         *)
(* updates and known are history variables: updates[r] is what r was asked *)
(* to count, and the first known[r][q] updates of q are those whose effect *)
(* has reached r.                                                          *)
(***************************************************************************)
EXTENDS Crdt, SequencesExt

CONSTANTS Amounts, MaxUpdates

ASSUME AmountsAssumption == Amounts \subseteq Nat

VARIABLES counter, net, updates, known

counterVars == <<counter, net, updates, known>>

Message(c, k) == [counter |-> c, known |-> k]

CounterInit ==
  /\ counter = [r \in Replicas |-> ZeroPN]
  /\ known = [r \in Replicas |-> [q \in Replicas |-> 0]]
  /\ updates = [r \in Replicas |-> <<>>]
  /\ net = {Message(ZeroPN, [q \in Replicas |-> 0])}

\* increment and decrement of one's own component; CounterOverflow leaves
\* the value as it is.
Count(r, side, amount) ==
  LET counted == ~Overflows(counter[r][side], r, amount)
      k       == [known[r] EXCEPT ![r] = IF counted THEN @ + 1 ELSE @]
      c       == [counter[r] EXCEPT ![side] = Increment(@, r, amount)]
  IN  /\ Len(updates[r]) < MaxUpdates
      /\ counter' = [counter EXCEPT ![r] = c]
      /\ updates' = [updates EXCEPT ![r] =
                       IF counted THEN Append(@, [side |-> side, amount |-> amount])
                       ELSE @]
      /\ known' = [known EXCEPT ![r] = k]
      /\ net' = net \cup {Message(c, k)}

MergeState(r, m) ==
  LET c == MergePN(counter[r], m.counter)
      k == [q \in Replicas |-> IF known[r][q] < m.known[q] THEN m.known[q]
                               ELSE known[r][q]]
  IN  /\ counter' = [counter EXCEPT ![r] = c]
      /\ known' = [known EXCEPT ![r] = k]
      /\ net' = net \cup {Message(c, k)}
      /\ UNCHANGED updates

MergeFrom(r, q) == MergeState(r, Message(counter[q], known[q]))

CounterNext ==
  \E r \in Replicas :
    \/ \E side \in {"positive", "negative"} : \E amount \in Amounts :
         Count(r, side, amount)
    \/ \E m \in net : MergeState(r, m)

CounterSpec == CounterInit /\ [][CounterNext]_counterVars
-----------------------------------------------------------------------------
AmountsOf(r, side, n) ==
  FoldLeft(LAMBDA total, u : IF u.side = side THEN total + u.amount ELSE total,
           0, SubSeq(updates[r], 1, n))

Known(c, k) ==
  \A q \in Replicas : \A side \in {"positive", "negative"} :
    Component(c[side], q) = AmountsOf(q, side, k[q])

\* Type invariant.
CounterTypeOK ==
  /\ counter \in [Replicas -> PNCounters]
  /\ \A m \in net : m.counter \in PNCounters

\* Every update is counted exactly once by every replica its effect has
\* reached, directly or through others, however often and in whatever order
\* states were merged.
ExactlyOnce ==
  /\ \A r \in Replicas : Known(counter[r], known[r])
  /\ \A m \in net : Known(m.counter, m.known)

\* Nobody holds more of a component than the replica that owns it.
OwnersLead ==
  \A q \in Replicas : \A side \in {"positive", "negative"} :
    /\ \A r \in Replicas :
         Component(counter[r][side], q) <= Component(counter[q][side], q)
    /\ \A m \in net :
         Component(m.counter[side], q) <= Component(counter[q][side], q)

\* The laws that src/crdt/mod.rs demands of merge, of the states in use.
MergeLaws ==
  \A a, b, c \in {m.counter : m \in net} :
    /\ MergePN(a, b) = MergePN(b, a)
    /\ MergePN(MergePN(a, b), c) = MergePN(a, MergePN(b, c))
    /\ MergePN(a, a) = a

\* All replicas show the same value.
CountersAgree == \A r, q \in Replicas : counter[r] = counter[q]
=============================================================================
