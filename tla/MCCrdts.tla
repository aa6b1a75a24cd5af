------------------------------- MODULE MCCrdts -------------------------------
(***************************************************************************)
(* The replicated values for TLC: in one part of the run two replicas      *)
(* count, in the other three write a register; what does not take part     *)
(* stays as it began.                                                      *)
(***************************************************************************)
EXTENDS CounterReplicas, RegisterReplicas

VARIABLE part

Two == {1, 2}
Three == {1, 2, 3}

allVars == <<part, counter, net, updates, known, register, writes>>

Init ==
  /\ part \in {"counter", "register"}
  /\ CounterInit
  /\ RegisterInit
  /\ part = "counter" => \A r \in Writers : register[r].value = "on" /\ register[r].timestamp = 1

Counting == part = "counter" /\ UNCHANGED <<part, register, writes>>
Writing == part = "register" /\ UNCHANGED <<part, counterVars>>

Next ==
  \/ CounterNext /\ Counting
  \/ RegisterNext /\ Writing

\* "after every replica eventually receives the same states" (README.md):
\* every replica eventually gets the present state of every other.
Delivery ==
  /\ \A r, q \in Replicas : WF_allVars(MergeFrom(r, q) /\ Counting)
  /\ \A r, q \in Writers : WF_allVars(MergeRegisterFrom(r, q) /\ Writing)

Spec == Init /\ [][Next]_allVars /\ Delivery

\* Once updates stop and states get through, all replicas are equal
\* (README.md, "eventually receives the same states"): counters make no more
\* updates, and writers run out of stamps that win.
AllConverge ==
  <>[](/\ part = "counter" => CountersAgree
       /\ part = "register" => RegistersAgree)
=============================================================================
