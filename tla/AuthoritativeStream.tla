-------------------------- MODULE AuthoritativeStream --------------------------
(***************************************************************************)
(* What Publisher and Subscriber promise together: there is one history of *)
(* published states, and what a client shows is always an entry of that    *)
(* history, or passes for one, and a later one every time it changes,      *)
(* unless the client resets.                                               *)
(* Nothing is said of packets, hashes, loss or order.                      *)
(***************************************************************************)
EXTENDS Integers

CONSTANTS Clients, State, None,
          Shown(_, _)   \* what a client may show for a published state

VARIABLES history,  \* history[n] is the state published under sequence n
          view      \* view[c] is None or [index, state]

InitialHistory == [0..0 -> State]

Init ==
  /\ history \in InitialHistory
  /\ view = [c \in Clients |-> None]

\* The publisher gives its next sequence to a state.
Publish ==
  /\ UNCHANGED view
  /\ \E n \in DOMAIN history :
       /\ n + 1 \notin DOMAIN history
       /\ \E s \in State :
            history' = [i \in 0..(n + 1) |-> IF i = n + 1 THEN s ELSE history[i]]

\* A client moves forward to an entry of the history.
Adopt(c) ==
  /\ UNCHANGED history
  /\ \E n \in DOMAIN history :
       /\ view[c] # None => view[c].index < n
       /\ \E s \in Shown(c, history[n]) :
            view' = [view EXCEPT ![c] = [index |-> n, state |-> s]]

Forget(c) ==
  /\ view' = [view EXCEPT ![c] = None]
  /\ UNCHANGED history

Next == Publish \/ \E c \in Clients : Adopt(c) \/ Forget(c)

Spec == Init /\ [][Next]_<<history, view>>
=============================================================================
