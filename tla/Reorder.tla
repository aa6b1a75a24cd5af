------------------------------- MODULE Reorder -------------------------------
(***************************************************************************)
(* Clients that put a ReorderDecoder (src/reorder.rs) between the network  *)
(* of StateSync and their decoder: deltas that arrive too early wait in a  *)
(* bounded map and are drained as soon as the decoder reaches them.  dec   *)
(* is the inner decoder; the publisher is StateSync's.                     *)
(***************************************************************************)
EXTENDS StateSync, ReorderBuffer

VARIABLE pending       \* pending[c]: the map from sequences to early packets

reorderVars == <<vars, pending>>

ReorderInit == Init /\ pending = [c \in Clients |-> <<>>]
-----------------------------------------------------------------------------
\* ReorderDecoder::apply on a packet of the network.
ReorderReceive(c, p) ==
  LET r == ReorderApply(Config[c], dec[c], pending[c], p)
  IN  /\ dec' = [dec EXCEPT ![c] = r.decoder]
      /\ pending' = [pending EXCEPT ![c] = r.waiting]
      /\ UNCHANGED <<sequence, last_state, log, burnt, net>>

ClearPending(c) ==
  /\ pending' = [pending EXCEPT ![c] = <<>>]
  /\ UNCHANGED vars

ResetAll(c) == Reset(c) /\ pending' = [pending EXCEPT ![c] = <<>>]

Publish ==
  /\ \/ \E s \in State : Encode(s) \/ ForceSnapshot(s) \/ FailedUpdate(s)
     \/ \E c \in Clients : RecoverySnapshot(c)
  /\ UNCHANGED pending

ReorderNext ==
  \/ Publish
  \/ \E c \in Clients :
       \/ \E p \in net[c] : ReorderReceive(c, p)
       \/ ClearPending(c)
       \/ ResetAll(c)

ReorderSpec == ReorderInit /\ [][ReorderNext]_reorderVars
-----------------------------------------------------------------------------
\* Type invariant: the map holds packets of the stream, each under its own
\* sequence, and never more than its bound.
ReorderTypeOK ==
  \A c \in Clients :
    /\ Cardinality(DOMAIN pending[c]) <= MaxPending
    /\ \A n \in DOMAIN pending[c] :
         pending[c][n] \in net[c] /\ pending[c][n].sequence = n

\* Draining stops only for want of a packet or of the right base: the packet
\* a client could take next is never left waiting in its map, however early,
\* late or often packets arrived.
NothingReadyWaits ==
  \A c \in Clients :
    dec[c].sequence # None => dec[c].sequence + 1 \notin DOMAIN pending[c]
=============================================================================
