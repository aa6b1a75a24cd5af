--------------------------- MODULE RegisterReplicas ---------------------------
(***************************************************************************)
(* Replicas of an LwwRegister (src/crdt/lww_register.rs).  Each replica    *)
(* writes under its own identifier with timestamps the application chooses *)
(* freely; the set writes holds every state any replica has had, and any   *)
(* of them may be merged at any time.                                      *)
(***************************************************************************)
EXTENDS Crdt

CONSTANTS Writers,      \* the replicas of a register
          Values,
          Timestamps    \* what the application stamps its writes with

ASSUME WritersAssumption == Writers \subseteq Nat
ASSUME TimestampsAssumption == Timestamps \subseteq Nat

VARIABLES register, writes

registerVars == <<register, writes>>

Registers == [value : Values, timestamp : Timestamps, replica : Writers]

RegisterInit ==
  /\ register \in [Writers -> Registers]
  /\ \A r \in Writers : register[r].replica = r
  /\ writes = {register[r] : r \in Writers}

Hold(r, x) ==
  /\ register' = [register EXCEPT ![r] = x]
  /\ writes' = writes \cup {x}

Assign(r, value, timestamp) ==
  Hold(r, AssignRegister(register[r],
            [value |-> value, timestamp |-> timestamp, replica |-> r]))

MergeRegister(r, x) == Hold(r, AssignRegister(register[r], x))

MergeRegisterFrom(r, q) == MergeRegister(r, register[q])

RegisterNext ==
  \E r \in Writers :
    \/ \E value \in Values : \E timestamp \in Timestamps : Assign(r, value, timestamp)
    \/ \E x \in writes : MergeRegister(r, x)

RegisterSpec == RegisterInit /\ [][RegisterNext]_registerVars
-----------------------------------------------------------------------------
\* Type invariant.
RegisterTypeOK ==
  /\ register \in [Writers -> Registers]
  /\ writes \subseteq Registers
  /\ \A r \in Writers : register[r] \in writes

\* A stamp belongs to one value: two replicas that agree on the winner agree
\* on the value, although values take no part in the ordering.  It rests on
\* assign refusing a stamp that is not newer than the one held.
StampsIdentifyValues ==
  \A x, y \in writes :
    x.timestamp = y.timestamp /\ x.replica = y.replica => x = y

\* Merging commutes on the states in use: order does not matter.
RegisterMergeLaws ==
  \A x, y, z \in writes :
    /\ AssignRegister(x, y) = AssignRegister(y, x)
    /\ AssignRegister(AssignRegister(x, y), z) = AssignRegister(x, AssignRegister(y, z))
    /\ AssignRegister(x, x) = x

\* A replica's stamp never goes back, so a late or repeated state cannot
\* undo a newer write.
NeverUndone ==
  [][\A r \in Writers :
       register'[r] # register[r] =>
         \/ register'[r].timestamp > register[r].timestamp
         \/ /\ register'[r].timestamp = register[r].timestamp
            /\ register'[r].replica > register[r].replica]_registerVars

\* All replicas show the same write.
RegistersAgree == \A r, q \in Writers : register[r] = register[q]
=============================================================================
