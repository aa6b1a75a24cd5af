------------------------------ MODULE DemoServer ------------------------------
(***************************************************************************)
(* The dashboard's server (src/demo_server.rs): a publisher, a subscriber  *)
(* and a switch that drops the next packet, behind one mutex that a tick   *)
(* holds until its response is written.  A tick may fail at every `?`;     *)
(* what it has done by then stays done, because nothing is rolled back and *)
(* the lock is released without being poisoned.                            *)
(*                                                                         *)
(* advance() makes up the next state; here it is any state of a set in     *)
(* which no zero is negative (AdvancedStates).                             *)
(***************************************************************************)
EXTENDS Decoder

CONSTANTS Schema, Limit,
          MaxSequence     \* bound on the updates between two resets

VARIABLES sequence, last_state,   \* the Encoder
          current, decoder, drop_next,
          missed,                 \* history: some packet since the last one
                                  \* applied did not reach the decoder
          response                \* history: what the last request was told,
                                  \* None for an error

vars == <<sequence, last_state, current, decoder, drop_next, missed, response>>

Config == [schema |-> Schema, limit |-> Limit]

\* AgentState::advance adds 1.9 to the load of demo() and takes it modulo
\* 100.0: the load is never a negative zero, and deltas are exact.
AdvancedStates == \A s, t \in State : Patch(Diff(s, t), s) = t

Fresh ==
  /\ sequence = 0
  /\ last_state = None
  /\ current \in State
  /\ decoder = EmptyDecoder
  /\ drop_next = FALSE
  /\ missed = FALSE
  /\ response = None

Candidates(s) ==
  {SnapshotPacket(sequence + 1, Schema, s)} \cup
  (IF last_state = None THEN {}
   ELSE {DeltaPacket(sequence + 1, Schema, last_state, s)})
-----------------------------------------------------------------------------
TakeSequence == sequence < MaxSequence /\ sequence' = sequence + 1

\* Encoder::encode fails after it took the sequence.
FailToEncode ==
  /\ TakeSequence
  /\ missed' = TRUE
  /\ response' = None
  /\ UNCHANGED <<last_state, current, decoder, drop_next>>

\* The packet is made and then fails to encode for the wire.
FailToWrite(s) ==
  /\ TakeSequence
  /\ last_state' = s
  /\ missed' = TRUE
  /\ response' = None
  /\ UNCHANGED <<current, decoder, drop_next>>

\* The client needs a recovery that fails to encode; the switch is spent.
FailToRecover(s) ==
  /\ TakeSequence
  /\ ~drop_next
  /\ \E p \in Candidates(s) : Outcome(decoder, Config, p) = "NeedSnapshot"
  /\ last_state' = s
  /\ missed' = TRUE
  /\ response' = None
  /\ UNCHANGED <<current, decoder, drop_next>>

Told(s, dropped, need) ==
  [state |-> s, dropped |-> dropped, desync_detected |-> need, resynced |-> need]

\* A tick that reaches its end, where writing the response may still fail.
Tick(s) ==
  /\ TakeSequence
  /\ last_state' = s
  /\ current' = s
  /\ drop_next' = FALSE
  /\ IF drop_next
     THEN /\ missed' = TRUE
          /\ response' \in {Told(s, TRUE, FALSE), None}
          /\ UNCHANGED decoder
     ELSE \E p \in Candidates(s) :
            LET need   == Outcome(decoder, Config, p) = "NeedSnapshot"
                packet == IF need THEN SnapshotPacket(sequence + 1, Schema, s) ELSE p
            IN  /\ Outcome(decoder, Config, packet) \in {"Applied", "Duplicate"}
                /\ decoder' = Apply(decoder, Config, packet)
                /\ missed' = FALSE
                /\ response' \in {Told(s, FALSE, need), None}

Drop ==
  /\ drop_next' = TRUE
  /\ response' = None
  /\ UNCHANGED <<sequence, last_state, current, decoder, missed>>

\* A mutant of Reset: the subscriber is forgotten.
ResetPublisher ==
  /\ sequence' = 0 /\ last_state' = None
  /\ current' \in State
  /\ drop_next' = FALSE
  /\ missed' = FALSE
  /\ response' = None
  /\ UNCHANGED decoder

Reset ==
  /\ sequence' = 0 /\ last_state' = None
  /\ current' \in State
  /\ decoder' = EmptyDecoder
  /\ drop_next' = FALSE
  /\ missed' = FALSE
  /\ response' = None

Next ==
  \/ FailToEncode \/ Drop \/ Reset
  \/ \E s \in State : FailToWrite(s) \/ FailToRecover(s) \/ Tick(s)

Spec == Fresh /\ [][Next]_vars
-----------------------------------------------------------------------------
\* Whatever ticks failed half-way before, what a tick shows is true: unless
\* it says its packet was dropped, which takes a drop request each time, the
\* subscriber holds the shown state at the publisher's sequence, and a desync
\* is reported only after a packet really went missing.
DashboardIsHonest ==
  [][sequence' = sequence + 1 /\ response' # None =>
       IF response'.dropped
       THEN drop_next /\ ~drop_next'
       ELSE /\ decoder'.sequence = sequence' /\ decoder'.state = response'.state
            /\ response'.desync_detected => missed]_vars
=============================================================================
