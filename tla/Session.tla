------------------------------- MODULE Session -------------------------------
(***************************************************************************)
(* PublisherSession and SubscriberSession (src/session.rs): concurrent     *)
(* publish_state calls, the control loop that answers resync requests, and *)
(* subscribers that ask for recovery on their own.  Every await point of   *)
(* the code separates two actions.                                         *)
(*                                                                         *)
(* A subscription is one stream per subscriber (LocalTransport is one      *)
(* broadcast channel); Faults says which failures of it an instance        *)
(* allows.  Hello, HelloAck and Ack messages only cause log lines on both  *)
(* sides and are left out.                                                 *)
(***************************************************************************)
EXTENDS RecoveryHistory

CONSTANTS Publishers,    \* concurrent callers of publish_state
          Clients,
          Schema,        \* agent_schema_hash()
          Limit,         \* the decode limit of the subscribers
          Faults,
          MaxSequence,   \* bound on the number of updates
          MaxSessions    \* bound on the sessions one client runs

ASSUME PublishersAssumption == IsFiniteSet(Publishers) /\ None \notin Publishers

ASSUME SessionBoundsAssumption == MaxSequence \in Nat /\ MaxSessions \in Nat

ASSUME FaultsAssumption ==
  Faults \subseteq {"data_loss",       \* a data packet is not delivered
                    "recovery_loss",   \* a request or a reply is not delivered
                    "overtaking",      \* topics of a subscription overtake each other
                    "publish_error",   \* publish_state fails with the encoder locked
                    "session_error"}   \* a loop ends on a transport error

VARIABLES sequence, last_state,  \* the Encoder
          encoder_lock,          \* the publisher that holds the encoder, or None
          state,                 \* PublisherSession::state
          history,               \* PublisherSession::history
          task,                  \* task[p]: the publish_state call of p
          loop,                  \* the control loop
          control,               \* resync requests on the control topic
          inbox,                 \* inbox[c]: the subscription of c
          sub,                   \* sub[c]: the SubscriberSession of c
          sessions,              \* sessions[c]: how many sessions c has run
          log,                   \* log[n]: the state given under sequence n
          burnt                  \* sequences whose encoding failed

publisherVars ==
  <<sequence, last_state, encoder_lock, state, history, task, log, burnt>>
subscriberVars == <<sub, sessions>>
vars == <<publisherVars, loop, control, inbox, subscriberVars>>

Config == [schema |-> Schema, limit |-> Limit]

IdleTask == [pc |-> "idle", state |-> None, packet |-> None]
IdleLoop == [pc |-> "idle", request |-> None, state |-> None,
             snapshot |-> None, packets |-> <<>>, next |-> 1]
NoSession == [running |-> FALSE, decoder |-> EmptyDecoder, awaiting |-> FALSE]

Init ==
  /\ sequence = 0
  /\ last_state = None
  /\ encoder_lock = None
  /\ state \in State
  /\ history = EmptyHistory
  /\ task = [p \in Publishers |-> IdleTask]
  /\ loop = IdleLoop
  /\ control = <<>>
  /\ inbox = [c \in Clients |-> <<>>]
  /\ sub = [c \in Clients |-> NoSession]
  /\ sessions = [c \in Clients |-> 0]
  /\ log = [n \in {0} |-> state]
  /\ burnt = {}
-----------------------------------------------------------------------------
(***************************************************************************)
(* publish_state.  The state is stored before the encoder is locked; the   *)
(* lock is held until the packet is sent and recorded, or sending fails.   *)
(***************************************************************************)
Pending == {p \in Publishers : task[p].pc = "stored"}

StoreState(p, s) ==
  /\ task[p].pc = "idle"
  /\ sequence + Cardinality(Pending) < MaxSequence
  /\ state' = s
  /\ task' = [task EXCEPT ![p] = [IdleTask EXCEPT !.pc = "stored", !.state = s]]
  /\ UNCHANGED <<sequence, last_state, encoder_lock, history, log, burnt>>
  /\ UNCHANGED <<loop, control, inbox, subscriberVars>>

\* The packets the policy may select.
Candidates(s) ==
  {SnapshotPacket(sequence + 1, Schema, s)} \cup
  (IF last_state = None THEN {}
   ELSE {DeltaPacket(sequence + 1, Schema, last_state, s)})

\* The encoder, once it is free, gives its next sequence to the state of p.
TakeSequence(p) ==
  /\ task[p].pc = "stored"
  /\ encoder_lock = None
  /\ sequence' = sequence + 1
  /\ log' = [n \in 0..(sequence + 1) |->
               IF n = sequence + 1 THEN task[p].state ELSE log[n]]

\* A mutant of EncodeState: the encoder is released once the packet is built.
EncodeStateUnlocked(p) ==
  /\ TakeSequence(p)
  /\ last_state' = task[p].state
  /\ \E packet \in Candidates(task[p].state) :
       task' = [task EXCEPT ![p].pc = "encoded", ![p].packet = packet]
  /\ UNCHANGED <<encoder_lock, state, history, burnt>>
  /\ UNCHANGED <<loop, control, inbox, subscriberVars>>

EncodeState(p) ==
  /\ TakeSequence(p)
  /\ encoder_lock' = p
  /\ last_state' = task[p].state
  /\ \E packet \in Candidates(task[p].state) :
       task' = [task EXCEPT ![p].pc = "encoded", ![p].packet = packet]
  /\ UNCHANGED <<state, history, burnt>>
  /\ UNCHANGED <<loop, control, inbox, subscriberVars>>

\* The error return of encode: the sequence is spent, last_state stays
\* behind, and the guard's drop releases the encoder.
FailToEncode(p) ==
  /\ "publish_error" \in Faults
  /\ TakeSequence(p)
  /\ burnt' = burnt \cup {sequence + 1}
  /\ task' = [task EXCEPT ![p] = IdleTask]
  /\ UNCHANGED <<last_state, encoder_lock, state, history>>
  /\ UNCHANGED <<loop, control, inbox, subscriberVars>>

Message(topic, packet) == [topic |-> topic, packet |-> packet]

SendPacket(p) ==
  /\ task[p].pc = "encoded"
  /\ inbox' = [c \in Clients |->
                 IF sub[c].running
                 THEN Append(inbox[c], Message("data", task[p].packet))
                 ELSE inbox[c]]
  /\ task' = [task EXCEPT ![p].pc = "sent"]
  /\ UNCHANGED <<sequence, last_state, encoder_lock, state, history, log, burnt>>
  /\ UNCHANGED <<loop, control, subscriberVars>>

RecordSent(p) ==
  /\ task[p].pc = "sent"
  /\ history' = RecordPacket(history, task[p].packet)
  /\ encoder_lock' = None
  /\ task' = [task EXCEPT ![p] = IdleTask]
  /\ UNCHANGED <<sequence, last_state, state, log, burnt>>
  /\ UNCHANGED <<loop, control, inbox, subscriberVars>>

\* A mutant of FailToSend: the encoder stays locked.
FailToSendLocked(p) ==
  /\ "publish_error" \in Faults
  /\ task[p].pc = "encoded"
  /\ task' = [task EXCEPT ![p] = IdleTask]
  /\ UNCHANGED <<sequence, last_state, encoder_lock, state, history, log, burnt>>
  /\ UNCHANGED <<loop, control, inbox, subscriberVars>>

\* The error return of Packet::encode or of the transport: the sequence is
\* spent, nothing is recorded, and the guard's drop releases the encoder.
FailToSend(p) ==
  /\ "publish_error" \in Faults
  /\ task[p].pc = "encoded"
  /\ encoder_lock' = None
  /\ task' = [task EXCEPT ![p] = IdleTask]
  /\ UNCHANGED <<sequence, last_state, state, history, log, burnt>>
  /\ UNCHANGED <<loop, control, inbox, subscriberVars>>
-----------------------------------------------------------------------------
(***************************************************************************)
(* control_loop, on a ResyncRequest.                                       *)
(***************************************************************************)
ReadState ==
  /\ loop.pc = "idle"
  /\ control # <<>>
  /\ loop' = [loop EXCEPT !.pc = "read", !.request = Head(control), !.state = state]
  /\ control' = Tail(control)
  /\ UNCHANGED <<publisherVars, inbox, subscriberVars>>

BuildSnapshot ==
  /\ loop.pc = "read"
  /\ encoder_lock = None
  /\ loop' = [loop EXCEPT !.pc = "built",
                          !.snapshot = SnapshotPacket(sequence, Schema, loop.state)]
  /\ UNCHANGED <<publisherVars, control, inbox, subscriberVars>>

PlanRecovery ==
  /\ loop.pc = "built"
  /\ loop' = [loop EXCEPT !.pc = "planned",
                          !.packets = Plan(history, loop.request.local, loop.snapshot)]
  /\ UNCHANGED <<publisherVars, control, inbox, subscriberVars>>

\* One packet of the plan goes to the reply channel.
Reply ==
  LET client == loop.request.client IN
  /\ loop.pc = "planned"
  /\ inbox' = IF sub[client].running
              THEN [inbox EXCEPT ![client] =
                      Append(@, Message("reply", loop.packets[loop.next]))]
              ELSE inbox
  /\ loop' = IF loop.next = Len(loop.packets) THEN IdleLoop
             ELSE [loop EXCEPT !.next = @ + 1]
  /\ UNCHANGED <<publisherVars, control, subscriberVars>>

\* A lagging subscription or an error on the reply channel ends the control
\* loop for good.
StopControl ==
  /\ "session_error" \in Faults
  /\ loop.pc \in {"idle", "planned"}
  /\ loop' = [IdleLoop EXCEPT !.pc = "stopped"]
  /\ UNCHANGED <<publisherVars, control, inbox, subscriberVars>>
-----------------------------------------------------------------------------
(***************************************************************************)
(* SubscriberSession::run.                                                 *)
(***************************************************************************)
\* A new session starts from an empty decoder and sees what is sent from now.
Join(c) ==
  /\ ~sub[c].running
  /\ sessions[c] < MaxSessions
  /\ sub' = [sub EXCEPT ![c] = [NoSession EXCEPT !.running = TRUE]]
  /\ sessions' = [sessions EXCEPT ![c] = @ + 1]
  /\ UNCHANGED <<publisherVars, loop, control, inbox>>

HeadPacket(c) == Head(inbox[c]).packet

HeadOutcome(c) == Outcome(sub[c].decoder, Config, HeadPacket(c))

Handles(c, outcome) ==
  /\ sub[c].running
  /\ inbox[c] # <<>>
  /\ HeadOutcome(c) = outcome
  /\ inbox' = [inbox EXCEPT ![c] = Tail(@)]

\* A mutant of TakePacket: only a snapshot ends the wait for recovery.
TakePacketAwaitingSnapshot(c) ==
  /\ Handles(c, "Applied")
  /\ sub' = [sub EXCEPT ![c].decoder = Apply(@, Config, HeadPacket(c)),
                        ![c].awaiting = @ /\ HeadPacket(c).kind # "Snapshot"]
  /\ UNCHANGED <<publisherVars, loop, control, sessions>>

TakePacket(c) ==
  /\ Handles(c, "Applied")
  /\ sub' = [sub EXCEPT ![c].decoder = Apply(@, Config, HeadPacket(c)),
                        ![c].awaiting = FALSE]
  /\ UNCHANGED <<publisherVars, loop, control, sessions>>

IgnoreDuplicate(c) ==
  /\ Handles(c, "Duplicate")
  /\ UNCHANGED <<publisherVars, loop, control, subscriberVars>>

\* A mutant of DiscardPacket: the request names the packet received.
DiscardPacketNamingIt(c) ==
  /\ Handles(c, "NeedSnapshot")
  /\ sub' = [sub EXCEPT ![c].awaiting = TRUE]
  /\ control' = IF sub[c].awaiting THEN control
                ELSE Append(control, [client |-> c, local |-> HeadPacket(c).sequence])
  /\ UNCHANGED <<publisherVars, loop, sessions>>

\* A packet that needs a snapshot is discarded; a request is published
\* unless one is thought to be outstanding.
DiscardPacket(c) ==
  /\ Handles(c, "NeedSnapshot")
  /\ sub' = [sub EXCEPT ![c].awaiting = TRUE]
  /\ control' = IF sub[c].awaiting THEN control
                ELSE Append(control, [client |-> c, local |-> sub[c].decoder.sequence])
  /\ UNCHANGED <<publisherVars, loop, sessions>>

\* The session ends: apply_packet returned Err, or the transport did (a
\* lagging subscription, a failed Ack or request).
EndSession(c) ==
  /\ sub[c].running
  /\ \/ "session_error" \in Faults
     \/ inbox[c] # <<>> /\ HeadOutcome(c) = "Rejected"
  /\ sub' = [sub EXCEPT ![c] = NoSession]
  /\ inbox' = [inbox EXCEPT ![c] = <<>>]
  /\ UNCHANGED <<publisherVars, loop, control, sessions>>
-----------------------------------------------------------------------------
(***************************************************************************)
(* The transports.                                                         *)
(***************************************************************************)
LoseMessage(c) ==
  /\ inbox[c] # <<>>
  /\ \/ "data_loss" \in Faults /\ Head(inbox[c]).topic = "data"
     \/ "recovery_loss" \in Faults /\ Head(inbox[c]).topic = "reply"
  /\ inbox' = [inbox EXCEPT ![c] = Tail(@)]
  /\ UNCHANGED <<publisherVars, loop, control, subscriberVars>>

\* NatsTransport and PubNubTransport read each topic of a subscription in a
\* task of its own: the order between data and replies is lost.
Overtake(c) ==
  /\ "overtaking" \in Faults
  /\ \E i \in 1..(Len(inbox[c]) - 1) :
       /\ inbox[c][i].topic # inbox[c][i + 1].topic
       /\ inbox' = [inbox EXCEPT ![c] = [@ EXCEPT ![i] = inbox[c][i + 1],
                                                ![i + 1] = inbox[c][i]]]
  /\ UNCHANGED <<publisherVars, loop, control, subscriberVars>>

LoseRequest ==
  /\ "recovery_loss" \in Faults
  /\ control # <<>>
  /\ control' = Tail(control)
  /\ UNCHANGED <<publisherVars, loop, inbox, subscriberVars>>
-----------------------------------------------------------------------------
Publish(p) ==
  EncodeState(p) \/ FailToEncode(p) \/ SendPacket(p) \/ RecordSent(p) \/ FailToSend(p)

ControlLoop == ReadState \/ BuildSnapshot \/ PlanRecovery \/ Reply \/ StopControl

Handle(c) == TakePacket(c) \/ IgnoreDuplicate(c) \/ DiscardPacket(c)

Next ==
  \/ \E p \in Publishers : Publish(p) \/ \E s \in State : StoreState(p, s)
  \/ ControlLoop
  \/ \E c \in Clients :
       Join(c) \/ Handle(c) \/ EndSession(c) \/ LoseMessage(c) \/ Overtake(c)
  \/ LoseRequest

Spec == Init /\ [][Next]_vars

\* The executor polls every ready task, and a tokio Mutex serves its waiters
\* in order; when a new state is published, and who joins, is up to the user.
Fairness ==
  /\ \A p \in Publishers : SF_vars(Publish(p))
  /\ SF_vars(ControlLoop)
  /\ \A c \in Clients : WF_vars(Handle(c))

FairSpec == Spec /\ Fairness
-----------------------------------------------------------------------------
(***************************************************************************)
(* Types and helpers of the properties.                                    *)
(***************************************************************************)
IsData(c, i) == inbox[c][i].topic = "data"

\* The client holds nothing yet, or, bit for bit, the state that was encoded
\* under its sequence.
Intact(c) ==
  LET d == sub[c].decoder
  IN  d.sequence # None => d.state = log[d.sequence] /\ d.sequence \notin burnt

\* Type invariant: the encoder is held by exactly the call that has encoded
\* and neither recorded nor failed yet.
TypeOK ==
  /\ sequence \in 0..MaxSequence
  /\ last_state \in State \cup {None}
  /\ state \in State
  /\ log \in [0..sequence -> State]
  /\ burnt \subseteq 1..sequence
  /\ encoder_lock \in Publishers \cup {None}
  /\ \A p \in Publishers :
       /\ task[p].pc \in {"idle", "stored", "encoded", "sent"}
       /\ encoder_lock = p <=> task[p].pc \in {"encoded", "sent"}
  /\ loop.pc \in {"idle", "read", "built", "planned", "stopped"}
  /\ loop.pc = "planned" => loop.next \in 1..Len(loop.packets)
  /\ \A i \in 1..Len(control) : control[i].client \in Clients
  /\ \A c \in Clients :
       /\ ~sub[c].running => sub[c] = NoSession /\ inbox[c] = <<>>
       /\ sub[c].decoder.sequence \in 0..sequence \cup {None}
       /\ sessions[c] \in 0..MaxSessions
-----------------------------------------------------------------------------
(***************************************************************************)
(* Safety.                                                                 *)
(***************************************************************************)
\* However publish_state calls overlap, data packets reach every subscriber
\* and the history in the order of their sequences: the encoder is locked
\* until the packet is sent and recorded.  This is for transports that keep
\* the order of one topic; the relay tasks of WebSocketRealtimeTransport, one
\* for each connection, do not.
DataInOrder ==
  /\ \A i, j \in 1..Len(history.packets) :
       i < j => history.packets[i].sequence < history.packets[j].sequence
  /\ \A c \in Clients : \A i, j \in 1..Len(inbox[c]) :
       i < j /\ IsData(c, i) /\ IsData(c, j) =>
         inbox[c][i].packet.sequence < inbox[c][j].packet.sequence

\* A client's state can differ from the one published under its sequence, in
\* more than the signs of zeros, only through a recovery snapshot: whatever
\* state it started from, a delta (sent or replayed) or a data snapshot leaves
\* it with one that passes for the published one.
OnlyRecoverySnapshotsMislead ==
  [][\A c \in Clients :
       LET before == sub[c].decoder
           after  == sub'[c].decoder
       IN  ( /\ after.sequence \notin {None, before.sequence}
             /\ ~ ( /\ Head(inbox[c]).topic = "reply"
                    /\ HeadPacket(c).kind = "Snapshot" ) )
           => after.state \in Like[log'[after.sequence]]]_vars

\* A request is answered with something newer than what its client held when
\* it asked, so that the answer cannot be dismissed as a duplicate then.
RecoveryMovesForward ==
  /\ \A i \in 1..Len(control) :
       control[i].local # None => control[i].local < sequence
  /\ loop.pc = "planned" /\ loop.request.local # None =>
       loop.request.local < loop.packets[Len(loop.packets)].sequence
-----------------------------------------------------------------------------
(***************************************************************************)
(* Liveness, under FairSpec.                                               *)
(***************************************************************************)
Awaiting(c) == sub[c].running /\ sub[c].awaiting

\* A subscriber that lost data packets, or joined late, and holds no state or
\* an encoded one bit for bit when it asks is eventually restored, whatever
\* is published, fails to be encoded or fails to be sent meanwhile.  (One that
\* was recovered at a sequence whose encoding failed may wait for ever: the
\* next delta is from the state before, and the plan replays that delta.)
IntactRequestsAnswered ==
  \A c \in Clients : (Awaiting(c) /\ Intact(c)) ~> ~Awaiting(c)

\* No publish_state call waits for the encoder forever.
PublishCompletes ==
  \A p \in Publishers : (task[p].pc # "idle") ~> (task[p].pc = "idle")
-----------------------------------------------------------------------------
(***************************************************************************)
(* What the documentation says and the code does not do.                   *)
(***************************************************************************)
\* "an authoritative snapshot at the publisher's current stream sequence"
\* (docs/COMPATIBILITY.md): the snapshot of a recovery carries the state that
\* was published under its sequence.
SnapshotIsAuthoritative ==
  loop.snapshot # None =>
    loop.snapshot.payload = log[loop.snapshot.sequence]

\* "A fresh snapshot is required after packet loss, an incompatible base
\* state, ..." (docs/COMPATIBILITY.md): a subscriber that asked for recovery
\* is eventually restored.
RequestsAnswered == \A c \in Clients : Awaiting(c) ~> ~Awaiting(c)

\* "Otherwise the receiver requests recovery" (docs/PROTOCOL.md): a delta
\* that is not applied is made up for, the subscriber eventually reaches its
\* sequence.
DiscardedAreRecovered ==
  \A c \in Clients : \A n \in 1..MaxSequence :
    ( /\ sub[c].running
      /\ inbox[c] # <<>>
      /\ HeadPacket(c).sequence = n
      /\ HeadOutcome(c) = "NeedSnapshot" )
    ~> (sub[c].decoder.sequence # None /\ sub[c].decoder.sequence >= n)
=============================================================================
