----------------------------- MODULE MqttTransport -----------------------------
(***************************************************************************)
(* MqttRealtimeTransport (src/transport/mqtt.rs).  Every publish and every *)
(* subscribe call opens a connection of its own to the broker, all publish *)
(* calls under one client identifier and all subscribe calls under         *)
(* another, whichever process they are made in.  The broker keeps one      *)
(* connection per client identifier and closes the older one (MQTT 3.1.1,  *)
(* section 3.1.4).  No connection fails otherwise.                         *)
(*                                                                         *)
(* A message is the publish call that sends it.                            *)
(***************************************************************************)
EXTENDS Naturals, Sequences

CONSTANTS Publishing,    \* publish calls
          Subscribing,   \* subscribe calls
          Topics,        \* Topics[c]: the topics call c names
          None

VARIABLES call,     \* what has become of each call
          holder,   \* holder[id]: the connection the broker has for id
          accepted, \* the messages the broker has taken
          items     \* items[s]: what the stream of s has yielded, None an error

vars == <<call, holder, accepted, items>>

Calls == Publishing \cup Subscribing

ClientId(c) == IF c \in Publishing THEN "delta-stream-pub" ELSE "delta-stream-sub"

Init ==
  /\ call = [c \in Calls |-> "new"]
  /\ holder = [id \in {"delta-stream-pub", "delta-stream-sub"} |-> None]
  /\ accepted = {}
  /\ items = [s \in Subscribing |-> <<>>]

Becomes(c, status) == call' = [call EXCEPT ![c] = status]

\* The client is made and its request queued; subscribe returns its stream.
Start(c) ==
  /\ call[c] = "new"
  /\ Becomes(c, "polling")
  /\ UNCHANGED <<holder, accepted, items>>

\* The first poll connects.
Connect(c) ==
  /\ call[c] = "polling"
  /\ Becomes(c, "connected")
  /\ holder' = [holder EXCEPT ![ClientId(c)] = c]
  /\ UNCHANGED <<accepted, items>>

Connected(c) == call[c] = "connected" /\ holder[ClientId(c)] = c

\* The broker takes the message and forwards it.
Accept(p) ==
  /\ Connected(p) /\ p \notin accepted
  /\ accepted' = accepted \cup {p}
  /\ items' = [s \in Subscribing |->
                 IF Connected(s) /\ Topics[p] \subseteq Topics[s]
                 THEN Append(items[s], p) ELSE items[s]]
  /\ UNCHANGED <<call, holder>>

\* publish returns Ok and its connection goes with it ...
Return(p) ==
  /\ Becomes(p, "ok")
  /\ holder' = [holder EXCEPT ![ClientId(p)] = IF @ = p THEN None ELSE @]
  /\ UNCHANGED <<accepted, items>>

\* ... on a PubAck ...
Acknowledge(p) == call[p] = "connected" /\ p \in accepted /\ Return(p)

\* ... and as well when a poll takes two seconds.
GiveUp(p) == call[p] \in {"polling", "connected"} /\ p \notin accepted /\ Return(p)

\* The broker has closed the connection: poll fails, and with it the publish
\* call, or the stream after one last item.
Fail(c) ==
  /\ call[c] = "connected" /\ ~Connected(c)
  /\ Becomes(c, "failed")
  /\ items' = IF c \in Subscribing THEN [items EXCEPT ![c] = Append(@, None)] ELSE items
  /\ UNCHANGED <<holder, accepted>>

Next ==
  \/ \E c \in Calls : Start(c) \/ Connect(c) \/ Fail(c)
  \/ \E p \in Publishing : Accept(p) \/ Acknowledge(p) \/ GiveUp(p)

Spec == Init /\ [][Next]_vars
-----------------------------------------------------------------------------
\* "It works above TCP, WebSocket, PubNub, MQTT, NATS, ..." (README.md:28):
\* where nothing else goes wrong, the control loop's subscription and that of
\* a subscriber, of topics of their own, both stay open (src/session.rs
\* control_loop and run subscribe once and end with their stream).
SubscriptionsCoexist == \A s \in Subscribing : call[s] # "failed"
=============================================================================
