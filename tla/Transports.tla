------------------------------ MODULE Transports ------------------------------
(***************************************************************************)
(* Two of the transports behind publish and subscribe: LocalTransport      *)
(* (src/transport/local.rs), a bus inside the process, and                 *)
(* WebSocketRealtimeTransport (src/transport/websocket.rs) with the relay  *)
(* it talks to (src/ws_broker.rs), whose bus is the same kind.             *)
(*                                                                         *)
(* bus is every message ever sent on the bus; a message is its place in it *)
(* and bus[i] its topic.  The bus keeps the last Capacity of them          *)
(* (tokio::sync::broadcast): a receiver further behind is told once that   *)
(* it lagged and goes on with the oldest one kept.                         *)
(***************************************************************************)
EXTENDS Integers, SequencesExt

CONSTANTS Topic, Subscribers,
          Topics,            \* Topics[s]: what s subscribes to
          Capacity,          \* 1024 in the process, 2048 in the relay
          SocketCapacity,    \* messages a connection takes before a send waits
          ChannelCapacity,   \* the client task's mpsc channel, 1024
          MaxMessages,       \* bound on the messages published
          Absent             \* no receiver; in place of a message, the error item

ASSUME BusAssumption == Capacity \in Nat \ {0} /\ Absent \notin Nat

VARIABLES transport,   \* "local" or "websocket"
          bus,
          frames,      \* Publish frames the relay has not handled yet
          asked,       \* subscribers whose Subscribe frame is under way
          cursor,      \* cursor[s]: the last message s's receiver has taken
          socket,      \* socket[s]: what the relay has sent to s
          channel,     \* channel[s]: what s's client task has read
          taken,       \* taken[s]: the items the application got
          since,       \* history: where s's subscription began
          skipped      \* history: what s's receiver was told it missed

wireVars == <<transport, bus, frames, asked, cursor, socket, channel, taken, since, skipped>>
streams == <<asked, cursor, socket, channel, taken, since, skipped>>

WireInit ==
  /\ transport \in {"local", "websocket"}
  /\ bus = <<>>
  /\ frames = [t \in Topic |-> 0]
  /\ asked = {}
  /\ cursor = [s \in Subscribers |-> Absent]
  /\ socket = [s \in Subscribers |-> <<>>]
  /\ channel = [s \in Subscribers |-> <<>>]
  /\ taken = [s \in Subscribers |-> <<>>]
  /\ since = [s \in Subscribers |-> Absent]
  /\ skipped = [s \in Subscribers |-> {}]

Published == Len(bus) + FoldFunction(LAMBDA n, sum : n + sum, 0, frames)
-----------------------------------------------------------------------------
(***************************************************************************)
(* The bus.                                                                *)
(***************************************************************************)
Send(t) == bus' = Append(bus, t)

Subscribed(s) ==
  /\ cursor[s] = Absent /\ since[s] = Absent
  /\ cursor' = [cursor EXCEPT ![s] = Len(bus)]
  /\ since' = [since EXCEPT ![s] = Len(bus)]

Lagging(s) == cursor[s] # Absent /\ Len(bus) - cursor[s] > Capacity

Ready(s) == cursor[s] # Absent /\ cursor[s] < Len(bus) /\ ~Lagging(s)

Following(s) == cursor[s] + 1

Wanted(s) == bus[Following(s)] \in Topics[s]

RecvLagged(s) ==
  /\ Lagging(s)
  /\ cursor' = [cursor EXCEPT ![s] = Len(bus) - Capacity]
  /\ skipped' = [skipped EXCEPT ![s] = @ \cup (Following(s)..(Len(bus) - Capacity))]

RecvMessage(s) ==
  /\ Ready(s)
  /\ cursor' = [cursor EXCEPT ![s] = @ + 1]
  /\ UNCHANGED skipped
-----------------------------------------------------------------------------
(***************************************************************************)
(* LocalTransport: publish and subscribe act on the bus directly, and the  *)
(* application polls the receiver.                                         *)
(***************************************************************************)
LocalPublish(t) ==
  /\ transport = "local" /\ Published < MaxMessages
  /\ Send(t)
  /\ UNCHANGED <<transport, frames, streams>>

LocalSubscribe(s) ==
  /\ transport = "local"
  /\ Subscribed(s)
  /\ UNCHANGED <<transport, bus, frames, asked, socket, channel, taken, skipped>>

\* A mutant of LocalLagged: the error is filtered out.
LocalLaggedQuietly(s) ==
  /\ transport = "local"
  /\ RecvLagged(s)
  /\ UNCHANGED <<transport, bus, frames, asked, socket, channel, taken, since>>

\* Lagging is an item of the stream, an error.
LocalLagged(s) ==
  /\ transport = "local"
  /\ RecvLagged(s)
  /\ taken' = [taken EXCEPT ![s] = Append(@, Absent)]
  /\ UNCHANGED <<transport, bus, frames, asked, socket, channel, since>>

LocalTake(s) ==
  /\ transport = "local"
  /\ RecvMessage(s)
  /\ taken' = [taken EXCEPT ![s] = IF Wanted(s) THEN Append(@, Following(s)) ELSE @]
  /\ UNCHANGED <<transport, bus, frames, asked, socket, channel, since>>
-----------------------------------------------------------------------------
(***************************************************************************)
(* The websocket transport.  publish returns when its frame is sent on a   *)
(* connection of its own, subscribe when its Subscribe frame is: the       *)
(* relay's tasks act on either later, in any order.                        *)
(***************************************************************************)
WsPublish(t) ==
  /\ transport = "websocket" /\ Published < MaxMessages
  /\ frames' = [frames EXCEPT ![t] = @ + 1]
  /\ UNCHANGED <<transport, bus, streams>>

RelayPublish(t) ==
  /\ frames[t] > 0
  /\ frames' = [frames EXCEPT ![t] = @ - 1]
  /\ Send(t)
  /\ UNCHANGED <<transport, streams>>

WsSubscribe(s) ==
  /\ transport = "websocket" /\ since[s] = Absent
  /\ asked' = asked \cup {s}
  /\ UNCHANGED <<transport, bus, frames, cursor, socket, channel, taken, since, skipped>>

RelaySubscribe(s) ==
  /\ s \in asked
  /\ Subscribed(s)
  /\ asked' = asked \ {s}
  /\ UNCHANGED <<transport, bus, frames, socket, channel, taken, skipped>>

\* The relay's task for s goes on as if nothing had happened.
RelayLagged(s) ==
  /\ transport = "websocket"
  /\ RecvLagged(s)
  /\ UNCHANGED <<transport, bus, frames, asked, socket, channel, taken, since>>

\* It waits while the connection is full.
RelayForward(s) ==
  /\ transport = "websocket"
  /\ Len(socket[s]) < SocketCapacity
  /\ RecvMessage(s)
  /\ socket' = [socket EXCEPT ![s] = IF Wanted(s) THEN Append(@, Following(s)) ELSE @]
  /\ UNCHANGED <<transport, bus, frames, asked, channel, taken, since>>

\* A mutant of ClientRead: what does not fit into the channel is let go.
ClientReadDropping(s) ==
  /\ socket[s] # <<>>
  /\ channel' = [channel EXCEPT ![s] = IF Len(@) < ChannelCapacity
                                       THEN Append(@, Head(socket[s])) ELSE @]
  /\ socket' = [socket EXCEPT ![s] = Tail(@)]
  /\ UNCHANGED <<transport, bus, frames, asked, cursor, taken, since, skipped>>

\* The client's task moves what it reads into its channel, and waits while
\* that is full.
ClientRead(s) ==
  /\ socket[s] # <<>> /\ Len(channel[s]) < ChannelCapacity
  /\ channel' = [channel EXCEPT ![s] = Append(@, Head(socket[s]))]
  /\ socket' = [socket EXCEPT ![s] = Tail(@)]
  /\ UNCHANGED <<transport, bus, frames, asked, cursor, taken, since, skipped>>

WsTake(s) ==
  /\ channel[s] # <<>>
  /\ taken' = [taken EXCEPT ![s] = Append(@, Head(channel[s]))]
  /\ channel' = [channel EXCEPT ![s] = Tail(@)]
  /\ UNCHANGED <<transport, bus, frames, asked, cursor, socket, since, skipped>>

\* The connection ends: the relay's task for s with it.
Disconnect(s) ==
  /\ transport = "websocket" /\ cursor[s] # Absent
  /\ cursor' = [cursor EXCEPT ![s] = Absent]
  /\ \E n \in 0..Len(socket[s]) : socket' = [socket EXCEPT ![s] = SubSeq(@, 1, n)]
  /\ UNCHANGED <<transport, bus, frames, asked, channel, taken, since, skipped>>

WireNext ==
  \/ \E t \in Topic : LocalPublish(t) \/ WsPublish(t) \/ RelayPublish(t)
  \/ \E s \in Subscribers :
       \/ LocalSubscribe(s) \/ LocalLagged(s) \/ LocalTake(s)
       \/ WsSubscribe(s) \/ RelaySubscribe(s) \/ RelayLagged(s) \/ RelayForward(s)
       \/ ClientRead(s) \/ WsTake(s) \/ Disconnect(s)

WireSpec == WireInit /\ [][WireNext]_wireVars
-----------------------------------------------------------------------------
\* The messages for s its receiver is past.
Passed(s) == {i \in (since[s] + 1)..cursor[s] : bus[i] \in Topics[s]}

\* A local subscription misses nothing it is not told of: between what came
\* before a missed message and what comes after it stands an error
\* (src/transport/local.rs subscribe).
GapsAreAnnounced ==
  transport = "local" =>
    \A s \in Subscribers : cursor[s] # Absent =>
      \A i \in Passed(s) \ Range(taken[s]) :
        \E n \in DOMAIN taken[s] :
          /\ taken[s][n] = Absent
          /\ \A m \in DOMAIN taken[s] :
               taken[s][m] # Absent => (m < n <=> taken[s][m] < i)

\* On the way from the bus to the application nothing is lost but what the
\* bus overwrote, nothing is repeated and nothing overtakes: full channels
\* and connections make the tasks wait (src/ws_broker.rs run,
\* src/transport/websocket.rs subscribe).
OnlyLagLoses ==
  \A s \in Subscribers :
    LET way == taken[s] \o channel[s] \o socket[s]
    IN  /\ \A m, n \in DOMAIN way :
             m < n /\ Absent \notin {way[m], way[n]} => way[m] < way[n]
        /\ cursor[s] # Absent => Range(way) \ {Absent} = Passed(s) \ skipped[s]
=============================================================================
