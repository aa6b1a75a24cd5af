----------------------------- MODULE DriverProofs -----------------------------
(***************************************************************************)
(* Proofs about three of the systems that drive the library: DemoServer,   *)
(* for any states and bounds (what a tick shows is true, whatever failed   *)
(* half-way before), Transports, for any topics, subscribers and           *)
(* capacities (nothing but lag loses messages, and a local subscription is *)
(* told of it), and Simulations, for any clients, states and fates (every  *)
(* round leaves the clients it reaches current, in the end all have        *)
(* converged, and a packet held back for a round costs no recovery).       *)
(***************************************************************************)
EXTENDS DemoServer, Transports, Simulations, DecoderProofs, FiniteSetTheorems,
        SequenceTheorems

-----------------------------------------------------------------------------
(***************************************************************************)
(* The dashboard.                                                          *)
(***************************************************************************)
\* The subscriber never leads the publisher, and unless a packet was missed
\* it holds the state the next delta is computed from.
DashboardInvariant ==
  /\ sequence \in Nat
  /\ last_state \in State \cup {None}
  /\ sequence = 0 => last_state = None
  /\ decoder.sequence \in 0..sequence \cup {None}
  /\ decoder.sequence # None => decoder.state \in State
  /\ decoder.seen \in Seq(0..sequence)
  /\ Len(decoder.seen) <= WindowCapacity
  /\ WindowInOrder(decoder)
  /\ ~missed /\ sequence # 0 =>
       decoder.sequence = sequence /\ decoder.state = last_state

\* A new server, and one that was reset.
LEMMA FreshIsRight ==
  EmptyDecoder.sequence = None /\ \A n \in Nat :
    /\ EmptyDecoder.seen \in Seq(0..n)
    /\ Len(EmptyDecoder.seen) <= WindowCapacity
    /\ WindowInOrder(EmptyDecoder)
<1>1. EmptyDecoder.sequence = None /\ EmptyDecoder.seen = <<>>
  BY DEF EmptyDecoder
<1>2. Len(<<>>) <= WindowCapacity /\ \A n \in Nat : <<>> \in Seq(0..n)
  BY CapacityAssumption
<1>3. QED
  BY <1>1, <1>2 DEF WindowInOrder

\* A tick that fails leaves a subscriber that fell one sequence behind.
LEMMA FailureIsMissed ==
  ASSUME DashboardInvariant, sequence' = sequence + 1, decoder' = decoder,
         last_state' \in State \cup {None}, missed' = TRUE
  PROVE  DashboardInvariant'
<1>1. sequence \in Nat /\ 0..sequence \subseteq 0..sequence'
  BY DEF DashboardInvariant
<1>2. Seq(0..sequence) \subseteq Seq(0..sequence')
  BY <1>1
<1>3. QED
  BY <1>1, <1>2 DEF DashboardInvariant

\* Every packet of the publisher is new to the subscriber.
LEMMA CandidatesAreNew ==
  ASSUME DashboardInvariant, NEW p, p.sequence = sequence + 1
  PROVE  ~Stale(decoder, p)
<1>1. sequence \in Nat /\ 0..sequence \subseteq Nat
  BY DEF DashboardInvariant
<1>2. Seq(0..sequence) \subseteq Seq(Nat)
  BY <1>1
<1>3. /\ decoder.seen \in Seq(Nat)
      /\ decoder.sequence \in Nat \cup {None}
      /\ decoder.sequence # None => decoder.sequence <= sequence
      /\ WindowInOrder(decoder)
      /\ p.sequence \in Nat
  BY <1>1, <1>2 DEF DashboardInvariant
<1>4. QED
  BY <1>1, <1>3, StaleComparesSequences

\* A packet for s that is applied leaves the subscriber with s.
LEMMA CandidatesYieldState ==
  ASSUME AdvancedStates, DashboardInvariant, NEW s \in State,
         NEW p \in Candidates(s) \cup {SnapshotPacket(sequence + 1, Schema, s)},
         Outcome(decoder, Config, p) \in {"Applied", "Duplicate"}
  PROVE  /\ Outcome(decoder, Config, p) = "Applied"
         /\ p.sequence = sequence + 1
         /\ Resulting(decoder, Config, p) = s
<1>1. p.sequence = sequence + 1
  BY DEF Candidates, SnapshotPacket, DeltaPacket
<1>2. ~Stale(decoder, p)
  BY <1>1, CandidatesAreNew
<1>3. Outcome(decoder, Config, p) = "Applied"
  BY <1>2 DEF Outcome
<1>4. p.schema_hash = Config.schema
  BY <1>3 DEF Outcome
<1>5. CASE p = SnapshotPacket(sequence + 1, Schema, s)
  <2>1. p.kind = "Snapshot" /\ p.payload = s
    BY <1>5 DEF SnapshotPacket
  <2>2. QED
    BY <1>1, <1>3, <1>4, <2>1 DEF Resulting
<1>6. CASE /\ last_state # None
           /\ p = DeltaPacket(sequence + 1, Schema, last_state, s)
  <2>1. /\ p.kind = "Delta"
        /\ p.base_sequence = sequence
        /\ p.base_hash = Hash(last_state)
        /\ p.payload = Diff(last_state, s)
    BY <1>6 DEF DeltaPacket, DashboardInvariant
  <2>2. decoder.sequence = sequence /\ Hash(decoder.state) = Hash(last_state)
    BY <1>3, <2>1 DEF Outcome, BaseMatches
  <2>3. last_state \in State /\ decoder.state \in State
    BY <1>6, <2>2, NoneAssumption DEF DashboardInvariant
  <2>4. decoder.state = last_state
    BY <2>2, <2>3, HashAssumption
  <2>5. Patch(Diff(last_state, s), last_state) = s
    BY <1>6, <2>3 DEF AdvancedStates
  <2>6. QED
    BY <1>1, <1>3, <1>4, <2>1, <2>4, <2>5 DEF Resulting
<1>7. QED
  BY <1>5, <1>6 DEF Candidates

\* The subscriber asks for recovery only if something was missed.
LEMMA DesyncIsMissed ==
  ASSUME DashboardInvariant, NEW s \in State, NEW p \in Candidates(s),
         Outcome(decoder, Config, p) = "NeedSnapshot"
  PROVE  missed
<1>1. p.kind = "Delta" /\ ~BaseMatches(decoder, p)
  BY DEF Outcome
<1>2. last_state # None /\ p = DeltaPacket(sequence + 1, Schema, last_state, s)
  BY <1>1 DEF Candidates, SnapshotPacket
<1>3. p.base_sequence = sequence /\ p.base_hash = Hash(last_state)
  BY <1>2 DEF DeltaPacket, DashboardInvariant
<1>4. QED
  BY <1>1, <1>2, <1>3 DEF BaseMatches, DashboardInvariant

\* What a tick that applies a packet does and shows.
LEMMA TickIsHonest ==
  ASSUME AdvancedStates, DashboardInvariant, NEW s \in State, Tick(s)
  PROVE  /\ DashboardInvariant'
         /\ response' # None =>
              IF response'.dropped
              THEN drop_next /\ ~drop_next'
              ELSE /\ decoder'.sequence = sequence' /\ decoder'.state = response'.state
                   /\ response'.desync_detected => missed
<1>1. /\ sequence' = sequence + 1
      /\ last_state' = s
      /\ drop_next' = FALSE
      /\ sequence \in Nat
  BY DEF Tick, TakeSequence, DashboardInvariant
<1>2. CASE drop_next
  <2>1. missed' = TRUE /\ decoder' = decoder /\ response' \in {Told(s, TRUE, FALSE), None}
    BY <1>2 DEF Tick
  <2>2. DashboardInvariant'
    BY <1>1, <2>1, FailureIsMissed
  <2>3. response' # None => response'.dropped
    BY <2>1 DEF Told
  <2>4. QED
    BY <1>1, <1>2, <2>2, <2>3
<1>3. CASE ~drop_next
  <2>1. PICK p \in Candidates(s) :
          LET need   == Outcome(decoder, Config, p) = "NeedSnapshot"
              packet == IF need THEN SnapshotPacket(sequence + 1, Schema, s) ELSE p
          IN  /\ Outcome(decoder, Config, packet) \in {"Applied", "Duplicate"}
              /\ decoder' = Apply(decoder, Config, packet)
              /\ missed' = FALSE
              /\ response' \in {Told(s, FALSE, need), None}
    BY <1>3 DEF Tick
  <2>. DEFINE need == Outcome(decoder, Config, p) = "NeedSnapshot"
              packet == IF need THEN SnapshotPacket(sequence + 1, Schema, s) ELSE p
  <2>2. /\ Outcome(decoder, Config, packet) \in {"Applied", "Duplicate"}
        /\ decoder' = Apply(decoder, Config, packet)
        /\ missed' = FALSE
        /\ response' \in {Told(s, FALSE, need), None}
    BY <2>1
  <2>3. packet \in Candidates(s) \cup {SnapshotPacket(sequence + 1, Schema, s)}
    OBVIOUS
  <2>4. need => missed
    BY DesyncIsMissed
  <2>. HIDE DEF need, packet
  <2>5. /\ Outcome(decoder, Config, packet) = "Applied"
        /\ packet.sequence = sequence + 1
        /\ Resulting(decoder, Config, packet) = s
    BY <2>2, <2>3, CandidatesYieldState
  <2>6. decoder' = Advance(decoder, Config, packet)
    BY <2>2, <2>5 DEF Apply
  <2>7. decoder'.sequence = sequence' /\ decoder'.state = s
    BY <1>1, <2>5, <2>6 DEF Advance
  <2>8. /\ decoder'.seen \in Seq(0..sequence')
        /\ Len(decoder'.seen) <= WindowCapacity
        /\ WindowInOrder(decoder')
    <3>1. 0..sequence \subseteq 0..sequence' /\ sequence' \in Nat
      BY <1>1
    <3>2. Seq(0..sequence) \subseteq Seq(0..sequence')
      BY <3>1, SeqMonotonic
    <3>3. ~Stale(decoder, packet) /\ packet.sequence \in 0..sequence'
      BY <1>1, <2>5, CandidatesAreNew
    <3>4. /\ decoder.seen \in Seq(0..sequence')
          /\ Len(decoder.seen) <= WindowCapacity
          /\ WindowInOrder(decoder)
          /\ decoder.sequence \in 0..sequence' \cup {None}
      BY <3>1, <3>2 DEF DashboardInvariant
    <3>5. QED
      BY <2>6, <3>1, <3>3, <3>4, AdvanceKeepsWindow
  <2>9. DashboardInvariant'
    BY <1>1, <2>2, <2>7, <2>8 DEF DashboardInvariant
  <2>10. response' # None =>
           /\ ~response'.dropped
           /\ response'.state = s
           /\ response'.desync_detected => need
    BY <2>2 DEF Told
  <2>11. QED
    BY <2>4, <2>7, <2>9, <2>10
<1>4. QED
  BY <1>2, <1>3

LEMMA DashboardNext ==
  ASSUME AdvancedStates, DashboardInvariant, [Next]_vars
  PROVE  /\ DashboardInvariant'
         /\ sequence' = sequence + 1 /\ response' # None =>
              IF response'.dropped
              THEN drop_next /\ ~drop_next'
              ELSE /\ decoder'.sequence = sequence' /\ decoder'.state = response'.state
                   /\ response'.desync_detected => missed
<1>1. CASE FailToEncode
  <2>1. DashboardInvariant' /\ response' = None
    BY <1>1, FailureIsMissed DEF FailToEncode, TakeSequence, DashboardInvariant
  <2>2. QED
    BY <2>1
<1>2. ASSUME NEW s \in State, FailToWrite(s) \/ FailToRecover(s)
      PROVE  DashboardInvariant' /\ response' = None
  BY <1>2, FailureIsMissed DEF FailToWrite, FailToRecover, TakeSequence
<1>3. CASE Drop
  BY <1>3 DEF Drop, DashboardInvariant
<1>4. CASE Reset
  <2>1. sequence' = 0 /\ last_state' = None /\ decoder' = EmptyDecoder /\ response' = None
    BY <1>4 DEF Reset
  <2>2. QED
    BY <2>1, FreshIsRight DEF DashboardInvariant
<1>5. CASE UNCHANGED vars
  BY <1>5 DEF vars, DashboardInvariant
<1>6. QED
  BY <1>1, <1>2, <1>3, <1>4, <1>5, TickIsHonest DEF Next

\* Whatever the handlers of the dashboard failed to finish before, the state a
\* tick reports is the one its subscriber holds at the publisher's sequence,
\* and it reports a desync only after a packet really went missing.
THEOREM DashboardHonesty == AdvancedStates => (Spec => DashboardIsHonest)
<1>. SUFFICES ASSUME AdvancedStates PROVE Spec => DashboardIsHonest
  OBVIOUS
<1>1. Fresh => DashboardInvariant
  BY FreshIsRight DEF Fresh, DashboardInvariant
<1>2. DashboardInvariant /\ [Next]_vars => DashboardInvariant'
  BY DashboardNext
<1>3. DashboardInvariant /\ [Next]_vars =>
        [sequence' = sequence + 1 /\ response' # None =>
           IF response'.dropped
           THEN drop_next /\ ~drop_next'
           ELSE /\ decoder'.sequence = sequence' /\ decoder'.state = response'.state
                /\ response'.desync_detected => missed]_vars
  BY DashboardNext
<1>4. QED
  BY <1>1, <1>2, <1>3, PTL DEF Spec, DashboardIsHonest
-----------------------------------------------------------------------------
(***************************************************************************)
(* The way of a message from the bus to the application.                   *)
(***************************************************************************)
Items == Nat \cup {Absent}

LEMMA SameSequence ==
  ASSUME NEW S, NEW s \in Seq(S), NEW t \in Seq(S), Len(s) = Len(t),
         \A i \in 1..Len(s) : s[i] = t[i]
  PROVE  s = t
BY SeqEqual

\* Moving the oldest message one queue on leaves the way as it was.
LEMMA WayStays ==
  ASSUME NEW t \in Seq(Items), NEW c \in Seq(Items), NEW k \in Seq(Items)
  PROVE  /\ k # <<>> => t \o Append(c, Head(k)) \o Tail(k) = t \o c \o k
         /\ c # <<>> => Append(t, Head(c)) \o Tail(c) \o k = t \o c \o k
<1>1. ASSUME k # <<>> PROVE t \o Append(c, Head(k)) \o Tail(k) = t \o c \o k
  <2>. DEFINE a == t \o Append(c, Head(k)) \o Tail(k)
              b == t \o c \o k
  <2>1. /\ a \in Seq(Items) /\ b \in Seq(Items) /\ Len(a) = Len(b)
        /\ \A i \in 1..Len(a) : a[i] = b[i]
    BY <1>1
  <2>. QED BY ONLY <2>1, SameSequence
<1>2. ASSUME c # <<>> PROVE Append(t, Head(c)) \o Tail(c) \o k = t \o c \o k
  <2>. DEFINE a == Append(t, Head(c)) \o Tail(c) \o k
              b == t \o c \o k
  <2>1. /\ a \in Seq(Items) /\ b \in Seq(Items) /\ Len(a) = Len(b)
        /\ \A i \in 1..Len(a) : a[i] = b[i]
    BY <1>2
  <2>. QED BY ONLY <2>1, SameSequence
<1>. QED BY <1>1, <1>2

\* A new message is the last on its way, whichever queue it enters.
LEMMA WayGrows ==
  ASSUME NEW t \in Seq(Items), NEW c \in Seq(Items), NEW k \in Seq(Items),
         NEW x \in Items
  PROVE  /\ t \o c \o Append(k, x) = Append(t \o c \o k, x)
         /\ Append(t, x) \o <<>> \o <<>> = Append(t \o <<>> \o <<>>, x)
         /\ t \o <<>> \o <<>> = t
<1>. DEFINE a == t \o c \o Append(k, x)
            b == Append(t \o c \o k, x)
<1>1. /\ a \in Seq(Items) /\ b \in Seq(Items) /\ Len(a) = Len(b)
      /\ \A i \in 1..Len(a) : a[i] = b[i]
  OBVIOUS
<1>2. a = b
  BY ONLY <1>1, SameSequence
<1>3. \A s \in Seq(Items) : s \o <<>> \o <<>> = s
  OBVIOUS
<1>4. Append(t, x) \in Seq(Items)
  OBVIOUS
<1>. QED BY <1>2, <1>3, <1>4

\* Messages are in the order of the bus.
Rises(w) ==
  \A m, n \in 1..Len(w) : m < n /\ w[m] # Absent /\ w[n] # Absent => w[m] < w[n]

Messages(w) == {w[i] : i \in 1..Len(w)} \ {Absent}

LEMMA RisesOn ==
  ASSUME NEW w \in Seq(Items), Rises(w), NEW x \in Items,
         x # Absent => \A m \in Messages(w) : m < x
  PROVE  /\ Append(w, x) \in Seq(Items)
         /\ Rises(Append(w, x))
         /\ Messages(Append(w, x)) = Messages(w) \cup ({x} \ {Absent})
<1>. DEFINE v == Append(w, x)
<1>1. /\ v \in Seq(Items) /\ Len(v) = Len(w) + 1 /\ Len(w) \in Nat
      /\ v[Len(w) + 1] = x /\ \A i \in 1..Len(w) : v[i] = w[i]
  OBVIOUS
<1>. HIDE DEF v
<1>2. Rises(v)
  <2>. SUFFICES ASSUME NEW m \in 1..Len(v), NEW n \in 1..Len(v), m < n,
                       v[m] # Absent, v[n] # Absent
                PROVE  v[m] < v[n]
    BY DEF Rises
  <2>1. m \in 1..Len(w) /\ v[m] = w[m]
    BY <1>1
  <2>2. CASE n \in 1..Len(w)
    BY <1>1, <2>1, <2>2 DEF Rises
  <2>3. CASE n = Len(w) + 1
    BY <1>1, <2>1, <2>3 DEF Messages
  <2>. QED BY <1>1, <2>2, <2>3
<1>3. Messages(v) = Messages(w) \cup ({x} \ {Absent})
  <2>1. {v[i] : i \in 1..Len(v)} = {w[i] : i \in 1..Len(w)} \cup {x}
    <3>1. \A i \in 1..Len(v) : v[i] \in {w[j] : j \in 1..Len(w)} \cup {x}
      BY <1>1
    <3>2. \A i \in 1..Len(w) : w[i] \in {v[j] : j \in 1..Len(v)}
      BY <1>1
    <3>3. x \in {v[j] : j \in 1..Len(v)}
      <4>1. Len(w) + 1 \in 1..Len(v)
        BY <1>1
      <4>. QED BY <1>1, <4>1
    <3>. QED BY <3>1, <3>2, <3>3
  <2>. QED BY <2>1 DEF Messages
<1>. QED BY <1>1, <1>2, <1>3 DEF v

-----------------------------------------------------------------------------
(***************************************************************************)
(* The inductive invariant of the transports.                              *)
(***************************************************************************)
WireTypes ==
  /\ transport \in {"local", "websocket"}
  /\ bus \in Seq(Topic)
  /\ cursor \in [Subscribers -> Items]
  /\ since \in [Subscribers -> Items]
  /\ taken \in [Subscribers -> Seq(Items)]
  /\ channel \in [Subscribers -> Seq(Nat)]
  /\ socket \in [Subscribers -> Seq(Nat)]
  /\ skipped \in [Subscribers -> SUBSET Nat]

Way(s) == taken[s] \o channel[s] \o socket[s]

\* An error stands in t where message i should have been.
AnnouncedIn(t, i) ==
  \E n \in 1..Len(t) :
    /\ t[n] = Absent
    /\ \A m \in 1..Len(t) : t[m] # Absent => (m < n <=> t[m] < i)

\* Nothing is under way before the subscription began.
NotBegun(s) ==
  since[s] = Absent =>
    cursor[s] = Absent /\ taken[s] = <<>> /\ channel[s] = <<>> /\ socket[s] = <<>>
    /\ skipped[s] = {}

\* The receiver is between where it began and the end of the bus, and what it
\* took is on the way.
Receiving(s) ==
  cursor[s] # Absent =>
    /\ since[s] # Absent /\ since[s] <= cursor[s] /\ cursor[s] <= Len(bus)
    /\ skipped[s] \subseteq (since[s] + 1)..cursor[s]
    /\ Messages(Way(s)) = Passed(s) \ skipped[s]

LocallyTold(s) ==
  transport = "local" =>
    /\ channel[s] = <<>> /\ socket[s] = <<>>
    /\ \A i \in skipped[s] : AnnouncedIn(taken[s], i)

WireOK(s) == NotBegun(s) /\ Receiving(s) /\ Rises(Way(s)) /\ LocallyTold(s)

WireInvariant == WireTypes /\ \A s \in Subscribers : WireOK(s)

\* What a step for s leaves alone.
SameFor(s) ==
  /\ cursor'[s] = cursor[s] /\ since'[s] = since[s] /\ skipped'[s] = skipped[s]
  /\ taken'[s] = taken[s] /\ channel'[s] = channel[s] /\ socket'[s] = socket[s]

OnlyFor(s) ==
  transport' = transport /\ bus' = bus /\ \A r \in Subscribers \ {s} : SameFor(r)

\* What the receiver is past is not touched by what follows it on the bus.
LEMMA OthersStay ==
  ASSUME WireInvariant, NEW s \in Subscribers, SameFor(s), transport' = transport,
         bus' = bus \/ \E t \in Topic : bus' = Append(bus, t)
  PROVE  WireOK(s)'
<1>1. WireOK(s) /\ bus \in Seq(Topic) /\ cursor[s] \in Items /\ since[s] \in Items
  BY DEF WireInvariant, WireTypes
<1>2. Way(s)' = Way(s)
  BY DEF SameFor, Way
<1>3. Len(bus) \in Nat /\ Len(bus)' \in Nat /\ Len(bus) <= Len(bus)'
      /\ \A i \in 1..Len(bus) : bus'[i] = bus[i]
  BY <1>1
<1>4. NotBegun(s)' /\ Rises(Way(s))' /\ LocallyTold(s)'
  <2>1. Rises(Way(s))'
    BY <1>1, <1>2 DEF WireOK, Rises
  <2>. QED BY <1>1, <2>1 DEF WireOK, NotBegun, LocallyTold, SameFor, AnnouncedIn
<1>5. Receiving(s)'
  <2>. SUFFICES ASSUME cursor[s] # Absent PROVE Receiving(s)'
    BY DEF Receiving, SameFor
  <2>1. /\ since[s] \in Nat /\ cursor[s] \in Nat /\ cursor[s] <= Len(bus)
        /\ Messages(Way(s)) = Passed(s) \ skipped[s]
    BY <1>1 DEF WireOK, Receiving, Items
  <2>2. Passed(s)' = Passed(s)
    <3>1. (since[s] + 1)..cursor[s] \subseteq 1..Len(bus)
      BY <1>3, <2>1
    <3>. QED BY <1>3, <3>1 DEF Passed, SameFor
  <2>3. Messages(Way(s))' = Messages(Way(s))
    BY <1>2 DEF Messages
  <2>. QED BY <1>1, <1>3, <2>1, <2>2, <2>3 DEF WireOK, Receiving, SameFor
<1>. QED BY <1>4, <1>5 DEF WireOK

LEMMA BusGrows ==
  ASSUME WireInvariant, NEW t \in Topic, Send(t), UNCHANGED <<transport, streams>>
  PROVE  WireInvariant'
<1>1. bus' \in Seq(Topic) /\ bus' = Append(bus, t)
  BY DEF Send, WireInvariant, WireTypes
<1>2. WireTypes'
  BY <1>1 DEF WireInvariant, WireTypes, streams
<1>3. ASSUME NEW s \in Subscribers PROVE WireOK(s)'
  BY <1>1, OthersStay DEF SameFor, streams
<1>. QED BY <1>2, <1>3 DEF WireInvariant

LEMMA SubscriptionStarts ==
  ASSUME WireInvariant, NEW s \in Subscribers, Subscribed(s),
         UNCHANGED <<transport, bus, socket, channel, taken, skipped>>
  PROVE  WireTypes' /\ OnlyFor(s) /\ WireOK(s)'
<1>1. /\ WireOK(s) /\ WireTypes /\ Len(bus) \in Nat
      /\ cursor' = [cursor EXCEPT ![s] = Len(bus)]
      /\ since' = [since EXCEPT ![s] = Len(bus)]
  BY DEF WireInvariant, WireTypes, Subscribed
<1>2. WireTypes' /\ OnlyFor(s)
  BY <1>1 DEF WireTypes, OnlyFor, SameFor, Items
<1>3. cursor'[s] = Len(bus) /\ since'[s] = Len(bus) /\ Len(bus) # Absent
  BY <1>1, BusAssumption DEF WireTypes
<1>4. taken[s] = <<>> /\ channel[s] = <<>> /\ socket[s] = <<>> /\ skipped[s] = {}
  BY <1>1 DEF Subscribed, WireOK, NotBegun
<1>5. Way(s)' = <<>>
  <2>1. <<>> \o <<>> \o <<>> = <<>>
    OBVIOUS
  <2>. QED BY <1>4, <2>1 DEF Way
<1>6. Messages(Way(s))' = {} /\ Rises(Way(s))'
  <2>1. Messages(<<>>) = {} /\ Rises(<<>>)
    BY DEF Messages, Rises
  <2>. QED BY <1>5, <2>1 DEF Messages, Rises
<1>7. Passed(s)' = {}
  <2>1. (Len(bus) + 1)..Len(bus) = {}
    BY <1>1
  <2>. QED BY <1>3, <2>1 DEF Passed
<1>8. Receiving(s)'
  BY <1>1, <1>3, <1>4, <1>6, <1>7 DEF Receiving
<1>. QED BY <1>1, <1>2, <1>3, <1>4, <1>6, <1>8 DEF WireOK, NotBegun, LocallyTold

LEMMA WayIsItems ==
  ASSUME WireInvariant, NEW s \in Subscribers
  PROVE  /\ Way(s) \in Seq(Items)
         /\ taken[s] \in Seq(Items) /\ channel[s] \in Seq(Items) /\ socket[s] \in Seq(Items)
<1>1. /\ taken[s] \in Seq(Items) /\ channel[s] \in Seq(Items) /\ socket[s] \in Seq(Items)
  <2>1. Seq(Nat) \subseteq Seq(Items)
    BY DEF Items
  <2>. QED BY <2>1 DEF WireInvariant, WireTypes
<1>. QED BY <1>1 DEF Way

\* Where a receiver stands.
LEMMA Standing ==
  ASSUME WireInvariant, NEW s \in Subscribers, cursor[s] # Absent
  PROVE  /\ cursor[s] \in Nat /\ since[s] \in Nat /\ Len(bus) \in Nat
         /\ since[s] <= cursor[s] /\ cursor[s] <= Len(bus)
         /\ skipped[s] \subseteq (since[s] + 1)..cursor[s]
         /\ Messages(Way(s)) = Passed(s) \ skipped[s]
         /\ Rises(Way(s))
BY DEF WireInvariant, WireTypes, WireOK, Receiving, Items

\* The receiver takes the next message, and passes it on if it is wanted.
LEMMA TakenOn ==
  ASSUME WireInvariant, NEW s \in Subscribers, Ready(s),
         cursor'[s] = cursor[s] + 1, since'[s] = since[s], skipped'[s] = skipped[s],
         bus' = bus,
         Way(s)' = IF Wanted(s) THEN Append(Way(s), Following(s)) ELSE Way(s)
  PROVE  Receiving(s)' /\ Rises(Way(s))'
<1>1. /\ cursor[s] \in Nat /\ since[s] \in Nat /\ Len(bus) \in Nat
      /\ since[s] <= cursor[s] /\ cursor[s] < Len(bus)
      /\ skipped[s] \subseteq (since[s] + 1)..cursor[s]
      /\ Messages(Way(s)) = Passed(s) \ skipped[s]
      /\ Rises(Way(s))
  BY Standing DEF Ready
<1>2. Following(s) = cursor[s] + 1 /\ Following(s) \in Nat /\ Following(s) # Absent
  BY <1>1, BusAssumption DEF Following
<1>3. Passed(s)' = Passed(s) \cup (IF Wanted(s) THEN {Following(s)} ELSE {})
  <2>1. (since[s] + 1)..(cursor[s] + 1) = ((since[s] + 1)..cursor[s]) \cup {cursor[s] + 1}
    BY <1>1
  <2>2. Passed(s)' = {i \in (since[s] + 1)..(cursor[s] + 1) : bus[i] \in Topics[s]}
    BY DEF Passed
  <2>. QED BY <1>2, <2>1, <2>2 DEF Passed, Wanted
<1>4. Following(s) \notin skipped[s]
  BY <1>1, <1>2
<1>5. /\ Rises(Way(s)')
      /\ Messages(Way(s)') = Messages(Way(s)) \cup (IF Wanted(s) THEN {Following(s)} ELSE {})
  <2>1. CASE ~Wanted(s)
    BY <1>1, <2>1
  <2>2. CASE Wanted(s)
    <3>1. \A m \in Messages(Way(s)) : m < Following(s)
      BY <1>1, <1>2 DEF Passed
    <3>2. Way(s) \in Seq(Items) /\ Following(s) \in Items
      BY <1>2, WayIsItems DEF Items
    <3>3. /\ Rises(Append(Way(s), Following(s)))
          /\ Messages(Append(Way(s), Following(s)))
               = Messages(Way(s)) \cup ({Following(s)} \ {Absent})
      BY <1>1, <3>1, <3>2, RisesOn
    <3>. QED BY <1>2, <2>2, <3>3
  <2>. QED BY <2>1, <2>2
<1>6. Messages(Way(s))' = Passed(s)' \ skipped[s]
  <2>1. Messages(Way(s))' = Messages(Way(s)')
    BY DEF Messages
  <2>. QED BY <1>1, <1>3, <1>4, <1>5, <2>1
<1>7. Rises(Way(s))'
  BY <1>5 DEF Rises
<1>8. cursor'[s] <= Len(bus)' /\ since'[s] <= cursor'[s]
      /\ skipped'[s] \subseteq (since'[s] + 1)..cursor'[s]
  BY <1>1
<1>9. since'[s] # Absent
  BY <1>1, BusAssumption
<1>. QED BY <1>6, <1>7, <1>8, <1>9 DEF Receiving

\* The receiver is told that it lagged, and at most the error is passed on.
LEMMA LaggedOn ==
  ASSUME WireInvariant, NEW s \in Subscribers, RecvLagged(s), since'[s] = since[s],
         bus' = bus,
         Way(s)' = Way(s) \/ Way(s)' = Append(Way(s), Absent)
  PROVE  Receiving(s)' /\ Rises(Way(s))'
<1>. DEFINE oldest == Len(bus) - Capacity
<1>1. /\ cursor[s] # Absent /\ Len(bus) - cursor[s] > Capacity
      /\ cursor'[s] = oldest
      /\ skipped'[s] = skipped[s] \cup ((cursor[s] + 1)..oldest)
  BY DEF RecvLagged, Lagging, Following, WireInvariant, WireTypes
<1>2. /\ cursor[s] \in Nat /\ since[s] \in Nat /\ Len(bus) \in Nat
      /\ since[s] <= cursor[s]
      /\ skipped[s] \subseteq (since[s] + 1)..cursor[s]
      /\ Messages(Way(s)) = Passed(s) \ skipped[s]
      /\ Rises(Way(s))
  BY <1>1, Standing
<1>3. oldest \in Nat /\ cursor[s] < oldest /\ oldest <= Len(bus)
  BY <1>1, <1>2, BusAssumption
<1>. HIDE DEF oldest
<1>4. Passed(s)' \ skipped'[s] = Passed(s) \ skipped[s]
  <2>1. (since[s] + 1)..oldest = ((since[s] + 1)..cursor[s]) \cup ((cursor[s] + 1)..oldest)
    BY <1>2, <1>3
  <2>2. Passed(s)' = {i \in (since[s] + 1)..oldest : bus[i] \in Topics[s]}
    BY <1>1 DEF Passed
  <2>3. ((since[s] + 1)..cursor[s]) \cap ((cursor[s] + 1)..oldest) = {}
    BY <1>2, <1>3
  <2>. QED BY <1>1, <2>1, <2>2, <2>3 DEF Passed
<1>5. Rises(Way(s)') /\ Messages(Way(s)') = Messages(Way(s))
  <2>1. Way(s) \in Seq(Items) /\ Absent \in Items
    BY WayIsItems DEF Items
  <2>2. Rises(Append(Way(s), Absent))
        /\ Messages(Append(Way(s), Absent)) = Messages(Way(s)) \cup ({Absent} \ {Absent})
    BY <1>2, <2>1, RisesOn
  <2>. QED BY <1>2, <2>2
<1>6. Messages(Way(s))' = Passed(s)' \ skipped'[s] /\ Rises(Way(s))'
  <2>1. Messages(Way(s))' = Messages(Way(s)')
    BY DEF Messages
  <2>2. Rises(Way(s))'
    BY <1>5 DEF Rises
  <2>. QED BY <1>2, <1>4, <1>5, <2>1, <2>2
<1>7. /\ since'[s] # Absent /\ since'[s] <= cursor'[s] /\ cursor'[s] <= Len(bus)'
      /\ skipped'[s] \subseteq (since'[s] + 1)..cursor'[s]
  BY <1>1, <1>2, <1>3, BusAssumption
<1>. QED BY <1>6, <1>7 DEF Receiving

\* An announcement stays one: what is taken later is a later message, and a
\* new error announces what is past what was taken before it.
LEMMA StillAnnounced ==
  ASSUME NEW t \in Seq(Items), NEW i \in Nat, NEW x \in Items
  PROVE  /\ AnnouncedIn(t, i) /\ (x # Absent => i < x) => AnnouncedIn(Append(t, x), i)
         /\ (\A m \in Messages(t) : m < i) => AnnouncedIn(Append(t, Absent), i)
<1>1. ASSUME AnnouncedIn(t, i), x # Absent => i < x
      PROVE  AnnouncedIn(Append(t, x), i)
  <2>. DEFINE v == Append(t, x)
  <2>1. /\ Len(v) = Len(t) + 1 /\ Len(t) \in Nat /\ v[Len(t) + 1] = x
        /\ \A j \in 1..Len(t) : v[j] = t[j]
    OBVIOUS
  <2>. HIDE DEF v
  <2>2. PICK n \in 1..Len(t) :
          /\ t[n] = Absent
          /\ \A m \in 1..Len(t) : t[m] # Absent => (m < n <=> t[m] < i)
    BY <1>1 DEF AnnouncedIn
  <2>3. ASSUME NEW m \in 1..Len(v), v[m] # Absent PROVE m < n <=> v[m] < i
    <3>1. CASE m \in 1..Len(t)
      BY <2>1, <2>2, <2>3, <3>1
    <3>2. CASE m = Len(t) + 1
      <4>1. v[m] = x /\ x \in Nat /\ i < x
        BY <1>1, <2>1, <2>3, <3>2 DEF Items
      <4>. QED BY <2>1, <2>2, <3>2, <4>1
    <3>. QED BY <2>1, <3>1, <3>2
  <2>4. n \in 1..Len(v) /\ v[n] = Absent
    BY <2>1, <2>2
  <2>. QED BY <2>3, <2>4 DEF AnnouncedIn, v
<1>2. ASSUME \A m \in Messages(t) : m < i
      PROVE  AnnouncedIn(Append(t, Absent), i)
  <2>. DEFINE v == Append(t, Absent)
  <2>1. /\ Len(v) = Len(t) + 1 /\ Len(t) \in Nat /\ v[Len(t) + 1] = Absent
        /\ \A j \in 1..Len(t) : v[j] = t[j]
    BY DEF Items
  <2>. HIDE DEF v
  <2>2. ASSUME NEW m \in 1..Len(v), v[m] # Absent PROVE m < Len(t) + 1 /\ v[m] < i
    <3>1. m \in 1..Len(t) /\ v[m] = t[m]
      BY <2>1, <2>2
    <3>. QED BY <1>2, <2>1, <2>2, <3>1 DEF Messages
  <2>3. Len(t) + 1 \in 1..Len(v)
    BY <2>1
  <2>. QED BY <2>1, <2>2, <2>3 DEF AnnouncedIn, v
<1>. QED BY <1>1, <1>2

\* What a local receiver takes or is told of leaves no gap unannounced.
LEMMA LocalStep ==
  ASSUME WireInvariant, NEW s \in Subscribers, LocalLagged(s) \/ LocalTake(s)
  PROVE  WireTypes' /\ OnlyFor(s) /\ WireOK(s)'
<1>1. /\ WireTypes /\ WireOK(s) /\ transport = "local"
      /\ channel[s] = <<>> /\ socket[s] = <<>>
      /\ \A i \in skipped[s] : AnnouncedIn(taken[s], i)
      /\ cursor[s] # Absent
  BY DEF WireInvariant, WireOK, LocallyTold, LocalLagged, LocalTake, RecvLagged,
         RecvMessage, Lagging, Ready
<1>2. /\ cursor[s] \in Nat /\ since[s] \in Nat /\ Len(bus) \in Nat
      /\ since[s] <= cursor[s] /\ cursor[s] <= Len(bus)
      /\ skipped[s] \subseteq (since[s] + 1)..cursor[s]
      /\ Messages(Way(s)) = Passed(s) \ skipped[s]
  BY <1>1, Standing
<1>3. Following(s) = cursor[s] + 1 /\ Following(s) \in Nat /\ Following(s) # Absent
  BY <1>2, BusAssumption DEF Following
<1>4. Way(s) = taken[s] /\ taken[s] \in Seq(Items)
      /\ \A x \in Items : Append(taken[s], x) \o <<>> \o <<>> = Append(taken[s], x)
  <2>1. taken[s] \in Seq(Items)
    BY WayIsItems
  <2>2. \A x \in Items : Append(taken[s], x) \in Seq(Items)
    BY <2>1
  <2>3. \A t \in Seq(Items) : t \o <<>> \o <<>> = t
    BY WayGrows
  <2>. QED BY <1>1, <2>1, <2>2, <2>3 DEF Way
<1>5. CASE LocalLagged(s)
  <2>1. /\ UNCHANGED <<transport, bus, frames, asked, socket, channel, since>>
        /\ taken' = [taken EXCEPT ![s] = Append(taken[s], Absent)]
        /\ cursor' = [cursor EXCEPT ![s] = Len(bus) - Capacity]
        /\ skipped' = [skipped EXCEPT ![s] =
                         skipped[s] \cup (Following(s)..(Len(bus) - Capacity))]
        /\ Len(bus) - cursor[s] > Capacity
        /\ RecvLagged(s)
    BY <1>5 DEF LocalLagged, RecvLagged, Lagging
  <2>2. /\ Len(bus) - Capacity \in Nat /\ Absent \in Items
        /\ Following(s)..(Len(bus) - Capacity) \subseteq Nat
    BY <1>2, <1>3, <2>1, BusAssumption DEF Items
  <2>3. WireTypes' /\ OnlyFor(s)
    <3>1. Append(taken[s], Absent) \in Seq(Items)
      BY <1>4, <2>2
    <3>2. cursor' \in [Subscribers -> Items]
      BY <1>1, <2>1, <2>2 DEF WireTypes, Items
    <3>3. taken' \in [Subscribers -> Seq(Items)]
      BY <1>1, <2>1, <3>1 DEF WireTypes
    <3>4. skipped' \in [Subscribers -> SUBSET Nat]
      BY <1>1, <2>1, <2>2 DEF WireTypes
    <3>5. OnlyFor(s)
      BY <1>1, <2>1 DEF WireTypes, OnlyFor, SameFor
    <3>. QED BY <1>1, <2>1, <3>2, <3>3, <3>4, <3>5 DEF WireTypes
  <2>4. taken'[s] = Append(taken[s], Absent) /\ channel'[s] = <<>> /\ socket'[s] = <<>>
        /\ skipped'[s] = skipped[s] \cup (Following(s)..(Len(bus) - Capacity))
    BY <1>1, <2>1 DEF WireTypes
  <2>5. Way(s)' = Append(Way(s), Absent)
    BY <1>4, <2>2, <2>4 DEF Way
  <2>6. Receiving(s)' /\ Rises(Way(s))'
    BY <2>1, <2>5, LaggedOn
  <2>7. ASSUME NEW i \in skipped'[s] PROVE AnnouncedIn(taken'[s], i)
    <3>1. CASE i \in skipped[s]
      <4>1. AnnouncedIn(taken[s], i) /\ i \in Nat
        BY <1>1, <3>1 DEF WireTypes
      <4>. QED BY <1>4, <2>2, <2>4, <4>1, StillAnnounced
    <3>2. CASE i \in Following(s)..(Len(bus) - Capacity)
      <4>1. i \in Nat /\ cursor[s] < i
        BY <1>2, <1>3, <2>1, <3>2, BusAssumption
      <4>2. \A m \in Messages(taken[s]) : m < i
        BY <1>2, <1>4, <4>1 DEF Passed
      <4>. QED BY <1>4, <2>2, <2>4, <4>1, <4>2, StillAnnounced
    <3>. QED BY <2>4, <3>1, <3>2
  <2>8. since'[s] # Absent
    BY <1>2, <2>1, BusAssumption
  <2>9. LocallyTold(s)'
    <3>1. \A i \in skipped'[s] : AnnouncedIn(taken[s], i)'
      BY <2>7 DEF AnnouncedIn
    <3>. QED BY <2>4, <3>1 DEF LocallyTold
  <2>. QED BY <2>3, <2>6, <2>8, <2>9 DEF WireOK, NotBegun
<1>6. CASE LocalTake(s)
  <2>1. /\ UNCHANGED <<transport, bus, frames, asked, socket, channel, since, skipped>>
        /\ taken' = [taken EXCEPT ![s] = IF Wanted(s) THEN Append(taken[s], Following(s))
                                         ELSE taken[s]]
        /\ cursor' = [cursor EXCEPT ![s] = cursor[s] + 1]
        /\ Ready(s)
    BY <1>6 DEF LocalTake, RecvMessage
  <2>2. WireTypes' /\ OnlyFor(s)
    <3>1. Append(taken[s], Following(s)) \in Seq(Items)
      BY <1>3, <1>4 DEF Items
    <3>2. cursor' \in [Subscribers -> Items]
      BY <1>1, <1>2, <2>1 DEF WireTypes, Items
    <3>3. taken' \in [Subscribers -> Seq(Items)]
      BY <1>1, <1>4, <2>1, <3>1 DEF WireTypes
    <3>4. OnlyFor(s)
      BY <1>1, <2>1 DEF WireTypes, OnlyFor, SameFor
    <3>. QED BY <1>1, <2>1, <3>2, <3>3, <3>4 DEF WireTypes
  <2>3. /\ taken'[s] = IF Wanted(s) THEN Append(taken[s], Following(s)) ELSE taken[s]
        /\ channel'[s] = <<>> /\ socket'[s] = <<>> /\ skipped'[s] = skipped[s]
        /\ since'[s] = since[s] /\ cursor'[s] = cursor[s] + 1 /\ bus' = bus
    BY <1>1, <2>1 DEF WireTypes
  <2>4. Way(s)' = IF Wanted(s) THEN Append(Way(s), Following(s)) ELSE Way(s)
    BY <1>1, <1>3, <1>4, <2>3 DEF Way, Items
  <2>5. Receiving(s)' /\ Rises(Way(s))'
    BY <2>1, <2>3, <2>4, TakenOn
  <2>6. ASSUME NEW i \in skipped[s] PROVE AnnouncedIn(taken'[s], i)
    <3>1. AnnouncedIn(taken[s], i) /\ i \in Nat /\ i < Following(s)
      BY <1>1, <1>2, <1>3
    <3>2. AnnouncedIn(Append(taken[s], Following(s)), i)
      BY <1>3, <1>4, <3>1, StillAnnounced DEF Items
    <3>. QED BY <2>3, <3>1, <3>2
  <2>7. since'[s] # Absent
    BY <1>2, <2>3, BusAssumption
  <2>8. LocallyTold(s)'
    <3>1. \A i \in skipped'[s] : AnnouncedIn(taken[s], i)'
      BY <2>3, <2>6 DEF AnnouncedIn
    <3>. QED BY <2>3, <3>1 DEF LocallyTold
  <2>. QED BY <2>2, <2>5, <2>7, <2>8 DEF WireOK, NotBegun
<1>. QED BY <1>5, <1>6

\* The relay passes on, or passes over, what its receiver gives it.
LEMMA RelayStep ==
  ASSUME WireInvariant, NEW s \in Subscribers, RelayLagged(s) \/ RelayForward(s)
  PROVE  WireTypes' /\ OnlyFor(s) /\ WireOK(s)'
<1>1. WireTypes /\ transport = "websocket" /\ transport' = transport /\ cursor[s] # Absent
  BY DEF WireInvariant, RelayLagged, RelayForward, RecvLagged, RecvMessage, Lagging, Ready
<1>2. /\ cursor[s] \in Nat /\ since[s] \in Nat /\ Len(bus) \in Nat /\ cursor[s] <= Len(bus)
  BY <1>1, Standing
<1>3. Following(s) = cursor[s] + 1 /\ Following(s) \in Nat
  BY <1>2 DEF Following
<1>4. /\ taken[s] \in Seq(Items) /\ channel[s] \in Seq(Items) /\ socket[s] \in Seq(Items)
      /\ socket[s] \in Seq(Nat)
  BY <1>1, WayIsItems DEF WireTypes
<1>5. CASE RelayLagged(s)
  <2>1. /\ UNCHANGED <<transport, bus, frames, asked, socket, channel, taken, since>>
        /\ cursor' = [cursor EXCEPT ![s] = Len(bus) - Capacity]
        /\ skipped' = [skipped EXCEPT ![s] =
                         skipped[s] \cup (Following(s)..(Len(bus) - Capacity))]
        /\ Len(bus) - cursor[s] > Capacity
        /\ RecvLagged(s)
    BY <1>5 DEF RelayLagged, RecvLagged, Lagging
  <2>2. /\ Len(bus) - Capacity \in Items
        /\ Following(s)..(Len(bus) - Capacity) \subseteq Nat
    BY <1>2, <1>3, <2>1, BusAssumption DEF Items
  <2>3. WireTypes' /\ OnlyFor(s)
    <3>1. cursor' \in [Subscribers -> Items]
      BY <1>1, <2>1, <2>2 DEF WireTypes
    <3>2. skipped' \in [Subscribers -> SUBSET Nat]
      BY <1>1, <2>1, <2>2 DEF WireTypes
    <3>3. OnlyFor(s)
      BY <1>1, <2>1 DEF WireTypes, OnlyFor, SameFor
    <3>. QED BY <1>1, <2>1, <3>1, <3>2, <3>3 DEF WireTypes
  <2>4. Way(s)' = Way(s)
    BY <2>1 DEF Way
  <2>5. Receiving(s)' /\ Rises(Way(s))'
    BY <2>1, <2>4, LaggedOn
  <2>6. since'[s] # Absent /\ transport' # "local"
    BY <1>1, <1>2, <2>1, BusAssumption
  <2>. QED BY <2>3, <2>5, <2>6 DEF WireOK, NotBegun, LocallyTold
<1>6. CASE RelayForward(s)
  <2>1. /\ UNCHANGED <<transport, bus, frames, asked, channel, taken, since, skipped>>
        /\ socket' = [socket EXCEPT ![s] = IF Wanted(s) THEN Append(socket[s], Following(s))
                                           ELSE socket[s]]
        /\ cursor' = [cursor EXCEPT ![s] = cursor[s] + 1]
        /\ Ready(s)
    BY <1>6 DEF RelayForward, RecvMessage
  <2>2. WireTypes' /\ OnlyFor(s)
    <3>1. Append(socket[s], Following(s)) \in Seq(Nat)
      BY <1>3, <1>4
    <3>2. cursor' \in [Subscribers -> Items]
      BY <1>1, <1>2, <2>1 DEF WireTypes, Items
    <3>3. socket' \in [Subscribers -> Seq(Nat)]
      BY <1>1, <1>4, <2>1, <3>1 DEF WireTypes
    <3>4. OnlyFor(s)
      BY <1>1, <2>1 DEF WireTypes, OnlyFor, SameFor
    <3>. QED BY <1>1, <2>1, <3>2, <3>3, <3>4 DEF WireTypes
  <2>3. /\ socket'[s] = IF Wanted(s) THEN Append(socket[s], Following(s)) ELSE socket[s]
        /\ channel'[s] = channel[s] /\ taken'[s] = taken[s] /\ skipped'[s] = skipped[s]
        /\ since'[s] = since[s] /\ cursor'[s] = cursor[s] + 1 /\ bus' = bus
    BY <1>1, <2>1 DEF WireTypes
  <2>4. Way(s)' = IF Wanted(s) THEN Append(Way(s), Following(s)) ELSE Way(s)
    <3>1. taken[s] \o channel[s] \o Append(socket[s], Following(s))
            = Append(taken[s] \o channel[s] \o socket[s], Following(s))
      <4>1. Following(s) \in Items
        BY <1>3 DEF Items
      <4>2. \A t, c, k \in Seq(Items) : \A x \in Items :
              t \o c \o Append(k, x) = Append(t \o c \o k, x)
        BY ONLY WayGrows
      <4>. QED BY ONLY <1>4, <4>1, <4>2
    <3>. QED BY <2>3, <3>1 DEF Way
  <2>5. Receiving(s)' /\ Rises(Way(s))'
    BY <2>1, <2>3, <2>4, TakenOn
  <2>6. since'[s] # Absent /\ transport' # "local"
    BY <1>1, <1>2, <2>3, BusAssumption
  <2>. QED BY <2>2, <2>5, <2>6 DEF WireOK, NotBegun, LocallyTold
<1>. QED BY <1>5, <1>6

\* A message goes from one of the client's queues to the next.
LEMMA ClientStep ==
  ASSUME WireInvariant, NEW s \in Subscribers, ClientRead(s) \/ WsTake(s)
  PROVE  WireTypes' /\ OnlyFor(s) /\ WireOK(s)'
<1>1. /\ WireTypes /\ WireOK(s) /\ bus' = bus /\ transport' = transport
      /\ cursor' = cursor /\ since' = since /\ skipped' = skipped
  BY DEF WireInvariant, ClientRead, WsTake
<1>2. /\ taken[s] \in Seq(Items) /\ channel[s] \in Seq(Items) /\ socket[s] \in Seq(Items)
      /\ channel[s] \in Seq(Nat) /\ socket[s] \in Seq(Nat)
  BY <1>1, WayIsItems DEF WireTypes
<1>3. transport # "local" /\ since[s] # Absent
  BY <1>1 DEF WireOK, LocallyTold, NotBegun, ClientRead, WsTake
<1>4. WireTypes' /\ OnlyFor(s) /\ Way(s)' = Way(s)
  <2>1. CASE ClientRead(s)
    <3>1. /\ socket[s] # <<>>
          /\ channel' = [channel EXCEPT ![s] = Append(channel[s], Head(socket[s]))]
          /\ socket' = [socket EXCEPT ![s] = Tail(socket[s])]
          /\ UNCHANGED <<transport, bus, frames, asked, cursor, taken, since, skipped>>
      BY <2>1 DEF ClientRead
    <3>2. Append(channel[s], Head(socket[s])) \in Seq(Nat) /\ Tail(socket[s]) \in Seq(Nat)
      BY <1>2, <3>1
    <3>3. WireTypes' /\ OnlyFor(s)
      BY <1>1, <3>1, <3>2 DEF WireTypes, OnlyFor, SameFor
    <3>4. /\ taken'[s] = taken[s] /\ channel'[s] = Append(channel[s], Head(socket[s]))
          /\ socket'[s] = Tail(socket[s])
      BY <1>1, <3>1 DEF WireTypes
    <3>5. taken[s] \o Append(channel[s], Head(socket[s])) \o Tail(socket[s])
            = taken[s] \o channel[s] \o socket[s]
      BY ONLY <1>2, <3>1, WayStays
    <3>. QED BY <3>3, <3>4, <3>5 DEF Way
  <2>2. CASE WsTake(s)
    <3>1. /\ channel[s] # <<>>
          /\ taken' = [taken EXCEPT ![s] = Append(taken[s], Head(channel[s]))]
          /\ channel' = [channel EXCEPT ![s] = Tail(channel[s])]
          /\ UNCHANGED <<transport, bus, frames, asked, cursor, socket, since, skipped>>
      BY <2>2 DEF WsTake
    <3>2. Append(taken[s], Head(channel[s])) \in Seq(Items) /\ Tail(channel[s]) \in Seq(Nat)
      BY <1>2, <3>1
    <3>3. WireTypes' /\ OnlyFor(s)
      BY <1>1, <3>1, <3>2 DEF WireTypes, OnlyFor, SameFor
    <3>4. /\ taken'[s] = Append(taken[s], Head(channel[s])) /\ socket'[s] = socket[s]
          /\ channel'[s] = Tail(channel[s])
      BY <1>1, <3>1 DEF WireTypes
    <3>5. Append(taken[s], Head(channel[s])) \o Tail(channel[s]) \o socket[s]
            = taken[s] \o channel[s] \o socket[s]
      BY ONLY <1>2, <3>1, WayStays
    <3>. QED BY <3>3, <3>4, <3>5 DEF Way
  <2>. QED BY <2>1, <2>2
<1>5. Passed(s)' = Passed(s) /\ Messages(Way(s))' = Messages(Way(s)) /\ Rises(Way(s))'
  <2>1. Messages(Way(s))' = Messages(Way(s))
    BY <1>4 DEF Messages
  <2>2. Rises(Way(s))'
    BY <1>1, <1>4 DEF WireOK, Rises
  <2>. QED BY <1>1, <2>1, <2>2 DEF Passed
<1>6. Receiving(s)'
  BY <1>1, <1>5 DEF WireOK, Receiving
<1>. QED BY <1>1, <1>3, <1>4, <1>5, <1>6 DEF WireOK, NotBegun, LocallyTold

\* What a connection that ends had not delivered is a tail of the way.
LEMMA ConnectionEnds ==
  ASSUME WireInvariant, NEW s \in Subscribers, Disconnect(s)
  PROVE  WireTypes' /\ OnlyFor(s) /\ WireOK(s)'
<1>1. /\ WireTypes /\ WireOK(s) /\ transport = "websocket" /\ cursor[s] # Absent
      /\ cursor' = [cursor EXCEPT ![s] = Absent]
      /\ UNCHANGED <<transport, bus, frames, asked, channel, taken, since, skipped>>
  BY DEF WireInvariant, Disconnect
<1>2. PICK n \in 0..Len(socket[s]) :
        socket' = [socket EXCEPT ![s] = SubSeq(socket[s], 1, n)]
  BY DEF Disconnect
<1>3. /\ taken[s] \in Seq(Items) /\ channel[s] \in Seq(Items) /\ socket[s] \in Seq(Items)
      /\ socket[s] \in Seq(Nat)
  BY <1>1, WayIsItems DEF WireTypes
<1>4. SubSeq(socket[s], 1, n) \in Seq(Nat) /\ SubSeq(socket[s], 1, n) \in Seq(Items)
  BY <1>2, <1>3
<1>5. WireTypes' /\ OnlyFor(s)
  BY <1>1, <1>2, <1>4 DEF WireTypes, OnlyFor, SameFor, Items
<1>6. cursor'[s] = Absent /\ socket'[s] = SubSeq(socket[s], 1, n)
  BY <1>1, <1>2 DEF WireTypes
<1>7. Rises(Way(s))'
  <2>. DEFINE w == taken[s] \o channel[s] \o socket[s]
              v == taken[s] \o channel[s] \o SubSeq(socket[s], 1, n)
  <2>1. Len(v) \in Nat /\ Len(w) \in Nat /\ Len(v) <= Len(w)
        /\ \A i \in 1..Len(v) : v[i] = w[i]
    <3>. DEFINE p == taken[s] \o channel[s]
                q == SubSeq(socket[s], 1, n)
                k == socket[s]
    <3>1. p \in Seq(Items) /\ q \in Seq(Items) /\ k \in Seq(Items)
      BY <1>3, <1>4
    <3>2. n \in Nat /\ Len(q) = n /\ n <= Len(k) /\ \A i \in 1..n : q[i] = k[i]
      BY <1>2, <1>3
    <3>3. v = p \o q /\ w = p \o k
      OBVIOUS
    <3>. HIDE DEF p, q, k, v, w
    <3>4. /\ Len(p) \in Nat /\ Len(k) \in Nat
          /\ Len(p \o q) = Len(p) + n /\ Len(p \o k) = Len(p) + Len(k)
      BY ONLY <3>1, <3>2
    <3>5. ASSUME NEW i \in 1..(Len(p) + n) PROVE (p \o q)[i] = (p \o k)[i]
      <4>1. CASE i <= Len(p)
        BY <3>1, <3>2, <3>4, <4>1
      <4>2. CASE i > Len(p)
        <5>1. i - Len(p) \in 1..n /\ i \in 1..(Len(p) + Len(k))
          BY <3>2, <3>4, <4>2
        <5>2. (p \o q)[i] = q[i - Len(p)] /\ (p \o k)[i] = k[i - Len(p)]
          BY <3>1, <3>2, <3>4, <4>2, <5>1
        <5>. QED BY <3>2, <5>1, <5>2
      <4>3. i <= Len(p) \/ i > Len(p)
        BY <3>2, <3>4, SMT
      <4>. QED BY ONLY <4>1, <4>2, <4>3
    <3>6. Len(v) = Len(p) + n /\ Len(w) = Len(p) + Len(k)
      BY ONLY <3>3, <3>4
    <3>7. \A i \in 1..Len(v) : v[i] = w[i]
      BY ONLY <3>3, <3>5, <3>6
    <3>. QED BY ONLY <3>2, <3>4, <3>6, <3>7
  <2>2. Way(s) = w /\ Way(s)' = v
    BY <1>1, <1>6 DEF Way
  <2>3. Rises(w)
    BY <1>1, <2>2 DEF WireOK
  <2>. HIDE DEF v, w
  <2>4. Rises(v)
    BY <2>1, <2>3 DEF Rises
  <2>. QED BY <2>2, <2>4 DEF Rises
<1>8. since'[s] # Absent
  BY <1>1 DEF WireOK, Receiving
<1>. QED BY <1>1, <1>5, <1>6, <1>7, <1>8 DEF WireOK, NotBegun, Receiving, LocallyTold

LEMMA WireNextKeeps ==
  ASSUME WireInvariant, [WireNext]_wireVars
  PROVE  WireInvariant'
<1>1. ASSUME NEW t \in Topic, LocalPublish(t) \/ RelayPublish(t)
      PROVE  WireInvariant'
  <2>1. Send(t) /\ UNCHANGED <<transport, streams>>
    BY <1>1 DEF LocalPublish, RelayPublish
  <2>. QED BY <2>1, BusGrows
<1>2. ASSUME transport' = transport, bus' = bus,
             cursor' = cursor, since' = since, skipped' = skipped,
             taken' = taken, channel' = channel, socket' = socket
      PROVE  WireInvariant'
  <2>1. WireTypes'
    BY <1>2 DEF WireInvariant, WireTypes
  <2>2. \A s \in Subscribers : WireOK(s)'
    BY <1>2, OthersStay DEF SameFor
  <2>. QED BY <2>1, <2>2 DEF WireInvariant
<1>3. ASSUME NEW t \in Topic, WsPublish(t) PROVE WireInvariant'
  BY <1>2, <1>3 DEF WsPublish, streams
<1>4. ASSUME NEW s \in Subscribers, WsSubscribe(s) PROVE WireInvariant'
  BY <1>2, <1>4 DEF WsSubscribe
<1>5. CASE UNCHANGED wireVars
  BY <1>2, <1>5 DEF wireVars
<1>6. ASSUME NEW s \in Subscribers, WireTypes', OnlyFor(s), WireOK(s)'
      PROVE  WireInvariant'
  <2>1. \A r \in Subscribers \ {s} : WireOK(r)'
    BY <1>6, OthersStay DEF OnlyFor
  <2>. QED BY <1>6, <2>1 DEF WireInvariant
<1>7. ASSUME NEW s \in Subscribers, LocalSubscribe(s) \/ RelaySubscribe(s)
      PROVE  WireInvariant'
  <2>1. Subscribed(s) /\ UNCHANGED <<transport, bus, socket, channel, taken, skipped>>
    BY <1>7 DEF LocalSubscribe, RelaySubscribe
  <2>. QED BY <1>6, <2>1, SubscriptionStarts
<1>8. ASSUME NEW s \in Subscribers,
             \/ LocalLagged(s) \/ LocalTake(s) \/ RelayLagged(s) \/ RelayForward(s)
             \/ ClientRead(s) \/ WsTake(s) \/ Disconnect(s)
      PROVE  WireInvariant'
  BY <1>6, <1>8, LocalStep, RelayStep, ClientStep, ConnectionEnds
<1>. QED BY <1>1, <1>3, <1>4, <1>5, <1>7, <1>8 DEF WireNext

\* A receiver is where its subscription has got to on the bus; what it is past
\* is on the way to the application in order, or it was told it lagged; and
\* locally the application was told so too.
THEOREM WireInvariance == WireSpec => []WireInvariant
<1>1. WireInit => WireInvariant
  <2>1. \A s \in Subscribers : WireInit => Way(s) = <<>>
    <3>1. <<>> \o <<>> \o <<>> = <<>>
      OBVIOUS
    <3>. QED BY <3>1 DEF WireInit, Way
  <2>2. Rises(<<>>)
    BY DEF Rises
  <2>3. WireInit => WireTypes
    BY DEF WireInit, WireTypes, Items
  <2>4. ASSUME WireInit, NEW s \in Subscribers PROVE WireOK(s)
    <3>1. Rises(Way(s))
      BY <2>1, <2>2, <2>4
    <3>. QED BY <2>4, <3>1 DEF WireInit, WireOK, NotBegun, Receiving, LocallyTold
  <2>. QED BY <2>3, <2>4 DEF WireInvariant
<1>2. WireInvariant /\ [WireNext]_wireVars => WireInvariant'
  BY WireNextKeeps
<1>. QED BY <1>1, <1>2, PTL DEF WireSpec

LEMMA MessagesAreTaken ==
  ASSUME NEW w \in Seq(Items)
  PROVE  DOMAIN w = 1..Len(w) /\ Range(w) \ {Absent} = Messages(w)
<1>1. DOMAIN w = 1..Len(w)
  OBVIOUS
<1>. QED BY <1>1 DEF Messages, Range

\* Whatever the capacities, between the bus and an application nothing is lost
\* but what the bus overwrote, nothing is repeated and nothing overtakes.
THEOREM OnlyLagLosesHolds == WireSpec => []OnlyLagLoses
<1>1. WireInvariant => OnlyLagLoses
  <2>. SUFFICES ASSUME WireInvariant, NEW s \in Subscribers
                PROVE  /\ \A m, n \in DOMAIN Way(s) :
                            m < n /\ Absent \notin {Way(s)[m], Way(s)[n]} => Way(s)[m] < Way(s)[n]
                       /\ cursor[s] # Absent =>
                            Range(Way(s)) \ {Absent} = Passed(s) \ skipped[s]
    BY DEF OnlyLagLoses, Way
  <2>1. DOMAIN Way(s) = 1..Len(Way(s)) /\ Range(Way(s)) \ {Absent} = Messages(Way(s))
    BY WayIsItems, MessagesAreTaken
  <2>2. Rises(Way(s)) /\ Receiving(s)
    BY DEF WireInvariant, WireOK
  <2>. QED BY <2>1, <2>2 DEF Rises, Receiving
<1>. QED BY <1>1, WireInvariance, PTL

\* However far a local subscription falls behind, it misses no message without
\* an error in the place where the message should have been.
THEOREM GapsAreAnnouncedHolds == WireSpec => []GapsAreAnnounced
<1>1. WireInvariant => GapsAreAnnounced
  <2>. SUFFICES ASSUME WireInvariant, transport = "local",
                       NEW s \in Subscribers, cursor[s] # Absent,
                       NEW i \in Passed(s) \ Range(taken[s])
                PROVE  \E n \in DOMAIN taken[s] :
                         /\ taken[s][n] = Absent
                         /\ \A m \in DOMAIN taken[s] :
                              taken[s][m] # Absent => (m < n <=> taken[s][m] < i)
    BY DEF GapsAreAnnounced
  <2>1. taken[s] \in Seq(Items) /\ channel[s] = <<>> /\ socket[s] = <<>>
        /\ \A j \in skipped[s] : AnnouncedIn(taken[s], j)
    BY WayIsItems DEF WireInvariant, WireOK, LocallyTold
  <2>2. Way(s) = taken[s]
    BY <2>1, WayGrows DEF Way, Items
  <2>3. /\ DOMAIN taken[s] = 1..Len(taken[s])
        /\ Range(taken[s]) \ {Absent} = Messages(taken[s])
    BY <2>1, MessagesAreTaken
  <2>4. Messages(taken[s]) = Passed(s) \ skipped[s]
    BY <2>2, Standing
  <2>5. i \in skipped[s]
    BY <2>3, <2>4
  <2>. QED BY <2>1, <2>3, <2>5 DEF AnnouncedIn
<1>. QED BY <1>1, WireInvariance, PTL
-----------------------------------------------------------------------------
(***************************************************************************)
(* The simulations.                                                        *)
(***************************************************************************)
\* p is a packet for t, which round n published.
OfRound(p, n, t) ==
  \/ p = SnapshotPacket(n, TestSchema, t)
  \/ /\ n > 1
     /\ \E b \in State : \E d \in Deltas(b, t) : p = ByteDeltaPacket(n, TestSchema, b, t, d)

\* p was sent in some round; the last is top and published s.
Sent(p, top, s) ==
  \E n \in 1..top : \E t \in State : (n = top => t = s) /\ OfRound(p, n, t)

DecoderOK(d, top, s) ==
  /\ d.sequence \in 1..top \cup {None}
  /\ d.sequence # None => d.state \in State
  /\ d.sequence = top => d.state = s
  /\ harness # "v30_torture" =>
       d.seen \in Seq(0..top) /\ Len(d.seen) <= WindowCapacity /\ WindowInOrder(d)

MapOK(w, top, s) ==
  /\ DOMAIN w \subseteq 1..top
  /\ \A n \in DOMAIN w : Sent(w[n], top, s) /\ w[n].sequence = n

ClientOK(k, top, s) ==
  /\ k = [decoder |-> k.decoder, waiting |-> k.waiting,
          delayed |-> k.delayed, joined |-> k.joined]
  /\ DecoderOK(k.decoder, top, s)
  /\ MapOK(k.waiting, top, s)
  /\ k.delayed # None => Sent(k.delayed, top, s)
  /\ k.joined \in BOOLEAN

\* A delta of the last round that is held back follows what its client has,
\* if that is the state of the round before.
HeldBackFits(k, top) ==
  ( /\ k.delayed # None /\ k.delayed.kind = "Delta" /\ k.delayed.sequence = top
    /\ k.decoder.sequence = top - 1 )
  => Hash(k.decoder.state) = k.delayed.base_hash

Near(d, top) == d.sequence # None /\ top - d.sequence \in 0..Behind

SimInvariant ==
  /\ harness \in Harnesses /\ round \in Nat /\ state \in State
  /\ DOMAIN clients = SimClients
  /\ \A c \in SimClients : /\ ClientOK(clients[c], round, state)
                           /\ clients[c].joined \/ clients[c].delayed = None
                           /\ HeldBackFits(clients[c], round)
  /\ served \subseteq SimClients
  /\ \A c \in served : Near(clients[c].decoder, round)
  /\ recovered \subseteq served
  /\ \A c \in recovered : clients[c].decoder.sequence = round
  /\ AllConverge

\* What the receiving half needs to know of a packet that was sent.
LEMMA SentPackets ==
  ASSUME PayloadsFit, NEW top \in Nat, NEW s \in State, NEW p, Sent(p, top, s)
  PROVE  /\ p.sequence \in 1..top /\ p.kind \in {"Snapshot", "Delta"}
         /\ p.schema_hash = SimConfig.schema /\ ~Unreadable(SimConfig, p)
         /\ ~(Size(p.payload) > SimConfig.limit)
         /\ p.kind = "Snapshot" =>
              /\ Hash(p.payload) = p.base_hash /\ p.payload \in State
              /\ p.sequence = top => p.payload = s
         /\ p.kind = "Delta" =>
              /\ p.base_sequence = p.sequence - 1
              /\ \E b \in State : /\ p.base_hash = Hash(b)
                                  /\ Patch(p.payload, b) \in State \ {Invalid}
                                  /\ p.sequence = top => Patch(p.payload, b) = s
<1>1. PICK n \in 1..top : \E t \in State : (n = top => t = s) /\ OfRound(p, n, t)
  BY DEF Sent
<1>2. PICK t \in State : (n = top => t = s) /\ OfRound(p, n, t)
  BY <1>1
<1>3. SimConfig.schema = TestSchema /\ SimConfig.limit = TestLimit
  BY DEF SimConfig
<1>4. CASE p = SnapshotPacket(n, TestSchema, t)
  <2>1. /\ p.sequence = n /\ p.kind = "Snapshot" /\ p.schema_hash = TestSchema
        /\ p.payload = t /\ p.base_hash = Hash(t)
    BY <1>4 DEF SnapshotPacket
  <2>2. ~(Size(t) > TestLimit)
    BY DEF PayloadsFit
  <2>. QED BY <1>2, <1>3, <2>1, <2>2 DEF Unreadable
<1>5. ASSUME n > 1, NEW b \in State, NEW d \in Deltas(b, t),
             p = ByteDeltaPacket(n, TestSchema, b, t, d)
      PROVE  /\ p.sequence = n /\ p.kind = "Delta" /\ p.schema_hash = TestSchema
             /\ p.payload = d /\ p.base_sequence = n - 1 /\ p.base_hash = Hash(b)
             /\ ~(Size(d) > TestLimit) /\ Patch(d, b) = t /\ t # Invalid
  <2>1. ~(Size(d) > TestLimit)
    BY DEF PayloadsFit
  <2>2. Patch(d, b) = t /\ t # Invalid
    BY DeltasAssumption
  <2>3. /\ p.sequence = n /\ p.kind = "Delta" /\ p.schema_hash = TestSchema
        /\ p.payload = d /\ p.base_sequence = n - 1 /\ p.base_hash = Hash(b)
    BY <1>5 DEF ByteDeltaPacket, DeltaPacket
  <2>. QED BY <2>1, <2>2, <2>3
<1>6. CASE p # SnapshotPacket(n, TestSchema, t)
  <2>1. PICK b \in State : \E d \in Deltas(b, t) : n > 1 /\ p = ByteDeltaPacket(n, TestSchema, b, t, d)
    BY <1>2, <1>6 DEF OfRound
  <2>2. PICK d \in Deltas(b, t) : n > 1 /\ p = ByteDeltaPacket(n, TestSchema, b, t, d)
    BY <2>1
  <2>3. /\ p.sequence = n /\ p.kind = "Delta" /\ p.schema_hash = TestSchema
        /\ p.payload = d /\ p.base_sequence = n - 1 /\ p.base_hash = Hash(b)
        /\ ~(Size(d) > TestLimit) /\ Patch(d, b) = t /\ t # Invalid
    BY <1>5, <2>2
  <2>. QED BY <1>2, <1>3, <2>3 DEF Unreadable
<1>. QED BY <1>4, <1>6

\* Another round leaves everybody behind, and what was sent sent.
LEMMA SentStays ==
  ASSUME NEW top \in Nat, NEW s \in State, NEW t \in State, NEW p, Sent(p, top, s)
  PROVE  Sent(p, top + 1, t)
<1>1. PICK n \in 1..top : \E u \in State : (n = top => u = s) /\ OfRound(p, n, u)
  BY DEF Sent
<1>2. n \in 1..(top + 1) /\ n # top + 1
  OBVIOUS
<1>. QED BY <1>1, <1>2 DEF Sent

LEMMA ClientStays ==
  ASSUME NEW top \in Nat, NEW s \in State, NEW t \in State, NEW k, ClientOK(k, top, s)
  PROVE  ClientOK(k, top + 1, t) /\ k.decoder.sequence # top + 1
<1>1. 1..top \subseteq 1..(top + 1) /\ 0..top \subseteq 0..(top + 1) /\ top + 1 \notin 1..top
  OBVIOUS
<1>2. Seq(0..top) \subseteq Seq(0..(top + 1))
  BY <1>1, SeqMonotonic
<1>3. DecoderOK(k.decoder, top + 1, t) /\ k.decoder.sequence # top + 1
  BY <1>1, <1>2, NoneAssumption DEF ClientOK, DecoderOK
<1>4. MapOK(k.waiting, top + 1, t)
  BY <1>1, SentStays DEF ClientOK, MapOK
<1>5. k.delayed # None => Sent(k.delayed, top + 1, t)
  BY SentStays DEF ClientOK
<1>. QED BY <1>3, <1>4, <1>5 DEF ClientOK

LEMMA NewClientOK ==
  ASSUME NEW s \in State, NEW h \in Harnesses, h = harness
  PROVE  ClientOK(NewClient(h), 0, s) /\ NewClient(h).delayed = None
<1>. DEFINE k == NewClient(h)
<1>1. /\ k = [decoder |-> k.decoder, waiting |-> k.waiting,
              delayed |-> k.delayed, joined |-> k.joined]
      /\ k.waiting = <<>> /\ k.delayed = None /\ k.joined \in BOOLEAN
      /\ k.decoder = IF h = "v30_torture" THEN EmptyByteDecoder ELSE EmptyDecoder
  BY DEF NewClient
<1>2. DecoderOK(k.decoder, 0, s)
  BY <1>1, FreshIsRight, NoneAssumption DEF DecoderOK, EmptyByteDecoder
<1>3. MapOK(k.waiting, 0, s)
  BY <1>1 DEF MapOK
<1>. QED BY <1>1, <1>2, <1>3 DEF ClientOK
-----------------------------------------------------------------------------
(***************************************************************************)
(* What a packet does to a decoder.  Taken says it of a decoder d that     *)
(* answers a and becomes e.                                                *)
(***************************************************************************)
Taken(d, p, top, s, a, e) ==
  /\ a \in {"Applied", "Duplicate"} \cup Lost
  /\ DecoderOK(e, top, s)
  /\ a = "Applied" =>
       e.sequence = p.sequence /\ (d.sequence # None => d.sequence < p.sequence)
  /\ a # "Applied" => e = d
  /\ a = "Duplicate" <=> d.sequence # None /\ p.sequence <= d.sequence
  /\ p.kind = "Snapshot" /\ ~(d.sequence # None /\ p.sequence <= d.sequence) => a = "Applied"

LEMMA DecoderTakes ==
  ASSUME PayloadsFit, harness # "v30_torture", NEW top \in Nat, NEW s \in State,
         NEW p, Sent(p, top, s), NEW d, DecoderOK(d, top, s)
  PROVE  Taken(d, p, top, s, Outcome(d, SimConfig, p), Apply(d, SimConfig, p))
<1>. DEFINE a == Outcome(d, SimConfig, p)
            e == Apply(d, SimConfig, p)
<1>1. /\ p.sequence \in 1..top /\ p.kind \in {"Snapshot", "Delta"}
      /\ p.schema_hash = SimConfig.schema /\ ~Unreadable(SimConfig, p)
  BY SentPackets
<1>2. /\ WindowInOrder(d) /\ d.seen \in Seq(0..top) /\ Len(d.seen) <= WindowCapacity
      /\ d.sequence \in 0..top \cup {None} /\ d.seen \in Seq(Nat)
      /\ d.sequence \in Nat \cup {None} /\ p.sequence \in Nat /\ p.sequence \in 0..top
  <2>1. 0..top \subseteq Nat /\ 1..top \subseteq 0..top
    OBVIOUS
  <2>2. Seq(0..top) \subseteq Seq(Nat)
    BY <2>1, SeqMonotonic
  <2>. QED BY <1>1, <2>1, <2>2 DEF DecoderOK
<1>3. Stale(d, p) <=> d.sequence # None /\ p.sequence <= d.sequence
  BY <1>2, StaleComparesSequences
<1>4. a = IF Stale(d, p) THEN "Duplicate"
          ELSE IF p.kind = "Delta" /\ ~BaseMatches(d, p) THEN "NeedSnapshot" ELSE "Applied"
  BY <1>1 DEF Outcome
<1>5. CASE a = "Applied"
  <2>1. ~Stale(d, p) /\ (p.kind = "Delta" => BaseMatches(d, p))
    BY <1>4, <1>5
  <2>2. e = Advance(d, SimConfig, p) /\ e.sequence = p.sequence
        /\ e.state = IF p.kind = "Snapshot" THEN p.payload ELSE Patch(p.payload, d.state)
    BY <1>1, <1>5 DEF Apply, Advance, Resulting
  <2>3. /\ e.seen \in Seq(0..top) /\ Len(e.seen) <= WindowCapacity /\ WindowInOrder(e)
    <3>. DEFINE x == Advance(d, SimConfig, p)
    <3>1. /\ WindowInOrder(d) /\ d.seen \in Seq(0..top) /\ Len(d.seen) <= WindowCapacity
          /\ d.sequence \in 0..top \cup {None} /\ p.sequence \in 0..top /\ ~Stale(d, p)
      BY <1>2, <2>1
    <3>2. /\ x.seen \in Seq(0..top) /\ Len(x.seen) <= WindowCapacity /\ WindowInOrder(x)
      BY ONLY <3>1, top \in Nat, AdvanceKeepsWindow
    <3>. QED BY <2>2, <3>2
  <2>4. e.state \in State /\ (p.sequence = top => e.state = s)
    <3>1. CASE p.kind = "Snapshot"
      BY <2>2, <3>1, SentPackets
    <3>2. CASE p.kind = "Delta"
      <4>1. PICK b \in State : /\ p.base_hash = Hash(b)
                               /\ Patch(p.payload, b) \in State \ {Invalid}
                               /\ p.sequence = top => Patch(p.payload, b) = s
        BY <3>2, SentPackets
      <4>2. d.sequence = p.base_sequence /\ p.base_sequence = p.sequence - 1 /\ Hash(d.state) = Hash(b)
        BY <2>1, <3>2, <4>1, SentPackets DEF BaseMatches
      <4>3. d.sequence # None
        BY <1>1, <4>2, NoneAssumption
      <4>4. d.state = b
        BY <4>2, <4>3, HashAssumption DEF DecoderOK
      <4>. QED BY <2>2, <3>2, <4>1, <4>4
    <3>. QED BY <1>1, <3>1, <3>2
  <2>5. DecoderOK(e, top, s)
    BY <1>1, <2>2, <2>3, <2>4 DEF DecoderOK
  <2>6. d.sequence # None => d.sequence < p.sequence
    BY <1>2, <1>3, <2>1
  <2>. QED BY <1>3, <1>5, <2>1, <2>2, <2>5, <2>6 DEF Taken
<1>6. CASE a # "Applied"
  <2>1. e = d
    BY <1>6 DEF Apply
  <2>. QED BY <1>3, <1>4, <1>6, <2>1 DEF Taken, Lost
<1>. QED BY <1>5, <1>6

LEMMA ByteDecoderTakes ==
  ASSUME PayloadsFit, harness = "v30_torture", NEW top \in Nat, NEW s \in State,
         NEW p, Sent(p, top, s), NEW d, DecoderOK(d, top, s)
  PROVE  Taken(d, p, top, s, ByteOutcome(d, SimConfig, p), ByteApply(d, SimConfig, p))
<1>. DEFINE a == ByteOutcome(d, SimConfig, p)
            e == ByteApply(d, SimConfig, p)
<1>1. /\ p.sequence \in 1..top /\ p.kind \in {"Snapshot", "Delta"}
      /\ p.schema_hash = SimConfig.schema /\ ~(Size(p.payload) > SimConfig.limit)
      /\ p.kind = "Snapshot" => Hash(p.payload) = p.base_hash
  BY SentPackets
<1>2. NotNewer(d, p) <=> d.sequence # None /\ p.sequence <= d.sequence
  BY DEF NotNewer
<1>3. p.kind = "Delta" /\ OnBase(d, p) =>
        /\ Patch(p.payload, d.state) \in State \ {Invalid}
        /\ p.sequence = top => Patch(p.payload, d.state) = s
  <2>. SUFFICES ASSUME p.kind = "Delta", OnBase(d, p)
                PROVE  /\ Patch(p.payload, d.state) \in State \ {Invalid}
                       /\ p.sequence = top => Patch(p.payload, d.state) = s
    OBVIOUS
  <2>1. PICK b \in State : /\ p.base_hash = Hash(b)
                           /\ Patch(p.payload, b) \in State \ {Invalid}
                           /\ p.sequence = top => Patch(p.payload, b) = s
    BY SentPackets
  <2>2. d.sequence = p.base_sequence /\ p.base_sequence = p.sequence - 1 /\ Hash(d.state) = Hash(b)
    BY <2>1, SentPackets DEF OnBase
  <2>3. d.sequence # None
    BY <1>1, <2>2, NoneAssumption
  <2>4. d.state = b
    BY <2>2, <2>3, HashAssumption DEF DecoderOK
  <2>. QED BY <2>1, <2>4
<1>4. a = IF NotNewer(d, p) THEN "Duplicate"
          ELSE IF p.kind = "Delta" /\ ~OnBase(d, p) THEN "NeedRecovery" ELSE "Applied"
  BY <1>1, <1>3 DEF ByteOutcome
<1>5. CASE a = "Applied"
  <2>1. e.sequence = p.sequence
        /\ e.state = IF p.kind = "Snapshot" THEN p.payload ELSE Patch(p.payload, d.state)
    BY <1>5 DEF ByteApply, ByteResulting
  <2>2. e.state \in State /\ (p.sequence = top => e.state = s)
    <3>1. CASE p.kind = "Snapshot"
      BY <2>1, <3>1, SentPackets
    <3>2. CASE p.kind = "Delta"
      BY <1>3, <1>4, <1>5, <2>1, <3>2
    <3>. QED BY <1>1, <3>1, <3>2
  <2>3. DecoderOK(e, top, s)
    BY <1>1, <2>1, <2>2 DEF DecoderOK
  <2>4. d.sequence # None => d.sequence < p.sequence
    BY <1>1, <1>2, <1>4, <1>5 DEF DecoderOK
  <2>. QED BY <1>2, <1>4, <1>5, <2>1, <2>3, <2>4 DEF Taken
<1>6. CASE a # "Applied"
  <2>1. e = d
    BY <1>6 DEF ByteApply
  <2>. QED BY <1>2, <1>4, <1>6, <2>1 DEF Taken, Lost
<1>. QED BY <1>5, <1>6
-----------------------------------------------------------------------------
(***************************************************************************)
(* What a packet does to a client.                                         *)
(***************************************************************************)
\* The drain loop as a function of its turns.
DrainStart(k) == Applied(k.decoder, k.waiting)
DrainStep(k, r, e) == DrainNext(k.config, r)

Turns == INSTANCE FoldTheorems WITH Start <- DrainStart, Step <- DrainStep

LEMMA DrainTakesTurns ==
  ASSUME NEW config, NEW d, NEW w, Cardinality(DOMAIN w) \in Nat
  PROVE  \E after :
           /\ after[0] = Applied(d, w)
           /\ \A i \in 1..Cardinality(DOMAIN w) : after[i] = DrainNext(config, after[i - 1])
           /\ Drain(config, d, w) = after[Cardinality(DOMAIN w)]
<1>. DEFINE turns == Cardinality(DOMAIN w)
            Body(f) == [i \in 0..turns |-> IF i = 0 THEN Applied(d, w)
                                           ELSE DrainNext(config, f[i - 1])]
            after == CHOOSE f : f = Body(f)
            k == [config |-> config, decoder |-> d, waiting |-> w]
<1>1. Drain(config, d, w) = after[turns]
  BY DEF Drain
<1>2. PICK f : Turns!Iterates(f, k, turns)
  BY Turns!IterationExists
<1>3. f = Body(f)
  BY <1>2 DEF Turns!Iterates, DrainStart, DrainStep
<1>4. after = Body(after)
  BY <1>3
<1>. HIDE DEF after
<1>5. after[0] = Applied(d, w) /\ \A i \in 1..turns : after[i] = DrainNext(config, after[i - 1])
  BY <1>4
<1>. QED BY <1>1, <1>5

\* One packet waits: the drain takes one turn.
LEMMA DrainOfOne ==
  ASSUME NEW config, NEW d, NEW w, Cardinality(DOMAIN w) = 1
  PROVE  Drain(config, d, w) = DrainNext(config, Applied(d, w))
<1>1. PICK after : /\ after[0] = Applied(d, w)
                   /\ \A i \in 1..Cardinality(DOMAIN w) :
                        after[i] = DrainNext(config, after[i - 1])
                   /\ Drain(config, d, w) = after[Cardinality(DOMAIN w)]
  <2>1. Cardinality(DOMAIN w) \in Nat
    OBVIOUS
  <2>. QED BY <2>1, DrainTakesTurns
<1>2. 1 \in 1..1 /\ 1 - 1 = 0
  OBVIOUS
<1>3. after[1] = DrainNext(config, after[0])
  BY <1>1, <1>2
<1>. QED BY <1>1, <1>3

\* In the middle of a drain that began at sequence from.
SimDraining(r, from, top, s) ==
  /\ r = [decoder |-> r.decoder, waiting |-> r.waiting, answer |-> r.answer]
  /\ DecoderOK(r.decoder, top, s) /\ MapOK(r.waiting, top, s)
  /\ r.decoder.sequence # None /\ from <= r.decoder.sequence
  /\ r.answer \in {"Applied", "NeedSnapshot"}

\* A turn keeps the client in order, whether or not a packet is there to take.
LEMMA TurnKeepsClient ==
  ASSUME PayloadsFit, harness # "v30_torture", NEW top \in Nat, NEW s \in State,
         NEW from \in Nat, NEW r, SimDraining(r, from, top, s),
         NEW q, q = DrainNext(SimConfig, r)
  PROVE  SimDraining(q, from, top, s)
<1>. DEFINE next == r.decoder.sequence + 1
            p == r.waiting[next]
            a == Outcome(r.decoder, SimConfig, p)
<1>1. CASE r.answer # "Applied" \/ next \notin DOMAIN r.waiting
  BY <1>1 DEF DrainNext
<1>2. CASE r.answer = "Applied" /\ next \in DOMAIN r.waiting
  <2>1. q = [decoder |-> Apply(r.decoder, SimConfig, p),
             waiting |-> Restrict(r.waiting, DOMAIN r.waiting \ {next}),
             answer  |-> IF a = "Duplicate" THEN "Applied" ELSE a]
    BY <1>2 DEF DrainNext
  <2>2. Sent(p, top, s) /\ p.sequence = next
    BY <1>2 DEF SimDraining, MapOK
  <2>3. Taken(r.decoder, p, top, s, a, q.decoder)
    BY <2>1, <2>2, DecoderTakes DEF SimDraining
  <2>4. a # "NeedRecovery"
    BY DEF Outcome
  <2>5. q.answer \in {"Applied", "NeedSnapshot"}
    BY <2>1, <2>3, <2>4 DEF Taken, Lost
  <2>6. MapOK(q.waiting, top, s)
    BY <2>1 DEF Restrict, SimDraining, MapOK
  <2>7. q.decoder.sequence # None /\ from <= q.decoder.sequence
    <3>1. r.decoder.sequence \in Nat /\ next # None /\ from <= next
      BY NoneAssumption DEF SimDraining, DecoderOK
    <3>. QED BY <2>2, <2>3, <3>1 DEF Taken, SimDraining
  <2>8. DecoderOK(q.decoder, top, s)
    BY <2>3 DEF Taken
  <2>9. q = [decoder |-> q.decoder, waiting |-> q.waiting, answer |-> q.answer]
    BY <2>1
  <2>. QED BY <2>5, <2>6, <2>7, <2>8, <2>9 DEF SimDraining
<1>. QED BY <1>1, <1>2

LEMMA DrainKeepsClient ==
  ASSUME PayloadsFit, harness # "v30_torture", NEW top \in Nat, NEW s \in State,
         NEW d, DecoderOK(d, top, s), d.sequence # None, NEW w, MapOK(w, top, s),
         NEW r, r = Drain(SimConfig, d, w)
  PROVE  SimDraining(r, d.sequence, top, s)
<1>. DEFINE turns == Cardinality(DOMAIN w)
<1>1. turns \in Nat /\ d.sequence \in Nat
  <2>1. 1 \in Int /\ top \in Int
    OBVIOUS
  <2>2. IsFiniteSet(1..top)
    BY <2>1, FS_Interval
  <2>3. IsFiniteSet(DOMAIN w)
    BY <2>2, FS_Subset DEF MapOK
  <2>. QED BY <2>3, FS_CardinalityType DEF DecoderOK
<1>2. PICK after : /\ after[0] = Applied(d, w)
                   /\ \A i \in 1..turns : after[i] = DrainNext(SimConfig, after[i - 1])
                   /\ r = after[turns]
  BY <1>1, DrainTakesTurns
<1>. DEFINE T == {i \in Nat : i <= turns => SimDraining(after[i], d.sequence, top, s)}
<1>3. 0 \in T
  BY <1>1, <1>2 DEF Applied, SimDraining
<1>4. ASSUME NEW i \in T PROVE i + 1 \in T
  <2>. SUFFICES ASSUME i + 1 <= turns PROVE SimDraining(after[i + 1], d.sequence, top, s)
    OBVIOUS
  <2>1. i <= turns /\ i + 1 \in 1..turns /\ (i + 1) - 1 = i
    BY <1>1
  <2>2. SimDraining(after[i], d.sequence, top, s) /\ after[i + 1] = DrainNext(SimConfig, after[i])
    BY <1>2, <2>1
  <2>. QED BY <1>1, <2>2, TurnKeepsClient
<1>5. T = Nat
  <2>. HIDE DEF T
  <2>1. T \in SUBSET Nat
    BY DEF T
  <2>. QED BY <1>3, <1>4, <2>1, Turns!SetInduction
<1>. QED BY <1>1, <1>2, <1>5

\* A drain that begins at the last round finds nothing and needs nothing.
LEMMA DrainAtTheEnd ==
  ASSUME NEW top \in Nat, NEW s \in State, NEW d, d.sequence = top,
         NEW w, MapOK(w, top, s)
  PROVE  Drain(SimConfig, d, w) = Applied(d, w)
<1>. DEFINE turns == Cardinality(DOMAIN w)
<1>1. turns \in Nat
  <2>1. 1 \in Int /\ top \in Int
    OBVIOUS
  <2>2. IsFiniteSet(1..top)
    BY <2>1, FS_Interval
  <2>. QED BY <2>2, FS_Subset, FS_CardinalityType DEF MapOK
<1>2. PICK after : /\ after[0] = Applied(d, w)
                   /\ \A i \in 1..turns : after[i] = DrainNext(SimConfig, after[i - 1])
                   /\ Drain(SimConfig, d, w) = after[turns]
  BY <1>1, DrainTakesTurns
<1>3. DrainNext(SimConfig, Applied(d, w)) = Applied(d, w)
  <2>1. top + 1 \notin DOMAIN w
    BY DEF MapOK
  <2>. QED BY <2>1 DEF DrainNext, Applied
<1>. DEFINE T == {i \in Nat : i <= turns => after[i] = Applied(d, w)}
<1>4. 0 \in T
  BY <1>2
<1>5. ASSUME NEW i \in T PROVE i + 1 \in T
  <2>1. i + 1 <= turns => i <= turns /\ i + 1 \in 1..turns /\ (i + 1) - 1 = i
    BY <1>1
  <2>. QED BY <1>2, <1>3, <2>1
<1>6. T = Nat
  <2>. HIDE DEF T
  <2>1. T \in SUBSET Nat
    BY DEF T
  <2>. QED BY <1>4, <1>5, <2>1, Turns!SetInduction
<1>. QED BY <1>1, <1>2, <1>6

\* A client k that has become e, and has not gone back.
Moved(k, top, s, e) ==
  /\ ClientOK(e, top, s)
  /\ e.delayed = k.delayed /\ e.joined = k.joined
  /\ k.decoder.sequence # None =>
       e.decoder.sequence # None /\ k.decoder.sequence <= e.decoder.sequence

\* What Give makes of client k, of which g is the outcome.
Given(k, p, top, s, g) ==
  /\ g = [client |-> g.client, answer |-> g.answer]
  /\ Moved(k, top, s, g.client)
  /\ g.answer \in {"Applied", "Duplicate", "Buffered"} \cup Lost
  /\ p.sequence = top /\ g.answer \in {"Applied", "Duplicate", "Buffered"} =>
       /\ Near(g.client.decoder, top)
       /\ g.answer # "Buffered" => g.client.decoder.sequence = top
  /\ p.sequence = top /\ p.kind = "Snapshot" =>
       /\ g.answer \in {"Applied", "Duplicate"}
       /\ k.decoder.sequence # top => g.answer = "Applied"
  /\ harness # "torture" /\ g.answer \in Lost => g.client.decoder.sequence # top

\* The decoders of the simulations without a reorder buffer.
LEMMA GiveToDecoder ==
  ASSUME PayloadsFit, harness # "torture", NEW top \in Nat, NEW s \in State,
         NEW k, ClientOK(k, top, s), NEW p, Sent(p, top, s),
         NEW a, NEW e, Taken(k.decoder, p, top, s, a, e),
         NEW g, g = [client |-> [k EXCEPT !.decoder = e], answer |-> a]
  PROVE  Given(k, p, top, s, g)
<1>1. /\ g.client = [decoder |-> e, waiting |-> k.waiting,
                     delayed |-> k.delayed, joined |-> k.joined]
      /\ g.answer = a /\ g = [client |-> g.client, answer |-> g.answer]
  BY DEF ClientOK
<1>2. ClientOK(g.client, top, s)
  BY <1>1 DEF ClientOK, Taken
<1>3. /\ k.decoder.sequence \in 1..top \cup {None} /\ e.sequence \in 1..top \cup {None}
      /\ p.sequence \in 1..top /\ p.sequence # None
  BY SentPackets, NoneAssumption DEF ClientOK, DecoderOK, Taken
<1>4. k.decoder.sequence # None => e.sequence # None /\ k.decoder.sequence <= e.sequence
  BY <1>3 DEF Taken
<1>5. a \in {"Applied", "Duplicate"} /\ p.sequence = top => e.sequence = top /\ e.sequence # None
  BY <1>3 DEF Taken
<1>6. Behind = 0 /\ (top - top \in 0..0)
  BY DEF Behind
<1>7. a \in {"Applied", "Duplicate"} \cup Lost /\ a # "Buffered"
  BY DEF Taken, Lost
<1>8. p.sequence = top /\ p.kind = "Snapshot" =>
        a \in {"Applied", "Duplicate"} /\ (k.decoder.sequence # top => a = "Applied")
  <2>1. p.kind = "Snapshot" =>
          IF k.decoder.sequence # None /\ p.sequence <= k.decoder.sequence
          THEN a = "Duplicate" ELSE a = "Applied"
    BY DEF Taken
  <2>2. p.sequence = top /\ k.decoder.sequence # None /\ p.sequence <= k.decoder.sequence =>
          k.decoder.sequence = top
    BY <1>3
  <2>. QED BY <2>1, <2>2
<1>9. a \in Lost => e.sequence # top
  <2>1. a \in Lost => e = k.decoder /\ ~(k.decoder.sequence # None /\ p.sequence <= k.decoder.sequence)
    BY DEF Taken, Lost
  <2>2. k.decoder.sequence = top => k.decoder.sequence # None /\ p.sequence <= k.decoder.sequence
    BY <1>3, NoneAssumption
  <2>. QED BY <2>1, <2>2
<1>. QED BY <1>1, <1>2, <1>4, <1>5, <1>6, <1>7, <1>8, <1>9 DEF Given, Moved, Near

\* The clients behind a reorder buffer.
LEMMA GiveToBuffer ==
  ASSUME PayloadsFit, harness = "torture", NEW top \in Nat, NEW s \in State,
         NEW k, ClientOK(k, top, s), NEW p, Sent(p, top, s),
         NEW r, r = ReorderApply(SimConfig, k.decoder, k.waiting, p),
         NEW g, g = [client |-> [k EXCEPT !.decoder = r.decoder, !.waiting = r.waiting],
                     answer |-> r.answer]
  PROVE  Given(k, p, top, s, g)
<1>. DEFINE d == k.decoder
            a == Outcome(d, SimConfig, p)
<1>1. /\ g.client = [decoder |-> r.decoder, waiting |-> r.waiting,
                     delayed |-> k.delayed, joined |-> k.joined]
      /\ g.answer = r.answer /\ g = [client |-> g.client, answer |-> g.answer]
  BY DEF ClientOK
<1>2. /\ d.sequence \in 1..top \cup {None} /\ p.sequence \in 1..top
      /\ p.sequence # None
      /\ d.sequence # None => d.sequence \in Nat
  BY SentPackets, NoneAssumption DEF ClientOK, DecoderOK
<1>3. DecoderOK(d, top, s) /\ MapOK(k.waiting, top, s)
  BY DEF ClientOK
<1>4. SUFFICES /\ DecoderOK(r.decoder, top, s) /\ MapOK(r.waiting, top, s)
               /\ r.answer \in {"Applied", "Duplicate", "Buffered"} \cup Lost
               /\ d.sequence # None => r.decoder.sequence # None /\ d.sequence <= r.decoder.sequence
               /\ p.sequence = top /\ r.answer \in {"Applied", "Duplicate", "Buffered"} =>
                    /\ Near(r.decoder, top)
                    /\ r.answer # "Buffered" => r.decoder.sequence = top
               /\ p.sequence = top /\ p.kind = "Snapshot" =>
                    /\ r.answer \in {"Applied", "Duplicate"}
                    /\ d.sequence # top => r.answer = "Applied"
  <2>1. ClientOK(g.client, top, s)
    BY <1>1, <1>4 DEF ClientOK
  <2>. QED BY <1>1, <1>4, <2>1 DEF Given, Moved
<1>5. Behind = MaxGap + 1 /\ MaxGap \in Nat
  BY ReorderBoundsAssumption DEF Behind
<1>6. CASE Early(d, p)
  <2>1. p.kind = "Delta" /\ d.sequence # None /\ d.sequence < p.base_sequence
        /\ p.base_sequence = p.sequence - 1
    BY <1>6, SentPackets DEF Early
  <2>2. CASE HasRoom(d, k.waiting, p)
    <3>1. r = [decoder |-> d, waiting |-> Keep(k.waiting, p), answer |-> "Buffered"]
      BY <1>6, <2>2 DEF ReorderApply
    <3>2. MapOK(Keep(k.waiting, p), top, s)
      <4>. DEFINE x == Keep(k.waiting, p)
      <4>1. DOMAIN x = DOMAIN k.waiting \cup {p.sequence}
            /\ \A n \in DOMAIN x : x[n] = IF n \in DOMAIN k.waiting THEN k.waiting[n] ELSE p
        BY DEF Keep
      <4>. HIDE DEF x
      <4>2. MapOK(x, top, s)
        BY <1>2, <1>3, <4>1 DEF MapOK
      <4>. QED BY <4>2 DEF x
    <3>3. p.sequence = top => Near(d, top)
      <4>1. p.base_sequence - d.sequence <= MaxGap
        BY <2>2 DEF HasRoom
      <4>. QED BY <1>2, <1>5, <2>1, <4>1 DEF Near
    <3>. QED BY <1>2, <1>3, <2>1, <3>1, <3>2, <3>3
  <2>3. CASE ~HasRoom(d, k.waiting, p)
    <3>1. r = [decoder |-> d, waiting |-> k.waiting, answer |-> "NeedSnapshot"]
      BY <1>6, <2>3 DEF ReorderApply
    <3>. QED BY <1>2, <1>3, <2>1, <3>1 DEF Lost
  <2>. QED BY <2>2, <2>3
<1>7. CASE ~Early(d, p)
  <2>1. Taken(d, p, top, s, a, Apply(d, SimConfig, p))
    BY <1>3, DecoderTakes
  <2>2. CASE a = "Applied"
    <3>1. r = Drain(SimConfig, Apply(d, SimConfig, p), k.waiting)
      BY <1>7, <2>2 DEF ReorderApply
    <3>2. /\ DecoderOK(Apply(d, SimConfig, p), top, s)
          /\ Apply(d, SimConfig, p).sequence = p.sequence
          /\ d.sequence # None => d.sequence < p.sequence
      BY <2>1, <2>2 DEF Taken
    <3>3. SimDraining(r, p.sequence, top, s)
      <4>. DEFINE e == Apply(d, SimConfig, p)
      <4>1. DecoderOK(e, top, s) /\ e.sequence = p.sequence /\ r = Drain(SimConfig, e, k.waiting)
        BY <3>1, <3>2
      <4>. HIDE DEF e
      <4>2. SimDraining(r, e.sequence, top, s)
        BY <1>2, <1>3, <4>1, DrainKeepsClient
      <4>. QED BY <4>1, <4>2
    <3>4. /\ DecoderOK(r.decoder, top, s) /\ MapOK(r.waiting, top, s)
          /\ r.decoder.sequence # None /\ p.sequence <= r.decoder.sequence
          /\ r.answer \in {"Applied", "NeedSnapshot"} /\ r.decoder.sequence \in 1..top
      BY <3>3 DEF SimDraining, DecoderOK
    <3>5. p.sequence = top => r.decoder.sequence = top
      BY <1>2, <3>4
    <3>6. p.sequence = top => Near(r.decoder, top)
      BY <1>5, <3>4, <3>5 DEF Near
    <3>7. d.sequence # None => d.sequence <= r.decoder.sequence
      BY <1>2, <3>2, <3>4
    <3>8. p.sequence = top => r.answer = "Applied"
      <4>1. SUFFICES ASSUME p.sequence = top PROVE r.answer = "Applied"
        OBVIOUS
      <4>2. r = Applied(Apply(d, SimConfig, p), k.waiting)
        BY <1>3, <3>1, <3>2, <4>1, DrainAtTheEnd
      <4>. QED BY <4>2 DEF Applied
    <3>. QED BY <3>4, <3>5, <3>6, <3>7, <3>8 DEF Lost
  <2>3. CASE a # "Applied"
    <3>1. r = [decoder |-> d, waiting |-> k.waiting, answer |-> a]
      BY <1>7, <2>3 DEF ReorderApply
    <3>2. a \in {"Duplicate"} \cup Lost /\ (d.sequence # None => d.sequence <= d.sequence)
      BY <1>2, <2>1, <2>3 DEF Taken
    <3>3. a = "Duplicate" /\ p.sequence = top => d.sequence = top
      BY <1>2, <2>1 DEF Taken
    <3>4. a = "Duplicate" /\ p.sequence = top => Near(d, top)
      <4>1. top - top \in 0..Behind
        BY <1>5
      <4>2. top # None
        BY NoneAssumption
      <4>. QED BY <3>3, <4>1, <4>2 DEF Near
    <3>5. p.sequence = top /\ p.kind = "Snapshot" => a = "Duplicate" /\ d.sequence = top
      <4>1. p.kind = "Snapshot" => a = "Duplicate"
        BY <2>1, <2>3 DEF Taken
      <4>. QED BY <3>3, <4>1
    <3>. QED BY <1>3, <3>1, <3>2, <3>3, <3>4, <3>5 DEF Lost
  <2>. QED BY <2>2, <2>3
<1>. QED BY <1>6, <1>7

LEMMA GiveKeepsClient ==
  ASSUME PayloadsFit, harness \in Harnesses, NEW top \in Nat, NEW s \in State,
         NEW k, ClientOK(k, top, s), NEW p, Sent(p, top, s)
  PROVE  Given(k, p, top, s, Give(k, p))
<1>1. CASE harness = "torture"
  BY <1>1, GiveToBuffer DEF Give
<1>2. CASE harness = "v30_torture"
  <2>1. Give(k, p) = [client |-> [k EXCEPT !.decoder = ByteApply(k.decoder, SimConfig, p)],
                      answer |-> ByteOutcome(k.decoder, SimConfig, p)]
    BY <1>2 DEF Give
  <2>2. Taken(k.decoder, p, top, s, ByteOutcome(k.decoder, SimConfig, p),
              ByteApply(k.decoder, SimConfig, p))
    BY <1>2, ByteDecoderTakes DEF ClientOK
  <2>. QED BY <1>2, <2>1, <2>2, GiveToDecoder
<1>3. CASE harness \notin {"torture", "v30_torture"}
  <2>1. Give(k, p) = [client |-> [k EXCEPT !.decoder = Apply(k.decoder, SimConfig, p)],
                      answer |-> Outcome(k.decoder, SimConfig, p)]
    BY <1>3 DEF Give
  <2>2. Taken(k.decoder, p, top, s, Outcome(k.decoder, SimConfig, p),
              Apply(k.decoder, SimConfig, p))
    BY <1>3, DecoderTakes DEF ClientOK
  <2>. QED BY <1>3, <2>1, <2>2, GiveToDecoder
<1>. QED BY <1>1, <1>2, <1>3
-----------------------------------------------------------------------------
LEMMA MovedOn ==
  ASSUME NEW top \in Nat, NEW s \in State, NEW k, ClientOK(k, top, s),
         NEW e, Moved(k, top, s, e), NEW f, Moved(e, top, s, f)
  PROVE  /\ Moved(k, top, s, f)
         /\ e.decoder.sequence = top => f.decoder.sequence = top
         /\ Near(e.decoder, top) => Near(f.decoder, top)
<1>1. /\ k.decoder.sequence \in 1..top \cup {None} /\ e.decoder.sequence \in 1..top \cup {None}
      /\ f.decoder.sequence \in 1..top \cup {None} /\ top # None
  BY NoneAssumption DEF Moved, ClientOK, DecoderOK
<1>2. Moved(k, top, s, f)
  BY <1>1 DEF Moved
<1>3. e.decoder.sequence = top => f.decoder.sequence = top
  BY <1>1 DEF Moved
<1>4. Near(e.decoder, top) => Near(f.decoder, top)
  <2>1. Behind \in Nat
    BY ReorderBoundsAssumption DEF Behind
  <2>2. e.decoder.sequence # None =>
          f.decoder.sequence # None /\ e.decoder.sequence <= f.decoder.sequence
    BY DEF Moved
  <2>. QED BY <1>1, <2>1, <2>2 DEF Near
<1>. QED BY <1>2, <1>3, <1>4

LEMMA AtTheEndIsNear ==
  ASSUME NEW top \in Nat, NEW d, d.sequence = top
  PROVE  Near(d, top)
<1>1. top - top \in 0..Behind /\ top # None
  BY ReorderBoundsAssumption, NoneAssumption DEF Behind
<1>. QED BY <1>1 DEF Near

LEMMA RecoveryIsSent ==
  ASSUME NEW top \in Nat \ {0}, NEW s \in State, NEW p, p = SnapshotPacket(top, TestSchema, s)
  PROVE  Sent(p, top, s) /\ p.sequence = top /\ p.kind = "Snapshot"
<1>1. OfRound(p, top, s) /\ top \in 1..top
  BY DEF OfRound
<1>. QED BY <1>1 DEF Sent, SnapshotPacket

\* What a packet, or several, or a recovery make of client k.
Settled(k, top, s, r) ==
  /\ r = [client |-> r.client, answer |-> r.answer]
  /\ Moved(k, top, s, r.client)
  /\ r.answer \in {"Applied", "Duplicate", "Buffered", "Recovered"}
  /\ r.answer = "Recovered" => r.client.decoder.sequence = top

\* The last snapshot brings any client to the end, whatever waits.
LEMMA CatchUp ==
  ASSUME PayloadsFit, harness \in Harnesses, NEW top \in Nat \ {0}, NEW s \in State,
         NEW k, ClientOK(k, top, s), NEW p, p = SnapshotPacket(top, TestSchema, s),
         NEW g, g = Give([k EXCEPT !.waiting = <<>>], p)
  PROVE  /\ g = [client |-> g.client, answer |-> g.answer]
         /\ Moved(k, top, s, g.client) /\ g.client.decoder.sequence = top
         /\ Near(g.client.decoder, top)
         /\ g.answer \in {"Applied", "Duplicate"}
         /\ k.decoder.sequence # top => g.answer = "Applied"
<1>. DEFINE e == [k EXCEPT !.waiting = <<>>]
<1>1. Sent(p, top, s) /\ p.sequence = top /\ p.kind = "Snapshot"
  BY RecoveryIsSent
<1>2. /\ e = [decoder |-> e.decoder, waiting |-> e.waiting,
              delayed |-> e.delayed, joined |-> e.joined]
      /\ e.decoder = k.decoder /\ e.waiting = <<>> /\ e.delayed = k.delayed /\ e.joined = k.joined
  BY DEF ClientOK
<1>3. ClientOK(e, top, s)
  BY <1>2 DEF ClientOK, MapOK
<1>. HIDE DEF e
<1>4. Given(e, p, top, s, g)
  BY <1>1, <1>3, GiveKeepsClient DEF e
<1>5. Moved(k, top, s, g.client)
  BY <1>2, <1>4 DEF Given, Moved
<1>6. g.client.decoder.sequence = top
  BY <1>1, <1>4 DEF Given
<1>. QED BY <1>1, <1>2, <1>4, <1>5, <1>6, AtTheEndIsNear DEF Given

LEMMA RecoverKeeps ==
  ASSUME PayloadsFit, harness \in Harnesses, NEW top \in Nat \ {0}, NEW s \in State,
         NEW k, ClientOK(k, top, s), harness = "chaos" => k.decoder.sequence # top,
         NEW p, p = SnapshotPacket(top, TestSchema, s)
  PROVE  Settled(k, top, s, Recover(k, p)) /\ Recover(k, p).answer = "Recovered"
<1>. DEFINE g == Give([k EXCEPT !.waiting = <<>>], p)
            r == Recover(k, p)
<1>1. /\ g = [client |-> g.client, answer |-> g.answer]
      /\ Moved(k, top, s, g.client) /\ g.client.decoder.sequence = top
      /\ g.answer \in {"Applied", "Duplicate"}
      /\ k.decoder.sequence # top => g.answer = "Applied"
  <2>1. g = Give([k EXCEPT !.waiting = <<>>], p)
    OBVIOUS
  <2>. HIDE DEF g
  <2>. QED BY <2>1, CatchUp
<1>2. r = [g EXCEPT !.answer = IF g.answer \in Accepted THEN "Recovered" ELSE "Error"]
  BY DEF Recover
<1>. HIDE DEF g, r
<1>3. r = [client |-> g.client, answer |-> "Recovered"]
  BY <1>1, <1>2 DEF Accepted
<1>. QED BY <1>1, <1>3 DEF Settled, r

LEMMA DeliverKeeps ==
  ASSUME PayloadsFit, harness \in Harnesses, NEW top \in Nat \ {0}, NEW s \in State,
         NEW k, ClientOK(k, top, s), NEW p, Sent(p, top, s),
         NEW recovery, recovery = SnapshotPacket(top, TestSchema, s)
  PROVE  /\ Settled(k, top, s, Deliver(k, p, recovery))
         /\ p.sequence = top => Near(Deliver(k, p, recovery).client.decoder, top)
<1>. DEFINE g == Give(k, p)
            r == Deliver(k, p, recovery)
<1>1. Given(k, p, top, s, g)
  BY GiveKeepsClient
<1>2. r = IF g.answer \in Lost THEN Recover(g.client, recovery)
          ELSE IF g.answer = "Rejected" THEN [g EXCEPT !.answer = "Error"] ELSE g
  BY DEF Deliver
<1>. HIDE DEF g, r
<1>3. CASE g.answer \in Lost
  <2>1. r = Recover(g.client, recovery)
    BY <1>2, <1>3
  <2>2. ClientOK(g.client, top, s) /\ (harness = "chaos" => g.client.decoder.sequence # top)
    BY <1>1, <1>3 DEF Given, Moved
  <2>3. Settled(g.client, top, s, r) /\ r.answer = "Recovered"
    BY <2>1, <2>2, RecoverKeeps
  <2>4. Moved(k, top, s, g.client) /\ Moved(g.client, top, s, r.client)
    BY <1>1, <2>3 DEF Given, Settled
  <2>5. Moved(k, top, s, r.client)
    BY <2>4, MovedOn
  <2>6. Near(r.client.decoder, top)
    BY <2>3, AtTheEndIsNear DEF Settled
  <2>. QED BY <2>3, <2>5, <2>6 DEF Settled, r
<1>4. CASE g.answer \notin Lost
  <2>1. g.answer \in {"Applied", "Duplicate", "Buffered"}
    BY <1>1, <1>4 DEF Given
  <2>2. r = g
    BY <1>2, <1>4, <2>1
  <2>. QED BY <1>1, <2>1, <2>2 DEF Given, Settled, r
<1>. QED BY <1>3, <1>4
-----------------------------------------------------------------------------
(***************************************************************************)
(* Several packets, one after the other.                                   *)
(***************************************************************************)
DeliverStart(k) == [client |-> k.client, answer |-> "Applied"]
DeliverStep(k, r, p) ==
  LET next == Deliver(r.client, p, k.recovery)
  IN  IF r.answer \in {"Error", "Recovered"} /\ next.answer # "Error"
      THEN [next EXCEPT !.answer = r.answer] ELSE next

Deliveries == INSTANCE FoldTheorems WITH Start <- DeliverStart, Step <- DeliverStep

DeliveredUpTo(i, s, n) == Deliveries!Fold(i, SubSeq(s, 1, n))

LEMMA DeliveriesInTurn ==
  ASSUME NEW P, NEW s \in Seq(P), NEW i
  PROVE  /\ DeliveredUpTo(i, s, 0) = [client |-> i.client, answer |-> "Applied"]
         /\ \A n \in Nat : n + 1 <= Len(s) =>
              DeliveredUpTo(i, s, n + 1) = DeliverStep(i, DeliveredUpTo(i, s, n), s[n + 1])
         /\ DeliverAll(i.client, s, i.recovery) = DeliveredUpTo(i, s, Len(s))
<1>1. SubSeq(s, 1, 0) = <<>> /\ SubSeq(s, 1, Len(s)) = s
  OBVIOUS
<1>2. DeliveredUpTo(i, s, 0) = [client |-> i.client, answer |-> "Applied"]
  BY <1>1, Deliveries!FoldEmpty DEF DeliveredUpTo, DeliverStart
<1>3. ASSUME NEW n \in Nat, n + 1 <= Len(s)
      PROVE  DeliveredUpTo(i, s, n + 1) = DeliverStep(i, DeliveredUpTo(i, s, n), s[n + 1])
  <2>1. /\ SubSeq(s, 1, n) \in Seq(P) /\ s[n + 1] \in P
        /\ SubSeq(s, 1, n + 1) = Append(SubSeq(s, 1, n), s[n + 1])
    BY <1>3, Deliveries!PrefixGrows
  <2>2. Deliveries!Fold(i, Append(SubSeq(s, 1, n), s[n + 1])) =
          DeliverStep(i, Deliveries!Fold(i, SubSeq(s, 1, n)), s[n + 1])
    BY <2>1, Deliveries!FoldAppend
  <2>. QED BY <2>1, <2>2 DEF DeliveredUpTo
<1>4. DeliverAll(i.client, s, i.recovery) = Deliveries!Fold(i, s)
  BY DEF DeliverAll, DeliverStart, DeliverStep, Deliveries!Fold, FoldLeft, Deliveries!FoldLeft,
         MapThenFoldSet, Deliveries!MapThenFoldSet, Max, Deliveries!Max
<1>. QED BY <1>1, <1>2, <1>3, <1>4 DEF DeliveredUpTo

LEMMA DeliverStepKeeps ==
  ASSUME PayloadsFit, harness \in Harnesses, NEW top \in Nat \ {0}, NEW s \in State,
         NEW k, ClientOK(k.client, top, s), k.recovery = SnapshotPacket(top, TestSchema, s),
         NEW r, Settled(k.client, top, s, r), NEW p, Sent(p, top, s),
         NEW q, q = DeliverStep(k, r, p)
  PROVE  /\ Settled(k.client, top, s, q)
         /\ p.sequence = top \/ Near(r.client.decoder, top) => Near(q.client.decoder, top)
<1>. DEFINE next == Deliver(r.client, p, k.recovery)
<1>1. ClientOK(r.client, top, s)
  BY DEF Settled, Moved
<1>2. /\ Settled(r.client, top, s, next)
      /\ p.sequence = top => Near(next.client.decoder, top)
  BY <1>1, DeliverKeeps
<1>3. q = IF r.answer \in {"Error", "Recovered"} /\ next.answer # "Error"
          THEN [next EXCEPT !.answer = r.answer] ELSE next
  BY DEF DeliverStep
<1>. HIDE DEF next
<1>4. /\ Moved(k.client, top, s, next.client)
      /\ r.client.decoder.sequence = top => next.client.decoder.sequence = top
      /\ Near(r.client.decoder, top) => Near(next.client.decoder, top)
  BY <1>2, MovedOn DEF Settled
<1>5. CASE r.answer = "Recovered"
  <2>1. q = [client |-> next.client, answer |-> "Recovered"]
    BY <1>2, <1>3, <1>5 DEF Settled
  <2>. QED BY <1>2, <1>4, <1>5, <2>1 DEF Settled
<1>6. CASE r.answer # "Recovered"
  <2>1. q = next
    BY <1>3, <1>6 DEF Settled
  <2>. QED BY <1>2, <1>4, <2>1 DEF Settled
<1>. QED BY <1>5, <1>6

LEMMA DeliverAllKeeps ==
  ASSUME PayloadsFit, harness \in Harnesses, NEW top \in Nat \ {0}, NEW s \in State,
         NEW k, ClientOK(k, top, s),
         NEW P, \A p \in P : Sent(p, top, s), NEW packets \in Seq(P),
         NEW recovery, recovery = SnapshotPacket(top, TestSchema, s),
         NEW r, r = DeliverAll(k, packets, recovery)
  PROVE  /\ Settled(k, top, s, r)
         /\ packets # <<>> /\ packets[1].sequence = top => Near(r.client.decoder, top)
<1>. DEFINE i == [client |-> k, recovery |-> recovery]
            after(n) == DeliveredUpTo(i, packets, n)
            Good(n) == /\ Settled(k, top, s, after(n))
                       /\ n > 0 /\ packets[1].sequence = top => Near(after(n).client.decoder, top)
            T == {n \in Nat : n <= Len(packets) => Good(n)}
<1>0. i.client = k /\ i.recovery = recovery
  OBVIOUS
<1>. HIDE DEF i
<1>1. r = after(Len(packets))
  BY <1>0, DeliveriesInTurn
<1>2. 0 \in T
  <2>2. after(0) = [client |-> k, answer |-> "Applied"]
    BY <1>0, DeliveriesInTurn
  <2>. HIDE DEF after
  <2>3. k.decoder.sequence \in 1..top \cup {None}
    BY DEF ClientOK, DecoderOK
  <2>4. Settled(k, top, s, after(0))
    BY <2>2, <2>3 DEF Settled, Moved
  <2>. QED BY <2>4
<1>3. ASSUME NEW n \in T PROVE n + 1 \in T
  <2>. SUFFICES ASSUME n + 1 <= Len(packets) PROVE Good(n + 1)
    OBVIOUS
  <2>1. Sent(packets[n + 1], top, s)
    OBVIOUS
  <2>2. after(n + 1) = DeliverStep(i, after(n), packets[n + 1])
    BY DeliveriesInTurn
  <2>3. n \in Nat /\ n <= Len(packets) /\ Good(n)
    OBVIOUS
  <2>. HIDE DEF after
  <2>4. /\ Settled(k, top, s, after(n + 1))
        /\ packets[n + 1].sequence = top \/ Near(after(n).client.decoder, top) =>
             Near(after(n + 1).client.decoder, top)
    <3>1. ClientOK(i.client, top, s) /\ i.recovery = SnapshotPacket(top, TestSchema, s)
          /\ Settled(i.client, top, s, after(n))
      BY <1>0, <2>3
    <3>. HIDE DEF Good, T
    <3>. QED BY <1>0, <2>1, <2>2, <3>1, DeliverStepKeeps
  <2>5. n > 0 \/ n + 1 = 1
    BY <2>3
  <2>. QED BY <2>3, <2>4, <2>5
<1>4. T = Nat
  <2>. HIDE DEF T
  <2>1. T \in SUBSET Nat
    BY DEF T
  <2>. QED BY <1>2, <1>3, <2>1, Deliveries!SetInduction
<1>5. Good(Len(packets)) /\ (packets # <<>> => Len(packets) > 0)
  <2>1. Len(packets) \in T
    BY <1>4
  <2>. QED BY <2>1
<1>. QED BY <1>1, <1>5

GivenStart(k) == k
GivenStep(k, r, p) ==
  LET next == Give(r.client, p)
  IN  [next EXCEPT !.answer = IF @ = "Rejected" THEN "Error" ELSE r.answer]

Gifts == INSTANCE FoldTheorems WITH Start <- GivenStart, Step <- GivenStep

GivenUpTo(m, s, n) == Gifts!Fold(m, SubSeq(s, 1, n))

LEMMA GiftsInTurn ==
  ASSUME NEW P, NEW s \in Seq(P), NEW m
  PROVE  /\ GivenUpTo(m, s, 0) = m
         /\ \A n \in Nat : n + 1 <= Len(s) =>
              GivenUpTo(m, s, n + 1) = GivenStep(m, GivenUpTo(m, s, n), s[n + 1])
         /\ GiveAll(m, s) = GivenUpTo(m, s, Len(s))
<1>1. SubSeq(s, 1, 0) = <<>> /\ SubSeq(s, 1, Len(s)) = s
  OBVIOUS
<1>2. GivenUpTo(m, s, 0) = m
  BY <1>1, Gifts!FoldEmpty DEF GivenUpTo, GivenStart
<1>3. ASSUME NEW n \in Nat, n + 1 <= Len(s)
      PROVE  GivenUpTo(m, s, n + 1) = GivenStep(m, GivenUpTo(m, s, n), s[n + 1])
  <2>1. /\ SubSeq(s, 1, n) \in Seq(P) /\ s[n + 1] \in P
        /\ SubSeq(s, 1, n + 1) = Append(SubSeq(s, 1, n), s[n + 1])
    BY <1>3, Gifts!PrefixGrows
  <2>2. Gifts!Fold(m, Append(SubSeq(s, 1, n), s[n + 1])) =
          GivenStep(m, Gifts!Fold(m, SubSeq(s, 1, n)), s[n + 1])
    BY <2>1, Gifts!FoldAppend
  <2>. QED BY <2>1, <2>2 DEF GivenUpTo
<1>4. GiveAll(m, s) = Gifts!Fold(m, s)
  BY DEF GiveAll, GivenStart, GivenStep, Gifts!Fold, FoldLeft, Gifts!FoldLeft,
         MapThenFoldSet, Gifts!MapThenFoldSet, Max, Gifts!Max
<1>. QED BY <1>1, <1>2, <1>3, <1>4 DEF GivenUpTo

\* The client moves on, the answer stays.
LEMMA GiveAllKeeps ==
  ASSUME PayloadsFit, harness \in Harnesses, NEW top \in Nat \ {0}, NEW s \in State,
         NEW m, m = [client |-> m.client, answer |-> m.answer], ClientOK(m.client, top, s),
         NEW P, \A p \in P : Sent(p, top, s), NEW packets \in Seq(P),
         NEW r, r = GiveAll(m, packets)
  PROVE  /\ r = [client |-> r.client, answer |-> m.answer]
         /\ Moved(m.client, top, s, r.client)
<1>. DEFINE after(n) == GivenUpTo(m, packets, n)
            Good(n) == /\ after(n) = [client |-> after(n).client, answer |-> m.answer]
                       /\ Moved(m.client, top, s, after(n).client)
            T == {n \in Nat : n <= Len(packets) => Good(n)}
<1>1. r = after(Len(packets))
  BY GiftsInTurn
<1>2. 0 \in T
  <2>2. after(0) = m
    BY GiftsInTurn
  <2>. HIDE DEF after
  <2>3. m.client.decoder.sequence \in 1..top \cup {None}
    BY DEF ClientOK, DecoderOK
  <2>4. Good(0)
    BY <2>2, <2>3 DEF Moved
  <2>. QED BY <2>4
<1>3. ASSUME NEW n \in T PROVE n + 1 \in T
  <2>. SUFFICES ASSUME n + 1 <= Len(packets) PROVE Good(n + 1)
    OBVIOUS
  <2>1. Sent(packets[n + 1], top, s)
    OBVIOUS
  <2>2. after(n + 1) = GivenStep(m, after(n), packets[n + 1])
    BY GiftsInTurn
  <2>3. n \in Nat /\ n <= Len(packets) /\ Good(n)
    OBVIOUS
  <2>. HIDE DEF after
  <2>. DEFINE g == Give(after(n).client, packets[n + 1])
  <2>4. Given(after(n).client, packets[n + 1], top, s, g)
    BY <2>1, <2>3, GiveKeepsClient DEF Moved
  <2>5. after(n + 1) = [g EXCEPT !.answer = IF g.answer = "Rejected" THEN "Error" ELSE m.answer]
    BY <2>2, <2>3 DEF GivenStep
  <2>. HIDE DEF g
  <2>6. after(n + 1) = [client |-> g.client, answer |-> m.answer]
    BY <2>4, <2>5 DEF Given, Lost
  <2>7. Moved(m.client, top, s, g.client)
    BY <2>3, <2>4, MovedOn DEF Given
  <2>. QED BY <2>6, <2>7
<1>4. T = Nat
  <2>. HIDE DEF T
  <2>1. T \in SUBSET Nat
    BY DEF T
  <2>. QED BY <1>2, <1>3, <2>1, Gifts!SetInduction
<1>5. Good(Len(packets))
  <2>1. Len(packets) \in Nat /\ Len(packets) <= Len(packets)
    OBVIOUS
  <2>. QED BY <1>4, <2>1
<1>. QED BY <1>1, <1>5
-----------------------------------------------------------------------------
(***************************************************************************)
(* What becomes of a client in a round.                                    *)
(***************************************************************************)
LEMMA InFrontOf ==
  ASSUME NEW P, NEW p \in P, NEW x \in Seq(P), NEW y \in Seq(P), NEW z, z = <<p>> \o x \o y
  PROVE  z \in Seq(P) /\ z # <<>> /\ z[1] = p
OBVIOUS

Answered == {"Applied", "Duplicate", "Buffered", "Recovered"}

\* A client that is reached is near the publisher, or v30_torture's and lost.
Reached(k, top, s, m) ==
  /\ m = [client |-> m.client, answer |-> m.answer]
  /\ ClientOK(m.client, top, s)
  /\ m.client.joined = k.joined /\ m.client.delayed \in {None, k.delayed}
  /\ m.answer \in Answered \cup Lost
  /\ m.answer \in Answered => Near(m.client.decoder, top)
  /\ m.answer = "Recovered" => m.client.decoder.sequence = top
  /\ m.answer \in Lost => harness = "v30_torture"

LEMMA ServeReaches ==
  ASSUME PayloadsFit, harness \in Harnesses, NEW top \in Nat \ {0}, NEW s \in State,
         NEW k, ClientOK(k, top, s), NEW p, Sent(p, top, s), p.sequence = top,
         NEW recovery, recovery = SnapshotPacket(top, TestSchema, s), NEW repeat \in BOOLEAN
  PROVE  Reached(k, top, s, Serve(k, p, repeat, recovery))
<1>. DEFINE again == IF repeat THEN <<p>> ELSE <<>>
            late  == IF k.delayed = None THEN <<>> ELSE <<k.delayed>>
            ready == [k EXCEPT !.delayed = None]
            P == {q \in {p, k.delayed} : Sent(q, top, s)}
            m == Serve(k, p, repeat, recovery)
<1>1. /\ m = CASE harness = "multi_client" ->
                    DeliverAll(ready, <<p>> \o again \o late, recovery)
                [] harness = "torture"     ->
                    DeliverAll(ready, <<p>> \o late \o again, recovery)
                [] harness = "chaos"       -> GiveAll(Deliver(k, p, recovery), again)
                [] harness = "v30_torture" -> GiveAll(Give(ready, p), again \o late)
  BY DEF Serve
<1>2. /\ \A q \in P : Sent(q, top, s)
      /\ p \in P /\ again \in Seq(P) /\ late \in Seq(P) /\ again \o late \in Seq(P)
  <2>1. p \in P /\ (k.delayed # None => k.delayed \in P)
    BY DEF ClientOK
  <2>. HIDE DEF P
  <2>2. again \in Seq(P) /\ late \in Seq(P)
    BY <2>1
  <2>. HIDE DEF again, late
  <2>3. again \o late \in Seq(P)
    BY <2>2
  <2>. QED BY <2>1, <2>2, <2>3 DEF P
<1>3. /\ ready = [decoder |-> k.decoder, waiting |-> k.waiting,
                  delayed |-> None, joined |-> k.joined]
      /\ ClientOK(ready, top, s) /\ ready.joined = k.joined /\ ready.delayed = None
  BY DEF ClientOK
<1>. HIDE DEF P, ready, again, late, m
<1>4. ASSUME NEW packets, packets \in Seq(P), packets # <<>>, packets[1] = p,
             m = DeliverAll(ready, packets, recovery)
      PROVE  Reached(k, top, s, m)
  <2>1. Settled(ready, top, s, m) /\ Near(m.client.decoder, top)
    BY <1>2, <1>3, <1>4, DeliverAllKeeps
  <2>. QED BY <1>3, <2>1 DEF Settled, Moved, Reached, Answered, Lost
<1>5. CASE harness = "multi_client"
  <2>. DEFINE packets == <<p>> \o again \o late
  <2>1. packets \in Seq(P) /\ packets # <<>> /\ packets[1] = p
    BY <1>2, InFrontOf
  <2>. QED BY <1>1, <1>4, <1>5, <2>1 DEF m
<1>6. CASE harness = "torture"
  <2>. DEFINE packets == <<p>> \o late \o again
  <2>1. packets \in Seq(P) /\ packets # <<>> /\ packets[1] = p
    BY <1>2, InFrontOf
  <2>. QED BY <1>1, <1>4, <1>6, <2>1 DEF m
<1>7. ASSUME NEW g, Reached(k, top, s, g), NEW packets \in Seq(P), m = GiveAll(g, packets)
      PROVE  Reached(k, top, s, m)
  <2>1. ClientOK(g.client, top, s) /\ g = [client |-> g.client, answer |-> g.answer]
    BY <1>7 DEF Reached
  <2>2. m = [client |-> m.client, answer |-> g.answer] /\ Moved(g.client, top, s, m.client)
    BY <1>2, <1>7, <2>1, GiveAllKeeps
  <2>3. Moved(g.client, top, s, g.client)
    BY <2>1 DEF ClientOK, DecoderOK, Moved
  <2>4. /\ g.client.decoder.sequence = top => m.client.decoder.sequence = top
        /\ Near(g.client.decoder, top) => Near(m.client.decoder, top)
    BY <2>1, <2>2, <2>3, MovedOn
  <2>. QED BY <1>7, <2>2, <2>4 DEF Reached, Moved
<1>8. CASE harness = "chaos"
  <2>. DEFINE g == Deliver(k, p, recovery)
  <2>1. Settled(k, top, s, g) /\ Near(g.client.decoder, top)
    BY DeliverKeeps
  <2>2. m = GiveAll(g, again)
    BY <1>1, <1>8 DEF m
  <2>. HIDE DEF g
  <2>3. Reached(k, top, s, g)
    BY <2>1 DEF Settled, Moved, Reached, Answered, Lost
  <2>. QED BY <1>2, <1>7, <2>2, <2>3 DEF m
<1>9. CASE harness = "v30_torture"
  <2>. DEFINE g == Give(ready, p)
              rest == again \o late
  <2>1. Given(ready, p, top, s, g)
    BY <1>3, GiveKeepsClient
  <2>2. m = GiveAll(g, rest)
    BY <1>1, <1>9 DEF m
  <2>3. rest \in Seq(P)
    BY <1>2
  <2>. HIDE DEF g, rest
  <2>4. Reached(k, top, s, g)
    BY <1>3, <1>9, <2>1 DEF Given, Moved, Reached, Answered, Lost
  <2>. QED BY <1>7, <2>2, <2>3, <2>4 DEF m
<1>. QED BY <1>5, <1>6, <1>8, <1>9 DEF Harnesses, m

\* The packets of a round.
LEMMA RoundPacketsAreSent ==
  ASSUME round \in Nat, state \in State, NEW s \in State, NEW p \in RoundPackets(s)
  PROVE  /\ Sent(p, round + 1, s) /\ p.sequence = round + 1
         /\ p.kind \in {"Snapshot", "Delta"}
         /\ p.kind = "Delta" => p.base_hash = Hash(state)
         /\ round = 0 => p.kind = "Snapshot"
<1>1. CASE p = SnapshotPacket(round + 1, TestSchema, s)
  <2>1. Sent(p, round + 1, s) /\ p.sequence = round + 1 /\ p.kind = "Snapshot"
    BY <1>1, RecoveryIsSent
  <2>. QED BY <2>1
<1>2. CASE p # SnapshotPacket(round + 1, TestSchema, s)
  <2>1. PICK d \in Deltas(state, s) : p = ByteDeltaPacket(round + 1, TestSchema, state, s, d)
    BY <1>2 DEF RoundPackets
  <2>2. round # 0
    BY <1>2 DEF RoundPackets
  <2>3. OfRound(p, round + 1, s)
    BY <2>1, <2>2 DEF OfRound
  <2>4. round + 1 \in 1..(round + 1)
    OBVIOUS
  <2>5. p.sequence = round + 1 /\ p.kind = "Delta" /\ p.base_hash = Hash(state)
    BY <2>1 DEF ByteDeltaPacket, DeltaPacket
  <2>. QED BY <2>2, <2>3, <2>4, <2>5 DEF Sent
<1>. QED BY <1>1, <1>2

\* A client k after its part of a round.
Resolved(k, top, s, m) ==
  /\ m = [client |-> m.client, answer |-> m.answer]
  /\ ClientOK(m.client, top, s)
  /\ m.client.joined \/ m.client.delayed = None
  /\ HeldBackFits(m.client, top)
  /\ m.answer \in Answered \cup {"Missed"}
  /\ m.answer \in Answered => Near(m.client.decoder, top)
  /\ m.answer = "Recovered" => m.client.decoder.sequence = top

\* What was held back before this round is not of this round.
LEMMA OlderIsHeldBack ==
  ASSUME PayloadsFit, round \in Nat, state \in State, NEW k, ClientOK(k, round, state),
         NEW e, e.delayed \in {None, k.delayed}
  PROVE  HeldBackFits(e, round + 1)
<1>1. k.delayed # None => k.delayed.sequence \in 1..round
  BY SentPackets DEF ClientOK
<1>2. round + 1 \notin 1..round
  OBVIOUS
<1>. QED BY <1>1, <1>2 DEF HeldBackFits

LEMMA MeetResolves ==
  ASSUME PayloadsFit, harness \in Harnesses, round \in Nat, state \in State,
         NEW k, ClientOK(k, round, state), k.joined \/ k.delayed = None,
         NEW s \in State, NEW p \in RoundPackets(s), NEW fate,
         NEW recovery, recovery = SnapshotPacket(round + 1, TestSchema, s),
         NEW m, m = Shared(Meet(k, p, fate, recovery), recovery)
  PROVE  Resolved(k, round + 1, s, m)
<1>. DEFINE top == round + 1
            joined == [k EXCEPT !.joined = TRUE]
            met == Meet(k, p, fate, recovery)
<1>1. top \in Nat \ {0}
  OBVIOUS
<1>2. ClientOK(k, top, s) /\ k.decoder.sequence # top
  BY ClientStays
<1>3. /\ Sent(p, top, s) /\ p.sequence = top
      /\ p.kind = "Delta" => p.base_hash = Hash(state)
  BY RoundPacketsAreSent
<1>5. k.decoder.sequence = top - 1 => k.decoder.state = state
  BY DEF ClientOK, DecoderOK
<1>5a. joined = [decoder |-> k.decoder, waiting |-> k.waiting,
                 delayed |-> k.delayed, joined |-> TRUE]
  <2>1. \A b : [k EXCEPT !.joined = b] = [decoder |-> k.decoder, waiting |-> k.waiting,
                                          delayed |-> k.delayed, joined |-> b]
    BY DEF ClientOK
  <2>. QED BY <2>1, Zenon
<1>. HIDE DEF joined
<1>5b. joined.joined
  BY <1>5a
<1>6. /\ joined = [decoder |-> k.decoder, waiting |-> k.waiting,
                   delayed |-> k.delayed, joined |-> joined.joined]
      /\ ClientOK(joined, top, s)
  <2>1. joined.joined \in BOOLEAN
    BY <1>5b
  <2>2. joined = [decoder |-> k.decoder, waiting |-> k.waiting,
                  delayed |-> k.delayed, joined |-> joined.joined]
    BY <1>5a
  <2>. QED BY <1>2, <2>1, <2>2 DEF ClientOK
<1>7. m = IF met.answer \in Lost THEN Recover(met.client, recovery) ELSE met
  BY DEF Shared
<1>8. /\ Sent(recovery, top, s) /\ recovery.sequence = top /\ recovery.kind = "Snapshot"
  BY <1>1, RecoveryIsSent
<1>. SUFFICES Resolved(k, top, s, m)
  OBVIOUS
<1>. HIDE DEF top
<1>9. ASSUME NEW e, e.delayed \in {None, k.delayed} PROVE HeldBackFits(e, top)
  BY <1>9, OlderIsHeldBack DEF top
\* Whatever answer is shared, it is enough that the client is in order.
<1>. HIDE DEF met
<1>10. ASSUME met = [client |-> met.client, answer |-> met.answer],
              ClientOK(met.client, top, s), met.client.joined, met.client.delayed \in {None, k.delayed},
              met.answer \in Answered \cup Lost,
              met.answer \in Answered => Near(met.client.decoder, top),
              met.answer = "Recovered" => met.client.decoder.sequence = top,
              met.answer \in Lost /\ harness = "chaos" => met.client.decoder.sequence # top
       PROVE  Resolved(k, top, s, m)
  <2>1. CASE met.answer \in Lost
    <3>1. m = Recover(met.client, recovery)
      BY <1>7, <2>1
    <3>2. Settled(met.client, top, s, m) /\ m.answer = "Recovered"
      BY <1>1, <1>10, <2>1, <3>1, RecoverKeeps DEF top
    <3>3. Near(m.client.decoder, top)
      BY <1>1, <3>2, AtTheEndIsNear DEF Settled
    <3>4. HeldBackFits(m.client, top)
      BY <1>9, <1>10, <3>2 DEF Settled, Moved
    <3>. QED BY <1>10, <3>2, <3>3, <3>4 DEF Settled, Moved, Resolved, Answered
  <2>2. CASE met.answer \notin Lost
    <3>1. m = met
      BY <1>7, <2>2
    <3>. QED BY <1>9, <1>10, <2>2, <3>1 DEF Resolved
  <2>. QED BY <2>1, <2>2
<1>. USE DEF met
<1>11. CASE fate = "wait"
  <2>1. m = [client |-> k, answer |-> "Missed"]
    BY <1>7, <1>11 DEF Meet, joined, Lost
  <2>. QED BY <1>2, <1>9, <2>1 DEF Resolved, Answered
<1>12. CASE fate = "drop"
  <2>1. m = [client |-> joined, answer |-> "Missed"]
    BY <1>7, <1>12 DEF Meet, joined, Lost
  <2>. QED BY <1>5b, <1>6, <1>9, <2>1 DEF Resolved, Answered
<1>13. CASE fate = "hold"
  <2>1. m = [client |-> [joined EXCEPT !.delayed = p], answer |-> "Missed"]
    BY <1>7, <1>13 DEF Meet, joined, Lost
  <2>2. m.client = [decoder |-> k.decoder, waiting |-> k.waiting,
                    delayed |-> p, joined |-> joined.joined]
    BY <1>6, <2>1
  <2>3. ClientOK(m.client, top, s)
    BY <1>3, <1>6, <2>2 DEF ClientOK
  <2>4. HeldBackFits(m.client, top)
    BY <1>3, <1>5, <2>2 DEF HeldBackFits, top
  <2>. QED BY <1>5b, <2>1, <2>2, <2>3, <2>4 DEF Resolved, Answered
<1>14. CASE fate = "corrupt" \/ (fate = "join" /\ harness # "torture")
  <2>1. met = [client |-> joined, answer |-> "NeedRecovery"]
    BY <1>14 DEF Meet, joined
  <2>. HIDE DEF met
  <2>2. met.client = joined /\ met.answer = "NeedRecovery"
        /\ met = [client |-> met.client, answer |-> met.answer]
    BY <2>1
  <2>. QED BY <1>2, <1>5b, <1>6, <1>10, <2>2 DEF Answered, Lost
<1>15. CASE fate = "join" /\ harness = "torture"
  <2>1. met = Give(joined, recovery)
    BY <1>15 DEF Meet, joined
  <2>. HIDE DEF met
  <2>2. Given(joined, recovery, top, s, met)
    BY <1>1, <1>6, <1>8, <2>1, GiveKeepsClient
  <2>3. /\ met.answer \in {"Applied", "Duplicate"} /\ Near(met.client.decoder, top)
        /\ Moved(joined, top, s, met.client) /\ met = [client |-> met.client, answer |-> met.answer]
    BY <1>8, <2>2 DEF Given
  <2>. QED BY <1>5b, <1>6, <1>10, <2>3 DEF Moved, Answered, Lost
<1>16. CASE fate \notin {"wait", "drop", "hold", "corrupt", "join"}
  <2>1. met = Serve(joined, p, fate = "repeat", recovery)
    BY <1>16 DEF Meet, joined
  <2>. HIDE DEF met
  <2>2. (fate = "repeat") \in BOOLEAN
    OBVIOUS
  <2>3. Reached(joined, top, s, met)
    BY <1>1, <1>3, <1>6, <2>1, <2>2, ServeReaches DEF top
  <2>4. met.client.joined = TRUE
    <3>1. joined.joined = TRUE
      BY <1>5a
    <3>. QED BY <2>3, <3>1 DEF Reached
  <2>5. /\ met = [client |-> met.client, answer |-> met.answer] /\ ClientOK(met.client, top, s)
        /\ met.client.delayed \in {None, k.delayed} /\ met.answer \in Answered \cup Lost
        /\ met.answer \in Answered => Near(met.client.decoder, top)
        /\ met.answer = "Recovered" => met.client.decoder.sequence = top
        /\ met.answer \in Lost /\ harness = "chaos" => met.client.decoder.sequence # top
    BY <1>6, <2>3 DEF Reached
  <2>6. met.client.joined
    BY <2>4
  <2>. QED BY <1>10, <2>5, <2>6
<1>. QED BY <1>11, <1>12, <1>13, <1>14, <1>15, <1>16
-----------------------------------------------------------------------------
(***************************************************************************)
(* The steps of a simulation.                                              *)
(***************************************************************************)
LEMMA SimInvariantAgain ==
  ASSUME harness \in Harnesses, harness' = harness, round' \in Nat, state' \in State,
         DOMAIN clients' = SimClients,
         \A c \in SimClients : /\ ClientOK(clients'[c], round', state')
                               /\ clients'[c].joined \/ clients'[c].delayed = None
                               /\ HeldBackFits(clients'[c], round'),
         served' \subseteq SimClients, \A c \in served' : Near(clients'[c].decoder, round'),
         recovered' \subseteq served',
         \A c \in recovered' : clients'[c].decoder.sequence = round',
         AllConverge'
  PROVE  SimInvariant'
<1>1. \A k, top, s : ClientOK(k, top, s) = ClientOK(k, top, s)'
  BY DEF ClientOK, DecoderOK, MapOK
<1>2. \A c \in SimClients : ClientOK(clients[c], round, state)'
  BY DEF ClientOK, DecoderOK, MapOK
<1>3. \A c \in served' : Near(clients[c].decoder, round)'
  BY DEF Near, Behind
<1>. QED BY <1>2, <1>3 DEF SimInvariant

LEMMA InitSim ==
  ASSUME SimInit
  PROVE  SimInvariant
<1>1. ASSUME NEW c \in SimClients
      PROVE  ClientOK(clients[c], round, state) /\ clients[c].delayed = None
  BY NewClientOK DEF SimInit
<1>2. ASSUME NEW c \in SimClients PROVE HeldBackFits(clients[c], round)
  BY <1>1 DEF HeldBackFits
<1>. QED BY <1>1, <1>2 DEF SimInit, SimInvariant, AllConverge

LEMMA RoundKeeps ==
  ASSUME PayloadsFit, SimInvariant, NEW s \in State, Round(s)
  PROVE  SimInvariant'
<1>1. /\ harness \in Harnesses /\ harness' = harness /\ round \in Nat /\ state \in State
      /\ phase = "running" /\ round' = round + 1 /\ state' = s
  BY DEF SimInvariant, Round, Publish
<1>2. PICK p \in RoundPackets(s) : \E fate :
        LET met == [c \in SimClients |->
                      Shared(Meet(clients[c], p, fate[c], Recovery(s)), Recovery(s))]
        IN  /\ clients' = [c \in SimClients |-> met[c].client]
            /\ served' = {c \in SimClients : met[c].answer # "Missed"}
            /\ recovered' = {c \in SimClients : met[c].answer = "Recovered"}
            /\ phase' = IF \E c \in SimClients : met[c].answer \in {"Error", "Rejected"}
                        THEN "failed" ELSE "running"
  BY DEF Round
<1>2a. PICK fate :
        LET met == [c \in SimClients |->
                      Shared(Meet(clients[c], p, fate[c], Recovery(s)), Recovery(s))]
        IN  /\ clients' = [c \in SimClients |-> met[c].client]
            /\ served' = {c \in SimClients : met[c].answer # "Missed"}
            /\ recovered' = {c \in SimClients : met[c].answer = "Recovered"}
            /\ phase' = IF \E c \in SimClients : met[c].answer \in {"Error", "Rejected"}
                        THEN "failed" ELSE "running"
  BY <1>2
<1>. DEFINE met(c) == Shared(Meet(clients[c], p, fate[c], Recovery(s)), Recovery(s))
<1>3. ASSUME NEW c \in SimClients PROVE Resolved(clients[c], round + 1, s, met(c))
  BY <1>1, MeetResolves DEF SimInvariant, Recovery
<1>. HIDE DEF met
<1>4. /\ clients' = [c \in SimClients |-> met(c).client]
      /\ served' = {c \in SimClients : met(c).answer # "Missed"}
      /\ recovered' = {c \in SimClients : met(c).answer = "Recovered"}
      /\ phase' = IF \E c \in SimClients : met(c).answer \in {"Error", "Rejected"}
                  THEN "failed" ELSE "running"
  BY <1>2a DEF met
<1>5. \A c \in SimClients : met(c).answer \in Answered \cup {"Missed"}
  BY <1>3 DEF Resolved
<1>6. phase' = "running"
  BY <1>4, <1>5 DEF Answered
<1>7. /\ DOMAIN clients' = SimClients
      /\ \A c \in SimClients : /\ ClientOK(clients'[c], round', state')
                               /\ clients'[c].joined \/ clients'[c].delayed = None
                               /\ HeldBackFits(clients'[c], round')
  BY <1>1, <1>3, <1>4 DEF Resolved
<1>8. /\ served' \subseteq SimClients /\ \A c \in served' : Near(clients'[c].decoder, round')
      /\ recovered' \subseteq served' /\ \A c \in recovered' : clients'[c].decoder.sequence = round'
  BY <1>1, <1>3, <1>4, <1>5 DEF Resolved, Answered
<1>. QED BY <1>1, <1>6, <1>7, <1>8, SimInvariantAgain DEF AllConverge

LEMMA OutageKeeps ==
  ASSUME PayloadsFit, SimInvariant, NEW s \in State, Outage(s)
  PROVE  SimInvariant'
<1>1. /\ harness \in Harnesses /\ harness' = harness /\ round \in Nat /\ state \in State
      /\ round' = round + 1 /\ state' = s /\ clients' = clients
      /\ served' = {} /\ recovered' = {} /\ phase' = "running" /\ DOMAIN clients = SimClients
  BY DEF SimInvariant, Outage, Publish
<1>2. ASSUME NEW c \in SimClients
      PROVE  /\ ClientOK(clients[c], round + 1, s)
             /\ clients[c].joined \/ clients[c].delayed = None
             /\ HeldBackFits(clients[c], round + 1)
  BY <1>1, ClientStays, OlderIsHeldBack DEF SimInvariant
<1>. QED BY <1>1, <1>2, SimInvariantAgain DEF AllConverge

LEMMA StormRecoveryKeeps ==
  ASSUME PayloadsFit, SimInvariant, NEW s \in State, StormRecovery(s)
  PROVE  SimInvariant'
<1>. DEFINE g(c) == Give([clients[c] EXCEPT !.waiting = <<>>], Recovery(s))
<1>1. /\ harness \in Harnesses /\ harness' = harness /\ round \in Nat /\ state \in State
      /\ round' = round + 1 /\ state' = s /\ round + 1 \in Nat \ {0}
      /\ clients' = [c \in SimClients |-> IF clients[c].joined THEN g(c).client ELSE clients[c]]
      /\ served' = {c \in SimClients : clients[c].joined} /\ recovered' = served'
      /\ phase' = "running"
  BY DEF SimInvariant, StormRecovery, Publish
<1>2. ASSUME NEW c \in SimClients
      PROVE  /\ ClientOK(clients[c], round + 1, s)
             /\ clients[c].joined \/ clients[c].delayed = None
             /\ HeldBackFits(clients[c], round + 1)
  BY <1>1, ClientStays, OlderIsHeldBack DEF SimInvariant
<1>3. ASSUME NEW c \in SimClients
      PROVE  /\ Moved(clients[c], round + 1, s, g(c).client)
             /\ g(c).client.decoder.sequence = round + 1 /\ Near(g(c).client.decoder, round + 1)
             /\ HeldBackFits(g(c).client, round + 1)
  <2>. DEFINE after == g(c)
              top == round + 1
              p == SnapshotPacket(top, TestSchema, s)
  <2>0. /\ after = Give([clients[c] EXCEPT !.waiting = <<>>], p)
        /\ top \in Nat \ {0} /\ ClientOK(clients[c], top, s) /\ p = SnapshotPacket(top, TestSchema, s)
    BY <1>1, <1>2 DEF Recovery
  <2>. HIDE DEF after, top, p
  <2>1. /\ Moved(clients[c], top, s, after.client)
        /\ after.client.decoder.sequence = top /\ Near(after.client.decoder, top)
    <3>1. harness \in Harnesses
      BY <1>1
    <3>2. ASSUME NEW k, ClientOK(k, top, s), NEW x, x = Give([k EXCEPT !.waiting = <<>>], p)
          PROVE  /\ Moved(k, top, s, x.client)
                 /\ x.client.decoder.sequence = top /\ Near(x.client.decoder, top)
      BY <2>0, <3>1, <3>2, CatchUp
    <3>3. after = Give([clients[c] EXCEPT !.waiting = <<>>], p) /\ ClientOK(clients[c], top, s)
      BY <2>0
    <3>. QED BY <3>2, <3>3
  <2>. USE DEF top
  <2>2. HeldBackFits(after.client, round + 1)
    BY <1>1, <2>1, OlderIsHeldBack DEF SimInvariant, Moved
  <2>. QED BY <2>1, <2>2 DEF after
<1>. HIDE DEF g
<1>4. /\ DOMAIN clients' = SimClients
      /\ \A c \in SimClients : /\ ClientOK(clients'[c], round', state')
                               /\ clients'[c].joined \/ clients'[c].delayed = None
                               /\ HeldBackFits(clients'[c], round')
  BY <1>1, <1>2, <1>3 DEF Moved
<1>5. /\ served' \subseteq SimClients
      /\ \A c \in served' : Near(clients'[c].decoder, round')
                            /\ clients'[c].decoder.sequence = round'
  BY <1>1, <1>3
<1>. QED BY <1>1, <1>4, <1>5, SimInvariantAgain DEF AllConverge

LEMMA FinishKeeps ==
  ASSUME PayloadsFit, SimInvariant, Finish
  PROVE  SimInvariant'
<1>. DEFINE g(c) == Give([clients[c] EXCEPT !.waiting = <<>>],
                         SnapshotPacket(round, TestSchema, state))
<1>1. /\ harness \in Harnesses /\ harness' = harness /\ state \in State /\ round \in Nat \ {0}
      /\ round' = round /\ state' = state /\ clients' = [c \in SimClients |-> g(c).client]
      /\ served' = served /\ recovered' = recovered /\ phase' = "done"
  BY DEF SimInvariant, Finish
<1>2. ASSUME NEW c \in SimClients
      PROVE  /\ Moved(clients[c], round, state, g(c).client)
             /\ g(c).client.decoder.sequence = round /\ Near(g(c).client.decoder, round)
    BY <1>1, CatchUp DEF SimInvariant
<1>. HIDE DEF g
<1>3. ASSUME NEW c \in SimClients
      PROVE  /\ ClientOK(g(c).client, round, state) /\ g(c).client.decoder.state = state
             /\ g(c).client.joined \/ g(c).client.delayed = None
             /\ HeldBackFits(g(c).client, round)
  <2>1. ClientOK(g(c).client, round, state)
    BY <1>2 DEF Moved
  <2>2. g(c).client.decoder.state = state
    BY <1>2, <2>1 DEF ClientOK, DecoderOK
  <2>3. g(c).client.joined \/ g(c).client.delayed = None
    BY <1>2 DEF SimInvariant, Moved
  <2>4. HeldBackFits(g(c).client, round)
    BY <1>1, <1>2 DEF HeldBackFits
  <2>. QED BY <2>1, <2>2, <2>3, <2>4
<1>4. /\ DOMAIN clients' = SimClients
      /\ \A c \in SimClients : /\ ClientOK(clients'[c], round', state')
                               /\ clients'[c].joined \/ clients'[c].delayed = None
                               /\ HeldBackFits(clients'[c], round')
  BY <1>1, <1>3
<1>5. /\ \A c \in served' : Near(clients'[c].decoder, round')
      /\ \A c \in recovered' : clients'[c].decoder.sequence = round'
      /\ served' \subseteq SimClients /\ recovered' \subseteq served'
  BY <1>1, <1>2 DEF SimInvariant
<1>6. AllConverge'
  BY <1>1, <1>2, <1>3 DEF AllConverge
<1>. QED BY <1>1, <1>4, <1>5, <1>6, SimInvariantAgain

LEMMA SimStep ==
  ASSUME PayloadsFit, SimInvariant, [SimNext]_simVars
  PROVE  SimInvariant'
<1>1. CASE Finish
  BY <1>1, FinishKeeps
<1>2. ASSUME NEW s \in State, Round(s) \/ Outage(s) \/ StormRecovery(s)
      PROVE  SimInvariant'
  BY <1>2, RoundKeeps, OutageKeeps, StormRecoveryKeeps
<1>3. CASE UNCHANGED simVars
  BY <1>3 DEF simVars, SimInvariant, ClientOK, DecoderOK, MapOK, Near, Behind, AllConverge
<1>. QED BY <1>1, <1>2, <1>3 DEF SimNext

THEOREM SimInvariance == PayloadsFit => (SimSpec => []SimInvariant)
<1>. SUFFICES ASSUME PayloadsFit PROVE SimSpec => []SimInvariant
  OBVIOUS
<1>1. SimInit => SimInvariant
  BY InitSim
<1>2. SimInvariant /\ [SimNext]_simVars => SimInvariant'
  BY SimStep
<1>. QED BY <1>1, <1>2, PTL DEF SimSpec

\* A round that reaches a client leaves it at the publisher's sequence and
\* state, or no further back than its reorder buffer's gap (src/multi_client.rs
\* deliver, src/chaos.rs, src/torture.rs deliver, src/v30_torture.rs).
THEOREM ServedIsCurrentHolds == PayloadsFit => (SimSpec => []ServedIsCurrent)
<1>. SUFFICES ASSUME PayloadsFit PROVE SimSpec => []ServedIsCurrent
  OBVIOUS
<1>1. SimInvariant => ServedIsCurrent
  <2>. SUFFICES ASSUME SimInvariant, NEW c \in served
                PROVE  LET d == clients[c].decoder
                       IN  /\ d.sequence # None
                           /\ round - d.sequence \in 0..Behind
                           /\ d.sequence = round => d.state = state
    BY DEF ServedIsCurrent
  <2>1. Near(clients[c].decoder, round) /\ DecoderOK(clients[c].decoder, round, state)
    BY DEF SimInvariant, ClientOK
  <2>. QED BY <2>1 DEF Near, DecoderOK
<1>2. SimSpec => []SimInvariant
  BY SimInvariance
<1>. QED BY <1>1, <1>2, PTL

\* No simulation ends with an error, and in the end every client has the
\* publisher's sequence and state (the reports' all_converged).
THEOREM AllConvergeHolds == PayloadsFit => (SimSpec => []AllConverge)
<1>. SUFFICES ASSUME PayloadsFit PROVE SimSpec => []AllConverge
  OBVIOUS
<1>1. SimInvariant => AllConverge
  BY DEF SimInvariant
<1>2. SimSpec => []SimInvariant
  BY SimInvariance
<1>. QED BY <1>1, <1>2, PTL
-----------------------------------------------------------------------------
(***************************************************************************)
(* Behind a reorder buffer a held back packet makes up for itself.         *)
(***************************************************************************)
LEMMA AtTheEndIsDuplicate ==
  ASSUME PayloadsFit, harness = "torture", NEW top \in Nat, NEW s \in State,
         NEW k, ClientOK(k, top, s), k.decoder.sequence = top, NEW p, Sent(p, top, s)
  PROVE  Give(k, p).answer = "Duplicate" /\ Give(k, p).client.decoder.sequence = top
<1>. DEFINE d == k.decoder
            a == Outcome(d, SimConfig, p)
<1>1. /\ p.sequence \in 1..top /\ top # None
      /\ p.kind = "Delta" => p.base_sequence = p.sequence - 1
  BY SentPackets, NoneAssumption
<1>2. Taken(d, p, top, s, a, Apply(d, SimConfig, p))
  BY DecoderTakes DEF ClientOK
<1>3. a = "Duplicate"
  BY <1>1, <1>2 DEF Taken
<1>4. ~Early(d, p)
  BY <1>1 DEF Early
<1>5. ReorderApply(SimConfig, d, k.waiting, p) =
        [decoder |-> d, waiting |-> k.waiting, answer |-> "Duplicate"]
  BY <1>3, <1>4 DEF ReorderApply
<1>6. Give(k, p) = [client |-> [k EXCEPT !.decoder = d, !.waiting = k.waiting],
                    answer |-> "Duplicate"]
  BY <1>5 DEF Give
<1>. DEFINE x == [k EXCEPT !.decoder = d, !.waiting = k.waiting]
<1>7. Give(k, p) = [client |-> x, answer |-> "Duplicate"]
      /\ x = [k EXCEPT !.decoder = d, !.waiting = k.waiting]
  BY <1>6
<1>. HIDE DEF x, d
<1>8. x = [decoder |-> d, waiting |-> k.waiting, delayed |-> k.delayed, joined |-> k.joined]
  BY <1>7 DEF ClientOK
<1>9. Give(k, p).answer = "Duplicate" /\ Give(k, p).client.decoder = d
  BY <1>7, <1>8
<1>. QED BY <1>9 DEF d

\* The packet of the round waits for the one before it, or makes it late.
LEMMA LateMakesUp ==
  ASSUME PayloadsFit, harness = "torture", round \in Nat, state \in State, NEW s \in State,
         NEW k, ClientOK(k, round, state), k.waiting = <<>>, k.decoder.sequence = round - 1,
         NEW q, Sent(q, round, state), q.sequence = round,
         q.kind = "Delta" => Hash(k.decoder.state) = q.base_hash,
         NEW p \in RoundPackets(s), NEW one, one = Give(k, p), NEW two, two = Give(one.client, q)
  PROVE  /\ one = [client |-> one.client, answer |-> one.answer]
         /\ one.answer \in {"Applied", "Buffered"}
         /\ two = [client |-> two.client, answer |-> two.answer]
         /\ two.answer \in {"Applied", "Duplicate"}
         /\ two.client.decoder.sequence = round + 1
         /\ ClientOK(two.client, round + 1, s)
<1>. DEFINE top == round + 1
            d == k.decoder
<1>1. /\ Sent(p, top, s) /\ p.sequence = top /\ p.kind \in {"Snapshot", "Delta"}
      /\ p.kind = "Delta" => p.base_hash = Hash(state)
  BY RoundPacketsAreSent
<1>2. /\ top \in Nat /\ ClientOK(k, top, s) /\ d.sequence # top /\ Sent(q, top, s)
      /\ harness \in Harnesses
  BY ClientStays, SentStays DEF Harnesses
<1>3. /\ d.sequence \in 1..round /\ d.sequence # None
      /\ DecoderOK(d, round, state) /\ DecoderOK(d, top, s)
  <2>1. DecoderOK(d, round, state) /\ DecoderOK(d, top, s)
    BY <1>2 DEF ClientOK
  <2>2. round \in 1..round
    BY SentPackets
  <2>. QED BY <2>1, <2>2, NoneAssumption DEF DecoderOK
<1>4. Given(k, p, top, s, one)
  BY <1>1, <1>2, GiveKeepsClient
<1>5. ClientOK(one.client, top, s) /\ one = [client |-> one.client, answer |-> one.answer]
  BY <1>4 DEF Given, Moved
<1>6. Given(one.client, q, top, s, two)
  BY <1>2, <1>5, GiveKeepsClient
<1>7. ClientOK(two.client, top, s) /\ two = [client |-> two.client, answer |-> two.answer]
  BY <1>6 DEF Given, Moved
<1>8. CASE p.kind = "Snapshot"
  <2>1. one.answer = "Applied" /\ one.client.decoder.sequence = top
    BY <1>1, <1>2, <1>4, <1>8 DEF Given
  <2>2. two.answer = "Duplicate" /\ two.client.decoder.sequence = top
    BY <1>2, <1>5, <2>1, AtTheEndIsDuplicate
  <2>. QED BY <1>5, <1>7, <2>1, <2>2
<1>9. CASE p.kind = "Delta"
  <2>. DEFINE w == Keep(k.waiting, p)
              e == Apply(d, SimConfig, q)
  <2>1. p.base_sequence = round /\ p.schema_hash = SimConfig.schema /\ ~Unreadable(SimConfig, p)
    BY <1>1, <1>2, <1>9, SentPackets
  <2>2. Early(d, p)
    BY <1>3, <1>9, <2>1 DEF Early
  <2>3. HasRoom(d, k.waiting, p)
    <3>1. Cardinality(DOMAIN k.waiting) = 0
      BY FS_EmptySet
    <3>. QED BY <2>1, <3>1, ReorderBoundsAssumption DEF HasRoom
  <2>4. one = [client |-> [k EXCEPT !.decoder = d, !.waiting = w], answer |-> "Buffered"]
    BY <2>2, <2>3 DEF Give, ReorderApply
  <2>5. one.client.decoder = d /\ one.client.waiting = w /\ one.answer = "Buffered"
    <3>. DEFINE x == [k EXCEPT !.decoder = d, !.waiting = w]
    <3>1. one = [client |-> x, answer |-> "Buffered"] /\ x = [k EXCEPT !.decoder = d, !.waiting = w]
      BY <2>4
    <3>. HIDE DEF x, w, d
    <3>2. x = [decoder |-> d, waiting |-> w, delayed |-> k.delayed, joined |-> k.joined]
      BY <3>1 DEF ClientOK
    <3>. QED BY <3>1, <3>2
  <2>6. DOMAIN w = {top} /\ w[top] = p
    <3>1. DOMAIN k.waiting = {}
      OBVIOUS
    <3>. QED BY <1>1, <3>1 DEF Keep
  <2>7. /\ q.kind = "Delta" => q.base_sequence = round - 1
        /\ q.schema_hash = SimConfig.schema /\ ~Unreadable(SimConfig, q)
    BY SentPackets
  <2>8. ~Early(d, q)
    BY <1>3, <2>7 DEF Early
  <2>9. Taken(d, q, round, state, Outcome(d, SimConfig, q), e)
    BY <1>3, DecoderTakes
  <2>10. Outcome(d, SimConfig, q) = "Applied"
    <3>1. Outcome(d, SimConfig, q) # "Duplicate"
      BY <1>3, <2>9 DEF Taken
    <3>2. q.kind = "Delta" => BaseMatches(d, q)
      BY <2>7 DEF BaseMatches
    <3>. QED BY <2>7, <3>1, <3>2 DEF Outcome
  <2>11. e.sequence = round /\ e.state = state /\ DecoderOK(e, round, state)
    BY <2>9, <2>10 DEF Taken, DecoderOK
  <2>12. two = [client |-> [one.client EXCEPT !.decoder = Drain(SimConfig, e, w).decoder,
                                             !.waiting = Drain(SimConfig, e, w).waiting],
                answer |-> Drain(SimConfig, e, w).answer]
    BY <2>5, <2>8, <2>10 DEF Give, ReorderApply
  <2>. HIDE DEF w, e
  <2>13. Cardinality(DOMAIN w) = 1
    BY <2>6, FS_Singleton
  <2>14. Drain(SimConfig, e, w) = DrainNext(SimConfig, Applied(e, w))
    BY <2>13, DrainOfOne
  <2>15. Taken(e, p, top, s, Outcome(e, SimConfig, p), Apply(e, SimConfig, p))
    <3>1. e.sequence # None => e.sequence \in 1..round
      BY <2>11 DEF DecoderOK
    <3>2. ClientOK([k EXCEPT !.decoder = e], round, state)
      BY <2>11 DEF ClientOK
    <3>3. [k EXCEPT !.decoder = e].decoder = e
      BY DEF ClientOK
    <3>4. DecoderOK(e, top, s)
      <4>. DEFINE x == [k EXCEPT !.decoder = e]
      <4>. HIDE DEF x
      <4>1. ClientOK(x, top, s)
        BY <3>2, ClientStays DEF x
      <4>. QED BY <3>3, <4>1 DEF ClientOK, x
    <3>. QED BY <1>1, <1>2, <3>4, DecoderTakes
  <2>16. Outcome(e, SimConfig, p) = "Applied"
    <3>1. round # None
      BY NoneAssumption
    <3>2. Outcome(e, SimConfig, p) # "Duplicate"
      BY <1>1, <2>11, <2>15, <3>1 DEF Taken
    <3>3. BaseMatches(e, p)
      BY <1>1, <1>9, <2>1, <2>11 DEF BaseMatches
    <3>. QED BY <2>1, <3>2, <3>3 DEF Outcome
  <2>17. /\ Drain(SimConfig, e, w).decoder = Apply(e, SimConfig, p)
         /\ Drain(SimConfig, e, w).answer = "Applied"
    BY <2>6, <2>11, <2>14, <2>16 DEF DrainNext, Applied
  <2>18. Apply(e, SimConfig, p).sequence = top
    BY <1>1, <2>15, <2>16 DEF Taken
  <2>19. two.answer = "Applied" /\ two.client.decoder.sequence = top
    <3>. DEFINE x == one.client
                y == Drain(SimConfig, e, w)
                z == [x EXCEPT !.decoder = y.decoder, !.waiting = y.waiting]
    <3>1. ClientOK(x, top, s)
      BY <1>5
    <3>2. z = [x EXCEPT !.decoder = y.decoder, !.waiting = y.waiting]
      OBVIOUS
    <3>5. two = [client |-> z, answer |-> y.answer]
      BY <2>12
    <3>3. y.decoder.sequence = top /\ y.answer = "Applied"
      BY <2>17, <2>18
    <3>. HIDE DEF x, y, z
    <3>4. z = [decoder |-> y.decoder, waiting |-> y.waiting,
               delayed |-> x.delayed, joined |-> x.joined]
      BY <3>1, <3>2 DEF ClientOK
    <3>. QED BY <3>3, <3>4, <3>5
  <2>. QED BY <1>5, <1>7, <2>5, <2>19
<1>. QED BY <1>1, <1>8, <1>9

LEMMA DeliverAnswers ==
  ASSUME NEW k, NEW p, NEW recovery, NEW g, g = Give(k, p),
         g.answer \in {"Applied", "Duplicate", "Buffered"}
  PROVE  Deliver(k, p, recovery) = g
BY DEF Deliver, Lost

LEMMA DeliverLate ==
  ASSUME PayloadsFit, harness = "torture", round \in Nat, state \in State, NEW s \in State,
         NEW k, ClientOK(k, round, state), k.waiting = <<>>, k.decoder.sequence = round - 1,
         NEW q, Sent(q, round, state), q.sequence = round,
         q.kind = "Delta" => Hash(k.decoder.state) = q.base_hash,
         NEW p \in RoundPackets(s), NEW again, again = <<>> \/ again = <<p>>, NEW recovery,
         NEW m, m = DeliverAll(k, <<p>> \o <<q>> \o again, recovery)
  PROVE  m.answer \in {"Applied", "Duplicate"} /\ m.client.decoder.sequence = round + 1
<1>. DEFINE i == [client |-> k, recovery |-> recovery]
            packets == <<p>> \o <<q>> \o again
            after(n) == DeliveredUpTo(i, packets, n)
            one == Give(k, p)
            two == Give(one.client, q)
            three == Give(two.client, p)
<1>1. /\ one = [client |-> one.client, answer |-> one.answer]
      /\ one.answer \in {"Applied", "Buffered"}
      /\ two = [client |-> two.client, answer |-> two.answer]
      /\ two.answer \in {"Applied", "Duplicate"}
      /\ two.client.decoder.sequence = round + 1
      /\ ClientOK(two.client, round + 1, s)
  BY LateMakesUp
<1>2. three.answer = "Duplicate" /\ three.client.decoder.sequence = round + 1
  <2>. DEFINE top == round + 1
  <2>1. Sent(p, top, s) /\ top \in Nat
    BY RoundPacketsAreSent
  <2>. HIDE DEF two
  <2>2. ClientOK(two.client, top, s) /\ two.client.decoder.sequence = top
    BY <1>1
  <2>. HIDE DEF top
  <2>3. three.answer = "Duplicate" /\ three.client.decoder.sequence = top
    BY <2>1, <2>2, AtTheEndIsDuplicate
  <2>. QED BY <2>3 DEF top
<1>3. /\ Deliver(k, p, recovery) = one /\ Deliver(one.client, q, recovery) = two
      /\ Deliver(two.client, p, recovery) = three
  BY <1>1, <1>2, DeliverAnswers
<1>4. /\ packets \in Seq({p, q}) /\ packets[1] = p /\ packets[2] = q
      /\ Len(packets) \in {2, 3} /\ (Len(packets) = 3 => packets[3] = p)
  <2>. DEFINE x == <<p>> \o <<q>>
  <2>1. /\ x \in Seq({p, q}) /\ Len(x) = 2 /\ x[1] = p /\ x[2] = q
        /\ <<p>> \in Seq({p, q}) /\ Len(<<p>>) = 1 /\ <<p>>[1] = p
    OBVIOUS
  <2>. HIDE DEF x
  <2>2. CASE again = <<>>
    <3>1. packets = x \o <<>>
      BY <2>2 DEF x
    <3>. HIDE DEF packets
    <3>2. packets = x
      BY <2>1, <3>1
    <3>. QED BY <2>1, <3>2
  <2>3. CASE again = <<p>>
    <3>. DEFINE y == <<p>>
    <3>1. packets = x \o y /\ y \in Seq({p, q}) /\ Len(y) = 1 /\ y[1] = p
      BY <2>1, <2>3 DEF x
    <3>. HIDE DEF packets, y
    <3>2. /\ packets \in Seq({p, q}) /\ Len(packets) = Len(x) + Len(y)
          /\ \A j \in 1..(Len(x) + Len(y)) :
               packets[j] = IF j <= Len(x) THEN x[j] ELSE y[j - Len(x)]
      BY <2>1, <3>1, ConcatProperties
    <3>3. packets[1] = x[1] /\ packets[2] = x[2] /\ packets[3] = y[3 - 2] /\ Len(packets) = 3
      BY <2>1, <3>1, <3>2
    <3>4. packets[3] = p
      BY <3>1, <3>3
    <3>. QED BY <2>1, <3>2, <3>3, <3>4
  <2>. QED BY <2>2, <2>3
<1>5. i.client = k /\ i.recovery = recovery
  OBVIOUS
<1>. HIDE DEF packets, i, one, two, three
<1>6. /\ after(0) = [client |-> k, answer |-> "Applied"]
      /\ \A n \in Nat : n + 1 <= Len(packets) =>
           after(n + 1) = DeliverStep(i, after(n), packets[n + 1])
      /\ m = after(Len(packets))
  BY <1>4, <1>5, DeliveriesInTurn DEF packets
<1>7. after(1) = one
  <2>1. after(0 + 1) = DeliverStep(i, after(0), packets[0 + 1])
    BY <1>4, <1>6
  <2>. HIDE DEF after
  <2>. QED BY <1>3, <1>4, <1>5, <1>6, <2>1 DEF DeliverStep
<1>8. after(2) = two
  <2>1. after(1 + 1) = DeliverStep(i, after(1), packets[1 + 1])
    BY <1>4, <1>6
  <2>. HIDE DEF after
  <2>. QED BY <1>1, <1>3, <1>4, <1>5, <1>7, <2>1 DEF DeliverStep
<1>9. Len(packets) = 3 => after(3) = three
  <2>. SUFFICES ASSUME Len(packets) = 3 PROVE after(3) = three
    OBVIOUS
  <2>. HIDE DEF after
  <2>1. after(2 + 1) = DeliverStep(i, after(2), packets[2 + 1])
    <3>1. 2 \in Nat /\ 2 + 1 <= Len(packets)
      OBVIOUS
    <3>2. \A n \in Nat : n + 1 <= Len(packets) =>
            after(n + 1) = DeliverStep(i, after(n), packets[n + 1])
      BY <1>6 DEF after
    <3>. QED BY <3>1, <3>2
  <2>. QED BY <1>1, <1>3, <1>4, <1>5, <1>8, <2>1 DEF DeliverStep
<1>. QED BY <1>1, <1>2, <1>4, <1>6, <1>8, <1>9

LEMMA LateRound ==
  ASSUME PayloadsFit, SimInvariant, NEW s \in State, Round(s), NEW c \in served',
         harness = "torture", clients[c].delayed # None, clients[c].waiting = <<>>,
         clients[c].delayed.sequence = round, clients[c].decoder.sequence = round - 1
  PROVE  c \notin recovered' /\ clients'[c].decoder.sequence = round'
<1>. DEFINE k == clients[c]
<1>1. /\ round \in Nat /\ state \in State /\ round' = round + 1 /\ harness \in Harnesses
  BY DEF SimInvariant, Round, Publish
<1>2. PICK p \in RoundPackets(s) : \E fate :
        LET met == [d \in SimClients |->
                      Shared(Meet(clients[d], p, fate[d], Recovery(s)), Recovery(s))]
        IN  /\ \A d \in SimClients : fate[d] \in Fates(clients[d], p)
            /\ clients' = [d \in SimClients |-> met[d].client]
            /\ served' = {d \in SimClients : met[d].answer # "Missed"}
            /\ recovered' = {d \in SimClients : met[d].answer = "Recovered"}
  BY DEF Round
<1>2a. PICK fate :
        LET met == [d \in SimClients |->
                      Shared(Meet(clients[d], p, fate[d], Recovery(s)), Recovery(s))]
        IN  /\ \A d \in SimClients : fate[d] \in Fates(clients[d], p)
            /\ clients' = [d \in SimClients |-> met[d].client]
            /\ served' = {d \in SimClients : met[d].answer # "Missed"}
            /\ recovered' = {d \in SimClients : met[d].answer = "Recovered"}
  BY <1>2
<1>. DEFINE met(d) == Shared(Meet(clients[d], p, fate[d], Recovery(s)), Recovery(s))
<1>3. /\ c \in SimClients /\ fate[c] \in Fates(k, p)
      /\ clients'[c] = met(c).client /\ met(c).answer # "Missed"
      /\ c \in recovered' => met(c).answer = "Recovered"
  BY <1>2a
<1>4. /\ ClientOK(k, round, state) /\ HeldBackFits(k, round)
      /\ k.joined \/ k.delayed = None
  BY <1>3 DEF SimInvariant
<1>5. k.joined
  BY <1>4
<1>6. round > 0
  <2>1. k.delayed.sequence \in 1..round
    BY <1>1, <1>4, SentPackets DEF ClientOK
  <2>. QED BY <2>1
<1>7. fate[c] \in {"deliver", "drop", "repeat"}
  BY <1>3, <1>5, <1>6 DEF Fates
<1>8. fate[c] # "drop"
  BY <1>3 DEF Meet, Shared, Lost
<1>. DEFINE joined == [k EXCEPT !.joined = TRUE]
            ready == [joined EXCEPT !.delayed = None]
            again == IF fate[c] = "repeat" THEN <<p>> ELSE <<>>
            m == DeliverAll(ready, <<p>> \o <<k.delayed>> \o again, Recovery(s))
<1>9. joined = [decoder |-> k.decoder, waiting |-> k.waiting,
                delayed |-> k.delayed, joined |-> TRUE]
  <2>1. \A b : [k EXCEPT !.joined = b] = [decoder |-> k.decoder, waiting |-> k.waiting,
                                          delayed |-> k.delayed, joined |-> b]
    BY <1>4 DEF ClientOK
  <2>. QED BY <2>1, Zenon
<1>10. Meet(k, p, fate[c], Recovery(s)) = m
  <2>1. Meet(k, p, fate[c], Recovery(s)) = Serve(joined, p, fate[c] = "repeat", Recovery(s))
    BY <1>7, <1>8 DEF Meet
  <2>. HIDE DEF joined
  <2>2. joined.delayed = k.delayed
    BY <1>9
  <2>. QED BY <2>1, <2>2 DEF Serve
<1>11. ready.waiting = <<>> /\ ready.decoder = k.decoder /\ ClientOK(ready, round, state)
  <2>. HIDE DEF joined
  <2>1. joined.joined \in BOOLEAN
    BY <1>9
  <2>2. joined = [decoder |-> k.decoder, waiting |-> k.waiting,
                  delayed |-> k.delayed, joined |-> joined.joined]
    BY <1>9
  <2>3. ready = [decoder |-> k.decoder, waiting |-> k.waiting,
                 delayed |-> None, joined |-> joined.joined]
    BY <2>2
  <2>. HIDE DEF ready
  <2>. QED BY <1>4, <2>1, <2>3 DEF ClientOK
<1>. HIDE DEF ready
<1>12. m.answer \in {"Applied", "Duplicate"} /\ m.client.decoder.sequence = round + 1
  <2>1. Sent(k.delayed, round, state)
    BY <1>4 DEF ClientOK
  <2>2. k.delayed.kind = "Delta" => Hash(ready.decoder.state) = k.delayed.base_hash
    BY <1>4, <1>11 DEF HeldBackFits
  <2>3. again = <<>> \/ again = <<p>>
    OBVIOUS
  <2>. DEFINE q == k.delayed
  <2>4. Sent(q, round, state) /\ q.sequence = round
        /\ (q.kind = "Delta" => Hash(ready.decoder.state) = q.base_hash)
        /\ m = DeliverAll(ready, <<p>> \o <<q>> \o again, Recovery(s))
    BY <2>1, <2>2
  <2>5. ready.waiting = <<>> /\ ready.decoder.sequence = round - 1
    BY <1>11
  <2>. HIDE DEF again, m, q
  <2>. QED BY <1>1, <1>11, <2>3, <2>4, <2>5, DeliverLate
<1>13. met(c) = m
  <2>. HIDE DEF m
  <2>. QED BY <1>10, <1>12 DEF Shared, Lost
<1>. QED BY <1>1, <1>3, <1>12, <1>13

\* "the delayed base arrives and drains the reorder buffer without a resync"
\* (src/torture.rs): a client that was current and had one packet held back is
\* current again in the round that reaches it, without a recovery.
THEOREM ReorderedWithoutResyncHolds ==
  PayloadsFit => (SimSpec => ReorderedWithoutResync)
<1>. SUFFICES ASSUME PayloadsFit PROVE SimSpec => ReorderedWithoutResync
  OBVIOUS
<1>. DEFINE P == \A c \in served' :
                   LET k == clients[c] IN
                   ( /\ harness = "torture" /\ storm' = storm
                     /\ k.delayed # None /\ k.waiting = <<>>
                     /\ k.delayed.sequence = round /\ k.decoder.sequence = round - 1 )
                   => c \notin recovered' /\ clients'[c].decoder.sequence = round'
<1>1. SimInvariant /\ SimInvariant' /\ [SimNext]_simVars => [P]_simVars
  <2>. SUFFICES ASSUME SimInvariant, SimInvariant', SimNext, NEW c \in served',
                       harness = "torture", storm' = storm, clients[c].delayed # None,
                       clients[c].waiting = <<>>, clients[c].delayed.sequence = round,
                       clients[c].decoder.sequence = round - 1
                PROVE  c \notin recovered' /\ clients'[c].decoder.sequence = round'
    OBVIOUS
  <2>1. CASE Finish
    <3>1. served' = served /\ recovered' = recovered /\ round' = round /\ round \in Nat
          /\ phase' = "done"
      BY <2>1 DEF Finish, SimInvariant
    <3>2. c \notin recovered
      BY <3>1 DEF SimInvariant
    <3>3. clients'[c].decoder.sequence = round'
      BY <3>1 DEF SimInvariant, AllConverge
    <3>. QED BY <3>1, <3>2, <3>3
  <2>2. ASSUME NEW s \in State, Round(s)
        PROVE  c \notin recovered' /\ clients'[c].decoder.sequence = round'
    BY <2>2, LateRound
  <2>3. ASSUME NEW s \in State, Outage(s) \/ StormRecovery(s) PROVE FALSE
    BY <2>3 DEF Outage, StormRecovery
  <2>. QED BY <2>1, <2>2, <2>3 DEF SimNext
<1>2. SimSpec => []SimInvariant
  BY SimInvariance
<1>. QED BY <1>1, <1>2, PTL DEF ReorderedWithoutResync, SimSpec
=============================================================================
