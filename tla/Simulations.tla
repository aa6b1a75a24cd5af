----------------------------- MODULE Simulations -----------------------------
(***************************************************************************)
(* The crate's own fault simulations: run_deterministic of                 *)
(* src/multi_client.rs and src/chaos.rs, run of src/torture.rs and of      *)
(* src/v30_torture.rs.  Each drives one publisher and its clients through  *)
(* rounds; in a round the publisher encodes a state once and every client  *)
(* meets a fate.  The simulations derive fates from the round and the      *)
(* number of the client; here any fate the code has may befall any client  *)
(* in any round.  A client that is offline for some rounds is dropped in   *)
(* each of them.                                                           *)
(*                                                                         *)
(* A client is a record [decoder, waiting, delayed, joined]; waiting is    *)
(* the pending map of a ReorderDecoder, delayed a packet held back.        *)
(***************************************************************************)
EXTENDS ByteDecoder, ReorderBuffer, SequencesExt

CONSTANTS SimClients, TestSchema, TestLimit,   \* of the states a simulation streams
          MaxRounds    \* bound on the updates of a run

VARIABLES harness,     \* the simulation that runs
          round,       \* updates so far: the encoder's sequence
          state,       \* the publisher's state
          clients,
          storm,       \* torture's one global outage
          phase,
          served,      \* history: the clients that took part in the last round
          recovered    \* history: those of them that needed a recovery

simVars == <<harness, round, state, clients, storm, phase, served, recovered>>

Harnesses == {"multi_client", "chaos", "torture", "v30_torture"}

SimConfig == [schema |-> TestSchema, limit |-> TestLimit]

\* Clients of the two older simulations are there from the start.
NewClient(h) ==
  [decoder |-> IF h = "v30_torture" THEN EmptyByteDecoder ELSE EmptyDecoder,
   waiting |-> <<>>, delayed |-> None, joined |-> h \in {"multi_client", "chaos"}]

SimInit ==
  /\ harness \in Harnesses
  /\ round = 0
  /\ state \in State
  /\ clients = [c \in SimClients |-> NewClient(harness)]
  /\ storm = "ahead"
  /\ phase = "running"
  /\ served = {}
  /\ recovered = {}

\* The packets the encoder may send for state s; the state of the round
\* before is its previous one.  The agents the simulations make up
\* with AgentState::advance never hold a negative zero, so that their deltas,
\* too, are exact (DeltasAssumption).
RoundPackets(s) ==
  {SnapshotPacket(round + 1, TestSchema, s)} \cup
  (IF round = 0 THEN {}
   ELSE {ByteDeltaPacket(round + 1, TestSchema, state, s, d) : d \in Deltas(state, s)})
-----------------------------------------------------------------------------
(***************************************************************************)
(* What becomes of a client: [client, answer], with the last answer of its *)
(* decoder, "Recovered" or "Error".                                        *)
(***************************************************************************)
Give(k, p) ==
  CASE harness = "torture" ->
         LET r == ReorderApply(SimConfig, k.decoder, k.waiting, p)
         IN  [client |-> [k EXCEPT !.decoder = r.decoder, !.waiting = r.waiting],
              answer |-> r.answer]
    [] harness = "v30_torture" ->
         [client |-> [k EXCEPT !.decoder = ByteApply(@, SimConfig, p)],
          answer |-> ByteOutcome(k.decoder, SimConfig, p)]
    [] OTHER ->
         [client |-> [k EXCEPT !.decoder = Apply(@, SimConfig, p)],
          answer |-> Outcome(k.decoder, SimConfig, p)]

Lost == {"NeedSnapshot", "NeedRecovery"}

\* The answers to a recovery snapshot that the simulation accepts (torture
\* looks at none when the recovery follows a delayed packet).
Accepted == IF harness = "chaos" THEN {"Applied"} ELSE {"Applied", "Duplicate"}

Recover(k, recovery) ==
  LET r == Give([k EXCEPT !.waiting = <<>>], recovery)
  IN  [r EXCEPT !.answer = IF @ \in Accepted THEN "Recovered" ELSE "Error"]

\* A mutant of Deliver: a client that asks for recovery is left alone.
DeliverOnly(k, p, recovery) == Give(k, p)

\* Hand over a packet and, when the client asks for it, the recovery.
Deliver(k, p, recovery) ==
  LET r == Give(k, p)
  IN  IF r.answer \in Lost THEN Recover(r.client, recovery)
      ELSE IF r.answer = "Rejected" THEN [r EXCEPT !.answer = "Error"] ELSE r

\* One packet after the other; a recovery or an error stays the answer.
DeliverAll(k, packets, recovery) ==
  FoldLeft(LAMBDA r, p :
             LET next == Deliver(r.client, p, recovery)
             IN  IF r.answer \in {"Error", "Recovered"} /\ next.answer # "Error"
                 THEN [next EXCEPT !.answer = r.answer] ELSE next,
           [client |-> k, answer |-> "Applied"], packets)

\* More packets after an answer: only an error changes it.
GiveAll(answered, packets) ==
  FoldLeft(LAMBDA r, p :
             LET next == Give(r.client, p)
             IN  [next EXCEPT !.answer = IF @ = "Rejected" THEN "Error" ELSE r.answer],
           answered, packets)

(***************************************************************************)
(* The packets of a round in the order each simulation has: torture hands  *)
(* over the delayed packet before the duplicate, chaos delays none, and    *)
(* v30_torture only looks at the answer to the first and leaves a client   *)
(* that is lost to the shared recovery at the end of the round.            *)
(***************************************************************************)
Serve(k, p, repeat, recovery) ==
  LET again == IF repeat THEN <<p>> ELSE <<>>
      late  == IF k.delayed = None THEN <<>> ELSE <<k.delayed>>
      ready == [k EXCEPT !.delayed = None]
  IN  CASE harness = "multi_client" -> DeliverAll(ready, <<p>> \o again \o late, recovery)
        [] harness = "torture"      -> DeliverAll(ready, <<p>> \o late \o again, recovery)
        [] harness = "chaos"        -> GiveAll(Deliver(k, p, recovery), again)
        [] harness = "v30_torture"  -> GiveAll(Give(ready, p), again \o late)

\* Faults spare the first round, but for v30_torture.
Fates(k, p) ==
  LET faulty == round > 0 \/ harness = "v30_torture"
  IN  IF ~k.joined /\ (round > 0 \/ harness = "torture") THEN {"wait", "join"}
      ELSE {"deliver"}
           \cup (IF ~k.joined THEN {"wait"} ELSE {})
           \cup (IF faulty THEN {"drop", "repeat"} ELSE {})
           \cup (IF harness = "v30_torture" THEN {"corrupt"} ELSE {})
           \cup (IF /\ faulty /\ k.delayed = None /\ harness # "chaos"
                    /\ harness = "torture" => round > 1
                    /\ p.kind = "Delta" \/ harness = "v30_torture"
                 THEN {"hold"} ELSE {})

\* A damaged packet fails to decode: torture treats it as dropped.
Meet(k, p, fate, recovery) ==
  LET joined == [k EXCEPT !.joined = TRUE]
  IN  CASE fate = "wait"    -> [client |-> k, answer |-> "Missed"]
        [] fate = "drop"    -> [client |-> joined, answer |-> "Missed"]
        [] fate = "hold"    -> [client |-> [joined EXCEPT !.delayed = p], answer |-> "Missed"]
        [] fate = "corrupt" -> [client |-> joined, answer |-> "NeedRecovery"]
        [] fate = "join"    -> IF harness = "torture" THEN Give(joined, recovery)
                               ELSE [client |-> joined, answer |-> "NeedRecovery"]
        [] OTHER            -> Serve(joined, p, fate = "repeat", recovery)

\* The shared recovery of v30_torture.
Shared(met, recovery) ==
  IF met.answer \in Lost THEN Recover(met.client, recovery) ELSE met
-----------------------------------------------------------------------------
(***************************************************************************)
(* The rounds.                                                             *)
(***************************************************************************)
Publish(s) ==
  /\ phase = "running" /\ round < MaxRounds
  /\ round' = round + 1
  /\ state' = s
  /\ UNCHANGED harness

Recovery(s) == SnapshotPacket(round + 1, TestSchema, s)

Round(s) ==
  /\ Publish(s)
  /\ storm # "outage"
  /\ \E p \in RoundPackets(s) :
       \E fate \in [SimClients -> {"wait", "join", "drop", "hold", "corrupt", "deliver", "repeat"}] :
         LET met == [c \in SimClients |->
                       Shared(Meet(clients[c], p, fate[c], Recovery(s)), Recovery(s))]
         IN  /\ \A c \in SimClients : fate[c] \in Fates(clients[c], p)
             /\ clients' = [c \in SimClients |-> met[c].client]
             /\ served' = {c \in SimClients : met[c].answer # "Missed"}
             /\ recovered' = {c \in SimClients : met[c].answer = "Recovered"}
             /\ phase' = IF \E c \in SimClients : met[c].answer \in {"Error", "Rejected"}
                         THEN "failed" ELSE "running"
  /\ UNCHANGED storm

\* torture: every client misses one update ...
Outage(s) ==
  /\ harness = "torture" /\ storm = "ahead"
  /\ Publish(s)
  /\ storm' = "outage"
  /\ served' = {} /\ recovered' = {}
  /\ UNCHANGED <<clients, phase>>

\* ... and those that have joined share one recovery in the next.
StormRecovery(s) ==
  /\ storm = "outage"
  /\ Publish(s)
  /\ clients' = [c \in SimClients |->
                   IF clients[c].joined
                   THEN Give([clients[c] EXCEPT !.waiting = <<>>], Recovery(s)).client
                   ELSE clients[c]]
  /\ storm' = "over"
  /\ served' = {c \in SimClients : clients[c].joined}
  /\ recovered' = served'
  /\ UNCHANGED phase

\* A mutant of Finish: the last snapshot goes to those that have joined.
FinishJoined ==
  /\ phase = "running" /\ round > 0 /\ phase' = "done"
  /\ clients' = [c \in SimClients |->
                   IF ~clients[c].joined THEN clients[c]
                   ELSE Give(clients[c], SnapshotPacket(round, TestSchema, state)).client]
  /\ UNCHANGED <<harness, round, state, storm, served, recovered>>

\* The run ends with a snapshot for everybody.
Finish ==
  /\ phase = "running" /\ round > 0
  /\ harness = "torture" => storm # "ahead"
  /\ phase' = "done"
  /\ clients' = [c \in SimClients |->
                   Give([clients[c] EXCEPT !.waiting = <<>>],
                        SnapshotPacket(round, TestSchema, state)).client]
  /\ UNCHANGED <<harness, round, state, storm, served, recovered>>

SimNext == Finish \/ \E s \in State : Round(s) \/ Outage(s) \/ StormRecovery(s)

SimSpec == SimInit /\ [][SimNext]_simVars
\* What the simulations stream is small next to what their clients accept
\* (DecodeConfig::default): no packet is refused for its size.
PayloadsFit ==
  /\ TestLimit \in Nat
  /\ \A s \in State : Size(s) \in 0..TestLimit
  /\ \A s, t \in State : \A d \in Deltas(s, t) : Size(d) \in 0..TestLimit
-----------------------------------------------------------------------------
(***************************************************************************)
(* Properties.                                                             *)
(***************************************************************************)
\* The packets that may be lost behind the one just buffered.
Behind == IF harness = "torture" THEN MaxGap + 1 ELSE 0

\* Whatever befell a client before, a round that reaches it leaves it at the
\* publisher's sequence and state, or, behind a reorder buffer, no further
\* back than the buffer's gap: neither a missed, a held back nor a repeated
\* packet keeps it from catching up (src/multi_client.rs deliver,
\* src/chaos.rs, src/torture.rs deliver, src/v30_torture.rs).
ServedIsCurrent ==
  \A c \in served :
    LET d == clients[c].decoder
    IN  /\ d.sequence # None
        /\ round - d.sequence \in 0..Behind
        /\ d.sequence = round => d.state = state

\* No simulation ends with an error, and in the end every client has
\* converged (the reports' all_converged).
AllConverge ==
  /\ phase # "failed"
  /\ phase = "done" =>
       \A c \in SimClients : LET d == clients[c].decoder IN d.sequence = round /\ d.state = state

\* "the delayed base arrives and drains the reorder buffer without a resync"
\* (src/torture.rs): a client that was current, had one delta held back and
\* is reached in the next round is current again and needed no recovery.
ReorderedWithoutResync ==
  [][\A c \in served' :
       LET k == clients[c] IN
       ( /\ harness = "torture" /\ storm' = storm
         /\ k.delayed # None /\ k.waiting = <<>>
         /\ k.delayed.sequence = round /\ k.decoder.sequence = round - 1 )
       => c \notin recovered' /\ clients'[c].decoder.sequence = round']_simVars
=============================================================================
