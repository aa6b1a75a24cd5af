------------------------------- MODULE MCDrivers ------------------------------
(***************************************************************************)
(* Four systems that share no state, checked in one run: the byte-state    *)
(* stream, the crate's simulations, the demo server and the transports.    *)
(* A behaviour is one of them; the others stay as they began.              *)
(*                                                                         *)
(* States are one one-bit byte.  Their xor applied to the wrong base       *)
(* yields the wrong state.                                                 *)
(***************************************************************************)
EXTENDS ByteStream, Transports, Simulations

CONSTANTS MaxSequence, c1, c2

VARIABLES part, numbered, last_state, current, decoder, drop_next, missed, response

demoVars == <<numbered, last_state, current, decoder, drop_next, missed, response>>

MCXor(a, b) == IF a = b THEN 0 ELSE 1

Smart == INSTANCE SmartDelta WITH Xor <- MCXor

Bytes(b) == [state |-> b]

MCState == {Bytes(<<0>>), Bytes(<<1>>)}
MCHash(s) == <<"fnv1a64", s>>
MCDiff(s, t) == Smart!EncodeXor(s.state, t.state)
MCDeltas(s, t) == {MCDiff(s, t)}
MCPatch(d, s) == LET b == Smart!ApplySmart(s.state, d)
                 IN  IF b = Invalid THEN Invalid ELSE Bytes(b)
MCSize(payload) == 1
MCPlainZeros(s) == s
MCHasRoute(from, to) == FALSE
MCMigrate(from, to, s) == s

\* The hypothesis of the theorems about Simulations.
ASSUME StreamedPayloadsFit == PayloadsFit

Demo == INSTANCE DemoServer WITH sequence <- numbered

\* The hypothesis of the theorem about DemoServer.
ASSUME ShownStatesAdvance == Demo!AdvancedStates

\* One subscriber, that one topic of two reaches.
MCTopic == {"data", "control"}
MCTopics == [s \in {c1} |-> {"data"}]

\* The one beginning of a part that does not take part.
Idle ==
  /\ part # "simulation" => harness = "chaos" /\ state = Bytes(<<0>>)
  /\ part # "demo" => current = Bytes(<<0>>)
  /\ part # "transport" => transport = "local"
  /\ part # "stream" => log = [i \in {0} |-> Bytes(<<0>>)]

DriversInit ==
  /\ part \in {"stream", "simulation", "demo", "transport"}
  /\ Init /\ SimInit /\ Demo!Fresh /\ WireInit
  /\ Idle

DriversNext ==
  \/ part = "stream" /\ Next /\ UNCHANGED <<part, simVars, demoVars, wireVars>>
  \/ part = "simulation" /\ SimNext /\ UNCHANGED <<part, vars, demoVars, wireVars>>
  \/ part = "demo" /\ Demo!Next /\ UNCHANGED <<part, vars, simVars, wireVars>>
  \/ part = "transport" /\ WireNext /\ UNCHANGED <<part, vars, simVars, demoVars>>

DriversSpec ==
  DriversInit /\ [][DriversNext]_<<part, vars, simVars, demoVars, wireVars>>
-----------------------------------------------------------------------------
\* The dashboard tells the truth; see DemoServer.
DashboardIsHonest == Demo!DashboardIsHonest
=============================================================================
