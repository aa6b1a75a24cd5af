-------------------------------- MODULE MCMqtt --------------------------------
(***************************************************************************)
(* Instance of MqttTransport for TLC: a session publishes data while its   *)
(* control loop listens, and one subscriber listens for data.              *)
(***************************************************************************)
EXTENDS MqttTransport

MCTopics == [c \in {"publish_state", "control_loop", "subscriber"} |->
               IF c = "control_loop" THEN {"control"} ELSE {"data"}]
=============================================================================
