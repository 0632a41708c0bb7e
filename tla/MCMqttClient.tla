----------------------------- MODULE MCMqttClient -----------------------------
(* Small instances of MqttClient for TLC. *)
EXTENDS MqttClient
===============================================================================
