----------------------------- MODULE MCMqttNode -----------------------------
(* One node; the cfg bounds the queues and what the environment may do. *)
EXTENDS MqttNode
=============================================================================
