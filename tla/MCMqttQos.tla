----------------------------- MODULE MCMqttQos -----------------------------
(***************************************************************************)
(* MqttQos with two slots for a client that registered the callbacks, and  *)
(* three for one that sends again what it stored itself.                   *)
(***************************************************************************)
EXTENDS MqttQos

MCSlots == [c \in BOOLEAN |-> IF c THEN 2 ELSE 3]
=============================================================================
