----------------------------- MODULE MCMqttBridge -----------------------------
(* Small instances of MqttBridge for TLC.                                  *)
EXTENDS MqttBridge, TLC

\* The nodes the registry did not restore are interchangeable.
Interchangeable == Permutations(Nodes \ Stored)
==============================================================================
