--------------------------- MODULE MCDeviceRegistry ---------------------------
(* Small instances of DeviceRegistry for TLC.                              *)
EXTENDS DeviceRegistry, TLC

\* The nodes, and the requests, are interchangeable in the safety runs.
Interchangeable == Permutations(Euis) \cup Permutations(Requests)
==============================================================================
