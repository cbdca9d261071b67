------------------------------ MODULE MCNodeOta ------------------------------
(* Small instances of NodeOta for TLC.                                     *)
EXTENDS NodeOta, TLC

\* Commands of a kind are interchangeable, and so are the workers' names.
Interchangeable == Permutations(Updates) \cup Permutations(Others) \cup Permutations(Workers)
==============================================================================
