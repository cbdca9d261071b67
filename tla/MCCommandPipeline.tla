-------------------------- MODULE MCCommandPipeline --------------------------
(* Instances of CommandPipeline for TLC.                                    *)
EXTENDS CommandPipeline, TLC

CONSTANTS n1, n2, a1, a2, a3, c1, c2

MCHome == n1 :> a1 @@ n2 :> a2
=============================================================================
