----------------------------- MODULE MCDashboard -----------------------------
(* Instances of Dashboard and Telemetry for TLC.                            *)
EXTENDS Dashboard

CONSTANTS f1, f2

\* Below zero, and values that a float does not hit (20.3 and 4.7).
MCDht22Samples == {<<-203, 47>>}
\* A word with both bytes in use, and the greatest one.
MCSht31Samples == {<<26214, 65535>>}
==============================================================================
