------------------------------ MODULE MCTelemetry ------------------------------
(* Telemetry for TLC.  Two keys: the server's and the robot's of a session   *)
(* differ, those of the next session may be the same or exchanged.          *)
EXTENDS Telemetry

CONSTANTS k1, k2
TwoKeys == {k1, k2}
=============================================================================
