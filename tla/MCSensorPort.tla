---------------------------- MODULE MCSensorPort ----------------------------
(* SensorPort for TLC.                                                      *)
EXTENDS SensorPort
=============================================================================
