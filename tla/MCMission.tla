----------------------------- MODULE MCMission -----------------------------
(* Mission for TLC.                                                        *)
EXTENDS Mission

\* Routes of two and three waypoints, one of them a loop.
Routes == {<<"P", "P">>, <<"L", "P", "P", "P">>}
AnyMode == Modes
=============================================================================
