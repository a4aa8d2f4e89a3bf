-------------------------- MODULE MCMasterSessions --------------------------
(* MasterSessions for TLC.                                                  *)
EXTENDS MasterSessions
=============================================================================
