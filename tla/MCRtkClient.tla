---------------------------- MODULE MCRtkClient ----------------------------
(* RtkClient for TLC.                                                       *)
EXTENDS RtkClient
=============================================================================
