----------------------------- MODULE MCHeadLink -----------------------------
(* HeadLink for TLC.                                                        *)
EXTENDS HeadLink
=============================================================================
