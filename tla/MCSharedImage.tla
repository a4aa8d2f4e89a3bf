--------------------------- MODULE MCSharedImage ---------------------------
(* SharedImage for TLC.                                                     *)
EXTENDS SharedImage
=============================================================================
