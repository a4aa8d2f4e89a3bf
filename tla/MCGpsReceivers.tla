--------------------------- MODULE MCGpsReceivers ---------------------------
(* GpsReceivers for TLC.                                                    *)
EXTENDS GpsReceivers
=============================================================================
