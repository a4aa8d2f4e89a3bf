--------------------------- MODULE MCControlUnit ---------------------------
(* ControlUnit for TLC.                                                    *)
EXTENDS ControlUnit

OneSpeed == {"stop"}
TwoSpeeds == {"stop", "go"}
AllReplies == {"C01", "BadChecksum"}
GoodReplies == {"C01", "ER"}
=============================================================================
