--------------------------- MODULE MCCommandFrames ---------------------------
(* CommandFrames for TLC.                                                   *)
EXTENDS CommandFrames, CRC16

\* A ping with one byte more than whole blocks; a command of special bytes; one
\* that fills the decoder's buffer; one too long for it.
FourFrames == {[type |-> Ping, id |-> 126, payload |-> <<>>],
               [type |-> Command, id |-> 32381, payload |-> <<126, 125>>],
               [type |-> Command, id |-> 382, payload |-> <<71, 79, 84, 79>>],
               [type |-> Command, id |-> 2, payload |-> <<71, 79, 84, 79, 32, 65>>]}
RandomOnes == {0, 125}
Ok == <<79, 75>>

\* The sums of the table are those of the polynomial, for each of the frames.
ASSUME SumsAssumption == \A f \in FourFrames : calculate(f.payload) = Remainder(f.payload)
=============================================================================
