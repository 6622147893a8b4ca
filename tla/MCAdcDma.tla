------------------------------ MODULE MCAdcDma ------------------------------
(* Group One scans PA0, PA1 and group Two PA2, PA3, PA4, as in the program. *)
EXTENDS AdcDma

MCChannels == 0..4
MCScan == [s \in {"One", "Two"} |-> IF s = "One" THEN <<0, 1>> ELSE <<2, 3, 4>>]
=============================================================================
