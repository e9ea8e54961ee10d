------------------------------ MODULE MCHello ------------------------------
(* Three cores, lines of two characters. *)
EXTENDS Hello

MCCores == 0 .. 2
MCLengths == {2}

=============================================================================
