------------------------------ MODULE MCTable ------------------------------
(* Table for TLC. *)
EXTENDS Table

MCIndexes == 1 .. 3
MCIntOf == [f \in Floats |-> 2]
=============================================================================
