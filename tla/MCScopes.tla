------------------------------ MODULE MCScopes ------------------------------
(* Scopes for TLC: functions of up to five statements. *)
EXTENDS Scopes

MCMost == [s \in Sorts |-> 1]
=============================================================================
