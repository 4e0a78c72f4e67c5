---------------------------- MODULE MCExecLimits ----------------------------
(* ExecLimits for TLC: the coroutines are interchangeable in safety runs.   *)
EXTENDS ExecLimits, TLC

Symmetry == Permutations(Coroutines)
=============================================================================
