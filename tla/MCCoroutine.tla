---------------------------- MODULE MCCoroutine ----------------------------
(* Coroutine for TLC: the coroutines are interchangeable in safety runs.    *)
EXTENDS Coroutine, TLC

Symmetry == Permutations(Coroutines)
=============================================================================
