----------------------------- MODULE MCMutexCond -----------------------------
(* Instances of MutexCond for TLC.                                         *)
EXTENDS MutexCond, TLC

(* The coroutines other than main's are interchangeable. *)
Symmetry == Permutations(Routines \ {Main}) \cup Permutations(Mutexes)
=============================================================================
