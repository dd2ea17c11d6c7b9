------------------------------- MODULE MCHooks -------------------------------
(* Instances of Hooks for TLC.                                             *)
EXTENDS Hooks, TLC

(* The coroutines are interchangeable. *)
Symmetry == Permutations(Routines)
=============================================================================
