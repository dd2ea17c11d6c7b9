----------------------------- MODULE MCLifecycle -----------------------------
(* Instances of Lifecycle for TLC.                                         *)
EXTENDS Lifecycle, TLC

Symmetry == Permutations(Routines \ {Main}) \cup Permutations(Stacks)
=============================================================================
