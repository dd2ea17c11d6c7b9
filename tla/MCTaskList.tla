----------------------------- MODULE MCTaskList -----------------------------
(* Instances of TaskList for TLC.                                          *)
EXTENDS TaskList, TLC

Symmetry == Permutations(Items)
=============================================================================
