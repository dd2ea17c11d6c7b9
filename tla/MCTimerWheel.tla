---------------------------- MODULE MCTimerWheel ----------------------------
(* Instances of TimerWheel for TLC.                                        *)
EXTENDS TimerWheel, TLC

Symmetry == Permutations(Tasks)
=============================================================================
