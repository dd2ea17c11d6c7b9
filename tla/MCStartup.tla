------------------------------ MODULE MCStartup ------------------------------
(* Instances of Startup for TLC.  Liveness is checked: no symmetry.        *)
EXTENDS Startup
=============================================================================
