------------------------------ MODULE MCBuild ------------------------------
(* Enough files for one that is compiled from C and one that is not.       *)
EXTENDS Build
=============================================================================
