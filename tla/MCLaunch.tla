------------------------------ MODULE MCLaunch ------------------------------
(* Every combination of options, one launch.                               *)
EXTENDS Launch
=============================================================================
