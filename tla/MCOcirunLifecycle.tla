-------------------------- MODULE MCOcirunLifecycle --------------------------
(* Two commands and two containers under one id.                           *)
EXTENDS OcirunLifecycle

CONSTANTS c1, c2, p1, p2
=============================================================================
