---------------------------- MODULE MCCriRuntime ----------------------------
(* Two calls, two pod ids for one pod name, two container ids for one name *)
(* and two launchers.                                                      *)
EXTENDS CriRuntime, TLC

CONSTANTS s1, s2, c1, c2, p1, p2, r1, r2

Symmetry == Permutations({r1, r2}) \cup Permutations({p1, p2})
              \cup Permutations({c1, c2}) \cup Permutations({s1, s2})
=============================================================================
