---------------------------- MODULE MCRootfsCache ----------------------------
(* Two commands, two references, two images and two containers.            *)
EXTENDS RootfsCache, TLC

CONSTANTS p1, p2, r1, r2, m1, m2, c1, c2

Symmetry == Permutations({p1, p2}) \cup Permutations({r1, r2})
              \cup Permutations({m1, m2}) \cup Permutations({c1, c2})
=============================================================================
