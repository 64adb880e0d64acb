---------------------------- MODULE MCImageStore ----------------------------
(* Two commands on a store of two images that share a layer.               *)
EXTENDS ImageStore, TLC

CONSTANTS p1, p2, r1, r2, m1, m2, c1, c2, layer

MCProcs == {p1, p2}
MCManifests == {m1, m2}
MCBlobs == {c1, c2, layer}
MCConfigOf == (m1 :> c1 @@ m2 :> c2)
MCLayersOf == (m1 :> {layer} @@ m2 :> {layer})


Symmetry == Permutations(MCProcs) \cup Permutations({r1, r2})
=============================================================================
