--------------------------- MODULE MCBlobTransfer ---------------------------
(* Blobs one of which the manifest names twice.                            *)
EXTENDS BlobTransfer

MCDigestOf == [i \in 0..N-1 |-> IF i = N-1 /\ N > 2 THEN 1 ELSE i]
MCDigests == {MCDigestOf[i] : i \in 0..N-1}
=============================================================================
