--------------------------- MODULE ImageCatalogue ---------------------------
(***************************************************************************)
(* What the image store promises its users: a catalogue in which every     *)
(* reference names a whole image or nothing, and changes in one step when  *)
(* an image is published under it or withdrawn.  Downloads, failures and   *)
(* garbage collection are invisible.                                       *)
(***************************************************************************)
CONSTANTS Refs, Images, None

VARIABLE catalogue

Init == catalogue = [r \in Refs |-> None]

Publish(r, m) == catalogue' = [catalogue EXCEPT ![r] = m]

Withdraw(r) == catalogue' = [catalogue EXCEPT ![r] = None]

Next == \E r \in Refs : Withdraw(r) \/ \E m \in Images : Publish(r, m)

Spec == Init /\ [][Next]_catalogue

=============================================================================
