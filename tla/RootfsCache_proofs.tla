------------------------- MODULE RootfsCache_proofs -------------------------
(***************************************************************************)
(* The rootfs cache for any number of commands, references, images and     *)
(* containers, in any order and killed anywhere.                           *)
(***************************************************************************)
EXTENDS RootfsCache, TLAPS

Preparing(p) == pc[p] \in {"ensure", "build", "cached", "extract"}
Prunes(p) == pc[p] \in {"untag", "sweep"}

(* A run that has lost its container's record to an rm has no use for its  *)
(* entry any more: it fails.                                               *)
Holds(u, r, m) == Uses(u, r, m) /\ (u \in Procs => cont[u] = None \/ conts[cont[u]] # None)

(* What a command holds.                                                   *)
HeldInv == \A p \in Procs :
    /\ pc[p] = "record" \/ Preparing(p) <=> ref[p] # None
    /\ ref[p] # None => man[p] # None
    /\ pc[p] \in {"idle", "untag"} => man[p] = None
    /\ ~Preparing(p) <=> cont[p] = None
    /\ pc[p] = "build" => build[p] # None

(* The container a run prepares is its own; it has its reference recorded  *)
(* and no lower directory yet.                                             *)
PreparedInv ==
    /\ \A p, q \in Procs : cont[p] # None /\ cont[p] = cont[q] => p = q
    /\ \A p \in Procs : cont[p] # None /\ conts[cont[p]] # None =>
         conts[cont[p]].ref = ref[p] /\ conts[cont[p]].lower = None

(* Beside a prune, what is not exposed is recorded, its reference names    *)
(* its image, which the prune keeps and whose entry it leaves alone.       *)
PruneInv == \A q \in Procs : Prunes(q) =>
    \A u \in (Procs \cup Conts) \ exposed, r \in Refs, m \in Manifests : Holds(u, r, m) =>
         /\ u \in Procs => cont[u] # None
         /\ images[r] = m
         /\ pc[q] = "untag" => m \in keep[q]
         /\ pc[q] = "sweep" => m \notin todo[q] /\ m # man[q]

(* An entry is whole unless a prune is removing it, or was.                *)
EntryInv ==
    /\ \A m \in Manifests : \/ cache[m] \in {None, Layers}
                            \/ m \in torn
                            \/ \E q \in Procs : pc[q] = "sweep" /\ man[q] = m
    /\ \A m \in torn : cache[m] # None

(* What is not exposed has a whole entry, if it has one.                   *)
WholeInv ==
    /\ \A p \in Procs \ exposed : cont[p] # None /\ conts[cont[p]] # None =>
         /\ pc[p] = "build" => man[p] \notin torn
         /\ pc[p] = "cached" => cache[man[p]] = Layers
    /\ LowerdirWhole

IInv == TypeOK /\ HeldInv /\ PreparedInv /\ PruneInv /\ EntryInv /\ WholeInv

(* The empty store satisfies the invariant.                                *)
LEMMA InitInv == Init => IInv
  BY ConstantsAssumption DEF Init, IInv, TypeOK, Records, PcStates, HeldInv, PreparedInv, PruneInv, EntryInv,
     WholeInv, LowerdirWhole, Live, Prunes, Preparing, Holds, Uses

(* An entry that is there is whole or has files missing.                   *)
LEMMA EntryFiles ==
  ASSUME TypeOK
  PROVE  \A m \in Manifests : cache[m] = None \/ cache[m] = Layers \/ cache[m] \in 0..(Layers - 1)
<1>. TAKE m \in Manifests
<1>1. cache[m] \in 0..Layers \/ cache[m] = None
  BY DEF TypeOK
<1>. QED
  BY <1>1, ConstantsAssumption

(* Every step of a command keeps it: what a prune takes out of the cache   *)
(* belongs to nothing that is not exposed to it.                           *)
LEMMA StepInv == IInv /\ [Next]_vars => IInv'
<1>. SUFFICES ASSUME IInv, [Next]_vars PROVE IInv'
  OBVIOUS
<1>. USE ConstantsAssumption DEF IInv, TypeOK, Records, PcStates, HeldInv, PreparedInv, PruneInv, EntryInv,
        WholeInv, LowerdirWhole, Prunes, Preparing, Live, InUseDigests, Holds, Uses, history,
        Pruning, MovedFrom, Misnamed, Unrecorded
<1>1. ASSUME NEW r \in Refs, NEW m \in Manifests, Publish(r, m) PROVE IInv'
  BY <1>1 DEF Publish, Move
<1>2. ASSUME NEW r \in Refs, Untag(r) PROVE IInv'
  BY <1>2 DEF Untag, Move
<1>3. ASSUME NEW r \in Refs, Rmi(r) PROVE IInv'
  BY <1>3 DEF Rmi, Move
<1>4. ASSUME NEW p \in Procs, NEW r \in Refs, RunResolve(p, r) PROVE IInv'
  BY <1>4 DEF RunResolve, Goto
<1>5. ASSUME NEW p \in Procs, NEW c \in Conts, RunRecord(p, c) PROVE IInv'
  BY <1>5 DEF RunRecord, Goto
<1>6. ASSUME NEW p \in Procs, EnsureHit(p) PROVE IInv'
  BY <1>6 DEF EnsureHit, Goto
<1>7. ASSUME NEW p \in Procs, EnsureBuild(p) PROVE IInv'
  BY <1>7 DEF EnsureBuild, Goto
<1>8. ASSUME NEW p \in Procs, EnsureLayer(p) PROVE IInv'
  BY <1>8 DEF EnsureLayer
<1>9. ASSUME NEW p \in Procs, EnsureRename(p) PROVE IInv'
  BY <1>9 DEF EnsureRename, Goto
<1>10. ASSUME NEW p \in Procs, EnsureFail(p) PROVE IInv'
  BY <1>10 DEF EnsureFail, Goto
<1>11. ASSUME NEW p \in Procs, RunBundle(p) PROVE IInv'
  BY <1>11 DEF RunBundle, Forget
<1>12. ASSUME NEW p \in Procs, RunFail(p) PROVE IInv'
  BY <1>12 DEF RunFail, Forget
<1>13. ASSUME NEW p \in Procs, RunKilled(p) PROVE IInv'
  BY <1>13 DEF RunKilled, Forget
<1>14. ASSUME NEW c \in Conts, RmContainer(c) PROVE IInv'
  BY <1>14 DEF RmContainer
<1>15. ASSUME NEW p \in Procs, PruneStart(p) PROVE IInv'
  BY <1>15 DEF PruneStart, Goto
<1>16. ASSUME NEW p \in Procs, NEW r \in Refs, PruneUntag(p, r) PROVE IInv'
  BY <1>16 DEF PruneUntag
<1>17. ASSUME NEW p \in Procs, PruneCache(p) PROVE IInv'
  BY <1>17 DEF PruneCache, Goto
<1>18. ASSUME NEW p \in Procs, NEW m \in Manifests, PruneEntry(p, m) PROVE IInv'
  BY <1>18 DEF PruneEntry
<1>24. ASSUME NEW p \in Procs, NEW m \in Manifests, PruneAbsent(p, m) PROVE IInv'
  BY <1>24 DEF PruneAbsent
<1>19. ASSUME NEW p \in Procs, PruneUnlink(p) PROVE IInv'
  BY <1>19 DEF PruneUnlink
<1>20. ASSUME NEW p \in Procs, PruneRmdir(p) PROVE IInv'
  BY <1>20 DEF PruneRmdir
<1>21. ASSUME NEW p \in Procs, PruneDone(p) PROVE IInv'
  BY <1>21 DEF PruneDone, Forget
<1>22. ASSUME NEW p \in Procs, PruneInterrupted(p) PROVE IInv'
  <2>1. TypeOK' /\ HeldInv' /\ PreparedInv'
    BY <1>22 DEF PruneInterrupted, Forget
  <2>2. PruneInv'
    BY <1>22 DEF PruneInterrupted, Forget
  <2>3. EntryInv'
    <3>1. torn' = torn \cup {m \in Manifests : m = man[p] /\ cache[m] \in 0..(Layers - 1)}
      BY <1>22 DEF PruneInterrupted
    <3>2. \A m \in Manifests : cache[m] = None \/ cache[m] = Layers \/ cache[m] \in 0..(Layers - 1)
      BY EntryFiles
    <3>3. ASSUME NEW m \in Manifests
          PROVE  \/ cache'[m] \in {None, Layers}
                 \/ m \in torn'
                 \/ \E q \in Procs : pc'[q] = "sweep" /\ man'[q] = m
      <4>1. CASE \E q \in Procs \ {p} : pc[q] = "sweep" /\ man[q] = m
        BY <1>22, <4>1 DEF PruneInterrupted, Forget
      <4>2. CASE man[p] = m
        BY <1>22, <3>1, <3>2, <4>2 DEF PruneInterrupted
      <4>. QED
        BY <1>22, <3>1, <4>1, <4>2 DEF PruneInterrupted
    <3>. QED
      BY <1>22, <3>1, <3>3 DEF PruneInterrupted
  <2>4. WholeInv'
    BY <1>22 DEF PruneInterrupted, Forget
  <2>. QED
    BY <2>1, <2>2, <2>3, <2>4
<1>23. CASE UNCHANGED vars
  BY <1>23 DEF vars
<1>. QED
  BY <1>1, <1>2, <1>3, <1>4, <1>5, <1>6, <1>7, <1>8, <1>9, <1>10, <1>11, <1>12, <1>13, <1>14, <1>15, <1>16, <1>17, <1>18, <1>19, <1>20, <1>21, <1>22, <1>23, <1>24 DEF Next, Pointers, Run, Prune

(* The invariant holds in every reachable state.                           *)
LEMMA Invariance == Spec => []IInv
  BY InitInv, StepInv, PTL DEF Spec

(* However many commands run, overlap and are killed, no prune ever takes  *)
(* a file from the lower directory of a container that was recorded before *)
(* any prune under way began, whose reference names its image whenever one *)
(* is, and that was not given an entry an interrupted prune had left.      *)
THEOREM LowerdirSafe == Spec => []LowerdirWhole
<1>1. IInv => LowerdirWhole
  BY DEF IInv, WholeInv
<1>. QED
  BY <1>1, Invariance, PTL

=============================================================================
