----------------------------- MODULE RootfsCache -----------------------------
(***************************************************************************)
(* The rootfs cache of crates/oci-store (rootfs_cache.rs) and the commands *)
(* of ociman that use it: `run` and `create` prepare a container whose     *)
(* overlay mount has a shared cache entry as its lower directory, `rm`     *)
(* removes a container, `pull`, `tag`, `untag` and `rmi` move the image    *)
(* pointers, and `prune` removes unused images and cache entries.          *)
(*                                                                         *)
(* A container records the reference of its image, not its digest: what it *)
(* uses is found again by resolving the reference.  A cache entry is a     *)
(* directory: the number of files it has, Layers when it is whole.  It     *)
(* appears at its path by one rename but is removed file by file.          *)
(*                                                                         *)
(* Nothing keeps a prune and the other commands apart.  `exposed` and      *)
(* `torn` are history: no guard reads them.                                *)
(***************************************************************************)
EXTENDS Integers

CONSTANTS
    Procs,      \* the commands running
    Refs,       \* image references
    Manifests,  \* image digests
    Conts,      \* container ids
    Layers,     \* how many files a whole entry has
    None

ASSUME ConstantsAssumption ==
    /\ Layers \in Nat \ {0}
    /\ Procs \cap Conts = {}
    /\ None \notin Refs \cup Manifests \cup Conts \cup Nat

VARIABLES
    images,  \* the manifest each reference names, or None
    cache,   \* the files in each cache entry, or None when there is no such directory
    conts,   \* the container records: the reference recorded, the image the root
             \* file system was made from, the lower directory of the overlay
    pc,
    ref,     \* the reference a run resolved
    man,     \* the image it resolved to; for a prune, the entry it is removing
    cont,    \* the container a run prepares
    build,   \* the files in its private build directory, or None
    keep,    \* the images a prune must keep
    todo,    \* the images named by no reference whose entries a prune has still to look for
    torn,    \* history: the entries that an interrupted prune left in pieces
    exposed  \* history: the runs and containers that a prune may harm (see Exposure)

vars == <<images, cache, conts, pc, ref, man, cont, build, keep, todo, torn, exposed>>
history == <<torn, exposed>>

Records == [ref : Refs, base : Manifests \cup {None}, lower : Manifests \cup {None}]
PcStates == {"idle", "record", "ensure", "build", "cached", "extract", "untag", "sweep"}

TypeOK ==
    /\ images \in [Refs -> Manifests \cup {None}]
    /\ cache \in [Manifests -> (0..Layers) \cup {None}]
    /\ conts \in [Conts -> Records \cup {None}]
    /\ pc \in [Procs -> PcStates]
    /\ ref \in [Procs -> Refs \cup {None}]
    /\ man \in [Procs -> Manifests \cup {None}]
    /\ cont \in [Procs -> Conts \cup {None}]
    /\ build \in [Procs -> (0..Layers) \cup {None}]
    /\ keep \in [Procs -> SUBSET Manifests]
    /\ todo \in [Procs -> SUBSET Manifests]
    /\ torn \subseteq Manifests
    /\ exposed \subseteq Procs \cup Conts

Init ==
    /\ images = [r \in Refs |-> None]
    /\ cache = [m \in Manifests |-> None]
    /\ conts = [c \in Conts |-> None]
    /\ pc = [p \in Procs |-> "idle"]
    /\ ref = [p \in Procs |-> None]
    /\ man = [p \in Procs |-> None]
    /\ cont = [p \in Procs |-> None]
    /\ build = [p \in Procs |-> None]
    /\ keep = [p \in Procs |-> {}]
    /\ todo = [p \in Procs |-> {}]
    /\ torn = {} /\ exposed = {}

Live == {c \in Conts : conts[c] # None}
Pruning == \E p \in Procs : pc[p] \in {"untag", "sweep"}

(* What uses image m by reference r: a container that has its entry for    *)
(* lower directory, or a run that has resolved r to it.                    *)
Uses(u, r, m) ==
    \/ u \in Live /\ conts[u].ref = r /\ conts[u].lower = m /\ m # None
    \/ u \in Procs /\ ref[u] = r /\ man[u] = m /\ r # None

(* Exposure.  A container, or the run that prepares it, is exposed when    *)
(*   - a prune is under way while its reference does not name its image,   *)
(*     a pull, tag, untag or rmi having moved it;                          *)
(*   - a prune is under way before its record is written; or               *)
(*   - it is given an entry that an interrupted prune left in pieces.      *)
MovedFrom(r, m) == {u \in Procs \cup Conts : \E n \in Manifests \ {m} : Uses(u, r, n)}
Unrecorded == {p \in Procs : pc[p] = "record"}
Misnamed == UNION {MovedFrom(r, images[r]) : r \in Refs}

Forget(p) ==
    /\ pc' = [pc EXCEPT ![p] = "idle"]
    /\ ref' = [ref EXCEPT ![p] = None]
    /\ man' = [man EXCEPT ![p] = None]
    /\ cont' = [cont EXCEPT ![p] = None]
    /\ build' = [build EXCEPT ![p] = None]
    /\ keep' = [keep EXCEPT ![p] = {}]
    /\ todo' = [todo EXCEPT ![p] = {}]

Goto(p, l) == pc' = [pc EXCEPT ![p] = l]

-----------------------------------------------------------------------------
(* The pointers (see ImageStore and ImageCatalogue).                       *)

Move(r, m) ==
    /\ images' = [images EXCEPT ![r] = m]
    /\ exposed' = exposed \cup IF Pruning THEN MovedFrom(r, m) ELSE {}
    /\ UNCHANGED <<cache, conts, pc, ref, man, cont, build, keep, todo, torn>>

(* pull, tag, load, build or commit records m under r.                     *)
Publish(r, m) ==
    /\ Move(r, m)

(* ociman untag asks nothing of the containers.                            *)
Untag(r) ==
    /\ images[r] # None
    /\ Move(r, None)

(* ociman rmi refuses a reference a container record names.                *)
Rmi(r) ==
    /\ images[r] # None
    /\ \A c \in Live : conts[c].ref # r
    /\ Move(r, None)

-----------------------------------------------------------------------------
(* ociman run and create: prepare_container.                               *)
RunResolve(p, r) ==
    /\ pc[p] = "idle"
    /\ images[r] # None
    /\ ref' = [ref EXCEPT ![p] = r]
    /\ man' = [man EXCEPT ![p] = images[r]]
    /\ Goto(p, "record")
    /\ exposed' = exposed \cup IF Pruning THEN {p} ELSE {}
    /\ UNCHANGED <<images, cache, conts, cont, build, keep, todo, torn>>

(* create_container_record: a fresh id.                                    *)
RunRecord(p, c) ==
    /\ pc[p] = "record"
    /\ conts[c] = None
    /\ \A q \in Procs : cont[q] # c
    /\ conts' = [conts EXCEPT ![c] = [ref |-> ref[p], base |-> None, lower |-> None]]
    /\ cont' = [cont EXCEPT ![p] = c]
    /\ Goto(p, "ensure")
    /\ UNCHANGED <<images, cache, ref, man, build, keep, todo, history>>

(* ensure_cached: a directory at the entry's path is the entry ...         *)
EnsureHit(p) ==
    /\ pc[p] = "ensure"
    /\ cache[man[p]] # None
    /\ Goto(p, "cached")
    /\ exposed' = exposed \cup IF man[p] \in torn THEN {p} ELSE {}
    /\ UNCHANGED <<images, cache, conts, ref, man, cont, build, keep, todo, torn>>

(* ... and otherwise the layers are applied in a private directory ...     *)
EnsureBuild(p) ==
    /\ pc[p] = "ensure"
    /\ cache[man[p]] = None
    /\ build' = [build EXCEPT ![p] = 0]
    /\ Goto(p, "build")
    /\ UNCHANGED <<images, cache, conts, ref, man, cont, keep, todo, history>>

EnsureLayer(p) ==
    /\ pc[p] = "build"
    /\ build[p] < Layers
    /\ build' = [build EXCEPT ![p] = @ + 1]
    /\ UNCHANGED <<images, cache, conts, pc, ref, man, cont, keep, todo, history>>

(* ... which is renamed onto the path.  rename(2) replaces an empty        *)
(* directory and fails on any other: the race to build is lost, and what   *)
(* is there is the entry.                                                  *)
EnsureRename(p) ==
    /\ pc[p] = "build"
    /\ build[p] = Layers
    /\ cache' = [cache EXCEPT ![man[p]] = IF @ \in {None, 0} THEN Layers ELSE @]
    /\ torn' = IF cache[man[p]] = 0 THEN torn \ {man[p]} ELSE torn
    /\ build' = [build EXCEPT ![p] = None]
    /\ Goto(p, "cached")
    /\ UNCHANGED <<images, conts, ref, man, cont, keep, todo, exposed>>

(* Any failure of ensure_cached makes rootfs_setup::decide fall back to    *)
(* extracting the layers into the container's own directory.               *)
EnsureFail(p) ==
    /\ pc[p] \in {"ensure", "build"}
    /\ build' = [build EXCEPT ![p] = None]
    /\ Goto(p, "extract")
    /\ UNCHANGED <<images, cache, conts, ref, man, cont, keep, todo, history>>

(* The bundle's config.json is written into the container's directory: it  *)
(* must still be there.                                                    *)
RunBundle(p) ==
    /\ pc[p] \in {"cached", "extract"}
    /\ conts[cont[p]] # None
    /\ conts' = [conts EXCEPT ![cont[p]] =
                   [ref |-> @.ref, base |-> man[p],
                    lower |-> IF pc[p] = "cached" THEN man[p] ELSE None]]
    /\ Forget(p)
    /\ exposed' = (exposed \ {p, cont[p]}) \cup IF p \in exposed THEN {cont[p]} ELSE {}
    /\ UNCHANGED <<images, cache, torn>>

(* A failure removes the record; a kill leaves it.                         *)
RunFail(p) ==
    /\ pc[p] \in {"record", "ensure", "build", "cached", "extract"}
    /\ conts' = [c \in Conts |-> IF c = cont[p] THEN None ELSE conts[c]]
    /\ Forget(p)
    /\ exposed' = exposed \ {p}
    /\ UNCHANGED <<images, cache, torn>>

RunKilled(p) ==
    /\ pc[p] \in {"record", "ensure", "build", "cached", "extract"}
    /\ Forget(p)
    /\ exposed' = exposed \ {p}
    /\ UNCHANGED <<images, cache, conts, torn>>

(* ociman rm --force, or prune_eligible_containers.                        *)
RmContainer(c) ==
    /\ conts[c] # None
    /\ conts' = [conts EXCEPT ![c] = None]
    /\ exposed' = exposed \ {c}
    /\ UNCHANGED <<images, cache, pc, ref, man, cont, build, keep, todo, torn>>

-----------------------------------------------------------------------------
(* ociman prune and image prune: prune_images_and_reclaim.                 *)

(* images_in_use_digests: what the containers' references resolve to now.  *)
InUseDigests == {images[conts[c].ref] : c \in Live} \ {None}

PruneStart(p) ==
    /\ pc[p] = "idle"
    /\ keep' = [keep EXCEPT ![p] = InUseDigests]
    /\ Goto(p, "untag")
    /\ exposed' = exposed \cup Misnamed \cup Unrecorded
    /\ UNCHANGED <<images, cache, conts, ref, man, cont, build, todo, torn>>

(* Any image not in use may be removed: --all and the filters decide.      *)
PruneUntag(p, r) ==
    /\ pc[p] = "untag"
    /\ images[r] # None
    /\ images[r] \notin keep[p]
    /\ images' = [images EXCEPT ![r] = None]
    /\ UNCHANGED <<cache, conts, pc, ref, man, cont, build, keep, todo, history>>

(* Mutant: every entry is taken for an orphan.                             *)
PruneCacheAll(p) ==
    /\ pc[p] = "untag"
    /\ todo' = [todo EXCEPT ![p] = Manifests]
    /\ keep' = [keep EXCEPT ![p] = {}]
    /\ Goto(p, "sweep")
    /\ UNCHANGED <<images, cache, conts, ref, man, cont, build, history>>

(* rootfs_cache::prune: the entries no reference names by the listing of   *)
(* the references.                                                         *)
PruneCache(p) ==
    /\ pc[p] = "untag"
    /\ todo' = [todo EXCEPT ![p] = {m \in Manifests : \A r \in Refs : images[r] # m}]
    /\ keep' = [keep EXCEPT ![p] = {}]
    /\ Goto(p, "sweep")
    /\ UNCHANGED <<images, cache, conts, ref, man, cont, build, history>>

(* The directory is read meanwhile, one entry after the other: one that is *)
(* there is removed ...                                                    *)
PruneEntry(p, m) ==
    /\ pc[p] = "sweep"
    /\ man[p] = None
    /\ m \in todo[p] /\ cache[m] # None
    /\ man' = [man EXCEPT ![p] = m]
    /\ todo' = [todo EXCEPT ![p] = @ \ {m}]
    /\ UNCHANGED <<images, cache, conts, pc, ref, cont, build, keep, history>>

(* ... and one that appears later is not seen.                             *)
PruneAbsent(p, m) ==
    /\ pc[p] = "sweep"
    /\ man[p] = None
    /\ m \in todo[p] /\ cache[m] = None
    /\ todo' = [todo EXCEPT ![p] = @ \ {m}]
    /\ UNCHANGED <<images, cache, conts, pc, ref, man, cont, build, keep, history>>

(* remove_dir_all, one file after the other; a directory renamed meanwhile *)
(* onto an emptied one is taken for it.                                    *)
PruneUnlink(p) ==
    /\ pc[p] = "sweep"
    /\ man[p] # None
    /\ cache[man[p]] \in 1..Layers
    /\ cache' = [cache EXCEPT ![man[p]] = @ - 1]
    /\ UNCHANGED <<images, conts, pc, ref, man, cont, build, keep, todo, history>>

PruneRmdir(p) ==
    /\ pc[p] = "sweep"
    /\ man[p] # None
    /\ cache[man[p]] = 0
    /\ cache' = [cache EXCEPT ![man[p]] = None]
    /\ man' = [man EXCEPT ![p] = None]
    /\ torn' = torn \ {man[p]}
    /\ UNCHANGED <<images, conts, pc, ref, cont, build, keep, todo, exposed>>

PruneDone(p) ==
    /\ pc[p] = "sweep"
    /\ man[p] = None /\ todo[p] = {}
    /\ Forget(p)
    /\ UNCHANGED <<images, cache, conts, history>>

(* A prune fails, on an entry another one has removed say, or is killed:   *)
(* half way through an entry too.                                          *)
PruneInterrupted(p) ==
    /\ pc[p] \in {"untag", "sweep"}
    /\ torn' = torn \cup {m \in Manifests : m = man[p] /\ cache[m] \in 0..(Layers - 1)}
    /\ Forget(p)
    /\ UNCHANGED <<images, cache, conts, exposed>>

-----------------------------------------------------------------------------
Pointers == \E r \in Refs : (\E m \in Manifests : Publish(r, m)) \/ Untag(r) \/ Rmi(r)

Run(p) ==
    \/ \E r \in Refs : RunResolve(p, r)
    \/ \E c \in Conts : RunRecord(p, c)
    \/ EnsureHit(p) \/ EnsureBuild(p) \/ EnsureLayer(p) \/ EnsureRename(p) \/ EnsureFail(p)
    \/ RunBundle(p) \/ RunFail(p) \/ RunKilled(p)

Prune(p) ==
    \/ PruneStart(p)
    \/ \E r \in Refs : PruneUntag(p, r)
    \/ PruneCache(p)
    \/ \E m \in Manifests : PruneEntry(p, m) \/ PruneAbsent(p, m)
    \/ PruneUnlink(p) \/ PruneRmdir(p) \/ PruneDone(p) \/ PruneInterrupted(p)

Next ==
    \/ Pointers
    \/ \E c \in Conts : RmContainer(c)
    \/ \E p \in Procs : Run(p) \/ Prune(p)

Spec == Init /\ [][Next]_vars

-----------------------------------------------------------------------------
(* Whatever runs overlap and are killed, a prune takes no file from the    *)
(* lower directory of a container whose record names its image all the     *)
(* while: what else happens to the references, the entries and the other   *)
(* containers is no danger to it.                                          *)
LowerdirWhole == \A c \in Live \ exposed :
    conts[c].lower # None => cache[conts[c].lower] = Layers

=============================================================================
