----------------------------- MODULE ImageStore -----------------------------
(***************************************************************************)
(* The local image store of crates/oci-store as the commands of ociman and *)
(* ocicri use it: content-addressed blobs under blobs/sha256/, one pointer *)
(* file per image reference under images/, and mark-and-sweep garbage      *)
(* collection.  Several commands run as separate OS processes on the same  *)
(* directory.  The store takes no lock, so the commands interleave at the  *)
(* granularity of their file-system calls, and any of them may fail or be  *)
(* killed between two calls.                                               *)
(*                                                                         *)
(* A digest stands for the one content that hashes to it.  A file is the   *)
(* content it is a prefix of and how many chunks of it have been written:  *)
(* only the full content hashes to its digest.                             *)
(***************************************************************************)
EXTENDS Naturals, FiniteSets

CONSTANTS
    Procs,      \* the commands running on the store
    Refs,       \* image references (tags)
    Manifests,  \* digests of image manifests
    Blobs,      \* digests of configs and layers
    ConfigOf,   \* the config digest a manifest names
    LayersOf,   \* the set of layer digests a manifest names
    Chunks,     \* buffers the read loop of ingest needs for one content
    GcAlone,    \* TRUE: no other command runs while a prune runs
    None

ASSUME ConstantsAssumption ==
    /\ ConfigOf \in [Manifests -> Blobs]
    /\ LayersOf \in [Manifests -> SUBSET Blobs]
    /\ Manifests \cap Blobs = {}
    /\ Chunks \in Nat \ {0}
    /\ GcAlone \in BOOLEAN
    /\ None \notin Manifests \cup Blobs \cup Refs
    /\ None \notin [of : Manifests \cup Blobs, len : 0..Chunks]

VARIABLES
    files,   \* blobs/sha256/<digest>: the file at each final path, or None
    images,  \* images/<reference>.json: the manifest digest recorded, or None
    pc,      \* where each command is
    ref,     \* the reference it will record
    man,     \* the manifest it will record for it
    need,    \* digests it has still to obtain or to verify
    want,    \* the digest the ingest in progress is for
    tmp,     \* its temporary file, or None
    back,    \* where it goes on after the ingest in progress
    refs,    \* references a prune has still to remove or to read
    todo,    \* digests mark_reachable has still to visit
    reach,   \* digests marked reachable
    sweep    \* blob files the sweep has still to remove

vars == <<files, images, pc, ref, man, need, want, tmp, back, refs, todo, reach, sweep>>

pullVars == <<ref, man, need, want, tmp, back>>
gcVars == <<refs, todo, reach, sweep>>

Digests == Manifests \cup Blobs
Files == [of : Digests, len : 0..Chunks]
Complete(d) == [of |-> d, len |-> Chunks]

(* The digest of a file's bytes; a truncated content hashes to none of the *)
(* digests in use.                                                         *)
HashOf(f) == IF f.len = Chunks THEN f.of ELSE None

has_blob(d) == files[d] # None

(* Everything a manifest needs besides itself.                             *)
PartsOf(m) == {ConfigOf[m]} \cup LayersOf[m]

PcStates == {"idle", "fetch", "load", "make", "verify", "put", "ingest", "persist",
             "untag", "list", "sweep"}
Pruning(p) == pc[p] \in {"untag", "list", "sweep"}

TypeOK ==
    /\ files \in [Digests -> Files \cup {None}]
    /\ images \in [Refs -> Manifests \cup {None}]
    /\ pc \in [Procs -> PcStates]
    /\ ref \in [Procs -> Refs \cup {None}]
    /\ man \in [Procs -> Manifests \cup {None}]
    /\ need \in [Procs -> SUBSET Digests]
    /\ want \in [Procs -> Digests \cup {None}]
    /\ tmp \in [Procs -> Files \cup {None}]
    /\ back \in [Procs -> {"fetch", "load", "make"}]
    /\ refs \in [Procs -> SUBSET Refs]
    /\ todo \in [Procs -> SUBSET Digests]
    /\ reach \in [Procs -> SUBSET Digests]
    /\ sweep \in [Procs -> SUBSET Digests]

Init ==
    /\ files = [d \in Digests |-> None]
    /\ images = [r \in Refs |-> None]
    /\ pc = [p \in Procs |-> "idle"]
    /\ ref = [p \in Procs |-> None]
    /\ man = [p \in Procs |-> None]
    /\ need = [p \in Procs |-> {}]
    /\ want = [p \in Procs |-> None]
    /\ tmp = [p \in Procs |-> None]
    /\ back = [p \in Procs |-> "fetch"]
    /\ refs = [p \in Procs |-> {}]
    /\ todo = [p \in Procs |-> {}]
    /\ reach = [p \in Procs |-> {}]
    /\ sweep = [p \in Procs |-> {}]

-----------------------------------------------------------------------------
(* When a command may start.  The code takes no lock: GcAlone is the       *)
(* discipline of a user who never runs a prune together with anything      *)
(* else on the same store.                                                 *)
MayStart(p) == pc[p] = "idle" /\ (GcAlone => \A q \in Procs : ~Pruning(q))
MayPrune(p) == pc[p] = "idle" /\ (GcAlone => \A q \in Procs : pc[q] = "idle")

(* The command ends, its local state gone; a temporary file it still had   *)
(* is dropped, or left behind under a .tmp name that nobody reads.         *)
Forget(p) ==
    /\ pc' = [pc EXCEPT ![p] = "idle"]
    /\ ref' = [ref EXCEPT ![p] = None]
    /\ man' = [man EXCEPT ![p] = None]
    /\ need' = [need EXCEPT ![p] = {}]
    /\ want' = [want EXCEPT ![p] = None]
    /\ tmp' = [tmp EXCEPT ![p] = None]
    /\ back' = [back EXCEPT ![p] = "fetch"]
    /\ refs' = [refs EXCEPT ![p] = {}]
    /\ todo' = [todo EXCEPT ![p] = {}]
    /\ reach' = [reach EXCEPT ![p] = {}]
    /\ sweep' = [sweep EXCEPT ![p] = {}]

(* An I/O error, a failed check or a kill, between any two steps.          *)
Abort(p) ==
    /\ pc[p] # "idle"
    /\ Forget(p)
    /\ UNCHANGED <<files, images>>

-----------------------------------------------------------------------------
(* Store::ingest and Store::ingest_verified.                               *)

(* A temporary file is created next to the blobs; the reader will deliver  *)
(* some prefix of content c.                                               *)
IngestStart(p, d, c) ==
    /\ back' = [back EXCEPT ![p] = pc[p]]
    /\ pc' = [pc EXCEPT ![p] = "ingest"]
    /\ want' = [want EXCEPT ![p] = d]
    /\ tmp' = [tmp EXCEPT ![p] = [of |-> c, len |-> 0]]

(* Mutant: the read loop does not stop at the end of the content.          *)
IngestChunkUnbounded(p) ==
    /\ pc[p] = "ingest"
    /\ tmp' = [tmp EXCEPT ![p] = [of |-> @.of, len |-> @.len + 1]]
    /\ UNCHANGED <<files, images, pc, ref, man, need, want, back, gcVars>>

(* One buffer is hashed and appended to the temporary file.                *)
IngestChunk(p) ==
    /\ pc[p] = "ingest"
    /\ tmp[p].len < Chunks
    /\ tmp' = [tmp EXCEPT ![p] = [of |-> @.of, len |-> @.len + 1]]
    /\ UNCHANGED <<files, images, pc, ref, man, need, want, back, gcVars>>

(* The command goes on with digest want[p] in the store.                   *)
IngestReturn(p) ==
    /\ pc' = [pc EXCEPT ![p] = back[p]]
    /\ need' = [need EXCEPT ![p] = @ \ {want[p]}]
    /\ want' = [want EXCEPT ![p] = None]
    /\ tmp' = [tmp EXCEPT ![p] = None]
    /\ UNCHANGED <<images, ref, man, back, gcVars>>

(* End of the stream: the digest of what was written must be the expected  *)
(* one (else the command fails: Abort).  A blob that is already there      *)
(* makes the temporary file redundant; otherwise it will be renamed.       *)
IngestDedup(p) ==
    /\ pc[p] = "ingest"
    /\ HashOf(tmp[p]) = want[p]
    /\ has_blob(want[p])
    /\ IngestReturn(p)
    /\ UNCHANGED files

(* Mutant: ingest_impl renames without comparing the digest.               *)
IngestFreshUnverified(p) ==
    /\ pc[p] = "ingest"
    /\ ~has_blob(want[p])
    /\ pc' = [pc EXCEPT ![p] = "persist"]
    /\ UNCHANGED <<files, images, pullVars, gcVars>>

IngestFresh(p) ==
    /\ pc[p] = "ingest"
    /\ HashOf(tmp[p]) = want[p]
    /\ ~has_blob(want[p])
    /\ pc' = [pc EXCEPT ![p] = "persist"]
    /\ UNCHANGED <<files, images, pullVars, gcVars>>

(* rename(2) onto the final path, replacing what another process may have  *)
(* put there since the check.                                              *)
IngestPersist(p) ==
    /\ pc[p] = "persist"
    /\ files' = [files EXCEPT ![want[p]] = tmp[p]]
    /\ IngestReturn(p)

-----------------------------------------------------------------------------
(* oci_registry::pull.                                                     *)

(* The registry serves manifest m for r: it is ingested first.             *)
PullResolve(p, r, m) ==
    /\ MayStart(p)
    /\ ref' = [ref EXCEPT ![p] = r]
    /\ man' = [man EXCEPT ![p] = m]
    /\ need' = [need EXCEPT ![p] = {m} \cup PartsOf(m)]
    /\ pc' = [pc EXCEPT ![p] = "fetch"]
    /\ UNCHANGED <<files, images, want, tmp, back, gcVars>>

(* The manifest bytes are in memory.                                       *)
PullManifest(p) ==
    /\ pc[p] = "fetch"
    /\ man[p] \in need[p]
    /\ IngestStart(p, man[p], man[p])
    /\ UNCHANGED <<files, images, ref, man, need, gcVars>>

(* fetch_blob_if_missing: a blob the store has is not fetched.             *)
PullSkip(p, d) ==
    /\ pc[p] = "fetch"
    /\ man[p] \notin need[p]
    /\ d \in need[p]
    /\ has_blob(d)
    /\ need' = [need EXCEPT ![p] = @ \ {d}]
    /\ UNCHANGED <<files, images, pc, ref, man, want, tmp, back, gcVars>>

(* Otherwise the registry serves some content c for it.                    *)
PullBlob(p, d, c) ==
    /\ pc[p] = "fetch"
    /\ man[p] \notin need[p]
    /\ d \in need[p]
    /\ ~has_blob(d)
    /\ IngestStart(p, d, c)
    /\ UNCHANGED <<files, images, ref, man, need, gcVars>>

-----------------------------------------------------------------------------
(* ociman load: every blob entry of the archive is ingested as it is met,  *)
(* then the index names a manifest whose parts must all be in the store.   *)
LoadStart(p) ==
    /\ MayStart(p)
    /\ pc' = [pc EXCEPT ![p] = "load"]
    /\ UNCHANGED <<files, images, pullVars, gcVars>>

LoadEntry(p, d, c) ==
    /\ pc[p] = "load"
    /\ IngestStart(p, d, c)
    /\ UNCHANGED <<files, images, ref, man, need, gcVars>>

LoadIndex(p, r, m) ==
    /\ pc[p] = "load"
    /\ ref' = [ref EXCEPT ![p] = r]
    /\ man' = [man EXCEPT ![p] = m]
    /\ need' = [need EXCEPT ![p] = {m} \cup PartsOf(m)]
    /\ pc' = [pc EXCEPT ![p] = "verify"]
    /\ UNCHANGED <<files, images, want, tmp, back, gcVars>>

LoadVerify(p, d) ==
    /\ pc[p] = "verify"
    /\ d \in need[p]
    /\ man[p] \in need[p] => d = man[p]
    /\ has_blob(d)
    /\ need' = [need EXCEPT ![p] = @ \ {d}]
    /\ UNCHANGED <<files, images, pc, ref, man, want, tmp, back, gcVars>>

-----------------------------------------------------------------------------
(* ociman commit and ociman build: an image m made of the layers of the    *)
(* base image that reference b resolves to and of new content, which is    *)
(* ingested layers and config first, manifest last.                        *)
MakeStart(p, r, b, m) ==
    /\ MayStart(p)
    /\ images[b] # None
    /\ has_blob(images[b])
    /\ ref' = [ref EXCEPT ![p] = r]
    /\ man' = [man EXCEPT ![p] = m]
    /\ need' = [need EXCEPT ![p] = ({m} \cup PartsOf(m)) \ LayersOf[images[b]]]
    /\ pc' = [pc EXCEPT ![p] = "make"]
    /\ UNCHANGED <<files, images, want, tmp, back, gcVars>>

MakeIngest(p, d) ==
    /\ pc[p] = "make"
    /\ d \in need[p]
    /\ d = man[p] => need[p] = {d}
    /\ IngestStart(p, d, d)
    /\ UNCHANGED <<files, images, ref, man, need, gcVars>>

-----------------------------------------------------------------------------
(* Mutant: the pointer is recorded before the blobs are all there.         *)
PutImageEarly(p) ==
    /\ pc[p] \in {"fetch", "verify", "make", "put"}
    /\ images' = [images EXCEPT ![ref[p]] = man[p]]
    /\ Forget(p)
    /\ UNCHANGED files

(* Store::put_image: a temporary file renamed onto the pointer.            *)
PutImage(p) ==
    /\ pc[p] \in {"fetch", "verify", "make", "put"}
    /\ need[p] = {}
    /\ images' = [images EXCEPT ![ref[p]] = man[p]]
    /\ Forget(p)
    /\ UNCHANGED files

(* ociman tag: a second reference for the manifest s resolves to.          *)
TagResolve(p, s, r) ==
    /\ MayStart(p)
    /\ images[s] # None
    /\ ref' = [ref EXCEPT ![p] = r]
    /\ man' = [man EXCEPT ![p] = images[s]]
    /\ pc' = [pc EXCEPT ![p] = "put"]
    /\ UNCHANGED <<files, images, need, want, tmp, back, gcVars>>

(* ociman rmi and untag: the pointer only, whatever it points to by now.   *)
RemoveImage(p, r) ==
    /\ MayStart(p)
    /\ images[r] # None
    /\ images' = [images EXCEPT ![r] = None]
    /\ UNCHANGED <<files, pc, pullVars, gcVars>>

-----------------------------------------------------------------------------
(* ociman prune, image prune and system reset: untag the unused images,    *)
(* then Store::gc.                                                         *)
PruneStart(p, unused) ==
    /\ MayPrune(p)
    /\ unused \subseteq {r \in Refs : images[r] # None}
    /\ refs' = [refs EXCEPT ![p] = unused]
    /\ pc' = [pc EXCEPT ![p] = "untag"]
    /\ UNCHANGED <<files, images, pullVars, todo, reach, sweep>>

PruneUntag(p, r) ==
    /\ pc[p] = "untag"
    /\ r \in refs[p]
    /\ images' = [images EXCEPT ![r] = None]
    /\ refs' = [refs EXCEPT ![p] = @ \ {r}]
    /\ UNCHANGED <<files, pc, pullVars, todo, reach, sweep>>

GcStart(p) ==
    /\ pc[p] = "untag"
    /\ refs[p] = {}
    /\ refs' = [refs EXCEPT ![p] = Refs]
    /\ pc' = [pc EXCEPT ![p] = "list"]
    /\ UNCHANGED <<files, images, pullVars, todo, reach, sweep>>

(* list_images reads the pointer files one after the other.                *)
GcList(p, r) ==
    /\ pc[p] = "list"
    /\ r \in refs[p]
    /\ refs' = [refs EXCEPT ![p] = @ \ {r}]
    /\ todo' = [todo EXCEPT ![p] = @ \cup ({images[r]} \ {None})]
    /\ UNCHANGED <<files, images, pc, pullVars, reach, sweep>>

(* Mutant: mark_reachable does not follow the config.                      *)
GcMarkLayersOnly(p, d) ==
    /\ pc[p] = "list"
    /\ refs[p] = {}
    /\ d \in todo[p]
    /\ reach' = [reach EXCEPT ![p] =
                   @ \cup {d} \cup (IF d \in Manifests /\ has_blob(d) THEN LayersOf[d] ELSE {})]
    /\ todo' = [todo EXCEPT ![p] = @ \ {d}]
    /\ UNCHANGED <<files, images, pc, pullVars, refs, sweep>>

(* mark_reachable on d: a manifest that is in the store has its config     *)
(* visited in turn and its layers marked; a blob that is not a manifest,   *)
(* or not there, is only marked.  (No command records a pointer to an      *)
(* image index, so the index branch of the code is never taken.)           *)
GcMark(p, d) ==
    /\ pc[p] = "list"
    /\ refs[p] = {}
    /\ d \in todo[p]
    /\ LET walked == d \in Manifests /\ has_blob(d) IN
         /\ reach' = [reach EXCEPT ![p] =
                        @ \cup {d} \cup (IF walked THEN LayersOf[d] ELSE {})]
         /\ todo' = [todo EXCEPT ![p] =
                        (@ \cup (IF walked THEN {ConfigOf[d]} ELSE {})) \ {d}]
    /\ UNCHANGED <<files, images, pc, pullVars, refs, sweep>>

GcSweepStart(p) ==
    /\ pc[p] = "list"
    /\ refs[p] = {}
    /\ todo[p] = {}
    /\ sweep' = [sweep EXCEPT ![p] = {d \in Digests : has_blob(d)} \ reach[p]]
    /\ pc' = [pc EXCEPT ![p] = "sweep"]
    /\ UNCHANGED <<files, images, pullVars, refs, todo, reach>>

(* Mutant: the sweep counts a file as removed and leaves it.               *)
GcSweepLeaves(p, d) ==
    /\ pc[p] = "sweep"
    /\ d \in sweep[p]
    /\ has_blob(d)
    /\ sweep' = [sweep EXCEPT ![p] = @ \ {d}]
    /\ UNCHANGED <<files, images, pc, pullVars, refs, todo, reach>>

(* A file that is gone by now makes gc fail: Abort.                        *)
GcSweep(p, d) ==
    /\ pc[p] = "sweep"
    /\ d \in sweep[p]
    /\ has_blob(d)
    /\ files' = [files EXCEPT ![d] = None]
    /\ sweep' = [sweep EXCEPT ![p] = @ \ {d}]
    /\ UNCHANGED <<images, pc, pullVars, refs, todo, reach>>

GcDone(p) ==
    /\ pc[p] = "sweep"
    /\ sweep[p] = {}
    /\ Forget(p)
    /\ UNCHANGED <<files, images>>

-----------------------------------------------------------------------------
Ingest(p) == IngestChunk(p) \/ IngestDedup(p) \/ IngestFresh(p) \/ IngestPersist(p)

Pull(p) ==
    \/ \E r \in Refs, m \in Manifests : PullResolve(p, r, m)
    \/ PullManifest(p)
    \/ \E d \in Digests : PullSkip(p, d)
    \/ \E d, c \in Digests : PullBlob(p, d, c)

Load(p) ==
    \/ LoadStart(p)
    \/ \E d, c \in Digests : LoadEntry(p, d, c)
    \/ \E r \in Refs, m \in Manifests : LoadIndex(p, r, m)
    \/ \E d \in Digests : LoadVerify(p, d)

Make(p) ==
    \/ \E r, b \in Refs, m \in Manifests : MakeStart(p, r, b, m)
    \/ \E d \in Digests : MakeIngest(p, d)

Point(p) ==
    \/ PutImage(p)
    \/ \E s, r \in Refs : TagResolve(p, s, r)
    \/ \E r \in Refs : RemoveImage(p, r)

Prune(p) ==
    \/ \E unused \in SUBSET Refs : PruneStart(p, unused)
    \/ \E r \in Refs : PruneUntag(p, r)
    \/ GcStart(p)
    \/ \E r \in Refs : GcList(p, r)
    \/ \E d \in Digests : GcMark(p, d)
    \/ GcSweepStart(p)
    \/ \E d \in Digests : GcSweep(p, d)
    \/ GcDone(p)

Next == \E p \in Procs :
    Ingest(p) \/ Pull(p) \/ Load(p) \/ Make(p) \/ Point(p) \/ Prune(p) \/ Abort(p)

Spec == Init /\ [][Next]_vars

-----------------------------------------------------------------------------
(* Every file at a final blob path holds the whole content that hashes to  *)
(* its name, whatever the registry delivered and wherever a command was    *)
(* killed: ingest_impl writes to a temporary file, verifies the digest and *)
(* only then renames.                                                      *)
BlobIntegrity == \A d \in Digests : has_blob(d) => files[d] = Complete(d)

Present(m) == \A d \in {m} \cup PartsOf(m) : has_blob(d)

(* Every recorded reference resolves to an image whose manifest, config    *)
(* and layers are all in the store: pull, load, commit and build record    *)
(* the pointer last, and gc keeps everything a pointer reaches.            *)
LiveRefsComplete == \A r \in Refs : images[r] # None => Present(images[r])

Reachable == {d \in Digests : \E r \in Refs :
                  images[r] # None /\ d \in {images[r]} \cup PartsOf(images[r])}

(* Store::gc leaves exactly what the recorded references reach: once the   *)
(* sweep is over, a blob is in the store iff a live reference reaches it.  *)
GcExact == \A p \in Procs : pc[p] = "sweep" /\ sweep[p] = {} =>
    {d \in Digests : has_blob(d)} = Reachable

(* What a user of the store sees: the image a reference resolves to, if it *)
(* can be used at all.                                                     *)
usable == [r \in Refs |->
    IF images[r] # None /\ ~Present(images[r]) THEN "broken" ELSE images[r]]

Catalogue == INSTANCE ImageCatalogue WITH Images <- Manifests, catalogue <- usable

(* The store implements the catalogue: put_image and remove_image are the  *)
(* only steps that change what a reference resolves to, they change it at  *)
(* once, and no reference ever names a part of an image.                   *)
ImplementsCatalogue == Catalogue!Spec

=============================================================================
