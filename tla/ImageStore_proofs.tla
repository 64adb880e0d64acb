-------------------------- MODULE ImageStore_proofs --------------------------
(***************************************************************************)
(* What holds of ImageStore for any number of commands, references, images *)
(* and chunks.                                                             *)
(***************************************************************************)
EXTENDS ImageStore, TLAPS

(* A command that holds an image it has still to record.                   *)
Writing(p) ==
    \/ pc[p] \in {"fetch", "verify", "make", "put"}
    \/ pc[p] \in {"ingest", "persist"} /\ back[p] \in {"fetch", "make"}

(* What a command's own state says of its temporary file and of the image  *)
(* it is about to record.                                                  *)
CommandInv == \A p \in Procs :
    /\ pc[p] \in {"ingest", "persist"} => want[p] # None /\ tmp[p] # None
    /\ pc[p] = "persist" => tmp[p] = Complete(want[p])
    /\ Writing(p) => ref[p] # None /\ man[p] # None
    /\ pc[p] = "idle" => need[p] = {}

(* A prune runs alone.                                                     *)
PruneAlone == \A p, q \in Procs : Pruning(p) /\ q # p => pc[q] = "idle"

(* What a command no longer needs to obtain is in the store.               *)
Obtained == \A p \in Procs : Writing(p) =>
    \A d \in ({man[p]} \cup PartsOf(man[p])) \ need[p] : has_blob(d)

(* The state of the mark phase: every pointer read so far is marked or     *)
(* will be, and so is everything a marked manifest names; nothing else is. *)
MarkInv == \A p \in Procs :
    /\ pc[p] \in {"idle", "untag"} => todo[p] = {} /\ reach[p] = {}
    /\ pc[p] = "list" =>
         /\ \A r \in Refs \ refs[p] : images[r] # None => images[r] \in todo[p] \cup reach[p]
         /\ \A m \in Manifests \cap reach[p] : PartsOf(m) \subseteq todo[p] \cup reach[p]
         /\ todo[p] \cup reach[p] \subseteq Reachable

(* The state of the sweep: what is in the store is what the references     *)
(* reach and what has still to be removed.                                 *)
SweepInv == \A p \in Procs : pc[p] = "sweep" =>
    /\ {d \in Digests : has_blob(d)} = Reachable \cup sweep[p]
    /\ Reachable \cap sweep[p] = {}

AloneInv == PruneAlone /\ LiveRefsComplete /\ Obtained /\ MarkInv /\ SweepInv

IInv == TypeOK /\ BlobIntegrity /\ CommandInv /\ (GcAlone => AloneInv)

Step(p) == Ingest(p) \/ Pull(p) \/ Load(p) \/ Make(p) \/ Point(p) \/ Prune(p) \/ Abort(p)

(* A step of a command on its way to record an image.                      *)
Writes(p) == Ingest(p) \/ Pull(p) \/ Load(p) \/ Make(p)

-----------------------------------------------------------------------------
(* Each step preserves the types. *)
LEMMA TypeStep == TypeOK /\ CommandInv /\ [Next]_vars => TypeOK'
<1>0. SUFFICES ASSUME TypeOK, CommandInv, [Next]_vars PROVE TypeOK'
  OBVIOUS
<1>. USE ConstantsAssumption DEF TypeOK, Files, Digests, PartsOf, PcStates, CommandInv
<1>1. CASE UNCHANGED vars
  BY <1>0, <1>1 DEF vars
<1>2. ASSUME NEW p \in Procs, Step(p) PROVE TypeOK'
  <2>1. ASSUME IngestChunk(p) PROVE TypeOK'
    BY <1>0, <2>1 DEF IngestChunk, gcVars, pullVars
  <2>2. ASSUME IngestDedup(p) PROVE TypeOK'
    BY <1>0, <2>2 DEF IngestDedup, IngestReturn, gcVars, pullVars
  <2>3. ASSUME IngestFresh(p) PROVE TypeOK'
    BY <1>0, <2>3 DEF IngestFresh, gcVars, pullVars
  <2>4. ASSUME IngestPersist(p) PROVE TypeOK'
    BY <1>0, <2>4 DEF IngestPersist, IngestReturn, gcVars, pullVars
  <2>5. ASSUME NEW r \in Refs, NEW m \in Manifests, PullResolve(p, r, m) PROVE TypeOK'
    BY <1>0, <2>5 DEF PullResolve, MayStart, gcVars, pullVars
  <2>6. ASSUME PullManifest(p) PROVE TypeOK'
    BY <1>0, <2>6 DEF PullManifest, IngestStart, gcVars, pullVars
  <2>7. ASSUME NEW d \in Digests, PullSkip(p, d) PROVE TypeOK'
    BY <1>0, <2>7 DEF PullSkip, gcVars, pullVars
  <2>8. ASSUME NEW d \in Digests, NEW c \in Digests, PullBlob(p, d, c) PROVE TypeOK'
    BY <1>0, <2>8 DEF PullBlob, IngestStart, gcVars, pullVars
  <2>9. ASSUME LoadStart(p) PROVE TypeOK'
    BY <1>0, <2>9 DEF LoadStart, MayStart, gcVars, pullVars
  <2>10. ASSUME NEW d \in Digests, NEW c \in Digests, LoadEntry(p, d, c) PROVE TypeOK'
    BY <1>0, <2>10 DEF LoadEntry, IngestStart, gcVars, pullVars
  <2>11. ASSUME NEW r \in Refs, NEW m \in Manifests, LoadIndex(p, r, m) PROVE TypeOK'
    BY <1>0, <2>11 DEF LoadIndex, gcVars, pullVars
  <2>12. ASSUME NEW d \in Digests, LoadVerify(p, d) PROVE TypeOK'
    BY <1>0, <2>12 DEF LoadVerify, gcVars, pullVars
  <2>13. ASSUME NEW r \in Refs, NEW b \in Refs, NEW m \in Manifests, MakeStart(p, r, b, m) PROVE TypeOK'
    BY <1>0, <2>13 DEF MakeStart, MayStart, gcVars, pullVars
  <2>14. ASSUME NEW d \in Digests, MakeIngest(p, d) PROVE TypeOK'
    BY <1>0, <2>14 DEF MakeIngest, IngestStart, gcVars, pullVars
  <2>15. ASSUME PutImage(p) PROVE TypeOK'
    BY <1>0, <2>15 DEF PutImage, Forget, gcVars, pullVars
  <2>16. ASSUME NEW s \in Refs, NEW r \in Refs, TagResolve(p, s, r) PROVE TypeOK'
    BY <1>0, <2>16 DEF TagResolve, MayStart, gcVars, pullVars
  <2>17. ASSUME NEW r \in Refs, RemoveImage(p, r) PROVE TypeOK'
    BY <1>0, <2>17 DEF RemoveImage, MayStart, gcVars, pullVars
  <2>18. ASSUME NEW u \in SUBSET Refs, PruneStart(p, u) PROVE TypeOK'
    BY <1>0, <2>18 DEF PruneStart, MayPrune, gcVars, pullVars
  <2>19. ASSUME NEW r \in Refs, PruneUntag(p, r) PROVE TypeOK'
    BY <1>0, <2>19 DEF PruneUntag, gcVars, pullVars
  <2>20. ASSUME GcStart(p) PROVE TypeOK'
    BY <1>0, <2>20 DEF GcStart, gcVars, pullVars
  <2>21. ASSUME NEW r \in Refs, GcList(p, r) PROVE TypeOK'
    BY <1>0, <2>21 DEF GcList, gcVars, pullVars
  <2>22. ASSUME NEW d \in Digests, GcMark(p, d) PROVE TypeOK'
    BY <1>0, <2>22 DEF GcMark, gcVars, pullVars
  <2>23. ASSUME GcSweepStart(p) PROVE TypeOK'
    BY <1>0, <2>23 DEF GcSweepStart, gcVars, pullVars
  <2>24. ASSUME NEW d \in Digests, GcSweep(p, d) PROVE TypeOK'
    BY <1>0, <2>24 DEF GcSweep, gcVars, pullVars
  <2>25. ASSUME GcDone(p) PROVE TypeOK'
    BY <1>0, <2>25 DEF GcDone, Forget, gcVars, pullVars
  <2>26. ASSUME Abort(p) PROVE TypeOK'
    BY <1>0, <2>26 DEF Abort, Forget, gcVars, pullVars
  <2>. QED
    BY <1>2, <2>1, <2>2, <2>3, <2>4, <2>5, <2>6, <2>7, <2>8, <2>9, <2>10, <2>11, <2>12, <2>13, <2>14, <2>15, <2>16, <2>17, <2>18, <2>19, <2>20, <2>21, <2>22, <2>23, <2>24, <2>25, <2>26 DEF Step, Ingest, Pull, Load, Make, Point, Prune
<1>. QED
  BY <1>0, <1>1, <1>2 DEF Next, Step

(* Each step preserves what a command knows of its own temporary file and image. *)
LEMMA CommandStep == TypeOK /\ CommandInv /\ [Next]_vars => CommandInv'
<1>0. SUFFICES ASSUME TypeOK, CommandInv, [Next]_vars PROVE CommandInv'
  OBVIOUS
<1>. USE ConstantsAssumption DEF TypeOK, Files, Digests, PartsOf, PcStates, CommandInv, Writing, Complete, HashOf
<1>1. CASE UNCHANGED vars
  BY <1>0, <1>1 DEF vars
<1>2. ASSUME NEW p \in Procs, Step(p) PROVE CommandInv'
  <2>1. ASSUME IngestChunk(p) PROVE CommandInv'
    BY <1>0, <2>1 DEF IngestChunk, gcVars, pullVars
  <2>2. ASSUME IngestDedup(p) PROVE CommandInv'
    BY <1>0, <2>2 DEF IngestDedup, IngestReturn, gcVars, pullVars
  <2>3. ASSUME IngestFresh(p) PROVE CommandInv'
    BY <1>0, <2>3 DEF IngestFresh, gcVars, pullVars
  <2>4. ASSUME IngestPersist(p) PROVE CommandInv'
    BY <1>0, <2>4 DEF IngestPersist, IngestReturn, gcVars, pullVars
  <2>5. ASSUME NEW r \in Refs, NEW m \in Manifests, PullResolve(p, r, m) PROVE CommandInv'
    BY <1>0, <2>5 DEF PullResolve, MayStart, gcVars, pullVars
  <2>6. ASSUME PullManifest(p) PROVE CommandInv'
    BY <1>0, <2>6 DEF PullManifest, IngestStart, gcVars, pullVars
  <2>7. ASSUME NEW d \in Digests, PullSkip(p, d) PROVE CommandInv'
    BY <1>0, <2>7 DEF PullSkip, gcVars, pullVars
  <2>8. ASSUME NEW d \in Digests, NEW c \in Digests, PullBlob(p, d, c) PROVE CommandInv'
    BY <1>0, <2>8 DEF PullBlob, IngestStart, gcVars, pullVars
  <2>9. ASSUME LoadStart(p) PROVE CommandInv'
    BY <1>0, <2>9 DEF LoadStart, MayStart, gcVars, pullVars
  <2>10. ASSUME NEW d \in Digests, NEW c \in Digests, LoadEntry(p, d, c) PROVE CommandInv'
    BY <1>0, <2>10 DEF LoadEntry, IngestStart, gcVars, pullVars
  <2>11. ASSUME NEW r \in Refs, NEW m \in Manifests, LoadIndex(p, r, m) PROVE CommandInv'
    BY <1>0, <2>11 DEF LoadIndex, gcVars, pullVars
  <2>12. ASSUME NEW d \in Digests, LoadVerify(p, d) PROVE CommandInv'
    BY <1>0, <2>12 DEF LoadVerify, gcVars, pullVars
  <2>13. ASSUME NEW r \in Refs, NEW b \in Refs, NEW m \in Manifests, MakeStart(p, r, b, m) PROVE CommandInv'
    BY <1>0, <2>13 DEF MakeStart, MayStart, gcVars, pullVars
  <2>14. ASSUME NEW d \in Digests, MakeIngest(p, d) PROVE CommandInv'
    BY <1>0, <2>14 DEF MakeIngest, IngestStart, gcVars, pullVars
  <2>15. ASSUME PutImage(p) PROVE CommandInv'
    BY <1>0, <2>15 DEF PutImage, Forget, gcVars, pullVars
  <2>16. ASSUME NEW s \in Refs, NEW r \in Refs, TagResolve(p, s, r) PROVE CommandInv'
    BY <1>0, <2>16 DEF TagResolve, MayStart, gcVars, pullVars
  <2>17. ASSUME NEW r \in Refs, RemoveImage(p, r) PROVE CommandInv'
    BY <1>0, <2>17 DEF RemoveImage, MayStart, gcVars, pullVars
  <2>18. ASSUME NEW u \in SUBSET Refs, PruneStart(p, u) PROVE CommandInv'
    BY <1>0, <2>18 DEF PruneStart, MayPrune, gcVars, pullVars
  <2>19. ASSUME NEW r \in Refs, PruneUntag(p, r) PROVE CommandInv'
    BY <1>0, <2>19 DEF PruneUntag, gcVars, pullVars
  <2>20. ASSUME GcStart(p) PROVE CommandInv'
    BY <1>0, <2>20 DEF GcStart, gcVars, pullVars
  <2>21. ASSUME NEW r \in Refs, GcList(p, r) PROVE CommandInv'
    BY <1>0, <2>21 DEF GcList, gcVars, pullVars
  <2>22. ASSUME NEW d \in Digests, GcMark(p, d) PROVE CommandInv'
    BY <1>0, <2>22 DEF GcMark, gcVars, pullVars
  <2>23. ASSUME GcSweepStart(p) PROVE CommandInv'
    BY <1>0, <2>23 DEF GcSweepStart, gcVars, pullVars
  <2>24. ASSUME NEW d \in Digests, GcSweep(p, d) PROVE CommandInv'
    BY <1>0, <2>24 DEF GcSweep, gcVars, pullVars
  <2>25. ASSUME GcDone(p) PROVE CommandInv'
    BY <1>0, <2>25 DEF GcDone, Forget, gcVars, pullVars
  <2>26. ASSUME Abort(p) PROVE CommandInv'
    BY <1>0, <2>26 DEF Abort, Forget, gcVars, pullVars
  <2>. QED
    BY <1>2, <2>1, <2>2, <2>3, <2>4, <2>5, <2>6, <2>7, <2>8, <2>9, <2>10, <2>11, <2>12, <2>13, <2>14, <2>15, <2>16, <2>17, <2>18, <2>19, <2>20, <2>21, <2>22, <2>23, <2>24, <2>25, <2>26 DEF Step, Ingest, Pull, Load, Make, Point, Prune
<1>. QED
  BY <1>0, <1>1, <1>2 DEF Next, Step

(* What a writing step does to the rest of the store: it removes no blob,   *)
(* leaves the pointers and the collectors alone and, where a prune runs     *)
(* alone, happens during none.                                              *)
Frame(p) ==
    /\ UNCHANGED <<images, gcVars>>
    /\ \A d \in Digests : has_blob(d) => has_blob(d)'
    /\ \A q \in Procs : q # p => pc'[q] = pc[q]
    /\ pc'[p] \notin {"idle", "untag", "list", "sweep"}
    /\ pc[p] \notin {"untag", "list", "sweep"}
    /\ GcAlone /\ PruneAlone => \A q \in Procs : pc[q] \notin {"untag", "list", "sweep"}

LEMMA WriterFrame ==
  ASSUME TypeOK, CommandInv, NEW p \in Procs, Writes(p)
  PROVE  Frame(p)
<1>. USE ConstantsAssumption
     DEF TypeOK, Files, Digests, PcStates, CommandInv, PruneAlone, Pruning, has_blob
<1>1. ASSUME IngestChunk(p) PROVE Frame(p)
  BY <1>1 DEF Frame, IngestChunk, gcVars, pullVars
<1>2. ASSUME IngestDedup(p) PROVE Frame(p)
  BY <1>2 DEF Frame, IngestDedup, IngestReturn, gcVars, pullVars
<1>3. ASSUME IngestFresh(p) PROVE Frame(p)
  BY <1>3 DEF Frame, IngestFresh, gcVars, pullVars
<1>4. ASSUME IngestPersist(p) PROVE Frame(p)
  BY <1>4 DEF Frame, IngestPersist, IngestReturn, gcVars, pullVars
<1>5. ASSUME NEW r \in Refs, NEW m \in Manifests, PullResolve(p, r, m) PROVE Frame(p)
  BY <1>5 DEF Frame, PullResolve, MayStart, gcVars, pullVars
<1>6. ASSUME PullManifest(p) PROVE Frame(p)
  BY <1>6 DEF Frame, PullManifest, IngestStart, gcVars, pullVars
<1>7. ASSUME NEW d \in Digests, PullSkip(p, d) PROVE Frame(p)
  BY <1>7 DEF Frame, PullSkip, gcVars, pullVars
<1>8. ASSUME NEW d \in Digests, NEW c \in Digests, PullBlob(p, d, c) PROVE Frame(p)
  BY <1>8 DEF Frame, PullBlob, IngestStart, gcVars, pullVars
<1>9. ASSUME LoadStart(p) PROVE Frame(p)
  BY <1>9 DEF Frame, LoadStart, MayStart, gcVars, pullVars
<1>10. ASSUME NEW d \in Digests, NEW c \in Digests, LoadEntry(p, d, c) PROVE Frame(p)
  BY <1>10 DEF Frame, LoadEntry, IngestStart, gcVars, pullVars
<1>11. ASSUME NEW r \in Refs, NEW m \in Manifests, LoadIndex(p, r, m) PROVE Frame(p)
  BY <1>11 DEF Frame, LoadIndex, gcVars, pullVars
<1>12. ASSUME NEW d \in Digests, LoadVerify(p, d) PROVE Frame(p)
  BY <1>12 DEF Frame, LoadVerify, gcVars, pullVars
<1>13. ASSUME NEW r \in Refs, NEW b \in Refs, NEW m \in Manifests, MakeStart(p, r, b, m) PROVE Frame(p)
  BY <1>13 DEF Frame, MakeStart, MayStart, gcVars, pullVars
<1>14. ASSUME NEW d \in Digests, MakeIngest(p, d) PROVE Frame(p)
  BY <1>14 DEF Frame, MakeIngest, IngestStart, gcVars, pullVars
<1>. QED
  BY <1>1, <1>2, <1>3, <1>4, <1>5, <1>6, <1>7, <1>8, <1>9, <1>10, <1>11, <1>12, <1>13, <1>14 DEF Writes, Ingest, Pull, Load, Make

(* Each step preserves the integrity of the blobs. *)
LEMMA IntegrityStep == TypeOK /\ CommandInv /\ BlobIntegrity /\ [Next]_vars => BlobIntegrity'
<1>0. SUFFICES ASSUME TypeOK, CommandInv, BlobIntegrity, [Next]_vars PROVE BlobIntegrity'
  OBVIOUS
<1>. USE ConstantsAssumption DEF TypeOK, Files, Digests, PartsOf, PcStates, CommandInv, BlobIntegrity, has_blob
<1>1. CASE UNCHANGED vars
  BY <1>0, <1>1 DEF vars
<1>2. ASSUME NEW p \in Procs, Step(p) PROVE BlobIntegrity'
  <2>1. ASSUME IngestChunk(p) PROVE BlobIntegrity'
    BY <1>0, <2>1 DEF IngestChunk, gcVars, pullVars
  <2>2. ASSUME IngestDedup(p) PROVE BlobIntegrity'
    BY <1>0, <2>2 DEF IngestDedup, IngestReturn, gcVars, pullVars
  <2>3. ASSUME IngestFresh(p) PROVE BlobIntegrity'
    BY <1>0, <2>3 DEF IngestFresh, gcVars, pullVars
  <2>4. ASSUME IngestPersist(p) PROVE BlobIntegrity'
    BY <1>0, <2>4 DEF IngestPersist, IngestReturn, gcVars, pullVars
  <2>5. ASSUME NEW r \in Refs, NEW m \in Manifests, PullResolve(p, r, m) PROVE BlobIntegrity'
    BY <1>0, <2>5 DEF PullResolve, MayStart, gcVars, pullVars
  <2>6. ASSUME PullManifest(p) PROVE BlobIntegrity'
    BY <1>0, <2>6 DEF PullManifest, IngestStart, gcVars, pullVars
  <2>7. ASSUME NEW d \in Digests, PullSkip(p, d) PROVE BlobIntegrity'
    BY <1>0, <2>7 DEF PullSkip, gcVars, pullVars
  <2>8. ASSUME NEW d \in Digests, NEW c \in Digests, PullBlob(p, d, c) PROVE BlobIntegrity'
    BY <1>0, <2>8 DEF PullBlob, IngestStart, gcVars, pullVars
  <2>9. ASSUME LoadStart(p) PROVE BlobIntegrity'
    BY <1>0, <2>9 DEF LoadStart, MayStart, gcVars, pullVars
  <2>10. ASSUME NEW d \in Digests, NEW c \in Digests, LoadEntry(p, d, c) PROVE BlobIntegrity'
    BY <1>0, <2>10 DEF LoadEntry, IngestStart, gcVars, pullVars
  <2>11. ASSUME NEW r \in Refs, NEW m \in Manifests, LoadIndex(p, r, m) PROVE BlobIntegrity'
    BY <1>0, <2>11 DEF LoadIndex, gcVars, pullVars
  <2>12. ASSUME NEW d \in Digests, LoadVerify(p, d) PROVE BlobIntegrity'
    BY <1>0, <2>12 DEF LoadVerify, gcVars, pullVars
  <2>13. ASSUME NEW r \in Refs, NEW b \in Refs, NEW m \in Manifests, MakeStart(p, r, b, m) PROVE BlobIntegrity'
    BY <1>0, <2>13 DEF MakeStart, MayStart, gcVars, pullVars
  <2>14. ASSUME NEW d \in Digests, MakeIngest(p, d) PROVE BlobIntegrity'
    BY <1>0, <2>14 DEF MakeIngest, IngestStart, gcVars, pullVars
  <2>15. ASSUME PutImage(p) PROVE BlobIntegrity'
    BY <1>0, <2>15 DEF PutImage, Forget, gcVars, pullVars
  <2>16. ASSUME NEW s \in Refs, NEW r \in Refs, TagResolve(p, s, r) PROVE BlobIntegrity'
    BY <1>0, <2>16 DEF TagResolve, MayStart, gcVars, pullVars
  <2>17. ASSUME NEW r \in Refs, RemoveImage(p, r) PROVE BlobIntegrity'
    BY <1>0, <2>17 DEF RemoveImage, MayStart, gcVars, pullVars
  <2>18. ASSUME NEW u \in SUBSET Refs, PruneStart(p, u) PROVE BlobIntegrity'
    BY <1>0, <2>18 DEF PruneStart, MayPrune, gcVars, pullVars
  <2>19. ASSUME NEW r \in Refs, PruneUntag(p, r) PROVE BlobIntegrity'
    BY <1>0, <2>19 DEF PruneUntag, gcVars, pullVars
  <2>20. ASSUME GcStart(p) PROVE BlobIntegrity'
    BY <1>0, <2>20 DEF GcStart, gcVars, pullVars
  <2>21. ASSUME NEW r \in Refs, GcList(p, r) PROVE BlobIntegrity'
    BY <1>0, <2>21 DEF GcList, gcVars, pullVars
  <2>22. ASSUME NEW d \in Digests, GcMark(p, d) PROVE BlobIntegrity'
    BY <1>0, <2>22 DEF GcMark, gcVars, pullVars
  <2>23. ASSUME GcSweepStart(p) PROVE BlobIntegrity'
    BY <1>0, <2>23 DEF GcSweepStart, gcVars, pullVars
  <2>24. ASSUME NEW d \in Digests, GcSweep(p, d) PROVE BlobIntegrity'
    BY <1>0, <2>24 DEF GcSweep, gcVars, pullVars
  <2>25. ASSUME GcDone(p) PROVE BlobIntegrity'
    BY <1>0, <2>25 DEF GcDone, Forget, gcVars, pullVars
  <2>26. ASSUME Abort(p) PROVE BlobIntegrity'
    BY <1>0, <2>26 DEF Abort, Forget, gcVars, pullVars
  <2>. QED
    BY <1>2, <2>1, <2>2, <2>3, <2>4, <2>5, <2>6, <2>7, <2>8, <2>9, <2>10, <2>11, <2>12, <2>13, <2>14, <2>15, <2>16, <2>17, <2>18, <2>19, <2>20, <2>21, <2>22, <2>23, <2>24, <2>25, <2>26 DEF Step, Ingest, Pull, Load, Make, Point, Prune
<1>. QED
  BY <1>0, <1>1, <1>2 DEF Next, Step

(* Each step keeps a prune alone. *)
LEMMA AloneStep == TypeOK /\ CommandInv /\ GcAlone /\ PruneAlone /\ [Next]_vars => PruneAlone'
<1>0. SUFFICES ASSUME TypeOK, CommandInv, GcAlone, PruneAlone, [Next]_vars PROVE PruneAlone'
  OBVIOUS
<1>. USE ConstantsAssumption DEF TypeOK, Files, Digests, PartsOf, PcStates, CommandInv, PruneAlone, Pruning
<1>1. CASE UNCHANGED vars
  BY <1>0, <1>1 DEF vars
<1>2. ASSUME NEW p \in Procs, Step(p) PROVE PruneAlone'
  <2>1. CASE Writes(p)
    <3>1. Frame(p)
      <4>. HIDE DEF TypeOK, CommandInv
      <4>. QED BY <1>0, <2>1, WriterFrame
    <3>. QED
      BY <1>0, <3>1 DEF Frame, gcVars
  <2>2. ASSUME PutImage(p) PROVE PruneAlone'
    BY <1>0, <2>2 DEF PutImage, Forget, gcVars, pullVars
  <2>3. ASSUME NEW s \in Refs, NEW r \in Refs, TagResolve(p, s, r) PROVE PruneAlone'
    BY <1>0, <2>3 DEF TagResolve, MayStart, gcVars, pullVars
  <2>4. ASSUME NEW r \in Refs, RemoveImage(p, r) PROVE PruneAlone'
    BY <1>0, <2>4 DEF RemoveImage, MayStart, gcVars, pullVars
  <2>5. ASSUME NEW u \in SUBSET Refs, PruneStart(p, u) PROVE PruneAlone'
    BY <1>0, <2>5 DEF PruneStart, MayPrune, gcVars, pullVars
  <2>6. ASSUME NEW r \in Refs, PruneUntag(p, r) PROVE PruneAlone'
    BY <1>0, <2>6 DEF PruneUntag, gcVars, pullVars
  <2>7. ASSUME GcStart(p) PROVE PruneAlone'
    BY <1>0, <2>7 DEF GcStart, gcVars, pullVars
  <2>8. ASSUME NEW r \in Refs, GcList(p, r) PROVE PruneAlone'
    BY <1>0, <2>8 DEF GcList, gcVars, pullVars
  <2>9. ASSUME NEW d \in Digests, GcMark(p, d) PROVE PruneAlone'
    BY <1>0, <2>9 DEF GcMark, gcVars, pullVars
  <2>10. ASSUME GcSweepStart(p) PROVE PruneAlone'
    BY <1>0, <2>10 DEF GcSweepStart, gcVars, pullVars
  <2>11. ASSUME NEW d \in Digests, GcSweep(p, d) PROVE PruneAlone'
    BY <1>0, <2>11 DEF GcSweep, gcVars, pullVars
  <2>12. ASSUME GcDone(p) PROVE PruneAlone'
    BY <1>0, <2>12 DEF GcDone, Forget, gcVars, pullVars
  <2>13. ASSUME Abort(p) PROVE PruneAlone'
    BY <1>0, <2>13 DEF Abort, Forget, gcVars, pullVars
  <2>. QED
    BY <1>2, <2>1, <2>2, <2>3, <2>4, <2>5, <2>6, <2>7, <2>8, <2>9, <2>10, <2>11, <2>12, <2>13 DEF Step, Writes, Point, Prune
<1>. QED
  BY <1>0, <1>1, <1>2 DEF Next, Step

(* Each step preserves the completeness of the recorded images. *)
LEMMA LiveStep == TypeOK /\ CommandInv /\ GcAlone /\ AloneInv /\ [Next]_vars => LiveRefsComplete'
<1>0. SUFFICES ASSUME TypeOK, CommandInv, GcAlone, AloneInv, [Next]_vars PROVE LiveRefsComplete'
  OBVIOUS
<1>. USE ConstantsAssumption DEF TypeOK, Files, Digests, PartsOf, PcStates, CommandInv, AloneInv, PruneAlone, Pruning, LiveRefsComplete, Present, Obtained, Writing, SweepInv, Reachable, has_blob
<1>1. CASE UNCHANGED vars
  BY <1>0, <1>1 DEF vars
<1>2. ASSUME NEW p \in Procs, Step(p) PROVE LiveRefsComplete'
  <2>1. CASE Writes(p)
    <3>1. Frame(p)
      <4>. HIDE DEF TypeOK, CommandInv
      <4>. QED BY <1>0, <2>1, WriterFrame
    <3>. QED
      BY <1>0, <3>1 DEF Frame, gcVars
  <2>2. ASSUME PutImage(p) PROVE LiveRefsComplete'
    BY <1>0, <2>2 DEF PutImage, Forget, gcVars, pullVars
  <2>3. ASSUME NEW s \in Refs, NEW r \in Refs, TagResolve(p, s, r) PROVE LiveRefsComplete'
    BY <1>0, <2>3 DEF TagResolve, MayStart, gcVars, pullVars
  <2>4. ASSUME NEW r \in Refs, RemoveImage(p, r) PROVE LiveRefsComplete'
    BY <1>0, <2>4 DEF RemoveImage, MayStart, gcVars, pullVars
  <2>5. ASSUME NEW u \in SUBSET Refs, PruneStart(p, u) PROVE LiveRefsComplete'
    BY <1>0, <2>5 DEF PruneStart, MayPrune, gcVars, pullVars
  <2>6. ASSUME NEW r \in Refs, PruneUntag(p, r) PROVE LiveRefsComplete'
    BY <1>0, <2>6 DEF PruneUntag, gcVars, pullVars
  <2>7. ASSUME GcStart(p) PROVE LiveRefsComplete'
    BY <1>0, <2>7 DEF GcStart, gcVars, pullVars
  <2>8. ASSUME NEW r \in Refs, GcList(p, r) PROVE LiveRefsComplete'
    BY <1>0, <2>8 DEF GcList, gcVars, pullVars
  <2>9. ASSUME NEW d \in Digests, GcMark(p, d) PROVE LiveRefsComplete'
    BY <1>0, <2>9 DEF GcMark, gcVars, pullVars
  <2>10. ASSUME GcSweepStart(p) PROVE LiveRefsComplete'
    BY <1>0, <2>10 DEF GcSweepStart, gcVars, pullVars
  <2>11. ASSUME NEW d \in Digests, GcSweep(p, d) PROVE LiveRefsComplete'
    BY <1>0, <2>11 DEF GcSweep, gcVars, pullVars
  <2>12. ASSUME GcDone(p) PROVE LiveRefsComplete'
    BY <1>0, <2>12 DEF GcDone, Forget, gcVars, pullVars
  <2>13. ASSUME Abort(p) PROVE LiveRefsComplete'
    BY <1>0, <2>13 DEF Abort, Forget, gcVars, pullVars
  <2>. QED
    BY <1>2, <2>1, <2>2, <2>3, <2>4, <2>5, <2>6, <2>7, <2>8, <2>9, <2>10, <2>11, <2>12, <2>13 DEF Step, Writes, Point, Prune
<1>. QED
  BY <1>0, <1>1, <1>2 DEF Next, Step

(* Each step preserves what the commands have obtained. *)
LEMMA ObtainedStep == TypeOK /\ CommandInv /\ GcAlone /\ AloneInv /\ [Next]_vars => Obtained'
<1>0. SUFFICES ASSUME TypeOK, CommandInv, GcAlone, AloneInv, [Next]_vars PROVE Obtained'
  OBVIOUS
<1>. USE ConstantsAssumption DEF TypeOK, Files, Digests, PartsOf, PcStates, CommandInv, AloneInv, PruneAlone, Pruning, LiveRefsComplete, Present, Obtained, Writing, has_blob
<1>1. CASE UNCHANGED vars
  BY <1>0, <1>1 DEF vars
<1>2. ASSUME NEW p \in Procs, Step(p) PROVE Obtained'
  <2>1. ASSUME IngestChunk(p) PROVE Obtained'
    BY <1>0, <2>1 DEF IngestChunk, gcVars, pullVars
  <2>2. ASSUME IngestDedup(p) PROVE Obtained'
    BY <1>0, <2>2 DEF IngestDedup, IngestReturn, gcVars, pullVars
  <2>3. ASSUME IngestFresh(p) PROVE Obtained'
    BY <1>0, <2>3 DEF IngestFresh, gcVars, pullVars
  <2>4. ASSUME IngestPersist(p) PROVE Obtained'
    BY <1>0, <2>4 DEF IngestPersist, IngestReturn, gcVars, pullVars
  <2>5. ASSUME NEW r \in Refs, NEW m \in Manifests, PullResolve(p, r, m) PROVE Obtained'
    BY <1>0, <2>5 DEF PullResolve, MayStart, gcVars, pullVars
  <2>6. ASSUME PullManifest(p) PROVE Obtained'
    BY <1>0, <2>6 DEF PullManifest, IngestStart, gcVars, pullVars
  <2>7. ASSUME NEW d \in Digests, PullSkip(p, d) PROVE Obtained'
    BY <1>0, <2>7 DEF PullSkip, gcVars, pullVars
  <2>8. ASSUME NEW d \in Digests, NEW c \in Digests, PullBlob(p, d, c) PROVE Obtained'
    BY <1>0, <2>8 DEF PullBlob, IngestStart, gcVars, pullVars
  <2>9. ASSUME LoadStart(p) PROVE Obtained'
    BY <1>0, <2>9 DEF LoadStart, MayStart, gcVars, pullVars
  <2>10. ASSUME NEW d \in Digests, NEW c \in Digests, LoadEntry(p, d, c) PROVE Obtained'
    BY <1>0, <2>10 DEF LoadEntry, IngestStart, gcVars, pullVars
  <2>11. ASSUME NEW r \in Refs, NEW m \in Manifests, LoadIndex(p, r, m) PROVE Obtained'
    BY <1>0, <2>11 DEF LoadIndex, gcVars, pullVars
  <2>12. ASSUME NEW d \in Digests, LoadVerify(p, d) PROVE Obtained'
    BY <1>0, <2>12 DEF LoadVerify, gcVars, pullVars
  <2>13. ASSUME NEW r \in Refs, NEW b \in Refs, NEW m \in Manifests, MakeStart(p, r, b, m) PROVE Obtained'
    BY <1>0, <2>13 DEF MakeStart, MayStart, gcVars, pullVars
  <2>14. ASSUME NEW d \in Digests, MakeIngest(p, d) PROVE Obtained'
    BY <1>0, <2>14 DEF MakeIngest, IngestStart, gcVars, pullVars
  <2>15. ASSUME PutImage(p) PROVE Obtained'
    BY <1>0, <2>15 DEF PutImage, Forget, gcVars, pullVars
  <2>16. ASSUME NEW s \in Refs, NEW r \in Refs, TagResolve(p, s, r) PROVE Obtained'
    BY <1>0, <2>16 DEF TagResolve, MayStart, gcVars, pullVars
  <2>17. ASSUME NEW r \in Refs, RemoveImage(p, r) PROVE Obtained'
    BY <1>0, <2>17 DEF RemoveImage, MayStart, gcVars, pullVars
  <2>18. ASSUME NEW u \in SUBSET Refs, PruneStart(p, u) PROVE Obtained'
    BY <1>0, <2>18 DEF PruneStart, MayPrune, gcVars, pullVars
  <2>19. ASSUME NEW r \in Refs, PruneUntag(p, r) PROVE Obtained'
    BY <1>0, <2>19 DEF PruneUntag, gcVars, pullVars
  <2>20. ASSUME GcStart(p) PROVE Obtained'
    BY <1>0, <2>20 DEF GcStart, gcVars, pullVars
  <2>21. ASSUME NEW r \in Refs, GcList(p, r) PROVE Obtained'
    BY <1>0, <2>21 DEF GcList, gcVars, pullVars
  <2>22. ASSUME NEW d \in Digests, GcMark(p, d) PROVE Obtained'
    BY <1>0, <2>22 DEF GcMark, gcVars, pullVars
  <2>23. ASSUME GcSweepStart(p) PROVE Obtained'
    BY <1>0, <2>23 DEF GcSweepStart, gcVars, pullVars
  <2>24. ASSUME NEW d \in Digests, GcSweep(p, d) PROVE Obtained'
    BY <1>0, <2>24 DEF GcSweep, gcVars, pullVars
  <2>25. ASSUME GcDone(p) PROVE Obtained'
    BY <1>0, <2>25 DEF GcDone, Forget, gcVars, pullVars
  <2>26. ASSUME Abort(p) PROVE Obtained'
    BY <1>0, <2>26 DEF Abort, Forget, gcVars, pullVars
  <2>. QED
    BY <1>2, <2>1, <2>2, <2>3, <2>4, <2>5, <2>6, <2>7, <2>8, <2>9, <2>10, <2>11, <2>12, <2>13, <2>14, <2>15, <2>16, <2>17, <2>18, <2>19, <2>20, <2>21, <2>22, <2>23, <2>24, <2>25, <2>26 DEF Step, Ingest, Pull, Load, Make, Point, Prune
<1>. QED
  BY <1>0, <1>1, <1>2 DEF Next, Step

(* Each step preserves the state of the mark phase. *)
LEMMA MarkStep == TypeOK /\ CommandInv /\ GcAlone /\ AloneInv /\ [Next]_vars => MarkInv'
<1>0. SUFFICES ASSUME TypeOK, CommandInv, GcAlone, AloneInv, [Next]_vars PROVE MarkInv'
  OBVIOUS
<1>. USE ConstantsAssumption DEF TypeOK, Files, Digests, PartsOf, PcStates, CommandInv, AloneInv, PruneAlone, Pruning, LiveRefsComplete, Present, MarkInv, Reachable, has_blob
<1>1. CASE UNCHANGED vars
  BY <1>0, <1>1 DEF vars
<1>2. ASSUME NEW p \in Procs, Step(p) PROVE MarkInv'
  <2>1. CASE Writes(p)
    <3>1. Frame(p)
      <4>. HIDE DEF TypeOK, CommandInv
      <4>. QED BY <1>0, <2>1, WriterFrame
    <3>. QED
      BY <1>0, <3>1 DEF Frame, gcVars
  <2>2. ASSUME PutImage(p) PROVE MarkInv'
    BY <1>0, <2>2 DEF PutImage, Forget, gcVars, pullVars
  <2>3. ASSUME NEW s \in Refs, NEW r \in Refs, TagResolve(p, s, r) PROVE MarkInv'
    BY <1>0, <2>3 DEF TagResolve, MayStart, gcVars, pullVars
  <2>4. ASSUME NEW r \in Refs, RemoveImage(p, r) PROVE MarkInv'
    BY <1>0, <2>4 DEF RemoveImage, MayStart, gcVars, pullVars
  <2>5. ASSUME NEW u \in SUBSET Refs, PruneStart(p, u) PROVE MarkInv'
    BY <1>0, <2>5 DEF PruneStart, MayPrune, gcVars, pullVars
  <2>6. ASSUME NEW r \in Refs, PruneUntag(p, r) PROVE MarkInv'
    BY <1>0, <2>6 DEF PruneUntag, gcVars, pullVars
  <2>7. ASSUME GcStart(p) PROVE MarkInv'
    BY <1>0, <2>7 DEF GcStart, gcVars, pullVars
  <2>8. ASSUME NEW r \in Refs, GcList(p, r) PROVE MarkInv'
    BY <1>0, <2>8 DEF GcList, gcVars, pullVars
  <2>9. ASSUME NEW d \in Digests, GcMark(p, d) PROVE MarkInv'
    BY <1>0, <2>9 DEF GcMark, gcVars, pullVars
  <2>10. ASSUME GcSweepStart(p) PROVE MarkInv'
    BY <1>0, <2>10 DEF GcSweepStart, gcVars, pullVars
  <2>11. ASSUME NEW d \in Digests, GcSweep(p, d) PROVE MarkInv'
    BY <1>0, <2>11 DEF GcSweep, gcVars, pullVars
  <2>12. ASSUME GcDone(p) PROVE MarkInv'
    BY <1>0, <2>12 DEF GcDone, Forget, gcVars, pullVars
  <2>13. ASSUME Abort(p) PROVE MarkInv'
    BY <1>0, <2>13 DEF Abort, Forget, gcVars, pullVars
  <2>. QED
    BY <1>2, <2>1, <2>2, <2>3, <2>4, <2>5, <2>6, <2>7, <2>8, <2>9, <2>10, <2>11, <2>12, <2>13 DEF Step, Writes, Point, Prune
<1>. QED
  BY <1>0, <1>1, <1>2 DEF Next, Step

(* Each step preserves the state of the sweep. *)
LEMMA SweepStep == TypeOK /\ CommandInv /\ GcAlone /\ AloneInv /\ [Next]_vars => SweepInv'
<1>0. SUFFICES ASSUME TypeOK, CommandInv, GcAlone, AloneInv, [Next]_vars PROVE SweepInv'
  OBVIOUS
<1>. USE ConstantsAssumption DEF TypeOK, Files, Digests, PartsOf, PcStates, CommandInv, AloneInv, PruneAlone, Pruning, LiveRefsComplete, Present, MarkInv, SweepInv, Reachable, has_blob
<1>1. CASE UNCHANGED vars
  BY <1>0, <1>1 DEF vars
<1>2. ASSUME NEW p \in Procs, Step(p) PROVE SweepInv'
  <2>1. CASE Writes(p)
    <3>1. Frame(p)
      <4>. HIDE DEF TypeOK, CommandInv
      <4>. QED BY <1>0, <2>1, WriterFrame
    <3>. QED
      BY <1>0, <3>1 DEF Frame, gcVars
  <2>2. ASSUME PutImage(p) PROVE SweepInv'
    BY <1>0, <2>2 DEF PutImage, Forget, gcVars, pullVars
  <2>3. ASSUME NEW s \in Refs, NEW r \in Refs, TagResolve(p, s, r) PROVE SweepInv'
    BY <1>0, <2>3 DEF TagResolve, MayStart, gcVars, pullVars
  <2>4. ASSUME NEW r \in Refs, RemoveImage(p, r) PROVE SweepInv'
    BY <1>0, <2>4 DEF RemoveImage, MayStart, gcVars, pullVars
  <2>5. ASSUME NEW u \in SUBSET Refs, PruneStart(p, u) PROVE SweepInv'
    BY <1>0, <2>5 DEF PruneStart, MayPrune, gcVars, pullVars
  <2>6. ASSUME NEW r \in Refs, PruneUntag(p, r) PROVE SweepInv'
    BY <1>0, <2>6 DEF PruneUntag, gcVars, pullVars
  <2>7. ASSUME GcStart(p) PROVE SweepInv'
    BY <1>0, <2>7 DEF GcStart, gcVars, pullVars
  <2>8. ASSUME NEW r \in Refs, GcList(p, r) PROVE SweepInv'
    BY <1>0, <2>8 DEF GcList, gcVars, pullVars
  <2>9. ASSUME NEW d \in Digests, GcMark(p, d) PROVE SweepInv'
    BY <1>0, <2>9 DEF GcMark, gcVars, pullVars
  <2>10. ASSUME GcSweepStart(p) PROVE SweepInv'
    <3>1. Reachable = reach[p]
      <4>1. reach[p] \subseteq Reachable
        BY <1>0, <2>10 DEF GcSweepStart
      <4>2. \A r \in Refs : images[r] # None => images[r] \in Manifests \cap reach[p]
        BY <1>0, <2>10 DEF GcSweepStart
      <4>3. \A m \in Manifests \cap reach[p] : PartsOf(m) \subseteq reach[p]
        BY <1>0, <2>10 DEF GcSweepStart
      <4>. QED
        BY <4>1, <4>2, <4>3
    <3>2. Reachable \subseteq {d \in Digests : has_blob(d)}
      BY <1>0
    <3>3. Reachable' = Reachable /\ {d \in Digests : has_blob(d)}' = {d \in Digests : has_blob(d)}
      BY <2>10 DEF GcSweepStart
    <3>4. sweep'[p] = {d \in Digests : has_blob(d)} \ Reachable
      BY <1>0, <3>1, <2>10 DEF GcSweepStart
    <3>5. \A q \in Procs : q # p => pc'[q] = "idle"
      BY <1>0, <2>10 DEF GcSweepStart
    <3>. HIDE DEF Reachable, has_blob
    <3>. QED
      BY <3>2, <3>3, <3>4, <3>5
  <2>11. ASSUME NEW d \in Digests, GcSweep(p, d) PROVE SweepInv'
    BY <1>0, <2>11 DEF GcSweep, gcVars, pullVars
  <2>12. ASSUME GcDone(p) PROVE SweepInv'
    BY <1>0, <2>12 DEF GcDone, Forget, gcVars, pullVars
  <2>13. ASSUME Abort(p) PROVE SweepInv'
    BY <1>0, <2>13 DEF Abort, Forget, gcVars, pullVars
  <2>. QED
    BY <1>2, <2>1, <2>2, <2>3, <2>4, <2>5, <2>6, <2>7, <2>8, <2>9, <2>10, <2>11, <2>12, <2>13 DEF Step, Writes, Point, Prune
<1>. QED
  BY <1>0, <1>1, <1>2 DEF Next, Step

-----------------------------------------------------------------------------
(* The initial states satisfy the inductive invariant.                     *)
LEMMA InitInv == Init => IInv
  BY ConstantsAssumption
     DEF Init, IInv, TypeOK, BlobIntegrity, CommandInv, Writing, AloneInv, PruneAlone, Pruning,
         LiveRefsComplete, Obtained, MarkInv, SweepInv, has_blob, Files, Digests, PcStates

(* Every step of every command keeps the inductive invariant.              *)
LEMMA NextInv == IInv /\ [Next]_vars => IInv'
  BY TypeStep, CommandStep, IntegrityStep, AloneStep, LiveStep, ObtainedStep, MarkStep, SweepStep
     DEF IInv, AloneInv

(* IInv holds of every behaviour of the store.                             *)
THEOREM Invariance == Spec => []IInv
  BY InitInv, NextInv, PTL DEF Spec

(* The variables keep their types.                                         *)
THEOREM TypeCorrect == Spec => []TypeOK
<1>1. IInv => TypeOK
  BY DEF IInv
<1>. QED
  BY <1>1, Invariance, PTL

(* With any interleaving of commands, prunes included, and a failure or a  *)
(* kill anywhere, a blob at its final path is the whole content that       *)
(* hashes to its name (ingest_impl).                                       *)
THEOREM Integrity == Spec => []BlobIntegrity
<1>1. IInv => BlobIntegrity
  BY DEF IInv
<1>. QED
  BY <1>1, Invariance, PTL

(* If no prune overlaps another command, every recorded reference resolves *)
(* to an image whose manifest, config and layers are all stored.           *)
THEOREM Completeness == Spec => [](GcAlone => LiveRefsComplete)
<1>1. IInv => (GcAlone => LiveRefsComplete)
  BY DEF IInv, AloneInv
<1>. QED
  BY <1>1, Invariance, PTL

(* If no prune overlaps another command, gc leaves exactly the blobs the   *)
(* recorded references reach.                                              *)
THEOREM Exactness == Spec => [](GcAlone => GcExact)
<1>1. IInv => (GcAlone => GcExact)
  BY DEF IInv, AloneInv, SweepInv, GcExact
<1>. QED
  BY <1>1, Invariance, PTL

-----------------------------------------------------------------------------
(* While the recorded images are complete, what a user sees is the         *)
(* pointers.                                                               *)
LEMMA UsableIsImages == TypeOK /\ LiveRefsComplete => usable = images
  BY DEF TypeOK, LiveRefsComplete, usable

(* A step of the store is a step of the catalogue or changes nothing.      *)
LEMMA CatalogueStep ==
  ASSUME GcAlone, IInv, IInv', [Next]_vars
  PROVE  [Catalogue!Next]_usable
<1>1. usable = images /\ usable' = images'
  <2>1. (TypeOK /\ LiveRefsComplete => usable = images)'
    BY UsableIsImages, PTL
  <2>. QED
    BY <2>1, UsableIsImages DEF IInv, AloneInv
<1>2. CASE images' = images
  BY <1>1, <1>2
<1>3. CASE images' # images
  <2>1. PICK p \in Procs : Step(p)
    BY <1>3 DEF Next, Step, vars
  <2>2. Point(p) \/ Prune(p)
    <3>1. ~Abort(p)
      BY <1>3 DEF Abort
    <3>2. ~Writes(p)
      BY <1>3, WriterFrame DEF IInv, Frame
    <3>. QED
      BY <2>1, <3>1, <3>2 DEF Step, Writes
  <2>3. CASE PutImage(p)
    <3>1. ref[p] \in Refs /\ man[p] \in Manifests
      BY <2>3 DEF IInv, TypeOK, CommandInv, Writing, PutImage
    <3>. QED
      BY <1>1, <2>3, <3>1 DEF PutImage, Catalogue!Next, Catalogue!Publish
  <2>4. ASSUME NEW r \in Refs, RemoveImage(p, r) \/ PruneUntag(p, r) PROVE Catalogue!Next
    BY <1>1, <2>4 DEF RemoveImage, PruneUntag, Catalogue!Next, Catalogue!Withdraw
  <2>. QED
    BY <1>3, <2>2, <2>3, <2>4
       DEF Point, Prune, TagResolve, PruneStart, GcStart, GcList, GcMark, GcSweepStart, GcSweep, GcDone
<1>. QED
  BY <1>2, <1>3

(* If no prune overlaps another command, the store implements the          *)
(* catalogue, for every number of commands and images.                     *)
THEOREM Refinement == ASSUME GcAlone PROVE Spec => ImplementsCatalogue
<1>1. Init => Catalogue!Init
  BY DEF Init, Catalogue!Init, usable
<1>2. IInv /\ IInv' /\ [Next]_vars => [Catalogue!Next]_usable
  BY CatalogueStep
<1>. QED
  BY <1>1, <1>2, Invariance, PTL DEF Spec, ImplementsCatalogue, Catalogue!Spec

=============================================================================
