---------------------------- MODULE BlobTransfer ----------------------------
(***************************************************************************)
(* The concurrent transfer of an image's blobs in crates/oci-registry:     *)
(* fetch_blobs_concurrently (pull.rs) and its mirror                       *)
(* push_blobs_concurrently (push.rs), with the step each guards: recording *)
(* the image pointer, or pushing the manifest.                             *)
(*                                                                         *)
(* The blobs are digests[0..N-1], config first.  Thread 0 is the caller:   *)
(* it transfers digests[0] itself, then spawns the worker threads          *)
(* 1..WorkerCount-1, which take the next index from an atomic counter      *)
(* until it runs out or the shared flag says that a transfer failed, and   *)
(* joins them in the order it spawned them.                                *)
(***************************************************************************)
EXTENDS Integers

CONSTANTS
    N,          \* how many blobs the manifest names
    Digests,    \* their digests
    DigestOf,   \* digests[i]: the same layer may be named twice
    None

ASSUME ConstantsAssumption ==
    /\ N \in Nat \ {0}
    /\ DigestOf \in [0..N-1 -> Digests]
    /\ None \notin Int

MAX_CONCURRENT_BLOB_FETCHES == 3
MAX_CONCURRENT_BLOB_UPLOADS == 5

VARIABLES
    direction,  \* "pull" or "push"
    present,    \* the blobs at the destination: the store, or the registry
    next_index, \* the shared counter
    failed,     \* the shared flag
    pc, idx,    \* where each thread is, and the index it works on
    result,     \* the index whose error a thread returned, or None
    ret,        \* what the whole call returned: "running", "ok" or an index
    published,  \* whether the image pointer, or the manifest, was written
    late        \* history: how many blobs were taken up after a failure

vars == <<direction, present, next_index, failed, pc, idx, result, ret, published, late>>

MaxWorkers == IF direction = "pull" THEN MAX_CONCURRENT_BLOB_FETCHES
                                    ELSE MAX_CONCURRENT_BLOB_UPLOADS
WorkerCount == IF N < MaxWorkers THEN N ELSE MaxWorkers
Threads == 0..WorkerCount-1
Workers == 1..WorkerCount-1

PcStates == {"unborn", "check", "take", "start", "transfer", "done"}

TypeOK ==
    /\ direction \in {"pull", "push"}
    /\ present \in SUBSET Digests
    /\ next_index \in Nat
    /\ failed \in BOOLEAN
    /\ pc \in [Threads -> PcStates]
    /\ idx \in [Threads -> 0..N-1]
    /\ result \in [Threads -> (0..N-1) \cup {None}]
    /\ ret \in {"running", "ok", "error"}
    /\ published \in BOOLEAN
    /\ late \in Nat

Init ==
    /\ direction \in {"pull", "push"}
    /\ present \in SUBSET Digests
    /\ next_index = 1
    /\ failed = FALSE
    /\ pc = [t \in Threads |-> IF t = 0 THEN "start" ELSE "unborn"]
    /\ idx = [t \in Threads |-> 0]
    /\ result = [t \in Threads |-> None]
    /\ ret = "running"
    /\ published = FALSE
    /\ late = 0

-----------------------------------------------------------------------------
(* After a blob, a worker looks for the next one; the caller has only the  *)
(* first and spawns the workers.                                           *)
Continue(t) ==
    IF t = 0 THEN pc' = [u \in Threads |-> IF u = 0 THEN "done" ELSE "check"]
             ELSE pc' = [pc EXCEPT ![t] = "check"]

(* fetch_blob_if_missing and push_blob_if_missing: a blob the destination  *)
(* has is skipped.                                                         *)
Skip(t) ==
    /\ pc[t] = "start"
    /\ DigestOf[idx[t]] \in present
    /\ Continue(t)
    /\ UNCHANGED <<direction, present, next_index, failed, idx, result, ret, published, late>>

Begin(t) ==
    /\ pc[t] = "start"
    /\ DigestOf[idx[t]] \notin present
    /\ pc' = [pc EXCEPT ![t] = "transfer"]
    /\ UNCHANGED <<direction, present, next_index, failed, idx, result, ret, published, late>>

Transferred(t) ==
    /\ pc[t] = "transfer"
    /\ present' = present \cup {DigestOf[idx[t]]}
    /\ Continue(t)
    /\ UNCHANGED <<direction, next_index, failed, idx, result, ret, published, late>>

(* A request fails.  The question whether the store has a blob cannot, the *)
(* question whether the registry has it can.                               *)
Fail(t) ==
    /\ pc[t] = "transfer" \/ (pc[t] = "start" /\ direction = "push")
    /\ failed' = TRUE
    /\ result' = [result EXCEPT ![t] = idx[t]]
    /\ IF t = 0 THEN pc' = [u \in Threads |-> IF u = 0 THEN "done" ELSE "check"]
                ELSE pc' = [pc EXCEPT ![t] = "done"]
    /\ UNCHANGED <<direction, present, next_index, idx, ret, published, late>>

(* Mutant: the flag is not looked at.                                      *)
CheckNothing(w) ==
    /\ pc[w] = "check"
    /\ pc' = [pc EXCEPT ![w] = "take"]
    /\ UNCHANGED <<direction, present, next_index, failed, idx, result, ret, published, late>>

(* The worker loop: look at the flag, then take an index.                  *)
Check(w) ==
    /\ pc[w] = "check"
    /\ pc' = [pc EXCEPT ![w] = IF failed THEN "done" ELSE "take"]
    /\ UNCHANGED <<direction, present, next_index, failed, idx, result, ret, published, late>>

(* Mutant: the counter is read and not advanced.                           *)
TakeSame(w) ==
    /\ pc[w] = "take"
    /\ next_index' = IF next_index < N - 1 THEN next_index ELSE next_index + 1
    /\ IF next_index < N
       THEN /\ idx' = [idx EXCEPT ![w] = next_index]
            /\ pc' = [pc EXCEPT ![w] = "start"]
            /\ late' = IF failed THEN late + 1 ELSE late
       ELSE /\ pc' = [pc EXCEPT ![w] = "done"]
            /\ UNCHANGED <<idx, late>>
    /\ UNCHANGED <<direction, present, failed, result, ret, published>>

(* Mutant: the bound is off by one.                                        *)
TakePast(w) ==
    /\ pc[w] = "take"
    /\ next_index' = next_index + 1
    /\ IF next_index <= N
       THEN /\ idx' = [idx EXCEPT ![w] = next_index]
            /\ pc' = [pc EXCEPT ![w] = "start"]
            /\ late' = IF failed THEN late + 1 ELSE late
       ELSE /\ pc' = [pc EXCEPT ![w] = "done"]
            /\ UNCHANGED <<idx, late>>
    /\ UNCHANGED <<direction, present, failed, result, ret, published>>

(* Mutant: the end of the list does not end the loop.                      *)
TakeOn(w) ==
    /\ pc[w] = "take"
    /\ next_index' = IF next_index < N THEN next_index + 1 ELSE next_index
    /\ IF next_index < N
       THEN /\ idx' = [idx EXCEPT ![w] = next_index]
            /\ pc' = [pc EXCEPT ![w] = "start"]
            /\ late' = IF failed THEN late + 1 ELSE late
       ELSE /\ pc' = [pc EXCEPT ![w] = "check"]
            /\ UNCHANGED <<idx, late>>
    /\ UNCHANGED <<direction, present, failed, result, ret, published>>

Take(w) ==
    /\ pc[w] = "take"
    /\ next_index' = next_index + 1
    /\ IF next_index < N
       THEN /\ idx' = [idx EXCEPT ![w] = next_index]
            /\ pc' = [pc EXCEPT ![w] = "start"]
            /\ late' = IF failed THEN late + 1 ELSE late
       ELSE /\ pc' = [pc EXCEPT ![w] = "done"]
            /\ UNCHANGED <<idx, late>>
    /\ UNCHANGED <<direction, present, failed, result, ret, published>>

(* All threads joined: the first error in thread order is returned, and    *)
(* otherwise the image is published.                                       *)
Joined == ret = "running" /\ \A t \in Threads : pc[t] = "done"

ReturnError ==
    /\ Joined
    /\ \E t \in Threads : result[t] # None
    /\ ret' = "error"
    /\ UNCHANGED <<direction, present, next_index, failed, pc, idx, result, published, late>>

(* Mutant: the pointer is recorded although a worker failed.               *)
PutImageAnyway ==
    /\ Joined
    /\ direction = "pull"
    /\ ret' = "ok"
    /\ published' = TRUE
    /\ UNCHANGED <<direction, present, next_index, failed, pc, idx, result, late>>

(* pull: store.put_image.                                                  *)
PutImage ==
    /\ Joined
    /\ direction = "pull"
    /\ \A t \in Threads : result[t] = None
    /\ ret' = "ok"
    /\ published' = TRUE
    /\ UNCHANGED <<direction, present, next_index, failed, pc, idx, result, late>>

(* push: client.push_manifest, a request of its own.                       *)
PushManifest ==
    /\ Joined
    /\ direction = "push"
    /\ \A t \in Threads : result[t] = None
    /\ \/ ret' = "ok" /\ published' = TRUE
       \/ ret' = "error" /\ UNCHANGED published
    /\ UNCHANGED <<direction, present, next_index, failed, pc, idx, result, late>>

-----------------------------------------------------------------------------
Transfer(t) == Skip(t) \/ Begin(t) \/ Transferred(t) \/ Fail(t)
Loop(w) == Check(w) \/ Take(w)
Return == ReturnError \/ PutImage \/ PushManifest

Next ==
    \/ \E t \in Threads : Transfer(t)
    \/ \E w \in Workers : Loop(w)
    \/ Return

Spec == Init /\ [][Next]_vars

(* Threads are scheduled, and every request ends: the client sets a global *)
(* timeout of 30 seconds.                                                  *)
Fairness ==
    /\ \A t \in 0..N-1 : WF_vars(t \in Threads /\ Transfer(t))
    /\ \A w \in 1..N-1 : WF_vars(w \in Workers /\ Loop(w))
    /\ WF_vars(Return)

FairSpec == Spec /\ Fairness

-----------------------------------------------------------------------------
(* An image is published, its pointer recorded or its manifest pushed,     *)
(* only when every blob it names is at the destination, whichever worker   *)
(* was to transfer it and whoever failed.                                  *)
PublishedWhole == published => \A i \in 0..N-1 : DigestOf[i] \in present

(* No blob index is worked on by two threads, and none is skipped: what    *)
(* the counter has passed is present, being transferred, or was reported   *)
(* as failed.                                                              *)
NoIndexLost ==
    /\ \A t, u \in Threads : pc[t] \in {"start", "transfer"} /\ pc[u] \in {"start", "transfer"}
         /\ idx[t] = idx[u] => t = u
    /\ \A i \in 0..N-1 : i < next_index =>
         \/ DigestOf[i] \in present
         \/ \E t \in Threads : idx[t] = i /\ (pc[t] \in {"start", "transfer"} \/ result[t] = i)

(* Once a transfer failed, every other worker takes up at most the one     *)
(* blob it was about to: the flag is read before every index is taken.     *)
FailureStops == late <= (IF WorkerCount > 1 THEN WorkerCount - 2 ELSE 0)

(* The call returns: no thread waits for another, and none runs on.        *)
Returns == <>(ret # "running")

=============================================================================
