------------------------- MODULE BlobTransfer_proofs -------------------------
(***************************************************************************)
(* The transfer of BlobTransfer for any number of blobs, named in any      *)
(* order and any number of times, in either direction.                     *)
(***************************************************************************)
EXTENDS BlobTransfer, FiniteSets, FiniteSetTheorems, TLAPS

Working(t) == pc[t] \in {"start", "transfer"}

(* The caller handles digests[0] before any worker exists.                 *)
CallerInv ==
    /\ pc[0] \in {"start", "transfer", "done"}
    /\ Working(0) => /\ idx[0] = 0 /\ next_index = 1
                     /\ \A w \in Workers : pc[w] = "unborn"
    /\ \A w \in Workers : pc[w] = "unborn" => Working(0)

(* What a thread's index and result say.                                   *)
ThreadInv == \A t \in Threads :
    /\ Working(t) => idx[t] < next_index
    /\ result[t] # None => pc[t] = "done" /\ result[t] = idx[t]

(* The flag is up because a thread failed, and a worker that returned      *)
(* without an error saw the flag or the end of the list.                   *)
FlagInv ==
    /\ failed => \E t \in Threads : result[t] # None
    /\ \A w \in Workers : pc[w] = "done" /\ result[w] = None => failed \/ next_index >= N

IInv == TypeOK /\ next_index >= 1 /\ CallerInv /\ ThreadInv /\ FlagInv /\ NoIndexLost /\ PublishedWhole

(* The workers past the look at the flag, and how many blobs they may      *)
(* still take up: one each, and the worker that failed is not among them.  *)
Taking == {w \in Workers : pc[w] = "take"}
MaxLate == IF WorkerCount > 1 THEN WorkerCount - 2 ELSE 0

StopInv ==
    /\ ~failed => late = 0
    /\ failed => late + Cardinality(Taking) <= MaxLate

(* The threads are the caller and the workers.                             *)
LEMMA ThreadsFact ==
  /\ WorkerCount \in Nat \ {0} /\ WorkerCount <= N
  /\ 0 \in Threads /\ Workers = Threads \ {0} /\ Workers \subseteq Int
  /\ Workers = {} => N = 1
<1>1. MaxWorkers \in {3, 5}
  BY DEF MaxWorkers, MAX_CONCURRENT_BLOB_FETCHES, MAX_CONCURRENT_BLOB_UPLOADS
<1>2. WorkerCount \in Nat \ {0} /\ WorkerCount <= N /\ (WorkerCount = 1 => N = 1)
  BY <1>1, ConstantsAssumption DEF WorkerCount
<1>3. Workers = {} => WorkerCount = 1
  <2>1. WorkerCount # 1 => 1 \in Workers
    BY <1>2 DEF Workers
  <2>. QED
    BY <2>1
<1>. QED
  BY <1>2, <1>3 DEF Threads, Workers

(* No step changes the direction, or how many threads there are.           *)
LEMMA DirectionStep == [Next]_vars =>
  direction' = direction /\ WorkerCount' = WorkerCount /\ Threads' = Threads /\ Workers' = Workers
<1>1. [Next]_vars => direction' = direction
  BY DEF Next, vars, Transfer, Loop, Return, Skip, Begin, Transferred, Fail, Check, Take,
         ReturnError, PutImage, PushManifest
<1>. QED
  BY <1>1 DEF WorkerCount, MaxWorkers, Threads, Workers

(* The initial states satisfy the inductive invariant.                     *)
LEMMA InitInv == Init => IInv
<1>. SUFFICES ASSUME Init PROVE IInv
  OBVIOUS
<1>. USE ConstantsAssumption, ThreadsFact
<1>1. TypeOK
  <2>1. 0 \in 0..N-1 /\ next_index \in Nat /\ late \in Nat
    BY DEF Init
  <2>2. pc \in [Threads -> PcStates]
    BY DEF Init, PcStates
  <2>3. failed \in BOOLEAN /\ published \in BOOLEAN
    BY Zenon DEF Init
  <2>. QED
    BY <2>1, <2>2, <2>3 DEF Init, TypeOK
<1>2. next_index >= 1 /\ CallerInv /\ ThreadInv
  BY DEF Init, CallerInv, ThreadInv, Working
<1>3. FlagInv /\ PublishedWhole
  BY DEF Init, FlagInv, PublishedWhole
<1>4. NoIndexLost
  <2>1. \A i \in 0..N-1 : i < next_index => i = 0
    BY DEF Init
  <2>2. idx[0] = 0 /\ pc[0] = "start"
    BY DEF Init
  <2>3. \A t \in Threads : pc[t] \in {"start", "transfer"} => t = 0
    BY DEF Init
  <2>. QED
    BY <2>1, <2>2, <2>3 DEF NoIndexLost
<1>. QED
  BY <1>1, <1>2, <1>3, <1>4 DEF IInv

(* Every step keeps the types.                                             *)
LEMMA TypeStep == TypeOK /\ [Next]_vars => TypeOK'
<1>. SUFFICES ASSUME TypeOK, [Next]_vars PROVE TypeOK'
  OBVIOUS
<1>d. direction' = direction /\ Threads' = Threads /\ Workers' = Workers
  BY DirectionStep
<1>. USE ConstantsAssumption, ThreadsFact, <1>d DEF TypeOK, PcStates
<1>1. CASE UNCHANGED vars
  BY <1>1 DEF vars
<1>2. ASSUME NEW t \in Threads, Skip(t) PROVE TypeOK'
  BY <1>2 DEF Skip, Continue
<1>3. ASSUME NEW t \in Threads, Begin(t) PROVE TypeOK'
  BY <1>3 DEF Begin
<1>4. ASSUME NEW t \in Threads, Transferred(t) PROVE TypeOK'
  <2>1. DigestOf[idx[t]] \in Digests
    OBVIOUS
  <2>. QED
    BY <1>4, <2>1 DEF Transferred, Continue
<1>5. ASSUME NEW t \in Threads, Fail(t) PROVE TypeOK'
  BY <1>5 DEF Fail
<1>6. ASSUME NEW w \in Workers, Check(w) PROVE TypeOK'
  BY <1>6 DEF Check
<1>7. ASSUME NEW w \in Workers, Take(w) PROVE TypeOK'
  <2>1. next_index < N => next_index \in 0..N-1
    OBVIOUS
  <2>. QED
    BY <1>7, <2>1 DEF Take
<1>8. CASE ReturnError
  BY <1>8 DEF ReturnError
<1>9. CASE PutImage
  BY <1>9 DEF PutImage
<1>10. CASE PushManifest
  BY <1>10 DEF PushManifest
<1>. QED
  BY <1>1, <1>2, <1>3, <1>4, <1>5, <1>6, <1>7, <1>8, <1>9, <1>10 DEF Next, Transfer, Loop, Return

(* Every step keeps the counter positive and what is known of the caller,  *)
(* the threads' indices and the flag.                                      *)
LEMMA LocalStep ==
  IInv /\ [Next]_vars => (next_index >= 1 /\ CallerInv /\ ThreadInv /\ FlagInv)'
<1>. SUFFICES ASSUME IInv, [Next]_vars
              PROVE (next_index >= 1 /\ CallerInv /\ ThreadInv /\ FlagInv)'
  OBVIOUS
<1>. DEFINE Local == next_index >= 1 /\ CallerInv /\ ThreadInv /\ FlagInv
<1>. SUFFICES Local'
  OBVIOUS
<1>0. TypeOK /\ Local
  BY DEF IInv
<1>d. direction' = direction /\ Threads' = Threads /\ Workers' = Workers
  BY DirectionStep
<1>. USE ConstantsAssumption, ThreadsFact, <1>0, <1>d
     DEF TypeOK, PcStates, CallerInv, Working, ThreadInv, FlagInv
<1>1. CASE UNCHANGED vars
  BY <1>1 DEF vars
<1>2. ASSUME NEW t \in Threads, Skip(t) PROVE Local'
  BY <1>2 DEF Skip, Continue
<1>3. ASSUME NEW t \in Threads, Begin(t) PROVE Local'
  BY <1>3 DEF Begin
<1>4. ASSUME NEW t \in Threads, Transferred(t) PROVE Local'
  BY <1>4 DEF Transferred, Continue
<1>5. ASSUME NEW t \in Threads, Fail(t) PROVE Local'
  BY <1>5 DEF Fail
<1>6. ASSUME NEW w \in Workers, Check(w) PROVE Local'
  BY <1>6 DEF Check
<1>7. ASSUME NEW w \in Workers, Take(w) PROVE Local'
  BY <1>7 DEF Take
<1>8. CASE Return
  BY <1>8 DEF Return, ReturnError, PutImage, PushManifest
<1>. QED
  BY <1>1, <1>2, <1>3, <1>4, <1>5, <1>6, <1>7, <1>8 DEF Next, Transfer, Loop

(* Every step keeps track of every index.                                  *)
LEMMA IndexStep == IInv /\ [Next]_vars => NoIndexLost'
<1>. SUFFICES ASSUME IInv, [Next]_vars PROVE NoIndexLost'
  OBVIOUS
<1>d. direction' = direction /\ Threads' = Threads /\ Workers' = Workers
  BY DirectionStep
<1>. USE ConstantsAssumption, ThreadsFact, <1>d
     DEF IInv, TypeOK, PcStates, CallerInv, Working, ThreadInv, NoIndexLost
<1>1. CASE UNCHANGED vars
  BY <1>1 DEF vars
<1>2. ASSUME NEW t \in Threads, Skip(t) PROVE NoIndexLost'
  BY <1>2 DEF Skip, Continue
<1>3. ASSUME NEW t \in Threads, Begin(t) PROVE NoIndexLost'
  BY <1>3 DEF Begin
<1>4. ASSUME NEW t \in Threads, Transferred(t) PROVE NoIndexLost'
  BY <1>4 DEF Transferred, Continue
<1>5. ASSUME NEW t \in Threads, Fail(t) PROVE NoIndexLost'
  <2>1. \A u \in Threads : pc'[u] \in {"start", "transfer"} => pc[u] \in {"start", "transfer"}
    BY <1>5 DEF Fail
  <2>2. idx' = idx /\ next_index' = next_index /\ present' = present
    BY <1>5 DEF Fail
  <2>3. \A t1, u \in Threads :
          /\ pc'[t1] \in {"start", "transfer"} /\ pc'[u] \in {"start", "transfer"}
          /\ idx'[t1] = idx'[u]
          => t1 = u
    BY <2>1, <2>2
  <2>4. ASSUME NEW u \in Threads, NEW i \in 0..N-1, idx[u] = i,
               pc[u] \in {"start", "transfer"} \/ result[u] = i
        PROVE  pc'[u] \in {"start", "transfer"} \/ result'[u] = i
    <3>1. CASE u = t
      BY <1>5, <2>4, <3>1 DEF Fail
    <3>2. CASE u # t
      BY <1>5, <2>4, <3>2 DEF Fail
    <3>. QED
      BY <3>1, <3>2
  <2>. QED
    BY <2>2, <2>3, <2>4
<1>6. ASSUME NEW w \in Workers, Check(w) PROVE NoIndexLost'
  BY <1>6 DEF Check
<1>7. ASSUME NEW w \in Workers, Take(w) PROVE NoIndexLost'
  <2>0. w \in Threads /\ ~(pc[w] \in {"start", "transfer"}) /\ result[w] = None
    BY <1>7 DEF Take
  <2>1. CASE next_index < N
    <3>1. /\ next_index \in 0..N-1 /\ next_index' = next_index + 1
          /\ idx' = [idx EXCEPT ![w] = next_index]
          /\ pc' = [pc EXCEPT ![w] = "start"]
          /\ present' = present /\ result' = result
      BY <1>7, <2>1 DEF Take
    <3>2. \A t, u \in Threads :
            /\ pc'[t] \in {"start", "transfer"} /\ pc'[u] \in {"start", "transfer"}
            /\ idx'[t] = idx'[u]
            => t = u
      BY <2>0, <3>1
    <3>3. ASSUME NEW i \in 0..N-1, i < next_index', DigestOf[i] \notin present
          PROVE  \E t \in Threads : idx'[t] = i /\ (pc'[t] \in {"start", "transfer"} \/ result'[t] = i)
      <4>1. CASE i = next_index
        BY <2>0, <3>1, <4>1
      <4>2. CASE i < next_index
        <5>1. PICK t \in Threads : idx[t] = i /\ (pc[t] \in {"start", "transfer"} \/ result[t] = i)
          BY <3>3, <4>2
        <5>2. t # w
          BY <2>0, <5>1
        <5>. QED
          BY <3>1, <5>1, <5>2
      <4>. QED
        BY <3>1, <3>3, <4>1, <4>2
    <3>. QED
      BY <3>1, <3>2, <3>3
  <2>2. CASE ~(next_index < N)
    <3>1. /\ next_index' = next_index + 1 /\ idx' = idx
          /\ pc' = [pc EXCEPT ![w] = "done"]
          /\ present' = present /\ result' = result
      BY <1>7, <2>2 DEF Take
    <3>2. \A t \in Threads : pc'[t] \in {"start", "transfer"} <=> pc[t] \in {"start", "transfer"}
      BY <2>0, <3>1
    <3>3. \A t, u \in Threads :
            /\ pc'[t] \in {"start", "transfer"} /\ pc'[u] \in {"start", "transfer"}
            /\ idx'[t] = idx'[u]
            => t = u
      BY <3>1, <3>2
    <3>4. ASSUME NEW i \in 0..N-1, DigestOf[i] \notin present
          PROVE  \E t \in Threads : idx'[t] = i /\ (pc'[t] \in {"start", "transfer"} \/ result'[t] = i)
      <4>1. i < next_index
        BY <2>2
      <4>2. PICK t \in Threads : idx[t] = i /\ (pc[t] \in {"start", "transfer"} \/ result[t] = i)
        BY <3>4, <4>1
      <4>. QED
        BY <3>1, <3>2, <4>2
    <3>. QED
      BY <3>1, <3>3, <3>4
  <2>. QED
    BY <2>1, <2>2
<1>8. CASE Return
  BY <1>8 DEF Return, ReturnError, PutImage, PushManifest
<1>. QED
  BY <1>1, <1>2, <1>3, <1>4, <1>5, <1>6, <1>7, <1>8 DEF Next, Transfer, Loop

(* Only the last step publishes, and then every index was transferred.     *)
LEMMA PublishStep == IInv /\ [Next]_vars => PublishedWhole'
<1>. SUFFICES ASSUME IInv, [Next]_vars PROVE PublishedWhole'
  OBVIOUS
<1>1. present \subseteq present'
  BY DEF Next, vars, Transfer, Loop, Return, Skip, Begin, Transferred, Fail, Check, Take,
         ReturnError, PutImage, PushManifest
<1>2. CASE PutImage \/ PushManifest
  <2>1. /\ \A t \in Threads : pc[t] = "done" /\ result[t] = None
        /\ present' = present
    BY <1>2 DEF PutImage, PushManifest, Joined
  <2>2. ~failed
    BY <2>1 DEF IInv, FlagInv
  <2>3. next_index >= N
    <3>1. CASE Workers = {}
      BY <3>1, ThreadsFact DEF IInv
    <3>2. CASE Workers # {}
      BY <3>2, <2>1, <2>2, ThreadsFact DEF IInv, FlagInv
    <3>. QED
      BY <3>1, <3>2
  <2>4. ASSUME NEW i \in 0..N-1 PROVE DigestOf[i] \in present
    <3>1. i < next_index
      BY <2>3, ConstantsAssumption DEF IInv, TypeOK
    <3>2. i # None
      BY ConstantsAssumption
    <3>. QED
      BY <2>1, <3>1, <3>2 DEF IInv, NoIndexLost
  <2>. QED
    BY <2>1, <2>4 DEF PublishedWhole
<1>3. CASE ~(PutImage \/ PushManifest)
  <2>1. published' = published
    BY <1>3 DEF Next, vars, Transfer, Loop, Return, Skip, Begin, Transferred, Fail, Check, Take,
         ReturnError
  <2>. QED
    BY <1>1, <2>1 DEF IInv, PublishedWhole
<1>. QED
  BY <1>2, <1>3

(* The inductive invariant holds in every reachable state.                 *)
THEOREM Invariance == Spec => []IInv
<1>1. IInv /\ [Next]_vars => IInv'
  BY TypeStep, LocalStep, IndexStep, PublishStep DEF IInv
<1>. QED
  BY InitInv, <1>1, PTL DEF Spec

(* Counter, indices and results keep their types: no worker ever holds an  *)
(* index past the end of the list, although the counter runs past it.      *)
THEOREM TypeCorrect == Spec => []TypeOK
<1>1. IInv => TypeOK
  BY DEF IInv
<1>. QED
  BY Invariance, <1>1, PTL

(* However many blobs the manifest names and however often, no index is    *)
(* worked on twice or dropped by the workers' shared counter.              *)
THEOREM IndexSafety == Spec => []NoIndexLost
<1>1. IInv => NoIndexLost
  BY DEF IInv
<1>. QED
  BY Invariance, <1>1, PTL

(* A pull records the pointer, and a push sends the manifest, only when    *)
(* every blob the manifest names has arrived.                              *)
THEOREM PublicationSafety == Spec => []PublishedWhole
<1>1. IInv => PublishedWhole
  BY DEF IInv
<1>. QED
  BY Invariance, <1>1, PTL

(* A set of workers is finite, and smaller than their number when one is   *)
(* not in it.                                                              *)
LEMMA WorkersCount ==
  /\ \A S \in SUBSET Workers : IsFiniteSet(S) /\ Cardinality(S) \in Nat
  /\ \A S \in SUBSET Workers : \A w \in Workers : w \notin S => Cardinality(S) <= MaxLate
<1>1. IsFiniteSet(Workers) /\ Cardinality(Workers) = WorkerCount - 1
  BY ThreadsFact, FS_Interval DEF Workers
<1>2. ASSUME NEW S \in SUBSET Workers PROVE IsFiniteSet(S) /\ Cardinality(S) \in Nat
  BY <1>1, FS_Subset, FS_CardinalityType
<1>3. ASSUME NEW S \in SUBSET Workers, NEW w \in Workers, w \notin S
      PROVE  Cardinality(S) <= MaxLate
  <2>1. IsFiniteSet(Workers \ {w}) /\ Cardinality(Workers \ {w}) = WorkerCount - 2
    BY <1>1, FS_RemoveElement, ThreadsFact
  <2>2. S \in SUBSET (Workers \ {w})
    BY <1>3
  <2>3. Cardinality(S) <= WorkerCount - 2
    BY <2>1, <2>2, FS_Subset
  <2>4. WorkerCount > 1
    BY <1>3, ThreadsFact DEF Workers
  <2>. QED
    BY <2>3, <2>4 DEF MaxLate
<1>. QED
  BY <1>2, <1>3

(* No step lets more blobs be taken up after a failure than workers were   *)
(* about to take one.                                                      *)
LEMMA StopStep == IInv /\ StopInv /\ [Next]_vars => StopInv'
<1>. SUFFICES ASSUME IInv, StopInv, [Next]_vars PROVE StopInv'
  OBVIOUS
<1>d. Threads' = Threads /\ Workers' = Workers /\ MaxLate' = MaxLate
  BY DirectionStep DEF MaxLate
<1>0. /\ Taking \in SUBSET Workers /\ Taking' \in SUBSET Workers
      /\ MaxLate \in Nat /\ late \in Nat /\ pc \in [Threads -> PcStates]
  BY <1>d, ThreadsFact DEF Taking, MaxLate, IInv, TypeOK
<1>c. /\ IsFiniteSet(Taking) /\ Cardinality(Taking) \in Nat
      /\ IsFiniteSet(Taking') /\ Cardinality(Taking') \in Nat
  BY <1>0, WorkersCount
<1>same. ASSUME failed' = failed, late' = late, failed => Taking' = Taking PROVE StopInv'
  BY <1>same, <1>d DEF StopInv
<1>1. CASE UNCHANGED vars
  BY <1>1, <1>same, <1>d DEF vars, Taking
<1>2. ASSUME NEW t \in Threads, Skip(t) \/ Begin(t) \/ Transferred(t) PROVE StopInv'
  <2>1. failed' = failed /\ late' = late /\ Working(t)
    BY <1>2 DEF Skip, Begin, Transferred, Working
  <2>2. ASSUME NEW w \in Workers PROVE pc'[w] = "take" <=> pc[w] = "take"
    <3>1. CASE t = 0
      BY <1>0, <1>2, <2>2, <3>1, ThreadsFact
         DEF Skip, Begin, Transferred, Continue, IInv, CallerInv, Working
    <3>2. CASE t # 0
      BY <1>0, <1>2, <2>2, <3>2, ThreadsFact DEF Skip, Begin, Transferred, Continue
    <3>. QED
      BY <3>1, <3>2
  <2>3. Taking' = Taking
    BY <2>2, <1>d DEF Taking
  <2>. QED
    BY <2>1, <2>3, <1>same
<1>3. ASSUME NEW t \in Threads, Fail(t) PROVE StopInv'
  <2>1. failed' /\ late' = late /\ Working(t)
    BY <1>3 DEF Fail, Working
  <2>2. CASE t = 0
    <3>1. \A u \in Threads : result[u] = None
      BY <2>1, <2>2, ThreadsFact DEF IInv, CallerInv, ThreadInv, Working
    <3>2. late = 0
      BY <3>1 DEF IInv, FlagInv, StopInv
    <3>3. \A w \in Workers : pc'[w] = "check"
      BY <1>3, <2>2, ThreadsFact DEF Fail
    <3>4. Taking' = {}
      BY <3>3, <1>d DEF Taking
    <3>. QED
      BY <2>1, <3>2, <3>4, <1>0, <1>d, FS_EmptySet DEF StopInv
  <2>3. CASE t # 0
    <3>1. t \in Workers /\ t \notin Taking
      BY <2>1, <2>3, ThreadsFact DEF Working, Taking
    <3>2. pc' = [pc EXCEPT ![t] = "done"]
      BY <1>3, <2>3 DEF Fail
    <3>3. Taking' = Taking
      BY <3>1, <3>2, <1>0, <1>d, ThreadsFact DEF Taking
    <3>4. Cardinality(Taking) <= MaxLate
      BY <3>1, <1>0, WorkersCount
    <3>. QED
      BY <2>1, <3>3, <3>4, <1>0, <1>c, <1>d DEF StopInv
  <2>. QED
    BY <2>2, <2>3
<1>4. ASSUME NEW w \in Workers, Check(w) PROVE StopInv'
  <2>1. failed' = failed /\ late' = late
    BY <1>4 DEF Check
  <2>2. failed => pc' = [pc EXCEPT ![w] = "done"] /\ pc[w] = "check"
    BY <1>4 DEF Check
  <2>3. failed => Taking' = Taking
    BY <2>2, <1>0, <1>d, ThreadsFact DEF Taking
  <2>. QED
    BY <2>1, <2>3, <1>same
<1>5. ASSUME NEW w \in Workers, Take(w) PROVE StopInv'
  <2>1. /\ failed' = failed /\ w \in Taking
        /\ late' \in {late, late + 1} /\ (~failed => late' = late)
    BY <1>5 DEF Take, Taking
  <2>2. pc' = [pc EXCEPT ![w] = "start"] \/ pc' = [pc EXCEPT ![w] = "done"]
    BY <1>5 DEF Take
  <2>3. Taking' = Taking \ {w}
    BY <2>2, <1>0, <1>d, ThreadsFact DEF Taking
  <2>4. Cardinality(Taking') = Cardinality(Taking) - 1
    BY <2>1, <2>3, <1>c, FS_RemoveElement
  <2>. QED
    BY <2>1, <2>4, <1>0, <1>c, <1>d DEF StopInv
<1>6. CASE Return
  BY <1>6, <1>same, <1>d DEF Return, ReturnError, PutImage, PushManifest, Taking
<1>. QED
  BY <1>1, <1>2, <1>3, <1>4, <1>5, <1>6 DEF Next, Transfer, Loop

(* After a failure at most one blob more is taken up by every worker other *)
(* than the one that failed, however many are left to transfer.            *)
THEOREM FailureContained == Spec => []FailureStops
<1>1. Init => StopInv
  BY DEF Init, StopInv
<1>2. IInv /\ StopInv => FailureStops
  <2>. SUFFICES ASSUME IInv, StopInv PROVE late <= MaxLate
    BY DEF FailureStops, MaxLate
  <2>1. Cardinality(Taking) \in Nat /\ MaxLate \in Nat /\ late \in Nat
    BY WorkersCount, ThreadsFact DEF Taking, MaxLate, IInv, TypeOK
  <2>. QED
    BY <2>1 DEF StopInv
<1>. QED
  BY Invariance, StopStep, <1>1, <1>2, PTL DEF Spec

=============================================================================
