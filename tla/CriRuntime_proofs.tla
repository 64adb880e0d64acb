-------------------------- MODULE CriRuntime_proofs --------------------------
(***************************************************************************)
(* The calls of CriRuntime, for any number of pods, containers, launchers  *)
(* and calls, from clients that keep to all of the rules.                  *)
(***************************************************************************)
EXTENDS CriRuntime, TLAPS

Settling == {"read", "alive", "poll", "save", "settled"}

(* A call is at a container record that it has loaded.                     *)
Holding(r) == op[r] \notin {None, "run", "create", "wipe"} /\ pc[r] # "next"

(* Where each call can be, and what it then holds.                         *)
CallInv == \A r \in Calls :
    /\ op[r] = None => pc[r] = "idle"
    /\ op[r] = "run" => pc[r] = "save"
    /\ op[r] = "stoppod" => pc[r] \in Settling \cup {"next", "forced"}
    /\ op[r] = "rmpod" => pc[r] \in Settling \cup {"next", "forced", "unrecord"}
    /\ op[r] = "create" => pc[r] \in {"lock", "prepare", "save"}
    /\ op[r] = "start" => pc[r] \in Settling \cup {"spawn", "wait", "record"}
    /\ op[r] = "stop" => pc[r] \in Settling \cup {"grace"}
    /\ op[r] = "stopping" => pc[r] \in Settling \cup {"forced"}
    /\ op[r] = "remove" => pc[r] \in Settling \cup {"forced", "unbundle", "unrecord"}
    /\ op[r] \in {"abandoned", "status"} => pc[r] \in Settling
    /\ op[r] = "list" => pc[r] \in Settling \cup {"next"}
    /\ op[r] = "wipe" => pc[r] \in {"next", "unrecord"}
    /\ Holding(r) => id[r] # None /\ rec[r] # None
    /\ op[r] \in {"run", "stoppod", "rmpod", "create"} => home[r] # None
    /\ op[r] = "create" /\ pc[r] # "lock" => id[r] # None /\ rec[r] # None
    /\ op[r] = "wipe" /\ pc[r] = "unrecord" => id[r] # None
    /\ DOMAIN todo[r] # {} => op[r] \in {"stoppod", "rmpod", "list", "wipe"}

(* Which calls hold the lock.                                              *)
LockInv == \A r \in Calls :
    \/ op[r] \in {"run", "stoppod", "rmpod", "status"}
    \/ op[r] = "create" /\ pc[r] # "lock"
    \/ op[r] \in {"start", "stop"} /\ pc[r] \in Settling
    \/ op[r] = "remove" /\ pc[r] \in {"unbundle", "unrecord"}
    => lock = r

(* What the rules give.                                                    *)
RuleInv == \A q, r \in Calls : q # r =>
    /\ op[q] \in Changing => op[r] \notin Changing
    /\ op[q] = "list" => op[r] \notin Removing
    /\ op[q] = "wipe" => op[r] = None

(* A container has at most one launcher and, once that has been spawned,   *)
(* was started.                                                            *)
LaunchInv ==
    /\ \A p \in Pids : /\ proc[p].st = "unused" <=> proc[p].c = None
                       /\ proc[p].c # None => proc[p].c \in tried
                       /\ keeper[p] => proc[p].c # None
    /\ \A p, q \in Pids : proc[p].c # None /\ proc[p].c = proc[q].c => p = q
    /\ \A r \in Calls : op[r] = "wipe" => \A p \in Pids : proc[p].st \in {"unused", "over"}

(* p is, or was, the process of container c.                               *)
Of(p, c) == p \in Pids /\ proc[p].c = c /\ proc[p].st \notin {"unused", "launching"}

(* No process of container c will run again, or its start was cut short.   *)
Ended(c) == c \in lost \/ \A p \in Pids : proc[p].c = c => proc[p].st \in {"reaped", "over"}

(* A container's id is given out before anything happens to it.            *)
UsedInv ==
    /\ tried \cup doomed \cup removed \cup Recorded \subseteq used
    /\ \A r \in Calls : op[r] = "wipe" =>
         DOMAIN todo[r] \subseteq used /\ (pc[r] = "unrecord" => id[r] \in used)

(* What the files say of the processes.                                    *)
FileInv == \A c \in Containers :
    /\ bundle[c] # None =>
         /\ bundle[c].pid # None => Of(bundle[c].pid, c)
         /\ bundle[c].exit # None \/ bundle[c].error =>
              \E p \in Pids : proc[p].c = c /\ proc[p].st = "over"
    /\ ctr[c] # None =>
         /\ ctr[c].state = "Running" => Of(ctr[c].pid, c)
         /\ ctr[c].state = "Exited" => Ended(c)

(* Copy x of the record of c is no further than the record.                *)
Behind(c, x) ==
    /\ ctr[c] # None /\ x.pod = ctr[c].pod
    /\ x.state # "Created" => ctr[c].state # "Created" /\ x.pid = ctr[c].pid
    /\ x.state = "Exited" => ctr[c].state = "Exited"

(* A call that changes things knows a record that is still Created.        *)
Knows(c, x) == x.state = "Created" => ctr[c].state = "Created"

(* The copies that call r holds.                                           *)
Copied(r) ==
    /\ op[r] # "wipe" => \A c \in DOMAIN todo[r] :
         Behind(c, todo[r][c]) /\ (op[r] \in Changing => Knows(c, todo[r][c]))
    /\ Holding(r) =>
         /\ id[r] \notin DOMAIN todo[r]
         /\ pc[r] \notin {"save", "record"} =>
              Behind(id[r], rec[r]) /\ (op[r] \in Changing => Knows(id[r], rec[r]))
         /\ pc[r] \in {"read", "alive", "poll", "grace"} => rec[r].state = "Running"
         /\ pc[r] \in {"forced", "unbundle", "unrecord"} => rec[r].state # "Running"
         /\ pc[r] = "poll" => Ended(id[r])
         /\ pc[r] = "save" =>
              /\ ctr[id[r]] # None /\ rec[r].pod = ctr[id[r]].pod
              /\ ctr[id[r]].state # "Created" /\ rec[r].pid = ctr[id[r]].pid
              /\ rec[r].state = "Exited" /\ Ended(id[r])

CopyInv == \A r \in Calls : Copied(r)

(* A container is started once, from Created.                              *)
StartInv == \A r \in Calls : op[r] = "start" =>
    /\ id[r] \in tried
    /\ pc[r] \in {"spawn", "wait"} => rec[r].state = "Created"
    /\ pc[r] = "spawn" \/ (pc[r] = "settled" /\ rec[r].state = "Created") =>
         \A p \in Pids : proc[p].c # id[r]
    /\ pc[r] = "record" =>
         /\ ctr[id[r]] # None /\ rec[r].pod = ctr[id[r]].pod /\ ctr[id[r]].state = "Created"
         /\ rec[r].state = "Running" /\ Of(rec[r].pid, id[r])

(* A container being created is new.                                       *)
CreateInv == \A r \in Calls : op[r] = "create" /\ pc[r] # "lock" =>
    /\ id[r] \in used \ (tried \cup doomed \cup removed)
    /\ ctr[id[r]] = None
    /\ rec[r].state = "Created"
    /\ pc[r] = "save" => bundle[id[r]] # None

(* A process that may run has its start under way, or its record.          *)
LiveInv == \A p \in Pids : proc[p].st \in {"launching", "running", "killed"} =>
    \/ proc[p].c \in lost
    \/ \E r \in Calls : op[r] = "start" /\ pc[r] \in {"wait", "record"} /\ id[r] = proc[p].c
    \/ /\ proc[p].st # "launching" /\ ctr[proc[p].c] # None
       /\ ctr[proc[p].c].state = "Running" /\ ctr[proc[p].c].pid = p

(* What stop_pod_sandbox, remove_pod_sandbox and a wipe have still to do.  *)
PodInv == \A r \in Calls, c \in Containers : ctr[c] # None =>
    /\ op[r] = "stoppod" /\ ctr[c].pod = home[r] =>
         c \in DOMAIN todo[r] \/ Ended(c) \/ (c = id[r] /\ pc[r] # "next")
    /\ op[r] = "rmpod" /\ ctr[c].pod = home[r] =>
         c \in DOMAIN todo[r] \/ (c = id[r] /\ pc[r] # "next")
    /\ op[r] = "wipe" => c \in DOMAIN todo[r] \/ (c = id[r] /\ pc[r] = "unrecord")

IInv ==
    /\ TypeOK /\ CallInv /\ LockInv /\ RuleInv /\ LaunchInv /\ UsedInv
    /\ FileInv /\ CopyInv /\ StartInv /\ CreateInv /\ LiveInv /\ PodInv /\ RecordsHaveBundles

KeepRules == Rules = {"serial", "lists", "once", "wipe"}

(* The types of a call's own variables, and of the rest.                   *)
CallType ==
    /\ op \in [Calls -> Ops \cup {None}] /\ pc \in [Calls -> Places]
    /\ home \in [Calls -> Pods \cup {None}] /\ id \in [Calls -> Containers \cup {None}]
    /\ rec \in [Calls -> Records \cup {None}] /\ todo \in [Calls -> Copies]

SharedType ==
    /\ pod \in [Pods -> {"Ready", "NotReady", None}]
    /\ podName \in [Pods -> PodNames \cup {None}]
    /\ ctr \in [Containers -> Records \cup {None}]
    /\ bundle \in [Containers -> Bundles \cup {None}]
    /\ used \subseteq Containers
    /\ proc \in [Pids -> [c : Containers \cup {None}, st : ProcStates]]
    /\ keeper \in [Pids -> BOOLEAN]
    /\ lock \in Calls \cup {None}
    /\ tried \subseteq Containers /\ lost \subseteq Containers
    /\ doomed \subseteq Containers /\ removed \subseteq Containers

(* What the provers need to know of the copies a call has loaded.          *)
LEMMA CopiesFact ==
  /\ \A f \in Copies : DOMAIN f \in SUBSET Containers /\ \A c \in DOMAIN f : f[c] \in Records
  /\ \A f \in Copies : \A T \in SUBSET DOMAIN f :
       /\ Restrict(f, T) \in Copies /\ DOMAIN Restrict(f, T) = T
       /\ \A c \in T : Restrict(f, T)[c] = f[c]
  /\ Nothing \in Copies /\ DOMAIN Nothing = {}
  /\ \A f \in Copies : DOMAIN f = {} => f = Nothing
<1>1. \A C \in SUBSET Containers : [C -> Records] \subseteq Copies
  BY DEF Copies
<1>2. ASSUME NEW f \in Copies
      PROVE  /\ DOMAIN f \in SUBSET Containers /\ f \in [DOMAIN f -> Records]
  BY DEF Copies
<1>3. ASSUME NEW f \in Copies, NEW T \in SUBSET DOMAIN f
      PROVE  /\ Restrict(f, T) \in [T -> Records] /\ DOMAIN Restrict(f, T) = T
             /\ \A c \in T : Restrict(f, T)[c] = f[c]
  BY <1>2 DEF Restrict
<1>4. Nothing \in [{} -> Records] /\ DOMAIN Nothing = {}
  BY DEF Nothing
<1>5. ASSUME NEW f \in Copies, DOMAIN f = {} PROVE f = Nothing
  BY <1>2, <1>5 DEF Nothing
<1>. QED
  BY <1>1, <1>2, <1>3, <1>4, <1>5

(* The same of what it loads.                                              *)
LEMMA LoadFact == ASSUME TypeOK PROVE
  /\ load_all \in Copies /\ DOMAIN load_all = Recorded /\ \A c \in Recorded : load_all[c] = ctr[c]
  /\ \A s : /\ InPod(s) \in Copies /\ DOMAIN InPod(s) = {c \in Recorded : ctr[c].pod = s}
            /\ \A c \in DOMAIN InPod(s) : InPod(s)[c] = ctr[c]
<1>1. \A C \in SUBSET Containers : [C -> Records] \subseteq Copies
  BY DEF Copies
<1>2. ASSUME NEW T \in SUBSET Recorded
      PROVE  /\ Restrict(ctr, T) \in Copies /\ DOMAIN Restrict(ctr, T) = T
             /\ \A c \in T : Restrict(ctr, T)[c] = ctr[c]
  <2>1. T \in SUBSET Containers /\ \A c \in T : ctr[c] \in Records
    BY DEF TypeOK, Recorded
  <2>2. Restrict(ctr, T) \in [T -> Records]
    BY <2>1 DEF Restrict
  <2>. QED
    BY <1>1, <2>1, <2>2 DEF Restrict
<1>. QED
  BY <1>2 DEF load_all, InPod

(* Only a call that holds a record is at these places.                     *)
LEMMA HoldFact == ASSUME TypeOK, CallInv, NEW r \in Calls PROVE
  /\ pc[r] \in {"read", "alive", "poll", "settled", "grace", "forced", "unbundle", "spawn", "wait", "record"}
       \/ (pc[r] = "save" /\ op[r] \notin {"run", "create"}) \/ (pc[r] = "unrecord" /\ op[r] # "wipe")
     => Holding(r)
  /\ Holding(r) => id[r] \in Containers /\ rec[r] \in Records /\ op[r] \in Ops
<1>1. op[r] \in Ops \cup {None} /\ id[r] \in Containers \cup {None} /\ rec[r] \in Records \cup {None}
  BY DEF TypeOK
<1>2. Holding(r) => id[r] \in Containers /\ rec[r] \in Records /\ op[r] \in Ops
  BY <1>1 DEF CallInv, Holding
<1>3. op[r] \in {None, "run", "create", "wipe"} =>
        pc[r] \in {"idle", "save", "lock", "prepare", "next", "unrecord"}
  BY DEF CallInv
<1>4. op[r] = None => pc[r] = "idle"
  BY DEF CallInv
<1>5. op[r] \in {"run", "create"} => pc[r] # "unrecord"
  BY DEF CallInv
<1>6. op[r] = "wipe" => pc[r] # "save"
  BY DEF CallInv
<1>. QED
  BY <1>2, <1>3, <1>4, <1>5, <1>6 DEF Holding

(* The variables of the calls keep their types.                            *)
LEMMA CallTypeStep == TypeOK /\ CallInv /\ [Next]_vars => CallType'
<1>. SUFFICES ASSUME TypeOK, CallInv, [Next]_vars PROVE CallType'
  OBVIOUS
<1>t. CallType
  BY DEF TypeOK, CallType
<1>same. ASSUME UNCHANGED call PROVE CallType'
  BY <1>t, <1>same DEF call, CallType
<1>goto. ASSUME NEW r \in Calls, NEW l \in Places, Goto(r, l) PROVE CallType'
  BY <1>t, <1>goto DEF Goto, CallType
<1>return. ASSUME NEW r \in Calls, Return(r) PROVE CallType'
  BY <1>t, <1>return, CopiesFact DEF Return, CallType, Places
<1>begin. ASSUME NEW r \in Calls, NEW k \in Ops, NEW l \in Places, NEW s \in Pods \cup {None},
                 NEW c \in Containers \cup {None}, NEW more \in Copies, Begin(r, k, l, s, c, more)
          PROVE  CallType'
  <2>1. (IF c = None THEN None ELSE ctr[c]) \in Records \cup {None}
    BY ConstantsAssumption DEF TypeOK
  <2>. QED
    BY <1>t, <1>begin, <2>1 DEF Begin, CallType
<1>take. ASSUME NEW r \in Calls, NEW c \in DOMAIN todo[r], NEW l \in Places, Take(r, c), pc' = [pc EXCEPT ![r] = l]
         PROVE  CallType'
  <2>1. todo[r] \in Copies
    BY <1>t DEF CallType
  <2>2. c \in Containers /\ todo[r][c] \in Records /\ Restrict(todo[r], DOMAIN todo[r] \ {c}) \in Copies
    BY <2>1, <1>take, CopiesFact
  <2>. QED
    BY <1>t, <1>take, <2>2 DEF Take, CallType
<1>rec. ASSUME NEW r \in Calls, NEW x \in Records, NEW l \in Places, rec' = [rec EXCEPT ![r] = x],
               pc' = [pc EXCEPT ![r] = l], UNCHANGED <<op, home, id, todo>>
        PROVE  CallType'
  BY <1>t, <1>rec DEF CallType
<1>exited. ASSUME NEW r \in Calls, pc[r] \in {"read", "poll"} PROVE Exited(rec[r], read_exit(id[r])) \in Records
  <2>1. id[r] \in Containers /\ rec[r] \in Records
    BY <1>exited, HoldFact
  <2>2. read_exit(id[r]) \in Pids \cup {None}
    BY <2>1 DEF read_exit, TypeOK, Bundles
  <2>. QED
    BY <2>1, <2>2 DEF Exited, Records
<1>settle. \A x : Settle(x) \in Places
  BY DEF Settle, Places
<1>load. load_all \in Copies /\ Nothing \in Copies /\ \A s : InPod(s) \in Copies
  BY LoadFact, CopiesFact
<1>1. ASSUME NEW r \in Calls, NEW s \in Pods, NEW n \in PodNames, RunPodSandbox(r, s, n) PROVE CallType'
  BY <1>1, <1>begin, <1>load, <1>settle DEF RunPodSandbox, Ops, Places
<1>2. ASSUME NEW r \in Calls, NEW s \in Pods, StopPodSandbox(r, s) PROVE CallType'
  BY <1>2, <1>begin, <1>load, <1>settle DEF StopPodSandbox, PodCall, Ops, Places
<1>3. ASSUME NEW r \in Calls, NEW s \in Pods, RemovePodSandbox(r, s) PROVE CallType'
  BY <1>3, <1>begin, <1>load, <1>settle DEF RemovePodSandbox, PodCall, Ops, Places
<1>4. ASSUME NEW r \in Calls, NEW s \in Pods, CreateContainer(r, s) PROVE CallType'
  BY <1>4, <1>begin, <1>load, <1>settle DEF CreateContainer, Ops, Places
<1>5. ASSUME NEW r \in Calls, NEW c \in Containers, StartContainer(r, c) PROVE CallType'
  BY <1>5, <1>begin, <1>load, <1>settle DEF StartContainer, ContainerCall, Ops, Places
<1>6. ASSUME NEW r \in Calls, NEW c \in Containers, StopContainer(r, c) PROVE CallType'
  BY <1>6, <1>begin, <1>load, <1>settle DEF StopContainer, ContainerCall, Ops, Places
<1>7. ASSUME NEW r \in Calls, NEW c \in Containers, ContainerStatus(r, c) PROVE CallType'
  BY <1>7, <1>begin, <1>load, <1>settle DEF ContainerStatus, ContainerCall, Ops, Places
<1>8. ASSUME NEW r \in Calls, NEW c \in Containers, RemoveContainer(r, c) PROVE CallType'
  BY <1>8, <1>begin, <1>load, <1>settle DEF RemoveContainer, Ops, Places
<1>9. ASSUME NEW r \in Calls, ListContainers(r) PROVE CallType'
  BY <1>9, <1>begin, <1>load, <1>settle DEF ListContainers, Ops, Places
<1>10. ASSUME NEW r \in Calls, Wipe(r) PROVE CallType'
  BY <1>10, <1>begin, <1>load, <1>settle DEF Wipe, Ops, Places
<1>11. ASSUME NEW r \in Calls, ReconcileRead(r) PROVE CallType'
  BY <1>11, <1>exited, <1>rec, <1>goto DEF ReconcileRead, Places
<1>12. ASSUME NEW r \in Calls, ReconcileAlive(r) PROVE CallType'
  BY <1>12, <1>goto, <1>return DEF ReconcileAlive, Places
<1>13. ASSUME NEW r \in Calls, ReconcilePoll(r) PROVE CallType'
  BY <1>13, <1>exited, <1>rec, <1>goto DEF ReconcilePoll, Places
<1>14. ASSUME NEW r \in Calls, ReconcileSave(r) PROVE CallType'
  BY <1>14, <1>goto, <1>return DEF ReconcileSave, Places
<1>15. ASSUME NEW r \in Calls, ForceKill(r) PROVE CallType'
  BY <1>15, <1>goto, <1>return DEF ForceKill, Places
<1>16. ASSUME NEW r \in Calls, ForceGiveUp(r) PROVE CallType'
  BY <1>16, <1>goto, <1>return DEF ForceGiveUp, Places
<1>17. ASSUME NEW r \in Calls, ForceDone(r) PROVE CallType'
  BY <1>17, <1>goto, <1>return DEF ForceDone, Places
<1>18. ASSUME NEW r \in Calls, RunSave(r) PROVE CallType'
  BY <1>18, <1>goto, <1>return DEF RunSave, Places
<1>19. ASSUME NEW r \in Calls, NEW c \in Containers, PodNext(r, c) PROVE CallType'
  BY <1>19, <1>take, <1>settle DEF PodNext, Take, Places
<1>20. ASSUME NEW r \in Calls, StopPodForced(r) PROVE CallType'
  BY <1>20, <1>goto, <1>return DEF StopPodForced, Places
<1>21. ASSUME NEW r \in Calls, StopPodSave(r) PROVE CallType'
  BY <1>21, <1>goto, <1>return DEF StopPodSave, Places
<1>22. ASSUME NEW r \in Calls, RemovePodLast(r) PROVE CallType'
  BY <1>22, <1>goto, <1>return DEF RemovePodLast, Places
<1>23. ASSUME NEW r \in Calls, Unbundle(r) PROVE CallType'
  BY <1>23, <1>goto, <1>return DEF Unbundle, Places
<1>24. ASSUME NEW r \in Calls, Unrecord(r) PROVE CallType'
  BY <1>24, <1>goto, <1>return DEF Unrecord, Places
<1>25. ASSUME NEW r \in Calls, NEW n \in Names, NEW c \in Containers, CreateLock(r, n, c) PROVE CallType'
  <2>1. home[r] \in Pods
    BY <1>25 DEF CreateLock, At, CallInv, TypeOK
  <2>2. [name |-> n, pod |-> home[r], state |-> "Created", pid |-> None, code |-> None] \in Records
    BY <2>1 DEF Records
  <2>3. CASE Return(r)
    BY <2>3, <1>return
  <2>4. CASE ~Return(r)
    <3>1. /\ id' = [id EXCEPT ![r] = c] /\ pc' = [pc EXCEPT ![r] = "prepare"] /\ UNCHANGED <<op, home, todo>>
          /\ rec' = [rec EXCEPT ![r] = [name |-> n, pod |-> home[r], state |-> "Created",
                                        pid |-> None, code |-> None]]
      BY <1>25, <2>4 DEF CreateLock
    <3>. QED
      BY <1>t, <2>2, <3>1 DEF CallType, Places
  <2>. QED
    BY <2>3, <2>4
<1>26. ASSUME NEW r \in Calls, CreatePrepare(r) PROVE CallType'
  BY <1>26, <1>goto, <1>return DEF CreatePrepare, Places
<1>27. ASSUME NEW r \in Calls, CreateSave(r) PROVE CallType'
  BY <1>27, <1>goto, <1>return DEF CreateSave, Places
<1>28. ASSUME NEW r \in Calls, StatusAnswer(r) PROVE CallType'
  BY <1>28, <1>goto, <1>return DEF StatusAnswer, Places
<1>29. ASSUME NEW r \in Calls, RemoveAgain(r) PROVE CallType'
  BY <1>29, <1>goto, <1>return DEF RemoveAgain, Places
<1>30. ASSUME NEW r \in Calls, StartSettled(r) PROVE CallType'
  BY <1>30, <1>goto, <1>return DEF StartSettled, Places
<1>31. ASSUME NEW r \in Calls, NEW p \in Pids, StartSpawn(r, p) PROVE CallType'
  BY <1>31, <1>goto, <1>return DEF StartSpawn, Places
<1>32. ASSUME NEW r \in Calls, StartPid(r) PROVE CallType'
  <2>1. rec[r] \in Records /\ bundle[id[r]] \in Bundles
    BY <1>32, HoldFact DEF StartPid, At, TypeOK
  <2>2. [rec[r] EXCEPT !.state = "Running", !.pid = bundle[id[r]].pid] \in Records
    BY <2>1 DEF Records, Bundles
  <2>3. rec' = [rec EXCEPT ![r] = [rec[r] EXCEPT !.state = "Running", !.pid = bundle[id[r]].pid]]
    BY <1>32, <1>t DEF StartPid, CallType
  <2>. QED
    BY <1>32, <2>2, <2>3, <1>rec DEF StartPid, Places
<1>33. ASSUME NEW r \in Calls, StartError(r) PROVE CallType'
  BY <1>33, <1>goto, <1>return DEF StartError, Places
<1>34. ASSUME NEW r \in Calls, StartTimeout(r) PROVE CallType'
  BY <1>34, <1>goto, <1>return DEF StartTimeout, Places
<1>35. ASSUME NEW r \in Calls, StartRecord(r) PROVE CallType'
  BY <1>35, <1>goto, <1>return DEF StartRecord, Places
<1>36. ASSUME NEW r \in Calls, StopSettled(r) PROVE CallType'
  BY <1>36, <1>goto, <1>return DEF StopSettled, Places
<1>37. ASSUME NEW r \in Calls, StopGrace(r) PROVE CallType'
  BY <1>37, <1>t, <1>settle DEF StopGrace, CallType, Ops
<1>38. ASSUME NEW r \in Calls, StopSave(r) PROVE CallType'
  BY <1>38, <1>goto, <1>return DEF StopSave, Places
<1>39. ASSUME NEW r \in Calls, ListNext(r) PROVE CallType'
  BY <1>39, <1>take, <1>settle, <1>return DEF ListNext
<1>40. ASSUME NEW r \in Calls, ListSettled(r) PROVE CallType'
  BY <1>40, <1>goto, <1>return DEF ListSettled, Places
<1>41. ASSUME NEW r \in Calls, NEW c \in Containers, WipeContainer(r, c) PROVE CallType'
  BY <1>41, <1>take, <1>settle DEF WipeContainer, Take, Places
<1>42. ASSUME NEW r \in Calls, WipeRecord(r) PROVE CallType'
  BY <1>42, <1>goto, <1>return DEF WipeRecord, Places
<1>43. ASSUME NEW r \in Calls, WipePods(r) PROVE CallType'
  BY <1>43, <1>goto, <1>return DEF WipePods, Places
<1>44. ASSUME NEW p \in Pids, LauncherFails(p) PROVE CallType'
  BY <1>44, <1>same DEF LauncherFails
<1>45. ASSUME NEW p \in Pids, LauncherReportsPid(p) PROVE CallType'
  BY <1>45, <1>same DEF LauncherReportsPid
<1>46. ASSUME NEW p \in Pids, ProcessEnds(p) PROVE CallType'
  BY <1>46, <1>same DEF ProcessEnds
<1>47. ASSUME NEW p \in Pids, LauncherRecordsExit(p) PROVE CallType'
  BY <1>47, <1>same DEF LauncherRecordsExit
<1>48. ASSUME NEW p \in Pids, LauncherKilled(p) PROVE CallType'
  BY <1>48, <1>same DEF LauncherKilled
<1>49. ASSUME NEW r \in Calls, Cancel(r) PROVE CallType'
  BY <1>49, <1>t, <1>return DEF Cancel, CallType, Ops
<1>50. CASE Restart
  BY <1>50, <1>t, CopiesFact DEF Restart, CallType, Places
<1>51. CASE UNCHANGED vars
  BY <1>51, <1>same DEF vars, call
<1>. QED
  BY <1>1, <1>2, <1>3, <1>4, <1>5, <1>6, <1>7, <1>8, <1>9, <1>10, <1>11, <1>12, <1>13,
     <1>14, <1>15, <1>16, <1>17, <1>18, <1>19, <1>20, <1>21, <1>22, <1>23, <1>24, <1>25,
     <1>26, <1>27, <1>28, <1>29, <1>30, <1>31, <1>32, <1>33, <1>34, <1>35, <1>36, <1>37,
     <1>38, <1>39, <1>40, <1>41, <1>42, <1>43, <1>44, <1>45, <1>46, <1>47, <1>48, <1>49,
     <1>50, <1>51 DEF Next, CallBegin, CallStep, Reconcile, ProcessStep

(* The files, the processes and the lock keep their types.                 *)
LEMMA SharedTypeStep == TypeOK /\ CallInv /\ [Next]_vars => SharedType'
<1>. SUFFICES ASSUME TypeOK, CallInv, [Next]_vars PROVE SharedType'
  OBVIOUS
<1>t. SharedType
  BY DEF TypeOK, SharedType
<1>same. ASSUME UNCHANGED <<files, procs, history>>, lock' \in Calls \cup {None} PROVE SharedType'
  BY <1>t, <1>same DEF files, procs, history, SharedType
<1>lock. \A r \in Calls : (Acquire(r) \/ Release(r) \/ UNCHANGED lock => lock' \in Calls \cup {None})
  BY <1>t DEF Acquire, Release, SharedType
<1>h. \A r \in Calls : Holding(r) \/ (op[r] = "create" /\ pc[r] # "lock") => id[r] \in Containers /\ rec[r] \in Records
  BY HoldFact DEF TypeOK, CallInv
<1>proc. ASSUME NEW p \in Pids, NEW x \in ProcStates, proc' = [proc EXCEPT ![p].st = x] \/ UNCHANGED proc
         PROVE  proc' \in [Pids -> [c : Containers \cup {None}, st : ProcStates]]
  BY <1>t, <1>proc DEF SharedType
<1>bundle. ASSUME NEW c \in Containers \cup {None}, NEW x \in Bundles,
                  bundle' = [bundle EXCEPT ![c] = IF @ = None THEN @ ELSE x]
           PROVE  bundle' \in [Containers -> Bundles \cup {None}]
  BY <1>t, <1>bundle DEF SharedType
<1>1. ASSUME NEW r \in Calls, NEW s \in Pods, NEW n \in PodNames, RunPodSandbox(r, s, n) PROVE SharedType'
  BY <1>1, <1>t, <1>lock DEF RunPodSandbox, SharedType, files, procs, history
<1>2. ASSUME NEW r \in Calls, NEW s \in Pods, StopPodSandbox(r, s) PROVE SharedType'
  BY <1>2, <1>same, <1>lock DEF StopPodSandbox, PodCall
<1>3. ASSUME NEW r \in Calls, NEW s \in Pods, RemovePodSandbox(r, s) PROVE SharedType'
  BY <1>3, <1>same, <1>lock DEF RemovePodSandbox, PodCall
<1>4. ASSUME NEW r \in Calls, NEW s \in Pods, CreateContainer(r, s) PROVE SharedType'
  BY <1>4, <1>same, <1>lock DEF CreateContainer
<1>5. ASSUME NEW r \in Calls, NEW c \in Containers, StartContainer(r, c) PROVE SharedType'
  BY <1>5, <1>t, <1>lock DEF StartContainer, SharedType, files, procs, history, ContainerCall
<1>6. ASSUME NEW r \in Calls, NEW c \in Containers, StopContainer(r, c) PROVE SharedType'
  BY <1>6, <1>same, <1>lock DEF StopContainer, ContainerCall
<1>7. ASSUME NEW r \in Calls, NEW c \in Containers, ContainerStatus(r, c) PROVE SharedType'
  BY <1>7, <1>same, <1>lock DEF ContainerStatus, ContainerCall
<1>8. ASSUME NEW r \in Calls, NEW c \in Containers, RemoveContainer(r, c) PROVE SharedType'
  BY <1>8, <1>same, <1>lock DEF RemoveContainer
<1>9. ASSUME NEW r \in Calls, ListContainers(r) PROVE SharedType'
  BY <1>9, <1>same, <1>lock DEF ListContainers
<1>10. ASSUME NEW r \in Calls, Wipe(r) PROVE SharedType'
  BY <1>10, <1>same, <1>lock DEF Wipe
<1>11. ASSUME NEW r \in Calls, ReconcileRead(r) PROVE SharedType'
  BY <1>11, <1>same, <1>lock DEF ReconcileRead
<1>12. ASSUME NEW r \in Calls, ReconcileAlive(r) PROVE SharedType'
  BY <1>12, <1>same, <1>lock DEF ReconcileAlive
<1>13. ASSUME NEW r \in Calls, ReconcilePoll(r) PROVE SharedType'
  BY <1>13, <1>same, <1>lock DEF ReconcilePoll
<1>14. ASSUME NEW r \in Calls, ReconcileSave(r) PROVE SharedType'
  BY <1>14, <1>t, <1>lock, <1>h, HoldFact DEF ReconcileSave, SharedType, files, procs, history
<1>15. ASSUME NEW r \in Calls, ForceKill(r) PROVE SharedType'
  <2>1. proc' \in [Pids -> [c : Containers \cup {None}, st : ProcStates]]
    <3>. DEFINE x == rec[r].pid
    <3>1. CASE x \in Pids
      <4>1. proc' = [proc EXCEPT ![x].st = IF proc[x].st = "running" THEN "killed" ELSE proc[x].st]
        BY <1>15, <1>t, <3>1 DEF ForceKill, SharedType
      <4>. QED
        BY <1>proc, <1>t, <3>1, <4>1 DEF SharedType, ProcStates
    <3>2. CASE x \notin Pids
      BY <1>15, <1>t, <3>2 DEF ForceKill, SharedType
    <3>. QED
      BY <3>1, <3>2
  <2>. QED
    BY <1>15, <1>t, <2>1 DEF ForceKill, SharedType, files, history
<1>16. ASSUME NEW r \in Calls, ForceGiveUp(r) PROVE SharedType'
  BY <1>16, <1>same, <1>lock DEF ForceGiveUp
<1>17. ASSUME NEW r \in Calls, ForceDone(r) PROVE SharedType'
  BY <1>17, <1>same, <1>lock DEF ForceDone
<1>18. ASSUME NEW r \in Calls, RunSave(r) PROVE SharedType'
  BY <1>18, <1>t, <1>lock, <1>h, HoldFact DEF RunSave, SharedType, files, procs, history, At
<1>19. ASSUME NEW r \in Calls, NEW c \in Containers, PodNext(r, c) PROVE SharedType'
  BY <1>19, <1>same, <1>lock DEF PodNext
<1>20. ASSUME NEW r \in Calls, StopPodForced(r) PROVE SharedType'
  BY <1>20, <1>same, <1>lock DEF StopPodForced
<1>21. ASSUME NEW r \in Calls, StopPodSave(r) PROVE SharedType'
  BY <1>21, <1>t, <1>lock, <1>h, HoldFact DEF StopPodSave, SharedType, files, procs, history, At
<1>22. ASSUME NEW r \in Calls, RemovePodLast(r) PROVE SharedType'
  BY <1>22, <1>t, <1>lock, <1>h, HoldFact DEF RemovePodLast, SharedType, files, procs, history, At
<1>23. ASSUME NEW r \in Calls, Unbundle(r) PROVE SharedType'
  BY <1>23, <1>t, <1>lock, <1>h, HoldFact DEF Unbundle, SharedType, files, procs, history, At
<1>24. ASSUME NEW r \in Calls, Unrecord(r) PROVE SharedType'
  BY <1>24, <1>t, <1>lock, <1>h, HoldFact DEF Unrecord, SharedType, files, procs, history, At
<1>25. ASSUME NEW r \in Calls, NEW n \in Names, NEW c \in Containers, CreateLock(r, n, c) PROVE SharedType'
  BY <1>25, <1>t, <1>lock, <1>h, HoldFact DEF CreateLock, SharedType, files, procs, history, At
<1>26. ASSUME NEW r \in Calls, CreatePrepare(r) PROVE SharedType'
  <2>1. [pid |-> None, exit |-> None, error |-> FALSE] \in Bundles
    BY DEF Bundles
  <2>. QED
    BY <1>26, <1>t, <1>lock, <2>1 DEF CreatePrepare, SharedType, procs, history
<1>27. ASSUME NEW r \in Calls, CreateSave(r) PROVE SharedType'
  BY <1>27, <1>t, <1>lock, <1>h, HoldFact DEF CreateSave, SharedType, files, procs, history, At
<1>28. ASSUME NEW r \in Calls, StatusAnswer(r) PROVE SharedType'
  BY <1>28, <1>same, <1>lock DEF StatusAnswer
<1>29. ASSUME NEW r \in Calls, RemoveAgain(r) PROVE SharedType'
  BY <1>29, <1>same, <1>lock DEF RemoveAgain
<1>30. ASSUME NEW r \in Calls, StartSettled(r) PROVE SharedType'
  BY <1>30, <1>same, <1>lock DEF StartSettled
<1>31. ASSUME NEW r \in Calls, NEW p \in Pids, StartSpawn(r, p) PROVE SharedType'
  BY <1>31, <1>t, <1>lock, <1>h, HoldFact DEF StartSpawn, SharedType, files, procs, history, At, ProcStates
<1>32. ASSUME NEW r \in Calls, StartPid(r) PROVE SharedType'
  BY <1>32, <1>same, <1>lock DEF StartPid
<1>33. ASSUME NEW r \in Calls, StartError(r) PROVE SharedType'
  BY <1>33, <1>same, <1>lock DEF StartError
<1>34. ASSUME NEW r \in Calls, StartTimeout(r) PROVE SharedType'
  BY <1>34, <1>t, <1>lock, <1>h, HoldFact DEF StartTimeout, SharedType, files, procs, history, At
<1>35. ASSUME NEW r \in Calls, StartRecord(r) PROVE SharedType'
  BY <1>35, <1>t, <1>lock, <1>h, HoldFact DEF StartRecord, SharedType, files, procs, history, At
<1>36. ASSUME NEW r \in Calls, StopSettled(r) PROVE SharedType'
  <2>1. rec[r] \in Records /\ id[r] \in Containers
    BY <1>36, HoldFact DEF StopSettled, At
  <2>2. [rec[r] EXCEPT !.state = "Exited"] \in Records
    BY <2>1 DEF Records
  <2>3. ctr' = ctr \/ ctr' = [ctr EXCEPT ![id[r]] = [rec[r] EXCEPT !.state = "Exited"]]
    BY <1>36 DEF StopSettled
  <2>4. ctr' \in [Containers -> Records \cup {None}]
    BY <1>t, <2>1, <2>2, <2>3 DEF SharedType
  <2>. QED
    BY <1>36, <1>t, <1>lock, <2>4 DEF StopSettled, SharedType, procs, history
<1>37. ASSUME NEW r \in Calls, StopGrace(r) PROVE SharedType'
  BY <1>37, <1>same, <1>lock DEF StopGrace
<1>38. ASSUME NEW r \in Calls, StopSave(r) PROVE SharedType'
  BY <1>38, <1>t, <1>lock, <1>h, HoldFact DEF StopSave, SharedType, files, procs, history, At
<1>39. ASSUME NEW r \in Calls, ListNext(r) PROVE SharedType'
  BY <1>39, <1>same, <1>lock DEF ListNext
<1>40. ASSUME NEW r \in Calls, ListSettled(r) PROVE SharedType'
  BY <1>40, <1>same, <1>lock DEF ListSettled
<1>41. ASSUME NEW r \in Calls, NEW c \in Containers, WipeContainer(r, c) PROVE SharedType'
  BY <1>41, <1>t, <1>lock, <1>h, HoldFact DEF WipeContainer, SharedType, files, procs, history, At
<1>42. ASSUME NEW r \in Calls, WipeRecord(r) PROVE SharedType'
  <2>1. id[r] \in Containers
    BY <1>42 DEF WipeRecord, At, CallInv, TypeOK
  <2>. QED
    BY <1>42, <1>t, <2>1 DEF WipeRecord, SharedType, procs
<1>43. ASSUME NEW r \in Calls, WipePods(r) PROVE SharedType'
  BY <1>43, <1>t, <1>lock, <1>h, HoldFact DEF WipePods, SharedType, files, procs, history, At
<1>44. ASSUME NEW p \in Pids, LauncherFails(p) PROVE SharedType'
  <2>1. bundle' \in [Containers -> Bundles \cup {None}]
    <3>. DEFINE b == bundle[proc[p].c]
    <3>1. b \in Bundles => [b EXCEPT !.error = TRUE] \in Bundles
      BY DEF Bundles
    <3>2. proc[p].c \in Containers \cup {None}
      BY <1>t DEF SharedType
    <3>3. bundle' = [bundle EXCEPT ![proc[p].c] = IF b = None THEN b ELSE [b EXCEPT !.error = TRUE]]
      BY <1>44, <1>t, <3>2 DEF LauncherFails, SharedType
    <3>. QED
      BY <1>t, <3>1, <3>2, <3>3 DEF SharedType
  <2>2. proc' \in [Pids -> [c : Containers \cup {None}, st : ProcStates]]
    BY <1>44, <1>proc DEF LauncherFails, ProcStates
  <2>. QED
    BY <1>44, <1>t, <2>1, <2>2 DEF LauncherFails, SharedType, history
<1>45. ASSUME NEW p \in Pids, LauncherReportsPid(p) PROVE SharedType'
  <2>1. bundle' \in [Containers -> Bundles \cup {None}]
    <3>. DEFINE b == bundle[proc[p].c]
    <3>1. b \in Bundles => [b EXCEPT !.pid = p] \in Bundles
      BY DEF Bundles
    <3>2. proc[p].c \in Containers \cup {None}
      BY <1>t DEF SharedType
    <3>3. bundle' = [bundle EXCEPT ![proc[p].c] = IF b = None THEN b ELSE [b EXCEPT !.pid = p]]
      BY <1>45, <1>t, <3>2 DEF LauncherReportsPid, SharedType
    <3>. QED
      BY <1>t, <3>1, <3>2, <3>3 DEF SharedType
  <2>2. proc' \in [Pids -> [c : Containers \cup {None}, st : ProcStates]]
    BY <1>45, <1>proc DEF LauncherReportsPid, ProcStates
  <2>. QED
    BY <1>45, <1>t, <2>1, <2>2 DEF LauncherReportsPid, SharedType, history
<1>46. ASSUME NEW p \in Pids, ProcessEnds(p) PROVE SharedType'
  <2>1. proc' \in [Pids -> [c : Containers \cup {None}, st : ProcStates]]
    BY <1>46, <1>t DEF ProcessEnds, SharedType, ProcStates
  <2>. QED
    BY <1>46, <1>t, <2>1 DEF ProcessEnds, SharedType, files, history
<1>47. ASSUME NEW p \in Pids, LauncherRecordsExit(p) PROVE SharedType'
  <2>1. bundle' \in [Containers -> Bundles \cup {None}]
    <3>. DEFINE b == bundle[proc[p].c]
    <3>1. b \in Bundles => [b EXCEPT !.exit = p] \in Bundles
      BY DEF Bundles
    <3>2. proc[p].c \in Containers \cup {None}
      BY <1>t DEF SharedType
    <3>3. bundle' = [bundle EXCEPT ![proc[p].c] = IF b = None THEN b ELSE [b EXCEPT !.exit = p]]
      BY <1>47, <1>t, <3>2 DEF LauncherRecordsExit, SharedType
    <3>. QED
      BY <1>t, <3>1, <3>2, <3>3 DEF SharedType
  <2>2. proc' \in [Pids -> [c : Containers \cup {None}, st : ProcStates]]
    BY <1>47, <1>proc DEF LauncherRecordsExit, ProcStates
  <2>. QED
    BY <1>47, <1>t, <2>1, <2>2 DEF LauncherRecordsExit, SharedType, history
<1>48. ASSUME NEW p \in Pids, LauncherKilled(p) PROVE SharedType'
  <2>1. proc' \in [Pids -> [c : Containers \cup {None}, st : ProcStates]]
    BY <1>48, <1>t DEF LauncherKilled, SharedType, ProcStates
  <2>. QED
    BY <1>48, <1>t, <2>1 DEF LauncherKilled, SharedType, files, history
<1>49. ASSUME NEW r \in Calls, Cancel(r) PROVE SharedType'
  <2>1. lost' \subseteq Containers
    BY <1>49, <1>t, <1>h, HoldFact DEF Cancel, CutShort, SharedType
  <2>. QED
    BY <1>49, <1>t, <2>1 DEF Cancel, SharedType, files, procs
<1>50. CASE Restart
  <2>1. lost' \subseteq Containers
    BY <1>50, <1>t, <1>h, HoldFact DEF Restart, CutShort, SharedType
  <2>. QED
    BY <1>50, <1>t, <2>1 DEF Restart, SharedType, files, procs
<1>51. CASE UNCHANGED vars
  BY <1>51, <1>t DEF vars, files, procs, history, SharedType
<1>. QED
  BY <1>1, <1>2, <1>3, <1>4, <1>5, <1>6, <1>7, <1>8, <1>9, <1>10, <1>11, <1>12, <1>13,
     <1>14, <1>15, <1>16, <1>17, <1>18, <1>19, <1>20, <1>21, <1>22, <1>23, <1>24, <1>25,
     <1>26, <1>27, <1>28, <1>29, <1>30, <1>31, <1>32, <1>33, <1>34, <1>35, <1>36, <1>37,
     <1>38, <1>39, <1>40, <1>41, <1>42, <1>43, <1>44, <1>45, <1>46, <1>47, <1>48, <1>49,
     <1>50, <1>51 DEF Next, CallBegin, CallStep, Reconcile, ProcessStep

(* Every step keeps the types.                                             *)
LEMMA TypeStep == TypeOK /\ CallInv /\ [Next]_vars => TypeOK'
  BY CallTypeStep, SharedTypeStep DEF TypeOK, CallType, SharedType

(* A record that is changed is still a record.                             *)
LEMMA ExitedFact == ASSUME TypeOK, CallInv, NEW r \in Calls, Holding(r) PROVE
  /\ Exited(rec[r], read_exit(id[r])) \in Records /\ Exited(rec[r], read_exit(id[r])) # None
  /\ \A p \in Pids \cup {None} : /\ [rec[r] EXCEPT !.state = "Running", !.pid = p] \in Records
                              /\ [rec[r] EXCEPT !.state = "Running", !.pid = p] # None
  /\ bundle[id[r]] # None => bundle[id[r]].pid \in Pids \cup {None}
<1>1. rec[r] \in Records /\ id[r] \in Containers
  BY HoldFact
<1>2. bundle[id[r]] \in Bundles \cup {None}
  BY <1>1 DEF TypeOK
<1>3. read_exit(id[r]) \in Pids \cup {None}
  BY <1>2 DEF read_exit, Bundles
<1>4. Exited(rec[r], read_exit(id[r])) \in Records
  BY <1>1, <1>3 DEF Exited, Records
<1>5. \A p \in Pids \cup {None} : [rec[r] EXCEPT !.state = "Running", !.pid = p] \in Records
  BY <1>1 DEF Records
<1>6. bundle[id[r]] # None => bundle[id[r]].pid \in Pids \cup {None}
  BY <1>2 DEF Bundles
<1>. QED
  BY <1>4, <1>5, <1>6, ConstantsAssumption

(* A step leaves each call at a place of its own.                          *)
LEMMA CallStepInv == TypeOK /\ CallInv /\ [Next]_vars => CallInv'
<1>. SUFFICES ASSUME TypeOK, CallInv, [Next]_vars PROVE CallInv'
  OBVIOUS
<1>t. CallType
  BY DEF TypeOK, CallType
<1>n. DOMAIN Nothing = {} /\ \A f \in Copies : DOMAIN f = {} => f = Nothing
  BY CopiesFact
<1>h. \A r \in Calls : Holding(r) => rec[r] \in Records
  BY HoldFact
<1>o. None \notin Pods \cup Containers \cup Records \cup Ops
  BY ConstantsAssumption
<1>return. ASSUME NEW r \in Calls, Return(r) PROVE CallInv'
  BY <1>t, <1>n, <1>o, <1>return DEF Return, CallInv, CallType, Holding, Ops, Settling
<1>goto. ASSUME NEW r \in Calls, UNCHANGED op, UNCHANGED call PROVE CallInv'
  BY <1>goto DEF call, CallInv, Holding, Settling
<1>. USE <1>t, <1>n, <1>o DEF vars, call, CallType, Settling, Holding, CallInv, Changing, Removing
<1>1. ASSUME NEW r \in Calls, NEW s \in Pods, NEW n \in PodNames, RunPodSandbox(r, s, n) PROVE CallInv'
  BY <1>1 DEF RunPodSandbox, Acquire, Begin, Allowed, Changing, Removing
<1>2. ASSUME NEW r \in Calls, NEW s \in Pods, StopPodSandbox(r, s) PROVE CallInv'
  BY <1>2 DEF StopPodSandbox, PodCall, Acquire, Begin, Allowed, Changing, Removing
<1>3. ASSUME NEW r \in Calls, NEW s \in Pods, RemovePodSandbox(r, s) PROVE CallInv'
  BY <1>3 DEF RemovePodSandbox, PodCall, Acquire, Begin, Allowed, Changing, Removing
<1>4. ASSUME NEW r \in Calls, NEW s \in Pods, CreateContainer(r, s) PROVE CallInv'
  BY <1>4 DEF CreateContainer, Begin, Allowed, Changing, Removing
<1>5. ASSUME NEW r \in Calls, NEW c \in Containers, StartContainer(r, c) PROVE CallInv'
  BY <1>5 DEF StartContainer, ContainerCall, Settle, Acquire, Begin, Allowed, Changing, Removing
<1>6. ASSUME NEW r \in Calls, NEW c \in Containers, StopContainer(r, c) PROVE CallInv'
  BY <1>6 DEF StopContainer, ContainerCall, Settle, Acquire, Begin, Allowed, Changing, Removing
<1>7. ASSUME NEW r \in Calls, NEW c \in Containers, ContainerStatus(r, c) PROVE CallInv'
  BY <1>7 DEF ContainerStatus, ContainerCall, Settle, Acquire, Begin, Allowed, Changing, Removing
<1>8. ASSUME NEW r \in Calls, NEW c \in Containers, RemoveContainer(r, c) PROVE CallInv'
  BY <1>8 DEF RemoveContainer, Settle, Begin, Allowed, Changing, Removing
<1>9. ASSUME NEW r \in Calls, ListContainers(r) PROVE CallInv'
  BY <1>9 DEF ListContainers, Begin, Allowed, Changing, Removing
<1>10. ASSUME NEW r \in Calls, Wipe(r) PROVE CallInv'
  BY <1>10 DEF Wipe, Begin, Allowed, Changing, Removing
<1>11. ASSUME NEW r \in Calls, ReconcileRead(r) PROVE CallInv'
  <2>1. Holding(r) /\ Exited(rec[r], read_exit(id[r])) # None
    BY <1>11, HoldFact, ExitedFact DEF ReconcileRead
  <2>2. CASE read_exit(id[r]) # None
    BY <1>11, <2>1, <2>2 DEF ReconcileRead
  <2>3. CASE read_exit(id[r]) = None
    BY <1>11, <2>1, <2>3 DEF ReconcileRead, Goto
  <2>. QED
    BY <2>2, <2>3
<1>12. ASSUME NEW r \in Calls, ReconcileAlive(r) PROVE CallInv'
  BY <1>12 DEF ReconcileAlive, Goto, pid_alive
<1>13. ASSUME NEW r \in Calls, ReconcilePoll(r) PROVE CallInv'
  <2>1. Holding(r) /\ Exited(rec[r], read_exit(id[r])) # None
    BY <1>13, HoldFact, ExitedFact DEF ReconcilePoll
  <2>. QED
    BY <1>13, <2>1 DEF ReconcilePoll
<1>14. ASSUME NEW r \in Calls, ReconcileSave(r) PROVE CallInv'
  BY <1>14 DEF ReconcileSave, Goto
<1>15. ASSUME NEW r \in Calls, ForceKill(r) PROVE CallInv'
  BY <1>15 DEF ForceKill, At, Forcing, Goto
<1>16. ASSUME NEW r \in Calls, ForceGiveUp(r) PROVE CallInv'
  BY <1>16, <1>return DEF ForceGiveUp
<1>17. ASSUME NEW r \in Calls, ForceDone(r) PROVE CallInv'
  <2>1. CASE op[r] # "abandoned"
    BY <1>17, <2>1 DEF ForceDone, At, Forcing, Goto
  <2>2. CASE ~(op[r] # "abandoned")
    BY <1>17, <1>return, <2>2 DEF ForceDone
  <2>. QED
    BY <2>1, <2>2
<1>18. ASSUME NEW r \in Calls, RunSave(r) PROVE CallInv'
  BY <1>18, <1>return DEF RunSave
<1>19. ASSUME NEW r \in Calls, NEW c \in Containers, PodNext(r, c) PROVE CallInv'
  <2>1. c # None /\ todo[r][c] # None
    BY <1>19, CopiesFact DEF PodNext, Take
  <2>. QED
    BY <1>19, <2>1 DEF PodNext, At, Take, Settle
<1>20. ASSUME NEW r \in Calls, StopPodForced(r) PROVE CallInv'
  BY <1>20 DEF StopPodForced, At, Goto
<1>21. ASSUME NEW r \in Calls, StopPodSave(r) PROVE CallInv'
  BY <1>21, <1>return DEF StopPodSave
<1>22. ASSUME NEW r \in Calls, RemovePodLast(r) PROVE CallInv'
  BY <1>22, <1>return DEF RemovePodLast
<1>23. ASSUME NEW r \in Calls, Unbundle(r) PROVE CallInv'
  BY <1>23 DEF Unbundle, At, Goto
<1>24. ASSUME NEW r \in Calls, Unrecord(r) PROVE CallInv'
  <2>1. CASE op[r] = "rmpod"
    BY <1>24, <2>1 DEF Unrecord, At, Goto
  <2>2. CASE ~(op[r] = "rmpod")
    BY <1>24, <1>return, <2>2 DEF Unrecord
  <2>. QED
    BY <2>1, <2>2
<1>25. ASSUME NEW r \in Calls, NEW n \in Names, NEW c \in Containers, CreateLock(r, n, c) PROVE CallInv'
  <2>1. CASE \E d \in Recorded : ctr[d].name = n
    BY <1>25, <1>return, <2>1 DEF CreateLock
  <2>2. CASE ~(\E d \in Recorded : ctr[d].name = n)
    <3>1. [name |-> n, pod |-> home[r], state |-> "Created", pid |-> None, code |-> None] \in Records
      BY <1>25 DEF CreateLock, At, Records
    <3>. QED
      BY <1>25, <2>2, <3>1 DEF CreateLock, At
  <2>. QED
    BY <2>1, <2>2
<1>26. ASSUME NEW r \in Calls, CreatePrepare(r) PROVE CallInv'
  <2>1. CASE Goto(r, "save")
    BY <1>26, <2>1 DEF CreatePrepare, At, Goto
  <2>2. CASE ~(Goto(r, "save"))
    BY <1>26, <1>return, <2>2 DEF CreatePrepare
  <2>. QED
    BY <2>1, <2>2
<1>27. ASSUME NEW r \in Calls, CreateSave(r) PROVE CallInv'
  BY <1>27, <1>return DEF CreateSave
<1>28. ASSUME NEW r \in Calls, StatusAnswer(r) PROVE CallInv'
  BY <1>28, <1>return DEF StatusAnswer
<1>29. ASSUME NEW r \in Calls, RemoveAgain(r) PROVE CallInv'
  <2>1. CASE ctr[id[r]] # None
    BY <1>29, <2>1 DEF RemoveAgain, At, Acquire, Goto
  <2>2. CASE ~(ctr[id[r]] # None)
    BY <1>29, <1>return, <2>2 DEF RemoveAgain
  <2>. QED
    BY <2>1, <2>2
<1>30. ASSUME NEW r \in Calls, StartSettled(r) PROVE CallInv'
  <2>1. CASE rec[r].state = "Created"
    BY <1>30, <2>1 DEF StartSettled, At, Goto
  <2>2. CASE ~(rec[r].state = "Created")
    BY <1>30, <1>return, <2>2 DEF StartSettled
  <2>. QED
    BY <2>1, <2>2
<1>31. ASSUME NEW r \in Calls, NEW p \in Pids, StartSpawn(r, p) PROVE CallInv'
  BY <1>31 DEF StartSpawn, At, Goto
<1>32. ASSUME NEW r \in Calls, StartPid(r) PROVE CallInv'
  <2>1. Holding(r) /\ [rec[r] EXCEPT !.state = "Running", !.pid = bundle[id[r]].pid] # None
    BY <1>32, HoldFact, ExitedFact DEF StartPid, At
  <2>. QED
    BY <1>32, <2>1 DEF StartPid, At
<1>33. ASSUME NEW r \in Calls, StartError(r) PROVE CallInv'
  BY <1>33, <1>return DEF StartError
<1>34. ASSUME NEW r \in Calls, StartTimeout(r) PROVE CallInv'
  BY <1>34, <1>return DEF StartTimeout
<1>35. ASSUME NEW r \in Calls, StartRecord(r) PROVE CallInv'
  BY <1>35, <1>return DEF StartRecord
<1>36. ASSUME NEW r \in Calls, StopSettled(r) PROVE CallInv'
  <2>1. CASE rec[r].state = "Running"
    BY <1>36, <2>1 DEF StopSettled, At, Goto
  <2>2. CASE ~(rec[r].state = "Running")
    BY <1>36, <1>return, <2>2 DEF StopSettled
  <2>. QED
    BY <2>1, <2>2
<1>37. ASSUME NEW r \in Calls, StopGrace(r) PROVE CallInv'
  BY <1>37 DEF StopGrace, At, Settle, Ops
<1>38. ASSUME NEW r \in Calls, StopSave(r) PROVE CallInv'
  BY <1>38, <1>return DEF StopSave
<1>39. ASSUME NEW r \in Calls, ListNext(r) PROVE CallInv'
  <2>1. CASE todo[r] = Nothing
    BY <1>39, <1>return, <2>1 DEF ListNext
  <2>2. CASE todo[r] # Nothing
    <3>1. PICK c \in DOMAIN todo[r] : Take(r, c) /\ pc' = [pc EXCEPT ![r] = Settle(todo[r][c])]
      BY <1>39, <2>2 DEF ListNext
    <3>2. c # None /\ todo[r][c] # None
      BY <3>1, CopiesFact
    <3>. QED
      BY <1>39, <3>1, <3>2 DEF ListNext, Take, Settle, At
  <2>. QED
    BY <2>1, <2>2
<1>40. ASSUME NEW r \in Calls, ListSettled(r) PROVE CallInv'
  BY <1>40 DEF ListSettled, At, Goto
<1>41. ASSUME NEW r \in Calls, NEW c \in Containers, WipeContainer(r, c) PROVE CallInv'
  BY <1>41 DEF WipeContainer, At, Take
<1>42. ASSUME NEW r \in Calls, WipeRecord(r) PROVE CallInv'
  BY <1>42 DEF WipeRecord, At, Goto
<1>43. ASSUME NEW r \in Calls, WipePods(r) PROVE CallInv'
  BY <1>43, <1>return DEF WipePods
<1>44. ASSUME NEW p \in Pids, LauncherFails(p) PROVE CallInv'
  BY <1>44 DEF LauncherFails
<1>45. ASSUME NEW p \in Pids, LauncherReportsPid(p) PROVE CallInv'
  BY <1>45 DEF LauncherReportsPid
<1>46. ASSUME NEW p \in Pids, ProcessEnds(p) PROVE CallInv'
  BY <1>46 DEF ProcessEnds, pid_alive
<1>47. ASSUME NEW p \in Pids, LauncherRecordsExit(p) PROVE CallInv'
  BY <1>47 DEF LauncherRecordsExit
<1>48. ASSUME NEW p \in Pids, LauncherKilled(p) PROVE CallInv'
  BY <1>48 DEF LauncherKilled, pid_alive
<1>49. ASSUME NEW r \in Calls, Cancel(r) PROVE CallInv'
  <2>1. CASE ~Return(r)
    BY <1>49, <2>1 DEF Cancel, At, Ops
  <2>2. CASE ~(~Return(r))
    BY <1>49, <1>return, <2>2 DEF Cancel
  <2>. QED
    BY <2>1, <2>2
<1>50. CASE Restart
  BY <1>50 DEF Restart, Ops
<1>51. CASE UNCHANGED vars
  BY <1>51 DEF vars
<1>. HIDE DEF CallInv, CallType, Settling, Holding, Changing, Removing
<1>. QED
  BY <1>1, <1>2, <1>3, <1>4, <1>5, <1>6, <1>7, <1>8, <1>9, <1>10, <1>11, <1>12, <1>13,
     <1>14, <1>15, <1>16, <1>17, <1>18, <1>19, <1>20, <1>21, <1>22, <1>23, <1>24, <1>25,
     <1>26, <1>27, <1>28, <1>29, <1>30, <1>31, <1>32, <1>33, <1>34, <1>35, <1>36, <1>37,
     <1>38, <1>39, <1>40, <1>41, <1>42, <1>43, <1>44, <1>45, <1>46, <1>47, <1>48, <1>49,
     <1>50, <1>51 DEF Next, CallBegin, CallStep, Reconcile, ProcessStep

(* A step keeps to what the lock is for.                                   *)
LEMMA LockStep == TypeOK /\ LockInv /\ [Next]_vars => LockInv'
<1>. SUFFICES ASSUME TypeOK, LockInv, [Next]_vars PROVE LockInv'
  OBVIOUS
<1>o. CallType /\ None \notin Ops /\ None \notin Calls
  BY ConstantsAssumption DEF TypeOK, CallType
<1>return. ASSUME NEW r \in Calls, Return(r), Release(r) \/ (UNCHANGED lock /\ lock # r) PROVE LockInv'
  BY <1>o, <1>return DEF Return, Release, LockInv, CallType, Ops, Settling
<1>. USE <1>o DEF vars, call, CallType, Settling, LockInv
<1>1. ASSUME NEW r \in Calls, NEW s \in Pods, NEW n \in PodNames, RunPodSandbox(r, s, n) PROVE LockInv'
  BY <1>1 DEF RunPodSandbox, Acquire, Begin
<1>2. ASSUME NEW r \in Calls, NEW s \in Pods, StopPodSandbox(r, s) PROVE LockInv'
  BY <1>2 DEF StopPodSandbox, PodCall, Acquire, Begin
<1>3. ASSUME NEW r \in Calls, NEW s \in Pods, RemovePodSandbox(r, s) PROVE LockInv'
  BY <1>3 DEF RemovePodSandbox, PodCall, Acquire, Begin
<1>4. ASSUME NEW r \in Calls, NEW s \in Pods, CreateContainer(r, s) PROVE LockInv'
  BY <1>4 DEF CreateContainer, Begin
<1>5. ASSUME NEW r \in Calls, NEW c \in Containers, StartContainer(r, c) PROVE LockInv'
  BY <1>5 DEF StartContainer, ContainerCall, Settle, Acquire, Begin
<1>6. ASSUME NEW r \in Calls, NEW c \in Containers, StopContainer(r, c) PROVE LockInv'
  BY <1>6 DEF StopContainer, ContainerCall, Settle, Acquire, Begin
<1>7. ASSUME NEW r \in Calls, NEW c \in Containers, ContainerStatus(r, c) PROVE LockInv'
  BY <1>7 DEF ContainerStatus, ContainerCall, Settle, Acquire, Begin
<1>8. ASSUME NEW r \in Calls, NEW c \in Containers, RemoveContainer(r, c) PROVE LockInv'
  BY <1>8 DEF RemoveContainer, Settle, Begin
<1>9. ASSUME NEW r \in Calls, ListContainers(r) PROVE LockInv'
  BY <1>9 DEF ListContainers, Begin
<1>10. ASSUME NEW r \in Calls, Wipe(r) PROVE LockInv'
  BY <1>10 DEF Wipe, Begin
<1>11. ASSUME NEW r \in Calls, ReconcileRead(r) PROVE LockInv'
  BY <1>11 DEF ReconcileRead, Goto, read_exit, Exited
<1>12. ASSUME NEW r \in Calls, ReconcileAlive(r) PROVE LockInv'
  BY <1>12 DEF ReconcileAlive, Goto, pid_alive
<1>13. ASSUME NEW r \in Calls, ReconcilePoll(r) PROVE LockInv'
  BY <1>13 DEF ReconcilePoll, read_exit, Exited
<1>14. ASSUME NEW r \in Calls, ReconcileSave(r) PROVE LockInv'
  BY <1>14 DEF ReconcileSave, Goto
<1>15. ASSUME NEW r \in Calls, ForceKill(r) PROVE LockInv'
  BY <1>15 DEF ForceKill, At, Forcing, Goto
<1>16. ASSUME NEW r \in Calls, ForceGiveUp(r) PROVE LockInv'
  BY <1>16, <1>return DEF ForceGiveUp
<1>17. ASSUME NEW r \in Calls, ForceDone(r) PROVE LockInv'
  <2>1. CASE op[r] # "abandoned"
    BY <1>17, <2>1 DEF ForceDone, At, Forcing, Goto
  <2>2. CASE op[r] = "abandoned"
    BY <1>17, <2>2 DEF ForceDone, Return, Ops
  <2>. QED
    BY <2>1, <2>2
<1>18. ASSUME NEW r \in Calls, RunSave(r) PROVE LockInv'
  BY <1>18, <1>return DEF RunSave
<1>19. ASSUME NEW r \in Calls, NEW c \in Containers, PodNext(r, c) PROVE LockInv'
  BY <1>19 DEF PodNext, At, Take, Settle
<1>20. ASSUME NEW r \in Calls, StopPodForced(r) PROVE LockInv'
  BY <1>20 DEF StopPodForced, At, Goto
<1>21. ASSUME NEW r \in Calls, StopPodSave(r) PROVE LockInv'
  BY <1>21, <1>return DEF StopPodSave
<1>22. ASSUME NEW r \in Calls, RemovePodLast(r) PROVE LockInv'
  BY <1>22, <1>return DEF RemovePodLast
<1>23. ASSUME NEW r \in Calls, Unbundle(r) PROVE LockInv'
  BY <1>23 DEF Unbundle, At, Goto
<1>24. ASSUME NEW r \in Calls, Unrecord(r) PROVE LockInv'
  BY <1>24 DEF Unrecord, At, Goto, Return, Release, Ops
<1>25. ASSUME NEW r \in Calls, NEW n \in Names, NEW c \in Containers, CreateLock(r, n, c) PROVE LockInv'
  BY <1>25 DEF CreateLock, At, Acquire, Return, Recorded, Ops
<1>26. ASSUME NEW r \in Calls, CreatePrepare(r) PROVE LockInv'
  BY <1>26 DEF CreatePrepare, At, Goto, Return, Release, Ops
<1>27. ASSUME NEW r \in Calls, CreateSave(r) PROVE LockInv'
  BY <1>27, <1>return DEF CreateSave
<1>28. ASSUME NEW r \in Calls, StatusAnswer(r) PROVE LockInv'
  BY <1>28, <1>return DEF StatusAnswer
<1>29. ASSUME NEW r \in Calls, RemoveAgain(r) PROVE LockInv'
  BY <1>29 DEF RemoveAgain, At, Return, Acquire, Goto, Ops
<1>30. ASSUME NEW r \in Calls, StartSettled(r) PROVE LockInv'
  BY <1>30 DEF StartSettled, At, Release, Goto, Return, Ops
<1>31. ASSUME NEW r \in Calls, NEW p \in Pids, StartSpawn(r, p) PROVE LockInv'
  BY <1>31 DEF StartSpawn, At, Goto
<1>32. ASSUME NEW r \in Calls, StartPid(r) PROVE LockInv'
  BY <1>32 DEF StartPid, At
<1>33. ASSUME NEW r \in Calls, StartError(r) PROVE LockInv'
  BY <1>33 DEF StartError, At, Return, Ops
<1>34. ASSUME NEW r \in Calls, StartTimeout(r) PROVE LockInv'
  BY <1>34 DEF StartTimeout, At, Return, Ops
<1>35. ASSUME NEW r \in Calls, StartRecord(r) PROVE LockInv'
  BY <1>35 DEF StartRecord, At, Return, Ops
<1>36. ASSUME NEW r \in Calls, StopSettled(r) PROVE LockInv'
  BY <1>36 DEF StopSettled, At, Release, Goto, Return, Ops
<1>37. ASSUME NEW r \in Calls, StopGrace(r) PROVE LockInv'
  BY <1>37 DEF StopGrace, At, Settle
<1>38. ASSUME NEW r \in Calls, StopSave(r) PROVE LockInv'
  BY <1>38 DEF StopSave, At, Return, Ops
<1>39. ASSUME NEW r \in Calls, ListNext(r) PROVE LockInv'
  <2>1. CASE todo[r] = Nothing
    BY <1>39, <2>1 DEF ListNext, Return, At, Ops
  <2>2. CASE todo[r] # Nothing
    <3>1. PICK c \in DOMAIN todo[r] : Take(r, c) /\ pc' = [pc EXCEPT ![r] = Settle(todo[r][c])]
      BY <1>39, <2>2 DEF ListNext
    <3>. QED
      BY <1>39, <3>1 DEF ListNext, Take, At
  <2>. QED
    BY <2>1, <2>2
<1>40. ASSUME NEW r \in Calls, ListSettled(r) PROVE LockInv'
  BY <1>40 DEF ListSettled, At, Goto
<1>41. ASSUME NEW r \in Calls, NEW c \in Containers, WipeContainer(r, c) PROVE LockInv'
  BY <1>41 DEF WipeContainer, At, Take
<1>42. ASSUME NEW r \in Calls, WipeRecord(r) PROVE LockInv'
  BY <1>42 DEF WipeRecord, At, Goto
<1>43. ASSUME NEW r \in Calls, WipePods(r) PROVE LockInv'
  BY <1>43 DEF WipePods, At, Return, Ops
<1>44. ASSUME NEW p \in Pids, LauncherFails(p) PROVE LockInv'
  BY <1>44 DEF LauncherFails
<1>45. ASSUME NEW p \in Pids, LauncherReportsPid(p) PROVE LockInv'
  BY <1>45 DEF LauncherReportsPid
<1>46. ASSUME NEW p \in Pids, ProcessEnds(p) PROVE LockInv'
  BY <1>46 DEF ProcessEnds, pid_alive
<1>47. ASSUME NEW p \in Pids, LauncherRecordsExit(p) PROVE LockInv'
  BY <1>47 DEF LauncherRecordsExit
<1>48. ASSUME NEW p \in Pids, LauncherKilled(p) PROVE LockInv'
  BY <1>48 DEF LauncherKilled, pid_alive
<1>49. ASSUME NEW r \in Calls, Cancel(r) PROVE LockInv'
  BY <1>49 DEF Cancel, At, Return, CutShort, Ops
<1>50. CASE Restart
  BY <1>50 DEF Restart, Ops
<1>51. CASE UNCHANGED vars
  BY <1>51 DEF vars
<1>. HIDE DEF LockInv, CallType, Settling
<1>. QED
  BY <1>1, <1>2, <1>3, <1>4, <1>5, <1>6, <1>7, <1>8, <1>9, <1>10, <1>11, <1>12, <1>13,
     <1>14, <1>15, <1>16, <1>17, <1>18, <1>19, <1>20, <1>21, <1>22, <1>23, <1>24, <1>25,
     <1>26, <1>27, <1>28, <1>29, <1>30, <1>31, <1>32, <1>33, <1>34, <1>35, <1>36, <1>37,
     <1>38, <1>39, <1>40, <1>41, <1>42, <1>43, <1>44, <1>45, <1>46, <1>47, <1>48, <1>49,
     <1>50, <1>51 DEF Next, CallBegin, CallStep, Reconcile, ProcessStep

(* While clients keep to the rules their calls overlap no more.            *)
LEMMA RuleStep == KeepRules /\ TypeOK /\ RuleInv /\ [Next]_vars => RuleInv'
<1>. SUFFICES ASSUME KeepRules, TypeOK, RuleInv, [Next]_vars PROVE RuleInv'
  OBVIOUS
<1>o. op \in [Calls -> Ops \cup {None}] /\ None \notin Ops
  BY ConstantsAssumption DEF TypeOK
<1>same. ASSUME UNCHANGED op PROVE RuleInv'
  BY <1>same DEF RuleInv
<1>end. ASSUME NEW r \in Calls, op' = [op EXCEPT ![r] = None] PROVE RuleInv'
  BY <1>o, <1>end DEF RuleInv, Changing, Removing, Ops
<1>begin. ASSUME NEW r \in Calls, NEW k \in Ops, Allowed(k), op[r] = None, op' = [op EXCEPT ![r] = k]
          PROVE  RuleInv'
  BY <1>o, <1>begin DEF RuleInv, Changing, Removing, Ops, Allowed, KeepRules
<1>turn. ASSUME NEW r \in Calls, \/ op[r] \in {"stopping", "remove"} /\ op' = [op EXCEPT ![r] = "abandoned"]
                                 \/ op[r] = "stop" /\ op' = [op EXCEPT ![r] = "stopping"]
         PROVE  RuleInv'
  BY <1>o, <1>turn DEF RuleInv, Changing, Removing, Ops
<1>1. ASSUME NEW r \in Calls, NEW s \in Pods, NEW n \in PodNames, RunPodSandbox(r, s, n) PROVE RuleInv'
  BY <1>1, <1>begin DEF RunPodSandbox, Begin, Ops
<1>2. ASSUME NEW r \in Calls, NEW s \in Pods, StopPodSandbox(r, s) PROVE RuleInv'
  BY <1>2, <1>begin DEF StopPodSandbox, PodCall, Begin, Ops
<1>3. ASSUME NEW r \in Calls, NEW s \in Pods, RemovePodSandbox(r, s) PROVE RuleInv'
  BY <1>3, <1>begin DEF RemovePodSandbox, PodCall, Begin, Ops
<1>4. ASSUME NEW r \in Calls, NEW s \in Pods, CreateContainer(r, s) PROVE RuleInv'
  BY <1>4, <1>begin DEF CreateContainer, Begin, Ops
<1>5. ASSUME NEW r \in Calls, NEW c \in Containers, StartContainer(r, c) PROVE RuleInv'
  BY <1>5, <1>begin DEF StartContainer, ContainerCall, Begin, Ops
<1>6. ASSUME NEW r \in Calls, NEW c \in Containers, StopContainer(r, c) PROVE RuleInv'
  BY <1>6, <1>begin DEF StopContainer, ContainerCall, Begin, Ops
<1>7. ASSUME NEW r \in Calls, NEW c \in Containers, ContainerStatus(r, c) PROVE RuleInv'
  BY <1>7, <1>begin DEF ContainerStatus, ContainerCall, Begin, Ops
<1>8. ASSUME NEW r \in Calls, NEW c \in Containers, RemoveContainer(r, c) PROVE RuleInv'
  BY <1>8, <1>begin DEF RemoveContainer, Begin, Ops
<1>9. ASSUME NEW r \in Calls, ListContainers(r) PROVE RuleInv'
  BY <1>9, <1>begin DEF ListContainers, Begin, Ops
<1>10. ASSUME NEW r \in Calls, Wipe(r) PROVE RuleInv'
  BY <1>10, <1>begin DEF Wipe, Begin, Ops
<1>11. ASSUME NEW r \in Calls, ReconcileRead(r) PROVE RuleInv'
  BY <1>11, <1>same DEF ReconcileRead, Goto
<1>12. ASSUME NEW r \in Calls, ReconcileAlive(r) PROVE RuleInv'
  BY <1>12, <1>same DEF ReconcileAlive, Goto
<1>13. ASSUME NEW r \in Calls, ReconcilePoll(r) PROVE RuleInv'
  BY <1>13, <1>same DEF ReconcilePoll
<1>14. ASSUME NEW r \in Calls, ReconcileSave(r) PROVE RuleInv'
  BY <1>14, <1>same DEF ReconcileSave, Goto
<1>15. ASSUME NEW r \in Calls, ForceKill(r) PROVE RuleInv'
  BY <1>15, <1>same DEF ForceKill, At, Goto
<1>16. ASSUME NEW r \in Calls, ForceGiveUp(r) PROVE RuleInv'
  BY <1>16, <1>end, <1>same DEF ForceGiveUp, At, Return
<1>17. ASSUME NEW r \in Calls, ForceDone(r) PROVE RuleInv'
  BY <1>17, <1>end, <1>same DEF ForceDone, At, Return, Goto
<1>18. ASSUME NEW r \in Calls, RunSave(r) PROVE RuleInv'
  BY <1>18, <1>end, <1>same DEF RunSave, At, Return
<1>19. ASSUME NEW r \in Calls, NEW c \in Containers, PodNext(r, c) PROVE RuleInv'
  BY <1>19, <1>same DEF PodNext, At, Take
<1>20. ASSUME NEW r \in Calls, StopPodForced(r) PROVE RuleInv'
  BY <1>20, <1>same DEF StopPodForced, At, Goto
<1>21. ASSUME NEW r \in Calls, StopPodSave(r) PROVE RuleInv'
  BY <1>21, <1>end, <1>same DEF StopPodSave, At, Return
<1>22. ASSUME NEW r \in Calls, RemovePodLast(r) PROVE RuleInv'
  BY <1>22, <1>end, <1>same DEF RemovePodLast, At, Return
<1>23. ASSUME NEW r \in Calls, Unbundle(r) PROVE RuleInv'
  BY <1>23, <1>same DEF Unbundle, At, Goto
<1>24. ASSUME NEW r \in Calls, Unrecord(r) PROVE RuleInv'
  BY <1>24, <1>end, <1>same DEF Unrecord, At, Goto, Return
<1>25. ASSUME NEW r \in Calls, NEW n \in Names, NEW c \in Containers, CreateLock(r, n, c) PROVE RuleInv'
  BY <1>25, <1>end, <1>same DEF CreateLock, At, Return
<1>26. ASSUME NEW r \in Calls, CreatePrepare(r) PROVE RuleInv'
  BY <1>26, <1>end, <1>same DEF CreatePrepare, At, Goto, Return
<1>27. ASSUME NEW r \in Calls, CreateSave(r) PROVE RuleInv'
  BY <1>27, <1>end, <1>same DEF CreateSave, At, Return
<1>28. ASSUME NEW r \in Calls, StatusAnswer(r) PROVE RuleInv'
  BY <1>28, <1>end, <1>same DEF StatusAnswer, At, Return
<1>29. ASSUME NEW r \in Calls, RemoveAgain(r) PROVE RuleInv'
  BY <1>29, <1>end, <1>same DEF RemoveAgain, At, Return, Goto
<1>30. ASSUME NEW r \in Calls, StartSettled(r) PROVE RuleInv'
  BY <1>30, <1>end, <1>same DEF StartSettled, At, Goto, Return
<1>31. ASSUME NEW r \in Calls, NEW p \in Pids, StartSpawn(r, p) PROVE RuleInv'
  BY <1>31, <1>same DEF StartSpawn, At, Goto
<1>32. ASSUME NEW r \in Calls, StartPid(r) PROVE RuleInv'
  BY <1>32, <1>same DEF StartPid, At
<1>33. ASSUME NEW r \in Calls, StartError(r) PROVE RuleInv'
  BY <1>33, <1>end, <1>same DEF StartError, At, Return
<1>34. ASSUME NEW r \in Calls, StartTimeout(r) PROVE RuleInv'
  BY <1>34, <1>end, <1>same DEF StartTimeout, At, Return
<1>35. ASSUME NEW r \in Calls, StartRecord(r) PROVE RuleInv'
  BY <1>35, <1>end, <1>same DEF StartRecord, At, Return
<1>36. ASSUME NEW r \in Calls, StopSettled(r) PROVE RuleInv'
  BY <1>36, <1>end, <1>same DEF StopSettled, At, Goto, Return
<1>37. ASSUME NEW r \in Calls, StopGrace(r) PROVE RuleInv'
  BY <1>37, <1>same, <1>turn DEF StopGrace, At
<1>38. ASSUME NEW r \in Calls, StopSave(r) PROVE RuleInv'
  BY <1>38, <1>end, <1>same DEF StopSave, At, Return
<1>39. ASSUME NEW r \in Calls, ListNext(r) PROVE RuleInv'
  BY <1>39, <1>end, <1>same DEF ListNext, At, Return, Take
<1>40. ASSUME NEW r \in Calls, ListSettled(r) PROVE RuleInv'
  BY <1>40, <1>same DEF ListSettled, At, Goto
<1>41. ASSUME NEW r \in Calls, NEW c \in Containers, WipeContainer(r, c) PROVE RuleInv'
  BY <1>41, <1>same DEF WipeContainer, At, Take
<1>42. ASSUME NEW r \in Calls, WipeRecord(r) PROVE RuleInv'
  BY <1>42, <1>same DEF WipeRecord, At, Goto
<1>43. ASSUME NEW r \in Calls, WipePods(r) PROVE RuleInv'
  BY <1>43, <1>end, <1>same DEF WipePods, At, Return
<1>44. ASSUME NEW p \in Pids, LauncherFails(p) PROVE RuleInv'
  BY <1>44, <1>same DEF LauncherFails, call
<1>45. ASSUME NEW p \in Pids, LauncherReportsPid(p) PROVE RuleInv'
  BY <1>45, <1>same DEF LauncherReportsPid, call
<1>46. ASSUME NEW p \in Pids, ProcessEnds(p) PROVE RuleInv'
  BY <1>46, <1>same DEF ProcessEnds, call
<1>47. ASSUME NEW p \in Pids, LauncherRecordsExit(p) PROVE RuleInv'
  BY <1>47, <1>same DEF LauncherRecordsExit, call
<1>48. ASSUME NEW p \in Pids, LauncherKilled(p) PROVE RuleInv'
  BY <1>48, <1>same DEF LauncherKilled, call
<1>49. ASSUME NEW r \in Calls, Cancel(r) PROVE RuleInv'
  BY <1>49, <1>end, <1>same, <1>turn DEF Cancel, At, Return
<1>50. CASE Restart
  BY <1>50, <1>o DEF Restart, RuleInv, Changing, Removing, Ops
<1>51. CASE UNCHANGED vars
  BY <1>51, <1>same DEF vars, call
<1>. QED
  BY <1>1, <1>2, <1>3, <1>4, <1>5, <1>6, <1>7, <1>8, <1>9, <1>10, <1>11, <1>12, <1>13,
     <1>14, <1>15, <1>16, <1>17, <1>18, <1>19, <1>20, <1>21, <1>22, <1>23, <1>24, <1>25,
     <1>26, <1>27, <1>28, <1>29, <1>30, <1>31, <1>32, <1>33, <1>34, <1>35, <1>36, <1>37,
     <1>38, <1>39, <1>40, <1>41, <1>42, <1>43, <1>44, <1>45, <1>46, <1>47, <1>48, <1>49,
     <1>50, <1>51 DEF Next, CallBegin, CallStep, Reconcile, ProcessStep

(* Which steps write what.                                                 *)
LEMMA Writers == ASSUME TypeOK, [Next]_vars PROVE
  /\ \/ UNCHANGED ctr
     \/ \E r \in Calls : \/ ReconcileSave(r) \/ Unrecord(r) \/ CreateSave(r) \/ StartRecord(r)
                         \/ StopSettled(r) \/ StopSave(r) \/ WipeRecord(r)
  /\ \/ UNCHANGED bundle
     \/ \E r \in Calls : \/ Unbundle(r) \/ CreatePrepare(r) \/ CreateSave(r)
                         \/ \E c \in Containers : WipeContainer(r, c)
     \/ \E p \in Pids : LauncherFails(p) \/ LauncherReportsPid(p) \/ LauncherRecordsExit(p)
  /\ \/ UNCHANGED procs
     \/ \E r \in Calls : ForceKill(r) \/ \E p \in Pids : StartSpawn(r, p)
     \/ \E p \in Pids : ProcessStep(p)
  /\ \/ UNCHANGED used
     \/ \E r \in Calls, n \in Names, c \in Containers : CreateLock(r, n, c)
  /\ \/ UNCHANGED <<tried, doomed, removed>>
     \/ \E r \in Calls : \/ Unbundle(r) \/ Unrecord(r) \/ WipeRecord(r)
                         \/ \E c \in Containers : StartContainer(r, c) \/ WipeContainer(r, c)
  /\ \/ UNCHANGED lost
     \/ \E r \in Calls : StartTimeout(r) \/ Cancel(r)
     \/ Restart
  /\ \/ UNCHANGED pod
     \/ \E r \in Calls : RunSave(r) \/ StopPodSave(r) \/ RemovePodLast(r) \/ WipePods(r)
  /\ \/ \A q \in Calls : op'[q] = "wipe" => op[q] = "wipe"
     \/ \E r \in Calls : Wipe(r)
<1>. DEFINE Goal ==
       /\ \/ UNCHANGED ctr
          \/ \E r \in Calls : \/ ReconcileSave(r) \/ Unrecord(r) \/ CreateSave(r) \/ StartRecord(r)
                              \/ StopSettled(r) \/ StopSave(r) \/ WipeRecord(r)
       /\ \/ UNCHANGED bundle
          \/ \E r \in Calls : \/ Unbundle(r) \/ CreatePrepare(r) \/ CreateSave(r)
                              \/ \E c \in Containers : WipeContainer(r, c)
          \/ \E p \in Pids : LauncherFails(p) \/ LauncherReportsPid(p) \/ LauncherRecordsExit(p)
       /\ \/ UNCHANGED procs
          \/ \E r \in Calls : ForceKill(r) \/ \E p \in Pids : StartSpawn(r, p)
          \/ \E p \in Pids : ProcessStep(p)
       /\ \/ UNCHANGED used
          \/ \E r \in Calls, n \in Names, c \in Containers : CreateLock(r, n, c)
       /\ \/ UNCHANGED <<tried, doomed, removed>>
          \/ \E r \in Calls : \/ Unbundle(r) \/ Unrecord(r) \/ WipeRecord(r)
                              \/ \E c \in Containers : StartContainer(r, c) \/ WipeContainer(r, c)
       /\ \/ UNCHANGED lost
          \/ \E r \in Calls : StartTimeout(r) \/ Cancel(r)
          \/ Restart
       /\ \/ UNCHANGED pod
          \/ \E r \in Calls : RunSave(r) \/ StopPodSave(r) \/ RemovePodLast(r) \/ WipePods(r)
       /\ \/ \A q \in Calls : op'[q] = "wipe" => op[q] = "wipe"
          \/ \E r \in Calls : Wipe(r)
<1>. SUFFICES Goal
  OBVIOUS
<1>o. op \in [Calls -> Ops \cup {None}] /\ None # "wipe"
  BY ConstantsAssumption DEF TypeOK, Ops
<1>op. ASSUME NEW r \in Calls, NEW k, k # "wipe", op' = [op EXCEPT ![r] = k] \/ UNCHANGED op
       PROVE  \A q \in Calls : op'[q] = "wipe" => op[q] = "wipe"
  BY <1>o, <1>op
<1>1. ASSUME NEW r \in Calls, NEW s \in Pods, NEW n \in PodNames, RunPodSandbox(r, s, n) PROVE Goal
  BY <1>1, <1>op, <1>o DEF RunPodSandbox, Begin, files, procs, history
<1>2. ASSUME NEW r \in Calls, NEW s \in Pods, StopPodSandbox(r, s) PROVE Goal
  BY <1>2, <1>op, <1>o DEF StopPodSandbox, PodCall, Begin, files, procs, history
<1>3. ASSUME NEW r \in Calls, NEW s \in Pods, RemovePodSandbox(r, s) PROVE Goal
  BY <1>3, <1>op, <1>o DEF RemovePodSandbox, PodCall, Begin, files, procs, history
<1>4. ASSUME NEW r \in Calls, NEW s \in Pods, CreateContainer(r, s) PROVE Goal
  BY <1>4, <1>op, <1>o DEF CreateContainer, Begin, files, procs, history
<1>5. ASSUME NEW r \in Calls, NEW c \in Containers, StartContainer(r, c) PROVE Goal
  BY <1>5, <1>op, <1>o DEF StartContainer, ContainerCall, Begin, files, procs, history
<1>6. ASSUME NEW r \in Calls, NEW c \in Containers, StopContainer(r, c) PROVE Goal
  BY <1>6, <1>op, <1>o DEF StopContainer, ContainerCall, Begin, files, procs, history
<1>7. ASSUME NEW r \in Calls, NEW c \in Containers, ContainerStatus(r, c) PROVE Goal
  BY <1>7, <1>op, <1>o DEF ContainerStatus, ContainerCall, Begin, files, procs, history
<1>8. ASSUME NEW r \in Calls, NEW c \in Containers, RemoveContainer(r, c) PROVE Goal
  BY <1>8, <1>op, <1>o DEF RemoveContainer, Begin, files, procs, history
<1>9. ASSUME NEW r \in Calls, ListContainers(r) PROVE Goal
  BY <1>9, <1>op, <1>o DEF ListContainers, Begin, files, procs, history
<1>10. ASSUME NEW r \in Calls, Wipe(r) PROVE Goal
  BY <1>10, <1>op, <1>o DEF Wipe, Begin, files, procs, history
<1>11. ASSUME NEW r \in Calls, ReconcileRead(r) PROVE Goal
  BY <1>11, <1>op DEF ReconcileRead, Goto, files, procs, history
<1>12. ASSUME NEW r \in Calls, ReconcileAlive(r) PROVE Goal
  BY <1>12, <1>op DEF ReconcileAlive, Goto, files, procs, history
<1>13. ASSUME NEW r \in Calls, ReconcilePoll(r) PROVE Goal
  BY <1>13, <1>op DEF ReconcilePoll, files, procs, history
<1>14. ASSUME NEW r \in Calls, ReconcileSave(r) PROVE Goal
  BY <1>14, <1>op DEF ReconcileSave, Goto, files, procs, history
<1>15. ASSUME NEW r \in Calls, ForceKill(r) PROVE Goal
  BY <1>15, <1>op DEF ForceKill, Goto, files, procs, history
<1>16. ASSUME NEW r \in Calls, ForceGiveUp(r) PROVE Goal
  BY <1>16, <1>op, <1>o DEF ForceGiveUp, Return, files, procs, history
<1>17. ASSUME NEW r \in Calls, ForceDone(r) PROVE Goal
  BY <1>17, <1>op, <1>o DEF ForceDone, Return, Goto, files, procs, history
<1>18. ASSUME NEW r \in Calls, RunSave(r) PROVE Goal
  BY <1>18, <1>op, <1>o DEF RunSave, Return, files, procs, history
<1>19. ASSUME NEW r \in Calls, NEW c \in Containers, PodNext(r, c) PROVE Goal
  BY <1>19, <1>op DEF PodNext, Take, files, procs, history
<1>20. ASSUME NEW r \in Calls, StopPodForced(r) PROVE Goal
  BY <1>20, <1>op DEF StopPodForced, Goto, files, procs, history
<1>21. ASSUME NEW r \in Calls, StopPodSave(r) PROVE Goal
  BY <1>21, <1>op, <1>o DEF StopPodSave, Return, files, procs, history
<1>22. ASSUME NEW r \in Calls, RemovePodLast(r) PROVE Goal
  BY <1>22, <1>op, <1>o DEF RemovePodLast, Return, files, procs, history
<1>23. ASSUME NEW r \in Calls, Unbundle(r) PROVE Goal
  BY <1>23, <1>op DEF Unbundle, Goto, files, procs, history
<1>24. ASSUME NEW r \in Calls, Unrecord(r) PROVE Goal
  BY <1>24, <1>op, <1>o DEF Unrecord, Goto, Return, files, procs, history
<1>25. ASSUME NEW r \in Calls, NEW n \in Names, NEW c \in Containers, CreateLock(r, n, c) PROVE Goal
  BY <1>25, <1>op, <1>o DEF CreateLock, Return, files, procs, history
<1>26. ASSUME NEW r \in Calls, CreatePrepare(r) PROVE Goal
  BY <1>26, <1>op, <1>o DEF CreatePrepare, Goto, Return, files, procs, history
<1>27. ASSUME NEW r \in Calls, CreateSave(r) PROVE Goal
  BY <1>27, <1>op, <1>o DEF CreateSave, Return, files, procs, history
<1>28. ASSUME NEW r \in Calls, StatusAnswer(r) PROVE Goal
  BY <1>28, <1>op, <1>o DEF StatusAnswer, Return, files, procs, history
<1>29. ASSUME NEW r \in Calls, RemoveAgain(r) PROVE Goal
  BY <1>29, <1>op, <1>o DEF RemoveAgain, Return, Goto, files, procs, history
<1>30. ASSUME NEW r \in Calls, StartSettled(r) PROVE Goal
  BY <1>30, <1>op, <1>o DEF StartSettled, Goto, Return, files, procs, history
<1>31. ASSUME NEW r \in Calls, NEW p \in Pids, StartSpawn(r, p) PROVE Goal
  BY <1>31, <1>op DEF StartSpawn, Goto, files, procs, history
<1>32. ASSUME NEW r \in Calls, StartPid(r) PROVE Goal
  BY <1>32, <1>op DEF StartPid, files, procs, history
<1>33. ASSUME NEW r \in Calls, StartError(r) PROVE Goal
  BY <1>33, <1>op, <1>o DEF StartError, Return, files, procs, history
<1>34. ASSUME NEW r \in Calls, StartTimeout(r) PROVE Goal
  BY <1>34, <1>op, <1>o DEF StartTimeout, Return, files, procs, history
<1>35. ASSUME NEW r \in Calls, StartRecord(r) PROVE Goal
  BY <1>35, <1>op, <1>o DEF StartRecord, Return, files, procs, history
<1>36. ASSUME NEW r \in Calls, StopSettled(r) PROVE Goal
  BY <1>36, <1>op, <1>o DEF StopSettled, Goto, Return, files, procs, history
<1>37. ASSUME NEW r \in Calls, StopGrace(r) PROVE Goal
  BY <1>37, <1>op DEF StopGrace, files, procs, history
<1>38. ASSUME NEW r \in Calls, StopSave(r) PROVE Goal
  BY <1>38, <1>op, <1>o DEF StopSave, Return, files, procs, history
<1>39. ASSUME NEW r \in Calls, ListNext(r) PROVE Goal
  BY <1>39, <1>op, <1>o DEF ListNext, Return, Take, files, procs, history
<1>40. ASSUME NEW r \in Calls, ListSettled(r) PROVE Goal
  BY <1>40, <1>op DEF ListSettled, Goto, files, procs, history
<1>41. ASSUME NEW r \in Calls, NEW c \in Containers, WipeContainer(r, c) PROVE Goal
  BY <1>41, <1>op DEF WipeContainer, Take, files, procs, history
<1>42. ASSUME NEW r \in Calls, WipeRecord(r) PROVE Goal
  BY <1>42, <1>op DEF WipeRecord, Goto, files, procs, history
<1>43. ASSUME NEW r \in Calls, WipePods(r) PROVE Goal
  BY <1>43, <1>op, <1>o DEF WipePods, Return, files, procs, history
<1>44. ASSUME NEW p \in Pids, LauncherFails(p) PROVE Goal
  BY <1>44 DEF LauncherFails, files, procs, history, call, ProcessStep
<1>45. ASSUME NEW p \in Pids, LauncherReportsPid(p) PROVE Goal
  BY <1>45 DEF LauncherReportsPid, files, procs, history, call, ProcessStep
<1>46. ASSUME NEW p \in Pids, ProcessEnds(p) PROVE Goal
  BY <1>46 DEF ProcessEnds, files, procs, history, call, ProcessStep
<1>47. ASSUME NEW p \in Pids, LauncherRecordsExit(p) PROVE Goal
  BY <1>47 DEF LauncherRecordsExit, files, procs, history, call, ProcessStep
<1>48. ASSUME NEW p \in Pids, LauncherKilled(p) PROVE Goal
  BY <1>48 DEF LauncherKilled, files, procs, history, call, ProcessStep
<1>49. ASSUME NEW r \in Calls, Cancel(r) PROVE Goal
  BY <1>49, <1>op, <1>o DEF Cancel, Return, files, procs, history
<1>50. CASE Restart
  BY <1>50, <1>o DEF Restart, files, procs, history
<1>51. CASE UNCHANGED vars
  BY <1>51 DEF vars, files, procs, call, history
<1>. QED
  BY <1>1, <1>2, <1>3, <1>4, <1>5, <1>6, <1>7, <1>8, <1>9, <1>10, <1>11, <1>12, <1>13,
     <1>14, <1>15, <1>16, <1>17, <1>18, <1>19, <1>20, <1>21, <1>22, <1>23, <1>24, <1>25,
     <1>26, <1>27, <1>28, <1>29, <1>30, <1>31, <1>32, <1>33, <1>34, <1>35, <1>36, <1>37,
     <1>38, <1>39, <1>40, <1>41, <1>42, <1>43, <1>44, <1>45, <1>46, <1>47, <1>48, <1>49,
     <1>50, <1>51 DEF Next, CallBegin, CallStep, Reconcile, ProcessStep

(* Call q is where it was, with all that it holds.                         *)
Still(q) ==
    /\ op'[q] = op[q] /\ pc'[q] = pc[q] /\ home'[q] = home[q]
    /\ id'[q] = id[q] /\ rec'[q] = rec[q] /\ todo'[q] = todo[q]

(* A call's step leaves the other calls alone.                             *)
LEMMA Others == ASSUME TypeOK, NEW r \in Calls, CallBegin(r) \/ CallStep(r) \/ Cancel(r)
  PROVE \A q \in Calls \ {r} : Still(q)
<1>. DEFINE Goal == \A q \in Calls \ {r} : Still(q)
<1>t. /\ op \in [Calls -> Ops \cup {None}] /\ pc \in [Calls -> Places]
      /\ home \in [Calls -> Pods \cup {None}] /\ id \in [Calls -> Containers \cup {None}]
      /\ rec \in [Calls -> Records \cup {None}] /\ todo \in [Calls -> Copies]
  BY DEF TypeOK
<1>one. ASSUME NEW a, NEW b, NEW c, NEW d, NEW e, NEW f,
               op' = [op EXCEPT ![r] = a] \/ UNCHANGED op, pc' = [pc EXCEPT ![r] = b] \/ UNCHANGED pc,
               home' = [home EXCEPT ![r] = c] \/ UNCHANGED home, id' = [id EXCEPT ![r] = d] \/ UNCHANGED id,
               rec' = [rec EXCEPT ![r] = e] \/ UNCHANGED rec, todo' = [todo EXCEPT ![r] = f] \/ UNCHANGED todo
        PROVE  Goal
  BY <1>t, <1>one DEF Still
<1>begin. ASSUME NEW k, NEW l, NEW s, NEW c, NEW m, Begin(r, k, l, s, c, m) PROVE Goal
  BY <1>one, <1>begin DEF Begin
<1>goto. ASSUME NEW l, Goto(r, l) PROVE Goal
  BY <1>one, <1>goto DEF Goto
<1>return. ASSUME Return(r) PROVE Goal
  BY <1>one, <1>return DEF Return
<1>take. ASSUME NEW c, NEW l, Take(r, c), pc' = [pc EXCEPT ![r] = l] PROVE Goal
  BY <1>one, <1>take DEF Take
<1>. HIDE DEF Goal
<1>1. ASSUME NEW s \in Pods, NEW n \in PodNames, RunPodSandbox(r, s, n) PROVE Goal
  BY <1>1, <1>begin DEF RunPodSandbox
<1>2. ASSUME NEW s \in Pods, StopPodSandbox(r, s) PROVE Goal
  BY <1>2, <1>begin DEF StopPodSandbox, PodCall
<1>3. ASSUME NEW s \in Pods, RemovePodSandbox(r, s) PROVE Goal
  BY <1>3, <1>begin DEF RemovePodSandbox, PodCall
<1>4. ASSUME NEW s \in Pods, CreateContainer(r, s) PROVE Goal
  BY <1>4, <1>begin DEF CreateContainer
<1>5. ASSUME NEW c \in Containers, StartContainer(r, c) PROVE Goal
  BY <1>5, <1>begin DEF StartContainer, ContainerCall
<1>6. ASSUME NEW c \in Containers, StopContainer(r, c) PROVE Goal
  BY <1>6, <1>begin DEF StopContainer, ContainerCall
<1>7. ASSUME NEW c \in Containers, ContainerStatus(r, c) PROVE Goal
  BY <1>7, <1>begin DEF ContainerStatus, ContainerCall
<1>8. ASSUME NEW c \in Containers, RemoveContainer(r, c) PROVE Goal
  BY <1>8, <1>begin DEF RemoveContainer
<1>9. ASSUME ListContainers(r) PROVE Goal
  BY <1>9, <1>begin DEF ListContainers
<1>10. ASSUME Wipe(r) PROVE Goal
  BY <1>10, <1>begin DEF Wipe
<1>11. ASSUME ReconcileRead(r) PROVE Goal
  BY <1>11, <1>goto, <1>one DEF ReconcileRead
<1>12. ASSUME ReconcileAlive(r) PROVE Goal
  BY <1>12, <1>goto DEF ReconcileAlive
<1>13. ASSUME ReconcilePoll(r) PROVE Goal
  BY <1>13, <1>one DEF ReconcilePoll
<1>14. ASSUME ReconcileSave(r) PROVE Goal
  BY <1>14, <1>goto DEF ReconcileSave
<1>15. ASSUME ForceKill(r) PROVE Goal
  BY <1>15, <1>goto DEF ForceKill
<1>16. ASSUME ForceGiveUp(r) PROVE Goal
  BY <1>16, <1>return DEF ForceGiveUp
<1>17. ASSUME ForceDone(r) PROVE Goal
  BY <1>17, <1>goto, <1>return DEF ForceDone
<1>18. ASSUME RunSave(r) PROVE Goal
  BY <1>18, <1>return DEF RunSave
<1>19. ASSUME NEW c \in Containers, PodNext(r, c) PROVE Goal
  BY <1>19, <1>take DEF PodNext
<1>20. ASSUME StopPodForced(r) PROVE Goal
  BY <1>20, <1>goto DEF StopPodForced
<1>21. ASSUME StopPodSave(r) PROVE Goal
  BY <1>21, <1>return DEF StopPodSave
<1>22. ASSUME RemovePodLast(r) PROVE Goal
  BY <1>22, <1>return DEF RemovePodLast
<1>23. ASSUME Unbundle(r) PROVE Goal
  BY <1>23, <1>goto DEF Unbundle
<1>24. ASSUME Unrecord(r) PROVE Goal
  BY <1>24, <1>goto, <1>return DEF Unrecord
<1>25. ASSUME NEW n \in Names, NEW c \in Containers, CreateLock(r, n, c) PROVE Goal
  BY <1>25, <1>return, <1>one DEF CreateLock
<1>26. ASSUME CreatePrepare(r) PROVE Goal
  BY <1>26, <1>goto, <1>return DEF CreatePrepare
<1>27. ASSUME CreateSave(r) PROVE Goal
  BY <1>27, <1>return DEF CreateSave
<1>28. ASSUME StatusAnswer(r) PROVE Goal
  BY <1>28, <1>return DEF StatusAnswer
<1>29. ASSUME RemoveAgain(r) PROVE Goal
  BY <1>29, <1>goto, <1>return DEF RemoveAgain
<1>30. ASSUME StartSettled(r) PROVE Goal
  BY <1>30, <1>goto, <1>return DEF StartSettled
<1>31. ASSUME NEW p \in Pids, StartSpawn(r, p) PROVE Goal
  BY <1>31, <1>goto DEF StartSpawn
<1>32. ASSUME StartPid(r) PROVE Goal
  BY <1>32, <1>one DEF StartPid
<1>33. ASSUME StartError(r) PROVE Goal
  BY <1>33, <1>return DEF StartError
<1>34. ASSUME StartTimeout(r) PROVE Goal
  BY <1>34, <1>return DEF StartTimeout
<1>35. ASSUME StartRecord(r) PROVE Goal
  BY <1>35, <1>return DEF StartRecord
<1>36. ASSUME StopSettled(r) PROVE Goal
  BY <1>36, <1>goto, <1>return DEF StopSettled
<1>37. ASSUME StopGrace(r) PROVE Goal
  BY <1>37, <1>one DEF StopGrace
<1>38. ASSUME StopSave(r) PROVE Goal
  BY <1>38, <1>return DEF StopSave
<1>39. ASSUME ListNext(r) PROVE Goal
  BY <1>39, <1>return, <1>take DEF ListNext
<1>40. ASSUME ListSettled(r) PROVE Goal
  BY <1>40, <1>goto DEF ListSettled
<1>41. ASSUME NEW c \in Containers, WipeContainer(r, c) PROVE Goal
  BY <1>41, <1>take DEF WipeContainer
<1>42. ASSUME WipeRecord(r) PROVE Goal
  BY <1>42, <1>goto DEF WipeRecord
<1>43. ASSUME WipePods(r) PROVE Goal
  BY <1>43, <1>return DEF WipePods
<1>44. ASSUME Cancel(r) PROVE Goal
  BY <1>44, <1>return, <1>one DEF Cancel
<1>45. Goal
  BY <1>1, <1>2, <1>3, <1>4, <1>5, <1>6, <1>7, <1>8, <1>9, <1>10, <1>11, <1>12, <1>13,
     <1>14, <1>15, <1>16, <1>17, <1>18, <1>19, <1>20, <1>21, <1>22, <1>23, <1>24, <1>25,
     <1>26, <1>27, <1>28, <1>29, <1>30, <1>31, <1>32, <1>33, <1>34, <1>35, <1>36, <1>37,
     <1>38, <1>39, <1>40, <1>41, <1>42, <1>43, <1>44
     DEF CallBegin, CallStep, Reconcile
<1>. QED
  BY <1>45 DEF Goal

(* What can move a start, a create, a pod call and a wipe.                 *)
LEMMA Moves == ASSUME TypeOK, CallInv, NEW r \in Calls, CallBegin(r) \/ CallStep(r) \/ Cancel(r) PROVE
  /\ op'[r] = "start" =>
       \/ \E c \in Containers : StartContainer(r, c)
       \/ op[r] = "start" /\ (Reconcile(r) \/ StartSettled(r) \/ StartPid(r) \/ \E p \in Pids : StartSpawn(r, p))
  /\ op[r] = "start" /\ pc[r] \in {"wait", "record"} =>
       StartPid(r) \/ StartError(r) \/ StartTimeout(r) \/ StartRecord(r) \/ Cancel(r)
  /\ op'[r] = "create" =>
       \/ \E s \in Pods : CreateContainer(r, s)
       \/ \E n \in Names, c \in Containers : CreateLock(r, n, c)
       \/ CreatePrepare(r)
  /\ op'[r] = "stoppod" =>
       \/ \E s \in Pods : StopPodSandbox(r, s)
       \/ op[r] = "stoppod" /\ (\/ Reconcile(r) \/ ForceKill(r) \/ ForceDone(r) \/ StopPodForced(r)
                               \/ \E c \in Containers : PodNext(r, c))
  /\ op'[r] = "rmpod" =>
       \/ \E s \in Pods : RemovePodSandbox(r, s)
       \/ op[r] = "rmpod" /\ (\/ Reconcile(r) \/ ForceKill(r) \/ ForceDone(r) \/ Unbundle(r) \/ Unrecord(r)
                             \/ \E c \in Containers : PodNext(r, c))
  /\ op'[r] = "wipe" =>
       Wipe(r) \/ (op[r] = "wipe" /\ (WipeRecord(r) \/ \E c \in Containers : WipeContainer(r, c)))
<1>. DEFINE Goal ==
       /\ op'[r] = "start" =>
            \/ \E c \in Containers : StartContainer(r, c)
            \/ op[r] = "start" /\ (Reconcile(r) \/ StartSettled(r) \/ StartPid(r) \/ \E p \in Pids : StartSpawn(r, p))
       /\ op[r] = "start" /\ pc[r] \in {"wait", "record"} =>
            StartPid(r) \/ StartError(r) \/ StartTimeout(r) \/ StartRecord(r) \/ Cancel(r)
       /\ op'[r] = "create" =>
            \/ \E s \in Pods : CreateContainer(r, s)
            \/ \E n \in Names, c \in Containers : CreateLock(r, n, c)
            \/ CreatePrepare(r)
       /\ op'[r] = "stoppod" =>
            \/ \E s \in Pods : StopPodSandbox(r, s)
            \/ op[r] = "stoppod" /\ (\/ Reconcile(r) \/ ForceKill(r) \/ ForceDone(r) \/ StopPodForced(r)
                                    \/ \E c \in Containers : PodNext(r, c))
       /\ op'[r] = "rmpod" =>
            \/ \E s \in Pods : RemovePodSandbox(r, s)
            \/ op[r] = "rmpod" /\ (\/ Reconcile(r) \/ ForceKill(r) \/ ForceDone(r) \/ Unbundle(r) \/ Unrecord(r)
                                  \/ \E c \in Containers : PodNext(r, c))
       /\ op'[r] = "wipe" =>
            Wipe(r) \/ (op[r] = "wipe" /\ (WipeRecord(r) \/ \E c \in Containers : WipeContainer(r, c)))
<1>t. op \in [Calls -> Ops \cup {None}]
  BY DEF TypeOK
<1>none. None \notin {"start", "create", "stoppod", "rmpod", "wipe"}
  BY ConstantsAssumption DEF Ops
<1>return. ASSUME Return(r), ~(op[r] = "start" /\ pc[r] \in {"wait", "record"}) PROVE Goal
  BY <1>t, <1>none, <1>return DEF Return
<1>begin. ASSUME NEW k \in Ops, op'[r] = k, op[r] = None,
                k \notin {"start", "create", "stoppod", "rmpod", "wipe"}
         PROVE  Goal
  BY <1>none, <1>begin
<1>rec. ASSUME Reconcile(r), UNCHANGED op, op[r] \notin {"create", "wipe"},
               ~(op[r] = "start" /\ pc[r] \in {"wait", "record"}) PROVE Goal
  BY <1>rec
<1>inv. /\ op[r] = "create" => pc[r] \in {"lock", "prepare", "save"}
        /\ op[r] = "wipe" => pc[r] \in {"next", "unrecord"}
  BY DEF CallInv
<1>1. ASSUME NEW s \in Pods, NEW n \in PodNames, RunPodSandbox(r, s, n) PROVE Goal
  BY <1>1, <1>t, <1>none DEF RunPodSandbox, Begin
<1>2. ASSUME NEW s \in Pods, StopPodSandbox(r, s) PROVE Goal
  BY <1>2, <1>t, <1>none DEF StopPodSandbox, PodCall, Begin
<1>3. ASSUME NEW s \in Pods, RemovePodSandbox(r, s) PROVE Goal
  BY <1>3, <1>t, <1>none DEF RemovePodSandbox, PodCall, Begin
<1>4. ASSUME NEW s \in Pods, CreateContainer(r, s) PROVE Goal
  BY <1>4, <1>t, <1>none DEF CreateContainer, Begin
<1>5. ASSUME NEW c \in Containers, StartContainer(r, c) PROVE Goal
  BY <1>5, <1>t, <1>none DEF StartContainer, ContainerCall, Begin
<1>6. ASSUME NEW c \in Containers, StopContainer(r, c) PROVE Goal
  BY <1>6, <1>t, <1>none DEF StopContainer, ContainerCall, Begin
<1>7. ASSUME NEW c \in Containers, ContainerStatus(r, c) PROVE Goal
  BY <1>7, <1>t, <1>none DEF ContainerStatus, ContainerCall, Begin
<1>8. ASSUME NEW c \in Containers, RemoveContainer(r, c) PROVE Goal
  BY <1>8, <1>t, <1>none DEF RemoveContainer, Begin
<1>9. ASSUME ListContainers(r) PROVE Goal
  BY <1>9, <1>t, <1>none DEF ListContainers, Begin
<1>10. ASSUME Wipe(r) PROVE Goal
  BY <1>10, <1>t, <1>none DEF Wipe, Begin
<1>11. ASSUME ReconcileRead(r) PROVE Goal
  BY <1>11, <1>rec, <1>inv DEF ReconcileRead, Reconcile, Goto
<1>12. ASSUME ReconcileAlive(r) PROVE Goal
  BY <1>12, <1>rec, <1>inv DEF ReconcileAlive, Reconcile, Goto
<1>13. ASSUME ReconcilePoll(r) PROVE Goal
  BY <1>13, <1>rec, <1>inv DEF ReconcilePoll, Reconcile, Goto
<1>14. ASSUME ReconcileSave(r) PROVE Goal
  BY <1>14, <1>rec, <1>inv DEF ReconcileSave, Reconcile, Goto
<1>15. ASSUME ForceKill(r) PROVE Goal
  BY <1>15, <1>t, <1>none DEF ForceKill, At, Forcing, Goto
<1>16. ASSUME ForceGiveUp(r) PROVE Goal
  BY <1>16, <1>t, <1>none DEF ForceGiveUp, At, Forcing, Return
<1>17. ASSUME ForceDone(r) PROVE Goal
  BY <1>17, <1>t, <1>none DEF ForceDone, At, Forcing, Return, Goto
<1>18. ASSUME RunSave(r) PROVE Goal
  BY <1>18, <1>t, <1>none DEF RunSave, At, Return
<1>19. ASSUME NEW c \in Containers, PodNext(r, c) PROVE Goal
  BY <1>19, <1>t, <1>none DEF PodNext, At, Take
<1>20. ASSUME StopPodForced(r) PROVE Goal
  BY <1>20, <1>t, <1>none DEF StopPodForced, At, Goto
<1>21. ASSUME StopPodSave(r) PROVE Goal
  BY <1>21, <1>t, <1>none DEF StopPodSave, At, Return
<1>22. ASSUME RemovePodLast(r) PROVE Goal
  BY <1>22, <1>t, <1>none DEF RemovePodLast, At, Return
<1>23. ASSUME Unbundle(r) PROVE Goal
  BY <1>23, <1>t, <1>none DEF Unbundle, At, Goto
<1>24. ASSUME Unrecord(r) PROVE Goal
  BY <1>24, <1>t, <1>none DEF Unrecord, At, Goto, Return
<1>25. ASSUME NEW n \in Names, NEW c \in Containers, CreateLock(r, n, c) PROVE Goal
  BY <1>25, <1>t, <1>none DEF CreateLock, At, Return
<1>26. ASSUME CreatePrepare(r) PROVE Goal
  BY <1>26, <1>t, <1>none DEF CreatePrepare, At, Goto, Return
<1>27. ASSUME CreateSave(r) PROVE Goal
  BY <1>27, <1>t, <1>none DEF CreateSave, At, Return
<1>28. ASSUME StatusAnswer(r) PROVE Goal
  BY <1>28, <1>t, <1>none DEF StatusAnswer, At, Return
<1>29. ASSUME RemoveAgain(r) PROVE Goal
  BY <1>29, <1>t, <1>none DEF RemoveAgain, At, Return, Goto
<1>30. ASSUME StartSettled(r) PROVE Goal
  BY <1>30, <1>t, <1>none DEF StartSettled, At, Goto, Return
<1>31. ASSUME NEW p \in Pids, StartSpawn(r, p) PROVE Goal
  BY <1>31, <1>t, <1>none DEF StartSpawn, At, Goto
<1>32. ASSUME StartPid(r) PROVE Goal
  BY <1>32, <1>t, <1>none DEF StartPid, At
<1>33. ASSUME StartError(r) PROVE Goal
  BY <1>33, <1>t, <1>none DEF StartError, At, Return
<1>34. ASSUME StartTimeout(r) PROVE Goal
  BY <1>34, <1>t, <1>none DEF StartTimeout, At, Return
<1>35. ASSUME StartRecord(r) PROVE Goal
  BY <1>35, <1>t, <1>none DEF StartRecord, At, Return
<1>36. ASSUME StopSettled(r) PROVE Goal
  BY <1>36, <1>t, <1>none DEF StopSettled, At, Goto, Return
<1>37. ASSUME StopGrace(r) PROVE Goal
  BY <1>37, <1>t, <1>none DEF StopGrace, At
<1>38. ASSUME StopSave(r) PROVE Goal
  BY <1>38, <1>t, <1>none DEF StopSave, At, Return
<1>39. ASSUME ListNext(r) PROVE Goal
  BY <1>39, <1>t, <1>none DEF ListNext, At, Return, Take
<1>40. ASSUME ListSettled(r) PROVE Goal
  BY <1>40, <1>t, <1>none DEF ListSettled, At, Goto
<1>41. ASSUME NEW c \in Containers, WipeContainer(r, c) PROVE Goal
  BY <1>41, <1>t, <1>none DEF WipeContainer, At, Take
<1>42. ASSUME WipeRecord(r) PROVE Goal
  BY <1>42, <1>t, <1>none DEF WipeRecord, At, Goto
<1>43. ASSUME WipePods(r) PROVE Goal
  BY <1>43, <1>t, <1>none DEF WipePods, At, Return
<1>44. ASSUME Cancel(r) PROVE Goal
  BY <1>44, <1>t, <1>none DEF Cancel, At, Return
<1>45. Goal
  BY <1>1, <1>2, <1>3, <1>4, <1>5, <1>6, <1>7, <1>8, <1>9, <1>10, <1>11, <1>12, <1>13,
     <1>14, <1>15, <1>16, <1>17, <1>18, <1>19, <1>20, <1>21, <1>22, <1>23, <1>24, <1>25,
     <1>26, <1>27, <1>28, <1>29, <1>30, <1>31, <1>32, <1>33, <1>34, <1>35, <1>36, <1>37,
     <1>38, <1>39, <1>40, <1>41, <1>42, <1>43, <1>44
     DEF CallBegin, CallStep, Reconcile
<1>. QED
  BY <1>45 DEF Goal

(* A call stands still, moves, or is ended with the server.                *)
LEMMA Frame == ASSUME TypeOK, [Next]_vars, NEW q \in Calls PROVE
  \/ Still(q)
  \/ CallBegin(q) \/ CallStep(q) \/ Cancel(q)
  \/ Restart /\ op'[q] = None /\ todo'[q] = Nothing
<1>1. ASSUME NEW r \in Calls, CallBegin(r) \/ CallStep(r) \/ Cancel(r), q # r PROVE Still(q)
  BY <1>1, Others
<1>2. CASE Restart
  BY <1>2 DEF Restart, Still
<1>3. ASSUME NEW p \in Pids, ProcessStep(p) PROVE Still(q)
  BY <1>3 DEF ProcessStep, LauncherFails, LauncherReportsPid, ProcessEnds, LauncherRecordsExit,
               LauncherKilled, call, Still
<1>4. CASE UNCHANGED vars
  BY <1>4 DEF vars, call, Still
<1>. QED
  BY <1>1, <1>2, <1>3, <1>4 DEF Next

(* No container gets a second launcher.                                    *)
LEMMA LaunchStep == KeepRules /\ TypeOK /\ CallInv /\ RuleInv /\ StartInv /\ LaunchInv /\ [Next]_vars => LaunchInv'
<1>. SUFFICES ASSUME KeepRules, TypeOK, CallInv, RuleInv, StartInv, LaunchInv, [Next]_vars PROVE LaunchInv'
  OBVIOUS
<1>o. /\ op \in [Calls -> Ops \cup {None}] /\ None \notin Ops /\ None \notin Containers
      /\ proc \in [Pids -> [c : Containers \cup {None}, st : ProcStates]]
      /\ keeper \in [Pids -> BOOLEAN]
  BY ConstantsAssumption DEF TypeOK
<1>same. ASSUME UNCHANGED <<procs, tried>>, \A q \in Calls : op'[q] = "wipe" => op[q] = "wipe"
         PROVE  LaunchInv'
  BY <1>same DEF LaunchInv, procs
<1>op. ASSUME NEW r \in Calls, NEW k \in Ops \cup {None}, k # "wipe", op' = [op EXCEPT ![r] = k] \/ UNCHANGED op
       PROVE  \A q \in Calls : op'[q] = "wipe" => op[q] = "wipe"
  BY <1>o, <1>op
<1>none. None # "wipe"
  BY <1>o DEF Ops
<1>one. ASSUME NEW p \in Pids, NEW x \in ProcStates, proc[p].st # "unused", x # "unused",
               proc' = [proc EXCEPT ![p].st = x], UNCHANGED tried, UNCHANGED op,
               keeper' = keeper \/ keeper' = [keeper EXCEPT ![p] = FALSE],
               x = "over" \/ proc[p].st # "over"
        PROVE  LaunchInv'
  BY <1>o, <1>one DEF LaunchInv
<1>tried. UNCHANGED tried \/ \E r \in Calls, c \in Containers : StartContainer(r, c)
  BY Writers DEF Unbundle, Unrecord, WipeRecord, WipeContainer
<1>1. ASSUME NEW r \in Calls, NEW c \in Containers, StartContainer(r, c) PROVE LaunchInv'
  <2>1. \A q \in Calls : op'[q] = "wipe" => op[q] = "wipe"
    BY <1>1, <1>op DEF StartContainer, ContainerCall, Begin, Ops
  <2>. QED
    BY <1>1, <2>1 DEF StartContainer, ContainerCall, procs, LaunchInv
<1>2. ASSUME NEW r \in Calls, Wipe(r) PROVE LaunchInv'
  BY <1>2, <1>o DEF Wipe, Begin, LaunchInv, KeepRules, procs, history, Ops
<1>3. ASSUME NEW r \in Calls, ForceKill(r) PROVE LaunchInv'
  <2>. DEFINE x == rec[r].pid
  <2>1. CASE x \in Pids /\ proc[x].st = "running"
    <3>1. proc' = [proc EXCEPT ![x].st = "killed"]
      BY <1>3, <1>o, <2>1 DEF ForceKill
    <3>2. UNCHANGED <<op, tried, keeper>>
      BY <1>3 DEF ForceKill, Goto, history
    <3>. QED
      BY <1>one, <2>1, <3>1, <3>2 DEF ProcStates
  <2>2. CASE ~(x \in Pids /\ proc[x].st = "running")
    <3>1. proc' = proc
      <4>1. CASE x \in Pids
        BY <1>3, <1>o, <2>2, <4>1 DEF ForceKill
      <4>2. CASE x \notin Pids
        BY <1>3, <1>o, <4>2 DEF ForceKill
      <4>. QED
        BY <4>1, <4>2
    <3>. QED
      BY <1>3, <1>same, <3>1 DEF ForceKill, Goto, history, procs
  <2>. QED
    BY <2>1, <2>2
<1>4. ASSUME NEW r \in Calls, NEW p \in Pids, StartSpawn(r, p) PROVE LaunchInv'
  <2>1. \A q \in Calls : op[q] # "wipe"
    BY <1>4, <1>o DEF StartSpawn, At, RuleInv, Ops
  <2>2. id[r] \in Containers /\ id[r] \in tried /\ \A q \in Pids : proc[q].c # id[r]
    BY <1>4, HoldFact DEF StartSpawn, At, StartInv
  <2>. QED
    BY <1>4, <1>o, <2>1, <2>2 DEF StartSpawn, At, Goto, LaunchInv, history
<1>5. ASSUME NEW p \in Pids, LauncherFails(p) PROVE LaunchInv'
  BY <1>5, <1>one DEF LauncherFails, call, history, ProcStates
<1>6. ASSUME NEW p \in Pids, LauncherReportsPid(p) PROVE LaunchInv'
  BY <1>6, <1>one DEF LauncherReportsPid, call, history, ProcStates
<1>7. ASSUME NEW p \in Pids, ProcessEnds(p) PROVE LaunchInv'
  <2>1. CASE keeper[p]
    BY <1>7, <1>one, <2>1 DEF ProcessEnds, pid_alive, call, history, ProcStates
  <2>2. CASE ~keeper[p]
    BY <1>7, <1>one, <2>2 DEF ProcessEnds, pid_alive, call, history, ProcStates
  <2>. QED
    BY <2>1, <2>2
<1>8. ASSUME NEW p \in Pids, LauncherRecordsExit(p) PROVE LaunchInv'
  BY <1>8, <1>one DEF LauncherRecordsExit, call, history, ProcStates
<1>9. ASSUME NEW p \in Pids, LauncherKilled(p) PROVE LaunchInv'
  <2>1. proc[p].st # "unused" /\ proc[p].st \in ProcStates
    BY <1>9, <1>o DEF LauncherKilled, LaunchInv
  <2>2. CASE pid_alive(p)
    <3>1. proc' = [proc EXCEPT ![p].st = proc[p].st]
      BY <1>9, <2>2 DEF LauncherKilled
    <3>. QED
      BY <1>9, <1>one, <2>1, <2>2, <3>1 DEF LauncherKilled, pid_alive, call, history
  <2>3. CASE ~pid_alive(p)
    BY <1>9, <1>one, <2>1, <2>3 DEF LauncherKilled, call, history, ProcStates
  <2>. QED
    BY <2>2, <2>3
<1>. QED
  BY <1>1, <1>2, <1>3, <1>4, <1>5, <1>6, <1>7, <1>8, <1>9, <1>same, <1>tried, Writers DEF ProcessStep

(* What a step may do to the processes: a launcher is spawned for the      *)
(* container of a start that is at that point, or a process goes on.       *)
Spawned(p) ==
    /\ proc[p].st = "unused" /\ proc'[p].st = "launching"
    /\ \E r \in Calls : /\ op[r] = "start" /\ pc[r] = "spawn" /\ id[r] = proc'[p].c
                        /\ op'[r] = "start" /\ pc'[r] = "wait" /\ id'[r] = id[r]

ProcMono ==
    /\ lost \subseteq lost'
    /\ \A p \in Pids :
         \/ proc'[p] = proc[p]
         \/ Spawned(p)
         \/ /\ proc[p].st \notin {"over", "unused"} /\ proc'[p].c = proc[p].c
            /\ proc'[p].st \notin {"unused", "launching"}
            /\ proc[p].st = "reaped" => proc'[p].st \in {"reaped", "over"}

(* Every step does that to them.                                           *)
LEMMA ProcStep == TypeOK /\ LaunchInv /\ [Next]_vars => ProcMono
<1>. SUFFICES ASSUME TypeOK, LaunchInv, [Next]_vars PROVE ProcMono
  OBVIOUS
<1>o. /\ proc \in [Pids -> [c : Containers \cup {None}, st : ProcStates]]
      /\ keeper \in [Pids -> BOOLEAN] /\ pc \in [Calls -> Places]
  BY DEF TypeOK
<1>same. ASSUME UNCHANGED proc, lost \subseteq lost' PROVE ProcMono
  BY <1>same DEF ProcMono
<1>one. ASSUME NEW p \in Pids, NEW x \in ProcStates, proc[p].st \notin {"unused", "over"},
               x \notin {"unused", "launching"}, proc[p].st = "reaped" => x \in {"reaped", "over"},
               proc' = [proc EXCEPT ![p].st = x], UNCHANGED lost
        PROVE  ProcMono
  BY <1>o, <1>one DEF ProcMono
<1>lost. lost \subseteq lost'
  BY Writers DEF StartTimeout, Cancel, Restart
<1>1. ASSUME NEW r \in Calls, ForceKill(r) PROVE ProcMono
  <2>. DEFINE x == rec[r].pid
  <2>1. CASE x \in Pids /\ proc[x].st = "running"
    <3>1. proc' = [proc EXCEPT ![x].st = "killed"]
      BY <1>1, <1>o, <2>1 DEF ForceKill
    <3>2. UNCHANGED lost
      BY <1>1 DEF ForceKill, history
    <3>. QED
      BY <1>one, <2>1, <3>1, <3>2 DEF ProcStates
  <2>2. CASE ~(x \in Pids /\ proc[x].st = "running")
    <3>1. proc' = proc
      <4>1. CASE x \in Pids
        BY <1>1, <1>o, <2>2, <4>1 DEF ForceKill
      <4>2. CASE x \notin Pids
        BY <1>1, <1>o, <4>2 DEF ForceKill
      <4>. QED
        BY <4>1, <4>2
    <3>. QED
      BY <1>1, <1>same, <3>1 DEF ForceKill, history
  <2>. QED
    BY <2>1, <2>2
<1>2. ASSUME NEW r \in Calls, NEW p \in Pids, StartSpawn(r, p) PROVE ProcMono
  <2>1. proc' = [proc EXCEPT ![p] = [c |-> id[r], st |-> "launching"]] /\ proc[p].st = "unused"
    BY <1>2 DEF StartSpawn
  <2>2. UNCHANGED <<lost, op, id>> /\ op[r] = "start" /\ pc[r] = "spawn" /\ pc'[r] = "wait"
    BY <1>2, <1>o DEF StartSpawn, At, Goto, history
  <2>3. proc'[p] = [c |-> id[r], st |-> "launching"] /\ \A q \in Pids : q # p => proc'[q] = proc[q]
    BY <1>o, <2>1
  <2>. QED
    BY <2>1, <2>2, <2>3 DEF ProcMono, Spawned
<1>3. ASSUME NEW p \in Pids, LauncherFails(p) PROVE ProcMono
  BY <1>3, <1>one DEF LauncherFails, history, ProcStates
<1>4. ASSUME NEW p \in Pids, LauncherReportsPid(p) PROVE ProcMono
  BY <1>4, <1>one DEF LauncherReportsPid, history, ProcStates
<1>5. ASSUME NEW p \in Pids, ProcessEnds(p) PROVE ProcMono
  <2>1. CASE keeper[p]
    BY <1>5, <1>one, <2>1 DEF ProcessEnds, pid_alive, history, ProcStates
  <2>2. CASE ~keeper[p]
    BY <1>5, <1>one, <2>2 DEF ProcessEnds, pid_alive, history, ProcStates
  <2>. QED
    BY <2>1, <2>2
<1>6. ASSUME NEW p \in Pids, LauncherRecordsExit(p) PROVE ProcMono
  BY <1>6, <1>one DEF LauncherRecordsExit, history, ProcStates
<1>7. ASSUME NEW p \in Pids, LauncherKilled(p) PROVE ProcMono
  <2>1. proc[p].st # "unused" /\ proc[p].st \in ProcStates
    BY <1>7, <1>o DEF LauncherKilled, LaunchInv
  <2>2. CASE proc[p].st \in {"over", "running", "killed"}
    <3>1. proc' = [proc EXCEPT ![p].st = proc[p].st]
      BY <1>7, <2>2, ConstantsAssumption DEF LauncherKilled, pid_alive
    <3>2. proc' = proc
      BY <1>o, <3>1
    <3>. QED
      BY <1>7, <1>same, <3>2 DEF LauncherKilled, history
  <2>3. CASE proc[p].st \notin {"over", "running", "killed"}
    BY <1>7, <1>one, <2>1, <2>3 DEF LauncherKilled, pid_alive, history, ProcStates
  <2>. QED
    BY <2>2, <2>3
<1>. QED
  BY <1>1, <1>2, <1>3, <1>4, <1>5, <1>6, <1>7, <1>same, <1>lost, Writers DEF ProcessStep, procs

(* A process that is over stays so; one that a container's record names    *)
(* stays its process; and an ended container stays so, unless it is at the *)
(* very point of a start that launches it.                                 *)
LEMMA EndedStep == ASSUME TypeOK, LaunchInv, ProcMono PROVE
  /\ \A p, c : Of(p, c) => Of(p, c)'
  /\ \A p \in Pids : proc[p].st = "over" => proc'[p] = proc[p]
  /\ \A c \in Containers : Ended(c) =>
       Ended(c)' \/ \E r \in Calls : op[r] = "start" /\ pc[r] = "spawn" /\ id[r] = c
<1>1. \A p, c : Of(p, c) => Of(p, c)'
  BY DEF ProcMono, Spawned, Of
<1>2. \A p \in Pids : proc[p].st = "over" => proc'[p] = proc[p]
  BY DEF ProcMono, Spawned
<1>3. ASSUME NEW c \in Containers, Ended(c), ~(\E r \in Calls : op[r] = "start" /\ pc[r] = "spawn" /\ id[r] = c)
      PROVE  Ended(c)'
  <2>1. CASE c \in lost
    BY <2>1 DEF ProcMono, Ended
  <2>2. CASE \A p \in Pids : proc[p].c = c => proc[p].st \in {"reaped", "over"}
    BY <1>3, <2>2 DEF ProcMono, Spawned, Ended
  <2>. QED
    BY <1>3, <2>1, <2>2 DEF Ended
<1>. QED
  BY <1>1, <1>2, <1>3

(* A call that changes things, is not a start, and has found its           *)
(* container's record not Running: the container has ended.                *)
LEMMA SettledEnded == ASSUME IInv, NEW r \in Calls, Holding(r), op[r] \in Changing \ {"start"},
    pc[r] \notin {"save", "record"}, rec[r].state # "Running"
  PROVE Ended(id[r])
<1>. DEFINE c == id[r]
<1>1. c \in Containers /\ rec[r] \in Records /\ Behind(c, rec[r]) /\ Knows(c, rec[r])
  BY HoldFact DEF IInv, CopyInv, Copied
<1>2. rec[r].state \in {"Created", "Exited"}
  BY <1>1 DEF Records
<1>3. CASE rec[r].state = "Exited"
  BY <1>1, <1>3 DEF Behind, IInv, FileInv
<1>4. CASE rec[r].state = "Created"
  <2>1. ctr[c].state = "Created"
    BY <1>1, <1>4 DEF Knows
  <2>2. \A q \in Calls : op[q] # "start"
    BY DEF IInv, RuleInv, Changing
  <2>3. ASSUME NEW p \in Pids, proc[p].c = c, c \notin lost PROVE proc[p].st \in {"reaped", "over"}
    <3>1. proc[p].st \in ProcStates /\ proc[p].st # "unused"
      BY <1>1, <2>3, ConstantsAssumption DEF IInv, TypeOK, LaunchInv
    <3>2. proc[p].st \notin {"launching", "running", "killed"}
      BY <2>1, <2>2, <2>3 DEF IInv, LiveInv
    <3>. QED
      BY <3>1, <3>2 DEF ProcStates
  <2>. QED
    BY <2>3 DEF Ended
<1>. QED
  BY <1>2, <1>3, <1>4

(* What a step may do to the record of container c: make it, remove it,    *)
(* or move it on.                                                          *)
Made(c) ==
    /\ ctr[c] = None /\ ctr'[c] # None /\ ctr'[c].state = "Created"
    /\ \E r \in Calls : op[r] = "create" /\ pc[r] = "save" /\ id[r] = c /\ op'[r] = None

Dropped(c) ==
    /\ ctr'[c] = None /\ Ended(c)'
    /\ \E r \in Calls : /\ op[r] \in {"rmpod", "remove", "wipe"} /\ id[r] = c
                         /\ pc[r] = "unrecord" /\ pc'[r] # "unrecord"

Moved(c) ==
    /\ ctr[c] # None /\ ctr'[c] # None /\ ctr'[c].pod = ctr[c].pod
    /\ ctr'[c].state = "Exited" => Ended(c)'
    /\ \/ /\ ctr[c].state = "Created"
          /\ ctr'[c].state = "Running" => Of(ctr[c].pid, c)'
          /\ \E r \in Calls : op[r] \in Changing /\ op'[r] = None
       \/ ctr[c].state # "Created" /\ ctr'[c].state = "Exited" /\ ctr'[c].pid = ctr[c].pid

RecMono == \A c \in Containers : ctr'[c] = ctr[c] \/ Made(c) \/ Dropped(c) \/ Moved(c)

(* Every step does one of these to each record.                            *)
LEMMA RecStep == IInv /\ [Next]_vars => RecMono
<1>. SUFFICES ASSUME IInv, [Next]_vars PROVE RecMono
  OBVIOUS
<1>o. /\ ctr \in [Containers -> Records \cup {None}] /\ None \notin Records
      /\ op \in [Calls -> Ops \cup {None}] /\ pc \in [Calls -> Places]
  BY ConstantsAssumption DEF IInv, TypeOK
<1>same. ASSUME UNCHANGED ctr PROVE RecMono
  BY <1>same DEF RecMono
<1>one. ASSUME NEW c \in Containers, NEW x, ctr' = [ctr EXCEPT ![c] = x], Made(c) \/ Dropped(c) \/ Moved(c)
        PROVE  RecMono
  <2>1. \A d \in Containers : d # c => ctr'[d] = ctr[d]
    BY <1>o, <1>one
  <2>. QED
    BY <1>one, <2>1 DEF RecMono
<1>ended. ASSUME NEW c \in Containers, UNCHANGED <<proc, lost>> PROVE Ended(c)' = Ended(c)
  BY <1>ended DEF Ended
<1>hold. \A r \in Calls : /\ Holding(r) => id[r] \in Containers /\ rec[r] \in Records
                          /\ op[r] # "create" /\ op[r] # "wipe" /\ op[r] # "run" /\ op[r] \in Ops /\ pc[r] # "next" => Holding(r)
  BY HoldFact, ConstantsAssumption DEF IInv, Holding
<1>w. \/ UNCHANGED ctr
      \/ \E r \in Calls : \/ ReconcileSave(r) \/ Unrecord(r) \/ CreateSave(r) \/ StartRecord(r)
                          \/ StopSettled(r) \/ StopSave(r) \/ WipeRecord(r)
  BY Writers DEF IInv
<1>1. ASSUME NEW r \in Calls, ReconcileSave(r) PROVE RecMono
  <2>1. Holding(r)
    BY <1>1, HoldFact DEF ReconcileSave, IInv
  <2>c. PICK c \in Containers : c = id[r]
    BY <1>hold, <2>1
  <2>2. ctr' = [ctr EXCEPT ![c] = rec[r]] /\ UNCHANGED <<proc, lost>> /\ pc[r] = "save"
    BY <1>1, <2>c DEF ReconcileSave, procs, history
  <2>3. rec[r] \in Records /\ ctr'[c] = rec[r]
    BY <1>o, <1>hold, <2>1, <2>c, <2>2
  <2>4. Moved(c)
    BY <1>o, <1>ended, <2>1, <2>c, <2>2, <2>3 DEF IInv, CopyInv, Copied, Moved
  <2>. QED
    BY <1>one, <2>2, <2>4
<1>2. ASSUME NEW r \in Calls, Unrecord(r) PROVE RecMono
  <2>1. Holding(r) /\ op[r] \in Changing \ {"start"} /\ op[r] \in {"rmpod", "remove"} /\ pc[r] = "unrecord"
    BY <1>2, HoldFact DEF Unrecord, At, Changing, IInv
  <2>c. PICK c \in Containers : c = id[r]
    BY <1>hold, <2>1
  <2>2. ctr' = [ctr EXCEPT ![c] = None] /\ UNCHANGED <<proc, lost>>
    BY <1>2, <2>c DEF Unrecord, procs
  <2>3. ctr'[c] = None
    BY <1>o, <1>hold, <2>1, <2>c, <2>2
  <2>4. Ended(c)'
    BY <1>ended, <2>1, <2>c, <2>2, <2>3, SettledEnded DEF IInv, CopyInv, Copied
  <2>5. pc'[r] # "unrecord"
    BY <1>2, <1>o DEF Unrecord, Goto, Return
  <2>. QED
    BY <1>one, <2>1, <2>c, <2>2, <2>3, <2>4, <2>5 DEF Dropped
<1>3. ASSUME NEW r \in Calls, CreateSave(r) PROVE RecMono
  <2>1. op[r] = "create" /\ pc[r] = "save" /\ op'[r] = None
    BY <1>3, <1>o DEF CreateSave, At, Return
  <2>c. PICK c \in Containers : c = id[r]
    BY <2>1 DEF IInv, TypeOK, CallInv
  <2>2. ctr[c] = None /\ rec[r].state = "Created" /\ rec[r] # None
    BY <2>1, <2>c DEF IInv, CreateInv, CallInv
  <2>3. CASE UNCHANGED ctr
    BY <1>same, <2>3
  <2>4. CASE ctr' = [ctr EXCEPT ![c] = rec[r]]
    <3>1. ctr'[c] = rec[r]
      BY <1>o, <2>4
    <3>2. Made(c)
      BY <2>1, <2>c, <2>2, <3>1 DEF Made
    <3>. QED
      BY <1>one, <2>4, <3>2
  <2>. QED
    BY <1>3, <2>c, <2>3, <2>4 DEF CreateSave
<1>4. ASSUME NEW r \in Calls, StartRecord(r) PROVE RecMono
  <2>1. op[r] = "start" /\ pc[r] = "record" /\ Holding(r) /\ op'[r] = None
    BY <1>4, <1>o, HoldFact DEF StartRecord, At, Return, IInv
  <2>c. PICK c \in Containers : c = id[r]
    BY <1>hold, <2>1
  <2>2. ctr' = [ctr EXCEPT ![c] = rec[r]] /\ UNCHANGED <<proc, lost>>
    BY <1>4, <2>c DEF StartRecord, procs, history
  <2>3. rec[r] \in Records /\ ctr'[c] = rec[r]
    BY <1>o, <1>hold, <2>1, <2>c, <2>2
  <2>4. ctr[c] # None /\ rec[r].pod = ctr[c].pod /\ ctr[c].state = "Created"
        /\ rec[r].state = "Running" /\ Of(rec[r].pid, c)
    BY <2>1, <2>c DEF IInv, StartInv
  <2>5. Of(ctr[c].pid, c)'
    BY <2>2, <2>3, <2>4 DEF Of
  <2>6. Moved(c)
    BY <1>o, <2>1, <2>c, <2>2, <2>3, <2>4, <2>5 DEF Moved, Changing
  <2>. QED
    BY <1>one, <2>2, <2>6
<1>5. ASSUME NEW r \in Calls, StopSettled(r) PROVE RecMono
  <2>1. op[r] = "stop" /\ pc[r] = "settled" /\ Holding(r) /\ op[r] \in Changing \ {"start"}
    BY <1>5, HoldFact DEF StopSettled, At, Changing, IInv
  <2>c. PICK c \in Containers : c = id[r]
    BY <1>hold, <2>1
  <2>2. UNCHANGED <<proc, lost>> /\ rec[r] \in Records
    BY <1>5, <2>c, <1>hold, <2>1, <2>c DEF StopSettled, procs, history
  <2>3. CASE rec[r].state # "Created"
    <3>1. rec[r].state \in {"Running", "Exited"}
      BY <2>2, <2>3 DEF Records
    <3>. QED
      BY <1>5, <2>c, <1>same, <3>1 DEF StopSettled
  <2>4. CASE rec[r].state = "Created"
    <3>. DEFINE x == [rec[r] EXCEPT !.state = "Exited"]
    <3>1. ctr' = [ctr EXCEPT ![c] = x] /\ op'[r] = None
      BY <1>5, <2>c, <1>o, <2>4 DEF StopSettled, Return
    <3>2. x \in Records /\ x.state = "Exited" /\ x.pod = rec[r].pod
      BY <2>2 DEF Records
    <3>3. ctr'[c] = x
      BY <1>o, <2>2, <3>1
    <3>4. Ended(c)'
      BY <1>ended, <2>1, <2>c, <2>2, <2>4, SettledEnded
    <3>5. ctr[c] # None /\ rec[r].pod = ctr[c].pod /\ ctr[c].state = "Created"
      BY <2>1, <2>c, <2>4 DEF IInv, CopyInv, Copied, Behind, Knows
    <3>. HIDE DEF x
    <3>6. Moved(c)
      BY <1>o, <2>1, <2>c, <3>1, <3>2, <3>3, <3>4, <3>5 DEF Moved
    <3>. QED
      BY <1>one, <3>1, <3>6
  <2>. QED
    BY <2>3, <2>4
<1>6. ASSUME NEW r \in Calls, StopSave(r) PROVE RecMono
  <2>1. op[r] = "stopping" /\ pc[r] = "forced" /\ Holding(r) /\ op[r] \in Changing \ {"start"} /\ op'[r] = None
    BY <1>6, <1>o, HoldFact DEF StopSave, At, Changing, Return, IInv
  <2>c. PICK c \in Containers : c = id[r]
    BY <1>hold, <2>1
  <2>2. ctr' = [ctr EXCEPT ![c] = rec[r]] /\ UNCHANGED <<proc, lost>>
    BY <1>6, <2>c DEF StopSave, procs, history
  <2>3. rec[r] \in Records /\ ctr'[c] = rec[r]
    BY <1>o, <1>hold, <2>1, <2>c, <2>2
  <2>4. Behind(c, rec[r]) /\ Knows(c, rec[r]) /\ rec[r].state # "Running"
    BY <2>1, <2>c DEF IInv, CopyInv, Copied
  <2>5. Ended(c)'
    BY <1>ended, <2>1, <2>c, <2>2, <2>3, <2>4, SettledEnded
  <2>6. rec[r].state \in {"Created", "Exited"}
    BY <2>3, <2>4 DEF Records
  <2>7. Moved(c)
    BY <1>o, <2>1, <2>c, <2>3, <2>4, <2>5, <2>6 DEF Moved, Behind, Knows
  <2>. QED
    BY <1>one, <2>2, <2>7
<1>7. ASSUME NEW r \in Calls, WipeRecord(r) PROVE RecMono
  <2>1. op[r] = "wipe" /\ pc[r] = "unrecord"
    BY <1>7 DEF WipeRecord, At
  <2>c. PICK c \in Containers : c = id[r]
    BY <1>hold, <2>1 DEF IInv, TypeOK, CallInv
  <2>2. ctr' = [ctr EXCEPT ![c] = None] /\ UNCHANGED <<proc, lost>>
    BY <1>7, <2>c DEF WipeRecord, procs
  <2>3. ctr'[c] = None
    BY <1>o, <2>1, <2>c, <2>2 DEF IInv, TypeOK, CallInv
  <2>4. Ended(c)'
    BY <1>ended, <2>1, <2>c, <2>2, <2>3, ConstantsAssumption DEF IInv, LaunchInv, Ended
  <2>5. pc'[r] # "unrecord"
    BY <1>7, <1>o DEF WipeRecord, Goto, Return
  <2>. QED
    BY <1>one, <2>1, <2>c, <2>2, <2>3, <2>4, <2>5 DEF Dropped
<1>. QED
  BY <1>1, <1>2, <1>3, <1>4, <1>5, <1>6, <1>7, <1>same, <1>w

(* Nothing happens to an id before it is given out.                        *)
LEMMA UsedStep == IInv /\ RecMono /\ [Next]_vars => UsedInv'
<1>. SUFFICES ASSUME IInv, RecMono, [Next]_vars PROVE UsedInv'
  OBVIOUS
<1>o. /\ op \in [Calls -> Ops \cup {None}] /\ todo \in [Calls -> Copies] /\ pc \in [Calls -> Places]
      /\ id \in [Calls -> Containers \cup {None}] /\ None # "wipe"
  BY ConstantsAssumption DEF IInv, TypeOK, Ops
<1>u. UsedInv
  BY DEF IInv
<1>w. TypeOK
  BY DEF IInv
<1>1. used \subseteq used'
  BY <1>w, Writers DEF CreateLock
<1>2. Recorded' \subseteq used'
  <2>. SUFFICES ASSUME NEW c \in Containers, ctr'[c] # None PROVE c \in used
    BY <1>1 DEF Recorded
  <2>1. CASE ctr'[c] = ctr[c] \/ Moved(c)
    BY <1>u, <2>1 DEF Moved, UsedInv, Recorded
  <2>2. CASE Made(c)
    BY <2>2 DEF Made, IInv, CreateInv
  <2>. QED
    BY <2>1, <2>2 DEF RecMono, Dropped
<1>3. tried' \cup doomed' \cup removed' \subseteq used
  <2>1. ASSUME NEW r \in Calls, NEW c \in Containers, StartContainer(r, c)
        PROVE  tried' \cup doomed' \cup removed' \subseteq used
    BY <1>u, <2>1 DEF StartContainer, ContainerCall, UsedInv, Recorded
  <2>2. ASSUME NEW r \in Calls, Unbundle(r) \/ Unrecord(r)
        PROVE  tried' \cup doomed' \cup removed' \subseteq used
    <3>1. Holding(r) /\ pc[r] \in {"forced", "unbundle", "unrecord"}
      BY <2>2, HoldFact DEF Unbundle, Unrecord, At, IInv
    <3>2. id[r] \in Containers /\ ctr[id[r]] # None
      BY <3>1, HoldFact DEF IInv, CopyInv, Copied, Behind
    <3>. QED
      BY <1>u, <2>2, <3>2 DEF Unbundle, Unrecord, UsedInv, Recorded
  <2>3. ASSUME NEW r \in Calls, NEW c \in Containers, WipeContainer(r, c)
        PROVE  tried' \cup doomed' \cup removed' \subseteq used
    BY <1>u, <2>3 DEF WipeContainer, Take, At, UsedInv
  <2>4. ASSUME NEW r \in Calls, WipeRecord(r) PROVE tried' \cup doomed' \cup removed' \subseteq used
    BY <1>u, <2>4 DEF WipeRecord, At, UsedInv
  <2>5. CASE UNCHANGED <<tried, doomed, removed>>
    BY <1>u, <2>5 DEF UsedInv
  <2>. QED
    BY <1>w, <2>1, <2>2, <2>3, <2>4, <2>5, Writers
<1>4. ASSUME NEW r \in Calls, op'[r] = "wipe"
      PROVE  DOMAIN todo'[r] \subseteq used /\ (pc'[r] = "unrecord" => id'[r] \in used)
  <2>1. CASE Still(r)
    BY <1>u, <1>4, <2>1 DEF Still, UsedInv
  <2>2. CASE Wipe(r)
    BY <1>o, <1>u, <1>w, <2>2, LoadFact DEF Wipe, Begin, UsedInv
  <2>3. ASSUME NEW c \in Containers, WipeContainer(r, c), op[r] = "wipe"
        PROVE  DOMAIN todo'[r] \subseteq used /\ (pc'[r] = "unrecord" => id'[r] \in used)
    <3>1. todo[r] \in Copies /\ c \in used /\ DOMAIN todo[r] \subseteq used
      BY <1>o, <1>u, <2>3 DEF WipeContainer, Take, UsedInv
    <3>2. DOMAIN Restrict(todo[r], DOMAIN todo[r] \ {c}) \subseteq used
      BY <3>1, CopiesFact
    <3>. QED
      BY <1>o, <2>3, <3>1, <3>2 DEF WipeContainer, Take
  <2>4. CASE WipeRecord(r) /\ op[r] = "wipe"
    BY <1>o, <1>u, <2>4 DEF WipeRecord, Goto, UsedInv
  <2>5. CASE CallBegin(r) \/ CallStep(r) \/ Cancel(r)
    BY <1>4, <1>w, <2>2, <2>3, <2>4, <2>5, Moves DEF IInv
  <2>. QED
    BY <1>4, <1>o, <1>w, <2>1, <2>5, Frame
<1>. QED
  BY <1>1, <1>2, <1>3, <1>4 DEF UsedInv

(* The files say nothing of the processes that is not so.                  *)
LEMMA FileStep == IInv /\ ProcMono /\ RecMono /\ [Next]_vars => FileInv'
<1>. SUFFICES ASSUME IInv, ProcMono, RecMono, [Next]_vars PROVE FileInv'
  OBVIOUS
<1>o. /\ TypeOK /\ LaunchInv /\ FileInv
      /\ bundle \in [Containers -> Bundles \cup {None}] /\ None \notin Bundles
      /\ proc \in [Pids -> [c : Containers \cup {None}, st : ProcStates]]
  BY ConstantsAssumption DEF IInv, TypeOK
<1>. DEFINE Says(c) == bundle[c] # None =>
              /\ bundle[c].pid # None => Of(bundle[c].pid, c)
              /\ bundle[c].exit # None \/ bundle[c].error =>
                   \E p \in Pids : proc[p].c = c /\ proc[p].st = "over"
<1>s. \A c \in Containers : Says(c)
  BY <1>o DEF FileInv
<1>of. \A p, c : Of(p, c) => Of(p, c)'
  BY <1>o, EndedStep
<1>over. \A p \in Pids : proc[p].st = "over" => proc'[p] = proc[p]
  BY <1>o, EndedStep
<1>same. ASSUME NEW c \in Containers, bundle'[c] = bundle[c] PROVE Says(c)'
  <2>1. CASE bundle[c] = None
    BY <1>same, <2>1
  <2>2. CASE bundle[c] # None
    <3>1. bundle[c].pid # None => Of(bundle[c].pid, c)'
      BY <1>same, <1>s, <1>of, <2>2 DEF Of
    <3>. QED
      BY <1>same, <1>s, <1>over, <2>2, <3>1
  <2>. QED
    BY <2>1, <2>2
<1>none. ASSUME NEW c \in Containers, bundle'[c] = None PROVE Says(c)'
  BY <1>none
<1>1. ASSUME NEW r \in Calls, Unbundle(r) \/ CreatePrepare(r) \/ CreateSave(r), NEW c \in Containers PROVE Says(c)'
  <2>1. bundle'[c] \in {bundle[c], None, [pid |-> None, exit |-> None, error |-> FALSE]}
    BY <1>o, <1>1 DEF Unbundle, CreatePrepare, CreateSave
  <2>2. CASE bundle'[c] = [pid |-> None, exit |-> None, error |-> FALSE]
    BY <2>2
  <2>. QED
    BY <1>same, <1>none, <2>1, <2>2
<1>2. ASSUME NEW r \in Calls, NEW d \in Containers, WipeContainer(r, d), NEW c \in Containers PROVE Says(c)'
  <2>1. bundle'[c] \in {bundle[c], None}
    BY <1>o, <1>2 DEF WipeContainer
  <2>. QED
    BY <1>same, <1>none, <2>1
<1>3. ASSUME NEW p \in Pids, LauncherFails(p), NEW c \in Containers PROVE Says(c)'
  <2>. DEFINE y == [bundle[proc[p].c] EXCEPT !.error = TRUE]
  <2>1. bundle' = [bundle EXCEPT ![proc[p].c] = IF @ = None THEN @ ELSE y]
    BY <1>3 DEF LauncherFails
  <2>2. CASE c = proc[p].c /\ bundle[c] \in Bundles /\ bundle'[c] = y
    <3>1. y.pid = bundle[c].pid /\ y.pid # None => Of(bundle[c].pid, c)'
      BY <1>o, <1>s, <1>of, <2>2 DEF Bundles
    <3>2. proc'[p].c = c /\ proc'[p].st = "over"
      BY <1>o, <1>3, <2>2 DEF LauncherFails
    <3>. QED
      BY <2>2, <3>1, <3>2
  <2>3. bundle'[c] = bundle[c] \/ (c = proc[p].c /\ bundle[c] \in Bundles /\ bundle'[c] = y)
    BY <1>o, <2>1
  <2>. HIDE DEF Says, y
  <2>. QED
    BY <1>same, <2>2, <2>3
<1>4. ASSUME NEW p \in Pids, LauncherReportsPid(p), NEW c \in Containers PROVE Says(c)'
  <2>. DEFINE y == [bundle[proc[p].c] EXCEPT !.pid = p]
  <2>1. bundle' = [bundle EXCEPT ![proc[p].c] = IF @ = None THEN @ ELSE y]
    BY <1>4 DEF LauncherReportsPid
  <2>2. CASE c = proc[p].c /\ bundle[c] \in Bundles /\ bundle'[c] = y
    <3>1. y.pid = p /\ y.exit = bundle[c].exit /\ y.error = bundle[c].error
      BY <2>2 DEF Bundles
    <3>2. Of(p, c)'
      BY <1>o, <1>4, <2>2 DEF LauncherReportsPid, Of
    <3>3. bundle[c] # None /\ bundle'[c].pid = p /\ bundle'[c].exit = bundle[c].exit
            /\ bundle'[c].error = bundle[c].error
      BY <1>o, <2>2, <3>1
    <3>4. Of(bundle[c].pid, c)'
      BY <3>2, <3>3 DEF Of
    <3>. QED
      BY <1>s, <1>over, <3>3, <3>4
  <2>3. bundle'[c] = bundle[c] \/ (c = proc[p].c /\ bundle[c] \in Bundles /\ bundle'[c] = y)
    BY <1>o, <2>1
  <2>. HIDE DEF Says, y
  <2>. QED
    BY <1>same, <2>2, <2>3
<1>5. ASSUME NEW p \in Pids, LauncherRecordsExit(p), NEW c \in Containers PROVE Says(c)'
  <2>. DEFINE y == [bundle[proc[p].c] EXCEPT !.exit = p]
  <2>1. bundle' = [bundle EXCEPT ![proc[p].c] = IF @ = None THEN @ ELSE y]
    BY <1>5 DEF LauncherRecordsExit
  <2>2. CASE c = proc[p].c /\ bundle[c] \in Bundles /\ bundle'[c] = y
    <3>1. y.pid = bundle[c].pid /\ y.pid # None => Of(bundle[c].pid, c)'
      BY <1>o, <1>s, <1>of, <2>2 DEF Bundles
    <3>2. proc'[p].c = c /\ proc'[p].st = "over"
      BY <1>o, <1>5, <2>2 DEF LauncherRecordsExit
    <3>. QED
      BY <2>2, <3>1, <3>2
  <2>3. bundle'[c] = bundle[c] \/ (c = proc[p].c /\ bundle[c] \in Bundles /\ bundle'[c] = y)
    BY <1>o, <2>1
  <2>. HIDE DEF Says, y
  <2>. QED
    BY <1>same, <2>2, <2>3
<1>6. \A c \in Containers : Says(c)'
  <2>. HIDE DEF Says
  <2>. QED
    BY <1>o, <1>same, <1>1, <1>2, <1>3, <1>4, <1>5, Writers
<1>7. ASSUME NEW c \in Containers, ctr'[c] # None, ctr'[c].state = "Running" PROVE Of(ctr[c].pid, c)'
  <2>1. CASE ctr'[c] = ctr[c]
    <3>1. Of(ctr[c].pid, c)
      BY <1>o, <1>7, <2>1 DEF FileInv
    <3>2. \A x : Of(x, c) => x \in Pids /\ Of(x, c)'
      BY <1>of DEF Of
    <3>. QED
      BY <2>1, <3>1, <3>2 DEF Of
  <2>. QED
    BY <1>7, <2>1 DEF RecMono, Made, Dropped, Moved
<1>8. ASSUME NEW c \in Containers, ctr'[c] # None, ctr'[c].state = "Exited" PROVE Ended(c)'
  <2>1. CASE ctr'[c] = ctr[c]
    <3>1. Ended(c)
      BY <1>o, <1>8, <2>1 DEF FileInv
    <3>2. ASSUME NEW r \in Calls, op[r] = "start", pc[r] = "spawn", id[r] = c PROVE FALSE
      BY <1>8, <2>1, <3>2, HoldFact DEF IInv, CopyInv, Copied, StartInv, Knows, Changing
    <3>. QED
      BY <1>o, <3>1, <3>2, EndedStep
  <2>. QED
    BY <1>8, <2>1 DEF RecMono, Made, Dropped, Moved
<1>. QED
  BY <1>6, <1>7, <1>8 DEF FileInv

(* A call that does not move still holds what it may.                      *)
LEMMA CopyFrame == ASSUME IInv, ProcMono, RecMono, NEW q \in Calls,
    pc'[q] = pc[q], id'[q] = id[q], rec'[q] = rec[q], todo'[q] = todo[q],
    op'[q] = op[q] \/ (op[q] \in {"stopping", "remove"} /\ op'[q] = "abandoned")
  PROVE Copied(q)'
<1>o. /\ op[q] \in Ops \cup {None} /\ None \notin Ops
      /\ Copied(q) /\ RuleInv /\ LockInv /\ LaunchInv /\ TypeOK /\ CallInv
      /\ DOMAIN todo[q] \subseteq Containers
  BY ConstantsAssumption, CopiesFact DEF IInv, TypeOK, CopyInv
<1>ch. op'[q] \in Changing => op[q] \in Changing
  BY DEF Changing
<1>hold. Holding(q)' => Holding(q)
  BY <1>o DEF Holding, Ops
<1>drop. ASSUME NEW c \in Containers, Dropped(c) PROVE op[q] \in {None, "run", "create", "wipe"}
  <2>1. PICK r \in Calls : /\ op[r] \in {"rmpod", "remove", "wipe"} /\ id[r] = c
                          /\ pc[r] = "unrecord" /\ pc'[r] # "unrecord"
    BY <1>drop DEF Dropped
  <2>2. q # r
    BY <2>1
  <2>3. op[q] \notin Changing /\ op[q] # "list"
    BY <1>o, <2>1, <2>2, ConstantsAssumption DEF RuleInv, Changing, Removing, Ops
  <2>4. op[q] # "status"
    BY <1>o, <2>1, <2>2 DEF LockInv, RuleInv, Ops
  <2>. QED
    BY <1>o, <2>3, <2>4 DEF Ops, Changing
<1>move. ASSUME NEW c \in Containers, Moved(c), ctr[c].state = "Created" PROVE op'[q] \notin Changing
  <2>1. PICK r \in Calls : op[r] \in Changing /\ op'[r] = None
    BY <1>move DEF Moved
  <2>. QED
    BY <1>o, <1>ch, <2>1 DEF RuleInv, Changing, Ops
<1>behind. ASSUME NEW c \in Containers, NEW x, Behind(c, x), ~Dropped(c) PROVE Behind(c, x)'
  <2>1. ctr'[c] = ctr[c] \/ Moved(c)
    BY <1>behind DEF RecMono, Made, Behind
  <2>. QED
    BY <1>behind, <2>1 DEF Behind, Moved
<1>knows. ASSUME NEW c \in Containers, NEW x, Behind(c, x), Knows(c, x), ~Dropped(c), op'[q] \in Changing
         PROVE  Knows(c, x)'
  <2>1. ctr'[c] = ctr[c] \/ Moved(c)
    BY <1>knows DEF RecMono, Made, Behind
  <2>. QED
    BY <1>knows, <1>move, <2>1 DEF Knows
<1>ended. ASSUME NEW c \in Containers, ctr[c] # None, ctr[c].state # "Created", Ended(c) PROVE Ended(c)'
  <2>1. ASSUME NEW r \in Calls, op[r] = "start", pc[r] = "spawn", id[r] = c PROVE FALSE
    BY <1>ended, <2>1, HoldFact DEF IInv, CopyInv, Copied, StartInv, Knows, Changing
  <2>. QED
    BY <1>o, <1>ended, <2>1, EndedStep
<1>1. ASSUME op'[q] # "wipe", NEW c \in DOMAIN todo[q]
      PROVE  Behind(c, todo[q][c])' /\ (op'[q] \in Changing => Knows(c, todo[q][c])')
  <2>1. op[q] \in {"stoppod", "rmpod", "list"} /\ c \in Containers
    BY <1>1, <1>o DEF CallInv
  <2>2. ~Dropped(c)
    BY <1>drop, <1>o, <2>1 DEF Ops
  <2>3. PICK x : x = todo[q][c]
    OBVIOUS
  <2>4. Behind(c, x) /\ (op[q] \in Changing => Knows(c, x))
    BY <1>1, <1>o, <2>1, <2>3 DEF Copied
  <2>5. Behind(c, x)' /\ (op'[q] \in Changing => Knows(c, x)')
    BY <1>behind, <1>knows, <1>ch, <2>1, <2>2, <2>4
  <2>6. todo'[q][c] = x
    BY <2>3
  <2>. QED
    BY <2>5, <2>6 DEF Behind, Knows
<1>2. ASSUME Holding(q) PROVE
      /\ pc[q] \notin {"save", "record"} => Behind(id[q], rec[q])' /\ (op'[q] \in Changing => Knows(id[q], rec[q])')
      /\ pc[q] = "poll" => Ended(id[q])'
      /\ pc[q] = "save" =>
              /\ ctr'[id[q]] # None /\ rec[q].pod = ctr'[id[q]].pod
              /\ ctr'[id[q]].state # "Created" /\ rec[q].pid = ctr'[id[q]].pid
              /\ rec[q].state = "Exited" /\ Ended(id[q])'
  <2>1. PICK c \in Containers, x \in Records : c = id[q] /\ x = rec[q]
    BY <1>2, <1>o, HoldFact
  <2>2. ~Dropped(c)
    BY <1>drop, <1>2 DEF Holding
  <2>c. c = id'[q] /\ x = rec'[q]
    BY <2>1
  <2>3. CASE pc[q] \notin {"save", "record"}
    <3>1. Behind(c, x) /\ (op[q] \in Changing => Knows(c, x))
      BY <1>2, <1>o, <2>1, <2>3 DEF Copied
    <3>2. Behind(c, x)' /\ (op'[q] \in Changing => Knows(c, x)')
      BY <1>behind, <1>knows, <1>ch, <2>2, <3>1
    <3>3. Behind(id[q], rec[q])' /\ (op'[q] \in Changing => Knows(id[q], rec[q])')
      BY <2>c, <3>2 DEF Behind, Knows
    <3>4. pc[q] = "poll" => Ended(c)'
      BY <1>2, <1>o, <1>ended, <2>1, <3>1 DEF Copied, Behind
    <3>5. pc[q] = "poll" => Ended(id[q])'
      BY <2>c, <3>4 DEF Ended
    <3>. QED
      BY <2>3, <3>3, <3>5
  <2>4. CASE pc[q] = "save"
    <3>1. /\ ctr[c] # None /\ x.pod = ctr[c].pod
          /\ ctr[c].state # "Created" /\ x.pid = ctr[c].pid
          /\ x.state = "Exited" /\ Ended(c)
      BY <1>2, <1>o, <2>1, <2>4 DEF Copied
    <3>2. Ended(c)'
      BY <1>ended, <3>1
    <3>3. Ended(id[q])'
      BY <2>c, <3>2 DEF Ended
    <3>4. ctr'[c] = ctr[c] \/ Moved(c)
      BY <2>2, <3>1 DEF RecMono, Made
    <3>. QED
      BY <2>1, <2>4, <3>1, <3>3, <3>4 DEF Moved
  <2>5. CASE pc[q] = "record"
    BY <2>5
  <2>. QED
    BY <2>3, <2>4, <2>5
<1>3. Holding(q) => id[q] \notin DOMAIN todo[q] /\ (pc[q] \in {"read", "alive", "poll", "grace"} => rec[q].state = "Running")
         /\ (pc[q] \in {"forced", "unbundle", "unrecord"} => rec[q].state # "Running")
  BY <1>o DEF Copied
<1>. QED
  BY <1>1, <1>2, <1>3, <1>hold DEF Copied

(* Nor does a call come to hold what it may not.                           *)
LEMMA CopyMove == ASSUME IInv, ProcMono, RecMono, NEW r \in Calls, CallBegin(r) \/ CallStep(r) \/ Cancel(r)
  PROVE Copied(r)'
<1>. DEFINE Goal == Copied(r)'
<1>t. /\ op \in [Calls -> Ops \cup {None}] /\ pc \in [Calls -> Places]
      /\ id \in [Calls -> Containers \cup {None}]
      /\ rec \in [Calls -> Records \cup {None}] /\ todo \in [Calls -> Copies]
      /\ ctr \in [Containers -> Records \cup {None}]
      /\ None \notin Ops /\ None \notin Containers /\ None \notin Records
      /\ TypeOK /\ CallInv /\ Copied(r)
  BY ConstantsAssumption DEF IInv, TypeOK, CopyInv
<1>n. DOMAIN Nothing = {}
  BY CopiesFact
<1>return. ASSUME Return(r) PROVE Goal
  BY <1>t, <1>n, <1>return DEF Return, Copied, Holding
<1>todo. ASSUME UNCHANGED ctr, todo'[r] = todo[r], op'[r] # "wipe" => op[r] # "wipe",
                op'[r] \in Changing => op[r] \in Changing, op'[r] # "wipe", NEW c \in DOMAIN todo'[r]
         PROVE  Behind(c, todo[r][c])' /\ (op'[r] \in Changing => Knows(c, todo[r][c])')
  BY <1>t, <1>todo DEF Copied, Behind, Knows
<1>go. ASSUME UNCHANGED <<ctr, id, rec, todo>>, Holding(r), pc[r] \notin {"save", "record"},
              op'[r] = op[r] \/ (op'[r] \in Changing /\ op[r] \in Changing),
              pc'[r] \notin {"save", "poll"},
              pc'[r] \in {"read", "alive", "grace"} => rec[r].state = "Running",
              pc'[r] \in {"forced", "unbundle", "unrecord"} => rec[r].state # "Running"
       PROVE  Goal
  <2>1. op'[r] # "wipe" /\ op[r] # "wipe"
    BY <1>go DEF Holding, Changing
  <2>2. \A c \in DOMAIN todo'[r] : Behind(c, todo[r][c])' /\ (op'[r] \in Changing => Knows(c, todo[r][c])')
    BY <1>todo, <1>go, <2>1
  <2>3. Behind(id[r], rec[r])' /\ (op'[r] \in Changing => Knows(id[r], rec[r])')
    BY <1>t, <1>go DEF Copied, Behind, Knows
  <2>. QED
    BY <1>t, <1>go, <2>2, <2>3 DEF Copied, Holding
<1>goto. ASSUME NEW l, Goto(r, l), UNCHANGED ctr, Holding(r), pc[r] \notin {"save", "record"},
                l \notin {"save", "poll"}, l \in {"read", "alive", "grace"} => rec[r].state = "Running",
                l \in {"forced", "unbundle", "unrecord"} => rec[r].state # "Running"
         PROVE  Goal
  <2>1. UNCHANGED <<ctr, id, rec, todo>> /\ op'[r] = op[r] /\ pc'[r] = l
    BY <1>t, <1>goto DEF Goto
  <2>. HIDE DEF Goal
  <2>. QED
    BY <1>go, <1>goto, <2>1
<1>begin. ASSUME NEW k, k \notin {"wipe"}, NEW l \in {"read", "settled", "next", "save", "lock"},
                 NEW s, NEW c \in Containers \cup {None}, NEW m \in Copies, UNCHANGED ctr,
                 Begin(r, k, l, s, c, m), \A d \in DOMAIN m : d \in Recorded /\ m[d] = ctr[d],
                 c # None => ctr[c] # None /\ l = Settle(ctr[c]) /\ DOMAIN m = {},
                 c = None => k \in {"run", "create"} \/ l = "next"
          PROVE  Goal
  <2>1. op'[r] = k /\ pc'[r] = l /\ id'[r] = c /\ todo'[r] = m /\ (c # None => rec'[r] = ctr[c])
    BY <1>t, <1>begin DEF Begin
  <2>2. \A d \in DOMAIN todo'[r] : Behind(d, todo[r][d])' /\ Knows(d, todo[r][d])'
    BY <1>begin, <2>1 DEF Behind, Knows, Recorded
  <2>3. c # None => Behind(id[r], rec[r])' /\ Knows(id[r], rec[r])'
    BY <1>begin, <2>1 DEF Behind, Knows
  <2>4. c # None => ctr[c] \in Records /\ (l = "read" => ctr[c].state = "Running") /\ l \in {"read", "settled"}
    BY <1>t, <1>begin DEF Settle
  <2>5. CASE c = None
    BY <1>begin, <2>1, <2>2, <2>5 DEF Copied, Holding
  <2>6. CASE c # None
    BY <1>begin, <2>1, <2>2, <2>3, <2>4, <2>6 DEF Copied
  <2>. QED
    BY <2>5, <2>6
<1>take. ASSUME NEW c, Take(r, c), UNCHANGED ctr, op[r] # "wipe", pc' = [pc EXCEPT ![r] = Settle(todo[r][c])]
         PROVE  Goal
  <2>. DEFINE m == Restrict(todo[r], DOMAIN todo[r] \ {c})
  <2>1. /\ op'[r] = op[r] /\ pc'[r] = Settle(todo[r][c]) /\ id'[r] = c /\ rec'[r] = todo[r][c]
        /\ todo'[r] = m /\ c \in DOMAIN todo[r]
    BY <1>t, <1>take DEF Take
  <2>2. DOMAIN m = DOMAIN todo[r] \ {c} /\ \A d \in DOMAIN m : m[d] = todo[r][d]
    BY <1>t, CopiesFact
  <2>. HIDE DEF m
  <2>3. \A d \in DOMAIN todo'[r] : Behind(d, todo[r][d])' /\ (op'[r] \in Changing => Knows(d, todo[r][d])')
    BY <1>t, <1>take, <2>1, <2>2 DEF Copied, Behind, Knows
  <2>4. Behind(id[r], rec[r])' /\ (op'[r] \in Changing => Knows(id[r], rec[r])')
    BY <1>t, <1>take, <2>1 DEF Copied, Behind, Knows
  <2>5. pc'[r] \in {"read", "settled"} /\ (pc'[r] = "read" => rec'[r].state = "Running")
    BY <2>1 DEF Settle
  <2>6. id'[r] \notin DOMAIN todo'[r]
    BY <2>1, <2>2
  <2>. QED
    BY <2>3, <2>4, <2>5, <2>6 DEF Copied
<1>wipe. ASSUME op'[r] = "wipe" PROVE Goal
  BY <1>wipe DEF Copied, Holding
<1>hold. /\ pc[r] \in {"read", "alive", "poll", "settled", "grace", "forced", "unbundle", "spawn", "wait", "record"}
              \/ (pc[r] = "save" /\ op[r] \notin {"run", "create"}) \/ (pc[r] = "unrecord" /\ op[r] # "wipe") => Holding(r)
         /\ Holding(r) => id[r] \in Containers /\ rec[r] \in Records /\ op[r] \in Ops
  BY <1>t, HoldFact
<1>load. /\ load_all \in Copies /\ \A c \in DOMAIN load_all : c \in Recorded /\ load_all[c] = ctr[c]
         /\ \A s : InPod(s) \in Copies /\ \A c \in DOMAIN InPod(s) : c \in Recorded /\ InPod(s)[c] = ctr[c]
         /\ Nothing \in Copies /\ \A c \in DOMAIN Nothing : c \in Recorded /\ Nothing[c] = ctr[c]
  BY <1>t, LoadFact, CopiesFact
<1>save. ASSUME NEW x, Holding(r), pc[r] \in {"read", "poll"}, rec' = [rec EXCEPT ![r] = Exited(rec[r], x)],
                UNCHANGED <<ctr, procs, history>>, op'[r] = op[r], pc'[r] = "save", id'[r] = id[r], todo'[r] = todo[r],
                Ended(id[r])
         PROVE  Goal
  <2>1. rec[r] \in Records /\ rec[r].state = "Running" /\ Behind(id[r], rec[r])
    BY <1>t, <1>hold, <1>save DEF Copied
  <2>2. rec'[r] = Exited(rec[r], x) /\ rec'[r].state = "Exited" /\ rec'[r].pod = rec[r].pod /\ rec'[r].pid = rec[r].pid
    BY <1>t, <1>save, <2>1 DEF Exited, Records
  <2>3. Ended(id[r])'
    BY <1>save DEF Ended, procs, history
  <2>4. op[r] # "wipe"
    BY <1>save DEF Holding
  <2>5. \A c \in DOMAIN todo'[r] : Behind(c, todo[r][c])' /\ (op'[r] \in Changing => Knows(c, todo[r][c])')
    BY <1>todo, <1>save, <2>4
  <2>. QED
    BY <1>t, <1>save, <2>1, <2>2, <2>3, <2>5 DEF Copied, Behind
<1>. HIDE DEF Goal
<1>pod. ASSUME NEW k \in {"stoppod", "rmpod"}, NEW s, PodCall(r, k, s) PROVE Goal
  <2>1. Begin(r, k, "next", s, None, InPod(s)) /\ UNCHANGED ctr
    BY <1>pod DEF PodCall, files
  <2>. QED
    BY <1>begin, <1>load, <1>pod, <2>1
<1>ctr. ASSUME NEW k \in {"start", "stop", "status", "remove"}, NEW c \in Containers, ctr[c] # None, UNCHANGED ctr,
               Begin(r, k, Settle(ctr[c]), None, c, Nothing)
        PROVE  Goal
  <2>1. PICK l \in {"read", "settled"} : l = Settle(ctr[c])
    BY DEF Settle
  <2>2. Begin(r, k, l, None, c, Nothing) /\ k # "wipe" /\ c # None
    BY <1>t, <1>ctr, <2>1
  <2>3. Nothing \in Copies /\ DOMAIN Nothing = {} /\ \A d \in DOMAIN Nothing : d \in Recorded /\ Nothing[d] = ctr[d]
    BY <1>n, <1>load
  <2>. QED
    BY <1>begin, <1>ctr, <2>1, <2>2, <2>3
<1>1. ASSUME NEW s \in Pods, NEW n \in PodNames, RunPodSandbox(r, s, n) PROVE Goal
  BY <1>1, <1>begin, <1>load, <1>t DEF RunPodSandbox, files
<1>2. ASSUME NEW s \in Pods, StopPodSandbox(r, s) PROVE Goal
  BY <1>2, <1>pod DEF StopPodSandbox
<1>3. ASSUME NEW s \in Pods, RemovePodSandbox(r, s) PROVE Goal
  BY <1>3, <1>pod DEF RemovePodSandbox
<1>4. ASSUME NEW s \in Pods, CreateContainer(r, s) PROVE Goal
  BY <1>4, <1>begin, <1>load, <1>t DEF CreateContainer, files
<1>5. ASSUME NEW c \in Containers, StartContainer(r, c) PROVE Goal
  BY <1>5, <1>ctr DEF StartContainer, ContainerCall, files
<1>6. ASSUME NEW c \in Containers, StopContainer(r, c) PROVE Goal
  BY <1>6, <1>ctr DEF StopContainer, ContainerCall, files
<1>7. ASSUME NEW c \in Containers, ContainerStatus(r, c) PROVE Goal
  BY <1>7, <1>ctr DEF ContainerStatus, ContainerCall, files
<1>8. ASSUME NEW c \in Containers, RemoveContainer(r, c) PROVE Goal
  BY <1>8, <1>ctr DEF RemoveContainer, files
<1>9. ASSUME ListContainers(r) PROVE Goal
  BY <1>9, <1>begin, <1>load, <1>t DEF ListContainers, files
<1>10. ASSUME Wipe(r) PROVE Goal
  BY <1>10, <1>t, <1>wipe DEF Wipe, Begin
<1>11. ASSUME ReconcileRead(r) PROVE Goal
  <2>1. CASE read_exit(id[r]) = None
    <3>1. pc[r] = "read" /\ Goto(r, "alive") /\ UNCHANGED ctr
      BY <1>11, <2>1 DEF ReconcileRead, files
    <3>2. Holding(r) /\ rec[r].state = "Running"
      BY <1>t, <1>hold, <3>1 DEF Copied
    <3>. QED
      BY <1>goto, <3>1, <3>2
  <2>2. CASE read_exit(id[r]) # None
    <3>. DEFINE x == read_exit(id[r])
    <3>1. /\ pc[r] = "read" /\ rec' = [rec EXCEPT ![r] = Exited(rec[r], x)] /\ UNCHANGED <<ctr, procs, history>>
          /\ op'[r] = op[r] /\ pc'[r] = "save" /\ id'[r] = id[r] /\ todo'[r] = todo[r]
      BY <1>11, <1>t, <2>2 DEF ReconcileRead, files
    <3>2. Holding(r) /\ id[r] \in Containers /\ rec[r] \in Records /\ bundle[id[r]] # None /\ bundle[id[r]].exit # None
      BY <1>hold, <2>2, <3>1 DEF read_exit
    <3>3. Ended(id[r])
      BY <1>t, <3>2 DEF IInv, FileInv, LaunchInv, Ended
    <3>. QED
      BY <1>save, <3>1, <3>2, <3>3
  <2>. QED
    BY <2>1, <2>2
<1>12. ASSUME ReconcileAlive(r) PROVE Goal
  <2>1. pc[r] = "alive" /\ Holding(r) /\ rec[r].state = "Running" /\ id[r] \in Containers
    BY <1>12, <1>t, <1>hold DEF ReconcileAlive, Copied
  <2>2. CASE pid_alive(rec[r].pid)
    BY <1>12, <1>goto, <2>1, <2>2 DEF ReconcileAlive, files
  <2>3. CASE ~pid_alive(rec[r].pid)
    <3>1. /\ op'[r] = op[r] /\ pc'[r] = "poll" /\ id'[r] = id[r] /\ todo'[r] = todo[r] /\ rec'[r] = rec[r]
          /\ UNCHANGED <<ctr, proc, lost>>
      BY <1>12, <1>t, <2>3 DEF ReconcileAlive, Goto, files, procs, history
    <3>2. Behind(id[r], rec[r]) /\ (op[r] \in Changing => Knows(id[r], rec[r]))
      BY <1>t, <2>1 DEF Copied
    <3>3. Ended(id[r])
      <4>1. CASE ctr[id[r]].state = "Exited"
        BY <2>1, <3>2, <4>1 DEF Behind, IInv, FileInv
      <4>2. CASE ctr[id[r]].state # "Exited"
        <5>1. Of(rec[r].pid, id[r])
          <6>1. ctr[id[r]] \in Records /\ ctr[id[r]].state = "Running" /\ rec[r].pid = ctr[id[r]].pid
            BY <1>t, <2>1, <3>2, <4>2 DEF Behind, Records
          <6>. QED
            BY <1>t, <2>1, <6>1 DEF IInv, FileInv
        <5>2. proc[rec[r].pid].st \in {"reaped", "over"} /\ rec[r].pid \in Pids
          BY <1>t, <2>3, <5>1, ConstantsAssumption DEF Of, pid_alive, TypeOK, ProcStates
        <5>. QED
          BY <1>t, <2>1, <5>1, <5>2 DEF Of, Ended, IInv, LaunchInv
      <4>. QED
        BY <4>1, <4>2
    <3>4. Ended(id[r])'
      BY <3>1, <3>3 DEF Ended
    <3>5. Behind(id[r], rec[r])' /\ (op'[r] \in Changing => Knows(id[r], rec[r])')
      BY <3>1, <3>2 DEF Behind, Knows
    <3>6. \A c \in DOMAIN todo'[r] : Behind(c, todo[r][c])' /\ (op'[r] \in Changing => Knows(c, todo[r][c])')
      BY <1>todo, <2>1, <3>1 DEF Holding
    <3>. QED
      BY <1>t, <2>1, <3>1, <3>4, <3>5, <3>6 DEF Goal, Copied
  <2>. QED
    BY <2>2, <2>3
<1>13. ASSUME ReconcilePoll(r) PROVE Goal
  <2>1. pc[r] = "poll" /\ Holding(r) /\ Ended(id[r])
    BY <1>13, <1>t, <1>hold DEF ReconcilePoll, Copied
  <2>2. /\ rec' = [rec EXCEPT ![r] = Exited(rec[r], read_exit(id[r]))] /\ UNCHANGED <<ctr, procs, history>>
        /\ op'[r] = op[r] /\ pc'[r] = "save" /\ id'[r] = id[r] /\ todo'[r] = todo[r]
    BY <1>13, <1>t DEF ReconcilePoll, files
  <2>. QED
    BY <1>save, <2>1, <2>2
<1>14. ASSUME ReconcileSave(r) PROVE Goal
  <2>1. pc[r] = "save" /\ Holding(r) /\ id[r] \in Containers
    BY <1>14, <1>hold DEF ReconcileSave
  <2>2. /\ op'[r] = op[r] /\ pc'[r] = "settled" /\ id'[r] = id[r] /\ todo'[r] = todo[r] /\ rec'[r] = rec[r]
        /\ ctr' = [ctr EXCEPT ![id[r]] = rec[r]]
    BY <1>14, <1>t DEF ReconcileSave, Goto
  <2>3. ctr'[id[r]] = rec[r] /\ \A c \in Containers : c # id[r] => ctr'[c] = ctr[c]
    BY <1>t, <2>1, <2>2
  <2>4. rec[r] # None
    BY <1>t, <1>hold, <2>1
  <2>5. Behind(id[r], rec[r])' /\ Knows(id[r], rec[r])'
    BY <2>2, <2>3, <2>4 DEF Behind, Knows
  <2>6. id[r] \notin DOMAIN todo[r] /\ DOMAIN todo[r] \subseteq Containers
    BY <1>t, <2>1, CopiesFact DEF Copied
  <2>7. \A c \in DOMAIN todo'[r] : Behind(c, todo[r][c])' /\ (op'[r] \in Changing => Knows(c, todo[r][c])')
    BY <1>t, <2>1, <2>2, <2>3, <2>6 DEF Copied, Behind, Knows, Holding
  <2>. QED
    BY <2>2, <2>5, <2>6, <2>7 DEF Goal, Copied
<1>15. ASSUME ForceKill(r) PROVE Goal
  <2>1. pc[r] = "settled" /\ Holding(r) /\ rec[r].state = "Running" /\ Goto(r, "read") /\ UNCHANGED ctr
    BY <1>15, <1>hold DEF ForceKill, At, files
  <2>. QED
    BY <1>goto, <2>1
<1>16. ASSUME ForceGiveUp(r) PROVE Goal
  BY <1>16, <1>return DEF ForceGiveUp
<1>17. ASSUME ForceDone(r) PROVE Goal
  <2>1. CASE op[r] # "abandoned"
    BY <1>17, <2>1, <1>goto, <1>hold DEF ForceDone, At, files
  <2>2. CASE ~(op[r] # "abandoned")
    BY <1>17, <2>2, <1>return DEF ForceDone
  <2>. QED
    BY <2>1, <2>2
<1>18. ASSUME RunSave(r) PROVE Goal
  BY <1>18, <1>return DEF RunSave
<1>19. ASSUME NEW c \in Containers, PodNext(r, c) PROVE Goal
  BY <1>19, <1>take DEF PodNext, At, files
<1>20. ASSUME StopPodForced(r) PROVE Goal
  BY <1>20, <1>goto, <1>hold DEF StopPodForced, At, files
<1>21. ASSUME StopPodSave(r) PROVE Goal
  BY <1>21, <1>return DEF StopPodSave
<1>22. ASSUME RemovePodLast(r) PROVE Goal
  BY <1>22, <1>return DEF RemovePodLast
<1>23. ASSUME Unbundle(r) PROVE Goal
  <2>1. Holding(r) /\ pc[r] \in {"forced", "unbundle"} /\ rec[r].state # "Running"
    BY <1>23, <1>t, <1>hold DEF Unbundle, At, Copied
  <2>. QED
    BY <1>23, <1>goto, <2>1 DEF Unbundle
<1>24. ASSUME Unrecord(r) PROVE Goal
  <2>1. CASE op[r] # "rmpod"
    BY <1>24, <1>return, <2>1 DEF Unrecord
  <2>2. CASE op[r] = "rmpod"
    <3>1. pc[r] = "unrecord" /\ Holding(r) /\ id[r] \in Containers
      BY <1>24, <1>hold, <2>2 DEF Unrecord, At
    <3>2. /\ op'[r] = op[r] /\ pc'[r] = "next" /\ todo'[r] = todo[r] /\ ctr' = [ctr EXCEPT ![id[r]] = None]
      BY <1>24, <1>t, <2>2 DEF Unrecord, Goto
    <3>3. \A c \in Containers : c # id[r] => ctr'[c] = ctr[c]
      BY <1>t, <3>1, <3>2
    <3>4. id[r] \notin DOMAIN todo[r] /\ DOMAIN todo[r] \subseteq Containers
      BY <1>t, <3>1, CopiesFact DEF Copied
    <3>5. \A c \in DOMAIN todo'[r] : Behind(c, todo[r][c])' /\ (op'[r] \in Changing => Knows(c, todo[r][c])')
      BY <1>t, <2>2, <3>2, <3>3, <3>4 DEF Copied, Behind, Knows
    <3>. QED
      BY <3>2, <3>5 DEF Goal, Copied, Holding
  <2>. QED
    BY <2>1, <2>2
<1>25. ASSUME NEW n \in Names, NEW c \in Containers, CreateLock(r, n, c) PROVE Goal
  <2>1. CASE \E d \in Recorded : ctr[d].name = n
    BY <1>25, <2>1, <1>return DEF CreateLock
  <2>2. CASE ~(\E d \in Recorded : ctr[d].name = n)
    BY <1>25, <2>2, <1>t DEF CreateLock, At, Goal, Copied, Holding, CallInv
  <2>. QED
    BY <2>1, <2>2
<1>26. ASSUME CreatePrepare(r) PROVE Goal
  <2>1. CASE Return(r)
    BY <2>1, <1>return
  <2>2. CASE ~Return(r)
    BY <1>26, <2>2, <1>t DEF CreatePrepare, At, Goto, Goal, Copied, Holding, CallInv
  <2>. QED
    BY <2>1, <2>2
<1>27. ASSUME CreateSave(r) PROVE Goal
  BY <1>27, <1>return DEF CreateSave
<1>28. ASSUME StatusAnswer(r) PROVE Goal
  BY <1>28, <1>return DEF StatusAnswer
<1>29. ASSUME RemoveAgain(r) PROVE Goal
  <2>1. CASE ctr[id[r]] = None
    BY <1>29, <2>1, <1>return DEF RemoveAgain
  <2>2. CASE ctr[id[r]] # None
    <3>1. pc[r] = "forced" /\ Holding(r) /\ rec[r].state # "Running"
      BY <1>29, <1>t, <1>hold DEF RemoveAgain, At, Copied
    <3>. QED
      BY <1>29, <1>goto, <2>2, <3>1 DEF RemoveAgain, files
  <2>. QED
    BY <2>1, <2>2
<1>30. ASSUME StartSettled(r) PROVE Goal
  <2>1. CASE rec[r].state = "Created"
    BY <1>30, <2>1, <1>goto, <1>hold DEF StartSettled, At, files
  <2>2. CASE ~(rec[r].state = "Created")
    BY <1>30, <2>2, <1>return DEF StartSettled
  <2>. QED
    BY <2>1, <2>2
<1>31. ASSUME NEW p \in Pids, StartSpawn(r, p) PROVE Goal
  BY <1>31, <1>goto, <1>hold DEF StartSpawn, At, files
<1>32. ASSUME StartPid(r) PROVE Goal
  <2>1. pc[r] = "wait" /\ Holding(r)
    BY <1>32, <1>hold DEF StartPid, At
  <2>2. UNCHANGED <<ctr, op, id, todo>> /\ pc'[r] = "record"
    BY <1>32, <1>t DEF StartPid, files
  <2>3. op'[r] # "wipe" /\ \A c \in DOMAIN todo'[r] : Behind(c, todo[r][c])' /\ (op'[r] \in Changing => Knows(c, todo[r][c])')
    BY <1>todo, <2>1, <2>2 DEF Holding
  <2>. QED
    BY <1>t, <2>1, <2>2, <2>3 DEF Goal, Copied
<1>33. ASSUME StartError(r) PROVE Goal
  BY <1>33, <1>return DEF StartError
<1>34. ASSUME StartTimeout(r) PROVE Goal
  BY <1>34, <1>return DEF StartTimeout
<1>35. ASSUME StartRecord(r) PROVE Goal
  BY <1>35, <1>return DEF StartRecord
<1>36. ASSUME StopSettled(r) PROVE Goal
  <2>1. CASE rec[r].state = "Running"
    BY <1>36, <2>1, <1>goto, <1>hold DEF StopSettled, At, files
  <2>2. CASE ~(rec[r].state = "Running")
    BY <1>36, <2>2, <1>return DEF StopSettled
  <2>. QED
    BY <2>1, <2>2
<1>37. ASSUME StopGrace(r) PROVE Goal
  <2>1. pc[r] = "grace" /\ Holding(r) /\ rec[r].state = "Running" /\ op[r] = "stop"
    BY <1>37, <1>t, <1>hold DEF StopGrace, At, Copied
  <2>2. pc'[r] = "read" /\ op'[r] = "stopping" /\ UNCHANGED <<ctr, id, rec, todo>>
    BY <1>37, <1>t, <2>1 DEF StopGrace, Settle, files
  <2>. QED
    BY <1>go, <2>1, <2>2 DEF Changing
<1>38. ASSUME StopSave(r) PROVE Goal
  BY <1>38, <1>return DEF StopSave
<1>39. ASSUME ListNext(r) PROVE Goal
  <2>1. CASE todo[r] = Nothing
    BY <1>39, <1>return, <2>1 DEF ListNext
  <2>2. CASE todo[r] # Nothing
    BY <1>39, <1>take, <2>2 DEF ListNext, At, files
  <2>. QED
    BY <2>1, <2>2
<1>40. ASSUME ListSettled(r) PROVE Goal
  BY <1>40, <1>goto, <1>hold DEF ListSettled, At, files
<1>41. ASSUME NEW c \in Containers, WipeContainer(r, c) PROVE Goal
  BY <1>41, <1>wipe DEF WipeContainer, At, Take
<1>42. ASSUME WipeRecord(r) PROVE Goal
  BY <1>42, <1>wipe DEF WipeRecord, At, Goto
<1>43. ASSUME WipePods(r) PROVE Goal
  BY <1>43, <1>return DEF WipePods
<1>44. ASSUME Cancel(r) PROVE Goal
  <2>1. CASE Return(r)
    BY <2>1, <1>return
  <2>2. CASE ~Return(r)
    <3>1. op[r] \in {"stopping", "remove"} /\ op'[r] = "abandoned" /\ UNCHANGED <<pc, id, rec, todo>>
      BY <1>44, <1>t, <2>2 DEF Cancel
    <3>. QED
      BY <3>1, CopyFrame DEF Goal
  <2>. QED
    BY <2>1, <2>2
<1>45. Goal
  BY <1>1, <1>2, <1>3, <1>4, <1>5, <1>6, <1>7, <1>8, <1>9, <1>10, <1>11, <1>12, <1>13,
     <1>14, <1>15, <1>16, <1>17, <1>18, <1>19, <1>20, <1>21, <1>22, <1>23, <1>24, <1>25,
     <1>26, <1>27, <1>28, <1>29, <1>30, <1>31, <1>32, <1>33, <1>34, <1>35, <1>36, <1>37,
     <1>38, <1>39, <1>40, <1>41, <1>42, <1>43, <1>44
     DEF CallBegin, CallStep, Reconcile
<1>. QED
  BY <1>45 DEF Goal

(* The copies that calls hold stay behind the records.                     *)
LEMMA CopyStep == IInv /\ ProcMono /\ RecMono /\ [Next]_vars => CopyInv'
<1>. SUFFICES ASSUME IInv, ProcMono, RecMono, [Next]_vars, NEW q \in Calls PROVE Copied(q)'
  BY DEF CopyInv
<1>1. CASE Still(q)
  BY <1>1, CopyFrame DEF Still
<1>2. CASE CallBegin(q) \/ CallStep(q) \/ Cancel(q)
  BY <1>2, CopyMove
<1>3. CASE op'[q] = None /\ todo'[q] = Nothing
  BY <1>3, CopiesFact DEF Copied, Holding
<1>. QED
  BY <1>1, <1>2, <1>3, Frame DEF IInv

(* A bundle goes with a removal that has begun, or with a create that      *)
(* fails.                                                                  *)
LEMMA BundleStep == ASSUME IInv, [Next]_vars, NEW c \in Containers, bundle[c] # None PROVE
  \/ bundle'[c] # None
  \/ c \in doomed' /\ \E r \in Calls : op[r] \in Removing \cup {"wipe"}
  \/ UNCHANGED ctr /\ \E r \in Calls : op[r] = "create" /\ pc[r] = "save" /\ id[r] = c /\ op'[r] = None
<1>. DEFINE Goal ==
                  \/ bundle'[c] # None
                  \/ c \in doomed' /\ \E r \in Calls : op[r] \in Removing \cup {"wipe"}
                  \/ UNCHANGED ctr /\ \E r \in Calls : op[r] = "create" /\ pc[r] = "save" /\ id[r] = c /\ op'[r] = None
<1>o. /\ bundle \in [Containers -> Bundles \cup {None}] /\ None \notin Bundles /\ op \in [Calls -> Ops \cup {None}]
      /\ proc \in [Pids -> [c : Containers \cup {None}, st : ProcStates]]
  BY ConstantsAssumption DEF IInv, TypeOK
<1>1. ASSUME NEW r \in Calls, Unbundle(r) PROVE Goal
  BY <1>o, <1>1 DEF Unbundle, At, Removing
<1>2. ASSUME NEW r \in Calls, CreatePrepare(r) PROVE Goal
  <2>1. [pid |-> None, exit |-> None, error |-> FALSE] \in Bundles
    BY DEF Bundles
  <2>. QED
    BY <1>o, <1>2, <2>1 DEF CreatePrepare
<1>3. ASSUME NEW r \in Calls, CreateSave(r) PROVE Goal
  BY <1>o, <1>3 DEF CreateSave, At, Return
<1>4. ASSUME NEW r \in Calls, NEW d \in Containers, WipeContainer(r, d) PROVE Goal
  BY <1>o, <1>4 DEF WipeContainer, At
<1>5. ASSUME NEW p \in Pids, LauncherFails(p) \/ LauncherReportsPid(p) \/ LauncherRecordsExit(p) PROVE Goal
  <2>1. \A b \in Bundles : /\ [b EXCEPT !.error = TRUE] \in Bundles /\ [b EXCEPT !.pid = p] \in Bundles
                           /\ [b EXCEPT !.exit = p] \in Bundles
    BY DEF Bundles
  <2>2. CASE c # proc[p].c
    BY <1>o, <1>5, <2>2 DEF LauncherFails, LauncherReportsPid, LauncherRecordsExit
  <2>3. CASE c = proc[p].c
    <3>1. bundle'[c] \in {[bundle[c] EXCEPT !.error = TRUE], [bundle[c] EXCEPT !.pid = p], [bundle[c] EXCEPT !.exit = p]}
      BY <1>o, <1>5, <2>3 DEF LauncherFails, LauncherReportsPid, LauncherRecordsExit
    <3>2. PICK b \in Bundles : b = bundle[c]
      BY <1>o
    <3>3. bundle'[c] \in Bundles
      BY <2>1, <3>1, <3>2
    <3>. QED
      BY <1>o, <3>3
  <2>. QED
    BY <2>2, <2>3
<1>6. CASE UNCHANGED bundle
  BY <1>6
<1>. HIDE DEF Goal
<1>7. Goal
  BY <1>1, <1>2, <1>3, <1>4, <1>5, <1>6, Writers DEF IInv, Goal
<1>. QED
  BY <1>7 DEF Goal

(* A start goes from Created, once, until it is recorded.                  *)
LEMMA StartStep == KeepRules /\ IInv /\ ProcMono /\ RecMono /\ [Next]_vars => StartInv'
<1>. SUFFICES ASSUME KeepRules, IInv, ProcMono, RecMono, [Next]_vars, NEW q \in Calls, op'[q] = "start" PROVE
       /\ id'[q] \in tried'
       /\ pc'[q] \in {"spawn", "wait"} => rec'[q].state = "Created"
       /\ pc'[q] = "spawn" \/ (pc'[q] = "settled" /\ rec'[q].state = "Created") =>
            \A p \in Pids : proc'[p].c # id'[q]
       /\ pc'[q] = "record" =>
            /\ ctr'[id'[q]] # None /\ rec'[q].pod = ctr'[id'[q]].pod /\ ctr'[id'[q]].state = "Created"
            /\ rec'[q].state = "Running" /\ Of(rec[q].pid, id[q])'
  BY DEF StartInv
<1>. DEFINE Goal ==
       /\ id'[q] \in tried'
       /\ pc'[q] \in {"spawn", "wait"} => rec'[q].state = "Created"
       /\ pc'[q] = "spawn" \/ (pc'[q] = "settled" /\ rec'[q].state = "Created") =>
            \A p \in Pids : proc'[p].c # id'[q]
       /\ pc'[q] = "record" =>
            /\ ctr'[id'[q]] # None /\ rec'[q].pod = ctr'[id'[q]].pod /\ ctr'[id'[q]].state = "Created"
            /\ rec'[q].state = "Running" /\ Of(rec[q].pid, id[q])'
<1>t. /\ op \in [Calls -> Ops \cup {None}] /\ pc \in [Calls -> Places] /\ id \in [Calls -> Containers \cup {None}]
      /\ rec \in [Calls -> Records \cup {None}] /\ None # "start" /\ None \notin Containers
      /\ TypeOK /\ CallInv /\ RuleInv /\ LaunchInv
      /\ proc \in [Pids -> [c : Containers \cup {None}, st : ProcStates]]
  BY ConstantsAssumption DEF IInv, TypeOK, Ops
<1>tried. tried \subseteq tried'
  BY <1>t, Writers DEF StartContainer, Unbundle, Unrecord, WipeRecord, WipeContainer
<1>old. op[q] = "start" =>
        /\ id[q] \in tried
        /\ pc[q] \in {"spawn", "wait"} => rec[q].state = "Created"
        /\ pc[q] = "spawn" \/ (pc[q] = "settled" /\ rec[q].state = "Created") => \A p \in Pids : proc[p].c # id[q]
        /\ pc[q] = "record" =>
             /\ ctr[id[q]] # None /\ rec[q].pod = ctr[id[q]].pod /\ ctr[id[q]].state = "Created"
             /\ rec[q].state = "Running" /\ Of(rec[q].pid, id[q])
  BY DEF IInv, StartInv
<1>1. CASE Still(q)
  <2>1. op[q] = "start" /\ pc'[q] = pc[q] /\ id'[q] = id[q] /\ rec'[q] = rec[q]
    BY <1>1 DEF Still
  <2>2. \A r \in Calls : r # q => op[r] \notin Changing /\ op[r] # "wipe"
    BY <1>t, <2>1 DEF RuleInv, Changing
  <2>3. \A p \in Pids : proc'[p].c = id[q] => proc[p].c = id[q] \/ pc[q] \notin {"spawn", "settled"}
    <3>1. ASSUME NEW p \in Pids, Spawned(p) PROVE proc'[p].c = id[q] => pc[q] \notin {"spawn", "settled"}
      BY <2>1, <2>2, <3>1 DEF Spawned, Changing
    <3>. QED
      BY <3>1 DEF ProcMono
  <2>4. ASSUME pc[q] = "record" PROVE ctr'[id[q]] = ctr[id[q]] /\ Of(rec[q].pid, id[q])'
    <3>1. PICK c \in Containers, x \in Pids : c = id[q] /\ x = rec[q].pid
      BY <1>t, <1>old, <2>1, <2>4, HoldFact DEF Of
    <3>2. ctr[c] # None /\ ctr[c].state = "Created" /\ Of(x, c)
      BY <1>old, <2>1, <2>4, <3>1
    <3>3. Of(x, c)'
      BY <1>t, <3>2, EndedStep
    <3>4. ~Dropped(c)
      BY <2>1, <2>2 DEF Dropped, Changing
    <3>5. ~Moved(c)
      BY <1>t, <2>1, <2>2, <3>2 DEF Moved
    <3>. QED
      BY <2>1, <3>1, <3>2, <3>3, <3>4, <3>5 DEF RecMono, Made, Of
  <2>. QED
    BY <1>old, <1>tried, <2>1, <2>3, <2>4
<1>2. ASSUME NEW c \in Containers, StartContainer(q, c) PROVE Goal
  <2>1. /\ id'[q] = c /\ pc'[q] \in {"read", "settled"} /\ c \notin tried /\ tried' = tried \cup {c} /\ UNCHANGED proc
    BY <1>t, <1>2 DEF StartContainer, ContainerCall, Begin, Settle, KeepRules, procs
  <2>. QED
    BY <1>t, <2>1 DEF LaunchInv
<1>3. ASSUME op[q] = "start" /\ Reconcile(q) PROVE Goal
  <2>1. id'[q] = id[q] /\ UNCHANGED proc /\ pc'[q] \in {"alive", "poll", "settled", "save"}
    BY <1>t, <1>3 DEF Reconcile, ReconcileRead, ReconcileAlive, ReconcilePoll, ReconcileSave, Goto, procs
  <2>2. pc'[q] = "settled" => rec'[q].state # "Created"
    <3>1. CASE ReconcileAlive(q)
      BY <1>t, <3>1, HoldFact DEF ReconcileAlive, Goto, IInv, CopyInv, Copied
    <3>2. CASE ReconcileSave(q)
      BY <1>t, <3>2, HoldFact DEF ReconcileSave, Goto, IInv, CopyInv, Copied
    <3>. QED
      BY <1>t, <1>3, <3>1, <3>2 DEF Reconcile, ReconcileRead, ReconcilePoll, Goto
  <2>. QED
    BY <1>3, <1>old, <1>tried, <2>1, <2>2
<1>4. ASSUME op[q] = "start" /\ StartSettled(q) PROVE Goal
  <2>1. /\ id'[q] = id[q] /\ rec'[q] = rec[q] /\ UNCHANGED proc /\ pc'[q] = "spawn" /\ rec[q].state = "Created"
        /\ pc[q] = "settled"
    BY <1>t, <1>4 DEF StartSettled, At, Goto, Return, procs
  <2>. QED
    BY <1>4, <1>old, <1>tried, <2>1
<1>5. ASSUME op[q] = "start", NEW p \in Pids, StartSpawn(q, p) PROVE Goal
  BY <1>5, <1>t, <1>old, <1>tried DEF StartSpawn, At, Goto
<1>6. ASSUME op[q] = "start" /\ StartPid(q) PROVE Goal
  <2>1. PICK c \in Containers, x \in Pids : c = id[q] /\ x = bundle[c].pid /\ bundle[c] # None /\ rec[q] \in Records
    <3>1. pc[q] = "wait" /\ bundle[id[q]] # None /\ bundle[id[q]].pid # None
      BY <1>6 DEF StartPid, At
    <3>2. id[q] \in Containers /\ rec[q] \in Records /\ Holding(q)
      BY <1>t, <3>1, HoldFact
    <3>. QED
      BY <1>t, <3>1, <3>2, ExitedFact
  <2>2. /\ pc[q] = "wait" /\ pc'[q] = "record" /\ id'[q] = c /\ UNCHANGED <<proc, ctr>> /\ x # None
        /\ rec' = [rec EXCEPT ![q] = [rec[q] EXCEPT !.state = "Running", !.pid = x]]
    BY <1>t, <1>6, <2>1 DEF StartPid, At, files, procs
  <2>3. rec'[q].state = "Running" /\ rec'[q].pid = x /\ rec'[q].pod = rec[q].pod
    BY <1>t, <2>1, <2>2 DEF Records
  <2>4. Behind(c, rec[q]) /\ Knows(c, rec[q]) /\ rec[q].state = "Created"
    BY <1>t, <1>6, <1>old, <2>1, <2>2, HoldFact DEF IInv, CopyInv, Copied, Changing
  <2>5. Of(x, c)
    BY <2>1, <2>2 DEF IInv, FileInv
  <2>6. Of(rec[q].pid, id[q])'
    BY <2>2, <2>3, <2>5 DEF Of
  <2>. QED
    BY <1>6, <1>old, <1>tried, <2>1, <2>2, <2>3, <2>4, <2>6 DEF Behind, Knows
<1>7. CASE CallBegin(q) \/ CallStep(q) \/ Cancel(q)
  <2>. HIDE DEF Goal
  <2>1. Goal
    BY <1>2, <1>3, <1>4, <1>5, <1>6, <1>7, <1>t, Moves
  <2>. QED
    BY <2>1 DEF Goal
<1>. QED
  BY <1>1, <1>7, <1>t, Frame

(* A container that is being created is touched by nobody else.            *)
LEMMA CreateStep == IInv /\ RecMono /\ [Next]_vars => CreateInv'
<1>. SUFFICES ASSUME IInv, RecMono, [Next]_vars, NEW q \in Calls, op'[q] = "create", pc'[q] # "lock" PROVE
       /\ id'[q] \in used' \ (tried' \cup doomed' \cup removed')
       /\ ctr'[id'[q]] = None
       /\ rec'[q].state = "Created"
       /\ pc'[q] = "save" => bundle'[id'[q]] # None
  BY DEF CreateInv
<1>. DEFINE Goal ==
       /\ id'[q] \in used' \ (tried' \cup doomed' \cup removed')
       /\ ctr'[id'[q]] = None
       /\ rec'[q].state = "Created"
       /\ pc'[q] = "save" => bundle'[id'[q]] # None
<1>t. /\ op \in [Calls -> Ops \cup {None}] /\ pc \in [Calls -> Places] /\ id \in [Calls -> Containers \cup {None}]
      /\ rec \in [Calls -> Records \cup {None}] /\ None # "create" /\ None \notin Containers /\ None \notin Bundles
      /\ bundle \in [Containers -> Bundles \cup {None}]
      /\ TypeOK /\ CallInv /\ RuleInv /\ UsedInv
  BY ConstantsAssumption DEF IInv, TypeOK, Ops
<1>old. op[q] = "create" /\ pc[q] # "lock" =>
        /\ id[q] \in used \ (tried \cup doomed \cup removed) /\ id[q] \in Containers
        /\ ctr[id[q]] = None /\ rec[q].state = "Created" /\ (pc[q] = "save" => bundle[id[q]] # None)
  BY <1>t DEF IInv, CreateInv, CallInv
<1>1. CASE Still(q)
  <2>1. op[q] = "create" /\ pc[q] # "lock" /\ op'[q] = op[q] /\ pc'[q] = pc[q] /\ id'[q] = id[q] /\ rec'[q] = rec[q]
    BY <1>1 DEF Still
  <2>2. \A r \in Calls : r # q => op[r] \notin Changing /\ op[r] # "wipe"
    BY <1>t, <2>1 DEF RuleInv, Changing
  <2>3. \A r \in Calls : op[r] \notin Removing \cup {"wipe"}
    BY <2>1, <2>2 DEF Changing, Removing
  <2>4. used \subseteq used'
    BY <1>t, Writers DEF CreateLock
  <2>5. doomed' = doomed /\ removed' = removed /\ (tried' = tried \/ \E c \in Containers : ctr[c] # None /\ tried' = tried \cup {c})
    <3>1. ASSUME NEW r \in Calls PROVE ~Unbundle(r) /\ ~Unrecord(r) /\ ~WipeRecord(r) /\ \A c \in Containers : ~WipeContainer(r, c)
      BY <2>3 DEF Unbundle, Unrecord, WipeRecord, WipeContainer, At, Removing
    <3>. QED
      BY <1>t, <3>1, Writers DEF StartContainer, ContainerCall
  <2>6. ctr'[id[q]] = None
    <3>1. ~Made(id[q])
      BY <1>t, <2>1, <2>2 DEF Made, Changing
    <3>. QED
      BY <1>old, <2>1, <3>1 DEF RecMono, Moved, Dropped
  <2>7. pc[q] = "save" => bundle'[id[q]] # None
    BY <1>old, <1>t, <2>1, <2>2, <2>3, BundleStep DEF Changing
  <2>. QED
    BY <1>old, <2>1, <2>4, <2>5, <2>6, <2>7
<1>2. ASSUME NEW s \in Pods, CreateContainer(q, s) PROVE Goal
  BY <1>2, <1>t DEF CreateContainer, Begin
<1>3. ASSUME NEW n \in Names, NEW c \in Containers, CreateLock(q, n, c) PROVE Goal
  <2>1. /\ id'[q] = c /\ c \notin used /\ used' = used \cup {c} /\ UNCHANGED <<ctr, tried, doomed, removed>>
        /\ rec'[q].state = "Created" /\ pc'[q] = "prepare"
    BY <1>3, <1>t DEF CreateLock, Return, history
  <2>. QED
    BY <1>t, <2>1 DEF UsedInv, Recorded
<1>4. ASSUME CreatePrepare(q) PROVE Goal
  <2>1. /\ op[q] = "create" /\ pc[q] = "prepare" /\ id'[q] = id[q] /\ rec'[q] = rec[q]
        /\ UNCHANGED <<ctr, used, tried, doomed, removed>>
        /\ bundle' = [bundle EXCEPT ![id[q]] = [pid |-> None, exit |-> None, error |-> FALSE]]
    BY <1>4, <1>t DEF CreatePrepare, At, Goto, Return, history
  <2>2. [pid |-> None, exit |-> None, error |-> FALSE] \in Bundles
    BY DEF Bundles
  <2>. QED
    BY <1>t, <1>old, <2>1, <2>2
<1>5. CASE CallBegin(q) \/ CallStep(q) \/ Cancel(q)
  <2>. HIDE DEF Goal
  <2>1. Goal
    BY <1>2, <1>3, <1>4, <1>5, <1>t, Moves
  <2>. QED
    BY <2>1 DEF Goal
<1>. QED
  BY <1>1, <1>5, <1>t, Frame

(* No process that may run loses the start or the record it has.           *)
LEMMA LiveStep == IInv /\ ProcMono /\ RecMono /\ [Next]_vars => LiveInv'
<1>. SUFFICES ASSUME IInv, ProcMono, RecMono, [Next]_vars, NEW p \in Pids,
                     proc'[p].st \in {"launching", "running", "killed"}
              PROVE
       \/ proc'[p].c \in lost'
       \/ \E r \in Calls : op'[r] = "start" /\ pc'[r] \in {"wait", "record"} /\ id'[r] = proc'[p].c
       \/ /\ proc'[p].st # "launching" /\ ctr'[proc'[p].c] # None
          /\ ctr'[proc'[p].c].state = "Running" /\ ctr'[proc'[p].c].pid = p
  BY DEF LiveInv
<1>. DEFINE Goal ==
       \/ proc'[p].c \in lost'
       \/ \E r \in Calls : op'[r] = "start" /\ pc'[r] \in {"wait", "record"} /\ id'[r] = proc'[p].c
       \/ /\ proc'[p].st # "launching" /\ ctr'[proc'[p].c] # None
          /\ ctr'[proc'[p].c].state = "Running" /\ ctr'[proc'[p].c].pid = p
<1>t. /\ op \in [Calls -> Ops \cup {None}] /\ pc \in [Calls -> Places] /\ id \in [Calls -> Containers \cup {None}]
      /\ rec \in [Calls -> Records \cup {None}] /\ ctr \in [Containers -> Records \cup {None}]
      /\ proc \in [Pids -> [c : Containers \cup {None}, st : ProcStates]]
      /\ None \notin Containers /\ None \notin Records /\ TypeOK /\ CallInv /\ LaunchInv /\ lost \subseteq lost'
  BY ConstantsAssumption DEF IInv, TypeOK, ProcMono
<1>1. CASE Spawned(p)
  BY <1>1 DEF Spawned
<1>2. CASE ~Spawned(p)
  <2>1. PICK c \in Containers : proc[p].c = c /\ proc'[p].c = c
    BY <1>t, <1>2 DEF ProcMono, LaunchInv
  <2>2. proc[p].st \in {"launching", "running", "killed"} /\ (proc[p].st # "launching" => proc'[p].st # "launching")
    BY <1>t, <1>2 DEF ProcMono, ProcStates
  <2>3. ~Ended(c)' \/ c \in lost'
    BY <2>1 DEF Ended
  <2>4. CASE proc[p].st # "launching" /\ ctr[c] # None /\ ctr[c].state = "Running" /\ ctr[c].pid = p
    <3>1. ctr'[c] = ctr[c] \/ Dropped(c) \/ Moved(c)
      BY <2>4 DEF RecMono, Made
    <3>2. CASE ctr'[c] = ctr[c]
      BY <2>1, <2>2, <2>4, <3>2
    <3>3. CASE Dropped(c) \/ Moved(c)
      <4>1. Ended(c)'
        BY <2>4, <3>3 DEF Dropped, Moved
      <4>. QED
        BY <2>1, <2>3, <4>1
    <3>. QED
      BY <3>1, <3>2, <3>3
  <2>5. ASSUME NEW r \in Calls, op[r] = "start", pc[r] \in {"wait", "record"}, id[r] = c PROVE Goal
    <3>1. ASSUME Still(r) PROVE Goal
      BY <2>1, <2>5, <3>1 DEF Still
    <3>2. ASSUME StartPid(r) PROVE Goal
      BY <1>t, <2>1, <2>5, <3>2 DEF StartPid
    <3>3. ASSUME StartError(r) PROVE FALSE
      <4>1. bundle[c] # None /\ bundle[c].error
        BY <2>5, <3>3 DEF StartError
      <4>2. PICK d \in Pids : proc[d].c = c /\ proc[d].st = "over"
        BY <4>1 DEF IInv, FileInv
      <4>. QED
        BY <1>t, <2>1, <2>2, <4>2 DEF LaunchInv
    <3>4. ASSUME StartTimeout(r) PROVE Goal
      BY <2>1, <2>5, <3>4 DEF StartTimeout
    <3>5. ASSUME StartRecord(r) PROVE Goal
      <4>1. pc[r] = "record" /\ ctr' = [ctr EXCEPT ![c] = rec[r]] /\ UNCHANGED proc
        BY <2>5, <3>5 DEF StartRecord, At, procs
      <4>2. rec[r].state = "Running" /\ Of(rec[r].pid, c) /\ rec[r] \in Records
        BY <1>t, <2>5, <4>1, HoldFact DEF IInv, StartInv
      <4>3. ctr'[c] = rec[r] /\ rec[r] # None
        BY <1>t, <4>1, <4>2
      <4>4. rec[r].pid = p /\ proc[p].st # "launching"
        BY <1>t, <2>1, <4>2 DEF Of, LaunchInv
      <4>. QED
        BY <2>1, <4>1, <4>2, <4>3, <4>4
    <3>6. ASSUME Cancel(r) PROVE Goal
      <4>1. c \in CutShort({r})
        BY <2>5 DEF CutShort
      <4>. QED
        BY <2>1, <3>6, <4>1 DEF Cancel
    <3>7. ASSUME Restart PROVE Goal
      <4>1. PICK R \in SUBSET Calls : R = {z \in Calls : op[z] \notin {None, "wipe"}}
        OBVIOUS
      <4>2. r \in R
        BY <2>5, <4>1, ConstantsAssumption DEF Ops
      <4>3. c \in CutShort(R)
        BY <2>5, <4>2 DEF CutShort
      <4>. QED
        BY <2>1, <3>7, <4>1, <4>3 DEF Restart
    <3>8. ASSUME CallBegin(r) \/ CallStep(r) \/ Cancel(r) PROVE Goal
      <4>1. StartPid(r) \/ StartError(r) \/ StartTimeout(r) \/ StartRecord(r) \/ Cancel(r)
        BY <1>t, <2>5, <3>8, Moves
      <4>. HIDE DEF Goal
      <4>. QED
        BY <3>2, <3>3, <3>4, <3>5, <3>6, <4>1
    <3>9. Still(r) \/ Restart \/ CallBegin(r) \/ CallStep(r) \/ Cancel(r)
      BY <1>t, Frame
    <3>. HIDE DEF Goal
    <3>. QED
      BY <3>1, <3>7, <3>8, <3>9
  <2>6. CASE c \in lost
    BY <1>t, <2>1, <2>6
  <2>7. \/ c \in lost
        \/ \E r \in Calls : op[r] = "start" /\ pc[r] \in {"wait", "record"} /\ id[r] = c
        \/ proc[p].st # "launching" /\ ctr[c] # None /\ ctr[c].state = "Running" /\ ctr[c].pid = p
    BY <2>1, <2>2 DEF IInv, LiveInv
  <2>. QED
    BY <2>4, <2>5, <2>6, <2>7
<1>. QED
  BY <1>1, <1>2

(* What a pod call or a wipe has not dealt with is still before it.        *)
LEMMA PodStep == IInv /\ ProcMono /\ RecMono /\ [Next]_vars => PodInv'
<1>. SUFFICES ASSUME IInv, ProcMono, RecMono, [Next]_vars, NEW r \in Calls, NEW c \in Containers, ctr'[c] # None PROVE
       /\ op'[r] = "stoppod" /\ ctr'[c].pod = home'[r] =>
            c \in DOMAIN todo'[r] \/ Ended(c)' \/ (c = id'[r] /\ pc'[r] # "next")
       /\ op'[r] = "rmpod" /\ ctr'[c].pod = home'[r] =>
            c \in DOMAIN todo'[r] \/ (c = id'[r] /\ pc'[r] # "next")
       /\ op'[r] = "wipe" => c \in DOMAIN todo'[r] \/ (c = id'[r] /\ pc'[r] = "unrecord")
  BY DEF PodInv
<1>. DEFINE Goal ==
       /\ op'[r] = "stoppod" /\ ctr'[c].pod = home'[r] =>
            c \in DOMAIN todo'[r] \/ Ended(c)' \/ (c = id'[r] /\ pc'[r] # "next")
       /\ op'[r] = "rmpod" /\ ctr'[c].pod = home'[r] =>
            c \in DOMAIN todo'[r] \/ (c = id'[r] /\ pc'[r] # "next")
       /\ op'[r] = "wipe" => c \in DOMAIN todo'[r] \/ (c = id'[r] /\ pc'[r] = "unrecord")
<1>t. /\ op \in [Calls -> Ops \cup {None}] /\ pc \in [Calls -> Places] /\ id \in [Calls -> Containers \cup {None}]
      /\ todo \in [Calls -> Copies] /\ home \in [Calls -> Pods \cup {None}] /\ ctr \in [Containers -> Records \cup {None}]
      /\ None \notin {"stoppod", "rmpod", "wipe", "create", "start"} /\ TypeOK /\ CallInv /\ RuleInv /\ LaunchInv
  BY ConstantsAssumption DEF IInv, TypeOK, Ops
<1>old. ctr[c] # None =>
        /\ op[r] = "stoppod" /\ ctr[c].pod = home[r] =>
             c \in DOMAIN todo[r] \/ Ended(c) \/ (c = id[r] /\ pc[r] # "next")
        /\ op[r] = "rmpod" /\ ctr[c].pod = home[r] => c \in DOMAIN todo[r] \/ (c = id[r] /\ pc[r] # "next")
        /\ op[r] = "wipe" => c \in DOMAIN todo[r] \/ (c = id[r] /\ pc[r] = "unrecord")
  BY DEF IInv, PodInv
<1>alone. op[r] \in {"stoppod", "rmpod", "wipe"} => \A q \in Calls : op[q] \notin {"create", "start"}
  <2>. SUFFICES ASSUME op[r] \in {"stoppod", "rmpod", "wipe"}, NEW q \in Calls, q # r
                PROVE  op[q] \notin {"create", "start"}
    OBVIOUS
  <2>1. CASE op[r] = "wipe"
    BY <1>t, <2>1 DEF RuleInv
  <2>2. CASE op[r] \in {"stoppod", "rmpod"}
    BY <1>t, <2>2 DEF RuleInv, Changing
  <2>. QED
    BY <2>1, <2>2
<1>ctr. op[r] \in {"stoppod", "rmpod", "wipe"} => ctr[c] # None /\ ctr'[c].pod = ctr[c].pod
  BY <1>alone DEF RecMono, Made, Dropped, Moved
<1>ended. op[r] = "stoppod" /\ Ended(c) => Ended(c)'
  BY <1>t, <1>alone, EndedStep
<1>stay. ASSUME op[r] \in {"stoppod", "rmpod", "wipe"}, op'[r] = op[r], home'[r] = home[r], id'[r] = id[r], todo'[r] = todo[r],
                c = id[r] => \/ pc'[r] = pc[r]
                             \/ op[r] # "wipe" /\ pc'[r] # "next"
         PROVE  Goal
  BY <1>old, <1>ctr, <1>ended, <1>stay
<1>1. CASE Still(r)
  <2>1. CASE op[r] \in {"stoppod", "rmpod", "wipe"}
    BY <1>1, <1>stay, <2>1 DEF Still
  <2>2. CASE op[r] \notin {"stoppod", "rmpod", "wipe"}
    BY <1>1, <2>2 DEF Still
  <2>. QED
    BY <2>1, <2>2
<1>begin. ASSUME NEW s \in Pods, NEW k \in {"stoppod", "rmpod"}, PodCall(r, k, s) PROVE Goal
  <2>1. op'[r] = k /\ home'[r] = s /\ todo'[r] = InPod(s) /\ UNCHANGED ctr
    BY <1>t, <1>begin DEF PodCall, Begin, files
  <2>2. ctr'[c].pod = s => c \in DOMAIN InPod(s)
    BY <1>t, <2>1, LoadFact DEF Recorded
  <2>. QED
    BY <2>1, <2>2
<1>reconcile. ASSUME Reconcile(r), op[r] \in {"stoppod", "rmpod"} PROVE Goal
  <2>1. /\ op'[r] = op[r] /\ home'[r] = home[r] /\ id'[r] = id[r] /\ todo'[r] = todo[r] /\ pc'[r] # "next"
    BY <1>t, <1>reconcile DEF Reconcile, ReconcileRead, ReconcileAlive, ReconcilePoll, ReconcileSave, Goto
  <2>. QED
    BY <1>stay, <1>reconcile, <2>1
<1>force. ASSUME ForceKill(r) \/ ForceDone(r) \/ Unbundle(r), op[r] \in {"stoppod", "rmpod"} PROVE Goal
  <2>1. /\ op'[r] = op[r] /\ home'[r] = home[r] /\ id'[r] = id[r] /\ todo'[r] = todo[r] /\ pc'[r] # "next"
    BY <1>t, <1>force DEF ForceKill, ForceDone, Unbundle, Goto
  <2>. QED
    BY <1>stay, <1>force, <2>1
<1>take. ASSUME NEW d \in Containers, PodNext(r, d), op[r] \in {"stoppod", "rmpod"} PROVE Goal
  <2>1. /\ pc[r] = "next" /\ op'[r] = op[r] /\ home'[r] = home[r] /\ id'[r] = d /\ pc'[r] # "next"
        /\ todo'[r] = Restrict(todo[r], DOMAIN todo[r] \ {d}) /\ d \in DOMAIN todo[r]
    BY <1>t, <1>take DEF PodNext, At, Take, Settle
  <2>2. DOMAIN todo'[r] = DOMAIN todo[r] \ {d}
    BY <1>t, <2>1, CopiesFact
  <2>. QED
    BY <1>old, <1>ctr, <1>ended, <1>take, <2>1, <2>2
<1>forced. ASSUME StopPodForced(r) PROVE Goal
  <2>1. /\ op[r] = "stoppod" /\ pc[r] = "forced" /\ op'[r] = op[r] /\ home'[r] = home[r]
        /\ id'[r] = id[r] /\ todo'[r] = todo[r]
    BY <1>t, <1>forced DEF StopPodForced, At, Goto
  <2>2. Holding(r) /\ rec[r].state # "Running"
    BY <1>t, <2>1, HoldFact DEF IInv, CopyInv, Copied
  <2>3. Ended(id[r])
    BY <2>1, <2>2, SettledEnded DEF Changing
  <2>. QED
    BY <1>old, <1>ctr, <1>ended, <2>1, <2>3
<1>unrecord. ASSUME Unrecord(r), op[r] = "rmpod" PROVE Goal
  <2>1. /\ pc[r] = "unrecord" /\ op'[r] = op[r] /\ home'[r] = home[r] /\ id'[r] = id[r] /\ todo'[r] = todo[r]
        /\ ctr' = [ctr EXCEPT ![id[r]] = None]
    BY <1>t, <1>unrecord DEF Unrecord, At, Goto
  <2>2. c # id[r]
    BY <1>t, <2>1
  <2>. QED
    BY <1>old, <1>ctr, <1>unrecord, <2>1, <2>2
<1>wipe. ASSUME Wipe(r) PROVE Goal
  <2>1. op'[r] = "wipe" /\ todo'[r] = load_all /\ UNCHANGED ctr
    BY <1>t, <1>wipe DEF Wipe, Begin, files
  <2>2. c \in DOMAIN load_all
    BY <1>t, <2>1, LoadFact DEF Recorded
  <2>. QED
    BY <2>1, <2>2
<1>wctr. ASSUME NEW d \in Containers, WipeContainer(r, d) PROVE Goal
  <2>1. /\ pc[r] = "next" /\ op[r] = "wipe" /\ op'[r] = op[r] /\ id'[r] = d /\ pc'[r] = "unrecord"
        /\ todo'[r] = Restrict(todo[r], DOMAIN todo[r] \ {d}) /\ d \in DOMAIN todo[r]
    BY <1>t, <1>wctr DEF WipeContainer, At, Take
  <2>2. DOMAIN todo'[r] = DOMAIN todo[r] \ {d}
    BY <1>t, <2>1, CopiesFact
  <2>. QED
    BY <1>old, <1>ctr, <2>1, <2>2
<1>wrec. ASSUME WipeRecord(r) PROVE Goal
  <2>1. /\ pc[r] = "unrecord" /\ op[r] = "wipe" /\ op'[r] = op[r] /\ id'[r] = id[r] /\ todo'[r] = todo[r]
        /\ ctr' = [ctr EXCEPT ![id[r]] = None]
    BY <1>t, <1>wrec DEF WipeRecord, At, Goto
  <2>2. c # id[r]
    BY <1>t, <2>1
  <2>. QED
    BY <1>old, <1>ctr, <2>1, <2>2
<1>2. ASSUME CallBegin(r) \/ CallStep(r) \/ Cancel(r), op'[r] \in {"stoppod", "rmpod", "wipe"} PROVE Goal
  <2>. HIDE DEF Goal
  <2>1. CASE op'[r] = "stoppod"
    <3>1. \/ \E s \in Pods : StopPodSandbox(r, s)
          \/ op[r] = "stoppod" /\ (\/ Reconcile(r) \/ ForceKill(r) \/ ForceDone(r) \/ StopPodForced(r)
                                  \/ \E d \in Containers : PodNext(r, d))
      BY <1>2, <1>t, <2>1, Moves
    <3>. QED
      BY <1>begin, <1>reconcile, <1>force, <1>take, <1>forced, <3>1 DEF StopPodSandbox
  <2>2. CASE op'[r] = "rmpod"
    <3>1. \/ \E s \in Pods : RemovePodSandbox(r, s)
          \/ op[r] = "rmpod" /\ (\/ Reconcile(r) \/ ForceKill(r) \/ ForceDone(r) \/ Unbundle(r) \/ Unrecord(r)
                                \/ \E d \in Containers : PodNext(r, d))
      BY <1>2, <1>t, <2>2, Moves
    <3>. QED
      BY <1>begin, <1>reconcile, <1>force, <1>take, <1>unrecord, <3>1 DEF RemovePodSandbox
  <2>3. CASE op'[r] = "wipe"
    BY <1>2, <1>t, <1>wipe, <1>wctr, <1>wrec, <2>3, Moves
  <2>. QED
    BY <1>2, <2>1, <2>2, <2>3
<1>3. CASE op'[r] \notin {"stoppod", "rmpod", "wipe"}
  BY <1>3
<1>4. Still(r) \/ (CallBegin(r) \/ CallStep(r) \/ Cancel(r)) \/ op'[r] = None
  BY <1>t, Frame
<1>. QED
  BY <1>1, <1>2, <1>3, <1>4, <1>t

(* A record has its bundle until its removal, which is final.              *)
LEMMA BundlesStep == IInv /\ RecMono /\ [Next]_vars => RecordsHaveBundles'
<1>. SUFFICES ASSUME IInv, RecMono, [Next]_vars, NEW c \in Containers, ctr'[c] # None
     PROVE  (bundle'[c] # None \/ c \in doomed') /\ c \notin removed'
  BY DEF RecordsHaveBundles, Recorded
<1>t. TypeOK /\ RuleInv /\ ctr \in [Containers -> Records \cup {None}]
  BY DEF IInv, TypeOK
<1>1. doomed \subseteq doomed'
  BY <1>t, Writers DEF StartContainer, Unbundle, Unrecord, WipeRecord, WipeContainer, history
<1>2. c \notin removed => c \notin removed'
  <2>1. ASSUME NEW r \in Calls, Unrecord(r) \/ WipeRecord(r) PROVE removed' = removed \cup {id[r]} /\ id[r] # c
    BY <1>t, <2>1 DEF Unrecord, WipeRecord
  <2>2. ASSUME NEW r \in Calls, Unbundle(r) \/ \E d \in Containers : StartContainer(r, d) \/ WipeContainer(r, d)
        PROVE removed' = removed
    BY <2>2 DEF StartContainer, Unbundle, WipeContainer
  <2>. QED
    BY <1>t, <2>1, <2>2, Writers
<1>3. bundle[c] # None => bundle'[c] # None \/ c \in doomed' \/ (UNCHANGED ctr /\ ctr[c] = None)
  BY BundleStep DEF IInv, CreateInv
<1>4. CASE ctr[c] # None
  BY <1>1, <1>2, <1>3, <1>4 DEF IInv, RecordsHaveBundles, Recorded
<1>5. CASE Made(c)
  <2>1. c \notin removed /\ bundle[c] # None
    BY <1>5 DEF Made, IInv, CreateInv
  <2>. QED
    BY <1>2, <1>3, <1>5, <2>1 DEF Made
<1>. QED
  BY <1>4, <1>5 DEF RecMono, Dropped, Moved

(* The initial state satisfies the invariant.                              *)
LEMMA InitInv == Init => IInv
<1>. SUFFICES ASSUME Init PROVE IInv
  OBVIOUS
<1>n. Nothing \in Copies /\ DOMAIN Nothing = {}
  BY CopiesFact
<1>1. TypeOK
  BY <1>n DEF Init, TypeOK, Places, ProcStates
<1>2. CallInv /\ LockInv /\ RuleInv
  BY <1>n, ConstantsAssumption DEF Init, CallInv, LockInv, RuleInv, Holding, Changing, Ops
<1>3. LaunchInv /\ UsedInv /\ FileInv
  BY ConstantsAssumption DEF Init, LaunchInv, UsedInv, FileInv, Recorded, Ops
<1>4. CopyInv /\ StartInv /\ CreateInv
  BY <1>n, ConstantsAssumption DEF Init, CopyInv, Copied, StartInv, CreateInv, Holding, Ops
<1>5. LiveInv /\ PodInv /\ RecordsHaveBundles
  BY DEF Init, LiveInv, PodInv, RecordsHaveBundles, Recorded
<1>. QED
  BY <1>1, <1>2, <1>3, <1>4, <1>5 DEF IInv

(* Every step of clients that keep to the rules preserves it.              *)
LEMMA StepInv == KeepRules /\ IInv /\ [Next]_vars => IInv'
<1>. SUFFICES ASSUME KeepRules, IInv, [Next]_vars PROVE IInv'
  OBVIOUS
<1>1. ProcMono /\ RecMono
  BY ProcStep, RecStep DEF IInv
<1>2. TypeOK' /\ CallInv' /\ LockInv' /\ RuleInv'
  BY TypeStep, CallStepInv, LockStep, RuleStep DEF IInv
<1>3. LaunchInv' /\ UsedInv' /\ FileInv'
  BY <1>1, LaunchStep, UsedStep, FileStep DEF IInv
<1>4. CopyInv' /\ StartInv' /\ CreateInv'
  BY <1>1, CopyStep, StartStep, CreateStep
<1>5. LiveInv' /\ PodInv' /\ RecordsHaveBundles'
  BY <1>1, LiveStep, PodStep, BundlesStep
<1>. QED
  BY <1>2, <1>3, <1>4, <1>5 DEF IInv

(* What holds of every call, process and file in every reachable state.    *)
LEMMA Invariance == ASSUME KeepRules PROVE Spec => []IInv
<1>1. IInv /\ [Next]_vars => IInv'
  BY StepInv
<1>. QED
  BY InitInv, <1>1, PTL DEF Spec

(* runtime_service.rs, launcher.rs: records, bundles, processes and the    *)
(* copies that calls hold keep their types.                                *)
THEOREM Typing == ASSUME KeepRules PROVE Spec => []TypeOK
<1>1. IInv => TypeOK
  BY DEF IInv
<1>. QED
  BY Invariance, <1>1, PTL

(* create_container, remove_container, remove_pod_sandbox: a record has    *)
(* its bundle until its removal has begun, and never comes back.           *)
THEOREM NoRecordWithoutBundle == ASSUME KeepRules PROVE Spec => []RecordsHaveBundles
<1>1. IInv => RecordsHaveBundles
  BY DEF IInv
<1>. QED
  BY Invariance, <1>1, PTL

(* start_container, stop_container, launcher.rs: a process that runs is in *)
(* its container's record, or its start is under way or was cut short.     *)
THEOREM EveryProcessAccounted == ASSUME KeepRules PROVE Spec => []Accounted
<1>1. IInv => Accounted
  <2>. SUFFICES ASSUME IInv, NEW p \in Pids, pid_alive(p) PROVE
         \/ proc[p].c \in lost
         \/ proc[p].c \in Recorded /\ ctr[proc[p].c].state = "Running" /\ ctr[proc[p].c].pid = p
         \/ \E r \in Calls : op[r] = "start" /\ pc[r] \in {"wait", "record"} /\ id[r] = proc[p].c
    BY DEF Accounted
  <2>1. proc[p].c \in Containers
    BY DEF IInv, TypeOK, LaunchInv, pid_alive
  <2>. QED
    BY <2>1 DEF IInv, LiveInv, pid_alive, Recorded
<1>. QED
  BY Invariance, <1>1, PTL

(* stop_pod_sandbox, remove_pod_sandbox: a pod does not end while one of   *)
(* its containers runs, nor is it removed before their records.            *)
THEOREM PodsEndEmpty == ASSUME KeepRules PROVE Spec => PodEnds
<1>. DEFINE Stopped(s) == \A p \in Pids :
                 pid_alive(p) => proc[p].c \in lost \/ proc[p].c \notin Recorded \/ ctr[proc[p].c].pod # s
            A == \A s \in Pods :
                 /\ pod[s] = "Ready" /\ pod'[s] # "Ready" => Stopped(s)
                 /\ pod[s] # None /\ pod'[s] = None => InPod(s) = Nothing
<1>1. IInv /\ [Next]_vars => [A]_vars
  <2>. SUFFICES ASSUME IInv, [Next]_vars, NEW s \in Pods PROVE
         /\ pod[s] = "Ready" /\ pod'[s] # "Ready" => Stopped(s)
         /\ pod[s] # None /\ pod'[s] = None => InPod(s) = Nothing
    OBVIOUS
  <2>t. /\ TypeOK /\ pod \in [Pods -> {"Ready", "NotReady", None}] /\ None \notin {"Ready", "NotReady"}
        /\ proc \in [Pids -> [c : Containers \cup {None}, st : ProcStates]]
    BY ConstantsAssumption DEF IInv, TypeOK
  <2>ended. ASSUME \A c \in Containers : ctr[c] # None /\ ctr[c].pod = s => Ended(c) PROVE Stopped(s)
    BY <2>t, <2>ended DEF Recorded, Ended, pid_alive
  <2>gone. ASSUME \A c \in Containers : ctr[c] # None => ctr[c].pod # s PROVE Stopped(s) /\ InPod(s) = Nothing
    <3>0. InPod(s) \in Copies /\ DOMAIN InPod(s) = {c \in Recorded : ctr[c].pod = s}
      BY <2>t, LoadFact
    <3>1. InPod(s) \in Copies /\ DOMAIN InPod(s) = {}
      BY <2>gone, <3>0 DEF Recorded
    <3>2. InPod(s) = Nothing
      BY <3>1, CopiesFact
    <3>. QED
      BY <2>gone, <2>ended, <3>2
  <2>. HIDE DEF Stopped
  <2>n. DOMAIN Nothing = {}
    BY CopiesFact
  <2>1. ASSUME NEW r \in Calls, RunSave(r) PROVE
         /\ pod[s] = "Ready" /\ pod'[s] # "Ready" => Stopped(s)
         /\ pod[s] # None /\ pod'[s] = None => InPod(s) = Nothing
    BY <2>1, <2>t DEF RunSave
  <2>2. ASSUME NEW r \in Calls, StopPodSave(r) PROVE
         /\ pod[s] = "Ready" /\ pod'[s] # "Ready" => Stopped(s)
         /\ pod[s] # None /\ pod'[s] = None => InPod(s) = Nothing
    <3>1. CASE s = home[r]
      <4>1. \A c \in Containers : ctr[c] # None /\ ctr[c].pod = s => Ended(c)
        BY <2>2, <2>n, <3>1 DEF StopPodSave, At, IInv, PodInv
      <4>. QED
        BY <2>2, <2>t, <2>ended, <3>1, <4>1 DEF StopPodSave
    <3>2. CASE s # home[r]
      BY <2>2, <2>t, <3>2 DEF StopPodSave
    <3>. QED
      BY <3>1, <3>2
  <2>3. ASSUME NEW r \in Calls, RemovePodLast(r) PROVE
         /\ pod[s] = "Ready" /\ pod'[s] # "Ready" => Stopped(s)
         /\ pod[s] # None /\ pod'[s] = None => InPod(s) = Nothing
    <3>1. CASE s = home[r]
      <4>1. \A c \in Containers : ctr[c] # None => ctr[c].pod # s
        BY <2>3, <2>n, <3>1 DEF RemovePodLast, At, IInv, PodInv
      <4>. QED
        BY <2>gone, <4>1
    <3>2. CASE s # home[r]
      BY <2>3, <2>t, <3>2 DEF RemovePodLast
    <3>. QED
      BY <3>1, <3>2
  <2>4. ASSUME NEW r \in Calls, WipePods(r) PROVE
         /\ pod[s] = "Ready" /\ pod'[s] # "Ready" => Stopped(s)
         /\ pod[s] # None /\ pod'[s] = None => InPod(s) = Nothing
    <3>1. \A c \in Containers : ctr[c] = None
      BY <2>4, <2>n DEF WipePods, At, IInv, PodInv
    <3>. QED
      BY <2>gone, <3>1
  <2>5. CASE UNCHANGED pod
    BY <2>5
  <2>. QED
    BY <2>1, <2>2, <2>3, <2>4, <2>5, <2>t, Writers
<1>2. [A]_vars => [\A s \in Pods :
    /\ pod[s] = "Ready" /\ pod'[s] # "Ready" => \A p \in Pids :
         pid_alive(p) => LET c == proc[p].c
                         IN c \in lost \/ c \notin Recorded \/ ctr[c].pod # s
    /\ pod[s] # None /\ pod'[s] = None => InPod(s) = Nothing]_vars
  OBVIOUS
<1>. HIDE DEF A
<1>. QED
  BY Invariance, <1>1, <1>2, PTL DEF Spec, PodEnds

=============================================================================
