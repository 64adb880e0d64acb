----------------------------- MODULE CriRuntime -----------------------------
(***************************************************************************)
(* The CRI server of bin/ocicri: pod sandboxes and containers as files,    *)
(* the calls that read, settle and write them (runtime_service.rs,         *)
(* records.rs, sandbox.rs, container.rs, bundle.rs), and the launcher      *)
(* process that starts a container and records its end (launcher.rs).      *)
(*                                                                         *)
(* Calls run concurrently.  One mutex, sandbox_mutation_lock, guards most  *)
(* steps but not whole calls: a start spawns and waits without it, stop    *)
(* and remove kill without it, create looks at its pod before it, and a    *)
(* list takes it never.  Records are written whole (temporary file and     *)
(* rename), from copies that may be stale by then.  A container's process  *)
(* and its launcher outlive the call, and the server.                      *)
(***************************************************************************)
EXTENDS Naturals, FiniteSets, Functions

CONSTANTS
    Pods,       \* sandbox ids
    PodNames,   \* k8s_<name>_<namespace>_<uid>_<attempt>
    Containers, \* container ids
    Names,      \* container names
    Pids,       \* launcher processes, each with the container process it forks
    Calls,      \* calls in progress
    Rules,      \* the rules that clients keep to, not in the code (see Allowed)
    None

Records == [name : Names, pod : Pods, state : {"Created", "Running", "Exited"},
            pid : Pids \cup {None}, code : Pids \cup {None}]
Bundles == [pid : Pids \cup {None}, exit : Pids \cup {None}, error : BOOLEAN]
Ops == {"run", "stoppod", "rmpod", "create", "start", "stop", "stopping",
        "remove", "status", "list", "wipe", "abandoned"}

ASSUME ConstantsAssumption ==
    /\ None \notin Pods \cup PodNames \cup Containers \cup Names \cup Pids \cup Calls
    /\ None \notin Records \cup Bundles \cup Ops \cup {"Ready", "NotReady"}
    /\ Rules \subseteq {"serial", "lists", "once", "wipe"}

VARIABLES
    pod,     \* the state in each sandbox record, None without one
    podName, \* the name that a sandbox id was given out for
    ctr,     \* container records
    bundle,  \* what the launcher left in each bundle directory, None without one
    used,    \* container ids that have been given out
    proc,    \* launcher and container process
    keeper,  \* whether the launcher is there to record the end
    lock,    \* the call that holds sandbox_mutation_lock
    op,      \* what each call is
    pc,      \* where it is
    home,    \* the pod it is about
    id,      \* the container it is at
    rec,     \* the record it holds of that container
    todo,    \* the records it has loaded and not yet dealt with
    tried,   \* history: containers that a start was called for
    lost,    \* history: containers whose start was cut short
    doomed,  \* history: containers whose removal has begun
    removed  \* history: containers whose record has been removed

files == <<pod, podName, ctr, bundle, used>>
procs == <<proc, keeper>>
call == <<op, pc, home, id, rec, todo>>
history == <<tried, lost, doomed, removed>>
vars == <<files, procs, lock, call, history>>

ProcStates == {"unused", "launching", "running", "killed", "reaped", "over"}
Places == {"idle", "lock", "prepare", "read", "alive", "poll", "save", "settled",
           "spawn", "wait", "record", "grace", "forced", "unbundle", "unrecord", "next"}

(* Copies of some of the container records.                                *)
Copies == UNION {[C -> Records] : C \in SUBSET Containers}

(* An exit code is named by the process whose code it is.                  *)
TypeOK ==
    /\ pod \in [Pods -> {"Ready", "NotReady", None}]
    /\ podName \in [Pods -> PodNames \cup {None}]
    /\ ctr \in [Containers -> Records \cup {None}]
    /\ bundle \in [Containers -> Bundles \cup {None}]
    /\ used \subseteq Containers
    /\ proc \in [Pids -> [c : Containers \cup {None}, st : ProcStates]]
    /\ keeper \in [Pids -> BOOLEAN]
    /\ lock \in Calls \cup {None}
    /\ op \in [Calls -> Ops \cup {None}]
    /\ pc \in [Calls -> Places]
    /\ home \in [Calls -> Pods \cup {None}]
    /\ id \in [Calls -> Containers \cup {None}]
    /\ rec \in [Calls -> Records \cup {None}]
    /\ todo \in [Calls -> Copies]
    /\ tried \subseteq Containers /\ lost \subseteq Containers
    /\ doomed \subseteq Containers /\ removed \subseteq Containers

Nothing == [c \in {} |-> None]

Init ==
    /\ pod = [s \in Pods |-> None]
    /\ podName = [s \in Pods |-> None]
    /\ ctr = [c \in Containers |-> None]
    /\ bundle = [c \in Containers |-> None]
    /\ used = {}
    /\ proc = [p \in Pids |-> [c |-> None, st |-> "unused"]]
    /\ keeper = [p \in Pids |-> FALSE]
    /\ lock = None
    /\ op = [r \in Calls |-> None]
    /\ pc = [r \in Calls |-> "idle"]
    /\ home = [r \in Calls |-> None]
    /\ id = [r \in Calls |-> None]
    /\ rec = [r \in Calls |-> None]
    /\ todo = [r \in Calls |-> Nothing]
    /\ tried = {} /\ lost = {} /\ doomed = {} /\ removed = {}

-----------------------------------------------------------------------------
(* process::alive: a process is there until it has been waited for.        *)
pid_alive(p) == p # None /\ proc[p].st \in {"running", "killed"}

(* launcher::read_exit: whose end the bundle records, if anyone's.         *)
read_exit(c) == IF bundle[c] = None THEN None ELSE bundle[c].exit

(* container::load_all.                                                    *)
Recorded == {c \in Containers : ctr[c] # None}
load_all == Restrict(ctr, Recorded)
InPod(s) == Restrict(ctr, {c \in Recorded : ctr[c].pod = s})

Exited(x, code) == [x EXCEPT !.state = "Exited", !.code = code]

(* Call k may begin now.  "serial": the calls that change containers or    *)
(* pods follow one another, as a kubelet issues them for one pod.          *)
(* "lists": no list overlaps a removal, which a kubelet does not promise.  *)
(* "wipe": nothing is called during a wipe and nothing runs then.          *)
(* "once": a container is started once.                                    *)
Changing == {"stoppod", "rmpod", "create", "start", "stop", "stopping", "remove",
             "abandoned"}
Removing == {"rmpod", "remove"}
Allowed(k) == \A q \in Calls :
    /\ "serial" \in Rules => ~(k \in Changing /\ op[q] \in Changing)
    /\ "lists" \in Rules => /\ ~(k = "list" /\ op[q] \in Removing)
                            /\ ~(k \in Removing /\ op[q] = "list")
    /\ "wipe" \in Rules => op[q] = None \/ "wipe" \notin {k, op[q]}

Begin(r, k, place, s, c, more) ==
    /\ op[r] = None
    /\ Allowed(k)
    /\ op' = [op EXCEPT ![r] = k]
    /\ pc' = [pc EXCEPT ![r] = place]
    /\ home' = [home EXCEPT ![r] = s]
    /\ id' = [id EXCEPT ![r] = c]
    /\ rec' = [rec EXCEPT ![r] = IF c = None THEN None ELSE ctr[c]]
    /\ todo' = [todo EXCEPT ![r] = more]

At(r, ks, place) == op[r] \in ks /\ pc[r] = place

Goto(r, place) == pc' = [pc EXCEPT ![r] = place] /\ UNCHANGED <<op, home, id, rec, todo>>

Return(r) ==
    /\ op' = [op EXCEPT ![r] = None]
    /\ pc' = [pc EXCEPT ![r] = "idle"]
    /\ home' = [home EXCEPT ![r] = None]
    /\ id' = [id EXCEPT ![r] = None]
    /\ rec' = [rec EXCEPT ![r] = None]
    /\ todo' = [todo EXCEPT ![r] = Nothing]

Acquire(r) == lock = None /\ lock' = r
Release(r) == lock' = IF lock = r THEN None ELSE lock

(* reconcile_container has work to do for Running records only.            *)
Settle(x) == IF x.state = "Running" THEN "read" ELSE "settled"

(* Takes the next of the loaded records.                                   *)
Take(r, c) ==
    /\ c \in DOMAIN todo[r]
    /\ id' = [id EXCEPT ![r] = c]
    /\ rec' = [rec EXCEPT ![r] = todo[r][c]]
    /\ todo' = [todo EXCEPT ![r] = Restrict(@, DOMAIN @ \ {c})]
    /\ UNCHANGED <<op, home>>

-----------------------------------------------------------------------------
(* The rest of reconcile_container: the record becomes Exited once the     *)
(* launcher has recorded the end, or the process is gone and the launcher  *)
(* has not recorded its end for a second.                                  *)
ReconcileRead(r) ==
    /\ pc[r] = "read"
    /\ IF read_exit(id[r]) # None
         THEN /\ rec' = [rec EXCEPT ![r] = Exited(@, read_exit(id[r]))]
              /\ pc' = [pc EXCEPT ![r] = "save"]
              /\ UNCHANGED <<op, home, id, todo>>
         ELSE Goto(r, "alive")
    /\ UNCHANGED <<files, procs, lock, history>>

ReconcileAlive(r) ==
    /\ pc[r] = "alive"
    /\ Goto(r, IF pid_alive(rec[r].pid) THEN "settled" ELSE "poll")
    /\ UNCHANGED <<files, procs, lock, history>>

(* The last look at exit.json: the code it finds, or none.                 *)
ReconcilePoll(r) ==
    /\ pc[r] = "poll"
    /\ rec' = [rec EXCEPT ![r] = Exited(@, read_exit(id[r]))]
    /\ pc' = [pc EXCEPT ![r] = "save"]
    /\ UNCHANGED <<files, procs, lock, op, home, id, todo, history>>

ReconcileSave(r) ==
    /\ pc[r] = "save" /\ op[r] \notin {"run", "create"}
    /\ ctr' = [ctr EXCEPT ![id[r]] = rec[r]]
    /\ Goto(r, "settled")
    /\ UNCHANGED <<pod, podName, bundle, used, procs, lock, history>>

(* force_kill_and_reconcile: the process is sent SIGKILL and the record    *)
(* settled again and again until it is not Running.                        *)
Forcing == {"stoppod", "rmpod", "stopping", "remove", "abandoned"}

ForceKill(r) ==
    /\ At(r, Forcing, "settled") /\ rec[r].state = "Running"
    /\ proc' = [proc EXCEPT ![rec[r].pid].st = IF @ = "running" THEN "killed" ELSE @]
    /\ Goto(r, "read")
    /\ UNCHANGED <<files, keeper, lock, history>>

(* Mutant: the wait is over and the call goes on as if it had succeeded.   *)
ForceGiveUpOn(r) ==
    /\ At(r, Forcing, "settled") /\ rec[r].state = "Running"
    /\ proc[rec[r].pid].st = "killed"
    /\ Goto(r, "forced")
    /\ UNCHANGED <<files, procs, lock, history>>

(* A hundred rounds have passed and a killed process is still there.       *)
ForceGiveUp(r) ==
    /\ At(r, Forcing, "settled") /\ rec[r].state = "Running"
    /\ proc[rec[r].pid].st = "killed"
    /\ Return(r) /\ Release(r)
    /\ UNCHANGED <<files, procs, history>>

ForceDone(r) ==
    /\ At(r, Forcing, "settled") /\ rec[r].state # "Running"
    /\ IF op[r] = "abandoned" THEN Return(r) ELSE Goto(r, "forced")
    /\ UNCHANGED <<files, procs, lock, history>>

-----------------------------------------------------------------------------
(* run_pod_sandbox: an existing pod of the name is returned instead.       *)
RunPodSandbox(r, s, n) ==
    /\ Acquire(r)
    /\ \A t \in Pods : pod[t] # None => podName[t] # n
    /\ podName[s] = None
    /\ podName' = [podName EXCEPT ![s] = n]
    /\ Begin(r, "run", "save", s, None, Nothing)
    /\ UNCHANGED <<pod, ctr, bundle, used, procs, history>>

RunSave(r) ==
    /\ At(r, {"run"}, "save")
    /\ pod' = [pod EXCEPT ![home[r]] = "Ready"]
    /\ Return(r) /\ Release(r)
    /\ UNCHANGED <<podName, ctr, bundle, used, procs, history>>

(* stop_pod_sandbox and remove_pod_sandbox go through the containers whose *)
(* records are there when they have taken the lock, and hold it.           *)
PodCall(r, k, s) ==
    /\ Acquire(r)
    /\ Begin(r, k, "next", s, None, InPod(s))
    /\ UNCHANGED <<files, procs, history>>

StopPodSandbox(r, s) == pod[s] = "Ready" /\ PodCall(r, "stoppod", s)
RemovePodSandbox(r, s) == pod[s] # None /\ PodCall(r, "rmpod", s)

PodNext(r, c) ==
    /\ At(r, {"stoppod", "rmpod"}, "next")
    /\ Take(r, c)
    /\ pc' = [pc EXCEPT ![r] = Settle(todo[r][c])]
    /\ UNCHANGED <<files, procs, lock, history>>

StopPodForced(r) ==
    /\ At(r, {"stoppod"}, "forced")
    /\ Goto(r, "next")
    /\ UNCHANGED <<files, procs, lock, history>>

StopPodSave(r) ==
    /\ At(r, {"stoppod"}, "next") /\ todo[r] = Nothing
    /\ pod' = [pod EXCEPT ![home[r]] = "NotReady"]
    /\ Return(r) /\ Release(r)
    /\ UNCHANGED <<podName, ctr, bundle, used, procs, history>>

RemovePodLast(r) ==
    /\ At(r, {"rmpod"}, "next") /\ todo[r] = Nothing
    /\ pod' = [pod EXCEPT ![home[r]] = None]
    /\ Return(r) /\ Release(r)
    /\ UNCHANGED <<podName, ctr, bundle, used, procs, history>>

(* bundle::remove, then container::remove, in remove_pod_sandbox and, once *)
(* it has the lock again and has found the record again, remove_container. *)
Unbundle(r) ==
    /\ At(r, {"rmpod"}, "forced") \/ At(r, {"remove"}, "unbundle")
    /\ bundle' = [bundle EXCEPT ![id[r]] = None]
    /\ doomed' = doomed \cup {id[r]}
    /\ Goto(r, "unrecord")
    /\ UNCHANGED <<pod, podName, ctr, used, procs, lock, tried, lost, removed>>

Unrecord(r) ==
    /\ At(r, {"rmpod", "remove"}, "unrecord")
    /\ ctr' = [ctr EXCEPT ![id[r]] = None]
    /\ removed' = removed \cup {id[r]}
    /\ IF op[r] = "rmpod" THEN Goto(r, "next") /\ UNCHANGED lock
                          ELSE Return(r) /\ Release(r)
    /\ UNCHANGED <<pod, podName, bundle, used, procs, tried, lost, doomed>>

-----------------------------------------------------------------------------
(* create_container looks at its pod before it takes the lock; an existing *)
(* container of the name is returned.                                      *)
CreateContainer(r, s) ==
    /\ pod[s] = "Ready"
    /\ Begin(r, "create", "lock", s, None, Nothing)
    /\ UNCHANGED <<files, procs, lock, history>>

CreateLock(r, n, c) ==
    /\ At(r, {"create"}, "lock")
    /\ IF \E d \in Recorded : ctr[d].name = n
         THEN lock = None /\ Return(r) /\ UNCHANGED <<lock, used>>
         ELSE /\ Acquire(r)
              /\ c \notin used
              /\ used' = used \cup {c}
              /\ id' = [id EXCEPT ![r] = c]
              /\ rec' = [rec EXCEPT ![r] = [name |-> n, pod |-> home[r], state |-> "Created",
                                            pid |-> None, code |-> None]]
              /\ pc' = [pc EXCEPT ![r] = "prepare"]
              /\ UNCHANGED <<op, home, todo>>
    /\ UNCHANGED <<pod, podName, ctr, bundle, procs, history>>

(* bundle::prepare cleans up after itself when it fails.                   *)
CreatePrepare(r) ==
    /\ At(r, {"create"}, "prepare")
    /\ \/ /\ bundle' = [bundle EXCEPT ![id[r]] = [pid |-> None, exit |-> None, error |-> FALSE]]
          /\ Goto(r, "save")
          /\ UNCHANGED lock
       \/ Return(r) /\ Release(r) /\ UNCHANGED bundle
    /\ UNCHANGED <<pod, podName, ctr, used, procs, history>>

(* Nor does a record that cannot be written leave its bundle behind.       *)
CreateSave(r) ==
    /\ At(r, {"create"}, "save")
    /\ \/ ctr' = [ctr EXCEPT ![id[r]] = rec[r]] /\ UNCHANGED bundle
       \/ bundle' = [bundle EXCEPT ![id[r]] = None] /\ UNCHANGED ctr
    /\ Return(r) /\ Release(r)
    /\ UNCHANGED <<pod, podName, used, procs, history>>

-----------------------------------------------------------------------------
(* start_container, stop_container, remove_container, and the calls that   *)
(* only settle a record and answer from it (container_status,              *)
(* container_stats, exec_sync, update_container_resources,                 *)
(* reopen_container_log) find the container under the lock.                *)
ContainerCall(r, k, c) ==
    /\ Acquire(r)
    /\ ctr[c] # None
    /\ Begin(r, k, Settle(ctr[c]), None, c, Nothing)
    /\ UNCHANGED <<files, procs>>

StartContainer(r, c) ==
    /\ ContainerCall(r, "start", c)
    /\ "once" \in Rules => c \notin tried
    /\ tried' = tried \cup {c}
    /\ UNCHANGED <<lost, doomed, removed>>

StopContainer(r, c) == ContainerCall(r, "stop", c) /\ UNCHANGED history
ContainerStatus(r, c) == ContainerCall(r, "status", c) /\ UNCHANGED history

StatusAnswer(r) ==
    /\ At(r, {"status"}, "settled")
    /\ Return(r) /\ Release(r)
    /\ UNCHANGED <<files, procs, history>>

(* remove_container gives the lock up at once.                             *)
RemoveContainer(r, c) ==
    /\ lock = None /\ ctr[c] # None
    /\ Begin(r, "remove", Settle(ctr[c]), None, c, Nothing)
    /\ UNCHANGED <<files, procs, lock, history>>

(* Mutant: the record is not looked up again under the lock.               *)
RemoveAgainUnlocked(r) ==
    /\ At(r, {"remove"}, "forced")
    /\ Goto(r, "unbundle")
    /\ UNCHANGED <<files, procs, lock, history>>

RemoveAgain(r) ==
    /\ At(r, {"remove"}, "forced")
    /\ IF ctr[id[r]] = None
         THEN lock = None /\ Return(r) /\ UNCHANGED lock
         ELSE Acquire(r) /\ Goto(r, "unbundle")
    /\ UNCHANGED <<files, procs, history>>

-----------------------------------------------------------------------------
(* start_container releases the lock, spawns the launcher and waits for    *)
(* the pid file or the start-error file.                                   *)
StartSettled(r) ==
    /\ At(r, {"start"}, "settled")
    /\ Release(r)
    /\ IF rec[r].state = "Created" THEN Goto(r, "spawn") ELSE Return(r)
    /\ UNCHANGED <<files, procs, history>>

StartSpawn(r, p) ==
    /\ At(r, {"start"}, "spawn")
    /\ proc[p].st = "unused"
    /\ proc' = [proc EXCEPT ![p] = [c |-> id[r], st |-> "launching"]]
    /\ keeper' = [keeper EXCEPT ![p] = TRUE]
    /\ Goto(r, "wait")
    /\ UNCHANGED <<files, lock, history>>

(* Mutant: the call answers before the record is saved.                    *)
StartPidAnswers(r) ==
    /\ At(r, {"start"}, "wait")
    /\ bundle[id[r]] # None /\ bundle[id[r]].pid # None
    /\ Return(r)
    /\ UNCHANGED <<files, procs, lock, history>>

StartPid(r) ==
    /\ At(r, {"start"}, "wait")
    /\ bundle[id[r]] # None /\ bundle[id[r]].pid # None
    /\ rec' = [rec EXCEPT ![r].state = "Running", ![r].pid = bundle[id[r]].pid]
    /\ pc' = [pc EXCEPT ![r] = "record"]
    /\ UNCHANGED <<files, procs, lock, op, home, id, todo, history>>

StartError(r) ==
    /\ At(r, {"start"}, "wait")
    /\ bundle[id[r]] # None /\ bundle[id[r]].pid = None /\ bundle[id[r]].error
    /\ Return(r)
    /\ UNCHANGED <<files, procs, lock, history>>

StartTimeout(r) ==
    /\ At(r, {"start"}, "wait")
    /\ bundle[id[r]] # None => bundle[id[r]].pid = None /\ ~bundle[id[r]].error
    /\ Return(r)
    /\ lost' = lost \cup {id[r]}
    /\ UNCHANGED <<files, procs, lock, tried, doomed, removed>>

(* The record of before the wait, made Running, is saved.                  *)
StartRecord(r) ==
    /\ At(r, {"start"}, "record") /\ lock = None
    /\ ctr' = [ctr EXCEPT ![id[r]] = rec[r]]
    /\ Return(r)
    /\ UNCHANGED <<pod, podName, bundle, used, procs, lock, history>>

-----------------------------------------------------------------------------
(* stop_container: nothing for an Exited container; a Created one becomes  *)
(* Exited; a Running one is left a grace period, killed and settled        *)
(* without the lock, and saved under it.                                   *)
StopSettled(r) ==
    /\ At(r, {"stop"}, "settled")
    /\ Release(r)
    /\ IF rec[r].state = "Running"
         THEN Goto(r, "grace") /\ UNCHANGED ctr
         ELSE /\ Return(r)
              /\ ctr' = IF rec[r].state = "Exited" THEN ctr
                        ELSE [ctr EXCEPT ![id[r]] = [rec[r] EXCEPT !.state = "Exited"]]
    /\ UNCHANGED <<pod, podName, bundle, used, procs, history>>

StopGrace(r) ==
    /\ At(r, {"stop"}, "grace")
    /\ op' = [op EXCEPT ![r] = "stopping"]
    /\ pc' = [pc EXCEPT ![r] = Settle(rec[r])]
    /\ UNCHANGED <<files, procs, lock, home, id, rec, todo, history>>

StopSave(r) ==
    /\ At(r, {"stopping"}, "forced") /\ lock = None
    /\ ctr' = [ctr EXCEPT ![id[r]] = rec[r]]
    /\ Return(r)
    /\ UNCHANGED <<pod, podName, bundle, used, procs, lock, history>>

-----------------------------------------------------------------------------
(* list_containers and the list of statistics load and settle without the  *)
(* lock.                                                                   *)
ListContainers(r) ==
    /\ Begin(r, "list", "next", None, None, load_all)
    /\ UNCHANGED <<files, procs, lock, history>>

ListNext(r) ==
    /\ At(r, {"list"}, "next")
    /\ IF todo[r] = Nothing
         THEN Return(r)
         ELSE \E c \in DOMAIN todo[r] :
                /\ Take(r, c)
                /\ pc' = [pc EXCEPT ![r] = Settle(todo[r][c])]
    /\ UNCHANGED <<files, procs, lock, history>>

ListSettled(r) ==
    /\ At(r, {"list"}, "settled")
    /\ Goto(r, "next")
    /\ UNCHANGED <<files, procs, lock, history>>

(* cmd_wipe, a process of its own: bundles and records of containers, then *)
(* those of pods, whatever runs.                                           *)
Wipe(r) ==
    /\ Begin(r, "wipe", "next", None, None, load_all)
    /\ "wipe" \in Rules => \A p \in Pids : proc[p].st \in {"unused", "over"}
    /\ UNCHANGED <<files, procs, lock, history>>

WipeContainer(r, c) ==
    /\ At(r, {"wipe"}, "next") /\ Take(r, c)
    /\ bundle' = [bundle EXCEPT ![c] = None]
    /\ doomed' = doomed \cup {c}
    /\ pc' = [pc EXCEPT ![r] = "unrecord"]
    /\ UNCHANGED <<pod, podName, ctr, used, procs, lock, tried, lost, removed>>

WipeRecord(r) ==
    /\ At(r, {"wipe"}, "unrecord")
    /\ ctr' = [ctr EXCEPT ![id[r]] = None]
    /\ removed' = removed \cup {id[r]}
    /\ Goto(r, "next")
    /\ UNCHANGED <<pod, podName, bundle, used, procs, lock, tried, lost, doomed>>

WipePods(r) ==
    /\ At(r, {"wipe"}, "next") /\ todo[r] = Nothing
    /\ pod' = [s \in Pods |-> None]
    /\ Return(r)
    /\ UNCHANGED <<podName, ctr, bundle, used, procs, lock, history>>

-----------------------------------------------------------------------------
(* launcher::main.  The launch fails, or the pid is written as soon as the *)
(* process is there; its end is recorded once it has been waited for.  A   *)
(* write into a bundle that has been removed meanwhile fails unnoticed.    *)
LauncherFails(p) ==
    /\ proc[p].st = "launching"
    /\ proc' = [proc EXCEPT ![p].st = "over"]
    /\ keeper' = [keeper EXCEPT ![p] = FALSE]
    /\ bundle' = [bundle EXCEPT ![proc[p].c] = IF @ = None THEN @ ELSE [@ EXCEPT !.error = TRUE]]
    /\ UNCHANGED <<pod, podName, ctr, used, lock, call, history>>

LauncherReportsPid(p) ==
    /\ proc[p].st = "launching"
    /\ proc' = [proc EXCEPT ![p].st = "running"]
    /\ bundle' = [bundle EXCEPT ![proc[p].c] = IF @ = None THEN @ ELSE [@ EXCEPT !.pid = p]]
    /\ UNCHANGED <<pod, podName, ctr, used, keeper, lock, call, history>>

ProcessEnds(p) ==
    /\ pid_alive(p)
    /\ proc' = [proc EXCEPT ![p].st = IF keeper[p] THEN "reaped" ELSE "over"]
    /\ UNCHANGED <<files, keeper, lock, call, history>>

LauncherRecordsExit(p) ==
    /\ proc[p].st = "reaped"
    /\ proc' = [proc EXCEPT ![p].st = "over"]
    /\ keeper' = [keeper EXCEPT ![p] = FALSE]
    /\ bundle' = [bundle EXCEPT ![proc[p].c] = IF @ = None THEN @ ELSE [@ EXCEPT !.exit = p]]
    /\ UNCHANGED <<pod, podName, ctr, used, lock, call, history>>

(* The launcher is killed; a container that runs goes on without it.       *)
LauncherKilled(p) ==
    /\ keeper[p]
    /\ keeper' = [keeper EXCEPT ![p] = FALSE]
    /\ proc' = [proc EXCEPT ![p].st = IF pid_alive(p) THEN @ ELSE "over"]
    /\ UNCHANGED <<files, lock, call, history>>

-----------------------------------------------------------------------------
(* The containers whose start is cut short when the calls R end.           *)
CutShort(R) == {id[r] : r \in {r \in R : op[r] = "start" /\ pc[r] \in {"wait", "record"}}}

(* The client gives a call up.  The server drops it where it waits; what   *)
(* it has handed to a blocking thread goes on there.                       *)
Cancel(r) ==
    /\ \/ At(r, {"start"}, "wait") /\ Return(r)
       \/ At(r, {"stop"}, "grace") /\ Return(r)
       \/ /\ op[r] \in {"stopping", "remove"}
          /\ pc[r] \in {"read", "alive", "poll", "save", "settled"}
          /\ op' = [op EXCEPT ![r] = "abandoned"]
          /\ UNCHANGED <<pc, home, id, rec, todo>>
    /\ lost' = lost \cup CutShort({r})
    /\ UNCHANGED <<files, procs, lock, tried, doomed, removed>>

(* The server is killed and started again.  Records and processes remain,  *)
(* and a wipe is another process.                                          *)
Restart ==
    LET R == {r \in Calls : op[r] \notin {None, "wipe"}}
        Reset(f, v) == [r \in Calls |-> IF r \in R THEN v ELSE f[r]]
    IN /\ R # {}
       /\ op' = Reset(op, None) /\ pc' = Reset(pc, "idle")
       /\ home' = Reset(home, None) /\ id' = Reset(id, None)
       /\ rec' = Reset(rec, None) /\ todo' = Reset(todo, Nothing)
       /\ lock' = None
       /\ lost' = lost \cup CutShort(R)
       /\ UNCHANGED <<files, procs, tried, doomed, removed>>

Reconcile(r) ==
    ReconcileRead(r) \/ ReconcileAlive(r) \/ ReconcilePoll(r) \/ ReconcileSave(r)

CallStep(r) ==
    \/ Reconcile(r)
    \/ ForceKill(r) \/ ForceGiveUp(r) \/ ForceDone(r)
    \/ RunSave(r)
    \/ \E c \in Containers : PodNext(r, c)
    \/ StopPodForced(r) \/ StopPodSave(r) \/ RemovePodLast(r)
    \/ Unbundle(r) \/ Unrecord(r)
    \/ \E n \in Names, c \in Containers : CreateLock(r, n, c)
    \/ CreatePrepare(r) \/ CreateSave(r)
    \/ StatusAnswer(r) \/ RemoveAgain(r)
    \/ StartSettled(r)
    \/ \E p \in Pids : StartSpawn(r, p)
    \/ StartPid(r) \/ StartError(r) \/ StartTimeout(r) \/ StartRecord(r)
    \/ StopSettled(r) \/ StopGrace(r) \/ StopSave(r)
    \/ ListNext(r) \/ ListSettled(r)
    \/ \E c \in Containers : WipeContainer(r, c)
    \/ WipeRecord(r) \/ WipePods(r)

CallBegin(r) ==
    \/ \E s \in Pods, n \in PodNames : RunPodSandbox(r, s, n)
    \/ \E s \in Pods : StopPodSandbox(r, s) \/ RemovePodSandbox(r, s) \/ CreateContainer(r, s)
    \/ \E c \in Containers : \/ StartContainer(r, c) \/ StopContainer(r, c)
                             \/ RemoveContainer(r, c) \/ ContainerStatus(r, c)
    \/ ListContainers(r) \/ Wipe(r)

ProcessStep(p) ==
    \/ LauncherFails(p) \/ LauncherReportsPid(p) \/ ProcessEnds(p)
    \/ LauncherRecordsExit(p) \/ LauncherKilled(p)

Next ==
    \/ \E r \in Calls : CallBegin(r) \/ CallStep(r) \/ Cancel(r)
    \/ \E p \in Pids : ProcessStep(p)
    \/ Restart

Spec == Init /\ [][Next]_vars

-----------------------------------------------------------------------------
(* create_container prepares the bundle before it records the container,   *)
(* so that a recorded container always has its bundle, until its removal;  *)
(* and the record of a removed container does not come back, whatever      *)
(* copies of it other calls still held.                                    *)
RecordsHaveBundles == \A c \in Recorded :
    /\ bundle[c] # None \/ c \in doomed
    /\ c \notin removed

(* No container runs unaccounted for: its record says Running with its     *)
(* pid, so that stop and remove will find it, or its start is under way,   *)
(* or its start was cut short.                                             *)
Accounted == \A p \in Pids : pid_alive(p) =>
    LET c == proc[p].c
    IN \/ c \in lost
       \/ c \in Recorded /\ ctr[c].state = "Running" /\ ctr[c].pid = p
       \/ \E r \in Calls : op[r] = "start" /\ pc[r] \in {"wait", "record"} /\ id[r] = c

(* When stop_pod_sandbox or remove_pod_sandbox ends a pod none of its      *)
(* containers runs, and a removed pod leaves no container record behind.   *)
PodEnds == [][\A s \in Pods :
    /\ pod[s] = "Ready" /\ pod'[s] # "Ready" => \A p \in Pids :
         pid_alive(p) => LET c == proc[p].c
                         IN c \in lost \/ c \notin Recorded \/ ctr[c].pod # s
    /\ pod[s] # None /\ pod'[s] = None => InPod(s) = Nothing]_vars
=============================================================================
