--------------------------- MODULE OcirunLifecycle ---------------------------
(***************************************************************************)
(* The life of one container id under concurrent ocirun commands: create,  *)
(* start, run, kill and delete (bin/ocirun/src/main.rs), the state store   *)
(* they share (crates/oci-runtime-core/src/state.rs) and the exec fifo on  *)
(* which a created container waits for its start (exec_fifo.rs).           *)
(*                                                                         *)
(* Every command is a process of its own.  The store has no lock: a record *)
(* is loaded, decided upon and written back, or its directory removed, by  *)
(* id.  The container's own process goes its way meanwhile.  A container   *)
(* is named by the pid its process has; the setup of Launch is one state.  *)
(***************************************************************************)
EXTENDS Naturals, FiniteSets

CONSTANTS
    Cmds,  \* the ocirun processes
    Pids,  \* the container processes they launch under this id
    None

Kinds == {"create", "start", "run", "kill", "delete"}
Statuses == {"creating", "created", "running"}
Records == [status : Statuses, pid : Pids \cup {None}]

ASSUME ConstantsAssumption == None \notin Pids \cup Cmds \cup Kinds \cup Records

VARIABLES
    dir,     \* the container whose directory is at <root>/<id>, or None
    rec,     \* state.json in it, or None
    fifo,    \* the container whose exec.fifo is in it, or None
    init,    \* where each container process is
    end,     \* the fifo it has a reference to, named by its container
    byte,    \* the confirmation bytes unread in each fifo
    kind,    \* what each command is, None when it is not running
    pc,      \* where it is
    seen,    \* the record it loaded
    on,      \* the container it launches, or whose fifo it has opened
    starts,  \* history: the starts that each fifo has confirmed
    harmed,  \* history: a delete without --force killed a started container
    clean    \* history: the commands were issued with discipline (see Disciplined)

vars == <<dir, rec, fifo, init, end, byte, kind, pc, seen, on, starts, harmed, clean>>
store == <<dir, rec, fifo>>
history == <<starts, harmed, clean>>

InitStates == {"unborn", "setup", "direct", "waiting", "open", "started", "exited", "gone"}
PcStates == {"idle", "record", "fifo", "fork", "launched", "wait", "remove",
             "open", "opening", "read", "unlink", "write", "signal", "forced", "stray"}

TypeOK ==
    /\ dir \in Pids \cup {None}
    /\ rec \in Records \cup {None}
    /\ fifo \in Pids \cup {None}
    /\ init \in [Pids -> InitStates]
    /\ end \in [Pids -> Pids \cup {None}]
    /\ byte \in [Pids -> Nat]
    /\ kind \in [Cmds -> Kinds \cup {None}]
    /\ pc \in [Cmds -> PcStates]
    /\ seen \in [Cmds -> Records \cup {None}]
    /\ on \in [Cmds -> Pids \cup {None}]
    /\ starts \in [Pids -> Nat]
    /\ harmed \in BOOLEAN /\ clean \in BOOLEAN

Init ==
    /\ dir = None /\ rec = None /\ fifo = None
    /\ init = [p \in Pids |-> "unborn"]
    /\ end = [p \in Pids |-> None]
    /\ byte = [p \in Pids |-> 0]
    /\ kind = [c \in Cmds |-> None]
    /\ pc = [c \in Cmds |-> "idle"]
    /\ seen = [c \in Cmds |-> None]
    /\ on = [c \in Cmds |-> None]
    /\ starts = [p \in Pids |-> 0]
    /\ harmed = FALSE /\ clean = TRUE

-----------------------------------------------------------------------------
Alive(p) == init[p] \notin {"unborn", "exited", "gone"}

(* Where a process is once it has died, its command started or not.        *)
Dead(p) == IF init[p] \in {"started", "exited"} THEN "exited" ELSE "gone"

(* A start has fifo f open for reading.                                    *)
Reading(c, f) == kind[c] = "start" /\ pc[c] = "read" /\ on[c] = f

(* PersistedState::effective_status: a recorded process that is gone makes *)
(* any status Stopped.                                                     *)
effective_status(r) ==
    IF r.pid # None /\ ~Alive(r.pid) THEN "stopped" ELSE r.status

(* StateStore::write: a temporary file renamed over state.json; it needs   *)
(* the directory, whoever's it is by now.                                  *)
Write(r) == dir # None /\ rec' = r /\ UNCHANGED <<dir, fifo>>

(* StateStore::remove: the directory of the id with all that is in it.     *)
Remove == dir' = None /\ rec' = None /\ fifo' = None

(* A disciplined caller issues create, run and delete while no other       *)
(* command is under way, and no command during them; a run that waits for  *)
(* its container keeps nobody away but the launch of a second one.         *)
Alone == {"create", "run", "delete"}
Disciplined(k) == \A d \in Cmds :
    /\ k \in Alone => kind[d] = None \/ (pc[d] = "wait" /\ k = "delete")
    /\ kind[d] \in Alone => pc[d] = "wait"

Begin(c, k, l) ==
    /\ kind[c] = None
    /\ kind' = [kind EXCEPT ![c] = k]
    /\ pc' = [pc EXCEPT ![c] = l]
    /\ clean' = (clean /\ Disciplined(k))

At(c, k, l) == kind[c] = k /\ pc[c] = l

Goto(c, l) == pc' = [pc EXCEPT ![c] = l] /\ UNCHANGED <<kind, seen, on>>

Return(c) ==
    /\ kind' = [kind EXCEPT ![c] = None]
    /\ pc' = [pc EXCEPT ![c] = "idle"]
    /\ seen' = [seen EXCEPT ![c] = None]
    /\ on' = [on EXCEPT ![c] = None]

(* A command is killed; a byte nobody is left to read is gone with it.  A  *)
(* disciplined caller kills no create, run or start.                       *)
Abort(c) ==
    /\ kind[c] # None
    /\ Return(c)
    /\ clean' = (clean /\ kind[c] \in {"kill", "delete"})
    /\ byte' = [f \in Pids |->
         IF Reading(c, f) /\ \A d \in Cmds \ {c} : ~Reading(d, f) THEN 0 ELSE byte[f]]
    /\ UNCHANGED <<store, init, end, starts, harmed>>

-----------------------------------------------------------------------------
(* Mutant: create_dir_all, which accepts a directory that is there.        *)
MakeDirAny(c, k, p) ==
    /\ Begin(c, k, "record")
    /\ init[p] = "unborn" /\ \A d \in Cmds : on[d] # p
    /\ dir' = p
    /\ on' = [on EXCEPT ![c] = p]
    /\ UNCHANGED <<rec, fifo, init, end, byte, seen, starts, harmed>>

(* StateStore::create: create_dir is the only exclusion there is; then     *)
(* state.json is written.                                                  *)
MakeDir(c, k, p) ==
    /\ Begin(c, k, "record")
    /\ init[p] = "unborn" /\ \A d \in Cmds : on[d] # p
    /\ dir = None
    /\ dir' = p
    /\ on' = [on EXCEPT ![c] = p]
    /\ UNCHANGED <<rec, fifo, init, end, byte, seen, starts, harmed>>

WriteCreating(c) ==
    /\ pc[c] = "record"
    /\ Write([status |-> "creating", pid |-> None])
    /\ Goto(c, IF kind[c] = "create" THEN "fifo" ELSE "fork")
    /\ UNCHANGED <<init, end, byte, history>>

(* exec_fifo::create.                                                      *)
MakeFifo(c) ==
    /\ At(c, "create", "fifo")
    /\ dir # None /\ fifo = None
    /\ fifo' = on[c]
    /\ Goto(c, "fork")
    /\ UNCHANGED <<dir, rec, init, end, byte, history>>

(* launch::create and launch::run_reporting_pid fork.                      *)
Fork(c) ==
    /\ pc[c] = "fork"
    /\ init' = [init EXCEPT ![on[c]] = IF kind[c] = "create" THEN "setup" ELSE "direct"]
    /\ Goto(c, "launched")
    /\ UNCHANGED <<store, end, byte, history>>

(* Without state.json, StateStore::create takes the directory back, if it  *)
(* is empty.                                                               *)
RecordFails(c) ==
    /\ pc[c] = "record"
    /\ dir' = IF rec = None /\ fifo = None THEN None ELSE dir
    /\ Return(c)
    /\ UNCHANGED <<rec, fifo, init, end, byte, history>>

(* A create whose launch failed removes the record it made, by id.         *)
CreateFails(c) ==
    /\ kind[c] = "create"
    /\ pc[c] \in {"fifo", "fork"} \/ (pc[c] = "launched" /\ ~Alive(on[c]))
    /\ Remove
    /\ Return(c)
    /\ UNCHANGED <<init, end, byte, history>>

(* The pid was reported, wherever its process is by now.                   *)
CreateWritesCreated(c) ==
    /\ At(c, "create", "launched")
    /\ Write([status |-> "created", pid |-> on[c]])
    /\ Return(c)
    /\ UNCHANGED <<init, end, byte, history>>

(* Without a directory the write fails, and the process stays.             *)
CreateLosesRecord(c) ==
    /\ At(c, "create", "launched")
    /\ dir = None
    /\ Return(c)
    /\ UNCHANGED <<store, init, end, byte, history>>

(* run_and_finalize: on_pid writes Running and ignores a failure; when the *)
(* container has ended the record goes (unless --keep), by id.             *)
RunWritesRunning(c) ==
    /\ At(c, "run", "launched")
    /\ Write([status |-> "running", pid |-> on[c]]) \/ (dir = None /\ UNCHANGED store)
    /\ Goto(c, "wait")
    /\ UNCHANGED <<init, end, byte, history>>

RunWaits(c) ==
    /\ kind[c] = "run"
    /\ pc[c] = "fork" \/ (pc[c] \in {"launched", "wait"} /\ ~Alive(on[c]))
    /\ Goto(c, "remove")
    /\ UNCHANGED <<store, init, end, byte, history>>

RunRemoves(c) ==
    /\ At(c, "run", "remove")
    /\ Remove \/ UNCHANGED store
    /\ Return(c)
    /\ UNCHANGED <<init, end, byte, history>>

-----------------------------------------------------------------------------
(* The container's process (see Launch).                                   *)

(* mount_pivot_and_exec: a created one takes a reference to the fifo at    *)
(* the path it was given, or fails; a run has none.                        *)
InitSetUp(p) ==
    /\ init[p] = "setup"
    /\ end' = [end EXCEPT ![p] = fifo]
    /\ init' = [init EXCEPT ![p] = IF fifo = None THEN "gone" ELSE "waiting"]
    /\ UNCHANGED <<store, byte, kind, pc, seen, on, history>>

InitRuns(p) ==
    /\ init[p] = "direct"
    /\ init' = [init EXCEPT ![p] = "started"]
    /\ UNCHANGED <<store, end, byte, kind, pc, seen, on, history>>

(* wait_for_start: the open succeeds when a reader has the fifo open or is *)
(* blocked in its own open, and lets every reader blocked there go on.     *)
InitOpens(p) ==
    /\ init[p] = "waiting"
    /\ \E c \in Cmds : Reading(c, end[p]) \/ (on[c] = end[p] /\ At(c, "start", "opening"))
    /\ init' = [init EXCEPT ![p] = "open"]
    /\ pc' = [c \in Cmds |->
                IF on[c] = end[p] /\ At(c, "start", "opening") THEN "read" ELSE pc[c]]
    /\ UNCHANGED <<store, end, byte, kind, seen, on, history>>

(* It writes one byte, closes the fifo and execs the command; with no      *)
(* reader left the write fails, and so does the container.                 *)
InitConfirms(p) ==
    /\ init[p] = "open"
    /\ IF \E c \in Cmds : Reading(c, end[p])
       THEN /\ byte' = [byte EXCEPT ![end[p]] = @ + 1]
            /\ init' = [init EXCEPT ![p] = "started"]
       ELSE /\ init' = [init EXCEPT ![p] = "gone"]
            /\ UNCHANGED byte
    /\ UNCHANGED <<store, end, kind, pc, seen, on, history>>

(* The command ends; before it has started, the setup may fail.            *)
InitExits(p) ==
    /\ init[p] \in {"setup", "direct", "waiting", "open", "started"}
    /\ init' = [init EXCEPT ![p] = Dead(p)]
    /\ UNCHANGED <<store, end, byte, kind, pc, seen, on, history>>

-----------------------------------------------------------------------------
(* The commands on an existing container: load it, by id.                  *)
Load(c, k, l) ==
    /\ Begin(c, k, l)
    /\ rec # None
    /\ seen' = [seen EXCEPT ![c] = rec]
    /\ UNCHANGED <<on, store, init, end, byte, starts, harmed>>

(* A container process has fifo f open for writing.                        *)
Writer(f) == \E p \in Pids : end[p] = f /\ init[p] = "open"

(* cmd_start refuses every status but Created ...                          *)
StartLoad(c) == rec # None /\ effective_status(rec) = "created" /\ Load(c, "start", "open")

(* ... then signal_start opens the fifo by its path, and blocks there      *)
(* until a writer has it open too ...                                      *)
StartOpen(c) ==
    /\ At(c, "start", "open")
    /\ fifo # None
    /\ on' = [on EXCEPT ![c] = fifo]
    /\ pc' = [pc EXCEPT ![c] = IF Writer(fifo) THEN "read" ELSE "opening"]
    /\ UNCHANGED <<store, init, end, byte, kind, seen, history>>

StartNoFifo(c) ==
    /\ At(c, "start", "open")
    /\ fifo = None
    /\ Return(c)
    /\ UNCHANGED <<store, init, end, byte, history>>

(* Mutant: the byte stays for the next reader.                             *)
StartPeek(c) ==
    /\ At(c, "start", "read")
    /\ byte[on[c]] > 0
    /\ starts' = [starts EXCEPT ![on[c]] = @ + 1]
    /\ Goto(c, "unlink")
    /\ UNCHANGED <<store, init, end, byte, harmed, clean>>

(* ... reads the byte ...                                                  *)
StartRead(c) ==
    /\ At(c, "start", "read")
    /\ byte[on[c]] > 0
    /\ byte' = [byte EXCEPT ![on[c]] = @ - 1]
    /\ starts' = [starts EXCEPT ![on[c]] = @ + 1]
    /\ Goto(c, "unlink")
    /\ UNCHANGED <<store, init, end, harmed, clean>>

(* Mutant: the read is repeated at the end of file.                        *)
StartReadAgain(c) ==
    /\ At(c, "start", "read")
    /\ byte[on[c]] = 0
    /\ ~Writer(on[c])
    /\ Goto(c, "read")
    /\ UNCHANGED <<store, init, end, byte, history>>

(* ... or fails on the end of file ...                                     *)
StartEndOfFile(c) ==
    /\ At(c, "start", "read")
    /\ byte[on[c]] = 0
    /\ ~Writer(on[c])
    /\ Return(c)
    /\ UNCHANGED <<store, init, end, byte, history>>

(* ... removes the fifo, runs the poststart hooks and writes Running into  *)
(* the record it loaded.                                                   *)
StartUnlink(c) ==
    /\ At(c, "start", "unlink")
    /\ fifo' = None
    /\ Goto(c, "write")
    /\ UNCHANGED <<dir, rec, init, end, byte, history>>

StartWrite(c) ==
    /\ At(c, "start", "write")
    /\ Write([seen[c] EXCEPT !.status = "running"]) \/ (dir = None /\ UNCHANGED store)
    /\ Return(c)
    /\ UNCHANGED <<init, end, byte, history>>

(* cmd_kill: a signal that may be fatal.                                   *)
KillLoad(c) ==
    /\ rec # None /\ rec.pid # None /\ effective_status(rec) # "stopped"
    /\ Load(c, "kill", "signal")

KillSignal(c) ==
    /\ At(c, "kill", "signal")
    /\ \/ init' = [init EXCEPT ![seen[c].pid] = Dead(seen[c].pid)]
       \/ UNCHANGED init
    /\ Return(c)
    /\ UNCHANGED <<store, end, byte, history>>

(* Mutant: a Running container is not refused.                             *)
DeleteLoadAny(c, force) ==
    /\ rec # None
    /\ Load(c, "delete", IF rec.pid = None \/ effective_status(rec) = "stopped" THEN "remove"
                         ELSE IF force THEN "forced" ELSE "signal")

(* cmd_delete: without --force a Running container is refused ...          *)
DeleteLoad(c, force) ==
    /\ rec # None
    /\ ~force => effective_status(rec) # "running"
    /\ Load(c, "delete", IF rec.pid = None \/ effective_status(rec) = "stopped" THEN "remove"
                         ELSE IF force THEN "forced" ELSE "signal")

(* ... for an id without a record the directory is removed, whatever is in *)
(* it by then ...                                                          *)
DeleteNotFound(c) ==
    /\ Begin(c, "delete", "stray")
    /\ rec = None
    /\ UNCHANGED <<seen, on, store, init, end, byte, starts, harmed>>

DeleteStray(c) ==
    /\ At(c, "delete", "stray")
    /\ Remove
    /\ Return(c)
    /\ UNCHANGED <<init, end, byte, history>>

(* Mutant: the record goes and the process stays.                          *)
DeleteSpares(c) ==
    /\ kind[c] = "delete" /\ pc[c] \in {"signal", "forced"}
    /\ Goto(c, "remove")
    /\ UNCHANGED <<store, init, end, byte, history>>

(* ... and any other that is alive gets SIGKILL and, here, is gone before  *)
(* the fifty polls are over.  What was loaded decided: a record that read  *)
(* created is not looked at again.                                         *)
DeleteKill(c) ==
    /\ kind[c] = "delete" /\ pc[c] \in {"signal", "forced"}
    /\ init' = [init EXCEPT ![seen[c].pid] = Dead(seen[c].pid)]
    /\ harmed' = (harmed \/ (pc[c] = "signal" /\ init[seen[c].pid] = "started"))
    /\ Goto(c, "remove")
    /\ UNCHANGED <<store, end, byte, starts, clean>>

(* The cgroup goes, the poststop hooks run, then the directory goes.       *)
DeleteRemove(c) ==
    /\ At(c, "delete", "remove")
    /\ Remove
    /\ Return(c)
    /\ UNCHANGED <<init, end, byte, history>>

-----------------------------------------------------------------------------
Launching(c) ==
    \/ \E p \in Pids, k \in {"create", "run"} : MakeDir(c, k, p)
    \/ WriteCreating(c) \/ MakeFifo(c) \/ Fork(c)
    \/ RecordFails(c) \/ CreateFails(c) \/ CreateWritesCreated(c) \/ CreateLosesRecord(c)
    \/ RunWritesRunning(c) \/ RunWaits(c) \/ RunRemoves(c)

Starting(c) ==
    \/ StartOpen(c) \/ StartNoFifo(c) \/ StartRead(c) \/ StartEndOfFile(c)
    \/ StartUnlink(c) \/ StartWrite(c)

Killing(c) == KillLoad(c) \/ KillSignal(c)

Deleting(c) ==
    \/ \E force \in BOOLEAN : DeleteLoad(c, force)
    \/ DeleteNotFound(c) \/ DeleteStray(c) \/ DeleteKill(c) \/ DeleteRemove(c)

Container(p) == InitSetUp(p) \/ InitRuns(p) \/ InitOpens(p) \/ InitConfirms(p)

Next ==
    \/ \E c \in Cmds : Launching(c) \/ StartLoad(c) \/ Starting(c) \/ Killing(c) \/ Deleting(c)
                         \/ Abort(c)
    \/ \E p \in Pids : Container(p) \/ InitExits(p)

Spec == Init /\ [][Next]_vars

(* Processes are scheduled; nothing makes a command end.                   *)
Fairness ==
    /\ \A c \in Cmds : WF_vars(Starting(c))
    /\ \A p \in Pids : WF_vars(Container(p))

FairSpec == Spec /\ Fairness

-----------------------------------------------------------------------------
(* Every start that succeeds was confirmed by one container process of its *)
(* own that has gone on to its command: the byte proves it, whatever other *)
(* commands do to the record, the fifo and the process meanwhile.          *)
StartsConfirmed == \A f \in Pids : starts[f] + byte[f] <=
    Cardinality({p \in Pids : end[p] = f /\ init[p] \in {"started", "exited"}})

(* The record in a container's directory names that container's process:   *)
(* no write of a record loaded earlier lands in the directory of another.  *)
RecordTracksContainer == clean /\ rec # None /\ rec.pid # None => rec.pid = dir

(* Every container process that is alive has a record, or a command at     *)
(* work on it: none is lost to every later kill and delete.                *)
NoOrphan == clean => \A p \in Pids : Alive(p) =>
    \/ dir = p /\ rec # None /\ rec.pid = p
    \/ \E c \in Cmds : on[c] = p /\ kind[c] \in {"create", "run"}

(* delete without --force kills no container whose command has started.    *)
HarmlessDelete == clean => ~harmed

(* Status::Created: the setup is over and the process blocks for its       *)
(* start.                                                                  *)
CreatedMeansSetUp == rec # None /\ rec.status = "created" =>
    init[rec.pid] # "setup"

(* A start is left blocked in the open of its FIFO: no container process   *)
(* has it open, waits on it or can still come to.                          *)
Deserted(c) == pc[c] = "opening" /\ \A p \in Pids :
    init[p] # "setup" /\ (init[p] \in {"waiting", "open"} => end[p] # on[c])

(* A start returns, whatever other commands do meanwhile, unless every     *)
(* container process that could open its FIFO has died: then, and only     *)
(* then, it blocks in signal_start.                                        *)
StartReturns == \A c \in Cmds : (kind[c] = "start") ~> (kind[c] # "start" \/ Deserted(c))

=============================================================================
