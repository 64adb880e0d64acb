------------------------------- MODULE Engine -------------------------------
(***************************************************************************)
(* ociman's containers: the commands that create, start, stop, restart,    *)
(* kill, pause, rename, update, clone and remove them, the volumes they    *)
(* mount, and the keeper each container is left with                       *)
(* (bin/ociman/src/main.rs).                                               *)
(*                                                                         *)
(* There is no daemon.  A command is a process that reads and writes the   *)
(* records of the state store, which has no lock.  A launch forks a keeper *)
(* which holds the record it was started with in memory, writes it with    *)
(* the pid when the container's process is there, waits for that process   *)
(* and writes it again, or removes it.  A foreground run is its own keeper.*)
(*                                                                         *)
(* The n-th launch has pid n and exit code n, so that a stale pid or exit  *)
(* code is told from the current one; pids are not reused.  Commands, and  *)
(* containers, are bounded by MaxCommands, MaxIds and MaxLaunches.         *)
(***************************************************************************)
EXTENDS Selection

CONSTANTS
    MaxClients,   \* how many commands run at a time
    Names,        \* the names containers are given
    Volumes,      \* the names volumes are given
    RunInputs,    \* the arguments of run and create that are tried
    Refs,         \* the ids and names commands are given
    Selections,   \* the selections of containers that are tried
    MaxIds, MaxLaunches, MaxCommands, MaxCrashes,
    Serial,       \* one command at a time, attached ones aside
    Prompt        \* what is waited for happens before the wait gives up

ASSUME EngineAssumption ==
    /\ MaxClients \in Nat /\ MaxIds \in Nat /\ MaxLaunches \in Nat /\ MaxCommands \in Nat
    /\ MaxCrashes \in Nat
    /\ Serial \in BOOLEAN /\ Prompt \in BOOLEAN
    /\ NoName \notin Names
    /\ RunInputs \subseteq [name : Names \cup {NoName}, rm : BOOLEAN, detach : BOOLEAN,
                            replace : BOOLEAN, volumes : SUBSET Volumes]

Clients == 1..MaxClients
Ids == 1..MaxIds
Pids == 1..MaxLaunches
NoPid == 0
NoExit == 0

VARIABLES
    rec,      \* the state records, a function from the ids that have one
    born,     \* how many ids have been given out
    live,     \* the container processes that exist
    killed,   \* those that were sent SIGKILL
    frozen,   \* those whose cgroup is frozen
    keepers,  \* the keeper of each launch, in order
    vols,     \* the volumes that exist
    cmd,      \* what each client is doing
    issued,   \* how many commands have been issued
    crashes,  \* how often the machine went down
    wanted,   \* history: the containers that were made with --rm
    paused,   \* history: the processes that were paused and not woken since
    lost,     \* history: the containers whose record was written back over a newer one
    astray,   \* history: the containers whose restart was led elsewhere by their name
    forced    \* history: the volumes removed with --force

vars == <<rec, born, live, killed, frozen, keepers, vols, cmd, issued, crashes, wanted, paused,
          lost, astray, forced>>

Statuses == {"creating", "created", "running", "stopped"}

(* state.json and, next to it, what config.json mounts.  upper is the container whose
   upper directory the overlay on the root file system writes to. *)
Records ==
    [status : Statuses, pid : 0..MaxLaunches, name : Names \cup {NoName}, labels : {<<>>},
     rm : BOOLEAN, exit : 0..MaxLaunches, health : BOOLEAN,
     bundle : BOOLEAN, mounts : SUBSET Volumes, upper : 0..MaxIds]

Alive(pid) == pid \in live

effective_status(r) ==
    CASE r.status = "stopped" -> "stopped"
      [] r.status # "stopped" /\ r.pid # NoPid /\ ~Alive(r.pid) -> "stopped"
      [] OTHER -> r.status

(* What users see, which asks the freezer too. *)
display_status(r) ==
    IF effective_status(r) = "running" /\ r.pid \in frozen THEN "paused" ELSE effective_status(r)

resolve(ref) == resolve_container_id(rec, ref)

(* The store has the directory: what load finds, what write needs. *)
Exists(i) == i \in DOMAIN rec
Write(i, r) == rec' = IF Exists(i) THEN [rec EXCEPT ![i] = r] ELSE rec
WriteBack(i, read, r) ==
    Write(i, r) /\ lost' = IF Exists(i) /\ rec[i] # read THEN lost \cup {i} ELSE lost
Add(i, r) == rec' = [j \in DOMAIN rec \cup {i} |-> IF j = i THEN r ELSE rec[j]]
Unlink(i) == rec' = [j \in DOMAIN rec \ {i} |-> rec[j]]

-----------------------------------------------------------------------------
(* A client's frame. *)

(* own is the container a command resolved at first, id the one a step of it did. *)
NoCmd == [op |-> "none", pc |-> "idle", todo |-> <<>>, at |-> NoId, id |-> NoId, own |-> NoId,
          mem |-> <<>>, keeper |-> 0, arg |-> <<>>, failed |-> FALSE, answer |-> NoExit]

Idle(c) == cmd[c].op = "none"
At(c, pc) == cmd[c].pc = pc
Goto(c, pc) == cmd' = [cmd EXCEPT ![c].pc = pc]

KeeperStates == {"forked", "spawned", "broken", "reload", "write", "remove", "done", "failed"}
Starting == {"forked", "spawned", "broken"}

(* A command that blocks on a running container does not keep its user from another. *)
Blocked(c) ==
    \/ cmd[c].pc = "waiting"
    \/ /\ cmd[c].pc = "attached"
       /\ cmd[c].keeper # 0 => keepers[cmd[c].keeper].pc \notin Starting
MayIssue(c) ==
    /\ Idle(c) /\ issued < MaxCommands
    /\ \A d \in 1..(c - 1) : ~Idle(d)    \* clients are interchangeable
    /\ Serial => \A d \in Clients : Idle(d) \/ Blocked(d)

Issue(c, frame) == cmd' = [cmd EXCEPT ![c] = frame] /\ issued' = issued + 1
Return(c) == cmd' = [cmd EXCEPT ![c] = NoCmd]

(* The next container of a command that acts on several: after an error on one of them
   the others are still tried. *)
Proceed(c, pc) ==
    LET f == cmd[c] IN
    IF f.todo = <<>> THEN Return(c)
    ELSE cmd' = [cmd EXCEPT ![c] = [NoCmd EXCEPT !.op = f.op, !.arg = f.arg, !.pc = pc,
                                                 !.at = Head(f.todo), !.todo = Tail(f.todo)]]

(* SIGKILL, and the write to cgroup.freeze that lets a frozen cgroup see a signal. *)
Kill(pid) == killed' = killed \cup ({pid} \cap live)
Wake(pid) == frozen' = frozen \ {pid} /\ paused' = paused \ {pid}

unchangedProcs == UNCHANGED <<live, killed, frozen, keepers>>
unchangedHistory == UNCHANGED <<crashes, wanted, paused, lost, astray, forced>>

-----------------------------------------------------------------------------
(* run and create: prepare_container, then the launch or status created. *)

(* The volumes of -v are made before anything is checked; a refused option is an error
   before that. *)
RunIssue(c, op, a) ==
    /\ MayIssue(c) /\ op \in {"run", "create"}
    /\ a.replace => a.name # NoName
    /\ Issue(c, [NoCmd EXCEPT !.op = op, !.pc = "name", !.arg = a])
    /\ vols' = vols \cup a.volumes
    /\ UNCHANGED <<rec, born>> /\ unchangedProcs /\ unchangedHistory

(* A name in use is an error, or with --replace a container to remove.  The check is
   over before the record is there. *)
RunName(c) ==
    LET f == cmd[c]  taken == f.arg.name # NoName /\ resolve(f.arg.name) # NoId IN
    /\ At(c, "name")
    /\ IF taken
       THEN IF f.arg.replace
            THEN cmd' = [cmd EXCEPT ![c].pc = "remove", ![c].at = f.arg.name]
            ELSE Return(c)
       ELSE Goto(c, "record")
    /\ UNCHANGED <<rec, born, vols, issued>> /\ unchangedProcs /\ unchangedHistory

(* create_container_record: a fresh id, a record with status creating. *)
CreateRecord(c) ==
    LET i == born + 1
        r == [status |-> "creating", pid |-> NoPid, name |-> cmd[c].arg.name, labels |-> <<>>,
              rm |-> FALSE, exit |-> NoExit, health |-> FALSE, bundle |-> FALSE,
              mounts |-> {}, upper |-> 0] IN
    /\ At(c, "record") /\ cmd[c].op \in {"run", "create"} /\ born < MaxIds
    /\ born' = i
    /\ Add(i, r)
    /\ cmd' = [cmd EXCEPT ![c].pc = "bundle", ![c].id = i, ![c].mem = r]
    /\ UNCHANGED <<vols, issued>> /\ unchangedProcs /\ unchangedHistory

(* No free id after eight attempts. *)
IdsExhausted(c) ==
    /\ At(c, "record") /\ born = MaxIds
    /\ Return(c)
    /\ UNCHANGED <<rec, born, vols, issued>> /\ unchangedProcs /\ unchangedHistory

(* The root file system, an overlay where the host can do it, and config.json. *)
PrepareBundle(c) ==
    LET f == cmd[c] IN
    /\ At(c, "bundle") /\ f.op \in {"run", "create"}
    /\ \E upper \in {0, f.id} :
        LET r == [f.mem EXCEPT !.bundle = TRUE, !.mounts = f.arg.volumes, !.upper = upper] IN
        /\ Write(f.id, r)
        /\ cmd' = [cmd EXCEPT ![c].mem = r, ![c].pc = "prepared"]
    /\ UNCHANGED <<born, vols, issued>> /\ unchangedProcs /\ unchangedHistory

(* Anything that goes wrong on the way removes the record again. *)
PrepareFails(c) ==
    /\ At(c, "bundle")
    /\ Unlink(cmd[c].id)
    /\ Return(c)
    /\ UNCHANGED <<born, vols, issued>> /\ unchangedProcs /\ unchangedHistory

(* create writes status created; run writes the annotations and launches. *)
CreateDone(c) ==
    LET f == cmd[c] IN
    /\ At(c, "prepared") /\ f.op = "create"
    /\ Write(f.id, [f.mem EXCEPT !.status = "created", !.rm = f.arg.rm])
    /\ Return(c)
    /\ wanted' = IF f.arg.rm THEN wanted \cup {f.id} ELSE wanted
    /\ UNCHANGED <<born, vols, issued, crashes, paused, lost, astray, forced>> /\ unchangedProcs

RunAnnotate(c) ==
    LET f == cmd[c]  r == [f.mem EXCEPT !.rm = f.arg.rm] IN
    /\ At(c, "prepared") /\ f.op = "run"
    /\ Write(f.id, r)
    /\ cmd' = [cmd EXCEPT ![c].mem = r, ![c].pc = "launch"]
    /\ wanted' = IF f.arg.rm THEN wanted \cup {f.id} ELSE wanted
    /\ UNCHANGED <<born, vols, issued, crashes, paused, lost, astray, forced>> /\ unchangedProcs

-----------------------------------------------------------------------------
(* The launch of run, start, restart and clone --run, and the keeper. *)

KeeperRuns(k) == keepers[k].pc \notin {"done", "failed"}
KeptBy(i) == {k \in DOMAIN keepers : keepers[k].id = i /\ KeeperRuns(k)}

(* fork: the keeper has the command's record in its memory. *)
LaunchFork(c) ==
    LET f == cmd[c]  foreground == f.op = "run" /\ ~f.arg.detach IN
    /\ At(c, "launch") /\ Len(keepers) < MaxLaunches
    /\ keepers' = Append(keepers, [id |-> f.id, mem |-> f.mem, rm |-> f.mem.rm, pc |-> "forked"])
    /\ cmd' = [cmd EXCEPT ![c].keeper = Len(keepers) + 1,
                          ![c].pc = IF foreground THEN "attached" ELSE "confirm"]
    /\ UNCHANGED <<rec, born, vols, issued, live, killed, frozen>> /\ unchangedHistory

(* No process for the keeper.  A foreground run takes its record back. *)
ForkFails(c) ==
    LET f == cmd[c]  foreground == f.op = "run" /\ ~f.arg.detach IN
    /\ At(c, "launch") /\ Len(keepers) = MaxLaunches
    /\ IF foreground THEN Unlink(f.id) ELSE UNCHANGED rec
    /\ Proceed(c, "restart")
    /\ UNCHANGED <<born, vols, issued>> /\ unchangedProcs /\ unchangedHistory

(* wait_for_detached_container_to_start: any status but creating is a start, and a
   record that is gone is one when the keeper ended well. *)
Confirm(c) ==
    LET f == cmd[c]  k == f.keeper IN
    /\ At(c, "confirm")
    /\ \/ Exists(f.id) /\ rec[f.id].status # "creating"
       \/ ~Exists(f.id) /\ ~KeeperRuns(k)
       \/ Exists(f.id) /\ ~KeeperRuns(k)
       \/ ~Prompt
    /\ IF f.op = "start" /\ f.arg.attach /\ Exists(f.id)
       THEN Goto(c, "attached") ELSE Proceed(c, "restart")
    /\ UNCHANGED <<rec, born, vols, issued>> /\ unchangedProcs /\ unchangedHistory

(* A foreground run ends with its keeper; attach and start --attach end when the record
   says stopped, or is gone. *)
Detached(c) ==
    LET f == cmd[c] IN
    /\ At(c, "attached")
    /\ IF f.op = "run" THEN ~KeeperRuns(f.keeper)
       ELSE Exists(f.id) => rec[f.id].status = "stopped"
    /\ Return(c)
    /\ UNCHANGED <<rec, born, vols, issued>> /\ unchangedProcs /\ unchangedHistory

(* run_and_finalize, up to the container's process. *)
KeeperSpawns(k) ==
    /\ k \in DOMAIN keepers /\ keepers[k].pc = "forked"
    /\ keepers[k].mem.mounts \subseteq vols
    /\ live' = live \cup {k}
    /\ keepers' = [keepers EXCEPT ![k].pc = "spawned"]
    /\ UNCHANGED <<rec, born, vols, cmd, issued, killed, frozen>> /\ unchangedHistory

(* The launch goes wrong once the process is there: it is killed and reaped (Launch). *)
KeeperAborts(k) ==
    /\ k \in DOMAIN keepers /\ keepers[k].pc = "spawned"
    /\ live' = live \ {k} /\ killed' = killed \ {k} /\ frozen' = frozen \ {k}
    /\ paused' = paused \ {k}
    /\ keepers' = [keepers EXCEPT ![k].pc = "broken"]
    /\ UNCHANGED <<rec, born, vols, cmd, issued, crashes, wanted, lost, astray, forced>>

(* A launch that fails removes the container, also one that had run before. *)
KeeperFails(k) ==
    /\ k \in DOMAIN keepers /\ keepers[k].pc \in {"forked", "broken"}
    /\ Unlink(keepers[k].id)
    /\ keepers' = [keepers EXCEPT ![k].pc = "failed", ![k].mem = <<>>]
    /\ UNCHANGED <<born, vols, cmd, issued, live, killed, frozen>> /\ unchangedHistory

(* record_running: the keeper's own copy with the pid; an error is ignored. *)
KeeperRecords(k) ==
    LET r == [keepers[k].mem EXCEPT !.status = "running", !.pid = k] IN
    /\ k \in DOMAIN keepers /\ keepers[k].pc = "spawned"
    /\ Write(keepers[k].id, r)
    /\ keepers' = [keepers EXCEPT ![k].pc = "reload", ![k].mem = r]
    /\ UNCHANGED <<born, vols, cmd, issued, live, killed, frozen>> /\ unchangedHistory

(* The process was reaped.  A keeper of a --rm container reads the record again: one that
   still says so is to be removed, another is updated, and none is left alone. *)
KeeperReloads(k) ==
    LET m == keepers[k] IN
    /\ k \in DOMAIN keepers /\ m.pc = "reload" /\ m.rm /\ ~Alive(k)
    /\ keepers' =
        CASE ~Exists(m.id) -> [keepers EXCEPT ![k].pc = "done", ![k].mem = <<>>]
          [] Exists(m.id) /\ rec[m.id].rm -> [keepers EXCEPT ![k].pc = "remove"]
          [] OTHER -> [keepers EXCEPT ![k].pc = "write",
                ![k].mem = [rec[m.id] EXCEPT !.status = "stopped", !.pid = m.mem.pid, !.exit = k]]
    /\ UNCHANGED <<rec, born, vols, cmd, issued, live, killed, frozen>> /\ unchangedHistory

(* And is removed, whatever became of it meanwhile. *)
KeeperRemoves(k) ==
    /\ k \in DOMAIN keepers /\ keepers[k].pc = "remove"
    /\ Unlink(keepers[k].id)
    /\ keepers' = [keepers EXCEPT ![k].pc = "done", ![k].mem = <<>>]
    /\ UNCHANGED <<born, vols, cmd, issued, live, killed, frozen>> /\ unchangedHistory

(* Fault: the keeper ends without a write. *)
KeeperStopsSilent(k) ==
    /\ k \in DOMAIN keepers /\ keepers[k].pc = "reload" /\ ~keepers[k].rm /\ ~Alive(k)
    /\ keepers' = [keepers EXCEPT ![k].pc = "done", ![k].mem = <<>>]
    /\ UNCHANGED <<rec, born, vols, cmd, issued, live, killed, frozen>> /\ unchangedHistory

(* Any other keeper writes the record it was launched with. *)
KeeperStops(k) ==
    /\ k \in DOMAIN keepers /\ keepers[k].pc = "reload" /\ ~keepers[k].rm /\ ~Alive(k)
    /\ keepers' = [keepers EXCEPT ![k].pc = "write", ![k].mem.status = "stopped", ![k].mem.exit = k]
    /\ UNCHANGED <<rec, born, vols, cmd, issued, live, killed, frozen>> /\ unchangedHistory

KeeperWrites(k) ==
    /\ k \in DOMAIN keepers /\ keepers[k].pc = "write"
    /\ Write(keepers[k].id, keepers[k].mem)
    /\ keepers' = [keepers EXCEPT ![k].mem = <<>>,
                                 ![k].pc = IF Exists(keepers[k].id) THEN "done" ELSE "failed"]
    /\ UNCHANGED <<born, vols, cmd, issued, live, killed, frozen>> /\ unchangedHistory

-----------------------------------------------------------------------------
(* stop_container, which stop, restart and rm --time share, and remove_container. *)

(* What a client does with the container after it has waited for its keeper. *)
AfterWait(op) ==
    CASE op = "stop" -> "stopped" [] op = "restart" -> "restore" [] op = "rm" -> "unlink"
      [] op = "start" -> "reload" [] op = "wait" -> "answer"

StopIssue(c, sel) ==
    /\ MayIssue(c) /\ StopAccepts(sel) /\ TargetsFound(rec, sel, sel.ignore)
    /\ LET all == Targets(rec, sel)
           running == SelectSeq(all, LAMBDA ref : ref \in DOMAIN rec
                                        /\ effective_status(rec[ref]) # "stopped") IN
       Issue(c, [NoCmd EXCEPT !.op = "stop", !.pc = "stopped",
                 !.todo = IF sel.all \/ sel.filter # {} THEN running ELSE all])
    /\ UNCHANGED <<rec, born, vols>> /\ unchangedProcs /\ unchangedHistory

(* stop_container resolves what it was given once more.  A container that is stopped, or
   has no pid yet, is only waited for. *)
StopLoad(c) ==
    LET f == cmd[c]  i == resolve(f.at) IN
    /\ At(c, "stop")
    /\ IF i = NoId
       THEN IF f.op = "restart" THEN cmd' = [cmd EXCEPT ![c].pc = "restore", ![c].failed = TRUE]
            ELSE Proceed(c, IF f.op = "rm" THEN "remove" ELSE "stop")
       ELSE cmd' = [cmd EXCEPT ![c].id = i, ![c].mem = rec[i],
                ![c].pc = IF effective_status(rec[i]) = "stopped" \/ rec[i].pid = NoPid
                          THEN "keeper" ELSE "signal"]
    /\ astray' = IF f.op = "restart" /\ i # f.own /\ Exists(f.own)
                 THEN astray \cup {f.own} ELSE astray
    /\ UNCHANGED <<rec, born, vols, issued, crashes, wanted, paused, lost, forced>>
    /\ unchangedProcs

(* kill_thawing_if_paused with the stop signal, which the container may ignore. *)
StopSignal(c) ==
    /\ At(c, "signal")
    /\ Wake(cmd[c].mem.pid)
    /\ Goto(c, "grace")
    /\ UNCHANGED <<rec, born, vols, issued, live, killed, keepers, crashes,
                   wanted, lost, astray, forced>>

(* It is gone within the stop timeout, or it is killed. *)
StopGrace(c) ==
    /\ At(c, "grace")
    /\ \/ ~Alive(cmd[c].mem.pid) /\ Goto(c, "keeper") /\ UNCHANGED <<killed, frozen, paused>>
       \/ Goto(c, "dying") /\ Kill(cmd[c].mem.pid) /\ Wake(cmd[c].mem.pid)
    /\ UNCHANGED <<rec, born, vols, issued, live, keepers, crashes, wanted, lost, astray, forced>>

(* Fifty polls for the process to go. *)
StopDying(c) ==
    /\ At(c, "dying")
    /\ ~Alive(cmd[c].mem.pid) \/ ~Prompt
    /\ Goto(c, IF cmd[c].op \in {"stop", "restart"} \/ (cmd[c].op = "rm" /\ cmd[c].arg.time)
               THEN "keeper" ELSE "unlink")
    /\ UNCHANGED <<rec, born, vols, issued>> /\ unchangedProcs /\ unchangedHistory

(* wait_for_keeper_to_finalize: two seconds for the record to leave running. *)
AwaitKeeper(c) ==
    LET f == cmd[c]  pending == Exists(f.id) /\ rec[f.id].status \in {"running", "creating"} IN
    /\ At(c, "keeper")
    /\ ~pending \/ ~Prompt \/ KeptBy(f.id) = {}
    /\ Goto(c, AfterWait(f.op))
    /\ UNCHANGED <<rec, born, vols, issued>> /\ unchangedProcs /\ unchangedHistory

Stopped(c) ==
    /\ At(c, "stopped")
    /\ Proceed(c, "stop")
    /\ UNCHANGED <<rec, born, vols, issued>> /\ unchangedProcs /\ unchangedHistory

(* rm, container prune and container cleanup. *)
RmIssue(c, sel, force, time) ==
    /\ MayIssue(c) /\ RmAccepts(sel, force, time)
    /\ TargetsFound(rec, sel, sel.ignore \/ force)
    /\ Issue(c, [NoCmd EXCEPT !.op = "rm", !.pc = "removed",
                 !.arg = [force |-> force, time |-> time],
                 !.todo = Targets(rec, sel)])
    /\ UNCHANGED <<rec, born, vols>> /\ unchangedProcs /\ unchangedHistory

(* prune_eligible_containers: created and stopped ones, with force. *)
PruneIssue(c, terms) ==
    /\ MayIssue(c) /\ parse_label_until_filters(terms).ok
    /\ Issue(c, [NoCmd EXCEPT !.op = "prune", !.pc = "removed",
                 !.arg = [force |-> TRUE, time |-> FALSE],
                 !.todo = SelectSeq(Filtered(rec, terms), LAMBDA i :
                              effective_status(rec[i]) \in {"created", "stopped"})])
    /\ UNCHANGED <<rec, born, vols>> /\ unchangedProcs /\ unchangedHistory

(* container cleanup --rm: without force, and a name that does not resolve ends it
   without an error. *)
CleanupIssue(c, sel) ==
    /\ MayIssue(c) /\ OneWayGiven(sel) /\ sel.filter = {} /\ sel.cidfiles = <<>>
    /\ TargetsFound(rec, sel, FALSE)
    /\ Issue(c, [NoCmd EXCEPT !.op = "rm", !.pc = "removed",
                 !.arg = [force |-> FALSE, time |-> FALSE],
                 !.todo = Targets(rec, sel)])
    /\ UNCHANGED <<rec, born, vols>> /\ unchangedProcs /\ unchangedHistory

(* system reset: every container by force, then every volume; images are elsewhere. *)
ResetIssue(c) ==
    /\ MayIssue(c)
    /\ Issue(c, [NoCmd EXCEPT !.op = "reset", !.pc = "removed",
                 !.arg = [force |-> TRUE, time |-> FALSE],
                 !.todo = ByCreation(rec)])
    /\ UNCHANGED <<rec, born, vols>> /\ unchangedProcs /\ unchangedHistory

(* Fault: the process is not killed before the record goes. *)
RemoveKillNot(c) ==
    /\ At(c, "kill")
    /\ Goto(c, "unlink")
    /\ UNCHANGED <<rec, born, vols, issued, live, killed, frozen, keepers>> /\ unchangedHistory

(* remove_container: not stopped is an error without force.  With a pid it is killed,
   or with --time stopped. *)
RemoveLoad(c) ==
    LET f == cmd[c]  i == resolve(f.at)
        force == IF f.op \in {"run", "create"} THEN TRUE ELSE f.arg.force
        time == f.op = "rm" /\ f.arg.time IN
    /\ At(c, "remove")
    /\ IF i = NoId \/ (~force /\ effective_status(rec[i]) # "stopped")
       THEN IF f.op # "rm" THEN Return(c)
            ELSE Proceed(c, "remove")
       ELSE cmd' = [cmd EXCEPT ![c].id = i, ![c].own = i, ![c].mem = rec[i],
                ![c].pc = CASE effective_status(rec[i]) = "stopped" -> "unlink"
                            [] effective_status(rec[i]) # "stopped" /\ time -> "stop"
                            [] OTHER -> IF rec[i].pid = NoPid THEN "unlink" ELSE "kill"]
    /\ UNCHANGED <<rec, born, vols, issued>> /\ unchangedProcs /\ unchangedHistory

RemoveKill(c) ==
    /\ At(c, "kill")
    /\ Kill(cmd[c].mem.pid)
    /\ Goto(c, "dying")
    /\ UNCHANGED <<rec, born, vols, issued, live, frozen, keepers>> /\ unchangedHistory

(* remove_dir_all; a record that is gone already is an error. *)
RemoveUnlink(c) ==
    LET f == cmd[c] IN
    /\ At(c, "unlink")
    /\ Unlink(f.own)
    /\ CASE f.op # "rm" /\ ~Exists(f.own) -> Return(c)
         [] f.op \in {"run", "create"} /\ Exists(f.own) -> Goto(c, "record")
         [] f.op = "clone" /\ Exists(f.own) -> Goto(c, "cloned")
         [] OTHER -> Goto(c, "removed")
    /\ UNCHANGED <<born, vols, issued>> /\ unchangedProcs /\ unchangedHistory

Removed(c) ==
    /\ At(c, "removed")
    /\ IF cmd[c].op = "reset" /\ cmd[c].todo = <<>>
       THEN vols' = {} /\ forced' = forced \cup vols /\ Return(c)
       ELSE Proceed(c, "remove") /\ UNCHANGED <<vols, forced>>
    /\ UNCHANGED <<rec, born, issued, crashes, wanted, paused, lost, astray>> /\ unchangedProcs

-----------------------------------------------------------------------------
(* start, restart. *)

StartIssue(c, ref, attach) ==
    /\ MayIssue(c)
    /\ Issue(c, [NoCmd EXCEPT !.op = "start", !.pc = "start", !.at = ref,
                 !.arg = [attach |-> attach]])
    /\ UNCHANGED <<rec, born, vols>> /\ unchangedProcs /\ unchangedHistory

(* Fault: start looks neither at the status nor for the keeper. *)
StartCheckBlind(c) ==
    LET i == resolve(cmd[c].at) IN
    /\ At(c, "start")
    /\ IF i # NoId
       THEN cmd' = [cmd EXCEPT ![c].id = i, ![c].op = "start", ![c].arg = [attach |-> FALSE],
                               ![c].pc = "reload"]
       ELSE Proceed(c, "restart")
    /\ UNCHANGED <<rec, born, vols, issued>> /\ unchangedProcs /\ unchangedHistory

(* cmd_start begins with the status. *)
StartCheck(c) ==
    LET f == cmd[c]  i == resolve(f.at) IN
    /\ At(c, "start")
    /\ IF i # NoId /\ effective_status(rec[i]) \in {"created", "stopped"}
       THEN cmd' = [cmd EXCEPT ![c].id = i, ![c].op = IF @ = "restart" THEN @ ELSE "start",
                ![c].arg = IF f.op = "clone" THEN [attach |-> FALSE] ELSE f.arg,
                ![c].pc = IF f.op = "restart" THEN "settle" ELSE "keeper"]
       ELSE Proceed(c, "restart")
    /\ UNCHANGED <<rec, born, vols, issued>> /\ unchangedProcs /\ unchangedHistory

(* The same wait within a restart. *)
RestartSettle(c) ==
    LET f == cmd[c]  pending == Exists(f.id) /\ rec[f.id].status \in {"running", "creating"} IN
    /\ At(c, "settle")
    /\ ~pending \/ ~Prompt \/ KeptBy(f.id) = {}
    /\ Goto(c, "reload")
    /\ UNCHANGED <<rec, born, vols, issued>> /\ unchangedProcs /\ unchangedHistory

(* The record is read again once the keeper is through with it. *)
StartReload(c) ==
    LET f == cmd[c] IN
    /\ At(c, "reload")
    /\ IF Exists(f.id) /\ rec[f.id].bundle
       THEN cmd' = [cmd EXCEPT ![c].mem = [rec[f.id] EXCEPT !.status = "creating"],
                               ![c].pc = "creating"]
       ELSE Proceed(c, "restart")
    /\ UNCHANGED <<rec, born, vols, issued>> /\ unchangedProcs /\ unchangedHistory

StartWrite(c) ==
    LET f == cmd[c] IN
    /\ At(c, "creating")
    /\ Write(f.id, f.mem)
    /\ IF Exists(f.id) THEN Goto(c, "launch") ELSE Proceed(c, "restart")
    /\ UNCHANGED <<born, vols, issued>> /\ unchangedProcs /\ unchangedHistory

(* One container is named to restart_one as the user did, several by their ids. *)
RestartIssue(c, sel) ==
    LET all == Targets(rec, sel) IN
    /\ MayIssue(c) /\ RestartAccepts(sel) /\ TargetsFound(rec, sel, FALSE)
    /\ Issue(c, [NoCmd EXCEPT !.op = "restart", !.pc = "restarted",
                 !.todo = IF Len(all) = 1 THEN all ELSE [n \in DOMAIN all |-> resolve(all[n])]])
    /\ UNCHANGED <<rec, born, vols>> /\ unchangedProcs /\ unchangedHistory

Restarted(c) ==
    /\ At(c, "restarted")
    /\ Proceed(c, "restart")
    /\ UNCHANGED <<rec, born, vols, issued>> /\ unchangedProcs /\ unchangedHistory

(* restart_one takes auto-remove out of the record so that the keeper it is about to
   wake does not remove it. *)
RestartLoad(c) ==
    LET f == cmd[c]  i == resolve(f.at) IN
    /\ At(c, "restart")
    /\ IF i = NoId THEN Proceed(c, "restart")
       ELSE cmd' = [cmd EXCEPT ![c].id = i, ![c].own = i, ![c].arg = [had |-> rec[i].rm],
                ![c].mem = rec[i], ![c].failed = FALSE,
                ![c].pc = IF rec[i].rm THEN "suppress" ELSE "stop"]
    /\ UNCHANGED <<rec, born, vols, issued>> /\ unchangedProcs /\ unchangedHistory

RestartSuppress(c) ==
    LET f == cmd[c] IN
    /\ At(c, "suppress")
    /\ WriteBack(f.id, f.mem, [f.mem EXCEPT !.rm = FALSE])
    /\ IF Exists(f.id) THEN Goto(c, "stop") ELSE Proceed(c, "restart")
    /\ UNCHANGED <<born, vols, issued, crashes, wanted, paused, astray, forced>> /\ unchangedProcs

(* However the stop went, the record is read once more to put auto-remove back. *)
RestartReread(c) ==
    LET f == cmd[c] IN
    /\ At(c, "restore")
    /\ IF f.arg.had /\ Exists(f.own)
       THEN cmd' = [cmd EXCEPT ![c].id = f.own, ![c].mem = rec[f.own], ![c].pc = "putback"]
       ELSE IF f.failed THEN Proceed(c, "restart") ELSE Goto(c, "start")
    /\ UNCHANGED <<rec, born, vols, issued>> /\ unchangedProcs /\ unchangedHistory

(* Fault: auto-remove is not put back. *)
RestartRestoreNot(c) ==
    LET f == cmd[c] IN
    /\ At(c, "putback")
    /\ IF f.failed THEN Proceed(c, "restart") ELSE Goto(c, "start")
    /\ UNCHANGED <<rec, born, vols, issued>> /\ unchangedProcs /\ unchangedHistory

(* A stop that failed, or a record that is gone, ends the restart. *)
RestartRestore(c) ==
    LET f == cmd[c] IN
    /\ At(c, "putback")
    /\ WriteBack(f.id, f.mem, [f.mem EXCEPT !.rm = TRUE])
    /\ IF f.failed \/ ~Exists(f.id) THEN Proceed(c, "restart") ELSE Goto(c, "start")
    /\ UNCHANGED <<born, vols, issued, crashes, wanted, paused, astray, forced>> /\ unchangedProcs

-----------------------------------------------------------------------------
(* clone, rename, update. *)

CloneIssue(c, ref, a) ==
    /\ MayIssue(c)
    /\ a.force => a.destroy
    /\ LET i == resolve(ref) IN
       /\ i # NoId /\ rec[i].bundle
       /\ \E name \in Names :
           /\ a.name = NoName \/ name = a.name
           /\ resolve(name) = NoId
           /\ Issue(c, [NoCmd EXCEPT !.op = "clone", !.pc = "record", !.at = i, !.mem = rec[i],
                        !.arg = [a EXCEPT !.name = name]])
    /\ UNCHANGED <<rec, born, vols>> /\ unchangedProcs /\ unchangedHistory

(* The annotations of the source with the new name: --rm and the exit code too. *)
CloneRecord(c) ==
    LET f == cmd[c]  i == born + 1
        r == [f.mem EXCEPT !.status = "creating", !.pid = NoPid, !.name = f.arg.name,
                           !.bundle = FALSE, !.mounts = {}, !.upper = 0] IN
    /\ At(c, "record") /\ f.op = "clone" /\ born < MaxIds
    /\ born' = i
    /\ Add(i, r)
    /\ wanted' = IF r.rm THEN wanted \cup {i} ELSE wanted
    /\ cmd' = [cmd EXCEPT ![c].pc = "bundle", ![c].id = i]
    /\ UNCHANGED <<vols, issued, crashes, paused, lost, astray, forced>> /\ unchangedProcs

(* A root file system extracted from the image, and the config.json of the source with
   only the path of the root replaced. *)
CloneBundle(c) ==
    LET f == cmd[c] IN
    /\ At(c, "bundle") /\ f.op = "clone"
    /\ Write(f.id, [rec[f.id] EXCEPT !.bundle = TRUE, !.mounts = f.mem.mounts,
                                     !.upper = f.mem.upper, !.status = "created"])
    /\ IF f.arg.destroy THEN cmd' = [cmd EXCEPT ![c].keeper = f.id, ![c].pc = "remove"]
       ELSE cmd' = [cmd EXCEPT ![c].keeper = f.id, ![c].pc = "cloned"]
    /\ UNCHANGED <<born, vols, issued>> /\ unchangedProcs /\ unchangedHistory

(* --run starts the clone. *)
Cloned(c) ==
    /\ At(c, "cloned")
    /\ IF cmd[c].arg.run THEN cmd' = [cmd EXCEPT ![c].at = cmd[c].keeper, ![c].pc = "start"]
       ELSE Return(c)
    /\ UNCHANGED <<rec, born, vols, issued>> /\ unchangedProcs /\ unchangedHistory

(* A record is read, changed and written back. *)
RenameIssue(c, ref, name) ==
    LET i == resolve(ref) IN
    /\ MayIssue(c) /\ i # NoId
    /\ resolve(name) \in {NoId, i}
    /\ Issue(c, [NoCmd EXCEPT !.op = "rename", !.pc = "change", !.id = i, !.mem = rec[i],
                 !.arg = [rec[i] EXCEPT !.name = name]])
    /\ UNCHANGED <<rec, born, vols>> /\ unchangedProcs /\ unchangedHistory

(* update: resources go to the cgroup of a running container, health flags to the
   record. *)
UpdateIssue(c, ref, resources) ==
    LET i == resolve(ref) IN
    /\ MayIssue(c) /\ i # NoId
    /\ resources => effective_status(rec[i]) = "running"
    /\ Issue(c, [NoCmd EXCEPT !.op = "update", !.pc = "change", !.id = i, !.mem = rec[i],
                 !.arg = [rec[i] EXCEPT !.health = TRUE]])
    /\ UNCHANGED <<rec, born, vols>> /\ unchangedProcs /\ unchangedHistory

ChangeWrite(c) ==
    /\ At(c, "change")
    /\ WriteBack(cmd[c].id, cmd[c].mem, cmd[c].arg)
    /\ Return(c)
    /\ UNCHANGED <<born, vols, issued, crashes, wanted, paused, astray, forced>> /\ unchangedProcs

-----------------------------------------------------------------------------
(* kill, pause, unpause, commit, wait, attach: what a running container is told. *)

(* kill_one: the signal, then the thaw of a paused container. *)
KillIssue(c, sel, sigkill) ==
    LET hit == {i \in {resolve(ref) : ref \in ToSet(Targets(rec, sel))} \ {NoId} :
                    /\ sel.all => effective_status(rec[i]) \in {"running", "paused"}
                    /\ effective_status(rec[i]) # "stopped" /\ rec[i].pid # NoPid}
        pids == {rec[i].pid : i \in hit} IN
    /\ MayIssue(c) /\ KillAccepts(sel) /\ TargetsFound(rec, sel, FALSE)
    /\ issued' = issued + 1
    /\ killed' = IF sigkill THEN killed \cup (pids \cap live) ELSE killed
    /\ frozen' = frozen \ pids
    /\ paused' = paused \ pids
    /\ UNCHANGED <<rec, born, vols, cmd, live, keepers, crashes, wanted, lost, astray, forced>>

(* pause_or_unpause_one: by the status that is shown. *)
PauseIssue(c, sel, freeze) ==
    LET want == IF freeze THEN "running" ELSE "paused"
        hit == {i \in {resolve(ref) : ref \in ToSet(Targets(rec, sel))} \ {NoId} :
                    display_status(rec[i]) = want /\ rec[i].pid # NoPid}
        pids == {rec[i].pid : i \in hit} IN
    /\ MayIssue(c) /\ PauseAccepts(sel) /\ TargetsFound(rec, sel, FALSE)
    /\ issued' = issued + 1
    /\ frozen' = IF freeze THEN frozen \cup pids ELSE frozen \ pids
    /\ paused' = IF freeze THEN paused \cup pids ELSE paused \ pids
    /\ UNCHANGED <<rec, born, vols, cmd, live, killed, keepers, crashes,
                   wanted, lost, astray, forced>>

(* commit --pause freezes a container whose record says running. *)
CommitIssue(c, ref, pause) ==
    LET i == resolve(ref)  here == pause /\ effective_status(rec[i]) = "running" IN
    /\ MayIssue(c) /\ i # NoId /\ rec[i].bundle /\ rec[i].upper # i
    /\ Issue(c, [NoCmd EXCEPT !.op = "commit", !.pc = "diff", !.id = i, !.at = ref,
                 !.arg = [here |-> here]])
    /\ frozen' = IF here THEN frozen \cup {rec[i].pid} ELSE frozen
    /\ UNCHANGED <<rec, born, vols, live, killed, keepers>> /\ unchangedHistory

(* The layer is written, or is not: the container it froze is thawed. *)
CommitThaw(c) ==
    LET f == cmd[c]  i == resolve(f.at) IN
    /\ At(c, "diff")
    /\ frozen' = IF f.arg.here /\ i # NoId /\ effective_status(rec[i]) = "running"
                 THEN frozen \ {rec[i].pid} ELSE frozen
    /\ Return(c)
    /\ UNCHANGED <<rec, born, vols, issued, live, killed, keepers>> /\ unchangedHistory

WaitIssue(c, ref) ==
    /\ MayIssue(c) /\ resolve(ref) # NoId
    /\ Issue(c, [NoCmd EXCEPT !.op = "wait", !.pc = "waiting", !.id = resolve(ref)])
    /\ UNCHANGED <<rec, born, vols>> /\ unchangedProcs /\ unchangedHistory

(* Fault: the exit code is read before the keeper has written it. *)
WaitPollEager(c) ==
    LET f == cmd[c] IN
    /\ At(c, "waiting")
    /\ Exists(f.id) => effective_status(rec[f.id]) = "stopped"
    /\ IF Exists(f.id) THEN cmd' = [cmd EXCEPT ![c].pc = "answer", ![c].mem = rec[f.id]]
       ELSE Return(c)
    /\ UNCHANGED <<rec, born, vols, issued>> /\ unchangedProcs /\ unchangedHistory

(* A status the poll is after; the record may be removed under it, which is an error. *)
WaitPoll(c) ==
    LET f == cmd[c] IN
    /\ At(c, "waiting")
    /\ Exists(f.id) => effective_status(rec[f.id]) = "stopped"
    /\ IF Exists(f.id) THEN cmd' = [cmd EXCEPT ![c].pc = "keeper", ![c].mem = rec[f.id]]
       ELSE Return(c)
    /\ UNCHANGED <<rec, born, vols, issued>> /\ unchangedProcs /\ unchangedHistory

(* wait_for_and_read_exit_code. *)
WaitAnswer(c) ==
    LET f == cmd[c] IN
    /\ At(c, "answer")
    /\ cmd' = [cmd EXCEPT ![c].answer = IF Exists(f.id) THEN rec[f.id].exit ELSE NoExit,
                          ![c].pc = "answered"]
    /\ UNCHANGED <<rec, born, vols, issued>> /\ unchangedProcs /\ unchangedHistory

Answered(c) ==
    /\ At(c, "answered")
    /\ Return(c)
    /\ UNCHANGED <<rec, born, vols, issued>> /\ unchangedProcs /\ unchangedHistory

AttachIssue(c, ref) ==
    /\ MayIssue(c) /\ resolve(ref) # NoId
    /\ effective_status(rec[resolve(ref)]) = "running"
    /\ Issue(c, [NoCmd EXCEPT !.op = "attach", !.pc = "attached", !.id = resolve(ref)])
    /\ UNCHANGED <<rec, born, vols>> /\ unchangedProcs /\ unchangedHistory

-----------------------------------------------------------------------------
(* volume create, rm, rename and prune. *)

(* Fault: only running containers count. *)
running_using_volume(v) ==
    {i \in DOMAIN rec : effective_status(rec[i]) = "running" /\ v \in rec[i].mounts}

(* containers_using_volume looks into the config.json of every container. *)
containers_using_volume(v) == {i \in DOMAIN rec : rec[i].bundle /\ v \in rec[i].mounts}

VolumeCreate(c, v) ==
    /\ MayIssue(c) /\ v \notin vols
    /\ vols' = vols \cup {v} /\ issued' = issued + 1
    /\ UNCHANGED <<rec, born, cmd>> /\ unchangedProcs /\ unchangedHistory

VolumeRm(c, v, force) ==
    /\ MayIssue(c) /\ v \in vols
    /\ containers_using_volume(v) = {} \/ force
    /\ vols' = vols \ {v} /\ issued' = issued + 1
    /\ forced' = IF force THEN forced \cup {v} ELSE forced
    /\ UNCHANGED <<rec, born, cmd, crashes, wanted, paused, lost, astray>> /\ unchangedProcs

VolumeRename(c, v, w) ==
    /\ MayIssue(c) /\ v \in vols /\ w \notin vols
    /\ containers_using_volume(v) = {}
    /\ vols' = (vols \ {v}) \cup {w} /\ issued' = issued + 1
    /\ UNCHANGED <<rec, born, cmd>> /\ unchangedProcs /\ unchangedHistory

VolumePrune(c) ==
    /\ MayIssue(c)
    /\ vols' = {v \in vols : containers_using_volume(v) # {}} /\ issued' = issued + 1
    /\ UNCHANGED <<rec, born, cmd>> /\ unchangedProcs /\ unchangedHistory

-----------------------------------------------------------------------------
(* A container's process ends, and the machine goes down. *)

ProcessExits(k) ==
    /\ k \in live
    /\ k \notin frozen \/ k \in killed
    /\ live' = live \ {k} /\ killed' = killed \ {k} /\ frozen' = frozen \ {k}
    /\ paused' = paused \ {k}
    /\ UNCHANGED <<rec, born, keepers, vols, cmd, issued, crashes, wanted, lost, astray, forced>>

Crash ==
    /\ crashes < MaxCrashes /\ crashes' = crashes + 1
    /\ issued < MaxCommands /\ issued' = issued + 1    \* a crash takes the place of a command
    /\ live' = {} /\ killed' = {} /\ frozen' = {} /\ paused' = {}
    /\ keepers' = [k \in DOMAIN keepers |->
           IF KeeperRuns(k) THEN [keepers[k] EXCEPT !.pc = "failed", !.mem = <<>>] ELSE keepers[k]]
    /\ cmd' = [c \in Clients |-> NoCmd]
    /\ UNCHANGED <<rec, born, vols, wanted, lost, astray, forced>>

Init ==
    /\ rec = <<>> /\ born = 0 /\ live = {} /\ killed = {} /\ frozen = {} /\ keepers = <<>>
    /\ vols = {} /\ cmd = [c \in Clients |-> NoCmd] /\ issued = 0 /\ crashes = 0
    /\ wanted = {} /\ paused = {} /\ lost = {} /\ astray = {} /\ forced = {}

CloneInputs == [name : {NoName}, destroy : BOOLEAN, force : BOOLEAN, run : BOOLEAN]

Commands(c) ==
    \/ \E op \in {"run", "create"}, a \in RunInputs : RunIssue(c, op, a)
    \/ \E sel \in Selections :
        \/ StopIssue(c, sel) \/ RestartIssue(c, sel) \/ CleanupIssue(c, sel)
        \/ \E force, time \in BOOLEAN : RmIssue(c, sel, force, time)
        \/ \E sigkill \in BOOLEAN : KillIssue(c, sel, sigkill)
        \/ \E freeze \in BOOLEAN : PauseIssue(c, sel, freeze)
    \/ (\E sel \in Selections : PruneIssue(c, sel.filter)) \/ ResetIssue(c) \/ VolumePrune(c)
    \/ \E ref \in Refs :
        \/ \E attach \in BOOLEAN : StartIssue(c, ref, attach)
        \/ \E a \in CloneInputs : CloneIssue(c, ref, a)
        \/ \E name \in Names : RenameIssue(c, ref, name)
        \/ \E resources \in BOOLEAN : UpdateIssue(c, ref, resources)
        \/ \E pause \in BOOLEAN : CommitIssue(c, ref, pause)
        \/ WaitIssue(c, ref) \/ AttachIssue(c, ref)
    \/ \E v \in Volumes :
        \/ VolumeCreate(c, v)
        \/ \E force \in BOOLEAN : VolumeRm(c, v, force)
        \/ \E w \in Volumes : VolumeRename(c, v, w)

Steps(c) ==
    \/ RunName(c) \/ CreateRecord(c) \/ IdsExhausted(c) \/ PrepareBundle(c) \/ PrepareFails(c)
    \/ CreateDone(c) \/ RunAnnotate(c) \/ LaunchFork(c) \/ ForkFails(c) \/ Confirm(c)
    \/ Detached(c) \/ StopLoad(c) \/ StopSignal(c) \/ StopGrace(c) \/ StopDying(c)
    \/ AwaitKeeper(c) \/ Stopped(c) \/ RemoveLoad(c) \/ RemoveKill(c) \/ RemoveUnlink(c)
    \/ Removed(c) \/ StartCheck(c) \/ RestartSettle(c) \/ StartReload(c) \/ StartWrite(c)
    \/ Restarted(c) \/ RestartLoad(c) \/ RestartSuppress(c) \/ RestartReread(c) \/ RestartRestore(c)
    \/ CloneRecord(c) \/ CloneBundle(c) \/ Cloned(c) \/ ChangeWrite(c) \/ CommitThaw(c)
    \/ WaitPoll(c) \/ WaitAnswer(c) \/ Answered(c)

Keeper(k) ==
    \/ KeeperSpawns(k) \/ KeeperAborts(k) \/ KeeperFails(k) \/ KeeperRecords(k)
    \/ KeeperReloads(k) \/ KeeperRemoves(k) \/ KeeperStops(k) \/ KeeperWrites(k)

Next ==
    \/ \E c \in Clients : Commands(c) \/ Steps(c)
    \/ \E k \in Pids : Keeper(k) \/ ProcessExits(k)
    \/ Crash

Spec == Init /\ [][Next]_vars

(* The host schedules the keepers; nothing makes a command go on, or a container end. *)
FairSpec == Spec /\ \A k \in Pids : WF_vars(Keeper(k))

-----------------------------------------------------------------------------
(* Properties. *)

(* A container has at most one process: start and restart wait until the keeper of the
   last run is through with the record before they launch again. *)
OneProcess ==
    \A i \in Ids : Cardinality({k \in live : keepers[k].id = i}) <= 1

(* No process of a removed container runs on: rm --force, run --replace and system
   reset kill it before they remove its record. *)
NoOrphan == \A k \in live : Exists(keepers[k].id)

(* A container made with --rm still removes itself after any number of restarts: the
   annotation restart takes out is put back.  The exceptions are a record written back
   over a newer one, and a restart whose stop no longer found the container under its
   name, which puts the annotation back before the keeper writes. *)
AutoRemoveKept ==
    \/ crashes > 0
    \/ \A i \in (wanted \cap DOMAIN rec) \ (lost \cup astray) :
        rec[i].rm \/ \E c \in Clients : cmd[c].op = "restart" /\ cmd[c].own = i

(* wait answers with the exit code of the run it saw the end of, never of an earlier
   one.  The exceptions are a record a command wrote back over the keeper's, and a
   crash. *)
WaitTruth ==
    \A c \in Clients :
        At(c, "answered") /\ Exists(cmd[c].id) /\ cmd[c].id \notin lost /\ crashes = 0
            => cmd[c].answer >= cmd[c].mem.pid

(* A volume a container mounts is there unless it was removed by force: rm, rename and
   prune look into every config.json. *)
MountedVolumesExist == \A i \in DOMAIN rec : rec[i].mounts \subseteq vols \cup forced

(* The end of a container's process reaches its record, unless a command wrote the
   record back over it or the machine went down. *)
Unreaped(k) == k \in DOMAIN keepers /\ keepers[k].pc = "reload" /\ ~Alive(k)
Reached(k) ==
    k \in DOMAIN keepers =>
        LET i == keepers[k].id IN
        crashes = 0 /\ i \notin lost /\ Exists(i) => ~(rec[i].status = "running" /\ rec[i].pid = k)
ExitRecorded == \A k \in Pids : Unreaped(k) ~> Reached(k)

(* Names are unique: "multiple containers are named ... (this should not happen)". *)
UniqueNames == \A n \in Names : Cardinality(Named(rec, n)) <= 1

(* A clone has "a fresh, independent rootfs". *)
OwnRootfs == \A i \in DOMAIN rec : rec[i].upper \in {0, i}

(* Only unpause, and the signals of kill, stop and rm, wake a paused container. *)
PauseKept == paused \subseteq frozen
=============================================================================
