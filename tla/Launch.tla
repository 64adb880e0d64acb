------------------------------- MODULE Launch -------------------------------
(***************************************************************************)
(* One launch of a container process: run_reporting_pid and create of      *)
(* crates/oci-runtime-core/src/launch.rs.  The runtime forks a child, the  *)
(* child sets up its namespaces and, for a new pid namespace, forks the    *)
(* container's pid 1 (init) and relays its exit status.  Three pipes       *)
(* synchronise them: the child reports init's pid on one, waits on another *)
(* until the runtime has moved it into its systemd scope, and init waits   *)
(* on the third until the prestart and createRuntime hooks have run.       *)
(*                                                                         *)
(* A pipe is the processes that hold its write end open and the bytes      *)
(* unread in it.  fork duplicates every descriptor the forking process     *)
(* holds; exit and, as all of them are close-on-exec, exec close them.     *)
(***************************************************************************)
EXTENDS Naturals

VARIABLES
    opts,    \* what is launched, and how
    par,     \* where the runtime is in run_reporting_pid or create
    child,   \* where its direct child is
    init,    \* where the container's own process is
    ready,   \* the pipe of CgroupSetup::Systemd
    hooks,   \* the pipe of the pre-pivot hooks
    pid,     \* the pipe of the container's pid
    scoped,  \* what create_scope returned: a scope with the child in it, or an error
    hooked   \* whether the pre-pivot hooks have all succeeded

handshakeVars == <<opts, par, child, init, ready, hooks, pid, scoped, hooked>>

Options == {o \in [mode : {"run", "create"}, systemd : BOOLEAN, log : BOOLEAN,
                   hooks : BOOLEAN, newpid : BOOLEAN] :
              o.mode = "create" => ~o.systemd /\ ~o.log}

ParStates == {"scope", "unified", "ready", "log", "pid", "hooks", "reap", "report",
              "wait", "ok", "error", "abandoned", "dead"}
ChildStates == {"limits", "ready", "unshare", "fork", "report", "relay", "init", "gone"}
InitStates == {"unborn", "hooks", "setup", "fifo", "running", "gone"}
Pipes == [writers : SUBSET {"par", "child", "init"}, bytes : 0..1]

TypeOK ==
    /\ opts \in Options
    /\ par \in ParStates /\ child \in ChildStates /\ init \in InitStates
    /\ ready \in Pipes /\ hooks \in Pipes /\ pid \in Pipes
    /\ scoped \in {"no", "scope", "error"} /\ hooked \in BOOLEAN

(* Just after process::fork: the runtime still holds the write ends it     *)
(* will write to, the child a copy of each, and of the pid pipe only the   *)
(* child has the write end (it went with the ChildSetup).                  *)
HandshakeInit ==
    /\ opts \in Options
    /\ par = IF opts.systemd THEN "scope" ELSE "log"
    /\ child = "limits"
    /\ init = "unborn"
    /\ ready = [writers |-> IF opts.systemd THEN {"par", "child"} ELSE {}, bytes |-> 0]
    /\ hooks = [writers |-> IF opts.hooks THEN {"par", "child"} ELSE {}, bytes |-> 0]
    /\ pid = [writers |-> {"child"}, bytes |-> 0]
    /\ scoped = "no"
    /\ hooked = FALSE

-----------------------------------------------------------------------------
(* The process that is, or becomes, the container's own.                   *)
InitProc == IF opts.newpid THEN "init" ELSE "child"

Without(pipe, ps) == [pipe EXCEPT !.writers = @ \ ps]
Written(pipe) == [pipe EXCEPT !.bytes = 1]

(* read(2) returns: a byte, or end of file.                                *)
Readable(pipe) == pipe.bytes > 0 \/ pipe.writers = {}

(* The processes ps exit or exec, or drop what they hold.                  *)
Close(ps) ==
    /\ ready' = Without(ready, ps)
    /\ hooks' = Without(hooks, ps)
    /\ pid' = Without(pid, ps)

-----------------------------------------------------------------------------
(* The runtime.                                                            *)

(* systemd_cgroup::create_scope: only a scope gets the unified values, and *)
(* a failure is tolerated.                                                 *)
CreateScope ==
    /\ par = "scope"
    /\ \/ scoped' = "scope" /\ par' \in {"unified", "ready"}
       \/ scoped' = "error" /\ par' = "ready"
    /\ UNCHANGED <<opts, child, init, ready, hooks, pid, hooked>>

ApplyUnified ==
    /\ par = "unified"
    /\ par' = "ready"
    /\ UNCHANGED <<opts, child, init, ready, hooks, pid, scoped, hooked>>

(* The runtime goes from step l to an error and drops its descriptors.     *)
ReturnError(l) ==
    /\ par = l
    /\ par' = "error"
    /\ Close({"par"})
    /\ UNCHANGED <<opts, child, init, scoped, hooked>>

(* apply_unified(..)? and spawn_log_tee_thread(..)? return at once, before *)
(* anybody knows the container's pid.                                      *)
Abandon(l) ==
    /\ par = l
    /\ par' = "abandoned"
    /\ Close({"par"})
    /\ UNCHANGED <<opts, child, init, scoped, hooked>>

UnifiedFails == Abandon("unified")
LogFails == opts.log /\ Abandon("log")

(* Mutant: the runtime waits for the pid before it signals the child.      *)
SignalReadyAfterPid ==
    /\ par = "ready"
    /\ pid.bytes = 1
    /\ ready' = Written(ready)
    /\ par' = "log"
    /\ UNCHANGED <<opts, child, init, hooks, pid, scoped, hooked>>

SignalReady ==
    /\ par = "ready"
    /\ ready' = Written(ready)
    /\ par' = "log"
    /\ UNCHANGED <<opts, child, init, hooks, pid, scoped, hooked>>

SpawnLogTee ==
    /\ par = "log"
    /\ par' = "pid"
    /\ UNCHANGED <<opts, child, init, ready, hooks, pid, scoped, hooked>>

(* read_container_pid.                                                     *)
ReadContainerPid ==
    /\ par = "pid"
    /\ pid.bytes = 1
    /\ pid' = [pid EXCEPT !.bytes = 0]
    /\ par' = IF opts.hooks THEN "hooks" ELSE "report"
    /\ UNCHANGED <<opts, child, init, ready, hooks, scoped, hooked>>

PidEndOfFile ==
    /\ pid.bytes = 0 /\ pid.writers = {}
    /\ ReturnError("pid")

(* run_pre_pivot_hooks, then the go byte ...                               *)
HooksSucceed ==
    /\ par = "hooks"
    /\ hooked' = TRUE
    /\ hooks' = Written(hooks)
    /\ par' = "report"
    /\ UNCHANGED <<opts, child, init, ready, pid, scoped>>

(* Mutant: a failed hook returns at once, and nobody kills the container.  *)
HooksFailEarly == ReturnError("hooks")

(* ... or SIGKILL to the container, whose relay is then reaped.            *)
HooksFail ==
    /\ par = "hooks"
    /\ par' = "reap"
    /\ init' = "gone"
    /\ child' = IF opts.newpid THEN child ELSE "gone"
    /\ Close({InitProc})
    /\ UNCHANGED <<opts, scoped, hooked>>

Reap ==
    /\ child = "gone"
    /\ ReturnError("reap")

(* on_pid(container_pid): a create returns it, a run waits for the child.  *)
OnPid ==
    /\ par = "report"
    /\ par' = IF opts.mode = "run" THEN "wait" ELSE "ok"
    /\ IF opts.mode = "run" THEN UNCHANGED <<ready, hooks, pid>> ELSE Close({"par"})
    /\ UNCHANGED <<opts, child, init, scoped, hooked>>

WaitChild ==
    /\ par = "wait"
    /\ child = "gone"
    /\ par' = "ok"
    /\ Close({"par"})
    /\ UNCHANGED <<opts, child, init, scoped, hooked>>

(* The runtime itself is killed.                                           *)
Dies ==
    /\ par \notin {"ok", "error", "abandoned", "dead"}
    /\ par' = "dead"
    /\ Close({"par"})
    /\ UNCHANGED <<opts, child, init, scoped, hooked>>

-----------------------------------------------------------------------------
(* The direct child: ChildSetup::run.                                      *)
ChildStep(from, to) ==
    /\ child = from
    /\ child' = to
    /\ UNCHANGED <<opts, par, init, ready, hooks, pid, scoped, hooked>>

(* Mutant: the child does not wait for its scope.                          *)
LimitsNoWait == ChildStep("limits", "unshare")

(* Resource limits, and the cgroup unless systemd makes it.                *)
Limits == ChildStep("limits", IF opts.systemd THEN "ready" ELSE "unshare")

(* Waiting for the scope; what was read does not matter.                   *)
AwaitReady == Readable(ready) /\ ChildStep("ready", "unshare")

Unshare == ChildStep("unshare", IF opts.newpid THEN "fork" ELSE "report")

(* Mutant: child and container close the write end of the hooks pipe, as   *)
(* one would to have the end of file seen.                                 *)
ForkInitClosing ==
    /\ child = "fork"
    /\ child' = "report"
    /\ init' = "hooks"
    /\ hooks' = Without(hooks, {"child", "init"})
    /\ ready' = [ready EXCEPT !.writers = @ \cup (IF "child" \in @ THEN {"init"} ELSE {})]
    /\ pid' = [pid EXCEPT !.writers = @ \cup {"init"}]
    /\ UNCHANGED <<opts, par, scoped, hooked>>

ForkInit ==
    /\ child = "fork"
    /\ child' = "report"
    /\ init' = "hooks"
    /\ ready' = [ready EXCEPT !.writers = @ \cup (IF "child" \in @ THEN {"init"} ELSE {})]
    /\ hooks' = [hooks EXCEPT !.writers = @ \cup (IF "child" \in @ THEN {"init"} ELSE {})]
    /\ pid' = [pid EXCEPT !.writers = @ \cup {"init"}]
    /\ UNCHANGED <<opts, par, scoped, hooked>>

(* report_container_pid: the write is lost if nobody can read it.          *)
ReportContainerPid ==
    /\ child = "report"
    /\ child' = IF opts.newpid THEN "relay" ELSE "init"
    /\ init' = IF opts.newpid THEN init ELSE "hooks"
    /\ pid' = IF par \in {"error", "abandoned", "dead"} THEN pid ELSE Written(pid)
    /\ UNCHANGED <<opts, par, ready, hooks, scoped, hooked>>

(* The relay exits with init's status.                                     *)
Relay ==
    /\ child = "relay"
    /\ init = "gone"
    /\ child' = "gone"
    /\ Close({"child"})
    /\ UNCHANGED <<opts, par, init, scoped, hooked>>

(* A step of the setup fails.                                              *)
ChildFails ==
    /\ child \in {"limits", "ready", "unshare", "fork"}
    /\ child' = "gone"
    /\ Close({"child"})
    /\ UNCHANGED <<opts, par, init, scoped, hooked>>

-----------------------------------------------------------------------------
(* The container's own process: mount_pivot_and_exec.                      *)
InitStep(from, to) ==
    /\ init = from
    /\ init' = to
    /\ UNCHANGED <<opts, par, child, ready, hooks, pid, scoped, hooked>>

AwaitHooks == (opts.hooks => Readable(hooks)) /\ InitStep("hooks", "setup")

(* Mounts, pivot_root, seccomp, identity; a create then blocks on the      *)
(* exec fifo.                                                              *)
Setup == opts.mode = "create" /\ InitStep("setup", "fifo")

Exec ==
    /\ IF opts.mode = "create" THEN init = "fifo" ELSE init = "setup"
    /\ init' = "running"
    /\ Close({InitProc})
    /\ UNCHANGED <<opts, par, child, scoped, hooked>>

(* A step fails, the command ends, or somebody kills it.                   *)
Exit ==
    /\ init \in {"setup", "fifo", "running"}
    /\ init' = "gone"
    /\ child' = IF opts.newpid THEN child ELSE "gone"
    /\ Close({InitProc})
    /\ UNCHANGED <<opts, par, scoped, hooked>>

-----------------------------------------------------------------------------
Runtime ==
    \/ CreateScope \/ ApplyUnified \/ UnifiedFails \/ SignalReady \/ SpawnLogTee \/ LogFails
    \/ ReadContainerPid \/ PidEndOfFile \/ HooksSucceed \/ HooksFail \/ Reap \/ OnPid \/ WaitChild

Child == Limits \/ AwaitReady \/ Unshare \/ ForkInit \/ ReportContainerPid \/ Relay

Container == AwaitHooks \/ Setup \/ (opts.mode = "run" /\ Exec)

HandshakeNext == Runtime \/ Dies \/ Child \/ ChildFails \/ Container \/ (opts.mode = "create" /\ Exec) \/ Exit

HandshakeSpec == HandshakeInit /\ [][HandshakeNext]_handshakeVars

(* Processes are scheduled, and hooks end (they have timeouts or are the   *)
(* user's own).  Nothing makes a command end or a start come.              *)
Fairness == WF_handshakeVars(Runtime) /\ WF_handshakeVars(Child) /\ WF_handshakeVars(Container)

HandshakeFairSpec == HandshakeSpec /\ Fairness

-----------------------------------------------------------------------------
(* No mount, no pivot_root and no user command before the prestart and     *)
(* createRuntime hooks have all succeeded, also when the runtime dies      *)
(* while the container's process waits for them: the read that would then  *)
(* see end of file, and go on, never does.                                 *)
HooksBeforePivot == opts.hooks /\ init \in {"setup", "fifo", "running"} => hooked

(* The container's process exists only after create_scope has returned: it *)
(* is born in the scope of its parent, and outside one only where systemd  *)
(* has refused it.                                                         *)
ScopeBeforeInit == opts.systemd /\ init # "unborn" => scoped # "no"

(* A launch that fails once it waits for the container's pid leaves no     *)
(* process of the container: it failed because they are gone, or has       *)
(* killed pid 1 and reaped its relay.                                      *)
ErrorLeavesNothing == par = "error" => init \in {"unborn", "gone"} /\ child = "gone"

(* The runtime does not deadlock with its child: the launch fails, returns *)
(* or reports the container's pid.                                         *)
LaunchSettles == <>(par \in {"wait", "ok", "error", "abandoned", "dead"})

(* A child waiting for its scope is released once the launch has returned  *)
(* early, by the end of file on the pipe the runtime has dropped.          *)
ChildUnblocks == (par = "abandoned" /\ child = "ready") ~> (child # "ready")

=============================================================================
