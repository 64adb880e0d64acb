---------------------------- MODULE CommandLine ----------------------------
(***************************************************************************)
(* The command line of ociman (bin/ociman/src/main.rs): which options and  *)
(* operands each command takes, and what main does with them before a      *)
(* command's own function runs: which function it calls, which options it  *)
(* never passes on, and how it decides between an operand and --latest.    *)
(*                                                                         *)
(* Most commands exist twice, at the top level and in the group container  *)
(* or image, with two declarations and two arms of main: the tables below  *)
(* keep both.  An option is its long name, an operand the name of its      *)
(* field; a line says which of its options are typed by their letter.      *)
(***************************************************************************)
EXTENDS Naturals, FiniteSets

(* The tables of several kinds of commands in one. *)
Joined(tables) ==
    [name \in UNION {DOMAIN t : t \in tables} |->
        (CHOOSE t \in tables : name \in DOMAIN t)[name]]

(* RunArgs: what to run and the name it gets, memory and cpu. *)
RunNaming ==
    {"image", "args", "name", "replace", "memory", "memory-swap", "memory-reservation",
     "shm-size", "cpus"}

(* Cpu, block and cgroup. *)
RunCpu ==
    {"pids-limit", "cpuset-cpus", "cpuset-mems", "cpu-period", "cpu-quota",
     "cpu-shares", "cpu-rt-period", "cpu-rt-runtime", "blkio-weight", "cgroup-parent",
     "ulimit"}

(* Security and kernel settings. *)
RunSecurity ==
    {"security-opt", "cap-add", "cap-drop", "umask", "oom-score-adj", "sysctl",
     "cgroup-conf"}

(* Privileges. *)
RunPrivilege == {"privileged", "read-only"}

(* Environment, host names and resolver. *)
RunEnvironment ==
    {"env", "env-file", "env-host", "unsetenv", "unsetenv-all", "hostname", "add-host",
     "dns", "dns-search", "dns-option"}

(* How it is stopped and asked for its health, labels. *)
RunHealth ==
    {"stop-signal", "stop-timeout", "health-cmd", "health-interval", "health-retries",
     "health-timeout", "health-start-period", "no-healthcheck", "label", "label-file"}

(* User, entry point, mounts. *)
RunUser ==
    {"user", "group-add", "workdir", "entrypoint", "volume", "tmpfs"}

(* The pull. *)
RunPull == {"tls-verify", "pull", "quiet", "platform", "cidfile"}

RunOptions ==
    RunNaming \cup RunCpu \cup RunSecurity \cup RunPrivilege
    \cup RunEnvironment \cup RunHealth \cup RunUser \cup RunPull

(* Build: the inputs and what the image is called. *)
BuildInputs ==
    {"context", "file", "tag", "build-arg", "build-arg-file", "target", "no-cache",
     "tls-verify", "ignorefile", "iidfile", "label", "annotation"}

(* The network and the shape of the image. *)
BuildHosts ==
    {"pull", "add-host", "dns", "dns-search", "dns-option", "squash", "squash-all",
     "platform", "unsetenv", "unsetlabel"}

(* Limits of the steps. *)
BuildLimits ==
    {"unsetannotation", "ulimit", "shm-size", "memory", "memory-swap", "http-proxy"}

BuildCpu ==
    {"cpuset-cpus", "cpuset-mems", "cpu-period", "cpu-quota", "cpu-shares"}

(* Files, history and output. *)
BuildOutput ==
    {"no-hosts", "no-hostname", "omit-history", "cgroup-parent", "quiet", "timestamp"}

BuildOptions == BuildInputs \cup BuildHosts \cup BuildLimits \cup BuildCpu \cup BuildOutput

(* Ps: which containers. *)
PsSelection == {"all", "quiet", "filter", "last", "latest"}

(* And how they are shown. *)
PsLayout ==
    {"no-trunc", "noheading", "format", "size", "sort", "sync"}

PsOptions == PsSelection \cup PsLayout

(* Rm. *)
RmSelection == {"ids", "force", "all", "cidfile", "ignore"}

RmMeans == {"time", "filter", "latest", "depend", "volumes"}

RmOptions == RmSelection \cup RmMeans

(* Commit. *)
CommitNaming ==
    {"container", "image", "author", "message", "pause", "change"}

CommitForm ==
    {"squash", "iidfile", "quiet", "format", "include-volumes"}

CommitOptions == CommitNaming \cup CommitForm

(* Update. *)
UpdateResources ==
    {"id", "latest", "memory", "memory-swap", "memory-reservation", "cpus",
     "pids-limit", "cpuset-cpus", "cpuset-mems", "cpu-period", "cpu-quota",
     "cpu-shares", "cpu-rt-period", "cpu-rt-runtime", "blkio-weight"}

UpdateHealth ==
    {"health-cmd", "health-interval", "health-retries", "health-timeout",
     "health-start-period", "no-healthcheck"}

UpdateOptions == UpdateResources \cup UpdateHealth

(* Exec. *)
ExecTarget ==
    {"positional", "latest", "cidfile", "user", "workdir", "env"}

ExecMeans ==
    {"env-file", "interactive", "detach", "preserve-fds", "privileged"}

ExecOptions == ExecTarget \cup ExecMeans

PullOptions == {"references", "tls-verify", "platform", "quiet"}

PushOptions == {"reference", "tls-verify", "digestfile", "quiet"}

SearchOptions == {"term", "list-tags", "tls-verify", "limit"}

LoginOptions ==
    {"registry", "username", "password", "password-stdin", "tls-verify", "get-login"}

LogoutOptions == {"registry", "all"}

ImagesOptions == {"quiet", "filter", "format", "sort"}

RmiOptions == {"references", "force", "all", "ignore"}

TagOptions == {"source", "targets"}

UntagOptions == {"image", "references"}

HistoryOptions == {"reference", "format", "no-trunc"}

PruneOptions == {"all", "force", "filter"}

InspectOptions == {"reference", "latest", "format", "size", "type"}

RunAllOptions == RunOptions \cup {"rm", "detach", "interactive", "preserve-fds"}

CreateOptions == RunOptions \cup {"rm", "interactive"}

InitOptions == {"containers", "all", "latest"}

StartOptions == {"id", "latest", "attach"}

AttachOptions == {"id", "latest", "sig-proxy"}

RestartOptions ==
    {"ids", "time", "all", "cidfile", "filter", "latest"}

CpOptions == {"src", "dest", "overwrite", "archive"}

DiffOptions == {"id", "latest", "format"}

MountOptions == {"containers", "all", "latest"}

UnmountOptions == {"containers", "all", "latest", "force"}

ExportOptions == {"id", "output"}

StopOptions ==
    {"ids", "time", "signal", "all", "cidfile", "ignore", "filter", "latest"}

KillOptions == {"ids", "signal", "all", "cidfile", "latest"}

PauseOptions == {"ids", "all", "cidfile", "filter", "latest"}

UnpauseOptions == {"ids", "all", "cidfile", "filter", "latest"}

StatsOptions ==
    {"id", "latest", "all", "no-stream", "interval", "no-reset", "format", "no-trunc"}

WaitOptions ==
    {"ids", "latest", "interval", "condition", "ignore", "exit-first-match"}

RenameOptions == {"id", "name"}

TopOptions == {"positional", "latest"}

PortOptions == {"positional", "all", "latest"}

LogsOptions == {"id", "latest", "follow", "tail"}

SaveOptions == {"reference", "output", "format", "quiet"}

LoadOptions == {"input", "quiet"}

ImportOptions ==
    {"path", "reference", "message", "change", "os", "arch", "quiet"}

VersionOptions == {"format"}

InfoOptions == {"format"}

ContainerUpdateOptions ==
    {"id", "latest", "memory", "memory-swap", "memory-reservation", "cpus",
     "pids-limit", "cpuset-cpus", "cpuset-mems", "cpu-period", "cpu-quota",
     "cpu-shares", "cpu-rt-period", "cpu-rt-runtime", "blkio-weight", "health-cmd",
     "health-interval", "health-retries", "health-timeout", "health-start-period",
     "no-healthcheck"}

(* The top level. *)
Top ==
    [pull |-> PullOptions, push |-> PushOptions, search |-> SearchOptions,
     login |-> LoginOptions, logout |-> LogoutOptions, build |-> BuildOptions,
     images |-> ImagesOptions, rmi |-> RmiOptions, tag |-> TagOptions,
     untag |-> UntagOptions, history |-> HistoryOptions, prune |-> PruneOptions,
     inspect |-> InspectOptions, run |-> RunAllOptions, create |-> CreateOptions,
     ps |-> PsOptions, init |-> InitOptions, start |-> StartOptions,
     attach |-> AttachOptions, restart |-> RestartOptions, rm |-> RmOptions,
     cp |-> CpOptions, diff |-> DiffOptions, mount |-> MountOptions,
     unmount |-> UnmountOptions, export |-> ExportOptions, commit |-> CommitOptions,
     stop |-> StopOptions, kill |-> KillOptions, pause |-> PauseOptions,
     unpause |-> UnpauseOptions, update |-> UpdateOptions, stats |-> StatsOptions,
     wait |-> WaitOptions, rename |-> RenameOptions, top |-> TopOptions,
     port |-> PortOptions, exec |-> ExecOptions, logs |-> LogsOptions,
     save |-> SaveOptions, load |-> LoadOptions, import |-> ImportOptions,
     version |-> VersionOptions, info |-> InfoOptions]

(* system and healthcheck. *)
SystemGroup ==
    [df |-> {"verbose", "format"},
     reset |-> {"force"},
     prune |-> {"all", "force", "filter"},
     info |-> {"format"}]

HealthcheckGroup == [run |-> {"id", "ignore-result"}]

(* volume. *)
VolumeLs ==
    [create |-> {"name", "ignore", "label"},
     ls |-> {"format", "quiet", "filter"}]

VolumeChanges ==
    [inspect |-> {"name", "format"},
     rm |-> {"name", "force"},
     rename |-> {"name", "new-name"},
     prune |-> {"force", "filter"},
     exists |-> {"name"}]

VolumeData ==
    [export |-> {"name", "output"},
     import |-> {"name", "source"},
     mount |-> {"name"},
     unmount |-> {"name"},
     reload |-> {}]

VolumeGroup == Joined({VolumeLs, VolumeChanges, VolumeData})

(* container: most of its commands are commands of the top level too. *)
ContainerList ==
    [exists |-> {"name", "external"},
     list |-> {"all", "quiet", "filter", "last", "latest", "no-trunc", "noheading",
         "format", "size", "sort", "sync"},
     prune |-> {"force", "filter"}]

ContainerClone ==
    [clone |-> {"container", "name", "image", "destroy", "force", "run"}]

ContainerCleanup ==
    [cleanup |-> {"containers", "all", "latest", "rm", "rmi"},
     inspect |-> {"reference", "latest", "format", "size"}]

ContainerStop ==
    [rm |-> {"ids", "force", "all", "cidfile", "ignore", "time", "filter", "latest",
         "depend", "volumes"},
     init |-> {"containers", "all", "latest"},
     stop |-> {"ids", "time", "signal", "all", "cidfile", "ignore", "filter", "latest"},
     start |-> {"id", "latest", "attach"}]

ContainerSignal ==
    [kill |-> {"ids", "signal", "all", "cidfile", "latest"},
     pause |-> {"ids", "all", "cidfile", "filter", "latest"},
     unpause |-> {"ids", "all", "cidfile", "filter", "latest"},
     restart |-> {"ids", "time", "all", "cidfile", "filter", "latest"}]

ContainerLook ==
    [rename |-> {"id", "name"},
     wait |-> {"ids", "latest", "interval", "condition", "ignore", "exit-first-match"},
     top |-> {"positional", "latest"},
     port |-> {"positional", "all", "latest"}]

ContainerFiles ==
    [logs |-> {"id", "latest", "follow", "tail"},
     diff |-> {"id", "latest", "format"},
     cp |-> {"src", "dest", "overwrite", "archive"},
     commit |-> {"container", "image", "author", "message", "pause", "change", "squash",
         "iidfile", "quiet", "format", "include-volumes"}]

ContainerAttach ==
    [export |-> {"id", "output"},
     stats |-> {"id", "latest", "all", "no-stream", "interval", "no-reset", "format",
         "no-trunc"},
     attach |-> {"id", "latest", "sig-proxy"}]

ContainerExec ==
    [exec |-> {"positional", "latest", "cidfile", "user", "workdir", "env", "env-file",
         "interactive", "detach", "preserve-fds", "privileged"},
     run |-> RunOptions \cup {"rm", "detach", "interactive", "preserve-fds"},
     create |-> RunOptions \cup {"rm", "interactive"}]

ContainerMount ==
    [mount |-> {"containers", "all", "latest"},
     unmount |-> {"containers", "all", "latest", "force"},
     update |-> ContainerUpdateOptions]

ContainerGroup ==
    Joined({ContainerList, ContainerClone, ContainerCleanup, ContainerStop, ContainerSignal,
            ContainerLook, ContainerFiles, ContainerAttach, ContainerExec, ContainerMount})

(* image. *)
ImageTags ==
    [exists |-> {"name"},
     list |-> {"quiet", "filter", "format", "sort"},
     prune |-> {"all", "force", "filter"},
     tag |-> {"source", "targets"},
     untag |-> {"image", "references"},
     history |-> {"reference", "format", "no-trunc"}]

ImageTransfer ==
    [rm |-> {"references", "force", "all", "ignore"},
     pull |-> {"references", "tls-verify", "platform", "quiet"},
     push |-> {"reference", "tls-verify", "digestfile", "quiet"},
     save |-> {"reference", "output", "format", "quiet"},
     load |-> {"input", "quiet"},
     import |-> {"path", "reference", "message", "change", "os", "arch", "quiet"}]

ImageLook ==
    [inspect |-> {"reference", "format"},
     diff |-> {"image", "format"}]

ImageMounts ==
    [mount |-> {"images", "all"},
     unmount |-> {"images", "all", "force"}]

ImageGroup == Joined({ImageTags, ImageTransfer, ImageLook, ImageMounts})

Commands ==
    [top |-> Top, system |-> SystemGroup, healthcheck |-> HealthcheckGroup,
     volume |-> VolumeGroup, container |-> ContainerGroup, image |-> ImageGroup]

(* The options that have a one-letter name too, as each command declares them. *)
RunShorts == {"cpu-shares", "env", "user", "workdir", "volume", "quiet"}

TopShorts ==
    [pull |-> {"quiet"}, push |-> {"quiet"}, search |-> {}, login |-> {"username", "password"},
     logout |-> {}, build |-> {"file", "tag", "memory", "cpu-shares", "quiet"},
     images |-> {"quiet", "filter"}, rmi |-> {"force", "all", "ignore"}, tag |-> {},
     untag |-> {}, history |-> {}, prune |-> {"all", "force"},
     inspect |-> {"latest", "format", "size", "type"},
     run |-> RunShorts \cup {"detach", "interactive"}, create |-> RunShorts \cup {"interactive"},
     ps |-> {"all", "quiet", "filter", "last", "latest", "size"}, init |-> {"all", "latest"},
     start |-> {"latest", "attach"}, attach |-> {"latest"}, restart |-> {"time", "all", "latest"},
     rm |-> {"force", "all", "ignore", "time", "latest", "volumes"}, cp |-> {"archive"},
     diff |-> {"latest"}, mount |-> {"all", "latest"}, unmount |-> {"all", "latest", "force"},
     export |-> {"output"},
     commit |-> {"author", "message", "pause", "change", "squash", "quiet", "format"},
     stop |-> {"time", "signal", "all", "ignore", "latest"}, kill |-> {"signal", "all", "latest"},
     pause |-> {"all", "latest"}, unpause |-> {"all", "latest"},
     update |-> {"latest", "cpu-shares"}, stats |-> {"latest", "all", "interval"},
     wait |-> {"latest", "interval"}, rename |-> {}, top |-> {"latest"},
     port |-> {"all", "latest"},
     exec |-> {"latest", "user", "workdir", "env", "interactive", "detach"},
     logs |-> {"latest", "follow"}, save |-> {"output", "quiet"}, load |-> {"input", "quiet"},
     import |-> {"message", "change", "quiet"}, version |-> {"format"}, info |-> {}]

SystemShorts ==
    [df |-> {"verbose"}, reset |-> {"force"}, prune |-> {"all", "force"}, info |-> {"format"}]

VolumeShorts ==
    [create |-> {"label"}, ls |-> {"quiet"}, inspect |-> {"format"}, rm |-> {"force"},
     rename |-> {}, prune |-> {"force"}, exists |-> {}, export |-> {"output"}, import |-> {},
     mount |-> {}, unmount |-> {}, reload |-> {}]

ContainerShorts ==
    [exists |-> {}, list |-> {"all", "quiet", "filter", "last", "latest", "size"},
     prune |-> {"force"}, clone |-> {"force"}, cleanup |-> {"all", "latest"},
     inspect |-> {"latest", "format", "size"},
     rm |-> {"force", "all", "ignore", "time", "latest", "volumes"}, init |-> {"all", "latest"},
     stop |-> {"time", "signal", "all", "ignore", "latest"}, start |-> {"latest", "attach"},
     kill |-> {"signal", "all", "latest"}, pause |-> {"all", "latest"},
     unpause |-> {"all", "latest"}, restart |-> {"time", "all", "latest"}, rename |-> {},
     wait |-> {"latest", "interval"}, top |-> {"latest"}, port |-> {"all", "latest"},
     logs |-> {"latest", "follow"}, diff |-> {"latest"}, cp |-> {"archive"},
     commit |-> {"author", "message", "pause", "change", "squash", "quiet", "format"},
     export |-> {"output"}, stats |-> {"latest", "all", "interval"}, attach |-> {"latest"},
     exec |-> {"latest", "user", "workdir", "env", "interactive", "detach"},
     run |-> RunShorts \cup {"detach", "interactive"}, create |-> RunShorts \cup {"interactive"},
     mount |-> {"all", "latest"}, unmount |-> {"all", "latest", "force"},
     update |-> {"latest", "cpu-shares"}]

ImageShorts ==
    [exists |-> {}, list |-> {"quiet", "filter"}, prune |-> {"all", "force"}, tag |-> {},
     untag |-> {}, history |-> {}, rm |-> {"force", "all", "ignore"}, pull |-> {"quiet"},
     push |-> {"quiet"}, save |-> {"output", "quiet"}, load |-> {"input", "quiet"},
     import |-> {"message", "change", "quiet"}, inspect |-> {"format"}, diff |-> {},
     mount |-> {"all"}, unmount |-> {"all", "force"}]

Shorts ==
    [top |-> TopShorts, system |-> SystemShorts, healthcheck |-> [run |-> {}],
     volume |-> VolumeShorts, container |-> ContainerShorts, image |-> ImageShorts]

(* The operands clap does not do without. *)
Required ==
    [top |-> [pull |-> {"references"}, push |-> {"reference"}, search |-> {"term"},
              login |-> {"registry"}, tag |-> {"source", "targets"}, untag |-> {"image"},
              history |-> {"reference"}, cp |-> {"src", "dest"}, export |-> {"id"},
              commit |-> {"container"}, rename |-> {"id", "name"}, run |-> {"image"},
              create |-> {"image"}, save |-> {"reference"}, import |-> {"path"}],
     system |-> [none |-> {}],
     healthcheck |-> [run |-> {"id"}],
     volume |-> [inspect |-> {"name"}, rm |-> {"name"}, rename |-> {"name", "new-name"},
                 exists |-> {"name"}, export |-> {"name"}, import |-> {"name", "source"},
                 mount |-> {"name"}, unmount |-> {"name"}],
     container |-> [exists |-> {"name"}, clone |-> {"container"}, cp |-> {"src", "dest"},
                    rename |-> {"id", "name"}, commit |-> {"container"}, export |-> {"id"},
                    run |-> {"image"}, create |-> {"image"}],
     image |-> [exists |-> {"name"}, tag |-> {"source", "targets"}, untag |-> {"image"},
                history |-> {"reference"}, pull |-> {"references"}, push |-> {"reference"},
                save |-> {"reference"}, import |-> {"path"}, inspect |-> {"reference"},
                diff |-> {"image"}]]

-----------------------------------------------------------------------------
(* The arms of main.  An arm names the function it calls, the options it matches with
   _ and so never passes on, the rule by which it finds the container, and the type
   cmd_inspect is given. *)

Arm(handler) == [handler |-> handler, drops |-> {}, rule |-> "handler", type |-> "none"]
Dropping(handler, drops) == [Arm(handler) EXCEPT !.drops = drops]
Finding(handler, rule) == [Arm(handler) EXCEPT !.rule = rule]
Inspecting(type, rule) == [Arm("cmd_inspect") EXCEPT !.rule = rule, !.type = type]

TransferArms ==
    [pull |-> Arm("cmd_pull"), push |-> Arm("cmd_push"), search |-> Arm("cmd_search"),
     login |-> Dropping("cmd_login", {"tls-verify"}), logout |-> Arm("cmd_logout"),
     build |-> Dropping("cmd_build", {"unsetannotation"}), images |-> Arm("cmd_images"),
     rmi |-> Arm("cmd_rmi"), tag |-> Arm("cmd_tag")]

LookArms ==
    [untag |-> Arm("cmd_untag"), history |-> Arm("cmd_history"),
     prune |-> Dropping("cmd_prune", {"force"}), inspect |-> Inspecting("given", "inspect"),
     run |-> Arm("cmd_run"), create |-> Arm("cmd_create"),
     ps |-> Dropping("cmd_ps", {"sync"}), init |-> Arm("cmd_init"),
     start |-> Finding("cmd_start", "either"), attach |-> Finding("cmd_attach", "operand")]

ChangeArms ==
    [restart |-> Arm("cmd_restart"), rm |-> Dropping("cmd_rm", {"depend", "volumes"}),
     cp |-> Arm("cmd_cp"), diff |-> Finding("cmd_diff", "operand"),
     mount |-> Arm("cmd_mount"), unmount |-> Dropping("cmd_unmount", {"force"}),
     export |-> Arm("cmd_export"), commit |-> Dropping("cmd_commit", {"quiet"}),
     stop |-> Arm("cmd_stop"), kill |-> Arm("cmd_kill"), pause |-> Arm("cmd_pause"),
     unpause |-> Arm("cmd_unpause")]

UpdateArms == [update |-> Finding("cmd_update", "either")]

StatsArms ==
    [stats |-> [Finding("cmd_stats", "stats") EXCEPT !.drops = {"no-trunc"}],
     wait |-> Finding("cmd_wait", "either"), rename |-> Arm("cmd_rename"),
     top |-> Finding("cmd_top", "positional"), port |-> Arm("cmd_port")]

ExecArms ==
    [exec |-> Finding("cmd_exec", "exec"), logs |-> Finding("cmd_logs", "either"),
     save |-> Arm("cmd_save"), load |-> Arm("cmd_load"), import |-> Arm("cmd_import"),
     version |-> Arm("cmd_version"), info |-> Arm("cmd_info")]

TopArms ==
    Joined({TransferArms, LookArms, ChangeArms, UpdateArms, StatsArms, ExecArms})

SystemArms ==
    [df |-> Arm("cmd_system_df"), reset |-> Dropping("cmd_system_reset", {"force"}),
     prune |-> Dropping("cmd_prune", {"force"}), info |-> Arm("cmd_info")]

VolumeArms ==
    [create |-> Arm("cmd_volume_create"), ls |-> Arm("cmd_volume_ls"),
     inspect |-> Arm("cmd_volume_inspect"), rm |-> Arm("cmd_volume_rm"),
     rename |-> Arm("cmd_volume_rename"),
     prune |-> Dropping("cmd_volume_prune", {"force"}),
     exists |-> Arm("cmd_volume_exists"), export |-> Arm("cmd_volume_export"),
     import |-> Arm("cmd_volume_import"), mount |-> Arm("cmd_volume_mount"),
     unmount |-> Arm("cmd_volume_unmount"), reload |-> Arm("cmd_volume_reload")]

HealthcheckArms == [run |-> Arm("cmd_healthcheck_run")]

(* Mutant: the arm of container rm forgets --time. *)
ContainerListArmsHasty ==
    [exists |-> Dropping("cmd_container_exists", {"external"}),
     list |-> Dropping("cmd_ps", {"sync"}),
     prune |-> Dropping("cmd_container_prune", {"force"}), clone |-> Arm("cmd_clone"),
     cleanup |-> Arm("cmd_container_cleanup"),
     inspect |-> Inspecting("container", "either"),
     rm |-> Dropping("cmd_rm", {"depend", "volumes", "time"}), init |-> Arm("cmd_init"),
     stop |-> Arm("cmd_stop"), start |-> Finding("cmd_start", "either")]

ContainerListArms ==
    [exists |-> Dropping("cmd_container_exists", {"external"}),
     list |-> Dropping("cmd_ps", {"sync"}),
     prune |-> Dropping("cmd_container_prune", {"force"}), clone |-> Arm("cmd_clone"),
     cleanup |-> Arm("cmd_container_cleanup"),
     inspect |-> Inspecting("container", "either"),
     rm |-> Dropping("cmd_rm", {"depend", "volumes"}), init |-> Arm("cmd_init"),
     stop |-> Arm("cmd_stop"), start |-> Finding("cmd_start", "either")]

ContainerSignalArms ==
    [kill |-> Arm("cmd_kill"), pause |-> Arm("cmd_pause"), unpause |-> Arm("cmd_unpause"),
     restart |-> Arm("cmd_restart"), rename |-> Arm("cmd_rename"),
     wait |-> Finding("cmd_wait", "either"), top |-> Finding("cmd_top", "positional"),
     port |-> Arm("cmd_port"), logs |-> Finding("cmd_logs", "either"),
     diff |-> Finding("cmd_diff", "operand"), cp |-> Arm("cmd_cp")]

ContainerFileArms ==
    [commit |-> Dropping("cmd_commit", {"quiet"}), export |-> Arm("cmd_export"),
     stats |-> [Finding("cmd_stats", "stats") EXCEPT !.drops = {"no-trunc"}],
     attach |-> Finding("cmd_attach", "operand")]

ContainerExecArms ==
    [exec |-> Finding("cmd_exec", "exec"), run |-> Arm("cmd_run"),
     create |-> Arm("cmd_create"), mount |-> Arm("cmd_mount"),
     unmount |-> Dropping("cmd_unmount", {"force"}),
     update |-> Finding("cmd_update", "either")]

ContainerArms ==
    Joined({ContainerListArms, ContainerSignalArms, ContainerFileArms, ContainerExecArms})

ImageArms ==
    [exists |-> Arm("cmd_image_exists"), list |-> Arm("cmd_images"),
     prune |-> Dropping("cmd_image_prune", {"force"}), tag |-> Arm("cmd_tag"),
     untag |-> Arm("cmd_untag"), history |-> Arm("cmd_history"), rm |-> Arm("cmd_rmi"),
     pull |-> Arm("cmd_pull"), push |-> Arm("cmd_push"), save |-> Arm("cmd_save"),
     load |-> Arm("cmd_load"), import |-> Arm("cmd_import"),
     inspect |-> Inspecting("image", "either"), diff |-> Arm("cmd_image_diff"),
     mount |-> Arm("cmd_image_mount"),
     unmount |-> Dropping("cmd_image_unmount", {"force"})]

Arms ==
    [top |-> TopArms, system |-> SystemArms, healthcheck |-> HealthcheckArms,
     volume |-> VolumeArms, container |-> ContainerArms, image |-> ImageArms]

-----------------------------------------------------------------------------
(* A line: a command, the options and operands given, those of them that are given by
   their letter (an option has the same letter wherever it has one), the number of words
   after a command that takes them all (top, exec, port), the value of --type. *)

Operand == {"id", "ids", "reference"}

(* Whose container an arm passes on: the one the operand names, the latest one, the
   one a --cidfile names, none of its business; or why the line is refused. *)
EitherContainer(line) ==
    IF "latest" \in line.given
    THEN IF Operand \cap line.given = {} THEN "latest" ELSE "refused"
    ELSE IF Operand \cap line.given # {} THEN "named" ELSE "refused"

OperandContainer(line) ==
    IF Operand \cap line.given # {} THEN "named"
    ELSE IF "latest" \in line.given THEN "latest" ELSE "refused"

InspectContainer(line) ==
    IF "latest" \in line.given /\ line.type = "image" THEN "refused"
    ELSE EitherContainer(line)

PositionalContainer(line) ==
    IF "latest" \in line.given THEN "latest"
    ELSE IF line.words > 0 THEN "named" ELSE "refused"

(* exec: the words are the command, less the first when it names the container; it
   does not start without one. *)
ExecContainer(line) ==
    IF {"latest", "cidfile"} \subseteq line.given THEN "refused"
    ELSE IF "latest" \in line.given THEN IF line.words > 0 THEN "latest" ELSE "refused"
    ELSE IF "cidfile" \in line.given THEN IF line.words > 0 THEN "file" ELSE "refused"
    ELSE IF line.words > 1 THEN "named" ELSE "refused"

StatsContainer(line) ==
    IF Cardinality(line.given \cap {"all", "latest", "id"}) > 1 THEN "refused"
    ELSE IF "all" \in line.given THEN "all" ELSE OperandContainer(line)

Container(rule, line) ==
    CASE rule = "handler" -> "none"
      [] rule = "either" -> EitherContainer(line)
      [] rule = "operand" -> OperandContainer(line)
      [] rule = "inspect" -> InspectContainer(line)
      [] rule = "positional" -> PositionalContainer(line)
      [] rule = "exec" -> ExecContainer(line)
      [] rule = "stats" -> StatsContainer(line)

Refused == [handler |-> "refused", passed |-> {}, container |-> "none", type |-> "none"]

(* What clap accepts. *)
Parses(line) ==
    LET required == Required[line.group] IN
    /\ line.given \subseteq Commands[line.group][line.name]
    /\ line.short \subseteq Shorts[line.group][line.name]
    /\ line.name \in DOMAIN required => required[line.name] \subseteq line.given

(* What main calls. *)
Call(line) ==
    LET arm == Arms[line.group][line.name]
        container == Container(arm.rule, line) IN
    IF ~Parses(line) \/ container = "refused" THEN Refused
    ELSE [handler |-> arm.handler,
          passed |-> line.given \ (arm.drops \cup {"type"} \cup
              IF arm.rule = "handler" THEN {} ELSE {"latest", "cidfile", "all"}),
          container |-> container,
          type |-> IF arm.type # "given" THEN arm.type
                   ELSE IF container = "latest" THEN "container" ELSE line.type]

(* The command of the top level that a command of a group stands for. *)
AliasNames ==
    [system |-> [prune |-> "prune", info |-> "info"],
     container |-> [n \in {"list"} \cup ((DOMAIN ContainerGroup \cap DOMAIN Top) \ {"prune"}) |->
                       IF n = "list" THEN "ps" ELSE n],
     image |-> [n \in {"list"} \cup ((DOMAIN ImageGroup \cap DOMAIN Top)
                                        \ {"prune", "diff", "mount", "unmount"}) |->
                   IF n = "list" THEN "images" ELSE IF n = "rm" THEN "rmi" ELSE n]]

HasAlias(group, name) ==
    group \in DOMAIN AliasNames /\ name \in DOMAIN AliasNames[group]

(* container inspect and image inspect stand for inspect --type. *)
AliasLine(line) ==
    LET name == AliasNames[line.group][line.name]
        typed == name = "inspect" IN
    [line EXCEPT !.group = "top", !.name = name,
                 !.given = IF typed THEN @ \cup {"type"} ELSE @,
                 !.type = IF typed THEN line.group ELSE @]

(* The words a user may try with a command: its own options and those of the command
   it stands for (container inspect and image inspect go without some of inspect's). *)
Words(group, name) ==
    Commands[group][name] \cup
    IF HasAlias(group, name) /\ name # "inspect" THEN Commands["top"][AliasNames[group][name]] ELSE {}

(* And the letters. *)
Letters(group, name) ==
    Shorts[group][name] \cup
    IF HasAlias(group, name) /\ name # "inspect" THEN Shorts["top"][AliasNames[group][name]] ELSE {}
=============================================================================
