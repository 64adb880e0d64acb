--------------------------- MODULE ContainerSpec ---------------------------
(***************************************************************************)
(* The runtime configuration that ociman run and create write for a        *)
(* container, the request that exec makes from it, and what update does to *)
(* a health check: the validation of every option and the rules by which   *)
(* options, the image's configuration and the defaults are merged          *)
(* (bin/ociman/src/main.rs, user_resolve.rs, oci-runtime-core's            *)
(* identity.rs), as functions of the options asked for.                    *)
(*                                                                         *)
(* What was asked for maps the options on the line to their values.  A     *)
(* text with blanks in it is the sequence of its words; a value that may   *)
(* be a JSON array is [json, parts], parts being the array's texts or the  *)
(* words of the plain text.  Invalid stands for Err.                       *)
(***************************************************************************)
EXTENDS Integers, Sequences, FiniteSets, SequencesExt

CONSTANTS
    None, Invalid,
    Spelling,               \* name as it may be given -> capability
    ALL_CAPABILITY_NAMES, podman_default_capabilities,
    RlimitNames, Infinity,  \* RLIM_INFINITY, above every other limit
    Ceiling,                \* the caller's own hard limit
    MaxBytes,               \* i64::MAX
    HostEnv, DefaultEnv,    \* sequences of <<name, value>>
    DefaultMounts,          \* DEFAULT_MOUNT_DESTINATIONS
    Passwd, Group           \* /etc/passwd and /etc/group of the image

ASSUME SpecConstants ==
    /\ podman_default_capabilities \subseteq ALL_CAPABILITY_NAMES
    /\ \A n \in DOMAIN Spelling : Spelling[n] \in ALL_CAPABILITY_NAMES \cup {"ALL"}
    /\ Infinity \in Int /\ Ceiling \in Int /\ Ceiling <= Infinity
    /\ None \notin {"default", "unconfined"} /\ {None, Invalid} \cap Int = {}

(* The entries of a sequence at these places. *)
Selected(s, places) ==
    LET upTo[n \in 0..Len(s)] ==
            IF n = 0 THEN <<>>
            ELSE IF n \in places THEN Append(upTo[n - 1], s[n]) ELSE upTo[n - 1]
    IN upTo[Len(s)]

Asked(o, option, default) == IF option \in DOMAIN o THEN o[option] ELSE default
IsGiven(o, options) == DOMAIN o \cap options # {}

-----------------------------------------------------------------------------
(* Capabilities. *)
normalize_capabilities(names) ==
    IF names \subseteq DOMAIN Spelling THEN {Spelling[n] : n \in names} ELSE Invalid

(* Mutant: --cap-add ALL forgets what --cap-drop names. *)
merge_capabilities_all(base, adds, drops) ==
    LET a == normalize_capabilities(adds)  d == normalize_capabilities(drops) IN
    IF adds = {} /\ drops = {} THEN base
    ELSE IF Invalid \in {a, d} THEN Invalid
    ELSE IF "ALL" \in d THEN IF "ALL" \in a THEN Invalid ELSE a
    ELSE IF "ALL" \in a THEN ALL_CAPABILITY_NAMES
    ELSE IF a \cap d # {} THEN Invalid
    ELSE (base \ d) \cup a

merge_capabilities(base, adds, drops) ==
    LET a == normalize_capabilities(adds)  d == normalize_capabilities(drops) IN
    IF adds = {} /\ drops = {} THEN base
    ELSE IF Invalid \in {a, d} THEN Invalid
    ELSE IF "ALL" \in d THEN IF "ALL" \in a THEN Invalid ELSE a
    ELSE IF "ALL" \in a THEN ALL_CAPABILITY_NAMES \ d
    ELSE IF a \cap d # {} THEN Invalid
    ELSE (base \ d) \cup a

SpecCapabilities(o) ==
    merge_capabilities(IF IsGiven(o, {"privileged"}) THEN ALL_CAPABILITY_NAMES
                       ELSE podman_default_capabilities,
                       Asked(o, "cap-add", {}), Asked(o, "cap-drop", {}))

(* --security-opt, each [key, value]: the last of a key counts; a profile that cannot be
   read, a value that is not a Boolean and another key are errors. *)
resolve_security_opts(opts, privileged) ==
    LET LastOf(key, default) ==
            LET mine == {i \in DOMAIN opts : opts[i].key = key}
            IN IF mine = {} THEN default ELSE opts[Max(mine)].value
        known == \A t \in ToSet(opts) :
                    \/ t.key = "no-new-privileges" /\ t.value \in {"", "true", "false"}
                    \/ t.key = "seccomp"
        seccomp == LastOf("seccomp", IF privileged THEN "unconfined" ELSE "default")
    IN IF ~known \/ seccomp = "unreadable" THEN Invalid
       ELSE [seccomp |-> IF seccomp = "unconfined" THEN None ELSE seccomp,
             no_new_privileges |-> LastOf("no-new-privileges", "false") # "false"]

-----------------------------------------------------------------------------
(* Memory: [number, unit], the number -1 in Unlimited only, Garbled where there is none. *)
Unlimited == [number |-> -1, unit |-> 1]
Garbled == [number |-> -2, unit |-> 1]

parse_memory_limit(v) ==
    IF v = None THEN None
    ELSE IF v.number < 0 \/ v.number * v.unit > MaxBytes THEN Invalid ELSE v.number * v.unit

parse_memory_swap_limit(v) == IF v = Unlimited THEN -1 ELSE parse_memory_limit(v)

MemoryOf(o) ==
    [limit |-> parse_memory_limit(Asked(o, "memory", None)),
     swap |-> parse_memory_swap_limit(Asked(o, "memory-swap", None)),
     reservation |-> parse_memory_limit(Asked(o, "memory-reservation", None))]

parse_and_validate_memory_and_cpus(o) ==
    LET m == MemoryOf(o) IN
    /\ Invalid \notin {m.limit, m.swap, m.reservation}
    /\ m.swap # None => m.limit # None
    /\ m.swap # None /\ m.limit # None => m.swap = -1 \/ m.swap >= m.limit
    /\ Asked(o, "cpus", 1) > 0

CPU_PERIOD_USEC == 100
CpuOptions ==
    {"cpus", "cpuset-cpus", "cpuset-mems", "cpu-period", "cpu-quota", "cpu-shares",
     "cpu-rt-period", "cpu-rt-runtime"}
ResourceOptions == CpuOptions \cup {"memory", "memory-reservation", "pids-limit", "blkio-weight"}

(* Twice the limit where the product fits. *)
Doubled(limit) == IF limit = None \/ 2 * limit > MaxBytes THEN None ELSE 2 * limit

(* cpus in thousandths, times in milliseconds. *)
CpuOf(o) ==
    LET cpus == Asked(o, "cpus", None) IN
    [quota |-> Asked(o, "cpu-quota", IF cpus = None THEN None
                                     ELSE (cpus * CPU_PERIOD_USEC + 500) \div 1000),
     period |-> Asked(o, "cpu-period", IF cpus = None THEN None ELSE CPU_PERIOD_USEC),
     shares |-> Asked(o, "cpu-shares", None),
     cpus |-> Asked(o, "cpuset-cpus", <<>>), mems |-> Asked(o, "cpuset-mems", <<>>),
     realtime_period |-> Asked(o, "cpu-rt-period", None),
     realtime_runtime |-> Asked(o, "cpu-rt-runtime", None)]

resources_from_cli(o) ==
    LET m == MemoryOf(o)  pids == Asked(o, "pids-limit", None) IN
    IF ~IsGiven(o, ResourceOptions) THEN None
    ELSE [memory |-> IF IsGiven(o, {"memory", "memory-reservation"})
                     THEN [m EXCEPT !.swap = IF @ = None THEN Doubled(m.limit) ELSE @]
                     ELSE None,
          cpu |-> IF IsGiven(o, CpuOptions) THEN CpuOf(o) ELSE None,
          pids |-> IF pids = None THEN None ELSE IF pids > 0 THEN pids ELSE -1,
          block_io |-> Asked(o, "blkio-weight", None)]

-----------------------------------------------------------------------------
(* --ulimit: [name, soft, hard]; a hard limit that is not given is the soft one, a soft
   limit that is none (too many or empty fields, not a number) is an error. *)
parse_ulimit(v) ==
    LET hard == IF v.hard = None THEN v.soft ELSE v.hard IN
    IF \/ v.name \notin RlimitNames \/ v.soft = None
       \/ hard # Infinity /\ (v.soft = Infinity \/ v.soft > hard)
    THEN Invalid ELSE [v EXCEPT !.hard = hard]

clamp_ulimit_to_host(r) ==
    LET Clamp(limit) == IF limit = Infinity THEN Ceiling ELSE limit
    IN [r EXCEPT !.hard = Clamp(@), !.soft = Clamp(@)]

Rlimits(o) ==
    LET given == Asked(o, "ulimit", <<>>) IN
    IF \E i \in DOMAIN given : parse_ulimit(given[i]) = Invalid THEN Invalid
    ELSE [i \in DOMAIN given |-> clamp_ulimit_to_host(parse_ulimit(given[i]))]

(* --umask is a number or Garbled; --sysctl and --cgroup-conf are sequences of
   [key, value], the value None where there is no "=": the last of a key counts. *)
parse_umask(v) == IF v = None THEN None ELSE IF v \in 0..4095 THEN v ELSE Invalid

parse_key_value_entries(entries) ==
    IF \E e \in ToSet(entries) : e.value = None \/ e.key = "" THEN Invalid
    ELSE [k \in {e.key : e \in ToSet(entries)} |->
             LET mine == SelectSeq(entries, LAMBDA e : e.key = k) IN mine[Len(mine)].value]

-----------------------------------------------------------------------------
(* The command: a plain text for an entry point is one word, blanks and all. *)
parse_entrypoint(v) == IF v = None THEN None ELSE IF v.json THEN v.parts ELSE <<v.parts>>

EmptyText == <<>>

command_for(config, override, args) ==
    LET entrypoint == IF override = None THEN config.entrypoint ELSE override
        cmd == IF args # <<>> THEN args ELSE IF override # None THEN <<>> ELSE config.cmd
        full == (IF entrypoint = <<EmptyText>> THEN <<>> ELSE entrypoint) \o cmd
    IN IF full = <<>> THEN Invalid ELSE full

(* A user or group is looked up by number or by name, the first line that matches; a
   number nobody has stands for itself. *)
Lookup(lines, who) ==
    SelectSeq(lines, LAMBDA e : IF who.numeric THEN e.id = who.id ELSE e.name = who.name)

find_group_gid(who) ==
    LET found == Lookup(Group, who) IN
    IF found # <<>> THEN found[1].id ELSE IF who.numeric THEN who.id ELSE Invalid

resolve(user) ==
    LET found == Lookup(Passwd, user)
        who == IF found # <<>> THEN [uid |-> found[1].id, gid |-> found[1].gid]
               ELSE IF user.numeric THEN [uid |-> user.id, gid |-> 0] ELSE Invalid IN
    IF user = None THEN [uid |-> 0, gid |-> 0]
    ELSE IF who = Invalid THEN Invalid
    ELSE IF user.group = None THEN who
    ELSE IF find_group_gid(user.group) = Invalid THEN Invalid
    ELSE [who EXCEPT !.gid = find_group_gid(user.group)]

(* Only container root is mapped. *)
resolve_user(user) == IF resolve(user) = [uid |-> 0, gid |-> 0] THEN resolve(user) ELSE Invalid

KeepGroups == "keep-groups"
AdditionalGids(groups) ==
    LET gids == {IF g.name = KeepGroups THEN Invalid ELSE find_group_gid(g) : g \in groups}
    IN IF Invalid \in gids THEN Invalid ELSE gids

-----------------------------------------------------------------------------
(* The environment, a sequence of <<name, value>>. *)
set_env_var(env, key, value) ==
    LET at == {i \in DOMAIN env : env[i][1] = key} IN
    IF at = {} THEN Append(env, <<key, value>>) ELSE [env EXCEPT ![Min(at)] = <<key, value>>]

set_env_vars(env, pairs) ==
    LET after[n \in 0..Len(pairs)] ==
            IF n = 0 THEN env ELSE set_env_var(after[n - 1], pairs[n][1], pairs[n][2])
    IN after[Len(pairs)]

(* NAME=value, NAME from the host, or NAME* for every name of the host it begins (keys). *)
Assigns(over) ==
    IF over.value # None THEN <<<<over.key, over.value>>>>
    ELSE Selected(HostEnv, {i \in DOMAIN HostEnv : HostEnv[i][1] \in over.keys})

apply_env_overrides(env, overrides) ==
    LET after[n \in 0..Len(overrides)] ==
            IF n = 0 THEN env ELSE set_env_vars(after[n - 1], Assigns(overrides[n]))
    IN after[Len(overrides)]

(* The variables of the image that are not taken away. *)
KeptEnv(config, o) ==
    LET image == IF config.env = <<>> THEN DefaultEnv ELSE config.env IN
    IF IsGiven(o, {"unsetenv-all"}) THEN <<>>
    ELSE Selected(image, {i \in DOMAIN image : image[i][1] \notin Asked(o, "unsetenv", {})})

(* Mutant: the host's variables are set after those of the line. *)
SpecEnvHostLast(config, o) ==
    LET line == apply_env_overrides(KeptEnv(config, o),
                                    Asked(o, "env-file", <<>>) \o Asked(o, "env", <<>>))
    IN IF IsGiven(o, {"env-host"}) THEN set_env_vars(line, HostEnv) ELSE line

(* --unsetenv and --unsetenv-all take the image's variables away, not the given ones; a
   file's variables come before those of the line. *)
SpecEnv(config, o) ==
    LET kept == KeptEnv(config, o)
        host == IF IsGiven(o, {"env-host"}) THEN set_env_vars(kept, HostEnv) ELSE kept
    IN apply_env_overrides(host, Asked(o, "env-file", <<>>) \o Asked(o, "env", <<>>))

-----------------------------------------------------------------------------
Plain(name) == [name |-> name, value |-> None]

(* Mounts.  --volume: [host, container, option], the host "path", "name", "" or neither. *)
parse_volume(v) ==
    IF v.host \in {"path", "name"} /\ v.absolute /\ v.option \in {None, "rw", "ro"}
    THEN [kind |-> "bind", destination |-> v.container, source |-> v.host,
          options |-> IF v.option = "ro" THEN <<Plain("rbind"), Plain("ro")>>
                      ELSE <<Plain("rbind")>>]
    ELSE Invalid

TmpfsPairs == {{"exec", "noexec"}, {"suid", "nosuid"}, {"dev", "nodev"}}
PairOf(opt) == UNION {p \in TmpfsPairs : opt \in p}

(* --tmpfs: [destination, absolute, options], an option [name, value]: the last one of a
   pair, of the sizes and of the modes counts. *)
TmpfsOptionKnown(opt) ==
    \/ opt.name = "size" /\ opt.value # None /\ parse_memory_limit(opt.value) # Invalid
    \/ opt.name = "mode" /\ opt.value \notin {None, Garbled}
    \/ opt.name \in {"ro", "rw"} \cup UNION TmpfsPairs /\ opt.value = None

TmpfsOption(options, opt) ==
    LET replaced == IF opt.name \in {"size", "mode"} THEN {opt.name} ELSE PairOf(opt.name)
        new == [name |-> opt.name,
                value |-> IF opt.name = "size" THEN parse_memory_limit(opt.value) ELSE opt.value]
    IN Append(Selected(options, {i \in DOMAIN options : options[i].name \notin replaced}), new)

TmpfsDefaults == <<Plain("noexec"), Plain("nosuid"), Plain("nodev"), Plain("rprivate")>>

parse_tmpfs_mount(v) ==
    LET after[n \in 0..Len(v.options)] ==
            IF n = 0 THEN TmpfsDefaults ELSE TmpfsOption(after[n - 1], v.options[n])
    IN IF ~v.absolute \/ \E opt \in ToSet(v.options) : ~TmpfsOptionKnown(opt) THEN Invalid
       ELSE [kind |-> "tmpfs", destination |-> v.destination, source |-> "tmpfs",
             options |-> after[Len(v.options)]]

(* Destinations are not shared with the default mounts, a volume or another tmpfs; the
   same tmpfs twice is one. *)
TmpfsMounts(o) ==
    LET mounts == [i \in DOMAIN Asked(o, "tmpfs", <<>>) |-> parse_tmpfs_mount(o["tmpfs"][i])]
        taken == DefaultMounts \cup {v.container : v \in ToSet(Asked(o, "volume", <<>>))}
    IN IF \/ Invalid \in ToSet(mounts)
          \/ \E m \in ToSet(mounts) : m.destination \in taken
          \/ \E m, n \in ToSet(mounts) : m # n /\ m.destination = n.destination
       THEN Invalid
       ELSE Selected(mounts, {i \in DOMAIN mounts : \A j \in 1..i - 1 : mounts[j] # mounts[i]})

VolumeMounts(o) ==
    LET mounts == [i \in DOMAIN Asked(o, "volume", <<>>) |-> parse_volume(o["volume"][i])]
    IN IF Invalid \in ToSet(mounts) THEN Invalid ELSE mounts

-----------------------------------------------------------------------------
(* Health checks.  The command's test is a sequence of texts. *)
NONE == <<"NONE">>
CMD == <<"CMD">>
CMD_SHELL == <<"CMD-SHELL">>
NoHealthcheck ==
    [test |-> <<NONE>>, interval |-> 0, timeout |-> 0, start_period |-> 0, retries |-> 0]

SplitOnce(text) == IF Len(text) <= 1 THEN <<text>> ELSE <<SubSeq(text, 1, 1), Tail(text)>>

parse_health_cmd_test(v) ==
    LET arr == IF v.json THEN v.parts ELSE SplitOnce(v.parts) IN
    IF arr = <<>> THEN Invalid
    ELSE IF arr[1] = NONE THEN <<NONE>>
    ELSE IF arr[1] = CMD THEN IF v.json THEN arr ELSE [i \in DOMAIN v.parts |-> <<v.parts[i]>>]
    ELSE IF arr[1] = CMD_SHELL THEN arr
    ELSE IF v.json /\ Len(arr) > 1 THEN <<CMD>> \o arr
    ELSE <<CMD_SHELL, IF v.json THEN arr[1] ELSE v.parts>>

(* Durations in seconds; a text that is none is Unparsable, "disable" is Disable. *)
Unparsable == -1
Disable == -2

make_healthcheck_from_cli(h, leastRetries) ==
    LET test == parse_health_cmd_test(h.cmd)
        interval == IF h.interval = Disable THEN 0 ELSE h.interval IN
    IF \/ test = Invalid \/ Unparsable \in {interval, h.timeout, h.start_period}
       \/ h.timeout < 1 \/ h.retries < leastRetries
    THEN Invalid
    ELSE [test |-> test, interval |-> interval, timeout |-> h.timeout,
          start_period |-> h.start_period, retries |-> h.retries]

(* Options that come with --health-cmd are ignored without it. *)
HealthOverride(o) ==
    IF IsGiven(o, {"health-cmd"}) /\ IsGiven(o, {"no-healthcheck"}) THEN Invalid
    ELSE IF IsGiven(o, {"health-cmd"})
    THEN make_healthcheck_from_cli(
                 [cmd |-> o["health-cmd"], interval |-> Asked(o, "health-interval", 30),
                  retries |-> Asked(o, "health-retries", 3),
                  timeout |-> Asked(o, "health-timeout", 30),
                  start_period |-> Asked(o, "health-start-period", 0)], 1)
    ELSE IF IsGiven(o, {"no-healthcheck"}) THEN NoHealthcheck ELSE None

resolve_effective_healthcheck(override, config) ==
    IF override # None THEN override ELSE config.healthcheck

healthcheck_exec_args(test) ==
    IF test = <<>> THEN None
    ELSE IF test[1] = CMD_SHELL /\ Len(test) > 1 THEN <<<<"/bin/sh">>, <<"-c">>, test[2]>>
    ELSE IF test[1] = CMD THEN Tail(test) ELSE None

(* format_duration_seconds: what was never set, or disabled, is the default again. *)
OrDefault(seconds, default) == IF seconds <= 0 THEN default ELSE seconds

HealthOptions ==
    {"health-cmd", "health-interval", "health-retries", "health-timeout", "health-start-period"}

(* The test is put together again with blanks and parsed anew. *)
update_healthcheck(existing, o) ==
    LET Old(field, none) == IF existing = None THEN none ELSE existing[field]
        start == OrDefault(Old("start_period", 0), 0)
        joined == IF existing = None THEN <<>> ELSE FlattenSeq(existing.test) IN
    IF IsGiven(o, {"no-healthcheck"})
    THEN IF IsGiven(o, HealthOptions) THEN Invalid ELSE NoHealthcheck
    ELSE make_healthcheck_from_cli(
           [cmd |-> Asked(o, "health-cmd", [json |-> FALSE, parts |-> joined]),
            interval |-> Asked(o, "health-interval", OrDefault(Old("interval", 0), 30)),
            retries |-> Asked(o, "health-retries", Old("retries", 3)),
            timeout |-> Asked(o, "health-timeout", OrDefault(Old("timeout", 0), 30)),
            start_period |-> Asked(o, "health-start-period", start)], 0)

-----------------------------------------------------------------------------
(* What prepare_container checks before it looks for the image. *)
PrepareAccepts(o) ==
    /\ IsGiven(o, {"replace"}) => IsGiven(o, {"name"})
    /\ Asked(o, "stop-signal", "TERM") # "unknown"
    /\ HealthOverride(o) # Invalid /\ Rlimits(o) # Invalid
    /\ VolumeMounts(o) # Invalid /\ TmpfsMounts(o) # Invalid
    /\ resolve_security_opts(Asked(o, "security-opt", <<>>), IsGiven(o, {"privileged"})) # Invalid
    /\ SpecCapabilities(o) # Invalid
    /\ parse_umask(Asked(o, "umask", None)) # Invalid
    /\ \A option \in {"sysctl", "cgroup-conf"} :
           parse_key_value_entries(Asked(o, option, <<>>)) # Invalid
    /\ parse_and_validate_memory_and_cpus(o)
    /\ parse_memory_limit(Asked(o, "shm-size", None)) # Invalid

SpecProcess(config, o) ==
    [args |-> command_for(config, parse_entrypoint(Asked(o, "entrypoint", None)),
                          Asked(o, "args", <<>>)),
     cwd |-> Asked(o, "workdir", IF config.workdir = "" THEN "/" ELSE config.workdir),
     user |-> resolve_user(Asked(o, "user", config.user)),
     additional_gids |-> AdditionalGids(Asked(o, "group-add", {})),
     umask |-> parse_umask(Asked(o, "umask", None)),
     oom_score_adj |-> Asked(o, "oom-score-adj", None),
     rlimits |-> Rlimits(o),
     env |-> SpecEnv(config, o),
     no_new_privileges |-> resolve_security_opts(Asked(o, "security-opt", <<>>),
                                                 IsGiven(o, {"privileged"})).no_new_privileges,
     bounding |-> SpecCapabilities(o), effective |-> SpecCapabilities(o),
     permitted |-> SpecCapabilities(o)]

SpecResources(o) ==
    LET unified == parse_key_value_entries(Asked(o, "cgroup-conf", <<>>))
        resources == resources_from_cli(o) IN
    IF resources = None /\ unified = <<>> THEN None
    ELSE [limits |-> resources, unified |-> unified]

synthesize_spec(config, o) ==
    LET process == SpecProcess(config, o) IN
    IF \/ ~PrepareAccepts(o)
       \/ Invalid \in {process.args, process.user, process.additional_gids}
    THEN Invalid
    ELSE [process |-> process,
          readonly |-> IsGiven(o, {"read-only"}),
          hostname |-> Asked(o, "hostname", "the id"),
          sysctl |-> parse_key_value_entries(Asked(o, "sysctl", <<>>)),
          resources |-> SpecResources(o),
          seccomp |-> resolve_security_opts(Asked(o, "security-opt", <<>>),
                                            IsGiven(o, {"privileged"})).seccomp,
          mounts |-> VolumeMounts(o) \o TmpfsMounts(o),
          shm |-> parse_memory_limit(Asked(o, "shm-size", None)),
          healthcheck |-> resolve_effective_healthcheck(HealthOverride(o), config)]

(* exec: the container's own process, with what the line says. *)
resolve_exec_capabilities(process, privileged, uid) ==
    LET bounding == IF privileged THEN ALL_CAPABILITY_NAMES ELSE process.bounding IN
    [bounding |-> bounding,
     effective |-> IF uid = 0 THEN bounding ELSE process.effective,
     permitted |-> IF uid = 0 THEN bounding ELSE process.permitted]

ExecRequest(process, o) ==
    LET user == IF IsGiven(o, {"user"}) THEN resolve_user(o["user"]) ELSE process.user IN
    IF user = Invalid THEN Invalid
    ELSE [user |-> user,
          capabilities |-> resolve_exec_capabilities(process, IsGiven(o, {"privileged"}), user.uid),
          no_new_privileges |-> process.no_new_privileges,
          cwd |-> Asked(o, "workdir", process.cwd),
          env |-> apply_env_overrides(process.env,
                                      Asked(o, "env-file", <<>>) \o Asked(o, "env", <<>>))]

-----------------------------------------------------------------------------
(* What was asked for, as the properties put it. *)
Added(o) == normalize_capabilities(Asked(o, "cap-add", {}))
Dropped(o) == normalize_capabilities(Asked(o, "cap-drop", {}))

(* getenv finds the first entry of a name. *)
Reads(env, key, value) ==
    LET at == {i \in DOMAIN env : env[i][1] = key} IN at # {} /\ env[Min(at)][2] = value

(* The last word on a variable is the one it has. *)
EnvHas(env, overrides) ==
    \A i \in DOMAIN overrides :
        overrides[i].value # None /\ (\A j \in i + 1..Len(overrides) :
                overrides[j].key # overrides[i].key /\ overrides[i].key \notin overrides[j].keys) =>
            Reads(env, overrides[i].key, overrides[i].value)

SwapCovers(memory) ==
    memory # None => memory.swap \in {None, -1} \/ memory.swap >= memory.limit

TmpfsConsistent(mounts) ==
    \A i \in DOMAIN mounts : mounts[i].kind = "tmpfs" =>
        LET names == {opt.name : opt \in ToSet(mounts[i].options)} IN
        /\ \A pair \in TmpfsPairs : Cardinality(pair \cap names) = 1
        /\ \A j \in DOMAIN mounts \ {i} : mounts[j].destination # mounts[i].destination

(* The three shapes of a test that the engine writes: no check, words, a command line. *)
Shaped(test) ==
    \/ test = <<NONE>>
    \/ Len(test) > 0 /\ test[1] = CMD
    \/ Len(test) = 2 /\ test[1] = CMD_SHELL /\ test[2] # <<>>

(* The words a test runs, with or without a shell. *)
HealthWords(test) ==
    IF test = <<NONE>> THEN <<>> ELSE FlattenSeq(healthcheck_exec_args(test))
=============================================================================
