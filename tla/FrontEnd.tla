------------------------------ MODULE FrontEnd ------------------------------
(***************************************************************************)
(* ociman from the command line to the answer: a line is typed, main       *)
(* refuses it or calls the function of the command, and the function reads *)
(* and changes the tables of containers, images, blobs and volumes.  The   *)
(* commands that list, inspect, tag and prune are answered here; what the  *)
(* others do is the subject of Engine.tla and Build.tla, and shows here as *)
(* containers and images that come and go between two lines.               *)
(***************************************************************************)
EXTENDS CommandLine, Listing, Cgroups

CONSTANTS
    References,       \* the tags images may have
    VolumeNames,
    ContainerFilters, ImageFilters, VolumeFilters,  \* sets of filter terms
    Pulled, Kept,     \* references and their digests, volumes
    Values,           \* option -> the values it is given, for those that shape a container
    ImageConfigs, Healthchecks, Processes,  \* what images and containers are configured with
    Absent,           \* sets of files a control group may lack
    MaxGiven,         \* options on a line, the required operands aside
    MaxChanges        \* steps that change the tables

ASSUME BoundsAssumption == MaxGiven \in Nat

(* The images of an earlier session. *)
ASSUME PulledAssumption ==
    IsFiniteSet(DOMAIN Pulled) /\ \A ref \in DOMAIN Pulled : Pulled[ref] \in Digests

(* The containers of this engine run as their root (resolve_user). *)
ASSUME ProcessesAssumption == \A process \in Processes : process.user.uid = 0

(* --security-opt gives a list of texts. *)
ASSUME SecurityOptsAssumption ==
    "security-opt" \in DOMAIN Values =>
        \A opts \in Values["security-opt"] :
            /\ Len(opts) \in Nat /\ DOMAIN opts = 1..Len(opts)
            /\ \A i \in DOMAIN opts : opts[i].value # None

(* Sizes are numbers of a unit, the other limits numbers. *)
ASSUME LimitsAssumption ==
    /\ \A option \in {"memory", "memory-swap", "memory-reservation"} \cap DOMAIN Values :
           \A v \in Values[option] : v.number \in Int /\ v.unit \in Nat \ {0}
    /\ \A option \in {"cpus", "cpu-quota", "pids-limit"} \cap DOMAIN Values :
           Values[option] \subseteq Int

(* A list is a sequence, whether options that may be repeated give it or an image or a
   container is configured with it. *)
Sequence(s) == s \in Seq(ToSet(s))
Rlimit == [name : STRING, soft : Int \cup {None}, hard : Int \cup {None}]
ASSUME ListsAssumption ==
    /\ \A option \in {"env", "env-file", "ulimit", "volume", "tmpfs"} \cap DOMAIN Values :
           \A list \in Values[option] :
               /\ Sequence(list)
               /\ option = "ulimit" => list \in Seq(Rlimit)
               /\ option = "tmpfs" => \A i \in DOMAIN list : Sequence(list[i].options)
    /\ "entrypoint" \in DOMAIN Values =>
           \A v \in Values["entrypoint"] : parse_entrypoint(v) # None /\ Sequence(parse_entrypoint(v))
    /\ Sequence(HostEnv) /\ Sequence(DefaultEnv)
    /\ \A config \in ImageConfigs : Sequence(config.env)
    /\ \A process \in Processes : Sequence(process.env)
    /\ \A health \in Healthchecks :
           health # None => Sequence(health.test) /\ \A i \in DOMAIN health.test : Sequence(health.test[i])

(* A manifest lists its layers; no blob it names is a manifest, and each has a size. *)
ASSUME ContentsAssumption ==
    \A d \in Digests :
        /\ Sequence(Layers(d))
        /\ \A b \in Blobs(d) : b \notin Digests /\ Size[b] \in Nat

VARIABLES
    line,     \* the line being carried out
    call,     \* what main makes of it
    tables,   \* containers, images, blobs, volumes and build scratch
    answer,   \* what the last command said
    changes

vars == <<line, call, tables, answer, changes>>

NoLine == [group |-> "none"]
Error == [is |-> "error"]
Done == [is |-> "done"]

Hour == 1
Now == Max({0} \cup DOMAIN tables.containers) + 1

NoTables == [containers |-> <<>>, images |-> <<>>, blobs |-> {}, volumes |-> <<>>, scratch |-> {}]

(* An earlier session left images and volumes. *)
Stocked ==
    [NoTables EXCEPT !.images = Pulled, !.blobs = Reachable(Pulled), !.volumes = Kept]

Init ==
    /\ line = NoLine /\ call = Refused
    /\ tables \in {NoTables, Stocked}
    /\ answer = Done
    /\ changes = 0

Answered ==
    {"cmd_images", "cmd_rmi", "cmd_tag", "cmd_untag", "cmd_history", "cmd_prune",
     "cmd_inspect", "cmd_ps", "cmd_system_df", "cmd_system_reset", "cmd_container_prune",
     "cmd_image_prune", "cmd_image_exists", "cmd_container_exists", "cmd_image_mount",
     "cmd_image_unmount", "cmd_volume_ls", "cmd_volume_prune", "cmd_volume_rm",
     "cmd_volume_rename", "cmd_volume_exists", "cmd_volume_inspect", "cmd_pull", "cmd_push",
     "cmd_info", "cmd_exec", "cmd_update", "cmd_healthcheck_run"}
Configured == {"cmd_run", "cmd_create"}

(* A command with at most k of the words that go with it, one of them by its letter. *)
UpTo(k, set) ==
    LET f[j \in 0..k] == IF j = 0 THEN {{}} ELSE f[j - 1] \cup {s \cup {x} : s \in f[j - 1], x \in set}
    IN f[k]

Lines(k) ==
    UNION {UNION {
        LET needed == IF name \in DOMAIN Required[group] THEN Required[group][name] ELSE {}
            given == {chosen \cup more : chosen \in UpTo(k, Words(group, name)),
                                        more \in {{}, needed}} IN
        {l \in [group : {group}, name : {name}, given : given,
                short : UpTo(1, Letters(group, name)), words : 0..2,
                type : {"all", "container", "image"}] :
            /\ l.short \subseteq l.given
            /\ l.words > 0 <=> "positional" \in l.given
            /\ "type" \notin l.given => l.type = "all"}
        : name \in DOMAIN Commands[group]} : group \in DOMAIN Commands}

AllLines == Lines(MaxGiven)
AnsweredLines ==
    {l \in Lines(1) : Call(l).handler \in Answered /\ ~HasAlias(l.group, l.name)}

(* exec and update of the latest container, with options. *)
LatestLines ==
    LET Line(name, given, words) ==
            [group |-> "top", name |-> name, given |-> given \cup {"latest"}, short |-> {},
             words |-> words, type |-> "all"] IN
    {Line("exec", given \cup {"positional"}, 1) : given \in UpTo(MaxGiven, ExecOptions)} \cup
    {Line("update", given, 0) : given \in UpTo(MaxGiven, UpdateOptions)}

(* A line is typed and dispatched.  Every line is tried on empty tables; later on the
   ones that are answered here, with one option, under one of their names, and those
   about the container there is. *)
Type ==
    /\ line = NoLine /\ answer = Done /\ changes < MaxChanges
    /\ \E l \in IF tables = NoTables /\ changes = 0 THEN AllLines
               ELSE AnsweredLines \cup (IF tables.containers = <<>> THEN {} ELSE LatestLines) :
           line' = l /\ call' = Call(l)
    /\ UNCHANGED <<tables, answer, changes>>

(* The process of the last command has gone, what it said has been read. *)
Prompt ==
    /\ line = NoLine /\ answer # Done
    /\ answer' = Done
    /\ UNCHANGED <<line, call, tables, changes>>

Calls(handler) == line # NoLine /\ call.handler = handler
Passed == call.passed

Say(said) == line' = NoLine /\ call' = Refused /\ answer' = said /\ UNCHANGED <<tables, changes>>

(* The command changed the tables, or left them. *)
Change(new) ==
    /\ changes < MaxChanges
    /\ line' = NoLine /\ call' = Refused /\ answer' = Done
    /\ tables' = new
    /\ changes' = changes + 1

Refuse == Calls("refused") /\ Say(Error)

Elsewhere ==
    /\ line # NoLine /\ call.handler \notin Answered \cup Configured \cup {"refused"}
    /\ Say(Done)

Terms(filters) == IF "filter" \in Passed THEN {{t} : t \in filters} ELSE {{}}
Ref == Max({0} \cup DOMAIN tables.containers)

Specs(operand) == IF operand \in Passed THEN {<<s>> : s \in References \cup Digests} ELSE {<<>>}

-----------------------------------------------------------------------------
Images ==
    /\ Calls("cmd_images")
    /\ \E terms \in Terms(ImageFilters) :
           Say(IF ImagesAccepts(tables.images, terms)
               THEN [is |-> "images", refs |-> cmd_images(tables.containers, tables.images, terms)]
               ELSE Error)

Rmi ==
    /\ Calls("cmd_rmi")
    /\ \E specs \in Specs("references") :
           IF RmiAccepts(specs, "all" \in Passed)
           THEN Change(cmd_rmi(tables, specs, "all" \in Passed, "force" \in Passed))
           ELSE Say(Error)

Tag ==
    /\ Calls("cmd_tag")
    /\ \E spec \in References \cup Digests \cup {AnyId}, target \in References :
           IF Found(tables.images, spec)
           THEN LET d == tables.images[resolve_by_reference_or_id(tables.images, spec).ref] IN
                Change([tables EXCEPT !.images = With(@, target, d)])
           ELSE Say(Error)

(* Without references every one of the image goes. *)
Untag ==
    /\ Calls("cmd_untag")
    /\ \E spec \in References \cup Digests, ref \in References :
           LET found == resolve_by_reference_or_id(tables.images, spec).ref
               gone == IF "references" \in Passed THEN {ref}
                       ELSE {r \in DOMAIN tables.images : tables.images[r] = tables.images[found]} IN
           IF /\ Found(tables.images, spec)
              /\ "references" \in Passed =>
                     ref \in DOMAIN tables.images /\ tables.images[ref] = tables.images[found]
           THEN Change([tables EXCEPT !.images = [r \in DOMAIN @ \ gone |-> @[r]]])
           ELSE Say(Error)

History ==
    /\ Calls("cmd_history")
    /\ \E ref \in References :
           Say(IF ref \in DOMAIN tables.images
               THEN [is |-> "history", ref |-> ref, sizes |-> cmd_history(tables.images, ref)]
               ELSE Error)

(* A reference is looked for by the registry: whatever it points to there today. *)
Pull ==
    /\ Calls("cmd_pull")
    /\ \E ref \in References, d \in Digests :
           Change([tables EXCEPT !.images = With(@, ref, d), !.blobs = @ \cup {d} \cup Blobs(d)])

(* Only a tag can be pushed. *)
Push ==
    /\ Calls("cmd_push")
    /\ \E spec \in References \cup Digests :
           Say(IF /\ Found(tables.images, spec)
                  /\ ~is_untagged_reference(resolve_by_reference_or_id(tables.images, spec).ref)
               THEN Done ELSE Error)

ImageExists ==
    /\ Calls("cmd_image_exists")
    /\ \E spec \in References \cup Digests : Say(IF Found(tables.images, spec) THEN Done ELSE Error)

ContainerExists ==
    /\ Calls("cmd_container_exists")
    /\ Say(IF container_exists(tables.containers, Ref) THEN Done ELSE Error)

VolumeExists ==
    /\ Calls("cmd_volume_exists") \/ Calls("cmd_volume_inspect")
    /\ \E v \in VolumeNames : Say(IF v \in DOMAIN tables.volumes THEN Done ELSE Error)

Inspect ==
    /\ Calls("cmd_inspect")
    /\ \E ref \in References :
           Say(IF call.container # "latest"
               THEN cmd_inspect(tables, ref, call.type, "size" \in Passed)
               ELSE IF Ref = 0 THEN Error
               ELSE cmd_inspect(tables, Ref, "container", "size" \in Passed))

ImageMount ==
    /\ Calls("cmd_image_mount") \/ Calls("cmd_image_unmount")
    /\ \E specs \in Specs("images") :
           LET refs == resolve_images_or_all(tables.images, specs, "all" \in Passed) IN
           Say(IF refs = NoImage THEN Error ELSE [is |-> "images", refs |-> refs])

Ps ==
    /\ Calls("cmd_ps")
    /\ \E terms \in Terms(ContainerFilters) :
           LET last == IF Passed \cap {"last", "latest"} = {} THEN 0 ELSE 1 IN
           Say(IF PsAccepts(tables.containers, terms, Passed)
               THEN [is |-> "containers",
                     ids |-> cmd_ps(tables.containers, tables.images, terms, "all" \in Passed, last)]
               ELSE Error)

Df ==
    /\ Calls("cmd_system_df") \/ Calls("cmd_info")
    /\ Say(IF {"verbose", "format"} \subseteq Passed THEN Error
           ELSE IF "verbose" \in Passed
           THEN [is |-> "rows", rows |-> cmd_system_df_verbose(tables)]
           ELSE [is |-> "df", df |-> cmd_system_df(tables)])

ContainerPrune ==
    /\ Calls("cmd_container_prune")
    /\ \E terms \in Terms(ContainerFilters) :
           IF parse_label_until_filters(terms).ok
           THEN Change(prune_eligible_containers(tables, terms)) ELSE Say(Error)

ImagePrune ==
    /\ Calls("cmd_image_prune")
    /\ \E terms \in Terms(ImageFilters) :
           IF parse_prune_filters(terms)
           THEN Change(prune_images_and_reclaim(tables, "all" \in Passed, terms)) ELSE Say(Error)

SystemPrune ==
    /\ Calls("cmd_prune")
    /\ \E terms \in Terms(ImageFilters) :
           IF parse_prune_filters(terms)
           THEN Change(cmd_prune(tables, "all" \in Passed, terms, Now, Hour)) ELSE Say(Error)

Reset == Calls("cmd_system_reset") /\ Change(cmd_system_reset(tables))

ListVolumes ==
    /\ Calls("cmd_volume_ls")
    /\ \E terms \in Terms(VolumeFilters) :
           Say(IF VolumeLsAccepts(tables.volumes, terms, Passed)
               THEN [is |-> "volumes", names |-> cmd_volume_ls(tables.containers, tables.volumes, terms)]
               ELSE Error)

VolumePrune ==
    /\ Calls("cmd_volume_prune")
    /\ \E terms \in Terms(VolumeFilters) :
           IF parse_volume_prune_filters(terms) /\ VolumeTermsResolve(tables.volumes, terms)
           THEN Change(cmd_volume_prune(tables, terms)) ELSE Say(Error)

VolumeRm ==
    /\ Calls("cmd_volume_rm")
    /\ \E v \in VolumeNames :
           IF VolumeRmAccepts(tables, v, "force" \in Passed)
           THEN Change([tables EXCEPT !.volumes = [n \in DOMAIN @ \ {v} |-> @[n]]])
           ELSE Say(Error)

VolumeRename ==
    /\ Calls("cmd_volume_rename")
    /\ \E v, w \in VolumeNames :
           IF VolumeRenameAccepts(tables, v, w)
           THEN Change([tables EXCEPT !.volumes = [n \in (DOMAIN @ \ {v}) \cup {w} |->
                                                       IF n = w THEN @[v] ELSE @[n]]])
           ELSE Say(Error)

-----------------------------------------------------------------------------
(* The options of the line with values for them. *)
OptionChoices ==
    LET options == Passed \cap DOMAIN Values
        given == UNION {{<<option, v>> : v \in Values[option]} : option \in options}
        picks == {f \in [options -> given] : \A option \in options : f[option][1] = option}
    IN {[option \in options |-> f[option][2]] : f \in picks}
Running == Ref # 0 /\ tables.containers[Ref].status = "running"

(* run and create come to a configuration, or to an error; the container that is made of
   it is the step ContainerMade. *)
Configure ==
    /\ \E handler \in Configured : Calls(handler)
    /\ \E o \in OptionChoices, config \in ImageConfigs :
           Say(IF synthesize_spec(config, o) = Invalid THEN Error
               ELSE [is |-> "spec", asked |-> o, config |-> config,
                     spec |-> synthesize_spec(config, o)])

Exec ==
    /\ Calls("cmd_exec")
    /\ \E o \in OptionChoices, process \in Processes :
           Say(IF ~Running \/ ExecRequest(process, o) = Invalid THEN Error
               ELSE [is |-> "exec", asked |-> o, process |-> process,
                     request |-> ExecRequest(process, o)])

(* The limits are written first, and only to the group of a container that runs, which
   may lack a controller (absent). *)
Update ==
    /\ Calls("cmd_update")
    /\ \E o \in OptionChoices, existing \in Healthchecks, absent \in Absent :
         LET resources == resources_from_cli(o)
             health == IsGiven(o, HealthOptions \cup {"no-healthcheck"})
             new == IF health THEN update_healthcheck(existing, o) ELSE existing IN
         Say(IF /\ parse_and_validate_memory_and_cpus(o)
                /\ resources # None \/ health
                /\ resources # None => Running /\ apply(<<>>, plan_resources(resources), absent).ok
                /\ health => Ref # 0 /\ new # Invalid
             THEN [is |-> "updated", asked |-> o, before |-> existing, after |-> new,
                   resources |-> resources]
             ELSE Error)

HealthcheckRun ==
    /\ Calls("cmd_healthcheck_run")
    /\ \E health \in Healthchecks, healthy \in BOOLEAN :
           Say(IF /\ Running => health # None /\ healthcheck_exec_args(health.test) # None
                  /\ (Running /\ healthy) \/ (Ref # 0 /\ "ignore-result" \in Passed)
               THEN Done ELSE Error)

-----------------------------------------------------------------------------
(* Between two lines: a container is made of an image that is there, with the volumes
   it mounts, or goes down; a commit or a build without a tag leaves an untagged image. *)
ContainerMade ==
    /\ line = NoLine
    /\ \E image \in DOMAIN tables.images \ Digests, vs \in SUBSET VolumeNames,
          name \in {NoName} \cup References :
         /\ name # NoName => Named(tables.containers, name) = {}
         /\ Change([tables EXCEPT
               !.containers = With(@, Now, [name |-> name, image |-> image,
                   status |-> "running", exit |-> NoValue, command |-> "sh", labels |-> <<>>,
                   volumes |-> vs, writable |-> Now]),
               !.volumes = [v \in DOMAIN @ \cup vs |->
                               IF v \in DOMAIN @ THEN @[v]
                               ELSE [created |-> Now, labels |-> <<>>, size |-> 1]],
               !.scratch = @ \cup {Now}])

ContainerExits ==
    /\ line = NoLine
    /\ \E i \in DOMAIN tables.containers :
           /\ tables.containers[i].status = "running"
           /\ Change([tables EXCEPT !.containers[i].status = "stopped",
                                    !.containers[i].exit = 0])

UntaggedMade ==
    /\ line = NoLine
    /\ \E d \in Digests :
           Change([tables EXCEPT !.images = With(@, d, d), !.blobs = @ \cup {d} \cup Blobs(d)])

Next ==
    \/ Type \/ Prompt \/ Refuse \/ Elsewhere
    \/ Images \/ Rmi \/ Tag \/ Untag \/ History \/ Pull \/ Push \/ ImageExists \/ ContainerExists
    \/ VolumeExists \/ Inspect
    \/ ImageMount \/ Ps \/ Df \/ ContainerPrune \/ ImagePrune \/ SystemPrune \/ Reset
    \/ ListVolumes \/ VolumePrune \/ VolumeRm \/ VolumeRename
    \/ Configure \/ Exec \/ Update \/ HealthcheckRun
    \/ ContainerMade \/ ContainerExits \/ UntaggedMade

Spec == Init /\ [][Next]_vars

-----------------------------------------------------------------------------
(* A command of the groups container, image and system does what the command of the
   top level does that it stands for: the same options are taken, by the same names, the
   same ones passed on to the same function, the same lines refused.  The two are declared
   and matched separately in main.rs.  One line is an exception: system info takes -f,
   which info refuses. *)
InfoByLetter(l) == l.group = "system" /\ l.name = "info" /\ "format" \in l.short
AliasesAgree ==
    line # NoLine /\ HasAlias(line.group, line.name) =>
        IF InfoByLetter(line) THEN Call(AliasLine(line)) = Refused
        ELSE call = Call(AliasLine(line))

(* What image prune --all frees lies between what system df -v calls unique to the
   images nobody uses and what system df calls reclaimable (manifests and blobs that
   were garbage before are not in either figure).  An image that has a layer twice is
   left out of the lower bound: df -v counts the layer twice, the prune frees it once. *)
FreedBytes == Bytes(((tables.blobs \ tables'.blobs) \cap Reachable(tables.images)) \ Digests)
UnusedDigests ==
    Present(tables.images) \ images_in_use_digests(tables.containers, tables.images)
NoneTwice(d) == IsInjective(BlobsOf(d))
UniqueBytes(ds) == FoldSet(LAMBDA d, n : UniqueSize(tables.images, d) + n, 0, ds)
DfForetells ==
    [][Calls("cmd_image_prune") /\ answer' = Done =>
       ("all" \in Passed /\ "filter" \notin Passed =>
       /\ FreedBytes <= cmd_system_df(tables).images.reclaimable
       /\ FreedBytes >= UniqueBytes({d \in UnusedDigests : NoneTwice(d)}))
      ]_vars

(* The listings show what the prunes will take.  image prune, under filters by label or
   none, removes the images that images lists as used by no container, and as dangling
   unless --all is given; volume prune, under any filters it takes, what volume ls lists
   as dangling under the same ones.  (An image counts as used while the reference that a
   container recorded still points to it: one that a pull, a tag or a build took the
   reference from is listed, and pruned, like any other.) *)
UnusedFlags(all) == IF all THEN {"containers"} ELSE {"dangling", "containers"}
WithFlags(terms, kinds) ==
    OfKind(terms, "label") \cup {[kind |-> k, value |-> k = "dangling"] : k \in kinds}
Gone(field) == DOMAIN tables[field] \ DOMAIN tables'[field]
PrunesListed ==
    /\ [][Calls("cmd_image_prune") /\ answer' = Done =>
         \A terms \in Terms(ImageFilters) :
            Kinds(terms) \subseteq {"label"}
            /\ tables' = prune_images_and_reclaim(tables, "all" \in Passed, terms) =>
                Gone("images") = cmd_images(tables.containers, tables.images,
                                            WithFlags(terms, UnusedFlags("all" \in Passed)))
         ]_vars
    /\ [][Calls("cmd_volume_prune") /\ answer' = Done =>
         \A terms \in Terms(VolumeFilters) :
            parse_volume_prune_filters(terms) /\ VolumeTermsResolve(tables.volumes, terms)
            /\ tables' = cmd_volume_prune(tables, terms) =>
                Gone("volumes") = cmd_volume_ls(tables.containers, tables.volumes,
                                                terms \cup WithFlags({}, {"dangling"}))
         ]_vars

(* No container has more privilege than was asked for: without --privileged its
   capabilities are the default ones and those added, none of them dropped (ALL drops
   the default ones); it runs
   without a seccomp filter only when told to; and a process that joins it gets no
   capability that the container lacks, and is root in it or nobody. *)
Confined ==
    /\ answer.is = "spec" =>
         LET o == answer.asked  caps == answer.spec.process.bounding
             privileged == IsGiven(o, {"privileged"}) IN
         /\ \/ privileged \/ "ALL" \in Added(o)
            \/ caps \subseteq podman_default_capabilities \cup Added(o)
         /\ IF "ALL" \in Dropped(o) THEN caps \subseteq Added(o) ELSE caps \cap Dropped(o) = {}
         /\ answer.spec.process.effective = caps /\ answer.spec.process.permitted = caps
         /\ answer.spec.seccomp = None =>
                \/ privileged
                \/ \E t \in ToSet(Asked(o, "security-opt", <<>>)) : t.value = "unconfined"
    /\ answer.is = "exec" =>
         /\ answer.request.user.uid = 0
         /\ ~IsGiven(answer.asked, {"privileged"}) =>
                answer.request.capabilities.effective \subseteq answer.process.bounding
         /\ answer.process.no_new_privileges => answer.request.no_new_privileges

(* Options that meet are merged as the user would read them: the last value of a
   variable wins over the image's, the host's and the file's; memory and swap together
   are no less than memory; no tmpfs has both options of a pair or the place of another
   mount; the soft limit the host allows is within the hard one; an entry point that is
   given takes the image's command away; and an update that names no command leaves the
   words of a health check of the engine's own making alone. *)
MergedAsAsked ==
    /\ answer.is = "spec" =>
         LET o == answer.asked  process == answer.spec.process  res == answer.spec.resources IN
         /\ EnvHas(process.env, Asked(o, "env-file", <<>>) \o Asked(o, "env", <<>>))
         /\ res # None => (res.limits # None => SwapCovers(res.limits.memory))
         /\ TmpfsConsistent(answer.spec.mounts)
         /\ \A r \in ToSet(process.rlimits) : r.soft <= Ceiling => r.soft <= r.hard
         /\ process.args # <<>>
         /\ IsGiven(o, {"entrypoint"}) /\ ~IsGiven(o, {"args"}) =>
                process.args = parse_entrypoint(o["entrypoint"])
    /\ answer.is = "exec" =>
         LET o == answer.asked
         IN EnvHas(answer.request.env, Asked(o, "env-file", <<>>) \o Asked(o, "env", <<>>))
    /\ answer.is = "updated" =>
         /\ answer.resources # None => SwapCovers(answer.resources.memory)
         /\ ~IsGiven(answer.asked, {"health-cmd", "no-healthcheck"})
            /\ answer.before # None /\ Shaped(answer.before.test) =>
                HealthWords(answer.after.test) = HealthWords(answer.before.test)

(* The same resources mean the same limits whether systemd sets them, when ociman
   launches a container, or the files are written, when it updates it (a memory limit of
   zero is no limit to the files and no memory to systemd). *)
AnswerResources ==
    CASE answer.is = "updated" -> answer.resources
      [] answer.is = "spec" -> (IF answer.spec.resources = None THEN None
                                ELSE answer.spec.resources.limits)
      [] OTHER -> None
DriversAgree ==
    LET r == AnswerResources
        files == apply(<<>>, plan_resources(r), NoBfq).files IN
    r # None =>
        \/ r.memory # None /\ r.memory.limit = 0
        \/ GroupLimits(files).cpus = Invalid
        \/ GroupLimits(files) = ScopeLimits(AsFunction(resource_properties(r)))
=============================================================================
