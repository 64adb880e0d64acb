-------------------------------- MODULE Build --------------------------------
(***************************************************************************)
(* ociman build: the stages a target needs are built one after the other,  *)
(* each instruction from the cache or by executing it, and the target is   *)
(* recorded as an image, which later builds find as a base and as a source *)
(* of cached layers.  Between builds the context is edited and images are  *)
(* removed and collected.                                                  *)
(*                                                                         *)
(* Auxiliary: run.pure is a copy of the stage's root directory in which    *)
(* every instruction is executed and nothing comes from the cache;         *)
(* run.asked holds what this build and those behind the images of the      *)
(* store were asked for that no cache key contains, run.seen the files     *)
(* they copied.  made keeps both for every image a build recorded, and the *)
(* root directory it was recorded from.                                    *)
(***************************************************************************)
EXTENDS Layers, Dockerfile

CONSTANTS
    Requests,       \* the builds that are asked for
    Contexts,       \* the states the build context may be edited to
    Registry,       \* the images that can be pulled: name |-> image
    Remote,         \* what the URLs of ADD answer: name |-> data
    HostEnv,        \* the environment of ociman: name |-> text
    HostsPath,      \* the files a build writes for its RUN steps: the
    ResolvPath,     \* names of hosts, and the resolver
    MaxBuilds, MaxEdits

(* The cache tells images apart by their history alone.                    *)
ASSUME HistoriesTellApart ==
    \A m, n \in DOMAIN Registry :
        Registry[m].config.history = Registry[n].config.history => Registry[m] = Registry[n]

VARIABLES images, blobs, context, run, made, builds, edits
vars == <<images, blobs, context, run, made, builds, edits>>

Idle == [pc |-> "idle"]
Active == run.pc # "idle"

(***************************************************************************)
(* Options.                                                                *)
(***************************************************************************)

(* parse_build_args: K=V sets, a bare K takes the host's value or unsets.  *)
ParseBuildArgs(args) ==
    FoldLeft(LAMBDA m, a :
                CASE a.has -> Bound(m, a.key, a.text)
                  [] a.key \in DOMAIN HostEnv -> Bound(m, a.key, HostEnv[a.key])
                  [] OTHER -> Restrict(m, DOMAIN m \ {a.key}),
             <<>>, args)

(* parse_key_value_pairs: the place of the first, the value of the last.   *)
ParseKeyValuePairs(pairs) ==
    FoldLeft(LAMBDA m, p : Bound(m, p.key, p.text), <<>>, pairs)

(* The first file of these names that the context has; "" for none.        *)
ResolveDockerfilePath(explicit, present) ==
    CASE explicit # "" -> IF explicit \in present THEN explicit ELSE ""
      [] "Containerfile" \in present -> "Containerfile"
      [] "Dockerfile" \in present -> "Dockerfile"
      [] OTHER -> ""

(* An explicit ignore file, else .containerignore, else .dockerignore.     *)
ReadIgnorePatterns(ignore) ==
    CASE "explicit" \in DOMAIN ignore -> ignore["explicit"]
      [] ".containerignore" \in DOMAIN ignore -> ignore[".containerignore"]
      [] ".dockerignore" \in DOMAIN ignore -> ignore[".dockerignore"]
      [] OTHER -> <<>>

CombineIgnoreWithExclude(patterns, exclude) ==
    patterns \o [i \in DOMAIN exclude |-> [segments |-> Atoms(exclude[i]), negated |-> FALSE]]

(***************************************************************************)
(* Paths.                                                                  *)
(***************************************************************************)
Components(text) == SelectSeq(Atoms(text), LAMBDA a : a \notin {"/", "."})
EndsWithSlash(text) == text # <<>> /\ Last(text).v = "/"
SafeJoin(text) == ".." \notin Range(Atoms(text))

NormalizeAbsolutePath(atoms) ==
    FoldLeft(LAMBDA p, a : CASE a \in {"/", "."} -> p
                             [] a = ".." -> IF p = <<>> THEN p ELSE Front(p)
                             [] OTHER -> Append(p, a),
             <<>>, atoms)

ResolveWorkdir(current, text) ==
    LET atoms == Atoms(text)
    IN IF atoms # <<>> /\ atoms[1] = "/" THEN NormalizeAbsolutePath(atoms)
       ELSE NormalizeAbsolutePath(current \o atoms)

(* The text a history entry keeps: words joined by blanks.                 *)
Join(texts) ==
    FlattenSeq([i \in DOMAIN texts |-> IF i = 1 THEN Atoms(texts[i])
                                       ELSE <<" ">> \o Atoms(texts[i])])
FormatPairs(pairs) ==
    Join([i \in DOMAIN pairs |-> Text(<<pairs[i].key, "=">>) \o pairs[i].text])

(***************************************************************************)
(* The image configuration a build changes, and its history.               *)
(***************************************************************************)
ScratchBaseConfig ==
    [env |-> [PATH |-> Text(<<"bin">>)], labels |-> <<>>, dir |-> <<>>, user |-> <<>>,
     entry |-> <<>>, cmd |-> <<>>, ports |-> {}, volumes |-> {}, stop |-> <<>>,
     author |-> <<>>, health |-> <<>>, onBuild |-> <<>>, diffIds |-> <<>>, history |-> <<>>]

Entry(by, digest, empty) == [by |-> by, digest |-> digest, empty |-> empty]

RecordEmptyHistory(cfg, by, omit) ==
    IF omit THEN cfg ELSE [cfg EXCEPT !.history = Append(@, Entry(by, <<>>, TRUE))]

DefaultShell == <<Text(<<"sh">>), Text(<<"-c">>)>>

(* args_for and args_for_run: the shell form is one argument of the shell. *)
ArgsFor(ins, shell) ==
    IF ins.exec THEN ins.words ELSE Append(shell, FlattenSeq(ins.words))

SetPairs(map, pairs) == FoldLeft(LAMBDA m, p : Bound(m, p.key, p.text), map, pairs)

(* What apply_instruction sets for the instructions that only configure.   *)
Configured(cfg, ins) ==
    CASE ins.op = "ENV" -> [cfg EXCEPT !.env = SetPairs(@, ins.pairs)]
      [] ins.op = "LABEL" -> [cfg EXCEPT !.labels = SetPairs(@, ins.pairs)]
      [] ins.op = "WORKDIR" -> [cfg EXCEPT !.dir = ResolveWorkdir(@, ins.words[1])]
      [] ins.op = "USER" -> [cfg EXCEPT !.user = ins.words[1]]
      [] ins.op = "ENTRYPOINT" -> [cfg EXCEPT !.entry = ArgsFor(ins, DefaultShell)]
      [] ins.op = "CMD" -> [cfg EXCEPT !.cmd = ArgsFor(ins, DefaultShell)]
      [] ins.op = "EXPOSE" -> [cfg EXCEPT !.ports = @ \cup Range(ins.words)]
      [] ins.op = "VOLUME" -> [cfg EXCEPT !.volumes = @ \cup Range(ins.words)]
      [] ins.op = "STOPSIGNAL" -> [cfg EXCEPT !.stop = ins.words[1]]
      [] ins.op = "MAINTAINER" -> [cfg EXCEPT !.author = ins.words[1]]
      [] ins.op = "HEALTHCHECK" -> [cfg EXCEPT !.health = <<ins.words, ins.health>>]
      [] ins.op = "ONBUILD" -> [cfg EXCEPT !.onBuild = @ \o ins.trigger]
      [] OTHER -> cfg

(* Its history text, written from the new configuration.                   *)
ConfiguredBy(cfg, ins) ==
    <<ins.op, " ">> \o
    CASE ins.op \in {"ENV", "LABEL"} -> FormatPairs(ins.pairs)
      [] ins.op = "WORKDIR" -> <<"/">> \o Configured(cfg, ins).dir
      [] ins.op \in {"ENTRYPOINT", "CMD"} -> Join(ArgsFor(ins, DefaultShell))
      [] ins.op = "ONBUILD" -> <<ins.trigger[1].op, " ">> \o Join(Texts(ins.trigger[1].words))
      [] OTHER -> Join(ins.words)

(* record_layer and what it appends.                                       *)
RecordLayer(r, blob, entry, omit) ==
    [r EXCEPT !.layers = Append(@, blob),
              !.config.diffIds = Append(@, DiffId(blob.tar)),
              !.config.history = IF omit THEN @ ELSE Append(@, entry)]

(***************************************************************************)
(* The cache.                                                              *)
(***************************************************************************)

HistoryPrefixMatches(candidate, current) ==
    /\ Len(candidate.history) > Len(current)
    /\ \A i \in DOMAIN current : candidate.history[i] = current[i]

(* find_cached_layer: every layer some candidate offers for an entry.      *)
FindCachedLayer(cands, config, layers, entry) ==
    {c.layers[Len(layers) + 1] :
        c \in {c \in cands : /\ HistoryPrefixMatches(c.config, config.history)
                             /\ c.config.history[Len(config.history) + 1] = entry
                             /\ Len(c.layers) > Len(layers)
                             /\ Len(c.config.diffIds) > Len(layers)}}

(* hash_path: the kind, the path and the bytes below p; an ignored entry   *)
(* is left out, and what is below it too unless some pattern is negated.   *)
HashPath(tree, p, patterns) ==
    LET open(q) == \A u \in Parents(q) \cup {q} :
                        Below(u, p) => ~IsIgnored(patterns, u) \/ (u # q /\ HasNegation(patterns))
    IN {[path |-> q, kind |-> tree[q].kind, data |-> tree[q].data] :
            q \in {q \in DOMAIN tree : Below(q, p) /\ open(q)}}

ContentDigest(tree, sources, patterns) ==
    [i \in DOMAIN sources |-> HashPath(tree, sources[i], patterns)]

(***************************************************************************)
(* RUN.                                                                    *)
(***************************************************************************)

(* build_arg_overlay: the arguments that no ENV of the image hides.        *)
BuildArgOverlay(env, args) == SelectSeq(args, LAMBDA a : a.key \notin DOMAIN env)

ProxyEnvNames == {"http_proxy", "https_proxy", "ftp_proxy", "no_proxy",
                  "HTTP_PROXY", "HTTPS_PROXY", "FTP_PROXY", "NO_PROXY"}

(* A step's environment: the proxy variables of ociman's own come last and *)
(* hide nothing.                                                           *)
RunEnv(cfg, overlay, req) ==
    LET own == SetPairs(IF cfg.env = <<>> THEN ScratchBaseConfig.env ELSE cfg.env, overlay)
        proxies == {n \in DOMAIN HostEnv : n \in ProxyEnvNames /\ req.httpProxy}
    IN [n \in DOMAIN own \cup proxies |-> IF n \in DOMAIN own THEN own[n] ELSE HostEnv[n]]

(* Mutant: the arguments a RUN sees are not part of its history text.      *)
RunByCommand(ins, cfg, args, shell) == Entry(<<"RUN ">> \o Join(ArgsFor(ins, shell)), <<>>, FALSE)

RunBy(ins, cfg, args, shell) ==
    LET overlay == BuildArgOverlay(cfg.env, args)
    IN Entry(<<"RUN ">> \o (IF overlay = <<>> THEN <<>> ELSE <<"|">> \o FormatPairs(overlay))
             \o Join(ArgsFor(ins, shell)), <<>>, FALSE)

(* The command, which ociman does not know: "mk" writes a file that        *)
(* depends on its environment, on the files it reads and on the limits it  *)
(* runs under (--ulimit, --shm-size, --memory), "rm" removes a path, "ln"  *)
(* puts a link in the place of one, "fail" exits with an error.            *)
Execute(args, env, cfg, tree, limits, stamp) ==
    LET words == Atoms(Last(args))
        at == cfg.dir \o <<words[2]>>
        file(p) == IF p \in DOMAIN tree THEN tree[p].data ELSE <<>>
        var(n) == IF n \in DOMAIN env THEN Atoms(env[n]) ELSE <<>>
        sees == file(<<"s">>) \o file(HostsPath) \o file(ResolvPath)
                \o var("V") \o var("http_proxy") \o limits
        up == CreateDirAll(tree, cfg.dir, stamp)
        where == Append(Directory(up.tree, cfg.dir).at, words[2])
    IN CASE words[1] = "fail" -> [ok |-> FALSE, tree |-> tree]
         [] words[1] = "mk" ->
                [ok |-> up.ok,
                 tree |-> With(WithoutTree(up.tree, where), where,
                               Node("file", "rw", <<"made">> \o sees, stamp))]
         [] words[1] = "rm" -> [ok |-> TRUE, tree |-> WithoutTree(tree, at)]
         [] OTHER -> [ok |-> TRUE, tree |-> With(WithoutTree(tree, at), at,
                                                 Node("link", "rw", <<words[3]>>, stamp))]

(***************************************************************************)
(* COPY and ADD.                                                           *)
(***************************************************************************)
Modes == {"rw", "rx"}
ChmodGood(text) == text = <<>> \/ Atoms(text) \in {<<m>> : m \in Modes}

(* expand_wildcard_source and walk_relative_paths.                         *)
ExpandWildcardSource(tree, text, patterns) ==
    InOrder({q \in DOMAIN tree :
                /\ MatchesSegments(Components(text), q)
                /\ ~IsIgnored(patterns, q)
                /\ \A u \in Parents(q) : ~IsIgnored(patterns, u) \/ HasNegation(patterns)})

(* resolve_sources: the sources in order, a pattern as all it matches.     *)
ResolveSources(tree, texts, patterns) ==
    FlattenSeq([i \in DOMAIN texts |->
        IF "*" \in Range(Atoms(texts[i])) THEN ExpandWildcardSource(tree, texts[i], patterns)
        ELSE <<Components(texts[i])>>])

PatternsMatch(tree, texts, patterns) ==
    \A i \in DOMAIN texts : "*" \in Range(Atoms(texts[i]))
        => ExpandWildcardSource(tree, texts[i], patterns) # <<>>

EnsureSourcesExist(tree, sources, patterns) ==
    \A i \in DOMAIN sources : sources[i] \in DOMAIN tree /\ ~IsIgnored(patterns, sources[i])

(* One file or link put at dest: an existing link there is followed by a   *)
(* file and replaced by a link, a directory there is an error.             *)
PutNode(r, node, dest, stamp) ==
    LET up == CreateDirAll(r.tree, Front(dest), stamp)
        at == Append(Directory(up.tree, Front(dest)).at, Last(dest))
        to == IF at \in DOMAIN up.tree /\ up.tree[at].kind = "link" /\ node.kind = "file"
              THEN up.tree[at].data ELSE at
    IN IF ~r.ok \/ ~up.ok \/ (to \in DOMAIN up.tree /\ up.tree[to].kind = "dir")
       THEN [ok |-> FALSE, tree |-> up.tree]
       ELSE [ok |-> TRUE, tree |-> With(up.tree, to, [node EXCEPT !.stamp = stamp])]

CopyNode(r, node, dest, chmod, stamp) ==
    LET mode == IF chmod = <<>> THEN node.mode ELSE chmod[1].v
        made_ == CreateDirAll(r.tree, dest, stamp)
        at == Directory(made_.tree, dest).at
    IN CASE ~r.ok -> r
         [] node.kind # "dir" ->
                PutNode(r, IF node.kind = "file" THEN [node EXCEPT !.mode = mode] ELSE node,
                        dest, stamp)
         [] ~made_.ok \/ chmod = <<>> \/ at = <<>> -> made_
         [] OTHER -> [made_ EXCEPT !.tree[at].mode = mode]

(* copy_path_recursive, entry by entry, a directory before what it holds.  *)
CopyPathRecursive(r, tree, p, dest, chmod, patterns, stamp) ==
    LET kept == {e.path : e \in HashPath(tree, p, patterns)}
    IN FoldLeft(LAMBDA s, q : CopyNode(s, tree[q], dest \o SubSeq(q, Len(p) + 1, Len(q)),
                                       chmod, stamp),
                r, InOrder(kept))

(* Where a source goes: below a directory that exists or is asked for.     *)
TargetOf(r, node, name, at, slash) ==
    IF node.kind # "dir" /\ (slash \/ Directory(r.tree, at).st = "dir")
    THEN Append(at, name) ELSE at

(* An archive an ADD unpacks holds one file.                               *)
Unpacked(node, dest) ==
    <<[what |-> "entry", path |-> Append(dest, "u"),
       node |-> Node("file", "rw", node.data, 0), to |-> <<>>]>>

AddNode(r, tree, p, at, ins, patterns, stamp) ==
    LET up == CreateDirAll(r.tree, at, stamp)
        s == ApplyTar(Unpacked(tree[p], at), up.tree, TRUE, stamp)
    IN IF ins.op = "ADD" /\ DetectArchive(tree[p]) # "no"
       THEN [ok |-> r.ok /\ up.ok /\ s.ok, tree |-> s.tree]
       ELSE CopyPathRecursive(r, tree, p,
                TargetOf(r, tree[p], Last(p), at, EndsWithSlash(ins.dest)),
                ins.chmod, patterns, stamp)

IsRemoteUrl(text) == text[1].v = "url"

(* A download goes into a new file.                                        *)
AddUrl(r, text, at, ins, stamp) ==
    LET name == text[2].v
        mode == IF ins.chmod = <<>> THEN "rw" ELSE ins.chmod[1].v
        dest == IF EndsWithSlash(ins.dest) \/ Directory(r.tree, at).st = "dir"
                THEN Append(at, name) ELSE at
        node == Node("file", mode, Remote[name], stamp)
    IN IF ~r.ok \/ name \notin DOMAIN Remote \/ dest \in DOMAIN r.tree
          \/ (ins.checksum # <<>> /\ Atoms(ins.checksum) # Remote[name])
       THEN [r EXCEPT !.ok = FALSE]
       ELSE PutNode(r, node, dest, stamp)

(* What the two instructions need to know before they touch the root.      *)
CopyPlan(ins, tree, patterns) ==
    LET local == SelectSeq(ins.words, LAMBDA t : ~(ins.op = "ADD" /\ IsRemoteUrl(t)))
        urls == SelectSeq(ins.words, LAMBDA t : ins.op = "ADD" /\ IsRemoteUrl(t))
        sources == ResolveSources(tree, local, patterns)
    IN [sources |-> sources, urls |-> urls,
        ok |-> /\ ChmodGood(ins.chmod)
               /\ \A i \in DOMAIN local : SafeJoin(local[i])
               /\ PatternsMatch(tree, local, patterns)
               /\ Len(sources) + Len(urls) = 1 \/ EndsWithSlash(ins.dest)
               /\ ins.checksum # <<>> => Len(urls) = 1 /\ sources = <<>>
               /\ EnsureSourcesExist(tree, sources, patterns)]

CopyInto(r, ins, plan, tree, cfg, patterns, stamp) ==
    LET at == ResolveWorkdir(cfg.dir, ins.dest)
        fetched == FoldLeft(LAMBDA s, t : AddUrl(s, t, at, ins, stamp), r, plan.urls)
    IN FoldLeft(LAMBDA s, p : AddNode(s, tree, p, at, ins, patterns, stamp),
                fetched, plan.sources)

(* copy_add_command_text with the digest of the sources; no digest, and no *)
(* look into the cache, when a URL is among them.                          *)
CopyBy(ins, plan, tree, patterns) ==
    Entry(<<ins.op>> \o (IF ins.from = <<>> THEN <<>> ELSE <<" --from=">> \o Atoms(ins.from))
          \o (IF ins.chmod = <<>> THEN <<>> ELSE <<" --chmod=">> \o Atoms(ins.chmod))
          \o (IF ins.chown = <<>> THEN <<>> ELSE <<" --chown=">> \o Atoms(ins.chown))
          \o <<" ">> \o Join(ins.words) \o <<" ">> \o Atoms(ins.dest),
          IF plan.urls = <<>> THEN ContentDigest(tree, plan.sources, patterns) ELSE <<>>, FALSE)

(***************************************************************************)
(* A build.                                                                *)
(***************************************************************************)

(* The image a name stands for: stored, or pulled from the registry.       *)
Known(name) == name \in DOMAIN images \cup DOMAIN Registry
ResolveOrPull(name) == IF name \in DOMAIN images THEN images[name] ELSE Registry[name]
PullsInto(names) ==
    /\ images' = [n \in DOMAIN images \cup names |-> ResolveOrPull(n)]
    /\ blobs' = blobs \cup UNION {Range(ResolveOrPull(n).layers) : n \in names}

Abort == run' = Idle /\ UNCHANGED <<images, blobs, made>>

(* What cmd_build works out before the first stage.                        *)
Prepared(req) ==
    LET file == ParseFile(req.files[ResolveDockerfilePath(req.file, DOMAIN req.files)])
        g == GroupStages(file.list)
        overrides == ParseBuildArgs(req.args)
        globals == ExpandMetaArgs(g.meta, overrides)
        deps == ResolveDependencies(g.stages)
        copies == ResolveCopyFromDependencies(g.stages)
        target == IF req.target = <<>> THEN Len(g.stages) ELSE FindStage(g.stages, req.target)
    IN IF /\ file.ok /\ g.ok /\ g.stages # <<>> /\ globals.ok /\ target # 0
       THEN [ok |-> TRUE, stages |-> g.stages, overrides |-> overrides, globals |-> globals.env,
             deps |-> deps, target |-> target,
             todo |-> StagesNeededFor(deps, copies, target),
             copied |-> UNION Range(copies),
             unused |-> DOMAIN overrides \ DeclaredArgNames(g.meta, g.stages)]
       ELSE [ok |-> FALSE]

(* What a request asks that reaches its steps, or the images later builds  *)
(* start from, and that no history entry tells.                            *)
Unkeyed(req) ==
    [proxy |-> req.httpProxy, hosts |-> IF req.noHosts THEN <<"none">> ELSE req.hosts,
     dns |-> req.dns, limits |-> req.limits, omit |-> req.omit, unset |-> req.unsetEnv]

OptionsGood(req) ==
    /\ ~(req.squash /\ req.squashAll)
    /\ ResolveDockerfilePath(req.file, DOMAIN req.files) # ""

StartBuild(req) ==
    /\ ~Active
    /\ builds < MaxBuilds
    /\ builds' = builds + 1
    /\ UNCHANGED <<context, edits>>
    /\ IF ~OptionsGood(req) THEN Abort
       ELSE \E p \in {Prepared(req)} :
               IF ~p.ok THEN Abort
               ELSE /\ run' = [pc |-> "stage", req |-> req, plan |-> p, todo |-> p.todo,
                               ignore |-> ReadIgnorePatterns(req.ignore),
                               cands |-> IF req.noCache \/ req.squash \/ req.squashAll THEN {}
                                         ELSE Range(images),
                               built |-> <<>>, baseLabels |-> <<>>, clock |-> 1,
                               asked |-> {Unkeyed(req)} \cup UNION {made[n].asked : n \in DOMAIN made},
                               seen |-> UNION {made[n].seen : n \in DOMAIN made}]
                    /\ UNCHANGED <<images, blobs, made>>

(* The base of the next stage: an earlier one, nothing, or an image.       *)
FromStage(n) == run.plan.deps[n] # 0
FromScratch(stage) == Atoms(stage.base) = <<"scratch">>
BaseName(stage) == stage.base[1].v

PlatformMatches(stage) ==
    LET asked == IF stage.platform # <<>> THEN stage.platform ELSE run.req.platform
    IN asked = <<>> \/ Atoms(asked) = <<"host">>

BaseOf(n, stage) ==
    CASE FromStage(n) -> [config |-> run.built[run.plan.deps[n]].config,
                          layers |-> run.built[run.plan.deps[n]].layers]
      [] FromScratch(stage) -> [config |-> ScratchBaseConfig, layers |-> <<>>]
      [] OTHER -> ResolveOrPull(BaseName(stage))

(* The root directory of a stage: its base, and the files that only the    *)
(* steps of the build see.                                                 *)
WithFile(tree, at, data, stamp) == With(tree, at, Node("file", "rw", data, stamp))

WithHosts(tree, req, stamp) ==
    IF req.noHosts THEN tree
    ELSE WithFile(tree, HostsPath, <<"build host">> \o req.hosts, stamp)

WithResolv(tree, req, stamp) ==
    IF req.dns = <<"none">> THEN tree ELSE WithFile(tree, ResolvPath, req.dns, stamp)

(* clone_cache_tree: modes, links and shared inodes are kept, owners and   *)
(* times are not.                                                          *)
CloneCacheTree(tree, stamp) ==
    [p \in DOMAIN tree |-> [tree[p] EXCEPT !.stamp = stamp, !.owner = "self"]]

RootOf(image, tree, stamp) == IF image THEN CloneCacheTree(tree, stamp) ELSE tree

HasFsInstructions(list) == \E i \in DOMAIN list : list[i].op \in {"RUN", "COPY", "ADD"}

(* What BeginStage knows of a stage once its base is there: the triggers   *)
(* of the base come before its own instructions.                           *)
Triggers(base) == [i \in DOMAIN base.config.onBuild |-> ParseInstruction(base.config.onBuild[i])]
WithTriggers(triggers, list) == [i \in DOMAIN triggers |-> triggers[i].ins] \o list

Squash(n) == run.req.squash /\ n = run.plan.target
SquashAll(n) == run.req.squashAll /\ n = run.plan.target

NeedsRootfs(n, list) ==
    \/ n \in run.plan.copied
    \/ HasFsInstructions(list)
    \/ Squash(n) /\ list # <<>>
    \/ SquashAll(n)

Opened(n, base, list, rooted, root) ==
    [pc |-> "step", req |-> run.req, plan |-> run.plan, todo |-> run.todo \ {n},
     ignore |-> run.ignore, cands |-> run.cands, built |-> run.built,
     baseLabels |-> IF n = run.plan.target THEN base.config.labels ELSE run.baseLabels,
     clock |-> run.clock + 1, at |-> n, list |-> list,
     config |-> [base.config EXCEPT !.onBuild = <<>>], layers |-> base.layers,
     args |-> <<>>, shell |-> DefaultShell, rooted |-> rooted, root |-> root, pure |-> root,
     asked |-> run.asked, seen |-> run.seen,
     squash |-> Squash(n), squashAll |-> SquashAll(n), baseLayers |-> Len(base.layers),
     baseHistory |-> Len(base.config.history), before |-> Capture(root)]

BeginStage ==
    /\ Active /\ run.pc = "stage" /\ run.todo # {}
    /\ \E n \in {Min(run.todo)} :
       \E e \in {ExpandStage(run.plan.globals, run.plan.overrides, run.plan.stages[n])} :
       \E image \in {~FromStage(n) /\ ~FromScratch(e.stage)} :
          IF \/ ~e.ok
             \/ image /\ (~PlatformMatches(e.stage) \/ ~Known(BaseName(e.stage)))
          THEN Abort
          ELSE \E base \in {BaseOf(n, e.stage)} :
               \E triggers \in {Triggers(base)} :
               \E list \in {WithTriggers(triggers, e.stage.list)} :
               \E rooted \in {NeedsRootfs(n, list)} :
               \E laid \in {ApplyAll(base.layers, run.clock)} :
                  IF \/ \E i \in DOMAIN triggers : ~triggers[i].ok
                     \/ rooted /\ ~laid.ok
                  THEN Abort
                  ELSE /\ IF image THEN PullsInto({BaseName(e.stage)})
                          ELSE UNCHANGED <<images, blobs>>
                       /\ UNCHANGED made
                       /\ \E root \in {IF ~rooted THEN <<>>
                                       ELSE WithResolv(WithHosts(RootOf(image, laid.tree, run.clock),
                                                                 run.req, run.clock),
                                                       run.req, run.clock)} :
                              run' = Opened(n, base, list, rooted, root)
    /\ UNCHANGED <<context, builds, edits>>

(* One instruction.                                                        *)
Stepping == Active /\ run.pc = "step" /\ run.list # <<>>
Now == run.list[1]
Done(r) == [r EXCEPT !.list = Tail(@), !.clock = @ + 1]

ArgInstruction ==
    /\ Stepping /\ Now.op = "ARG"
    /\ run' = Done([run EXCEPT !.args = FoldLeft(LAMBDA s, p :
                        IF p.has THEN Append(SelectSeq(s, LAMBDA a : a.key # p.key), p) ELSE s,
                        @, Now.pairs)])
    /\ UNCHANGED <<images, blobs, context, made, builds, edits>>

ConfigInstruction ==
    /\ Stepping /\ Now.op \notin {"ARG", "RUN", "COPY", "ADD"}
    /\ run' = Done([run EXCEPT
            !.config = RecordEmptyHistory(Configured(@, Now), ConfiguredBy(@, Now), run.req.omit),
            !.shell = IF Now.op = "SHELL" THEN Now.words ELSE @])
    /\ UNCHANGED <<images, blobs, context, made, builds, edits>>

(* reuse_cached_layer: the history entry is kept even by --omit-history.   *)
(* r is run with the auxiliary fields as the step leaves them.             *)
Reuse(r, blob, entry) ==
    \E a \in {ApplyBlob(blob, run.root, run.clock)} :
       IF blob \notin blobs \/ ~a.ok THEN Abort
       ELSE /\ run' = Done([RecordLayer(r, blob, entry, FALSE) EXCEPT !.root = a.tree])
            /\ UNCHANGED <<images, blobs, made>>

(* The difference to the snapshot becomes a layer of the store.            *)
Commit(r, after, entry) ==
    \E blob \in {CompressForStorage(Export(after, Changes(after, Capture(run.root))))} :
       /\ run' = Done([RecordLayer(r, blob, entry, run.req.omit) EXCEPT !.root = after])
       /\ blobs' = blobs \cup {blob}
       /\ UNCHANGED <<images, made>>

(* From the cache when some candidate has the step, else by executing it.  *)
CachedOrExecuted(r, hits, entry, live) ==
    \/ \E blob \in hits : Reuse(r, blob, entry)
    \/ hits = {} /\ live.ok /\ Commit(r, live.tree, entry)
    \/ hits = {} /\ ~live.ok /\ Abort

RunInstruction ==
    /\ Stepping /\ Now.op = "RUN"
    /\ \E args \in {ArgsFor(Now, run.shell)} :
       \E env \in {RunEnv(run.config, BuildArgOverlay(run.config.env, run.args), run.req)} :
       \E entry \in {RunBy(Now, run.config, run.args, run.shell)} :
       \E hits \in {FindCachedLayer(run.cands, run.config, run.layers, entry)} :
       \E live \in {Execute(args, env, run.config, run.root, run.req.limits, run.clock)} :
       \E pure \in {Execute(args, env, run.config, run.pure, run.req.limits, run.clock)} :
          CachedOrExecuted([run EXCEPT !.pure = pure.tree], hits, entry, live)
    /\ UNCHANGED <<context, builds, edits>>

(* The source of a COPY: the context, a built stage, or another image.     *)
StageSource(ins) == FindStage(run.plan.stages, ins.from)
FromBuilt(ins) == /\ StageSource(ins) \in DOMAIN run.built
                  /\ run.built[StageSource(ins)].rooted

ExternalImageSourceRoot(name) == ApplyAll(ResolveOrPull(name).layers, 0)

SourceRoot(ins) ==
    CASE ins.from = <<>> -> context
      [] FromBuilt(ins) -> run.built[StageSource(ins)].root
      [] OTHER -> ExternalImageSourceRoot(ins.from[1].v).tree

PureSource(ins, tree) ==
    IF ins.from # <<>> /\ FromBuilt(ins) THEN run.built[StageSource(ins)].pure ELSE tree

External(ins) == ins.from # <<>> /\ ~FromBuilt(ins)

(* The files below the sources, with the mode that their digest leaves out. *)
FilesOf(tree, sources) ==
    {[path |-> q, data |-> tree[q].data, mode |-> tree[q].mode] :
        q \in {q \in DOMAIN tree : /\ tree[q].kind = "file"
                                  /\ \E p \in Range(sources) : Below(q, p)}}

CopyInstruction ==
    /\ Stepping /\ Now.op \in {"COPY", "ADD"}
    /\ \E ins \in {Now} :
          IF External(ins) /\ ~Known(ins.from[1].v) THEN Abort
          ELSE \E tree \in {SourceRoot(ins)} :
               \E patterns \in {CombineIgnoreWithExclude(
                                   IF ins.from = <<>> THEN run.ignore ELSE <<>>, ins.exclude)} :
               \E plan \in {CopyPlan(ins, tree, patterns)} :
                  IF ~plan.ok THEN Abort
                  ELSE \E entry \in {CopyBy(ins, plan, tree, patterns)} :
                       \E hits \in {IF plan.urls # <<>> THEN {}
                                    ELSE FindCachedLayer(run.cands, run.config, run.layers, entry)} :
                       \E live \in {CopyInto([ok |-> TRUE, tree |-> run.root], ins, plan, tree,
                                             run.config, patterns, run.clock)} :
                       \E pure \in {CopyInto([ok |-> TRUE, tree |-> run.pure], ins, plan,
                                             PureSource(ins, tree), run.config, patterns, run.clock)} :
                          CachedOrExecuted([run EXCEPT !.pure = pure.tree,
                                                       !.seen = @ \cup FilesOf(tree, plan.sources)],
                                           hits, entry, live)
    /\ UNCHANGED <<context, builds, edits>>

(* The layer that --squash and --squash-all put in the place of others.    *)
SquashedLayer ==
    CompressForStorage(IF run.squashAll THEN ExportTree(run.root, {})
                       ELSE Export(run.root, Changes(run.root, run.before)))

SquashedHistory ==
    LET kept == IF run.squashAll THEN <<>> ELSE SubSeq(run.config.history, 1, run.baseHistory)
        own == SubSeq(run.config.history, run.baseHistory + 1, Len(run.config.history))
        marked == [i \in DOMAIN own |-> [own[i] EXCEPT !.empty = i # Len(own)]]
    IN kept \o (IF own = <<>> THEN <<Entry(<<"ociman build --squash-all">>, <<>>, FALSE)>>
                ELSE marked)

Squashes == run.squashAll \/ (run.squash /\ Len(run.config.history) > run.baseHistory)

KeptLayers == IF run.squashAll THEN 0 ELSE run.baseLayers

EndStage ==
    /\ Active /\ run.pc = "step" /\ run.list = <<>>
    /\ \E blob \in {SquashedLayer} :
       \E stage \in {IF ~Squashes
                     THEN [config |-> run.config, layers |-> run.layers,
                           rooted |-> run.rooted, root |-> run.root, pure |-> run.pure]
                     ELSE [config |-> [run.config EXCEPT
                               !.diffIds = Append(SubSeq(@, 1, KeptLayers), DiffId(blob.tar)),
                               !.history = SquashedHistory],
                           layers |-> Append(SubSeq(run.layers, 1, KeptLayers), blob),
                           rooted |-> run.rooted, root |-> run.root, pure |-> run.pure]} :
          /\ run' = [pc |-> "stage", req |-> run.req, plan |-> run.plan, todo |-> run.todo,
                     ignore |-> run.ignore, cands |-> run.cands,
                     built |-> [i \in DOMAIN run.built \cup {run.at} |->
                                    IF i = run.at THEN stage ELSE run.built[i]],
                     baseLabels |-> run.baseLabels, clock |-> run.clock,
                     asked |-> run.asked, seen |-> run.seen]
          /\ blobs' = IF Squashes THEN blobs \cup {blob} ELSE blobs
    /\ UNCHANGED <<images, context, made, builds, edits>>

(* The configuration the options of the command line leave of the target's. *)
FinalConfig(cfg) ==
    LET labels == ParseKeyValuePairs(run.req.labels)
        labelled == IF run.req.labels = <<>> THEN cfg
                    ELSE RecordEmptyHistory(
                            [cfg EXCEPT !.labels = SetPairs(@, run.req.labels)],
                            <<"LABEL ">> \o FormatPairs(run.req.labels), run.req.omit)
        dropped == run.req.unsetLabel \cap DOMAIN run.baseLabels
    IN [labelled EXCEPT !.env = Restrict(@, DOMAIN @ \ run.req.unsetEnv),
                        !.labels = Restrict(@, DOMAIN @ \ dropped)]

(* The image is recorded under its tag, or under its own digest.           *)
FinishBuild ==
    /\ Active /\ run.pc = "stage" /\ run.todo = {}
    /\ LET stage == run.built[run.plan.target]
           image == [config |-> FinalConfig(stage.config), layers |-> stage.layers]
           name == IF run.req.tag = "" THEN "untagged" ELSE run.req.tag
       IN /\ images' = [n \in DOMAIN images \cup {name} |->
                            IF n = name THEN image ELSE images[n]]
          /\ made' = [n \in DOMAIN made \cup {name} |->
                            IF n = name THEN [rooted |-> stage.rooted, tree |-> stage.root,
                                              asked |-> run.asked, seen |-> run.seen]
                            ELSE made[n]]
    /\ run' = Idle
    /\ UNCHANGED <<blobs, context, builds, edits>>

(***************************************************************************)
(* Between builds.                                                         *)
(***************************************************************************)
EditContext ==
    /\ ~Active /\ edits < MaxEdits
    /\ context' \in Contexts \ {context}
    /\ edits' = edits + 1
    /\ UNCHANGED <<images, blobs, run, made, builds>>

RemoveImage ==
    /\ ~Active /\ edits < MaxEdits
    /\ \E name \in DOMAIN images :
            /\ images' = Restrict(images, DOMAIN images \ {name})
            /\ made' = Restrict(made, DOMAIN made \ {name})
    /\ edits' = edits + 1
    /\ UNCHANGED <<blobs, context, run, builds>>

CollectGarbage ==
    /\ ~Active
    /\ blobs' = blobs \cap UNION {Range(images[n].layers) : n \in DOMAIN images}
    /\ UNCHANGED <<images, context, run, made, builds, edits>>

Init ==
    /\ images = <<>> /\ blobs = {} /\ made = <<>>
    /\ context \in Contexts
    /\ run = Idle /\ builds = 0 /\ edits = 0

Next ==
    \/ \E req \in Requests : StartBuild(req)
    \/ BeginStage \/ ArgInstruction \/ ConfigInstruction \/ RunInstruction
    \/ CopyInstruction \/ EndStage \/ FinishBuild
    \/ EditContext \/ RemoveImage \/ CollectGarbage

Spec == Init /\ [][Next]_vars

(***************************************************************************)
(* Properties.                                                             *)
(***************************************************************************)
SameContent(a, b) ==
    LET seen(t) == Content(Restrict(t, DOMAIN t \ {HostsPath, ResolvPath})) IN seen(a) = seen(b)

(* No build gave --omit-history, which leaves a step out of the history    *)
(* and not out of the layers, or --unsetenv, which changes a configuration *)
(* with no entry; and all gave the same proxies, hosts, resolver and       *)
(* limits, which reach a RUN and are not part of its entry.                *)
AskedAlike ==
    \A u, v \in run.asked : u = v /\ ~u.omit /\ u.unset = {}

(* A file copied from one place with the same bytes had the same mode.     *)
ModesKept ==
    \A f, g \in run.seen : f.path = g.path /\ f.data = g.data => f.mode = g.mode

AsExecuted == SameContent(run.root, run.pure)

(* At every instruction of a build the root directory holds what it would  *)
(* hold had no layer come from the cache, whatever the files of the        *)
(* context, the arguments and the images were when the layer was made, as  *)
(* long as the builds behind the images of the store differ in nothing     *)
(* that a history entry leaves out (AskedAlike, ModesKept).                *)
CacheSound == Active /\ run.pc = "step" /\ AskedAlike /\ ModesKept => AsExecuted

(* What find_cached_layer's comment says of every hit, that it "would      *)
(* produce byte-identical output".  content_digest leaves the permission   *)
(* bits out, which "never affect a plain COPY/ADD's own copied-file mode": *)
(* they do, so after a chmod in the context the old mode comes back.       *)
CacheExact == Active /\ run.pc = "step" => AsExecuted

(* The layers a build recorded, applied to an empty directory as every     *)
(* later container does, give the root directory the build ended with; one *)
(* diff id stands for each of them, and one non-empty history entry where  *)
(* no build before gave --omit-history, at most one elsewhere.             *)
ImageRebuilds ==
    \A n \in DOMAIN made :
        LET image == images[n]
            again == ApplyAll(image.layers, 0)
            told == Len(SelectSeq(image.config.history, LAMBDA h : ~h.empty))
        IN /\ made[n].rooted => again.ok /\ SameContent(again.tree, made[n].tree)
           /\ Len(image.config.diffIds) = Len(image.layers)
           /\ told <= Len(image.layers)
           /\ (\A u \in made[n].asked : ~u.omit) => told = Len(image.layers)
=============================================================================
