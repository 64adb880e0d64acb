# A TLA+ development for oci-tools

oci-tools is a container stack in Rust: a runtime (`ocirun`), an engine
(`ociman`), a Kubernetes CRI server (`ocicri`), pet containers and microVMs
(`ocibox`, `ocivmm`), and an image-based OS updater (`ociboot`), over shared
crates. Except for `ocicri` there is no daemon: every command is a process of
its own, the state is files, and almost nothing takes a lock. What
makes the code hard is therefore what happens *between* two system calls of one
command: another command, a failure, a kill, a container that goes its own way.
That is what these modules model.

Paths below are relative to the repository (`src/` here). `PROJECT.json` maps
every definition to the lines it stands for, and lists runs, mutants, hazards,
findings and theorems.

## Inventory

| part | state it keeps | operations that change it | what is hard about it |
|---|---|---|---|
| `crates/oci-store` blobs and pointers | `blobs/sha256/<hex>`, `images/*.json` | `ingest`, `ingest_verified`, `put_image`, `remove_image`, `gc` | no lock; gc marks, then sweeps; pulls skip blobs that are there *now*; kills leave temporary files |
| `crates/oci-store` rootfs cache, `ociman` `rootfs_setup` | one directory per image | `ensure_cached`, `prune` | built privately and renamed, but removed file by file; used as lower directory by running containers; use is tracked by reference, not digest |
| `crates/oci-registry` | threads of one transfer, tokens | `pull`, `push` | worker threads on a shared counter and a failure flag |
| `crates/oci-runtime-core` `launch` | three processes, three pipes | `run_reporting_pid`, `create` | who holds which end of which pipe, and who dies when |
| `crates/oci-runtime-core` `state`, `exec_fifo` | `<root>/<id>/state.json`, `exec.fifo` | `create`, `write`, `remove`, `wait_for_start`, `signal_start` | records are loaded, decided upon and written back without a lock; FIFO opens block |
| `bin/ocirun` | that record, its container | create, start, run, kill, delete, pause, resume, update, exec | commands on one id overlap; the container exits whenever it likes |
| `crates/oci-runtime-core` cgroups, systemd | cgroup files, freezer, scopes | `enter`, `set_frozen`, `create_scope` | one configuration, two drivers with two conversions; asynchronous freezer |
| `bin/ociman` command line | — | 60 commands, most of them twice: at the top level and in a group | two declarations and two dispatch arms for one function |
| `bin/ociman` images | the store | pull, load, tag, untag, rmi, commit, build, prune; images, history, inspect, df | each is a sequence of store operations; several places decide what is unused |
| `bin/ociman` containers | records with annotations, bundles, volumes | run, create, start, stop, restart, kill, pause, wait, attach, rename, update, clone, commit, rm, prune, reset | no daemon: every container has a keeper process that writes the record from its own copy |
| `bin/ociman` container configuration | — | options + image configuration + defaults → runtime specification | precedence, limits, what one option does to another |
| `bin/ociman` build, build cache | scratch root file systems, images as cache | stages, instructions, contexts | cache keys, stage dependencies, what a layer leaves out |
| `bin/ocicri` | sandbox and container records, bundles | CRI calls, the launcher of each container, wipe | concurrent calls under one lock that most of them release in the middle; records saved from copies; launchers and containers that outlive the server |
| `crates/oci-vmm` | virtio rings, device registers, MSI-X table, the passt stream | configuration writes, queue pop and push, interrupts, block requests, frames | 16-bit indices that wrap; two sides that silence each other; a socket that takes part of a frame |
| `crates/oci-bls`, `bin/ociboot` | boot entries, grubenv | install, upgrade, rollback, boot counting | a crash at any point must leave a bootable entry |
| `crates/oci-layer` | — | `diff`, `apply`, `export` | whiteouts and their order |
| `crates/oci-dockerfile` | — | parsing, stage graph, expansion | — |

Interactions: `ociman` and `ocicri` call `oci-store` and `oci-registry` directly
(shared state: the store directory); `ociman run` forks through
`oci-runtime-core::launch` in process; `ocirun` is the same launch behind the
OCI command line, with the state store between its commands; a container's
process is a peer with its own life, reached by pipes, a FIFO and signals.
`ociman`'s commands meet in the container records and the store; a build meets
earlier builds in the images they left; the VMM meets the guest in shared memory,
two event counters per queue and the interrupt table.

## Modules

### `ImageStore` — `crates/oci-store/src/{lib,images}.rs` and its callers

State: the file at each blob path (`files`: content and length, `None` when
absent), the pointer of each reference (`images`), and per command where it is
and what it holds (`pc`, `need`, `want`, `tmp`, …; for a prune `refs`, `todo`,
`reach`, `sweep`). A content is named by its digest; a file is a prefix of a
content, and only the whole of it hashes to the digest. One action per
file-system step: `IngestStart` … `IngestPersist` for `ingest_impl`, `Pull…`,
`Load…`, `Make…` (commit, build), `PutImage`, `TagResolve`, `RemoveImage`, and
`PruneStart`, `PruneUntag`, `GcList`, `GcMark`, `GcSweep…` for pruning. `Abort`
is an error or a kill between any two steps. The registry may serve any content
for any digest, cut short anywhere.

`GcAlone` is not in the code. It is the discipline under which the store is
right: no prune overlaps another command. `Integrity` is proved without it; for
the others see the findings.

`ImageCatalogue` is the abstract specification: every reference names a whole
image or nothing, and changes in one step. `ImplementsCatalogue` maps the store
to it; a reference whose image lacks a blob maps to `"broken"`, a value no step
of the catalogue produces.

### `RootfsCache` — `rootfs_cache.rs`, `rootfs_setup.rs`, `ociman` run/rm/prune

State: pointers, the number of files in each cache entry, the container records
(reference recorded, image really used, lower directory), and per command its
place. `EnsureHit`, `EnsureBuild`, `EnsureLayer`, `EnsureRename`, `EnsureFail`
are `ensure_cached` and the fallback of `decide`; `PruneStart` …
`PruneRmdir` are `prune_images_and_reclaim` with `remove_dir_all` step by step;
`Publish`, `Untag`, `Rmi` move pointers (a forced `rmi` is `RmContainer`, then
`Rmi`). A prune takes the images it keeps from the references of the containers
(`PruneStart`), untags others, notes which images have no reference any more
(`PruneCache`), and removes the entries of those one after another; it may be cut short anywhere
(`PruneInterrupted`), and two prunes may run at once. Nothing is assumed of what
overlaps. Instead two history variables record which containers a prune may harm:
`torn`, the entries an interrupted prune left in pieces, and `exposed`, the runs and
containers whose reference did not name their image while a prune was under way,
whose record was not yet written while one was, or that were given a torn entry.
These three ways are the whole danger: `LowerdirWhole` is about every other
container. `PruneStart` and `PruneCache` are one step each though the code reads file
by file: what is recorded or moved between two of these reads is exposed in any case.

### `BlobTransfer` — `fetch_blobs_concurrently`, `push_blobs_concurrently`

Threads, the shared counter and flag, and what each thread returned. Thread 0 is
the caller. Check and take are two steps, as in the code. `direction` selects
the limits (3 or 5), whether the existence check can fail, and the guarded step.

### `Launch` — `crates/oci-runtime-core/src/launch.rs`

The runtime, its child, and the container's pid 1 (the child itself without a
new pid namespace). A pipe is the set of processes that hold its write end and
its unread bytes; `fork` copies descriptors, exit and exec close them. All 20
combinations of mode, driver, log, hooks and pid namespace are initial states.

### `OcirunLifecycle` — `bin/ocirun/src/main.rs`, `state.rs`, `exec_fifo.rs`

One container id; several commands; several containers launched under the id
one after another, named by their pids. `dir`, `rec`, `fifo` are the directory,
`state.json` and `exec.fifo`, each remembering whose it is. `end` is the FIFO a
container process has a reference to, which need not be its own. Opening and
reading the FIFO are separate steps with the blocking rules of FIFOs. `starts` and
`harmed` are history variables, and so is `clean`: the caller has so far kept to a
discipline (create, run and delete overlap no other command, and no create, run
or start is killed), under which three of the properties hold and without which
they do not. A delete loads the record and acts on it in steps of their own
(`DeleteNotFound`, `DeleteStray` are its early ends, where the record is gone). The
container's open for writing (`InitOpens`) meets a reader that is opening the FIFO or
one that already reads. `StateStore::remove`
is one step here although `remove_dir_all` is several: the record disappears
with the first of them or the last, and every command copes with either alike.

### `CriRuntime` — `bin/ocicri/src/{runtime_service,launcher,records,bundle}.rs`

Pod and container records, what the launcher leaves in a bundle (`pid`,
`exit.json`, `start-error`), the processes, the mutation lock, and the calls in
progress with their private copies (`rec`, `todo`). Every call is a sequence of
steps between which others run unless it holds the lock: `reconcile_container`
is `ReconcileRead` … `ReconcileSave`, `force_kill_and_reconcile` is `ForceKill`,
`ForceGiveUp`, `ForceDone`, and the actions named after a call share them. The
calls that settle one record and answer from it are one action,
`ContainerStatus`. `LauncherFails` … `LauncherKilled` are the launcher process,
`Cancel` a client that gives up (the server drops the call at its `await`; what
went to a blocking thread goes on), `Restart` the server killed anywhere. An
I/O error on a record leaves the files as a kill at that point does, so it has
no action of its own, except where the code cleans up after it (`CreateSave`).
Exit codes are named by the process they are of; ids are never reused, nor pids.

`Rules` is not in the code: it is what clients keep to. `serial`: one call at a
time changes containers or pods, as a kubelet does for one pod; `once`: a
container is started once, which `launcher.rs` relies on; `wipe`: a wipe runs
with no server and nothing running, which `cmd_wipe` assumes; `lists`: no list
overlaps a removal, which nobody promises.
`tried`, `lost`, `doomed`, `removed` are history variables; a container in
`lost` is one whose start timed out, was given up or died with the server.

### `Selection`, `Engine` — the containers of `ociman`

`Selection` is how a command names containers: id, name, `--all`, `--latest`,
`--cidfile`, filters, and the combinations each command refuses. `Engine` is what
the commands do. `rec` are the records, with what their `config.json` mounts;
`live`, `killed`, `frozen` the processes; `keepers` the keeper of each launch with
the copy of the record it holds; `cmd` where each running command is and what it
has read. Every load, write, fork, signal and unlink is a step of its own:
`RunIssue` … `Detached` for run and create, `Keeper…` for `run_and_finalize` in
the keeper (`KeeperFails` before there is a process and, after `KeeperAborts` has
killed it, when there was one; `KeeperReloads` and then `KeeperRemoves` or
`KeeperWrites`), `Stop…`, `Start…`, `Restart…` (`RestartReread` loads the record that
`RestartRestore` writes back), `Remove…`, `Clone…`, `Wait…`, and
single steps for rename, update, kill, pause, commit and the volume commands.
The n-th launch has pid n and exit code n, so a stale one shows. `Crash` is the
machine going down: processes and keepers are gone, records stay.

`Serial` and `Prompt` are not in the code. `Serial`: a user issues a command when
the last one has returned, or blocks on a running container; keepers still run
beside it. `Prompt`: what a command waits for with a limit happens within the
limit. `lost` remembers containers whose record was written back over a newer one,
`astray` those whose restart stopped another container, or none.

### `CommandLine`, `Listing`, `FrontEnd` — from a line to an answer

`CommandLine` holds, for every command and every copy of it in a group, the options
and operands it declares, those that also have a letter, which conflict, which `main` passes on and to which
function. `Listing` has the functions behind images, ps, volume ls, history,
inspect, df, rmi and the prunes, on tables of containers, images, blobs and
volumes, each with its own filters, as the code has them. `FrontEnd` composes both
with the two modules below: `Type` and `Prompt` put a line together, each option by
its long name or by its letter, `Refuse` is an
error of the parser, an action per command does what its function does, and
containers and untagged images appear and end in between.

### `ContainerSpec`, `Cgroups` — what a container is configured to be

`ContainerSpec` turns options, image configuration and defaults into the runtime
specification (`synthesize_spec`), the request of exec, and the change of update:
capabilities, security options, memory and CPU limits, ulimits, umask, environment,
entry point and command, users and groups, mounts and tmpfs, health checks. Each
option is validated as in the code; `Invalid` is `Err`. `Cgroups` has the two
translations of resources: `plan_resources` with `apply` (control files, written by
`ocirun` and every update) and `resource_properties` (the scope of a launch).
Numbers are small, with the width bounded where the code checks for overflow
(`MaxBytes`).

### `Dockerfile`, `Layers`, `Build` — `oci-dockerfile`, `oci-layer`, `ociman build`

`Dockerfile` goes from physical lines to instructions, stages, dependencies and
expanded words, and has the ignore patterns. `Layers` has trees of files, their
difference, the archive of a difference with whiteouts, and `apply`. `Build` runs
them: `StartBuild` (options, target, stages needed), `BeginStage`, one action per
kind of instruction, `EndStage`, `FinishBuild`, and between builds `EditContext`,
`RemoveImage`, `CollectGarbage`. A RUN command is known only by what it does to the
tree (`Execute`: it makes a file that depends on its environment, the proxies
included, on the hosts, the resolver and the limits the build gives it, and on another
file, removes a path, replaces one by a link, or fails).
`run.pure` is the root
directory had nothing come from the cache; `run.asked` and `run.seen` remember what
the builds behind this one and the images of the store asked for and copied. Each
instruction stamps what it writes with a time of its own, which stands for a build
whose steps do not fall into one tick of the clock.

### `Virtio` — `crates/oci-vmm`

One device, block or network. `cc` is the common configuration with the status
machine, `queues` what the device keeps of each queue (the ring addresses by
`Parts`: all three of the block queue, one that stands for the three of a net
queue), `ring` the shared memory,
`kick` the eventfds, `msix` and `irq` the interrupts, `loop` the event loop, `net`
the passt socket in pieces (header, body; `Room` units fit). The guest's driver,
its kernel and passt are external: the driver probes in any order and with wrong
values (an address never written is zero, which the device takes for a place in the
guest's memory; a driver that goes on has placed all parts of its queues or none),
hands over chains (of an unknown type, longer than a request, past the end of the
disk, or with a head that leads out of the descriptor table, at which the queue stops
for good, `PopStray`), suppresses notifications by the
event-index rules, masks vectors, may reset a device that works. A pop with
re-arming is three steps (`Pop`, `EnableNotification`, `PopAgain`), because the
guest's steps fall between them.

## Runs

| run | asks | result |
|---|---|---|
| `store_alone` | blobs intact, recorded images whole, gc exact, refinement of the catalogue (2 commands, 2 references, 2 images sharing a layer) | holds |
| `rootfs_cache` | lower directories of containers that were not exposed stay whole, whatever overlaps and is killed | holds |
| `blob_transfer` | no index lost, nothing published early, failures stop the others, termination | holds |
| `launch_handshake` | hooks before pivot, scope before pid 1, errors leave no process, no deadlock | holds |
| `ocirun` | successful starts are real; under discipline records and processes belong together, harmless delete; a start returns unless its containers are dead | holds |
| `cri_calls` | recorded containers have bundles and do not come back, no process without its record, ended pods have nothing running | holds |
| `engine` | one process per container, none without a record, `--rm` survives restarts, wait tells the truth, mounted volumes exist, exits are recorded | holds |
| `front_end` | both copies of a command agree, by long names and letters; privileges, merged options and limits are those asked for; df and listings foretell the prunes | holds |
| `build` | a cached layer is what the step would have made, if builds differ in nothing the keys leave out; a built image's layers give back its root directory | holds |
| `build_modes` | a hit is what the step would have made, whatever was changed in the context | violated |
| `vmm` | heads and frames faithful, rings where configured, no wake-up lost | holds |
| `vmm_tx_stream` | the stream to passt is whole frames | violated |

Bounds. Every race in the store is between two commands: two suffice, and two
references and two images give sharing, moving and withdrawing; one chunk
distinguishes a whole file from a truncated one. The cache
needs two images to tell an entry in use from an orphan, and two references and two
containers, so that one may be moved under one container and keep the image of the
other; a directory that is there and lacks its file is a partial entry. Five blobs saturate the five threads of a push, and on the three
of a pull the workers go round the loop until the counter runs out under them.
`Launch` has no bound. `OcirunLifecycle` has two commands at a time, any
number one after the other, and two containers, because one must be replaced by
another under a command. `CriRuntime` has
two calls, because its races are between a call and one other actor, two pod ids
and two container ids for one name each, so that a retry could make a second,
and two launchers, so that a container may be started again. `engine` has three
commands, two at a time, because a race of a keeper takes a run, a command that
disturbs it and one that observes; two ids and two launches, for `--replace`, clone
and restart; two volumes, for a rename; one crash. `front_end` gives up to two
options at once, which is where options meet, changes the tables twice, and
takes values at the edges of every check (zero, the largest number, one more than the host allows);
its two images share a layer, and one has a layer twice. `build` has two
builds, since the cache is about a second build that meets the first, eleven
requests over four Dockerfiles and four contexts; three builds were tried as well
(541,028 states, nothing else found). `vmm` wraps indices at four with
queues of up to two entries, so that the window of a queue and the wrap are both
crossed; two sectors, a request on the last and one past it; two frames, one too
big for a buffer. The net queues hold one buffer and one frame fits, so that the order
of frames is not tried by this run: the heads of the block queue show the same order,
and the proof has it for any number of frames. `vmm_tx_stream` is its network device without resets and masks.
Symmetry is used only in runs without liveness. Deadlock checking is
off where the system ends: a transfer returns, a launch settles, the pids, ids or
commands run out, a guest and its device are both idle.

Fairness. A thread of a transfer is scheduled, and each of its requests ends
because the client sets a timeout: weak fairness per thread. In `Launch` the
runtime, the child and pid 1 are scheduled, and hooks end; nothing makes a
user's command end or a start come, and none of these has fairness. In
`OcirunLifecycle` only a start in progress and the container processes are
fair; no command need ever be issued. In `Engine` only the keepers
are fair, processes that the host schedules; no command need go on, and a container
ends when it likes, or never. `Virtio` has no fairness: `NoLostWakeup` says what is true
whenever both sides sleep, which is the safety core of "every request is answered".

## Findings

`vmm_tx_stream` is a disagreement between an assertion and the code, quoted in
`PROJECT.json`: `process_tx` goes on to the next frame while the rest of one is
pending. Most of the others show by one change to a configuration (a constant, or
one of the definitions below named in it; `ChildUnblocks` is temporal); the rest
were met while translating the code.

Store, cache, launch, `ocirun`, `ocicri`:

* `GcAlone = FALSE` in `store_alone.cfg`: `LiveRefsComplete` fails. gc marks and then
  sweeps without a lock, and a pull records what is swept, although
  `oci-store/src/lib.rs:22-27` says "a blob survives iff at least one live reference
  reaches it".
* Without any one of the three ways in `exposed`, `LowerdirWhole` fails. `Misnamed`:
  `untag` does not ask for containers and the next prune removes a lower directory
  in use (`ociman/src/main.rs:9918`, against "never destructive to any container",
  9915-9917), and so it does after a pull or a tag moved the reference. `Unrecorded`: a
  prune that began before a run wrote its record does not know of it. `torn`: a prune
  killed inside `remove_dir_all` leaves a directory the next run takes for the entry.
* `ChildUnblocks` (`Launch`): the child holds a copy of the write end of its own
  ready pipe, so after an early return (`launch.rs:376`) the end of file promised at
  388-390 never comes.
* `CreatedMeansSetUp` (`OcirunLifecycle`): `create` persists `Created` when the pid
  is known; `state.rs:50-52` says mounts and namespaces are set up by then.
* Without `clean` in its definition, `HarmlessDelete` fails: a delete that loaded
  `Created` kills what a start has started since.
* `StartReturns` without `Deserted` fails: a container that dies before it opens
  the FIFO leaves its start blocked in `open(2)`, before the read whose error
  message provides for that case.
* Without `lists` in `Rules`, `RecordsHaveBundles` fails: a CRI list settles records
  without the lock (`runtime_service.rs:961`), against "Callers hold the mutation
  lock." (278). Without `serial`, `Accounted` and `PodEnds` fail too: a start saves
  the record it read before its wait over what a stop or a removal did, and a create
  records a container in a pod that has gone.
* Without `lost` in its definition, `Accounted` fails: a start that timed out, or
  whose server was killed, leaves the record `Created`; stop and remove then settle
  and delete it while the container runs on.
* `fetch_blobs_concurrently` reports errors in the order of its threads; the
  comment there says in the order of the digests.

`ociman` containers (`Engine`):

* `AutoRemoveKept` without `astray`, with four commands: run A as `n1`; rename A to
  `n2`; run B with `--rm` as `n1`; restart `n1`. A's keeper ends in between and writes
  the old name back, `restart_one` resolves `n1` again to stop it (17350), finds two
  containers of that name, and puts the annotation back at once (17352-17357), before
  B's keeper, which has reloaded the record without it, writes. B no longer removes
  itself, "a real state corruption a *failed* call must never leave behind"
  (17341-17349). The run has three commands; the proof found this.
* `UniqueNames`: a keeper writes at exit the record it loaded before, which undoes
  a rename in between (`main.rs:12998-13004`); two containers then share a name,
  of which the resolver says "(this should not happen)".
* `OwnRootfs`: `container clone` copies the overlay mount with the upper and work
  directory of its source (13385-13391), against the comment at 13356-13360.
* `PauseKept`: `commit` of a paused container thaws it (15739-15768).
* With `Serial = FALSE`: a start whose launch fails removes the container that was
  there; `rm -f` of a record that has no pid yet leaves the process of the launch
  under way; read-modify-write commands and keepers overwrite each other.
* A keeper that is killed leaves `attach` waiting, and nobody else records the exit.

The command line, listings and configuration (`FrontEnd`):

* `system info` takes `-f` for `--format` (`main.rs:4973-4977`), `info` has the long
  name only (4786-4800), against "identical alias shape" (4962-4968).
  `AliasesAgree` says so: that line is refused, every other one means the same.
* `images` compares `until` with `<`, `image prune` with `<=` (9444, 10981), and
  several label filters are a conjunction in one and a disjunction in the other;
  `PrunesListed` leaves `until` out and has at most one label. A container holds its
  image by reference: once a pull, a tag or a build has taken the reference elsewhere,
  the listings call the old image unused and the prune removes it. `rmi` and `untag` leave blobs until the next
  prune; `df` counts neither manifests nor garbage.
* `system df -v` counts a layer that an image has twice twice as unique to it
  (11521-11530), "a real, computed answer, not an approximation" (11453-11454), and the
  store has it once: a prune frees less. `DfForetells` leaves such images out of its
  lower bound; the proof found this.
* `clamp_ulimit_to_host` (20809-20827): a soft limit above the ceiling with a hard
  limit of -1 ends above the hard one; `MergedAsAsked` excludes that case.
* `--memory 0` is no limit in the files and no memory to systemd
  (`systemd_cgroup.rs:390`; 366-367 call the drivers identical), which `DriversAgree`
  excludes; a period without quota reaches the files only; `quota * 1_000_000` may
  overflow (465), a tiny `--cpus` rounds to "max".
* `update_healthcheck` joins the test with blanks and parses it again (18343-18346):
  a word with a blank is split, against "round-trips correctly" (18333-18340), and so is
  a test of several words after `CMD-SHELL`, which an image may have: `MergedAsAsked`
  speaks of the tests the engine itself makes; a disabled interval becomes 30 s; limits are written before the health check may be
  refused.

Builds (`Build`, `Layers`):

* `Requests <- RelinkRequests` in `build.cfg`: `ImageRebuilds` fails. A directory
  with files that is replaced by a link is recorded as a change of one path, and the
  layer does not apply (`diff.rs:274-294`, `oci-layer/src/lib.rs:322-331`).
* `build_modes`: a mode changed in the context does not miss the cache. The mode of a
  file is not in the digest, since the permission bits "never affect a plain
  `COPY`/`ADD`'s own copied-file mode" (`build_cache.rs:241-246`), but it is copied, and
  a hit is not the "byte-identical output" of 189-194. `ModesKept` in `CacheSound`
  leaves such contexts out.
* The keys of the cache leave out more: the proxy variables of `--http-proxy` (2234-2244),
  hosts, resolver and limits reach a step; `--unsetenv` (646-664) changes the
  configuration, with no entry in the history. `AskedAlike` leaves builds out that differ
  there, and `CacheSound` fails without it. Two base images with one history share
  their keys (`HistoriesTellApart`).
* `--omit-history` (938-953) leaves the new steps out of the history and not out of the
  layers, so that a later build counts wrong: with `Requests <- OmitRequests` in
  `build_modes.cfg` it takes a step from a layer of another (with one TLC worker; with
  several the shorter counterexample above may come first).
* `--squash-all` exports the `/etc/hosts` of the build (`build.rs:1293`, against
  1117-1119), which `SameContent` leaves out; the stages a target needs are found
  from names before variables are expanded (395-396); a context edited between
  digest and copy is recorded under the old digest (the model edits it between
  builds only).

Virtual machines (`Virtio`):

* The rest of a pending frame is resumed by the next event of another kind: no
  event asks for a writable socket (`net.rs:562-578`, against "to resume once the
  socket is writable again"). The end of passt leaves a socket that is always
  readable. A reset does not stop a device, and `RingsMatch` holds because later
  transitions are refused.
* `commit` diffs against the image its reference names now, not the one the
  container was made from (`ociman/src/main.rs:15811`); not in a model.

## Proofs

`ImageStore_proofs` proves, for any sets of commands, references, manifests and
blobs and any number of chunks:

* `TypeCorrect`, `Integrity`: types, and that a blob at its final path is whole,
  under every interleaving (`GcAlone` or not);
* `Completeness`, `Exactness`: if prunes run alone, recorded images are whole and
  gc is exact;
* `Refinement`: if prunes run alone, the store implements `ImageCatalogue`.

The inductive invariant `IInv` has an unconditional part (`TypeOK`,
`BlobIntegrity`, `CommandInv`: a file about to be renamed is complete) and, for
`GcAlone`, `AloneInv`: a prune is alone (`PruneAlone`); what a command no longer
needs to obtain is in the store (`Obtained`, without which `PutImage` could
record an incomplete image); everything marked is reachable and everything
reachable is marked or will be (`MarkInv`); during the sweep the store is what
is reachable plus what has still to go (`SweepInv`). The refinement rests on
`usable = images`, which follows from `LiveRefsComplete`.

`BlobTransfer_proofs` proves `TypeCorrect`, `IndexSafety` and
`PublicationSafety` for any number of blobs in either direction. `CallerInv`
says that the workers are born after digest 0 was handled; `ThreadInv` ties a
thread's result to its index; `FlagInv` is the key: a worker that returned
without error saw the flag or the end of the list, so if nobody failed the
counter has passed every index.

`FailureContained` proves `FailureStops`: after a failure a worker takes up at most
one blob more, because each of its rounds begins with the flag.

The launch's four results are at the end of `Engine_proofs`, for every combination of
options: `LaunchTyping`, `HooksRunFirst`, `BornInScope` and `FailureIsClean`. What makes them
inductive is who holds what: a process of the launch keeps its write ends until it
exits or execs (`HoldersInv`), so the end of file that would let the container's
process, or the runtime, go on cannot come while it is waited for; a byte in a pipe
stands for what its sender had done before (`PidInv`, `GoInv`).

`RootfsCache_proofs` proves `LowerdirSafe` for any number of commands, images, layers
and containers, whatever overlaps, moves references or is killed; it has no hypothesis
beyond the assumption on the constants. `PruneInv` is the link the code relies on: beside
a prune, what is not exposed has its record, its reference names its image, and the prune
keeps that image and leaves its entry alone. `EntryInv`: an entry that is not whole is
torn or being removed. Hence what is not exposed has a whole one (`WholeInv`).

`OcirunLifecycle_proofs` proves `StartsAreConfirmed` under any overlap and any kills:
the starts that succeeded on a FIFO and the bytes in it are never more than the
containers that wrote one (`ConfirmInv`). `RecordsTrack`, `NoneOrphaned` and
`DeleteIsHarmless` hold while `clean` does: then a launch is alone (`TurnInv`), the
directory is that of the container each command is about (`OwnInv`), and a record
still reads `Created` after its command began only while a start is about to write
it (`StartedInv`). The unconditional part (`BaseInv`) is proved separately.

`CriRuntime_proofs` proves `NoRecordWithoutBundle`, `EveryProcessAccounted` and
`PodsEndEmpty`, an action property, for any number of calls, pods, containers and
launchers, if clients keep to all four rules (`KeepRules`; the findings show what
happens without `lists` and without `serial`). The core is about copies: what a call
holds is never further than the record it was read from (`Behind`), a call that
changes things knows that a record is still `Created` (`Knows`), and what is saved
was decided on a process that has ended (`Copied`, `Ended`). From that, a live
process has its start under way or its record (`LiveInv`), and what a stop of a pod
has not yet come to is still on its list (`PodInv`).

`Virtio_proofs` proves `RingsNeverMove`, `RingsAreFaithful` and `WakeupsArrive` for
queues of any size, indices of any width, any chains and any number of frames. `Windows` says that the
heads the guest gave out are exactly those in two windows of the rings, the one from
`nextAvail` to the driver's index and the one from what the driver collected to
`nextUsed`, each head once; no window is longer than the queue, and as the size divides
the modulus, a wrapped index still finds its slot. `StreamInv` places the device in
passt's stream, `EntryInv`, `GotInv` and `PipeInv` order the frames in the used ring
behind those already received. `Faithful` follows by two lemmas, `HeadsOrdered` and
`FramesOrdered`. `NoLostWakeup` speaks of the moment when both sides sleep; `WakeInv`
says why that moment is safe at every step before it. `KickInv`: heads that wait are
being looked for, or announced, or the driver has told of none of them yet and its
next notification is asked for. `TellInv`: used heads are collected, or an interrupt
is on its way, or the device is about to decide on one and will find it asked for.
`MsixInv`: a vector that is not masked and has its irqfd fires at once, so none stays
pending unmasked. `FreshInv`: before activation both sides stand at the beginning.
`WakeBefore` and `WakeActive` take it through every step, `NothingLost` draws
`NoLostWakeup` from it and `IInv`.

`Engine_proofs` proves the five invariants of the `engine` run for any number of
containers, launches and commands, crashes included, under `KeepAlone`: `Serial` and
`Prompt`. At most one command is at work (`Solo`), and what it has read is still
true, except what a keeper wrote since (`ClientInv`, `ReadEarlier`). A container has
at most one keeper at work (`OneKeeper`); a keeper's copy and the record name the
same process and mounts (`KeeperInv`, `Follows`); one that has not launched yet has
its command with it (`Launcher`). Then `ProcessesAreSingle`: a new launch comes only
after the last keeper's write; `ProcessesHaveRecords`: what unlinks a record has seen
that nothing of its container runs (`StopInv`); `VolumesStay`. For `AutoRemoveStays`,
`AutoInv` follows the annotation through a restart that took it out (`Suppresses`) and
the copies of the keepers; for `WaitIsTrue`, `ExitInv` says that a container nobody
keeps has the exit code of its last run.

The proof of `AutoRemoveStays` failed at first, and for a good reason, which is the
first of the `Engine` findings: the property now leaves out a restart that was led
elsewhere (`astray`), and the model follows the container that a command resolved
first (`own`) beside the one that a later step of it resolves.

`FrontEnd_proofs` proves the six properties of the `front_end` run for any lines the
command line's declarations admit, any values, images, containers, blobs, volumes and
hosts:

* `OneCommandTwoNames` (`AliasesAgree`): over all pairs of a command and its copy, the
  lines admitted, the options passed on and the function are the same;
* `NoMorePrivilege` (`Confined`) and `OptionsMerge` (`MergedAsAsked`): what
  `synthesize_spec`, exec and update make of the options;
* `DriversMeanTheSame` (`DriversAgree`): the control files and the properties of a scope;
* `ListedIsPruned` (`PrunesListed`) and `DfIsTrue` (`DfForetells`), action properties: a
  prune against what the listings and `df` say of the state it starts in.

Three invariants carry them. `Dispatched`: `call` is what `main` makes of a line that
was admitted. `AnswerOK`: an answer was computed by the command's function from options
of a line, so that what is left is a statement about that function. `TablesOK`: finitely
many references, each to an image, and everything an image consists of in the store;
without the last part a prune could not free what `df` counts.

Those functions fold over data, and the library's induction theorems are out of reach
here. Two lemmas take their place, with a set where those have a predicate: `Counting`,
from the existence of least elements, gives induction over a list's length, and
`Growing` over the subsets of a finite set. A sum over a set is then a tally, a function
on its subsets that grows by one element at a time; it exists and is unique
(`TallyThere`, `SumsUnique`), and does not depend on the order in which the fold chooses
(`SumOne`, `SumApart`). `FreedBelow` and `FreedAbove` compare three such sums: of what
the prune frees, of the images in `df`, and of what `df -v` calls unique.

Three properties were not true as they stood, and the proofs showed where. `Confined` claimed that a capability dropped is never there; `--cap-drop ALL` with
another of the list drops before the additions, so an added one is. `MergedAsAsked`
claimed the round trip of every health check, and is now about those the engine makes.
`DfForetells` overlooked an image that has a layer twice; the run has one now.
Two definitions were wrong and are corrected: `apply` fell back to `io.weight` even
where that file is missing too, and a tmpfs option that takes no value was accepted with
one. Where a definition was a fold of a fold, it is now a recursive function or a
choice of places in a list (`Selected`), of which the same can be said in fewer steps.

What the proofs assume of the constants are the named assumptions of the modules:
"no value" (`None`) is not among the values; the powers of two up to the largest
queue divide the modulus, which is at least twice that size (65536 and at most 32768
in the code); the inputs of a run are those the command line makes. `FrontEnd` names what
its values are (`BoundsAssumption` to `ContentsAssumption`, and `SpecConstants` of
`ContainerSpec`): a repeated option, an environment, a health check and the layers of a
manifest are sequences, limits are numbers, the default capabilities exist, the
containers this engine starts run as root of their user namespace, references of an
earlier session lead to images, and the blobs of an image have sizes and are not
themselves manifests in the store. The disciplines
above (`GcAlone`, `Rules`, `Serial` and `Prompt`) are hypotheses of their theorems and
not in the code; `LowerdirSafe` and the theorems of `Virtio` have none. Where the arms of a `CASE`
overlap, TLC takes the first and TLAPS may take any; in modules with proofs such
arms are disjoint or `IF`.

Only model-checked:

* liveness: `Returns`, `LaunchSettles`, `StartReturns`, `ExitRecorded`, out of the
  prover's reach;
* `CacheSound` and `ImageRebuilds` of `build`: `Build` reaches the `RECURSIVE` operators
  of `Dockerfile` and `Layers` (following a path through links, making the directories
  above it, matching a pattern), whose results need induction over trees and paths, and
  a module that reaches one has no SMT backend. Neither holds for every constant: the
  findings name contexts and requests for which each fails, and a proof would need as
  hypotheses what sets those apart;
* everything `Engine` and `CriRuntime` do outside their disciplines, where the
  invariants are false.

## Not modelled, and the plan

1. Proofs: that a layer gives back what it was made from, with `Layers` and
   `Dockerfile` written as recursive functions.
2. `oci-bls` and `ociboot`: boot counting, deployments, rollback, crashes.
3. `ocicri`: the logger (lines, rotation, the order of log and exit record), its exec
   processes, the image service.
4. The freezer's polling, and pause, resume and exec of `ocirun`.
5. `ociman`: namespaces, devices, secrets and networks of a container; cp, export and
   archives beyond what they store; RUN mounts and git sources of builds.
6. `oci-registry`: tokens, challenges, credential files.

Out of reach: the translations of a bundle into mounts, namespaces, seccomp
filters and credentials (system calls of one process, no state of their own), the
machine set-up of `oci-vmm` and the D-Bus exchange with systemd, external programs
(`mkfs.erofs`, `veritysetup`, `passt`), the text of arguments and output. `ocibox`
and `ocivmm` are command lines over the parts above.
