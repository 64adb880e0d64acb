------------------------------ MODULE Listing ------------------------------
(***************************************************************************)
(* What the listing, inspecting and pruning commands of ociman compute     *)
(* (bin/ociman/src/main.rs): images, ps, volume ls, history, inspect,      *)
(* system df, rmi and the prunes, as functions of the tables they read.    *)
(*                                                                         *)
(* A container id, and the time in an image's or a volume's record, is the *)
(* number of the moment it was made.  A text that a filter looks for is    *)
(* the set of the texts that contain it (or begin with it, or match its    *)
(* pattern).  images maps references to manifest digests; an untagged      *)
(* image's reference is its digest.                                        *)
(***************************************************************************)
EXTENDS Selection

CONSTANTS
    Digests,    \* manifest digests
    Contents,   \* digest -> [config, layers, history, created, labels]
    Size,       \* blob -> bytes, manifests included
    AnyId,      \* a text every manifest digest begins with
    NoImage,    \* an image that was not found
    Ambiguous   \* an id that several images begin with

Layers(d) == Contents[d].layers
Blobs(d) == {Contents[d].config} \cup ToSet(Layers(d))
Bytes(set) == FoldSet(LAMBDA b, n : Size[b] + n, 0, set)

(* Store::image_summary: the config and every layer, a repeated one each time. *)
image_summary(d) ==
    Size[Contents[d].config] + FoldSeq(LAMBDA b, n : Size[b] + n, 0, Layers(d))

is_untagged_reference(ref) == ref \in Digests

(* A table with one entry more, or another in its place. *)
With(table, key, entry) ==
    [k \in DOMAIN table \cup {key} |-> IF k = key THEN entry ELSE table[k]]

Present(images) == {images[ref] : ref \in DOMAIN images}

(* An id: one image at most may begin with it, and a tag of it is preferred to its
   untagged record. *)
resolve_by_id_only(images, spec) ==
    LET found == {d \in Present(images) : spec \in {d, AnyId}}
        refs == {ref \in DOMAIN images : images[ref] \in found} IN
    IF found = {} THEN NoImage
    ELSE IF Cardinality(found) > 1 THEN Ambiguous
    ELSE IF \E ref \in refs : ~is_untagged_reference(ref)
         THEN CHOOSE ref \in refs : ~is_untagged_reference(ref)
         ELSE CHOOSE ref \in refs : TRUE

(* A reference, and an id when there is none: a digest does not parse to a reference
   that an untagged image is stored under. *)
resolve_by_reference_or_id(images, spec) ==
    IF spec \in DOMAIN images /\ ~is_untagged_reference(spec)
    THEN [by |-> "tag", ref |-> spec]
    ELSE [by |-> "id", ref |-> resolve_by_id_only(images, spec)]

Found(images, spec) == resolve_by_reference_or_id(images, spec).ref \notin {NoImage, Ambiguous}

-----------------------------------------------------------------------------
(* The filters. *)

OfKind(terms, kind) == {t \in terms : t.kind = kind}

(* A flag given twice has to be given the same value. *)
FlagsAgree(terms, kind) == \A t, u \in OfKind(terms, kind) : t.value = u.value
Flag(terms, kind, value) == \A t \in OfKind(terms, kind) : value = t.value

(* One until= at most, as parse_until_filter_value wants a time. *)
OneUntil(terms) == Cardinality(OfKind(terms, "until")) <= 1
Before(terms, created) == \A t \in OfKind(terms, "until") : created < t.until

AnyLabel(terms, labels) ==
    \/ OfKind(terms, "label") = {}
    \/ \E t \in OfKind(terms, "label") : LabelMatches(t, labels)
EveryLabel(terms, labels) == \A t \in OfKind(terms, "label") : LabelMatches(t, labels)

Kinds(terms) == {t.kind : t \in terms}

parse_prune_filters(terms) ==
    /\ Kinds(terms) \subseteq {"label", "until", "dangling"}
    /\ OneUntil(terms) /\ FlagsAgree(terms, "dangling")

parse_image_filters(terms) ==
    /\ Kinds(terms) \subseteq {"label", "dangling", "before", "since", "reference",
                               "reference!", "containers", "id", "digest", "until"}
    /\ OneUntil(terms) /\ FlagsAgree(terms, "dangling") /\ FlagsAgree(terms, "containers")

parse_ps_filters(terms) ==
    /\ Kinds(terms) \subseteq {"status", "id", "name", "command", "label", "before",
                               "since", "ancestor", "exited", "until"}
    /\ OneUntil(terms)

parse_volume_ls_filters(terms) ==
    /\ Kinds(terms) \subseteq {"name", "label", "until", "since", "dangling"}
    /\ OneUntil(terms) /\ FlagsAgree(terms, "dangling")

parse_volume_prune_filters(terms) ==
    Kinds(terms) \subseteq {"label", "until", "since"} /\ OneUntil(terms)

-----------------------------------------------------------------------------
(* images. *)

(* The digests whose image some container's reference leads to today. *)
images_in_use_digests(table, images) ==
    {images[ref] : ref \in {table[i].image : i \in DOMAIN table} \cap DOMAIN images}

resolve_image_created(images, spec) ==
    Contents[images[resolve_by_reference_or_id(images, spec).ref]].created

(* before= takes the earliest of the images it names and since= the latest. *)
earliest_image_creation(images, terms) ==
    Min({resolve_image_created(images, t.ref) : t \in terms})
latest_image_creation(images, terms) ==
    Max({resolve_image_created(images, t.ref) : t \in terms})

(* reference=: the image the text resolves to, or a pattern one of the forms of a
   tag's reference matches. *)
image_matches_reference_filter(images, t, ref) ==
    \/ Found(images, t.ref)
       /\ images[resolve_by_reference_or_id(images, t.ref).ref] = images[ref]
    \/ ~is_untagged_reference(ref) /\ ref \in t.matches

ImageDatesMatch(images, terms, d) ==
    LET before == OfKind(terms, "before")
        since == OfKind(terms, "since")
        created == Contents[d].created IN
    /\ before # {} => created < earliest_image_creation(images, before)
    /\ since # {} => created > latest_image_creation(images, since)
    /\ Before(terms, created)

ImageListed(table, images, terms, ref) ==
    LET d == images[ref] IN
    /\ Flag(terms, "dangling", is_untagged_reference(ref))
    /\ Flag(terms, "containers", d \in images_in_use_digests(table, images))
    /\ \A t \in OfKind(terms, "id") \cup OfKind(terms, "digest") : d \in t.matches
    /\ \A t \in OfKind(terms, "reference!") : ~image_matches_reference_filter(images, t, ref)
    /\ \/ OfKind(terms, "reference") = {}
       \/ \E t \in OfKind(terms, "reference") : image_matches_reference_filter(images, t, ref)
    /\ AnyLabel(terms, Contents[d].labels)
    /\ ImageDatesMatch(images, terms, d)

(* An image a filter names and nobody has stops the command. *)
ImageTermsResolve(images, terms) ==
    /\ \A t \in OfKind(terms, "before") \cup OfKind(terms, "since") : Found(images, t.ref)
    /\ \A t \in OfKind(terms, "reference") \cup OfKind(terms, "reference!") :
           resolve_by_reference_or_id(images, t.ref).ref # Ambiguous

cmd_images(table, images, terms) ==
    {ref \in DOMAIN images : ImageListed(table, images, terms, ref)}

ImagesAccepts(images, terms) == parse_image_filters(terms) /\ ImageTermsResolve(images, terms)

-----------------------------------------------------------------------------
(* rmi. *)

(* By tag one reference goes, by id every reference of the image, and more than one
   only with --force; so do the containers that name a reference that goes. *)
RmiReferences(images, found) ==
    IF found.by = "tag" THEN {found.ref}
    ELSE {ref \in DOMAIN images : images[ref] = images[found.ref]}

RmiDependents(table, refs) == {i \in DOMAIN table : table[i].image \in refs}

rmi_one(tables, found, force) ==
    LET refs == RmiReferences(tables.images, found)
        dependents == RmiDependents(tables.containers, refs) IN
    IF ~force /\ (Cardinality(refs) > 1 \/ dependents # {}) THEN tables
    ELSE [tables EXCEPT !.images = [r \in DOMAIN @ \ refs |-> @[r]],
                        !.containers = [i \in DOMAIN @ \ dependents |-> @[i]]]

RmiAccepts(specs, all) == (specs = <<>>) = all

(* --all takes every reference as the tag it is: one that no container needs goes, with
   --force all of them do.  The named ones go one after the other, and an error of one
   leaves the others to go on. *)
RmiAll(tables, force) ==
    LET gone == {ref \in DOMAIN tables.images :
                     force \/ RmiDependents(tables.containers, {ref}) = {}} IN
    [tables EXCEPT !.images = [r \in DOMAIN @ \ gone |-> @[r]],
                   !.containers = [i \in DOMAIN @ \ RmiDependents(@, gone) |-> @[i]]]

RmiEach(tables, specs, force) ==
    LET after[n \in 0..Len(specs)] ==
            IF n = 0 THEN tables
            ELSE IF Found(after[n - 1].images, specs[n])
                 THEN rmi_one(after[n - 1],
                              resolve_by_reference_or_id(after[n - 1].images, specs[n]), force)
                 ELSE after[n - 1]
    IN after[Len(specs)]

cmd_rmi(tables, specs, all, force) ==
    IF all THEN RmiAll(tables, force) ELSE RmiEach(tables, specs, force)

-----------------------------------------------------------------------------
(* The prunes. *)

(* Store::gc: what no image leads to. *)
Reachable(images) == Present(images) \cup UNION {Blobs(d) : d \in Present(images)}

(* dangling= decides when it is given, --all otherwise; until= takes an image of that
   very moment too. *)
ImagePruned(table, images, all, terms, ref) ==
    LET d == images[ref]
        dangling == OfKind(terms, "dangling")
        dangling_only == IF dangling = {} THEN ~all ELSE \E t \in dangling : t.value IN
    /\ d \notin images_in_use_digests(table, images)
    /\ dangling_only => is_untagged_reference(ref)
    /\ \A t \in OfKind(terms, "until") : Contents[d].created <= t.until
    /\ AnyLabel(terms, Contents[d].labels)

prune_images_and_reclaim(tables, all, terms) ==
    LET gone == {ref \in DOMAIN tables.images :
                     ImagePruned(tables.containers, tables.images, all, terms, ref)}
        images == [ref \in DOMAIN tables.images \ gone |-> tables.images[ref]] IN
    [tables EXCEPT !.images = images, !.blobs = @ \cap Reachable(images)]

(* container prune: the ones that are not up and pass the filter. *)
prune_eligible_containers(tables, terms) ==
    [tables EXCEPT !.containers =
        [i \in {j \in DOMAIN @ :
                    \/ @[j].status \notin {"created", "stopped"}
                    \/ ~matches_label_until_filters(parse_label_until_filters(terms), j, @[j])}
             |-> @[i]]]

(* Abandoned build scratch: an hour old, and not from the future. *)
prune_build_scratch(scratch, now, hour) == {t \in scratch : t > now \/ now - t < hour}

(* system prune: containers whatever the filter, then images. *)
cmd_prune(tables, all, terms, now, hour) ==
    [prune_images_and_reclaim(prune_eligible_containers(tables, {}), all, terms)
        EXCEPT !.scratch = prune_build_scratch(@, now, hour)]

cmd_system_reset(tables) ==
    [tables EXCEPT !.containers = <<>>, !.volumes = <<>>, !.images = <<>>, !.blobs = {},
                   !.scratch = {}]

-----------------------------------------------------------------------------
(* ps. *)

earliest_referenced_creation(table, terms) ==
    Min({resolve_container_id(table, t.ref) : t \in terms})

(* An image's name contains the text, as it stands or without :latest, or the text is
   the digest the name leads to. *)
matches_ancestor_filter(images, t, image) ==
    image \in t.matches \/ (image \in DOMAIN images /\ images[image] = t.ref)

(* Up, unless the status is asked for: everything with --all. *)
PsVisible(terms, all, status) ==
    IF OfKind(terms, "status") = {} THEN all \/ status \notin {"stopped", "created"}
    ELSE \E t \in OfKind(terms, "status") : t.value = status

AnyText(terms, kind, text) ==
    OfKind(terms, kind) = {} \/ \E t \in OfKind(terms, kind) : text \in t.matches

(* The kinds of filters add up; one of a kind is enough, all of the labels. *)
PsListed(table, images, terms, all, i) ==
    LET c == table[i]
        before == OfKind(terms, "before")
        since == OfKind(terms, "since")
        ancestor == OfKind(terms, "ancestor")
        exited == OfKind(terms, "exited") IN
    /\ PsVisible(terms, all, c.status)
    /\ AnyText(terms, "id", i) /\ AnyText(terms, "name", c.name)
    /\ AnyText(terms, "command", c.command)
    /\ EveryLabel(terms, c.labels)
    /\ before # {} => i < earliest_referenced_creation(table, before)
    /\ since # {} => i > earliest_referenced_creation(table, since)
    /\ ancestor # {} => \E t \in ancestor : matches_ancestor_filter(images, t, c.image)
    /\ exited # {} => \E t \in exited : t.value = c.exit
    /\ Before(terms, i)

PsAccepts(table, terms, given) ==
    /\ ~({"quiet", "size"} \subseteq given) /\ ~({"last", "latest"} \subseteq given)
    /\ parse_ps_filters(terms)
    /\ \A t \in OfKind(terms, "before") \cup OfKind(terms, "since") :
           container_exists(table, t.ref)

(* Oldest first; --last keeps the newest. *)
Newest(ids, last) ==
    IF last = 0 \/ last >= Len(ids) THEN ids ELSE SubSeq(ids, Len(ids) - last + 1, Len(ids))

cmd_ps(table, images, terms, all, last) ==
    Newest(SelectSeq(ByCreation(table),
                     LAMBDA i : PsListed(table, images, terms, all \/ last > 0, i)),
           last)

-----------------------------------------------------------------------------
(* Volumes. *)

containers_using_volume(table, name) == {i \in DOMAIN table : name \in table[i].volumes}

earliest_referenced_volume_creation(volumes, terms) ==
    Min({volumes[t.ref].created : t \in terms})

VolumeDatesMatch(volumes, terms, name) ==
    /\ Before(terms, volumes[name].created)
    /\ OfKind(terms, "since") # {} =>
           volumes[name].created > earliest_referenced_volume_creation(volumes, OfKind(terms, "since"))

VolumeTermsResolve(volumes, terms) ==
    \A t \in OfKind(terms, "since") : t.ref \in DOMAIN volumes

cmd_volume_ls(table, volumes, terms) ==
    {name \in DOMAIN volumes :
        /\ AnyText(terms, "name", name)
        /\ EveryLabel(terms, volumes[name].labels)
        /\ VolumeDatesMatch(volumes, terms, name)
        /\ Flag(terms, "dangling", containers_using_volume(table, name) = {})}

VolumeLsAccepts(volumes, terms, given) ==
    /\ ~({"quiet", "format"} \subseteq given)
    /\ parse_volume_ls_filters(terms) /\ VolumeTermsResolve(volumes, terms)

(* Mutant: volume prune parses after= and forgets it. *)
VolumesPrunedTimeless(table, volumes, terms) ==
    {name \in DOMAIN volumes :
        /\ EveryLabel(terms, volumes[name].labels)
        /\ containers_using_volume(table, name) = {}}

VolumesPruned(table, volumes, terms) ==
    {name \in DOMAIN volumes :
        /\ EveryLabel(terms, volumes[name].labels)
        /\ VolumeDatesMatch(volumes, terms, name)
        /\ containers_using_volume(table, name) = {}}

cmd_volume_prune(tables, terms) ==
    LET gone == VolumesPruned(tables.containers, tables.volumes, terms) IN
    [tables EXCEPT !.volumes = [n \in DOMAIN @ \ gone |-> @[n]]]

VolumeRmAccepts(tables, name, force) ==
    name \in DOMAIN tables.volumes /\ (force \/ containers_using_volume(tables.containers, name) = {})

VolumeRenameAccepts(tables, name, new) ==
    /\ name \in DOMAIN tables.volumes
    /\ name # new => /\ new \notin DOMAIN tables.volumes
                     /\ containers_using_volume(tables.containers, name) = {}

-----------------------------------------------------------------------------
(* system df. *)

(* Mutant: only the untagged images that nobody uses count as reclaimable. *)
DfImagesUntagged(table, images) ==
    LET idle == {ref \in DOMAIN images : images[ref] \notin images_in_use_digests(table, images)
                                         /\ is_untagged_reference(ref)}
        sum(refs) == FoldSet(LAMBDA ref, n : image_summary(images[ref]) + n, 0, refs) IN
    [total |-> Cardinality(DOMAIN images), active |-> Cardinality(DOMAIN images \ idle),
     size |-> sum(DOMAIN images), reclaimable |-> sum(idle)]

DfImages(table, images) ==
    LET idle == Present(images) \ images_in_use_digests(table, images)
        sum(ds) == FoldSet(LAMBDA d, n : image_summary(d) + n, 0, ds) IN
    [total |-> Cardinality(Present(images)),
     active |-> Cardinality(Present(images) \ idle),
     size |-> sum(Present(images)), reclaimable |-> sum(idle)]

DfContainers(table) ==
    LET sum(ids) == FoldSet(LAMBDA i, n : table[i].writable + n, 0, ids)
        up == {i \in DOMAIN table : table[i].status = "running"} IN
    [total |-> Cardinality(DOMAIN table), active |-> Cardinality(up),
     size |-> sum(DOMAIN table), reclaimable |-> sum(DOMAIN table \ up)]

DfVolumes(table, volumes) ==
    LET sum(names) == FoldSet(LAMBDA v, n : volumes[v].size + n, 0, names)
        used == {v \in DOMAIN volumes : containers_using_volume(table, v) # {}} IN
    [total |-> Cardinality(DOMAIN volumes), active |-> Cardinality(used),
     size |-> sum(DOMAIN volumes), reclaimable |-> sum(DOMAIN volumes \ used)]

cmd_system_df(tables) ==
    [images |-> DfImages(tables.containers, tables.images),
     containers |-> DfContainers(tables.containers),
     volumes |-> DfVolumes(tables.containers, tables.volumes)]

(* system df -v: a blob of one image alone is unique, one of several is shared. *)
Referencing(images, b) == {d \in Present(images) : b \in Blobs(d)}
BlobsOf(d) == <<Contents[d].config>> \o Layers(d)
SharedSize(images, d) ==
    FoldSeq(LAMBDA b, n : (IF Cardinality(Referencing(images, b)) > 1 THEN Size[b] ELSE 0) + n,
            0, BlobsOf(d))
UniqueSize(images, d) ==
    FoldSeq(LAMBDA b, n : (IF Cardinality(Referencing(images, b)) > 1 THEN 0 ELSE Size[b]) + n,
            0, BlobsOf(d))

DfImageRows(table, images) ==
    [ref \in DOMAIN images |->
        [size |-> image_summary(images[ref]),
         shared |-> SharedSize(images, images[ref]),
         unique |-> UniqueSize(images, images[ref]),
         containers |-> Cardinality({i \in DOMAIN table :
             table[i].image \in DOMAIN images /\ images[table[i].image] = images[ref]})]]

DfContainerRows(table, volumes) ==
    [i \in DOMAIN table |->
        [image |-> table[i].image, status |-> table[i].status, size |-> table[i].writable,
         volumes |-> Cardinality(table[i].volumes \cap DOMAIN volumes)]]

DfVolumeRows(table, volumes) ==
    [v \in DOMAIN volumes |->
        [size |-> volumes[v].size, links |-> Cardinality(containers_using_volume(table, v))]]

cmd_system_df_verbose(tables) ==
    [images |-> DfImageRows(tables.containers, tables.images),
     containers |-> DfContainerRows(tables.containers, tables.volumes),
     volumes |-> DfVolumeRows(tables.containers, tables.volumes)]

-----------------------------------------------------------------------------
(* history, inspect. *)

(* The layers belong to the last of the entries that made one: they are counted from
   the end, and an entry without a layer has size 0. *)
history_layer_sizes(history, layers) ==
    LET made(k) == {j \in 1..k : ~history[j]}
        all == Cardinality(made(Len(history)))
        skip == IF Len(layers) > all THEN Len(layers) - all ELSE 0 IN
    [k \in 1..Len(history) |->
        IF history[k] \/ skip + Cardinality(made(k)) > Len(layers) THEN 0
        ELSE Size[layers[skip + Cardinality(made(k))]]]

(* Newest first; the name has to be a tag. *)
cmd_history(images, ref) ==
    Reverse(history_layer_sizes(Contents[images[ref]].history, Layers(images[ref])))

(* ps --size, inspect --size: the image the container's reference leads to today. *)
compute_container_size(tables, i) ==
    LET c == tables.containers[i] IN
    [rw |-> c.writable,
     root |-> c.writable + IF c.image \in DOMAIN tables.images
                           THEN image_summary(tables.images[c.image]) ELSE 0]

(* A container first, unless an image is wanted; an image has no --size. *)
cmd_inspect(tables, ref, type, size) ==
    LET i == resolve_container_id(tables.containers, ref) IN
    IF type # "image" /\ i # NoId THEN [is |-> "container", id |-> i]
    ELSE IF type = "container" \/ size \/ ~Found(tables.images, ref) THEN [is |-> "error"]
    ELSE [is |-> "image", digest |-> tables.images[resolve_by_reference_or_id(tables.images, ref).ref]]

(* image mount and image unmount: every image, or the ones named, all of them there. *)
resolve_images_or_all(images, specs, all) ==
    IF all THEN IF specs = <<>> THEN DOMAIN images ELSE NoImage
    ELSE IF specs = <<>> \/ \E spec \in ToSet(specs) : ~Found(images, spec) THEN NoImage
    ELSE {resolve_by_reference_or_id(images, spec).ref : spec \in ToSet(specs)}
=============================================================================
