--------------------------- MODULE FrontEnd_proofs ---------------------------
(***************************************************************************)
(* What FrontEnd promises of the answers and of the tables, for any line,  *)
(* any options and values, and any containers, images and volumes.         *)
(***************************************************************************)
EXTENDS FrontEnd, SequenceTheorems, FiniteSetTheorems, WellFoundedInduction, TLAPS

(* Induction over the natural numbers, for a set in the place of a         *)
(* property: least elements exist.                                         *)
LEMMA Counting ==
  ASSUME NEW S, 0 \in S, \A n \in Nat : n \in S => n + 1 \in S
  PROVE  Nat \subseteq S
<1>. DEFINE T == {n \in Nat : n \notin S}
<1>1. SUFFICES ASSUME T # {} PROVE FALSE
  OBVIOUS
<1>2. PICK m \in T : \A k \in T : <<k, m>> \notin OpToRel(<, Nat)
  <2>1. T \subseteq Nat
    OBVIOUS
  <2>. HIDE DEF T
  <2>. QED
    BY <1>1, <2>1, WFMin, NatLessThanWellFounded, Zenon
<1>3. \A k \in T : ~(k < m)
  BY <1>2, Zenon DEF OpToRel
<1>4. m # 0 /\ m - 1 \in Nat /\ m - 1 < m /\ (m - 1) + 1 = m /\ m \in Nat /\ m \notin S
  BY SMT
<1>5. m - 1 \in S
  BY <1>3, <1>4
<1>. QED
  BY <1>4, <1>5

-----------------------------------------------------------------------------
(* The tables have their fields, and finitely many references that lead to *)
(* digests; and what an image consists of is there.                        *)
Fields == {"containers", "images", "blobs", "volumes", "scratch"}

TablesOK(t) ==
    /\ DOMAIN t = Fields
    /\ IsFiniteSet(DOMAIN t.images)
    /\ \A ref \in DOMAIN t.images : t.images[ref] \in Digests
    /\ Reachable(t.images) \subseteq t.blobs

(* Taking references away leaves them so.                                  *)
LEMMA FewerImages ==
  ASSUME NEW t, TablesOK(t), NEW u, DOMAIN u = Fields, NEW gone,
         u.images = [ref \in DOMAIN t.images \ gone |-> t.images[ref]],
         Reachable(u.images) \cap t.blobs \subseteq u.blobs
  PROVE  TablesOK(u)
<1>1. Present(u.images) \subseteq Present(t.images)
  BY DEF Present
<1>2. Reachable(u.images) \subseteq Reachable(t.images)
  BY <1>1 DEF Reachable
<1>. QED
  BY <1>2, FS_Difference DEF TablesOK

(* No reference leads nowhere.                                             *)
LEMMA NoneReachable == Reachable(<<>>) = {}
  BY DEF Reachable, Present

LEMMA PrunesOK ==
  ASSUME NEW t, TablesOK(t), NEW all, NEW terms
  PROVE  /\ TablesOK(prune_images_and_reclaim(t, all, terms))
         /\ TablesOK(prune_eligible_containers(t, terms))
         /\ TablesOK(cmd_prune(t, all, terms, Now, Hour))
         /\ TablesOK(cmd_volume_prune(t, terms))
         /\ TablesOK(cmd_system_reset(t))
<1>1. ASSUME NEW u, TablesOK(u) PROVE TablesOK(prune_images_and_reclaim(u, all, terms))
  <2>. DEFINE gone == {ref \in DOMAIN u.images :
                          ImagePruned(u.containers, u.images, all, terms, ref)}
  <2>1. DOMAIN prune_images_and_reclaim(u, all, terms) = Fields
    BY <1>1 DEF prune_images_and_reclaim, TablesOK
  <2>2. prune_images_and_reclaim(u, all, terms).images
          = [ref \in DOMAIN u.images \ gone |-> u.images[ref]]
    BY <1>1 DEF prune_images_and_reclaim, TablesOK, Fields
  <2>3. prune_images_and_reclaim(u, all, terms).blobs
          = u.blobs \cap Reachable(prune_images_and_reclaim(u, all, terms).images)
    <3>. DEFINE images == [ref \in DOMAIN u.images \ gone |-> u.images[ref]]
    <3>1. prune_images_and_reclaim(u, all, terms).blobs = u.blobs \cap Reachable(images)
      BY <1>1 DEF prune_images_and_reclaim, TablesOK, Fields
    <3>. QED
      BY <2>2, <3>1
  <2>. HIDE DEF gone
  <2>. QED
    BY <1>1, <2>1, <2>2, <2>3, FewerImages
<1>2. ASSUME NEW ts PROVE TablesOK(prune_eligible_containers(t, ts))
  <2>1. /\ DOMAIN prune_eligible_containers(t, ts) = Fields
        /\ prune_eligible_containers(t, ts).images = t.images
        /\ prune_eligible_containers(t, ts).blobs = t.blobs
    BY DEF prune_eligible_containers, TablesOK, Fields
  <2>. QED
    BY <2>1 DEF TablesOK
<1>3. TablesOK(cmd_prune(t, all, terms, Now, Hour))
  <2>. DEFINE u == prune_images_and_reclaim(prune_eligible_containers(t, {}), all, terms)
  <2>1. TablesOK(u)
    BY <1>1, <1>2
  <2>. HIDE DEF u
  <2>2. cmd_prune(t, all, terms, Now, Hour)
          = [u EXCEPT !.scratch = prune_build_scratch(@, Now, Hour)]
    BY DEF cmd_prune, u
  <2>. QED
    BY <2>1, <2>2 DEF TablesOK, Fields
<1>4. TablesOK(cmd_volume_prune(t, terms))
  BY DEF cmd_volume_prune, TablesOK, Fields
<1>5. TablesOK(cmd_system_reset(t))
  <2>1. /\ DOMAIN cmd_system_reset(t) = Fields /\ cmd_system_reset(t).images = <<>>
    BY DEF cmd_system_reset, TablesOK, Fields
  <2>. QED
    BY <2>1, FS_EmptySet, NoneReachable DEF TablesOK
<1>. QED
  BY <1>1, <1>2, <1>3, <1>4, <1>5

(* rmi takes references away, by itself ...                                *)
LEMMA RmiOneOK ==
  ASSUME NEW t, TablesOK(t), NEW found, NEW force
  PROVE  TablesOK(rmi_one(t, found, force))
<1>. DEFINE refs == RmiReferences(t.images, found)
            dependents == RmiDependents(t.containers, refs)
            u == [t EXCEPT !.images = [r \in DOMAIN @ \ refs |-> @[r]],
                           !.containers = [i \in DOMAIN @ \ dependents |-> @[i]]]
<1>1. rmi_one(t, found, force) \in {t, u}
  BY DEF rmi_one
<1>2. /\ DOMAIN u = Fields /\ u.images = [r \in DOMAIN t.images \ refs |-> t.images[r]]
      /\ u.blobs = t.blobs
  BY DEF TablesOK, Fields
<1>. HIDE DEF u, refs
<1>. QED
  BY <1>1, <1>2, FewerImages

(* ... all of them, and one after the other.                               *)
LEMMA RmiAllOK ==
  ASSUME NEW t, TablesOK(t), NEW force
  PROVE  TablesOK(RmiAll(t, force))
<1>. DEFINE gone == {ref \in DOMAIN t.images : force \/ RmiDependents(t.containers, {ref}) = {}}
<1>1. /\ DOMAIN RmiAll(t, force) = Fields
      /\ RmiAll(t, force).images = [r \in DOMAIN t.images \ gone |-> t.images[r]]
      /\ RmiAll(t, force).blobs = t.blobs
  BY DEF RmiAll, TablesOK, Fields
<1>. HIDE DEF gone
<1>. QED
  BY <1>1, FewerImages

LEMMA RmiEachOK ==
  ASSUME NEW t, TablesOK(t), NEW specs, Len(specs) \in Nat, NEW force
  PROVE  TablesOK(RmiEach(t, specs, force))
<1>. DEFINE Step(u, n) ==
              IF Found(u.images, specs[n])
              THEN rmi_one(u, resolve_by_reference_or_id(u.images, specs[n]), force)
              ELSE u
            after[n \in 0..Len(specs)] == IF n = 0 THEN t ELSE Step(after[n - 1], n)
            Upto == {k \in Nat : \E h : h = [n \in 0..k |-> IF n = 0 THEN t ELSE Step(h[n - 1], n)]}
<1>1. RmiEach(t, specs, force) = after[Len(specs)]
  BY DEF RmiEach
<1>2. \A u, n : TablesOK(u) => TablesOK(Step(u, n))
  BY RmiOneOK
<1>. HIDE DEF Step
<1>3. 0 \in Upto
  <2>1. [n \in 0..0 |-> t] = [n \in 0..0 |-> IF n = 0 THEN t ELSE Step([m \in 0..0 |-> t][n - 1], n)]
    OBVIOUS
  <2>. QED
    BY <2>1
<1>4. ASSUME NEW k \in Nat, k \in Upto PROVE k + 1 \in Upto
  <2>1. PICK h : h = [n \in 0..k |-> IF n = 0 THEN t ELSE Step(h[n - 1], n)]
    BY <1>4
  <2>. DEFINE g == [n \in 0..k + 1 |-> IF n = k + 1 THEN Step(h[k], n) ELSE h[n]]
  <2>2. \A n \in 0..k + 1 : g[n] = IF n = 0 THEN t ELSE Step(g[n - 1], n)
    BY <2>1
  <2>3. g = [n \in 0..k + 1 |-> IF n = 0 THEN t ELSE Step(g[n - 1], n)]
    BY <2>2
  <2>. HIDE DEF g
  <2>. QED
    BY <2>3
<1>5. Len(specs) \in Upto
  <2>. HIDE DEF Upto
  <2>. QED
    BY <1>3, <1>4, Counting
<1>6. after = [n \in 0..Len(specs) |-> IF n = 0 THEN t ELSE Step(after[n - 1], n)]
  BY <1>5
<1>. DEFINE Fine == {k \in Nat : k <= Len(specs) => TablesOK(after[k])}
<1>. HIDE DEF after
<1>7. 0 \in Fine
  BY <1>6
<1>8. ASSUME NEW k \in Nat, k \in Fine PROVE k + 1 \in Fine
  BY <1>2, <1>6, <1>8
<1>9. Len(specs) \in Fine
  <2>. HIDE DEF Fine
  <2>. QED
    BY <1>7, <1>8, Counting
<1>. QED
  BY <1>1, <1>9

LEMMA RmiOK ==
  ASSUME NEW t, TablesOK(t), NEW specs, Len(specs) \in Nat, NEW all, NEW force
  PROVE  TablesOK(cmd_rmi(t, specs, all, force))
  BY RmiAllOK, RmiEachOK DEF cmd_rmi

(* An image that was found is there.                                       *)
LEMMA FoundThere ==
  ASSUME NEW images, NEW spec, Found(images, spec)
  PROVE  resolve_by_reference_or_id(images, spec).ref \in DOMAIN images
<1>1. CASE spec \in DOMAIN images /\ ~is_untagged_reference(spec)
  BY <1>1 DEF resolve_by_reference_or_id
<1>2. CASE ~(spec \in DOMAIN images /\ ~is_untagged_reference(spec))
  <2>. DEFINE found == {d \in Present(images) : spec \in {d, AnyId}}
              refs == {ref \in DOMAIN images : images[ref] \in found}
  <2>1. /\ resolve_by_reference_or_id(images, spec).ref = resolve_by_id_only(images, spec)
        /\ resolve_by_id_only(images, spec) \notin {NoImage, Ambiguous}
    BY <1>2 DEF Found, resolve_by_reference_or_id
  <2>2. /\ found # {}
        /\ resolve_by_id_only(images, spec) =
             IF \E ref \in refs : ~is_untagged_reference(ref)
             THEN CHOOSE ref \in refs : ~is_untagged_reference(ref)
             ELSE CHOOSE ref \in refs : TRUE
    BY <2>1, Zenon DEF resolve_by_id_only
  <2>3. refs # {}
    BY <2>2 DEF Present
  <2>. HIDE DEF refs, found
  <2>4. resolve_by_id_only(images, spec) \in refs
    BY <2>2, <2>3, Zenon
  <2>. QED
    BY <2>1, <2>4 DEF refs
<1>. QED
  BY <1>1, <1>2

(* Tables with one more reference.                                         *)
LEMMA OneMoreImage ==
  ASSUME NEW t, TablesOK(t), NEW ref, NEW d \in Digests, NEW u, DOMAIN u = Fields,
         u.images = With(t.images, ref, d), t.blobs \subseteq u.blobs,
         d \in Present(t.images) \/ {d} \cup Blobs(d) \subseteq u.blobs
  PROVE  TablesOK(u)
<1>1. Present(u.images) \subseteq Present(t.images) \cup {d}
  BY DEF Present, With
<1>2. Reachable(u.images) \subseteq Reachable(t.images) \cup {d} \cup Blobs(d)
  BY <1>1 DEF Reachable
<1>3. d \in Present(t.images) => {d} \cup Blobs(d) \subseteq Reachable(t.images)
  BY DEF Reachable
<1>4. Reachable(u.images) \subseteq u.blobs
  BY <1>2, <1>3 DEF TablesOK
<1>. QED
  BY <1>4, FS_AddElement DEF TablesOK, With

LEMMA InitOK == Init => TablesOK(tables)
<1>. SUFFICES ASSUME Init PROVE TablesOK(tables)
  OBVIOUS
<1>1. CASE tables = NoTables
  <2>1. DOMAIN tables = Fields /\ tables.images = <<>>
    BY <1>1 DEF NoTables, Fields
  <2>. QED
    BY <2>1, FS_EmptySet, NoneReachable DEF TablesOK
<1>2. CASE tables = Stocked
  <2>1. DOMAIN tables = Fields /\ tables.images = Pulled /\ tables.blobs = Reachable(Pulled)
    BY <1>2 DEF Stocked, NoTables, Fields
  <2>. QED
    BY <2>1, PulledAssumption DEF TablesOK
<1>. QED
  BY <1>1, <1>2 DEF Init

LEMMA NextOK == TablesOK(tables) /\ [Next]_vars => TablesOK(tables)'
<1>. SUFFICES ASSUME TablesOK(tables), [Next]_vars PROVE TablesOK(tables')
  BY DEF TablesOK, Fields
<1>same. ASSUME UNCHANGED tables PROVE TablesOK(tables')
  BY <1>same DEF TablesOK
<1>say. ASSUME NEW said, Say(said) PROVE TablesOK(tables')
  BY <1>same, <1>say DEF Say
<1>change. ASSUME NEW new, TablesOK(new), Change(new) PROVE TablesOK(tables')
  BY <1>change DEF Change
<1>1. CASE Rmi
  <2>1. PICK specs \in Specs("references") :
          IF RmiAccepts(specs, "all" \in Passed)
          THEN Change(cmd_rmi(tables, specs, "all" \in Passed, "force" \in Passed))
          ELSE Say(Error)
    BY <1>1 DEF Rmi
  <2>2. Len(specs) \in Nat
    BY <2>1 DEF Specs
  <2>. QED
    BY <1>say, <1>change, <2>1, <2>2, RmiOK
<1>2. CASE Tag
  <2>. DEFINE New(target, d) == [tables EXCEPT !.images = With(@, target, d)]
  <2>1. ASSUME NEW target, NEW d \in Digests, d \in Present(tables.images)
        PROVE  TablesOK(New(target, d))
    <3>1. /\ DOMAIN New(target, d) = Fields /\ New(target, d).blobs = tables.blobs
          /\ New(target, d).images = With(tables.images, target, d)
      BY DEF TablesOK, Fields
    <3>. HIDE DEF New
    <3>. QED
      BY <2>1, <3>1, OneMoreImage
  <2>2. ASSUME NEW spec, Found(tables.images, spec)
        PROVE  LET d == tables.images[resolve_by_reference_or_id(tables.images, spec).ref] IN
               d \in Digests /\ d \in Present(tables.images)
    BY <2>2, FoundThere DEF TablesOK, Present
  <2>. HIDE DEF New
  <2>3. PICK spec \in References \cup Digests \cup {AnyId}, target \in References :
          IF Found(tables.images, spec)
          THEN Change(New(target, tables.images[resolve_by_reference_or_id(tables.images, spec).ref]))
          ELSE Say(Error)
    BY <1>2 DEF Tag, New
  <2>. QED
    BY <1>say, <1>change, <2>1, <2>2, <2>3
<1>3. CASE Untag
  <2>. DEFINE New(gone) == [tables EXCEPT !.images = [r \in DOMAIN @ \ gone |-> @[r]]]
  <2>1. ASSUME NEW gone PROVE TablesOK(New(gone))
    <3>1. /\ DOMAIN New(gone) = Fields /\ New(gone).blobs = tables.blobs
          /\ New(gone).images = [r \in DOMAIN tables.images \ gone |-> tables.images[r]]
      BY DEF TablesOK, Fields
    <3>. HIDE DEF New
    <3>. QED
      BY <3>1, FewerImages
  <2>. HIDE DEF New
  <2>2. (\E gone : Change(New(gone))) \/ Say(Error)
    BY <1>3 DEF Untag, New
  <2>. QED
    BY <1>say, <1>change, <2>1, <2>2
<1>4. CASE Pull \/ UntaggedMade
  <2>. DEFINE New(ref, d) ==
              [tables EXCEPT !.images = With(@, ref, d), !.blobs = @ \cup {d} \cup Blobs(d)]
  <2>1. ASSUME NEW ref, NEW d \in Digests PROVE TablesOK(New(ref, d))
    <3>1. /\ DOMAIN New(ref, d) = Fields
          /\ New(ref, d).blobs = tables.blobs \cup {d} \cup Blobs(d)
          /\ New(ref, d).images = With(tables.images, ref, d)
      BY DEF TablesOK, Fields
    <3>. HIDE DEF New
    <3>. QED
      BY <2>1, <3>1, OneMoreImage
  <2>. HIDE DEF New
  <2>2. \E ref, d : d \in Digests /\ Change(New(ref, d))
    BY <1>4 DEF Pull, UntaggedMade, New
  <2>. QED
    BY <1>change, <2>1, <2>2
<1>5. CASE ContainerPrune \/ ImagePrune \/ SystemPrune \/ Reset \/ VolumePrune
  BY <1>5, <1>say, <1>change, PrunesOK
     DEF ContainerPrune, ImagePrune, SystemPrune, Reset, VolumePrune
<1>6. CASE VolumeRm \/ VolumeRename
  <2>. DEFINE New(volumes) == [tables EXCEPT !.volumes = volumes]
  <2>1. ASSUME NEW volumes PROVE TablesOK(New(volumes))
    BY <2>1 DEF TablesOK, Fields
  <2>. HIDE DEF New
  <2>2. (\E volumes : Change(New(volumes))) \/ Say(Error)
    BY <1>6 DEF VolumeRm, VolumeRename, New
  <2>. QED
    BY <1>say, <1>change, <2>1, <2>2
<1>7. CASE ContainerMade
  <2>. DEFINE New(c, v, s) ==
              [tables EXCEPT !.containers = c, !.volumes = v, !.scratch = s]
  <2>1. ASSUME NEW c, NEW v, NEW s PROVE TablesOK(New(c, v, s))
    BY <2>1 DEF TablesOK, Fields
  <2>. HIDE DEF New
  <2>2. \E c, v, s : Change(New(c, v, s))
    BY <1>7 DEF ContainerMade, New
  <2>. QED
    BY <1>change, <2>1, <2>2
<1>8. CASE ContainerExits
  <2>. DEFINE New(i) == [tables EXCEPT !.containers[i].status = "stopped",
                                       !.containers[i].exit = 0]
  <2>1. ASSUME NEW i PROVE TablesOK(New(i))
    BY <2>1 DEF TablesOK, Fields
  <2>. HIDE DEF New
  <2>2. \E i : Change(New(i))
    BY <1>8 DEF ContainerExits, New
  <2>. QED
    BY <1>change, <2>1, <2>2
<1>9. CASE Type \/ Prompt
  BY <1>9, <1>same DEF Type, Prompt
<1>10. CASE Refuse \/ Elsewhere \/ Images \/ History \/ Push \/ ImageExists \/ ContainerExists
  BY <1>10, <1>say DEF Refuse, Elsewhere, Images, History, Push, ImageExists, ContainerExists
<1>11. CASE VolumeExists \/ Inspect \/ ImageMount \/ Ps \/ Df \/ ListVolumes
  BY <1>11, <1>say DEF VolumeExists, Inspect, ImageMount, Ps, Df, ListVolumes
<1>12. CASE Configure \/ Exec \/ Update \/ HealthcheckRun
  BY <1>12, <1>say DEF Configure, Exec, Update, HealthcheckRun
<1>13. CASE UNCHANGED vars
  BY <1>13, <1>same DEF vars
<1>. QED
  BY <1>1, <1>2, <1>3, <1>4, <1>5, <1>6, <1>7, <1>8, <1>9, <1>10, <1>11, <1>12, <1>13 DEF Next

(* The tables are so in every reachable state.                             *)
LEMMA TablesAlways == Spec => []TablesOK(tables)
  BY InitOK, NextOK, PTL DEF Spec

-----------------------------------------------------------------------------
(* The flags that are put beside the labels of a prune: there is no other  *)
(* term, and each flag has its value.                                      *)
Raised(kind) == {[kind |-> kind, value |-> TRUE]}
Lowered(kind) == {[kind |-> kind, value |-> FALSE]}

LEMMA FlagTerms ==
  ASSUME NEW terms, Kinds(terms) \subseteq {"label"}, NEW kinds, "label" \notin kinds
  PROVE  /\ OfKind(WithFlags(terms, kinds), "label") = terms
         /\ \A kind : kind \notin kinds /\ kind # "label" =>
                OfKind(WithFlags(terms, kinds), kind) = {}
         /\ \A kind : kind \in kinds =>
                OfKind(WithFlags(terms, kinds), kind)
                  = IF kind = "dangling" THEN Raised(kind) ELSE Lowered(kind)
<1>1. \A t \in terms : t.kind = "label"
  BY DEF Kinds
<1>2. OfKind(terms, "label") = terms
  BY <1>1 DEF OfKind
<1>3. WithFlags(terms, kinds) = terms \cup {[kind |-> k, value |-> k = "dangling"] : k \in kinds}
  BY <1>2 DEF WithFlags
<1>. DEFINE flags == {[kind |-> k, value |-> k = "dangling"] : k \in kinds}
<1>4. \A t \in flags : t.kind \in kinds /\ t = [kind |-> t.kind, value |-> t.kind = "dangling"]
  BY SMT
<1>5. \A k \in kinds : /\ [kind |-> k, value |-> k = "dangling"] \in flags
                       /\ [kind |-> k, value |-> k = "dangling"].kind = k
  OBVIOUS
<1>. HIDE DEF flags
<1>6. OfKind(terms \cup flags, "label") = terms
  BY <1>1, <1>4 DEF OfKind
<1>7. \A kind : kind \notin kinds /\ kind # "label" => OfKind(terms \cup flags, kind) = {}
  BY <1>1, <1>4 DEF OfKind
<1>8. \A kind \in kinds : OfKind(terms \cup flags, kind)
                            = {[kind |-> kind, value |-> kind = "dangling"]}
  BY <1>1, <1>4, <1>5 DEF OfKind
<1>9. \A k : {[kind |-> k, value |-> k = "dangling"]}
              = IF k = "dangling" THEN Raised(k) ELSE Lowered(k)
  BY DEF Raised, Lowered
<1>. QED
  BY <1>3, <1>6, <1>7, <1>8, <1>9, Zenon DEF flags

LEMMA FlagRaised ==
  ASSUME NEW terms, NEW kind, OfKind(terms, kind) = Raised(kind), NEW value \in BOOLEAN
  PROVE  Flag(terms, kind, value) <=> value
<1>. DEFINE raised == [kind |-> kind, value |-> TRUE]
<1>1. PICK flag : OfKind(terms, kind) = {flag} /\ flag.value = TRUE
  <2>1. OfKind(terms, kind) = {raised} /\ raised.value = TRUE
    BY DEF Raised
  <2>. HIDE DEF raised
  <2>. QED
    BY <2>1, Zenon
<1>2. Flag(terms, kind, value) <=> value = flag.value
  BY <1>1, Zenon DEF Flag
<1>. QED
  BY <1>1, <1>2, Zenon

LEMMA FlagLowered ==
  ASSUME NEW terms, NEW kind, OfKind(terms, kind) = Lowered(kind), NEW value \in BOOLEAN
  PROVE  Flag(terms, kind, value) <=> ~value
<1>. DEFINE lowered == [kind |-> kind, value |-> FALSE]
<1>1. PICK flag : OfKind(terms, kind) = {flag} /\ flag.value = FALSE
  <2>1. OfKind(terms, kind) = {lowered} /\ lowered.value = FALSE
    BY DEF Lowered
  <2>. HIDE DEF lowered
  <2>. QED
    BY <2>1, Zenon
<1>2. Flag(terms, kind, value) <=> value = flag.value
  BY <1>1, Zenon DEF Flag
<1>. QED
  BY <1>1, <1>2, Zenon

(* An image is pruned when images lists it as unused, and as dangling when *)
(* --all is not given, under the same labels.                              *)
LEMMA PrunedIsListed ==
  ASSUME NEW table, NEW images, NEW terms, Kinds(terms) \subseteq {"label"}, NEW ref,
         NEW all \in BOOLEAN
  PROVE  ImagePruned(table, images, all, terms, ref)
           <=> ImageListed(table, images, WithFlags(terms, UnusedFlags(all)), ref)
<1>. DEFINE W == WithFlags(terms, UnusedFlags(all))
            d == images[ref]
<1>1. /\ OfKind(W, "label") = terms
      /\ \A kind \in {"id", "digest", "reference", "reference!", "before", "since", "until"} :
            OfKind(W, kind) = {}
      /\ OfKind(W, "dangling") = IF all THEN {} ELSE Raised("dangling")
      /\ OfKind(W, "containers") = Lowered("containers")
  <2>. DEFINE kinds == UnusedFlags(all)
  <2>1. /\ kinds = IF all THEN {"containers"} ELSE {"dangling", "containers"}
        /\ "label" \notin kinds
    BY DEF UnusedFlags
  <2>. HIDE DEF kinds
  <2>2. /\ OfKind(WithFlags(terms, kinds), "label") = terms
        /\ \A kind : kind \notin kinds /\ kind # "label" =>
               OfKind(WithFlags(terms, kinds), kind) = {}
        /\ \A kind : kind \in kinds =>
               OfKind(WithFlags(terms, kinds), kind)
                 = IF kind = "dangling" THEN Raised(kind) ELSE Lowered(kind)
    BY <2>1, FlagTerms
  <2>3. /\ OfKind(WithFlags(terms, kinds), "label") = terms
        /\ \A kind \in {"id", "digest", "reference", "reference!", "before", "since", "until"} :
              OfKind(WithFlags(terms, kinds), kind) = {}
        /\ OfKind(WithFlags(terms, kinds), "dangling") = IF all THEN {} ELSE Raised("dangling")
        /\ OfKind(WithFlags(terms, kinds), "containers") = Lowered("containers")
    BY <2>1, <2>2
  <2>. QED
    BY <2>3 DEF kinds
<1>2. OfKind(terms, "label") = terms /\ OfKind(terms, "dangling") = {} /\ OfKind(terms, "until") = {}
  BY DEF Kinds, OfKind
<1>. HIDE DEF W
<1>3. AnyLabel(W, Contents[d].labels) <=> AnyLabel(terms, Contents[d].labels)
  BY <1>1, <1>2, Zenon DEF AnyLabel
<1>4. Flag(W, "dangling", is_untagged_reference(ref)) <=> all \/ is_untagged_reference(ref)
  <2>. DEFINE v == is_untagged_reference(ref)
  <2>1. v \in BOOLEAN
    BY DEF is_untagged_reference
  <2>. HIDE DEF v
  <2>3. ~all => (Flag(W, "dangling", v) <=> v)
    BY <1>1, <2>1, FlagRaised, Zenon
  <2>4. all => Flag(W, "dangling", v)
    BY <1>1, Zenon DEF Flag
  <2>2. Flag(W, "dangling", v) <=> all \/ v
    BY <2>3, <2>4
  <2>. QED
    BY <2>1, <2>2 DEF v
<1>5. Flag(W, "containers", d \in images_in_use_digests(table, images))
        <=> d \notin images_in_use_digests(table, images)
  <2>. DEFINE v == d \in images_in_use_digests(table, images)
  <2>1. v \in BOOLEAN
    OBVIOUS
  <2>. HIDE DEF v
  <2>2. Flag(W, "containers", v) <=> ~v
    BY <1>1, <2>1, FlagLowered, Zenon
  <2>. QED
    BY <2>1, <2>2 DEF v
<1>6. ImageDatesMatch(images, W, d)
  BY <1>1 DEF ImageDatesMatch, Before
<1>7. ImageListed(table, images, W, ref)
        <=> /\ all \/ is_untagged_reference(ref)
            /\ d \notin images_in_use_digests(table, images)
            /\ AnyLabel(terms, Contents[d].labels)
  BY <1>1, <1>3, <1>4, <1>5, <1>6, Zenon DEF ImageListed
<1>8. ImagePruned(table, images, all, terms, ref)
        <=> /\ all \/ is_untagged_reference(ref)
            /\ d \notin images_in_use_digests(table, images)
            /\ AnyLabel(terms, Contents[d].labels)
  BY <1>2, Zenon DEF ImagePruned
<1>. QED
  BY <1>7, <1>8 DEF W

(* volume prune takes what volume ls lists as dangling under its terms.    *)
LEMMA VolumesPrunedListed ==
  ASSUME NEW table, NEW volumes, NEW terms, parse_volume_prune_filters(terms)
  PROVE  VolumesPruned(table, volumes, terms)
           = cmd_volume_ls(table, volumes, terms \cup WithFlags({}, {"dangling"}))
<1>. DEFINE flag == Raised("dangling")
            W == terms \cup WithFlags({}, {"dangling"})
<1>1. WithFlags({}, {"dangling"}) = flag
  BY DEF WithFlags, OfKind, Raised
<1>2. \A t \in terms : t.kind \in {"label", "until", "since"}
  BY DEF parse_volume_prune_filters, Kinds
<1>3. /\ \A kind \in {"label", "until", "since"} : OfKind(W, kind) = OfKind(terms, kind)
      /\ OfKind(W, "name") = {}
      /\ OfKind(W, "dangling") = flag
  BY <1>1, <1>2 DEF OfKind, Raised
<1>. HIDE DEF W
<1>4. ASSUME NEW name \in DOMAIN volumes
      PROVE  /\ AnyText(W, "name", name)
             /\ EveryLabel(W, volumes[name].labels) <=> EveryLabel(terms, volumes[name].labels)
             /\ VolumeDatesMatch(volumes, W, name) <=> VolumeDatesMatch(volumes, terms, name)
             /\ Flag(W, "dangling", containers_using_volume(table, name) = {})
                  <=> containers_using_volume(table, name) = {}
  <2>1. AnyText(W, "name", name)
    BY <1>3 DEF AnyText
  <2>2. EveryLabel(W, volumes[name].labels) <=> EveryLabel(terms, volumes[name].labels)
    BY <1>3, Zenon DEF EveryLabel
  <2>3. OfKind(W, "until") = OfKind(terms, "until") /\ OfKind(W, "since") = OfKind(terms, "since")
    BY <1>3
  <2>4. VolumeDatesMatch(volumes, W, name) <=> VolumeDatesMatch(volumes, terms, name)
    BY <2>3, Zenon DEF VolumeDatesMatch, Before
  <2>5. Flag(W, "dangling", containers_using_volume(table, name) = {})
          <=> containers_using_volume(table, name) = {}
    <3>. DEFINE v == containers_using_volume(table, name) = {}
    <3>1. v \in BOOLEAN
      OBVIOUS
    <3>. HIDE DEF v
    <3>2. Flag(W, "dangling", v) <=> v
      BY <1>3, <3>1, FlagRaised, Zenon
    <3>. QED
      BY <3>1, <3>2 DEF v
  <2>. QED
    BY <2>1, <2>2, <2>4, <2>5
<1>5. VolumesPruned(table, volumes, terms) = cmd_volume_ls(table, volumes, W)
  BY <1>4, Zenon DEF VolumesPruned, cmd_volume_ls
<1>. QED
  BY <1>5 DEF W

(* Whatever the tables, image prune under filters by label takes the       *)
(* images that images lists as unused, and as dangling unless --all is     *)
(* given, and volume prune the volumes that volume ls lists as dangling,   *)
(* under the same terms.                                                   *)
THEOREM ListedIsPruned == Spec => PrunesListed
<1>1. TablesOK(tables) =>
        (Calls("cmd_image_prune") /\ answer' = Done =>
         \A terms \in Terms(ImageFilters) :
            Kinds(terms) \subseteq {"label"}
            /\ tables' = prune_images_and_reclaim(tables, "all" \in Passed, terms) =>
                Gone("images") = cmd_images(tables.containers, tables.images,
                                            WithFlags(terms, UnusedFlags("all" \in Passed))))
  <2>. DEFINE all == "all" \in Passed
  <2>. SUFFICES ASSUME TablesOK(tables), NEW terms, Kinds(terms) \subseteq {"label"},
                       tables' = prune_images_and_reclaim(tables, all, terms)
                PROVE  Gone("images") = cmd_images(tables.containers, tables.images,
                                                   WithFlags(terms, UnusedFlags(all)))
    OBVIOUS
  <2>4. all \in BOOLEAN
    OBVIOUS
  <2>. HIDE DEF all
  <2>. DEFINE gone == {ref \in DOMAIN tables.images :
                          ImagePruned(tables.containers, tables.images, all, terms, ref)}
  <2>1. tables'["images"] = [ref \in DOMAIN tables.images \ gone |-> tables.images[ref]]
    BY DEF prune_images_and_reclaim, TablesOK, Fields
  <2>2. Gone("images") = gone
    BY <2>1 DEF Gone
  <2>. QED
    BY <2>2, <2>4, PrunedIsListed, Zenon DEF cmd_images
<1>2. TablesOK(tables) =>
        (Calls("cmd_volume_prune") /\ answer' = Done =>
         \A terms \in Terms(VolumeFilters) :
            parse_volume_prune_filters(terms) /\ VolumeTermsResolve(tables.volumes, terms)
            /\ tables' = cmd_volume_prune(tables, terms) =>
                Gone("volumes") = cmd_volume_ls(tables.containers, tables.volumes,
                                                terms \cup WithFlags({}, {"dangling"})))
  <2>. SUFFICES ASSUME TablesOK(tables), NEW terms, parse_volume_prune_filters(terms),
                       tables' = cmd_volume_prune(tables, terms)
                PROVE  Gone("volumes") = cmd_volume_ls(tables.containers, tables.volumes,
                                                terms \cup WithFlags({}, {"dangling"}))
    OBVIOUS
  <2>. DEFINE gone == VolumesPruned(tables.containers, tables.volumes, terms)
  <2>1. tables'["volumes"] = [n \in DOMAIN tables.volumes \ gone |-> tables.volumes[n]]
    BY DEF cmd_volume_prune, TablesOK, Fields
  <2>2. gone \subseteq DOMAIN tables.volumes
    BY DEF VolumesPruned
  <2>3. Gone("volumes") = gone
    BY <2>1, <2>2 DEF Gone
  <2>. QED
    BY <2>3, VolumesPrunedListed
<1>. QED
  BY <1>1, <1>2, TablesAlways, PTL DEF PrunesListed

-----------------------------------------------------------------------------
(* The options of a line have values that may be given for them.           *)
Typed(o) ==
    DOMAIN o \subseteq DOMAIN Values /\ \A option \in DOMAIN o : o[option] \in Values[option]

LEMMA ChoicesTyped == \A o \in OptionChoices : Typed(o)
<1>. DEFINE options == Passed \cap DOMAIN Values
            given == UNION {{<<option, v>> : v \in Values[option]} : option \in options}
            picks == {f \in [options -> given] : \A option \in options : f[option][1] = option}
<1>1. SUFFICES ASSUME NEW f \in picks PROVE Typed([option \in options |-> f[option][2]])
  BY DEF OptionChoices
<1>2. ASSUME NEW option \in options PROVE f[option][2] \in Values[option]
  <2>1. f[option] \in given /\ f[option][1] = option
    BY <1>2
  <2>2. PICK p \in options : \E v \in Values[p] : f[option] = <<p, v>>
    BY <2>1
  <2>. QED
    BY <2>1, <2>2
<1>. QED
  BY <1>2 DEF Typed

(* An answer about a configuration was made, of options that may be given, *)
(* by the function that makes it.                                          *)
AnswerOK(a) ==
    /\ a.is = "spec" => /\ Typed(a.asked) /\ a.config \in ImageConfigs
                        /\ a.spec = synthesize_spec(a.config, a.asked) /\ a.spec # Invalid
    /\ a.is = "exec" => /\ Typed(a.asked) /\ a.process \in Processes
                        /\ a.request = ExecRequest(a.process, a.asked) /\ a.request # Invalid
    /\ a.is = "updated" =>
         /\ Typed(a.asked) /\ a.before \in Healthchecks
         /\ parse_and_validate_memory_and_cpus(a.asked)
         /\ a.resources = resources_from_cli(a.asked)
         /\ a.after = IF IsGiven(a.asked, HealthOptions \cup {"no-healthcheck"})
                      THEN update_healthcheck(a.before, a.asked) ELSE a.before
         /\ a.after # Invalid \/ ~IsGiven(a.asked, HealthOptions \cup {"no-healthcheck"})

Spoken == {"spec", "exec", "updated"}

LEMMA Unspoken ==
  ASSUME NEW a, a.is \notin Spoken PROVE AnswerOK(a)
  BY DEF AnswerOK, Spoken

LEMMA AnswersNext == AnswerOK(answer) /\ [Next]_vars => AnswerOK(answer)'
<1>. SUFFICES ASSUME AnswerOK(answer), [Next]_vars PROVE AnswerOK(answer')
  BY DEF AnswerOK
<1>same. ASSUME UNCHANGED answer PROVE AnswerOK(answer')
  BY <1>same
<1>say. ASSUME NEW said, AnswerOK(said), Say(said) PROVE AnswerOK(answer')
  BY <1>say DEF Say
<1>done. AnswerOK(Done) /\ AnswerOK(Error)
  BY Unspoken DEF Done, Error, Spoken
<1>change. ASSUME NEW new, Change(new) PROVE AnswerOK(answer')
  BY <1>change, <1>done DEF Change
<1>1. CASE Configure
  <2>1. PICK o \in OptionChoices, config \in ImageConfigs :
          Say(IF synthesize_spec(config, o) = Invalid THEN Error
              ELSE [is |-> "spec", asked |-> o, config |-> config,
                    spec |-> synthesize_spec(config, o)])
    BY <1>1 DEF Configure
  <2>2. ASSUME NEW spec, spec = synthesize_spec(config, o), spec # Invalid
        PROVE  AnswerOK([is |-> "spec", asked |-> o, config |-> config, spec |-> spec])
    BY <2>2, ChoicesTyped DEF AnswerOK
  <2>. QED
    BY <1>say, <1>done, <2>1, <2>2
<1>2. CASE Exec
  <2>1. PICK o \in OptionChoices, process \in Processes :
          Say(IF ~Running \/ ExecRequest(process, o) = Invalid THEN Error
              ELSE [is |-> "exec", asked |-> o, process |-> process,
                    request |-> ExecRequest(process, o)])
    BY <1>2 DEF Exec
  <2>2. ASSUME NEW request, request = ExecRequest(process, o), request # Invalid
        PROVE  AnswerOK([is |-> "exec", asked |-> o, process |-> process, request |-> request])
    BY <2>2, ChoicesTyped DEF AnswerOK
  <2>. QED
    BY <1>say, <1>done, <2>1, <2>2
<1>3. CASE Update
  <2>. DEFINE health(o) == IsGiven(o, HealthOptions \cup {"no-healthcheck"})
              new(o, existing) ==
                IF health(o) THEN update_healthcheck(existing, o) ELSE existing
              told(o, existing) == [is |-> "updated", asked |-> o, before |-> existing,
                                    after |-> new(o, existing),
                                    resources |-> resources_from_cli(o)]
              fine(o, existing) == /\ parse_and_validate_memory_and_cpus(o)
                                   /\ health(o) => new(o, existing) # Invalid
  <2>1. \E o \in OptionChoices, existing \in Healthchecks :
          \/ fine(o, existing) /\ Say(told(o, existing))
          \/ Say(Error)
    <3>1. PICK o \in OptionChoices, existing \in Healthchecks, absent \in Absent :
            LET resources == resources_from_cli(o) IN
            Say(IF /\ parse_and_validate_memory_and_cpus(o)
                   /\ resources # None \/ health(o)
                   /\ resources # None =>
                         Running /\ apply(<<>>, plan_resources(resources), absent).ok
                   /\ health(o) => Ref # 0 /\ new(o, existing) # Invalid
                THEN [is |-> "updated", asked |-> o, before |-> existing,
                      after |-> new(o, existing), resources |-> resources]
                ELSE Error)
      BY <1>3, Zenon DEF Update
    <3>. QED
      BY <3>1, Zenon
  <2>2. ASSUME NEW o \in OptionChoices, NEW existing \in Healthchecks, fine(o, existing)
        PROVE  AnswerOK(told(o, existing))
    <3>. DEFINE a == told(o, existing)
    <3>1. /\ a.is = "updated" /\ a.asked = o /\ a.before = existing
          /\ a.after = new(o, existing) /\ a.resources = resources_from_cli(o)
      OBVIOUS
    <3>. HIDE DEF told
    <3>. QED
      BY <2>2, <3>1, ChoicesTyped, Zenon DEF AnswerOK
  <2>. HIDE DEF told, fine
  <2>. QED
    BY <1>say, <1>done, <2>1, <2>2, Zenon
<1>4. CASE Inspect
  <2>1. \A t, ref, type, size : cmd_inspect(t, ref, type, size).is \in {"container", "error", "image"}
    BY DEF cmd_inspect
  <2>2. \E said : said.is \in {"container", "error", "image"} /\ Say(said)
    BY <1>4, <2>1 DEF Inspect, Error
  <2>. QED
    BY <1>say, <2>2, Unspoken DEF Spoken
<1>5. CASE Images \/ Ps \/ ListVolumes \/ ImageMount
  <2>1. \E said : said.is \in {"error", "images", "containers", "volumes"} /\ Say(said)
    <3>1. \A r : /\ [is |-> "images", refs |-> r].is = "images"
                 /\ [is |-> "containers", ids |-> r].is = "containers"
                 /\ [is |-> "volumes", names |-> r].is = "volumes"
                 /\ Error.is = "error"
      BY DEF Error
    <3>2. CASE Images
      BY <3>1, <3>2 DEF Images
    <3>3. CASE Ps
      BY <3>1, <3>3 DEF Ps
    <3>4. CASE ListVolumes
      BY <3>1, <3>4 DEF ListVolumes
    <3>5. CASE ImageMount
      BY <3>1, <3>5 DEF ImageMount
    <3>. QED
      BY <1>5, <3>2, <3>3, <3>4, <3>5
  <2>. QED
    BY <1>say, <2>1, Unspoken DEF Spoken
<1>6. CASE Df \/ History
  <2>1. \E said : said.is \in {"error", "rows", "df", "history"} /\ Say(said)
    <3>1. \A r, q : /\ [is |-> "rows", rows |-> r].is = "rows"
                    /\ [is |-> "df", df |-> r].is = "df"
                    /\ [is |-> "history", ref |-> q, sizes |-> r].is = "history"
                    /\ Error.is = "error"
      BY DEF Error
    <3>2. CASE Df
      BY <3>1, <3>2 DEF Df
    <3>3. CASE History
      BY <3>1, <3>3 DEF History
    <3>. QED
      BY <1>6, <3>2, <3>3
  <2>. QED
    BY <1>say, <2>1, Unspoken DEF Spoken
<1>7. CASE Rmi \/ Tag \/ Untag \/ Pull \/ ContainerPrune \/ ImagePrune
  <2>1. (\E new : Change(new)) \/ Say(Error)
    BY <1>7 DEF Rmi, Tag, Untag, Pull, ContainerPrune, ImagePrune
  <2>. QED
    BY <1>say, <1>done, <1>change, <2>1
<1>8. CASE SystemPrune \/ Reset \/ VolumePrune \/ VolumeRm \/ VolumeRename
  <2>1. (\E new : Change(new)) \/ Say(Error)
    BY <1>8 DEF SystemPrune, Reset, VolumePrune, VolumeRm, VolumeRename
  <2>. QED
    BY <1>say, <1>done, <1>change, <2>1
<1>9. CASE ContainerMade \/ ContainerExits \/ UntaggedMade
  <2>1. \E new : Change(new)
    BY <1>9 DEF ContainerMade, ContainerExits, UntaggedMade
  <2>. QED
    BY <1>change, <2>1
<1>10. CASE Refuse \/ Elsewhere \/ Push \/ ImageExists \/ ContainerExists \/ VolumeExists
            \/ HealthcheckRun
  <2>1. Say(Done) \/ Say(Error)
    BY <1>10 DEF Refuse, Elsewhere, Push, ImageExists, ContainerExists, VolumeExists,
                HealthcheckRun
  <2>. QED
    BY <1>say, <1>done, <2>1
<1>11. CASE Type \/ Prompt
  BY <1>11, <1>same, <1>done DEF Type, Prompt
<1>12. CASE UNCHANGED vars
  BY <1>12, <1>same DEF vars
<1>. QED
  BY <1>1, <1>2, <1>3, <1>4, <1>5, <1>6, <1>7, <1>8, <1>9, <1>10, <1>11, <1>12 DEF Next

LEMMA AnswersAlways == Spec => []AnswerOK(answer)
<1>1. Init => AnswerOK(answer)
  BY Unspoken DEF Init, Done, Spoken
<1>. QED
  BY <1>1, AnswersNext, PTL DEF Spec

-----------------------------------------------------------------------------
(* A set of numbers that has an upper bound has a greatest one.            *)
LEMMA Greatest ==
  ASSUME NEW S, S \subseteq Nat, S # {}, NEW n \in Nat, \A k \in S : k <= n
  PROVE  Max(S) \in S /\ \A k \in S : k <= Max(S)
<1>. DEFINE bounds == {b \in Nat : \A k \in S : k <= b}
<1>1. PICK m \in bounds : \A k \in bounds : <<k, m>> \notin OpToRel(<, Nat)
  <2>1. bounds \subseteq Nat /\ bounds # {}
    OBVIOUS
  <2>. HIDE DEF bounds
  <2>. QED
    BY <2>1, WFMin, NatLessThanWellFounded, Zenon
<1>2. \A k \in bounds : ~(k < m)
  BY <1>1, Zenon DEF OpToRel
<1>3. m \in S
  <2>. SUFFICES ASSUME m \notin S PROVE FALSE
    OBVIOUS
  <2>1. \A k \in S : k < m
    BY SMT
  <2>2. m \in Nat /\ S \subseteq Nat /\ \E k \in S : k < m
    BY <2>1
  <2>3. m - 1 \in Nat /\ \A k \in S : k <= m - 1
    BY <2>1, <2>2, SMT
  <2>4. m - 1 \in bounds /\ m - 1 < m
    BY <2>2, <2>3, SMT
  <2>. QED
    BY <1>2, <2>4
<1>4. \E x \in S : \A y \in S : x >= y
  BY <1>3
<1>5. Max(S) \in S /\ \A y \in S : Max(S) >= y
  BY <1>4, Zenon DEF Max
<1>. QED
  BY <1>5

(* The capabilities that are merged: nothing that was not asked for, and   *)
(* nothing that was dropped.                                               *)
LEMMA CapabilitiesMerged ==
  ASSUME NEW base, NEW adds, NEW drops,
         merge_capabilities(base, adds, drops) # Invalid
  PROVE  LET caps == merge_capabilities(base, adds, drops)
             a == normalize_capabilities(adds)
             d == normalize_capabilities(drops) IN
         /\ "ALL" \in a \/ caps \subseteq base \cup a
         /\ IF "ALL" \in d THEN caps \subseteq a ELSE caps \cap d = {}
<1>. DEFINE a == normalize_capabilities(adds)
            d == normalize_capabilities(drops)
<1>1. CASE adds = {} /\ drops = {}
  <2>1. a = {} /\ d = {}
    BY <1>1 DEF normalize_capabilities
  <2>. QED
    BY <1>1, <2>1 DEF merge_capabilities
<1>2. CASE ~(adds = {} /\ drops = {})
  <2>. HIDE DEF a, d
  <2>1. merge_capabilities(base, adds, drops) =
          IF "ALL" \in d THEN a
          ELSE IF "ALL" \in a THEN ALL_CAPABILITY_NAMES \ d ELSE (base \ d) \cup a
    BY <1>2 DEF merge_capabilities, a, d
  <2>2. "ALL" \in d \/ "ALL" \in a \/ a \cap d = {}
    BY <1>2 DEF merge_capabilities, a, d
  <2>. QED
    BY <2>1, <2>2 DEF a, d
<1>. QED
  BY <1>1, <1>2

(* Without --privileged and unless told to, there is a seccomp filter.     *)
LEMMA SeccompKept ==
  ASSUME NEW opts, Len(opts) \in Nat, DOMAIN opts = 1..Len(opts),
         \A i \in DOMAIN opts : opts[i].value # None,
         NEW privileged \in BOOLEAN,
         resolve_security_opts(opts, privileged) # Invalid,
         resolve_security_opts(opts, privileged).seccomp = None
  PROVE  privileged \/ \E t \in ToSet(opts) : t.value = "unconfined"
<1>. DEFINE mine == {i \in DOMAIN opts : opts[i].key = "seccomp"}
            default == IF privileged THEN "unconfined" ELSE "default"
            seccomp == IF mine = {} THEN default ELSE opts[Max(mine)].value
<1>1. resolve_security_opts(opts, privileged).seccomp
        = IF seccomp = "unconfined" THEN None ELSE seccomp
  BY DEF resolve_security_opts
<1>2. CASE mine = {}
  BY <1>1, <1>2, SpecConstants
<1>3. CASE mine # {}
  <2>1. Max(mine) \in mine
    <3>1. mine \subseteq Nat /\ (\A k \in mine : k <= Len(opts)) /\ Len(opts) \in Nat
      OBVIOUS
    <3>. HIDE DEF mine
    <3>. QED
      BY <1>3, <3>1, Greatest
  <2>2. opts[Max(mine)].value = "unconfined"
    BY <1>1, <1>3, <2>1
  <2>. QED
    BY <2>1, <2>2 DEF ToSet
<1>. QED
  BY <1>2, <1>3

(* The user of a process that was resolved is root.                        *)
LEMMA UserIsRoot ==
  ASSUME NEW user, resolve_user(user) # Invalid
  PROVE  resolve_user(user) = [uid |-> 0, gid |-> 0]
  BY DEF resolve_user

(* What a configuration and its process consist of.                        *)
LEMMA SpecFields ==
  ASSUME NEW config, NEW o, synthesize_spec(config, o) # Invalid
  PROVE  LET spec == synthesize_spec(config, o) IN
         /\ spec.process = SpecProcess(config, o)
         /\ spec.resources = SpecResources(o)
         /\ spec.seccomp = resolve_security_opts(Asked(o, "security-opt", <<>>),
                                                 IsGiven(o, {"privileged"})).seccomp
         /\ spec.mounts = VolumeMounts(o) \o TmpfsMounts(o)
         /\ PrepareAccepts(o)
         /\ SpecProcess(config, o).args # Invalid
  BY Zenon DEF synthesize_spec

LEMMA ProcessFields ==
  ASSUME NEW config, NEW o
  PROVE  LET process == SpecProcess(config, o) IN
         /\ process.args = command_for(config, parse_entrypoint(Asked(o, "entrypoint", None)),
                                       Asked(o, "args", <<>>))
         /\ process.rlimits = Rlimits(o)
         /\ process.env = SpecEnv(config, o)
         /\ process.bounding = SpecCapabilities(o)
         /\ process.effective = SpecCapabilities(o)
         /\ process.permitted = SpecCapabilities(o)
  BY Zenon DEF SpecProcess

(* The options, the image and the host may ask for anything: what run and  *)
(* create configure and what exec requests has no more privilege than was  *)
(* asked for.                                                              *)
THEOREM NoMorePrivilege == Spec => []Confined
<1>1. AnswerOK(answer) => Confined
  <2>. SUFFICES ASSUME AnswerOK(answer) PROVE Confined
    OBVIOUS
  <2>1. CASE answer.is = "spec"
    <3>. DEFINE o == answer.asked
                config == answer.config
                privileged == IsGiven(o, {"privileged"})
                opts == Asked(o, "security-opt", <<>>)
                base == IF privileged THEN ALL_CAPABILITY_NAMES ELSE podman_default_capabilities
                caps == SpecCapabilities(o)
    <3>1. /\ Typed(o) /\ answer.spec = synthesize_spec(config, o)
          /\ synthesize_spec(config, o) # Invalid
      BY <2>1 DEF AnswerOK
    <3>. HIDE DEF o, config
    <3>2. PrepareAccepts(o)
      BY <3>1, Zenon DEF synthesize_spec
    <3>3. /\ answer.spec.process = SpecProcess(config, o)
          /\ answer.spec.seccomp = resolve_security_opts(opts, privileged).seccomp
      BY <3>1, SpecFields
    <3>4. /\ answer.spec.process.bounding = caps /\ answer.spec.process.effective = caps
          /\ answer.spec.process.permitted = caps
      BY <3>3, ProcessFields
    <3>5. caps = merge_capabilities(base, Asked(o, "cap-add", {}), Asked(o, "cap-drop", {}))
      BY DEF SpecCapabilities
    <3>6. caps # Invalid
      BY <3>2 DEF PrepareAccepts
    <3>7. /\ privileged \/ "ALL" \in Added(o) \/ caps \subseteq podman_default_capabilities \cup Added(o)
          /\ IF "ALL" \in Dropped(o) THEN caps \subseteq Added(o) ELSE caps \cap Dropped(o) = {}
      <4>. HIDE DEF caps, privileged
      <4>1. /\ "ALL" \in Added(o) \/ caps \subseteq base \cup Added(o)
            /\ IF "ALL" \in Dropped(o) THEN caps \subseteq Added(o) ELSE caps \cap Dropped(o) = {}
        BY <3>5, <3>6, CapabilitiesMerged DEF Added, Dropped
      <4>. QED
        BY <4>1
    <3>8. resolve_security_opts(opts, privileged) # Invalid
      BY <3>2 DEF PrepareAccepts
    <3>9. /\ Len(opts) \in Nat /\ DOMAIN opts = 1..Len(opts)
          /\ \A i \in DOMAIN opts : opts[i].value # None
      <4>1. CASE "security-opt" \in DOMAIN o
        <5>1. opts = o["security-opt"] /\ o["security-opt"] \in Values["security-opt"]
              /\ "security-opt" \in DOMAIN Values
          BY <3>1, <4>1 DEF Typed, Asked
        <5>. QED
          BY <5>1, SecurityOptsAssumption
      <4>2. CASE "security-opt" \notin DOMAIN o
        BY <4>2 DEF Asked
      <4>. QED
        BY <4>1, <4>2
    <3>10. answer.spec.seccomp = None =>
             privileged \/ \E t \in ToSet(opts) : t.value = "unconfined"
      <4>1. privileged \in BOOLEAN
        BY DEF IsGiven
      <4>. HIDE DEF opts, privileged
      <4>. QED
        BY <3>3, <3>8, <3>9, <4>1, SeccompKept
    <3>11. answer.is # "exec"
      BY <2>1
    <3>. QED
      BY <3>4, <3>7, <3>10, <3>11, Zenon DEF Confined, o
  <2>2. CASE answer.is = "exec"
    <3>. DEFINE o == answer.asked
                process == answer.process
                user == IF IsGiven(o, {"user"}) THEN resolve_user(o["user"]) ELSE process.user
    <3>1. /\ process \in Processes /\ answer.request = ExecRequest(process, o)
          /\ ExecRequest(process, o) # Invalid
      BY <2>2 DEF AnswerOK
    <3>. HIDE DEF o, process
    <3>2. /\ user # Invalid /\ answer.request.user = user
          /\ answer.request.capabilities
               = resolve_exec_capabilities(process, IsGiven(o, {"privileged"}), user.uid)
          /\ answer.request.no_new_privileges = process.no_new_privileges
      BY <3>1 DEF ExecRequest
    <3>3. user.uid = 0
      BY <3>1, <3>2, UserIsRoot, ProcessesAssumption
    <3>4. ~IsGiven(o, {"privileged"}) => answer.request.capabilities.effective = process.bounding
      BY <3>2, <3>3 DEF resolve_exec_capabilities
    <3>5. answer.is # "spec"
      BY <2>2
    <3>. QED
      BY <3>2, <3>3, <3>4, <3>5 DEF Confined, o, process
  <2>. QED
    BY <2>1, <2>2 DEF Confined
<1>. QED
  BY <1>1, AnswersAlways, PTL

-----------------------------------------------------------------------------
(* Tables that name different commands, put together.                      *)
LEMMA JoinedTables ==
  ASSUME NEW parts,
         \A t, u \in parts : t = u \/ \A n \in DOMAIN t : n \notin DOMAIN u
  PROVE  /\ DOMAIN Joined(parts) = UNION {DOMAIN t : t \in parts}
         /\ \A t \in parts : \A n \in DOMAIN t : Joined(parts)[n] = t[n]
<1>1. DOMAIN Joined(parts) = UNION {DOMAIN t : t \in parts}
  BY Zenon DEF Joined
<1>2. ASSUME NEW t \in parts, NEW n \in DOMAIN t PROVE Joined(parts)[n] = t[n]
  <2>1. \A u \in parts : n \in DOMAIN u => u = t
    BY <1>2, Zenon
  <2>2. (CHOOSE u \in parts : n \in DOMAIN u) = t
    BY <1>2, <2>1, Zenon
  <2>3. n \in UNION {DOMAIN u : u \in parts}
    BY <1>2, Zenon
  <2>4. Joined(parts)[n] = (CHOOSE u \in parts : n \in DOMAIN u)[n]
    BY <2>3 DEF Joined
  <2>. QED
    BY <2>2, <2>4, Zenon
<1>. QED
  BY <1>1, <1>2, Zenon

LEMMA ContainerGroupParts ==
  /\ DOMAIN ContainerGroup = {"exists", "list", "prune", "clone", "cleanup", "inspect",
          "rm", "init", "stop", "start", "kill", "pause", "unpause", "restart",
          "rename", "wait", "top", "port", "logs", "diff", "cp", "commit", "export",
          "stats", "attach", "exec", "run", "create", "mount", "unmount", "update"}
  /\ \A n \in {"exists", "list", "prune"} : ContainerGroup[n] = ContainerList[n]
  /\ \A n \in {"clone"} : ContainerGroup[n] = ContainerClone[n]
  /\ \A n \in {"cleanup", "inspect"} : ContainerGroup[n] = ContainerCleanup[n]
  /\ \A n \in {"rm", "init", "stop", "start"} : ContainerGroup[n] = ContainerStop[n]
  /\ \A n \in {"kill", "pause", "unpause", "restart"} :
      ContainerGroup[n] = ContainerSignal[n]
  /\ \A n \in {"rename", "wait", "top", "port"} : ContainerGroup[n] = ContainerLook[n]
  /\ \A n \in {"logs", "diff", "cp", "commit"} : ContainerGroup[n] = ContainerFiles[n]
  /\ \A n \in {"export", "stats", "attach"} : ContainerGroup[n] = ContainerAttach[n]
  /\ \A n \in {"exec", "run", "create"} : ContainerGroup[n] = ContainerExec[n]
  /\ \A n \in {"mount", "unmount", "update"} : ContainerGroup[n] = ContainerMount[n]
<1>. DEFINE parts == {ContainerList, ContainerClone, ContainerCleanup, ContainerStop,
                      ContainerSignal, ContainerLook, ContainerFiles, ContainerAttach,
                      ContainerExec, ContainerMount}
<1>1. DOMAIN ContainerList = {"exists", "list", "prune"}
  BY DEF ContainerList
<1>2. DOMAIN ContainerClone = {"clone"}
  BY DEF ContainerClone
<1>3. DOMAIN ContainerCleanup = {"cleanup", "inspect"}
  BY DEF ContainerCleanup
<1>4. DOMAIN ContainerStop = {"rm", "init", "stop", "start"}
  BY DEF ContainerStop
<1>5. DOMAIN ContainerSignal = {"kill", "pause", "unpause", "restart"}
  BY DEF ContainerSignal
<1>6. DOMAIN ContainerLook = {"rename", "wait", "top", "port"}
  BY DEF ContainerLook
<1>7. DOMAIN ContainerFiles = {"logs", "diff", "cp", "commit"}
  BY DEF ContainerFiles
<1>8. DOMAIN ContainerAttach = {"export", "stats", "attach"}
  BY DEF ContainerAttach
<1>9. DOMAIN ContainerExec = {"exec", "run", "create"}
  BY DEF ContainerExec
<1>10. DOMAIN ContainerMount = {"mount", "unmount", "update"}
  BY DEF ContainerMount
<1>11. \A t, u \in parts : t = u \/ \A n \in DOMAIN t : n \notin DOMAIN u
  BY <1>1, <1>2, <1>3, <1>4, <1>5, <1>6, <1>7, <1>8, <1>9, <1>10, <1>11
<1>12. /\ DOMAIN Joined(parts) = UNION {DOMAIN t : t \in parts}
      /\ \A t \in parts : \A n \in DOMAIN t : Joined(parts)[n] = t[n]
  <2>. HIDE DEF parts
  <2>. QED
    BY <1>11, JoinedTables
<1>13. ContainerGroup = Joined(parts)
  BY DEF ContainerGroup
<1>14. DOMAIN ContainerGroup = {"exists", "list", "prune", "clone", "cleanup",
        "inspect", "rm", "init", "stop", "start", "kill", "pause", "unpause", "restart",
        "rename", "wait", "top", "port", "logs", "diff", "cp", "commit", "export",
        "stats", "attach", "exec", "run", "create", "mount", "unmount", "update"}
  <2>1. UNION {DOMAIN t : t \in parts}
         = DOMAIN ContainerList \cup DOMAIN ContainerClone \cup DOMAIN ContainerCleanup
           \cup DOMAIN ContainerStop \cup DOMAIN ContainerSignal \cup DOMAIN ContainerLook
           \cup DOMAIN ContainerFiles \cup DOMAIN ContainerAttach
           \cup DOMAIN ContainerExec \cup DOMAIN ContainerMount
    OBVIOUS
  <2>. QED
    BY <1>1, <1>2, <1>3, <1>4, <1>5, <1>6, <1>7, <1>8, <1>9, <1>10, <1>12, <1>13, <2>1
<1>15. \A n \in {"exists", "list", "prune"} : ContainerGroup[n] = ContainerList[n]
  BY <1>1, <1>12, <1>13
<1>16. \A n \in {"clone"} : ContainerGroup[n] = ContainerClone[n]
  BY <1>2, <1>12, <1>13
<1>17. \A n \in {"cleanup", "inspect"} : ContainerGroup[n] = ContainerCleanup[n]
  BY <1>3, <1>12, <1>13
<1>18. \A n \in {"rm", "init", "stop", "start"} : ContainerGroup[n] = ContainerStop[n]
  BY <1>4, <1>12, <1>13
<1>19. \A n \in {"kill", "pause", "unpause", "restart"} :
        ContainerGroup[n] = ContainerSignal[n]
  BY <1>5, <1>12, <1>13
<1>20. \A n \in {"rename", "wait", "top", "port"} : ContainerGroup[n] = ContainerLook[n]
  BY <1>6, <1>12, <1>13
<1>21. \A n \in {"logs", "diff", "cp", "commit"} : ContainerGroup[n] = ContainerFiles[n]
  BY <1>7, <1>12, <1>13
<1>22. \A n \in {"export", "stats", "attach"} : ContainerGroup[n] = ContainerAttach[n]
  BY <1>8, <1>12, <1>13
<1>23. \A n \in {"exec", "run", "create"} : ContainerGroup[n] = ContainerExec[n]
  BY <1>9, <1>12, <1>13
<1>24. \A n \in {"mount", "unmount", "update"} : ContainerGroup[n] = ContainerMount[n]
  BY <1>10, <1>12, <1>13
<1>. QED
  BY <1>14, <1>15, <1>16, <1>17, <1>18, <1>19, <1>20, <1>21, <1>22, <1>23, <1>24

LEMMA ImageGroupParts ==
  /\ DOMAIN ImageGroup = {"exists", "list", "prune", "tag", "untag", "history", "rm",
          "pull", "push", "save", "load", "import", "inspect", "diff", "mount",
          "unmount"}
  /\ \A n \in {"exists", "list", "prune", "tag", "untag", "history"} :
      ImageGroup[n] = ImageTags[n]
  /\ \A n \in {"rm", "pull", "push", "save", "load", "import"} :
      ImageGroup[n] = ImageTransfer[n]
  /\ \A n \in {"inspect", "diff"} : ImageGroup[n] = ImageLook[n]
  /\ \A n \in {"mount", "unmount"} : ImageGroup[n] = ImageMounts[n]
<1>. DEFINE parts == {ImageTags, ImageTransfer, ImageLook, ImageMounts}
<1>1. DOMAIN ImageTags = {"exists", "list", "prune", "tag", "untag", "history"}
  BY DEF ImageTags
<1>2. DOMAIN ImageTransfer = {"rm", "pull", "push", "save", "load", "import"}
  BY DEF ImageTransfer
<1>3. DOMAIN ImageLook = {"inspect", "diff"}
  BY DEF ImageLook
<1>4. DOMAIN ImageMounts = {"mount", "unmount"}
  BY DEF ImageMounts
<1>5. \A t, u \in parts : t = u \/ \A n \in DOMAIN t : n \notin DOMAIN u
  BY <1>1, <1>2, <1>3, <1>4
<1>6. /\ DOMAIN Joined(parts) = UNION {DOMAIN t : t \in parts}
      /\ \A t \in parts : \A n \in DOMAIN t : Joined(parts)[n] = t[n]
  <2>. HIDE DEF parts
  <2>. QED
    BY <1>5, JoinedTables
<1>7. ImageGroup = Joined(parts)
  BY DEF ImageGroup
<1>. QED
  BY <1>1, <1>2, <1>3, <1>4, <1>6, <1>7

LEMMA TopArmsParts ==
  /\ DOMAIN TopArms = {"pull", "push", "search", "login", "logout", "build", "images",
          "rmi", "tag", "untag", "history", "prune", "inspect", "run", "create", "ps",
          "init", "start", "attach", "restart", "rm", "cp", "diff", "mount", "unmount",
          "export", "commit", "stop", "kill", "pause", "unpause", "update", "stats",
          "wait", "rename", "top", "port", "exec", "logs", "save", "load", "import",
          "version", "info"}
  /\ \A n \in {"pull", "push", "search", "login", "logout", "build", "images", "rmi",
      "tag"} : TopArms[n] = TransferArms[n]
  /\ \A n \in {"untag", "history", "prune", "inspect", "run", "create", "ps", "init",
      "start", "attach"} : TopArms[n] = LookArms[n]
  /\ \A n \in {"restart", "rm", "cp", "diff", "mount", "unmount", "export", "commit",
      "stop", "kill", "pause", "unpause"} : TopArms[n] = ChangeArms[n]
  /\ \A n \in {"update"} : TopArms[n] = UpdateArms[n]
  /\ \A n \in {"stats", "wait", "rename", "top", "port"} : TopArms[n] = StatsArms[n]
  /\ \A n \in {"exec", "logs", "save", "load", "import", "version", "info"} : TopArms[n]
      = ExecArms[n]
<1>. DEFINE parts == {TransferArms, LookArms, ChangeArms, UpdateArms, StatsArms, ExecArms}
<1>1. DOMAIN TransferArms = {"pull", "push", "search", "login", "logout", "build",
       "images", "rmi", "tag"}
  BY DEF TransferArms
<1>2. DOMAIN LookArms = {"untag", "history", "prune", "inspect", "run", "create", "ps",
       "init", "start", "attach"}
  BY DEF LookArms
<1>3. DOMAIN ChangeArms = {"restart", "rm", "cp", "diff", "mount", "unmount", "export",
       "commit", "stop", "kill", "pause", "unpause"}
  BY DEF ChangeArms
<1>4. DOMAIN UpdateArms = {"update"}
  BY DEF UpdateArms
<1>5. DOMAIN StatsArms = {"stats", "wait", "rename", "top", "port"}
  BY DEF StatsArms
<1>6. DOMAIN ExecArms = {"exec", "logs", "save", "load", "import", "version", "info"}
  BY DEF ExecArms
<1>7. \A t, u \in parts : t = u \/ \A n \in DOMAIN t : n \notin DOMAIN u
  BY <1>1, <1>2, <1>3, <1>4, <1>5, <1>6
<1>8. /\ DOMAIN Joined(parts) = UNION {DOMAIN t : t \in parts}
      /\ \A t \in parts : \A n \in DOMAIN t : Joined(parts)[n] = t[n]
  <2>. HIDE DEF parts
  <2>. QED
    BY <1>7, JoinedTables
<1>9. TopArms = Joined(parts)
  BY DEF TopArms
<1>10. UNION {DOMAIN t : t \in parts}
        = DOMAIN TransferArms \cup DOMAIN LookArms \cup DOMAIN ChangeArms
          \cup DOMAIN UpdateArms \cup DOMAIN StatsArms \cup DOMAIN ExecArms
  OBVIOUS
<1>11. /\ \A n \in DOMAIN TransferArms : TopArms[n] = TransferArms[n]
       /\ \A n \in DOMAIN LookArms : TopArms[n] = LookArms[n]
       /\ \A n \in DOMAIN ChangeArms : TopArms[n] = ChangeArms[n]
       /\ \A n \in DOMAIN UpdateArms : TopArms[n] = UpdateArms[n]
       /\ \A n \in DOMAIN StatsArms : TopArms[n] = StatsArms[n]
       /\ \A n \in DOMAIN ExecArms : TopArms[n] = ExecArms[n]
  BY <1>8, <1>9
<1>12. DOMAIN TopArms = DOMAIN TransferArms \cup DOMAIN LookArms \cup DOMAIN ChangeArms
          \cup DOMAIN UpdateArms \cup DOMAIN StatsArms \cup DOMAIN ExecArms
  BY <1>8, <1>9, <1>10
<1>13. DOMAIN TopArms = {"pull", "push", "search", "login", "logout", "build", "images",
          "rmi", "tag", "untag", "history", "prune", "inspect", "run", "create", "ps",
          "init", "start", "attach", "restart", "rm", "cp", "diff", "mount", "unmount",
          "export", "commit", "stop", "kill", "pause", "unpause", "update", "stats",
          "wait", "rename", "top", "port", "exec", "logs", "save", "load", "import",
          "version", "info"}
  BY <1>1, <1>2, <1>3, <1>4, <1>5, <1>6, <1>12
<1>. QED
  BY <1>1, <1>2, <1>3, <1>4, <1>5, <1>6, <1>11, <1>13

LEMMA ContainerArmsParts ==
  /\ DOMAIN ContainerArms = {"exists", "list", "prune", "clone", "cleanup", "inspect",
          "rm", "init", "stop", "start", "kill", "pause", "unpause", "restart",
          "rename", "wait", "top", "port", "logs", "diff", "cp", "commit", "export",
          "stats", "attach", "exec", "run", "create", "mount", "unmount", "update"}
  /\ \A n \in {"exists", "list", "prune", "clone", "cleanup", "inspect", "rm", "init",
      "stop", "start"} : ContainerArms[n] = ContainerListArms[n]
  /\ \A n \in {"kill", "pause", "unpause", "restart", "rename", "wait", "top", "port",
      "logs", "diff", "cp"} : ContainerArms[n] = ContainerSignalArms[n]
  /\ \A n \in {"commit", "export", "stats", "attach"} :
      ContainerArms[n] = ContainerFileArms[n]
  /\ \A n \in {"exec", "run", "create", "mount", "unmount", "update"} : ContainerArms[n]
      = ContainerExecArms[n]
<1>. DEFINE parts == {ContainerListArms, ContainerSignalArms, ContainerFileArms, ContainerExecArms}
<1>1. DOMAIN ContainerListArms = {"exists", "list", "prune", "clone", "cleanup",
       "inspect", "rm", "init", "stop", "start"}
  BY DEF ContainerListArms
<1>2. DOMAIN ContainerSignalArms = {"kill", "pause", "unpause", "restart", "rename",
       "wait", "top", "port", "logs", "diff", "cp"}
  BY DEF ContainerSignalArms
<1>3. DOMAIN ContainerFileArms = {"commit", "export", "stats", "attach"}
  BY DEF ContainerFileArms
<1>4. DOMAIN ContainerExecArms = {"exec", "run", "create", "mount", "unmount", "update"}
  BY DEF ContainerExecArms
<1>5. \A t, u \in parts : t = u \/ \A n \in DOMAIN t : n \notin DOMAIN u
  BY <1>1, <1>2, <1>3, <1>4
<1>6. /\ DOMAIN Joined(parts) = UNION {DOMAIN t : t \in parts}
      /\ \A t \in parts : \A n \in DOMAIN t : Joined(parts)[n] = t[n]
  <2>. HIDE DEF parts
  <2>. QED
    BY <1>5, JoinedTables
<1>7. ContainerArms = Joined(parts)
  BY DEF ContainerArms
<1>. QED
  BY <1>1, <1>2, <1>3, <1>4, <1>6, <1>7

(* The commands of the groups are declared and matched like the commands   *)
(* of the top level they stand for.                                        *)
Same(group, name, alias) ==
    /\ Commands[group][name] = Commands["top"][alias]
    /\ Arms[group][name] = Arms["top"][alias]
    /\ ~(group = "system" /\ name = "info") => Shorts[group][name] = Shorts["top"][alias]
    /\ name \in DOMAIN Required[group] <=> alias \in DOMAIN Required["top"]
    /\ name \in DOMAIN Required[group] => Required[group][name] = Required["top"][alias]

LEMMA GroupsAt ==
  /\ Commands["top"] = Top /\ Commands["system"] = SystemGroup
  /\ Commands["container"] = ContainerGroup /\ Commands["image"] = ImageGroup
  /\ Arms["top"] = TopArms /\ Arms["system"] = SystemArms
  /\ Arms["container"] = ContainerArms /\ Arms["image"] = ImageArms
  /\ Shorts["top"] = TopShorts /\ Shorts["system"] = SystemShorts
  /\ Shorts["container"] = ContainerShorts /\ Shorts["image"] = ImageShorts
  BY DEF Commands, Arms, Shorts

LEMMA ContainerShortsSame ==
  /\ ContainerShorts["list"] = TopShorts["ps"]
  /\ \A n \in DOMAIN ContainerGroup \cap DOMAIN Top :
        n \notin {"prune", "inspect"} => ContainerShorts[n] = TopShorts[n]
<1>1. ContainerShorts["list"] = TopShorts["ps"]
  BY DEF ContainerShorts, TopShorts
<1>2. /\ ContainerShorts["rm"] = TopShorts["rm"]
      /\ ContainerShorts["init"] = TopShorts["init"]
      /\ ContainerShorts["stop"] = TopShorts["stop"]
      /\ ContainerShorts["start"] = TopShorts["start"]
  BY DEF ContainerShorts, TopShorts
<1>3. /\ ContainerShorts["kill"] = TopShorts["kill"]
      /\ ContainerShorts["pause"] = TopShorts["pause"]
      /\ ContainerShorts["unpause"] = TopShorts["unpause"]
      /\ ContainerShorts["restart"] = TopShorts["restart"]
  BY DEF ContainerShorts, TopShorts
<1>4. /\ ContainerShorts["rename"] = TopShorts["rename"]
      /\ ContainerShorts["wait"] = TopShorts["wait"]
      /\ ContainerShorts["top"] = TopShorts["top"]
      /\ ContainerShorts["port"] = TopShorts["port"]
  BY DEF ContainerShorts, TopShorts
<1>5. /\ ContainerShorts["logs"] = TopShorts["logs"]
      /\ ContainerShorts["diff"] = TopShorts["diff"]
      /\ ContainerShorts["cp"] = TopShorts["cp"]
      /\ ContainerShorts["commit"] = TopShorts["commit"]
  BY DEF ContainerShorts, TopShorts
<1>6. /\ ContainerShorts["export"] = TopShorts["export"]
      /\ ContainerShorts["stats"] = TopShorts["stats"]
      /\ ContainerShorts["attach"] = TopShorts["attach"]
      /\ ContainerShorts["exec"] = TopShorts["exec"]
  BY DEF ContainerShorts, TopShorts
<1>7. /\ ContainerShorts["run"] = TopShorts["run"]
      /\ ContainerShorts["create"] = TopShorts["create"]
  BY DEF ContainerShorts, TopShorts
<1>8. /\ ContainerShorts["mount"] = TopShorts["mount"]
      /\ ContainerShorts["unmount"] = TopShorts["unmount"]
      /\ ContainerShorts["update"] = TopShorts["update"]
  BY DEF ContainerShorts, TopShorts
<1>9. \A n \in {"exists", "list", "clone", "cleanup"} : n \notin DOMAIN Top
  BY DEF Top
<1>. QED
  BY <1>1, <1>2, <1>3, <1>4, <1>5, <1>6, <1>7, <1>8, <1>9, ContainerGroupParts

LEMMA ImageShortsSame ==
  /\ ImageShorts["list"] = TopShorts["images"]
  /\ ImageShorts["rm"] = TopShorts["rmi"]
  /\ \A n \in {"tag", "untag", "history", "pull", "push", "save", "import", "load"} :
        ImageShorts[n] = TopShorts[n]
<1>1. ImageShorts["list"] = TopShorts["images"] /\ ImageShorts["rm"] = TopShorts["rmi"]
  BY DEF ImageShorts, TopShorts
<1>2. /\ ImageShorts["tag"] = TopShorts["tag"]
      /\ ImageShorts["untag"] = TopShorts["untag"]
      /\ ImageShorts["history"] = TopShorts["history"]
      /\ ImageShorts["pull"] = TopShorts["pull"]
  BY DEF ImageShorts, TopShorts
<1>3. /\ ImageShorts["push"] = TopShorts["push"]
      /\ ImageShorts["save"] = TopShorts["save"]
      /\ ImageShorts["import"] = TopShorts["import"]
      /\ ImageShorts["load"] = TopShorts["load"]
  BY DEF ImageShorts, TopShorts
<1>. QED
  BY <1>1, <1>2, <1>3

LEMMA SystemShortsSame ==
  /\ SystemShorts["prune"] = TopShorts["prune"]
  /\ SystemShorts["info"] = {"format"} /\ TopShorts["info"] = {}
  BY DEF SystemShorts, TopShorts

LEMMA InspectShorts ==
  /\ ContainerShorts["inspect"] = {"latest", "format", "size"}
  /\ ImageShorts["inspect"] = {"format"}
  /\ TopShorts["inspect"] = {"latest", "format", "size", "type"}
  BY DEF ContainerShorts, ImageShorts, TopShorts

LEMMA ContainerOptionsSame ==
  /\ ContainerGroup["list"] = Top["ps"]
  /\ \A n \in DOMAIN ContainerGroup \cap DOMAIN Top :
        n \notin {"prune", "inspect"} => ContainerGroup[n] = Top[n]
<1>0. ContainerGroup["list"] = Top["ps"]
  <2>1. ContainerGroup["list"] = ContainerList["list"]
    BY ContainerGroupParts
  <2>. QED
    BY <2>1 DEF ContainerList, Top, PsOptions, PsSelection, PsLayout
<1>1. \A n \in {"rm", "init", "stop", "start"} : ContainerStop[n] = Top[n]
  <2>1. ContainerStop["rm"] = Top["rm"]
    <3>1. ContainerStop["rm"] = RmOptions
      BY DEF ContainerStop, RmOptions, RmSelection, RmMeans
    <3>2. Top["rm"] = RmOptions
      BY DEF Top
    <3>. QED
      BY <3>1, <3>2
  <2>2. ContainerStop["init"] = Top["init"]
    <3>1. ContainerStop["init"] = InitOptions
      BY DEF ContainerStop, InitOptions
    <3>2. Top["init"] = InitOptions
      BY DEF Top
    <3>. QED
      BY <3>1, <3>2
  <2>3. ContainerStop["stop"] = Top["stop"]
    <3>1. ContainerStop["stop"] = StopOptions
      BY DEF ContainerStop, StopOptions
    <3>2. Top["stop"] = StopOptions
      BY DEF Top
    <3>. QED
      BY <3>1, <3>2
  <2>4. ContainerStop["start"] = Top["start"]
    <3>1. ContainerStop["start"] = StartOptions
      BY DEF ContainerStop, StartOptions
    <3>2. Top["start"] = StartOptions
      BY DEF Top
    <3>. QED
      BY <3>1, <3>2
  <2>. QED
    BY <2>1, <2>2, <2>3, <2>4
<1>2. \A n \in {"kill", "pause", "unpause", "restart"} : ContainerSignal[n] = Top[n]
  <2>1. ContainerSignal["kill"] = Top["kill"]
    <3>1. ContainerSignal["kill"] = KillOptions
      BY DEF ContainerSignal, KillOptions
    <3>2. Top["kill"] = KillOptions
      BY DEF Top
    <3>. QED
      BY <3>1, <3>2
  <2>2. ContainerSignal["pause"] = Top["pause"]
    <3>1. ContainerSignal["pause"] = PauseOptions
      BY DEF ContainerSignal, PauseOptions
    <3>2. Top["pause"] = PauseOptions
      BY DEF Top
    <3>. QED
      BY <3>1, <3>2
  <2>3. ContainerSignal["unpause"] = Top["unpause"]
    <3>1. ContainerSignal["unpause"] = UnpauseOptions
      BY DEF ContainerSignal, UnpauseOptions
    <3>2. Top["unpause"] = UnpauseOptions
      BY DEF Top
    <3>. QED
      BY <3>1, <3>2
  <2>4. ContainerSignal["restart"] = Top["restart"]
    <3>1. ContainerSignal["restart"] = RestartOptions
      BY DEF ContainerSignal, RestartOptions
    <3>2. Top["restart"] = RestartOptions
      BY DEF Top
    <3>. QED
      BY <3>1, <3>2
  <2>. QED
    BY <2>1, <2>2, <2>3, <2>4
<1>3. \A n \in {"rename", "wait", "top", "port"} : ContainerLook[n] = Top[n]
  <2>1. ContainerLook["rename"] = Top["rename"]
    <3>1. ContainerLook["rename"] = RenameOptions
      BY DEF ContainerLook, RenameOptions
    <3>2. Top["rename"] = RenameOptions
      BY DEF Top
    <3>. QED
      BY <3>1, <3>2
  <2>2. ContainerLook["wait"] = Top["wait"]
    <3>1. ContainerLook["wait"] = WaitOptions
      BY DEF ContainerLook, WaitOptions
    <3>2. Top["wait"] = WaitOptions
      BY DEF Top
    <3>. QED
      BY <3>1, <3>2
  <2>3. ContainerLook["top"] = Top["top"]
    <3>1. ContainerLook["top"] = TopOptions
      BY DEF ContainerLook, TopOptions
    <3>2. Top["top"] = TopOptions
      BY DEF Top
    <3>. QED
      BY <3>1, <3>2
  <2>4. ContainerLook["port"] = Top["port"]
    <3>1. ContainerLook["port"] = PortOptions
      BY DEF ContainerLook, PortOptions
    <3>2. Top["port"] = PortOptions
      BY DEF Top
    <3>. QED
      BY <3>1, <3>2
  <2>. QED
    BY <2>1, <2>2, <2>3, <2>4
<1>4. \A n \in {"logs", "diff", "cp", "commit"} : ContainerFiles[n] = Top[n]
  <2>1. ContainerFiles["logs"] = Top["logs"]
    <3>1. ContainerFiles["logs"] = LogsOptions
      BY DEF ContainerFiles, LogsOptions
    <3>2. Top["logs"] = LogsOptions
      BY DEF Top
    <3>. QED
      BY <3>1, <3>2
  <2>2. ContainerFiles["diff"] = Top["diff"]
    <3>1. ContainerFiles["diff"] = DiffOptions
      BY DEF ContainerFiles, DiffOptions
    <3>2. Top["diff"] = DiffOptions
      BY DEF Top
    <3>. QED
      BY <3>1, <3>2
  <2>3. ContainerFiles["cp"] = Top["cp"]
    <3>1. ContainerFiles["cp"] = CpOptions
      BY DEF ContainerFiles, CpOptions
    <3>2. Top["cp"] = CpOptions
      BY DEF Top
    <3>. QED
      BY <3>1, <3>2
  <2>4. ContainerFiles["commit"] = Top["commit"]
    <3>1. ContainerFiles["commit"] = CommitOptions
      BY DEF ContainerFiles, CommitOptions, CommitNaming, CommitForm
    <3>2. Top["commit"] = CommitOptions
      BY DEF Top
    <3>. QED
      BY <3>1, <3>2
  <2>. QED
    BY <2>1, <2>2, <2>3, <2>4
<1>5. \A n \in {"export", "stats", "attach"} : ContainerAttach[n] = Top[n]
  BY DEF ContainerAttach, Top, ExportOptions, StatsOptions, AttachOptions
<1>6. \A n \in {"exec", "run", "create"} : ContainerExec[n] = Top[n]
  BY DEF ContainerExec, Top, ExecOptions, ExecTarget, ExecMeans, RunAllOptions, CreateOptions
<1>7. \A n \in {"mount", "unmount", "update"} : ContainerMount[n] = Top[n]
  <2>1. ContainerUpdateOptions = UpdateOptions
    BY DEF ContainerUpdateOptions, UpdateOptions, UpdateResources, UpdateHealth
  <2>. QED
    BY <2>1 DEF ContainerMount, Top, MountOptions, UnmountOptions
<1>8. \A n \in {"exists", "list", "clone", "cleanup"} : n \notin DOMAIN Top
  BY DEF Top
<1>. QED
  BY <1>0, <1>1, <1>2, <1>3, <1>4, <1>5, <1>6, <1>7, <1>8, ContainerGroupParts

LEMMA ContainerArmsSame ==
  /\ ContainerArms["list"] = TopArms["ps"]
  /\ \A n \in DOMAIN ContainerGroup \cap DOMAIN Top :
        n \notin {"prune", "inspect"} => ContainerArms[n] = TopArms[n]
<1>1. ContainerArms["list"] = TopArms["ps"]
  BY ContainerArmsParts, TopArmsParts DEF ContainerListArms, LookArms
<1>2. \A n \in {"init", "start"} : ContainerArms[n] = TopArms[n]
  BY ContainerArmsParts, TopArmsParts DEF ContainerListArms, LookArms
<1>3. \A n \in {"rm", "stop"} : ContainerArms[n] = TopArms[n]
  BY ContainerArmsParts, TopArmsParts DEF ContainerListArms, ChangeArms
<1>4. \A n \in {"kill", "pause", "unpause", "restart", "diff", "cp"} :
        ContainerArms[n] = TopArms[n]
  BY ContainerArmsParts, TopArmsParts DEF ContainerSignalArms, ChangeArms
<1>5. \A n \in {"rename", "wait", "top", "port"} : ContainerArms[n] = TopArms[n]
  BY ContainerArmsParts, TopArmsParts DEF ContainerSignalArms, StatsArms
<1>6. \A n \in {"logs"} : ContainerArms[n] = TopArms[n]
  BY ContainerArmsParts, TopArmsParts DEF ContainerSignalArms, ExecArms
<1>7. \A n \in {"commit", "export"} : ContainerArms[n] = TopArms[n]
  BY ContainerArmsParts, TopArmsParts DEF ContainerFileArms, ChangeArms
<1>8. ContainerArms["stats"] = TopArms["stats"] /\ ContainerArms["attach"] = TopArms["attach"]
  BY ContainerArmsParts, TopArmsParts DEF ContainerFileArms, StatsArms, LookArms
<1>9. ContainerArms["exec"] = TopArms["exec"] /\ ContainerArms["update"] = TopArms["update"]
  BY ContainerArmsParts, TopArmsParts DEF ContainerExecArms, ExecArms, UpdateArms
<1>10. \A n \in {"run", "create"} : ContainerArms[n] = TopArms[n]
  BY ContainerArmsParts, TopArmsParts DEF ContainerExecArms, LookArms
<1>11. \A n \in {"mount", "unmount"} : ContainerArms[n] = TopArms[n]
  BY ContainerArmsParts, TopArmsParts DEF ContainerExecArms, ChangeArms
<1>12. \A n \in {"exists", "list", "clone", "cleanup"} : n \notin DOMAIN Top
  BY DEF Top
<1>. QED
  BY <1>1, <1>2, <1>3, <1>4, <1>5, <1>6, <1>7, <1>8, <1>9, <1>10, <1>11, <1>12,
     ContainerGroupParts

LEMMA ImageEntriesSame ==
  /\ ImageGroup["list"] = Top["images"] /\ ImageArms["list"] = TopArms["images"]
  /\ ImageGroup["rm"] = Top["rmi"] /\ ImageArms["rm"] = TopArms["rmi"]
  /\ \A n \in DOMAIN ImageGroup \cap DOMAIN Top :
        n \notin {"prune", "diff", "mount", "unmount", "inspect", "rm"} =>
          ImageGroup[n] = Top[n] /\ ImageArms[n] = TopArms[n]
<1>1. ImageGroup["list"] = Top["images"] /\ ImageArms["list"] = TopArms["images"]
  BY ImageGroupParts, TopArmsParts DEF ImageTags, Top, ImageArms, TransferArms, ImagesOptions
<1>2. ImageGroup["rm"] = Top["rmi"] /\ ImageArms["rm"] = TopArms["rmi"]
  BY ImageGroupParts, TopArmsParts DEF ImageTransfer, Top, ImageArms, TransferArms, RmiOptions
<1>3. /\ ImageTags["tag"] = Top["tag"]
      /\ ImageTags["untag"] = Top["untag"]
      /\ ImageTags["history"] = Top["history"]
  <2>1. ImageTags["tag"] = TagOptions /\ Top["tag"] = TagOptions
    BY DEF ImageTags, Top, TagOptions
  <2>2. ImageTags["untag"] = UntagOptions /\ Top["untag"] = UntagOptions
    BY DEF ImageTags, Top, UntagOptions
  <2>3. ImageTags["history"] = HistoryOptions /\ Top["history"] = HistoryOptions
    BY DEF ImageTags, Top, HistoryOptions
  <2>. QED
    BY <2>1, <2>2, <2>3
<1>4. /\ ImageTransfer["pull"] = Top["pull"]
      /\ ImageTransfer["push"] = Top["push"]
      /\ ImageTransfer["save"] = Top["save"]
      /\ ImageTransfer["load"] = Top["load"]
      /\ ImageTransfer["import"] = Top["import"]
  <2>1. ImageTransfer["pull"] = PullOptions /\ Top["pull"] = PullOptions
    BY DEF ImageTransfer, Top, PullOptions
  <2>2. ImageTransfer["push"] = PushOptions /\ Top["push"] = PushOptions
    BY DEF ImageTransfer, Top, PushOptions
  <2>3. ImageTransfer["save"] = SaveOptions /\ Top["save"] = SaveOptions
    BY DEF ImageTransfer, Top, SaveOptions
  <2>4. ImageTransfer["load"] = LoadOptions /\ Top["load"] = LoadOptions
    BY DEF ImageTransfer, Top, LoadOptions
  <2>5. ImageTransfer["import"] = ImportOptions /\ Top["import"] = ImportOptions
    BY DEF ImageTransfer, Top, ImportOptions
  <2>. QED
    BY <2>1, <2>2, <2>3, <2>4, <2>5
<1>5. \A n \in {"tag", "pull", "push"} : ImageArms[n] = TopArms[n]
  BY TopArmsParts DEF ImageArms, TransferArms
<1>6. \A n \in {"untag", "history"} : ImageArms[n] = TopArms[n]
  BY TopArmsParts DEF ImageArms, LookArms
<1>7. \A n \in {"save", "load", "import"} : ImageArms[n] = TopArms[n]
  BY TopArmsParts DEF ImageArms, ExecArms
<1>8. \A n \in {"exists", "list"} : n \notin DOMAIN Top
  BY DEF Top
<1>. QED
  BY <1>1, <1>2, <1>3, <1>4, <1>5, <1>6, <1>7, <1>8, ImageGroupParts

LEMMA SystemEntriesSame ==
  /\ SystemGroup["prune"] = Top["prune"] /\ SystemArms["prune"] = TopArms["prune"]
  /\ SystemGroup["info"] = Top["info"] /\ SystemArms["info"] = TopArms["info"]
  BY TopArmsParts DEF SystemGroup, Top, SystemArms, LookArms, ExecArms, PruneOptions, InfoOptions

LEMMA RequiredSame ==
  /\ \A n \in {"prune", "info"} :
       n \notin DOMAIN Required["system"] /\ n \notin DOMAIN Required["top"]
  /\ "list" \notin DOMAIN Required["container"] /\ "ps" \notin DOMAIN Required["top"]
  /\ \A n \in {"list", "rm"} : n \notin DOMAIN Required["image"]
  /\ "images" \notin DOMAIN Required["top"] /\ "rmi" \notin DOMAIN Required["top"]
  /\ \A n \in {"cp", "rename", "commit", "export", "run", "create"} :
        /\ n \in DOMAIN Required["container"] /\ n \in DOMAIN Required["top"]
        /\ Required["container"][n] = Required["top"][n]
  /\ \A n \in DOMAIN ContainerGroup \cap DOMAIN Top :
        n \notin {"cp", "rename", "commit", "export", "run", "create"} =>
          n \notin DOMAIN Required["container"] /\ n \notin DOMAIN Required["top"]
  /\ \A n \in {"tag", "untag", "history", "pull", "push", "save", "import"} :
        /\ n \in DOMAIN Required["image"] /\ n \in DOMAIN Required["top"]
        /\ Required["image"][n] = Required["top"][n]
  /\ "load" \notin DOMAIN Required["image"] /\ "load" \notin DOMAIN Required["top"]
  /\ DOMAIN Required["image"] \cap {"inspect"} # {} /\ Required["image"]["inspect"] = {"reference"}
  /\ "inspect" \notin DOMAIN Required["container"] /\ "inspect" \notin DOMAIN Required["top"]
<1>. DEFINE rtop == Required["top"]
            rcontainer == Required["container"]
            rimage == Required["image"]
<1>1. /\ DOMAIN rtop = {"pull", "push", "search", "login", "tag", "untag", "history", "cp",
                        "export", "commit", "rename", "run", "create", "save", "import"}
      /\ rtop["pull"] = {"references"} /\ rtop["push"] = {"reference"}
      /\ rtop["tag"] = {"source", "targets"} /\ rtop["untag"] = {"image"}
      /\ rtop["history"] = {"reference"} /\ rtop["save"] = {"reference"}
      /\ rtop["import"] = {"path"} /\ rtop["cp"] = {"src", "dest"}
      /\ rtop["rename"] = {"id", "name"} /\ rtop["commit"] = {"container"}
      /\ rtop["export"] = {"id"} /\ rtop["run"] = {"image"} /\ rtop["create"] = {"image"}
  BY DEF Required
<1>2. /\ DOMAIN rcontainer
           = {"exists", "clone", "cp", "rename", "commit", "export", "run", "create"}
      /\ rcontainer["cp"] = {"src", "dest"} /\ rcontainer["rename"] = {"id", "name"}
      /\ rcontainer["commit"] = {"container"} /\ rcontainer["export"] = {"id"}
      /\ rcontainer["run"] = {"image"} /\ rcontainer["create"] = {"image"}
  BY DEF Required
<1>3. /\ DOMAIN rimage = {"exists", "tag", "untag", "history", "pull", "push", "save",
                          "import", "inspect", "diff"}
      /\ rimage["pull"] = {"references"} /\ rimage["push"] = {"reference"}
      /\ rimage["tag"] = {"source", "targets"} /\ rimage["untag"] = {"image"}
      /\ rimage["history"] = {"reference"} /\ rimage["save"] = {"reference"}
      /\ rimage["import"] = {"path"} /\ rimage["inspect"] = {"reference"}
  BY DEF Required
<1>4. DOMAIN Required["system"] = {"none"}
  BY DEF Required
<1>. HIDE DEF rtop, rcontainer, rimage
<1>5. \A n \in {"cp", "rename", "commit", "export", "run", "create"} :
        n \in DOMAIN rcontainer /\ n \in DOMAIN rtop /\ rcontainer[n] = rtop[n]
  BY <1>1, <1>2
<1>6. \A n \in {"tag", "untag", "history", "pull", "push", "save", "import"} :
        n \in DOMAIN rimage /\ n \in DOMAIN rtop /\ rimage[n] = rtop[n]
  BY <1>1, <1>3
<1>7. \A n \in DOMAIN ContainerGroup \cap DOMAIN Top :
        n \notin {"cp", "rename", "commit", "export", "run", "create"} =>
          n \notin DOMAIN rcontainer /\ n \notin DOMAIN rtop
  <2>1. "exists" \notin DOMAIN Top /\ "clone" \notin DOMAIN Top
    BY DEF Top
  <2>. QED
    BY <1>1, <1>2, <2>1, ContainerGroupParts
<1>8. /\ "list" \notin DOMAIN rcontainer /\ "inspect" \notin DOMAIN rcontainer
      /\ \A n \in {"prune", "info", "ps", "images", "rmi", "load", "inspect"} : n \notin DOMAIN rtop
      /\ \A n \in {"list", "rm", "load"} : n \notin DOMAIN rimage
      /\ rimage["inspect"] = {"reference"} /\ "inspect" \in DOMAIN rimage
  BY <1>1, <1>2, <1>3
<1>. QED
  BY <1>4, <1>5, <1>6, <1>7, <1>8 DEF rtop, rcontainer, rimage

(* The commands that stand for another: which groups they are in, and that *)
(* all but inspect are declared and matched alike.                         *)
LEMMA AliasNamesAt ==
  ASSUME NEW g, NEW n, HasAlias(g, n)
  PROVE  \/ g = "system" /\ n \in {"prune", "info"} /\ AliasNames[g][n] = n
         \/ g = "container" /\ n = "list" /\ AliasNames[g][n] = "ps"
         \/ /\ g = "container" /\ n \in DOMAIN ContainerGroup \cap DOMAIN Top
            /\ n # "prune" /\ AliasNames[g][n] = n
         \/ g = "image" /\ n = "list" /\ AliasNames[g][n] = "images"
         \/ g = "image" /\ n = "rm" /\ AliasNames[g][n] = "rmi"
         \/ /\ g = "image" /\ n \in DOMAIN ImageGroup \cap DOMAIN Top
            /\ n \notin {"prune", "diff", "mount", "unmount", "rm"} /\ AliasNames[g][n] = n
<1>1. "list" \notin DOMAIN Top
  BY DEF Top
<1>2. CASE g = "system"
  BY <1>2 DEF HasAlias, AliasNames
<1>3. CASE g = "container"
  BY <1>1, <1>3 DEF HasAlias, AliasNames
<1>4. CASE g = "image"
  BY <1>1, <1>4 DEF HasAlias, AliasNames
<1>. QED
  BY <1>2, <1>3, <1>4 DEF HasAlias, AliasNames

LEMMA AliasSame ==
  ASSUME NEW g, NEW n, HasAlias(g, n), n # "inspect"
  PROVE  Same(g, n, AliasNames[g][n]) /\ AliasNames[g][n] # "inspect"
<1>. DEFINE rt == Required["top"]  rc == Required["container"]  ri == Required["image"]
            rs == Required["system"]  a == AliasNames[g][n]
<1>. HIDE DEF rt, rc, ri, rs
<1>1. CASE g = "system" /\ n \in {"prune", "info"} /\ a = n
  BY <1>1, GroupsAt, SystemEntriesSame, SystemShortsSame, RequiredSame DEF Same
<1>2. CASE g = "container" /\ n = "list" /\ a = "ps"
  BY <1>2, GroupsAt, ContainerOptionsSame, ContainerArmsSame, ContainerShortsSame,
     RequiredSame DEF Same
<1>3. CASE /\ g = "container" /\ n \in DOMAIN ContainerGroup \cap DOMAIN Top
           /\ n # "prune" /\ a = n
  BY <1>3, GroupsAt, ContainerOptionsSame, ContainerArmsSame, ContainerShortsSame,
     RequiredSame DEF Same
<1>4. CASE g = "image" /\ n = "list" /\ a = "images"
  BY <1>4, GroupsAt, ImageEntriesSame, ImageShortsSame, RequiredSame DEF Same
<1>5. CASE g = "image" /\ n = "rm" /\ a = "rmi"
  BY <1>5, GroupsAt, ImageEntriesSame, ImageShortsSame, RequiredSame DEF Same
<1>6. CASE /\ g = "image" /\ n \in DOMAIN ImageGroup \cap DOMAIN Top
           /\ n \notin {"prune", "diff", "mount", "unmount", "rm"} /\ a = n
  <2>1. "exists" \notin DOMAIN Top /\ "list" \notin DOMAIN Top
    BY DEF Top
  <2>2. n \in {"tag", "untag", "history", "pull", "push", "save", "import", "load"}
    BY <1>6, <2>1, ImageGroupParts
  <2>. QED
    BY <1>6, <2>2, GroupsAt, ImageEntriesSame, ImageShortsSame, RequiredSame DEF Same
<1>. QED
  BY <1>1, <1>2, <1>3, <1>4, <1>5, <1>6, AliasNamesAt

(* The shape of a line: it is what Lines makes of its parts.               *)
LineShape(l) ==
    l = [group |-> l.group, name |-> l.name, given |-> l.given, short |-> l.short,
         words |-> l.words, type |-> l.type]

LEMMA SameContainer ==
  ASSUME NEW l, NEW m, m.given = l.given, m.words = l.words, m.type = l.type, NEW rule
  PROVE  Container(rule, m) = Container(rule, l)
  BY DEF Container, EitherContainer, OperandContainer, InspectContainer, PositionalContainer,
         ExecContainer, StatsContainer

LEMMA SameCall ==
  ASSUME NEW l, LineShape(l), NEW name, Same(l.group, l.name, name),
         l.short \subseteq Shorts[l.group][l.name] <=> l.short \subseteq Shorts["top"][name],
         NEW m, m = [l EXCEPT !.group = "top", !.name = name]
  PROVE  Call(m) = Call(l)
<1>1. /\ m.group = "top" /\ m.name = name /\ m.given = l.given /\ m.words = l.words
      /\ m.short = l.short /\ m.type = l.type
  BY DEF LineShape
<1>2. Parses(m) <=> Parses(l)
  BY <1>1 DEF Parses, Same
<1>3. Arms[m.group][m.name] = Arms[l.group][l.name]
  BY <1>1 DEF Same
<1>4. \A rule : Container(rule, m) = Container(rule, l)
  BY <1>1, SameContainer
<1>. QED
  BY <1>1, <1>2, <1>3, <1>4 DEF Call


(* What UpTo chooses it chooses from the words it is given.                *)
LEMMA UpToChooses ==
  ASSUME NEW k \in Nat, NEW set, NEW chosen \in UpTo(k, set)
  PROVE  chosen \subseteq set
<1>. DEFINE none == {{}}
            Step(before) == before \cup {s \cup {x} : s \in before, x \in set}
            f[j \in 0..k] == IF j = 0 THEN none ELSE Step(f[j - 1])
            There == {i \in Nat : \E h : h = [j \in 0..i |-> IF j = 0 THEN none ELSE Step(h[j - 1])]}
            Within == {i \in Nat : i <= k => \A c \in f[i] : c \subseteq set}
<1>1. UpTo(k, set) = f[k]
  BY DEF UpTo
<1>2. \A before : (\A c \in before : c \subseteq set) => \A c \in Step(before) : c \subseteq set
  OBVIOUS
<1>0. \A c \in none : c \subseteq set
  OBVIOUS
<1>. HIDE DEF none, Step
<1>3. 0 \in There
  <2>1. [j \in 0..0 |-> none] = [j \in 0..0 |-> IF j = 0 THEN none ELSE Step([i \in 0..0 |-> none][j - 1])]
    OBVIOUS
  <2>. QED
    BY <2>1
<1>4. ASSUME NEW i \in Nat, i \in There PROVE i + 1 \in There
  <2>1. PICK h : h = [j \in 0..i |-> IF j = 0 THEN none ELSE Step(h[j - 1])]
    BY <1>4
  <2>. DEFINE g == [j \in 0..i + 1 |-> IF j = i + 1 THEN Step(h[i]) ELSE h[j]]
  <2>2. \A j \in 0..i + 1 : g[j] = IF j = 0 THEN none ELSE Step(g[j - 1])
    BY <2>1
  <2>3. g = [j \in 0..i + 1 |-> IF j = 0 THEN none ELSE Step(g[j - 1])]
    BY <2>2
  <2>. HIDE DEF g
  <2>. QED
    BY <2>3
<1>5. k \in There
  <2>. HIDE DEF There
  <2>. QED
    BY <1>3, <1>4, Counting
<1>6. f = [j \in 0..k |-> IF j = 0 THEN none ELSE Step(f[j - 1])]
  BY <1>5
<1>. HIDE DEF f
<1>7. 0 \in Within
  BY <1>0, <1>6
<1>8. ASSUME NEW i \in Nat, i \in Within PROVE i + 1 \in Within
  <2>. SUFFICES ASSUME i + 1 <= k PROVE \A c \in f[i + 1] : c \subseteq set
    OBVIOUS
  <2>1. f[i + 1] = Step(f[i])
    <3>1. i + 1 \in 0..k /\ i + 1 # 0 /\ (i + 1) - 1 = i
      OBVIOUS
    <3>. QED
      BY <1>6, <3>1
  <2>. QED
    BY <1>2, <1>8, <2>1
<1>9. k \in Within
  <2>. HIDE DEF Within
  <2>. QED
    BY <1>7, <1>8, Counting
<1>. QED
  BY <1>1, <1>9

(* The lines that are typed: their shape, and that inspect of a group is   *)
(* given no words and no letters but its own, info of system no letter but *)
(* its own.                                                                *)
LineOK(l) ==
    /\ LineShape(l)
    /\ l.group = "container" /\ l.name = "inspect" =>
          /\ l.given \subseteq {"reference", "latest", "format", "size"}
          /\ l.short \subseteq {"latest", "format", "size"}
    /\ l.group = "image" /\ l.name = "inspect" =>
          l.given \subseteq {"reference", "format"} /\ l.short \subseteq {"format"}
    /\ l.group = "system" /\ l.name = "info" => l.short \subseteq {"format"}

LEMMA InspectWords ==
  /\ Words("container", "inspect") = {"reference", "latest", "format", "size"}
  /\ Words("image", "inspect") = {"reference", "format"}
  /\ Commands["container"]["inspect"] = {"reference", "latest", "format", "size"}
  /\ Commands["image"]["inspect"] = {"reference", "format"}
<1>1. ContainerGroup["inspect"] = {"reference", "latest", "format", "size"}
  BY ContainerGroupParts DEF ContainerCleanup
<1>2. ImageGroup["inspect"] = {"reference", "format"}
  BY ImageGroupParts DEF ImageLook
<1>3. \A g : Words(g, "inspect") = Commands[g]["inspect"]
  BY DEF Words
<1>. QED
  BY <1>1, <1>2, <1>3, GroupsAt

LEMMA InspectLetters ==
  /\ Letters("container", "inspect") = {"latest", "format", "size"}
  /\ Letters("image", "inspect") = {"format"}
  /\ Letters("system", "info") = {"format"}
<1>1. \A g : Letters(g, "inspect") = Shorts[g]["inspect"]
  BY DEF Letters
<1>2. Shorts["system"]["info"] = {"format"} /\ Shorts["top"]["info"] = {}
  BY GroupsAt, SystemShortsSame
<1>3. HasAlias("system", "info") => AliasNames["system"]["info"] = "info"
  BY AliasNamesAt
<1>4. Letters("system", "info") = {"format"}
  BY <1>2, <1>3 DEF Letters
<1>. QED
  BY <1>1, <1>4, GroupsAt, InspectShorts

LEMMA TypedLines == \A k \in Nat : \A l \in Lines(k) : LineOK(l)
<1>. SUFFICES ASSUME NEW k \in Nat, NEW l \in Lines(k) PROVE LineOK(l)
  OBVIOUS
<1>1. PICK g, n :
        LET needed == IF n \in DOMAIN Required[g] THEN Required[g][n] ELSE {}
            given == {chosen \cup more : chosen \in UpTo(k, Words(g, n)), more \in {{}, needed}} IN
        l \in [group : {g}, name : {n}, given : given, short : UpTo(1, Letters(g, n)),
               words : 0..2, type : {"all", "container", "image"}]
  BY DEF Lines
<1>. DEFINE needed == IF n \in DOMAIN Required[g] THEN Required[g][n] ELSE {}
<1>2. l.group = g /\ l.name = n /\ LineShape(l)
  BY <1>1 DEF LineShape
<1>3. l.given \subseteq Words(g, n) \cup needed
  <2>1. PICK chosen \in UpTo(k, Words(g, n)), more \in {{}, needed} : l.given = chosen \cup more
    BY <1>1
  <2>. HIDE DEF needed
  <2>. QED
    BY <2>1, UpToChooses
<1>6. l.short \subseteq Letters(g, n)
  <2>1. l.short \in UpTo(1, Letters(g, n))
    BY <1>1
  <2>. QED
    BY <2>1, UpToChooses
<1>4. CASE g = "container" /\ n = "inspect"
  <2>1. needed = {}
    BY <1>4, RequiredSame
  <2>. QED
    BY <1>2, <1>3, <1>4, <1>6, <2>1, InspectWords, InspectLetters DEF LineOK
<1>5. CASE g = "image" /\ n = "inspect"
  <2>1. needed \subseteq {"reference"}
    BY <1>5, RequiredSame
  <2>. QED
    BY <1>2, <1>3, <1>5, <1>6, <2>1, InspectWords, InspectLetters DEF LineOK
<1>7. CASE g = "system" /\ n = "info"
  BY <1>2, <1>6, <1>7, InspectLetters DEF LineOK
<1>. QED
  BY <1>2, <1>4, <1>5, <1>7 DEF LineOK


(* inspect of a group is inspect --type: the type settles what is looked   *)
(* for, and --latest is refused with images, or does not exist.            *)
LEMMA InspectArms ==
  /\ Commands["top"]["inspect"] = {"reference", "latest", "format", "size", "type"}
  /\ Arms["top"]["inspect"] = Inspecting("given", "inspect")
  /\ Arms["container"]["inspect"] = Inspecting("container", "either")
  /\ Arms["image"]["inspect"] = Inspecting("image", "either")
  /\ \A type, rule : /\ Inspecting(type, rule).handler = "cmd_inspect"
                     /\ Inspecting(type, rule).drops = {}
                     /\ Inspecting(type, rule).rule = rule
                     /\ Inspecting(type, rule).type = type
<1>1. Commands["top"]["inspect"] = {"reference", "latest", "format", "size", "type"}
  BY GroupsAt DEF Top, InspectOptions
<1>2. Arms["top"]["inspect"] = Inspecting("given", "inspect")
  BY GroupsAt, TopArmsParts DEF LookArms
<1>3. Arms["container"]["inspect"] = Inspecting("container", "either")
  BY GroupsAt, ContainerArmsParts DEF ContainerListArms
<1>4. Arms["image"]["inspect"] = Inspecting("image", "either")
  BY GroupsAt DEF ImageArms
<1>5. \A type, rule : /\ Inspecting(type, rule).handler = "cmd_inspect"
                      /\ Inspecting(type, rule).drops = {}
                      /\ Inspecting(type, rule).rule = rule
                      /\ Inspecting(type, rule).type = type
  BY DEF Inspecting, Arm
<1>. QED
  BY <1>1, <1>2, <1>3, <1>4, <1>5

Inspected(given, container, type) ==
    IF container = "refused" THEN Refused
    ELSE [handler |-> "cmd_inspect",
          passed |-> given \ ({} \cup {"type"} \cup {"latest", "cidfile", "all"}),
          container |-> container, type |-> type]

LEMMA InspectPasses ==
  ASSUME NEW l, Parses(l), NEW type, NEW rule, rule # "handler",
         Arms[l.group][l.name] = Inspecting(type, rule)
  PROVE  Call(l) = Inspected(l.given, Container(rule, l),
                             IF type # "given" THEN type
                             ELSE IF Container(rule, l) = "latest" THEN "container"
                             ELSE l.type)
<1>. DEFINE arm == Arms[l.group][l.name]
<1>1. /\ arm.handler = "cmd_inspect" /\ arm.drops = {} /\ arm.rule = rule
      /\ arm.type = type
  BY InspectArms
<1>. QED
  BY <1>1 DEF Call, Inspected

LEMMA InspectPassesType ==
  ASSUME NEW l, Parses(l), Arms[l.group][l.name] = Inspecting("given", "inspect")
  PROVE  Call(l) = Inspected(l.given, Container("inspect", l),
                             IF Container("inspect", l) = "latest" THEN "container" ELSE l.type)
  BY InspectPasses

LEMMA InspectCall ==
  ASSUME NEW l, LineOK(l), l.group \in {"container", "image"}, l.name = "inspect",
         NEW m, m.group = "top", m.name = "inspect", m.given = l.given \cup {"type"},
         m.short = l.short, m.words = l.words, m.type = l.group
  PROVE  Call(m) = Call(l)
<1>1. /\ m.group = "top" /\ m.name = "inspect" /\ m.given = l.given \cup {"type"}
      /\ m.words = l.words /\ m.type = l.group
  OBVIOUS
<1>2. /\ l.given \subseteq {"reference", "latest", "format", "size"}
      /\ l.short \subseteq {"latest", "format", "size"}
      /\ l.short \subseteq Shorts[l.group][l.name]
  BY GroupsAt, InspectShorts DEF LineOK
<1>3. Parses(m)
  <2>1. "inspect" \notin DOMAIN Required["top"]
    BY RequiredSame
  <2>2. m.short \subseteq Shorts["top"]["inspect"]
    BY <1>2, GroupsAt, InspectShorts
  <2>. QED
    BY <1>1, <1>2, <2>1, <2>2, InspectArms DEF Parses
<1>4. EitherContainer(m) = EitherContainer(l)
  BY <1>1 DEF EitherContainer, Operand
<1>5. l.given \ ({} \cup {"type"} \cup {"latest", "cidfile", "all"})
        = m.given \ ({} \cup {"type"} \cup {"latest", "cidfile", "all"})
  BY <1>1
<1>6. /\ Container("either", l) = EitherContainer(l)
      /\ Container("inspect", m) = InspectContainer(m)
  BY DEF Container
<1>9. Call(m) = Inspected(m.given, InspectContainer(m),
                          IF InspectContainer(m) = "latest" THEN "container" ELSE m.type)
  <2>1. Arms[m.group][m.name] = Inspecting("given", "inspect")
    BY <1>1, InspectArms
  <2>2. Call(m) = Inspected(m.given, Container("inspect", m),
                            IF Container("inspect", m) = "latest" THEN "container" ELSE m.type)
    BY <1>3, <2>1, InspectPassesType, Zenon
  <2>. QED
    BY <1>6, <2>2
<1>10. Parses(l) => Call(l) = Inspected(l.given, EitherContainer(l), l.group)
  <2>1. Parses(l) => Call(l) = Inspected(l.given, Container("either", l), l.group)
    BY InspectArms, InspectPasses
  <2>. QED
    BY <1>6, <2>1
<1>11. \A c, t : Inspected(m.given, c, t) = Inspected(l.given, c, t)
  BY <1>5 DEF Inspected
<1>7. CASE l.group = "container"
  <2>1. Parses(l)
    <3>1. "inspect" \notin DOMAIN Required["container"]
      BY RequiredSame
    <3>. QED
      BY <1>2, <1>7, <3>1, InspectWords DEF Parses
  <2>2. InspectContainer(m) = EitherContainer(l)
    BY <1>1, <1>4, <1>7 DEF InspectContainer
  <2>. QED
    BY <1>1, <1>3, <1>5, <1>6, <1>7, <2>1, <2>2, <1>9, <1>10, <1>11
<1>8. CASE l.group = "image"
  <2>1. l.given \subseteq {"reference", "format"}
    BY <1>8 DEF LineOK
  <2>2. Parses(l) <=> "reference" \in l.given
    BY <1>2, <1>8, <2>1, InspectWords, RequiredSame DEF Parses
  <2>3. InspectContainer(m) = EitherContainer(l)
    BY <1>1, <1>4, <2>1 DEF InspectContainer
  <2>4. EitherContainer(l) = IF "reference" \in l.given THEN "named" ELSE "refused"
    BY <2>1 DEF EitherContainer, Operand
  <2>5. CASE "reference" \in l.given
    BY <1>1, <1>3, <1>5, <1>6, <1>8, <2>2, <2>3, <2>4, <2>5, <1>9, <1>10, <1>11
  <2>6. CASE "reference" \notin l.given
    BY <1>1, <1>3, <1>6, <1>8, <2>2, <2>3, <2>4, <2>6, InspectArms DEF Call
  <2>. QED
    BY <2>5, <2>6
<1>. QED
  BY <1>7, <1>8

LEMMA AliasCall ==
  ASSUME NEW l, LineOK(l), HasAlias(l.group, l.name)
  PROVE  IF InfoByLetter(l) THEN Call(AliasLine(l)) = Refused ELSE Call(AliasLine(l)) = Call(l)
<1>1. CASE l.name = "inspect"
  <2>1. l.group \in {"container", "image"} /\ AliasNames[l.group][l.name] = "inspect"
    BY <1>1, AliasNamesAt
  <2>2. AliasLine(l) = [l EXCEPT !.group = "top", !.name = "inspect",
                                 !.given = l.given \cup {"type"}, !.type = l.group]
    BY <2>1 DEF AliasLine
  <2>. DEFINE m == AliasLine(l)
  <2>3. /\ m.group = "top" /\ m.name = "inspect" /\ m.given = l.given \cup {"type"}
        /\ m.short = l.short /\ m.words = l.words /\ m.type = l.group
    BY <2>2 DEF LineOK, LineShape
  <2>. HIDE DEF m
  <2>4. Call(m) = Call(l)
    BY <1>1, <2>1, <2>3, InspectCall
  <2>. QED
    BY <1>1, <2>4 DEF m, InfoByLetter
<1>2. CASE l.name # "inspect"
  <2>. DEFINE name == AliasNames[l.group][l.name]
  <2>1. Same(l.group, l.name, name) /\ name # "inspect"
    BY <1>2, AliasSame
  <2>2. AliasLine(l) = [l EXCEPT !.group = "top", !.name = name]
    BY <2>1 DEF AliasLine, LineOK, LineShape
  <2>3. l.group = "system" /\ l.name = "info" =>
           name = "info" /\ Shorts["system"]["info"] = {"format"} /\ Shorts["top"]["info"] = {}
    BY AliasNamesAt, GroupsAt, SystemShortsSame
  <2>. HIDE DEF name
  <2>4. CASE InfoByLetter(l)
    <3>1. AliasLine(l).group = "top" /\ AliasLine(l).name = "info" /\ "format" \in AliasLine(l).short
      BY <2>2, <2>3, <2>4 DEF InfoByLetter, LineOK, LineShape
    <3>2. ~Parses(AliasLine(l))
      BY <2>3, <2>4, <3>1 DEF Parses, InfoByLetter
    <3>. QED
      BY <2>4, <3>2 DEF Call
  <2>5. CASE ~InfoByLetter(l)
    <3>1. l.short \subseteq Shorts[l.group][l.name] <=> l.short \subseteq Shorts["top"][name]
      BY <2>1, <2>3, <2>5 DEF InfoByLetter, LineOK, Same
    <3>. QED
      BY <2>1, <2>2, <2>5, <3>1, SameCall DEF LineOK
  <2>. QED
    BY <2>4, <2>5
<1>. QED
  BY <1>1, <1>2

(* The line being carried out is one that was typed, and main made of it   *)
(* what Call says.                                                         *)
Dispatched(l, c) == l # NoLine => c = Call(l) /\ LineOK(l)

LEMMA LinesNext == Dispatched(line, call) /\ [Next]_vars => Dispatched(line, call)'
<1>. SUFFICES ASSUME Dispatched(line, call), [Next]_vars PROVE Dispatched(line', call')
  BY DEF Dispatched
<1>say. ASSUME NEW said, Say(said) PROVE line' = NoLine
  BY <1>say DEF Say
<1>change. ASSUME NEW new, Change(new) PROVE line' = NoLine
  BY <1>change DEF Change
<1>1. CASE Type
  <2>1. \A l \in AllLines \cup AnsweredLines : LineOK(l)
    BY TypedLines, BoundsAssumption DEF AllLines, AnsweredLines
  <2>2. \A l \in LatestLines : LineOK(l)
    BY DEF LatestLines, LineOK, LineShape
  <2>3. PICK l \in AllLines \cup AnsweredLines \cup LatestLines : line' = l /\ call' = Call(l)
    BY <1>1 DEF Type
  <2>. QED
    BY <2>1, <2>2, <2>3 DEF Dispatched
<1>2. CASE Configure \/ Exec \/ Update \/ HealthcheckRun
  <2>1. \E said : Say(said)
    BY <1>2 DEF Configure, Exec, Update, HealthcheckRun
  <2>. QED
    BY <1>say, <2>1 DEF Dispatched
<1>3. CASE Inspect \/ Images \/ Ps \/ ListVolumes \/ ImageMount \/ Df \/ History
  <2>1. \E said : Say(said)
    BY <1>3 DEF Inspect, Images, Ps, ListVolumes, ImageMount, Df, History
  <2>. QED
    BY <1>say, <2>1 DEF Dispatched
<1>4. CASE Rmi \/ Tag \/ Untag \/ Pull \/ ContainerPrune \/ ImagePrune
  <2>1. (\E new : Change(new)) \/ Say(Error)
    BY <1>4 DEF Rmi, Tag, Untag, Pull, ContainerPrune, ImagePrune
  <2>. QED
    BY <1>say, <1>change, <2>1 DEF Dispatched
<1>5. CASE SystemPrune \/ Reset \/ VolumePrune \/ VolumeRm \/ VolumeRename
  <2>1. (\E new : Change(new)) \/ Say(Error)
    BY <1>5 DEF SystemPrune, Reset, VolumePrune, VolumeRm, VolumeRename
  <2>. QED
    BY <1>say, <1>change, <2>1 DEF Dispatched
<1>6. CASE ContainerMade \/ ContainerExits \/ UntaggedMade
  <2>1. \E new : Change(new)
    BY <1>6 DEF ContainerMade, ContainerExits, UntaggedMade
  <2>. QED
    BY <1>change, <2>1 DEF Dispatched
<1>7. CASE Refuse \/ Elsewhere \/ Push \/ ImageExists \/ ContainerExists \/ VolumeExists
  <2>1. Say(Done) \/ Say(Error)
    BY <1>7 DEF Refuse, Elsewhere, Push, ImageExists, ContainerExists, VolumeExists
  <2>. QED
    BY <1>say, <2>1 DEF Dispatched
<1>8. CASE Prompt \/ UNCHANGED vars
  BY <1>8 DEF Prompt, vars
<1>. QED
  BY <1>1, <1>2, <1>3, <1>4, <1>5, <1>6, <1>7, <1>8 DEF Next

(* A command of the groups container, image and system does what the       *)
(* command of the top level does that it stands for, whatever the options  *)
(* and whether they are typed in full or by their letter: the two          *)
(* declarations and the two arms of main are the same.  The one exception  *)
(* is system info -f, a line that info refuses.                            *)
THEOREM OneCommandTwoNames == Spec => []AliasesAgree
<1>1. Init => Dispatched(line, call)
  BY DEF Init, Dispatched
<1>2. Dispatched(line, call) => AliasesAgree
  BY AliasCall DEF Dispatched, AliasesAgree
<1>. QED
  BY <1>1, <1>2, LinesNext, PTL DEF Spec


-----------------------------------------------------------------------------
(* What is said to a control group or to systemd: a sequence of names with *)
(* their values, as the set of its pairs.                                  *)
Writing(writes) == \E any : writes \in Seq(any)
Said(writes) == {writes[i] : i \in DOMAIN writes}

LEMMA SaidNothing == Writing(<<>>) /\ Said(<<>>) = {}
  BY DEF Writing, Said

LEMMA SaidOnce ==
  \A file, value : Writing(<<<<file, value>>>>) /\ Said(<<<<file, value>>>>) = {<<file, value>>}
<1>. SUFFICES ASSUME NEW file, NEW value
              PROVE  Writing(<<<<file, value>>>>) /\ Said(<<<<file, value>>>>) = {<<file, value>>}
  OBVIOUS
<1>. DEFINE w == <<file, value>>
<1>1. <<w>> \in Seq({w})
  OBVIOUS
<1>2. Said(<<w>>) = {w}
  BY DEF Said
<1>. QED
  BY <1>1, <1>2 DEF Writing

LEMMA SaidTogether ==
  ASSUME NEW V, NEW W, Writing(V), Writing(W)
  PROVE  Writing(V \o W) /\ Said(V \o W) = Said(V) \cup Said(W)
<1>1. PICK a : V \in Seq(a)
  BY DEF Writing
<1>2. PICK b : W \in Seq(b)
  BY DEF Writing
<1>3. V \in Seq(a \cup b) /\ W \in Seq(a \cup b)
  BY <1>1, <1>2
<1>. DEFINE S == V \o W
<1>4. /\ S \in Seq(a \cup b) /\ Len(S) = Len(V) + Len(W)
      /\ Len(V) \in Nat /\ Len(W) \in Nat
      /\ DOMAIN V = 1..Len(V) /\ DOMAIN W = 1..Len(W) /\ DOMAIN S = 1..Len(V) + Len(W)
      /\ \A i \in 1..Len(V) + Len(W) : S[i] = IF i <= Len(V) THEN V[i] ELSE W[i - Len(V)]
  BY <1>3
<1>5. ASSUME NEW i \in DOMAIN V PROVE V[i] \in Said(S)
  BY <1>4, <1>5 DEF Said
<1>6. ASSUME NEW i \in DOMAIN W PROVE W[i] \in Said(S)
  <2>. DEFINE j == i + Len(V)
  <2>1. i \in 1..Len(W)
    BY <1>4, <1>6
  <2>2. j \in DOMAIN S /\ ~(j <= Len(V)) /\ j - Len(V) = i /\ j \in 1..Len(V) + Len(W)
    BY <1>4, <2>1
  <2>3. S[j] = W[i]
    BY <1>4, <2>2
  <2>. HIDE DEF S, j
  <2>. QED
    BY <2>2, <2>3 DEF Said
<1>7. ASSUME NEW i \in DOMAIN S PROVE S[i] \in Said(V) \cup Said(W)
  <2>1. CASE i <= Len(V)
    <3>1. i \in DOMAIN V /\ S[i] = V[i]
      BY <1>4, <1>7, <2>1
    <3>. QED
      BY <3>1 DEF Said
  <2>2. CASE ~(i <= Len(V))
    <3>1. i - Len(V) \in DOMAIN W /\ S[i] = W[i - Len(V)]
      BY <1>4, <1>7, <2>2
    <3>. QED
      BY <3>1 DEF Said
  <2>. QED
    BY <2>1, <2>2
<1>8. Said(S) = Said(V) \cup Said(W)
  <2>. HIDE DEF S
  <2>. QED
    BY <1>5, <1>6, <1>7 DEF Said
<1>9. Writing(S)
  <2>. HIDE DEF S
  <2>. QED
    BY <1>4 DEF Writing
<1>. QED
  BY <1>8, <1>9

(* A name that is said once has that value, one that is not has none.      *)
LEMMA SaidRead ==
  ASSUME NEW W, NEW n, NEW d
  PROVE  /\ (\A w \in Said(W) : w[1] # n) => Asked(AsFunction(W), n, d) = d
         /\ \A v : <<n, v>> \in Said(W) /\ (\A w \in Said(W) : w[1] = n => w = <<n, v>>)
                      => Asked(AsFunction(W), n, d) = v
<1>1. DOMAIN AsFunction(W) = {w[1] : w \in Said(W)}
  BY DEF AsFunction, Said
<1>2. \A name \in DOMAIN AsFunction(W) :
        AsFunction(W)[name] = (CHOOSE w \in Said(W) : w[1] = name)[2]
  BY DEF AsFunction, Said
<1>3. ASSUME \A w \in Said(W) : w[1] # n PROVE Asked(AsFunction(W), n, d) = d
  BY <1>1, <1>3 DEF Asked
<1>4. ASSUME NEW v, <<n, v>> \in Said(W), \A w \in Said(W) : w[1] = n => w = <<n, v>>
      PROVE  Asked(AsFunction(W), n, d) = v
  <2>. DEFINE c == CHOOSE w \in Said(W) : w[1] = n
  <2>1. <<n, v>>[1] = n /\ <<n, v>>[2] = v
    OBVIOUS
  <2>2. c \in Said(W) /\ c[1] = n
    <3>1. \E w \in Said(W) : w[1] = n
      BY <1>4, <2>1
    <3>. QED
      BY <3>1
  <2>3. n \in DOMAIN AsFunction(W) /\ AsFunction(W)[n] = c[2]
    BY <1>1, <1>2, <2>2
  <2>. HIDE DEF c
  <2>. QED
    BY <1>4, <2>1, <2>2, <2>3 DEF Asked
<1>. QED
  BY <1>3, <1>4


(* What is written to a group without the scheduler of io.bfq.weight.      *)
Landing(w) ==
    IF w[1] = "io.bfq.weight" THEN <<"io.weight", convert_blkio_weight_to_io_weight(w[2])>> ELSE w

LEMMA SaidLands ==
  ASSUME NEW W, Writing(W)
  PROVE  LET F == apply(<<>>, W, NoBfq).files IN
         /\ DOMAIN F = {Landing(w)[1] : w \in Said(W)}
         /\ \A n \in DOMAIN F :
               \E w \in Said(W) : Landing(w)[1] = n /\ F[n] = Landing(w)[2]
<1>. DEFINE Falls(i) == W[i][1] = "io.bfq.weight" /\ "io.bfq.weight" \in NoBfq
            File(i) == IF Falls(i) THEN "io.weight" ELSE W[i][1]
            Content(i) == IF Falls(i) THEN convert_blkio_weight_to_io_weight(W[i][2])
                          ELSE W[i][2]
            missing == {i \in DOMAIN W : File(i) \in NoBfq}
            done == {i \in DOMAIN W : \A j \in missing : i < j}
            mine(name) == {i \in done : File(i) = name}
            none == <<>>
            F == [name \in DOMAIN none \cup {File(i) : i \in done} |->
                    IF mine(name) = {} THEN none[name] ELSE Content(Max(mine(name)))]
            v == missing = {}
<1>1. apply(<<>>, W, NoBfq).files = F
  <2>1. apply(<<>>, W, NoBfq) = [ok |-> v, files |-> F]
    BY Zenon DEF apply
  <2>2. v \in BOOLEAN
    OBVIOUS
  <2>. HIDE DEF v, F
  <2>. QED
    BY <2>1, <2>2
<1>2. \A i : File(i) = Landing(W[i])[1] /\ Content(i) = Landing(W[i])[2]
  BY DEF Landing, NoBfq
<1>3. missing = {}
  BY DEF NoBfq
<1>4. done = DOMAIN W
  <2>. HIDE DEF missing
  <2>. QED
    BY <1>3
<1>5. DOMAIN F = {Landing(w)[1] : w \in Said(W)}
  <2>1. DOMAIN F = {File(i) : i \in DOMAIN W}
    BY <1>4
  <2>. HIDE DEF File, F
  <2>. QED
    BY <1>2, <2>1 DEF Said
<1>6. ASSUME NEW n \in DOMAIN F
      PROVE  \E w \in Said(W) : Landing(w)[1] = n /\ F[n] = Landing(w)[2]
  <2>1. mine(n) # {} /\ mine(n) \subseteq DOMAIN W
    BY <1>4
  <2>2. mine(n) \subseteq 1..Len(W) /\ Len(W) \in Nat
    BY <2>1 DEF Writing
  <2>3. Max(mine(n)) \in mine(n)
    <3>. HIDE DEF mine
    <3>. QED
      BY <2>1, <2>2, Greatest
  <2>4. F[n] = Content(Max(mine(n)))
    BY <2>1
  <2>5. File(Max(mine(n))) = n /\ Max(mine(n)) \in DOMAIN W
    BY <2>1, <2>3
  <2>. DEFINE top == Max(mine(n))
  <2>. HIDE DEF top, File, Content, F, mine
  <2>6. W[top] \in Said(W)
    BY <2>5 DEF Said, top
  <2>. QED
    BY <1>2, <2>4, <2>5, <2>6 DEF top
<1>. HIDE DEF F
<1>. QED
  BY <1>1, <1>5, <1>6

LEMMA SaidWritten ==
  ASSUME NEW W, Writing(W), NEW n, n \notin {"io.weight", "io.bfq.weight"}, NEW d
  PROVE  LET F == apply(<<>>, W, NoBfq).files IN
         /\ (\A w \in Said(W) : w[1] # n) => Asked(F, n, d) = d
         /\ \A v : <<n, v>> \in Said(W) /\ (\A w \in Said(W) : w[1] = n => w = <<n, v>>)
                      => Asked(F, n, d) = v
<1>. DEFINE F == apply(<<>>, W, NoBfq).files
<1>1. /\ DOMAIN F = {Landing(w)[1] : w \in Said(W)}
      /\ \A m \in DOMAIN F : \E w \in Said(W) : Landing(w)[1] = m /\ F[m] = Landing(w)[2]
  BY SaidLands
<1>2. \A w : Landing(w)[1] = n => Landing(w) = w
  BY DEF Landing
<1>3. \A v : Landing(<<n, v>>)[1] = n /\ <<n, v>>[2] = v
  BY DEF Landing
<1>. HIDE DEF F
<1>. QED
  BY <1>1, <1>2, <1>3 DEF Asked, F

LEMMA SaidWeight ==
  ASSUME NEW W, Writing(W), \A w \in Said(W) : w[1] # "io.weight", NEW d
  PROVE  LET F == apply(<<>>, W, NoBfq).files IN
         /\ (\A w \in Said(W) : w[1] # "io.bfq.weight") => Asked(F, "io.weight", d) = d
         /\ \A v : /\ <<"io.bfq.weight", v>> \in Said(W)
                   /\ \A w \in Said(W) : w[1] = "io.bfq.weight" => w = <<"io.bfq.weight", v>>
                   => Asked(F, "io.weight", d) = convert_blkio_weight_to_io_weight(v)
<1>. DEFINE F == apply(<<>>, W, NoBfq).files
<1>1. /\ DOMAIN F = {Landing(w)[1] : w \in Said(W)}
      /\ \A m \in DOMAIN F : \E w \in Said(W) : Landing(w)[1] = m /\ F[m] = Landing(w)[2]
  BY SaidLands
<1>2. \A w \in Said(W) : Landing(w)[1] = "io.weight" => w[1] = "io.bfq.weight"
  BY DEF Landing
<1>3. \A v : Landing(<<"io.bfq.weight", v>>)
               = <<"io.weight", convert_blkio_weight_to_io_weight(v)>>
  BY DEF Landing
<1>. HIDE DEF F
<1>. QED
  BY <1>1, <1>2, <1>3 DEF Asked, F


(* The limits that come of a line: numbers, memory and swap together no    *)
(* less than memory, no limit on processes of zero.                        *)
LEMMA SizesAsked ==
  ASSUME NEW o, Typed(o)
  PROVE  /\ MemoryOf(o).limit \in Nat \cup {None, Invalid}
         /\ MemoryOf(o).swap \in Nat \cup {-1, None, Invalid}
         /\ MemoryOf(o).reservation \in Nat \cup {None, Invalid}
<1>1. \A v : v.number \in Int /\ v.unit \in Nat \ {0} =>
               parse_memory_limit(v) \in Nat \cup {None, Invalid}
  BY DEF parse_memory_limit
<1>2. ASSUME NEW option \in {"memory", "memory-swap", "memory-reservation"}
      PROVE  parse_memory_limit(Asked(o, option, None)) \in Nat \cup {None, Invalid}
  <2>1. CASE option \in DOMAIN o
    <3>1. o[option].number \in Int /\ o[option].unit \in Nat \ {0}
      BY <2>1, LimitsAssumption DEF Typed
    <3>. QED
      BY <1>1, <2>1, <3>1 DEF Asked
  <2>2. CASE option \notin DOMAIN o
    BY <2>2 DEF Asked, parse_memory_limit
  <2>. QED
    BY <2>1, <2>2
<1>3. \A v : parse_memory_swap_limit(v) \in {-1, parse_memory_limit(v)}
  BY DEF parse_memory_swap_limit
<1>4. /\ MemoryOf(o).limit = parse_memory_limit(Asked(o, "memory", None))
      /\ MemoryOf(o).swap = parse_memory_swap_limit(Asked(o, "memory-swap", None))
      /\ MemoryOf(o).reservation = parse_memory_limit(Asked(o, "memory-reservation", None))
  BY DEF MemoryOf
<1>. QED
  BY <1>2, <1>3, <1>4

LEMMA MemoryAsked ==
  ASSUME NEW o, Typed(o), parse_and_validate_memory_and_cpus(o),
         NEW m, m = [MemoryOf(o) EXCEPT !.swap = IF @ = None THEN Doubled(MemoryOf(o).limit) ELSE @]
  PROVE  /\ m.limit \in Nat \cup {None}
         /\ m.swap \in Nat \cup {-1, None}
         /\ m.reservation \in Nat \cup {None}
         /\ m.swap # None => m.limit # None /\ (m.swap = -1 \/ m.swap >= m.limit)
<1>. DEFINE a == MemoryOf(o)
<1>1. /\ a.limit \in Nat \cup {None, Invalid} /\ a.swap \in Nat \cup {-1, None, Invalid}
      /\ a.reservation \in Nat \cup {None, Invalid}
  BY SizesAsked
<1>2. /\ Invalid \notin {a.limit, a.swap, a.reservation}
      /\ a.swap # None => a.limit # None /\ (a.swap = -1 \/ a.swap >= a.limit)
  BY DEF parse_and_validate_memory_and_cpus
<1>3. /\ m.limit = a.limit /\ m.reservation = a.reservation
      /\ m.swap = IF a.swap = None THEN Doubled(a.limit) ELSE a.swap
  BY DEF MemoryOf
<1>4. None \notin Int /\ Invalid \notin Int
  BY SpecConstants
<1>5. \A limit \in Nat : Doubled(limit) = None \/ (Doubled(limit) \in Nat /\ Doubled(limit) >= limit)
  BY DEF Doubled
<1>6. Doubled(None) = None
  BY DEF Doubled
<1>. HIDE DEF a
<1>. QED
  BY <1>1, <1>2, <1>3, <1>4, <1>5, <1>6

LEMMA QuotaAsked ==
  ASSUME NEW o, Typed(o) PROVE CpuOf(o).quota \in Int \cup {None}
<1>1. \A option \in {"cpus", "cpu-quota"} : option \in DOMAIN o => o[option] \in Int
  BY LimitsAssumption DEF Typed
<1>. DEFINE cpus == Asked(o, "cpus", None)
<1>2. cpus = None \/ cpus \in Int
  BY <1>1 DEF Asked
<1>3. cpus \in Int => (cpus * CPU_PERIOD_USEC + 500) \div 1000 \in Int
  BY DEF CPU_PERIOD_USEC
<1>4. CpuOf(o).quota = Asked(o, "cpu-quota", IF cpus = None THEN None
                                             ELSE (cpus * CPU_PERIOD_USEC + 500) \div 1000)
  BY DEF CpuOf
<1>. HIDE DEF cpus
<1>5. (IF cpus = None THEN None ELSE (cpus * CPU_PERIOD_USEC + 500) \div 1000) \in Int \cup {None}
  BY <1>2, <1>3
<1>. DEFINE other == IF cpus = None THEN None ELSE (cpus * CPU_PERIOD_USEC + 500) \div 1000
<1>. HIDE DEF other
<1>6. CpuOf(o).quota = Asked(o, "cpu-quota", other) /\ other \in Int \cup {None}
  BY <1>4, <1>5 DEF other
<1>. QED
  BY <1>1, <1>6 DEF Asked

LEMMA PidsAsked ==
  ASSUME NEW o, Typed(o), NEW pids, pids = Asked(o, "pids-limit", None)
  PROVE  (IF pids = None THEN None ELSE IF pids > 0 THEN pids ELSE -1) \in (Int \ {0}) \cup {None}
<1>1. pids \in Int \cup {None}
  BY LimitsAssumption DEF Typed, Asked
<1>. QED
  BY <1>1


(* What is said of the memory, and of the processor.                       *)
LEMMA MemoryPlanned ==
  ASSUME NEW m
  PROVE  LET swap == convert_memory_swap_to_v2(OrZero(m.swap), OrZero(m.limit)) IN
         /\ Writing(plan_memory(m))
         /\ \A w : w \in Said(plan_memory(m)) <=>
              \/ /\ w = <<"memory.swap.max", swap>>
                 /\ (m.swap # None \/ m.limit = -1) /\ swap # Invalid
                 /\ swap # 0 \/ OrZero(m.swap) > 0
              \/ w = <<"memory.max", m.limit>> /\ m.limit \notin {None, 0}
              \/ w = <<"memory.low", m.reservation>> /\ m.reservation \notin {None, 0}
<1>. DEFINE swap == convert_memory_swap_to_v2(OrZero(m.swap), OrZero(m.limit))
            c1 == /\ m.swap # None \/ m.limit = -1
                  /\ swap # Invalid
                  /\ swap # 0 \/ OrZero(m.swap) > 0
            A == When(c1, "memory.swap.max", swap)
            B == When(m.limit \notin {None, 0}, "memory.max", m.limit)
            C == When(m.reservation \notin {None, 0}, "memory.low", m.reservation)
<1>1. plan_memory(m) = A \o B \o C
  BY Zenon DEF plan_memory
<1>2. Writing(A) /\ \A w : w \in Said(A) <=> c1 /\ w = <<"memory.swap.max", swap>>
  <2>. HIDE DEF swap
  <2>. QED
    BY SaidNothing, SaidOnce DEF When
<1>3. Writing(B) /\ \A w : w \in Said(B) <=> m.limit \notin {None, 0} /\ w = <<"memory.max", m.limit>>
  BY SaidNothing, SaidOnce DEF When
<1>4. /\ Writing(C)
      /\ \A w : w \in Said(C) <=> m.reservation \notin {None, 0} /\ w = <<"memory.low", m.reservation>>
  BY SaidNothing, SaidOnce DEF When
<1>. HIDE DEF A, B, C, swap
<1>5. Writing(A \o B) /\ Said(A \o B) = Said(A) \cup Said(B)
  BY <1>2, <1>3, SaidTogether
<1>6. Writing(A \o B \o C) /\ Said(A \o B \o C) = Said(A) \cup Said(B) \cup Said(C)
  BY <1>4, <1>5, SaidTogether
<1>. QED
  BY <1>1, <1>2, <1>3, <1>4, <1>6 DEF swap


LEMMA CpuPlanned ==
  ASSUME NEW cpu
  PROVE  LET weight == convert_cpu_shares_to_weight(OrZero(cpu.shares))
             quota == IF OrZero(cpu.quota) > 0 THEN cpu.quota ELSE -1 IN
         /\ Writing(plan_cpu(cpu))
         /\ \A w : w \in Said(plan_cpu(cpu)) <=>
              \/ w = <<"cpu.weight", weight>> /\ weight # 0
              \/ w = <<"cpu.max", <<quota, PeriodOf(cpu)>>>> /\ {cpu.quota, cpu.period} # {None}
              \/ w = <<"cpuset.cpus", cpu.cpus>> /\ cpu.cpus # <<>>
              \/ w = <<"cpuset.mems", cpu.mems>> /\ cpu.mems # <<>>
<1>. DEFINE weight == convert_cpu_shares_to_weight(OrZero(cpu.shares))
            quota == IF OrZero(cpu.quota) > 0 THEN cpu.quota ELSE -1
            A == When(weight # 0, "cpu.weight", weight)
            B == When({cpu.quota, cpu.period} # {None}, "cpu.max", <<quota, PeriodOf(cpu)>>)
            C == When(cpu.cpus # <<>>, "cpuset.cpus", cpu.cpus)
            D == When(cpu.mems # <<>>, "cpuset.mems", cpu.mems)
<1>1. plan_cpu(cpu) = A \o B \o C \o D
  BY Zenon DEF plan_cpu
<1>2. /\ Writing(A)
      /\ \A w : w \in Said(A) <=> w = <<"cpu.weight", weight>> /\ weight # 0
  <2>. HIDE DEF weight, quota
  <2>. QED
    BY SaidNothing, SaidOnce DEF When
<1>3. /\ Writing(B)
      /\ \A w : w \in Said(B) <=> w = <<"cpu.max", <<quota, PeriodOf(cpu)>>>> /\ {cpu.quota, cpu.period} # {None}
  <2>. DEFINE limit == <<quota, PeriodOf(cpu)>>
              some == {cpu.quota, cpu.period} # {None}
  <2>1. some \in BOOLEAN
    OBVIOUS
  <2>. HIDE DEF limit, some
  <2>2. Writing(When(some, "cpu.max", limit))
    BY <2>1, SaidNothing, SaidOnce DEF When
  <2>3. \A w : w \in Said(When(some, "cpu.max", limit)) <=> w = <<"cpu.max", limit>> /\ some
    BY <2>1, SaidNothing, SaidOnce DEF When
  <2>. QED
    BY <2>2, <2>3 DEF limit, some
<1>4. /\ Writing(C)
      /\ \A w : w \in Said(C) <=> w = <<"cpuset.cpus", cpu.cpus>> /\ cpu.cpus # <<>>
  <2>. HIDE DEF weight, quota
  <2>. QED
    BY SaidNothing, SaidOnce DEF When
<1>5. /\ Writing(D)
      /\ \A w : w \in Said(D) <=> w = <<"cpuset.mems", cpu.mems>> /\ cpu.mems # <<>>
  <2>. HIDE DEF weight, quota
  <2>. QED
    BY SaidNothing, SaidOnce DEF When
<1>. HIDE DEF A, B, C, D, weight, quota
<1>6. Writing(A \o B) /\ Said(A \o B) = Said(A) \cup Said(B)
  BY <1>3, <1>2, SaidTogether
<1>7. Writing(A \o B \o C) /\ Said(A \o B \o C) = Said(A) \cup Said(B) \cup Said(C)
  BY <1>4, <1>6, SaidTogether
<1>8. Writing(A \o B \o C \o D) /\ Said(A \o B \o C \o D) = Said(A) \cup Said(B) \cup Said(C) \cup Said(D)
  BY <1>5, <1>7, SaidTogether
<1>. QED
  BY <1>1, <1>2, <1>3, <1>4, <1>5, <1>8 DEF weight, quota

LEMMA MemoryTold ==
  ASSUME NEW m
  PROVE  LET swap == convert_memory_swap_to_v2(OrZero(m.swap), OrZero(m.limit)) IN
         /\ Writing(MemoryProperties(m))
         /\ \A w : w \in Said(MemoryProperties(m)) <=>
              \/ w = <<"MemoryMax", m.limit>> /\ m.limit # None
              \/ w = <<"MemoryLow", m.reservation>> /\ m.reservation # None
              \/ w = <<"MemorySwapMax", swap>> /\ (m.swap # None /\ swap # Invalid)
<1>. DEFINE swap == convert_memory_swap_to_v2(OrZero(m.swap), OrZero(m.limit))
            A == When(m.limit # None, "MemoryMax", m.limit)
            B == When(m.reservation # None, "MemoryLow", m.reservation)
            C == When((m.swap # None /\ swap # Invalid), "MemorySwapMax", swap)
<1>1. MemoryProperties(m) = A \o B \o C
  BY Zenon DEF MemoryProperties
<1>2. /\ Writing(A)
      /\ \A w : w \in Said(A) <=> w = <<"MemoryMax", m.limit>> /\ m.limit # None
  <2>. HIDE DEF swap
  <2>. QED
    BY SaidNothing, SaidOnce DEF When
<1>3. /\ Writing(B)
      /\ \A w : w \in Said(B) <=> w = <<"MemoryLow", m.reservation>> /\ m.reservation # None
  <2>. HIDE DEF swap
  <2>. QED
    BY SaidNothing, SaidOnce DEF When
<1>4. /\ Writing(C)
      /\ \A w : w \in Said(C) <=> w = <<"MemorySwapMax", swap>> /\ (m.swap # None /\ swap # Invalid)
  <2>. HIDE DEF swap
  <2>. QED
    BY SaidNothing, SaidOnce DEF When
<1>. HIDE DEF A, B, C, swap
<1>5. Writing(A \o B) /\ Said(A \o B) = Said(A) \cup Said(B)
  BY <1>3, <1>2, SaidTogether
<1>6. Writing(A \o B \o C) /\ Said(A \o B \o C) = Said(A) \cup Said(B) \cup Said(C)
  BY <1>4, <1>5, SaidTogether
<1>. QED
  BY <1>1, <1>2, <1>3, <1>4, <1>6 DEF swap

LEMMA CpuTold ==
  ASSUME NEW cpu
  PROVE  LET weight == convert_cpu_shares_to_weight(OrZero(cpu.shares))
             limited == OrZero(cpu.quota) > 0
             cpus == cpuset_string_to_bitmask(cpu.cpus)
             mems == cpuset_string_to_bitmask(cpu.mems) IN
         /\ Writing(CpuProperties(cpu))
         /\ \A w : w \in Said(CpuProperties(cpu)) <=>
              \/ w = <<"CPUWeight", weight>> /\ weight # 0
              \/ w = <<"CPUQuotaPerSecUSec", QuotaPerSec(OrZero(cpu.quota), PeriodOf(cpu))>> /\ limited
              \/ w = <<"CPUQuotaPeriodUSec", PeriodOf(cpu)>> /\ limited
              \/ w = <<"AllowedCPUs", cpus>> /\ (cpu.cpus # <<>> /\ cpus # Invalid)
              \/ w = <<"AllowedMemoryNodes", mems>> /\ (cpu.mems # <<>> /\ mems # Invalid)
<1>. DEFINE weight == convert_cpu_shares_to_weight(OrZero(cpu.shares))
            limited == OrZero(cpu.quota) > 0
            cpus == cpuset_string_to_bitmask(cpu.cpus)
            mems == cpuset_string_to_bitmask(cpu.mems)
            A == When(weight # 0, "CPUWeight", weight)
            B == When(limited, "CPUQuotaPerSecUSec", QuotaPerSec(OrZero(cpu.quota), PeriodOf(cpu)))
            C == When(limited, "CPUQuotaPeriodUSec", PeriodOf(cpu))
            D == When((cpu.cpus # <<>> /\ cpus # Invalid), "AllowedCPUs", cpus)
            E == When((cpu.mems # <<>> /\ mems # Invalid), "AllowedMemoryNodes", mems)
<1>1. CpuProperties(cpu) = A \o B \o C \o D \o E
  BY Zenon DEF CpuProperties
<1>2. /\ Writing(A)
      /\ \A w : w \in Said(A) <=> w = <<"CPUWeight", weight>> /\ weight # 0
  <2>. HIDE DEF weight, limited, cpus, mems
  <2>. QED
    BY SaidNothing, SaidOnce DEF When
<1>3. /\ Writing(B)
      /\ \A w : w \in Said(B) <=> w = <<"CPUQuotaPerSecUSec", QuotaPerSec(OrZero(cpu.quota), PeriodOf(cpu))>> /\ limited
  <2>. HIDE DEF weight, limited, cpus, mems
  <2>. QED
    BY SaidNothing, SaidOnce DEF When
<1>4. /\ Writing(C)
      /\ \A w : w \in Said(C) <=> w = <<"CPUQuotaPeriodUSec", PeriodOf(cpu)>> /\ limited
  <2>. HIDE DEF weight, limited, cpus, mems
  <2>. QED
    BY SaidNothing, SaidOnce DEF When
<1>5. /\ Writing(D)
      /\ \A w : w \in Said(D) <=> w = <<"AllowedCPUs", cpus>> /\ (cpu.cpus # <<>> /\ cpus # Invalid)
  <2>. HIDE DEF weight, limited, cpus, mems
  <2>. QED
    BY SaidNothing, SaidOnce DEF When
<1>6. /\ Writing(E)
      /\ \A w : w \in Said(E) <=> w = <<"AllowedMemoryNodes", mems>> /\ (cpu.mems # <<>> /\ mems # Invalid)
  <2>. HIDE DEF weight, limited, cpus, mems
  <2>. QED
    BY SaidNothing, SaidOnce DEF When
<1>. HIDE DEF A, B, C, D, E, weight, limited, cpus, mems
<1>7. Writing(A \o B) /\ Said(A \o B) = Said(A) \cup Said(B)
  BY <1>3, <1>2, SaidTogether
<1>8. Writing(A \o B \o C) /\ Said(A \o B \o C) = Said(A) \cup Said(B) \cup Said(C)
  BY <1>4, <1>7, SaidTogether
<1>9. Writing(A \o B \o C \o D) /\ Said(A \o B \o C \o D) = Said(A) \cup Said(B) \cup Said(C) \cup Said(D)
  BY <1>5, <1>8, SaidTogether
<1>10. Writing(A \o B \o C \o D \o E) /\ Said(A \o B \o C \o D \o E) = Said(A) \cup Said(B) \cup Said(C) \cup Said(D) \cup Said(E)
  BY <1>6, <1>9, SaidTogether
<1>. QED
  BY <1>1, <1>2, <1>3, <1>4, <1>5, <1>6, <1>10 DEF weight, limited, cpus, mems

LEMMA Planned ==
  ASSUME NEW r
  PROVE  /\ Writing(plan_resources(r))
         /\ \A w : w \in Said(plan_resources(r)) <=>
              \/ r.memory # None /\ w \in Said(plan_memory(r.memory))
              \/ r.cpu # None /\ w \in Said(plan_cpu(r.cpu))
              \/ w = <<"pids.max", r.pids>> /\ r.pids \notin {None, 0}
              \/ w = <<"io.bfq.weight", r.block_io>> /\ r.block_io \notin {None, 0}
<1>. DEFINE A == IF r.memory = None THEN <<>> ELSE plan_memory(r.memory)
            B == IF r.cpu = None THEN <<>> ELSE plan_cpu(r.cpu)
            C == When(r.pids \notin {None, 0}, "pids.max", r.pids)
            D == plan_blkio(r.block_io)
<1>1. plan_resources(r) = A \o B \o C \o D
  BY Zenon DEF plan_resources
<1>2. Writing(A) /\ \A w : w \in Said(A) <=> r.memory # None /\ w \in Said(plan_memory(r.memory))
  BY SaidNothing, MemoryPlanned
<1>3. Writing(B) /\ \A w : w \in Said(B) <=> r.cpu # None /\ w \in Said(plan_cpu(r.cpu))
  BY SaidNothing, CpuPlanned
<1>4. Writing(C) /\ \A w : w \in Said(C) <=> w = <<"pids.max", r.pids>> /\ r.pids \notin {None, 0}
  BY SaidNothing, SaidOnce DEF When
<1>5. /\ Writing(D)
      /\ \A w : w \in Said(D) <=> w = <<"io.bfq.weight", r.block_io>> /\ r.block_io \notin {None, 0}
  BY SaidNothing, SaidOnce DEF When, plan_blkio
<1>. HIDE DEF A, B, C, D
<1>6. Writing(A \o B) /\ Said(A \o B) = Said(A) \cup Said(B)
  BY <1>2, <1>3, SaidTogether
<1>7. Writing(A \o B \o C) /\ Said(A \o B \o C) = Said(A) \cup Said(B) \cup Said(C)
  BY <1>4, <1>6, SaidTogether
<1>8. /\ Writing(A \o B \o C \o D)
      /\ Said(A \o B \o C \o D) = Said(A) \cup Said(B) \cup Said(C) \cup Said(D)
  BY <1>5, <1>7, SaidTogether
<1>. QED
  BY <1>1, <1>2, <1>3, <1>4, <1>5, <1>8

LEMMA Told ==
  ASSUME NEW r
  PROVE  \A w : w \in Said(resource_properties(r)) <=>
              \/ r.memory # None /\ w \in Said(MemoryProperties(r.memory))
              \/ r.cpu # None /\ w \in Said(CpuProperties(r.cpu))
              \/ w = <<"TasksMax", r.pids>> /\ r.pids # None
              \/ /\ w = <<"IOWeight", convert_blkio_weight_to_io_weight(OrZero(r.block_io))>>
                 /\ r.block_io \notin {None, 0}
<1>. DEFINE weight == convert_blkio_weight_to_io_weight(OrZero(r.block_io))
            A == IF r.memory = None THEN <<>> ELSE MemoryProperties(r.memory)
            B == IF r.cpu = None THEN <<>> ELSE CpuProperties(r.cpu)
            C == When(r.pids # None, "TasksMax", r.pids)
            D == When(r.block_io \notin {None, 0}, "IOWeight", weight)
<1>1. resource_properties(r) = A \o B \o C \o D
  BY Zenon DEF resource_properties
<1>2. /\ Writing(A)
      /\ \A w : w \in Said(A) <=> r.memory # None /\ w \in Said(MemoryProperties(r.memory))
  BY SaidNothing, MemoryTold
<1>3. Writing(B) /\ \A w : w \in Said(B) <=> r.cpu # None /\ w \in Said(CpuProperties(r.cpu))
  BY SaidNothing, CpuTold
<1>4. Writing(C) /\ \A w : w \in Said(C) <=> w = <<"TasksMax", r.pids>> /\ r.pids # None
  BY SaidNothing, SaidOnce DEF When
<1>5. /\ Writing(D)
      /\ \A w : w \in Said(D) <=> w = <<"IOWeight", weight>> /\ r.block_io \notin {None, 0}
  <2>. HIDE DEF weight
  <2>. QED
    BY SaidNothing, SaidOnce DEF When
<1>. HIDE DEF A, B, C, D
<1>6. Writing(A \o B) /\ Said(A \o B) = Said(A) \cup Said(B)
  BY <1>2, <1>3, SaidTogether
<1>7. Writing(A \o B \o C) /\ Said(A \o B \o C) = Said(A) \cup Said(B) \cup Said(C)
  BY <1>4, <1>6, SaidTogether
<1>8. Said(A \o B \o C \o D) = Said(A) \cup Said(B) \cup Said(C) \cup Said(D)
  BY <1>5, <1>7, SaidTogether
<1>. HIDE DEF weight
<1>9. \A w : w \in Said(resource_properties(r)) <=>
            \/ r.memory # None /\ w \in Said(MemoryProperties(r.memory))
            \/ r.cpu # None /\ w \in Said(CpuProperties(r.cpu))
            \/ w = <<"TasksMax", r.pids>> /\ r.pids # None
            \/ w = <<"IOWeight", weight>> /\ r.block_io \notin {None, 0}
  BY <1>1, <1>2, <1>3, <1>4, <1>5, <1>8
<1>. QED
  BY <1>9 DEF weight


LEMMA ResourcesAsked ==
  ASSUME NEW o, Typed(o), parse_and_validate_memory_and_cpus(o),
         NEW r, r = resources_from_cli(o), r # None
  PROVE  /\ r.memory # None =>
               /\ r.memory.limit \in Nat \cup {None}
               /\ r.memory.swap \in Nat \cup {-1, None}
               /\ r.memory.reservation \in Nat \cup {None}
               /\ r.memory.swap # None =>
                     r.memory.limit # None /\ (r.memory.swap = -1 \/ r.memory.swap >= r.memory.limit)
         /\ r.cpu # None => r.cpu.quota \in Int \cup {None}
         /\ r.pids \in (Int \ {0}) \cup {None}
<1>. DEFINE m == [MemoryOf(o) EXCEPT !.swap = IF @ = None THEN Doubled(MemoryOf(o).limit) ELSE @]
            pids == Asked(o, "pids-limit", None)
            given == IsGiven(o, {"memory", "memory-reservation"})
            cpu == IF IsGiven(o, CpuOptions) THEN CpuOf(o) ELSE None
            p == IF pids = None THEN None ELSE IF pids > 0 THEN pids ELSE -1
            b == Asked(o, "blkio-weight", None)
            memory == IF given THEN m ELSE None
<1>1. r = [memory |-> memory, cpu |-> cpu, pids |-> p, block_io |-> b]
  BY Zenon DEF resources_from_cli
<1>2. memory # None => memory = m
  OBVIOUS
<1>3. cpu # None => cpu.quota \in Int \cup {None}
  BY QuotaAsked
<1>4. p \in (Int \ {0}) \cup {None}
  BY PidsAsked
<1>5. /\ m.limit \in Nat \cup {None}
      /\ m.swap \in Nat \cup {-1, None}
      /\ m.reservation \in Nat \cup {None}
      /\ m.swap # None => m.limit # None /\ (m.swap = -1 \/ m.swap >= m.limit)
  <2>. HIDE DEF m
  <2>. QED
    BY MemoryAsked DEF m
<1>. HIDE DEF m, memory, cpu, p, b
<1>6. r.memory = memory /\ r.cpu = cpu /\ r.pids = p
  BY <1>1
<1>. QED
  BY <1>2, <1>3, <1>4, <1>5, <1>6

(* Everything that is said, by name.                                       *)
Planning(r, w) ==
    LET m == r.memory  cpu == r.cpu
        swap == convert_memory_swap_to_v2(OrZero(m.swap), OrZero(m.limit))
        weight == convert_cpu_shares_to_weight(OrZero(cpu.shares))
        quota == IF OrZero(cpu.quota) > 0 THEN cpu.quota ELSE -1 IN
    \/ /\ m # None /\ w = <<"memory.swap.max", swap>>
       /\ m.swap # None \/ m.limit = -1
       /\ swap # Invalid /\ (swap # 0 \/ OrZero(m.swap) > 0)
    \/ m # None /\ w = <<"memory.max", m.limit>> /\ m.limit \notin {None, 0}
    \/ m # None /\ w = <<"memory.low", m.reservation>> /\ m.reservation \notin {None, 0}
    \/ cpu # None /\ w = <<"cpu.weight", weight>> /\ weight # 0
    \/ cpu # None /\ w = <<"cpu.max", <<quota, PeriodOf(cpu)>>>> /\ {cpu.quota, cpu.period} # {None}
    \/ cpu # None /\ w = <<"cpuset.cpus", cpu.cpus>> /\ cpu.cpus # <<>>
    \/ cpu # None /\ w = <<"cpuset.mems", cpu.mems>> /\ cpu.mems # <<>>
    \/ w = <<"pids.max", r.pids>> /\ r.pids \notin {None, 0}
    \/ w = <<"io.bfq.weight", r.block_io>> /\ r.block_io \notin {None, 0}

LEMMA FilesPlanned ==
  ASSUME NEW r, NEW w
  PROVE  w \in Said(plan_resources(r)) <=> Planning(r, w)
<1>1. w \in Said(plan_resources(r)) <=>
        \/ r.memory # None /\ w \in Said(plan_memory(r.memory))
        \/ r.cpu # None /\ w \in Said(plan_cpu(r.cpu))
        \/ w = <<"pids.max", r.pids>> /\ r.pids \notin {None, 0}
        \/ w = <<"io.bfq.weight", r.block_io>> /\ r.block_io \notin {None, 0}
  BY Planned
<1>. QED
  BY <1>1, MemoryPlanned, CpuPlanned, Zenon DEF Planning

LEMMA PropertiesTold ==
  ASSUME NEW r, NEW w
  PROVE  LET m == r.memory  cpu == r.cpu
             swap == convert_memory_swap_to_v2(OrZero(m.swap), OrZero(m.limit))
             weight == convert_cpu_shares_to_weight(OrZero(cpu.shares))
             limited == OrZero(cpu.quota) > 0
             cpus == cpuset_string_to_bitmask(cpu.cpus)
             mems == cpuset_string_to_bitmask(cpu.mems) IN
         w \in Said(resource_properties(r)) <=>
         \/ m # None /\ w = <<"MemoryMax", m.limit>> /\ m.limit # None
         \/ m # None /\ w = <<"MemoryLow", m.reservation>> /\ m.reservation # None
         \/ m # None /\ w = <<"MemorySwapMax", swap>> /\ (m.swap # None /\ swap # Invalid)
         \/ cpu # None /\ w = <<"CPUWeight", weight>> /\ weight # 0
         \/ /\ cpu # None
            /\ w = <<"CPUQuotaPerSecUSec", QuotaPerSec(OrZero(cpu.quota), PeriodOf(cpu))>> /\ limited
         \/ cpu # None /\ w = <<"CPUQuotaPeriodUSec", PeriodOf(cpu)>> /\ limited
         \/ cpu # None /\ w = <<"AllowedCPUs", cpus>> /\ (cpu.cpus # <<>> /\ cpus # Invalid)
         \/ cpu # None /\ w = <<"AllowedMemoryNodes", mems>> /\ (cpu.mems # <<>> /\ mems # Invalid)
         \/ w = <<"TasksMax", r.pids>> /\ r.pids # None
         \/ /\ w = <<"IOWeight", convert_blkio_weight_to_io_weight(OrZero(r.block_io))>>
            /\ r.block_io \notin {None, 0}
<1>1. w \in Said(resource_properties(r)) <=>
        \/ r.memory # None /\ w \in Said(MemoryProperties(r.memory))
        \/ r.cpu # None /\ w \in Said(CpuProperties(r.cpu))
        \/ w = <<"TasksMax", r.pids>> /\ r.pids # None
        \/ /\ w = <<"IOWeight", convert_blkio_weight_to_io_weight(OrZero(r.block_io))>>
           /\ r.block_io \notin {None, 0}
  BY Told
<1>. QED
  BY <1>1, MemoryTold, CpuTold, Zenon


LEMMA ScopeRead ==
  ASSUME NEW W, NEW n, NEW d, NEW c \in BOOLEAN, NEW v,
         c => <<n, v>> \in Said(W), \A w \in Said(W) : w[1] = n => c /\ w = <<n, v>>
  PROVE  Asked(AsFunction(W), n, d) = IF c THEN v ELSE d
<1>1. CASE c
  BY <1>1, SaidRead
<1>2. CASE ~c
  <2>1. \A w \in Said(W) : w[1] # n
    BY <1>2
  <2>. QED
    BY <1>2, <2>1, SaidRead
<1>. QED
  BY <1>1, <1>2

(* The files of a group without the scheduler of io.bfq.weight.            *)
GroupOf(writes) == apply(<<>>, writes, NoBfq).files

LEMMA GroupRead ==
  ASSUME NEW W, Writing(W), NEW n, n \notin {"io.weight", "io.bfq.weight"},
         NEW d, NEW c \in BOOLEAN, NEW v,
         c => <<n, v>> \in Said(W), \A w \in Said(W) : w[1] = n => c /\ w = <<n, v>>
  PROVE  Asked(GroupOf(W), n, d) = IF c THEN v ELSE d
<1>. DEFINE F == apply(<<>>, W, NoBfq).files
<1>1. /\ (\A w \in Said(W) : w[1] # n) => Asked(F, n, d) = d
      /\ \A u : <<n, u>> \in Said(W) /\ (\A w \in Said(W) : w[1] = n => w = <<n, u>>)
                  => Asked(F, n, d) = u
  BY SaidWritten, Zenon
<1>. HIDE DEF F, GroupOf
<1>2. CASE c
  BY <1>1, <1>2 DEF F, GroupOf
<1>3. CASE ~c
  <2>1. \A w \in Said(W) : w[1] # n
    BY <1>3
  <2>. QED
    BY <1>1, <1>3, <2>1 DEF F, GroupOf
<1>. QED
  BY <1>2, <1>3

LEMMA GroupWeight ==
  ASSUME NEW W, Writing(W), \A w \in Said(W) : w[1] # "io.weight",
         NEW d, NEW c \in BOOLEAN, NEW v, c => <<"io.bfq.weight", v>> \in Said(W),
         \A w \in Said(W) : w[1] = "io.bfq.weight" => c /\ w = <<"io.bfq.weight", v>>
  PROVE  Asked(GroupOf(W), "io.weight", d) = IF c THEN convert_blkio_weight_to_io_weight(v) ELSE d
<1>. DEFINE F == apply(<<>>, W, NoBfq).files
<1>1. /\ (\A w \in Said(W) : w[1] # "io.bfq.weight") => Asked(F, "io.weight", d) = d
      /\ \A u : /\ <<"io.bfq.weight", u>> \in Said(W)
                /\ \A w \in Said(W) : w[1] = "io.bfq.weight" => w = <<"io.bfq.weight", u>>
                => Asked(F, "io.weight", d) = convert_blkio_weight_to_io_weight(u)
  BY SaidWeight, Zenon
<1>. HIDE DEF F
<1>2. CASE c
  BY <1>1, <1>2 DEF F, GroupOf
<1>3. CASE ~c
  <2>1. \A w \in Said(W) : w[1] # "io.bfq.weight"
    BY <1>3
  <2>. QED
    BY <1>1, <1>3, <2>1 DEF F, GroupOf
<1>. QED
  BY <1>2, <1>3

(* Each limit of the group is the limit of the scope.                      *)
LEMMA MemoryMeets ==
  ASSUME NEW o, Typed(o), parse_and_validate_memory_and_cpus(o),
         NEW r, r = resources_from_cli(o), r # None, r.memory = None \/ r.memory.limit # 0
  PROVE  LET files == apply(<<>>, plan_resources(r), NoBfq).files
             p == AsFunction(resource_properties(r)) IN
         /\ Asked(files, "memory.max", -1) = Asked(p, "MemoryMax", -1)
         /\ Asked(files, "memory.swap.max", -1) = Asked(p, "MemorySwapMax", -1)
         /\ Asked(files, "memory.low", 0) = Asked(p, "MemoryLow", 0)
<1>. DEFINE W == plan_resources(r)
            V == resource_properties(r)
            files == GroupOf(W)
            p == AsFunction(V)
            m == r.memory
            swap == convert_memory_swap_to_v2(OrZero(m.swap), OrZero(m.limit))
            cpu == r.cpu
            weight == convert_cpu_shares_to_weight(OrZero(cpu.shares))
            quota == IF OrZero(cpu.quota) > 0 THEN cpu.quota ELSE -1
            limited == OrZero(cpu.quota) > 0
            cpus == cpuset_string_to_bitmask(cpu.cpus)
            mems == cpuset_string_to_bitmask(cpu.mems)
<1>0. None \notin Int /\ Invalid \notin Int
  BY SpecConstants
<1>3. \A w : w \in Said(W) <=>
         \/ /\ m # None /\ w = <<"memory.swap.max", swap>>
            /\ m.swap # None \/ m.limit = -1
            /\ swap # Invalid /\ (swap # 0 \/ OrZero(m.swap) > 0)
         \/ m # None /\ w = <<"memory.max", m.limit>> /\ m.limit \notin {None, 0}
         \/ m # None /\ w = <<"memory.low", m.reservation>> /\ m.reservation \notin {None, 0}
         \/ cpu # None /\ w = <<"cpu.weight", weight>> /\ weight # 0
         \/ cpu # None /\ w = <<"cpu.max", <<quota, PeriodOf(cpu)>>>> /\ {cpu.quota, cpu.period} # {None}
         \/ cpu # None /\ w = <<"cpuset.cpus", cpu.cpus>> /\ cpu.cpus # <<>>
         \/ cpu # None /\ w = <<"cpuset.mems", cpu.mems>> /\ cpu.mems # <<>>
         \/ w = <<"pids.max", r.pids>> /\ r.pids \notin {None, 0}
         \/ w = <<"io.bfq.weight", r.block_io>> /\ r.block_io \notin {None, 0}
  <2>1. \A w : Planning(r, w) <=>
           \/ /\ m # None /\ w = <<"memory.swap.max", swap>>
              /\ m.swap # None \/ m.limit = -1
              /\ swap # Invalid /\ (swap # 0 \/ OrZero(m.swap) > 0)
           \/ m # None /\ w = <<"memory.max", m.limit>> /\ m.limit \notin {None, 0}
           \/ m # None /\ w = <<"memory.low", m.reservation>> /\ m.reservation \notin {None, 0}
           \/ cpu # None /\ w = <<"cpu.weight", weight>> /\ weight # 0
           \/ cpu # None /\ w = <<"cpu.max", <<quota, PeriodOf(cpu)>>>> /\ {cpu.quota, cpu.period} # {None}
           \/ cpu # None /\ w = <<"cpuset.cpus", cpu.cpus>> /\ cpu.cpus # <<>>
           \/ cpu # None /\ w = <<"cpuset.mems", cpu.mems>> /\ cpu.mems # <<>>
           \/ w = <<"pids.max", r.pids>> /\ r.pids \notin {None, 0}
           \/ w = <<"io.bfq.weight", r.block_io>> /\ r.block_io \notin {None, 0}
    BY DEF Planning
  <2>. HIDE DEF W, m, swap, cpu, weight, quota, limited
  <2>. QED
    BY <2>1, FilesPlanned DEF W
<1>4. Writing(W) /\ files = GroupOf(W)
  BY Planned
<1>5. \A w : w \in Said(V) <=>
         \/ m # None /\ w = <<"MemoryMax", m.limit>> /\ m.limit # None
         \/ m # None /\ w = <<"MemoryLow", m.reservation>> /\ m.reservation # None
         \/ m # None /\ w = <<"MemorySwapMax", swap>> /\ (m.swap # None /\ swap # Invalid)
         \/ cpu # None /\ w = <<"CPUWeight", weight>> /\ weight # 0
         \/ /\ cpu # None
            /\ w = <<"CPUQuotaPerSecUSec", QuotaPerSec(OrZero(cpu.quota), PeriodOf(cpu))>> /\ limited
         \/ cpu # None /\ w = <<"CPUQuotaPeriodUSec", PeriodOf(cpu)>> /\ limited
         \/ cpu # None /\ w = <<"AllowedCPUs", cpus>> /\ (cpu.cpus # <<>> /\ cpus # Invalid)
         \/ cpu # None /\ w = <<"AllowedMemoryNodes", mems>> /\ (cpu.mems # <<>> /\ mems # Invalid)
         \/ w = <<"TasksMax", r.pids>> /\ r.pids # None
         \/ /\ w = <<"IOWeight", convert_blkio_weight_to_io_weight(OrZero(r.block_io))>>
            /\ r.block_io \notin {None, 0}
  BY PropertiesTold
<1>1. m # None =>
        /\ m.limit \in Nat \cup {None} /\ m.limit # 0
        /\ m.swap \in Nat \cup {-1, None}
        /\ m.reservation \in Nat \cup {None}
        /\ m.swap # None => m.limit # None /\ (m.swap = -1 \/ m.swap >= m.limit)
  BY ResourcesAsked
<1>2. m # None /\ m.swap # None => swap \in Int /\ (swap # 0 \/ OrZero(m.swap) > 0)
  BY <1>0, <1>1 DEF OrZero, convert_memory_swap_to_v2
<1>. HIDE DEF W, V, files, p, m, swap, cpu, weight, quota, limited, cpus, mems
<1>7. Asked(files, "memory.max", -1) = IF m # None /\ m.limit # None THEN m.limit ELSE -1
  <2>. DEFINE c == m # None /\ m.limit # None
              v == m.limit
  <2>1. c \in BOOLEAN /\ "memory.max" \notin {"io.weight", "io.bfq.weight"}
    OBVIOUS
  <2>2. c => <<"memory.max", v>> \in Said(W)
    BY <1>1, <1>3
  <2>3. \A w \in Said(W) : w[1] = "memory.max" => c /\ w = <<"memory.max", v>>
    BY <1>1, <1>3
  <2>. HIDE DEF c, v
  <2>4. Asked(files, "memory.max", -1) = IF c THEN v ELSE -1
    BY <1>4, <2>1, <2>2, <2>3, GroupRead
  <2>. QED
    BY <2>4 DEF c, v
<1>8. Asked(p, "MemoryMax", -1) = IF m # None /\ m.limit # None THEN m.limit ELSE -1
  <2>. DEFINE c == m # None /\ m.limit # None
              v == m.limit
  <2>1. c \in BOOLEAN
    OBVIOUS
  <2>2. c => <<"MemoryMax", v>> \in Said(V)
    BY <1>5
  <2>3. \A w \in Said(V) : w[1] = "MemoryMax" => c /\ w = <<"MemoryMax", v>>
    BY <1>5
  <2>. HIDE DEF c, v
  <2>4. Asked(p, "MemoryMax", -1) = IF c THEN v ELSE -1
    BY <2>1, <2>2, <2>3, ScopeRead DEF p
  <2>. QED
    BY <2>4 DEF c, v
<1>9. Asked(files, "memory.low", 0) = IF m # None /\ m.reservation \notin {None, 0} THEN m.reservation ELSE 0
  <2>. DEFINE c == m # None /\ m.reservation \notin {None, 0}
              v == m.reservation
  <2>1. c \in BOOLEAN /\ "memory.low" \notin {"io.weight", "io.bfq.weight"}
    OBVIOUS
  <2>2. c => <<"memory.low", v>> \in Said(W)
    BY <1>3
  <2>3. \A w \in Said(W) : w[1] = "memory.low" => c /\ w = <<"memory.low", v>>
    BY <1>3
  <2>. HIDE DEF c, v
  <2>4. Asked(files, "memory.low", 0) = IF c THEN v ELSE 0
    BY <1>4, <2>1, <2>2, <2>3, GroupRead
  <2>. QED
    BY <2>4 DEF c, v
<1>10. Asked(p, "MemoryLow", 0) = IF m # None /\ m.reservation # None THEN m.reservation ELSE 0
  <2>. DEFINE c == m # None /\ m.reservation # None
              v == m.reservation
  <2>1. c \in BOOLEAN
    OBVIOUS
  <2>2. c => <<"MemoryLow", v>> \in Said(V)
    BY <1>5
  <2>3. \A w \in Said(V) : w[1] = "MemoryLow" => c /\ w = <<"MemoryLow", v>>
    BY <1>5
  <2>. HIDE DEF c, v
  <2>4. Asked(p, "MemoryLow", 0) = IF c THEN v ELSE 0
    BY <2>1, <2>2, <2>3, ScopeRead DEF p
  <2>. QED
    BY <2>4 DEF c, v
<1>11. Asked(files, "memory.swap.max", -1) = IF m # None /\ m.swap # None THEN swap ELSE -1
  <2>. DEFINE c == m # None /\ m.swap # None
              v == swap
  <2>1. c \in BOOLEAN /\ "memory.swap.max" \notin {"io.weight", "io.bfq.weight"}
    OBVIOUS
  <2>2. c => <<"memory.swap.max", v>> \in Said(W)
    BY <1>0, <1>1, <1>2, <1>3
  <2>3. \A w \in Said(W) : w[1] = "memory.swap.max" => c /\ w = <<"memory.swap.max", v>>
    BY <1>0, <1>1, <1>2, <1>3
  <2>. HIDE DEF c, v
  <2>4. Asked(files, "memory.swap.max", -1) = IF c THEN v ELSE -1
    BY <1>4, <2>1, <2>2, <2>3, GroupRead
  <2>. QED
    BY <2>4 DEF c, v
<1>12. Asked(p, "MemorySwapMax", -1) = IF m # None /\ m.swap # None THEN swap ELSE -1
  <2>. DEFINE c == m # None /\ m.swap # None
              v == swap
  <2>1. c \in BOOLEAN
    OBVIOUS
  <2>2. c => <<"MemorySwapMax", v>> \in Said(V)
    BY <1>0, <1>2, <1>5
  <2>3. \A w \in Said(V) : w[1] = "MemorySwapMax" => c /\ w = <<"MemorySwapMax", v>>
    BY <1>0, <1>2, <1>5
  <2>. HIDE DEF c, v
  <2>4. Asked(p, "MemorySwapMax", -1) = IF c THEN v ELSE -1
    BY <2>1, <2>2, <2>3, ScopeRead DEF p
  <2>. QED
    BY <2>4 DEF c, v
<1>. QED
  BY <1>7, <1>8, <1>9, <1>10, <1>11, <1>12 DEF files, p, W, V, GroupOf

LEMMA ProcessorMeets ==
  ASSUME NEW o, Typed(o), parse_and_validate_memory_and_cpus(o),
         NEW r, r = resources_from_cli(o), r # None
  PROVE  LET files == apply(<<>>, plan_resources(r), NoBfq).files
             p == AsFunction(resource_properties(r)) IN
         /\ Asked(files, "cpu.weight", 100) = Asked(p, "CPUWeight", 100)
         /\ LET max == Asked(files, "cpu.max", <<-1, CPU_PERIOD_USEC>>) IN
               (IF max[1] = -1 THEN -1 ELSE QuotaPerSec(max[1], max[2]))
                  = Asked(p, "CPUQuotaPerSecUSec", -1)
         /\ \/ cpuset_string_to_bitmask(Asked(files, "cpuset.cpus", <<>>)) = Invalid
            \/ cpuset_string_to_bitmask(Asked(files, "cpuset.cpus", <<>>))
                  = Asked(p, "AllowedCPUs", {})
<1>. DEFINE W == plan_resources(r)
            V == resource_properties(r)
            files == GroupOf(W)
            p == AsFunction(V)
            m == r.memory
            swap == convert_memory_swap_to_v2(OrZero(m.swap), OrZero(m.limit))
            cpu == r.cpu
            weight == convert_cpu_shares_to_weight(OrZero(cpu.shares))
            quota == IF OrZero(cpu.quota) > 0 THEN cpu.quota ELSE -1
            limited == OrZero(cpu.quota) > 0
            cpus == cpuset_string_to_bitmask(cpu.cpus)
            mems == cpuset_string_to_bitmask(cpu.mems)
<1>0. None \notin Int /\ Invalid \notin Int
  BY SpecConstants
<1>3. \A w : w \in Said(W) <=>
         \/ /\ m # None /\ w = <<"memory.swap.max", swap>>
            /\ m.swap # None \/ m.limit = -1
            /\ swap # Invalid /\ (swap # 0 \/ OrZero(m.swap) > 0)
         \/ m # None /\ w = <<"memory.max", m.limit>> /\ m.limit \notin {None, 0}
         \/ m # None /\ w = <<"memory.low", m.reservation>> /\ m.reservation \notin {None, 0}
         \/ cpu # None /\ w = <<"cpu.weight", weight>> /\ weight # 0
         \/ cpu # None /\ w = <<"cpu.max", <<quota, PeriodOf(cpu)>>>> /\ {cpu.quota, cpu.period} # {None}
         \/ cpu # None /\ w = <<"cpuset.cpus", cpu.cpus>> /\ cpu.cpus # <<>>
         \/ cpu # None /\ w = <<"cpuset.mems", cpu.mems>> /\ cpu.mems # <<>>
         \/ w = <<"pids.max", r.pids>> /\ r.pids \notin {None, 0}
         \/ w = <<"io.bfq.weight", r.block_io>> /\ r.block_io \notin {None, 0}
  <2>1. \A w : Planning(r, w) <=>
           \/ /\ m # None /\ w = <<"memory.swap.max", swap>>
              /\ m.swap # None \/ m.limit = -1
              /\ swap # Invalid /\ (swap # 0 \/ OrZero(m.swap) > 0)
           \/ m # None /\ w = <<"memory.max", m.limit>> /\ m.limit \notin {None, 0}
           \/ m # None /\ w = <<"memory.low", m.reservation>> /\ m.reservation \notin {None, 0}
           \/ cpu # None /\ w = <<"cpu.weight", weight>> /\ weight # 0
           \/ cpu # None /\ w = <<"cpu.max", <<quota, PeriodOf(cpu)>>>> /\ {cpu.quota, cpu.period} # {None}
           \/ cpu # None /\ w = <<"cpuset.cpus", cpu.cpus>> /\ cpu.cpus # <<>>
           \/ cpu # None /\ w = <<"cpuset.mems", cpu.mems>> /\ cpu.mems # <<>>
           \/ w = <<"pids.max", r.pids>> /\ r.pids \notin {None, 0}
           \/ w = <<"io.bfq.weight", r.block_io>> /\ r.block_io \notin {None, 0}
    BY DEF Planning
  <2>. HIDE DEF W, m, swap, cpu, weight, quota, limited
  <2>. QED
    BY <2>1, FilesPlanned DEF W
<1>4. Writing(W) /\ files = GroupOf(W)
  BY Planned
<1>5. \A w : w \in Said(V) <=>
         \/ m # None /\ w = <<"MemoryMax", m.limit>> /\ m.limit # None
         \/ m # None /\ w = <<"MemoryLow", m.reservation>> /\ m.reservation # None
         \/ m # None /\ w = <<"MemorySwapMax", swap>> /\ (m.swap # None /\ swap # Invalid)
         \/ cpu # None /\ w = <<"CPUWeight", weight>> /\ weight # 0
         \/ /\ cpu # None
            /\ w = <<"CPUQuotaPerSecUSec", QuotaPerSec(OrZero(cpu.quota), PeriodOf(cpu))>> /\ limited
         \/ cpu # None /\ w = <<"CPUQuotaPeriodUSec", PeriodOf(cpu)>> /\ limited
         \/ cpu # None /\ w = <<"AllowedCPUs", cpus>> /\ (cpu.cpus # <<>> /\ cpus # Invalid)
         \/ cpu # None /\ w = <<"AllowedMemoryNodes", mems>> /\ (cpu.mems # <<>> /\ mems # Invalid)
         \/ w = <<"TasksMax", r.pids>> /\ r.pids # None
         \/ /\ w = <<"IOWeight", convert_blkio_weight_to_io_weight(OrZero(r.block_io))>>
            /\ r.block_io \notin {None, 0}
  BY PropertiesTold
<1>1. cpu # None => cpu.quota \in Int \cup {None}
  BY ResourcesAsked
<1>2. /\ cpu # None /\ limited => quota \in Int /\ quota > 0 /\ OrZero(cpu.quota) = quota
      /\ ~limited => quota = -1
      /\ cpu # None /\ limited => {cpu.quota, cpu.period} # {None}
  BY <1>0, <1>1 DEF OrZero
<1>. DEFINE period == PeriodOf(cpu)
            some == {cpu.quota, cpu.period} # {None}
            max == Asked(files, "cpu.max", <<-1, CPU_PERIOD_USEC>>)
            nothing == {}
            given == cpu.cpus # <<>>
            both == <<quota, PeriodOf(cpu)>>
            none == <<-1, CPU_PERIOD_USEC>>
<1>6. cpuset_string_to_bitmask(<<>>) = nothing
  BY DEF cpuset_string_to_bitmask
<1>. HIDE DEF W, V, files, p, m, swap, cpu, weight, quota, limited, cpus, mems
<1>7. Asked(files, "cpu.weight", 100) = IF cpu # None /\ weight # 0 THEN weight ELSE 100
  <2>. DEFINE c == cpu # None /\ weight # 0
              v == weight
  <2>1. c \in BOOLEAN /\ "cpu.weight" \notin {"io.weight", "io.bfq.weight"}
    OBVIOUS
  <2>2. c => <<"cpu.weight", v>> \in Said(W)
    BY <1>3
  <2>3. \A w \in Said(W) : w[1] = "cpu.weight" => c /\ w = <<"cpu.weight", v>>
    BY <1>3
  <2>. HIDE DEF c, v
  <2>4. Asked(files, "cpu.weight", 100) = IF c THEN v ELSE 100
    BY <1>4, <2>1, <2>2, <2>3, GroupRead
  <2>. QED
    BY <2>4 DEF c, v
<1>8. Asked(p, "CPUWeight", 100) = IF cpu # None /\ weight # 0 THEN weight ELSE 100
  <2>. DEFINE c == cpu # None /\ weight # 0
              v == weight
  <2>1. c \in BOOLEAN
    OBVIOUS
  <2>2. c => <<"CPUWeight", v>> \in Said(V)
    BY <1>5
  <2>3. \A w \in Said(V) : w[1] = "CPUWeight" => c /\ w = <<"CPUWeight", v>>
    BY <1>5
  <2>. HIDE DEF c, v
  <2>4. Asked(p, "CPUWeight", 100) = IF c THEN v ELSE 100
    BY <2>1, <2>2, <2>3, ScopeRead DEF p
  <2>. QED
    BY <2>4 DEF c, v
<1>9. Asked(files, "cpu.max", none) = IF cpu # None /\ some THEN both ELSE none
  <2>. DEFINE c == cpu # None /\ some
              v == both
  <2>1. c \in BOOLEAN /\ "cpu.max" \notin {"io.weight", "io.bfq.weight"}
    OBVIOUS
  <2>2. c => <<"cpu.max", v>> \in Said(W)
    BY <1>3
  <2>3. \A w \in Said(W) : w[1] = "cpu.max" => c /\ w = <<"cpu.max", v>>
    BY <1>3
  <2>. HIDE DEF c, v
  <2>4. Asked(files, "cpu.max", none) = IF c THEN v ELSE none
    BY <1>4, <2>1, <2>2, <2>3, GroupRead
  <2>. QED
    BY <2>4 DEF c, v
<1>10. Asked(p, "CPUQuotaPerSecUSec", -1) = IF cpu # None /\ limited THEN QuotaPerSec(OrZero(cpu.quota), period) ELSE -1
  <2>. DEFINE c == cpu # None /\ limited
              v == QuotaPerSec(OrZero(cpu.quota), period)
  <2>1. c \in BOOLEAN
    OBVIOUS
  <2>2. c => <<"CPUQuotaPerSecUSec", v>> \in Said(V)
    BY <1>5
  <2>3. \A w \in Said(V) : w[1] = "CPUQuotaPerSecUSec" => c /\ w = <<"CPUQuotaPerSecUSec", v>>
    BY <1>5
  <2>. HIDE DEF c, v
  <2>4. Asked(p, "CPUQuotaPerSecUSec", -1) = IF c THEN v ELSE -1
    BY <2>1, <2>2, <2>3, ScopeRead DEF p
  <2>. QED
    BY <2>4 DEF c, v
<1>11. Asked(files, "cpuset.cpus", <<>>) = IF cpu # None /\ given THEN cpu.cpus ELSE <<>>
  <2>. DEFINE c == cpu # None /\ given
              v == cpu.cpus
  <2>1. c \in BOOLEAN /\ "cpuset.cpus" \notin {"io.weight", "io.bfq.weight"}
    OBVIOUS
  <2>2. c => <<"cpuset.cpus", v>> \in Said(W)
    BY <1>3
  <2>3. \A w \in Said(W) : w[1] = "cpuset.cpus" => c /\ w = <<"cpuset.cpus", v>>
    BY <1>3
  <2>. HIDE DEF c, v
  <2>4. Asked(files, "cpuset.cpus", <<>>) = IF c THEN v ELSE <<>>
    BY <1>4, <2>1, <2>2, <2>3, GroupRead
  <2>. QED
    BY <2>4 DEF c, v
<1>12. Asked(p, "AllowedCPUs", nothing) = IF cpu # None /\ (given /\ cpus # Invalid) THEN cpus ELSE nothing
  <2>. DEFINE c == cpu # None /\ (given /\ cpus # Invalid)
              v == cpus
  <2>1. c \in BOOLEAN
    OBVIOUS
  <2>2. c => <<"AllowedCPUs", v>> \in Said(V)
    BY <1>5
  <2>3. \A w \in Said(V) : w[1] = "AllowedCPUs" => c /\ w = <<"AllowedCPUs", v>>
    BY <1>5
  <2>. HIDE DEF c, v
  <2>4. Asked(p, "AllowedCPUs", nothing) = IF c THEN v ELSE nothing
    BY <2>1, <2>2, <2>3, ScopeRead DEF p
  <2>. QED
    BY <2>4 DEF c, v
<1>13. (IF max[1] = -1 THEN -1 ELSE QuotaPerSec(max[1], max[2])) = Asked(p, "CPUQuotaPerSecUSec", -1)
  <2>1. max = IF cpu # None /\ some THEN both ELSE none
    BY <1>9
  <2>2. both[1] = quota /\ both[2] = period /\ none[1] = -1
    OBVIOUS
  <2>3. limited \in BOOLEAN /\ some \in BOOLEAN
    BY DEF limited
  <2>. HIDE DEF max, both, none, some, period
  <2>4. CASE cpu # None /\ limited
    BY <1>2, <1>10, <2>1, <2>2, <2>4 DEF some
  <2>5. CASE ~(cpu # None /\ limited)
    BY <1>2, <1>10, <2>1, <2>2, <2>3, <2>5
  <2>. QED
    BY <2>4, <2>5
<1>14. \/ cpuset_string_to_bitmask(Asked(files, "cpuset.cpus", <<>>)) = Invalid
       \/ cpuset_string_to_bitmask(Asked(files, "cpuset.cpus", <<>>)) = Asked(p, "AllowedCPUs", nothing)
  <2>1. CASE cpu # None /\ given
    <3>1. cpuset_string_to_bitmask(Asked(files, "cpuset.cpus", <<>>)) = cpus
      BY <1>11, <2>1 DEF cpus
    <3>. QED
      BY <1>12, <2>1, <3>1
  <2>2. CASE ~(cpu # None /\ given)
    BY <1>6, <1>11, <1>12, <2>2
  <2>. QED
    BY <2>1, <2>2
<1>. QED
  BY <1>7, <1>8, <1>13, <1>14 DEF files, p, W, V, GroupOf

LEMMA OthersMeet ==
  ASSUME NEW o, Typed(o), parse_and_validate_memory_and_cpus(o),
         NEW r, r = resources_from_cli(o), r # None
  PROVE  LET files == apply(<<>>, plan_resources(r), NoBfq).files
             p == AsFunction(resource_properties(r)) IN
         /\ Asked(files, "pids.max", -1) = Asked(p, "TasksMax", -1)
         /\ Asked(files, "io.weight", 100) = Asked(p, "IOWeight", 100)
<1>. DEFINE W == plan_resources(r)
            V == resource_properties(r)
            files == GroupOf(W)
            p == AsFunction(V)
            m == r.memory
            swap == convert_memory_swap_to_v2(OrZero(m.swap), OrZero(m.limit))
            cpu == r.cpu
            weight == convert_cpu_shares_to_weight(OrZero(cpu.shares))
            quota == IF OrZero(cpu.quota) > 0 THEN cpu.quota ELSE -1
            limited == OrZero(cpu.quota) > 0
            cpus == cpuset_string_to_bitmask(cpu.cpus)
            mems == cpuset_string_to_bitmask(cpu.mems)
            pids == r.pids
            io == r.block_io
            share == convert_blkio_weight_to_io_weight(io)
<1>3. \A w : w \in Said(W) <=>
         \/ /\ m # None /\ w = <<"memory.swap.max", swap>>
            /\ m.swap # None \/ m.limit = -1
            /\ swap # Invalid /\ (swap # 0 \/ OrZero(m.swap) > 0)
         \/ m # None /\ w = <<"memory.max", m.limit>> /\ m.limit \notin {None, 0}
         \/ m # None /\ w = <<"memory.low", m.reservation>> /\ m.reservation \notin {None, 0}
         \/ cpu # None /\ w = <<"cpu.weight", weight>> /\ weight # 0
         \/ cpu # None /\ w = <<"cpu.max", <<quota, PeriodOf(cpu)>>>> /\ {cpu.quota, cpu.period} # {None}
         \/ cpu # None /\ w = <<"cpuset.cpus", cpu.cpus>> /\ cpu.cpus # <<>>
         \/ cpu # None /\ w = <<"cpuset.mems", cpu.mems>> /\ cpu.mems # <<>>
         \/ w = <<"pids.max", r.pids>> /\ r.pids \notin {None, 0}
         \/ w = <<"io.bfq.weight", r.block_io>> /\ r.block_io \notin {None, 0}
  <2>1. \A w : Planning(r, w) <=>
           \/ /\ m # None /\ w = <<"memory.swap.max", swap>>
              /\ m.swap # None \/ m.limit = -1
              /\ swap # Invalid /\ (swap # 0 \/ OrZero(m.swap) > 0)
           \/ m # None /\ w = <<"memory.max", m.limit>> /\ m.limit \notin {None, 0}
           \/ m # None /\ w = <<"memory.low", m.reservation>> /\ m.reservation \notin {None, 0}
           \/ cpu # None /\ w = <<"cpu.weight", weight>> /\ weight # 0
           \/ cpu # None /\ w = <<"cpu.max", <<quota, PeriodOf(cpu)>>>> /\ {cpu.quota, cpu.period} # {None}
           \/ cpu # None /\ w = <<"cpuset.cpus", cpu.cpus>> /\ cpu.cpus # <<>>
           \/ cpu # None /\ w = <<"cpuset.mems", cpu.mems>> /\ cpu.mems # <<>>
           \/ w = <<"pids.max", r.pids>> /\ r.pids \notin {None, 0}
           \/ w = <<"io.bfq.weight", r.block_io>> /\ r.block_io \notin {None, 0}
    BY DEF Planning
  <2>. HIDE DEF W, m, swap, cpu, weight, quota, limited
  <2>. QED
    BY <2>1, FilesPlanned DEF W
<1>4. Writing(W) /\ files = GroupOf(W)
  BY Planned
<1>5. \A w : w \in Said(V) <=>
         \/ m # None /\ w = <<"MemoryMax", m.limit>> /\ m.limit # None
         \/ m # None /\ w = <<"MemoryLow", m.reservation>> /\ m.reservation # None
         \/ m # None /\ w = <<"MemorySwapMax", swap>> /\ (m.swap # None /\ swap # Invalid)
         \/ cpu # None /\ w = <<"CPUWeight", weight>> /\ weight # 0
         \/ /\ cpu # None
            /\ w = <<"CPUQuotaPerSecUSec", QuotaPerSec(OrZero(cpu.quota), PeriodOf(cpu))>> /\ limited
         \/ cpu # None /\ w = <<"CPUQuotaPeriodUSec", PeriodOf(cpu)>> /\ limited
         \/ cpu # None /\ w = <<"AllowedCPUs", cpus>> /\ (cpu.cpus # <<>> /\ cpus # Invalid)
         \/ cpu # None /\ w = <<"AllowedMemoryNodes", mems>> /\ (cpu.mems # <<>> /\ mems # Invalid)
         \/ w = <<"TasksMax", r.pids>> /\ r.pids # None
         \/ /\ w = <<"IOWeight", convert_blkio_weight_to_io_weight(OrZero(r.block_io))>>
            /\ r.block_io \notin {None, 0}
  BY PropertiesTold
<1>1. pids \in (Int \ {0}) \cup {None}
  BY ResourcesAsked
<1>2. io \notin {None, 0} => share = convert_blkio_weight_to_io_weight(OrZero(io))
  BY DEF OrZero
<1>. HIDE DEF W, V, files, p, m, swap, cpu, weight, quota, limited, cpus, mems, pids, io, share
<1>7. Asked(files, "pids.max", -1) = IF pids # None THEN pids ELSE -1
  <2>. DEFINE c == pids # None
              v == pids
  <2>1. c \in BOOLEAN /\ "pids.max" \notin {"io.weight", "io.bfq.weight"}
    OBVIOUS
  <2>2. c => <<"pids.max", v>> \in Said(W)
    BY <1>1, <1>3 DEF pids
  <2>3. \A w \in Said(W) : w[1] = "pids.max" => c /\ w = <<"pids.max", v>>
    BY <1>1, <1>3 DEF pids
  <2>. HIDE DEF c, v
  <2>4. Asked(files, "pids.max", -1) = IF c THEN v ELSE -1
    BY <1>4, <2>1, <2>2, <2>3, GroupRead
  <2>. QED
    BY <2>4 DEF c, v
<1>8. Asked(p, "TasksMax", -1) = IF pids # None THEN pids ELSE -1
  <2>. DEFINE c == pids # None
              v == pids
  <2>1. c \in BOOLEAN
    OBVIOUS
  <2>2. c => <<"TasksMax", v>> \in Said(V)
    BY <1>5 DEF pids
  <2>3. \A w \in Said(V) : w[1] = "TasksMax" => c /\ w = <<"TasksMax", v>>
    BY <1>5 DEF pids
  <2>. HIDE DEF c, v
  <2>4. Asked(p, "TasksMax", -1) = IF c THEN v ELSE -1
    BY <2>1, <2>2, <2>3, ScopeRead DEF p
  <2>. QED
    BY <2>4 DEF c, v
<1>9. Asked(p, "IOWeight", 100) = IF io \notin {None, 0} THEN share ELSE 100
  <2>. DEFINE c == io \notin {None, 0}
              v == share
  <2>1. c \in BOOLEAN
    OBVIOUS
  <2>2. c => <<"IOWeight", v>> \in Said(V)
    BY <1>2, <1>5 DEF io
  <2>3. \A w \in Said(V) : w[1] = "IOWeight" => c /\ w = <<"IOWeight", v>>
    BY <1>2, <1>5 DEF io
  <2>. HIDE DEF c, v
  <2>4. Asked(p, "IOWeight", 100) = IF c THEN v ELSE 100
    BY <2>1, <2>2, <2>3, ScopeRead DEF p
  <2>. QED
    BY <2>4 DEF c, v
<1>10. Asked(files, "io.weight", 100) = IF io \notin {None, 0} THEN share ELSE 100
  <2>1. \A w \in Said(W) : w[1] # "io.weight"
    BY <1>3
  <2>. DEFINE some == io \notin {None, 0}
  <2>2. \A w \in Said(W) : w[1] = "io.bfq.weight" => some /\ w = <<"io.bfq.weight", io>>
    BY <1>3 DEF io
  <2>3. some => <<"io.bfq.weight", io>> \in Said(W)
    BY <1>3 DEF io
  <2>4. some \in BOOLEAN
    OBVIOUS
  <2>. HIDE DEF some
  <2>5. Asked(files, "io.weight", 100) = IF some THEN convert_blkio_weight_to_io_weight(io) ELSE 100
    BY <1>4, <2>1, <2>2, <2>3, <2>4, GroupWeight
  <2>. QED
    BY <2>5 DEF some, share
<1>. QED
  BY <1>7, <1>8, <1>9, <1>10 DEF files, p, W, V, GroupOf

LEMMA DriversMeet ==
  ASSUME NEW o, Typed(o), parse_and_validate_memory_and_cpus(o),
         NEW r, r = resources_from_cli(o), r # None, r.memory = None \/ r.memory.limit # 0
  PROVE  LET files == apply(<<>>, plan_resources(r), NoBfq).files IN
         \/ GroupLimits(files).cpus = Invalid
         \/ GroupLimits(files) = ScopeLimits(AsFunction(resource_properties(r)))
<1>. DEFINE files == apply(<<>>, plan_resources(r), NoBfq).files
            p == AsFunction(resource_properties(r))
            max == Asked(files, "cpu.max", <<-1, CPU_PERIOD_USEC>>)
            time == IF max[1] = -1 THEN -1 ELSE QuotaPerSec(max[1], max[2])
            cpus == cpuset_string_to_bitmask(Asked(files, "cpuset.cpus", <<>>))
<1>1. /\ Asked(files, "memory.max", -1) = Asked(p, "MemoryMax", -1)
      /\ Asked(files, "memory.swap.max", -1) = Asked(p, "MemorySwapMax", -1)
      /\ Asked(files, "memory.low", 0) = Asked(p, "MemoryLow", 0)
  BY MemoryMeets
<1>2. /\ Asked(files, "cpu.weight", 100) = Asked(p, "CPUWeight", 100)
      /\ time = Asked(p, "CPUQuotaPerSecUSec", -1)
      /\ cpus = Invalid \/ cpus = Asked(p, "AllowedCPUs", {})
  BY ProcessorMeets
<1>3. /\ Asked(files, "pids.max", -1) = Asked(p, "TasksMax", -1)
      /\ Asked(files, "io.weight", 100) = Asked(p, "IOWeight", 100)
  BY OthersMeet
<1>4. GroupLimits(files) =
        [memory |-> Asked(files, "memory.max", -1), swap |-> Asked(files, "memory.swap.max", -1),
         low |-> Asked(files, "memory.low", 0), pids |-> Asked(files, "pids.max", -1),
         weight |-> Asked(files, "cpu.weight", 100), io |-> Asked(files, "io.weight", 100),
         cpu |-> time, cpus |-> cpus]
  BY DEF GroupLimits
<1>. HIDE DEF files, p, time, cpus
<1>5. GroupLimits(files).cpus = cpus
  BY <1>4
<1>6. cpus # Invalid => GroupLimits(files) = ScopeLimits(p)
  BY <1>1, <1>2, <1>3, <1>4 DEF ScopeLimits
<1>. QED
  BY <1>5, <1>6 DEF files, p

(* The same resources mean the same limits whether systemd is told them or *)
(* the files of the group are written, whatever the values of the options: *)
(* a launched container and an updated one are limited alike.              *)
THEOREM DriversMeanTheSame == Spec => []DriversAgree
<1>1. AnswerOK(answer) => DriversAgree
  <2>. SUFFICES ASSUME AnswerOK(answer), AnswerResources # None,
                       ~(AnswerResources.memory # None /\ AnswerResources.memory.limit = 0)
                PROVE  LET r == AnswerResources
                           files == apply(<<>>, plan_resources(r), NoBfq).files IN
                       \/ GroupLimits(files).cpus = Invalid
                       \/ GroupLimits(files) = ScopeLimits(AsFunction(resource_properties(r)))
    BY Zenon DEF DriversAgree
  <2>. DEFINE r == AnswerResources
  <2>1. CASE answer.is = "updated"
    <3>1. r = answer.resources
      BY <2>1 DEF AnswerResources
    <3>2. /\ Typed(answer.asked) /\ parse_and_validate_memory_and_cpus(answer.asked)
          /\ r = resources_from_cli(answer.asked)
      BY <2>1, <3>1 DEF AnswerOK
    <3>. HIDE DEF r
    <3>. QED
      BY <3>2, DriversMeet DEF r
  <2>2. CASE answer.is = "spec"
    <3>. DEFINE o == answer.asked
    <3>1. /\ Typed(o) /\ answer.spec = synthesize_spec(answer.config, o) /\ answer.spec # Invalid
      BY <2>2 DEF AnswerOK
    <3>2. parse_and_validate_memory_and_cpus(o)
      BY <3>1, Zenon DEF synthesize_spec, PrepareAccepts
    <3>3. answer.spec.resources = SpecResources(o)
      BY <3>1, SpecFields
    <3>4. r = IF SpecResources(o) = None THEN None ELSE SpecResources(o).limits
      BY <2>2, <3>3 DEF AnswerResources
    <3>5. r = resources_from_cli(o)
      BY <3>4, Zenon DEF SpecResources
    <3>. HIDE DEF r, o
    <3>. QED
      BY <3>1, <3>2, <3>5, DriversMeet DEF r
  <2>3. CASE answer.is \notin {"spec", "updated"}
    BY <2>3 DEF AnswerResources
  <2>. QED
    BY <2>1, <2>2, <2>3
<1>. QED
  BY <1>1, AnswersAlways, PTL

-----------------------------------------------------------------------------
(* The entries at some places of a sequence: where each comes from.        *)
ComesFrom(u, s, places, h) ==
    /\ u \in Seq(ToSet(s)) /\ h \in [1..Len(u) -> places]
    /\ \A j \in 1..Len(u) : u[j] = s[h[j]]
    /\ \A i \in places : \E j \in 1..Len(u) : h[j] = i
    /\ \A j, k \in 1..Len(u) : h[j] = h[k] => j = k

Traced(u, s, places) == \E h : ComesFrom(u, s, places, h)

LEMMA TracedNone ==
  ASSUME NEW s
  PROVE  Traced(<<>>, s, {})
<1>1. <<>> \in Seq(ToSet(s)) /\ Len(<<>>) = 0 /\ 1..0 = {}
  OBVIOUS
<1>2. [j \in {} |-> 0] \in [{} -> {}]
  OBVIOUS
<1>3. ComesFrom(<<>>, s, {}, [j \in {} |-> 0])
  BY <1>1, <1>2 DEF ComesFrom
<1>. QED
  BY <1>3 DEF Traced

LEMMA TracedOne ==
  ASSUME NEW s, NEW places, NEW i \in DOMAIN s, i \notin places, NEW u, Traced(u, s, places)
  PROVE  Traced(Append(u, s[i]), s, places \cup {i})
<1>1. PICK h : ComesFrom(u, s, places, h)
  BY DEF Traced
<1>. DEFINE v == Append(u, s[i])
            g == [j \in 1..Len(v) |-> IF j = Len(v) THEN i ELSE h[j]]
<1>2. s[i] \in ToSet(s) /\ u \in Seq(ToSet(s)) /\ Len(u) \in Nat
  BY <1>1 DEF ComesFrom, ToSet
<1>3. /\ v \in Seq(ToSet(s)) /\ Len(v) = Len(u) + 1 /\ v[Len(u) + 1] = s[i]
      /\ \A j \in 1..Len(u) : v[j] = u[j]
  BY <1>2
<1>. HIDE DEF v
<1>4. /\ \A j \in 1..Len(u) : g[j] = h[j] /\ h[j] \in places
      /\ g[Len(u) + 1] = i
  BY <1>1, <1>2, <1>3 DEF ComesFrom
<1>5. g \in [1..Len(v) -> places \cup {i}]
  BY <1>1, <1>2, <1>3 DEF ComesFrom
<1>. HIDE DEF g
<1>6. \A j \in 1..Len(v) : j \in 1..Len(u) \/ j = Len(u) + 1
  BY <1>2, <1>3
<1>6a. Len(u) + 1 \in 1..Len(v) /\ \A j \in 1..Len(u) : j \in 1..Len(v)
  BY <1>2, <1>3
<1>7. \A j \in 1..Len(v) : v[j] = s[g[j]]
  BY <1>1, <1>3, <1>4, <1>6 DEF ComesFrom
<1>8. ASSUME NEW k \in places \cup {i} PROVE \E j \in 1..Len(v) : g[j] = k
  <2>1. CASE k = i
    BY <2>1, <1>4, <1>6a
  <2>2. CASE k \in places
    <3>1. PICK j \in 1..Len(u) : h[j] = k
      BY <2>2, <1>1 DEF ComesFrom
    <3>. QED
      BY <3>1, <1>4, <1>6a
  <2>. QED
    BY <2>1, <2>2
<1>9. ASSUME NEW j \in 1..Len(v), NEW k \in 1..Len(v), g[j] = g[k] PROVE j = k
  <2>1. CASE j \in 1..Len(u) /\ k \in 1..Len(u)
    BY <2>1, <1>1, <1>4, <1>9 DEF ComesFrom
  <2>2. CASE ~(j \in 1..Len(u) /\ k \in 1..Len(u))
    BY <2>2, <1>4, <1>6, <1>9
  <2>. QED
    BY <2>1, <2>2
<1>10. ComesFrom(v, s, places \cup {i}, g)
  BY <1>3, <1>5, <1>7, <1>8, <1>9, Zenon DEF ComesFrom
<1>. QED
  BY <1>10 DEF Traced, v

LEMMA TracedStep ==
  ASSUME NEW s, Sequence(s), NEW places, NEW n \in Nat, n + 1 <= Len(s), NEW u,
         Traced(u, s, 1..n \cap places)
  PROVE  Traced(IF n + 1 \in places THEN Append(u, s[n + 1]) ELSE u, s, 1..(n + 1) \cap places)
<1>1. n + 1 \in DOMAIN s /\ n + 1 \notin 1..n \cap places
  BY DEF Sequence
<1>2. 1..(n + 1) \cap places =
        IF n + 1 \in places THEN (1..n \cap places) \cup {n + 1} ELSE 1..n \cap places
  OBVIOUS
<1>3. CASE n + 1 \in places
  <2>1. Traced(Append(u, s[n + 1]), s, (1..n \cap places) \cup {n + 1})
    BY <1>1, TracedOne
  <2>. QED
    BY <1>2, <1>3, <2>1, Zenon
<1>4. CASE n + 1 \notin places
  BY <1>2, <1>4, Zenon
<1>. QED
  BY <1>3, <1>4

LEMMA SelectedTraced ==
  ASSUME NEW s, Sequence(s), NEW places
  PROVE  Traced(Selected(s, places), s, DOMAIN s \cap places)
<1>. DEFINE Step(u, n) == IF n \in places THEN Append(u, s[n]) ELSE u
            upTo[n \in 0..Len(s)] == IF n = 0 THEN <<>> ELSE Step(upTo[n - 1], n)
            Upto == {k \in Nat : \E h : h = [n \in 0..k |-> IF n = 0 THEN <<>> ELSE Step(h[n - 1], n)]}
<1>1. Selected(s, places) = upTo[Len(s)]
  BY DEF Selected
<1>2. \A n \in Nat : \A u : n + 1 <= Len(s) /\ Traced(u, s, 1..n \cap places) =>
                            Traced(Step(u, n + 1), s, 1..(n + 1) \cap places)
  BY TracedStep
<1>0. Len(s) \in Nat /\ DOMAIN s = 1..Len(s)
  BY DEF Sequence
<1>. HIDE DEF Step
<1>3. 0 \in Upto
  <2>1. [n \in 0..0 |-> <<>>] = [n \in 0..0 |-> IF n = 0 THEN <<>> ELSE Step([m \in 0..0 |-> <<>>][n - 1], n)]
    OBVIOUS
  <2>. QED
    BY <2>1
<1>4. ASSUME NEW k \in Nat, k \in Upto PROVE k + 1 \in Upto
  <2>1. PICK h : h = [n \in 0..k |-> IF n = 0 THEN <<>> ELSE Step(h[n - 1], n)]
    BY <1>4
  <2>. DEFINE g == [n \in 0..k + 1 |-> IF n = k + 1 THEN Step(h[k], n) ELSE h[n]]
  <2>2. \A n \in 0..k + 1 : g[n] = IF n = 0 THEN <<>> ELSE Step(g[n - 1], n)
    BY <2>1
  <2>3. g = [n \in 0..k + 1 |-> IF n = 0 THEN <<>> ELSE Step(g[n - 1], n)]
    BY <2>2
  <2>. HIDE DEF g
  <2>. QED
    BY <2>3
<1>5. Len(s) \in Upto
  <2>. HIDE DEF Upto
  <2>. QED
    BY <1>0, <1>3, <1>4, Counting
<1>6. upTo = [n \in 0..Len(s) |-> IF n = 0 THEN <<>> ELSE Step(upTo[n - 1], n)]
  BY <1>5
<1>. DEFINE Fine == {k \in Nat : k <= Len(s) => Traced(upTo[k], s, 1..k \cap places)}
<1>. HIDE DEF upTo
<1>7. 0 \in Fine
  <2>1. 1..0 \cap places = {} /\ upTo[0] = <<>>
    BY <1>0, <1>6
  <2>. QED
    BY <2>1, TracedNone
<1>8. ASSUME NEW k \in Nat, k \in Fine PROVE k + 1 \in Fine
  BY <1>0, <1>2, <1>6, <1>8
<1>9. Len(s) \in Fine
  <2>. HIDE DEF Fine
  <2>. QED
    BY <1>0, <1>7, <1>8, Counting
<1>. QED
  BY <1>0, <1>1, <1>9

(* What is taken from a sequence is a sequence of entries of those places. *)
LEMMA SelectedFrom ==
  ASSUME NEW s, Sequence(s), NEW places
  PROVE  /\ Selected(s, places) \in Seq(ToSet(s))
         /\ ToSet(Selected(s, places)) = {s[i] : i \in DOMAIN s \cap places}
<1>. DEFINE u == Selected(s, places)
<1>1. PICK h : ComesFrom(u, s, DOMAIN s \cap places, h)
  BY SelectedTraced DEF Traced
<1>. HIDE DEF u
<1>2. u \in Seq(ToSet(s)) /\ DOMAIN u = 1..Len(u)
  BY <1>1 DEF ComesFrom
<1>3. \A j \in 1..Len(u) : h[j] \in DOMAIN s \cap places /\ u[j] = s[h[j]]
  BY <1>1 DEF ComesFrom
<1>4. ToSet(u) = {s[i] : i \in DOMAIN s \cap places}
  BY <1>1, <1>2, <1>3 DEF ToSet, ComesFrom
<1>. QED
  BY <1>2, <1>4 DEF u

(* The first of each kind are all different.                               *)
LEMMA FirstsDiffer ==
  ASSUME NEW s, Sequence(s), NEW u,
         u = Selected(s, {i \in DOMAIN s : \A j \in 1..i - 1 : s[j] # s[i]}),
         NEW j \in 1..Len(u), NEW k \in 1..Len(u), u[j] = u[k]
  PROVE  j = k
<1>. DEFINE firsts == {i \in DOMAIN s : \A m \in 1..i - 1 : s[m] # s[i]}
<1>1. PICK h : ComesFrom(u, s, DOMAIN s \cap firsts, h)
  BY SelectedTraced DEF Traced
<1>2. DOMAIN s = 1..Len(s) /\ Len(s) \in Nat
  BY DEF Sequence
<1>3. \A m \in 1..Len(u) : h[m] \in firsts /\ u[m] = s[h[m]]
  BY <1>1 DEF ComesFrom
<1>4. h[j] \in 1..Len(s) /\ h[k] \in 1..Len(s) /\ s[h[j]] = s[h[k]]
  BY <1>2, <1>3
<1>6. ~(h[j] < h[k]) /\ ~(h[k] < h[j])
  <2>1. \A m \in 1..h[j] - 1 : s[m] # s[h[j]]
    BY <1>3
  <2>2. \A m \in 1..h[k] - 1 : s[m] # s[h[k]]
    BY <1>3
  <2>3. h[j] < h[k] => h[j] \in 1..h[k] - 1
    BY <1>2, <1>4
  <2>4. h[k] < h[j] => h[k] \in 1..h[j] - 1
    BY <1>2, <1>4
  <2>. QED
    BY <1>4, <2>1, <2>2, <2>3, <2>4, Zenon
<1>5. h[j] = h[k]
  BY <1>2, <1>4, <1>6
<1>. HIDE DEF firsts
<1>. QED
  BY <1>1, <1>5 DEF ComesFrom

-----------------------------------------------------------------------------
(* The environment.  A variable that is set is what it was set to, and the *)
(* others are what they were.                                              *)
LEMMA MinThere ==
  ASSUME NEW S \in SUBSET Nat, S # {}
  PROVE  Min(S) \in S /\ \A y \in S : Min(S) <= y
<1>1. PICK m \in S : \A k \in S : <<k, m>> \notin OpToRel(<, Nat)
  BY WFMin, NatLessThanWellFounded, Zenon
<1>2. \A k \in S : ~(k < m)
  BY <1>1, Zenon DEF OpToRel
<1>3. \A k \in S : m <= k
  BY <1>2
<1>. QED
  BY <1>3 DEF Min

IsFirst(e, i, k) == i \in DOMAIN e /\ e[i][1] = k /\ \A j \in DOMAIN e : j < i => e[j][1] # k

LEMMA ReadsFirst ==
  ASSUME NEW e, Sequence(e), NEW k, NEW v
  PROVE  Reads(e, k, v) <=> \E i : IsFirst(e, i, k) /\ e[i][2] = v
<1>. DEFINE at == {i \in DOMAIN e : e[i][1] = k}
<1>1. DOMAIN e = 1..Len(e) /\ Len(e) \in Nat /\ at \in SUBSET Nat
  BY DEF Sequence
<1>2. ASSUME at # {} PROVE IsFirst(e, Min(at), k)
  <2>1. Min(at) \in at /\ \A y \in at : Min(at) <= y
    BY <1>1, <1>2, MinThere
  <2>. HIDE DEF at
  <2>2. \A y \in at : y \in Nat
    BY <1>1
  <2>3. \A y \in at : ~(y < Min(at))
    BY <2>1, <2>2
  <2>. QED
    BY <2>1, <2>3 DEF IsFirst, at
<1>3. \A i, j : IsFirst(e, i, k) /\ IsFirst(e, j, k) => i = j
  <2>. SUFFICES ASSUME NEW i, NEW j, IsFirst(e, i, k), IsFirst(e, j, k) PROVE i = j
    OBVIOUS
  <2>1. i \in Nat /\ j \in Nat /\ ~(i < j) /\ ~(j < i)
    BY <1>1 DEF IsFirst
  <2>. QED
    BY <2>1
<1>4. \A i : IsFirst(e, i, k) => i \in at
  BY DEF IsFirst
<1>. HIDE DEF at
<1>5. Reads(e, k, v) <=> at # {} /\ e[Min(at)][2] = v
  BY DEF Reads, at
<1>. QED
  BY <1>2, <1>3, <1>4, <1>5, Zenon

LEMMA SetsIt ==
  ASSUME NEW e, Sequence(e), NEW k, NEW v, NEW f, f = set_env_var(e, k, v)
  PROVE  /\ Sequence(f) /\ Reads(f, k, v)
         /\ \A n, x : n # k /\ Reads(e, n, x) => Reads(f, n, x)
<1>. DEFINE at == {i \in DOMAIN e : e[i][1] = k}
            kv == <<k, v>>
            W == ToSet(e) \cup {kv}
<1>1. DOMAIN e = 1..Len(e) /\ Len(e) \in Nat /\ e \in Seq(ToSet(e))
  BY DEF Sequence
<1>2. kv[1] = k /\ kv[2] = v
  OBVIOUS
<1>3. \A g \in Seq(W) : Sequence(g)
  <2>. HIDE DEF kv
  <2>. SUFFICES ASSUME NEW g \in Seq(W) PROVE g \in Seq(ToSet(g))
    BY DEF Sequence
  <2>. QED
    BY DEF ToSet
<1>4. e \in Seq(W)
  BY <1>1
<1>5. f = IF at = {} THEN Append(e, kv) ELSE [e EXCEPT ![Min(at)] = kv]
  BY DEF set_env_var
<1>6. PICK m : /\ f \in Seq(W) /\ IsFirst(f, m, k) /\ f[m] = kv
               /\ DOMAIN e \subseteq DOMAIN f /\ (m \in DOMAIN e => e[m][1] = k)
               /\ \A i \in DOMAIN e : i # m => f[i] = e[i]
               /\ \A i \in DOMAIN f : i \in DOMAIN e \/ (i = m /\ m = Len(e) + 1)
  <2>1. CASE at = {}
    <3>. DEFINE m == Len(e) + 1
    <3>. HIDE DEF kv, W
    <3>1. kv \in W
      BY DEF W
    <3>2. f \in Seq(W) /\ DOMAIN f = 1..m /\ f[m] = kv /\ \A i \in DOMAIN e : f[i] = e[i]
      BY <1>1, <1>4, <1>5, <2>1, <3>1
    <3>3. IsFirst(f, m, k)
      BY <1>1, <1>2, <2>1, <3>2 DEF IsFirst
    <3>. QED
      BY <1>1, <3>2, <3>3
  <2>2. CASE at # {}
    <3>. DEFINE m == Min(at)
    <3>0. at \in SUBSET Nat
      BY <1>1
    <3>1. m \in at /\ \A y \in at : m <= y
      <4>. HIDE DEF at
      <4>. QED
        BY <2>2, <3>0, MinThere
    <3>. HIDE DEF m
    <3>2. f = [e EXCEPT ![m] = kv]
      BY <1>5, <2>2 DEF m
    <3>. HIDE DEF kv, W
    <3>3. kv \in W
      BY DEF W
    <3>4. f \in Seq(W) /\ DOMAIN f = DOMAIN e /\ f[m] = kv /\ \A i \in DOMAIN e : i # m => f[i] = e[i]
      BY <1>1, <1>4, <3>1, <3>2, <3>3
    <3>5. \A j \in DOMAIN e : j < m => e[j][1] # k
      BY <1>1, <3>1
    <3>6. IsFirst(f, m, k)
      BY <1>1, <1>2, <3>1, <3>4, <3>5 DEF IsFirst
    <3>7. e[m][1] = k
      BY <3>1 DEF at
    <3>. QED
      BY <3>4, <3>6, <3>7
  <2>. QED
    BY <2>1, <2>2
<1>. HIDE DEF kv, W, at
<1>7. Sequence(f) /\ Reads(f, k, v)
  BY <1>2, <1>3, <1>6, ReadsFirst
<1>8. ASSUME NEW n, NEW x, n # k, Reads(e, n, x) PROVE Reads(f, n, x)
  <2>1. PICK i : IsFirst(e, i, n) /\ e[i][2] = x
    BY <1>8, ReadsFirst
  <2>2. i # m /\ i \in DOMAIN f /\ f[i] = e[i]
    BY <1>1, <1>2, <1>6, <1>8, <2>1 DEF IsFirst
  <2>3. ASSUME NEW j \in DOMAIN f, j < i PROVE f[j][1] # n
    BY <1>1, <1>2, <1>6, <1>8, <2>1, <2>3 DEF IsFirst
  <2>. QED
    BY <1>7, <2>1, <2>2, <2>3, ReadsFirst DEF IsFirst
<1>. QED
  BY <1>7, <1>8

(* f reads as e does, but for some names.                                  *)
Keeps(e, f, names) ==
    Sequence(f) /\ \A n, x : n \notin names /\ Reads(e, n, x) => Reads(f, n, x)

LEMMA SetKeeps ==
  ASSUME NEW e, Sequence(e), NEW k, NEW v
  PROVE  Keeps(e, set_env_var(e, k, v), {k}) /\ Reads(set_env_var(e, k, v), k, v)
<1>. DEFINE f == set_env_var(e, k, v)
<1>1. /\ Sequence(f) /\ Reads(f, k, v)
      /\ \A n, x : n # k /\ Reads(e, n, x) => Reads(f, n, x)
  BY SetsIt
<1>. HIDE DEF f
<1>2. Keeps(e, f, {k})
  BY <1>1 DEF Keeps
<1>. QED
  BY <1>1, <1>2 DEF f

LEMMA KeepsOn ==
  ASSUME NEW e, NEW f, NEW g, NEW M, NEW N, Keeps(e, f, M), Keeps(f, g, N), NEW U, M \subseteq U, N \subseteq U
  PROVE  Keeps(e, g, U)
  BY Zenon DEF Keeps

(* Variables set one after the other: the last one is what it was set to.  *)
Name(pairs, n) == {pairs[i][1] : i \in 1..n}

LEMMA SetsAll ==
  ASSUME NEW e, Sequence(e), NEW pairs, Len(pairs) \in Nat, NEW f, f = set_env_vars(e, pairs)
  PROVE  /\ Keeps(e, f, Name(pairs, Len(pairs)))
         /\ Len(pairs) > 0 => Reads(f, pairs[Len(pairs)][1], pairs[Len(pairs)][2])
<1>. DEFINE Step(u, n) == set_env_var(u, pairs[n][1], pairs[n][2])
            after[n \in 0..Len(pairs)] == IF n = 0 THEN e ELSE Step(after[n - 1], n)
            Upto == {k \in Nat : \E h : h = [n \in 0..k |-> IF n = 0 THEN e ELSE Step(h[n - 1], n)]}
            Fine == {k \in Nat : k <= Len(pairs) =>
                        /\ Keeps(e, after[k], Name(pairs, k))
                        /\ k > 0 => Reads(after[k], pairs[k][1], pairs[k][2])}
<1>1. f = after[Len(pairs)]
  BY DEF set_env_vars
<1>2. \A u, n : Sequence(u) =>
          Keeps(u, Step(u, n), {pairs[n][1]}) /\ Reads(Step(u, n), pairs[n][1], pairs[n][2])
  BY SetKeeps
<1>. HIDE DEF Step
<1>3. 0 \in Upto
  <2>1. [n \in 0..0 |-> e] = [n \in 0..0 |-> IF n = 0 THEN e ELSE Step([m \in 0..0 |-> e][n - 1], n)]
    OBVIOUS
  <2>. QED
    BY <2>1
<1>4. ASSUME NEW k \in Nat, k \in Upto PROVE k + 1 \in Upto
  <2>1. PICK h : h = [n \in 0..k |-> IF n = 0 THEN e ELSE Step(h[n - 1], n)]
    BY <1>4
  <2>. DEFINE g == [n \in 0..k + 1 |-> IF n = k + 1 THEN Step(h[k], n) ELSE h[n]]
  <2>2. \A n \in 0..k + 1 : g[n] = IF n = 0 THEN e ELSE Step(g[n - 1], n)
    BY <2>1
  <2>3. g = [n \in 0..k + 1 |-> IF n = 0 THEN e ELSE Step(g[n - 1], n)]
    BY <2>2
  <2>. HIDE DEF g
  <2>. QED
    BY <2>3
<1>5. Len(pairs) \in Upto
  <2>. HIDE DEF Upto
  <2>. QED
    BY <1>3, <1>4, Counting
<1>6. after = [n \in 0..Len(pairs) |-> IF n = 0 THEN e ELSE Step(after[n - 1], n)]
  BY <1>5
<1>. HIDE DEF after
<1>7. 0 \in Fine
  <2>1. Keeps(e, e, Name(pairs, 0))
    BY DEF Keeps
  <2>. QED
    BY <2>1, <1>6
<1>8. ASSUME NEW k \in Nat, k \in Fine PROVE k + 1 \in Fine
  <2>. SUFFICES ASSUME k + 1 <= Len(pairs)
                PROVE  /\ Keeps(e, after[k + 1], Name(pairs, k + 1))
                       /\ Reads(after[k + 1], pairs[k + 1][1], pairs[k + 1][2])
    OBVIOUS
  <2>1. Keeps(e, after[k], Name(pairs, k)) /\ after[k + 1] = Step(after[k], k + 1)
    BY <1>6, <1>8
  <2>2. /\ Keeps(after[k], after[k + 1], {pairs[k + 1][1]})
        /\ Reads(after[k + 1], pairs[k + 1][1], pairs[k + 1][2])
    BY <1>2, <2>1 DEF Keeps
  <2>3. Name(pairs, k) \subseteq Name(pairs, k + 1) /\ {pairs[k + 1][1]} \subseteq Name(pairs, k + 1)
    BY DEF Name
  <2>. QED
    BY <2>1, <2>2, <2>3, KeepsOn
<1>9. Len(pairs) \in Fine
  <2>. HIDE DEF Fine
  <2>. QED
    BY <1>7, <1>8, Counting
<1>. QED
  BY <1>1, <1>9

(* The names that an override may set.                                     *)
Touched(over) == IF over.value # None THEN {over.key} ELSE over.keys
AllTouched(overrides, i, k) == UNION {Touched(overrides[j]) : j \in i + 1..k}

LEMMA OneOverride ==
  ASSUME NEW e, Sequence(e), NEW over, Sequence(HostEnv)
  PROVE  /\ Keeps(e, set_env_vars(e, Assigns(over)), Touched(over))
         /\ over.value # None => Reads(set_env_vars(e, Assigns(over)), over.key, over.value)
<1>. DEFINE pairs == Assigns(over)
            f == set_env_vars(e, pairs)
<1>1. CASE over.value # None
  <2>1. pairs = <<<<over.key, over.value>>>>
    BY <1>1 DEF Assigns
  <2>2. Len(pairs) = 1 /\ pairs[1][1] = over.key /\ pairs[1][2] = over.value
    BY <2>1
  <2>. HIDE DEF pairs
  <2>3. Keeps(e, f, Name(pairs, Len(pairs))) /\ (Len(pairs) > 0 => Reads(f, pairs[Len(pairs)][1], pairs[Len(pairs)][2]))
    <3>1. Len(pairs) \in Nat
      BY <2>2
    <3>. QED
      BY <3>1, SetsAll
  <2>4. Name(pairs, 1) = Touched(over)
    BY <1>1, <2>2 DEF Name, Touched
  <2>. HIDE DEF f
  <2>5. Keeps(e, f, Touched(over)) /\ Reads(f, over.key, over.value)
    BY <2>2, <2>3, <2>4
  <2>. QED
    BY <2>5 DEF f, pairs
<1>2. CASE over.value = None
  <2>. DEFINE at == {i \in DOMAIN HostEnv : HostEnv[i][1] \in over.keys}
  <2>1. pairs = Selected(HostEnv, at)
    BY <1>2 DEF Assigns
  <2>. HIDE DEF pairs, at
  <2>2. pairs \in Seq(ToSet(HostEnv)) /\ ToSet(pairs) = {HostEnv[i] : i \in DOMAIN HostEnv \cap at}
    BY <2>1, SelectedFrom
  <2>3. Len(pairs) \in Nat /\ \A i \in 1..Len(pairs) : pairs[i] \in ToSet(pairs)
    BY <2>2 DEF ToSet
  <2>4. \A i \in 1..Len(pairs) : pairs[i][1] \in over.keys
    BY <2>2, <2>3 DEF at
  <2>5. Name(pairs, Len(pairs)) \subseteq Touched(over)
    BY <1>2, <2>4 DEF Name, Touched
  <2>6. Keeps(e, f, Name(pairs, Len(pairs)))
    BY <2>3, SetsAll
  <2>. HIDE DEF f
  <2>7. Keeps(e, f, Touched(over))
    BY <2>5, <2>6, Zenon DEF Keeps
  <2>. QED
    BY <1>2, <2>7 DEF f, pairs
<1>. QED
  BY <1>1, <1>2

(* The last word on a variable is the one it has.                          *)
LEMMA OverridesLand ==
  ASSUME NEW e, Sequence(e), NEW overrides, Len(overrides) \in Nat, DOMAIN overrides = 1..Len(overrides),
         Sequence(HostEnv)
  PROVE  /\ Sequence(apply_env_overrides(e, overrides))
         /\ EnvHas(apply_env_overrides(e, overrides), overrides)
<1>. DEFINE Step(u, n) == set_env_vars(u, Assigns(overrides[n]))
            after[n \in 0..Len(overrides)] == IF n = 0 THEN e ELSE Step(after[n - 1], n)
            Upto == {k \in Nat : \E h : h = [n \in 0..k |-> IF n = 0 THEN e ELSE Step(h[n - 1], n)]}
            Fine == {k \in Nat : k <= Len(overrides) => Sequence(after[k])}
            Since(i) == {k \in Nat : i <= k /\ k <= Len(overrides) =>
                             Keeps(after[i], after[k], AllTouched(overrides, i, k))}
<1>1. apply_env_overrides(e, overrides) = after[Len(overrides)]
  BY DEF apply_env_overrides
<1>2. \A u, n : Sequence(u) =>
          /\ Keeps(u, Step(u, n), Touched(overrides[n]))
          /\ overrides[n].value # None => Reads(Step(u, n), overrides[n].key, overrides[n].value)
  BY OneOverride
<1>. HIDE DEF Step
<1>3. 0 \in Upto
  <2>1. [n \in 0..0 |-> e] = [n \in 0..0 |-> IF n = 0 THEN e ELSE Step([m \in 0..0 |-> e][n - 1], n)]
    OBVIOUS
  <2>. QED
    BY <2>1
<1>4. ASSUME NEW k \in Nat, k \in Upto PROVE k + 1 \in Upto
  <2>1. PICK h : h = [n \in 0..k |-> IF n = 0 THEN e ELSE Step(h[n - 1], n)]
    BY <1>4
  <2>. DEFINE g == [n \in 0..k + 1 |-> IF n = k + 1 THEN Step(h[k], n) ELSE h[n]]
  <2>2. \A n \in 0..k + 1 : g[n] = IF n = 0 THEN e ELSE Step(g[n - 1], n)
    BY <2>1
  <2>3. g = [n \in 0..k + 1 |-> IF n = 0 THEN e ELSE Step(g[n - 1], n)]
    BY <2>2
  <2>. HIDE DEF g
  <2>. QED
    BY <2>3
<1>5. Len(overrides) \in Upto
  <2>. HIDE DEF Upto
  <2>. QED
    BY <1>3, <1>4, Counting
<1>6. after = [n \in 0..Len(overrides) |-> IF n = 0 THEN e ELSE Step(after[n - 1], n)]
  BY <1>5
<1>. HIDE DEF after
<1>7. ASSUME NEW k \in Nat PROVE k \in Fine
  <2>1. 0 \in Fine
    BY <1>6
  <2>2. ASSUME NEW n \in Nat, n \in Fine PROVE n + 1 \in Fine
    BY <2>2, <1>2, <1>6 DEF Keeps
  <2>. HIDE DEF Fine
  <2>. QED
    BY <2>1, <2>2, Counting
<1>8. ASSUME NEW i \in Nat, NEW k \in Nat PROVE k \in Since(i)
  <2>1. 0 \in Since(i)
    BY <1>7 DEF Keeps
  <2>2. ASSUME NEW n \in Nat, n \in Since(i) PROVE n + 1 \in Since(i)
    <3>. SUFFICES ASSUME i <= n + 1, n + 1 <= Len(overrides)
                  PROVE  Keeps(after[i], after[n + 1], AllTouched(overrides, i, n + 1))
      OBVIOUS
    <3>1. CASE i = n + 1
      BY <1>7, <3>1 DEF Keeps
    <3>2. CASE i <= n
      <4>1. Keeps(after[i], after[n], AllTouched(overrides, i, n))
        BY <2>2, <3>2
      <4>2. Keeps(after[n], after[n + 1], Touched(overrides[n + 1]))
        <5>1. n <= Len(overrides) /\ n + 1 \in 0..Len(overrides) /\ n + 1 # 0 /\ (n + 1) - 1 = n
          OBVIOUS
        <5>2. Sequence(after[n])
          BY <1>7, <5>1
        <5>3. after[n + 1] = Step(after[n], n + 1)
          BY <1>6, <5>1
        <5>. QED
          BY <1>2, <5>2, <5>3
      <4>3. /\ AllTouched(overrides, i, n) \subseteq AllTouched(overrides, i, n + 1)
            /\ Touched(overrides[n + 1]) \subseteq AllTouched(overrides, i, n + 1)
        <5>1. i + 1..n \subseteq i + 1..n + 1 /\ n + 1 \in i + 1..n + 1
          BY <3>2
        <5>. QED
          BY <5>1 DEF AllTouched
      <4>. QED
        BY <4>1, <4>2, <4>3, KeepsOn
    <3>. QED
      BY <3>1, <3>2
  <2>. HIDE DEF Since
  <2>. QED
    BY <2>1, <2>2, Counting
<1>9. ASSUME NEW i \in DOMAIN overrides, overrides[i].value # None,
             \A j \in i + 1..Len(overrides) :
                 overrides[j].key # overrides[i].key /\ overrides[i].key \notin overrides[j].keys
      PROVE  Reads(after[Len(overrides)], overrides[i].key, overrides[i].value)
  <2>1. Reads(after[i], overrides[i].key, overrides[i].value)
    <3>1. i - 1 \in Nat /\ i \in 0..Len(overrides) /\ i # 0 /\ i - 1 <= Len(overrides)
      OBVIOUS
    <3>2. after[i] = Step(after[i - 1], i)
      BY <1>6, <3>1
    <3>3. Sequence(after[i - 1])
      BY <1>7, <3>1
    <3>. QED
      BY <1>2, <1>9, <3>2, <3>3
  <2>2. Keeps(after[i], after[Len(overrides)], AllTouched(overrides, i, Len(overrides)))
    BY <1>8
  <2>3. overrides[i].key \notin AllTouched(overrides, i, Len(overrides))
    BY <1>9 DEF AllTouched, Touched
  <2>. QED
    BY <2>1, <2>2, <2>3, Zenon DEF Keeps
<1>10. Sequence(after[Len(overrides)])
  BY <1>7
<1>. QED
  BY <1>1, <1>9, <1>10 DEF EnvHas

(* The container's environment.                                            *)
LEMMA EnvSpecified ==
  ASSUME NEW config, Sequence(config.env), Sequence(HostEnv), Sequence(DefaultEnv),
         NEW o, NEW asked, asked = Asked(o, "env-file", <<>>) \o Asked(o, "env", <<>>),
         Sequence(asked)
  PROVE  EnvHas(SpecEnv(config, o), asked)
<1>. DEFINE kept == KeptEnv(config, o)
            host == IF IsGiven(o, {"env-host"}) THEN set_env_vars(kept, HostEnv) ELSE kept
<1>1. Sequence(kept)
  <2>. DEFINE image == IF config.env = <<>> THEN DefaultEnv ELSE config.env
              at == {i \in DOMAIN image : image[i][1] \notin Asked(o, "unsetenv", {})}
  <2>1. Sequence(image)
    OBVIOUS
  <2>2. kept = IF IsGiven(o, {"unsetenv-all"}) THEN <<>> ELSE Selected(image, at)
    BY DEF KeptEnv
  <2>. HIDE DEF image, at, kept
  <2>3. Sequence(<<>>)
    BY DEF Sequence
  <2>4. Sequence(Selected(image, at))
    <3>1. Selected(image, at) \in Seq(ToSet(image))
      BY <2>1, SelectedFrom
    <3>. DEFINE u == Selected(image, at)
    <3>. HIDE DEF u
    <3>2. u \in Seq(ToSet(u))
      BY <3>1 DEF u, ToSet
    <3>. QED
      BY <3>2 DEF u, Sequence
  <2>. QED
    BY <2>2, <2>3, <2>4
<1>. HIDE DEF kept
<1>2. Sequence(host)
  <2>1. Len(HostEnv) \in Nat
    BY DEF Sequence
  <2>. QED
    BY <1>1, <2>1, SetsAll DEF Keeps
<1>3. SpecEnv(config, o) = apply_env_overrides(host, asked)
  BY DEF SpecEnv, kept
<1>4. Len(asked) \in Nat /\ DOMAIN asked = 1..Len(asked)
  BY DEF Sequence
<1>. HIDE DEF host
<1>. QED
  BY <1>2, <1>3, <1>4, OverridesLand

-----------------------------------------------------------------------------
(* A tmpfs has one option of each pair.                                    *)
NamesOf(options) == {options[i].name : i \in DOMAIN options}

Paired(names) ==
    /\ "exec" \in names <=> "noexec" \notin names
    /\ "suid" \in names <=> "nosuid" \notin names
    /\ "dev" \in names <=> "nodev" \notin names

LEMMA PairsOf ==
  /\ \A n \in {"exec", "noexec"} : PairOf(n) = {"exec", "noexec"}
  /\ \A n \in {"suid", "nosuid"} : PairOf(n) = {"suid", "nosuid"}
  /\ \A n \in {"dev", "nodev"} : PairOf(n) = {"dev", "nodev"}
  /\ \A n \in {"ro", "rw"} : PairOf(n) = {}
  /\ UNION TmpfsPairs = {"exec", "noexec", "suid", "nosuid", "dev", "nodev"}
<1>1. \A n, x : x \in PairOf(n) <=> \E p \in TmpfsPairs : n \in p /\ x \in p
  BY DEF PairOf
<1>2. \A p : p \in TmpfsPairs <=>
                p = {"exec", "noexec"} \/ p = {"suid", "nosuid"} \/ p = {"dev", "nodev"}
  BY DEF TmpfsPairs
<1>3. \A x : x \in UNION TmpfsPairs <=> \E p \in TmpfsPairs : x \in p
  OBVIOUS
<1>. DEFINE A == {"exec", "noexec"}  B == {"suid", "nosuid"}  C == {"dev", "nodev"}
<1>4. \A n, x : x \in PairOf(n) <=>
          (n \in A /\ x \in A) \/ (n \in B /\ x \in B) \/ (n \in C /\ x \in C)
  <2>. HIDE DEF A, B, C
  <2>1. \A p : p \in TmpfsPairs <=> p = A \/ p = B \/ p = C
    BY <1>2 DEF A, B, C
  <2>2. \A n, x : (\E p \in TmpfsPairs : n \in p /\ x \in p) <=>
          (n \in A /\ x \in A) \/ (n \in B /\ x \in B) \/ (n \in C /\ x \in C)
    <3>. SUFFICES ASSUME NEW n, NEW x
                  PROVE  (\E p \in TmpfsPairs : n \in p /\ x \in p) <=>
                         (n \in A /\ x \in A) \/ (n \in B /\ x \in B) \/ (n \in C /\ x \in C)
      OBVIOUS
    <3>1. A \in TmpfsPairs /\ B \in TmpfsPairs /\ C \in TmpfsPairs
      BY <2>1
    <3>2. ASSUME NEW p \in TmpfsPairs, n \in p, x \in p
          PROVE  (n \in A /\ x \in A) \/ (n \in B /\ x \in B) \/ (n \in C /\ x \in C)
      BY <2>1, <3>2
    <3>. QED
      BY <3>1, <3>2
  <2>. QED
    BY <1>1, <2>2
<1>5. UNION TmpfsPairs = A \cup B \cup C
  BY DEF TmpfsPairs
<1>6. /\ \A n \in A : n \notin B /\ n \notin C
      /\ \A n \in B : n \notin A /\ n \notin C
      /\ \A n \in C : n \notin A /\ n \notin B
      /\ \A n \in {"ro", "rw"} : n \notin A /\ n \notin B /\ n \notin C
  OBVIOUS
<1>7. A \cup B \cup C = {"exec", "noexec", "suid", "nosuid", "dev", "nodev"}
  OBVIOUS
<1>. HIDE DEF A, B, C
<1>8. /\ \A n \in A : PairOf(n) = A
      /\ \A n \in B : PairOf(n) = B
      /\ \A n \in C : PairOf(n) = C
      /\ \A n \in {"ro", "rw"} : PairOf(n) = {}
  BY <1>4, <1>6
<1>. QED
  BY <1>5, <1>7, <1>8 DEF A, B, C

LEMMA OptionPaired ==
  ASSUME NEW options, Sequence(options), Paired(NamesOf(options)), NEW opt, TmpfsOptionKnown(opt),
         NEW new, new = TmpfsOption(options, opt)
  PROVE  Sequence(new) /\ Paired(NamesOf(new))
<1>. DEFINE replaced == IF opt.name \in {"size", "mode"} THEN {opt.name} ELSE PairOf(opt.name)
            at == {i \in DOMAIN options : options[i].name \notin replaced}
            u == Selected(options, at)
            entry == [name |-> opt.name,
                      value |-> IF opt.name = "size" THEN parse_memory_limit(opt.value) ELSE opt.value]
<1>1. new = Append(u, entry) /\ entry.name = opt.name
  BY DEF TmpfsOption
<1>. HIDE DEF entry
<1>2. u \in Seq(ToSet(options)) /\ ToSet(u) = {options[i] : i \in DOMAIN options \cap at}
  BY SelectedFrom
<1>. HIDE DEF u, at
<1>3. /\ DOMAIN u = 1..Len(u) /\ Len(u) \in Nat /\ u \in Seq(ToSet(u))
      /\ DOMAIN options = 1..Len(options) /\ Len(options) \in Nat
  BY <1>2 DEF Sequence, ToSet
<1>4. /\ DOMAIN new = 1..Len(u) + 1 /\ Len(new) = Len(u) + 1 /\ new[Len(u) + 1] = entry
      /\ \A i \in 1..Len(u) : new[i] = u[i]
  BY <1>1, <1>3
<1>5. Sequence(new)
  <2>. DEFINE W == ToSet(new)
  <2>1. \A i \in 1..Len(u) + 1 : new[i] \in W
    BY <1>4 DEF ToSet
  <2>2. new \in Seq(ToSet(u) \cup {entry})
    BY <1>1, <1>3
  <2>3. new = [i \in 1..Len(u) + 1 |-> new[i]]
    BY <1>4, <2>2
  <2>. HIDE DEF W
  <2>4. [i \in 1..Len(u) + 1 |-> new[i]] \in Seq(W)
    BY <1>3, <2>1
  <2>. QED
    BY <2>3, <2>4 DEF Sequence, W
<1>6. \A n : n \in NamesOf(u) <=> n \in NamesOf(options) /\ n \notin replaced
  <2>1. \A x : (\E i \in DOMAIN u : u[i] = x) <=> (\E i \in DOMAIN options \cap at : options[i] = x)
    BY <1>2 DEF ToSet
  <2>. HIDE DEF replaced
  <2>2. \A n : n \in NamesOf(u) <=> \E i \in DOMAIN u : u[i].name = n
    BY Zenon DEF NamesOf
  <2>3. \A n : n \in NamesOf(options) <=> \E i \in DOMAIN options : options[i].name = n
    BY Zenon DEF NamesOf
  <2>4. \A i : i \in at <=> i \in DOMAIN options /\ options[i].name \notin replaced
    BY DEF at
  <2>. HIDE DEF at
  <2>5. ASSUME NEW n \in NamesOf(u) PROVE n \in NamesOf(options) /\ n \notin replaced
    <3>1. PICK i \in DOMAIN u : u[i].name = n
      BY <2>2, <2>5, Zenon
    <3>2. PICK k \in DOMAIN options \cap at : options[k] = u[i]
      BY <2>1, Zenon
    <3>. QED
      BY <2>3, <2>4, <3>1, <3>2
  <2>6. ASSUME NEW n \in NamesOf(options), n \notin replaced PROVE n \in NamesOf(u)
    <3>1. PICK k \in DOMAIN options : options[k].name = n
      BY <2>3, <2>6, Zenon
    <3>2. k \in DOMAIN options \cap at
      BY <2>4, <2>6, <3>1
    <3>3. PICK i \in DOMAIN u : u[i] = options[k]
      BY <2>1, <3>2, Zenon
    <3>. QED
      BY <2>2, <3>1, <3>3
  <2>. QED
    BY <2>5, <2>6, Zenon
<1>7. \A n : n \in NamesOf(new) <=> n \in NamesOf(u) \/ n = opt.name
  BY <1>1, <1>3, <1>4 DEF NamesOf
<1>8. \A n : n \in NamesOf(new) <=> (n \in NamesOf(options) /\ n \notin replaced) \/ n = opt.name
  BY <1>6, <1>7
<1>9. opt.name \in {"size", "mode", "ro", "rw", "exec", "noexec", "suid", "nosuid", "dev", "nodev"}
  BY PairsOf DEF TmpfsOptionKnown
<1>10. /\ opt.name \in {"size", "mode"} => replaced = {opt.name}
       /\ opt.name \notin {"size", "mode"} => replaced = PairOf(opt.name)
  OBVIOUS
<1>. HIDE DEF replaced
<1>11. Paired(NamesOf(new))
  <2>1. CASE opt.name \in {"size", "mode"}
    BY <2>1, <1>8, <1>10 DEF Paired
  <2>2. CASE opt.name \in {"ro", "rw"}
    BY <2>2, <1>8, <1>10, PairsOf DEF Paired
  <2>3. CASE opt.name \in {"exec", "noexec"}
    <3>1. replaced = {"exec", "noexec"}
      BY <2>3, <1>10, PairsOf
    <3>. QED
      BY <2>3, <3>1, <1>8 DEF Paired
  <2>4. CASE opt.name \in {"suid", "nosuid"}
    <3>1. replaced = {"suid", "nosuid"}
      BY <2>4, <1>10, PairsOf
    <3>. QED
      BY <2>4, <3>1, <1>8 DEF Paired
  <2>5. CASE opt.name \in {"dev", "nodev"}
    <3>1. replaced = {"dev", "nodev"}
      BY <2>5, <1>10, PairsOf
    <3>. QED
      BY <2>5, <3>1, <1>8 DEF Paired
  <2>. QED
    BY <1>9, <2>1, <2>2, <2>3, <2>4, <2>5
<1>. QED
  BY <1>5, <1>11

TmpfsMade(m, destination) ==
    /\ m.kind = "tmpfs" /\ m.destination = destination
    /\ Sequence(m.options) /\ Paired(NamesOf(m.options))

LEMMA TmpfsParsed ==
  ASSUME NEW v, Sequence(v.options), parse_tmpfs_mount(v) # Invalid
  PROVE  /\ TmpfsMade(parse_tmpfs_mount(v), v.destination)
         /\ parse_tmpfs_mount(v).source = "tmpfs"
<1>. DEFINE Step(u, n) == TmpfsOption(u, v.options[n])
            after[n \in 0..Len(v.options)] == IF n = 0 THEN TmpfsDefaults ELSE Step(after[n - 1], n)
            Upto == {k \in Nat : \E h : h = [n \in 0..k |-> IF n = 0 THEN TmpfsDefaults ELSE Step(h[n - 1], n)]}
            Good(options) == Sequence(options) /\ Paired(NamesOf(options))
            Fine == {k \in Nat : k <= Len(v.options) => Good(after[k])}
<1>1. /\ parse_tmpfs_mount(v) = [kind |-> "tmpfs", destination |-> v.destination, source |-> "tmpfs",
                                  options |-> after[Len(v.options)]]
      /\ \A opt \in ToSet(v.options) : TmpfsOptionKnown(opt)
  BY DEF parse_tmpfs_mount
<1>0. /\ Len(v.options) \in Nat
      /\ \A n \in 1..Len(v.options) : TmpfsOptionKnown(v.options[n])
  BY <1>1 DEF Sequence, ToSet
<1>2. \A u : \A n \in 1..Len(v.options) : Good(u) => Good(Step(u, n))
  BY <1>0, OptionPaired
<1>2a. Good(TmpfsDefaults)
  <2>1. /\ TmpfsDefaults \in Seq(ToSet(TmpfsDefaults)) /\ DOMAIN TmpfsDefaults = 1..4
        /\ TmpfsDefaults[1].name = "noexec" /\ TmpfsDefaults[2].name = "nosuid"
        /\ TmpfsDefaults[3].name = "nodev" /\ TmpfsDefaults[4].name = "rprivate"
    BY DEF TmpfsDefaults, Plain, ToSet
  <2>2. NamesOf(TmpfsDefaults) = {"noexec", "nosuid", "nodev", "rprivate"}
    <3>1. \A n : n \in NamesOf(TmpfsDefaults) <=> \E i \in 1..4 : n = TmpfsDefaults[i].name
      BY <2>1 DEF NamesOf
    <3>. QED
      BY <2>1, <3>1
  <2>. QED
    BY <2>1, <2>2 DEF Paired, Sequence
<1>. HIDE DEF Step, Good
<1>3. 0 \in Upto
  <2>1. [n \in 0..0 |-> TmpfsDefaults] = [n \in 0..0 |-> IF n = 0 THEN TmpfsDefaults ELSE Step([m \in 0..0 |-> TmpfsDefaults][n - 1], n)]
    OBVIOUS
  <2>. QED
    BY <2>1
<1>4. ASSUME NEW k \in Nat, k \in Upto PROVE k + 1 \in Upto
  <2>1. PICK h : h = [n \in 0..k |-> IF n = 0 THEN TmpfsDefaults ELSE Step(h[n - 1], n)]
    BY <1>4
  <2>. DEFINE g == [n \in 0..k + 1 |-> IF n = k + 1 THEN Step(h[k], n) ELSE h[n]]
  <2>2. \A n \in 0..k + 1 : g[n] = IF n = 0 THEN TmpfsDefaults ELSE Step(g[n - 1], n)
    BY <2>1
  <2>3. g = [n \in 0..k + 1 |-> IF n = 0 THEN TmpfsDefaults ELSE Step(g[n - 1], n)]
    BY <2>2
  <2>. HIDE DEF g
  <2>. QED
    BY <2>3
<1>5. Len(v.options) \in Upto
  <2>. HIDE DEF Upto
  <2>. QED
    BY <1>0, <1>3, <1>4, Counting
<1>6. after = [n \in 0..Len(v.options) |-> IF n = 0 THEN TmpfsDefaults ELSE Step(after[n - 1], n)]
  BY <1>5
<1>. HIDE DEF after
<1>7. 0 \in Fine
  BY <1>0, <1>2a, <1>6
<1>8. ASSUME NEW k \in Nat, k \in Fine PROVE k + 1 \in Fine
  <2>. SUFFICES ASSUME k + 1 <= Len(v.options) PROVE Good(after[k + 1])
    OBVIOUS
  <2>1. after[k + 1] = Step(after[k], k + 1) /\ Good(after[k]) /\ k + 1 \in 1..Len(v.options)
    BY <1>0, <1>6, <1>8
  <2>. QED
    BY <1>2, <2>1
<1>9. Good(after[Len(v.options)])
  <2>1. Len(v.options) \in Fine
    <3>. HIDE DEF Fine
    <3>. QED
      BY <1>0, <1>7, <1>8, Counting
  <2>. QED
    BY <1>0, <2>1
<1>. QED
  BY <1>1, <1>9 DEF TmpfsMade, Good

(* ... and its place is not that of another mount.                         *)
LEMMA PairOnce ==
  ASSUME NEW names, NEW pair, NEW a, NEW b, pair = {a, b}, a # b, a \in names <=> b \notin names
  PROVE  Cardinality(pair \cap names) = 1
<1>1. PICK x : pair \cap names = {x}
  <2>1. CASE a \in names
    <3>1. pair \cap names = {a}
      BY <2>1
    <3>. QED
      BY <3>1
  <2>2. CASE a \notin names
    <3>1. pair \cap names = {b}
      BY <2>2
    <3>. QED
      BY <3>1
  <2>. QED
    BY <2>1, <2>2
<1>. QED
  BY <1>1, FS_Singleton

LEMMA MountsApart ==
  ASSUME NEW o, Sequence(Asked(o, "volume", <<>>)), Sequence(Asked(o, "tmpfs", <<>>)),
         \A i \in DOMAIN Asked(o, "tmpfs", <<>>) : Sequence(Asked(o, "tmpfs", <<>>)[i].options),
         VolumeMounts(o) # Invalid, TmpfsMounts(o) # Invalid
  PROVE  TmpfsConsistent(VolumeMounts(o) \o TmpfsMounts(o))
<1>. DEFINE volumes == Asked(o, "volume", <<>>)
            tmpfs == Asked(o, "tmpfs", <<>>)
            V == [i \in DOMAIN volumes |-> parse_volume(volumes[i])]
            T == [i \in DOMAIN tmpfs |-> parse_tmpfs_mount(tmpfs[i])]
            firsts == {i \in DOMAIN T : \A j \in 1..i - 1 : T[j] # T[i]}
            U == Selected(T, firsts)
            all == V \o U
<1>1. /\ DOMAIN volumes = 1..Len(volumes) /\ Len(volumes) \in Nat
      /\ DOMAIN tmpfs = 1..Len(tmpfs) /\ Len(tmpfs) \in Nat
  BY DEF Sequence
<1>2. /\ VolumeMounts(o) = V
      /\ \A i \in DOMAIN volumes : V[i].kind = "bind" /\ V[i].destination = volumes[i].container
  <2>1. \A i \in DOMAIN volumes : o["volume"][i] = volumes[i]
    BY DEF Asked
  <2>2. V = [i \in DOMAIN volumes |-> parse_volume(o["volume"][i])]
    BY <2>1
  <2>3. VolumeMounts(o) = IF Invalid \in ToSet(V) THEN Invalid ELSE V
    BY <2>2 DEF VolumeMounts
  <2>4. VolumeMounts(o) = V /\ Invalid \notin ToSet(V)
    BY <2>3
  <2>5. \A i \in DOMAIN volumes : V[i] = parse_volume(volumes[i]) /\ V[i] # Invalid
    BY <2>4 DEF ToSet
  <2>. QED
    BY <2>4, <2>5 DEF parse_volume
<1>3. /\ TmpfsMounts(o) = U /\ Invalid \notin ToSet(T)
      /\ \A m \in ToSet(T) : m.destination \notin {v.container : v \in ToSet(volumes)}
      /\ \A m, n \in ToSet(T) : m.destination = n.destination => m = n
  <2>1. \A i \in DOMAIN tmpfs : o["tmpfs"][i] = tmpfs[i]
    BY DEF Asked
  <2>2. T = [i \in DOMAIN tmpfs |-> parse_tmpfs_mount(o["tmpfs"][i])]
    BY <2>1
  <2>. QED
    BY <2>2 DEF TmpfsMounts
<1>4. Sequence(T)
  BY <1>1 DEF Sequence, ToSet
<1>5. \A m \in ToSet(T) : m.kind = "tmpfs" /\ Paired(NamesOf(m.options))
  <2>1. \A i \in DOMAIN tmpfs : T[i] = parse_tmpfs_mount(tmpfs[i]) /\ T[i] # Invalid
    BY <1>3 DEF ToSet
  <2>2. \A i \in DOMAIN tmpfs : TmpfsMade(T[i], tmpfs[i].destination)
    BY <2>1, TmpfsParsed
  <2>. QED
    BY <2>2 DEF ToSet, TmpfsMade
<1>. HIDE DEF T, V
<1>6. U \in Seq(ToSet(T))
  BY <1>4, SelectedFrom
<1>7. \A j, k \in 1..Len(U) : U[j] = U[k] => j = k
  <2>. HIDE DEF U
  <2>1. U = Selected(T, {i \in DOMAIN T : \A j \in 1..i - 1 : T[j] # T[i]})
    BY DEF U
  <2>. QED
    BY <1>4, <2>1, FirstsDiffer
<1>. HIDE DEF U
<1>8. /\ V \in Seq(ToSet(V)) /\ DOMAIN V = DOMAIN volumes /\ Len(V) = Len(volumes)
  BY <1>1 DEF V, ToSet
<1>9. /\ DOMAIN all = 1..Len(V) + Len(U) /\ Len(V) \in Nat /\ Len(U) \in Nat
      /\ \A i \in 1..Len(V) : all[i] = V[i]
      /\ \A i \in 1..Len(U) : all[i + Len(V)] = U[i]
  BY <1>6, <1>8
<1>10. \A i \in 1..Len(U) : U[i] \in ToSet(T)
  BY <1>6
<1>. HIDE DEF all
<1>11. \A i \in DOMAIN all : all[i].kind = "tmpfs" =>
           i - Len(V) \in 1..Len(U) /\ all[i] = U[i - Len(V)]
  <2>1. \A i \in 1..Len(V) : all[i].kind = "bind"
    BY <1>1, <1>2, <1>8, <1>9
  <2>2. \A i \in DOMAIN all : i \in 1..Len(V) \/ (i - Len(V) \in 1..Len(U) /\ (i - Len(V)) + Len(V) = i)
    BY <1>9
  <2>. QED
    BY <1>9, <2>1, <2>2
<1>12. ASSUME NEW i \in DOMAIN all, all[i].kind = "tmpfs", NEW j \in DOMAIN all \ {i}
       PROVE  all[j].destination # all[i].destination
  <2>1. i - Len(V) \in 1..Len(U) /\ all[i] = U[i - Len(V)]
    BY <1>11, <1>12
  <2>2. CASE j \in 1..Len(V)
    <3>1. all[j].destination = volumes[j].container /\ volumes[j] \in ToSet(volumes)
      BY <1>1, <1>2, <1>8, <1>9, <2>2 DEF ToSet
    <3>. QED
      BY <1>3, <1>10, <2>1, <3>1
  <2>3. CASE j \notin 1..Len(V)
    <3>1. j - Len(V) \in 1..Len(U) /\ all[j] = U[j - Len(V)] /\ j - Len(V) # i - Len(V)
      BY <1>9, <2>3
    <3>2. U[j - Len(V)] # U[i - Len(V)]
      BY <1>7, <2>1, <3>1
    <3>. QED
      BY <1>3, <1>10, <2>1, <3>1, <3>2
  <2>. QED
    BY <2>2, <2>3
<1>13. ASSUME NEW i \in DOMAIN all, all[i].kind = "tmpfs", NEW pair \in TmpfsPairs
       PROVE  Cardinality(pair \cap {opt.name : opt \in ToSet(all[i].options)}) = 1
  <2>1. all[i] \in ToSet(T)
    BY <1>10, <1>11, <1>13
  <2>2. Paired(NamesOf(all[i].options))
    BY <1>5, <2>1
  <2>3. {opt.name : opt \in ToSet(all[i].options)} = NamesOf(all[i].options)
    BY DEF ToSet, NamesOf
  <2>. DEFINE names == NamesOf(all[i].options)
  <2>. HIDE DEF names
  <2>4. PICK a, b : pair = {a, b} /\ a # b /\ (a \in names <=> b \notin names)
    BY <2>2 DEF TmpfsPairs, Paired, names
  <2>. QED
    BY <2>3, <2>4, PairOnce DEF names
<1>14. TmpfsConsistent(all)
  BY <1>12, <1>13 DEF TmpfsConsistent
<1>. QED
  BY <1>2, <1>3, <1>14 DEF all

-----------------------------------------------------------------------------
(* The words of a health check survive being joined and parsed again.      *)
IsFlat(seqs, f) ==
    f = [i \in 1..Len(seqs) |-> IF i = 1 THEN seqs[i] ELSE f[i - 1] \o seqs[i]]

LEMMA Flattens ==
  ASSUME NEW seqs, Len(seqs) \in Nat, Len(seqs) # 0
  PROVE  \E f : IsFlat(seqs, f) /\ FlattenSeq(seqs) = f[Len(seqs)]
<1>. DEFINE Step(u, n) == u \o seqs[n]
            flatten[i \in 1..Len(seqs)] == IF i = 1 THEN seqs[i] ELSE Step(flatten[i - 1], i)
            Upto == {k \in Nat : \E h : h = [i \in 1..k |-> IF i = 1 THEN seqs[i] ELSE Step(h[i - 1], i)]}
<1>1. FlattenSeq(seqs) = flatten[Len(seqs)]
  BY DEF FlattenSeq
<1>. HIDE DEF Step
<1>3. 0 \in Upto
  <2>1. [i \in 1..0 |-> seqs[i]] = [i \in 1..0 |-> IF i = 1 THEN seqs[i] ELSE Step([j \in 1..0 |-> seqs[j]][i - 1], i)]
    OBVIOUS
  <2>. QED
    BY <2>1
<1>4. ASSUME NEW k \in Nat, k \in Upto PROVE k + 1 \in Upto
  <2>1. PICK h : h = [i \in 1..k |-> IF i = 1 THEN seqs[i] ELSE Step(h[i - 1], i)]
    BY <1>4
  <2>. DEFINE g == [i \in 1..k + 1 |-> IF i = 1 THEN seqs[i] ELSE IF i = k + 1 THEN Step(h[k], i) ELSE h[i]]
  <2>2. \A i \in 1..k + 1 : g[i] = IF i = 1 THEN seqs[i] ELSE Step(g[i - 1], i)
    BY <2>1
  <2>3. g = [i \in 1..k + 1 |-> IF i = 1 THEN seqs[i] ELSE Step(g[i - 1], i)]
    BY <2>2
  <2>. HIDE DEF g
  <2>. QED
    BY <2>3
<1>5. Len(seqs) \in Upto
  <2>. HIDE DEF Upto
  <2>. QED
    BY <1>3, <1>4, Counting
<1>6. flatten = [i \in 1..Len(seqs) |-> IF i = 1 THEN seqs[i] ELSE Step(flatten[i - 1], i)]
  BY <1>5
<1>7. IsFlat(seqs, flatten)
  <2>. HIDE DEF flatten
  <2>. QED
    BY <1>6 DEF IsFlat, Step
<1>. HIDE DEF flatten
<1>. QED
  BY <1>1, <1>7

Joins(a, b) == a \o b

LEMMA JoinsAssociate ==
  \A W : \A a, b, c \in Seq(W) :
      Joins(a, b) \in Seq(W) /\ Joins(Joins(a, b), c) = Joins(a, Joins(b, c))
<1>. SUFFICES ASSUME NEW W, NEW a \in Seq(W), NEW b \in Seq(W), NEW c \in Seq(W)
              PROVE  a \o b \in Seq(W) /\ (a \o b) \o c = a \o (b \o c)
  BY DEF Joins
<1>1. (a \o b) \o c = a \o (b \o c)
  BY ConcatAssociative
<1>2. a \o b \in Seq(W)
  OBVIOUS
<1>. QED
  BY <1>1, <1>2

LEMMA JoinsNothing == \A W : \A a \in Seq(W) : Joins(a, <<>>) = a /\ Joins(<<>>, a) = a
  BY DEF Joins

(* Each place of f joins the sequence there to the place before.           *)
Runs(seqs, n, f) == f[1] = seqs[1] /\ \A i \in 2..n : f[i] = Joins(f[i - 1], seqs[i])

LEMMA FlatAt ==
  ASSUME NEW seqs, Len(seqs) \in Nat, Len(seqs) # 0, NEW f, IsFlat(seqs, f)
  PROVE  Runs(seqs, Len(seqs), f)
<1>. DEFINE n == Len(seqs)
<1>1. \A i \in 1..n : f[i] = IF i = 1 THEN seqs[i] ELSE f[i - 1] \o seqs[i]
  BY DEF IsFlat
<1>2. f[1] = seqs[1]
  BY <1>1
<1>3. ASSUME NEW i \in 2..n PROVE f[i] = f[i - 1] \o seqs[i]
  <2>1. i \in 1..n /\ i # 1
    OBVIOUS
  <2>. QED
    BY <1>1, <2>1
<1>. QED
  BY <1>2, <1>3 DEF Joins, Runs

Starts(W, a, rest, n, f) ==
    /\ a \in Seq(W) /\ f[1] = a
    /\ \A i \in 1..n : rest[i] \in Seq(W) /\ f[i + 1] = Joins(f[i], rest[i])

LEMMA FlatFromSecond ==
  ASSUME NEW W, NEW a, NEW rest, NEW n \in Nat, n > 0, NEW f, NEW g,
         Starts(W, a, rest, n, f), Runs(rest, n, g)
  PROVE  g[n] \in Seq(W) /\ f[n + 1] = Joins(a, g[n])
<1>. DEFINE Fine == {k \in Nat : k + 1 <= n => g[k + 1] \in Seq(W) /\ f[(k + 1) + 1] = Joins(a, g[k + 1])}
<1>0. g[1] = rest[1] /\ \A i \in 2..n : g[i] = Joins(g[i - 1], rest[i])
  BY DEF Runs
<1>5. /\ a \in Seq(W) /\ f[1] = a
      /\ \A i \in 1..n : rest[i] \in Seq(W) /\ f[i + 1] = Joins(f[i], rest[i])
  BY DEF Starts
<1>1. 0 \in Fine
  BY <1>0, <1>5
<1>2. ASSUME NEW k \in Nat, k \in Fine PROVE k + 1 \in Fine
  <2>. DEFINE j == k + 1
  <2>. SUFFICES ASSUME j + 1 <= n
                PROVE  g[j + 1] \in Seq(W) /\ f[(j + 1) + 1] = Joins(a, g[j + 1])
    OBVIOUS
  <2>1. g[j] \in Seq(W) /\ f[j + 1] = Joins(a, g[j])
    BY <1>2
  <2>2. j + 1 \in 1..n /\ j + 1 \in 2..n /\ (j + 1) - 1 = j
    OBVIOUS
  <2>. HIDE DEF j
  <2>3. rest[j + 1] \in Seq(W) /\ g[j + 1] = Joins(g[j], rest[j + 1])
        /\ f[(j + 1) + 1] = Joins(f[j + 1], rest[j + 1])
    BY <1>0, <1>5, <2>2
  <2>4. /\ Joins(g[j], rest[j + 1]) \in Seq(W)
        /\ Joins(Joins(a, g[j]), rest[j + 1]) = Joins(a, Joins(g[j], rest[j + 1]))
    <3>. DEFINE b == g[j]
                c == rest[j + 1]
    <3>1. a \in Seq(W) /\ b \in Seq(W) /\ c \in Seq(W)
      BY <1>5, <2>1, <2>3
    <3>. HIDE DEF b, c
    <3>2. Joins(b, c) \in Seq(W) /\ Joins(Joins(a, b), c) = Joins(a, Joins(b, c))
      BY ONLY <3>1, JoinsAssociate
    <3>. QED
      BY <3>2 DEF b, c
  <2>. QED
    BY <2>1, <2>3, <2>4
<1>3. \A k \in Nat : k \in Fine
  <2>. HIDE DEF Fine
  <2>. QED
    BY <1>1, <1>2, Counting
<1>4. n - 1 \in Nat /\ (n - 1) + 1 = n /\ n <= n
  OBVIOUS
<1>. QED
  BY <1>3, <1>4

(* The words of texts put together after a first text.                     *)
LEMMA FlattenAfter ==
  ASSUME NEW W, NEW seqs, seqs \in Seq(Seq(W)), Len(seqs) > 0
  PROVE  /\ FlattenSeq(seqs) = Joins(seqs[1], FlattenSeq(Tail(seqs)))
         /\ FlattenSeq(Tail(seqs)) \in Seq(W)
<1>. DEFINE rest == Tail(seqs)
            n == Len(rest)
            n1 == n + 1
<1>2. /\ rest \in Seq(Seq(W)) /\ Len(seqs) = n1 /\ n \in Nat /\ n1 \in Nat /\ n1 > 0
      /\ \A i \in 1..n : rest[i] = seqs[i + 1] /\ rest[i] \in Seq(W)
      /\ seqs[1] \in Seq(W)
  OBVIOUS
<1>0. Len(seqs) \in Nat /\ Len(seqs) # 0
  BY <1>2
<1>1. PICK f : IsFlat(seqs, f) /\ FlattenSeq(seqs) = f[Len(seqs)]
  BY <1>0, Flattens
<1>. HIDE DEF rest
<1>3. f[1] = seqs[1] /\ \A i \in 2..n1 : f[i] = Joins(f[i - 1], seqs[i])
  <2>1. Runs(seqs, Len(seqs), f)
    BY <1>0, <1>1, FlatAt
  <2>. QED
    BY <1>2, <2>1 DEF Runs
<1>4. \A i \in 1..n : f[i + 1] = Joins(f[i], rest[i])
  <2>. TAKE i \in 1..n
  <2>1. i + 1 \in 2..n1 /\ (i + 1) - 1 = i
    BY <1>2
  <2>. QED
    BY <1>2, <1>3, <2>1
<1>5. CASE n = 0
  <2>1. rest = <<>>
    BY <1>2, <1>5
  <2>2. FlattenSeq(<<>>) = <<>>
    BY DEF FlattenSeq
  <2>3. Joins(seqs[1], <<>>) = seqs[1] /\ <<>> \in Seq(W)
    BY <1>2, JoinsNothing
  <2>4. FlattenSeq(rest) = <<>>
    BY <2>1, <2>2
  <2>5. FlattenSeq(seqs) = seqs[1]
    BY <1>1, <1>2, <1>3, <1>5
  <2>6. FlattenSeq(seqs) = Joins(seqs[1], FlattenSeq(rest)) /\ FlattenSeq(rest) \in Seq(W)
    BY <2>3, <2>4, <2>5
  <2>. QED
    BY <2>6 DEF rest
<1>6. CASE n # 0
  <2>0. Len(rest) \in Nat /\ Len(rest) # 0
    BY <1>2, <1>6
  <2>1. PICK g : IsFlat(rest, g) /\ FlattenSeq(rest) = g[n]
    BY <2>0, Flattens
  <2>2. n > 0 /\ n = Len(rest) /\ n \in Nat
    BY <1>2, <1>6
  <2>. HIDE DEF n
  <2>3. Runs(rest, n, g)
    BY <2>0, <2>1, <2>2, FlatAt
  <2>7. \A i \in 1..n : rest[i] \in Seq(W)
    BY <1>2
  <2>8. seqs[1] \in Seq(W) /\ f[1] = seqs[1]
    BY <1>2, <1>3
  <2>4. g[n] \in Seq(W) /\ f[n + 1] = Joins(seqs[1], g[n])
    <3>. DEFINE a == seqs[1]
    <3>1. Starts(W, a, rest, n, f)
      BY <1>4, <2>7, <2>8 DEF Starts
    <3>. HIDE DEF a
    <3>2. g[n] \in Seq(W) /\ f[n + 1] = Joins(a, g[n])
      BY <2>2, <2>3, <3>1, FlatFromSecond
    <3>. QED
      BY <3>2 DEF a
  <2>. QED
    BY <1>1, <1>2, <2>1, <2>4 DEF rest
<1>. QED
  BY <1>5, <1>6

(* Words taken one by one, and put together again.                         *)
LEMMA FlattenWords ==
  ASSUME NEW W, NEW x \in Seq(W), NEW singles, singles = [i \in DOMAIN x |-> <<x[i]>>]
  PROVE  FlattenSeq(singles) = x
<1>. DEFINE n == Len(x)
<1>1. /\ DOMAIN x = 1..n /\ n \in Nat /\ Len(singles) = n
      /\ \A i \in 1..n : singles[i] = <<x[i]>> /\ x[i] \in W
  OBVIOUS
<1>2. CASE n = 0
  <2>1. x = <<>>
    BY <1>1, <1>2
  <2>2. singles = <<>>
    BY <1>1, <1>2
  <2>3. FlattenSeq(<<>>) = <<>>
    BY DEF FlattenSeq
  <2>. QED
    BY <2>1, <2>2, <2>3
<1>3. CASE n # 0
  <2>0. Len(singles) \in Nat /\ Len(singles) # 0
    BY <1>1, <1>3
  <2>1. PICK f : IsFlat(singles, f) /\ FlattenSeq(singles) = f[Len(singles)]
    BY <2>0, Flattens
  <2>2. n > 0 /\ n \in Nat /\ n = Len(singles)
    BY <1>1, <1>3
  <2>3. f[1] = singles[1] /\ \A i \in 2..n : f[i] = Joins(f[i - 1], singles[i])
    <3>1. Runs(singles, Len(singles), f)
      BY <2>0, <2>1, FlatAt
    <3>. QED
      BY <2>2, <3>1 DEF Runs
  <2>. DEFINE Fine == {k \in Nat : k + 1 <= n => f[k + 1] = SubSeq(x, 1, k + 1)}
  <2>4. 0 \in Fine
    <3>2. SubSeq(x, 1, 1) = [i \in 1..1 |-> x[i]]
      BY <1>1, <2>2
    <3>4. <<x[1]>> = [i \in 1..1 |-> x[i]]
      OBVIOUS
    <3>1. SubSeq(x, 1, 1) = <<x[1]>>
      BY <3>2, <3>4
    <3>3. f[0 + 1] = SubSeq(x, 1, 0 + 1)
      BY <1>1, <2>2, <2>3, <3>1
    <3>. QED
      BY <3>3
  <2>5. ASSUME NEW k \in Nat, k \in Fine PROVE k + 1 \in Fine
    <3>. DEFINE j == k + 1
    <3>. SUFFICES ASSUME j + 1 <= n PROVE f[j + 1] = SubSeq(x, 1, j + 1)
      OBVIOUS
    <3>1. f[j] = SubSeq(x, 1, j)
      BY <1>1, <2>5
    <3>2. j \in Nat /\ j + 1 \in 2..n /\ (j + 1) - 1 = j /\ j + 1 \in 1..n
      BY <1>1
    <3>. HIDE DEF j
    <3>3. f[j + 1] = Joins(SubSeq(x, 1, j), <<x[j + 1]>>)
      BY <1>1, <2>3, <3>1, <3>2
    <3>4. Joins(SubSeq(x, 1, j), <<x[j + 1]>>) = SubSeq(x, 1, j + 1)
      BY <1>1, <3>2 DEF Joins
    <3>. QED
      BY <3>3, <3>4
  <2>6. \A k \in Nat : k \in Fine
    <3>. HIDE DEF Fine
    <3>. QED
      BY <2>4, <2>5, Counting
  <2>7. n - 1 \in Nat /\ (n - 1) + 1 = n /\ n <= n
    BY <1>1, <2>2
  <2>8. f[n] = SubSeq(x, 1, n)
    BY <2>6, <2>7
  <2>9. SubSeq(x, 1, n) = x
    BY <1>1
  <2>. QED
    BY <2>1, <2>2, <2>8, <2>9
<1>. QED
  BY <1>2, <1>3
LEMMA TailIs ==
  ASSUME NEW V, NEW s, s \in Seq(V), Len(s) > 0
  PROVE  /\ Tail(s) \in Seq(V) /\ Len(Tail(s)) = Len(s) - 1
         /\ \A i \in 1..Len(s) - 1 : Tail(s)[i] = s[i + 1]
  BY HeadTailProperties

LEMMA OneLong ==
  ASSUME NEW V, NEW s, s \in Seq(V), Len(s) = 1
  PROVE  s = <<s[1]>>
<1>1. s[1] \in V
  OBVIOUS
<1>2. <<s[1]>> \in Seq(V) /\ Len(<<s[1]>>) = 1 /\ <<s[1]>>[1] = s[1]
  BY <1>1
<1>3. \A i \in 1..Len(s) : s[i] = <<s[1]>>[i]
  BY <1>2
<1>. QED
  BY <1>2, <1>3, SeqEqual

LEMMA NoneLong == ASSUME NEW V, NEW s, s \in Seq(V), Len(s) = 0 PROVE s = <<>>
  OBVIOUS

(* A text parsed again is what its first word says.                        *)
Reparsed(text) == parse_health_cmd_test([json |-> FALSE, parts |-> text])
Singles(x) == [i \in DOMAIN x |-> <<x[i]>>]

LEMMA ReparsedIs ==
  ASSUME NEW W, NEW text \in Seq(W), Len(text) > 0
  PROVE  /\ text = NONE => Reparsed(text) = <<NONE>>
         /\ text[1] = "CMD" => Reparsed(text) = Singles(text)
         /\ text[1] = "CMD-SHELL" /\ Len(text) > 1 => Reparsed(text) = <<CMD_SHELL, Tail(text)>>
<1>. DEFINE arr == SplitOnce(text)
            result == IF arr = <<>> THEN Invalid
                      ELSE IF arr[1] = NONE THEN <<NONE>>
                      ELSE IF arr[1] = CMD THEN Singles(text)
                      ELSE IF arr[1] = CMD_SHELL THEN arr ELSE <<CMD_SHELL, text>>
<1>1. Reparsed(text) = result
  BY DEF Reparsed, parse_health_cmd_test, Singles
<1>2. \A c : SubSeq(text, 1, 1) = <<text[1]>>
  <2>1. SubSeq(text, 1, 1) = [i \in 1..1 |-> text[i]]
    OBVIOUS
  <2>2. <<text[1]>> = [i \in 1..1 |-> text[i]]
    OBVIOUS
  <2>. QED
    BY <2>1, <2>2
<1>3. arr = IF Len(text) <= 1 THEN <<text>> ELSE <<<<text[1]>>, Tail(text)>>
  BY <1>2 DEF SplitOnce
<1>4. Len(text) <= 1 => text = <<text[1]>>
  <2>0. Len(text) \in Nat
    OBVIOUS
  <2>2. \A k \in Nat : k > 0 /\ k <= 1 => k = 1
    OBVIOUS
  <2>1. Len(text) <= 1 => Len(text) = 1
    BY <2>0, <2>2
  <2>. QED
    BY <2>1, OneLong
<1>. HIDE DEF arr
<1>5. arr # <<>> /\ arr[1] = <<text[1]>>
  BY <1>3, <1>4
<1>6. Len(text) > 1 => arr = <<<<text[1]>>, Tail(text)>>
  BY <1>3
<1>7. text = NONE => text[1] = "NONE"
  BY DEF NONE
<1>8. text[1] = "NONE" => result = <<NONE>>
  BY <1>5 DEF NONE
<1>9. text[1] = "CMD" => result = Singles(text)
  <2>1. text[1] = "CMD" => arr[1] = CMD /\ CMD # NONE
    BY <1>5 DEF CMD, NONE
  <2>. QED
    BY <1>5, <2>1
<1>10. text[1] = "CMD-SHELL" /\ Len(text) > 1 => result = <<CMD_SHELL, Tail(text)>>
  <2>1. text[1] = "CMD-SHELL" => arr[1] = CMD_SHELL /\ CMD_SHELL # NONE /\ CMD_SHELL # CMD
    BY <1>5 DEF CMD, NONE, CMD_SHELL
  <2>2. text[1] = "CMD-SHELL" /\ Len(text) > 1 => arr = <<CMD_SHELL, Tail(text)>>
    BY <1>6 DEF CMD_SHELL
  <2>. QED
    BY <1>5, <2>1, <2>2
<1>. HIDE DEF result
<1>. QED
  BY <1>1, <1>7, <1>8, <1>9, <1>10

(* What a text of words, or of a command line, runs.                       *)
LEMMA WordsRun ==
  ASSUME NEW test, Len(test) \in Nat, Len(test) > 0, test[1] = CMD
  PROVE  HealthWords(test) = FlattenSeq(Tail(test))
<1>1. test # <<>>
  OBVIOUS
<1>2. test # <<NONE>> /\ test[1] # CMD_SHELL
  BY DEF CMD, NONE, CMD_SHELL
<1>3. healthcheck_exec_args(test) = Tail(test)
  BY <1>1, <1>2 DEF healthcheck_exec_args
<1>. QED
  BY <1>2, <1>3 DEF HealthWords

LEMMA HealthKept ==
  ASSUME NEW W, NEW test \in Seq(Seq(W)), Shaped(test)
  PROVE  HealthWords(Reparsed(FlattenSeq(test))) = HealthWords(test)
<1>. DEFINE joined == FlattenSeq(test)
            rest == FlattenSeq(Tail(test))
<1>1. Len(test) \in Nat /\ Len(test) > 0
  <2>1. Len(test) \in Nat
    OBVIOUS
  <2>2. Len(<<NONE>>) = 1
    OBVIOUS
  <2>. QED
    BY <2>1, <2>2 DEF Shaped
<1>2. joined = Joins(test[1], rest) /\ rest \in Seq(W)
  BY <1>1, FlattenAfter
<1>3. test[1] \in Seq(W)
  BY <1>1
<1>4. joined = test[1] \o rest /\ joined \in Seq(W)
  BY <1>2, <1>3 DEF Joins
<1>. HIDE DEF joined, rest
<1>5. ASSUME NEW c, test[1] = <<c>>
      PROVE  /\ Len(joined) > 0 /\ joined[1] = c /\ Tail(joined) = rest
             /\ Len(joined) = 1 + Len(rest)
  <2>1. <<c>> \in Seq(W) /\ Len(<<c>>) = 1 /\ <<c>>[1] = c
    BY <1>3, <1>5
  <2>2. joined = <<c>> \o rest
    BY <1>4, <1>5
  <2>3. Len(joined) = 1 + Len(rest) /\ joined[1] = c /\ Len(rest) \in Nat
    BY <1>2, <2>1, <2>2
  <2>4. Tail(joined) = rest
    BY <1>2, <2>1, <2>2
  <2>. QED
    BY <2>3, <2>4
<1>6. CASE test = <<NONE>>
  <2>1. joined = NONE
    <3>1. Tail(test) = <<>> /\ test[1] = NONE
      BY <1>6
    <3>2. FlattenSeq(<<>>) = <<>>
      BY DEF FlattenSeq
    <3>3. rest = <<>>
      BY <3>1, <3>2 DEF rest
    <3>. QED
      BY <1>2, <1>3, <3>1, <3>3, JoinsNothing
  <2>2. Len(joined) > 0
    BY <2>1 DEF NONE
  <2>3. Reparsed(joined) = <<NONE>>
    BY <1>4, <2>1, <2>2, ReparsedIs
  <2>. QED
    BY <1>6, <2>3 DEF joined
<1>7. CASE test[1] = CMD
  <2>1. /\ Len(joined) > 0 /\ joined[1] = "CMD" /\ Tail(joined) = rest
        /\ Len(joined) = 1 + Len(rest)
    BY <1>5, <1>7 DEF CMD
  <2>2. Reparsed(joined) = Singles(joined)
    BY <1>4, <2>1, ReparsedIs
  <2>. DEFINE again == Singles(joined)
  <2>3. /\ Len(again) \in Nat /\ Len(again) > 0 /\ again[1] = CMD
        /\ again = [i \in DOMAIN joined |-> <<joined[i]>>]
    BY <1>4, <2>1 DEF Singles, CMD
  <2>4. Tail(again) = [i \in DOMAIN rest |-> <<rest[i]>>]
    <3>1. \A i \in DOMAIN rest : rest[i] = joined[i + 1] /\ i + 1 \in DOMAIN joined
      <4>1. \A i \in 1..Len(joined) - 1 : Tail(joined)[i] = joined[i + 1]
        BY <1>4, <2>1, TailIs
      <4>2. DOMAIN rest = 1..Len(rest) /\ DOMAIN joined = 1..Len(joined) /\ Len(rest) \in Nat
        BY <1>2, <1>4
      <4>3. Len(joined) - 1 = Len(rest)
        BY <2>1, <4>2
      <4>. QED
        BY <2>1, <4>1, <4>2, <4>3
    <3>2. again \in Seq({<<w>> : w \in W}) /\ Len(again) = 1 + Len(rest)
      <4>1. joined \in Seq(W) /\ DOMAIN joined = 1..Len(joined) /\ Len(joined) \in Nat
            /\ \A i \in 1..Len(joined) : joined[i] \in W
        BY <1>4
      <4>2. again = [i \in 1..Len(joined) |-> <<joined[i]>>]
        BY <2>3, <4>1
      <4>3. \A i \in 1..Len(joined) : <<joined[i]>> \in {<<w>> : w \in W}
        BY <4>1
      <4>. HIDE DEF again
      <4>. QED
        BY <2>1, <4>1, <4>2, <4>3
    <3>3. Tail(again) = [i \in 1..Len(rest) |-> again[i + 1]]
      BY <1>2, <3>2
    <3>4. DOMAIN rest = 1..Len(rest)
      BY <1>2
    <3>. QED
      BY <2>3, <3>1, <3>3, <3>4
  <2>. HIDE DEF again
  <2>5. FlattenSeq(Tail(again)) = rest
    BY <1>2, <2>4, FlattenWords
  <2>6. HealthWords(again) = FlattenSeq(Tail(again))
    BY <2>3, WordsRun
  <2>7. HealthWords(test) = FlattenSeq(Tail(test))
    BY <1>1, <1>7, WordsRun
  <2>. QED
    BY <2>2, <2>5, <2>6, <2>7 DEF again, joined, rest
<1>8. CASE Len(test) = 2 /\ test[1] = CMD_SHELL /\ test[2] # <<>>
  <2>1. /\ Len(joined) > 0 /\ joined[1] = "CMD-SHELL" /\ Tail(joined) = rest
        /\ Len(joined) = 1 + Len(rest)
    BY <1>5, <1>8 DEF CMD_SHELL
  <2>2. rest = test[2]
    <3>. DEFINE one == Tail(test)
    <3>1. one \in Seq(Seq(W)) /\ Len(one) = 1 /\ one[1] = test[2]
      <4>1. /\ one \in Seq(Seq(W)) /\ Len(one) = Len(test) - 1
            /\ \A i \in 1..Len(test) - 1 : one[i] = test[i + 1]
        BY <1>1, TailIs
      <4>. HIDE DEF one
      <4>. QED
        BY <1>8, <4>1
    <3>. HIDE DEF one
    <3>6. Len(one) > 0
      BY <3>1
    <3>2. FlattenSeq(one) = Joins(test[2], FlattenSeq(Tail(one)))
      BY <3>1, <3>6, FlattenAfter
    <3>3. Tail(one) = <<>> /\ test[2] \in Seq(W)
      <4>1. Tail(one) \in Seq(Seq(W)) /\ Len(Tail(one)) = 0
        <5>. DEFINE V == Seq(W)
        <5>2. one \in Seq(V)
          BY <3>1
        <5>. HIDE DEF V
        <5>1. Tail(one) \in Seq(V) /\ Len(Tail(one)) = Len(one) - 1
          BY ONLY <5>2, <3>6, TailIs
        <5>. QED
          BY <3>1, <5>1 DEF V
      <4>2. Tail(one) = <<>>
        BY <4>1, NoneLong
      <4>3. one[1] \in Seq(W)
        BY <3>1
      <4>. QED
        BY <3>1, <4>2, <4>3
    <3>4. FlattenSeq(<<>>) = <<>>
      BY DEF FlattenSeq
    <3>5. Joins(test[2], <<>>) = test[2]
      BY <3>3, JoinsNothing
    <3>. QED
      BY <3>2, <3>3, <3>4, <3>5 DEF rest, one
  <2>3. Len(joined) > 1
    BY <1>2, <1>8, <2>1, <2>2
  <2>4. Reparsed(joined) = <<CMD_SHELL, test[2]>>
    BY <1>4, <2>1, <2>2, <2>3, ReparsedIs
  <2>5. test = <<CMD_SHELL, test[2]>>
    BY <1>1, <1>8
  <2>. QED
    BY <2>4, <2>5 DEF joined
<1>. QED
  BY <1>1, <1>6, <1>7, <1>8 DEF Shaped
LEMMA HealthOfEngine ==
  ASSUME NEW test, Sequence(test), \A i \in DOMAIN test : Sequence(test[i]), Shaped(test)
  PROVE  HealthWords(Reparsed(FlattenSeq(test))) = HealthWords(test)
<1>. DEFINE W == UNION {ToSet(test[i]) : i \in DOMAIN test}
<1>1. test \in Seq(ToSet(test)) /\ DOMAIN test = 1..Len(test) /\ Len(test) \in Nat
  BY DEF Sequence
<1>2. ASSUME NEW i \in DOMAIN test PROVE test[i] \in Seq(W)
  <2>1. ToSet(test[i]) \subseteq W
    OBVIOUS
  <2>2. test[i] \in Seq(ToSet(test[i]))
    BY DEF Sequence
  <2>. HIDE DEF W
  <2>. QED
    BY <2>1, <2>2, SeqMonotonic
<1>3. ToSet(test) \subseteq Seq(W)
  BY <1>2 DEF ToSet
<1>. HIDE DEF W
<1>4. test \in Seq(Seq(W))
  BY <1>1, <1>3, SeqMonotonic
<1>. QED
  BY <1>4, HealthKept

(* An update that names no command parses the old one anew.                *)
LEMMA HealthUpdated ==
  ASSUME NEW existing, existing # None, NEW o, ~IsGiven(o, {"health-cmd", "no-healthcheck"}),
         update_healthcheck(existing, o) # Invalid
  PROVE  update_healthcheck(existing, o).test = Reparsed(FlattenSeq(existing.test))
<1>. DEFINE cmd == [json |-> FALSE, parts |-> FlattenSeq(existing.test)]
<1>1. ~IsGiven(o, {"no-healthcheck"}) /\ Asked(o, "health-cmd", cmd) = cmd
  BY DEF IsGiven, Asked
<1>2. \A h, least : make_healthcheck_from_cli(h, least) # Invalid =>
          make_healthcheck_from_cli(h, least).test = parse_health_cmd_test(h.cmd)
  BY Zenon DEF make_healthcheck_from_cli
<1>. HIDE DEF cmd
<1>3. \E h, least : h.cmd = cmd /\ update_healthcheck(existing, o) = make_healthcheck_from_cli(h, least)
  BY <1>1 DEF update_healthcheck, cmd
<1>. QED
  BY <1>2, <1>3 DEF Reparsed, cmd

(* The limits a process asks for, within the host's.                       *)
LEMMA SoftWithinHard ==
  ASSUME NEW v \in Rlimit, parse_ulimit(v) # Invalid,
         NEW r, r = clamp_ulimit_to_host(parse_ulimit(v))
  PROVE  r.soft <= Ceiling => r.soft <= r.hard
<1>. DEFINE hard == IF v.hard = None THEN v.soft ELSE v.hard
            p == [v EXCEPT !.hard = hard]
            Clamp(limit) == IF limit = Infinity THEN Ceiling ELSE limit
<1>1. /\ v.soft # None /\ (hard = Infinity \/ ~(v.soft = Infinity \/ v.soft > hard))
      /\ parse_ulimit(v) = p
  BY DEF parse_ulimit
<1>2. v.soft \in Int /\ hard \in Int /\ Ceiling \in Int /\ Infinity \in Int
  <2>1. v.soft \in Int \cup {None} /\ v.hard \in Int \cup {None}
    BY DEF Rlimit
  <2>2. Ceiling \in Int /\ Infinity \in Int
    BY SpecConstants
  <2>. QED
    BY <1>1, <2>1, <2>2
<1>3. p.soft = v.soft /\ p.hard = hard
  BY DEF Rlimit
<1>4. DOMAIN p = {"name", "soft", "hard"}
  BY DEF Rlimit
<1>. HIDE DEF p
<1>5. clamp_ulimit_to_host(p).soft = Clamp(p.soft) /\ clamp_ulimit_to_host(p).hard = Clamp(p.hard)
  BY <1>4 DEF clamp_ulimit_to_host
<1>6. r.soft = Clamp(v.soft) /\ r.hard = Clamp(hard)
  BY <1>1, <1>3, <1>5
<1>. HIDE DEF hard
<1>. QED
  BY <1>1, <1>2, <1>6

LEMMA AskedLists ==
  ASSUME NEW o, Typed(o), NEW option \in {"env", "env-file", "ulimit", "volume", "tmpfs"}
  PROVE  /\ Sequence(Asked(o, option, <<>>))
         /\ option = "ulimit" => Asked(o, option, <<>>) \in Seq(Rlimit)
         /\ option = "tmpfs" => \A i \in DOMAIN Asked(o, option, <<>>) :
                                    Sequence(Asked(o, option, <<>>)[i].options)
<1>1. CASE option \in DOMAIN o
  <2>1. Asked(o, option, <<>>) = o[option] /\ o[option] \in Values[option] /\ option \in DOMAIN Values
    BY <1>1 DEF Typed, Asked
  <2>. QED
    BY <2>1, ListsAssumption
<1>2. CASE option \notin DOMAIN o
  BY <1>2 DEF Asked, Sequence
<1>. QED
  BY <1>1, <1>2

LEMMA SequencesJoin ==
  ASSUME NEW a, Sequence(a), NEW b, Sequence(b) PROVE Sequence(a \o b)
<1>. DEFINE W == ToSet(a) \cup ToSet(b)
            c == a \o b
<1>1. a \in Seq(W) /\ b \in Seq(W)
  <2>1. ToSet(a) \subseteq W /\ ToSet(b) \subseteq W
    OBVIOUS
  <2>2. a \in Seq(ToSet(a)) /\ b \in Seq(ToSet(b))
    BY DEF Sequence
  <2>. HIDE DEF W
  <2>. QED
    BY <2>1, <2>2, SeqMonotonic
<1>. HIDE DEF W
<1>2. c \in Seq(W)
  BY <1>1
<1>. HIDE DEF c
<1>3. c \in [1..Len(c) -> ToSet(c)] /\ Len(c) \in Nat
  BY <1>2 DEF ToSet
<1>4. c \in Seq(ToSet(c))
  BY <1>3
<1>. QED
  BY <1>4 DEF Sequence, c

(* Limits of memory and swap that were accepted.                           *)
LEMMA SwapAsked ==
  ASSUME NEW o, Typed(o), parse_and_validate_memory_and_cpus(o),
         NEW r, r = resources_from_cli(o), r # None
  PROVE  SwapCovers(r.memory)
<1>1. r.memory # None /\ r.memory.swap # None =>
          r.memory.swap = -1 \/ r.memory.swap >= r.memory.limit
  BY ResourcesAsked
<1>. QED
  BY <1>1 DEF SwapCovers

(* The command: an entry point that is given takes the image's away.       *)
LEMMA CommandAsked ==
  ASSUME NEW config, NEW o, Typed(o),
         NEW args, args = command_for(config, parse_entrypoint(Asked(o, "entrypoint", None)),
                                      Asked(o, "args", <<>>)),
         args # Invalid
  PROVE  /\ args # <<>>
         /\ IsGiven(o, {"entrypoint"}) /\ ~IsGiven(o, {"args"}) =>
                args = parse_entrypoint(o["entrypoint"])
<1>1. args # <<>>
  BY Zenon DEF command_for
<1>2. ASSUME IsGiven(o, {"entrypoint"}), ~IsGiven(o, {"args"})
      PROVE  args = parse_entrypoint(o["entrypoint"])
  <2>. DEFINE entry == parse_entrypoint(o["entrypoint"])
              first == IF entry = <<EmptyText>> THEN <<>> ELSE entry
              full == first \o <<>>
  <2>1. /\ "entrypoint" \in DOMAIN o /\ "args" \notin DOMAIN o
        /\ o["entrypoint"] \in Values["entrypoint"] /\ "entrypoint" \in DOMAIN Values
    BY <1>2 DEF IsGiven, Typed
  <2>2. entry # None /\ entry \in Seq(ToSet(entry))
    BY <2>1, ListsAssumption DEF Sequence
  <2>3. Asked(o, "entrypoint", None) = o["entrypoint"] /\ Asked(o, "args", <<>>) = <<>>
    BY <2>1 DEF Asked
  <2>4. args = IF full = <<>> THEN Invalid ELSE full
    <3>. HIDE DEF entry
    <3>1. args = command_for(config, entry, <<>>)
      BY <2>3 DEF entry
    <3>. QED
      BY <2>2, <3>1 DEF command_for
  <2>5. full = first
    <3>. DEFINE W == ToSet(entry)
    <3>2. entry \in Seq(W) /\ <<>> \in Seq(W)
      BY <2>2
    <3>. HIDE DEF W, entry
    <3>1. first \in Seq(W)
      BY <3>2
    <3>. HIDE DEF first
    <3>. QED
      BY <3>1, ConcatEmptySeq
  <2>. QED
    BY <2>4, <2>5
<1>. QED
  BY <1>1, <1>2

(* The options that meet, whatever they are, are merged as the user would  *)
(* read them: a container's configuration, what exec requests and what     *)
(* update leaves of a health check.                                        *)
THEOREM OptionsMerge == Spec => []MergedAsAsked
<1>1. AnswerOK(answer) => MergedAsAsked
  <2>. SUFFICES ASSUME AnswerOK(answer) PROVE MergedAsAsked
    OBVIOUS
  <2>. DEFINE o == answer.asked
              asked == Asked(o, "env-file", <<>>) \o Asked(o, "env", <<>>)
  <2>1. Typed(o) => Sequence(asked) /\ Len(asked) \in Nat /\ DOMAIN asked = 1..Len(asked)
    <3>1. Typed(o) => Sequence(asked)
      BY AskedLists, SequencesJoin
    <3>. HIDE DEF asked
    <3>2. Sequence(asked) => Len(asked) \in Nat /\ DOMAIN asked = 1..Len(asked)
      BY DEF Sequence
    <3>. QED
      BY <3>1, <3>2
  <2>2. CASE answer.is = "spec"
    <3>. DEFINE config == answer.config
                process == answer.spec.process
                res == answer.spec.resources
    <3>1. /\ Typed(o) /\ answer.spec = synthesize_spec(config, o) /\ config \in ImageConfigs
          /\ synthesize_spec(config, o) # Invalid
      BY <2>2 DEF AnswerOK
    <3>. HIDE DEF o, config
    <3>2. /\ process = SpecProcess(config, o) /\ res = SpecResources(o)
          /\ answer.spec.mounts = VolumeMounts(o) \o TmpfsMounts(o)
          /\ PrepareAccepts(o) /\ process.args # Invalid
      BY <3>1, SpecFields
    <3>3. /\ process.args = command_for(config, parse_entrypoint(Asked(o, "entrypoint", None)),
                                        Asked(o, "args", <<>>))
          /\ process.rlimits = Rlimits(o)
          /\ process.env = SpecEnv(config, o)
      BY <3>2, ProcessFields
    <3>4. /\ parse_and_validate_memory_and_cpus(o) /\ Rlimits(o) # Invalid
          /\ VolumeMounts(o) # Invalid /\ TmpfsMounts(o) # Invalid
      BY <3>2 DEF PrepareAccepts
    <3>5. EnvHas(process.env, asked)
      <4>1. Sequence(config.env) /\ Sequence(HostEnv) /\ Sequence(DefaultEnv)
        BY <3>1, ListsAssumption
      <4>. HIDE DEF process
      <4>. QED
        BY <2>1, <3>1, <3>3, <4>1, EnvSpecified
    <3>6. res # None => (res.limits # None => SwapCovers(res.limits.memory))
      <4>1. res # None => res.limits = resources_from_cli(o)
        <5>. DEFINE limits == resources_from_cli(o)
                    unified == parse_key_value_entries(Asked(o, "cgroup-conf", <<>>))
        <5>1. res # None => res = [limits |-> limits, unified |-> unified]
          BY <3>2, Zenon DEF SpecResources
        <5>. HIDE DEF limits, unified, res
        <5>2. res # None => res.limits = limits
          BY <5>1
        <5>. QED
          BY <5>2 DEF limits, res
      <4>. QED
        BY <3>1, <3>4, <4>1, SwapAsked
    <3>7. TmpfsConsistent(answer.spec.mounts)
      <4>1. /\ Sequence(Asked(o, "volume", <<>>)) /\ Sequence(Asked(o, "tmpfs", <<>>))
            /\ \A i \in DOMAIN Asked(o, "tmpfs", <<>>) : Sequence(Asked(o, "tmpfs", <<>>)[i].options)
        BY <3>1, AskedLists
      <4>. QED
        BY <3>2, <3>4, <4>1, MountsApart
    <3>8. \A r \in ToSet(process.rlimits) : r.soft <= Ceiling => r.soft <= r.hard
      <4>. DEFINE given == Asked(o, "ulimit", <<>>)
      <4>1. given \in Seq(Rlimit)
        BY <3>1, AskedLists
      <4>. HIDE DEF given
      <4>2. /\ \A i \in DOMAIN given : parse_ulimit(given[i]) # Invalid
            /\ Rlimits(o) = [i \in DOMAIN given |-> clamp_ulimit_to_host(parse_ulimit(given[i]))]
        BY <3>4, Zenon DEF Rlimits, given
      <4>3. \A i \in DOMAIN given : given[i] \in Rlimit
        BY <4>1
      <4>4. ASSUME NEW r \in ToSet(Rlimits(o)) PROVE r.soft <= Ceiling => r.soft <= r.hard
        <5>1. PICK i \in DOMAIN given : r = clamp_ulimit_to_host(parse_ulimit(given[i]))
          BY <4>2, Zenon DEF ToSet
        <5>. QED
          BY <4>2, <4>3, <5>1, SoftWithinHard
      <4>. QED
        BY <3>3, <4>4
    <3>9. /\ process.args # <<>>
          /\ IsGiven(o, {"entrypoint"}) /\ ~IsGiven(o, {"args"}) =>
                 process.args = parse_entrypoint(o["entrypoint"])
      <4>. DEFINE args == process.args
      <4>1. args # Invalid /\ args = command_for(config, parse_entrypoint(Asked(o, "entrypoint", None)),
                                                 Asked(o, "args", <<>>))
        BY <3>2, <3>3
      <4>. HIDE DEF args
      <4>2. /\ args # <<>>
            /\ IsGiven(o, {"entrypoint"}) /\ ~IsGiven(o, {"args"}) =>
                   args = parse_entrypoint(o["entrypoint"])
        BY <3>1, <4>1, CommandAsked
      <4>. QED
        BY <4>2 DEF args
    <3>10. answer.is # "exec" /\ answer.is # "updated"
      BY <2>2
    <3>. QED
      BY <3>5, <3>6, <3>7, <3>8, <3>9, <3>10, Zenon DEF MergedAsAsked, o
  <2>3. CASE answer.is = "exec"
    <3>. DEFINE process == answer.process
    <3>1. /\ Typed(o) /\ process \in Processes /\ answer.request = ExecRequest(process, o)
          /\ ExecRequest(process, o) # Invalid
      BY <2>3 DEF AnswerOK
    <3>. HIDE DEF o, process
    <3>2. answer.request.env = apply_env_overrides(process.env, asked)
      BY <3>1 DEF ExecRequest
    <3>3. Sequence(process.env) /\ Sequence(HostEnv)
      BY <3>1, ListsAssumption
    <3>4. EnvHas(answer.request.env, asked)
      <4>. HIDE DEF asked
      <4>. QED
        BY <2>1, <3>1, <3>2, <3>3, OverridesLand
    <3>5. answer.is # "spec" /\ answer.is # "updated"
      BY <2>3
    <3>. QED
      BY <3>4, <3>5, Zenon DEF MergedAsAsked, o
  <2>4. CASE answer.is = "updated"
    <3>. DEFINE before == answer.before
                after == answer.after
                health == IsGiven(o, HealthOptions \cup {"no-healthcheck"})
    <3>1. /\ Typed(o) /\ before \in Healthchecks /\ parse_and_validate_memory_and_cpus(o)
          /\ answer.resources = resources_from_cli(o)
          /\ after = IF health THEN update_healthcheck(before, o) ELSE before
          /\ after # Invalid \/ ~health
      BY <2>4 DEF AnswerOK
    <3>. HIDE DEF o, before, after
    <3>2. answer.resources # None => SwapCovers(answer.resources.memory)
      BY <3>1, SwapAsked
    <3>3. ASSUME ~IsGiven(o, {"health-cmd", "no-healthcheck"}), before # None, Shaped(before.test)
          PROVE  HealthWords(after.test) = HealthWords(before.test)
      <4>1. CASE ~health
        BY <3>1, <4>1
      <4>2. CASE health
        <5>1. after = update_healthcheck(before, o) /\ after # Invalid
          BY <3>1, <4>2
        <5>2. after.test = Reparsed(FlattenSeq(before.test))
          BY <3>3, <5>1, HealthUpdated
        <5>3. Sequence(before.test) /\ \A i \in DOMAIN before.test : Sequence(before.test[i])
          BY <3>1, <3>3, ListsAssumption
        <5>. QED
          BY <3>3, <5>2, <5>3, HealthOfEngine
      <4>. QED
        BY <4>1, <4>2
    <3>4. answer.is # "spec" /\ answer.is # "exec"
      BY <2>4
    <3>. QED
      BY <3>2, <3>3, <3>4, Zenon DEF MergedAsAsked, o, before, after
  <2>5. CASE answer.is \notin {"spec", "exec", "updated"}
    BY <2>5 DEF MergedAsAsked
  <2>. QED
    BY <2>2, <2>3, <2>4, <2>5
<1>. QED
  BY <1>1, AnswersAlways, PTL

-----------------------------------------------------------------------------
(* Sums over finite sets.  A tally of w has the sum of w over every subset *)
(* of S, taking the elements in the order a fold takes them.               *)
Some(s) == CHOOSE x \in s : TRUE
IsTally(f, w, S) ==
    f = [s \in SUBSET S |-> IF s = {} THEN 0 ELSE w[Some(s)] + f[s \ {Some(s)}]]

(* The order does not matter.                                              *)
Sums(f, w, S) ==
    /\ IsFiniteSet(S) /\ \A x \in S : w[x] \in Nat
    /\ f \in [SUBSET S -> Nat]
    /\ f[{}] = 0
    /\ \A T \in SUBSET S : \A x \in T : f[T] = w[x] + f[T \ {x}]

(* Induction over the subsets of a finite set, for a set in the place of a *)
(* property.                                                               *)
LEMMA Growing ==
  ASSUME NEW S, IsFiniteSet(S), NEW F, {} \in F,
         \A T \in SUBSET S : T # {} /\ (\A x \in T : T \ {x} \in F) => T \in F
  PROVE  SUBSET S \subseteq F
<1>. DEFINE Upto == {n \in Nat : \A T \in SUBSET S : Cardinality(T) = n => T \in F}
<1>1. ASSUME NEW T \in SUBSET S
      PROVE  /\ IsFiniteSet(T) /\ Cardinality(T) \in Nat
             /\ Cardinality(T) = 0 <=> T = {}
             /\ \A x \in T : Cardinality(T \ {x}) = Cardinality(T) - 1
  BY FS_Subset, FS_CardinalityType, FS_EmptySet, FS_RemoveElement
<1>2. 0 \in Upto
  BY <1>1
<1>3. ASSUME NEW n \in Nat, n \in Upto PROVE n + 1 \in Upto
  <2>. SUFFICES ASSUME NEW T \in SUBSET S, Cardinality(T) = n + 1 PROVE T \in F
    OBVIOUS
  <2>1. T # {}
    BY <1>1
  <2>2. ASSUME NEW x \in T PROVE T \ {x} \in F
    <3>1. Cardinality(T \ {x}) = n
      BY <1>1
    <3>. QED
      BY <1>3, <3>1
  <2>. QED
    BY <2>1, <2>2
<1>4. Nat \subseteq Upto
  <2>. HIDE DEF Upto
  <2>. QED
    BY <1>2, <1>3, Counting
<1>. QED
  BY <1>1, <1>4

(* A finite set has a tally ...                                            *)
LEMMA TallyThere ==
  ASSUME NEW S, IsFiniteSet(S), NEW w
  PROVE  \E f : IsTally(f, w, S)
<1>. DEFINE Small(n) == {s \in SUBSET S : Cardinality(s) <= n}
            Upto == {n \in Nat : \E f : f = [s \in Small(n) |-> IF s = {} THEN 0 ELSE w[Some(s)] + f[s \ {Some(s)}]]}
<1>1. ASSUME NEW T \in SUBSET S
      PROVE  /\ Cardinality(T) \in Nat /\ Cardinality(T) <= Cardinality(S)
             /\ Cardinality(T) = 0 <=> T = {}
             /\ T # {} => /\ T \ {Some(T)} \in SUBSET S
                          /\ Cardinality(T \ {Some(T)}) = Cardinality(T) - 1
  <2>1. T # {} => Some(T) \in T
    BY DEF Some
  <2>. QED
    BY <2>1, FS_Subset, FS_CardinalityType, FS_EmptySet, FS_RemoveElement
<1>2. 0 \in Upto
  <2>1. [s \in Small(0) |-> 0] = [s \in Small(0) |-> IF s = {} THEN 0 ELSE w[Some(s)] + [t \in Small(0) |-> 0][s \ {Some(s)}]]
    BY <1>1
  <2>. QED
    BY <2>1
<1>3. ASSUME NEW n \in Nat, n \in Upto PROVE n + 1 \in Upto
  <2>1. PICK f : f = [s \in Small(n) |-> IF s = {} THEN 0 ELSE w[Some(s)] + f[s \ {Some(s)}]]
    BY <1>3
  <2>. DEFINE g == [s \in Small(n + 1) |-> IF s = {} THEN 0 ELSE w[Some(s)] + f[s \ {Some(s)}]]
  <2>2. ASSUME NEW s \in Small(n) PROVE s \in Small(n + 1) /\ g[s] = f[s]
    <3>1. s \in Small(n + 1)
      <4>1. Cardinality(s) \in Nat /\ Cardinality(s) <= n /\ s \in SUBSET S
        BY <1>1, Zenon
      <4>2. Cardinality(s) <= n + 1
        BY <4>1
      <4>. QED
        BY <4>1, <4>2, Zenon
    <3>2. f[s] = IF s = {} THEN 0 ELSE w[Some(s)] + f[s \ {Some(s)}]
      BY <2>1, Zenon
    <3>3. g[s] = IF s = {} THEN 0 ELSE w[Some(s)] + f[s \ {Some(s)}]
      BY <3>1, Zenon
    <3>. QED
      BY <3>1, <3>2, <3>3
  <2>3. ASSUME NEW s \in Small(n + 1), s # {} PROVE s \ {Some(s)} \in Small(n)
    BY <1>1, <2>3
  <2>. HIDE DEF Small
  <2>4. g = [s \in Small(n + 1) |-> IF s = {} THEN 0 ELSE w[Some(s)] + g[s \ {Some(s)}]]
    <3>1. \A s \in Small(n + 1) : g[s] = IF s = {} THEN 0 ELSE w[Some(s)] + f[s \ {Some(s)}]
      BY Zenon
    <3>2. \A s \in Small(n + 1) : g[s] = IF s = {} THEN 0 ELSE w[Some(s)] + g[s \ {Some(s)}]
      BY <2>2, <2>3, <3>1
    <3>3. g = [s \in Small(n + 1) |-> g[s]]
      OBVIOUS
    <3>. HIDE DEF g
    <3>. QED
      BY <3>2, <3>3, Zenon
  <2>. HIDE DEF g
  <2>5. n + 1 \in Nat /\ \E h : h = [s \in Small(n + 1) |-> IF s = {} THEN 0 ELSE w[Some(s)] + h[s \ {Some(s)}]]
    <3>1. n + 1 \in Nat
      OBVIOUS
    <3>. QED
      BY <2>4, <3>1, Zenon
  <2>. QED
    BY <2>5, Zenon
<1>4. Cardinality(S) \in Upto
  <2>. HIDE DEF Upto
  <2>. QED
    BY <1>2, <1>3, Counting, FS_CardinalityType
<1>5. Small(Cardinality(S)) = SUBSET S
  BY <1>1
<1>. QED
  BY <1>4, <1>5 DEF IsTally

(* ... and the tally sums.                                                 *)
LEMMA TallySums ==
  ASSUME NEW S, IsFiniteSet(S), NEW w, \A x \in S : w[x] \in Nat, NEW f, IsTally(f, w, S)
  PROVE  Sums(f, w, S)
<1>. DEFINE Numbers == {T \in SUBSET S : f[T] \in Nat}
            F == {T \in SUBSET S : \A x \in T : f[T] = w[x] + f[T \ {x}]}
<1>1. \A T \in SUBSET S : f[T] = IF T = {} THEN 0 ELSE w[Some(T)] + f[T \ {Some(T)}]
  BY Zenon DEF IsTally
<1>2. \A T \in SUBSET S : T # {} => Some(T) \in T
  BY DEF Some
<1>3. SUBSET S \subseteq Numbers
  <2>1. {} \in Numbers
    BY <1>1
  <2>2. ASSUME NEW T \in SUBSET S, T # {}, \A x \in T : T \ {x} \in Numbers PROVE T \in Numbers
    <3>1. PICK y \in T : f[T] = w[y] + f[T \ {y}]
      BY <1>1, <1>2, <2>2, Zenon
    <3>2. f[T \ {y}] \in Nat
      BY <2>2
    <3>. QED
      BY <3>1, <3>2
  <2>. HIDE DEF Numbers
  <2>. QED
    BY <2>1, <2>2, Growing
<1>4. {} \in F
  OBVIOUS
<1>5. ASSUME NEW T \in SUBSET S, T # {}, \A x \in T : T \ {x} \in F PROVE T \in F
  <2>1. PICK y \in T : f[T] = w[y] + f[T \ {y}]
    BY <1>1, <1>2, <1>5, Zenon
  <2>2. ASSUME NEW x \in T, x # y PROVE f[T] = w[x] + f[T \ {x}]
    <3>1. f[T \ {y}] = w[x] + f[(T \ {y}) \ {x}]
      BY <1>5, <2>2
    <3>2. f[T \ {x}] = w[y] + f[(T \ {x}) \ {y}]
      BY <1>5, <2>2
    <3>3. (T \ {x}) \ {y} = (T \ {y}) \ {x}
      OBVIOUS
    <3>4. f[(T \ {y}) \ {x}] \in Nat
      <4>1. (T \ {y}) \ {x} \in SUBSET S
        OBVIOUS
      <4>. QED
        BY <1>3, <4>1
    <3>5. PICK z \in Nat : f[T \ {y}] = w[x] + z /\ f[T \ {x}] = w[y] + z
      BY <3>1, <3>2, <3>3, <3>4, Zenon
    <3>6. w[x] \in Nat /\ w[y] \in Nat
      OBVIOUS
    <3>7. f[T] = w[y] + (w[x] + z)
      BY <2>1, <3>5, Zenon
    <3>8. w[y] + (w[x] + z) = w[x] + (w[y] + z)
      BY <3>6
    <3>. QED
      BY <3>5, <3>7, <3>8, Zenon
  <2>. QED
    BY <2>1, <2>2
<1>7. SUBSET S \subseteq F
  <2>. HIDE DEF F
  <2>. QED
    BY <1>4, <1>5, Growing
<1>6. f \in [SUBSET S -> Nat]
  <2>1. f = [s \in SUBSET S |-> f[s]]
    BY Zenon DEF IsTally
  <2>2. \A s \in SUBSET S : f[s] \in Nat
    BY <1>3
  <2>. QED
    BY <2>1, <2>2
<1>. QED
  BY <1>1, <1>6, <1>7 DEF Sums

OneEach(f, w, S) == \A x \in S : f[{x}] = w[x]

LEMMA SumOne ==
  ASSUME NEW S, NEW w, NEW f, Sums(f, w, S)
  PROVE  OneEach(f, w, S)
<1>. SUFFICES ASSUME NEW x \in S PROVE f[{x}] = w[x]
  BY DEF OneEach
<1>1. f[{x}] = w[x] + f[{x} \ {x}]
  BY DEF Sums
<1>2. {x} \ {x} = {} /\ f[{}] = 0 /\ w[x] \in Nat
  BY DEF Sums
<1>. QED
  BY <1>1, <1>2

(* The sum over two sets that do not meet is that of their sums ...        *)
LEMMA SumApart ==
  ASSUME NEW S, NEW w, NEW f, Sums(f, w, S)
  PROVE  \A A, B \in SUBSET S : A \cap B = {} => f[A \cup B] = f[A] + f[B]
<1>. SUFFICES ASSUME NEW A \in SUBSET S, NEW B \in SUBSET S, A \cap B = {}
              PROVE  f[A \cup B] = f[A] + f[B]
  OBVIOUS
<1>. DEFINE F == {T \in SUBSET S : T \cap B = {} => f[T \cup B] = f[T] + f[B]}
<1>0. IsFiniteSet(S) /\ \A x \in S : w[x] \in Nat
  BY DEF Sums
<1>1. \A T \in SUBSET S : f[T] \in Nat
  BY DEF Sums
<1>2. {} \in F
  BY <1>1 DEF Sums
<1>3. ASSUME NEW T \in SUBSET S, T # {}, \A x \in T : T \ {x} \in F PROVE T \in F
  <2>. SUFFICES ASSUME T \cap B = {} PROVE f[T \cup B] = f[T] + f[B]
    OBVIOUS
  <2>1. PICK x \in T : TRUE
    BY <1>3
  <2>2. f[(T \ {x}) \cup B] = f[T \ {x}] + f[B]
    BY <1>3
  <2>3. f[T] = w[x] + f[T \ {x}]
    BY DEF Sums
  <2>4. f[T \cup B] = w[x] + f[(T \cup B) \ {x}]
    BY DEF Sums
  <2>5. (T \cup B) \ {x} = (T \ {x}) \cup B
    OBVIOUS
  <2>6. w[x] \in Nat /\ f[T \ {x}] \in Nat /\ f[B] \in Nat
    BY <1>0, <1>1
  <2>7. /\ f[T \cup B] = w[x] + (f[T \ {x}] + f[B])
        /\ f[T] + f[B] = (w[x] + f[T \ {x}]) + f[B]
    BY <2>2, <2>3, <2>4, <2>5, Zenon
  <2>8. \A a, b, c \in Nat : a + (b + c) = (a + b) + c
    OBVIOUS
  <2>. QED
    BY <2>6, <2>7, <2>8, Zenon
<1>4. SUBSET S \subseteq F
  <2>. HIDE DEF F
  <2>. QED
    BY <1>0, <1>2, <1>3, Growing
<1>. QED
  BY <1>4

(* ... and never more, whether they meet or not; nor has a part more than  *)
(* the whole.                                                              *)
LEMMA SumMeets ==
  ASSUME NEW S, NEW w, NEW f, Sums(f, w, S)
  PROVE  \A A, B \in SUBSET S :
             f[A \cup B] <= f[A] + f[B] /\ (A \subseteq B => f[A] <= f[B])
<1>. SUFFICES ASSUME NEW A \in SUBSET S, NEW B \in SUBSET S
              PROVE  f[A \cup B] <= f[A] + f[B] /\ (A \subseteq B => f[A] <= f[B])
  OBVIOUS
<1>1. \A T \in SUBSET S : f[T] \in Nat
  BY DEF Sums
<1>2. f[A \cup (B \ A)] = f[A] + f[B \ A]
  BY SumApart
<1>3. f[(B \cap A) \cup (B \ A)] = f[B \cap A] + f[B \ A]
  BY SumApart
<1>4. /\ A \cup (B \ A) = A \cup B /\ (B \cap A) \cup (B \ A) = B
      /\ A \subseteq B => A \cup B = B
  OBVIOUS
<1>5. f[A \cup B] = f[A] + f[B \ A] /\ f[B] = f[B \cap A] + f[B \ A]
  BY <1>2, <1>3, <1>4, Zenon
<1>6. A \subseteq B => f[B] = f[A] + f[B \ A]
  BY <1>4, <1>5
<1>7. f[A] \in Nat /\ f[B \ A] \in Nat /\ f[B \cap A] \in Nat
  BY <1>1
<1>. QED
  BY <1>5, <1>6, <1>7

(* Sums of sums: each d of D has a set of elements, of no greater sum than *)
(* its weight; and if no two of them meet, of no smaller.                  *)
Part(P, D) == UNION {P[d] : d \in D}
LEMMA SumOfSums ==
  ASSUME NEW S, NEW w, NEW f, Sums(f, w, S), NEW D, NEW v, NEW g, Sums(g, v, D),
         NEW P, \A d \in D : P[d] \in SUBSET S
  PROVE  /\ (\A d \in D : f[P[d]] <= v[d]) => f[Part(P, D)] <= g[D]
         /\ (\A d \in D : v[d] <= f[P[d]]) /\ (\A d, e \in D : d # e => P[d] \cap P[e] = {})
              => g[D] <= f[Part(P, D)]
<1>1. \A T \in SUBSET S : f[T] \in Nat
  BY DEF Sums
<1>2. \A E \in SUBSET D : g[E] \in Nat
  BY DEF Sums
<1>3. \A E \in SUBSET D : Part(P, E) \in SUBSET S
  BY DEF Part
<1>4. \A E : \A d \in E : Part(P, E) = P[d] \cup Part(P, E \ {d})
  BY DEF Part
<1>0. IsFiniteSet(D) /\ \A d \in D : v[d] \in Nat
  BY DEF Sums
<1>m. \A A, B \in SUBSET S : f[A \cup B] <= f[A] + f[B]
  BY SumMeets
<1>a. \A A, B \in SUBSET S : A \cap B = {} => f[A \cup B] = f[A] + f[B]
  BY SumApart
<1>5. Part(P, {}) = {} /\ f[{}] = 0 /\ g[{}] = 0
  BY DEF Part, Sums
<1>6. ASSUME \A d \in D : f[P[d]] <= v[d] PROVE f[Part(P, D)] <= g[D]
  <2>. DEFINE F == {E \in SUBSET D : f[Part(P, E)] <= g[E]}
  <2>1. {} \in F
    BY <1>5
  <2>2. ASSUME NEW E \in SUBSET D, E # {}, \A d \in E : E \ {d} \in F PROVE E \in F
    <3>1. PICK d \in E : TRUE
      BY <2>2
    <3>2. f[Part(P, E \ {d})] <= g[E \ {d}]
      BY <2>2
    <3>3. f[P[d] \cup Part(P, E \ {d})] <= f[P[d]] + f[Part(P, E \ {d})]
      BY <1>3, <1>m
    <3>4. g[E] = v[d] + g[E \ {d}]
      BY DEF Sums
    <3>5. /\ f[P[d]] \in Nat /\ v[d] \in Nat /\ g[E \ {d}] \in Nat
          /\ f[Part(P, E \ {d})] \in Nat /\ f[Part(P, E)] \in Nat
      BY <1>0, <1>1, <1>2, <1>3
    <3>6. f[Part(P, E)] <= f[P[d]] + f[Part(P, E \ {d})]
      BY <1>4, <3>3
    <3>7. f[P[d]] <= v[d]
      BY <1>6
    <3>8. f[Part(P, E)] <= g[E]
      BY <3>2, <3>4, <3>5, <3>6, <3>7
    <3>. QED
      BY <3>8
  <2>3. SUBSET D \subseteq F
    <3>. HIDE DEF F
    <3>. QED
      BY <1>0, <2>1, <2>2, Growing
  <2>. QED
    BY <2>3
<1>7. ASSUME \A d \in D : v[d] <= f[P[d]], \A d, e \in D : d # e => P[d] \cap P[e] = {}
      PROVE  g[D] <= f[Part(P, D)]
  <2>. DEFINE F == {E \in SUBSET D : g[E] <= f[Part(P, E)]}
  <2>1. {} \in F
    BY <1>5
  <2>2. ASSUME NEW E \in SUBSET D, E # {}, \A d \in E : E \ {d} \in F PROVE E \in F
    <3>1. PICK d \in E : TRUE
      BY <2>2
    <3>2. g[E \ {d}] <= f[Part(P, E \ {d})]
      BY <2>2
    <3>3. P[d] \cap Part(P, E \ {d}) = {}
      BY <1>7 DEF Part
    <3>4. f[P[d] \cup Part(P, E \ {d})] = f[P[d]] + f[Part(P, E \ {d})]
      BY <1>3, <1>a, <3>3
    <3>5. g[E] = v[d] + g[E \ {d}]
      BY DEF Sums
    <3>6. /\ f[P[d]] \in Nat /\ v[d] \in Nat /\ g[E \ {d}] \in Nat
          /\ f[Part(P, E \ {d})] \in Nat /\ f[Part(P, E)] \in Nat
      BY <1>0, <1>1, <1>2, <1>3
    <3>7. f[Part(P, E)] = f[P[d]] + f[Part(P, E \ {d})]
      BY <1>4, <3>4
    <3>8. v[d] <= f[P[d]]
      BY <1>7
    <3>9. g[E] <= f[Part(P, E)]
      BY <3>2, <3>5, <3>6, <3>7, <3>8
    <3>. QED
      BY <3>9
  <2>3. SUBSET D \subseteq F
    <3>. HIDE DEF F
    <3>. QED
      BY <1>0, <2>1, <2>2, Growing
  <2>. QED
    BY <2>3
<1>. QED
  BY <1>6, <1>7

(* The folds of the listings are tallies: of the bytes of blobs,           *)
LEMMA BytesTally ==
  ASSUME NEW set, IsFiniteSet(set)
  PROVE  \E f : IsTally(f, Size, set) /\ Bytes(set) = f[set]
<1>. DEFINE iter[s \in SUBSET set] == IF s = {} THEN 0 ELSE Size[Some(s)] + iter[s \ {Some(s)}]
<1>1. Bytes(set) = iter[set]
  BY DEF Bytes, FoldSet, MapThenFoldSet, Some
<1>2. \E f : f = [s \in SUBSET set |-> IF s = {} THEN 0 ELSE Size[Some(s)] + f[s \ {Some(s)}]]
  <2>1. PICK f : IsTally(f, Size, set)
    BY TallyThere
  <2>. QED
    BY <2>1 DEF IsTally
<1>3. iter = [s \in SUBSET set |-> IF s = {} THEN 0 ELSE Size[Some(s)] + iter[s \ {Some(s)}]]
  BY <1>2
<1>. HIDE DEF iter
<1>. QED
  BY <1>1, <1>3 DEF IsTally

LEMMA SumsUnique ==
  ASSUME NEW S, NEW w, NEW f, Sums(f, w, S), NEW A \in SUBSET S, NEW g, Sums(g, w, A)
  PROVE  g[A] = f[A]
<1>. DEFINE F == {T \in SUBSET A : g[T] = f[T]}
<1>1. IsFiniteSet(A) /\ {} \in F
  BY DEF Sums
<1>2. ASSUME NEW T \in SUBSET A, T # {}, \A x \in T : T \ {x} \in F PROVE T \in F
  <2>1. PICK x \in T : TRUE
    BY <1>2
  <2>2. g[T \ {x}] = f[T \ {x}]
    BY <1>2
  <2>3. g[T] = w[x] + g[T \ {x}] /\ f[T] = w[x] + f[T \ {x}]
    BY DEF Sums
  <2>. QED
    BY <2>2, <2>3
<1>3. SUBSET A \subseteq F
  <2>. HIDE DEF F
  <2>. QED
    BY <1>1, <1>2, Growing
<1>. QED
  BY <1>3

LEMMA BytesAre ==
  ASSUME NEW B, IsFiniteSet(B), \A b \in B : Size[b] \in Nat, NEW f, Sums(f, Size, B), NEW A \in SUBSET B
  PROVE  Bytes(A) = f[A]
<1>1. IsFiniteSet(A) /\ \A b \in A : Size[b] \in Nat
  BY FS_Subset
<1>2. PICK g : IsTally(g, Size, A) /\ Bytes(A) = g[A]
  BY <1>1, BytesTally
<1>3. Sums(g, Size, A)
  BY <1>1, <1>2, TallySums
<1>. QED
  BY <1>2, <1>3, SumsUnique

(* of the sizes of images,                                                 *)
LEMMA SummaryTally ==
  ASSUME NEW ds, IsFiniteSet(ds)
  PROVE  \E f : /\ IsTally(f, [d \in ds |-> image_summary(d)], ds)
               /\ FoldSet(LAMBDA d, n : image_summary(d) + n, 0, ds) = f[ds]
<1>. DEFINE w == [d \in ds |-> image_summary(d)]
            Tallied(f) == [s \in SUBSET ds |-> IF s = {} THEN 0 ELSE w[Some(s)] + f[s \ {Some(s)}]]
            Folded(f) == [s \in SUBSET ds |->
                            IF s = {} THEN 0 ELSE image_summary(Some(s)) + f[s \ {Some(s)}]]
            iter[s \in SUBSET ds] ==
                IF s = {} THEN 0 ELSE image_summary(Some(s)) + iter[s \ {Some(s)}]
<1>1. FoldSet(LAMBDA d, n : image_summary(d) + n, 0, ds) = iter[ds]
  BY DEF FoldSet, MapThenFoldSet, Some
<1>2. \A f : Tallied(f) = Folded(f)
  <2>1. \A s \in SUBSET ds : s # {} => w[Some(s)] = image_summary(Some(s))
    BY DEF Some
  <2>. HIDE DEF w
  <2>. QED
    BY <2>1
<1>3. \E f : f = Folded(f)
  <2>1. PICK f : IsTally(f, w, ds)
    BY TallyThere
  <2>2. f = Tallied(f)
    BY <2>1, Zenon DEF IsTally
  <2>. HIDE DEF Tallied, Folded
  <2>. QED
    BY <1>2, <2>2
<1>4. iter = Folded(iter)
  BY <1>3
<1>5. iter = Tallied(iter)
  <2>. HIDE DEF Tallied, Folded, iter
  <2>. QED
    BY <1>2, <1>4
<1>6. IsTally(iter, w, ds)
  <2>. HIDE DEF w, iter
  <2>. QED
    BY <1>5, Zenon DEF IsTally
<1>. HIDE DEF iter
<1>. QED
  BY <1>1, <1>6

(* of what is unique to images,                                          *)
LEMMA UniqueBytesTally ==
  ASSUME NEW ds, IsFiniteSet(ds)
  PROVE  \E f : /\ IsTally(f, [d \in ds |-> UniqueSize(tables.images, d)], ds)
               /\ UniqueBytes(ds) = f[ds]
<1>. DEFINE w == [d \in ds |-> UniqueSize(tables.images, d)]
            Tallied(f) == [s \in SUBSET ds |-> IF s = {} THEN 0 ELSE w[Some(s)] + f[s \ {Some(s)}]]
            Folded(f) == [s \in SUBSET ds |->
                            IF s = {} THEN 0 ELSE UniqueSize(tables.images, Some(s)) + f[s \ {Some(s)}]]
            iter[s \in SUBSET ds] ==
                IF s = {} THEN 0 ELSE UniqueSize(tables.images, Some(s)) + iter[s \ {Some(s)}]
<1>1. UniqueBytes(ds) = iter[ds]
  BY DEF UniqueBytes, FoldSet, MapThenFoldSet, Some
<1>2. \A f : Tallied(f) = Folded(f)
  <2>1. \A s \in SUBSET ds : s # {} => w[Some(s)] = UniqueSize(tables.images, Some(s))
    BY DEF Some
  <2>. HIDE DEF w
  <2>. QED
    BY <2>1
<1>3. \E f : f = Folded(f)
  <2>1. PICK f : IsTally(f, w, ds)
    BY TallyThere
  <2>2. f = Tallied(f)
    BY <2>1, Zenon DEF IsTally
  <2>. HIDE DEF Tallied, Folded
  <2>. QED
    BY <1>2, <2>2
<1>4. iter = Folded(iter)
  BY <1>3
<1>5. iter = Tallied(iter)
  <2>. HIDE DEF Tallied, Folded, iter
  <2>. QED
    BY <1>2, <1>4
<1>6. IsTally(iter, w, ds)
  <2>. HIDE DEF w, iter
  <2>. QED
    BY <1>5, Zenon DEF IsTally
<1>. HIDE DEF iter
<1>. QED
  BY <1>1, <1>6

(* of the layers of one image,                                          *)
LEMMA LayersTally ==
  ASSUME NEW list, IsFiniteSet(DOMAIN list)
  PROVE  \E f : /\ IsTally(f, [i \in DOMAIN list |-> Size[list[i]]], (DOMAIN list))
               /\ FoldSeq(LAMBDA b, n : Size[b] + n, 0, list) = f[(DOMAIN list)]
<1>. DEFINE w == [i \in DOMAIN list |-> Size[list[i]]]
            Tallied(f) == [s \in SUBSET (DOMAIN list) |-> IF s = {} THEN 0 ELSE w[Some(s)] + f[s \ {Some(s)}]]
            Folded(f) == [s \in SUBSET (DOMAIN list) |->
                            IF s = {} THEN 0 ELSE Size[list[Some(s)]] + f[s \ {Some(s)}]]
            iter[s \in SUBSET (DOMAIN list)] ==
                IF s = {} THEN 0 ELSE Size[list[Some(s)]] + iter[s \ {Some(s)}]
<1>1. FoldSeq(LAMBDA b, n : Size[b] + n, 0, list) = iter[(DOMAIN list)]
  BY DEF FoldSeq, FoldFunction, FoldFunctionOnSet, MapThenFoldSet, Some
<1>2. \A f : Tallied(f) = Folded(f)
  <2>1. \A s \in SUBSET (DOMAIN list) : s # {} => w[Some(s)] = Size[list[Some(s)]]
    BY DEF Some
  <2>. HIDE DEF w
  <2>. QED
    BY <2>1
<1>3. \E f : f = Folded(f)
  <2>1. PICK f : IsTally(f, w, (DOMAIN list))
    BY TallyThere
  <2>2. f = Tallied(f)
    BY <2>1, Zenon DEF IsTally
  <2>. HIDE DEF Tallied, Folded
  <2>. QED
    BY <1>2, <2>2
<1>4. iter = Folded(iter)
  BY <1>3
<1>5. iter = Tallied(iter)
  <2>. HIDE DEF Tallied, Folded, iter
  <2>. QED
    BY <1>2, <1>4
<1>6. IsTally(iter, w, (DOMAIN list))
  <2>. HIDE DEF w, iter
  <2>. QED
    BY <1>5, Zenon DEF IsTally
<1>. HIDE DEF iter
<1>. QED
  BY <1>1, <1>6

(* and of what is unique to one.                                         *)
UniquePart(images, d, i) ==
    IF Cardinality(Referencing(images, BlobsOf(d)[i])) > 1 THEN 0 ELSE Size[BlobsOf(d)[i]]

LEMMA UniqueTally ==
  ASSUME NEW images, NEW d, IsFiniteSet(DOMAIN BlobsOf(d))
  PROVE  \E f : /\ IsTally(f, [i \in DOMAIN BlobsOf(d) |-> UniquePart(images, d, i)], (DOMAIN BlobsOf(d)))
               /\ UniqueSize(images, d) = f[(DOMAIN BlobsOf(d))]
<1>. DEFINE w == [i \in DOMAIN BlobsOf(d) |-> UniquePart(images, d, i)]
            Tallied(f) == [s \in SUBSET (DOMAIN BlobsOf(d)) |-> IF s = {} THEN 0 ELSE w[Some(s)] + f[s \ {Some(s)}]]
            Folded(f) == [s \in SUBSET (DOMAIN BlobsOf(d)) |->
                            IF s = {} THEN 0 ELSE UniquePart(images, d, Some(s)) + f[s \ {Some(s)}]]
            iter[s \in SUBSET (DOMAIN BlobsOf(d))] ==
                IF s = {} THEN 0 ELSE UniquePart(images, d, Some(s)) + iter[s \ {Some(s)}]
<1>1. UniqueSize(images, d) = iter[(DOMAIN BlobsOf(d))]
  BY DEF UniqueSize, UniquePart, FoldSeq, FoldFunction, FoldFunctionOnSet, MapThenFoldSet, Some
<1>2. \A f : Tallied(f) = Folded(f)
  <2>1. \A s \in SUBSET (DOMAIN BlobsOf(d)) : s # {} => w[Some(s)] = UniquePart(images, d, Some(s))
    BY DEF Some
  <2>. HIDE DEF w
  <2>. QED
    BY <2>1
<1>3. \E f : f = Folded(f)
  <2>1. PICK f : IsTally(f, w, (DOMAIN BlobsOf(d)))
    BY TallyThere
  <2>2. f = Tallied(f)
    BY <2>1, Zenon DEF IsTally
  <2>. HIDE DEF Tallied, Folded
  <2>. QED
    BY <1>2, <2>2
<1>4. iter = Folded(iter)
  BY <1>3
<1>5. iter = Tallied(iter)
  <2>. HIDE DEF Tallied, Folded, iter
  <2>. QED
    BY <1>2, <1>4
<1>6. IsTally(iter, w, (DOMAIN BlobsOf(d)))
  <2>. HIDE DEF w, iter
  <2>. QED
    BY <1>5, Zenon DEF IsTally
<1>. HIDE DEF iter
<1>. QED
  BY <1>1, <1>6

-----------------------------------------------------------------------------
(* The blobs of an image, as a set and as the sequence df -v walks.        *)
LEMMA BlobsFine ==
  ASSUME NEW d \in Digests
  PROVE  /\ IsFiniteSet(DOMAIN Layers(d)) /\ IsFiniteSet(DOMAIN BlobsOf(d))
         /\ \A i \in DOMAIN BlobsOf(d) : BlobsOf(d)[i] \in Blobs(d)
         /\ IsFiniteSet(Blobs(d))
         /\ \A b \in Blobs(d) : b \notin Digests /\ Size[b] \in Nat
<1>. DEFINE list == Layers(d)
            c == Contents[d].config
<1>1. list \in Seq(ToSet(list))
  BY ContentsAssumption DEF Sequence
<1>2. DOMAIN list = 1..Len(list) /\ Len(list) \in Nat /\ \A i \in DOMAIN list : list[i] \in ToSet(list)
  BY <1>1 DEF ToSet
<1>3. IsFiniteSet(DOMAIN list)
  BY <1>2, FS_Interval
<1>4. IsFiniteSet(ToSet(list))
  <2>1. list \in Surjection(DOMAIN list, ToSet(list))
    <3>1. list \in [DOMAIN list -> ToSet(list)]
      BY <1>1, <1>2
    <3>2. \A b \in ToSet(list) : \E i \in DOMAIN list : list[i] = b
      BY DEF ToSet
    <3>. HIDE DEF list
    <3>. QED
      BY <3>1, <3>2 DEF Surjection
  <2>. HIDE DEF list
  <2>. QED
    BY <1>3, <2>1, FS_Surjection
<1>5. IsFiniteSet(Blobs(d))
  <2>1. Blobs(d) = ToSet(list) \cup {c}
    BY DEF Blobs
  <2>. QED
    BY <1>4, <2>1, FS_AddElement
<1>6. BlobsOf(d) \in Seq(Blobs(d)) /\ Len(BlobsOf(d)) \in Nat
  <2>1. <<c>> \in Seq(Blobs(d)) /\ list \in Seq(Blobs(d))
    BY <1>1, <1>2 DEF Blobs
  <2>. HIDE DEF list, c
  <2>2. <<c>> \o list \in Seq(Blobs(d))
    BY <2>1
  <2>. QED
    BY <2>2 DEF BlobsOf, list, c
<1>7. IsFiniteSet(DOMAIN BlobsOf(d)) /\ \A i \in DOMAIN BlobsOf(d) : BlobsOf(d)[i] \in Blobs(d)
  <2>1. DOMAIN BlobsOf(d) = 1..Len(BlobsOf(d))
    BY <1>6
  <2>. QED
    BY <1>6, <2>1, FS_Interval
<1>. QED
  BY <1>3, <1>5, <1>7, ContentsAssumption

(* What is counted as the size of an image is no less than its blobs take. *)
LEMMA SummaryBound ==
  ASSUME NEW d \in Digests, NEW B, Blobs(d) \subseteq B, NEW f, Sums(f, Size, B)
  PROVE  image_summary(d) \in Nat /\ f[Blobs(d)] <= image_summary(d)
<1>. DEFINE list == Layers(d)
            c == Contents[d].config
            v == [i \in DOMAIN list |-> Size[list[i]]]
            P == [i \in DOMAIN list |-> {list[i]}]
<1>1. PICK g : IsTally(g, v, DOMAIN list) /\ FoldSeq(LAMBDA b, n : Size[b] + n, 0, list) = g[DOMAIN list]
  BY BlobsFine, LayersTally
<1>2. c \in Blobs(d) /\ ToSet(list) \subseteq Blobs(d) /\ Blobs(d) = {c} \cup ToSet(list)
  BY DEF Blobs
<1>3. \A i \in DOMAIN list : list[i] \in B /\ v[i] = Size[list[i]] /\ v[i] \in Nat /\ P[i] = {list[i]}
  BY <1>2, BlobsFine DEF ToSet
<1>4. IsFiniteSet(DOMAIN list)
  BY BlobsFine
<1>5. Part(P, DOMAIN list) = ToSet(list)
  BY <1>3 DEF Part, ToSet
<1>6. image_summary(d) = Size[c] + g[DOMAIN list]
  BY <1>1 DEF image_summary
<1>7. \A b \in B : f[{b}] = Size[b]
  <2>1. OneEach(f, Size, B)
    BY SumOne
  <2>. QED
    BY <2>1, Zenon DEF OneEach
<1>8. Size[c] \in Nat
  BY <1>2, BlobsFine
<1>. HIDE DEF list, c, v, P
<1>9. Sums(g, v, DOMAIN list)
  BY <1>1, <1>3, <1>4, TallySums
<1>10. f[ToSet(list)] <= g[DOMAIN list]
  <2>1. \A i \in DOMAIN list : P[i] \in SUBSET B /\ f[P[i]] <= v[i]
    BY <1>3, <1>7
  <2>2. f[Part(P, DOMAIN list)] <= g[DOMAIN list]
    BY <1>9, <2>1, SumOfSums
  <2>. QED
    BY <1>5, <2>2
<1>11. f[{c} \cup ToSet(list)] <= f[{c}] + f[ToSet(list)]
  <2>1. {c} \in SUBSET B /\ ToSet(list) \in SUBSET B
    BY <1>2
  <2>. QED
    BY <2>1, SumMeets
<1>12. g[DOMAIN list] \in Nat /\ f[ToSet(list)] \in Nat /\ f[Blobs(d)] \in Nat /\ f[{c}] = Size[c]
  <2>1. ToSet(list) \in SUBSET B /\ c \in B
    BY <1>2
  <2>. QED
    BY <1>7, <1>9, <2>1 DEF Sums
<1>13. f[Blobs(d)] <= f[{c}] + f[ToSet(list)]
  BY <1>2, <1>11
<1>. QED
  BY <1>6, <1>8, <1>10, <1>12, <1>13

(* What df -v calls unique is no more than those blobs take that no other  *)
(* image has, if the image has none twice.                                 *)
UniqueBlobs(images, d) == {b \in Blobs(d) : ~(Cardinality(Referencing(images, b)) > 1)}

LEMMA UniqueBound ==
  ASSUME NEW d \in Digests, NEW B, Blobs(d) \subseteq B, NEW f, Sums(f, Size, B), NEW images, NoneTwice(d)
  PROVE  UniqueSize(images, d) \in Nat /\ UniqueSize(images, d) <= f[UniqueBlobs(images, d)]
<1>. DEFINE list == BlobsOf(d)
            v == [i \in DOMAIN list |-> UniquePart(images, d, i)]
            Alone(i) == ~(Cardinality(Referencing(images, list[i])) > 1)
            P == [i \in DOMAIN list |-> IF Alone(i) THEN {list[i]} ELSE {}]
<1>1. PICK g : IsTally(g, v, DOMAIN list) /\ UniqueSize(images, d) = g[DOMAIN list]
  BY BlobsFine, UniqueTally
<1>2. \A i \in DOMAIN list : v[i] = IF Alone(i) THEN Size[list[i]] ELSE 0
  BY DEF UniquePart
<1>3. \A i \in DOMAIN list : list[i] \in Blobs(d) /\ Size[list[i]] \in Nat
  BY BlobsFine
<1>4. \A i \in DOMAIN list : P[i] = IF Alone(i) THEN {list[i]} ELSE {}
  OBVIOUS
<1>5. Part(P, DOMAIN list) \subseteq UniqueBlobs(images, d)
  BY <1>3, <1>4 DEF Part, UniqueBlobs
<1>6. \A i, j \in DOMAIN list : i # j => list[i] # list[j]
  BY DEF NoneTwice, IsInjective
<1>7. IsFiniteSet(DOMAIN list)
  BY BlobsFine
<1>8. \A b \in B : f[{b}] = Size[b]
  <2>1. OneEach(f, Size, B)
    BY SumOne
  <2>. QED
    BY <2>1, Zenon DEF OneEach
<1>. HIDE DEF list, v, P, Alone
<1>9. Sums(g, v, DOMAIN list)
  <2>1. \A i \in DOMAIN list : v[i] \in Nat
    BY <1>2, <1>3
  <2>. QED
    BY <1>1, <1>7, <2>1, TallySums
<1>10. g[DOMAIN list] <= f[Part(P, DOMAIN list)]
  <2>1. \A i \in DOMAIN list : P[i] \in SUBSET B /\ v[i] <= f[P[i]]
    <3>1. f[{}] = 0
      BY DEF Sums
    <3>2. ASSUME NEW i \in DOMAIN list, Alone(i) PROVE P[i] \in SUBSET B /\ v[i] <= f[P[i]]
      <4>1. P[i] = {list[i]} /\ v[i] = Size[list[i]] /\ list[i] \in B /\ v[i] \in Nat
        BY <1>2, <1>3, <1>4, <3>2
      <4>2. f[P[i]] = v[i]
        BY <1>8, <4>1
      <4>. QED
        BY <4>1, <4>2
    <3>3. ASSUME NEW i \in DOMAIN list, ~Alone(i) PROVE P[i] \in SUBSET B /\ v[i] <= f[P[i]]
      <4>1. P[i] = {} /\ v[i] = 0
        BY <1>2, <1>4, <3>3
      <4>. QED
        BY <3>1, <4>1
    <3>. QED
      BY <3>2, <3>3
  <2>2. \A i, j \in DOMAIN list : i # j => P[i] \cap P[j] = {}
    <3>1. \A i \in DOMAIN list : P[i] \subseteq {list[i]}
      BY <1>4
    <3>. QED
      BY <1>6, <3>1
  <2>. QED
    BY <1>9, <2>1, <2>2, SumOfSums
<1>11. f[Part(P, DOMAIN list)] <= f[UniqueBlobs(images, d)]
  <2>1. Part(P, DOMAIN list) \in SUBSET B /\ UniqueBlobs(images, d) \in SUBSET B
    BY <1>5 DEF UniqueBlobs
  <2>. QED
    BY <1>5, <2>1, SumMeets
<1>12. g[DOMAIN list] \in Nat /\ f[Part(P, DOMAIN list)] \in Nat /\ f[UniqueBlobs(images, d)] \in Nat
  <2>1. Part(P, DOMAIN list) \in SUBSET B /\ UniqueBlobs(images, d) \in SUBSET B
    BY <1>5 DEF UniqueBlobs
  <2>. QED
    BY <1>9, <2>1 DEF Sums
<1>. QED
  BY <1>1, <1>10, <1>11, <1>12

(* All images of a store, and the ones in use.                             *)
LEMMA PresentFine ==
  ASSUME NEW t, TablesOK(t)
  PROVE  /\ IsFiniteSet(Present(t.images)) /\ Present(t.images) \subseteq Digests
         /\ images_in_use_digests(t.containers, t.images) \subseteq Present(t.images)
         /\ \A D \in SUBSET Present(t.images) : IsFiniteSet(D) /\ IsFiniteSet(UNION {Blobs(d) : d \in D})
<1>1. IsFiniteSet(Present(t.images))
  <2>1. t.images \in [DOMAIN t.images -> Present(t.images)] => t.images \in Surjection(DOMAIN t.images, Present(t.images))
    BY DEF Surjection, Present
  <2>. DEFINE m == [r \in DOMAIN t.images |-> t.images[r]]
  <2>2. m \in Surjection(DOMAIN t.images, Present(t.images))
    BY DEF Surjection, Present
  <2>3. IsFiniteSet(DOMAIN t.images)
    BY DEF TablesOK
  <2>. HIDE DEF m
  <2>. QED
    BY <2>2, <2>3, FS_Surjection
<1>2. /\ Present(t.images) \subseteq Digests
      /\ images_in_use_digests(t.containers, t.images) \subseteq Present(t.images)
  BY DEF TablesOK, Present, images_in_use_digests
<1>3. ASSUME NEW D \in SUBSET Present(t.images) PROVE IsFiniteSet(D) /\ IsFiniteSet(UNION {Blobs(d) : d \in D})
  <2>1. IsFiniteSet(D)
    BY <1>1, FS_Subset
  <2>. DEFINE B == {Blobs(d) : d \in D}
              m == [d \in D |-> Blobs(d)]
  <2>2. m \in Surjection(D, B)
    BY DEF Surjection
  <2>3. \A T \in B : IsFiniteSet(T)
    BY <1>2, BlobsFine
  <2>. HIDE DEF m, B
  <2>4. IsFiniteSet(UNION B)
    BY <2>1, <2>2, <2>3, FS_Surjection, FS_UNION
  <2>. QED
    BY <2>1, <2>4 DEF B
<1>. QED
  BY <1>1, <1>2, <1>3

(* What goes with prune --all: the images nobody uses, and the blobs that  *)
(* only they name.                                                         *)
LEMMA AllPruned ==
  ASSUME NEW t, TablesOK(t), NEW u, u = prune_images_and_reclaim(t, TRUE, {})
  PROVE  /\ Present(u.images) = images_in_use_digests(t.containers, t.images)
         /\ u.blobs = t.blobs \cap Reachable(u.images)
<1>. DEFINE used == images_in_use_digests(t.containers, t.images)
            gone == {ref \in DOMAIN t.images :
                        ImagePruned(t.containers, t.images, TRUE, {}, ref)}
            kept == [ref \in DOMAIN t.images \ gone |-> t.images[ref]]
<1>1. \A ref \in DOMAIN t.images : ref \in gone <=> t.images[ref] \notin used
  BY DEF ImagePruned, OfKind, AnyLabel
<1>2. u.images = kept /\ u.blobs = t.blobs \cap Reachable(kept)
  BY DEF prune_images_and_reclaim, TablesOK, Fields
<1>3. used \subseteq Present(t.images)
  BY PresentFine
<1>. HIDE DEF gone, used
<1>4. Present(kept) = used
  BY <1>1, <1>3 DEF Present
<1>. QED
  BY <1>2, <1>4 DEF used

(* A blob that is unique to an image is in no other.                       *)
LEMMA OnlyOne ==
  ASSUME NEW t, TablesOK(t), NEW d \in Present(t.images), NEW b \in UniqueBlobs(t.images, d),
         NEW e \in Present(t.images), b \in Blobs(e)
  PROVE  e = d
<1>. SUFFICES ASSUME e # d PROVE FALSE
  OBVIOUS
<1>. DEFINE R == Referencing(t.images, b)
<1>1. d \in R /\ e \in R /\ R \subseteq Present(t.images)
  BY DEF Referencing, UniqueBlobs
<1>2. ~(Cardinality(R) > 1)
  BY DEF UniqueBlobs
<1>. HIDE DEF R
<1>3. IsFiniteSet(R)
  BY <1>1, PresentFine
<1>4. Cardinality({d, e}) <= Cardinality(R)
  BY <1>1, <1>3, FS_Subset
<1>5. Cardinality({d, e}) = 2
  <2>1. {d, e} = {d} \cup {e}
    OBVIOUS
  <2>. QED
    <3>1. IsFiniteSet({d}) /\ Cardinality({d}) = 1 /\ e \notin {d}
      BY FS_Singleton
    <3>2. Cardinality({d} \cup {e}) = Cardinality({d}) + 1
      BY <3>1, FS_AddElement, Zenon
    <3>. QED
      BY <2>1, <3>1, <3>2
<1>. QED
  BY <1>2, <1>3, <1>4, <1>5, FS_CardinalityType

Unused(t) == Present(t.images) \ images_in_use_digests(t.containers, t.images)
Freed(t, u) == ((t.blobs \ u.blobs) \cap Reachable(t.images)) \ Digests

LEMMA FreedAre ==
  ASSUME NEW t, TablesOK(t), NEW u, u = prune_images_and_reclaim(t, TRUE, {})
  PROVE  /\ Freed(t, u) \subseteq UNION {Blobs(d) : d \in Unused(t)}
         /\ Reachable(t.images) \subseteq t.blobs =>
              \A d \in Unused(t) : UniqueBlobs(t.images, d) \subseteq Freed(t, u)
<1>. DEFINE used == images_in_use_digests(t.containers, t.images)
<1>1. /\ used \subseteq Present(t.images) /\ Present(t.images) \subseteq Digests
      /\ Present(u.images) = used /\ u.blobs = t.blobs \cap Reachable(u.images)
  BY PresentFine, AllPruned
<1>2. \A d \in Present(t.images) : \A b \in Blobs(d) : b \notin Digests
  BY <1>1, BlobsFine
<1>. HIDE DEF used
<1>3. /\ Reachable(t.images) = Present(t.images) \cup UNION {Blobs(d) : d \in Present(t.images)}
      /\ Reachable(u.images) = used \cup UNION {Blobs(d) : d \in used}
  BY <1>1 DEF Reachable
<1>4. Unused(t) = Present(t.images) \ used
  BY DEF Unused, used
<1>5. ASSUME NEW b \in Freed(t, u) PROVE b \in UNION {Blobs(d) : d \in Unused(t)}
  <2>1. /\ b \in t.blobs /\ b \notin Reachable(u.images) /\ b \notin Digests
        /\ b \in Reachable(t.images)
    BY <1>1 DEF Freed
  <2>2. PICK d \in Present(t.images) : b \in Blobs(d)
    BY <1>1, <1>3, <2>1
  <2>3. d \notin used
    BY <1>3, <2>1, <2>2
  <2>. QED
    BY <1>4, <2>2, <2>3
<1>6. ASSUME Reachable(t.images) \subseteq t.blobs, NEW d \in Unused(t), NEW b \in UniqueBlobs(t.images, d)
      PROVE  b \in Freed(t, u)
  <2>1. d \in Present(t.images) /\ d \notin used /\ b \in Blobs(d)
    BY <1>4 DEF UniqueBlobs
  <2>2. b \in Reachable(t.images) /\ b \in t.blobs /\ b \notin Digests
    BY <1>2, <1>3, <1>6, <2>1
  <2>3. \A e \in Present(t.images) : b \in Blobs(e) => e = d
    BY <2>1, OnlyOne
  <2>4. b \notin Reachable(u.images)
    <3>1. b \notin used
      BY <1>1, <2>2
    <3>2. \A e \in used : b \notin Blobs(e)
      BY <1>1, <2>1, <2>3
    <3>. QED
      BY <1>3, <3>1, <3>2
  <2>. QED
    BY <1>1, <2>2, <2>4 DEF Freed
<1>. QED
  BY <1>5, <1>6

(* What is freed is no more than the sizes of the images nobody uses.      *)
LEMMA FreedBelow ==
  ASSUME NEW t, TablesOK(t), NEW u, u = prune_images_and_reclaim(t, TRUE, {})
  PROVE  Bytes(Freed(t, u)) <= DfImages(t.containers, t.images).reclaimable
<1>. DEFINE D == Unused(t)
            B == UNION {Blobs(d) : d \in D}
            v == [d \in D |-> image_summary(d)]
            P == [d \in D |-> Blobs(d)]
            F == Freed(t, u)
<1>1. D \in SUBSET Present(t.images) /\ D \subseteq Digests
  BY PresentFine DEF Unused
<1>2. IsFiniteSet(D) /\ IsFiniteSet(B)
  BY <1>1, PresentFine
<1>3. \A d \in D : v[d] = image_summary(d) /\ P[d] = Blobs(d) /\ P[d] \in SUBSET B
  OBVIOUS
<1>4. \A b \in B : Size[b] \in Nat
  BY <1>1, BlobsFine
<1>5. F \in SUBSET B
  BY FreedAre
<1>6. Part(P, D) = B
  BY <1>3 DEF Part
<1>7. PICK g : /\ IsTally(g, v, D)
               /\ FoldSet(LAMBDA d, n : image_summary(d) + n, 0, D) = g[D]
  BY <1>2, SummaryTally
<1>8. DfImages(t.containers, t.images).reclaimable = g[D]
  BY <1>7 DEF DfImages, Unused
<1>. HIDE DEF D, B, v, P, F
<1>9. PICK f : Sums(f, Size, B)
  BY <1>2, <1>4, TallyThere, TallySums
<1>10. \A d \in D : v[d] \in Nat /\ f[P[d]] <= v[d]
  BY <1>1, <1>3, <1>9, SummaryBound
<1>11. Sums(g, v, D)
  BY <1>2, <1>7, <1>10, TallySums
<1>12. f[B] <= g[D]
  <2>1. f[Part(P, D)] <= g[D]
    BY <1>3, <1>9, <1>10, <1>11, SumOfSums
  <2>. QED
    BY <1>6, <2>1
<1>13. Bytes(F) = f[F]
  BY <1>2, <1>4, <1>5, <1>9, BytesAre
<1>14. f[F] <= f[B]
  BY <1>5, <1>9, SumMeets
<1>15. f[F] \in Nat /\ f[B] \in Nat /\ g[D] \in Nat
  BY <1>5, <1>9, <1>11 DEF Sums
<1>. QED
  <2>1. \A a, b, c \in Nat : a <= b /\ b <= c => a <= c
    OBVIOUS
  <2>2. f[F] <= g[D]
    BY <1>12, <1>14, <1>15, <2>1, Zenon
  <2>. QED
    BY <1>8, <1>13, <2>2, Zenon DEF F

(* ... and no less than what is unique to them, as df -v has it.           *)
LEMMA FreedAbove ==
  ASSUME TablesOK(tables), Reachable(tables.images) \subseteq tables.blobs,
         NEW u, u = prune_images_and_reclaim(tables, TRUE, {})
  PROVE  Bytes(Freed(tables, u)) >= UniqueBytes({d \in Unused(tables) : NoneTwice(d)})
<1>. DEFINE D == {d \in Unused(tables) : NoneTwice(d)}
            B == UNION {Blobs(d) : d \in Unused(tables)}
            v == [d \in D |-> UniqueSize(tables.images, d)]
            P == [d \in D |-> UniqueBlobs(tables.images, d)]
            F == Freed(tables, u)
<1>1. /\ Unused(tables) \in SUBSET Present(tables.images) /\ D \in SUBSET Present(tables.images)
      /\ D \subseteq Digests /\ Unused(tables) \subseteq Digests
  BY PresentFine DEF Unused
<1>2. IsFiniteSet(D) /\ IsFiniteSet(B)
  BY <1>1, PresentFine
<1>3. \A d \in D : /\ v[d] = UniqueSize(tables.images, d) /\ P[d] = UniqueBlobs(tables.images, d)
                   /\ Blobs(d) \subseteq B /\ P[d] \in SUBSET B /\ NoneTwice(d)
  BY DEF UniqueBlobs
<1>4. \A b \in B : Size[b] \in Nat
  BY <1>1, BlobsFine
<1>5. F \in SUBSET B
  BY FreedAre
<1>6. Part(P, D) \subseteq F
  <2>1. \A d \in D : UniqueBlobs(tables.images, d) \subseteq F
    BY FreedAre
  <2>. QED
    BY <1>3, <2>1 DEF Part
<1>7. PICK g : IsTally(g, v, D) /\ UniqueBytes(D) = g[D]
  BY <1>2, UniqueBytesTally
<1>8. \A d, e \in D : d # e => P[d] \cap P[e] = {}
  <2>. SUFFICES ASSUME NEW d \in D, NEW e \in D, d # e, NEW b \in P[d], b \in P[e] PROVE FALSE
    OBVIOUS
  <2>1. /\ d \in Present(tables.images) /\ e \in Present(tables.images)
        /\ b \in UniqueBlobs(tables.images, d) /\ b \in Blobs(e)
    BY <1>1, <1>3 DEF UniqueBlobs
  <2>2. e = d
    BY <2>1, OnlyOne
  <2>. QED
    BY <2>2
<1>. HIDE DEF D, B, v, P, F
<1>9. PICK f : Sums(f, Size, B)
  BY <1>2, <1>4, TallyThere, TallySums
<1>10. \A d \in D : v[d] \in Nat /\ v[d] <= f[P[d]]
  BY <1>1, <1>3, <1>9, UniqueBound
<1>11. Sums(g, v, D)
  BY <1>2, <1>7, <1>10, TallySums
<1>12. g[D] <= f[Part(P, D)]
  BY <1>3, <1>8, <1>9, <1>10, <1>11, SumOfSums
<1>13. Bytes(F) = f[F]
  BY <1>2, <1>4, <1>5, <1>9, BytesAre
<1>14. Part(P, D) \in SUBSET B /\ f[Part(P, D)] <= f[F]
  BY <1>5, <1>6, <1>9, SumMeets
<1>15. f[F] \in Nat /\ f[Part(P, D)] \in Nat /\ g[D] \in Nat
  BY <1>5, <1>9, <1>11, <1>14 DEF Sums
<1>. QED
  <2>1. \A a, b, c \in Nat : a <= b /\ b <= c => c >= a
    OBVIOUS
  <2>2. f[F] >= g[D]
    BY <1>12, <1>14, <1>15, <2>1, Zenon
  <2>. QED
    BY <1>7, <1>13, <2>2, Zenon DEF F, D

(* A step that answers image prune with success is the one that prunes.    *)
LEMMA PruneStep ==
  ASSUME Next, Calls("cmd_image_prune"), answer' = Done
  PROVE  \E terms \in Terms(ImageFilters) :
            tables' = prune_images_and_reclaim(tables, "all" \in Passed, terms)
<1>1. line # NoLine /\ call.handler = "cmd_image_prune"
  BY DEF Calls
<1>2. ~(Type \/ Prompt \/ ContainerMade \/ ContainerExits \/ UntaggedMade)
  BY <1>1 DEF Type, Prompt, ContainerMade, ContainerExits, UntaggedMade
<1>3. ~(Refuse \/ Elsewhere \/ Images \/ Rmi \/ Tag \/ Untag \/ History \/ Pull \/ Push)
  BY <1>1 DEF Refuse, Elsewhere, Images, Rmi, Tag, Untag, History, Pull, Push, Calls, Answered
<1>4. ~(ImageExists \/ ContainerExists \/ VolumeExists \/ Inspect \/ ImageMount \/ Ps \/ Df)
  BY <1>1 DEF ImageExists, ContainerExists, VolumeExists, Inspect, ImageMount, Ps, Df, Calls
<1>5. ~(ContainerPrune \/ SystemPrune \/ Reset \/ ListVolumes \/ VolumePrune \/ VolumeRm \/ VolumeRename)
  BY <1>1 DEF ContainerPrune, SystemPrune, Reset, ListVolumes, VolumePrune, VolumeRm, VolumeRename, Calls
<1>6. ~(Configure \/ Exec \/ Update \/ HealthcheckRun)
  BY <1>1 DEF Configure, Exec, Update, HealthcheckRun, Calls, Configured
<1>7. ImagePrune
  BY <1>2, <1>3, <1>4, <1>5, <1>6 DEF Next
<1>8. Error # Done
  BY DEF Error, Done
<1>9. \A new : Change(new) => tables' = new
  BY DEF Change
<1>10. ~Say(Error)
  BY <1>8 DEF Say
<1>. QED
  BY <1>7, <1>9, <1>10 DEF ImagePrune

(* Whatever the images and their layers, image prune --all frees what      *)
(* system df calls reclaimable, or less where images share layers, and no  *)
(* less than what system df -v calls unique to the images that go.         *)
THEOREM DfIsTrue == Spec => DfForetells
<1>1. ASSUME TablesOK(tables), Next, Calls("cmd_image_prune"), answer' = Done,
             "all" \in Passed, "filter" \notin Passed
      PROVE  /\ FreedBytes <= cmd_system_df(tables).images.reclaimable
             /\ FreedBytes >= UniqueBytes({d \in UnusedDigests : NoneTwice(d)})
  <2>1. tables' = prune_images_and_reclaim(tables, TRUE, {})
    BY <1>1, PruneStep DEF Terms
  <2>2. FreedBytes = Bytes(Freed(tables, tables')) /\ UnusedDigests = Unused(tables)
    BY DEF FreedBytes, Freed, UnusedDigests, Unused
  <2>3. cmd_system_df(tables).images = DfImages(tables.containers, tables.images)
    BY DEF cmd_system_df
  <2>4. Bytes(Freed(tables, tables')) <= DfImages(tables.containers, tables.images).reclaimable
    BY <1>1, <2>1, FreedBelow
  <2>5. Bytes(Freed(tables, tables')) >= UniqueBytes({d \in Unused(tables) : NoneTwice(d)})
    BY <1>1, <2>1, FreedAbove DEF TablesOK
  <2>. QED
    BY <2>2, <2>3, <2>4, <2>5
<1>2. TablesOK(tables) /\ [Next]_vars =>
        [Calls("cmd_image_prune") /\ answer' = Done =>
           ("all" \in Passed /\ "filter" \notin Passed =>
             /\ FreedBytes <= cmd_system_df(tables).images.reclaimable
             /\ FreedBytes >= UniqueBytes({d \in UnusedDigests : NoneTwice(d)}))]_vars
  BY <1>1
<1>. QED
  BY <1>2, TablesAlways, PTL DEF DfForetells, Spec
=============================================================================
