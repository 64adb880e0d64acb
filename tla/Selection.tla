------------------------------ MODULE Selection ------------------------------
(***************************************************************************)
(* How the container commands of ociman name the containers they act on    *)
(* (bin/ociman/src/main.rs): an id or a name, --all, --latest, --cidfile   *)
(* and --filter, the combinations each command refuses, and the filters.   *)
(*                                                                         *)
(* A container id stands for the time it was created at, since an id is    *)
(* never used twice: the newest container has the largest id.  A table is  *)
(* a function from ids to records with at least the fields name and labels; *)
(* an id that is not in its domain has no record.                          *)
(***************************************************************************)
EXTENDS Naturals, SequencesExt

CONSTANTS
    NoName,   \* a container without --name, a --cidfile that cannot be read
    NoValue,  \* a label constraint without a value
    NoUntil   \* a filter without until=

NoId == 0

(* The containers of a table that carry a name. *)
Named(table, name) == {i \in DOMAIN table : table[i].name = name}

(* An id wins over a name; a name that several containers carry is an error. *)
resolve_container_id(table, ref) ==
    IF ref \in DOMAIN table THEN ref
    ELSE IF ref # NoName /\ Cardinality(Named(table, ref)) = 1
         THEN CHOOSE i \in Named(table, ref) : TRUE
         ELSE NoId

(* container exists asks the same question and answers it with a status. *)
container_exists(table, ref) == resolve_container_id(table, ref) # NoId

(* --latest: the record with the greatest creation time. *)
resolve_latest_container(table) ==
    IF DOMAIN table = {} THEN NoId ELSE Max(DOMAIN table)

(* label=key, label=key=value and their negations label!=... *)
LabelMatches(constraint, labels) ==
    constraint.negate #
        /\ constraint.key \in DOMAIN labels
        /\ constraint.value \in {NoValue, labels[constraint.key]}

(* rm, stop, restart, pause, container prune: any label constraint is enough, and
   the container is older than until. *)
matches_label_until_filters(filter, i, record) ==
    /\ \/ filter.labels = {}
       \/ \E constraint \in filter.labels : LabelMatches(constraint, record.labels)
    /\ filter.until # NoUntil => i < filter.until

(* The terms of --filter: label constraints add up, a second until= and any other
   term are errors. *)
parse_label_until_filters(terms) ==
    LET untils == {t \in terms : t.kind = "until"}
        labels == {t \in terms : t.kind = "label"} IN
    [ok |-> Cardinality(untils) <= 1 /\ terms = untils \cup labels,
     labels |-> labels,
     until |-> IF untils = {} THEN NoUntil ELSE (CHOOSE t \in untils : TRUE).until]

-----------------------------------------------------------------------------
(* The arguments of a command that acts on several containers.  refs are the
   operands and cidfiles the ids read from the files that --cidfile names. *)

Empty(sel) == sel.refs = <<>> /\ sel.cidfiles = <<>>

(* Each of --all, --filter and --latest wants to be alone. *)
Exclusive(sel) ==
    /\ sel.cidfiles # <<>> => ~sel.all
    /\ sel.filter # {} => Empty(sel) /\ ~sel.all
    /\ sel.latest => Empty(sel) /\ ~sel.all /\ sel.filter = {}
    /\ sel.refs # <<>> => ~sel.all

StopAccepts(sel) ==
    /\ Exclusive(sel)
    /\ ~Empty(sel) \/ sel.all \/ sel.latest \/ sel.filter # {}

PauseAccepts(sel) ==
    /\ Exclusive(sel)
    /\ ~Empty(sel) \/ sel.all \/ sel.latest \/ sel.filter # {}

RestartAccepts(sel) ==
    /\ Exclusive(sel)
    /\ ~Empty(sel) \/ sel.all \/ sel.latest \/ sel.filter # {}

KillAccepts(sel) ==
    /\ Exclusive(sel) /\ sel.filter = {}
    /\ ~Empty(sel) \/ sel.all \/ sel.latest

(* rm also wants --force before it takes --time. *)
RmAccepts(sel, force, time) ==
    /\ time => force
    /\ Exclusive(sel)
    /\ ~Empty(sel) \/ sel.all \/ sel.latest \/ sel.filter # {}

(* cleanup, init, mount, unmount and port: one of --all, --latest and operands. *)
OneWay(sel) ==
    /\ ~(sel.all /\ sel.latest)
    /\ ~(sel.all /\ sel.refs # <<>>)
    /\ ~(sel.latest /\ sel.refs # <<>>)

OneWayGiven(sel) == OneWay(sel) /\ (sel.all \/ sel.latest \/ sel.refs # <<>>)

(* The operands and the ids the --cidfile files hold.  A file that cannot be read is
   skipped with --ignore and an error otherwise. *)
Operands(sel) == sel.refs \o SelectSeq(sel.cidfiles, LAMBDA ref : ref # NoName)

(* The ids of a table in the order of their creation. *)
ByCreation(table) == SetToSortSeq(DOMAIN table, <)

(* The ids that pass the filter. *)
Filtered(table, terms) ==
    LET filter == parse_label_until_filters(terms) IN
    SelectSeq(ByCreation(table), LAMBDA i : matches_label_until_filters(filter, i, table[i]))

(* What a command that takes every selection acts on, in order: the list it makes
   before it starts on the first one. *)
Targets(table, sel) ==
    IF sel.filter # {} THEN Filtered(table, sel.filter)
    ELSE IF sel.all THEN ByCreation(table)
    ELSE IF sel.latest THEN <<resolve_latest_container(table)>>
    ELSE SelectSeq(Operands(sel), LAMBDA ref : container_exists(table, ref))

(* An operand or a --cidfile that leads nowhere stops the command before the first
   container, unless it may be ignored; so do a bad filter and --latest of nothing. *)
TargetsFound(table, sel, ignore) ==
    /\ ~ignore => NoName \notin ToSet(sel.cidfiles)
    /\ ~ignore => \A ref \in ToSet(Operands(sel)) : container_exists(table, ref)
    /\ sel.latest => DOMAIN table # {}
    /\ parse_label_until_filters(sel.filter).ok
=============================================================================
