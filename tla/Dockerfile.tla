----------------------------- MODULE Dockerfile -----------------------------
(***************************************************************************)
(* oci-dockerfile: the physical lines of a Dockerfile are joined, parsed   *)
(* into instructions, grouped into stages and expanded; the stages a       *)
(* target needs are found; a .dockerignore decides which paths exist.      *)
(*                                                                         *)
(* A text is a sequence of pieces: a literal, or a reference to a variable *)
(* with a modifier and an alternative text.  Expanded texts hold literals  *)
(* only.  A word remembers the part before its first equals sign (key).    *)
(***************************************************************************)
EXTENDS Integers, FiniteSets, Sequences, SequencesExt

Lit(atom) == [k |-> "lit", v |-> atom, mod |-> "", alt |-> <<>>]
Var(name, mod, alt) == [k |-> "var", v |-> name, mod |-> mod, alt |-> alt]

Text(atoms) == [i \in DOMAIN atoms |-> Lit(atoms[i])]
Atoms(text) == [i \in DOMAIN text |-> text[i].v]

Word(text) == [eq |-> FALSE, key |-> text[1].v, text |-> text]
Pair(key, text) == [eq |-> TRUE, key |-> key, text |-> text]

(* A physical line.  tail is the escape character it ends with, if any.    *)
(* A comment may have the form of a directive, key=value.                  *)
Physical(op, flags, words, exec, tail) ==
    [what |-> "code", op |-> op, flags |-> flags, words |-> words, exec |-> exec,
     tail |-> tail, key |-> "", val |-> ""]
Comment(key, val) ==
    [Physical("", <<>>, <<>>, FALSE, "") EXCEPT !.what = "comment", !.key = key, !.val = val]

Flag(name, text) == [name |-> name, text |-> text, time |-> <<>>]

(***************************************************************************)
(* Lines.                                                                  *)
(***************************************************************************)

(* scan_directives: the comments at the top, until one is no directive.    *)
ScanDirectives(lines) ==
    LET known(l) == l.what = "comment" /\ l.key \in {"escape", "syntax", "check"}
        top == {i \in DOMAIN lines : \A j \in 1..i : known(lines[j])}
        escapes == {i \in top : lines[i].key = "escape"}
    IN [ok |-> /\ Cardinality(escapes) <= 1
               /\ \A i \in escapes : lines[i].val \in {"backslash", "backtick"},
        escape |-> IF escapes = {} THEN "backslash" ELSE lines[Min(escapes)].val]

Joined(a, b) ==
    [a EXCEPT !.flags = IF a.words = <<>> THEN @ \o b.flags ELSE @,
              !.words = @ \o b.words, !.tail = b.tail]

(* splice_lines: comments and blank lines go, also inside a continuation.  *)
SpliceLines(lines, escape) ==
    LET code == SelectSeq(lines, LAMBDA l : l.what = "code")
        open(s) == s # <<>> /\ Last(s).tail = escape
    IN FoldLeft(LAMBDA s, l : IF open(s) THEN Append(Front(s), Joined(Last(s), l))
                              ELSE Append(s, l),
                <<>>, code)

(***************************************************************************)
(* Instructions.  Each has the same fields; those it has no use for stay   *)
(* empty.                                                                  *)
(***************************************************************************)
Plain(op) ==
    [op |-> op, exec |-> FALSE, words |-> <<>>, pairs |-> <<>>, dest |-> <<>>,
     from |-> <<>>, chown |-> <<>>, chmod |-> <<>>, checksum |-> <<>>, exclude |-> <<>>,
     health |-> <<>>, trigger |-> <<>>]

Good(ins) == [ok |-> TRUE, ins |-> ins]
Bad == [ok |-> FALSE, ins |-> Plain("")]

Texts(words) == [i \in DOMAIN words |-> words[i].text]

(* The last flag of a name, <<>> without one.                              *)
FlagText(line, name) ==
    LET given == SelectSeq(line.flags, LAMBDA f : f.name = name)
    IN IF given = <<>> THEN <<>> ELSE Last(given).text

FlagsWithin(line, allowed) == \A i \in DOMAIN line.flags : line.flags[i].name \in allowed

ParseFrom(line) ==
    LET w == line.words
    IN IF /\ FlagsWithin(line, {"platform"})
          /\ Len(w) = 1 \/ (Len(w) = 3 /\ w[2].key \in {"as", "AS"})
       THEN Good([Plain("FROM") EXCEPT !.words = Texts(w), !.from = FlagText(line, "platform")])
       ELSE Bad

ParseShellOrExec(line) ==
    Good([Plain(line.op) EXCEPT !.exec = line.exec, !.words = Texts(line.words)])

(* COPY and ADD: the last word is the destination.                         *)
ParseCopyAdd(line, allowed) ==
    LET w == Texts(line.words)
        excludes == SelectSeq(line.flags, LAMBDA f : f.name = "exclude")
    IN IF FlagsWithin(line, allowed) /\ Len(w) >= 2
       THEN Good([Plain(line.op) EXCEPT
                    !.words = Front(w), !.dest = Last(w),
                    !.from = FlagText(line, "from"), !.chown = FlagText(line, "chown"),
                    !.chmod = FlagText(line, "chmod"), !.checksum = FlagText(line, "checksum"),
                    !.exclude = [i \in DOMAIN excludes |-> excludes[i].text]])
       ELSE Bad

ParseCopy(line) == ParseCopyAdd(line, {"from", "chown", "chmod", "exclude"})
ParseAdd(line) == ParseCopyAdd(line, {"chown", "chmod", "checksum", "exclude"})

(* ENV and LABEL: pairs, or the old form of one key and the rest.          *)
ParseNameValList(line) ==
    LET w == line.words
        rest == FlattenSeq(Texts(Tail(w)))
    IN CASE w = <<>> -> Bad
         [] ~w[1].eq /\ Len(w) = 1 -> Bad
         [] ~w[1].eq -> Good([Plain(line.op) EXCEPT
                              !.pairs = <<[key |-> w[1].key, has |-> TRUE, text |-> rest]>>])
         [] \E i \in DOMAIN w : ~w[i].eq -> Bad
         [] OTHER -> Good([Plain(line.op) EXCEPT
                !.pairs = [i \in DOMAIN w |->
                    [key |-> w[i].key, has |-> TRUE, text |-> w[i].text]]])

ParseArg(line) ==
    LET w == line.words
    IN IF w = <<>> \/ \E i \in DOMAIN w : w[i].eq /\ w[i].key = "" THEN Bad
       ELSE Good([Plain("ARG") EXCEPT
                !.pairs = [i \in DOMAIN w |->
                    [key |-> w[i].key, has |-> w[i].eq,
                     text |-> IF w[i].eq THEN w[i].text ELSE <<>>]]])

(* One argument, kept as it is.                                            *)
ParseOne(line) ==
    IF line.words = <<>> THEN Bad
    ELSE Good([Plain(line.op) EXCEPT !.words = <<FlattenSeq(Texts(line.words))>>])

ParseSome(line) ==
    IF line.words = <<>> \/ (line.op = "SHELL" /\ ~line.exec) THEN Bad
    ELSE Good([Plain(line.op) EXCEPT !.words = Texts(line.words)])

(* parse_go_duration in microseconds: numbers with units, summed.          *)
Micros == [us |-> 1, ms |-> 1000, s |-> 1000000, m |-> 60000000]

ParseGoDuration(time) ==
    FoldLeft(LAMBDA r, t : [ok |-> r.ok /\ t.unit \in DOMAIN Micros,
                            us |-> IF t.unit \in DOMAIN Micros
                                   THEN r.us + t.n * Micros[t.unit] ELSE r.us],
             [ok |-> TRUE, us |-> 0], time)

(* Nothing and zero mean the default; the least duration is 1ms.           *)
ParseOptionalGoDuration(time) ==
    LET d == ParseGoDuration(time)
    IN [ok |-> d.ok /\ (d.us = 0 \/ d.us >= Micros["ms"]), us |-> d.us]

HealthFlags == {"interval", "timeout", "start-period", "start-interval", "retries"}

ParseHealthcheck(line) ==
    LET w == line.words
        times == [i \in DOMAIN line.flags |-> ParseOptionalGoDuration(line.flags[i].time)]
        test == IF w[1].key = "NONE" THEN <<Text(<<"NONE">>)>>
                ELSE <<Text(<<IF line.exec THEN "CMD" ELSE "CMD-SHELL">>)>> \o Texts(Tail(w))
    IN IF /\ FlagsWithin(line, HealthFlags)
          /\ \A i \in DOMAIN times : times[i].ok
          /\ w # <<>>
          /\ \/ w[1].key = "NONE" /\ Len(w) = 1
             \/ w[1].key = "CMD" /\ Len(w) > 1
       THEN Good([Plain("HEALTHCHECK") EXCEPT !.words = test,
                    !.health = [i \in DOMAIN times |-> <<line.flags[i].name, times[i].us>>]])
       ELSE Bad

(* The trigger stays text; it is parsed when a later build runs it.        *)
ParseOnbuild(line) ==
    IF line.words = <<>> \/ line.words[1].key \in {"ONBUILD", "MAINTAINER", "FROM"} THEN Bad
    ELSE Good([Plain("ONBUILD") EXCEPT
                !.trigger = <<[line EXCEPT !.op = line.words[1].key, !.words = Tail(@)]>>])

OneWord == {"WORKDIR", "USER", "STOPSIGNAL", "MAINTAINER"}

ParseInstruction(line) ==
    CASE line.op = "FROM" -> ParseFrom(line)
      [] line.op \in {"RUN", "CMD", "ENTRYPOINT"} -> ParseShellOrExec(line)
      [] line.op = "COPY" -> ParseCopy(line)
      [] line.op = "ADD" -> ParseAdd(line)
      [] line.op \in {"ENV", "LABEL"} -> ParseNameValList(line)
      [] line.op = "ARG" -> ParseArg(line)
      [] line.op \in OneWord -> ParseOne(line)
      [] line.op \in {"EXPOSE", "VOLUME", "SHELL"} -> ParseSome(line)
      [] line.op = "ONBUILD" -> ParseOnbuild(line)
      [] line.op = "HEALTHCHECK" -> ParseHealthcheck(line)
      [] OTHER -> Bad

ParseFile(lines) ==
    LET d == ScanDirectives(lines)
        logical == SpliceLines(lines, d.escape)
        parsed == [i \in DOMAIN logical |-> ParseInstruction(logical[i])]
    IN [ok |-> d.ok /\ logical # <<>> /\ \A i \in DOMAIN parsed : parsed[i].ok,
        list |-> [i \in DOMAIN parsed |-> parsed[i].ins]]

(***************************************************************************)
(* Stages.                                                                 *)
(***************************************************************************)
Stage(from) ==
    [base |-> from.words[1], name |-> IF Len(from.words) = 3 THEN from.words[3][1].v ELSE "",
     platform |-> from.from, list |-> <<>>]

(* group_stages: ARGs above the first FROM, then one stage per FROM.       *)
GroupStages(list) ==
    FoldLeft(LAMBDA g, ins :
                CASE ~g.ok -> g
                  [] g.stages = <<>> /\ ins.op = "ARG" -> [g EXCEPT !.meta = Append(@, ins)]
                  [] ins.op = "FROM" -> [g EXCEPT !.stages = Append(@, Stage(ins))]
                  [] g.stages = <<>> -> [g EXCEPT !.ok = FALSE]
                  [] OTHER -> [g EXCEPT !.stages[Len(g.stages)].list = Append(@, ins)],
             [ok |-> TRUE, meta |-> <<>>, stages |-> <<>>], list)

(* The first stage of a name among the first n; 0 when there is none.      *)
Named(stages, n, text) ==
    LET hits == {i \in 1..n : stages[i].name # "" /\ <<stages[i].name>> = Atoms(text)}
    IN IF hits = {} THEN 0 ELSE Min(hits)

FindStage(stages, text) == Named(stages, Len(stages), text)

ResolveDependencies(stages) ==
    [i \in DOMAIN stages |-> Named(stages, i - 1, stages[i].base)]

ResolveCopyFromDependencies(stages) ==
    [i \in DOMAIN stages |->
        {Named(stages, i - 1, stages[i].list[j].from) :
            j \in {j \in DOMAIN stages[i].list : /\ stages[i].list[j].op = "COPY"
                                                 /\ stages[i].list[j].from # <<>>}} \ {0}]

(* stages_needed_for: everything reached from the target.                  *)
StagesNeededFor(deps, copies, target) ==
    LET near(i) == ({deps[i]} \ {0}) \cup copies[i]
        reach[n \in 0..Len(deps)] ==
            IF n = 0 THEN {target}
            ELSE reach[n - 1] \cup UNION {near(i) : i \in reach[n - 1]}
    IN reach[Len(deps)]

DeclaredArgNames(meta, stages) ==
    LET named(list) == {list[i].pairs[j].key : <<i, j>> \in
                        {<<i, j>> \in (DOMAIN list) \X (1..2) :
                            list[i].op = "ARG" /\ j \in DOMAIN list[i].pairs}}
    IN named(meta) \cup UNION {named(stages[i].list) : i \in DOMAIN stages}

(***************************************************************************)
(* Variables.                                                              *)
(***************************************************************************)
Bound(env, key, text) == [k \in DOMAIN env \cup {key} |-> IF k = key THEN text ELSE env[k]]

(* process_dollar and process_braced: the colon counts empty as unset.     *)
RECURSIVE Expand(_, _)
Expand(text, env) ==
    LET one(p) ==
            LET set == p.v \in DOMAIN env
                value == IF set THEN env[p.v] ELSE <<>>
                there == set /\ (p.mod \notin {":-", ":+", ":?"} \/ value # <<>>)
                alt == Expand(p.alt, env)
            IN CASE p.k = "lit" -> [ok |-> TRUE, text |-> <<p>>]
                 [] p.mod = "" -> [ok |-> TRUE, text |-> value]
                 [] ~alt.ok -> alt
                 [] p.mod \in {"-", ":-"} -> [ok |-> TRUE, text |-> IF there THEN value ELSE alt.text]
                 [] p.mod \in {"+", ":+"} -> [ok |-> TRUE, text |-> IF there THEN alt.text ELSE <<>>]
                 [] p.mod \in {"?", ":?"} -> [ok |-> there, text |-> value]
                 [] OTHER -> [ok |-> FALSE, text |-> <<>>]
        done == [i \in DOMAIN text |-> one(text[i])]
    IN [ok |-> \A i \in DOMAIN done : done[i].ok,
        text |-> FlattenSeq([i \in DOMAIN done |-> done[i].text])]

ExpandAll(texts, env) == [i \in DOMAIN texts |-> Expand(texts[i], env).text]
ExpandsAll(texts, env) == \A i \in DOMAIN texts : Expand(texts[i], env).ok

(* An ARG takes the override, else its default, else (inside a stage) the  *)
(* value of the ARG above the first FROM.                                  *)
ArgValue(pair, env, globals, overrides) ==
    CASE pair.key \in DOMAIN overrides -> [ok |-> TRUE, has |-> TRUE, text |-> overrides[pair.key]]
      [] pair.has -> LET e == Expand(pair.text, env)
                     IN [ok |-> e.ok, has |-> TRUE, text |-> e.text]
      [] pair.key \in DOMAIN globals -> [ok |-> TRUE, has |-> TRUE, text |-> globals[pair.key]]
      [] OTHER -> [ok |-> TRUE, has |-> FALSE, text |-> <<>>]

(* The pairs of one ARG, each seeing those before it.                      *)
ExpandArg(s, ins, globals, overrides) ==
    FoldLeft(LAMBDA r, pair :
                LET v == ArgValue(pair, r.env, globals, overrides)
                IN [ok |-> r.ok /\ v.ok,
                    env |-> IF v.has THEN Bound(r.env, pair.key, v.text) ELSE r.env,
                    pairs |-> Append(r.pairs, [key |-> pair.key, has |-> v.has, text |-> v.text])],
             [ok |-> s.ok, env |-> s.env, pairs |-> <<>>], ins.pairs)

ExpandMetaArgs(meta, overrides) ==
    FoldLeft(LAMBDA s, ins : LET r == ExpandArg(s, ins, <<>>, overrides)
                             IN [ok |-> r.ok, env |-> r.env],
             [ok |-> TRUE, env |-> <<>>], meta)

(* expand_instruction: the command of a RUN, CMD and the like stays.       *)
ExpandInstruction(s, ins, globals, overrides) ==
    LET arg == ExpandArg(s, ins, globals, overrides)
        vals == [i \in DOMAIN ins.pairs |-> Expand(ins.pairs[i].text, s.env)]
        pairs == [i \in DOMAIN vals |-> [ins.pairs[i] EXCEPT !.text = vals[i].text]]
        good == \A i \in DOMAIN vals : vals[i].ok
        fields == ins.words \o <<ins.dest, ins.from, ins.chown, ins.chmod, ins.checksum>>
                  \o ins.exclude
        over(t) == Expand(t, s.env).text
    IN CASE ins.op = "ARG" ->
                [ok |-> arg.ok, env |-> arg.env,
                 list |-> Append(s.list, [ins EXCEPT !.pairs = arg.pairs])]
         [] ins.op = "ENV" ->
                [ok |-> s.ok /\ good,
                 env |-> FoldLeft(LAMBDA e, p : Bound(e, p.key, p.text), s.env, pairs),
                 list |-> Append(s.list, [ins EXCEPT !.pairs = pairs])]
         [] ins.op = "LABEL" ->
                [s EXCEPT !.ok = @ /\ good, !.list = Append(@, [ins EXCEPT !.pairs = pairs])]
         [] ins.op \in {"COPY", "ADD", "EXPOSE", "VOLUME"} \cup OneWord ->
                [s EXCEPT !.ok = @ /\ ExpandsAll(fields, s.env),
                          !.list = Append(@, [ins EXCEPT
                              !.words = ExpandAll(@, s.env), !.exclude = ExpandAll(@, s.env),
                              !.dest = over(@), !.from = over(@), !.chown = over(@),
                              !.chmod = over(@), !.checksum = over(@)])]
         [] OTHER -> [s EXCEPT !.list = Append(@, ins)]

ExpandStage(globals, overrides, stage) ==
    LET base == Expand(stage.base, globals)
        platform == Expand(stage.platform, globals)
        r == FoldLeft(LAMBDA s, ins : ExpandInstruction(s, ins, globals, overrides),
                      [ok |-> base.ok /\ platform.ok, env |-> <<>>, list |-> <<>>], stage.list)
    IN [ok |-> r.ok, stage |-> [stage EXCEPT !.base = base.text, !.platform = platform.text,
                                            !.list = r.list]]

(***************************************************************************)
(* .dockerignore.  A pattern is a sequence of segments (a name, a star or  *)
(* two) and may be negated.                                                *)
(***************************************************************************)
MatchSegment(pattern, name) == pattern = "*" \/ pattern = name

RECURSIVE MatchesSegments(_, _)
MatchesSegments(segments, path) ==
    CASE segments = <<>> -> path = <<>>
      [] segments[1] = "**" /\ Len(segments) = 1 -> path # <<>>
      [] segments[1] = "**" ->
            \E i \in 0..Len(path) : MatchesSegments(Tail(segments), SubSeq(path, i + 1, Len(path)))
      [] path = <<>> -> FALSE
      [] OTHER -> MatchSegment(segments[1], path[1]) /\ MatchesSegments(Tail(segments), Tail(path))

MatchesOrParentMatches(pattern, path) ==
    \E k \in 0..Len(path) : MatchesSegments(pattern.segments, SubSeq(path, 1, k))

(* is_ignored: a pattern is looked at only when it would change the answer. *)
IsIgnored(patterns, path) ==
    FoldLeft(LAMBDA matched, p :
                IF p.negated # matched THEN matched
                ELSE IF MatchesOrParentMatches(p, path) THEN ~p.negated ELSE matched,
             FALSE, patterns)

HasNegation(patterns) == \E i \in DOMAIN patterns : patterns[i].negated
=============================================================================
