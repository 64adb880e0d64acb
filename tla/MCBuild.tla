------------------------------- MODULE MCBuild -------------------------------
(* A few Dockerfiles that share steps, a context with two states, a base   *)
(* image with a directory and two files.                                   *)
EXTENDS Build

T(a) == Text(<<a>>)
W(a) == Word(T(a))
L(op, words) == Physical(op, <<>>, words, FALSE, "")
X(op, words) == Physical(op, <<>>, words, TRUE, "")
F(op, flags, words) == Physical(op, flags, words, FALSE, "")
P(atoms) == Word(Text(atoms))

MCNames == <<"a", "b", "d", "f", "h", "n", "s", "u", "w", "x", "y">>

Put(p, node, tree) == With(tree, p, node)
BaseTree ==
    Put(<<"d", "x">>, Node("file", "rw", <<"lower">>, 0),
        Put(<<"d">>, Dir(0), Put(<<"b">>, Node("file", "rx", <<"tool">>, 0), <<>>)))
BaseLayer == CompressForStorage(ExportTree(BaseTree, {}))

MCRegistry ==
    [base |-> [config |-> [ScratchBaseConfig EXCEPT
                             !.labels = [l |-> T("old")], !.diffIds = <<DiffId(BaseLayer.tar)>>,
                             !.history = <<Entry(<<"base">>, <<>>, FALSE)>>],
               layers |-> <<BaseLayer>>]]

Context(s, x, mode) ==
    Put(<<"a">>, Dir(0),
    Put(<<"a", "x">>, Node("file", mode, <<x>>, 0),
    Put(<<"a", "y">>, Node("file", "rw", <<"noise">> \o <<s>>, 0),
    Put(<<"f">>, [Node("file", "rw", <<"archive">>, 0) EXCEPT !.arch = "gzip"],
    Put(<<"s">>, Node("file", "rw", <<s>>, 0), <<>>)))))

MCContexts == {Context("1", "p", "rw"), Context("2", "p", "rw"), Context("1", "q", "rw"),
               Context("1", "p", "rx")}

(* Two contexts that differ in the mode of a file, of the build_modes run. *)
ModeContexts == {Context("1", "p", "rw"), Context("1", "p", "rx")}

(* a/* is ignored, a/x is not.                                             *)
MCIgnore == <<[segments |-> <<"a", "*">>, negated |-> FALSE],
              [segments |-> <<"**", "x">>, negated |-> TRUE]>>

(* One stage copies and runs, the last starts from it and removes a        *)
(* directory of the base.                                                  *)
Two ==
    <<Comment("escape", "backtick"),
      L("ARG", <<Pair("BASE", T("base"))>>),
      L("FROM", <<Word(<<Var("BASE", ":-", T("none"))>>), W("as"), W("one")>>),
      Physical("ARG", <<>>, <<>>, FALSE, "backtick"),
      Comment("", ""),
      L("", <<Pair("V", T("v0"))>>),
      L("COPY", <<W("a"), P(<<"w", "/">>)>>),
      L("RUN", <<P(<<"mk", "y">>)>>),
      L("FROM", <<W("one"), W("as"), W("two")>>),
      L("ENV", <<Pair("V", T("env"))>>),
      L("RUN", <<P(<<"rm", "d">>)>>),
      L("ONBUILD", <<W("COPY"), W("s"), P(<<"/", "s">>)>>)>>

(* The stage that is copied from is not the base of the last one.          *)
Copies ==
    <<L("FROM", <<W("base"), W("as"), W("one")>>),
      F("COPY", <<Flag("exclude", Text(<<"a", "y">>)), Flag("chmod", T("rx"))>>,
        <<W("a"), P(<<"d", "/">>)>>),
      L("FROM", <<W("scratch")>>),
      L("WORKDIR", <<P(<<"/", "w", ".">>)>>),
      F("COPY", <<Flag("from", T("one"))>>, <<W("d"), W("x")>>),
      X("RUN", <<P(<<"mk", "y">>)>>)>>

(* Built on an image of an earlier build, whose trigger runs first.        *)
OnTop ==
    <<L("FROM", <<W("t1")>>),
      L("ADD", <<W("f"), W("u")>>),
      F("ADD", <<Flag("checksum", Text(<<"remote">>))>>, <<P(<<"url", "u">>), P(<<"w", "/">>)>>),
      L("RUN", <<P(<<"mk", "y">>)>>),
      X("SHELL", <<W("ash")>>),
      L("COPY", <<P(<<"a", "*">>), P(<<"b">>)>>),
      L("USER", <<Word(<<Var("V", ":-", T("root"))>>)>>)>>

(* Everything that only configures.                                        *)
Config ==
    <<L("FROM", <<W("base")>>),
      L("LABEL", <<W("k"), W("v")>>), X("CMD", <<W("sh")>>), L("ENTRYPOINT", <<W("sh")>>),
      L("EXPOSE", <<W("80")>>), L("VOLUME", <<W("x")>>), L("STOPSIGNAL", <<W("9")>>),
      L("MAINTAINER", <<W("me")>>), X("SHELL", <<W("ash"), W("-c")>>),
      F("HEALTHCHECK", <<[name |-> "interval", text |-> <<>>, time |-> <<[n |-> 2, unit |-> "s"]>>]>>,
        <<W("CMD"), W("true")>>),
      L("RUN", <<P(<<"mk", "y">>)>>), L("RUN", <<P(<<"fail">>)>>)>>

(* Not of the build run: a directory of the base becomes a link.           *)
Relinks ==
    <<L("FROM", <<W("base")>>), L("RUN", <<P(<<"mk", "x">>)>>),
      L("RUN", <<P(<<"ln", "d", "b">>)>>)>>

Ask(file, tag) ==
    [files |-> [Dockerfile |-> file], file |-> "", ignore |-> [d \in {".dockerignore"} |-> MCIgnore],
     target |-> <<>>, args |-> <<>>, labels |-> <<>>, unsetEnv |-> {}, unsetLabel |-> {},
     squash |-> FALSE, squashAll |-> FALSE, noCache |-> FALSE, omit |-> FALSE, noHosts |-> FALSE,
     httpProxy |-> FALSE, hosts |-> <<>>, dns |-> <<"host">>, limits |-> <<>>,
     platform |-> <<>>, tag |-> tag]

V(text) == <<[key |-> "V", has |-> TRUE, text |-> T(text)]>>

MCRequests ==
    {Ask(Two, "t1"), [Ask(Two, "t1") EXCEPT !.args = V("v1"), !.labels = <<[key |-> "m", text |-> T("1")]>>],
     [Ask(Two, "t2") EXCEPT !.squash = TRUE], [Ask(Two, "t1") EXCEPT !.squashAll = TRUE],
     Ask(Copies, "t3"), Ask(OnTop, ""), Ask(Config, "t4"),
     [Ask(Two, "t3") EXCEPT !.target = T("one"), !.noHosts = TRUE, !.unsetLabel = {"l"}],
     [Ask(Two, "t2") EXCEPT !.httpProxy = TRUE, !.hosts = <<"added">>, !.dns = <<"none">>,
                            !.limits = <<"64m">>],
     [Ask(Two, "t1") EXCEPT !.omit = TRUE, !.unsetEnv = {"V"}],
     [Ask(Copies, "t3") EXCEPT !.noCache = TRUE]}

(* Of the build_modes run.                                                 *)
CopyRequests == {Ask(Two, "t1"), Ask(Two, "t2")}

(* Not of a run: steps that --omit-history takes from the wrong layer.     *)
FromBase(one, other) ==
    <<L("FROM", <<W("base")>>), L("RUN", <<P(one)>>), L("RUN", <<P(other)>>)>>
OmitRequests ==
    {Ask(FromBase(<<"mk", "x">>, <<"rm", "b">>), "t1"),
     [Ask(FromBase(<<"mk", "y">>, <<"mk", "x">>), "t2") EXCEPT !.omit = TRUE]}

RelinkRequests == {Ask(Relinks, "t1"), Ask(Relinks, "t2")}

MCRemote == [u |-> <<"remote">>]
MCHostEnv == [V |-> T("host"), http_proxy |-> T("proxy")]
MCHostsPath == <<"h">>
MCResolvPath == <<"n">>
=============================================================================
