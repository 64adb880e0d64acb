----------------------------- MODULE MCFrontEnd -----------------------------
(* Two images that share a layer, one of them with a layer twice and a history shorter
   than its layers, one volume name to spare, and filters of every kind. *)
EXTENDS FrontEnd

CONSTANTS t1, t2  \* the tags

MCContents ==
    "d1" :> [config |-> "c1", layers |-> <<"l1", "l2">>, history |-> <<FALSE, TRUE, FALSE>>,
             created |-> 1, labels |-> "k" :> "x"] @@
    "d2" :> [config |-> "c2", layers |-> <<"l1", "l3", "l3">>, history |-> <<FALSE>>,
             created |-> 2, labels |-> <<>>]

MCPulled == t1 :> "d1" @@ t2 :> "d2" @@ "d1" :> "d1"

MCKept == "w" :> [created |-> 0, labels |-> "k" :> "x", size |-> 3]

MCSize ==
    [l1 |-> 4, l2 |-> 2, l3 |-> 1, c1 |-> 1, c2 |-> 1, d1 |-> 1, d2 |-> 1]

Label(negate) == [kind |-> "label", key |-> "k", value |-> NoValue, negate |-> negate]

MCContainerFilters ==
    {Label(TRUE), [kind |-> "until", until |-> 2], [kind |-> "status", value |-> "stopped"],
     [kind |-> "before", ref |-> 2], [kind |-> "since", ref |-> 1],
     [kind |-> "ancestor", ref |-> "d1", matches |-> {t1}], [kind |-> "exited", value |-> 0],
     [kind |-> "name", matches |-> {NoName}], [kind |-> "id", matches |-> {1}],
     [kind |-> "command", matches |-> {"sh"}], [kind |-> "other"]}

MCImageFilters ==
    {Label(FALSE), Label(TRUE), [kind |-> "dangling", value |-> FALSE],
     [kind |-> "until", until |-> 1], [kind |-> "before", ref |-> "d2"],
     [kind |-> "since", ref |-> t1], [kind |-> "containers", value |-> TRUE],
     [kind |-> "reference", ref |-> "d1", matches |-> {t2}],
     [kind |-> "reference!", ref |-> t1, matches |-> {t1}],
     [kind |-> "id", matches |-> {"d1"}], [kind |-> "digest", matches |-> {"d2"}]}

MCVolumeFilters ==
    {Label(FALSE), Label(TRUE), [kind |-> "until", until |-> 2], [kind |-> "since", ref |-> "v"],
     [kind |-> "dangling", value |-> TRUE], [kind |-> "name", matches |-> {"v"}]}

(* Values for the options that shape a container: each has one that is refused where
   there is one, and what meets with another option. *)
Texts(words) == [i \in DOMAIN words |-> <<words[i]>>]
Env(key, value, keys) == [key |-> key, value |-> value, keys |-> keys]
User(name, id, group) == [numeric |-> name = "", name |-> name, id |-> id, group |-> group]
Bytes2(n) == [number |-> n, unit |-> 2]
Check(test) == [test |-> test, interval |-> 0, timeout |-> 5, start_period |-> 0, retries |-> 3]

CapabilityValues ==
    [privileged |-> {TRUE}] @@
    "cap-add" :> {{"net"}, {"CAP_NET", "chown"}, {"ALL"}, {"typo"}} @@
    "cap-drop" :> {{"chown"}, {"NET"}, {"all", "NET"}} @@
    "security-opt" :> {<<[key |-> "seccomp", value |-> v]>> : v \in {"unconfined", "unreadable", "mine"}}
        \cup {<<[key |-> "no-new-privileges", value |-> v], [key |-> "seccomp", value |-> "mine"]>> :
              v \in {"", "false", "maybe"}} \cup {<<[key |-> "label", value |-> "off"]>>}

LimitValues ==
    [memory |-> {Bytes2(0), Bytes2(1), Bytes2(2), Bytes2(4), Garbled}, cpus |-> {0, 4, 505}, ulimit |->
        {<<[name |-> n, soft |-> s, hard |-> h]>> :
            n \in {"nofile", "typo"}, s \in {2, 4, 9}, h \in {None, 3, 9}}] @@
    "memory-swap" :> {Unlimited, Bytes2(1), Bytes2(3)} @@ "memory-reservation" :> {Bytes2(1)} @@
    "pids-limit" :> {-5, 0, 7} @@ "cpu-quota" :> {-1, 25} @@ "cpu-period" :> {0, 30} @@
    "cpu-shares" :> {0, 2, 1024, 262144} @@ "blkio-weight" :> {0, 5, 1000} @@
    "cpuset-cpus" :> {<<<<0, 1>>, <<3, 3>>>>, <<<<1, 0>>>>} @@ "cpuset-mems" :> {<<<<0, 0>>>>} @@ "shm-size" :> {Bytes2(1), Bytes2(4)} @@
    "sysctl" :> {<<[key |-> "k", value |-> "1"], [key |-> "k", value |-> "2"]>>} @@
    "cgroup-conf" :> {<<[key |-> "k", value |-> None]>>, <<[key |-> "k", value |-> "1"]>>} @@
    "umask" :> {18, 4096}

ProcessValues ==
    [args |-> {Texts(<<"ls">>)}, name |-> {"n"}, replace |-> {TRUE}, workdir |-> {"/w"},
     entrypoint |-> {[json |-> FALSE, parts |-> <<"sh", "-x">>], [json |-> FALSE, parts |-> <<>>],
                     [json |-> TRUE, parts |-> Texts(<<"sh", "-c">>)], [json |-> TRUE, parts |-> <<>>]},
     user |-> {User("root", 0, None), User("app", 0, None), User("", 7, None),
               User("", 0, User("users", 0, None)), User("nobody", 0, None)},
     env |-> {<<Env("A", "1", {})>>, <<Env("A", "1", {}), Env("A", "2", {})>>,
              <<Env("B", "1", {}), Env("", None, {"A", "B"})>>, <<Env("B", None, {"B"})>>},
     hostname |-> {"h"}, unsetenv |-> {{"A"}}] @@
    "env-file" :> {<<Env("A", "0", {})>>} @@ "env-host" :> {TRUE} @@ "unsetenv-all" :> {TRUE} @@
    "group-add" :> {{User("users", 0, None)}, {User("", 7, None)}, {User(KeepGroups, 0, None)}} @@
    "read-only" :> {TRUE} @@ "stop-signal" :> {"HUP", "unknown"}

Mount(d, options) == [destination |-> d, absolute |-> TRUE, options |-> options]
MountValues ==
    [volume |-> {<<[host |-> h, container |-> "/d", absolute |-> a1, option |-> opt]>> :
                    h \in {"path", "name", "neither"}, a1 \in BOOLEAN, opt \in {None, "ro", "z"}},
     tmpfs |-> {<<Mount("/d", <<Plain(x), Plain(y)>>)>> : x, y \in {"exec", "noexec", "ro"}}
        \cup {<<Mount("/d", <<>>), Mount("/d", x)>> : x \in {<<>>, <<Plain("dev")>>}}
        \cup {<<Mount("/proc", <<>>)>>, <<Mount("/d", <<[name |-> "size", value |-> Bytes2(3)]>>)>>}]

HealthValues ==
    "health-cmd" :> {[json |-> TRUE, parts |-> p] : p \in {<<>>, Texts(<<"t">>), Texts(<<"t", "u">>)}}
        \cup {[json |-> FALSE, parts |-> p] :
              p \in {<<>>, <<"NONE", "t">>, <<"CMD", "t", "u">>, <<"CMD-SHELL", "t", "u">>, <<"t", "u">>}} @@
    "health-interval" :> {5, Disable, Unparsable} @@ "health-timeout" :> {0, 5} @@
    "health-retries" :> {0, 2} @@ "health-start-period" :> {1} @@ "no-healthcheck" :> {TRUE}

MCValues == CapabilityValues @@ LimitValues @@ ProcessValues @@ MountValues @@ HealthValues

MCHealthchecks ==
    {None, Check(<<NONE>>), Check(<<CMD, <<"t">>, <<"a", "b">>>>), Check(<<CMD_SHELL, <<"t", "u">>>>)}

MCImageConfigs ==
    {[entrypoint |-> <<>>, cmd |-> <<>>, user |-> None, env |-> <<>>, workdir |-> "",
      healthcheck |-> None],
     [entrypoint |-> Texts(<<"init">>), cmd |-> Texts(<<"serve">>), user |-> User("root", 0, None),
      env |-> <<<<"A", "i">>, <<"C", "i">>>>, workdir |-> "/srv",
      healthcheck |-> Check(<<CMD, <<"t">>>>)]}

MCProcesses ==
    {[bounding |-> caps, effective |-> caps, permitted |-> caps, user |-> [uid |-> 0, gid |-> 0],
      cwd |-> "/", env |-> <<<<"A", "i">>>>, no_new_privileges |-> caps = {}] :
        caps \in {{}, {"CAP_CHOWN"}}}

MCSpelling ==
    [net |-> "CAP_NET", NET |-> "CAP_NET", CAP_NET |-> "CAP_NET", chown |-> "CAP_CHOWN",
     ALL |-> "ALL", all |-> "ALL"]
MCSharesCurve == [s \in 3..262143 |-> IF s < 1024 THEN 50 ELSE 100]
MCHostEnv == <<<<"A", "host">>, <<"B", "host">>>>
MCDefaultEnv == <<<<"PATH", "/bin">>>>
MCPasswd == <<[name |-> "root", id |-> 0, gid |-> 0], [name |-> "app", id |-> 7, gid |-> 7]>>
MCGroup == <<[name |-> "root", id |-> 0], [name |-> "users", id |-> 7]>>
=============================================================================
