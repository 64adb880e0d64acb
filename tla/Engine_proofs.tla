---------------------------- MODULE Engine_proofs ----------------------------
(***************************************************************************)
(* The containers of Engine, for any number of commands, clients,          *)
(* containers and launches, as long as a user issues one command at a time *)
(* (Serial) and what is waited for happens within the wait (Prompt).  Then *)
(* the launch of Launch, whatever is launched and however the three        *)
(* processes interleave, fail and die.                                     *)
(***************************************************************************)
EXTENDS Engine, Launch, FiniteSetTheorems, SequenceTheorems, TLAPS

KeepAlone == Serial = TRUE /\ Prompt = TRUE

Fields == {"op", "pc", "todo", "at", "id", "own", "mem", "keeper", "arg", "failed", "answer"}
RemovePcs == {"remove", "kill", "dying", "unlink"}
StopPcs == {"stop", "signal", "grace", "dying", "keeper"}
LaunchPcs == {"start", "reload", "creating", "launch", "confirm"}
RestorePcs == {"restore", "putback"}

(* Where a command can be.                                                 *)
Place(f) ==
    \/ f.op = "none" /\ f.pc = "idle"
    \/ /\ f.op \in {"run", "create"}
       /\ f.pc \in RemovePcs \cup {"name", "record", "bundle", "prepared", "launch", "confirm", "attached"}
    \/ f.op = "clone" /\ f.pc \in RemovePcs \cup {"record", "bundle", "cloned", "start"}
    \/ f.op = "start" /\ f.pc \in LaunchPcs \cup {"keeper", "attached"}
    \/ /\ f.op = "restart"
       /\ f.pc \in LaunchPcs \cup StopPcs \cup RestorePcs \cup {"restarted", "restart", "suppress", "settle"}
    \/ f.op = "stop" /\ f.pc \in StopPcs \cup {"stopped"}
    \/ f.op = "rm" /\ f.pc \in StopPcs \cup RemovePcs \cup {"removed"}
    \/ f.op \in {"prune", "reset"} /\ f.pc \in RemovePcs \cup {"removed"}
    \/ f.op \in {"rename", "update"} /\ f.pc = "change"
    \/ f.op = "commit" /\ f.pc = "diff"
    \/ f.op = "wait" /\ f.pc \in {"waiting", "keeper", "answer", "answered"}
    \/ f.op = "attach" /\ f.pc = "attached"

KeeperType == [id : Nat, mem : Records \cup {<<>>}, rm : BOOLEAN, pc : KeeperStates]

(* A command at work, which keeps its user from another: at most one.      *)
Busy(c) == cmd[c].op \notin {"none", "wait"} /\ ~Blocked(c)
Solo == \A c, d \in Clients : Busy(c) /\ Busy(d) => c = d

TypeInv ==
    /\ born \in Nat /\ DOMAIN rec \subseteq 1..born /\ born <= MaxIds
    /\ \A i \in DOMAIN rec : rec[i] \in Records /\ rec[i].pid <= Len(keepers)
    /\ keepers \in Seq(KeeperType) /\ Len(keepers) <= MaxLaunches
    /\ \A k \in DOMAIN keepers : keepers[k].id \in 1..born
    /\ live \subseteq DOMAIN keepers /\ wanted \subseteq 1..born
    /\ DOMAIN cmd = Clients /\ crashes \in Nat

(* The record agrees with the keeper that will write it.                   *)
Agree(r, s) == r.mounts = s.mounts /\ r.bundle = s.bundle
Follows(i, k) == Exists(i) => rec[i].status = "running" /\ rec[i].pid = k /\ Agree(rec[i], keepers[k].mem)

(* The command that launched a container is with it until it runs.         *)
Launcher(c, k) ==
    /\ cmd[c].keeper = k /\ cmd[c].pc \in {"confirm", "attached"} /\ cmd[c].op \notin {"none", "wait"}

KeeperInv(k) ==
    LET m == keepers[k] IN
    /\ KeeperRuns(k) => m.mem \in Records
    /\ m.pc \in Starting =>
        /\ Exists(m.id) /\ m.mem = rec[m.id] /\ m.mem.status = "creating" /\ m.mem.pid < k
        /\ m.rm = m.mem.rm /\ \E c \in Clients : Launcher(c, k)
    /\ m.pc \in {"reload", "remove"} =>
        m.mem.status = "running" /\ m.mem.pid = k /\ m.rm = m.mem.rm /\ Follows(m.id, k)
    /\ m.pc = "write" =>
        /\ m.mem.status = "stopped" /\ m.mem.pid = k /\ m.mem.exit = k /\ k \notin live
        /\ Follows(m.id, k)
    /\ k \in live => m.pc \in {"spawned", "reload"} /\ Exists(m.id)

(* One keeper at a time for a container.                                   *)
OneKeeper ==
    \A k, l \in DOMAIN keepers : KeeperRuns(k) /\ KeeperRuns(l) /\ keepers[k].id = keepers[l].id => k = l

VolumeInv ==
    \A i \in DOMAIN rec : /\ rec[i].mounts \subseteq vols \cup forced
                          /\ rec[i].mounts # {} => rec[i].bundle

(* A container no keeper waits for has the exit code of its last run.      *)
ExitInv ==
    crashes = 0 => \A i \in DOMAIN rec \ lost : rec[i].exit >= rec[i].pid \/ rec[i].pid \in KeptBy(i)

(* A restart that has taken the annotation out and will put it back.       *)
Suppresses(c, i) ==
    LET f == cmd[c] IN
    f.op = "restart" /\ f.own = i /\ f.pc \in StopPcs \cup RestorePcs /\ f.arg.had
AutoInv ==
    crashes = 0 =>
        \A i \in (wanted \cap DOMAIN rec) \ (lost \cup astray) :
            /\ rec[i].rm \/ \E c \in Clients : Suppresses(c, i)
            /\ \A k \in KeptBy(i) :
                /\ keepers[k].rm
                /\ keepers[k].pc = "write" =>
                    \E c \in Clients : Suppresses(c, i) /\ cmd[c].pc \notin RestorePcs

(* No process of container i but the one of keeper j.                      *)
OnlyAlive(i, j) == \A k \in live : keepers[k].id = i => k = j
NoneAlive(i) == \A k \in live : keepers[k].id # i
NoneAliveBut(i, j) == \A k \in live : keepers[k].id = i => i = j

(* A record read earlier: a keeper may have written it since.              *)
ReadEarlier(i, mem) ==
    /\ mem \in Records /\ mem.pid <= Len(keepers)
    /\ Exists(i) => Agree(rec[i], mem)
    /\ Exists(i) => \A k \in KeptBy(i) : mem.status = "running" /\ mem.pid = k

(* What a command at each place knows.                                     *)
MakeInv(f) ==
    /\ f.op \in {"run", "create"} =>
        /\ f.arg \in RunInputs
        /\ f.pc \in RemovePcs \cup {"name", "record", "bundle"} => f.arg.volumes \subseteq vols \cup forced
    /\ f.op = "clone" /\ f.pc \in {"record", "bundle"} =>
        f.mem \in Records /\ f.mem.mounts \subseteq vols \cup forced /\ f.arg.name \in Names
    /\ f.pc \in {"bundle", "prepared"} =>
        /\ Exists(f.id) /\ rec[f.id].status = "creating"
        /\ \A k \in DOMAIN keepers : keepers[k].id # f.id
        /\ f.op # "clone" => f.mem = rec[f.id] /\ f.id \notin wanted
LaunchInv(f) ==
    /\ f.pc = "reload" /\ Exists(f.id) => KeptBy(f.id) = {}
    /\ f.pc \in {"creating", "launch"} => Exists(f.id) /\ KeptBy(f.id) = {}
    /\ f.pc = "creating" => f.mem = [rec[f.id] EXCEPT !.status = "creating"]
    /\ f.pc = "launch" => f.mem = rec[f.id] /\ f.mem.status = "creating"
    /\ f.pc = "confirm" \/ (f.pc = "attached" /\ f.op = "run") => f.keeper \in DOMAIN keepers
    /\ f.pc = "attached" => f.keeper \in 0..Len(keepers)
    /\ f.pc \in {"confirm", "attached"} /\ f.keeper # 0 => keepers[f.keeper].id = f.id
StopInv(f) ==
    /\ f.pc \in {"kill", "signal", "grace", "dying"} => OnlyAlive(f.id, f.mem.pid)
    /\ f.op \notin {"stop", "restart"} /\ f.pc \in {"kill", "dying", "signal", "grace"} => NoneAliveBut(f.own, f.id)
    /\ f.op = "rm" /\ f.pc = "keeper" => NoneAliveBut(f.own, f.id)
    /\ f.op = "rm" /\ f.pc = "stop" =>
        NoneAlive(f.own) \/ f.at = f.own \/ (f.at \notin DOMAIN rec /\ rec[f.own].name = f.at)
    /\ f.pc = "unlink" => NoneAlive(f.own)
ChangeInv(f) ==
    /\ f.pc \in {"suppress", "change", "putback"} => ReadEarlier(f.id, f.mem)
    /\ f.pc = "change" =>
        /\ f.arg \in Records /\ Agree(f.arg, f.mem)
        /\ f.arg.status = f.mem.status /\ f.arg.pid = f.mem.pid /\ f.arg.exit = f.mem.exit /\ f.arg.rm = f.mem.rm
    /\ f.pc \in {"suppress", "putback"} => f.own = f.id /\ f.arg.had = TRUE
    /\ f.pc = "suppress" => f.mem.rm
RestartInv(f) ==
    f.op = "restart" =>
    /\ f.pc \in StopPcs \cup RestorePcs => f.arg.had \in BOOLEAN
    /\ f.pc \in {"signal", "grace", "dying", "keeper"} => f.id = f.own \/ f.own \in astray \/ ~Exists(f.own)
    /\ f.pc \in RestorePcs => KeptBy(f.own) = {} \/ f.own \in astray \/ ~Exists(f.own)
WaitInv(f) ==
    f.op = "wait" =>
    /\ f.pc # "waiting" => f.mem \in Records
    /\ crashes = 0 /\ Exists(f.id) /\ f.id \notin lost =>
        /\ f.pc \in {"keeper", "answer"} => f.mem.pid <= rec[f.id].pid
        /\ f.pc = "answer" => f.mem.pid <= rec[f.id].exit
        /\ f.pc = "answered" => f.mem.pid <= f.answer

ClientInv(c) ==
    LET f == cmd[c] IN
    /\ DOMAIN f = Fields /\ f.id \in 0..born /\ f.own \in 0..born /\ Place(f)
    /\ f.op \in {"run", "create", "clone", "start"} => f.todo = <<>>
    /\ MakeInv(f) /\ LaunchInv(f) /\ StopInv(f) /\ ChangeInv(f) /\ RestartInv(f) /\ WaitInv(f)

IInv ==
    /\ TypeInv /\ Solo /\ OneKeeper /\ VolumeInv /\ ExitInv /\ AutoInv
    /\ \A k \in DOMAIN keepers : KeeperInv(k)
    /\ \A c \in Clients : ClientInv(c)

(* What an id, a name or nothing resolves to.                              *)
LEMMA ResolveFacts == ASSUME TypeInv, NEW ref
  PROVE  /\ resolve(ref) \in 0..born
         /\ resolve(ref) # NoId =>
                /\ resolve(ref) \in DOMAIN rec /\ resolve(ref) \in 1..born
                /\ resolve(ref) = ref \/ (ref \notin DOMAIN rec /\ rec[resolve(ref)].name = ref)
<1>. DEFINE S == Named(rec, ref)
<1>1. S \subseteq DOMAIN rec /\ S \subseteq 1..born /\ \A i \in S : rec[i].name = ref
  BY DEF TypeInv, Named
<1>2. IsFiniteSet(S)
  <2>1. IsFiniteSet(1..born)
    <3>1. 1 \in Int /\ born \in Int
      BY DEF TypeInv
    <3>. QED
      BY <3>1, FS_Interval
  <2>. QED
    BY <1>1, <2>1, FS_Subset
<1>3. Cardinality(S) = 1 => (CHOOSE i \in S : TRUE) \in S
  <2>1. Cardinality(S) = 1 => S # {}
    BY FS_EmptySet
  <2>. QED
    BY <2>1
<1>. HIDE DEF S
<1>4. resolve(ref) = IF ref \in DOMAIN rec THEN ref
                     ELSE IF ref # NoName /\ Cardinality(S) = 1 THEN CHOOSE i \in S : TRUE ELSE 0
  BY DEF resolve, resolve_container_id, S, NoId
<1>. QED
  BY <1>1, <1>3, <1>4 DEF TypeInv, NoId

(* A name leads to the container that carries it, if it leads to any.      *)
LEMMA ResolveUnique ==
  ASSUME TypeInv, NEW ref, ref \notin DOMAIN rec, NEW i \in DOMAIN rec, rec[i].name = ref,
         resolve(ref) # NoId
  PROVE  resolve(ref) = i
<1>. DEFINE S == Named(rec, ref)
<1>1. S \subseteq 1..born /\ i \in S
  BY DEF TypeInv, Named
<1>2. IsFiniteSet(S)
  <2>1. IsFiniteSet(1..born)
    <3>1. 1 \in Int /\ born \in Int
      BY DEF TypeInv
    <3>. QED
      BY <3>1, FS_Interval
  <2>. QED
    BY <1>1, <2>1, FS_Subset
<1>3. resolve(ref) = (CHOOSE j \in S : TRUE) /\ Cardinality(S) = 1
  BY DEF resolve, resolve_container_id, NoId
<1>4. \E x : S = {x}
  BY <1>2, <1>3, FS_Singleton
<1>. HIDE DEF S
<1>5. (CHOOSE j \in S : TRUE) = i
  BY <1>1, <1>4
<1>. QED
  BY <1>3, <1>5

(* The facts about a state that every step uses.                           *)
LEMMA KeeperFacts == ASSUME TypeInv, NEW k \in DOMAIN keepers
  PROVE  /\ DOMAIN keepers = 1..Len(keepers) /\ Len(keepers) \in Nat /\ k \in Nat /\ k # 0
         /\ keepers[k] \in KeeperType /\ keepers[k].id \in 1..born
         /\ KeeperRuns(k) <=> keepers[k].pc \in {"forked", "spawned", "broken", "reload", "write", "remove"}
<1>1. DOMAIN keepers = 1..Len(keepers) /\ Len(keepers) \in Nat
  BY DEF TypeInv
<1>2. keepers[k] \in KeeperType
  BY <1>1, ElementOfSeq DEF TypeInv
<1>3. keepers[k].pc \in KeeperStates
  BY <1>2 DEF KeeperType
<1>. QED
  BY <1>1, <1>2, <1>3 DEF TypeInv, KeeperRuns, KeeperStates

(* A busy command that waits for no launch: no container is being launched.*)
LEMMA Calm ==
  ASSUME TypeInv, Solo, \A k \in DOMAIN keepers : KeeperInv(k), NEW c \in Clients, Busy(c),
         cmd[c].pc \notin {"confirm", "attached"}
  PROVE  \A k \in DOMAIN keepers : keepers[k].pc \notin Starting
<1>. SUFFICES ASSUME NEW k \in DOMAIN keepers, keepers[k].pc \in Starting PROVE FALSE
  OBVIOUS
<1>1. PICK d \in Clients : Launcher(d, k)
  BY DEF KeeperInv
<1>2. Busy(d)
  BY <1>1, KeeperFacts DEF Launcher, Busy, Blocked, Starting
<1>3. c = d
  BY <1>2 DEF Solo
<1>. QED
  BY <1>1, <1>3 DEF Launcher

(* Nor is one being launched when a command may be issued.                 *)
LEMMA IssueFacts ==
  ASSUME TypeInv, KeepAlone, \A k \in DOMAIN keepers : KeeperInv(k), NEW c \in Clients, MayIssue(c)
  PROVE  /\ \A d \in Clients : ~Busy(d)
         /\ \A k \in DOMAIN keepers : keepers[k].pc \notin Starting
         /\ cmd[c].op = "none"
<1>1. \A d \in Clients : ~Busy(d)
  BY DEF MayIssue, Busy, Idle, KeepAlone
<1>2. ASSUME NEW k \in DOMAIN keepers, keepers[k].pc \in Starting PROVE FALSE
  <2>1. PICK d \in Clients : Launcher(d, k)
    BY <1>2 DEF KeeperInv
  <2>2. Busy(d)
    BY <1>2, <2>1, KeeperFacts DEF Launcher, Busy, Blocked, Starting
  <2>. QED
    BY <1>1, <2>2
<1>. QED
  BY <1>1, <1>2 DEF MayIssue, Idle

(* What the record of a container says of the keeper it has.               *)
LEMMA RunningFacts ==
  ASSUME TypeInv, \A k \in DOMAIN keepers : KeeperInv(k),
         \A k \in DOMAIN keepers : keepers[k].pc \notin Starting, NEW i \in DOMAIN rec, NEW k \in KeptBy(i)
  PROVE  /\ k \in DOMAIN keepers /\ keepers[k].pc \in {"reload", "write", "remove"} /\ keepers[k].id = i
         /\ rec[i].status = "running" /\ rec[i].pid = k /\ Agree(rec[i], keepers[k].mem)
<1>1. k \in DOMAIN keepers /\ keepers[k].pc \in {"reload", "write", "remove"} /\ keepers[k].id = i
  BY KeeperFacts DEF KeptBy, Starting
<1>. QED
  BY <1>1 DEF KeeperInv, Follows, Exists

(* So a container that is stopped, or has no pid, has no process.          *)
LEMMA AliveFacts ==
  ASSUME TypeInv, \A k \in DOMAIN keepers : KeeperInv(k),
         \A k \in DOMAIN keepers : keepers[k].pc \notin Starting, NEW i \in DOMAIN rec
  PROVE  /\ OnlyAlive(i, rec[i].pid)
         /\ effective_status(rec[i]) = "stopped" \/ rec[i].pid = NoPid => NoneAlive(i)
<1>1. ASSUME NEW k \in live, keepers[k].id = i
      PROVE  rec[i].pid = k /\ rec[i].status = "running" /\ k # 0
  <2>1. k \in DOMAIN keepers /\ keepers[k].pc = "reload"
    BY DEF TypeInv, KeeperInv, Starting
  <2>2. k \in KeptBy(i)
    BY <1>1, <2>1 DEF KeptBy, KeeperRuns
  <2>. QED
    BY <2>1, <2>2, RunningFacts, KeeperFacts
<1>2. ASSUME NEW k \in live, keepers[k].id = i, effective_status(rec[i]) = "stopped" \/ rec[i].pid = NoPid
      PROVE  FALSE
  BY <1>1, <1>2 DEF effective_status, Alive, NoPid
<1>. QED
  BY <1>1, <1>2 DEF OnlyAlive, NoneAlive

(* A client that is idle, blocked or waits for a launch depends on little. *)
Forward ==
    /\ born <= born' /\ Len(keepers) <= Len(keepers') /\ lost \subseteq lost'
    /\ crashes' = 0 => crashes = 0
    /\ \A k \in DOMAIN keepers : keepers'[k].id = keepers[k].id
    /\ \A i \in (DOMAIN rec' \ lost') \cap 1..born :
        /\ i \in DOMAIN rec /\ rec[i].pid <= rec'[i].pid
        /\ rec[i].exit <= rec'[i].exit \/ rec'[i].pid <= rec'[i].exit

LEMMA Quiet ==
  ASSUME TypeInv, TypeInv', Forward, NEW d \in Clients, ClientInv(d), cmd'[d] = cmd[d],
         ~Busy(d) \/ cmd[d].pc \in {"confirm", "attached"}
  PROVE  ClientInv(d)'
<1>1. PICK g \in {cmd[d]} : cmd[d] = g /\ cmd'[d] = g
  OBVIOUS
<1>2. DOMAIN g = Fields /\ Place(g) /\ g.id \in 0..born /\ g.own \in 0..born
  BY <1>1 DEF ClientInv
<1>3. g.pc \in {"idle", "waiting", "keeper", "answer", "answered", "confirm", "attached"}
      /\ (g.pc = "keeper" => g.op = "wait")
  BY <1>1, <1>2 DEF Busy, Blocked, Place, RemovePcs, StopPcs, LaunchPcs
<1>4. /\ born \in Nat /\ born' \in Nat /\ Len(keepers) \in Nat /\ Len(keepers') \in Nat
      /\ DOMAIN keepers = 1..Len(keepers) /\ DOMAIN keepers' = 1..Len(keepers')
  BY DEF TypeInv
<1>5. g.id \in 0..born' /\ g.own \in 0..born'
  BY <1>2, <1>4 DEF Forward
<1>6. g.op \in {"run", "create", "clone", "start"} => g.todo = <<>>
  BY <1>1 DEF ClientInv
<1>7. MakeInv(g)' /\ LaunchInv(g)' /\ StopInv(g)' /\ ChangeInv(g)' /\ RestartInv(g)'
  <2>1. MakeInv(g)'
    BY <1>1, <1>2, <1>3 DEF ClientInv, MakeInv, Place, RemovePcs
  <2>2. LaunchInv(g)'
    BY <1>1, <1>3, <1>4 DEF ClientInv, LaunchInv, Forward
  <2>3. StopInv(g)' /\ ChangeInv(g)'
    BY <1>2, <1>3 DEF StopInv, ChangeInv, Place, StopPcs, RemovePcs, LaunchPcs
  <2>4. RestartInv(g)'
    BY <1>2, <1>3 DEF RestartInv, Place, StopPcs, RestorePcs, RemovePcs, LaunchPcs
  <2>. QED
    BY <2>1, <2>2, <2>3, <2>4
<1>8. WaitInv(g)'
  <2>1. WaitInv(g)
    BY <1>1 DEF ClientInv
  <2>. SUFFICES ASSUME g.op = "wait" PROVE WaitInv(g)'
    BY DEF WaitInv
  <2>2. g.pc # "waiting" => g.mem \in Records
    BY <2>1 DEF WaitInv
  <2>3. ASSUME crashes' = 0, Exists(g.id)', g.id \notin lost'
        PROVE  /\ g.pc \in {"keeper", "answer"} => g.mem.pid <= rec'[g.id].pid
               /\ g.pc = "answer" => g.mem.pid <= rec'[g.id].exit
               /\ g.pc = "answered" => g.mem.pid <= g.answer
    <3>1. g.id \in 1..born /\ g.id \in DOMAIN rec'
      BY <2>3, <1>2, <1>4 DEF TypeInv, Exists
    <3>2. crashes = 0 /\ Exists(g.id) /\ g.id \notin lost
          /\ rec[g.id].pid <= rec'[g.id].pid
          /\ (rec[g.id].exit <= rec'[g.id].exit \/ rec'[g.id].pid <= rec'[g.id].exit)
      BY <2>3, <3>1 DEF Forward, Exists
    <3>3. rec[g.id] \in Records /\ rec'[g.id] \in Records
      BY <3>1, <3>2 DEF TypeInv, Exists
    <3>4. rec[g.id].pid \in Int /\ rec'[g.id].pid \in Int /\ rec[g.id].exit \in Int /\ rec'[g.id].exit \in Int
      BY <3>3 DEF Records
    <3>5. g.pc # "waiting" => g.mem.pid \in Int
      BY <2>2 DEF Records
    <3>. QED
      BY <2>1, <3>2, <3>4, <3>5 DEF WaitInv
  <2>. QED
    BY <2>2, <2>3 DEF WaitInv
<1>. QED
  BY <1>1, <1>2, <1>5, <1>6, <1>7, <1>8 DEF ClientInv

(* A client that is not at work is one of those.                           *)
LEMMA Others ==
  ASSUME Solo, NEW c \in Clients, Busy(c), NEW d \in Clients, d # c
  PROVE  ~Busy(d)
BY DEF Solo

(* And any client stays what it was while only other clients move.         *)
LEMMA Kept ==
  ASSUME NEW d \in Clients, ClientInv(d), cmd'[d] = cmd[d],
         UNCHANGED <<rec, born, keepers, crashes, wanted, lost>>, live' \subseteq live,
         vols \cup forced \subseteq vols' \cup forced', astray \subseteq astray'
  PROVE  ClientInv(d)'
<1>1. PICK g \in {cmd[d]} : cmd[d] = g /\ cmd'[d] = g
  OBVIOUS
<1>2. \A i : KeptBy(i)' = KeptBy(i)
  BY DEF KeptBy, KeeperRuns
<1>3. MakeInv(g)'
  BY <1>1 DEF ClientInv, MakeInv, Exists
<1>4. LaunchInv(g)'
  BY <1>1, <1>2 DEF ClientInv, LaunchInv, Exists
<1>5. StopInv(g)'
  BY <1>1 DEF ClientInv, StopInv, OnlyAlive, NoneAlive, NoneAliveBut
<1>6. ChangeInv(g)'
  BY <1>1, <1>2 DEF ClientInv, ChangeInv, ReadEarlier, Agree, Exists
<1>7. RestartInv(g)' /\ WaitInv(g)'
  BY <1>1, <1>2 DEF ClientInv, RestartInv, WaitInv, Exists
<1>. QED
  BY <1>1, <1>3, <1>4, <1>5, <1>6, <1>7 DEF ClientInv

(* --rm is kept as long as a restart that took it out does not go on too early. *)
LEMMA AutoKept ==
  ASSUME AutoInv, NEW c \in Clients, NEW g, cmd' = [cmd EXCEPT ![c] = g], DOMAIN cmd = Clients,
         keepers' = keepers, crashes' = crashes, lost \subseteq lost', astray \subseteq astray',
         \A i \in (wanted' \cap DOMAIN rec') \ (lost' \cup astray') :
            /\ rec'[i].rm \/ Suppresses(c, i)' \/ (i \in wanted \cap DOMAIN rec /\ (rec[i].rm => rec'[i].rm))
            /\ i \in wanted \cap DOMAIN rec \/ KeptBy(i) = {}
            /\ Suppresses(c, i) =>
                \/ rec'[i].rm /\ KeptBy(i) = {}
                \/ Suppresses(c, i)' /\ (g.pc \in RestorePcs => cmd[c].pc \in RestorePcs \/ KeptBy(i) = {})
  PROVE  AutoInv'
<1>. SUFFICES ASSUME crashes = 0, NEW i \in (wanted' \cap DOMAIN rec') \ (lost' \cup astray')
     PROVE  /\ rec'[i].rm \/ \E d \in Clients : Suppresses(d, i)'
            /\ \A k \in KeptBy(i) :
                /\ keepers[k].rm
                /\ keepers[k].pc = "write" =>
                    \E d \in Clients : Suppresses(d, i)' /\ cmd'[d].pc \notin RestorePcs
  BY DEF AutoInv, KeptBy, KeeperRuns
<1>1. cmd'[c] = g /\ \A d \in Clients : d # c => cmd'[d] = cmd[d]
  OBVIOUS
<1>2. \A d \in Clients : d # c => (Suppresses(d, i)' <=> Suppresses(d, i))
  BY <1>1 DEF Suppresses
<1>3. i \in wanted \cap DOMAIN rec => i \in (wanted \cap DOMAIN rec) \ (lost \cup astray)
  OBVIOUS
<1>4. CASE KeptBy(i) = {} /\ i \notin wanted \cap DOMAIN rec
  BY <1>4
<1>5. CASE i \in wanted \cap DOMAIN rec
  <2>1. rec[i].rm \/ \E d \in Clients : Suppresses(d, i)
    BY <1>3, <1>5 DEF AutoInv
  <2>2. rec'[i].rm \/ \E d \in Clients : Suppresses(d, i)'
    BY <1>2, <2>1
  <2>3. ASSUME NEW k \in KeptBy(i)
        PROVE  /\ keepers[k].rm
               /\ keepers[k].pc = "write" =>
                    \E d \in Clients : Suppresses(d, i)' /\ cmd'[d].pc \notin RestorePcs
    <3>1. keepers[k].rm
      BY <1>3, <1>5, <2>3 DEF AutoInv
    <3>2. ASSUME keepers[k].pc = "write"
          PROVE  \E d \in Clients : Suppresses(d, i)' /\ cmd'[d].pc \notin RestorePcs
      <4>1. PICK d \in Clients : Suppresses(d, i) /\ cmd[d].pc \notin RestorePcs
        BY <1>3, <1>5, <2>3, <3>2 DEF AutoInv
      <4>. QED
        BY <1>1, <1>2, <2>3, <4>1
    <3>. QED
      BY <3>1, <3>2
  <2>. QED
    BY <2>2, <2>3
<1>. QED
  BY <1>4, <1>5

(* A step of a command that leaves records and keepers alone.              *)
Move(c, g) ==
    /\ cmd' = [cmd EXCEPT ![c] = g]
    /\ UNCHANGED <<rec, born, live, keepers, crashes, wanted, lost>>
    /\ vols \cup forced \subseteq vols' \cup forced' /\ astray \subseteq astray'
    /\ Busy(c)' => Busy(c) \/ \A d \in Clients : ~Busy(d)
    /\ \A k \in DOMAIN keepers : keepers[k].pc \in Starting /\ Launcher(c, k) => Launcher(c, k)'
    /\ \A i \in (wanted \cap DOMAIN rec) \ (lost \cup astray') :
        Suppresses(c, i) =>
            \/ rec[i].rm /\ KeptBy(i) = {}
            \/ Suppresses(c, i)' /\ (g.pc \in RestorePcs => cmd[c].pc \in RestorePcs \/ KeptBy(i) = {})

LEMMA MoveStep ==
  ASSUME IInv, NEW c \in Clients, NEW g, Move(c, g), ClientInv(c)'
  PROVE  IInv'
<1>1. DOMAIN cmd = Clients /\ cmd'[c] = g /\ \A d \in Clients : d # c => cmd'[d] = cmd[d]
  BY DEF IInv, TypeInv, Move
<1>2. TypeInv'
  BY <1>1 DEF IInv, TypeInv, Move
<1>3. \A d \in Clients : d # c => (Busy(d)' <=> Busy(d))
  BY <1>1 DEF Busy, Blocked, Move
<1>4. Solo'
  BY <1>3 DEF IInv, Solo, Move
<1>5. OneKeeper' /\ VolumeInv'
  BY DEF IInv, OneKeeper, VolumeInv, KeeperRuns, Move
<1>6. ExitInv'
  BY DEF IInv, ExitInv, KeptBy, KeeperRuns, Move
<1>7. AutoInv'
  BY <1>1, AutoKept DEF IInv, Move
<1>8. ASSUME NEW k \in DOMAIN keepers' PROVE KeeperInv(k)'
  <2>1. KeeperInv(k)
    BY DEF IInv, Move
  <2>2. keepers[k].pc \in Starting => \E d \in Clients : Launcher(d, k)'
    <3>1. SUFFICES ASSUME keepers[k].pc \in Starting PROVE \E d \in Clients : Launcher(d, k)'
      OBVIOUS
    <3>2. PICK d \in Clients : Launcher(d, k)
      BY <2>1, <3>1 DEF KeeperInv
    <3>3. CASE d = c
      BY <3>1, <3>2, <3>3 DEF Move
    <3>4. CASE d # c
      BY <1>1, <3>2, <3>4 DEF Launcher
    <3>. QED
      BY <3>3, <3>4
  <2>. QED
    BY <2>1, <2>2 DEF KeeperInv, Move, KeeperRuns, Exists, Follows, Agree
<1>9. ASSUME NEW d \in Clients PROVE ClientInv(d)'
  <2>1. CASE d # c
    BY <1>1, <2>1, Kept DEF IInv, Move
  <2>. QED
    BY <2>1
<1>. QED
  BY <1>2, <1>4, <1>5, <1>6, <1>7, <1>8, <1>9 DEF IInv

(* A step that leaves all but the freezer, signals and counters alone.     *)
LEMMA Elsewhere ==
  ASSUME IInv, UNCHANGED <<rec, born, live, keepers, vols, cmd, crashes, wanted, lost, astray, forced>>
  PROVE  IInv'
<1>1. TypeInv' /\ VolumeInv'
  BY DEF IInv, TypeInv, VolumeInv
<1>2. Solo' /\ OneKeeper' /\ ExitInv'
  BY DEF IInv, Solo, Busy, Blocked, OneKeeper, KeeperRuns, ExitInv, KeptBy
<1>3. AutoInv'
  BY DEF IInv, AutoInv, Suppresses, KeptBy, KeeperRuns
<1>4. \A k \in DOMAIN keepers' : KeeperInv(k)'
  BY DEF IInv, KeeperInv, KeeperRuns, Launcher, Follows, Agree, Exists
<1>5. \A d \in Clients : ClientInv(d)'
  BY Kept DEF IInv
<1>. QED
  BY <1>1, <1>2, <1>3, <1>4, <1>5 DEF IInv

(* The frame of a command that is done, and of one that goes on to the next. *)
LEMMA IdleFrame ==
  ASSUME TypeInv', NEW c \in Clients, cmd'[c] = NoCmd
  PROVE  ClientInv(c)' /\ ~Busy(c)' /\ \A i : ~Suppresses(c, i)'
<1>1. /\ DOMAIN NoCmd = Fields /\ NoCmd.op = "none" /\ NoCmd.pc = "idle" /\ NoCmd.todo = <<>>
      /\ NoCmd.id = 0 /\ NoCmd.own = 0
  BY DEF NoCmd, NoId, Fields
<1>. HIDE DEF NoCmd
<1>2. Place(NoCmd) /\ 0 \in 0..born'
  BY <1>1 DEF Place, TypeInv
<1>3. MakeInv(NoCmd)' /\ LaunchInv(NoCmd)' /\ StopInv(NoCmd)' /\ ChangeInv(NoCmd)' /\ RestartInv(NoCmd)'
      /\ WaitInv(NoCmd)'
  BY <1>1 DEF MakeInv, LaunchInv, StopInv, ChangeInv, RestartInv, WaitInv, RemovePcs, StopPcs
<1>. QED
  BY <1>1, <1>2, <1>3 DEF ClientInv, Busy, Suppresses

NextPlace(op, pc) ==
    \/ op = "restart" /\ pc = "restart"
    \/ op = "stop" /\ pc = "stop"
    \/ op \in {"rm", "prune", "reset"} /\ pc = "remove"

LEMMA NextFrame ==
  ASSUME TypeInv', NEW c \in Clients, NEW g, cmd'[c] = g, DOMAIN g = Fields, g.id = 0, g.own = 0,
         NextPlace(g.op, g.pc)
  PROVE  ClientInv(c)'
<1>1. Place(g) /\ 0 \in 0..born'
  BY DEF NextPlace, Place, TypeInv, LaunchPcs, StopPcs, RemovePcs
<1>2. MakeInv(g)' /\ LaunchInv(g)' /\ StopInv(g)' /\ ChangeInv(g)' /\ RestartInv(g)' /\ WaitInv(g)'
  BY DEF NextPlace, MakeInv, LaunchInv, StopInv, ChangeInv, RestartInv, WaitInv, RemovePcs, StopPcs, RestorePcs
<1>. QED
  BY <1>1, <1>2 DEF ClientInv, NextPlace

(* A restart that suppresses is at work.                                   *)
LEMMA SuppressorBusy ==
  ASSUME NEW d \in Clients, NEW i, Suppresses(d, i)
  PROVE  Busy(d)
BY DEF Suppresses, Busy, Blocked, StopPcs, RestorePcs

LEMMA NoSuppressor ==
  ASSUME Solo, NEW c \in Clients, Busy(c),
         cmd[c].op # "restart" \/ cmd[c].pc \notin StopPcs \cup RestorePcs,
         NEW d \in Clients, NEW i
  PROVE  ~Suppresses(d, i)
<1>. SUFFICES ASSUME Suppresses(d, i) PROVE FALSE
  OBVIOUS
<1>1. Busy(d)
  BY SuppressorBusy
<1>2. d = c
  BY <1>1 DEF Solo
<1>. QED
  BY <1>2 DEF Suppresses

(* Issuing a command is such a step: nobody else is at work.               *)
LEMMA IssueStep ==
  ASSUME IInv, KeepAlone, NEW c \in Clients, MayIssue(c), NEW g, cmd' = [cmd EXCEPT ![c] = g],
         UNCHANGED <<rec, born, live, keepers, crashes, wanted, lost, astray>>,
         vols \cup forced \subseteq vols' \cup forced', ClientInv(c)'
  PROVE  IInv'
<1>1. (\A d \in Clients : ~Busy(d)) /\ cmd[c].op = "none"
  BY IssueFacts DEF IInv
<1>2. Move(c, g)
  BY <1>1 DEF Move, Launcher, Suppresses
<1>. QED
  BY <1>2, MoveStep

(* A step of a command that neither waits for a launch nor has --rm to put back. *)
LEMMA PlainStep ==
  ASSUME IInv, NEW c \in Clients, NEW g, cmd' = [cmd EXCEPT ![c] = g],
         UNCHANGED <<rec, born, live, keepers, crashes, wanted, lost>>,
         vols \cup forced \subseteq vols' \cup forced', astray \subseteq astray',
         Busy(c) \/ ~Busy(c)', cmd[c].pc \notin {"confirm", "attached"},
         cmd[c].op # "restart" \/ cmd[c].pc \notin StopPcs \cup RestorePcs, ClientInv(c)'
  PROVE  IInv'
<1>1. Move(c, g)
  BY DEF Move, Launcher, Suppresses
<1>. QED
  BY <1>1, MoveStep

(* What Proceed leaves.                                                    *)
LEMMA ProceedFrame ==
  ASSUME TypeInv', NEW c \in Clients, NEW pc, Proceed(c, pc), DOMAIN cmd = Clients, ClientInv(c),
         cmd[c].todo = <<>> \/ NextPlace(cmd[c].op, pc)
  PROVE  \E g : cmd' = [cmd EXCEPT ![c] = g] /\ ClientInv(c)' /\ \A i : ~Suppresses(c, i)'
<1>1. CASE cmd[c].todo = <<>>
  <2>1. cmd' = [cmd EXCEPT ![c] = NoCmd]
    BY <1>1 DEF Proceed, Return
  <2>2. cmd'[c] = NoCmd
    BY <2>1
  <2>. QED
    BY <2>1, <2>2, IdleFrame
<1>2. CASE cmd[c].todo # <<>>
  <2>1. PICK g \in {[NoCmd EXCEPT !.op = cmd[c].op, !.arg = cmd[c].arg, !.pc = pc,
                              !.at = Head(cmd[c].todo), !.todo = Tail(cmd[c].todo)]} : TRUE
    OBVIOUS
  <2>2. cmd' = [cmd EXCEPT ![c] = g]
    BY <1>2, <2>1 DEF Proceed
  <2>3. DOMAIN g = Fields /\ g.id = 0 /\ g.own = 0 /\ g.op = cmd[c].op /\ g.pc = pc
    BY <2>1 DEF NoCmd, NoId, Fields
  <2>4. cmd'[c] = g
    BY <2>2
  <2>5. ClientInv(c)'
    <3>1. NextPlace(g.op, g.pc)
      BY <1>2, <2>3
    <3>. QED
      BY <2>3, <2>4, <3>1, NextFrame
  <2>6. \A i : ~Suppresses(c, i)'
    BY <1>2, <2>3, <2>4 DEF NextPlace, Suppresses, StopPcs, RestorePcs
  <2>. QED
    BY <2>2, <2>5, <2>6
<1>. QED
  BY <1>1, <1>2

(* A command at work writes the record of container i.                     *)
LEMMA WriteStep ==
  ASSUME IInv, NEW c \in Clients, Busy(c), cmd[c].pc \notin {"confirm", "attached"},
         NEW g, cmd' = [cmd EXCEPT ![c] = g], ClientInv(c)',
         NEW i \in DOMAIN rec, NEW r \in Records, rec' = [rec EXCEPT ![i] = r],
         UNCHANGED <<born, live, keepers, vols, crashes, astray, forced>>,
         lost \subseteq lost', wanted \subseteq wanted', wanted' \subseteq wanted \cup {i},
         r.pid <= Len(keepers), r.mounts \subseteq vols \cup forced, r.mounts # {} => r.bundle,
         \A k \in KeptBy(i) : r.status = "running" /\ r.pid = k /\ Agree(rec[i], r),
         i \notin lost' =>
            /\ rec[i].pid <= r.pid /\ rec[i].exit <= r.exit
            /\ crashes = 0 => r.exit >= r.pid \/ r.pid \in KeptBy(i),
         AutoInv'
  PROVE  IInv'
<1>1. DOMAIN rec' = DOMAIN rec /\ rec'[i] = r /\ \A j \in DOMAIN rec : j # i => rec'[j] = rec[j]
  OBVIOUS
<1>2. DOMAIN cmd = Clients /\ cmd'[c] = g /\ \A d \in Clients : d # c => cmd'[d] = cmd[d]
  BY DEF IInv, TypeInv
<1>3. TypeInv'
  BY <1>1, <1>2 DEF IInv, TypeInv
<1>4. \A d \in Clients : d # c => ~Busy(d) /\ (Busy(d)' <=> Busy(d))
  BY <1>2, Others DEF IInv, Busy, Blocked
<1>5. Solo'
  BY <1>4 DEF Solo
<1>6. OneKeeper' /\ VolumeInv'
  BY <1>1 DEF IInv, OneKeeper, VolumeInv, KeeperRuns
<1>7. \A j : KeptBy(j)' = KeptBy(j)
  BY DEF KeptBy, KeeperRuns
<1>8. ExitInv'
  BY <1>1, <1>7 DEF IInv, ExitInv
<1>9. ASSUME NEW k \in DOMAIN keepers PROVE KeeperInv(k)'
  <2>1. KeeperInv(k) /\ keepers[k].pc \notin Starting
    BY Calm DEF IInv
  <2>2. Follows(keepers[k].id, k) /\ KeeperRuns(k) => Follows(keepers[k].id, k)'
    <3>1. SUFFICES ASSUME KeeperRuns(k), Follows(keepers[k].id, k) PROVE Follows(keepers[k].id, k)'
      OBVIOUS
    <3>2. CASE keepers[k].id = i
      <4>1. k \in KeptBy(i)
        BY <3>1, <3>2 DEF KeptBy
      <4>. QED
        BY <1>1, <3>1, <3>2, <4>1 DEF Follows, Agree, Exists
    <3>3. CASE keepers[k].id # i
      BY <1>1, <3>1, <3>3 DEF Follows, Agree, Exists
    <3>. QED
      BY <3>2, <3>3
  <2>3. KeeperRuns(k)' <=> KeeperRuns(k)
    BY DEF KeeperRuns
  <2>4. keepers[k].pc \in {"reload", "write", "remove"} => KeeperRuns(k)
    BY DEF KeeperRuns
  <2>. QED
    BY <1>1, <2>1, <2>2, <2>3, <2>4 DEF KeeperInv, Exists
<1>10. Forward
  <2>1. \A j \in DOMAIN rec : rec[j] \in Records /\ rec[j].pid <= rec[j].pid /\ rec[j].exit <= rec[j].exit
    BY DEF IInv, TypeInv, Records
  <2>2. born <= born' /\ Len(keepers) <= Len(keepers')
    BY DEF IInv, TypeInv
  <2>. QED
    BY <1>1, <2>1, <2>2 DEF Forward
<1>11. ASSUME NEW d \in Clients PROVE ClientInv(d)'
  <2>1. CASE d # c
    BY <1>2, <1>3, <1>4, <1>10, <2>1, Quiet DEF IInv
  <2>. QED
    BY <2>1
<1>. QED
  BY <1>3, <1>5, <1>6, <1>8, <1>9, <1>11 DEF IInv

(* It removes the record of container i, which has no process.             *)
LEMMA UnlinkStep ==
  ASSUME IInv, NEW c \in Clients, Busy(c), cmd[c].pc \notin {"confirm", "attached"},
         cmd[c].op # "restart", NEW g, cmd' = [cmd EXCEPT ![c] = g], ClientInv(c)',
         NEW i, NoneAlive(i), Unlink(i),
         UNCHANGED <<born, live, keepers, vols, crashes, wanted, lost, astray, forced>>
  PROVE  IInv'
<1>1. DOMAIN rec' = DOMAIN rec \ {i} /\ \A j \in DOMAIN rec' : rec'[j] = rec[j]
  BY DEF Unlink
<1>2. DOMAIN cmd = Clients /\ cmd'[c] = g /\ \A d \in Clients : d # c => cmd'[d] = cmd[d]
  BY DEF IInv, TypeInv
<1>3. TypeInv'
  BY <1>1, <1>2 DEF IInv, TypeInv
<1>4. \A d \in Clients : d # c => ~Busy(d) /\ (Busy(d)' <=> Busy(d))
  BY <1>2, Others DEF IInv, Busy, Blocked
<1>5. Solo'
  BY <1>4 DEF Solo
<1>6. OneKeeper' /\ VolumeInv'
  BY <1>1 DEF IInv, OneKeeper, VolumeInv, KeeperRuns
<1>7. \A j : KeptBy(j)' = KeptBy(j)
  BY DEF KeptBy, KeeperRuns
<1>8. ExitInv'
  BY <1>1, <1>7 DEF IInv, ExitInv
<1>9. AutoInv'
  <2>1. \A j : ~Suppresses(c, j)
    BY DEF Suppresses
  <2>. QED
    BY <1>1, <1>2, <2>1, AutoKept DEF IInv
<1>10. ASSUME NEW k \in DOMAIN keepers PROVE KeeperInv(k)'
  <2>1. KeeperInv(k) /\ keepers[k].pc \notin Starting
    BY Calm DEF IInv
  <2>2. KeeperRuns(k)' <=> KeeperRuns(k)
    BY DEF KeeperRuns
  <2>3. Follows(keepers[k].id, k) => Follows(keepers[k].id, k)'
    BY <1>1 DEF Follows, Agree, Exists
  <2>4. k \in live => Exists(keepers[k].id)'
    BY <1>1, <2>1 DEF NoneAlive, KeeperInv, Exists
  <2>. QED
    BY <2>1, <2>2, <2>3, <2>4 DEF KeeperInv
<1>11. Forward
  <2>1. \A j \in DOMAIN rec : rec[j] \in Records /\ rec[j].pid <= rec[j].pid /\ rec[j].exit <= rec[j].exit
    BY DEF IInv, TypeInv, Records
  <2>2. born <= born' /\ Len(keepers) <= Len(keepers')
    BY DEF IInv, TypeInv
  <2>. QED
    BY <1>1, <2>1, <2>2 DEF Forward
<1>12. ASSUME NEW d \in Clients PROVE ClientInv(d)'
  <2>1. CASE d # c
    BY <1>2, <1>3, <1>4, <1>11, <2>1, Quiet DEF IInv
  <2>. QED
    BY <2>1
<1>. QED
  BY <1>3, <1>5, <1>6, <1>8, <1>9, <1>10, <1>12 DEF IInv

(* It makes a container.                                                   *)
LEMMA AddStep ==
  ASSUME IInv, NEW c \in Clients, Busy(c), cmd[c].pc \notin {"confirm", "attached"},
         cmd[c].op # "restart", NEW g, cmd' = [cmd EXCEPT ![c] = g], ClientInv(c)',
         born < MaxIds, born' = born + 1, NEW r \in Records, Add(born + 1, r),
         r.pid = 0, r.mounts = {},
         UNCHANGED <<live, keepers, vols, crashes, lost, astray, forced>>,
         wanted' = IF r.rm THEN wanted \cup {born + 1} ELSE wanted
  PROVE  IInv'
<1>. DEFINE i == born + 1
<1>0. born \in Nat /\ MaxIds \in Nat /\ i \in Nat /\ born < i /\ born' = i /\ i <= MaxIds
  BY EngineAssumption DEF IInv, TypeInv
<1>1. /\ DOMAIN rec' = DOMAIN rec \cup {i} /\ rec'[i] = r /\ i \notin DOMAIN rec
      /\ \A j \in DOMAIN rec : j # i /\ rec'[j] = rec[j]
  BY <1>0 DEF Add, IInv, TypeInv
<1>. HIDE DEF i
<1>2. DOMAIN cmd = Clients /\ cmd'[c] = g /\ \A d \in Clients : d # c => cmd'[d] = cmd[d]
  BY DEF IInv, TypeInv
<1>3. TypeInv'
  <2>1. 1..born \subseteq 1..i /\ i \in 1..i
    BY <1>0
  <2>2. wanted' \subseteq 1..i /\ DOMAIN rec' \subseteq 1..i
    BY <1>1, <2>1 DEF IInv, TypeInv, i
  <2>3. \A k \in DOMAIN keepers : keepers[k].id \in 1..i
    BY <2>1 DEF IInv, TypeInv
  <2>4. \A j \in DOMAIN rec' : rec'[j] \in Records /\ rec'[j].pid <= Len(keepers)
    BY <1>1 DEF IInv, TypeInv
  <2>. QED
    BY <1>0, <1>2, <2>2, <2>3, <2>4 DEF IInv, TypeInv
<1>4. \A d \in Clients : d # c => ~Busy(d) /\ (Busy(d)' <=> Busy(d))
  BY <1>2, Others DEF IInv, Busy, Blocked
<1>5. Solo'
  BY <1>4 DEF Solo
<1>6. OneKeeper' /\ VolumeInv'
  BY <1>1 DEF IInv, OneKeeper, VolumeInv, KeeperRuns
<1>7. \A j : KeptBy(j)' = KeptBy(j)
  BY DEF KeptBy, KeeperRuns
<1>8. ExitInv'
  <2>1. r.exit >= r.pid
    BY DEF Records
  <2>. QED
    BY <1>1, <1>7, <2>1 DEF IInv, ExitInv
<1>9. AutoInv'
  <2>1. \A j : ~Suppresses(c, j)
    BY DEF Suppresses
  <2>2. KeptBy(i) = {}
    BY <1>0 DEF KeptBy, IInv, TypeInv
  <2>3. \A j \in wanted' \cap DOMAIN rec' : IF j = i THEN r.rm ELSE j \in wanted \cap DOMAIN rec
    <3>1. i \notin wanted
      BY <1>0 DEF IInv, TypeInv
    <3>. QED
      BY <1>1, <3>1 DEF i
  <2>. QED
    <3>1. \A j \in (wanted' \cap DOMAIN rec') \ (lost' \cup astray') :
            /\ rec'[j].rm \/ (j \in wanted \cap DOMAIN rec /\ (rec[j].rm => rec'[j].rm))
            /\ j \in wanted \cap DOMAIN rec \/ KeptBy(j) = {}
      BY <1>1, <2>2, <2>3
    <3>. QED
      BY <1>2, <2>1, <3>1, AutoKept DEF IInv
<1>10. ASSUME NEW k \in DOMAIN keepers PROVE KeeperInv(k)'
  <2>1. KeeperInv(k) /\ keepers[k].pc \notin Starting
    BY Calm DEF IInv
  <2>2. KeeperRuns(k)' <=> KeeperRuns(k)
    BY DEF KeeperRuns
  <2>3. keepers[k].id # i
    BY <1>0 DEF IInv, TypeInv
  <2>4. Follows(keepers[k].id, k) => Follows(keepers[k].id, k)'
    BY <1>1, <2>3 DEF Follows, Agree, Exists
  <2>. QED
    BY <1>1, <2>1, <2>2, <2>4 DEF KeeperInv, Exists
<1>11. Forward
  <2>1. \A j \in DOMAIN rec : rec[j] \in Records /\ rec[j].pid <= rec[j].pid /\ rec[j].exit <= rec[j].exit
    BY DEF IInv, TypeInv, Records
  <2>2. born <= born' /\ Len(keepers) <= Len(keepers') /\ i \notin 1..born
    BY <1>0 DEF IInv, TypeInv
  <2>. QED
    BY <1>1, <2>1, <2>2 DEF Forward
<1>12. ASSUME NEW d \in Clients PROVE ClientInv(d)'
  <2>1. CASE d # c
    BY <1>2, <1>3, <1>4, <1>11, <2>1, Quiet DEF IInv
  <2>. QED
    BY <2>1
<1>. QED
  BY <1>3, <1>5, <1>6, <1>8, <1>9, <1>10, <1>12 DEF IInv

(* A step of the keeper of container i.                                    *)
LaunchQuiet(c) == ~Busy(c) \/ cmd[c].pc \in {"confirm", "attached"}

LEMMA Launching ==
  ASSUME IInv, NEW k \in DOMAIN keepers, keepers[k].pc \in Starting, NEW d \in Clients
  PROVE  LaunchQuiet(d)
<1>1. PICK c \in Clients : Launcher(c, k)
  BY DEF IInv, KeeperInv
<1>2. Busy(c)
  BY <1>1, KeeperFacts DEF Launcher, Busy, Blocked, Starting, IInv
<1>. QED
  BY <1>1, <1>2 DEF IInv, Solo, Launcher, LaunchQuiet

(* The record of the container, and the frame.                             *)
Keeps(k, m, i) ==
    /\ keepers' = [keepers EXCEPT ![k] = m]
    /\ keepers[k].id = i /\ m.id = i /\ m \in KeeperType /\ m.rm = keepers[k].rm
    /\ m.pc \in Starting => keepers[k].pc \in Starting
    /\ UNCHANGED <<born, vols, cmd, crashes, wanted, lost, astray, forced>>
    /\ DOMAIN rec' \subseteq DOMAIN rec
    /\ \A j \in DOMAIN rec : j # i => j \in DOMAIN rec' /\ rec'[j] = rec[j]
    /\ i \in DOMAIN rec' =>
        /\ rec'[i] \in Records /\ rec'[i].pid <= Len(keepers) /\ Agree(rec[i], rec'[i])
        /\ rec[i].pid <= rec'[i].pid
        /\ rec[i].exit <= rec'[i].exit \/ rec'[i].pid <= rec'[i].exit

LEMMA KeepsFacts ==
  ASSUME IInv, NEW k \in DOMAIN keepers, NEW m, NEW i, Keeps(k, m, i), live' \subseteq live \cup {k}
  PROVE  /\ DOMAIN keepers' = DOMAIN keepers /\ Len(keepers') = Len(keepers) /\ keepers'[k] = m
         /\ \A l \in DOMAIN keepers : l # k => keepers'[l] = keepers[l]
         /\ TypeInv' /\ Forward /\ Solo'
<1>1. /\ keepers \in Seq(KeeperType) /\ DOMAIN keepers = 1..Len(keepers) /\ Len(keepers) \in Nat
  BY DEF IInv, TypeInv
<1>2. keepers' \in Seq(KeeperType) /\ Len(keepers') = Len(keepers) /\ DOMAIN keepers' = DOMAIN keepers
  BY <1>1 DEF Keeps
<1>3. keepers'[k] = m /\ \A l \in DOMAIN keepers : l # k => keepers'[l] = keepers[l]
  BY DEF Keeps
<1>4. TypeInv'
  <2>1. DOMAIN rec' \subseteq 1..born
    BY DEF Keeps, IInv, TypeInv
  <2>2. \A j \in DOMAIN rec' : rec'[j] \in Records /\ rec'[j].pid <= Len(keepers)
    BY DEF Keeps, IInv, TypeInv
  <2>3. \A l \in DOMAIN keepers : keepers'[l].id \in 1..born
    BY <1>3 DEF Keeps, IInv, TypeInv
  <2>4. live' \subseteq DOMAIN keepers
    BY DEF IInv, TypeInv
  <2>. QED
    BY <1>2, <2>1, <2>2, <2>3, <2>4 DEF Keeps, IInv, TypeInv
<1>5. Forward
  <2>1. \A j \in DOMAIN rec : rec[j] \in Records /\ rec[j].pid <= rec[j].pid /\ rec[j].exit <= rec[j].exit
    BY DEF IInv, TypeInv, Records
  <2>2. born <= born' /\ Len(keepers) <= Len(keepers') /\ lost \subseteq lost' /\ crashes' = crashes
    BY <1>1, <1>2 DEF IInv, TypeInv, Keeps
  <2>3. \A j \in DOMAIN rec' : /\ j \in DOMAIN rec /\ rec[j].pid <= rec'[j].pid
                               /\ rec[j].exit <= rec'[j].exit \/ rec'[j].pid <= rec'[j].exit
    BY <2>1 DEF Keeps
  <2>4. \A l \in DOMAIN keepers : keepers'[l].id = keepers[l].id
    BY <1>3 DEF Keeps
  <2>. QED
    BY <2>2, <2>3, <2>4 DEF Forward
<1>6. \A d \in Clients : Busy(d)' => Busy(d)
  <2>. SUFFICES ASSUME NEW d \in Clients, Busy(d)' PROVE Busy(d)
    OBVIOUS
  <2>1. cmd' = cmd
    BY DEF Keeps
  <2>2. cmd[d].pc = "attached" => cmd[d].keeper \in 0..Len(keepers)
    BY DEF IInv, ClientInv, LaunchInv
  <2>3. \A l \in DOMAIN keepers : keepers'[l].pc \in Starting => keepers[l].pc \in Starting
    BY <1>3 DEF Keeps
  <2>4. cmd[d].pc = "attached" /\ cmd[d].keeper # 0 => cmd[d].keeper \in DOMAIN keepers
    BY <1>1, <2>2
  <2>. QED
    BY <2>1, <2>3, <2>4 DEF Busy, Blocked, Starting
<1>7. Solo'
  BY <1>6 DEF IInv, Solo
<1>. QED
  BY <1>2, <1>3, <1>4, <1>5, <1>7

LEMMA KeeperStep ==
  ASSUME IInv, NEW k \in DOMAIN keepers, KeeperRuns(k), NEW m, NEW i, Keeps(k, m, i),
         live' \subseteq live \cup {k}, i \notin DOMAIN rec' => k \notin live',
         KeeperInv(k)', \A c \in Clients : ClientInv(c)',
         i \in DOMAIN rec' /\ crashes = 0 /\ i \notin lost =>
            \/ rec'[i].exit >= rec'[i].pid
            \/ rec'[i].pid = k /\ m.pc \notin {"done", "failed"}
            \/ rec'[i] = rec[i] /\ m.pc \notin {"done", "failed"},
         crashes = 0 /\ i \in (wanted \cap DOMAIN rec') \ (lost \cup astray) =>
            /\ rec'[i].rm \/ \E c \in Clients : Suppresses(c, i)
            /\ m.pc = "write" => \E c \in Clients : Suppresses(c, i) /\ cmd[c].pc \notin RestorePcs
  PROVE  IInv'
<1>1. /\ DOMAIN keepers' = DOMAIN keepers /\ keepers'[k] = m
      /\ \A l \in DOMAIN keepers : l # k => keepers'[l] = keepers[l]
      /\ TypeInv' /\ Solo'
  BY KeepsFacts
<1>2. \A l \in DOMAIN keepers : l # k /\ KeeperRuns(l) => keepers[l].id # i
  BY DEF IInv, OneKeeper, Keeps
<1>3. \A l \in DOMAIN keepers : l # k => (KeeperRuns(l)' <=> KeeperRuns(l))
  BY <1>1 DEF KeeperRuns
<1>4. OneKeeper'
  BY <1>1, <1>2, <1>3 DEF IInv, OneKeeper, Keeps
<1>5. VolumeInv'
  BY DEF IInv, VolumeInv, Keeps, Agree
<1>6. \A j : j # i => KeptBy(j)' = KeptBy(j)
  BY <1>1, <1>3 DEF KeptBy, Keeps
<1>7. KeptBy(i) = {k} /\ KeptBy(i)' = IF m.pc \in {"done", "failed"} THEN {} ELSE {k}
  <2>1. KeeperRuns(k)' <=> m.pc \notin {"done", "failed"}
    BY <1>1 DEF KeeperRuns
  <2>. QED
    BY <1>1, <1>2, <1>3, <2>1 DEF KeptBy, Keeps
<1>8. ExitInv'
  <2>. SUFFICES ASSUME crashes = 0, NEW j \in DOMAIN rec' \ lost
       PROVE  rec'[j].exit >= rec'[j].pid \/ rec'[j].pid \in KeptBy(j)'
    BY DEF ExitInv, Keeps
  <2>1. CASE j # i
    BY <1>6, <2>1 DEF IInv, ExitInv, Keeps
  <2>2. CASE j = i
    <3>1. j \in DOMAIN rec /\ (rec[j].exit >= rec[j].pid \/ rec[j].pid \in KeptBy(j))
      BY DEF IInv, ExitInv, Keeps
    <3>. QED
      BY <1>7, <2>2, <3>1
  <2>. QED
    BY <2>1, <2>2
<1>9. AutoInv'
  <2>1. \A c \in Clients : \A j : Suppresses(c, j)' <=> Suppresses(c, j)
    BY DEF Suppresses, Keeps
  <2>. SUFFICES ASSUME crashes = 0, NEW j \in (wanted \cap DOMAIN rec') \ (lost \cup astray)
       PROVE  /\ rec'[j].rm \/ \E c \in Clients : Suppresses(c, j)
              /\ \A l \in KeptBy(j)' :
                  /\ keepers'[l].rm
                  /\ keepers'[l].pc = "write" => \E c \in Clients : Suppresses(c, j) /\ cmd[c].pc \notin RestorePcs
    BY <2>1 DEF AutoInv, Keeps
  <2>2. j \in DOMAIN rec
    BY DEF Keeps
  <2>3. CASE j # i
    <3>1. rec'[j] = rec[j] /\ KeptBy(j)' = KeptBy(j) /\ \A l \in KeptBy(j) : l # k /\ keepers'[l] = keepers[l]
      BY <1>1, <1>6, <2>2, <2>3 DEF Keeps, KeptBy
    <3>. QED
      BY <2>2, <3>1 DEF IInv, AutoInv
  <2>4. CASE j = i
    <3>1. keepers[k].rm
      BY <1>7, <2>2, <2>4 DEF IInv, AutoInv
    <3>2. m.rm
      BY <3>1 DEF Keeps
    <3>. QED
      BY <1>1, <1>7, <2>4, <3>2
  <2>. QED
    BY <2>3, <2>4
<1>10. ASSUME NEW l \in DOMAIN keepers PROVE KeeperInv(l)'
  <2>1. CASE l = k
    BY <2>1
  <2>2. CASE l # k /\ ~KeeperRuns(l)
    <3>1. keepers'[l] = keepers[l] /\ keepers[l].pc \in {"done", "failed"} /\ (l \in live' => l \in live)
      BY <1>1, <2>2 DEF KeeperRuns
    <3>2. l \notin live'
      BY <3>1, <2>2 DEF IInv, KeeperInv
    <3>. QED
      BY <1>3, <2>2, <3>1, <3>2 DEF KeeperInv, Starting
  <2>3. CASE l # k /\ KeeperRuns(l)
    <3>1. keepers'[l] = keepers[l] /\ keepers[l].id # i /\ (l \in live' => l \in live)
      BY <1>1, <1>2, <2>3
    <3>2. Exists(keepers[l].id) =>
             Exists(keepers[l].id)' /\ rec'[keepers[l].id] = rec[keepers[l].id]
      BY <3>1 DEF Exists, Keeps
    <3>3. Exists(keepers[l].id)' => Exists(keepers[l].id)
      BY DEF Exists, Keeps
    <3>4. KeeperInv(l)
      BY DEF IInv
    <3>5. \A c : Launcher(c, l)' <=> Launcher(c, l)
      BY DEF Launcher, Keeps
    <3>6. Follows(keepers[l].id, l) => Follows(keepers[l].id, l)'
      BY <3>1, <3>2, <3>3 DEF Follows, Agree
    <3>. QED
      BY <2>3, <3>1, <3>2, <3>4, <3>5, <3>6 DEF KeeperInv, KeeperRuns
  <2>. QED
    BY <2>1, <2>2, <2>3
<1>. QED
  BY <1>1, <1>4, <1>5, <1>8, <1>9, <1>10 DEF IInv

(* What a command knows while the keeper of a process that is gone goes on. *)
LEMMA KeeperRest ==
  ASSUME IInv, NEW k \in DOMAIN keepers, keepers[k].pc \in {"reload", "write", "remove"}, NEW m, NEW i,
         Keeps(k, m, i), k \notin live, live' = live,
         i \in DOMAIN rec' => rec'[i].pid = rec[i].pid,
         NEW c \in Clients
  PROVE  ClientInv(c)'
<1>1. PICK f \in {cmd[c]} : cmd[c] = f /\ cmd'[c] = f
  BY DEF Keeps
<1>2. ClientInv(c)
  BY DEF IInv
<1>3. /\ DOMAIN keepers' = DOMAIN keepers /\ Len(keepers') = Len(keepers)
      /\ keepers'[k] = m /\ \A l \in DOMAIN keepers : l # k => keepers'[l] = keepers[l]
  BY KeepsFacts
<1>4. KeeperRuns(k) /\ k \in KeptBy(i)
  BY DEF KeeperRuns, KeptBy, Keeps
<1>5. \A j : KeptBy(j)' \subseteq KeptBy(j)
  BY <1>3, <1>4 DEF KeptBy, Keeps, KeeperRuns
<1>6. NoneAlive(i)
  <2>1. \A l \in live : l \in DOMAIN keepers /\ KeeperRuns(l)
    BY DEF IInv, TypeInv, KeeperInv, KeeperRuns
  <2>. QED
    BY <1>4, <2>1 DEF IInv, OneKeeper, NoneAlive, Keeps
<1>7. \A l \in live : l \in DOMAIN keepers /\ l # k /\ keepers'[l] = keepers[l]
  BY <1>3 DEF IInv, TypeInv
<1>8. MakeInv(f)'
  <2>1. MakeInv(f) /\ UNCHANGED <<vols, forced, wanted>>
    BY <1>1, <1>2 DEF ClientInv, Keeps
  <2>2. f.pc \in {"bundle", "prepared"} => f.id # i
    BY <2>1, <1>4 DEF MakeInv, KeptBy
  <2>3. f.pc \in {"bundle", "prepared"} => Exists(f.id)' /\ rec'[f.id] = rec[f.id]
    BY <2>1, <2>2 DEF MakeInv, Exists, Keeps
  <2>4. \A l \in DOMAIN keepers : keepers'[l].id = keepers[l].id
    BY <1>3 DEF Keeps
  <2>. QED
    BY <1>3, <2>1, <2>3, <2>4 DEF MakeInv
<1>9. LaunchInv(f)'
  <2>1. LaunchInv(f)
    BY <1>1, <1>2 DEF ClientInv
  <2>2. f.pc \in {"creating", "launch"} => f.id # i
    BY <1>4, <2>1 DEF LaunchInv
  <2>3. f.pc \in {"creating", "launch"} => Exists(f.id)' /\ rec'[f.id] = rec[f.id]
    BY <2>1, <2>2 DEF LaunchInv, Exists, Keeps
  <2>4. Exists(f.id)' => Exists(f.id)
    BY DEF Exists, Keeps
  <2>5. /\ DOMAIN keepers = 1..Len(keepers) /\ Len(keepers) \in Nat
        /\ \A l \in DOMAIN keepers : keepers'[l].id = keepers[l].id
    BY <1>3 DEF Keeps, IInv, TypeInv
  <2>. QED
    BY <1>3, <1>5, <2>1, <2>3, <2>4, <2>5 DEF LaunchInv
<1>10. StopInv(f)'
  <2>1. StopInv(f)
    BY <1>1, <1>2 DEF ClientInv
  <2>2. \A j, other : OnlyAlive(j, other) => OnlyAlive(j, other)'
    BY <1>7 DEF OnlyAlive
  <2>3. \A j, l : NoneAliveBut(j, l) => NoneAliveBut(j, l)'
    BY <1>7 DEF NoneAliveBut
  <2>4. \A j : NoneAlive(j) => NoneAlive(j)'
    BY <1>7 DEF NoneAlive
  <2>5. f.own # i /\ f.at \notin DOMAIN rec /\ rec[f.own].name = f.at =>
            NoneAlive(f.own)' \/ (f.at \notin DOMAIN rec' /\ rec'[f.own].name = f.at)
    <3>1. CASE f.own \in DOMAIN rec
      BY <3>1 DEF Keeps
    <3>2. CASE f.own \notin DOMAIN rec
      <4>1. \A l \in live : Exists(keepers[l].id)
        BY <1>7 DEF IInv, KeeperInv
      <4>2. NoneAlive(f.own)
        BY <3>2, <4>1 DEF NoneAlive, Exists
      <4>. QED
        BY <2>4, <4>2
    <3>. QED
      BY <3>1, <3>2
  <2>. QED
    BY <1>6, <2>1, <2>2, <2>3, <2>4, <2>5 DEF StopInv
<1>11. ChangeInv(f)'
  <2>1. ChangeInv(f)
    BY <1>1, <1>2 DEF ClientInv
  <2>2. ReadEarlier(f.id, f.mem) => ReadEarlier(f.id, f.mem)'
    <3>. SUFFICES ASSUME ReadEarlier(f.id, f.mem) PROVE ReadEarlier(f.id, f.mem)'
      OBVIOUS
    <3>1. Exists(f.id)' => Exists(f.id) /\ Agree(rec'[f.id], rec[f.id])
      BY DEF Exists, Keeps, Agree
    <3>. QED
      BY <1>3, <1>5, <3>1 DEF ReadEarlier, Agree
  <2>. QED
    BY <2>1, <2>2 DEF ChangeInv, Agree
<1>12. RestartInv(f)'
  <2>1. RestartInv(f) /\ astray' = astray
    BY <1>1, <1>2 DEF ClientInv, Keeps
  <2>2. Exists(f.own)' => Exists(f.own)
    BY DEF Exists, Keeps
  <2>. QED
    BY <1>5, <2>1, <2>2 DEF RestartInv
<1>13. WaitInv(f)'
  <2>1. WaitInv(f) /\ crashes' = crashes /\ lost' = lost
    BY <1>1, <1>2 DEF ClientInv, Keeps
  <2>2. Exists(f.id)' => /\ Exists(f.id) /\ rec[f.id] \in Records /\ rec'[f.id] \in Records
                         /\ rec[f.id].pid <= rec'[f.id].pid
                         /\ rec[f.id].exit <= rec'[f.id].exit \/ rec'[f.id].pid <= rec'[f.id].exit
    <3>1. \A j \in DOMAIN rec : rec[j] \in Records /\ rec[j].pid <= rec[j].pid /\ rec[j].exit <= rec[j].exit
      BY DEF IInv, TypeInv, Records
    <3>. QED
      BY <3>1 DEF Exists, Keeps
  <2>3. \A r \in Records : r.pid \in Int /\ r.exit \in Int
    BY DEF Records
  <2>4. f.op = "wait" /\ f.pc # "waiting" => f.mem \in Records /\ f.mem.pid \in Int
    BY <2>1, <2>3 DEF WaitInv
  <2>5. Exists(f.id)' => /\ rec[f.id].pid \in Int /\ rec'[f.id].pid \in Int
                         /\ rec[f.id].exit \in Int /\ rec'[f.id].exit \in Int
    BY <2>2, <2>3
  <2>. QED
    BY <2>1, <2>2, <2>4, <2>5 DEF WaitInv
<1>. QED
  BY <1>1, <1>2, <1>8, <1>9, <1>10, <1>11, <1>12, <1>13 DEF ClientInv, Keeps

(* The keeper's steps.                                                     *)
LEMMA LaunchingKept ==
  ASSUME IInv, NEW k \in DOMAIN keepers, keepers[k].pc \in Starting, NEW m, NEW i, Keeps(k, m, i),
         live' \subseteq live \cup {k}
  PROVE  \A c \in Clients : ClientInv(c)'
<1>. SUFFICES ASSUME NEW c \in Clients PROVE ClientInv(c)'
  OBVIOUS
<1>1. TypeInv /\ TypeInv' /\ Forward /\ ClientInv(c) /\ cmd'[c] = cmd[c]
  BY KeepsFacts DEF IInv, Keeps
<1>2. LaunchQuiet(c)
  BY Launching
<1>. QED
  BY <1>1, <1>2, Quiet DEF LaunchQuiet

LEMMA RunningKeeper ==
  ASSUME IInv, NEW k \in DOMAIN keepers, KeeperRuns(k)
  PROVE  /\ keepers[k] \in KeeperType /\ keepers[k].mem \in Records /\ keepers[k].id \in 1..born
         /\ k \in 1..MaxLaunches /\ k \in Nat /\ k <= Len(keepers) /\ Len(keepers) \in Nat
         /\ KeeperInv(k) /\ DOMAIN keepers[k] = {"id", "mem", "rm", "pc"}
<1>1. KeeperInv(k)
  BY DEF IInv
<1>2. keepers[k] \in KeeperType /\ keepers[k].id \in 1..born /\ DOMAIN keepers = 1..Len(keepers) /\ Len(keepers) \in Nat
  BY KeeperFacts DEF IInv
<1>3. Len(keepers) <= MaxLaunches /\ MaxLaunches \in Nat
  BY EngineAssumption DEF IInv, TypeInv
<1>. QED
  BY <1>1, <1>2, <1>3 DEF KeeperInv, KeeperType

LEMMA SpawnStep ==
  ASSUME IInv, NEW k, KeeperSpawns(k) PROVE IInv'
<1>. DEFINE i == keepers[k].id  m == [keepers[k] EXCEPT !.pc = "spawned"]
<1>1. k \in DOMAIN keepers /\ keepers[k].pc = "forked" /\ KeeperRuns(k) /\ keepers[k].pc \in Starting
  BY DEF KeeperSpawns, KeeperRuns, Starting
<1>2. keepers' = [keepers EXCEPT ![k] = m] /\ live' = live \cup {k}
      /\ UNCHANGED <<rec, born, vols, cmd, crashes, wanted, lost, astray, forced>>
  BY <1>1 DEF KeeperSpawns, unchangedHistory
<1>3. KeeperInv(k) /\ keepers[k] \in KeeperType
  BY <1>1, RunningKeeper
<1>4. m \in KeeperType /\ m.id = i /\ m.rm = keepers[k].rm /\ m.pc = "spawned" /\ m.mem = keepers[k].mem
  BY <1>3 DEF KeeperType, KeeperStates
<1>5. Keeps(k, m, i)
  <2>1. \A j \in DOMAIN rec : rec[j] \in Records /\ rec[j].pid <= rec[j].pid /\ rec[j].exit <= rec[j].exit
                              /\ rec[j].pid <= Len(keepers)
    BY DEF IInv, TypeInv, Records
  <2>. QED
    BY <1>1, <1>2, <1>4, <2>1 DEF Keeps, Agree, Starting
<1>6. keepers'[k] = m
  BY <1>1, <1>2
<1>7. KeeperInv(k)'
  <2>1. \A c : Launcher(c, k)' <=> Launcher(c, k)
    BY <1>2 DEF Launcher
  <2>. HIDE DEF m
  <2>. QED
    BY <1>1, <1>2, <1>3, <1>4, <1>6, <2>1 DEF KeeperInv, KeeperRuns, Exists, Starting
<1>8. \A c \in Clients : ClientInv(c)'
  BY <1>1, <1>2, <1>5, LaunchingKept
<1>9. i \in DOMAIN rec
  BY <1>1, <1>3 DEF KeeperInv, Exists
<1>10. crashes = 0 /\ i \in (wanted \cap DOMAIN rec') \ (lost \cup astray) =>
            rec'[i].rm \/ \E c \in Clients : Suppresses(c, i)
  BY <1>2 DEF IInv, AutoInv
<1>. HIDE DEF m, i
<1>. QED
  BY <1>1, <1>2, <1>4, <1>5, <1>7, <1>8, <1>9, <1>10, KeeperStep

LEMMA AbortStep ==
  ASSUME IInv, NEW k, KeeperAborts(k) PROVE IInv'
<1>. DEFINE i == keepers[k].id  m == [keepers[k] EXCEPT !.pc = "broken"]
<1>1. k \in DOMAIN keepers /\ keepers[k].pc = "spawned" /\ KeeperRuns(k) /\ keepers[k].pc \in Starting
  BY DEF KeeperAborts, KeeperRuns, Starting
<1>2. keepers' = [keepers EXCEPT ![k] = m] /\ live' = live \ {k}
      /\ UNCHANGED <<rec, born, vols, cmd, crashes, wanted, lost, astray, forced>>
  BY <1>1 DEF KeeperAborts
<1>3. KeeperInv(k) /\ keepers[k] \in KeeperType
  BY <1>1, RunningKeeper
<1>4. m \in KeeperType /\ m.id = i /\ m.rm = keepers[k].rm /\ m.pc = "broken" /\ m.mem = keepers[k].mem
  BY <1>3 DEF KeeperType, KeeperStates
<1>5. Keeps(k, m, i)
  <2>1. \A j \in DOMAIN rec : rec[j] \in Records /\ rec[j].pid <= rec[j].pid /\ rec[j].exit <= rec[j].exit
                              /\ rec[j].pid <= Len(keepers)
    BY DEF IInv, TypeInv, Records
  <2>. QED
    BY <1>1, <1>2, <1>4, <2>1 DEF Keeps, Agree, Starting
<1>6. keepers'[k] = m
  BY <1>1, <1>2
<1>7. KeeperInv(k)'
  <2>1. \A c : Launcher(c, k)' <=> Launcher(c, k)
    BY <1>2 DEF Launcher
  <2>. HIDE DEF m
  <2>. QED
    BY <1>1, <1>2, <1>3, <1>4, <1>6, <2>1 DEF KeeperInv, KeeperRuns, Exists, Starting
<1>8. \A c \in Clients : ClientInv(c)'
  BY <1>1, <1>2, <1>5, LaunchingKept
<1>9. i \in DOMAIN rec
  BY <1>1, <1>3 DEF KeeperInv, Exists
<1>10. crashes = 0 /\ i \in (wanted \cap DOMAIN rec') \ (lost \cup astray) =>
            rec'[i].rm \/ \E c \in Clients : Suppresses(c, i)
  BY <1>2 DEF IInv, AutoInv
<1>. HIDE DEF m, i
<1>. QED
  BY <1>1, <1>2, <1>4, <1>5, <1>7, <1>8, <1>9, <1>10, KeeperStep

LEMMA FailStep ==
  ASSUME IInv, NEW k, KeeperFails(k) PROVE IInv'
<1>. DEFINE i == keepers[k].id  m == [keepers[k] EXCEPT !.pc = "failed", !.mem = <<>>]
<1>1. k \in DOMAIN keepers /\ keepers[k].pc \in {"forked", "broken"} /\ KeeperRuns(k) /\ keepers[k].pc \in Starting
  BY DEF KeeperFails, KeeperRuns, Starting
<1>2. keepers' = [keepers EXCEPT ![k] = m]
      /\ UNCHANGED <<live, born, vols, cmd, crashes, wanted, lost, astray, forced>>
  BY <1>1 DEF KeeperFails, unchangedHistory
<1>3. KeeperInv(k) /\ keepers[k] \in KeeperType
  BY <1>1, RunningKeeper
<1>4. m \in KeeperType /\ m.id = i /\ m.rm = keepers[k].rm /\ m.pc = "failed"
  BY <1>3 DEF KeeperType, KeeperStates
<1>5. Keeps(k, m, i) /\ i \notin DOMAIN rec'
  BY <1>1, <1>2, <1>4 DEF Keeps, Starting, KeeperFails, Unlink
<1>6. keepers'[k] = m /\ k \notin live
  BY <1>1, <1>2, <1>3 DEF KeeperInv
<1>7. KeeperInv(k)'
  <2>. HIDE DEF m
  <2>. QED
    BY <1>2, <1>4, <1>6 DEF KeeperInv, KeeperRuns, Starting
<1>8. \A c \in Clients : ClientInv(c)'
  BY <1>1, <1>2, <1>5, LaunchingKept
<1>. HIDE DEF m, i
<1>. QED
  BY <1>1, <1>2, <1>4, <1>5, <1>6, <1>7, <1>8, KeeperStep

LEMMA RecordStep ==
  ASSUME IInv, NEW k, KeeperRecords(k) PROVE IInv'
<1>. DEFINE i == keepers[k].id
            r == [keepers[k].mem EXCEPT !.status = "running", !.pid = k]
            m == [keepers[k] EXCEPT !.pc = "reload", !.mem = r]
<1>1. k \in DOMAIN keepers /\ keepers[k].pc = "spawned" /\ KeeperRuns(k) /\ keepers[k].pc \in Starting
  BY DEF KeeperRecords, KeeperRuns, Starting
<1>2. keepers' = [keepers EXCEPT ![k] = m]
      /\ UNCHANGED <<live, born, vols, cmd, crashes, wanted, lost, astray, forced>>
  BY <1>1 DEF KeeperRecords, unchangedHistory
<1>3. KeeperInv(k) /\ keepers[k] \in KeeperType /\ keepers[k].mem \in Records /\ k \in 1..MaxLaunches
      /\ k <= Len(keepers) /\ MaxLaunches \in Nat
  BY <1>1, RunningKeeper, EngineAssumption
<1>4. i \in DOMAIN rec /\ keepers[k].mem = rec[i] /\ rec[i].pid < k /\ keepers[k].rm = rec[i].rm
  BY <1>1, <1>3 DEF KeeperInv, Exists
<1>5. r \in Records /\ r.status = "running" /\ r.pid = k /\ r.exit = rec[i].exit /\ r.rm = rec[i].rm
      /\ Agree(rec[i], r) /\ rec[i].pid <= r.pid /\ rec[i].exit <= r.exit
  <2>1. r \in Records /\ r.status = "running" /\ r.pid = k /\ r.exit = rec[i].exit /\ r.rm = rec[i].rm
        /\ r.mounts = rec[i].mounts /\ r.bundle = rec[i].bundle
    <3>1. k \in 0..MaxLaunches
      BY <1>3
    <3>2. PICK s \in {keepers[k].mem} : s = keepers[k].mem
      OBVIOUS
    <3>3. s \in Records /\ r = [s EXCEPT !.status = "running", !.pid = k] /\ s = rec[i]
      BY <1>3, <1>4, <3>2
    <3>4. r \in Records
      BY <3>1, <3>3 DEF Records, Statuses
    <3>5. DOMAIN s = {"status", "pid", "name", "labels", "rm", "exit", "health", "bundle", "mounts", "upper"}
      BY <3>3 DEF Records
    <3>. QED
      BY <3>3, <3>4, <3>5
  <2>2. rec[i].pid \in Nat /\ rec[i].exit \in Nat /\ k \in Nat
    BY <1>3, <1>4 DEF Records
  <2>. HIDE DEF r
  <2>. QED
    BY <1>4, <2>1, <2>2 DEF Agree
<1>6. m \in KeeperType /\ m.id = i /\ m.rm = keepers[k].rm /\ m.pc = "reload" /\ m.mem = r
  BY <1>3, <1>5 DEF KeeperType, KeeperStates
<1>7. rec' = [rec EXCEPT ![i] = r]
  BY <1>4 DEF KeeperRecords, Write, Exists
<1>. HIDE DEF r, m, i
<1>8. Keeps(k, m, i)
  BY <1>1, <1>2, <1>3, <1>4, <1>5, <1>6, <1>7 DEF Keeps, Starting, i
<1>9. keepers'[k] = m /\ rec'[i] = r /\ i \in DOMAIN rec'
  BY <1>1, <1>2, <1>4, <1>7
<1>10. KeeperInv(k)'
  BY <1>4, <1>5, <1>6, <1>9 DEF KeeperInv, KeeperRuns, Starting, Follows, Exists, Agree
<1>11. \A c \in Clients : ClientInv(c)'
  BY <1>1, <1>2, <1>8, LaunchingKept
<1>12. crashes = 0 /\ i \in (wanted \cap DOMAIN rec') \ (lost \cup astray) =>
            rec'[i].rm \/ \E c \in Clients : Suppresses(c, i)
  BY <1>4, <1>5, <1>9 DEF IInv, AutoInv
<1>. QED
  BY <1>1, <1>2, <1>5, <1>6, <1>8, <1>9, <1>10, <1>11, <1>12, KeeperStep

LEMMA ReloadStep ==
  ASSUME IInv, NEW k, KeeperReloads(k) PROVE IInv'
<1>. DEFINE i == keepers[k].id
<1>1. k \in DOMAIN keepers /\ keepers[k].pc = "reload" /\ KeeperRuns(k) /\ k \notin live
  BY DEF KeeperReloads, KeeperRuns, Alive
<1>2. UNCHANGED <<rec, live, born, vols, cmd, crashes, wanted, lost, astray, forced>>
  BY DEF KeeperReloads, unchangedHistory
<1>3. KeeperInv(k) /\ keepers[k] \in KeeperType /\ keepers[k].mem \in Records /\ k \in 1..MaxLaunches
      /\ k <= Len(keepers) /\ MaxLaunches \in Nat /\ k \in Nat
  BY <1>1, RunningKeeper, EngineAssumption
<1>4. keepers[k].mem.pid = k /\ (i \in DOMAIN rec => rec[i].pid = k)
  BY <1>1, <1>3 DEF KeeperInv, Follows, Exists
<1>5. CASE Exists(i) /\ ~rec[i].rm
  <2>. DEFINE r == [rec[i] EXCEPT !.status = "stopped", !.pid = keepers[k].mem.pid, !.exit = k]
              m == [keepers[k] EXCEPT !.pc = "write", !.mem = r]
  <2>1. keepers' = [keepers EXCEPT ![k] = m] /\ rec' = rec
    BY <1>1, <1>2, <1>5 DEF KeeperReloads
  <2>2. i \in DOMAIN rec /\ rec[i] \in Records /\ rec[i].pid <= Len(keepers)
        /\ rec[i].exit <= rec[i].exit /\ rec[i].pid <= rec[i].pid
    BY <1>5 DEF Exists, IInv, TypeInv, Records
  <2>3. r \in Records /\ r.status = "stopped" /\ r.pid = k /\ r.exit = k /\ Agree(rec[i], r)
    BY <1>3, <1>4, <2>2 DEF Records, Statuses, Agree
  <2>4. m \in KeeperType /\ m.id = i /\ m.rm = keepers[k].rm /\ m.pc = "write" /\ m.mem = r
    BY <1>3, <2>3 DEF KeeperType, KeeperStates
  <2>5. Follows(i, k) /\ Exists(i)
    BY <1>1, <1>3, <1>5 DEF KeeperInv
  <2>. HIDE DEF r, m, i
  <2>6. Keeps(k, m, i)
    BY <1>1, <1>2, <2>1, <2>2, <2>4 DEF Keeps, Starting, i, Agree
  <2>7. keepers'[k] = m
    BY <1>1, <2>1
  <2>8. KeeperInv(k)'
    BY <1>1, <1>2, <2>1, <2>3, <2>4, <2>5, <2>7 DEF KeeperInv, KeeperRuns, Starting, Follows, Exists, Agree
  <2>9. \A c \in Clients : ClientInv(c)'
    BY <1>1, <1>2, <2>1, <2>6, KeeperRest
  <2>10. crashes = 0 /\ i \in (wanted \cap DOMAIN rec') \ (lost \cup astray) =>
            \E c \in Clients : Suppresses(c, i) /\ cmd[c].pc \notin RestorePcs
    <3>. SUFFICES ASSUME crashes = 0, i \in (wanted \cap DOMAIN rec) \ (lost \cup astray)
         PROVE  \E c \in Clients : Suppresses(c, i) /\ cmd[c].pc \notin RestorePcs
      BY <2>1
    <3>1. PICK c \in Clients : Suppresses(c, i)
      BY <1>5 DEF IInv, AutoInv
    <3>2. k \in KeptBy(i) /\ RestartInv(cmd[c])
      BY <1>1 DEF KeptBy, i, IInv, ClientInv
    <3>3. cmd[c].pc \notin RestorePcs
      BY <3>1, <3>2, <2>2 DEF RestartInv, Suppresses, Exists
    <3>. QED
      BY <3>1, <3>3
  <2>. QED
    BY <1>1, <1>2, <2>1, <2>4, <2>6, <2>8, <2>9, <2>10, KeeperStep
<1>6. CASE Exists(i) /\ rec[i].rm
  <2>. DEFINE m == [keepers[k] EXCEPT !.pc = "remove"]
  <2>1. keepers' = [keepers EXCEPT ![k] = m]
    BY <1>1, <1>6 DEF KeeperReloads
  <2>2. i \in DOMAIN rec /\ rec[i] \in Records /\ rec[i].pid <= Len(keepers)
        /\ rec[i].exit <= rec[i].exit /\ rec[i].pid <= rec[i].pid
    BY <1>6 DEF Exists, IInv, TypeInv, Records
  <2>3. m \in KeeperType /\ m.id = i /\ m.rm = keepers[k].rm /\ m.pc = "remove" /\ m.mem = keepers[k].mem
    BY <1>3 DEF KeeperType, KeeperStates
  <2>4. Follows(i, k) /\ keepers[k].mem.status = "running" /\ keepers[k].rm = keepers[k].mem.rm
    BY <1>1, <1>3 DEF KeeperInv
  <2>. HIDE DEF m, i
  <2>5. Keeps(k, m, i)
    BY <1>1, <1>2, <2>1, <2>2, <2>3 DEF Keeps, Starting, i, Agree
  <2>6. keepers'[k] = m
    BY <1>1, <2>1
  <2>7. KeeperInv(k)'
    BY <1>1, <1>2, <1>3, <1>4, <2>3, <2>4, <2>6 DEF KeeperInv, KeeperRuns, Starting, Follows, Exists, Agree
  <2>8. \A c \in Clients : ClientInv(c)'
    BY <1>1, <1>2, <2>5, KeeperRest
  <2>. QED
    BY <1>1, <1>2, <1>6, <2>2, <2>3, <2>5, <2>7, <2>8, KeeperStep
<1>7. CASE ~Exists(i)
  <2>. DEFINE m == [keepers[k] EXCEPT !.pc = "done", !.mem = <<>>]
  <2>1. keepers' = [keepers EXCEPT ![k] = m]
    BY <1>1, <1>7 DEF KeeperReloads
  <2>2. m \in KeeperType /\ m.id = i /\ m.rm = keepers[k].rm /\ m.pc = "done"
    BY <1>3 DEF KeeperType, KeeperStates
  <2>. HIDE DEF m, i
  <2>3. Keeps(k, m, i) /\ i \notin DOMAIN rec'
    BY <1>1, <1>2, <1>7, <2>1, <2>2 DEF Keeps, Starting, Exists, i
  <2>4. keepers'[k] = m
    BY <1>1, <2>1
  <2>5. KeeperInv(k)'
    BY <1>1, <1>2, <2>2, <2>4 DEF KeeperInv, KeeperRuns, Starting
  <2>6. \A c \in Clients : ClientInv(c)'
    BY <1>1, <1>2, <2>3, KeeperRest
  <2>. QED
    BY <1>1, <1>2, <2>2, <2>3, <2>5, <2>6, KeeperStep
<1>8. Exists(i) => rec[i].rm \in BOOLEAN
  BY DEF Exists, IInv, TypeInv, Records
<1>. QED
  BY <1>5, <1>6, <1>7, <1>8

LEMMA RemovesStep ==
  ASSUME IInv, NEW k, KeeperRemoves(k) PROVE IInv'
<1>. DEFINE i == keepers[k].id  m == [keepers[k] EXCEPT !.pc = "done", !.mem = <<>>]
<1>1. k \in DOMAIN keepers /\ keepers[k].pc = "remove" /\ KeeperRuns(k)
  BY DEF KeeperRemoves, KeeperRuns
<1>2. UNCHANGED <<live, born, vols, cmd, crashes, wanted, lost, astray, forced>> /\ Unlink(i)
      /\ keepers' = [keepers EXCEPT ![k] = m]
  BY <1>1 DEF KeeperRemoves, unchangedHistory
<1>3. KeeperInv(k) /\ keepers[k] \in KeeperType
  BY <1>1, RunningKeeper
<1>4. m \in KeeperType /\ m.id = i /\ m.rm = keepers[k].rm /\ m.pc = "done"
  BY <1>3 DEF KeeperType, KeeperStates
<1>5. k \notin live
  BY <1>1, <1>3 DEF KeeperInv
<1>. HIDE DEF m, i
<1>6. Keeps(k, m, i) /\ i \notin DOMAIN rec'
  BY <1>1, <1>2, <1>4 DEF Keeps, Starting, Unlink, i
<1>7. keepers'[k] = m
  BY <1>1, <1>2
<1>8. KeeperInv(k)'
  BY <1>1, <1>2, <1>4, <1>5, <1>7 DEF KeeperInv, KeeperRuns, Starting
<1>9. \A c \in Clients : ClientInv(c)'
  BY <1>1, <1>2, <1>5, <1>6, KeeperRest
<1>. QED
  BY <1>1, <1>2, <1>4, <1>5, <1>6, <1>8, <1>9, KeeperStep

LEMMA StopsStep ==
  ASSUME IInv, NEW k, KeeperStops(k) PROVE IInv'
<1>. DEFINE i == keepers[k].id
            r == [keepers[k].mem EXCEPT !.status = "stopped", !.exit = k]
            m == [keepers[k] EXCEPT !.pc = "write", !.mem = r]
<1>1. k \in DOMAIN keepers /\ keepers[k].pc = "reload" /\ KeeperRuns(k) /\ k \notin live /\ ~keepers[k].rm
  BY DEF KeeperStops, KeeperRuns, Alive
<1>2. UNCHANGED <<rec, live, born, vols, cmd, crashes, wanted, lost, astray, forced>>
  BY DEF KeeperStops, unchangedHistory
<1>3. KeeperInv(k) /\ keepers[k] \in KeeperType /\ keepers[k].mem \in Records /\ k \in 1..MaxLaunches
      /\ MaxLaunches \in Nat /\ k \in Nat /\ DOMAIN keepers[k] = {"id", "mem", "rm", "pc"}
  BY <1>1, RunningKeeper, EngineAssumption
<1>4. keepers' = [keepers EXCEPT ![k] = m]
  BY <1>1, <1>3 DEF KeeperStops, Records
<1>5. keepers[k].mem.pid = k /\ Follows(i, k)
  BY <1>1, <1>3 DEF KeeperInv
<1>6. r \in Records /\ r.status = "stopped" /\ r.pid = k /\ r.exit = k /\ Agree(keepers[k].mem, r)
  BY <1>3, <1>5 DEF Records, Statuses, Agree
<1>7. m \in KeeperType /\ m.id = i /\ m.rm = keepers[k].rm /\ m.pc = "write" /\ m.mem = r
  BY <1>3, <1>6 DEF KeeperType, KeeperStates
<1>8. i \in DOMAIN rec => rec[i] \in Records /\ rec[i].pid <= Len(keepers)
        /\ rec[i].exit <= rec[i].exit /\ rec[i].pid <= rec[i].pid
  BY DEF IInv, TypeInv, Records
<1>. HIDE DEF r, m, i
<1>9. Keeps(k, m, i)
  BY <1>1, <1>2, <1>4, <1>7, <1>8 DEF Keeps, Starting, i, Agree
<1>10. keepers'[k] = m
  BY <1>1, <1>4
<1>11. KeeperInv(k)'
  BY <1>1, <1>2, <1>5, <1>6, <1>7, <1>10 DEF KeeperInv, KeeperRuns, Starting, Follows, Exists, Agree
<1>12. \A c \in Clients : ClientInv(c)'
  BY <1>1, <1>2, <1>9, KeeperRest
<1>13. crashes = 0 => i \notin (wanted \cap DOMAIN rec') \ (lost \cup astray)
  <2>1. k \in KeptBy(i)
    BY <1>1 DEF KeptBy, i
  <2>. QED
    BY <1>1, <1>2, <2>1 DEF IInv, AutoInv
<1>14. i \in DOMAIN rec' => k \notin live'
  BY <1>1, <1>2
<1>. QED
  BY <1>1, <1>2, <1>7, <1>9, <1>11, <1>12, <1>13, KeeperStep

LEMMA WritesStep ==
  ASSUME IInv, NEW k, KeeperWrites(k) PROVE IInv'
<1>. DEFINE i == keepers[k].id
            r == keepers[k].mem
            m == [keepers[k] EXCEPT !.mem = <<>>, !.pc = IF Exists(i) THEN "done" ELSE "failed"]
<1>1. k \in DOMAIN keepers /\ keepers[k].pc = "write" /\ KeeperRuns(k)
  BY DEF KeeperWrites, KeeperRuns
<1>2. UNCHANGED <<live, born, vols, cmd, crashes, wanted, lost, astray, forced>>
  BY DEF KeeperWrites, unchangedHistory
<1>3. KeeperInv(k) /\ keepers[k] \in KeeperType /\ r \in Records /\ k \in 1..MaxLaunches
      /\ k \in Nat /\ DOMAIN keepers[k] = {"id", "mem", "rm", "pc"} /\ k <= Len(keepers)
  BY <1>1, RunningKeeper
<1>4. keepers' = [keepers EXCEPT ![k] = m]
  BY <1>1, <1>3 DEF KeeperWrites
<1>5. r.pid = k /\ r.exit = k /\ r.status = "stopped" /\ k \notin live /\ Follows(i, k)
  BY <1>1, <1>3 DEF KeeperInv
<1>6. m \in KeeperType /\ m.id = i /\ m.rm = keepers[k].rm /\ m.pc \in {"done", "failed"}
  BY <1>3 DEF KeeperType, KeeperStates
<1>7. i \in DOMAIN rec => rec[i] \in Records /\ rec[i].pid = k /\ Agree(rec[i], r)
  BY <1>5 DEF IInv, TypeInv, Follows, Exists
<1>8. IF i \in DOMAIN rec THEN rec' = [rec EXCEPT ![i] = r] ELSE rec' = rec
  BY DEF KeeperWrites, Write, Exists
<1>. HIDE DEF r, m, i
<1>9. DOMAIN rec' = DOMAIN rec /\ (i \in DOMAIN rec => rec'[i] = r)
      /\ \A j \in DOMAIN rec : j # i => rec'[j] = rec[j]
  BY <1>8
<1>10. (i \in DOMAIN rec => rec[i].pid <= r.pid) /\ r.pid <= r.exit
  BY <1>3, <1>5, <1>7
<1>11. Keeps(k, m, i)
  BY <1>1, <1>2, <1>3, <1>4, <1>5, <1>6, <1>7, <1>9, <1>10 DEF Keeps, Starting, i
<1>12. keepers'[k] = m
  BY <1>1, <1>4
<1>13. KeeperInv(k)'
  BY <1>2, <1>5, <1>6, <1>12 DEF KeeperInv, KeeperRuns, Starting
<1>14. \A c \in Clients : ClientInv(c)'
  BY <1>1, <1>2, <1>5, <1>7, <1>9, <1>11, KeeperRest
<1>15. crashes = 0 /\ i \in (wanted \cap DOMAIN rec') \ (lost \cup astray) =>
            \E c \in Clients : Suppresses(c, i)
  <2>1. k \in KeptBy(i)
    BY <1>1 DEF KeptBy, i
  <2>. QED
    BY <1>1, <1>9, <2>1 DEF IInv, AutoInv
<1>16. i \in DOMAIN rec' => rec'[i].exit >= rec'[i].pid
  BY <1>3, <1>5, <1>9
<1>. QED
  BY <1>1, <1>2, <1>5, <1>6, <1>11, <1>13, <1>14, <1>15, <1>16, KeeperStep

LEMMA KeeperKept ==
  ASSUME IInv, NEW k \in Pids, Keeper(k) PROVE IInv'
BY SpawnStep, AbortStep, FailStep, RecordStep, ReloadStep, RemovesStep, StopsStep, WritesStep DEF Keeper

(* A process ends, or all of them do.                                      *)
LEMMA ExitStep ==
  ASSUME IInv, NEW k \in Pids, ProcessExits(k) PROVE IInv'
<1>1. live' = live \ {k}
      /\ UNCHANGED <<rec, born, keepers, vols, cmd, crashes, wanted, lost, astray, forced>>
  BY DEF ProcessExits
<1>2. TypeInv' /\ VolumeInv'
  BY <1>1 DEF IInv, TypeInv, VolumeInv
<1>3. Solo' /\ OneKeeper' /\ ExitInv'
  BY <1>1 DEF IInv, Solo, Busy, Blocked, OneKeeper, KeeperRuns, ExitInv, KeptBy
<1>4. AutoInv'
  BY <1>1 DEF IInv, AutoInv, Suppresses, KeptBy, KeeperRuns
<1>5. \A l \in DOMAIN keepers' : KeeperInv(l)'
  BY <1>1 DEF IInv, KeeperInv, KeeperRuns, Launcher, Follows, Agree, Exists
<1>6. \A d \in Clients : ClientInv(d)'
  BY <1>1, Kept DEF IInv
<1>. QED
  BY <1>2, <1>3, <1>4, <1>5, <1>6 DEF IInv

LEMMA CrashStep ==
  ASSUME IInv, Crash PROVE IInv'
<1>1. /\ live' = {} /\ crashes' = crashes + 1 /\ cmd' = [c \in Clients |-> NoCmd]
      /\ UNCHANGED <<rec, born, vols, wanted, lost, astray, forced>>
  BY DEF Crash
<1>2. /\ DOMAIN keepers' = DOMAIN keepers
      /\ \A k \in DOMAIN keepers :
            /\ KeeperRuns(k) => keepers'[k] = [keepers[k] EXCEPT !.pc = "failed", !.mem = <<>>]
            /\ ~KeeperRuns(k) => keepers'[k] = keepers[k]
  BY DEF Crash
<1>3. \A k \in DOMAIN keepers :
        /\ keepers'[k] \in KeeperType /\ keepers'[k].id = keepers[k].id
        /\ keepers'[k].pc \in {"done", "failed"}
  <2>. SUFFICES ASSUME NEW k \in DOMAIN keepers
       PROVE  /\ keepers'[k] \in KeeperType /\ keepers'[k].id = keepers[k].id
              /\ keepers'[k].pc \in {"done", "failed"}
    OBVIOUS
  <2>1. keepers[k] \in KeeperType
    BY KeeperFacts DEF IInv
  <2>2. CASE KeeperRuns(k)
    BY <1>2, <2>1, <2>2 DEF KeeperType, KeeperStates
  <2>3. CASE ~KeeperRuns(k)
    BY <1>2, <2>1, <2>3 DEF KeeperRuns
  <2>. QED
    BY <2>2, <2>3
<1>4. TypeInv'
  <2>1. DOMAIN keepers = 1..Len(keepers) /\ Len(keepers) \in Nat
    BY DEF IInv, TypeInv
  <2>2. keepers' = [k \in 1..Len(keepers) |-> keepers'[k]]
    BY <1>2, <2>1 DEF Crash
  <2>3. keepers' \in [1..Len(keepers) -> KeeperType]
    BY <1>3, <2>1, <2>2
  <2>4. keepers' \in Seq(KeeperType) /\ Len(keepers') = Len(keepers)
    BY <2>1, <2>3
  <2>5. crashes' \in Nat /\ DOMAIN cmd' = Clients
    BY <1>1 DEF IInv, TypeInv
  <2>6. \A k \in DOMAIN keepers' : keepers'[k].id \in 1..born'
    BY <1>1, <1>2, <1>3 DEF IInv, TypeInv
  <2>7. \A i \in DOMAIN rec' : rec'[i] \in Records /\ rec'[i].pid <= Len(keepers')
    BY <1>1, <2>4 DEF IInv, TypeInv
  <2>8. born' \in Nat /\ DOMAIN rec' \subseteq 1..born' /\ born' <= MaxIds /\ wanted' \subseteq 1..born'
    BY <1>1 DEF IInv, TypeInv
  <2>. QED
    BY <1>1, <2>4, <2>5, <2>6, <2>7, <2>8 DEF IInv, TypeInv
<1>5. crashes' # 0
  BY <1>1 DEF IInv, TypeInv
<1>6. \A c \in Clients : ClientInv(c)' /\ ~Busy(c)'
  BY <1>1, <1>4, IdleFrame
<1>7. \A k \in DOMAIN keepers : KeeperInv(k)' /\ ~KeeperRuns(k)'
  BY <1>1, <1>3 DEF KeeperInv, KeeperRuns, Starting
<1>8. Solo' /\ OneKeeper' /\ VolumeInv' /\ ExitInv' /\ AutoInv'
  BY <1>1, <1>2, <1>5, <1>6, <1>7 DEF IInv, Solo, OneKeeper, VolumeInv, ExitInv, AutoInv
<1>. QED
  BY <1>2, <1>4, <1>6, <1>7, <1>8 DEF IInv

(* The volume commands: no container is made or mounted while they look.   *)
LEMMA VolumeStep ==
  ASSUME IInv, KeepAlone, NEW c \in Clients, MayIssue(c), VolumeInv',
         UNCHANGED <<rec, born, live, keepers, cmd, crashes, wanted, lost, astray>>
  PROVE  IInv'
<1>1. \A d \in Clients : ~Busy(d)
  BY IssueFacts DEF IInv
<1>2. TypeInv'
  BY DEF IInv, TypeInv
<1>3. Solo' /\ OneKeeper' /\ ExitInv'
  BY DEF IInv, Solo, Busy, Blocked, OneKeeper, KeeperRuns, ExitInv, KeptBy
<1>4. AutoInv'
  BY DEF IInv, AutoInv, Suppresses, KeptBy, KeeperRuns
<1>5. \A k \in DOMAIN keepers' : KeeperInv(k)'
  BY DEF IInv, KeeperInv, KeeperRuns, Launcher, Follows, Agree, Exists
<1>6. Forward
  <2>1. \A j \in DOMAIN rec : rec[j] \in Records /\ rec[j].pid <= rec[j].pid /\ rec[j].exit <= rec[j].exit
    BY DEF IInv, TypeInv, Records
  <2>2. born <= born' /\ Len(keepers) <= Len(keepers')
    BY DEF IInv, TypeInv
  <2>. QED
    BY <2>1, <2>2 DEF Forward
<1>7. \A d \in Clients : ClientInv(d)'
  BY <1>1, <1>2, <1>6, Quiet DEF IInv
<1>. QED
  BY <1>2, <1>3, <1>4, <1>5, <1>7 DEF IInv

LEMMA VolumeCommands ==
  ASSUME IInv, KeepAlone, NEW c \in Clients,
         \/ VolumePrune(c)
         \/ \E v \in Volumes : \/ VolumeCreate(c, v)
                               \/ \E force \in BOOLEAN : VolumeRm(c, v, force)
                               \/ \E w \in Volumes : VolumeRename(c, v, w)
  PROVE  IInv'
<1>1. \A i \in DOMAIN rec : \A v \in rec[i].mounts :
        (v \in vols \/ v \in forced) /\ i \in containers_using_volume(v)
  BY DEF IInv, VolumeInv, containers_using_volume
<1>2. \A i \in DOMAIN rec : rec[i].mounts # {} => rec[i].bundle
  BY DEF IInv, VolumeInv
<1>3. CASE VolumePrune(c)
  <2>1. \A i \in DOMAIN rec : rec[i].mounts \subseteq vols' \cup forced
    BY <1>1, <1>3 DEF VolumePrune
  <2>2. VolumeInv'
    BY <1>2, <1>3, <2>1 DEF VolumePrune, unchangedHistory, VolumeInv
  <2>. QED
    BY <1>3, <2>2, VolumeStep DEF VolumePrune, unchangedHistory, unchangedProcs
<1>4. ASSUME NEW v \in Volumes, VolumeCreate(c, v) PROVE IInv'
  <2>1. VolumeInv'
    BY <1>4, <1>1, <1>2 DEF VolumeCreate, unchangedHistory, VolumeInv
  <2>. QED
    BY <1>4, <2>1, VolumeStep DEF VolumeCreate, unchangedHistory, unchangedProcs
<1>5. ASSUME NEW v \in Volumes, NEW force \in BOOLEAN, VolumeRm(c, v, force) PROVE IInv'
  <2>1. \A i \in DOMAIN rec : rec[i].mounts \subseteq vols' \cup forced'
    BY <1>1, <1>5 DEF VolumeRm
  <2>2. VolumeInv'
    BY <1>2, <1>5, <2>1 DEF VolumeRm, VolumeInv
  <2>. QED
    BY <1>5, <2>2, VolumeStep DEF VolumeRm, unchangedProcs
<1>6. ASSUME NEW v \in Volumes, NEW w \in Volumes, VolumeRename(c, v, w) PROVE IInv'
  <2>1. \A i \in DOMAIN rec : rec[i].mounts \subseteq vols' \cup forced
    BY <1>1, <1>6 DEF VolumeRename
  <2>2. VolumeInv'
    BY <1>2, <1>6, <2>1 DEF VolumeRename, unchangedHistory, VolumeInv
  <2>. QED
    BY <1>6, <2>2, VolumeStep DEF VolumeRename, unchangedHistory, unchangedProcs
<1>. QED
  BY <1>3, <1>4, <1>5, <1>6

(* Signals and the freezer.                                                *)
LEMMA SignalCommands ==
  ASSUME IInv, NEW c \in Clients,
         \E sel \in Selections : \/ \E sigkill \in BOOLEAN : KillIssue(c, sel, sigkill)
                                 \/ \E freeze \in BOOLEAN : PauseIssue(c, sel, freeze)
  PROVE  IInv'
BY Elsewhere DEF KillIssue, PauseIssue

(* The fork.                                                               *)
LEMMA ForkStep ==
  ASSUME IInv, NEW c \in Clients, LaunchFork(c) PROVE IInv'
<1>. PICK K \in {Len(keepers) + 1},
         P \in {IF cmd[c].op = "run" /\ ~cmd[c].arg.detach THEN "attached" ELSE "confirm"} : TRUE
  OBVIOUS
<1>. PICK n \in {[id |-> cmd[c].id, mem |-> cmd[c].mem, rm |-> cmd[c].mem.rm, pc |-> "forked"]},
          g \in {[cmd[c] EXCEPT !.keeper = K, !.pc = P]} : TRUE
  OBVIOUS
<1>0. TypeInv /\ Solo /\ ClientInv(c) /\ cmd[c].pc = "launch" /\ DOMAIN cmd[c] = Fields
      /\ MaxLaunches \in Nat
  BY EngineAssumption DEF IInv, LaunchFork, At, ClientInv
<1>1. /\ keepers \in Seq(KeeperType) /\ DOMAIN keepers = 1..Len(keepers) /\ Len(keepers) \in Nat
      /\ Len(keepers) < MaxLaunches /\ K \in Nat /\ K # 0 /\ K <= MaxLaunches /\ Len(keepers) < K
  BY <1>0 DEF TypeInv, LaunchFork
<1>2. keepers' = Append(keepers, n) /\ cmd' = [cmd EXCEPT ![c] = g]
      /\ UNCHANGED <<rec, born, live, vols, crashes, wanted, lost, astray, forced>>
  <2>1. keepers' = Append(keepers, n)
    BY DEF LaunchFork
  <2>2. cmd' = [cmd EXCEPT ![c].keeper = K, ![c].pc = P]
    BY DEF LaunchFork
  <2>. QED
    BY <1>0, <2>1, <2>2 DEF LaunchFork, unchangedHistory, TypeInv
<1>3. /\ Exists(cmd[c].id) /\ KeptBy(cmd[c].id) = {} /\ cmd[c].mem = rec[cmd[c].id]
      /\ cmd[c].mem.status = "creating" /\ cmd[c].mem \in Records /\ cmd[c].id \in 1..born
      /\ rec[cmd[c].id].pid <= Len(keepers)
  BY <1>0 DEF ClientInv, LaunchInv, Exists, TypeInv
<1>4. n \in KeeperType
  BY <1>0, <1>3 DEF KeeperType, KeeperStates, Records, TypeInv
<1>5. /\ n.id = cmd[c].id /\ n.mem = cmd[c].mem /\ n.rm = cmd[c].mem.rm /\ n.pc = "forked"
      /\ DOMAIN g = Fields /\ g.op = cmd[c].op /\ g.id = cmd[c].id /\ g.own = cmd[c].own /\ g.arg = cmd[c].arg
      /\ g.mem = cmd[c].mem /\ g.todo = cmd[c].todo
      /\ g.keeper = K /\ g.pc = P
      /\ P = IF cmd[c].op = "run" /\ ~cmd[c].arg.detach THEN "attached" ELSE "confirm"
  <2>1. n.id = cmd[c].id /\ n.mem = cmd[c].mem /\ n.rm = cmd[c].mem.rm /\ n.pc = "forked"
    OBVIOUS
  <2>2. g = [cmd[c] EXCEPT !.keeper = K, !.pc = P] /\ DOMAIN cmd[c] = Fields
    BY <1>0
  <2>3. /\ DOMAIN g = Fields /\ g.op = cmd[c].op /\ g.id = cmd[c].id /\ g.own = cmd[c].own
        /\ g.arg = cmd[c].arg /\ g.mem = cmd[c].mem /\ g.todo = cmd[c].todo /\ g.keeper = K /\ g.pc = P
    BY <2>2 DEF Fields
  <2>. QED
    BY <2>1, <2>3
<1>6. keepers' \in Seq(KeeperType) /\ Len(keepers') = K /\ DOMAIN keepers' = 1..K /\ keepers'[K] = n
      /\ \A k \in DOMAIN keepers : k \in DOMAIN keepers' /\ k # K /\ keepers'[k] = keepers[k]
  BY <1>1, <1>2, <1>4
<1>7. DOMAIN cmd = Clients /\ cmd'[c] = g /\ \A d \in Clients : d # c => cmd'[d] = cmd[d]
  BY <1>0, <1>2 DEF TypeInv
<1>8. \A k \in DOMAIN keepers' : k \in DOMAIN keepers \/ k = K
  BY <1>1, <1>6
<1>9. TypeInv'
  <2>1. \A k \in DOMAIN keepers' : keepers'[k].id \in 1..born
    BY <1>0, <1>3, <1>5, <1>6, <1>8 DEF TypeInv
  <2>2. \A i \in DOMAIN rec : rec[i] \in Records /\ rec[i].pid <= K
    <3>. SUFFICES ASSUME NEW i \in DOMAIN rec PROVE rec[i] \in Records /\ rec[i].pid <= K
      OBVIOUS
    <3>1. rec[i] \in Records /\ rec[i].pid <= Len(keepers)
      BY <1>0 DEF TypeInv
    <3>2. rec[i].pid \in Nat
      BY <3>1 DEF Records
    <3>. QED
      BY <1>1, <3>1, <3>2
  <2>. QED
    BY <1>0, <1>1, <1>2, <1>6, <1>7, <2>1, <2>2 DEF TypeInv
<1>10. Busy(c) /\ \A k \in DOMAIN keepers : keepers[k].pc \notin Starting
  <2>1. Busy(c)
    BY <1>0 DEF ClientInv, Place, Busy, Blocked
  <2>. QED
    BY <1>0, <2>1, Calm DEF IInv
<1>11. \A d \in Clients : d # c => ~Busy(d) /\ ~Busy(d)'
  <2>. SUFFICES ASSUME NEW d \in Clients, d # c PROVE ~Busy(d) /\ ~Busy(d)'
    OBVIOUS
  <2>1. ~Busy(d)
    BY <1>0, <1>10, Others
  <2>2. cmd[d].pc = "attached" => cmd[d].keeper \in 0..Len(keepers)
    BY DEF IInv, ClientInv, LaunchInv
  <2>3. cmd[d].pc = "attached" /\ cmd[d].keeper # 0 => keepers'[cmd[d].keeper] = keepers[cmd[d].keeper]
    BY <1>1, <1>6, <2>2
  <2>. QED
    BY <1>7, <2>1, <2>3 DEF Busy, Blocked
<1>12. Solo'
  BY <1>11 DEF Solo
<1>13. OneKeeper'
  <2>1. \A k \in DOMAIN keepers : KeeperRuns(k)' <=> KeeperRuns(k)
    BY <1>6 DEF KeeperRuns
  <2>2. \A k \in DOMAIN keepers : KeeperRuns(k) => keepers[k].id # n.id
    BY <1>3, <1>5 DEF KeptBy
  <2>. QED
    BY <1>6, <1>8, <2>1, <2>2 DEF IInv, OneKeeper
<1>14. VolumeInv'
  BY <1>2 DEF IInv, VolumeInv
<1>15. \A i : KeptBy(i)' = KeptBy(i) \cup (IF i = n.id THEN {K} ELSE {})
  <2>1. KeeperRuns(K)'
    BY <1>5, <1>6 DEF KeeperRuns
  <2>2. \A k \in DOMAIN keepers : KeeperRuns(k)' <=> KeeperRuns(k)
    BY <1>6 DEF KeeperRuns
  <2>3. K \in DOMAIN keepers'
    BY <1>1, <1>6
  <2>. QED
    BY <1>6, <1>8, <2>1, <2>2, <2>3 DEF KeptBy
<1>16. ExitInv'
  BY <1>2, <1>15 DEF IInv, ExitInv
<1>17. AutoInv'
  <2>. SUFFICES ASSUME crashes = 0, NEW i \in (wanted \cap DOMAIN rec) \ (lost \cup astray)
       PROVE  /\ rec[i].rm
              /\ \A k \in KeptBy(i)' : keepers'[k].rm /\ keepers'[k].pc # "write"
    BY <1>2 DEF AutoInv
  <2>1. \A d \in Clients : ~Suppresses(d, i)
    BY <1>0, <1>10, NoSuppressor DEF StopPcs, RestorePcs
  <2>2. rec[i].rm /\ \A k \in KeptBy(i) : keepers[k].rm /\ keepers[k].pc # "write"
    BY <2>1 DEF IInv, AutoInv
  <2>3. \A k \in KeptBy(i) : keepers'[k] = keepers[k]
    BY <1>6 DEF KeptBy
  <2>4. i = n.id => keepers'[K].rm /\ keepers'[K].pc # "write"
    BY <1>3, <1>5, <1>6, <2>2
  <2>. QED
    BY <1>15, <2>2, <2>3, <2>4
<1>18. ASSUME NEW k \in DOMAIN keepers' PROVE KeeperInv(k)'
  <2>1. CASE k = K
    <3>1. Launcher(c, K)'
      BY <1>0, <1>5, <1>7 DEF Launcher, ClientInv, Place
    <3>2. K \notin live
      BY <1>0, <1>6 DEF TypeInv
    <3>3. cmd[c].mem.pid < K
      BY <1>1, <1>3 DEF Records
    <3>. QED
      BY <1>2, <1>3, <1>5, <1>6, <2>1, <3>1, <3>2, <3>3 DEF KeeperInv, KeeperRuns, Starting, Exists
  <2>2. CASE k # K
    <3>1. k \in DOMAIN keepers /\ keepers'[k] = keepers[k] /\ KeeperInv(k) /\ keepers[k].pc \notin Starting
      BY <1>6, <1>8, <1>10, <2>2 DEF IInv
    <3>2. KeeperRuns(k)' <=> KeeperRuns(k)
      BY <3>1 DEF KeeperRuns
    <3>. QED
      BY <1>2, <3>1, <3>2 DEF KeeperInv, Follows, Agree, Exists
  <2>. QED
    BY <2>1, <2>2
<1>19. Forward
  <2>1. \A j \in DOMAIN rec : rec[j] \in Records /\ rec[j].pid <= rec[j].pid /\ rec[j].exit <= rec[j].exit
    BY DEF IInv, TypeInv, Records
  <2>2. born <= born' /\ Len(keepers) <= Len(keepers')
    BY <1>0, <1>1, <1>2, <1>6 DEF TypeInv
  <2>. QED
    BY <1>2, <2>1, <2>2 DEF Forward
<1>20. ClientInv(c)'
  <2>1. /\ g.pc \in {"attached", "confirm"} /\ (g.pc = "attached" => g.op = "run") /\ Place(g)
        /\ g.op \in {"run", "create", "start", "restart"} /\ (g.op \in {"run", "create"} => g.arg \in RunInputs)
        /\ (g.op \in {"run", "create", "clone", "start"} => g.todo = <<>>) /\ g.id \in 0..born /\ g.own \in 0..born
    BY <1>0, <1>5 DEF ClientInv, Place, LaunchPcs, StopPcs, RemovePcs, MakeInv
  <2>2. MakeInv(g)' /\ ChangeInv(g)' /\ StopInv(g)' /\ RestartInv(g)' /\ WaitInv(g)'
    BY <2>1 DEF MakeInv, ChangeInv, StopInv, RestartInv, WaitInv, StopPcs, RestorePcs, RemovePcs
  <2>3. LaunchInv(g)'
    BY <1>1, <1>5, <1>6, <2>1 DEF LaunchInv
  <2>. QED
    BY <1>2, <1>5, <1>7, <2>1, <2>2, <2>3 DEF ClientInv
<1>21. ASSUME NEW d \in Clients PROVE ClientInv(d)'
  <2>1. CASE d # c
    BY <1>0, <1>7, <1>9, <1>11, <1>19, <2>1, Quiet DEF IInv
  <2>. QED
    BY <1>20, <2>1
<1>. QED
  BY <1>9, <1>12, <1>13, <1>14, <1>16, <1>17, <1>18, <1>21 DEF IInv

(* Places where a command knows nothing in particular.                     *)
FreePcs == {"stopped", "restarted", "removed", "start", "cloned", "diff", "waiting", "settle"}
FreePlace(f) ==
    f.pc \in FreePcs \/ (f.op = "stop" /\ f.pc \in {"stop", "keeper"}) \/ (f.op = "start" /\ f.pc = "keeper")

LEMMA FreeFrame ==
  ASSUME TypeInv', NEW c \in Clients, NEW g, cmd'[c] = g, DOMAIN g = Fields,
         g.id \in 0..born', g.own \in 0..born', Place(g), FreePlace(g),
         g.op \in {"run", "create", "clone", "start"} => g.todo = <<>>,
         g.op \in {"run", "create"} => g.arg \in RunInputs
  PROVE  ClientInv(c)'
<1>1. MakeInv(g)' /\ LaunchInv(g)' /\ StopInv(g)' /\ ChangeInv(g)'
  BY DEF FreePlace, FreePcs, MakeInv, LaunchInv, StopInv, ChangeInv, RemovePcs
<1>2. RestartInv(g)' /\ WaitInv(g)'
  BY DEF FreePlace, FreePcs, Place, RestartInv, WaitInv, StopPcs, RestorePcs, LaunchPcs, RemovePcs
<1>. QED
  BY <1>1, <1>2 DEF ClientInv

LEMMA AtWork ==
  ASSUME IInv, NEW c \in Clients, cmd[c].op \notin {"none", "wait"}, cmd[c].pc # "attached"
  PROVE  Busy(c)
BY DEF IInv, ClientInv, Place, Busy, Blocked, StopPcs, RestorePcs, LaunchPcs, RemovePcs

(* A client's frame when a step begins.                                    *)
LEMMA FrameFacts ==
  ASSUME IInv, NEW c \in Clients
  PROVE  /\ TypeInv /\ Solo /\ DOMAIN cmd = Clients /\ ClientInv(c)
         /\ DOMAIN cmd[c] = Fields /\ cmd[c].id \in 0..born /\ cmd[c].own \in 0..born /\ Place(cmd[c])
         /\ cmd[c].op \in {"run", "create", "clone", "start"} => cmd[c].todo = <<>>
         /\ cmd[c].op \in {"run", "create"} => cmd[c].arg \in RunInputs
         /\ MakeInv(cmd[c]) /\ LaunchInv(cmd[c]) /\ StopInv(cmd[c]) /\ ChangeInv(cmd[c])
         /\ RestartInv(cmd[c]) /\ WaitInv(cmd[c])
BY DEF IInv, TypeInv, ClientInv, MakeInv

(* What changes when a command is issued.                                  *)
Frozen == UNCHANGED <<rec, born, live, keepers, vols, crashes, wanted, lost, astray, forced>>

LEMMA FrozenType ==
  ASSUME TypeInv, Frozen, NEW c \in Clients, NEW g, cmd' = [cmd EXCEPT ![c] = g]
  PROVE  TypeInv' /\ cmd'[c] = g
BY DEF TypeInv, Frozen

LEMMA NoCmdFields ==
  /\ DOMAIN NoCmd = Fields /\ NoCmd.todo = <<>> /\ NoCmd.id = 0 /\ NoCmd.own = 0 /\ NoCmd.keeper = 0
  /\ NoCmd.op = "none" /\ NoCmd.pc = "idle"
BY DEF NoCmd, NoId, Fields

LEMMA FreeIssue ==
  ASSUME IInv, KeepAlone, NEW c \in Clients, MayIssue(c), Frozen, NEW g, cmd' = [cmd EXCEPT ![c] = g],
         DOMAIN g = Fields, g.id \in 0..born, g.own = 0, Place(g), FreePlace(g),
         g.op \notin {"run", "create"}, g.op \in {"clone", "start"} => g.todo = <<>>
  PROVE  IInv'
<1>1. TypeInv' /\ cmd'[c] = g /\ born' = born /\ 0 \in 0..born
  BY FrozenType DEF IInv, Frozen, TypeInv
<1>2. ClientInv(c)'
  BY <1>1, FreeFrame
<1>. QED
  BY <1>2, IssueStep DEF Frozen

ListPlace(op, pc) ==
    \/ op = "stop" /\ pc = "stopped"
    \/ op = "restart" /\ pc = "restarted"
    \/ op \in {"rm", "prune", "reset"} /\ pc = "removed"

LEMMA ListIssue ==
  ASSUME IInv, KeepAlone, NEW c \in Clients, MayIssue(c), Frozen, NEW g, cmd' = [cmd EXCEPT ![c] = g],
         DOMAIN g = Fields, g.id = 0, g.own = 0, ListPlace(g.op, g.pc)
  PROVE  IInv'
<1>1. Place(g) /\ FreePlace(g) /\ g.op \notin {"run", "create", "clone", "start"}
  BY DEF ListPlace, Place, FreePlace, FreePcs
<1>2. 0 \in 0..born
  BY DEF IInv, TypeInv
<1>. QED
  BY <1>1, <1>2, FreeIssue

(* stop, restart, rm, prune, cleanup and system reset only make a list.    *)
LEMMA ListCommands ==
  ASSUME IInv, KeepAlone, NEW c \in Clients, NEW sel,
         \/ StopIssue(c, sel) \/ RestartIssue(c, sel) \/ CleanupIssue(c, sel)
         \/ \E force, time \in BOOLEAN : RmIssue(c, sel, force, time)
         \/ PruneIssue(c, sel.filter) \/ ResetIssue(c)
  PROVE  IInv'
<1>1. MayIssue(c) /\ Frozen
  BY DEF StopIssue, RestartIssue, CleanupIssue, RmIssue, PruneIssue, ResetIssue, Frozen,
         unchangedProcs, unchangedHistory
<1>2. CASE StopIssue(c, sel)
  <2>1. PICK todo : cmd' = [cmd EXCEPT ![c] = [NoCmd EXCEPT !.op = "stop", !.pc = "stopped", !.todo = todo]]
    BY <1>2 DEF StopIssue, Issue
  <2>2. PICK g \in {[NoCmd EXCEPT !.op = "stop", !.pc = "stopped", !.todo = todo]} : TRUE
    OBVIOUS
  <2>3. DOMAIN g = Fields /\ g.id = 0 /\ g.own = 0 /\ g.op = "stop" /\ g.pc = "stopped"
    BY <2>2 DEF NoCmd, NoId, Fields
  <2>4. ListPlace(g.op, g.pc)
    BY <2>3 DEF ListPlace
  <2>5. cmd' = [cmd EXCEPT ![c] = g]
    BY <2>1, <2>2
  <2>. QED
    BY <1>1, <2>3, <2>4, <2>5, ListIssue
<1>3. CASE RestartIssue(c, sel)
  <2>1. PICK todo : cmd' = [cmd EXCEPT ![c] = [NoCmd EXCEPT !.op = "restart", !.pc = "restarted", !.todo = todo]]
    BY <1>3 DEF RestartIssue, Issue
  <2>2. PICK g \in {[NoCmd EXCEPT !.op = "restart", !.pc = "restarted", !.todo = todo]} : TRUE
    OBVIOUS
  <2>3. DOMAIN g = Fields /\ g.id = 0 /\ g.own = 0 /\ g.op = "restart" /\ g.pc = "restarted"
    BY <2>2 DEF NoCmd, NoId, Fields
  <2>4. ListPlace(g.op, g.pc)
    BY <2>3 DEF ListPlace
  <2>5. cmd' = [cmd EXCEPT ![c] = g]
    BY <2>1, <2>2
  <2>. QED
    BY <1>1, <2>3, <2>4, <2>5, ListIssue
<1>4. CASE CleanupIssue(c, sel) \/ \E force, time \in BOOLEAN : RmIssue(c, sel, force, time)
  <2>1. PICK todo, arg :
          cmd' = [cmd EXCEPT ![c] = [NoCmd EXCEPT !.op = "rm", !.pc = "removed", !.arg = arg, !.todo = todo]]
    BY <1>4 DEF CleanupIssue, RmIssue, Issue
  <2>2. PICK g \in {[NoCmd EXCEPT !.op = "rm", !.pc = "removed", !.arg = arg, !.todo = todo]} : TRUE
    OBVIOUS
  <2>3. DOMAIN g = Fields /\ g.id = 0 /\ g.own = 0 /\ g.op = "rm" /\ g.pc = "removed"
    BY <2>2 DEF NoCmd, NoId, Fields
  <2>4. ListPlace(g.op, g.pc)
    BY <2>3 DEF ListPlace
  <2>5. cmd' = [cmd EXCEPT ![c] = g]
    BY <2>1, <2>2
  <2>. QED
    BY <1>1, <2>3, <2>4, <2>5, ListIssue
<1>5. CASE PruneIssue(c, sel.filter)
  <2>1. PICK todo, arg :
          cmd' = [cmd EXCEPT ![c] = [NoCmd EXCEPT !.op = "prune", !.pc = "removed", !.arg = arg, !.todo = todo]]
    BY <1>5 DEF PruneIssue, Issue
  <2>2. PICK g \in {[NoCmd EXCEPT !.op = "prune", !.pc = "removed", !.arg = arg, !.todo = todo]} : TRUE
    OBVIOUS
  <2>3. DOMAIN g = Fields /\ g.id = 0 /\ g.own = 0 /\ g.op = "prune" /\ g.pc = "removed"
    BY <2>2 DEF NoCmd, NoId, Fields
  <2>4. ListPlace(g.op, g.pc)
    BY <2>3 DEF ListPlace
  <2>5. cmd' = [cmd EXCEPT ![c] = g]
    BY <2>1, <2>2
  <2>. QED
    BY <1>1, <2>3, <2>4, <2>5, ListIssue
<1>6. CASE ResetIssue(c)
  <2>1. PICK todo, arg :
          cmd' = [cmd EXCEPT ![c] = [NoCmd EXCEPT !.op = "reset", !.pc = "removed", !.arg = arg, !.todo = todo]]
    BY <1>6 DEF ResetIssue, Issue
  <2>2. PICK g \in {[NoCmd EXCEPT !.op = "reset", !.pc = "removed", !.arg = arg, !.todo = todo]} : TRUE
    OBVIOUS
  <2>3. DOMAIN g = Fields /\ g.id = 0 /\ g.own = 0 /\ g.op = "reset" /\ g.pc = "removed"
    BY <2>2 DEF NoCmd, NoId, Fields
  <2>4. ListPlace(g.op, g.pc)
    BY <2>3 DEF ListPlace
  <2>5. cmd' = [cmd EXCEPT ![c] = g]
    BY <2>1, <2>2
  <2>. QED
    BY <1>1, <2>3, <2>4, <2>5, ListIssue
<1>. QED
  BY <1>2, <1>3, <1>4, <1>5, <1>6

(* start, commit and wait look first and act later.                        *)
LEMMA LaterCommands ==
  ASSUME IInv, KeepAlone, NEW c \in Clients, NEW ref,
         \/ \E attach \in BOOLEAN : StartIssue(c, ref, attach)
         \/ \E pause \in BOOLEAN : CommitIssue(c, ref, pause)
         \/ WaitIssue(c, ref)
  PROVE  IInv'
<1>1. MayIssue(c) /\ Frozen
  BY DEF StartIssue, CommitIssue, WaitIssue, Frozen, unchangedProcs, unchangedHistory
<1>2. resolve(ref) \in 0..born /\ 0 \in 0..born
  BY ResolveFacts DEF IInv, TypeInv
<1>3. ASSUME NEW attach \in BOOLEAN, StartIssue(c, ref, attach) PROVE IInv'
  <2>1. PICK g \in {[NoCmd EXCEPT !.op = "start", !.pc = "start", !.at = ref, !.arg = [attach |-> attach]]} : TRUE
    OBVIOUS
  <2>2. DOMAIN g = Fields /\ g.id = 0 /\ g.own = 0 /\ g.op = "start" /\ g.pc = "start" /\ g.todo = <<>>
    BY <2>1 DEF NoCmd, NoId, Fields
  <2>3. Place(g) /\ FreePlace(g)
    BY <2>2 DEF Place, FreePlace, FreePcs, LaunchPcs
  <2>4. cmd' = [cmd EXCEPT ![c] = g]
    BY <1>3, <2>1 DEF StartIssue, Issue
  <2>. QED
    BY <1>1, <1>2, <2>2, <2>3, <2>4, FreeIssue
<1>4. ASSUME NEW pause \in BOOLEAN, CommitIssue(c, ref, pause) PROVE IInv'
  <2>1. PICK here : cmd' = [cmd EXCEPT ![c] = [NoCmd EXCEPT !.op = "commit", !.pc = "diff",
                                  !.id = resolve(ref), !.at = ref, !.arg = [here |-> here]]]
    BY <1>4 DEF CommitIssue, Issue
  <2>2. PICK g \in {[NoCmd EXCEPT !.op = "commit", !.pc = "diff",
                                  !.id = resolve(ref), !.at = ref, !.arg = [here |-> here]]} : TRUE
    OBVIOUS
  <2>3. DOMAIN g = Fields /\ g.id = resolve(ref) /\ g.own = 0 /\ g.op = "commit" /\ g.pc = "diff"
    BY <2>2 DEF NoCmd, NoId, Fields
  <2>4. Place(g) /\ FreePlace(g)
    BY <2>3 DEF Place, FreePlace, FreePcs
  <2>5. cmd' = [cmd EXCEPT ![c] = g]
    BY <2>1, <2>2
  <2>. QED
    BY <1>1, <1>2, <2>3, <2>4, <2>5, FreeIssue
<1>5. CASE WaitIssue(c, ref)
  <2>1. PICK g \in {[NoCmd EXCEPT !.op = "wait", !.pc = "waiting", !.id = resolve(ref)]} : TRUE
    OBVIOUS
  <2>2. DOMAIN g = Fields /\ g.id = resolve(ref) /\ g.own = 0 /\ g.op = "wait" /\ g.pc = "waiting"
    BY <2>1 DEF NoCmd, NoId, Fields
  <2>3. Place(g) /\ FreePlace(g)
    BY <2>2 DEF Place, FreePlace, FreePcs
  <2>4. cmd' = [cmd EXCEPT ![c] = g]
    BY <1>5, <2>1 DEF WaitIssue, Issue
  <2>. QED
    BY <1>1, <1>2, <2>2, <2>3, <2>4, FreeIssue
<1>. QED
  BY <1>3, <1>4, <1>5

(* attach and run.                                                         *)
LEMMA AttachCommand ==
  ASSUME IInv, KeepAlone, NEW c \in Clients, NEW ref, AttachIssue(c, ref)
  PROVE  IInv'
<1>1. MayIssue(c) /\ Frozen
  BY DEF AttachIssue, Frozen, unchangedProcs, unchangedHistory
<1>2. resolve(ref) \in 0..born /\ 0 \in 0..born /\ Len(keepers) \in Nat
  BY ResolveFacts DEF IInv, TypeInv
<1>3. PICK g \in {[NoCmd EXCEPT !.op = "attach", !.pc = "attached", !.id = resolve(ref)]} : TRUE
  OBVIOUS
<1>4. DOMAIN g = Fields /\ g.id = resolve(ref) /\ g.own = 0 /\ g.op = "attach" /\ g.pc = "attached" /\ g.keeper = 0
  BY <1>3 DEF NoCmd, NoId, Fields
<1>5. cmd' = [cmd EXCEPT ![c] = g]
  BY <1>3 DEF AttachIssue, Issue
<1>6. TypeInv' /\ cmd'[c] = g /\ born' = born /\ keepers' = keepers
  BY <1>1, <1>5, FrozenType DEF IInv, Frozen
<1>7. MakeInv(g)' /\ LaunchInv(g)' /\ StopInv(g)' /\ ChangeInv(g)' /\ RestartInv(g)' /\ WaitInv(g)'
  BY <1>2, <1>4, <1>6 DEF MakeInv, LaunchInv, StopInv, ChangeInv, RestartInv, WaitInv, RemovePcs, StopPcs
<1>8. ClientInv(c)'
  BY <1>2, <1>4, <1>6, <1>7 DEF ClientInv, Place
<1>. QED
  BY <1>1, <1>5, <1>8, IssueStep DEF Frozen

LEMMA RunCommand ==
  ASSUME IInv, KeepAlone, NEW c \in Clients, NEW op, NEW a \in RunInputs, RunIssue(c, op, a)
  PROVE  IInv'
<1>1. /\ MayIssue(c) /\ op \in {"run", "create"} /\ vols' = vols \cup a.volumes
      /\ UNCHANGED <<rec, born, live, keepers, crashes, wanted, lost, astray, forced>>
  BY DEF RunIssue, unchangedProcs, unchangedHistory
<1>2. PICK g \in {[NoCmd EXCEPT !.op = op, !.pc = "name", !.arg = a]} : TRUE
  OBVIOUS
<1>3. DOMAIN g = Fields /\ g.id = 0 /\ g.own = 0 /\ g.op = op /\ g.pc = "name" /\ g.todo = <<>> /\ g.arg = a
  BY <1>2 DEF NoCmd, NoId, Fields
<1>4. cmd' = [cmd EXCEPT ![c] = g]
  BY <1>2 DEF RunIssue, Issue
<1>5. TypeInv' /\ cmd'[c] = g /\ born' = born /\ 0 \in 0..born
  BY <1>1, <1>4 DEF IInv, TypeInv
<1>6. MakeInv(g)' /\ LaunchInv(g)' /\ StopInv(g)' /\ ChangeInv(g)' /\ RestartInv(g)' /\ WaitInv(g)'
  BY <1>1, <1>3 DEF MakeInv, LaunchInv, StopInv, ChangeInv, RestartInv, WaitInv, RemovePcs, StopPcs
<1>7. ClientInv(c)'
  BY <1>1, <1>3, <1>5, <1>6 DEF ClientInv, Place, RemovePcs
<1>. QED
  BY <1>1, <1>4, <1>7, IssueStep

(* clone, rename and update read the record of a container.                *)
LEMMA CloneCommand ==
  ASSUME IInv, KeepAlone, NEW c \in Clients, NEW ref, NEW a \in CloneInputs, CloneIssue(c, ref, a)
  PROVE  IInv'
<1>1. MayIssue(c) /\ Frozen /\ resolve(ref) # NoId
  BY DEF CloneIssue, Frozen, unchangedProcs, unchangedHistory
<1>2. resolve(ref) \in DOMAIN rec /\ 0 \in 0..born
  BY <1>1, ResolveFacts DEF IInv, TypeInv
<1>3. PICK name \in Names : cmd' = [cmd EXCEPT ![c] = [NoCmd EXCEPT !.op = "clone", !.pc = "record",
              !.at = resolve(ref), !.mem = rec[resolve(ref)], !.arg = [a EXCEPT !.name = name]]]
  BY DEF CloneIssue, Issue
<1>4. PICK g \in {[NoCmd EXCEPT !.op = "clone", !.pc = "record",
              !.at = resolve(ref), !.mem = rec[resolve(ref)], !.arg = [a EXCEPT !.name = name]]} : TRUE
  OBVIOUS
<1>5. /\ DOMAIN g = Fields /\ g.id = 0 /\ g.own = 0 /\ g.op = "clone" /\ g.pc = "record" /\ g.todo = <<>>
      /\ g.mem = rec[resolve(ref)] /\ g.arg = [a EXCEPT !.name = name]
  BY <1>4 DEF NoCmd, NoId, Fields
<1>6. g.arg.name = name
  BY <1>5 DEF CloneInputs
<1>7. g.mem \in Records /\ g.mem.mounts \subseteq vols \cup forced
  BY <1>2, <1>5 DEF IInv, TypeInv, VolumeInv
<1>8. cmd' = [cmd EXCEPT ![c] = g]
  BY <1>3, <1>4
<1>9. TypeInv' /\ cmd'[c] = g /\ born' = born /\ vols' = vols /\ forced' = forced
  BY <1>1, <1>8, FrozenType DEF IInv, Frozen
<1>10. MakeInv(g)' /\ LaunchInv(g)' /\ StopInv(g)' /\ ChangeInv(g)' /\ RestartInv(g)' /\ WaitInv(g)'
  BY <1>5, <1>6, <1>7, <1>9
     DEF MakeInv, LaunchInv, StopInv, ChangeInv, RestartInv, WaitInv, RemovePcs, StopPcs
<1>11. ClientInv(c)'
  BY <1>2, <1>5, <1>9, <1>10 DEF ClientInv, Place
<1>. QED
  BY <1>1, <1>8, <1>11, IssueStep DEF Frozen

(* A record just read is one read earlier.                                 *)
LEMMA JustRead ==
  ASSUME IInv, \A k \in DOMAIN keepers : keepers[k].pc \notin Starting, NEW i \in DOMAIN rec
  PROVE  ReadEarlier(i, rec[i])
<1>1. \A k \in KeptBy(i) : rec[i].status = "running" /\ rec[i].pid = k
  BY RunningFacts DEF IInv
<1>. QED
  BY <1>1 DEF IInv, TypeInv, ReadEarlier, Agree

LEMMA ChangeCommands ==
  ASSUME IInv, KeepAlone, NEW c \in Clients, NEW ref,
         \/ \E name \in Names : RenameIssue(c, ref, name)
         \/ \E resources \in BOOLEAN : UpdateIssue(c, ref, resources)
  PROVE  IInv'
<1>1. MayIssue(c) /\ Frozen /\ resolve(ref) # NoId
  BY DEF RenameIssue, UpdateIssue, Frozen, unchangedProcs, unchangedHistory
<1>2. resolve(ref) \in DOMAIN rec /\ resolve(ref) \in 0..born /\ 0 \in 0..born
  BY <1>1, ResolveFacts DEF IInv, TypeInv
<1>3. PICK i \in DOMAIN rec : i = resolve(ref)
  BY <1>2
<1>4. rec[i] \in Records
  BY DEF IInv, TypeInv
<1>5. \E op \in {"rename", "update"}, r \in Records :
        /\ r.status = rec[i].status /\ r.pid = rec[i].pid /\ r.exit = rec[i].exit /\ r.rm = rec[i].rm
        /\ Agree(r, rec[i])
        /\ cmd' = [cmd EXCEPT ![c] = [NoCmd EXCEPT !.op = op, !.pc = "change", !.id = i, !.mem = rec[i], !.arg = r]]
  <2>1. ASSUME NEW name \in Names, RenameIssue(c, ref, name)
        PROVE  \E r \in Records :
                /\ r.status = rec[i].status /\ r.pid = rec[i].pid /\ r.exit = rec[i].exit /\ r.rm = rec[i].rm
                /\ Agree(r, rec[i])
                /\ cmd' = [cmd EXCEPT ![c] = [NoCmd EXCEPT !.op = "rename", !.pc = "change", !.id = i,
                                                           !.mem = rec[i], !.arg = r]]
    <3>1. PICK r \in {[rec[i] EXCEPT !.name = name]} : TRUE
      OBVIOUS
    <3>2. r \in Records
      BY <1>4, <3>1 DEF Records
    <3>3. r.status = rec[i].status /\ r.pid = rec[i].pid /\ r.exit = rec[i].exit /\ r.rm = rec[i].rm
          /\ Agree(r, rec[i])
      BY <1>4, <3>1 DEF Records, Agree
    <3>4. cmd' = [cmd EXCEPT ![c] = [NoCmd EXCEPT !.op = "rename", !.pc = "change", !.id = i,
                                                           !.mem = rec[i], !.arg = r]]
      BY <1>3, <2>1, <3>1 DEF RenameIssue, Issue
    <3>. QED
      BY <3>2, <3>3, <3>4
  <2>2. ASSUME NEW resources \in BOOLEAN, UpdateIssue(c, ref, resources)
        PROVE  \E r \in Records :
                /\ r.status = rec[i].status /\ r.pid = rec[i].pid /\ r.exit = rec[i].exit /\ r.rm = rec[i].rm
                /\ Agree(r, rec[i])
                /\ cmd' = [cmd EXCEPT ![c] = [NoCmd EXCEPT !.op = "update", !.pc = "change", !.id = i,
                                                           !.mem = rec[i], !.arg = r]]
    <3>1. PICK r \in {[rec[i] EXCEPT !.health = TRUE]} : TRUE
      OBVIOUS
    <3>2. r \in Records
      BY <1>4, <3>1 DEF Records
    <3>3. r.status = rec[i].status /\ r.pid = rec[i].pid /\ r.exit = rec[i].exit /\ r.rm = rec[i].rm
          /\ Agree(r, rec[i])
      BY <1>4, <3>1 DEF Records, Agree
    <3>4. cmd' = [cmd EXCEPT ![c] = [NoCmd EXCEPT !.op = "update", !.pc = "change", !.id = i,
                                                           !.mem = rec[i], !.arg = r]]
      BY <1>3, <2>2, <3>1 DEF UpdateIssue, Issue
    <3>. QED
      BY <3>2, <3>3, <3>4
  <2>. QED
    BY <2>1, <2>2
<1>6. PICK op \in {"rename", "update"}, r \in Records :
        /\ r.status = rec[i].status /\ r.pid = rec[i].pid /\ r.exit = rec[i].exit /\ r.rm = rec[i].rm
        /\ Agree(r, rec[i])
        /\ cmd' = [cmd EXCEPT ![c] = [NoCmd EXCEPT !.op = op, !.pc = "change", !.id = i, !.mem = rec[i], !.arg = r]]
  BY <1>5
<1>7. PICK g \in {[NoCmd EXCEPT !.op = op, !.pc = "change", !.id = i, !.mem = rec[i], !.arg = r]} : TRUE
  OBVIOUS
<1>8. /\ DOMAIN g = Fields /\ g.id = i /\ g.own = 0 /\ g.op = op /\ g.pc = "change"
      /\ g.mem = rec[i] /\ g.arg = r
  BY <1>7 DEF NoCmd, NoId, Fields
<1>9. cmd' = [cmd EXCEPT ![c] = g]
  BY <1>6, <1>7
<1>10. TypeInv' /\ cmd'[c] = g /\ born' = born /\ rec' = rec /\ keepers' = keepers
  BY <1>1, <1>9, FrozenType DEF IInv, Frozen
<1>11. ReadEarlier(i, rec[i])
  BY <1>1, IssueFacts, JustRead DEF IInv
<1>12. ReadEarlier(g.id, g.mem)'
  BY <1>8, <1>10, <1>11 DEF ReadEarlier, KeptBy, KeeperRuns, Exists
<1>13. ChangeInv(g)'
  BY <1>6, <1>8, <1>12 DEF ChangeInv
<1>14. MakeInv(g)' /\ LaunchInv(g)' /\ StopInv(g)' /\ RestartInv(g)' /\ WaitInv(g)'
  BY <1>8 DEF MakeInv, LaunchInv, StopInv, RestartInv, WaitInv, RemovePcs, StopPcs
<1>15. ClientInv(c)'
  BY <1>2, <1>3, <1>8, <1>10, <1>13, <1>14 DEF ClientInv, Place
<1>. QED
  BY <1>1, <1>9, <1>15, IssueStep DEF Frozen

LEMMA CommandsKept ==
  ASSUME IInv, KeepAlone, NEW c \in Clients, Commands(c)
  PROVE  IInv'
BY ListCommands, LaterCommands, AttachCommand, RunCommand, CloneCommand, ChangeCommands, VolumeCommands,
   SignalCommands DEF Commands

(* The shapes of a step: go on, come back, or take the next container.     *)
SameBut(f, g) ==
    /\ DOMAIN g = Fields /\ g.op = f.op /\ g.todo = f.todo /\ g.at = f.at /\ g.id = f.id /\ g.own = f.own
    /\ g.mem = f.mem /\ g.keeper = f.keeper /\ g.arg = f.arg
Plain(c) ==
    /\ cmd[c].pc \notin {"confirm", "attached"}
    /\ cmd[c].op # "restart" \/ cmd[c].pc \notin StopPcs \cup RestorePcs
Still ==
    /\ UNCHANGED <<rec, born, live, keepers, crashes, wanted, lost>>
    /\ vols \cup forced \subseteq vols' \cup forced' /\ astray \subseteq astray'

LEMMA GotoFrame ==
  ASSUME IInv, NEW c \in Clients, NEW pc, Goto(c, pc)
  PROVE  \E g : cmd' = [cmd EXCEPT ![c] = g] /\ cmd'[c] = g /\ SameBut(cmd[c], g) /\ g.pc = pc
<1>1. PICK g \in {[cmd[c] EXCEPT !.pc = pc]} : TRUE
  OBVIOUS
<1>2. DOMAIN cmd[c] = Fields /\ DOMAIN cmd = Clients
  BY FrameFacts
<1>3. SameBut(cmd[c], g) /\ g.pc = pc
  BY <1>1, <1>2 DEF SameBut, Fields
<1>4. cmd' = [cmd EXCEPT ![c] = g]
  BY <1>1 DEF Goto
<1>5. cmd'[c] = g
  BY <1>2, <1>4
<1>. QED
  BY <1>3, <1>4, <1>5

LEMMA ReturnStep ==
  ASSUME IInv, NEW c \in Clients, Return(c), Still, Plain(c)
  PROVE  IInv'
<1>1. cmd' = [cmd EXCEPT ![c] = NoCmd] /\ DOMAIN cmd = Clients /\ cmd'[c] = NoCmd
  BY FrameFacts DEF Return
<1>2. TypeInv'
  BY <1>1 DEF IInv, TypeInv, Still
<1>3. ClientInv(c)' /\ ~Busy(c)'
  BY <1>1, <1>2, IdleFrame
<1>. QED
  BY <1>1, <1>3, PlainStep DEF Still, Plain

LEMMA ProceedStep ==
  ASSUME IInv, NEW c \in Clients, NEW pc, Proceed(c, pc), Still, Plain(c), Busy(c),
         cmd[c].todo = <<>> \/ NextPlace(cmd[c].op, pc)
  PROVE  IInv'
<1>1. DOMAIN cmd' = Clients /\ DOMAIN cmd = Clients /\ ClientInv(c)
  BY FrameFacts DEF Proceed, Return
<1>2. TypeInv'
  BY <1>1 DEF IInv, TypeInv, Still
<1>3. PICK g : cmd' = [cmd EXCEPT ![c] = g] /\ ClientInv(c)'
  BY <1>1, <1>2, ProceedFrame
<1>. QED
  BY <1>3, PlainStep DEF Still, Plain

LEMMA GotoStep ==
  ASSUME IInv, NEW c \in Clients, NEW pc, Goto(c, pc), Still, Plain(c), Busy(c), ClientInv(c)'
  PROVE  IInv'
<1>1. PICK g : cmd' = [cmd EXCEPT ![c] = g]
  BY GotoFrame
<1>. QED
  BY <1>1, PlainStep DEF Still, Plain

LEMMA FreeGoto ==
  ASSUME IInv, NEW c \in Clients, NEW pc, Goto(c, pc), Still, Plain(c), Busy(c),
         \A g : SameBut(cmd[c], g) /\ g.pc = pc => Place(g) /\ FreePlace(g)
  PROVE  IInv'
<1>1. PICK g : cmd' = [cmd EXCEPT ![c] = g] /\ cmd'[c] = g /\ SameBut(cmd[c], g) /\ g.pc = pc
  BY GotoFrame
<1>2. Place(g) /\ FreePlace(g)
  BY <1>1
<1>3. TypeInv'
  BY <1>1 DEF IInv, TypeInv, Still
<1>4. /\ g.id \in 0..born' /\ g.own \in 0..born'
      /\ g.op \in {"run", "create", "clone", "start"} => g.todo = <<>>
      /\ g.op \in {"run", "create"} => g.arg \in RunInputs
  BY <1>1, FrameFacts DEF SameBut, Still
<1>5. ClientInv(c)'
  BY <1>1, <1>2, <1>3, <1>4, FreeFrame DEF SameBut
<1>. QED
  BY <1>5, GotoStep

-----------------------------------------------------------------------------
(* run and create.                                                         *)
LEMMA RunNameStep ==
  ASSUME IInv, NEW c \in Clients, RunName(c) PROVE IInv'
<1>1. Still /\ cmd[c].pc = "name" /\ Plain(c)
  BY DEF RunName, Still, unchangedProcs, unchangedHistory, At, Plain, StopPcs, RestorePcs
<1>2. cmd[c].op \in {"run", "create"} /\ Busy(c)
  BY <1>1, FrameFacts, AtWork DEF Place, StopPcs, RestorePcs, LaunchPcs, RemovePcs
<1>3. CASE Return(c)
  BY <1>1, <1>3, ReturnStep
<1>4. CASE ~Return(c)
  <2>1. \/ Goto(c, "record")
        \/ cmd' = [cmd EXCEPT ![c].pc = "remove", ![c].at = cmd[c].arg.name]
    BY <1>4 DEF RunName
  <2>2. \E g : /\ cmd' = [cmd EXCEPT ![c] = g] /\ cmd'[c] = g /\ DOMAIN g = Fields /\ g.pc \in {"record", "remove"}
               /\ g.op = cmd[c].op /\ g.todo = cmd[c].todo /\ g.id = cmd[c].id /\ g.own = cmd[c].own
               /\ g.arg = cmd[c].arg
    <3>1. CASE Goto(c, "record")
      BY <3>1, GotoFrame DEF SameBut
    <3>2. CASE cmd' = [cmd EXCEPT ![c].pc = "remove", ![c].at = cmd[c].arg.name]
      <4>1. PICK g \in {[cmd[c] EXCEPT !.pc = "remove", !.at = cmd[c].arg.name]} : TRUE
        OBVIOUS
      <4>2. DOMAIN cmd[c] = Fields /\ DOMAIN cmd = Clients
        BY FrameFacts
      <4>3. /\ DOMAIN g = Fields /\ g.pc \in {"record", "remove"}
            /\ g.op = cmd[c].op /\ g.todo = cmd[c].todo /\ g.id = cmd[c].id /\ g.own = cmd[c].own
            /\ g.arg = cmd[c].arg
        BY <4>1, <4>2 DEF Fields
      <4>4. cmd' = [cmd EXCEPT ![c] = g] /\ cmd'[c] = g
        BY <3>2, <4>1, <4>2
      <4>. QED
        BY <4>3, <4>4
    <3>. QED
      BY <2>1, <3>1, <3>2
  <2>3. PICK g : /\ cmd' = [cmd EXCEPT ![c] = g] /\ cmd'[c] = g /\ DOMAIN g = Fields /\ g.pc \in {"record", "remove"}
                 /\ g.op = cmd[c].op /\ g.todo = cmd[c].todo /\ g.id = cmd[c].id /\ g.own = cmd[c].own
                 /\ g.arg = cmd[c].arg
    BY <2>2
  <2>4. MakeInv(g)'
    BY <1>1, <1>2, <2>3, FrameFacts DEF MakeInv, Still
  <2>5. LaunchInv(g)' /\ StopInv(g)' /\ ChangeInv(g)' /\ RestartInv(g)' /\ WaitInv(g)'
    BY <1>2, <2>3 DEF LaunchInv, StopInv, ChangeInv, RestartInv, WaitInv, StopPcs, RemovePcs
  <2>6. ClientInv(c)'
    BY <1>1, <1>2, <2>3, <2>4, <2>5, FrameFacts DEF ClientInv, Place, RemovePcs, Still
  <2>. QED
    BY <1>1, <1>2, <2>3, <2>6, PlainStep DEF Still, Plain
<1>. QED
  BY <1>3, <1>4

(* What is left of the invariant for a container just made.                *)
LEMMA MakeFrame ==
  ASSUME TypeInv', NEW c \in Clients, NEW g, cmd'[c] = g, DOMAIN g = Fields, g.id \in 0..born', g.own \in 0..born',
         g.op \in {"run", "create", "clone"}, Place(g), g.todo = <<>>,
         g.pc \in {"bundle", "prepared", "launch", "record", "remove"}, MakeInv(g)', LaunchInv(g)'
  PROVE  ClientInv(c)'
<1>1. StopInv(g)' /\ ChangeInv(g)' /\ RestartInv(g)' /\ WaitInv(g)'
  BY DEF StopInv, ChangeInv, RestartInv, WaitInv
<1>. QED
  BY <1>1 DEF ClientInv

LEMMA NewRecord ==
  ASSUME MaxLaunches \in Nat, MaxIds \in Nat, NEW n \in Names \cup {NoName}
  PROVE  [status |-> "creating", pid |-> NoPid, name |-> n, labels |-> <<>>, rm |-> FALSE, exit |-> NoExit,
          health |-> FALSE, bundle |-> FALSE, mounts |-> {}, upper |-> 0] \in Records
<1>1. 0 \in 0..MaxLaunches /\ 0 \in 0..MaxIds
  OBVIOUS
<1>. QED
  BY <1>1 DEF Records, Statuses, NoPid, NoExit

LEMMA CreateRecordStep ==
  ASSUME IInv, NEW c \in Clients, CreateRecord(c) PROVE IInv'
<1>1. PICK r \in {[status |-> "creating", pid |-> NoPid, name |-> cmd[c].arg.name, labels |-> <<>>,
              rm |-> FALSE, exit |-> NoExit, health |-> FALSE, bundle |-> FALSE, mounts |-> {}, upper |-> 0]} : TRUE
  OBVIOUS
<1>2. /\ cmd[c].pc = "record" /\ cmd[c].op \in {"run", "create"} /\ born < MaxIds /\ born' = born + 1
      /\ Add(born + 1, r) /\ cmd' = [cmd EXCEPT ![c].pc = "bundle", ![c].id = born + 1, ![c].mem = r]
      /\ UNCHANGED <<vols, live, keepers, crashes, wanted, lost, astray, forced>>
  BY <1>1 DEF CreateRecord, At, unchangedProcs, unchangedHistory
<1>3. Busy(c) /\ cmd[c].arg \in RunInputs /\ cmd[c].arg.volumes \subseteq vols \cup forced
      /\ cmd[c].arg.name \in Names \cup {NoName} /\ MaxIds \in Nat /\ MaxLaunches \in Nat /\ born \in Nat
  <2>1. Busy(c) /\ cmd[c].arg \in RunInputs /\ cmd[c].arg.volumes \subseteq vols \cup forced
    BY <1>2, FrameFacts, AtWork DEF MakeInv
  <2>. QED
    BY <2>1, EngineAssumption DEF IInv, TypeInv
<1>4. r \in Records /\ r.pid = 0 /\ r.mounts = {} /\ r.rm = FALSE /\ r.status = "creating"
  <2>2. r \in Records
    BY <1>1, <1>3, NewRecord
  <2>. QED
    BY <1>1, <2>2 DEF NoPid
<1>5. PICK i \in {born + 1} : i = born + 1 /\ i \in Nat /\ i # 0 /\ born < i
  BY <1>3
<1>6. PICK g \in {[cmd[c] EXCEPT !.pc = "bundle", !.id = i, !.mem = r]} : TRUE
  OBVIOUS
<1>7. /\ DOMAIN g = Fields /\ g.pc = "bundle" /\ g.id = i /\ g.mem = r /\ g.own = cmd[c].own
      /\ g.op = cmd[c].op /\ g.arg = cmd[c].arg /\ g.todo = cmd[c].todo
  BY <1>6, FrameFacts DEF Fields
<1>8. cmd' = [cmd EXCEPT ![c] = g] /\ cmd'[c] = g
  BY <1>2, <1>5, <1>6, FrameFacts
<1>9. rec'[i] = r /\ i \in DOMAIN rec' /\ DOMAIN rec' = DOMAIN rec \cup {i}
      /\ \A j \in DOMAIN rec : j # i => rec'[j] = rec[j]
  BY <1>2, <1>5 DEF Add
<1>10. (\A k \in DOMAIN keepers : keepers[k].id # i) /\ i \notin wanted
  BY <1>5 DEF IInv, TypeInv
<1>11. ClientInv(c)'
  <2>1. MakeInv(g)'
    BY <1>2, <1>3, <1>4, <1>7, <1>9, <1>10 DEF MakeInv, Exists
  <2>2. LaunchInv(g)'
    BY <1>7 DEF LaunchInv
  <2>3. g.id \in 0..born' /\ g.own \in 0..born' /\ g.todo = <<>> /\ Place(g)
    BY <1>2, <1>3, <1>5, <1>7, FrameFacts DEF Place, RemovePcs
  <2>4. TypeInv'
    <3>1. \A j \in DOMAIN rec' : rec'[j] \in Records /\ rec'[j].pid <= Len(keepers')
      BY <1>2, <1>4, <1>9 DEF IInv, TypeInv
    <3>2. DOMAIN rec' \subseteq 1..born' /\ wanted' \subseteq 1..born' /\ born' <= MaxIds /\ born' \in Nat
          /\ 1..born \subseteq 1..born'
      BY <1>2, <1>3, <1>5, <1>9 DEF IInv, TypeInv
    <3>. QED
      BY <1>2, <1>8, <3>1, <3>2 DEF IInv, TypeInv
  <2>. QED
    BY <1>2, <1>7, <1>8, <2>1, <2>2, <2>3, <2>4, MakeFrame
<1>. QED
  BY <1>2, <1>3, <1>4, <1>8, <1>11, AddStep

LEMMA ExhaustedStep ==
  ASSUME IInv, NEW c \in Clients, IdsExhausted(c) PROVE IInv'
BY ReturnStep DEF IdsExhausted, At, Still, Plain, StopPcs, RestorePcs, unchangedProcs, unchangedHistory

(* What run and create know of the record they prepare.                    *)
LEMMA Prepared ==
  ASSUME IInv, NEW c \in Clients, cmd[c].pc \in {"bundle", "prepared"}
  PROVE  /\ Busy(c) /\ Plain(c) /\ cmd[c].op \in {"run", "create", "clone"} /\ cmd[c].id \in DOMAIN rec
         /\ rec[cmd[c].id] \in Records /\ rec[cmd[c].id].status = "creating"
         /\ rec[cmd[c].id].pid <= Len(keepers) /\ KeptBy(cmd[c].id) = {} /\ NoneAlive(cmd[c].id)
         /\ \A k \in DOMAIN keepers : keepers[k].id # cmd[c].id
         /\ cmd[c].op \in {"run", "create"} =>
                cmd[c].mem = rec[cmd[c].id] /\ cmd[c].id \notin wanted /\ cmd[c].arg \in RunInputs
         /\ cmd[c].pc = "prepared" => cmd[c].op \in {"run", "create"}
<1>1. Place(cmd[c]) /\ MakeInv(cmd[c])
  BY FrameFacts
<1>2. cmd[c].op \in {"run", "create", "clone"} /\ (cmd[c].pc = "prepared" => cmd[c].op \in {"run", "create"})
  BY <1>1 DEF Place, StopPcs, RestorePcs, LaunchPcs, RemovePcs
<1>3. Busy(c) /\ Plain(c)
  BY <1>2, AtWork DEF Plain
<1>4. cmd[c].id \in DOMAIN rec /\ \A k \in DOMAIN keepers : keepers[k].id # cmd[c].id
  BY <1>1 DEF MakeInv, Exists
<1>5. KeptBy(cmd[c].id) = {} /\ NoneAlive(cmd[c].id)
  BY <1>4 DEF KeptBy, NoneAlive, IInv, TypeInv
<1>. QED
  BY <1>1, <1>2, <1>3, <1>4, <1>5, FrameFacts DEF MakeInv, IInv, TypeInv

(* A record that no keeper waits for may be written with the same pid and exit code. *)
LEMMA QuietWrite ==
  ASSUME IInv, NEW c \in Clients, Busy(c), Plain(c), NEW g, cmd' = [cmd EXCEPT ![c] = g], ClientInv(c)',
         NEW i \in DOMAIN rec, NEW r \in Records, rec' = [rec EXCEPT ![i] = r], KeptBy(i) = {},
         UNCHANGED <<born, live, keepers, vols, crashes, astray, forced, lost>>,
         wanted \subseteq wanted', wanted' \subseteq wanted \cup {i},
         r.pid = rec[i].pid, r.exit = rec[i].exit, r.mounts \subseteq vols \cup forced, r.mounts # {} => r.bundle,
         i \in wanted' => r.rm \/ (i \in wanted /\ r.rm = rec[i].rm)
  PROVE  IInv'
<1>1. DOMAIN rec' = DOMAIN rec /\ rec'[i] = r /\ \A j \in DOMAIN rec : j # i => rec'[j] = rec[j]
  OBVIOUS
<1>2. rec[i] \in Records /\ rec[i].pid <= Len(keepers) /\ rec[i].pid \in Nat /\ rec[i].exit \in Nat
  BY DEF IInv, TypeInv, Records
<1>3. i \notin lost /\ crashes = 0 => r.exit >= r.pid
  BY DEF IInv, ExitInv
<1>4. AutoInv'
  <2>1. \A j : ~Suppresses(c, j)
    BY DEF Plain, Suppresses
  <2>2. \A j \in (wanted' \cap DOMAIN rec') \ (lost' \cup astray') :
            /\ rec'[j].rm \/ (j \in wanted \cap DOMAIN rec /\ (rec[j].rm => rec'[j].rm))
            /\ j \in wanted \cap DOMAIN rec \/ KeptBy(j) = {}
    BY <1>1
  <2>. QED
    BY <2>1, <2>2, AutoKept DEF IInv, TypeInv
<1>5. \A k \in KeptBy(i) : r.status = "running" /\ r.pid = k /\ Agree(rec[i], r)
  OBVIOUS
<1>6. i \notin lost' =>
            /\ rec[i].pid <= r.pid /\ rec[i].exit <= r.exit
            /\ crashes = 0 => r.exit >= r.pid \/ r.pid \in KeptBy(i)
  BY <1>2, <1>3
<1>7. lost \subseteq lost' /\ cmd[c].pc \notin {"confirm", "attached"} /\ r.pid <= Len(keepers)
  BY <1>2 DEF Plain
<1>. QED
  BY <1>4, <1>5, <1>6, <1>7, WriteStep

LEMMA PrepareBundleStep ==
  ASSUME IInv, NEW c \in Clients, PrepareBundle(c) PROVE IInv'
<1>1. cmd[c].pc = "bundle" /\ cmd[c].op \in {"run", "create"}
      /\ UNCHANGED <<born, live, keepers, vols, crashes, astray, forced, lost, wanted>>
  BY DEF PrepareBundle, At, unchangedProcs, unchangedHistory
<1>2. PICK i \in DOMAIN rec : i = cmd[c].id
  BY <1>1, Prepared
<1>3. /\ Busy(c) /\ Plain(c) /\ rec[i] \in Records /\ rec[i].status = "creating" /\ KeptBy(i) = {}
      /\ \A k \in DOMAIN keepers : keepers[k].id # i
      /\ cmd[c].mem = rec[i] /\ i \notin wanted /\ cmd[c].arg \in RunInputs
  BY <1>1, <1>2, Prepared
<1>4. cmd[c].arg.volumes \subseteq Volumes /\ cmd[c].arg.volumes \subseteq vols \cup forced
      /\ i \in 0..MaxIds
  <2>1. cmd[c].arg.volumes \subseteq Volumes
    BY <1>3, EngineAssumption
  <2>2. cmd[c].arg.volumes \subseteq vols \cup forced
    BY <1>1, FrameFacts DEF MakeInv
  <2>3. i \in 0..MaxIds
    BY <1>2, EngineAssumption DEF IInv, TypeInv
  <2>. QED
    BY <2>1, <2>2, <2>3
<1>5. PICK upper \in {0, i} :
        LET r == [cmd[c].mem EXCEPT !.bundle = TRUE, !.mounts = cmd[c].arg.volumes, !.upper = upper] IN
        /\ Write(i, r) /\ cmd' = [cmd EXCEPT ![c].mem = r, ![c].pc = "prepared"]
  BY <1>2 DEF PrepareBundle
<1>6. PICK r \in {[rec[i] EXCEPT !.bundle = TRUE, !.mounts = cmd[c].arg.volumes, !.upper = upper]} : TRUE
  OBVIOUS
<1>7. upper \in 0..MaxIds
  BY <1>4, EngineAssumption
<1>8. r \in Records
  BY <1>3, <1>4, <1>6, <1>7 DEF Records
<1>9. r.pid = rec[i].pid /\ r.exit = rec[i].exit /\ r.mounts = cmd[c].arg.volumes /\ r.bundle = TRUE
      /\ r.status = "creating" /\ r.rm = rec[i].rm
  BY <1>3, <1>6 DEF Records
<1>10. rec' = [rec EXCEPT ![i] = r] /\ cmd' = [cmd EXCEPT ![c].mem = r, ![c].pc = "prepared"]
  BY <1>3, <1>5, <1>6 DEF Write, Exists
<1>11. PICK g \in {[cmd[c] EXCEPT !.mem = r, !.pc = "prepared"]} : TRUE
  OBVIOUS
<1>12. /\ DOMAIN g = Fields /\ g.pc = "prepared" /\ g.id = i /\ g.mem = r /\ g.own = cmd[c].own
       /\ g.op = cmd[c].op /\ g.arg = cmd[c].arg /\ g.todo = cmd[c].todo
  BY <1>2, <1>11, FrameFacts DEF Fields
<1>13. cmd' = [cmd EXCEPT ![c] = g] /\ cmd'[c] = g
  BY <1>10, <1>11, FrameFacts
<1>14. rec'[i] = r /\ DOMAIN rec' = DOMAIN rec /\ \A j \in DOMAIN rec : j # i => rec'[j] = rec[j]
  BY <1>10
<1>15. ClientInv(c)'
  <2>1. MakeInv(g)'
    BY <1>1, <1>3, <1>9, <1>12, <1>14 DEF MakeInv, Exists, RemovePcs
  <2>2. LaunchInv(g)'
    BY <1>12 DEF LaunchInv
  <2>3. g.id \in 0..born' /\ g.own \in 0..born' /\ g.todo = <<>> /\ Place(g)
    BY <1>1, <1>2, <1>12, FrameFacts DEF Place
  <2>4. TypeInv'
    BY <1>1, <1>3, <1>8, <1>9, <1>13, <1>14 DEF IInv, TypeInv
  <2>. QED
    BY <1>1, <1>12, <1>13, <2>1, <2>2, <2>3, <2>4, MakeFrame
<1>. QED
  BY <1>1, <1>3, <1>4, <1>8, <1>9, <1>10, <1>13, <1>15, QuietWrite

LEMMA PrepareFailsStep ==
  ASSUME IInv, NEW c \in Clients, PrepareFails(c) PROVE IInv'
<1>1. /\ cmd[c].pc = "bundle" /\ Unlink(cmd[c].id) /\ cmd' = [cmd EXCEPT ![c] = NoCmd]
      /\ UNCHANGED <<born, live, keepers, vols, crashes, wanted, lost, astray, forced>>
  BY DEF PrepareFails, At, Return, unchangedProcs, unchangedHistory
<1>2. Busy(c) /\ Plain(c) /\ NoneAlive(cmd[c].id) /\ cmd[c].op # "restart"
  BY <1>1, Prepared
<1>3. TypeInv' /\ cmd'[c] = NoCmd
  BY <1>1, FrameFacts DEF TypeInv, Unlink
<1>4. ClientInv(c)'
  BY <1>3, IdleFrame
<1>. QED
  BY <1>1, <1>2, <1>4, UnlinkStep DEF Plain

LEMMA CreateDoneStep ==
  ASSUME IInv, NEW c \in Clients, CreateDone(c) PROVE IInv'
<1>1. /\ cmd[c].pc = "prepared" /\ cmd[c].op = "create" /\ cmd' = [cmd EXCEPT ![c] = NoCmd]
      /\ UNCHANGED <<born, live, keepers, vols, crashes, lost, astray, forced>>
  BY DEF CreateDone, At, Return, unchangedProcs
<1>2. PICK i \in DOMAIN rec : i = cmd[c].id
  BY <1>1, Prepared
<1>3. /\ Busy(c) /\ Plain(c) /\ rec[i] \in Records /\ KeptBy(i) = {} /\ rec[i].pid <= Len(keepers)
      /\ cmd[c].mem = rec[i] /\ i \notin wanted /\ cmd[c].arg \in RunInputs
  BY <1>1, <1>2, Prepared
<1>4. PICK r \in {[rec[i] EXCEPT !.status = "created", !.rm = cmd[c].arg.rm]} : TRUE
  OBVIOUS
<1>5. cmd[c].arg.rm \in BOOLEAN
  BY <1>3, EngineAssumption
<1>6. r \in Records
  BY <1>3, <1>4, <1>5 DEF Records, Statuses
<1>7. r.pid = rec[i].pid /\ r.exit = rec[i].exit /\ r.mounts = rec[i].mounts /\ r.bundle = rec[i].bundle
      /\ r.rm = cmd[c].arg.rm
  BY <1>3, <1>4 DEF Records
<1>8. rec' = [rec EXCEPT ![i] = r] /\ wanted' = IF r.rm THEN wanted \cup {i} ELSE wanted
  BY <1>2, <1>3, <1>4, <1>7 DEF CreateDone, Write, Exists
<1>9. r.mounts \subseteq vols \cup forced /\ (r.mounts # {} => r.bundle)
  BY <1>7 DEF IInv, VolumeInv
<1>10. TypeInv' /\ cmd'[c] = NoCmd
  BY <1>1, <1>3, <1>6, <1>7, <1>8, FrameFacts DEF TypeInv
<1>11. ClientInv(c)'
  BY <1>10, IdleFrame
<1>. QED
  BY <1>1, <1>3, <1>6, <1>7, <1>8, <1>9, <1>11, QuietWrite

LEMMA RunAnnotateStep ==
  ASSUME IInv, NEW c \in Clients, RunAnnotate(c) PROVE IInv'
<1>1. /\ cmd[c].pc = "prepared" /\ cmd[c].op = "run"
      /\ UNCHANGED <<born, live, keepers, vols, crashes, lost, astray, forced>>
  BY DEF RunAnnotate, At, unchangedProcs
<1>2. PICK i \in DOMAIN rec : i = cmd[c].id
  BY <1>1, Prepared
<1>3. /\ Busy(c) /\ Plain(c) /\ rec[i] \in Records /\ KeptBy(i) = {} /\ rec[i].pid <= Len(keepers)
      /\ cmd[c].mem = rec[i] /\ i \notin wanted /\ cmd[c].arg \in RunInputs /\ rec[i].status = "creating"
  BY <1>1, <1>2, Prepared
<1>4. PICK r \in {[rec[i] EXCEPT !.rm = cmd[c].arg.rm]} : TRUE
  OBVIOUS
<1>5. cmd[c].arg.rm \in BOOLEAN
  BY <1>3, EngineAssumption
<1>6. r \in Records
  BY <1>3, <1>4, <1>5 DEF Records
<1>7. r.pid = rec[i].pid /\ r.exit = rec[i].exit /\ r.mounts = rec[i].mounts /\ r.bundle = rec[i].bundle
      /\ r.rm = cmd[c].arg.rm /\ r.status = "creating"
  BY <1>3, <1>4 DEF Records
<1>8. /\ rec' = [rec EXCEPT ![i] = r] /\ wanted' = IF r.rm THEN wanted \cup {i} ELSE wanted
      /\ cmd' = [cmd EXCEPT ![c].mem = r, ![c].pc = "launch"]
  BY <1>2, <1>3, <1>4, <1>7 DEF RunAnnotate, Write, Exists
<1>9. r.mounts \subseteq vols \cup forced /\ (r.mounts # {} => r.bundle)
  BY <1>7 DEF IInv, VolumeInv
<1>10. PICK g \in {[cmd[c] EXCEPT !.mem = r, !.pc = "launch"]} : TRUE
  OBVIOUS
<1>11. /\ DOMAIN g = Fields /\ g.pc = "launch" /\ g.id = i /\ g.mem = r /\ g.own = cmd[c].own
       /\ g.op = cmd[c].op /\ g.arg = cmd[c].arg /\ g.todo = cmd[c].todo
  BY <1>2, <1>10, FrameFacts DEF Fields
<1>12. cmd' = [cmd EXCEPT ![c] = g] /\ cmd'[c] = g
  BY <1>8, <1>10, FrameFacts
<1>13. TypeInv'
  BY <1>1, <1>3, <1>6, <1>7, <1>8, <1>12, FrameFacts DEF TypeInv
<1>14. ClientInv(c)'
  <2>1. MakeInv(g)'
    BY <1>1, <1>3, <1>11 DEF MakeInv, RemovePcs
  <2>2. KeptBy(i)' = KeptBy(i) /\ Exists(i)' /\ rec'[i] = r
    BY <1>1, <1>8 DEF KeptBy, KeeperRuns, Exists
  <2>3. LaunchInv(g)'
    BY <1>3, <1>7, <1>11, <2>2 DEF LaunchInv
  <2>4. g.id \in 0..born' /\ g.own \in 0..born' /\ g.todo = <<>> /\ Place(g)
    BY <1>1, <1>2, <1>11, FrameFacts DEF Place
  <2>. QED
    BY <1>1, <1>11, <1>12, <1>13, <2>1, <2>3, <2>4, MakeFrame
<1>. QED
  BY <1>1, <1>3, <1>6, <1>7, <1>8, <1>9, <1>12, <1>14, QuietWrite

-----------------------------------------------------------------------------
(* The launch.                                                             *)
LEMMA ForkFailsStep ==
  ASSUME IInv, NEW c \in Clients, ForkFails(c) PROVE IInv'
<1>1. /\ cmd[c].pc = "launch" /\ Proceed(c, "restart")
      /\ UNCHANGED <<born, live, keepers, vols, crashes, wanted, lost, astray, forced>>
  BY DEF ForkFails, At, unchangedProcs, unchangedHistory
<1>2. /\ cmd[c].op \in {"run", "create", "start", "restart"} /\ Busy(c) /\ Plain(c)
      /\ KeptBy(cmd[c].id) = {}
  <2>1. cmd[c].op \in {"run", "create", "start", "restart"} /\ KeptBy(cmd[c].id) = {}
    BY <1>1, FrameFacts DEF Place, LaunchInv, StopPcs, LaunchPcs, RemovePcs
  <2>. QED
    BY <1>1, <2>1, AtWork DEF Plain, StopPcs, RestorePcs
<1>3. cmd[c].todo = <<>> \/ NextPlace(cmd[c].op, "restart")
  BY <1>2, FrameFacts DEF NextPlace
<1>4. CASE rec' = rec
  BY <1>1, <1>2, <1>3, <1>4, ProceedStep DEF Still
<1>5. CASE rec' # rec
  <2>1. cmd[c].op = "run" /\ Unlink(cmd[c].id)
    BY <1>5 DEF ForkFails
  <2>2. cmd[c].todo = <<>>
    BY <2>1, FrameFacts
  <2>3. cmd' = [cmd EXCEPT ![c] = NoCmd]
    BY <1>1, <2>2 DEF Proceed, Return
  <2>4. TypeInv' /\ cmd'[c] = NoCmd
    BY <1>1, <2>1, <2>3, FrameFacts DEF TypeInv, Unlink
  <2>5. ClientInv(c)'
    BY <2>4, IdleFrame
  <2>6. NoneAlive(cmd[c].id)
    <3>1. \A k \in live : k \in DOMAIN keepers /\ KeeperRuns(k)
      BY DEF IInv, TypeInv, KeeperInv, KeeperRuns
    <3>. QED
      BY <1>2, <3>1 DEF NoneAlive, KeptBy
  <2>. QED
    BY <1>1, <1>2, <2>1, <2>3, <2>5, <2>6, UnlinkStep DEF Plain
<1>. QED
  BY <1>4, <1>5

(* A command that leaves its launch: the keeper is past the start.         *)
LEMMA LeaveLaunch ==
  ASSUME IInv, NEW c \in Clients, NEW k \in DOMAIN keepers, keepers[k].pc \in Starting, Launcher(c, k)
  PROVE  Exists(cmd[c].id) /\ rec[cmd[c].id].status = "creating" /\ KeeperRuns(cmd[c].keeper)
<1>1. KeeperInv(k) /\ LaunchInv(cmd[c]) /\ k # 0
  BY FrameFacts, KeeperFacts DEF IInv
<1>2. keepers[k].id = cmd[c].id /\ cmd[c].keeper = k
  BY <1>1 DEF LaunchInv, Launcher
<1>. QED
  BY <1>1, <1>2 DEF KeeperInv, KeeperRuns, Starting

LEMMA ConfirmStep ==
  ASSUME IInv, KeepAlone, NEW c \in Clients, Confirm(c) PROVE IInv'
<1>1. Frozen /\ cmd[c].pc = "confirm"
  BY DEF Confirm, At, Frozen, unchangedProcs, unchangedHistory
<1>2. /\ cmd[c].op \in {"run", "create", "start", "restart"} /\ Busy(c)
      /\ \A i : ~Suppresses(c, i)
  <2>1. cmd[c].op \in {"run", "create", "start", "restart"}
    BY <1>1, FrameFacts DEF Place, StopPcs, LaunchPcs, RemovePcs
  <2>. QED
    BY <1>1, <2>1, AtWork DEF Suppresses, StopPcs, RestorePcs
<1>3. \A k \in DOMAIN keepers : ~(keepers[k].pc \in Starting /\ Launcher(c, k))
  BY LeaveLaunch DEF Confirm, KeepAlone
<1>4. TypeInv'
  BY <1>1 DEF Confirm, Goto, Proceed, Return, IInv, TypeInv, Frozen
<1>5. CASE Proceed(c, "restart")
  <2>1. cmd[c].todo = <<>> \/ NextPlace(cmd[c].op, "restart")
    BY <1>2, FrameFacts DEF NextPlace
  <2>2. DOMAIN cmd = Clients /\ ClientInv(c)
    BY FrameFacts
  <2>3. PICK g : cmd' = [cmd EXCEPT ![c] = g] /\ ClientInv(c)'
    BY <1>4, <1>5, <2>1, <2>2, ProceedFrame
  <2>4. Move(c, g)
    BY <1>1, <1>2, <1>3, <2>3 DEF Move, Frozen
  <2>. QED
    BY <2>3, <2>4, MoveStep
<1>6. CASE ~Proceed(c, "restart")
  <2>1. Goto(c, "attached") /\ cmd[c].op = "start"
    BY <1>6 DEF Confirm
  <2>2. PICK g : cmd' = [cmd EXCEPT ![c] = g] /\ cmd'[c] = g /\ SameBut(cmd[c], g) /\ g.pc = "attached"
    BY <2>1, GotoFrame
  <2>3. /\ g.op = "start" /\ g.keeper = cmd[c].keeper /\ g.id = cmd[c].id /\ g.own = cmd[c].own
        /\ DOMAIN g = Fields /\ g.todo = <<>>
    BY <2>1, <2>2, FrameFacts DEF SameBut
  <2>4. LaunchInv(g)'
    <3>1. LaunchInv(cmd[c])
      BY FrameFacts
    <3>2. cmd[c].keeper \in 0..Len(keepers) /\ keepers[cmd[c].keeper].id = cmd[c].id
      BY <1>1, <3>1 DEF LaunchInv, IInv, TypeInv
    <3>. QED
      BY <1>1, <2>2, <2>3, <3>2 DEF LaunchInv, Frozen
  <2>5. MakeInv(g)' /\ StopInv(g)' /\ ChangeInv(g)' /\ RestartInv(g)' /\ WaitInv(g)'
    BY <2>2, <2>3 DEF MakeInv, StopInv, ChangeInv, RestartInv, WaitInv
  <2>6. ClientInv(c)'
    BY <1>1, <2>2, <2>3, <2>4, <2>5, FrameFacts DEF ClientInv, Place, Frozen
  <2>7. Move(c, g)
    BY <1>1, <1>2, <1>3, <2>2 DEF Move, Frozen
  <2>. QED
    BY <2>2, <2>6, <2>7, MoveStep
<1>. QED
  BY <1>5, <1>6

LEMMA DetachedStep ==
  ASSUME IInv, NEW c \in Clients, Detached(c) PROVE IInv'
<1>1. Frozen /\ cmd[c].pc = "attached" /\ cmd' = [cmd EXCEPT ![c] = NoCmd] /\ cmd'[c] = NoCmd
  BY FrameFacts DEF Detached, At, Frozen, Return, unchangedProcs, unchangedHistory
<1>2. \A i : ~Suppresses(c, i)
  BY <1>1 DEF Suppresses, StopPcs, RestorePcs
<1>3. \A k \in DOMAIN keepers : ~(keepers[k].pc \in Starting /\ Launcher(c, k))
  BY LeaveLaunch DEF Detached
<1>4. TypeInv'
  BY <1>1 DEF IInv, TypeInv, Frozen
<1>5. ClientInv(c)' /\ ~Busy(c)'
  BY <1>1, <1>4, IdleFrame
<1>6. Move(c, NoCmd)
  BY <1>1, <1>2, <1>3, <1>5 DEF Move, Frozen
<1>. QED
  BY <1>5, <1>6, MoveStep

-----------------------------------------------------------------------------
(* stop_container.                                                         *)
LEMMA CalmAt ==
  ASSUME IInv, NEW c \in Clients, cmd[c].op \notin {"none", "wait"}, cmd[c].pc \notin {"confirm", "attached"}
  PROVE  Busy(c) /\ \A k \in DOMAIN keepers : keepers[k].pc \notin Starting
<1>1. Busy(c)
  BY AtWork
<1>. QED
  BY <1>1, Calm DEF IInv

LEMMA LiveFacts ==
  ASSUME IInv, NEW k \in live
  PROVE  k \in DOMAIN keepers /\ keepers[k].id \in DOMAIN rec /\ KeeperRuns(k) /\ k \in KeptBy(keepers[k].id)
BY DEF IInv, TypeInv, KeeperInv, KeeperRuns, KeptBy, Exists

(* The places of stop_container, and what leads from one to the next.      *)
LEMMA StopPlaces ==
  ASSUME IInv, NEW c \in Clients
  PROVE  /\ cmd[c].pc \in {"stop", "signal", "grace"} => cmd[c].op \in {"stop", "restart", "rm"}
         /\ cmd[c].pc = "dying" => cmd[c].op \in {"run", "create", "clone", "stop", "restart", "rm", "prune", "reset"}
         /\ cmd[c].pc = "keeper" => cmd[c].op \in {"stop", "restart", "rm", "start", "wait"}
         /\ cmd[c].pc \in {"remove", "kill", "unlink"} =>
                cmd[c].op \in {"run", "create", "clone", "rm", "prune", "reset"}
BY FrameFacts DEF Place, StopPcs, RestorePcs, LaunchPcs, RemovePcs

(* stop, restart and rm --time keep to their container on the way to its keeper. *)
LEMMA StopGoto ==
  ASSUME IInv, NEW c \in Clients, Still, forced' = forced, vols' = vols, astray' = astray, NEW pc, Goto(c, pc),
         cmd[c].pc \in {"kill", "signal", "grace", "dying"},
         pc \in {"grace", "dying", "keeper", "unlink"},
         pc = "keeper" => cmd[c].op \in {"stop", "restart", "rm"},
         pc = "grace" => cmd[c].pc = "signal",
         pc = "unlink" => cmd[c].op \notin {"stop", "restart"} /\ NoneAlive(cmd[c].own)
  PROVE  IInv'
<1>1. PICK g : cmd' = [cmd EXCEPT ![c] = g] /\ cmd'[c] = g /\ SameBut(cmd[c], g) /\ g.pc = pc
  BY GotoFrame
<1>2. /\ DOMAIN g = Fields /\ g.op = cmd[c].op /\ g.id = cmd[c].id /\ g.own = cmd[c].own /\ g.mem = cmd[c].mem
      /\ g.arg = cmd[c].arg /\ g.todo = cmd[c].todo
  BY <1>1 DEF SameBut
<1>3. cmd[c].op \in {"run", "create", "clone", "stop", "restart", "rm", "prune", "reset"} /\ Busy(c)
  BY StopPlaces, AtWork
<1>4. Place(g)
  BY <1>1, <1>2, <1>3, StopPlaces DEF Place, StopPcs, RemovePcs
<1>5. StopInv(g)'
  <2>1. StopInv(cmd[c]) /\ live' = live /\ keepers' = keepers
    BY FrameFacts DEF Still
  <2>. QED
    BY <1>1, <1>2, <1>3, <2>1 DEF StopInv, OnlyAlive, NoneAlive, NoneAliveBut
<1>6. MakeInv(g)'
  <2>1. MakeInv(cmd[c])
    BY FrameFacts
  <2>2. cmd[c].op \in {"run", "create"} => cmd[c].pc \in RemovePcs
    BY StopPlaces DEF RemovePcs
  <2>3. g.op \in {"run", "create"} => g.arg \in RunInputs /\ g.arg.volumes \subseteq vols' \cup forced'
    BY <1>2, <2>1, <2>2 DEF MakeInv
  <2>4. g.pc \notin {"record", "bundle", "prepared"}
    BY <1>1
  <2>. QED
    BY <2>3, <2>4 DEF MakeInv
<1>7. RestartInv(g)'
  <2>1. RestartInv(cmd[c]) /\ rec' = rec
    BY FrameFacts DEF Still
  <2>. QED
    BY <1>1, <1>2, <2>1, StopPlaces DEF RestartInv, Exists, StopPcs, RestorePcs
<1>8. LaunchInv(g)' /\ ChangeInv(g)' /\ WaitInv(g)'
  BY <1>1, <1>2, <1>3 DEF LaunchInv, ChangeInv, WaitInv
<1>9. ClientInv(c)'
  BY <1>1, <1>2, <1>4, <1>5, <1>6, <1>7, <1>8, FrameFacts DEF ClientInv, Still
<1>10. Move(c, g)
  <2>1. \A i : Suppresses(c, i) => Suppresses(c, i)' /\ g.pc \notin RestorePcs
    BY <1>1, <1>2, StopPlaces DEF Suppresses, StopPcs, RestorePcs
  <2>2. \A k : ~Launcher(c, k)
    BY DEF Launcher
  <2>. QED
    BY <1>1, <1>3, <2>1, <2>2 DEF Move, Still
<1>. QED
  BY <1>1, <1>9, <1>10, MoveStep

LEMMA StopSignalStep ==
  ASSUME IInv, NEW c \in Clients, StopSignal(c) PROVE IInv'
<1>1. Still /\ forced' = forced /\ vols' = vols /\ astray' = astray /\ cmd[c].pc = "signal" /\ Goto(c, "grace")
  BY DEF StopSignal, Still, At
<1>. QED
  BY <1>1, StopGoto

LEMMA StopGraceStep ==
  ASSUME IInv, NEW c \in Clients, StopGrace(c) PROVE IInv'
<1>1. Still /\ forced' = forced /\ vols' = vols /\ astray' = astray /\ cmd[c].pc = "grace"
      /\ (Goto(c, "keeper") \/ Goto(c, "dying"))
  BY DEF StopGrace, Still, At
<1>2. cmd[c].op \in {"stop", "restart", "rm"}
  BY <1>1, StopPlaces
<1>. QED
  BY <1>1, <1>2, StopGoto

LEMMA RemoveKillStep ==
  ASSUME IInv, NEW c \in Clients, RemoveKill(c) PROVE IInv'
<1>1. Still /\ forced' = forced /\ vols' = vols /\ astray' = astray /\ cmd[c].pc = "kill" /\ Goto(c, "dying")
  BY DEF RemoveKill, Still, At, unchangedHistory
<1>. QED
  BY <1>1, StopGoto

LEMMA StopDyingStep ==
  ASSUME IInv, KeepAlone, NEW c \in Clients, StopDying(c) PROVE IInv'
<1>1. Still /\ forced' = forced /\ vols' = vols /\ astray' = astray /\ cmd[c].pc = "dying"
      /\ ~Alive(cmd[c].mem.pid)
  BY DEF StopDying, Still, At, unchangedHistory, unchangedProcs, KeepAlone
<1>2. CASE Goto(c, "keeper") /\ cmd[c].op \in {"stop", "restart", "rm"}
  BY <1>1, <1>2, StopGoto
<1>3. CASE Goto(c, "unlink") /\ cmd[c].op \notin {"stop", "restart"}
  <2>1. OnlyAlive(cmd[c].id, cmd[c].mem.pid) /\ NoneAliveBut(cmd[c].own, cmd[c].id)
    BY <1>1, <1>3, FrameFacts DEF StopInv
  <2>2. NoneAlive(cmd[c].own)
    BY <1>1, <2>1 DEF OnlyAlive, NoneAlive, NoneAliveBut, Alive
  <2>. QED
    BY <1>1, <1>3, <2>2, StopGoto
<1>. QED
  BY <1>2, <1>3 DEF StopDying

(* The container that a name given to stop_container leads to.             *)
LEMMA StopTarget ==
  ASSUME IInv, NEW c \in Clients, cmd[c].op = "rm", cmd[c].pc = "stop", resolve(cmd[c].at) # NoId
  PROVE  NoneAliveBut(cmd[c].own, resolve(cmd[c].at))
<1>1. \/ NoneAlive(cmd[c].own) \/ cmd[c].at = cmd[c].own
      \/ (cmd[c].at \notin DOMAIN rec /\ rec[cmd[c].own].name = cmd[c].at)
  BY FrameFacts DEF StopInv
<1>2. CASE NoneAlive(cmd[c].own)
  BY <1>2 DEF NoneAlive, NoneAliveBut
<1>3. CASE cmd[c].own \notin DOMAIN rec
  BY <1>3, LiveFacts DEF NoneAliveBut
<1>4. CASE cmd[c].own \in DOMAIN rec /\ ~NoneAlive(cmd[c].own)
  <2>1. resolve(cmd[c].at) = cmd[c].own
    <3>1. CASE cmd[c].at = cmd[c].own
      BY <1>4, <3>1 DEF resolve, resolve_container_id
    <3>2. CASE cmd[c].at \notin DOMAIN rec /\ rec[cmd[c].own].name = cmd[c].at
      BY <1>4, <3>2, ResolveUnique DEF IInv
    <3>. QED
      BY <1>1, <1>4, <3>1, <3>2
  <2>. QED
    BY <2>1 DEF NoneAliveBut
<1>. QED
  BY <1>2, <1>3, <1>4

LEMMA StopLoadStep ==
  ASSUME IInv, NEW c \in Clients, StopLoad(c) PROVE IInv'
<1>1. /\ cmd[c].pc = "stop"
      /\ UNCHANGED <<rec, born, live, keepers, crashes, wanted, lost, vols, forced>>
      /\ astray' = IF cmd[c].op = "restart" /\ resolve(cmd[c].at) # cmd[c].own /\ Exists(cmd[c].own)
                   THEN astray \cup {cmd[c].own} ELSE astray
  BY DEF StopLoad, At, unchangedProcs
<1>2. cmd[c].op \in {"stop", "restart", "rm"} /\ Still
  BY <1>1, StopPlaces DEF Still
<1>3. Busy(c) /\ \A k \in DOMAIN keepers : keepers[k].pc \notin Starting
  BY <1>1, <1>2, CalmAt
<1>4. PICK i \in {resolve(cmd[c].at)} : i = resolve(cmd[c].at) /\ i \in 0..born /\ (i # NoId => i \in DOMAIN rec)
  BY ResolveFacts DEF IInv
<1>5. DOMAIN cmd = Clients /\ DOMAIN cmd[c] = Fields
  BY FrameFacts
<1>6. CASE i = NoId /\ cmd[c].op = "restart"
  <2>1. PICK g \in {[cmd[c] EXCEPT !.pc = "restore", !.failed = TRUE]} : TRUE
    OBVIOUS
  <2>2. /\ DOMAIN g = Fields /\ g.op = "restart" /\ g.id = cmd[c].id /\ g.own = cmd[c].own /\ g.mem = cmd[c].mem
        /\ g.arg = cmd[c].arg /\ g.todo = cmd[c].todo /\ g.pc = "restore"
    BY <1>5, <1>6, <2>1 DEF Fields
  <2>3. cmd' = [cmd EXCEPT ![c] = g] /\ cmd'[c] = g
    BY <1>4, <1>5, <1>6, <2>1 DEF StopLoad
  <2>4. Exists(cmd[c].own) => cmd[c].own \in astray'
    BY <1>1, <1>4, <1>6 DEF IInv, TypeInv, Exists, NoId
  <2>5. RestartInv(g)'
    <3>1. cmd[c].arg.had \in BOOLEAN
      BY <1>1, <1>6, FrameFacts DEF RestartInv, StopPcs
    <3>2. g.own \in astray' \/ ~Exists(g.own)'
      BY <1>1, <2>2, <2>4 DEF Exists
    <3>. QED
      BY <2>2, <3>1, <3>2 DEF RestartInv
  <2>6. MakeInv(g)' /\ LaunchInv(g)' /\ StopInv(g)' /\ ChangeInv(g)' /\ WaitInv(g)'
    BY <2>2 DEF MakeInv, LaunchInv, StopInv, ChangeInv, WaitInv
  <2>7. ClientInv(c)'
    BY <1>1, <2>2, <2>3, <2>5, <2>6, FrameFacts DEF ClientInv, Place, RestorePcs
  <2>8. Move(c, g)
    <3>1. \A j \in (wanted \cap DOMAIN rec) \ (lost \cup astray') : ~Suppresses(c, j)
      BY <2>4 DEF Suppresses, Exists
    <3>. QED
      BY <1>2, <1>3, <2>3, <3>1 DEF Move, Still
  <2>. QED
    BY <2>3, <2>7, <2>8, MoveStep
<1>7. CASE i = NoId /\ cmd[c].op # "restart"
  <2>1. Proceed(c, IF cmd[c].op = "rm" THEN "remove" ELSE "stop")
    BY <1>4, <1>7 DEF StopLoad
  <2>2. Plain(c) /\ NextPlace(cmd[c].op, IF cmd[c].op = "rm" THEN "remove" ELSE "stop")
    BY <1>1, <1>2, <1>7 DEF Plain, NextPlace
  <2>. QED
    BY <1>2, <1>3, <2>1, <2>2, ProceedStep
<1>8. CASE i # NoId
  <2>1. PICK pc \in {IF effective_status(rec[i]) = "stopped" \/ rec[i].pid = NoPid THEN "keeper" ELSE "signal"} :
          pc \in {"keeper", "signal"}
    OBVIOUS
  <2>2. PICK g \in {[cmd[c] EXCEPT !.id = i, !.mem = rec[i], !.pc = pc]} : TRUE
    OBVIOUS
  <2>3. /\ DOMAIN g = Fields /\ g.op = cmd[c].op /\ g.id = i /\ g.own = cmd[c].own /\ g.mem = rec[i]
        /\ g.arg = cmd[c].arg /\ g.todo = cmd[c].todo /\ g.pc = pc
    BY <1>5, <2>2 DEF Fields
  <2>4. cmd' = [cmd EXCEPT ![c] = g] /\ cmd'[c] = g
    <3>1. cmd' = [cmd EXCEPT ![c].id = i, ![c].mem = rec[i], ![c].pc = pc]
      BY <1>4, <1>8, <2>1 DEF StopLoad
    <3>. QED
      BY <1>5, <2>2, <3>1
  <2>5. i \in DOMAIN rec /\ OnlyAlive(i, rec[i].pid)
    BY <1>3, <1>4, <1>8, AliveFacts DEF IInv
  <2>6. cmd[c].op = "rm" => NoneAliveBut(cmd[c].own, i)
    BY <1>1, <1>4, <1>8, StopTarget
  <2>7. StopInv(g)'
    BY <1>1, <1>2, <2>1, <2>3, <2>5, <2>6 DEF StopInv, OnlyAlive, NoneAliveBut
  <2>8. RestartInv(g)'
    <3>1. cmd[c].op = "restart" => i = cmd[c].own \/ cmd[c].own \in astray' \/ ~Exists(cmd[c].own)
      BY <1>1, <1>4
    <3>. QED
      BY <1>1, <2>1, <2>3, <3>1, FrameFacts DEF RestartInv, Exists, StopPcs, RestorePcs
  <2>9. MakeInv(g)' /\ LaunchInv(g)' /\ ChangeInv(g)' /\ WaitInv(g)'
    BY <1>2, <2>1, <2>3 DEF MakeInv, LaunchInv, ChangeInv, WaitInv
  <2>10. ClientInv(c)'
    BY <1>1, <1>2, <1>4, <2>1, <2>3, <2>4, <2>7, <2>8, <2>9, FrameFacts DEF ClientInv, Place, StopPcs
  <2>11. Move(c, g)
    <3>1. \A j : Suppresses(c, j) => Suppresses(c, j)' /\ g.pc \notin RestorePcs
      BY <2>1, <2>3, <2>4 DEF Suppresses, StopPcs, RestorePcs
    <3>. QED
      BY <1>2, <1>3, <2>4, <3>1 DEF Move, Still
  <2>. QED
    BY <2>4, <2>10, <2>11, MoveStep
<1>. QED
  BY <1>6, <1>7, <1>8

(* Once the wait for a keeper is over, no keeper waits for the container.  *)
LEMMA Awaited ==
  ASSUME IInv, KeepAlone, NEW i, \A k \in DOMAIN keepers : keepers[k].pc \notin Starting,
         \/ ~(Exists(i) /\ rec[i].status \in {"running", "creating"}) \/ ~Prompt \/ KeptBy(i) = {}
  PROVE  KeptBy(i) = {} \/ ~Exists(i)
<1>. SUFFICES ASSUME Exists(i), NEW k \in KeptBy(i) PROVE KeptBy(i) = {}
  OBVIOUS
<1>1. rec[i].status = "running"
  BY RunningFacts DEF IInv, Exists
<1>. QED
  BY <1>1 DEF KeepAlone

(* wait: the exit code is that of the run whose end it saw.                *)
LEMMA AwaitedByWait ==
  ASSUME IInv, KeepAlone, NEW c \in Clients, cmd[c].op = "wait", AwaitKeeper(c)
  PROVE  IInv'
<1>1. Frozen /\ cmd[c].pc = "keeper" /\ Goto(c, "answer")
  BY DEF AwaitKeeper, At, AfterWait, Frozen, unchangedProcs, unchangedHistory
<1>2. PICK g : cmd' = [cmd EXCEPT ![c] = g] /\ cmd'[c] = g /\ SameBut(cmd[c], g) /\ g.pc = "answer"
  BY <1>1, GotoFrame
<1>3. /\ DOMAIN g = Fields /\ g.op = "wait" /\ g.id = cmd[c].id /\ g.own = cmd[c].own /\ g.mem = cmd[c].mem
  BY <1>2 DEF SameBut
<1>4. WaitInv(cmd[c])
  BY FrameFacts
<1>5. ASSUME crashes = 0, Exists(cmd[c].id), cmd[c].id \notin lost
      PROVE  cmd[c].mem.pid <= rec[cmd[c].id].exit
  <2>1. PICK i \in DOMAIN rec : i = cmd[c].id
    BY <1>5 DEF Exists
  <2>2. rec[i] \in Records /\ cmd[c].mem \in Records /\ cmd[c].mem.pid <= rec[i].pid
    BY <1>1, <1>4, <1>5, <2>1 DEF WaitInv, IInv, TypeInv
  <2>3. rec[i].pid \notin KeptBy(i)
    <3>. SUFFICES ASSUME rec[i].pid \in KeptBy(i) PROVE FALSE
      OBVIOUS
    <3>1. PICK k \in DOMAIN keepers : k = rec[i].pid /\ keepers[k].id = i /\ KeeperRuns(k)
      BY DEF KeptBy
    <3>2. KeptBy(i) # {} /\ rec[i].status \notin {"running", "creating"}
      BY <2>1 DEF AwaitKeeper, KeepAlone, Exists
    <3>3. keepers[k].pc \in {"forked", "spawned", "broken", "reload", "write", "remove"} /\ KeeperInv(k)
      BY <3>1, KeeperFacts DEF IInv
    <3>. QED
      BY <3>1, <3>2, <3>3 DEF KeeperInv, Follows, Exists, Starting
  <2>4. rec[i].exit >= rec[i].pid
    BY <1>5, <2>1, <2>3 DEF IInv, ExitInv
  <2>. QED
    BY <2>1, <2>2, <2>4 DEF Records
<1>6. WaitInv(g)'
  <2>1. UNCHANGED <<rec, crashes, lost>>
    BY <1>1 DEF Frozen
  <2>. QED
    BY <1>1, <1>2, <1>3, <1>4, <1>5, <2>1 DEF WaitInv, Exists
<1>7. MakeInv(g)' /\ LaunchInv(g)' /\ StopInv(g)' /\ ChangeInv(g)' /\ RestartInv(g)'
  BY <1>2, <1>3 DEF MakeInv, LaunchInv, StopInv, ChangeInv, RestartInv
<1>8. ClientInv(c)'
  BY <1>1, <1>2, <1>3, <1>6, <1>7, FrameFacts DEF ClientInv, Place, Frozen
<1>9. ~Busy(c)' /\ Plain(c)
  BY <1>1, <1>2, <1>3 DEF Busy, Plain
<1>. QED
  BY <1>1, <1>2, <1>8, <1>9, PlainStep DEF Frozen, Plain

LEMMA AwaitKeeperStep ==
  ASSUME IInv, KeepAlone, NEW c \in Clients, AwaitKeeper(c) PROVE IInv'
<1>1. Frozen /\ cmd[c].pc = "keeper" /\ Goto(c, AfterWait(cmd[c].op))
  BY DEF AwaitKeeper, At, Frozen, unchangedProcs, unchangedHistory
<1>2. Still
  BY <1>1 DEF Still, Frozen
<1>3. CASE cmd[c].op = "wait"
  BY <1>3, AwaitedByWait
<1>4. CASE cmd[c].op # "wait"
  <2>1. cmd[c].op \in {"stop", "restart", "rm", "start"}
    BY <1>1, <1>4, StopPlaces
  <2>2. Busy(c) /\ \A k \in DOMAIN keepers : keepers[k].pc \notin Starting
    BY <1>1, <2>1, CalmAt
  <2>3. KeptBy(cmd[c].id) = {} \/ ~Exists(cmd[c].id)
    BY <2>2, Awaited DEF AwaitKeeper
  <2>4. PICK g : /\ cmd' = [cmd EXCEPT ![c] = g] /\ cmd'[c] = g /\ SameBut(cmd[c], g)
                 /\ g.pc = AfterWait(cmd[c].op)
    BY <1>1, GotoFrame
  <2>5. /\ DOMAIN g = Fields /\ g.op = cmd[c].op /\ g.id = cmd[c].id /\ g.own = cmd[c].own /\ g.mem = cmd[c].mem
        /\ g.arg = cmd[c].arg /\ g.todo = cmd[c].todo
    BY <2>4 DEF SameBut
  <2>6. CASE cmd[c].op = "stop"
    <3>1. Goto(c, "stopped") /\ Plain(c)
      BY <1>1, <2>6 DEF AfterWait, Plain
    <3>2. \A h : SameBut(cmd[c], h) /\ h.pc = "stopped" => Place(h) /\ FreePlace(h)
      BY <2>6 DEF SameBut, Place, FreePlace, FreePcs
    <3>. QED
      BY <1>2, <2>2, <3>1, <3>2, FreeGoto
  <2>7. CASE cmd[c].op = "restart"
    <3>1. g.pc = "restore"
      BY <2>4, <2>7 DEF AfterWait
    <3>2. KeptBy(g.own) = {} \/ g.own \in astray \/ ~Exists(g.own)
      BY <1>1, <2>3, <2>5, <2>7, FrameFacts DEF RestartInv
    <3>3. RestartInv(g)'
      <4>1. (KeptBy(g.own) = {} \/ g.own \in astray \/ ~Exists(g.own))'
        BY <1>1, <2>4, <3>2 DEF Frozen, KeptBy, KeeperRuns, Exists
      <4>. QED
        BY <1>1, <2>5, <2>7, <3>1, <4>1, FrameFacts DEF RestartInv, StopPcs
    <3>4. MakeInv(g)' /\ LaunchInv(g)' /\ StopInv(g)' /\ ChangeInv(g)' /\ WaitInv(g)'
      BY <2>5, <2>7, <3>1 DEF MakeInv, LaunchInv, StopInv, ChangeInv, WaitInv
    <3>5. ClientInv(c)'
      BY <1>1, <2>4, <2>5, <2>7, <3>1, <3>3, <3>4, FrameFacts DEF ClientInv, Place, Frozen, RestorePcs
    <3>6. Move(c, g)
      <4>1. \A j : Suppresses(c, j) => Suppresses(c, j)' /\ j = g.own
        BY <2>4, <2>5, <3>1 DEF Suppresses, RestorePcs
      <4>2. \A j \in (wanted \cap DOMAIN rec) \ (lost \cup astray') : Suppresses(c, j) => KeptBy(j) = {}
        BY <1>1, <3>2, <4>1 DEF Frozen, Exists
      <4>3. \A k : ~Launcher(c, k)
        BY <1>1 DEF Launcher
      <4>. QED
        BY <1>2, <2>2, <2>4, <4>1, <4>2, <4>3 DEF Move, Still
    <3>. QED
      BY <2>4, <3>5, <3>6, MoveStep
  <2>8. CASE cmd[c].op = "rm"
    <3>1. g.pc = "unlink" /\ Plain(c)
      BY <1>1, <2>4, <2>8 DEF AfterWait, Plain
    <3>2. NoneAlive(g.own)
      <4>1. NoneAliveBut(cmd[c].own, cmd[c].id)
        BY <1>1, <2>8, FrameFacts DEF StopInv
      <4>. QED
        BY <2>3, <2>5, <4>1, LiveFacts DEF NoneAlive, NoneAliveBut, Exists
    <3>3. StopInv(g)'
      <4>1. NoneAlive(g.own)'
        BY <1>1, <2>4, <3>2 DEF Frozen, NoneAlive
      <4>. QED
        BY <3>1, <4>1 DEF StopInv
    <3>4. MakeInv(g)' /\ LaunchInv(g)' /\ RestartInv(g)' /\ ChangeInv(g)' /\ WaitInv(g)'
      BY <2>5, <2>8, <3>1 DEF MakeInv, LaunchInv, RestartInv, ChangeInv, WaitInv
    <3>5. ClientInv(c)'
      BY <1>1, <2>4, <2>5, <2>8, <3>1, <3>3, <3>4, FrameFacts DEF ClientInv, Place, Frozen, RemovePcs
    <3>. QED
      BY <1>2, <2>2, <2>4, <3>1, <3>5, PlainStep DEF Still, Plain
  <2>9. CASE cmd[c].op = "start"
    <3>1. g.pc = "reload" /\ Plain(c)
      BY <1>1, <2>4, <2>9 DEF AfterWait, Plain
    <3>2. LaunchInv(g)'
      <4>1. (KeptBy(g.id) = {} \/ ~Exists(g.id))'
        BY <1>1, <2>3, <2>4, <2>5 DEF Frozen, KeptBy, KeeperRuns, Exists
      <4>. QED
        BY <3>1, <4>1 DEF LaunchInv
    <3>3. MakeInv(g)' /\ StopInv(g)' /\ RestartInv(g)' /\ ChangeInv(g)' /\ WaitInv(g)'
      BY <2>5, <2>9, <3>1 DEF MakeInv, StopInv, RestartInv, ChangeInv, WaitInv
    <3>4. ClientInv(c)'
      BY <1>1, <2>4, <2>5, <2>9, <3>1, <3>2, <3>3, FrameFacts DEF ClientInv, Place, Frozen, LaunchPcs
    <3>. QED
      BY <1>2, <2>2, <2>4, <3>1, <3>4, PlainStep DEF Still, Plain
  <2>. QED
    BY <2>1, <2>6, <2>7, <2>8, <2>9
<1>. QED
  BY <1>3, <1>4

LEMMA StoppedStep ==
  ASSUME IInv, NEW c \in Clients, Stopped(c) PROVE IInv'
<1>1. Still /\ cmd[c].pc = "stopped" /\ Proceed(c, "stop")
  BY DEF Stopped, At, Still, unchangedProcs, unchangedHistory
<1>2. cmd[c].op = "stop"
  BY <1>1, FrameFacts DEF Place, StopPcs, RestorePcs, LaunchPcs, RemovePcs
<1>3. Busy(c) /\ Plain(c) /\ NextPlace(cmd[c].op, "stop")
  BY <1>1, <1>2, AtWork DEF Plain, NextPlace
<1>. QED
  BY <1>1, <1>3, ProceedStep

-----------------------------------------------------------------------------
(* remove_container.                                                       *)
LEMMA RemoveLoadStep ==
  ASSUME IInv, NEW c \in Clients, RemoveLoad(c) PROVE IInv'
<1>1. cmd[c].pc = "remove" /\ Frozen /\ Still
  BY DEF RemoveLoad, At, Frozen, Still, unchangedProcs, unchangedHistory
<1>2. cmd[c].op \in {"run", "create", "clone", "rm", "prune", "reset"} /\ Plain(c)
  BY <1>1, StopPlaces DEF Plain
<1>3. Busy(c) /\ \A k \in DOMAIN keepers : keepers[k].pc \notin Starting
  BY <1>1, <1>2, CalmAt
<1>4. CASE Return(c)
  BY <1>1, <1>2, <1>4, ReturnStep
<1>5. CASE cmd[c].op = "rm" /\ Proceed(c, "remove")
  <2>1. NextPlace(cmd[c].op, "remove")
    BY <1>5 DEF NextPlace
  <2>. QED
    BY <1>1, <1>2, <1>3, <1>5, <2>1, ProceedStep
<1>6. CASE ~Return(c) /\ ~(cmd[c].op = "rm" /\ Proceed(c, "remove"))
  <2>1. PICK i \in {resolve(cmd[c].at)} : i = resolve(cmd[c].at)
    OBVIOUS
  <2>2. i # NoId /\ cmd' = [cmd EXCEPT ![c].id = i, ![c].own = i, ![c].mem = rec[i],
                ![c].pc = CASE effective_status(rec[i]) = "stopped" -> "unlink"
                            [] effective_status(rec[i]) # "stopped" /\ cmd[c].op = "rm" /\ cmd[c].arg.time -> "stop"
                            [] OTHER -> IF rec[i].pid = NoPid THEN "unlink" ELSE "kill"]
    BY <1>6, <2>1 DEF RemoveLoad
  <2>3. i \in DOMAIN rec /\ i \in 0..born /\ (cmd[c].at = i \/ (cmd[c].at \notin DOMAIN rec /\ rec[i].name = cmd[c].at))
    BY <2>1, <2>2, ResolveFacts DEF IInv
  <2>4. PICK pc \in {CASE effective_status(rec[i]) = "stopped" -> "unlink"
                       [] effective_status(rec[i]) # "stopped" /\ cmd[c].op = "rm" /\ cmd[c].arg.time -> "stop"
                       [] OTHER -> IF rec[i].pid = NoPid THEN "unlink" ELSE "kill"} : TRUE
    OBVIOUS
  <2>5. /\ pc \in {"unlink", "stop", "kill"} /\ (pc = "stop" => cmd[c].op = "rm")
        /\ pc = "unlink" => effective_status(rec[i]) = "stopped" \/ rec[i].pid = NoPid
    BY <2>4
  <2>6. PICK g \in {[cmd[c] EXCEPT !.id = i, !.own = i, !.mem = rec[i], !.pc = pc]} : TRUE
    OBVIOUS
  <2>7. /\ DOMAIN g = Fields /\ g.op = cmd[c].op /\ g.id = i /\ g.own = i /\ g.mem = rec[i]
        /\ g.arg = cmd[c].arg /\ g.todo = cmd[c].todo /\ g.pc = pc /\ g.at = cmd[c].at
    BY <2>6, FrameFacts DEF Fields
  <2>8. cmd' = [cmd EXCEPT ![c] = g] /\ cmd'[c] = g
    BY <2>2, <2>4, <2>6, FrameFacts
  <2>9. OnlyAlive(i, rec[i].pid) /\ (pc = "unlink" => NoneAlive(i))
    BY <1>3, <2>3, <2>5, AliveFacts DEF IInv
  <2>10. StopInv(g)'
    BY <1>1, <2>3, <2>5, <2>7, <2>9 DEF StopInv, OnlyAlive, NoneAlive, NoneAliveBut, Frozen
  <2>11. MakeInv(g)'
    BY <1>1, <2>5, <2>7, FrameFacts DEF MakeInv, Frozen, RemovePcs
  <2>12. LaunchInv(g)' /\ RestartInv(g)' /\ ChangeInv(g)' /\ WaitInv(g)'
    BY <1>2, <2>5, <2>7 DEF LaunchInv, RestartInv, ChangeInv, WaitInv
  <2>13. ClientInv(c)'
    BY <1>1, <1>2, <2>3, <2>5, <2>7, <2>8, <2>10, <2>11, <2>12, FrameFacts
       DEF ClientInv, Place, Frozen, RemovePcs, StopPcs
  <2>. QED
    BY <1>1, <1>2, <1>3, <2>8, <2>13, PlainStep DEF Still, Plain
<1>. QED
  BY <1>4, <1>5, <1>6

LEMMA RemoveUnlinkStep ==
  ASSUME IInv, NEW c \in Clients, RemoveUnlink(c) PROVE IInv'
<1>1. /\ cmd[c].pc = "unlink" /\ Unlink(cmd[c].own)
      /\ UNCHANGED <<born, live, keepers, vols, crashes, wanted, lost, astray, forced>>
  BY DEF RemoveUnlink, At, unchangedProcs, unchangedHistory
<1>2. cmd[c].op \in {"run", "create", "clone", "rm", "prune", "reset"} /\ Plain(c) /\ NoneAlive(cmd[c].own)
  BY <1>1, StopPlaces, FrameFacts DEF Plain, StopInv
<1>3. Busy(c)
  BY <1>1, <1>2, AtWork
<1>4. \/ Return(c)
      \/ \E pc \in {"record", "cloned", "removed"} :
            /\ Goto(c, pc)
            /\ pc = "record" => cmd[c].op \in {"run", "create"}
            /\ pc = "cloned" => cmd[c].op = "clone"
            /\ pc = "removed" => cmd[c].op \in {"rm", "prune", "reset"}
  <2>1. CASE cmd[c].op # "rm" /\ ~Exists(cmd[c].own)
    BY <2>1 DEF RemoveUnlink
  <2>2. CASE cmd[c].op \in {"run", "create"} /\ Exists(cmd[c].own)
    BY <2>2 DEF RemoveUnlink
  <2>3. CASE cmd[c].op = "clone" /\ Exists(cmd[c].own)
    BY <2>3 DEF RemoveUnlink
  <2>4. CASE cmd[c].op = "rm" \/ (cmd[c].op \in {"prune", "reset"} /\ Exists(cmd[c].own))
    BY <2>4 DEF RemoveUnlink
  <2>. QED
    BY <1>2, <2>1, <2>2, <2>3, <2>4
<1>5. CASE Return(c)
  <2>1. cmd' = [cmd EXCEPT ![c] = NoCmd] /\ cmd'[c] = NoCmd
    BY <1>5, FrameFacts DEF Return
  <2>2. TypeInv'
    BY <1>1, <2>1, FrameFacts DEF TypeInv, Unlink
  <2>3. ClientInv(c)'
    BY <2>1, <2>2, IdleFrame
  <2>. QED
    BY <1>1, <1>2, <1>3, <2>1, <2>3, UnlinkStep DEF Plain
<1>6. ASSUME NEW pc \in {"record", "cloned", "removed"}, Goto(c, pc),
             pc = "record" => cmd[c].op \in {"run", "create"}, pc = "cloned" => cmd[c].op = "clone",
             pc = "removed" => cmd[c].op \in {"rm", "prune", "reset"}
      PROVE  IInv'
  <2>1. PICK g : cmd' = [cmd EXCEPT ![c] = g] /\ cmd'[c] = g /\ SameBut(cmd[c], g) /\ g.pc = pc
    BY <1>6, GotoFrame
  <2>2. /\ DOMAIN g = Fields /\ g.op = cmd[c].op /\ g.id = cmd[c].id /\ g.own = cmd[c].own
        /\ g.arg = cmd[c].arg /\ g.todo = cmd[c].todo
    BY <2>1 DEF SameBut
  <2>3. TypeInv'
    BY <1>1, <2>1, FrameFacts DEF TypeInv, Unlink
  <2>4. Place(g)
    BY <1>6, <2>1, <2>2 DEF Place, RemovePcs
  <2>5. CASE pc # "record"
    <3>1. FreePlace(g)
      BY <2>1, <2>5 DEF FreePlace, FreePcs
    <3>2. ClientInv(c)'
      BY <1>1, <2>1, <2>2, <2>3, <2>4, <3>1, FrameFacts, FreeFrame
    <3>. QED
      BY <1>1, <1>2, <1>3, <2>1, <3>2, UnlinkStep DEF Plain
  <2>6. CASE pc = "record"
    <3>1. MakeInv(g)'
      BY <1>1, <1>6, <2>1, <2>2, <2>6, FrameFacts DEF MakeInv, RemovePcs
    <3>2. LaunchInv(g)'
      BY <2>1, <2>6 DEF LaunchInv
    <3>3. ClientInv(c)'
      BY <1>1, <1>6, <2>1, <2>2, <2>3, <2>4, <2>6, <3>1, <3>2, FrameFacts, MakeFrame
    <3>. QED
      BY <1>1, <1>2, <1>3, <2>1, <3>3, UnlinkStep DEF Plain
  <2>. QED
    BY <2>5, <2>6
<1>. QED
  BY <1>4, <1>5, <1>6

LEMMA RemovedStep ==
  ASSUME IInv, NEW c \in Clients, Removed(c) PROVE IInv'
<1>1. Still /\ cmd[c].pc = "removed"
  BY DEF Removed, At, Still, unchangedProcs
<1>2. cmd[c].op \in {"rm", "prune", "reset"} /\ Plain(c)
  BY <1>1, FrameFacts DEF Place, StopPcs, RestorePcs, LaunchPcs, RemovePcs, Plain
<1>3. Busy(c) /\ NextPlace(cmd[c].op, "remove")
  BY <1>1, <1>2, AtWork DEF NextPlace
<1>4. Return(c) \/ Proceed(c, "remove")
  BY DEF Removed
<1>. QED
  BY <1>1, <1>2, <1>3, <1>4, ReturnStep, ProceedStep

-----------------------------------------------------------------------------
(* start and restart.                                                      *)
LEMMA LaunchFrame ==
  ASSUME TypeInv', NEW c \in Clients, NEW g, cmd'[c] = g, DOMAIN g = Fields, g.id \in 0..born', g.own \in 0..born',
         g.op \in {"start", "restart"}, g.pc \in {"reload", "creating", "launch"},
         g.op = "start" => g.todo = <<>>, LaunchInv(g)'
  PROVE  ClientInv(c)'
<1>1. MakeInv(g)' /\ StopInv(g)' /\ ChangeInv(g)' /\ RestartInv(g)' /\ WaitInv(g)'
  BY DEF MakeInv, StopInv, ChangeInv, RestartInv, WaitInv, StopPcs, RestorePcs
<1>. QED
  BY <1>1 DEF ClientInv, Place, LaunchPcs

LEMMA LaunchPlaces ==
  ASSUME IInv, NEW c \in Clients
  PROVE  /\ cmd[c].pc \in {"reload", "creating"} => cmd[c].op \in {"start", "restart"}
         /\ cmd[c].pc = "start" => cmd[c].op \in {"clone", "start", "restart"}
         /\ cmd[c].pc \in {"settle", "restarted", "restart", "suppress", "restore", "putback"} => cmd[c].op = "restart"
BY FrameFacts DEF Place, StopPcs, LaunchPcs, RemovePcs

(* What start and restart know of the container they launch.               *)
LEMMA LaunchNext ==
  ASSUME IInv, NEW c \in Clients, cmd[c].pc \in {"start", "settle", "reload", "creating", "restarted", "restart", "suppress"}
  PROVE  /\ Busy(c) /\ Plain(c) /\ (cmd[c].todo = <<>> \/ NextPlace(cmd[c].op, "restart"))
         /\ \A k \in DOMAIN keepers : keepers[k].pc \notin Starting
<1>1. cmd[c].op \in {"clone", "start", "restart"}
  BY LaunchPlaces
<1>2. Busy(c) /\ \A k \in DOMAIN keepers : keepers[k].pc \notin Starting
  BY <1>1, CalmAt
<1>3. Plain(c)
  BY DEF Plain, StopPcs, RestorePcs
<1>4. cmd[c].todo = <<>> \/ NextPlace(cmd[c].op, "restart")
  BY <1>1, FrameFacts DEF NextPlace
<1>. QED
  BY <1>2, <1>3, <1>4

LEMMA StartCheckStep ==
  ASSUME IInv, NEW c \in Clients, StartCheck(c) PROVE IInv'
<1>1. Frozen /\ Still /\ cmd[c].pc = "start"
  BY DEF StartCheck, At, Frozen, Still, unchangedProcs, unchangedHistory
<1>2. Busy(c) /\ Plain(c) /\ (cmd[c].todo = <<>> \/ NextPlace(cmd[c].op, "restart"))
      /\ cmd[c].op \in {"clone", "start", "restart"}
  BY <1>1, LaunchNext, LaunchPlaces
<1>3. CASE Proceed(c, "restart")
  BY <1>1, <1>2, <1>3, ProceedStep
<1>4. CASE ~Proceed(c, "restart")
  <2>1. PICK i \in {resolve(cmd[c].at)} : i = resolve(cmd[c].at) /\ i \in 0..born
    BY ResolveFacts DEF IInv
  <2>2. PICK op \in {"start", "restart"} : op = IF cmd[c].op = "restart" THEN "restart" ELSE "start"
    OBVIOUS
  <2>3. PICK pc \in {"settle", "keeper"} : pc = IF cmd[c].op = "restart" THEN "settle" ELSE "keeper"
    OBVIOUS
  <2>4. PICK arg \in {IF cmd[c].op = "clone" THEN [attach |-> FALSE] ELSE cmd[c].arg} : TRUE
    OBVIOUS
  <2>5. PICK g \in {[cmd[c] EXCEPT !.id = i, !.op = op, !.arg = arg, !.pc = pc]} : TRUE
    OBVIOUS
  <2>6. DOMAIN cmd = Clients /\ DOMAIN cmd[c] = Fields
    BY FrameFacts
  <2>7. cmd' = [cmd EXCEPT ![c].id = i, ![c].op = op, ![c].arg = arg, ![c].pc = pc]
    BY <1>4, <2>1, <2>2, <2>3, <2>4, <2>6 DEF StartCheck, Fields
  <2>8. cmd' = [cmd EXCEPT ![c] = g] /\ cmd'[c] = g
    BY <2>5, <2>6, <2>7
  <2>9. DOMAIN g = Fields /\ g.id = i /\ g.own = cmd[c].own /\ g.op = op /\ g.pc = pc /\ g.todo = cmd[c].todo
    BY <2>5, <2>6 DEF Fields
  <2>10. Place(g) /\ FreePlace(g) /\ (op = "start" => g.todo = <<>>)
    <3>1. (op = "start" /\ pc = "keeper") \/ (op = "restart" /\ pc = "settle")
      BY <2>2, <2>3
    <3>2. op = "start" => g.todo = <<>>
      BY <1>2, <2>2, <2>9, FrameFacts
    <3>. QED
      BY <2>9, <3>1, <3>2 DEF Place, FreePlace, FreePcs, LaunchPcs
  <2>11. TypeInv'
    BY <1>1, <2>8, FrozenType DEF IInv
  <2>12. ClientInv(c)'
    BY <1>1, <2>1, <2>2, <2>8, <2>9, <2>10, <2>11, FrameFacts, FreeFrame DEF Frozen
  <2>. QED
    BY <1>1, <1>2, <2>8, <2>12, PlainStep DEF Still, Plain
<1>. QED
  BY <1>3, <1>4

LEMMA RestartSettleStep ==
  ASSUME IInv, KeepAlone, NEW c \in Clients, RestartSettle(c) PROVE IInv'
<1>1. Frozen /\ Still /\ cmd[c].pc = "settle" /\ Goto(c, "reload")
  BY DEF RestartSettle, At, Frozen, Still, unchangedProcs, unchangedHistory
<1>2. Busy(c) /\ Plain(c) /\ (\A k \in DOMAIN keepers : keepers[k].pc \notin Starting) /\ cmd[c].op = "restart"
  BY <1>1, LaunchNext, LaunchPlaces
<1>3. KeptBy(cmd[c].id) = {} \/ ~Exists(cmd[c].id)
  BY <1>2, Awaited DEF RestartSettle
<1>4. PICK g : cmd' = [cmd EXCEPT ![c] = g] /\ cmd'[c] = g /\ SameBut(cmd[c], g) /\ g.pc = "reload"
  BY <1>1, GotoFrame
<1>5. DOMAIN g = Fields /\ g.op = "restart" /\ g.id = cmd[c].id /\ g.own = cmd[c].own
  BY <1>2, <1>4 DEF SameBut
<1>6. LaunchInv(g)'
  <2>1. (KeptBy(g.id) = {} \/ ~Exists(g.id))'
    BY <1>1, <1>3, <1>4, <1>5 DEF Frozen, KeptBy, KeeperRuns, Exists
  <2>. QED
    BY <1>4, <2>1 DEF LaunchInv
<1>7. TypeInv'
  BY <1>1, <1>4, FrozenType DEF IInv
<1>8. ClientInv(c)'
  BY <1>1, <1>4, <1>5, <1>6, <1>7, FrameFacts, LaunchFrame DEF Frozen
<1>. QED
  BY <1>1, <1>2, <1>8, GotoStep

LEMMA StartReloadStep ==
  ASSUME IInv, NEW c \in Clients, StartReload(c) PROVE IInv'
<1>1. Frozen /\ Still /\ cmd[c].pc = "reload"
  BY DEF StartReload, At, Frozen, Still, unchangedProcs, unchangedHistory
<1>2. Busy(c) /\ Plain(c) /\ (cmd[c].todo = <<>> \/ NextPlace(cmd[c].op, "restart"))
      /\ cmd[c].op \in {"start", "restart"}
  BY <1>1, LaunchNext, LaunchPlaces
<1>3. CASE Proceed(c, "restart")
  BY <1>1, <1>2, <1>3, ProceedStep
<1>4. CASE ~Proceed(c, "restart")
  <2>1. PICK i \in {cmd[c].id} : i = cmd[c].id
    OBVIOUS
  <2>2. /\ Exists(i)
        /\ cmd' = [cmd EXCEPT ![c].mem = [rec[i] EXCEPT !.status = "creating"], ![c].pc = "creating"]
    BY <1>4, <2>1 DEF StartReload
  <2>3. PICK r \in {[rec[i] EXCEPT !.status = "creating"]} : r = [rec[i] EXCEPT !.status = "creating"]
    OBVIOUS
  <2>4. PICK g \in {[cmd[c] EXCEPT !.mem = r, !.pc = "creating"]} : TRUE
    OBVIOUS
  <2>5. /\ DOMAIN g = Fields /\ g.pc = "creating" /\ g.id = i /\ g.mem = r /\ g.own = cmd[c].own
        /\ g.op = cmd[c].op /\ g.todo = cmd[c].todo
    BY <2>1, <2>4, FrameFacts DEF Fields
  <2>6. cmd' = [cmd EXCEPT ![c] = g] /\ cmd'[c] = g
    BY <2>2, <2>3, <2>4, FrameFacts
  <2>7. KeptBy(i) = {}
    BY <1>1, <2>1, <2>2, FrameFacts DEF LaunchInv
  <2>8. LaunchInv(g)'
    <3>1. KeptBy(i)' = {} /\ Exists(i)' /\ rec' = rec
      BY <1>1, <2>2, <2>7 DEF Frozen, KeptBy, KeeperRuns, Exists
    <3>. QED
      BY <2>3, <2>5, <3>1 DEF LaunchInv
  <2>9. TypeInv'
    BY <1>1, <2>6, FrozenType DEF IInv
  <2>10. ClientInv(c)'
    BY <1>1, <1>2, <2>1, <2>5, <2>6, <2>8, <2>9, FrameFacts, LaunchFrame DEF Frozen
  <2>. QED
    BY <1>1, <1>2, <2>6, <2>10, PlainStep DEF Still, Plain
<1>. QED
  BY <1>3, <1>4

LEMMA StartWriteStep ==
  ASSUME IInv, NEW c \in Clients, StartWrite(c) PROVE IInv'
<1>1. cmd[c].pc = "creating" /\ UNCHANGED <<born, live, keepers, vols, crashes, wanted, astray, forced, lost>>
  BY DEF StartWrite, At, unchangedProcs, unchangedHistory
<1>2. Busy(c) /\ Plain(c) /\ cmd[c].op \in {"start", "restart"}
  BY <1>1, LaunchNext, LaunchPlaces
<1>3. /\ Exists(cmd[c].id) /\ KeptBy(cmd[c].id) = {}
      /\ cmd[c].mem = [rec[cmd[c].id] EXCEPT !.status = "creating"]
  BY <1>1, FrameFacts DEF LaunchInv
<1>4. PICK i \in DOMAIN rec : i = cmd[c].id
  BY <1>3 DEF Exists
<1>5. PICK r \in {cmd[c].mem} : r = cmd[c].mem
  OBVIOUS
<1>6. rec[i] \in Records /\ rec[i].pid <= Len(keepers)
  BY DEF IInv, TypeInv
<1>7. r \in Records
  BY <1>3, <1>4, <1>5, <1>6 DEF Records, Statuses
<1>8. r.pid = rec[i].pid /\ r.exit = rec[i].exit /\ r.mounts = rec[i].mounts /\ r.bundle = rec[i].bundle
      /\ r.rm = rec[i].rm /\ r.status = "creating"
  BY <1>3, <1>4, <1>5, <1>6 DEF Records
<1>9. rec' = [rec EXCEPT ![i] = r] /\ Goto(c, "launch")
  BY <1>3, <1>4, <1>5 DEF StartWrite, Write, Exists
<1>10. PICK g : cmd' = [cmd EXCEPT ![c] = g] /\ cmd'[c] = g /\ SameBut(cmd[c], g) /\ g.pc = "launch"
  BY <1>9, GotoFrame
<1>11. /\ DOMAIN g = Fields /\ g.op = cmd[c].op /\ g.id = i /\ g.own = cmd[c].own /\ g.mem = r
       /\ g.todo = cmd[c].todo
  BY <1>4, <1>5, <1>10 DEF SameBut
<1>12. TypeInv'
  BY <1>1, <1>6, <1>7, <1>8, <1>9, <1>10, FrameFacts DEF TypeInv
<1>13. ClientInv(c)'
  <2>1. KeptBy(i)' = KeptBy(i) /\ Exists(i)' /\ rec'[i] = r
    BY <1>1, <1>9 DEF KeptBy, KeeperRuns, Exists
  <2>2. LaunchInv(g)'
    BY <1>3, <1>4, <1>8, <1>10, <1>11, <2>1 DEF LaunchInv
  <2>3. g.id \in 0..born' /\ g.own \in 0..born' /\ g.op \in {"start", "restart"} /\ (g.op = "start" => g.todo = <<>>)
    BY <1>1, <1>2, <1>4, <1>11, FrameFacts
  <2>. QED
    BY <1>10, <1>11, <1>12, <2>2, <2>3, LaunchFrame
<1>14. r.mounts \subseteq vols \cup forced /\ (r.mounts # {} => r.bundle)
  BY <1>8 DEF IInv, VolumeInv
<1>. QED
  BY <1>1, <1>2, <1>3, <1>4, <1>7, <1>8, <1>9, <1>10, <1>13, <1>14, QuietWrite

LEMMA RestartedStep ==
  ASSUME IInv, NEW c \in Clients, Restarted(c) PROVE IInv'
<1>1. Still /\ cmd[c].pc = "restarted" /\ Proceed(c, "restart")
  BY DEF Restarted, At, Still, unchangedProcs, unchangedHistory
<1>. QED
  BY <1>1, LaunchNext, ProceedStep

LEMMA RestartLoadStep ==
  ASSUME IInv, NEW c \in Clients, RestartLoad(c) PROVE IInv'
<1>1. Frozen /\ Still /\ cmd[c].pc = "restart"
  BY DEF RestartLoad, At, Frozen, Still, unchangedProcs, unchangedHistory
<1>2. Busy(c) /\ Plain(c) /\ (cmd[c].todo = <<>> \/ NextPlace(cmd[c].op, "restart"))
      /\ cmd[c].op = "restart" /\ \A k \in DOMAIN keepers : keepers[k].pc \notin Starting
  BY <1>1, LaunchNext, LaunchPlaces
<1>3. CASE resolve(cmd[c].at) = NoId
  BY <1>1, <1>2, <1>3, ProceedStep DEF RestartLoad
<1>4. CASE resolve(cmd[c].at) # NoId
  <2>1. PICK i \in DOMAIN rec : i = resolve(cmd[c].at)
    BY <1>4, ResolveFacts DEF IInv
  <2>2. rec[i] \in Records /\ rec[i].rm \in BOOLEAN /\ i \in 0..born
    BY <2>1, ResolveFacts DEF IInv, TypeInv, Records
  <2>3. PICK pc \in {"suppress", "stop"} : pc = IF rec[i].rm THEN "suppress" ELSE "stop"
    OBVIOUS
  <2>4. PICK g \in {[cmd[c] EXCEPT !.id = i, !.own = i, !.arg = [had |-> rec[i].rm], !.mem = rec[i],
                                  !.failed = FALSE, !.pc = pc]} :
          g = [cmd[c] EXCEPT !.id = i, !.own = i, !.arg = [had |-> rec[i].rm], !.mem = rec[i],
                             !.failed = FALSE, !.pc = pc]
    OBVIOUS
  <2>5. /\ DOMAIN g = Fields /\ g.pc = pc /\ g.id = i /\ g.own = i /\ g.mem = rec[i] /\ g.arg.had = rec[i].rm
        /\ g.op = "restart" /\ g.todo = cmd[c].todo
    <3>1. PICK arg \in {[had |-> rec[i].rm]} : arg = [had |-> rec[i].rm] /\ arg.had = rec[i].rm
      OBVIOUS
    <3>2. g = [cmd[c] EXCEPT !.id = i, !.own = i, !.arg = arg, !.mem = rec[i], !.failed = FALSE, !.pc = pc]
      BY <2>4, <3>1
    <3>3. /\ DOMAIN g = Fields /\ g.pc = pc /\ g.id = i /\ g.own = i /\ g.mem = rec[i] /\ g.arg = arg
          /\ g.op = cmd[c].op /\ g.todo = cmd[c].todo
      BY <3>2, FrameFacts DEF Fields
    <3>. QED
      BY <1>2, <3>1, <3>3
  <2>6. cmd' = [cmd EXCEPT ![c] = g] /\ cmd'[c] = g
    <3>1. PICK arg \in {[had |-> rec[i].rm]} : arg = [had |-> rec[i].rm]
      OBVIOUS
    <3>2. cmd' = [cmd EXCEPT ![c].id = i, ![c].own = i, ![c].arg = [had |-> rec[i].rm],
                ![c].mem = rec[i], ![c].failed = FALSE, ![c].pc = IF rec[i].rm THEN "suppress" ELSE "stop"]
      BY <1>4, <2>1 DEF RestartLoad
    <3>3. cmd' = [cmd EXCEPT ![c].id = i, ![c].own = i, ![c].arg = arg,
                ![c].mem = rec[i], ![c].failed = FALSE, ![c].pc = pc]
      BY <2>3, <3>1, <3>2
    <3>4. g = [cmd[c] EXCEPT !.id = i, !.own = i, !.arg = arg, !.mem = rec[i], !.failed = FALSE, !.pc = pc]
      BY <2>4, <3>1
    <3>. QED
      BY <3>3, <3>4, FrameFacts
  <2>7. ChangeInv(g)'
    <3>1. ReadEarlier(i, rec[i])
      BY <1>2, JustRead
    <3>2. ReadEarlier(i, g.mem)'
      BY <1>1, <2>5, <2>6, <3>1 DEF Frozen, ReadEarlier, KeptBy, KeeperRuns, Exists
    <3>3. pc = "suppress" => rec[i].rm = TRUE
      BY <2>2, <2>3
    <3>. QED
      BY <2>3, <2>5, <3>2, <3>3 DEF ChangeInv
  <2>8. RestartInv(g)'
    BY <2>2, <2>3, <2>5 DEF RestartInv, StopPcs, RestorePcs
  <2>9. MakeInv(g)' /\ LaunchInv(g)' /\ StopInv(g)' /\ WaitInv(g)'
    BY <2>3, <2>5 DEF MakeInv, LaunchInv, StopInv, WaitInv
  <2>10. ClientInv(c)'
    BY <1>1, <2>2, <2>3, <2>5, <2>6, <2>7, <2>8, <2>9 DEF ClientInv, Place, StopPcs, Frozen
  <2>. QED
    BY <1>1, <1>2, <2>6, <2>10, PlainStep DEF Still, Plain
<1>. QED
  BY <1>3, <1>4

(* A record read earlier is written back with fields a keeper does not look at changed. *)
LEMMA BackStep ==
  ASSUME IInv, NEW c \in Clients, Busy(c), Plain(c), NEW g, cmd' = [cmd EXCEPT ![c] = g], ClientInv(c)',
         NEW i \in DOMAIN rec, NEW mem, ReadEarlier(i, mem), NEW r \in Records, WriteBack(i, mem, r),
         UNCHANGED <<born, live, keepers, vols, crashes, wanted, astray, forced>>,
         r.status = mem.status, r.pid = mem.pid, r.exit = mem.exit, Agree(r, mem),
         r.rm = mem.rm \/ Suppresses(c, i)'
  PROVE  IInv'
<1>1. rec' = [rec EXCEPT ![i] = r] /\ lost' = IF rec[i] # mem THEN lost \cup {i} ELSE lost
  BY DEF WriteBack, Write, Exists
<1>2. DOMAIN rec' = DOMAIN rec /\ rec'[i] = r /\ \A j \in DOMAIN rec : j # i => rec'[j] = rec[j]
  BY <1>1
<1>3. /\ mem \in Records /\ mem.pid <= Len(keepers) /\ Agree(rec[i], mem)
      /\ \A k \in KeptBy(i) : mem.status = "running" /\ mem.pid = k
  BY DEF ReadEarlier, Exists
<1>4. r.mounts \subseteq vols \cup forced /\ (r.mounts # {} => r.bundle) /\ Agree(rec[i], r)
  BY <1>3 DEF IInv, VolumeInv, Agree
<1>5. rec[i] \in Records /\ rec[i].pid \in Nat /\ rec[i].exit \in Nat
  BY DEF IInv, TypeInv, Records
<1>6. i \notin lost' =>
            /\ rec[i].pid <= r.pid /\ rec[i].exit <= r.exit
            /\ crashes = 0 => r.exit >= r.pid \/ r.pid \in KeptBy(i)
  BY <1>1, <1>5 DEF IInv, ExitInv
<1>7. AutoInv'
  <2>1. \A j : ~Suppresses(c, j)
    BY DEF Plain, Suppresses
  <2>2. \A j \in (wanted' \cap DOMAIN rec') \ (lost' \cup astray') :
            /\ rec'[j].rm \/ Suppresses(c, j)' \/ (j \in wanted \cap DOMAIN rec /\ (rec[j].rm => rec'[j].rm))
            /\ j \in wanted \cap DOMAIN rec \/ KeptBy(j) = {}
    BY <1>1, <1>2
  <2>. QED
    BY <1>1, <2>1, <2>2, AutoKept DEF IInv, TypeInv
<1>8. \A k \in KeptBy(i) : r.status = "running" /\ r.pid = k /\ Agree(rec[i], r)
  BY <1>3, <1>4
<1>9. lost \subseteq lost' /\ cmd[c].pc \notin {"confirm", "attached"} /\ r.pid <= Len(keepers)
  BY <1>1, <1>3 DEF Plain
<1>. QED
  BY <1>1, <1>4, <1>6, <1>7, <1>8, <1>9, WriteStep

LEMMA RestartSuppressStep ==
  ASSUME IInv, NEW c \in Clients, RestartSuppress(c) PROVE IInv'
<1>1. cmd[c].pc = "suppress" /\ UNCHANGED <<born, live, keepers, vols, crashes, wanted, astray, forced>>
      /\ WriteBack(cmd[c].id, cmd[c].mem, [cmd[c].mem EXCEPT !.rm = FALSE])
  BY DEF RestartSuppress, At, unchangedProcs
<1>2. Busy(c) /\ Plain(c) /\ (cmd[c].todo = <<>> \/ NextPlace(cmd[c].op, "restart")) /\ cmd[c].op = "restart"
  BY <1>1, LaunchNext, LaunchPlaces
<1>3. ReadEarlier(cmd[c].id, cmd[c].mem) /\ cmd[c].own = cmd[c].id /\ cmd[c].arg.had = TRUE
  BY <1>1, FrameFacts DEF ChangeInv
<1>4. CASE ~Exists(cmd[c].id)
  <2>1. Still /\ Proceed(c, "restart")
    BY <1>1, <1>4 DEF RestartSuppress, WriteBack, Write, Still
  <2>. QED
    BY <1>2, <2>1, ProceedStep
<1>5. CASE Exists(cmd[c].id)
  <2>1. PICK i \in DOMAIN rec : i = cmd[c].id
    BY <1>5 DEF Exists
  <2>2. PICK mem \in Records : mem = cmd[c].mem
    BY <1>3 DEF ReadEarlier
  <2>3. PICK r \in {[mem EXCEPT !.rm = FALSE]} : r = [mem EXCEPT !.rm = FALSE]
    OBVIOUS
  <2>4. r \in Records
    BY <2>3 DEF Records
  <2>5. r.status = mem.status /\ r.pid = mem.pid /\ r.exit = mem.exit /\ Agree(r, mem)
    BY <2>3 DEF Records, Agree
  <2>6. PICK g : cmd' = [cmd EXCEPT ![c] = g] /\ cmd'[c] = g /\ SameBut(cmd[c], g) /\ g.pc = "stop"
    BY <1>5, GotoFrame DEF RestartSuppress
  <2>7. DOMAIN g = Fields /\ g.op = "restart" /\ g.id = i /\ g.own = i /\ g.arg.had = TRUE
    BY <1>2, <1>3, <2>1, <2>6 DEF SameBut
  <2>8. Suppresses(c, i)'
    BY <2>6, <2>7 DEF Suppresses, StopPcs
  <2>9. ClientInv(c)'
    <3>1. MakeInv(g)' /\ LaunchInv(g)' /\ StopInv(g)' /\ ChangeInv(g)' /\ RestartInv(g)' /\ WaitInv(g)'
      BY <2>6, <2>7 DEF MakeInv, LaunchInv, StopInv, ChangeInv, RestartInv, WaitInv, StopPcs, RestorePcs
    <3>. QED
      BY <1>1, <2>1, <2>6, <2>7, <3>1, FrameFacts DEF ClientInv, Place, StopPcs
  <2>10. WriteBack(i, mem, r) /\ ReadEarlier(i, mem)
    BY <1>1, <1>3, <2>1, <2>2, <2>3
  <2>. QED
    BY <1>1, <1>2, <2>4, <2>5, <2>6, <2>8, <2>9, <2>10, BackStep
<1>. QED
  BY <1>4, <1>5

(* Where a restart goes when it has put the annotation back, or need not.  *)
LEMMA RestoredFrame ==
  ASSUME IInv, NEW c \in Clients, cmd[c].pc \in RestorePcs, cmd[c].op = "restart", born' = born,
         Proceed(c, "restart") \/ Goto(c, "start"), TypeInv'
  PROVE  \E g : cmd' = [cmd EXCEPT ![c] = g] /\ ClientInv(c)' /\ \A i : ~Suppresses(c, i)'
<1>2. CASE Proceed(c, "restart")
  <2>1. NextPlace(cmd[c].op, "restart") /\ DOMAIN cmd = Clients /\ ClientInv(c)
    BY FrameFacts DEF NextPlace
  <2>. QED
    BY <1>2, <2>1, ProceedFrame
<1>3. CASE Goto(c, "start")
  <2>1. PICK g : cmd' = [cmd EXCEPT ![c] = g] /\ cmd'[c] = g /\ SameBut(cmd[c], g) /\ g.pc = "start"
    BY <1>3, GotoFrame
  <2>2. DOMAIN g = Fields /\ g.op = "restart" /\ g.id = cmd[c].id /\ g.own = cmd[c].own
    BY <2>1 DEF SameBut
  <2>3. Place(g) /\ FreePlace(g)
    BY <2>1, <2>2 DEF Place, FreePlace, FreePcs, LaunchPcs
  <2>4. ClientInv(c)'
    BY <2>1, <2>2, <2>3, FrameFacts, FreeFrame
  <2>5. \A i : ~Suppresses(c, i)'
    BY <2>1 DEF Suppresses, StopPcs, RestorePcs
  <2>. QED
    BY <2>1, <2>4, <2>5
<1>. QED
  BY <1>2, <1>3

(* The record is read again, or the restart goes on without.               *)
LEMMA RestartRereadStep ==
  ASSUME IInv, NEW c \in Clients, RestartReread(c) PROVE IInv'
<1>1. cmd[c].pc = "restore" /\ cmd[c].op = "restart"
      /\ UNCHANGED <<rec, born, live, keepers, vols, crashes, wanted, lost, astray, forced>>
  BY LaunchPlaces DEF RestartReread, At, unchangedProcs, unchangedHistory
<1>2. Busy(c) /\ \A k \in DOMAIN keepers : keepers[k].pc \notin Starting
  BY <1>1, CalmAt
<1>3. \A k : ~Launcher(c, k)
  BY <1>1 DEF Launcher
<1>4. DOMAIN cmd' = Clients
  BY FrameFacts DEF RestartReread, Proceed, Return, Goto
<1>5. TypeInv'
  BY <1>1, <1>4 DEF IInv, TypeInv
<1>6. CASE cmd[c].arg.had /\ Exists(cmd[c].own)
  <2>1. PICK i \in DOMAIN rec : i = cmd[c].own
    BY <1>6 DEF Exists
  <2>2. PICK g \in {[cmd[c] EXCEPT !.id = i, !.mem = rec[i], !.pc = "putback"]} : TRUE
    OBVIOUS
  <2>3. /\ DOMAIN g = Fields /\ g.pc = "putback" /\ g.id = i /\ g.own = i /\ g.mem = rec[i]
        /\ g.op = "restart" /\ g.arg = cmd[c].arg /\ g.todo = cmd[c].todo
    BY <1>1, <2>1, <2>2, FrameFacts DEF Fields
  <2>4. cmd' = [cmd EXCEPT ![c] = g] /\ cmd'[c] = g
    BY <1>6, <2>1, <2>2, FrameFacts DEF RestartReread
  <2>5. g.arg.had = TRUE /\ RestartInv(cmd[c])
    BY <1>1, <1>6, <2>3, FrameFacts DEF RestartInv, RestorePcs
  <2>6. ChangeInv(g)'
    <3>1. ReadEarlier(i, rec[i])
      BY <1>2, JustRead
    <3>2. ReadEarlier(i, g.mem)'
      BY <1>1, <2>3, <2>4, <3>1 DEF ReadEarlier, KeptBy, KeeperRuns, Exists
    <3>. QED
      BY <2>3, <2>5, <3>2 DEF ChangeInv
  <2>7. RestartInv(g)'
    BY <1>1, <2>1, <2>3, <2>5 DEF RestartInv, RestorePcs, StopPcs, KeptBy, KeeperRuns, Exists
  <2>8. MakeInv(g)' /\ LaunchInv(g)' /\ StopInv(g)' /\ WaitInv(g)'
    BY <2>3 DEF MakeInv, LaunchInv, StopInv, WaitInv
  <2>9. g.id \in 0..born' /\ g.own \in 0..born' /\ Place(g)
    BY <1>1, <2>1, <2>3, FrameFacts DEF Place, RestorePcs
  <2>10. ClientInv(c)'
    BY <2>3, <2>4, <2>6, <2>7, <2>8, <2>9 DEF ClientInv
  <2>11. \A j : Suppresses(c, j) => Suppresses(c, j)'
    <3>1. ASSUME NEW j, Suppresses(c, j) PROVE Suppresses(c, j)'
      <4>1. g.op = "restart" /\ g.own = j /\ g.arg.had /\ g.pc \in RestorePcs
        BY <2>1, <2>3, <3>1 DEF Suppresses, RestorePcs
      <4>. QED
        BY <2>4, <4>1 DEF Suppresses
    <3>. QED
      BY <3>1
  <2>12. Move(c, g)
    BY <1>1, <1>2, <1>3, <2>4, <2>11 DEF Move, RestorePcs
  <2>. QED
    BY <2>10, <2>12, MoveStep
<1>7. CASE ~(cmd[c].arg.had /\ Exists(cmd[c].own))
  <2>1. PICK g : cmd' = [cmd EXCEPT ![c] = g] /\ ClientInv(c)'
    BY <1>1, <1>5, <1>7, RestoredFrame DEF RestartReread, RestorePcs
  <2>2. \A j \in (wanted \cap DOMAIN rec) \ (lost \cup astray') : ~Suppresses(c, j)
    BY <1>7 DEF Suppresses, Exists
  <2>3. Move(c, g)
    BY <1>1, <1>2, <1>3, <2>1, <2>2 DEF Move
  <2>. QED
    BY <2>1, <2>3, MoveStep
<1>. QED
  BY <1>6, <1>7

LEMMA RestartRestoreStep ==
  ASSUME IInv, NEW c \in Clients, RestartRestore(c) PROVE IInv'
<1>1. cmd[c].pc = "putback" /\ cmd[c].op = "restart"
      /\ UNCHANGED <<born, live, keepers, vols, crashes, wanted, astray, forced>>
      /\ WriteBack(cmd[c].id, cmd[c].mem, [cmd[c].mem EXCEPT !.rm = TRUE])
      /\ (Proceed(c, "restart") \/ Goto(c, "start"))
  BY LaunchPlaces DEF RestartRestore, At, unchangedProcs
<1>2. Busy(c) /\ \A k \in DOMAIN keepers : keepers[k].pc \notin Starting
  BY <1>1, CalmAt
<1>3. /\ KeptBy(cmd[c].own) = {} \/ cmd[c].own \in astray \/ ~Exists(cmd[c].own)
      /\ ReadEarlier(cmd[c].id, cmd[c].mem) /\ cmd[c].own = cmd[c].id
  BY <1>1, FrameFacts DEF RestartInv, ChangeInv, RestorePcs
<1>4. DOMAIN cmd' = Clients
  BY <1>1, FrameFacts DEF Proceed, Return, Goto
<1>5. CASE Exists(cmd[c].id)
  <2>1. PICK i \in DOMAIN rec : i = cmd[c].id
    BY <1>5 DEF Exists
  <2>2. PICK mem \in Records : mem = cmd[c].mem /\ mem.pid <= Len(keepers) /\ Agree(rec[i], mem)
                              /\ \A k \in KeptBy(i) : mem.status = "running" /\ mem.pid = k
    BY <1>3, <2>1 DEF ReadEarlier, Exists
  <2>3. PICK r \in {[mem EXCEPT !.rm = TRUE]} : r = [mem EXCEPT !.rm = TRUE]
    OBVIOUS
  <2>4. r \in Records /\ r.rm = TRUE /\ r.status = mem.status /\ r.pid = mem.pid /\ r.exit = mem.exit
        /\ r.mounts = mem.mounts /\ r.bundle = mem.bundle
    BY <2>3 DEF Records
  <2>5. rec' = [rec EXCEPT ![i] = r] /\ lost' = IF rec[i] # mem THEN lost \cup {i} ELSE lost
    BY <1>1, <2>1, <2>2, <2>3 DEF WriteBack, Write, Exists
  <2>6. DOMAIN rec' = DOMAIN rec /\ rec'[i] = r /\ \A j \in DOMAIN rec : j # i => rec'[j] = rec[j]
    BY <2>5
  <2>7. rec[i] \in Records /\ rec[i].pid \in Nat /\ rec[i].exit \in Nat
    BY DEF IInv, TypeInv, Records
  <2>8. TypeInv'
    BY <1>1, <1>4, <2>2, <2>4, <2>6 DEF IInv, TypeInv
  <2>9. PICK g : cmd' = [cmd EXCEPT ![c] = g] /\ ClientInv(c)' /\ \A j : ~Suppresses(c, j)'
    BY <1>1, <2>8, RestoredFrame DEF RestorePcs
  <2>10. AutoInv'
    <3>1. \A j : Suppresses(c, j) => j = i
      BY <1>3, <2>1 DEF Suppresses
    <3>2. i \in astray \/ KeptBy(i) = {}
      BY <1>3, <2>1 DEF Exists
    <3>3. \A j \in (wanted' \cap DOMAIN rec') \ (lost' \cup astray') :
            /\ rec'[j].rm \/ (j \in wanted \cap DOMAIN rec /\ (rec[j].rm => rec'[j].rm))
            /\ j \in wanted \cap DOMAIN rec \/ KeptBy(j) = {}
            /\ Suppresses(c, j) => rec'[j].rm /\ KeptBy(j) = {}
      BY <1>1, <2>4, <2>6, <3>1, <3>2
    <3>. QED
      BY <1>1, <2>5, <2>9, <3>3, AutoKept DEF IInv, TypeInv
  <2>11. Agree(rec[i], r) /\ \A k \in KeptBy(i) : r.status = "running" /\ r.pid = k
    BY <2>2, <2>4 DEF Agree
  <2>12. r.mounts \subseteq vols \cup forced /\ (r.mounts # {} => r.bundle)
    BY <2>11 DEF IInv, VolumeInv, Agree
  <2>13. i \notin lost' =>
            /\ rec[i].pid <= r.pid /\ rec[i].exit <= r.exit
            /\ crashes = 0 => r.exit >= r.pid \/ r.pid \in KeptBy(i)
    BY <2>4, <2>5, <2>7 DEF IInv, ExitInv
  <2>14. cmd[c].pc \notin {"confirm", "attached"} /\ lost \subseteq lost' /\ wanted \subseteq wanted'
         /\ wanted' \subseteq wanted \cup {i} /\ r.pid <= Len(keepers)
    BY <1>1, <2>2, <2>4, <2>5
  <2>. QED
    BY <1>1, <1>2, <2>4, <2>5, <2>9, <2>10, <2>11, <2>12, <2>13, <2>14, WriteStep
<1>6. CASE ~Exists(cmd[c].id)
  <2>1. rec' = rec /\ lost' = lost
    BY <1>1, <1>6 DEF WriteBack, Write
  <2>2. TypeInv'
    BY <1>1, <1>4, <2>1 DEF IInv, TypeInv
  <2>3. PICK g : cmd' = [cmd EXCEPT ![c] = g] /\ ClientInv(c)'
    BY <1>1, <2>2, RestoredFrame DEF RestorePcs
  <2>4. \A j \in (wanted \cap DOMAIN rec) \ (lost \cup astray') : ~Suppresses(c, j)
    BY <1>3, <1>6 DEF Suppresses, Exists
  <2>5. \A k : ~Launcher(c, k)
    BY <1>1 DEF Launcher
  <2>6. Move(c, g)
    BY <1>1, <1>2, <2>1, <2>3, <2>4, <2>5 DEF Move
  <2>. QED
    BY <2>3, <2>6, MoveStep
<1>. QED
  BY <1>5, <1>6

-----------------------------------------------------------------------------
(* clone, rename, update, commit and wait.                                 *)
LEMMA CloneRecordStep ==
  ASSUME IInv, NEW c \in Clients, CloneRecord(c) PROVE IInv'
<1>1. /\ cmd[c].pc = "record" /\ cmd[c].op = "clone" /\ born < MaxIds /\ born' = born + 1
      /\ UNCHANGED <<vols, live, keepers, crashes, lost, astray, forced>>
  BY DEF CloneRecord, At, unchangedProcs
<1>2. Busy(c)
  BY <1>1, AtWork
<1>3. PICK mem \in Records : mem = cmd[c].mem /\ mem.mounts \subseteq vols \cup forced /\ cmd[c].arg.name \in Names
  BY <1>1, FrameFacts DEF MakeInv
<1>4. PICK r \in {[mem EXCEPT !.status = "creating", !.pid = NoPid, !.name = cmd[c].arg.name,
                              !.bundle = FALSE, !.mounts = {}, !.upper = 0]} :
        r = [mem EXCEPT !.status = "creating", !.pid = NoPid, !.name = cmd[c].arg.name,
                        !.bundle = FALSE, !.mounts = {}, !.upper = 0]
  OBVIOUS
<1>5. MaxIds \in Nat /\ MaxLaunches \in Nat /\ born \in Nat /\ 0 \in 0..MaxLaunches /\ 0 \in 0..MaxIds
  BY EngineAssumption DEF IInv, TypeInv
<1>6. r \in Records
  BY <1>3, <1>4, <1>5 DEF Records, Statuses, NoPid
<1>7. r.pid = 0 /\ r.mounts = {} /\ r.status = "creating"
  BY <1>4 DEF Records, NoPid
<1>8. Add(born + 1, r) /\ wanted' = (IF r.rm THEN wanted \cup {born + 1} ELSE wanted)
      /\ cmd' = [cmd EXCEPT ![c].pc = "bundle", ![c].id = born + 1]
  BY <1>3, <1>4 DEF CloneRecord
<1>9. PICK i \in {born + 1} : i = born + 1 /\ i \in Nat /\ i # 0 /\ born < i
  BY <1>5
<1>10. PICK g \in {[cmd[c] EXCEPT !.pc = "bundle", !.id = i]} : TRUE
  OBVIOUS
<1>11. /\ DOMAIN g = Fields /\ g.pc = "bundle" /\ g.id = i /\ g.mem = cmd[c].mem /\ g.own = cmd[c].own
       /\ g.op = "clone" /\ g.arg = cmd[c].arg /\ g.todo = cmd[c].todo
  BY <1>1, <1>10, FrameFacts DEF Fields
<1>12. cmd' = [cmd EXCEPT ![c] = g] /\ cmd'[c] = g
  BY <1>8, <1>9, <1>10, FrameFacts
<1>13. rec'[i] = r /\ i \in DOMAIN rec' /\ DOMAIN rec' = DOMAIN rec \cup {i}
       /\ \A j \in DOMAIN rec : j # i => rec'[j] = rec[j]
  BY <1>8, <1>9 DEF Add
<1>14. \A k \in DOMAIN keepers : keepers[k].id # i
  BY <1>9 DEF IInv, TypeInv
<1>15. ClientInv(c)'
  <2>1. MakeInv(g)'
    BY <1>1, <1>3, <1>7, <1>11, <1>13, <1>14 DEF MakeInv, Exists
  <2>2. LaunchInv(g)'
    BY <1>11 DEF LaunchInv
  <2>3. g.id \in 0..born' /\ g.own \in 0..born' /\ g.todo = <<>> /\ Place(g)
    BY <1>1, <1>5, <1>9, <1>11, FrameFacts DEF Place
  <2>4. TypeInv'
    <3>1. \A j \in DOMAIN rec' : rec'[j] \in Records /\ rec'[j].pid <= Len(keepers')
      <4>1. Len(keepers) \in Nat /\ 0 <= Len(keepers)
        BY DEF IInv, TypeInv
      <4>2. \A j \in DOMAIN rec : rec'[j] \in Records /\ rec'[j].pid <= Len(keepers)
        BY <1>6, <1>7, <1>13, <4>1 DEF IInv, TypeInv
      <4>. QED
        BY <1>1, <1>6, <1>7, <1>13, <4>1, <4>2
    <3>2. DOMAIN rec' \subseteq 1..born' /\ wanted' \subseteq 1..born' /\ born' <= MaxIds /\ born' \in Nat
          /\ 1..born \subseteq 1..born'
      BY <1>1, <1>5, <1>8, <1>9, <1>13 DEF IInv, TypeInv
    <3>. QED
      BY <1>1, <1>12, <3>1, <3>2 DEF IInv, TypeInv
  <2>. QED
    BY <1>11, <1>12, <2>1, <2>2, <2>3, <2>4, MakeFrame
<1>. QED
  BY <1>1, <1>2, <1>6, <1>7, <1>8, <1>12, <1>15, AddStep

LEMMA CloneBundleStep ==
  ASSUME IInv, NEW c \in Clients, CloneBundle(c) PROVE IInv'
<1>1. cmd[c].pc = "bundle" /\ cmd[c].op = "clone"
      /\ UNCHANGED <<born, live, keepers, vols, crashes, astray, forced, lost, wanted>>
  BY DEF CloneBundle, At, unchangedProcs, unchangedHistory
<1>2. PICK i \in DOMAIN rec : i = cmd[c].id
  BY <1>1, Prepared
<1>3. Busy(c) /\ Plain(c) /\ rec[i] \in Records /\ KeptBy(i) = {} /\ rec[i].pid <= Len(keepers)
  BY <1>1, <1>2, Prepared
<1>4. PICK mem \in Records : mem = cmd[c].mem /\ mem.mounts \subseteq vols \cup forced
  BY <1>1, FrameFacts DEF MakeInv
<1>5. PICK r \in {[rec[i] EXCEPT !.bundle = TRUE, !.mounts = mem.mounts, !.upper = mem.upper, !.status = "created"]} :
        r = [rec[i] EXCEPT !.bundle = TRUE, !.mounts = mem.mounts, !.upper = mem.upper, !.status = "created"]
  OBVIOUS
<1>6. mem.mounts \in SUBSET Volumes /\ mem.upper \in 0..MaxIds
  BY DEF Records
<1>7. r \in Records
  BY <1>3, <1>5, <1>6 DEF Records, Statuses
<1>8. r.pid = rec[i].pid /\ r.exit = rec[i].exit /\ r.mounts = mem.mounts /\ r.bundle = TRUE /\ r.rm = rec[i].rm
  BY <1>3, <1>5 DEF Records
<1>9. rec' = [rec EXCEPT ![i] = r]
  BY <1>2, <1>4, <1>5 DEF CloneBundle, Write, Exists
<1>10. PICK pc \in {"remove", "cloned"} : cmd' = [cmd EXCEPT ![c].keeper = i, ![c].pc = pc]
  BY <1>2 DEF CloneBundle
<1>11. PICK g \in {[cmd[c] EXCEPT !.keeper = i, !.pc = pc]} : TRUE
  OBVIOUS
<1>12. /\ DOMAIN g = Fields /\ g.pc = pc /\ g.id = cmd[c].id /\ g.own = cmd[c].own
       /\ g.op = "clone" /\ g.arg = cmd[c].arg /\ g.todo = <<>>
  BY <1>1, <1>11, FrameFacts DEF Fields
<1>13. cmd' = [cmd EXCEPT ![c] = g] /\ cmd'[c] = g
  BY <1>10, <1>11, FrameFacts
<1>14. TypeInv'
  BY <1>1, <1>3, <1>7, <1>8, <1>9, <1>13, FrameFacts DEF TypeInv
<1>15. ClientInv(c)'
  <2>1. g.id \in 0..born' /\ g.own \in 0..born' /\ Place(g)
    BY <1>1, <1>10, <1>12, FrameFacts DEF Place, RemovePcs
  <2>2. MakeInv(g)' /\ LaunchInv(g)'
    BY <1>10, <1>12 DEF MakeInv, LaunchInv
  <2>3. CASE pc = "remove"
    BY <1>12, <1>13, <1>14, <2>1, <2>2, <2>3, MakeFrame
  <2>4. CASE pc = "cloned"
    <3>1. FreePlace(g)
      BY <1>12, <2>4 DEF FreePlace, FreePcs
    <3>. QED
      BY <1>12, <1>13, <1>14, <2>1, <3>1, FreeFrame
  <2>. QED
    BY <1>10, <2>3, <2>4
<1>16. i \in wanted' => r.rm \/ (i \in wanted /\ r.rm = rec[i].rm)
  BY <1>1, <1>8
<1>. QED
  BY <1>1, <1>3, <1>4, <1>7, <1>8, <1>9, <1>13, <1>15, <1>16, QuietWrite

LEMMA ClonedStep ==
  ASSUME IInv, NEW c \in Clients, Cloned(c) PROVE IInv'
<1>1. Frozen /\ Still /\ cmd[c].pc = "cloned"
  BY DEF Cloned, At, Frozen, Still, unchangedProcs, unchangedHistory
<1>2. cmd[c].op = "clone"
  BY <1>1, FrameFacts DEF Place, StopPcs, RestorePcs, LaunchPcs, RemovePcs
<1>3. Busy(c) /\ Plain(c)
  BY <1>1, <1>2, AtWork DEF Plain
<1>4. CASE Return(c)
  BY <1>1, <1>3, <1>4, ReturnStep
<1>5. CASE ~Return(c)
  <2>1. PICK at \in {cmd[c].keeper} : cmd' = [cmd EXCEPT ![c].at = at, ![c].pc = "start"]
    BY <1>5 DEF Cloned
  <2>2. PICK g \in {[cmd[c] EXCEPT !.at = at, !.pc = "start"]} : TRUE
    OBVIOUS
  <2>3. /\ DOMAIN g = Fields /\ g.pc = "start" /\ g.id = cmd[c].id /\ g.own = cmd[c].own /\ g.op = "clone"
        /\ g.todo = <<>>
    BY <1>2, <2>2, FrameFacts DEF Fields
  <2>4. cmd' = [cmd EXCEPT ![c] = g] /\ cmd'[c] = g
    BY <2>1, <2>2, FrameFacts
  <2>5. TypeInv' /\ Place(g) /\ FreePlace(g)
    BY <1>1, <2>3, <2>4, FrozenType DEF IInv, Place, FreePlace, FreePcs
  <2>6. ClientInv(c)'
    BY <1>1, <2>3, <2>4, <2>5, FrameFacts, FreeFrame DEF Frozen
  <2>. QED
    BY <1>1, <1>3, <2>4, <2>6, PlainStep DEF Still, Plain
<1>. QED
  BY <1>4, <1>5

LEMMA ChangeWriteStep ==
  ASSUME IInv, NEW c \in Clients, ChangeWrite(c) PROVE IInv'
<1>1. /\ cmd[c].pc = "change" /\ WriteBack(cmd[c].id, cmd[c].mem, cmd[c].arg) /\ Return(c)
      /\ UNCHANGED <<born, live, keepers, vols, crashes, wanted, astray, forced>>
  BY DEF ChangeWrite, At, unchangedProcs
<1>2. cmd[c].op \in {"rename", "update"}
  BY <1>1, FrameFacts DEF Place, StopPcs, RestorePcs, LaunchPcs, RemovePcs
<1>3. Busy(c) /\ Plain(c)
  BY <1>1, <1>2, AtWork DEF Plain
<1>4. CASE ~Exists(cmd[c].id)
  <2>1. Still
    BY <1>1, <1>4 DEF WriteBack, Write, Still
  <2>. QED
    BY <1>1, <1>3, <2>1, ReturnStep
<1>5. CASE Exists(cmd[c].id)
  <2>1. PICK i \in DOMAIN rec : i = cmd[c].id
    BY <1>5 DEF Exists
  <2>2. /\ ReadEarlier(i, cmd[c].mem) /\ cmd[c].arg \in Records /\ Agree(cmd[c].arg, cmd[c].mem)
        /\ cmd[c].arg.status = cmd[c].mem.status /\ cmd[c].arg.pid = cmd[c].mem.pid
        /\ cmd[c].arg.exit = cmd[c].mem.exit /\ cmd[c].arg.rm = cmd[c].mem.rm
    BY <1>1, <2>1, FrameFacts DEF ChangeInv
  <2>3. WriteBack(i, cmd[c].mem, cmd[c].arg) /\ cmd' = [cmd EXCEPT ![c] = NoCmd] /\ cmd'[c] = NoCmd
    BY <1>1, <2>1, FrameFacts DEF Return
  <2>4. rec' = [rec EXCEPT ![i] = cmd[c].arg]
    BY <2>3 DEF WriteBack, Write, Exists
  <2>5. TypeInv'
    BY <1>1, <2>2, <2>3, <2>4, FrameFacts DEF TypeInv, ReadEarlier
  <2>6. ClientInv(c)'
    BY <2>3, <2>5, IdleFrame
  <2>. QED
    BY <1>1, <1>3, <2>2, <2>3, <2>6, BackStep
<1>. QED
  BY <1>4, <1>5

LEMMA CommitThawStep ==
  ASSUME IInv, NEW c \in Clients, CommitThaw(c) PROVE IInv'
BY ReturnStep DEF CommitThaw, At, Still, Plain, StopPcs, RestorePcs, unchangedHistory

LEMMA WaitPlaces ==
  ASSUME IInv, NEW c \in Clients, cmd[c].pc \in {"waiting", "answer", "answered"}
  PROVE  cmd[c].op = "wait" /\ Plain(c)
<1>1. cmd[c].op = "wait"
  BY FrameFacts DEF Place, StopPcs, RestorePcs, LaunchPcs, RemovePcs
<1>. QED
  BY <1>1 DEF Plain

(* wait remembers the run it saw the end of, and answers with its exit code. *)
LEMMA WaitFrame ==
  ASSUME IInv, NEW c \in Clients, Still, born' = born, NEW g, cmd' = [cmd EXCEPT ![c] = g],
         cmd[c].op = "wait", Plain(c), DOMAIN g = Fields, g.op = "wait", g.id = cmd[c].id, g.own = cmd[c].own,
         g.pc \in {"keeper", "answered"}, WaitInv(g)'
  PROVE  IInv'
<1>1. cmd'[c] = g
  BY FrameFacts
<1>2. MakeInv(g)' /\ LaunchInv(g)' /\ StopInv(g)' /\ ChangeInv(g)' /\ RestartInv(g)'
  BY DEF MakeInv, LaunchInv, StopInv, ChangeInv, RestartInv, RemovePcs
<1>3. ClientInv(c)' /\ ~Busy(c)'
  BY <1>1, <1>2, FrameFacts DEF ClientInv, Place, Busy
<1>. QED
  BY <1>3, PlainStep DEF Still, Plain

LEMMA WaitPollStep ==
  ASSUME IInv, NEW c \in Clients, WaitPoll(c) PROVE IInv'
<1>1. Still /\ born' = born /\ cmd[c].pc = "waiting"
  BY DEF WaitPoll, At, Still, unchangedProcs, unchangedHistory
<1>2. cmd[c].op = "wait" /\ Plain(c)
  BY <1>1, WaitPlaces
<1>3. CASE ~Exists(cmd[c].id)
  BY <1>1, <1>2, <1>3, ReturnStep DEF WaitPoll
<1>4. CASE Exists(cmd[c].id)
  <2>1. PICK i \in DOMAIN rec : i = cmd[c].id
    BY <1>4 DEF Exists
  <2>2. PICK g \in {[cmd[c] EXCEPT !.pc = "keeper", !.mem = rec[i]]} : TRUE
    OBVIOUS
  <2>3. /\ DOMAIN g = Fields /\ g.pc = "keeper" /\ g.id = i /\ g.own = cmd[c].own /\ g.op = "wait"
        /\ g.mem = rec[i]
    BY <1>2, <2>1, <2>2, FrameFacts DEF Fields
  <2>4. cmd' = [cmd EXCEPT ![c] = g]
    BY <1>4, <2>1, <2>2, FrameFacts DEF WaitPoll
  <2>5. rec[i] \in Records /\ rec[i].pid <= rec[i].pid
    BY DEF IInv, TypeInv, Records
  <2>6. WaitInv(g)'
    BY <1>1, <2>3, <2>5 DEF WaitInv, Still
  <2>. QED
    BY <1>1, <1>2, <2>1, <2>3, <2>4, <2>6, WaitFrame
<1>. QED
  BY <1>3, <1>4

LEMMA WaitAnswerStep ==
  ASSUME IInv, NEW c \in Clients, WaitAnswer(c) PROVE IInv'
<1>1. Still /\ born' = born /\ cmd[c].pc = "answer"
  BY DEF WaitAnswer, At, Still, unchangedProcs, unchangedHistory
<1>2. cmd[c].op = "wait" /\ Plain(c)
  BY <1>1, WaitPlaces
<1>3. PICK answer \in {IF Exists(cmd[c].id) THEN rec[cmd[c].id].exit ELSE NoExit} :
        answer = IF Exists(cmd[c].id) THEN rec[cmd[c].id].exit ELSE NoExit
  OBVIOUS
<1>4. PICK g \in {[cmd[c] EXCEPT !.answer = answer, !.pc = "answered"]} : TRUE
  OBVIOUS
<1>5. /\ DOMAIN g = Fields /\ g.pc = "answered" /\ g.id = cmd[c].id /\ g.own = cmd[c].own /\ g.op = "wait"
      /\ g.mem = cmd[c].mem /\ g.answer = answer
  BY <1>2, <1>4, FrameFacts DEF Fields
<1>6. cmd' = [cmd EXCEPT ![c] = g]
  BY <1>3, <1>4, FrameFacts DEF WaitAnswer
<1>7. WaitInv(g)'
  <2>1. WaitInv(cmd[c])
    BY FrameFacts
  <2>. QED
    BY <1>1, <1>2, <1>3, <1>5, <2>1 DEF WaitInv, Still, Exists
<1>. QED
  BY <1>1, <1>2, <1>5, <1>6, <1>7, WaitFrame

LEMMA AnsweredStep ==
  ASSUME IInv, NEW c \in Clients, Answered(c) PROVE IInv'
<1>1. Still /\ cmd[c].pc = "answered" /\ Return(c)
  BY DEF Answered, At, Still, unchangedProcs, unchangedHistory
<1>. QED
  BY <1>1, WaitPlaces, ReturnStep

-----------------------------------------------------------------------------
(* Every step of the system keeps the invariant.                           *)
LEMMA StepsKept ==
  ASSUME IInv, KeepAlone, NEW c \in Clients, Steps(c) PROVE IInv'
<1>1. CASE \/ RunName(c) \/ CreateRecord(c) \/ IdsExhausted(c) \/ PrepareBundle(c) \/ PrepareFails(c)
           \/ CreateDone(c) \/ RunAnnotate(c) \/ LaunchFork(c) \/ ForkFails(c) \/ Confirm(c) \/ Detached(c)
  BY <1>1, RunNameStep, CreateRecordStep, ExhaustedStep, PrepareBundleStep, PrepareFailsStep,
     CreateDoneStep, RunAnnotateStep, ForkStep, ForkFailsStep, ConfirmStep, DetachedStep
<1>2. CASE \/ StopLoad(c) \/ StopSignal(c) \/ StopGrace(c) \/ StopDying(c) \/ AwaitKeeper(c) \/ Stopped(c)
           \/ RemoveLoad(c) \/ RemoveKill(c) \/ RemoveUnlink(c) \/ Removed(c)
  BY <1>2, StopLoadStep, StopSignalStep, StopGraceStep, StopDyingStep, AwaitKeeperStep, StoppedStep,
     RemoveLoadStep, RemoveKillStep, RemoveUnlinkStep, RemovedStep
<1>3. CASE \/ StartCheck(c) \/ RestartSettle(c) \/ StartReload(c) \/ StartWrite(c) \/ Restarted(c)
           \/ RestartLoad(c) \/ RestartSuppress(c) \/ RestartReread(c) \/ RestartRestore(c)
  BY <1>3, StartCheckStep, RestartSettleStep, StartReloadStep, StartWriteStep, RestartedStep,
     RestartLoadStep, RestartSuppressStep, RestartRereadStep, RestartRestoreStep
<1>4. CASE \/ CloneRecord(c) \/ CloneBundle(c) \/ Cloned(c) \/ ChangeWrite(c) \/ CommitThaw(c)
           \/ WaitPoll(c) \/ WaitAnswer(c) \/ Answered(c)
  BY <1>4, CloneRecordStep, CloneBundleStep, ClonedStep, ChangeWriteStep, CommitThawStep,
     WaitPollStep, WaitAnswerStep, AnsweredStep
<1>. QED
  BY <1>1, <1>2, <1>3, <1>4 DEF Steps

LEMMA InitInv == ASSUME Init PROVE IInv
<1>1. /\ DOMAIN rec = {} /\ keepers = <<>> /\ DOMAIN keepers = {} /\ Len(keepers) = 0 /\ born = 0 /\ live = {}
      /\ wanted = {} /\ crashes = 0 /\ DOMAIN cmd = Clients /\ \A c \in Clients : cmd[c] = NoCmd
  BY DEF Init
<1>2. TypeInv
  BY <1>1, EngineAssumption DEF TypeInv
<1>3. NoCmd.op = "none" /\ NoCmd.pc = "idle" /\ NoCmd.todo = <<>> /\ NoCmd.id = 0 /\ NoCmd.own = 0
      /\ DOMAIN NoCmd = Fields
  BY NoCmdFields
<1>4. Solo
  BY <1>1, <1>3 DEF Solo, Busy
<1>5. OneKeeper /\ VolumeInv /\ ExitInv /\ AutoInv /\ \A k \in DOMAIN keepers : KeeperInv(k)
  BY <1>1 DEF OneKeeper, VolumeInv, ExitInv, AutoInv
<1>6. ASSUME NEW c \in Clients PROVE ClientInv(c)
  <2>1. cmd[c] = NoCmd
    BY <1>1
  <2>. HIDE DEF NoCmd
  <2>2. Place(NoCmd) /\ 0 \in 0..born
    BY <1>1, <1>3 DEF Place
  <2>3. MakeInv(NoCmd) /\ LaunchInv(NoCmd) /\ StopInv(NoCmd) /\ ChangeInv(NoCmd) /\ RestartInv(NoCmd)
        /\ WaitInv(NoCmd)
    BY <1>3 DEF MakeInv, LaunchInv, StopInv, ChangeInv, RestartInv, WaitInv, RemovePcs, StopPcs
  <2>. QED
    BY <1>3, <2>1, <2>2, <2>3 DEF ClientInv
<1>. QED
  BY <1>2, <1>4, <1>5, <1>6 DEF IInv

LEMMA NextInv == ASSUME IInv, KeepAlone, [Next]_vars PROVE IInv'
<1>1. CASE \E c \in Clients : Commands(c) \/ Steps(c)
  BY <1>1, CommandsKept, StepsKept
<1>2. CASE \E k \in Pids : Keeper(k) \/ ProcessExits(k)
  BY <1>2, KeeperKept, ExitStep
<1>3. CASE Crash
  BY <1>3, CrashStep
<1>4. CASE UNCHANGED vars
  BY <1>4, Elsewhere DEF vars
<1>. QED
  BY <1>1, <1>2, <1>3, <1>4 DEF Next

(* The invariant: one command at work at a time, which knows what it has   *)
(* read; a keeper that agrees with the record of its container; a launch   *)
(* whose command has not left it.                                          *)
THEOREM Invariance == ASSUME KeepAlone PROVE Spec => []IInv
<1>1. Init => IInv
  BY InitInv
<1>2. IInv /\ [Next]_vars => IInv'
  BY NextInv
<1>. QED
  BY <1>1, <1>2, PTL DEF Spec

(* A container has at most one process.  cmd_start waits in                *)
(* wait_for_keeper_to_finalize, and restart_one once more, so no keeper is *)
(* left when the next one is forked, and a process lives no longer than    *)
(* its keeper waits for it.                                                *)
THEOREM ProcessesAreSingle == ASSUME KeepAlone PROVE Spec => []OneProcess
<1>1. IInv => OneProcess
  <2>. SUFFICES ASSUME IInv, NEW i \in Ids PROVE Cardinality({k \in live : keepers[k].id = i}) <= 1
    BY DEF OneProcess
  <2>. DEFINE S == {k \in live : keepers[k].id = i}
  <2>1. \A k, l \in S : k = l
    <3>1. \A k \in S : k \in DOMAIN keepers /\ KeeperRuns(k) /\ keepers[k].id = i
      BY LiveFacts
    <3>. QED
      BY <3>1 DEF IInv, OneKeeper
  <2>. HIDE DEF S
  <2>2. S = {} \/ \E k : S = {k}
    BY <2>1
  <2>3. Cardinality(S) \in {0, 1}
    <3>1. CASE S = {}
      BY <3>1, FS_EmptySet
    <3>2. ASSUME NEW k, S = {k} PROVE Cardinality(S) = 1
      BY <3>2, FS_Singleton
    <3>. QED
      BY <2>2, <3>1, <3>2
  <2>. QED
    BY <2>3 DEF S
<1>. QED
  BY <1>1, Invariance, PTL

(* No process outlives the record of its container.  remove_container      *)
(* kills the process, or waits for its keeper, before remove_dir_all; a    *)
(* --rm keeper and a failed launch remove a record only without a process. *)
THEOREM ProcessesHaveRecords == ASSUME KeepAlone PROVE Spec => []NoOrphan
<1>1. IInv => NoOrphan
  BY DEF IInv, TypeInv, KeeperInv, NoOrphan
<1>. QED
  BY <1>1, Invariance, PTL

(* --rm survives restarts.  restart_one waits for the keeper of the last   *)
(* run before it puts the annotation back, so the keeper's late write      *)
(* cannot take it out again.                                               *)
THEOREM AutoRemoveStays == ASSUME KeepAlone PROVE Spec => []AutoRemoveKept
<1>1. IInv => AutoRemoveKept
  <2>. SUFFICES ASSUME IInv, ~(crashes > 0), NEW i \in (wanted \cap DOMAIN rec) \ (lost \cup astray)
       PROVE  rec[i].rm \/ \E c \in Clients : cmd[c].op = "restart" /\ cmd[c].own = i
    BY DEF AutoRemoveKept
  <2>1. crashes = 0
    BY DEF IInv, TypeInv
  <2>2. rec[i].rm \/ \E c \in Clients : Suppresses(c, i)
    BY <2>1 DEF IInv, AutoInv
  <2>. QED
    BY <2>2 DEF Suppresses
<1>. QED
  BY <1>1, Invariance, PTL

(* cmd_wait answers with an exit code no older than the run it saw the end *)
(* of, because wait_for_and_read_exit_code waits for the keeper's write.   *)
THEOREM WaitIsTrue == ASSUME KeepAlone PROVE Spec => []WaitTruth
<1>1. IInv => WaitTruth
  <2>. SUFFICES ASSUME IInv, NEW c \in Clients, At(c, "answered"), Exists(cmd[c].id),
                       cmd[c].id \notin lost, crashes = 0
       PROVE  cmd[c].answer >= cmd[c].mem.pid
    BY DEF WaitTruth
  <2>1. cmd[c].op = "wait" /\ WaitInv(cmd[c])
    BY FrameFacts, WaitPlaces DEF At
  <2>. QED
    BY <2>1 DEF WaitInv, At
<1>. QED
  BY <1>1, Invariance, PTL

(* A volume that config.json mounts is there unless volume rm --force or   *)
(* system reset took it: volume rm, rename and prune look into the         *)
(* config.json of every container, and a command that still has to write   *)
(* one keeps its user from issuing them.                                   *)
THEOREM VolumesStay == ASSUME KeepAlone PROVE Spec => []MountedVolumesExist
<1>1. IInv => MountedVolumesExist
  BY DEF IInv, VolumeInv, MountedVolumesExist
<1>. QED
  BY <1>1, Invariance, PTL

-----------------------------------------------------------------------------
(* The launch.  A container's process that has not yet called exec.       *)
Waiting == init \in {"hooks", "setup", "fifo"}

(* The direct child while it is still the runtime's own code.              *)
SettingUp == child \in {"limits", "ready", "unshare", "fork", "report"}

(* How far the child is says whether the container's process exists: the   *)
(* child is its parent, or is the process itself, and outlives it.         *)
FamilyInv ==
    /\ opts.newpid =>
         /\ child \in {"limits", "ready", "unshare", "fork"} => init = "unborn"
         /\ child \in {"report", "relay"} => init # "unborn"
         /\ child # "init"
    /\ ~opts.newpid =>
         /\ SettingUp => init = "unborn"
         /\ child \notin {"fork", "relay"}
         /\ child = "init" => Waiting \/ init = "running"
    /\ child = "gone" => init \in {"unborn", "gone"}

(* Who holds the write ends: a process keeps them until it exits or execs. *)
HoldersInv ==
    /\ SettingUp \/ child = "relay" \/ (child = "init" /\ Waiting) =>
         /\ "child" \in pid.writers
         /\ opts.hooks => "child" \in hooks.writers
         /\ opts.systemd => "child" \in ready.writers
    /\ opts.newpid /\ Waiting =>
         /\ "init" \in pid.writers
         /\ opts.hooks => "init" \in hooks.writers

(* A byte in the pid pipe, and a runtime that has read one, mean that the  *)
(* container's pid was reported; a report the runtime has not read is      *)
(* still in the pipe.                                                      *)
Reported == child \in {"relay", "init", "gone"} /\ init # "unborn"

PidInv ==
    /\ pid.bytes = 1 => Reported
    /\ par \in {"hooks", "reap", "report", "wait", "ok"} => Reported
    /\ par \in {"scope", "unified", "ready", "log", "pid"} /\ child \in {"relay", "init"} =>
         pid.bytes = 1

(* What the two other bytes mean, and what lies behind the reads of them.  *)
GoInv ==
    /\ hooks.bytes = 1 => hooked
    /\ ready.bytes = 1 => scoped # "no"
    /\ opts.systemd /\ child \in {"unshare", "fork", "report", "relay", "init"} => scoped # "no"
    /\ par \in {"unified", "ready"} => scoped # "no"

HandshakeInv ==
    /\ TypeOK /\ FamilyInv /\ HoldersInv /\ PidInv /\ GoInv
    /\ HooksBeforePivot /\ ScopeBeforeInit /\ ErrorLeavesNothing

(* A launch begins in the invariant.                                       *)
LEMMA HandshakeInitInv == HandshakeInit => HandshakeInv
<1>. SUFFICES ASSUME HandshakeInit PROVE HandshakeInv
  OBVIOUS
<1>1. /\ ready.bytes = 0 /\ hooks.bytes = 0 /\ pid = [writers |-> {"child"}, bytes |-> 0]
      /\ ready \in Pipes /\ hooks \in Pipes
      /\ opts.systemd => "child" \in ready.writers
      /\ opts.hooks => "child" \in hooks.writers
  BY DEF HandshakeInit, Pipes
<1>2. /\ child = "limits" /\ init = "unborn" /\ par \in {"scope", "log"}
      /\ scoped = "no" /\ hooked = FALSE /\ opts \in Options
  BY DEF HandshakeInit
<1>3. TypeOK
  BY <1>1, <1>2 DEF TypeOK, ParStates, ChildStates, InitStates, Pipes
<1>4. FamilyInv /\ HoldersInv /\ PidInv /\ GoInv
  BY <1>1, <1>2 DEF FamilyInv, HoldersInv, PidInv, GoInv, Waiting, SettingUp, Reported
<1>. QED
  BY <1>2, <1>3, <1>4 DEF HandshakeInv, HooksBeforePivot, ScopeBeforeInit, ErrorLeavesNothing

(* Every step of the runtime, of its child and of the container's process, *)
(* failures and deaths included, keeps it.                                 *)
LEMMA HandshakeStepInv == HandshakeInv /\ [HandshakeNext]_handshakeVars => HandshakeInv'
<1>. SUFFICES ASSUME HandshakeInv, [HandshakeNext]_handshakeVars PROVE HandshakeInv'
  OBVIOUS
<1>. USE DEF HandshakeInv, TypeOK, FamilyInv, HoldersInv, PidInv, GoInv, HooksBeforePivot, ScopeBeforeInit,
        ErrorLeavesNothing, Waiting, SettingUp, Reported, Options, ParStates, ChildStates, InitStates, Pipes
<1>1. CASE CreateScope
  BY <1>1 DEF CreateScope
<1>2. CASE ApplyUnified
  BY <1>2 DEF ApplyUnified
<1>3. CASE UnifiedFails
  BY <1>3 DEF UnifiedFails, Abandon, Close, Without
<1>4. CASE SignalReady
  BY <1>4 DEF SignalReady, Written
<1>5. CASE SpawnLogTee
  BY <1>5 DEF SpawnLogTee
<1>6. CASE LogFails
  BY <1>6 DEF LogFails, Abandon, Close, Without
<1>7. CASE ReadContainerPid
  BY <1>7 DEF ReadContainerPid
<1>8. CASE PidEndOfFile
  BY <1>8 DEF PidEndOfFile, ReturnError, Close, Without
<1>9. CASE HooksSucceed
  BY <1>9 DEF HooksSucceed, Written
<1>10. CASE HooksFail
  BY <1>10 DEF HooksFail, InitProc, Close, Without
<1>11. CASE Reap
  BY <1>11 DEF Reap, ReturnError, Close, Without
<1>12. CASE OnPid
  BY <1>12 DEF OnPid, Close, Without
<1>13. CASE WaitChild
  BY <1>13 DEF WaitChild, Close, Without
<1>14. CASE Dies
  BY <1>14 DEF Dies, Close, Without
<1>15. CASE Limits
  BY <1>15 DEF Limits, ChildStep
<1>16. CASE AwaitReady
  BY <1>16 DEF AwaitReady, ChildStep, Readable
<1>17. CASE Unshare
  BY <1>17 DEF Unshare, ChildStep
<1>18. CASE ForkInit
  BY <1>18 DEF ForkInit
<1>19. CASE ReportContainerPid
  BY <1>19 DEF ReportContainerPid, Written
<1>20. CASE Relay
  BY <1>20 DEF Relay, Close, Without
<1>21. CASE ChildFails
  BY <1>21 DEF ChildFails, Close, Without
<1>22. CASE AwaitHooks
  BY <1>22 DEF AwaitHooks, InitStep, Readable
<1>23. CASE Setup
  BY <1>23 DEF Setup, InitStep
<1>24. CASE Exec
  BY <1>24 DEF Exec, Close, Without, InitProc
<1>25. CASE Exit
  BY <1>25 DEF Exit, Close, Without, InitProc
<1>26. CASE UNCHANGED handshakeVars
  BY <1>26 DEF handshakeVars
<1>. QED
  BY <1>1, <1>2, <1>3, <1>4, <1>5, <1>6, <1>7, <1>8, <1>9, <1>10, <1>11, <1>12, <1>13, <1>14, <1>15, <1>16, <1>17, <1>18, <1>19, <1>20, <1>21, <1>22, <1>23, <1>24, <1>25, <1>26 DEF HandshakeNext, Runtime, Child, Container

(* Every reachable state satisfies the invariant.                          *)
LEMMA HandshakeInvariance == HandshakeSpec => []HandshakeInv
  BY HandshakeInitInv, HandshakeStepInv, PTL DEF HandshakeSpec

(* The variables of a launch keep their types.                             *)
THEOREM LaunchTyping == HandshakeSpec => []TypeOK
  BY HandshakeInvariance, PTL DEF HandshakeInv

(* No mount, pivot_root or command of the container's process before the   *)
(* prestart and createRuntime hooks have succeeded: as it holds a write    *)
(* end of the hooks pipe itself, its read cannot see an end of file.       *)
THEOREM HooksRunFirst == HandshakeSpec => []HooksBeforePivot
  BY HandshakeInvariance, PTL DEF HandshakeInv

(* With systemd the container's process is born in the scope: the child    *)
(* forks it only after the byte that follows create_scope.                 *)
THEOREM BornInScope == HandshakeSpec => []ScopeBeforeInit
  BY HandshakeInvariance, PTL DEF HandshakeInv

(* A launch that returns an error after it began to wait for the pid has   *)
(* left no process: an end of file on the pid pipe means that every holder *)
(* is gone, as a container that ran has left its byte in the pipe.         *)
THEOREM FailureIsClean == HandshakeSpec => []ErrorLeavesNothing
  BY HandshakeInvariance, PTL DEF HandshakeInv

=============================================================================
