----------------------- MODULE OcirunLifecycle_proofs -----------------------
(***************************************************************************)
(* The commands of OcirunLifecycle, for any number of them and of the      *)
(* containers they launch one after the other under the id.                *)
(***************************************************************************)
EXTENDS OcirunLifecycle, FiniteSetTheorems, TLAPS

Launcher(c) == kind[c] \in {"create", "run"}

(* Without its directory there is neither a record nor a fifo.             *)
StoreInv == dir = None => rec = None /\ fifo = None

(* Where the commands can be, and what they then hold.                     *)
CmdInv == \A c \in Cmds :
    /\ kind[c] = None => pc[c] = "idle" /\ on[c] = None
    /\ kind[c] = "create" => pc[c] \in {"record", "fifo", "fork", "launched"}
    /\ kind[c] = "run" => pc[c] \in {"record", "fork", "launched", "wait", "remove"}
    /\ Launcher(c) => on[c] # None
    /\ kind[c] = "start" => /\ pc[c] \in {"open", "opening", "read", "unlink", "write"}
                            /\ pc[c] \in {"opening", "read"} => on[c] # None
                            /\ seen[c] # None /\ seen[c].status = "created"
    /\ kind[c] = "kill" => pc[c] = "signal" /\ seen[c] # None /\ seen[c].pid # None
    /\ kind[c] = "delete" => /\ pc[c] \in {"stray", "remove", "signal", "forced"}
                             /\ pc[c] # "stray" => seen[c] # None
                             /\ pc[c] \in {"signal", "forced"} => seen[c].pid # None

(* A record names a process that was forked.                               *)
Names(r) ==
    /\ r.status = "creating" <=> r.pid = None
    /\ r.pid # None => init[r.pid] # "unborn"
    /\ r.status = "created" => init[r.pid] # "direct"

(* A launch has a process of its own, which it forks once.                 *)
ForkInv ==
    /\ rec # None => Names(rec)
    /\ \A c \in Cmds : seen[c] # None => Names(seen[c])
    /\ \A c, d \in Cmds : Launcher(c) /\ Launcher(d) /\ on[c] = on[d] => c = d
    /\ \A c \in Cmds : Launcher(c) =>
         /\ pc[c] \in {"record", "fifo", "fork"} <=> (init[on[c]] = "unborn" /\ pc[c] # "remove")
         /\ kind[c] = "create" => init[on[c]] # "direct"
    /\ \A p \in Pids : /\ init[p] \in {"waiting", "open"} => end[p] # None
                       /\ init[p] \in {"unborn", "direct"} => end[p] = None

(* The containers that have confirmed a start on fifo f.                   *)
Confirmed(f) == {p \in Pids : end[p] = f /\ init[p] \in {"started", "exited"}}

ConfirmInv == \A f \in Pids :
    IsFiniteSet(Confirmed(f)) /\ starts[f] + byte[f] <= Cardinality(Confirmed(f))

(* What the discipline of the callers gives: a launch under way is alone,  *)
(* a delete has only a waiting run beside it, a start only starts and      *)
(* kills ...                                                               *)
TurnInv == \A c, d \in Cmds : c # d =>
    /\ kind[c] = "create" => kind[d] = None
    /\ kind[c] = "run" => /\ kind[d] \in {None, "kill", "delete"}
                          /\ pc[c] \notin {"wait", "remove"} => kind[d] = None
    /\ kind[c] = "delete" => kind[d] \in {None, "run"}
    /\ kind[c] = "start" => kind[d] \in {None, "start", "kill"}

(* ... so that the directory is that of the container each is about.       *)
OwnInv == \A c \in Cmds :
    /\ Launcher(c) =>
         /\ dir = on[c] \/ (dir = None /\ pc[c] \in {"wait", "remove"})
         /\ pc[c] = "record" => rec = None /\ fifo = None
         /\ pc[c] \in {"fifo", "fork", "launched"} => rec = [status |-> "creating", pid |-> None]
         /\ pc[c] = "wait" /\ rec # None => rec = [status |-> "running", pid |-> on[c]]
         /\ pc[c] = "remove" => ~Alive(on[c])
         /\ kind[c] = "create" => init[on[c]] # "started"
    /\ kind[c] = "start" => dir # None /\ seen[c].pid = dir
    /\ kind[c] = "delete" =>
         /\ rec # None => pc[c] # "stray" /\ rec.pid = seen[c].pid
         /\ pc[c] = "remove" /\ seen[c].pid # None => ~Alive(seen[c].pid)
         /\ pc[c] = "signal" => init[seen[c].pid] \notin {"started", "direct"}

(* A record still reads created although its command has started only      *)
(* while a start is about to read, or has read, the confirmation.          *)
StartedInv == rec # None /\ rec.status = "created" /\ init[rec.pid] = "started" =>
    \E c \in Cmds : kind[c] = "start" /\ \/ pc[c] \in {"unlink", "write"}
                                         \/ pc[c] = "read" /\ byte[on[c]] > 0

BaseInv == TypeOK /\ StoreInv /\ CmdInv /\ ForkInv
CleanInv == TurnInv /\ OwnInv /\ StartedInv /\ RecordTracksContainer /\ NoOrphan /\ HarmlessDelete

(* Every step keeps what is known of the store and of each command,        *)
(* whatever the callers do.                                                *)
LEMMA BaseStep == BaseInv /\ [Next]_vars => BaseInv'
<1>. SUFFICES ASSUME BaseInv, [Next]_vars PROVE BaseInv'
  OBVIOUS
<1>. USE ConstantsAssumption DEF vars, store, history, BaseInv, TypeOK, Records, Statuses, InitStates, PcStates,
        Kinds, StoreInv, CmdInv, ForkInv, Launcher, Names
<1>1. ASSUME NEW c \in Cmds, NEW k \in {"create", "run"}, NEW p \in Pids, MakeDir(c, k, p) PROVE BaseInv'
  BY <1>1 DEF MakeDir, Begin
<1>2. ASSUME NEW c \in Cmds, WriteCreating(c) PROVE BaseInv'
  BY <1>2 DEF WriteCreating, Write, Goto
<1>3. ASSUME NEW c \in Cmds, MakeFifo(c) PROVE BaseInv'
  BY <1>3 DEF MakeFifo, At, Goto
<1>4. ASSUME NEW c \in Cmds, Fork(c) PROVE BaseInv'
  BY <1>4 DEF Fork, Goto
<1>5. ASSUME NEW c \in Cmds, RecordFails(c) PROVE BaseInv'
  BY <1>5 DEF RecordFails, Return
<1>6. ASSUME NEW c \in Cmds, CreateFails(c) PROVE BaseInv'
  BY <1>6 DEF CreateFails, Remove, Return
<1>7. ASSUME NEW c \in Cmds, CreateWritesCreated(c) PROVE BaseInv'
  BY <1>7 DEF CreateWritesCreated, At, Write, Return
<1>8. ASSUME NEW c \in Cmds, CreateLosesRecord(c) PROVE BaseInv'
  BY <1>8 DEF CreateLosesRecord, At, Return
<1>9. ASSUME NEW c \in Cmds, RunWritesRunning(c) PROVE BaseInv'
  BY <1>9 DEF RunWritesRunning, At, Write, Goto
<1>10. ASSUME NEW c \in Cmds, RunWaits(c) PROVE BaseInv'
  BY <1>10 DEF RunWaits, Goto
<1>11. ASSUME NEW c \in Cmds, RunRemoves(c) PROVE BaseInv'
  BY <1>11 DEF RunRemoves, At, Remove, Return
<1>12. ASSUME NEW c \in Cmds, StartLoad(c) PROVE BaseInv'
  BY <1>12 DEF StartLoad, Load, Begin, effective_status
<1>13. ASSUME NEW c \in Cmds, StartOpen(c) PROVE BaseInv'
  BY <1>13 DEF StartOpen, At
<1>14. ASSUME NEW c \in Cmds, StartNoFifo(c) PROVE BaseInv'
  BY <1>14 DEF StartNoFifo, At, Return
<1>15. ASSUME NEW c \in Cmds, StartRead(c) PROVE BaseInv'
  BY <1>15 DEF StartRead, At, Goto
<1>16. ASSUME NEW c \in Cmds, StartEndOfFile(c) PROVE BaseInv'
  BY <1>16 DEF StartEndOfFile, At, Return
<1>17. ASSUME NEW c \in Cmds, StartUnlink(c) PROVE BaseInv'
  BY <1>17 DEF StartUnlink, At, Goto
<1>18. ASSUME NEW c \in Cmds, StartWrite(c) PROVE BaseInv'
  BY <1>18 DEF StartWrite, At, Write, Return
<1>19. ASSUME NEW c \in Cmds, KillLoad(c) PROVE BaseInv'
  BY <1>19 DEF KillLoad, Load, Begin, effective_status
<1>20. ASSUME NEW c \in Cmds, KillSignal(c) PROVE BaseInv'
  BY <1>20 DEF KillSignal, At, Return, Dead
<1>21. ASSUME NEW c \in Cmds, NEW force \in BOOLEAN, DeleteLoad(c, force) PROVE BaseInv'
  BY <1>21 DEF DeleteLoad, Load, Begin, effective_status
<1>22. ASSUME NEW c \in Cmds, DeleteNotFound(c) \/ DeleteStray(c) PROVE BaseInv'
  <2>1. CASE DeleteNotFound(c)
    BY <2>1 DEF DeleteNotFound, Begin
  <2>2. CASE DeleteStray(c)
    BY <2>2 DEF DeleteStray, At, Remove, Return
  <2>. QED
    BY <1>22, <2>1, <2>2
<1>23. ASSUME NEW c \in Cmds, DeleteKill(c) PROVE BaseInv'
  BY <1>23 DEF DeleteKill, Goto, Dead
<1>24. ASSUME NEW c \in Cmds, DeleteRemove(c) PROVE BaseInv'
  BY <1>24 DEF DeleteRemove, At, Remove, Return
<1>25. ASSUME NEW c \in Cmds, Abort(c) PROVE BaseInv'
  BY <1>25 DEF Abort, Return
<1>26. ASSUME NEW p \in Pids, InitSetUp(p) PROVE BaseInv'
  BY <1>26 DEF InitSetUp
<1>27. ASSUME NEW p \in Pids, InitRuns(p) PROVE BaseInv'
  BY <1>27 DEF InitRuns
<1>28. ASSUME NEW p \in Pids, InitOpens(p) PROVE BaseInv'
  BY <1>28 DEF InitOpens, At, Reading
<1>29. ASSUME NEW p \in Pids, InitConfirms(p) PROVE BaseInv'
  BY <1>29 DEF InitConfirms
<1>30. ASSUME NEW p \in Pids, InitExits(p) PROVE BaseInv'
  BY <1>30 DEF InitExits, Dead
<1>31. CASE UNCHANGED vars
  BY <1>31 DEF vars
<1>. HIDE DEF BaseInv
<1>. QED
  BY <1>1, <1>2, <1>3, <1>4, <1>5, <1>6, <1>7, <1>8, <1>9, <1>10, <1>11, <1>12, <1>13,
     <1>14, <1>15, <1>16, <1>17, <1>18, <1>19, <1>20, <1>21, <1>22, <1>23, <1>24, <1>25,
     <1>26, <1>27, <1>28, <1>29, <1>30, <1>31 DEF Next, Launching, Starting, Killing, Deleting, Container

(* A step leaves the containers that have confirmed a start as they are,   *)
(* but for the one that confirms, and a byte becomes a start or is lost.   *)
LEMMA ConfirmStep == BaseInv /\ ConfirmInv /\ [Next]_vars => ConfirmInv'
<1>. SUFFICES ASSUME BaseInv, ConfirmInv, [Next]_vars PROVE ConfirmInv'
  OBVIOUS
<1>t. /\ init \in [Pids -> InitStates] /\ end \in [Pids -> Pids \cup {None}]
      /\ byte \in [Pids -> Nat] /\ starts \in [Pids -> Nat]
      /\ on \in [Cmds -> Pids \cup {None}] /\ seen \in [Cmds -> Records \cup {None}]
  BY DEF BaseInv, TypeOK
<1>c. \A f \in Pids : Cardinality(Confirmed(f)) \in Nat
  BY FS_CardinalityType DEF ConfirmInv
<1>same. ASSUME \A f \in Pids : /\ Confirmed(f)' = Confirmed(f)
                                /\ starts'[f] \in Nat /\ byte'[f] \in Nat
                                /\ starts'[f] + byte'[f] <= starts[f] + byte[f]
         PROVE  ConfirmInv'
  BY <1>same, <1>t, <1>c DEF ConfirmInv
<1>init. ASSUME end' = end, byte' = byte, starts' = starts,
                \A p \in Pids : init'[p] \in {"started", "exited"} <=> init[p] \in {"started", "exited"}
         PROVE  ConfirmInv'
  BY <1>init, <1>same, <1>t DEF Confirmed
<1>1. ASSUME NEW c \in Cmds, Fork(c) PROVE ConfirmInv'
  <2>1. on[c] \in Pids /\ init[on[c]] = "unborn"
    BY <1>1, <1>t DEF Fork, BaseInv, CmdInv, ForkInv, Launcher, TypeOK, Kinds
  <2>. QED
    BY <1>1, <2>1, <1>t, <1>init DEF Fork, history
<1>2. ASSUME NEW p \in Pids, init' = [init EXCEPT ![p] = Dead(p)], UNCHANGED <<end, byte, starts>>
      PROVE  ConfirmInv'
  BY <1>2, <1>t, <1>init DEF Dead
<1>3. ASSUME NEW c \in Cmds, KillSignal(c) \/ DeleteKill(c) PROVE ConfirmInv'
  <2>1. seen[c].pid \in Pids
    BY <1>3, <1>t DEF KillSignal, DeleteKill, At, BaseInv, CmdInv, Records
  <2>. QED
    BY <1>3, <2>1, <1>2, <1>init DEF KillSignal, DeleteKill, history
<1>4. ASSUME NEW p \in Pids, InitOpens(p) PROVE ConfirmInv'
  BY <1>4, <1>t, <1>init DEF InitOpens, history
<1>5. ASSUME NEW p \in Pids, InitExits(p) PROVE ConfirmInv'
  BY <1>5, <1>2 DEF InitExits, history
<1>6. ASSUME NEW p \in Pids, InitSetUp(p) PROVE ConfirmInv'
  BY <1>6, <1>t, <1>same DEF InitSetUp, history, Confirmed
<1>7. ASSUME NEW p \in Pids, InitRuns(p) PROVE ConfirmInv'
  <2>1. end[p] = None
    BY <1>7 DEF InitRuns, BaseInv, ForkInv
  <2>. QED
    BY <1>7, <2>1, <1>t, <1>same, ConstantsAssumption DEF InitRuns, history, Confirmed
<1>8. ASSUME NEW p \in Pids, InitConfirms(p) PROVE ConfirmInv'
  <2>1. end[p] \in Pids /\ init[p] = "open"
    BY <1>8, <1>t DEF InitConfirms, BaseInv, ForkInv
  <2>2. CASE init' = [init EXCEPT ![p] = "gone"] /\ byte' = byte
    BY <1>8, <2>1, <2>2, <1>t, <1>init DEF InitConfirms, history
  <2>3. CASE init' = [init EXCEPT ![p] = "started"] /\ byte' = [byte EXCEPT ![end[p]] = @ + 1]
    <3>1. end' = end /\ starts' = starts
      BY <1>8 DEF InitConfirms, history
    <3>2. ASSUME NEW f \in Pids, f # end[p] PROVE Confirmed(f)' = Confirmed(f) /\ byte'[f] = byte[f]
      BY <2>3, <3>1, <3>2, <1>t DEF Confirmed
    <3>3. /\ Confirmed(end[p])' = Confirmed(end[p]) \cup {p}
          /\ p \notin Confirmed(end[p])
      BY <2>1, <2>3, <3>1, <1>t DEF Confirmed
    <3>4. /\ IsFiniteSet(Confirmed(end[p])')
          /\ Cardinality(Confirmed(end[p])') = Cardinality(Confirmed(end[p])) + 1
      BY <2>1, <3>3, FS_AddElement DEF ConfirmInv
    <3>5. byte'[end[p]] = byte[end[p]] + 1
      BY <2>1, <2>3, <1>t
    <3>6. ASSUME NEW f \in Pids
          PROVE  IsFiniteSet(Confirmed(f)') /\ starts'[f] + byte'[f] <= Cardinality(Confirmed(f)')
      <4>1. CASE f = end[p]
        BY <4>1, <3>1, <3>4, <3>5, <1>t, <1>c DEF ConfirmInv
      <4>2. CASE f # end[p]
        BY <4>2, <3>1, <3>2 DEF ConfirmInv
      <4>. QED
        BY <4>1, <4>2
    <3>. QED
      BY <3>6 DEF ConfirmInv
  <2>. QED
    BY <1>8, <2>2, <2>3 DEF InitConfirms
<1>9. ASSUME NEW c \in Cmds, StartRead(c) PROVE ConfirmInv'
  <2>1. on[c] \in Pids
    BY <1>9, <1>t DEF StartRead, At, BaseInv, CmdInv
  <2>2. end' = end /\ init' = init
    BY <1>9 DEF StartRead
  <2>. QED
    BY <1>9, <2>1, <2>2, <1>t, <1>same DEF StartRead, Confirmed
<1>10. ASSUME NEW c \in Cmds, Abort(c) PROVE ConfirmInv'
  <2>1. end' = end /\ init' = init /\ starts' = starts
    BY <1>10 DEF Abort
  <2>2. \A f \in Pids : byte'[f] \in {0, byte[f]}
    BY <1>10 DEF Abort
  <2>. QED
    BY <2>1, <2>2, <1>t, <1>same DEF Confirmed
<1>11. ASSUME UNCHANGED <<init, end, byte, starts>> PROVE ConfirmInv'
  BY <1>11, <1>init
<1>12. ASSUME NEW c \in Cmds, Launching(c), ~Fork(c) PROVE UNCHANGED <<init, end, byte, starts>>
  BY <1>12 DEF Launching, MakeDir, WriteCreating, MakeFifo, RecordFails, CreateFails, CreateWritesCreated,
     CreateLosesRecord, RunWritesRunning, RunWaits, RunRemoves, history
<1>13. ASSUME NEW c \in Cmds, StartLoad(c) \/ Starting(c), ~StartRead(c)
       PROVE  UNCHANGED <<init, end, byte, starts>>
  BY <1>13 DEF StartLoad, Starting, Load, StartOpen, StartNoFifo, StartEndOfFile, StartUnlink, StartWrite, history
<1>14. ASSUME NEW c \in Cmds, Killing(c) \/ Deleting(c), ~KillSignal(c), ~DeleteKill(c)
       PROVE  UNCHANGED <<init, end, byte, starts>>
  BY <1>14 DEF Killing, Deleting, KillLoad, DeleteLoad, Load, DeleteNotFound, DeleteStray, DeleteRemove, history
<1>15. CASE UNCHANGED vars
  BY <1>15, <1>11 DEF vars
<1>. QED
  BY <1>1, <1>3, <1>4, <1>5, <1>6, <1>7, <1>8, <1>9, <1>10, <1>11, <1>12, <1>13, <1>14, <1>15 DEF Next, Container

(* Under the discipline every step keeps the directory, the record and the *)
(* process of a container together.                                        *)
LEMMA CleanStep == BaseInv /\ CleanInv /\ clean /\ clean' /\ [Next]_vars => CleanInv'
<1>. SUFFICES ASSUME BaseInv, CleanInv, clean, clean', [Next]_vars PROVE CleanInv'
  OBVIOUS
<1>. USE ConstantsAssumption DEF vars, store, history, BaseInv, TypeOK, Records, Statuses, InitStates, PcStates,
        Kinds, StoreInv, CmdInv, ForkInv, Launcher, Names, Alive, CleanInv, TurnInv, OwnInv, StartedInv,
        RecordTracksContainer, NoOrphan, HarmlessDelete
<1>1. ASSUME NEW c \in Cmds, NEW k \in {"create", "run"}, NEW p \in Pids, MakeDir(c, k, p) PROVE CleanInv'
  BY <1>1 DEF MakeDir, Begin, Disciplined, Alone
<1>2. ASSUME NEW c \in Cmds, WriteCreating(c) PROVE CleanInv'
  BY <1>2 DEF WriteCreating, Write, Goto
<1>3. ASSUME NEW c \in Cmds, MakeFifo(c) PROVE CleanInv'
  BY <1>3 DEF MakeFifo, At, Goto
<1>4. ASSUME NEW c \in Cmds, Fork(c) PROVE CleanInv'
  BY <1>4 DEF Fork, Goto
<1>5. ASSUME NEW c \in Cmds, RecordFails(c) PROVE CleanInv'
  BY <1>5 DEF RecordFails, Return
<1>6. ASSUME NEW c \in Cmds, CreateFails(c) PROVE CleanInv'
  BY <1>6 DEF CreateFails, Remove, Return
<1>7. ASSUME NEW c \in Cmds, CreateWritesCreated(c) PROVE CleanInv'
  BY <1>7 DEF CreateWritesCreated, At, Write, Return
<1>8. ASSUME NEW c \in Cmds, CreateLosesRecord(c) PROVE CleanInv'
  BY <1>8 DEF CreateLosesRecord, At, Return
<1>9. ASSUME NEW c \in Cmds, RunWritesRunning(c) PROVE CleanInv'
  BY <1>9 DEF RunWritesRunning, At, Write, Goto
<1>10. ASSUME NEW c \in Cmds, RunWaits(c) PROVE CleanInv'
  BY <1>10 DEF RunWaits, Goto
<1>11. ASSUME NEW c \in Cmds, RunRemoves(c) PROVE CleanInv'
  BY <1>11 DEF RunRemoves, At, Remove, Return
<1>12. ASSUME NEW c \in Cmds, StartLoad(c) PROVE CleanInv'
  BY <1>12 DEF StartLoad, Load, Begin, Disciplined, Alone, effective_status
<1>13. ASSUME NEW c \in Cmds, StartOpen(c) PROVE CleanInv'
  BY <1>13 DEF StartOpen, At
<1>14. ASSUME NEW c \in Cmds, StartNoFifo(c) PROVE CleanInv'
  BY <1>14 DEF StartNoFifo, At, Return
<1>15. ASSUME NEW c \in Cmds, StartRead(c) PROVE CleanInv'
  BY <1>15 DEF StartRead, At, Goto
<1>16. ASSUME NEW c \in Cmds, StartEndOfFile(c) PROVE CleanInv'
  BY <1>16 DEF StartEndOfFile, At, Return
<1>17. ASSUME NEW c \in Cmds, StartUnlink(c) PROVE CleanInv'
  BY <1>17 DEF StartUnlink, At, Goto
<1>18. ASSUME NEW c \in Cmds, StartWrite(c) PROVE CleanInv'
  BY <1>18 DEF StartWrite, At, Write, Return
<1>19. ASSUME NEW c \in Cmds, KillLoad(c) PROVE CleanInv'
  BY <1>19 DEF KillLoad, Load, Begin, Disciplined, Alone, effective_status
<1>20. ASSUME NEW c \in Cmds, KillSignal(c) PROVE CleanInv'
  BY <1>20 DEF KillSignal, At, Return, Dead
<1>21. ASSUME NEW c \in Cmds, NEW force \in BOOLEAN, DeleteLoad(c, force) PROVE CleanInv'
  <2>1. TurnInv'
    BY <1>21 DEF DeleteLoad, Load, Begin, Disciplined, Alone, effective_status
  <2>2. OwnInv'
    BY <1>21 DEF DeleteLoad, Load, Begin, Disciplined, Alone, effective_status
  <2>3. StartedInv'
    BY <1>21 DEF DeleteLoad, Load, Begin, Disciplined, Alone, effective_status
  <2>4. RecordTracksContainer'
    BY <1>21 DEF DeleteLoad, Load, Begin, Disciplined, Alone, effective_status
  <2>5. NoOrphan'
    BY <1>21 DEF DeleteLoad, Load, Begin, Disciplined, Alone, effective_status
  <2>6. HarmlessDelete'
    BY <1>21 DEF DeleteLoad, Load, Begin, Disciplined, Alone, effective_status
  <2>. QED
    BY <2>1, <2>2, <2>3, <2>4, <2>5, <2>6 DEF CleanInv
<1>22. ASSUME NEW c \in Cmds, DeleteNotFound(c) \/ DeleteStray(c) PROVE CleanInv'
  <2>1. CASE DeleteNotFound(c)
    <3>1. TurnInv'
      BY <2>1 DEF DeleteNotFound, Begin, Disciplined, Alone
    <3>2. OwnInv'
      BY <2>1 DEF DeleteNotFound, Begin, Disciplined, Alone
    <3>3. StartedInv'
      BY <2>1 DEF DeleteNotFound, Begin, Disciplined, Alone
    <3>4. RecordTracksContainer'
      BY <2>1 DEF DeleteNotFound, Begin, Disciplined, Alone
    <3>5. NoOrphan'
      BY <2>1 DEF DeleteNotFound, Begin, Disciplined, Alone
    <3>6. HarmlessDelete'
      BY <2>1 DEF DeleteNotFound, Begin, Disciplined, Alone
    <3>. QED
      BY <3>1, <3>2, <3>3, <3>4, <3>5, <3>6 DEF CleanInv
  <2>2. CASE DeleteStray(c)
    BY <2>2 DEF DeleteStray, At, Remove, Return
  <2>. QED
    BY <1>22, <2>1, <2>2
<1>23. ASSUME NEW c \in Cmds, DeleteKill(c) PROVE CleanInv'
  BY <1>23 DEF DeleteKill, Goto, Dead
<1>24. ASSUME NEW c \in Cmds, DeleteRemove(c) PROVE CleanInv'
  BY <1>24 DEF DeleteRemove, At, Remove, Return
<1>25. ASSUME NEW c \in Cmds, Abort(c) PROVE CleanInv'
  <2>9. kind[c] \in {"kill", "delete"} /\ byte' = byte
    BY <1>25 DEF Abort, Reading
  <2>1. TurnInv'
    BY <1>25, <2>9 DEF Abort, Return
  <2>2. OwnInv'
    BY <1>25, <2>9 DEF Abort, Return
  <2>3. StartedInv'
    <3>1. rec' = rec /\ init' = init /\ \A d \in Cmds \ {c} : kind'[d] = kind[d] /\ pc'[d] = pc[d] /\ on'[d] = on[d]
      BY <1>25 DEF Abort, Return
    <3>. QED
      BY <2>9, <3>1
  <2>4. RecordTracksContainer'
    BY <1>25, <2>9 DEF Abort, Return
  <2>5. NoOrphan'
    BY <1>25, <2>9 DEF Abort, Return
  <2>6. HarmlessDelete'
    BY <1>25, <2>9 DEF Abort, Return
  <2>. QED
    BY <2>1, <2>2, <2>3, <2>4, <2>5, <2>6 DEF CleanInv
<1>26. ASSUME NEW p \in Pids, InitSetUp(p) PROVE CleanInv'
  BY <1>26 DEF InitSetUp
<1>27. ASSUME NEW p \in Pids, InitRuns(p) PROVE CleanInv'
  BY <1>27 DEF InitRuns
<1>28. ASSUME NEW p \in Pids, InitOpens(p) PROVE CleanInv'
  BY <1>28 DEF InitOpens, At, Reading
<1>29. ASSUME NEW p \in Pids, InitConfirms(p) PROVE CleanInv'
  BY <1>29 DEF InitConfirms, Reading
<1>30. ASSUME NEW p \in Pids, InitExits(p) PROVE CleanInv'
  BY <1>30 DEF InitExits, Dead
<1>31. CASE UNCHANGED vars
  BY <1>31 DEF vars
<1>. HIDE DEF CleanInv, BaseInv
<1>. QED
  BY <1>1, <1>2, <1>3, <1>4, <1>5, <1>6, <1>7, <1>8, <1>9, <1>10, <1>11, <1>12, <1>13,
     <1>14, <1>15, <1>16, <1>17, <1>18, <1>19, <1>20, <1>21, <1>22, <1>23, <1>24, <1>25,
     <1>26, <1>27, <1>28, <1>29, <1>30, <1>31 DEF Next, Launching, Starting, Killing, Deleting, Container

(* The initial state satisfies all of it.                                  *)
LEMMA InitInv == Init => BaseInv /\ ConfirmInv /\ CleanInv
<1>. SUFFICES ASSUME Init PROVE BaseInv /\ ConfirmInv /\ CleanInv
  OBVIOUS
<1>. USE ConstantsAssumption DEF Init
<1>1. harmed \in BOOLEAN /\ clean \in BOOLEAN
  BY Zenon
<1>2. BaseInv
  BY <1>1 DEF BaseInv, TypeOK, Records, InitStates, PcStates, StoreInv, CmdInv, ForkInv, Launcher, Kinds
<1>3. ConfirmInv
  <2>1. \A f \in Pids : Confirmed(f) = {}
    BY DEF Confirmed
  <2>. QED
    BY <2>1, FS_EmptySet DEF ConfirmInv
<1>4. CleanInv
  BY DEF CleanInv, TurnInv, OwnInv, StartedInv, RecordTracksContainer, NoOrphan, HarmlessDelete, Alive, Launcher, Kinds
<1>. QED
  BY <1>2, <1>3, <1>4

(* What no caller can break, in every reachable state.                     *)
LEMMA Invariance == Spec => [](BaseInv /\ ConfirmInv)
  BY InitInv, BaseStep, ConfirmStep, PTL DEF Spec

(* What disciplined callers can rely on, in every reachable state: once    *)
(* the discipline is lost it stays lost.                                   *)
LEMMA CleanInvariance == Spec => [](clean => CleanInv)
<1>1. [Next]_vars => (clean' => clean)
  <2>. USE DEF Load, Begin, vars, history
  <2>1. ASSUME NEW c \in Cmds, Launching(c) \/ Abort(c) PROVE clean' => clean
    BY <2>1 DEF Launching, MakeDir, WriteCreating, MakeFifo, Fork, RecordFails, CreateFails, CreateWritesCreated,
       CreateLosesRecord, RunWritesRunning, RunWaits, RunRemoves, Abort
  <2>2. ASSUME NEW c \in Cmds, StartLoad(c) \/ Starting(c) PROVE clean' => clean
    BY <2>2 DEF StartLoad, Starting, StartOpen, StartNoFifo, StartRead, StartEndOfFile, StartUnlink, StartWrite
  <2>3. ASSUME NEW c \in Cmds, Killing(c) \/ Deleting(c) PROVE clean' => clean
    BY <2>3 DEF Killing, KillLoad, KillSignal, Deleting, DeleteLoad, DeleteNotFound, DeleteStray, DeleteKill, DeleteRemove
  <2>4. ASSUME NEW p \in Pids, Container(p) \/ InitExits(p) PROVE clean' => clean
    BY <2>4 DEF Container, InitSetUp, InitRuns, InitOpens, InitConfirms, InitExits
  <2>. QED
    BY <2>1, <2>2, <2>3, <2>4 DEF Next
<1>2. BaseInv /\ (clean => CleanInv) /\ [Next]_vars => (clean => CleanInv)'
  BY <1>1, CleanStep
<1>. QED
  BY InitInv, Invariance, <1>2, PTL DEF Spec

(* The state store, the fifo and the commands keep their types, whichever  *)
(* of them overlap and wherever they are killed.                           *)
THEOREM Typing == Spec => []TypeOK
  BY Invariance, PTL DEF BaseInv

(* A start succeeds only on the confirmation of a container process that   *)
(* has gone on to its command, and each confirmation serves one start,     *)
(* whatever commands run, and are killed, at the same time.                *)
THEOREM StartsAreConfirmed == Spec => []StartsConfirmed
<1>1. ConfirmInv => StartsConfirmed
  BY DEF ConfirmInv, StartsConfirmed, Confirmed
<1>. QED
  BY Invariance, <1>1, PTL

(* Under the discipline a record names the process of the container whose  *)
(* directory it is in.                                                     *)
THEOREM RecordsTrack == Spec => []RecordTracksContainer
<1>1. (clean => CleanInv) => RecordTracksContainer
  BY DEF CleanInv, RecordTracksContainer
<1>. QED
  BY CleanInvariance, <1>1, PTL

(* Under the discipline a container process that is alive is the one its   *)
(* record names, or its launch is under way: none escapes a later kill.    *)
THEOREM NoneOrphaned == Spec => []NoOrphan
<1>1. (clean => CleanInv) => NoOrphan
  BY DEF CleanInv, NoOrphan
<1>. QED
  BY CleanInvariance, <1>1, PTL

(* Under the discipline a delete without --force kills no container whose  *)
(* command has started: a record that reads created is not stale then.     *)
THEOREM DeleteIsHarmless == Spec => []HarmlessDelete
<1>1. (clean => CleanInv) => HarmlessDelete
  BY DEF CleanInv, HarmlessDelete
<1>. QED
  BY CleanInvariance, <1>1, PTL

=============================================================================
