-------------------------- MODULE LifecycleProofs --------------------------
(***************************************************************************)
(* Proofs about Lifecycle, for any number of processes, pids and commands, *)
(* wherever commands are killed.  Nothing locks the state directory, so    *)
(* what holds needs a caller that does not delete an id while it is being  *)
(* created (Careful); within that, creations of the same id may race when  *)
(* no command deletes, and everything else may race always.                *)
(***************************************************************************)
EXTENDS Lifecycle, FiniteSetTheorems, TLAPS

(* Creations overlap nothing, or nothing is deleted. *)
Careful == Orderly \/ Kinds \cap {"delete", "force"} = {}

-----------------------------------------------------------------------------
(* The inductive invariant *)

Handle == [kind : Commands \cup {"none"}, pc : Counters, st : States,
           pid : Pids \cup {0}, start : Starts \cup {0}, fd : Starts \cup {0}]

(* Where a creation is after its Mkdir has succeeded. *)
OwnPcs == {"mkfifo", "spawn", "save0", "apply", "save", "run", "finish", "abort",
           "abortWait", "dCgroup", "dRemove"}

Owner(p) == InCreate(p) /\ cmd[p].pc \in OwnPcs

(* A creation before manager.Apply, and before it has named its init. *)
Unjoined == {"mkfifo", "spawn", "save0", "apply"}
Unsaved == Unjoined \cup {"save"}

(* A creation that has given its init a start time and may have to kill it. *)
Named == OwnPcs \ {"mkfifo", "dCgroup", "dRemove"}

(* A command of kind k stays on its own path through the code. *)
Path(k, l, fd) ==
  /\ k \in Kinds \cup {"none"}
  /\ k = "create" => l \in OwnPcs \cup {"stat", "mkdir"}
  /\ l \in (OwnPcs \ {"dCgroup", "dRemove"}) \cup {"stat", "mkdir"} => k = "create"
  /\ l \in {"signal", "send", "thawKilled"} => k \in {"kill", "delete", "force"}
  /\ l \in {"rmall", "poll", "destroy"} => k \in {"delete", "force"}
  /\ l \in {"dCgroup", "dRemove"} => k \in {"create", "delete", "force"}
  /\ l = "read" => fd # 0

PathsFit ==
  \A p \in Procs :
    /\ cmd[p].pc = "idle" => cmd[p] = Idle
    /\ Path(cmd[p].kind, cmd[p].pc, cmd[p].fd)

(* No id is deleted while it is created. *)
NoDeleteInCreate ==
  \A p, q \in Procs : InCreate(p) /\ q # p => cmd[q].kind \notin {"delete", "force"}

(* The one creation that owns the directory. *)
OwnersFit ==
  \A p \in Procs : Owner(p) =>
    /\ dir = "present"
    /\ \A q \in Procs : Owner(q) => q = p
    /\ InCgroup \subseteq {cmd[p].start}
    /\ cmd[p].pc \in Unjoined => InCgroup = {}
    /\ cmd[p].pc \in Unsaved => json.start = 0
    /\ cmd[p].pc \in {"apply", "save"} => json.file = "present"
    /\ cmd[p].pc \in Named => cmd[p].start \in Starts
    /\ cmd[p].pc = "spawn" =>
         cmd[p].start < next /\ phase[cmd[p].start] = "unborn"
    /\ cmd[p].pc \in {"save0", "apply", "save", "run"} =>
         /\ cmd[p].pid \in Pids
         /\ phase[cmd[p].start] \in {"spawned", "setup", "dead"}
         /\ phase[cmd[p].start] # "dead" => occ[cmd[p].pid] = cmd[p].start
    /\ cmd[p].pc = "save" => phase[cmd[p].start] # "spawned"
    /\ cmd[p].pc = "run" =>
         json = [pid |-> cmd[p].pid, start |-> cmd[p].start, file |-> "present"]

(* What is on disk, and what is in the cgroup. *)
DiskFits ==
  /\ dir = "absent" => json = NoFile
  /\ json.file = "absent" => json = NoFile /\ InCgroup = {}
  /\ \A p \in Procs : cmd[p].pc \in {"rmall", "dRemove"} => InCgroup = {}
  /\ \A x, y \in InCgroup : x = y

(* Start times are given out once. *)
HostFits ==
  /\ \A x \in Starts : x >= next => phase[x] = "unborn"
  /\ \A i \in Pids : occ[i] # 0 => phase[occ[i]] # "unborn"
  /\ \A x \in doomed : phase[x] # "unborn"

LInv ==
  /\ TypeOK /\ PathsFit /\ NoDeleteInCreate /\ OwnersFit /\ DiskFits /\ HostFits
  /\ StateNamesInit

(* The initial state satisfies it.                                         *)
LEMMA InitLInv == Init => LInv
<1> SUFFICES ASSUME Init PROVE LInv
  OBVIOUS
<1> USE LifecycleAssumption DEF LifecycleAssumption, Init, Idle, NoFile, Starts
<1>1. TypeOK
  BY DEF TypeOK, States, Counters, Live
<1>2. InCgroup = {}
  BY DEF InCgroup
<1>3. PathsFit /\ NoDeleteInCreate /\ OwnersFit
  BY DEF PathsFit, Path, OwnPcs, NoDeleteInCreate, InCreate, OwnersFit, Owner
<1>4. DiskFits /\ HostFits /\ StateNamesInit
  BY <1>2 DEF DiskFits, HostFits, StateNamesInit
<1>5. QED
  BY <1>1, <1>3, <1>4 DEF LInv

-----------------------------------------------------------------------------
(* Steps that move one command and leave the disk and the processes alone  *)

Quiet ==
  /\ UNCHANGED <<dir, json, occ, phase, next>>
  /\ fifo' \in Starts \cup {0} /\ cgroup' \in {"absent", "thawed", "frozen"}
  /\ doomed' \subseteq Starts /\ \A x \in doomed' : phase[x] # "unborn"

(* The later places of a creation, where it needs nothing but the directory. *)
Late == {"finish", "abort", "abortWait", "dCgroup", "dRemove"}

(* Such a step preserves the invariant if the new handle is on its path.   *)
LEMMA QuietLInv ==
  ASSUME LInv, Quiet, NEW p \in Procs, NEW h \in Handle,
         cmd' = [cmd EXCEPT ![p] = h],
         h.pc = "idle" => h = Idle,
         Path(h.kind, h.pc, h.fd),
         h.kind \in {cmd[p].kind, "none"} \/ NoDeleteInCreate',
         h.pc \in {"rmall", "dRemove"} => InCgroup = {},
         h.kind = "create" /\ h.pc \in OwnPcs =>
           /\ Owner(p) /\ h.start = cmd[p].start /\ h.pc \in Late
           /\ h.pc \in Named => cmd[p].pc \in Named
  PROVE  LInv'
<1> USE DEF LInv, Quiet
<1>1. cmd \in [Procs -> Handle]
  BY DEF TypeOK, Handle
<1>2. cmd'[p] = h /\ \A q \in Procs \ {p} : cmd'[q] = cmd[q]
  BY <1>1
<1>3. TypeOK'
  BY <1>1 DEF TypeOK, Handle
<1>4. PathsFit' /\ NoDeleteInCreate'
  BY <1>2 DEF PathsFit, NoDeleteInCreate, InCreate, Path, Idle
<1>5. InCgroup' = InCgroup
  BY DEF InCgroup
<1>6. \A q \in Procs : Owner(q)' => Owner(q) /\ cmd'[q].start = cmd[q].start
  BY <1>2 DEF Owner, InCreate
<1>7. OwnersFit'
  BY <1>2, <1>5, <1>6 DEF OwnersFit, Owner, InCreate, Late, Unjoined,
     Unsaved, Named, OwnPcs
<1>8. DiskFits' /\ HostFits' /\ StateNamesInit'
  BY <1>2, <1>5 DEF DiskFits, HostFits, StateNamesInit
<1>9. QED
  BY <1>3, <1>4, <1>7, <1>8

(* A return of a command preserves it.                                     *)
LEMMA ReturnLInv ==
  ASSUME LInv, Quiet, NEW p \in Procs, Return(p)
  PROVE  LInv'
<1>1. Idle \in Handle /\ Idle.kind = "none" /\ Idle.pc = "idle" /\ Idle.fd = 0
  BY DEF Idle, Handle, Counters, States
<1>2. Path(Idle.kind, Idle.pc, Idle.fd)
  BY <1>1 DEF Path, OwnPcs
<1>3. QED
  BY <1>1, <1>2, QuietLInv DEF Return

(* So does a move along the path of the command.                           *)
LEMMA GotoLInv ==
  ASSUME LInv, Quiet, NEW p \in Procs, NEW l \in Counters \ {"idle"}, Goto(p, l),
         Path(cmd[p].kind, l, cmd[p].fd),
         l \in {"rmall", "dRemove"} => InCgroup = {},
         InCreate(p) /\ l \in OwnPcs =>
           Owner(p) /\ l \in Late /\ (l \in Named => cmd[p].pc \in Named)
  PROVE  LInv'
<1> DEFINE h == [cmd[p] EXCEPT !.pc = l]
<1>1. cmd[p] \in Handle
  BY DEF LInv, TypeOK, Handle
<1>2. h \in Handle /\ h.pc = l /\ h.kind = cmd[p].kind /\ h.fd = cmd[p].fd /\ h.start = cmd[p].start
  BY <1>1 DEF Handle
<1>3. cmd' = [cmd EXCEPT ![p] = h]
  BY DEF Goto
<1> HIDE DEF h
<1>4. QED
  BY <1>2, <1>3, QuietLInv DEF InCreate

(* So does a refreshState, which moves the handle to a state of            *)
(* state_linux.go or returns an error.                                     *)
LEMMA RefreshedLInv ==
  ASSUME LInv, Quiet, NEW p \in Procs, NEW to \in States, NEW l \in Counters \ {"idle"},
         Refreshed(p, to, l), ~InCreate(p), l \notin {"rmall", "dRemove"},
         Path(cmd[p].kind, l, cmd[p].fd)
  PROVE  LInv'
<1> DEFINE h == [cmd[p] EXCEPT !.st = to, !.pc = l]
<1>1. cmd[p] \in Handle
  BY DEF LInv, TypeOK, Handle
<1>2. CASE Return(p)
  BY <1>2, ReturnLInv
<1>3. CASE ~Return(p)
  <2>1. transition(cmd[p].st, to) = to /\ cmd' = [cmd EXCEPT ![p] = h]
    BY <1>3 DEF Refreshed, transition
  <2>2. h \in Handle /\ h.pc = l /\ h.kind = cmd[p].kind /\ h.fd = cmd[p].fd
    BY <1>1 DEF Handle
  <2> HIDE DEF h
  <2>3. QED
    BY <2>1, <2>2, QuietLInv DEF InCreate
<1>4. QED
  BY <1>2, <1>3

(* Where a command goes after Load and after Status is on its path.        *)
LEMMA ThenOnPath ==
  ASSUME LInv, NEW p \in Procs, NEW l \in {"load", "stat"}, NEW to \in States,
         cmd[p].kind # "create"
  PROVE  /\ Then(p, l, to) \in Counters \ {"idle", "rmall", "dRemove"}
         /\ Path(cmd[p].kind, Then(p, l, to), cmd[p].fd)
BY DEF LInv, PathsFit, Path, OwnPcs, Then, AfterLoad, AfterStatus, Counters

(* The steps of the commands other than create that leave the disk and the *)
(* processes alone.                                                        *)
LEMMA CommandQuiet ==
  ASSUME LInv, NEW p \in Procs,
         \/ Load(p) \/ RefreshPaused(p) \/ RefreshInit(p) \/ RefreshFifo(p)
         \/ ReturnStatus(p) \/ ExecOpen(p) \/ ExecDead(p) \/ ExecRemove(p)
         \/ SignalCheck(p) \/ SignalSend(p) \/ SignalThaw(p) \/ KillContainerPoll(p)
         \/ DestroyRunning(p) \/ DestroyPaused(p) \/ DestroyCreated(p)
         \/ DestroyCgroup(p) \/ Freeze(p) \/ Thaw(p)
  PROVE  LInv'
<1> USE DEF At, disk, host
<1>1. cmd[p] \in Handle /\ Path(cmd[p].kind, cmd[p].pc, cmd[p].fd)
  BY DEF LInv, TypeOK, Handle, PathsFit
<1>2. fifo \in Starts \cup {0} /\ cgroup \in {"absent", "thawed", "frozen"}
      /\ doomed \subseteq Starts /\ \A x \in doomed : phase[x] # "unborn"
  BY DEF LInv, TypeOK, HostFits
<1>3. ASSUME NEW i \in Pids \cup {0}, SignalPid(i)
      PROVE  doomed' \subseteq Starts /\ \A x \in doomed' : phase[x] # "unborn"
  BY <1>2, <1>3 DEF SignalPid, LInv, TypeOK, HostFits
<1>4. CASE Load(p)
  <2>1. Quiet
    BY <1>2, <1>4 DEF Load, Quiet
  <2>2. CASE json.file = "absent" /\ cmd[p].kind \in {"delete", "force"}
    <3>1. Goto(p, "rmall") /\ InCgroup = {} /\ ~InCreate(p)
      BY <1>4, <2>2 DEF Load, LInv, DiskFits, InCreate
    <3>2. Path(cmd[p].kind, "rmall", cmd[p].fd)
      BY <1>1, <2>2 DEF Path, OwnPcs
    <3>3. QED
      BY <2>1, <3>1, <3>2, GotoLInv DEF Counters
  <2>3. CASE json.file = "absent" /\ cmd[p].kind \notin {"delete", "force"}
    BY <1>4, <2>1, <2>3, ReturnLInv DEF Load
  <2>4. CASE json.file # "absent"
    <3> DEFINE h == [cmd[p] EXCEPT !.pid = json.pid, !.start = json.start, !.pc = "loadPaused"]
    <3>1. h \in Handle /\ h.pc = "loadPaused" /\ h.kind = cmd[p].kind /\ h.fd = cmd[p].fd
      BY <1>1 DEF Handle, Counters, LInv, TypeOK
    <3>2. cmd' = [cmd EXCEPT ![p] = h]
      BY <1>4, <2>4 DEF Load
    <3>3. Path(cmd[p].kind, "loadPaused", cmd[p].fd)
      BY <1>1, <1>4 DEF Path, OwnPcs, Load
    <3> HIDE DEF h
    <3>4. QED
      BY <2>1, <3>1, <3>2, <3>3, QuietLInv DEF OwnPcs
  <2>5. QED
    BY <2>2, <2>3, <2>4
<1>5. CASE RefreshPaused(p)
  <2>1. PICK l \in {"load", "stat"} :
          /\ At(p, IF l = "load" THEN "loadPaused" ELSE "statPaused")
          /\ IF cgroup = "frozen"
               THEN Refreshed(p, "paused", Then(p, l, "paused"))
               ELSE Goto(p, IF l = "load" THEN "loadInit" ELSE "statInit")
    BY <1>5 DEF RefreshPaused
  <2>2. Quiet /\ ~InCreate(p) /\ cmd[p].kind # "create"
    BY <1>1, <1>2, <1>5, <2>1 DEF RefreshPaused, Quiet, Path, OwnPcs, InCreate
  <2>3. Path(cmd[p].kind, "loadInit", cmd[p].fd) /\ Path(cmd[p].kind, "statInit", cmd[p].fd)
    BY <1>1, <2>2 DEF Path, OwnPcs
  <2>4. CASE cgroup = "frozen"
    BY <2>1, <2>2, <2>4, ThenOnPath, RefreshedLInv DEF States
  <2>5. CASE cgroup # "frozen"
    BY <2>1, <2>2, <2>3, <2>5, GotoLInv DEF Counters
  <2>6. QED
    BY <2>4, <2>5
<1>6. CASE RefreshInit(p)
  <2>1. PICK l \in {"load", "stat"} :
          /\ At(p, IF l = "load" THEN "loadInit" ELSE "statInit")
          /\ IF hasInit(p)
               THEN Goto(p, IF l = "load" THEN "loadFifo" ELSE "statFifo")
               ELSE Refreshed(p, "stopped", Then(p, l, "stopped"))
    BY <1>6 DEF RefreshInit
  <2>2. Quiet /\ ~InCreate(p) /\ cmd[p].kind # "create"
    BY <1>1, <1>2, <1>6, <2>1 DEF RefreshInit, Quiet, Path, OwnPcs, InCreate
  <2>3. Path(cmd[p].kind, "loadFifo", cmd[p].fd) /\ Path(cmd[p].kind, "statFifo", cmd[p].fd)
    BY <1>1, <2>2 DEF Path, OwnPcs
  <2>4. CASE hasInit(p)
    BY <2>1, <2>2, <2>3, <2>4, GotoLInv DEF Counters
  <2>5. CASE ~hasInit(p)
    BY <2>1, <2>2, <2>5, ThenOnPath, RefreshedLInv DEF States
  <2>6. QED
    BY <2>4, <2>5
<1>7. CASE RefreshFifo(p)
  <2>1. PICK l \in {"load", "stat"}, to \in {"created", "running"} :
          /\ At(p, IF l = "load" THEN "loadFifo" ELSE "statFifo")
          /\ Refreshed(p, to, Then(p, l, to))
    BY <1>7 DEF RefreshFifo
  <2>2. Quiet /\ ~InCreate(p) /\ cmd[p].kind # "create"
    BY <1>1, <1>2, <1>7, <2>1 DEF RefreshFifo, Quiet, Path, OwnPcs, InCreate
  <2>3. QED
    BY <2>1, <2>2, ThenOnPath, RefreshedLInv DEF States
<1>8. CASE ReturnStatus(p) \/ ExecDead(p) \/ ExecRemove(p) \/ Freeze(p) \/ Thaw(p)
  <2>1. Quiet /\ Return(p)
    BY <1>2, <1>8 DEF ReturnStatus, ExecDead, ExecRemove, Freeze, Thaw, Quiet
  <2>2. QED
    BY <2>1, ReturnLInv
<1>9. CASE ExecOpen(p)
  <2>1. Quiet
    BY <1>2, <1>9 DEF ExecOpen, Quiet
  <2>2. CASE fifo = 0
    BY <1>9, <2>1, <2>2, ReturnLInv DEF ExecOpen
  <2>3. CASE fifo # 0
    <3> DEFINE h == [cmd[p] EXCEPT !.fd = fifo, !.pc = "read"]
    <3>1. h \in Handle /\ h.pc = "read" /\ h.kind = cmd[p].kind /\ h.fd # 0
      BY <1>1, <1>2, <2>3 DEF Handle, Counters
    <3>2. cmd' = [cmd EXCEPT ![p] = h]
      BY <1>9, <2>3 DEF ExecOpen
    <3> HIDE DEF h
    <3>3. Path(h.kind, h.pc, h.fd)
      BY <1>1, <1>9, <3>1 DEF Path, OwnPcs, ExecOpen
    <3>4. QED
      BY <2>1, <3>1, <3>2, <3>3, QuietLInv DEF OwnPcs
  <2>4. QED
    BY <2>2, <2>3
<1>10. CASE SignalCheck(p) \/ SignalSend(p) \/ SignalThaw(p) \/ KillContainerPoll(p)
  <2>1. Quiet
    BY <1>1, <1>2, <1>3, <1>10 DEF SignalCheck, SignalSend, SignalThaw, KillContainerPoll, Quiet, Handle
  <2>2. PICK l \in {"send", "thawKilled", "poll", "destroy"} :
          Return(p) \/ (Goto(p, l) /\ (l \in {"poll", "destroy"} => cmd[p].kind # "kill"))
    BY <1>1, <1>10 DEF SignalCheck, SignalSend, SignalThaw, KillContainerPoll, Path
  <2>3. cmd[p].kind \in {"kill", "delete", "force"}
    BY <1>1, <1>10 DEF SignalCheck, SignalSend, SignalThaw, KillContainerPoll, Path
  <2>4. Return(p) \/ Path(cmd[p].kind, l, cmd[p].fd)
    BY <1>1, <2>2, <2>3 DEF Path, OwnPcs
  <2>5. QED
    BY <2>1, <2>2, <2>3, <2>4, ReturnLInv, GotoLInv DEF Counters, InCreate
<1>11. CASE DestroyRunning(p) \/ DestroyPaused(p) \/ DestroyCreated(p)
  <2>1. Quiet
    BY <1>1, <1>2, <1>3, <1>11 DEF DestroyRunning, DestroyPaused, DestroyCreated, Quiet, Handle
  <2>2. Return(p) \/ Goto(p, "dCgroup")
    BY <1>11 DEF DestroyRunning, DestroyPaused, DestroyCreated
  <2>3. cmd[p].kind \in {"delete", "force"} /\ Path(cmd[p].kind, "dCgroup", cmd[p].fd)
    BY <1>1, <1>11 DEF DestroyRunning, DestroyPaused, DestroyCreated, Path, OwnPcs
  <2>4. QED
    BY <2>1, <2>2, <2>3, ReturnLInv, GotoLInv DEF Counters, InCreate
<1>12. CASE DestroyCgroup(p)
  <2>1. Quiet
    BY <1>2, <1>12 DEF DestroyCgroup, Quiet
  <2>2. Return(p) \/ (Goto(p, "dRemove") /\ InCgroup = {})
    BY <1>12 DEF DestroyCgroup
  <2>3. Path(cmd[p].kind, "dRemove", cmd[p].fd) /\ (InCreate(p) => Owner(p))
    BY <1>1, <1>12 DEF DestroyCgroup, Path, OwnPcs, Owner
  <2>4. QED
    BY <2>1, <2>2, <2>3, ReturnLInv, GotoLInv DEF Counters, Late, Named
<1>13. QED
  BY <1>4, <1>5, <1>6, <1>7, <1>8, <1>9, <1>10, <1>11, <1>12

(* The quiet steps of a creation, and the death of any command.            *)
LEMMA CreateQuiet ==
  ASSUME LInv, NEW p \in Procs,
         \/ CreateStat(p) \/ CreateReturn(p) \/ CreateFail(p) \/ AbortKill(p)
         \/ AbortWait(p) \/ Crash(p)
  PROVE  LInv'
<1> USE DEF At, disk, host
<1>1. cmd[p] \in Handle /\ Path(cmd[p].kind, cmd[p].pc, cmd[p].fd)
  BY DEF LInv, TypeOK, Handle, PathsFit
<1>2. fifo \in Starts \cup {0} /\ cgroup \in {"absent", "thawed", "frozen"}
      /\ doomed \subseteq Starts /\ \A x \in doomed : phase[x] # "unborn"
  BY DEF LInv, TypeOK, HostFits
<1>3. CASE CreateStat(p)
  <2>1. Quiet /\ (Return(p) \/ Goto(p, "mkdir"))
    BY <1>2, <1>3 DEF CreateStat, Quiet
  <2>2. Path(cmd[p].kind, "mkdir", cmd[p].fd)
    BY <1>1, <1>3 DEF CreateStat, Path, OwnPcs
  <2>3. QED
    BY <2>1, <2>2, ReturnLInv, GotoLInv DEF Counters, OwnPcs
<1>4. CASE CreateReturn(p) \/ Crash(p)
  <2>1. Quiet /\ Return(p)
    BY <1>2, <1>4 DEF CreateReturn, Crash, Quiet
  <2>2. QED
    BY <2>1, ReturnLInv
<1>5. CASE CreateFail(p) \/ AbortKill(p) \/ AbortWait(p)
  <2>1. cmd[p].kind = "create" /\ Owner(p)
    BY <1>1, <1>5 DEF CreateFail, AbortKill, AbortWait, Path, OwnPcs, Owner, InCreate
  <2>2. AbortKill(p) => cmd[p].start \in Starts
    BY <2>1 DEF AbortKill, LInv, OwnersFit, Named, OwnPcs
  <2>3. CASE AbortKill(p)
    <3>1. Goto(p, "abortWait") /\ Path(cmd[p].kind, "abortWait", cmd[p].fd)
      BY <1>1, <2>1, <2>3 DEF AbortKill, Path, OwnPcs
    <3>2. Quiet
      BY <1>2, <2>2, <2>3 DEF AbortKill, Quiet, Live
    <3>3. QED
      BY <2>1, <2>3, <3>1, <3>2, GotoLInv DEF AbortKill, Counters, Late, Named, OwnPcs
  <2>4. CASE CreateFail(p)
    <3>1. Quiet /\ Goto(p, "abort") /\ Path(cmd[p].kind, "abort", cmd[p].fd)
      BY <1>1, <1>2, <2>1, <2>4 DEF CreateFail, Path, OwnPcs, Quiet
    <3>2. QED
      BY <2>1, <2>4, <3>1, GotoLInv DEF CreateFail, Counters, Late, Named, OwnPcs
  <2>5. CASE AbortWait(p)
    <3>1. Quiet /\ Goto(p, "dCgroup") /\ Path(cmd[p].kind, "dCgroup", cmd[p].fd)
      BY <1>1, <1>2, <2>1, <2>5 DEF AbortWait, Path, OwnPcs, Quiet
    <3>2. QED
      BY <2>1, <3>1, GotoLInv DEF Counters, Late, Named
  <2>6. QED
    BY <1>5, <2>3, <2>4, <2>5
<1>6. QED
  BY <1>3, <1>4, <1>5

(* The beginning of a command: here a careful caller matters.              *)
LEMMA BeginLInv ==
  ASSUME LInv, Careful, NEW p \in Procs, NEW kind \in Kinds, Begin(p, kind)
  PROVE  LInv'
<1> DEFINE l == IF kind = "create" THEN "stat" ELSE "load"
           h == [cmd[p] EXCEPT !.kind = kind, !.pc = l]
<1>1. cmd \in [Procs -> Handle] /\ \A q \in Procs : At(q, "idle") => cmd[q] = Idle
  BY DEF LInv, TypeOK, Handle, PathsFit, At
<1>2. cmd[p] = Idle /\ cmd' = [cmd EXCEPT ![p] = h]
  BY <1>1 DEF Begin
<1>3. h \in Handle /\ h.pc = l /\ h.kind = kind /\ h.fd = cmd[p].fd
  <2>1. kind \in Commands /\ l \in Counters
    BY LifecycleAssumption DEF LifecycleAssumption, Counters
  <2>2. cmd[p] \in Handle
    BY <1>1
  <2>3. QED
    BY <2>1, <2>2 DEF Handle
<1>4. Quiet
  BY DEF Begin, Quiet, disk, host, LInv, TypeOK, HostFits
<1>5. Path(kind, l, h.fd)
  BY DEF Path, OwnPcs
<1>6. cmd'[p] = h /\ \A q \in Procs \ {p} : cmd'[q] = cmd[q]
  BY <1>1, <1>2
<1> HIDE DEF h
<1>7. NoDeleteInCreate'
  <2>1. CASE Orderly
    <3>1. CASE kind = "create"
      <4>1. \A q \in Procs \ {p} : cmd[q].kind = "none"
        BY <1>1, <2>1, <3>1 DEF Begin, Idle
      <4>2. QED
        BY <1>3, <1>6, <3>1, <4>1 DEF NoDeleteInCreate, InCreate
    <3>2. CASE kind # "create"
      <4>1. \A q \in Procs : ~InCreate(q)
        BY <2>1, <3>2 DEF Begin
      <4>2. QED
        BY <1>3, <1>6, <3>2, <4>1 DEF NoDeleteInCreate, InCreate
    <3>3. QED
      BY <3>1, <3>2
  <2>2. CASE Kinds \cap {"delete", "force"} = {}
    <3>1. \A q \in Procs : cmd[q].kind \in Kinds \cup {"none"}
      BY DEF LInv, PathsFit, Path
    <3>2. QED
      BY <1>3, <1>6, <2>2, <3>1 DEF NoDeleteInCreate
  <2>3. QED
    BY <2>1, <2>2 DEF Careful
<1>8. QED
  BY <1>2, <1>3, <1>4, <1>5, <1>7, QuietLInv DEF OwnPcs

-----------------------------------------------------------------------------
(* The steps that change the disk or the processes *)

(* A handle that changes: the other handles stay.                          *)
LEMMA HandleChange ==
  ASSUME LInv, NEW p \in Procs, NEW h \in Handle, cmd' = [cmd EXCEPT ![p] = h]
  PROVE  /\ cmd' \in [Procs -> Handle]
         /\ cmd'[p] = h /\ \A q \in Procs \ {p} : cmd'[q] = cmd[q]
BY DEF LInv, TypeOK, Handle

(* What a Goto does to the handles.                                        *)
LEMMA GotoEffect ==
  ASSUME LInv, NEW p \in Procs, NEW l \in Counters, Goto(p, l)
  PROVE  /\ cmd' \in [Procs -> Handle]
         /\ \A q \in Procs \ {p} : cmd'[q] = cmd[q]
         /\ cmd'[p].pc = l /\ cmd'[p].kind = cmd[p].kind /\ cmd'[p].pid = cmd[p].pid
         /\ cmd'[p].start = cmd[p].start /\ cmd'[p].fd = cmd[p].fd
BY DEF LInv, TypeOK, Handle, Goto

(* What a Return does.                                                     *)
LEMMA ReturnEffect ==
  ASSUME LInv, NEW p \in Procs, Return(p)
  PROVE  /\ cmd' \in [Procs -> Handle]
         /\ cmd'[p] = Idle /\ \A q \in Procs \ {p} : cmd'[q] = cmd[q]
         /\ cmd'[p].pc = "idle" /\ cmd'[p].kind = "none"
BY DEF LInv, TypeOK, Handle, Return, Idle, Counters, States

(* Create's Mkdir makes its caller the owner; there is no other.           *)
LEMMA MkdirLInv ==
  ASSUME LInv, NEW p \in Procs, CreateMkdir(p)
  PROVE  LInv'
<1> USE DEF At, disk, host
<1>1. CASE dir = "present"
  <2>1. Quiet /\ Return(p)
    BY <1>1 DEF CreateMkdir, Quiet, LInv, TypeOK, HostFits
  <2>2. QED
    BY <2>1, ReturnLInv
<1>2. CASE dir = "absent"
  <2>1. Goto(p, "mkfifo") /\ dir' = "present" /\ InCgroup' = InCgroup
        /\ UNCHANGED <<json, fifo, cgroup, occ, phase, doomed, next>>
    BY <1>2 DEF CreateMkdir, InCgroup
  <2>2. json = NoFile /\ InCgroup = {} /\ json.start = 0 /\ json.file = "absent"
    BY <1>2 DEF LInv, DiskFits, NoFile
  <2>3. InCreate(p) /\ \A q \in Procs : ~Owner(q)
    BY <1>2 DEF CreateMkdir, LInv, OwnersFit, PathsFit, Path, OwnPcs, InCreate
  <2>4. /\ cmd' \in [Procs -> Handle]
        /\ \A q \in Procs \ {p} : cmd'[q] = cmd[q]
        /\ cmd'[p].pc = "mkfifo" /\ cmd'[p].kind = "create"
    BY <2>1, <2>3, GotoEffect DEF Counters, InCreate
  <2>5. TypeOK'
    BY <2>1, <2>4 DEF LInv, TypeOK, Handle
  <2>6. PathsFit' /\ NoDeleteInCreate'
    BY <2>3, <2>4 DEF LInv, PathsFit, Path, OwnPcs, NoDeleteInCreate, InCreate
  <2>7. \A q \in Procs : Owner(q)' => q = p
    BY <2>3, <2>4 DEF Owner, InCreate
  <2>8. OwnersFit'
    BY <2>1, <2>2, <2>4, <2>7 DEF OwnersFit, Unjoined, Unsaved, Named, OwnPcs
  <2>9. DiskFits' /\ HostFits' /\ StateNamesInit'
    BY <2>1, <2>2, <2>4 DEF LInv, DiskFits, HostFits, StateNamesInit
  <2>10. QED
    BY <2>5, <2>6, <2>8, <2>9 DEF LInv
<1>3. QED
  BY <1>1, <1>2 DEF LInv, TypeOK

(* createExecFifo gives the init a start time, or the creation is undone.  *)
LEMMA FifoLInv ==
  ASSUME LInv, NEW p \in Procs, CreateExecFifo(p)
  PROVE  LInv'
<1> USE DEF At, disk, host
<1>1. Owner(p) /\ cmd[p] \in Handle /\ Path(cmd[p].kind, cmd[p].pc, cmd[p].fd)
  BY DEF CreateExecFifo, Owner, InCreate, OwnPcs, LInv, TypeOK, Handle, PathsFit, Path
<1>2. CASE dir = "absent" \/ fifo # 0 \/ next > MaxStart
  <2>1. Quiet /\ Goto(p, "dCgroup")
    BY <1>2 DEF CreateExecFifo, Quiet, LInv, TypeOK, HostFits
  <2>2. Path(cmd[p].kind, "dCgroup", cmd[p].fd)
    BY <1>1 DEF Path, OwnPcs, Owner, InCreate
  <2>3. QED
    BY <1>1, <2>1, <2>2, GotoLInv DEF Counters, Late, Named
<1>3. CASE ~(dir = "absent" \/ fifo # 0 \/ next > MaxStart)
  <2> DEFINE h == [cmd[p] EXCEPT !.start = next, !.pc = "spawn"]
  <2>1. next \in Starts /\ next + 1 \in 1..MaxStart + 1
    BY <1>3, LifecycleAssumption DEF LifecycleAssumption, Starts, LInv, TypeOK
  <2>2. h \in Handle /\ h.pc = "spawn" /\ h.kind = "create" /\ h.start = next
    BY <1>1, <2>1 DEF Handle, Counters, Owner, InCreate
  <2>3. cmd' = [cmd EXCEPT ![p] = h]
    BY <1>3 DEF CreateExecFifo
  <2>4. /\ cmd' \in [Procs -> Handle]
        /\ cmd'[p] = h /\ \A q \in Procs \ {p} : cmd'[q] = cmd[q]
    BY <2>2, <2>3, HandleChange
  <2> HIDE DEF h
  <2>5. fifo' = next /\ next' = next + 1 /\ InCgroup' = InCgroup
        /\ UNCHANGED <<dir, json, cgroup, occ, phase, doomed>>
    BY <1>3 DEF CreateExecFifo, InCgroup
  <2>6. TypeOK'
    BY <2>1, <2>4, <2>5 DEF LInv, TypeOK, Handle
  <2>7. PathsFit' /\ NoDeleteInCreate'
    BY <1>1, <2>2, <2>4 DEF LInv, PathsFit, Path, OwnPcs, NoDeleteInCreate, InCreate, Owner
  <2>8. \A q \in Procs : Owner(q)' => q = p
    BY <1>1, <2>4 DEF LInv, OwnersFit, Owner, InCreate
  <2>9. dir = "present" /\ InCgroup = {} /\ json.start = 0 /\ phase[next] = "unborn"
    <3>1. next >= next
      BY <2>1 DEF Starts
    <3>2. phase[next] = "unborn"
      BY <2>1, <3>1 DEF LInv, HostFits
    <3>3. QED
      BY <1>1, <3>2 DEF CreateExecFifo, LInv, OwnersFit, Unjoined, Unsaved
  <2>10. next < next'
    BY <2>1, <2>5 DEF Starts
  <2>11. OwnersFit'
    BY <2>1, <2>2, <2>4, <2>5, <2>8, <2>9, <2>10 DEF OwnersFit, Unjoined, Unsaved
  <2>12. DiskFits' /\ StateNamesInit'
    BY <2>2, <2>4, <2>5 DEF LInv, DiskFits, StateNamesInit
  <2>13. HostFits'
    <3>1. \A x \in Starts : x >= next + 1 => x >= next
      BY <2>1 DEF Starts
    <3>2. QED
      BY <2>5, <3>1 DEF LInv, HostFits
  <2>14. QED
    BY <2>6, <2>7, <2>11, <2>12, <2>13 DEF LInv
<1>4. QED
  BY <1>2, <1>3

(* cmd.Start: the new process has its start time to itself, and a pid that *)
(* was free.                                                               *)
LEMMA SpawnLInv ==
  ASSUME LInv, NEW p \in Procs, CreateSpawn(p)
  PROVE  LInv'
<1> USE DEF At, disk, host
<1>1. Owner(p) /\ cmd[p] \in Handle
  BY DEF CreateSpawn, Owner, InCreate, OwnPcs, LInv, TypeOK, Handle, PathsFit, Path
<1>2. PICK i \in Pids :
        /\ occ[i] = 0
        /\ occ' = [occ EXCEPT ![i] = cmd[p].start]
        /\ cmd' = [cmd EXCEPT ![p].pid = i, ![p].pc = "save0"]
  BY DEF CreateSpawn
<1> DEFINE h == [cmd[p] EXCEPT !.pid = i, !.pc = "save0"]
           x == cmd[p].start
<1>3. h \in Handle /\ h.pc = "save0" /\ h.kind = "create" /\ h.start = x /\ h.pid = i
  BY <1>1 DEF Handle, Counters, Owner, InCreate
<1>4. cmd' = [cmd EXCEPT ![p] = h]
  BY <1>2
<1>5. /\ cmd' \in [Procs -> Handle]
      /\ cmd'[p] = h /\ \A q \in Procs \ {p} : cmd'[q] = cmd[q]
  BY <1>3, <1>4, HandleChange
<1> HIDE DEF h
<1>6. /\ x \in Starts /\ x < next /\ phase[x] = "unborn"
      /\ dir = "present" /\ InCgroup = {} /\ json.start = 0
  BY <1>1 DEF CreateSpawn, LInv, OwnersFit, Named, OwnPcs, Unjoined, Unsaved
<1>7. phase' = [phase EXCEPT ![x] = "spawned"]
      /\ UNCHANGED <<dir, json, fifo, cgroup, doomed, next>>
  BY DEF CreateSpawn
<1> HIDE DEF x
<1>8. phase \in [Starts -> Live \cup {"unborn", "dead", "other"}] /\ occ \in [Pids -> Starts \cup {0}]
  BY DEF LInv, TypeOK
<1>9. InCgroup' = InCgroup
  BY <1>6, <1>7, <1>8 DEF InCgroup
<1>10. TypeOK'
  BY <1>2, <1>5, <1>6, <1>7, <1>8 DEF LInv, TypeOK, Handle, Live, x
<1>11. PathsFit' /\ NoDeleteInCreate'
  BY <1>1, <1>3, <1>5 DEF LInv, PathsFit, Path, OwnPcs, NoDeleteInCreate, InCreate, Owner
<1>12. \A q \in Procs : Owner(q)' => q = p
  BY <1>1, <1>5 DEF LInv, OwnersFit, Owner, InCreate
<1>13. phase'[x] = "spawned" /\ occ'[i] = x
  BY <1>2, <1>6, <1>7, <1>8 DEF x
<1>14. OwnersFit'
  BY <1>3, <1>5, <1>6, <1>7, <1>9, <1>12, <1>13 DEF OwnersFit, Unjoined, Unsaved
<1>15. DiskFits'
  BY <1>3, <1>5, <1>7, <1>9 DEF LInv, DiskFits
<1>16. HostFits'
  BY <1>2, <1>6, <1>7, <1>8 DEF LInv, HostFits, x, Starts, TypeOK
<1>17. StateNamesInit'
  BY <1>6, <1>7, <1>8 DEF StateNamesInit, InCgroup
<1>18. QED
  BY <1>10, <1>11, <1>14, <1>15, <1>16, <1>17 DEF LInv

(* A creation that finds the directory gone: it never happens.             *)
LEMMA OwnerHasDir ==
  ASSUME LInv, NEW p \in Procs, cmd[p].pc \in Named
  PROVE  Owner(p) /\ dir = "present" /\ cmd[p].start \in Starts /\ cmd[p] \in Handle
BY DEF LInv, PathsFit, Path, OwnersFit, Owner, InCreate, Named, OwnPcs, TypeOK, Handle

(* The first updateState, without a pid.                                   *)
LEMMA SaveEarlyLInv ==
  ASSUME LInv, NEW p \in Procs, CreateSaveEarly(p)
  PROVE  LInv'
<1> USE DEF At, disk, host
<1>1. Owner(p) /\ dir = "present" /\ cmd[p].pc = "save0"
  BY OwnerHasDir DEF CreateSaveEarly, Named, OwnPcs
<1>2. json' = [pid |-> 0, start |-> 0, file |-> "present"] /\ Goto(p, "apply")
      /\ InCgroup' = InCgroup
      /\ UNCHANGED <<dir, fifo, cgroup, occ, phase, doomed, next>>
  BY <1>1 DEF CreateSaveEarly, UpdateState, InCgroup
<1>3. /\ cmd' \in [Procs -> Handle]
      /\ \A q \in Procs \ {p} : cmd'[q] = cmd[q]
      /\ cmd'[p].pc = "apply" /\ cmd'[p].kind = "create" /\ cmd'[p].pid = cmd[p].pid
      /\ cmd'[p].start = cmd[p].start /\ cmd'[p].fd = cmd[p].fd
  BY <1>1, <1>2, GotoEffect DEF Counters, Owner, InCreate
<1>4. TypeOK'
  BY <1>2, <1>3 DEF LInv, TypeOK, Handle
<1>5. PathsFit' /\ NoDeleteInCreate'
  BY <1>1, <1>3 DEF LInv, PathsFit, Path, OwnPcs, NoDeleteInCreate, InCreate, Owner
<1>6. \A q \in Procs : Owner(q)' => q = p
  BY <1>1, <1>3 DEF LInv, OwnersFit, Owner, InCreate
<1>7. InCgroup = {}
  BY <1>1 DEF LInv, OwnersFit, Unjoined
<1>8. OwnersFit'
  BY <1>1, <1>2, <1>3, <1>6, <1>7 DEF LInv, OwnersFit, Unjoined, Unsaved, Named, OwnPcs
<1>9. DiskFits' /\ HostFits'
  BY <1>1, <1>2, <1>3, <1>7 DEF LInv, DiskFits, HostFits
<1>10. StateNamesInit'
  BY <1>2, <1>7 DEF StateNamesInit, InCgroup
<1>11. QED
  BY <1>4, <1>5, <1>8, <1>9, <1>10 DEF LInv

(* manager.Apply: the cgroup was empty.                                    *)
LEMMA ApplyLInv ==
  ASSUME LInv, NEW p \in Procs, CreateApply(p)
  PROVE  LInv'
<1> USE DEF At, disk, host
<1> DEFINE x == cmd[p].start
<1>1. Owner(p) /\ dir = "present" /\ cmd[p].pc = "apply" /\ x \in Starts
  BY OwnerHasDir DEF CreateApply, Named, OwnPcs
<1>2. phase[x] = "spawned" /\ phase' = [phase EXCEPT ![x] = "setup"] /\ Goto(p, "save")
      /\ cgroup' \in {cgroup, "thawed"}
      /\ UNCHANGED <<dir, json, fifo, occ, doomed, next>>
  BY DEF CreateApply
<1>3. /\ cmd' \in [Procs -> Handle]
      /\ \A q \in Procs \ {p} : cmd'[q] = cmd[q]
      /\ cmd'[p].pc = "save" /\ cmd'[p].kind = "create" /\ cmd'[p].pid = cmd[p].pid
      /\ cmd'[p].start = x /\ cmd'[p].fd = cmd[p].fd
  BY <1>1, <1>2, GotoEffect DEF Counters, Owner, InCreate
<1>4. InCgroup = {} /\ json.start = 0 /\ cmd[p].pid \in Pids /\ occ[cmd[p].pid] = x
  BY <1>1, <1>2 DEF LInv, OwnersFit, Unjoined, Unsaved
<1> HIDE DEF x
<1>5. phase \in [Starts -> Live \cup {"unborn", "dead", "other"}]
  BY DEF LInv, TypeOK
<1>6. phase'[x] = "setup" /\ \A y \in Starts : y # x => phase'[y] = phase[y]
  BY <1>1, <1>2, <1>5
<1>7. InCgroup' = {x}
  BY <1>1, <1>4, <1>6 DEF InCgroup
<1>8. TypeOK'
  BY <1>1, <1>2, <1>3, <1>5 DEF LInv, TypeOK, Handle, Live
<1>9. PathsFit' /\ NoDeleteInCreate'
  BY <1>1, <1>3 DEF LInv, PathsFit, Path, OwnPcs, NoDeleteInCreate, InCreate, Owner
<1>10. \A q \in Procs : Owner(q)' => q = p
  BY <1>1, <1>3 DEF LInv, OwnersFit, Owner, InCreate
<1>11. json.file = "present"
  BY <1>1 DEF LInv, OwnersFit
<1>12. OwnersFit'
  BY <1>1, <1>2, <1>3, <1>4, <1>6, <1>7, <1>10, <1>11 DEF OwnersFit, Unjoined, Unsaved,
     Named
<1>13. DiskFits'
  <2>1. \A q \in Procs \ {p} : cmd[q].pc \notin {"rmall", "dRemove"}
    BY <1>1 DEF LInv, PathsFit, Path, NoDeleteInCreate, OwnersFit, Owner, InCreate, OwnPcs
  <2>2. QED
    BY <1>1, <1>2, <1>3, <1>7, <1>11, <2>1 DEF LInv, DiskFits
<1>14. HostFits'
  BY <1>1, <1>2, <1>5, <1>6 DEF LInv, HostFits, TypeOK
<1>15. StateNamesInit'
  BY <1>4, <1>6 DEF StateNamesInit, InCgroup
<1>16. QED
  BY <1>8, <1>9, <1>12, <1>13, <1>14, <1>15 DEF LInv

(* The second updateState names the init, before it may run.               *)
LEMMA SaveLInv ==
  ASSUME LInv, NEW p \in Procs, CreateSave(p)
  PROVE  LInv'
<1> USE DEF At, disk, host
<1> DEFINE x == cmd[p].start
<1>1. Owner(p) /\ dir = "present" /\ cmd[p].pc = "save" /\ x \in Starts /\ cmd[p] \in Handle
  BY OwnerHasDir DEF CreateSave, Named, OwnPcs
<1>2. json' = [pid |-> cmd[p].pid, start |-> x, file |-> "present"] /\ Goto(p, "run")
      /\ InCgroup' = InCgroup
      /\ UNCHANGED <<dir, fifo, cgroup, occ, phase, doomed, next>>
  BY <1>1 DEF CreateSave, UpdateState, InCgroup
<1>3. /\ cmd' \in [Procs -> Handle]
      /\ \A q \in Procs \ {p} : cmd'[q] = cmd[q]
      /\ cmd'[p].pc = "run" /\ cmd'[p].kind = "create" /\ cmd'[p].pid = cmd[p].pid
      /\ cmd'[p].start = x /\ cmd'[p].fd = cmd[p].fd
  BY <1>1, <1>2, GotoEffect DEF Counters, Owner, InCreate
<1>4. InCgroup \subseteq {x} /\ cmd[p].pid \in Pids /\ phase[x] \in {"setup", "dead"}
      /\ (phase[x] # "dead" => occ[cmd[p].pid] = x)
  BY <1>1 DEF LInv, OwnersFit
<1> HIDE DEF x
<1>5. TypeOK'
  BY <1>1, <1>2, <1>3, <1>4 DEF LInv, TypeOK, Handle
<1>6. PathsFit' /\ NoDeleteInCreate'
  BY <1>1, <1>3 DEF LInv, PathsFit, Path, OwnPcs, NoDeleteInCreate, InCreate, Owner
<1>7. \A q \in Procs : Owner(q)' => q = p
  BY <1>1, <1>3 DEF LInv, OwnersFit, Owner, InCreate
<1>8. OwnersFit'
  BY <1>1, <1>2, <1>3, <1>4, <1>7 DEF OwnersFit, Unjoined, Unsaved, Named
<1>9. DiskFits' /\ HostFits'
  BY <1>1, <1>2, <1>3 DEF LInv, DiskFits, HostFits
<1>10. StateNamesInit'
  BY <1>2, <1>4 DEF StateNamesInit, InCgroup
<1>11. QED
  BY <1>5, <1>6, <1>8, <1>9, <1>10 DEF LInv

(* procRun: the init that is released is the one state.json names.         *)
LEMMA RunLInv ==
  ASSUME LInv, NEW p \in Procs, CreateRun(p)
  PROVE  LInv'
<1> USE DEF At, disk, host
<1> DEFINE x == cmd[p].start
<1>1. Owner(p) /\ dir = "present" /\ cmd[p].pc = "run" /\ x \in Starts
  BY OwnerHasDir DEF CreateRun, Named, OwnPcs
<1>2. phase[x] = "setup" /\ phase' = [phase EXCEPT ![x] = "fifo"] /\ Goto(p, "finish")
      /\ UNCHANGED <<dir, json, fifo, cgroup, occ, doomed, next>>
  BY DEF CreateRun
<1>3. /\ cmd' \in [Procs -> Handle]
      /\ \A q \in Procs \ {p} : cmd'[q] = cmd[q]
      /\ cmd'[p].pc = "finish" /\ cmd'[p].kind = "create" /\ cmd'[p].pid = cmd[p].pid
      /\ cmd'[p].start = x /\ cmd'[p].fd = cmd[p].fd
  BY <1>1, <1>2, GotoEffect DEF Counters, Owner, InCreate
<1>4. InCgroup \subseteq {x} /\ cmd[p].pid \in Pids /\ occ[cmd[p].pid] = x
      /\ json = [pid |-> cmd[p].pid, start |-> x, file |-> "present"]
  BY <1>1, <1>2 DEF LInv, OwnersFit
<1> HIDE DEF x
<1>5. phase \in [Starts -> Live \cup {"unborn", "dead", "other"}] /\ 0 \notin Pids
  BY LifecycleAssumption DEF LInv, TypeOK, LifecycleAssumption
<1>6. phase'[x] = "fifo" /\ \A y \in Starts : y # x => phase'[y] = phase[y]
  BY <1>1, <1>2, <1>5
<1>7. InCgroup' = InCgroup
  BY <1>1, <1>2, <1>6 DEF InCgroup
<1>8. TypeOK'
  BY <1>1, <1>2, <1>3, <1>5 DEF LInv, TypeOK, Handle, Live
<1>9. PathsFit' /\ NoDeleteInCreate'
  BY <1>1, <1>3 DEF LInv, PathsFit, Path, OwnPcs, NoDeleteInCreate, InCreate, Owner
<1>10. \A q \in Procs : Owner(q)' => q = p
  BY <1>1, <1>3 DEF LInv, OwnersFit, Owner, InCreate
<1>11. OwnersFit'
  BY <1>1, <1>2, <1>3, <1>4, <1>7, <1>10 DEF OwnersFit, Unjoined, Unsaved, Named
<1>12. DiskFits'
  BY <1>1, <1>2, <1>3, <1>7 DEF LInv, DiskFits
<1>13. HostFits'
  BY <1>1, <1>2, <1>5, <1>6 DEF LInv, HostFits, TypeOK
<1>14. StateNamesInit'
  <2>1. json.start = x /\ json.pid \in Pids /\ occ[json.pid] = x
    BY <1>4
  <2>2. \A y \in Starts : phase'[y] \in {"fifo", "user"} => y = x
    BY <1>4, <1>6 DEF InCgroup
  <2>3. QED
    BY <1>2, <1>5, <2>1, <2>2 DEF StateNamesInit
<1>15. QED
  BY <1>8, <1>9, <1>11, <1>12, <1>13, <1>14 DEF LInv

(* The removal of the state directory: nothing is in the cgroup, and       *)
(* nobody else is creating.                                                *)
LEMMA RemoveLInv ==
  ASSUME LInv, NEW p \in Procs, RemoveAborted(p) \/ DestroyRemove(p)
  PROVE  LInv'
<1> USE DEF At, disk, host
<1>1. cmd[p].pc \in {"rmall", "dRemove"} /\ Return(p)
      /\ dir' = "absent" /\ json' = NoFile /\ fifo' = 0 /\ InCgroup' = InCgroup
      /\ UNCHANGED <<cgroup, occ, phase, doomed, next>>
  BY DEF RemoveAborted, DestroyRemove, InCgroup
<1>2. InCgroup = {} /\ cmd[p].kind \in {"create", "delete", "force"}
  BY <1>1 DEF LInv, DiskFits, PathsFit, Path
<1>3. /\ cmd' \in [Procs -> Handle]
      /\ cmd'[p] = Idle /\ \A q \in Procs \ {p} : cmd'[q] = cmd[q]
      /\ cmd'[p].pc = "idle" /\ cmd'[p].kind = "none"
  BY <1>1, ReturnEffect
<1>4. \A q \in Procs : ~Owner(q)'
  <2>1. \A q \in Procs \ {p} : ~Owner(q)
    <3>1. CASE cmd[p].kind = "create"
      BY <1>1, <3>1 DEF LInv, OwnersFit, Owner, InCreate, OwnPcs, PathsFit, Path
    <3>2. CASE cmd[p].kind \in {"delete", "force"}
      BY <3>2 DEF LInv, NoDeleteInCreate, Owner
    <3>3. QED
      BY <1>2, <3>1, <3>2
  <2>2. QED
    BY <1>3, <2>1 DEF Owner, InCreate
<1>5. TypeOK'
  BY <1>1, <1>3 DEF LInv, TypeOK, Handle, NoFile
<1>6. PathsFit' /\ NoDeleteInCreate'
  BY <1>3 DEF LInv, PathsFit, Path, OwnPcs, NoDeleteInCreate, InCreate, Idle
<1>7. OwnersFit'
  BY <1>4 DEF OwnersFit
<1>8. DiskFits' /\ HostFits'
  BY <1>1, <1>2, <1>3 DEF LInv, DiskFits, HostFits
<1>9. StateNamesInit'
  BY <1>1, <1>2 DEF StateNamesInit, InCgroup
<1>10. QED
  BY <1>5, <1>6, <1>7, <1>8, <1>9 DEF LInv

(* A start whose reader meets the init.                                    *)
LEMMA ExecReadLInv ==
  ASSUME LInv, NEW p \in Procs, ExecRead(p)
  PROVE  LInv'
<1> USE DEF At, disk, host
<1> DEFINE x == cmd[p].fd
<1>1. cmd[p].pc = "read" /\ x \in Starts /\ ~InCreate(p)
  BY DEF ExecRead, LInv, TypeOK, Handle, PathsFit, Path, InCreate, OwnPcs
<1>2. phase[x] = "fifo" /\ phase' = [phase EXCEPT ![x] = "user"] /\ Goto(p, "rmfifo")
      /\ UNCHANGED <<dir, json, fifo, cgroup, occ, doomed, next>>
  BY DEF ExecRead
<1>3. /\ cmd' \in [Procs -> Handle]
      /\ \A q \in Procs \ {p} : cmd'[q] = cmd[q]
      /\ cmd'[p].pc = "rmfifo" /\ cmd'[p].kind = cmd[p].kind /\ cmd'[p].fd = x
  BY <1>2, GotoEffect DEF Counters
<1> HIDE DEF x
<1>4. phase \in [Starts -> Live \cup {"unborn", "dead", "other"}]
  BY DEF LInv, TypeOK
<1>5. phase'[x] = "user" /\ \A y \in Starts : y # x => phase'[y] = phase[y]
  BY <1>1, <1>2, <1>4
<1>6. InCgroup' = InCgroup /\ x \in InCgroup
  BY <1>1, <1>2, <1>5 DEF InCgroup
<1>7. TypeOK'
  BY <1>1, <1>2, <1>3, <1>4 DEF LInv, TypeOK, Handle, Live
<1>8. PathsFit' /\ NoDeleteInCreate'
  BY <1>1, <1>3 DEF LInv, PathsFit, Path, OwnPcs, NoDeleteInCreate, InCreate
<1>9. \A q \in Procs : Owner(q)' => Owner(q) /\ q # p
  BY <1>1, <1>3 DEF Owner, InCreate
<1>10. \A q \in Procs : Owner(q) /\ cmd[q].pc \in {"spawn", "save0", "apply", "save", "run"} =>
          cmd[q].start # x
  BY <1>2 DEF LInv, OwnersFit
<1>11. OwnersFit'
  BY <1>2, <1>3, <1>5, <1>6, <1>9, <1>10 DEF LInv, OwnersFit, Owner, InCreate, Named, OwnPcs
<1>12. DiskFits'
  BY <1>2, <1>3, <1>6 DEF LInv, DiskFits
<1>13. HostFits'
  BY <1>1, <1>2, <1>4, <1>5 DEF LInv, HostFits, TypeOK
<1>14. StateNamesInit'
  BY <1>1, <1>2, <1>5 DEF LInv, StateNamesInit
<1>15. QED
  BY <1>7, <1>8, <1>11, <1>12, <1>13, <1>14 DEF LInv

(* A process dies, by a signal or by itself; its pid is free.              *)
LEMMA DeathLInv ==
  ASSUME LInv, NEW x \in Starts, Die(x) \/ Exit(x)
  PROVE  LInv'
<1> USE DEF disk
<1>1. phase' = [phase EXCEPT ![x] = "dead"] /\ doomed' = doomed \ {x}
      /\ occ' = [i \in Pids |-> IF occ[i] = x THEN 0 ELSE occ[i]]
      /\ UNCHANGED <<dir, json, fifo, cgroup, next, cmd>>
  BY DEF Die, Exit
<1>2. phase[x] # "unborn"
  BY DEF Die, Exit, Live, LInv, HostFits
<1>3. phase \in [Starts -> Live \cup {"unborn", "dead", "other"}] /\ occ \in [Pids -> Starts \cup {0}]
  BY DEF LInv, TypeOK
<1>4. phase'[x] = "dead" /\ \A y \in Starts : y # x => phase'[y] = phase[y]
  BY <1>1, <1>3
<1>5. \A i \in Pids : occ[i] # x => occ'[i] = occ[i]
  BY <1>1
<1>6. InCgroup' = InCgroup \ {x}
  BY <1>4 DEF InCgroup
<1>7. TypeOK'
  BY <1>1, <1>3 DEF LInv, TypeOK, Live
<1>8. PathsFit' /\ NoDeleteInCreate'
  BY <1>1 DEF LInv, PathsFit, NoDeleteInCreate, InCreate
<1>9. OwnersFit'
  <2>1. \A q \in Procs : Owner(q)' <=> Owner(q)
    BY <1>1 DEF Owner, InCreate
  <2>2. QED
    BY <1>1, <1>2, <1>4, <1>5, <1>6, <2>1 DEF LInv, OwnersFit, Named, OwnPcs
<1>10. DiskFits'
  BY <1>1, <1>6 DEF LInv, DiskFits
<1>11. HostFits'
  BY <1>1, <1>2, <1>3, <1>4 DEF LInv, HostFits, TypeOK
<1>12. StateNamesInit'
  BY <1>1, <1>4, <1>5 DEF LInv, StateNamesInit, TypeOK
<1>13. QED
  BY <1>7, <1>8, <1>9, <1>10, <1>11, <1>12 DEF LInv

(* Another process of the host gets a free pid.                            *)
LEMMA BystanderLInv ==
  ASSUME LInv, NEW i \in Pids, Bystander(i)
  PROVE  LInv'
<1> USE DEF disk
<1>1. occ[i] = 0 /\ occ' = [occ EXCEPT ![i] = next]
      /\ phase' = [phase EXCEPT ![next] = "other"] /\ next' = next + 1
      /\ UNCHANGED <<dir, json, fifo, cgroup, doomed, cmd>>
  BY DEF Bystander
<1>2. next \in Starts /\ next + 1 \in 1..MaxStart + 1 /\ next >= next /\ next # 0
  BY LifecycleAssumption DEF Bystander, LifecycleAssumption, Starts, LInv, TypeOK
<1>3. phase \in [Starts -> Live \cup {"unborn", "dead", "other"}] /\ occ \in [Pids -> Starts \cup {0}]
  BY DEF LInv, TypeOK
<1>4. phase[next] = "unborn"
  BY <1>2 DEF LInv, HostFits
<1>5. phase'[next] = "other" /\ \A y \in Starts : y # next => phase'[y] = phase[y]
  BY <1>1, <1>2, <1>3
<1>6. occ'[i] = next /\ \A k \in Pids : k # i => occ'[k] = occ[k]
  BY <1>1, <1>3
<1>7. InCgroup' = InCgroup
  BY <1>2, <1>4, <1>5 DEF InCgroup
<1>8. TypeOK'
  BY <1>1, <1>2, <1>3 DEF LInv, TypeOK, Live
<1>9. PathsFit' /\ NoDeleteInCreate'
  BY <1>1 DEF LInv, PathsFit, NoDeleteInCreate, InCreate
<1>10. \A q \in Procs : Owner(q)' <=> Owner(q)
  BY <1>1 DEF Owner, InCreate
<1>11. OwnersFit'
  <2>1. \A y \in Starts : y < next => y < next + 1 /\ y # next
    BY <1>2 DEF Starts
  <2>2. \A y \in Starts : phase[y] # "unborn" => phase'[y] = phase[y]
    BY <1>4, <1>5
  <2>3. \A q \in Procs : /\ Owner(q) /\ cmd[q].pc \in {"save0", "apply", "save", "run"}
                         /\ phase[cmd[q].start] # "dead"
                         => cmd[q].pid # i
    BY <1>1 DEF LInv, OwnersFit, Named, OwnPcs, Starts
  <2>4. QED
    BY <1>1, <1>5, <1>6, <1>7, <1>10, <2>1, <2>2, <2>3 DEF LInv, OwnersFit, Named, OwnPcs
<1>12. DiskFits'
  BY <1>1, <1>7 DEF LInv, DiskFits
<1>13. HostFits'
  <2>1. \A y \in Starts : y >= next + 1 => y >= next /\ y # next
    BY <1>2 DEF Starts
  <2>2. QED
    BY <1>1, <1>2, <1>3, <1>4, <1>5, <1>6, <2>1 DEF LInv, HostFits, TypeOK
<1>14. StateNamesInit'
  <2>1. \A y \in Starts : phase'[y] \in {"fifo", "user"} => phase[y] \in {"fifo", "user"} /\ y # 0
    BY <1>5 DEF Starts
  <2>2. QED
    BY <1>1, <1>6, <2>1 DEF LInv, StateNamesInit, TypeOK
<1>15. QED
  BY <1>8, <1>9, <1>11, <1>12, <1>13, <1>14 DEF LInv

(* Every step preserves the invariant, if the caller is careful.           *)
LEMMA NextLInv ==
  ASSUME Careful, LInv, [Next]_vars
  PROVE  LInv'
<1>1. ASSUME NEW x \in Starts, Die(x) \/ Exit(x) PROVE LInv'
  BY <1>1, DeathLInv
<1>2. ASSUME NEW i \in Pids, Bystander(i) PROVE LInv'
  BY <1>2, BystanderLInv
<1>3. ASSUME NEW p \in Procs, NEW kind \in Kinds, Begin(p, kind) PROVE LInv'
  BY <1>3, BeginLInv
<1>4. ASSUME NEW p \in Procs, CreateNext(p) \/ Crash(p) PROVE LInv'
  BY <1>4, CreateQuiet, MkdirLInv, FifoLInv, SpawnLInv, SaveEarlyLInv, ApplyLInv, SaveLInv,
     RunLInv DEF CreateNext
<1>5. ASSUME NEW p \in Procs, CommandNext(p) PROVE LInv'
  BY <1>5, CommandQuiet, RemoveLInv, ExecReadLInv DEF CommandNext
<1>6. CASE UNCHANGED vars
  BY <1>6 DEF vars, LInv, TypeOK, PathsFit, NoDeleteInCreate, InCreate, OwnersFit, Owner,
     DiskFits, HostFits, StateNamesInit, InCgroup
<1>7. QED
  BY <1>1, <1>2, <1>3, <1>4, <1>5, <1>6 DEF Next

(* The invariant holds in every reachable state.                           *)
THEOREM LifecycleInvariance ==
  ASSUME Careful
  PROVE  Spec => []LInv
<1>1. LInv /\ [Next]_vars => LInv'
  BY NextLInv
<1>2. QED
  BY <1>1, InitLInv, PTL DEF Spec

(* However commands interleave, fail and are killed, state.json names the  *)
(* init that waits or runs, and every handle has a state of the code.      *)
THEOREM IdIsSoundTheorem ==
  ASSUME Careful
  PROVE  Spec => []IdIsSound
<1>1. LInv => IdIsSound
  BY DEF LInv, IdIsSound
<1>2. QED
  BY <1>1, LifecycleInvariance, PTL

(* Creations that race never put two inits in one cgroup.                  *)
THEOREM RacesAreSafeTheorem ==
  ASSUME Careful
  PROVE  Spec => []RacesAreSafe
<1>1. LInv => RacesAreSafe
  <2> SUFFICES ASSUME LInv PROVE AtMostOneInit
    BY DEF LInv, RacesAreSafe
  <2>1. CASE InCgroup = {}
    BY <2>1, FS_EmptySet DEF AtMostOneInit
  <2>2. CASE InCgroup # {}
    <3>1. PICK x \in InCgroup : TRUE
      BY <2>2
    <3>2. InCgroup = {x}
      BY <3>1 DEF LInv, DiskFits
    <3>3. Cardinality({x}) = 1
      BY FS_Singleton
    <3>4. Cardinality(InCgroup) = 1
      BY <3>2, <3>3
    <3>5. QED
      BY <3>4 DEF AtMostOneInit
  <2>3. QED
    BY <2>1, <2>2
<1>2. QED
  BY <1>1, LifecycleInvariance, PTL

(* The steps that change the state directory or the phase of a process.    *)
LEMMA WorldFrame ==
  ASSUME Next
  PROVE  \/ UNCHANGED <<dir, json, phase>>
         \/ \E x \in Starts : Die(x) \/ Exit(x)
         \/ \E i \in Pids : Bystander(i)
         \/ \E p \in Procs : \/ RemoveAborted(p) \/ DestroyRemove(p) \/ CreateMkdir(p)
                             \/ CreateSpawn(p) \/ CreateSaveEarly(p) \/ CreateApply(p)
                             \/ CreateSave(p) \/ CreateRun(p) \/ ExecRead(p)
<1>1. ASSUME NEW p \in Procs, (\E kind \in Kinds : Begin(p, kind)) \/ Crash(p)
      PROVE  UNCHANGED <<dir, json, phase>>
  BY <1>1 DEF Begin, Crash, disk, host
<1>2. ASSUME NEW p \in Procs, CreateNext(p), ~CreateMkdir(p), ~CreateSpawn(p),
             ~CreateSaveEarly(p), ~CreateApply(p), ~CreateSave(p), ~CreateRun(p)
      PROVE  UNCHANGED <<dir, json, phase>>
  BY <1>2 DEF CreateNext, CreateStat, CreateExecFifo, CreateReturn, CreateFail,
     AbortKill, AbortWait, disk, host
<1>3. ASSUME NEW p \in Procs, CommandNext(p), ~RemoveAborted(p), ~DestroyRemove(p),
             ~ExecRead(p)
      PROVE  UNCHANGED <<dir, json, phase>>
  BY <1>3 DEF CommandNext, Load, RefreshPaused, RefreshInit, RefreshFifo,
     ReturnStatus, ExecOpen, ExecDead, ExecRemove, SignalCheck, SignalSend,
     SignalThaw, KillContainerPoll, DestroyRunning, DestroyPaused,
     DestroyCreated, DestroyCgroup, Freeze, Thaw, disk, host
<1>4. QED
  BY <1>1, <1>2, <1>3 DEF Next

(* The state directory is removed only when no process is in the cgroup.   *)
THEOREM RemovedOnlyWhenEmptyTheorem ==
  ASSUME Careful
  PROVE  Spec => RemovedOnlyWhenEmpty
<1>1. LInv /\ [Next]_vars => [dir = "present" /\ dir' = "absent" => InCgroup = {}]_vars
  <2> SUFFICES ASSUME LInv, Next, dir = "present", dir' = "absent" PROVE InCgroup = {}
    OBVIOUS
  <2>1. PICK p \in Procs : RemoveAborted(p) \/ DestroyRemove(p)
    BY WorldFrame DEF Die, Exit, Bystander, CreateMkdir, CreateSpawn, CreateSaveEarly,
       CreateApply, CreateSave, CreateRun, ExecRead, disk
  <2>2. cmd[p].pc \in {"rmall", "dRemove"}
    BY <2>1 DEF RemoveAborted, DestroyRemove, At
  <2>3. QED
    BY <2>2 DEF LInv, DiskFits
<1>2. QED
  BY <1>1, LifecycleInvariance, PTL DEF Spec, RemovedOnlyWhenEmpty

-----------------------------------------------------------------------------
(* The refinement of the OCI life cycle *)

(* Status and the init on record depend on dir, state.json and the phase   *)
(* of the init that state.json names.                                      *)
LEMMA StatusFrame ==
  ASSUME UNCHANGED <<dir, json>>,
         json.start \in Starts => phase'[json.start] = phase[json.start],
         json.start \in Starts \cup {0}
  PROVE  UNCHANGED <<Status, json.start>>
BY DEF Status

(* Every step of the commands and of the host is a step of the OCI life    *)
(* cycle, or none.                                                         *)
LEMMA OciStep ==
  ASSUME LInv, [Next]_vars
  PROVE  [Oci!Next]_<<Status, json.start>>
<1> USE DEF At, disk, host
<1> DEFINE Goal == Oci!Next \/ UNCHANGED <<Status, json.start>>
<1>1. json.start \in Starts \cup {0} /\ dir \in {"absent", "present"} /\ 0 \notin Starts
      /\ phase \in [Starts -> Live \cup {"unborn", "dead", "other"}]
  BY DEF LInv, TypeOK, Starts
<1>2. ASSUME NEW x \in Starts, Die(x) \/ Exit(x) PROVE Goal
  <2>1. phase' = [phase EXCEPT ![x] = "dead"] /\ UNCHANGED <<dir, json>>
    BY <1>2 DEF Die, Exit
  <2>2. CASE json.start # x
    BY <1>1, <2>1, <2>2, StatusFrame
  <2>3. CASE json.start = x /\ dir = "absent"
    BY <2>1, <2>3 DEF Status
  <2>4. CASE json.start = x /\ dir = "present"
    <3>1. Status' = "stopped" /\ json.start # 0
      BY <1>1, <2>1, <2>4 DEF Status
    <3>2. Status \in {"creating", "created", "running", "stopped"}
      BY <1>1, <2>4 DEF Status
    <3>3. QED
      BY <2>1, <3>1, <3>2 DEF Oci!Next, Oci!Stop, Oci!Step
  <2>5. QED
    BY <1>1, <2>2, <2>3, <2>4
<1>3. ASSUME NEW i \in Pids, Bystander(i) PROVE Goal
  <2>1. phase' = [phase EXCEPT ![next] = "other"] /\ UNCHANGED <<dir, json>>
    BY <1>3 DEF Bystander
  <2>2. next \in Starts /\ phase[next] = "unborn"
    BY <1>3, LifecycleAssumption DEF LifecycleAssumption, Bystander, Starts, LInv, TypeOK, HostFits
  <2>3. CASE json.start # next
    BY <1>1, <2>1, <2>3, StatusFrame
  <2>4. CASE json.start = next
    <3>1. phase'[json.start] = "other" /\ phase[json.start] = "unborn" /\ json.start # 0
      BY <1>1, <2>1, <2>2, <2>4
    <3>2. QED
      BY <2>1, <3>1 DEF Status
  <2>5. QED
    BY <2>3, <2>4
<1>4. ASSUME NEW p \in Procs, RemoveAborted(p) \/ DestroyRemove(p) PROVE Goal
  <2>1. dir' = "absent" /\ json' = NoFile /\ UNCHANGED phase /\ InCgroup = {}
    BY <1>4 DEF RemoveAborted, DestroyRemove, LInv, DiskFits
  <2>2. Status' = "absent" /\ json'.start = 0
    BY <2>1 DEF Status, NoFile
  <2>3. CASE dir = "absent"
    BY <2>2, <2>3 DEF Status, LInv, DiskFits, NoFile
  <2>4. CASE dir = "present"
    <3>1. json.start # 0 => phase[json.start] \notin {"fifo", "user"}
      BY <1>1, <2>1 DEF InCgroup
    <3>2. Status \in {"creating", "stopped"}
      BY <2>4, <3>1 DEF Status
    <3>3. QED
      BY <2>2, <3>2 DEF Oci!Next, Oci!Delete, Oci!Step
  <2>5. QED
    BY <1>1, <2>3, <2>4
<1>5. ASSUME NEW p \in Procs, CreateMkdir(p) PROVE Goal
  <2>1. dir' = "present" /\ UNCHANGED <<json, phase>>
    BY <1>5 DEF CreateMkdir
  <2>2. CASE dir = "present"
    BY <2>1, <2>2 DEF Status
  <2>3. CASE dir = "absent"
    <3>1. json.start = 0 /\ Status = "absent" /\ Status' = "creating"
      BY <2>1, <2>3 DEF Status, LInv, DiskFits, NoFile
    <3>2. QED
      BY <2>1, <3>1 DEF Oci!Next, Oci!Create, Oci!Step
  <2>4. QED
    BY <1>1, <2>2, <2>3
<1>6. ASSUME NEW p \in Procs, CreateSpawn(p) \/ CreateSaveEarly(p) \/ CreateApply(p) PROVE Goal
  <2>1. json.start = 0 /\ dir = "present"
    BY <1>6, OwnerHasDir DEF CreateSpawn, CreateSaveEarly, CreateApply, Named, OwnPcs, LInv,
       OwnersFit, Unsaved, Unjoined
  <2>2. UNCHANGED dir /\ json'.start = 0
    BY <1>6, <2>1 DEF CreateSpawn, CreateSaveEarly, CreateApply, UpdateState
  <2>3. QED
    BY <2>1, <2>2 DEF Status
<1>7. ASSUME NEW p \in Procs, CreateSave(p) PROVE Goal
  <2>1. Owner(p) /\ dir = "present" /\ cmd[p].start \in Starts
    BY <1>7, OwnerHasDir DEF CreateSave, Named, OwnPcs
  <2>2. json.start = 0 /\ phase[cmd[p].start] \in {"setup", "dead"}
    BY <1>7, <2>1 DEF CreateSave, LInv, OwnersFit, Unsaved, Unjoined
  <2>3. json'.start = cmd[p].start /\ UNCHANGED <<dir, phase>>
    BY <1>7, <2>1 DEF CreateSave, UpdateState
  <2>4. Status = "creating" /\ Status' \in {"creating", "stopped"}
    BY <1>1, <2>1, <2>2, <2>3 DEF Status
  <2>5. QED
    BY <2>1, <2>2, <2>3, <2>4 DEF Oci!Next, Oci!Record
<1>8. ASSUME NEW p \in Procs, CreateRun(p) PROVE Goal
  <2>1. Owner(p) /\ dir = "present" /\ cmd[p].start \in Starts /\ cmd[p].pc = "run"
    BY <1>8, OwnerHasDir DEF CreateRun, Named, OwnPcs
  <2>2. json.start = cmd[p].start /\ phase[json.start] = "setup" /\ json.start # 0
        /\ phase' = [phase EXCEPT ![json.start] = "fifo"] /\ UNCHANGED <<dir, json>>
    <3>1. json = [pid |-> cmd[p].pid, start |-> cmd[p].start, file |-> "present"]
      BY <2>1 DEF LInv, OwnersFit
    <3>2. json.start = cmd[p].start
      BY <3>1
    <3>3. QED
      BY <1>1, <1>8, <2>1, <3>2 DEF CreateRun
  <2>3. Status = "creating" /\ Status' = "created"
    BY <1>1, <2>1, <2>2 DEF Status
  <2>4. QED
    BY <2>2, <2>3 DEF Oci!Next, Oci!Ready, Oci!Step
<1>9. ASSUME NEW p \in Procs, ExecRead(p) PROVE Goal
  <2>1. cmd[p].fd \in Starts /\ phase[cmd[p].fd] = "fifo"
        /\ phase' = [phase EXCEPT ![cmd[p].fd] = "user"] /\ UNCHANGED <<dir, json>>
    BY <1>9 DEF ExecRead, LInv, TypeOK, Handle, PathsFit, Path
  <2>2. json.start = cmd[p].fd /\ json.start # 0
    BY <1>1, <2>1 DEF LInv, StateNamesInit
  <2>3. dir = "present"
    BY <1>1, <2>2 DEF LInv, DiskFits, NoFile
  <2>4. Status = "created" /\ Status' = "running"
    BY <1>1, <2>1, <2>2, <2>3 DEF Status
  <2>5. QED
    BY <2>1, <2>4 DEF Oci!Next, Oci!Start, Oci!Step
<1>10. CASE UNCHANGED vars
  BY <1>10 DEF vars, Status
<1>11. CASE UNCHANGED <<dir, json, phase>>
  BY <1>1, <1>11, StatusFrame
<1>12. QED
  BY <1>2, <1>3, <1>4, <1>5, <1>6, <1>7, <1>8, <1>9, <1>10, <1>11, WorldFrame

(* For any number of commands that interleave, race, fail and are killed,  *)
(* an id goes through the incarnations of the OCI runtime specification:   *)
(* one at a time, each with one init that is on record before it may run.  *)
THEOREM ImplementsOciTheorem ==
  ASSUME Careful
  PROVE  Spec => ImplementsOci
<1>1. Init => Oci!Init
  BY DEF Init, Oci!Init, Status, NoFile
<1>2. LInv /\ [Next]_vars => [Oci!Next]_<<Status, json.start>>
  BY OciStep
<1>3. QED
  BY <1>1, <1>2, LifecycleInvariance, PTL DEF Spec, ImplementsOci, Oci!Spec
============================================================================
