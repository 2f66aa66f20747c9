----------------------------- MODULE Lifecycle -----------------------------
(***************************************************************************)
(* One container id and the runc commands that operate on it.  Nothing     *)
(* locks the state directory: every command is a process of its own that   *)
(* loads state.json, keeps a handle in memory (Container.state, the pid    *)
(* and the start time of init) and acts on the world (state directory,     *)
(* fifo, cgroup, processes) step by step, while other commands do the      *)
(* same.  Pids may be reused.  InitSync details what is one creation here, *)
(* ExecFifo what is one start.  The container has a private pid namespace. *)
(***************************************************************************)
EXTENDS Naturals, FiniteSets

CONSTANTS
  Procs,       \* processes that run runc commands, one after the other
  Kinds,       \* the commands they run
  Pids,        \* process ids of the host
  MaxStart,    \* bound: how many processes are ever spawned
  Orderly      \* creations never overlap another command on the same id

Commands == {"create", "start", "state", "kill", "delete", "force", "pause", "resume"}

ASSUME LifecycleAssumption ==
  /\ Kinds \subseteq Commands
  /\ Pids \subseteq Nat \ {0}
  /\ MaxStart \in Nat
  /\ Orderly \in BOOLEAN

VARIABLES
  dir,      \* the state directory: "absent", "present"
  json,     \* state.json: NoFile, or the pid and start time of init
  fifo,     \* the exec fifo: 0, or the start time of the init it is for
  cgroup,   \* the container's cgroup: "absent", "thawed", "frozen"
  occ,      \* [Pids -> start time of the occupant, 0 if the pid is free]
  phase,    \* [start time -> what that process is and does]
  doomed,   \* the processes a SIGKILL is pending for
  next,     \* the next start time
  cmd       \* [Procs -> the command, its program counter and its handle]

vars == <<dir, json, fifo, cgroup, occ, phase, doomed, next, cmd>>
disk == <<dir, json, fifo>>
host == <<occ, phase, doomed, next>>

Starts == 1..MaxStart
NoFile == [pid |-> 0, start |-> 0, file |-> "absent"]

(* spawned: runc init, not yet in the cgroup; setup: in the cgroup; fifo:  *)
(* waits on the exec fifo; user: runs the user's process; other: a process *)
(* that is none of the container's business.                               *)
Live == {"spawned", "setup", "fifo", "user"}
InCgroup == {x \in Starts : phase[x] \in {"setup", "fifo", "user"}}

Idle == [kind |-> "none", pc |-> "idle", st |-> "loaded", pid |-> 0, start |-> 0, fd |-> 0]

Init ==
  /\ dir = "absent" /\ json = NoFile /\ fifo = 0 /\ cgroup = "absent"
  /\ occ = [i \in Pids |-> 0]
  /\ phase = [x \in Starts |-> "unborn"]
  /\ doomed = {} /\ next = 1
  /\ cmd = [p \in Procs |-> Idle]

-----------------------------------------------------------------------------
(* Handles *)

At(p, l) == cmd[p].pc = l
Goto(p, l) == cmd' = [cmd EXCEPT ![p].pc = l]
Return(p) == cmd' = [cmd EXCEPT ![p] = Idle]

(* hasInit: the pid is alive and has the start time of state.json. *)
hasInit(p) == cmd[p].pid # 0 /\ occ[cmd[p].pid] = cmd[p].start

(* containerState.transition: the state that results, or "error". *)
transition(from, to) ==
  IF \/ from = "loaded" \/ from = to
     \/ from = "stopped" /\ to = "running"
     \/ from = "running" /\ to \in {"stopped", "paused"}
     \/ from = "created" /\ to \in {"running", "paused", "stopped"}
     \/ from = "paused" /\ to \in {"running", "stopped"}
    THEN to ELSE "error"

(* Mutant of the next operator: the error of transition is not returned.   *)
RefreshedUnchecked(p, to, l) ==
  cmd' = [cmd EXCEPT ![p].st = transition(cmd[p].st, to), ![p].pc = l]

(* refreshState found the container to be in state to. *)
Refreshed(p, to, l) ==
  LET st == transition(cmd[p].st, to)
  IN  IF st = "error" THEN Return(p)
                      ELSE cmd' = [cmd EXCEPT ![p].st = st, ![p].pc = l]

(* kill(2) on a pid: whoever has it now. *)
SignalPid(i) == doomed' = IF i # 0 /\ occ[i] # 0 THEN doomed \cup {occ[i]} ELSE doomed

-----------------------------------------------------------------------------
(* The host *)

(* A process with a SIGKILL pending dies, unless its cgroup is frozen.     *)
(* Its pid is free once its parent has reaped it.                          *)
Die(x) ==
  /\ x \in doomed /\ ~(cgroup = "frozen" /\ x \in InCgroup)
  /\ phase' = [phase EXCEPT ![x] = "dead"]
  /\ occ' = [i \in Pids |-> IF occ[i] = x THEN 0 ELSE occ[i]]
  /\ doomed' = doomed \ {x}
  /\ UNCHANGED <<disk, cgroup, next, cmd>>

(* The user's process exits, or init fails before it. *)
Exit(x) ==
  /\ phase[x] \in Live /\ ~(cgroup = "frozen" /\ x \in InCgroup)
  /\ phase' = [phase EXCEPT ![x] = "dead"]
  /\ occ' = [i \in Pids |-> IF occ[i] = x THEN 0 ELSE occ[i]]
  /\ doomed' = doomed \ {x}
  /\ UNCHANGED <<disk, cgroup, next, cmd>>

(* Another process of the host gets a free pid. *)
Bystander(i) ==
  /\ occ[i] = 0 /\ next <= MaxStart
  /\ occ' = [occ EXCEPT ![i] = next]
  /\ phase' = [phase EXCEPT ![next] = "other"]
  /\ next' = next + 1
  /\ UNCHANGED <<disk, cgroup, doomed, cmd>>

-----------------------------------------------------------------------------
(* Commands: begin and load *)

InCreate(p) == cmd[p].kind = "create"

Begin(p, kind) ==
  /\ At(p, "idle")
  /\ kind = "create" => next <= MaxStart
  /\ Orderly => IF kind = "create" THEN \A q \in Procs : At(q, "idle")
                                   ELSE ~\E q \in Procs : InCreate(q)
  /\ cmd' = [cmd EXCEPT ![p].kind = kind,
                        ![p].pc = IF kind = "create" THEN "stat" ELSE "load"]
  /\ UNCHANGED <<disk, cgroup, host>>

(* Load: loadState.  Without a state.json the delete commands remove the   *)
(* directory.                                                              *)
Load(p) ==
  /\ At(p, "load")
  /\ IF json.file = "absent"
       THEN IF cmd[p].kind \in {"delete", "force"} THEN Goto(p, "rmall") ELSE Return(p)
       ELSE cmd' = [cmd EXCEPT ![p].pid = json.pid, ![p].start = json.start,
                               ![p].pc = "loadPaused"]
  /\ UNCHANGED <<disk, cgroup, host>>

(* delete: os.RemoveAll of what an aborted start has left. *)
RemoveAborted(p) ==
  /\ At(p, "rmall")
  /\ dir' = "absent" /\ json' = NoFile /\ fifo' = 0
  /\ Return(p)
  /\ UNCHANGED <<cgroup, host>>

-----------------------------------------------------------------------------
(* refreshState, once in Load and once in Status: is the cgroup frozen,    *)
(* does init exist, is the fifo there                                      *)

(* What a command does after Load, and after Status. *)
AfterLoad(kind) ==
  CASE kind \in {"kill", "force"} -> "signal" [] OTHER -> "statPaused"
AfterStatus(kind, st) ==
  CASE kind = "start"  /\ st = "created" -> "open"
    [] kind = "delete" /\ st = "stopped" -> "destroy"
    [] kind = "delete" /\ st = "created" -> "signal"
    [] kind = "pause"  /\ st \in {"running", "created"} -> "freeze"
    [] kind = "resume" /\ st = "paused" -> "thaw"
    [] OTHER -> "return"

(* After the refresh l of the two; to is the state it found. *)
Then(p, l, to) ==
  IF l = "load" THEN AfterLoad(cmd[p].kind) ELSE AfterStatus(cmd[p].kind, to)

RefreshPaused(p) ==
  \E l \in {"load", "stat"} :
    /\ At(p, IF l = "load" THEN "loadPaused" ELSE "statPaused")
    /\ IF cgroup = "frozen"
         THEN Refreshed(p, "paused", Then(p, l, "paused"))
         ELSE Goto(p, IF l = "load" THEN "loadInit" ELSE "statInit")
    /\ UNCHANGED <<disk, cgroup, host>>

RefreshInit(p) ==
  \E l \in {"load", "stat"} :
    /\ At(p, IF l = "load" THEN "loadInit" ELSE "statInit")
    /\ IF hasInit(p)
         THEN Goto(p, IF l = "load" THEN "loadFifo" ELSE "statFifo")
         ELSE Refreshed(p, "stopped", Then(p, l, "stopped"))
    /\ UNCHANGED <<disk, cgroup, host>>

RefreshFifo(p) ==
  \E l \in {"load", "stat"} :
    /\ At(p, IF l = "load" THEN "loadFifo" ELSE "statFifo")
    /\ LET to == IF fifo # 0 THEN "created" ELSE "running"
       IN  Refreshed(p, to, Then(p, l, to))
    /\ UNCHANGED <<disk, cgroup, host>>

(* The command is over: state reports, the others say why they refuse. *)
ReturnStatus(p) ==
  /\ At(p, "return")
  /\ Return(p)
  /\ UNCHANGED <<disk, cgroup, host>>

-----------------------------------------------------------------------------
(* create *)

(* Create: the directory must not exist, the cgroup must be empty and must *)
(* not be frozen.                                                          *)
CreateStat(p) ==
  /\ At(p, "stat")
  /\ IF dir = "present" \/ cgroup = "frozen" \/ (cgroup # "absent" /\ InCgroup # {})
       THEN Return(p) ELSE Goto(p, "mkdir")
  /\ UNCHANGED <<disk, cgroup, host>>

(* Mutant of the next step: os.MkdirAll, which does not mind the loser of  *)
(* the race between two creations.                                         *)
CreateMkdirAll(p) ==
  /\ At(p, "mkdir")
  /\ dir' = "present" /\ Goto(p, "mkfifo")
  /\ UNCHANGED <<json, fifo, cgroup, host>>

(* Create: os.Mkdir decides who creates the container. *)
CreateMkdir(p) ==
  /\ At(p, "mkdir")
  /\ dir' = "present"
  /\ IF dir = "present" THEN Return(p) ELSE Goto(p, "mkfifo")
  /\ UNCHANGED <<json, fifo, cgroup, host>>

(* createExecFifo.  The fifo is for the process that is spawned next. *)
CreateExecFifo(p) ==
  /\ At(p, "mkfifo")
  /\ IF dir = "absent" \/ fifo # 0 \/ next > MaxStart
       THEN Goto(p, "dCgroup") /\ UNCHANGED <<fifo, next>>
       ELSE /\ fifo' = next /\ next' = next + 1
            /\ cmd' = [cmd EXCEPT ![p].start = next, ![p].pc = "spawn"]
  /\ UNCHANGED <<dir, json, cgroup, occ, phase, doomed>>

(* initProcess.start: cmd.Start. *)
CreateSpawn(p) ==
  /\ At(p, "spawn")
  /\ \E i \in Pids :
       /\ occ[i] = 0
       /\ occ' = [occ EXCEPT ![i] = cmd[p].start]
       /\ cmd' = [cmd EXCEPT ![p].pid = i, ![p].pc = "save0"]
  /\ phase' = [phase EXCEPT ![cmd[p].start] = "spawned"]
  /\ UNCHANGED <<disk, cgroup, doomed, next>>

(* updateState: state.json is written next to the old one and renamed, if  *)
(* the directory is still there.                                           *)
UpdateState(p, pid, start, l) ==
  IF dir = "absent"
    THEN Goto(p, "abort") /\ UNCHANGED json
    ELSE json' = [pid |-> pid, start |-> start, file |-> "present"] /\ Goto(p, l)

(* updateState(nil), before the cgroup is created: no pid is known yet. *)
CreateSaveEarly(p) ==
  /\ At(p, "save0")
  /\ UpdateState(p, 0, 0, "apply")
  /\ UNCHANGED <<dir, fifo, cgroup, host>>

(* manager.Apply, and the handshake up to procReady. *)
CreateApply(p) ==
  /\ At(p, "apply") /\ phase[cmd[p].start] = "spawned"
  /\ phase' = [phase EXCEPT ![cmd[p].start] = "setup"]
  /\ cgroup' = IF cgroup = "absent" THEN "thawed" ELSE cgroup
  /\ Goto(p, "save")
  /\ UNCHANGED <<disk, occ, doomed, next>>

(* Mutant of the next step: state.json is only written once init runs.     *)
CreateSaveOmitted(p) ==
  /\ At(p, "save") /\ Goto(p, "run")
  /\ UNCHANGED <<disk, cgroup, host>>

(* procReady: the state is stored before the child may run. *)
CreateSave(p) ==
  /\ At(p, "save")
  /\ UpdateState(p, cmd[p].pid, cmd[p].start, "run")
  /\ UNCHANGED <<dir, fifo, cgroup, host>>

(* Mutant of the next step: the child does not wait to be started.         *)
CreateRunUnasked(p) ==
  /\ At(p, "run") /\ phase[cmd[p].start] = "setup" /\ cgroup # "frozen"
  /\ phase' = [phase EXCEPT ![cmd[p].start] = "user"]
  /\ Goto(p, "finish")
  /\ UNCHANGED <<disk, cgroup, occ, doomed, next>>

(* procRun: the child goes on to wait on the fifo. *)
CreateRun(p) ==
  /\ At(p, "run") /\ phase[cmd[p].start] = "setup" /\ cgroup # "frozen"
  /\ phase' = [phase EXCEPT ![cmd[p].start] = "fifo"]
  /\ Goto(p, "finish")
  /\ UNCHANGED <<disk, cgroup, occ, doomed, next>>

CreateReturn(p) ==
  /\ At(p, "finish") /\ Return(p)
  /\ UNCHANGED <<disk, cgroup, host>>

(* Any step fails: the child has died, a hook fails, the pid file cannot   *)
(* be written.  The child is killed.                                       *)
CreateFail(p) ==
  /\ cmd[p].pc \in {"spawn", "save0", "apply", "save", "run", "finish"}
  /\ Goto(p, "abort")
  /\ UNCHANGED <<disk, cgroup, host>>

(* terminate: SIGKILL to the child, whose pid cannot be reused before it   *)
(* is waited for.                                                          *)
AbortKill(p) ==
  /\ At(p, "abort")
  /\ doomed' = IF phase[cmd[p].start] \in Live THEN doomed \cup {cmd[p].start} ELSE doomed
  /\ Goto(p, "abortWait")
  /\ UNCHANGED <<disk, cgroup, occ, phase, next>>

(* The child has been waited for; deleteExecFifo, then runner.destroy. *)
AbortWait(p) ==
  /\ At(p, "abortWait") /\ phase[cmd[p].start] \notin Live
  /\ fifo' = 0
  /\ Goto(p, "dCgroup")
  /\ UNCHANGED <<dir, json, cgroup, host>>

-----------------------------------------------------------------------------
(* start *)

(* exec: the path of the fifo is opened. *)
ExecOpen(p) ==
  /\ At(p, "open")
  /\ IF fifo = 0 THEN Return(p) ELSE cmd' = [cmd EXCEPT ![p].fd = fifo, ![p].pc = "read"]
  /\ UNCHANGED <<disk, cgroup, host>>

(* Init of that fifo meets the reader and executes the user's process. *)
ExecRead(p) ==
  /\ At(p, "read") /\ phase[cmd[p].fd] = "fifo" /\ cgroup # "frozen"
  /\ phase' = [phase EXCEPT ![cmd[p].fd] = "user"]
  /\ Goto(p, "rmfifo")
  /\ UNCHANGED <<disk, cgroup, occ, doomed, next>>

(* exec: every 100 ms, is the pid still there? *)
ExecDead(p) ==
  /\ At(p, "read") /\ occ[cmd[p].pid] = 0
  /\ Return(p)
  /\ UNCHANGED <<disk, cgroup, host>>

(* handleFifoResult: os.Remove of the path. *)
ExecRemove(p) ==
  /\ At(p, "rmfifo")
  /\ fifo' = 0 /\ Return(p)
  /\ UNCHANGED <<dir, json, cgroup, host>>

-----------------------------------------------------------------------------
(* kill, delete, delete --force *)

(* Container.signal: nothing is sent if init is gone.  killContainer       *)
(* ignores that and polls.                                                 *)
SignalCheck(p) ==
  /\ At(p, "signal")
  /\ IF hasInit(p) THEN Goto(p, "send")
     ELSE IF cmd[p].kind = "kill" THEN Return(p) ELSE Goto(p, "poll")
  /\ UNCHANGED <<disk, cgroup, host>>

SignalSend(p) ==
  /\ At(p, "send")
  /\ SignalPid(cmd[p].pid) /\ Goto(p, "thawKilled")
  /\ UNCHANGED <<disk, cgroup, occ, phase, next>>

(* A frozen process does not notice SIGKILL before it is thawed. *)
SignalThaw(p) ==
  /\ At(p, "thawKilled")
  /\ cgroup' = IF cgroup = "frozen" THEN "thawed" ELSE cgroup
  /\ IF cmd[p].kind = "kill" THEN Return(p) ELSE Goto(p, "poll")
  /\ UNCHANGED <<disk, host>>

(* killContainer: wait until init is gone, 100 times at most. *)
KillContainerPoll(p) ==
  /\ At(p, "poll")
  /\ IF hasInit(p) THEN Return(p) ELSE Goto(p, "destroy")
  /\ UNCHANGED <<disk, cgroup, host>>

(* Container.Destroy, by the state the handle is in. *)
DestroyRunning(p) ==
  /\ At(p, "destroy") /\ cmd[p].st \in {"running", "stopped"}
  /\ IF cmd[p].st = "running" /\ hasInit(p) THEN Return(p) ELSE Goto(p, "dCgroup")
  /\ UNCHANGED <<disk, cgroup, host>>

DestroyPaused(p) ==
  /\ At(p, "destroy") /\ cmd[p].st = "paused"
  /\ IF hasInit(p)
       THEN Return(p) /\ UNCHANGED cgroup
       ELSE Goto(p, "dCgroup") /\ cgroup' = IF cgroup = "frozen" THEN "thawed" ELSE cgroup
  /\ UNCHANGED <<disk, host>>

(* createdState.destroy: SIGKILL to the pid, whatever its start time. *)
DestroyCreated(p) ==
  /\ At(p, "destroy") /\ cmd[p].st = "created"
  /\ SignalPid(cmd[p].pid) /\ Goto(p, "dCgroup")
  /\ UNCHANGED <<disk, cgroup, occ, phase, next>>

(* Mutant of the next step: its error is ignored.                          *)
DestroyCgroupUnchecked(p) ==
  /\ At(p, "dCgroup")
  /\ cgroup' = "absent" /\ Goto(p, "dRemove")
  /\ UNCHANGED <<disk, host>>

(* destroy: the cgroup can only be removed when it is empty. *)
DestroyCgroup(p) ==
  /\ At(p, "dCgroup")
  /\ IF InCgroup # {} THEN Return(p) /\ UNCHANGED cgroup
                      ELSE cgroup' = "absent" /\ Goto(p, "dRemove")
  /\ UNCHANGED <<disk, host>>

(* destroy: os.RemoveAll of the state directory, then the poststop hooks. *)
DestroyRemove(p) ==
  /\ At(p, "dRemove")
  /\ dir' = "absent" /\ json' = NoFile /\ fifo' = 0
  /\ Return(p)
  /\ UNCHANGED <<cgroup, host>>

-----------------------------------------------------------------------------
(* pause, resume *)

Freeze(p) ==
  /\ At(p, "freeze")
  /\ cgroup' = IF cgroup = "absent" THEN cgroup ELSE "frozen"
  /\ Return(p)
  /\ UNCHANGED <<disk, host>>

Thaw(p) ==
  /\ At(p, "thaw")
  /\ cgroup' = IF cgroup = "absent" THEN cgroup ELSE "thawed"
  /\ Return(p)
  /\ UNCHANGED <<disk, host>>

(* A command is killed between two of its steps. *)
Crash(p) ==
  /\ ~At(p, "idle") /\ Return(p)
  /\ UNCHANGED <<disk, cgroup, host>>

-----------------------------------------------------------------------------
CreateNext(p) ==
  \/ CreateStat(p) \/ CreateMkdir(p) \/ CreateExecFifo(p) \/ CreateSpawn(p)
  \/ CreateSaveEarly(p) \/ CreateApply(p) \/ CreateSave(p) \/ CreateRun(p)
  \/ CreateReturn(p) \/ CreateFail(p) \/ AbortKill(p) \/ AbortWait(p)

CommandNext(p) ==
  \/ Load(p) \/ RemoveAborted(p)
  \/ RefreshPaused(p) \/ RefreshInit(p) \/ RefreshFifo(p) \/ ReturnStatus(p)
  \/ ExecOpen(p) \/ ExecRead(p) \/ ExecDead(p) \/ ExecRemove(p)
  \/ SignalCheck(p) \/ SignalSend(p) \/ SignalThaw(p) \/ KillContainerPoll(p)
  \/ DestroyRunning(p) \/ DestroyPaused(p) \/ DestroyCreated(p)
  \/ DestroyCgroup(p) \/ DestroyRemove(p) \/ Freeze(p) \/ Thaw(p)

Next ==
  \/ \E x \in Starts : Die(x) \/ Exit(x)
  \/ \E i \in Pids : Bystander(i)
  \/ \E p \in Procs :
       \/ \E kind \in Kinds : Begin(p, kind)
       \/ CreateNext(p) \/ CommandNext(p) \/ Crash(p)

Spec == Init /\ [][Next]_vars

-----------------------------------------------------------------------------
(* Properties *)

States == {"loaded", "stopped", "running", "created", "paused"}
Counters == {"idle", "load", "rmall", "loadPaused", "loadInit", "loadFifo", "statPaused",
             "statInit", "statFifo", "return", "stat", "mkdir", "mkfifo", "spawn", "save0",
             "apply", "save", "run", "finish", "abort", "abortWait", "open", "read",
             "rmfifo", "signal", "send", "thawKilled", "poll", "destroy", "dCgroup",
             "dRemove", "freeze", "thaw"}

(* Every variable has its type.  A handle is only ever in one of the five  *)
(* states of state_linux.go.                                               *)
TypeOK ==
  /\ dir \in {"absent", "present"}
  /\ json \in [pid : Pids \cup {0}, start : Starts \cup {0}, file : {"absent", "present"}]
  /\ fifo \in Starts \cup {0}
  /\ cgroup \in {"absent", "thawed", "frozen"}
  /\ occ \in [Pids -> Starts \cup {0}]
  /\ phase \in [Starts -> Live \cup {"unborn", "dead", "other"}]
  /\ doomed \subseteq Starts
  /\ next \in 1..MaxStart + 1
  /\ cmd \in [Procs -> [kind : Commands \cup {"none"}, pc : Counters, st : States,
                        pid : Pids \cup {0}, start : Starts \cup {0}, fd : Starts \cup {0}]]

(* A live init that waits to be started, or that runs the user's process,  *)
(* is the one state.json names, by pid and by start time, so that kill and *)
(* delete find it, even when the create command was killed half way        *)
(* (initProcess.start stores the state before procRun).                    *)
StateNamesInit ==
  \A x \in Starts : phase[x] \in {"fifo", "user"} =>
    json.start = x /\ json.pid # 0 /\ occ[json.pid] = x

(* Creations of the same id that race (Create's Stat, then Mkdir) never    *)
(* put two inits in the container's cgroup.                                *)
AtMostOneInit == Cardinality(InCgroup) <= 1

(* The state directory is only removed when nothing is left in the cgroup, *)
(* be it by destroy, by delete's os.RemoveAll or by a failed creation.     *)
RemovedOnlyWhenEmpty ==
  [][dir = "present" /\ dir' = "absent" => InCgroup = {}]_vars

(* What users see: the incarnations of the id, whoever looks.              *)
Status ==
  IF dir = "absent" THEN "absent"
  ELSE IF json.start = 0 THEN "creating"
  ELSE CASE phase[json.start] \in {"spawned", "setup"} -> "creating"
         [] phase[json.start] = "fifo" -> "created"
         [] phase[json.start] = "user" -> "running"
         [] OTHER -> "stopped"

Oci == INSTANCE OciLifecycle
         WITH Inits <- Starts, NoInit <- 0, status <- Status, init <- json.start

(* The commands, step by step and in any order, implement the life cycle   *)
(* of the OCI runtime specification.                                       *)
ImplementsOci == Oci!Spec

(* The state directory, the pids and the handles of the commands fit       *)
(* together: a handle has one of the states of state_linux.go, and         *)
(* state.json names the init there is.                                     *)
IdIsSound == TypeOK /\ StateNamesInit

(* The same where creations of one id race (Create's Mkdir decides).       *)
RacesAreSafe == AtMostOneInit /\ StateNamesInit

-----------------------------------------------------------------------------
(* What comments and documentation say *)

(* A delete that has found init gone does not send a SIGKILL to another    *)
(* process that has got its pid ("To avoid a PID reuse attack, don't kill  *)
(* non-running container", Container.signal).                              *)
DestroySparesBystanders ==
  [][\A p \in Procs : At(p, "destroy") /\ cmd'[p].pc # "destroy"
       => \A x \in doomed' \ doomed : phase[x] # "other"]_vars

(* delete without --force does not kill a container whose user process is  *)
(* running ("cannot delete container that is not stopped", delete.go).     *)
PlainDeleteSparesRunning ==
  [][\A p \in Procs :
       cmd[p].kind = "delete" /\ At(p, "send") /\ cmd'[p].pc = "thawKilled"
         => phase[cmd[p].start] # "user"]_vars

(* The directory without a state.json that delete removes is what an       *)
(* aborted start has left, never that of a creation under way (delete.go). *)
OnlyAbortedRemoved ==
  [][(\E p \in Procs : RemoveAborted(p))
       => ~\E q \in Procs : InCreate(q) /\ cmd[q].pc \in {"mkfifo", "spawn", "save0"}]_vars

=============================================================================
