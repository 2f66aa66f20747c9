------------------------------ MODULE InitSync ------------------------------
(***************************************************************************)
(* The creation handshake of one container: `runc create` (the parent,     *)
(* libcontainer.Container.start and initProcess.start) against the         *)
(* processes it spawns: stage 0 of nsexec and the final `runc init`        *)
(* (linuxStandardInit.Init), over the init socketpair, the sync            *)
(* socketpair and the log pipe.  The parent may be SIGKILLed and the child *)
(* may be killed between any two steps, and every operation of the code    *)
(* that can return an error may return one.                                *)
(*                                                                         *)
(* What the two sides leave behind is part of the state: state.json, the   *)
(* exec fifo and the cgroup.                                               *)
(***************************************************************************)
EXTENDS Naturals, Sequences

CONSTANT Configs          \* the container configurations considered

(* mounts:     how many mounts need a source fd from the parent            *)
(* seccomp:    no notify listener, or one installed before (no             *)
(*             NoNewPrivileges) or after (NoNewPrivileges) finalizeNamespace*)
(* rootless:   config.RootlessEUID                                         *)
(* privatePid: Namespaces.IsPrivate(NEWPID)                                *)
(* keep:       `runc run --keep`, i.e. runner.shouldDestroy is false       *)
ASSUME ConfigsAssumption ==
  Configs \subseteq [mounts: Nat, seccomp: {"none", "early", "late"},
                     rootless: BOOLEAN, privatePid: BOOLEAN, keep: BOOLEAN]

VARIABLES
  conf,       \* the configuration of this container (never changes)
  ppc,        \* where the parent is
  ret,        \* retErr of Container.start: "none" yet, "ok", "err"
  pSock,      \* parent's sockets: "open", "shut" (SHUT_WR), "closed"
  proc,       \* which process p.cmd.Process names
  cstate,     \* Container.state in the parent's memory
  seenReady,  \* seenProcReady: "no", "yes"
  s0,         \* nsexec stage 0 (p.cmd as started)
  cpc,        \* where the final `runc init` (stage 2) is
  mnt,        \* mount source requests the child still has to make
  initSock,   \* the last thing written on the init socketpair
  toParent,   \* sync packets in flight, child to parent
  toChild,    \* sync packets in flight, parent to child
  saved,      \* what the state directory holds of state.json
  fifo,       \* the exec fifo in the state directory: "absent", "present"
  cgroup,     \* the container's cgroup
  hooks,      \* Prestart and CreateRuntime hooks: "pending", "run"
  listener    \* the seccomp fd: "none", "grabbed", "forwarded"

parentVars == <<pSock, proc, cstate, seenReady>>
childVars  == <<s0, cpc, mnt>>
chanVars   == <<initSock, toParent, toChild>>
diskVars   == <<saved, fifo, cgroup>>
doneVars   == <<hooks, listener>>
vars == <<conf, ppc, ret, parentVars, childVars, chanVars, diskVars, doneVars>>

-----------------------------------------------------------------------------

Stage0Running == {"boot", "forked", "pidsent"}

ChildGone == {"none", "dead"}

(* The child has been told procRun. *)
PastRun == {"seccompEarly", "seccompEarlyWait", "finalize", "seccompLate",
            "seccompLateWait", "closeSync", "closeLog", "execFifo"}

(* The child has been told procHooksDone. *)
PastHooks == PastRun \cup {"jail", "readyReq", "runWait"}

(* The child's end of the sync socket is closed. *)
SyncClosed == {"closeLog", "execFifo"} \cup ChildGone

ChildPcs == PastHooks \cup ChildGone \cup
            {"nsexec", "readcfg", "mountReq", "mountFd", "hooksReq",
             "hooksWait", "fail"}

(* The states in which the child runs code that may return an error. *)
Fallible == {"readcfg", "mountReq", "hooksReq", "jail", "readyReq",
             "seccompEarly", "finalize", "seccompLate"}

ParentOver == {"returned", "crashed"}

ParentPcs == ParentOver \cup
  {"fifo", "spawn", "saveEarly", "apply", "bootstrap", "getpid", "getfds",
   "wait0", "setup", "sendcfg", "sync", "mount", "hooksSet", "hooksRun",
   "hooksDone", "rlimits", "saveInit", "run", "getfd", "seccompDone",
   "forward", "shutdown", "terminate", "rmCgroup", "closeParent",
   "poststart", "logs", "rmfifo", "destroy", "destroyCgroup", "rmdir"}

ToParentTypes == {"procMountPlease", "procHooks", "procReady", "procSeccomp",
                  "procError"}
ToChildTypes == {"procMountFd", "procHooksDone", "procRun", "procSeccompDone"}

(* Some process of the container is alive, hence the cgroup is not empty. *)
AnyAlive == s0 \in Stage0Running \/ cpc \notin ChildGone

Init ==
  /\ conf \in Configs
  /\ ppc = "fifo" /\ ret = "none"
  /\ pSock = "open" /\ proc = "none" /\ cstate = "stopped" /\ seenReady = "no"
  /\ s0 = "none" /\ cpc = "none" /\ mnt = conf.mounts
  /\ initSock = "none" /\ toParent = <<>> /\ toChild = <<>>
  /\ saved = "nofile" /\ fifo = "absent" /\ cgroup = "none"
  /\ hooks = "pending" /\ listener = "none"

-----------------------------------------------------------------------------
(* Parent: control helpers *)

Goto(l) == ppc' = l /\ UNCHANGED ret

(* Return an error: go on with the deferred functions from l. *)
Abort(l) == ppc' = l /\ ret' = "err"

(* writeSync by the parent: EPIPE when the child's end is closed. *)
ParentWrite(m, l) ==
  \/ cpc \notin SyncClosed /\ toChild' = Append(toChild, m) /\ Goto(l)
  \/ UNCHANGED toChild /\ Abort("shutdown")

(* p.cmd.Process.Kill: before waitForChildExit it names stage 0. *)
KillProc ==
  /\ s0' = IF proc = "stage0" /\ s0 \in Stage0Running THEN "exit1" ELSE s0
  /\ cpc' = IF proc = "init" THEN "dead" ELSE cpc

(* cgroupManager.Destroy fails while the cgroup holds a process. *)
DestroyCgroup == cgroup' = IF cgroup = "live" /\ ~AnyAlive THEN "none" ELSE cgroup

(* refreshState through currentOCIState: an init that is gone makes a      *)
(* created container stopped.                                              *)
RefreshState == cstate' = IF cpc = "dead" THEN "stopped" ELSE cstate

-----------------------------------------------------------------------------
(* Parent: Container.start and initProcess.start, up to the sync loop *)

(* createExecFifo; its own deferred function removes the fifo on error. *)
ParentCreateFifo ==
  /\ ppc = "fifo"
  /\ \/ fifo' = "present" /\ Goto("spawn")
     \/ UNCHANGED fifo /\ Abort("destroy")
  /\ UNCHANGED <<conf, parentVars, childVars, chanVars, saved, cgroup, doneVars>>

(* newParentProcess and p.cmd.Start. *)
ParentSpawn ==
  /\ ppc = "spawn"
  /\ \/ s0' = "boot" /\ proc' = "stage0" /\ Goto("saveEarly")
     \/ UNCHANGED <<s0, proc>> /\ Abort("closeParent")
  /\ UNCHANGED <<conf, pSock, cstate, seenReady, cpc, mnt, chanVars, diskVars,
                 doneVars>>

(* Mutant of the next step: the early save is left out. *)
ParentSaveEarlyOmitted ==
  /\ ppc = "saveEarly"
  /\ Goto("apply")
  /\ UNCHANGED <<conf, parentVars, childVars, chanVars, diskVars, doneVars>>

(* updateState(nil): a state.json without a pid.  The function that kills  *)
(* the child on error is deferred only after this call.                    *)
ParentSaveEarly ==
  /\ ppc = "saveEarly"
  /\ \/ saved' = "nopid" /\ Goto("apply")
     \/ UNCHANGED saved /\ Abort("closeParent")
  /\ UNCHANGED <<conf, parentVars, childVars, chanVars, fifo, cgroup, doneVars>>

(* Mutant of the next step: the process joining no cgroup and that being no error. *)
ParentApplyIgnoringErrors ==
  /\ ppc = "apply"
  /\ cgroup' \in {"none", "live"} /\ Goto("bootstrap")
  /\ UNCHANGED <<conf, parentVars, childVars, chanVars, saved, fifo, doneVars>>

(* manager.Apply and intelRdtManager.Apply; ErrRootless is ignored. *)
ParentApply ==
  /\ ppc = "apply"
  /\ \/ cgroup' = "live" /\ Goto("bootstrap")
     \/ conf.rootless /\ cgroup' = "skipped" /\ Goto("bootstrap")
     \/ cgroup' \in {"none", "live"} /\ Abort("terminate")
  /\ UNCHANGED <<conf, parentVars, childVars, chanVars, saved, fifo, doneVars>>

(* io.Copy of the bootstrap data. *)
ParentBootstrap ==
  /\ ppc = "bootstrap"
  /\ \/ s0 \in Stage0Running /\ initSock' = "bootstrap" /\ Goto("getpid")
     \/ UNCHANGED initSock /\ Abort("terminate")
  /\ UNCHANGED <<conf, parentVars, childVars, toParent, toChild, diskVars,
                 doneVars>>

(* getChildPid: the decoder fails once every writer of the socket is gone. *)
ParentGetChildPid ==
  /\ ppc = "getpid"
  /\ \/ initSock = "pids" /\ Goto("getfds")
     \/ initSock # "pids" /\ ~AnyAlive /\ Abort("terminate")
  /\ UNCHANGED <<conf, parentVars, childVars, chanVars, diskVars, doneVars>>

ParentGetPipeFds ==
  /\ ppc = "getfds"
  /\ Goto("wait0") \/ Abort("terminate")
  /\ UNCHANGED <<conf, parentVars, childVars, chanVars, diskVars, doneVars>>

(* waitForChildExit: from here on p.cmd.Process is the final child. *)
ParentWaitForChildExit ==
  /\ ppc = "wait0"
  /\ \/ s0 = "exit0" /\ proc' = "init" /\ Goto("setup")
     \/ s0 = "exit1" /\ UNCHANGED proc /\ Abort("terminate")
  /\ UNCHANGED <<conf, pSock, cstate, seenReady, childVars, chanVars, diskVars,
                 doneVars>>

(* goCreateMountSources, network interfaces and devices, SpecState. *)
ParentSetup ==
  /\ ppc = "setup"
  /\ Goto("sendcfg") \/ Abort("terminate")
  /\ UNCHANGED <<conf, parentVars, childVars, chanVars, diskVars, doneVars>>

ParentSendConfig ==
  /\ ppc = "sendcfg"
  /\ \/ cpc \notin ChildGone /\ initSock' = "config" /\ Goto("sync")
     \/ UNCHANGED initSock /\ Abort("terminate")
  /\ UNCHANGED <<conf, parentVars, childVars, toParent, toChild, diskVars,
                 doneVars>>

-----------------------------------------------------------------------------
(* Parent: parseSync and its callback *)

(* The first step of the callback for each type of packet; an error ends   *)
(* the loop.                                                               *)
Handler(m) ==
  CASE m = "procMountPlease" -> IF conf.rootless THEN "error" ELSE "mount"
    [] m = "procHooks"   -> "hooksSet"
    [] m = "procReady"   -> "rlimits"
    [] m = "procSeccomp" -> IF conf.seccomp = "none" THEN "error" ELSE "getfd"
    [] OTHER             -> "error"

(* doReadSync: a packet, or EOF once the child's end is closed and the     *)
(* queue is drained.                                                       *)
ParentReadSync ==
  /\ ppc = "sync"
  /\ \/ /\ toParent # <<>>
        /\ toParent' = Tail(toParent)
        /\ seenReady' = IF Head(toParent) = "procReady" THEN "yes" ELSE seenReady
        /\ IF Handler(Head(toParent)) = "error"
             THEN Abort("shutdown")
             ELSE Goto(Handler(Head(toParent)))
     \/ /\ toParent = <<>> /\ cpc \in SyncClosed
        /\ Goto("shutdown")
        /\ UNCHANGED <<toParent, seenReady>>
  /\ UNCHANGED <<conf, pSock, proc, cstate, childVars, initSock, toChild,
                 diskVars, doneVars>>

(* procMountPlease: mountRequest, then procMountFd. *)
ParentMount ==
  /\ ppc = "mount"
  /\ ParentWrite("procMountFd", "sync")
  /\ UNCHANGED <<conf, parentVars, childVars, initSock, toParent, diskVars,
                 doneVars>>

(* procHooks: manager.Set and intelRdtManager.Set. *)
ParentHooksSet ==
  /\ ppc = "hooksSet"
  /\ Goto("hooksRun") \/ Abort("shutdown")
  /\ UNCHANGED <<conf, parentVars, childVars, chanVars, diskVars, doneVars>>

(* Mutant of the next step: going on after a hook that failed. *)
ParentHooksRunIgnoringErrors ==
  /\ ppc = "hooksRun"
  /\ hooks' \in {hooks, "run"} /\ Goto("hooksDone")
  /\ UNCHANGED <<conf, parentVars, childVars, chanVars, diskVars, listener>>

(* procHooks: the Prestart and the CreateRuntime hooks. *)
ParentHooksRun ==
  /\ ppc = "hooksRun"
  /\ \/ hooks' = "run" /\ Goto("hooksDone")
     \/ UNCHANGED hooks /\ Abort("shutdown")
  /\ UNCHANGED <<conf, parentVars, childVars, chanVars, diskVars, listener>>

ParentHooksDone ==
  /\ ppc = "hooksDone"
  /\ ParentWrite("procHooksDone", "sync")
  /\ UNCHANGED <<conf, parentVars, childVars, initSock, toParent, diskVars,
                 doneVars>>

(* procReady: setupRlimits, then the in-memory state becomes created. *)
ParentRlimits ==
  /\ ppc = "rlimits"
  /\ \/ cstate' = "created" /\ Goto("saveInit")
     \/ UNCHANGED cstate /\ Abort("shutdown")
  /\ UNCHANGED <<conf, pSock, proc, seenReady, childVars, chanVars, diskVars,
                 doneVars>>

(* Mutant of the next step: the save is put off until the child has been released. *)
ParentSaveInitLate ==
  /\ ppc = "saveInit"
  /\ Goto("run")
  /\ UNCHANGED <<conf, parentVars, childVars, chanVars, diskVars, doneVars>>

(* procReady: updateState(p), the state.json that names the init process. *)
ParentSaveInit ==
  /\ ppc = "saveInit"
  /\ \/ saved' = "init" /\ Goto("run")
     \/ UNCHANGED saved /\ Abort("shutdown")
  /\ UNCHANGED <<conf, parentVars, childVars, chanVars, fifo, cgroup, doneVars>>

ParentRun ==
  /\ ppc = "run"
  /\ ParentWrite("procRun", "sync")
  /\ UNCHANGED <<conf, parentVars, childVars, initSock, toParent, diskVars,
                 doneVars>>

(* procSeccomp: pidGetFd of the child's notify fd. *)
ParentGetSeccompFd ==
  /\ ppc = "getfd"
  /\ \/ cpc # "dead" /\ listener' = "grabbed" /\ Goto("seccompDone")
     \/ UNCHANGED listener /\ Abort("shutdown")
  /\ UNCHANGED <<conf, parentVars, childVars, chanVars, diskVars, hooks>>

(* procSeccomp: the child is released before the fd is forwarded. *)
ParentSeccompDone ==
  /\ ppc = "seccompDone"
  /\ ParentWrite("procSeccompDone", "forward")
  /\ UNCHANGED <<conf, parentVars, childVars, initSock, toParent, diskVars,
                 doneVars>>

(* Mutant of the next step: the error of sendContainerProcessState is dropped. *)
ParentForwardSeccompFdIgnoringErrors ==
  /\ ppc = "forward"
  /\ listener' \in {listener, "forwarded"} /\ RefreshState /\ Goto("sync")
  /\ UNCHANGED <<conf, pSock, proc, seenReady, childVars, chanVars, diskVars,
                 hooks>>

(* procSeccomp: currentOCIState and sendContainerProcessState. *)
ParentForwardSeccompFd ==
  /\ ppc = "forward"
  /\ \/ listener' = "forwarded" /\ RefreshState /\ Goto("sync")
     \/ UNCHANGED listener /\ (RefreshState \/ UNCHANGED cstate) /\ Abort("shutdown")
  /\ UNCHANGED <<conf, pSock, proc, seenReady, childVars, chanVars, diskVars,
                 hooks>>

-----------------------------------------------------------------------------
(* Parent: after the sync loop, and the deferred functions *)

(* Mutant of the next step: without the check. *)
ParentShutdownUnchecked ==
  /\ ppc = "shutdown"
  /\ pSock' = "shut"
  /\ \/ ret = "none" /\ Goto("closeParent")
     \/ Abort("terminate")
  /\ UNCHANGED <<conf, proc, cstate, seenReady, childVars, chanVars, diskVars,
                 doneVars>>

(* Shutdown(SHUT_WR) and the "procReady not received" check. *)
ParentShutdown ==
  /\ ppc = "shutdown"
  /\ pSock' = "shut"
  /\ \/ ret = "none" /\ seenReady = "yes" /\ Goto("closeParent")
     \/ Abort("terminate")
  /\ UNCHANGED <<conf, proc, cstate, seenReady, childVars, chanVars, diskVars,
                 doneVars>>

(* Deferred by initProcess.start: p.terminate(). *)
ParentTerminate ==
  /\ ppc = "terminate"
  /\ KillProc
  /\ Goto("rmCgroup")
  /\ UNCHANGED <<conf, parentVars, mnt, chanVars, diskVars, doneVars>>

(* Deferred by initProcess.start: p.manager.Destroy(), its error ignored. *)
ParentRemoveCgroup ==
  /\ ppc = "rmCgroup"
  /\ DestroyCgroup
  /\ Goto("closeParent")
  /\ UNCHANGED <<conf, parentVars, childVars, chanVars, saved, fifo, doneVars>>

(* Mutant of the next step: the sockets stay open. *)
ParentCloseParentOmitted ==
  /\ ppc = "closeParent"
  /\ Goto(IF ret = "err" THEN "logs" ELSE "poststart")
  /\ UNCHANGED <<conf, parentVars, childVars, chanVars, diskVars, doneVars>>

(* Deferred by initProcess.start: p.comm.closeParent(). *)
ParentCloseParent ==
  /\ ppc = "closeParent"
  /\ pSock' = "closed"
  /\ Goto(IF ret = "err" THEN "logs" ELSE "poststart")
  /\ UNCHANGED <<conf, proc, cstate, seenReady, childVars, chanVars, diskVars,
                 doneVars>>

(* The Poststart hooks: a failing hook terminates the child, a failing     *)
(* currentOCIState does not.                                               *)
ParentPoststart ==
  /\ ppc = "poststart"
  /\ ppc' = "logs"
  /\ \/ ret' \in {"ok", "err"} /\ (RefreshState \/ UNCHANGED cstate) /\ UNCHANGED childVars
     \/ ret' = "err" /\ RefreshState /\ KillProc /\ UNCHANGED mnt
  /\ UNCHANGED <<conf, pSock, proc, seenReady, chanVars, diskVars, doneVars>>

(* Mutant of the next step: without waiting. *)
ParentWaitLogsOmitted ==
  /\ ppc = "logs"
  /\ Goto(IF ret = "err" THEN "rmfifo" ELSE "returned")
  /\ UNCHANGED <<conf, parentVars, childVars, chanVars, diskVars, doneVars>>

(* Deferred by Container.start: wait until every writer of the log pipe    *)
(* has closed it.                                                          *)
ParentWaitLogs ==
  /\ ppc = "logs"
  /\ s0 \notin Stage0Running
  /\ cpc \in ChildGone \cup {"execFifo"}
  /\ Goto(IF ret = "err" THEN "rmfifo" ELSE "returned")
  /\ UNCHANGED <<conf, parentVars, childVars, chanVars, diskVars, doneVars>>

(* Deferred by Container.start: deleteExecFifo. *)
ParentDeleteFifo ==
  /\ ppc = "rmfifo"
  /\ fifo' = "absent"
  /\ Goto("destroy")
  /\ UNCHANGED <<conf, parentVars, childVars, chanVars, saved, cgroup, doneVars>>

(* runner.destroy: Container.Destroy in the created or the stopped state.  *)
(* A shared pid namespace has its processes signalled through the cgroup.  *)
ParentDestroy ==
  /\ ppc = "destroy"
  /\ IF conf.keep
       THEN Goto("returned") /\ UNCHANGED childVars
       ELSE /\ IF cgroup = "live" /\ ~conf.privatePid
                 THEN /\ cpc' = IF cpc = "none" THEN "none" ELSE "dead"
                      /\ s0' = IF s0 \in Stage0Running THEN "exit1" ELSE s0
                 ELSE IF cstate = "created" THEN KillProc ELSE UNCHANGED <<s0, cpc>>
            /\ Goto("destroyCgroup") /\ UNCHANGED mnt
  /\ UNCHANGED <<conf, parentVars, chanVars, diskVars, doneVars>>

(* destroy: the error of cgroupManager.Destroy ends it. *)
ParentDestroyCgroup ==
  /\ ppc = "destroyCgroup"
  /\ DestroyCgroup
  /\ Goto(IF cgroup = "live" /\ AnyAlive THEN "returned" ELSE "rmdir")
  /\ UNCHANGED <<conf, parentVars, childVars, chanVars, saved, fifo, doneVars>>

(* destroy: os.RemoveAll(c.stateDir), Poststop hooks, stoppedState. *)
ParentRemoveStateDir ==
  /\ ppc = "rmdir"
  /\ saved' = "nodir" /\ fifo' = "absent" /\ cstate' = "stopped"
  /\ Goto("returned")
  /\ UNCHANGED <<conf, pSock, proc, seenReady, childVars, chanVars, cgroup,
                 doneVars>>

(* SIGKILL to runc create: the kernel closes its sockets. *)
ParentCrash ==
  /\ ppc \notin ParentOver
  /\ Goto("crashed")
  /\ pSock' = "closed"
  /\ UNCHANGED <<conf, proc, cstate, seenReady, childVars, chanVars, diskVars,
                 doneVars>>

-----------------------------------------------------------------------------
(* nsexec stage 0; stages 1 and 2 are folded into it and into the child    *)

(* The bootstrap data has been read, stages 1 and 2 are cloned. *)
Stage0Clone ==
  /\ s0 = "boot" /\ initSock = "bootstrap"
  /\ s0' = "forked" /\ cpc' = "nsexec"
  /\ UNCHANGED <<conf, ppc, ret, parentVars, mnt, chanVars, diskVars, doneVars>>

(* SYNC_RECVPID_PLS: the pids of stages 1 and 2 are written to runc. *)
Stage0SendPids ==
  /\ s0 = "forked" /\ pSock # "closed"
  /\ s0' = "pidsent" /\ initSock' = "pids"
  /\ UNCHANGED <<conf, ppc, ret, parentVars, cpc, mnt, toParent, toChild,
                 diskVars, doneVars>>

(* SYNC_GRANDCHILD and SYNC_CHILD_FINISH of stage 2, then exit(0). *)
Stage0Finish ==
  /\ s0 = "pidsent" /\ cpc = "nsexec"
  /\ s0' = "exit0" /\ cpc' = "readcfg"
  /\ UNCHANGED <<conf, ppc, ret, parentVars, mnt, chanVars, diskVars, doneVars>>

(* bail: some paths kill stage 2 first. *)
Stage0Bail ==
  /\ s0 \in Stage0Running
  /\ s0' = "exit1"
  /\ cpc' \in {cpc, IF cpc = "none" THEN "none" ELSE "dead"}
  /\ UNCHANGED <<conf, ppc, ret, parentVars, mnt, chanVars, diskVars, doneVars>>

-----------------------------------------------------------------------------
(* Child: runc init *)

(* writeSync by the child: EPIPE when the parent has closed its end. *)
ChildWrite(m, l) ==
  IF pSock = "closed"
    THEN cpc' = "fail" /\ UNCHANGED toParent
    ELSE cpc' = l /\ toParent' = Append(toParent, m)

(* readSync by the child: the expected packet, another one, or EOF. *)
ChildRead(m, l) ==
  \/ /\ toChild # <<>>
     /\ toChild' = Tail(toChild)
     /\ cpc' = IF Head(toChild) = m THEN l ELSE "fail"
  \/ /\ toChild = <<>> /\ pSock # "open"
     /\ cpc' = "fail"
     /\ UNCHANGED toChild

(* Stage 2 waits for SYNC_GRANDCHILD of a stage 0 that is gone. *)
ChildNsexecEOF ==
  /\ cpc = "nsexec" /\ s0 \notin Stage0Running
  /\ cpc' = "dead"
  /\ UNCHANGED <<conf, ppc, ret, parentVars, s0, mnt, chanVars, diskVars,
                 doneVars>>

(* startInitialization decodes the configuration from the init socket. *)
ChildReadConfig ==
  /\ cpc = "readcfg"
  /\ \/ initSock = "config" /\ cpc' = "mountReq"
     \/ initSock # "config" /\ pSock = "closed" /\ cpc' = "fail"
  /\ UNCHANGED <<conf, ppc, ret, parentVars, s0, mnt, chanVars, diskVars,
                 doneVars>>

(* Mutant of the next step: one request too many. *)
ChildMountRequestOffByOne ==
  /\ cpc = "mountReq"
  /\ \/ ChildWrite("procMountPlease", "mountFd")
     \/ mnt = 0 /\ cpc' = "hooksReq" /\ UNCHANGED toParent
  /\ UNCHANGED <<conf, ppc, ret, parentVars, s0, mnt, initSock, toChild,
                 diskVars, doneVars>>

(* prepareRootfs: the loop over the mounts, one request at a time. *)
ChildMountRequest ==
  /\ cpc = "mountReq"
  /\ IF mnt > 0
       THEN ChildWrite("procMountPlease", "mountFd")
       ELSE cpc' = "hooksReq" /\ UNCHANGED toParent
  /\ UNCHANGED <<conf, ppc, ret, parentVars, s0, mnt, initSock, toChild,
                 diskVars, doneVars>>

ChildMountFd ==
  /\ cpc = "mountFd"
  /\ ChildRead("procMountFd", "mountReq")
  /\ mnt' = IF cpc' = "mountReq" THEN mnt - 1 ELSE mnt
  /\ UNCHANGED <<conf, ppc, ret, parentVars, s0, initSock, toParent, diskVars,
                 doneVars>>

(* syncParentHooks. *)
ChildHooksRequest ==
  /\ cpc = "hooksReq"
  /\ ChildWrite("procHooks", "hooksWait")
  /\ UNCHANGED <<conf, ppc, ret, parentVars, s0, mnt, initSock, toChild,
                 diskVars, doneVars>>

ChildHooksWait ==
  /\ cpc = "hooksWait"
  /\ ChildRead("procHooksDone", "jail")
  /\ UNCHANGED <<conf, ppc, ret, parentVars, s0, mnt, initSock, toParent,
                 diskVars, doneVars>>

(* CreateContainer hooks, pivot_root, console, finalizeRootfs, labels.  *)
ChildJail ==
  /\ cpc = "jail"
  /\ cpc' = "readyReq"
  /\ UNCHANGED <<conf, ppc, ret, parentVars, s0, mnt, chanVars, diskVars,
                 doneVars>>

(* syncParentReady. *)
ChildReady ==
  /\ cpc = "readyReq"
  /\ ChildWrite("procReady", "runWait")
  /\ UNCHANGED <<conf, ppc, ret, parentVars, s0, mnt, initSock, toChild,
                 diskVars, doneVars>>

(* Mutant of the next step: not waiting for procRun. *)
ChildRunWaitOmitted ==
  /\ cpc = "runWait"
  /\ cpc' = "seccompEarly"
  /\ UNCHANGED <<conf, ppc, ret, parentVars, s0, mnt, chanVars, diskVars,
                 doneVars>>

ChildRunWait ==
  /\ cpc = "runWait"
  /\ ChildRead("procRun", "seccompEarly")
  /\ UNCHANGED <<conf, ppc, ret, parentVars, s0, mnt, initSock, toParent,
                 diskVars, doneVars>>

(* InitSeccomp and syncParentSeccomp, without NoNewPrivileges. *)
ChildSeccompEarly ==
  /\ cpc = "seccompEarly"
  /\ IF conf.seccomp = "early"
       THEN ChildWrite("procSeccomp", "seccompEarlyWait")
       ELSE cpc' = "finalize" /\ UNCHANGED toParent
  /\ UNCHANGED <<conf, ppc, ret, parentVars, s0, mnt, initSock, toChild,
                 diskVars, doneVars>>

ChildSeccompEarlyWait ==
  /\ cpc = "seccompEarlyWait"
  /\ ChildRead("procSeccompDone", "finalize")
  /\ UNCHANGED <<conf, ppc, ret, parentVars, s0, mnt, initSock, toParent,
                 diskVars, doneVars>>

(* finalizeNamespace, the parent-pid check and LookPath.  In a private pid *)
(* namespace Getppid is 0 before and after the parent's death.             *)
ChildFinalize ==
  /\ cpc = "finalize"
  /\ cpc' = IF ppc = "crashed" /\ ~conf.privatePid THEN "dead" ELSE "seccompLate"
  /\ UNCHANGED <<conf, ppc, ret, parentVars, s0, mnt, chanVars, diskVars,
                 doneVars>>

(* InitSeccomp and syncParentSeccomp, with NoNewPrivileges. *)
ChildSeccompLate ==
  /\ cpc = "seccompLate"
  /\ IF conf.seccomp = "late"
       THEN ChildWrite("procSeccomp", "seccompLateWait")
       ELSE cpc' = "closeSync" /\ UNCHANGED toParent
  /\ UNCHANGED <<conf, ppc, ret, parentVars, s0, mnt, initSock, toChild,
                 diskVars, doneVars>>

ChildSeccompLateWait ==
  /\ cpc = "seccompLateWait"
  /\ ChildRead("procSeccompDone", "closeSync")
  /\ UNCHANGED <<conf, ppc, ret, parentVars, s0, mnt, initSock, toParent,
                 diskVars, doneVars>>

(* l.pipe.Close(). *)
ChildCloseSync ==
  /\ cpc = "closeSync"
  /\ cpc' = "closeLog"
  /\ UNCHANGED <<conf, ppc, ret, parentVars, s0, mnt, chanVars, diskVars,
                 doneVars>>

(* l.logPipe.Close(); its error can no longer be sent to the parent. *)
ChildCloseLog ==
  /\ cpc = "closeLog"
  /\ cpc' \in {"execFifo", "dead"}
  /\ UNCHANGED <<conf, ppc, ret, parentVars, s0, mnt, chanVars, diskVars,
                 doneVars>>

(* An operation of Init returns an error. *)
ChildError ==
  /\ cpc \in Fallible
  /\ cpc' = "fail"
  /\ UNCHANGED <<conf, ppc, ret, parentVars, s0, mnt, chanVars, diskVars,
                 doneVars>>

(* Deferred by startInitialization: procError, then exit. *)
ChildFail ==
  /\ cpc = "fail"
  /\ cpc' = "dead"
  /\ toParent' = IF pSock = "closed" THEN toParent ELSE Append(toParent, "procError")
  /\ UNCHANGED <<conf, ppc, ret, parentVars, s0, mnt, initSock, toChild,
                 diskVars, doneVars>>

(* SIGKILL, for example by the OOM killer. *)
ChildKilled ==
  /\ cpc \notin ChildGone
  /\ cpc' = "dead"
  /\ UNCHANGED <<conf, ppc, ret, parentVars, s0, mnt, chanVars, diskVars,
                 doneVars>>

-----------------------------------------------------------------------------

ParentStep ==
  \/ ParentCreateFifo \/ ParentSpawn \/ ParentSaveEarly \/ ParentApply
  \/ ParentBootstrap \/ ParentGetChildPid \/ ParentGetPipeFds
  \/ ParentWaitForChildExit \/ ParentSetup \/ ParentSendConfig
  \/ ParentReadSync \/ ParentMount \/ ParentHooksSet \/ ParentHooksRun
  \/ ParentHooksDone \/ ParentRlimits \/ ParentSaveInit \/ ParentRun
  \/ ParentGetSeccompFd \/ ParentSeccompDone \/ ParentForwardSeccompFd
  \/ ParentShutdown \/ ParentTerminate \/ ParentRemoveCgroup
  \/ ParentCloseParent \/ ParentPoststart \/ ParentWaitLogs
  \/ ParentDeleteFifo \/ ParentDestroy \/ ParentDestroyCgroup
  \/ ParentRemoveStateDir

Stage0Step == Stage0Clone \/ Stage0SendPids \/ Stage0Finish

(* What makes stage 0 fail for sure: EOF on a socket it reads. *)
Stage0EOF == (pSock = "closed" \/ cpc = "dead") /\ Stage0Bail

ChildStep ==
  \/ ChildNsexecEOF \/ ChildReadConfig \/ ChildMountRequest \/ ChildMountFd
  \/ ChildHooksRequest \/ ChildHooksWait \/ ChildJail \/ ChildReady
  \/ ChildRunWait \/ ChildSeccompEarly \/ ChildSeccompEarlyWait
  \/ ChildFinalize \/ ChildSeccompLate \/ ChildSeccompLateWait
  \/ ChildCloseSync \/ ChildCloseLog \/ ChildFail

(* Nobody has anything left to do: the init process, if it lives, waits    *)
(* for `runc start` on the exec fifo.                                      *)
Terminated ==
  /\ ppc \in ParentOver
  /\ s0 \notin Stage0Running
  /\ cpc \in ChildGone \cup {"execFifo"}
  /\ UNCHANGED vars

Next == ParentStep \/ Stage0Step \/ Stage0Bail \/ ChildStep \/ ChildError
        \/ ParentCrash \/ ChildKilled \/ Terminated

Spec == Init /\ [][Next]_vars

(* Each process is scheduled by the kernel and the hooks return; nothing   *)
(* makes a process fail or crash, except an EOF that it reads.             *)
FairSpec ==
  Spec /\ WF_vars(ParentStep) /\ WF_vars(Stage0Step \/ Stage0EOF) /\ WF_vars(ChildStep)

-----------------------------------------------------------------------------
(* Properties *)

(* Every variable has its type; the child never asks for more mounts than  *)
(* the configuration has (mnt counts down to 0 and not further).           *)
TypeOK ==
  /\ conf \in Configs
  /\ ppc \in ParentPcs /\ ret \in {"none", "ok", "err"}
  /\ pSock \in {"open", "shut", "closed"} /\ proc \in {"none", "stage0", "init"}
  /\ cstate \in {"stopped", "created"} /\ seenReady \in {"no", "yes"}
  /\ s0 \in Stage0Running \cup {"none", "exit0", "exit1"}
  /\ cpc \in ChildPcs /\ mnt \in Nat
  /\ initSock \in {"none", "bootstrap", "pids", "config"}
  /\ toParent \in Seq(ToParentTypes) /\ toChild \in Seq(ToChildTypes)
  /\ saved \in {"nodir", "nofile", "nopid", "init"} /\ fifo \in {"absent", "present"}
  /\ cgroup \in {"none", "live", "skipped"}
  /\ hooks \in {"pending", "run"} /\ listener \in {"none", "grabbed", "forwarded"}

(* A `runc init` that has been released by procRun is named by state.json  *)
(* until it is dead, whatever happens to runc create: the reason the       *)
(* procReady handler stores the state before it writes procRun.            *)
SavedBeforeRun == cpc \in PastRun => saved = "init"

(* While any process sits in the container's cgroup there is a state.json, *)
(* so that `runc delete` finds a runc create that was killed.              *)
StateWhileInCgroup ==
  cgroup = "live" /\ AnyAlive => saved \in {"nopid", "init"}

(* No process that nsexec clones escapes the cgroup: stage 0 gets its      *)
(* bootstrap data only after manager.Apply, unless Apply said ErrRootless. *)
NoEscapeFromCgroup == cpc \notin ChildGone => cgroup # "none"

(* The child leaves prepareRootfs only after the cgroup was set and every  *)
(* Prestart and CreateRuntime hook returned without an error.              *)
HooksBeforeJail == cpc \in PastHooks => hooks = "run"

Expected ==
  [mountFd |-> "procMountFd", hooksWait |-> "procHooksDone", runWait |-> "procRun",
   seccompEarlyWait |-> "procSeccompDone", seccompLateWait |-> "procSeccompDone"]

(* The sync protocol is a strict alternation: at most one packet is in     *)
(* flight, a living child never finds a packet other than the one it waits *)
(* for, and the parent is never sent anything while it owes an answer.     *)
StrictAlternation ==
  /\ Len(toParent) + Len(toChild) <= 1
  /\ cpc \notin ChildGone /\ toChild # <<>> =>
       cpc \in DOMAIN Expected /\ toChild = <<Expected[cpc]>>

(* When runc create reports an error, nothing of the container is left:    *)
(* no process, no cgroup, no fifo, no state directory.  Killing stage 0    *)
(* does not kill stage 2; waiting for the log pipe is what makes this true.*)
ErrorLeavesNothing ==
  ppc = "returned" /\ ret = "err" /\ ~conf.keep =>
    ~AnyAlive /\ saved = "nodir" /\ fifo = "absent" /\ cgroup # "live"

(* When runc create reports success, init was named by state.json, all its *)
(* hooks have run, the fifo is there, and init has nothing left to ask:    *)
(* it is at the fifo, or dead.                                             *)
SuccessIsComplete ==
  ppc = "returned" /\ ret = "ok" =>
    /\ saved = "init" /\ fifo = "present" /\ hooks = "run"
    /\ cpc \in {"execFifo", "dead"}

(* A container with a seccomp notify listener whose creation succeeded and *)
(* whose init waits at the fifo has had its fd sent to the listener, even  *)
(* though the child was released before the fd was sent.                   *)
SeccompFdForwarded ==
  ppc = "returned" /\ ret = "ok" /\ cpc = "execFifo" /\ conf.seccomp # "none"
    => listener = "forwarded"

(* The state directory is removed only when init is dead.                  *)
StateDirOutlivesInit ==
  [][saved # "nodir" /\ saved' = "nodir" => cpc' \in ChildGone]_vars

(* runc create returns, unless it is killed: no step of either side waits  *)
(* for ever, in the error paths too.                                       *)
CreateReturns == <>(ppc \in ParentOver)

(* After a crash of runc create every process it left either dies by       *)
(* itself or is the init of a created container named by state.json.       *)
OrphansAccountedFor ==
  ppc = "crashed" ~>
    /\ s0 \notin Stage0Running
    /\ cpc \in ChildGone \/ (cpc = "execFifo" /\ saved = "init")

(* The cgroup: state.json leads to what is in it (the early save of        *)
(* initProcess.start), and no process of the child side is outside it      *)
(* (manager.Apply before the bootstrap data is sent).                      *)
CgroupIsKnown == StateWhileInCgroup /\ NoEscapeFromCgroup

(* What runc create reports is what it leaves behind: after an error       *)
(* nothing (the deferred clean-up), after a success a container that only  *)
(* waits for its start, and whose seccomp listener has its fd.             *)
OutcomeIsTrue == ErrorLeavesNothing /\ SuccessIsComplete /\ SeccompFdForwarded

(* A creation ends, in runc create (Container.start with its wait for the  *)
(* log pipe) and, if that is killed, in every process it has left.         *)
CreateEnds == CreateReturns /\ OrphansAccountedFor
=============================================================================
