--------------------------- MODULE InitSyncProofs ---------------------------
(***************************************************************************)
(* Proofs about InitSync, for every set of configurations.  IInv carries   *)
(* the types, the hooks before the jail, state.json before the release of  *)
(* init, and the removal of the state directory; StateInv the cgroup; SInv *)
(* the strict alternation of the sync protocol; OInv, on top of the three, *)
(* what runc create reports.                                               *)
(***************************************************************************)
EXTENDS InitSync, SequenceTheorems, TLAPS

-----------------------------------------------------------------------------
(* Packets in a queue *)

Holds(q, m) == \E i \in 1..Len(q) : q[i] = m

(* Appending keeps the type of a queue.                                    *)
LEMMA AppendType ==
  ASSUME NEW S, NEW q \in Seq(S), NEW e \in S
  PROVE  Append(q, e) \in Seq(S)
BY AppendProperties

(* So does removing its head.                                              *)
LEMMA TailType ==
  ASSUME NEW S, NEW q \in Seq(S), q # <<>>
  PROVE  Head(q) \in S /\ Tail(q) \in Seq(S)
BY HeadTailProperties

(* An empty queue holds nothing.                                           *)
LEMMA HoldsEmpty == \A m : ~Holds(<<>>, m)
BY DEF Holds

(* An appended queue holds the new packet and what it held.                *)
LEMMA HoldsAppend ==
  ASSUME NEW S, NEW q \in Seq(S), NEW e \in S, NEW m
  PROVE  Holds(Append(q, e), m) => Holds(q, m) \/ e = m
<1>1. Len(Append(q, e)) = Len(q) + 1 /\ Append(q, e)[Len(q) + 1] = e
      /\ \A i \in 1..Len(q) : Append(q, e)[i] = q[i]
  BY AppendProperties
<1>2. Len(q) \in Nat
  OBVIOUS
<1>3. QED
  BY <1>1, <1>2 DEF Holds

(* A queue holds its head and whatever its tail holds.                     *)
LEMMA HoldsTail ==
  ASSUME NEW S, NEW q \in Seq(S), q # <<>>, NEW m
  PROVE  Holds(q, Head(q)) /\ (Holds(Tail(q), m) => Holds(q, m))
<1>1. Len(q) \in Nat /\ Len(q) > 0 /\ Head(q) = q[1]
  BY EmptySeq
<1>2. Len(Tail(q)) = Len(q) - 1 /\ \A i \in 1..Len(Tail(q)) : Tail(q)[i] = q[i + 1]
  BY HeadTailProperties
<1>3. Holds(q, Head(q))
  BY <1>1 DEF Holds
<1>4. ASSUME NEW i \in 1..Len(Tail(q)), Tail(q)[i] = m PROVE Holds(q, m)
  <2>1. i + 1 \in 1..Len(q) /\ q[i + 1] = m
    BY <1>1, <1>2, <1>4
  <2>2. QED
    BY <2>1 DEF Holds
<1>5. QED
  BY <1>3, <1>4 DEF Holds

(* What a parent's writeSync of m does to the packets in flight.           *)
WriteEffect(m) ==
  /\ toChild' \in Seq(ToChildTypes)
  /\ \A x : Holds(toChild', x) => Holds(toChild, x) \/ m = x
  /\ cpc = "none" => toChild' = toChild

(* ParentWrite has that effect.                                            *)
LEMMA ParentWriteEffect ==
  ASSUME toChild \in Seq(ToChildTypes), NEW m \in ToChildTypes, NEW l,
         ParentWrite(m, l)
  PROVE  WriteEffect(m)
<1>1. CASE toChild' = Append(toChild, m) /\ cpc \notin SyncClosed
  BY <1>1, AppendType, HoldsAppend DEF WriteEffect, SyncClosed, ChildGone
<1>2. CASE UNCHANGED toChild
  BY <1>2 DEF WriteEffect
<1>3. QED
  BY <1>1, <1>2 DEF ParentWrite

(* A child's writeSync keeps the type of the packets in flight.            *)
LEMMA ChildWriteEffect ==
  ASSUME toParent \in Seq(ToParentTypes), NEW m \in ToParentTypes, NEW l,
         ChildWrite(m, l)
  PROVE  toParent' \in Seq(ToParentTypes)
BY AppendType DEF ChildWrite

(* What a child's readSync does to the packets in flight.                  *)
ReadEffect ==
  /\ toChild' \in Seq(ToChildTypes)
  /\ \A x : Holds(toChild', x) => Holds(toChild, x)
  /\ \A x : toChild # <<>> /\ Head(toChild) = x => Holds(toChild, x)

(* ChildRead has that effect.                                              *)
LEMMA ChildReadEffect ==
  ASSUME toChild \in Seq(ToChildTypes), NEW m, NEW l, ChildRead(m, l)
  PROVE  ReadEffect
<1>1. CASE toChild # <<>> /\ toChild' = Tail(toChild)
  BY <1>1, TailType, HoldsTail DEF ReadEffect
<1>2. CASE toChild = <<>> /\ UNCHANGED toChild
  BY <1>2 DEF ReadEffect
<1>3. QED
  BY <1>1, <1>2 DEF ChildRead

-----------------------------------------------------------------------------
(* The inductive invariant *)

(* The parent has not sent the bootstrap data. *)
EarlyPcs == {"fifo", "spawn", "saveEarly", "apply", "bootstrap"}

(* The parent's cmd.Process is the final child. *)
InitPcs == {"setup", "sendcfg", "sync", "mount", "hooksSet", "hooksRun",
            "hooksDone", "rlimits", "saveInit", "run", "getfd", "seccompDone",
            "forward", "shutdown", "poststart"}

(* The parent is past the wait for the log pipe, on the error path. *)
CleanPcs == {"rmfifo", "destroy", "destroyCgroup", "rmdir"}

IInv ==
  /\ TypeOK
  /\ cpc = "mountFd" => mnt > 0
  /\ ppc \in EarlyPcs => initSock = "none"
  /\ initSock = "none" => cpc = "none"
  /\ s0 \in {"none", "boot"} => cpc = "none"
  /\ ppc \in {"fifo", "spawn"} => s0 = "none"
  /\ s0 \in {"forked", "pidsent"} => initSock # "none"
  /\ s0 = "exit0" => cpc # "none"
  /\ proc = "init" => s0 = "exit0"
  /\ ppc \in InitPcs => proc = "init"
  /\ ppc \in {"terminate", "rmCgroup"} => ret = "err"
  /\ ppc = "closeParent" /\ ret # "err" => proc = "init"
  /\ cstate = "created" => proc = "init"
  /\ cpc = "none" => toChild = <<>>
  /\ ppc \in {"saveInit", "run"} => cstate = "created"
  /\ ppc = "run" => saved = "init"
  /\ cpc \notin ChildGone /\ Holds(toChild, "procRun") =>
       cstate = "created" /\ saved = "init"
  /\ cpc \in PastRun => cstate = "created" /\ saved = "init"
  /\ ppc \in CleanPcs => s0 \notin Stage0Running /\ cpc \in ChildGone \cup {"execFifo"}
  /\ ppc \in {"destroyCgroup", "rmdir"} => cpc \in ChildGone
  /\ ppc = "hooksDone" => hooks = "run"
  /\ Holds(toChild, "procHooksDone") => hooks = "run"
  /\ cpc \in PastHooks => hooks = "run"

(* The initial state satisfies the inductive invariant.                    *)
LEMMA InitIInv == Init => IInv
<1>1. ~Holds(<<>>, "procRun") /\ ~Holds(<<>>, "procHooksDone")
  BY HoldsEmpty
<1>2. Init => TypeOK
  BY ConfigsAssumption DEF ConfigsAssumption, Init, TypeOK, ParentPcs, ParentOver,
     ChildPcs, PastHooks, PastRun, ChildGone, Stage0Running
<1>3. QED
  BY <1>1, <1>2 DEF Init, IInv, EarlyPcs, InitPcs, CleanPcs, PastHooks, PastRun,
     ChildGone, Stage0Running

(* Every step preserves it.                                                *)
LEMMA NextIInv == IInv /\ [Next]_vars => IInv'
<1> SUFFICES ASSUME IInv, [Next]_vars PROVE IInv'
  OBVIOUS
<1> USE DEF IInv, TypeOK, EarlyPcs, InitPcs, CleanPcs, ParentPcs, ParentOver,
            ChildPcs, PastHooks, PastRun, ChildGone, Stage0Running, Fallible,
            SyncClosed, parentVars, childVars, chanVars, diskVars, doneVars
<1>1. CASE ParentCreateFifo
  BY <1>1 DEF ParentCreateFifo, Goto, Abort
<1>2. CASE ParentSpawn
  BY <1>2 DEF ParentSpawn, Goto, Abort
<1>3. CASE ParentSaveEarly
  BY <1>3 DEF ParentSaveEarly, Goto, Abort
<1>4. CASE ParentApply
  BY <1>4 DEF ParentApply, Goto, Abort
<1>5. CASE ParentBootstrap
  BY <1>5 DEF ParentBootstrap, Goto, Abort
<1>6. CASE ParentGetChildPid
  BY <1>6 DEF ParentGetChildPid, Goto, Abort
<1>7. CASE ParentGetPipeFds
  BY <1>7 DEF ParentGetPipeFds, Goto, Abort
<1>8. CASE ParentWaitForChildExit
  BY <1>8 DEF ParentWaitForChildExit, Goto, Abort
<1>9. CASE ParentSetup
  BY <1>9 DEF ParentSetup, Goto, Abort
<1>10. CASE ParentSendConfig
  BY <1>10 DEF ParentSendConfig, Goto, Abort
<1>11. CASE ParentReadSync
  <2>1. toParent' \in Seq(ToParentTypes)
    BY <1>11, TailType DEF ParentReadSync
  <2>2. ppc' \in InitPcs /\ ppc' \notin {"saveInit", "run", "hooksDone"}
    BY <1>11 DEF ParentReadSync, Goto, Abort, Handler
  <2>3. ret' \in {"none", "ok", "err"} /\ seenReady' \in {"no", "yes"}
    BY <1>11 DEF ParentReadSync, Goto, Abort, Handler
  <2>4. QED
    BY <1>11, <2>1, <2>2, <2>3 DEF ParentReadSync
<1>12. CASE ParentMount
  <2>1. WriteEffect("procMountFd")
    BY <1>12, ParentWriteEffect DEF ParentMount, ToChildTypes
  <2>2. QED
    BY <1>12, <2>1 DEF WriteEffect, ParentMount, Goto, Abort, ParentWrite
<1>13. CASE ParentHooksSet
  BY <1>13 DEF ParentHooksSet, Goto, Abort
<1>14. CASE ParentHooksRun
  BY <1>14 DEF ParentHooksRun, Goto, Abort
<1>15. CASE ParentHooksDone
  <2>1. WriteEffect("procHooksDone")
    BY <1>15, ParentWriteEffect DEF ParentHooksDone, ToChildTypes
  <2>2. QED
    BY <1>15, <2>1 DEF WriteEffect, ParentHooksDone, Goto, Abort, ParentWrite
<1>16. CASE ParentRlimits
  BY <1>16 DEF ParentRlimits, Goto, Abort
<1>17. CASE ParentSaveInit
  BY <1>17 DEF ParentSaveInit, Goto, Abort
<1>18. CASE ParentRun
  <2>1. WriteEffect("procRun")
    BY <1>18, ParentWriteEffect DEF ParentRun, ToChildTypes
  <2>2. QED
    BY <1>18, <2>1 DEF WriteEffect, ParentRun, Goto, Abort, ParentWrite
<1>19. CASE ParentGetSeccompFd
  BY <1>19 DEF ParentGetSeccompFd, Goto, Abort
<1>20. CASE ParentSeccompDone
  <2>1. WriteEffect("procSeccompDone")
    BY <1>20, ParentWriteEffect DEF ParentSeccompDone, ToChildTypes
  <2>2. QED
    BY <1>20, <2>1 DEF WriteEffect, ParentSeccompDone, Goto, Abort,
        ParentWrite
<1>21. CASE ParentForwardSeccompFd
  BY <1>21 DEF ParentForwardSeccompFd, Goto, Abort, RefreshState
<1>22. CASE ParentShutdown
  BY <1>22 DEF ParentShutdown, Goto, Abort
<1>23. CASE ParentTerminate
  BY <1>23 DEF ParentTerminate, Goto, KillProc
<1>24. CASE ParentRemoveCgroup
  BY <1>24 DEF ParentRemoveCgroup, Goto, DestroyCgroup
<1>25. CASE ParentCloseParent
  BY <1>25 DEF ParentCloseParent, Goto
<1>26. CASE ParentPoststart
  BY <1>26 DEF ParentPoststart, RefreshState, KillProc
<1>27. CASE ParentWaitLogs
  BY <1>27 DEF ParentWaitLogs, Goto
<1>28. CASE ParentDeleteFifo
  BY <1>28 DEF ParentDeleteFifo, Goto
<1>29. CASE ParentDestroy
  BY <1>29 DEF ParentDestroy, Goto, KillProc
<1>30. CASE ParentDestroyCgroup
  BY <1>30 DEF ParentDestroyCgroup, Goto, DestroyCgroup, AnyAlive
<1>31. CASE ParentRemoveStateDir
  BY <1>31 DEF ParentRemoveStateDir, Goto
<1>32. CASE Stage0Clone
  BY <1>32, HoldsEmpty DEF Stage0Clone
<1>33. CASE Stage0SendPids
  BY <1>33 DEF Stage0SendPids
<1>34. CASE Stage0Finish
  BY <1>34 DEF Stage0Finish
<1>35. CASE Stage0Bail
  BY <1>35 DEF Stage0Bail
<1>36. CASE ChildNsexecEOF
  BY <1>36 DEF ChildNsexecEOF
<1>37. CASE ChildReadConfig
  BY <1>37 DEF ChildReadConfig
<1>38. CASE ChildMountRequest
  <2>1. toParent' \in Seq(ToParentTypes)
    BY <1>38, ChildWriteEffect DEF ChildMountRequest, ToParentTypes
  <2>2. QED
    BY <1>38, <2>1 DEF ChildMountRequest, ChildWrite
<1>39. CASE ChildMountFd
  <2>1. ReadEffect
    BY <1>39, ChildReadEffect DEF ChildMountFd
  <2>2. QED
    BY <1>39, <2>1 DEF ReadEffect, ChildMountFd, ChildRead
<1>40. CASE ChildHooksRequest
  <2>1. toParent' \in Seq(ToParentTypes)
    BY <1>40, ChildWriteEffect DEF ChildHooksRequest, ToParentTypes
  <2>2. QED
    BY <1>40, <2>1 DEF ChildHooksRequest, ChildWrite
<1>41. CASE ChildHooksWait
  <2>1. ReadEffect
    BY <1>41, ChildReadEffect DEF ChildHooksWait
  <2>2. QED
    BY <1>41, <2>1 DEF ReadEffect, ChildHooksWait, ChildRead
<1>42. CASE ChildJail
  BY <1>42 DEF ChildJail
<1>43. CASE ChildReady
  <2>1. toParent' \in Seq(ToParentTypes)
    BY <1>43, ChildWriteEffect DEF ChildReady, ToParentTypes
  <2>2. QED
    BY <1>43, <2>1 DEF ChildReady, ChildWrite
<1>44. CASE ChildRunWait
  <2>1. ReadEffect
    BY <1>44, ChildReadEffect DEF ChildRunWait
  <2>2. QED
    BY <1>44, <2>1 DEF ReadEffect, ChildRunWait, ChildRead
<1>45. CASE ChildSeccompEarly
  <2>1. toParent' \in Seq(ToParentTypes)
    BY <1>45, ChildWriteEffect DEF ChildSeccompEarly, ToParentTypes
  <2>2. QED
    BY <1>45, <2>1 DEF ChildSeccompEarly, ChildWrite
<1>46. CASE ChildSeccompEarlyWait
  <2>1. ReadEffect
    BY <1>46, ChildReadEffect DEF ChildSeccompEarlyWait
  <2>2. QED
    BY <1>46, <2>1 DEF ReadEffect, ChildSeccompEarlyWait, ChildRead
<1>47. CASE ChildFinalize
  BY <1>47 DEF ChildFinalize
<1>48. CASE ChildSeccompLate
  <2>1. toParent' \in Seq(ToParentTypes)
    BY <1>48, ChildWriteEffect DEF ChildSeccompLate, ToParentTypes
  <2>2. QED
    BY <1>48, <2>1 DEF ChildSeccompLate, ChildWrite
<1>49. CASE ChildSeccompLateWait
  <2>1. ReadEffect
    BY <1>49, ChildReadEffect DEF ChildSeccompLateWait
  <2>2. QED
    BY <1>49, <2>1 DEF ReadEffect, ChildSeccompLateWait, ChildRead
<1>50. CASE ChildCloseSync
  BY <1>50 DEF ChildCloseSync
<1>51. CASE ChildCloseLog
  BY <1>51 DEF ChildCloseLog
<1>52. CASE ChildError
  BY <1>52 DEF ChildError
<1>53. CASE ChildFail
  <2>1. toParent' \in Seq(ToParentTypes)
    BY <1>53, AppendType DEF ChildFail, ToParentTypes
  <2>2. QED
    BY <1>53, <2>1 DEF ChildFail
<1>54. CASE ParentCrash
  BY <1>54 DEF ParentCrash, Goto
<1>55. CASE ChildKilled
  BY <1>55 DEF ChildKilled
<1>56. CASE Terminated
  BY <1>56 DEF Terminated, vars
<1>57. CASE UNCHANGED vars
  BY <1>57 DEF vars
<1>58. QED
  BY <1>1, <1>2, <1>3, <1>4, <1>5, <1>6, <1>7, <1>8, <1>9, <1>10, <1>11,
      <1>12, <1>13, <1>14, <1>15, <1>16, <1>17, <1>18, <1>19, <1>20, <1>21,
      <1>22, <1>23, <1>24, <1>25, <1>26, <1>27, <1>28, <1>29, <1>30, <1>31,
      <1>32, <1>33, <1>34, <1>35, <1>36, <1>37, <1>38, <1>39, <1>40, <1>41,
      <1>42, <1>43, <1>44, <1>45, <1>46, <1>47, <1>48, <1>49, <1>50, <1>51,
      <1>52, <1>53, <1>54, <1>55, <1>56, <1>57 DEF Next, ParentStep,
      Stage0Step, ChildStep

(* The inductive invariant holds in every reachable state.                 *)
THEOREM Invariance == Spec => []IInv
<1>1. QED
  BY InitIInv, NextIInv, PTL DEF Spec

(* Every variable keeps its type: in particular the child never makes more *)
(* mount requests than it has mounts.                                      *)
THEOREM TypeCorrect == Spec => []TypeOK
<1>1. IInv => TypeOK
  BY DEF IInv
<1>2. QED
  BY <1>1, Invariance, PTL

(* state.json names init from before procRun is written until init is      *)
(* dead, with crashes and failures anywhere.                               *)
THEOREM SavedBeforeRunTheorem == Spec => []SavedBeforeRun
<1>1. IInv => SavedBeforeRun
  BY DEF IInv, SavedBeforeRun
<1>2. QED
  BY <1>1, Invariance, PTL

(* The child leaves prepareRootfs only after the hooks have run.           *)
THEOREM HooksBeforeJailTheorem == Spec => []HooksBeforeJail
<1>1. IInv => HooksBeforeJail
  BY DEF IInv, HooksBeforeJail
<1>2. QED
  BY <1>1, Invariance, PTL

(* Only ParentRemoveStateDir removes the state directory, and it runs when *)
(* init is dead.                                                           *)
LEMMA RemovalStep ==
  ASSUME IInv, [Next]_vars, saved # "nodir", saved' = "nodir"
  PROVE  cpc' \in ChildGone
<1>1. CASE ParentRemoveStateDir
  BY <1>1 DEF ParentRemoveStateDir, IInv, childVars
<1>2. CASE ParentSaveEarly \/ ParentSaveInit
  BY <1>2 DEF ParentSaveEarly, ParentSaveInit
<1>3. ASSUME ~ParentRemoveStateDir, ~ParentSaveEarly, ~ParentSaveInit
      PROVE  UNCHANGED saved
  BY <1>3 DEF Next, ParentStep, Stage0Step, ChildStep, vars, diskVars,
      ParentCreateFifo, ParentSpawn, ParentApply, ParentBootstrap,
      ParentGetChildPid, ParentGetPipeFds, ParentWaitForChildExit,
      ParentSetup, ParentSendConfig, ParentReadSync, ParentMount,
      ParentHooksSet, ParentHooksRun, ParentHooksDone, ParentRlimits,
      ParentRun, ParentGetSeccompFd, ParentSeccompDone,
      ParentForwardSeccompFd, ParentShutdown, ParentTerminate,
      ParentRemoveCgroup, ParentCloseParent, ParentPoststart, ParentWaitLogs,
      ParentDeleteFifo, ParentDestroy, ParentDestroyCgroup, Stage0Clone,
      Stage0SendPids, Stage0Finish, Stage0Bail, ChildNsexecEOF,
      ChildReadConfig, ChildMountRequest, ChildMountFd, ChildHooksRequest,
      ChildHooksWait, ChildJail, ChildReady, ChildRunWait, ChildSeccompEarly,
      ChildSeccompEarlyWait, ChildFinalize, ChildSeccompLate,
      ChildSeccompLateWait, ChildCloseSync, ChildCloseLog, ChildError,
      ChildFail, ParentCrash, ChildKilled, Terminated
<1>4. QED
  BY <1>1, <1>2, <1>3

(* The state directory is never removed under a living init.               *)
THEOREM StateDirTheorem == Spec => StateDirOutlivesInit
<1>1. IInv /\ [Next]_vars =>
        [saved # "nodir" /\ saved' = "nodir" => cpc' \in ChildGone]_vars
  BY RemovalStep
<1>2. QED
  BY <1>1, Invariance, PTL DEF Spec, StateDirOutlivesInit

-----------------------------------------------------------------------------
(* The cgroup and state.json *)

(* A step of runc init changes its own place, the packets in flight and    *)
(* nothing that the parent or nsexec keeps.                                *)
LEMMA ChildFrame ==
  ASSUME ChildStep \/ ChildError \/ ChildKilled
  PROVE  /\ cpc \notin ChildGone
         /\ UNCHANGED <<conf, ppc, ret, pSock, proc, cstate, seenReady, s0,
                        initSock, saved, fifo, cgroup, hooks, listener>>
BY DEF ChildStep, ChildError, ChildKilled, ChildNsexecEOF, ChildReadConfig,
   ChildMountRequest, ChildMountFd, ChildHooksRequest, ChildHooksWait,
   ChildJail, ChildReady, ChildRunWait, ChildSeccompEarly,
   ChildSeccompEarlyWait, ChildFinalize, ChildSeccompLate,
   ChildSeccompLateWait, ChildCloseSync, ChildCloseLog, ChildFail, Fallible,
   ChildGone, parentVars, chanVars, diskVars, doneVars

(* state.json exists from before manager.Apply until no process is left,   *)
(* and nothing gets bootstrap data before manager.Apply.                   *)
StateInv ==
  /\ ppc \in {"fifo", "spawn", "saveEarly"} => saved = "nofile"
  /\ ppc = "apply" => saved = "nopid"
  /\ saved = "nofile" => cgroup = "none"
  /\ saved = "nodir" => ppc = "returned" /\ ~AnyAlive
  /\ ppc = "bootstrap" => cgroup # "none"
  /\ initSock # "none" /\ AnyAlive => cgroup # "none"

(* Every step preserves it.                                                *)
LEMMA NextStateInv == IInv /\ StateInv /\ [Next]_vars => StateInv'
<1> SUFFICES ASSUME IInv, StateInv, [Next]_vars PROVE StateInv'
  OBVIOUS
<1> USE DEF IInv, TypeOK, StateInv, AnyAlive, ChildGone, Stage0Running,
            EarlyPcs, CleanPcs, parentVars, childVars, chanVars, diskVars
<1>1. CASE ParentCreateFifo \/ ParentSpawn
  BY <1>1 DEF ParentCreateFifo, ParentSpawn, Goto, Abort
<1>2. CASE ParentSaveEarly \/ ParentSaveInit
  BY <1>2 DEF ParentSaveEarly, ParentSaveInit, Goto, Abort
<1>3. CASE ParentApply
  BY <1>3 DEF ParentApply, Goto, Abort
<1>4. CASE ParentBootstrap \/ ParentSendConfig
  BY <1>4 DEF ParentBootstrap, ParentSendConfig, Goto, Abort
<1>5. CASE ParentGetChildPid \/ ParentGetPipeFds \/ ParentWaitForChildExit \/ ParentSetup
  BY <1>5 DEF ParentGetChildPid, ParentGetPipeFds, ParentWaitForChildExit,
      ParentSetup, Goto, Abort
<1>6. CASE ParentReadSync
  BY <1>6 DEF ParentReadSync, Handler, Goto, Abort
<1>7. CASE ParentMount \/ ParentHooksDone \/ ParentRun \/ ParentSeccompDone
  BY <1>7 DEF ParentMount, ParentHooksDone, ParentRun, ParentSeccompDone,
      ParentWrite, Goto, Abort
<1>8. CASE ParentHooksSet \/ ParentHooksRun \/ ParentRlimits
  BY <1>8 DEF ParentHooksSet, ParentHooksRun, ParentRlimits, Goto, Abort
<1>9. CASE ParentGetSeccompFd \/ ParentForwardSeccompFd \/ ParentShutdown
  BY <1>9 DEF ParentGetSeccompFd, ParentForwardSeccompFd, ParentShutdown,
      Goto, Abort
<1>10. CASE ParentTerminate
  BY <1>10 DEF ParentTerminate, KillProc, Goto
<1>11. CASE ParentRemoveCgroup \/ ParentDestroyCgroup
  BY <1>11 DEF ParentRemoveCgroup, ParentDestroyCgroup, DestroyCgroup, Goto
<1>12. CASE ParentCloseParent \/ ParentWaitLogs \/ ParentDeleteFifo
  BY <1>12 DEF ParentCloseParent, ParentWaitLogs, ParentDeleteFifo, Goto
<1>13. CASE ParentPoststart
  BY <1>13 DEF ParentPoststart, KillProc
<1>14. CASE ParentDestroy
  BY <1>14 DEF ParentDestroy, KillProc, Goto
<1>15. CASE ParentRemoveStateDir
  BY <1>15 DEF ParentRemoveStateDir, Goto
<1>16. CASE ParentCrash
  BY <1>16 DEF ParentCrash, ParentOver, Goto
<1>17. CASE Stage0Step \/ Stage0Bail
  BY <1>17 DEF Stage0Step, Stage0Clone, Stage0SendPids, Stage0Finish, Stage0Bail
<1>18. CASE ChildStep \/ ChildError \/ ChildKilled
  BY <1>18, ChildFrame
<1>19. CASE Terminated \/ UNCHANGED vars
  BY <1>19 DEF Terminated, vars
<1>20. QED
  BY <1>1, <1>2, <1>3, <1>4, <1>5, <1>6, <1>7, <1>8, <1>9, <1>10, <1>11,
      <1>12, <1>13, <1>14, <1>15, <1>16, <1>17, <1>18, <1>19 DEF Next,
      ParentStep

(* The two invariants hold together in every reachable state.              *)
LEMMA StateInvariance == Spec => [](IInv /\ StateInv)
<1>1. Init => StateInv
  BY DEF Init, StateInv, AnyAlive, Stage0Running, ChildGone
<1>2. QED
  BY <1>1, NextStateInv, InitIInv, NextIInv, PTL DEF Spec

(* Whatever fails or is killed, state.json leads to every process in the   *)
(* cgroup, and no process that nsexec clones is outside it.                *)
THEOREM CgroupIsKnownTheorem == Spec => []CgroupIsKnown
<1>1. IInv /\ StateInv => CgroupIsKnown
  BY DEF IInv, TypeOK, StateInv, CgroupIsKnown, StateWhileInCgroup,
     NoEscapeFromCgroup, AnyAlive, ChildGone
<1>2. QED
  BY <1>1, StateInvariance, PTL

-----------------------------------------------------------------------------
(* The strict alternation of the sync protocol *)

(* Where the child waits for an answer of the parent. *)
Waits == {"mountFd", "hooksWait", "runWait", "seccompEarlyWait", "seccompLateWait"}

SeccompWaits == {"seccompEarlyWait", "seccompLateWait"}

(* The packet the child has sent before it waits at w. *)
Request(w) ==
  CASE w = "mountFd"   -> "procMountPlease"
    [] w = "hooksWait" -> "procHooks"
    [] w = "runWait"   -> "procReady"
    [] OTHER           -> "procSeccomp"

(* Where the parent works on that request. *)
Handling(w) ==
  CASE w = "mountFd"   -> {"mount"}
    [] w = "hooksWait" -> {"hooksSet", "hooksRun", "hooksDone"}
    [] w = "runWait"   -> {"rlimits", "saveInit", "run"}
    [] OTHER           -> {"getfd", "seccompDone"}

(* The parent owes an answer. *)
Owing == {"mount", "hooksSet", "hooksRun", "hooksDone", "rlimits", "saveInit",
          "run", "getfd", "seccompDone"}

LoopPcs == Owing \cup {"sync", "forward"}

BeforeLoop == EarlyPcs \cup {"getpid", "getfds", "wait0", "setup", "sendcfg"}

AfterLoop == {"shutdown", "terminate", "rmCgroup", "closeParent", "poststart",
              "logs", "returned"} \cup CleanPcs

(* The child has no configuration yet, or no longer uses the protocol. *)
Unconfigured == {"none", "nsexec", "readcfg", "fail", "dead"}

AfterSeccomp == {"closeSync", "closeLog", "execFifo"}

(* The packets in flight are at most one, and none while the parent owes   *)
(* an answer.                                                              *)
OneInFlight ==
  /\ toParent = <<>> \/ (toChild = <<>> /\ \E m \in ToParentTypes : toParent = <<m>>)
  /\ toChild = <<>> \/ \E m \in ToChildTypes : toChild = <<m>>
  /\ ppc \in Owing => toParent = <<>> /\ toChild = <<>>

(* What is in flight fits the place where the child waits. *)
PacketFits ==
  /\ cpc \notin ChildGone /\ toChild # <<>> => cpc \in Waits /\ toChild = <<Expected[cpc]>>
  /\ cpc \in Waits => toParent = <<>> \/ toParent = <<Request(cpc)>>
  /\ cpc \notin ChildGone \cup Waits => toParent = <<>> \/ (cpc = "fail" /\ pSock = "closed")
  /\ cpc = "seccompEarlyWait" => conf.seccomp = "early"
  /\ cpc = "seccompLateWait" => conf.seccomp = "late"

(* Where the parent is fits the place where the child waits. *)
PartnerFits ==
  /\ ppc \in BeforeLoop => initSock # "config"
  /\ initSock # "config" => cpc \in Unconfigured
  /\ s0 \in {"forked", "pidsent"} => cpc \in {"nsexec", "dead"}
  /\ cpc = "none" => toParent = <<>>
  /\ (ppc = "forward" \/ ppc \in AfterLoop) /\ cpc \in {"nsexec", "readcfg"} =>
       initSock # "config"
  /\ ppc \in BeforeLoop \cup LoopPcs \cup {"shutdown"} => pSock = "open"
  /\ pSock = "shut" => ppc \in AfterLoop
  /\ ppc \in Owing /\ cpc \notin ChildGone => cpc \in Waits /\ ppc \in Handling(cpc)
  /\ ppc = "forward" \/ ppc \in AfterLoop =>
       \/ cpc \in Unconfigured \cup AfterSeccomp
       \/ /\ cpc \in Waits /\ toParent = <<>>
          /\ cpc \in SeccompWaits \/ (toChild = <<>> /\ ppc # "forward")
       \/ cpc \in {"finalize", "seccompLate"} /\ conf.seccomp = "early"

SInv == OneInFlight /\ PacketFits /\ PartnerFits

(* What a queue of one packet is.                                          *)
LEMMA OnePacket ==
  ASSUME NEW m
  PROVE  /\ Append(<<>>, m) = <<m>> /\ Head(<<m>>) = m /\ Tail(<<m>>) = <<>>
         /\ <<m>> # <<>> /\ Len(<<m>>) = 1
OBVIOUS

(* The answers the child expects.                                          *)
LEMMA ExpectedTable ==
  /\ DOMAIN Expected = Waits
  /\ Expected["mountFd"] = "procMountFd" /\ Expected["hooksWait"] = "procHooksDone"
  /\ Expected["runWait"] = "procRun"
  /\ \A w \in SeccompWaits : Expected[w] = "procSeccompDone"
BY DEF Expected, Waits, SeccompWaits

(* The steps of the parent up to the sync loop preserve SInv.              *)
LEMMA BeforeLoopSInv ==
  ASSUME IInv, SInv,
         \/ ParentCreateFifo \/ ParentSpawn \/ ParentSaveEarly \/ ParentApply
         \/ ParentBootstrap \/ ParentGetChildPid \/ ParentGetPipeFds
         \/ ParentWaitForChildExit \/ ParentSetup \/ ParentSendConfig
  PROVE  SInv'
<1> USE DEF IInv, TypeOK, SInv, OneInFlight, PacketFits, PartnerFits, Waits,
            SeccompWaits, Owing, LoopPcs, BeforeLoop, AfterLoop, EarlyPcs,
            CleanPcs, Unconfigured, AfterSeccomp, ChildGone, parentVars,
            childVars, chanVars, diskVars, doneVars
<1>1. CASE ParentCreateFifo
  BY <1>1 DEF ParentCreateFifo, Goto, Abort
<1>2. CASE ParentSpawn
  BY <1>2 DEF ParentSpawn, Goto, Abort
<1>3. CASE ParentSaveEarly
  BY <1>3 DEF ParentSaveEarly, Goto, Abort
<1>4. CASE ParentApply
  BY <1>4 DEF ParentApply, Goto, Abort
<1>5. CASE ParentBootstrap
  BY <1>5 DEF ParentBootstrap, Goto, Abort
<1>6. CASE ParentGetChildPid
  BY <1>6 DEF ParentGetChildPid, Goto, Abort
<1>7. CASE ParentGetPipeFds
  BY <1>7 DEF ParentGetPipeFds, Goto, Abort
<1>8. CASE ParentWaitForChildExit
  BY <1>8 DEF ParentWaitForChildExit, Goto, Abort
<1>9. CASE ParentSetup
  BY <1>9 DEF ParentSetup, Goto, Abort
<1>10. CASE ParentSendConfig
  BY <1>10 DEF ParentSendConfig, Goto, Abort
<1>11. QED
  BY <1>1, <1>2, <1>3, <1>4, <1>5, <1>6, <1>7, <1>8, <1>9, <1>10

(* A parent that writes the answer it owes, and stays in the loop, leaves  *)
(* one packet in flight, the one the child waits for.                      *)
LEMMA AnswerSInv ==
  ASSUME IInv, SInv, NEW m \in ToChildTypes, NEW l \in {"sync", "forward"},
         ppc \in Owing, ParentWrite(m, l),
         \A w \in Waits : ppc \in Handling(w) => Expected[w] = m,
         l = "forward" => ppc = "seccompDone",
         UNCHANGED <<conf, pSock, cpc, s0, initSock, toParent>>
  PROVE  SInv'
<1> USE DEF IInv, TypeOK, SInv, OneInFlight, PacketFits, PartnerFits, Waits,
            SeccompWaits, Owing, LoopPcs, BeforeLoop, AfterLoop, EarlyPcs,
            CleanPcs, Unconfigured, AfterSeccomp, ChildGone, Handling
<1>1. CASE cpc \notin SyncClosed /\ toChild' = Append(toChild, m) /\ Goto(l)
  <2>1. toChild' = <<m>> /\ <<m>> # <<>> /\ toParent = <<>>
    BY <1>1, OnePacket
  <2>2. cpc \in Waits /\ ppc \in Handling(cpc) /\ Expected[cpc] = m
    BY <1>1 DEF SyncClosed
  <2>3. OneInFlight'
    BY <1>1, <2>1 DEF Goto
  <2>4. PacketFits'
    BY <1>1, <2>1, <2>2 DEF Goto
  <2>5. PartnerFits'
    BY <1>1, <2>1, <2>2 DEF Goto
  <2>6. QED
    BY <2>3, <2>4, <2>5
<1>2. CASE UNCHANGED toChild /\ Abort("shutdown")
  BY <1>2 DEF Abort
<1>3. QED
  BY <1>1, <1>2 DEF ParentWrite

(* So do the steps of the parent in the sync loop: each of the four        *)
(* requests is answered once, in the place where the child waits for it.   *)
LEMMA LoopSInv ==
  ASSUME IInv, SInv,
         \/ ParentReadSync \/ ParentMount \/ ParentHooksSet \/ ParentHooksRun
         \/ ParentHooksDone \/ ParentRlimits \/ ParentSaveInit \/ ParentRun
         \/ ParentGetSeccompFd \/ ParentSeccompDone \/ ParentForwardSeccompFd
  PROVE  SInv'
<1>1. CASE ParentReadSync
  <2> USE DEF IInv, TypeOK, SInv, OneInFlight, PacketFits, PartnerFits, Waits,
              SeccompWaits, Owing, LoopPcs, BeforeLoop, AfterLoop, EarlyPcs,
              CleanPcs, Unconfigured, AfterSeccomp, ChildGone, childVars,
              diskVars, doneVars
  <2>1. CASE toParent # <<>>
    <3>1. PICK m \in ToParentTypes : toParent = <<m>> /\ toChild = <<>>
      BY <2>1
    <3>2. Head(toParent) = m /\ toParent' = <<>> /\ toChild' = <<>>
      BY <1>1, <2>1, <3>1, OnePacket DEF ParentReadSync
    <3>3. cpc \in Waits => m = Request(cpc)
      BY <3>1, OnePacket
    <3>4. cpc \in Waits \cup ChildGone
      BY <1>1, <2>1 DEF ParentReadSync
    <3>5. /\ ppc' = IF Handler(m) = "error" THEN "shutdown" ELSE Handler(m)
          /\ UNCHANGED <<conf, cpc, pSock, s0, initSock>>
      BY <1>1, <2>1, <3>2 DEF ParentReadSync, Goto, Abort
    <3>6. cpc \in Waits => ppc' \in Handling(cpc) \cup {"shutdown"}
      BY <3>3, <3>5 DEF Request, Handling, Handler
    <3>7. ppc' \in {"mount", "hooksSet", "rlimits", "getfd", "shutdown"}
      BY <3>5 DEF Handler
    <3>8. OneInFlight' /\ PacketFits'
      BY <3>2, <3>4, <3>5
    <3>9. PartnerFits'
      BY <1>1, <3>2, <3>4, <3>5, <3>6, <3>7 DEF ParentReadSync
    <3>10. QED
      BY <3>8, <3>9
  <2>2. CASE toParent = <<>>
    BY <1>1, <2>2 DEF ParentReadSync, Goto, SyncClosed
  <2>3. QED
    BY <2>1, <2>2
<1>2. CASE ParentMount
  BY <1>2, AnswerSInv, ExpectedTable DEF ParentMount, ToChildTypes, Owing,
     Waits, Handling, parentVars, childVars
<1>3. CASE ParentHooksDone
  BY <1>3, AnswerSInv, ExpectedTable DEF ParentHooksDone, ToChildTypes, Owing,
     Waits, Handling, parentVars, childVars
<1>4. CASE ParentRun
  BY <1>4, AnswerSInv, ExpectedTable DEF ParentRun, ToChildTypes, Owing,
     Waits, Handling, parentVars, childVars
<1>5. CASE ParentSeccompDone
  BY <1>5, AnswerSInv, ExpectedTable DEF ParentSeccompDone, ToChildTypes,
     Owing, Waits, SeccompWaits, Handling, parentVars, childVars
<1> USE DEF IInv, TypeOK, SInv, OneInFlight, PacketFits, PartnerFits, Waits,
            SeccompWaits, Owing, LoopPcs, BeforeLoop, AfterLoop, EarlyPcs,
            CleanPcs, Unconfigured, AfterSeccomp, ChildGone, Handling,
            parentVars, childVars, chanVars, diskVars, doneVars
<1>6. CASE ParentHooksSet \/ ParentHooksRun
  BY <1>6 DEF ParentHooksSet, ParentHooksRun, Goto, Abort
<1>7. CASE ParentRlimits \/ ParentSaveInit
  BY <1>7 DEF ParentRlimits, ParentSaveInit, Goto, Abort
<1>8. CASE ParentGetSeccompFd
  BY <1>8 DEF ParentGetSeccompFd, Goto, Abort
<1>9. CASE ParentForwardSeccompFd
  BY <1>9 DEF ParentForwardSeccompFd, Goto, Abort
<1>10. QED
  BY <1>1, <1>2, <1>3, <1>4, <1>5, <1>6, <1>7, <1>8, <1>9

(* So do the parent's steps after the loop, and its death.                 *)
LEMMA AfterLoopSInv ==
  ASSUME IInv, SInv,
         \/ ParentShutdown \/ ParentTerminate \/ ParentRemoveCgroup
         \/ ParentCloseParent \/ ParentPoststart \/ ParentWaitLogs
         \/ ParentDeleteFifo \/ ParentDestroy \/ ParentDestroyCgroup
         \/ ParentRemoveStateDir \/ ParentCrash
  PROVE  SInv'
<1> USE DEF IInv, TypeOK, SInv, OneInFlight, PacketFits, PartnerFits, Waits,
            SeccompWaits, Owing, LoopPcs, BeforeLoop, AfterLoop, EarlyPcs,
            CleanPcs, Unconfigured, AfterSeccomp, ChildGone, parentVars,
            childVars, chanVars, diskVars, doneVars
<1>1. CASE ParentShutdown
  BY <1>1 DEF ParentShutdown, Goto, Abort
<1>2. CASE ParentTerminate
  BY <1>2 DEF ParentTerminate, KillProc, Goto
<1>3. CASE ParentRemoveCgroup \/ ParentDestroyCgroup
  BY <1>3 DEF ParentRemoveCgroup, ParentDestroyCgroup, Goto
<1>4. CASE ParentCloseParent
  BY <1>4 DEF ParentCloseParent, Goto
<1>5. CASE ParentPoststart
  BY <1>5 DEF ParentPoststart, KillProc
<1>6. CASE ParentWaitLogs \/ ParentDeleteFifo \/ ParentRemoveStateDir
  BY <1>6 DEF ParentWaitLogs, ParentDeleteFifo, ParentRemoveStateDir, Goto
<1>7. CASE ParentDestroy
  BY <1>7 DEF ParentDestroy, KillProc, Goto
<1>8. CASE ParentCrash
  BY <1>8 DEF ParentCrash, Goto
<1>9. QED
  BY <1>1, <1>2, <1>3, <1>4, <1>5, <1>6, <1>7, <1>8

(* A request of the child: it finds no packet in flight, and the parent    *)
(* reading, or gone.                                                       *)
LEMMA RequestSInv ==
  ASSUME IInv, SInv, NEW l \in Waits,
         cpc \in {"mountReq", "hooksReq", "readyReq", "seccompEarly", "seccompLate"},
         ChildWrite(Request(l), l),
         cpc = "seccompLate" => l = "seccompLateWait",
         l = "seccompEarlyWait" => conf.seccomp = "early",
         l = "seccompLateWait" => conf.seccomp = "late",
         UNCHANGED <<conf, ppc, pSock, s0, initSock, toChild>>
  PROVE  SInv'
<1> USE DEF IInv, TypeOK, SInv, OneInFlight, PacketFits, PartnerFits, Waits,
            SeccompWaits, Owing, LoopPcs, BeforeLoop, AfterLoop, EarlyPcs,
            CleanPcs, Unconfigured, AfterSeccomp, ChildGone
<1>1. toParent = <<>> /\ toChild = <<>> /\ ppc \notin Owing /\ initSock = "config"
  OBVIOUS
<1>2. CASE pSock = "closed"
  BY <1>1, <1>2 DEF ChildWrite
<1>3. CASE pSock # "closed"
  <2>1. cpc' = l /\ toParent' = <<Request(l)>> /\ Request(l) \in ToParentTypes
    BY <1>1, <1>3, OnePacket DEF ChildWrite, Request, ToParentTypes
  <2>2. ~(ppc = "forward" \/ ppc \in AfterLoop)
    BY <1>1
  <2>3. OneInFlight' /\ PacketFits'
    BY <1>1, <2>1
  <2>4. PartnerFits'
    BY <1>1, <2>1, <2>2
  <2>5. QED
    BY <2>3, <2>4
<1>4. QED
  BY <1>2, <1>3

(* An answer read by the child: it is the one it waits for.                *)
LEMMA ReadSInv ==
  ASSUME IInv, SInv, cpc \in Waits, NEW l, ChildRead(Expected[cpc], l),
         l \in {"mountReq", "jail", "seccompEarly", "finalize", "closeSync"},
         l = "finalize" => cpc = "seccompEarlyWait",
         l = "closeSync" => cpc = "seccompLateWait",
         l \notin {"finalize", "closeSync"} => cpc \notin SeccompWaits,
         UNCHANGED <<conf, ppc, pSock, s0, initSock, toParent>>
  PROVE  SInv'
<1> USE DEF IInv, TypeOK, SInv, OneInFlight, PacketFits, PartnerFits, Waits,
            SeccompWaits, Owing, LoopPcs, BeforeLoop, AfterLoop, EarlyPcs,
            CleanPcs, Unconfigured, AfterSeccomp, ChildGone
<1>1. CASE toChild # <<>> /\ toChild' = Tail(toChild)
           /\ cpc' = IF Head(toChild) = Expected[cpc] THEN l ELSE "fail"
  <2>1. toChild = <<Expected[cpc]>> /\ toParent = <<>>
    BY <1>1
  <2>2. toChild' = <<>> /\ cpc' = l /\ toParent' = <<>>
    BY <1>1, <2>1, OnePacket
  <2>3. ppc \notin Owing /\ initSock = "config"
    BY <1>1
  <2>4. OneInFlight' /\ PacketFits'
    BY <2>2, <2>3
  <2>5. PartnerFits'
    BY <1>1, <2>2, <2>3
  <2>6. QED
    BY <2>4, <2>5
<1>2. CASE toChild = <<>> /\ pSock # "open" /\ cpc' = "fail" /\ UNCHANGED toChild
  BY <1>2
<1>3. QED
  BY <1>1, <1>2 DEF ChildRead

(* The other steps of the child leave the packets alone, or report an      *)
(* error as their last packet.                                             *)
LEMMA ChildSInv ==
  ASSUME IInv, SInv, ChildStep \/ ChildError \/ ChildKilled
  PROVE  SInv'
<1>1. CASE ChildMountRequest /\ mnt > 0
  BY <1>1, RequestSInv DEF ChildMountRequest, Request, Waits, parentVars
<1>2. CASE ChildHooksRequest
  BY <1>2, RequestSInv DEF ChildHooksRequest, Request, Waits, parentVars
<1>3. CASE ChildReady
  BY <1>3, RequestSInv DEF ChildReady, Request, Waits, parentVars
<1>4. CASE ChildSeccompEarly /\ conf.seccomp = "early"
  BY <1>4, RequestSInv DEF ChildSeccompEarly, Request, Waits, parentVars
<1>5. CASE ChildSeccompLate /\ conf.seccomp = "late"
  BY <1>5, RequestSInv DEF ChildSeccompLate, Request, Waits, parentVars
<1>6. CASE ChildMountFd
  BY <1>6, ReadSInv, ExpectedTable DEF ChildMountFd, Waits, SeccompWaits, parentVars
<1>7. CASE ChildHooksWait
  BY <1>7, ReadSInv, ExpectedTable DEF ChildHooksWait, Waits, SeccompWaits, parentVars
<1>8. CASE ChildRunWait
  BY <1>8, ReadSInv, ExpectedTable DEF ChildRunWait, Waits, SeccompWaits, parentVars
<1>9. CASE ChildSeccompEarlyWait
  BY <1>9, ReadSInv, ExpectedTable DEF ChildSeccompEarlyWait, Waits, SeccompWaits,
     parentVars
<1>10. CASE ChildSeccompLateWait
  BY <1>10, ReadSInv, ExpectedTable DEF ChildSeccompLateWait, Waits, SeccompWaits,
     parentVars
<1> USE DEF IInv, TypeOK, SInv, OneInFlight, PacketFits, PartnerFits, Waits,
            SeccompWaits, Owing, LoopPcs, BeforeLoop, AfterLoop, EarlyPcs,
            CleanPcs, Unconfigured, AfterSeccomp, ChildGone, parentVars,
            chanVars, diskVars, doneVars
<1>11. CASE ChildMountRequest /\ ~(mnt > 0)
  BY <1>11 DEF ChildMountRequest
<1>12. CASE ChildSeccompEarly /\ conf.seccomp # "early"
  BY <1>12 DEF ChildSeccompEarly
<1>13. CASE ChildSeccompLate /\ conf.seccomp # "late"
  BY <1>13 DEF ChildSeccompLate
<1>14. CASE ChildNsexecEOF \/ ChildReadConfig
  BY <1>14 DEF ChildNsexecEOF, ChildReadConfig
<1>15. CASE ChildJail \/ ChildFinalize
  BY <1>15 DEF ChildJail, ChildFinalize
<1>16. CASE ChildCloseSync \/ ChildCloseLog
  BY <1>16 DEF ChildCloseSync, ChildCloseLog
<1>17. CASE ChildFail
  <2>1. toChild = <<>> /\ ppc \notin Owing
    BY <1>17 DEF ChildFail
  <2>2. CASE pSock = "closed"
    BY <1>17, <2>1, <2>2 DEF ChildFail
  <2>3. CASE pSock # "closed"
    <3>1. toParent' = <<"procError">> /\ cpc' = "dead"
      BY <1>17, <2>3, OnePacket DEF ChildFail
    <3>2. QED
      BY <1>17, <2>1, <3>1 DEF ChildFail, ToParentTypes
  <2>4. QED
    BY <2>2, <2>3
<1>18. CASE ChildError
  BY <1>18 DEF ChildError, Fallible
<1>19. CASE ChildKilled
  BY <1>19 DEF ChildKilled
<1>20. QED
  BY <1>1, <1>2, <1>3, <1>4, <1>5, <1>6, <1>7, <1>8, <1>9, <1>10, <1>11,
     <1>12, <1>13, <1>14, <1>15, <1>16, <1>17, <1>18, <1>19 DEF ChildStep

(* Every step preserves SInv.                                              *)
LEMMA NextSInv == IInv /\ SInv /\ [Next]_vars => SInv'
<1> SUFFICES ASSUME IInv, SInv, [Next]_vars PROVE SInv'
  OBVIOUS
<1> USE DEF SInv, OneInFlight, PacketFits, PartnerFits
<1>1. CASE ParentStep \/ ParentCrash
  BY <1>1, BeforeLoopSInv, LoopSInv, AfterLoopSInv DEF ParentStep
<1>2. CASE ChildStep \/ ChildError \/ ChildKilled
  BY <1>2, ChildSInv
<1>3. CASE Stage0Step \/ Stage0Bail
  <2> USE DEF IInv, parentVars, chanVars, ChildGone, Unconfigured, Waits,
              Stage0Running
  <2>1. CASE Stage0Clone
    BY <2>1 DEF Stage0Clone, InitPcs, Owing
  <2>2. CASE Stage0SendPids
    BY <2>2 DEF Stage0SendPids
  <2>3. CASE Stage0Finish
    BY <2>3 DEF Stage0Finish
  <2>4. CASE Stage0Bail
    BY <2>4 DEF Stage0Bail
  <2>5. QED
    BY <1>3, <2>1, <2>2, <2>3, <2>4 DEF Stage0Step
<1>4. CASE Terminated \/ UNCHANGED vars
  BY <1>4 DEF Terminated, vars, parentVars, childVars, chanVars
<1>5. QED
  BY <1>1, <1>2, <1>3, <1>4 DEF Next

(* The two invariants hold together in every reachable state.              *)
LEMMA SyncInvariance == Spec => [](IInv /\ SInv)
<1>1. Init => SInv
  BY DEF Init, SInv, OneInFlight, PacketFits, PartnerFits, Waits, Owing, LoopPcs,
     BeforeLoop, AfterLoop, EarlyPcs, CleanPcs, ChildGone, Unconfigured
<1>2. QED
  BY <1>1, NextSInv, InitIInv, NextIInv, PTL DEF Spec

(* The sync protocol alternates strictly, for every number of mounts and   *)
(* every place where either side fails or is killed: at most one packet is *)
(* in flight, and a living child finds the packet it waits for, no other.  *)
THEOREM StrictAlternationTheorem == Spec => []StrictAlternation
<1>1. IInv /\ SInv => StrictAlternation
  <2> SUFFICES ASSUME IInv, SInv PROVE StrictAlternation
    OBVIOUS
  <2>1. Len(toParent) + Len(toChild) <= 1
    <3>1. Len(toParent) \in Nat /\ Len(toChild) \in Nat
      BY DEF IInv, TypeOK
    <3>2. Len(toParent) = 0 \/ (Len(toParent) = 1 /\ Len(toChild) = 0)
      BY OnePacket DEF SInv, OneInFlight
    <3>3. Len(toChild) = 0 \/ Len(toChild) = 1
      BY OnePacket DEF SInv, OneInFlight
    <3>4. \A a, b \in Nat : (a = 0 \/ (a = 1 /\ b = 0)) /\ (b = 0 \/ b = 1) => a + b <= 1
      OBVIOUS
    <3>5. QED
      BY <3>1, <3>2, <3>3, <3>4
  <2>2. QED
    BY <2>1, ExpectedTable DEF StrictAlternation, SInv, PacketFits
<1>2. QED
  BY <1>1, SyncInvariance, PTL

-----------------------------------------------------------------------------
(* What runc create reports *)

(* How far the deferred functions of the error path have come. *)
ErrorPath ==
  /\ ppc \in CleanPcs => ret = "err"
  /\ ppc \in {"fifo", "destroy"} => fifo = "absent"
  /\ ppc \in {"destroyCgroup", "rmdir"} => ~conf.keep
  /\ ppc = "rmdir" => cgroup # "live"
  /\ ppc \in {"logs", "returned"} => ret # "none"
  /\ ppc = "poststart" => ret = "none"
  /\ ppc = "returned" /\ ret = "err" /\ ~conf.keep =>
       saved = "nodir" /\ fifo = "absent" /\ cgroup # "live"
  /\ ppc = "returned" => s0 \notin Stage0Running /\ cpc \in ChildGone \cup {"execFifo"}
  /\ ret # "none" => ppc \notin BeforeLoop \cup LoopPcs

(* What has been done by the time a success is reported. *)
SuccessPath ==
  /\ ppc \notin CleanPcs \cup {"fifo", "returned", "crashed"} => fifo = "present" \/ ret = "err"
  /\ toParent = <<"procReady">> \/ seenReady = "yes" => hooks = "run"
  /\ seenReady = "yes" /\ ret = "none" /\ ppc \notin {"rlimits", "saveInit", "crashed"} =>
       saved = "init"
  /\ ret = "none" /\ ppc \in {"closeParent", "poststart"} => seenReady = "yes"
  /\ ret = "ok" => /\ ppc \in {"logs", "returned", "crashed"}
                   /\ fifo = "present" /\ proc = "init" /\ saved = "init" /\ hooks = "run"

(* The child is past its seccomp request. *)
PastSeccomp == AfterSeccomp \cup
  IF conf.seccomp = "early" THEN {"finalize", "seccompLate"} ELSE {}

(* A child that was told procSeccompDone has its fd forwarded, unless the  *)
(* parent is about to do it, has failed, or is dead.                       *)
SeccompPath ==
  (conf.seccomp # "none"
   /\ (cpc \in PastSeccomp \/ (cpc \notin ChildGone /\ toChild = <<"procSeccompDone">>)))
  => ppc \in {"forward", "crashed"} \/ listener = "forwarded" \/ ret = "err"

OInv == ErrorPath /\ SuccessPath /\ SeccompPath

(* The steps of the parent preserve ErrorPath and SuccessPath.             *)
LEMMA ParentOutcome ==
  ASSUME IInv, StateInv, SInv, OInv, ParentStep \/ ParentCrash
  PROVE  ErrorPath' /\ SuccessPath'
<1> USE DEF IInv, TypeOK, StateInv, SInv, OneInFlight, OInv, ErrorPath,
            SuccessPath, Owing, LoopPcs, BeforeLoop, EarlyPcs, CleanPcs, ChildGone, Stage0Running,
            parentVars, childVars, chanVars, diskVars, doneVars
<1>1. CASE ParentCreateFifo \/ ParentSpawn
  BY <1>1 DEF ParentCreateFifo, ParentSpawn, Goto, Abort
<1>2. CASE ParentSaveEarly \/ ParentApply
  BY <1>2 DEF ParentSaveEarly, ParentApply, Goto, Abort
<1>3. CASE ParentBootstrap \/ ParentGetChildPid \/ ParentGetPipeFds
  BY <1>3 DEF ParentBootstrap, ParentGetChildPid, ParentGetPipeFds, Goto, Abort
<1>4. CASE ParentWaitForChildExit \/ ParentSetup \/ ParentSendConfig
  BY <1>4 DEF ParentWaitForChildExit, ParentSetup, ParentSendConfig, Goto, Abort
<1>5. CASE ParentReadSync
  <2>1. CASE toParent # <<>>
    <3>1. PICK m \in ToParentTypes : toParent = <<m>>
      BY <2>1
    <3>2. Head(toParent) = m /\ toParent' = <<>> /\ (m = "procReady" => hooks = "run")
      BY <1>5, <2>1, <3>1, OnePacket DEF ParentReadSync
    <3>3. /\ ppc' \in {"mount", "hooksSet", "rlimits", "getfd", "shutdown"}
          /\ ppc' = "shutdown" \/ (m = "procReady" => ppc' = "rlimits")
          /\ ret' = IF ppc' = "shutdown" THEN "err" ELSE ret
      BY <1>5, <2>1, <3>2 DEF ParentReadSync, Handler, Goto, Abort
    <3>4. seenReady' = IF m = "procReady" THEN "yes" ELSE seenReady
      BY <1>5, <2>1, <3>2 DEF ParentReadSync
    <3>5. QED
      BY <1>5, <2>1, <3>2, <3>3, <3>4 DEF ParentReadSync
  <2>2. CASE toParent = <<>>
    BY <1>5, <2>2 DEF ParentReadSync, Goto
  <2>3. QED
    BY <2>1, <2>2
<1>6. CASE ParentMount \/ ParentHooksDone \/ ParentRun \/ ParentSeccompDone
  BY <1>6 DEF ParentMount, ParentHooksDone, ParentRun, ParentSeccompDone,
     ParentWrite, Goto, Abort
<1>7. CASE ParentHooksSet \/ ParentHooksRun
  BY <1>7 DEF ParentHooksSet, ParentHooksRun, Goto, Abort
<1>8. CASE ParentRlimits \/ ParentSaveInit
  BY <1>8 DEF ParentRlimits, ParentSaveInit, Goto, Abort
<1>9. CASE ParentGetSeccompFd \/ ParentForwardSeccompFd
  BY <1>9 DEF ParentGetSeccompFd, ParentForwardSeccompFd, Goto, Abort
<1>10. CASE ParentShutdown \/ ParentCloseParent
  BY <1>10 DEF ParentShutdown, ParentCloseParent, Goto, Abort
<1>11. CASE ParentTerminate \/ ParentRemoveCgroup
  BY <1>11 DEF ParentTerminate, ParentRemoveCgroup, Goto
<1>12. CASE ParentPoststart
  BY <1>12 DEF ParentPoststart, InitPcs
<1>13. CASE ParentWaitLogs
  BY <1>13 DEF ParentWaitLogs, Goto
<1>14. CASE ParentDeleteFifo
  BY <1>14 DEF ParentDeleteFifo, Goto
<1>15. CASE ParentDestroy
  BY <1>15 DEF ParentDestroy, KillProc, Goto
<1>16. CASE ParentDestroyCgroup
  BY <1>16 DEF ParentDestroyCgroup, DestroyCgroup, AnyAlive, Goto
<1>17. CASE ParentRemoveStateDir
  BY <1>17 DEF ParentRemoveStateDir, Goto
<1>18. CASE ParentCrash
  BY <1>18 DEF ParentCrash, ParentOver, Goto
<1>19. QED
  BY <1>1, <1>2, <1>3, <1>4, <1>5, <1>6, <1>7, <1>8, <1>9, <1>10, <1>11,
     <1>12, <1>13, <1>14, <1>15, <1>16, <1>17, <1>18 DEF ParentStep

(* The steps of nsexec and of the child preserve them.                     *)
LEMMA ChildOutcome ==
  ASSUME IInv, SInv, OInv,
         Stage0Step \/ Stage0Bail \/ ChildStep \/ ChildError \/ ChildKilled
  PROVE  ErrorPath' /\ SuccessPath'
<1> USE DEF IInv, OInv, ErrorPath, SuccessPath, ChildGone, Stage0Running
<1>1. CASE Stage0Step \/ Stage0Bail
  BY <1>1 DEF Stage0Step, Stage0Clone, Stage0SendPids, Stage0Finish, Stage0Bail,
     parentVars, chanVars, diskVars, doneVars
<1>2. CASE ChildStep \/ ChildError \/ ChildKilled
  <2>1. ASSUME toParent' # toParent, toParent' = <<"procReady">>
        PROVE  cpc = "readyReq"
    <3>1. \/ UNCHANGED toParent
          \/ cpc = "readyReq"
          \/ \E m \in {"procMountPlease", "procHooks", "procSeccomp", "procError"} :
               toParent' = Append(toParent, m)
      BY <1>2 DEF ChildStep, ChildError, ChildKilled, ChildNsexecEOF, ChildReadConfig,
         ChildMountRequest, ChildMountFd, ChildHooksRequest, ChildHooksWait,
         ChildJail, ChildReady, ChildRunWait, ChildSeccompEarly,
         ChildSeccompEarlyWait, ChildFinalize, ChildSeccompLate,
         ChildSeccompLateWait, ChildCloseSync, ChildCloseLog, ChildFail,
         ChildWrite, chanVars
    <3>2. ASSUME NEW m, toParent' = Append(toParent, m) PROVE m = "procReady"
      <4>1. toParent = <<>> /\ toParent' = <<m>>
        BY <2>1, <3>2, AppendProperties, OnePacket DEF TypeOK, SInv, OneInFlight
      <4>2. QED
        BY <2>1, <4>1
    <3>3. QED
      BY <2>1, <3>1, <3>2
  <2>2. cpc = "readyReq" => hooks = "run"
    BY DEF PastHooks
  <2>3. cpc = "execFifo" => cpc' \in {"execFifo", "dead"}
    BY <1>2 DEF ChildStep, ChildError, ChildKilled, ChildNsexecEOF, ChildReadConfig,
       ChildMountRequest, ChildMountFd, ChildHooksRequest, ChildHooksWait,
       ChildJail, ChildReady, ChildRunWait, ChildSeccompEarly,
       ChildSeccompEarlyWait, ChildFinalize, ChildSeccompLate,
       ChildSeccompLateWait, ChildCloseSync, ChildCloseLog, ChildFail, Fallible
  <2>4. QED
    BY <1>2, <2>1, <2>2, <2>3, ChildFrame
<1>3. QED
  BY <1>1, <1>2

(* The steps of the parent preserve SeccompPath: between procSeccompDone   *)
(* and the forwarding of the fd the parent does nothing else.              *)
LEMMA ParentSeccomp ==
  ASSUME IInv, SInv, OInv, ParentStep \/ ParentCrash
  PROVE  SeccompPath'
<1> USE DEF IInv, SInv, OneInFlight, PacketFits, PartnerFits, OInv, SeccompPath,
            PastSeccomp, AfterSeccomp, Unconfigured, Waits, SeccompWaits, Owing,
            LoopPcs, BeforeLoop, EarlyPcs,
            ChildGone, parentVars, childVars, chanVars, diskVars, doneVars
<1>1. CASE \/ ParentCreateFifo \/ ParentSpawn \/ ParentSaveEarly \/ ParentApply
           \/ ParentBootstrap \/ ParentGetChildPid \/ ParentGetPipeFds
           \/ ParentWaitForChildExit \/ ParentSetup \/ ParentSendConfig
  <2>1. ppc \in BeforeLoop /\ UNCHANGED <<conf, cpc, toChild, listener>>
    BY <1>1 DEF ParentCreateFifo, ParentSpawn, ParentSaveEarly, ParentApply,
       ParentBootstrap, ParentGetChildPid, ParentGetPipeFds,
       ParentWaitForChildExit, ParentSetup, ParentSendConfig
  <2>2. QED
    BY <2>1
<1>2. CASE ParentReadSync
  BY <1>2 DEF ParentReadSync, Goto, Abort
<1>3. CASE ParentMount \/ ParentHooksDone \/ ParentRun
  <2>1. ppc \in Owing /\ UNCHANGED <<conf, cpc, listener>>
    BY <1>3 DEF ParentMount, ParentHooksDone, ParentRun
  <2>2. cpc \notin PastSeccomp
    BY <2>1
  <2>3. toChild' # <<"procSeccompDone">> \/ ret' = "err"
    BY <1>3, <2>1, OnePacket DEF ParentMount, ParentHooksDone, ParentRun,
       ParentWrite, Abort
  <2>4. QED
    BY <2>1, <2>2, <2>3
<1>4. CASE ParentSeccompDone
  BY <1>4 DEF ParentSeccompDone, ParentWrite, Goto, Abort
<1>5. CASE ParentHooksSet \/ ParentHooksRun \/ ParentRlimits \/ ParentSaveInit
           \/ ParentGetSeccompFd
  <2>1. ppc \in Owing /\ UNCHANGED <<conf, cpc, toChild>>
    BY <1>5 DEF ParentHooksSet, ParentHooksRun, ParentRlimits, ParentSaveInit,
       ParentGetSeccompFd
  <2>2. QED
    BY <2>1, OnePacket
<1>6. CASE ParentForwardSeccompFd
  BY <1>6 DEF ParentForwardSeccompFd, Goto, Abort
<1>7. CASE \/ ParentShutdown \/ ParentRemoveCgroup \/ ParentCloseParent
           \/ ParentWaitLogs \/ ParentDeleteFifo \/ ParentDestroyCgroup
           \/ ParentRemoveStateDir
  BY <1>7 DEF ParentShutdown, ParentRemoveCgroup, ParentCloseParent,
     ParentWaitLogs, ParentDeleteFifo, ParentDestroyCgroup,
     ParentRemoveStateDir, Goto, Abort
<1>8. CASE ParentTerminate \/ ParentDestroy
  BY <1>8 DEF ParentTerminate, ParentDestroy, KillProc, Goto
<1>9. CASE ParentPoststart
  BY <1>9 DEF ParentPoststart, KillProc, ErrorPath
<1>10. CASE ParentCrash
  BY <1>10 DEF ParentCrash, Goto
<1>11. QED
  BY <1>1, <1>2, <1>3, <1>4, <1>5, <1>6, <1>7, <1>8, <1>9, <1>10 DEF ParentStep

(* So do the steps of nsexec and of the child: the child passes its        *)
(* seccomp request only by reading procSeccompDone.                        *)
LEMMA ChildSeccomp ==
  ASSUME IInv, SInv, OInv,
         Stage0Step \/ Stage0Bail \/ ChildStep \/ ChildError \/ ChildKilled
  PROVE  SeccompPath'
<1> USE DEF IInv, TypeOK, SInv, PacketFits, OInv, SeccompPath, PastSeccomp,
            AfterSeccomp, Waits, SeccompWaits, ChildGone, parentVars,
            chanVars, doneVars
<1>1. CASE Stage0Step \/ Stage0Bail
  BY <1>1, OnePacket DEF Stage0Step, Stage0Clone, Stage0SendPids, Stage0Finish,
     Stage0Bail,
     Stage0Running
<1>2. CASE ChildMountFd \/ ChildHooksWait \/ ChildRunWait
  <2>1. /\ cpc \in Waits \ SeccompWaits /\ UNCHANGED <<conf, ppc, ret, listener>>
        /\ cpc' \in {"mountReq", "jail", "seccompEarly", "fail"}
        /\ toChild' = <<>>
    BY <1>2, OnePacket DEF ChildMountFd, ChildHooksWait, ChildRunWait, ChildRead
  <2>2. QED
    BY <2>1, OnePacket
<1>3. CASE ChildSeccompEarlyWait \/ ChildSeccompLateWait
  <2>1. CASE toChild = <<>>
    BY <1>3, <2>1, OnePacket DEF ChildSeccompEarlyWait, ChildSeccompLateWait, ChildRead
  <2>2. CASE toChild # <<>>
    <3>1. toChild = <<"procSeccompDone">> /\ cpc \notin ChildGone
      BY <1>3, <2>2, ExpectedTable DEF ChildSeccompEarlyWait, ChildSeccompLateWait
    <3>2. QED
      BY <1>3, <3>1 DEF ChildSeccompEarlyWait, ChildSeccompLateWait
  <2>3. QED
    BY <2>1, <2>2
<1>4. CASE ChildSeccompEarly \/ ChildSeccompLate
  <2>1. conf.seccomp \in {"none", "early", "late"}
    BY ConfigsAssumption DEF ConfigsAssumption
  <2>2. CASE ChildSeccompEarly
    BY <2>1, <2>2 DEF ChildSeccompEarly, ChildWrite
  <2>3. CASE ChildSeccompLate
    BY <2>1, <2>3 DEF ChildSeccompLate, ChildWrite
  <2>4. QED
    BY <1>4, <2>2, <2>3
<1>5. CASE ChildFinalize \/ ChildCloseSync \/ ChildCloseLog
  BY <1>5 DEF ChildFinalize, ChildCloseSync, ChildCloseLog
<1>6. CASE \/ ChildNsexecEOF \/ ChildReadConfig \/ ChildMountRequest
           \/ ChildHooksRequest \/ ChildJail \/ ChildReady \/ ChildFail
           \/ ChildError \/ ChildKilled
  BY <1>6 DEF ChildNsexecEOF, ChildReadConfig, ChildMountRequest,
     ChildHooksRequest, ChildJail, ChildReady, ChildFail, ChildError,
     ChildKilled, ChildWrite, Fallible
<1>7. QED
  BY <1>1, <1>2, <1>3, <1>4, <1>5, <1>6 DEF ChildStep

(* The four invariants hold together in every reachable state.             *)
LEMMA OutcomeInvariance == Spec => [](IInv /\ StateInv /\ SInv /\ OInv)
<1>1. Init => OInv
  BY OnePacket DEF Init, OInv, ErrorPath, SuccessPath, SeccompPath, PastSeccomp,
     AfterSeccomp, CleanPcs, ChildGone
<1>2. IInv /\ StateInv /\ SInv /\ OInv /\ [Next]_vars => OInv'
  <2> SUFFICES ASSUME IInv, StateInv, SInv, OInv, [Next]_vars PROVE OInv'
    OBVIOUS
  <2>1. CASE ParentStep \/ ParentCrash
    BY <2>1, ParentOutcome, ParentSeccomp DEF OInv
  <2>2. CASE Stage0Step \/ Stage0Bail \/ ChildStep \/ ChildError \/ ChildKilled
    BY <2>2, ChildOutcome, ChildSeccomp DEF OInv
  <2>3. CASE Terminated \/ UNCHANGED vars
    BY <2>3 DEF Terminated, vars, parentVars, childVars, chanVars, diskVars,
       doneVars, OInv, ErrorPath, SuccessPath, SeccompPath, PastSeccomp
  <2>4. QED
    BY <2>1, <2>2, <2>3 DEF Next
<1>3. QED
  BY <1>1, <1>2, StateInvariance, SyncInvariance, PTL DEF Spec

(* What runc create reports is true, for every configuration and wherever  *)
(* a step fails or a process is killed: an error leaves nothing behind, a  *)
(* success leaves a complete container, whose seccomp fd the listener has. *)
THEOREM OutcomeIsTrueTheorem == Spec => []OutcomeIsTrue
<1>1. IInv /\ StateInv /\ OInv => OutcomeIsTrue
  <2> SUFFICES ASSUME IInv, StateInv, OInv PROVE OutcomeIsTrue
    OBVIOUS
  <2>1. ErrorLeavesNothing
    BY DEF OInv, ErrorPath, StateInv, ErrorLeavesNothing
  <2>2. SuccessIsComplete
    BY DEF IInv, OInv, ErrorPath, SuccessPath, SuccessIsComplete, ChildGone
  <2>3. SeccompFdForwarded
    BY DEF OInv, SeccompPath, PastSeccomp, AfterSeccomp, SeccompFdForwarded
  <2>4. QED
    BY <2>1, <2>2, <2>3 DEF OutcomeIsTrue
<1>2. QED
  BY <1>1, OutcomeInvariance, PTL
=============================================================================
