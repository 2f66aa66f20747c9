------------------------- MODULE SecurityScanProofs -------------------------
(***************************************************************************)
(* Proofs about SecurityScan, for any number of scans of a bundle: types   *)
(* and evidence whatever fails and however scans overlap; the backup when  *)
(* they do not overlap; that nothing is left behind when, besides, the     *)
(* tracer's pid file gets written; and that the next run fits what         *)
(* finalizeSecurityScan wrote when the scans are undisturbed.              *)
(***************************************************************************)
EXTENDS SecurityScan, TLAPS

-----------------------------------------------------------------------------
(* Type correctness *)

(* The initial state is well formed.                                       *)
LEMMA TypeInit == Init => TypeOK
<1> SUFFICES ASSUME Init PROVE TypeOK
  OBVIOUS
<1>1. Original \in Specs
  BY SecurityScanAssumption DEF Specs
<1>2. (CHOOSE i \in Ids : TRUE) \in Ids
  BY SecurityScanAssumption
<1>3. Idle \in ScanRecords
  BY <1>1, <1>2 DEF Idle, ScanRecords
<1>4. NoProfile \in Profiles
  BY DEF NoProfile, Profiles
<1> QED
  BY <1>1, <1>3, <1>4 DEF Init, TypeOK

(* What apparmor_parser leaves in the kernel's table is well formed.       *)
LEMMA BestEffortType ==
  ASSUME TypeOK, NEW add \in BOOLEAN, BestEffort(add)
  PROVE  loaded' \in [Names -> Profiles]
<1>1. NoProfile \in Profiles
  BY DEF NoProfile, Profiles
<1>2. parser(add) \in [Names -> Profiles]
  BY <1>1 DEF parser, TypeOK
<1> QED
  BY <1>2 DEF BestEffort, TypeOK

(* The spec that finalize computes is one.                                 *)
LEMMA NarrowedType ==
  ASSUME TypeOK
  PROVE  applyGeneratedSeccomp(narrowCapabilitiesFromTrace(config)) \in Specs
<1>1. parseCapsFromFile \subseteq Caps
  BY DEF parseCapsFromFile, TypeOK
<1>2. narrowCapabilitiesFromTrace(config) \in Specs
  BY <1>1 DEF narrowCapabilitiesFromTrace, TypeOK, Specs
<1> QED
  BY <1>2 DEF applyGeneratedSeccomp, TypeOK, Specs

(* The rules that are collected are rules.                                 *)
LEMMA CollectedType ==
  ASSUME TypeOK, NEW src \in AuditSources
  PROVE  appendAuditRulesToProfile(buildAppArmorRulesFromDenials(parseApparmorDenials(src))) \in Profiles
<1>1. readKernelAudit(src) \subseteq audit
  BY SecurityScanAssumption DEF readKernelAudit
<1>2. buildAppArmorRulesFromDenials(parseApparmorDenials(src)) \in SUBSET (Scans \X Denials)
  BY <1>1 DEF buildAppArmorRulesFromDenials, parseApparmorDenials, TypeOK
<1> QED
  BY <1>2 DEF appendAuditRulesToProfile, TypeOK, Profiles

(* A command that only goes on keeps its record in shape.                  *)
LEMMA GotoType ==
  ASSUME TypeOK, NEW n \in Scans,
         NEW l \in {"idle", "create", "load", "start", "poststart", "forward", "destroy", "done"} \cup Finalizing,
         Goto(n, l)
  PROVE  scan' \in [Scans -> ScanRecords]
BY DEF Goto, TypeOK, ScanRecords

(* Every step keeps every variable in its type.                            *)
LEMMA TypeNext == TypeOK /\ [Next]_vars => TypeOK'
<1> SUFFICES ASSUME TypeOK, [Next]_vars PROVE TypeOK'
  OBVIOUS
<1> USE DEF At, Goto, Container, Alive, Finalizing
<1>1. ASSUME NEW n \in Scans, NEW i \in Ids, NEW m \in Modes, applySecurityScan(n, i, m)
      PROVE  TypeOK'
  <2>1. ProfileName[i] \in Names /\ m \in {"foreground", "detach", "keep"}
    BY SecurityScanAssumption
  <2>2. profile' \in Profiles
    BY <1>1, <2>1 DEF applySecurityScan, buildAppArmorProfileSource, TypeOK, Profiles
  <2>3. loaded' \in [Names -> Profiles]
    BY <1>1, BestEffortType DEF applySecurityScan, cleanupStaleAppArmorProfile, TypeOK
  <2>4. scan' \in [Scans -> ScanRecords]
    <3> DEFINE name == IF AAEnabled THEN ProfileName[i] ELSE config.apparmor
    <3>1. name \in Names \cup {None} /\ scan[n] \in ScanRecords
      BY <2>1 DEF TypeOK, Specs
    <3>2. [scan[n].spec EXCEPT !.apparmor = name] \in Specs
      BY <3>1 DEF ScanRecords, Specs
    <3>3. [scan[n] EXCEPT !.pc = "create", !.id = i, !.mode = m, !.spec.apparmor = name] \in ScanRecords
      BY <2>1, <3>1, <3>2 DEF ScanRecords
    <3>4. [scan[n] EXCEPT !.pc = "done", !.err = TRUE] \in ScanRecords
      BY <3>1 DEF ScanRecords
    <3> QED
      BY <1>1, <3>3, <3>4 DEF applySecurityScan, TypeOK
  <2> QED
    BY <1>1, <2>2, <2>3, <2>4 DEF applySecurityScan, TypeOK
<1>2. ASSUME NEW n \in Scans, createContainer(n) PROVE TypeOK'
  BY <1>2 DEF createContainer, TypeOK, ScanRecords, files, kernel
<1>3. ASSUME NEW n \in Scans, Fail(n)
      PROVE  /\ scan' \in [Scans -> ScanRecords]
             /\ ctr' \in [Scans -> {"none", "created", "running", "exited", "stopping", "stopped", "destroyed"}]
  <2>1. scan[n] \in ScanRecords
    BY DEF TypeOK
  <2>2. ASSUME NEW l \in {"destroy", "done"}
        PROVE  [scan[n] EXCEPT !.err = TRUE, !.pc = l] \in ScanRecords
    BY <2>1 DEF ScanRecords
  <2> QED
    BY <1>3, <2>2 DEF Fail, TypeOK
<1>4. ASSUME NEW n \in Scans, runScanAALoad(n) PROVE TypeOK'
  <2>1. loaded' \in [Names -> Profiles]
    BY <1>4, BestEffortType DEF runScanAALoad, TypeOK
  <2> QED
    BY <1>4, <2>1, GotoType DEF runScanAALoad, TypeOK
<1>5. ASSUME NEW n \in Scans, ApplyProfile(n) PROVE TypeOK'
  BY <1>3, <1>5 DEF ApplyProfile, TypeOK, ScanRecords, files, kernel
<1>6. ASSUME NEW n \in Scans, runScanCapTraceStart(n) PROVE TypeOK'
  <2>1. scan[n].id \in Ids
    BY DEF TypeOK, ScanRecords
  <2>2. pins' \subseteq Ids
    BY <1>6, <2>1 DEF runScanCapTraceStart, Create, Teardown, TypeOK
  <2>3. /\ scan' \in [Scans -> ScanRecords]
        /\ ctr' \in [Scans -> {"none", "created", "running", "exited", "stopping", "stopped", "destroyed"}]
    BY <1>3, <1>6 DEF runScanCapTraceStart, TypeOK, ScanRecords
  <2> QED
    BY <1>6, <2>2, <2>3 DEF runScanCapTraceStart, TypeOK
<1>7. ASSUME NEW n \in Scans, forward(n) PROVE TypeOK'
  BY <1>3, <1>7 DEF forward, TypeOK, ScanRecords, files, kernel
<1>8. ASSUME NEW n \in Scans, backupStat(n) PROVE TypeOK'
  BY <1>8 DEF backupStat, TypeOK, ScanRecords, files, kernel
<1>9. ASSUME NEW n \in Scans, backupCopy(n) PROVE TypeOK'
  BY <1>9 DEF backupCopy, TypeOK, ScanRecords, kernel
<1>10. ASSUME NEW n \in Scans, readAndNarrow(n) PROVE TypeOK'
  <2> DEFINE spec == applyGeneratedSeccomp(narrowCapabilitiesFromTrace(config))
             changed == config.bounding # parseCapsFromFile \/ secfile # 0
  <2>1. spec \in Specs /\ changed \in BOOLEAN /\ scan[n] \in ScanRecords
    BY NarrowedType DEF TypeOK
  <2> HIDE DEF spec, changed
  <2>2. [scan[n] EXCEPT !.pc = "apparmor", !.spec = spec, !.changed = changed] \in ScanRecords
    BY <2>1 DEF ScanRecords
  <2>3. scan' \in [Scans -> ScanRecords]
    BY <1>10, <2>2 DEF readAndNarrow, TypeOK, spec, changed
  <2> QED
    BY <1>10, <2>3 DEF readAndNarrow, TypeOK, files, kernel
<1>11. ASSUME NEW n \in Scans, applyGeneratedAppArmor(n) PROVE TypeOK'
  <2>1. profile' \in Profiles
    BY <1>11 DEF applyGeneratedAppArmor, flipApparmorComplainToEnforce, TypeOK, Profiles
  <2>2. profile.name \in Names \cup {None}
    BY DEF TypeOK, Profiles
  <2>3. scan' \in [Scans -> ScanRecords]
    <3> DEFINE changed == scan[n].changed \/ scan[n].spec.apparmor # profile.name
    <3>1. changed \in BOOLEAN /\ scan[n] \in ScanRecords
      BY DEF TypeOK, ScanRecords
    <3> HIDE DEF changed
    <3>2. [scan[n].spec EXCEPT !.apparmor = profile.name] \in Specs
      BY <2>2, <3>1 DEF ScanRecords, Specs
    <3>3. [scan[n] EXCEPT !.pc = "write", !.spec.apparmor = profile.name, !.changed = changed] \in ScanRecords
      BY <3>1, <3>2 DEF ScanRecords
    <3>4. scan' = [scan EXCEPT ![n] = [scan[n] EXCEPT !.pc = "write",
                    !.spec.apparmor = profile.name, !.changed = changed]]
      BY <1>11, <3>1 DEF applyGeneratedAppArmor, nameProfile, changed, TypeOK, ScanRecords, Specs
    <3> QED
      BY <3>3, <3>4 DEF TypeOK
  <2> QED
    BY <1>11, <2>1, <2>3 DEF applyGeneratedAppArmor, TypeOK, kernel
<1>12. ASSUME NEW n \in Scans, writeConfig(n) PROVE TypeOK'
  BY <1>12 DEF writeConfig, TypeOK, ScanRecords, kernel
<1>13. ASSUME NEW n \in Scans, DestroyFails(n) PROVE TypeOK'
  BY <1>13 DEF DestroyFails, AfterDestroy, TypeOK, ScanRecords, files, kernel
<1>14. ASSUME NEW n \in Scans, Stopped(n)
       PROVE  /\ pidfile' \in {0} \cup Scans /\ pins' \subseteq Ids
              /\ ctr' \in [Scans -> {"none", "created", "running", "exited", "stopping", "stopped", "destroyed"}]
  BY <1>14 DEF Stopped, Teardown, TypeOK
<1>15. ASSUME NEW n \in Scans, runScanCapTraceStop(n) PROVE TypeOK'
  <2>1. scan' \in [Scans -> ScanRecords]
    BY <1>15 DEF runScanCapTraceStop, TypeOK, ScanRecords
  <2>2. tracer' \in [Scans -> Alive \cup {"none", "gone"}]
    BY <1>15 DEF runScanCapTraceStop, TypeOK
  <2> QED
    BY <1>14, <1>15, <2>1, <2>2 DEF runScanCapTraceStop, TypeOK
<1>16. ASSUME NEW n \in Scans, scanCapTraceStopWait(n) PROVE TypeOK'
  BY <1>14, <1>16 DEF scanCapTraceStopWait, TypeOK
<1>17. ASSUME NEW n \in Scans, runScanAAUnload(n) PROVE TypeOK'
  <2>1. profile' \in Profiles
    BY <1>17, CollectedType DEF runScanAAUnload, TypeOK
  <2>2. loaded' \in [Names -> Profiles]
    BY <1>17, BestEffortType DEF runScanAAUnload, TypeOK
  <2>3. scan' \in [Scans -> ScanRecords]
    BY <1>17 DEF runScanAAUnload, AfterDestroy, TypeOK, ScanRecords
  <2> QED
    BY <1>17, <2>1, <2>2, <2>3 DEF runScanAAUnload, TypeOK
<1>18. ASSUME NEW n \in Scans, Tracer(n) PROVE TypeOK'
  BY <1>18 DEF Tracer, TracerAttach, TracerFlush, TracerTerminates, TracerKilled, TypeOK, files, kernel
<1>19. ASSUME NEW n \in Scans, NEW c \in Caps, CapCheck(n, c) PROVE TypeOK'
  BY <1>19 DEF CapCheck, TypeOK, files, kernel
<1>20. ASSUME NEW n \in Scans, NEW d \in Denials, Deny(n, d) PROVE TypeOK'
  <2>1. Name(n) \in Names
    BY SecurityScanAssumption DEF Name, TypeOK, ScanRecords
  <2> QED
    BY <1>20, <2>1 DEF Deny, TypeOK, files
<1>21. ASSUME NEW n \in Scans, ContainerExit(n) PROVE TypeOK'
  BY <1>21 DEF ContainerExit, TypeOK, kernel
<1>22. ASSUME ensureGeneratedProfiles PROVE TypeOK'
  BY <1>22, BestEffortType DEF ensureGeneratedProfiles, TypeOK, files
<1>23. CASE UNCHANGED vars
  BY <1>23 DEF vars, files, kernel, TypeOK
<1> QED
  BY <1>1, <1>2, <1>4, <1>5, <1>6, <1>7, <1>8, <1>9, <1>10, <1>11, <1>12, <1>13, <1>15, <1>16,
     <1>17, <1>18, <1>19, <1>20, <1>21, <1>22, <1>23 DEF Next, Run, Poststop, Workload

(* Whatever fails and however the scans overlap, the files under           *)
(* generated/, the kernel's tables and the commands keep their types.      *)
THEOREM TypeCorrect == Spec => []TypeOK
BY TypeInit, TypeNext, PTL DEF Spec

-----------------------------------------------------------------------------
(* Enforcing profiles *)

(* What apparmor_parser loads comes from the file, so it has evidence if   *)
(* the file has.                                                           *)
LEMMA BestEffortEvidence ==
  ASSUME TypeOK, EnforceHasEvidence, NEW add \in BOOLEAN, BestEffort(add), NEW x \in Names
  PROVE  loaded'[x].mode = "enforce" => loaded'[x].rules # {}
<1>1. NoProfile.mode # "enforce"
  BY DEF NoProfile
<1>2. loaded'[x] \in {loaded[x], profile, NoProfile}
  BY DEF BestEffort, parser, TypeOK
<1> QED
  BY <1>1, <1>2 DEF EnforceHasEvidence

(* No step makes an enforcing profile without evidence.                    *)
LEMMA EvidenceNext == TypeOK /\ EnforceHasEvidence /\ [Next]_vars => EnforceHasEvidence'
<1> SUFFICES ASSUME TypeOK, EnforceHasEvidence, [Next]_vars PROVE EnforceHasEvidence'
  OBVIOUS
<1>1. ASSUME NEW n \in Scans, NEW i \in Ids, NEW m \in Modes, applySecurityScan(n, i, m)
      PROVE  EnforceHasEvidence'
  <2>1. profile'.mode = "enforce" => profile'.rules # {}
    BY <1>1 DEF applySecurityScan, buildAppArmorProfileSource, EnforceHasEvidence
  <2>2. \A x \in Names : loaded'[x].mode = "enforce" => loaded'[x].rules # {}
    BY <1>1, BestEffortEvidence DEF applySecurityScan, cleanupStaleAppArmorProfile, EnforceHasEvidence
  <2> QED
    BY <2>1, <2>2 DEF EnforceHasEvidence
<1>2. ASSUME NEW n \in Scans, runScanAALoad(n) PROVE EnforceHasEvidence'
  BY <1>2, BestEffortEvidence DEF runScanAALoad, EnforceHasEvidence
<1>3. ASSUME NEW n \in Scans, runScanAAUnload(n) PROVE EnforceHasEvidence'
  <2>1. profile'.mode = "enforce" => profile'.rules # {}
    BY <1>3 DEF runScanAAUnload, appendAuditRulesToProfile, EnforceHasEvidence, TypeOK, Profiles
  <2>2. \A x \in Names : loaded'[x].mode = "enforce" => loaded'[x].rules # {}
    BY <1>3, BestEffortEvidence DEF runScanAAUnload, EnforceHasEvidence
  <2> QED
    BY <2>1, <2>2 DEF EnforceHasEvidence
<1>4. ASSUME NEW n \in Scans, applyGeneratedAppArmor(n) PROVE EnforceHasEvidence'
  <2>1. profile'.mode = "enforce" => profile'.rules # {}
    BY <1>4 DEF applyGeneratedAppArmor, flipApparmorComplainToEnforce, EnforceHasEvidence, TypeOK, Profiles
  <2> QED
    BY <1>4, <2>1 DEF applyGeneratedAppArmor, EnforceHasEvidence, kernel
<1>5. ASSUME ensureGeneratedProfiles PROVE EnforceHasEvidence'
  BY <1>5, BestEffortEvidence DEF ensureGeneratedProfiles, EnforceHasEvidence, files
<1>6. ASSUME UNCHANGED <<profile, loaded>> PROVE EnforceHasEvidence'
  BY <1>6 DEF EnforceHasEvidence
<1>7. ASSUME NEW n \in Scans,
             \/ createContainer(n) \/ ApplyProfile(n) \/ runScanCapTraceStart(n) \/ forward(n)
             \/ backupStat(n) \/ backupCopy(n) \/ readAndNarrow(n) \/ writeConfig(n)
             \/ DestroyFails(n) \/ runScanCapTraceStop(n) \/ scanCapTraceStopWait(n)
             \/ Tracer(n) \/ Workload(n)
      PROVE  UNCHANGED <<profile, loaded>>
  BY <1>7 DEF createContainer, ApplyProfile, runScanCapTraceStart, forward, backupStat, backupCopy,
     readAndNarrow, writeConfig, DestroyFails, runScanCapTraceStop, scanCapTraceStopWait, Tracer,
     TracerAttach, TracerFlush, TracerTerminates, TracerKilled, Workload, CapCheck, Deny,
     ContainerExit, files, kernel
<1>8. CASE UNCHANGED vars
  BY <1>6, <1>8 DEF vars, files, kernel
<1> QED
  BY <1>1, <1>2, <1>3, <1>4, <1>5, <1>6, <1>7, <1>8 DEF Next, Run, Poststop

(* finalizeSecurityScan and ensureGeneratedProfiles: however scans overlap *)
(* and whatever fails, nothing is enforced that no audit event backs.      *)
THEOREM EvidenceTheorem == Spec => []EnforceHasEvidence
<1>1. Init => EnforceHasEvidence
  BY DEF Init, EnforceHasEvidence, NoProfile
<1> QED
  BY <1>1, TypeCorrect, EvidenceNext, PTL DEF Spec

-----------------------------------------------------------------------------
(* The backup of config.json *)

(* Scans that do not overlap: one that has begun is preceded by scans that *)
(* have returned.                                                          *)
Sequential == \A k, n \in Scans : k < n /\ scan[n].pc # "idle" => scan[k].pc = "done"

(* Between the Stat and the rename there is no backup; from then on there  *)
(* is one.  BackupIsOriginal is not inductive without this.                *)
BackupInv ==
  /\ Sequential
  /\ BackupIsOriginal
  /\ \A n \in Scans : scan[n].pc = "copy" => backup = {}
  /\ \A n \in Scans : scan[n].pc \in {"read", "apparmor", "write"} => backup # {}

(* A command that neither begins nor touches config.json or the backup.    *)
Quiet(n) ==
  /\ UNCHANGED <<config, backup>>
  /\ \A k \in Scans \ {n} : scan'[k].pc = scan[k].pc
  /\ \/ scan'[n].pc = scan[n].pc
     \/ /\ scan[n].pc \notin {"idle", "done"}
        /\ scan'[n].pc \notin {"idle", "copy"}
        /\ scan'[n].pc \in {"read", "apparmor", "write"} => scan[n].pc \in {"read", "apparmor", "write"}

(* A quiet step keeps the invariant.                                       *)
LEMMA QuietStep == ASSUME BackupInv, NEW n \in Scans, Quiet(n) PROVE BackupInv'
<1>1. Sequential'
  <2> SUFFICES ASSUME NEW j \in Scans, NEW k \in Scans, j < k, scan'[k].pc # "idle"
               PROVE  scan'[j].pc = "done"
    BY DEF Sequential
  <2>1. scan[k].pc # "idle"
    BY DEF Quiet
  <2>2. scan[j].pc = "done"
    BY <2>1 DEF BackupInv, Sequential
  <2> QED
    BY <2>2 DEF Quiet
<1>2. BackupIsOriginal'
  BY DEF BackupInv, BackupIsOriginal, Quiet
<1>3. ASSUME NEW k \in Scans PROVE /\ scan'[k].pc = "copy" => backup' = {}
                                   /\ scan'[k].pc \in {"read", "apparmor", "write"} => backup' # {}
  BY DEF BackupInv, Quiet
<1> QED
  BY <1>1, <1>2, <1>3 DEF BackupInv

(* Every step but four is quiet.                                           *)
LEMMA QuietSteps ==
  ASSUME TypeOK, NEW n \in Scans,
         \/ createContainer(n) \/ runScanAALoad(n) \/ ApplyProfile(n) \/ runScanCapTraceStart(n)
         \/ forward(n) \/ readAndNarrow(n) \/ applyGeneratedAppArmor(n)
         \/ Poststop(n) \/ Tracer(n) \/ Workload(n)
  PROVE  Quiet(n)
<1> USE DEF At, Goto, Finalizing
<1>1. scan \in [Scans -> ScanRecords] /\ scan[n] \in ScanRecords
  BY DEF TypeOK
<1>2. ASSUME Fail(n), scan[n].pc \in {"start", "poststart", "forward"}, UNCHANGED <<config, backup>>
      PROVE  Quiet(n)
  BY <1>1, <1>2 DEF Fail, Quiet, ScanRecords
<1>3. CASE createContainer(n)
  BY <1>1, <1>3 DEF createContainer, Quiet, ScanRecords, files
<1>4. CASE runScanAALoad(n)
  BY <1>1, <1>4 DEF runScanAALoad, Quiet, ScanRecords
<1>5. CASE ApplyProfile(n)
  BY <1>1, <1>2, <1>5 DEF ApplyProfile, Quiet, ScanRecords, files
<1>6. CASE runScanCapTraceStart(n)
  BY <1>1, <1>2, <1>6 DEF runScanCapTraceStart, Quiet, ScanRecords
<1>7. CASE forward(n)
  BY <1>1, <1>2, <1>7 DEF forward, Quiet, ScanRecords, files
<1>8. CASE readAndNarrow(n)
  BY <1>1, <1>8 DEF readAndNarrow, Quiet, ScanRecords, files
<1>9. CASE applyGeneratedAppArmor(n)
  BY <1>1, <1>9 DEF applyGeneratedAppArmor, nameProfile, Quiet, ScanRecords
<1>10. CASE DestroyFails(n)
  BY <1>1, <1>10 DEF DestroyFails, AfterDestroy, Quiet, ScanRecords, files
<1>11. CASE runScanCapTraceStop(n)
  BY <1>1, <1>11 DEF runScanCapTraceStop, Quiet, ScanRecords
<1>12. CASE scanCapTraceStopWait(n)
  BY <1>12 DEF scanCapTraceStopWait, Quiet
<1>13. CASE runScanAAUnload(n)
  BY <1>1, <1>13 DEF runScanAAUnload, AfterDestroy, Quiet, ScanRecords
<1>14. CASE Tracer(n) \/ Workload(n)
  BY <1>14 DEF Tracer, TracerAttach, TracerFlush, TracerTerminates, TracerKilled, Workload, CapCheck,
     Deny, ContainerExit, Quiet, files
<1> QED
  BY <1>3, <1>4, <1>5, <1>6, <1>7, <1>8, <1>9, <1>10, <1>11, <1>12, <1>13, <1>14 DEF Poststop

(* A step in which one scan that is not idle finishes its backup, or       *)
(* decides about it: nobody else is on the way.                            *)
LEMMA Alone ==
  ASSUME TypeOK, BackupInv, NEW n \in Scans, scan[n].pc \notin {"idle", "done"},
         NEW k \in Scans \ {n}
  PROVE  scan[k].pc \in {"idle", "done"}
<1>1. k < n \/ n < k
  BY SecurityScanAssumption DEF Scans
<1> QED
  BY <1>1 DEF BackupInv, Sequential

(* Every step keeps the invariant; only the four that are not quiet need   *)
(* an argument of their own.                                               *)
LEMMA BackupNext ==
  ASSUME ~Overlap, TypeOK, BackupInv, [Next]_vars PROVE BackupInv'
<1> USE DEF At, Goto
<1>1. ASSUME NEW n \in Scans, NEW i \in Ids, NEW m \in Modes, applySecurityScan(n, i, m)
      PROVE  BackupInv'
  <2>1. /\ scan[n].pc = "idle" /\ scan'[n].pc \in {"create", "done"}
        /\ \A k \in Scans \ {n} : scan'[k].pc = scan[k].pc
        /\ UNCHANGED <<config, backup>>
    <3> DEFINE name == IF AAEnabled THEN ProfileName[i] ELSE config.apparmor
    <3>1. scan \in [Scans -> ScanRecords] /\ scan[n] \in ScanRecords
      BY DEF TypeOK
    <3> HIDE DEF name
    <3>2. [scan[n] EXCEPT !.pc = "create", !.id = i, !.mode = m, !.spec.apparmor = name].pc = "create"
      BY <3>1 DEF ScanRecords
    <3>3. [scan[n] EXCEPT !.pc = "done", !.err = TRUE].pc = "done"
      BY <3>1 DEF ScanRecords
    <3>4. \/ scan' = [scan EXCEPT ![n] = [scan[n] EXCEPT !.pc = "done", !.err = TRUE]]
          \/ scan' = [scan EXCEPT ![n] = [scan[n] EXCEPT !.pc = "create", !.id = i, !.mode = m,
                                                        !.spec.apparmor = name]]
      BY <1>1, <3>1 DEF applySecurityScan, name
    <3> QED
      BY <1>1, <3>1, <3>2, <3>3, <3>4 DEF applySecurityScan
  <2>2. \A k \in Scans : k < n => scan[k].pc = "done"
    BY <1>1, SecurityScanAssumption DEF applySecurityScan, Scans
  <2>3. \A k \in Scans : n < k => scan[k].pc = "idle"
    BY <2>1 DEF BackupInv, Sequential
  <2>4. Sequential'
    <3> SUFFICES ASSUME NEW j \in Scans, NEW k \in Scans, j < k, scan'[k].pc # "idle"
                 PROVE  scan'[j].pc = "done"
      BY DEF Sequential
    <3>1. CASE k = n
      BY <2>1, <2>2, <3>1 DEF Scans
    <3>2. CASE k # n
      <4>1. scan[k].pc # "idle" /\ scan[j].pc = "done"
        BY <2>1, <3>2 DEF BackupInv, Sequential
      <4> QED
        BY <2>1, <4>1
    <3> QED
      BY <3>1, <3>2
  <2>5. BackupIsOriginal'
    BY <2>1 DEF BackupInv, BackupIsOriginal
  <2> QED
    BY <2>1, <2>4, <2>5 DEF BackupInv
<1>2. ASSUME NEW n \in Scans, backupStat(n) PROVE BackupInv'
  <2>1. /\ scan[n].pc = "backup" /\ UNCHANGED <<config, backup>>
        /\ scan'[n].pc \in {"copy", "read", "done"}
        /\ scan'[n].pc = "copy" => backup = {}
        /\ scan'[n].pc = "read" => backup # {}
        /\ \A k \in Scans \ {n} : scan'[k].pc = scan[k].pc
    BY <1>2 DEF backupStat, TypeOK, ScanRecords, files
  <2>2. Sequential'
    BY <2>1 DEF BackupInv, Sequential
  <2>3. BackupIsOriginal'
    BY <2>1 DEF BackupInv, BackupIsOriginal
  <2>4. ASSUME NEW k \in Scans PROVE /\ scan'[k].pc = "copy" => backup' = {}
                                     /\ scan'[k].pc \in {"read", "apparmor", "write"} => backup' # {}
    BY <2>1 DEF BackupInv
  <2> QED
    BY <2>2, <2>3, <2>4 DEF BackupInv
<1>3. ASSUME NEW n \in Scans, backupCopy(n) PROVE BackupInv'
  <2>1. /\ scan[n].pc = "copy" /\ UNCHANGED config /\ backup' = {config}
        /\ scan'[n].pc = "read"
        /\ \A k \in Scans \ {n} : scan'[k].pc = scan[k].pc
    BY <1>3 DEF backupCopy, TypeOK, ScanRecords
  <2>2. config = Original
    BY <2>1 DEF BackupInv, BackupIsOriginal
  <2>3. Sequential'
    BY <2>1 DEF BackupInv, Sequential
  <2>4. BackupIsOriginal'
    BY <2>1, <2>2 DEF BackupIsOriginal
  <2>5. ASSUME NEW k \in Scans PROVE scan'[k].pc # "copy"
    BY <2>1, Alone
  <2> QED
    BY <2>1, <2>3, <2>4, <2>5 DEF BackupInv
<1>4. ASSUME NEW n \in Scans, writeConfig(n) PROVE BackupInv'
  <2>1. /\ scan[n].pc = "write" /\ UNCHANGED backup
        /\ scan'[n].pc = "done"
        /\ \A k \in Scans \ {n} : scan'[k].pc = scan[k].pc
    BY <1>4 DEF writeConfig, TypeOK, ScanRecords
  <2>2. Sequential'
    BY <2>1 DEF BackupInv, Sequential
  <2>3. BackupIsOriginal'
    BY <2>1 DEF BackupInv, BackupIsOriginal
  <2>4. ASSUME NEW k \in Scans PROVE /\ scan'[k].pc = "copy" => backup' = {}
                                     /\ scan'[k].pc \in {"read", "apparmor", "write"} => backup' # {}
    BY <2>1 DEF BackupInv
  <2> QED
    BY <2>2, <2>3, <2>4 DEF BackupInv
<1>5. ASSUME UNCHANGED <<config, backup, scan>> PROVE BackupInv'
  BY <1>5 DEF BackupInv, Sequential, BackupIsOriginal
<1>6. CASE ensureGeneratedProfiles
  BY <1>5, <1>6 DEF ensureGeneratedProfiles, files
<1>7. CASE UNCHANGED vars
  BY <1>5, <1>7 DEF vars, files
<1>8. CASE \E n \in Scans : Run(n) \/ Poststop(n) \/ Tracer(n) \/ Workload(n)
  <2> PICK n \in Scans : Run(n) \/ Poststop(n) \/ Tracer(n) \/ Workload(n)
    BY <1>8
  <2>1. CASE Run(n)
    BY <1>1, <1>2, <1>3, <1>4, <2>1, QuietSteps, QuietStep DEF Run
  <2>2. CASE Poststop(n) \/ Tracer(n) \/ Workload(n)
    BY <2>2, QuietSteps, QuietStep
  <2> QED
    BY <2>1, <2>2
<1> QED
  BY <1>6, <1>7, <1>8 DEF Next

(* backupSpecOriginal: when scans of the bundle do not overlap, the        *)
(* pre-scan config.json survives any number of them, whatever fails.       *)
THEOREM BackupTheorem == ASSUME ~Overlap PROVE Spec => []BackupIsOriginal
<1>1. Init => BackupInv
  BY DEF Init, Idle, BackupInv, Sequential, BackupIsOriginal
<1>2. TypeOK /\ BackupInv /\ [Next]_vars => BackupInv'
  BY BackupNext
<1>3. BackupInv => BackupIsOriginal
  BY DEF BackupInv
<1> QED
  BY <1>1, <1>2, <1>3, TypeCorrect, PTL DEF Spec

-----------------------------------------------------------------------------
(* What a scan leaves behind *)

Early == {"load", "start", "poststart"}
Late == {"forward", "destroy", "done"} \cup Finalizing

(* Where a scan is, where its container is and where its tracer is.  The   *)
(* pid file names the tracer for as long as somebody has to stop it.       *)
Place(n) ==
  \/ ctr[n] = "none" /\ scan[n].pc \in {"idle", "create", "done"} /\ tracer[n] = "none"
  \/ ctr[n] = "created" /\ scan[n].pc \in Early /\ tracer[n] = "none"
  \/ /\ ctr[n] = "running" /\ scan[n].pc \in Late
     /\ tracer[n] \in {"attaching", "tracing"} /\ pidfile = n
  \/ /\ ctr[n] = "exited" /\ scan[n].pc \in Late
     /\ \/ tracer[n] = "none"
        \/ tracer[n] \in {"attaching", "tracing"} /\ pidfile = n
  \/ /\ ctr[n] = "stopping" /\ scan[n].pc \in Late
     /\ tracer[n] \in {"terminating", "gone"} /\ pidfile = n /\ scan[n].pid = n
  \/ /\ ctr[n] \in {"stopped", "destroyed"} /\ scan[n].pc \in Late
     /\ tracer[n] \in {"none", "killed", "gone"}

(* Scans that do not overlap: one that has begun is preceded by scans that *)
(* have returned and whose containers are gone.                            *)
OneAtATime ==
  \A k, n \in Scans : k < n /\ scan[n].pc # "idle" => scan[k].pc = "done" /\ ctr[k] \in Gone

(* A pid file and a pinned map belong to a container whose poststop hooks  *)
(* are still to run.                                                       *)
Held == {"running", "exited", "stopping"}
HeldByContainer ==
  /\ pidfile # 0 => ctr[pidfile] \in Held /\ tracer[pidfile] # "none"
  /\ pins \subseteq {scan[n].id : n \in {k \in Scans : ctr[k] \in Held}}

(* NothingLeft is about states at rest; this is what leads up to them.     *)
LeftInv == OneAtATime /\ (\A n \in Scans : Place(n)) /\ HeldByContainer

(* A scan that is under way, or whose container is not gone yet.           *)
Busy(n) == scan[n].pc # "idle" /\ (scan[n].pc # "done" \/ ctr[n] \notin Gone)

(* While one scan is busy the others have not begun or have left nothing.  *)
LEMMA OthersRest ==
  ASSUME LeftInv, NEW n \in Scans, Busy(n), NEW k \in Scans \ {n}
  PROVE  scan[k].pc \in {"idle", "done"} /\ ctr[k] \in Gone
<1>1. k < n \/ n < k
  BY SecurityScanAssumption DEF Scans
<1>2. CASE k < n
  BY <1>2 DEF LeftInv, OneAtATime, Busy
<1>3. CASE n < k
  <2>1. scan[k].pc = "idle"
    BY <1>3 DEF LeftInv, OneAtATime, Busy
  <2> QED
    BY <2>1 DEF LeftInv, Place, Early, Late, Finalizing, Gone
<1> QED
  BY <1>1, <1>2, <1>3

(* A step of one busy scan that concerns nobody else.                      *)
Own(n) ==
  /\ Busy(n)
  /\ \A k \in Scans \ {n} : scan'[k] = scan[k] /\ ctr'[k] = ctr[k] /\ tracer'[k] = tracer[k]
  /\ scan'[n].id = scan[n].id /\ scan'[n].pc # "idle"
  /\ pidfile' \in {0, n} /\ pins' \subseteq pins \cup {scan[n].id}

(* Such a step keeps the invariant if it does for the scan itself.         *)
LEMMA OwnStep ==
  ASSUME LeftInv, NEW n \in Scans, Own(n), Place(n)',
         pidfile' = n => ctr'[n] \in Held /\ tracer'[n] # "none",
         ctr'[n] \in Held \/ scan[n].id \notin pins'
  PROVE  LeftInv'
<1>1. \A k \in Scans \ {n} : scan[k].pc \in {"idle", "done"} /\ ctr[k] \in Gone
  BY OthersRest DEF Own
<1>2. OneAtATime'
  <2> SUFFICES ASSUME NEW j \in Scans, NEW k \in Scans, j < k, scan'[k].pc # "idle"
               PROVE  scan'[j].pc = "done" /\ ctr'[j] \in Gone
    BY DEF OneAtATime
  <2>1. j # k
    BY SecurityScanAssumption DEF Scans
  <2>2. scan[k].pc # "idle"
    BY DEF Own, Busy
  <2>3. scan[j].pc = "done" /\ ctr[j] \in Gone
    BY <2>2 DEF LeftInv, OneAtATime
  <2> QED
    BY <2>1, <2>3 DEF Own, Busy
<1>3. ASSUME NEW k \in Scans PROVE Place(k)'
  <2>1. CASE k = n
    BY <2>1
  <2>2. CASE k # n
    <3>1. Place(k) /\ ctr[k] \in {"none", "destroyed"}
      BY <1>1, <2>2 DEF LeftInv, Gone
    <3>2. scan'[k] = scan[k] /\ ctr'[k] = ctr[k] /\ tracer'[k] = tracer[k]
      BY <2>2 DEF Own
    <3> QED
      BY <3>1, <3>2 DEF Place
  <2> QED
    BY <2>1, <2>2
<1>4. HeldByContainer'
  <2>1. pins \subseteq {scan[n].id}
    BY <1>1 DEF LeftInv, HeldByContainer, Held, Gone
  <2>2. pins' \subseteq {scan'[n].id}
    BY <2>1 DEF Own
  <2>3. ctr'[n] \in Held \/ pins' = {}
    BY <2>2 DEF Own
  <2>4. pins' \subseteq {scan'[m].id : m \in {k \in Scans : ctr'[k] \in Held}}
    BY <2>2, <2>3
  <2>5. pidfile' # 0 => ctr'[pidfile'] \in Held /\ tracer'[pidfile'] # "none"
    BY DEF Own
  <2> QED
    BY <2>4, <2>5 DEF HeldByContainer
<1> QED
  BY <1>2, <1>3, <1>4 DEF LeftInv

(* While one scan is busy, a pid file can only be its own, and only        *)
(* between the start and the stop of its tracer.                           *)
LEMMA PidFileIsOwn ==
  ASSUME LeftInv, TypeOK, NEW n \in Scans, Busy(n)
  PROVE  /\ pidfile \in {0, n} /\ pins \subseteq {scan[n].id}
         /\ pidfile = n => ctr[n] \in Held /\ tracer[n] # "none"
         /\ ctr[n] \in Held \/ pins = {}
<1>1. \A k \in Scans \ {n} : ctr[k] \in Gone
  BY OthersRest
<1>2. 0 \notin Scans
  BY SecurityScanAssumption DEF Scans
<1> QED
  BY <1>1, <1>2 DEF LeftInv, HeldByContainer, Held, Gone, TypeOK

(* A step of a scan that leaves its container, its tracer and what they    *)
(* hold alone.                                                             *)
LEMMA OwnMove ==
  ASSUME LeftInv, TypeOK, NEW n \in Scans, scan[n].pc \notin {"idle", "done"},
         \A k \in Scans \ {n} : scan'[k] = scan[k],
         scan'[n].id = scan[n].id, scan'[n].pid = scan[n].pid,
         \/ scan[n].pc \in Early /\ scan'[n].pc \in Early
         \/ scan[n].pc \in Late /\ scan'[n].pc \in Late,
         UNCHANGED <<ctr, tracer, pidfile, pins>>
  PROVE  LeftInv'
<1>1. Busy(n)
  BY DEF Busy
<1>2. Own(n)
  BY <1>1, PidFileIsOwn DEF Own, Early, Late, Finalizing
<1>3. Place(n)'
  <2>1. Place(n)
    BY DEF LeftInv
  <2> QED
    BY <2>1 DEF Place, Early, Late, Finalizing
<1> QED
  BY <1>1, <1>2, <1>3, PidFileIsOwn, OwnStep

(* A step that touches neither the scans nor what they hold.               *)
LEMMA LeftFrame ==
  ASSUME LeftInv, UNCHANGED <<scan, ctr, tracer, pidfile, pins>> PROVE LeftInv'
BY DEF LeftInv, OneAtATime, Place, HeldByContainer

(* The deferred destroy takes over from a container that is killed.        *)
LEMMA FailLeft ==
  ASSUME LeftInv, TypeOK, NEW n \in Scans, Fail(n),
         scan[n].pc \in {"start", "poststart"} \/ (scan[n].pc = "forward" /\ ctr[n] = "running"),
         UNCHANGED <<pidfile, tracer>>,
         pins' \subseteq pins \cup {scan[n].id}
  PROVE  LeftInv'
<1>1. Busy(n) /\ Place(n)
  BY DEF Busy, LeftInv
<1>2. /\ scan'[n].id = scan[n].id /\ scan'[n].pc \in {"done", "destroy"}
      /\ \A k \in Scans \ {n} : scan'[k] = scan[k] /\ ctr'[k] = ctr[k]
      /\ ctr'[n] = "exited"
  BY DEF Fail, Container, TypeOK, ScanRecords
<1>3. Own(n)
  BY <1>1, <1>2, PidFileIsOwn DEF Own
<1>4. Place(n)'
  BY <1>1, <1>2 DEF Place, Early, Late, Finalizing
<1>5. pidfile' = n => tracer'[n] # "none"
  BY <1>1, PidFileIsOwn
<1> QED
  BY <1>2, <1>3, <1>4, <1>5, OwnStep DEF Held

(* A scan begins only when nothing is left of the earlier ones.            *)
LEMMA BeginLeft ==
  ASSUME ~Overlap, LeftInv, TypeOK, NEW n \in Scans, NEW i \in Ids, NEW m \in Modes,
         applySecurityScan(n, i, m)
  PROVE  LeftInv'
<1>1. /\ scan[n].pc = "idle" /\ scan'[n].pc \in {"create", "done"}
      /\ \A k \in Scans \ {n} : scan'[k] = scan[k]
      /\ UNCHANGED <<ctr, tracer, pidfile, pins>>
  <2> DEFINE name == IF AAEnabled THEN ProfileName[i] ELSE config.apparmor
  <2>1. scan \in [Scans -> ScanRecords] /\ scan[n] \in ScanRecords
    BY DEF TypeOK
  <2> HIDE DEF name
  <2>2. [scan[n] EXCEPT !.pc = "create", !.id = i, !.mode = m, !.spec.apparmor = name].pc = "create"
    BY <2>1 DEF ScanRecords
  <2>3. [scan[n] EXCEPT !.pc = "done", !.err = TRUE].pc = "done"
    BY <2>1 DEF ScanRecords
  <2>4. \/ scan' = [scan EXCEPT ![n] = [scan[n] EXCEPT !.pc = "done", !.err = TRUE]]
        \/ scan' = [scan EXCEPT ![n] = [scan[n] EXCEPT !.pc = "create", !.id = i, !.mode = m,
                                                      !.spec.apparmor = name]]
    BY <2>1 DEF applySecurityScan, name
  <2> QED
    BY <2>1, <2>2, <2>3, <2>4 DEF applySecurityScan, At
<1>2. ctr[n] = "none" /\ tracer[n] = "none"
  BY <1>1 DEF LeftInv, Place, Early, Late, Finalizing
<1>3. \A k \in Scans : k < n => scan[k].pc = "done" /\ ctr[k] \in Gone
  BY SecurityScanAssumption DEF applySecurityScan, Scans
<1>4. OneAtATime'
  <2> SUFFICES ASSUME NEW j \in Scans, NEW k \in Scans, j < k, scan'[k].pc # "idle"
               PROVE  scan'[j].pc = "done" /\ ctr'[j] \in Gone
    BY DEF OneAtATime
  <2>1. j # k
    BY SecurityScanAssumption DEF Scans
  <2>2. CASE k = n
    BY <1>1, <1>3, <2>1, <2>2
  <2>3. CASE k # n
    <3>1. scan[k].pc # "idle"
      BY <1>1, <2>3
    <3>2. scan[j].pc = "done" /\ ctr[j] \in Gone
      BY <3>1 DEF LeftInv, OneAtATime
    <3> QED
      BY <1>1, <3>2
  <2> QED
    BY <2>2, <2>3
<1>5. ASSUME NEW k \in Scans PROVE Place(k)'
  BY <1>1, <1>2 DEF LeftInv, Place
<1>6. HeldByContainer'
  BY <1>1, <1>2 DEF LeftInv, HeldByContainer, Held
<1> QED
  BY <1>4, <1>5, <1>6 DEF LeftInv

(* The tracer starts, and its pid file with it.                            *)
LEMMA StartLeft ==
  ASSUME "pidfile" \notin Faults, LeftInv, TypeOK, NEW n \in Scans, runScanCapTraceStart(n)
  PROVE  LeftInv'
<1>1. /\ Busy(n) /\ Place(n) /\ scan[n].pc = "poststart" /\ scan[n] \in ScanRecords
      /\ scan \in [Scans -> ScanRecords]
  BY DEF runScanCapTraceStart, At, Busy, LeftInv, TypeOK
<1>2. CASE Fail(n) /\ UNCHANGED <<pidfile, tracer>>
  <2>1. pins' \subseteq pins \cup {scan[n].id}
    BY DEF runScanCapTraceStart, Create, Teardown
  <2> QED
    BY <1>1, <1>2, <2>1, FailLeft
<1>3. CASE /\ pidfile' = n /\ Goto(n, "forward") /\ Container(n, "running") /\ pins' = Create(n)
           /\ tracer' = [tracer EXCEPT ![n] = IF "attach" \in Faults THEN "attaching" ELSE "tracing"]
  <2>1. /\ scan'[n].id = scan[n].id /\ scan'[n].pc = "forward" /\ ctr'[n] = "running"
        /\ tracer'[n] \in {"attaching", "tracing"}
        /\ \A k \in Scans \ {n} : scan'[k] = scan[k] /\ ctr'[k] = ctr[k] /\ tracer'[k] = tracer[k]
    BY <1>1, <1>3 DEF Goto, Container, TypeOK, ScanRecords
  <2>2. Own(n)
    BY <1>1, <1>3, <2>1 DEF Own, Create
  <2>3. Place(n)'
    BY <1>3, <2>1 DEF Place, Late
  <2> QED
    BY <2>1, <2>2, <2>3, OwnStep DEF Held
<1> QED
  BY <1>2, <1>3 DEF runScanCapTraceStart

(* scan-cap-trace-stop: the pid file names the scan's own tracer, or there *)
(* is none and the tracer was never started.                               *)
LEMMA StopLeft ==
  ASSUME LeftInv, TypeOK, NEW n \in Scans, runScanCapTraceStop(n) PROVE LeftInv'
<1>1. /\ ctr[n] = "exited" /\ Place(n) /\ scan[n] \in ScanRecords
      /\ scan \in [Scans -> ScanRecords] /\ scan[n].pc \in Late
      /\ scan[n].pc \in {"destroy", "done"} \cup Finalizing
  BY DEF runScanCapTraceStop, LeftInv, TypeOK, Place
<1>2. Busy(n)
  BY <1>1 DEF Busy, Gone, Finalizing
<1>3. pidfile \in {0, n} /\ pins \subseteq {scan[n].id} /\ (pidfile = n => tracer[n] # "none")
  BY <1>2, PidFileIsOwn
<1>4. 0 \notin Scans
  BY SecurityScanAssumption DEF Scans
<1>5. CASE pidfile # 0 /\ tracer[pidfile] \in Alive
  <2>1. pidfile = n /\ tracer[n] \in {"attaching", "tracing"}
    BY <1>1, <1>3, <1>5 DEF Place, Alive
  <2>2. /\ tracer' = [tracer EXCEPT ![n] = "terminating"]
        /\ scan' = [scan EXCEPT ![n].pid = n]
        /\ Container(n, "stopping")
        /\ UNCHANGED <<pidfile, pins>>
    BY <1>5, <2>1 DEF runScanCapTraceStop
  <2>3. /\ scan'[n].id = scan[n].id /\ scan'[n].pc = scan[n].pc /\ scan'[n].pid = n
        /\ ctr'[n] = "stopping" /\ tracer'[n] = "terminating"
        /\ \A k \in Scans \ {n} : scan'[k] = scan[k] /\ ctr'[k] = ctr[k] /\ tracer'[k] = tracer[k]
    BY <1>1, <2>2 DEF Container, TypeOK, ScanRecords
  <2>4. Own(n)
    BY <1>2, <1>3, <2>2, <2>3 DEF Own, Busy
  <2>5. Place(n)'
    BY <1>1, <2>1, <2>2, <2>3 DEF Place
  <2> QED
    BY <2>3, <2>4, <2>5, OwnStep DEF Held
<1>6. CASE ~(pidfile # 0 /\ tracer[pidfile] \in Alive)
  <2>1. pidfile = 0 /\ tracer[n] = "none"
    BY <1>1, <1>3, <1>4, <1>6 DEF Place, Alive
  <2>2. Stopped(n) /\ UNCHANGED <<scan, tracer>>
    BY <1>6 DEF runScanCapTraceStop
  <2>3. /\ ctr'[n] = "stopped" /\ \A k \in Scans \ {n} : ctr'[k] = ctr[k]
        /\ pidfile' = 0 /\ pins' = pins \ {scan[n].id}
    BY <2>2 DEF Stopped, Container, Teardown, TypeOK
  <2>4. Own(n)
    BY <1>2, <2>2, <2>3 DEF Own, Busy
  <2>5. Place(n)'
    BY <1>1, <2>1, <2>2, <2>3 DEF Place
  <2> QED
    BY <1>4, <2>3, <2>4, <2>5, OwnStep
<1> QED
  BY <1>5, <1>6

(* It waits for that tracer, or kills it.                                  *)
LEMMA WaitLeft ==
  ASSUME LeftInv, TypeOK, NEW n \in Scans, scanCapTraceStopWait(n) PROVE LeftInv'
<1>1. /\ ctr[n] = "stopping" /\ Place(n) /\ scan[n].pc \in Late /\ scan[n].pid = n
      /\ tracer[n] \in {"terminating", "gone"}
  BY DEF scanCapTraceStopWait, LeftInv, Place
<1>2. Busy(n)
  BY <1>1 DEF Busy, Gone, Late, Finalizing
<1>3. 0 \notin Scans
  BY SecurityScanAssumption DEF Scans
<1>4. /\ ctr'[n] = "stopped" /\ tracer'[n] \in {"killed", "gone"} /\ UNCHANGED scan
      /\ \A k \in Scans \ {n} : ctr'[k] = ctr[k] /\ tracer'[k] = tracer[k]
      /\ pidfile' = 0 /\ pins' = pins \ {scan[n].id}
  BY <1>1 DEF scanCapTraceStopWait, Stopped, Container, Teardown, TypeOK
<1>5. Own(n)
  BY <1>2, <1>4 DEF Own, Busy
<1>6. Place(n)'
  BY <1>1, <1>4 DEF Place
<1> QED
  BY <1>3, <1>4, <1>5, <1>6, OwnStep

(* After scan-aa-unload the container is gone.                             *)
LEMMA UnloadLeft ==
  ASSUME LeftInv, TypeOK, NEW n \in Scans, runScanAAUnload(n) PROVE LeftInv'
<1>1. /\ ctr[n] = "stopped" /\ Place(n) /\ scan[n].pc \in Late
      /\ tracer[n] \in {"none", "killed", "gone"} /\ scan[n] \in ScanRecords
      /\ scan \in [Scans -> ScanRecords]
  BY DEF runScanAAUnload, LeftInv, Place, TypeOK
<1>2. Busy(n)
  BY <1>1 DEF Busy, Gone, Late, Finalizing
<1>3. pidfile = 0 /\ pins = {}
  BY <1>1, <1>2, PidFileIsOwn DEF Held
<1>4. /\ scan'[n].id = scan[n].id /\ scan'[n].pc \in Late
      /\ \A k \in Scans \ {n} : scan'[k] = scan[k] /\ ctr'[k] = ctr[k]
      /\ ctr'[n] = "destroyed" /\ UNCHANGED <<tracer, pidfile, pins>>
  BY <1>1 DEF runScanAAUnload, AfterDestroy, At, Goto, Container, TypeOK, ScanRecords, Late, Finalizing
<1>5. Own(n)
  BY <1>2, <1>3, <1>4 DEF Own, Late, Finalizing
<1>6. Place(n)'
  BY <1>1, <1>4 DEF Place
<1>7. 0 \notin Scans
  BY SecurityScanAssumption DEF Scans
<1> QED
  BY <1>3, <1>4, <1>5, <1>6, <1>7, OwnStep

(* The tracer itself: it attaches, writes and ends.                        *)
LEMMA TracerLeft ==
  ASSUME LeftInv, TypeOK, NEW n \in Scans, Tracer(n) PROVE LeftInv'
<1>1. UNCHANGED <<scan, ctr, pidfile, pins>> /\ \A k \in Scans \ {n} : tracer'[k] = tracer[k]
  BY DEF Tracer, TracerAttach, TracerFlush, TracerTerminates, TracerKilled, files, kernel, TypeOK
<1>2. \/ tracer'[n] = tracer[n]
      \/ tracer[n] = "attaching" /\ tracer'[n] = "tracing"
      \/ tracer[n] \in {"terminating", "killed"} /\ tracer'[n] = "gone"
  BY DEF Tracer, TracerAttach, TracerFlush, TracerTerminates, TracerKilled, TypeOK
<1>3. ASSUME NEW k \in Scans PROVE Place(k)'
  <2>1. Place(k)
    BY DEF LeftInv
  <2> QED
    BY <1>1, <1>2, <2>1 DEF Place
<1>4. HeldByContainer'
  BY <1>1, <1>2 DEF LeftInv, HeldByContainer, TypeOK
<1>5. OneAtATime'
  BY <1>1 DEF LeftInv, OneAtATime
<1> QED
  BY <1>3, <1>4, <1>5 DEF LeftInv

(* The steps that only move the command or the container on.               *)
LEMMA MoveLeft ==
  ASSUME LeftInv, TypeOK, NEW n \in Scans,
         \/ runScanAALoad(n) \/ backupStat(n) \/ backupCopy(n) \/ readAndNarrow(n)
         \/ applyGeneratedAppArmor(n) \/ writeConfig(n) \/ DestroyFails(n)
  PROVE  LeftInv'
<1>1. scan \in [Scans -> ScanRecords] /\ scan[n] \in ScanRecords
  BY DEF TypeOK
<1>2. UNCHANGED <<ctr, tracer, pidfile, pins>>
  BY DEF runScanAALoad, backupStat, backupCopy, readAndNarrow, applyGeneratedAppArmor, writeConfig,
     DestroyFails, files, kernel
<1>3. /\ scan[n].pc \notin {"idle", "done"}
      /\ \A k \in Scans \ {n} : scan'[k] = scan[k]
      /\ scan'[n].id = scan[n].id /\ scan'[n].pid = scan[n].pid
      /\ \/ scan[n].pc \in Early /\ scan'[n].pc \in Early
         \/ scan[n].pc \in Late /\ scan'[n].pc \in Late
  <2> USE <1>1 DEF At, Goto, ScanRecords, Early, Late, Finalizing
  <2>1. CASE runScanAALoad(n)
    BY <2>1 DEF runScanAALoad
  <2>2. CASE backupStat(n)
    BY <2>2 DEF backupStat
  <2>3. CASE backupCopy(n) \/ writeConfig(n)
    BY <2>3 DEF backupCopy, writeConfig
  <2>4. CASE readAndNarrow(n)
    <3> DEFINE spec == applyGeneratedSeccomp(narrowCapabilitiesFromTrace(config))
               changed == config.bounding # parseCapsFromFile \/ secfile # 0
    <3>1. scan' = [scan EXCEPT ![n] = [scan[n] EXCEPT !.pc = "apparmor", !.spec = spec, !.changed = changed]]
      BY <2>4 DEF readAndNarrow
    <3> HIDE DEF spec, changed
    <3> QED
      BY <2>4, <3>1 DEF readAndNarrow
  <2>5. CASE applyGeneratedAppArmor(n)
    BY <2>5 DEF applyGeneratedAppArmor, nameProfile
  <2>6. CASE DestroyFails(n)
    BY <2>6 DEF DestroyFails, AfterDestroy
  <2> QED
    BY <2>1, <2>2, <2>3, <2>4, <2>5, <2>6
<1> QED
  BY <1>2, <1>3, OwnMove

(* createContainer: nobody else has the id, since all others are gone.     *)
LEMMA CreateLeft ==
  ASSUME LeftInv, TypeOK, NEW n \in Scans, createContainer(n) PROVE LeftInv'
<1>1. /\ scan[n].pc = "create" /\ Place(n) /\ scan[n] \in ScanRecords
      /\ scan \in [Scans -> ScanRecords] /\ UNCHANGED <<tracer, pidfile, pins>>
  BY DEF createContainer, At, LeftInv, TypeOK, files, kernel
<1>2. Busy(n) /\ ctr[n] = "none" /\ tracer[n] = "none"
  BY <1>1 DEF Busy, Place, Early, Late, Finalizing
<1>3. pidfile = 0 /\ pins = {}
  BY <1>2, PidFileIsOwn DEF Held
<1>4. \A k \in Scans \ {n} : ctr[k] \in Gone
  BY <1>2, OthersRest
<1>5. Goto(n, "load") /\ Container(n, "created")
  BY <1>4 DEF createContainer
<1>6. /\ scan'[n].id = scan[n].id /\ scan'[n].pc = "load" /\ ctr'[n] = "created"
      /\ \A k \in Scans \ {n} : scan'[k] = scan[k] /\ ctr'[k] = ctr[k]
  BY <1>1, <1>5 DEF Goto, Container, TypeOK, ScanRecords
<1>7. Own(n)
  BY <1>1, <1>2, <1>3, <1>6 DEF Own
<1>8. Place(n)'
  BY <1>1, <1>2, <1>6 DEF Place, Early
<1>9. 0 \notin Scans
  BY SecurityScanAssumption DEF Scans
<1> QED
  BY <1>1, <1>3, <1>6, <1>7, <1>8, <1>9, OwnStep

(* init applies its profile, or the run fails.                             *)
LEMMA ApplyLeft ==
  ASSUME LeftInv, TypeOK, NEW n \in Scans, ApplyProfile(n) PROVE LeftInv'
<1>1. /\ scan[n].pc = "start" /\ UNCHANGED <<tracer, pidfile, pins>>
      /\ scan \in [Scans -> ScanRecords] /\ scan[n] \in ScanRecords
  BY DEF ApplyProfile, At, TypeOK, files, kernel
<1>2. CASE Fail(n)
  BY <1>1, <1>2, FailLeft
<1>3. CASE Goto(n, "poststart") /\ UNCHANGED ctr
  BY <1>1, <1>3, OwnMove DEF Goto, ScanRecords, Early
<1> QED
  BY <1>2, <1>3 DEF ApplyProfile

(* The run returns from forward.                                           *)
LEMMA ForwardLeft ==
  ASSUME LeftInv, TypeOK, NEW n \in Scans, forward(n) PROVE LeftInv'
<1>1. /\ scan[n].pc = "forward" /\ UNCHANGED <<tracer, pidfile, pins>>
      /\ scan \in [Scans -> ScanRecords] /\ scan[n] \in ScanRecords
  BY DEF forward, At, TypeOK, files, kernel
<1>2. CASE Fail(n) /\ ctr[n] = "running"
  BY <1>1, <1>2, FailLeft
<1>3. CASE (Goto(n, "backup") \/ Goto(n, "destroy")) /\ UNCHANGED ctr
  BY <1>1, <1>3, OwnMove DEF Goto, ScanRecords, Late, Finalizing
<1> QED
  BY <1>2, <1>3 DEF forward

(* The container exits by itself.                                          *)
LEMMA ExitLeft ==
  ASSUME LeftInv, TypeOK, NEW n \in Scans, ContainerExit(n) PROVE LeftInv'
<1>1. /\ ctr[n] = "running" /\ Place(n) /\ UNCHANGED <<scan, tracer, pidfile, pins>>
      /\ ctr'[n] = "exited" /\ \A k \in Scans \ {n} : ctr'[k] = ctr[k]
  BY DEF ContainerExit, Container, LeftInv, TypeOK, kernel
<1>2. Busy(n) /\ scan[n].pc \in Late /\ pidfile = n /\ tracer[n] \in {"attaching", "tracing"}
  BY <1>1 DEF Busy, Place, Gone, Late, Finalizing
<1>3. Own(n)
  BY <1>1, <1>2 DEF Own, Busy
<1>4. Place(n)'
  BY <1>1, <1>2 DEF Place
<1> QED
  BY <1>1, <1>2, <1>3, <1>4, OwnStep DEF Held

(* Every step keeps the invariant, unless the tracer's pid file cannot be  *)
(* written.                                                                *)
LEMMA LeftNext ==
  ASSUME ~Overlap, "pidfile" \notin Faults, TypeOK, LeftInv, [Next]_vars PROVE LeftInv'
<1>1. ASSUME NEW n \in Scans, Run(n) PROVE LeftInv'
  BY <1>1, BeginLeft, CreateLeft, ApplyLeft, StartLeft, ForwardLeft, MoveLeft DEF Run
<1>2. ASSUME NEW n \in Scans, Poststop(n) PROVE LeftInv'
  BY <1>2, StopLeft, WaitLeft, UnloadLeft, MoveLeft DEF Poststop
<1>3. ASSUME NEW n \in Scans, Workload(n) PROVE LeftInv'
  <2>1. ASSUME NEW c \in Caps, CapCheck(n, c) PROVE LeftInv'
    BY <2>1, LeftFrame DEF CapCheck, files, kernel
  <2>2. ASSUME NEW d \in Denials, Deny(n, d) PROVE LeftInv'
    BY <2>2, LeftFrame DEF Deny, files
  <2> QED
    BY <1>3, <2>1, <2>2, ExitLeft DEF Workload
<1>4. CASE ensureGeneratedProfiles
  BY <1>4, LeftFrame DEF ensureGeneratedProfiles, files
<1>5. CASE UNCHANGED vars
  BY <1>5, LeftFrame DEF vars, files, kernel
<1> QED
  BY <1>1, <1>2, <1>3, <1>4, <1>5, TracerLeft DEF Next

(* Scans that do not overlap, and whose tracers' pid files get written,    *)
(* keep every tracer, pid file and pinned map in somebody's hands.         *)
THEOREM LeftInvariance ==
  ASSUME ~Overlap, "pidfile" \notin Faults PROVE Spec => []LeftInv
<1>1. Init => LeftInv
  <2> SUFFICES ASSUME Init PROVE LeftInv
    OBVIOUS
  <2>1. \A n \in Scans : scan[n].pc = "idle" /\ ctr[n] = "none" /\ tracer[n] = "none"
    BY DEF Init, Idle
  <2> QED
    BY <2>1 DEF Init, LeftInv, OneAtATime, Place, HeldByContainer
<1>2. TypeOK /\ LeftInv /\ [Next]_vars => LeftInv'
  BY LeftNext
<1> QED
  BY <1>1, <1>2, TypeCorrect, PTL DEF Spec

(* A scan of a bundle that fails at any step still leaves the backup of    *)
(* config.json, enforces nothing without evidence, and leaves no tracer,   *)
(* pinned map or pid file behind: the early returns of                     *)
(* runScanCapTraceStart and runScanCapTraceStop, the deferred destroy of   *)
(* runner.run and finalizeSecurityScan.                                    *)
THEOREM ScanFailsCleanTheorem ==
  ASSUME ~Overlap, "pidfile" \notin Faults PROVE Spec => []ScanFailsClean
<1>1. TypeOK /\ LeftInv => NothingLeft
  <2> SUFFICES ASSUME TypeOK, LeftInv, Quiescent PROVE NothingLeft
    BY DEF NothingLeft
  <2>1. \A n \in Scans : ctr[n] \in Gone /\ ctr[n] \notin Held
    BY DEF Quiescent, Gone, Held
  <2>2. \A n \in Scans : tracer[n] \in {"none", "killed", "gone"}
    BY <2>1 DEF LeftInv, Place, Gone
  <2>3. pins = {}
    BY <2>1 DEF LeftInv, HeldByContainer
  <2>4. pidfile = 0
    BY <2>1 DEF LeftInv, HeldByContainer, TypeOK
  <2> QED
    BY <2>2, <2>3, <2>4 DEF NothingLeft
<1>2. BackupIsOriginal /\ EnforceHasEvidence /\ NothingLeft => ScanFailsClean
  BY DEF ScanFailsClean
<1> QED
  BY <1>1, <1>2, TypeCorrect, LeftInvariance, BackupTheorem, EvidenceTheorem, PTL

-----------------------------------------------------------------------------
(* What the next run finds *)

(* The conditions under which finalizeSecurityScan can keep its promise:   *)
(* one scan at a time, in the foreground, on a host with AppArmor; only    *)
(* the missing tools, the seccomp recorder and the flip to enforce may     *)
(* fail; the audit window is honoured (no dmesg, local time not ahead of   *)
(* UTC); and config.json grants in every bucket what it grants in the      *)
(* bounding set.                                                           *)
Undisturbed ==
  /\ ~Overlap /\ Modes \subseteq {"foreground"} /\ AAEnabled
  /\ Faults \subseteq {"tools", "seccomp", "flip"}
  /\ Offset <= 0 /\ "dmesg" \notin AuditSources
  /\ Original.bounding \subseteq Original.others

(* Then a scan fails before it has a container or not at all, and is       *)
(* finalized after its container is gone.                                  *)
Smooth(n) ==
  /\ scan[n].mode = "foreground"
  /\ scan[n].err => scan[n].pc = "done" /\ ctr[n] = "none"
  /\ scan[n].pc \in Finalizing \cup {"done"} => scan[n].err \/ ctr[n] = "destroyed"
  /\ ctr[n] \in {"running", "exited"} => tracer[n] = "tracing"
  /\ tracer[n] # "killed"

(* What a container was checked for is in the log or on its way there.     *)
Seen(n) ==
  /\ used[n] \subseteq parseCapsFromFile \cup unread[n]
  /\ tracer[n] \notin {"tracing", "terminating"} => unread[n] = {}

(* config.json grants it once the scan has succeeded; before that the spec *)
(* in memory does.                                                         *)
Granted(n) ==
  /\ Succeeded(n) => used[n] \subseteq config.bounding
  /\ scan[n].pc \in {"apparmor", "write"} =>
       /\ parseCapsFromFile \subseteq scan[n].spec.bounding
       /\ scan[n].spec.bounding \subseteq scan[n].spec.others
       /\ scan[n].changed \/ parseCapsFromFile \subseteq config.bounding

(* The rules in the file are those of the scan that is under way.          *)
Ruled(n) ==
  /\ ctr[n] \notin Gone /\ scan[n].pc # "load" => stamp = n
  /\ Latest(n) /\ scan[n].pc # "idle" /\ ~scan[n].err => profile.rules \subseteq {n} \X Denials

(* The name in the spec, the one in the file and the one in the kernel.    *)
Named(n) ==
  /\ scan[n].pc \in {"create", "load"} =>
       scan[n].spec.apparmor = profile.name /\ profile.name \in Names
  /\ scan[n].pc = "start" =>
       scan[n].spec.apparmor \in Names /\ loaded[scan[n].spec.apparmor] # NoProfile
  /\ scan[n].pc = "apparmor" => scan[n].spec.apparmor = config.apparmor
  /\ scan[n].pc = "write" =>
       /\ scan[n].spec.apparmor = profile.name
       /\ scan[n].changed \/ config.apparmor = profile.name

(* Between scans config.json names the profile that is in the file.        *)
NamedAtRest ==
  (\A n \in Scans : scan[n].pc \in {"idle", "done"}) => config.apparmor \in {None, profile.name}

FitInv ==
  /\ \A n \in Scans : Smooth(n) /\ Seen(n) /\ Granted(n) /\ Ruled(n) /\ Named(n)
  /\ config.bounding \subseteq config.others
  /\ \A e \in audit : scan[e.at].pc # "idle"
  /\ NamedAtRest

(* Everybody but one scan has not begun or has left nothing.               *)
Rest(n) ==
  \A k \in Scans \ {n} :
    scan[k].pc \in {"idle", "done"} /\ ctr[k] \in Gone /\ (n < k => scan[k].pc = "idle")

(* So it is while a scan is busy.                                          *)
LEMMA BusyRest == ASSUME LeftInv, NEW n \in Scans, Busy(n) PROVE Rest(n)
<1>1. \A k \in Scans \ {n} : scan[k].pc \in {"idle", "done"} /\ ctr[k] \in Gone
  BY OthersRest
<1>2. \A k \in Scans \ {n} : n < k => scan[k].pc = "idle"
  BY DEF LeftInv, OneAtATime, Busy
<1> QED
  BY <1>1, <1>2 DEF Rest

(* Nobody has begun after it.                                              *)
LEMMA BusyLatest == ASSUME LeftInv, NEW n \in Scans, Busy(n) PROVE Latest(n)
<1>1. \A k \in (n + 1)..MaxScans : k \in Scans \ {n} /\ n < k
  BY SecurityScanAssumption DEF Scans
<1> QED
  BY <1>1, BusyRest DEF Latest, At, Rest

(* All that is said of one scan.                                           *)
Fit(n) == Smooth(n) /\ Seen(n) /\ Granted(n) /\ Ruled(n) /\ Named(n)

(* A step of one scan leaves everybody else alone.                         *)
Beside(n) ==
  /\ Rest(n)
  /\ scan'[n].pc # "idle"
  /\ \A k \in Scans \ {n} : /\ scan'[k] = scan[k] /\ ctr'[k] = ctr[k] /\ tracer'[k] = tracer[k]
                            /\ unread'[k] = unread[k] /\ used'[k] = used[k]
  /\ log \subseteq log'

(* What the others have stays true.                                        *)
LEMMA FitOthers ==
  ASSUME LeftInv, FitInv, NEW n \in Scans, Beside(n), NEW k \in Scans \ {n},
         Succeeded(k) => used[k] \subseteq config'.bounding
  PROVE  Fit(k)'
<1>1. scan'[k] = scan[k] /\ ctr'[k] = ctr[k] /\ tracer'[k] = tracer[k]
      /\ unread'[k] = unread[k] /\ used'[k] = used[k]
  BY DEF Beside
<1>2. scan[k].pc \in {"idle", "done"} /\ ctr[k] \in Gone
  BY DEF Beside, Rest
<1>3. Smooth(k) /\ Seen(k)
  BY DEF FitInv
<1>4. Smooth(k)'
  BY <1>1, <1>3 DEF Smooth
<1>5. Seen(k)'
  <2>1. parseCapsFromFile \subseteq parseCapsFromFile'
    BY DEF Beside, parseCapsFromFile
  <2> QED
    BY <1>1, <1>3, <2>1 DEF Seen
<1>6. Granted(k)'
  BY <1>1, <1>2 DEF Granted, Succeeded, At
<1>7. Ruled(k)'
  <2>1. k < n \/ n < k
    BY SecurityScanAssumption DEF Scans
  <2>2. CASE k < n
    <3>1. n \in (k + 1)..MaxScans
      BY <2>2, SecurityScanAssumption DEF Scans
    <3>2. ~Latest(k)'
      BY <3>1 DEF Latest, At, Beside
    <3> QED
      BY <1>1, <1>2, <3>2 DEF Ruled
  <2>3. CASE n < k
    BY <1>1, <1>2, <2>3 DEF Ruled, Beside, Rest
  <2> QED
    BY <2>1, <2>2, <2>3
<1>8. Named(k)'
  BY <1>1, <1>2 DEF Named
<1> QED
  BY <1>4, <1>5, <1>6, <1>7, <1>8 DEF Fit

(* A step that leaves config.json alone and is not the last of its scan    *)
(* has to be looked at for that scan only.                                 *)
LEMMA FitStep ==
  ASSUME LeftInv, FitInv, TypeOK, NEW n \in Scans, Beside(n), UNCHANGED <<config, audit>>,
         scan'[n].pc # "done", Fit(n)'
  PROVE  FitInv'
<1>1. \A k \in Scans \ {n} : Fit(k)'
  BY FitOthers DEF FitInv, Granted
<1>2. \A e \in audit' : scan'[e.at].pc # "idle"
  <2> TAKE e \in audit'
  <2>1. scan[e.at].pc # "idle" /\ e.at \in Scans
    BY DEF FitInv, TypeOK
  <2>2. CASE e.at \in Scans \ {n}
    BY <2>1, <2>2 DEF Beside
  <2> QED
    BY <2>1, <2>2 DEF Beside
<1>3. NamedAtRest'
  BY DEF NamedAtRest, Beside
<1>4. config'.bounding \subseteq config'.others
  BY DEF FitInv
<1> QED
  BY <1>1, <1>2, <1>3, <1>4 DEF FitInv, Fit

(* A step of one scan that only moves the command on, past no place with a *)
(* condition of its own.                                                   *)
LEMMA FitMove ==
  ASSUME LeftInv, FitInv, TypeOK, NEW n \in Scans, Busy(n),
         \A k \in Scans \ {n} : scan'[k] = scan[k] /\ ctr'[k] = ctr[k] /\ tracer'[k] = tracer[k],
         scan'[n].mode = scan[n].mode, ~scan[n].err, ~scan'[n].err,
         scan'[n].pc \in {"poststart", "forward", "destroy", "backup", "copy", "read"},
         scan[n].pc # "load",
         scan'[n].pc \in {"backup", "copy", "read"} => ctr'[n] = "destroyed",
         ctr'[n] \in {"running", "exited"} => tracer'[n] = "tracing",
         tracer'[n] # "killed",
         tracer[n] \in {"tracing", "terminating"} =>
           tracer'[n] \in {"tracing", "terminating"} \/ unread[n] = {},
         ctr[n] \notin Gone \/ ctr'[n] \in Gone,
         UNCHANGED <<config, profile, log, stamp, audit, unread, used>>
  PROVE  FitInv'
<1>1. Rest(n) /\ Fit(n) /\ scan[n].pc # "idle"
  BY BusyRest DEF FitInv, Fit, Busy
<1>2. Beside(n)
  BY <1>1 DEF Beside
<1>3. Smooth(n)'
  BY <1>1 DEF Fit, Smooth, Finalizing
<1>4. Seen(n)'
  BY <1>1 DEF Fit, Seen, parseCapsFromFile
<1>5. Granted(n)'
  BY DEF Granted, Succeeded, At
<1>6. Ruled(n)'
  BY <1>1, BusyLatest DEF Fit, Ruled
<1>7. Named(n)'
  BY DEF Named
<1> QED
  BY <1>2, <1>3, <1>4, <1>5, <1>6, <1>7, FitStep DEF Fit

(* A scan begins: nothing is left of what the earlier ones collected.      *)
LEMMA BeginFit ==
  ASSUME Undisturbed, LeftInv, FitInv, TypeOK, NEW n \in Scans, NEW i \in Ids, NEW m \in Modes,
         applySecurityScan(n, i, m)
  PROVE  FitInv'
<1>1. /\ scan[n].pc = "idle" /\ UNCHANGED <<config, log, stamp, audit, ctr, tracer, unread, used>>
      /\ scan \in [Scans -> ScanRecords] /\ scan[n] \in ScanRecords
  BY DEF applySecurityScan, At, TypeOK
<1>2. ctr[n] = "none" /\ Fit(n) /\ ~scan[n].err
  BY <1>1 DEF LeftInv, Place, Early, Late, Finalizing, FitInv, Fit, Smooth
<1>3. Rest(n)
  <2>1. \A k \in Scans : k < n => scan[k].pc = "done" /\ ctr[k] \in Gone
    BY SecurityScanAssumption DEF applySecurityScan, Scans, Undisturbed
  <2>2. \A k \in Scans : n < k => scan[k].pc = "idle"
    BY <1>1 DEF LeftInv, OneAtATime
  <2>3. \A k \in Scans : scan[k].pc = "idle" => ctr[k] \in Gone
    BY DEF LeftInv, Place, Early, Late, Finalizing, Gone
  <2>4. \A k \in Scans \ {n} : (k < n \/ n < k) /\ ~(k < n /\ n < k)
    BY SecurityScanAssumption DEF Scans
  <2> QED
    BY <2>1, <2>2, <2>3, <2>4 DEF Rest
<1>4. \A k \in Scans : Succeeded(k) => used[k] \subseteq config'.bounding
  BY <1>1 DEF FitInv, Granted
<1>5. ASSUME NEW r \in ScanRecords, scan' = [scan EXCEPT ![n] = r], r.pc # "idle", Fit(n)', NamedAtRest'
      PROVE  FitInv'
  <2>1. Beside(n)
    BY <1>1, <1>3, <1>5 DEF Beside
  <2>2. \A k \in Scans \ {n} : Fit(k)'
    BY <1>4, <2>1, FitOthers
  <2>3. \A e \in audit' : scan'[e.at].pc # "idle"
    BY <1>1, <1>5 DEF FitInv, TypeOK
  <2>4. config'.bounding \subseteq config'.others
    BY <1>1 DEF FitInv
  <2> QED
    BY <1>5, <2>2, <2>3, <2>4 DEF FitInv, Fit
<1>6. CASE /\ scan' = [scan EXCEPT ![n].pc = "done", ![n].err = TRUE]
           /\ UNCHANGED <<profile, loaded>>
  <2> DEFINE r == [scan[n] EXCEPT !.pc = "done", !.err = TRUE]
  <2>1. r \in ScanRecords /\ r.pc = "done" /\ r.err /\ r.mode = scan[n].mode
    BY <1>1 DEF ScanRecords
  <2>2. scan' = [scan EXCEPT ![n] = r]
    BY <1>1, <1>6 DEF ScanRecords
  <2> HIDE DEF r
  <2>3. scan'[n] = r
    BY <1>1, <2>2
  <2>4. Smooth(n)'
    BY <1>1, <1>2, <2>1, <2>3 DEF Fit, Smooth
  <2>5. Seen(n)'
    BY <1>1, <1>2 DEF Fit, Seen, parseCapsFromFile
  <2>6. Granted(n)' /\ Ruled(n)' /\ Named(n)'
    BY <1>1, <1>2, <2>1, <2>3 DEF Granted, Ruled, Named, Succeeded, Gone
  <2>7. NamedAtRest'
    <3>1. config.apparmor \in {None, profile.name}
      BY <1>1, <1>3 DEF FitInv, NamedAtRest, Rest
    <3> QED
      BY <1>1, <1>6, <3>1 DEF NamedAtRest
  <2> QED
    BY <1>5, <2>1, <2>2, <2>4, <2>5, <2>6, <2>7 DEF Fit
<1>7. CASE /\ profile' = buildAppArmorProfileSource(ProfileName[i])
           /\ scan' = [scan EXCEPT ![n] = [@ EXCEPT !.pc = "create", !.id = i, !.mode = m,
                         !.spec.apparmor = IF AAEnabled THEN ProfileName[i] ELSE config.apparmor]]
  <2> DEFINE name == ProfileName[i]
             r == [scan[n] EXCEPT !.pc = "create", !.id = i, !.mode = m, !.spec.apparmor = name]
  <2>1. name \in Names /\ m = "foreground" /\ AAEnabled
    BY SecurityScanAssumption DEF Undisturbed
  <2>2. profile'.name = name /\ profile'.rules = {}
    BY <1>7 DEF buildAppArmorProfileSource
  <2>3. scan' = [scan EXCEPT ![n] = r]
    BY <1>1, <1>7, <2>1
  <2>4. [scan[n].spec EXCEPT !.apparmor = name] \in Specs
    BY <1>1, <2>1 DEF ScanRecords, Specs
  <2> HIDE DEF name
  <2>5. /\ r \in ScanRecords /\ r.pc = "create" /\ r.err = scan[n].err /\ r.mode = "foreground"
        /\ r.spec = [scan[n].spec EXCEPT !.apparmor = name]
    BY <1>1, <2>1, <2>4 DEF ScanRecords
  <2>6. r.spec.apparmor = name
    BY <1>1, <2>5 DEF ScanRecords, Specs
  <2> HIDE DEF r
  <2>7. scan'[n] = r
    BY <1>1, <2>3
  <2>8. Smooth(n)'
    BY <1>1, <1>2, <2>5, <2>7 DEF Fit, Smooth, Finalizing
  <2>9. Seen(n)'
    BY <1>1, <1>2 DEF Fit, Seen, parseCapsFromFile
  <2>10. Granted(n)' /\ Ruled(n)'
    BY <1>1, <1>2, <2>2, <2>5, <2>7 DEF Granted, Ruled, Succeeded, At, Gone
  <2>11. Named(n)'
    BY <2>1, <2>2, <2>5, <2>6, <2>7 DEF Named
  <2>12. NamedAtRest'
    BY <2>5, <2>7 DEF NamedAtRest
  <2> QED
    BY <1>5, <2>3, <2>5, <2>8, <2>9, <2>10, <2>11, <2>12 DEF Fit
<1> QED
  BY <1>6, <1>7 DEF applySecurityScan

(* The container is created and the profile goes into the kernel.          *)
LEMMA LoadFit ==
  ASSUME Undisturbed, LeftInv, FitInv, TypeOK, NEW n \in Scans, createContainer(n) \/ runScanAALoad(n)
  PROVE  FitInv'
<1>1. /\ scan[n].pc \in {"create", "load"} /\ scan[n] \in ScanRecords
      /\ scan \in [Scans -> ScanRecords] /\ profile \in Profiles
      /\ UNCHANGED <<config, profile, log, audit, tracer, unread, used>>
  BY DEF createContainer, runScanAALoad, At, TypeOK, files, kernel
<1>2. Busy(n) /\ Fit(n) /\ ~scan[n].err
  BY <1>1 DEF Busy, FitInv, Fit, Smooth
<1>3. Rest(n) /\ Latest(n)
  BY <1>2, BusyRest, BusyLatest
<1>4. \/ /\ createContainer(n) /\ Goto(n, "load") /\ Container(n, "created")
         /\ UNCHANGED <<stamp, loaded>>
      \/ /\ runScanAALoad(n) /\ Goto(n, "start") /\ stamp' = n /\ loaded' = parser(TRUE)
         /\ UNCHANGED ctr
  <2>1. CASE createContainer(n)
    BY <1>3, <2>1 DEF Rest, createContainer, files, kernel
  <2>2. CASE runScanAALoad(n)
    BY <2>2 DEF runScanAALoad, BestEffort, Undisturbed
  <2> QED
    BY <2>1, <2>2
<1>5. /\ scan'[n].mode = scan[n].mode /\ scan'[n].err = scan[n].err /\ scan'[n].spec = scan[n].spec
      /\ scan'[n].pc \in {"load", "start"}
      /\ \A k \in Scans \ {n} : scan'[k] = scan[k] /\ ctr'[k] = ctr[k]
  <2>1. \A k \in Scans \ {n} : ctr'[k] = ctr[k]
    BY <1>4 DEF Container, TypeOK
  <2>2. ASSUME NEW l \in {"load", "start"}, Goto(n, l)
        PROVE  /\ scan'[n].mode = scan[n].mode /\ scan'[n].err = scan[n].err
               /\ scan'[n].spec = scan[n].spec /\ scan'[n].pc = l
               /\ \A k \in Scans \ {n} : scan'[k] = scan[k]
    BY <1>1, <2>2 DEF Goto, ScanRecords
  <2> QED
    BY <1>4, <2>1, <2>2
<1>6. ctr'[n] = "created" /\ tracer[n] = "none"
  <2>1. Place(n)
    BY DEF LeftInv
  <2>2. tracer[n] = "none" /\ (scan[n].pc = "load" => ctr[n] = "created")
    BY <1>1, <2>1 DEF Place, Late, Finalizing
  <2>3. CASE createContainer(n)
    BY <1>1, <1>4, <2>2, <2>3 DEF createContainer, runScanAALoad, At, Container, TypeOK
  <2>4. CASE runScanAALoad(n)
    BY <1>1, <1>4, <2>2, <2>4 DEF createContainer, runScanAALoad, At
  <2> QED
    BY <1>4, <2>3, <2>4
<1>7. /\ Goto(n, "load") => scan'[n].pc = "load"
      /\ Goto(n, "start") => scan'[n].pc = "start"
  BY <1>1 DEF Goto, ScanRecords
<1>8. Smooth(n)'
  BY <1>1, <1>2, <1>5, <1>6 DEF Fit, Smooth, Finalizing
<1>9. Seen(n)'
  BY <1>1, <1>2 DEF Fit, Seen, parseCapsFromFile
<1>10. Granted(n)'
  BY <1>5 DEF Granted, Succeeded, At
<1>11. Ruled(n)'
  <2>1. profile.rules \subseteq {n} \X Denials
    BY <1>1, <1>2, <1>3 DEF Fit, Ruled
  <2>2. scan'[n].pc = "load" \/ stamp' = n
    BY <1>4, <1>7
  <2> QED
    BY <1>1, <2>1, <2>2 DEF Ruled
<1>12. Named(n)'
  <2>1. scan[n].spec.apparmor = profile.name /\ profile.name \in Names
    BY <1>1, <1>2 DEF Fit, Named
  <2>2. CASE scan'[n].pc = "load"
    BY <1>1, <1>5, <2>1, <2>2 DEF Named
  <2>3. CASE scan'[n].pc = "start"
    <3>1. loaded' = parser(TRUE)
      BY <1>4, <1>7, <2>3
    <3>2. profile # NoProfile
      BY <2>1, SecurityScanAssumption DEF NoProfile
    <3>3. loaded'[profile.name] = profile
      BY <2>1, <3>1, <3>2 DEF parser, TypeOK
    <3> QED
      BY <1>1, <1>5, <2>1, <2>3, <3>2, <3>3 DEF Named
  <2> QED
    BY <1>5, <2>2, <2>3
<1>13. Beside(n)
  BY <1>1, <1>3, <1>5 DEF Beside
<1> QED
  BY <1>1, <1>5, <1>8, <1>9, <1>10, <1>11, <1>12, <1>13, FitStep DEF Fit

(* A container that is not gone belongs to a scan that has not failed and  *)
(* has not been finalized.                                                 *)
LEMMA HeldIsBusy ==
  ASSUME LeftInv, FitInv, TypeOK, NEW n \in Scans, ctr[n] \in Held \cup {"stopped"}
  PROVE  Busy(n) /\ Fit(n) /\ ~scan[n].err /\ scan[n].pc \in {"forward", "destroy"}
<1>1. Place(n) /\ Smooth(n) /\ Fit(n)
  BY DEF LeftInv, FitInv, Fit
<1>2. scan[n].pc \in Late
  BY <1>1 DEF Place, Held
<1>3. ~scan[n].err
  BY <1>1 DEF Smooth, Held
<1>4. scan[n].pc \in {"forward", "destroy"}
  BY <1>1, <1>2, <1>3 DEF Smooth, Held, Late
<1> QED
  BY <1>1, <1>3, <1>4 DEF Busy

(* init finds its profile, the tracer starts, the run waits for the exit.  *)
LEMMA ForwardFit ==
  ASSUME Undisturbed, LeftInv, FitInv, TypeOK, NEW n \in Scans,
         ApplyProfile(n) \/ runScanCapTraceStart(n) \/ forward(n)
  PROVE  FitInv'
<1>1. /\ scan[n].pc \in {"start", "poststart", "forward"} /\ scan[n] \in ScanRecords
      /\ scan \in [Scans -> ScanRecords]
      /\ UNCHANGED <<config, profile, log, stamp, audit, unread, used>>
  BY DEF ApplyProfile, runScanCapTraceStart, forward, At, TypeOK, files, kernel
<1>2. Busy(n) /\ Fit(n) /\ ~scan[n].err /\ Place(n) /\ Smooth(n) /\ scan[n].mode = "foreground"
  BY <1>1 DEF Busy, FitInv, LeftInv, Fit, Smooth
<1>3. ASSUME NEW l \in {"poststart", "forward", "destroy"}, Goto(n, l)
      PROVE  /\ scan'[n].mode = scan[n].mode /\ scan'[n].err = scan[n].err /\ scan'[n].pc = l
             /\ \A k \in Scans \ {n} : scan'[k] = scan[k]
  BY <1>1, <1>3 DEF Goto, ScanRecords
<1>4. CASE ApplyProfile(n)
  <2>1. scan[n].pc = "start" /\ scan[n].spec.apparmor \in Names /\ loaded[scan[n].spec.apparmor] # NoProfile
    BY <1>2, <1>4 DEF ApplyProfile, At, Fit, Named
  <2>2. Goto(n, "poststart") /\ UNCHANGED <<ctr, tracer>>
    BY <1>4, <2>1, SecurityScanAssumption DEF ApplyProfile, Undisturbed
  <2>3. ctr[n] = "created" /\ tracer[n] = "none"
    BY <1>2, <2>1 DEF Place, Late, Finalizing
  <2> QED
    BY <1>1, <1>2, <1>3, <2>1, <2>2, <2>3, FitMove
<1>5. CASE runScanCapTraceStart(n)
  <2>1. /\ scan[n].pc = "poststart" /\ Goto(n, "forward") /\ Container(n, "running")
        /\ tracer' = [tracer EXCEPT ![n] = "tracing"]
    BY <1>5 DEF runScanCapTraceStart, At, Undisturbed
  <2>2. ctr[n] = "created" /\ tracer[n] = "none"
    BY <1>2, <2>1 DEF Place, Late, Finalizing
  <2>3. /\ ctr'[n] = "running" /\ tracer'[n] = "tracing"
        /\ \A k \in Scans \ {n} : ctr'[k] = ctr[k] /\ tracer'[k] = tracer[k]
    BY <2>1 DEF Container, TypeOK
  <2> QED
    BY <1>1, <1>2, <1>3, <2>1, <2>2, <2>3, FitMove DEF Gone
<1>6. CASE forward(n)
  <2>1. scan[n].pc = "forward" /\ Goto(n, "destroy") /\ ctr[n] = "exited" /\ UNCHANGED <<ctr, tracer>>
    BY <1>2, <1>6 DEF forward, At, Undisturbed
  <2> QED
    BY <1>1, <1>2, <1>3, <2>1, FitMove DEF Smooth, Gone
<1> QED
  BY <1>4, <1>5, <1>6

(* The container exits, and its tracer is told to stop and is waited for.  *)
LEMMA StopFit ==
  ASSUME Undisturbed, LeftInv, FitInv, TypeOK, NEW n \in Scans,
         ContainerExit(n) \/ runScanCapTraceStop(n) \/ scanCapTraceStopWait(n)
  PROVE  FitInv'
<1>1. /\ ctr[n] \in Held /\ scan[n] \in ScanRecords
      /\ scan \in [Scans -> ScanRecords]
      /\ UNCHANGED <<config, profile, log, stamp, audit, unread, used>>
  BY DEF ContainerExit, runScanCapTraceStop, scanCapTraceStopWait, TypeOK, Held, kernel
<1>2. /\ Busy(n) /\ Fit(n) /\ ~scan[n].err /\ scan[n].pc \in {"forward", "destroy"}
      /\ Place(n) /\ Smooth(n)
  BY <1>1, HeldIsBusy DEF LeftInv, Fit
<1>3. CASE ContainerExit(n)
  <2>1. /\ ctr[n] = "running" /\ ctr'[n] = "exited" /\ UNCHANGED <<scan, tracer>>
        /\ \A k \in Scans \ {n} : ctr'[k] = ctr[k]
    BY <1>3 DEF ContainerExit, Container, TypeOK
  <2> QED
    BY <1>1, <1>2, <2>1, FitMove DEF Smooth, Gone
<1>4. CASE runScanCapTraceStop(n)
  <2>1. ctr[n] = "exited" /\ tracer[n] = "tracing" /\ pidfile = n
    BY <1>2, <1>4 DEF runScanCapTraceStop, Smooth, Place
  <2>2. n # 0
    BY SecurityScanAssumption DEF Scans
  <2>3. /\ tracer' = [tracer EXCEPT ![n] = "terminating"] /\ scan' = [scan EXCEPT ![n].pid = n]
        /\ Container(n, "stopping")
    BY <1>4, <2>1, <2>2 DEF runScanCapTraceStop, Alive
  <2>4. /\ scan'[n].mode = scan[n].mode /\ scan'[n].err = scan[n].err /\ scan'[n].pc = scan[n].pc
        /\ \A k \in Scans \ {n} : scan'[k] = scan[k]
    BY <1>1, <2>3 DEF ScanRecords
  <2>5. /\ tracer'[n] = "terminating" /\ ctr'[n] = "stopping"
        /\ \A k \in Scans \ {n} : tracer'[k] = tracer[k] /\ ctr'[k] = ctr[k]
    BY <2>3 DEF Container, TypeOK
  <2> QED
    BY <1>1, <1>2, <2>1, <2>4, <2>5, FitMove DEF Gone
<1>5. CASE scanCapTraceStopWait(n)
  <2>1. /\ ctr[n] = "stopping" /\ scan[n].pid = n
    BY <1>2, <1>5 DEF scanCapTraceStopWait, Place
  <2>2. tracer[n] = "gone" /\ UNCHANGED <<tracer, scan>>
    BY <1>5, <2>1 DEF scanCapTraceStopWait, Undisturbed
  <2>3. ctr'[n] = "stopped" /\ \A k \in Scans \ {n} : ctr'[k] = ctr[k]
    BY <1>5 DEF scanCapTraceStopWait, Stopped, Container, TypeOK
  <2> QED
    BY <1>1, <1>2, <2>1, <2>2, <2>3, FitMove DEF Gone
<1> QED
  BY <1>3, <1>4, <1>5

(* What a tracer writes into the log can be read from it.                  *)
LEMMA FlushIsRead ==
  ASSUME NEW n \in Scans, log' = log \cup ({n} \X unread[n])
  PROVE  parseCapsFromFile \cup unread[n] \subseteq parseCapsFromFile'
<1>1. ASSUME NEW c \in unread[n] PROVE c \in parseCapsFromFile'
  <2>1. <<n, c>> \in log' /\ <<n, c>>[2] = c
    OBVIOUS
  <2> QED
    BY <2>1 DEF parseCapsFromFile
<1>2. parseCapsFromFile \subseteq parseCapsFromFile'
  BY DEF parseCapsFromFile
<1> QED
  BY <1>1, <1>2

(* What the container needs reaches the log by way of its tracer.          *)
LEMMA TraceFit ==
  ASSUME Undisturbed, LeftInv, FitInv, TypeOK, NEW n \in Scans,
         Tracer(n) \/ \E c \in Caps : CapCheck(n, c)
  PROVE  FitInv'
<1>1. /\ Place(n) /\ Smooth(n) /\ Seen(n) /\ Fit(n)
      /\ UNCHANGED <<config, profile, stamp, audit, loaded, scan, ctr>>
  BY DEF LeftInv, FitInv, Fit, Tracer, TracerAttach, TracerFlush, TracerTerminates, TracerKilled,
     CapCheck, files, kernel
<1>2. ctr[n] \in Held
  <2>1. CASE Tracer(n)
    BY <1>1, <2>1 DEF Place, Smooth, Held, Tracer, TracerAttach, TracerFlush, TracerTerminates, TracerKilled
  <2>2. CASE \E c \in Caps : CapCheck(n, c)
    BY <2>2 DEF CapCheck, Held
  <2> QED
    BY <2>1, <2>2
<1>3. Busy(n) /\ ~scan[n].err /\ scan[n].pc \in {"forward", "destroy"}
  BY <1>2, HeldIsBusy
<1>4. /\ \A k \in Scans \ {n} : tracer'[k] = tracer[k] /\ unread'[k] = unread[k] /\ used'[k] = used[k]
      /\ log \subseteq log' /\ tracer'[n] # "killed"
      /\ ctr[n] \in {"running", "exited"} => tracer'[n] = "tracing"
      /\ Seen(n)'
  <2>1. CASE TracerAttach(n) \/ TracerKilled(n)
    BY <1>1, <2>1 DEF TracerAttach, TracerKilled, Place, Smooth
  <2>2. CASE TracerFlush(n)
    <3>1. /\ log' = log \cup ({n} \X unread[n]) /\ unread' = [unread EXCEPT ![n] = {}]
          /\ UNCHANGED <<tracer, used>>
      BY <2>2 DEF TracerFlush
    <3>2. parseCapsFromFile \cup unread[n] \subseteq parseCapsFromFile'
      BY <3>1, FlushIsRead
    <3> QED
      BY <1>1, <3>1, <3>2 DEF Seen, Smooth, TypeOK
  <2>3. CASE TracerTerminates(n)
    <3>1. /\ log' = log \cup ({n} \X unread[n]) /\ unread' = [unread EXCEPT ![n] = {}]
          /\ UNCHANGED used /\ tracer[n] = "terminating" /\ tracer' = [tracer EXCEPT ![n] = "gone"]
      BY <2>3 DEF TracerTerminates
    <3>2. parseCapsFromFile \cup unread[n] \subseteq parseCapsFromFile'
      BY <3>1, FlushIsRead
    <3> QED
      BY <1>1, <3>1, <3>2 DEF Seen, Smooth, TypeOK
  <2>4. ASSUME NEW c \in Caps, CapCheck(n, c)
        PROVE  /\ \A k \in Scans \ {n} : /\ tracer'[k] = tracer[k] /\ unread'[k] = unread[k]
                                         /\ used'[k] = used[k]
               /\ log \subseteq log' /\ tracer'[n] # "killed"
               /\ ctr[n] \in {"running", "exited"} => tracer'[n] = "tracing"
               /\ Seen(n)'
    <3>1. /\ ctr[n] = "running" /\ tracer[n] = "tracing" /\ UNCHANGED <<log, tracer>>
          /\ used' = [used EXCEPT ![n] = @ \cup {c}] /\ unread' = [unread EXCEPT ![n] = @ \cup {c}]
      BY <1>1, <2>4 DEF CapCheck, Smooth, files
    <3> QED
      BY <1>1, <3>1 DEF Seen, Smooth, TypeOK, parseCapsFromFile
  <2> QED
    BY <2>1, <2>2, <2>3, <2>4 DEF Tracer
<1>5. Beside(n)
  BY <1>1, <1>3, <1>4, BusyRest DEF Beside, Busy
<1>6. Smooth(n)'
  BY <1>1, <1>4 DEF Smooth
<1>7. Granted(n)'
  BY <1>1, <1>3 DEF Granted, Succeeded, At
<1>8. Ruled(n)'
  BY <1>1 DEF Fit, Ruled, Latest, At
<1>9. Named(n)'
  BY <1>1 DEF Fit, Named
<1> QED
  BY <1>1, <1>3, <1>4, <1>5, <1>6, <1>7, <1>8, <1>9, FitStep DEF Fit

(* scan-aa-unload collects only events of the scan itself.                 *)
LEMMA CollectedAreOwn ==
  ASSUME Undisturbed, FitInv, TypeOK, NEW n \in Scans, Rest(n), stamp = n, NEW src \in AuditSources
  PROVE  buildAppArmorRulesFromDenials(parseApparmorDenials(src)) \subseteq {n} \X Denials
<1> SUFFICES ASSUME NEW e \in readKernelAudit(src) PROVE e.at = n /\ e.what \in Denials
  BY DEF buildAppArmorRulesFromDenials, parseApparmorDenials
<1>1. e \in audit /\ (stamp = 0 \/ e.at >= stamp - Offset)
  BY SecurityScanAssumption DEF readKernelAudit, Undisturbed
<1>2. e.at \in Scans /\ e.what \in Denials /\ scan[e.at].pc # "idle"
  BY <1>1 DEF FitInv, TypeOK
<1>3. e.at >= n
  BY <1>1, <1>2, SecurityScanAssumption DEF Undisturbed, Scans
<1>4. ~(n < e.at)
  BY <1>2, SecurityScanAssumption DEF Rest, Scans
<1> QED
  BY <1>2, <1>3, <1>4, SecurityScanAssumption DEF Scans

(* The profile leaves the kernel with the container.                       *)
LEMMA UnloadFit ==
  ASSUME Undisturbed, LeftInv, FitInv, TypeOK, NEW n \in Scans, runScanAAUnload(n) PROVE FitInv'
<1>1. /\ ctr[n] = "stopped" /\ scan[n] \in ScanRecords /\ scan \in [Scans -> ScanRecords]
      /\ profile \in Profiles
      /\ UNCHANGED <<config, log, stamp, audit, tracer, unread, used>>
  BY DEF runScanAAUnload, TypeOK
<1>2. /\ Busy(n) /\ Fit(n) /\ ~scan[n].err /\ scan[n].pc \in {"forward", "destroy"}
      /\ Rest(n) /\ Latest(n)
  BY <1>1, HeldIsBusy, BusyRest, BusyLatest
<1>3. /\ scan'[n].mode = scan[n].mode /\ ~scan'[n].err
      /\ scan'[n].pc = IF scan[n].pc = "destroy" THEN "backup" ELSE "forward"
      /\ \A k \in Scans \ {n} : scan'[k] = scan[k] /\ ctr'[k] = ctr[k]
      /\ ctr'[n] = "destroyed"
  BY <1>1, <1>2 DEF runScanAAUnload, AfterDestroy, At, Goto, Container, TypeOK, ScanRecords
<1>4. profile'.rules \subseteq {n} \X Denials
  <2>1. profile.rules \subseteq {n} \X Denials /\ stamp = n
    BY <1>1, <1>2 DEF Fit, Ruled, Gone
  <2>2. PICK src \in AuditSources :
          profile' = appendAuditRulesToProfile(buildAppArmorRulesFromDenials(parseApparmorDenials(src)))
    BY DEF runScanAAUnload, Undisturbed
  <2>3. buildAppArmorRulesFromDenials(parseApparmorDenials(src)) \subseteq {n} \X Denials
    BY <1>2, <2>1, CollectedAreOwn
  <2> QED
    BY <1>1, <2>1, <2>2, <2>3 DEF appendAuditRulesToProfile, Profiles
<1>5. Smooth(n)'
  BY <1>1, <1>2, <1>3 DEF Fit, Smooth, Finalizing
<1>6. Seen(n)'
  BY <1>1, <1>2 DEF Fit, Seen, parseCapsFromFile
<1>7. Granted(n)' /\ Named(n)'
  BY <1>3 DEF Granted, Named, Succeeded, At
<1>8. Ruled(n)'
  BY <1>3, <1>4 DEF Ruled, Gone
<1>9. Beside(n)
  BY <1>1, <1>2, <1>3 DEF Beside
<1> QED
  BY <1>1, <1>3, <1>5, <1>6, <1>7, <1>8, <1>9, FitStep DEF Fit

(* The kernel reports an event of the container that runs.                 *)
LEMMA DenyFit ==
  ASSUME LeftInv, FitInv, TypeOK, NEW n \in Scans, NEW d \in Denials, Deny(n, d) PROVE FitInv'
<1>1. /\ UNCHANGED <<config, profile, log, stamp, loaded, scan, ctr, tracer, unread, used>>
      /\ audit' = audit \cup {[at |-> n, name |-> Name(n), what |-> d]} /\ ctr[n] \in Held
  BY DEF Deny, files, Held
<1>2. scan[n].pc # "idle"
  BY <1>1, HeldIsBusy
<1>3. \A e \in audit' : scan'[e.at].pc # "idle"
  BY <1>1, <1>2 DEF FitInv
<1>4. ASSUME NEW k \in Scans PROVE Fit(k)'
  <2>1. Fit(k)
    BY DEF FitInv, Fit
  <2> QED
    BY <1>1, <2>1 DEF Fit, Smooth, Seen, Granted, Ruled, Named, Succeeded, Latest, At, parseCapsFromFile
<1>5. (config.bounding \subseteq config.others)' /\ NamedAtRest'
  BY <1>1 DEF FitInv, NamedAtRest
<1> QED
  BY <1>3, <1>4, <1>5 DEF FitInv, Fit

(* While a scan is finalized, all that any container was checked for is in *)
(* the log: every tracer has ended.                                        *)
LEMMA LogIsComplete ==
  ASSUME LeftInv, FitInv, NEW n \in Scans, Rest(n), ctr[n] = "destroyed", NEW k \in Scans
  PROVE  used[k] \subseteq parseCapsFromFile
<1>1. Place(k) /\ Smooth(k) /\ Seen(k) /\ ctr[k] \in Gone
  BY DEF LeftInv, FitInv, Rest, Gone
<1>2. tracer[k] \notin {"tracing", "terminating"}
  BY <1>1 DEF Place, Gone
<1> QED
  BY <1>1, <1>2 DEF Seen

(* finalizeSecurityScan up to the new config.json.                         *)
LEMMA FinalizeFit ==
  ASSUME Undisturbed, LeftInv, FitInv, TypeOK, NEW n \in Scans,
         backupStat(n) \/ backupCopy(n) \/ readAndNarrow(n) \/ applyGeneratedAppArmor(n)
  PROVE  FitInv'
<1>1. /\ scan[n].pc \in {"backup", "copy", "read", "apparmor"} /\ scan[n] \in ScanRecords
      /\ scan \in [Scans -> ScanRecords] /\ profile \in Profiles /\ config \in Specs
      /\ UNCHANGED <<config, log, stamp, audit, ctr, tracer, unread, used>>
  BY DEF backupStat, backupCopy, readAndNarrow, applyGeneratedAppArmor, At, TypeOK, files, kernel
<1>2. /\ Busy(n) /\ Fit(n) /\ Rest(n) /\ Latest(n) /\ ~scan[n].err /\ ctr[n] = "destroyed"
      /\ Smooth(n)
  BY <1>1, BusyRest, BusyLatest DEF Busy, FitInv, Fit, Smooth, Finalizing
<1>3. CASE backupStat(n) \/ backupCopy(n)
  <2>1. UNCHANGED profile /\ (Goto(n, "copy") \/ Goto(n, "read"))
    BY <1>3 DEF backupStat, backupCopy, Undisturbed, files
  <2>2. /\ scan'[n].mode = scan[n].mode /\ scan'[n].err = scan[n].err
        /\ scan'[n].pc \in {"copy", "read"} /\ \A k \in Scans \ {n} : scan'[k] = scan[k]
    BY <1>1, <2>1 DEF Goto, ScanRecords
  <2>3. tracer[n] \notin {"tracing", "terminating", "killed"}
    BY <1>2 DEF LeftInv, Place, Smooth
  <2> QED
    BY <1>1, <1>2, <2>1, <2>2, <2>3, FitMove DEF Gone
<1>4. ASSUME NEW s \in Specs, NEW c \in BOOLEAN, NEW l \in {"apparmor", "write"},
             scan' = [scan EXCEPT ![n] = [scan[n] EXCEPT !.pc = l, !.spec = s, !.changed = c]],
             parseCapsFromFile \subseteq s.bounding, s.bounding \subseteq s.others,
             c \/ parseCapsFromFile \subseteq config.bounding,
             l = "apparmor" => s.apparmor = config.apparmor,
             l = "write" => s.apparmor = profile'.name /\ (c \/ config.apparmor = profile'.name),
             profile'.rules = profile.rules
      PROVE  FitInv'
  <2>1. /\ scan'[n].mode = scan[n].mode /\ scan'[n].err = scan[n].err /\ scan'[n].pc = l
        /\ scan'[n].spec = s /\ scan'[n].changed = c
        /\ \A k \in Scans \ {n} : scan'[k] = scan[k]
    BY <1>1, <1>4 DEF ScanRecords
  <2>2. Smooth(n)'
    BY <1>1, <1>2, <2>1 DEF Smooth, Finalizing
  <2>3. Seen(n)'
    BY <1>1, <1>2 DEF Fit, Seen, parseCapsFromFile
  <2>4. Granted(n)'
    BY <1>1, <1>4, <2>1 DEF Granted, Succeeded, At, parseCapsFromFile
  <2>5. Ruled(n)'
    BY <1>1, <1>2, <1>4, <2>1 DEF Fit, Ruled, Gone
  <2>6. Named(n)'
    BY <1>1, <1>4, <2>1 DEF Named
  <2>7. Beside(n)
    BY <1>1, <1>2, <2>1 DEF Beside
  <2> QED
    BY <1>1, <2>1, <2>2, <2>3, <2>4, <2>5, <2>6, <2>7, FitStep DEF Fit
<1>5. CASE readAndNarrow(n)
  <2> DEFINE s == applyGeneratedSeccomp(narrowCapabilitiesFromTrace(config))
             c == config.bounding # parseCapsFromFile \/ secfile # 0
  <2>1. scan' = [scan EXCEPT ![n] = [scan[n] EXCEPT !.pc = "apparmor", !.spec = s, !.changed = c]]
        /\ profile' = profile
    BY <1>5 DEF readAndNarrow, files
  <2>2. s \in Specs /\ c \in BOOLEAN /\ (c \/ parseCapsFromFile \subseteq config.bounding)
    BY NarrowedType
  <2>3. config.bounding \subseteq config.others
    BY DEF FitInv
  <2>4. /\ s.bounding = parseCapsFromFile /\ s.bounding \subseteq s.others
        /\ s.apparmor = config.apparmor
    BY <1>1, <2>3 DEF applyGeneratedSeccomp, narrowCapabilitiesFromTrace, Specs
  <2> HIDE DEF s, c
  <2> QED
    BY <1>4, <2>1, <2>2, <2>4
<1>6. CASE applyGeneratedAppArmor(n)
  <2> DEFINE s == [scan[n].spec EXCEPT !.apparmor = profile.name]
             c == scan[n].changed \/ scan[n].spec.apparmor # profile.name
  <2>1. scan[n].pc = "apparmor" /\ nameProfile(n)
    BY <1>6 DEF applyGeneratedAppArmor, At
  <2>2. profile'.name = profile.name /\ profile'.rules = profile.rules
    BY <1>1, <1>6 DEF applyGeneratedAppArmor, flipApparmorComplainToEnforce, Profiles
  <2>3. scan[n].spec \in Specs /\ scan[n].changed \in BOOLEAN /\ profile.name \in Names \cup {None}
    BY <1>1 DEF ScanRecords, Profiles
  <2>4. /\ s \in Specs /\ s.bounding = scan[n].spec.bounding /\ s.others = scan[n].spec.others
        /\ s.apparmor = profile.name
    BY <2>3 DEF Specs
  <2>5. /\ parseCapsFromFile \subseteq scan[n].spec.bounding
        /\ scan[n].spec.bounding \subseteq scan[n].spec.others
        /\ scan[n].changed \/ parseCapsFromFile \subseteq config.bounding
        /\ scan[n].spec.apparmor = config.apparmor
    BY <1>2, <2>1 DEF Fit, Granted, Named
  <2>6. c \in BOOLEAN /\ (c \/ parseCapsFromFile \subseteq config.bounding)
        /\ (c \/ config.apparmor = profile'.name)
    BY <2>2, <2>3, <2>5
  <2>7. scan' = [scan EXCEPT ![n] = [scan[n] EXCEPT !.pc = "write", !.spec = s, !.changed = c]]
    BY <1>1, <2>1, <2>3 DEF nameProfile, ScanRecords, Specs
  <2> HIDE DEF s, c
  <2> QED
    BY <1>4, <2>2, <2>4, <2>5, <2>6, <2>7
<1> QED
  BY <1>3, <1>5, <1>6

(* The new config.json grants what every scan so far has used, and names   *)
(* the profile in the file.                                                *)
LEMMA WriteFit ==
  ASSUME Undisturbed, LeftInv, FitInv, TypeOK, NEW n \in Scans, writeConfig(n) PROVE FitInv'
<1>1. /\ scan[n].pc = "write" /\ scan[n] \in ScanRecords /\ scan \in [Scans -> ScanRecords]
      /\ config' = (IF scan[n].changed THEN scan[n].spec ELSE config)
      /\ UNCHANGED <<profile, log, stamp, audit, loaded, ctr, tracer, unread, used>>
  BY DEF writeConfig, At, TypeOK, kernel, Undisturbed
<1>2. /\ Busy(n) /\ Fit(n) /\ Rest(n) /\ Latest(n) /\ ~scan[n].err /\ ctr[n] = "destroyed"
  BY <1>1, BusyRest, BusyLatest DEF Busy, FitInv, Fit, Smooth, Finalizing
<1>3. /\ scan'[n].mode = scan[n].mode /\ scan'[n].err = scan[n].err /\ scan'[n].pc = "done"
      /\ \A k \in Scans \ {n} : scan'[k] = scan[k]
  BY <1>1 DEF writeConfig, Goto, ScanRecords
<1>4. /\ parseCapsFromFile \subseteq config'.bounding /\ config'.bounding \subseteq config'.others
      /\ config'.apparmor = profile.name
  BY <1>1, <1>2 DEF Fit, Granted, Named, FitInv
<1>5. \A k \in Scans : used[k] \subseteq config'.bounding
  BY <1>2, <1>4, LogIsComplete
<1>6. Beside(n)
  BY <1>1, <1>2, <1>3 DEF Beside
<1>7. \A k \in Scans \ {n} : Fit(k)'
  BY <1>5, <1>6, FitOthers
<1>8. Smooth(n)'
  BY <1>1, <1>2, <1>3 DEF Fit, Smooth
<1>9. Seen(n)'
  BY <1>1, <1>2 DEF Fit, Seen, parseCapsFromFile
<1>10. Granted(n)' /\ Named(n)'
  BY <1>1, <1>3, <1>5 DEF Granted, Named
<1>11. Ruled(n)'
  BY <1>1, <1>2, <1>3 DEF Fit, Ruled, Gone
<1>12. \A e \in audit' : scan'[e.at].pc # "idle"
  BY <1>1, <1>3 DEF FitInv, TypeOK
<1>13. NamedAtRest'
  BY <1>1, <1>4 DEF NamedAtRest
<1> QED
  BY <1>4, <1>7, <1>8, <1>9, <1>10, <1>11, <1>12, <1>13 DEF FitInv, Fit

(* A step that leaves alone all that the invariant is about, the kernel's  *)
(* profiles apart, which only matter while a scan starts its container.    *)
LEMMA FitFrame ==
  ASSUME FitInv,
         UNCHANGED <<config, profile, log, stamp, audit, scan, ctr, tracer, unread, used>>,
         UNCHANGED loaded \/ \A n \in Scans : scan[n].pc # "start"
  PROVE  FitInv'
<1>1. ASSUME NEW k \in Scans PROVE Fit(k)'
  <2>1. Fit(k)
    BY DEF FitInv, Fit
  <2> QED
    BY <2>1 DEF Fit, Smooth, Seen, Granted, Ruled, Named, Succeeded, Latest, At, parseCapsFromFile
<1> QED
  BY <1>1 DEF FitInv, Fit, NamedAtRest

(* Every step of undisturbed scans keeps the invariant.                    *)
LEMMA FitNext ==
  ASSUME Undisturbed, TypeOK, LeftInv, FitInv, [Next]_vars PROVE FitInv'
<1>1. ASSUME NEW n \in Scans, Run(n) PROVE FitInv'
  BY <1>1, BeginFit, LoadFit, ForwardFit, FinalizeFit, WriteFit DEF Run
<1>2. ASSUME NEW n \in Scans, Poststop(n) PROVE FitInv'
  BY <1>2, StopFit, UnloadFit DEF Poststop, DestroyFails, Undisturbed
<1>3. ASSUME NEW n \in Scans, Tracer(n) \/ Workload(n) PROVE FitInv'
  BY <1>3, TraceFit, DenyFit, StopFit DEF Workload
<1>4. CASE ensureGeneratedProfiles
  BY <1>4, FitFrame DEF ensureGeneratedProfiles, files
<1>5. CASE UNCHANGED vars
  BY <1>5, FitFrame DEF vars, files, kernel
<1> QED
  BY <1>1, <1>2, <1>3, <1>4, <1>5 DEF Next

(* finalizeSecurityScan: after any number of undisturbed scans config.json *)
(* grants what every one of them used, the rules come from the last one,   *)
(* and the profile that config.json names is the one the next run loads.   *)
THEOREM NextRunFitsTheorem == ASSUME Undisturbed PROVE Spec => []NextRunFits
<1>1. Spec => []LeftInv
  BY LeftInvariance DEF Undisturbed
<1>2. Init => FitInv
  <2> SUFFICES ASSUME Init PROVE FitInv
    OBVIOUS
  <2>1. \A n \in Scans : /\ scan[n].pc = "idle" /\ scan[n].mode = "foreground" /\ ~scan[n].err
                         /\ ctr[n] = "none" /\ tracer[n] = "none" /\ unread[n] = {} /\ used[n] = {}
    BY DEF Init, Idle
  <2>2. config = Original /\ audit = {} /\ Original.apparmor = None
    BY SecurityScanAssumption DEF Init
  <2>3. \A n \in Scans : Smooth(n) /\ Seen(n) /\ Granted(n) /\ Ruled(n) /\ Named(n)
    BY <2>1 DEF Smooth, Seen, Granted, Ruled, Named, Succeeded, At, Gone, Finalizing
  <2> QED
    BY <2>2, <2>3 DEF FitInv, NamedAtRest, Undisturbed
<1>3. TypeOK /\ LeftInv /\ FitInv /\ [Next]_vars => FitInv'
  BY FitNext
<1>4. TypeOK /\ FitInv => NextRunFits
  <2> SUFFICES ASSUME TypeOK, FitInv PROVE NextRunFits
    OBVIOUS
  <2>1. CapsCoverUse
    BY DEF CapsCoverUse, FitInv, Granted
  <2>2. RulesAreThisRuns
    BY DEF RulesAreThisRuns, FitInv, Ruled, Succeeded, At
  <2>3. NextRunStarts
    BY DEF NextRunStarts, Quiescent, FitInv, NamedAtRest, Undisturbed, scanProfileLoadDecision
  <2> QED
    BY <2>1, <2>2, <2>3 DEF NextRunFits
<1> QED
  BY <1>1, <1>2, <1>3, <1>4, TypeCorrect, PTL DEF Spec
=============================================================================
