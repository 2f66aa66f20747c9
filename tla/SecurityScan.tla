---------------------------- MODULE SecurityScan ----------------------------
(***************************************************************************)
(* runc run --security-scan on one bundle.  A scan rewrites the spec in    *)
(* memory, adds hooks (load an AppArmor profile, start and stop a tracer   *)
(* of capability checks, collect audit events), runs the container, and,   *)
(* when the run returns without error, narrows config.json to what it      *)
(* saw.  All scans of a bundle share the files under generated/.           *)
(* Lifecycle models the creation and the destruction of the container.     *)
(***************************************************************************)
EXTENDS Integers, FiniteSets

CONSTANTS
  Ids,           \* container ids
  Names,         \* AppArmor profile names
  None,          \* no profile name
  ProfileName,   \* securityScanAppArmorProfileName, not injective in the code
  Caps,          \* capabilities
  Original,      \* config.json before the first scan
  Denials,       \* what AppArmor may report: "file" and "capable" become rules,
                 \* "unhandled" becomes a comment
  MaxScans,      \* bound: scans ever run on the bundle
  Modes,         \* "foreground", "detach", "keep": flags of runc run
  Faults,        \* the operations that may fail
  AAEnabled,     \* apparmor.IsEnabled()
  AuditSources,  \* what readKernelAudit finds: "journalctl", "dmesg", "none"
  Offset,        \* local time minus UTC, in scans
  Overlap        \* scans of the bundle may overlap

Scans == 1..MaxScans
Specs == [bounding : SUBSET Caps, others : SUBSET Caps, seccomp : {0} \cup Scans,
          apparmor : Names \cup {None}]
AllFaults == {"tools", "parser", "start", "map", "spawn", "pidfile", "forward", "cgroup",
              "stubborn", "attach", "seccomp", "backup", "flip", "write"}

ASSUME SecurityScanAssumption ==
  /\ Ids # {} /\ None \notin Names
  /\ ProfileName \in [Ids -> Names]
  /\ MaxScans \in Nat
  /\ Original \in [bounding : SUBSET Caps, others : SUBSET Caps, seccomp : {0}, apparmor : {None}]
  /\ Denials \subseteq {"file", "capable", "unhandled"}
  /\ Modes \subseteq {"foreground", "detach", "keep"}
  /\ Faults \subseteq AllFaults
  /\ AAEnabled \in BOOLEAN /\ Overlap \in BOOLEAN
  /\ AuditSources \subseteq {"journalctl", "dmesg", "none"}
  /\ Offset \in Int

VARIABLES
  config,    \* config.json
  backup,    \* generated/spec.original.json: {} or {a spec}
  profile,   \* generated/apparmor.profile
  log,       \* generated/capable-bpfcc.log: who checked which capability
  secfile,   \* generated/seccomp.json: 0, or the scan that recorded it
  pidfile,   \* generated/.runc_cap_trace.pid: 0, or the scan whose tracer it names
  stamp,     \* generated/.runc_aa_started_at: 0, or the scan that wrote it
  loaded,    \* [Names -> the profile in the kernel's table]
  pins,      \* ids that have a pinned cgroup map on bpffs
  audit,     \* the kernel's audit log: when, for which profile, what
  scan,      \* [Scans -> the run command: id, mode, pc, error, tracer waited for,
             \*  spec in memory, whether finalize changed it]
  ctr,       \* [Scans -> its container]
  tracer,    \* [Scans -> its tracer process]
  unread,    \* [Scans -> events its tracer has not written yet]
  used       \* [Scans -> capabilities its container was checked for]

files == <<config, backup, profile, log, secfile, pidfile, stamp>>
kernel == <<loaded, pins, audit>>
vars == <<files, kernel, scan, ctr, tracer, unread, used>>

NoProfile == [name |-> None, mode |-> "none", rules |-> {}]
Profiles == [name : Names \cup {None}, mode : {"none", "complain", "enforce"},
             rules : SUBSET (Scans \X Denials)]
Idle == [id |-> CHOOSE i \in Ids : TRUE, mode |-> "foreground", pc |-> "idle",
         err |-> FALSE, pid |-> 0, spec |-> Original, changed |-> FALSE]

Init ==
  /\ config = Original /\ backup = {} /\ profile = NoProfile
  /\ log = {} /\ secfile = 0 /\ pidfile = 0 /\ stamp = 0
  /\ loaded = [x \in Names |-> NoProfile] /\ pins = {} /\ audit = {}
  /\ scan = [n \in Scans |-> Idle]
  /\ ctr = [n \in Scans |-> "none"]
  /\ tracer = [n \in Scans |-> "none"]
  /\ unread = [n \in Scans |-> {}] /\ used = [n \in Scans |-> {}]

Finalizing == {"backup", "copy", "read", "apparmor", "write"}
ScanRecords ==
  [id : Ids, mode : {"foreground", "detach", "keep"},
   pc : {"idle", "create", "load", "start", "poststart", "forward", "destroy", "done"} \cup Finalizing,
   err : BOOLEAN, pid : {0} \cup Scans, spec : Specs, changed : BOOLEAN]

At(n, l) == scan[n].pc = l
Goto(n, l) == scan' = [scan EXCEPT ![n].pc = l]
Name(n) == ProfileName[scan[n].id]
Container(n, s) == ctr' = [ctr EXCEPT ![n] = s]
Gone == {"none", "destroyed"}
Alive == {"attaching", "tracing", "terminating", "killed"}

-----------------------------------------------------------------------------
(* Setting up *)

(* apparmor_parser -r or -R on the file as it is now.                      *)
parser(add) ==
  IF profile = NoProfile THEN loaded
  ELSE [loaded EXCEPT ![profile.name] = IF add THEN profile ELSE NoProfile]

(* apparmor_parser may be missing or fail; nobody stops because of that.   *)
BestEffort(add) == \/ loaded' = parser(add)
                   \/ "parser" \in Faults /\ loaded' = loaded

(* buildAppArmorProfileSource: a stub that only reports.                   *)
buildAppArmorProfileSource(name) == [name |-> name, mode |-> "complain", rules |-> {}]

(* cleanupStaleAppArmorProfile: what the file names leaves the kernel.     *)
cleanupStaleAppArmorProfile == IF AAEnabled THEN BestEffort(FALSE) ELSE UNCHANGED loaded

(* A tool or a kernel feature the trace needs is missing.                  *)
requireCapTraceToolsFails == "tools" \in Faults

(* applySecurityScan: the tools are checked, then the profile an earlier   *)
(* scan left is unloaded and the file replaced by a stub in complain mode. *)
(* It runs before anybody asks whether the id is free.                     *)
applySecurityScan(n, i, m) ==
  /\ At(n, "idle")
  /\ \A k \in 1..(n - 1) : ~At(k, "idle")
  /\ Overlap \/ \A k \in 1..(n - 1) : scan[k].pc = "done" /\ ctr[k] \in Gone
  /\ \/ /\ requireCapTraceToolsFails
        /\ scan' = [scan EXCEPT ![n].pc = "done", ![n].err = TRUE]
        /\ UNCHANGED <<profile, loaded>>
     \/ /\ cleanupStaleAppArmorProfile
        /\ profile' = buildAppArmorProfileSource(ProfileName[i])
        /\ scan' = [scan EXCEPT ![n] = [@ EXCEPT !.pc = "create", !.id = i, !.mode = m,
                     !.spec.apparmor = IF AAEnabled THEN ProfileName[i] ELSE config.apparmor]]
  /\ UNCHANGED <<config, backup, log, secfile, pidfile, stamp, pins, audit, ctr, tracer, unread, used>>

(* createContainer: refused when the id is in use; the run ends there.     *)
createContainer(n) ==
  /\ At(n, "create")
  /\ IF \E k \in Scans \ {n} : ctr[k] \notin Gone /\ scan[k].id = scan[n].id
       THEN /\ scan' = [scan EXCEPT ![n].pc = "done", ![n].err = TRUE]
            /\ UNCHANGED ctr
       ELSE Goto(n, "load") /\ Container(n, "created")
  /\ UNCHANGED <<files, kernel, tracer, unread, used>>

(* The run fails: the deferred destroy of runner.run, unless --keep.       *)
Fail(n) ==
  /\ scan' = [scan EXCEPT ![n].err = TRUE,
                          ![n].pc = IF scan[n].mode = "keep" THEN "done" ELSE "destroy"]
  /\ Container(n, "exited")

(* The createRuntime hook scan-aa-load: only where AppArmor is enabled.    *)
runScanAALoad(n) ==
  /\ At(n, "load")
  /\ Goto(n, "start")
  /\ IF AAEnabled
       THEN stamp' = n /\ BestEffort(TRUE)
       ELSE UNCHANGED <<stamp, loaded>>
  /\ UNCHANGED <<config, backup, profile, log, secfile, pidfile, pins, audit, ctr, tracer, unread, used>>

(* init sets itself up; apparmor.ApplyProfile fails when the kernel does   *)
(* not know the profile the spec names.                                    *)
ApplyProfile(n) ==
  /\ At(n, "start")
  /\ LET name == scan[n].spec.apparmor
         ok == IF name = None THEN TRUE ELSE loaded[name] # NoProfile
     IN \/ (~ok \/ "start" \in Faults) /\ Fail(n)
        \/ ok /\ Goto(n, "poststart") /\ UNCHANGED ctr
  /\ UNCHANGED <<files, kernel, tracer, unread, used>>

(* cgroupFilterMap.Create, Teardown: the directory that has the pin.       *)
Create(n) == pins \cup {scan[n].id}
Teardown(n) == pins \ {scan[n].id}

(* The poststart hooks, before the exec fifo is opened: scan-cap-snapshot, *)
(* whose file nobody reads, and scan-cap-trace-start.  A tracer attaches   *)
(* to the kernel some time after it was spawned; nobody waits for it.      *)
runScanCapTraceStart(n) ==
  /\ At(n, "poststart")
  /\ \/ /\ "map" \in Faults                      \* Create: the directory stays
        /\ pins' = Create(n) /\ Fail(n)
        /\ UNCHANGED <<pidfile, tracer>>
     \/ /\ "spawn" \in Faults                    \* AddCgroup or Start: torn down
        /\ pins' = Teardown(n) /\ Fail(n)
        /\ UNCHANGED <<pidfile, tracer>>
     \/ /\ pins' = Create(n)
        /\ tracer' = [tracer EXCEPT ![n] = IF "attach" \in Faults THEN "attaching" ELSE "tracing"]
        /\ \/ "pidfile" \in Faults /\ Fail(n) /\ UNCHANGED pidfile
           \/ pidfile' = n /\ Goto(n, "forward") /\ Container(n, "running")
  /\ UNCHANGED <<config, backup, profile, log, secfile, stamp, loaded, audit, unread, used>>

-----------------------------------------------------------------------------
(* While the container runs *)

(* The tracer gets its probe into the kernel. *)
TracerAttach(n) ==
  /\ tracer[n] = "attaching"
  /\ tracer' = [tracer EXCEPT ![n] = "tracing"]
  /\ UNCHANGED <<files, kernel, scan, ctr, unread, used>>

(* A task of the container needs a capability. *)
CapCheck(n, c) ==
  /\ ctr[n] = "running" /\ c \notin used[n]
  /\ used' = [used EXCEPT ![n] = @ \cup {c}]
  /\ unread' = IF tracer[n] = "tracing" THEN [unread EXCEPT ![n] = @ \cup {c}] ELSE unread
  /\ UNCHANGED <<files, kernel, scan, ctr, tracer>>

(* The tracer writes what it has seen into the log. *)
TracerFlush(n) ==
  /\ tracer[n] \in {"tracing", "terminating"} /\ unread[n] # {}
  /\ log' = log \cup ({n} \X unread[n])
  /\ unread' = [unread EXCEPT ![n] = {}]
  /\ UNCHANGED <<config, backup, profile, secfile, pidfile, stamp, kernel, scan, ctr, tracer, used>>

(* The tracer ends: on SIGTERM it writes what is left first ...            *)
TracerTerminates(n) ==
  /\ tracer[n] = "terminating"
  /\ log' = log \cup ({n} \X unread[n])
  /\ tracer' = [tracer EXCEPT ![n] = "gone"]
  /\ unread' = [unread EXCEPT ![n] = {}]
  /\ UNCHANGED <<config, backup, profile, secfile, pidfile, stamp, kernel, scan, ctr, used>>

(* ... on SIGKILL it does not.                                             *)
TracerKilled(n) ==
  /\ tracer[n] = "killed"
  /\ tracer' = [tracer EXCEPT ![n] = "gone"]
  /\ unread' = [unread EXCEPT ![n] = {}]
  /\ UNCHANGED <<files, kernel, scan, ctr, used>>

(* The container does something its profile does not allow; in complain    *)
(* mode that is only reported.                                             *)
Deny(n, d) ==
  /\ ctr[n] = "running" /\ AAEnabled /\ loaded[Name(n)].mode = "complain"
  /\ audit' = audit \cup {[at |-> n, name |-> Name(n), what |-> d]}
  /\ audit' # audit
  /\ UNCHANGED <<files, loaded, pins, scan, ctr, tracer, unread, used>>

(* The container exits; oci-seccomp-bpf-hook has recorded its syscalls.    *)
ContainerExit(n) ==
  /\ ctr[n] = "running"
  /\ Container(n, "exited")
  /\ \/ secfile' = n
     \/ "seccomp" \in Faults /\ secfile' = secfile
  /\ UNCHANGED <<config, backup, profile, log, pidfile, stamp, kernel, scan, tracer, unread, used>>

(* runner.run returns from handler.forward: at once with --detach, else    *)
(* when the container has exited, or with an error (the console, the pid   *)
(* file), and then init is killed first.                                   *)
forward(n) ==
  /\ At(n, "forward")
  /\ \/ "forward" \in Faults /\ ctr[n] = "running" /\ Fail(n)
     \/ scan[n].mode = "detach" /\ Goto(n, "backup") /\ UNCHANGED ctr
     \/ ctr[n] = "exited" /\ scan[n].mode = "keep" /\ Goto(n, "backup") /\ UNCHANGED ctr
     \/ ctr[n] = "exited" /\ scan[n].mode = "foreground" /\ Goto(n, "destroy") /\ UNCHANGED ctr
  /\ UNCHANGED <<files, kernel, tracer, unread, used>>

-----------------------------------------------------------------------------
(* Poststop: Container.Destroy by the run itself, or by a later runc       *)
(* delete of a container that --detach or --keep left behind.              *)

(* The run goes on after Destroy, whose error is only logged. *)
AfterDestroy(n) ==
  IF At(n, "destroy") THEN Goto(n, IF scan[n].err THEN "done" ELSE "backup") ELSE UNCHANGED scan

(* The deferred functions of the hook: no pid file, no pinned map.         *)
Stopped(n) == pidfile' = 0 /\ pins' = Teardown(n) /\ Container(n, "stopped")

(* Destroy fails before it runs a hook: the cgroup cannot be removed.      *)
DestroyFails(n) ==
  /\ "cgroup" \in Faults /\ ctr[n] = "exited" /\ At(n, "destroy")
  /\ AfterDestroy(n)
  /\ UNCHANGED <<files, kernel, ctr, tracer, unread, used>>

(* scan-cap-trace-stop: SIGTERM to the process the pid file names. Without *)
(* a pid file, or when that process is gone, it only cleans up.            *)
runScanCapTraceStop(n) ==
  /\ ctr[n] = "exited"
  /\ \/ scan[n].pc \in {"destroy", "done"}
     \/ scan[n].pc \in Finalizing /\ scan[n].mode # "foreground"
  /\ IF pidfile # 0 /\ tracer[pidfile] \in Alive
       THEN /\ tracer' = [tracer EXCEPT ![pidfile] = IF @ = "killed" THEN @ ELSE "terminating"]
            /\ scan' = [scan EXCEPT ![n].pid = pidfile]
            /\ Container(n, "stopping")
            /\ UNCHANGED <<pidfile, pins>>
       ELSE Stopped(n) /\ UNCHANGED <<scan, tracer>>
  /\ UNCHANGED <<config, backup, profile, log, secfile, stamp, loaded, audit, unread, used>>

(* Mutant of the next step: SIGTERM is all, nobody waits.                  *)
scanCapTraceStopWaitNever(n) ==
  /\ ctr[n] = "stopping"
  /\ Stopped(n)
  /\ UNCHANGED <<config, backup, profile, log, secfile, stamp, loaded, audit, scan, tracer, unread, used>>

(* Mutant of the next step: no deadline.                                   *)
scanCapTraceStopWaitForever(n) ==
  /\ ctr[n] = "stopping" /\ tracer[scan[n].pid] = "gone"
  /\ Stopped(n)
  /\ UNCHANGED <<config, backup, profile, log, secfile, stamp, loaded, audit, scan, tracer, unread, used>>

(* Mutant of the next step: the map stays pinned.                          *)
scanCapTraceStopWaitNoTeardown(n) ==
  /\ ctr[n] = "stopping" /\ tracer[scan[n].pid] = "gone"
  /\ pidfile' = 0 /\ Container(n, "stopped")
  /\ UNCHANGED <<config, backup, profile, log, secfile, stamp, kernel, scan, tracer, unread, used>>

(* It polls for two seconds and then sends SIGKILL, for which it does not  *)
(* wait.  A tracer that honours SIGTERM is assumed to do so in time.       *)
scanCapTraceStopWait(n) ==
  /\ ctr[n] = "stopping"
  /\ \/ tracer[scan[n].pid] = "gone" /\ UNCHANGED tracer
     \/ /\ "stubborn" \in Faults /\ tracer[scan[n].pid] # "gone"
        /\ tracer' = [tracer EXCEPT ![scan[n].pid] = "killed"]
  /\ Stopped(n)
  /\ UNCHANGED <<config, backup, profile, log, secfile, stamp, loaded, audit, scan, unread, used>>

(* Mutant of the next definition: the stamp is not used.                   *)
readKernelAuditAlways(src) == IF src = "none" THEN {} ELSE audit

(* readKernelAudit: --since takes local time and is given UTC; dmesg is    *)
(* not asked for a window at all.                                          *)
readKernelAudit(src) ==
  CASE src = "journalctl" -> {e \in audit : stamp = 0 \/ e.at >= stamp - Offset}
    [] src = "dmesg"      -> audit
    [] src = "none"       -> {}

(* parseApparmorDenials: the events of the profile the file defines.       *)
parseApparmorDenials(src) == {e \in readKernelAudit(src) : e.name = profile.name}

(* buildAppArmorRulesFromDenials: one rule, or one comment, for each.      *)
buildAppArmorRulesFromDenials(events) == {<<e.at, e.what>> : e \in events}

(* appendAuditRulesToProfile: the rules replace those of an earlier block; *)
(* no rules leave the file alone.                                          *)
appendAuditRulesToProfile(rules) == IF rules = {} THEN profile ELSE [profile EXCEPT !.rules = rules]

(* scan-aa-unload: rules are collected, then the profile is unloaded.      *)
runScanAAUnload(n) ==
  /\ ctr[n] = "stopped"
  /\ IF AAEnabled
       THEN /\ \E src \in AuditSources :
                 profile' = appendAuditRulesToProfile(
                              buildAppArmorRulesFromDenials(parseApparmorDenials(src)))
            /\ BestEffort(FALSE)
       ELSE UNCHANGED <<profile, loaded>>
  /\ Container(n, "destroyed")
  /\ AfterDestroy(n)
  /\ UNCHANGED <<config, backup, log, secfile, pidfile, stamp, pins, audit, tracer, unread, used>>

-----------------------------------------------------------------------------
(* finalizeSecurityScan.  Its errors are only logged.                      *)

(* Mutant of the next step: every scan makes a backup. *)
backupStatAlways(n) ==
  /\ At(n, "backup")
  /\ Goto(n, "copy")
  /\ UNCHANGED <<files, kernel, ctr, tracer, unread, used>>

(* backupSpecOriginal: an existing backup is left alone ...                *)
backupStat(n) ==
  /\ At(n, "backup")
  /\ \/ Goto(n, IF backup = {} THEN "copy" ELSE "read")
     \/ "backup" \in Faults /\ Goto(n, "done")
  /\ UNCHANGED <<files, kernel, ctr, tracer, unread, used>>

(* ... and config.json is copied and renamed into place.                   *)
backupCopy(n) ==
  /\ At(n, "copy")
  /\ Goto(n, "read") /\ backup' = {config}
  /\ UNCHANGED <<config, profile, log, secfile, pidfile, stamp, kernel, ctr, tracer, unread, used>>

(* Mutant of the next definition: the match instead of its group.          *)
parseCapsFromFileMatches == log

(* parseCapsFromFile: every capability named anywhere in the log.          *)
parseCapsFromFile == {e[2] : e \in log}

(* narrowCapabilitiesFromTrace: only the bounding set is compared.         *)
narrowCapabilitiesFromTrace(spec) ==
  IF spec.bounding = parseCapsFromFile THEN spec
  ELSE [spec EXCEPT !.bounding = parseCapsFromFile, !.others = parseCapsFromFile]

(* applyGeneratedSeccomp: whatever recording is there.                     *)
applyGeneratedSeccomp(spec) == IF secfile = 0 THEN spec ELSE [spec EXCEPT !.seccomp = secfile]

(* config.json is read and narrowed, in memory.                            *)
readAndNarrow(n) ==
  /\ At(n, "read")
  /\ scan' = [scan EXCEPT ![n] = [@ EXCEPT
                !.pc = "apparmor",
                !.spec = applyGeneratedSeccomp(narrowCapabilitiesFromTrace(config)),
                !.changed = config.bounding # parseCapsFromFile \/ secfile # 0]]
  /\ UNCHANGED <<files, kernel, ctr, tracer, unread, used>>

(* The profile's name goes into the spec.                                  *)
nameProfile(n) ==
  scan' = [scan EXCEPT ![n] = [@ EXCEPT
             !.pc = "write",
             !.spec.apparmor = profile.name,
             !.changed = scan[n].changed \/ scan[n].spec.apparmor # profile.name]]

(* flipApparmorComplainToEnforce.                                          *)
flipApparmorComplainToEnforce(p) == [p EXCEPT !.mode = "enforce"]

(* Mutant of the next step: the markers are not looked for.                *)
applyGeneratedAppArmorUnmarked(n) ==
  /\ At(n, "apparmor")
  /\ nameProfile(n)
  /\ profile' = flipApparmorComplainToEnforce(profile)
  /\ UNCHANGED <<config, backup, log, secfile, pidfile, stamp, kernel, ctr, tracer, unread, used>>

(* applyGeneratedAppArmor: the name in the file's header goes into the     *)
(* spec, and a profile with collected rules leaves complain mode.          *)
applyGeneratedAppArmor(n) ==
  /\ At(n, "apparmor")
  /\ nameProfile(n)
  /\ \/ profile' = IF profile.rules = {} THEN profile ELSE flipApparmorComplainToEnforce(profile)
     \/ "flip" \in Faults /\ profile' = profile
  /\ UNCHANGED <<config, backup, log, secfile, pidfile, stamp, kernel, ctr, tracer, unread, used>>

(* Mutant of the next step: the file is rewritten for new caps only.       *)
writeConfigForCaps(n) ==
  /\ At(n, "write")
  /\ Goto(n, "done")
  /\ config' = IF scan[n].spec.bounding = config.bounding THEN config ELSE scan[n].spec
  /\ UNCHANGED <<backup, profile, log, secfile, pidfile, stamp, kernel, ctr, tracer, unread, used>>

(* The new config.json is renamed into place, if anything changed; an      *)
(* error leaves the old one.                                               *)
writeConfig(n) ==
  /\ At(n, "write")
  /\ Goto(n, "done")
  /\ \/ config' = IF scan[n].changed THEN scan[n].spec ELSE config
     \/ "write" \in Faults /\ config' = config
  /\ UNCHANGED <<backup, profile, log, secfile, pidfile, stamp, kernel, ctr, tracer, unread, used>>

-----------------------------------------------------------------------------
(* A later run without --security-scan *)

(* scanProfileLoadDecision: the spec and the file agree on a scan profile. *)
scanProfileLoadDecision == config.apparmor # None /\ config.apparmor = profile.name

(* ensureGeneratedProfiles: the profile goes into the kernel.              *)
ensureGeneratedProfiles ==
  /\ \A n \in Scans : scan[n].pc \in {"idle", "done"}
  /\ scanProfileLoadDecision /\ AAEnabled
  /\ BestEffort(TRUE)
  /\ UNCHANGED <<files, pins, audit, scan, ctr, tracer, unread, used>>

-----------------------------------------------------------------------------
Run(n) ==
  \/ \E i \in Ids, m \in Modes : applySecurityScan(n, i, m)
  \/ createContainer(n) \/ runScanAALoad(n) \/ ApplyProfile(n) \/ runScanCapTraceStart(n)
  \/ forward(n)
  \/ backupStat(n) \/ backupCopy(n) \/ readAndNarrow(n) \/ applyGeneratedAppArmor(n) \/ writeConfig(n)

Poststop(n) ==
  runScanCapTraceStop(n) \/ scanCapTraceStopWait(n) \/ runScanAAUnload(n) \/ DestroyFails(n)

Tracer(n) == TracerAttach(n) \/ TracerFlush(n) \/ TracerTerminates(n) \/ TracerKilled(n)

Workload(n) ==
  (\E c \in Caps : CapCheck(n, c)) \/ (\E d \in Denials : Deny(n, d)) \/ ContainerExit(n)

Next == (\E n \in Scans : Run(n) \/ Poststop(n) \/ Tracer(n) \/ Workload(n)) \/ ensureGeneratedProfiles

Spec == Init /\ [][Next]_vars

(* The scan's own process and its hooks are scheduled, and the kernel      *)
(* carries out SIGKILL.  Nothing makes a container exit, nor a tracer obey *)
(* SIGTERM when it may be stubborn.                                        *)
FairSpec ==
  /\ Spec
  /\ \A n \in Scans : /\ WF_vars(Run(n)) /\ WF_vars(Poststop(n)) /\ WF_vars(TracerKilled(n))
                       /\ WF_vars("stubborn" \notin Faults /\ TracerTerminates(n))

-----------------------------------------------------------------------------
(* Every variable has its type. *)
TypeOK ==
  /\ config \in Specs /\ backup \in SUBSET Specs /\ profile \in Profiles
  /\ log \subseteq Scans \X Caps
  /\ secfile \in {0} \cup Scans /\ pidfile \in {0} \cup Scans /\ stamp \in {0} \cup Scans
  /\ loaded \in [Names -> Profiles] /\ pins \subseteq Ids
  /\ audit \subseteq [at : Scans, name : Names, what : Denials]
  /\ scan \in [Scans -> ScanRecords]
  /\ ctr \in [Scans -> {"none", "created", "running", "exited", "stopping", "stopped", "destroyed"}]
  /\ tracer \in [Scans -> Alive \cup {"none", "gone"}]
  /\ unread \in [Scans -> SUBSET Caps] /\ used \in [Scans -> SUBSET Caps]

Quiescent == \A n \in Scans : scan[n].pc \in {"idle", "done"} /\ ctr[n] \in Gone
Succeeded(n) == At(n, "done") /\ ~scan[n].err
Latest(n) == \A k \in (n + 1)..MaxScans : At(k, "idle")

(* backupSpecOriginal: whatever the scans did, the operator can roll back  *)
(* to the config.json of before the first one.                             *)
BackupIsOriginal ==
  /\ backup \subseteq {Original}
  /\ config # Original => backup # {}

(* applyGeneratedAppArmor: no profile on disk or in the kernel enforces    *)
(* before an audit event was collected for it.                             *)
EnforceHasEvidence ==
  \A p \in {profile} \cup {loaded[x] : x \in Names} : p.mode = "enforce" => p.rules # {}

(* "a stub profile shipped to enforce would deny everything the workload   *)
(* tries to do": what enforces has a rule, not only comments.              *)
EnforceHasRules ==
  \A p \in {profile} \cup {loaded[x] : x \in Names} :
    p.mode = "enforce" => \E r \in p.rules : r[2] # "unhandled"

(* The barrier of scan-cap-trace-stop: config.json grants every capability *)
(* that a container was checked for during a scan that succeeded.          *)
CapsCoverUse ==
  \A n \in Scans : Succeeded(n) => used[n] \subseteq config.bounding \cap config.others

(* "by the time this hook returns, the tracer has exited and               *)
(* capable-bpfcc.log is closed": finalize reads a complete log.            *)
TraceClosed ==
  \A n \in Scans : At(n, "read") /\ ctr[n] = "destroyed" => tracer[n] \notin Alive

(* "on successful exit write them back into config.json": finalize works   *)
(* on the artefacts of a container that has exited.                        *)
FinalizeAfterExit ==
  \A n \in Scans : scan[n].pc \in Finalizing => ctr[n] # "running"

(* "narrows the on-disk config.json down to the caps actually observed     *)
(* during the run": nothing that this run did not use is granted.          *)
CapsAreThisRuns ==
  \A n \in Scans : Succeeded(n) /\ Latest(n) => config.bounding \subseteq used[n]

(* narrowCapabilitiesFromTrace "replaces all five capability buckets":     *)
(* they agree after a scan.                                                *)
AllBucketsNarrowed ==
  \A n \in Scans : Succeeded(n) => config.others = config.bounding

(* readAAStartedAt: the rules come from events of the scan itself, not     *)
(* from those of an earlier run of the same profile.                       *)
RulesAreThisRuns ==
  \A n \in Scans : Succeeded(n) /\ Latest(n) => profile.rules \subseteq {n} \X Denials

(* "so the container starts confined without any operator action between   *)
(* the scan and the production run": the profile that config.json names is *)
(* one that the next run can load.                                         *)
NextRunStarts ==
  Quiescent /\ config.apparmor # None => AAEnabled /\ scanProfileLoadDecision

(* runScanCapTraceStop: when every container is gone, so are the tracers,  *)
(* the pinned maps and the pid file, whichever step of a scan failed.      *)
NothingLeft ==
  Quiescent => /\ \A n \in Scans : tracer[n] \in {"none", "killed", "gone"}
               /\ pins = {} /\ pidfile = 0

(* scanCapTraceStopTimeout: once the container has exited, the run returns *)
(* even if the tracer ignores SIGTERM.                                     *)
ExitedScanReturns ==
  \A n \in Scans : (At(n, "forward") /\ ctr[n] = "exited") ~> At(n, "done")

(* What finalizeSecurityScan has written fits the next run: it grants the  *)
(* capabilities that were used, its rules come from the events of this     *)
(* scan, and the profile it names can be loaded.                           *)
NextRunFits == CapsCoverUse /\ RulesAreThisRuns /\ NextRunStarts

(* A scan that fails half-way still leaves the backup of config.json, no   *)
(* profile that enforces without evidence, and nothing that runs or stays  *)
(* pinned (the hooks and the early returns of runSecurityScan).            *)
ScanFailsClean == BackupIsOriginal /\ EnforceHasEvidence /\ NothingLeft
=============================================================================
