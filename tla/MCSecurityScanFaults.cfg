SPECIFICATION Spec
CONSTANTS
  Ids = {"web"}
  Names = {"runc_scan_web"}
  None = "none"
  ProfileName <- Apart
  Caps = {"chown"}
  Original <- AllGranted
  Denials = {"file"}
  MaxScans = 2
  Modes = {"foreground", "detach", "keep"}
  Faults = {"tools", "parser", "start", "map", "spawn", "forward", "cgroup", "stubborn", "seccomp", "backup", "flip", "write"}
  AAEnabled = TRUE
  AuditSources = {"journalctl"}
  Offset = 0
  Overlap = FALSE
CHECK_DEADLOCK FALSE
INVARIANTS
    ScanFailsClean
