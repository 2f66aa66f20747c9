SPECIFICATION FairSpec
CONSTANTS
  Ids = {"web", "db"}
  Names = {"runc_scan_web", "runc_scan_db"}
  None = "none"
  ProfileName <- Apart
  Caps = {"chown", "kill"}
  Original <- AllGranted
  Denials = {"file", "unhandled"}
  MaxScans = 1
  Modes = {"foreground", "detach", "keep"}
  Faults = {"parser", "start", "map", "spawn", "pidfile", "forward", "cgroup", "stubborn", "attach", "seccomp", "backup", "flip", "write"}
  AAEnabled = TRUE
  AuditSources = {"journalctl", "none"}
  Offset = 0
  Overlap = FALSE
CHECK_DEADLOCK FALSE
PROPERTIES
  ExitedScanReturns
