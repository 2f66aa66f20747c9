SPECIFICATION Spec
CONSTANTS
  Ids = {"web", "db"}
  Names = {"runc_scan_web", "runc_scan_db"}
  None = "none"
  ProfileName <- Apart
  Caps = {"chown", "kill"}
  Original <- AllGranted
  Denials = {"file", "unhandled"}
  MaxScans = 3
  Modes = {"foreground"}
  Faults = {}
  AAEnabled = TRUE
  AuditSources = {"journalctl", "none"}
  Offset = 0
  Overlap = FALSE
CHECK_DEADLOCK FALSE
INVARIANTS
    TypeOK
    BackupIsOriginal
    EnforceHasEvidence
    
