--------------------------- MODULE MCSecurityScan ---------------------------
(* Instances of SecurityScan: the profile name may keep ids apart or not.  *)
EXTENDS SecurityScan

Apart == [i \in Ids |-> IF i = "web" THEN "runc_scan_web" ELSE "runc_scan_db"]
AllGranted == [bounding |-> Caps, others |-> Caps, seccomp |-> 0, apparmor |-> None]
BoundingOnly == [bounding |-> Caps, others |-> {}, seccomp |-> 0, apparmor |-> None]
=============================================================================
