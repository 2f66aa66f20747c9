----------------------------- MODULE MCInitSync -----------------------------
(* Every configuration with at most MaxMounts mount source requests. *)
EXTENDS InitSync

CONSTANT MaxMounts

MCConfigs == [mounts: 0..MaxMounts, seccomp: {"none", "early", "late"},
              rootless: BOOLEAN, privatePid: BOOLEAN, keep: BOOLEAN]
=============================================================================
