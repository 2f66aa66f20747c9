---------------------------- MODULE MCLifecycle ----------------------------
(* Instances of Lifecycle: processes are interchangeable.                 *)
EXTENDS Lifecycle, TLC

AllKinds == Commands
NoDelete == Commands \ {"delete", "force"}
ProcSymmetry == Permutations(Procs)
=============================================================================
