SPECIFICATION Spec
CONSTANTS
  Procs = {p1, p2}
  Kinds <- AllKinds
  Pids = {1, 2}
  MaxStart = 2
  Orderly = TRUE
SYMMETRY ProcSymmetry
INVARIANTS
    IdIsSound
PROPERTIES
    RemovedOnlyWhenEmpty
    ImplementsOci
