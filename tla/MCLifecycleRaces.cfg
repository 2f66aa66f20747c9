SPECIFICATION Spec
CONSTANTS
  Procs = {p1, p2}
  Kinds <- NoDelete
  Pids = {1, 2}
  MaxStart = 2
  Orderly = FALSE
SYMMETRY ProcSymmetry
INVARIANTS
    RacesAreSafe
PROPERTIES
    RemovedOnlyWhenEmpty
    ImplementsOci
