\* The adapter: one process may die outside a reclaim.
SPECIFICATION Spec
CONSTANTS
  Proc = {p1, p2, p3}
  NoProc = NoProc
  AbsentIsStale = TRUE
  CrashAt = {"idle", "open", "writing", "held", "drop", "guard", "waiting"}
  MaxCrashes = 1
  DiskFaults = FALSE
SYMMETRY Symmetry
INVARIANTS
  MutualExclusion
