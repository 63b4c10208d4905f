\* The Store's variant: two of three processes may die at any step; every write may fail.
SPECIFICATION FairSpec
CONSTANTS
  Proc = {p1, p2, p3}
  NoProc = NoProc
  AbsentIsStale = FALSE
  CrashAt = {"idle", "open", "writing", "held", "drop", "guard", "stat", "read", "signal", "unlink", "removed", "kept", "waiting"}
  MaxCrashes = 2
  DiskFaults = TRUE
INVARIANTS TypeOK OwnerKeepsItsFile
PROPERTIES LockIsTakenAgain
