SPECIFICATION LocksSpec
CONSTANTS
  Ports = {p1, p2}
  Threads = {t1, t2}
  Reentrant = {"open", "close", "start", "stop", "property", "query", "lookup"}
  MaxDepth = 2
  NoOwner = NoOwner
SYMMETRY LocksSymmetry
INVARIANT LocksTypeOK CallOutsUnlocked DeadlockFree
