SPECIFICATION Spec
CONSTANTS
  j1 = j1
  j2 = j2
  Jobs = {j1, j2}
  Nodes = {n1}
  Goroutines = {g1, g2, g3}
  NoJob = NoJob
  Outside = Outside
  Tables = 2
  TableOf <- TwoTables
  MaxConcurrency = 2
  WakeupCap = 1
  MaxAttemptsChoices = {2}
  Priorities = {0}
  InitialDelays = {0}
  Jitters = {0}
  PatchStates = {"available", "discarded", "retryable"}
  Allowed = {"retryIds", "retryFailed", "patch", "cancel", "delete", "cleanup", "reuseId", "stop", "crash", "dbError"}
  MaxAge = 0
  MaxOps = 1
  MaxFaults = 1
INVARIANTS
  SlotsMatchGoroutines
  FetchingHalts
SYMMETRY GoroutineSymmetry
CHECK_DEADLOCK FALSE
