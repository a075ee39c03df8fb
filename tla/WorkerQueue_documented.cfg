SPECIFICATION Spec
CONSTANTS
  j1 = j1
  j2 = j2
  Jobs = {j1, j2}
  Nodes = {n1, n2}
  Goroutines = {g1, g2}
  NoJob = NoJob
  Outside = Outside
  Tables = 1
  TableOf <- OneTable
  MaxConcurrency = 1
  WakeupCap = 1
  MaxAttemptsChoices = {0, 2}
  Priorities = {0}
  InitialDelays = {0}
  Jitters = {0}
  PatchStates = {}
  Allowed = {"retryFailed", "delete", "cleanup", "stop", "crash", "dbError"}
  MaxAge = 0
  MaxOps = 1
  MaxFaults = 1
INVARIANTS
  OneRunPerJob
  SnapshotIsRow
  AttemptsBounded
  ErrorLogComplete
  OrphansNeedAFault
PROPERTIES
  RefinesLifecycle
SYMMETRY Symmetry
CHECK_DEADLOCK FALSE
