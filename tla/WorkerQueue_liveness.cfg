SPECIFICATION FairSpec
CONSTANTS
  j1 = j1
  j2 = j2
  Jobs = {j1, j2}
  Nodes = {n1}
  Goroutines = {g1}
  NoJob = NoJob
  Outside = Outside
  Tables = 2
  TableOf <- TwoTables
  MaxConcurrency = 1
  WakeupCap = 1
  MaxAttemptsChoices = {2}
  Priorities = {0}
  InitialDelays = {0, 1}
  Jitters = {0}
  PatchStates = {}
  Allowed = {"retryFailed", "stop"}
  MaxAge = 0
  MaxOps = 1
  MaxFaults = 1
PROPERTIES
  EveryJobFinishes
  StopEnds
CHECK_DEADLOCK FALSE
