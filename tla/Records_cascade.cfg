SPECIFICATION Spec
CONSTANTS
  p1 = p1
  p2 = p2
  c1 = c1
  c2 = c2
  Requests = {q1}
  Ids = {p1, p2, c1}
  Fields = {"post", "tree"}
  MoulOf <- MoulOfIds
  Holder <- CrossedHolder
  Target <- TargetOfFields
  Schemas <- OnlyMixed
  InitialLive <- MostlyLive
  NoId = NoId
  NoField = NoField
  Vetoed = {}
  MaxRequests = 1
  MaxFaults = 0
INVARIANTS
  CascadeComplete
SYMMETRY Symmetry
CHECK_DEADLOCK FALSE
