SPECIFICATION Spec
CONSTANTS
  p1 = p1
  p2 = p2
  c1 = c1
  c2 = c2
  Requests = {q1, q2}
  Ids = {p1, c1, c2}
  Fields = {"post", "tree"}
  MoulOf <- MoulOfIds
  Holder <- HolderOfFields
  Target <- TargetOfFields
  Schemas <- EverySchema
  InitialLive <- MostlyLive
  NoId = NoId
  NoField = NoField
  Vetoed = {c1, c2}
  MaxRequests = 2
  MaxFaults = 1
INVARIANTS
  RestrictHonoured
  FollowedThrough
  SoundWhenAlone
  ChangesAnnounced
SYMMETRY Symmetry
CHECK_DEADLOCK FALSE
