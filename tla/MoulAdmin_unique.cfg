SPECIFICATION AdminSpec
CONSTANTS
  ca = ca
  cb = cb
  Admins = {a1}
  Names = {m1, m2}
  Columns = {ca, cb}
  Definitions <- ThreeDefinitions
  NoName = NoName
  MaxAsked = 3
  MaxFailures = 0
INVARIANTS UniqueEnforced
SYMMETRY AdminSymmetry
CHECK_DEADLOCK FALSE
