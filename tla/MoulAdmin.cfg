SPECIFICATION AdminSpec
CONSTANTS
  ca = ca
  cb = cb
  Admins = {a1, a2}
  Names = {m1, m2}
  Columns = {ca, cb}
  Definitions <- ThreeDefinitions
  NoName = NoName
  MaxAsked = 3
  MaxFailures = 1
INVARIANTS
  CatalogueAgrees
  UniqueUntilRenamed
PROPERTIES
  UpdateRepairs
SYMMETRY AdminSymmetry
CHECK_DEADLOCK FALSE
