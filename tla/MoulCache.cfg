CONSTANTS
  Readers = {r1, r2}
  Writers = {w1}
  NoReader = NoReader
  Interval = 1
  MaxWrites = 2
  MaxTime = 1
SPECIFICATION FairSpec
INVARIANTS
  NeverGoesBack
  StalenessBounded
PROPERTIES
  CallsReturn
