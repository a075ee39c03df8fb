CONSTANTS
  Nodes = {n1, n2}
  Requests = {r1, r2}
  Tokens = {t1}
  NoToken = NoToken
  NoNode = NoNode
  TTL = 1
  Graces = {1}
  Interval = 1
  MaxTime = 2
  MaxFaults = 1
SPECIFICATION Spec
SYMMETRY Symmetry
INVARIANTS ExchangedOnceInTime
PROPERTIES SpentStaysSpent RevokedRejected
