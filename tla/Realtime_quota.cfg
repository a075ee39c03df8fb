CONSTANTS
  m1 = m1
  m2 = m2
  Streams = {s1, s2}
  Publishers = {p1}
  Tickets = {}
  Tokens = {t1}
  Mouls = {m1}
  Topics <- OnlyAll
  AllMouls = AllMouls
  NoStream = NoStream
  NoToken = NoToken
  Buffer = 1
  Window = 1
  TicketTTL = 1
  TokenExpires = 1
  Cap <- Caps
  Settings = {"off", "rule"}
  Changes <- Hidings
  MaxEvents = 2
  MaxFaults = 0
  MaxTime = 0
SPECIFICATION Spec
INVARIANTS
  QuotaCounted
PROPERTIES
  ClosedGetsNothing
SYMMETRY Symmetry
