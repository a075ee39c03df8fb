CONSTANTS
  m1 = m1
  m2 = m2
  Streams = {s1}
  Publishers = {p1, p2}
  Tickets = {k1}
  Tokens = {t1}
  Mouls = {m1}
  Topics <- OnlyAll
  AllMouls = AllMouls
  NoStream = NoStream
  NoToken = NoToken
  Buffer = 1
  Window = 1
  TicketTTL = 1
  TokenExpires = 1
  Cap <- Caps
  Settings = {"on"}
  Changes <- Hidings
  MaxEvents = 2
  MaxFaults = 1
  MaxTime = 2
SPECIFICATION FairSpec
PROPERTIES
  MembersOnly
  StreamsEnd
