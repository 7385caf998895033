SPECIFICATION Spec
CONSTANTS
  q1 = q1
  t1 = t1
  t2 = t2
  c1 = c1
  k2 = k2
  Udp = Udp
  NoKey = NoKey
  NoBody = NoBody
  Queries = {q1, t1, t2}
  Conns = {c1}
  Via <- MCVia
  No <- MCNo
  Keys = {k1, k2}
  Data <- MCData
  Responses <- MCResponses
  Ttls = {1}
  max_entries = 1
  min_ttl = 1
  max_ttl = 1
  Sec = 1
  MaxTime = 2
  Lat = 1
  ServfailSize = 512
INVARIANTS
  ReplyMatchesQuery
  BoundedStaleness
  FramesWhole
CHECK_DEADLOCK FALSE
PROPERTIES
  NoQueryStuck
  ImplementsService
