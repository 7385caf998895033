SPECIFICATION UseSpec
CONSTANTS
  Keys = {k1, k2, k3}
  d = d
  Data <- MCData
  Responses <- MCResponses
  Ttls = {0, 2, 4}
  max_entries = 2
  min_ttl = 1
  max_ttl = 3
  Sec = 2
  MaxTime = 7
SYMMETRY Symmetry
INVARIANTS
  CacheTypeOK
  CapacityBound
  LifetimeBound
  UpstreamTtlRespected
  RemainingHonest
  RecentlyUsedKept
