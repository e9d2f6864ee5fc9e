SPECIFICATION FairSpec
CONSTANTS
  c1 = c1
  c2 = c2
  c3 = c3
  s1 = s1
  s2 = s2
  NoOne = NoOne
  NoPool = NoPool
  Absent = Absent
  Callers <- MCCallers
  Services <- MCServices
  ServiceOf <- MCServiceOf
  PoolSize = 3
  IndexValues = 4
  MaxPools = 3
  MaxCalls = 4
  DiscoveryFails = TRUE
  MayClose = TRUE
INVARIANTS
  OnePoolPerService
  PanicOnlyAfterFailureOrClose
  Balanced
PROPERTIES
  ImplementsPools
  CallsEnd
CHECK_DEADLOCK FALSE
