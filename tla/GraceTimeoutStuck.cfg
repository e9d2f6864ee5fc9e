SPECIFICATION FairSpec
CONSTANTS
  c1 = c1
  c2 = c2
  k1 = k1
  k2 = k2
  NoOne = NoOne
  Conns <- MCConns
  Closers <- MCClosers
  HammerOn = TRUE
  AcceptMayFail = FALSE
PROPERTIES
  TimeoutForcesShutdown
CHECK_DEADLOCK FALSE
