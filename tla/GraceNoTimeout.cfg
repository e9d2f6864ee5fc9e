SPECIFICATION DrainingSpec
CONSTANTS
  c1 = c1
  c2 = c2
  k1 = k1
  k2 = k2
  NoOne = NoOne
  Conns <- MCConns
  Closers <- MCClosers
  HammerOn = FALSE
  AcceptMayFail = FALSE
INVARIANTS
  NoCloserStranded
PROPERTIES
  ShutdownCompletes
