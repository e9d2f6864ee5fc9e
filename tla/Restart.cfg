SPECIFICATION FairSpec
CONSTANTS
  a1 = a1
  a2 = a2
  NoSocket = NoSocket
  Addrs <- TwoAddrs
  MaxProcs = 3
  Envs <- AllEnvs
INVARIANTS
  OneForkPerProcess
  SocketMatchesAddress
  ForkPanicsOnlyAtStart
  NeverRefused
PROPERTIES
  ImplementsSockets
  ChildServes
CHECK_DEADLOCK FALSE
