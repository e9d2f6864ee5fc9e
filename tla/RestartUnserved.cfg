SPECIFICATION Spec
CONSTANTS
  a1 = a1
  a2 = a2
  NoSocket = NoSocket
  Addrs <- TwoAddrs
  MaxProcs = 2
  Envs <- OnlyRepeated
INVARIANTS
  ServesOnceListening
CHECK_DEADLOCK FALSE
