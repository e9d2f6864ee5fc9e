SPECIFICATION FairSpec
CONSTANTS
  Entries <- TwoEntries
  Unset = Unset
  AnyHost = AnyHost
  MaxSignals = 2
  Confs <- AllConfs
  NoServer = NoServer
  Empty = Empty
  Unknown = Unknown
  Absent = Absent
  Odd = Odd
  Requests <- AllRequests
INVARIANTS
  OwnAddress
  CrashOnlyWhenShared
  DeregisteredAtExit
  MethodFound
PROPERTIES
  InterruptEnds
  ImplementsRegistry
CHECK_DEADLOCK FALSE
