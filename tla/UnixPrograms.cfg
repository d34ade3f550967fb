CONSTANTS
  Loops = 2
  Units = 2
  Rounds = 2
  Spurious = 1
  Kids = {"c1", "c2", "c3"}
  MaxArgs = 2
  UserSignals = 2
  Messages = 3
  Maxmsg = 2
  MaxTries = 2
  MaxInput = 3
  RlMaxBuf = 2
  BufSize = 2
SPECIFICATION Spec
INVARIANTS
  ThreadsCoordinate
  ChildrenAccounted
  EventsAccounted
  IpcAccounted
  SocketDataIntact
  FiltersEnforced
  ServicesInOrder
  RightsAndTerminalsKept
PROPERTIES
  EveryProgramEnds
  NobodyLeftWaiting
CHECK_DEADLOCK FALSE
