CONSTANTS
  Loops = 2
  Units = 2
  Rounds = 2
  Spurious = 1
  Kids = {"c1", "c2", "c3"}
  MaxArgs = 2
  UserSignals = 2
  Messages = 3
  Maxmsg = 2
  MaxTries = 2
  MaxInput = 3
  RlMaxBuf = 2
  BufSize = 2
SPECIFICATION SimpleInitSpec
PROPERTY PauseInterrupted
CHECK_DEADLOCK FALSE
