CONSTANTS
  SeqClients = {1, 2, 3}
  Lens = {1, 2}
  FileClients = {1, 2}
  MaxBlocks = 2
  QSize = 1
  Kills = TRUE
  ForkFails = TRUE
SPECIFICATION FairSpec
INVARIANTS UniqueSequential Complete ServerStays
PROPERTIES EveryoneServed ZombiesReaped
