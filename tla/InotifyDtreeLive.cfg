CONSTANTS
  TopNames <- TopDirs
  Names = {"a", "b"}
  MaxInode = 4
  MaxDepth = 3
  MaxQueue = 2
  AllocIncr = 2
  ReadMax = 2
  MaxCmds = 0
  CmdPaths <- RootPath
  Envs <- PromptOnly
SPECIFICATION FairSpec
PROPERTIES EventsServed
