CONSTANTS
  TopNames <- TopDirs
  Names = {"a", "b"}
  MaxInode = 5
  MaxDepth = 3
  MaxQueue = 4
  AllocIncr = 2
  ReadMax = 2
  MaxCmds = 0
  CmdPaths <- RootPath
  Envs <- QuickOnly
SPECIFICATION Spec
INVARIANT Consistent
