CONSTANTS
  TopNames <- TopDirs
  Names = {"a", "b"}
  MaxInode = 5
  MaxDepth = 3
  MaxQueue = 4
  AllocIncr = 2
  ReadMax = 2
  MaxCmds = 1
  CmdPaths <- RootPath
  Envs <- SafetyEnvs
SPECIFICATION Spec
INVARIANTS WatchesCached Consistent
