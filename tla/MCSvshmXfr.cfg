CONSTANTS
  NBlocks = 6
  Errors = TRUE
SPECIFICATION XfrFairSpec
INVARIANTS Alternating RemovedAfterUse
PROPERTIES Transfers BothEnd
