CONSTANTS
  Clients = {c1, c2, c3}
  Closers = {k1, k2}
  Size = 2
  MaxRes = 4
  NoOne = NoOne
SPECIFICATION PoolFairSpec
INVARIANTS Exclusive ClosedOnce NoneLost NoSendOnClosed
PROPERTIES CloseReclaims
