CONSTANTS
  Readers = {r1, r2}
  MaxReads = 1
SPECIFICATION Spec
INVARIANT NoPanic
