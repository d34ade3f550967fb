CONSTANTS
  Readers = {r1, r2, r3, r4}
  MaxReads = 2
SPECIFICATION SemaphoreFairSpec
INVARIANTS WriteExcludesReads StoppedMeansIdle
PROPERTIES WriterNotStarved ShutdownEnds
