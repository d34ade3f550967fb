CONSTANT N = 4
SPECIFICATION FairSpec
INVARIANTS CountsExact JoinNeverBlocks
PROPERTY MainEnds
