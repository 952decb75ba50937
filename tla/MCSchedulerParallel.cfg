CONSTANTS
  Keys = {k1, k2}
  BlockLen = 3
  Blocks <- MCBlocks
  ChunkSizes = {1, 2}
  MaxThreads = 2
  SharedMutable = TRUE
SPECIFICATION Spec
INVARIANT TypeOK
PROPERTIES SerialEquivalence AllMerged
CHECK_DEADLOCK FALSE
