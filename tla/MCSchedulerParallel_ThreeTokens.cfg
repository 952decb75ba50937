CONSTANTS
  Keys = {k1, k2}
  BlockLen = 3
  Blocks <- MCBlocks
  ChunkSizes = {1}
  MaxThreads = 3
  SharedMutable = TRUE
SPECIFICATION Spec
PROPERTIES SerialEquivalence
CHECK_DEADLOCK FALSE
