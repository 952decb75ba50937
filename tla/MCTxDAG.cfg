CONSTANTS
  Fields = {a, b, c}
  Workers = {w1, w2, w3}
  BlockLen = 4
  Blocks <- MCBlocks
SPECIFICATION Spec
INVARIANTS TypeOK ConflictOrder
PROPERTY Terminates
CHECK_DEADLOCK FALSE
