CONSTANTS
  Fields = {a, b}
  Workers = {w1}
  BlockLen = 4
  Blocks <- MCTransferBlocks
SPECIFICATION Spec
INVARIANT BlockReceipts
CHECK_DEADLOCK FALSE
