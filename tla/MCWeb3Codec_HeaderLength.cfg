\* Wires sent to the zero address besides others, and typed wires under type
\* byte 4, which no EIP defines, besides EIP-1559.  Either alone violates
\* HashedIsWire; with ToZero = {FALSE} the trace is the type-4 one.
CONSTANTS
  Width = 16
  UInts = {0, 300}
  ChainIds = {1, 65535}
  LegacyVs = {0, 27, 28, 34, 35, 38, 65535}
  YParities = {0, 1}
  DataLens = {0, 56}
  Counts = {0, 1}
  ToZero = {FALSE, TRUE}
  TypeBytes = {2, 4}
  Wires <- MCWires
SPECIFICATION Spec
INVARIANT HashedIsWire
\* A rejected wire stops at decode; an accepted one after toTarsTransaction.
CHECK_DEADLOCK FALSE
