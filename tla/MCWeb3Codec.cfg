\* Every well-formed wire of the four spec forms, 16-bit fields.
CONSTANTS
  Width = 16
  UInts = {0, 300}
  ChainIds = {1, 65535}
  LegacyVs = {0, 27, 28, 34, 35, 38, 65535}
  YParities = {0, 1}
  DataLens = {0, 56}
  Counts = {0, 1}
  ToZero = {FALSE}
  TypeBytes = {0, 1, 2, 3}
  Wires <- MCWires
SPECIFICATION Spec
INVARIANTS HashedIsWire SigningPayload TarsFeesFromWire
\* A rejected wire stops at decode; an accepted one after toTarsTransaction.
CHECK_DEADLOCK FALSE
