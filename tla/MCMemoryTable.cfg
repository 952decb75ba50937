CONSTANTS
  Keys = {r1}
  Values = {0, 1}
  Remote <- MCRemote
  Origins = {o1, o2}
  Authorized = {o1}
  Mode = "Serial"
  Conds <- SomeCond
  MaxEntries = 3
  MaxChanges = 4
  MaxDepth = 2
SPECIFICATION Spec
INVARIANT TypeOK
INVARIANT RevertRestoresExisting
