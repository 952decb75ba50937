CONSTANTS
  CountKey = ck
  GasKey = gk
  ConfigKeys = {ck, gk}
  ConfigValues = {0, 1}
  TxCountLimitMin = 1
  TxGasLimitMin = 1
  ConfigRemote <- MCConfigRemote
  Tables = {t1, sc}
  SysTables = {sc}
  Addrs = {1, 2}
  Origins = {o1, o2}
  ConfigAuthorized = {o1}
  AccessAuthorized = {o1}
  MaxEntries = 2
  MaxChanges = 3
  MaxDepth = 2
SPECIFICATION Spec
INVARIANT UniqueGrant
