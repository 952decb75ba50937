CONSTANTS
  VmKeys = {k1}
  VmValues = {v1, v2}
  ConfigNames = {"tx_gas_limit", "TX_GAS_LIMIT", "tx_count_limit", "foo"}
  ToLower <- MCToLower
  GasKey = "tx_gas_limit"
  PeriodKey = "consensus_leader_period"
  CountKey = "tx_count_limit"
  VersionKey = "compatibility_version"
  ConfigInputs = {0, 1, 2, EmptyValue}
  EmptyValue = EmptyValue
  NotNumber = NotNumber
  TxGasLimitMin = 1
  TxCountLimitMin = 1
  MinVersion = 1
  MaxVersion = 2
  Number = 1
  Accounts = {acct}
  Senders = {mgr, user}
  AccountMgr = mgr
  StatusInputs = {1}
  Addresses = {"0x1000", "0xc0"}
  Registry <- MCRegistry
  LowerRows <- CommittedRows
  MaxRecords = 4
  MaxDepth = 2
  None = None
  Tomb = Tomb
SPECIFICATION Spec
INVARIANT RollbackRestores
