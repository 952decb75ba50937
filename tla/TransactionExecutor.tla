------------------------- MODULE TransactionExecutor -------------------------
(***************************************************************************)
(* One transaction of the executor (spec 4.7) over the Rollbackable        *)
(* journal, with the precompiled contracts it dispatches to (spec 4.6):    *)
(* SystemConfigPrecompiled and AccountPrecompiled of bcos-executor, which  *)
(* write through _executive->storage().setRow, i.e. writeOne on the        *)
(* journal.  A call to any other address runs the opaque VM: it enters a   *)
(* frame (a savepoint), makes any writes to contract storage, calls        *)
(* further contracts or precompiles, and returns (keep) or reverts         *)
(* (rollback to the frame's savepoint).                                    *)
(*                                                                         *)
(* Storage keys are [table, key] rows: s_config rows, the status and       *)
(* last_update rows of account tables, and contract storage VmKeys.  A     *)
(* config row holds (value, enableNumber); an account row one field.       *)
(***************************************************************************)
EXTENDS Naturals, Sequences, SequencesExt

CONSTANTS
  VmKeys, VmValues,     \* contract storage and what the VM writes there
  ConfigNames,          \* configKey arguments of setValueByKey
  ToLower,              \* boost::to_lower on them: ConfigNames -> ConfigNames
  GasKey, PeriodKey, CountKey, VersionKey,   \* the keys of m_sysValueCmp
  ConfigInputs,         \* configValue arguments: integers, EmptyValue, NotNumber
  EmptyValue, NotNumber,
  TxGasLimitMin, TxCountLimitMin, MinVersion, MaxVersion,
  Number,               \* blockContext->number()
  Accounts,             \* account tables that exist
  Senders, AccountMgr,  \* m_sender of a call; ACCOUNT_MGR_ADDRESS
  StatusInputs,         \* uint16 statuses
  Addresses,            \* call recipients
  Registry,             \* m_constantPrecompiled: Addresses -> names or "none"
  LowerRows,            \* rows committed by earlier blocks
  MaxRecords, MaxDepth, None, Tomb

SysConfig == "s_config"
KnownKeys == {GasKey, PeriodKey, CountKey, VersionKey}

CfgKey(k) == [table |-> SysConfig, key |-> k]
StatusKey(a) == [table |-> a, key |-> "status"]
UpdateKey(a) == [table |-> a, key |-> "last_update"]

ConfigRow(v) == [value |-> v, enable |-> Number + 1]

RowKeys ==
  {CfgKey(ToLower[n]) : n \in ConfigNames}
  \cup {StatusKey(a) : a \in Accounts} \cup {UpdateKey(a) : a \in Accounts}

RowValues ==
  [value : ConfigInputs, enable : 0 .. Number + 1]
  \cup [status : StatusInputs] \cup [number : 0 .. Number]

VARIABLES front, records, sps

vars == <<front, records, sps>>

R == INSTANCE Rollbackable WITH
       Keys <- VmKeys \cup RowKeys, Values <- VmValues \cup RowValues,
       Lower <- LowerRows, Ops <- {"writeOne", "writeSome", "removeSome"}

(* m_sysValueCmp: the predicate of each known key.                        *)
SysValueCmp(k, v) ==
  CASE k = GasKey     -> v > TxGasLimitMin
    [] k = PeriodKey  -> v >= 1
    [] k = CountKey   -> v >= TxCountLimitMin
    [] k = VersionKey -> v >= MinVersion /\ v <= MaxVersion

(* checkValueValid: an empty value is invalid; the value must convert to  *)
(* int64 (lexical_cast or the version converter throws otherwise);        *)
(* m_sysValueCmp.at(key) throws for an unknown key; the catch returns     *)
(* false.                                                                  *)
CheckValueValid(k, v) ==
  /\ v # EmptyValue
  /\ v # NotNumber
  /\ k \in KnownKeys
  /\ SysValueCmp(k, v)

Init == R!Init

(* SystemConfigPrecompiled::call, setValueByKey(string,string): lower the *)
(* key, validate, then setRow(key, {value, number + 1}); an invalid value *)
(* returns CODE_INVALID_CONFIGURATION_VALUES and writes nothing.          *)
SetValueByKey(addr, n, v) ==
  LET k == ToLower[n] IN
  /\ Registry[addr] = "SystemConfig"
  /\ IF CheckValueValid(k, v)
       THEN R!WriteOne(CfgKey(k), ConfigRow(v))
       ELSE UNCHANGED vars

SetAccountStatus(a, s, sender) ==
  IF sender # AccountMgr
    THEN UNCHANGED vars
    ELSE /\ Len(records) + 2 <= MaxRecords
         /\ LET fr1  == [front EXCEPT ![StatusKey(a)] = [status |-> s]]
                rec1 == [key |-> StatusKey(a), old |-> R!ReadFront(front, StatusKey(a))]
                rec2 == [key |-> UpdateKey(a), old |-> R!ReadFront(fr1, UpdateKey(a))]
            IN /\ records' = records \o <<rec1, rec2>>
               /\ front' = [fr1 EXCEPT ![UpdateKey(a)] = [number |-> Number]]
         /\ UNCHANGED sps

(* A call to an address with no precompiled: the VM enters a frame.      *)
CallContract(addr) ==
  /\ Registry[addr] = "none"
  /\ R!Savepoint

(* The VM's own steps inside a frame: contract storage writes and        *)
(* removes, and the frame's return or revert.                            *)
VmStep ==
  \/ sps # <<>> /\ \E k \in VmKeys, v \in VmValues : R!WriteOne(k, v)
  \/ sps # <<>> /\ \E ks \in SUBSET VmKeys \ {{}} :
                     \E vals \in [ks -> VmValues] : R!WriteSome(ks, vals)
  \/ sps # <<>> /\ \E ks \in SUBSET VmKeys \ {{}} : R!RemoveSome(ks)
  \/ R!Keep
  \/ R!Rollback

Next ==
  \/ \E addr \in Addresses : CallContract(addr)
  \/ \E addr \in Addresses, n \in ConfigNames, v \in ConfigInputs : SetValueByKey(addr, n, v)
  \/ \E a \in Accounts, s \in StatusInputs, sender \in Senders : SetAccountStatus(a, s, sender)
  \/ VmStep

Spec == Init /\ [][Next]_vars

(* getSysConfigByKey: the row's (value, enableNumber), ("", -1) if none. *)
GetSysConfigByKey(k) ==
  LET row == R!ReadOne(front, CfgKey(k))
  IN  IF row = None THEN <<"", -1>> ELSE <<row.value, row.enable>>

(* getAccountStatus: (0, 0) without a status row; otherwise the status    *)
(* and the last_update row, read without a check that it exists.          *)
AccountStatusRowsRead(a) ==
  <<R!ReadOne(front, StatusKey(a)), R!ReadOne(front, UpdateKey(a))>>

-----------------------------------------------------------------------------
TypeOK == R!TypeOK

(* P2 through the precompiles: rolling back to any live frame gives back *)
(* what every read saw when the frame was entered, config rows and       *)
(* account rows written by precompiles inside nested frames included.    *)
RollbackRestores == R!RollbackRestores

=============================================================================
