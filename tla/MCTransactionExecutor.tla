------------------------ MODULE MCTransactionExecutor ------------------------
(***************************************************************************)
(* Contract keys VmKeys; the caller may name tx_gas_limit,              *)
(* TX_GAS_LIMIT, tx_count_limit or an unknown key.  EmptyRows: nothing is *)
(* committed below the journal yet.  CommittedRows: tx_count_limit was   *)
(* set and k1 written by earlier blocks.                                   *)
(***************************************************************************)
EXTENDS TransactionExecutor

MCToLower == [n \in ConfigNames |-> IF n = "TX_GAS_LIMIT" THEN "tx_gas_limit" ELSE n]

MCRegistry == [a \in Addresses |-> IF a = "0x1000" THEN "SystemConfig" ELSE "none"]

EmptyRows == [k \in VmKeys \cup RowKeys |-> None]

CommittedRows ==
  [k \in VmKeys \cup RowKeys |->
     CASE k = CfgKey(CountKey) -> [value |-> TxCountLimitMin, enable |-> 0]
       [] k \in VmKeys          -> CHOOSE v \in VmValues : TRUE
       [] OTHER                 -> None]
=============================================================================
