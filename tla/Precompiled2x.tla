---------------------------- MODULE Precompiled2x ----------------------------
(***************************************************************************)
(* The 2.x system precompiled contracts over their MemoryTables           *)
(* (src/libstorage/SystemConfigPrecompiled.cpp, AuthorityPrecompiled.cpp): *)
(* setValueByKey on _sys_config_, and insert/remove of a (table, address)  *)
(* grant on _sys_table_access_.  Each table is an instance of MemoryTable *)
(* in Serial mode; the executive's savepoints cover both change logs.     *)
(*                                                                         *)
(* A config entry's value is its one field; an access entry's value is    *)
(* the granted address.  The enable number both write is block + 1 and is *)
(* the same for every call of a block, so it is left out; so are the      *)
(* tables' authorized lists, fixed while a block executes.                *)
(***************************************************************************)
EXTENDS Naturals, Sequences, SequencesExt

CONSTANTS
  ConfigKeys,      \* keys of _sys_config_
  CountKey,        \* SYSTEM_KEY_TX_COUNT_LIMIT
  GasKey,          \* SYSTEM_KEY_TX_GAS_LIMIT
  ConfigValues,    \* values passed to setValueByKey (uint64 decimals)
  TxCountLimitMin, \* TX_COUNT_LIMIT_MIN
  TxGasLimitMin,   \* TX_GAS_LIMIT_MIN
  ConfigRemote,    \* _sys_config_ rows committed: ConfigKeys -> Seq(ConfigValues)
  Tables,          \* table names passed to the authority contract
  SysTables,       \* the system table names among them (_sys_config_, ...)
  Addrs,           \* addresses passed to the authority contract
  Origins,         \* transaction origins
  ConfigAuthorized,\* authorized writers of _sys_config_
  AccessAuthorized,\* authorized writers of _sys_table_access_
  MaxEntries, MaxChanges, MaxDepth

VARIABLES
  cfgCache, cfgChanges,   \* the _sys_config_ MemoryTable
  aclCache, aclChanges,   \* the _sys_table_access_ MemoryTable
  sps                     \* live savepoints: [cfg, acl, cfgView, aclView]

vars == <<cfgCache, cfgChanges, aclCache, aclChanges, sps>>

CfgSps == [i \in DOMAIN sps |-> [sp |-> sps[i].cfg, view |-> sps[i].cfgView]]
AclSps == [i \in DOMAIN sps |-> [sp |-> sps[i].acl, view |-> sps[i].aclView]]

Cfg == INSTANCE MemoryTable WITH
         Keys <- ConfigKeys, Values <- ConfigValues, Remote <- ConfigRemote,
         Authorized <- ConfigAuthorized, Mode <- "Serial",
         Conds <- {[op |-> "none"]},
         cache <- cfgCache, changes <- cfgChanges, sps <- CfgSps

(* addPrefixToUserTable: a system table keeps its name, any other name   *)
(* becomes USER_TABLE_PREFIX + name.                                       *)
UserTable(n) == [user |-> n]
AddPrefixToUserTable(n) == IF n \in SysTables THEN n ELSE UserTable(n)

AclKeys == {AddPrefixToUserTable(n) : n \in Tables}

EqAddr(a) == [op |-> "eq", v |-> a]   \* condition->EQ(SYS_AC_ADDRESS, addr)

Acl == INSTANCE MemoryTable WITH
         Keys <- AclKeys, Values <- Addrs, Remote <- [t \in AclKeys |-> <<>>],
         Authorized <- AccessAuthorized, Mode <- "Serial",
         Conds <- {EqAddr(a) : a \in Addrs},
         cache <- aclCache, changes <- aclChanges, sps <- AclSps

(* checkValueValid: the two limits have a minimum, any other key passes. *)
CheckValueValid(k, v) ==
  CASE k = CountKey -> v >= TxCountLimitMin
    [] k = GasKey   -> v >= TxGasLimitMin
    [] OTHER        -> TRUE

Init ==
  /\ cfgCache = <<>> /\ cfgChanges = <<>>
  /\ aclCache = <<>> /\ aclChanges = <<>>
  /\ sps = <<>>

(* setValueByKey(key, value): an invalid value returns -40 with nothing   *)
(* done; otherwise select(key, empty condition) and insert when it is     *)
(* empty, else update every entry of the key.                             *)
SetValueByKey(k, v, o) ==
  /\ UNCHANGED <<aclCache, aclChanges, sps>>
  /\ IF ~CheckValueValid(k, v) THEN UNCHANGED <<cfgCache, cfgChanges>>
     ELSE IF Cfg!ProcessEntries(Cfg!Loaded(k), Cfg!NoCond) = {}
          THEN Cfg!Insert(k, v, o, TRUE)
          ELSE Cfg!Update(k, v, Cfg!NoCond, o, TRUE)

(* insert(tableName, addr): prefix the name, select(tableName, EQ addr);  *)
(* -33 when a grant exists, else insert the entry with the origin's       *)
(* access options.                                                         *)
Grant(n, a, o) ==
  LET t == AddPrefixToUserTable(n) IN
  /\ UNCHANGED <<cfgCache, cfgChanges, sps>>
  /\ IF Acl!ProcessEntries(Acl!Loaded(t), EqAddr(a)) # {}
     THEN Acl!Select(t)
     ELSE Acl!Insert(t, a, o, TRUE)

(* remove(tableName, addr): prefix the name; -34 when select finds no     *)
(* grant, else remove with the same condition.                            *)
Revoke(n, a, o) ==
  LET t == AddPrefixToUserTable(n) IN
  /\ UNCHANGED <<cfgCache, cfgChanges, sps>>
  /\ IF Acl!ProcessEntries(Acl!Loaded(t), EqAddr(a)) = {}
     THEN Acl!Select(t)
     ELSE Acl!RemoveRows(t, EqAddr(a), o)

(* The executive's savepoint, kept or reverted, spans both tables.        *)
Savepoint ==
  /\ sps' = Append(sps, [cfg |-> Len(cfgChanges), acl |-> Len(aclChanges),
                         cfgView |-> Cfg!View, aclView |-> Acl!View])
  /\ Cfg!Savepoint /\ Acl!Savepoint

Keep == sps' = Front(sps) /\ Cfg!Keep /\ Acl!Keep

Revert == sps' = Front(sps) /\ Cfg!Revert /\ Acl!Revert

Next ==
  \/ Savepoint \/ Keep \/ Revert
  \/ \E k \in ConfigKeys, v \in ConfigValues, o \in Origins : SetValueByKey(k, v, o)
  \/ \E n \in Tables, a \in Addrs, o \in Origins : Grant(n, a, o) \/ Revoke(n, a, o)

Spec == Init /\ [][Next]_vars

(* queryByName(tableName): prefix the name, select it with an empty       *)
(* condition and list the address of every entry returned, in order.      *)
QueryByName(n) ==
  LET es  == Acl!Loaded(AddPrefixToUserTable(n))
      idx == SetToSortSeq(Acl!ProcessEntries(es, Acl!NoCond), LAMBDA x, y : x < y)
  IN  [j \in 1 .. Len(idx) |-> es[idx[j] + 1].val]

-----------------------------------------------------------------------------
(* An address holds at most one live grant per table.  insert returns   *)
(* -33 when select(tableName, EQ addr) finds a grant, so a grant never    *)
(* adds a second NORMAL entry directly.  The property asks that this hold *)
(* through any sequence of grants, revokes and reverts of the executive's *)
(* savepoints.                                                            *)
UniqueGrant ==
  \A t \in DOMAIN aclCache : \A i, j \in DOMAIN aclCache[t] :
    /\ i # j
    /\ aclCache[t][i].st = 0 /\ aclCache[t][j].st = 0
    => aclCache[t][i].val # aclCache[t][j].val

(* queryByName lists exactly the addresses holding a live grant on the    *)
(* table, each once: an address revoked is no longer listed, and one      *)
(* granted, revoked and granted again is listed once.                     *)
ListsLiveGrantsOnly ==
  \A n \in Tables :
    LET live == {e.val : e \in {e \in ToSet(Acl!View[AddPrefixToUserTable(n)]) : e.st = 0}}
    IN  /\ ToSet(QueryByName(n)) = live
        /\ IsInjective(QueryByName(n))
=============================================================================
