----------------------------- MODULE MemoryTable -----------------------------
(***************************************************************************)
(* MemoryTable<Mode> (src/libstorage/MemoryTable.h, Table.h): the 2.x      *)
(* table cache with its change log.  Every row key maps to an Entries     *)
(* vector loaded from the state storage on first access; update, insert  *)
(* and remove hand a Change to m_recorder, and a reverted call is undone *)
(* by Table::rollback(change) for each change after the savepoint, newest *)
(* first (the change log and its replay belong to the table factory,     *)
(* which is not under src).                                               *)
(*                                                                         *)
(* An entry is [val, st]: the value of its one field and its status       *)
(* (0 NORMAL, 1 DELETED).  A condition is NoCond (empty) or [op, v].      *)
(***************************************************************************)
EXTENDS Naturals, Sequences, SequencesExt

CONSTANTS
  Keys,            \* row keys of the table
  Values,          \* field values (integers, so gt/ge/lt/le apply)
  Remote,          \* rows in the state storage: Keys -> Seq(Values)
  Origins,         \* transaction origins
  Authorized,      \* m_tableInfo->authorizedAddress (empty: anyone)
  Mode,            \* "Serial" or "Parallel"
  Conds,           \* conditions the callers pass
  MaxEntries,      \* bound on the entries of one key
  MaxChanges,      \* bound on the change log
  MaxDepth         \* bound on nested savepoints

NoCond == [op |-> "none"]   \* a Condition with no conditions
Ops == {"eq", "ne", "gt", "ge", "lt", "le"}

ASSUME Mode \in {"Serial", "Parallel"}
ASSUME Conds \subseteq {NoCond} \cup [op : Ops, v : Values]

VARIABLES
  cache,    \* m_cache: the keys loaded so far -> their entries
  changes,  \* the change log the recorder appends to
  sps       \* live savepoints, innermost last: [sp, view]

vars == <<cache, changes, sps>>

(* m_cache.find(key), else m_remoteDB->select(...) inserted in m_cache.  *)
FromRemote(k) == [i \in DOMAIN Remote[k] |-> [val |-> Remote[k][i], st |-> 0]]

Loaded(k) == IF k \in DOMAIN cache THEN cache[k] ELSE FromRemote(k)

View == [k \in Keys |-> Loaded(k)]

(* checkAuthority: an empty list lets anyone write.                       *)
CheckAuthority(o) == Authorized = {} \/ o \in Authorized

(* Seeded fault: the DELETED check dropped.                              *)
ProcessConditionAnyStatus(e, c) ==
  CASE c.op = "eq" -> e.val = c.v
    [] c.op = "ne" -> e.val # c.v
    [] c.op = "gt" -> e.val > c.v
    [] c.op = "ge" -> e.val >= c.v
    [] c.op = "lt" -> e.val < c.v
    [] c.op = "le" -> e.val <= c.v

(* processCondition: a DELETED entry fails any condition (the check is    *)
(* inside the loop over the conditions).                                  *)
ProcessCondition(e, c) ==
  /\ e.st # 1
  /\ CASE c.op = "eq" -> e.val = c.v
       [] c.op = "ne" -> e.val # c.v
       [] c.op = "gt" -> e.val > c.v
       [] c.op = "ge" -> e.val >= c.v
       [] c.op = "lt" -> e.val < c.v
       [] c.op = "le" -> e.val <= c.v

(* processEntries: an empty condition takes every index.  Indexes are    *)
(* 0-based as in the code.                                                *)
ProcessEntries(es, c) ==
  IF c.op = "none" THEN {i - 1 : i \in DOMAIN es}
  ELSE {i - 1 : i \in {j \in DOMAIN es : ProcessCondition(es[j], c)}}

(* m_recorder: Serial appends the change, Parallel drops it.              *)
Record(kind, k, recs) ==
  changes' = IF Mode = "Serial"
             THEN Append(changes, [kind |-> kind, key |-> k, recs |-> recs])
             ELSE changes

(* Entries::removeEntry(index).  Its body is not under src (Table.h:107  *)
(* declares it).  Entries counts from 0 everywhere the source shows it:   *)
(* get(i) in update and remove, and their change records.  So            *)
(* removeEntry(index) is read as erasing m_entries[index].  An index at   *)
(* or past size() is read as erasing nothing (a checked erase; an         *)
(* unchecked erase there would be undefined behaviour).  Insert records   *)
(* size() + 1, one past the entry it appended.                            *)
RemoveEntry(es, index) ==
  IF index + 1 \in DOMAIN es THEN RemoveAt(es, index + 1) ELSE es

(* MemoryTable<Serial>::rollback(change); Parallel does nothing.          *)
RollbackChange(ca, ch) ==
  IF Mode = "Parallel" THEN ca
  ELSE CASE ch.kind = "Insert" ->
              LET es == RemoveEntry(ca[ch.key], ch.recs[1].index)
              IN  IF es = <<>> THEN [x \in DOMAIN ca \ {ch.key} |-> ca[x]]
                  ELSE [ca EXCEPT ![ch.key] = es]
         [] ch.kind = "Update" ->
              [ca EXCEPT ![ch.key] = [i \in DOMAIN @ |->
                 IF \E r \in Range(ch.recs) : r.index = i - 1
                 THEN [@[i] EXCEPT !.val = (CHOOSE r \in Range(ch.recs) : r.index = i - 1).old]
                 ELSE @[i]]]
         [] ch.kind = "Remove" ->
              [ca EXCEPT ![ch.key] = [i \in DOMAIN @ |->
                 IF \E r \in Range(ch.recs) : r.index = i - 1
                 THEN [@[i] EXCEPT !.st = 0] ELSE @[i]]]

(* The table factory's rollback(savepoint): changes newest first.        *)
RECURSIVE RollbackTo(_, _, _, _)
RollbackTo(ca, chs, n, sp) ==
  IF n <= sp THEN ca ELSE RollbackTo(RollbackChange(ca, chs[n]), chs, n - 1, sp)

Init ==
  /\ cache = <<>>
  /\ changes = <<>>
  /\ sps = <<>>

CanLog == Len(changes) < MaxChanges

(* select: load the key; nothing is recorded.                             *)
Select(k) ==
  /\ cache' = (k :> Loaded(k)) @@ cache
  /\ UNCHANGED <<changes, sps>>

(* update: authority, load, checkField, then every matched entry gets the *)
(* new value and a record of the old one.                                 *)
Update(k, v, c, o, fieldsOk) ==
  /\ CanLog
  /\ IF ~CheckAuthority(o) THEN UNCHANGED <<cache, changes>>
     ELSE IF ~fieldsOk THEN cache' = (k :> Loaded(k)) @@ cache /\ UNCHANGED changes
     ELSE LET es  == Loaded(k)
              idx == ProcessEntries(es, c)
          IN  /\ cache' = (k :> [i \in DOMAIN es |->
                             IF i - 1 \in idx THEN [es[i] EXCEPT !.val = v] ELSE es[i]])
                          @@ cache
              /\ Record("Update", k, SetToSortSeq({[index |-> i, old |-> es[i + 1].val] : i \in idx},
                                                LAMBDA a, b : a.index < b.index))
  /\ UNCHANGED sps

(* insert: authority, load, checkField, record index size() + 1, append. *)
Insert(k, v, o, fieldsOk) ==
  /\ CanLog /\ Len(Loaded(k)) < MaxEntries
  /\ IF ~CheckAuthority(o) THEN UNCHANGED <<cache, changes>>
     ELSE IF ~fieldsOk THEN cache' = (k :> Loaded(k)) @@ cache /\ UNCHANGED changes
     ELSE /\ Record("Insert", k, <<[index |-> Len(Loaded(k)) + 1]>>)
          /\ cache' = (k :> Append(Loaded(k), [val |-> v, st |-> 0])) @@ cache
  /\ UNCHANGED sps

(* remove: authority, load, every matched entry set DELETED and recorded. *)
RemoveRows(k, c, o) ==
  /\ CanLog
  /\ IF ~CheckAuthority(o) THEN UNCHANGED <<cache, changes>>
     ELSE LET es  == Loaded(k)
              idx == ProcessEntries(es, c)
          IN  /\ cache' = (k :> [i \in DOMAIN es |->
                             IF i - 1 \in idx THEN [es[i] EXCEPT !.st = 1] ELSE es[i]])
                          @@ cache
              /\ Record("Remove", k, SetToSortSeq({[index |-> i] : i \in idx},
                                                LAMBDA a, b : a.index < b.index))
  /\ UNCHANGED sps

(* Seeded fault: the savepoint one past the end of the log.              *)
SavepointPastEnd ==
  /\ Len(sps) < MaxDepth
  /\ sps' = Append(sps, [sp |-> Len(changes) + 1, view |-> View])
  /\ UNCHANGED <<cache, changes>>

(* The executive takes a savepoint: the change log length.               *)
Savepoint ==
  /\ Len(sps) < MaxDepth
  /\ sps' = Append(sps, [sp |-> Len(changes), view |-> View])
  /\ UNCHANGED <<cache, changes>>

(* The call succeeded: the savepoint is dropped.                          *)
Keep ==
  /\ sps # <<>>
  /\ sps' = Front(sps)
  /\ UNCHANGED <<cache, changes>>

(* The call reverted: every change after the savepoint rolled back.      *)
Revert ==
  /\ sps # <<>>
  /\ cache' = RollbackTo(cache, changes, Len(changes), Last(sps).sp)
  /\ changes' = SubSeq(changes, 1, Last(sps).sp)
  /\ sps' = Front(sps)

Next ==
  \/ Savepoint \/ Keep \/ Revert
  \/ \E k \in Keys : Select(k)
  \/ \E k \in Keys, v \in Values, c \in Conds, o \in Origins, ok \in BOOLEAN :
        Update(k, v, c, o, ok)
  \/ \E k \in Keys, v \in Values, o \in Origins, ok \in BOOLEAN : Insert(k, v, o, ok)
  \/ \E k \in Keys, c \in Conds, o \in Origins : RemoveRows(k, c, o)

Spec == Init /\ [][Next]_vars

-----------------------------------------------------------------------------
Entry == [val : Values, st : {0, 1}]

TypeOK ==
  /\ DOMAIN cache \subseteq Keys
  /\ \A k \in DOMAIN cache : cache[k] \in Seq(Entry) /\ Len(cache[k]) <= MaxEntries
  /\ \A i \in 1 .. Len(changes) : changes[i].key \in Keys
  /\ \A i \in 1 .. Len(sps) : sps[i].sp \in 0 .. Len(changes)

(* A reverted call gives back every entry the table held at the          *)
(* savepoint, value and DELETED status alike, for every live savepoint and *)
(* whatever updates, inserts and removes (matched by any condition) and    *)
(* inner reverts came after.  The entries come back at their positions,    *)
(* as a prefix of the key's entries.  An entry inserted after the          *)
(* savepoint is not removed: insert's record is one past it                *)
(* (MemoryTable.h:224), so the rows a revert leaves may run longer than    *)
(* the saved ones; Precompiled2x's UniqueGrant run shows what follows.   *)
RevertRestoresExisting ==
  \A i \in 1 .. Len(sps) :
    LET ca == RollbackTo(cache, changes, Len(changes), sps[i].sp)
    IN  \A k \in Keys :
          LET rows == IF k \in DOMAIN ca THEN ca[k] ELSE FromRemote(k)
          IN  /\ Len(rows) >= Len(sps[i].view[k])
              /\ SubSeq(rows, 1, Len(sps[i].view[k])) = sps[i].view[k]
=============================================================================
