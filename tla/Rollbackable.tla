---------------------------- MODULE Rollbackable ----------------------------
(***************************************************************************)
(* Rollbackable<Storage> (src/transaction-executor/bcos-transaction-      *)
(* executor/RollbackableStorage.h): a journal of (key, oldValue) records  *)
(* in front of a storage; current() is the journal length and            *)
(* rollback(savepoint) replays the suffix in reverse.                     *)
(*                                                                         *)
(* The wrapped storage is a multi-layer store (spec 4.3; MultiLayerStorage *)
(* is not part of src): a mutable front layer holding a value or a        *)
(* tombstone per key over lower layers Lower, which one transaction never *)
(* changes.  READ_FRONT reads the front layer only; remove writes a       *)
(* tombstone to it.                                                       *)
(*                                                                         *)
(* The executor (spec 4.7) takes a savepoint before a call and, when the  *)
(* call reverts, rolls back to it; nested calls nest savepoints.  The     *)
(* stack sps holds the live savepoints with the state at the time.        *)
(***************************************************************************)
EXTENDS Naturals, Sequences, SequencesExt

CONSTANTS
  Keys,        \* state keys
  Values,      \* entries a write can store
  Lower,       \* the immutable layers and the backend: Keys -> Values \cup {None}
  Ops,         \* mutating calls the executor makes: subset of OpNames
  MaxRecords,  \* bound on the journal length
  MaxDepth,    \* bound on nested savepoints
  None,        \* std::nullopt: no entry
  Tomb         \* a deleted entry in the front layer

OpNames == {"writeOne", "writeSome", "removeSome"}

ASSUME Ops \subseteq OpNames
ASSUME None \notin Values /\ Tomb \notin Values /\ None # Tomb
ASSUME Lower \in [Keys -> Values \cup {None}]

VARIABLES
  front,    \* the mutable front layer: Keys -> Values \cup {Tomb, None}
  records,  \* m_records: sequence of [key, oldValue]
  sps       \* live savepoints, innermost last: [sp, view]

vars == <<front, records, sps>>

(* Read through the layers: the first entry found wins, a tombstone reads *)
(* as absent.                                                             *)
ReadOne(fr, k) == CASE fr[k] = Tomb -> None
                    [] fr[k] = None -> Lower[k]
                    [] OTHER        -> fr[k]

View(fr) == [k \in Keys |-> ReadOne(fr, k)]

(* readOne(storage, key, READ_FRONT): the front layer only.              *)
ReadFront(fr, k) == IF fr[k] \in Values THEN fr[k] ELSE None

(* One step of the rollback loop: writeOne the old value, else removeOne. *)
UndoRecord(fr, r) == [fr EXCEPT ![r.key] = IF r.old = None THEN Tomb ELSE r.old]

(* Seeded fault: the suffix replayed oldest first.                      *)
RECURSIVE UndoForward(_, _, _, _)
UndoForward(fr, recs, from, to) ==
  IF from > to THEN fr
  ELSE UndoForward(UndoRecord(fr, recs[from]), recs, from + 1, to)
UndoToForward(fr, recs, index, savepoint) ==
  UndoForward(fr, recs, savepoint + 1, index)

(* rollback(savepoint): records index .. savepoint + 1, last first.        *)
RECURSIVE UndoTo(_, _, _, _)
UndoTo(fr, recs, index, savepoint) ==
  IF index <= savepoint THEN fr
  ELSE UndoTo(UndoRecord(fr, recs[index]), recs, index - 1, savepoint)

Init ==
  /\ front = [k \in Keys |-> None]
  /\ records = <<>>
  /\ sps = <<>>

(* The executor takes a savepoint: current().                             *)
Savepoint ==
  /\ Len(sps) < MaxDepth
  /\ sps' = Append(sps, [sp |-> Len(records), view |-> View(front)])
  /\ UNCHANGED <<front, records>>

(* The call succeeded: the savepoint is dropped, the writes kept.         *)
Keep ==
  /\ sps # <<>>
  /\ sps' = Front(sps)
  /\ UNCHANGED <<front, records>>

(* The call reverted: rollback(savepoint).                                *)
Rollback ==
  /\ sps # <<>>
  /\ front' = UndoTo(front, records, Len(records), Last(sps).sp)
  /\ records' = SubSeq(records, 1, Last(sps).sp)
  /\ sps' = Front(sps)

(* writeOne: record the READ_FRONT old value, then write.                 *)
WriteOne(k, v) ==
  /\ "writeOne" \in Ops
  /\ Len(records) < MaxRecords
  /\ records' = Append(records, [key |-> k, old |-> ReadFront(front, k)])
  /\ front' = [front EXCEPT ![k] = v]
  /\ UNCHANGED sps

(* writeSome: readSome(READ_FRONT) of all keys, one record per key, then  *)
(* the batch write.                                                       *)
WriteSome(ks, vals) ==
  /\ "writeSome" \in Ops
  /\ Len(records) + Cardinality(ks) <= MaxRecords
  /\ records' = records \o [i \in 1 .. Cardinality(ks) |->
                  LET k == SetToSeq(ks)[i] IN [key |-> k, old |-> ReadFront(front, k)]]
  /\ front' = [k \in Keys |-> IF k \in ks THEN vals[k] ELSE front[k]]
  /\ UNCHANGED sps

(* Seeded fault: every removed key journalled with its raw front entry. *)
RemoveSomeRawEntry(ks) ==
  /\ "removeSome" \in Ops
  /\ Len(records) + Cardinality(ks) <= MaxRecords
  /\ records' = records \o [i \in 1 .. Cardinality(ks) |->
                  LET k == SetToSeq(ks)[i] IN [key |-> k, old |-> front[k]]]
  /\ front' = [k \in Keys |-> IF k \in ks THEN Tomb ELSE front[k]]
  /\ UNCHANGED sps

(* removeSome: readSome(READ_FRONT); a record only for a key with a value *)
(* in the front layer; then every key removed.                            *)
RemoveSome(ks) ==
  LET held == {k \in ks : ReadFront(front, k) # None}
  IN  /\ "removeSome" \in Ops
      /\ Len(records) + Cardinality(held) <= MaxRecords
      /\ records' = records \o [i \in 1 .. Cardinality(held) |->
                      LET k == SetToSeq(held)[i] IN [key |-> k, old |-> front[k]]]
      /\ front' = [k \in Keys |-> IF k \in ks THEN Tomb ELSE front[k]]
      /\ UNCHANGED sps

NonEmptyKeySets == SUBSET Keys \ {{}}

Next ==
  \/ Savepoint \/ Keep \/ Rollback
  \/ \E k \in Keys, v \in Values : WriteOne(k, v)
  \/ \E ks \in NonEmptyKeySets : \E vals \in [ks -> Values] : WriteSome(ks, vals)
  \/ \E ks \in NonEmptyKeySets : RemoveSome(ks)

Spec == Init /\ [][Next]_vars

-----------------------------------------------------------------------------
TypeOK ==
  /\ front \in [Keys -> Values \cup {Tomb, None}]
  /\ records \in Seq([key : Keys, old : Values \cup {None}])
  /\ Len(records) <= MaxRecords
  /\ \A i \in 1 .. Len(sps) : sps[i].sp \in 0 .. Len(records)

(* P2 / I2: for every live savepoint, rolling the journal back to it     *)
(* gives the state every read saw when the savepoint was taken, whatever *)
(* writes, batch writes, removes, inner savepoints and inner rollbacks   *)
(* came after it.                                                        *)
RollbackRestores ==
  \A i \in 1 .. Len(sps) :
    View(UndoTo(front, records, Len(records), sps[i].sp)) = sps[i].view
=============================================================================
