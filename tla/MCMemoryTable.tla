---------------------------- MODULE MCMemoryTable ----------------------------
(***************************************************************************)
(* MemoryTable with one row key whose state storage holds one entry, two *)
(* field values, one authorized origin and one other origin.             *)
(***************************************************************************)
EXTENDS MemoryTable

MCRemote == [k \in Keys |-> <<0>>]

(* Every condition with a field value: what the precompiled callers pass. *)
SomeCond == [op : Ops, v : Values]

(* Conditions including the empty one (select/update/remove all rows).   *)
AnyCond == {NoCond} \cup [op : {"eq", "gt"}, v : Values]
=============================================================================
