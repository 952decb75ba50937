---------------------------- MODULE ReadWriteSet ----------------------------
(***************************************************************************)
(* ReadWriteSetStorage (src/transaction-scheduler/.../ReadWriteSetStorage.h)*)
(* as pure operators.  The tracked set m_readWriteSet is a function from   *)
(* the keys touched so far to a ReadWriteFlag [read, write]; the empty     *)
(* set is the function with empty domain.                                 *)
(***************************************************************************)
EXTENDS TLC

Flags == [read : BOOLEAN, write : BOOLEAN]

EmptySet == <<>>

(* Seeded fault: the flag assigned instead of OR-ed in.                  *)
PutSetOverwrite(rws, write, key) ==
  (key :> [read |-> ~write, write |-> write]) @@ rws

(* putSet(write, key): insert the key with the flag, or OR the flag in.  *)
PutSet(rws, write, key) ==
  IF key \in DOMAIN rws
  THEN [rws EXCEPT ![key] = [read |-> @.read \/ ~write, write |-> @.write \/ write]]
  ELSE (key :> [read |-> ~write, write |-> write]) @@ rws

(* read(keys) / write(keys) / remove(keys): putSet over every key.       *)
RECURSIVE PutAll(_, _, _)
PutAll(rws, write, keys) ==
  IF keys = {} THEN rws
  ELSE LET k == CHOOSE x \in keys : TRUE
       IN  PutAll(PutSet(rws, write, k), write, keys \ {k})

(* mergeWriteSet(input): putSet(true, key) for every key input wrote.    *)
MergeWriteSet(rws, input) ==
  PutAll(rws, TRUE, {k \in DOMAIN input : input[k].write})

(* Seeded fault: the test run the wrong way round, on the keys lhs read. *)
HasRAWIntersectionSwapped(lhs, rhs) ==
  /\ DOMAIN lhs # {}
  /\ DOMAIN rhs # {}
  /\ \E k \in DOMAIN lhs : lhs[k].read /\ k \in DOMAIN rhs

(* hasRAWIntersection(rhs), called on lhs: some key rhs read is present  *)
(* in lhs with any flag; FALSE when either set is empty.                 *)
HasRAWIntersection(lhs, rhs) ==
  /\ DOMAIN lhs # {}
  /\ DOMAIN rhs # {}
  /\ \E k \in DOMAIN rhs : rhs[k].read /\ k \in DOMAIN lhs
=============================================================================
