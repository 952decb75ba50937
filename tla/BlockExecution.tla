--------------------------- MODULE BlockExecution ---------------------------
(***************************************************************************)
(* What a transaction scheduler promises for one block: the committed     *)
(* state and the receipt list are always those of the serial execution of *)
(* a prefix of the block, and that prefix only grows.  This is the serial *)
(* scheduler of the spec (section 4.8, property P1) written as an         *)
(* abstract specification; SchedulerParallel is checked to implement it. *)
(*                                                                         *)
(* A transaction is abstracted to the keys it reads and the keys it       *)
(* writes (the VM is an opaque callback over the state interface, spec    *)
(* section 6).  Transaction i writes the value i, and its receipt records *)
(* the values it read, so a receipt differs exactly when the transaction  *)
(* observed a different state.                                            *)
(***************************************************************************)
EXTENDS Naturals, Sequences, TLC

CONSTANTS
  Keys,     \* state keys (table, row) of the block
  Blocks    \* the blocks to check: sequences of [reads, writes] programs

VARIABLES
  block,     \* the transactions handed to the scheduler (fixed after Init)
  state,     \* committed state: Keys -> value (0 = genesis value)
  receipts,  \* receipts emitted so far, in block order
  executed   \* length of the executed prefix of the block

vars == <<block, state, receipts, executed>>

GenesisState == [k \in Keys |-> 0]

(* The receipt and the writes of transaction i run on the state view.  *)
Receipt(i, prog, view) == [tx |-> i, seen |-> [k \in prog.reads |-> view[k]]]
TxWrites(i, prog) == [k \in prog.writes |-> i]

(* Serial reference: run transactions from..to of blk one by one.       *)
RECURSIVE SerialRun(_, _, _, _)
SerialRun(blk, from, to, st) ==
  IF from > to THEN [state |-> st, receipts |-> <<>>]
  ELSE LET r    == Receipt(from, blk[from], st)
           rest == SerialRun(blk, from + 1, to, TxWrites(from, blk[from]) @@ st)
       IN  [state |-> rest.state, receipts |-> <<r>> \o rest.receipts]

Init ==
  /\ block \in Blocks
  /\ state = GenesisState
  /\ receipts = <<>>
  /\ executed = 0

(* Commit the next n - executed transactions as if run serially.        *)
CommitPrefix(n) ==
  LET run == SerialRun(block, executed + 1, n, state)
  IN  /\ state' = run.state
      /\ receipts' = receipts \o run.receipts
      /\ executed' = n
      /\ UNCHANGED block

Next == \E n \in executed + 1 .. Len(block) : CommitPrefix(n)

Spec == Init /\ [][Next]_vars
=============================================================================
