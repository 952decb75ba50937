------------------------------ MODULE MCTxDAG ------------------------------
(* Every block of up to BlockLen transactions over Fields, each a serial  *)
(* transaction or a DAG transfer with one or two critical fields.          *)
EXTENDS TxDAG

CONSTANT BlockLen

MCTxs == {[para |-> FALSE, crit |-> {}]} \cup [para : {TRUE}, crit : SUBSET Fields \ {{}}]

MCBlocks == UNION {[1 .. n -> MCTxs] : n \in 1 .. BlockLen}

(* Blocks of DAG transfers only: hasFinished() then agrees with any        *)
(* reading of its definition, every vertex being a transfer.               *)
MCTransferBlocks == UNION {[1 .. n -> MCTxs \ {[para |-> FALSE, crit |-> {}]}] : n \in 1 .. BlockLen}
=============================================================================
