--------------------------- MODULE MCPrecompiled2x ---------------------------
(* tx_count_limit is committed with a valid value, tx_gas_limit is not set *)
(* yet; no grant is committed.                                            *)
EXTENDS Precompiled2x

MCConfigRemote == [k \in ConfigKeys |-> IF k = CountKey THEN <<TxCountLimitMin>> ELSE <<>>]
=============================================================================
