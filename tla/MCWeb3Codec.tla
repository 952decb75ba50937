----------------------------- MODULE MCWeb3Codec -----------------------------
(***************************************************************************)
(* Raw transactions for Web3Codec: every well-formed wire of the spec's    *)
(* four forms over small field values, typed wires under each byte of     *)
(* TypeBytes (0x00 is no type byte at all), a string header instead of a  *)
(* list on each branch, and the empty input.                              *)
(***************************************************************************)
EXTENDS Web3Codec

CONSTANTS
  UInts,      \* nonce, fees, gas limit, value (lengths 1 and more)
  ChainIds,   \* chain ids of typed wires
  LegacyVs,   \* V of legacy wires
  YParities,  \* signature_y_parity of typed wires
  DataLens,   \* lengths of the data field (never 1: its RLP depends on the byte)
  Counts,     \* access-list entries, blob hashes
  TypeBytes,  \* type bytes of typed wires
  ToZero      \* whether `to` is the zero address

Wire(prefix, items) ==
  [empty |-> FALSE, prefix |-> prefix, isList |-> TRUE,
   hdr |-> PayloadLen(items), items |-> items]

LegacyWires ==
  { Wire(NoPrefix, <<U(n), U(gp), U(g), A(z), U(n), B(d), U(v)>> \o RS) :
      z \in ToZero, n \in UInts, gp \in UInts, g \in UInts, d \in DataLens, v \in LegacyVs }

(* The layout the spec gives a type: 1 has one fee, 3 adds the blob fields,*)
(* any other type byte carries the EIP-1559 layout.                       *)
TypedItems(p, c, n, f1, f2, g, z, d, a, bf, bs, y) ==
  <<U(c), U(n), U(f1)>>
  \o (IF p = EIP2930 THEN <<>> ELSE <<U(f2)>>)
  \o <<U(g), A(z), U(n), B(d), L(AccessEntryLen * a)>>
  \o (IF p = EIP4844 THEN <<U(bf), L(HashLen * bs)>> ELSE <<>>)
  \o <<U(y)>> \o RS

TypedWires ==
  { Wire(p, TypedItems(p, c, n, f1, f2, 0, z, d, a, bf, bs, y)) :
      z \in ToZero, p \in TypeBytes, c \in ChainIds, n \in UInts, f1 \in UInts, f2 \in UInts,
      d \in DataLens, a \in Counts, bf \in UInts, bs \in Counts, y \in YParities }

(* The first byte after the type is a string header, not a list.          *)
NotLists == { [w EXCEPT !.isList = FALSE] :
                w \in { Wire(NoPrefix, <<U(0), U(0), U(0), A(FALSE), U(0), B(0), U(27)>> \o RS),
                        Wire(EIP1559, TypedItems(EIP1559, 1, 0, 0, 0, 0, FALSE, 0, 0, 0, 0, 0)) } }

EmptyInput == [empty |-> TRUE, prefix |-> NoPrefix, isList |-> FALSE, hdr |-> 0, items |-> <<>>]

MCWires == LegacyWires \cup TypedWires \cup NotLists \cup {EmptyInput}
=============================================================================
