------------------------------ MODULE Web3Codec ------------------------------
(***************************************************************************)
(* The Web3 transaction codec (src/bcos-rpc/.../model/Web3Transaction.cpp, *)
(* Web3Transaction.h): a raw transaction received by eth_sendRawTransaction*)
(* is decoded into a Web3Transaction, then toTarsTransaction hashes its    *)
(* full re-encoding (hash()) and keeps its signing payload (encode()).    *)
(*                                                                         *)
(* A wire is [empty, prefix, isList, hdr, items]: the EIP-2718 type byte  *)
(* (NoPrefix for a legacy list), whether the RLP header that follows is a *)
(* list, the payload length it states, and the items of the list.  An     *)
(* item is U(n), an unsigned integer; B(n), a byte string of n bytes; or  *)
(* L(p), a list whose payload is p bytes; A(z), the 20-byte `to` address,*)
(* z telling whether it is the zero address.  An access-list entry has no *)
(* storage keys (23 bytes), a blob versioned hash is 33 bytes; r and s    *)
(* are 32 bytes.  The RLP primitives and FixedBytes are not under src:   *)
(* encode(to.ref()) writes all 20 bytes, and `tx.to` is true for a       *)
(* non-zero address (FixedBytes::operator bool).  The other RLP primitives *)
(* (codec::rlp length, encode, decodeItems) follow the RLP definition.   *)
(***************************************************************************)
EXTENDS Naturals, Sequences, SequencesExt

CONSTANTS
  Wires,   \* the raw transactions the RPC may receive
  Width    \* the bit width of the uint64 fields (64 in the code)

(* enum class TransactionType : uint8_t.                                  *)
Legacy == 0
EIP2930 == 1
EIP1559 == 2
EIP4844 == 3
NoPrefix == 256                   \* no type byte: a legacy RLP list
BytesHeadBase == 128              \* BYTES_HEAD_BASE (0x80)
U64 == 2^Width

U(n) == [t |-> "u", v |-> n]
B(n) == [t |-> "b", v |-> n]
L(p) == [t |-> "l", v |-> p]
A(z) == [t |-> "a", v |-> z]
AccessEntryLen == 23
HashLen == 33

(* RLP lengths (codec::rlp::length, lengthOfLength).                      *)
RECURSIVE ByteCount(_)
ByteCount(n) == IF n = 0 THEN 0 ELSE 1 + ByteCount(n \div 256)
LengthOfLength(p) == IF p < 56 THEN 1 ELSE 1 + ByteCount(p)
UintLen(n) == IF n >= 1 /\ n < 128 THEN 1 ELSE 1 + ByteCount(n)
ItemLen(it) ==
  CASE it.t = "u" -> UintLen(it.v)
    [] it.t = "a" -> 21
    [] OTHER      -> LengthOfLength(it.v) + it.v
PayloadLen(items) == FoldLeft(LAMBDA acc, it : acc + ItemLen(it), 0, items)

RS == <<B(32), B(32)>>         \* signatureR, signatureS

VARIABLES
  wire,    \* the bytes handed to codec::rlp::decode
  phase,   \* "received", "decoded" (decode returned) or "converted"
  dec,     \* the decode result: the Web3Transaction, or [ok |-> FALSE, err]
  tars     \* toTarsTransaction: the bytes hashed, the extra (signing) bytes

vars == <<wire, phase, dec, tars>>

(* getSignatureV(), in uint64.                                            *)
GetSignatureV(tx) ==
  IF tx.hasChain THEN (tx.chainId * 2 + 35 + tx.v) % U64 ELSE (tx.v + 27) % U64

Err(e) == [ok |-> FALSE, err |-> e]

(* struct Web3Transaction as decode fills it: the uint64 fields, the type *)
(* byte cast to TransactionType, data and the lists by their lengths, and *)
(* the y parity or pre-EIP-155 V.                                         *)
Web3Transaction ==
  [ok : {TRUE}, type : 0 .. 255, hasChain : BOOLEAN, chainId : 0 .. U64 - 1,
   nonce : 0 .. U64 - 1, prio : 0 .. U64 - 1, maxFee : 0 .. U64 - 1,
   gas : 0 .. U64 - 1, value : 0 .. U64 - 1, blobFee : 0 .. U64 - 1,
   v : 0 .. U64 - 1, to0 : BOOLEAN, data : Nat, al : Nat, blobs : Nat]

(* decode, typed branch: type byte, list header, then decodeItems in the *)
(* code's order; EIP2930 takes maxFeePerGas from the gas price.           *)
DecodeTyped(w) ==
  LET it == w.items
      ty == w.prefix
      k  == IF ty = EIP2930 THEN 3 ELSE 4      \* items before gasLimit
      b  == IF ty = EIP4844 THEN 2 ELSE 0      \* blob items
  IN  IF ~w.isList THEN Err("UnexpectedString")
      ELSE [ok |-> TRUE, type |-> ty, hasChain |-> TRUE, chainId |-> it[1].v,
            nonce |-> it[2].v, prio |-> it[3].v,
            maxFee |-> IF ty = EIP2930 THEN it[3].v ELSE it[4].v,
            gas |-> it[k + 1].v, to0 |-> it[k + 2].v, data |-> it[k + 4].v,
            value |-> it[k + 3].v, al |-> it[k + 5].v \div AccessEntryLen,
            blobFee |-> IF b > 0 THEN it[k + 6].v ELSE 0,
            blobs |-> IF b > 0 THEN it[k + 7].v \div HashLen ELSE 0,
            v |-> it[k + 6 + b].v]

(* Seeded fault: the chain id not halved.                                *)
DecodeLegacyNoShift(w) ==
  LET it == w.items  v == it[7].v
      tx == [ok |-> TRUE, type |-> Legacy, nonce |-> it[1].v, prio |-> it[2].v,
             maxFee |-> it[2].v, gas |-> it[3].v, to0 |-> it[4].v, value |-> it[5].v,
             data |-> it[6].v, al |-> 0, blobFee |-> 0, blobs |-> 0]
  IN  IF ~w.isList THEN Err("UnexpectedList")
      ELSE IF v \in {27, 28}
           THEN tx @@ [hasChain |-> FALSE, chainId |-> 0, v |-> v - 27]
      ELSE IF v < 35 THEN Err("InvalidVInSignature")
      ELSE tx @@ [hasChain |-> TRUE, chainId |-> v - 35, v |-> (v - 35) % 2]

(* decode, legacy branch: list header, nine items, then V split into the *)
(* chain id and y parity (pre-EIP-155 for 27/28, rejected below 35).      *)
DecodeLegacy(w) ==
  LET it == w.items  v == it[7].v
      tx == [ok |-> TRUE, type |-> Legacy, nonce |-> it[1].v, prio |-> it[2].v,
             maxFee |-> it[2].v, gas |-> it[3].v, to0 |-> it[4].v, value |-> it[5].v,
             data |-> it[6].v, al |-> 0, blobFee |-> 0, blobs |-> 0]
  IN  IF ~w.isList THEN Err("UnexpectedList")
      ELSE IF v \in {27, 28}
           THEN tx @@ [hasChain |-> FALSE, chainId |-> 0, v |-> v - 27]
      ELSE IF v < 35 THEN Err("InvalidVInSignature")
      ELSE tx @@ [hasChain |-> TRUE, chainId |-> (v - 35) \div 2, v |-> (v - 35) % 2]

(* decode(in, out): empty input, a type byte in 1..0x7f, or a legacy list. *)
DecodeWire(w) ==
  IF w.empty THEN Err("InputTooShort")
  ELSE IF 0 < w.prefix /\ w.prefix < BytesHeadBase THEN DecodeTyped(w)
  ELSE IF w.prefix = NoPrefix THEN DecodeLegacy(w)
  ELSE Err("UnexpectedList")        \* a 0x00 byte is a string, not a list

(* The fields both encodings share, up to the access list (typed) or     *)
(* data (legacy), in encode's order.                                      *)
BaseItems(tx) ==
  IF tx.type = Legacy
  THEN <<U(tx.nonce), U(tx.maxFee), U(tx.gas), A(tx.to0), U(tx.value), B(tx.data)>>
  ELSE <<U(tx.chainId), U(tx.nonce)>>
       \o (IF tx.type # EIP2930 THEN <<U(tx.prio)>> ELSE <<>>)
       \o <<U(tx.maxFee), U(tx.gas), A(tx.to0), U(tx.value), B(tx.data),
            L(AccessEntryLen * tx.al)>>
       \o (IF tx.type = EIP4844 THEN <<U(tx.blobFee), L(HashLen * tx.blobs)>> ELSE <<>>)

(* headerTxBase(tx): the payload length of the fields both encodings share.*)
HeaderTxBase(tx) ==
  (IF tx.type # Legacy THEN UintLen(tx.chainId) ELSE 0)
  + UintLen(tx.nonce)
  + (IF tx.type \in {EIP1559, EIP4844} THEN UintLen(tx.prio) ELSE 0)
  + UintLen(tx.maxFee) + UintLen(tx.gas)
  + (IF tx.to0 THEN 1 ELSE 21) + UintLen(tx.value)
  + LengthOfLength(tx.data) + tx.data
  + (IF tx.type # Legacy
     THEN LengthOfLength(AccessEntryLen * tx.al) + AccessEntryLen * tx.al
          + (IF tx.type = EIP4844
             THEN UintLen(tx.blobFee) + LengthOfLength(HashLen * tx.blobs) + HashLen * tx.blobs
             ELSE 0)
     ELSE 0)

(* header(tx): the base plus V (legacy: getSignatureV; typed: 1 byte), r, s.*)
Header(tx) ==
  HeaderTxBase(tx) + (IF tx.type = Legacy THEN UintLen(GetSignatureV(tx)) ELSE 1) + 33 + 33

(* Seeded fault: the two zero items of EIP-155 left out of the length.   *)
HeaderForSignNoZeros(tx) ==
  HeaderTxBase(tx) + (IF tx.type = Legacy /\ tx.hasChain THEN UintLen(tx.chainId) ELSE 0)

(* headerForSign(tx): the base, plus chainId, 0, 0 for an EIP-155 legacy tx.*)
HeaderForSign(tx) ==
  HeaderTxBase(tx) + (IF tx.type = Legacy /\ tx.hasChain THEN UintLen(tx.chainId) + 2 ELSE 0)

(* Seeded fault: the fee-market branch taken from EIP-4844 on.            *)
TarsFeesGt(tx) ==
  IF tx.type > EIP1559
  THEN ("maxFeePerGas" :> tx.maxFee) @@ ("maxPriorityFeePerGas" :> tx.prio)
  ELSE "gasPrice" :> tx.prio

(* The fee fields toTarsTransaction sets: maxFeePerGas and                *)
(* maxPriorityFeePerGas for a type of EIP1559 or above, else gasPrice     *)
(* from maxPriorityFeePerGas (where decode put the gas price).            *)
TarsFees(tx) ==
  IF tx.type >= EIP1559
  THEN ("maxFeePerGas" :> tx.maxFee) @@ ("maxPriorityFeePerGas" :> tx.prio)
  ELSE "gasPrice" :> tx.prio

(* codec::rlp::encode(out, tx): the full transaction, hashed by hash().   *)
Encode(tx) ==
  [empty |-> FALSE, prefix |-> IF tx.type = Legacy THEN NoPrefix ELSE tx.type,
   isList |-> TRUE, hdr |-> Header(tx),
   items |-> BaseItems(tx)
             \o <<U(IF tx.type = Legacy THEN GetSignatureV(tx) ELSE tx.v)>> \o RS]

(* Web3Transaction::encode(): the payload the sender signed.              *)
EncodeForSign(tx) ==
  [empty |-> FALSE, prefix |-> IF tx.type = Legacy THEN NoPrefix ELSE tx.type,
   isList |-> TRUE, hdr |-> HeaderForSign(tx),
   items |-> BaseItems(tx)
             \o (IF tx.type = Legacy /\ tx.hasChain THEN <<U(tx.chainId), U(0), U(0)>>
                 ELSE <<>>)]

Init ==
  /\ wire \in Wires
  /\ phase = "received"
  /\ dec = Err("none")
  /\ tars = [hashed |-> wire, extra |-> wire, sigV |-> 0, fees |-> <<>>]

(* codec::rlp::decode(in, tx).                                            *)
Decode ==
  /\ phase = "received"
  /\ dec' = DecodeWire(wire)
  /\ phase' = "decoded"
  /\ UNCHANGED <<wire, tars>>

(* toTarsTransaction(): the fee fields, hash() over the full encoding,    *)
(* encode() kept as the extra bytes, V cast to one signature byte.        *)
ToTarsTransaction ==
  /\ phase = "decoded" /\ dec.ok
  /\ tars' = [hashed |-> Encode(dec), extra |-> EncodeForSign(dec), sigV |-> dec.v % 256,
             fees |-> TarsFees(dec)]
  /\ phase' = "converted"
  /\ UNCHANGED <<wire, dec>>

Next == Decode \/ ToTarsTransaction

Spec == Init /\ [][Next]_vars

-----------------------------------------------------------------------------
(* The reference signing payload (EIP-155 for legacy, EIP-2718 typed):    *)
(* the wire's fields without V, r, s; an EIP-155 legacy transaction adds  *)
(* chain_id = (v - 35) >> 1 and two zeros.                                *)
SignedItems(w) ==
  LET n == Len(w.items)  v == w.items[7].v
  IN  IF w.prefix = NoPrefix
      THEN SubSeq(w.items, 1, 6)
           \o (IF v \in {27, 28} THEN <<>> ELSE <<U((v - 35) \div 2), U(0), U(0)>>)
      ELSE SubSeq(w.items, 1, n - 3)

(* Spec R1: a transaction the decoder accepts re-encodes to the very bytes *)
(* received: hash() runs over the wire, list header included, so the      *)
(* transaction hash is the sender's.  It takes decode's split of V and    *)
(* getSignatureV's join in uint64 to agree, the encoder to write the      *)
(* fields in the decoder's order, and header() to count what encode      *)
(* writes for every type.                                                  *)
HashedIsWire == phase = "converted" => tars.hashed = wire

(* The extra bytes toTarsTransaction keeps for signature recovery are the *)
(* EIP-155 / EIP-2718 signing payload of the received transaction, with a *)
(* list header that counts exactly its items.                             *)
SigningPayload ==
  phase = "converted" =>
    tars.extra = [empty |-> FALSE, prefix |-> wire.prefix, isList |-> TRUE,
                  hdr |-> PayloadLen(SignedItems(wire)), items |-> SignedItems(wire)]

(* The fees a wire states, by the layout the spec gives its type.        *)
WireFees(w) ==
  CASE w.prefix = NoPrefix -> "gasPrice" :> w.items[2].v
    [] w.prefix = EIP2930  -> "gasPrice" :> w.items[3].v
    [] OTHER -> ("maxFeePerGas" :> w.items[4].v) @@ ("maxPriorityFeePerGas" :> w.items[3].v)

(* The fee fields of the transaction handed to the node are the fees the  *)
(* wire states for its type: the gas price of a legacy or EIP-2930        *)
(* transaction, the two EIP-1559 fees of a type-2 or type-3 one.  It takes *)
(* decode's placement of the gas price (in maxPriorityFeePerGas, copied to *)
(* maxFeePerGas) and toTarsTransaction's type test to agree.              *)
TarsFeesFromWire == phase = "converted" => tars.fees = WireFees(wire)
=============================================================================
