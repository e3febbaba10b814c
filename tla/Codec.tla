------------------------------- MODULE Codec -------------------------------
(***************************************************************************)
(* The transactions on the wire: a TxEnv becomes an unsigned EIP-1559      *)
(* request, its RLP list, and a TxEnv again at the executor.               *)
(*                                                                         *)
(* A byte string is a sequence of bytes, an RLP list a sequence of byte    *)
(* strings and lists.  A raw transaction is its first byte and its list:   *)
(* hex digits and length prefixes are left out.  Addresses have            *)
(* AddressBytes bytes (20 in the code), storage keys KeyBytes (32), and    *)
(* numbers at most two.                                                    *)
(***************************************************************************)
EXTENDS Integers, Sequences, SequencesExt

AddressBytes == 2
KeyBytes == 2
None == -1                      \* of an Option of a number
UnwrapOr0(n) == IF n = None THEN 0 ELSE n

\* Integers in RLP: big-endian without leading zeros, zero is the empty string.
BigEndian(n) == IF n = 0 THEN <<>> ELSE IF n < 256 THEN <<n>> ELSE <<n \div 256, n % 256>>

\* The call of nobody is a creation.
Create == <<>>

-----------------------------------------------------------------------------
(* Encoding.                                                                *)

\* adapter::adapt_tx_env: the price becomes the maximal fee, the priority fee stays unset.
AdaptTxEnv(tx) ==
    [chain_id |-> UnwrapOr0(tx.chain_id), nonce |-> UnwrapOr0(tx.nonce),
     max_priority |-> None, max_fee |-> tx.gas_price, gas |-> tx.gas_limit,
     to |-> tx.transact_to, value |-> tx.value, data |-> tx.data,
     access_list |-> tx.access_list]

\* Eip1559TransactionRequest::rlp and rlp_signed, TransactionRequest::rlp of ethers.
Rlp1559(req) ==
    [first |-> 2,
     items |-> <<BigEndian(req.chain_id), BigEndian(req.nonce),
                 BigEndian(UnwrapOr0(req.max_priority)), BigEndian(req.max_fee),
                 BigEndian(req.gas), req.to, BigEndian(req.value), req.data, req.access_list>>]
RlpLegacy(req) ==
    [first |-> 192,
     items |-> <<BigEndian(req.nonce), BigEndian(req.gas_price), BigEndian(req.gas), req.to,
                 BigEndian(req.value), req.data>>]
Signed(raw, signature) == [raw EXCEPT !.items = @ \o signature]

\* serializer::encode_tx_unsigned after adapt_tx_env, for one transaction of
\* encode_batch_to_hex.
EncodeTx(tx) == Rlp1559(AdaptTxEnv(tx))

-----------------------------------------------------------------------------
(* Decoding.                                                                *)

U256FromBytes(b) == FoldLeft(LAMBDA n, d : n * 256 + d, 0, b)

\* The last n bytes of b, zeros in front where it is shorter.
RightAligned(b, n) ==
    IF Len(b) >= n THEN SubSeq(b, Len(b) - n + 1, Len(b)) ELSE [k \in 1 .. n - Len(b) |-> 0] \o b

\* parse_to_address: what is shorter than an address is none.
ParseToAddress(b) == IF Len(b) < AddressBytes THEN Create ELSE RightAligned(b, AddressBytes)

\* parse_access_list: keys that are too long are dropped.
ParseAccessList(items) ==
    [i \in DOMAIN items |->
        <<RightAligned(items[i][1], AddressBytes),
          LET kept == SelectSeq(items[i][2], LAMBDA k : Len(k) <= KeyBytes)
          IN [j \in DOMAIN kept |-> RightAligned(kept[j], KeyBytes)]>>]

\* recover_address: a signature of zeros belongs to nobody, and the expect panics.
Recovers(v, r, s) == U256FromBytes(r) # 0 /\ U256FromBytes(s) # 0

\* decode_legacy and legacy_transaction_2_tx_env: a TxEnv has no chain.
LegacyPanics(items) == Len(items) >= 9 /\ ~Recovers(items[7], items[8], items[9])
DecodeLegacy(items, addr) ==
    [caller |-> addr, chain_id |-> None, nonce |-> U256FromBytes(items[1]),
     gas_price |-> U256FromBytes(items[2]), gas_limit |-> U256FromBytes(items[3]),
     transact_to |-> ParseToAddress(items[4]), value |-> U256FromBytes(items[5]),
     data |-> items[6], access_list |-> <<>>]

\* eip1559_transaction_2_tx_env: the price with a base fee of zero.
GasPrice(max_priority, max_fee) ==
    IF max_fee > 0 + max_priority THEN max_fee ELSE max_priority

\* decode_eip1559 and eip1559_transaction_2_tx_env.
Eip1559Panics(items) == Len(items) >= 11 /\ ~Recovers(items[10], items[11], items[12])
DecodeEip1559(items, addr) ==
    [caller |-> addr, chain_id |-> U256FromBytes(items[1]), nonce |-> U256FromBytes(items[2]),
     gas_price |-> GasPrice(U256FromBytes(items[3]), U256FromBytes(items[4])),
     gas_limit |-> U256FromBytes(items[5]), transact_to |-> ParseToAddress(items[6]),
     value |-> U256FromBytes(items[7]), data |-> items[8],
     access_list |-> ParseAccessList(items[9])]

\* strip_signature: the last three fields go, whether or not they are a signature; the rest
\* is only for recovering the sender.
StripPanics(items) == Len(items) < 3

\* decode_hex_with_known_addr and adapt_transaction, for the one transaction of
\* decode_one_hex: a sequence of the TxEnv, or of nothing for an unsupported type.
DecodePanics(raw) ==
    \/ StripPanics(raw.items)
    \/ raw.first = 2 /\ Eip1559Panics(raw.items)
    \/ raw.first >= 192 /\ LegacyPanics(raw.items)
DecodeOneHex(raw, addr) ==
    IF raw.first = 2 THEN <<DecodeEip1559(raw.items, addr)>>
    ELSE IF raw.first >= 192 THEN <<DecodeLegacy(raw.items, addr)>>
    ELSE <<>>

\* decode_batch_hex: the unsupported ones are skipped.
DecodeBatchHex(batch) == FlattenSeq([i \in DOMAIN batch |-> DecodeOneHex(batch[i][1], batch[i][2])])
=============================================================================
