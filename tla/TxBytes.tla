------------------------------ MODULE TxBytes ------------------------------
(***************************************************************************)
(* proto/varuint.rs, proto/tx.rs, proto/block.rs, common/utils.rs: what    *)
(* the program keeps of a transaction, the bytes it makes of it and the    *)
(* hash of these bytes, under which everything else knows the transaction. *)
(*                                                                         *)
(* Bytes are kept as the tuple of the fields that were put one after the   *)
(* other, which loses nothing: a field has a fixed length or its length    *)
(* is in front of it.  A script or a witness item is [len, data].  A       *)
(* variable length integer is its first byte and, behind 253, 254 or 255,  *)
(* the value of the 2, 4 or 8 bytes that follow.                           *)
(***************************************************************************)
EXTENDS Integers, Sequences

\* VarUint: the value and the bytes it is written with.
FromU8(n)  == [value |-> n, buf |-> <<n>>]
FromU16(n) == [value |-> n, buf |-> <<253, n>>]
FromU32(n) == [value |-> n, buf |-> <<254, n>>]
FromU64(n) == [value |-> n, buf |-> <<255, n>>]

\* VarUint::read_from
ReadFrom(b) ==
    CASE b[1] <= 252 -> FromU8(b[1])
      [] b[1] = 253  -> FromU16(b[2])
      [] b[1] = 254  -> FromU32(b[2])
      [] OTHER       -> FromU64(b[2])

\* How the network writes a length: in as few bytes as it can.  (Lengths below
\* 2^32: a block has less than that.)
CompactSize(n) ==
    IF n < 253 THEN <<n>> ELSE IF n < 65536 THEN <<253, n>> ELSE <<254, n>>

-----------------------------------------------------------------------------
\* ToRaw of TxInput, TxOutput and EvaluatedTx.  The witness is not written.
InputBytes(i)  == <<i.txid, i.index, i.script_len.buf, i.script_sig, i.seq_no>>
OutputBytes(o) == <<o.value, o.script_len.buf, o.script_pubkey>>

\* Mutant: the outputs' count is written in front of the inputs.
ToBytes_Swapped(tx) ==
    <<tx.version, tx.out_count.buf, [k \in DOMAIN tx.inputs |-> InputBytes(tx.inputs[k])],
      tx.in_count.buf, [k \in DOMAIN tx.outputs |-> OutputBytes(tx.outputs[k])], tx.locktime>>

ToBytes(tx) ==
    <<tx.version, tx.in_count.buf, [k \in DOMAIN tx.inputs |-> InputBytes(tx.inputs[k])],
      tx.out_count.buf, [k \in DOMAIN tx.outputs |-> OutputBytes(tx.outputs[k])], tx.locktime>>

\* A hash stands for what was hashed: no two things have the same.
Sha256d(bytes) == <<"sha256d", bytes>>

\* Hashed::double_sha256
DoubleSha256(tx) == [hash |-> Sha256d(ToBytes(tx)), value |-> tx]

-----------------------------------------------------------------------------
\* A transaction of the network, as bitcoin::Transaction holds it, and its txid.
NetworkInput(i)  == <<i.txid, i.vout, CompactSize(i.script.len), i.script, i.sequence>>
NetworkOutput(o) == <<o.value, CompactSize(o.script.len), o.script>>
NetworkBytes(t) ==
    <<t.version, CompactSize(Len(t.ins)), [k \in DOMAIN t.ins |-> NetworkInput(t.ins[k])],
      CompactSize(Len(t.outs)), [k \in DOMAIN t.outs |-> NetworkOutput(t.outs[k])], t.lock_time>>
Txid(t) == Sha256d(NetworkBytes(t))

\* Option<Witness>
NoWitness == "None"

\* An input and an output received over RPC.
FromTxIn(i) ==
    [txid |-> i.txid, index |-> i.vout,
     script_len |-> FromU64(i.script.len), script_sig |-> i.script, seq_no |-> i.sequence,
     witness |-> IF i.witness = <<>> THEN NoWitness ELSE i.witness]
FromTxOut(o) ==
    [value |-> o.value, script_len |-> FromU64(o.script.len), script_pubkey |-> o.script]

\* EvaluatedTx::from(bitcoin::Transaction), for a transaction received over RPC.
FromTransaction(t) ==
    [version   |-> t.version,
     in_count  |-> FromU32(Len(t.ins)),
     inputs    |-> [k \in DOMAIN t.ins |-> FromTxIn(t.ins[k])],
     out_count |-> FromU32(Len(t.outs)),
     outputs   |-> [k \in DOMAIN t.outs |-> FromTxOut(t.outs[k])],
     locktime  |-> t.lock_time]

\* Block::from(bitcoin::Block), the transactions of it.
FromRpc(txdata) == [k \in DOMAIN txdata |-> DoubleSha256(FromTransaction(txdata[k]))]

-----------------------------------------------------------------------------
\* Mutant: a last hash without a partner goes up as it is.
NextLevel_NotTwice(hashes) ==
    LET pairs == [k \in 1 .. Len(hashes) \div 2 |-> Sha256d(<<hashes[2 * k - 1], hashes[2 * k]>>)]
    IN  IF Len(hashes) % 2 = 1 THEN Append(pairs, hashes[Len(hashes)]) ELSE pairs

\* One turn of the loop of merkle_root: the hashes of the pairs, then that of a
\* last hash without a partner, taken twice.
NextLevel(hashes) ==
    LET pairs == [k \in 1 .. Len(hashes) \div 2 |-> Sha256d(<<hashes[2 * k - 1], hashes[2 * k]>>)]
        last  == hashes[Len(hashes)]
    IN  IF Len(hashes) % 2 = 1 THEN Append(pairs, Sha256d(<<last, last>>)) ELSE pairs

\* utils::merkle_root: levels until one hash is left.  (It panics on none; a
\* block has a coinbase.)
MerkleRoot(hashes) ==
    LET level[n \in 0 .. Len(hashes)] ==
            IF n = 0 THEN hashes
            ELSE IF Len(level[n - 1]) > 1 THEN NextLevel(level[n - 1])
            ELSE level[n - 1]
    IN  level[Len(hashes)][1]

\* The root as the network defines it, by the place of a node in the tree:
\* node i of a level is made of nodes 2i and 2i+1 below it, or of 2i twice.
NetworkRoot(txdata) ==
    LET width[d \in 0 .. Len(txdata)] ==
            IF d = 0 THEN Len(txdata) ELSE (width[d - 1] + 1) \div 2
        node[d \in 0 .. Len(txdata)] ==
            [i \in 0 .. width[d] - 1 |->
                IF d = 0 THEN Txid(txdata[i + 1])
                ELSE Sha256d(<<node[d - 1][2 * i],
                               node[d - 1][IF 2 * i + 1 < width[d - 1] THEN 2 * i + 1 ELSE 2 * i]>>)]
        depth == CHOOSE d \in 0 .. Len(txdata) :
                    width[d] = 1 /\ \A e \in 0 .. d - 1 : width[e] > 1
    IN  node[depth][0]
=============================================================================
