---------------------------- MODULE BlockReader ----------------------------
(***************************************************************************)
(* block_reader.rs: a block is read from a blk file, one field after the   *)
(* other, from where the node wrote it.  Nothing in the file tells the     *)
(* reader what a field is; if it goes on at the wrong place it makes       *)
(* garbage of everything behind.  The file is the sequence of the fields   *)
(* the node wrote; it may end early, where the node stopped writing.       *)
(***************************************************************************)
EXTENDS TxBytes, SequencesExt

CONSTANTS
    Blocks,             \* the blocks in the blk files, as sequences of transactions
    Cuts                \* how many fields may be missing at the end of a file

IsSeq(s) == s \in Seq(Range(s))

\* A transaction has an input at least, and less than 2^16: with more it would
\* not fit in a block.  A block has a coinbase.
IsInput(i) ==
    /\ i.script.len \in Nat
    /\ IsSeq(i.witness)
    /\ \A j \in DOMAIN i.witness : i.witness[j].len \in Nat
IsTransaction(t) ==
    /\ IsSeq(t.ins) /\ 0 < Len(t.ins) /\ Len(t.ins) < 65536
    /\ \A k \in DOMAIN t.ins : IsInput(t.ins[k])
    /\ IsSeq(t.outs) /\ \A k \in DOMAIN t.outs : t.outs[k].script.len \in Nat
ASSUME BlocksAssumption ==
    \A b \in Blocks :
        IsSeq(b) /\ b # <<>> /\ \A k \in DOMAIN b : IsTransaction(b[k])
ASSUME CutsAssumption == Cuts \subseteq Nat

VARIABLES
    txdata,             \* the block as the node has it
    file, pos,          \* what is on disk, and the field the reader reads next
    at,                 \* where the reader is
    tx_count, flags,    \* locals of read_block and read_tx
    left,               \* how many turns of the innermost loop are left
    root,               \* the root in the header
    raw,                \* the transaction that is being read
    block               \* the transactions that were read
vars == <<txdata, file, pos, at, tx_count, flags, left, root, raw, block>>

-----------------------------------------------------------------------------
Field(kind, x) == [kind |-> kind, x |-> x]

\* Elements of n fields each, one element after the other.
Strung(n, elements) ==
    [i \in 1 .. n * Len(elements) |-> elements[(i - 1) \div n + 1][((i - 1) % n) + 1]]

\* What the node writes for a transaction: with a zero count and a flag, and
\* the witnesses behind the outputs, if it has a witness.
Written(t) ==
    LET segwit == \E k \in DOMAIN t.ins : t.ins[k].witness # <<>>
        Bytes(s) == <<Field("varuint", CompactSize(s.len)), Field("bytes", s)>>
        Items(w) == <<Field("varuint", CompactSize(Len(w)))>>
                    \o Strung(2, [k \in DOMAIN w |-> Bytes(w[k])])
        InFields(i) == <<Field("hash", i.txid), Field("u32", i.vout)>> \o Bytes(i.script)
                       \o <<Field("u32", i.sequence)>>
        OutFields(o) == <<Field("u64", o.value)>> \o Bytes(o.script)
    IN  <<Field("u32", t.version)>>
        \o (IF segwit THEN <<Field("varuint", CompactSize(0)), Field("u8", 1)>> ELSE <<>>)
        \o <<Field("varuint", CompactSize(Len(t.ins)))>>
        \o Strung(5, [k \in DOMAIN t.ins |-> InFields(t.ins[k])])
        \o <<Field("varuint", CompactSize(Len(t.outs)))>>
        \o Strung(3, [k \in DOMAIN t.outs |-> OutFields(t.outs[k])])
        \o (IF segwit THEN FlattenSeq([k \in DOMAIN t.ins |-> Items(t.ins[k].witness)]) ELSE <<>>)
        \o <<Field("u32", t.lock_time)>>

\* The fields of a header but for its root are not used here.
WrittenBlock(b) ==
    <<Field("header", NetworkRoot(b)), Field("varuint", CompactSize(Len(b)))>>
    \o FlattenSeq([k \in DOMAIN b |-> Written(b[k])])

-----------------------------------------------------------------------------
\* What each step reads, in order.
Wanted ==
    [header     |-> <<"header", "varuint">>,
     version    |-> <<"u32", "varuint">>,
     flags      |-> <<"u8", "varuint">>,
     input      |-> <<"hash", "u32", "varuint", "bytes", "u32">>,
     out_count  |-> <<"varuint">>,
     output     |-> <<"u64", "varuint", "bytes">>,
     item_count |-> <<"varuint">>,
     item       |-> <<"varuint", "bytes">>,
     locktime   |-> <<"u32">>]
Reading == DOMAIN Wanted

\* Step a reads all it wants; the k-th field of it is Read(k).
Reads(a) == at = a /\ pos + Len(Wanted[a]) - 1 <= Len(file) /\ pos' = pos + Len(Wanted[a])
Read(k) == file[pos + k - 1].x
ReadVarUint(k) == ReadFrom(Read(k))

NoTx == [version |-> 0]

Init ==
    /\ txdata \in Blocks
    /\ \E cut \in Cuts :
          LET whole == WrittenBlock(txdata) IN file = SubSeq(whole, 1, Len(whole) - cut)
    /\ pos = 1 /\ at = "header" /\ tx_count = 0 /\ flags = 0 /\ left = 0
    /\ root = "none" /\ raw = NoTx /\ block = <<>>

\* read_block: the header and the number of transactions.  (Bitcoin has no
\* AuxPoW: aux_pow_activation_version is None.)
ReadHeader ==
    /\ Reads("header")
    /\ root' = Read(1)
    /\ tx_count' = ReadVarUint(2).value
    /\ at' = "version"
    /\ UNCHANGED <<txdata, file, flags, left, raw, block>>

\* The inputs follow, in_count of them.
Inputs(in_count, tx) ==
    /\ raw' = [version |-> tx.version, in_count |-> in_count, inputs |-> <<>>]
    /\ left' = in_count.value
    /\ at' = "input"

\* read_tx: the version and the number of inputs; zero is a segwit marker.
ReadVersion ==
    /\ Reads("version")
    /\ IF ReadVarUint(2).value = 0
       THEN raw' = [version |-> Read(1)] /\ at' = "flags" /\ UNCHANGED left
       ELSE Inputs(ReadVarUint(2), [version |-> Read(1)])
    /\ flags' = 0
    /\ UNCHANGED <<txdata, file, tx_count, root, block>>

ReadFlags ==
    /\ Reads("flags")
    /\ flags' = Read(1)
    /\ Inputs(ReadVarUint(2), raw)
    /\ UNCHANGED <<txdata, file, tx_count, root, block>>

\* One turn of read_tx_inputs.
ReadInput ==
    /\ Reads("input")
    /\ raw' = [raw EXCEPT !.inputs = Append(@,
                  [txid |-> Read(1), index |-> Read(2), script_len |-> ReadVarUint(3),
                   script_sig |-> Read(4), seq_no |-> Read(5), witness |-> NoWitness])]
    /\ left' = left - 1
    /\ at' = IF left' = 0 THEN "out_count" ELSE "input"
    /\ UNCHANGED <<txdata, file, tx_count, flags, root, block>>

\* Mutant: the flag is compared before it is masked.
AfterOutputs_Compared == IF flags > 1 THEN "item_count" ELSE "locktime"

AfterOutputs == IF flags % 2 = 1 THEN "item_count" ELSE "locktime"

\* The witnesses follow, or the lock time.  Input w is the next to get its own.
Witnesses == at' = AfterOutputs /\ left' = 0

ReadOutCount ==
    /\ Reads("out_count")
    /\ raw' = [version |-> raw.version, in_count |-> raw.in_count, inputs |-> raw.inputs,
               out_count |-> ReadVarUint(1), outputs |-> <<>>, w |-> 1]
    /\ IF raw'.out_count.value > 0
       THEN at' = "output" /\ left' = raw'.out_count.value
       ELSE Witnesses
    /\ UNCHANGED <<txdata, file, tx_count, flags, root, block>>

\* One turn of read_tx_outputs.
ReadOutput ==
    /\ Reads("output")
    /\ raw' = [raw EXCEPT !.outputs = Append(@,
                  [value |-> Read(1), script_len |-> ReadVarUint(2), script_pubkey |-> Read(3)])]
    /\ IF left > 1 THEN at' = "output" /\ left' = left - 1 ELSE Witnesses
    /\ UNCHANGED <<txdata, file, tx_count, flags, root, block>>

\* Witness w is complete: the next input's follows, or the lock time.
NextWitness == at' = (IF raw.w = raw.in_count.value THEN "locktime" ELSE "item_count")

\* The turn of an input's witness: the number of its items, then the items.
ReadItemCount ==
    /\ Reads("item_count")
    /\ left' = ReadVarUint(1).value
    /\ IF left' = 0 THEN NextWitness ELSE at' = "item"
    /\ raw' = [raw EXCEPT !.inputs[raw.w].witness = <<>>,
                          !.w = IF left' = 0 THEN @ + 1 ELSE @]
    /\ UNCHANGED <<txdata, file, tx_count, flags, root, block>>

\* Mutant: only the last item of a witness is kept.
ReadItem_LastOnly ==
    /\ Reads("item")
    /\ left' = left - 1
    /\ IF left' = 0 THEN NextWitness ELSE at' = "item"
    /\ raw' = [raw EXCEPT !.inputs[raw.w].witness = <<Read(2)>>,
                          !.w = IF left' = 0 THEN @ + 1 ELSE @]
    /\ UNCHANGED <<txdata, file, tx_count, flags, root, block>>

ReadItem ==
    /\ Reads("item")
    /\ left' = left - 1
    /\ IF left' = 0 THEN NextWitness ELSE at' = "item"
    /\ raw' = [raw EXCEPT !.inputs[raw.w].witness = Append(@, Read(2)),
                          !.w = IF left' = 0 THEN @ + 1 ELSE @]
    /\ UNCHANGED <<txdata, file, tx_count, flags, root, block>>

\* The transaction is complete, and so is the block with the last one.
\* Block::new hashes what was read.
ReadLocktime ==
    /\ Reads("locktime")
    /\ block' = Append(block, DoubleSha256(
          [version |-> raw.version, in_count |-> raw.in_count, inputs |-> raw.inputs,
           out_count |-> raw.out_count, outputs |-> raw.outputs, locktime |-> Read(1)]))
    /\ raw' = NoTx
    /\ at' = IF Len(block') = tx_count THEN "done" ELSE "version"
    /\ UNCHANGED <<txdata, file, tx_count, flags, left, root>>

\* Mutant: the end of the file is the end of the block.
Eof_EndsBlock ==
    /\ at \in Reading
    /\ pos + Len(Wanted[at]) - 1 > Len(file)
    /\ at' = "done"
    /\ UNCHANGED <<txdata, file, pos, tx_count, flags, left, root, raw, block>>

\* read_exact: the file ends before the field does.
Eof ==
    /\ at \in Reading
    /\ pos + Len(Wanted[at]) - 1 > Len(file)
    /\ at' = "failed"
    /\ UNCHANGED <<txdata, file, pos, tx_count, flags, left, root, raw, block>>

Next ==
    \/ ReadHeader \/ ReadVersion \/ ReadFlags \/ ReadInput \/ ReadOutCount \/ ReadOutput
    \/ ReadItemCount \/ ReadItem \/ ReadLocktime \/ Eof

Spec == Init /\ [][Next]_vars

-----------------------------------------------------------------------------
\* The reader never loses its place: what it reads is what the node wrote
\* there, and a script or an item is as long as the length in front of it says.
\* (The marker and the witnesses, which only some transactions have.)
KeepsItsPlace ==
    at \in Reading =>
        \A k \in DOMAIN Wanted[at] : pos + k - 1 <= Len(file) =>
            /\ file[pos + k - 1].kind = Wanted[at][k]
            /\ Wanted[at][k] = "bytes" => ReadVarUint(k - 1).value = Read(k).len

\* A transaction read from disk is known under its txid, whatever it is
\* written with: the hash is of the bytes made anew of what was read, which
\* have to be those of the network without the witnesses.
DiskTxids == \A k \in DOMAIN block : block[k].hash = Txid(txdata[k])

\* A block is delivered only when all of it was read, no more and no less.
WholeBlocks == at = "done" => pos = Len(file) + 1 /\ file = WrittenBlock(txdata)

\* The root computed from the hashes is the one in the header: verify_merkle_root
\* accepts every block that was read.
RootsVerify == at = "done" => MerkleRoot([k \in DOMAIN block |-> block[k].hash]) = root

\* What the updater and the parser of inscriptions see of a transaction.  (They
\* pass over no witness and an empty one alike.)
Seen(tx) ==
    [version |-> tx.version, locktime |-> tx.locktime,
     inputs  |-> [k \in DOMAIN tx.inputs |->
        [prev |-> <<tx.inputs[k].txid, tx.inputs[k].index>>, seq_no |-> tx.inputs[k].seq_no,
         script_sig |-> tx.inputs[k].script_sig,
         witness |-> IF tx.inputs[k].witness = NoWitness THEN <<>> ELSE tx.inputs[k].witness]],
     outputs |-> [k \in DOMAIN tx.outputs |-> <<tx.outputs[k].value, tx.outputs[k].script_pubkey>>]]

\* The two ways into the indexer agree on a transaction but for its hash: from
\* the file, and from the node over RPC (EvaluatedTx::from).
WaysAgree == \A k \in DOMAIN block : Seen(block[k].value) = Seen(FromRpc(txdata)[k].value)

\* "The txid is not stored here. See Hashed." (proto/tx.rs:24): the hash beside
\* a transaction is its txid.  Over RPC it is not.
HashedIsTxid ==
    at = "done" => \A k \in DOMAIN block : FromRpc(txdata)[k].hash = Txid(txdata[k])
=============================================================================
