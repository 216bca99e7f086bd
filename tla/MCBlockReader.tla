--------------------------- MODULE MCBlockReader ---------------------------
(***************************************************************************)
(* Blocks of one to five transactions: with and without witnesses, with an *)
(* empty witness beside another, with lengths and counts that need one and *)
(* three bytes, and without outputs.                                       *)
(***************************************************************************)
EXTENDS BlockReader

Str(len) == [len |-> len, data |-> "x"]

In(txid, script, witness) ==
    [txid |-> txid, vout |-> 0, script |-> Str(script), sequence |-> 9, witness |-> witness]
Out(value, script) == [value |-> value, script |-> Str(script)]
MkTx(ins, outs) == [version |-> 2, ins |-> ins, outs |-> outs, lock_time |-> 7]

Coinbase == MkTx(<<In("zero", 100, <<>>)>>, <<Out(50, 25)>>)
Witnessed ==
    MkTx(<<In("t0", 0, <<Str(64), Str(253)>>), In("t1", 107, <<>>)>>, <<Out(1, 34), Out(2, 22)>>)
WitnessLast ==
    MkTx(<<In("t2", 23, <<>>), In("t3", 0, <<Str(0)>>)>>, <<Out(3, 252)>>)
LongScripts == MkTx(<<In("t4", 253, <<>>)>>, <<Out(4, 65536), Out(5, 65535)>>)
NoOutputs == MkTx(<<In("t5", 1, <<Str(1)>>)>>, <<>>)
ManyInputs == MkTx([k \in 1 .. 253 |-> In(k, 0, <<>>)], <<Out(6, 22)>>)
ManyOutputs == MkTx(<<In("t6", 0, <<Str(252)>>)>>, [k \in 1 .. 253 |-> Out(k, 0)])

MCBlocks ==
    {<<Coinbase>> \o rest :
        rest \in {<<t>> : t \in {Witnessed, WitnessLast, LongScripts, NoOutputs}}
                 \cup {<<t, u>> : t, u \in {Witnessed, WitnessLast, LongScripts}}
                 \cup {<<>>, <<Witnessed, LongScripts, NoOutputs, WitnessLast>>,
                       <<NoOutputs, Witnessed, WitnessLast>>}}
    \cup {<<Coinbase, ManyInputs, Witnessed>>, <<Coinbase, ManyOutputs>>}
MCCuts == {0, 1, 2, 5, 9, 14}
=============================================================================
