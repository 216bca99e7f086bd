------------------------------- MODULE Chain -------------------------------
(***************************************************************************)
(* Blocks as the indexer receives them, from the blk files or over RPC.    *)
(* A transaction keeps what the indexer tells apart: its txid, the         *)
(* outpoint each input spends with the number of inscriptions its witness  *)
(* reveals, and the value of each output.  Scripts, addresses and the      *)
(* bodies of inscriptions only travel through to the callbacks.            *)
(*                                                                         *)
(* A chain also carries what the node's transaction index answers:         *)
(*   base   outpoints created before the first indexed block, unspent then *)
(*   value  the value of every outpoint the chain ever creates             *)
(***************************************************************************)
EXTENDS Integers, Sequences

CONSTANTS
    Chains,     \* the chains a node may serve
    MaxVout,    \* stands for u32::MAX, an output index no transaction reaches
    Subsidy     \* Subsidy[h]: the subsidy of the h-th indexed block

\* The all-zero hash; real transactions have other ids.
NullHash == 0
OutPoint == Nat \X Nat
NullOutPoint == <<NullHash, MaxVout>>

\* TxOutpoint::is_null: the previous output of a coinbase input.
IsNull(outpoint) == outpoint = NullOutPoint

Input == [prev : OutPoint, envelopes : Nat]
Transaction ==
    [txid : Nat \ {NullHash}, inputs : Seq(Input), outputs : Seq(Nat)]
Block == Seq(Transaction) \ {<<>>}

IsCoinbase(tx) == tx.inputs # <<>> /\ IsNull(tx.inputs[1].prev)

\* Mutant: the transactions are walked in the order of the block.
TxInOrder_CoinbaseFirst(block, i) == block[i]

\* Blocks are walked with .skip(1).chain(first()): the coinbase comes last.
TxInOrder(block, i) == IF i < Len(block) THEN block[i + 1] ELSE block[1]

\* Outpoints a transaction creates, and the stored outputs it spends.
Created(tx) == {<<tx.txid, v>> : v \in 0 .. Len(tx.outputs) - 1}
Spent(tx) == {tx.inputs[i].prev : i \in DOMAIN tx.inputs} \ {NullOutPoint}

Transactions(c) == UNION {{c.blocks[h][i] : i \in DOMAIN c.blocks[h]} : h \in DOMAIN c.blocks}

-----------------------------------------------------------------------------
\* No two transactions of a chain have the same id.
TxidsUnique(blocks) ==
    \A g, h \in DOMAIN blocks : \A i \in DOMAIN blocks[g] : \A j \in DOMAIN blocks[h] :
        blocks[g][i].txid = blocks[h][j].txid => g = h /\ i = j

\* No output is spent by two inputs of a chain.
SpentOnce(txs) ==
    \A s, t \in txs : \A i \in DOMAIN s.inputs, j \in DOMAIN t.inputs :
        s.inputs[i].prev = t.inputs[j].prev /\ ~IsNull(s.inputs[i].prev) => s = t /\ i = j

\* Values are natural numbers, known for every outpoint that is ever created
\* or spent, and the transaction index agrees with the blocks.
WellFormed(c) ==
    /\ c.blocks \in Seq(Block)
    /\ TxidsUnique(c.blocks)
    /\ SpentOnce(Transactions(c))
    /\ DOMAIN c.value \subseteq OutPoint
    /\ \A o \in DOMAIN c.value : c.value[o] \in Nat
    /\ c.base \subseteq DOMAIN c.value
    /\ NullOutPoint \notin DOMAIN c.value
    /\ \A tx \in Transactions(c) :
          /\ Spent(tx) \subseteq DOMAIN c.value
          /\ \A v \in DOMAIN tx.outputs :
                /\ <<tx.txid, v - 1>> \in DOMAIN c.value
                /\ c.value[<<tx.txid, v - 1>>] = tx.outputs[v]

\* The sums of the first k of n values, for every k.
Sums(f, n) ==
    LET sum[k \in 0 .. n] == IF k = 0 THEN 0 ELSE sum[k - 1] + f[k]
    IN  sum

\* The values a transaction of c spends and creates, added up.
SumsIn(c, tx) == Sums([i \in DOMAIN tx.inputs |-> c.value[tx.inputs[i].prev]], Len(tx.inputs))
SumsOut(tx) == Sums(tx.outputs, Len(tx.outputs))
ValueIn(c, tx) == SumsIn(c, tx)[Len(tx.inputs)]
ValueOut(tx) == SumsOut(tx)[Len(tx.outputs)]

\* The fees of a block, added up in the order in which it is walked.
FeeSums(c, block) ==
    Sums([i \in 1 .. Len(block) - 1 |-> ValueIn(c, block[i + 1]) - ValueOut(block[i + 1])],
         Len(block) - 1)

\* A block has one coinbase, the first, with one input; no transaction creates
\* more than it spends, and the coinbase no more than the subsidy and the fees.
Conserves(c, block, subsidy) ==
    /\ IsCoinbase(block[1]) /\ Len(block[1].inputs) = 1
    /\ \A i \in 2 .. Len(block) :
          /\ \A k \in DOMAIN block[i].inputs : ~IsNull(block[i].inputs[k].prev)
          /\ ValueOut(block[i]) <= ValueIn(c, block[i])
    /\ ValueOut(block[1]) <= subsidy + FeeSums(c, block)[Len(block) - 1]

\* A transaction spends what a transaction in front of it has created, or what
\* was unspent before the first block.
SpendsInOrder(c) ==
    \A h \in DOMAIN c.blocks : \A i \in DOMAIN c.blocks[h] :
        \A o \in Spent(TxInOrder(c.blocks[h], i)) :
            \/ o \in c.base
            \/ \E g \in DOMAIN c.blocks : \E j \in DOMAIN c.blocks[g] :
                  /\ g < h \/ (g = h /\ j < i)
                  /\ o \in Created(TxInOrder(c.blocks[g], j))

\* Assumed of the node: it serves well-formed chains, and every block the
\* model indexes has a subsidy and creates no value beyond it.
ASSUME ChainAssumption ==
    /\ MaxVout \in Nat
    /\ \A c \in Chains :
          /\ WellFormed(c)
          /\ \A h \in 1 .. Len(c.blocks) :
                Subsidy[h] \in Nat /\ Conserves(c, c.blocks[h], Subsidy[h])
=============================================================================
