--------------------------- MODULE MCSatTracking ---------------------------
(***************************************************************************)
(* Small chains for TLC.  A chain is grown block by block from the outputs *)
(* that are unspent before the first one: every transaction spends unspent *)
(* outputs, also of the same block, and creates no more value than it      *)
(* spends; every coinbase claims no more than the subsidy and the fees.    *)
(*                                                                         *)
(* A block has a bound for each of its transactions and the choices for    *)
(* the outputs of the coinbase:                                            *)
(*   txs     <<[inputs    |-> at most so many inputs,                      *)
(*              envelopes |-> choices for the envelopes of the inputs,     *)
(*              outputs   |-> choices for the outputs], ...>>              *)
(*   claims  choices for the outputs of the coinbase                       *)
(* Coinbase outputs may be spent from the next block on: the blocks up to  *)
(* their maturity would not touch any inscription.                         *)
(***************************************************************************)
EXTENDS SatTracking
LOCAL INSTANCE SequencesExt

Total(values) == FoldLeft(+, 0, values)

\* Lists of distinct unspent outputs, at most n.
InputLists(unspent, n) ==
    {s \in UNION {[1 .. k -> unspent] : k \in 1 .. n} :
        \A i, j \in DOMAIN s : i # j => s[i] # s[j]}

NextTxs(txid, unspent, value, bound) ==
    UNION {
        { [txid |-> txid,
           inputs |-> [i \in DOMAIN prevs |-> [prev |-> prevs[i], envelopes |-> envelopes[i]]],
           outputs |-> outputs] :
            envelopes \in {SubSeq(e, 1, Len(prevs)) : e \in bound.envelopes},
            outputs \in {o \in bound.outputs :
                            Total(o) <= Total([i \in DOMAIN prevs |-> value[prevs[i]]])} } :
        prevs \in InputLists(unspent, bound.inputs)}

\* A block under construction: its transactions, what is unspent after them,
\* the value of every output so far and the fees.
Extended(draft, tx) ==
    LET in == Total([i \in DOMAIN tx.inputs |-> draft.value[tx.inputs[i].prev]])
    IN  [txs |-> Append(draft.txs, tx),
         unspent |-> (draft.unspent \ Spent(tx)) \cup Created(tx),
         value |-> Write(draft.value, [o \in Created(tx) |-> tx.outputs[o[2] + 1]]),
         fees |-> draft.fees + in - Total(tx.outputs)]

Drafts(first, h, bounds) ==
    LET With(drafts, bound) ==
            UNION {{Extended(d, tx) :
                tx \in NextTxs(10 * h + Len(d.txs) + 1, d.unspent, d.value, bound)} : d \in drafts}
    IN  FoldLeft(With, {first}, bounds)

Coinbase(h, outputs) ==
    [txid |-> 10 * h, inputs |-> <<[prev |-> NullOutPoint, envelopes |-> 0]>>, outputs |-> outputs]

\* The chains that extend c, whose unspent outputs are known, by one block.
Mined(c, h, shape) ==
    UNION {
        { LET cb == Coinbase(h, outputs)
          IN  [blocks |-> Append(c.blocks, <<cb>> \o d.txs), base |-> c.base,
               value |-> Write(d.value, [o \in Created(cb) |-> cb.outputs[o[2] + 1]]),
               unspent |-> d.unspent \cup Created(cb)] :
            outputs \in {o \in shape.claims : Total(o) <= Subsidy[h] + d.fees} } :
        d \in Drafts([txs |-> <<>>, unspent |-> c.unspent, value |-> c.value, fees |-> 0],
                     h, shape.txs)}

Grown(first, shapes) ==
    LET With(chains, h) == UNION {Mined(c, h, shapes[h]) : c \in chains}
    IN  FoldLeftDomain(With, {first}, shapes)

\* base gives the outputs of transaction 1, all unspent.
ChainsOf(base, shapes) ==
    LET value == [o \in {<<1, v>> : v \in 0 .. Len(base) - 1} |-> base[o[2] + 1]]
    IN  {[blocks |-> c.blocks, value |-> c.value, base |-> c.base] :
            c \in Grown([blocks |-> <<>>, base |-> DOMAIN value, value |-> value,
                         unspent |-> DOMAIN value], shapes)}

-----------------------------------------------------------------------------
\* Transfers: inscriptions move within a block and across blocks, over split
\* and merged outputs, into fees, coinbases and the lost sats.
MovingChains ==
    ChainsOf(<<2, 1>>,
        << [txs |-> << [inputs |-> 2, envelopes |-> {<<1, 1>>, <<0, 1>>},
                        outputs |-> {<<1>>, <<1, 1>>}],
                       [inputs |-> 1, envelopes |-> {<<0>>, <<1>>},
                        outputs |-> {<<1>>, <<2>>}] >>,
            claims |-> {<<1>>, <<1, 2>>, <<2, 1>>}],
           [txs |-> << [inputs |-> 2, envelopes |-> {<<0, 0>>, <<1, 0>>},
                        outputs |-> {<<1>>, <<1, 2>>}] >>,
            claims |-> {<<1>>}] >>)

\* Outputs of value zero, inscribed, spent and created, and a coinbase that
\* claims nothing.
ZeroValueChains ==
    ChainsOf(<<0, 1, 0>>,
        << [txs |-> << [inputs |-> 2, envelopes |-> {<<1, 1>>, <<0, 2>>},
                        outputs |-> {<<0>>, <<0, 1>>}],
                       [inputs |-> 2, envelopes |-> {<<1, 1>>}, outputs |-> {<<1>>, <<0>>}] >>,
            claims |-> {<<0>>, <<1>>}],
           [txs |-> << [inputs |-> 1, envelopes |-> {<<1>>}, outputs |-> {<<0, 1>>, <<0>>}] >>,
            claims |-> {<<0>>}] >>)

TransferChains == MovingChains \cup ZeroValueChains
TransferSubsidy == <<1, 1>>

\* What the theorems about these runs assume of a chain, besides ChainAssumption.
ASSUME TransfersInOrder == \A c \in TransferChains : SpendsInOrder(c)

\* Reinscription: few sats, revealed on in up to four transactions.
ReinscriptionChains ==
    ChainsOf(<<1, 1>>,
        << [txs |-> << [inputs |-> 2, envelopes |-> {<<1, 1>>, <<2, 0>>, <<0, 1>>},
                        outputs |-> {<<1>>, <<2>>, <<1, 1>>}],
                       [inputs |-> 1, envelopes |-> {<<1>>, <<2>>}, outputs |-> {<<1>>, <<2>>}] >>,
            claims |-> {<<1>>}],
           [txs |-> << [inputs |-> 2, envelopes |-> {<<1, 0>>}, outputs |-> {<<2>>, <<1>>}],
                       [inputs |-> 1, envelopes |-> {<<1>>}, outputs |-> {<<1>>}] >>,
            claims |-> {<<1>>}] >>)
ReinscriptionSubsidy == <<1, 1>>

\* A few chains of two blocks, for liveness.
ShortChains ==
    ChainsOf(<<1>>,
        << [txs |-> << [inputs |-> 1, envelopes |-> {<<2>>}, outputs |-> {<<0>>, <<1>>}] >>,
            claims |-> {<<1>>}],
           [txs |-> << [inputs |-> 1, envelopes |-> {<<0>>, <<1>>}, outputs |-> {<<0, 1>>}] >>,
            claims |-> {<<1>>}] >>)
ShortSubsidy == <<1, 1>>
=============================================================================
