------------------------------ MODULE Ordinals ------------------------------
(***************************************************************************)
(* Ordinal theory, the abstract specification of what an indexer of        *)
(* inscriptions tracks, said of whole outputs as sequences of sats and     *)
(* without any of the indexer's bookkeeping.  Every sat of a block's       *)
(* subsidy is new.  A transaction passes the sats of its inputs on to its  *)
(* outputs, first in, first out; what is left over are its fees.  The      *)
(* coinbase passes on the subsidy and then the fees in the order of the    *)
(* block; what it leaves over is lost.  An input inscribes the first of    *)
(* the sats it spends with the first envelope of its witness.              *)
(***************************************************************************)
EXTENDS Chain

\* A sat is known by where it was first seen: in an output older than the
\* first indexed block, or in the subsidy of a block.
BaseSats(c, o) == [k \in 1 .. c.value[o] |-> <<o[1], o[2], k>>]
SubsidySats(h) == [k \in 1 .. Subsidy[h] |-> <<NullHash, h, k>>]

\* sats: outpoint -> its sats, for the unspent outputs; inscribed: id -> sat.
LedgerAtBase(c) ==
    [sats |-> [o \in c.base |-> BaseSats(c, o)], fees |-> <<>>, lost |-> <<>>,
     inscribed |-> [id \in {} |-> <<>>]]

\* The first k of n sequences joined, for every k.
Joined(f, n) ==
    LET joined[k \in 0 .. n] == IF k = 0 THEN <<>> ELSE joined[k - 1] \o f[k]
    IN  joined

SatsIn(ledger, tx, i) == IF IsNull(tx.inputs[i].prev) THEN <<>> ELSE ledger.sats[tx.inputs[i].prev]

\* The inputs of tx that inscribe a sat, and the id the inscription has: the
\* envelopes of a transaction are counted over its inputs.
Inscribing(ledger, tx) ==
    {i \in DOMAIN tx.inputs : tx.inputs[i].envelopes > 0 /\ SatsIn(ledger, tx, i) # <<>>}
EnvelopeSums(tx) == Sums([i \in DOMAIN tx.inputs |-> tx.inputs[i].envelopes], Len(tx.inputs))
IdIn(tx, i) == <<tx.txid, EnvelopeSums(tx)[i - 1]>>

\* The ledger after tx, whose inputs hold the sats all.
Pass(ledger, tx, all, fees, lost) ==
    LET spent == Spent(tx)
        out(v) == SubSeq(all, SumsOut(tx)[v - 1] + 1, SumsOut(tx)[v])
        rest == SubSeq(all, ValueOut(tx) + 1, Len(all))
        revealed == Inscribing(ledger, tx)
    IN  [sats |-> [o \in (DOMAIN ledger.sats \ spent) \cup Created(tx) |->
                      IF o \in Created(tx) THEN out(o[2] + 1) ELSE ledger.sats[o]],
         fees |-> fees \o (IF IsCoinbase(tx) THEN <<>> ELSE rest),
         lost |-> lost \o (IF IsCoinbase(tx) THEN rest ELSE <<>>),
         inscribed |-> [id \in DOMAIN ledger.inscribed \cup {IdIn(tx, i) : i \in revealed} |->
             IF id \in DOMAIN ledger.inscribed THEN ledger.inscribed[id]
             ELSE SatsIn(ledger, tx, CHOOSE i \in revealed : IdIn(tx, i) = id)[1]]]

\* The sats of a transaction that is no coinbase: those of its inputs.
SatsRead(ledger, tx) ==
    Joined([i \in DOMAIN tx.inputs |-> SatsIn(ledger, tx, i)], Len(tx.inputs))

PassTx(ledger, tx) ==
    Pass(ledger, tx, SatsRead(ledger, tx)[Len(tx.inputs)], ledger.fees, ledger.lost)
PassCoinbase(ledger, tx, h) ==
    Pass(ledger, tx, SubsidySats(h) \o ledger.fees, <<>>, ledger.lost)

\* The ledger after the first i transactions of a block behind its coinbase.
WithinBlock(ledger, block) ==
    LET within[i \in 0 .. Len(block) - 1] ==
            IF i = 0 THEN ledger ELSE PassTx(within[i - 1], block[i + 1])
    IN  within
PassBlock(ledger, block, h) ==
    PassCoinbase(WithinBlock(ledger, block)[Len(block) - 1], block[1], h)

\* The ledger after the first h blocks of chain c, for every h.
Ledger(c) ==
    LET after[n \in 0 .. Len(c.blocks)] ==
            IF n = 0 THEN LedgerAtBase(c) ELSE PassBlock(after[n - 1], c.blocks[n], n)
    IN  after
=============================================================================
