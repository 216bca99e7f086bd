------------------------------- MODULE MCOrdi -------------------------------
(***************************************************************************)
(* Small chains for the process that crashes and starts again.             *)
(***************************************************************************)
EXTENDS Ordi, MCSatTracking

\* The first block reveals inscriptions of every kind, or a cursed one only; in
\* the second the cursed one is inscribed again, and both move on or are lost.
RestartChains ==
    {c \in ChainsOf(<<1, 2>>,
        << [txs |-> << [inputs |-> 2, envelopes |-> {<<2, 1>>, <<0, 1>>}, outputs |-> {<<1, 2>>}] >>,
            claims |-> {<<0>>}],
           [txs |-> << [inputs |-> 1, envelopes |-> {<<1>>}, outputs |-> {<<1>>, <<0>>}] >>,
            claims |-> {<<0>>}] >>) :
        /\ c.blocks[1][2].inputs[1].prev = <<1, 0>>
        /\ c.blocks[2][2].inputs[1].prev = <<11, 1>>
        /\ c.blocks[1][2].inputs[1].envelopes = 0 => c.blocks[2][2].outputs = <<0>>}
RestartSubsidy == <<1, 0>>

\* The hash of a transaction received over RPC: another id for each txid.
OtherId(txid) == 100 + txid
ReceivedIn(chains) == {Received(c, h) : c \in chains, h \in 0 .. 2}
RestartReceived == ReceivedIn(RestartChains)

\* One chain of two blocks, for liveness.
OneShortChain == {CHOOSE c \in ShortChains : TRUE}
OneShortReceived == ReceivedIn(OneShortChain)
=============================================================================
