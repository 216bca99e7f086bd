---------------------------- MODULE MCScriptEval ----------------------------
(***************************************************************************)
(* All scripts of up to three pieces, a piece being an operation or a push *)
(* of some length, and the scripts both evaluators know: with data of the  *)
(* right and of another length, cut at every byte, and with an operation   *)
(* in front of them or behind.                                             *)
(***************************************************************************)
EXTENDS ScriptEval

Bytes(n) == [k \in 1 .. n |-> 104]
PushOf(n) == Push(Bytes(n))
Data1(n) == <<OP_PUSHDATA1, n>> \o Bytes(n)

Pieces ==
    {<<op>> : op \in {0, OP_NOP, OP_RETURN, OP_DUP, OP_EQUAL, OP_HASH160, OP_CHECKSIG,
                      OP_PUSHNUM_2, OP_NOP10, OP_INVALIDOPCODE}}
    \cup {PushOf(n) : n \in {1, 20, 33}}
    \cup {<<1, 200>>, Data1(2), <<OP_PUSHDATA2, 1, 0, 104>>, <<OP_PUSHDATA4, 1, 0, 0>>}

Known ==
    UNION {{Payment(p, Bytes(n)) : p \in Payments} : n \in {1, 20, 32, 33, 65, 75}}
    \cup {<<OP_RETURN>> \o PushOf(n) : n \in {0, 20, 75, 76, 80}}
    \cup {PushOf(n) \o <<OP_CHECKSIG>> : n \in {74, 75, 76, 77, 80}}
    \cup {<<v>> \o PushOf(n) : v \in {0, OP_PUSHNUM_1, OP_PUSHNUM_2}, n \in {1, 2, 20, 32, 40, 41}}
    \cup {<<OP_PUSHNUM_2>> \o PushOf(33) \o PushOf(n) \o PushOf(33) \o <<OP_PUSHNUM_3, OP_CHECKMULTISIG>> :
             n \in {33, 65}}

MCScripts ==
    {<<>>} \cup Pieces
    \cup {p \o q : p, q \in Pieces} \cup {p \o q \o r : p, q, r \in Pieces}
    \cup UNION {{SubSeq(s, 1, n) : n \in 1 .. Len(s)} : s \in Known}
    \cup {p \o s : p \in Pieces, s \in Known} \cup {s \o p : p \in Pieces, s \in Known}
=============================================================================
