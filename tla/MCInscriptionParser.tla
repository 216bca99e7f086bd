------------------------ MODULE MCInscriptionParser ------------------------
(***************************************************************************)
(* All scripts of up to four instructions; envelopes with everything that  *)
(* may be in them, one behind the other; witnesses of every shape.         *)
(***************************************************************************)
EXTENDS InscriptionParser

Good == Pushes \cup {"if", "endif", "op"}
OfLength(k) == [1 .. k -> Good]
Broken(scripts) == scripts \cup {Append(s, "bad") : s \in scripts}

Short == Broken(UNION {OfLength(k) : k \in 0 .. 4})
Tails == Broken(UNION {OfLength(k) : k \in 0 .. 3})
Envelopes ==
    {Header \o <<"endif">>, Header \o <<"content_type", "odd", "false", "even", "endif">>,
     Header \o <<"content_type">>, Header \o <<"false", "odd">>, Header \o <<"even", "odd", "odd", "even">>}
Long ==
    {Header \o t : t \in Tails}
    \cup {e \o t \o f : e, f \in Envelopes, t \in Broken(UNION {OfLength(k) : k \in 0 .. 2}) \cap Seq(Good)}
    \cup {Header \o <<"ord", "if", "odd", "false">> \o t : t \in Tails}
    \cup {Header \o <<"odd", "false">> \o t : t \in Tails}

Elem(s) == [annex |-> FALSE, script |-> s]
Annex(s) == [annex |-> TRUE, script |-> s]
Key == Elem(<<"op">>)
One == Header \o <<"endif">>
Two == One \o Header \o <<"false", "odd", "endif">>

MCTransactions ==
    {<<Some(<<Elem(s), Key>>)>> : s \in Short \cup Long}
    \cup {<<v, w>> : v, w \in {None} \cup {Some(u) : u \in {<<>>, <<Key>>,
             <<Elem(One), Annex(<<"op">>)>>, <<Elem(One), Key, Annex(One)>>, <<Key, Elem(Two), Key>>,
             <<Elem(One), Key>>, <<Elem(Two \o Header \o <<"op">>), Key>>}}}
=============================================================================
