----------------------------- MODULE MCBlkIndex -----------------------------
(***************************************************************************)
(* A chain of five blocks in up to three files, received in any order, and *)
(* one more entry in front of or behind those of the chain.                *)
(***************************************************************************)
EXTENDS BlkIndex

Top == 4
Chain == [h \in 0 .. Top |-> h]

Rec(h, hash, status, file) == [key |-> "b", height |-> h, hash |-> hash, status |-> status, file |-> file]

\* Entries of the chain: valid, with data and undo data.
OfChain(files) == [n \in 1 .. Top + 1 |-> Rec(n - 1, n - 1, 29, files[n])]

\* Another key; a header; a branch that was left, in any file; a block on top
\* of the chain, that failed the node's checks or is not connected yet; a block
\* that failed and was replaced; one that came before its parent; one whose data
\* was pruned, with what is read in place of its file number.
Others ==
    {[Rec(0, 0, 29, 0) EXCEPT !.key = "other"]}
    \cup {Rec(5, 15, 2, 0)}
    \cup {Rec(h, 10 + h, 11, f) : h \in {1, 3, 4}, f \in 0 .. 2}
    \cup {Rec(5, 15, status, f) : status \in {11, 43}, f \in {0, 2}}
    \cup {Rec(3, 13, 43, 1), Rec(6, 16, 10, 2), Rec(4, 14, 5, 7), Rec(1, 11, 5, 0)}

MCDatabases ==
    {[chain |-> Chain, records |-> r] :
        r \in UNION {{OfChain(files)} \cup UNION {{<<o>> \o OfChain(files), Append(OfChain(files), o)} : o \in Others} :
                        files \in [1 .. Top + 1 -> 0 .. 2]}}
MCBlkFiles == 0 .. 2
=============================================================================
