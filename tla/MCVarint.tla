------------------------------ MODULE MCVarint ------------------------------
(***************************************************************************)
(* The largest value is 2^15 - 1 = 2^(7*2+1) - 1.  Inputs are all values   *)
(* as the node writes them, each followed by another byte, and bytes that  *)
(* are the encoding of nothing, of too much, or of a part.                 *)
(***************************************************************************)
EXTENDS Varint

Edges == {0, 1, 126, 127, 128, 129, 254, 255}
MCInputs ==
    {Append(WriteVarInt(x), 200) : x \in 0 .. MaxValue}
    \cup UNION {[1 .. k -> Edges] : k \in 0 .. 4}
=============================================================================
