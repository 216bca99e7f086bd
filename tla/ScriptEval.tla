----------------------------- MODULE ScriptEval -----------------------------
(***************************************************************************)
(* proto/script: what kind of script an output has, and the address it     *)
(* pays to, which the callbacks are given.  A script of Bitcoin or its     *)
(* test network is looked at as a whole, by the library's tests; one of    *)
(* another coin is read opcode by opcode onto a stack (custom.rs), which   *)
(* is compared with patterns.                                              *)
(*                                                                         *)
(* A byte is a number.  Text is the bytes it is made of, the hash of a     *)
(* public key is the key, marked as hashed, and an address is what it      *)
(* pays to with the version it is encoded with.                            *)
(***************************************************************************)
EXTENDS Integers, Sequences, SequencesExt

CONSTANTS Scripts, VersionIds   \* the scripts, and the coins' version ids

ASSUME BytesAssumption ==
    /\ VersionIds \subseteq 0 .. 255
    /\ \A s \in Scripts : s \in Seq(0 .. 255)

VARIABLES
    bytes, version_id,  \* what eval_from_bytes is called with
    at,                 \* "eval" or "done"
    ip, elements,       \* ScriptEvaluator: the position, and the stack
    evaluated           \* the EvaluatedScript
vars == <<bytes, version_id, at, ip, elements, evaluated>>

OP_PUSHDATA1 == 76
OP_PUSHDATA2 == 77
OP_PUSHDATA4 == 78
OP_PUSHNUM_1 == 81
OP_PUSHNUM_2 == 82
OP_PUSHNUM_3 == 83
OP_PUSHNUM_16 == 96
OP_NOP == 97
OP_RETURN == 106
OP_DUP == 118
OP_EQUAL == 135
OP_EQUALVERIFY == 136
OP_HASH160 == 169
OP_CHECKSIG == 172
OP_CHECKMULTISIG == 174
OP_NOP1 == 176
OP_NOP10 == 185
OP_INVALIDOPCODE == 255
IsNoOp(op) == op = OP_NOP \/ op \in OP_NOP1 .. OP_NOP10

\* EvaluatedScript; the text is that of ScriptPattern::OpReturn.
NoAddress == <<>>
Evaluated(address, pattern, text) == [address |-> address, pattern |-> pattern, text |-> text]
Address(hashed, of, version) == <<[hashed |-> hashed, of |-> of, version |-> version]>>
NotEvaluated == Evaluated(NoAddress, "none", <<>>)

Init ==
    /\ bytes \in Scripts /\ version_id \in VersionIds
    /\ at = "eval" /\ ip = 0 /\ elements = <<>>
    /\ evaluated = NotEvaluated

-----------------------------------------------------------------------------
\* eval_from_bytes_bitcoin: the library's tests.
Enclosed(s, front, n, back) ==
    /\ Len(s) = Len(front) + 1 + n + Len(back)
    /\ IsPrefix(front \o <<n>>, s) /\ IsSuffix(back, s)
P2pkh(s) == Enclosed(s, <<OP_DUP, OP_HASH160>>, 20, <<OP_EQUALVERIFY, OP_CHECKSIG>>)
P2sh(s) == Enclosed(s, <<OP_HASH160>>, 20, <<OP_EQUAL>>)
P2pk(s) == \E n \in {33, 65} : Enclosed(s, <<>>, n, <<OP_CHECKSIG>>)
WitnessProgram(s) ==
    \E v \in {0} \cup OP_PUSHNUM_1 .. OP_PUSHNUM_16, n \in 2 .. 40 : Enclosed(s, <<v>>, n, <<>>)
\* The first operation fails wherever it runs, or is none.
ProvablyUnspendable(s) ==
    s # <<>> /\ s[1] \in {80, 98, 101, 102, 131, 132, 133, 134, 137, 138, 141, 142}
                      \cup 126 .. 129 \cup 149 .. 153 \cup 186 .. OP_INVALIDOPCODE
\* Of UTF-8 only ASCII is taken: no property reads the text of an OP_RETURN.
Utf8(s) == \A k \in DOMAIN s : s[k] < 128
ValidProgram(s) == s[1] = 0 => Len(s) \in {22, 34}

FromScript(s, version) ==
    IF P2pkh(s) THEN Address(FALSE, SubSeq(s, 4, 23), version)
    ELSE IF P2sh(s) THEN Address(FALSE, SubSeq(s, 3, 22), IF version = 0 THEN 5 ELSE 196)
    ELSE IF WitnessProgram(s) /\ ValidProgram(s) THEN Address(FALSE, SubSeq(s, 3, Len(s)), s[1])
    ELSE NoAddress

P2pkToString(s, version) == Address(TRUE, SubSeq(s, 2, Len(s) - 1), version)

\* The text behind OP_RETURN and one more byte, or none where it is not UTF-8.
OpReturnText(s) == LET data == SubSeq(s, 3, Len(s)) IN IF Utf8(data) THEN data ELSE <<>>

EvalFromBytesBitcoin(s, version) ==
    LET As(pattern) == Evaluated(FromScript(s, version), pattern, <<>>)
    IN  CASE IsPrefix(<<OP_RETURN>>, s) -> Evaluated(NoAddress, "OpReturn", OpReturnText(s))
          [] ProvablyUnspendable(s) -> Evaluated(NoAddress, "Unspendable", <<>>)
          [] P2pk(s) -> Evaluated(P2pkToString(s, version), "Pay2PublicKey", <<>>)
          [] P2pkh(s) -> As("Pay2PublicKeyHash")
          [] P2sh(s) -> As("Pay2ScriptHash")
          [] Enclosed(s, <<0>>, 20, <<>>) -> As("Pay2WitnessPublicKeyHash")
          [] Enclosed(s, <<0>>, 32, <<>>) -> As("Pay2WitnessScriptHash")
          [] Enclosed(s, <<OP_PUSHNUM_1>>, 32, <<>>) -> As("Pay2Taproot")
          [] OTHER -> As(IF WitnessProgram(s) THEN "WitnessProgram" ELSE "NotRecognised")

\* eval_from_bytes chooses the evaluator.
IsBitcoin == version_id \in {0, 111}

EvalBitcoin ==
    /\ at = "eval" /\ IsBitcoin
    /\ at' = "done" /\ evaluated' = EvalFromBytesBitcoin(bytes, version_id)
    /\ UNCHANGED <<bytes, version_id, ip, elements>>

-----------------------------------------------------------------------------
\* custom.rs: StackElement.  Patterns compare the opcodes, and of data only
\* that it is data.
AnyData == -1
Data(d) == [op |-> AnyData, data |-> d]
Op(op) == [op |-> op, data |-> <<>>]

\* maybe_push_data: the bytes of a length, and the length, which is read from
\* where the opcode itself is.
LengthBytes(op) ==
    CASE op = OP_PUSHDATA1 -> 1 [] op = OP_PUSHDATA2 -> 2 [] op = OP_PUSHDATA4 -> 4 [] OTHER -> 0
ReadUint(k) ==
    LET uint[i \in 0 .. k] == IF i = 0 THEN 0 ELSE bytes[ip + k + 1 - i] + 256 * uint[i - 1]
    IN  uint[k]

Opcode == bytes[ip + 1]
DataLen == IF Opcode < OP_PUSHDATA1 THEN Opcode ELSE ReadUint(LengthBytes(Opcode))

DataFrom == ip + LengthBytes(Opcode) + 1

\* Mutant: an opcode without data has to have a byte behind it all the same.
Cut_Early == DataFrom >= Len(bytes) \/ (DataLen > 0 /\ DataFrom + DataLen > Len(bytes))

\* UnexpectedEof
Cut == ip + LengthBytes(Opcode) > Len(bytes) \/ (DataLen > 0 /\ DataFrom + DataLen > Len(bytes))

Running == at = "eval" /\ ~IsBitcoin

\* One turn of the loop of eval.
Load ==
    /\ Running /\ ip < Len(bytes) /\ ~Cut
    /\ ip' = DataFrom + DataLen
    /\ elements' = IF DataLen > 0 THEN Append(elements, Data(SubSeq(bytes, DataFrom + 1, DataFrom + DataLen)))
                   ELSE IF IsNoOp(Opcode) THEN elements
                   ELSE Append(elements, Op(Opcode))
    /\ UNCHANGED <<bytes, version_id, at, evaluated>>

UnexpectedEof ==
    /\ Running /\ ip < Len(bytes) /\ Cut
    /\ at' = "done" /\ evaluated' = Evaluated(NoAddress, "NotRecognised", <<>>)
    /\ UNCHANGED <<bytes, version_id, ip, elements>>

\* eval_script_pattern: no two of them are alike.
Patterns ==
    [Pay2PublicKeyHash |-> <<OP_DUP, OP_HASH160, AnyData, OP_EQUALVERIFY, OP_CHECKSIG>>,
     Pay2PublicKey     |-> <<AnyData, OP_CHECKSIG>>,
     Pay2ScriptHash    |-> <<OP_HASH160, AnyData, OP_EQUAL>>,
     OpReturn          |-> <<OP_RETURN, AnyData>>,
     Pay2MultiSig      |-> <<OP_PUSHNUM_2, AnyData, AnyData, AnyData, OP_PUSHNUM_3, OP_CHECKMULTISIG>>]
Kinds == [k \in DOMAIN elements |-> elements[k].op]

\* Mutant: what follows the pattern on the stack is not looked at.
Matches_Prefix(p) == IsPrefix(Patterns[p], Kinds)

Matches(p) == Kinds = Patterns[p]

\* compute_stack
ComputeStack(p) ==
    CASE p = "Pay2PublicKey" -> Evaluated(Address(TRUE, elements[1].data, version_id), p, <<>>)
      [] p = "Pay2PublicKeyHash" -> Evaluated(Address(FALSE, elements[3].data, version_id), p, <<>>)
      [] p = "Pay2ScriptHash" -> Evaluated(Address(FALSE, elements[2].data, 5), p, <<>>)
      [] p = "OpReturn" -> Evaluated(NoAddress, p, elements[2].data)
      [] OTHER -> Evaluated(NoAddress, p, <<>>)

\* eval_from_bytes_custom, at the end of the script.
EvalStack ==
    /\ Running /\ ip >= Len(bytes)
    /\ at' = "done"
    /\ \/ \E p \in DOMAIN Patterns : Matches(p) /\ evaluated' = ComputeStack(p)
       \/ /\ \A p \in DOMAIN Patterns : ~Matches(p)
          /\ evaluated' = Evaluated(NoAddress, "NotRecognised", <<>>)
    /\ UNCHANGED <<bytes, version_id, ip, elements>>

Next == EvalBitcoin \/ Load \/ UnexpectedEof \/ EvalStack

Spec == Init /\ [][Next]_vars

-----------------------------------------------------------------------------
Payments == {"Pay2PublicKey", "Pay2PublicKeyHash", "Pay2ScriptHash"}

PaysTo(e) == <<e.pattern, [a \in DOMAIN e.address |-> <<e.address[a].hashed, e.address[a].of>>]>>

\* A payment that the library knows as one of the patterns both evaluators have
\* is known as the same one to that of the other coins, and pays to the same
\* key or hash (eval, eval_script_pattern and compute_stack against the tests
\* of eval_from_bytes_bitcoin).
AgreeOnPayments ==
    at = "done" /\ ~IsBitcoin =>
        LET bitcoin == EvalFromBytesBitcoin(bytes, version_id)
        IN  bitcoin.pattern \in Payments => PaysTo(evaluated) = PaysTo(bitcoin)

\* The script that pays to a key, or to the hash of a key or a script.
Payment(pattern, of) ==
    CASE pattern = "Pay2PublicKey" -> <<Len(of)>> \o of \o <<OP_CHECKSIG>>
      [] pattern = "Pay2PublicKeyHash" ->
            <<OP_DUP, OP_HASH160, Len(of)>> \o of \o <<OP_EQUALVERIFY, OP_CHECKSIG>>
      [] pattern = "Pay2ScriptHash" -> <<OP_HASH160, Len(of)>> \o of \o <<OP_EQUAL>>

\* A script without the operations that do nothing.
WithoutNoOps(s) ==
    LET upto[n \in 0 .. Len(s)] ==
            IF n = 0 THEN <<>>
            ELSE IF IsNoOp(s[n]) THEN upto[n - 1] ELSE Append(upto[n - 1], s[n])
    IN  upto[Len(s)]

\* Conversely a script that is given an address is, but for the operations that
\* do nothing, the payment to the very bytes of that address: nothing of it was
\* passed over, and no push was cut.  Of a push with a length of its own this
\* is not said, see LoadsAllData.
PaymentsAreWhole ==
    at = "done" /\ ~IsBitcoin /\ evaluated.address # NoAddress =>
        LET of == evaluated.address[1].of
        IN  (Len(of) < OP_PUSHDATA1 /\ \A k \in DOMAIN of : ~IsNoOp(of[k])) =>
                WithoutNoOps(bytes) = Payment(evaluated.pattern, of)

\* How data of up to 255 bytes is pushed.
Push(d) == IF Len(d) < OP_PUSHDATA1 THEN <<Len(d)>> \o d ELSE <<OP_PUSHDATA1, Len(d)>> \o d

\* "Evaluates script by loading all data into the stack" (custom.rs:87), for a
\* script that pushes some data and checks a signature.
LoadsAllData ==
    at = "done" /\ ~IsBitcoin /\ Len(bytes) > 2 =>
        LET d == SubSeq(bytes, IF Head(bytes) = OP_PUSHDATA1 THEN 3 ELSE 2, Len(bytes) - 1)
        IN  (d # <<>> /\ bytes = Push(d) \o <<OP_CHECKSIG>>) => elements = <<Data(d), Op(OP_CHECKSIG)>>
=============================================================================
