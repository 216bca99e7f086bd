------------------------- MODULE InscriptionParser -------------------------
(***************************************************************************)
(* inscription.rs: what inscriptions a transaction reveals.  Of every      *)
(* input with a witness one element is taken for a script, and its         *)
(* instructions are read once, from the first to the last, by functions    *)
(* that call each other and give up in the middle; whoever is called next  *)
(* goes on behind the instruction that was read last.                      *)
(*                                                                         *)
(* An instruction is the empty push, which is OP_FALSE and the tag of the  *)
(* body; the push of "ord"; of the tag 1, of another odd and of an even    *)
(* tag; OP_IF and OP_ENDIF; another operation; or one that cannot be read, *)
(* behind which the library's iterator ends.                               *)
(***************************************************************************)
EXTENDS Integers, Sequences, FiniteSets, SequencesExt

CONSTANTS Transactions  \* for each input its witness, if it has one; an element
                        \* of it is [annex, script]: does it begin with 0x50,
                        \* and what its bytes are as a script

Pushes == {"false", "ord", "content_type", "odd", "even"}
Instruction == Pushes \cup {"if", "endif", "op", "bad"}

\* Option<T>: at most one.
Option(S) == {o \in Seq(S) : Len(o) <= 1}
Witness == Seq([annex : BOOLEAN, script : Seq(Instruction)])

ASSUME ScriptsAssumption ==
    /\ Transactions \subseteq Seq(Option(Witness))
    /\ \A t \in Transactions : \A k \in DOMAIN t : \A w \in Range(t[k]) : \A e \in Range(w) :
          \A i \in 1 .. Len(e.script) - 1 : e.script[i] # "bad"

VARIABLES
    tx, input,          \* the transaction, and the input that is looked at
    at,                 \* the function that is running
    script, pos,        \* the instructions, and the one that is read next
    matched,            \* how much of the envelope's header was seen
    fields, body,       \* locals of parse_one_inscription
    parsed,             \* parse_inscriptions: inscriptions and errors
    result,             \* from_transaction: the inscriptions
    start, attempts     \* observers: where the envelope begins that is read, and
                        \* from where to where they were read so far
vars == <<tx, input, at, script, pos, matched, fields, body, parsed, result, start, attempts>>

-----------------------------------------------------------------------------
\* Option: None, or Some(x).
None == <<>>
Some(x) == <<x>>
\* Result: an inscription, or why there is none.
Ok(x) == [error |-> "none", found |-> Some(x)]
Err(e) == [error |-> e, found |-> None]

NoFields == [t \in {} |-> "none"]
Header == <<"false", "if", "ord">>

Init ==
    /\ tx \in Transactions
    /\ input = 1 /\ at = "from_transaction"
    /\ script = <<>> /\ pos = 1 /\ matched = 0
    /\ fields = NoFields /\ body = None
    /\ parsed = <<>> /\ result = <<>>
    /\ start = 0 /\ attempts = {}

\* parse: a witness too short for a script, and the element that is taken.
Unsuitable(w) == Len(w) <= 1 \/ (Len(w) = 2 /\ Last(w).annex)
NoScript(witness) == witness = None \/ Unsuitable(Head(witness))
ScriptOf(w) == w[IF Last(w).annex THEN Len(w) ELSE Len(w) - 1].script

\* from_transaction: the next input.
NextInput ==
    /\ at = "from_transaction" /\ input <= Len(tx)
    /\ IF NoScript(tx[input])
       THEN input' = input + 1 /\ UNCHANGED <<at, script>>
       ELSE /\ script' = ScriptOf(Head(tx[input]))
            /\ at' = "envelope"
            /\ UNCHANGED input
    /\ pos' = 1 /\ matched' = 0 /\ parsed' = <<>> /\ attempts' = {}
    /\ UNCHANGED <<tx, fields, body, result, start>>

Instr == script[pos]
More == pos <= Len(script)

\* parse_one_inscription returned something, an inscription or an error; it is
\* called again and looks for the next envelope.
Yields(from, x) ==
    /\ parsed' = Append(parsed, x)
    /\ attempts' = attempts \cup {[from |-> from, to |-> pos' - 1, out |-> x]}
    /\ at' = "envelope" /\ matched' = 0
    /\ fields' = NoFields /\ body' = None

\* It returned NoInscription, which ends parse_inscriptions; what it has of an
\* envelope is dropped.
NoMore ==
    /\ at \in {"envelope", "fields", "body"}
    /\ \/ ~More
       \/ /\ at = "fields" /\ pos = Len(script)
          /\ Instr \in Pushes \ ({"false"} \cup DOMAIN fields)
    /\ at' = "parsed"
    /\ attempts' = IF at = "envelope" THEN attempts
                   ELSE attempts \cup {[from |-> start, to |-> Len(script), out |-> Err("NoInscription")]}
    /\ fields' = NoFields /\ body' = None
    /\ UNCHANGED <<tx, input, script, pos, matched, parsed, result, start>>

\* Mutant: an instruction that does not match is looked at again.
Mismatched_Again == pos' = pos
\* Mutant: the instruction behind it is passed over, too.
Mismatched_Two == pos' = pos + 2

\* An instruction that does not match is consumed nevertheless.
Mismatched == pos' = pos + 1

\* advance_into_inscription_envelope, match_instructions
Match ==
    /\ at = "envelope" /\ More
    /\ start' = IF matched = 0 THEN pos ELSE start
    /\ IF Instr = "bad"
       THEN pos' = pos + 1 /\ Yields(start', Err("Script"))
       ELSE /\ IF Instr # Header[matched + 1]
               THEN Mismatched /\ matched' = 0 /\ UNCHANGED at
               ELSE /\ pos' = pos + 1
                    /\ matched' = (matched + 1) % 3
                    /\ at' = IF matched = 2 THEN "fields" ELSE at
            /\ UNCHANGED <<fields, body, parsed, attempts>>
    /\ UNCHANGED <<tx, input, script, result>>

\* The end of an envelope: an inscription, unless it has a field that has to be
\* understood and is not.
Inscription(fs, b) ==
    IF "even" \in DOMAIN fs THEN Err("UnrecognizedEvenField")
    ELSE Ok([body |-> b, content_type |->
                IF "content_type" \in DOMAIN fs THEN Some(fs["content_type"]) ELSE None])

\* Mutant: a tag may come twice.
Duplicate_Never(tag) == FALSE

Duplicate(tag) == tag \in DOMAIN fields

\* advance() where this instruction is neither expected nor a push.
NotA(instr) == IF instr = "bad" THEN "Script" ELSE "InvalidInscription"

\* One turn of the loop of parse_one_inscription.
Field ==
    /\ at = "fields" /\ More
    /\ \/ /\ Instr = "false"
          /\ pos' = pos + 1 /\ at' = "body" /\ body' = Some(<<>>)
          /\ UNCHANGED <<matched, fields, parsed, attempts>>
       \/ /\ Instr = "endif"
          /\ pos' = pos + 1 /\ Yields(start, Inscription(fields, None))
       \/ /\ Instr \in Pushes \ {"false"} /\ Duplicate(Instr)
          /\ pos' = pos + 1 /\ Yields(start, Err("InvalidInscription"))
       \/ /\ Instr \in Pushes \ {"false"} /\ ~Duplicate(Instr) /\ pos < Len(script)
          /\ pos' = pos + 2
          /\ IF script[pos + 1] \in Pushes
             THEN /\ fields' = [t \in DOMAIN fields \cup {Instr} |->
                                   IF t = Instr THEN script[pos + 1] ELSE fields[t]]
                  /\ UNCHANGED <<at, matched, body, parsed, attempts>>
             ELSE Yields(start, Err(NotA(script[pos + 1])))
       \/ /\ Instr \notin Pushes \cup {"endif"}
          /\ pos' = pos + 1
          /\ Yields(start, Err(NotA(Instr)))
    /\ UNCHANGED <<tx, input, script, result, start>>

\* One turn of the loop over the body: accept() only peeks at an instruction
\* that cannot be read, expect_push() consumes whatever it is given.
Body ==
    /\ at = "body" /\ More
    /\ \/ /\ Instr = "endif"
          /\ pos' = pos + 1 /\ Yields(start, Inscription(fields, body))
       \/ /\ Instr \in Pushes
          /\ pos' = pos + 1 /\ body' = Some(Append(Head(body), Instr))
          /\ UNCHANGED <<at, matched, fields, parsed, attempts>>
       \/ /\ Instr = "bad"
          /\ pos' = pos /\ Yields(start, Err("Script"))
       \/ /\ Instr \notin Pushes \cup {"endif", "bad"}
          /\ pos' = pos + 1 /\ Yields(start, Err("InvalidInscription"))
    /\ UNCHANGED <<tx, input, script, result, start>>

Found(rs) == [k \in DOMAIN rs |-> Head(rs[k].found)]

\* Mutant: the inscriptions in front of an error are kept.
Collected_UpToError ==
    Found(SelectSeq(parsed, LAMBDA x : x.error = "none"))

\* parse: one error among them, and there is none.
Collected == IF \E k \in DOMAIN parsed : parsed[k].error # "none" THEN <<>> ELSE Found(parsed)

\* from_transaction: the inscriptions of an input.
Extend ==
    /\ at = "parsed"
    /\ result' = result \o [k \in DOMAIN Collected |->
          [inscription |-> Collected[k], tx_in_index |-> input - 1, tx_in_offset |-> k - 1]]
    /\ input' = input + 1
    /\ at' = "from_transaction"
    /\ UNCHANGED <<tx, script, pos, matched, fields, body, parsed, start, attempts>>

Next == NextInput \/ Match \/ Field \/ Body \/ NoMore \/ Extend

Spec == Init /\ [][Next]_vars /\ WF_vars(Next)

-----------------------------------------------------------------------------
\* What an envelope is, as one expression: the header; pairs of a tag and a
\* value, no tag twice; the body, if any, behind an empty push; OP_ENDIF.
TagAt(s, k) == s[4 + 2 * (k - 1)]
FieldsUpTo(s, n) ==
    /\ \A k \in 1 .. n : TagAt(s, k) \in Pushes \ {"false"} /\ s[5 + 2 * (k - 1)] \in Pushes
    /\ Cardinality({TagAt(s, k) : k \in 1 .. n}) = n
IsEnvelope(s, n) ==
    /\ Len(s) >= 4 + 2 * n
    /\ SubSeq(s, 1, 3) = Header
    /\ FieldsUpTo(s, n)
    /\ LET rest == SubSeq(s, 4 + 2 * n, Len(s))
       IN  \/ rest = <<"endif">>
           \/ /\ Len(rest) > 1 /\ rest[1] = "false" /\ Last(rest) = "endif"
              /\ \A i \in 2 .. Len(rest) - 1 : rest[i] \in Pushes
\* What it inscribes.
Meaning(s, n) ==
    [body |-> IF Len(s) = 4 + 2 * n THEN None ELSE Some(SubSeq(s, 5 + 2 * n, Len(s) - 1)),
     content_type |-> IF \E k \in 1 .. n : TagAt(s, k) = "content_type"
                      THEN Some(s[5 + 2 * ((CHOOSE k \in 1 .. n : TagAt(s, k) = "content_type") - 1)])
                      ELSE None]

\* Every inscription found is what the script says between two instructions of
\* it: an envelope without an even tag, read as such (parse_one_inscription,
\* which sees one instruction at a time and may begin in the middle).
OnlyEnvelopes ==
    \A a \in attempts : a.out.error = "none" =>
        LET s == SubSeq(script, a.from, a.to)
        IN  \E n \in 0 .. Len(s) :
               /\ IsEnvelope(s, n)
               /\ \A k \in 1 .. n : TagAt(s, k) # "even"
               /\ a.out.found = Some(Meaning(s, n))

\* Where an envelope may be overlooked: the instruction in front of it is taken
\* for the beginning of another one and its first for what does not match.
Shadowed(p) ==
    \/ p > 1 /\ script[p - 1] = "false"
    \/ p > 2 /\ script[p - 2] = "false" /\ script[p - 1] = "if"

\* No envelope is overlooked: whenever the end of the script is reached, every
\* one of it was read, or lies in what was read as another, or is shadowed.
NoneMissed ==
    at = "parsed" =>
        \A p \in 1 .. Len(script), q \in 1 .. Len(script) :
            (\E n \in 0 .. Len(script) : IsEnvelope(SubSeq(script, p, q), n)) =>
                \/ \E a \in attempts : a.from <= p /\ p <= a.to
                \/ Shadowed(p)

\* An inscription that is reported as the first of its input, which is what
\* tells a blessed from a cursed one, is the first envelope that was read there,
\* and none of that input failed: inscriptions are numbered by input and offset
\* without a gap, and an input with a broken envelope reports none at all.
NumberedInOrder ==
    /\ \A k \in DOMAIN result :
          result[k].tx_in_offset =
             Cardinality({l \in 1 .. k - 1 : result[l].tx_in_index = result[k].tx_in_index})
    /\ \A k, l \in DOMAIN result : k < l => result[k].tx_in_index <= result[l].tx_in_index
    /\ at = "from_transaction" =>
          \A k \in DOMAIN result : result[k].tx_in_index = input - 2 =>
              \A a \in attempts : a.out.error \in {"none", "NoInscription"}

\* The parser comes to an end, also behind an instruction that cannot be read,
\* which is peeked at and read again.
Terminates == <>(at = "from_transaction" /\ input > Len(tx))
=============================================================================
