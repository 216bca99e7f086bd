----------------------- MODULE InscriptionParserProofs -----------------------
(***************************************************************************)
(* Proofs about the parser of inscriptions, for scripts of any length and  *)
(* witnesses of any number: what it reports is what the script says, it    *)
(* overlooks nothing but what is shadowed, and it numbers what it finds in *)
(* order.                                                                  *)
(*                                                                         *)
(* The functions of the parser see one instruction at a time; the          *)
(* invariant says what they have read of the envelope so far, in terms of  *)
(* the script alone.                                                       *)
(***************************************************************************)
EXTENDS InscriptionParser, FiniteSetTheorems, SequenceTheorems, TLAPS

\* Types.  An inscription, the outcome of an attempt, what is reported.
Found1 == [body : Seq(Seq(Instruction)), content_type : Seq(Instruction)]
Errors == {"none", "Script", "InvalidInscription", "UnrecognizedEvenField", "NoInscription"}
Outcome == {o \in [error : Errors, found : Seq(Found1)] : o.error = "none" => o.found # <<>>}
Reported == [inscription : Found1, tx_in_index : Int, tx_in_offset : Int]

TypeInv ==
    /\ tx \in Transactions /\ input \in Nat \ {0}
    /\ at \in {"from_transaction", "envelope", "fields", "body", "parsed"}
    /\ script \in Seq(Instruction) /\ pos \in Nat \ {0}
    /\ matched \in 0 .. 2
    /\ \A t \in DOMAIN fields : fields[t] \in Instruction
    /\ body \in Seq(Seq(Instruction))
    /\ parsed \in Seq(Outcome) /\ result \in Seq(Reported)

\* The script has the first m instructions of the header at start.
HeaderRead(m) == \A i \in 1 .. m : script[start + i - 1] = Header[i]

\* n fields follow the header: the k-th tag and its value.
Tag(k) == script[start + 1 + 2 * k]
Value(k) == script[start + 2 + 2 * k]
Behind(n) == start + 3 + 2 * n
FieldsRead(n) ==
    /\ \A k \in 1 .. n : Tag(k) \in Pushes \ {"false"} /\ Value(k) \in Pushes
    /\ \A j, k \in 1 .. n : Tag(j) = Tag(k) => j = k
    /\ DOMAIN fields = {Tag(k) : k \in 1 .. n}
    /\ \A k \in 1 .. n : fields[Tag(k)] = Value(k)

\* The body that is behind n fields, up to the instruction read last.
BodyRead(n, last) ==
    /\ script[Behind(n)] = "false"
    /\ \A i \in Behind(n) + 1 .. last : script[i] \in Pushes

EnvelopeInv ==
    /\ at \notin {"fields", "body"} => DOMAIN fields = {}
    /\ at = "envelope" /\ matched # 0 =>
          start \in Nat \ {0} /\ pos = start + matched /\ HeaderRead(matched)
    /\ at \in {"fields", "body"} => start \in Nat \ {0} /\ matched = 0 /\ HeaderRead(3)
    /\ at = "fields" => \E n \in Nat : FieldsRead(n) /\ pos = Behind(n)
    /\ at = "body" =>
          \E n \in Nat : /\ FieldsRead(n) /\ pos > Behind(n) /\ BodyRead(n, pos - 1)
                         /\ body = Some(SubSeq(script, Behind(n) + 1, pos - 1))

-----------------------------------------------------------------------------
\* The end of an envelope is read: what it yields is what the script says.
LEMMA EnvelopeRead ==
    ASSUME TypeInv, start \in Nat \ {0}, HeaderRead(3), NEW n \in Nat, FieldsRead(n),
           NEW to \in Nat, to <= Len(script), script[to] = "endif", NEW b,
           \/ to = Behind(n) /\ b = None
           \/ /\ to > Behind(n) /\ BodyRead(n, to - 1)
              /\ b = Some(SubSeq(script, Behind(n) + 1, to - 1)),
           Inscription(fields, b).error = "none"
    PROVE  LET s == SubSeq(script, start, to)
           IN  \E m \in 0 .. Len(s) :
                  /\ IsEnvelope(s, m)
                  /\ \A k \in 1 .. m : TagAt(s, k) # "even"
                  /\ Inscription(fields, b).found = Some(Meaning(s, m))
<1>1. PICK s : s = SubSeq(script, start, to)
  OBVIOUS
<1>2. to >= Behind(n) /\ start \in Nat \ {0} /\ Behind(n) = start + 3 + 2 * n
  BY DEF Behind
<1>3. /\ s \in Seq(Instruction) /\ Len(s) = to - start + 1
      /\ \A i \in 1 .. Len(s) : s[i] = script[start + i - 1]
  <2>1. \A i \in start .. to : script[i] \in Instruction
    BY <1>2 DEF TypeInv
  <2>2. start <= to
    BY <1>2
  <2> QED  BY <1>1, <1>2, <2>1, <2>2, SubSeqProperties
<1>4. Len(s) >= 4 + 2 * n /\ Len(s) \in Nat
  BY <1>2, <1>3
<1>5. \A k \in 1 .. n : TagAt(s, k) = Tag(k) /\ s[5 + 2 * (k - 1)] = Value(k)
  <2>1. TAKE k \in 1 .. n
  <2>2. PICK i : i = 4 + 2 * (k - 1)
    OBVIOUS
  <2>3. /\ i \in 1 .. Len(s) /\ i + 1 \in 1 .. Len(s) /\ 5 + 2 * (k - 1) = i + 1
        /\ start + i - 1 = start + 1 + 2 * k /\ start + (i + 1) - 1 = start + 2 + 2 * k
    BY <1>2, <1>4, <2>2
  <2>4. s[i] = script[start + 1 + 2 * k] /\ s[i + 1] = script[start + 2 + 2 * k]
    BY <1>3, <2>3
  <2> QED  BY <2>2, <2>3, <2>4 DEF TagAt, Tag, Value
<1>6. SubSeq(s, 1, 3) = Header
  <2>1. PICK h : h = SubSeq(s, 1, 3)
    OBVIOUS
  <2>2. \A i \in 1 .. 3 : i \in 1 .. Len(s) /\ s[i] = Header[i] /\ s[i] \in Instruction
    <3>1. TAKE i \in 1 .. 3
    <3>2. i \in 1 .. Len(s)
      BY <1>2, <1>4
    <3>3. s[i] = script[start + i - 1] /\ s[i] \in Instruction
      BY <1>3, <3>2
    <3>4. script[start + i - 1] = Header[i]
      BY DEF HeaderRead
    <3> QED  BY <3>2, <3>3, <3>4
  <2>3. h \in Seq(Instruction) /\ Len(h) = 3 /\ \A i \in 1 .. 3 : h[i] = s[i]
    BY <2>1, <2>2, SubSeqProperties
  <2>4. Header \in Seq(Instruction) /\ Len(Header) = 3
    BY DEF Header, Instruction, Pushes
  <2>5. \A i \in 1 .. 3 : h[i] = Header[i]
    BY <2>2, <2>3
  <2> QED  BY <2>1, <2>3, <2>4, <2>5, SeqEqual
<1>7. FieldsUpTo(s, n)
  <2>1. \A k \in 1 .. n : TagAt(s, k) \in Pushes \ {"false"} /\ s[5 + 2 * (k - 1)] \in Pushes
    BY <1>5 DEF FieldsRead
  <2>2. PICK tags : tags = [k \in 1 .. n |-> TagAt(s, k)]
    OBVIOUS
  <2>3. tags \in Bijection(1 .. n, {TagAt(s, k) : k \in 1 .. n})
    <3>1. \A j, k \in 1 .. n : tags[j] = tags[k] => j = k
      BY <1>5, <2>2 DEF FieldsRead
    <3> QED  BY <2>2, <3>1 DEF Bijection, Injection, Surjection, IsInjective
  <2>4. Cardinality({TagAt(s, k) : k \in 1 .. n}) = n
    BY <2>3, FS_CountingElements DEF ExistsBijection
  <2> QED  BY <2>1, <2>4 DEF FieldsUpTo
<1>8. PICK rest : rest = SubSeq(s, 4 + 2 * n, Len(s))
  OBVIOUS
<1>9. /\ rest \in Seq(Instruction) /\ Len(rest) = Len(s) - (4 + 2 * n) + 1
      /\ \A i \in 1 .. Len(rest) : rest[i] = script[Behind(n) + i - 1]
  <2>1. \A i \in 4 + 2 * n .. Len(s) : s[i] \in Instruction
    BY <1>3, <1>4
  <2>2. /\ rest \in Seq(Instruction) /\ Len(rest) = Len(s) - (4 + 2 * n) + 1
        /\ \A i \in 1 .. Len(rest) : rest[i] = s[4 + 2 * n + i - 1]
    BY <1>4, <1>8, <2>1, SubSeqProperties
  <2>3. ASSUME NEW i \in 1 .. Len(rest) PROVE rest[i] = script[Behind(n) + i - 1]
    <3>1. PICK j : j = 4 + 2 * n + i - 1
      OBVIOUS
    <3>2. j \in 1 .. Len(s) /\ start + j - 1 = Behind(n) + i - 1
      BY <1>2, <1>4, <2>2, <3>1
    <3> QED  BY <1>3, <2>2, <3>1, <3>2
  <2> QED  BY <2>2, <2>3
<1>10. /\ Len(rest) = to - Behind(n) + 1 /\ rest[Len(rest)] = "endif" /\ Last(rest) = "endif"
  <2>1. Len(rest) = to - Behind(n) + 1 /\ Len(rest) \in 1 .. Len(rest)
    BY <1>2, <1>3, <1>9
  <2>2. Behind(n) + Len(rest) - 1 = to
    BY <1>2, <2>1
  <2> QED  BY <1>9, <2>1, <2>2 DEF Last
<1>11. IsEnvelope(s, n) /\ Meaning(s, n).body = b
  <2>1. CASE to = Behind(n) /\ b = None
    <3>1. Len(rest) = 1 /\ rest = <<"endif">> /\ Len(s) = 4 + 2 * n
      BY <1>2, <1>3, <1>9, <1>10, <2>1
    <3> QED  BY <1>4, <1>6, <1>7, <1>8, <2>1, <3>1 DEF IsEnvelope, Meaning
  <2>2. CASE /\ to > Behind(n) /\ BodyRead(n, to - 1)
             /\ b = Some(SubSeq(script, Behind(n) + 1, to - 1))
    <3>1. Len(rest) > 1 /\ Len(s) # 4 + 2 * n /\ Len(rest) \in Nat
      BY <1>2, <1>3, <1>9, <1>10, <2>2
    <3>2. rest[1] = "false"
      <4>1. 1 \in 1 .. Len(rest) /\ Behind(n) + 1 - 1 = Behind(n)
        BY <1>2, <3>1
      <4> QED  BY <1>9, <2>2, <4>1 DEF BodyRead
    <3>3. ASSUME NEW i \in 2 .. Len(rest) - 1 PROVE rest[i] \in Pushes
      <4>1. PICK j : j = Behind(n) + i - 1
        OBVIOUS
      <4>2. i \in 1 .. Len(rest) /\ j \in Behind(n) + 1 .. to - 1
        BY <1>2, <1>10, <3>1, <4>1
      <4> QED  BY <1>9, <2>2, <4>1, <4>2 DEF BodyRead
    <3>4. IsEnvelope(s, n)
      BY <1>4, <1>6, <1>7, <1>8, <1>10, <3>1, <3>2, <3>3 DEF IsEnvelope
    <3>5. SubSeq(s, 5 + 2 * n, Len(s) - 1) = SubSeq(script, Behind(n) + 1, to - 1)
      <4>1. PICK x, y, d : /\ x = SubSeq(s, 5 + 2 * n, Len(s) - 1)
                           /\ y = SubSeq(script, Behind(n) + 1, to - 1)
                           /\ d = to - 1 - Behind(n)
        OBVIOUS
      <4>2. /\ d \in Nat /\ (Len(s) - 1) - (5 + 2 * n) + 1 = d
            /\ (to - 1) - (Behind(n) + 1) + 1 = d
        BY <1>2, <1>3, <2>2, <4>1
      <4>3. \A i \in 5 + 2 * n .. Len(s) - 1 : s[i] \in Instruction
        BY <1>3, <1>4
      <4>4. \A i \in Behind(n) + 1 .. to - 1 : script[i] \in Instruction
        BY <1>2 DEF TypeInv
      <4>5. /\ x \in Seq(Instruction) /\ Len(x) = d
            /\ \A i \in 1 .. d : x[i] = s[5 + 2 * n + i - 1]
        BY <1>4, <4>1, <4>2, <4>3, SubSeqProperties
      <4>6. /\ y \in Seq(Instruction) /\ Len(y) = d
            /\ \A i \in 1 .. d : y[i] = script[Behind(n) + 1 + i - 1]
        BY <1>2, <4>1, <4>2, <4>4, SubSeqProperties
      <4>7. ASSUME NEW i \in 1 .. d PROVE x[i] = y[i]
        <5>1. PICK j : j = 5 + 2 * n + i - 1
          OBVIOUS
        <5>2. j \in 1 .. Len(s) /\ start + j - 1 = Behind(n) + 1 + i - 1
          BY <1>2, <1>3, <4>1, <4>2, <5>1
        <5> QED  BY <1>3, <4>5, <4>6, <5>1, <5>2
      <4> QED  BY <4>1, <4>5, <4>6, <4>7, SeqEqual
    <3> QED  BY <2>2, <3>1, <3>4, <3>5 DEF Meaning
  <2> QED  BY <2>1, <2>2
<1>12. "even" \notin DOMAIN fields
  BY DEF Inscription, Err
<1>13. \A k \in 1 .. n : TagAt(s, k) # "even"
  BY <1>5, <1>12 DEF FieldsRead
<1>14. Meaning(s, n).content_type =
          IF "content_type" \in DOMAIN fields THEN Some(fields["content_type"]) ELSE None
  <2>1. CASE "content_type" \in DOMAIN fields
    <3>1. PICK k \in 1 .. n : Tag(k) = "content_type" /\ fields["content_type"] = Value(k)
      BY <2>1 DEF FieldsRead
    <3>2. \A j \in 1 .. n : TagAt(s, j) = "content_type" <=> j = k
      BY <1>5, <3>1 DEF FieldsRead
    <3>3. (CHOOSE j \in 1 .. n : TagAt(s, j) = "content_type") = k
      BY <3>2
    <3> QED  BY <1>5, <2>1, <3>1, <3>2, <3>3 DEF Meaning
  <2>2. CASE "content_type" \notin DOMAIN fields
    BY <1>5, <2>2 DEF Meaning, FieldsRead
  <2> QED  BY <2>1, <2>2
<1>15. Inscription(fields, b).found = Some(Meaning(s, n))
  <2>1. Meaning(s, n) = [body |-> Meaning(s, n).body, content_type |-> Meaning(s, n).content_type]
    BY DEF Meaning
  <2> QED  BY <1>11, <1>12, <1>14, <2>1 DEF Inscription, Ok
<1>16. n \in 0 .. Len(s)
  BY <1>4
<1> QED  BY <1>1, <1>11, <1>13, <1>15, <1>16
-----------------------------------------------------------------------------
\* Type correctness, action by action.
LEMMA SomeType ==
    ASSUME NEW S, NEW x \in S
    PROVE  Some(x) \in Seq(S) /\ Some(x) # <<>> /\ Head(Some(x)) = x /\ None \in Seq(S)
BY DEF Some, None

LEMMA ErrType ==
    ASSUME NEW e \in Errors, e # "none"
    PROVE  Err(e) \in Outcome
BY DEF Err, None, Outcome

LEMMA InscriptionType ==
    ASSUME TypeInv, NEW b \in Seq(Seq(Instruction))
    PROVE  Inscription(fields, b) \in Outcome
<1>1. CASE "even" \in DOMAIN fields
  <2>1. Err("UnrecognizedEvenField") \in Outcome
    <3>1. "UnrecognizedEvenField" \in Errors /\ "UnrecognizedEvenField" # "none"
      BY DEF Errors
    <3> QED  BY <3>1, ErrType
  <2> QED  BY <1>1, <2>1 DEF Inscription
<1>2. CASE "even" \notin DOMAIN fields
  <2>1. PICK c : c = IF "content_type" \in DOMAIN fields THEN Some(fields["content_type"]) ELSE None
    OBVIOUS
  <2>2. c \in Seq(Instruction)
    <3>1. CASE "content_type" \in DOMAIN fields
      <4>1. fields["content_type"] \in Instruction
        BY <3>1 DEF TypeInv
      <4> HIDE DEF Instruction
      <4> QED  BY <2>1, <3>1, <4>1, SomeType
    <3>2. CASE "content_type" \notin DOMAIN fields
      BY <2>1, <3>2 DEF None
    <3> QED  BY <3>1, <3>2
  <2>3. PICK f : f = [body |-> b, content_type |-> c]
    OBVIOUS
  <2>4. f \in Found1
    BY <2>2, <2>3 DEF Found1
  <2>5. Some(f) \in Seq(Found1) /\ Some(f) # <<>>
    BY <2>4, SomeType
  <2>6. Inscription(fields, b) = [error |-> "none", found |-> Some(f)]
    BY <1>2, <2>1, <2>3 DEF Inscription, Ok
  <2>7. PICK g : g = Some(f)
    OBVIOUS
  <2>8. [error |-> "none", found |-> g] \in Outcome
    <3>1. "none" \in Errors
      BY DEF Errors
    <3> QED  BY <2>5, <2>7, <3>1 DEF Outcome
  <2> QED  BY <2>6, <2>7, <2>8
<1> QED  BY <1>1, <1>2

LEMMA ScriptType ==
    ASSUME TypeInv, NextInput, ~NoScript(tx[input])
    PROVE  script' \in Seq(Instruction)
<1>1. tx \in Seq(Option(Witness)) /\ input \in 1 .. Len(tx)
  BY ScriptsAssumption DEF TypeInv, NextInput
<1>2. PICK o : o = tx[input] /\ o \in Option(Witness)
  BY <1>1
<1>3. o \in Seq(Witness) /\ o # <<>> /\ ~Unsuitable(Head(o))
  BY <1>2 DEF Option, NoScript, None
<1>4. PICK w : w = Head(o) /\ w \in Witness
  BY <1>3
<1>5. w \in Seq([annex : BOOLEAN, script : Seq(Instruction)]) /\ Len(w) > 1
  BY <1>3, <1>4 DEF Unsuitable, Witness
<1>6. \A i \in 1 .. Len(w) : w[i].script \in Seq(Instruction)
  <2>1. TAKE i \in 1 .. Len(w)
  <2>2. w[i] \in [annex : BOOLEAN, script : Seq(Instruction)]
    BY <1>5, ElementOfSeq
  <2> QED  BY <2>2
<1>7. Len(w) \in 1 .. Len(w) /\ Len(w) - 1 \in 1 .. Len(w)
  BY <1>5
<1>8. ScriptOf(w) \in Seq(Instruction)
  BY <1>6, <1>7 DEF ScriptOf
<1> QED  BY <1>2, <1>4, <1>8 DEF NextInput

LEMMA CollectedType ==
    ASSUME TypeInv
    PROVE  /\ Collected \in Seq(Found1)
           /\ Collected # <<>> => \A k \in DOMAIN parsed : parsed[k].error = "none"
<1>1. CASE \E k \in DOMAIN parsed : parsed[k].error # "none"
  BY <1>1 DEF Collected
<1>2. CASE \A k \in DOMAIN parsed : parsed[k].error = "none"
  <2>1. parsed \in Seq(Outcome) /\ DOMAIN parsed = 1 .. Len(parsed) /\ Len(parsed) \in Nat
    BY DEF TypeInv
  <2>2. ASSUME NEW k \in 1 .. Len(parsed) PROVE Head(parsed[k].found) \in Found1
    <3>1. parsed[k] \in Outcome
      BY <2>1
    <3>2. parsed[k].found \in Seq(Found1) /\ parsed[k].found # <<>>
      BY <1>2, <2>1, <3>1 DEF Outcome
    <3> QED  BY <3>2
  <2>3. Collected = [k \in 1 .. Len(parsed) |-> Head(parsed[k].found)]
    BY <1>2, <2>1 DEF Collected, Found
  <2> HIDE DEF Found1
  <2> QED  BY <1>2, <2>1, <2>2, <2>3, SeqDef
<1> QED  BY <1>1, <1>2

\* What is put down, k-th of the input.
Entry(k) == [inscription |-> Collected[k], tx_in_index |-> input - 1, tx_in_offset |-> k - 1]

LEMMA Extended ==
    ASSUME TypeInv, Extend
    PROVE  /\ result' \in Seq(Reported) /\ Len(result') = Len(result) + Len(Collected)
           /\ Len(Collected) \in Nat /\ Len(result) \in Nat
           /\ \A k \in 1 .. Len(result) : result'[k] = result[k]
           /\ \A k \in 1 .. Len(Collected) : result'[Len(result) + k] = Entry(k)
<1>1. PICK c : c = Collected
  OBVIOUS
<1>2. c \in Seq(Found1) /\ Len(c) \in Nat /\ DOMAIN c = 1 .. Len(c)
  BY <1>1, CollectedType
<1>3. PICK e : e = [k \in 1 .. Len(c) |->
                     [inscription |-> c[k], tx_in_index |-> input - 1, tx_in_offset |-> k - 1]]
  OBVIOUS
<1>4. \A k \in 1 .. Len(c) : e[k] \in Reported
  <2>1. TAKE k \in 1 .. Len(c)
  <2>2. c[k] \in Found1
    BY <1>2
  <2>3. input - 1 \in Int /\ k - 1 \in Int
    BY DEF TypeInv
  <2> QED  BY <1>3, <2>2, <2>3 DEF Reported
<1>5. e \in Seq(Reported) /\ Len(e) = Len(c)
  <2> HIDE DEF Reported
  <2> QED  BY <1>2, <1>3, <1>4, SeqDef, LenProperties
<1>6. result' = result \o e /\ \A k \in 1 .. Len(c) : e[k] = Entry(k)
  BY <1>1, <1>2, <1>3 DEF Extend, Entry
<1>7. result \in Seq(Reported) /\ Len(result) \in Nat
  BY DEF TypeInv
<1>8. /\ result \o e \in Seq(Reported) /\ Len(result \o e) = Len(result) + Len(c)
      /\ \A k \in 1 .. Len(result) : (result \o e)[k] = result[k]
      /\ \A k \in 1 .. Len(c) : (result \o e)[Len(result) + k] = e[k]
  <2> HIDE DEF Reported
  <2>1. /\ result \o e \in Seq(Reported) /\ Len(result \o e) = Len(result) + Len(e)
        /\ \A i \in 1 .. Len(result) + Len(e) :
             (result \o e)[i] = IF i <= Len(result) THEN result[i] ELSE e[i - Len(result)]
    BY <1>5, <1>7, ConcatProperties
  <2>2. ASSUME NEW k \in 1 .. Len(c) PROVE (result \o e)[Len(result) + k] = e[k]
    <3>1. PICK i : i = Len(result) + k
      OBVIOUS
    <3>2. i \in 1 .. Len(result) + Len(e) /\ ~(i <= Len(result)) /\ i - Len(result) = k
      BY <1>2, <1>5, <1>7, <3>1
    <3> QED  BY <2>1, <3>1, <3>2
  <2>3. ASSUME NEW k \in 1 .. Len(result) PROVE (result \o e)[k] = result[k]
    BY <1>2, <1>5, <1>7, <2>1
  <2> QED  BY <1>5, <2>1, <2>2, <2>3
<1> QED  BY <1>1, <1>2, <1>6, <1>7, <1>8
-----------------------------------------------------------------------------
\* An inscription that is what an envelope of these instructions means.
MeantBy(s, x) ==
    \E n \in 0 .. Len(s) :
       /\ IsEnvelope(s, n)
       /\ \A k \in 1 .. n : TagAt(s, k) # "even"
       /\ x.found = Some(Meaning(s, n))

LEMMA OnlyEnvelopesIs ==
    OnlyEnvelopes <=> \A a \in attempts :
        a.out.error = "none" => MeantBy(SubSeq(script, a.from, a.to), a.out)
BY DEF OnlyEnvelopes, MeantBy

LEMMA OnlyEnvelopesWillBe ==
    OnlyEnvelopes' <=> \A a \in attempts' :
        a.out.error = "none" => MeantBy(SubSeq(script', a.from, a.to), a.out)
BY DEF OnlyEnvelopes, MeantBy

EnvelopesInv == TypeInv /\ EnvelopeInv /\ OnlyEnvelopes

\* A new attempt, which found an envelope or failed.
LEMMA Yielded ==
    ASSUME EnvelopesInv, NEW from, NEW x \in Outcome, Yields(from, x),
           UNCHANGED <<tx, input, script, result>>, pos' \in Nat \ {0},
           x.error = "none" => MeantBy(SubSeq(script, from, pos' - 1), x)
    PROVE  EnvelopesInv'
<1>1. TypeInv'
  <2>1. parsed' \in Seq(Outcome)
    <3>1. parsed \in Seq(Outcome)
      BY DEF EnvelopesInv, TypeInv
    <3> HIDE DEF Outcome
    <3> QED  BY <3>1, AppendProperties DEF Yields
  <2>2. DOMAIN fields' = {} /\ body' \in Seq(Seq(Instruction)) /\ matched' \in 0 .. 2
    BY DEF Yields, NoFields, None
  <2> QED  BY <2>1, <2>2 DEF EnvelopesInv, TypeInv, Yields
<1>2. EnvelopeInv'
  BY DEF EnvelopeInv, Yields, NoFields
<1>3. OnlyEnvelopes'
  <2>1. ASSUME NEW a \in attempts', a.out.error = "none"
        PROVE  MeantBy(SubSeq(script', a.from, a.to), a.out)
    <3>1. CASE a \in attempts
      BY <2>1, <3>1, OnlyEnvelopesIs DEF EnvelopesInv
    <3>2. CASE a = [from |-> from, to |-> pos' - 1, out |-> x]
      <4>1. a.from = from /\ a.to = pos' - 1 /\ a.out = x
        BY <3>2
      <4> QED  BY <2>1, <4>1
    <3> QED  BY <3>1, <3>2 DEF Yields
  <2> QED  BY <2>1, OnlyEnvelopesWillBe
<1> QED  BY <1>1, <1>2, <1>3 DEF EnvelopesInv

LEMMA Failed ==
    ASSUME EnvelopesInv, NEW from, NEW e \in Errors, e # "none", Yields(from, Err(e)),
           UNCHANGED <<tx, input, script, result>>, pos' \in Nat \ {0}
    PROVE  EnvelopesInv'
<1>1. Err(e) \in Outcome /\ Err(e).error # "none"
  BY ErrType DEF Err
<1> QED  BY <1>1, Yielded

\* The steps that yield nothing.
LEMMA InitEnvelopes == Init => EnvelopesInv
<1> SUFFICES ASSUME Init PROVE EnvelopesInv
  OBVIOUS
<1>1. TypeInv
  BY DEF Init, TypeInv, NoFields, None
<1>2. EnvelopeInv /\ OnlyEnvelopes
  BY DEF Init, EnvelopeInv, OnlyEnvelopes, NoFields
<1> QED  BY <1>1, <1>2 DEF EnvelopesInv

LEMMA StepNextInput == EnvelopesInv /\ NextInput => EnvelopesInv'
<1> SUFFICES ASSUME EnvelopesInv, NextInput PROVE EnvelopesInv'
  OBVIOUS
<1>1. TypeInv'
  <2>1. script' \in Seq(Instruction)
    BY ScriptType DEF EnvelopesInv, TypeInv, NextInput
  <2>2. input' \in Nat \ {0} /\ at' \in {"from_transaction", "envelope"}
    BY DEF EnvelopesInv, TypeInv, NextInput
  <2> QED  BY <2>1, <2>2 DEF EnvelopesInv, TypeInv, NextInput
<1>2. EnvelopeInv'
  BY DEF EnvelopesInv, EnvelopeInv, NextInput
<1>3. OnlyEnvelopes'
  BY DEF OnlyEnvelopes, NextInput
<1> QED  BY <1>1, <1>2, <1>3 DEF EnvelopesInv

LEMMA StepNoMore == EnvelopesInv /\ NoMore => EnvelopesInv'
<1> SUFFICES ASSUME EnvelopesInv, NoMore PROVE EnvelopesInv'
  OBVIOUS
<1>1. TypeInv'
  BY DEF EnvelopesInv, TypeInv, NoMore, NoFields, None
<1>2. EnvelopeInv'
  BY DEF EnvelopeInv, NoMore, NoFields
<1>3. OnlyEnvelopes'
  <2>1. ASSUME NEW a \in attempts', a.out.error = "none" PROVE a \in attempts
    <3>1. ~ (a.out = Err("NoInscription"))
      BY <2>1 DEF Err
    <3> QED  BY <3>1 DEF NoMore
  <2> QED  BY <2>1, OnlyEnvelopesIs, OnlyEnvelopesWillBe DEF EnvelopesInv, NoMore
<1> QED  BY <1>1, <1>2, <1>3 DEF EnvelopesInv

LEMMA StepExtend == EnvelopesInv /\ Extend => EnvelopesInv'
<1> SUFFICES ASSUME EnvelopesInv, Extend PROVE EnvelopesInv'
  OBVIOUS
<1>1. TypeInv'
  <2>1. result' \in Seq(Reported)
    BY Extended DEF EnvelopesInv
  <2>2. input' \in Nat \ {0}
    BY DEF EnvelopesInv, TypeInv, Extend
  <2> QED  BY <2>1, <2>2 DEF EnvelopesInv, TypeInv, Extend
<1>2. EnvelopeInv'
  BY DEF EnvelopesInv, EnvelopeInv, Extend
<1>3. OnlyEnvelopes'
  BY OnlyEnvelopesIs, OnlyEnvelopesWillBe DEF EnvelopesInv, Extend
<1> QED  BY <1>1, <1>2, <1>3 DEF EnvelopesInv

LEMMA StepMatch == EnvelopesInv /\ Match => EnvelopesInv'
<1> SUFFICES ASSUME EnvelopesInv, Match PROVE EnvelopesInv'
  OBVIOUS
<1>1. pos \in Nat \ {0} /\ pos + 1 \in Nat \ {0} /\ matched \in 0 .. 2 /\ at = "envelope"
  BY DEF EnvelopesInv, TypeInv, Match
<1>2. CASE Instr = "bad"
  BY <1>1, <1>2, Failed DEF Match, Errors
<1>3. CASE Instr # "bad"
  <2>1. /\ UNCHANGED <<tx, input, script, result, fields, body, parsed, attempts>>
        /\ pos' = pos + 1 /\ DOMAIN fields = {}
    BY <1>1, <1>3 DEF Match, Mismatched, EnvelopesInv, EnvelopeInv
  <2>2. OnlyEnvelopes'
    BY <2>1, OnlyEnvelopesIs, OnlyEnvelopesWillBe DEF EnvelopesInv
  <2>3. matched' \in 0 .. 2 /\ at' \in {"envelope", "fields"}
    BY <1>1, <1>3 DEF Match
  <2>4. TypeInv'
    BY <1>1, <2>1, <2>3 DEF EnvelopesInv, TypeInv
  <2>5. EnvelopeInv'
    <3>1. CASE Instr # Header[matched + 1]
      BY <1>1, <1>3, <2>1, <3>1 DEF Match, EnvelopeInv
    <3>2. CASE Instr = Header[matched + 1]
      <4>1. /\ matched' = (matched + 1) % 3 /\ at' = IF matched = 2 THEN "fields" ELSE "envelope"
            /\ start' = IF matched = 0 THEN pos ELSE start
        BY <1>1, <1>3, <3>2 DEF Match
      <4>0. PICK s, m : s = start' /\ m = matched
        OBVIOUS
      <4>2. s \in Nat \ {0} /\ m \in 0 .. 2 /\ pos = s + m /\ pos' = s + m + 1
        <5>1. CASE matched = 0
          BY <1>1, <2>1, <4>0, <4>1, <5>1
        <5>2. CASE matched # 0
          <6>1. start \in Nat \ {0} /\ pos = start + matched /\ s = start
            BY <1>1, <4>0, <4>1, <5>2 DEF EnvelopesInv, EnvelopeInv
          <6> QED  BY <1>1, <2>1, <4>0, <6>1
        <5> QED  BY <5>1, <5>2
      <4>3. ASSUME NEW i \in 1 .. matched + 1 PROVE script'[start' + i - 1] = Header[i]
        <5>1. CASE i = matched + 1
          <6>1. i = m + 1 /\ s + i - 1 = pos
            BY <4>0, <4>2, <5>1
          <6> QED  BY <2>1, <3>2, <4>0, <5>1, <6>1 DEF Instr
        <5>2. CASE i # matched + 1
          <6>1. i \in 1 .. matched /\ matched # 0 /\ start' = start
            BY <1>1, <4>1, <5>2
          <6> QED  BY <1>1, <2>1, <6>1 DEF EnvelopesInv, EnvelopeInv, HeaderRead
        <5> QED  BY <5>1, <5>2
      <4>4. CASE matched = 2
        <5>1. /\ at' = "fields" /\ matched' = 0 /\ pos' = s + 3 /\ s + 3 + 2 * 0 = s + 3
              /\ s \in Nat \ {0}
          BY <4>0, <4>1, <4>2, <4>4
        <5>2. HeaderRead(3)'
          BY <4>3, <4>4 DEF HeaderRead
        <5>3. FieldsRead(0)'
          BY <2>1 DEF FieldsRead
        <5>4. Behind(0)' = pos'
          BY <4>0, <5>1 DEF Behind
        <5>5. \E n \in Nat : FieldsRead(n)' /\ pos' = Behind(n)'
          BY <5>3, <5>4
        <5> QED  BY <4>0, <5>1, <5>2, <5>5 DEF EnvelopeInv
      <4>5. CASE matched # 2
        <5>1. at' = "envelope" /\ matched' = matched + 1 /\ pos' = s + matched'
          <6>1. (m + 1) % 3 = m + 1 /\ s + m + 1 = s + (m + 1)
            BY <4>0, <4>2, <4>5
          <6> QED  BY <1>1, <4>0, <4>1, <4>2, <4>5, <6>1
        <5>2. HeaderRead(matched)'
          BY <4>3, <5>1 DEF HeaderRead
        <5> QED  BY <2>1, <4>0, <4>2, <5>1, <5>2 DEF EnvelopeInv
      <4> QED  BY <4>4, <4>5
    <3> QED  BY <3>1, <3>2
  <2> QED  BY <2>2, <2>4, <2>5 DEF EnvelopesInv
<1> QED  BY <1>2, <1>3

\* A field is read: its tag is new.
LEMMA OneMoreField ==
    ASSUME EnvelopesInv, start \in Nat \ {0}, NEW n \in Nat, FieldsRead(n), pos = Behind(n),
           Instr \in Pushes \ ({"false"} \cup DOMAIN fields), script[pos + 1] \in Pushes,
           UNCHANGED <<script, start>>,
           fields' = [t \in DOMAIN fields \cup {Instr} |->
                         IF t = Instr THEN script[pos + 1] ELSE fields[t]]
    PROVE  FieldsRead(n + 1)'
<1>1. pos = start + 1 + 2 * (n + 1) /\ pos + 1 = start + 2 + 2 * (n + 1)
  BY DEF Behind
<1>2. Tag(n + 1) = Instr /\ Value(n + 1) = script[pos + 1]
  BY <1>1 DEF Tag, Value, Instr
<1>3. \A k : Tag(k)' = Tag(k) /\ Value(k)' = Value(k)
  BY DEF Tag, Value
<1>4. \A k \in 1 .. n + 1 : k \in 1 .. n \/ k = n + 1
  OBVIOUS
<1>5. \A k \in 1 .. n : k \in 1 .. n + 1 /\ Tag(k) \in DOMAIN fields /\ Tag(k) # Instr
  BY DEF FieldsRead
<1>6. \A k \in 1 .. n + 1 : Tag(k) \in Pushes \ {"false"} /\ Value(k) \in Pushes
  BY <1>2, <1>4 DEF FieldsRead
<1>7. \A j, k \in 1 .. n + 1 : Tag(j) = Tag(k) => j = k
  BY <1>2, <1>4, <1>5 DEF FieldsRead
<1>8. DOMAIN fields' = {Tag(k) : k \in 1 .. n + 1}
  <2>1. DOMAIN fields' = {Tag(k) : k \in 1 .. n} \cup {Tag(n + 1)}
    BY <1>2 DEF FieldsRead
  <2>2. n + 1 \in 1 .. n + 1
    OBVIOUS
  <2>3. \A t : t \in {Tag(k) : k \in 1 .. n} \cup {Tag(n + 1)} <=> t \in {Tag(k) : k \in 1 .. n + 1}
    BY <1>4, <1>5, <2>2
  <2> QED  BY <2>1, <2>3
<1>9. \A k \in 1 .. n + 1 : fields'[Tag(k)] = Value(k)
  <2>1. TAKE k \in 1 .. n + 1
  <2>2. CASE k \in 1 .. n
    BY <1>5, <2>2 DEF FieldsRead
  <2>3. CASE k = n + 1
    BY <1>2, <2>3
  <2> QED  BY <1>4, <2>2, <2>3
<1> QED  BY <1>3, <1>6, <1>7, <1>8, <1>9 DEF FieldsRead

LEMMA StepField == EnvelopesInv /\ Field => EnvelopesInv'
<1> SUFFICES ASSUME EnvelopesInv, Field PROVE EnvelopesInv'
  OBVIOUS
<1>1. PICK n \in Nat : FieldsRead(n) /\ pos = Behind(n)
  BY DEF EnvelopesInv, EnvelopeInv, Field
<1>2. /\ start \in Nat \ {0} /\ matched = 0 /\ HeaderRead(3) /\ at = "fields" /\ pos <= Len(script)
      /\ pos \in Nat \ {0} /\ pos + 1 \in Nat \ {0} /\ pos + 2 \in Nat \ {0}
      /\ UNCHANGED <<tx, input, script, result, start>>
  BY DEF EnvelopesInv, TypeInv, EnvelopeInv, Field, More
<1>3. CASE /\ Instr = "false"
           /\ pos' = pos + 1 /\ at' = "body" /\ body' = Some(<<>>)
           /\ UNCHANGED <<matched, fields, parsed, attempts>>
  <2>1. OnlyEnvelopes'
    BY <1>2, <1>3, OnlyEnvelopesIs, OnlyEnvelopesWillBe DEF EnvelopesInv
  <2>2. TypeInv'
    <3>1. <<>> \in Seq(Instruction)
      OBVIOUS
    <3>2. body' \in Seq(Seq(Instruction))
      BY <1>3, <3>1, SomeType
    <3> QED  BY <1>2, <1>3, <3>2 DEF EnvelopesInv, TypeInv
  <2>3. FieldsRead(n)' /\ HeaderRead(3)'
    BY <1>1, <1>2, <1>3 DEF FieldsRead, Tag, Value, HeaderRead
  <2>4. Behind(n)' = pos
    BY <1>1, <1>2 DEF Behind
  <2>5. pos' > pos /\ pos' - 1 = pos
    BY <1>2, <1>3
  <2>6. BodyRead(n, pos - 1)'
    <3>1. script'[Behind(n)'] = "false"
      BY <1>2, <1>3, <2>4 DEF Instr
    <3>2. pos + 1 .. pos = {}
      BY <1>2
    <3>3. \A i \in Behind(n)' + 1 .. pos' - 1 : FALSE
      BY <2>4, <2>5, <3>2
    <3> QED  BY <3>1, <3>3 DEF BodyRead
  <2>7. body' = Some(SubSeq(script', Behind(n)' + 1, pos' - 1))
    <3>1. SubSeq(script, pos + 1, pos) = <<>>
      BY <1>2, SubSeqEmpty
    <3> QED  BY <1>2, <1>3, <2>4, <2>5, <3>1
  <2>8. EnvelopeInv'
    BY <1>2, <1>3, <2>3, <2>4, <2>5, <2>6, <2>7 DEF EnvelopeInv
  <2> QED  BY <2>1, <2>2, <2>8 DEF EnvelopesInv
<1>4. CASE Instr = "endif" /\ pos' = pos + 1 /\ Yields(start, Inscription(fields, None))
  <2>1. Inscription(fields, None) \in Outcome
    <3>1. None \in Seq(Seq(Instruction))
      BY DEF None
    <3> QED  BY <3>1, InscriptionType DEF EnvelopesInv
  <2>2. pos' - 1 = pos
    BY <1>2, <1>4
  <2>3. ASSUME Inscription(fields, None).error = "none"
        PROVE  MeantBy(SubSeq(script, start, pos), Inscription(fields, None))
    BY <1>1, <1>2, <1>4, <2>3, EnvelopeRead DEF EnvelopesInv, MeantBy, Instr
  <2>4. PICK x : x = Inscription(fields, None)
    OBVIOUS
  <2>5. x \in Outcome /\ Yields(start, x)
    BY <1>4, <2>1, <2>4
  <2>6. x.error = "none" => MeantBy(SubSeq(script, start, pos' - 1), x)
    BY <2>2, <2>3, <2>4
  <2>7. pos' \in Nat \ {0} /\ UNCHANGED <<tx, input, script, result>>
    BY <1>2, <1>4
  <2> QED  BY <1>2, <2>5, <2>6, <2>7, Yielded
<1>5. CASE /\ Instr \in Pushes \ {"false"} /\ Duplicate(Instr)
           /\ pos' = pos + 1 /\ Yields(start, Err("InvalidInscription"))
  BY <1>2, <1>5, Failed DEF Errors
<1>6. CASE /\ Instr \in Pushes \ {"false"} /\ ~Duplicate(Instr) /\ pos < Len(script)
           /\ pos' = pos + 2
           /\ IF script[pos + 1] \in Pushes
              THEN /\ fields' = [t \in DOMAIN fields \cup {Instr} |->
                                    IF t = Instr THEN script[pos + 1] ELSE fields[t]]
                   /\ UNCHANGED <<at, matched, body, parsed, attempts>>
              ELSE Yields(start, Err(NotA(script[pos + 1])))
  <2>1. CASE script[pos + 1] \notin Pushes
    BY <1>2, <1>6, <2>1, Failed DEF Errors, NotA
  <2>2. CASE script[pos + 1] \in Pushes
    <3>1. OnlyEnvelopes'
      BY <1>2, <1>6, <2>2, OnlyEnvelopesIs, OnlyEnvelopesWillBe DEF EnvelopesInv
    <3>2. TypeInv'
      <4>1. \A t \in DOMAIN fields' : fields'[t] \in Instruction
        BY <1>6, <2>2 DEF EnvelopesInv, TypeInv, Instruction
      <4> QED  BY <1>2, <1>6, <2>2, <4>1 DEF EnvelopesInv, TypeInv
    <3>3. FieldsRead(n + 1)'
      BY <1>1, <1>2, <1>6, <2>2, OneMoreField DEF Duplicate
    <3>4. Behind(n + 1)' = pos'
      <4>1. PICK s, p : s = start /\ p = pos
        OBVIOUS
      <4>2. s + 3 + 2 * (n + 1) = p + 2
        BY <1>1, <1>2, <4>1 DEF Behind
      <4> QED  BY <1>2, <1>6, <4>1, <4>2 DEF Behind
    <3>5. HeaderRead(3)'
      BY <1>2 DEF HeaderRead
    <3>6. \E m \in Nat : FieldsRead(m)' /\ pos' = Behind(m)'
      <4>1. n + 1 \in Nat
        OBVIOUS
      <4> QED  BY <3>3, <3>4, <4>1
    <3>7. EnvelopeInv'
      BY <1>2, <1>6, <2>2, <3>5, <3>6 DEF EnvelopeInv
    <3> QED  BY <3>1, <3>2, <3>7 DEF EnvelopesInv
  <2> QED  BY <2>1, <2>2
<1>7. CASE /\ Instr \notin Pushes \cup {"endif"}
           /\ pos' = pos + 1
           /\ Yields(start, Err(NotA(Instr)))
  BY <1>2, <1>7, Failed DEF Errors, NotA
<1> QED  BY <1>3, <1>4, <1>5, <1>6, <1>7 DEF Field

LEMMA StepBody == EnvelopesInv /\ Body => EnvelopesInv'
<1> SUFFICES ASSUME EnvelopesInv, Body PROVE EnvelopesInv'
  OBVIOUS
<1>1. PICK n \in Nat : /\ FieldsRead(n) /\ pos > Behind(n) /\ BodyRead(n, pos - 1)
                       /\ body = Some(SubSeq(script, Behind(n) + 1, pos - 1))
  BY DEF EnvelopesInv, EnvelopeInv, Body
<1>2. /\ start \in Nat \ {0} /\ matched = 0 /\ HeaderRead(3) /\ at = "body" /\ pos <= Len(script)
      /\ pos \in Nat \ {0} /\ pos + 1 \in Nat \ {0}
      /\ UNCHANGED <<tx, input, script, result, start>>
  BY DEF EnvelopesInv, TypeInv, EnvelopeInv, Body, More
<1>3. CASE Instr = "endif" /\ pos' = pos + 1 /\ Yields(start, Inscription(fields, body))
  <2>1. Inscription(fields, body) \in Outcome
    BY InscriptionType DEF EnvelopesInv, TypeInv
  <2>2. pos' - 1 = pos
    BY <1>2, <1>3
  <2>3. ASSUME Inscription(fields, body).error = "none"
        PROVE  MeantBy(SubSeq(script, start, pos), Inscription(fields, body))
    BY <1>1, <1>2, <1>3, <2>3, EnvelopeRead DEF EnvelopesInv, MeantBy, Instr
  <2> QED  BY <1>2, <1>3, <2>1, <2>2, <2>3, Yielded
<1>4. CASE /\ Instr \in Pushes
           /\ pos' = pos + 1 /\ body' = Some(Append(Head(body), Instr))
           /\ UNCHANGED <<at, matched, fields, parsed, attempts>>
  <2>1. OnlyEnvelopes'
    BY <1>2, <1>4, OnlyEnvelopesIs, OnlyEnvelopesWillBe DEF EnvelopesInv
  <2>2. PICK c, b : c = SubSeq(script, b + 1, pos - 1) /\ b = Behind(n)
    OBVIOUS
  <2>3. b \in Nat /\ b + 1 \in Nat \ {0} /\ pos - 1 \in Nat /\ b + 1 <= pos
    BY <1>1, <1>2, <2>2 DEF Behind
  <2>4. \A i \in b + 1 .. pos : script[i] \in Instruction
    BY <1>2, <2>3 DEF EnvelopesInv, TypeInv
  <2>5. c \in Seq(Instruction)
    BY <1>2, <2>2, <2>3, <2>4, SubSeqProperties
  <2>6. Append(c, Instr) = SubSeq(script, b + 1, pos)
    <3>1. PICK d : d = SubSeq(script, b + 1, pos)
      OBVIOUS
    <3>2. /\ d \in Seq(Instruction) /\ Len(d) = pos - (b + 1) + 1
          /\ \A i \in 1 .. Len(d) : d[i] = script[b + 1 + i - 1]
      BY <1>2, <2>3, <2>4, <3>1, SubSeqProperties
    <3>3. /\ Len(c) = Len(d) - 1 /\ Len(d) \in Nat \ {0} /\ b + 1 + Len(d) - 1 = pos
          /\ \A i \in 1 .. Len(c) : c[i] = d[i]
      <4>1. \A i \in b + 1 .. pos - 1 : script[i] \in Instruction
        BY <1>2, <2>3, <2>4
      <4>2. /\ Len(c) = IF b + 1 <= pos - 1 THEN (pos - 1) - (b + 1) + 1 ELSE 0
            /\ \A i \in 1 .. (pos - 1) - (b + 1) + 1 : c[i] = script[b + 1 + i - 1]
        <5>1. CASE b + 1 <= pos - 1
          <6>1. PICK m, l : m = b + 1 /\ l = pos - 1
            OBVIOUS
          <6>2. m \in Int /\ l \in Int /\ m <= l
            BY <1>2, <2>3, <5>1, <6>1
          <6>3. /\ Len(SubSeq(script, m, l)) = l - m + 1
                /\ \A i \in 1 .. l - m + 1 : SubSeq(script, m, l)[i] = script[m + i - 1]
            BY <4>1, <6>1, <6>2, SubSeqProperties
          <6> QED  BY <2>2, <5>1, <6>1, <6>3
        <5>2. CASE ~(b + 1 <= pos - 1)
          <6>1. b + 1 > pos - 1 /\ 1 .. (pos - 1) - (b + 1) + 1 = {} /\ b + 1 \in Int /\ pos - 1 \in Int
            BY <1>2, <2>3, <5>2
          <6>2. c = <<>>
            BY <2>2, <6>1, SubSeqEmpty
          <6> QED  BY <5>2, <6>1, <6>2
        <5> QED  BY <5>1, <5>2
      <4> QED  BY <1>2, <2>3, <3>2, <4>2
    <3>4. d[Len(d)] = Instr /\ Instr \in Instruction
      BY <1>2, <2>3, <2>4, <3>2, <3>3 DEF Instr
    <3>5. PICK e : e = Append(c, Instr)
      OBVIOUS
    <3>6. /\ e \in Seq(Instruction) /\ Len(e) = Len(d)
          /\ \A i \in 1 .. Len(d) : e[i] = d[i]
      BY <2>5, <3>3, <3>4, <3>5
    <3> QED  BY <3>1, <3>2, <3>5, <3>6, SeqEqual
  <2>7. body' = Some(SubSeq(script, b + 1, pos))
    <3>1. Head(body) = c
      <4>1. body = Some(c)
        BY <1>1, <2>2
      <4>2. Head(Some(c)) = c
        BY <2>5, SomeType
      <4> QED  BY <4>1, <4>2
    <3> QED  BY <1>4, <2>6, <3>1
  <2>8. TypeInv'
    <3>1. SubSeq(script, b + 1, pos) \in Seq(Instruction)
      BY <1>2, <2>3, <2>4, SubSeqProperties
    <3>2. body' \in Seq(Seq(Instruction))
      BY <2>7, <3>1, SomeType
    <3> QED  BY <1>2, <1>4, <3>2 DEF EnvelopesInv, TypeInv
  <2>9. FieldsRead(n)' /\ HeaderRead(3)'
    BY <1>1, <1>2, <1>4 DEF FieldsRead, Tag, Value, HeaderRead
  <2>10. Behind(n)' = b /\ b = Behind(n)
    BY <1>2, <2>2 DEF Behind
  <2>11. pos' > b /\ pos' - 1 = pos
    BY <1>2, <1>4, <2>3
  <2>12. BodyRead(n, pos - 1)'
    <3>1. script'[Behind(n)'] = "false"
      BY <1>1, <1>2, <2>10 DEF BodyRead
    <3>2. ASSUME NEW i \in b + 1 .. pos PROVE script[i] \in Pushes
      <4>1. CASE i = pos
        BY <1>4, <4>1 DEF Instr
      <4>2. CASE i # pos
        <5>1. i \in b + 1 .. pos - 1
          BY <1>2, <2>3, <4>2
        <5> QED  BY <1>1, <2>10, <5>1 DEF BodyRead
      <4> QED  BY <4>1, <4>2
    <3>3. \A i \in Behind(n)' + 1 .. pos' - 1 : script'[i] \in Pushes
      BY <1>2, <2>10, <2>11, <3>2
    <3> QED  BY <3>1, <3>3 DEF BodyRead
  <2>13. EnvelopeInv'
    <3>1. body' = Some(SubSeq(script', Behind(n)' + 1, pos' - 1))
      BY <1>2, <2>7, <2>10, <2>11
    <3> QED  BY <1>2, <1>4, <2>9, <2>10, <2>11, <2>12, <3>1 DEF EnvelopeInv
  <2> QED  BY <2>1, <2>8, <2>13 DEF EnvelopesInv
<1>5. CASE Instr = "bad" /\ pos' = pos /\ Yields(start, Err("Script"))
  BY <1>2, <1>5, Failed DEF Errors
<1>6. CASE /\ Instr \notin Pushes \cup {"endif", "bad"}
           /\ pos' = pos + 1 /\ Yields(start, Err("InvalidInscription"))
  BY <1>2, <1>6, Failed DEF Errors
<1> QED  BY <1>3, <1>4, <1>5, <1>6 DEF Body

\* The parser's steps keep what it has read in step with the script.
LEMMA StepEnvelopes == EnvelopesInv /\ [Next]_vars => EnvelopesInv'
<1> SUFFICES ASSUME EnvelopesInv, [Next]_vars PROVE EnvelopesInv'
  OBVIOUS
<1>1. CASE Next
  BY <1>1, StepNextInput, StepMatch, StepField, StepBody, StepNoMore, StepExtend DEF Next
<1>2. CASE UNCHANGED vars
  <2>1. TypeInv'
    BY <1>2 DEF vars, EnvelopesInv, TypeInv
  <2>2. /\ HeaderRead(matched)' = HeaderRead(matched) /\ HeaderRead(3)' = HeaderRead(3)
        /\ \A n : FieldsRead(n)' = FieldsRead(n) /\ Behind(n)' = Behind(n)
        /\ \A n : BodyRead(n, pos - 1)' = BodyRead(n, pos - 1)
    BY <1>2 DEF vars, HeaderRead, FieldsRead, Tag, Value, Behind, BodyRead
  <2>3. EnvelopeInv'
    BY <1>2, <2>2 DEF vars, EnvelopesInv, EnvelopeInv
  <2>4. OnlyEnvelopes'
    BY <1>2, OnlyEnvelopesIs, OnlyEnvelopesWillBe DEF vars, EnvelopesInv
  <2> QED  BY <2>1, <2>3, <2>4 DEF EnvelopesInv
<1> QED  BY <1>1, <1>2

\* Whatever a witness holds, an inscription that is found is what the script
\* says between two of its instructions: an envelope without an even tag, read
\* as such (parse_one_inscription).
THEOREM EveryInscriptionIsAnEnvelope == Spec => []OnlyEnvelopes
<1>1. EnvelopesInv => OnlyEnvelopes
  BY DEF EnvelopesInv
<1> QED  BY <1>1, InitEnvelopes, StepEnvelopes, PTL DEF Spec

-----------------------------------------------------------------------------
\* The header of an envelope is at p; and p is in what was read.
Headed(p) == p + 2 <= Len(script) /\ \A i \in 1 .. 3 : script[p + i - 1] = Header[i]
Covered(p) == \E a \in attempts : a.from <= p /\ p <= a.to

\* Where a header may be while a script is read: in what was read, behind what
\* hides it, in the envelope that is being read, or ahead.
Reading == at \in {"fields", "body"} \/ matched # 0
MissedInv ==
    at # "from_transaction" =>
        \A p \in 1 .. Len(script) : Headed(p) =>
            \/ Covered(p) \/ Shadowed(p)
            \/ at # "parsed" /\ (p >= pos \/ (Reading /\ p >= start))

ReadingInv == EnvelopesInv /\ MissedInv

LEMMA EnvelopesAreHeaded ==
    ASSUME TypeInv, NEW p \in 1 .. Len(script), NEW q \in 1 .. Len(script), NEW n \in Nat,
           IsEnvelope(SubSeq(script, p, q), n)
    PROVE  Headed(p)
<1>1. PICK s : s = SubSeq(script, p, q)
  OBVIOUS
<1>2. \A i \in p .. q : script[i] \in Instruction
  BY DEF TypeInv
<1>3. /\ s \in Seq(Instruction) /\ Len(s) = IF p <= q THEN q - p + 1 ELSE 0
      /\ \A i \in 1 .. q - p + 1 : s[i] = script[p + i - 1]
  BY <1>1, <1>2, SubSeqProperties
<1>4. Len(s) >= 4 /\ SubSeq(s, 1, 3) = Header
  BY <1>1, <1>3 DEF IsEnvelope
<1>5. p + 2 <= Len(script) /\ q - p + 1 >= 4 /\ Len(s) = q - p + 1 /\ Len(script) \in Nat
  BY <1>3, <1>4 DEF TypeInv
<1>6. \A i \in 1 .. 3 : s[i] \in Instruction
  BY <1>3, <1>5
<1>7. \A i \in 1 .. 3 : SubSeq(s, 1, 3)[i] = s[i]
  BY <1>6, SubSeqProperties
<1>8. \A i \in 1 .. 3 : i \in 1 .. q - p + 1
  BY <1>5
<1>9. \A i \in 1 .. 3 : script[p + i - 1] = Header[i]
  BY <1>3, <1>4, <1>7, <1>8
<1> QED  BY <1>5, <1>9 DEF Headed

LEMMA NothingMissed == ReadingInv => NoneMissed
<1> SUFFICES ASSUME ReadingInv, at = "parsed", NEW p \in 1 .. Len(script), NEW q \in 1 .. Len(script),
                    NEW n \in 0 .. Len(script), IsEnvelope(SubSeq(script, p, q), n)
             PROVE  Covered(p) \/ Shadowed(p)
  BY DEF NoneMissed, Covered
<1>1. Headed(p)
  BY EnvelopesAreHeaded DEF ReadingInv, EnvelopesInv
<1> QED  BY <1>1 DEF ReadingInv, MissedInv

\* An envelope is given up or read to its end: all of it is covered.
LEMMA BelowIsUpTo == \A m, n \in Nat : ~(m >= n) => m <= n - 1
OBVIOUS

LEMMA YieldedAll ==
    ASSUME ReadingInv, NEW from \in Nat, NEW x, Yields(from, x), UNCHANGED script, at # "parsed",
           at # "from_transaction", pos \in Nat, pos' \in Nat, from <= pos,
           Reading => from = start
    PROVE  MissedInv'
<1> SUFFICES ASSUME NEW p \in 1 .. Len(script), Headed(p)
             PROVE  Covered(p)' \/ Shadowed(p) \/ p >= pos'
  BY DEF MissedInv, Headed, Shadowed, Yields
<1>1. p \in Nat
  OBVIOUS
<1>2. attempts \subseteq attempts' /\ [from |-> from, to |-> pos' - 1, out |-> x] \in attempts'
  BY DEF Yields
<1>3. CASE from <= p
  <2>1. CASE p >= pos'
    BY <2>1
  <2>2. CASE ~(p >= pos')
    <3>1. p <= pos' - 1
      BY <1>1, <2>2, BelowIsUpTo
    <3> QED  BY <1>2, <1>3, <3>1 DEF Covered
  <2> QED  BY <2>1, <2>2
<1>4. CASE ~(from <= p)
  <2>1. ~(p >= pos) /\ ~(Reading /\ p >= start)
    BY <1>1, <1>4
  <2>2. Covered(p) \/ Shadowed(p)
    BY <2>1 DEF ReadingInv, MissedInv
  <2> QED  BY <1>2, <2>2 DEF Covered
<1> QED  BY <1>3, <1>4

LEMMA MatchMisses == ReadingInv /\ Match => MissedInv'
<1> SUFFICES ASSUME ReadingInv, Match PROVE MissedInv'
  OBVIOUS
<1>1. /\ pos \in Nat \ {0} /\ matched \in 0 .. 2 /\ at = "envelope" /\ UNCHANGED script
      /\ pos <= Len(script) /\ Len(script) \in Nat
      /\ matched # 0 => start \in Nat \ {0} /\ pos = start + matched /\ HeaderRead(matched)
  BY DEF ReadingInv, EnvelopesInv, TypeInv, EnvelopeInv, Match, More
<1>2. PICK from : from = start'
  OBVIOUS
<1>3. from \in Nat \ {0} /\ pos = from + matched /\ (matched # 0 => from = start)
  BY <1>1, <1>2 DEF Match
<1>4. CASE Instr = "bad"
  <2>1. pos' = pos + 1 /\ pos + 1 \in Nat /\ Yields(from, Err("Script"))
    BY <1>1, <1>2, <1>4 DEF Match
  <2>2. from <= pos /\ (Reading => from = start)
    BY <1>1, <1>3 DEF Reading
  <2> QED  BY <1>1, <1>3, <2>1, <2>2, YieldedAll
<1>5. CASE Instr # "bad"
  <2>1. pos' = pos + 1 /\ UNCHANGED attempts /\ at' \in {"envelope", "fields"}
    BY <1>1, <1>5 DEF Match, Mismatched
  <2> SUFFICES ASSUME NEW p \in 1 .. Len(script), Headed(p), ~Covered(p), ~Shadowed(p), p < pos + 1
               PROVE  Reading' /\ p >= from
    BY <1>1, <1>2, <2>1 DEF MissedInv, Headed, Shadowed, Covered
  <2>2. p >= from
    <3>1. p \in Int /\ (p = pos \/ ~(p >= pos))
      BY <1>1
    <3>2. CASE p = pos
      BY <1>1, <1>3, <3>2
    <3>3. CASE ~(p >= pos)
      <4>1. Reading /\ p >= start
        BY <1>1, <3>3 DEF ReadingInv, MissedInv
      <4>2. matched # 0
        BY <1>1, <4>1 DEF Reading
      <4> QED  BY <1>3, <4>1, <4>2
    <3> QED  BY <3>1, <3>2, <3>3
  <2>3. script[p] = "false" /\ script[p + 1] = "if" /\ script[p + 2] = "ord"
    <3>1. \A i \in 1 .. 3 : script[p + i - 1] = Header[i]
      BY DEF Headed
    <3>2. p + 1 - 1 = p /\ p + 2 - 1 = p + 1 /\ p + 3 - 1 = p + 2
      OBVIOUS
    <3>3. 1 \in 1 .. 3 /\ 2 \in 1 .. 3 /\ 3 \in 1 .. 3
      OBVIOUS
    <3>4. script[p + 1 - 1] = Header[1] /\ script[p + 2 - 1] = Header[2] /\ script[p + 3 - 1] = Header[3]
      BY <3>1, <3>3
    <3> QED  BY <3>2, <3>4 DEF Header
  <2>4. /\ matched >= 1 => script[from] = "false"
        /\ matched = 2 => script[from + 1] = "if"
    <3>1. \A i \in 1 .. matched : script[from + i - 1] = Header[i]
      BY <1>1, <1>3 DEF HeaderRead
    <3>2. CASE matched = 0
      BY <3>2
    <3>3. CASE matched = 1
      <4>1. from + 1 - 1 = from /\ 1 \in 1 .. matched
        BY <1>3, <3>3
      <4> QED  BY <3>1, <3>3, <4>1 DEF Header
    <3>4. CASE matched = 2
      <4>1. from + 1 - 1 = from /\ 1 \in 1 .. matched /\ from + 2 - 1 = from + 1 /\ 2 \in 1 .. matched
        BY <1>3, <3>4
      <4> QED  BY <3>1, <3>4, <4>1 DEF Header
    <3> QED  BY <1>1, <3>2, <3>3, <3>4
  <2>5. p = from
    <3>1. p \in Int /\ p <= from + matched
      BY <1>1, <1>3
    <3>2. CASE p = from + 1 /\ matched \in {1, 2}
      <4>1. p > 1 /\ p - 1 = from
        BY <1>3, <3>2
      <4> QED  BY <2>4, <3>2, <4>1 DEF Shadowed
    <3>3. CASE p = from + 2 /\ matched = 2
      <4>1. p > 2 /\ p - 2 = from /\ p - 1 = from + 1
        BY <1>3, <3>3
      <4> QED  BY <2>4, <3>3, <4>1 DEF Shadowed
    <3> QED  BY <1>1, <1>3, <2>2, <3>1, <3>2, <3>3
  <2>6. Instr = Header[matched + 1]
    <3>1. CASE matched = 0
      BY <1>3, <2>3, <2>5, <3>1 DEF Instr, Header
    <3>2. CASE matched = 1
      BY <1>3, <2>3, <2>5, <3>2 DEF Instr, Header
    <3>3. CASE matched = 2
      BY <1>3, <2>3, <2>5, <3>3 DEF Instr, Header
    <3> QED  BY <1>1, <3>1, <3>2, <3>3
  <2>7. Reading'
    <3>1. matched' = (matched + 1) % 3 /\ at' = IF matched = 2 THEN "fields" ELSE at
      BY <1>5, <2>6 DEF Match
    <3>2. CASE matched = 2
      BY <3>1, <3>2 DEF Reading
    <3>3. CASE matched \in {0, 1}
      <4>1. matched' # 0
        BY <3>1, <3>3
      <4> QED  BY <4>1 DEF Reading
    <3> QED  BY <1>1, <3>2, <3>3
  <2> QED  BY <2>2, <2>7
<1> QED  BY <1>4, <1>5

LEMMA InitReading == Init => ReadingInv
BY InitEnvelopes DEF ReadingInv, MissedInv, Init

LEMMA StepReading == ReadingInv /\ [Next]_vars => ReadingInv'
<1> SUFFICES ASSUME ReadingInv, [Next]_vars PROVE MissedInv'
  BY StepEnvelopes DEF ReadingInv
<1>1. /\ pos \in Nat \ {0} /\ pos + 1 \in Nat /\ pos + 2 \in Nat /\ Len(script) \in Nat
      /\ matched \in 0 .. 2
      /\ matched # 0 /\ at = "envelope" => start \in Nat \ {0} /\ pos = start + matched
  BY DEF ReadingInv, EnvelopesInv, TypeInv, EnvelopeInv
<1>2. at \in {"fields", "body"} => start \in Nat \ {0} /\ start <= pos
  <2>1. CASE at = "fields"
    <3>1. PICK n \in Nat : pos = Behind(n)
      BY <2>1 DEF ReadingInv, EnvelopesInv, EnvelopeInv
    <3>2. start \in Nat \ {0}
      BY <2>1 DEF ReadingInv, EnvelopesInv, EnvelopeInv
    <3> QED  BY <1>1, <3>1, <3>2 DEF Behind
  <2>2. CASE at = "body"
    <3>1. PICK n \in Nat : pos > Behind(n)
      BY <2>2 DEF ReadingInv, EnvelopesInv, EnvelopeInv
    <3>2. start \in Nat \ {0}
      BY <2>2 DEF ReadingInv, EnvelopesInv, EnvelopeInv
    <3> QED  BY <1>1, <3>1, <3>2 DEF Behind
  <2> QED  BY <2>1, <2>2
<1>3. CASE NextInput
  BY <1>3 DEF NextInput, MissedInv
<1>4. CASE Extend
  BY <1>4 DEF Extend, MissedInv
<1>5. CASE Match
  BY <1>5, MatchMisses
<1>6. CASE (Field \/ Body) /\ UNCHANGED <<at, attempts>>
  <2>1. UNCHANGED <<script, start>> /\ at \in {"fields", "body"}
    BY <1>6 DEF Field, Body
  <2>2. ASSUME NEW p \in 1 .. Len(script), Headed(p) PROVE Covered(p) \/ Shadowed(p) \/ p >= start
    <3>1. p >= pos => p >= start
      BY <1>1, <1>2, <2>1
    <3> QED  BY <2>1, <2>2, <3>1 DEF ReadingInv, MissedInv
  <2> QED  BY <1>6, <2>1, <2>2 DEF MissedInv, Headed, Shadowed, Covered, Reading
<1>7. CASE Field /\ at' = "body" /\ UNCHANGED attempts
  <2>1. UNCHANGED <<script, start>> /\ at = "fields"
    BY <1>7 DEF Field
  <2>2. ASSUME NEW p \in 1 .. Len(script), Headed(p) PROVE Covered(p) \/ Shadowed(p) \/ p >= start
    <3>1. p >= pos => p >= start
      BY <1>1, <1>2, <2>1
    <3> QED  BY <2>1, <2>2, <3>1 DEF ReadingInv, MissedInv
  <2> QED  BY <1>7, <2>1, <2>2 DEF MissedInv, Headed, Shadowed, Covered, Reading
<1>8. CASE (Field \/ Body) /\ \E x : Yields(start, x)
  <2>1. PICK x : Yields(start, x)
    BY <1>8
  <2>2. /\ UNCHANGED script /\ at \in {"fields", "body"} /\ start \in Nat /\ start <= pos
        /\ pos' \in Nat
    <3>1. pos' \in {pos, pos + 1, pos + 2}
      BY <1>8 DEF Field, Body
    <3> QED  BY <1>1, <1>2, <1>8, <3>1 DEF Field, Body
  <2> QED  BY <1>1, <2>1, <2>2, YieldedAll
<1>9. CASE NoMore
  <2> SUFFICES ASSUME NEW p \in 1 .. Len(script), Headed(p) PROVE Covered(p)' \/ Shadowed(p)
    BY <1>9 DEF NoMore, MissedInv, Headed, Shadowed
  <2>1. attempts \subseteq attempts' /\ at \in {"envelope", "fields", "body"}
    BY <1>9 DEF NoMore
  <2>2. CASE at = "envelope"
    <3>1. ~(p >= pos)
      BY <1>1, <1>9, <2>2 DEF NoMore, More
    <3>2. ~(Reading /\ p >= start)
      <4>1. p + 2 <= Len(script) /\ ~(pos <= Len(script))
        BY <1>9, <2>2 DEF Headed, NoMore, More
      <4> QED  BY <1>1, <2>2, <4>1 DEF Reading
    <3> QED  BY <2>1, <2>2, <3>1, <3>2 DEF ReadingInv, MissedInv, Covered
  <2>3. CASE at \in {"fields", "body"}
    <3>1. [from |-> start, to |-> Len(script), out |-> Err("NoInscription")] \in attempts'
      BY <1>9, <2>3 DEF NoMore
    <3>2. p >= start => Covered(p)'
      BY <1>2, <2>3, <3>1 DEF Covered
    <3>3. p >= pos => p >= start
      BY <1>1, <1>2, <2>3
    <3> QED  BY <2>1, <2>3, <3>2, <3>3 DEF ReadingInv, MissedInv, Covered
  <2> QED  BY <2>1, <2>2, <2>3
<1>10. CASE UNCHANGED vars
  BY <1>10 DEF vars, ReadingInv, MissedInv, Headed, Covered, Shadowed, Reading
<1>11. Field => <1>6!1 \/ <1>7!1 \/ <1>8!1
  BY DEF Field
<1>12. Body => <1>6!1 \/ <1>8!1
  BY DEF Body
<1> QED  BY <1>3, <1>4, <1>5, <1>6, <1>7, <1>8, <1>9, <1>10, <1>11, <1>12 DEF Next

\* Wherever a script has an envelope, it was read, or lies in what was read as
\* another one, or is hidden by the beginning of a header in front of it
\* (advance_into_inscription_envelope, which consumes what does not match).
THEOREM NoEnvelopeMissed == Spec => []NoneMissed
BY InitReading, StepReading, NothingMissed, PTL DEF Spec

-----------------------------------------------------------------------------
\* What was reported belongs to inputs behind which the parser is; a failure
\* among the attempts at an input is among what its parse returned; and the
\* input that reported last had none.
Before(k) == {l \in 1 .. k - 1 : result[l].tx_in_index = result[k].tx_in_index}
Harmless == \A a \in attempts : a.out.error \in {"none", "NoInscription"}
NumberedInv ==
    /\ \A k \in 1 .. Len(result) : result[k].tx_in_index < input - 1
    /\ \A k \in 1 .. Len(result) : result[k].tx_in_offset = Cardinality(Before(k))
    /\ \A k, l \in 1 .. Len(result) : k < l => result[k].tx_in_index <= result[l].tx_in_index
    /\ at # "from_transaction" =>
          ((\A k \in 1 .. Len(parsed) : parsed[k].error = "none") => Harmless)
    /\ at = "from_transaction" =>
          \A k \in 1 .. Len(result) : result[k].tx_in_index = input - 2 => Harmless

OrderInv == EnvelopesInv /\ NumberedInv

LEMMA OrderIsNumbered == OrderInv => NumberedInOrder
<1> SUFFICES ASSUME OrderInv PROVE NumberedInOrder
  OBVIOUS
<1>1. DOMAIN result = 1 .. Len(result)
  BY DEF OrderInv, EnvelopesInv, TypeInv
<1> QED  BY <1>1 DEF OrderInv, NumberedInv, NumberedInOrder, Before, Harmless

LEMMA InitOrder == Init => OrderInv
<1> SUFFICES ASSUME Init PROVE NumberedInv
  BY InitEnvelopes DEF OrderInv
<1>1. 1 .. Len(result) = {}
  BY DEF Init
<1> QED  BY <1>1 DEF Init, NumberedInv

\* The entries of one input, put down behind those of the inputs before it.
LEMMA ExtendNumbers == OrderInv /\ Extend => NumberedInv'
<1> SUFFICES ASSUME OrderInv, Extend PROVE NumberedInv'
  OBVIOUS
<1>1. TypeInv
  BY DEF OrderInv, EnvelopesInv
<1>2. PICK L, C, r, i : L = Len(result) /\ C = Len(Collected) /\ r = result' /\ i = input
  OBVIOUS
<1>3. /\ L \in Nat /\ C \in Nat /\ Len(r) = L + C /\ i \in Nat \ {0} /\ input' = i + 1
      /\ \A k \in 1 .. L : r[k] = result[k]
  BY <1>1, <1>2, Extended DEF TypeInv, Extend
<1>4. \A j \in 1 .. C : r[L + j].tx_in_index = i - 1 /\ r[L + j].tx_in_offset = j - 1
  <2>1. TAKE j \in 1 .. C
  <2>2. r[L + j] = Entry(j)
    BY <1>1, <1>2, Extended
  <2>3. Entry(j).tx_in_index = input - 1 /\ Entry(j).tx_in_offset = j - 1
    BY DEF Entry
  <2> QED  BY <1>2, <2>2, <2>3
<1>5. \A k \in 1 .. L + C : k \in 1 .. L \/ \E j \in 1 .. C : k = L + j
  <2>1. TAKE k \in 1 .. L + C
  <2>2. k > L => k - L \in 1 .. C /\ k = L + (k - L)
    BY <1>3
  <2> QED  BY <1>3, <2>2
<1>6. \A k \in 1 .. L : r[k].tx_in_index < i - 1 /\ r[k].tx_in_index \in Int
  <2>1. TAKE k \in 1 .. L
  <2>2. result[k] \in Reported
    BY <1>1, <1>2 DEF TypeInv
  <2> QED  BY <1>2, <1>3, <2>2 DEF OrderInv, NumberedInv, Reported
<1>7. ASSUME NEW k \in 1 .. L + C PROVE r[k].tx_in_index < input' - 1
  <2>1. CASE k \in 1 .. L
    <3>1. r[k].tx_in_index < (i + 1) - 1
      BY <1>3, <1>6, <2>1
    <3> QED  BY <1>3, <3>1
  <2>2. CASE k \notin 1 .. L
    <3>1. r[k].tx_in_index = i - 1
      BY <1>4, <1>5, <2>2
    <3>2. i - 1 < (i + 1) - 1
      BY <1>3
    <3> QED  BY <1>3, <3>1, <3>2
  <2> QED  BY <2>1, <2>2
<1>8. ASSUME NEW k \in 1 .. L + C
      PROVE  r[k].tx_in_offset = Cardinality({l \in 1 .. k - 1 : r[l].tx_in_index = r[k].tx_in_index})
  <2>1. CASE k \in 1 .. L
    <3>1. \A l \in 1 .. k - 1 : l \in 1 .. L
      BY <1>3, <2>1
    <3>2. {l \in 1 .. k - 1 : r[l].tx_in_index = r[k].tx_in_index} = Before(k)
      BY <1>3, <2>1, <3>1 DEF Before
    <3> QED  BY <1>2, <1>3, <2>1, <3>2 DEF OrderInv, NumberedInv
  <2>2. CASE k \notin 1 .. L
    <3>1. PICK j \in 1 .. C : k = L + j
      BY <1>5, <2>2
    <3>2. r[k].tx_in_index = i - 1 /\ r[k].tx_in_offset = j - 1
      BY <1>4, <3>1
    <3>3. ASSUME NEW l \in 1 .. k - 1
          PROVE  r[l].tx_in_index = i - 1 <=> l \in L + 1 .. k - 1
      <4>1. CASE l \in 1 .. L
        BY <1>3, <1>6, <4>1
      <4>2. CASE l \notin 1 .. L
        <5>1. l \in 1 .. L + C /\ l \in L + 1 .. k - 1
          BY <1>3, <3>1, <4>2
        <5> QED  BY <1>4, <1>5, <4>2, <5>1
      <4> QED  BY <4>1, <4>2
    <3>4. L + 1 .. k - 1 \subseteq 1 .. k - 1
      BY <1>3, <3>1
    <3>5. {l \in 1 .. k - 1 : r[l].tx_in_index = i - 1} = L + 1 .. k - 1
      BY <3>3, <3>4
    <3>6. PICK a, b : a = L + 1 /\ b = k - 1
      OBVIOUS
    <3>7. a \in Int /\ b \in Int /\ (IF a > b THEN 0 ELSE b - a + 1) = j - 1
      BY <1>3, <3>1, <3>6
    <3>8. Cardinality(a .. b) = j - 1
      BY <3>7, FS_Interval
    <3> QED  BY <3>2, <3>5, <3>6, <3>8
  <2> QED  BY <2>1, <2>2
<1>9. ASSUME NEW k \in 1 .. L + C, NEW l \in 1 .. L + C, k < l
      PROVE  r[k].tx_in_index <= r[l].tx_in_index
  <2>1. CASE k \in 1 .. L /\ l \in 1 .. L
    BY <1>2, <1>3, <1>9, <2>1 DEF OrderInv, NumberedInv
  <2>2. CASE l \notin 1 .. L
    <3>1. r[l].tx_in_index = i - 1
      BY <1>4, <1>5, <2>2
    <3>2. k \in 1 .. L \/ r[k].tx_in_index = i - 1
      BY <1>4, <1>5
    <3> QED  BY <1>3, <1>6, <3>1, <3>2
  <2>3. k \notin 1 .. L => l \notin 1 .. L
    BY <1>3, <1>9
  <2> QED  BY <2>1, <2>2, <2>3
<1>10. ASSUME NEW k \in 1 .. L + C, r[k].tx_in_index = input' - 2 PROVE Harmless
  <2>1. r[k].tx_in_index = i - 1
    <3>1. (i + 1) - 2 = i - 1
      BY <1>3
    <3> QED  BY <1>3, <1>10, <3>1
  <2>2. k \notin 1 .. L
    BY <1>3, <1>6, <2>1
  <2>3. Collected # <<>>
    <3>1. C # 0
      BY <1>3, <2>2
    <3> QED  BY <1>2, <3>1
  <2>4. \A j \in DOMAIN parsed : parsed[j].error = "none"
    BY <1>1, <2>3, CollectedType
  <2>5. DOMAIN parsed = 1 .. Len(parsed) /\ at # "from_transaction"
    BY <1>1 DEF TypeInv, Extend
  <2> QED  BY <2>4, <2>5 DEF OrderInv, NumberedInv
<1>11. at' = "from_transaction" /\ UNCHANGED attempts
  BY DEF Extend
<1>12. /\ \A k \in 1 .. Len(result') : result'[k].tx_in_index < input' - 1
       /\ \A k \in 1 .. Len(result') : result'[k].tx_in_offset = Cardinality(Before(k)')
       /\ \A k, l \in 1 .. Len(result') : k < l => result'[k].tx_in_index <= result'[l].tx_in_index
       /\ \A k \in 1 .. Len(result') : result'[k].tx_in_index = input' - 2 => Harmless
  <2>1. Len(result') = L + C /\ input' - 1 = i
    BY <1>2, <1>3
  <2>2. \A k : Before(k)' = {l \in 1 .. k - 1 : r[l].tx_in_index = r[k].tx_in_index}
    BY <1>2 DEF Before
  <2> QED  BY <1>2, <1>7, <1>8, <1>9, <1>10, <2>1, <2>2
<1>13. Harmless' <=> Harmless
  BY <1>11 DEF Harmless
<1> QED  BY <1>11, <1>12, <1>13 DEF NumberedInv

\* What was reported stays, and so do the numbers.
LEMMA KeepsNumbers ==
    ASSUME OrderInv, UNCHANGED <<result, input>>, at' # "from_transaction",
           (\A k \in 1 .. Len(parsed') : parsed'[k].error = "none") => Harmless'
    PROVE  NumberedInv'
BY DEF OrderInv, NumberedInv, Before

\* A failure is put down among the attempts and in what the parse returns.
LEMMA YieldsNumbered ==
    ASSUME OrderInv, NEW from, NEW x \in Outcome, Yields(from, x), UNCHANGED <<result, input>>,
           at # "from_transaction"
    PROVE  NumberedInv'
<1>1. parsed \in Seq(Outcome) /\ Len(parsed) \in Nat
  BY DEF OrderInv, EnvelopesInv, TypeInv
<1>2. /\ Len(parsed') = Len(parsed) + 1 /\ parsed'[Len(parsed) + 1] = x
      /\ \A k \in 1 .. Len(parsed) : parsed'[k] = parsed[k]
  <2> HIDE DEF Outcome
  <2> QED  BY <1>1, AppendProperties DEF Yields
<1>3. ASSUME \A k \in 1 .. Len(parsed') : parsed'[k].error = "none" PROVE Harmless'
  <2>1. Len(parsed) + 1 \in 1 .. Len(parsed') /\ \A k \in 1 .. Len(parsed) : k \in 1 .. Len(parsed')
    BY <1>1, <1>2
  <2>2. x.error = "none" /\ \A k \in 1 .. Len(parsed) : parsed[k].error = "none"
    BY <1>2, <1>3, <2>1
  <2>3. Harmless
    BY <2>2 DEF OrderInv, NumberedInv
  <2>4. \A a \in attempts' : a \in attempts \/ a.out = x
    BY DEF Yields
  <2> QED  BY <2>2, <2>3, <2>4 DEF Harmless
<1> QED  BY <1>3, KeepsNumbers DEF Yields

LEMMA StepOrder == OrderInv /\ [Next]_vars => OrderInv'
<1> SUFFICES ASSUME OrderInv, [Next]_vars PROVE NumberedInv'
  BY StepEnvelopes DEF OrderInv
<1>0. TypeInv
  BY DEF OrderInv, EnvelopesInv
<1>1. CASE NextInput
  <2>1. Harmless'
    BY <1>1 DEF NextInput, Harmless
  <2>2. ASSUME NEW k \in 1 .. Len(result) PROVE result[k].tx_in_index < input' - 1
    <3>1. result[k] \in Reported /\ result[k].tx_in_index < input - 1
      BY <1>0 DEF TypeInv, OrderInv, NumberedInv
    <3>2. PICK x, i : x = result[k].tx_in_index /\ i = input
      OBVIOUS
    <3>3. x \in Int /\ i \in Nat /\ x < i - 1
      BY <1>0, <3>1, <3>2 DEF TypeInv, Reported
    <3>4. x < (i + 1) - 1
      BY <3>3
    <3>5. input' = i \/ input' = i + 1
      BY <1>1, <3>2 DEF NextInput
    <3> QED  BY <3>2, <3>3, <3>4, <3>5
  <2> QED  BY <1>1, <2>1, <2>2 DEF NextInput, OrderInv, NumberedInv, Before
<1>2. CASE Extend
  BY <1>2, ExtendNumbers
<1>3. CASE (Match \/ Field \/ Body) /\ UNCHANGED <<parsed, attempts>>
  <2>1. UNCHANGED <<result, input>> /\ at # "from_transaction" /\ at' # "from_transaction"
    BY <1>3 DEF Match, Field, Body, Yields
  <2> QED  BY <1>3, <2>1, KeepsNumbers DEF OrderInv, NumberedInv, Harmless
<1>4. CASE (Match \/ Field \/ Body) /\ \E from : \E x \in Outcome : Yields(from, x)
  <2>1. UNCHANGED <<result, input>> /\ at # "from_transaction"
    BY <1>4 DEF Match, Field, Body
  <2> QED  BY <1>4, <2>1, YieldsNumbered
<1>5. CASE NoMore
  <2>1. /\ UNCHANGED <<result, input, parsed>> /\ at # "from_transaction"
        /\ at' # "from_transaction"
    BY <1>5 DEF NoMore
  <2>2. Harmless => Harmless'
    BY <1>5 DEF NoMore, Harmless, Err
  <2> QED  BY <2>1, <2>2, KeepsNumbers DEF OrderInv, NumberedInv
<1>6. CASE UNCHANGED vars
  BY <1>6 DEF vars, OrderInv, NumberedInv, Before, Harmless
<1>7. ASSUME NEW e \in {"Script", "InvalidInscription"} PROVE Err(e) \in Outcome
  BY ErrType DEF Errors
<1>8. Match => <1>3!1 \/ <1>4!1
  <2>1. Match => UNCHANGED <<parsed, attempts>> \/ Yields(start', Err("Script"))
    BY DEF Match
  <2> QED  BY <1>7, <2>1
<1>9. Field => <1>3!1 \/ <1>4!1
  <2>1. Inscription(fields, None) \in Outcome
    <3>1. None \in Seq(Seq(Instruction))
      BY DEF None
    <3> QED  BY <1>0, <3>1, InscriptionType
  <2>2. Field => \/ UNCHANGED <<parsed, attempts>>
                 \/ Yields(start, Inscription(fields, None))
                 \/ Yields(start, Err("Script")) \/ Yields(start, Err("InvalidInscription"))
    BY DEF Field, NotA
  <2> QED  BY <1>7, <2>1, <2>2
<1>10. Body => <1>3!1 \/ <1>4!1
  <2>1. Inscription(fields, body) \in Outcome
    BY <1>0, InscriptionType DEF TypeInv
  <2>2. Body => \/ UNCHANGED <<parsed, attempts>>
                \/ Yields(start, Inscription(fields, body))
                \/ Yields(start, Err("Script")) \/ Yields(start, Err("InvalidInscription"))
    BY DEF Body
  <2> QED  BY <1>7, <2>1, <2>2
<1> QED  BY <1>1, <1>2, <1>3, <1>4, <1>5, <1>6, <1>8, <1>9, <1>10 DEF Next

\* The inscriptions of a transaction are numbered by input and by offset within
\* it, without a gap, and an input one of whose envelopes failed reports none
\* (parse, from_transaction).
THEOREM ReportedInOrder == Spec => []NumberedInOrder
BY InitOrder, StepOrder, OrderIsNumbered, PTL DEF Spec
=============================================================================
