-------------------------- MODULE ScriptEvalProofs --------------------------
(***************************************************************************)
(* That the evaluator of the other coins and the library's tests agree on  *)
(* payments, and that a payment is a whole script, for every script.       *)
(***************************************************************************)
EXTENDS ScriptEval, SequenceTheorems, WellFoundedInduction, TLAPS

Byte == 0 .. 255
Element == [op : Int, data : Seq(Byte)]

\* A set of natural numbers that is not empty has a least one.
LEMMA LeastNat ==
    ASSUME NEW T \in SUBSET Nat, T # {}
    PROVE  \E n \in T : \A m \in T : n <= m
<1> DEFINE R == {ss \in Nat \X Nat : ss[1] < ss[2]}
<1>1. IsWellFoundedOn(R, Nat)
  BY NatLessThanWellFounded DEF OpToRel
<1>2. \A m, n \in Nat : m < n => <<m, n>> \in R
  OBVIOUS
<1> HIDE DEF R
<1>3. PICK n \in T : \A m \in T : ~(<<m, n>> \in R)
  BY <1>1, WFMin
<1>4. \A m \in T : m \in Nat /\ n \in Nat /\ ~(m < n)
  BY <1>2, <1>3
<1> QED  BY <1>3, <1>4

-----------------------------------------------------------------------------
\* The number that is read behind a push: none for none, and at least its first
\* byte, the opcode itself.
UnfoldsUint(r, b, m, n) ==
    r = [i \in 0 .. n |-> IF i = 0 THEN 0 ELSE b[m + (1 - i)] + 256 * r[i - 1]]

LEMMA UintExists ==
    ASSUME NEW b, NEW m, NEW n \in Nat
    PROVE  \E r : UnfoldsUint(r, b, m, n)
<1> DEFINE T == {k \in Nat : ~ \E r : UnfoldsUint(r, b, m, k)}
<1>1. SUFFICES ASSUME T # {} PROVE FALSE
  OBVIOUS
<1>2. PICK k \in T : \A j \in T : k <= j
  BY <1>1, LeastNat
<1>3. CASE k = 0
  <2>1. UnfoldsUint([j \in {0} |-> 0], b, m, 0)
    BY DEF UnfoldsUint
  <2> QED  BY <1>2, <1>3, <2>1
<1>4. CASE k # 0
  <2>1. k - 1 \in Nat /\ k - 1 \notin T
    BY <1>2, <1>4
  <2>2. PICK r : UnfoldsUint(r, b, m, k - 1)
    BY <2>1
  <2> DEFINE more == [j \in 0 .. k |-> IF j = k THEN b[m + (1 - k)] + 256 * r[k - 1] ELSE r[j]]
  <2>3. \A j \in 0 .. k : more[j] = IF j = 0 THEN 0 ELSE b[m + (1 - j)] + 256 * more[j - 1]
    <3>1. TAKE j \in 0 .. k
    <3>2. CASE j = 0
      BY <1>2, <1>4, <2>2, <3>2 DEF UnfoldsUint
    <3>3. CASE j \in 1 .. k - 1
      <4>1. r[j] = b[m + (1 - j)] + 256 * r[j - 1]
        BY <1>2, <2>2, <3>3 DEF UnfoldsUint
      <4> QED  BY <1>2, <3>3, <4>1
    <3>4. CASE j = k
      BY <1>2, <1>4, <3>4
    <3> QED  BY <1>2, <3>2, <3>3, <3>4
  <2>4. more = [j \in 0 .. k |-> more[j]]
    OBVIOUS
  <2> HIDE DEF more
  <2>5. [j \in 0 .. k |-> more[j]]
           = [j \in 0 .. k |-> IF j = 0 THEN 0 ELSE b[m + (1 - j)] + 256 * more[j - 1]]
    BY <2>3
  <2>6. UnfoldsUint(more, b, m, k)
    BY <2>4, <2>5 DEF UnfoldsUint
  <2> QED  BY <1>2, <2>6
<1> QED  BY <1>3, <1>4

LEMMA UintReads ==
    ASSUME NEW k \in Nat, bytes \in Seq(Byte), ip \in Nat, ip + k <= Len(bytes)
    PROVE  /\ k = 0 => ReadUint(k) = 0
           /\ k # 0 => ReadUint(k) \in Nat /\ ReadUint(k) >= bytes[ip + 1]
<1> DEFINE r == CHOOSE r : UnfoldsUint(r, bytes, ip + k, k)
           T == {i \in 0 .. k : ~(r[i] \in Nat)}
<1>1. ReadUint(k) = r[k]
  <2>1. ReadUint(k) = (CHOOSE q : UnfoldsUint(q, bytes, ip + k, k))[k]
    BY DEF ReadUint, UnfoldsUint
  <2> QED  BY <2>1
<1>2. UnfoldsUint(r, bytes, ip + k, k)
  BY UintExists
<1>3. r[0] = 0 /\ \A i \in 1 .. k : r[i] = bytes[ip + k + (1 - i)] + 256 * r[i - 1]
  <2> HIDE DEF r
  <2>1. \A i \in 0 .. k : r[i] = IF i = 0 THEN 0 ELSE bytes[ip + k + (1 - i)] + 256 * r[i - 1]
    BY <1>2 DEF UnfoldsUint
  <2> QED  BY <2>1
<1> HIDE DEF r
<1>4. \A i \in 1 .. k : bytes[ip + k + (1 - i)] \in Nat
  <2> SUFFICES ASSUME NEW i \in 1 .. k PROVE bytes[ip + k + (1 - i)] \in Nat
    OBVIOUS
  <2>1. ip + k + (1 - i) \in 1 .. Len(bytes)
    OBVIOUS
  <2>2. bytes[ip + k + (1 - i)] \in Byte
    BY <2>1
  <2>3. \A b \in Byte : b \in Nat
    BY DEF Byte
  <2> QED  BY <2>2, <2>3
<1>5. T = {}
  <2>1. SUFFICES ASSUME T # {} PROVE FALSE
    OBVIOUS
  <2>2. PICK i \in T : \A j \in T : i <= j
    <3>1. T \in SUBSET Nat
      OBVIOUS
    <3> HIDE DEF T
    <3> QED  BY <2>1, <3>1, LeastNat
  <2>3. i \in 1 .. k /\ i - 1 \in 0 .. k /\ i - 1 \notin T
    BY <1>3, <2>2
  <2>4. r[i - 1] \in Nat
    BY <2>3
  <2> QED  BY <1>3, <1>4, <2>2, <2>3, <2>4
<1>6. ASSUME k # 0 PROVE ReadUint(k) \in Nat /\ ReadUint(k) >= bytes[ip + 1]
  <2>1. k \in 1 .. k /\ k - 1 \in 0 .. k /\ ip + k + (1 - k) = ip + 1
    BY <1>6
  <2>2. r[k - 1] \in Nat /\ r[k] = bytes[ip + 1] + 256 * r[k - 1]
    BY <1>3, <1>5, <2>1
  <2>3. bytes[ip + 1] \in Nat
    BY <1>4, <2>1
  <2> QED  BY <1>1, <2>2, <2>3
<1> QED  BY <1>1, <1>3, <1>6

-----------------------------------------------------------------------------
\* What a turn of the loop loads: data behind its length, data behind a length of
\* its own, an operation, or nothing.
TypeInv ==
    /\ bytes \in Seq(Byte) /\ version_id \in Byte
    /\ at \in {"eval", "done"}
    /\ ip \in 0 .. Len(bytes)
    /\ elements \in Seq(Element)

PushesTo(d, next) ==
    ip' = next /\ elements' = Append(elements, Data(d))

LEMMA Loads ==
    ASSUME TypeInv, Load
    PROVE  /\ ip < Len(bytes) /\ Opcode \in Byte
           /\ \/ /\ Opcode \in 1 .. 75 /\ ip + 1 + Opcode <= Len(bytes)
                 /\ PushesTo(SubSeq(bytes, ip + 2, ip + 1 + Opcode), ip + 1 + Opcode)
              \/ /\ Opcode \in 76 .. 78 /\ ip' \in 0 .. Len(bytes)
                 /\ \E d \in Seq(Byte) : Len(d) >= 76 /\ PushesTo(d, ip')
              \/ /\ Opcode = 0 \/ Opcode > 78
                 /\ ip' = ip + 1
                 /\ elements' = IF IsNoOp(Opcode) THEN elements ELSE Append(elements, Op(Opcode))
<1>0. /\ ip < Len(bytes) /\ ip \in Nat /\ Len(bytes) \in Nat /\ ~Cut
      /\ ip' = DataFrom + DataLen
      /\ elements' = IF DataLen > 0 THEN Append(elements, Data(SubSeq(bytes, DataFrom + 1, DataFrom + DataLen)))
                     ELSE IF IsNoOp(Opcode) THEN elements
                     ELSE Append(elements, Op(Opcode))
  BY DEF Load, TypeInv
<1>1. Opcode \in Byte
  BY <1>0 DEF Opcode, TypeInv
<1>2. /\ Opcode \in 76 .. 78 => LengthBytes(Opcode) \in {1, 2, 4}
      /\ Opcode \notin 76 .. 78 => LengthBytes(Opcode) = 0
  BY <1>1 DEF LengthBytes, OP_PUSHDATA1, OP_PUSHDATA2, OP_PUSHDATA4, Byte
<1>3. CASE Opcode \in 1 .. 75
  <2>1. LengthBytes(Opcode) = 0 /\ DataLen = Opcode
    BY <1>2, <1>3 DEF DataLen, OP_PUSHDATA1
  <2>2. DataFrom = ip + 1 /\ DataLen > 0
    BY <1>0, <1>3, <2>1 DEF DataFrom
  <2>3. ip + 1 + Opcode <= Len(bytes)
    BY <1>0, <1>3, <2>1, <2>2 DEF Cut
  <2>4. (ip + 1) + 1 = ip + 2
    BY <1>0
  <2> QED  BY <1>0, <1>1, <1>3, <2>1, <2>2, <2>3, <2>4 DEF PushesTo
<1>4. CASE Opcode \in 76 .. 78
  <2>1. PICK k \in Nat : k = LengthBytes(Opcode) /\ k # 0
    BY <1>2, <1>4
  <2>2. ip + k <= Len(bytes)
    BY <1>0, <2>1 DEF Cut
  <2>3. DataLen \in Nat /\ DataLen >= 76
    <3>1. DataLen = ReadUint(k)
      BY <1>4, <2>1 DEF DataLen, OP_PUSHDATA1
    <3>2. ReadUint(k) \in Nat /\ ReadUint(k) >= Opcode
      BY <1>0, <2>1, <2>2, UintReads DEF TypeInv, Opcode
    <3> QED  BY <1>4, <3>1, <3>2
  <2>4. DataFrom = ip + k + 1 /\ DataFrom + DataLen <= Len(bytes)
    BY <1>0, <2>1, <2>3 DEF DataFrom, Cut
  <2>5. PICK d : d = SubSeq(bytes, DataFrom + 1, DataFrom + DataLen)
    OBVIOUS
  <2>6. d \in Seq(Byte) /\ Len(d) = DataLen
    <3>1. PICK m, n : m = DataFrom + 1 /\ n = DataFrom + DataLen
      OBVIOUS
    <3>2. PICK a, b : a = DataFrom /\ b = DataLen
      OBVIOUS
    <3>3. a \in Nat /\ b \in Nat /\ b >= 76 /\ a + b <= Len(bytes) /\ m = a + 1 /\ n = a + b
      <4>1. b \in Nat /\ b >= 76 /\ m = a + 1 /\ n = a + b
        BY <2>3, <3>1, <3>2
      <4>2. a = ip + k + 1 /\ a + b <= Len(bytes)
        BY <2>4, <3>2
      <4>3. ip \in Nat
        BY <1>0
      <4> QED  BY <2>1, <4>1, <4>2, <4>3
    <3>4. m \in Nat \ {0} /\ n \in Nat /\ n <= Len(bytes) /\ n - m + 1 = b /\ m <= n
      BY <3>3
    <3>5. SubSeq(bytes, m, n) \in Seq(Byte) /\ Len(SubSeq(bytes, m, n)) = n - m + 1
      BY <3>4 DEF TypeInv
    <3> QED  BY <2>5, <3>1, <3>2, <3>4, <3>5
  <2>7. ip' \in 0 .. Len(bytes)
    <3>1. PICK a, b : a = DataFrom /\ b = DataLen
      OBVIOUS
    <3>2. ip' = a + b /\ a \in Nat /\ b \in Nat /\ a + b <= Len(bytes)
      <4>1. ip' = a + b /\ ip \in Nat
        BY <1>0, <3>1
      <4>2. a = ip + k + 1 /\ b \in Nat /\ a + b <= Len(bytes)
        BY <2>3, <2>4, <3>1
      <4> QED  BY <2>1, <4>1, <4>2
    <3> QED  BY <1>0, <3>2
  <2>8. PushesTo(d, ip')
    <3>1. DataLen > 0
      BY <2>3
    <3> QED  BY <1>0, <2>5, <3>1 DEF PushesTo
  <2> QED  BY <1>0, <1>1, <1>4, <2>3, <2>6, <2>7, <2>8
<1>5. CASE Opcode = 0 \/ Opcode > 78
  <2>1. LengthBytes(Opcode) = 0 /\ DataLen = 0
    <3>1. LengthBytes(Opcode) = 0
      BY <1>1, <1>2, <1>5 DEF Byte
    <3>2. ReadUint(0) = 0
      BY <1>0, UintReads DEF TypeInv
    <3>3. ReadUint(LengthBytes(Opcode)) = 0
      BY <3>1, <3>2
    <3>4. Opcode = 0 \/ ~(Opcode < 76)
      BY <1>1, <1>5 DEF Byte
    <3> QED  BY <3>1, <3>3, <3>4 DEF DataLen, OP_PUSHDATA1
  <2>2. DataFrom = ip + 1
    BY <1>0, <2>1 DEF DataFrom
  <2> QED  BY <1>0, <1>1, <1>5, <2>1, <2>2
<1> QED  BY <1>1, <1>3, <1>4, <1>5 DEF Byte

\* The loop stops early only where a push is cut.
LEMMA NotCut ==
    ASSUME TypeInv, ip < Len(bytes),
           (Opcode \in 1 .. 75 /\ ip + 1 + Opcode <= Len(bytes)) \/ Opcode > 78
    PROVE  ~Cut
<1>0. Opcode \in Byte /\ ip \in Nat /\ Len(bytes) \in Nat
  BY DEF Opcode, TypeInv
<1>1. LengthBytes(Opcode) = 0
  <2>1. Opcode \notin 76 .. 78
    BY <1>0 DEF Byte
  <2>2. Opcode # 76 /\ Opcode # 77 /\ Opcode # 78
    BY <2>1
  <2> QED  BY <2>2 DEF LengthBytes, OP_PUSHDATA1, OP_PUSHDATA2, OP_PUSHDATA4
<1>2. ReadUint(0) = 0
  BY <1>0, UintReads DEF TypeInv
<1>3. DataFrom = ip + 1 /\ DataLen = IF Opcode < 76 THEN Opcode ELSE 0
  BY <1>0, <1>1, <1>2 DEF DataFrom, DataLen, OP_PUSHDATA1
<1> QED  BY <1>0, <1>1, <1>3 DEF Cut, Byte

LEMMA InitTyped == Init => TypeInv
BY BytesAssumption DEF Init, TypeInv, Byte

LEMMA NextTyped == TypeInv /\ [Next]_vars => TypeInv'
<1> SUFFICES ASSUME TypeInv, [Next]_vars PROVE TypeInv'
  OBVIOUS
<1>1. CASE Load
  <2>0. /\ UNCHANGED <<bytes, version_id, at>> /\ Opcode \in Byte /\ ip \in Nat /\ Len(bytes) \in Nat
        /\ bytes \in Seq(Byte)
    BY <1>1, Loads DEF Load, TypeInv
  <2>1. ASSUME NEW d \in Seq(Byte) PROVE Append(elements, Data(d)) \in Seq(Element)
    <3>1. Data(d) \in Element
      BY DEF Data, Element, AnyData
    <3> QED  BY <3>1 DEF TypeInv
  <2>2. CASE Opcode \in 1 .. 75
    <3>1. /\ ip + 1 + Opcode <= Len(bytes)
          /\ PushesTo(SubSeq(bytes, ip + 2, ip + 1 + Opcode), ip + 1 + Opcode)
      BY <1>1, <2>2, Loads
    <3>2. SubSeq(bytes, ip + 2, ip + 1 + Opcode) \in Seq(Byte)
      BY <2>0, <2>2, <3>1
    <3>3. ip' = ip + 1 + Opcode /\ elements' \in Seq(Element)
      BY <2>1, <3>1, <3>2 DEF PushesTo
    <3>4. ip + 1 + Opcode \in 0 .. Len(bytes)
      BY <2>0, <2>2, <3>1
    <3> QED  BY <2>0, <3>3, <3>4 DEF TypeInv
  <2>3. CASE Opcode \in 76 .. 78
    <3>1. ip' \in 0 .. Len(bytes) /\ \E d \in Seq(Byte) : PushesTo(d, ip')
      BY <1>1, <2>3, Loads
    <3> QED  BY <2>0, <2>1, <3>1 DEF PushesTo, TypeInv
  <2>4. CASE Opcode = 0 \/ Opcode > 78
    <3>1. /\ ip' = ip + 1 /\ ip < Len(bytes)
          /\ elements' = IF IsNoOp(Opcode) THEN elements ELSE Append(elements, Op(Opcode))
      <4>1. Opcode \notin 1 .. 75 /\ Opcode \notin 76 .. 78
        BY <2>0, <2>4 DEF Byte
      <4> QED  BY <1>1, <4>1, Loads
    <3>2. Op(Opcode) \in Element
      BY <2>0 DEF Op, Element, Byte
    <3>3. elements' \in Seq(Element)
      BY <3>1, <3>2 DEF TypeInv
    <3> QED  BY <2>0, <3>1, <3>3 DEF TypeInv
  <2> QED  BY <2>0, <2>2, <2>3, <2>4 DEF Byte
<1>2. CASE EvalBitcoin \/ UnexpectedEof \/ EvalStack \/ UNCHANGED vars
  BY <1>2 DEF EvalBitcoin, UnexpectedEof, EvalStack, vars, TypeInv
<1> QED  BY <1>1, <1>2 DEF Next
-----------------------------------------------------------------------------
\* Agreement on payments.  The bytes of a script that the library knows.
Encloses(s, front, n, back) ==
    /\ Len(s) = Len(front) + 1 + n + Len(back)
    /\ \A k \in 1 .. Len(front) : s[k] = front[k]
    /\ s[Len(front) + 1] = n
    /\ \A k \in 1 .. Len(back) : s[Len(front) + 1 + n + k] = back[k]

LEMMA EnclosedBytes ==
    \A s, front, back \in Seq(Byte), n \in Byte :
        Enclosed(s, front, n, back) => Encloses(s, front, n, back)
<1> SUFFICES ASSUME NEW s \in Seq(Byte), NEW front \in Seq(Byte), NEW back \in Seq(Byte), NEW n \in Byte,
                    Enclosed(s, front, n, back)
             PROVE  Encloses(s, front, n, back)
  OBVIOUS
<1>1. PICK f : f = front \o <<n>>
  OBVIOUS
<1>2. Len(f) = Len(front) + 1 /\ (\A k \in 1 .. Len(front) : f[k] = front[k]) /\ f[Len(front) + 1] = n
  BY <1>1
<1>3. /\ Len(s) = Len(front) + 1 + n + Len(back)
      /\ IsPrefix(f, s) /\ IsSuffix(back, s)
  BY <1>1 DEF Enclosed
<1>4. \A k \in 1 .. Len(f) : s[k] = f[k]
  <2>1. Len(f) \in Nat /\ Len(f) <= Len(s) /\ SubSeq(s, 1, Len(f)) = SubSeq(f, 1, Len(f))
    BY <1>2, <1>3 DEF IsPrefix
  <2>2. \A k \in 1 .. Len(f) : SubSeq(s, 1, Len(f))[k] = s[k]
    BY <2>1
  <2>3. f \in Seq(Byte)
    BY <1>1
  <2>4. \A k \in 1 .. Len(f) : SubSeq(f, 1, Len(f))[k] = f[k]
    BY <2>3
  <2> QED  BY <2>1, <2>2, <2>4
<1>5. \A k \in 1 .. Len(back) : s[Len(front) + 1 + n + k] = back[k]
  <2>1. PICK rs, rb : rs = Reverse(s) /\ rb = Reverse(back)
    OBVIOUS
  <2>2. PICK m, l, h \in Nat : m = Len(s) /\ l = Len(back) /\ h = Len(front)
    OBVIOUS
  <2>3. m = h + 1 + n + l
    BY <1>3, <2>2
  <2>4. /\ Len(rs) = m /\ rs \in Seq(Byte) /\ \A k \in 1 .. m : rs[k] = s[(m - k) + 1]
        /\ Len(rb) = l /\ rb \in Seq(Byte) /\ \A k \in 1 .. l : rb[k] = back[(l - k) + 1]
    BY <2>1, <2>2 DEF Reverse
  <2>5. l <= m /\ SubSeq(rb, 1, l) = SubSeq(rs, 1, l)
    BY <1>3, <2>1, <2>4 DEF IsSuffix, IsPrefix
  <2>6. \A k \in 1 .. l : rb[k] = rs[k]
    <3>1. \A k \in 1 .. l : SubSeq(rb, 1, l)[k] = rb[k]
      BY <2>2, <2>4
    <3>2. \A k \in 1 .. l : SubSeq(rs, 1, l)[k] = rs[k]
      BY <2>2, <2>4, <2>5
    <3> QED  BY <2>5, <3>1, <3>2
  <2> SUFFICES ASSUME NEW k \in 1 .. l PROVE s[h + 1 + n + k] = back[k]
    BY <2>2
  <2>7. PICK j : j = (l - k) + 1
    OBVIOUS
  <2>8. j \in 1 .. l /\ j \in 1 .. m /\ (l - j) + 1 = k /\ (m - j) + 1 = h + 1 + n + k
    <3>1. n \in Nat /\ k \in Nat /\ k >= 1 /\ k <= l
      BY <2>2 DEF Byte
    <3> QED  BY <2>2, <2>3, <2>7, <3>1
  <2>9. rb[j] = back[(l - j) + 1] /\ rs[j] = s[(m - j) + 1]
    BY <2>4, <2>8
  <2> QED  BY <2>6, <2>8, <2>9
<1> QED  BY <1>2, <1>3, <1>4, <1>5 DEF Encloses

LEMMA P2pkhBytes ==
    ASSUME NEW s \in Seq(Byte), P2pkh(s)
    PROVE  Len(s) = 25 /\ s[1] = 118 /\ s[2] = 169 /\ s[3] = 20 /\ s[24] = 136 /\ s[25] = 172
<1>1. PICK front, back : front = <<118, 169>> /\ back = <<136, 172>>
  OBVIOUS
<1>2. front \in Seq(Byte) /\ back \in Seq(Byte) /\ Len(front) = 2 /\ Len(back) = 2 /\ 20 \in Byte
  BY <1>1 DEF Byte
<1>3. Enclosed(s, front, 20, back)
  BY <1>1 DEF P2pkh, OP_DUP, OP_HASH160, OP_EQUALVERIFY, OP_CHECKSIG
<1>4. Encloses(s, front, 20, back)
  BY <1>2, <1>3, EnclosedBytes
<1>5. Len(s) = 25 /\ s[3] = 20 /\ s[1] = front[1] /\ s[2] = front[2]
  BY <1>2, <1>4 DEF Encloses
<1>6. s[24] = back[1] /\ s[25] = back[2]
  <2>1. Len(front) + 1 + 20 + 1 = 24 /\ Len(front) + 1 + 20 + 2 = 25 /\ 1 \in 1 .. Len(back) /\ 2 \in 1 .. Len(back)
    BY <1>2
  <2> QED  BY <1>4, <2>1 DEF Encloses
<1> QED  BY <1>1, <1>5, <1>6

LEMMA P2shBytes ==
    ASSUME NEW s \in Seq(Byte), P2sh(s)
    PROVE  Len(s) = 23 /\ s[1] = 169 /\ s[2] = 20 /\ s[23] = 135
<1>1. PICK front, back : front = <<169>> /\ back = <<135>>
  OBVIOUS
<1>2. front \in Seq(Byte) /\ back \in Seq(Byte) /\ Len(front) = 1 /\ Len(back) = 1 /\ 20 \in Byte
  BY <1>1 DEF Byte
<1>3. Enclosed(s, front, 20, back)
  BY <1>1 DEF P2sh, OP_HASH160, OP_EQUAL
<1>4. Encloses(s, front, 20, back)
  BY <1>2, <1>3, EnclosedBytes
<1>5. Len(s) = 23 /\ s[2] = 20 /\ s[1] = front[1]
  BY <1>2, <1>4 DEF Encloses
<1>6. s[23] = back[1]
  <2>1. Len(front) + 1 + 20 + 1 = 23 /\ 1 \in 1 .. Len(back)
    BY <1>2
  <2> QED  BY <1>4, <2>1 DEF Encloses
<1> QED  BY <1>1, <1>5, <1>6

LEMMA P2pkBytes ==
    ASSUME NEW s \in Seq(Byte), P2pk(s)
    PROVE  \E n \in {33, 65} : Len(s) = n + 2 /\ s[1] = n /\ s[n + 2] = 172
<1>1. PICK n \in {33, 65} : Enclosed(s, <<>>, n, <<172>>)
  BY DEF P2pk, OP_CHECKSIG
<1>2. PICK front, back : front = <<>> /\ back = <<172>>
  OBVIOUS
<1>3. front \in Seq(Byte) /\ back \in Seq(Byte) /\ Len(front) = 0 /\ Len(back) = 1 /\ n \in Nat /\ n \in Byte
  BY <1>1, <1>2 DEF Byte
<1>4. Enclosed(s, front, n, back)
  BY <1>1, <1>2
<1>5. Encloses(s, front, n, back)
  BY <1>3, <1>4, EnclosedBytes
<1>6. Len(s) = n + 2 /\ s[1] = n
  BY <1>3, <1>5 DEF Encloses
<1>7. s[n + 2] = back[1]
  <2>1. Len(front) + 1 + n + 1 = n + 2 /\ 1 \in 1 .. Len(back)
    BY <1>3
  <2> QED  BY <1>5, <2>1 DEF Encloses
<1> QED  BY <1>2, <1>6, <1>7

\* What the loop loads of a script that is made of data behind its length and of
\* operations: pos has the positions where one begins, and the end.
LoadedAt(k, pos, loads) ==
    LET op == bytes[pos[k] + 1]
    IN  \/ /\ op \in 1 .. 75 /\ pos[k + 1] = pos[k] + 1 + op
           /\ loads[k] = Data(SubSeq(bytes, pos[k] + 2, pos[k + 1]))
        \/ /\ op > 78 /\ ~IsNoOp(op) /\ pos[k + 1] = pos[k] + 1
           /\ loads[k] = Op(op)

MadeOf(pos, loads) ==
    /\ loads \in Seq(Element) /\ Len(pos) = Len(loads) + 1
    /\ \A k \in 1 .. Len(pos) : pos[k] \in 0 .. Len(bytes)
    /\ pos[1] = 0 /\ pos[Len(pos)] = Len(bytes)
    /\ \A k \in 1 .. Len(loads) : pos[k] < Len(bytes) /\ LoadedAt(k, pos, loads)

LoadedUpTo(k, pos, loads) ==
    ip = pos[k] /\ Len(elements) = k - 1 /\ \A j \in 1 .. k - 1 : elements[j] = loads[j]

\* The stack is compared with the patterns (eval_script_pattern).
Compared ==
    \/ \E p \in DOMAIN Patterns : Matches(p) /\ evaluated = ComputeStack(p)
    \/ /\ \A p \in DOMAIN Patterns : ~Matches(p)
       /\ evaluated = Evaluated(NoAddress, "NotRecognised", <<>>)

ReadInv ==
    ~IsBitcoin =>
        \A pos, loads : MadeOf(pos, loads) =>
            /\ at = "eval" => \E k \in 1 .. Len(pos) : LoadedUpTo(k, pos, loads)
            /\ at = "done" => elements = loads /\ Compared

LEMMA LoadsNext ==
    ASSUME TypeInv, Load, NEW pos, NEW loads, MadeOf(pos, loads),
           NEW k \in 1 .. Len(pos), LoadedUpTo(k, pos, loads)
    PROVE  \E j \in 1 .. Len(pos) : LoadedUpTo(j, pos, loads)'
<1>0. /\ ip < Len(bytes) /\ ip \in Nat /\ Len(bytes) \in Nat
      /\ Len(loads) \in Nat /\ Len(pos) = Len(loads) + 1
      /\ ip = pos[k] /\ Opcode = bytes[pos[k] + 1]
      /\ elements \in Seq(Element) /\ Len(elements) = k - 1
  <2>1. ip < Len(bytes)
    BY Loads
  <2> QED  BY <2>1 DEF TypeInv, MadeOf, LoadedUpTo, Opcode
<1>a. Opcode \in Nat
  <2>1. \A b \in Byte : b \in Nat
    BY DEF Byte
  <2>2. Opcode \in Byte
    BY Loads
  <2> QED  BY <2>1, <2>2
<1>b. /\ Opcode \in 1 .. 75 => Opcode \notin 76 .. 78 /\ ~(Opcode = 0 \/ Opcode > 78)
      /\ Opcode > 78 => Opcode \notin 76 .. 78 /\ Opcode \notin 1 .. 75
  BY <1>a
<1>1. k \in 1 .. Len(loads) /\ k + 1 \in 1 .. Len(pos)
  BY <1>0 DEF MadeOf
<1>2. LoadedAt(k, pos, loads) /\ loads[k] \in Element /\ pos[k + 1] \in 0 .. Len(bytes)
  BY <1>1 DEF MadeOf
<1>3. ip' = pos[k + 1] /\ elements' = Append(elements, loads[k])
  <2>1. CASE Opcode \in 1 .. 75
    <3>1. PushesTo(SubSeq(bytes, ip + 2, ip + 1 + Opcode), ip + 1 + Opcode)
      <4>1. Opcode \notin 76 .. 78 /\ ~(Opcode = 0 \/ Opcode > 78)
        BY <1>b, <2>1
      <4> QED  BY <4>1, Loads
    <3>2. pos[k + 1] = ip + 1 + Opcode /\ loads[k] = Data(SubSeq(bytes, ip + 2, pos[k + 1]))
      <4>1. ~(Opcode > 78)
        BY <1>b, <2>1
      <4> QED  BY <1>0, <1>2, <4>1 DEF LoadedAt
    <3> QED  BY <3>1, <3>2 DEF PushesTo
  <2>2. CASE Opcode > 78
    <3>1. ip' = ip + 1 /\ elements' = IF IsNoOp(Opcode) THEN elements ELSE Append(elements, Op(Opcode))
      <4>1. Opcode \notin 76 .. 78 /\ Opcode \notin 1 .. 75
        BY <1>b, <2>2
      <4> QED  BY <4>1, Loads
    <3>2. ~IsNoOp(Opcode) /\ pos[k + 1] = ip + 1 /\ loads[k] = Op(Opcode)
      <4>1. Opcode \notin 1 .. 75
        BY <1>b, <2>2
      <4> QED  BY <1>0, <1>2, <4>1 DEF LoadedAt
    <3> QED  BY <3>1, <3>2
  <2> QED  BY <1>0, <1>2, <2>1, <2>2 DEF LoadedAt
<1>4. Len(elements') = (k + 1) - 1 /\ \A j \in 1 .. (k + 1) - 1 : elements'[j] = loads[j]
  <2>1. PICK e : e = loads[k]
    OBVIOUS
  <2>2. Len(Append(elements, e)) = k /\ Append(elements, e)[k] = e
        /\ \A j \in 1 .. k - 1 : Append(elements, e)[j] = elements[j]
    BY <1>0, <1>2, <2>1
  <2>3. \A j \in 1 .. k - 1 : elements[j] = loads[j]
    BY DEF LoadedUpTo
  <2>4. k \in Nat /\ (k + 1) - 1 = k /\ elements' = Append(elements, e)
    BY <1>0, <1>3, <2>1
  <2>5. \A j \in 1 .. k : Append(elements, e)[j] = loads[j]
    BY <2>1, <2>2, <2>3, <2>4
  <2> QED  BY <2>2, <2>4, <2>5
<1> QED  BY <1>1, <1>3, <1>4 DEF LoadedUpTo

LEMMA NeverCut ==
    ASSUME TypeInv, ip < Len(bytes), NEW pos, NEW loads, MadeOf(pos, loads),
           NEW k \in 1 .. Len(pos), LoadedUpTo(k, pos, loads)
    PROVE  ~Cut
<1>0. /\ ip \in Nat /\ Len(bytes) \in Nat /\ Len(loads) \in Nat /\ Len(pos) = Len(loads) + 1
      /\ ip = pos[k] /\ Opcode = bytes[pos[k] + 1]
  BY DEF TypeInv, MadeOf, LoadedUpTo, Opcode
<1>1. k \in 1 .. Len(loads) /\ k + 1 \in 1 .. Len(pos)
  BY <1>0 DEF MadeOf
<1>2. LoadedAt(k, pos, loads) /\ pos[k + 1] \in 0 .. Len(bytes)
  BY <1>1 DEF MadeOf
<1>3. (Opcode \in 1 .. 75 /\ ip + 1 + Opcode <= Len(bytes)) \/ Opcode > 78
  BY <1>0, <1>2 DEF LoadedAt
<1> QED  BY <1>3, NotCut

LEMMA LoadedAll ==
    ASSUME TypeInv, ip >= Len(bytes), NEW pos, NEW loads, MadeOf(pos, loads),
           NEW k \in 1 .. Len(pos), LoadedUpTo(k, pos, loads)
    PROVE  elements = loads
<1>1. /\ ip \in Nat /\ Len(bytes) \in Nat /\ Len(loads) \in Nat /\ Len(pos) = Len(loads) + 1
      /\ ip = pos[k] /\ elements \in Seq(Element) /\ loads \in Seq(Element)
  BY DEF TypeInv, MadeOf, LoadedUpTo
<1>2. k = Len(loads) + 1
  BY <1>1 DEF MadeOf
<1>3. Len(elements) = Len(loads) /\ \A j \in 1 .. Len(loads) : elements[j] = loads[j]
  BY <1>1, <1>2 DEF LoadedUpTo
<1> QED  BY <1>1, <1>3, SeqEqual

LEMMA NextReads ==
    ASSUME TypeInv, ReadInv, [Next]_vars
    PROVE  ReadInv'
<1> SUFFICES ASSUME ~IsBitcoin', NEW pos, NEW loads, MadeOf(pos, loads)'
             PROVE  /\ at' = "eval" => \E k \in 1 .. Len(pos) : LoadedUpTo(k, pos, loads)'
                    /\ at' = "done" => elements' = loads /\ Compared'
  BY DEF ReadInv
<1>1. bytes' = bytes /\ version_id' = version_id
  BY DEF Next, EvalBitcoin, Load, UnexpectedEof, EvalStack, vars
<1>2. ~IsBitcoin /\ MadeOf(pos, loads)
  BY <1>1 DEF IsBitcoin, MadeOf, LoadedAt
<1>3. /\ at = "eval" => \E k \in 1 .. Len(pos) : LoadedUpTo(k, pos, loads)
      /\ at = "done" => elements = loads /\ Compared
  BY <1>2 DEF ReadInv
<1>4. CASE EvalBitcoin
  BY <1>2, <1>4 DEF EvalBitcoin
<1>5. CASE Load
  <2>1. at = "eval" /\ at' = "eval"
    BY <1>5 DEF Load, Running
  <2> QED  BY <1>2, <1>3, <1>5, <2>1, LoadsNext
<1>6. CASE UnexpectedEof
  BY <1>2, <1>3, <1>6, NeverCut DEF UnexpectedEof, Running
<1>7. CASE EvalStack
  <2>1. /\ at = "eval" /\ at' = "done" /\ ip >= Len(bytes) /\ elements' = elements
        /\ UNCHANGED <<bytes, version_id>>
    BY <1>7 DEF EvalStack, Running
  <2>2. elements = loads
    BY <1>2, <1>3, <2>1, LoadedAll
  <2>3. Compared'
    BY <1>7, <2>1 DEF EvalStack, Compared, Matches, Kinds, ComputeStack
  <2> QED  BY <2>1, <2>2, <2>3
<1>8. CASE UNCHANGED vars
  <2>1. UNCHANGED <<bytes, version_id, at, ip, elements, evaluated>>
    BY <1>8 DEF vars
  <2> QED  BY <1>3, <2>1 DEF LoadedUpTo, Compared, Matches, Kinds, ComputeStack
<1> QED  BY <1>4, <1>5, <1>6, <1>7, <1>8 DEF Next

LEMMA InitReads == Init => ReadInv
<1> SUFFICES ASSUME Init, NEW pos, NEW loads, MadeOf(pos, loads)
             PROVE  \E k \in 1 .. Len(pos) : LoadedUpTo(k, pos, loads)
  BY DEF ReadInv, Init
<1>1. 1 \in 1 .. Len(pos) /\ pos[1] = 0
  BY DEF MadeOf
<1>2. LoadedUpTo(1, pos, loads)
  BY <1>1 DEF Init, LoadedUpTo
<1> QED  BY <1>1, <1>2

LEMMA TakenOf ==
    \A s \in Seq(Byte) : \A m, n \in 1 .. Len(s) : m <= n => SubSeq(s, m, n) \in Seq(Byte)
<1> SUFFICES ASSUME NEW s \in Seq(Byte), NEW m \in 1 .. Len(s), NEW n \in 1 .. Len(s), m <= n
             PROVE  SubSeq(s, m, n) \in Seq(Byte)
  OBVIOUS
<1>1. m \in Nat \ {0} /\ n \in Nat /\ n <= Len(s)
  OBVIOUS
<1> QED  BY <1>1

\* The three payments are made of loads.
LEMMA MadeOfP2pkh ==
    ASSUME TypeInv, P2pkh(bytes)
    PROVE  \E d \in Seq(Byte) :
              /\ d = SubSeq(bytes, 4, 23)
              /\ \E pos : MadeOf(pos, <<Op(118), Op(169), Data(d), Op(136), Op(172)>>)
<1>1. /\ Len(bytes) = 25 /\ bytes[1] = 118 /\ bytes[2] = 169 /\ bytes[3] = 20
      /\ bytes[24] = 136 /\ bytes[25] = 172 /\ bytes \in Seq(Byte)
  BY P2pkhBytes DEF TypeInv
<1>2. PICK d : d = SubSeq(bytes, 4, 23)
  OBVIOUS
<1>3. d \in Seq(Byte)
  <2>1. \A m, n \in 1 .. Len(bytes) : m <= n => SubSeq(bytes, m, n) \in Seq(Byte)
    BY <1>1, TakenOf
  <2> QED  BY <1>1, <1>2, <2>1
<1>4. PICK pos : pos = <<0, 1, 2, 23, 24, 25>>
  OBVIOUS
<1>5. /\ Len(pos) = 6 /\ pos[1] = 0 /\ pos[2] = 1 /\ pos[3] = 2 /\ pos[4] = 23 /\ pos[5] = 24 /\ pos[6] = 25
  BY <1>4
<1>6. PICK loads : loads = <<Op(118), Op(169), Data(d), Op(136), Op(172)>>
  OBVIOUS
<1>7. /\ Len(loads) = 5 /\ loads[1] = Op(118) /\ loads[2] = Op(169) /\ loads[3] = Data(d)
      /\ loads[4] = Op(136) /\ loads[5] = Op(172)
  BY <1>6
<1>8. loads \in Seq(Element)
  <2>1. {Op(118), Op(169), Data(d), Op(136), Op(172)} \subseteq Element
    BY <1>3 DEF Op, Data, AnyData, Element
  <2> QED  BY <1>6, <2>1
<1>9. \A k \in 1 .. 5 : pos[k] < 25 /\ LoadedAt(k, pos, loads)
  <2>1. ~IsNoOp(118) /\ ~IsNoOp(169) /\ ~IsNoOp(136) /\ ~IsNoOp(172)
    BY DEF IsNoOp, OP_NOP, OP_NOP1, OP_NOP10
  <2>2. LoadedAt(1, pos, loads) /\ LoadedAt(2, pos, loads) /\ LoadedAt(4, pos, loads) /\ LoadedAt(5, pos, loads)
    BY <1>1, <1>5, <1>7, <2>1 DEF LoadedAt
  <2>3. LoadedAt(3, pos, loads)
    <3>1. bytes[pos[3] + 1] = 20 /\ pos[3 + 1] = pos[3] + 1 + 20 /\ pos[3] + 2 = 4 /\ pos[3 + 1] = 23
      BY <1>1, <1>5
    <3>2. loads[3] = Data(SubSeq(bytes, pos[3] + 2, pos[3 + 1]))
      BY <1>2, <1>7, <3>1
    <3> QED  BY <3>1, <3>2 DEF LoadedAt
  <2> QED  BY <1>5, <2>2, <2>3
<1>10. MadeOf(pos, loads)
  BY <1>1, <1>5, <1>7, <1>8, <1>9 DEF MadeOf
<1> QED  BY <1>2, <1>3, <1>6, <1>10

LEMMA MadeOfP2sh ==
    ASSUME TypeInv, P2sh(bytes)
    PROVE  \E d \in Seq(Byte) :
              /\ d = SubSeq(bytes, 3, 22)
              /\ \E pos : MadeOf(pos, <<Op(169), Data(d), Op(135)>>)
<1>1. /\ Len(bytes) = 23 /\ bytes[1] = 169 /\ bytes[2] = 20 /\ bytes[23] = 135 /\ bytes \in Seq(Byte)
  BY P2shBytes DEF TypeInv
<1>2. PICK d : d = SubSeq(bytes, 3, 22)
  OBVIOUS
<1>3. d \in Seq(Byte)
  <2>1. \A m, n \in 1 .. Len(bytes) : m <= n => SubSeq(bytes, m, n) \in Seq(Byte)
    BY <1>1, TakenOf
  <2> QED  BY <1>1, <1>2, <2>1
<1>4. PICK pos : pos = <<0, 1, 22, 23>>
  OBVIOUS
<1>5. Len(pos) = 4 /\ pos[1] = 0 /\ pos[2] = 1 /\ pos[3] = 22 /\ pos[4] = 23
  BY <1>4
<1>6. PICK loads : loads = <<Op(169), Data(d), Op(135)>>
  OBVIOUS
<1>7. Len(loads) = 3 /\ loads[1] = Op(169) /\ loads[2] = Data(d) /\ loads[3] = Op(135)
  BY <1>6
<1>8. loads \in Seq(Element)
  <2>1. {Op(169), Data(d), Op(135)} \subseteq Element
    BY <1>3 DEF Op, Data, AnyData, Element
  <2> QED  BY <1>6, <2>1
<1>9. \A k \in 1 .. 3 : pos[k] < 23 /\ LoadedAt(k, pos, loads)
  <2>1. ~IsNoOp(169) /\ ~IsNoOp(135)
    BY DEF IsNoOp, OP_NOP, OP_NOP1, OP_NOP10
  <2>2. LoadedAt(1, pos, loads) /\ LoadedAt(3, pos, loads)
    BY <1>1, <1>5, <1>7, <2>1 DEF LoadedAt
  <2>3. LoadedAt(2, pos, loads)
    <3>1. bytes[pos[2] + 1] = 20 /\ pos[2 + 1] = pos[2] + 1 + 20 /\ pos[2] + 2 = 3 /\ pos[2 + 1] = 22
      BY <1>1, <1>5
    <3>2. loads[2] = Data(SubSeq(bytes, pos[2] + 2, pos[2 + 1]))
      BY <1>2, <1>7, <3>1
    <3> QED  BY <3>1, <3>2 DEF LoadedAt
  <2> QED  BY <1>5, <2>2, <2>3
<1>10. MadeOf(pos, loads)
  BY <1>1, <1>5, <1>7, <1>8, <1>9 DEF MadeOf
<1> QED  BY <1>2, <1>3, <1>6, <1>10

LEMMA MadeOfP2pk ==
    ASSUME TypeInv, P2pk(bytes)
    PROVE  \E d \in Seq(Byte) :
              /\ d = SubSeq(bytes, 2, Len(bytes) - 1)
              /\ \E pos : MadeOf(pos, <<Data(d), Op(172)>>)
<1>1. PICK n \in {33, 65} : /\ Len(bytes) = n + 2 /\ bytes[1] = n /\ bytes[n + 2] = 172
  BY P2pkBytes DEF TypeInv
<1>2. PICK d : d = SubSeq(bytes, 2, n + 1)
  OBVIOUS
<1>3. d \in Seq(Byte) /\ Len(bytes) - 1 = n + 1
  BY <1>1, <1>2 DEF TypeInv
<1>4. PICK pos : pos = <<0, n + 1, n + 2>>
  OBVIOUS
<1>5. Len(pos) = 3 /\ pos[1] = 0 /\ pos[2] = n + 1 /\ pos[3] = n + 2
  BY <1>4
<1>6. PICK loads : loads = <<Data(d), Op(172)>>
  OBVIOUS
<1>7. Len(loads) = 2 /\ loads[1] = Data(d) /\ loads[2] = Op(172)
  BY <1>6
<1>8. loads \in Seq(Element)
  <2>1. {Data(d), Op(172)} \subseteq Element
    BY <1>3 DEF Op, Data, AnyData, Element
  <2> QED  BY <1>6, <2>1
<1>9. \A k \in 1 .. 2 : pos[k] < n + 2 /\ LoadedAt(k, pos, loads)
  <2>1. ~IsNoOp(172)
    BY DEF IsNoOp, OP_NOP, OP_NOP1, OP_NOP10
  <2>2. LoadedAt(2, pos, loads)
    <3>1. bytes[pos[2] + 1] = 172 /\ pos[2 + 1] = pos[2] + 1
      BY <1>1, <1>5
    <3> QED  BY <1>7, <2>1, <3>1 DEF LoadedAt
  <2>3. LoadedAt(1, pos, loads)
    <3>1. bytes[pos[1] + 1] = n /\ pos[1 + 1] = pos[1] + 1 + n /\ pos[1] + 2 = 2 /\ pos[1 + 1] = n + 1
          /\ n \in 1 .. 75
      BY <1>1, <1>5
    <3>2. loads[1] = Data(SubSeq(bytes, pos[1] + 2, pos[1 + 1]))
      BY <1>2, <1>7, <3>1
    <3> QED  BY <3>1, <3>2 DEF LoadedAt
  <2> QED  BY <1>1, <1>5, <2>2, <2>3
<1>10. MadeOf(pos, loads)
  BY <1>1, <1>5, <1>7, <1>8, <1>9 DEF MadeOf
<1> QED  BY <1>2, <1>3, <1>6, <1>10

\* The stack of each is its pattern and no other.
LEMMA PatternsAre ==
    /\ DOMAIN Patterns = {"Pay2PublicKeyHash", "Pay2PublicKey", "Pay2ScriptHash", "OpReturn", "Pay2MultiSig"}
    /\ Patterns["Pay2PublicKeyHash"] = <<118, 169, -1, 136, 172>>
    /\ Patterns["Pay2PublicKey"] = <<-1, 172>>
    /\ Patterns["Pay2ScriptHash"] = <<169, -1, 135>>
    /\ Patterns["OpReturn"] = <<106, -1>>
    /\ Patterns["Pay2MultiSig"] = <<82, -1, -1, -1, 83, 174>>
BY DEF Patterns, OP_DUP, OP_HASH160, AnyData, OP_EQUALVERIFY, OP_CHECKSIG, OP_EQUAL, OP_RETURN,
       OP_PUSHNUM_2, OP_PUSHNUM_3, OP_CHECKMULTISIG

LEMMA PatternsApart ==
    \A p, q \in DOMAIN Patterns : Patterns[p] = Patterns[q] => p = q
<1>1. /\ Len(Patterns["Pay2PublicKeyHash"]) = 5
      /\ Len(Patterns["Pay2PublicKey"]) = 2 /\ Patterns["Pay2PublicKey"][1] = -1
      /\ Len(Patterns["Pay2ScriptHash"]) = 3
      /\ Len(Patterns["OpReturn"]) = 2 /\ Patterns["OpReturn"][1] = 106
      /\ Len(Patterns["Pay2MultiSig"]) = 6
  BY PatternsAre
<1> QED  BY <1>1, PatternsAre

LEMMA ComparedIs ==
    ASSUME Compared, NEW p \in DOMAIN Patterns, Kinds = Patterns[p]
    PROVE  evaluated = ComputeStack(p)
BY PatternsApart DEF Compared, Matches

LEMMA KindsAre ==
    ASSUME NEW d
    PROVE  /\ elements = <<Op(118), Op(169), Data(d), Op(136), Op(172)>>
                => Kinds = <<118, 169, -1, 136, 172>> /\ elements[3].data = d
           /\ elements = <<Op(169), Data(d), Op(135)>> => Kinds = <<169, -1, 135>> /\ elements[2].data = d
           /\ elements = <<Data(d), Op(172)>> => Kinds = <<-1, 172>> /\ elements[1].data = d
<1>1. ASSUME elements = <<Op(118), Op(169), Data(d), Op(136), Op(172)>>
      PROVE  Kinds = <<118, 169, -1, 136, 172>> /\ elements[3].data = d
  <2>1. DOMAIN elements = 1 .. 5 /\ elements[1].op = 118 /\ elements[2].op = 169 /\ elements[3].op = -1
        /\ elements[4].op = 136 /\ elements[5].op = 172 /\ elements[3].data = d
    BY <1>1 DEF Op, Data, AnyData
  <2> QED  BY <2>1 DEF Kinds
<1>2. ASSUME elements = <<Op(169), Data(d), Op(135)>>
      PROVE  Kinds = <<169, -1, 135>> /\ elements[2].data = d
  <2>1. DOMAIN elements = 1 .. 3 /\ elements[1].op = 169 /\ elements[2].op = -1 /\ elements[3].op = 135
        /\ elements[2].data = d
    BY <1>2 DEF Op, Data, AnyData
  <2> QED  BY <2>1 DEF Kinds
<1>3. ASSUME elements = <<Data(d), Op(172)>>
      PROVE  Kinds = <<-1, 172>> /\ elements[1].data = d
  <2>1. DOMAIN elements = 1 .. 2 /\ elements[1].op = -1 /\ elements[2].op = 172 /\ elements[1].data = d
    BY <1>3 DEF Op, Data, AnyData
  <2> QED  BY <2>1 DEF Kinds
<1> QED  BY <1>1, <1>2, <1>3

PaysKey(pattern, of) == <<pattern, <<<<TRUE, of>>>>>>
PaysHash(pattern, of) == <<pattern, <<<<FALSE, of>>>>>>
ToKey(of, version, pattern) == Evaluated(Address(TRUE, of, version), pattern, <<>>)
ToHash(of, version, pattern) == Evaluated(Address(FALSE, of, version), pattern, <<>>)

LEMMA PaysToAddress ==
    \A of, version, pattern :
        /\ PaysTo(ToKey(of, version, pattern)) = PaysKey(pattern, of)
        /\ PaysTo(ToHash(of, version, pattern)) = PaysHash(pattern, of)
<1> SUFFICES ASSUME NEW of, NEW version, NEW pattern
             PROVE  /\ PaysTo(ToKey(of, version, pattern)) = PaysKey(pattern, of)
                    /\ PaysTo(ToHash(of, version, pattern)) = PaysHash(pattern, of)
  OBVIOUS
<1>1. ASSUME NEW hashed, NEW e, e = Evaluated(Address(hashed, of, version), pattern, <<>>)
      PROVE  PaysTo(e) = <<pattern, <<<<hashed, of>>>>>>
  <2>1. e.pattern = pattern /\ e.address = <<[hashed |-> hashed, of |-> of, version |-> version]>>
    BY <1>1 DEF Evaluated, Address
  <2>2. DOMAIN e.address = 1 .. 1 /\ e.address[1].hashed = hashed /\ e.address[1].of = of
    BY <2>1
  <2>3. [a \in DOMAIN e.address |-> <<e.address[a].hashed, e.address[a].of>>] = <<<<hashed, of>>>>
    BY <2>2
  <2> QED  BY <2>1, <2>3 DEF PaysTo
<1>2. PICK t, f : t = TRUE /\ f = FALSE
  OBVIOUS
<1>3. /\ ToKey(of, version, pattern) = Evaluated(Address(t, of, version), pattern, <<>>)
      /\ ToHash(of, version, pattern) = Evaluated(Address(f, of, version), pattern, <<>>)
      /\ PaysKey(pattern, of) = <<pattern, <<<<t, of>>>>>>
      /\ PaysHash(pattern, of) = <<pattern, <<<<f, of>>>>>>
  BY <1>2, Zenon DEF ToKey, ToHash, PaysKey, PaysHash
<1> QED  BY <1>1, <1>3

\* What the other coins' evaluator says of a payment.
LEMMA PaymentsRead ==
    ASSUME TypeInv, ReadInv, ~IsBitcoin, at = "done"
    PROVE  /\ P2pkh(bytes) => PaysTo(evaluated) = PaysHash("Pay2PublicKeyHash", SubSeq(bytes, 4, 23))
           /\ P2sh(bytes) => PaysTo(evaluated) = PaysHash("Pay2ScriptHash", SubSeq(bytes, 3, 22))
           /\ P2pk(bytes) =>
                 PaysTo(evaluated) = PaysKey("Pay2PublicKey", SubSeq(bytes, 2, Len(bytes) - 1))
<1>1. \A pos, loads : MadeOf(pos, loads) => elements = loads /\ Compared
  BY DEF ReadInv
<1>2. ASSUME P2pkh(bytes)
      PROVE  PaysTo(evaluated) = PaysHash("Pay2PublicKeyHash", SubSeq(bytes, 4, 23))
  <2>1. PICK d \in Seq(Byte) :
           /\ d = SubSeq(bytes, 4, 23)
           /\ \E pos : MadeOf(pos, <<Op(118), Op(169), Data(d), Op(136), Op(172)>>)
    BY <1>2, MadeOfP2pkh
  <2>2. elements = <<Op(118), Op(169), Data(d), Op(136), Op(172)>> /\ Compared
    BY <1>1, <2>1
  <2>3. evaluated = ComputeStack("Pay2PublicKeyHash") /\ elements[3].data = d
    <3>1. Kinds = <<118, 169, -1, 136, 172>> /\ elements[3].data = d
      BY <2>2, KindsAre
    <3>2. Kinds = Patterns["Pay2PublicKeyHash"] /\ "Pay2PublicKeyHash" \in DOMAIN Patterns
      BY <3>1, PatternsAre
    <3> QED  BY <2>2, <3>1, <3>2, ComparedIs
  <2>4. evaluated = ToHash(d, version_id, "Pay2PublicKeyHash")
    BY <2>3 DEF ComputeStack, ToHash
  <2> QED  BY <2>1, <2>4, PaysToAddress
<1>3. ASSUME P2sh(bytes)
      PROVE  PaysTo(evaluated) = PaysHash("Pay2ScriptHash", SubSeq(bytes, 3, 22))
  <2>1. PICK d \in Seq(Byte) :
           /\ d = SubSeq(bytes, 3, 22)
           /\ \E pos : MadeOf(pos, <<Op(169), Data(d), Op(135)>>)
    BY <1>3, MadeOfP2sh
  <2>2. elements = <<Op(169), Data(d), Op(135)>> /\ Compared
    BY <1>1, <2>1
  <2>3. evaluated = ComputeStack("Pay2ScriptHash") /\ elements[2].data = d
    <3>1. Kinds = <<169, -1, 135>> /\ elements[2].data = d
      BY <2>2, KindsAre
    <3>2. Kinds = Patterns["Pay2ScriptHash"] /\ "Pay2ScriptHash" \in DOMAIN Patterns
      BY <3>1, PatternsAre
    <3> QED  BY <2>2, <3>1, <3>2, ComparedIs
  <2>4. evaluated = ToHash(d, 5, "Pay2ScriptHash")
    BY <2>3 DEF ComputeStack, ToHash
  <2> QED  BY <2>1, <2>4, PaysToAddress
<1>4. ASSUME P2pk(bytes)
      PROVE  PaysTo(evaluated) = PaysKey("Pay2PublicKey", SubSeq(bytes, 2, Len(bytes) - 1))
  <2>1. PICK d \in Seq(Byte) :
           d = SubSeq(bytes, 2, Len(bytes) - 1) /\ \E pos : MadeOf(pos, <<Data(d), Op(172)>>)
    BY <1>4, MadeOfP2pk
  <2>2. elements = <<Data(d), Op(172)>> /\ Compared
    BY <1>1, <2>1
  <2>3. evaluated = ComputeStack("Pay2PublicKey") /\ elements[1].data = d
    <3>1. Kinds = <<-1, 172>> /\ elements[1].data = d
      BY <2>2, KindsAre
    <3>2. Kinds = Patterns["Pay2PublicKey"] /\ "Pay2PublicKey" \in DOMAIN Patterns
      BY <3>1, PatternsAre
    <3> QED  BY <2>2, <3>1, <3>2, ComparedIs
  <2>4. evaluated = ToKey(d, version_id, "Pay2PublicKey")
    BY <2>3 DEF ComputeStack, ToKey
  <2> QED  BY <2>1, <2>4, PaysToAddress
<1> QED  BY <1>2, <1>3, <1>4

\* What the library's tests say of one.
LEMMA PaymentsKnown ==
    \A s \in Seq(Byte) : \A version, e :
        e = EvalFromBytesBitcoin(s, version) /\ e.pattern \in Payments =>
            \/ P2pkh(s) /\ PaysTo(e) = PaysHash("Pay2PublicKeyHash", SubSeq(s, 4, 23))
            \/ P2sh(s) /\ PaysTo(e) = PaysHash("Pay2ScriptHash", SubSeq(s, 3, 22))
            \/ P2pk(s) /\ PaysTo(e) = PaysKey("Pay2PublicKey", SubSeq(s, 2, Len(s) - 1))
<1> SUFFICES ASSUME NEW s \in Seq(Byte), NEW version, NEW e,
                    e = EvalFromBytesBitcoin(s, version), e.pattern \in Payments
             PROVE  \/ P2pkh(s) /\ PaysTo(e) = PaysHash("Pay2PublicKeyHash", SubSeq(s, 4, 23))
                    \/ P2sh(s) /\ PaysTo(e) = PaysHash("Pay2ScriptHash", SubSeq(s, 3, 22))
                    \/ P2pk(s) /\ PaysTo(e) = PaysKey("Pay2PublicKey", SubSeq(s, 2, Len(s) - 1))
  OBVIOUS
<1>1. \A address, pattern, text : Evaluated(address, pattern, text).pattern = pattern
  BY DEF Evaluated
<1>3. \/ P2pk(s) /\ e = Evaluated(P2pkToString(s, version), "Pay2PublicKey", <<>>)
      \/ P2pkh(s) /\ e = Evaluated(FromScript(s, version), "Pay2PublicKeyHash", <<>>)
      \/ P2sh(s) /\ e = Evaluated(FromScript(s, version), "Pay2ScriptHash", <<>>)
  BY <1>1 DEF EvalFromBytesBitcoin, Payments
<1>4. P2sh(s) => ~P2pkh(s)
  BY P2pkhBytes, P2shBytes
<1>5. CASE P2pk(s) /\ e = Evaluated(P2pkToString(s, version), "Pay2PublicKey", <<>>)
  <2>1. e = ToKey(SubSeq(s, 2, Len(s) - 1), version, "Pay2PublicKey")
    BY <1>5 DEF P2pkToString, ToKey
  <2> QED  BY <1>5, <2>1, PaysToAddress
<1>6. CASE P2pkh(s) /\ e = Evaluated(FromScript(s, version), "Pay2PublicKeyHash", <<>>)
  <2>1. e = ToHash(SubSeq(s, 4, 23), version, "Pay2PublicKeyHash")
    BY <1>6 DEF FromScript, ToHash
  <2> QED  BY <1>6, <2>1, PaysToAddress
<1>7. CASE P2sh(s) /\ e = Evaluated(FromScript(s, version), "Pay2ScriptHash", <<>>)
  <2>1. e = ToHash(SubSeq(s, 3, 22), IF version = 0 THEN 5 ELSE 196, "Pay2ScriptHash")
    BY <1>4, <1>7 DEF FromScript, ToHash
  <2> QED  BY <1>7, <2>1, PaysToAddress
<1> QED  BY <1>3, <1>5, <1>6, <1>7

\* A payment that the library knows, the evaluator of the other coins knows as
\* the same one, paying to the same: neither a no-op nor a cut push can come
\* between (eval_from_bytes_custom against eval_from_bytes_bitcoin).
THEOREM AgreesOnPayments == Spec => []AgreeOnPayments
<1>1. Init => TypeInv /\ ReadInv
  BY InitTyped, InitReads
<1>2. TypeInv /\ ReadInv /\ [Next]_vars => (TypeInv /\ ReadInv)'
  BY NextTyped, NextReads
<1>3. TypeInv /\ ReadInv => AgreeOnPayments
  <2> SUFFICES ASSUME TypeInv, ReadInv, at = "done", ~IsBitcoin,
                      EvalFromBytesBitcoin(bytes, version_id).pattern \in Payments
               PROVE  PaysTo(evaluated) = PaysTo(EvalFromBytesBitcoin(bytes, version_id))
    BY DEF AgreeOnPayments
  <2>1. bytes \in Seq(Byte)
    BY DEF TypeInv
  <2>2. PICK e : e = EvalFromBytesBitcoin(bytes, version_id)
    OBVIOUS
  <2>3. \/ P2pkh(bytes) /\ PaysTo(e) = PaysHash("Pay2PublicKeyHash", SubSeq(bytes, 4, 23))
        \/ P2sh(bytes) /\ PaysTo(e) = PaysHash("Pay2ScriptHash", SubSeq(bytes, 3, 22))
        \/ P2pk(bytes) /\ PaysTo(e) = PaysKey("Pay2PublicKey", SubSeq(bytes, 2, Len(bytes) - 1))
    BY <2>1, <2>2, PaymentsKnown
  <2>4. PaysTo(evaluated) = PaysTo(e)
    BY <2>3, PaymentsRead
  <2> QED  BY <2>2, <2>4
<1> QED  BY <1>1, <1>2, <1>3, PTL DEF Spec

-----------------------------------------------------------------------------
\* A payment is a whole script.  The text of a script without the no-ops, up to
\* each of its positions.
UnfoldsText(r, s, m) ==
    r = [n \in 0 .. m |->
            IF n = 0 THEN <<>> ELSE IF IsNoOp(s[n]) THEN r[n - 1] ELSE Append(r[n - 1], s[n])]

LEMMA TextExists ==
    ASSUME NEW s, NEW m \in Nat
    PROVE  \E r : UnfoldsText(r, s, m)
<1> DEFINE T == {k \in Nat : ~ \E r : UnfoldsText(r, s, k)}
<1>1. SUFFICES ASSUME T # {} PROVE FALSE
  OBVIOUS
<1>2. PICK k \in T : \A j \in T : k <= j
  BY <1>1, LeastNat
<1>3. CASE k = 0
  <2>1. UnfoldsText([j \in {0} |-> <<>>], s, 0)
    BY DEF UnfoldsText
  <2> QED  BY <1>2, <1>3, <2>1
<1>4. CASE k # 0
  <2>1. k - 1 \in Nat /\ k - 1 \notin T
    BY <1>2, <1>4
  <2>2. PICK r : UnfoldsText(r, s, k - 1)
    BY <2>1
  <2> DEFINE last == IF IsNoOp(s[k]) THEN r[k - 1] ELSE Append(r[k - 1], s[k])
             more == [j \in 0 .. k |-> IF j = k THEN last ELSE r[j]]
  <2>3. \A j \in 0 .. k : more[j] =
           IF j = 0 THEN <<>> ELSE IF IsNoOp(s[j]) THEN more[j - 1] ELSE Append(more[j - 1], s[j])
    <3>1. TAKE j \in 0 .. k
    <3>2. CASE j = 0
      BY <1>2, <1>4, <2>2, <3>2 DEF UnfoldsText
    <3>3. CASE j \in 1 .. k - 1
      <4>0. \A i \in 0 .. k - 1 :
               r[i] = IF i = 0 THEN <<>> ELSE IF IsNoOp(s[i]) THEN r[i - 1] ELSE Append(r[i - 1], s[i])
        BY <2>2 DEF UnfoldsText
      <4>1. r[j] = IF IsNoOp(s[j]) THEN r[j - 1] ELSE Append(r[j - 1], s[j])
        <5>1. j \in 0 .. k - 1 /\ j # 0
          BY <1>2, <3>3
        <5> QED  BY <4>0, <5>1
      <4> QED  BY <1>2, <3>3, <4>1
    <3>4. CASE j = k
      BY <1>2, <1>4, <3>4
    <3> QED  BY <1>2, <3>2, <3>3, <3>4
  <2>4. more = [j \in 0 .. k |-> more[j]]
    OBVIOUS
  <2> HIDE DEF more
  <2>5. [j \in 0 .. k |-> more[j]]
           = [j \in 0 .. k |-> IF j = 0 THEN <<>>
                               ELSE IF IsNoOp(s[j]) THEN more[j - 1] ELSE Append(more[j - 1], s[j])]
    BY <2>3
  <2>6. UnfoldsText(more, s, k)
    BY <2>4, <2>5 DEF UnfoldsText
  <2> QED  BY <1>2, <2>6
<1> QED  BY <1>3, <1>4

LEMMA TextIs ==
    ASSUME NEW s, Len(s) \in Nat
    PROVE  \E r : UnfoldsText(r, s, Len(s)) /\ WithoutNoOps(s) = r[Len(s)]
<1> DEFINE r == CHOOSE r : UnfoldsText(r, s, Len(s))
<1>1. UnfoldsText(r, s, Len(s))
  BY TextExists
<1>2. WithoutNoOps(s) = (CHOOSE q : UnfoldsText(q, s, Len(s)))[Len(s)]
  BY DEF WithoutNoOps, UnfoldsText
<1> QED  BY <1>1, <1>2

LEMMA TextReads ==
    ASSUME NEW s \in Seq(Byte), NEW r, UnfoldsText(r, s, Len(s))
    PROVE  /\ r[0] = <<>>
           /\ \A n \in 1 .. Len(s) :
                 r[n] = IF IsNoOp(s[n]) THEN r[n - 1] ELSE Append(r[n - 1], s[n])
           /\ \A n \in 0 .. Len(s) : r[n] \in Seq(Byte)
<1>1. \A n \in 0 .. Len(s) :
         r[n] = IF n = 0 THEN <<>> ELSE IF IsNoOp(s[n]) THEN r[n - 1] ELSE Append(r[n - 1], s[n])
  BY DEF UnfoldsText
<1>2. r[0] = <<>> /\ \A n \in 1 .. Len(s) :
         r[n] = IF IsNoOp(s[n]) THEN r[n - 1] ELSE Append(r[n - 1], s[n])
  BY <1>1
<1> DEFINE T == {n \in 0 .. Len(s) : r[n] \notin Seq(Byte)}
<1>3. SUFFICES T = {}
  BY <1>2
<1>4. SUFFICES ASSUME T # {} PROVE FALSE
  OBVIOUS
<1>5. PICK n \in T : \A j \in T : n <= j
  <2>1. T \in SUBSET Nat
    OBVIOUS
  <2> HIDE DEF T
  <2> QED  BY <1>4, <2>1, LeastNat
<1>6. n \in 1 .. Len(s) /\ n - 1 \in 0 .. Len(s) /\ n - 1 \notin T
  <2>1. n # 0
    <3>1. r[0] \in Seq(Byte)
      BY <1>2
    <3> QED  BY <1>5, <3>1
  <2> QED  BY <1>5, <2>1
<1>7. r[n - 1] \in Seq(Byte) /\ s[n] \in Byte
  BY <1>6
<1>8. r[n] \in Seq(Byte)
  <2>1. r[n] = r[n - 1] \/ r[n] = Append(r[n - 1], s[n])
    BY <1>2, <1>6
  <2>2. Append(r[n - 1], s[n]) \in Seq(Byte)
    BY <1>7, AppendProperties
  <2> QED  BY <1>7, <2>1, <2>2
<1> QED  BY <1>5, <1>8

\* Bytes that are no no-ops are all of the text.
LEMMA TextGrows ==
    ASSUME NEW s \in Seq(Byte), NEW r, UnfoldsText(r, s, Len(s)),
           NEW m \in 0 .. Len(s), NEW n \in m .. Len(s), \A k \in m + 1 .. n : ~IsNoOp(s[k])
    PROVE  r[n] = r[m] \o SubSeq(s, m + 1, n)
<1>1. /\ \A k \in 1 .. Len(s) : r[k] = IF IsNoOp(s[k]) THEN r[k - 1] ELSE Append(r[k - 1], s[k])
      /\ \A k \in 0 .. Len(s) : r[k] \in Seq(Byte)
  BY TextReads
<1>2. m \in Nat /\ n \in Nat /\ Len(s) \in Nat
  OBVIOUS
<1> DEFINE T == {k \in m .. n : r[k] # r[m] \o SubSeq(s, m + 1, k)}
<1>3. SUFFICES ASSUME T # {} PROVE FALSE
  <2>1. n \in m .. n
    BY <1>2
  <2> QED  BY <2>1
<1>4. PICK k \in T : \A j \in T : k <= j
  <2>1. m .. n \subseteq Nat
    BY <1>2
  <2>2. T \in SUBSET Nat
    BY <2>1
  <2> HIDE DEF T
  <2> QED  BY <1>3, <2>2, LeastNat
<1>5. k # m
  <2>1. m < m + 1 /\ m \in Int /\ m + 1 \in Int
    BY <1>2
  <2>2. SubSeq(s, m + 1, m) = <<>>
    BY <2>1, SubSeqEmpty
  <2>3. r[m] \o <<>> = r[m]
    BY <1>1, ConcatEmptySeq
  <2> QED  BY <1>4, <2>2, <2>3
<1>6. /\ k \in Nat /\ k \in m + 1 .. n /\ k \in 1 .. Len(s) /\ k - 1 \in 0 .. Len(s)
      /\ k - 1 \in m .. n /\ k - 1 \notin T
  <2>1. k \in m .. n
    BY <1>4
  <2>2. ~(k <= k - 1)
    BY <1>2, <2>1
  <2>3. k - 1 \notin T
    BY <1>4, <2>2
  <2> HIDE DEF T
  <2> QED  BY <1>2, <1>5, <2>1, <2>3
<1>7. r[k - 1] = r[m] \o SubSeq(s, m + 1, k - 1)
  BY <1>6
<1>8. r[k] = Append(r[k - 1], s[k]) /\ s[k] \in Byte
  <2>1. k \in m + 1 .. n /\ k \in 1 .. Len(s)
    BY <1>6
  <2> HIDE DEF T
  <2>2. ~IsNoOp(s[k])
    BY <2>1
  <2>3. s[k] \in Byte
    BY <2>1
  <2> QED  BY <1>1, <2>1, <2>2, <2>3
<1>9. PICK a, b, c : a = r[m] /\ b = SubSeq(s, m + 1, k - 1) /\ c = SubSeq(s, m + 1, k)
  OBVIOUS
<1>10. c = b \o <<s[k]>> /\ a \in Seq(Byte) /\ b \in Seq(Byte)
  <2>1. m + 1 \in 1 .. Len(s) /\ k \in m + 1 .. Len(s)
    BY <1>2, <1>6
  <2>2. SubSeq(s, m + 1, k) = SubSeq(s, m + 1, k - 1) \o <<s[k]>>
    BY <2>1, SubSeqRecursiveSecond
  <2>3. SubSeq(s, m + 1, k - 1) \in Seq(Byte)
    <3>1. m + 1 \in Int /\ k - 1 \in Int /\ \A i \in m + 1 .. k - 1 : i \in 1 .. Len(s)
      BY <1>2, <1>6
    <3>2. \A i \in m + 1 .. k - 1 : s[i] \in Byte
      BY <3>1
    <3> QED  BY <3>1, <3>2, SubSeqProperties
  <2> QED  BY <1>1, <1>2, <1>9, <2>2, <2>3
<1>11. Append(a \o b, s[k]) = a \o (b \o <<s[k]>>)
  <2>1. a \o b \in Seq(Byte) /\ <<s[k]>> \in Seq(Byte)
    BY <1>8, <1>10, ConcatProperties
  <2>2. Append(a \o b, s[k]) = (a \o b) \o <<s[k]>>
    BY <1>8, <2>1, AppendIsConcat
  <2>3. (a \o b) \o <<s[k]>> = a \o (b \o <<s[k]>>)
    <3>1. PICK u : u = <<s[k]>>
      OBVIOUS
    <3>2. a \in Seq(Byte) /\ b \in Seq(Byte) /\ u \in Seq(Byte)
      BY <1>10, <2>1, <3>1
    <3>3. (a \o b) \o u = a \o (b \o u)
      BY <3>2, ConcatAssociative, SMTT(20)
    <3> QED  BY <3>1, <3>3
  <2> QED  BY <2>2, <2>3
<1>12. r[k] = r[m] \o SubSeq(s, m + 1, k)
  BY <1>7, <1>8, <1>9, <1>10, <1>11
<1> QED  BY <1>4, <1>12

\* What is on the stack, as it stands in the script, where every data is pushed
\* with its length in front and has no byte of a no-op.
Plain(es) ==
    \A k \in 1 .. Len(es) : Len(es[k].data) < 76 /\ \A j \in DOMAIN es[k].data : ~IsNoOp(es[k].data[j])
Shown(e) == IF e.op = AnyData THEN <<Len(e.data)>> \o e.data ELSE <<e.op>>
Shows(es, text) ==
    \E f : /\ f[0] = <<>> /\ f[Len(es)] = text
           /\ \A k \in 1 .. Len(es) : f[k] = f[k - 1] \o Shown(es[k])

LEMMA PlainMore ==
    ASSUME NEW es \in Seq(Element), NEW e \in Element, Plain(Append(es, e))
    PROVE  Plain(es) /\ Len(e.data) < 76 /\ \A j \in DOMAIN e.data : ~IsNoOp(e.data[j])
<1>1. PICK more : more = Append(es, e)
  OBVIOUS
<1>2. /\ Len(more) = Len(es) + 1 /\ more[Len(es) + 1] = e
      /\ \A k \in 1 .. Len(es) : more[k] = es[k]
  BY <1>1
<1>3. \A k \in 1 .. Len(more) : /\ Len(more[k].data) < 76
                                /\ \A j \in DOMAIN more[k].data : ~IsNoOp(more[k].data[j])
  BY <1>1 DEF Plain
<1>4. Len(es) \in Nat
  OBVIOUS
<1>5. Plain(es)
  <2> SUFFICES ASSUME NEW k \in 1 .. Len(es)
               PROVE  Len(es[k].data) < 76 /\ \A j \in DOMAIN es[k].data : ~IsNoOp(es[k].data[j])
    BY DEF Plain
  <2>1. k \in 1 .. Len(more) /\ more[k] = es[k]
    BY <1>2, <1>4
  <2>2. Len(more[k].data) < 76 /\ \A j \in DOMAIN more[k].data : ~IsNoOp(more[k].data[j])
    BY <1>3, <2>1
  <2> QED  BY <2>1, <2>2
<1>6. Len(es) + 1 \in 1 .. Len(more)
  BY <1>2, <1>4
<1>7. Len(e.data) < 76 /\ \A j \in DOMAIN e.data : ~IsNoOp(e.data[j])
  <2>1. PICK k \in 1 .. Len(more) : more[k] = e
    BY <1>2, <1>6
  <2>2. Len(more[k].data) < 76 /\ \A j \in DOMAIN more[k].data : ~IsNoOp(more[k].data[j])
    BY <1>3
  <2> QED  BY <2>1, <2>2
<1> QED  BY <1>5, <1>7

LEMMA ShowsMore ==
    ASSUME NEW es \in Seq(Element), NEW e \in Element, NEW text, Shows(es, text)
    PROVE  Shows(Append(es, e), text \o Shown(e))
<1>1. PICK f : /\ f[0] = <<>> /\ f[Len(es)] = text
               /\ \A k \in 1 .. Len(es) : f[k] = f[k - 1] \o Shown(es[k])
  BY DEF Shows
<1>2. PICK n \in Nat : n = Len(es)
  OBVIOUS
<1>3. PICK more : more = Append(es, e)
  OBVIOUS
<1>4. Len(more) = n + 1 /\ more[n + 1] = e /\ \A k \in 1 .. n : more[k] = es[k]
  BY <1>2, <1>3
<1>5. PICK g : g = [k \in 0 .. n + 1 |-> IF k = n + 1 THEN text \o Shown(e) ELSE f[k]]
  OBVIOUS
<1>6. g[n + 1] = text \o Shown(e) /\ \A k \in 0 .. n : g[k] = f[k]
  BY <1>5
<1>7. \A k \in 1 .. n + 1 : g[k] = g[k - 1] \o Shown(more[k])
  <2> SUFFICES ASSUME NEW k \in 1 .. n + 1 PROVE g[k] = g[k - 1] \o Shown(more[k])
    OBVIOUS
  <2>1. CASE k = n + 1
    <3>1. k - 1 = n /\ n \in 0 .. n
      BY <2>1
    <3>2. g[k - 1] = text
      BY <1>1, <1>2, <1>6, <3>1
    <3> QED  BY <1>4, <1>6, <2>1, <3>2
  <2>2. CASE k # n + 1
    <3>1. k \in 1 .. n /\ k \in 0 .. n /\ k - 1 \in 0 .. n
      BY <2>2
    <3>2. f[k] = f[k - 1] \o Shown(es[k])
      BY <1>1, <1>2, <3>1
    <3> QED  BY <1>4, <1>6, <3>1, <3>2
  <2> QED  BY <2>1, <2>2
<1>8. g[0] = <<>>
  BY <1>1, <1>6
<1> QED  BY <1>3, <1>4, <1>6, <1>7, <1>8 DEF Shows

WholeInv ==
    /\ \A k \in 1 .. Len(elements) : elements[k].op = AnyData \/ elements[k].data = <<>>
    /\ ~IsBitcoin => \A r : UnfoldsText(r, bytes, Len(bytes)) /\ Plain(elements) => Shows(elements, r[ip])
    /\ ~IsBitcoin /\ at = "done" => (Compared /\ ip = Len(bytes)) \/ evaluated.address = NoAddress

PushedAt(s, m, n, d) ==
    /\ m + 1 + n <= Len(s) /\ s[m + 1] = n
    /\ d = SubSeq(s, m + 2, m + 1 + n) /\ \A j \in DOMAIN d : ~IsNoOp(d[j])

LEMMA PushShows ==
    \A s \in Seq(Byte) : \A r : UnfoldsText(r, s, Len(s)) =>
        \A m \in 0 .. Len(s), n \in 1 .. 75 : \A d, e :
            PushedAt(s, m, n, d) /\ e = m + 1 + n => r[e] = r[m] \o Shown(Data(d))
<1> TAKE s \in Seq(Byte)
<1> TAKE r
<1> HAVE UnfoldsText(r, s, Len(s))
<1> TAKE m \in 0 .. Len(s), n \in 1 .. 75
<1> TAKE d, e
<1> HAVE PushedAt(s, m, n, d) /\ e = m + 1 + n
<1>0. /\ m + 1 + n <= Len(s) /\ s[m + 1] = n
      /\ d = SubSeq(s, m + 2, m + 1 + n) /\ \A j \in DOMAIN d : ~IsNoOp(d[j])
  BY DEF PushedAt
<1>1. m \in Nat /\ n \in Nat /\ Len(s) \in Nat
  OBVIOUS
<1>2. Len(d) = n /\ d \in Seq(Byte) /\ \A j \in 1 .. n : d[j] = s[(m + 1) + j]
  <2>1. m + 2 \in Int /\ m + 1 + n \in Int /\ (m + 1 + n) - (m + 2) + 1 = n /\ m + 2 <= m + 1 + n
    BY <1>1
  <2>2. \A i \in m + 2 .. m + 1 + n : i \in 1 .. Len(s)
    BY <1>0, <1>1
  <2>3. \A i \in m + 2 .. m + 1 + n : s[i] \in Byte
    BY <2>2
  <2>4. /\ d \in Seq(Byte) /\ Len(d) = n
        /\ \A i \in 1 .. n : d[i] = s[(m + 2) + i - 1]
    BY <1>0, <2>1, <2>3, SubSeqProperties
  <2>5. \A i \in 1 .. n : (m + 2) + i - 1 = (m + 1) + i
    BY <1>1
  <2> QED  BY <2>4, <2>5
<1>3. \A k \in m + 1 .. m + 1 + n : ~IsNoOp(s[k])
  <2> SUFFICES ASSUME NEW k \in m + 1 .. m + 1 + n PROVE ~IsNoOp(s[k])
    OBVIOUS
  <2>1. CASE k = m + 1
    <3>1. ~IsNoOp(n)
      BY DEF IsNoOp, OP_NOP, OP_NOP1, OP_NOP10
    <3> QED  BY <1>0, <2>1, <3>1
  <2>2. CASE k # m + 1
    <3>1. PICK j : j = k - (m + 1)
      OBVIOUS
    <3>2. j \in 1 .. n /\ (m + 1) + j = k
      BY <1>1, <2>2, <3>1
    <3>3. j \in DOMAIN d /\ d[j] = s[k]
      <4>1. DOMAIN d = 1 .. n
        BY <1>2
      <4> QED  BY <1>2, <3>2, <4>1
    <3> QED  BY <1>0, <3>3
  <2> QED  BY <2>1, <2>2
<1>4. e = m + 1 + n
  OBVIOUS
<1>5. e \in m .. Len(s) /\ e \in m + 1 .. Len(s) /\ m + 1 \in 1 .. Len(s) /\ (m + 1) + 1 = m + 2
  BY <1>0, <1>1, <1>4
<1>6. r[e] = r[m] \o SubSeq(s, m + 1, e)
  <2>1. \A k \in m + 1 .. e : ~IsNoOp(s[k])
    BY <1>3, <1>4
  <2> QED  BY <1>5, <2>1, TextGrows
<1>7. SubSeq(s, m + 1, e) = <<s[m + 1]>> \o SubSeq(s, (m + 1) + 1, e)
  BY <1>5, SubSeqRecursiveFirst
<1>8. Shown(Data(d)) = <<n>> \o d
  BY <1>2 DEF Shown, Data
<1>9. SubSeq(s, m + 1, e) = Shown(Data(d))
  BY <1>0, <1>4, <1>5, <1>7, <1>8
<1> QED  BY <1>4, <1>6, <1>9

LEMMA LoadShows ==
    ASSUME TypeInv, Load, NEW r, UnfoldsText(r, bytes, Len(bytes)),
           Plain(elements) => Shows(elements, r[ip]), Plain(elements')
    PROVE  Shows(elements', r[ip'])
<1>0. /\ ip < Len(bytes) /\ ip \in Nat /\ Len(bytes) \in Nat /\ Opcode \in Byte
      /\ bytes \in Seq(Byte) /\ elements \in Seq(Element) /\ Opcode = bytes[ip + 1]
  <2>1. ip < Len(bytes) /\ Opcode \in Byte
    BY Loads
  <2> QED  BY <2>1 DEF TypeInv, Opcode
<1>1. ip + 1 \in 1 .. Len(bytes) /\ (ip + 1) - 1 = ip
  BY <1>0
<1>2. ASSUME NEW d \in Seq(Byte), elements' = Append(elements, Data(d))
      PROVE  /\ Shows(elements, r[ip]) /\ Len(d) < 76 /\ \A j \in DOMAIN d : ~IsNoOp(d[j])
             /\ Shows(elements', r[ip] \o Shown(Data(d)))
  <2>1. Data(d) \in Element /\ Data(d).data = d
    BY DEF Data, Element, AnyData
  <2>2. PICK e \in Element : e = Data(d)
    BY <2>1
  <2>3. Plain(Append(elements, e))
    BY <1>2, <2>2
  <2>4. Plain(elements) /\ Len(e.data) < 76 /\ \A j \in DOMAIN e.data : ~IsNoOp(e.data[j])
    BY <1>0, <2>3, PlainMore
  <2>5. Shows(Append(elements, e), r[ip] \o Shown(e))
    BY <1>0, <2>4, ShowsMore
  <2> QED  BY <1>2, <2>1, <2>2, <2>4, <2>5
<1>3. CASE Opcode \in 1 .. 75
  <2>1. /\ ip + 1 + Opcode <= Len(bytes)
        /\ PushesTo(SubSeq(bytes, ip + 2, ip + 1 + Opcode), ip + 1 + Opcode)
    BY <1>3, Loads
  <2>2. PICK d : d = SubSeq(bytes, ip + 2, ip + 1 + Opcode)
    OBVIOUS
  <2>3. d \in Seq(Byte)
    <3>1. PICK n \in 1 .. 75 : n = Opcode
      BY <1>3
    <3>2. ip \in Nat /\ Len(bytes) \in Nat /\ ip + 1 + n <= Len(bytes)
      BY <1>0, <2>1, <3>1
    <3>3. ip + 2 \in 1 .. Len(bytes) /\ ip + 1 + n \in 1 .. Len(bytes) /\ ip + 2 <= ip + 1 + n
      BY <3>2
    <3>4. SubSeq(bytes, ip + 2, ip + 1 + n) \in Seq(Byte)
      BY <1>0, <3>3, TakenOf
    <3> QED  BY <2>2, <3>1, <3>4
  <2>4. ip' = ip + 1 + Opcode /\ elements' = Append(elements, Data(d))
    BY <2>1, <2>2 DEF PushesTo
  <2>5. (\A j \in DOMAIN d : ~IsNoOp(d[j])) /\ Shows(elements', r[ip] \o Shown(Data(d)))
    BY <1>2, <2>3, <2>4
  <2>6. r[ip + 1 + Opcode] = r[ip] \o Shown(Data(d))
    <3>1. PICK n \in 1 .. 75 : n = Opcode
      BY <1>3
    <3>2. ip \in 0 .. Len(bytes) /\ bytes[ip + 1] = n /\ ip + 1 + n <= Len(bytes)
          /\ d = SubSeq(bytes, ip + 2, ip + 1 + n) /\ bytes \in Seq(Byte)
      BY <1>0, <2>1, <2>2, <3>1
    <3>3. PushedAt(bytes, ip, n, d)
      BY <2>5, <3>2 DEF PushedAt
    <3>4. r[ip + 1 + n] = r[ip] \o Shown(Data(d))
      <4>1. bytes \in Seq(Byte) /\ ip \in 0 .. Len(bytes) /\ UnfoldsText(r, bytes, Len(bytes))
        BY <3>2
      <4>2. \A m \in 0 .. Len(bytes), k \in 1 .. 75 : \A c, e :
               PushedAt(bytes, m, k, c) /\ e = m + 1 + k => r[e] = r[m] \o Shown(Data(c))
        BY <4>1, PushShows
      <4>3. PICK e : e = ip + 1 + n
        OBVIOUS
      <4>4. r[e] = r[ip] \o Shown(Data(d))
        BY <3>3, <4>1, <4>2, <4>3
      <4> QED  BY <4>3, <4>4
    <3> QED  BY <3>1, <3>4
  <2> QED  BY <2>4, <2>5, <2>6
<1>4. CASE Opcode \in 76 .. 78
  <2>1. PICK d \in Seq(Byte) : Len(d) >= 76 /\ elements' = Append(elements, Data(d))
    <3>1. \E d \in Seq(Byte) : Len(d) >= 76 /\ PushesTo(d, ip')
      BY <1>4, Loads
    <3> QED  BY <3>1 DEF PushesTo
  <2>2. Len(d) < 76 /\ Len(d) \in Nat
    BY <1>2, <2>1
  <2> QED  BY <2>1, <2>2
<1>5. CASE Opcode = 0 \/ Opcode > 78
  <2>1. /\ ip' = ip + 1
        /\ elements' = IF IsNoOp(Opcode) THEN elements ELSE Append(elements, Op(Opcode))
    <3>1. \A b \in Byte : b = 0 \/ b > 78 => b \notin 1 .. 75 /\ b \notin 76 .. 78
      BY DEF Byte
    <3>2. Opcode \notin 1 .. 75 /\ Opcode \notin 76 .. 78
      BY <1>0, <1>5, <3>1
    <3> QED  BY <3>2, Loads
  <2>2. /\ r[ip + 1] = IF IsNoOp(Opcode) THEN r[ip] ELSE Append(r[ip], Opcode)
        /\ r[ip] \in Seq(Byte)
    BY <1>0, <1>1, TextReads
  <2>3. CASE IsNoOp(Opcode)
    BY <2>1, <2>2, <2>3
  <2>4. CASE ~IsNoOp(Opcode)
    <3>1. \A b \in Byte : b \in Int /\ b # -1
      BY DEF Byte
    <3>2. Op(Opcode) \in Element /\ Shown(Op(Opcode)) = <<Opcode>>
      BY <1>0, <3>1 DEF Op, Shown, Element, AnyData
    <3>3. PICK e \in Element : e = Op(Opcode)
      BY <3>2
    <3>4. elements' = Append(elements, e)
      BY <2>1, <2>4, <3>3
    <3>5. Plain(elements)
      BY <1>0, <3>4, PlainMore
    <3>6. Shows(Append(elements, e), r[ip] \o Shown(e))
      BY <1>0, <3>5, ShowsMore
    <3>7. r[ip + 1] = r[ip] \o <<Opcode>>
      BY <1>0, <2>2, <2>4, AppendIsConcat
    <3> QED  BY <2>1, <3>2, <3>3, <3>4, <3>6, <3>7
  <2> QED  BY <2>3, <2>4
<1> QED  BY <1>0, <1>3, <1>4, <1>5, Loads

LEMMA LoadKinds ==
    ASSUME TypeInv, Load,
           \A k \in 1 .. Len(elements) : elements[k].op = AnyData \/ elements[k].data = <<>>
    PROVE  \A k \in 1 .. Len(elements') : elements'[k].op = AnyData \/ elements'[k].data = <<>>
<1>1. \/ elements' = elements
      \/ \E e \in Element : (e.op = AnyData \/ e.data = <<>>) /\ elements' = Append(elements, e)
  <2>1. \A b \in Byte : b \in Int
    BY DEF Byte
  <2>2. Op(Opcode) \in Element /\ Op(Opcode).data = <<>>
    BY <2>1, Loads DEF Op, Element
  <2>3. \A d : Data(d).op = AnyData
    BY DEF Data
  <2>4. elements' \in Seq(Element) /\ elements \in Seq(Element)
    BY NextTyped DEF Next, TypeInv
  <2>5. \/ elements' = elements \/ elements' = Append(elements, Op(Opcode))
        \/ \E d : elements' = Append(elements, Data(d))
    BY Zenon DEF Load
  <2>6. \A e : elements' = Append(elements, e) => e \in Element
    <3> SUFFICES ASSUME NEW e, elements' = Append(elements, e) PROVE e \in Element
      OBVIOUS
    <3>1. Len(elements') = Len(elements) + 1 /\ elements'[Len(elements) + 1] = e
      BY <2>4
    <3> QED  BY <2>4, <3>1
  <2> QED  BY <2>2, <2>3, <2>5, <2>6
<1>2. CASE elements' = elements
  BY <1>2
<1>3. ASSUME NEW e \in Element, e.op = AnyData \/ e.data = <<>>, elements' = Append(elements, e)
      PROVE  \A k \in 1 .. Len(elements') : elements'[k].op = AnyData \/ elements'[k].data = <<>>
  <2>1. PICK n \in Nat : n = Len(elements)
    BY DEF TypeInv
  <2>2. /\ Len(elements') = n + 1 /\ elements'[n + 1] = e
        /\ \A k \in 1 .. n : elements'[k] = elements[k]
    BY <1>3, <2>1 DEF TypeInv
  <2> SUFFICES ASSUME NEW k \in 1 .. n + 1
               PROVE  elements'[k].op = AnyData \/ elements'[k].data = <<>>
    BY <2>2
  <2>3. CASE k = n + 1
    BY <1>3, <2>2, <2>3
  <2>4. CASE k # n + 1
    <3>1. k \in 1 .. n
      BY <2>4
    <3> QED  BY <2>1, <2>2, <3>1
  <2> QED  BY <2>3, <2>4
<1> QED  BY <1>1, <1>2, <1>3

LEMMA NextWhole ==
    ASSUME TypeInv, WholeInv, [Next]_vars
    PROVE  WholeInv'
<1>1. bytes' = bytes /\ version_id' = version_id
  BY DEF Next, EvalBitcoin, Load, UnexpectedEof, EvalStack, vars
<1>2. IsBitcoin' = IsBitcoin
  BY <1>1 DEF IsBitcoin
<1>3. CASE Load
  <2>1. \A k \in 1 .. Len(elements') : elements'[k].op = AnyData \/ elements'[k].data = <<>>
    BY <1>3, LoadKinds DEF WholeInv
  <2>2. at' = "eval" /\ ~IsBitcoin
    BY <1>3 DEF Load, Running
  <2>3. ASSUME NEW r, UnfoldsText(r, bytes, Len(bytes)), Plain(elements')
        PROVE  Shows(elements', r[ip'])
    <3>1. Plain(elements) => Shows(elements, r[ip])
      BY <2>2, <2>3 DEF WholeInv
    <3> QED  BY <1>3, <2>3, <3>1, LoadShows
  <2>4. \A r : UnfoldsText(r, bytes, Len(bytes))' /\ Plain(elements)' => Shows(elements, r[ip])'
    <3>1. ASSUME NEW r, UnfoldsText(r, bytes, Len(bytes))', Plain(elements)'
          PROVE  Shows(elements, r[ip])'
      <4>1. UnfoldsText(r, bytes, Len(bytes))
        BY <1>1, <3>1 DEF UnfoldsText
      <4>2. Plain(elements')
        BY <3>1 DEF Plain
      <4>3. Shows(elements', r[ip'])
        BY <2>3, <4>1, <4>2
      <4> QED  BY <4>3 DEF Shows, Shown
    <3> QED  BY <3>1
  <2> QED  BY <2>1, <2>2, <2>4 DEF WholeInv
<1>4. CASE ~Load
  <2>1. UNCHANGED <<ip, elements>>
    BY <1>4 DEF Next, EvalBitcoin, UnexpectedEof, EvalStack, vars
  <2>2. /\ \A k \in 1 .. Len(elements') : elements'[k].op = AnyData \/ elements'[k].data = <<>>
        /\ ~IsBitcoin' => \A r : UnfoldsText(r, bytes, Len(bytes))' /\ Plain(elements)' => Shows(elements, r[ip])'
    <3>1. ASSUME NEW r, UnfoldsText(r, bytes, Len(bytes))', Plain(elements)', ~IsBitcoin
          PROVE  Shows(elements, r[ip])'
      <4>1. UnfoldsText(r, bytes, Len(bytes))
        BY <1>1, <3>1 DEF UnfoldsText
      <4>2. Plain(elements)
        BY <2>1, <3>1 DEF Plain
      <4>3. Shows(elements, r[ip])
        BY <3>1, <4>1, <4>2 DEF WholeInv
      <4> QED  BY <2>1, <4>3 DEF Shows, Shown
    <3>2. \A k \in 1 .. Len(elements') : elements'[k].op = AnyData \/ elements'[k].data = <<>>
      BY <2>1 DEF WholeInv
    <3> QED  BY <1>2, <3>1, <3>2
  <2>3. ~IsBitcoin' /\ at' = "done" => (Compared' /\ ip' = Len(bytes')) \/ evaluated'.address = NoAddress
    <3>1. CASE EvalStack
      <4>1. Compared'
        BY <1>1, <2>1, <3>1 DEF EvalStack, Compared, Matches, Kinds, ComputeStack
      <4>2. ip' = Len(bytes')
        BY <1>1, <2>1, <3>1 DEF EvalStack, TypeInv
      <4> QED  BY <4>1, <4>2
    <3>2. CASE UnexpectedEof
      BY <3>2 DEF UnexpectedEof, Evaluated
    <3>3. CASE EvalBitcoin
      BY <1>2, <3>3 DEF EvalBitcoin
    <3>4. CASE UNCHANGED vars
      BY <1>2, <3>4 DEF vars, WholeInv, Compared, Matches, Kinds, ComputeStack
    <3> QED  BY <1>4, <3>1, <3>2, <3>3, <3>4 DEF Next
  <2> QED  BY <2>2, <2>3 DEF WholeInv
<1> QED  BY <1>3, <1>4

LEMMA InitWhole == Init => WholeInv
<1> SUFFICES ASSUME Init PROVE WholeInv
  OBVIOUS
<1>1. elements = <<>> /\ Len(elements) = 0 /\ ip = 0 /\ at = "eval" /\ bytes \in Seq(Byte)
  BY InitTyped DEF Init, TypeInv
<1>2. ASSUME NEW r, UnfoldsText(r, bytes, Len(bytes)) PROVE Shows(elements, r[ip])
  <2>1. r[0] = <<>>
    BY <1>1, <1>2, TextReads
  <2> QED  BY <1>1, <2>1 DEF Shows
<1> QED  BY <1>1, <1>2 DEF WholeInv

\* A stack that is given an address.
LEMMA AddressOf ==
    ASSUME TypeInv, WholeInv, Compared, evaluated.address # NoAddress, NEW of, of = evaluated.address[1].of
    PROVE  \/ /\ evaluated.pattern = "Pay2PublicKey" /\ elements = <<Data(of), Op(172)>>
           \/ /\ evaluated.pattern = "Pay2PublicKeyHash"
              /\ elements = <<Op(118), Op(169), Data(of), Op(136), Op(172)>>
           \/ /\ evaluated.pattern = "Pay2ScriptHash" /\ elements = <<Op(169), Data(of), Op(135)>>
<1>0. elements \in Seq(Element) /\ Len(elements) \in Nat
  BY DEF TypeInv
<1>1. \A of1, version, pattern :
         /\ ToKey(of1, version, pattern).pattern = pattern
         /\ ToKey(of1, version, pattern).address[1].of = of1
         /\ ToHash(of1, version, pattern).pattern = pattern
         /\ ToHash(of1, version, pattern).address[1].of = of1
  BY DEF ToKey, ToHash, Evaluated, Address
<1>2. \A pattern, text : Evaluated(NoAddress, pattern, text).address = NoAddress
  BY DEF Evaluated
<1>3. PICK p \in DOMAIN Patterns : Matches(p) /\ evaluated = ComputeStack(p)
  BY <1>2 DEF Compared
<1>4. p \in {"Pay2PublicKey", "Pay2PublicKeyHash", "Pay2ScriptHash"}
  <2>1. ComputeStack("OpReturn").address = NoAddress /\ ComputeStack("Pay2MultiSig").address = NoAddress
    BY <1>2 DEF ComputeStack
  <2> QED  BY <1>3, <2>1, PatternsAre
<1>5. \A k \in 1 .. Len(elements) :
         /\ elements[k].op = AnyData => elements[k] = Data(elements[k].data)
         /\ elements[k].op # AnyData => elements[k] = Op(elements[k].op)
  <2> SUFFICES ASSUME NEW k \in 1 .. Len(elements)
               PROVE  /\ elements[k].op = AnyData => elements[k] = Data(elements[k].data)
                      /\ elements[k].op # AnyData => elements[k] = Op(elements[k].op)
    OBVIOUS
  <2>1. elements[k] \in Element
    BY <1>0
  <2>2. elements[k].op = AnyData \/ elements[k].data = <<>>
    BY DEF WholeInv
  <2> QED  BY <2>1, <2>2 DEF Element, Data, Op
<1>6. Len(Kinds) = Len(elements) /\ \A k \in 1 .. Len(elements) : Kinds[k] = elements[k].op
  BY <1>0 DEF Kinds
<1>7. CASE p = "Pay2PublicKey"
  <2>1. evaluated = ToKey(elements[1].data, version_id, "Pay2PublicKey")
    BY <1>3, <1>7 DEF ComputeStack, ToKey
  <2>2. of = elements[1].data /\ evaluated.pattern = "Pay2PublicKey"
    BY <1>1, <2>1
  <2>3. PICK kinds : kinds = Kinds /\ kinds = <<-1, 172>>
    BY <1>3, <1>7, PatternsAre DEF Matches
  <2>4. Len(kinds) = 2 /\ kinds[1] = -1 /\ kinds[2] = 172
    BY <2>3
  <2>5. Len(elements) = 2 /\ elements[1].op = -1 /\ elements[2].op = 172
    <3>1. Len(elements) = 2
      BY <1>6, <2>3, <2>4
    <3>2. \A i \in 1 .. 2 : kinds[i] = elements[i].op
      BY <1>6, <2>3, <3>1
    <3> QED  BY <2>4, <3>1, <3>2
  <2>6. PICK t : t = <<Data(of), Op(172)>>
    OBVIOUS
  <2>7. Len(t) = 2 /\ t[1] = Data(of) /\ t[2] = Op(172)
    BY <2>6
  <2>8. elements[1] = t[1] /\ elements[2] = t[2]
    BY <1>5, <2>2, <2>5, <2>7 DEF AnyData
  <2>9. \A i \in 1 .. 2 : elements[i] = t[i]
    BY <2>8
  <2>10. t \in Seq(Element)
    <3>1. \A i \in 1 .. 2 : t[i] \in Element
      <4>1. \A i \in 1 .. 2 : i \in 1 .. Len(elements)
        BY <2>5
      <4>2. \A i \in 1 .. Len(elements) : elements[i] \in Element
        BY <1>0
      <4> QED  BY <2>9, <4>1, <4>2
    <3>2. t = [i \in 1 .. 2 |-> t[i]]
      BY <2>6
    <3> QED  BY <3>1, <3>2
  <2>11. elements = t
    BY <1>0, <2>5, <2>7, <2>9, <2>10, SeqEqual
  <2> QED  BY <2>2, <2>6, <2>11
<1>8. CASE p = "Pay2PublicKeyHash"
  <2>1. evaluated = ToHash(elements[3].data, version_id, "Pay2PublicKeyHash")
    BY <1>3, <1>8 DEF ComputeStack, ToHash
  <2>2. of = elements[3].data /\ evaluated.pattern = "Pay2PublicKeyHash"
    BY <1>1, <2>1
  <2>3. PICK kinds : kinds = Kinds /\ kinds = <<118, 169, -1, 136, 172>>
    BY <1>3, <1>8, PatternsAre DEF Matches
  <2>4. Len(kinds) = 5 /\ kinds[1] = 118 /\ kinds[2] = 169 /\ kinds[3] = -1 /\ kinds[4] = 136 /\ kinds[5] = 172
    BY <2>3
  <2>5. Len(elements) = 5 /\ elements[1].op = 118 /\ elements[2].op = 169 /\ elements[3].op = -1 /\ elements[4].op = 136 /\ elements[5].op = 172
    <3>1. Len(elements) = 5
      BY <1>6, <2>3, <2>4
    <3>2. \A i \in 1 .. 5 : kinds[i] = elements[i].op
      BY <1>6, <2>3, <3>1
    <3> QED  BY <2>4, <3>1, <3>2
  <2>6. PICK t : t = <<Op(118), Op(169), Data(of), Op(136), Op(172)>>
    OBVIOUS
  <2>7. Len(t) = 5 /\ t[1] = Op(118) /\ t[2] = Op(169) /\ t[3] = Data(of) /\ t[4] = Op(136) /\ t[5] = Op(172)
    BY <2>6
  <2>8. elements[1] = t[1] /\ elements[2] = t[2] /\ elements[3] = t[3] /\ elements[4] = t[4] /\ elements[5] = t[5]
    BY <1>5, <2>2, <2>5, <2>7 DEF AnyData
  <2>9. \A i \in 1 .. 5 : elements[i] = t[i]
    BY <2>8
  <2>10. t \in Seq(Element)
    <3>1. \A i \in 1 .. 5 : t[i] \in Element
      <4>1. \A i \in 1 .. 5 : i \in 1 .. Len(elements)
        BY <2>5
      <4>2. \A i \in 1 .. Len(elements) : elements[i] \in Element
        BY <1>0
      <4> QED  BY <2>9, <4>1, <4>2
    <3>2. t = [i \in 1 .. 5 |-> t[i]]
      BY <2>6
    <3> QED  BY <3>1, <3>2
  <2>11. elements = t
    BY <1>0, <2>5, <2>7, <2>9, <2>10, SeqEqual
  <2> QED  BY <2>2, <2>6, <2>11
<1>9. CASE p = "Pay2ScriptHash"
  <2>1. evaluated = ToHash(elements[2].data, 5, "Pay2ScriptHash")
    BY <1>3, <1>9 DEF ComputeStack, ToHash
  <2>2. of = elements[2].data /\ evaluated.pattern = "Pay2ScriptHash"
    BY <1>1, <2>1
  <2>3. PICK kinds : kinds = Kinds /\ kinds = <<169, -1, 135>>
    BY <1>3, <1>9, PatternsAre DEF Matches
  <2>4. Len(kinds) = 3 /\ kinds[1] = 169 /\ kinds[2] = -1 /\ kinds[3] = 135
    BY <2>3
  <2>5. Len(elements) = 3 /\ elements[1].op = 169 /\ elements[2].op = -1 /\ elements[3].op = 135
    <3>1. Len(elements) = 3
      BY <1>6, <2>3, <2>4
    <3>2. \A i \in 1 .. 3 : kinds[i] = elements[i].op
      BY <1>6, <2>3, <3>1
    <3> QED  BY <2>4, <3>1, <3>2
  <2>6. PICK t : t = <<Op(169), Data(of), Op(135)>>
    OBVIOUS
  <2>7. Len(t) = 3 /\ t[1] = Op(169) /\ t[2] = Data(of) /\ t[3] = Op(135)
    BY <2>6
  <2>8. elements[1] = t[1] /\ elements[2] = t[2] /\ elements[3] = t[3]
    BY <1>5, <2>2, <2>5, <2>7 DEF AnyData
  <2>9. \A i \in 1 .. 3 : elements[i] = t[i]
    BY <2>8
  <2>10. t \in Seq(Element)
    <3>1. \A i \in 1 .. 3 : t[i] \in Element
      <4>1. \A i \in 1 .. 3 : i \in 1 .. Len(elements)
        BY <2>5
      <4>2. \A i \in 1 .. Len(elements) : elements[i] \in Element
        BY <1>0
      <4> QED  BY <2>9, <4>1, <4>2
    <3>2. t = [i \in 1 .. 3 |-> t[i]]
      BY <2>6
    <3> QED  BY <3>1, <3>2
  <2>11. elements = t
    BY <1>0, <2>5, <2>7, <2>9, <2>10, SeqEqual
  <2> QED  BY <2>2, <2>6, <2>11
<1> QED  BY <1>4, <1>7, <1>8, <1>9

LEMMA Joined ==
    /\ \A a, b \in Nat : <<a>> \o <<b>> = <<a, b>>
    /\ \A a, b, c \in Nat : <<a, b>> \o <<c>> = <<a, b, c>>
<1>1. ASSUME NEW a \in Nat, NEW b \in Nat PROVE <<a>> \o <<b>> = <<a, b>>
  <2>1. PICK x, y, z : x = <<a>> /\ y = <<b>> /\ z = <<a, b>>
    OBVIOUS
  <2>2. /\ x \in Seq(Nat) /\ y \in Seq(Nat) /\ z \in Seq(Nat) /\ Len(x) = 1 /\ Len(y) = 1 /\ Len(z) = 2
        /\ x[1] = a /\ y[1] = b /\ z[1] = a /\ z[2] = b
    BY <2>1
  <2>a. /\ x \o y \in Seq(Nat) /\ Len(x \o y) = Len(x) + Len(y)
        /\ \A i \in 1 .. Len(x) + Len(y) : (x \o y)[i] = IF i <= Len(x) THEN x[i] ELSE y[i - Len(x)]
    BY <2>2, ConcatProperties
  <2>b. PICK j : j = x \o y
    OBVIOUS
  <2>c. j \in Seq(Nat) /\ Len(j) = 2 /\ \A i \in 1 .. 2 : j[i] = IF i <= 1 THEN x[i] ELSE y[i - 1]
    BY <2>2, <2>a, <2>b
  <2>3. j = x \o y /\ j \in Seq(Nat) /\ Len(j) = 2 /\ j[1] = a /\ j[2] = b
    <3>1. \A i \in 1 .. 1 : j[i] = x[i]
      BY <2>c
    <3>2. j[2] = y[1]
      BY <2>c
    <3> QED  BY <2>2, <2>b, <2>c, <3>1, <3>2
  <2>4. \A i \in 1 .. 2 : j[i] = z[i]
    BY <2>2, <2>3
  <2> QED  BY <2>1, <2>2, <2>3, <2>4, SeqEqual
<1>2. ASSUME NEW a \in Nat, NEW b \in Nat, NEW c \in Nat PROVE <<a, b>> \o <<c>> = <<a, b, c>>
  <2>1. PICK x, y, z : x = <<a, b>> /\ y = <<c>> /\ z = <<a, b, c>>
    OBVIOUS
  <2>2. /\ x \in Seq(Nat) /\ y \in Seq(Nat) /\ z \in Seq(Nat) /\ Len(x) = 2 /\ Len(y) = 1 /\ Len(z) = 3
        /\ x[1] = a /\ x[2] = b /\ y[1] = c /\ z[1] = a /\ z[2] = b /\ z[3] = c
    BY <2>1
  <2>a. /\ x \o y \in Seq(Nat) /\ Len(x \o y) = Len(x) + Len(y)
        /\ \A i \in 1 .. Len(x) + Len(y) : (x \o y)[i] = IF i <= Len(x) THEN x[i] ELSE y[i - Len(x)]
    BY <2>2, ConcatProperties
  <2>b. PICK j : j = x \o y
    OBVIOUS
  <2>c. j \in Seq(Nat) /\ Len(j) = 3 /\ \A i \in 1 .. 3 : j[i] = IF i <= 2 THEN x[i] ELSE y[i - 2]
    BY <2>2, <2>a, <2>b
  <2>3. j = x \o y /\ j \in Seq(Nat) /\ Len(j) = 3 /\ j[1] = a /\ j[2] = b /\ j[3] = c
    <3>1. \A i \in 1 .. 2 : j[i] = x[i]
      BY <2>c
    <3>2. j[3] = y[1]
      BY <2>c
    <3> QED  BY <2>2, <2>b, <2>c, <3>1, <3>2
  <2>4. \A i \in 1 .. 3 : j[i] = z[i]
    <3>1. j[1] = z[1] /\ j[2] = z[2] /\ j[3] = z[3]
      BY <2>2, <2>3
    <3> QED  BY <3>1
  <2> QED  BY <2>1, <2>2, <2>3, <2>4, SeqEqual
<1> QED  BY <1>1, <1>2

LEMMA JoinedAll ==
    \A x, y, z \in Seq(Nat) : (x \o y) \o z = x \o (y \o z)
<1> SUFFICES ASSUME NEW x \in Seq(Nat), NEW y \in Seq(Nat), NEW z \in Seq(Nat)
             PROVE  (x \o y) \o z = x \o (y \o z)
  OBVIOUS
<1>1. PICK S : S = Nat
  OBVIOUS
<1>2. x \in Seq(S) /\ y \in Seq(S) /\ z \in Seq(S)
  BY <1>1
<1> QED  BY <1>2, ConcatAssociative, SMTT(20)

\* The stacks of the three payments, and the scripts they stand for.
KeyStack(d) == <<Data(d), Op(172)>>
KeyHashStack(d) == <<Op(118), Op(169), Data(d), Op(136), Op(172)>>
ScriptHashStack(d) == <<Op(169), Data(d), Op(135)>>

LEMMA StackShown ==
    \A d \in Seq(Byte) : \A text :
        /\ Shows(KeyStack(d), text) => text = Payment("Pay2PublicKey", d)
        /\ Shows(ScriptHashStack(d), text) => text = Payment("Pay2ScriptHash", d)
        /\ Shows(KeyHashStack(d), text) => text = Payment("Pay2PublicKeyHash", d)
<1> TAKE d \in Seq(Byte)
<1> TAKE text
<1> DEFINE n == Len(d)
<1> HIDE DEF n
<1>1. Shown(Data(d)) = <<n>> \o d
  BY DEF Shown, Data, n
<1>2. Shown(Op(118)) = <<118>> /\ Shown(Op(169)) = <<169>> /\ Shown(Op(135)) = <<135>>
      /\ Shown(Op(136)) = <<136>> /\ Shown(Op(172)) = <<172>>
  BY DEF Shown, Op, AnyData
<1>3. n \in Nat /\ d \in Seq(Nat)
  <2>1. \A b \in Byte : b \in Nat
    BY DEF Byte
  <2>2. d \in Seq(Nat)
    BY <2>1
  <2>3. n \in Nat
    BY DEF n
  <2> QED  BY <2>2, <2>3
<1>4. PICK N : N = <<n>> /\ N \in Seq(Nat)
  <2>1. PICK m \in Nat : m = n
    BY <1>3
  <2>2. <<m>> \in Seq(Nat)
    OBVIOUS
  <2> QED  BY <2>1, <2>2
<1>5. ASSUME NEW x \in Seq(Nat), NEW y \in Seq(Nat)
      PROVE  x \o y \in Seq(Nat) /\ <<>> \o x = x
  BY ConcatProperties, ConcatEmptySeq
<1>6. PICK W : W = N \o d /\ W \in Seq(Nat)
  <2>1. N \o d \in Seq(Nat)
    BY <1>3, <1>4, <1>5
  <2> QED  BY <2>1
<1>7. ASSUME Shows(<<Data(d), Op(172)>>, text) PROVE text = <<n>> \o d \o <<172>>
  <2>1. PICK es : es = <<Data(d), Op(172)>>
    OBVIOUS
  <2>2. Len(es) = 2 /\ es[1] = Data(d) /\ es[2] = Op(172)
    BY <2>1
  <2>3. PICK f : f[0] = <<>> /\ f[2] = text /\ \A k \in 1 .. 2 : f[k] = f[k - 1] \o Shown(es[k])
    <3>1. Shows(es, text)
      BY <1>7, <2>1
    <3> QED  BY <2>2, <3>1 DEF Shows
  <2>4. f[1] = f[0] \o Shown(es[1]) /\ f[2] = f[1] \o Shown(es[2])
    <3>1. 1 \in 1 .. 2 /\ 2 \in 1 .. 2 /\ 1 - 1 = 0 /\ 2 - 1 = 1
      OBVIOUS
    <3> QED  BY <2>3, <3>1
  <2>5. f[1] = <<>> \o W /\ text = f[1] \o <<172>>
    <3>1. Shown(es[1]) = W /\ Shown(es[2]) = <<172>>
      BY <1>1, <1>2, <1>4, <1>6, <2>2
    <3> QED  BY <2>3, <2>4, <3>1
  <2>6. f[1] = W
    BY <1>5, <2>5
  <2> QED  BY <1>4, <1>6, <2>5, <2>6
<1>8. PICK A1, A2, A3, B1, B2 : /\ A1 = <<118>> /\ A2 = <<169>> /\ A3 = <<118, 169>>
                                /\ B1 = <<136>> /\ B2 = <<172>>
  OBVIOUS
<1>9. /\ A1 \in Seq(Nat) /\ A2 \in Seq(Nat) /\ A3 \in Seq(Nat) /\ B1 \in Seq(Nat) /\ B2 \in Seq(Nat)
      /\ A1 \o A2 = A3 /\ B1 \o B2 = <<136, 172>>
      /\ A2 \o N = <<169, n>> /\ A3 \o N = <<118, 169, n>>
  <2>1. A1 \in Seq(Nat) /\ A2 \in Seq(Nat) /\ A3 \in Seq(Nat) /\ B1 \in Seq(Nat) /\ B2 \in Seq(Nat)
    BY <1>8
  <2>2. <<118>> \o <<169>> = <<118, 169>> /\ <<136>> \o <<172>> = <<136, 172>>
    BY Joined
  <2>3. \A m \in Nat : <<169>> \o <<m>> = <<169, m>> /\ <<118, 169>> \o <<m>> = <<118, 169, m>>
    <3>1. PICK a, b \in Nat : a = 118 /\ b = 169
      OBVIOUS
    <3>2. \A m \in Nat : <<b>> \o <<m>> = <<b, m>> /\ <<a, b>> \o <<m>> = <<a, b, m>>
      BY Joined
    <3> QED  BY <3>1, <3>2
  <2> QED  BY <1>3, <1>4, <1>8, <2>1, <2>2, <2>3
<1>10. ASSUME Shows(<<Op(169), Data(d), Op(135)>>, text) PROVE text = <<169, n>> \o d \o <<135>>
  <2>1. PICK es : es = <<Op(169), Data(d), Op(135)>>
    OBVIOUS
  <2>2. Len(es) = 3 /\ es[1] = Op(169) /\ es[2] = Data(d) /\ es[3] = Op(135)
    BY <2>1
  <2>3. PICK f : f[0] = <<>> /\ f[3] = text /\ \A k \in 1 .. 3 : f[k] = f[k - 1] \o Shown(es[k])
    <3>1. Shows(es, text)
      BY <1>10, <2>1
    <3>2. PICK f : /\ f[0] = <<>> /\ f[Len(es)] = text
                   /\ \A k \in 1 .. Len(es) : f[k] = f[k - 1] \o Shown(es[k])
      BY <3>1 DEF Shows
    <3>3. Len(es) = 3
      BY <2>2
    <3> QED  BY <3>2, <3>3
  <2>4. f[1] = f[0] \o Shown(es[1]) /\ f[2] = f[1] \o Shown(es[2]) /\ f[3] = f[2] \o Shown(es[3])
    <3>1. 1 \in 1 .. 3 /\ 2 \in 1 .. 3 /\ 3 \in 1 .. 3 /\ 1 - 1 = 0 /\ 2 - 1 = 1 /\ 3 - 1 = 2
      OBVIOUS
    <3> QED  BY <2>3, <3>1
  <2>5. Shown(es[1]) = A2 /\ Shown(es[2]) = W /\ Shown(es[3]) = <<135>>
    BY <1>1, <1>2, <1>4, <1>6, <1>8, <2>2
  <2>6. f[1] = A2
    BY <1>5, <1>9, <2>3, <2>4, <2>5
  <2>7. f[2] = A2 \o (N \o d)
    BY <1>6, <2>4, <2>5, <2>6
  <2>8. A2 \o (N \o d) = (A2 \o N) \o d
    <3>1. A2 \in Seq(Nat) /\ N \in Seq(Nat) /\ d \in Seq(Nat)
      BY <1>3, <1>4, <1>9
    <3> QED  BY <3>1, JoinedAll
  <2>9. f[2] = <<169, n>> \o d
    BY <1>9, <2>7, <2>8
  <2> QED  BY <2>3, <2>4, <2>5, <2>9
<1>11. ASSUME Shows(<<Op(118), Op(169), Data(d), Op(136), Op(172)>>, text)
       PROVE  text = <<118, 169, n>> \o d \o <<136, 172>>
  <2>1. PICK es : es = <<Op(118), Op(169), Data(d), Op(136), Op(172)>>
    OBVIOUS
  <2>2. /\ Len(es) = 5 /\ es[1] = Op(118) /\ es[2] = Op(169) /\ es[3] = Data(d)
        /\ es[4] = Op(136) /\ es[5] = Op(172)
    BY <2>1
  <2>3. PICK f : f[0] = <<>> /\ f[5] = text /\ \A k \in 1 .. 5 : f[k] = f[k - 1] \o Shown(es[k])
    <3>1. Shows(es, text)
      BY <1>11, <2>1
    <3>2. PICK f : /\ f[0] = <<>> /\ f[Len(es)] = text
                   /\ \A k \in 1 .. Len(es) : f[k] = f[k - 1] \o Shown(es[k])
      BY <3>1 DEF Shows
    <3>3. Len(es) = 5
      BY <2>2
    <3> QED  BY <3>2, <3>3
  <2>4. /\ f[1] = f[0] \o Shown(es[1]) /\ f[2] = f[1] \o Shown(es[2]) /\ f[3] = f[2] \o Shown(es[3])
        /\ f[4] = f[3] \o Shown(es[4]) /\ f[5] = f[4] \o Shown(es[5])
    <3>1. /\ 1 \in 1 .. 5 /\ 2 \in 1 .. 5 /\ 3 \in 1 .. 5 /\ 4 \in 1 .. 5 /\ 5 \in 1 .. 5
          /\ 1 - 1 = 0 /\ 2 - 1 = 1 /\ 3 - 1 = 2 /\ 4 - 1 = 3 /\ 5 - 1 = 4
      OBVIOUS
    <3> QED  BY <2>3, <3>1
  <2>5. /\ Shown(es[1]) = A1 /\ Shown(es[2]) = A2 /\ Shown(es[3]) = W
        /\ Shown(es[4]) = B1 /\ Shown(es[5]) = B2
    BY <1>1, <1>2, <1>4, <1>6, <1>8, <2>2
  <2>6. f[1] = A1
    BY <1>5, <1>9, <2>3, <2>4, <2>5
  <2>7. f[2] = A3
    BY <1>9, <2>4, <2>5, <2>6
  <2>8. f[3] = A3 \o (N \o d)
    BY <1>6, <2>4, <2>5, <2>7
  <2>9. A3 \o (N \o d) = (A3 \o N) \o d /\ A3 \o (N \o d) \in Seq(Nat)
    <3>1. A3 \in Seq(Nat) /\ N \in Seq(Nat) /\ d \in Seq(Nat) /\ N \o d \in Seq(Nat)
      BY <1>3, <1>4, <1>6, <1>9
    <3>2. (A3 \o N) \o d = A3 \o (N \o d)
      BY <3>1, JoinedAll
    <3>3. A3 \o (N \o d) \in Seq(Nat)
      BY <1>5, <3>1
    <3> QED  BY <3>2, <3>3
  <2>10. PICK V : V = A3 \o (N \o d)
    OBVIOUS
  <2>11. (V \o B1) \o B2 = V \o (B1 \o B2)
    <3>1. V \in Seq(Nat) /\ B1 \in Seq(Nat) /\ B2 \in Seq(Nat)
      BY <1>9, <2>9, <2>10
    <3> QED  BY <3>1, JoinedAll
  <2>12. text = (V \o B1) \o B2
    BY <2>3, <2>4, <2>5, <2>8, <2>10
  <2>13. V = <<118, 169, n>> \o d
    BY <1>9, <2>9, <2>10
  <2> QED  BY <1>9, <2>11, <2>12, <2>13
<1>12. /\ Payment("Pay2PublicKey", d) = <<n>> \o d \o <<172>>
       /\ Payment("Pay2ScriptHash", d) = <<169, n>> \o d \o <<135>>
       /\ Payment("Pay2PublicKeyHash", d) = <<118, 169, n>> \o d \o <<136, 172>>
  BY DEF Payment, OP_CHECKSIG, OP_HASH160, OP_EQUAL, OP_DUP, OP_EQUALVERIFY, n
<1> QED  BY <1>7, <1>10, <1>11, <1>12 DEF KeyStack, KeyHashStack, ScriptHashStack

LEMMA DataPlain ==
    ASSUME NEW d, Len(d) < 76, \A j \in DOMAIN d : ~IsNoOp(d[j])
    PROVE  Plain(KeyStack(d)) /\ Plain(ScriptHashStack(d)) /\ Plain(KeyHashStack(d))
<1>1. \A op : Len(Op(op).data) < 76 /\ \A j \in DOMAIN Op(op).data : ~IsNoOp(Op(op).data[j])
  BY DEF Op
<1>2. Len(Data(d).data) < 76 /\ \A j \in DOMAIN Data(d).data : ~IsNoOp(Data(d).data[j])
  BY DEF Data
<1>3. ASSUME NEW es, Len(es) \in Nat,
             \A k \in 1 .. Len(es) : es[k] = Data(d) \/ \E op : es[k] = Op(op)
      PROVE  Plain(es)
  BY <1>1, <1>2, <1>3 DEF Plain
<1>4. PICK e1 : e1 = <<Data(d), Op(172)>>
  OBVIOUS
<1>5. Plain(e1)
  <2>1. Len(e1) = 2 /\ e1[1] = Data(d) /\ e1[2] = Op(172)
    BY <1>4
  <2>2. \A k \in 1 .. Len(e1) : e1[k] = Data(d) \/ \E op : e1[k] = Op(op)
    BY <2>1
  <2> QED  BY <1>3, <2>1, <2>2
<1>6. PICK e2 : e2 = <<Op(169), Data(d), Op(135)>>
  OBVIOUS
<1>7. Plain(e2)
  <2>1. Len(e2) = 3 /\ e2[1] = Op(169) /\ e2[2] = Data(d) /\ e2[3] = Op(135)
    BY <1>6
  <2>2. \A k \in 1 .. Len(e2) : e2[k] = Data(d) \/ \E op : e2[k] = Op(op)
    BY <2>1
  <2> QED  BY <1>3, <2>1, <2>2
<1>8. PICK e3 : e3 = <<Op(118), Op(169), Data(d), Op(136), Op(172)>>
  OBVIOUS
<1>9. Plain(e3)
  <2>1. Len(e3) = 5 /\ e3[1] = Op(118) /\ e3[2] = Op(169) /\ e3[3] = Data(d) /\ e3[4] = Op(136)
        /\ e3[5] = Op(172)
    BY <1>8
  <2>2. \A k \in 1 .. Len(e3) : e3[k] = Data(d) \/ \E op : e3[k] = Op(op)
    BY <2>1
  <2> QED  BY <1>3, <2>1, <2>2
<1> QED  BY <1>4, <1>5, <1>6, <1>7, <1>8, <1>9 DEF KeyStack, KeyHashStack, ScriptHashStack

\* A script that the other coins' evaluator gives an address is the payment to
\* it but for the no-ops, where its data holds none and has no length of its own:
\* all of it was read, and no push was cut (eval_from_bytes_custom).
THEOREM PaymentsAlwaysWhole == Spec => []PaymentsAreWhole
<1>1. Init => TypeInv /\ WholeInv
  BY InitTyped, InitWhole
<1>2. TypeInv /\ WholeInv /\ [Next]_vars => (TypeInv /\ WholeInv)'
  BY NextTyped, NextWhole
<1>3. TypeInv /\ WholeInv => PaymentsAreWhole
  <2> SUFFICES ASSUME TypeInv, WholeInv, at = "done", ~IsBitcoin, evaluated.address # NoAddress,
                      NEW of, of = evaluated.address[1].of,
                      Len(of) < 76, \A j \in DOMAIN of : ~IsNoOp(of[j])
               PROVE  WithoutNoOps(bytes) = Payment(evaluated.pattern, of)
    BY DEF PaymentsAreWhole, OP_PUSHDATA1
  <2>1. Compared /\ ip = Len(bytes) /\ Len(bytes) \in Nat
    BY DEF WholeInv, TypeInv
  <2>2. PICK r : UnfoldsText(r, bytes, Len(bytes)) /\ WithoutNoOps(bytes) = r[ip]
    BY <2>1, TextIs
  <2>3. Plain(elements) => Shows(elements, WithoutNoOps(bytes))
    BY <2>2 DEF WholeInv
  <2>4. CASE evaluated.pattern = "Pay2PublicKey" /\ elements = KeyStack(of)
    <3>1. elements[1] = Data(of) /\ 1 \in 1 .. Len(elements)
      BY <2>4 DEF KeyStack
    <3>2. of \in Seq(Byte)
      BY <3>1 DEF TypeInv, Data, Element
    <3>3. Plain(KeyStack(of))
      BY DataPlain
    <3> QED  BY <2>3, <2>4, <3>2, <3>3, StackShown
  <2>5. CASE evaluated.pattern = "Pay2PublicKeyHash" /\ elements = KeyHashStack(of)
    <3>1. elements[3] = Data(of) /\ 3 \in 1 .. Len(elements)
      BY <2>5 DEF KeyHashStack
    <3>2. of \in Seq(Byte)
      BY <3>1 DEF TypeInv, Data, Element
    <3>3. Plain(KeyHashStack(of))
      BY DataPlain
    <3> QED  BY <2>3, <2>5, <3>2, <3>3, StackShown
  <2>6. CASE evaluated.pattern = "Pay2ScriptHash" /\ elements = ScriptHashStack(of)
    <3>1. elements[2] = Data(of) /\ 2 \in 1 .. Len(elements)
      BY <2>6 DEF ScriptHashStack
    <3>2. of \in Seq(Byte)
      BY <3>1 DEF TypeInv, Data, Element
    <3>3. Plain(ScriptHashStack(of))
      BY DataPlain
    <3> QED  BY <2>3, <2>6, <3>2, <3>3, StackShown
  <2> QED  BY <2>1, <2>4, <2>5, <2>6, AddressOf DEF KeyStack, KeyHashStack, ScriptHashStack
<1> QED  BY <1>1, <1>2, <1>3, PTL DEF Spec
=============================================================================
