---------------------------- MODULE VarintProofs ----------------------------
(***************************************************************************)
(* The integers of the block index never wrap, for every width of the sum, *)
(* and are those the node wrote.                                           *)
(***************************************************************************)
EXTENDS Varint, SequenceTheorems, WellFoundedInduction, TLAPS

VarintInv ==
    /\ bytes \in Seq(0 .. 255)
    /\ pos \in Nat \ {0}
    /\ n \in 0 .. MaxValue
    /\ exact \in Nat
    /\ at # "panicked" => n = exact
    /\ at = "panicked" => exact > MaxValue

\* What is left of a number that fits is the number.
LEMMA NoWrap ==
    ASSUME NEW x \in 0 .. MaxValue
    PROVE  Wrapped(x) = x
BY MaxValueAssumption DEF Wrapped

\* A sum that passes the check in front of the shift can be shifted, and one
\* that does not cannot.
LEMMA ShiftFits ==
    ASSUME NEW x \in Nat, NEW c \in 0 .. 127
    PROVE  x <= MaxValue \div 128 <=> x * 128 + c <= MaxValue
<1> DEFINE q == MaxValue \div 128
<1>1. MaxValue = q * 128 + 127 /\ q \in Nat
    BY MaxValueAssumption
<1> HIDE DEF q
<1> QED
    BY <1>1, MaxValueAssumption DEF q

LEMMA VarintInvNext == VarintInv /\ [Next]_vars => VarintInv'
<1> SUFFICES ASSUME VarintInv, [Next]_vars PROVE VarintInv'
    OBVIOUS
<1>1. CASE Step
    <2> DEFINE ch == bytes[pos]
               sum == Wrapped(Shifted(n, ch))
               one == IF More(ch) THEN 1 ELSE 0
    <2>1. ch \in 0 .. 255 /\ ch % 128 \in 0 .. 127
        <3>1. pos \in 1 .. Len(bytes) /\ bytes \in Seq(0 .. 255)
            BY <1>1 DEF Step, VarintInv
        <3>2. ch \in 0 .. 255
            <4> DEFINE S == 0 .. 255
            <4>1. bytes \in Seq(S)
                BY <3>1
            <4> HIDE DEF S
            <4>2. bytes[pos] \in S
                BY <3>1, <4>1
            <4> QED
                BY <4>2 DEF S
        <3>3. \A c \in 0 .. 255 : c % 128 \in 0 .. 127
            OBVIOUS
        <3> QED
            BY <3>2, <3>3
    <2>2. /\ n = exact /\ n \in Nat /\ at = "reading"
          /\ bytes' = bytes /\ pos' = pos + 1
          /\ exact' = Shifted(n, ch) + one
        BY <1>1 DEF Step, VarintInv
    <2>3. Shifted(n, ch) \in Nat /\ one \in 0 .. 1
        BY <2>1, <2>2 DEF Shifted
    <2>4. CASE ShiftOverflows
        <3>1. Shifted(n, ch) > MaxValue
            BY <2>1, <2>2, <2>3, <2>4, ShiftFits, MaxValueAssumption DEF ShiftOverflows, Shifted
        <3>2. at' = "panicked" /\ n' = n
            BY <1>1, <2>4 DEF Step
        <3> QED
            BY <2>2, <2>3, <3>1, <3>2, MaxValueAssumption DEF VarintInv
    <2>5. CASE ~ShiftOverflows
        <3>1. Shifted(n, ch) <= MaxValue
            BY <2>1, <2>2, <2>5, ShiftFits, MaxValueAssumption DEF ShiftOverflows, Shifted
        <3>2. sum = Shifted(n, ch)
            BY <2>3, <3>1, NoWrap, MaxValueAssumption
        <3> HIDE DEF sum
        <3>3. CASE More(ch) /\ sum = MaxValue
            <4>1. at' = "panicked" /\ n' = n
                BY <1>1, <3>3 DEF Step, sum
            <4> QED
                BY <2>2, <2>3, <3>2, <3>3, <4>1, MaxValueAssumption DEF VarintInv
        <3>4. CASE More(ch) /\ sum # MaxValue
            <4>1. n' = Wrapped(sum + 1) /\ at' = at
                BY <1>1, <2>5, <3>4 DEF Step, sum
            <4>2. Wrapped(sum + 1) = sum + 1
                BY <2>3, <3>1, <3>2, <3>4, NoWrap, MaxValueAssumption
            <4> QED
                BY <2>2, <2>3, <3>1, <3>2, <3>4, <4>1, <4>2, MaxValueAssumption DEF VarintInv
        <3>5. CASE ~More(ch)
            <4>1. n' = sum /\ at' = "done"
                BY <1>1, <2>5, <3>5 DEF Step, sum
            <4> QED
                BY <2>2, <2>3, <3>1, <3>2, <3>5, <4>1, MaxValueAssumption DEF VarintInv
        <3> QED
            BY <3>3, <3>4, <3>5
    <2> QED
        BY <2>4, <2>5
<1>2. CASE Eof
    BY <1>2 DEF Eof, VarintInv
<1>3. CASE UNCHANGED vars
    BY <1>3 DEF vars, VarintInv
<1> QED
    BY <1>1, <1>2, <1>3 DEF Next

LEMMA VarintInvAlways == Spec => []VarintInv
<1>1. Init => VarintInv
    BY InputsAssumption, MaxValueAssumption DEF Init, VarintInv
<1> QED
    BY <1>1, VarintInvNext, PTL DEF Spec

\* The u64 of read_varint never wraps: it is what the bytes say, for every width
\* and whatever the bytes.
THEOREM VarintsAlwaysExact == Spec => []Exact
<1>1. VarintInv => Exact
    BY DEF VarintInv, Exact
<1> QED
    BY <1>1, VarintInvAlways, PTL

\* The checks of read_varint end the program only over a number that does not fit.
THEOREM PanicsOverTooLarge == Spec => []PanicsOnlyTooLarge
<1>1. VarintInv => PanicsOnlyTooLarge
    BY DEF VarintInv, PanicsOnlyTooLarge
<1> QED
    BY <1>1, VarintInvAlways, PTL

-----------------------------------------------------------------------------
\* The node's writer.  A set of natural numbers that is not empty has a least one.
LEMMA LeastNat ==
    ASSUME NEW T \in SUBSET Nat, T # {}
    PROVE  \E x \in T : \A y \in T : x <= y
<1> DEFINE R == {ss \in Nat \X Nat : ss[1] < ss[2]}
<1>1. IsWellFoundedOn(R, Nat)
    BY NatLessThanWellFounded DEF OpToRel
<1>2. \A x, y \in Nat : x < y => <<x, y>> \in R
    OBVIOUS
<1> HIDE DEF R
<1>3. PICK x \in T : \A y \in T : ~(<<y, x>> \in R)
    BY <1>1, WFMin
<1>4. \A y \in T : y \in Nat /\ x \in Nat /\ ~(y < x)
    BY <1>2, <1>3
<1> QED
    BY <1>3, <1>4

\* What Continued is of one number, given what it is of smaller ones; and as a
\* function of the numbers up to k.
Continues(f, x) == IF x <= 127 THEN <<x + 128>> ELSE Append(f[x \div 128 - 1], (x % 128) + 128)
UpTo(f, k) == f = [x \in 0 .. k |-> Continues(f, x)]

LEMMA SmallerBefore ==
    ASSUME NEW x \in Nat, ~(x <= 127)
    PROVE  x \div 128 - 1 \in 0 .. x - 1
OBVIOUS

LEMMA ContinuedUpTo == \A k \in Nat : \E f : UpTo(f, k)
<1> DEFINE T == {k \in Nat : ~ \E f : UpTo(f, k)}
<1>1. SUFFICES ASSUME T # {} PROVE FALSE
    OBVIOUS
<1>2. PICK k \in T : \A j \in T : k <= j
    BY <1>1, LeastNat
<1>3. CASE k = 0
    <2>1. PICK f : f = [x \in 0 .. 0 |-> <<x + 128>>]
        OBVIOUS
    <2>2. \A x \in 0 .. 0 : Continues(f, x) = <<x + 128>>
        BY DEF Continues
    <2> QED
        BY <1>2, <1>3, <2>1, <2>2 DEF UpTo
<1>4. CASE k # 0
    <2>1. k - 1 \in Nat /\ k - 1 \notin T
        BY <1>2, <1>4
    <2>2. PICK f : UpTo(f, k - 1)
        BY <2>1
    <2>3. PICK g : g = [x \in 0 .. k |-> IF x = k THEN Continues(f, x) ELSE f[x]]
        OBVIOUS
    <2>4. \A x \in 0 .. k - 1 : f[x] = Continues(f, x) /\ g[x] = f[x] /\ x \in Nat
        <3>1. TAKE x \in 0 .. k - 1
        <3>2. x \in 0 .. k /\ x # k /\ x \in Nat
            BY <1>2
        <3>3. f[x] = Continues(f, x)
            BY <2>2 DEF UpTo
        <3> QED
            BY <2>3, <3>2, <3>3
    <2>5. ASSUME NEW x \in 0 .. k PROVE Continues(g, x) = Continues(f, x)
        <3>1. CASE x <= 127
            BY <3>1 DEF Continues
        <3>2. CASE ~(x <= 127)
            <4>1. x \div 128 - 1 \in 0 .. k - 1
                BY <1>2, <3>2, SmallerBefore
            <4> QED
                BY <2>4, <4>1 DEF Continues
        <3> QED
            BY <3>1, <3>2
    <2>6. \A x \in 0 .. k : g[x] = Continues(g, x)
        <3>1. TAKE x \in 0 .. k
        <3>2. CASE x = k
            BY <2>3, <2>5, <3>2
        <3>3. CASE x # k
            <4>1. x \in 0 .. k - 1
                BY <1>2, <3>3
            <4> QED
                BY <2>4, <2>5, <4>1
        <3> QED
            BY <3>2, <3>3
    <2>7. UpTo(g, k)
        BY <2>3, <2>6 DEF UpTo
    <2> QED
        BY <1>2, <2>7
<1> QED
    BY <1>3, <1>4

\* Two such functions agree.
LEMMA UpToAgree ==
    ASSUME NEW j \in Nat, NEW k \in Nat, NEW f, NEW g, UpTo(f, j), UpTo(g, k)
    PROVE  \A x \in Nat : x <= j /\ x <= k => f[x] = g[x]
<1> DEFINE T == {x \in Nat : x <= j /\ x <= k /\ f[x] # g[x]}
<1>1. SUFFICES ASSUME T # {} PROVE FALSE
    OBVIOUS
<1>2. PICK x \in T : \A y \in T : x <= y
    BY <1>1, LeastNat
<1>3. x \in 0 .. j /\ x \in 0 .. k /\ x \in Nat /\ f[x] # g[x]
    BY <1>2
<1>4. f[x] = Continues(f, x) /\ g[x] = Continues(g, x)
    BY <1>3 DEF UpTo
<1>5. CASE x <= 127
    BY <1>3, <1>4, <1>5 DEF Continues
<1>6. CASE ~(x <= 127)
    <2>1. PICK y : y = x \div 128 - 1
        OBVIOUS
    <2>2. y \in Nat /\ y < x
        BY <1>3, <1>6, <2>1, SmallerBefore
    <2>3. y \notin T
        BY <1>2, <1>3, <2>2
    <2>4. f[y] = g[y]
        BY <1>3, <2>2, <2>3
    <2> QED
        BY <1>3, <1>4, <1>6, <2>1, <2>4 DEF Continues
<1> QED
    BY <1>5, <1>6

\* The recursion of the writer is well-founded: Continued is what it says.
LEMMA ContinuedDef == \A x \in Nat : Continued[x] = Continues(Continued, x)
<1> DEFINE Any(k) == CHOOSE f : UpTo(f, k)
           F == [x \in Nat |-> Any(x)[x]]
<1>1. \A k \in Nat : UpTo(Any(k), k)
    BY ContinuedUpTo
<1> HIDE DEF Any
<1>2. ASSUME NEW x \in Nat PROVE F[x] = Continues(F, x)
    <2>1. x \in 0 .. x /\ F[x] = Any(x)[x]
        OBVIOUS
    <2>2. F[x] = Continues(Any(x), x)
        BY <1>1, <2>1 DEF UpTo
    <2>3. CASE x <= 127
        BY <2>2, <2>3 DEF Continues
    <2>4. CASE ~(x <= 127)
        <3>1. PICK y : y = x \div 128 - 1
            OBVIOUS
        <3>2. y \in Nat /\ y <= x /\ y <= y
            BY <2>4, <3>1, SmallerBefore
        <3>3. Any(x)[y] = Any(y)[y]
            BY <1>1, <3>2, UpToAgree
        <3>4. F[y] = Any(x)[y]
            BY <3>2, <3>3
        <3> HIDE DEF F
        <3> QED
            BY <2>2, <2>4, <3>1, <3>4 DEF Continues
    <2> QED
        BY <2>3, <2>4
<1>3. F = [x \in Nat |-> Continues(F, x)]
    <2>1. DOMAIN F = Nat /\ F = [x \in Nat |-> F[x]]
        OBVIOUS
    <2> HIDE DEF F
    <2> QED
        BY <1>2, <2>1
<1> HIDE DEF F
<1>4. \E f : f = [x \in Nat |-> IF x <= 127 THEN <<x + 128>>
                                ELSE Append(f[x \div 128 - 1], (x % 128) + 128)]
    BY <1>3 DEF Continues
<1>5. Continued = [x \in Nat |-> IF x <= 127 THEN <<x + 128>>
                                 ELSE Append(Continued[x \div 128 - 1], (x % 128) + 128)]
    BY <1>4 DEF Continued
<1> QED
    BY <1>5 DEF Continues

\* One byte more of an integer, or its last: what was read is what the node
\* writes for all numbers the reader has added up.
LEMMA OneByteMore ==
    ASSUME NEW x \in Nat \ {0}, NEW ch \in 128 .. 255
    PROVE  Continued[Shifted(x, ch)] = Append(Continued[x - 1], ch)
<1>1. PICK s, c : s = x * 128 + c /\ c = ch % 128
    OBVIOUS
<1>2. /\ c \in 0 .. 127 /\ c + 128 = ch /\ s \in Nat /\ ~(s <= 127)
      /\ s \div 128 = x /\ s % 128 = c
    <2>1. c = ch - 128 /\ c \in 0 .. 127
        BY <1>1
    <2> QED
        BY <1>1, <2>1
<1>3. Continued[s] = Append(Continued[s \div 128 - 1], (s % 128) + 128)
    BY <1>2, ContinuedDef DEF Continues
<1> QED
    BY <1>1, <1>2, <1>3 DEF Shifted

LEMMA LastByte ==
    ASSUME NEW x \in Nat \ {0}, NEW ch \in 0 .. 127
    PROVE  WriteVarInt(Shifted(x, ch)) = Append(Continued[x - 1], ch)
<1>1. PICK s : s = x * 128 + ch
    OBVIOUS
<1>2. s \in Nat /\ ~(s <= 127) /\ s \div 128 = x /\ s % 128 = ch /\ ch % 128 = ch
    BY <1>1
<1>3. WriteVarInt(s) = Append(Continued[s \div 128 - 1], s % 128)
    BY <1>2 DEF WriteVarInt
<1> QED
    BY <1>1, <1>2, <1>3 DEF Shifted

LEMMA FirstByte ==
    /\ \A ch \in 128 .. 255 : Continued[Shifted(0, ch)] = <<ch>>
    /\ \A ch \in 0 .. 127 : WriteVarInt(Shifted(0, ch)) = <<ch>>
<1>1. ASSUME NEW ch \in 128 .. 255 PROVE Continued[Shifted(0, ch)] = <<ch>>
    <2>1. PICK s : s = 0 * 128 + (ch % 128)
        OBVIOUS
    <2>2. s = ch - 128 /\ s \in Nat /\ s <= 127 /\ s + 128 = ch
        BY <2>1
    <2>3. Continued[s] = <<s + 128>>
        BY <2>2, ContinuedDef DEF Continues
    <2> QED
        BY <2>1, <2>2, <2>3 DEF Shifted
<1>2. ASSUME NEW ch \in 0 .. 127 PROVE WriteVarInt(Shifted(0, ch)) = <<ch>>
    <2>1. 0 * 128 + (ch % 128) = ch
        OBVIOUS
    <2> QED
        BY <2>1 DEF Shifted, WriteVarInt
<1> QED
    BY <1>1, <1>2

\* What the bytes read so far are: those the node writes in front of the last
\* one of every integer whose leading part is n.
InverseInv ==
    /\ VarintInv
    /\ at = "reading" =>
          \/ pos = 1 /\ n = 0
          \/ pos > 1 /\ n > 0 /\ SubSeq(bytes, 1, pos - 1) = Continued[n - 1]
    /\ InverseOfWrite

LEMMA InverseNext == InverseInv /\ [Next]_vars => InverseInv'
<1> SUFFICES ASSUME InverseInv, [Next]_vars PROVE InverseInv'
    OBVIOUS
<1>0. VarintInv /\ VarintInv'
    BY VarintInvNext DEF InverseInv
<1>1. CASE Step
    <2>1. /\ at = "reading" /\ pos \in 1 .. Len(bytes) /\ bytes \in Seq(0 .. 255)
          /\ pos' = pos + 1 /\ bytes' = bytes /\ Len(bytes) \in Nat
        BY <1>0, <1>1 DEF Step, VarintInv
    <2>2. PICK ch : ch = bytes[pos]
        OBVIOUS
    <2>3. ch \in 0 .. 255
        <3> DEFINE S == 0 .. 255
        <3>1. bytes \in Seq(S)
            BY <2>1
        <3> HIDE DEF S
        <3>2. bytes[pos] \in S
            BY <2>1, <3>1
        <3> QED
            BY <2>2, <3>2 DEF S
    <2>4. PICK read, whole : /\ read = SubSeq(bytes, 1, pos - 1)
                             /\ whole = SubSeq(bytes, 1, pos)
        OBVIOUS
    <2>5. whole = Append(read, ch)
        <3> DEFINE S == 0 .. 255
        <3>1. bytes \in Seq(S) /\ 1 \in 1 .. Len(bytes)
            BY <2>1
        <3> HIDE DEF S
        <3>2. whole = read \o <<ch>>
            BY <2>1, <2>2, <2>4, <3>1, SubSeqRecursiveSecond
        <3>3. read \in Seq(S) /\ ch \in S
            <4>1. \A i \in 1 .. pos - 1 : bytes[i] \in S
                BY <2>1, <3>1
            <4>2. pos - 1 \in Int
                BY <2>1
            <4> QED
                BY <2>1, <2>2, <2>4, <3>1, <4>1, <4>2, SubSeqProperties
        <3> QED
            BY <3>2, <3>3, AppendIsConcat
    <2>6. SubSeq(bytes', 1, pos' - 1) = whole /\ pos' > 1
        BY <2>1, <2>4
    <2>7. n = exact /\ n \in Nat
        BY <1>0, <2>1 DEF VarintInv
    <2>8. \/ at' = "panicked"
          \/ More(ch) /\ at' = "reading" /\ n' = Shifted(n, ch) + 1
          \/ ~More(ch) /\ at' = "done" /\ n' = Shifted(n, ch) + 0
        <3>1. \/ at' = "panicked"
              \/ More(ch) /\ at' = "reading"
              \/ ~More(ch) /\ at' = "done"
            BY <1>1, <2>2 DEF Step
        <3>2. exact' = Shifted(n, ch) + (IF More(ch) THEN 1 ELSE 0)
            BY <1>1, <2>2, <2>7 DEF Step
        <3>3. at' # "panicked" => n' = exact'
            BY <1>0 DEF VarintInv
        <3> QED
            BY <3>1, <3>2, <3>3
    <2>9. Shifted(n, ch) \in Nat
        BY <2>3, <2>7 DEF Shifted
    <2>10. \/ n = 0 /\ read = <<>>
           \/ n \in Nat \ {0} /\ read = Continued[n - 1]
        <3>1. CASE pos = 1 /\ n = 0
            <4>1. SubSeq(bytes, 1, 0) = <<>>
                BY SubSeqEmpty
            <4>2. PICK l : l = pos - 1
                OBVIOUS
            <4>3. l = 0 /\ read = SubSeq(bytes, 1, l)
                BY <2>4, <3>1, <4>2
            <4>4. read = <<>>
                BY <4>1, <4>3
            <4> QED
                BY <3>1, <4>4
        <3>2. CASE n > 0 /\ SubSeq(bytes, 1, pos - 1) = Continued[n - 1]
            BY <2>4, <2>7, <3>2
        <3> QED
            BY <2>1, <3>1, <3>2 DEF InverseInv
    <2>11. CASE at' = "panicked"
        BY <1>0, <2>11 DEF InverseInv, InverseOfWrite
    <2>12. CASE More(ch) /\ at' = "reading" /\ n' = Shifted(n, ch) + 1
        <3>1. ch \in 128 .. 255
            BY <2>3, <2>12 DEF More
        <3>2. whole = Continued[Shifted(n, ch)]
            <4>1. CASE n = 0 /\ read = <<>>
                <5>1. Continued[Shifted(0, ch)] = <<ch>>
                    BY <3>1, FirstByte
                <5>2. Append(<<>>, ch) = <<ch>>
                    OBVIOUS
                <5> QED
                    BY <2>5, <4>1, <5>1, <5>2
            <4>2. CASE n \in Nat \ {0} /\ read = Continued[n - 1]
                BY <2>5, <3>1, <4>2, OneByteMore
            <4> QED
                BY <2>10, <4>1, <4>2
        <3>3. n' - 1 = Shifted(n, ch) /\ n' > 0
            BY <2>9, <2>12
        <3> QED
            BY <1>0, <2>6, <2>12, <3>2, <3>3 DEF InverseInv, InverseOfWrite
    <2>13. CASE ~More(ch) /\ at' = "done" /\ n' = Shifted(n, ch) + 0
        <3>1. ch \in 0 .. 127
            BY <2>3, <2>13 DEF More
        <3>2. whole = WriteVarInt(Shifted(n, ch))
            <4>1. CASE n = 0 /\ read = <<>>
                <5>1. WriteVarInt(Shifted(0, ch)) = <<ch>>
                    BY <3>1, FirstByte
                <5>2. Append(<<>>, ch) = <<ch>>
                    OBVIOUS
                <5> QED
                    BY <2>5, <4>1, <5>1, <5>2
            <4>2. CASE n \in Nat \ {0} /\ read = Continued[n - 1]
                BY <2>5, <3>1, <4>2, LastByte
            <4> QED
                BY <2>10, <4>1, <4>2
        <3>3. n' = Shifted(n, ch)
            BY <2>9, <2>13
        <3> QED
            BY <1>0, <2>6, <2>13, <3>2, <3>3 DEF InverseInv, InverseOfWrite
    <2> QED
        BY <2>8, <2>11, <2>12, <2>13
<1>2. CASE Eof
    BY <1>0, <1>2 DEF Eof, InverseInv, InverseOfWrite
<1>3. CASE UNCHANGED vars
    BY <1>0, <1>3 DEF vars, InverseInv, InverseOfWrite
<1> QED
    BY <1>1, <1>2, <1>3 DEF Next

\* Whatever read_varint returns, the bytes it has consumed are those the node
\* writes for that number: no number has two encodings, and none is read too far.
THEOREM ReaderInvertsWriter == Spec => []InverseOfWrite
<1>1. Init => InverseInv
    BY InputsAssumption, MaxValueAssumption DEF Init, VarintInv, InverseInv, InverseOfWrite
<1>2. InverseInv => InverseOfWrite
    BY DEF InverseInv
<1> QED
    BY <1>1, <1>2, InverseNext, PTL DEF Spec
=============================================================================
