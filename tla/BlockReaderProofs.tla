------------------------- MODULE BlockReaderProofs -------------------------
(***************************************************************************)
(* That block_reader.rs keeps its place in a blk file, for every block and *)
(* wherever the file ends, and what follows from it: every transaction is  *)
(* read as the node wrote it and hashes to its txid, a block is delivered  *)
(* only when it is whole, its merkle root is the one in the header, and it *)
(* looks as it does over RPC but for the hashes.  The parts: sequences;    *)
(* concatenations and where their elements are; the fields of a block;     *)
(* what each step has read; the steps; the merkle root; the hashes over    *)
(* RPC.                                                                    *)
(***************************************************************************)
EXTENDS BlockReader, SequenceTheorems, WellFoundedInduction, TLAPS
-----------------------------------------------------------------------------
\* Sequences, of whatever elements.
LEMMA SeqShape ==
    ASSUME NEW s, IsSeq(s)
    PROVE  /\ Len(s) \in Nat
           /\ DOMAIN s = 1 .. Len(s)
           /\ s = [i \in 1 .. Len(s) |-> s[i]]
BY LenProperties DEF IsSeq

LEMMA IsSeqIn ==
    ASSUME NEW s, NEW S, s \in Seq(S)
    PROVE  IsSeq(s)
<1>1. Len(s) \in Nat /\ DOMAIN s = 1 .. Len(s) /\ s \in [1 .. Len(s) -> S]
    BY LenProperties
<1>2. s \in [1 .. Len(s) -> Range(s)]
    BY <1>1 DEF Range
<1> QED
    BY <1>1, <1>2, SeqDef DEF IsSeq

LEMMA FunctionIsSeq ==
    ASSUME NEW n \in Nat, NEW s, s = [i \in 1 .. n |-> s[i]]
    PROVE  IsSeq(s) /\ Len(s) = n
<1>1. DOMAIN s = 1 .. n /\ s \in [1 .. n -> Range(s)]
    BY DEF Range
<1>2. s \in Seq(Range(s))
    BY <1>1, SeqDef
<1>3. Len(s) \in Nat /\ 1 .. Len(s) = 1 .. n
    BY <1>1, <1>2, LenProperties
<1> QED
    BY <1>2, <1>3 DEF IsSeq

LEMMA SameSeq ==
    ASSUME NEW s, NEW u, IsSeq(s), IsSeq(u), Len(s) = Len(u),
           \A i \in 1 .. Len(s) : s[i] = u[i]
    PROVE  s = u
BY SeqShape

LEMMA Joined ==
    ASSUME NEW s, NEW u, IsSeq(s), IsSeq(u)
    PROVE  /\ IsSeq(s \o u)
           /\ Len(s \o u) = Len(s) + Len(u)
           /\ \A i \in 1 .. Len(s) : (s \o u)[i] = s[i]
           /\ \A i \in 1 .. Len(u) : (s \o u)[Len(s) + i] = u[i]
<1> DEFINE S == Range(s) \cup Range(u)
<1>1. s \in Seq(S) /\ u \in Seq(S)
    <2>1. Range(s) \subseteq S /\ Range(u) \subseteq S
        OBVIOUS
    <2> HIDE DEF S
    <2> QED
        BY <2>1, SeqMonotonic DEF IsSeq
<1> HIDE DEF S
<1>2. Len(s) \in Nat /\ Len(u) \in Nat
    BY SeqShape
<1>3. /\ s \o u \in Seq(S)
      /\ Len(s \o u) = Len(s) + Len(u)
      /\ \A i \in 1 .. Len(s) + Len(u) :
            (s \o u)[i] = IF i <= Len(s) THEN s[i] ELSE u[i - Len(s)]
    BY <1>1, ConcatProperties
<1>4. ASSUME NEW i \in 1 .. Len(s) PROVE (s \o u)[i] = s[i]
    BY <1>2, <1>3
<1>5. ASSUME NEW i \in 1 .. Len(u) PROVE (s \o u)[Len(s) + i] = u[i]
    <2>1. PICK j : j = Len(s) + i
        OBVIOUS
    <2>2. j \in 1 .. Len(s) + Len(u) /\ ~(j <= Len(s)) /\ j - Len(s) = i
        BY <1>2, <2>1
    <2> QED
        BY <1>3, <2>1, <2>2
<1> QED
    BY <1>3, <1>4, <1>5, IsSeqIn

LEMMA OneMore ==
    ASSUME NEW s, NEW e, IsSeq(s)
    PROVE  /\ IsSeq(Append(s, e))
           /\ Len(Append(s, e)) = Len(s) + 1
           /\ \A i \in 1 .. Len(s) : Append(s, e)[i] = s[i]
           /\ Append(s, e)[Len(s) + 1] = e
<1> DEFINE S == Range(s) \cup {e}
<1>1. s \in Seq(S) /\ e \in S
    <2>1. Range(s) \subseteq S /\ e \in S
        OBVIOUS
    <2> HIDE DEF S
    <2> QED
        BY <2>1, SeqMonotonic DEF IsSeq
<1> HIDE DEF S
<1>2. /\ Append(s, e) \in Seq(S)
      /\ Len(Append(s, e)) = Len(s) + 1
      /\ \A i \in 1 .. Len(s) : Append(s, e)[i] = s[i]
      /\ Append(s, e)[Len(s) + 1] = e
    BY <1>1, AppendProperties
<1> QED
    BY <1>2, IsSeqIn

LEMMA EmptyIsSeq == IsSeq(<<>>) /\ Len(<<>>) = 0
<1>1. <<>> = [i \in 1 .. 0 |-> <<>>[i]]
    OBVIOUS
<1> QED
    BY <1>1, FunctionIsSeq

LEMMA SubSeqFromOne ==
    ASSUME NEW S, NEW s \in Seq(S), NEW n \in 1 .. Len(s)
    PROVE  /\ SubSeq(s, 1, n) \in Seq(S) /\ Len(SubSeq(s, 1, n)) = n
           /\ \A i \in 1 .. n : SubSeq(s, 1, n)[i] = s[i]
<1>1. Len(s) \in Nat /\ \A i \in 1 .. n : s[i] \in S
    BY LenProperties, ElementOfSeq
<1>2. SubSeq(s, 1, n) = [i \in 1 .. n |-> s[i]]
    BY <1>1
<1>3. [i \in 1 .. n |-> s[i]] \in [1 .. n -> S]
    BY <1>1
<1> QED
    BY <1>1, <1>2, <1>3, SeqDef

\* The first k elements of s, and one more.
First(s, k) == [i \in 1 .. k |-> s[i]]

LEMMA NextOfFirst ==
    ASSUME NEW s, NEW k \in Nat
    PROVE  Append(First(s, k), s[k + 1]) = First(s, k + 1)
<1>1. IsSeq(First(s, k)) /\ Len(First(s, k)) = k
    BY FunctionIsSeq DEF First
<1>2. IsSeq(First(s, k + 1)) /\ Len(First(s, k + 1)) = k + 1
    BY FunctionIsSeq DEF First
<1>3. \A i \in 1 .. k + 1 : First(s, k + 1)[i] = s[i]
    BY DEF First
<1>4. \A i \in 1 .. k : First(s, k)[i] = s[i]
    BY DEF First
<1>5. \A i \in 1 .. k + 1 : i \in 1 .. k \/ i = k + 1
    OBVIOUS
<1> DEFINE A == Append(First(s, k), s[k + 1])
<1>6. /\ IsSeq(A) /\ Len(A) = k + 1 /\ A[k + 1] = s[k + 1]
      /\ \A i \in 1 .. k : A[i] = First(s, k)[i]
    BY <1>1, OneMore
<1> HIDE DEF A
<1>7. \A i \in 1 .. Len(A) : A[i] = First(s, k + 1)[i]
    BY <1>3, <1>4, <1>5, <1>6
<1>8. A = First(s, k + 1)
    BY <1>2, <1>6, <1>7, SameSeq
<1> QED
    BY <1>8 DEF A

-----------------------------------------------------------------------------
\* A length read back is written as the network wrote it.
LEMMA LengthsKept ==
    ASSUME NEW n \in Nat
    PROVE  ReadFrom(CompactSize(n)) = [value |-> n, buf |-> CompactSize(n)]
<1>1. CASE n < 253
    BY <1>1 DEF ReadFrom, CompactSize, FromU8
<1>2. CASE n >= 253 /\ n < 65536
    BY <1>2 DEF ReadFrom, CompactSize, FromU16
<1>3. CASE n >= 65536
    BY <1>3 DEF ReadFrom, CompactSize, FromU32
<1> QED
    BY <1>1, <1>2, <1>3

\* A set of natural numbers that is not empty has a least one.
LEMMA LeastNat ==
    ASSUME NEW T \in SUBSET Nat, T # {}
    PROVE  \E x \in T : \A y \in T : x <= y
<1> DEFINE R == {ss \in Nat \X Nat : ss[1] < ss[2]}
<1>1. IsWellFoundedOn(R, Nat)
    BY NatLessThanWellFounded DEF OpToRel
<1>2. \A x, y \in Nat : x < y => <<x, y>> \in R
    OBVIOUS
<1> HIDE DEF R
<1>3. PICK x \in T : \A y \in T : ~(<<y, x>> \in R)
    BY <1>1, WFMin
<1>4. \A y \in T : y \in Nat /\ x \in Nat /\ ~(y < x)
    BY <1>2, <1>3
<1> QED
    BY <1>3, <1>4

\* The recursion of FlattenSeq, for the first n elements of s.
Flattens(f, s, n) == f = [i \in 1 .. n |-> IF i = 1 THEN s[i] ELSE f[i - 1] \o s[i]]

LEMMA FlattenedUpTo == \A s : \A n \in Nat : \E f : Flattens(f, s, n)
<1> TAKE s
<1> DEFINE T == {n \in Nat : ~ \E f : Flattens(f, s, n)}
<1>1. SUFFICES ASSUME T # {} PROVE FALSE
    OBVIOUS
<1>2. PICK n \in T : \A m \in T : n <= m
    BY <1>1, LeastNat
<1>3. CASE n = 0
    <2>1. PICK f : f = [i \in 1 .. 0 |-> i]
        OBVIOUS
    <2>2. f = [i \in 1 .. 0 |-> IF i = 1 THEN s[i] ELSE f[i - 1] \o s[i]]
        BY <2>1
    <2> QED
        BY <1>2, <1>3, <2>2 DEF Flattens
<1>4. CASE n # 0
    <2>1. n - 1 \in Nat /\ n - 1 \notin T
        BY <1>2, <1>4
    <2>2. PICK f : Flattens(f, s, n - 1)
        BY <2>1
    <2>3. PICK g : g = [i \in 1 .. n |-> IF i = 1 THEN s[i] ELSE f[i - 1] \o s[i]]
        OBVIOUS
    <2>4. ASSUME NEW i \in 1 .. n, i # 1 PROVE g[i - 1] = f[i - 1]
        <3>1. PICK j : j = i - 1
            OBVIOUS
        <3>2. j \in 1 .. n - 1 /\ j \in 1 .. n
            BY <1>2, <2>4, <3>1
        <3>3. f[j] = IF j = 1 THEN s[j] ELSE f[j - 1] \o s[j]
            BY <2>2, <3>2 DEF Flattens
        <3> QED
            BY <2>3, <3>1, <3>2, <3>3
    <2>5. g = [i \in 1 .. n |-> IF i = 1 THEN s[i] ELSE g[i - 1] \o s[i]]
        BY <2>3, <2>4
    <2> QED
        BY <1>2, <2>5 DEF Flattens
<1> QED
    BY <1>3, <1>4

\* Where the elements of s begin in f: f is their concatenation.
PlacedIn(f, s, off) ==
    /\ off[1] = 0 /\ off[Len(s) + 1] = Len(f)
    /\ \A k \in 1 .. Len(s) :
          /\ off[k] \in Nat
          /\ off[k + 1] = off[k] + Len(s[k])
          /\ \A i \in 1 .. Len(s[k]) : off[k] + i \in 1 .. Len(f) /\ f[off[k] + i] = s[k][i]
Places(s) == CHOOSE off : PlacedIn(FlattenSeq(s), s, off)

LEMMA FlattenedPlaces ==
    ASSUME NEW s, IsSeq(s), Len(s) > 0, \A k \in DOMAIN s : IsSeq(s[k]),
           NEW f, Flattens(f, s, Len(s))
    PROVE  /\ IsSeq(f[Len(s)])
           /\ \E off : PlacedIn(f[Len(s)], s, off)
<1> DEFINE N == Len(s)
<1>1. N \in Nat /\ N > 0 /\ \A k \in 1 .. N : IsSeq(s[k]) /\ Len(s[k]) \in Nat
    BY SeqShape
<1>2. \A i \in 1 .. N : f[i] = IF i = 1 THEN s[i] ELSE f[i - 1] \o s[i]
    BY DEF Flattens
<1>3. PICK off : off = [k \in 1 .. N + 1 |-> IF k = 1 THEN 0 ELSE Len(f[k - 1])]
    OBVIOUS
<1> HIDE DEF N
<1>4. off[1] = 0 /\ \A n \in 1 .. N : off[n + 1] = Len(f[n])
    <2>1. off[1] = 0
        BY <1>1, <1>3
    <2>2. ASSUME NEW n \in 1 .. N PROVE off[n + 1] = Len(f[n])
        <3>1. PICK k : k = n + 1
            OBVIOUS
        <3>2. k \in 1 .. N + 1 /\ k # 1 /\ k - 1 = n
            BY <1>1, <3>1
        <3> QED
            BY <1>3, <3>1, <3>2
    <2> QED
        BY <2>1, <2>2
<1> DEFINE Good(n) ==
              /\ IsSeq(f[n]) /\ off[n] \in Nat
              /\ off[n + 1] = off[n] + Len(s[n])
              /\ \A k \in 1 .. n : \A i \in 1 .. Len(s[k]) :
                    off[k] + i \in 1 .. Len(f[n]) /\ f[n][off[k] + i] = s[k][i]
           T == {n \in Nat : n \in 1 .. N /\ ~Good(n)}
<1>5. \A n \in 1 .. N : Good(n)
    <2> HIDE DEF Good
    <2>1. SUFFICES ASSUME T # {} PROVE FALSE
        BY <1>1
    <2> USE DEF Good
    <2>2. PICK n \in T : \A m \in T : n <= m
        BY <2>1, LeastNat
    <2>3. n \in 1 .. N /\ ~Good(n)
        BY <2>2
    <2>4. CASE n = 1
        <3>1. f[1] = s[1] /\ off[2] = Len(s[1]) /\ IsSeq(s[1]) /\ Len(s[1]) \in Nat
            <4>1. 1 \in 1 .. N /\ 1 + 1 = 2
                BY <1>1
            <4> QED
                BY <1>1, <1>2, <1>4, <4>1
        <3>2. \A k \in 1 .. 1 : k = 1
            OBVIOUS
        <3>3. \A i \in 1 .. Len(s[1]) : off[1] + i = i
            BY <1>4, <3>1
        <3>4. Good(1)
            <4>1. /\ IsSeq(f[1]) /\ off[1] \in Nat
                  /\ off[1 + 1] = off[1] + Len(s[1])
                BY <1>4, <3>1
            <4>2. \A i \in 1 .. Len(s[1]) :
                     off[1] + i \in 1 .. Len(f[1]) /\ f[1][off[1] + i] = s[1][i]
                BY <3>1, <3>3
            <4> QED
                BY <3>2, <4>1, <4>2
        <3> QED
            BY <2>3, <2>4, <3>4
    <2>5. CASE n # 1
        <3>1. PICK m : m = n - 1
            OBVIOUS
        <3>2. m \in Nat /\ m \in 1 .. N /\ n = m + 1 /\ ~(n <= m) /\ n \in Nat
            BY <1>1, <2>3, <2>5, <3>1
        <3>3. m \notin T
            BY <2>2, <3>2
        <3>4. Good(m)
            BY <3>2, <3>3
        <3>5. f[n] = f[m] \o s[n] /\ IsSeq(s[n]) /\ IsSeq(f[m])
            BY <1>1, <1>2, <2>3, <2>5, <3>1, <3>4
        <3>6. off[n] = Len(f[m]) /\ Len(f[m]) \in Nat /\ Len(s[n]) \in Nat
            BY <1>1, <1>4, <2>3, <3>2, <3>5, SeqShape
        <3>7. /\ IsSeq(f[n]) /\ Len(f[n]) = Len(f[m]) + Len(s[n])
              /\ \A i \in 1 .. Len(f[m]) : f[n][i] = f[m][i]
              /\ \A i \in 1 .. Len(s[n]) : f[n][Len(f[m]) + i] = s[n][i]
            <4>1. PICK u : u = s[n]
                OBVIOUS
            <4>2. PICK g : g = f[m]
                OBVIOUS
            <4>3. IsSeq(u) /\ IsSeq(g) /\ f[n] = g \o u
                BY <3>5, <4>1, <4>2
            <4>4. /\ IsSeq(g \o u) /\ Len(g \o u) = Len(g) + Len(u)
                  /\ \A i \in 1 .. Len(g) : (g \o u)[i] = g[i]
                  /\ \A i \in 1 .. Len(u) : (g \o u)[Len(g) + i] = u[i]
                BY <4>3, Joined
            <4> HIDE DEF Good, T
            <4> QED
                BY <4>1, <4>2, <4>3, <4>4
        <3>8. off[n + 1] = off[n] + Len(s[n])
            BY <1>4, <2>3, <3>6, <3>7
        <3>9. ASSUME NEW k \in 1 .. n, NEW i \in 1 .. Len(s[k])
              PROVE  off[k] + i \in 1 .. Len(f[n]) /\ f[n][off[k] + i] = s[k][i]
            <4>1. CASE k = n
                <5> HIDE DEF Good, T
                <5>1. off[k] + i \in 1 .. Len(f[n])
                    <6>1. PICK a, c : a = Len(f[m]) /\ c = Len(s[n])
                        OBVIOUS
                    <6>2. i \in 1 .. c /\ a \in Nat /\ c \in Nat
                        BY <3>6, <4>1, <6>1
                    <6>3. a + i \in 1 .. a + c
                        BY <6>2
                    <6> QED
                        BY <3>6, <3>7, <4>1, <6>1, <6>3
                <5> QED
                    BY <3>6, <3>7, <4>1, <5>1
            <4>2. CASE k # n
                <5>1. k \in 1 .. m
                    BY <3>2, <4>2
                <5>2. PICK j : j = off[k] + i
                    OBVIOUS
                <5>3. j \in 1 .. Len(f[m]) /\ f[m][j] = s[k][i]
                    BY <3>4, <5>1, <5>2
                <5>4. j \in 1 .. Len(f[n])
                    <6>1. PICK a, c : a = Len(f[m]) /\ c = Len(s[n])
                        OBVIOUS
                    <6>2. j \in 1 .. a /\ a \in Nat /\ c \in Nat
                        BY <3>6, <5>3, <6>1
                    <6>3. j \in 1 .. a + c
                        BY <6>2
                    <6> QED
                        BY <3>7, <6>1, <6>3
                <5> QED
                    BY <3>7, <5>2, <5>3, <5>4
            <4> QED
                BY <4>1, <4>2
        <3>10. Good(n)
            BY <3>6, <3>7, <3>8, <3>9
        <3> QED
            BY <2>3, <3>10
    <2> QED
        BY <2>4, <2>5
<1>6. N \in 1 .. N /\ \A k \in 1 .. N : k \in 1 .. N
    BY <1>1
<1>7. IsSeq(f[N]) /\ off[N + 1] = Len(f[N])
    BY <1>4, <1>5, <1>6
<1>8. \A k \in 1 .. N : off[k] \in Nat /\ off[k + 1] = off[k] + Len(s[k])
    BY <1>5
<1>9. \A k \in 1 .. N : \A i \in 1 .. Len(s[k]) :
         off[k] + i \in 1 .. Len(f[N]) /\ f[N][off[k] + i] = s[k][i]
    BY <1>5, <1>6
<1>10. PlacedIn(f[N], s, off)
    BY <1>4, <1>7, <1>8, <1>9 DEF PlacedIn, N
<1> QED
    BY <1>7, <1>10 DEF N

\* FlattenSeq is the concatenation of the elements.
LEMMA Flattened ==
    ASSUME NEW s, IsSeq(s), \A k \in DOMAIN s : IsSeq(s[k])
    PROVE  IsSeq(FlattenSeq(s)) /\ PlacedIn(FlattenSeq(s), s, Places(s))
<1>1. SUFFICES /\ IsSeq(FlattenSeq(s))
               /\ \E off : PlacedIn(FlattenSeq(s), s, off)
    BY DEF Places
<1>2. CASE Len(s) = 0
    <2>1. FlattenSeq(s) = s
        BY <1>2 DEF FlattenSeq
    <2>2. PICK off : off = [k \in 1 .. 1 |-> 0]
        OBVIOUS
    <2>3. off[1] = 0 /\ 0 + 1 = 1 /\ ~ \E k \in 1 .. 0 : TRUE
        BY <2>2
    <2>4. PlacedIn(s, s, off)
        BY <1>2, <2>3 DEF PlacedIn
    <2> QED
        BY <2>1, <2>4
<1>3. CASE Len(s) # 0
    <2>1. Len(s) \in Nat /\ Len(s) > 0
        BY <1>3, SeqShape
    <2>2. PICK f : f = (CHOOSE g : g = [i \in 1 .. Len(s) |-> IF i = 1 THEN s[i] ELSE g[i - 1] \o s[i]])
        OBVIOUS
    <2>3. \E g : g = [i \in 1 .. Len(s) |-> IF i = 1 THEN s[i] ELSE g[i - 1] \o s[i]]
        BY <2>1, FlattenedUpTo, Zenon DEF Flattens
    <2>4. Flattens(f, s, Len(s))
        BY <2>2, <2>3, Zenon DEF Flattens
    <2>5. FlattenSeq(s) = f[Len(s)]
        BY <1>3, <2>2, Zenon DEF FlattenSeq
    <2> QED
        BY <2>1, <2>4, <2>5, FlattenedPlaces
<1> QED
    BY <1>2, <1>3

-----------------------------------------------------------------------------
\* The sequence u is a part of s, behind its first o elements.
PartAt(s, o, u) ==
    /\ o \in Nat
    /\ \A i \in 1 .. Len(u) : o + i \in 1 .. Len(s) /\ s[o + i] = u[i]

LEMMA PartOfPart ==
    ASSUME NEW s, NEW u, NEW v, NEW o, NEW p, PartAt(s, o, u), PartAt(u, p, v)
    PROVE  PartAt(s, o + p, v)
<1>1. o \in Nat /\ p \in Nat
    BY DEF PartAt
<1>2. ASSUME NEW i \in 1 .. Len(v) PROVE o + p + i \in 1 .. Len(s) /\ s[o + p + i] = v[i]
    <2>1. PICK j : j = p + i
        OBVIOUS
    <2>2. j \in 1 .. Len(u) /\ u[j] = v[i]
        BY <2>1 DEF PartAt
    <2>3. o + j \in 1 .. Len(s) /\ s[o + j] = u[j]
        BY <2>2 DEF PartAt
    <2>4. i \in Int
        OBVIOUS
    <2>5. o + j = o + p + i
        BY <1>1, <2>1, <2>4
    <2> QED
        BY <2>2, <2>3, <2>5
<1> QED
    BY <1>1, <1>2 DEF PartAt

LEMMA Whole ==
    ASSUME NEW s, IsSeq(s)
    PROVE  PartAt(s, 0, s)
<1>1. \A i \in 1 .. Len(s) : 0 + i = i
    OBVIOUS
<1> QED
    BY <1>1 DEF PartAt

LEMMA PartAhead ==
    ASSUME NEW s, NEW u, NEW v, NEW o, IsSeq(s), IsSeq(u), PartAt(s, o, v)
    PROVE  PartAt(s \o u, o, v)
<1>1. /\ Len(s \o u) = Len(s) + Len(u)
      /\ \A i \in 1 .. Len(s) : (s \o u)[i] = s[i]
    BY Joined
<1>2. Len(s) \in Nat /\ Len(u) \in Nat /\ o \in Nat
    BY SeqShape DEF PartAt
<1>3. ASSUME NEW i \in 1 .. Len(v)
      PROVE  o + i \in 1 .. Len(s \o u) /\ (s \o u)[o + i] = v[i]
    <2>1. PICK j : j = o + i
        OBVIOUS
    <2>2. j \in 1 .. Len(s) /\ s[j] = v[i]
        BY <2>1 DEF PartAt
    <2>3. j \in 1 .. Len(s) + Len(u)
        BY <1>2, <2>2
    <2> QED
        BY <1>1, <2>1, <2>2, <2>3
<1> QED
    BY <1>2, <1>3 DEF PartAt

LEMMA PartBehind ==
    ASSUME NEW s, NEW u, IsSeq(s), IsSeq(u)
    PROVE  PartAt(s \o u, Len(s), u)
<1>1. /\ Len(s \o u) = Len(s) + Len(u)
      /\ \A i \in 1 .. Len(u) : (s \o u)[Len(s) + i] = u[i]
    BY Joined
<1>2. PICK a, c : a = Len(s) /\ c = Len(u)
    OBVIOUS
<1>3. a \in Nat /\ c \in Nat
    BY <1>2, SeqShape
<1>4. \A i \in 1 .. c : a + i \in 1 .. a + c
    BY <1>3
<1> QED
    BY <1>1, <1>2, <1>3, <1>4 DEF PartAt

LEMMA FlattenedPart ==
    ASSUME NEW f, NEW s, NEW off, NEW k \in 1 .. Len(s), PlacedIn(f, s, off)
    PROVE  PartAt(f, off[k], s[k])
BY DEF PlacedIn, PartAt

\* The elements of Strung, one behind the other.
LEMMA StrungParts ==
    ASSUME NEW n \in {2, 3, 5}, NEW e, IsSeq(e), \A k \in DOMAIN e : Len(e[k]) = n
    PROVE  /\ IsSeq(Strung(n, e)) /\ Len(Strung(n, e)) = n * Len(e)
           /\ \A k \in 1 .. Len(e) : PartAt(Strung(n, e), n * (k - 1), e[k])
<1>1. PICK m : m = Len(e)
    OBVIOUS
<1>2. m \in Nat /\ DOMAIN e = 1 .. m
    BY <1>1, SeqShape
<1>3. PICK s : s = [i \in 1 .. n * m |-> e[(i - 1) \div n + 1][((i - 1) % n) + 1]]
    OBVIOUS
<1>4. s = Strung(n, e)
    BY <1>1, <1>3 DEF Strung
<1>5. n * m \in Nat
    BY <1>2
<1>6. IsSeq(s) /\ Len(s) = n * m
    <2>1. s = [i \in 1 .. n * m |-> s[i]]
        BY <1>3
    <2> QED
        BY <1>5, <2>1, FunctionIsSeq
<1>7. ASSUME NEW k \in 1 .. m PROVE PartAt(s, n * (k - 1), e[k])
    <2>1. n * (k - 1) \in Nat
        BY <1>2
    <2>2. Len(e[k]) = n
        BY <1>2
    <2>3. ASSUME NEW i \in 1 .. n
          PROVE  n * (k - 1) + i \in 1 .. Len(s) /\ s[n * (k - 1) + i] = e[k][i]
        <3>1. PICK j : j = n * (k - 1) + i
            OBVIOUS
        <3>2. j \in 1 .. n * m /\ (j - 1) \div n = k - 1 /\ (j - 1) % n = i - 1
            <4>1. CASE n = 2
                BY <1>2, <3>1, <4>1
            <4>2. CASE n = 3
                BY <1>2, <3>1, <4>2
            <4>3. CASE n = 5
                BY <1>2, <3>1, <4>3
            <4> QED
                BY <4>1, <4>2, <4>3
        <3>3. s[j] = e[k - 1 + 1][i - 1 + 1]
            <4>1. s[j] = e[(j - 1) \div n + 1][((j - 1) % n) + 1]
                BY <1>3, <3>2, Zenon
            <4> QED
                BY <3>2, <4>1, Zenon
        <3>4. k - 1 + 1 = k /\ i - 1 + 1 = i
            OBVIOUS
        <3> QED
            BY <1>6, <3>1, <3>2, <3>3, <3>4
    <2> QED
        BY <2>1, <2>2, <2>3 DEF PartAt
<1> QED
    BY <1>1, <1>4, <1>6, <1>7

-----------------------------------------------------------------------------
\* What the node writes, part by part.
Segwit(t) == \E k \in DOMAIN t.ins : t.ins[k].witness # <<>>
VersionField(t) == <<Field("u32", t.version)>>
CountField(s) == <<Field("varuint", CompactSize(Len(s)))>>
MarkerFields(t) == IF Segwit(t) THEN <<Field("varuint", CompactSize(0)), Field("u8", 1)>> ELSE <<>>
BytesFields(s) == <<Field("varuint", CompactSize(s.len)), Field("bytes", s)>>
InFields(i) ==
    <<Field("hash", i.txid), Field("u32", i.vout), Field("varuint", CompactSize(i.script.len)),
      Field("bytes", i.script), Field("u32", i.sequence)>>
OutFields(o) ==
    <<Field("u64", o.value), Field("varuint", CompactSize(o.script.len)), Field("bytes", o.script)>>
ItemFields(w) == CountField(w) \o Strung(2, [j \in DOMAIN w |-> BytesFields(w[j])])
Ins(t) == [k \in DOMAIN t.ins |-> InFields(t.ins[k])]
Outs(t) == [k \in DOMAIN t.outs |-> OutFields(t.outs[k])]
Wits(t) == [k \in DOMAIN t.ins |-> ItemFields(t.ins[k].witness)]
WitFields(t) == IF Segwit(t) THEN FlattenSeq(Wits(t)) ELSE <<>>
LockField(t) == <<Field("u32", t.lock_time)>>

LEMMA WrittenIs ==
    ASSUME NEW t
    PROVE  Written(t) =
              VersionField(t) \o MarkerFields(t) \o CountField(t.ins) \o Strung(5, Ins(t))
              \o CountField(t.outs) \o Strung(3, Outs(t)) \o WitFields(t) \o LockField(t)
<1>1. ASSUME NEW i
      PROVE  InFields(i) = <<Field("hash", i.txid), Field("u32", i.vout)>>
                           \o <<Field("varuint", CompactSize(i.script.len)), Field("bytes", i.script)>>
                           \o <<Field("u32", i.sequence)>>
    BY DEF InFields
<1>2. ASSUME NEW o
      PROVE  OutFields(o) = <<Field("u64", o.value)>>
                \o <<Field("varuint", CompactSize(o.script.len)), Field("bytes", o.script)>>
    BY DEF OutFields
<1> QED
    BY <1>1, <1>2, Zenon DEF Written, Segwit, VersionField, CountField, MarkerFields, BytesFields,
       ItemFields, Ins, Outs, Wits, WitFields, LockField

\* Where each part begins, behind how many fields.
HeadLen(t) == IF Segwit(t) THEN 4 ELSE 2
OutsAt(t) == HeadLen(t) + 5 * Len(t.ins) + 1
WitsAt(t) == OutsAt(t) + 3 * Len(t.outs)
LockAt(t) == WitsAt(t) + Len(WitFields(t))

LEMMA ItemFieldsParts ==
    ASSUME NEW w, IsSeq(w)
    PROVE  /\ IsSeq(ItemFields(w)) /\ Len(ItemFields(w)) = 1 + 2 * Len(w)
           /\ PartAt(ItemFields(w), 0, CountField(w))
           /\ \A j \in 1 .. Len(w) : PartAt(ItemFields(w), 1 + 2 * (j - 1), BytesFields(w[j]))
<1> DEFINE e == [j \in DOMAIN w |-> BytesFields(w[j])]
<1>1. Len(w) \in Nat /\ DOMAIN w = 1 .. Len(w)
    BY SeqShape
<1>2. IsSeq(e) /\ Len(e) = Len(w)
    <2>1. e = [j \in 1 .. Len(w) |-> e[j]]
        BY <1>1
    <2> HIDE DEF e
    <2> QED
        BY <1>1, <2>1, FunctionIsSeq
<1>3. \A j \in DOMAIN e : Len(e[j]) = 2
    BY DEF BytesFields
<1>4. \A j \in 1 .. Len(w) : e[j] = BytesFields(w[j])
    BY <1>1
<1>5. IsSeq(CountField(w)) /\ Len(CountField(w)) = 1
    <2>1. CountField(w) = [i \in 1 .. 1 |-> CountField(w)[i]]
        BY DEF CountField
    <2> QED
        BY <2>1, FunctionIsSeq
<1>6. ItemFields(w) = CountField(w) \o Strung(2, e)
    BY DEF ItemFields
<1> HIDE DEF e
<1>7. /\ IsSeq(Strung(2, e)) /\ Len(Strung(2, e)) = 2 * Len(e)
      /\ \A j \in 1 .. Len(e) : PartAt(Strung(2, e), 2 * (j - 1), e[j])
    BY <1>2, <1>3, StrungParts
<1>8. PartAt(ItemFields(w), 1, Strung(2, e))
    BY <1>5, <1>6, <1>7, PartBehind
<1>9. PartAt(ItemFields(w), 0, CountField(w))
    BY <1>5, <1>6, <1>7, Whole, PartAhead
<1>10. \A j \in 1 .. Len(w) : PartAt(ItemFields(w), 1 + 2 * (j - 1), BytesFields(w[j]))
    BY <1>2, <1>4, <1>7, <1>8, PartOfPart
<1>11. IsSeq(ItemFields(w)) /\ Len(ItemFields(w)) = 1 + 2 * Len(w)
    <2>1. PICK c, u : c = CountField(w) /\ u = Strung(2, e)
        OBVIOUS
    <2>2. IsSeq(c \o u) /\ Len(c \o u) = Len(c) + Len(u)
        BY <1>5, <1>7, <2>1, Joined
    <2> QED
        BY <1>2, <1>5, <1>6, <1>7, <2>1, <2>2
<1> QED
    BY <1>9, <1>10, <1>11

\* A tuple of fields is a sequence.
LEMMA FieldsAreSeqs ==
    ASSUME NEW t
    PROVE  /\ IsSeq(VersionField(t)) /\ Len(VersionField(t)) = 1
           /\ IsSeq(MarkerFields(t)) /\ Len(MarkerFields(t)) = HeadLen(t) - 2
           /\ IsSeq(CountField(t)) /\ Len(CountField(t)) = 1
           /\ IsSeq(LockField(t)) /\ Len(LockField(t)) = 1
<1>1. ASSUME NEW x PROVE IsSeq(<<x>>) /\ Len(<<x>>) = 1
    <2>1. <<x>> = [i \in 1 .. 1 |-> <<x>>[i]]
        OBVIOUS
    <2> QED
        BY <2>1, FunctionIsSeq
<1>2. ASSUME NEW x, NEW y PROVE IsSeq(<<x, y>>) /\ Len(<<x, y>>) = 2
    <2>1. <<x, y>> = [i \in 1 .. 2 |-> <<x, y>>[i]]
        OBVIOUS
    <2> QED
        BY <2>1, FunctionIsSeq
<1>3. IsSeq(MarkerFields(t)) /\ Len(MarkerFields(t)) = HeadLen(t) - 2
    BY <1>2, EmptyIsSeq DEF MarkerFields, HeadLen
<1> QED
    BY <1>1, <1>3 DEF VersionField, CountField, LockField

\* One part more, behind the others.
LEMMA Extended ==
    ASSUME NEW s, NEW u, IsSeq(s), IsSeq(u)
    PROVE  /\ IsSeq(s \o u) /\ Len(s \o u) = Len(s) + Len(u)
           /\ PartAt(s \o u, Len(s), u)
           /\ \A o, v : PartAt(s, o, v) => PartAt(s \o u, o, v)
BY Joined, PartBehind, PartAhead

LEMMA SequencesOfInsAndOuts ==
    ASSUME NEW t, IsTransaction(t)
    PROVE  /\ IsSeq(Strung(5, Ins(t))) /\ Len(Strung(5, Ins(t))) = 5 * Len(t.ins)
           /\ \A k \in 1 .. Len(t.ins) : PartAt(Strung(5, Ins(t)), 5 * (k - 1), InFields(t.ins[k]))
           /\ IsSeq(Strung(3, Outs(t))) /\ Len(Strung(3, Outs(t))) = 3 * Len(t.outs)
           /\ \A k \in 1 .. Len(t.outs) : PartAt(Strung(3, Outs(t)), 3 * (k - 1), OutFields(t.outs[k]))
<1>1. /\ IsSeq(t.ins) /\ Len(t.ins) \in Nat /\ DOMAIN t.ins = 1 .. Len(t.ins)
      /\ IsSeq(t.outs) /\ Len(t.outs) \in Nat /\ DOMAIN t.outs = 1 .. Len(t.outs)
    BY SeqShape DEF IsTransaction
<1>2. /\ Ins(t) = [k \in 1 .. Len(t.ins) |-> Ins(t)[k]]
      /\ Outs(t) = [k \in 1 .. Len(t.outs) |-> Outs(t)[k]]
      /\ \A k \in 1 .. Len(t.ins) : Ins(t)[k] = InFields(t.ins[k])
      /\ \A k \in 1 .. Len(t.outs) : Outs(t)[k] = OutFields(t.outs[k])
    BY <1>1 DEF Ins, Outs
<1>3. /\ IsSeq(Ins(t)) /\ Len(Ins(t)) = Len(t.ins) /\ DOMAIN Ins(t) = 1 .. Len(t.ins)
      /\ IsSeq(Outs(t)) /\ Len(Outs(t)) = Len(t.outs) /\ DOMAIN Outs(t) = 1 .. Len(t.outs)
    BY <1>1, <1>2, FunctionIsSeq
<1>4. /\ \A k \in DOMAIN Ins(t) : Len(Ins(t)[k]) = 5
      /\ \A k \in DOMAIN Outs(t) : Len(Outs(t)[k]) = 3
    <2>1. (\A i : Len(InFields(i)) = 5) /\ \A o : Len(OutFields(o)) = 3
        BY DEF InFields, OutFields
    <2> QED
        BY <1>2, <1>3, <2>1
<1>5. /\ IsSeq(Strung(5, Ins(t))) /\ Len(Strung(5, Ins(t))) = 5 * Len(Ins(t))
      /\ \A k \in 1 .. Len(Ins(t)) : PartAt(Strung(5, Ins(t)), 5 * (k - 1), Ins(t)[k])
    BY <1>3, <1>4, StrungParts
<1>6. /\ IsSeq(Strung(3, Outs(t))) /\ Len(Strung(3, Outs(t))) = 3 * Len(Outs(t))
      /\ \A k \in 1 .. Len(Outs(t)) : PartAt(Strung(3, Outs(t)), 3 * (k - 1), Outs(t)[k])
    BY <1>3, <1>4, StrungParts
<1> QED
    BY <1>2, <1>3, <1>5, <1>6

LEMMA SequencesOfWits ==
    ASSUME NEW t, IsTransaction(t)
    PROVE  /\ IsSeq(FlattenSeq(Wits(t)))
           /\ PlacedIn(FlattenSeq(Wits(t)), Wits(t), Places(Wits(t)))
           /\ Len(Wits(t)) = Len(t.ins)
           /\ \A k \in 1 .. Len(t.ins) : Wits(t)[k] = ItemFields(t.ins[k].witness)
<1>1. /\ Len(t.ins) \in Nat /\ DOMAIN t.ins = 1 .. Len(t.ins)
      /\ \A k \in 1 .. Len(t.ins) : IsSeq(t.ins[k].witness)
    BY SeqShape DEF IsTransaction, IsInput
<1>2. /\ Wits(t) = [k \in 1 .. Len(t.ins) |-> Wits(t)[k]]
      /\ \A k \in 1 .. Len(t.ins) : Wits(t)[k] = ItemFields(t.ins[k].witness)
    BY <1>1 DEF Wits
<1>3. IsSeq(Wits(t)) /\ Len(Wits(t)) = Len(t.ins) /\ DOMAIN Wits(t) = 1 .. Len(t.ins)
    BY <1>1, <1>2, FunctionIsSeq
<1>4. \A k \in DOMAIN Wits(t) : IsSeq(Wits(t)[k])
    BY <1>1, <1>2, <1>3, ItemFieldsParts
<1> QED
    BY <1>2, <1>3, <1>4, Flattened

LEMMA WrittenParts ==
    ASSUME NEW t, IsTransaction(t)
    PROVE  /\ IsSeq(Written(t)) /\ Len(Written(t)) = LockAt(t) + 1
           /\ PartAt(Written(t), 0, VersionField(t))
           /\ PartAt(Written(t), 1, MarkerFields(t))
           /\ PartAt(Written(t), HeadLen(t) - 1, CountField(t.ins))
           /\ PartAt(Written(t), HeadLen(t), Strung(5, Ins(t)))
           /\ PartAt(Written(t), OutsAt(t) - 1, CountField(t.outs))
           /\ PartAt(Written(t), OutsAt(t), Strung(3, Outs(t)))
           /\ PartAt(Written(t), WitsAt(t), WitFields(t))
           /\ PartAt(Written(t), LockAt(t), LockField(t))
<1>1. PICK a1, a2, a3, a4, a5, a6, a7, a8 :
         /\ a1 = VersionField(t)
         /\ a2 = MarkerFields(t)
         /\ a3 = CountField(t.ins)
         /\ a4 = Strung(5, Ins(t))
         /\ a5 = CountField(t.outs)
         /\ a6 = Strung(3, Outs(t))
         /\ a7 = WitFields(t)
         /\ a8 = LockField(t)
    OBVIOUS
<1>2. PICK b, c, d, h : b = 5 * Len(t.ins) /\ c = 3 * Len(t.outs) /\ d = Len(a7) /\ h = HeadLen(t)
    OBVIOUS
<1>3. b \in Nat /\ c \in Nat /\ d \in Nat /\ h \in {2, 4} /\ IsSeq(a7)
    <2>1. Len(t.ins) \in Nat /\ Len(t.outs) \in Nat
        BY SeqShape DEF IsTransaction
    <2>2. IsSeq(a7)
        BY <1>1, SequencesOfWits, FieldsAreSeqs, EmptyIsSeq DEF WitFields
    <2>3. HeadLen(t) \in {2, 4}
        BY DEF HeadLen
    <2> QED
        BY <1>2, <2>1, <2>2, <2>3, SeqShape
<1>4. /\ IsSeq(a1) /\ Len(a1) = 1
      /\ IsSeq(a2) /\ Len(a2) = h - 2
      /\ IsSeq(a3) /\ Len(a3) = 1
      /\ IsSeq(a4) /\ Len(a4) = b
      /\ IsSeq(a5) /\ Len(a5) = 1
      /\ IsSeq(a6) /\ Len(a6) = c
      /\ IsSeq(a8) /\ Len(a8) = 1
    BY <1>1, <1>2, FieldsAreSeqs, SequencesOfInsAndOuts
<1>5. Written(t) = a1 \o a2 \o a3 \o a4 \o a5 \o a6 \o a7 \o a8
    BY <1>1, WrittenIs
<1>6. PICK s2 : s2 = a1 \o a2
    OBVIOUS
<1>7. /\ IsSeq(s2) /\ Len(s2) = h - 1
      /\ PartAt(s2, 0, a1)
      /\ PartAt(s2, 1, a2)
    <2>1. /\ IsSeq(s2) /\ Len(s2) = Len(a1) + Len(a2) /\ PartAt(s2, Len(a1), a2)
          /\ PartAt(a1, 0, a1) => PartAt(s2, 0, a1)
        BY <1>4, <1>6, Extended
    <2>2. 1 + (h - 2) = h - 1
        BY <1>3
    <2> QED
        BY <1>4, <2>1, <2>2, Whole
<1>8. PICK s3 : s3 = s2 \o a3
    OBVIOUS
<1>9. /\ IsSeq(s3) /\ Len(s3) = h
      /\ PartAt(s3, 0, a1)
      /\ PartAt(s3, 1, a2)
      /\ PartAt(s3, h - 1, a3)
    BY <1>3, <1>4, <1>7, <1>8, Extended
<1>10. PICK s4 : s4 = s3 \o a4
    OBVIOUS
<1>11. /\ IsSeq(s4) /\ Len(s4) = h + b
      /\ PartAt(s4, 0, a1)
      /\ PartAt(s4, 1, a2)
      /\ PartAt(s4, h - 1, a3)
      /\ PartAt(s4, h, a4)
    BY <1>3, <1>4, <1>9, <1>10, Extended
<1>12. PICK s5 : s5 = s4 \o a5
    OBVIOUS
<1>13. /\ IsSeq(s5) /\ Len(s5) = h + b + 1
      /\ PartAt(s5, 0, a1)
      /\ PartAt(s5, 1, a2)
      /\ PartAt(s5, h - 1, a3)
      /\ PartAt(s5, h, a4)
      /\ PartAt(s5, h + b, a5)
    BY <1>3, <1>4, <1>11, <1>12, Extended
<1>14. PICK s6 : s6 = s5 \o a6
    OBVIOUS
<1>15. /\ IsSeq(s6) /\ Len(s6) = h + b + 1 + c
      /\ PartAt(s6, 0, a1)
      /\ PartAt(s6, 1, a2)
      /\ PartAt(s6, h - 1, a3)
      /\ PartAt(s6, h, a4)
      /\ PartAt(s6, h + b, a5)
      /\ PartAt(s6, h + b + 1, a6)
    BY <1>3, <1>4, <1>13, <1>14, Extended
<1>16. PICK s7 : s7 = s6 \o a7
    OBVIOUS
<1>17. /\ IsSeq(s7) /\ Len(s7) = h + b + 1 + c + d
      /\ PartAt(s7, 0, a1)
      /\ PartAt(s7, 1, a2)
      /\ PartAt(s7, h - 1, a3)
      /\ PartAt(s7, h, a4)
      /\ PartAt(s7, h + b, a5)
      /\ PartAt(s7, h + b + 1, a6)
      /\ PartAt(s7, h + b + 1 + c, a7)
    <2>1. /\ IsSeq(s7) /\ Len(s7) = Len(s6) + Len(a7) /\ PartAt(s7, Len(s6), a7)
          /\ \A o, v : PartAt(s6, o, v) => PartAt(s7, o, v)
        BY <1>3, <1>15, <1>16, Extended
    <2> QED
        BY <1>2, <1>15, <2>1
<1>18. PICK s8 : s8 = s7 \o a8
    OBVIOUS
<1>19. /\ IsSeq(s8) /\ Len(s8) = h + b + 1 + c + d + 1
      /\ PartAt(s8, 0, a1)
      /\ PartAt(s8, 1, a2)
      /\ PartAt(s8, h - 1, a3)
      /\ PartAt(s8, h, a4)
      /\ PartAt(s8, h + b, a5)
      /\ PartAt(s8, h + b + 1, a6)
      /\ PartAt(s8, h + b + 1 + c, a7)
      /\ PartAt(s8, h + b + 1 + c + d, a8)
    BY <1>3, <1>4, <1>17, <1>18, Extended
<1>20. Written(t) = s8
    BY <1>5, <1>6, <1>8, <1>10, <1>12, <1>14, <1>16, <1>18
<1>21. /\ OutsAt(t) = h + b + 1 /\ OutsAt(t) - 1 = h + b
       /\ WitsAt(t) = h + b + 1 + c /\ LockAt(t) = h + b + 1 + c + d
    <2>1. OutsAt(t) = h + b + 1
        BY <1>2 DEF OutsAt
    <2>2. WitsAt(t) = h + b + 1 + c
        BY <1>2, <2>1 DEF WitsAt
    <2>3. LockAt(t) = h + b + 1 + c + d
        BY <1>1, <1>2, <2>2 DEF LockAt
    <2> QED
        BY <1>3, <2>1, <2>2, <2>3
<1> QED
    BY <1>1, <1>2, <1>19, <1>20, <1>21

\* Where the items of input k's witness begin.
WitAt(t, k) == WitsAt(t) + Places(Wits(t))[k]

\* Where the fields of a transaction are.
LEMMA FieldsOfTx ==
    ASSUME NEW t, IsTransaction(t)
    PROVE  /\ \A k \in 1 .. Len(t.ins) :
                 PartAt(Written(t), HeadLen(t) + 5 * (k - 1), InFields(t.ins[k]))
           /\ \A k \in 1 .. Len(t.outs) :
                 PartAt(Written(t), OutsAt(t) + 3 * (k - 1), OutFields(t.outs[k]))
BY WrittenParts, SequencesOfInsAndOuts, PartOfPart

LEMMA FieldsOfWits ==
    ASSUME NEW t, IsTransaction(t), Segwit(t)
    PROVE  /\ WitAt(t, 1) = WitsAt(t) /\ WitAt(t, Len(t.ins) + 1) = LockAt(t)
           /\ \A k \in 1 .. Len(t.ins) :
                 /\ WitAt(t, k + 1) = WitAt(t, k) + (1 + 2 * Len(t.ins[k].witness))
                 /\ PartAt(Written(t), WitAt(t, k), CountField(t.ins[k].witness))
                 /\ \A j \in 1 .. Len(t.ins[k].witness) :
                       PartAt(Written(t), WitAt(t, k) + (1 + 2 * (j - 1)),
                              BytesFields(t.ins[k].witness[j]))
<1>1. PICK s, f, off : s = Wits(t) /\ f = FlattenSeq(s) /\ off = Places(s)
    OBVIOUS
<1>2. PlacedIn(f, s, off) /\ Len(s) = Len(t.ins)
    BY <1>1, SequencesOfWits
<1>3. /\ off[1] = 0 /\ off[Len(t.ins) + 1] = Len(f)
      /\ \A k \in 1 .. Len(t.ins) : off[k] \in Nat /\ off[k + 1] = off[k] + Len(s[k])
    BY <1>2 DEF PlacedIn
<1>4. PartAt(Written(t), WitsAt(t), f) /\ WitFields(t) = f
    BY <1>1, WrittenParts DEF WitFields
<1>5. WitsAt(t) \in Nat
    BY <1>4 DEF PartAt
<1>6. WitAt(t, 1) = WitsAt(t) /\ WitAt(t, Len(t.ins) + 1) = LockAt(t)
    BY <1>1, <1>3, <1>4, <1>5 DEF WitAt, LockAt
<1>7. ASSUME NEW k \in 1 .. Len(t.ins)
      PROVE  /\ WitAt(t, k + 1) = WitAt(t, k) + (1 + 2 * Len(t.ins[k].witness))
             /\ PartAt(Written(t), WitAt(t, k), CountField(t.ins[k].witness))
             /\ \A j \in 1 .. Len(t.ins[k].witness) :
                   PartAt(Written(t), WitAt(t, k) + (1 + 2 * (j - 1)),
                          BytesFields(t.ins[k].witness[j]))
    <2>1. PICK w : w = t.ins[k].witness
        OBVIOUS
    <2>2. IsSeq(w) /\ s[k] = ItemFields(w)
        <3>1. k \in DOMAIN t.ins
            BY SeqShape DEF IsTransaction
        <3> QED
            BY <1>1, <2>1, <3>1, SequencesOfWits DEF IsTransaction, IsInput
    <2>3. /\ Len(s[k]) = 1 + 2 * Len(w) /\ Len(w) \in Nat
          /\ PartAt(s[k], 0, CountField(w))
          /\ \A j \in 1 .. Len(w) : PartAt(s[k], 1 + 2 * (j - 1), BytesFields(w[j]))
        BY <2>2, ItemFieldsParts, SeqShape
    <2>4. PartAt(f, off[k], s[k])
        BY <1>2, FlattenedPart
    <2>5. PICK o : o = WitAt(t, k)
        OBVIOUS
    <2>6. o = WitsAt(t) + off[k]
        BY <1>1, <2>5 DEF WitAt
    <2>7. PartAt(Written(t), o, s[k]) /\ o \in Nat
        BY <1>3, <1>4, <1>5, <2>4, <2>6, PartOfPart
    <2>8. o + 0 = o
        BY <2>7
    <2>9. PartAt(Written(t), o, CountField(w))
        BY <2>3, <2>7, <2>8, PartOfPart
    <2>10. \A j \in 1 .. Len(w) : PartAt(Written(t), o + (1 + 2 * (j - 1)), BytesFields(w[j]))
        BY <2>3, <2>7, PartOfPart
    <2>11. WitAt(t, k + 1) = WitsAt(t) + (off[k] + (1 + 2 * Len(w)))
        BY <1>1, <1>3, <2>3 DEF WitAt
    <2>12. WitAt(t, k + 1) = o + (1 + 2 * Len(w))
        <3>1. PICK x, y, z : x = WitsAt(t) /\ y = off[k] /\ z = 1 + 2 * Len(w)
            OBVIOUS
        <3>2. x \in Nat /\ y \in Nat /\ z \in Nat
            BY <1>3, <1>5, <2>3, <3>1
        <3>3. x + (y + z) = x + y + z
            BY <3>2
        <3> QED
            BY <2>6, <2>11, <3>1, <3>3
    <2> QED
        BY <2>1, <2>5, <2>9, <2>10, <2>12
<1> QED
    BY <1>6, <1>7

\* A block and where its transactions are.
HeaderFields(b) == <<Field("header", NetworkRoot(b)), Field("varuint", CompactSize(Len(b)))>>
Txs(b) == [k \in DOMAIN b |-> Written(b[k])]
TxAt(b, k) == 2 + Places(Txs(b))[k]

LEMMA BlockParts ==
    ASSUME NEW b \in Blocks
    PROVE  /\ IsSeq(WrittenBlock(b))
           /\ PartAt(WrittenBlock(b), 0, HeaderFields(b))
           /\ TxAt(b, 1) = 2 /\ TxAt(b, Len(b) + 1) = Len(WrittenBlock(b))
           /\ \A k \in 1 .. Len(b) :
                 /\ PartAt(WrittenBlock(b), TxAt(b, k), Written(b[k]))
                 /\ TxAt(b, k + 1) = TxAt(b, k) + (LockAt(b[k]) + 1)
<1>1. /\ IsSeq(b) /\ Len(b) \in Nat /\ DOMAIN b = 1 .. Len(b)
      /\ \A k \in 1 .. Len(b) : IsTransaction(b[k])
    BY BlocksAssumption, SeqShape
<1>2. PICK s, f, off, h : /\ s = Txs(b) /\ f = FlattenSeq(s) /\ off = Places(s)
                          /\ h = HeaderFields(b)
    OBVIOUS
<1>3. s = [k \in 1 .. Len(b) |-> s[k]] /\ \A k \in 1 .. Len(b) : s[k] = Written(b[k])
    BY <1>1, <1>2 DEF Txs
<1>4. IsSeq(s) /\ Len(s) = Len(b) /\ DOMAIN s = 1 .. Len(b)
    BY <1>1, <1>3, FunctionIsSeq
<1>5. \A k \in DOMAIN s : IsSeq(s[k]) /\ Len(s[k]) = LockAt(b[k]) + 1
    BY <1>1, <1>3, <1>4, WrittenParts
<1>6. IsSeq(f) /\ PlacedIn(f, s, off)
    BY <1>2, <1>4, <1>5, Flattened
<1>7. IsSeq(h) /\ Len(h) = 2
    <2>1. h = [i \in 1 .. 2 |-> h[i]]
        BY <1>2 DEF HeaderFields
    <2> QED
        BY <2>1, FunctionIsSeq
<1>8. WrittenBlock(b) = h \o f
    BY <1>2 DEF WrittenBlock, HeaderFields, Txs
<1>9. /\ IsSeq(h \o f) /\ Len(h \o f) = 2 + Len(f)
      /\ PartAt(h \o f, 2, f) /\ PartAt(h \o f, 0, h)
    BY <1>6, <1>7, Extended, Whole
<1>10. /\ off[1] = 0 /\ off[Len(b) + 1] = Len(f)
       /\ \A k \in 1 .. Len(b) : off[k] \in Nat /\ off[k + 1] = off[k] + Len(s[k])
    BY <1>4, <1>6 DEF PlacedIn
<1>11. \A k : TxAt(b, k) = 2 + off[k]
    BY <1>2 DEF TxAt
<1>12. ASSUME NEW k \in 1 .. Len(b)
       PROVE  /\ PartAt(h \o f, 2 + off[k], s[k])
              /\ 2 + off[k + 1] = 2 + off[k] + Len(s[k])
    <2>1. PartAt(f, off[k], s[k])
        BY <1>4, <1>6, FlattenedPart
    <2>2. Len(s[k]) \in Nat
        BY <1>4, <1>5, SeqShape
    <2> QED
        BY <1>9, <1>10, <2>1, <2>2, PartOfPart
<1>13. 2 + off[1] = 2
    BY <1>10
<1>14. IsSeq(WrittenBlock(b)) /\ PartAt(WrittenBlock(b), 0, HeaderFields(b))
    BY <1>2, <1>8, <1>9
<1>15. TxAt(b, 1) = 2 /\ TxAt(b, Len(b) + 1) = Len(WrittenBlock(b))
    BY <1>8, <1>9, <1>10, <1>11, <1>13
<1>16. ASSUME NEW k \in 1 .. Len(b)
       PROVE  /\ PartAt(WrittenBlock(b), TxAt(b, k), Written(b[k]))
              /\ TxAt(b, k + 1) = TxAt(b, k) + (LockAt(b[k]) + 1)
    <2>1. PartAt(h \o f, 2 + off[k], s[k]) /\ s[k] = Written(b[k])
        BY <1>3, <1>12
    <2>2. 2 + off[k + 1] = 2 + off[k] + Len(s[k]) /\ Len(s[k]) = LockAt(b[k]) + 1
        BY <1>4, <1>5, <1>12
    <2> QED
        BY <1>8, <1>11, <2>1, <2>2
<1> QED
    BY <1>14, <1>15, <1>16

-----------------------------------------------------------------------------
\* What the reader makes of a transaction of the network.
VU(n) == [value |-> n, buf |-> CompactSize(n)]
InRead(i, witness) ==
    [txid |-> i.txid, index |-> i.vout, script_len |-> VU(i.script.len),
     script_sig |-> i.script, seq_no |-> i.sequence, witness |-> witness]
OutRead(o) == [value |-> o.value, script_len |-> VU(o.script.len), script_pubkey |-> o.script]
FromDisk(t) ==
    [version |-> t.version, in_count |-> VU(Len(t.ins)),
     inputs |-> [k \in 1 .. Len(t.ins) |->
                    InRead(t.ins[k], IF Segwit(t) THEN t.ins[k].witness ELSE NoWitness)],
     out_count |-> VU(Len(t.outs)),
     outputs |-> [k \in 1 .. Len(t.outs) |-> OutRead(t.outs[k])],
     locktime |-> t.lock_time]

\* The inputs when all witnesses in front of that of input w have been read, and
\* of that one the items of part.
InsSoFar(t, w, part) ==
    [k \in 1 .. Len(t.ins) |->
        InRead(t.ins[k], IF k < w THEN t.ins[k].witness ELSE IF k = w THEN part ELSE NoWitness)]

\* raw, while the first n inputs have been read; and behind the number of outputs.
RawOfIns(t, n) ==
    [version |-> t.version, in_count |-> VU(Len(t.ins)),
     inputs |-> [k \in 1 .. n |-> InRead(t.ins[k], NoWitness)]]
RawOfOuts(t, ins, n, w) ==
    [version |-> t.version, in_count |-> VU(Len(t.ins)), inputs |-> ins,
     out_count |-> VU(Len(t.outs)), outputs |-> [k \in 1 .. n |-> OutRead(t.outs[k])], w |-> w]

\* The transaction that is being read, and where the node wrote it.
Cur == txdata[Len(block) + 1]
Base == TxAt(txdata, Len(block) + 1)

\* The place of the reader in each step, and what it has read of the transaction.
\* None of it is in the file: it is what the reader has to keep.
VersionInv == at = "version" => pos = Base + 1
FlagsInv ==
    at = "flags" => /\ Segwit(Cur)
                    /\ pos = Base + 3
                    /\ raw = [version |-> Cur.version]
FlagOf(t) == IF Segwit(t) THEN 1 ELSE 0
InputInv ==
    at = "input" =>
        /\ left \in 1 .. Len(Cur.ins) /\ flags = FlagOf(Cur)
        /\ pos = Base + (HeadLen(Cur) + 5 * (Len(Cur.ins) - left)) + 1
        /\ raw = RawOfIns(Cur, Len(Cur.ins) - left)
OutCountInv ==
    at = "out_count" =>
        /\ flags = FlagOf(Cur)
        /\ pos = Base + (OutsAt(Cur) - 1) + 1
        /\ raw = RawOfIns(Cur, Len(Cur.ins))
OutputInv ==
    at = "output" =>
        /\ left \in 1 .. Len(Cur.outs) /\ flags = FlagOf(Cur)
        /\ pos = Base + (OutsAt(Cur) + 3 * (Len(Cur.outs) - left)) + 1
        /\ raw = RawOfOuts(Cur, InsSoFar(Cur, 1, NoWitness), Len(Cur.outs) - left, 1)
ItemCountInv ==
    at = "item_count" =>
        /\ Segwit(Cur)
        /\ raw.w \in 1 .. Len(Cur.ins)
        /\ pos = Base + WitAt(Cur, raw.w) + 1
        /\ raw = RawOfOuts(Cur, InsSoFar(Cur, raw.w, NoWitness), Len(Cur.outs), raw.w)
ItemInv ==
    at = "item" =>
        /\ Segwit(Cur)
        /\ raw.w \in 1 .. Len(Cur.ins)
        /\ left \in 1 .. Len(Cur.ins[raw.w].witness)
        /\ pos = Base + (WitAt(Cur, raw.w) + (1 + 2 * (Len(Cur.ins[raw.w].witness) - left))) + 1
        /\ raw = RawOfOuts(Cur, InsSoFar(Cur, raw.w, First(Cur.ins[raw.w].witness,
                                             Len(Cur.ins[raw.w].witness) - left)),
                           Len(Cur.outs), raw.w)
LocktimeInv ==
    at = "locktime" =>
        /\ pos = Base + LockAt(Cur) + 1
        /\ raw = RawOfOuts(Cur, FromDisk(Cur).inputs, Len(Cur.outs), raw.w)
DoneInv == at = "done" => /\ pos = Len(WrittenBlock(txdata)) + 1 /\ file = WrittenBlock(txdata)
                          /\ Len(block) = Len(txdata)

\* What is on disk, and the block so far.
FileInv ==
    /\ IsSeq(file) /\ Len(file) <= Len(WrittenBlock(txdata))
    /\ \A i \in 1 .. Len(file) : file[i] = WrittenBlock(txdata)[i]
BlockInv ==
    /\ IsSeq(block)
    /\ \A k \in 1 .. Len(block) : block[k] = DoubleSha256(FromDisk(txdata[k]))
    /\ Len(block) <= Len(txdata)
    /\ at = "header" => Len(block) = 0 /\ pos = 1
    /\ at \in Reading => Len(block) < Len(txdata)
    /\ at \notin {"header", "failed"} => tx_count = Len(txdata) /\ root = NetworkRoot(txdata)

StageInv ==
    /\ VersionInv /\ FlagsInv /\ InputInv /\ OutCountInv /\ OutputInv
    /\ ItemCountInv /\ ItemInv /\ LocktimeInv /\ DoneInv
ReaderInv ==
    /\ txdata \in Blocks /\ at \in Reading \cup {"done", "failed"}
    /\ FileInv /\ BlockInv /\ StageInv

\* The fields the node wrote where the reader is.
AheadIs(fs) == pos \in Nat /\ PartAt(WrittenBlock(txdata), pos - 1, fs)

LEMMA AheadRead ==
    ASSUME FileInv, NEW fs, AheadIs(fs), NEW k \in 1 .. Len(fs), pos + k - 1 <= Len(file)
    PROVE  file[pos + k - 1] = fs[k]
<1>1. pos \in Nat /\ pos - 1 \in Nat /\ k \in Nat /\ k >= 1
    BY DEF AheadIs, PartAt
<1>2. PICK j : j = pos + k - 1
    OBVIOUS
<1>3. j \in Nat /\ j >= 1 /\ j = pos - 1 + k
    BY <1>1, <1>2
<1>4. WrittenBlock(txdata)[j] = fs[k]
    BY <1>3 DEF AheadIs, PartAt
<1>5. j \in 1 .. Len(file)
    <2>1. Len(file) \in Nat
        BY SeqShape DEF FileInv
    <2> QED
        BY <1>2, <1>3, <2>1
<1>6. file[j] = WrittenBlock(txdata)[j]
    BY <1>5 DEF FileInv
<1> QED
    BY <1>2, <1>4, <1>6

LEMMA AheadAt ==
    ASSUME NEW o, NEW p, NEW u, NEW fs, pos = o + p + 1,
           PartAt(WrittenBlock(txdata), o, u), PartAt(u, p, fs)
    PROVE  AheadIs(fs)
<1>1. PartAt(WrittenBlock(txdata), o + p, fs)
    BY PartOfPart
<1>2. o \in Nat /\ p \in Nat
    BY DEF PartAt
<1>3. o + p + 1 - 1 = o + p /\ o + p + 1 \in Nat
    BY <1>2
<1> QED
    BY <1>1, <1>2, <1>3 DEF AheadIs

LEMMA PairAt ==
    ASSUME NEW s, NEW o \in Nat, NEW a, NEW b, Len(s) \in Nat, o + 2 <= Len(s),
           s[o + 1] = a, s[o + 2] = b
    PROVE  PartAt(s, o, <<a, b>>)
<1>1. o + 1 \in 1 .. Len(s) /\ o + 2 \in 1 .. Len(s)
    OBVIOUS
<1>2. Len(<<a, b>>) = 2 /\ <<a, b>>[1] = a /\ <<a, b>>[2] = b
    OBVIOUS
<1>3. \A i \in 1 .. 2 : i = 1 \/ i = 2
    OBVIOUS
<1> QED
    BY <1>1, <1>2, <1>3 DEF PartAt

LEMMA CurFacts ==
    ASSUME txdata \in Blocks, BlockInv, at \in Reading
    PROVE  /\ Len(block) \in Nat /\ Len(txdata) \in Nat /\ Len(block) + 1 \in 1 .. Len(txdata)
           /\ IsTransaction(Cur)
           /\ Base \in Nat /\ PartAt(WrittenBlock(txdata), Base, Written(Cur))
           /\ TxAt(txdata, Len(block) + 2) = Base + (LockAt(Cur) + 1)
<1>1. IsSeq(txdata) /\ \A k \in DOMAIN txdata : IsTransaction(txdata[k])
    BY BlocksAssumption
<1>2. Len(block) \in Nat /\ Len(txdata) \in Nat /\ DOMAIN txdata = 1 .. Len(txdata)
    BY <1>1, SeqShape DEF BlockInv
<1>3. PICK n : n = Len(block) + 1
    OBVIOUS
<1>4. n \in 1 .. Len(txdata) /\ n + 1 = Len(block) + 2
    BY <1>2, <1>3 DEF BlockInv
<1>5. IsTransaction(txdata[n])
    BY <1>1, <1>2, <1>4
<1>6. PartAt(WrittenBlock(txdata), TxAt(txdata, n), Written(txdata[n]))
    BY <1>4, BlockParts
<1>7. TxAt(txdata, n + 1) = TxAt(txdata, n) + (LockAt(txdata[n]) + 1)
    BY <1>4, BlockParts
<1>8. TxAt(txdata, n) \in Nat
    BY <1>6 DEF PartAt
<1> QED
    BY <1>2, <1>3, <1>4, <1>5, <1>6, <1>7, <1>8 DEF Cur, Base

\* The parts of a transaction have places.
LEMMA PlacesAreNat ==
    ASSUME NEW t, IsTransaction(t)
    PROVE  /\ Len(t.ins) \in Nat /\ Len(t.ins) > 0 /\ Len(t.outs) \in Nat
           /\ DOMAIN t.ins = 1 .. Len(t.ins) /\ DOMAIN t.outs = 1 .. Len(t.outs)
           /\ HeadLen(t) \in {2, 4}
           /\ OutsAt(t) \in Nat /\ WitsAt(t) \in Nat /\ LockAt(t) \in Nat
           /\ OutsAt(t) = HeadLen(t) + 5 * Len(t.ins) + 1
           /\ WitsAt(t) = OutsAt(t) + 3 * Len(t.outs)
           /\ ~Segwit(t) => LockAt(t) = WitsAt(t)
           /\ Written(t) = [i \in 1 .. Len(Written(t)) |-> Written(t)[i]]
           /\ Len(Written(t)) = LockAt(t) + 1
<1>1. /\ Len(t.ins) \in Nat /\ Len(t.ins) > 0 /\ Len(t.outs) \in Nat
      /\ DOMAIN t.ins = 1 .. Len(t.ins) /\ DOMAIN t.outs = 1 .. Len(t.outs)
    BY SeqShape DEF IsTransaction
<1>2. HeadLen(t) \in {2, 4}
    BY DEF HeadLen
<1>3. OutsAt(t) \in Nat /\ WitsAt(t) \in Nat /\ LockAt(t) \in Nat
    <2>1. PartAt(Written(t), OutsAt(t), Strung(3, Outs(t)))
        BY WrittenParts
    <2>2. PartAt(Written(t), WitsAt(t), WitFields(t))
        BY WrittenParts
    <2>3. PartAt(Written(t), LockAt(t), LockField(t))
        BY WrittenParts
    <2> QED
        BY <2>1, <2>2, <2>3 DEF PartAt
<1>4. ~Segwit(t) => LockAt(t) = WitsAt(t)
    BY <1>3, EmptyIsSeq DEF LockAt, WitFields
<1>5. OutsAt(t) = HeadLen(t) + 5 * Len(t.ins) + 1
    BY DEF OutsAt
<1>6. WitsAt(t) = OutsAt(t) + 3 * Len(t.outs)
    BY DEF WitsAt
<1> QED
    BY <1>1, <1>2, <1>3, <1>4, <1>5, <1>6, WrittenParts, SeqShape

\* The fields in the head of a transaction, as the reader takes them.
VersionFields(t) ==
    <<Field("u32", t.version), Field("varuint", CompactSize(IF Segwit(t) THEN 0 ELSE Len(t.ins)))>>
FlagsFields(t) == <<Field("u8", 1), Field("varuint", CompactSize(Len(t.ins)))>>

LEMMA HeadOfTx ==
    ASSUME NEW t, IsTransaction(t)
    PROVE  /\ PartAt(Written(t), 0, VersionFields(t))
           /\ Segwit(t) => PartAt(Written(t), 2, FlagsFields(t))
<1>1. PICK s, h : s = Written(t) /\ h = HeadLen(t)
    OBVIOUS
<1>2. /\ PartAt(s, 0, VersionField(t)) /\ PartAt(s, 1, MarkerFields(t))
      /\ PartAt(s, h - 1, CountField(t.ins))
    BY <1>1, WrittenParts
<1>3. Len(s) \in Nat /\ h + 2 <= Len(s)
    <2>1. Len(s) = LockAt(t) + 1 /\ LockAt(t) \in Nat
        BY <1>1, PlacesAreNat
    <2>2. PICK i, o, f : i = Len(t.ins) /\ o = Len(t.outs) /\ f = Len(WitFields(t))
        OBVIOUS
    <2>3. i \in Nat /\ o \in Nat /\ i > 0
        BY <2>2, PlacesAreNat
    <2>4. h \in {2, 4} /\ OutsAt(t) = h + 5 * i + 1 /\ OutsAt(t) \in Nat /\ WitsAt(t) = OutsAt(t) + 3 * o
        BY <1>1, <2>2, PlacesAreNat
    <2>5. LockAt(t) = WitsAt(t) + f /\ f \in Nat
        <3>1. IsSeq(WitFields(t))
            BY SequencesOfWits, EmptyIsSeq DEF WitFields
        <3> QED
            BY <2>2, <3>1, SeqShape DEF LockAt
    <2> QED
        BY <2>1, <2>3, <2>4, <2>5
<1>4. s[1] = Field("u32", t.version)
    <2>1. Len(VersionField(t)) = 1 /\ VersionField(t)[1] = Field("u32", t.version) /\ 0 + 1 = 1
        BY DEF VersionField
    <2>2. s[0 + 1] = VersionField(t)[1]
        BY <1>2, <2>1 DEF PartAt
    <2> QED
        BY <2>1, <2>2
<1>5. s[h] = Field("varuint", CompactSize(Len(t.ins)))
    <2>1. /\ Len(CountField(t.ins)) = 1 /\ h - 1 + 1 = h
          /\ CountField(t.ins)[1] = Field("varuint", CompactSize(Len(t.ins)))
        BY <1>1, PlacesAreNat DEF CountField
    <2>2. s[h - 1 + 1] = CountField(t.ins)[1]
        BY <1>2, <2>1 DEF PartAt
    <2> QED
        BY <2>1, <2>2
<1>6. ASSUME Segwit(t)
      PROVE  s[2] = Field("varuint", CompactSize(0)) /\ s[3] = Field("u8", 1) /\ h = 4
    <2>1. MarkerFields(t) = <<Field("varuint", CompactSize(0)), Field("u8", 1)>>
        BY <1>6 DEF MarkerFields
    <2>2. Len(MarkerFields(t)) = 2 /\ 1 + 1 = 2 /\ 1 + 2 = 3
        BY <2>1
    <2>3. s[1 + 1] = MarkerFields(t)[1] /\ s[1 + 2] = MarkerFields(t)[2]
        BY <1>2, <2>2 DEF PartAt
    <2> QED
        BY <1>1, <1>6, <2>1, <2>2, <2>3 DEF HeadLen
<1>7. CASE Segwit(t)
    <2>1. PartAt(s, 0, VersionFields(t))
        BY <1>3, <1>4, <1>6, <1>7, PairAt DEF VersionFields
    <2>2. PartAt(s, 2, FlagsFields(t))
        <3>1. h = 4 /\ s[2 + 1] = Field("u8", 1) /\ s[2 + 2] = Field("varuint", CompactSize(Len(t.ins)))
            BY <1>5, <1>6, <1>7
        <3> QED
            BY <1>3, <3>1, PairAt DEF FlagsFields
    <2> QED
        BY <1>1, <2>1, <2>2
<1>8. CASE ~Segwit(t)
    <2>1. h = 2
        BY <1>1, <1>8 DEF HeadLen
    <2>2. PartAt(s, 0, VersionFields(t))
        BY <1>3, <1>4, <1>5, <1>8, <2>1, PairAt DEF VersionFields
    <2> QED
        BY <1>1, <1>8, <2>2
<1> QED
    BY <1>7, <1>8

\* What is ahead of the reader in each of its steps.
NthIn == Cur.ins[Len(Cur.ins) - left + 1]
NthOut == Cur.outs[Len(Cur.outs) - left + 1]
CurWit == Cur.ins[raw.w].witness
NthItem == CurWit[Len(CurWit) - left + 1]

LEMMA Ahead ==
    ASSUME ReaderInv, at \in Reading
    PROVE  /\ at = "header" => AheadIs(HeaderFields(txdata))
           /\ at = "version" => AheadIs(VersionFields(Cur))
           /\ at = "flags" => AheadIs(FlagsFields(Cur))
           /\ at = "input" => AheadIs(InFields(NthIn))
           /\ at = "out_count" => AheadIs(CountField(Cur.outs))
           /\ at = "output" => AheadIs(OutFields(NthOut))
           /\ at = "item_count" => AheadIs(CountField(CurWit))
           /\ at = "item" => AheadIs(BytesFields(NthItem))
           /\ at = "locktime" => AheadIs(LockField(Cur))
<1>0. /\ FileInv /\ BlockInv /\ StageInv /\ txdata \in Blocks
    BY DEF ReaderInv
<1>1. /\ IsTransaction(Cur) /\ Base \in Nat
      /\ PartAt(WrittenBlock(txdata), Base, Written(Cur))
    BY <1>0, CurFacts
<1>2. /\ Len(Cur.ins) \in Nat /\ Len(Cur.outs) \in Nat
    BY <1>1, PlacesAreNat
<1>3. ASSUME at = "header" PROVE AheadIs(HeaderFields(txdata))
    <2>1. pos = 1 /\ pos - 1 = 0
        BY <1>0, <1>3 DEF BlockInv
    <2> QED
        BY <1>0, <2>1, BlockParts DEF AheadIs
<1>4. ASSUME at = "version" PROVE AheadIs(VersionFields(Cur))
    <2>1. pos = Base + 0 + 1
        BY <1>0, <1>1, <1>4 DEF StageInv, VersionInv
    <2> QED
        BY <1>1, <2>1, HeadOfTx, AheadAt
<1>5. ASSUME at = "flags" PROVE AheadIs(FlagsFields(Cur))
    <2>1. pos = Base + 2 + 1 /\ Segwit(Cur)
        BY <1>0, <1>1, <1>5 DEF StageInv, FlagsInv
    <2> QED
        BY <1>1, <2>1, HeadOfTx, AheadAt
<1>6. ASSUME at = "input" PROVE AheadIs(InFields(NthIn))
    <2>1. /\ left \in 1 .. Len(Cur.ins)
          /\ pos = Base + (HeadLen(Cur) + 5 * (Len(Cur.ins) - left)) + 1
        BY <1>0, <1>6 DEF StageInv, InputInv
    <2>2. PICK k : k = Len(Cur.ins) - left + 1
        OBVIOUS
    <2>3. k \in 1 .. Len(Cur.ins) /\ k - 1 = Len(Cur.ins) - left
        BY <1>2, <2>1, <2>2
    <2>4. PartAt(Written(Cur), HeadLen(Cur) + 5 * (k - 1), InFields(Cur.ins[k]))
        BY <1>1, <2>3, FieldsOfTx
    <2>5. pos = Base + (HeadLen(Cur) + 5 * (k - 1)) + 1
        BY <2>1, <2>3
    <2>6. AheadIs(InFields(Cur.ins[k]))
        BY <1>1, <2>4, <2>5, AheadAt
    <2> QED
        BY <2>2, <2>6 DEF NthIn
<1>7. ASSUME at = "out_count" PROVE AheadIs(CountField(Cur.outs))
    <2>1. pos = Base + (OutsAt(Cur) - 1) + 1
        BY <1>0, <1>7 DEF StageInv, OutCountInv
    <2> QED
        BY <1>1, <2>1, WrittenParts, AheadAt
<1>8. ASSUME at = "output" PROVE AheadIs(OutFields(NthOut))
    <2>1. /\ left \in 1 .. Len(Cur.outs)
          /\ pos = Base + (OutsAt(Cur) + 3 * (Len(Cur.outs) - left)) + 1
        BY <1>0, <1>8 DEF StageInv, OutputInv
    <2>2. PICK k : k = Len(Cur.outs) - left + 1
        OBVIOUS
    <2>3. k \in 1 .. Len(Cur.outs) /\ k - 1 = Len(Cur.outs) - left
        BY <1>2, <2>1, <2>2
    <2>4. PartAt(Written(Cur), OutsAt(Cur) + 3 * (k - 1), OutFields(Cur.outs[k]))
        BY <1>1, <2>3, FieldsOfTx
    <2>5. pos = Base + (OutsAt(Cur) + 3 * (k - 1)) + 1
        BY <2>1, <2>3
    <2>6. AheadIs(OutFields(Cur.outs[k]))
        BY <1>1, <2>4, <2>5, AheadAt
    <2> QED
        BY <2>2, <2>6 DEF NthOut
<1>9. ASSUME at = "item_count" PROVE AheadIs(CountField(CurWit))
    <2>1. Segwit(Cur) /\ raw.w \in 1 .. Len(Cur.ins) /\ pos = Base + WitAt(Cur, raw.w) + 1
        BY <1>0, <1>9 DEF StageInv, ItemCountInv
    <2>2. PartAt(Written(Cur), WitAt(Cur, raw.w), CountField(CurWit))
        BY <1>1, <2>1, FieldsOfWits DEF CurWit
    <2> QED
        BY <1>1, <2>1, <2>2, AheadAt
<1>10. ASSUME at = "item" PROVE AheadIs(BytesFields(NthItem))
    <2>1. /\ Segwit(Cur) /\ raw.w \in 1 .. Len(Cur.ins) /\ left \in 1 .. Len(CurWit)
          /\ pos = Base + (WitAt(Cur, raw.w) + (1 + 2 * (Len(CurWit) - left))) + 1
        BY <1>0, <1>10 DEF StageInv, ItemInv, CurWit
    <2>2. Len(CurWit) \in Nat
        <3>1. IsInput(Cur.ins[raw.w])
            BY <1>1, <2>1, PlacesAreNat DEF IsTransaction
        <3> QED
            BY <3>1, SeqShape DEF IsInput, CurWit
    <2>3. PICK k : k = Len(CurWit) - left + 1
        OBVIOUS
    <2>4. k \in 1 .. Len(CurWit) /\ k - 1 = Len(CurWit) - left
        BY <2>1, <2>2, <2>3
    <2>5. PartAt(Written(Cur), WitAt(Cur, raw.w) + (1 + 2 * (k - 1)), BytesFields(CurWit[k]))
        BY <1>1, <2>1, <2>4, FieldsOfWits DEF CurWit
    <2>6. pos = Base + (WitAt(Cur, raw.w) + (1 + 2 * (k - 1))) + 1
        BY <2>1, <2>4
    <2>7. AheadIs(BytesFields(CurWit[k]))
        BY <1>1, <2>5, <2>6, AheadAt
    <2> QED
        BY <2>3, <2>7 DEF NthItem
<1>11. ASSUME at = "locktime" PROVE AheadIs(LockField(Cur))
    <2>1. pos = Base + LockAt(Cur) + 1
        BY <1>0, <1>11 DEF StageInv, LocktimeInv
    <2> QED
        BY <1>1, <2>1, WrittenParts, AheadAt
<1> QED
    BY <1>3, <1>4, <1>5, <1>6, <1>7, <1>8, <1>9, <1>10, <1>11

\* A length in front of bytes is theirs.
LEMMA Lengths ==
    ASSUME ReaderInv
    PROVE  /\ at = "input" => NthIn.script.len \in Nat
           /\ at = "output" => NthOut.script.len \in Nat
           /\ at = "item" => NthItem.len \in Nat
<1>0. /\ BlockInv /\ StageInv /\ txdata \in Blocks
    BY DEF ReaderInv
<1>1. ASSUME at \in Reading
      PROVE  IsTransaction(Cur) /\ Len(Cur.ins) \in Nat /\ Len(Cur.outs) \in Nat
             /\ DOMAIN Cur.ins = 1 .. Len(Cur.ins) /\ DOMAIN Cur.outs = 1 .. Len(Cur.outs)
    BY <1>0, <1>1, CurFacts, PlacesAreNat
<1>2. ASSUME at = "input" PROVE NthIn.script.len \in Nat
    <2>1. left \in 1 .. Len(Cur.ins)
        BY <1>0, <1>2 DEF StageInv, InputInv
    <2>2. at \in Reading
        BY <1>2 DEF Reading, Wanted
    <2>3. PICK k : k = Len(Cur.ins) - left + 1
        OBVIOUS
    <2>4. k \in 1 .. Len(Cur.ins)
        BY <1>1, <2>1, <2>2, <2>3
    <2>5. IsInput(Cur.ins[k])
        BY <1>1, <2>2, <2>4 DEF IsTransaction
    <2> QED
        BY <2>3, <2>5 DEF NthIn, IsInput
<1>3. ASSUME at = "output" PROVE NthOut.script.len \in Nat
    <2>1. left \in 1 .. Len(Cur.outs)
        BY <1>0, <1>3 DEF StageInv, OutputInv
    <2>2. at \in Reading
        BY <1>3 DEF Reading, Wanted
    <2>3. PICK k : k = Len(Cur.outs) - left + 1
        OBVIOUS
    <2>4. k \in 1 .. Len(Cur.outs)
        BY <1>1, <2>1, <2>2, <2>3
    <2>5. Cur.outs[k].script.len \in Nat
        BY <1>1, <2>2, <2>4 DEF IsTransaction
    <2> QED
        BY <2>3, <2>5 DEF NthOut
<1>4. ASSUME at = "item" PROVE NthItem.len \in Nat
    <2>1. raw.w \in 1 .. Len(Cur.ins) /\ left \in 1 .. Len(CurWit)
        BY <1>0, <1>4 DEF StageInv, ItemInv, CurWit
    <2>2. at \in Reading
        BY <1>4 DEF Reading, Wanted
    <2>3. IsInput(Cur.ins[raw.w])
        BY <1>1, <2>1, <2>2 DEF IsTransaction
    <2>4. /\ Len(CurWit) \in Nat /\ DOMAIN CurWit = 1 .. Len(CurWit)
          /\ \A j \in DOMAIN CurWit : CurWit[j].len \in Nat
        BY <2>3, SeqShape DEF IsInput, CurWit
    <2>5. PICK k : k = Len(CurWit) - left + 1
        OBVIOUS
    <2>6. k \in DOMAIN CurWit
        BY <2>1, <2>4, <2>5
    <2> QED
        BY <2>4, <2>5, <2>6 DEF NthItem
<1> QED
    BY <1>2, <1>3, <1>4

LEMMA ReadsAhead ==
    ASSUME FileInv, NEW a \in Reading, Reads(a), NEW fs, AheadIs(fs),
           Len(fs) = Len(Wanted[a]), Len(fs) \in Nat
    PROVE  \A k \in 1 .. Len(fs) : Read(k) = fs[k].x
<1>1. SUFFICES ASSUME NEW k \in 1 .. Len(fs) PROVE Read(k) = fs[k].x
    OBVIOUS
<1>2. PICK m, f : m = Len(fs) /\ f = Len(file)
    OBVIOUS
<1>3. m \in Nat /\ f \in Nat /\ k \in 1 .. m /\ pos \in Nat /\ pos + m - 1 <= f
    <2>1. f \in Nat
        BY <1>2, SeqShape DEF FileInv
    <2>2. pos + m - 1 <= f
        BY <1>2 DEF Reads
    <2> QED
        BY <1>2, <2>1, <2>2 DEF AheadIs
<1>4. pos + k - 1 <= f
    BY <1>3
<1>5. file[pos + k - 1] = fs[k]
    BY <1>2, <1>4, AheadRead
<1> QED
    BY <1>5 DEF Read

LEMMA KindsAhead ==
    ASSUME FileInv, NEW fs, AheadIs(fs), DOMAIN Wanted[at] = 1 .. Len(fs),
           \A k \in 1 .. Len(fs) :
              /\ fs[k].kind = Wanted[at][k]
              /\ Wanted[at][k] = "bytes" =>
                    k - 1 \in 1 .. Len(fs) /\ ReadFrom(fs[k - 1].x).value = fs[k].x.len
    PROVE  KeepsItsPlace
<1>1. SUFFICES ASSUME NEW k \in 1 .. Len(fs), pos + k - 1 <= Len(file)
               PROVE  /\ file[pos + k - 1].kind = Wanted[at][k]
                      /\ Wanted[at][k] = "bytes" => ReadVarUint(k - 1).value = Read(k).len
    BY DEF KeepsItsPlace
<1>2. file[pos + k - 1] = fs[k]
    BY <1>1, AheadRead
<1>3. ASSUME Wanted[at][k] = "bytes"
      PROVE  ReadVarUint(k - 1).value = Read(k).len
    <2>1. PICK j : j = k - 1
        OBVIOUS
    <2>2. /\ j \in 1 .. Len(fs) /\ ReadFrom(fs[j].x).value = fs[k].x.len
          /\ j <= k /\ j \in Nat /\ k \in Nat
        BY <1>3, <2>1
    <2>3. pos \in Nat /\ Len(file) \in Nat
        BY SeqShape DEF AheadIs, FileInv
    <2>4. pos + j - 1 <= Len(file)
        BY <1>1, <2>2, <2>3
    <2>5. file[pos + j - 1] = fs[j]
        BY <2>2, <2>4, AheadRead
    <2> QED
        BY <1>2, <2>1, <2>2, <2>5 DEF ReadVarUint, Read
<1> QED
    BY <1>2, <1>3

\* How many fields each step wants.
LEMMA WantedIs ==
    /\ Wanted["header"] = <<"header", "varuint">>
    /\ Wanted["version"] = <<"u32", "varuint">>
    /\ Wanted["flags"] = <<"u8", "varuint">>
    /\ Wanted["input"] = <<"hash", "u32", "varuint", "bytes", "u32">>
    /\ Wanted["out_count"] = <<"varuint">>
    /\ Wanted["output"] = <<"u64", "varuint", "bytes">>
    /\ Wanted["item_count"] = <<"varuint">>
    /\ Wanted["item"] = <<"varuint", "bytes">>
    /\ Wanted["locktime"] = <<"u32">>
    /\ Reading = {"header", "version", "flags", "input", "out_count", "output", "item_count",
                  "item", "locktime"}
BY DEF Wanted, Reading

LEMMA PlaceKept ==
    ASSUME ReaderInv
    PROVE  KeepsItsPlace
<1>1. SUFFICES ASSUME at \in Reading PROVE KeepsItsPlace
    BY DEF KeepsItsPlace
<1>2. FileInv
    BY DEF ReaderInv
<1>3. CASE at = "header"
    <2>1. PICK fs : fs = HeaderFields(txdata)
        OBVIOUS
    <2>2. fs = <<Field("header", NetworkRoot(txdata)), Field("varuint", CompactSize(Len(txdata)))>>
        BY <2>1 DEF HeaderFields
    <2>3. fs[1].kind = "header" /\ fs[2].kind = "varuint" /\ Len(fs) = 2
        BY <2>2 DEF Field
    <2>4. AheadIs(fs)
        BY <1>1, <1>3, <2>1, Ahead
    <2>5. DOMAIN Wanted[at] = 1 .. Len(fs)
        BY <1>3, <2>3, WantedIs
    <2>6. \A k \in 1 .. Len(fs) : fs[k].kind = Wanted[at][k] /\ Wanted[at][k] # "bytes"
        <3>1. \A k \in 1 .. 2 : k = 1 \/ k = 2
            OBVIOUS
        <3> QED
            BY <1>3, <2>3, <3>1, WantedIs
    <2> QED
        BY <1>2, <2>4, <2>5, <2>6, KindsAhead
<1>4. CASE at = "version"
    <2>1. PICK fs : fs = VersionFields(Cur)
        OBVIOUS
    <2>2. fs[1].kind = "u32" /\ fs[2].kind = "varuint" /\ Len(fs) = 2
        BY <2>1 DEF Field, VersionFields
    <2>4. AheadIs(fs)
        BY <1>1, <1>4, <2>1, Ahead
    <2>5. DOMAIN Wanted[at] = 1 .. Len(fs)
        BY <1>4, <2>2, WantedIs
    <2>6. \A k \in 1 .. Len(fs) : fs[k].kind = Wanted[at][k] /\ Wanted[at][k] # "bytes"
        <3>1. \A k \in 1 .. 2 : k = 1 \/ k = 2
            OBVIOUS
        <3> QED
            BY <1>4, <2>2, <3>1, WantedIs
    <2> QED
        BY <1>2, <2>4, <2>5, <2>6, KindsAhead
<1>5. CASE at = "flags"
    <2>1. PICK fs : fs = FlagsFields(Cur)
        OBVIOUS
    <2>2. fs[1].kind = "u8" /\ fs[2].kind = "varuint" /\ Len(fs) = 2
        BY <2>1 DEF Field, FlagsFields
    <2>4. AheadIs(fs)
        BY <1>1, <1>5, <2>1, Ahead
    <2>5. DOMAIN Wanted[at] = 1 .. Len(fs)
        BY <1>5, <2>2, WantedIs
    <2>6. \A k \in 1 .. Len(fs) : fs[k].kind = Wanted[at][k] /\ Wanted[at][k] # "bytes"
        <3>1. \A k \in 1 .. 2 : k = 1 \/ k = 2
            OBVIOUS
        <3> QED
            BY <1>5, <2>2, <3>1, WantedIs
    <2> QED
        BY <1>2, <2>4, <2>5, <2>6, KindsAhead
<1>6. CASE at = "input"
    <2>1. PICK fs : fs = InFields(NthIn)
        OBVIOUS
    <2>2. /\ fs[1].kind = "hash" /\ fs[2].kind = "u32" /\ fs[3].kind = "varuint"
          /\ fs[4].kind = "bytes" /\ fs[5].kind = "u32" /\ Len(fs) = 5
          /\ fs[3].x = CompactSize(NthIn.script.len) /\ fs[4].x = NthIn.script
        BY <2>1 DEF Field, InFields
    <2>3. ReadFrom(fs[3].x).value = fs[4].x.len
        BY <1>6, <2>2, Lengths, LengthsKept
    <2>4. AheadIs(fs)
        BY <1>1, <1>6, <2>1, Ahead
    <2>5. DOMAIN Wanted[at] = 1 .. Len(fs)
        BY <1>6, <2>2, WantedIs
    <2>6. ASSUME NEW k \in 1 .. Len(fs)
          PROVE  /\ fs[k].kind = Wanted[at][k]
                 /\ Wanted[at][k] = "bytes" =>
                       k - 1 \in 1 .. Len(fs) /\ ReadFrom(fs[k - 1].x).value = fs[k].x.len
        <3>1. k = 1 \/ k = 2 \/ k = 3 \/ k = 4 \/ k = 5
            BY <2>2
        <3>2. k = 4 => k - 1 = 3
            OBVIOUS
        <3> QED
            BY <1>6, <2>2, <2>3, <3>1, <3>2, WantedIs
    <2> QED
        BY <1>2, <2>4, <2>5, <2>6, KindsAhead
<1>7. CASE at = "out_count"
    <2>1. PICK fs : fs = CountField(Cur.outs)
        OBVIOUS
    <2>2. fs[1].kind = "varuint" /\ Len(fs) = 1
        BY <2>1 DEF Field, CountField
    <2>3. AheadIs(fs)
        BY <1>1, <1>7, <2>1, Ahead
    <2>4. DOMAIN Wanted[at] = 1 .. Len(fs)
        BY <1>7, <2>2, WantedIs
    <2>5. \A k \in 1 .. Len(fs) : fs[k].kind = Wanted[at][k] /\ Wanted[at][k] # "bytes"
        <3>1. \A k \in 1 .. 1 : k = 1
            OBVIOUS
        <3> QED
            BY <1>7, <2>2, <3>1, WantedIs
    <2> QED
        BY <1>2, <2>3, <2>4, <2>5, KindsAhead
<1>8. CASE at = "output"
    <2>1. PICK fs : fs = OutFields(NthOut)
        OBVIOUS
    <2>2. /\ fs[1].kind = "u64" /\ fs[2].kind = "varuint" /\ fs[3].kind = "bytes" /\ Len(fs) = 3
          /\ fs[2].x = CompactSize(NthOut.script.len) /\ fs[3].x = NthOut.script
        BY <2>1 DEF Field, OutFields
    <2>3. ReadFrom(fs[2].x).value = fs[3].x.len
        BY <1>8, <2>2, Lengths, LengthsKept
    <2>4. AheadIs(fs)
        BY <1>1, <1>8, <2>1, Ahead
    <2>5. DOMAIN Wanted[at] = 1 .. Len(fs)
        BY <1>8, <2>2, WantedIs
    <2>6. ASSUME NEW k \in 1 .. Len(fs)
          PROVE  /\ fs[k].kind = Wanted[at][k]
                 /\ Wanted[at][k] = "bytes" =>
                       k - 1 \in 1 .. Len(fs) /\ ReadFrom(fs[k - 1].x).value = fs[k].x.len
        <3>1. k = 1 \/ k = 2 \/ k = 3
            BY <2>2
        <3>2. k = 3 => k - 1 = 2
            OBVIOUS
        <3> QED
            BY <1>8, <2>2, <2>3, <3>1, <3>2, WantedIs
    <2> QED
        BY <1>2, <2>4, <2>5, <2>6, KindsAhead
<1>9. CASE at = "item_count"
    <2>1. PICK fs : fs = CountField(CurWit)
        OBVIOUS
    <2>2. fs[1].kind = "varuint" /\ Len(fs) = 1
        BY <2>1 DEF Field, CountField
    <2>3. AheadIs(fs)
        BY <1>1, <1>9, <2>1, Ahead
    <2>4. DOMAIN Wanted[at] = 1 .. Len(fs)
        BY <1>9, <2>2, WantedIs
    <2>5. \A k \in 1 .. Len(fs) : fs[k].kind = Wanted[at][k] /\ Wanted[at][k] # "bytes"
        <3>1. \A k \in 1 .. 1 : k = 1
            OBVIOUS
        <3> QED
            BY <1>9, <2>2, <3>1, WantedIs
    <2> QED
        BY <1>2, <2>3, <2>4, <2>5, KindsAhead
<1>10. CASE at = "item"
    <2>1. PICK fs : fs = BytesFields(NthItem)
        OBVIOUS
    <2>2. /\ fs[1].kind = "varuint" /\ fs[2].kind = "bytes" /\ Len(fs) = 2
          /\ fs[1].x = CompactSize(NthItem.len) /\ fs[2].x = NthItem
        BY <2>1 DEF Field, BytesFields
    <2>3. ReadFrom(fs[1].x).value = fs[2].x.len
        BY <1>10, <2>2, Lengths, LengthsKept
    <2>4. AheadIs(fs)
        BY <1>1, <1>10, <2>1, Ahead
    <2>5. DOMAIN Wanted[at] = 1 .. Len(fs)
        BY <1>10, <2>2, WantedIs
    <2>6. ASSUME NEW k \in 1 .. Len(fs)
          PROVE  /\ fs[k].kind = Wanted[at][k]
                 /\ Wanted[at][k] = "bytes" =>
                       k - 1 \in 1 .. Len(fs) /\ ReadFrom(fs[k - 1].x).value = fs[k].x.len
        <3>1. k = 1 \/ k = 2
            BY <2>2
        <3>2. k = 2 => k - 1 = 1
            OBVIOUS
        <3> QED
            BY <1>10, <2>2, <2>3, <3>1, <3>2, WantedIs
    <2> QED
        BY <1>2, <2>4, <2>5, <2>6, KindsAhead
<1>11. CASE at = "locktime"
    <2>1. PICK fs : fs = LockField(Cur)
        OBVIOUS
    <2>2. fs[1].kind = "u32" /\ Len(fs) = 1
        BY <2>1 DEF Field, LockField
    <2>3. AheadIs(fs)
        BY <1>1, <1>11, <2>1, Ahead
    <2>4. DOMAIN Wanted[at] = 1 .. Len(fs)
        BY <1>11, <2>2, WantedIs
    <2>5. \A k \in 1 .. Len(fs) : fs[k].kind = Wanted[at][k] /\ Wanted[at][k] # "bytes"
        <3>1. \A k \in 1 .. 1 : k = 1
            OBVIOUS
        <3> QED
            BY <1>11, <2>2, <3>1, WantedIs
    <2> QED
        BY <1>2, <2>3, <2>4, <2>5, KindsAhead
<1> QED
    BY <1>1, <1>3, <1>4, <1>5, <1>6, <1>7, <1>8, <1>9, <1>10, <1>11, WantedIs

\* What the updates of raw make of it.
LEMMA OneInMore ==
    ASSUME NEW t, NEW n \in Nat
    PROVE  [RawOfIns(t, n) EXCEPT !.inputs = Append(@, InRead(t.ins[n + 1], NoWitness))]
              = RawOfIns(t, n + 1)
<1>1. PICK s : s = [k \in 1 .. n + 1 |-> InRead(t.ins[k], NoWitness)]
    OBVIOUS
<1>2. PICK f : f = [k \in 1 .. n |-> InRead(t.ins[k], NoWitness)]
    OBVIOUS
<1>3. f = First(s, n) /\ s = First(s, n + 1) /\ s[n + 1] = InRead(t.ins[n + 1], NoWitness)
    BY <1>1, <1>2 DEF First
<1>4. Append(f, InRead(t.ins[n + 1], NoWitness)) = s
    BY <1>3, NextOfFirst
<1>5. RawOfIns(t, n) = [version |-> t.version, in_count |-> VU(Len(t.ins)), inputs |-> f]
    BY <1>2 DEF RawOfIns
<1>6. RawOfIns(t, n + 1) = [version |-> t.version, in_count |-> VU(Len(t.ins)), inputs |-> s]
    BY <1>1 DEF RawOfIns
<1>7. PICK r, e, v, c : /\ r = RawOfIns(t, n) /\ e = InRead(t.ins[n + 1], NoWitness)
                        /\ v = t.version /\ c = VU(Len(t.ins))
    OBVIOUS
<1>8. r = [version |-> v, in_count |-> c, inputs |-> f]
    BY <1>5, <1>7
<1>9. [r EXCEPT !.inputs = Append(@, e)] = [r EXCEPT !["inputs"] = Append(r.inputs, e)]
    OBVIOUS
<1>10. [r EXCEPT !["inputs"] = s] = [version |-> v, in_count |-> c, inputs |-> s]
    BY <1>8
<1>11. r.inputs = f
    BY <1>8
<1> QED
    BY <1>4, <1>6, <1>7, <1>9, <1>10, <1>11

LEMMA NoInYet ==
    ASSUME NEW t
    PROVE  [version |-> t.version, in_count |-> VU(Len(t.ins)), inputs |-> <<>>] = RawOfIns(t, 0)
<1>1. <<>> = [k \in 1 .. 0 |-> InRead(t.ins[k], NoWitness)]
    OBVIOUS
<1> QED
    BY <1>1 DEF RawOfIns

LEMMA NoOutYet ==
    ASSUME NEW t, NEW r, r = RawOfIns(t, Len(t.ins))
    PROVE  [version |-> r.version, in_count |-> r.in_count, inputs |-> r.inputs,
            out_count |-> VU(Len(t.outs)), outputs |-> <<>>, w |-> 1]
              = RawOfOuts(t, InsSoFar(t, 1, NoWitness), 0, 1)
<1>1. <<>> = [k \in 1 .. 0 |-> OutRead(t.outs[k])]
    OBVIOUS
<1>2. InsSoFar(t, 1, NoWitness) = [k \in 1 .. Len(t.ins) |-> InRead(t.ins[k], NoWitness)]
    BY DEF InsSoFar
<1>3. /\ r.version = t.version /\ r.in_count = VU(Len(t.ins))
      /\ r.inputs = InsSoFar(t, 1, NoWitness)
    BY <1>2 DEF RawOfIns
<1> QED
    BY <1>1, <1>3 DEF RawOfOuts

WithOutput(r, o) == [r EXCEPT !.outputs = Append(@, o)]

LEMMA OneOutMore ==
    ASSUME NEW t, NEW ins, NEW n \in Nat, NEW w, NEW r, r = RawOfOuts(t, ins, n, w)
    PROVE  WithOutput(r, OutRead(t.outs[n + 1])) = RawOfOuts(t, ins, n + 1, w)
<1>1. PICK s : s = [k \in 1 .. n + 1 |-> OutRead(t.outs[k])]
    OBVIOUS
<1>2. PICK f : f = [k \in 1 .. n |-> OutRead(t.outs[k])]
    OBVIOUS
<1>3. f = First(s, n) /\ s = First(s, n + 1) /\ s[n + 1] = OutRead(t.outs[n + 1])
    BY <1>1, <1>2 DEF First
<1>4. Append(f, OutRead(t.outs[n + 1])) = s
    BY <1>3, NextOfFirst
<1>5. PICK v, c, d : v = t.version /\ c = VU(Len(t.ins)) /\ d = VU(Len(t.outs))
    OBVIOUS
<1>6. RawOfOuts(t, ins, n, w)
         = [version |-> v, in_count |-> c, inputs |-> ins, out_count |-> d, outputs |-> f, w |-> w]
    BY <1>2, <1>5 DEF RawOfOuts
<1>7. RawOfOuts(t, ins, n + 1, w)
         = [version |-> v, in_count |-> c, inputs |-> ins, out_count |-> d, outputs |-> s, w |-> w]
    BY <1>1, <1>5 DEF RawOfOuts
<1>8. PICK e : e = OutRead(t.outs[n + 1])
    OBVIOUS
<1>9. WithOutput(r, e) = [r EXCEPT !["outputs"] = Append(r.outputs, e)]
    BY DEF WithOutput
<1>10. [r EXCEPT !["outputs"] = s]
         = [version |-> v, in_count |-> c, inputs |-> ins, out_count |-> d, outputs |-> s, w |-> w]
    BY <1>6, <1>8
<1>11. r.outputs = f
    BY <1>6, <1>8
<1> QED
    BY <1>4, <1>7, <1>8, <1>9, <1>10, <1>11

WithWitness(r, w, witness, next) == [r EXCEPT !.inputs[w].witness = witness, !.w = next]

LEMMA PartOfWitness ==
    ASSUME NEW t, NEW n, NEW w \in 1 .. Len(t.ins), NEW x, NEW y, NEW part,
           NEW r, r = RawOfOuts(t, InsSoFar(t, w, part), n, w)
    PROVE  WithWitness(r, w, x, y) = RawOfOuts(t, InsSoFar(t, w, x), n, y)
<1>1. PICK s : s = InsSoFar(t, w, part)
    OBVIOUS
<1>2. [s EXCEPT ![w].witness = x] = InsSoFar(t, w, x)
    <2>1. ASSUME NEW i, NEW a, NEW b PROVE [InRead(i, a) EXCEPT !.witness = b] = InRead(i, b)
        <3>1. PICK z : z = InRead(i, a)
            OBVIOUS
        <3>2. [z EXCEPT !.witness = b] = [z EXCEPT !["witness"] = b]
            OBVIOUS
        <3>3. [z EXCEPT !["witness"] = b] = InRead(i, b)
            BY <3>1 DEF InRead
        <3> QED
            BY <3>1, <3>2, <3>3
    <2>2. /\ DOMAIN s = 1 .. Len(t.ins)
          /\ s = [k \in 1 .. Len(t.ins) |-> s[k]]
          /\ s[w] = InRead(t.ins[w], part)
          /\ \A k \in 1 .. Len(t.ins) : k # w => s[k] = InRead(t.ins[k],
                IF k < w THEN t.ins[k].witness ELSE NoWitness)
        BY <1>1 DEF InsSoFar
    <2>3. PICK u, e : u = [s EXCEPT ![w].witness = x] /\ e = [s[w] EXCEPT !.witness = x]
        OBVIOUS
    <2>4. /\ u = [k \in 1 .. Len(t.ins) |-> u[k]]
          /\ u[w] = InRead(t.ins[w], x)
          /\ \A k \in 1 .. Len(t.ins) : k # w => u[k] = s[k]
        <3>1. u = [s EXCEPT ![w] = e]
            BY <2>3
        <3>2. e = InRead(t.ins[w], x)
            BY <2>1, <2>2, <2>3
        <3> QED
            BY <2>2, <3>1, <3>2
    <2>5. \A k \in 1 .. Len(t.ins) : u[k] = InRead(t.ins[k],
             IF k < w THEN t.ins[k].witness ELSE IF k = w THEN x ELSE NoWitness)
        <3>1. TAKE k \in 1 .. Len(t.ins)
        <3>2. CASE k = w
            BY <2>4, <3>2
        <3>3. CASE k # w
            BY <2>2, <2>4, <3>3
        <3> QED
            BY <3>2, <3>3
    <2> QED
        BY <2>3, <2>4, <2>5 DEF InsSoFar
<1>3. PICK v, c, d, o : /\ v = t.version /\ c = VU(Len(t.ins)) /\ d = VU(Len(t.outs))
                        /\ o = [k \in 1 .. n |-> OutRead(t.outs[k])]
    OBVIOUS
<1>4. \A i, z : RawOfOuts(t, i, n, z)
         = [version |-> v, in_count |-> c, inputs |-> i, out_count |-> d, outputs |-> o, w |-> z]
    BY <1>3 DEF RawOfOuts
<1>5. PICK g : g = [r.inputs EXCEPT ![w].witness = x]
    OBVIOUS
<1>6. r = [version |-> v, in_count |-> c, inputs |-> s, out_count |-> d, outputs |-> o, w |-> w]
    BY <1>1, <1>4
<1>7. [r EXCEPT !.inputs[w].witness = x, !.w = y] = [r EXCEPT !.inputs = g, !.w = y]
    BY <1>5
<1>8. [r EXCEPT !.inputs = g, !.w = y] = [r EXCEPT !["inputs"] = g, !["w"] = y]
    OBVIOUS
<1>9. [r EXCEPT !["inputs"] = g, !["w"] = y]
         = [version |-> v, in_count |-> c, inputs |-> g, out_count |-> d, outputs |-> o, w |-> y]
    BY <1>6
<1>10. r.inputs = s
    BY <1>6
<1>11. WithWitness(r, w, x, y) = RawOfOuts(t, g, n, y)
    BY <1>4, <1>7, <1>8, <1>9 DEF WithWitness
<1>12. g = InsSoFar(t, w, x)
    BY <1>1, <1>2, <1>5, <1>10
<1> QED
    BY <1>11, <1>12

LEMMA WitnessSoFar ==
    ASSUME NEW t, NEW n, NEW w \in 1 .. Len(t.ins), NEW part,
           NEW r, r = RawOfOuts(t, InsSoFar(t, w, part), n, w)
    PROVE  r.inputs[w].witness = part
<1>1. PICK s : s = InsSoFar(t, w, part)
    OBVIOUS
<1>2. s[w] = InRead(t.ins[w], part)
    BY <1>1 DEF InsSoFar
<1>3. r.inputs = s
    BY <1>1 DEF RawOfOuts
<1> QED
    BY <1>2, <1>3 DEF InRead

LEMMA WitnessComplete ==
    ASSUME NEW t, NEW w \in 1 .. Len(t.ins), Len(t.ins) \in Nat
    PROVE  /\ InsSoFar(t, w, t.ins[w].witness) = InsSoFar(t, w + 1, NoWitness)
           /\ Segwit(t) => InsSoFar(t, Len(t.ins) + 1, NoWitness) = FromDisk(t).inputs
           /\ ~Segwit(t) => InsSoFar(t, 1, NoWitness) = FromDisk(t).inputs
<1>1. \A k \in 1 .. Len(t.ins) :
         InRead(t.ins[k], IF k < w THEN t.ins[k].witness ELSE IF k = w THEN t.ins[w].witness ELSE NoWitness)
         = InRead(t.ins[k], IF k < w + 1 THEN t.ins[k].witness ELSE IF k = w + 1 THEN NoWitness ELSE NoWitness)
    <2>1. TAKE k \in 1 .. Len(t.ins)
    <2>2. k < w + 1 <=> k < w \/ k = w
        OBVIOUS
    <2>3. CASE k < w
        BY <2>2, <2>3
    <2>4. CASE k = w
        BY <2>2, <2>4
    <2>5. CASE ~(k < w) /\ k # w
        BY <2>2, <2>5
    <2> QED
        BY <2>3, <2>4, <2>5
<1>2. \A k \in 1 .. Len(t.ins) : k < Len(t.ins) + 1 /\ ~(k < 1)
    OBVIOUS
<1>3. FromDisk(t).inputs = [k \in 1 .. Len(t.ins) |->
         InRead(t.ins[k], IF Segwit(t) THEN t.ins[k].witness ELSE NoWitness)]
    BY DEF FromDisk
<1>4. Segwit(t) => InsSoFar(t, Len(t.ins) + 1, NoWitness) = FromDisk(t).inputs
    BY <1>2, <1>3 DEF InsSoFar
<1>5. ~Segwit(t) => InsSoFar(t, 1, NoWitness) = FromDisk(t).inputs
    BY <1>2, <1>3 DEF InsSoFar
<1>6. InsSoFar(t, w, t.ins[w].witness) = InsSoFar(t, w + 1, NoWitness)
    BY <1>1 DEF InsSoFar
<1> QED
    BY <1>4, <1>5, <1>6

-----------------------------------------------------------------------------
LEMMA ReaderInit == Init => ReaderInv
<1> SUFFICES ASSUME Init PROVE ReaderInv
    OBVIOUS
<1>1. txdata \in Blocks /\ at = "header" /\ pos = 1 /\ block = <<>>
    BY DEF Init
<1> DEFINE w == WrittenBlock(txdata)
<1>2. PICK cut \in Cuts : file = SubSeq(w, 1, Len(w) - cut)
    BY DEF Init
<1>3. IsSeq(w) /\ Len(w) \in Nat /\ cut \in Nat
    BY <1>1, <1>2, BlockParts, SeqShape, CutsAssumption
<1>4. FileInv
    <2>1. PICK n : n = Len(w) - cut
        OBVIOUS
    <2>2. CASE n < 1
        <3>1. file = <<>>
            BY <1>2, <1>3, <2>1, <2>2, SubSeqEmpty DEF IsSeq
        <3>2. /\ IsSeq(file) /\ Len(file) <= Len(w)
              /\ \A i \in 1 .. Len(file) : file[i] = w[i]
            <4> HIDE DEF w
            <4> QED
                BY <1>3, <3>1, EmptyIsSeq
        <3> QED
            BY <3>2 DEF FileInv
    <2>3. CASE n >= 1
        <3>1. n \in 1 .. Len(w)
            BY <1>3, <2>1, <2>3
        <3>2. /\ SubSeq(w, 1, n) \in Seq(Range(w)) /\ Len(SubSeq(w, 1, n)) = n
              /\ \A i \in 1 .. n : SubSeq(w, 1, n)[i] = w[i]
            BY <1>3, <3>1, SubSeqFromOne DEF IsSeq
        <3>3. /\ IsSeq(file) /\ Len(file) <= Len(w)
              /\ \A i \in 1 .. Len(file) : file[i] = w[i]
            <4> HIDE DEF w
            <4>1. file = SubSeq(w, 1, n)
                BY <1>2, <2>1
            <4>2. IsSeq(file)
                BY <3>2, <4>1, IsSeqIn
            <4>3. Len(file) = n /\ n <= Len(w)
                BY <1>3, <3>1, <3>2, <4>1
            <4> QED
                BY <3>2, <4>1, <4>2, <4>3
        <3> QED
            BY <3>3 DEF FileInv
    <2> QED
        BY <1>3, <2>1, <2>2, <2>3
<1>5. BlockInv
    <2>1. IsSeq(block) /\ Len(block) = 0
        BY <1>1, EmptyIsSeq
    <2>2. Len(txdata) \in Nat /\ Len(txdata) > 0
        <3>1. IsSeq(txdata) /\ txdata # <<>>
            BY <1>1, BlocksAssumption
        <3>2. Len(txdata) = 0 => txdata = <<>>
            BY <3>1, EmptyIsSeq, SameSeq
        <3> QED
            BY <3>1, <3>2, SeqShape
    <2> QED
        BY <1>1, <2>1, <2>2 DEF BlockInv
<1>6. StageInv
    BY <1>1 DEF StageInv, VersionInv, FlagsInv, InputInv, OutCountInv, OutputInv, ItemCountInv,
       ItemInv, LocktimeInv, DoneInv
<1> QED
    BY <1>1, <1>4, <1>5, <1>6, WantedIs DEF ReaderInv

\* As long as a transaction is not complete.
LEMMA SameBlock ==
    ASSUME ReaderInv, UNCHANGED <<txdata, file, block>>
    PROVE  /\ (txdata \in Blocks)' /\ FileInv'
           /\ Cur' = Cur /\ Base' = Base
           /\ (UNCHANGED <<tx_count, root>> /\ at \in Reading \ {"header"}
               /\ at' \in Reading \ {"header"}) => BlockInv'
<1>1. txdata' = txdata /\ file' = file /\ block' = block
    OBVIOUS
<1>2. txdata \in Blocks /\ FileInv /\ BlockInv
    BY DEF ReaderInv
<1>3. FileInv'
    BY <1>1, <1>2 DEF FileInv
<1>4. Cur' = Cur /\ Base' = Base
    BY <1>1 DEF Cur, Base
<1>5. ASSUME UNCHANGED <<tx_count, root>>, at \in Reading \ {"header"}, at' \in Reading \ {"header"}
      PROVE  BlockInv'
    BY <1>1, <1>2, <1>5, WantedIs DEF BlockInv
<1> QED
    BY <1>1, <1>2, <1>3, <1>4, <1>5

\* A step is in one stage, and says nothing of the others.
LEMMA NoOtherStage ==
    /\ at' # "version" => VersionInv'
    /\ at' # "flags" => FlagsInv'
    /\ at' # "input" => InputInv'
    /\ at' # "out_count" => OutCountInv'
    /\ at' # "output" => OutputInv'
    /\ at' # "item_count" => ItemCountInv'
    /\ at' # "item" => ItemInv'
    /\ at' # "locktime" => LocktimeInv'
    /\ at' # "done" => DoneInv'
BY DEF VersionInv, FlagsInv, InputInv, OutCountInv, OutputInv, ItemCountInv, ItemInv,
   LocktimeInv, DoneInv

\* A step within a transaction.
LEMMA WithinTx ==
    ASSUME ReaderInv, NEW a \in Reading \ {"header"}, Reads(a),
           UNCHANGED <<txdata, file, tx_count, root, block>>,
           at' \in Reading \ {"header"}
    PROVE  /\ at = a /\ at \in Reading /\ FileInv /\ BlockInv /\ StageInv /\ txdata \in Blocks
           /\ IsTransaction(Cur) /\ Base \in Nat
           /\ Cur' = Cur /\ Base' = Base
           /\ StageInv' => ReaderInv'
<1>1. /\ at = a /\ at \in Reading /\ at # "header"
      /\ FileInv /\ BlockInv /\ StageInv /\ txdata \in Blocks
    BY DEF Reads, ReaderInv
<1>2. IsTransaction(Cur) /\ Base \in Nat
    BY <1>1, CurFacts
<1>3. (txdata \in Blocks)' /\ FileInv' /\ Cur' = Cur /\ Base' = Base /\ BlockInv'
    BY <1>1, SameBlock
<1> QED
    BY <1>1, <1>2, <1>3 DEF ReaderInv

LEMMA ReadVersionKeeps ==
    ASSUME ReaderInv, ReadVersion
    PROVE  ReaderInv'
<1>1. /\ Reads("version") /\ "version" \in Reading \ {"header"}
      /\ UNCHANGED <<txdata, file, tx_count, root, block>> /\ flags' = 0
    BY WantedIs DEF ReadVersion
<1>2. at' \in {"flags", "input"}
    BY DEF ReadVersion, Inputs
<1>3. /\ at = "version" /\ at \in Reading /\ FileInv /\ BlockInv /\ StageInv
      /\ IsTransaction(Cur) /\ Base \in Nat /\ Cur' = Cur /\ Base' = Base
      /\ StageInv' => ReaderInv'
    <2>1. at' \in Reading \ {"header"}
        BY <1>2, WantedIs
    <2> QED
        BY <1>1, <2>1, WithinTx
<1>4. PICK n : n = IF Segwit(Cur) THEN 0 ELSE Len(Cur.ins)
    OBVIOUS
<1>5. n \in Nat /\ (n = 0 <=> Segwit(Cur))
    BY <1>3, <1>4, PlacesAreNat
<1>6. Read(1) = Cur.version /\ ReadVarUint(2) = VU(n)
    <2>1. PICK fs : fs = VersionFields(Cur)
        OBVIOUS
    <2>2. fs[1].x = Cur.version /\ fs[2].x = CompactSize(n) /\ Len(fs) = 2
        BY <1>4, <2>1 DEF VersionFields, Field
    <2>3. AheadIs(fs)
        BY <1>3, <2>1, Ahead
    <2>4. Read(1) = fs[1].x /\ Read(2) = fs[2].x
        <3>1. "version" \in Reading /\ Reads("version") /\ FileInv
            BY <1>1, <1>3
        <3>2. Len(fs) = Len(Wanted["version"]) /\ Len(fs) \in Nat
            BY <2>2, WantedIs
        <3>3. \A k \in 1 .. Len(fs) : Read(k) = fs[k].x
            BY <2>3, <3>1, <3>2, ReadsAhead
        <3> QED
            BY <2>2, <3>3
    <2> QED
        BY <1>5, <2>2, <2>4, LengthsKept DEF ReadVarUint, VU
<1>7. pos' = Base + 3
    <2>1. pos = Base + 1 /\ pos' = pos + 2
        BY <1>1, <1>3, WantedIs DEF StageInv, VersionInv, Reads
    <2> QED
        BY <1>3, <2>1
<1>8. CASE Segwit(Cur)
    <2>1. raw' = [version |-> Cur.version] /\ at' = "flags"
        BY <1>5, <1>6, <1>8 DEF ReadVersion, VU
    <2>2. FlagsInv'
        BY <1>3, <1>7, <1>8, <2>1 DEF FlagsInv
    <2> QED
        BY <1>3, <2>1, <2>2, NoOtherStage DEF StageInv
<1>9. CASE ~Segwit(Cur)
    <2>1. n = Len(Cur.ins) /\ n > 0
        BY <1>4, <1>5, <1>9
    <2>2. Inputs(VU(n), [version |-> Cur.version])
        BY <1>5, <1>6, <1>9 DEF ReadVersion, VU
    <2>3. /\ raw' = [version |-> Cur.version, in_count |-> VU(n), inputs |-> <<>>]
          /\ left' = n /\ at' = "input"
        BY <2>2 DEF Inputs, VU
    <2>4. raw' = RawOfIns(Cur, 0)
        BY <2>1, <2>3, NoInYet
    <2>5. InputInv'
        <3>1. n - n = 0 /\ HeadLen(Cur) = 2 /\ FlagOf(Cur) = 0 /\ 2 + 5 * 0 = 2
            BY <1>5, <1>9 DEF HeadLen, FlagOf
        <3>2. pos' = Base + (HeadLen(Cur) + 5 * (n - n)) + 1
            BY <1>3, <1>7, <3>1
        <3>3. left' \in 1 .. n
            BY <1>5, <2>1, <2>3
        <3> QED
            BY <1>1, <1>3, <2>1, <2>3, <2>4, <3>1, <3>2, <3>3 DEF InputInv
    <2> QED
        BY <1>3, <2>3, <2>5, NoOtherStage DEF StageInv
<1> QED
    BY <1>8, <1>9

LEMMA ReadFlagsKeeps ==
    ASSUME ReaderInv, ReadFlags
    PROVE  ReaderInv'
<1>1. /\ Reads("flags") /\ "flags" \in Reading \ {"header"}
      /\ UNCHANGED <<txdata, file, tx_count, root, block>> /\ at' = "input"
    BY WantedIs DEF ReadFlags, Inputs
<1>2. /\ at = "flags" /\ at \in Reading /\ FileInv /\ BlockInv /\ StageInv
      /\ IsTransaction(Cur) /\ Base \in Nat /\ Cur' = Cur /\ Base' = Base
      /\ StageInv' => ReaderInv'
    <2>1. at' \in Reading \ {"header"}
        BY <1>1, WantedIs
    <2> QED
        BY <1>1, <2>1, WithinTx
<1>3. PICK n : n = Len(Cur.ins)
    OBVIOUS
<1>4. n \in Nat /\ n > 0
    BY <1>2, <1>3, PlacesAreNat
<1>5. Read(1) = 1 /\ ReadVarUint(2) = VU(n)
    <2>1. PICK fs : fs = FlagsFields(Cur)
        OBVIOUS
    <2>2. fs[1].x = 1 /\ fs[2].x = CompactSize(n) /\ Len(fs) = 2
        BY <1>3, <2>1 DEF FlagsFields, Field
    <2>3. AheadIs(fs)
        BY <1>2, <2>1, Ahead
    <2>4. Read(1) = fs[1].x /\ Read(2) = fs[2].x
        <3>1. "flags" \in Reading /\ Reads("flags") /\ FileInv
            BY <1>1, <1>2
        <3>2. Len(fs) = Len(Wanted["flags"]) /\ Len(fs) \in Nat
            BY <2>2, WantedIs
        <3>3. \A k \in 1 .. Len(fs) : Read(k) = fs[k].x
            BY <2>3, <3>1, <3>2, ReadsAhead
        <3> QED
            BY <2>2, <3>3
    <2> QED
        BY <1>4, <2>2, <2>4, LengthsKept DEF ReadVarUint, VU
<1>6. /\ Segwit(Cur) /\ pos = Base + 3 /\ raw = [version |-> Cur.version] /\ pos' = pos + 2
    BY <1>1, <1>2, WantedIs DEF StageInv, FlagsInv, Reads
<1>7. Inputs(VU(n), raw) /\ flags' = 1
    BY <1>5 DEF ReadFlags
<1>8. /\ raw' = [version |-> Cur.version, in_count |-> VU(n), inputs |-> <<>>]
      /\ left' = n
    BY <1>6, <1>7 DEF Inputs, VU
<1>9. raw' = RawOfIns(Cur, 0)
    BY <1>3, <1>8, NoInYet
<1>10. InputInv'
    <2>1. n - n = 0 /\ HeadLen(Cur) = 4 /\ FlagOf(Cur) = 1 /\ 4 + 5 * 0 = 4
        BY <1>4, <1>6 DEF HeadLen, FlagOf
    <2>2. pos' = Base + (HeadLen(Cur) + 5 * (n - n)) + 1
        BY <1>2, <1>6, <2>1
    <2>3. left' \in 1 .. n
        BY <1>4, <1>8
    <2> QED
        BY <1>2, <1>3, <1>7, <1>8, <1>9, <2>1, <2>2, <2>3 DEF InputInv
<1> QED
    BY <1>1, <1>2, <1>10, NoOtherStage DEF StageInv

LEMMA ReadInputKeeps ==
    ASSUME ReaderInv, ReadInput
    PROVE  ReaderInv'
<1>1. /\ Reads("input") /\ "input" \in Reading \ {"header"}
      /\ UNCHANGED <<txdata, file, tx_count, flags, root, block>>
      /\ left' = left - 1 /\ at' = IF left' = 0 THEN "out_count" ELSE "input"
    BY WantedIs DEF ReadInput
<1>2. /\ at = "input" /\ at \in Reading /\ FileInv /\ BlockInv /\ StageInv
      /\ IsTransaction(Cur) /\ Base \in Nat /\ Cur' = Cur /\ Base' = Base
      /\ StageInv' => ReaderInv'
    <2>1. at' \in Reading \ {"header"}
        BY <1>1, WantedIs
    <2> QED
        BY <1>1, <2>1, WithinTx
<1>3. PICK n, h, m : n = Len(Cur.ins) /\ h = HeadLen(Cur) /\ m = n - left
    OBVIOUS
<1>4. /\ n \in Nat /\ h \in Nat /\ OutsAt(Cur) = h + 5 * n + 1
      /\ \A k \in 1 .. n : IsInput(Cur.ins[k])
    <2>1. Len(Cur.ins) \in Nat /\ HeadLen(Cur) \in {2, 4} /\ DOMAIN Cur.ins = 1 .. Len(Cur.ins)
        BY <1>2, PlacesAreNat
    <2>2. OutsAt(Cur) = HeadLen(Cur) + 5 * Len(Cur.ins) + 1
        BY DEF OutsAt
    <2>3. \A k \in DOMAIN Cur.ins : IsInput(Cur.ins[k])
        BY <1>2 DEF IsTransaction
    <2> QED
        BY <1>3, <2>1, <2>2, <2>3
<1>5. /\ left \in 1 .. n /\ flags = FlagOf(Cur)
      /\ pos = Base + (h + 5 * m) + 1 /\ raw = RawOfIns(Cur, m) /\ pos' = pos + 5
    BY <1>1, <1>2, <1>3, WantedIs DEF StageInv, InputInv, Reads
<1>6. m \in Nat /\ m + 1 \in 1 .. n /\ n - left' = m + 1 /\ n - left + 1 = m + 1
    BY <1>1, <1>3, <1>4, <1>5
<1>7. raw' = RawOfIns(Cur, m + 1)
    <2>1. PICK i : i = Cur.ins[m + 1]
        OBVIOUS
    <2>2. NthIn = i /\ i.script.len \in Nat
        BY <1>3, <1>4, <1>6, <2>1 DEF NthIn, IsInput
    <2>3. PICK fs : fs = InFields(i)
        OBVIOUS
    <2>4. /\ fs[1].x = i.txid /\ fs[2].x = i.vout /\ fs[3].x = CompactSize(i.script.len)
          /\ fs[4].x = i.script /\ fs[5].x = i.sequence /\ Len(fs) = 5
        BY <2>3 DEF InFields, Field
    <2>5. AheadIs(fs)
        BY <1>2, <2>2, <2>3, Ahead
    <2>6. \A k \in 1 .. Len(fs) : Read(k) = fs[k].x
        <3>1. "input" \in Reading /\ Reads("input") /\ FileInv
            BY <1>1, <1>2
        <3>2. Len(fs) = Len(Wanted["input"]) /\ Len(fs) \in Nat
            BY <2>4, WantedIs
        <3> QED
            BY <2>5, <3>1, <3>2, ReadsAhead
    <2>7. /\ Read(1) = i.txid /\ Read(2) = i.vout /\ Read(3) = CompactSize(i.script.len)
          /\ Read(4) = i.script /\ Read(5) = i.sequence
        BY <2>4, <2>6
    <2>8. ReadVarUint(3) = VU(i.script.len)
        BY <2>2, <2>7, LengthsKept DEF ReadVarUint, VU
    <2>9. raw' = [raw EXCEPT !.inputs = Append(@, InRead(i, NoWitness))]
        BY <2>7, <2>8 DEF ReadInput, InRead
    <2> QED
        BY <1>5, <1>6, <2>1, <2>9, OneInMore
<1>8. CASE left' = 0
    <2>1. at' = "out_count"
        BY <1>1, <1>8
    <2>2. m + 1 = n
        BY <1>1, <1>3, <1>4, <1>5, <1>8
    <2>3. pos' = Base + (OutsAt(Cur) - 1) + 1
        BY <1>2, <1>4, <1>5, <1>6, <2>2
    <2>4. OutCountInv'
        BY <1>1, <1>2, <1>3, <1>5, <1>7, <2>2, <2>3 DEF OutCountInv
    <2> QED
        BY <1>2, <2>1, <2>4, NoOtherStage DEF StageInv
<1>9. CASE left' # 0
    <2>1. at' = "input"
        BY <1>1, <1>9
    <2>2. left' \in 1 .. n
        BY <1>1, <1>4, <1>5, <1>9
    <2>3. pos' = Base + (h + 5 * (m + 1)) + 1
        BY <1>2, <1>4, <1>5, <1>6
    <2>4. pos' = Base + (h + 5 * (n - left')) + 1 /\ raw' = RawOfIns(Cur, n - left')
        BY <1>6, <1>7, <2>3
    <2>5. InputInv'
        BY <1>1, <1>2, <1>3, <1>5, <2>2, <2>4 DEF InputInv
    <2> QED
        BY <1>2, <2>1, <2>5, NoOtherStage DEF StageInv
<1> QED
    BY <1>8, <1>9

\* All outputs have been read.
LEMMA ToWitnesses ==
    ASSUME IsTransaction(Cur), Base \in Nat, Cur' = Cur, Base' = Base, flags = FlagOf(Cur),
           Witnesses, pos' = Base + WitsAt(Cur) + 1,
           raw' = RawOfOuts(Cur, InsSoFar(Cur, 1, NoWitness), Len(Cur.outs), 1)
    PROVE  at' \in {"item_count", "locktime"} /\ StageInv'
<1>1. Len(Cur.ins) \in Nat /\ 1 \in 1 .. Len(Cur.ins)
    BY PlacesAreNat
<1>2. raw'.w = 1
    BY DEF RawOfOuts
<1>3. CASE Segwit(Cur)
    <2>1. at' = "item_count"
        BY <1>3 DEF Witnesses, AfterOutputs, FlagOf
    <2>2. WitAt(Cur, 1) = WitsAt(Cur)
        BY <1>3, FieldsOfWits
    <2>3. ItemCountInv'
        BY <1>1, <1>2, <1>3, <2>2 DEF ItemCountInv
    <2> QED
        BY <2>1, <2>3, NoOtherStage DEF StageInv
<1>4. CASE ~Segwit(Cur)
    <2>1. at' = "locktime"
        BY <1>4 DEF Witnesses, AfterOutputs, FlagOf
    <2>2. LockAt(Cur) = WitsAt(Cur)
        BY <1>4, PlacesAreNat
    <2>3. InsSoFar(Cur, 1, NoWitness) = FromDisk(Cur).inputs
        BY <1>1, <1>4, WitnessComplete
    <2>4. LocktimeInv'
        BY <1>2, <2>2, <2>3 DEF LocktimeInv
    <2> QED
        BY <2>1, <2>4, NoOtherStage DEF StageInv
<1> QED
    BY <1>3, <1>4

LEMMA ReadOutCountKeeps ==
    ASSUME ReaderInv, ReadOutCount
    PROVE  ReaderInv'
<1>1. /\ Reads("out_count") /\ "out_count" \in Reading \ {"header"}
      /\ UNCHANGED <<txdata, file, tx_count, flags, root, block>>
    BY WantedIs DEF ReadOutCount
<1>2. at' \in Reading \ {"header"}
    BY WantedIs DEF ReadOutCount, Witnesses, AfterOutputs
<1>3. /\ at = "out_count" /\ at \in Reading /\ FileInv /\ BlockInv /\ StageInv
      /\ IsTransaction(Cur) /\ Base \in Nat /\ Cur' = Cur /\ Base' = Base
      /\ StageInv' => ReaderInv'
    BY <1>1, <1>2, WithinTx
<1>4. PICK n, o : n = Len(Cur.outs) /\ o = OutsAt(Cur)
    OBVIOUS
<1>5. n \in Nat /\ o \in Nat /\ WitsAt(Cur) = o + 3 * n
    BY <1>3, <1>4, PlacesAreNat
<1>6. /\ flags = FlagOf(Cur) /\ pos = Base + (o - 1) + 1 /\ raw = RawOfIns(Cur, Len(Cur.ins))
      /\ pos' = pos + 1
    BY <1>1, <1>3, <1>4, WantedIs DEF StageInv, OutCountInv, Reads
<1>7. pos' = Base + o + 1
    BY <1>3, <1>5, <1>6
<1>8. ReadVarUint(1) = VU(n)
    <2>1. PICK fs : fs = CountField(Cur.outs)
        OBVIOUS
    <2>2. fs[1].x = CompactSize(n) /\ Len(fs) = 1
        BY <1>4, <2>1 DEF CountField, Field
    <2>3. AheadIs(fs)
        BY <1>3, <2>1, Ahead
    <2>4. Read(1) = fs[1].x
        <3>1. "out_count" \in Reading /\ Reads("out_count") /\ FileInv
            BY <1>1, <1>3
        <3>2. Len(fs) = Len(Wanted["out_count"]) /\ Len(fs) \in Nat
            BY <2>2, WantedIs
        <3>3. \A k \in 1 .. Len(fs) : Read(k) = fs[k].x
            BY <2>3, <3>1, <3>2, ReadsAhead
        <3> QED
            BY <2>2, <3>3
    <2> QED
        BY <1>5, <2>2, <2>4, LengthsKept DEF ReadVarUint, VU
<1>9. raw' = RawOfOuts(Cur, InsSoFar(Cur, 1, NoWitness), 0, 1) /\ raw'.out_count.value = n
    <2>1. raw' = [version |-> raw.version, in_count |-> raw.in_count, inputs |-> raw.inputs,
                  out_count |-> VU(Len(Cur.outs)), outputs |-> <<>>, w |-> 1]
        BY <1>4, <1>8 DEF ReadOutCount
    <2>2. raw'.out_count = VU(n)
        BY <1>4, <2>1
    <2> QED
        BY <1>6, <2>1, <2>2, NoOutYet DEF VU
<1>10. CASE n > 0
    <2>1. at' = "output" /\ left' = n
        BY <1>9, <1>10 DEF ReadOutCount
    <2>2. n - left' = 0 /\ left' \in 1 .. n
        BY <1>5, <1>10, <2>1
    <2>3. pos' = Base + (o + 3 * (n - left')) + 1
        <3>1. pos' = Base + (o + 3 * 0) + 1
            BY <1>3, <1>5, <1>7
        <3> QED
            BY <2>2, <3>1
    <2>4. OutputInv'
        BY <1>1, <1>3, <1>4, <1>6, <1>9, <2>2, <2>3 DEF OutputInv
    <2> QED
        BY <1>3, <2>1, <2>4, NoOtherStage DEF StageInv
<1>11. CASE ~(n > 0)
    <2>1. Witnesses
        BY <1>9, <1>11 DEF ReadOutCount
    <2>2. n = 0 /\ WitsAt(Cur) = o
        BY <1>5, <1>11
    <2> QED
        BY <1>3, <1>4, <1>6, <1>7, <1>9, <2>1, <2>2, ToWitnesses
<1> QED
    BY <1>10, <1>11

LEMMA ReadOutputKeeps ==
    ASSUME ReaderInv, ReadOutput
    PROVE  ReaderInv'
<1>1. /\ Reads("output") /\ "output" \in Reading \ {"header"}
      /\ UNCHANGED <<txdata, file, tx_count, flags, root, block>>
    BY WantedIs DEF ReadOutput
<1>2. at' \in Reading \ {"header"}
    BY WantedIs DEF ReadOutput, Witnesses, AfterOutputs
<1>3. /\ at = "output" /\ at \in Reading /\ FileInv /\ BlockInv /\ StageInv
      /\ IsTransaction(Cur) /\ Base \in Nat /\ Cur' = Cur /\ Base' = Base
      /\ StageInv' => ReaderInv'
    BY <1>1, <1>2, WithinTx
<1>4. PICK n, h, m, ins : /\ n = Len(Cur.outs) /\ h = OutsAt(Cur) /\ m = n - left
                          /\ ins = InsSoFar(Cur, 1, NoWitness)
    OBVIOUS
<1>5. /\ n \in Nat /\ h \in Nat /\ WitsAt(Cur) = h + 3 * n
      /\ \A k \in 1 .. n : Cur.outs[k].script.len \in Nat
    BY <1>3, <1>4, PlacesAreNat DEF IsTransaction
<1>6. /\ left \in 1 .. n /\ flags = FlagOf(Cur)
      /\ pos = Base + (h + 3 * m) + 1 /\ raw = RawOfOuts(Cur, ins, m, 1) /\ pos' = pos + 3
    BY <1>1, <1>3, <1>4, WantedIs DEF StageInv, OutputInv, Reads
<1>7. m \in Nat /\ m + 1 \in 1 .. n /\ n - left + 1 = m + 1
    BY <1>4, <1>5, <1>6
<1>8. raw' = RawOfOuts(Cur, ins, m + 1, 1)
    <2>1. PICK i : i = Cur.outs[m + 1]
        OBVIOUS
    <2>2. NthOut = i /\ i.script.len \in Nat
        BY <1>4, <1>5, <1>7, <2>1 DEF NthOut
    <2>3. PICK fs : fs = OutFields(i)
        OBVIOUS
    <2>4. /\ fs[1].x = i.value /\ fs[2].x = CompactSize(i.script.len)
          /\ fs[3].x = i.script /\ Len(fs) = 3
        BY <2>3 DEF OutFields, Field
    <2>5. AheadIs(fs)
        BY <1>3, <2>2, <2>3, Ahead
    <2>6. \A k \in 1 .. Len(fs) : Read(k) = fs[k].x
        <3>1. "output" \in Reading /\ Reads("output") /\ FileInv
            BY <1>1, <1>3
        <3>2. Len(fs) = Len(Wanted["output"]) /\ Len(fs) \in Nat
            BY <2>4, WantedIs
        <3> QED
            BY <2>5, <3>1, <3>2, ReadsAhead
    <2>7. Read(1) = i.value /\ Read(2) = CompactSize(i.script.len) /\ Read(3) = i.script
        BY <2>4, <2>6
    <2>8. ReadVarUint(2) = VU(i.script.len)
        BY <2>2, <2>7, LengthsKept DEF ReadVarUint, VU
    <2>9. raw' = WithOutput(raw, OutRead(i))
        BY <2>7, <2>8 DEF ReadOutput, OutRead, WithOutput
    <2> QED
        BY <1>6, <1>7, <2>1, <2>9, OneOutMore
<1>9. CASE left > 1
    <2>1. at' = "output" /\ left' = left - 1
        BY <1>9 DEF ReadOutput
    <2>2. left' \in 1 .. n /\ n - left' = m + 1
        BY <1>4, <1>5, <1>6, <1>9, <2>1
    <2>3. pos' = Base + (h + 3 * (m + 1)) + 1
        BY <1>3, <1>5, <1>6, <1>7
    <2>4. OutputInv'
        BY <1>1, <1>3, <1>4, <1>6, <1>8, <2>2, <2>3 DEF OutputInv
    <2> QED
        BY <1>3, <2>1, <2>4, NoOtherStage DEF StageInv
<1>10. CASE ~(left > 1)
    <2>1. Witnesses
        BY <1>10 DEF ReadOutput
    <2>2. m + 1 = n
        BY <1>4, <1>5, <1>6, <1>10
    <2>3. pos' = Base + WitsAt(Cur) + 1
        BY <1>3, <1>5, <1>6, <1>7, <2>2
    <2> QED
        BY <1>3, <1>4, <1>6, <1>8, <2>1, <2>2, <2>3, ToWitnesses
<1> QED
    BY <1>9, <1>10

\* The first m items of a witness have been read: the next one follows, or the
\* next input's witness, or the lock time.
LEMMA WitnessStep ==
    ASSUME IsTransaction(Cur), Segwit(Cur), Base \in Nat, Cur' = Cur, Base' = Base,
           raw.w \in 1 .. Len(Cur.ins), raw.in_count = VU(Len(Cur.ins)),
           NEW m \in Nat, m <= Len(CurWit), left' = Len(CurWit) - m,
           IF left' = 0 THEN NextWitness ELSE at' = "item",
           pos' = Base + (WitAt(Cur, raw.w) + (1 + 2 * m)) + 1,
           raw' = RawOfOuts(Cur, InsSoFar(Cur, raw.w, First(CurWit, m)), Len(Cur.outs),
                            IF left' = 0 THEN raw.w + 1 ELSE raw.w)
    PROVE  at' \in {"item", "item_count", "locktime"} /\ StageInv'
<1>1. PICK n, w, wit : n = Len(Cur.ins) /\ w = raw.w /\ wit = CurWit
    OBVIOUS
<1>2. n \in Nat /\ w \in 1 .. n /\ wit = Cur.ins[w].witness
    BY <1>1, PlacesAreNat DEF CurWit
<1>3. IsSeq(wit) /\ Len(wit) \in Nat
    <2>1. IsInput(Cur.ins[w])
        BY <1>1, <1>2, PlacesAreNat DEF IsTransaction
    <2> QED
        BY <1>2, <2>1, SeqShape DEF IsInput
<1>4. CASE left' = 0
    <2>1. m = Len(wit)
        BY <1>1, <1>3, <1>4
    <2>2. First(wit, m) = wit
        BY <1>3, <2>1, SeqShape DEF First
    <2>3. InsSoFar(Cur, w, wit) = InsSoFar(Cur, w + 1, NoWitness)
        BY <1>1, <1>2, WitnessComplete
    <2>4. raw' = RawOfOuts(Cur, InsSoFar(Cur, w + 1, NoWitness), Len(Cur.outs), w + 1)
        BY <1>1, <1>4, <2>2, <2>3
    <2>5. raw'.w = w + 1
        BY <2>4 DEF RawOfOuts
    <2>6. WitAt(Cur, w + 1) = WitAt(Cur, w) + (1 + 2 * m)
        BY <1>1, <1>2, <2>1, FieldsOfWits
    <2>7. pos' = Base + WitAt(Cur, w + 1) + 1
        BY <1>1, <2>6
    <2>8. at' = (IF w = n THEN "locktime" ELSE "item_count")
        <3>1. raw.in_count.value = n
            BY <1>1 DEF VU
        <3> QED
            BY <1>1, <1>4, <3>1 DEF NextWitness
    <2>9. CASE w = n
        <3>1. WitAt(Cur, w + 1) = LockAt(Cur)
            BY <1>1, <2>9, FieldsOfWits
        <3>2. InsSoFar(Cur, w + 1, NoWitness) = FromDisk(Cur).inputs
            BY <1>1, <1>2, <2>9, WitnessComplete
        <3>3. LocktimeInv'
            BY <2>4, <2>5, <2>7, <3>1, <3>2 DEF LocktimeInv
        <3> QED
            BY <2>8, <2>9, <3>3, NoOtherStage DEF StageInv
    <2>10. CASE w # n
        <3>1. w + 1 \in 1 .. n
            BY <1>2, <2>10
        <3>2. ItemCountInv'
            BY <1>1, <2>4, <2>5, <2>7, <3>1 DEF ItemCountInv
        <3> QED
            BY <2>8, <2>10, <3>2, NoOtherStage DEF StageInv
    <2> QED
        BY <2>9, <2>10
<1>5. CASE left' # 0
    <2>1. at' = "item" /\ raw' = RawOfOuts(Cur, InsSoFar(Cur, w, First(wit, m)), Len(Cur.outs), w)
        BY <1>1, <1>5
    <2>2. raw'.w = w
        BY <2>1 DEF RawOfOuts
    <2>3. left' \in 1 .. Len(wit) /\ Len(wit) - left' = m
        BY <1>1, <1>3, <1>5
    <2>4. pos' = Base + (WitAt(Cur, w) + (1 + 2 * m)) + 1
        BY <1>1, Zenon
    <2>5. ItemInv'
        BY <1>1, <1>2, <2>1, <2>2, <2>3, <2>4, Zenon DEF ItemInv
    <2> QED
        BY <2>1, <2>5, NoOtherStage DEF StageInv
<1> QED
    BY <1>4, <1>5

LEMMA ReadItemCountKeeps ==
    ASSUME ReaderInv, ReadItemCount
    PROVE  ReaderInv'
<1>1. /\ Reads("item_count") /\ "item_count" \in Reading \ {"header"}
      /\ UNCHANGED <<txdata, file, tx_count, flags, root, block>>
      /\ left' = ReadVarUint(1).value
      /\ IF left' = 0 THEN NextWitness ELSE at' = "item"
    BY WantedIs DEF ReadItemCount
<1>2. at' \in Reading \ {"header"}
    BY WantedIs DEF ReadItemCount, NextWitness
<1>3. /\ at = "item_count" /\ at \in Reading /\ FileInv /\ BlockInv /\ StageInv
      /\ IsTransaction(Cur) /\ Base \in Nat /\ Cur' = Cur /\ Base' = Base
      /\ StageInv' => ReaderInv'
    BY <1>1, <1>2, WithinTx
<1>4. PICK n, w, wit, o : /\ n = Len(Cur.ins) /\ w = raw.w /\ wit = CurWit
                          /\ o = WitAt(Cur, w)
    OBVIOUS
<1>5. /\ Segwit(Cur) /\ w \in 1 .. n /\ pos = Base + o + 1 /\ pos' = pos + 1
      /\ raw = RawOfOuts(Cur, InsSoFar(Cur, w, NoWitness), Len(Cur.outs), w)
    BY <1>1, <1>3, <1>4, WantedIs DEF StageInv, ItemCountInv, Reads
<1>6. o \in Nat /\ Len(wit) \in Nat
    <2>1. PartAt(Written(Cur), o, CountField(Cur.ins[w].witness))
        BY <1>3, <1>4, <1>5, FieldsOfWits
    <2>2. IsInput(Cur.ins[w])
        BY <1>3, <1>4, <1>5, PlacesAreNat DEF IsTransaction
    <2> QED
        BY <1>4, <2>1, <2>2, SeqShape DEF PartAt, IsInput, CurWit
<1>7. left' = Len(wit) - 0
    <2>1. PICK fs : fs = CountField(wit)
        OBVIOUS
    <2>2. fs[1].x = CompactSize(Len(wit)) /\ Len(fs) = 1
        BY <2>1 DEF CountField, Field
    <2>3. AheadIs(fs)
        BY <1>3, <1>4, <2>1, Ahead
    <2>4. Read(1) = fs[1].x
        <3>1. "item_count" \in Reading /\ Reads("item_count") /\ FileInv
            BY <1>1, <1>3
        <3>2. Len(fs) = Len(Wanted["item_count"]) /\ Len(fs) \in Nat
            BY <2>2, WantedIs
        <3>3. \A k \in 1 .. Len(fs) : Read(k) = fs[k].x
            BY <2>3, <3>1, <3>2, ReadsAhead
        <3> QED
            BY <2>2, <3>3
    <2>5. ReadVarUint(1).value = Len(wit)
        BY <1>6, <2>2, <2>4, LengthsKept DEF ReadVarUint
    <2> QED
        BY <1>1, <1>6, <2>5
<1>8. pos' = Base + (o + (1 + 2 * 0)) + 1
    BY <1>3, <1>5, <1>6
<1>9. raw' = RawOfOuts(Cur, InsSoFar(Cur, w, First(wit, 0)), Len(Cur.outs),
                       IF left' = 0 THEN w + 1 ELSE w)
    <2>1. PICK y : y = IF left' = 0 THEN raw.w + 1 ELSE raw.w
        OBVIOUS
    <2>2. raw' = WithWitness(raw, w, <<>>, y)
        BY <1>4, <2>1 DEF ReadItemCount, WithWitness
    <2>3. First(wit, 0) = <<>>
        BY DEF First
    <2>4. WithWitness(raw, w, <<>>, y) = RawOfOuts(Cur, InsSoFar(Cur, w, <<>>), Len(Cur.outs), y)
        BY <1>4, <1>5, PartOfWitness
    <2> QED
        BY <1>4, <2>1, <2>2, <2>3, <2>4
<1>10. raw.in_count = VU(Len(Cur.ins))
    BY <1>5 DEF RawOfOuts
<1>11. StageInv'
    <2>1. 0 \in Nat /\ 0 <= Len(CurWit)
        BY <1>4, <1>6
    <2> QED
        BY <1>1, <1>3, <1>4, <1>5, <1>7, <1>8, <1>9, <1>10, <2>1, WitnessStep
<1> QED
    BY <1>3, <1>11

LEMMA ReadItemKeeps ==
    ASSUME ReaderInv, ReadItem
    PROVE  ReaderInv'
<1>1. /\ Reads("item") /\ "item" \in Reading \ {"header"}
      /\ UNCHANGED <<txdata, file, tx_count, flags, root, block>>
      /\ left' = left - 1
      /\ IF left' = 0 THEN NextWitness ELSE at' = "item"
    BY WantedIs DEF ReadItem
<1>2. at' \in Reading \ {"header"}
    BY WantedIs DEF ReadItem, NextWitness
<1>3. /\ at = "item" /\ at \in Reading /\ FileInv /\ BlockInv /\ StageInv
      /\ IsTransaction(Cur) /\ Base \in Nat /\ Cur' = Cur /\ Base' = Base
      /\ StageInv' => ReaderInv'
    BY <1>1, <1>2, WithinTx
<1>4. PICK n, w, wit, o, m : /\ n = Len(Cur.ins) /\ w = raw.w /\ wit = CurWit
                             /\ o = WitAt(Cur, w) /\ m = Len(wit) - left
    OBVIOUS
<1>5. /\ Segwit(Cur) /\ w \in 1 .. n /\ left \in 1 .. Len(wit)
      /\ pos = Base + (o + (1 + 2 * m)) + 1 /\ pos' = pos + 2
      /\ raw = RawOfOuts(Cur, InsSoFar(Cur, w, First(wit, m)), Len(Cur.outs), w)
    BY <1>1, <1>3, <1>4, WantedIs DEF StageInv, ItemInv, Reads, CurWit
<1>6. o \in Nat /\ Len(wit) \in Nat
    <2>1. PartAt(Written(Cur), o, CountField(Cur.ins[w].witness))
        BY <1>3, <1>4, <1>5, FieldsOfWits
    <2>2. IsInput(Cur.ins[w])
        BY <1>3, <1>4, <1>5, PlacesAreNat DEF IsTransaction
    <2> QED
        BY <1>4, <2>1, <2>2, SeqShape DEF PartAt, IsInput, CurWit
<1>7. /\ m \in Nat /\ m + 1 \in 1 .. Len(wit) /\ Len(wit) - left + 1 = m + 1
      /\ left' = Len(wit) - (m + 1)
    BY <1>1, <1>4, <1>5, <1>6
<1>8. Read(2) = wit[m + 1]
    <2>1. PICK fs : fs = BytesFields(wit[m + 1])
        OBVIOUS
    <2>2. fs[2].x = wit[m + 1] /\ Len(fs) = 2
        BY <2>1 DEF BytesFields, Field
    <2>3. AheadIs(fs)
        BY <1>3, <1>4, <1>7, <2>1, Ahead DEF NthItem
    <2>4. \A k \in 1 .. Len(fs) : Read(k) = fs[k].x
        <3>1. "item" \in Reading /\ Reads("item") /\ FileInv
            BY <1>1, <1>3
        <3>2. Len(fs) = Len(Wanted["item"]) /\ Len(fs) \in Nat
            BY <2>2, WantedIs
        <3> QED
            BY <2>3, <3>1, <3>2, ReadsAhead
    <2> QED
        BY <2>2, <2>4
<1>9. pos' = Base + (o + (1 + 2 * (m + 1))) + 1
    BY <1>3, <1>5, <1>6, <1>7
<1>10. raw' = RawOfOuts(Cur, InsSoFar(Cur, w, First(wit, m + 1)), Len(Cur.outs),
                        IF left' = 0 THEN w + 1 ELSE w)
    <2>1. PICK y, x : /\ y = IF left' = 0 THEN raw.w + 1 ELSE raw.w
                      /\ x = Append(raw.inputs[w].witness, Read(2))
        OBVIOUS
    <2>2. raw' = WithWitness(raw, w, x, y)
        BY <1>4, <2>1 DEF ReadItem, WithWitness
    <2>3. raw.inputs[w].witness = First(wit, m)
        BY <1>4, <1>5, WitnessSoFar
    <2>4. x = First(wit, m + 1)
        BY <1>7, <1>8, <2>1, <2>3, NextOfFirst
    <2>5. WithWitness(raw, w, x, y) = RawOfOuts(Cur, InsSoFar(Cur, w, x), Len(Cur.outs), y)
        BY <1>4, <1>5, PartOfWitness
    <2> QED
        BY <1>4, <2>1, <2>2, <2>4, <2>5
<1>11. raw.in_count = VU(Len(Cur.ins))
    BY <1>5 DEF RawOfOuts
<1>12. StageInv'
    <2>1. PICK k : k = m + 1
        OBVIOUS
    <2>2. k \in Nat /\ k <= Len(CurWit) /\ left' = Len(CurWit) - k
        BY <1>4, <1>6, <1>7, <2>1
    <2>3. pos' = Base + (WitAt(Cur, raw.w) + (1 + 2 * k)) + 1
        BY <1>4, <1>9, <2>1
    <2>4. raw' = RawOfOuts(Cur, InsSoFar(Cur, raw.w, First(CurWit, k)), Len(Cur.outs),
                           IF left' = 0 THEN raw.w + 1 ELSE raw.w)
        BY <1>4, <1>10, <2>1
    <2> QED
        BY <1>1, <1>3, <1>4, <1>5, <1>11, <2>2, <2>3, <2>4, WitnessStep
<1> QED
    BY <1>3, <1>12

LEMMA ReadHeaderKeeps ==
    ASSUME ReaderInv, ReadHeader
    PROVE  ReaderInv'
<1>1. /\ Reads("header") /\ "header" \in Reading /\ "version" \in Reading /\ at' = "version"
      /\ UNCHANGED <<txdata, file, flags, left, raw, block>>
      /\ root' = Read(1) /\ tx_count' = ReadVarUint(2).value
    BY WantedIs DEF ReadHeader
<1>2. at = "header" /\ at \in Reading /\ FileInv /\ BlockInv /\ txdata \in Blocks
    BY <1>1 DEF ReaderInv, Reads
<1>3. (txdata \in Blocks)' /\ FileInv' /\ Cur' = Cur /\ Base' = Base
    BY <1>1, SameBlock
<1>4. /\ Len(block) = 0 /\ pos = 1 /\ Len(block) < Len(txdata) /\ Len(txdata) \in Nat
      /\ pos' = pos + 2
    BY <1>1, <1>2, CurFacts, WantedIs DEF BlockInv, Reads
<1>5. root' = NetworkRoot(txdata) /\ tx_count' = Len(txdata)
    <2>1. PICK fs : fs = HeaderFields(txdata)
        OBVIOUS
    <2>2. fs[1].x = NetworkRoot(txdata) /\ fs[2].x = CompactSize(Len(txdata)) /\ Len(fs) = 2
        BY <2>1 DEF HeaderFields, Field
    <2>3. AheadIs(fs)
        BY <1>2, <2>1, Ahead
    <2>4. \A k \in 1 .. Len(fs) : Read(k) = fs[k].x
        <3>1. "header" \in Reading /\ Reads("header") /\ FileInv
            BY <1>1, <1>2
        <3>2. Len(fs) = Len(Wanted["header"]) /\ Len(fs) \in Nat
            BY <2>2, WantedIs
        <3> QED
            BY <2>3, <3>1, <3>2, ReadsAhead
    <2>5. Read(1) = NetworkRoot(txdata) /\ Read(2) = CompactSize(Len(txdata))
        BY <2>2, <2>4
    <2>6. ReadVarUint(2).value = Len(txdata)
        BY <1>4, <2>5, LengthsKept DEF ReadVarUint
    <2> QED
        BY <1>1, <2>5, <2>6
<1>6. BlockInv'
    BY <1>1, <1>2, <1>4, <1>5 DEF BlockInv
<1>7. VersionInv'
    <2>1. Base = 2
        BY <1>2, <1>4, BlockParts DEF Base
    <2> QED
        BY <1>3, <1>4, <2>1 DEF VersionInv
<1> QED
    BY <1>1, <1>3, <1>6, <1>7, NoOtherStage DEF ReaderInv, StageInv

LEMMA ReadLocktimeKeeps ==
    ASSUME ReaderInv, ReadLocktime
    PROVE  ReaderInv'
<1>1. /\ Reads("locktime") /\ "locktime" \in Reading /\ "version" \in Reading
      /\ UNCHANGED <<txdata, file, tx_count, flags, left, root>>
      /\ at' = IF Len(block') = tx_count THEN "done" ELSE "version"
    BY WantedIs DEF ReadLocktime
<1>2. /\ at = "locktime" /\ at \in Reading /\ at \notin {"header", "failed"}
      /\ FileInv /\ BlockInv /\ StageInv /\ txdata \in Blocks
    BY <1>1 DEF ReaderInv, Reads
<1>3. PICK n, b, lock : n = Len(block) /\ b = Base /\ lock = LockAt(Cur)
    OBVIOUS
<1>4. /\ n \in Nat /\ Len(txdata) \in Nat /\ n + 1 <= Len(txdata) /\ b \in Nat
      /\ IsTransaction(Cur) /\ Cur = txdata[n + 1] /\ TxAt(txdata, n + 2) = b + (lock + 1)
    BY <1>2, <1>3, CurFacts DEF Cur
<1>5. lock \in Nat
    BY <1>3, <1>4, PlacesAreNat
<1>6. /\ pos = b + lock + 1 /\ pos' = pos + 1 /\ pos + 1 - 1 <= Len(file)
      /\ raw = RawOfOuts(Cur, FromDisk(Cur).inputs, Len(Cur.outs), raw.w)
    BY <1>1, <1>2, <1>3, WantedIs DEF StageInv, LocktimeInv, Reads
<1>7. Read(1) = Cur.lock_time
    <2>1. PICK fs : fs = LockField(Cur)
        OBVIOUS
    <2>2. fs[1].x = Cur.lock_time /\ Len(fs) = 1
        BY <2>1 DEF LockField, Field
    <2>3. AheadIs(fs)
        BY <1>2, <2>1, Ahead
    <2>4. \A k \in 1 .. Len(fs) : Read(k) = fs[k].x
        <3>1. "locktime" \in Reading /\ Reads("locktime") /\ FileInv
            BY <1>1, <1>2
        <3>2. Len(fs) = Len(Wanted["locktime"]) /\ Len(fs) \in Nat
            BY <2>2, WantedIs
        <3> QED
            BY <2>3, <3>1, <3>2, ReadsAhead
    <2> QED
        BY <2>2, <2>4
<1>8. [version |-> raw.version, in_count |-> raw.in_count, inputs |-> raw.inputs,
       out_count |-> raw.out_count, outputs |-> raw.outputs, locktime |-> Read(1)]
          = FromDisk(Cur)
    <2>1. PICK ins : ins = FromDisk(Cur).inputs
        OBVIOUS
    <2>2. /\ raw.version = Cur.version /\ raw.in_count = VU(Len(Cur.ins)) /\ raw.inputs = ins
          /\ raw.out_count = VU(Len(Cur.outs))
          /\ raw.outputs = [k \in 1 .. Len(Cur.outs) |-> OutRead(Cur.outs[k])]
        BY <1>6, <2>1 DEF RawOfOuts
    <2>3. FromDisk(Cur) = [version |-> Cur.version, in_count |-> VU(Len(Cur.ins)), inputs |-> ins,
             out_count |-> VU(Len(Cur.outs)),
             outputs |-> [k \in 1 .. Len(Cur.outs) |-> OutRead(Cur.outs[k])],
             locktime |-> Cur.lock_time]
        BY <2>1 DEF FromDisk
    <2> QED
        BY <1>7, <2>2, <2>3
<1>9. PICK x, new : x = DoubleSha256(FromDisk(Cur)) /\ new = Append(block, x)
    OBVIOUS
<1>10. block' = new
    BY <1>8, <1>9 DEF ReadLocktime
<1>11. /\ IsSeq(new) /\ Len(new) = n + 1 /\ new[n + 1] = x
       /\ \A k \in 1 .. n : new[k] = block[k]
    BY <1>2, <1>3, <1>9, OneMore DEF BlockInv
<1>12. \A k \in 1 .. Len(new) : new[k] = DoubleSha256(FromDisk(txdata[k]))
    <2>1. TAKE k \in 1 .. Len(new)
    <2>2. k \in 1 .. n \/ k = n + 1
        BY <1>4, <1>11
    <2>3. CASE k \in 1 .. n
        BY <1>2, <1>3, <1>11, <2>3 DEF BlockInv
    <2>4. CASE k = n + 1
        BY <1>4, <1>9, <1>11, <2>4
    <2> QED
        BY <2>2, <2>3, <2>4
<1>13. tx_count = Len(txdata) /\ root = NetworkRoot(txdata)
    BY <1>2 DEF BlockInv
<1>14. FileInv' /\ (txdata \in Blocks)'
    BY <1>1, <1>2 DEF FileInv
<1>15. at' = IF n + 1 = Len(txdata) THEN "done" ELSE "version"
    BY <1>1, <1>10, <1>11, <1>13
<1>16. BlockInv'
    <2>1. at' \in Reading => n + 1 < Len(txdata)
        BY <1>4, <1>15, WantedIs
    <2>2. at' # "header"
        BY <1>15
    <2> QED
        BY <1>1, <1>4, <1>10, <1>11, <1>12, <1>13, <2>1, <2>2 DEF BlockInv
<1>17. pos' = b + (lock + 1) + 1
    BY <1>4, <1>5, <1>6
<1>18. CASE n + 1 = Len(txdata)
    <2>1. PICK w : w = WrittenBlock(txdata)
        OBVIOUS
    <2>2. IsSeq(w) /\ Len(w) = TxAt(txdata, Len(txdata) + 1)
        BY <1>2, <2>1, BlockParts
    <2>3. Len(w) = b + (lock + 1)
        <3>1. n + 1 + 1 = n + 2
            BY <1>4
        <3> QED
            BY <1>4, <1>18, <2>2, <3>1
    <2>4. IsSeq(file) /\ Len(file) <= Len(w) /\ \A i \in 1 .. Len(file) : file[i] = w[i]
        BY <1>2, <2>1 DEF FileInv
    <2>5. Len(file) = Len(w)
        <3>1. Len(file) \in Nat
            BY <2>4, SeqShape
        <3>2. pos = b + (lock + 1) /\ pos \in Nat
            BY <1>4, <1>5, <1>6
        <3>3. pos <= Len(file)
            BY <1>6, <3>1, <3>2
        <3> QED
            BY <2>3, <2>4, <3>1, <3>2, <3>3
    <2>6. file = w
        BY <2>2, <2>4, <2>5, SameSeq
    <2>7. DoneInv'
        BY <1>1, <1>10, <1>11, <1>17, <1>18, <2>1, <2>3, <2>6 DEF DoneInv
    <2>8. at' = "done"
        BY <1>15, <1>18
    <2> QED
        BY <1>14, <1>16, <2>7, <2>8, NoOtherStage DEF ReaderInv, StageInv
<1>19. CASE n + 1 # Len(txdata)
    <2>1. at' = "version"
        BY <1>15, <1>19
    <2>2. Base' = b + (lock + 1)
        <3>1. n + 1 + 1 = n + 2
            BY <1>4
        <3> QED
            BY <1>1, <1>4, <1>10, <1>11, <3>1 DEF Base
    <2>3. VersionInv'
        BY <1>17, <2>2 DEF VersionInv
    <2> QED
        BY <1>1, <1>14, <1>16, <2>1, <2>3, NoOtherStage DEF ReaderInv, StageInv
<1> QED
    BY <1>18, <1>19

LEMMA EofKeeps ==
    ASSUME ReaderInv, Eof
    PROVE  ReaderInv'
<1>1. /\ at' = "failed"
      /\ UNCHANGED <<txdata, file, pos, tx_count, flags, left, root, raw, block>>
    BY DEF Eof
<1>2. FileInv /\ BlockInv /\ txdata \in Blocks
    BY DEF ReaderInv
<1>3. FileInv' /\ (txdata \in Blocks)'
    BY <1>1, <1>2 DEF FileInv
<1>4. BlockInv'
    BY <1>1, <1>2, WantedIs DEF BlockInv
<1> QED
    BY <1>1, <1>3, <1>4, NoOtherStage DEF ReaderInv, StageInv

\* The reader is where the node wrote what it wants, in every state.
THEOREM ReaderKnowsWhereItIs == Spec => []ReaderInv
<1>1. ASSUME ReaderInv, [Next]_vars
      PROVE  ReaderInv'
    <2>1. ASSUME UNCHANGED vars
          PROVE  ReaderInv'
        BY <1>1, <2>1 DEF vars, ReaderInv, FileInv, BlockInv, StageInv, VersionInv, FlagsInv,
           InputInv, OutCountInv, OutputInv, ItemCountInv, ItemInv, LocktimeInv, DoneInv, Cur, Base
    <2> QED
        BY <1>1, <2>1, ReadHeaderKeeps, ReadVersionKeeps, ReadFlagsKeeps, ReadInputKeeps,
           ReadOutCountKeeps, ReadOutputKeeps, ReadItemCountKeeps, ReadItemKeeps,
           ReadLocktimeKeeps, EofKeeps DEF Next
<1> QED
    BY <1>1, ReaderInit, PTL DEF Spec

\* What is read next is what the node wrote there, and a script or an item is as
\* long as the length in front of it says (KeepsItsPlace): nothing in the file
\* tells the reader of block_reader.rs where it is.
THEOREM PlaceIsKept == Spec => []KeepsItsPlace
BY ReaderKnowsWhereItIs, PlaceKept, PTL

\* What is read from disk is hashed over the bytes the network hashes.
LEMMA SameBytes ==
    ASSUME NEW t, IsTransaction(t)
    PROVE  DoubleSha256(FromDisk(t)).hash = Txid(t)
<1>1. PICK n, m, ins, outs :
         /\ n = Len(t.ins) /\ m = Len(t.outs)
         /\ ins = FromDisk(t).inputs /\ outs = FromDisk(t).outputs
    OBVIOUS
<1>2. DOMAIN t.ins = 1 .. n /\ DOMAIN t.outs = 1 .. m
    BY <1>1, PlacesAreNat
<1>3. /\ FromDisk(t).version = t.version /\ FromDisk(t).in_count.buf = CompactSize(n)
      /\ FromDisk(t).out_count.buf = CompactSize(m) /\ FromDisk(t).locktime = t.lock_time
    BY <1>1 DEF FromDisk, VU
<1>4. [k \in DOMAIN ins |-> InputBytes(ins[k])] = [k \in DOMAIN t.ins |-> NetworkInput(t.ins[k])]
    <2>1. \A i, w : InputBytes(InRead(i, w)) = NetworkInput(i)
        BY DEF InputBytes, InRead, NetworkInput, VU
    <2>2. ins = [k \in 1 .. n |->
                    InRead(t.ins[k], IF Segwit(t) THEN t.ins[k].witness ELSE NoWitness)]
        BY <1>1 DEF FromDisk
    <2> QED
        BY <1>2, <2>1, <2>2
<1>5. [k \in DOMAIN outs |-> OutputBytes(outs[k])]
         = [k \in DOMAIN t.outs |-> NetworkOutput(t.outs[k])]
    <2>1. \A o : OutputBytes(OutRead(o)) = NetworkOutput(o)
        BY DEF OutputBytes, OutRead, NetworkOutput, VU
    <2>2. outs = [k \in 1 .. m |-> OutRead(t.outs[k])]
        BY <1>1 DEF FromDisk
    <2> QED
        BY <1>2, <2>1, <2>2
<1>6. ToBytes(FromDisk(t)) = NetworkBytes(t)
    BY <1>1, <1>3, <1>4, <1>5 DEF ToBytes, NetworkBytes
<1> QED
    BY <1>6 DEF DoubleSha256, Txid

\* The transactions of the block so far.
LEMMA BlockSoFar ==
    ASSUME ReaderInv
    PROVE  /\ DOMAIN block = 1 .. Len(block)
           /\ \A k \in DOMAIN block :
                 /\ k \in DOMAIN txdata /\ IsTransaction(txdata[k])
                 /\ block[k] = DoubleSha256(FromDisk(txdata[k]))
<1>1. txdata \in Blocks /\ BlockInv
    BY DEF ReaderInv
<1>2. IsSeq(txdata) /\ \A k \in DOMAIN txdata : IsTransaction(txdata[k])
    BY <1>1, BlocksAssumption
<1>3. /\ DOMAIN block = 1 .. Len(block) /\ DOMAIN txdata = 1 .. Len(txdata)
      /\ Len(block) \in Nat /\ Len(txdata) \in Nat
    BY <1>1, <1>2, SeqShape DEF BlockInv
<1>4. 1 .. Len(block) \subseteq 1 .. Len(txdata)
    BY <1>1, <1>3 DEF BlockInv
<1> QED
    BY <1>1, <1>2, <1>3, <1>4 DEF BlockInv

\* A transaction read from disk is known under its txid, with a witness or
\* without (DiskTxids): Hashed::double_sha256 of what read_tx returns.
THEOREM TxidsFromDisk == Spec => []DiskTxids
<1>1. ReaderInv => DiskTxids
    BY BlockSoFar, SameBytes DEF DiskTxids
<1> QED
    BY <1>1, ReaderKnowsWhereItIs, PTL

\* A block is delivered only when all of it was read, no more and no less
\* (WholeBlocks): read_block fails on a file that ends early.
THEOREM OnlyWholeBlocks == Spec => []WholeBlocks
<1>1. ReaderInv => WholeBlocks
    BY DEF ReaderInv, StageInv, DoneInv, WholeBlocks
<1> QED
    BY <1>1, ReaderKnowsWhereItIs, PTL

\* What the rest of the program sees of a transaction from the file is what it
\* sees of the same from the node.
LEMMA SameSeen ==
    ASSUME NEW t, IsTransaction(t)
    PROVE  Seen(FromDisk(t)) = Seen(FromTransaction(t))
<1>1. PICK n, m, s : n = Len(t.ins) /\ m = Len(t.outs) /\ s = Segwit(t)
    OBVIOUS
<1>2. DOMAIN t.ins = 1 .. n /\ DOMAIN t.outs = 1 .. m
    BY <1>1, PlacesAreNat
<1> DEFINE SeenWitness(w) == IF w = NoWitness THEN <<>> ELSE w
           SeenIn(i) == [prev |-> <<i.txid, i.index>>, seq_no |-> i.seq_no,
                         script_sig |-> i.script_sig, witness |-> SeenWitness(i.witness)]
           SeenOut(o) == <<o.value, o.script_pubkey>>
           D == FromDisk(t)
           R == FromTransaction(t)
<1>3. ASSUME NEW k \in 1 .. n
      PROVE  SeenIn(D.inputs[k]) = SeenIn(R.inputs[k])
    <2>1. PICK i, w : i = t.ins[k] /\ w = IF Segwit(t) THEN t.ins[k].witness ELSE NoWitness
        OBVIOUS
    <2>2. D.inputs[k] = InRead(i, w)
        BY <1>1, <2>1 DEF FromDisk
    <2>3. R.inputs[k] = FromTxIn(i)
        BY <1>2, <2>1 DEF FromTransaction
    <2>4. ~Segwit(t) => i.witness = <<>>
        BY <1>2, <2>1 DEF Segwit
    <2>5. SeenWitness(w) = SeenWitness(IF i.witness = <<>> THEN NoWitness ELSE i.witness)
        BY <2>1, <2>4
    <2>6. SeenIn(InRead(i, w)) = [prev |-> <<i.txid, i.vout>>, seq_no |-> i.sequence,
                                  script_sig |-> i.script, witness |-> SeenWitness(w)]
        <3> HIDE DEF SeenWitness
        <3> QED
            BY DEF InRead
    <2>7. SeenIn(FromTxIn(i)) = [prev |-> <<i.txid, i.vout>>, seq_no |-> i.sequence,
             script_sig |-> i.script,
             witness |-> SeenWitness(IF i.witness = <<>> THEN NoWitness ELSE i.witness)]
        <3> HIDE DEF SeenWitness
        <3> QED
            BY DEF FromTxIn
    <2> HIDE DEF SeenWitness, SeenIn, D, R
    <2> QED
        BY <2>2, <2>3, <2>5, <2>6, <2>7
<1>4. ASSUME NEW k \in 1 .. m
      PROVE  SeenOut(D.outputs[k]) = SeenOut(R.outputs[k])
    <2>1. D.outputs[k] = OutRead(t.outs[k])
        BY <1>1 DEF FromDisk
    <2>2. R.outputs[k] = FromTxOut(t.outs[k])
        BY <1>2 DEF FromTransaction
    <2> HIDE DEF D, R
    <2> QED
        BY <2>1, <2>2 DEF OutRead, FromTxOut
<1>5. /\ D.version = R.version /\ D.locktime = R.locktime
      /\ DOMAIN D.inputs = 1 .. n /\ DOMAIN R.inputs = 1 .. n
      /\ DOMAIN D.outputs = 1 .. m /\ DOMAIN R.outputs = 1 .. m
    BY <1>1, <1>2 DEF FromDisk, FromTransaction
<1> HIDE DEF D, R
<1>6. \A x : Seen(x) = [version |-> x.version, locktime |-> x.locktime,
                        inputs |-> [k \in DOMAIN x.inputs |-> SeenIn(x.inputs[k])],
                        outputs |-> [k \in DOMAIN x.outputs |-> SeenOut(x.outputs[k])]]
    BY DEF Seen
<1> HIDE DEF SeenIn, SeenOut
<1>7. /\ [k \in DOMAIN D.inputs |-> SeenIn(D.inputs[k])]
            = [k \in DOMAIN R.inputs |-> SeenIn(R.inputs[k])]
      /\ [k \in DOMAIN D.outputs |-> SeenOut(D.outputs[k])]
            = [k \in DOMAIN R.outputs |-> SeenOut(R.outputs[k])]
    BY <1>3, <1>4, <1>5
<1>8. Seen(D) = Seen(R)
    BY <1>5, <1>6, <1>7
<1> QED
    BY <1>8 DEF D, R

\* Whether a block comes from the file or from the node, the rest of the program
\* sees the same transactions but for their hashes (WaysAgree): read_tx and
\* EvaluatedTx::from.
THEOREM BothWaysAgree == Spec => []WaysAgree
<1>1. ReaderInv => WaysAgree
    <2> SUFFICES ASSUME ReaderInv, NEW k \in DOMAIN block
                 PROVE  Seen(block[k].value) = Seen(FromRpc(txdata)[k].value)
        BY DEF WaysAgree
    <2>1. /\ k \in DOMAIN txdata /\ IsTransaction(txdata[k])
          /\ block[k].value = FromDisk(txdata[k])
        BY BlockSoFar DEF DoubleSha256
    <2>2. FromRpc(txdata)[k].value = FromTransaction(txdata[k])
        BY <2>1 DEF FromRpc, DoubleSha256
    <2> QED
        BY <2>1, <2>2, SameSeen
<1> QED
    BY <1>1, ReaderKnowsWhereItIs, PTL

-----------------------------------------------------------------------------
\* The loop of merkle_root computes the root of the network's tree.

\* Induction up to n, over a set.
LEMMA UpTo ==
    ASSUME NEW n \in Nat, NEW S, 0 \in S, \A m \in 0 .. n - 1 : m \in S => m + 1 \in S
    PROVE  \A m \in 0 .. n : m \in S
<1> DEFINE T == {m \in Nat : m \in 0 .. n /\ m \notin S}
<1>1. SUFFICES ASSUME T # {} PROVE FALSE
    OBVIOUS
<1>2. PICK m \in T : \A k \in T : m <= k
    BY <1>1, LeastNat
<1>3. m # 0 /\ m \in 1 .. n /\ m \notin S
    BY <1>2
<1>4. PICK k : k = m - 1
    OBVIOUS
<1>5. k \in 0 .. n - 1 /\ k \in Nat /\ k + 1 = m /\ ~(m <= k)
    BY <1>3, <1>4
<1>6. k \notin T
    BY <1>2, <1>5
<1>7. k \in S
    BY <1>5, <1>6
<1> QED
    BY <1>3, <1>5, <1>7

\* The recursions of merkle_root and of the network's tree, up to level m.
WidthsTo(f, n, m) == f = [d \in 0 .. m |-> IF d = 0 THEN n ELSE (f[d - 1] + 1) \div 2]
LevelsTo(f, h, m) ==
    f = [d \in 0 .. m |->
            IF d = 0 THEN h ELSE IF Len(f[d - 1]) > 1 THEN NextLevel(f[d - 1]) ELSE f[d - 1]]
NodesTo(f, t, w, m) ==
    f = [d \in 0 .. m |->
            [i \in 0 .. w[d] - 1 |->
                IF d = 0 THEN Txid(t[i + 1])
                ELSE Sha256d(<<f[d - 1][2 * i],
                               f[d - 1][IF 2 * i + 1 < w[d - 1] THEN 2 * i + 1 ELSE 2 * i]>>)]]

LEMMA WidthsExist == \A n : \A m \in Nat : \E f : WidthsTo(f, n, m)
<1> TAKE n
<1> DEFINE S == {m \in Nat : \E f : WidthsTo(f, n, m)}
<1>1. 0 \in S
    <2>1. PICK f : f = [d \in 0 .. 0 |-> n]
        OBVIOUS
    <2>2. f = [d \in 0 .. 0 |-> IF d = 0 THEN n ELSE (f[d - 1] + 1) \div 2]
        BY <2>1
    <2> QED
        BY <2>2 DEF WidthsTo
<1>2. ASSUME NEW m \in Nat, m \in S PROVE m + 1 \in S
    <2>1. PICK f : WidthsTo(f, n, m)
        BY <1>2
    <2>2. PICK g : g = [d \in 0 .. m + 1 |-> IF d = 0 THEN n ELSE (f[d - 1] + 1) \div 2]
        OBVIOUS
    <2>3. ASSUME NEW d \in 0 .. m + 1, d # 0 PROVE g[d - 1] = f[d - 1]
        <3>1. PICK e : e = d - 1
            OBVIOUS
        <3>2. e \in 0 .. m /\ e \in 0 .. m + 1
            BY <2>3, <3>1
        <3>3. f[e] = IF e = 0 THEN n ELSE (f[e - 1] + 1) \div 2
            BY <2>1, <3>2 DEF WidthsTo
        <3> QED
            BY <2>2, <3>1, <3>2, <3>3
    <2>4. g = [d \in 0 .. m + 1 |-> IF d = 0 THEN n ELSE (g[d - 1] + 1) \div 2]
        BY <2>2, <2>3
    <2> QED
        BY <2>4 DEF WidthsTo
<1> HIDE DEF S
<1>3. ASSUME NEW m \in Nat PROVE m \in S
    BY <1>1, <1>2, UpTo
<1> QED
    BY <1>3 DEF S

LEMMA LevelsExist == \A h : \A m \in Nat : \E f : LevelsTo(f, h, m)
<1> TAKE h
<1> DEFINE S == {m \in Nat : \E f : LevelsTo(f, h, m)}
           Step(x) == IF Len(x) > 1 THEN NextLevel(x) ELSE x
<1>0. \A f, m : LevelsTo(f, h, m) <=> f = [d \in 0 .. m |-> IF d = 0 THEN h ELSE Step(f[d - 1])]
    BY DEF LevelsTo
<1> HIDE DEF Step
<1>1. 0 \in S
    <2>1. PICK f : f = [d \in 0 .. 0 |-> h]
        OBVIOUS
    <2>2. f = [d \in 0 .. 0 |-> IF d = 0 THEN h ELSE Step(f[d - 1])]
        BY <2>1
    <2> QED
        BY <1>0, <2>2
<1>2. ASSUME NEW m \in Nat, m \in S PROVE m + 1 \in S
    <2>1. PICK f : LevelsTo(f, h, m)
        BY <1>2
    <2>2. PICK g : g = [d \in 0 .. m + 1 |-> IF d = 0 THEN h ELSE Step(f[d - 1])]
        OBVIOUS
    <2>3. ASSUME NEW d \in 0 .. m + 1, d # 0 PROVE g[d - 1] = f[d - 1]
        <3>1. PICK e : e = d - 1
            OBVIOUS
        <3>2. e \in 0 .. m /\ e \in 0 .. m + 1
            BY <2>3, <3>1
        <3>3. f[e] = IF e = 0 THEN h ELSE Step(f[e - 1])
            BY <1>0, <2>1, <3>2
        <3> QED
            BY <2>2, <3>1, <3>2, <3>3
    <2>4. g = [d \in 0 .. m + 1 |-> IF d = 0 THEN h ELSE Step(g[d - 1])]
        BY <2>2, <2>3
    <2>5. LevelsTo(g, h, m + 1)
        <3> HIDE DEF S
        <3> QED
            BY <1>0, <2>4
    <2> QED
        BY <2>5
<1> HIDE DEF S
<1>3. ASSUME NEW m \in Nat PROVE m \in S
    BY <1>1, <1>2, UpTo
<1> QED
    BY <1>3 DEF S

LEMMA NodesExist == \A t, w : \A m \in Nat : \E f : NodesTo(f, t, w, m)
<1> TAKE t, w
<1> DEFINE S == {m \in Nat : \E f : NodesTo(f, t, w, m)}
           Leaves(d) == [i \in 0 .. w[d] - 1 |-> Txid(t[i + 1])]
           Step(x, d) == [i \in 0 .. w[d] - 1 |->
               Sha256d(<<x[2 * i], x[IF 2 * i + 1 < w[d - 1] THEN 2 * i + 1 ELSE 2 * i]>>)]
<1>0. ASSUME NEW f, NEW m
      PROVE  NodesTo(f, t, w, m)
                <=> f = [d \in 0 .. m |-> IF d = 0 THEN Leaves(d) ELSE Step(f[d - 1], d)]
    <2>1. ASSUME NEW d
          PROVE  [i \in 0 .. w[d] - 1 |->
                    IF d = 0 THEN Txid(t[i + 1])
                    ELSE Sha256d(<<f[d - 1][2 * i],
                            f[d - 1][IF 2 * i + 1 < w[d - 1] THEN 2 * i + 1 ELSE 2 * i]>>)]
                 = IF d = 0 THEN Leaves(d) ELSE Step(f[d - 1], d)
        <3>1. CASE d = 0
            BY <3>1
        <3>2. CASE d # 0
            BY <3>2
        <3> QED
            BY <3>1, <3>2
    <2> HIDE DEF Leaves, Step
    <2> QED
        BY <2>1 DEF NodesTo
<1> HIDE DEF Step, Leaves
<1>1. 0 \in S
    <2>1. PICK f : f = [d \in 0 .. 0 |-> Leaves(d)]
        OBVIOUS
    <2>2. f = [d \in 0 .. 0 |-> IF d = 0 THEN Leaves(d) ELSE Step(f[d - 1], d)]
        BY <2>1
    <2> QED
        BY <1>0, <2>2
<1>2. ASSUME NEW m \in Nat, m \in S PROVE m + 1 \in S
    <2>1. PICK f : NodesTo(f, t, w, m)
        BY <1>2
    <2>2. PICK g : g = [d \in 0 .. m + 1 |-> IF d = 0 THEN Leaves(d) ELSE Step(f[d - 1], d)]
        OBVIOUS
    <2>3. ASSUME NEW d \in 0 .. m + 1, d # 0 PROVE g[d - 1] = f[d - 1]
        <3>1. PICK e : e = d - 1
            OBVIOUS
        <3>2. e \in 0 .. m /\ e \in 0 .. m + 1
            BY <2>3, <3>1
        <3>3. f[e] = IF e = 0 THEN Leaves(e) ELSE Step(f[e - 1], e)
            BY <1>0, <2>1, <3>2
        <3> QED
            BY <2>2, <3>1, <3>2, <3>3
    <2>4. g = [d \in 0 .. m + 1 |-> IF d = 0 THEN Leaves(d) ELSE Step(g[d - 1], d)]
        BY <2>2, <2>3
    <2>5. NodesTo(g, t, w, m + 1)
        <3> HIDE DEF S
        <3> QED
            BY <1>0, <2>4
    <2> QED
        BY <2>5
<1> HIDE DEF S
<1>3. ASSUME NEW m \in Nat PROVE m \in S
    BY <1>1, <1>2, UpTo
<1> QED
    BY <1>3 DEF S

\* The levels get narrower, down to one node.
LEMMA Narrowing ==
    ASSUME NEW n \in Nat, n >= 1, NEW w, WidthsTo(w, n, n)
    PROVE  /\ w[0] = n
           /\ \A d \in 0 .. n : w[d] \in Nat /\ w[d] >= 1
           /\ \A d \in 0 .. n - 1 : w[d + 1] = (w[d] + 1) \div 2
           /\ \E d \in 0 .. n : w[d] = 1 /\ \A e \in 0 .. d - 1 : w[e] > 1
<1>1. w = [d \in 0 .. n |-> IF d = 0 THEN n ELSE (w[d - 1] + 1) \div 2]
    BY DEF WidthsTo
<1>2. w[0] = n
    BY <1>1
<1>3. \A d \in 0 .. n - 1 : w[d + 1] = (w[d] + 1) \div 2
    <2>1. TAKE d \in 0 .. n - 1
    <2>2. PICK e : e = d + 1
        OBVIOUS
    <2>3. e \in 0 .. n /\ e # 0 /\ e - 1 = d
        BY <2>2
    <2>4. w[e] = IF e = 0 THEN n ELSE (w[e - 1] + 1) \div 2
        BY <1>1, <2>3
    <2> QED
        BY <2>2, <2>3, <2>4
<1> DEFINE S == {d \in Nat : w[d] \in Nat /\ w[d] >= 1 /\ (w[d] = 1 \/ w[d] <= n - d)}
<1>4. 0 \in S
    BY <1>2
<1>5. ASSUME NEW d \in 0 .. n - 1, d \in S PROVE d + 1 \in S
    <2>1. PICK x, y : x = w[d] /\ y = w[d + 1]
        OBVIOUS
    <2>2. x \in Nat /\ x >= 1 /\ (x = 1 \/ x <= n - d) /\ y = (x + 1) \div 2
        BY <1>3, <1>5, <2>1
    <2>3. y \in Nat /\ y >= 1 /\ (y = 1 \/ y <= n - (d + 1))
        <3>1. CASE x = 1
            BY <2>2, <3>1
        <3>2. CASE x # 1
            <4>1. x >= 2 /\ x <= n - d
                BY <2>2, <3>2
            <4>2. y \in Nat /\ y >= 1 /\ y <= x - 1
                BY <2>2, <4>1
            <4> QED
                BY <2>2, <4>1, <4>2
        <3> QED
            BY <3>1, <3>2
    <2>4. d + 1 \in Nat
        OBVIOUS
    <2> QED
        BY <2>1, <2>3, <2>4
<1> HIDE DEF S
<1>6. \A d \in 0 .. n : d \in S
    BY <1>4, <1>5, UpTo
<1> USE DEF S
<1>7. \A d \in 0 .. n : w[d] \in Nat /\ w[d] >= 1
    BY <1>6
<1>8. w[n] = 1
    <2>1. n \in S
        BY <1>6
    <2>2. w[n] \in Nat /\ w[n] >= 1 /\ (w[n] = 1 \/ w[n] <= n - n)
        BY <2>1
    <2> QED
        BY <2>2
<1>9. \E d \in 0 .. n : w[d] = 1 /\ \A e \in 0 .. d - 1 : w[e] > 1
    <2> DEFINE T == {d \in Nat : d \in 0 .. n /\ w[d] = 1}
    <2>1. T # {} /\ T \in SUBSET Nat
        BY <1>8
    <2>2. PICK d \in T : \A e \in T : d <= e
        BY <2>1, LeastNat
    <2>3. ASSUME NEW e \in 0 .. d - 1 PROVE w[e] > 1
        <3>1. d \in 0 .. n
            BY <2>2
        <3>2. e \in Nat /\ e \in 0 .. n /\ ~(d <= e)
            BY <3>1
        <3>3. w[e] # 1
            BY <2>2, <3>2
        <3> QED
            BY <1>7, <3>2, <3>3
    <2> QED
        BY <2>2, <2>3
<1> QED
    BY <1>2, <1>3, <1>7, <1>9

\* A level of merkle_root has a hash for each pair below it, a last one without
\* a partner paired with itself.
LEMMA NextLevelIs ==
    ASSUME NEW h, IsSeq(h), NEW n, n = Len(h), n > 1
    PROVE  /\ IsSeq(NextLevel(h)) /\ Len(NextLevel(h)) = (n + 1) \div 2
           /\ \A i \in 0 .. (n + 1) \div 2 - 1 :
                 NextLevel(h)[i + 1]
                    = Sha256d(<<h[2 * i + 1], h[IF 2 * i + 1 < n THEN 2 * i + 2 ELSE 2 * i + 1]>>)
<1>1. n \in Nat
    BY SeqShape
<1>2. PICK m, p : /\ m = n \div 2
                  /\ p = [k \in 1 .. n \div 2 |-> Sha256d(<<h[2 * k - 1], h[2 * k]>>)]
    OBVIOUS
<1>3. m \in Nat /\ (n % 2 = 1 => n = 2 * m + 1) /\ (n % 2 # 1 => n = 2 * m)
    BY <1>1, <1>2
<1>4. p = [k \in 1 .. m |-> p[k]] /\ \A k \in 1 .. m : p[k] = Sha256d(<<h[2 * k - 1], h[2 * k]>>)
    BY <1>2
<1>5. IsSeq(p) /\ Len(p) = m
    BY <1>3, <1>4, FunctionIsSeq
<1>6. ASSUME NEW i \in 0 .. m - 1
      PROVE  p[i + 1] = Sha256d(<<h[2 * i + 1], h[2 * i + 2]>>) /\ 2 * i + 1 < n
    <2>1. PICK k : k = i + 1
        OBVIOUS
    <2>2. k \in 1 .. m /\ 2 * k - 1 = 2 * i + 1 /\ 2 * k = 2 * i + 2
        BY <1>3, <2>1
    <2>3. 2 * i + 1 < n
        BY <1>1, <1>3
    <2> QED
        BY <1>4, <2>1, <2>2, <2>3
<1>7. CASE n % 2 = 1
    <2>1. PICK last, q : last = Sha256d(<<h[n], h[n]>>) /\ q = Append(p, last)
        OBVIOUS
    <2>2. NextLevel(h) = q
        BY <1>2, <1>7, <2>1 DEF NextLevel
    <2>3. /\ IsSeq(q) /\ Len(q) = m + 1 /\ q[m + 1] = last
          /\ \A i \in 1 .. m : q[i] = p[i]
        BY <1>5, <2>1, OneMore
    <2>4. (n + 1) \div 2 = m + 1
        BY <1>3, <1>7
    <2>5. ASSUME NEW i \in 0 .. m
          PROVE  q[i + 1]
                    = Sha256d(<<h[2 * i + 1], h[IF 2 * i + 1 < n THEN 2 * i + 2 ELSE 2 * i + 1]>>)
        <3>1. CASE i = m
            <4>1. 2 * i + 1 = n /\ ~(2 * i + 1 < n)
                BY <1>1, <1>3, <1>7, <3>1
            <4> QED
                BY <2>1, <2>3, <3>1, <4>1
        <3>2. CASE i # m
            <4>1. i \in 0 .. m - 1 /\ i + 1 \in 1 .. m
                BY <1>3, <3>2
            <4> QED
                BY <1>6, <2>3, <4>1
        <3> QED
            BY <3>1, <3>2
    <2>6. \A i \in 0 .. (n + 1) \div 2 - 1 : i \in 0 .. m
        BY <1>3, <2>4
    <2>7. \A i \in 0 .. (n + 1) \div 2 - 1 :
             q[i + 1] = Sha256d(<<h[2 * i + 1], h[IF 2 * i + 1 < n THEN 2 * i + 2 ELSE 2 * i + 1]>>)
        BY <2>5, <2>6
    <2> QED
        BY <2>2, <2>3, <2>4, <2>7
<1>8. CASE n % 2 # 1
    <2>1. NextLevel(h) = p
        BY <1>2, <1>8 DEF NextLevel
    <2>2. (n + 1) \div 2 = m
        BY <1>3, <1>8
    <2> QED
        BY <1>5, <1>6, <2>1, <2>2
<1> QED
    BY <1>7, <1>8

\* Level by level, the hashes of the loop are the nodes of the tree; once there
\* is one hash only, it stays.
LEMMA LevelsAreNodes ==
    ASSUME NEW t, NEW n \in Nat, n >= 1, n = Len(t), NEW h, IsSeq(h), Len(h) = n,
           \A k \in 1 .. n : h[k] = Txid(t[k]),
           NEW w, WidthsTo(w, n, n), NEW f, LevelsTo(f, h, n), NEW g, NodesTo(g, t, w, n),
           NEW D \in 0 .. n, w[D] = 1, \A e \in 0 .. D - 1 : w[e] > 1
    PROVE  f[n][1] = g[D][0]
<1>1. /\ w[0] = n
      /\ \A d \in 0 .. n : w[d] \in Nat /\ w[d] >= 1
      /\ \A d \in 0 .. n - 1 : w[d + 1] = (w[d] + 1) \div 2
    BY Narrowing
<1> DEFINE Same(d) ==
        IsSeq(f[d]) /\ Len(f[d]) = w[d] /\ \A i \in 0 .. w[d] - 1 : f[d][i + 1] = g[d][i]
           S == {d \in Nat : Same(d)}
<1>2. f[0] = h /\ \A d \in 0 .. n - 1 : f[d + 1] = IF Len(f[d]) > 1 THEN NextLevel(f[d]) ELSE f[d]
    <2>1. ASSUME NEW d \in 0 .. n
          PROVE  f[d] = IF d = 0 THEN h ELSE IF Len(f[d - 1]) > 1 THEN NextLevel(f[d - 1]) ELSE f[d - 1]
        BY DEF LevelsTo
    <2>2. ASSUME NEW d \in 0 .. n - 1
          PROVE  f[d + 1] = IF Len(f[d]) > 1 THEN NextLevel(f[d]) ELSE f[d]
        <3>1. PICK e : e = d + 1
            OBVIOUS
        <3>2. e \in 0 .. n /\ e # 0 /\ e - 1 = d
            BY <3>1
        <3> QED
            BY <2>1, <3>1, <3>2
    <2> QED
        BY <2>1, <2>2
<1>3. /\ \A i \in 0 .. w[0] - 1 : g[0][i] = Txid(t[i + 1])
      /\ \A d \in 0 .. n - 1 : \A i \in 0 .. w[d + 1] - 1 :
            g[d + 1][i] = Sha256d(<<g[d][2 * i], g[d][IF 2 * i + 1 < w[d] THEN 2 * i + 1 ELSE 2 * i]>>)
    <2>1. ASSUME NEW d \in 0 .. n, NEW i \in 0 .. w[d] - 1
          PROVE  g[d][i] = IF d = 0 THEN Txid(t[i + 1])
                           ELSE Sha256d(<<g[d - 1][2 * i],
                                   g[d - 1][IF 2 * i + 1 < w[d - 1] THEN 2 * i + 1 ELSE 2 * i]>>)
        <3>1. g[d] = [k \in 0 .. w[d] - 1 |->
                         IF d = 0 THEN Txid(t[k + 1])
                         ELSE Sha256d(<<g[d - 1][2 * k],
                                 g[d - 1][IF 2 * k + 1 < w[d - 1] THEN 2 * k + 1 ELSE 2 * k]>>)]
            BY Zenon DEF NodesTo
        <3> QED
            BY <3>1, Zenon
    <2>2. ASSUME NEW d \in 0 .. n - 1, NEW i \in 0 .. w[d + 1] - 1
          PROVE  g[d + 1][i]
                    = Sha256d(<<g[d][2 * i], g[d][IF 2 * i + 1 < w[d] THEN 2 * i + 1 ELSE 2 * i]>>)
        <3>1. PICK e : e = d + 1
            OBVIOUS
        <3>2. e \in 0 .. n /\ e # 0 /\ e - 1 = d /\ i \in 0 .. w[e] - 1
            BY <3>1
        <3> QED
            BY <2>1, <3>1, <3>2
    <2>3. ASSUME NEW i \in 0 .. w[0] - 1 PROVE g[0][i] = Txid(t[i + 1])
        <3>1. 0 \in 0 .. n
            OBVIOUS
        <3> QED
            BY <2>1, <3>1
    <2> QED
        BY <2>2, <2>3
<1>4. Same(0)
    BY <1>1, <1>2, <1>3
<1>5. ASSUME NEW d \in 0 .. D - 1, Same(d) PROVE Same(d + 1)
    <2>1. PICK x, m : x = f[d] /\ m = w[d]
        OBVIOUS
    <2>2. d \in 0 .. n - 1 /\ m > 1 /\ m \in Nat
        BY <1>1, <2>1
    <2>3. /\ IsSeq(x) /\ m = Len(x) /\ \A i \in 0 .. m - 1 : x[i + 1] = g[d][i]
        BY <1>5, <2>1
    <2>4. f[d + 1] = NextLevel(x) /\ w[d + 1] = (m + 1) \div 2
        BY <1>1, <1>2, <2>1, <2>2, <2>3
    <2>5. /\ IsSeq(NextLevel(x)) /\ Len(NextLevel(x)) = (m + 1) \div 2
          /\ \A i \in 0 .. (m + 1) \div 2 - 1 :
                NextLevel(x)[i + 1]
                   = Sha256d(<<x[2 * i + 1], x[IF 2 * i + 1 < m THEN 2 * i + 2 ELSE 2 * i + 1]>>)
        BY <2>2, <2>3, NextLevelIs
    <2>6. ASSUME NEW i \in 0 .. (m + 1) \div 2 - 1
          PROVE  NextLevel(x)[i + 1] = g[d + 1][i]
        <3>1. PICK j : j = 2 * i
            OBVIOUS
        <3>2. j \in 0 .. m - 1 /\ (j + 1 < m => j + 1 \in 0 .. m - 1) /\ j + 1 + 1 = j + 2
            BY <2>2, <3>1
        <3>3. x[j + 1] = g[d][j]
            BY <2>3, <3>2
        <3>4. x[IF j + 1 < m THEN j + 2 ELSE j + 1] = g[d][IF j + 1 < m THEN j + 1 ELSE j]
            <4>1. CASE j + 1 < m
                <5>1. x[j + 1 + 1] = g[d][j + 1]
                    BY <2>3, <3>2, <4>1
                <5> QED
                    BY <3>2, <4>1, <5>1
            <4>2. CASE ~(j + 1 < m)
                BY <3>3, <4>2
            <4> QED
                BY <4>1, <4>2
        <3>5. g[d + 1][i] = Sha256d(<<g[d][j], g[d][IF j + 1 < m THEN j + 1 ELSE j]>>)
            BY <1>3, <2>1, <2>2, <2>4, <3>1
        <3>6. NextLevel(x)[i + 1] = Sha256d(<<x[j + 1], x[IF j + 1 < m THEN j + 2 ELSE j + 1]>>)
            BY <2>5, <3>1
        <3> QED
            BY <3>3, <3>4, <3>5, <3>6
    <2> QED
        BY <2>4, <2>5, <2>6
<1>6. Same(D)
    <2>1. 0 \in S
        BY <1>4
    <2>2. \A d \in 0 .. D - 1 : d \in S => d + 1 \in S
        <3> HIDE DEF Same
        <3> QED
            BY <1>5
    <2>3. D \in Nat
        OBVIOUS
    <2>4. \A d \in 0 .. D : d \in S
        <3> HIDE DEF S
        <3> QED
            BY <2>1, <2>2, <2>3, UpTo
    <2>5. D \in S
        BY <2>3, <2>4
    <2> HIDE DEF Same
    <2> QED
        BY <2>5
<1>7. f[D][1] = g[D][0] /\ Len(f[D]) = 1
    <2>1. 0 \in 0 .. w[D] - 1 /\ 0 + 1 = 1
        OBVIOUS
    <2> QED
        BY <1>6, <2>1
<1> DEFINE Q == {d \in Nat : d >= D => f[d] = f[D]}
<1>8. \A d \in 0 .. n : d \in Q
    <2>1. 0 \in Q
        BY <1>2
    <2>2. ASSUME NEW d \in 0 .. n - 1, d \in Q PROVE d + 1 \in Q
        <3>1. CASE d + 1 = D
            BY <3>1
        <3>2. CASE d + 1 # D
            <4>1. ASSUME d + 1 >= D PROVE f[d + 1] = f[D]
                <5>1. d >= D
                    BY <3>2, <4>1
                <5>2. f[d] = f[D]
                    BY <2>2, <5>1
                <5>3. ~(Len(f[d]) > 1)
                    <6>1. PICK l : l = Len(f[D])
                        OBVIOUS
                    <6>2. ~(l > 1) /\ Len(f[d]) = l
                        BY <1>7, <5>2, <6>1
                    <6> QED
                        BY <6>2
                <5>4. f[d + 1] = f[d]
                    BY <1>2, <5>3
                <5> QED
                    BY <5>2, <5>4
            <4> QED
                BY <4>1
        <3> QED
            BY <3>1, <3>2
    <2> HIDE DEF Q
    <2> QED
        BY <2>1, <2>2, UpTo
<1>9. f[n] = f[D]
    <2>1. n \in Q /\ n >= D
        BY <1>8
    <2> QED
        BY <2>1
<1> QED
    BY <1>7, <1>9

LEMMA RootOfTxids ==
    ASSUME NEW t, Len(t) \in Nat, Len(t) >= 1, NEW h, IsSeq(h), Len(h) = Len(t),
           \A k \in 1 .. Len(t) : h[k] = Txid(t[k])
    PROVE  MerkleRoot(h) = NetworkRoot(t)
<1> DEFINE w == CHOOSE f : f = [d \in 0 .. Len(t) |->
                                  IF d = 0 THEN Len(t) ELSE (f[d - 1] + 1) \div 2]
           g == CHOOSE l : l = [d \in 0 .. Len(t) |-> [i \in 0 .. w[d] - 1 |->
                   IF d = 0 THEN Txid(t[i + 1])
                   ELSE Sha256d(<<l[d - 1][2 * i],
                                  l[d - 1][IF 2 * i + 1 < w[d - 1] THEN 2 * i + 1 ELSE 2 * i]>>)]]
           D == CHOOSE d \in 0 .. Len(t) : w[d] = 1 /\ \A e \in 0 .. d - 1 : w[e] > 1
           f == CHOOSE l : l = [d \in 0 .. Len(h) |->
                   IF d = 0 THEN h ELSE IF Len(l[d - 1]) > 1 THEN NextLevel(l[d - 1]) ELSE l[d - 1]]
<1>1. NetworkRoot(t) = g[D][0]
    BY DEF NetworkRoot
<1>2. MerkleRoot(h) = f[Len(h)][1]
    BY DEF MerkleRoot
<1>3. WidthsTo(w, Len(t), Len(t))
    <2>1. \E l : WidthsTo(l, Len(t), Len(t))
        BY WidthsExist
    <2>2. w = CHOOSE l : WidthsTo(l, Len(t), Len(t))
        BY DEF WidthsTo
    <2> HIDE DEF w
    <2> QED
        BY <2>1, <2>2
<1> HIDE DEF w
<1>4. NodesTo(g, t, w, Len(t))
    <2>1. \E l : NodesTo(l, t, w, Len(t))
        BY NodesExist
    <2>2. g = CHOOSE l : NodesTo(l, t, w, Len(t))
        BY DEF NodesTo
    <2> HIDE DEF g
    <2> QED
        BY <2>1, <2>2
<1>5. LevelsTo(f, h, Len(h))
    <2>1. \E l : LevelsTo(l, h, Len(h))
        BY LevelsExist
    <2>2. f = CHOOSE l : LevelsTo(l, h, Len(h))
        BY DEF LevelsTo
    <2> HIDE DEF f
    <2> QED
        BY <2>1, <2>2
<1> HIDE DEF g, f
<1>6. D \in 0 .. Len(t) /\ w[D] = 1 /\ \A e \in 0 .. D - 1 : w[e] > 1
    <2>1. \E d \in 0 .. Len(t) : w[d] = 1 /\ \A e \in 0 .. d - 1 : w[e] > 1
        BY <1>3, Narrowing
    <2> QED
        BY <2>1
<1> HIDE DEF D
<1>7. PICK n : n = Len(t)
    OBVIOUS
<1>8. f[n][1] = g[D][0]
    BY <1>3, <1>4, <1>5, <1>6, <1>7, LevelsAreNodes
<1> QED
    BY <1>1, <1>2, <1>7, <1>8

\* The root computed from the hashes of a block that was read is the one in its
\* header (RootsVerify), for any number of transactions: verify_merkle_root
\* accepts every block the node wrote.
THEOREM RootsAlwaysVerify == Spec => []RootsVerify
<1>1. ReaderInv => RootsVerify
    <2> SUFFICES ASSUME ReaderInv, at = "done"
                 PROVE  MerkleRoot([k \in DOMAIN block |-> block[k].hash]) = root
        BY DEF RootsVerify
    <2>1. txdata \in Blocks /\ BlockInv /\ Len(block) = Len(txdata)
        BY DEF ReaderInv, StageInv, DoneInv
    <2>2. root = NetworkRoot(txdata)
        BY <2>1 DEF BlockInv
    <2>3. IsSeq(txdata) /\ txdata # <<>>
        BY <2>1, BlocksAssumption
    <2>4. PICK n, h : n = Len(txdata) /\ h = [k \in DOMAIN block |-> block[k].hash]
        OBVIOUS
    <2>5. n \in Nat /\ n >= 1
        <3>1. n \in Nat
            BY <2>3, <2>4, SeqShape
        <3>2. n # 0
            BY <2>3, <2>4, EmptyIsSeq, SameSeq
        <3> QED
            BY <3>1, <3>2
    <2>6. DOMAIN block = 1 .. n
        BY <2>1, <2>4, BlockSoFar
    <2>7. \A k \in 1 .. n : h[k] = Txid(txdata[k])
        BY <2>4, <2>6, BlockSoFar, SameBytes
    <2>8. IsSeq(h) /\ Len(h) = n
        <3>1. h = [k \in 1 .. n |-> h[k]]
            BY <2>4, <2>6
        <3> QED
            BY <2>5, <3>1, FunctionIsSeq
    <2>9. MerkleRoot(h) = NetworkRoot(txdata)
        BY <2>4, <2>5, <2>7, <2>8, RootOfTxids
    <2> QED
        BY <2>2, <2>4, <2>9
<1> QED
    BY <1>1, ReaderKnowsWhereItIs, PTL

-----------------------------------------------------------------------------
\* The count of the inputs tells the bytes made of a received transaction from
\* those of the network: it always takes five bytes, theirs takes three at most.
LEMMA NeverATxid ==
    ASSUME NEW t, NEW u, Len(u.ins) \in Nat, Len(u.ins) < 65536
    PROVE  DoubleSha256(FromTransaction(t)).hash # Txid(u)
<1> DEFINE T == FromTransaction(t)
<1>1. T.in_count.buf = <<254, Len(t.ins)>>
    BY DEF FromTransaction, FromU32
<1>2. ASSUME DoubleSha256(T).hash = Txid(u)
      PROVE  T.in_count.buf = CompactSize(Len(u.ins))
    <2> HIDE DEF T
    <2>1. ToBytes(T) = NetworkBytes(u)
        BY <1>2 DEF DoubleSha256, Txid, Sha256d
    <2> QED
        BY <2>1 DEF ToBytes, NetworkBytes
<1>3. CompactSize(Len(u.ins)) # <<254, Len(t.ins)>>
    <2>1. CASE Len(u.ins) < 253
        <3>1. CompactSize(Len(u.ins)) = <<Len(u.ins)>>
            BY <2>1 DEF CompactSize
        <3>2. <<Len(u.ins)>> # <<254, Len(t.ins)>>
            OBVIOUS
        <3> QED
            BY <3>1, <3>2
    <2>2. CASE Len(u.ins) >= 253
        <3>1. CompactSize(Len(u.ins)) = <<253, Len(u.ins)>>
            BY <2>2 DEF CompactSize
        <3> QED
            BY <3>1
    <2> QED
        BY <2>1, <2>2
<1> QED
    BY <1>1, <1>2, <1>3

\* Two inputs, or outputs, of received transactions have the same bytes only if
\* they have the same on the network.
LEMMA SameInputOnly ==
    ASSUME NEW i, NEW j, InputBytes(FromTxIn(i)) = InputBytes(FromTxIn(j))
    PROVE  NetworkInput(i) = NetworkInput(j)
<1> DEFINE I == FromTxIn(i)
           J == FromTxIn(j)
<1>1. /\ I.txid = J.txid /\ I.index = J.index /\ I.script_len.buf = J.script_len.buf
      /\ I.script_sig = J.script_sig /\ I.seq_no = J.seq_no
    <2>1. InputBytes(I) = InputBytes(J)
        OBVIOUS
    <2> HIDE DEF I, J
    <2> QED
        BY <2>1 DEF InputBytes
<1>2. /\ I.txid = i.txid /\ I.index = i.vout /\ I.script_sig = i.script
      /\ I.seq_no = i.sequence
      /\ J.txid = j.txid /\ J.index = j.vout /\ J.script_sig = j.script
      /\ J.seq_no = j.sequence
    BY DEF FromTxIn
<1> QED
    <2> HIDE DEF I, J
    <2> QED
        BY <1>1, <1>2 DEF NetworkInput

LEMMA SameOutputOnly ==
    ASSUME NEW o, NEW p, OutputBytes(FromTxOut(o)) = OutputBytes(FromTxOut(p))
    PROVE  NetworkOutput(o) = NetworkOutput(p)
<1> DEFINE O == FromTxOut(o)
           P == FromTxOut(p)
<1>1. /\ O.value = P.value /\ O.script_pubkey = P.script_pubkey
    <2>1. OutputBytes(O) = OutputBytes(P)
        OBVIOUS
    <2> HIDE DEF O, P
    <2> QED
        BY <2>1 DEF OutputBytes
<1>2. /\ O.value = o.value /\ O.script_pubkey = o.script
      /\ P.value = p.value /\ P.script_pubkey = p.script
    BY DEF FromTxOut
<1> QED
    <2> HIDE DEF O, P
    <2> QED
        BY <1>1, <1>2 DEF NetworkOutput

\* The bytes made of a received transaction determine its txid.
LEMMA SameOnlyIfSameTxid ==
    ASSUME NEW t, NEW u,
           DoubleSha256(FromTransaction(t)).hash = DoubleSha256(FromTransaction(u)).hash
    PROVE  Txid(t) = Txid(u)
<1> DEFINE T == FromTransaction(t)
           U == FromTransaction(u)
<1>1. ToBytes(T) = ToBytes(U)
    BY DEF DoubleSha256, Sha256d
<1>2. /\ T.version = U.version /\ T.locktime = U.locktime
      /\ T.in_count.buf = U.in_count.buf /\ T.out_count.buf = U.out_count.buf
      /\ [k \in DOMAIN T.inputs |-> InputBytes(T.inputs[k])]
            = [k \in DOMAIN U.inputs |-> InputBytes(U.inputs[k])]
      /\ [k \in DOMAIN T.outputs |-> OutputBytes(T.outputs[k])]
            = [k \in DOMAIN U.outputs |-> OutputBytes(U.outputs[k])]
    <2> HIDE DEF T, U
    <2> QED
        BY <1>1 DEF ToBytes
<1>3. /\ t.version = u.version /\ t.lock_time = u.lock_time
      /\ Len(t.ins) = Len(u.ins) /\ Len(t.outs) = Len(u.outs)
    BY <1>2 DEF FromTransaction, FromU32
<1>4. [k \in DOMAIN t.ins |-> NetworkInput(t.ins[k])]
         = [k \in DOMAIN u.ins |-> NetworkInput(u.ins[k])]
    <2>1. DOMAIN T.inputs = DOMAIN t.ins /\ DOMAIN U.inputs = DOMAIN u.ins
        BY DEF FromTransaction
    <2>2. DOMAIN t.ins = DOMAIN u.ins
        <3> HIDE DEF T, U
        <3> QED
            BY <1>2, <2>1
    <2>4. ASSUME NEW k \in DOMAIN t.ins
          PROVE  T.inputs[k] = FromTxIn(t.ins[k]) /\ U.inputs[k] = FromTxIn(u.ins[k])
        BY <2>2 DEF FromTransaction
    <2>3. ASSUME NEW k \in DOMAIN t.ins
          PROVE  NetworkInput(t.ins[k]) = NetworkInput(u.ins[k])
        <3>1. InputBytes(T.inputs[k]) = InputBytes(U.inputs[k])
            <4> HIDE DEF T, U
            <4> QED
                BY <1>2, <2>1, <2>2
        <3> QED
            BY <2>2, <2>4, <3>1, SameInputOnly
    <2> QED
        BY <2>2, <2>3
<1>5. [k \in DOMAIN t.outs |-> NetworkOutput(t.outs[k])]
         = [k \in DOMAIN u.outs |-> NetworkOutput(u.outs[k])]
    <2>1. DOMAIN T.outputs = DOMAIN t.outs /\ DOMAIN U.outputs = DOMAIN u.outs
        BY DEF FromTransaction
    <2>2. DOMAIN t.outs = DOMAIN u.outs
        <3> HIDE DEF T, U
        <3> QED
            BY <1>2, <2>1
    <2>4. ASSUME NEW k \in DOMAIN t.outs
          PROVE  T.outputs[k] = FromTxOut(t.outs[k]) /\ U.outputs[k] = FromTxOut(u.outs[k])
        BY <2>2 DEF FromTransaction
    <2>3. ASSUME NEW k \in DOMAIN t.outs
          PROVE  NetworkOutput(t.outs[k]) = NetworkOutput(u.outs[k])
        <3>1. OutputBytes(T.outputs[k]) = OutputBytes(U.outputs[k])
            <4> HIDE DEF T, U
            <4> QED
                BY <1>2, <2>1, <2>2
        <3> QED
            BY <2>2, <2>4, <3>1, SameOutputOnly
    <2> QED
        BY <2>2, <2>3
<1> QED
    BY <1>3, <1>4, <1>5 DEF Txid, NetworkBytes

-----------------------------------------------------------------------------
\* What a transaction is called over RPC is the txid of none of its block, and
\* two are called the same only if they have the same txid (Block::from,
\* EvaluatedTx::from, ToRaw::to_bytes): module Ordi assumes this of RpcHash.
LEMMA RpcIdsApart ==
    ASSUME NEW b \in Blocks, NEW k \in DOMAIN b, NEW l \in DOMAIN b
    PROVE  /\ FromRpc(b)[k].hash # Txid(b[l])
           /\ FromRpc(b)[k].hash = FromRpc(b)[l].hash => Txid(b[k]) = Txid(b[l])
<1>1. /\ FromRpc(b)[k] = DoubleSha256(FromTransaction(b[k]))
      /\ FromRpc(b)[l] = DoubleSha256(FromTransaction(b[l]))
    BY DEF FromRpc
<1>2. Len(b[l].ins) \in Nat /\ Len(b[l].ins) < 65536
    <2>1. IsTransaction(b[l])
        BY BlocksAssumption
    <2> QED
        BY <2>1, SeqShape DEF IsTransaction
<1>3. FromRpc(b)[k].hash # Txid(b[l])
    BY <1>1, <1>2, NeverATxid
<1>4. FromRpc(b)[k].hash = FromRpc(b)[l].hash => Txid(b[k]) = Txid(b[l])
    BY <1>1, SameOnlyIfSameTxid
<1> QED
    BY <1>3, <1>4
=============================================================================
