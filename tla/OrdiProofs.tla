----------------------------- MODULE OrdiProofs -----------------------------
(***************************************************************************)
(* Proofs about the properties of module SatTracking, which compare the    *)
(* stores with the ledger of ordinal theory, and about the process of      *)
(* module Ordi: its types, over any number of errors and crashes, the      *)
(* meeting of the two loops, the values of the stored outputs, which of    *)
(* them are stored after restarts, and the lists a new process builds.     *)
(***************************************************************************)
EXTENDS Ordi, InscriptionUpdaterProofs

-----------------------------------------------------------------------------
\* The recursive functions of module Ordinals exist, so they unfold.
Joint(s, t) == s \o t
UnfoldsJoined(r, f, n) == r = [k \in 0 .. n |-> IF k = 0 THEN <<>> ELSE Joint(r[k - 1], f[k])]

LEMMA JoinedExist ==
    ASSUME NEW f, NEW n \in Nat
    PROVE  \E r : UnfoldsJoined(r, f, n)
<1> DEFINE T == {k \in Nat : ~ \E r : UnfoldsJoined(r, f, k)}
<1>1. SUFFICES ASSUME T # {} PROVE FALSE
  OBVIOUS
<1>2. PICK k \in T : \A j \in T : k <= j
  BY <1>1, LeastNat
<1>3. CASE k = 0
  <2>1. UnfoldsJoined([j \in {0} |-> <<>>], f, 0)
    BY DEF UnfoldsJoined
  <2> QED  BY <1>2, <1>3, <2>1
<1>4. CASE k # 0
  <2>1. k - 1 \in Nat /\ k - 1 \notin T
    BY <1>2, <1>4
  <2>2. PICK r : UnfoldsJoined(r, f, k - 1)
    BY <2>1
  <2> DEFINE more == [j \in 0 .. k |-> IF j = k THEN Joint(r[k - 1], f[k]) ELSE r[j]]
  <2>3. \A j \in 0 .. k : more[j] = IF j = 0 THEN <<>> ELSE Joint(more[j - 1], f[j])
    <3>1. TAKE j \in 0 .. k
    <3>2. CASE j = 0
      BY <1>2, <1>4, <2>2, <3>2 DEF UnfoldsJoined
    <3>3. CASE j \in 1 .. k - 1
      <4>1. r[j] = Joint(r[j - 1], f[j])
        BY <1>2, <2>2, <3>3 DEF UnfoldsJoined
      <4> QED  BY <1>2, <3>3, <4>1
    <3>4. CASE j = k
      BY <1>2, <1>4, <3>4
    <3> QED  BY <1>2, <3>2, <3>3, <3>4
  <2>4. more = [j \in 0 .. k |-> more[j]]
    OBVIOUS
  <2> HIDE DEF more
  <2>5. [j \in 0 .. k |-> more[j]] = [j \in 0 .. k |-> IF j = 0 THEN <<>> ELSE Joint(more[j - 1], f[j])]
    BY <2>3
  <2>6. UnfoldsJoined(more, f, k)
    BY <2>4, <2>5 DEF UnfoldsJoined
  <2> QED  BY <1>2, <2>6
<1> QED  BY <1>3, <1>4

LEMMA JoinedUnfold ==
    ASSUME NEW f, NEW n \in Nat
    PROVE  /\ Joined(f, n)[0] = <<>>
           /\ \A k \in 1 .. n : Joined(f, n)[k] = Joined(f, n)[k - 1] \o f[k]
<1>1. Joined(f, n) = CHOOSE r : UnfoldsJoined(r, f, n)
  BY DEF Joined, UnfoldsJoined, Joint
<1>2. UnfoldsJoined(Joined(f, n), f, n)
  BY <1>1, JoinedExist
<1>3. \A k \in 1 .. n : Joined(f, n)[k] = Joint(Joined(f, n)[k - 1], f[k])
  BY <1>2 DEF UnfoldsJoined
<1>4. Joined(f, n)[0] = <<>>
  BY <1>2 DEF UnfoldsJoined
<1> QED  BY <1>3, <1>4 DEF Joint

UnfoldsWithin(r, ledger, block, n) == r = [k \in 0 .. n |-> IF k = 0 THEN ledger ELSE PassTx(r[k - 1], block[k + 1])]

LEMMA WithinExist ==
    ASSUME NEW ledger, NEW block, NEW n \in Nat
    PROVE  \E r : UnfoldsWithin(r, ledger, block, n)
<1> DEFINE T == {k \in Nat : ~ \E r : UnfoldsWithin(r, ledger, block, k)}
<1>1. SUFFICES ASSUME T # {} PROVE FALSE
  OBVIOUS
<1>2. PICK k \in T : \A j \in T : k <= j
  BY <1>1, LeastNat
<1>3. CASE k = 0
  <2>1. UnfoldsWithin([j \in {0} |-> ledger], ledger, block, 0)
    BY DEF UnfoldsWithin
  <2> QED  BY <1>2, <1>3, <2>1
<1>4. CASE k # 0
  <2>1. k - 1 \in Nat /\ k - 1 \notin T
    BY <1>2, <1>4
  <2>2. PICK r : UnfoldsWithin(r, ledger, block, k - 1)
    BY <2>1
  <2> DEFINE more == [j \in 0 .. k |-> IF j = k THEN PassTx(r[k - 1], block[k + 1]) ELSE r[j]]
  <2>3. \A j \in 0 .. k : more[j] = IF j = 0 THEN ledger ELSE PassTx(more[j - 1], block[j + 1])
    <3>1. TAKE j \in 0 .. k
    <3>2. CASE j = 0
      BY <1>2, <1>4, <2>2, <3>2 DEF UnfoldsWithin
    <3>3. CASE j \in 1 .. k - 1
      <4>1. r[j] = PassTx(r[j - 1], block[j + 1])
        BY <1>2, <2>2, <3>3 DEF UnfoldsWithin
      <4> QED  BY <1>2, <3>3, <4>1
    <3>4. CASE j = k
      BY <1>2, <1>4, <3>4
    <3> QED  BY <1>2, <3>2, <3>3, <3>4
  <2>4. more = [j \in 0 .. k |-> more[j]]
    OBVIOUS
  <2> HIDE DEF more
  <2>5. [j \in 0 .. k |-> more[j]] = [j \in 0 .. k |-> IF j = 0 THEN ledger ELSE PassTx(more[j - 1], block[j + 1])]
    BY <2>3
  <2>6. UnfoldsWithin(more, ledger, block, k)
    BY <2>4, <2>5 DEF UnfoldsWithin
  <2> QED  BY <1>2, <2>6
<1> QED  BY <1>3, <1>4

LEMMA WithinUnfold ==
    ASSUME NEW ledger, NEW block, Len(block) \in Nat \ {0}
    PROVE  LET within == WithinBlock(ledger, block)
           IN  /\ within[0] = ledger
               /\ \A k \in 1 .. Len(block) - 1 : within[k] = PassTx(within[k - 1], block[k + 1])
<1>1. WithinBlock(ledger, block) = CHOOSE r : UnfoldsWithin(r, ledger, block, Len(block) - 1)
  BY DEF WithinBlock, UnfoldsWithin
<1>2. UnfoldsWithin(WithinBlock(ledger, block), ledger, block, Len(block) - 1)
  <2>1. Len(block) - 1 \in Nat
    OBVIOUS
  <2> QED  BY <1>1, <2>1, WithinExist
<1> QED  BY <1>2 DEF UnfoldsWithin

UnfoldsLedger(r, c, n) == r = [k \in 0 .. n |-> IF k = 0 THEN LedgerAtBase(c) ELSE PassBlock(r[k - 1], c.blocks[k], k)]

LEMMA LedgerExist ==
    ASSUME NEW c, NEW n \in Nat
    PROVE  \E r : UnfoldsLedger(r, c, n)
<1> DEFINE T == {k \in Nat : ~ \E r : UnfoldsLedger(r, c, k)}
<1>1. SUFFICES ASSUME T # {} PROVE FALSE
  OBVIOUS
<1>2. PICK k \in T : \A j \in T : k <= j
  BY <1>1, LeastNat
<1>3. CASE k = 0
  <2>1. UnfoldsLedger([j \in {0} |-> LedgerAtBase(c)], c, 0)
    BY DEF UnfoldsLedger
  <2> QED  BY <1>2, <1>3, <2>1
<1>4. CASE k # 0
  <2>1. k - 1 \in Nat /\ k - 1 \notin T
    BY <1>2, <1>4
  <2>2. PICK r : UnfoldsLedger(r, c, k - 1)
    BY <2>1
  <2> DEFINE more == [j \in 0 .. k |-> IF j = k THEN PassBlock(r[k - 1], c.blocks[k], k) ELSE r[j]]
  <2>3. \A j \in 0 .. k : more[j] = IF j = 0 THEN LedgerAtBase(c) ELSE PassBlock(more[j - 1], c.blocks[j], j)
    <3>1. TAKE j \in 0 .. k
    <3>2. CASE j = 0
      BY <1>2, <1>4, <2>2, <3>2 DEF UnfoldsLedger
    <3>3. CASE j \in 1 .. k - 1
      <4>1. r[j] = PassBlock(r[j - 1], c.blocks[j], j)
        BY <1>2, <2>2, <3>3 DEF UnfoldsLedger
      <4> QED  BY <1>2, <3>3, <4>1
    <3>4. CASE j = k
      BY <1>2, <1>4, <3>4
    <3> QED  BY <1>2, <3>2, <3>3, <3>4
  <2>4. more = [j \in 0 .. k |-> more[j]]
    OBVIOUS
  <2> HIDE DEF more
  <2>5. [j \in 0 .. k |-> more[j]] = [j \in 0 .. k |-> IF j = 0 THEN LedgerAtBase(c) ELSE PassBlock(more[j - 1], c.blocks[j], j)]
    BY <2>3
  <2>6. UnfoldsLedger(more, c, k)
    BY <2>4, <2>5 DEF UnfoldsLedger
  <2> QED  BY <1>2, <2>6
<1> QED  BY <1>3, <1>4

LEMMA LedgerUnfold ==
    ASSUME NEW c, Len(c.blocks) \in Nat
    PROVE  /\ Ledger(c)[0] = LedgerAtBase(c)
           /\ \A h \in 1 .. Len(c.blocks) : Ledger(c)[h] = PassBlock(Ledger(c)[h - 1], c.blocks[h], h)
<1>1. Ledger(c) = CHOOSE r : UnfoldsLedger(r, c, Len(c.blocks))
  BY DEF Ledger, UnfoldsLedger
<1>2. UnfoldsLedger(Ledger(c), c, Len(c.blocks))
  BY <1>1, LedgerExist
<1>3. PICK n, r, b, base : /\ n \in Nat /\ n = Len(c.blocks)
                           /\ r = Ledger(c) /\ b = c.blocks /\ base = LedgerAtBase(c)
  OBVIOUS
<1>4. r = [k \in 0 .. n |-> IF k = 0 THEN base ELSE PassBlock(r[k - 1], b[k], k)]
  BY <1>2, <1>3 DEF UnfoldsLedger
<1>5. r[0] = base /\ \A h \in 1 .. n : r[h] = PassBlock(r[h - 1], b[h], h)
  <2>1. n \in Nat /\ 0 \in 0 .. n /\ \A h \in 1 .. n : h \in 0 .. n /\ h # 0
    BY <1>3
  <2> QED  BY <1>4, <2>1
<1> QED  BY <1>3, <1>5

-----------------------------------------------------------------------------
\* Sums of natural numbers, and sequences joined and cut.
LEMMA SumsGrow ==
    ASSUME NEW f, NEW n \in Nat, \A k \in 1 .. n : f[k] \in Nat, NEW i \in 0 .. n
    PROVE  \A j \in i .. n : Sums(f, n)[i] \in Nat /\ Sums(f, n)[i] <= Sums(f, n)[j]
<1>0. \A k \in 0 .. n : Sums(f, n)[k] \in Int
  BY SumsAreIntegers
<1>1. \A j \in 0 .. n : Sums(f, n)[j] >= 0
  <2> DEFINE T == {j \in 0 .. n : ~(Sums(f, n)[j] >= 0)}
  <2>1. SUFFICES ASSUME T # {} PROVE FALSE
    OBVIOUS
  <2>2. PICK j \in T : \A m \in T : j <= m
    <3>1. T \in SUBSET Nat
      OBVIOUS
    <3> HIDE DEF T
    <3> QED  BY <2>1, <3>1, LeastNat
  <2>3. j # 0
    BY SumsUnfold
  <2>4. j \in 1 .. n /\ j - 1 \in 0 .. n /\ j - 1 \notin T
    BY <2>2, <2>3
  <2>5. Sums(f, n)[j - 1] >= 0 /\ Sums(f, n)[j] = Sums(f, n)[j - 1] + f[j]
    BY <2>4, SumsUnfold
  <2> QED  BY <1>0, <2>2, <2>4, <2>5
<1>2. \A j \in i .. n : Sums(f, n)[i] <= Sums(f, n)[j]
  <2> DEFINE T == {j \in i .. n : ~(Sums(f, n)[i] <= Sums(f, n)[j])}
  <2>1. SUFFICES ASSUME T # {} PROVE FALSE
    OBVIOUS
  <2>2. PICK j \in T : \A m \in T : j <= m
    <3>1. T \in SUBSET Nat
      OBVIOUS
    <3> HIDE DEF T
    <3> QED  BY <2>1, <3>1, LeastNat
  <2>3. j # i
    BY <1>0, <2>2
  <2>4. j \in 1 .. n /\ j - 1 \in i .. n /\ j - 1 \in 0 .. n /\ j - 1 \notin T
    BY <2>2, <2>3
  <2>5. Sums(f, n)[i] <= Sums(f, n)[j - 1] /\ Sums(f, n)[j] = Sums(f, n)[j - 1] + f[j]
    BY <2>4, SumsUnfold
  <2> QED  BY <1>0, <2>2, <2>4, <2>5
<1> QED  BY <1>0, <1>1, <1>2

LEMMA Joining ==
    ASSUME NEW S, NEW s \in Seq(S), NEW r \in Seq(S)
    PROVE  /\ s \o r \in Seq(S) /\ Len(s \o r) = Len(s) + Len(r)
           /\ \A k \in 1 .. Len(s) : (s \o r)[k] = s[k]
           /\ \A k \in 1 .. Len(r) : (s \o r)[Len(s) + k] = r[k]
OBVIOUS

LEMMA Cutting ==
    ASSUME NEW S, NEW s \in Seq(S), NEW m \in Nat, NEW n \in Nat, m <= n, n <= Len(s)
    PROVE  LET cut == SubSeq(s, m + 1, n)
           IN  /\ cut \in Seq(S) /\ Len(cut) = n - m
               /\ \A k \in 1 .. n - m : cut[k] = s[m + k]
OBVIOUS

\* The sums of the lengths of sequences.
Lengths(S, f, n, sums) ==
    /\ \A k \in 1 .. n : f[k] \in Seq(S)
    /\ sums[0] = 0 /\ \A k \in 1 .. n : sums[k] = sums[k - 1] + Len(f[k])
LEMMA JoinedLengths ==
    ASSUME NEW S, NEW f, NEW n \in Nat, NEW sums, Lengths(S, f, n, sums)
    PROVE  \A i \in 0 .. n : Joined(f, n)[i] \in Seq(S) /\ Len(Joined(f, n)[i]) = sums[i]
<1> DEFINE Right(k) == Joined(f, n)[k] \in Seq(S) /\ Len(Joined(f, n)[k]) = sums[k]
           T == {k \in 0 .. n : ~Right(k)}
<1>0. /\ \A k \in 1 .. n : f[k] \in Seq(S)
      /\ sums[0] = 0 /\ \A k \in 1 .. n : sums[k] = sums[k - 1] + Len(f[k])
  BY DEF Lengths
<1>1. SUFFICES ASSUME T # {} PROVE FALSE
  OBVIOUS
<1>2. PICK k \in T : \A m \in T : k <= m
  <2>1. T \in SUBSET Nat
    OBVIOUS
  <2> HIDE DEF T
  <2> QED  BY <1>1, <2>1, LeastNat
<1>3. Right(0)
  <2>1. Joined(f, n)[0] = <<>>
    BY JoinedUnfold
  <2> QED  BY <1>0, <2>1
<1>4. k \in 1 .. n /\ k - 1 \in 0 .. n /\ k - 1 \notin T
  BY <1>2, <1>3
<1>5. Right(k - 1)
  BY <1>4
<1>6. Joined(f, n)[k] = Joined(f, n)[k - 1] \o f[k] /\ f[k] \in Seq(S) /\ sums[k] = sums[k - 1] + Len(f[k])
  BY <1>0, <1>4, JoinedUnfold
<1>7. PICK a, b : a = Joined(f, n)[k - 1] /\ b = f[k]
  OBVIOUS
<1>8. a \o b \in Seq(S) /\ Len(a \o b) = Len(a) + Len(b)
  BY <1>5, <1>6, <1>7, Joining
<1> QED  BY <1>2, <1>5, <1>6, <1>7, <1>8

\* The envelopes of a transaction are counted over its inputs: no two inputs
\* that have one begin at the same count.
LEMMA EnvelopesCount ==
    ASSUME NEW tx \in Transaction
    PROVE  LET sums == EnvelopeSums(tx)
               n == Len(tx.inputs)
           IN  /\ n \in Nat /\ DOMAIN tx.inputs = 1 .. n /\ sums[0] = 0
               /\ \A i \in 1 .. n :
                     /\ tx.inputs[i].envelopes \in Nat /\ sums[i - 1] \in Nat
                     /\ sums[i] = sums[i - 1] + tx.inputs[i].envelopes
               /\ \A i \in 0 .. n : \A j \in i .. n : sums[i] <= sums[j] /\ sums[i] \in Nat
<1> DEFINE f == [i \in DOMAIN tx.inputs |-> tx.inputs[i].envelopes]
<1>1. Len(tx.inputs) \in Nat /\ DOMAIN tx.inputs = 1 .. Len(tx.inputs)
  <2>1. tx.inputs \in Seq(Input)
    BY DEF Transaction
  <2> QED  BY <2>1
<1>2. \A i \in 1 .. Len(tx.inputs) : f[i] = tx.inputs[i].envelopes /\ f[i] \in Nat
  <2>1. \A i \in 1 .. Len(tx.inputs) : tx.inputs[i] \in Input
    BY DEF Transaction
  <2> QED  BY <1>1, <2>1 DEF Input
<1>3. EnvelopeSums(tx) = Sums(f, Len(tx.inputs))
  BY DEF EnvelopeSums
<1> HIDE DEF f
<1>4. \A i \in 0 .. Len(tx.inputs) : \A j \in i .. Len(tx.inputs) :
         Sums(f, Len(tx.inputs))[i] <= Sums(f, Len(tx.inputs))[j] /\ Sums(f, Len(tx.inputs))[i] \in Nat
  BY <1>1, <1>2, SumsGrow
<1>5. /\ Sums(f, Len(tx.inputs))[0] = 0
      /\ \A i \in 1 .. Len(tx.inputs) :
            Sums(f, Len(tx.inputs))[i] = Sums(f, Len(tx.inputs))[i - 1] + f[i]
  BY <1>1, SumsUnfold
<1>6. PICK n, sums : n = Len(tx.inputs) /\ sums = EnvelopeSums(tx)
  OBVIOUS
<1>7. \A i \in 1 .. n : i - 1 \in 0 .. n /\ i \in (i - 1) .. n
  BY <1>1, <1>6
<1> QED  BY <1>1, <1>2, <1>3, <1>4, <1>5, <1>6, <1>7

-----------------------------------------------------------------------------
\* The parts of the invariant.
\* The ledger in front of the transaction at hand, or behind the last block,
\* and behind the transaction at hand.
LedgerNow ==
    IF InTx THEN WithinBlock(Ledger(chain)[height - 1], chain.blocks[height])[tx_index - 1]
    ELSE Ledger(chain)[height]
AllSats ==
    IF IsCoinbase(Tx) THEN SubsidySats(height) \o LedgerNow.fees
    ELSE SatsRead(LedgerNow, Tx)[Len(Tx.inputs)]
Passed ==
    Pass(LedgerNow, Tx, AllSats, IF IsCoinbase(Tx) THEN <<>> ELSE LedgerNow.fees, LedgerNow.lost)

\* The ledger that the lists describe: a transaction passes its sats on once
\* its inputs are read.
Described == IF pc \in {"outputs", "settle"} THEN Passed ELSE LedgerNow
\* The sats that the inputs read so far brought.
ReadNow ==
    IF pc = "inputs" /\ ~IsCoinbase(Tx) THEN SatsRead(LedgerNow, Tx)[input_index - 1] ELSE AllSats

Sat == Nat \X Nat \X Nat

\* The sequences of the ledger are as long as the sums the updater keeps.
LengthsInv ==
    /\ DOMAIN LedgerNow.sats \subseteq DOMAIN chain.value
    /\ \A o \in DOMAIN LedgerNow.sats :
          LedgerNow.sats[o] \in Seq(Sat) /\ Len(LedgerNow.sats[o]) = chain.value[o]
    /\ LedgerNow.fees \in Seq(Sat) /\ LedgerNow.lost \in Seq(Sat)
    /\ InTx => reward = Subsidy[height] + Len(LedgerNow.fees)
    /\ ~InTx => LedgerNow.fees = <<>>
    /\ Len(LedgerNow.lost) = IF pc = "idle" THEN status.lost_sats ELSE lost_sats

\* The stored values are those of the unspent outputs.
StoreInv ==
    LET unspent == DOMAIN (IF pc = "settle" THEN Passed ELSE LedgerNow).sats
    IN  DOMAIN output_value \subseteq unspent /\ unspent \ chain.base \subseteq DOMAIN output_value

\* The positions of the walk that are behind.
Behind(g, j) ==
    /\ g \in DOMAIN chain.blocks /\ j \in DOMAIN chain.blocks[g]
    /\ g < height \/ (g = height /\ (InTx => j < tx_index))
UnspentInv ==
    \A o : /\ o \in chain.base \/ \E g, j : Behind(g, j) /\ o \in Created(TxInOrder(chain.blocks[g], j))
           /\ \A g, j : Behind(g, j) => o \notin Spent(TxInOrder(chain.blocks[g], j))
           => o \in DOMAIN LedgerNow.sats

\* What floats is on its sat.
OnItsSatIn(f, sats, inscribed) ==
    f.id \in DOMAIN inscribed =>
        /\ f.kind = "new" => ~f.unbound
        /\ f.offset + 1 \in DOMAIN sats /\ sats[f.offset + 1] = inscribed[f.id]
AllOnSats(s, sats, inscribed) == \A k \in DOMAIN s : OnItsSatIn(s[k], sats, inscribed)
FloatsInv ==
    /\ InTx =>
        /\ AllOnSats(floating, ReadNow, Passed.inscribed)
        /\ AllOnSats(flotsam, SubsidySats(height) \o LedgerNow.fees, Described.inscribed)
    /\ pc = "inputs" /\ ~IsCoinbase(Tx) => id_counter = EnvelopeSums(Tx)[input_index - 1]
    /\ ~InTx => floating = <<>> /\ flotsam = <<>>
    /\ pc \in {"outputs", "settle"} /\ IsCoinbase(Tx) => flotsam = <<>>

\* What does not move is on its sat, on an unspent output or unbound.
OldIds(s) == {s[k].id : k \in OldAt(s)}
MovingIds == OldIds(floating) \cup OldIds(flotsam)
ReadOutput(o) == pc = "inputs" /\ \E i \in DOMAIN Tx.inputs : i < input_index /\ Tx.inputs[i].prev = o
RestsAt(o, e) ==
    LET sats == IF IsNull(o) THEN Described.lost ELSE Described.sats[o]
    IN  /\ \/ IsNull(o)
           \/ o \in DOMAIN Described.sats /\ ~ReadOutput(o)
           \/ \E n \in 0 .. UnboundSoFar - 1 : o = Unbound(n)
        /\ e[1] \in DOMAIN Described.inscribed =>
              /\ IsNull(o) \/ o \in DOMAIN Described.sats
              /\ e[2] + 1 \in DOMAIN sats /\ sats[e[2] + 1] = Described.inscribed[e[1]]
RestInv == \A o : \A e \in At(o) : e[1] \notin MovingIds => RestsAt(o, e)

\* What is inscribed is known.
CoverInv ==
    /\ DOMAIN Described.inscribed \subseteq DOMAIN Located \cup NewIds(floating) \cup NewIds(flotsam)
    /\ pc = "inputs" =>
          \A i \in Inscribing(LedgerNow, Tx) : i < input_index => IdIn(Tx, i) \in NewIds(floating)

NotEmptyInv == \A o \in DOMAIN output_inscription : output_inscription[o] # <<>>

-----------------------------------------------------------------------------
\* The ledger moves on with the walk.
LEMMA LedgerStays ==
    ASSUME UNCHANGED <<chain, height>>, InTx => UNCHANGED tx_index, (InTx' <=> InTx)
    PROVE  LedgerNow' = LedgerNow /\ (InTx => Tx' = Tx /\ AllSats' = AllSats /\ Passed' = Passed)
<1>1. LedgerNow' = LedgerNow
  BY DEF LedgerNow
<1>2. InTx => Tx' = Tx
  BY DEF Tx
<1>3. InTx => AllSats' = AllSats
  BY <1>1, <1>2 DEF AllSats
<1> QED  BY <1>1, <1>2, <1>3 DEF Passed

LEMMA PassedIs ==
    Passed = IF IsCoinbase(Tx) THEN PassCoinbase(LedgerNow, Tx, height) ELSE PassTx(LedgerNow, Tx)
BY DEF Passed, AllSats, PassCoinbase, PassTx

LEMMA LedgerMoves ==
    ASSUME TypeInv, pc = "settle", FinishTx, UNCHANGED <<chain, height>>
    PROVE  LedgerNow' = Passed
<1> DEFINE b == chain.blocks[height]
           n == Len(b)
           within == WithinBlock(Ledger(chain)[height - 1], b)
<1>1. /\ tx_index \in 1 .. n /\ n \in Nat \ {0} /\ (IsCoinbase(Tx) <=> tx_index = n)
      /\ height \in DOMAIN chain.blocks
  BY TxConserves, TxFacts DEF InTx
<1>2. LedgerNow = within[tx_index - 1]
  BY DEF LedgerNow, InTx
<1>3. /\ within[0] = Ledger(chain)[height - 1]
      /\ \A k \in 1 .. n - 1 : within[k] = PassTx(within[k - 1], b[k + 1])
  <2>1. PICK l, c : l = Ledger(chain)[height - 1] /\ c = b
    OBVIOUS
  <2>2. /\ WithinBlock(l, c)[0] = l
        /\ \A k \in 1 .. Len(c) - 1 : WithinBlock(l, c)[k] = PassTx(WithinBlock(l, c)[k - 1], c[k + 1])
    <3>1. Len(c) \in Nat \ {0}
      BY <1>1, <2>1
    <3> QED  BY <3>1, WithinUnfold
  <2> QED  BY <2>1, <2>2
<1>4. CASE tx_index < n
  <2>1. LedgerNow' = within[tx_index]
    <3>1. InTx' /\ tx_index' = tx_index + 1 /\ tx_index \in Nat
      BY <1>1, <1>4 DEF FinishTx, EnterTx, InTx
    <3>2. tx_index' - 1 = tx_index
      BY <3>1
    <3> QED  BY <3>1, <3>2 DEF LedgerNow
  <2>2. Tx = b[tx_index + 1]
    BY <1>4 DEF Tx, TxInOrder
  <2>3. tx_index \in 1 .. n - 1
    BY <1>1, <1>4
  <2>4. ~IsCoinbase(Tx)
    BY <1>1, <1>4
  <2> HIDE DEF within, b
  <2> QED  BY <1>2, <1>3, <2>1, <2>2, <2>3, <2>4, PassedIs
<1>5. CASE tx_index = n
  <2>1. LedgerNow' = Ledger(chain)[height]
    BY <1>1, <1>5 DEF FinishTx, InTx, LedgerNow
  <2>2. Len(chain.blocks) \in Nat /\ height \in 1 .. Len(chain.blocks)
    <3>1. chain.blocks \in Seq(Block)
      BY ChainFacts DEF TypeInv
    <3> QED  BY <1>1, <3>1
  <2>3. Ledger(chain)[height] = PassBlock(Ledger(chain)[height - 1], b, height)
    BY <2>2, LedgerUnfold
  <2>4. Tx = b[1]
    BY <1>5 DEF Tx, TxInOrder
  <2>5. PassBlock(Ledger(chain)[height - 1], b, height) = PassCoinbase(within[n - 1], b[1], height)
    BY DEF PassBlock
  <2> HIDE DEF within, b, n
  <2> QED  BY <1>1, <1>2, <1>5, <2>1, <2>3, <2>4, <2>5, PassedIs
<1> QED  BY <1>1, <1>4, <1>5

LEMMA LedgerBegins ==
    ASSUME TypeInv, BeginBlock(height + 1)
    PROVE  LedgerNow' = LedgerNow
<1>1. /\ pc = "idle" /\ pc' = "inputs" /\ height' = height + 1 /\ tx_index' = 1 /\ chain' = chain
      /\ height + 1 \in DOMAIN chain.blocks /\ height \in Nat
  BY DEF BeginBlock, EnterTx, Served, TypeInv, TypeOK
<1>2. Len(chain.blocks[height + 1]) \in Nat \ {0}
  <2>1. chain.blocks \in Seq(Block)
    BY ChainFacts DEF TypeInv
  <2>2. chain.blocks[height + 1] \in Block
    BY <1>1, <2>1
  <2> QED  BY <2>2 DEF Block
<1>3. height' - 1 = height /\ tx_index' - 1 = 0
  BY <1>1
<1>4. LedgerNow' = WithinBlock(Ledger(chain)[height], chain.blocks[height + 1])[0]
  BY <1>1, <1>3 DEF LedgerNow, InTx
<1>5. WithinBlock(Ledger(chain)[height], chain.blocks[height + 1])[0] = Ledger(chain)[height]
  BY <1>2, WithinUnfold
<1> QED  BY <1>1, <1>4, <1>5 DEF LedgerNow, InTx

\* What a transaction passes on.
Rest == SubSeq(AllSats, ValueOut(Tx) + 1, Len(AllSats))
InscribedIds == {IdIn(Tx, i) : i \in Inscribing(LedgerNow, Tx)}
LEMMA PassedParts ==
    /\ DOMAIN Passed.sats = (DOMAIN LedgerNow.sats \ Spent(Tx)) \cup Created(Tx)
    /\ \A o \in DOMAIN Passed.sats :
          Passed.sats[o] =
              IF o \in Created(Tx)
              THEN SubSeq(AllSats, SumsOut(Tx)[(o[2] + 1) - 1] + 1, SumsOut(Tx)[o[2] + 1])
              ELSE LedgerNow.sats[o]
    /\ IsCoinbase(Tx) => Passed.fees = <<>> \o <<>> /\ Passed.lost = LedgerNow.lost \o Rest
    /\ ~IsCoinbase(Tx) => Passed.fees = LedgerNow.fees \o Rest /\ Passed.lost = LedgerNow.lost \o <<>>
    /\ DOMAIN Passed.inscribed = DOMAIN LedgerNow.inscribed \cup InscribedIds
    /\ \A id \in DOMAIN Passed.inscribed :
          Passed.inscribed[id] =
              IF id \in DOMAIN LedgerNow.inscribed THEN LedgerNow.inscribed[id]
              ELSE SatsIn(LedgerNow, Tx, CHOOSE i \in Inscribing(LedgerNow, Tx) : IdIn(Tx, i) = id)[1]
<1>1. PICK fees : fees = IF IsCoinbase(Tx) THEN <<>> ELSE LedgerNow.fees
  OBVIOUS
<1>2. Passed = Pass(LedgerNow, Tx, AllSats, fees, LedgerNow.lost)
  BY <1>1 DEF Passed
<1>3. /\ DOMAIN Passed.sats = (DOMAIN LedgerNow.sats \ Spent(Tx)) \cup Created(Tx)
      /\ \A o \in DOMAIN Passed.sats :
            Passed.sats[o] =
                IF o \in Created(Tx)
                THEN SubSeq(AllSats, SumsOut(Tx)[(o[2] + 1) - 1] + 1, SumsOut(Tx)[o[2] + 1])
                ELSE LedgerNow.sats[o]
  BY <1>2 DEF Pass
<1>4. /\ Passed.fees = fees \o (IF IsCoinbase(Tx) THEN <<>> ELSE Rest)
      /\ Passed.lost = LedgerNow.lost \o (IF IsCoinbase(Tx) THEN Rest ELSE <<>>)
  BY <1>2 DEF Pass, Rest
<1>5. /\ DOMAIN Passed.inscribed = DOMAIN LedgerNow.inscribed \cup InscribedIds
      /\ \A id \in DOMAIN Passed.inscribed :
            Passed.inscribed[id] =
                IF id \in DOMAIN LedgerNow.inscribed THEN LedgerNow.inscribed[id]
                ELSE SatsIn(LedgerNow, Tx, CHOOSE i \in Inscribing(LedgerNow, Tx) : IdIn(Tx, i) = id)[1]
  BY <1>2 DEF Pass, InscribedIds
<1>6. IsCoinbase(Tx) => Passed.fees = <<>> \o <<>> /\ Passed.lost = LedgerNow.lost \o Rest
  BY <1>1, <1>4
<1>7. ~IsCoinbase(Tx) => Passed.fees = LedgerNow.fees \o Rest /\ Passed.lost = LedgerNow.lost \o <<>>
  BY <1>1, <1>4
<1> QED  BY <1>3, <1>5, <1>6, <1>7, Zenon

\* The sats of a transaction, read input by input.
LEMMA ReadSats ==
    ASSUME TypeInv, LengthsInv, InTx, ~IsCoinbase(Tx), Spent(Tx) \subseteq DOMAIN LedgerNow.sats
    PROVE  LET n == Len(Tx.inputs)
               read == SatsRead(LedgerNow, Tx)
           IN  /\ n \in Nat /\ DOMAIN Tx.inputs = 1 .. n /\ read[0] = <<>>
               /\ \A i \in 1 .. n :
                     LET prev == Tx.inputs[i].prev IN
                     /\ ~IsNull(prev) /\ prev \in OutPoint /\ prev \in DOMAIN LedgerNow.sats
                     /\ SatsIn(LedgerNow, Tx, i) = LedgerNow.sats[prev]
                     /\ LedgerNow.sats[prev] \in Seq(Sat) /\ Len(LedgerNow.sats[prev]) = chain.value[prev]
                     /\ read[i] = read[i - 1] \o LedgerNow.sats[prev]
               /\ \A i \in 0 .. n : read[i] \in Seq(Sat) /\ Len(read[i]) = SumsIn(chain, Tx)[i]
<1> DEFINE f == [i \in DOMAIN Tx.inputs |-> SatsIn(LedgerNow, Tx, i)]
           n == Len(Tx.inputs)
<1>1. /\ Tx \in Transaction \cap Transactions(chain) /\ chain \in Chains
      /\ \A i \in DOMAIN Tx.inputs : ~IsNull(Tx.inputs[i].prev) /\ Tx.inputs[i] \in Input
      /\ n \in Nat /\ DOMAIN Tx.inputs = 1 .. n
  BY TxConserves, TxFacts DEF TypeInv, InTx
<1>2. \A i \in 1 .. n :
         /\ Tx.inputs[i].prev \in OutPoint /\ Tx.inputs[i].prev \in DOMAIN LedgerNow.sats
         /\ f[i] = LedgerNow.sats[Tx.inputs[i].prev]
         /\ SatsIn(LedgerNow, Tx, i) = LedgerNow.sats[Tx.inputs[i].prev]
  <2> SUFFICES ASSUME NEW i \in 1 .. n
               PROVE  /\ Tx.inputs[i].prev \in OutPoint /\ Tx.inputs[i].prev \in DOMAIN LedgerNow.sats
                      /\ SatsIn(LedgerNow, Tx, i) = LedgerNow.sats[Tx.inputs[i].prev]
    BY <1>1
  <2>1. Tx.inputs[i].prev \in Spent(Tx)
    BY <1>1 DEF Spent, IsNull
  <2> QED  BY <1>1, <2>1 DEF SatsIn, Input
<1>3. \A i \in 1 .. n :
         /\ LedgerNow.sats[Tx.inputs[i].prev] \in Seq(Sat)
         /\ Len(LedgerNow.sats[Tx.inputs[i].prev]) = chain.value[Tx.inputs[i].prev]
  BY <1>2 DEF LengthsInv
<1>4. SatsRead(LedgerNow, Tx) = Joined(f, n)
  BY DEF SatsRead
<1>5. /\ SumsIn(chain, Tx)[0] = 0
      /\ \A i \in 1 .. n : SumsIn(chain, Tx)[i] = SumsIn(chain, Tx)[i - 1] + chain.value[Tx.inputs[i].prev]
  BY <1>1, SumsInSteps
<1> HIDE DEF f
<1>6. /\ Joined(f, n)[0] = <<>>
      /\ \A i \in 1 .. n : Joined(f, n)[i] = Joined(f, n)[i - 1] \o f[i]
  BY <1>1, JoinedUnfold
<1>7. \A i \in 0 .. n : Joined(f, n)[i] \in Seq(Sat) /\ Len(Joined(f, n)[i]) = SumsIn(chain, Tx)[i]
  <2>1. \A i \in 1 .. n : f[i] \in Seq(Sat)
    BY <1>2, <1>3
  <2>2. PICK sums : sums = SumsIn(chain, Tx)
    OBVIOUS
  <2>3. sums[0] = 0 /\ \A i \in 1 .. n : sums[i] = sums[i - 1] + Len(f[i])
    BY <1>2, <1>3, <1>5, <2>2
  <2> HIDE DEF n
  <2>4. n \in Nat
    BY <1>1
  <2>5. \A i \in 0 .. n : Joined(f, n)[i] \in Seq(Sat) /\ Len(Joined(f, n)[i]) = sums[i]
    <3>1. Lengths(Sat, f, n, sums)
      BY <2>1, <2>3 DEF Lengths
    <3> QED  BY <2>4, <3>1, JoinedLengths, SMTT(30)
  <2> QED  BY <2>2, <2>5
<1>8. \A i \in 1 .. n : Joined(f, n)[i] = Joined(f, n)[i - 1] \o LedgerNow.sats[Tx.inputs[i].prev]
  BY <1>2, <1>6
<1> QED  BY <1>1, <1>2, <1>3, <1>4, <1>6, <1>7, <1>8, Zenon

\* The sats of a transaction are as many as the value it has.
LEMMA AllSatsLength ==
    ASSUME TypeInv, AmountsInv, LengthsInv, InTx, Spent(Tx) \subseteq DOMAIN LedgerNow.sats
    PROVE  /\ AllSats \in Seq(Sat) /\ ValueOut(Tx) \in Int /\ ValueOut(Tx) <= Len(AllSats)
           /\ Len(AllSats) = IF IsCoinbase(Tx) THEN reward ELSE ValueIn(chain, Tx)
<1>1. ValueOut(Tx) \in Int
  BY TxConserves, SumsOutSteps
<1>2. CASE IsCoinbase(Tx)
  <2>1. /\ Subsidy[height] \in Nat /\ height \in Nat
        /\ ValueOut(Tx) <= Subsidy[height] + FeeSums(chain, chain.blocks[height])[tx_index - 1]
        /\ reward = Subsidy[height] + FeeSums(chain, chain.blocks[height])[tx_index - 1]
    BY <1>2, TxConserves, TxFacts DEF AmountsInv, RewardInv, InTx, TypeInv, TypeOK
  <2>2. SubsidySats(height) \in Seq(Sat) /\ Len(SubsidySats(height)) = Subsidy[height]
    BY <2>1 DEF SubsidySats, Sat, NullHash
  <2>3. AllSats = SubsidySats(height) \o LedgerNow.fees /\ LedgerNow.fees \in Seq(Sat)
        /\ reward = Subsidy[height] + Len(LedgerNow.fees)
    BY <1>2 DEF AllSats, LengthsInv
  <2>4. PICK s, r : s = SubsidySats(height) /\ r = LedgerNow.fees
    OBVIOUS
  <2>5. s \o r \in Seq(Sat) /\ Len(s \o r) = Len(s) + Len(r)
    BY <2>2, <2>3, <2>4, Joining
  <2> QED  BY <1>1, <1>2, <2>1, <2>2, <2>3, <2>4, <2>5
<1>3. CASE ~IsCoinbase(Tx)
  <2>1. ValueOut(Tx) <= ValueIn(chain, Tx) /\ Len(Tx.inputs) \in Nat
    BY <1>3, TxConserves, TxFacts DEF InTx
  <2>2. AllSats = SatsRead(LedgerNow, Tx)[Len(Tx.inputs)]
    BY <1>3 DEF AllSats
  <2>3. /\ SatsRead(LedgerNow, Tx)[Len(Tx.inputs)] \in Seq(Sat)
        /\ Len(SatsRead(LedgerNow, Tx)[Len(Tx.inputs)]) = SumsIn(chain, Tx)[Len(Tx.inputs)]
    <3>1. \A i \in 0 .. Len(Tx.inputs) :
             /\ SatsRead(LedgerNow, Tx)[i] \in Seq(Sat)
             /\ Len(SatsRead(LedgerNow, Tx)[i]) = SumsIn(chain, Tx)[i]
      BY <1>3, ReadSats
    <3> QED  BY <2>1, <3>1
  <2> QED  BY <1>1, <1>3, <2>1, <2>2, <2>3 DEF ValueIn
<1> QED  BY <1>2, <1>3

\* The sats of an output are those of the inputs at its place.
OutSats(v) == Passed.sats[<<Tx.txid, v - 1>>]
LEMMA OutputSats ==
    ASSUME TypeInv, AmountsInv, LengthsInv, InTx, Spent(Tx) \subseteq DOMAIN LedgerNow.sats,
           NEW v \in 1 .. Len(Tx.outputs)
    PROVE  /\ OutSats(v) \in Seq(Sat) /\ Len(OutSats(v)) = Tx.outputs[v]
           /\ SumsOut(Tx)[v - 1] \in Nat
           /\ \A k \in 1 .. Tx.outputs[v] : OutSats(v)[k] = AllSats[SumsOut(Tx)[v - 1] + k]
<1>1. /\ Tx \in Transaction /\ Len(Tx.outputs) \in Nat /\ Tx.outputs[v] \in Nat
      /\ \A i \in 1 .. Len(Tx.outputs) : Tx.outputs[i] \in Nat
  BY TxFacts DEF InTx
<1>2. PICK n, sums : n = Len(Tx.outputs) /\ sums = SumsOut(Tx)
  OBVIOUS
<1>3. /\ sums[v - 1] \in Nat /\ sums[v] \in Nat /\ sums[v - 1] <= sums[v] /\ sums[v] <= sums[n]
      /\ sums[v] = sums[v - 1] + Tx.outputs[v]
  <2>1. \A i \in 0 .. n : \A j \in i .. n : sums[i] \in Nat /\ sums[i] <= sums[j]
    BY <1>1, <1>2, SumsGrow DEF SumsOut
  <2>2. sums[v] = sums[v - 1] + Tx.outputs[v]
    BY <1>1, <1>2, SumsOutSteps
  <2>3. v \in Int /\ v - 1 \in 0 .. n /\ v \in 0 .. n /\ n \in v .. n /\ v \in (v - 1) .. n
    BY <1>1, <1>2
  <2> QED  BY <2>1, <2>2, <2>3
<1>4. AllSats \in Seq(Sat) /\ sums[v] <= Len(AllSats)
  <2>1. AllSats \in Seq(Sat) /\ ValueOut(Tx) <= Len(AllSats) /\ ValueOut(Tx) \in Int
    BY AllSatsLength
  <2> QED  BY <1>2, <1>3, <2>1 DEF ValueOut
<1>5. <<Tx.txid, v - 1>> \in Created(Tx)
  BY <1>1 DEF Created
<1>6. OutSats(v) = SubSeq(AllSats, sums[v - 1] + 1, sums[v])
  <2>1. (v - 1) + 1 = v /\ ((v - 1) + 1) - 1 = v - 1
    OBVIOUS
  <2>2. PICK o : o = <<Tx.txid, v - 1>>
    OBVIOUS
  <2>3. o \in DOMAIN Passed.sats /\ o \in Created(Tx)
    BY <1>5, <2>2, PassedParts
  <2>4. Passed.sats[o] = SubSeq(AllSats, SumsOut(Tx)[(o[2] + 1) - 1] + 1, SumsOut(Tx)[o[2] + 1])
    BY <2>3, PassedParts
  <2> QED  BY <1>2, <2>1, <2>2, <2>4 DEF OutSats
<1>7. PICK all, a, b, cut : /\ all = AllSats /\ a = sums[v - 1] /\ b = sums[v] /\ cut = SubSeq(all, a + 1, b)
  OBVIOUS
<1>8. cut \in Seq(Sat) /\ Len(cut) = b - a /\ \A k \in 1 .. b - a : cut[k] = all[a + k]
  <2>1. all \in Seq(Sat) /\ a \in Nat /\ b \in Nat /\ a <= b /\ b <= Len(all)
    BY <1>3, <1>4, <1>7
  <2>2. SubSeq(all, a + 1, b) \in Seq(Sat) /\ Len(SubSeq(all, a + 1, b)) = b - a
        /\ \A k \in 1 .. b - a : SubSeq(all, a + 1, b)[k] = all[a + k]
    BY <2>1, Cutting, Zenon
  <2> QED  BY <1>7, <2>2, Zenon
<1>9. b - a = Tx.outputs[v] /\ a = SumsOut(Tx)[v - 1] /\ a \in Nat /\ OutSats(v) = cut
  BY <1>1, <1>2, <1>3, <1>6, <1>7
<1> QED  BY <1>7, <1>8, <1>9

\* What lies behind the outputs.
LEMMA RestSats ==
    ASSUME TypeInv, AmountsInv, LengthsInv, InTx, Spent(Tx) \subseteq DOMAIN LedgerNow.sats
    PROVE  /\ Rest \in Seq(Sat) /\ ValueOut(Tx) \in Nat
           /\ Len(Rest) = Len(AllSats) - ValueOut(Tx)
           /\ \A k \in 1 .. Len(Rest) : Rest[k] = AllSats[ValueOut(Tx) + k]
<1>1. AllSats \in Seq(Sat) /\ ValueOut(Tx) <= Len(AllSats)
  BY AllSatsLength
<1>2. ValueOut(Tx) \in Nat
  <2>1. /\ Len(Tx.outputs) \in Nat
        /\ \A i \in 1 .. Len(Tx.outputs) : Tx.outputs[i] \in Nat
    BY TxFacts DEF InTx
  <2> QED  BY <2>1, SumsGrow DEF ValueOut, SumsOut
<1>3. PICK all, a, b, cut : /\ all = AllSats /\ a = ValueOut(Tx) /\ b = Len(AllSats)
                           /\ cut = SubSeq(all, a + 1, b)
  OBVIOUS
<1>4. cut \in Seq(Sat) /\ Len(cut) = b - a /\ \A k \in 1 .. b - a : cut[k] = all[a + k]
  BY <1>1, <1>2, <1>3, Cutting
<1> QED  BY <1>2, <1>3, <1>4 DEF Rest

\* What a transaction spends is unspent when the walk reaches it.
LEMMA SpentThere ==
    ASSUME TypeInv, InTx, SpendsInOrder(chain), UnspentInv
    PROVE  Spent(Tx) \subseteq DOMAIN LedgerNow.sats
<1> DEFINE b == chain.blocks[height]
<1>1. /\ chain \in Chains /\ height \in DOMAIN chain.blocks /\ height \in Nat
      /\ tx_index \in 1 .. Len(b) /\ Len(b) \in Nat /\ DOMAIN b = 1 .. Len(b)
      /\ Tx = TxInOrder(b, tx_index) /\ Tx \in Transaction \cap Transactions(chain)
  <2>1. chain \in Chains /\ height \in DOMAIN chain.blocks /\ height \in Nat /\ tx_index \in 1 .. Len(b)
    BY TxFacts DEF TypeInv, TypeOK, InTx
  <2>2. Len(b) \in Nat /\ DOMAIN b = 1 .. Len(b)
    BY <2>1, WalkPosition
  <2> QED  BY <2>1, <2>2, TxInOrderType DEF Tx
<1> SUFFICES ASSUME NEW o \in Spent(Tx) PROVE o \in DOMAIN LedgerNow.sats
  OBVIOUS
<1>2. \/ o \in chain.base
      \/ \E g, j : Behind(g, j) /\ o \in Created(TxInOrder(chain.blocks[g], j))
  <2>1. \/ o \in chain.base
        \/ \E g \in DOMAIN chain.blocks : \E j \in DOMAIN chain.blocks[g] :
              /\ g < height \/ (g = height /\ j < tx_index)
              /\ o \in Created(TxInOrder(chain.blocks[g], j))
    BY <1>1 DEF SpendsInOrder
  <2> QED  BY <2>1 DEF Behind
<1>3. ASSUME NEW g, NEW j, Behind(g, j), o \in Spent(TxInOrder(chain.blocks[g], j))
      PROVE  FALSE
  <2> DEFINE t == TxInOrder(chain.blocks[g], j)
             at(n, i) == IF i < n THEN i + 1 ELSE 1
  <2>1. /\ g \in DOMAIN chain.blocks /\ j \in 1 .. Len(chain.blocks[g])
        /\ g # height \/ (g = height /\ j < tx_index)
    <3>1. g \in DOMAIN chain.blocks /\ j \in DOMAIN chain.blocks[g]
      BY <1>3 DEF Behind
    <3>2. DOMAIN chain.blocks[g] = 1 .. Len(chain.blocks[g])
      BY <1>1, <3>1, WalkPosition
    <3> QED  BY <1>1, <1>3, <3>1, <3>2 DEF Behind
  <2>2. t \in Transactions(chain) /\ Tx \in Transactions(chain)
    BY <1>1, <2>1, TxInOrderType
  <2>3. PICK k \in DOMAIN t.inputs, i \in DOMAIN Tx.inputs :
           t.inputs[k].prev = o /\ Tx.inputs[i].prev = o /\ ~IsNull(o)
    BY <1>3 DEF Spent, IsNull
  <2>4. t = Tx
    <3>1. SpentOnce(Transactions(chain))
      BY <1>1, ChainAssumption DEF WellFormed
    <3> QED  BY <2>2, <2>3, <3>1 DEF SpentOnce
  <2>5. /\ at(Len(b), tx_index) \in DOMAIN b /\ Tx = b[at(Len(b), tx_index)]
        /\ at(Len(chain.blocks[g]), j) \in DOMAIN chain.blocks[g]
        /\ t = chain.blocks[g][at(Len(chain.blocks[g]), j)]
    BY <1>1, <2>1, WalkPosition
  <2>6. TxidsUnique(chain.blocks)
    BY <1>1, ChainAssumption DEF WellFormed
  <2>7. g = height /\ at(Len(chain.blocks[g]), j) = at(Len(b), tx_index)
    BY <1>1, <2>1, <2>4, <2>5, <2>6 DEF TxidsUnique
  <2> QED  BY <1>1, <2>1, <2>7
<1> QED  BY <1>2, <1>3 DEF UnspentInv

-----------------------------------------------------------------------------
\* The ledger along the steps.
LedgerInv == LengthsInv /\ StoreInv /\ UnspentInv

LEMMA CreatedValues ==
    ASSUME TypeInv, InTx, NEW o \in Created(Tx)
    PROVE  \E v \in 1 .. Len(Tx.outputs) :
              o = <<Tx.txid, v - 1>> /\ o \in DOMAIN chain.value /\ chain.value[o] = Tx.outputs[v]
<1>1. /\ Tx \in Transactions(chain) /\ WellFormed(chain)
      /\ DOMAIN Tx.outputs = 1 .. Len(Tx.outputs) /\ Len(Tx.outputs) \in Nat
  BY TxConserves, TxFacts, ChainAssumption DEF TypeInv, InTx
<1>2. PICK w \in 0 .. Len(Tx.outputs) - 1 : o = <<Tx.txid, w>>
  BY DEF Created
<1>3. w + 1 \in 1 .. Len(Tx.outputs) /\ (w + 1) - 1 = w
  BY <1>1
<1>4. <<Tx.txid, (w + 1) - 1>> \in DOMAIN chain.value
      /\ chain.value[<<Tx.txid, (w + 1) - 1>>] = Tx.outputs[w + 1]
  BY <1>1, <1>3 DEF WellFormed
<1> QED  BY <1>2, <1>3, <1>4

\* The ledger behind a transaction has the outputs of the chain.
LEMMA PassedTypes ==
    ASSUME TypeInv, AmountsInv, LengthsInv, InTx, Spent(Tx) \subseteq DOMAIN LedgerNow.sats
    PROVE  /\ DOMAIN Passed.sats \subseteq DOMAIN chain.value
           /\ \A o \in DOMAIN Passed.sats :
                 Passed.sats[o] \in Seq(Sat) /\ Len(Passed.sats[o]) = chain.value[o]
<1> SUFFICES ASSUME NEW o \in DOMAIN Passed.sats
             PROVE  /\ o \in DOMAIN chain.value
                    /\ Passed.sats[o] \in Seq(Sat) /\ Len(Passed.sats[o]) = chain.value[o]
  OBVIOUS
<1>1. CASE o \in Created(Tx)
  <2>1. PICK v \in 1 .. Len(Tx.outputs) :
           o = <<Tx.txid, v - 1>> /\ o \in DOMAIN chain.value /\ chain.value[o] = Tx.outputs[v]
    BY <1>1, CreatedValues
  <2>2. OutSats(v) \in Seq(Sat) /\ Len(OutSats(v)) = Tx.outputs[v]
    BY OutputSats
  <2> QED  BY <2>1, <2>2 DEF OutSats
<1>2. CASE o \notin Created(Tx)
  <2>1. o \in DOMAIN LedgerNow.sats /\ Passed.sats[o] = LedgerNow.sats[o]
    BY <1>2, PassedParts
  <2> QED  BY <2>1 DEF LengthsInv
<1> QED  BY <1>1, <1>2

LEMMA SettleLengths ==
    ASSUME TypeInv, AmountsInv, LengthsInv, Spent(Tx) \subseteq DOMAIN LedgerNow.sats,
           SettleFees \/ SettleCoinbase
    PROVE  LengthsInv'
<1>1. /\ pc = "settle" /\ InTx /\ FinishTx /\ UNCHANGED <<chain, height>>
      /\ pc' = IF tx_index < Len(chain.blocks[height]) THEN "inputs" ELSE "flush_id_inscription"
  BY DEF SettleFees, SettleCoinbase, FinishTx, InTx
<1>2. LedgerNow' = Passed
  BY <1>1, LedgerMoves
<1>3. /\ tx_index \in 1 .. Len(chain.blocks[height]) /\ Len(chain.blocks[height]) \in Nat
      /\ IsCoinbase(Tx) <=> tx_index = Len(chain.blocks[height])
  BY <1>1, TxConserves
<1>4. InTx' <=> ~IsCoinbase(Tx)
  BY <1>1, <1>3 DEF InTx
<1>5. placed_value = ValueOut(Tx) /\ (~IsCoinbase(Tx) => input_value = ValueIn(chain, Tx))
  <2>1. vout = Len(Tx.outputs) + 1 /\ Len(Tx.outputs) \in Nat /\ placed_value = SumsOut(Tx)[vout - 1]
        /\ (~IsCoinbase(Tx) => input_value = ValueIn(chain, Tx))
    BY <1>1, TxFacts DEF AmountsInv, PlacedInv
  <2>2. vout - 1 = Len(Tx.outputs)
    BY <2>1
  <2> QED  BY <2>1, <2>2 DEF ValueOut
<1>6. /\ Rest \in Seq(Sat) /\ ValueOut(Tx) \in Nat
      /\ Len(Rest) = (IF IsCoinbase(Tx) THEN reward ELSE input_value) - placed_value
  BY <1>1, <1>5, RestSats, AllSatsLength
<1>7. /\ LedgerNow.fees \in Seq(Sat) /\ LedgerNow.lost \in Seq(Sat)
      /\ reward = Subsidy[height] + Len(LedgerNow.fees) /\ Len(LedgerNow.lost) = lost_sats
      /\ Subsidy[height] \in Nat
  BY <1>1, TxFacts DEF LengthsInv
<1>8. CASE IsCoinbase(Tx)
  <2>1. LedgerNow'.fees = <<>> \o <<>> /\ LedgerNow'.lost = LedgerNow.lost \o Rest
    BY <1>2, <1>8, PassedParts
  <2>2. lost_sats' = lost_sats + (reward - placed_value)
    BY <1>8 DEF SettleCoinbase, SettleFees
  <2>3. PICK l, r : l = LedgerNow.lost /\ r = Rest
    OBVIOUS
  <2>4. l \o r \in Seq(Sat) /\ Len(l \o r) = Len(l) + Len(r)
    BY <1>6, <1>7, <2>3, Joining
  <2>5. LedgerNow'.lost \in Seq(Sat) /\ Len(LedgerNow'.lost) = lost_sats'
    BY <1>6, <1>7, <1>8, <2>1, <2>2, <2>3, <2>4
  <2>6. LedgerNow'.fees = <<>>
    BY <2>1
  <2>7. pc' # "idle" /\ ~InTx'
    BY <1>1, <1>4, <1>8
  <2> QED  BY <1>1, <1>2, <2>5, <2>6, <2>7, PassedTypes DEF LengthsInv
<1>9. CASE ~IsCoinbase(Tx)
  <2>1. LedgerNow'.fees = LedgerNow.fees \o Rest /\ LedgerNow'.lost = LedgerNow.lost \o <<>>
    BY <1>2, <1>9, PassedParts
  <2>2. reward' = reward + (input_value - placed_value) /\ lost_sats' = lost_sats
    BY <1>9 DEF SettleCoinbase, SettleFees
  <2>3. PICK l, r : l = LedgerNow.fees /\ r = Rest
    OBVIOUS
  <2>4. l \o r \in Seq(Sat) /\ Len(l \o r) = Len(l) + Len(r)
    BY <1>6, <1>7, <2>3, Joining
  <2>5. LedgerNow'.fees \in Seq(Sat) /\ reward' = Subsidy[height] + Len(LedgerNow'.fees)
    <3>1. input_value \in Int /\ placed_value \in Int /\ reward \in Int
      BY DEF TypeInv, TypeOK
    <3>2. LedgerNow'.fees \in Seq(Sat) /\ Len(LedgerNow'.fees) = Len(LedgerNow.fees) + Len(Rest)
      BY <2>1, <2>3, <2>4
    <3>3. Len(LedgerNow.fees) \in Nat
      BY <1>7
    <3>4. PICK m, k, s : m = Len(LedgerNow.fees) /\ k = Len(Rest) /\ s = Subsidy[height]
      OBVIOUS
    <3>5. k = input_value - placed_value /\ reward = s + m /\ s \in Int /\ m \in Nat /\ reward \in Int
      BY <1>6, <1>7, <1>9, <3>1, <3>3, <3>4
    <3>6. reward' = s + (m + k)
      BY <2>2, <3>1, <3>5
    <3> QED  BY <3>2, <3>4, <3>6
  <2>6. LedgerNow'.lost = LedgerNow.lost
    BY <1>7, <2>1
  <2>7. pc' # "idle" /\ InTx'
    BY <1>1, <1>4, <1>9
  <2> QED  BY <1>1, <1>2, <1>7, <2>2, <2>5, <2>6, <2>7, PassedTypes DEF LengthsInv
<1> QED  BY <1>8, <1>9

\* The positions behind: those in front of the transaction at hand, and it.
LEMMA BehindMoves ==
    ASSUME TypeInv, pc = "settle", FinishTx, UNCHANGED <<chain, height>>, NEW g, NEW j
    PROVE  Behind(g, j)' <=> Behind(g, j) \/ (g = height /\ j = tx_index)
<1>1. /\ height \in DOMAIN chain.blocks /\ chain \in Chains /\ height \in Nat /\ InTx
      /\ tx_index \in 1 .. Len(chain.blocks[height]) /\ Len(chain.blocks[height]) \in Nat
  BY TxConserves, TxFacts DEF TypeInv, TypeOK, InTx
<1>2. DOMAIN chain.blocks[height] = 1 .. Len(chain.blocks[height])
  BY <1>1, WalkPosition
<1>3. /\ tx_index' = tx_index + 1
      /\ pc' = IF tx_index < Len(chain.blocks[height]) THEN "inputs" ELSE "flush_id_inscription"
  BY DEF FinishTx, EnterTx
<1>4. DOMAIN chain.blocks \subseteq Nat
  <2>1. chain.blocks \in Seq(Block)
    BY <1>1, ChainFacts
  <2> QED  BY <2>1
<1>5. CASE tx_index < Len(chain.blocks[height])
  <2>1. InTx'
    BY <1>3, <1>5 DEF InTx
  <2> QED  BY <1>1, <1>2, <1>3, <1>4, <2>1 DEF Behind
<1>6. CASE tx_index = Len(chain.blocks[height])
  <2>1. ~InTx'
    BY <1>3, <1>6 DEF InTx
  <2> QED  BY <1>1, <1>2, <1>4, <1>6, <2>1 DEF Behind
<1> QED  BY <1>1, <1>5, <1>6

LEMMA SettleUnspent ==
    ASSUME TypeInv, UnspentInv, SettleFees \/ SettleCoinbase
    PROVE  UnspentInv'
<1>1. pc = "settle" /\ InTx /\ FinishTx /\ UNCHANGED <<chain, height>>
  BY DEF SettleFees, SettleCoinbase, InTx
<1>2. LedgerNow' = Passed /\ DOMAIN Passed.sats = (DOMAIN LedgerNow.sats \ Spent(Tx)) \cup Created(Tx)
  BY <1>1, LedgerMoves, PassedParts
<1>3. \A g, j : Behind(g, j)' <=> Behind(g, j) \/ (g = height /\ j = tx_index)
  BY <1>1, BehindMoves
<1> SUFFICES ASSUME NEW o,
                    \/ o \in chain.base
                    \/ \E g, j : Behind(g, j)' /\ o \in Created(TxInOrder(chain.blocks[g], j)),
                    \A g, j : Behind(g, j)' => o \notin Spent(TxInOrder(chain.blocks[g], j))
             PROVE  o \in DOMAIN LedgerNow'.sats
  BY <1>1 DEF UnspentInv
<1>4. Tx = TxInOrder(chain.blocks[height], tx_index)
  BY DEF Tx
<1>5. o \notin Spent(Tx)
  BY <1>3, <1>4
<1>6. CASE o \in Created(Tx)
  BY <1>2, <1>6
<1>7. CASE o \notin Created(Tx)
  <2>1. /\ o \in chain.base \/ \E g, j : Behind(g, j) /\ o \in Created(TxInOrder(chain.blocks[g], j))
        /\ \A g, j : Behind(g, j) => o \notin Spent(TxInOrder(chain.blocks[g], j))
    BY <1>3, <1>4, <1>7
  <2>2. o \in DOMAIN LedgerNow.sats
    BY <2>1 DEF UnspentInv
  <2> QED  BY <1>2, <1>5, <2>2
<1> QED  BY <1>6, <1>7

LEMMA SettleLedger ==
    ASSUME TypeInv, AmountsInv, LedgerInv, SpendsInOrder(chain), SettleFees \/ SettleCoinbase
    PROVE  LedgerInv'
<1>1. pc = "settle" /\ InTx /\ FinishTx /\ UNCHANGED <<chain, height, output_value>>
  BY DEF SettleFees, SettleCoinbase, storeVars, InTx
<1>2. Spent(Tx) \subseteq DOMAIN LedgerNow.sats
  BY <1>1, SpentThere DEF LedgerInv
<1>3. LengthsInv'
  BY <1>2, SettleLengths DEF LedgerInv
<1>4. UnspentInv'
  BY SettleUnspent DEF LedgerInv
<1>5. StoreInv'
  <2>1. LedgerNow' = Passed /\ pc' # "settle"
    BY <1>1, LedgerMoves DEF FinishTx
  <2> QED  BY <1>1, <2>1 DEF LedgerInv, StoreInv
<1> QED  BY <1>3, <1>4, <1>5 DEF LedgerInv

LEMMA WriteLedger ==
    ASSUME TypeInv, LedgerInv, WriteOutputValue
    PROVE  LedgerInv'
<1>1. /\ pc = "outputs" /\ pc' = "settle" /\ InTx /\ InTx' /\ output_value' = ValuesAfter(Tx)
      /\ UNCHANGED <<chain, height, tx_index, reward, lost_sats, status>>
  BY DEF WriteOutputValue, blockVars, txVars, InTx
<1>2. LedgerNow' = LedgerNow /\ Tx' = Tx /\ Passed' = Passed
  BY <1>1, LedgerStays
<1>3. LengthsInv'
  BY <1>1, <1>2 DEF LedgerInv, LengthsInv
<1>4. UnspentInv'
  BY <1>1, <1>2 DEF LedgerInv, UnspentInv, Behind
<1>5. StoreInv'
  <2>1. DOMAIN output_value' = (DOMAIN output_value \ Spent(Tx)) \cup Created(Tx)
    BY <1>1 DEF ValuesAfter, Write, Without
  <2>2. DOMAIN Passed.sats = (DOMAIN LedgerNow.sats \ Spent(Tx)) \cup Created(Tx)
    BY PassedParts
  <2> QED  BY <1>1, <1>2, <2>1, <2>2 DEF LedgerInv, StoreInv
<1> QED  BY <1>3, <1>4, <1>5 DEF LedgerInv

LEMMA BeginLedger ==
    ASSUME TypeInv, LedgerInv, BeginBlock(height + 1)
    PROVE  LedgerInv'
<1>1. /\ pc = "idle" /\ pc' = "inputs" /\ ~InTx /\ InTx' /\ height' = height + 1 /\ tx_index' = 1
      /\ reward' = Subsidy[height + 1] /\ lost_sats' = status.lost_sats
      /\ UNCHANGED <<chain, output_value>>
      /\ height + 1 \in DOMAIN chain.blocks /\ height \in Nat /\ chain \in Chains
  BY DEF BeginBlock, EnterTx, storeVars, InTx, Served, TypeInv, TypeOK
<1>2. LedgerNow' = LedgerNow
  BY LedgerBegins
<1>3. LengthsInv'
  <2>1. LedgerNow.fees = <<>> /\ Subsidy[height + 1] \in Nat
    BY <1>1, ChainFacts DEF LedgerInv, LengthsInv
  <2>2. reward' = Subsidy[height'] + Len(LedgerNow'.fees)
    BY <1>1, <1>2, <2>1
  <2> QED  BY <1>1, <1>2, <2>2 DEF LedgerInv, LengthsInv
<1>4. UnspentInv'
  <2>1. ASSUME NEW g, NEW j PROVE Behind(g, j)' <=> Behind(g, j)
    <3>1. chain.blocks \in Seq(Block)
      BY <1>1, ChainFacts
    <3>2. DOMAIN chain.blocks[height + 1] = 1 .. Len(chain.blocks[height + 1])
      BY <1>1, WalkPosition
    <3> QED  BY <1>1, <3>1, <3>2 DEF Behind
  <2> QED  BY <1>1, <1>2, <2>1 DEF LedgerInv, UnspentInv
<1>5. StoreInv'
  BY <1>1, <1>2 DEF LedgerInv, StoreInv
<1> QED  BY <1>3, <1>4, <1>5 DEF LedgerInv

\* Every other step leaves the ledger and the sums alone.
LEMMA KeepLedger ==
    ASSUME LedgerInv, UNCHANGED <<chain, height, output_value>>,
           InTx => UNCHANGED <<tx_index, reward>>, (InTx' <=> InTx), (pc = "settle" <=> pc' = "settle"),
           (IF pc = "idle" THEN status.lost_sats ELSE lost_sats)'
               = IF pc = "idle" THEN status.lost_sats ELSE lost_sats
    PROVE  LedgerInv'
<1>1. LedgerNow' = LedgerNow /\ (InTx => Tx' = Tx /\ Passed' = Passed)
  BY LedgerStays
<1>2. LengthsInv'
  BY <1>1 DEF LedgerInv, LengthsInv
<1>3. UnspentInv'
  BY <1>1 DEF LedgerInv, UnspentInv, Behind
<1>4. StoreInv'
  BY <1>1 DEF LedgerInv, StoreInv, InTx
<1> QED  BY <1>2, <1>3, <1>4 DEF LedgerInv

LEMMA LedgerNext ==
    ASSUME TypeInv, AmountsInv, LedgerInv, SpendsInOrder(chain), [Next]_vars, Working'
    PROVE  LedgerInv'
<1>1. CASE BeginBlock(height + 1)  BY <1>1, BeginLedger
<1>2. CASE SettleFees \/ SettleCoinbase  BY <1>2, SettleLedger
<1>3. CASE WriteOutputValue  BY <1>3, WriteLedger
<1>4. CASE ScanNullInput \/ ScanInput \/ SortFloating \/ PlaceOnOutput \/ NextOutput \/ LoseFloating
  <2>1. /\ InTx /\ InTx' /\ UNCHANGED <<chain, height, tx_index, output_value, reward, lost_sats, status>>
        /\ pc # "idle" /\ pc' # "idle" /\ (pc = "settle" <=> pc' = "settle")
    BY <1>4
    DEF ScanNullInput, ScanInput, SortFloating, PlaceOnOutput, NextOutput, LoseFloating,
        UpdateInscriptionState, storeVars, blockVars, txVars, InTx
  <2> QED  BY <2>1, KeepLedger
<1>5. CASE FlushIdInscription \/ FlushInscriptionOutput \/ FlushOutputInscription
  <2>1. /\ ~InTx /\ ~InTx' /\ UNCHANGED <<chain, height, output_value, lost_sats, status>>
        /\ pc # "idle" /\ pc' # "idle" /\ (pc = "settle" <=> pc' = "settle")
    BY <1>5
    DEF FlushIdInscription, FlushInscriptionOutput, FlushOutputInscription, blockVars, InTx
  <2> QED  BY <2>1, KeepLedger
<1>6. CASE FlushStatus
  <2>1. /\ ~InTx /\ ~InTx' /\ UNCHANGED <<chain, height, output_value>>
        /\ pc # "idle" /\ pc' = "idle" /\ (pc = "settle" <=> pc' = "settle")
        /\ status'.lost_sats = lost_sats
    BY <1>6 DEF FlushStatus, Counters, InTx
  <2> QED  BY <2>1, KeepLedger
<1>7. CASE Fail
  BY <1>7 DEF Fail, Working
<1>8. CASE UNCHANGED vars
  <2>1. UNCHANGED <<chain, height, output_value, tx_index, reward, pc, status, lost_sats>>
    BY <1>8 DEF vars, storeVars, blockVars, txVars
  <2>2. InTx' <=> InTx
    BY <2>1 DEF InTx
  <2> QED  BY <2>1, <2>2, KeepLedger
<1> QED  BY <1>1, <1>2, <1>3, <1>4, <1>5, <1>6, <1>7, <1>8 DEF Next, IndexStep

LEMMA LedgerInit == Init => LedgerInv
<1> SUFFICES ASSUME Init PROVE LedgerInv
  OBVIOUS
<1>1. /\ pc = "idle" /\ ~InTx /\ height = 0 /\ chain \in Chains /\ status.lost_sats = 0
      /\ output_value \in {EmptyDB, [o \in chain.base |-> chain.value[o]]}
  BY DEF Init, InTx
<1>2. LedgerNow = LedgerAtBase(chain) /\ chain.blocks \in Seq(Block)
  <2>1. chain.blocks \in Seq(Block)
    BY <1>1, ChainFacts
  <2>2. Len(chain.blocks) \in Nat
    BY <2>1
  <2> QED  BY <1>1, <2>1, <2>2, LedgerUnfold DEF LedgerNow
<1>3. /\ DOMAIN LedgerNow.sats = chain.base
      /\ \A o \in chain.base : LedgerNow.sats[o] = BaseSats(chain, o)
      /\ LedgerNow.fees = <<>> /\ LedgerNow.lost = <<>>
  BY <1>2 DEF LedgerAtBase
<1>4. LengthsInv
  <2>1. ASSUME NEW o \in chain.base
        PROVE  /\ o \in DOMAIN chain.value
               /\ BaseSats(chain, o) \in Seq(Sat) /\ Len(BaseSats(chain, o)) = chain.value[o]
    <3>1. o \in DOMAIN chain.value /\ o \in OutPoint /\ chain.value[o] \in Nat
      BY <1>1, ChainFacts
    <3> QED  BY <3>1 DEF BaseSats, Sat, OutPoint
  <2> QED  BY <1>1, <1>3, <2>1 DEF LengthsInv
<1>5. StoreInv
  BY <1>1, <1>3 DEF StoreInv, EmptyDB
<1>6. UnspentInv
  <2>1. \A g, j : ~Behind(g, j)
    BY <1>1, <1>2 DEF Behind
  <2> QED  BY <1>3, <2>1 DEF UnspentInv
<1> QED  BY <1>4, <1>5, <1>6 DEF LedgerInv

-----------------------------------------------------------------------------
\* What a transaction reveals, and the ledger inscribes.
InscribedInv == FloatsInv /\ RestInv /\ CoverInv

\* An envelope has the count of an input that inscribes only if it is the
\* first one of that input.
LEMMA IdsApart ==
    ASSUME NEW tx \in Transaction, NEW i \in DOMAIN tx.inputs, NEW j \in DOMAIN tx.inputs,
           NEW k \in 1 .. tx.inputs[i].envelopes, tx.inputs[j].envelopes > 0,
           IdIn(tx, j) = <<tx.txid, EnvelopeSums(tx)[i - 1] + k - 1>>
    PROVE  j = i /\ k = 1
<1>1. PICK n, sums : n = Len(tx.inputs) /\ sums = EnvelopeSums(tx)
  OBVIOUS
<1>2. /\ n \in Nat /\ DOMAIN tx.inputs = 1 .. n
      /\ \A m \in 1 .. n : /\ tx.inputs[m].envelopes \in Nat /\ sums[m - 1] \in Nat
                           /\ sums[m] = sums[m - 1] + tx.inputs[m].envelopes
      /\ \A l \in 0 .. n : \A m \in l .. n : sums[l] <= sums[m] /\ sums[l] \in Nat
  BY <1>1, EnvelopesCount
<1>3. sums[j - 1] = sums[i - 1] + k - 1
  BY <1>1 DEF IdIn
<1>4. i \in 1 .. n /\ j \in 1 .. n
  BY <1>2
<1>5. PICK a, b, c, d, e, f : /\ a = sums[i - 1] /\ b = sums[i] /\ c = sums[j - 1] /\ d = sums[j]
                              /\ e = tx.inputs[i].envelopes /\ f = tx.inputs[j].envelopes
  OBVIOUS
<1>6. /\ a \in Nat /\ c \in Nat /\ e \in Nat /\ f \in Nat /\ f > 0 /\ k \in 1 .. e
      /\ b = a + e /\ d = c + f /\ c = a + k - 1
  BY <1>2, <1>3, <1>4, <1>5
<1>7. CASE j < i
  <2>0. i \in Int /\ j \in Int /\ n \in Nat
    BY <1>2, <1>4
  <2>1. j \in 0 .. n /\ i - 1 \in j .. n
    BY <1>4, <1>7, <2>0
  <2>2. d <= a
    BY <1>2, <1>5, <2>1
  <2> QED  BY <1>6, <2>2
<1>8. CASE i < j
  <2>0. i \in Int /\ j \in Int /\ n \in Nat
    BY <1>2, <1>4
  <2>1. i \in 0 .. n /\ j - 1 \in i .. n
    BY <1>4, <1>8, <2>0
  <2>2. b <= c
    BY <1>2, <1>5, <2>1
  <2> QED  BY <1>6, <2>2
<1>9. CASE i = j
  <2>1. a = c
    BY <1>5, <1>9
  <2> QED  BY <1>6, <1>9, <2>1
<1> QED  BY <1>2, <1>4, <1>7, <1>8, <1>9

\* The sat the ledger inscribes with the first envelope of an input.
LEMMA InscribedFirst ==
    ASSUME TypeInv, InTx, NEW i \in Inscribing(LedgerNow, Tx), IdIn(Tx, i) \notin DOMAIN LedgerNow.inscribed
    PROVE  /\ IdIn(Tx, i) \in DOMAIN Passed.inscribed
           /\ Passed.inscribed[IdIn(Tx, i)] = SatsIn(LedgerNow, Tx, i)[1]
<1>1. Tx \in Transaction /\ \A j \in DOMAIN Tx.inputs : Tx.inputs[j] \in Input
  BY TxFacts DEF InTx
<1>2. IdIn(Tx, i) \in InscribedIds
  BY DEF InscribedIds
<1>3. \A j \in Inscribing(LedgerNow, Tx) : IdIn(Tx, j) = IdIn(Tx, i) => j = i
  <2> SUFFICES ASSUME NEW j \in Inscribing(LedgerNow, Tx), IdIn(Tx, j) = IdIn(Tx, i) PROVE j = i
    OBVIOUS
  <2>1. /\ i \in DOMAIN Tx.inputs /\ j \in DOMAIN Tx.inputs
        /\ Tx.inputs[i].envelopes > 0 /\ Tx.inputs[j].envelopes > 0 /\ Tx.inputs[i].envelopes \in Nat
    BY <1>1 DEF Inscribing, Input
  <2>2. /\ DOMAIN Tx.inputs = 1 .. Len(Tx.inputs)
        /\ \A m \in 1 .. Len(Tx.inputs) : EnvelopeSums(Tx)[m - 1] \in Nat
    BY <1>1, EnvelopesCount
  <2>3. 1 \in 1 .. Tx.inputs[i].envelopes
    BY <2>1
  <2>4. IdIn(Tx, j) = <<Tx.txid, EnvelopeSums(Tx)[i - 1] + 1 - 1>>
    <3>1. EnvelopeSums(Tx)[i - 1] \in Nat
      BY <2>1, <2>2
    <3>2. EnvelopeSums(Tx)[i - 1] + 1 - 1 = EnvelopeSums(Tx)[i - 1]
      BY <3>1
    <3> QED  BY <3>2 DEF IdIn
  <2> QED  BY <1>1, <2>1, <2>3, <2>4, IdsApart
<1>4. (CHOOSE j \in Inscribing(LedgerNow, Tx) : IdIn(Tx, j) = IdIn(Tx, i)) = i
  BY <1>3
<1>5. PICK id : id = IdIn(Tx, i)
  OBVIOUS
<1>6. Passed.inscribed[id] = SatsIn(LedgerNow, Tx, CHOOSE j \in Inscribing(LedgerNow, Tx) : IdIn(Tx, j) = id)[1]
  BY <1>2, <1>5, PassedParts
<1> QED  BY <1>2, <1>4, <1>5, <1>6, PassedParts

\* What was known before is inscribed where it was.
LEMMA InscribedBefore ==
    ASSUME AheadInv, pc = "inputs", NEW id \in KnownIds \ NewIds(floating)
    PROVE  /\ id \in DOMAIN Passed.inscribed <=> id \in DOMAIN LedgerNow.inscribed
           /\ id \in DOMAIN LedgerNow.inscribed => Passed.inscribed[id] = LedgerNow.inscribed[id]
<1>1. id[1] # Tx.txid
  BY DEF AheadInv
<1>2. \A i : IdIn(Tx, i)[1] = Tx.txid
  BY DEF IdIn
<1>3. id \notin InscribedIds
  BY <1>1, <1>2 DEF InscribedIds
<1> QED  BY <1>3, PassedParts

\* The coinbase inscribes nothing.
LEMMA CoinbaseInscribes ==
    ASSUME TypeInv, InTx, IsCoinbase(Tx)
    PROVE  /\ DOMAIN Passed.inscribed = DOMAIN LedgerNow.inscribed
           /\ \A id \in DOMAIN Passed.inscribed : Passed.inscribed[id] = LedgerNow.inscribed[id]
           /\ Inscribing(LedgerNow, Tx) = {}
<1>1. Len(Tx.inputs) = 1 /\ IsNull(Tx.inputs[1].prev) /\ DOMAIN Tx.inputs = 1 .. Len(Tx.inputs)
  BY TxConserves, TxFacts DEF InTx
<1>2. Inscribing(LedgerNow, Tx) = {}
  BY <1>1 DEF Inscribing, SatsIn
<1>3. InscribedIds = {}
  BY <1>2 DEF InscribedIds
<1> QED  BY <1>2, <1>3, PassedParts

-----------------------------------------------------------------------------
\* Lists of floating inscriptions on their sats.
LEMMA OnSatsConcat ==
    ASSUME NEW s \in Seq(Flotsam), NEW r \in Seq(Flotsam), NEW sats, NEW inscribed,
           AllOnSats(s, sats, inscribed), AllOnSats(r, sats, inscribed)
    PROVE  AllOnSats(s \o r, sats, inscribed)
<1>1. \A k \in DOMAIN (s \o r) :
         \/ k \in DOMAIN s /\ (s \o r)[k] = s[k]
         \/ k - Len(s) \in DOMAIN r /\ (s \o r)[k] = r[k - Len(s)]
  OBVIOUS
<1> QED  BY <1>1 DEF AllOnSats

LEMMA OnSatsSorted ==
    ASSUME NEW s \in Seq(Flotsam), NEW sorted \in StablySorted(s), NEW sats, NEW inscribed,
           AllOnSats(s, sats, inscribed)
    PROVE  AllOnSats(sorted, sats, inscribed)
<1>1. PICK order \in [DOMAIN s -> DOMAIN s] : sorted = [i \in DOMAIN s |-> s[order[i]]]
  BY DEF StablySorted
<1>2. \A i \in DOMAIN sorted : order[i] \in DOMAIN s /\ sorted[i] = s[order[i]]
  BY <1>1
<1> QED  BY <1>2 DEF AllOnSats

LEMMA OnSatsTail ==
    ASSUME NEW s \in Seq(Flotsam), s # <<>>, NEW sats, NEW inscribed, AllOnSats(s, sats, inscribed)
    PROVE  AllOnSats(Tail(s), sats, inscribed) /\ OnItsSatIn(Head(s), sats, inscribed)
<1>1. \A k \in DOMAIN Tail(s) : k + 1 \in DOMAIN s /\ Tail(s)[k] = s[k + 1]
  OBVIOUS
<1>2. 1 \in DOMAIN s /\ Head(s) = s[1]
  OBVIOUS
<1> QED  BY <1>1, <1>2 DEF AllOnSats

LEMMA OnSatsLonger ==
    ASSUME NEW s, NEW sats \in Seq(Sat), NEW more \in Seq(Sat), NEW inscribed,
           AllOnSats(s, sats, inscribed)
    PROVE  AllOnSats(s, sats \o more, inscribed)
<1>1. \A k \in DOMAIN sats : k \in DOMAIN (sats \o more) /\ (sats \o more)[k] = sats[k]
  OBVIOUS
<1> QED  BY <1>1 DEF AllOnSats, OnItsSatIn

LEMMA NoneOnSats == \A sats, inscribed : AllOnSats(<<>>, sats, inscribed)
BY DEF AllOnSats

-----------------------------------------------------------------------------
\* Reading an input.
ReadingInput ==
    /\ TypeInv /\ AmountsInv /\ PlacesInv /\ LedgerInv /\ InscribedInv
    /\ SpendsInOrder(chain)
    /\ pc = "inputs" /\ InputsLeft /\ ~IsNull(Tx.inputs[input_index].prev)

LEMMA InputAtHand ==
    ASSUME ReadingInput, NEW prev, prev = Tx.inputs[input_index].prev
    PROVE  /\ InTx /\ Tx \in Transaction /\ ~IsCoinbase(Tx) /\ input_index \in DOMAIN Tx.inputs
           /\ Spent(Tx) \subseteq DOMAIN LedgerNow.sats
           /\ DOMAIN Tx.inputs = 1 .. Len(Tx.inputs) /\ Len(Tx.inputs) \in Nat
           /\ Tx.inputs[input_index].envelopes \in Nat
           /\ id_counter = EnvelopeSums(Tx)[input_index - 1] /\ id_counter \in Nat
           /\ prev \in OutPoint /\ ~IsNull(prev) /\ prev \in DOMAIN LedgerNow.sats
           /\ SatsIn(LedgerNow, Tx, input_index) = LedgerNow.sats[prev]
           /\ LedgerNow.sats[prev] \in Seq(Sat) /\ Len(LedgerNow.sats[prev]) = OutputValue(prev)
           /\ ReadNow \in Seq(Sat) /\ Len(ReadNow) = input_value /\ input_value \in Nat
           /\ SatsRead(LedgerNow, Tx)[input_index] = ReadNow \o LedgerNow.sats[prev]
<1>1. /\ TypeInv /\ AmountsInv /\ LengthsInv /\ InTx /\ UnspentInv /\ SpendsInOrder(chain)
      /\ pc = "inputs" /\ InputsLeft /\ ~IsNull(prev) /\ Working
  BY DEF ReadingInput, LedgerInv, InTx, Working
<1>2. /\ input_index \in DOMAIN Tx.inputs /\ ~IsCoinbase(Tx) /\ Tx \in Transaction
      /\ DOMAIN Tx.inputs = 1 .. Len(Tx.inputs) /\ Len(Tx.inputs) \in Nat
      /\ Tx.inputs[input_index] \in Input
  BY <1>1, ReadsNull, TxFacts
<1>3. Spent(Tx) \subseteq DOMAIN LedgerNow.sats
  BY <1>1, SpentThere
<1>4. PICK read, i : read = SatsRead(LedgerNow, Tx) /\ i = input_index
  OBVIOUS
<1>5. /\ \A m \in 1 .. Len(Tx.inputs) :
            LET p == Tx.inputs[m].prev IN
            /\ p \in OutPoint /\ p \in DOMAIN LedgerNow.sats
            /\ SatsIn(LedgerNow, Tx, m) = LedgerNow.sats[p]
            /\ LedgerNow.sats[p] \in Seq(Sat) /\ Len(LedgerNow.sats[p]) = chain.value[p]
            /\ read[m] = read[m - 1] \o LedgerNow.sats[p]
      /\ \A m \in 0 .. Len(Tx.inputs) : read[m] \in Seq(Sat) /\ Len(read[m]) = SumsIn(chain, Tx)[m]
  BY <1>1, <1>2, <1>3, <1>4, ReadSats, Zenon
<1>6. i \in 1 .. Len(Tx.inputs) /\ i - 1 \in 0 .. Len(Tx.inputs)
  BY <1>2, <1>4
<1>7. ReadNow = read[i - 1] /\ input_value = SumsIn(chain, Tx)[i - 1] /\ input_value >= 0 /\ input_value \in Int
  BY <1>1, <1>2, <1>4 DEF ReadNow, AmountsInv, ReadInv, LostInv, TypeInv, TypeOK
<1>8. OutputValue(prev) = chain.value[prev]
  BY <1>1 DEF AmountsInv, ValuesInv, OutputValue
<1>9. id_counter = EnvelopeSums(Tx)[input_index - 1] /\ id_counter \in Nat
  BY <1>1, <1>2 DEF ReadingInput, InscribedInv, FloatsInv, TypeInv, TypeOK
<1>10. /\ prev \in OutPoint /\ prev \in DOMAIN LedgerNow.sats
       /\ SatsIn(LedgerNow, Tx, i) = LedgerNow.sats[prev]
       /\ LedgerNow.sats[prev] \in Seq(Sat) /\ Len(LedgerNow.sats[prev]) = chain.value[prev]
       /\ read[i] = read[i - 1] \o LedgerNow.sats[prev]
  BY <1>4, <1>5, <1>6
<1>11. Tx.inputs[input_index].envelopes \in Nat
  BY <1>2 DEF Input
<1>12. ReadNow \in Seq(Sat) /\ Len(ReadNow) = input_value /\ input_value \in Nat
  BY <1>5, <1>6, <1>7
<1> QED  BY <1>1, <1>2, <1>3, <1>4, <1>7, <1>8, <1>9, <1>10, <1>11, <1>12

\* What is revealed floats on the sat the ledger inscribes.
LEMMA RevealedOnSat ==
    ASSUME ReadingInput, NEW prev, prev = Tx.inputs[input_index].prev, NEW fs
    PROVE  AllOnSats(Revealed(fs, input_index, input_value + OutputValue(prev)),
                     SatsRead(LedgerNow, Tx)[input_index], Passed.inscribed)
<1>1. PICK read, sats, next, total, r :
         /\ read = ReadNow /\ sats = LedgerNow.sats[prev] /\ next = SatsRead(LedgerNow, Tx)[input_index]
         /\ total = input_value + OutputValue(prev) /\ r = Revealed(fs, input_index, total)
  OBVIOUS
<1>2. /\ InTx /\ Tx \in Transaction /\ ~IsCoinbase(Tx) /\ input_index \in DOMAIN Tx.inputs
      /\ DOMAIN Tx.inputs = 1 .. Len(Tx.inputs) /\ Len(Tx.inputs) \in Nat
      /\ Tx.inputs[input_index].envelopes \in Nat
      /\ id_counter = EnvelopeSums(Tx)[input_index - 1] /\ id_counter \in Nat
      /\ SatsIn(LedgerNow, Tx, input_index) = sats /\ sats \in Seq(Sat) /\ Len(sats) = OutputValue(prev)
      /\ read \in Seq(Sat) /\ Len(read) = input_value /\ input_value \in Nat /\ next = read \o sats
  BY <1>1, InputAtHand
<1>3. pc = "inputs" /\ TypeInv /\ AheadInv /\ CoverInv
  BY DEF ReadingInput, PlacesInv, NumbersInv, InscribedInv, Working
<1> SUFFICES ASSUME NEW k \in DOMAIN r, r[k].id \in DOMAIN Passed.inscribed
             PROVE  /\ r[k].kind = "new" => ~r[k].unbound
                    /\ r[k].offset + 1 \in DOMAIN next /\ next[r[k].offset + 1] = Passed.inscribed[r[k].id]
  BY <1>1 DEF AllOnSats, OnItsSatIn
<1>4. /\ k \in 1 .. Tx.inputs[input_index].envelopes
      /\ r[k].id = <<Tx.txid, id_counter + k - 1>> /\ r[k].offset = input_value
      /\ r[k].unbound = (total = 0 \/ k # 1)
  BY <1>1 DEF Revealed
<1>5. r[k].id \notin DOMAIN LedgerNow.inscribed
  <2>1. SUFFICES ASSUME r[k].id \in DOMAIN LedgerNow.inscribed PROVE FALSE
    OBVIOUS
  <2>2. r[k].id \in KnownIds
    <3>1. ListsInv
      BY <1>3 DEF ReadingInput, PlacesInv, Working
    <3> QED  BY <1>3, <2>1, <3>1 DEF CoverInv, Described, ListsInv, KnownIds
  <2>3. r[k].id[1] = Tx.txid /\ r[k].id[2] = id_counter + k - 1
    BY <1>4
  <2>4. r[k].id[2] < id_counter
    BY <1>3, <2>2, <2>3 DEF AheadInv
  <2> QED  BY <1>2, <1>4, <2>3, <2>4
<1>6. PICK j \in Inscribing(LedgerNow, Tx) : r[k].id = IdIn(Tx, j)
  BY <1>5, PassedParts DEF InscribedIds
<1>7. j = input_index /\ k = 1
  <2>1. j \in DOMAIN Tx.inputs /\ Tx.inputs[j].envelopes > 0
    BY DEF Inscribing
  <2>2. IdIn(Tx, j) = <<Tx.txid, EnvelopeSums(Tx)[input_index - 1] + k - 1>>
    BY <1>2, <1>4, <1>6
  <2> QED  BY <1>2, <1>4, <2>1, <2>2, IdsApart
<1>8. Passed.inscribed[r[k].id] = sats[1] /\ sats # <<>>
  <2>1. Passed.inscribed[IdIn(Tx, j)] = SatsIn(LedgerNow, Tx, j)[1]
    BY <1>2, <1>3, <1>5, <1>6, InscribedFirst
  <2>2. SatsIn(LedgerNow, Tx, j) # <<>>
    BY DEF Inscribing
  <2> QED  BY <1>2, <1>6, <1>7, <2>1, <2>2
<1>9. Len(sats) \in Nat /\ Len(sats) > 0
  BY <1>2, <1>8
<1>10. ~r[k].unbound
  <2>1. total # 0
    <3>1. total = input_value + Len(sats)
      BY <1>1, <1>2
    <3> QED  BY <1>2, <1>9, <3>1
  <2> QED  BY <1>4, <1>7, <2>1, Zenon
<1>11. input_value + 1 \in DOMAIN next /\ next[input_value + 1] = sats[1]
  BY <1>2, <1>9, Joining
<1> QED  BY <1>4, <1>8, <1>10, <1>11

\* The ids of what moves.
LEMMA OldIdsConcat ==
    ASSUME NEW s \in Seq(Flotsam), NEW r \in Seq(Flotsam)
    PROVE  /\ OldIds(s \o r) = OldIds(s) \cup OldIds(r)
           /\ NewIds(s \o r) = NewIds(s) \cup NewIds(r)
<1>1. PICK both, m : both = s \o r /\ m = Len(s)
  OBVIOUS
<1>2. \A k \in DOMAIN both :
         \/ k \in DOMAIN s /\ both[k] = s[k]
         \/ k - m \in DOMAIN r /\ both[k] = r[k - m]
  BY <1>1
<1>3. \A k \in DOMAIN s : k \in DOMAIN both /\ both[k] = s[k]
  BY <1>1
<1>4. \A k \in DOMAIN r : k + m \in DOMAIN both /\ both[k + m] = r[k]
  BY <1>1
<1>5. OldIds(both) = OldIds(s) \cup OldIds(r)
  BY <1>2, <1>3, <1>4 DEF OldIds, OldAt
<1>6. NewIds(both) = NewIds(s) \cup NewIds(r)
  BY <1>2, <1>3, <1>4 DEF NewIds, NewAt
<1> QED  BY <1>1, <1>5, <1>6

LEMMA OldIdsAre ==
    ASSUME NEW s, NEW id \in OldIds(s)
    PROVE  \E f \in Sources(s) : f[1] = id
<1>1. PICK k \in OldAt(s) : id = s[k].id
  BY DEF OldIds
<1>2. Source(s[k]) \in Sources(s)
  BY DEF Sources
<1>3. Source(s[k])[1] = s[k].id
  BY DEF Source
<1> QED  BY <1>1, <1>2, <1>3

\* What is at an output still to be spent does not move yet.
LEMMA AheadRests ==
    ASSUME ListsInv, MovingInv, NEW o, AheadOutput(o), NEW e \in At(o)
    PROVE  e[1] \notin MovingIds /\ e[1] \in DOMAIN Located
<1>1. o \in DOMAIN Held /\ e \in Items(Held[o]) /\ e[1] \in DOMAIN Located /\ Located[e[1]] = o
  BY AtHeld DEF ListsInv, Agree
<1>2. ASSUME e[1] \in MovingIds PROVE FALSE
  <2>1. PICK f \in Sources(floating) \cup Sources(flotsam) : f[1] = e[1]
    BY <1>2, OldIdsAre DEF MovingIds
  <2>2. f[2] \in DOMAIN Held /\ <<f[1], f[3]>> \in Items(Held[f[2]]) /\ ~AheadOutput(f[2])
    BY DEF MovingInv
  <2>3. Located[f[1]] = f[2]
    BY <2>2 DEF ListsInv, Agree
  <2> QED  BY <1>1, <2>1, <2>2, <2>3
<1> QED  BY <1>1, <1>2

\* What arrives with an input is still on its sat.
LEMMA ArrivingOnSat ==
    ASSUME ReadingInput, NEW prev, prev = Tx.inputs[input_index].prev
    PROVE  AllOnSats(Arriving(prev), SatsRead(LedgerNow, Tx)[input_index], Passed.inscribed)
<1>1. PICK read, sats, next, a :
         /\ read = ReadNow /\ sats = LedgerNow.sats[prev] /\ next = SatsRead(LedgerNow, Tx)[input_index]
         /\ a = Arriving(prev)
  OBVIOUS
<1>2. /\ InTx /\ input_index \in DOMAIN Tx.inputs /\ prev \in OutPoint /\ ~IsNull(prev)
      /\ sats \in Seq(Sat)
      /\ read \in Seq(Sat) /\ Len(read) = input_value /\ input_value \in Nat /\ next = read \o sats
      /\ prev \in DOMAIN LedgerNow.sats /\ DOMAIN Tx.inputs = 1 .. Len(Tx.inputs)
  BY <1>1, InputAtHand
<1>3. /\ pc = "inputs" /\ TypeInv /\ AheadInv /\ UniqueInv /\ RestInv /\ ListsInv /\ MovingInv
  BY DEF ReadingInput, PlacesInv, NumbersInv, InscribedInv, Working
<1>4. AheadOutput(prev)
  BY <1>2, <1>3 DEF AheadOutput
<1> SUFFICES ASSUME NEW k \in DOMAIN a, a[k].id \in DOMAIN Passed.inscribed
             PROVE  /\ a[k].kind # "new"
                    /\ a[k].offset + 1 \in DOMAIN next /\ next[a[k].offset + 1] = Passed.inscribed[a[k].id]
  BY <1>1 DEF AllOnSats, OnItsSatIn
<1>5. PICK e \in At(prev) : a[k].id = e[1] /\ a[k].kind = "old" /\ a[k].offset = input_value + e[2]
  <2>1. Entries(output_inscription_cache, prev) = ListAt(Held, prev)
    BY EntriesOf DEF Held
  <2> QED  BY <1>1, <2>1 DEF Arriving, At, Items
<1>6. e[1] \notin MovingIds /\ e[1] \in DOMAIN Located
  BY <1>3, <1>4, AheadRests
<1>7. /\ e[1] \in DOMAIN Passed.inscribed <=> e[1] \in DOMAIN LedgerNow.inscribed
      /\ e[1] \in DOMAIN LedgerNow.inscribed => Passed.inscribed[e[1]] = LedgerNow.inscribed[e[1]]
  <2>1. e[1] \in KnownIds \ NewIds(floating)
    BY <1>3, <1>6 DEF ListsInv, KnownIds, UniqueInv
  <2> QED  BY <1>3, <2>1, InscribedBefore
<1>8. e[2] + 1 \in DOMAIN sats /\ sats[e[2] + 1] = Passed.inscribed[e[1]]
  <2>1. RestsAt(prev, e)
    BY <1>3, <1>6 DEF RestInv
  <2> QED  BY <1>1, <1>2, <1>3, <1>5, <1>7, <2>1 DEF RestsAt, Described
<1>9. e[2] \in Int
  BY <1>3, EntryOffset
<1>10. (input_value + e[2]) + 1 \in DOMAIN next /\ next[(input_value + e[2]) + 1] = sats[e[2] + 1]
  <2>1. e[2] + 1 \in 1 .. Len(sats) /\ Len(sats) \in Nat
    BY <1>2, <1>8
  <2>2. PICK m \in Int, n \in Nat, x \in Int : m = e[2] + 1 /\ n = Len(sats) /\ x = e[2]
    BY <1>9, <2>1
  <2>3. /\ next \in Seq(Sat) /\ Len(next) = Len(read) + Len(sats)
        /\ \A j \in 1 .. Len(sats) : next[Len(read) + j] = sats[j]
    <3>1. /\ read \o sats \in Seq(Sat) /\ Len(read \o sats) = Len(read) + Len(sats)
          /\ \A j \in 1 .. Len(sats) : (read \o sats)[Len(read) + j] = sats[j]
      <4>1. read \in Seq(Sat) /\ sats \in Seq(Sat)
        BY <1>2
      <4> QED  BY <4>1, Joining
    <3>2. next = read \o sats
      BY <1>2
    <3> QED  BY <3>1, <3>2
  <2>4. next[input_value + m] = sats[m] /\ m \in 1 .. n /\ Len(next) = input_value + n
    BY <1>2, <2>1, <2>2, <2>3
  <2>5. (input_value + x) + 1 = input_value + m
    BY <1>2, <2>2
  <2>6. input_value + m \in DOMAIN next
    <3>1. input_value + m \in 1 .. input_value + n
      BY <1>2, <2>4
    <3>2. DOMAIN next = 1 .. Len(next)
      BY <2>3
    <3> QED  BY <2>4, <3>1, <3>2
  <2> QED  BY <2>2, <2>4, <2>5, <2>6
<1> QED  BY <1>5, <1>8, <1>10

-----------------------------------------------------------------------------
\* What the steps of the updater assume.
Tracking ==
    /\ BlessedInv /\ SpendsInOrder(chain) /\ Working
    /\ LedgerInv /\ InscribedInv
Inscribed == Described.inscribed

LEMMA TrackingHas ==
    ASSUME Tracking
    PROVE  /\ TypeInv /\ AmountsInv /\ FloatingInv /\ PlacesInv /\ OffsetsInv
           /\ NumbersInv /\ UniqueInv /\ AheadInv /\ FlushInv
           /\ ListsInv /\ MovingInv /\ StoredInv /\ SatsInv /\ EntriesInv /\ FreshInv
           /\ LengthsInv /\ StoreInv /\ UnspentInv /\ FloatsInv /\ RestInv /\ CoverInv
           /\ SpendsInOrder(chain) /\ Working
           /\ floating \in Seq(Flotsam) /\ flotsam \in Seq(Flotsam)
BY DEF Tracking, BlessedInv, PlacesInv, NumbersInv, SharedInv, LedgerInv, InscribedInv, TypeInv, TypeOK

\* What rests goes on resting while no list gets longer and nothing stops moving.
LEMMA KeepRests ==
    ASSUME RestInv, \A o : At(o)' \subseteq At(o), MovingIds \subseteq MovingIds',
           Described' = Described, UnboundSoFar' = UnboundSoFar,
           \A o : ReadOutput(o)' => IsNull(o) \/ ReadOutput(o) \/ \A e \in At(o) : e[1] \in MovingIds'
    PROVE  RestInv'
<1> SUFFICES ASSUME NEW o, NEW e \in At(o)', e[1] \notin MovingIds' PROVE RestsAt(o, e)'
  BY DEF RestInv
<1>1. e \in At(o) /\ e[1] \notin MovingIds
  OBVIOUS
<1>2. RestsAt(o, e)
  BY <1>1 DEF RestInv
<1>3. ReadOutput(o)' => IsNull(o) \/ ReadOutput(o)
  BY <1>1
<1> HIDE DEF ReadOutput
<1> QED  BY <1>2, <1>3 DEF RestsAt

\* The steps that leave what floats alone.
LEMMA KeepInscribed ==
    ASSUME InscribedInv, \A o : At(o)' \subseteq At(o),
           UNCHANGED <<chain, height, floating, flotsam>>, InTx => UNCHANGED tx_index,
           (InTx' <=> InTx), (pc' = "inputs" <=> pc = "inputs"),
           pc = "inputs" => UNCHANGED <<input_index, id_counter>>,
           UnboundSoFar' = UnboundSoFar, DOMAIN Located \subseteq DOMAIN Located'
    PROVE  InscribedInv'
<1>1. LedgerNow' = LedgerNow /\ (InTx => Tx' = Tx /\ AllSats' = AllSats /\ Passed' = Passed)
  BY LedgerStays
<1>2. pc' \in {"outputs", "settle"} <=> pc \in {"outputs", "settle"}
  BY DEF InTx
<1>3. Described' = Described
  BY <1>1, <1>2 DEF Described, InTx
<1>4. InTx => ReadNow' = ReadNow
  BY <1>1 DEF ReadNow, InTx
<1>5. FloatsInv'
  BY <1>1, <1>2, <1>3, <1>4 DEF InscribedInv, FloatsInv, InTx, AllOnSats, OnItsSatIn
<1>6. \A o : ReadOutput(o)' <=> ReadOutput(o)
  BY <1>1 DEF ReadOutput, InTx
<1>7. RestInv'
  <2>1. MovingIds' = MovingIds
    BY DEF MovingIds, OldIds, OldAt
  <2> QED  BY <1>3, <1>6, <2>1, KeepRests DEF InscribedInv
<1>8. CoverInv'
  <2>1. NewIds(floating)' = NewIds(floating) /\ NewIds(flotsam)' = NewIds(flotsam)
    BY DEF NewIds, NewAt
  <2>2. DOMAIN Described'.inscribed \subseteq DOMAIN Located' \cup NewIds(floating)' \cup NewIds(flotsam)'
    BY <1>3, <2>1 DEF InscribedInv, CoverInv
  <2>3. pc' = "inputs" =>
           \A i \in Inscribing(LedgerNow', Tx') : i < input_index' => IdIn(Tx', i) \in NewIds(floating)'
    BY <1>1, <2>1 DEF InscribedInv, CoverInv, InTx
  <2> QED  BY <2>2, <2>3 DEF CoverInv
<1> QED  BY <1>5, <1>7, <1>8 DEF InscribedInv

LEMMA ScanInscribed == Tracking /\ ScanInput => InscribedInv'
<1> SUFFICES ASSUME Tracking, ScanInput PROVE InscribedInv'
  OBVIOUS
<1>1. PICK prev, arriving, arrived, total, revealed :
         /\ prev = Tx.inputs[input_index].prev /\ arriving = Arriving(prev)
         /\ arrived = floating \o arriving /\ total = input_value + OutputValue(prev)
         /\ revealed = Revealed(arrived, input_index, total)
  OBVIOUS
<1>2. /\ pc = "inputs" /\ pc' = "inputs" /\ InputsLeft /\ ~IsNull(prev) /\ InTx /\ InTx'
      /\ floating' = arrived \o revealed /\ input_index' = input_index + 1
      /\ id_counter' = id_counter + Tx.inputs[input_index].envelopes
      /\ UNCHANGED <<chain, height, tx_index, flotsam, status, unbound_inscriptions,
                     inscription_output, inscription_output_wb>>
  BY <1>1 DEF ScanInput, storeVars, blockVars, counterVars, InTx
<1>3. ReadingInput
  BY <1>1, <1>2, TrackingHas DEF ReadingInput, Tracking
<1>4. /\ ~IsCoinbase(Tx) /\ input_index \in DOMAIN Tx.inputs /\ prev \in OutPoint
      /\ DOMAIN Tx.inputs = 1 .. Len(Tx.inputs) /\ Len(Tx.inputs) \in Nat /\ Tx \in Transaction
      /\ Tx.inputs[input_index].envelopes \in Nat /\ input_index \in Nat
      /\ id_counter = EnvelopeSums(Tx)[input_index - 1] /\ id_counter \in Nat
      /\ LedgerNow.sats[prev] \in Seq(Sat) /\ ReadNow \in Seq(Sat)
      /\ SatsRead(LedgerNow, Tx)[input_index] = ReadNow \o LedgerNow.sats[prev]
  <2>1. TypeInv
    BY TrackingHas
  <2>2. input_index \in Nat
    BY <2>1 DEF TypeInv, TypeOK
  <2> QED  BY <1>1, <1>3, <2>2, InputAtHand
<1>5. /\ LedgerNow' = LedgerNow /\ Tx' = Tx /\ Passed' = Passed /\ Described' = Described
      /\ Described = LedgerNow
  BY <1>2, LedgerStays DEF Described
<1>6. ReadNow' = SatsRead(LedgerNow, Tx)[input_index]
  <2>1. input_index' - 1 = input_index
    BY <1>2, <1>4
  <2> QED  BY <1>2, <1>4, <1>5, <2>1 DEF ReadNow
<1>7. /\ floating \in Seq(Flotsam) /\ arriving \in Seq(Flotsam) /\ revealed \in Seq(Flotsam)
      /\ arrived \in Seq(Flotsam)
  <2>1. TypeInv /\ floating \in Seq(Flotsam)
    BY TrackingHas
  <2>2. arriving \in Seq(Flotsam)
    BY <1>1, <1>4, <2>1, ArrivingType
  <2>3. revealed \in Seq(Flotsam)
    BY <1>1, <1>2, <1>4, <2>1, RevealedType
  <2>4. arrived \in Seq(Flotsam)
    BY <1>1, <2>1, <2>2
  <2> QED  BY <2>1, <2>2, <2>3, <2>4
<1>8. AllOnSats(floating', ReadNow', Passed.inscribed)
  <2>1. PICK next, inscribed : next = SatsRead(LedgerNow, Tx)[input_index] /\ inscribed = Passed.inscribed
    OBVIOUS
  <2>2. AllOnSats(floating, next, inscribed)
    <3>1. AllOnSats(floating, ReadNow, inscribed)
      BY <1>2, <2>1, TrackingHas DEF FloatsInv
    <3> QED  BY <1>4, <2>1, <3>1, OnSatsLonger
  <2>3. AllOnSats(arriving, next, inscribed)
    BY <1>1, <1>3, <2>1, ArrivingOnSat
  <2>4. AllOnSats(revealed, next, inscribed)
    BY <1>1, <1>3, <2>1, RevealedOnSat
  <2>5. AllOnSats(arrived, next, inscribed)
    BY <1>1, <1>7, <2>2, <2>3, OnSatsConcat
  <2>6. AllOnSats(arrived \o revealed, next, inscribed)
    BY <1>7, <2>4, <2>5, OnSatsConcat
  <2> QED  BY <1>2, <1>6, <2>1, <2>6
<1>9. FloatsInv'
  <2>1. AllOnSats(flotsam', SubsidySats(height') \o LedgerNow'.fees, Described'.inscribed)
    BY <1>2, <1>5, TrackingHas DEF FloatsInv
  <2>2. id_counter' = EnvelopeSums(Tx')[input_index' - 1]
    <3>1. PICK i, sums : i = input_index /\ sums = EnvelopeSums(Tx)
      OBVIOUS
    <3>2. sums[i] = sums[i - 1] + Tx.inputs[i].envelopes
      BY <1>4, <3>1, EnvelopesCount
    <3>3. input_index' - 1 = i
      BY <1>2, <1>4, <3>1
    <3> QED  BY <1>2, <1>4, <1>5, <3>1, <3>2, <3>3
  <2>3. AllOnSats(floating, ReadNow, Passed.inscribed)'
    BY <1>5, <1>8
  <2>4. AllOnSats(flotsam, SubsidySats(height) \o LedgerNow.fees, Described.inscribed)'
    BY <2>1
  <2> QED  BY <1>2, <2>2, <2>3, <2>4 DEF FloatsInv
<1>10. /\ OldIds(floating') = OldIds(floating) \cup OldIds(arriving) \cup OldIds(revealed)
       /\ NewIds(floating') = NewIds(floating) \cup NewIds(arriving) \cup NewIds(revealed)
  <2>1. /\ OldIds(arrived) = OldIds(floating) \cup OldIds(arriving)
        /\ NewIds(arrived) = NewIds(floating) \cup NewIds(arriving)
    BY <1>1, <1>7, OldIdsConcat
  <2>2. /\ OldIds(arrived \o revealed) = OldIds(arrived) \cup OldIds(revealed)
        /\ NewIds(arrived \o revealed) = NewIds(arrived) \cup NewIds(revealed)
    BY <1>7, OldIdsConcat
  <2> QED  BY <1>2, <2>1, <2>2
<1>11. RestInv'
  <2>1. \A o : At(o)' = At(o)
    BY ScanHeld DEF At
  <2>2. MovingIds \subseteq MovingIds'
    BY <1>2, <1>10 DEF MovingIds
  <2>3. ASSUME NEW o, ReadOutput(o)' PROVE ReadOutput(o) \/ \A e \in At(o) : e[1] \in MovingIds'
    <3>1. PICK i \in DOMAIN Tx.inputs : i < input_index + 1 /\ Tx.inputs[i].prev = o
      BY <1>2, <1>5, <2>3 DEF ReadOutput
    <3>2. CASE i < input_index
      BY <1>2, <3>1, <3>2 DEF ReadOutput
    <3>3. CASE i = input_index
      <4>1. o = prev
        BY <1>1, <3>1, <3>3
      <4>2. Entries(output_inscription_cache, prev) = ListAt(Held, prev)
        BY EntriesOf DEF Held
      <4>3. \A e \in At(prev) : e[1] \in OldIds(arriving)
        BY <1>1, <4>2 DEF At, Items, Arriving, OldIds, OldAt
      <4> QED  BY <1>10, <4>1, <4>3 DEF MovingIds
    <3> QED  BY <1>4, <3>1, <3>2, <3>3
  <2>4. UnboundSoFar' = UnboundSoFar
    BY <1>2 DEF UnboundSoFar
  <2> QED  BY <1>5, <2>1, <2>2, <2>3, <2>4, TrackingHas, KeepRests
<1>12. CoverInv'
  <2>1. Located' = Located
    BY <1>2 DEF Located
  <2>2. DOMAIN Described'.inscribed \subseteq DOMAIN Located' \cup NewIds(floating') \cup NewIds(flotsam')
    BY <1>2, <1>5, <1>10, <2>1, TrackingHas DEF CoverInv
  <2>3. ASSUME NEW i \in Inscribing(LedgerNow, Tx), i < input_index + 1
        PROVE  IdIn(Tx, i) \in NewIds(floating')
    <3>1. CASE i < input_index
      BY <1>2, <1>10, <3>1, TrackingHas DEF CoverInv
    <3>2. CASE i = input_index
      <4>1. Tx.inputs[input_index].envelopes > 0
        BY <3>2 DEF Inscribing
      <4>0. 1 \in 1 .. Tx.inputs[input_index].envelopes
        BY <1>4, <4>1
      <4>2. 1 \in DOMAIN revealed /\ revealed[1].kind = "new"
            /\ revealed[1].id = <<Tx.txid, id_counter + 1 - 1>>
        BY <1>1, <4>0 DEF Revealed
      <4>3. id_counter + 1 - 1 = EnvelopeSums(Tx)[i - 1]
        BY <1>4, <3>2
      <4>4. revealed[1].id = IdIn(Tx, i)
        BY <4>2, <4>3 DEF IdIn
      <4>5. IdIn(Tx, i) \in NewIds(revealed)
        BY <4>2, <4>4 DEF NewIds, NewAt
      <4> QED  BY <1>10, <4>5
    <3>3. i \in Nat
      BY <1>4 DEF Inscribing
    <3> QED  BY <1>4, <2>3, <3>1, <3>2, <3>3
  <2> QED  BY <1>2, <1>5, <2>2, <2>3 DEF CoverInv
<1> QED  BY <1>9, <1>11, <1>12 DEF InscribedInv

LEMMA ScanNullInscribed == Tracking /\ ScanNullInput => InscribedInv'
<1> SUFFICES ASSUME Tracking, ScanNullInput PROVE InscribedInv'
  OBVIOUS
<1>1. /\ pc = "inputs" /\ pc' = "inputs" /\ InTx /\ InTx' /\ InputsLeft
      /\ IsNull(Tx.inputs[input_index].prev)
      /\ input_index' = input_index + 1
      /\ UNCHANGED <<chain, height, tx_index, floating, flotsam, status, unbound_inscriptions,
                     output_inscription, output_inscription_cache,
                     inscription_output, inscription_output_wb>>
  BY DEF ScanNullInput, storeVars, blockVars, counterVars, batchVars, InTx
<1>2. /\ IsCoinbase(Tx) /\ TypeInv /\ Len(Tx.inputs) = 1 /\ DOMAIN Tx.inputs = 1 .. 1
      /\ IsNull(Tx.inputs[1].prev)
  <2>1. IsCoinbase(Tx) /\ TypeInv
    BY <1>1, TrackingHas, ReadsNull
  <2> QED  BY <1>1, <2>1, TxConserves, TxFacts
<1>3. /\ LedgerNow' = LedgerNow /\ Tx' = Tx /\ Passed' = Passed /\ Described' = Described
      /\ ReadNow' = ReadNow
  BY <1>1, <1>2, LedgerStays DEF Described, ReadNow
<1>4. FloatsInv'
  BY <1>1, <1>2, <1>3, TrackingHas DEF FloatsInv, AllOnSats, OnItsSatIn
<1>5. RestInv'
  <2>1. MovingIds' = MovingIds /\ UnboundSoFar' = UnboundSoFar /\ \A o : At(o)' = At(o)
    BY <1>1 DEF MovingIds, OldIds, OldAt, UnboundSoFar, At, Held
  <2>2. \A o : ReadOutput(o)' => IsNull(o)
    <3>1. \A i \in DOMAIN Tx.inputs : IsNull(Tx.inputs[i].prev)
      BY <1>2
    <3> QED  BY <1>3, <3>1 DEF ReadOutput
  <2> QED  BY <1>3, <2>1, <2>2, TrackingHas, KeepRests
<1>6. CoverInv'
  <2>1. Inscribing(LedgerNow, Tx) = {}
    BY <1>1, <1>2, CoinbaseInscribes
  <2>2. NewIds(floating)' = NewIds(floating) /\ NewIds(flotsam)' = NewIds(flotsam) /\ Located' = Located
    BY <1>1 DEF NewIds, NewAt, Located
  <2> QED  BY <1>3, <2>1, <2>2, TrackingHas DEF CoverInv
<1> QED  BY <1>4, <1>5, <1>6 DEF InscribedInv

\* The outputs passed over and the writes of a block.
LEMMA WalkInscribed ==
    ASSUME Tracking,
           \/ NextOutput \/ WriteOutputValue
           \/ FlushIdInscription \/ FlushInscriptionOutput \/ FlushOutputInscription
    PROVE  InscribedInv'
<1>1. /\ UNCHANGED <<chain, height, tx_index, floating, flotsam, unbound_inscriptions, status>>
      /\ pc # "inputs" /\ pc' # "inputs" /\ pc # "idle" /\ pc' # "idle" /\ (InTx' <=> InTx)
  BY DEF NextOutput, WriteOutputValue, FlushIdInscription, FlushInscriptionOutput,
         FlushOutputInscription, storeVars, counterVars, blockVars, txVars, InTx
<1>2. Held' = Held
  <2>1. CASE FlushOutputInscription
    BY <2>1, FlushHeld
  <2>2. CASE ~FlushOutputInscription
    <3>1. UNCHANGED <<output_inscription, output_inscription_cache>>
      BY <2>2 DEF NextOutput, WriteOutputValue, FlushIdInscription, FlushInscriptionOutput,
                  storeVars, batchVars
    <3> QED  BY <3>1 DEF Held
  <2> QED  BY <2>1, <2>2
<1>3. DOMAIN Located \subseteq DOMAIN Located'
  <2>1. CASE FlushInscriptionOutput
    BY <2>1 DEF FlushInscriptionOutput, Located, Write, batchVars
  <2>2. CASE ~FlushInscriptionOutput
    <3>1. UNCHANGED <<inscription_output, inscription_output_wb>>
      BY <2>2 DEF NextOutput, WriteOutputValue, FlushIdInscription, FlushOutputInscription,
                  storeVars, batchVars
    <3> QED  BY <3>1 DEF Located
  <2> QED  BY <2>1, <2>2
<1>4. UnboundSoFar' = UnboundSoFar
  BY <1>1 DEF UnboundSoFar
<1>5. \A o : At(o)' \subseteq At(o)
  BY <1>2 DEF At
<1> QED  BY <1>1, <1>3, <1>4, <1>5, KeepInscribed DEF Tracking

\* What the last write of a block leaves, and the first step of one.
LEMMA DropAt ==
    ASSUME PlacesInv, Working, pc \in {"flush_status", "idle"}, BeginBlock(height + 1) \/ FlushStatus
    PROVE  (\A o : At(o)' \subseteq At(o)) /\ Located' = Located
<1>1. /\ output_inscription_cache' = EmptyDB /\ inscription_output_wb' = EmptyDB
      /\ id_inscription_wb' = EmptyDB /\ floating' = <<>> /\ flotsam' = <<>>
      /\ UNCHANGED <<id_inscription, output_inscription, inscription_output, reported>>
  BY DEF BeginBlock, EnterTx, FlushStatus, DropUpdater, storeVars
<1>2. NumberedIds' = NumberedIds
  BY <1>1, DropsNumbered DEF PlacesInv
<1>3. Located' = Located
  BY <1>1, <1>2, DropPlaces
<1>4. \A o \in DOMAIN Held' : o \in DOMAIN Held /\ Held'[o] = Held[o]
  BY <1>1, DropHeld DEF PlacesInv
<1>5. \A o : At(o)' \subseteq At(o)
  <2> SUFFICES ASSUME NEW o, NEW e \in At(o)' PROVE e \in At(o)
    OBVIOUS
  <2>1. o \in DOMAIN Held' /\ e \in Items(Held'[o])
    BY DEF At, ListAt, Items
  <2> QED  BY <1>4, <2>1 DEF At, ListAt
<1> QED  BY <1>3, <1>5

LEMMA FlushStatusInscribed == Tracking /\ FlushStatus => InscribedInv'
<1> SUFFICES ASSUME Tracking, FlushStatus PROVE InscribedInv'
  OBVIOUS
<1>1. /\ pc = "flush_status" /\ pc' = "idle" /\ ~InTx /\ ~InTx'
      /\ status'.unbound_inscriptions = unbound_inscriptions
      /\ floating' = <<>> /\ flotsam' = <<>> /\ UNCHANGED <<chain, height>>
  BY DEF FlushStatus, Counters, DropUpdater, InTx
<1>2. floating = <<>> /\ flotsam = <<>>
  BY <1>1, TrackingHas DEF FloatsInv
<1>3. UnboundSoFar' = UnboundSoFar
  BY <1>1 DEF UnboundSoFar
<1>4. (\A o : At(o)' \subseteq At(o)) /\ Located' = Located
  BY <1>1, TrackingHas, DropAt
<1> QED  BY <1>1, <1>2, <1>3, <1>4, KeepInscribed DEF Tracking

\* A transaction is entered, or the block is done: the ledger has moved on.
LEMMA EnteredCount ==
    ASSUME NEW c \in Chains, NEW h \in DOMAIN c.blocks, NEW i \in 1 .. Len(c.blocks[h])
    PROVE  EnvelopeSums(TxInOrder(c.blocks[h], i))[0] = 0
<1>1. PICK tx \in Transaction : tx = TxInOrder(c.blocks[h], i)
  BY TxInOrderType
<1> QED  BY <1>1, EnvelopesCount

LEMMA EnterInscribed ==
    ASSUME Tracking, pc # "inputs", LedgerNow' = Described, Located' = Located,
           \A o : At(o)' \subseteq At(o), UnboundSoFar' = UnboundSoFar,
           floating' = <<>>, pc' \in {"inputs", "flush_id_inscription"},
           pc' = "inputs" =>
              /\ input_index' = 1 /\ id_counter' = 0
              /\ chain' \in Chains /\ height' \in DOMAIN chain'.blocks
              /\ tx_index' \in 1 .. Len(chain'.blocks[height'])
              /\ AllOnSats(flotsam', SubsidySats(height') \o LedgerNow'.fees, Inscribed),
           pc' # "inputs" => flotsam' = <<>>,
           OldIds(floating) \cup OldIds(flotsam) \subseteq OldIds(flotsam'),
           NewIds(floating) \cup NewIds(flotsam) \subseteq NewIds(flotsam')
    PROVE  InscribedInv'
<1>1. Described' = Described /\ (InTx' <=> pc' = "inputs")
  BY DEF Described, InTx
<1>2. FloatsInv'
  <2>1. pc' = "inputs" => EnvelopeSums(Tx')[input_index' - 1] = 0
    <3>1. SUFFICES ASSUME pc' = "inputs" PROVE EnvelopeSums(Tx')[input_index' - 1] = 0
      OBVIOUS
    <3>2. PICK c, h, i :
             /\ c \in Chains /\ h \in DOMAIN c.blocks /\ i \in 1 .. Len(c.blocks[h])
             /\ c = chain' /\ h = height' /\ i = tx_index'
      BY <3>1
    <3>3. Tx' = TxInOrder(c.blocks[h], i)
      BY <3>2 DEF Tx
    <3>4. input_index' - 1 = 0
      BY <3>1
    <3> QED  BY <3>2, <3>3, <3>4, EnteredCount
  <2>2. AllOnSats(floating', ReadNow', Passed'.inscribed)
    BY NoneOnSats
  <2>3. pc' = "inputs" => AllOnSats(flotsam', SubsidySats(height') \o LedgerNow'.fees, Described'.inscribed)
    BY <1>1 DEF Inscribed
  <2> QED  BY <1>1, <2>1, <2>2, <2>3 DEF FloatsInv
<1>3. RestInv'
  <2>1. MovingIds \subseteq MovingIds'
    BY DEF MovingIds
  <2>2. \A o : ~ReadOutput(o)'
    <3>1. pc' = "inputs" => \A i \in DOMAIN Tx'.inputs : ~(i < input_index')
      <4>1. SUFFICES ASSUME pc' = "inputs", NEW i \in DOMAIN Tx'.inputs PROVE ~(i < 1)
        OBVIOUS
      <4>2. PICK c, h, j :
               /\ c \in Chains /\ h \in DOMAIN c.blocks /\ j \in 1 .. Len(c.blocks[h])
               /\ c = chain' /\ h = height' /\ j = tx_index'
        BY <4>1
      <4>3. PICK tx \in Transaction : tx = Tx'
        BY <4>2, TxInOrderType DEF Tx
      <4>4. DOMAIN tx.inputs = 1 .. Len(tx.inputs) /\ Len(tx.inputs) \in Nat
        BY EnvelopesCount
      <4> QED  BY <4>1, <4>3, <4>4
    <3> QED  BY <3>1 DEF ReadOutput
  <2> QED  BY <1>1, <2>1, <2>2, TrackingHas, KeepRests
<1>4. CoverInv'
  <2>1. DOMAIN Described'.inscribed \subseteq DOMAIN Located' \cup NewIds(floating') \cup NewIds(flotsam')
    BY <1>1, TrackingHas DEF CoverInv
  <2>2. pc' = "inputs" =>
           \A i \in Inscribing(LedgerNow', Tx') : i < input_index' => IdIn(Tx', i) \in NewIds(floating')
    <3>1. SUFFICES ASSUME pc' = "inputs", NEW i \in DOMAIN Tx'.inputs PROVE ~(i < 1)
      BY DEF Inscribing
    <3>2. PICK c, h, j :
             /\ c \in Chains /\ h \in DOMAIN c.blocks /\ j \in 1 .. Len(c.blocks[h])
             /\ c = chain' /\ h = height' /\ j = tx_index'
      BY <3>1
    <3>3. PICK tx \in Transaction : tx = Tx'
      BY <3>2, TxInOrderType DEF Tx
    <3>4. DOMAIN tx.inputs = 1 .. Len(tx.inputs) /\ Len(tx.inputs) \in Nat
      BY EnvelopesCount
    <3> QED  BY <3>1, <3>3, <3>4
  <2> QED  BY <2>1, <2>2 DEF CoverInv
<1> QED  BY <1>2, <1>3, <1>4 DEF InscribedInv

LEMMA BeginInscribed == Tracking /\ BeginBlock(height + 1) => InscribedInv'
<1> SUFFICES ASSUME Tracking, BeginBlock(height + 1) PROVE InscribedInv'
  OBVIOUS
<1>1. /\ pc = "idle" /\ pc' = "inputs" /\ ~InTx /\ chain' = chain
      /\ unbound_inscriptions' = status.unbound_inscriptions
      /\ floating' = <<>> /\ flotsam' = <<>> /\ input_index' = 1 /\ id_counter' = 0
      /\ height' = height + 1 /\ tx_index' = 1 /\ height + 1 \in DOMAIN chain.blocks
  BY DEF BeginBlock, EnterTx, InTx, Served
<1>2. floating = <<>> /\ flotsam = <<>>
  BY <1>1, TrackingHas DEF FloatsInv
<1>3. (\A o : At(o)' \subseteq At(o)) /\ Located' = Located
  BY <1>1, TrackingHas, DropAt
<1>4. LedgerNow' = Described
  BY <1>1, TrackingHas, LedgerBegins DEF Described
<1>5. UnboundSoFar' = UnboundSoFar
  BY <1>1 DEF UnboundSoFar
<1>6. chain' \in Chains /\ height' \in DOMAIN chain'.blocks /\ tx_index' \in 1 .. Len(chain'.blocks[height'])
  <2>1. chain \in Chains
    BY TrackingHas DEF TypeInv
  <2>2. Len(chain.blocks[height + 1]) \in Nat \ {0}
    <3>1. chain.blocks[height + 1] \in Block
      BY <1>1, <2>1, ChainFacts
    <3> QED  BY <3>1 DEF Block
  <2> QED  BY <1>1, <2>1, <2>2
<1>7. AllOnSats(flotsam', SubsidySats(height') \o LedgerNow'.fees, Inscribed)
  BY <1>1, NoneOnSats
<1> QED  BY <1>1, <1>2, <1>3, <1>4, <1>5, <1>6, <1>7, EnterInscribed

\* What falls into the fees is on its sat there.
LEMMA FeesOnSat ==
    ASSUME NEW f \in Flotsam, NEW before \in Seq(Sat), NEW inscribed, OnItsSatIn(f, AllSats, inscribed),
           TypeInv, AmountsInv, LengthsInv, InTx, Spent(Tx) \subseteq DOMAIN LedgerNow.sats,
           f.offset >= placed_value, placed_value = ValueOut(Tx), Len(before) = reward
    PROVE  OnItsSatIn(InFees(f), before \o Rest, inscribed)
<1>1. InFees(f).id = f.id /\ InFees(f).kind = f.kind /\ InFees(f).offset = reward + f.offset - placed_value
      /\ (f.kind = "new" => InFees(f).unbound = f.unbound)
  <2>1. f.kind = "new" => f \in NewFlotsam
    BY DEF Flotsam, OldFlotsam, NewFlotsam
  <2> QED  BY <2>1 DEF InFees, Flotsam, OldFlotsam, NewFlotsam
<1>2. PICK m \in Nat, p \in Nat, x \in Int, n \in Nat :
         m = Len(before) /\ p = placed_value /\ x = f.offset /\ n = Len(AllSats)
  <2>1. f.offset \in Int
    BY DEF Flotsam, OldFlotsam, NewFlotsam
  <2>2. ValueOut(Tx) \in Nat /\ AllSats \in Seq(Sat)
    BY RestSats, AllSatsLength
  <2> QED  BY <2>1, <2>2
<1>3. /\ Rest \in Seq(Sat) /\ Len(Rest) = n - p /\ \A k \in 1 .. Len(Rest) : Rest[k] = AllSats[p + k]
      /\ AllSats \in Seq(Sat)
  BY <1>2, RestSats, AllSatsLength
<1> SUFFICES ASSUME f.id \in DOMAIN inscribed
             PROVE  /\ f.kind = "new" => ~f.unbound
                    /\ reward + f.offset - placed_value + 1 \in DOMAIN (before \o Rest)
                    /\ (before \o Rest)[reward + f.offset - placed_value + 1] = inscribed[f.id]
  BY <1>1 DEF OnItsSatIn
<1>4. /\ f.kind = "new" => ~f.unbound
      /\ x + 1 \in 1 .. n /\ AllSats[x + 1] = inscribed[f.id]
  BY <1>2, <1>3 DEF OnItsSatIn
<1>5. x - p + 1 \in 1 .. n - p /\ p + (x - p + 1) = x + 1
      /\ m + x - p + 1 = m + (x - p + 1)
  BY <1>2, <1>4
<1>6. Rest[x - p + 1] = AllSats[x + 1]
  BY <1>3, <1>5
<1>7. /\ (before \o Rest)[m + (x - p + 1)] = Rest[x - p + 1]
      /\ before \o Rest \in Seq(Sat) /\ Len(before \o Rest) = m + (n - p)
  <2>0. PICK r \in Seq(Sat) : r = Rest
    BY <1>3
  <2>1. PICK k : k = x - p + 1
    OBVIOUS
  <2>2. k \in 1 .. Len(r)
    BY <1>3, <1>5, <2>0, <2>1
  <2>3. /\ before \o r \in Seq(Sat) /\ Len(before \o r) = Len(before) + Len(r)
        /\ \A j \in 1 .. Len(r) : (before \o r)[Len(before) + j] = r[j]
    BY SMTT(30)
  <2> QED  BY <1>2, <1>3, <2>0, <2>1, <2>2, <2>3
<1>8. m + (x - p + 1) \in DOMAIN (before \o Rest)
  <2>1. m + (x - p + 1) \in 1 .. m + (n - p)
    BY <1>5
  <2>2. DOMAIN (before \o Rest) = 1 .. Len(before \o Rest)
    BY <1>7
  <2> QED  BY <1>7, <2>1, <2>2
<1>9. reward + f.offset - placed_value + 1 = m + (x - p + 1)
  BY <1>2, <1>5
<1> QED  BY <1>4, <1>6, <1>7, <1>8, <1>9

\* A transaction is settled.
Settling ==
    /\ Tracking /\ pc = "settle" /\ FinishTx
    /\ UNCHANGED <<chain, storeVars, counterVars, batchVars, height>>
LEMMA SettlingHas ==
    ASSUME Settling
    PROVE  /\ InTx /\ LedgerNow' = Described /\ Described = Passed /\ Located' = Located
           /\ (\A o : At(o)' \subseteq At(o)) /\ UnboundSoFar' = UnboundSoFar
           /\ floating' = <<>> /\ pc' \in {"inputs", "flush_id_inscription"}
           /\ pc' = "inputs" <=> ~IsCoinbase(Tx)
           /\ pc' = "inputs" =>
                 /\ input_index' = 1 /\ id_counter' = 0
                 /\ chain' \in Chains /\ height' \in DOMAIN chain'.blocks
                 /\ tx_index' \in 1 .. Len(chain'.blocks[height'])
           /\ Spent(Tx) \subseteq DOMAIN LedgerNow.sats
           /\ placed_value = ValueOut(Tx)
<1>1. /\ pc = "settle" /\ FinishTx /\ Working /\ InTx /\ Tracking
      /\ UNCHANGED <<chain, height, status, unbound_inscriptions, output_inscription,
                     output_inscription_cache, inscription_output, inscription_output_wb>>
  BY DEF Settling, storeVars, counterVars, batchVars, Tracking, InTx
<1>2. /\ floating' = <<>> /\ tx_index' = tx_index + 1 /\ input_index' = 1 /\ id_counter' = 0
      /\ pc' = IF tx_index < Len(chain.blocks[height]) THEN "inputs" ELSE "flush_id_inscription"
  BY <1>1 DEF FinishTx, EnterTx
<1>3. /\ chain \in Chains /\ height \in DOMAIN chain.blocks
      /\ tx_index \in 1 .. Len(chain.blocks[height]) /\ Len(chain.blocks[height]) \in Nat
      /\ IsCoinbase(Tx) <=> tx_index = Len(chain.blocks[height])
  BY <1>1, TrackingHas, TxConserves, TxFacts DEF TypeInv, InTx
<1>4. LedgerNow' = Passed /\ Described = Passed
  BY <1>1, TrackingHas, LedgerMoves DEF Described
<1>5. Located' = Located /\ \A o : At(o)' = At(o)
  BY <1>1 DEF Located, At, Held
<1>6. UnboundSoFar' = UnboundSoFar
  BY <1>1, <1>2 DEF UnboundSoFar
<1>7. Spent(Tx) \subseteq DOMAIN LedgerNow.sats
  BY <1>1, TrackingHas, SpentThere
<1>8. placed_value = ValueOut(Tx)
  <2>1. /\ vout = Len(Tx.outputs) + 1 /\ placed_value = SumsOut(Tx)[vout - 1] /\ Len(Tx.outputs) \in Nat
    BY <1>1, TrackingHas, TxFacts DEF AmountsInv, PlacedInv
  <2>2. vout - 1 = Len(Tx.outputs)
    BY <2>1
  <2> QED  BY <2>1, <2>2 DEF ValueOut
<1>9. pc' = "inputs" <=> ~IsCoinbase(Tx)
  BY <1>2, <1>3
<1>10. pc' = "inputs" => tx_index' \in 1 .. Len(chain.blocks[height])
  BY <1>2, <1>3
<1> QED  BY <1>1, <1>2, <1>3, <1>4, <1>5, <1>6, <1>7, <1>8, <1>9, <1>10

LEMMA SettleFeesInscribed == Tracking /\ SettleFees => InscribedInv'
<1> SUFFICES ASSUME Tracking, SettleFees PROVE InscribedInv'
  OBVIOUS
<1>1. Settling /\ ~IsCoinbase(Tx) /\ pc = "settle"
  BY DEF Settling, SettleFees
<1>2. /\ InTx /\ LedgerNow' = Described /\ Described = Passed /\ Located' = Located
      /\ (\A o : At(o)' \subseteq At(o)) /\ UnboundSoFar' = UnboundSoFar
      /\ floating' = <<>> /\ pc' = "inputs"
      /\ input_index' = 1 /\ id_counter' = 0
      /\ chain' \in Chains /\ height' \in DOMAIN chain'.blocks
      /\ tx_index' \in 1 .. Len(chain'.blocks[height'])
      /\ Spent(Tx) \subseteq DOMAIN LedgerNow.sats /\ placed_value = ValueOut(Tx)
  BY <1>1, SettlingHas
<1>3. PICK before, inscribed, moved :
         /\ before = SubsidySats(height) \o LedgerNow.fees /\ inscribed = Passed.inscribed
         /\ moved = [k \in DOMAIN floating |-> InFees(floating[k])]
  OBVIOUS
<1>4. flotsam' = flotsam \o moved /\ height' = height
  BY <1>3 DEF SettleFees
<1>5. /\ TypeInv /\ AmountsInv /\ LengthsInv /\ FloatingInv /\ FloatsInv
      /\ floating \in Seq(Flotsam) /\ flotsam \in Seq(Flotsam)
  BY TrackingHas
<1>6. before \in Seq(Sat) /\ Len(before) = reward
  <2>1. Subsidy[height] \in Nat /\ height \in Nat
    BY <1>2, <1>5, TxFacts DEF InTx, TypeInv, TypeOK
  <2>2. SubsidySats(height) \in Seq(Sat) /\ Len(SubsidySats(height)) = Subsidy[height]
    BY <2>1 DEF SubsidySats, Sat, NullHash
  <2>3. LedgerNow.fees \in Seq(Sat) /\ reward = Subsidy[height] + Len(LedgerNow.fees)
    BY <1>2, <1>5 DEF LengthsInv
  <2>4. PICK a \in Seq(Sat), b \in Seq(Sat) : a = SubsidySats(height) /\ b = LedgerNow.fees
    BY <2>2, <2>3
  <2>5. a \o b \in Seq(Sat) /\ Len(a \o b) = Len(a) + Len(b)
    BY SMTT(30)
  <2> QED  BY <1>3, <2>2, <2>3, <2>4, <2>5
<1>7. SubsidySats(height') \o LedgerNow'.fees = before \o Rest
  <2>1. LedgerNow'.fees = LedgerNow.fees \o Rest
    BY <1>1, <1>2, PassedParts
  <2>2. Rest \in Seq(Sat) /\ LedgerNow.fees \in Seq(Sat)
    BY <1>2, <1>5, RestSats DEF LengthsInv
  <2>3. SubsidySats(height) \in Seq(Sat)
    <3>1. Subsidy[height] \in Nat /\ height \in Nat
      BY <1>2, <1>5, TxFacts DEF InTx, TypeInv, TypeOK
    <3> QED  BY <3>1 DEF SubsidySats, Sat, NullHash
  <2>4. PICK a \in Seq(Sat), b \in Seq(Sat), r \in Seq(Sat) :
           a = SubsidySats(height) /\ b = LedgerNow.fees /\ r = Rest
    BY <2>2, <2>3
  <2>5. a \o (b \o r) = (a \o b) \o r
    BY SMTT(30)
  <2> QED  BY <1>3, <1>4, <2>1, <2>4, <2>5
<1>8. Rest \in Seq(Sat)
  BY <1>2, <1>5, RestSats
<1>9. /\ DOMAIN moved = DOMAIN floating /\ moved \in Seq(Flotsam)
      /\ \A k \in DOMAIN floating :
            /\ moved[k] = InFees(floating[k]) /\ floating[k] \in Flotsam /\ moved[k] \in Flotsam
            /\ moved[k].kind = floating[k].kind /\ moved[k].id = floating[k].id
  <2>1. DOMAIN floating = 1 .. Len(floating) /\ Len(floating) \in Nat
    BY <1>5
  <2>2. reward \in Int /\ placed_value \in Int
    BY <1>5 DEF TypeInv, TypeOK
  <2>3. ASSUME NEW f \in Flotsam
        PROVE  InFees(f) \in Flotsam /\ InFees(f).kind = f.kind /\ InFees(f).id = f.id
    <3>1. reward + f.offset - placed_value \in Int
      BY <2>2 DEF Flotsam, OldFlotsam, NewFlotsam
    <3> QED  BY <3>1 DEF InFees, Flotsam, OldFlotsam, NewFlotsam
  <2>4. \A k \in DOMAIN floating :
            /\ moved[k] = InFees(floating[k]) /\ floating[k] \in Flotsam /\ moved[k] \in Flotsam
            /\ moved[k].kind = floating[k].kind /\ moved[k].id = floating[k].id
    BY <1>3, <1>5, <2>3
  <2>5. moved \in Seq(Flotsam)
    BY <1>3, <2>1, <2>4, SeqFromFunction
  <2> QED  BY <1>3, <2>4, <2>5
<1>10. AllOnSats(moved, before \o Rest, inscribed)
  <2> SUFFICES ASSUME NEW k \in DOMAIN floating
               PROVE  OnItsSatIn(InFees(floating[k]), before \o Rest, inscribed)
    BY <1>9 DEF AllOnSats
  <2>1. PICK f \in Flotsam : f = floating[k]
    BY <1>9
  <2>2. OnItsSatIn(f, AllSats, inscribed)
    <3>1. AllOnSats(floating, ReadNow, Passed.inscribed)
      BY <1>2, <1>5 DEF FloatsInv
    <3>2. ReadNow = AllSats
      BY <1>1 DEF ReadNow
    <3> QED  BY <1>3, <2>1, <3>1, <3>2 DEF AllOnSats
  <2>3. f.offset >= placed_value
    BY <1>5, <2>1 DEF FloatingInv, Floats
  <2>4. OnItsSatIn(InFees(f), before \o Rest, inscribed)
    BY <1>2, <1>5, <1>6, <2>2, <2>3, FeesOnSat
  <2> QED  BY <2>1, <2>4
<1>11. AllOnSats(flotsam, before \o Rest, inscribed)
  <2>1. AllOnSats(flotsam, before, inscribed)
    BY <1>2, <1>3, <1>5 DEF FloatsInv
  <2> QED  BY <1>6, <1>8, <2>1, OnSatsLonger
<1>12. AllOnSats(flotsam', SubsidySats(height') \o LedgerNow'.fees, Inscribed)
  <2>1. PICK all : all = before \o Rest
    OBVIOUS
  <2>2. AllOnSats(flotsam \o moved, all, inscribed)
    BY <1>5, <1>9, <1>10, <1>11, <2>1, OnSatsConcat
  <2> QED  BY <1>2, <1>3, <1>4, <1>7, <2>1, <2>2 DEF Inscribed
<1>13. /\ OldIds(flotsam') = OldIds(flotsam) \cup OldIds(floating)
       /\ NewIds(flotsam') = NewIds(flotsam) \cup NewIds(floating)
  <2>1. OldIds(moved) = OldIds(floating) /\ NewIds(moved) = NewIds(floating)
    <3>1. OldAt(moved) = OldAt(floating) /\ NewAt(moved) = NewAt(floating)
      BY <1>9 DEF OldAt, NewAt
    <3> QED  BY <1>9, <3>1 DEF OldIds, NewIds, OldAt, NewAt
  <2> QED  BY <1>4, <1>5, <1>9, <2>1, OldIdsConcat
<1> QED  BY <1>1, <1>2, <1>12, <1>13, EnterInscribed

LEMMA SettleCoinbaseInscribed == Tracking /\ SettleCoinbase => InscribedInv'
<1> SUFFICES ASSUME Tracking, SettleCoinbase PROVE InscribedInv'
  OBVIOUS
<1>1. Settling /\ IsCoinbase(Tx) /\ pc = "settle" /\ floating = <<>> /\ flotsam' = flotsam
  BY DEF Settling, SettleCoinbase
<1>2. /\ LedgerNow' = Described /\ Located' = Located
      /\ (\A o : At(o)' \subseteq At(o)) /\ UnboundSoFar' = UnboundSoFar
      /\ floating' = <<>> /\ pc' = "flush_id_inscription"
  BY <1>1, SettlingHas
<1>3. flotsam = <<>>
  BY <1>1, TrackingHas DEF FloatsInv
<1> QED  BY <1>1, <1>2, <1>3, EnterInscribed

-----------------------------------------------------------------------------
\* Sorting leaves nothing out.
LEMMA SortedOnto ==
    ASSUME NEW s \in Seq(Flotsam), NEW order \in [DOMAIN s -> DOMAIN s], SortedBy(s, order),
           NEW k \in DOMAIN s
    PROVE  \E i \in DOMAIN s : order[i] = k
<1>1. DOMAIN s = 1 .. Len(s) /\ Len(s) \in Nat
  OBVIOUS
<1>2. IsFiniteSet(DOMAIN s) /\ Cardinality(DOMAIN s) \in Nat
  BY <1>1, FS_Interval, FS_CardinalityType
<1>3. SUFFICES ASSUME \A i \in DOMAIN s : order[i] # k PROVE FALSE
  OBVIOUS
<1>4. PICK S, T : S = DOMAIN s /\ T = DOMAIN s \ {k}
  OBVIOUS
<1>5. order \in [S -> T]
  BY <1>3, <1>4
<1>6. IsFiniteSet(T) /\ Cardinality(T) = Cardinality(S) - 1
  BY <1>2, <1>4, FS_RemoveElement
<1>7. Cardinality(T) < Cardinality(S)
  BY <1>2, <1>4, <1>6
<1>8. PICK x \in S, y \in S : x # y /\ order[x] = order[y]
  BY <1>2, <1>4, <1>5, <1>6, <1>7, FS_PigeonHole
<1> QED  BY <1>4, <1>8, SortedInjective

LEMMA SortedIds ==
    ASSUME NEW s \in Seq(Flotsam), NEW sorted \in StablySorted(s)
    PROVE  OldIds(sorted) = OldIds(s) /\ NewIds(sorted) = NewIds(s)
<1>1. PICK order \in [DOMAIN s -> DOMAIN s] :
         SortedBy(s, order) /\ sorted = [i \in DOMAIN s |-> s[order[i]]]
  BY DEF StablySorted
<1>2. \A i \in DOMAIN sorted : order[i] \in DOMAIN s /\ sorted[i] = s[order[i]]
  BY <1>1
<1>3. \A k \in DOMAIN s : \E i \in DOMAIN sorted : sorted[i] = s[k]
  <2> SUFFICES ASSUME NEW k \in DOMAIN s PROVE \E i \in DOMAIN sorted : sorted[i] = s[k]
    OBVIOUS
  <2>1. PICK i \in DOMAIN s : order[i] = k
    BY <1>1, SortedOnto
  <2> QED  BY <1>1, <2>1
<1>4. OldIds(sorted) = OldIds(s)
  BY <1>2, <1>3 DEF OldIds, OldAt
<1>5. NewIds(sorted) = NewIds(s)
  BY <1>2, <1>3 DEF NewIds, NewAt
<1> QED  BY <1>4, <1>5

\* What is on record or in the fees was known in front of the transaction.
LEMMA KnownBefore ==
    ASSUME ListsInv, MovingInv, UniqueInv, flotsam \in Seq(Flotsam)
    PROVE  /\ DOMAIN Located \subseteq KnownIds \ NewIds(floating)
           /\ \A k \in DOMAIN flotsam : flotsam[k].id \in KnownIds \ NewIds(floating)
<1>1. DOMAIN Located \subseteq KnownIds \ NewIds(floating)
  BY DEF ListsInv, KnownIds, UniqueInv
<1>2. ASSUME NEW k \in DOMAIN flotsam PROVE flotsam[k].id \in KnownIds \ NewIds(floating)
  <2>1. flotsam[k].kind \in {"old", "new"}
    BY DEF Flotsam, OldFlotsam, NewFlotsam
  <2>2. CASE flotsam[k].kind = "old"
    <3>1. Source(flotsam[k]) \in Sources(flotsam)
      BY <2>2 DEF Sources, OldAt
    <3>2. PICK f \in Sources(flotsam) : f = Source(flotsam[k])
      BY <3>1
    <3>3. f[1] = flotsam[k].id
      BY <3>2 DEF Source
    <3>4. f[2] \in DOMAIN Held /\ <<f[1], f[3]>> \in Items(Held[f[2]])
      BY DEF MovingInv
    <3>5. f[1] \in DOMAIN Located
      BY <3>4 DEF ListsInv, Agree
    <3> QED  BY <1>1, <3>3, <3>5
  <2>3. CASE flotsam[k].kind = "new"
    BY <2>3 DEF NewIds, NewAt, KnownIds, UniqueInv
  <2> QED  BY <2>1, <2>2, <2>3
<1> QED  BY <1>1, <1>2

\* The inputs are read: the sats pass on.
LEMMA SortInscribed == Tracking /\ SortFloating => InscribedInv'
<1> SUFFICES ASSUME Tracking, SortFloating PROVE InscribedInv'
  OBVIOUS
<1>1. PICK all : all = IF IsCoinbase(Tx) THEN flotsam ELSE floating
  OBVIOUS
<1>2. /\ TypeInv /\ AmountsInv /\ FloatingInv /\ LengthsInv /\ FloatsInv /\ RestInv /\ CoverInv
      /\ ListsInv /\ MovingInv /\ UniqueInv /\ AheadInv /\ EntriesInv
      /\ floating \in Seq(Flotsam) /\ flotsam \in Seq(Flotsam)
  BY TrackingHas
<1>3. /\ pc = "inputs" /\ pc' = "outputs" /\ InTx /\ InTx' /\ ~InputsLeft
      /\ flotsam' = IF IsCoinbase(Tx) THEN <<>> ELSE flotsam
      /\ UNCHANGED <<chain, height, tx_index, status, unbound_inscriptions, output_inscription,
                     output_inscription_cache, inscription_output, inscription_output_wb>>
  BY DEF SortFloating, storeVars, counterVars, batchVars, txVars, InTx
<1>4. floating' \in StablySorted(all)
  <2>1. IsCoinbase(Tx) => floating \o flotsam = flotsam
    BY <1>2, <1>3 DEF FloatingInv
  <2> QED  BY <1>1, <2>1 DEF SortFloating
<1>5. /\ LedgerNow' = LedgerNow /\ Tx' = Tx /\ Passed' = Passed /\ AllSats' = AllSats
      /\ Described' = Passed /\ Described = LedgerNow /\ ReadNow' = AllSats
  BY <1>3, LedgerStays DEF Described, ReadNow
<1>6. /\ Spent(Tx) \subseteq DOMAIN LedgerNow.sats
      /\ DOMAIN Tx.inputs = 1 .. Len(Tx.inputs) /\ Len(Tx.inputs) \in Nat
      /\ \A i \in DOMAIN Tx.inputs : i < input_index
  <2>1. DOMAIN Tx.inputs = 1 .. Len(Tx.inputs) /\ Len(Tx.inputs) \in Nat /\ input_index \in Nat
    BY <1>2, <1>3, TxFacts, EnvelopesCount DEF TypeInv, TypeOK
  <2>2. \A i \in 1 .. Len(Tx.inputs) : i < input_index
    BY <1>3, <2>1 DEF InputsLeft
  <2>3. Spent(Tx) \subseteq DOMAIN LedgerNow.sats
    BY <1>3, TrackingHas, SpentThere
  <2> QED  BY <2>1, <2>2, <2>3
<1>7. ASSUME NEW id \in KnownIds \ NewIds(floating)
      PROVE  /\ id \in DOMAIN Passed.inscribed <=> id \in DOMAIN LedgerNow.inscribed
             /\ id \in DOMAIN LedgerNow.inscribed => Passed.inscribed[id] = LedgerNow.inscribed[id]
  BY <1>2, <1>3, InscribedBefore
<1>8. AllOnSats(flotsam, SubsidySats(height) \o LedgerNow.fees, Passed.inscribed)
  <2>1. AllOnSats(flotsam, SubsidySats(height) \o LedgerNow.fees, LedgerNow.inscribed)
    BY <1>2, <1>3, <1>5 DEF FloatsInv
  <2>2. \A k \in DOMAIN flotsam : flotsam[k].id \in KnownIds \ NewIds(floating)
    BY <1>2, KnownBefore
  <2> QED  BY <1>7, <2>1, <2>2 DEF AllOnSats, OnItsSatIn
<1>9. all \in Seq(Flotsam) /\ AllOnSats(all, AllSats, Passed.inscribed)
  <2>1. CASE IsCoinbase(Tx)
    BY <1>1, <1>2, <1>8, <2>1 DEF AllSats
  <2>2. CASE ~IsCoinbase(Tx)
    <3>1. AllOnSats(floating, ReadNow, Passed.inscribed)
      BY <1>2, <1>3 DEF FloatsInv
    <3>2. input_index - 1 = Len(Tx.inputs)
      <4>1. input_index \in 1 .. Len(Tx.inputs) + 1
        BY <1>2, <1>3 DEF AmountsInv, ReadInv
      <4> QED  BY <1>3, <1>6, <4>1 DEF InputsLeft
    <3>3. ReadNow = AllSats
      BY <1>3, <2>2, <3>2 DEF ReadNow, AllSats
    <3> QED  BY <1>1, <1>2, <2>2, <3>1, <3>3
  <2> QED  BY <2>1, <2>2
<1>10. FloatsInv'
  <2>1. AllOnSats(floating', AllSats, Passed.inscribed)
    <3>1. PICK sorted, sats, inscribed :
             sorted \in StablySorted(all) /\ sorted = floating' /\ sats = AllSats /\ inscribed = Passed.inscribed
      BY <1>4
    <3>2. AllOnSats(sorted, sats, inscribed)
      BY <1>9, <3>1, OnSatsSorted
    <3> QED  BY <3>1, <3>2
  <2>2. AllOnSats(flotsam', SubsidySats(height') \o LedgerNow'.fees, Described'.inscribed)
    BY <1>3, <1>5, <1>8, NoneOnSats
  <2>3. AllOnSats(floating, ReadNow, Passed.inscribed)'
    BY <1>5, <2>1
  <2>4. AllOnSats(flotsam, SubsidySats(height) \o LedgerNow.fees, Described.inscribed)'
    BY <2>2
  <2> QED  BY <1>3, <1>5, <2>3, <2>4 DEF FloatsInv
<1>11. /\ OldIds(floating') \cup OldIds(flotsam') = OldIds(floating) \cup OldIds(flotsam)
       /\ NewIds(floating') \cup NewIds(flotsam') = NewIds(floating) \cup NewIds(flotsam)
  <2>1. OldIds(floating') = OldIds(all) /\ NewIds(floating') = NewIds(all)
    BY <1>4, <1>9, SortedIds
  <2>2. OldIds(<<>>) = {} /\ NewIds(<<>>) = {}
    BY DEF OldIds, OldAt, NewIds, NewAt
  <2>3. IsCoinbase(Tx) => floating = <<>>
    BY <1>2, <1>3 DEF FloatingInv
  <2> QED  BY <1>1, <1>3, <2>1, <2>2, <2>3
<1>12. RestInv'
  <2>1. MovingIds' = MovingIds /\ \A o : At(o)' = At(o)
    BY <1>3, <1>11 DEF MovingIds, At, Held
  <2>2. UnboundSoFar' = UnboundSoFar
    BY <1>3 DEF UnboundSoFar
  <2> SUFFICES ASSUME NEW o, NEW e \in At(o), e[1] \notin MovingIds PROVE RestsAt(o, e)'
    BY <2>1 DEF RestInv
  <2>3. RestsAt(o, e)
    BY <1>2 DEF RestInv
  <2>4. e[1] \in KnownIds \ NewIds(floating)
    <3>1. o \in DOMAIN Held /\ e \in Items(Held[o])
      BY AtHeld
    <3>2. e[1] \in DOMAIN Located
      BY <1>2, <3>1 DEF ListsInv, Agree
    <3> QED  BY <1>2, <3>2, KnownBefore
  <2>5. ~ReadOutput(o)'
    BY <1>3 DEF ReadOutput
  <2>6. CASE IsNull(o)
    <3>1. e[1] \in DOMAIN LedgerNow.inscribed =>
             e[2] + 1 \in DOMAIN LedgerNow.lost /\ LedgerNow.lost[e[2] + 1] = LedgerNow.inscribed[e[1]]
      BY <1>5, <2>3, <2>6 DEF RestsAt
    <3>2. \A i \in DOMAIN LedgerNow.lost : i \in DOMAIN Passed.lost /\ Passed.lost[i] = LedgerNow.lost[i]
      <4>1. PICK lost \in Seq(Sat), more \in Seq(Sat) : lost = LedgerNow.lost /\ Passed.lost = lost \o more
        <5>1. Rest \in Seq(Sat) /\ <<>> \in Seq(Sat) /\ LedgerNow.lost \in Seq(Sat)
          BY <1>2, <1>3, <1>6, RestSats DEF LengthsInv
        <5> QED  BY <5>1, PassedParts
      <4>2. \A i \in DOMAIN lost : i \in DOMAIN (lost \o more) /\ (lost \o more)[i] = lost[i]
        OBVIOUS
      <4> QED  BY <4>1, <4>2
    <3>3. e[1] \in DOMAIN Passed.inscribed =>
             e[2] + 1 \in DOMAIN Passed.lost /\ Passed.lost[e[2] + 1] = Passed.inscribed[e[1]]
      BY <1>7, <2>4, <3>1, <3>2
    <3> QED  BY <1>5, <2>6, <3>3 DEF RestsAt
  <2>7. CASE ~IsNull(o) /\ o \in DOMAIN LedgerNow.sats
    <3>1. o \in OutPoint
      <4>1. o \in DOMAIN chain.value /\ chain \in Chains
        BY <1>2, <2>7 DEF LengthsInv, TypeInv
      <4> QED  BY <4>1, ChainFacts
    <3>2. ~ReadOutput(o)
      BY <2>3, <1>5, <2>7, <3>1, LocationKinds DEF RestsAt
    <3>3. o \notin Spent(Tx)
      BY <1>3, <1>6, <3>2 DEF ReadOutput, Spent
    <3>4. o \notin Created(Tx)
      <4>1. ~NotYet(o)
        BY <1>2, AtHeld DEF EntriesInv, EntryInv
      <4>2. o[1] # Tx.txid
        BY <1>3, <4>1 DEF NotYet
      <4> QED  BY <4>2 DEF Created
    <3>5. o \in DOMAIN Passed.sats /\ Passed.sats[o] = LedgerNow.sats[o]
      BY <2>7, <3>3, <3>4, PassedParts
    <3>6. e[1] \in DOMAIN Passed.inscribed =>
             /\ e[2] + 1 \in DOMAIN Passed.sats[o]
             /\ Passed.sats[o][e[2] + 1] = Passed.inscribed[e[1]]
      BY <1>5, <1>7, <2>3, <2>4, <2>7, <3>5 DEF RestsAt
    <3> QED  BY <1>5, <2>5, <2>7, <3>5, <3>6 DEF RestsAt
  <2>8. CASE ~IsNull(o) /\ o \notin DOMAIN LedgerNow.sats
    <3>1. e[1] \notin DOMAIN LedgerNow.inscribed /\ \E n \in 0 .. UnboundSoFar - 1 : o = Unbound(n)
      BY <1>5, <2>3, <2>8 DEF RestsAt
    <3>2. e[1] \notin DOMAIN Passed.inscribed
      BY <1>7, <2>4, <3>1
    <3> QED  BY <1>5, <2>2, <3>1, <3>2 DEF RestsAt
  <2> QED  BY <2>6, <2>7, <2>8
<1>13. CoverInv'
  <2>1. Located' = Located
    BY <1>3 DEF Located
  <2>2. InscribedIds \subseteq NewIds(floating)
    BY <1>2, <1>3, <1>6 DEF InscribedIds, CoverInv, Inscribing
  <2>3. DOMAIN Passed.inscribed \subseteq DOMAIN Located \cup NewIds(floating) \cup NewIds(flotsam)
    BY <1>2, <1>5, <2>2, PassedParts DEF CoverInv
  <2>4. DOMAIN Described'.inscribed \subseteq DOMAIN Located' \cup NewIds(floating') \cup NewIds(flotsam')
    BY <1>5, <1>11, <2>1, <2>3
  <2> QED  BY <1>3, <2>4 DEF CoverInv
<1> QED  BY <1>10, <1>12, <1>13 DEF InscribedInv

-----------------------------------------------------------------------------
\* Where an inscription is once it is placed.
Placed(f, location, output, offset) ==
    /\ \A o : At(o)' \subseteq At(o) \cup (IF o = location THEN {<<f.id, offset>>} ELSE {})
    /\ \A o : \A e \in At(o)' : e[1] = f.id => o = location /\ e = <<f.id, offset>>
    /\ DOMAIN Located' = DOMAIN Located \cup {f.id}
    /\ \/ location = output /\ UNCHANGED unbound_inscriptions
       \/ /\ f.kind = "new" /\ f.unbound
          /\ location = Unbound(unbound_inscriptions) /\ unbound_inscriptions' = unbound_inscriptions + 1

LEMMA PlacedExactly ==
    ASSUME TypeInv, PlacesInv', pc \in {"outputs", "settle"}, floating # <<>>,
           NEW output \in OutPoint, NEW offset \in Int, UpdateInscriptionState(output, offset)
    PROVE  \E location : Placed(Head(floating), location, output, offset)
<1>1. PICK f : f = Head(floating)
  OBVIOUS
<1>2. f \in Flotsam
  BY <1>1, HeadTail DEF TypeInv, TypeOK
<1>3. <<f.id, offset>> \in Entry
  BY <1>2 DEF Flotsam, OldFlotsam, NewFlotsam, Entry
<1>4. /\ IsStore(Held, Location, Seq(Entry)) /\ UNCHANGED <<output_inscription, inscription_output>>
      /\ pc' = pc
  BY WriteIsStore DEF Held, TypeInv, TypeOK, UpdateInscriptionState
<1>5. ListsInv'
  BY <1>4 DEF PlacesInv, Working
<1>6. ASSUME NEW location, <<f.id, offset>> \in At(location)'
      PROVE  \A o : \A e \in At(o)' : e[1] = f.id => o = location /\ e = <<f.id, offset>>
  <2> SUFFICES ASSUME NEW o, NEW e \in At(o)', e[1] = f.id PROVE o = location /\ e = <<f.id, offset>>
    OBVIOUS
  <2>1. PICK held, located : held = Held' /\ located = Located'
    OBVIOUS
  <2>2. \A p : At(p)' = IF p \in DOMAIN held THEN Items(held[p]) ELSE {}
    <3>1. Items(<<>>) = {}
      BY DEF Items
    <3> QED  BY <2>1, <3>1 DEF At, ListAt
  <2>3. Agree(held, located)
    BY <1>5, <2>1 DEF ListsInv
  <2>4. o = located[f.id] /\ location = located[f.id]
    <3>1. o \in DOMAIN held /\ e \in Items(held[o])
      BY <2>2
    <3>2. location \in DOMAIN held /\ <<f.id, offset>> \in Items(held[location])
      BY <1>6, <2>2
    <3> QED  BY <2>3, <3>1, <3>2 DEF Agree
  <2>5. PICK list : list = held[o]
    OBVIOUS
  <2>6. ListDistinct(list) /\ e \in Items(list) /\ <<f.id, offset>> \in Items(list)
    BY <1>6, <2>2, <2>3, <2>4, <2>5 DEF Agree
  <2> QED  BY <2>4, <2>6 DEF ListDistinct, Items
<1>7. CASE MoveInscription(f, output, offset)
  <2>1. f.kind = "old" /\ f.old_output \in OutPoint /\ UNCHANGED unbound_inscriptions
    BY <1>2, <1>7 DEF MoveInscription, Flotsam, OldFlotsam, NewFlotsam, counterVars
  <2>2. PICK rest \in Replaced(ListAt(Held, f.old_output), <<f.id, f.old_offset>>) :
           LET left == Put(Held, f.old_output, rest)
           IN  Held' = Put(left, output, Append(ListAt(left, output), <<f.id, offset>>))
    BY <1>4, <1>7, MoveHeld
  <2>3. PICK left : left = Put(Held, f.old_output, rest)
    OBVIOUS
  <2>4. f.old_output \in Location
    BY <2>1 DEF Location
  <2>5. /\ IsStore(left, Location, Seq(Entry))
        /\ \A p : Items(ListAt(left, p)) \subseteq Items(ListAt(Held, p))
    BY <1>4, <2>3, <2>4, LeftItems
  <2>6. Held' = Put(left, output, Append(ListAt(left, output), <<f.id, offset>>))
    BY <2>2, <2>3
  <2>7. \A p : At(p)' = Items(ListAt(left, p)) \cup (IF p = output THEN {<<f.id, offset>>} ELSE {})
    BY <1>3, <2>5, <2>6, JoinedItems DEF At
  <2>8. \A p : At(p)' \subseteq At(p) \cup (IF p = output THEN {<<f.id, offset>>} ELSE {})
    BY <2>5, <2>7 DEF At
  <2>9. inscription_output_wb' = Put(inscription_output_wb, f.id, output)
    BY <1>7 DEF MoveInscription
  <2>10. DOMAIN Located' = DOMAIN Located \cup {f.id}
    BY <1>4, <2>9 DEF Located, Write, Put
  <2>11. <<f.id, offset>> \in At(output)'
    BY <2>7
  <2>12. Placed(f, output, output, offset)
    BY <1>6, <2>1, <2>8, <2>10, <2>11 DEF Placed
  <2> QED  BY <1>1, <2>12
<1>8. CASE AddInscription(f, output, offset)
  <2>1. PICK location : location = IF f.unbound THEN Unbound(unbound_inscriptions) ELSE output
    OBVIOUS
  <2>2. Held' = Put(Held, location, Append(ListAt(Held, location), <<f.id, offset>>))
    BY <1>4, <1>8, <2>1, AddHeld
  <2>3. \A p : At(p)' = At(p) \cup (IF p = location THEN {<<f.id, offset>>} ELSE {})
    BY <1>3, <1>4, <2>2, JoinedItems DEF At
  <2>4. /\ f.kind = "new" /\ f.unbound \in BOOLEAN /\ unbound_inscriptions \in Nat
        /\ unbound_inscriptions' = unbound_inscriptions + (IF f.unbound THEN 1 ELSE 0)
        /\ inscription_output_wb' = Put(inscription_output_wb, f.id, location)
    BY <1>2, <1>8, <2>1 DEF AddInscription, Flotsam, OldFlotsam, NewFlotsam, TypeInv, TypeOK
  <2>5. DOMAIN Located' = DOMAIN Located \cup {f.id}
    BY <1>4, <2>4 DEF Located, Write, Put
  <2>6. <<f.id, offset>> \in At(location)'
    BY <2>3
  <2>7. \A o : \A e \in At(o)' : e[1] = f.id => o = location /\ e = <<f.id, offset>>
    BY <1>6, <2>6
  <2>8. \/ location = output /\ UNCHANGED unbound_inscriptions
        \/ /\ f.kind = "new" /\ f.unbound
           /\ location = Unbound(unbound_inscriptions)
           /\ unbound_inscriptions' = unbound_inscriptions + 1
    BY <2>1, <2>4
  <2>9. Placed(f, location, output, offset)
    BY <2>3, <2>5, <2>7, <2>8 DEF Placed
  <2> QED  BY <1>1, <2>9
<1> QED  BY <1>1, <1>7, <1>8 DEF UpdateInscriptionState

\* An inscription is placed on its sat.
LEMMA PlacedInscribed ==
    ASSUME Tracking, PlacesInv', pc \in {"outputs", "settle"}, floating # <<>>,
           NEW output \in OutPoint, NEW offset \in Int, UpdateInscriptionState(output, offset),
           IsNull(output) \/ output \in DOMAIN Passed.sats,
           NEW sats, sats = IF IsNull(output) THEN Passed.lost ELSE Passed.sats[output],
           Head(floating).id \in DOMAIN Passed.inscribed =>
              offset + 1 \in DOMAIN sats /\ sats[offset + 1] = Passed.inscribed[Head(floating).id]
    PROVE  InscribedInv'
<1>1. PICK f, rest, location :
         f = Head(floating) /\ rest = Tail(floating) /\ Placed(f, location, output, offset)
  BY TrackingHas, PlacedExactly
<1>2. /\ InTx /\ InTx' /\ pc' = pc /\ floating' = rest
      /\ UNCHANGED <<chain, height, tx_index, flotsam>>
  BY <1>1 DEF UpdateInscriptionState, blockVars, txVars, InTx
<1>3. /\ TypeInv /\ FloatsInv /\ RestInv /\ CoverInv
      /\ floating \in Seq(Flotsam)
  BY TrackingHas
<1>4. /\ LedgerNow' = LedgerNow /\ Tx' = Tx /\ Passed' = Passed /\ AllSats' = AllSats
      /\ Described' = Passed /\ Described = Passed /\ ReadNow = AllSats /\ ReadNow' = AllSats
  BY <1>2, LedgerStays DEF Described, ReadNow
<1>5. PICK all, inscribed : all = AllSats /\ inscribed = Passed.inscribed
  OBVIOUS
<1>6. AllOnSats(rest, all, inscribed) /\ OnItsSatIn(f, all, inscribed)
  <2>1. AllOnSats(floating, all, inscribed)
    BY <1>2, <1>3, <1>4, <1>5 DEF FloatsInv
  <2> QED  BY <1>1, <1>3, <2>1, OnSatsTail
<1>7. FloatsInv'
  <2>1. AllOnSats(floating, ReadNow, Passed.inscribed)'
    BY <1>2, <1>4, <1>5, <1>6
  <2>2. AllOnSats(flotsam, SubsidySats(height) \o LedgerNow.fees, Described.inscribed)'
    BY <1>2, <1>3, <1>4 DEF FloatsInv
  <2> QED  BY <1>2, <1>3, <1>4, <2>1, <2>2 DEF FloatsInv
<1>8. /\ OldIds(floating) \subseteq OldIds(rest) \cup {f.id}
      /\ NewIds(floating) \subseteq NewIds(rest) \cup {f.id}
  <2>1. \A k \in DOMAIN floating : floating[k] = f \/ \E j \in DOMAIN rest : rest[j] = floating[k]
    <3>1. SUFFICES ASSUME NEW k \in DOMAIN floating, k # 1
                   PROVE  \E j \in DOMAIN rest : rest[j] = floating[k]
      BY <1>1, <1>3, HeadTail
    <3>2. k - 1 \in DOMAIN rest /\ rest[k - 1] = floating[k]
      BY <1>1, <1>3, <3>1
    <3> QED  BY <3>2
  <2> QED  BY <2>1 DEF OldIds, OldAt, NewIds, NewAt
<1>9. RestInv'
  <2> SUFFICES ASSUME NEW o, NEW e \in At(o)', e[1] \notin MovingIds' PROVE RestsAt(o, e)'
    BY DEF RestInv
  <2>1. ~ReadOutput(o) /\ ~ReadOutput(o)'
    BY <1>2 DEF ReadOutput
  <2>2. UnboundSoFar = unbound_inscriptions /\ UnboundSoFar' = unbound_inscriptions'
        /\ unbound_inscriptions \in Nat
    BY <1>2, <1>3 DEF UnboundSoFar, TypeInv, TypeOK
  <2>3. CASE e[1] = f.id
    <3>1. o = location /\ e = <<f.id, offset>>
      BY <1>1, <2>3 DEF Placed
    <3>2. CASE location = output
      <4>1. f.id \in DOMAIN inscribed => offset + 1 \in DOMAIN sats /\ sats[offset + 1] = inscribed[f.id]
        BY <1>1, <1>5
      <4>2. e[1] = f.id /\ e[2] = offset
        BY <3>1
      <4> QED  BY <1>4, <1>5, <2>1, <3>1, <3>2, <4>1, <4>2 DEF RestsAt
    <3>3. CASE location # output
      <4>1. /\ f.kind = "new" /\ f.unbound
            /\ location = Unbound(unbound_inscriptions)
            /\ unbound_inscriptions' = unbound_inscriptions + 1
        BY <1>1, <3>3 DEF Placed
      <4>2. f.id \notin DOMAIN inscribed
        BY <1>6, <4>1 DEF OnItsSatIn
      <4>3. unbound_inscriptions \in 0 .. UnboundSoFar' - 1
        BY <2>2, <4>1
      <4> QED  BY <1>4, <1>5, <2>3, <3>1, <4>1, <4>2, <4>3 DEF RestsAt
    <3> QED  BY <3>2, <3>3
  <2>4. CASE e[1] # f.id
    <3>1. e \in At(o)
      BY <1>1, <2>4 DEF Placed
    <3>2. e[1] \notin MovingIds
      BY <1>2, <1>8, <2>4 DEF MovingIds
    <3>3. RestsAt(o, e)
      BY <1>3, <3>1, <3>2 DEF RestInv
    <3>4. \A n \in 0 .. UnboundSoFar - 1 : n \in 0 .. UnboundSoFar' - 1
      BY <1>1, <2>2 DEF Placed
    <3> QED  BY <1>4, <2>1, <3>3, <3>4 DEF RestsAt
  <2> QED  BY <2>3, <2>4
<1>10. CoverInv'
  <2>1. f.id \in DOMAIN Located' /\ DOMAIN Located \subseteq DOMAIN Located'
    BY <1>1 DEF Placed
  <2>2. DOMAIN Described'.inscribed \subseteq DOMAIN Located' \cup NewIds(floating') \cup NewIds(flotsam')
    BY <1>2, <1>3, <1>4, <1>8, <2>1 DEF CoverInv
  <2> QED  BY <1>2, <2>2 DEF CoverInv
<1> QED  BY <1>7, <1>9, <1>10 DEF InscribedInv

\* The first of what floats is on its sat.
LEMMA HeadOnSat ==
    ASSUME Tracking, pc \in {"outputs", "settle"}, floating # <<>>
    PROVE  OnItsSatIn(Head(floating), AllSats, Passed.inscribed)
<1>1. PICK all, inscribed : all = AllSats /\ inscribed = Passed.inscribed
  OBVIOUS
<1>2. ReadNow = AllSats
  BY DEF ReadNow
<1>3. AllOnSats(floating, all, inscribed) /\ floating \in Seq(Flotsam)
  BY <1>1, <1>2, TrackingHas DEF FloatsInv, InTx
<1> QED  BY <1>1, <1>3, OnSatsTail

LEMMA PlaceInscribed == Tracking /\ PlacesInv' /\ PlaceOnOutput => InscribedInv'
<1> SUFFICES ASSUME Tracking, PlacesInv', PlaceOnOutput PROVE InscribedInv'
  OBVIOUS
<1>1. PICK f, output, offset : /\ f = Head(floating) /\ output = <<Tx.txid, vout - 1>>
                               /\ offset = Head(floating).offset - placed_value
  OBVIOUS
<1>2. /\ pc = "outputs" /\ OutputsLeft /\ floating # <<>> /\ InTx
      /\ f.offset < placed_value + Tx.outputs[vout]
      /\ UpdateInscriptionState(output, offset)
  BY <1>1 DEF PlaceOnOutput, WithinOutput, InTx
<1>3. /\ TypeInv /\ AmountsInv /\ LengthsInv /\ FloatingInv
      /\ floating \in Seq(Flotsam) /\ placed_value \in Int
  BY TrackingHas DEF TypeInv, TypeOK
<1>4. f.offset \in Int /\ offset \in Int /\ offset = f.offset - placed_value
  <2>1. f.offset \in Int /\ offset = f.offset - placed_value
    BY <1>1, <1>2, <1>3, HeadOffset
  <2> QED  BY <1>3, <2>1
<1>5. f.offset >= placed_value
  <2>1. 1 \in DOMAIN floating /\ f = floating[1]
    BY <1>1, <1>2, <1>3, HeadTail
  <2> QED  BY <1>3, <2>1 DEF FloatingInv, Floats
<1>6. /\ vout \in 1 .. Len(Tx.outputs) /\ Tx.txid \in Nat \ {NullHash}
      /\ output \in OutPoint /\ ~IsNull(output) /\ Tx.outputs[vout] \in Nat
      /\ placed_value = SumsOut(Tx)[vout - 1]
  <2>1. vout \in DOMAIN Tx.outputs /\ placed_value = SumsOut(Tx)[vout - 1]
    BY <1>2, <1>3, TxFacts DEF OutputsLeft, AmountsInv, PlacedInv
  <2>2. Tx.txid \in Nat \ {NullHash} /\ Len(Tx.outputs) \in Nat
    BY <1>2, <1>3, TxConserves, TxFacts DEF Transaction
  <2>3. vout \in 1 .. Len(Tx.outputs) /\ vout - 1 \in Nat /\ Tx.outputs[vout] \in Nat
    <3>1. Tx.outputs \in Seq(Nat)
      BY <1>2, <1>3, TxFacts DEF Transaction
    <3>2. vout \in 1 .. Len(Tx.outputs)
      BY <2>1, <3>1
    <3>3. vout - 1 \in Nat
      BY <2>2, <3>2
    <3> QED  BY <3>1, <3>2, <3>3
  <2>4. output \in OutPoint
    BY <1>1, <2>2, <2>3 DEF OutPoint
  <2>5. ~IsNull(output)
    BY <1>1, <2>2 DEF IsNull, NullOutPoint
  <2> QED  BY <2>1, <2>2, <2>3, <2>4, <2>5
<1>7. Spent(Tx) \subseteq DOMAIN LedgerNow.sats
  BY <1>2, TrackingHas, SpentThere
<1>8. output \in DOMAIN Passed.sats
  <2>1. output \in Created(Tx)
    BY <1>1, <1>6 DEF Created
  <2> QED  BY <2>1, PassedParts
<1>9. PICK sats, all, value, x, p, inscribed :
         /\ sats = Passed.sats[output] /\ all = AllSats /\ value = Tx.outputs[vout]
         /\ x = f.offset /\ p = placed_value /\ inscribed = Passed.inscribed
  OBVIOUS
<1>10. /\ sats \in Seq(Sat) /\ Len(sats) = value /\ p \in Nat
       /\ \A k \in 1 .. value : sats[k] = all[p + k]
  <2>1. PICK v \in 1 .. Len(Tx.outputs) : v = vout
    BY <1>6
  <2>2. /\ OutSats(v) \in Seq(Sat) /\ Len(OutSats(v)) = Tx.outputs[v]
        /\ SumsOut(Tx)[v - 1] \in Nat
        /\ \A k \in 1 .. Tx.outputs[v] : OutSats(v)[k] = AllSats[SumsOut(Tx)[v - 1] + k]
    BY <1>2, <1>3, <1>7, OutputSats
  <2>3. OutSats(v) = sats
    BY <1>1, <1>9, <2>1 DEF OutSats
  <2> QED  BY <1>6, <1>9, <2>1, <2>2, <2>3
<1>11. f.id \in DOMAIN inscribed => offset + 1 \in DOMAIN sats /\ sats[offset + 1] = inscribed[f.id]
  <2> SUFFICES ASSUME f.id \in DOMAIN inscribed
               PROVE  offset + 1 \in DOMAIN sats /\ sats[offset + 1] = inscribed[f.id]
    OBVIOUS
  <2>1. all[x + 1] = inscribed[f.id]
    BY <1>1, <1>2, <1>9, HeadOnSat DEF OnItsSatIn
  <2>2. x \in Int /\ p \in Nat /\ value \in Nat /\ x >= p /\ x < p + value /\ offset = x - p
    BY <1>2, <1>4, <1>5, <1>6, <1>9, <1>10
  <2>3. offset + 1 \in 1 .. value /\ p + (offset + 1) = x + 1
    BY <2>2
  <2>4. DOMAIN sats = 1 .. value
    BY <1>10
  <2> QED  BY <1>10, <2>1, <2>3, <2>4
<1>12. sats = IF IsNull(output) THEN Passed.lost ELSE Passed.sats[output]
  BY <1>6, <1>9
<1>13. Head(floating).id \in DOMAIN Passed.inscribed =>
          offset + 1 \in DOMAIN sats /\ sats[offset + 1] = Passed.inscribed[Head(floating).id]
  BY <1>1, <1>9, <1>11
<1>14. pc \in {"outputs", "settle"} /\ offset \in Int /\ output \in OutPoint
  BY <1>2, <1>4, <1>6
<1> QED  BY <1>2, <1>8, <1>12, <1>13, <1>14, PlacedInscribed

LEMMA LoseInscribed == Tracking /\ PlacesInv' /\ LoseFloating => InscribedInv'
<1> SUFFICES ASSUME Tracking, PlacesInv', LoseFloating PROVE InscribedInv'
  OBVIOUS
<1>1. PICK f, offset : f = Head(floating) /\ offset = lost_sats + Head(floating).offset - placed_value
  OBVIOUS
<1>2. /\ pc = "settle" /\ IsCoinbase(Tx) /\ floating # <<>> /\ InTx
      /\ UpdateInscriptionState(NullOutPoint, offset)
  BY <1>1 DEF LoseFloating, InTx
<1>3. /\ TypeInv /\ AmountsInv /\ LengthsInv /\ FloatingInv
      /\ floating \in Seq(Flotsam) /\ placed_value \in Int /\ lost_sats \in Int
  BY TrackingHas DEF TypeInv, TypeOK
<1>4. f.offset \in Int /\ offset \in Int /\ offset = lost_sats + f.offset - placed_value
  <2>1. f.offset \in Int /\ offset = lost_sats + f.offset - placed_value
    BY <1>1, <1>2, <1>3, HeadOffset
  <2> QED  BY <1>3, <2>1
<1>5. f.offset >= placed_value
  <2>1. 1 \in DOMAIN floating /\ f = floating[1]
    BY <1>1, <1>2, <1>3, HeadTail
  <2> QED  BY <1>3, <2>1 DEF FloatingInv, Floats
<1>6. NullOutPoint \in OutPoint /\ IsNull(NullOutPoint)
  BY ChainAssumption DEF NullOutPoint, OutPoint, NullHash, IsNull
<1>7. Spent(Tx) \subseteq DOMAIN LedgerNow.sats
  BY <1>2, TrackingHas, SpentThere
<1>8. placed_value = ValueOut(Tx)
  <2>1. /\ vout = Len(Tx.outputs) + 1 /\ placed_value = SumsOut(Tx)[vout - 1] /\ Len(Tx.outputs) \in Nat
    BY <1>2, <1>3, TxFacts DEF AmountsInv, PlacedInv
  <2>2. vout - 1 = Len(Tx.outputs)
    BY <2>1
  <2> QED  BY <2>1, <2>2 DEF ValueOut
<1>9. PICK before, r, sats : /\ before = LedgerNow.lost /\ r = Rest
                                   /\ sats = before \o r
  OBVIOUS
<1>10. PICK all, x, p, m, inscribed :
         /\ all = AllSats /\ x = f.offset /\ p = placed_value /\ m = lost_sats
         /\ inscribed = Passed.inscribed
  OBVIOUS
<1>11. /\ before \in Seq(Sat) /\ Len(before) = m /\ m \in Nat
  <2>1. LedgerNow.lost \in Seq(Sat) /\ Len(LedgerNow.lost) = lost_sats
    BY <1>2, <1>3 DEF LengthsInv
  <2> QED  BY <1>9, <1>10, <2>1
<1>12. /\ r \in Seq(Sat) /\ p \in Nat /\ all \in Seq(Sat) /\ Len(r) = Len(all) - p
       /\ \A k \in 1 .. Len(r) : r[k] = all[p + k]
  BY <1>2, <1>3, <1>7, <1>8, <1>9, <1>10, RestSats, AllSatsLength
<1>13. Passed.lost = sats
  BY <1>2, <1>9, PassedParts
<1>14. f.id \in DOMAIN inscribed => offset + 1 \in DOMAIN sats /\ sats[offset + 1] = inscribed[f.id]
  <2> SUFFICES ASSUME f.id \in DOMAIN inscribed
               PROVE  offset + 1 \in DOMAIN sats /\ sats[offset + 1] = inscribed[f.id]
    OBVIOUS
  <2>1. x + 1 \in DOMAIN all /\ all[x + 1] = inscribed[f.id]
    BY <1>1, <1>2, <1>10, HeadOnSat DEF OnItsSatIn
  <2>2. PICK n \in Nat : n = Len(all) /\ DOMAIN all = 1 .. n
    BY <1>12
  <2>3. x \in Int /\ p \in Nat /\ m \in Nat /\ x >= p /\ offset = m + x - p /\ x + 1 \in 1 .. n
    BY <1>4, <1>5, <1>10, <1>11, <1>12, <2>1, <2>2
  <2>4. PICK k \in Int : k = x - p + 1
    BY <2>3
  <2>5. k \in 1 .. n - p /\ p + k = x + 1 /\ offset + 1 = m + k
    BY <2>3, <2>4
  <2>6. k \in 1 .. Len(r) /\ r[k] = all[x + 1]
    BY <1>12, <2>2, <2>5
  <2>7. Len(before) + k \in DOMAIN (before \o r) /\ (before \o r)[Len(before) + k] = r[k]
    BY <1>11, <1>12, <2>6, SMTT(30)
  <2> QED  BY <1>9, <1>11, <2>1, <2>5, <2>6, <2>7
<1>15. sats = IF IsNull(NullOutPoint) THEN Passed.lost ELSE Passed.sats[NullOutPoint]
  BY <1>6, <1>13
<1>16. Head(floating).id \in DOMAIN Passed.inscribed =>
          offset + 1 \in DOMAIN sats /\ sats[offset + 1] = Passed.inscribed[Head(floating).id]
  BY <1>1, <1>10, <1>14
<1>17. pc \in {"outputs", "settle"} /\ offset \in Int /\ NullOutPoint \in OutPoint
  BY <1>2, <1>4, <1>6
<1> QED  BY <1>2, <1>6, <1>15, <1>16, <1>17, PlacedInscribed

-----------------------------------------------------------------------------
\* All steps.
LEMMA InscribedNext == Tracking /\ [Next]_vars /\ Working' => InscribedInv'
<1> SUFFICES ASSUME Tracking, [Next]_vars, Working' PROVE InscribedInv'
  OBVIOUS
<1>1. PlacesInv'
  BY TrackingHas, PlacesNext
<1>2. CASE BeginBlock(height + 1)  BY <1>2, BeginInscribed
<1>3. CASE ScanNullInput  BY <1>3, ScanNullInscribed
<1>4. CASE ScanInput  BY <1>4, ScanInscribed
<1>5. CASE SortFloating  BY <1>5, SortInscribed
<1>6. CASE PlaceOnOutput  BY <1>1, <1>6, PlaceInscribed
<1>7. CASE LoseFloating  BY <1>1, <1>7, LoseInscribed
<1>8. CASE SettleFees  BY <1>8, SettleFeesInscribed
<1>9. CASE SettleCoinbase  BY <1>9, SettleCoinbaseInscribed
<1>10. CASE FlushStatus  BY <1>10, FlushStatusInscribed
<1>11. CASE \/ NextOutput \/ WriteOutputValue
            \/ FlushIdInscription \/ FlushInscriptionOutput \/ FlushOutputInscription
  BY <1>11, WalkInscribed
<1>12. CASE Fail
  BY <1>12 DEF Fail, Working
<1>13. CASE UNCHANGED vars
  <2>1. /\ UNCHANGED <<chain, height, floating, flotsam, tx_index, input_index, id_counter, pc, status,
                       unbound_inscriptions, output_inscription, output_inscription_cache,
                       inscription_output, inscription_output_wb>>
    BY <1>13 DEF vars, storeVars, counterVars, batchVars, blockVars, txVars
  <2>2. (InTx' <=> InTx) /\ UnboundSoFar' = UnboundSoFar /\ Located' = Located /\ \A o : At(o)' = At(o)
    BY <2>1 DEF InTx, UnboundSoFar, Located, At, Held
  <2> QED  BY <2>1, <2>2, KeepInscribed DEF Tracking
<1> QED  BY <1>2, <1>3, <1>4, <1>5, <1>6, <1>7, <1>8, <1>9, <1>10, <1>11, <1>12, <1>13
         DEF Next, IndexStep

LEMMA InscribedInit == Init => InscribedInv
<1> SUFFICES ASSUME Init PROVE InscribedInv
  OBVIOUS
<1>1. /\ pc = "idle" /\ ~InTx /\ height = 0 /\ chain \in Chains
      /\ floating = <<>> /\ flotsam = <<>>
  BY DEF Init, InTx
<1>2. LedgerNow = LedgerAtBase(chain)
  <2>1. chain.blocks \in Seq(Block)
    BY <1>1, ChainFacts
  <2>2. Len(chain.blocks) \in Nat
    BY <2>1
  <2> QED  BY <1>1, <2>1, <2>2, LedgerUnfold DEF LedgerNow
<1>3. DOMAIN Described.inscribed = {}
  BY <1>1, <1>2 DEF Described, LedgerAtBase
<1>4. \A o : At(o) = {}
  <2>1. DOMAIN Held = {}
    BY WriteEmpty DEF Init, Held, EmptyDB
  <2> QED  BY <2>1 DEF At, ListAt, Items
<1> QED  BY <1>1, <1>3, <1>4 DEF InscribedInv, FloatsInv, RestInv, CoverInv

\* No list in the store is empty.
LEMMA NotEmptyNext == NotEmptyInv /\ [Next]_vars => NotEmptyInv'
<1> SUFFICES ASSUME NotEmptyInv, [Next]_vars PROVE NotEmptyInv'
  OBVIOUS
<1>1. CASE FlushOutputInscription
  BY <1>1 DEF FlushOutputInscription, NotEmptyInv, ListsAfter, Write, Without
<1>2. CASE ~FlushOutputInscription
  <2>1. output_inscription' = output_inscription
    BY <1>2
    DEF Next, IndexStep, BeginBlock, ScanNullInput, ScanInput, SortFloating, PlaceOnOutput,
        NextOutput, WriteOutputValue, SettleFees, LoseFloating, SettleCoinbase,
        UpdateInscriptionState, FlushIdInscription, FlushInscriptionOutput, FlushStatus, Fail,
        vars, storeVars
  <2> QED  BY <2>1 DEF NotEmptyInv
<1> QED  BY <1>1, <1>2

TrackInv ==
    /\ BlessedInv /\ NotEmptyInv
    /\ SpendsInOrder(chain) /\ Working => LedgerInv /\ InscribedInv

LEMMA TrackInit == Init => TrackInv
<1>1. Init => NotEmptyInv
  BY DEF Init, NotEmptyInv, EmptyDB
<1> QED  BY <1>1, BlessedInit, LedgerInit, InscribedInit DEF TrackInv

LEMMA TrackNext == TrackInv /\ [Next]_vars => TrackInv'
<1> SUFFICES ASSUME TrackInv, [Next]_vars PROVE TrackInv'
  OBVIOUS
<1>1. BlessedInv' /\ NotEmptyInv'
  BY BlessedNext, NotEmptyNext DEF TrackInv
<1>2. ASSUME SpendsInOrder(chain)', Working' PROVE LedgerInv' /\ InscribedInv'
  <2>1. chain' = chain
    BY DEF Next, IndexStep, BeginBlock, ScanNullInput, ScanInput, SortFloating, PlaceOnOutput,
           NextOutput, WriteOutputValue, SettleFees, LoseFloating, SettleCoinbase,
           UpdateInscriptionState, FlushIdInscription, FlushInscriptionOutput,
           FlushOutputInscription, FlushStatus, Fail, vars
  <2>2. SpendsInOrder(chain) /\ Working
    <3>1. Working
      BY <1>2
      DEF Working, Next, IndexStep, BeginBlock, ScanNullInput, ScanInput, SortFloating,
          PlaceOnOutput, NextOutput, WriteOutputValue, SettleFees, LoseFloating, SettleCoinbase,
          FlushIdInscription, FlushInscriptionOutput, FlushOutputInscription, FlushStatus, Fail,
          RpcFails, WriteFails, vars
    <3> QED  BY <1>2, <2>1, <3>1
  <2>3. Tracking
    BY <2>2 DEF TrackInv, Tracking
  <2>4. LedgerInv'
    <3>1. TypeInv /\ AmountsInv /\ LedgerInv
      BY <2>3, TrackingHas DEF Tracking
    <3> QED  BY <1>2, <2>2, <3>1, LedgerNext
  <2>5. InscribedInv'
    BY <1>2, <2>3, InscribedNext
  <2> QED  BY <2>4, <2>5
<1> QED  BY <1>1, <1>2 DEF TrackInv

LEMMA TrackAlways == Spec => []TrackInv
BY TrackInit, TrackNext, PTL DEF Spec

-----------------------------------------------------------------------------
\* Between two blocks: what the stores hold, and the ledger.
LEMMA StoredLists ==
    ASSUME TrackInv, SpendsInOrder(chain), pc = "idle"
    PROVE  /\ Tracking /\ LedgerNow = Ledger(chain)[height] /\ Described = LedgerNow
           /\ UnboundSoFar = status.unbound_inscriptions
           /\ \A o \in DOMAIN output_inscription :
                 /\ output_inscription[o] = ListAt(Held, o) /\ output_inscription[o] # <<>>
                 /\ \A e \in Items(output_inscription[o]) : RestsAt(o, e)
<1>1. Tracking /\ ~InTx
  BY DEF TrackInv, Tracking, Working, InTx
<1>2. ListsInv /\ StoredInv /\ FloatsInv /\ RestInv /\ TypeInv
  BY <1>1, TrackingHas
<1>3. MovingIds = {}
  BY <1>1, <1>2 DEF FloatsInv, MovingIds, OldIds, OldAt
<1>4. ASSUME NEW o \in DOMAIN output_inscription
      PROVE  /\ output_inscription[o] = ListAt(Held, o) /\ output_inscription[o] # <<>>
             /\ \A e \in Items(output_inscription[o]) : RestsAt(o, e)
  <2>1. output_inscription[o] = ListAt(Held, o)
    BY <1>2 DEF StoredInv, ListAt, Held, Write
  <2>2. output_inscription[o] # <<>>
    BY DEF TrackInv, NotEmptyInv
  <2> QED  BY <1>2, <1>3, <2>1, <2>2 DEF RestInv, At
<1> QED  BY <1>1, <1>4 DEF LedgerNow, Described, UnboundSoFar

\* An inscription whose input has sats of its own follows the first of them, for
\* every set of chains: over any number of transfers, through fees, into the lost
\* sats and whatever else shares the transactions.  Assumed is that the chain
\* spends no output before it is created.
THEOREM InscriptionsFollowTheirSats == Spec => [](SpendsInOrder(chain) => FollowsItsSat)
<1>1. TrackInv => (SpendsInOrder(chain) => FollowsItsSat)
  <2> SUFFICES ASSUME TrackInv, SpendsInOrder(chain), pc = "idle",
                      NEW id \in DOMAIN Ledger(chain)[height].inscribed
               PROVE  OnItsSat(Ledger(chain)[height], id, 0)
    BY DEF FollowsItsSat
  <2>1. PICK ledger : ledger = Ledger(chain)[height]
    OBVIOUS
  <2>2. /\ Tracking /\ Described = ledger
        /\ \A o \in DOMAIN output_inscription :
              /\ output_inscription[o] = ListAt(Held, o) /\ output_inscription[o] # <<>>
              /\ \A e \in Items(output_inscription[o]) : RestsAt(o, e)
    BY <2>1, StoredLists
  <2>3. ListsInv /\ StoredInv /\ FloatsInv /\ CoverInv /\ TypeInv
    BY <2>2, TrackingHas
  <2>4. id \in DOMAIN Located
    <3>1. NewIds(floating) = {} /\ NewIds(flotsam) = {}
      BY <2>3 DEF FloatsInv, InTx, NewIds, NewAt
    <3> QED  BY <2>1, <2>2, <2>3, <3>1 DEF CoverInv
  <2>5. PICK o : o = Located[id]
    OBVIOUS
  <2>6. id \in DOMAIN inscription_output /\ inscription_output[id] = o
    BY <2>3, <2>4, <2>5 DEF StoredInv
  <2>7. o \in DOMAIN Held /\ \E e \in Items(Held[o]) : e[1] = id
    BY <2>3, <2>4, <2>5 DEF ListsInv, Agree
  <2>8. o \in DOMAIN output_inscription /\ output_inscription[o] = Held[o]
    <3>1. Held[o] # <<>>
      BY <2>7 DEF Items
    <3> QED  BY <2>3, <2>7, <3>1 DEF StoredInv
  <2>9. PICK list : list = output_inscription[o]
    OBVIOUS
  <2>10. list \in Seq(Entry)
    BY <2>3, <2>8, <2>9 DEF TypeInv, TypeOK, IsStore
  <2>11. OffsetsOf(id) = {list[k][2] : k \in {j \in DOMAIN list : list[j][1] = id}}
    BY <2>6, <2>9 DEF OffsetsOf
  <2>12. OffsetsOf(id) # {}
    BY <2>7, <2>8, <2>9, <2>11 DEF Items
  <2>13. PICK sats : sats = IF IsNull(o) THEN ledger.lost ELSE ledger.sats[o]
    OBVIOUS
  <2>14. ASSUME NEW e \in Items(list), e[1] = id
         PROVE  /\ IsNull(o) \/ o \in DOMAIN ledger.sats
                /\ e[2] + 1 \in DOMAIN sats /\ sats[e[2] + 1] = ledger.inscribed[id]
    BY <2>1, <2>2, <2>8, <2>9, <2>13, <2>14 DEF RestsAt
  <2>15. o \in DOMAIN ledger.sats \cup {NullOutPoint}
    BY <2>7, <2>8, <2>9, <2>14 DEF IsNull
  <2>16. ASSUME NEW offset \in OffsetsOf(id)
         PROVE  offset - 0 + 1 \in DOMAIN sats /\ sats[offset - 0 + 1] = ledger.inscribed[id]
    <3>1. PICK k \in DOMAIN list : list[k][1] = id /\ offset = list[k][2]
      BY <2>11
    <3>2. offset \in Int
      BY <2>10, <3>1 DEF Entry
    <3>3. offset + 1 \in DOMAIN sats /\ sats[offset + 1] = ledger.inscribed[id]
      BY <2>14, <3>1 DEF Items
    <3>4. offset - 0 + 1 = offset + 1
      BY <3>2
    <3> QED  BY <3>3, <3>4
  <2>17. OnItsSat(ledger, id, 0)
    BY <2>6, <2>8, <2>12, <2>13, <2>15, <2>16 DEF OnItsSat, IsNull
  <2> QED  BY <2>1, <2>17
<1> QED  BY <1>1, TrackAlways, PTL

\* Whatever else is inscribed never lands on an output that is already spent, for
\* every set of chains that spend no output before it is created.
THEOREM OnlyUnspentOutputs == Spec => [](SpendsInOrder(chain) => OnUnspentOutputs)
<1>1. TrackInv => (SpendsInOrder(chain) => OnUnspentOutputs)
  <2> SUFFICES ASSUME TrackInv, SpendsInOrder(chain), pc = "idle",
                      NEW o \in DOMAIN output_inscription
               PROVE  o \in DOMAIN Ledger(chain)[height].sats \cup {NullOutPoint}
                            \cup {Unbound(n) : n \in 0 .. status.unbound_inscriptions - 1}
    BY DEF OnUnspentOutputs
  <2>1. /\ Tracking /\ Described = Ledger(chain)[height]
        /\ UnboundSoFar = status.unbound_inscriptions
        /\ output_inscription[o] # <<>>
        /\ \A e \in Items(output_inscription[o]) : RestsAt(o, e)
    BY StoredLists
  <2>2. output_inscription[o] \in Seq(Entry)
    BY <2>1, TrackingHas DEF TypeInv, TypeOK, IsStore
  <2>3. PICK e : e \in Items(output_inscription[o])
    <3>1. PICK list \in Seq(Entry) : list = output_inscription[o] /\ list # <<>>
      BY <2>1, <2>2
    <3>2. 1 \in DOMAIN list
      BY <3>1
    <3> QED  BY <3>1, <3>2 DEF Items
  <2>4. RestsAt(o, e)
    BY <2>1, <2>3
  <2> QED  BY <2>1, <2>4 DEF RestsAt, IsNull
<1> QED  BY <1>1, TrackAlways, PTL

\* The stored values are those of the unspent outputs, and no sat goes missing,
\* for every set of chains that spend no output before it is created.
THEOREM ValuesAreTheLedgers == Spec => [](SpendsInOrder(chain) => ValuesMatchLedger)
<1>1. TrackInv => (SpendsInOrder(chain) => ValuesMatchLedger)
  <2> SUFFICES ASSUME TrackInv, SpendsInOrder(chain), pc = "idle" PROVE ValuesMatchLedger
    BY DEF ValuesMatchLedger
  <2>1. LengthsInv /\ StoreInv /\ ValuesInv /\ LedgerNow = Ledger(chain)[height]
    BY StoredLists, TrackingHas DEF AmountsInv
  <2>2. PICK ledger : ledger = Ledger(chain)[height]
    OBVIOUS
  <2>3. DOMAIN output_value \subseteq DOMAIN ledger.sats /\ DOMAIN ledger.sats \ chain.base \subseteq DOMAIN output_value
    BY <2>1, <2>2 DEF StoreInv
  <2>4. \A o \in DOMAIN output_value : output_value[o] = Len(ledger.sats[o])
    BY <2>1, <2>2, <2>3 DEF LengthsInv, ValuesInv
  <2>5. status.lost_sats = Len(ledger.lost)
    BY <2>1, <2>2 DEF LengthsInv
  <2> QED  BY <2>2, <2>3, <2>4, <2>5 DEF ValuesMatchLedger
<1> QED  BY <1>1, TrackAlways, PTL

-----------------------------------------------------------------------------
\* The process around the updater.

\* The indexer's chain is the node's, as some block index lets it be received.
NodeInv ==
    /\ node_chain \in NodeChains
    /\ \E h \in 0 .. Len(node_chain.blocks) : chain = Received(node_chain, h)

\* The types, with the chains.
OrdiTypeInv == NodeInv /\ chain \in Chains /\ OrdiTypeOK

\* Where the loops of start() stand.  That next_height never passes the block
\* after the last one of the node needs this, and so the types do, too.
LoopsInv ==
    /\ LoopsMeet
    /\ height <= served
    /\ mode \in {"catch_up", "tail"} => pc # "failed"
    /\ mode \in {"closed", "open"} => pc \in {"idle", "failed"}

\* Values are right, in every state a crash may leave, too.
RightValues(values) == \A o \in DOMAIN values : values[o] = chain.value[o]
StoredValuesInv ==
    /\ RightValues(output_value)
    /\ \A kept \in survivors.output_value : RightValues(kept)

OrdiInv == OrdiTypeInv /\ LoopsInv /\ StoredValuesInv

-----------------------------------------------------------------------------
\* Whatever the block index had when it was read, the chain is one of Chains,
\* as long as the node's, with the same outputs before the first block and the
\* same values.
LEMMA ReceivedFacts ==
    ASSUME NodeInv, NEW h \in 0 .. Len(node_chain.blocks)
    PROVE  /\ Received(node_chain, h) \in Chains
           /\ Len(chain.blocks) = Len(Received(node_chain, h).blocks)
           /\ Len(chain.blocks) = Len(node_chain.blocks)
           /\ chain.value = Received(node_chain, h).value
<1>1. /\ Len(node_chain.blocks) \in Nat
      /\ DOMAIN node_chain.blocks = 1 .. Len(node_chain.blocks)
  BY ReceivedAssumption DEF NodeInv
<1>2. ASSUME NEW g \in 0 .. Len(node_chain.blocks)
      PROVE  /\ Received(node_chain, g) \in Chains
             /\ Len(Received(node_chain, g).blocks) = Len(node_chain.blocks)
             /\ Received(node_chain, g).value = Known(node_chain)
  <2>1. Received(node_chain, g) \in Chains
    BY ReceivedAssumption DEF NodeInv
  <2>2. DOMAIN Received(node_chain, g).blocks = 1 .. Len(node_chain.blocks)
    BY <1>1 DEF Received
  <2>3. Received(node_chain, g).blocks \in Seq(Block)
    BY <2>1, ChainAssumption DEF WellFormed
  <2>4. Len(Received(node_chain, g).blocks) \in Nat
        /\ DOMAIN Received(node_chain, g).blocks = 1 .. Len(Received(node_chain, g).blocks)
    BY <2>3
  <2>5. Len(Received(node_chain, g).blocks) = Len(node_chain.blocks)
    BY <1>1, <2>2, <2>4
  <2> QED  BY <2>1, <2>5 DEF Received
<1> QED  BY <1>2 DEF NodeInv

\* What an indexing step does to the block and to pc.
LEMMA StepFrame ==
    ASSUME IndexStep
    PROVE  /\ UNCHANGED <<chain, height>>
           /\ pc \notin {"idle", "failed"} /\ pc' # "failed"
           /\ pc' = "idle" <=> pc = "flush_status"
<1>1. CASE ScanNullInput
  BY <1>1 DEF ScanNullInput, blockVars
<1>2. CASE ScanInput
  BY <1>2 DEF ScanInput, blockVars
<1>3. CASE SortFloating
  BY <1>3 DEF SortFloating
<1>4. CASE PlaceOnOutput
  BY <1>4 DEF PlaceOnOutput, UpdateInscriptionState, blockVars
<1>5. CASE NextOutput
  BY <1>5 DEF NextOutput, blockVars
<1>6. CASE WriteOutputValue
  BY <1>6 DEF WriteOutputValue, blockVars
<1>7. CASE SettleFees
  BY <1>7 DEF SettleFees, FinishTx
<1>8. CASE LoseFloating
  BY <1>8 DEF LoseFloating, UpdateInscriptionState, blockVars
<1>9. CASE SettleCoinbase
  BY <1>9 DEF SettleCoinbase, FinishTx
<1>10. CASE FlushIdInscription
  BY <1>10 DEF FlushIdInscription, blockVars
<1>11. CASE FlushInscriptionOutput
  BY <1>11 DEF FlushInscriptionOutput, blockVars
<1>12. CASE FlushOutputInscription
  BY <1>12 DEF FlushOutputInscription, blockVars
<1>13. CASE FlushStatus
  BY <1>13 DEF FlushStatus
<1> QED
  BY <1>1, <1>2, <1>3, <1>4, <1>5, <1>6, <1>7, <1>8, <1>9, <1>10, <1>11, <1>12, <1>13
  DEF IndexStep

\* What the types say of the stores on disk.
LEMMA OnDiskType ==
    ASSUME TypeOK
    PROVE  /\ status \in [unbound_inscriptions : Nat, next_id_number : Nat,
                          next_cursed_id_number : Int, lost_sats : Int, indexed_height : Nat]
           /\ IsStore(cursed_id, Id, Int)
           /\ IsStore(output_value, OutPoint, Nat)
           /\ IsStore(id_inscription, Int, Id)
           /\ IsStore(inscription_output, Id, Location)
BY DEF TypeOK

\* An indexing step adds well-typed stores to those that may survive.
LEMMA RecordType ==
    ASSUME SurvivorsOK, TypeOK', Record
    PROVE  SurvivorsOK'
<1>1. survivors' = [s \in DOMAIN survivors |-> survivors[s] \cup {OnDisk'[s]}]
  BY DEF Record
<1>2. /\ OnDisk'.status = <<status', cursed_id'>>
      /\ OnDisk'.output_value = output_value'
      /\ OnDisk'.id_inscription = id_inscription'
      /\ OnDisk'.inscription_output = inscription_output'
  BY DEF OnDisk
<1>3. /\ status' \in [unbound_inscriptions : Nat, next_id_number : Nat,
                      next_cursed_id_number : Int, lost_sats : Int, indexed_height : Nat]
      /\ IsStore(cursed_id', Id, Int)
      /\ IsStore(output_value', OutPoint, Nat)
      /\ IsStore(id_inscription', Int, Id)
      /\ IsStore(inscription_output', Id, Location)
  BY DEF TypeOK
<1>4. /\ survivors'.status = survivors.status \cup {<<status', cursed_id'>>}
      /\ survivors'.output_value = survivors.output_value \cup {output_value'}
      /\ survivors'.id_inscription = survivors.id_inscription \cup {id_inscription'}
      /\ survivors'.inscription_output = survivors.inscription_output \cup {inscription_output'}
  BY <1>1, <1>2 DEF SurvivorsOK
<1> QED  BY <1>1, <1>3, <1>4 DEF SurvivorsOK

-----------------------------------------------------------------------------
\* Opening, and the end of a process, keep the types: the updater is dropped,
\* and the stores are among those that may survive.
LEMMA DroppedType ==
    ASSUME TypeOK, chain \in Chains, DropUpdater, UNCHANGED <<chain, height, reported>>,
           pc' = "failed", UNCHANGED output_inscription \/ output_inscription' = EmptyDB,
           status' \in [unbound_inscriptions : Nat, next_id_number : Nat,
                        next_cursed_id_number : Int, lost_sats : Int, indexed_height : Nat],
           IsStore(cursed_id', Id, Int), IsStore(output_value', OutPoint, Nat),
           IsStore(id_inscription', Int, Id), IsStore(inscription_output', Id, Location)
    PROVE  TypeOK'
<1>1. /\ IsStore(output_inscription', Location, Seq(Entry))
      /\ IsStore(output_inscription_cache', Location, Seq(Entry))
      /\ IsStore(id_inscription_wb', Int, Id) /\ IsStore(inscription_output_wb', Id, Location)
  BY EmptyDBIsStore DEF DropUpdater, TypeOK
<1>2. /\ flotsam' \in Seq(Flotsam) /\ floating' \in Seq(Flotsam)
      /\ reward' \in Int /\ lost_sats' \in Int /\ unbound_inscriptions' \in Nat
      /\ next_number' \in Nat /\ next_cursed_number' \in Int
      /\ tx_index' \in Nat /\ input_index' \in Nat /\ vout' \in Nat /\ id_counter' \in Nat
      /\ input_value' \in Int /\ placed_value' \in Int
  BY DEF DropUpdater
<1>3. height' \in 0 .. Len(chain'.blocks) /\ IsStore(reported', Id, OutPoint)
  BY DEF TypeOK
<1> QED  BY <1>1, <1>2, <1>3 DEF TypeOK

LEMMA OrdiInitType == OrdiInit => OrdiTypeInv
<1> SUFFICES ASSUME OrdiInit PROVE OrdiTypeInv
  OBVIOUS
<1>1. TypeInv /\ NodeInv /\ Len(chain.blocks) = Len(node_chain.blocks)
  <2>1. 0 \in 0 .. Len(node_chain.blocks)
    BY ReceivedAssumption DEF OrdiInit
  <2> QED  BY <2>1, InitType, ReceivedFacts DEF OrdiInit, NodeInv
<1>2. chain.blocks \in Seq(Block)
  BY <1>1, ChainFacts DEF TypeInv
<1>3. SurvivorsOK
  <2>1. survivors = [s \in {"status", "output_value", "id_inscription", "inscription_output"} |->
                        {OnDisk[s]}]
    BY DEF OrdiInit, OnDisk
  <2> QED  BY <1>1, <2>1, OnDiskType DEF SurvivorsOK, OnDisk, TypeInv
<1> QED
  BY <1>1, <1>2, <1>3 DEF OrdiInit, OrdiTypeInv, OrdiTypeOK, TypeInv

\* Steps of the process that leave the updater and the stores alone.
LEMMA QuietType ==
    ASSUME OrdiTypeInv, UNCHANGED vars, UNCHANGED survivors
    PROVE  TypeInv' /\ SurvivorsOK' /\ chain' = chain
<1>1. TypeInv'
  BY NextType DEF OrdiTypeInv, OrdiTypeOK, TypeInv
<1> QED  BY <1>1 DEF OrdiTypeInv, OrdiTypeOK, SurvivorsOK, vars

\* Every step of the process keeps the types: one step of the proof per action.
LEMMA OrdiNextType == OrdiTypeInv /\ LoopsInv /\ [OrdiNext]_ordiVars => OrdiTypeInv'
<1> SUFFICES ASSUME OrdiTypeInv, LoopsInv, [OrdiNext]_ordiVars PROVE OrdiTypeInv'
  OBVIOUS
<1> USE DEF OrdiTypeInv, OrdiTypeOK, processVars
<1>0. /\ TypeInv
      /\ Len(chain.blocks) \in Nat /\ DOMAIN chain.blocks = 1 .. Len(chain.blocks)
      /\ Len(chain.blocks) = Len(node_chain.blocks)
  <2>1. TypeInv /\ Len(chain.blocks) \in Nat /\ DOMAIN chain.blocks = 1 .. Len(chain.blocks)
    BY ChainFacts DEF TypeInv
  <2>2. 0 \in 0 .. Len(node_chain.blocks)
    BY ReceivedAssumption DEF NodeInv
  <2> QED  BY <2>1, <2>2, ReceivedFacts
<1>n. UNCHANGED <<chain, node_chain>> => NodeInv'
  BY DEF NodeInv
<1>1. CASE Mine
  BY <1>0, <1>n, <1>1, QuietType DEF Mine, TypeInv
<1>2. CASE Open
  <2>0. /\ max_height' \in 0 .. Len(node_chain.blocks) /\ chain' = Received(node_chain, max_height')
        /\ chain' \in Chains /\ Len(chain'.blocks) = Len(chain.blocks)
    BY <1>0, <1>2, ReceivedFacts DEF Open
  <2>1. TypeOK'
    BY <1>0, <1>2, <2>0, EmptyDBIsStore
    DEF Open, ListsOpened, TypeOK, LoopsInv, counterVars, batchVars, blockVars, txVars
  <2>2. SurvivorsOK'
    <3>1. survivors' = [s \in {"status", "output_value", "id_inscription",
                               "inscription_output"} |-> {OnDisk[s]}]
      BY <1>2 DEF Open, OnDisk
    <3> QED  BY <3>1, OnDiskType DEF SurvivorsOK, OnDisk
  <2>3. NodeInv'
    BY <1>2, <2>0 DEF Open, NodeInv
  <2> QED  BY <1>2, <2>0, <2>1, <2>2, <2>3 DEF Open
<1>r. ASSUME NEW outpoints \in SUBSET chain.base
      PROVE  IsStore(Refilled(outpoints), OutPoint, Nat)
  <2>1. \A o \in outpoints : o \in OutPoint /\ chain.value[o] \in Nat
    BY ChainFacts
  <2>2. IsStore([o \in outpoints |-> chain.value[o]], OutPoint, Nat)
    BY <2>1 DEF IsStore
  <2> QED  BY <2>2, OnDiskType, WriteIsStore DEF Refilled
<1>3. CASE IndexOutputValue
  <2>2. TypeOK'
    BY <1>3, <1>r DEF IndexOutputValue, TypeOK, counterVars, batchVars, blockVars, txVars
  <2>3. SurvivorsOK'
    BY <1>3, <1>r DEF IndexOutputValue, SurvivorsOK
  <2> QED  BY <1>n, <1>3, <2>2, <2>3 DEF IndexOutputValue
<1>4. CASE Start
  <2>1. TypeOK'
    BY <1>0, <1>4
    DEF Start, FirstHeight, TypeOK, storeVars, counterVars, batchVars, txVars
  <2> QED  BY <1>n, <1>4, <2>1 DEF Start, SurvivorsOK
<1>5. ASSUME BlockToIndex(height + 1) PROVE OrdiTypeInv'
  <2>1. TypeInv'
    BY <1>0, <1>5, NextType DEF BlockToIndex, Next
  <2>2. height' = height + 1 /\ height + 1 \in 1 .. Len(chain.blocks) /\ chain' = chain
    BY <1>0, <1>5 DEF BlockToIndex, BeginBlock, Served
  <2> QED  BY <1>0, <1>n, <1>5, <2>1, <2>2 DEF BlockToIndex, TypeInv, SurvivorsOK
<1>6. CASE CaughtUp
  BY <1>n, <1>6, QuietType DEF CaughtUp, TypeInv
<1>7. CASE CatchUp \/ Follow
  <2>1. CASE CatchUp
    BY <1>5, <2>1 DEF CatchUp
  <2>2. CASE Follow
    BY <1>5, <2>2 DEF Follow, BlockToIndex, BeginBlock, LoopsInv, LoopsMeet
  <2> QED  BY <1>7, <2>1, <2>2
<1>8. CASE Step
  <2>1. TypeInv'
    BY <1>0, <1>8, NextType DEF Step, Next
  <2>2. SurvivorsOK'
    BY <1>8, <2>1, RecordType DEF Step, TypeInv
  <2>3. chain' = chain
    BY <1>8, StepFrame DEF Step
  <2>4. next_height' \in 0 .. served + 1
    BY <1>0, <1>8 DEF Step, HeightDone, LoopsInv, LoopsMeet
  <2> QED  BY <1>n, <1>8, <2>1, <2>2, <2>3, <2>4 DEF Step, TypeInv
<1>9. CASE StepFails
  <2>1. TypeInv' /\ chain' = chain
    BY <1>0, <1>9, NextType DEF StepFails, Next, Fail
  <2>2. SurvivorsOK'
    BY <1>9 DEF StepFails, SurvivorsOK
  <2> QED  BY <1>n, <1>9, <2>1, <2>2 DEF StepFails, Returned, Ended, Stopped, TypeInv
<1>10. CASE FetchFails
  BY <1>n, <1>10, QuietType DEF FetchFails, Returned, Ended, Stopped, TypeInv
<1>11. CASE Crash
  <2>1. TypeOK'
    BY <1>11, DroppedType DEF Crash, SurvivorsOK
  <2>2. SurvivorsOK'
    BY <1>11 DEF Crash, SurvivorsOK
  <2> QED  BY <1>n, <1>11, <2>1, <2>2 DEF Crash, Ended, Stopped
<1>12. CASE UNCHANGED ordiVars
  BY <1>n, <1>12, QuietType DEF ordiVars, TypeInv
<1>13. CASE IndexOutputValueFails
  <2>1. PICK outpoints \in SUBSET chain.base :
            /\ output_value' = Refilled(outpoints)
            /\ survivors' = [survivors EXCEPT !.output_value =
                                @ \cup {Refilled(written) : written \in SUBSET outpoints}]
    BY <1>13 DEF IndexOutputValueFails
  <2>2. TypeOK'
    BY <1>13, <1>r, <2>1
    DEF IndexOutputValueFails, TypeOK, counterVars, batchVars, blockVars, txVars
  <2>3. SurvivorsOK'
    BY <1>13, <1>r, <2>1 DEF IndexOutputValueFails, SurvivorsOK
  <2> QED  BY <1>n, <1>13, <2>2, <2>3 DEF IndexOutputValueFails, Stopped
<1> QED
  BY <1>1, <1>2, <1>3, <1>4, <1>6, <1>7, <1>8, <1>9, <1>10, <1>11, <1>12, <1>13 DEF OrdiNext

-----------------------------------------------------------------------------
\* Every step keeps the loops in order.
LEMMA OrdiNextLoops == OrdiTypeInv /\ LoopsInv /\ [OrdiNext]_ordiVars => LoopsInv'
<1> SUFFICES ASSUME OrdiTypeInv, LoopsInv, [OrdiNext]_ordiVars PROVE LoopsInv'
  OBVIOUS
<1>0. /\ height \in Nat /\ served \in Nat /\ max_height \in 0 .. served /\ next_height \in Nat
  BY ChainFacts DEF OrdiTypeInv, OrdiTypeOK, TypeOK
<1> USE DEF LoopsInv, LoopsMeet, processVars
<1>1. CASE Mine
  BY <1>0, <1>1 DEF Mine, vars, blockVars
<1>2. CASE Open
  BY <1>0, <1>2 DEF Open, blockVars
<1>3. CASE IndexOutputValue
  BY <1>0, <1>3 DEF IndexOutputValue, blockVars
<1>4. CASE Start
  BY <1>0, <1>4 DEF Start, FirstHeight
<1>5. CASE CatchUp
  <2>1. height + 1 < next_height /\ next_height <= served + 1
    BY <1>0, <1>5 DEF CatchUp, CatchUpLeft, OrdiTypeInv, OrdiTypeOK
  <2> QED  BY <1>0, <1>5, <2>1 DEF CatchUp, BlockToIndex, BeginBlock
<1>6. CASE CaughtUp
  BY <1>0, <1>6 DEF CaughtUp, CatchUpLeft, vars, blockVars
<1>7. CASE Follow
  BY <1>0, <1>7 DEF Follow, TailLeft, BlockToIndex, BeginBlock
<1>8. CASE Step
  <2>1. /\ height' = height /\ pc \notin {"idle", "failed"} /\ pc' # "failed"
        /\ pc' = "idle" <=> pc = "flush_status"
    BY <1>8, StepFrame DEF Step
  <2> QED  BY <1>0, <1>8, <2>1 DEF Step, HeightDone
<1>9. CASE StepFails
  BY <1>0, <1>9 DEF StepFails, Fail, Returned, Ended, Stopped
<1>10. CASE FetchFails
  BY <1>0, <1>10 DEF FetchFails, Returned, Ended, Stopped, vars, blockVars
<1>11. CASE Crash
  BY <1>0, <1>11 DEF Crash, Ended, Stopped
<1>12. CASE UNCHANGED ordiVars
  BY <1>12 DEF ordiVars, vars, blockVars
<1>13. CASE IndexOutputValueFails
  BY <1>0, <1>13 DEF IndexOutputValueFails, Stopped, blockVars
<1> QED
  BY <1>1, <1>2, <1>3, <1>4, <1>5, <1>6, <1>7, <1>8, <1>9, <1>10, <1>11, <1>12, <1>13
  DEF OrdiNext

-----------------------------------------------------------------------------
\* Writes and deletions of right values leave right values.
LEMMA RightWrite ==
    ASSUME NEW values, NEW batch, RightValues(values), RightValues(batch), NEW keys
    PROVE  RightValues(Write(values, batch)) /\ RightValues(Without(values, keys))
BY DEF RightValues, Write, Without

\* The batch of a transaction holds right values: the transaction index of the
\* node agrees with the blocks.
LEMMA RightBatch ==
    ASSUME TypeInv, pc = "outputs"
    PROVE  RightValues([o \in Created(Tx) |-> Tx.outputs[o[2] + 1]])
<1>1. SUFFICES ASSUME NEW o \in Created(Tx)
               PROVE  Tx.outputs[o[2] + 1] = chain.value[o]
  BY DEF RightValues
<1>2. PICK v \in 0 .. Len(Tx.outputs) - 1 : o = <<Tx.txid, v>>
  BY DEF Created
<1>3. v + 1 \in DOMAIN Tx.outputs /\ o[2] = v /\ v = (v + 1) - 1
  BY <1>2, TxFacts
<1>4. Tx \in Transactions(chain)
  BY TxFacts, TxInOrderType DEF Tx, TypeInv
<1>5. \A w \in DOMAIN Tx.outputs : chain.value[<<Tx.txid, w - 1>>] = Tx.outputs[w]
  BY <1>4, ChainAssumption DEF WellFormed, TypeInv
<1> QED  BY <1>2, <1>3, <1>5

\* Of the indexing steps only one writes output values.
LEMMA StepValues ==
    ASSUME TypeInv, RightValues(output_value), IndexStep
    PROVE  RightValues(output_value)'
<1>1. UNCHANGED chain
  BY StepFrame
<1>2. CASE WriteOutputValue
  <2>1. output_value' = ValuesAfter(Tx)
    BY <1>2 DEF WriteOutputValue
  <2>2. RightValues(ValuesAfter(Tx))
    BY <1>2, RightBatch, RightWrite DEF WriteOutputValue, ValuesAfter
  <2> QED  BY <1>1, <2>1, <2>2 DEF RightValues
<1>3. CASE ~ WriteOutputValue
  <2>1. UNCHANGED output_value
    BY <1>3 DEF IndexStep, ScanNullInput, ScanInput, SortFloating, PlaceOnOutput,
                LoseFloating, UpdateInscriptionState, NextOutput, SettleFees, SettleCoinbase,
                FlushIdInscription, FlushInscriptionOutput, FlushOutputInscription,
                FlushStatus, storeVars
  <2> QED  BY <1>1, <2>1 DEF RightValues
<1> QED  BY <1>2, <1>3

\* Every step keeps the values right: a crash leaves a store that was right
\* before, whatever it takes away.
LEMMA OrdiNextValues ==
    OrdiTypeInv /\ StoredValuesInv /\ [OrdiNext]_ordiVars => StoredValuesInv'
<1> SUFFICES ASSUME OrdiTypeInv, StoredValuesInv, [OrdiNext]_ordiVars PROVE StoredValuesInv'
  OBVIOUS
<1>0. TypeInv
  BY DEF OrdiTypeInv, OrdiTypeOK, TypeInv
<1>1. CASE UNCHANGED <<chain, output_value, survivors>>
  BY <1>1 DEF StoredValuesInv, RightValues
<1>2. CASE Open
  <2>1. survivors'.output_value = {output_value} /\ UNCHANGED output_value
    BY <1>2 DEF Open, OnDisk
  <2>2. max_height' \in 0 .. Len(node_chain.blocks) /\ chain' = Received(node_chain, max_height')
    BY <1>2, ReceivedAssumption DEF Open, OrdiTypeInv, OrdiTypeOK, NodeInv
  <2>3. chain'.value = chain.value
    BY <2>2, ReceivedFacts DEF OrdiTypeInv
  <2> QED  BY <2>1, <2>3 DEF StoredValuesInv, RightValues
<1>r. ASSUME NEW outpoints PROVE RightValues(Refilled(outpoints))
  <2>1. RightValues([o \in outpoints |-> chain.value[o]])
    BY DEF RightValues
  <2> QED  BY <2>1, RightWrite DEF Refilled, StoredValuesInv
<1>3. CASE IndexOutputValue
  <2>2. /\ UNCHANGED chain /\ output_value' = Refilled(chain.base)
        /\ survivors'.output_value = survivors.output_value
                                         \cup {Refilled(outpoints) : outpoints \in SUBSET chain.base}
    BY <1>3 DEF IndexOutputValue, OrdiTypeInv, OrdiTypeOK, SurvivorsOK
  <2> QED  BY <1>r, <2>2 DEF StoredValuesInv, RightValues
<1>4. CASE Step
  <2>1. RightValues(output_value)' /\ UNCHANGED chain
    BY <1>0, <1>4, StepValues, StepFrame DEF Step, StoredValuesInv
  <2>2. survivors'.output_value = survivors.output_value \cup {output_value'}
    BY <1>4 DEF Step, Record, OnDisk, OrdiTypeInv, OrdiTypeOK, SurvivorsOK
  <2> QED  BY <2>1, <2>2 DEF StoredValuesInv, RightValues
<1>5. CASE Crash
  BY <1>5 DEF Crash, StoredValuesInv, RightValues
<1>6. CASE Mine \/ Start \/ CaughtUp \/ CatchUp \/ Follow \/ StepFails \/ FetchFails
           \/ UNCHANGED ordiVars
  BY <1>1, <1>6
  DEF Mine, Start, CaughtUp, CatchUp, Follow, BlockToIndex, BeginBlock, StepFails, Fail,
      FetchFails, ordiVars, vars, storeVars
<1>7. CASE IndexOutputValueFails
  <2>1. PICK outpoints \in SUBSET chain.base :
            /\ output_value' = Refilled(outpoints)
            /\ survivors' = [survivors EXCEPT !.output_value =
                                @ \cup {Refilled(written) : written \in SUBSET outpoints}]
    BY <1>7 DEF IndexOutputValueFails
  <2>2. /\ UNCHANGED chain
        /\ survivors'.output_value = survivors.output_value
                                         \cup {Refilled(written) : written \in SUBSET outpoints}
    BY <1>7, <2>1 DEF IndexOutputValueFails, OrdiTypeInv, OrdiTypeOK, SurvivorsOK
  <2> QED  BY <1>r, <2>1, <2>2 DEF StoredValuesInv, RightValues
<1> QED  BY <1>2, <1>3, <1>4, <1>5, <1>6, <1>7 DEF OrdiNext

-----------------------------------------------------------------------------
LEMMA OrdiInitInv == OrdiInit => OrdiInv
<1> SUFFICES ASSUME OrdiInit PROVE OrdiInv
  OBVIOUS
<1>1. OrdiTypeInv
  BY OrdiInitType
<1>2. LoopsInv
  BY DEF OrdiInit, Init, LoopsInv, LoopsMeet
<1>3. RightValues(output_value)
  BY DEF OrdiInit, Init, RightValues, EmptyDB
<1>4. survivors.output_value = {output_value}
  BY DEF OrdiInit, OnDisk
<1> QED  BY <1>1, <1>2, <1>3, <1>4 DEF OrdiInv, StoredValuesInv

LEMMA OrdiInvariant == OrdiSpec => []OrdiInv
<1>1. OrdiInit => OrdiInv  BY OrdiInitInv
<1>2. OrdiInv /\ [OrdiNext]_ordiVars => OrdiInv'
  BY OrdiNextType, OrdiNextLoops, OrdiNextValues DEF OrdiInv
<1> QED  BY <1>1, <1>2, PTL DEF OrdiSpec

\* Every variable keeps its type over any number of errors, crashes and
\* restarts, and next_height stays at most one ahead of the node.
THEOREM OrdiTypeCorrect == OrdiSpec => []OrdiTypeOK
<1>1. OrdiInv => OrdiTypeOK  BY DEF OrdiInv, OrdiTypeInv
<1> QED  BY <1>1, OrdiInvariant, PTL

\* The two loops of start() meet without a gap or an overlap, whatever the block
\* index had when it was read.
THEOREM LoopsAlwaysMeet == OrdiSpec => []LoopsMeet
<1>1. OrdiInv => LoopsMeet  BY DEF OrdiInv, LoopsInv
<1> QED  BY <1>1, OrdiInvariant, PTL

\* A stored output value is right at any time, whatever crashes leave of the
\* writes to the store.
THEOREM ValuesAlwaysRight == OrdiSpec => []ValuesRight
<1>1. OrdiInv => ValuesRight  BY DEF OrdiInv, StoredValuesInv, RightValues, ValuesRight
<1> QED  BY <1>1, OrdiInvariant, PTL

-----------------------------------------------------------------------------
\* What a process recovers of the output values.  The ledger here is that of
\* the node's own chain, whose transactions all have their txids.

\* The ledger in front of the i-th transaction of block h, and behind it.
LedgerAt(c, h, i) == WithinBlock(Ledger(c)[h - 1], c.blocks[h])[i - 1]
LedgerBehind(c, h, i) ==
    IF i < Len(c.blocks[h]) THEN LedgerAt(c, h, i + 1) ELSE Ledger(c)[h]

\* The transactions of the first h blocks create outpoint o.
MadeIn(c, o, g, j) ==
    /\ g \in DOMAIN c.blocks /\ j \in 1 .. Len(c.blocks[g])
    /\ o \in Created(TxInOrder(c.blocks[g], j))
MadeBy(c, o, h) == \E g, j : g <= h /\ MadeIn(c, o, g, j)

\* A transaction replaces the outputs it spends by those it creates, whatever
\* its inputs hold.
LEMMA PassDomain ==
    ASSUME NEW ledger, NEW tx, NEW h
    PROVE  /\ DOMAIN PassTx(ledger, tx).sats = (DOMAIN ledger.sats \ Spent(tx)) \cup Created(tx)
           /\ DOMAIN PassCoinbase(ledger, tx, h).sats
                 = (DOMAIN ledger.sats \ Spent(tx)) \cup Created(tx)
<1>1. ASSUME NEW all, NEW fees, NEW lost
      PROVE  DOMAIN Pass(ledger, tx, all, fees, lost).sats
                = (DOMAIN ledger.sats \ Spent(tx)) \cup Created(tx)
  BY DEF Pass
<1> QED  BY <1>1 DEF PassTx, PassCoinbase

LEMMA WalkedDomain ==
    ASSUME NEW c, Len(c.blocks) \in Nat, NEW h \in 1 .. Len(c.blocks),
           Len(c.blocks[h]) \in Nat \ {0}, NEW i \in 1 .. Len(c.blocks[h])
    PROVE  LET tx == TxInOrder(c.blocks[h], i)
           IN  DOMAIN LedgerBehind(c, h, i).sats
                  = (DOMAIN LedgerAt(c, h, i).sats \ Spent(tx)) \cup Created(tx)
<1>1. PICK b, l, n, w : /\ b = c.blocks[h] /\ l = Ledger(c)[h - 1] /\ n = Len(b)
                        /\ w = WithinBlock(l, b)
  OBVIOUS
<1>2. n \in Nat \ {0} /\ i \in 1 .. n /\ \A k \in 1 .. n - 1 : w[k] = PassTx(w[k - 1], b[k + 1])
  <2>1. Len(b) \in Nat \ {0}
    BY <1>1
  <2>2. \A k \in 1 .. Len(b) - 1 :
           WithinBlock(l, b)[k] = PassTx(WithinBlock(l, b)[k - 1], b[k + 1])
    BY <2>1, WithinUnfold
  <2> QED  BY <1>1, <2>1, <2>2
<1>3. LedgerAt(c, h, i) = w[i - 1] /\ TxInOrder(c.blocks[h], i) = IF i < n THEN b[i + 1] ELSE b[1]
  BY <1>1 DEF LedgerAt, TxInOrder
<1>4. CASE i < n
  <2>1. i \in 1 .. n - 1 /\ (i + 1) - 1 = i
    BY <1>2, <1>4
  <2>2. LedgerBehind(c, h, i) = w[i]
    BY <1>1, <1>4, <2>1 DEF LedgerBehind, LedgerAt
  <2>3. w[i] = PassTx(w[i - 1], b[i + 1])
    BY <1>2, <2>1
  <2>4. DOMAIN PassTx(w[i - 1], b[i + 1]).sats
            = (DOMAIN w[i - 1].sats \ Spent(b[i + 1])) \cup Created(b[i + 1])
    BY PassDomain
  <2> QED  BY <1>3, <1>4, <2>2, <2>3, <2>4
<1>5. CASE i = n
  <2>1. LedgerBehind(c, h, i) = Ledger(c)[h]
    BY <1>1, <1>2, <1>5 DEF LedgerBehind
  <2>2. Ledger(c)[h] = PassBlock(l, b, h)
    BY <1>1, LedgerUnfold
  <2>3. PassBlock(l, b, h) = PassCoinbase(w[n - 1], b[1], h)
    BY <1>1 DEF PassBlock
  <2>4. DOMAIN PassCoinbase(w[n - 1], b[1], h).sats
            = (DOMAIN w[n - 1].sats \ Spent(b[1])) \cup Created(b[1])
    BY PassDomain
  <2> QED  BY <1>2, <1>3, <1>5, <2>1, <2>2, <2>3, <2>4
<1> QED  BY <1>2, <1>4, <1>5

LEMMA LedgerAtFirst ==
    ASSUME NEW c, NEW h, Len(c.blocks[h]) \in Nat \ {0}
    PROVE  LedgerAt(c, h, 1) = Ledger(c)[h - 1]
<1>1. WithinBlock(Ledger(c)[h - 1], c.blocks[h])[0] = Ledger(c)[h - 1]
  BY WithinUnfold
<1> QED  BY <1>1 DEF LedgerAt

\* What is unspent in front of a transaction was so before the block or is
\* created in it.
LEMMA WithinMade ==
    ASSUME NEW c, Len(c.blocks) \in Nat, DOMAIN c.blocks = 1 .. Len(c.blocks),
           NEW h \in 1 .. Len(c.blocks), Len(c.blocks[h]) \in Nat \ {0},
           \A o \in DOMAIN Ledger(c)[h - 1].sats : o \in c.base \/ MadeBy(c, o, h - 1)
    PROVE  /\ \A i \in 1 .. Len(c.blocks[h]) : \A o \in DOMAIN LedgerAt(c, h, i).sats :
                  o \in c.base \/ MadeBy(c, o, h)
           /\ \A o \in DOMAIN Ledger(c)[h].sats : o \in c.base \/ MadeBy(c, o, h)
<1> DEFINE n == Len(c.blocks[h])
           Fine(sats) == \A o \in DOMAIN sats : o \in c.base \/ MadeBy(c, o, h)
           T == {i \in 1 .. n : ~Fine(LedgerAt(c, h, i).sats)}
<1>1. ASSUME NEW i \in 1 .. n, Fine(LedgerAt(c, h, i).sats)
      PROVE  Fine(LedgerBehind(c, h, i).sats)
  <2>1. PICK tx : tx = TxInOrder(c.blocks[h], i)
    OBVIOUS
  <2>2. DOMAIN LedgerBehind(c, h, i).sats
            = (DOMAIN LedgerAt(c, h, i).sats \ Spent(tx)) \cup Created(tx)
    BY <2>1, WalkedDomain
  <2>3. \A o \in Created(tx) : MadeBy(c, o, h)
    BY <2>1 DEF MadeBy, MadeIn
  <2> QED  BY <1>1, <2>2, <2>3
<1>2. T = {}
  <2>1. SUFFICES ASSUME T # {} PROVE FALSE
    OBVIOUS
  <2>2. PICK i \in T : \A k \in T : i <= k
    <3>1. T \in SUBSET Nat
      OBVIOUS
    <3> HIDE DEF T
    <3> QED  BY <2>1, <3>1, LeastNat
  <2>3. i # 1
    <3>1. \A o : MadeBy(c, o, h - 1) => MadeBy(c, o, h)
      BY DEF MadeBy, MadeIn
    <3>2. LedgerAt(c, h, 1) = Ledger(c)[h - 1]
      BY LedgerAtFirst
    <3> QED  BY <2>2, <3>1, <3>2
  <2>4. i - 1 \in 1 .. n /\ i - 1 \notin T /\ i - 1 < n /\ (i - 1) + 1 = i
    BY <2>2, <2>3
  <2>5. Fine(LedgerBehind(c, h, i - 1).sats)
    BY <1>1, <2>4
  <2>6. LedgerBehind(c, h, i - 1) = LedgerAt(c, h, i)
    BY <2>4 DEF LedgerBehind
  <2> QED  BY <2>2, <2>5, <2>6
<1>3. Fine(Ledger(c)[h].sats)
  <2>1. n \in 1 .. n /\ n \notin T
    BY <1>2
  <2>2. LedgerBehind(c, h, n) = Ledger(c)[h]
    BY DEF LedgerBehind
  <2> QED  BY <1>1, <2>1, <2>2
<1> QED  BY <1>2, <1>3

\* An unspent output is an old one, or the blocks so far have created it.
LEMMA LedgerMade ==
    ASSUME NEW c, Len(c.blocks) \in Nat, DOMAIN c.blocks = 1 .. Len(c.blocks),
           \A g \in 1 .. Len(c.blocks) : Len(c.blocks[g]) \in Nat \ {0}
    PROVE  \A h \in 0 .. Len(c.blocks) : \A o \in DOMAIN Ledger(c)[h].sats :
              o \in c.base \/ MadeBy(c, o, h)
<1> DEFINE Fine(h) == \A o \in DOMAIN Ledger(c)[h].sats : o \in c.base \/ MadeBy(c, o, h)
           T == {h \in 0 .. Len(c.blocks) : ~Fine(h)}
<1>1. SUFFICES ASSUME T # {} PROVE FALSE
  OBVIOUS
<1>2. PICK h \in T : \A k \in T : h <= k
  <2>1. T \in SUBSET Nat
    OBVIOUS
  <2> HIDE DEF T
  <2> QED  BY <1>1, <2>1, LeastNat
<1>3. Fine(0)
  <2>1. Ledger(c)[0] = LedgerAtBase(c)
    BY LedgerUnfold
  <2>2. DOMAIN LedgerAtBase(c).sats = c.base
    BY DEF LedgerAtBase
  <2> QED  BY <2>1, <2>2
<1>4. h \in 1 .. Len(c.blocks) /\ h - 1 \in 0 .. Len(c.blocks) /\ h - 1 \notin T
  BY <1>2, <1>3
<1>5. Fine(h - 1)
  BY <1>4
<1>6. Fine(h)
  BY <1>4, <1>5, WithinMade
<1> QED  BY <1>2, <1>6

-----------------------------------------------------------------------------
\* The node's chain, and the transaction of it that is at hand.
NodeTx == TxInOrder(node_chain.blocks[height], tx_index)
NodeNow ==
    IF InTx THEN LedgerAt(node_chain, height, tx_index) ELSE Ledger(node_chain)[height]
\* The unspent outputs; those of a transaction are stored before it is settled.
UnspentNow ==
    IF pc = "settle" THEN (DOMAIN NodeNow.sats \ Spent(NodeTx)) \cup Created(NodeTx)
    ELSE DOMAIN NodeNow.sats
\* The positions of the walk whose outputs are stored.
Walked(g, j) ==
    \/ g < height
    \/ g = height /\ (InTx => j < tx_index \/ (pc = "settle" /\ j = tx_index))

\* Nothing is stored under an id of the node but what it has unspent before the
\* first block, or some process has reached.
KnownStore(values) ==
    \A o \in DOMAIN values \cap DOMAIN node_chain.value :
        o \in node_chain.base \/ MadeBy(node_chain, o, reached)
InLoops == mode \in {"catch_up", "tail"}
\* A spent output that is stored is there from an earlier process: the walk has
\* not come again to the transaction that created it.
StaleAhead ==
    \A o \in (DOMAIN output_value \cap DOMAIN node_chain.value) \ UnspentNow :
        \E g, j : g <= reached /\ ~Walked(g, j) /\ MadeIn(node_chain, o, g, j)
\* What a block from disk created is stored until it is spent.
DiskStored ==
    \A o \in UnspentNow \ node_chain.base :
        MadeBy(node_chain, o, max_height) => o \in DOMAIN output_value
RecoverInv ==
    /\ chain = Received(node_chain, max_height)
    /\ KnownStore(output_value) /\ \A kept \in survivors.output_value : KnownStore(kept)
    /\ InLoops => height <= reached /\ StaleAhead /\ DiskStored

\* The node's chain is made of blocks; no two of its transactions have the same
\* id, and the ids made over RPC are none of those it knows.
LEMMA NodeFacts ==
    ASSUME OrdiTypeInv
    PROVE  /\ Len(node_chain.blocks) \in Nat
           /\ DOMAIN node_chain.blocks = 1 .. Len(node_chain.blocks)
           /\ \A g \in 1 .. Len(node_chain.blocks) :
                 /\ node_chain.blocks[g] \in Block /\ Len(node_chain.blocks[g]) \in Nat \ {0}
                 /\ DOMAIN node_chain.blocks[g] = 1 .. Len(node_chain.blocks[g])
           /\ TxidsUnique(node_chain.blocks)
           /\ \A tx \in Transactions(node_chain) : \A o \in DOMAIN node_chain.value :
                 o[1] # RpcHash(tx.txid)
<1>1. /\ Len(node_chain.blocks) \in Nat
      /\ DOMAIN node_chain.blocks = 1 .. Len(node_chain.blocks)
      /\ \A tx \in Transactions(node_chain) : \A o \in DOMAIN node_chain.value :
            o[1] # RpcHash(tx.txid)
  BY ReceivedAssumption DEF OrdiTypeInv, NodeInv
<1>2. PICK c : c = Received(node_chain, Len(node_chain.blocks))
  OBVIOUS
<1>3. c \in Chains
  BY <1>1, <1>2, ReceivedAssumption DEF OrdiTypeInv, NodeInv
<1>4. DOMAIN c.blocks = 1 .. Len(node_chain.blocks)
      /\ \A g \in 1 .. Len(node_chain.blocks) : c.blocks[g] = node_chain.blocks[g]
  BY <1>1, <1>2 DEF Received
<1>5. c.blocks \in Seq(Block) /\ TxidsUnique(c.blocks)
  BY <1>3, ChainAssumption DEF WellFormed
<1>6. \A g \in 1 .. Len(node_chain.blocks) : node_chain.blocks[g] \in Block
  BY <1>4, <1>5
<1>7. \A b \in Block : Len(b) \in Nat \ {0} /\ DOMAIN b = 1 .. Len(b)
  BY DEF Block
<1>8. TxidsUnique(node_chain.blocks)
  BY <1>1, <1>4, <1>5 DEF TxidsUnique
<1> QED  BY <1>1, <1>6, <1>7, <1>8

\* The transaction at hand is the node's, but for its id if it came over RPC.
LEMMA TxReceived ==
    ASSUME OrdiTypeInv, chain = Received(node_chain, max_height), InTx
    PROVE  /\ height \in 1 .. Len(node_chain.blocks)
           /\ Len(chain.blocks[height]) = Len(node_chain.blocks[height])
           /\ tx_index \in 1 .. Len(node_chain.blocks[height])
           /\ NodeTx \in Transactions(node_chain)
           /\ Spent(Tx) = Spent(NodeTx)
           /\ height <= max_height => Created(Tx) = Created(NodeTx)
           /\ height > max_height => Created(Tx) \cap DOMAIN node_chain.value = {}
<1>1. /\ Len(chain.blocks) = Len(node_chain.blocks) /\ Len(node_chain.blocks) \in Nat
      /\ height \in 0 .. Len(chain.blocks) /\ height # 0
      /\ tx_index \in 1 .. Len(chain.blocks[height]) /\ max_height \in Int
  <2>1. 0 \in 0 .. Len(node_chain.blocks)
    BY NodeFacts
  <2>2. Len(chain.blocks) = Len(node_chain.blocks)
    BY <2>1, ReceivedFacts DEF OrdiTypeInv
  <2>3. served \in Nat /\ max_height \in 0 .. served
    BY NodeFacts DEF OrdiTypeInv, OrdiTypeOK
  <2> QED  BY <2>2, <2>3, NodeFacts DEF OrdiTypeInv, OrdiTypeOK, TypeOK, InTx
<1>2. height \in 1 .. Len(node_chain.blocks)
  BY <1>1
<1>3. PICK b, n : b = node_chain.blocks[height] /\ n = Len(b)
  OBVIOUS
<1>4. n \in Nat \ {0} /\ DOMAIN b = 1 .. n /\ b \in Seq(Transaction)
  BY <1>2, <1>3, NodeFacts DEF Block
<1>5. PICK d : d = chain.blocks[height]
  OBVIOUS
<1>6. d = IF height <= max_height THEN b ELSE OverRpc(b)
  BY <1>2, <1>3, <1>5, NodeFacts DEF Received
<1>7. Len(d) = n
  <2>1. d \in Block
    <3>1. chain.blocks \in Seq(Block) /\ height \in 1 .. Len(chain.blocks)
      BY <1>1, <1>2, ChainFacts DEF OrdiTypeInv
    <3> QED  BY <1>5, <3>1
  <2>2. DOMAIN d = 1 .. Len(d) /\ Len(d) \in Nat
    BY <2>1 DEF Block
  <2>3. DOMAIN d = 1 .. n
    <3>1. DOMAIN OverRpc(b) = DOMAIN b
      BY DEF OverRpc
    <3>2. d = b \/ d = OverRpc(b)
      BY <1>6
    <3>3. DOMAIN d = DOMAIN b
      BY <3>1, <3>2
    <3> QED  BY <1>4, <3>3
  <2>4. \A k, m \in Nat : 1 .. k = 1 .. m => k = m
    OBVIOUS
  <2> QED  BY <1>4, <2>2, <2>3, <2>4
<1>8. tx_index \in 1 .. n
  BY <1>1, <1>5, <1>7
<1>9. PICK k \in 1 .. n : NodeTx = b[k] /\ Tx = d[k]
  BY <1>3, <1>4, <1>5, <1>7, <1>8 DEF NodeTx, Tx, TxInOrder
<1>10. NodeTx \in Transactions(node_chain) /\ NodeTx \in Transaction
  BY <1>2, <1>3, <1>4, <1>9, NodeFacts DEF Transactions
<1>11. Tx = IF height <= max_height THEN NodeTx ELSE [NodeTx EXCEPT !.txid = RpcHash(@)]
  BY <1>4, <1>6, <1>9 DEF OverRpc
<1>12. CASE height <= max_height
  BY <1>1, <1>2, <1>3, <1>5, <1>7, <1>8, <1>10, <1>11, <1>12
<1>13. CASE height > max_height
  <2>1. Tx = [NodeTx EXCEPT !.txid = RpcHash(@)]
    BY <1>1, <1>2, <1>11, <1>13
  <2>2. Tx.inputs = NodeTx.inputs /\ Tx.txid = RpcHash(NodeTx.txid)
    BY <1>10, <2>1 DEF Transaction
  <2>3. \A o \in Created(Tx) : o[1] = RpcHash(NodeTx.txid)
    BY <2>2 DEF Created
  <2>4. Created(Tx) \cap DOMAIN node_chain.value = {}
    BY <1>10, <2>3, NodeFacts
  <2>5. Spent(Tx) = Spent(NodeTx)
    BY <2>2 DEF Spent
  <2> QED  BY <1>1, <1>2, <1>3, <1>5, <1>7, <1>8, <1>10, <1>13, <2>4, <2>5
<1> QED  BY <1>1, <1>2, <1>12, <1>13

\* The transaction at hand creates what it creates, and no other does.
LEMMA NodeTxMakes ==
    ASSUME OrdiTypeInv, chain = Received(node_chain, max_height), InTx,
           NEW o \in Created(NodeTx)
    PROVE  /\ MadeIn(node_chain, o, height, tx_index)
           /\ \A g, j : MadeIn(node_chain, o, g, j) => g = height /\ j = tx_index
<1>1. height \in DOMAIN node_chain.blocks /\ tx_index \in 1 .. Len(node_chain.blocks[height])
  BY TxReceived, NodeFacts
<1>2. MadeIn(node_chain, o, height, tx_index)
  BY <1>1 DEF MadeIn, NodeTx
<1>3. ASSUME NEW g, NEW j, MadeIn(node_chain, o, g, j) PROVE g = height /\ j = tx_index
  <2> DEFINE at(n, i) == IF i < n THEN i + 1 ELSE 1
             m == Len(node_chain.blocks[g])
             n == Len(node_chain.blocks[height])
             t == TxInOrder(node_chain.blocks[g], j)
  <2>1. /\ g \in DOMAIN node_chain.blocks /\ j \in 1 .. m /\ m \in Nat /\ n \in Nat
        /\ DOMAIN node_chain.blocks[g] = 1 .. m /\ DOMAIN node_chain.blocks[height] = 1 .. n
    BY <1>1, <1>3, NodeFacts DEF MadeIn
  <2>2. t.txid = NodeTx.txid
    BY <1>3 DEF MadeIn, Created
  <2>3. t = node_chain.blocks[g][at(m, j)] /\ NodeTx = node_chain.blocks[height][at(n, tx_index)]
    BY DEF TxInOrder, NodeTx
  <2>4. at(m, j) \in 1 .. m /\ at(n, tx_index) \in 1 .. n
    BY <1>1, <2>1
  <2>5. TxidsUnique(node_chain.blocks)
    BY NodeFacts
  <2>6. g = height /\ at(m, j) = at(n, tx_index)
    BY <1>1, <2>1, <2>2, <2>3, <2>4, <2>5 DEF TxidsUnique
  <2> QED  BY <1>1, <2>1, <2>6
<1> QED  BY <1>2, <1>3

-----------------------------------------------------------------------------
\* The node's ledger along the steps.
LEMMA NodeBegins ==
    ASSUME OrdiTypeInv, BeginBlock(height + 1), UNCHANGED node_chain
    PROVE  /\ NodeNow' = NodeNow /\ UnspentNow' = UnspentNow
           /\ \A g \in Nat, j \in Nat \ {0} : Walked(g, j)' <=> Walked(g, j)
<1>1. /\ pc = "idle" /\ pc' = "inputs" /\ height' = height + 1 /\ tx_index' = 1
      /\ ~InTx /\ InTx' /\ height \in Nat /\ height + 1 \in DOMAIN chain.blocks
  BY DEF BeginBlock, EnterTx, Served, InTx, OrdiTypeInv, OrdiTypeOK, TypeOK
<1>2. height + 1 \in 1 .. Len(node_chain.blocks)
  <2>1. 0 \in 0 .. Len(node_chain.blocks)
    BY NodeFacts
  <2>2. Len(chain.blocks) = Len(node_chain.blocks)
    BY <2>1, ReceivedFacts DEF OrdiTypeInv
  <2> QED  BY <1>1, <2>2, ChainFacts DEF OrdiTypeInv
<1>3. LedgerAt(node_chain, height + 1, 1) = Ledger(node_chain)[height]
  <2>1. LedgerAt(node_chain, height + 1, 1) = Ledger(node_chain)[(height + 1) - 1]
    BY <1>2, NodeFacts, LedgerAtFirst
  <2> QED  BY <1>1, <2>1
<1>4. NodeNow' = NodeNow
  BY <1>1, <1>3 DEF NodeNow
<1>5. UnspentNow' = UnspentNow
  BY <1>1, <1>4 DEF UnspentNow
<1>6. ASSUME NEW g \in Nat, NEW j \in Nat \ {0} PROVE Walked(g, j)' <=> Walked(g, j)
  BY <1>1 DEF Walked
<1> QED  BY <1>4, <1>5, <1>6

LEMMA NodeWrites ==
    ASSUME WriteOutputValue, UNCHANGED node_chain
    PROVE  /\ InTx /\ InTx' /\ NodeTx' = NodeTx
           /\ UnspentNow' = (UnspentNow \ Spent(NodeTx)) \cup Created(NodeTx)
           /\ \A g, j : Walked(g, j)' <=> Walked(g, j) \/ (g = height /\ j = tx_index)
<1>1. /\ pc = "outputs" /\ pc' = "settle" /\ UNCHANGED <<height, tx_index>> /\ InTx /\ InTx'
  BY DEF WriteOutputValue, blockVars, txVars, InTx
<1>2. NodeNow' = NodeNow /\ NodeTx' = NodeTx
  BY <1>1 DEF NodeNow, NodeTx
<1> QED  BY <1>1, <1>2 DEF UnspentNow, Walked

LEMMA NodeSettles ==
    ASSUME OrdiTypeInv, chain = Received(node_chain, max_height), pc = "settle", FinishTx,
           UNCHANGED <<height, node_chain>>
    PROVE  /\ UnspentNow' = UnspentNow
           /\ \A g \in DOMAIN node_chain.blocks : \A j \in 1 .. Len(node_chain.blocks[g]) :
                 Walked(g, j)' <=> Walked(g, j)
<1>1. InTx
  BY DEF InTx
<1>2. /\ height \in 1 .. Len(node_chain.blocks)
      /\ tx_index \in 1 .. Len(node_chain.blocks[height])
      /\ Len(node_chain.blocks[height]) \in Nat \ {0}
      /\ Len(chain.blocks[height]) = Len(node_chain.blocks[height])
  BY <1>1, TxReceived, NodeFacts
<1>3. /\ tx_index' = tx_index + 1
      /\ pc' = IF tx_index < Len(node_chain.blocks[height]) THEN "inputs" ELSE "flush_id_inscription"
  BY <1>2 DEF FinishTx, EnterTx
<1>4. InTx' <=> tx_index < Len(node_chain.blocks[height])
  BY <1>3 DEF InTx
<1>5. NodeNow' = LedgerBehind(node_chain, height, tx_index)
  BY <1>3, <1>4 DEF NodeNow, LedgerBehind
<1>6. DOMAIN LedgerBehind(node_chain, height, tx_index).sats
         = (DOMAIN LedgerAt(node_chain, height, tx_index).sats \ Spent(NodeTx)) \cup Created(NodeTx)
  <2>1. Len(node_chain.blocks) \in Nat
    BY NodeFacts
  <2> QED  BY <1>2, <2>1, WalkedDomain DEF NodeTx
<1>7. UnspentNow' = UnspentNow
  <2>1. pc' # "settle"
    BY <1>3
  <2>2. UnspentNow' = DOMAIN NodeNow'.sats
    BY <2>1 DEF UnspentNow
  <2>3. UnspentNow = (DOMAIN NodeNow.sats \ Spent(NodeTx)) \cup Created(NodeTx)
    BY DEF UnspentNow
  <2>4. NodeNow = LedgerAt(node_chain, height, tx_index)
    BY <1>1 DEF NodeNow
  <2> QED  BY <1>5, <1>6, <2>2, <2>3, <2>4
<1>8. ASSUME NEW g \in DOMAIN node_chain.blocks, NEW j \in 1 .. Len(node_chain.blocks[g])
      PROVE  Walked(g, j)' <=> Walked(g, j)
  <2>1. g \in Nat /\ Len(node_chain.blocks[g]) \in Nat
    BY NodeFacts
  <2> QED  BY <1>1, <1>2, <1>3, <1>4, <2>1 DEF Walked
<1> QED  BY <1>7, <1>8

\* The other steps of a block.
LEMMA NodeKeeps ==
    ASSUME UNCHANGED <<node_chain, height>>, InTx => UNCHANGED tx_index, (InTx' <=> InTx),
           (pc = "settle" <=> pc' = "settle")
    PROVE  UnspentNow' = UnspentNow /\ \A g, j : Walked(g, j)' <=> Walked(g, j)
<1>1. NodeNow' = NodeNow /\ (InTx => NodeTx' = NodeTx)
  BY DEF NodeNow, NodeTx
<1>2. UnspentNow' = UnspentNow
  BY <1>1 DEF UnspentNow, InTx
<1> QED  BY <1>2 DEF Walked, InTx

-----------------------------------------------------------------------------
\* The invariant along the steps.
LEMMA MadeLater ==
    ASSUME OrdiTypeInv, NEW o, NEW h \in Nat, NEW k \in Nat, h <= k, MadeBy(node_chain, o, h)
    PROVE  MadeBy(node_chain, o, k)
<1>1. DOMAIN node_chain.blocks \subseteq Nat
  BY NodeFacts
<1> QED  BY <1>1 DEF MadeBy, MadeIn

\* A transaction stores what it creates and deletes what it spends.
LEMMA RecoverWrites ==
    ASSUME OrdiTypeInv, RecoverInv, InLoops, WriteOutputValue, UNCHANGED <<node_chain, reached, max_height>>
    PROVE  KnownStore(output_value)' /\ StaleAhead' /\ DiskStored'
<1>1. /\ InTx /\ UnspentNow' = (UnspentNow \ Spent(NodeTx)) \cup Created(NodeTx)
      /\ \A g, j : Walked(g, j)' <=> Walked(g, j) \/ (g = height /\ j = tx_index)
  BY NodeWrites
<1>2. DOMAIN output_value' = (DOMAIN output_value \ Spent(NodeTx)) \cup Created(Tx)
  <2>1. DOMAIN output_value' = (DOMAIN output_value \ Spent(Tx)) \cup Created(Tx)
    BY DEF WriteOutputValue, ValuesAfter, Write, Without
  <2> QED  BY <1>1, <2>1, TxReceived DEF RecoverInv
<1>3. /\ height <= max_height => Created(Tx) = Created(NodeTx)
      /\ height > max_height => Created(Tx) \cap DOMAIN node_chain.value = {}
      /\ height \in Nat /\ max_height \in Nat /\ reached \in Nat /\ height <= reached
  <2>1. height \in 1 .. Len(node_chain.blocks) /\ max_height \in Nat /\ reached \in Nat
    BY <1>1, TxReceived, NodeFacts DEF RecoverInv, OrdiTypeInv, OrdiTypeOK
  <2> QED  BY <1>1, <2>1, TxReceived DEF RecoverInv
<1>4. \A o \in Created(NodeTx) :
         /\ MadeIn(node_chain, o, height, tx_index)
         /\ \A g, j : MadeIn(node_chain, o, g, j) => g = height /\ j = tx_index
  BY <1>1, NodeTxMakes DEF RecoverInv
<1>5. KnownStore(output_value)'
  <2> SUFFICES ASSUME NEW o \in DOMAIN output_value' \cap DOMAIN node_chain.value
               PROVE  o \in node_chain.base \/ MadeBy(node_chain, o, reached)
    BY DEF KnownStore
  <2>1. CASE o \in Created(Tx)
    <3>1. o \in Created(NodeTx)
      BY <1>3, <2>1
    <3> QED  BY <1>3, <1>4, <3>1 DEF MadeBy
  <2>2. CASE o \notin Created(Tx)
    BY <1>2, <2>2 DEF RecoverInv, KnownStore
  <2> QED  BY <2>1, <2>2
<1>6. StaleAhead'
  <2> SUFFICES ASSUME NEW o \in (DOMAIN output_value' \cap DOMAIN node_chain.value) \ UnspentNow'
               PROVE  \E g, j : g <= reached /\ ~Walked(g, j)' /\ MadeIn(node_chain, o, g, j)
    BY DEF StaleAhead
  <2>1. o \notin Created(NodeTx)
    BY <1>1
  <2>2. o \notin Created(Tx)
    BY <1>3, <2>1
  <2>3. o \in (DOMAIN output_value \cap DOMAIN node_chain.value) \ UnspentNow
    BY <1>1, <1>2, <2>2
  <2>4. PICK g, j : g <= reached /\ ~Walked(g, j) /\ MadeIn(node_chain, o, g, j)
    BY <2>3 DEF RecoverInv, StaleAhead
  <2>5. ~(g = height /\ j = tx_index)
    BY <2>1, <2>4 DEF MadeIn, NodeTx
  <2> QED  BY <1>1, <2>4, <2>5
<1>7. DiskStored'
  <2> SUFFICES ASSUME NEW o \in UnspentNow' \ node_chain.base, MadeBy(node_chain, o, max_height)
               PROVE  o \in DOMAIN output_value'
    BY DEF DiskStored
  <2>1. CASE o \in Created(NodeTx)
    <3>1. height <= max_height
      BY <1>4, <2>1 DEF MadeBy
    <3> QED  BY <1>2, <1>3, <2>1, <3>1
  <2>2. CASE o \notin Created(NodeTx)
    <3>1. o \in UnspentNow \ node_chain.base /\ o \notin Spent(NodeTx)
      BY <1>1, <2>2
    <3>2. o \in DOMAIN output_value
      BY <3>1 DEF RecoverInv, DiskStored
    <3> QED  BY <1>2, <3>1, <3>2
  <2> QED  BY <2>1, <2>2
<1> QED  BY <1>5, <1>6, <1>7

\* Where the process and its view of the node stay as they are.
LEMMA RecoverKeeps ==
    ASSUME OrdiTypeInv, RecoverInv,
           UNCHANGED <<node_chain, chain, max_height, output_value, mode>>,
           reached' \in Nat, reached <= reached',
           \A kept \in survivors'.output_value :
               kept \in survivors.output_value \/ kept = output_value,
           InLoops => /\ height' <= reached' /\ UnspentNow' = UnspentNow
                      /\ \A g \in DOMAIN node_chain.blocks : \A j \in 1 .. Len(node_chain.blocks[g]) :
                            Walked(g, j)' <=> Walked(g, j)
    PROVE  RecoverInv'
<1>0. reached \in Nat /\ DOMAIN node_chain.blocks \subseteq Nat
  BY NodeFacts DEF OrdiTypeInv, OrdiTypeOK
<1>1. ASSUME NEW values, KnownStore(values) PROVE KnownStore(values)'
  BY <1>0, <1>1, MadeLater DEF KnownStore
<1>2. KnownStore(output_value)' /\ \A kept \in survivors'.output_value : KnownStore(kept)'
  BY <1>1 DEF RecoverInv, KnownStore
<1>3. ASSUME InLoops PROVE StaleAhead'
  <2> SUFFICES ASSUME NEW o \in (DOMAIN output_value \cap DOMAIN node_chain.value) \ UnspentNow
               PROVE  \E g, j : g <= reached' /\ ~Walked(g, j)' /\ MadeIn(node_chain, o, g, j)
    BY <1>3 DEF StaleAhead
  <2>1. PICK g, j : g <= reached /\ ~Walked(g, j) /\ MadeIn(node_chain, o, g, j)
    BY <1>3 DEF RecoverInv, StaleAhead
  <2>2. g \in DOMAIN node_chain.blocks /\ j \in 1 .. Len(node_chain.blocks[g]) /\ g \in Nat
    BY <1>0, <2>1 DEF MadeIn
  <2>3. ~Walked(g, j)' /\ g <= reached'
    BY <1>0, <1>3, <2>1, <2>2
  <2> QED  BY <2>1, <2>3
<1>4. ASSUME InLoops PROVE DiskStored'
  BY <1>3, <1>4 DEF RecoverInv, DiskStored
<1>5. InLoops' <=> InLoops
  BY DEF InLoops
<1> QED  BY <1>2, <1>3, <1>4, <1>5 DEF RecoverInv

\* The start of the first loop: only what was unspent before the first height
\* is unspent, and nothing is walked.
LEMMA RecoverStarts ==
    ASSUME OrdiTypeInv, RecoverInv, Start
    PROVE  RecoverInv'
<1>1. /\ height' = 0 /\ pc' = "idle" /\ InLoops' /\ ~InTx'
      /\ UNCHANGED <<node_chain, chain, max_height, output_value, survivors, reached>>
  BY DEF Start, FirstHeight, storeVars, InLoops, InTx
<1>2. reached \in Nat /\ DOMAIN node_chain.blocks \subseteq Nat \ {0}
  BY NodeFacts DEF OrdiTypeInv, OrdiTypeOK
<1>3. UnspentNow' = node_chain.base
  <2>1. Ledger(node_chain)[0] = LedgerAtBase(node_chain)
    BY NodeFacts, LedgerUnfold
  <2>2. UnspentNow' = DOMAIN Ledger(node_chain)[0].sats
    BY <1>1 DEF UnspentNow, NodeNow
  <2> QED  BY <2>1, <2>2 DEF LedgerAtBase
<1>4. StaleAhead'
  <2> SUFFICES ASSUME NEW o \in (DOMAIN output_value \cap DOMAIN node_chain.value) \ node_chain.base
               PROVE  \E g, j : g <= reached /\ ~Walked(g, j)' /\ MadeIn(node_chain, o, g, j)
    BY <1>1, <1>3 DEF StaleAhead
  <2>1. PICK g, j : g <= reached /\ MadeIn(node_chain, o, g, j)
    BY DEF RecoverInv, KnownStore, MadeBy
  <2>2. g \in Nat \ {0}
    BY <1>2, <2>1 DEF MadeIn
  <2>3. ~Walked(g, j)'
    BY <1>1, <2>2 DEF Walked
  <2> QED  BY <2>1, <2>3
<1>5. DiskStored'
  BY <1>1, <1>3 DEF DiskStored
<1>6. KnownStore(output_value)' /\ \A kept \in survivors'.output_value : KnownStore(kept)'
  BY <1>1 DEF RecoverInv, KnownStore
<1> QED  BY <1>1, <1>2, <1>4, <1>5, <1>6 DEF RecoverInv

\* Every step of the process: one step of the proof per action.
LEMMA RecoverNext == OrdiTypeInv /\ LoopsInv /\ RecoverInv /\ [OrdiNext]_ordiVars => RecoverInv'
<1> SUFFICES ASSUME OrdiTypeInv, LoopsInv, RecoverInv, [OrdiNext]_ordiVars PROVE RecoverInv'
  OBVIOUS
<1>0. /\ reached \in Nat /\ height \in Nat /\ DOMAIN survivors = {"status", "output_value",
                                                  "id_inscription", "inscription_output"}
  BY NodeFacts, ChainFacts DEF OrdiTypeInv, OrdiTypeOK, TypeOK, SurvivorsOK
<1>1. CASE Mine \/ CaughtUp \/ UNCHANGED ordiVars
  <2>1. /\ UNCHANGED <<node_chain, chain, max_height, output_value, reached, survivors, height,
                       pc, tx_index>>
        /\ InLoops' <=> InLoops
    BY <1>1 DEF Mine, CaughtUp, ordiVars, vars, storeVars, blockVars, txVars, processVars, InLoops
  <2>2. UnspentNow' = UnspentNow /\ \A g, j : Walked(g, j)' <=> Walked(g, j)
    BY <2>1, NodeKeeps DEF InTx
  <2> QED  BY <2>1, <2>2 DEF RecoverInv, KnownStore, StaleAhead, DiskStored
<1>2. CASE Open
  <2>1. /\ chain' = Received(node_chain, max_height') /\ survivors'.output_value = {output_value}
        /\ UNCHANGED <<node_chain, output_value, reached>> /\ ~InLoops'
    BY <1>2 DEF Open, OnDisk, InLoops
  <2> QED  BY <2>1 DEF RecoverInv, KnownStore
<1>r. ASSUME NEW outpoints \in SUBSET chain.base PROVE KnownStore(Refilled(outpoints))
  <2>1. chain.base = node_chain.base
    BY DEF RecoverInv, Received
  <2>2. DOMAIN Refilled(outpoints) = DOMAIN output_value \cup outpoints
    BY DEF Refilled, Write
  <2> QED  BY <2>1, <2>2 DEF RecoverInv, KnownStore
<1>3. CASE IndexOutputValue
  <2>1. /\ output_value' = Refilled(chain.base) /\ ~InLoops'
        /\ survivors'.output_value = survivors.output_value
                                         \cup {Refilled(outpoints) : outpoints \in SUBSET chain.base}
        /\ UNCHANGED <<node_chain, chain, max_height, reached>>
    BY <1>0, <1>3 DEF IndexOutputValue, processVars, InLoops
  <2>4. KnownStore(output_value)' /\ \A kept \in survivors'.output_value : KnownStore(kept)'
    BY <1>r, <2>1 DEF RecoverInv, KnownStore
  <2> QED  BY <2>1, <2>4 DEF RecoverInv
<1>4. CASE Start
  BY <1>4, RecoverStarts
<1>5. CASE CatchUp \/ Follow
  <2>1. BlockToIndex(height + 1) /\ UNCHANGED mode
    <3>1. CASE CatchUp
      BY <3>1 DEF CatchUp, BlockToIndex, processVars
    <3>2. CASE Follow
      BY <3>2 DEF Follow, BlockToIndex, BeginBlock, LoopsInv, LoopsMeet, processVars
    <3> QED  BY <1>5, <3>1, <3>2
  <2>2. /\ UNCHANGED <<node_chain, chain, max_height, output_value, survivors>>
        /\ height' = height + 1 /\ reached' = IF height + 1 > reached THEN height + 1 ELSE reached
        /\ BeginBlock(height + 1)
    BY <2>1 DEF BlockToIndex, BeginBlock, processVars, storeVars
  <2>3. reached' \in Nat /\ reached <= reached' /\ height' <= reached'
    BY <1>0, <2>2
  <2>4. UnspentNow' = UnspentNow /\ \A g \in Nat, j \in Nat \ {0} : Walked(g, j)' <=> Walked(g, j)
    BY <2>2, NodeBegins
  <2>5. \A g \in DOMAIN node_chain.blocks : \A j \in 1 .. Len(node_chain.blocks[g]) :
           g \in Nat /\ j \in Nat \ {0}
    BY NodeFacts
  <2> QED  BY <2>1, <2>2, <2>3, <2>4, <2>5, RecoverKeeps
<1>6. CASE Step
  <2>1. /\ IndexStep /\ Record /\ UNCHANGED <<mode, max_height, node_chain, reached>>
        /\ UNCHANGED <<chain, height>>
    BY <1>6, StepFrame DEF Step
  <2>2. survivors'.output_value = survivors.output_value \cup {output_value'}
    BY <1>0, <2>1 DEF Record, OnDisk
  <2>3. InLoops
    BY <2>1, StepFrame DEF InLoops, LoopsInv, OrdiTypeInv, OrdiTypeOK
  <2>4. CASE WriteOutputValue
    <3>1. KnownStore(output_value)' /\ StaleAhead' /\ DiskStored'
      BY <2>1, <2>3, <2>4, RecoverWrites
    <3>2. \A kept \in survivors'.output_value : KnownStore(kept)'
      BY <2>1, <2>2, <3>1 DEF RecoverInv, KnownStore
    <3> QED  BY <2>1, <2>3, <3>1, <3>2 DEF RecoverInv, InLoops
  <2>5. CASE SettleFees \/ SettleCoinbase
    <3>1. pc = "settle" /\ FinishTx /\ UNCHANGED output_value
      BY <2>5 DEF SettleFees, SettleCoinbase, storeVars
    <3>2. UnspentNow' = UnspentNow
          /\ \A g \in DOMAIN node_chain.blocks : \A j \in 1 .. Len(node_chain.blocks[g]) :
                Walked(g, j)' <=> Walked(g, j)
      BY <2>1, <3>1, NodeSettles DEF RecoverInv
    <3> QED  BY <1>0, <2>1, <2>2, <2>3, <3>1, <3>2, RecoverKeeps DEF RecoverInv
  <2>6. CASE ~ (WriteOutputValue \/ SettleFees \/ SettleCoinbase)
    <3>1. /\ UNCHANGED output_value /\ (InTx => UNCHANGED tx_index) /\ (InTx' <=> InTx)
          /\ (pc = "settle" <=> pc' = "settle")
      BY <2>1, <2>6
      DEF IndexStep, ScanNullInput, ScanInput, SortFloating, PlaceOnOutput, NextOutput,
          LoseFloating, UpdateInscriptionState, FlushIdInscription, FlushInscriptionOutput,
          FlushOutputInscription, FlushStatus, storeVars, blockVars, txVars, InTx
    <3>2. UnspentNow' = UnspentNow /\ \A g, j : Walked(g, j)' <=> Walked(g, j)
      BY <2>1, <3>1, NodeKeeps
    <3> QED  BY <1>0, <2>1, <2>2, <2>3, <3>1, <3>2, RecoverKeeps DEF RecoverInv
  <2> QED  BY <2>4, <2>5, <2>6
<1>7. CASE StepFails \/ FetchFails
  <2>1. /\ UNCHANGED <<node_chain, chain, max_height, output_value, survivors, reached>> /\ ~InLoops'
    BY <1>7
    DEF StepFails, FetchFails, Fail, Returned, Ended, Stopped, vars, storeVars, InLoops
  <2> QED  BY <2>1 DEF RecoverInv, KnownStore
<1>8. CASE Crash
  <2>1. /\ output_value' \in survivors.output_value /\ ~InLoops'
        /\ UNCHANGED <<node_chain, chain, max_height, survivors, reached>>
    BY <1>8 DEF Crash, Ended, Stopped, InLoops
  <2> QED  BY <2>1 DEF RecoverInv, KnownStore
<1>9. CASE IndexOutputValueFails
  <2>1. PICK outpoints \in SUBSET chain.base :
            /\ output_value' = Refilled(outpoints)
            /\ survivors' = [survivors EXCEPT !.output_value =
                                @ \cup {Refilled(written) : written \in SUBSET outpoints}]
    BY <1>9 DEF IndexOutputValueFails
  <2>2. /\ ~InLoops' /\ UNCHANGED <<node_chain, chain, max_height, reached>>
        /\ survivors'.output_value = survivors.output_value
                                         \cup {Refilled(written) : written \in SUBSET outpoints}
    BY <1>0, <1>9, <2>1 DEF IndexOutputValueFails, Stopped, InLoops
  <2>3. KnownStore(output_value)' /\ \A kept \in survivors'.output_value : KnownStore(kept)'
    BY <1>r, <2>1, <2>2 DEF RecoverInv, KnownStore
  <2> QED  BY <2>2, <2>3 DEF RecoverInv
<1> QED  BY <1>1, <1>2, <1>3, <1>4, <1>5, <1>6, <1>7, <1>8, <1>9 DEF OrdiNext

LEMMA RecoverInit == OrdiInit => RecoverInv
<1> SUFFICES ASSUME OrdiInit PROVE RecoverInv
  OBVIOUS
<1>1. DOMAIN output_value \subseteq chain.base
  <2>1. output_value = EmptyDB \/ output_value = [o \in chain.base |-> chain.value[o]]
    BY DEF OrdiInit, Init
  <2>2. DOMAIN EmptyDB = {}
    BY DEF EmptyDB
  <2> QED  BY <2>1, <2>2
<1>2. chain = Received(node_chain, max_height) /\ survivors.output_value = {output_value} /\ ~InLoops
  BY DEF OrdiInit, OnDisk, InLoops
<1>3. chain.base = node_chain.base
  BY <1>2 DEF Received
<1> QED  BY <1>1, <1>2, <1>3 DEF RecoverInv, KnownStore

\* Recovered, nothing is left ahead of the walk, so no spent output is stored.
LEMMA RecoverGives == OrdiTypeInv /\ RecoverInv => ValuesRecover
<1> SUFFICES ASSUME OrdiTypeInv, RecoverInv, Recovered
             PROVE  LET unspent == DOMAIN Ledger(node_chain)[height].sats
                    IN  /\ DOMAIN output_value \cap DOMAIN node_chain.value \subseteq unspent
                        /\ (DOMAIN OnDiskLedger.sats \cap unspent) \ node_chain.base
                               \subseteq DOMAIN output_value
  BY DEF ValuesRecover
<1>1. /\ InLoops /\ ~InTx /\ pc = "idle" /\ height >= reached /\ reached \in Nat
      /\ height \in 0 .. Len(node_chain.blocks) /\ max_height \in Nat
  <2>1. 0 \in 0 .. Len(node_chain.blocks)
    BY NodeFacts
  <2>2. Len(chain.blocks) = Len(node_chain.blocks)
    BY <2>1, ReceivedFacts DEF OrdiTypeInv
  <2> QED  BY <2>2, NodeFacts DEF Recovered, InLoops, InTx, OrdiTypeInv, OrdiTypeOK, TypeOK
<1>2. UnspentNow = DOMAIN Ledger(node_chain)[height].sats
  BY <1>1 DEF UnspentNow, NodeNow
<1>3. DOMAIN output_value \cap DOMAIN node_chain.value \subseteq UnspentNow
  <2> SUFFICES ASSUME NEW o \in (DOMAIN output_value \cap DOMAIN node_chain.value) \ UnspentNow
               PROVE  FALSE
    OBVIOUS
  <2>1. PICK g, j : g <= reached /\ ~Walked(g, j) /\ MadeIn(node_chain, o, g, j)
    BY <1>1 DEF RecoverInv, StaleAhead
  <2>2. g \in Nat
    BY <2>1, NodeFacts DEF MadeIn
  <2> QED  BY <1>1, <2>1, <2>2 DEF Walked
<1>4. (DOMAIN OnDiskLedger.sats \cap UnspentNow) \ node_chain.base \subseteq DOMAIN output_value
  <2> SUFFICES ASSUME NEW o \in (DOMAIN OnDiskLedger.sats \cap UnspentNow) \ node_chain.base
               PROVE  o \in DOMAIN output_value
    OBVIOUS
  <2>1. PICK h \in 0 .. Len(node_chain.blocks) :
           h <= max_height /\ o \in DOMAIN Ledger(node_chain)[h].sats
    <3>1. CASE height < max_height
      BY <1>1, <3>1 DEF OnDiskLedger
    <3>2. CASE ~(height < max_height)
      <4>1. max_height \in 0 .. Len(node_chain.blocks)
        BY <1>1, <3>2
      <4> QED  BY <3>2, <4>1 DEF OnDiskLedger
    <3> QED  BY <3>1, <3>2
  <2>2. MadeBy(node_chain, o, h)
    BY <2>1, NodeFacts, LedgerMade
  <2>3. MadeBy(node_chain, o, max_height)
    BY <1>1, <2>1, <2>2, MadeLater
  <2> QED  BY <1>1, <2>3 DEF RecoverInv, DiskStored
<1> QED  BY <1>2, <1>3, <1>4

\* Once a process has come as far as any process before it, the stored output
\* values are again those of the unspent outputs, whatever errors and crashes
\* have left on disk: no spent output has come back, and none that a block from
\* disk created is missing.
THEOREM ValuesAlwaysRecover == OrdiSpec => []ValuesRecover
<1>1. OrdiInit => OrdiInv /\ RecoverInv
  BY OrdiInitInv, RecoverInit
<1>2. (OrdiInv /\ RecoverInv) /\ [OrdiNext]_ordiVars => (OrdiInv /\ RecoverInv)'
  BY OrdiNextType, OrdiNextLoops, OrdiNextValues, RecoverNext DEF OrdiInv
<1>3. OrdiInv /\ RecoverInv => ValuesRecover
  BY RecoverGives DEF OrdiInv
<1> QED  BY <1>1, <1>2, <1>3, PTL DEF OrdiSpec

-----------------------------------------------------------------------------
\* The lists of one process.  Records, numbers and marks of earlier processes are
\* still in the stores, so NumbersInv and ListsInv of the updater's own proofs do
\* not hold of a restart; HeldInv says what they do of the ids that this process
\* itself has come upon.  Those in its lists, and where the records say these are:
Ids(held) == UNION {{e[1] : e \in Items(held[o])} : o \in DOMAIN held}
HeldIds == Ids(Held)
HeldAt == [id \in HeldIds |-> Located[id]]
OwnIds == HeldIds \cup NewIds(floating) \cup NewIds(flotsam)

\* An id that waits to be numbered does so once, and is not in the lists yet.
OwnApart ==
    /\ Distinct(floating) /\ Distinct(flotsam) /\ NewIds(floating) \cap NewIds(flotsam) = {}
    /\ (NewIds(floating) \cup NewIds(flotsam)) \cap HeldIds = {}

\* No id is of a transaction ahead.  Those of the current one are below id_counter.
OwnAhead ==
    /\ \A id \in OwnIds : \A tx \in Transactions(chain) : Ahead(tx) => id[1] # tx.txid
    /\ pc = "inputs" =>
          \A id \in OwnIds : id[1] = Tx.txid => id \in NewIds(floating) /\ id[2] < id_counter

\* Each list entry is where its record says, and is the only one of its id.
HeldRecorded == HeldIds \subseteq DOMAIN Located /\ Agree(Held, HeldAt)

HeldInv == HeldRecorded /\ OwnApart /\ OwnAhead /\ MovingInv /\ StoredInv

\* Lists that agree with some records have the ids of these.
LEMMA AgreeIds ==
    ASSUME NEW held, NEW records, Agree(held, records)
    PROVE  Ids(held) = DOMAIN records
<1>1. ASSUME NEW id \in Ids(held) PROVE id \in DOMAIN records
  <2>1. PICK o \in DOMAIN held : \E e \in Items(held[o]) : id = e[1]
    BY DEF Ids
  <2> QED  BY <2>1 DEF Agree
<1>2. ASSUME NEW id \in DOMAIN records PROVE id \in Ids(held)
  <2>1. records[id] \in DOMAIN held /\ \E e \in Items(held[records[id]]) : e[1] = id
    BY DEF Agree
  <2> QED  BY <2>1 DEF Ids
<1> QED  BY <1>1, <1>2

\* It is enough that the lists agree with a part of the records.
LEMMA NowRecorded ==
    ASSUME NEW records, Agree(Held', records),
           \A id \in DOMAIN records : id \in DOMAIN Located' /\ records[id] = Located'[id]
    PROVE  HeldRecorded' /\ HeldIds' = DOMAIN records
<1>1. HeldIds' = DOMAIN records
  BY AgreeIds DEF HeldIds
<1>2. PICK now : now = HeldAt'
  OBVIOUS
<1>3. DOMAIN now = DOMAIN records /\ \A id \in DOMAIN records : now[id] = records[id]
  BY <1>1, <1>2 DEF HeldAt
<1>4. Agree(Held', now)
  <2>1. PICK held : held = Held'
    OBVIOUS
  <2>2. Agree(held, now)
    BY <1>3, <2>1, AgreeStill
  <2> QED  BY <2>1, <2>2
<1> QED  BY <1>1, <1>2, <1>4 DEF HeldRecorded

\* Neither the lists nor the records change.
LEMMA StillRecorded ==
    ASSUME HeldRecorded, Held' = Held, Located' = Located
    PROVE  HeldRecorded' /\ HeldIds' = HeldIds
BY DEF HeldRecorded, HeldIds, HeldAt

\* No id joins, and nothing that was walked is ahead again.
LEMMA KeepAhead ==
    ASSUME OwnAhead, UNCHANGED chain, OwnIds' \subseteq OwnIds, \A tx : Ahead(tx)' => Ahead(tx),
           pc' = "inputs" =>
               \/ Tx' \in Transactions(chain) /\ Ahead(Tx')
               \/ pc = "inputs" /\ Tx' = Tx /\ UNCHANGED <<floating, id_counter>>
    PROVE  OwnAhead'
BY DEF OwnAhead

-----------------------------------------------------------------------------
\* A floating inscription is placed: one that moves takes its entry along, a new
\* one gets its first.
LEMMA PlaceHeld ==
    ASSUME TypeInv, HeldInv, pc \in {"outputs", "settle"}, floating # <<>>,
           NEW output \in OutPoint, NEW offset \in Int, UpdateInscriptionState(output, offset)
    PROVE  HeldInv'
<1> DEFINE f == Head(floating)
           location == IF f.unbound THEN Unbound(unbound_inscriptions) ELSE output
<1>1. /\ HeldRecorded /\ OwnApart /\ OwnAhead /\ MovingInv /\ DOMAIN HeldAt = HeldIds
      /\ \A id \in HeldIds : id \in DOMAIN Located /\ HeldAt[id] = Located[id]
      /\ Agree(Held, HeldAt) /\ floating \in Seq(Flotsam)
  BY DEF HeldInv, HeldRecorded, HeldAt, TypeInv, TypeOK
<1>2. /\ UNCHANGED <<chain, pc, height, tx_index, flotsam, inscription_output>>
      /\ floating' = Tail(floating)
  BY DEF UpdateInscriptionState, blockVars, txVars
<1>3. /\ NewIds(floating') \subseteq NewIds(floating) /\ Distinct(floating')
      /\ f.kind = "new" => f.id \in NewIds(floating) /\ f.id \notin NewIds(floating')
  BY <1>1, <1>2, NewIdsTail DEF OwnApart
<1>4. /\ MovingInv' /\ HeldRecorded'
      /\ \/ HeldIds' = HeldIds
         \/ f.kind = "new" /\ HeldIds' = HeldIds \cup {f.id}
  <2>1. CASE MoveInscription(f, output, offset)
    <3>1. MovingInv' /\ f.id \in DOMAIN HeldAt /\ Agree(Held', Put(HeldAt, f.id, output))
      BY <1>1, <2>1, MoveLists
    <3>2. inscription_output_wb' = Put(inscription_output_wb, f.id, output)
      BY <2>1 DEF MoveInscription
    <3>3. Located' = Put(Located, f.id, output)
      BY <1>2, <3>2, WritePut DEF Located
    <3> HIDE DEF f
    <3>4. PICK now : now = Put(HeldAt, f.id, output)
      OBVIOUS
    <3>5. /\ DOMAIN now = HeldIds
          /\ \A id \in DOMAIN now : id \in DOMAIN Located' /\ now[id] = Located'[id]
      BY <1>1, <3>1, <3>3, <3>4 DEF Put
    <3> QED  BY <3>1, <3>4, <3>5, NowRecorded
  <2>2. CASE AddInscription(f, output, offset)
    <3>0. f.kind = "new" /\ f.id \notin DOMAIN HeldAt
      BY <1>1, <1>3, <2>2 DEF AddInscription, OwnApart
    <3>1. MovingInv' /\ Agree(Held', Put(HeldAt, f.id, location))
      BY <1>1, <2>2, <3>0, AddLists
    <3>2. inscription_output_wb' = Put(inscription_output_wb, f.id, location)
      BY <2>2 DEF AddInscription
    <3>3. Located' = Put(Located, f.id, location)
      BY <1>2, <3>2, WritePut DEF Located
    <3> HIDE DEF f, location
    <3>4. PICK now : now = Put(HeldAt, f.id, location)
      OBVIOUS
    <3>5. /\ DOMAIN now = HeldIds \cup {f.id}
          /\ \A id \in DOMAIN now : id \in DOMAIN Located' /\ now[id] = Located'[id]
      BY <1>1, <3>1, <3>3, <3>4 DEF Put
    <3> QED  BY <3>0, <3>1, <3>4, <3>5, NowRecorded
  <2> QED  BY <2>1, <2>2 DEF UpdateInscriptionState
<1>5. OwnApart'
  BY <1>1, <1>2, <1>3, <1>4 DEF OwnApart
<1>6. OwnAhead'
  <2>1. OwnIds' \subseteq OwnIds
    BY <1>2, <1>3, <1>4 DEF OwnIds
  <2>2. \A tx : Ahead(tx)' => Ahead(tx)
    BY <1>2 DEF Ahead, InLaterBlock, LaterInBlock
  <2> QED  BY <1>1, <1>2, <2>1, <2>2, KeepAhead
<1>7. StoredInv'
  BY <1>2, NothingStored
<1> QED  BY <1>4, <1>5, <1>6, <1>7 DEF HeldInv

\* What an input reveals has ids of the current transaction, from id_counter on.
LEMMA ScanInputHeld ==
    ASSUME TypeInv, HeldInv, ScanInput
    PROVE  HeldInv'
<1>1. /\ HeldRecorded /\ OwnApart /\ OwnAhead /\ MovingInv /\ Agree(Held, HeldAt)
      /\ pc = "inputs" /\ pc' = "inputs"
      /\ UNCHANGED <<chain, height, tx_index, flotsam, inscription_output, inscription_output_wb>>
  BY DEF HeldInv, HeldRecorded, ScanInput, storeVars, blockVars
<1>2. HeldRecorded' /\ HeldIds' = HeldIds
  BY <1>1, ScanHeld, StillRecorded DEF Located
<1>3. /\ Distinct(floating') /\ NewIds(floating) \subseteq NewIds(floating')
      /\ \A id \in NewIds(floating') \ NewIds(floating) :
            id[1] = Tx.txid /\ id[2] >= id_counter
      /\ \A id \in NewIds(floating') : id[1] = Tx.txid => id[2] < id_counter'
  BY <1>1, ScanWaiting DEF OwnApart, OwnAhead, OwnIds
<1>4. \A id \in NewIds(floating') \ NewIds(floating) : id \notin OwnIds
  BY <1>1, <1>3 DEF OwnAhead
<1>5. OwnApart'
  BY <1>1, <1>2, <1>3, <1>4 DEF OwnApart, OwnIds
<1>6. OwnAhead'
  <2>1. OwnIds' = OwnIds \cup NewIds(floating')
    BY <1>1, <1>2, <1>3 DEF OwnIds
  <2>2. Tx' = Tx /\ \A tx : Ahead(tx)' = Ahead(tx)
    BY <1>1 DEF Tx, Ahead, InLaterBlock, LaterInBlock
  <2>3. ASSUME NEW id \in OwnIds', NEW tx \in Transactions(chain), Ahead(tx)' PROVE id[1] # tx.txid
    <3>1. Ahead(tx)
      BY <2>2, <2>3
    <3>2. tx.txid # Tx.txid
      BY <1>1, <3>1, AheadDiffers
    <3>3. id \in OwnIds => id[1] # tx.txid
      BY <1>1, <3>1 DEF OwnAhead
    <3>4. id \notin NewIds(floating) /\ id \in NewIds(floating') => id[1] = Tx.txid
      BY <1>3
    <3> QED  BY <2>1, <2>3, <3>2, <3>3, <3>4 DEF OwnIds
  <2>4. \A id \in OwnIds' : id[1] = Tx.txid => id \in NewIds(floating') /\ id[2] < id_counter'
    BY <1>1, <1>3, <2>1 DEF OwnAhead
  <2> QED  BY <1>1, <2>2, <2>3, <2>4 DEF OwnAhead
<1>7. MovingInv'
  BY <1>1, ScanMoving
<1>8. StoredInv'
  BY <1>1, NothingStored
<1> QED  BY <1>2, <1>5, <1>6, <1>7, <1>8 DEF HeldInv

\* Sorting, and the coinbase's taking over of the fees, keep what waits.
LEMMA SortHeld ==
    ASSUME TypeInv, HeldInv, SortFloating
    PROVE  HeldInv'
<1>1. /\ HeldRecorded /\ OwnApart /\ OwnAhead /\ MovingInv /\ pc = "inputs" /\ pc' = "outputs"
      /\ UNCHANGED <<chain, height, tx_index, inscription_output, inscription_output_wb,
                     output_inscription, output_inscription_cache>>
  BY DEF HeldInv, SortFloating, storeVars, batchVars, txVars
<1>2. HeldRecorded' /\ HeldIds' = HeldIds
  BY <1>1, StillRecorded DEF Located, Held
<1>3. /\ NewIds(floating') \cup NewIds(flotsam') \subseteq NewIds(floating) \cup NewIds(flotsam)
      /\ Distinct(floating') /\ Distinct(flotsam')
      /\ NewIds(floating') \cap NewIds(flotsam') = {}
  BY <1>1, SortWaiting DEF OwnApart
<1>4. OwnApart'
  BY <1>1, <1>2, <1>3 DEF OwnApart
<1>5. OwnAhead'
  <2>1. OwnIds' \subseteq OwnIds
    BY <1>2, <1>3 DEF OwnIds
  <2>2. \A tx : Ahead(tx)' => Ahead(tx)
    BY <1>1 DEF Ahead, InLaterBlock, LaterInBlock
  <2> QED  BY <1>1, <2>1, <2>2, KeepAhead
<1>6. MovingInv' /\ StoredInv'
  BY <1>1, SortMoving, NothingStored
<1> QED  BY <1>2, <1>4, <1>5, <1>6 DEF HeldInv

\* What is left of a transaction waits among the fees; nothing is placed.
LEMMA SettleHeld ==
    ASSUME TypeInv, HeldInv, SettleFees \/ SettleCoinbase
    PROVE  HeldInv'
<1>1. /\ HeldRecorded /\ OwnApart /\ OwnAhead /\ MovingInv
      /\ pc = "settle" /\ FinishTx /\ floating' = <<>> /\ pc' \in {"inputs", "flush_id_inscription"}
      /\ UNCHANGED <<chain, height, inscription_output, inscription_output_wb,
                     output_inscription, output_inscription_cache>>
  BY DEF HeldInv, SettleFees, SettleCoinbase, FinishTx, EnterTx, storeVars, batchVars
<1>2. HeldRecorded' /\ HeldIds' = HeldIds
  BY <1>1, StillRecorded DEF Located, Held
<1>3. /\ NewIds(flotsam') \subseteq NewIds(floating) \cup NewIds(flotsam) /\ Distinct(flotsam')
      /\ NewIds(floating') = {} /\ Distinct(floating')
  BY <1>1, SettleWaiting, EmptyList DEF OwnApart
<1>4. OwnApart'
  BY <1>1, <1>2, <1>3 DEF OwnApart
<1>5. OwnAhead'
  <2>1. OwnIds' \subseteq OwnIds
    BY <1>2, <1>3 DEF OwnIds
  <2> QED  BY <1>1, <2>1, AheadFinishes, KeepAhead
<1>6. MovingInv' /\ StoredInv'
  BY <1>1, SettleMoving, NothingStored
<1> QED  BY <1>2, <1>4, <1>5, <1>6 DEF HeldInv

\* The batches and the cache are dropped, between two blocks.
LEMMA DropsHeld ==
    ASSUME HeldInv, pc \in {"flush_status", "idle"},
           output_inscription_cache' = EmptyDB, inscription_output_wb' = EmptyDB,
           floating' = <<>>, flotsam' = <<>>,
           UNCHANGED <<chain, output_inscription, inscription_output>>,
           \A tx : Ahead(tx)' => Ahead(tx),
           pc' = "inputs" => Tx' \in Transactions(chain) /\ Ahead(Tx')
    PROVE  HeldInv'
<1>1. /\ HeldIds \subseteq DOMAIN Located /\ Agree(Held, HeldAt) /\ DOMAIN HeldAt = HeldIds
      /\ \A id \in HeldIds : HeldAt[id] = Located[id]
      /\ OwnApart /\ OwnAhead /\ StoredInv
  BY DEF HeldInv, HeldRecorded, HeldAt
<1>2. MovingInv' /\ StoredInv' /\ Located' = Located
  BY <1>1, DropStored
<1>3. /\ \A o \in DOMAIN Held' : o \in DOMAIN Held /\ Held'[o] = Held[o]
      /\ \A o \in DOMAIN Held : Held[o] # <<>> => o \in DOMAIN Held'
  BY <1>1, DropHeld
<1>4. Agree(Held', HeldAt)
  BY <1>1, <1>3, AgreeStill
<1>5. HeldRecorded' /\ HeldIds' = HeldIds
  BY <1>1, <1>2, <1>4, NowRecorded
<1>6. OwnApart'
  BY <1>5, EmptyList DEF OwnApart
<1>7. OwnAhead'
  <2>1. OwnIds' \subseteq OwnIds
    BY <1>5, EmptyList DEF OwnIds
  <2> QED  BY <1>1, <2>1, KeepAhead
<1> QED  BY <1>2, <1>5, <1>6, <1>7 DEF HeldInv

\* Nothing is held before the first block.
LEMMA EmptyHeld ==
    ASSUME output_inscription' = EmptyDB, output_inscription_cache' = EmptyDB,
           inscription_output_wb' = EmptyDB, floating' = <<>>, flotsam' = <<>>, pc' = "idle"
    PROVE  HeldInv'
<1>1. DOMAIN Held' = {} /\ HeldIds' = {} /\ DOMAIN HeldAt' = {} /\ OwnIds' = {}
  BY EmptyList DEF Held, Write, EmptyDB, HeldIds, Ids, HeldAt, OwnIds
<1>2. HeldRecorded' /\ OwnApart' /\ OwnAhead'
  BY <1>1, EmptyList DEF HeldRecorded, OwnApart, OwnAhead, Agree
<1>3. MovingInv'
  BY NoSources DEF MovingInv
<1>4. StoredInv'
  BY <1>1, WriteEmpty DEF StoredInv, Located, EmptyDB
<1> QED  BY <1>2, <1>3, <1>4 DEF HeldInv

\* Steps that neither place nor reveal anything.
LEMMA KeepHeld ==
    ASSUME TypeInv, HeldInv, pc # "idle",
           UNCHANGED <<chain, height, tx_index, floating, flotsam, id_counter>>,
           Held' = Held, Located' = Located, StoredInv',
           pc' = "inputs" => pc = "inputs" /\ input_index' \in {input_index, input_index + 1}
    PROVE  HeldInv'
<1>1. HeldRecorded /\ OwnApart /\ OwnAhead /\ MovingInv
  BY DEF HeldInv
<1>2. HeldRecorded' /\ HeldIds' = HeldIds
  BY <1>1, StillRecorded
<1>3. OwnApart'
  BY <1>1, <1>2 DEF OwnApart
<1>4. OwnAhead'
  <2>1. OwnIds' = OwnIds
    BY <1>2 DEF OwnIds
  <2>2. Tx' = Tx /\ \A tx : Ahead(tx)' => Ahead(tx)
    BY DEF Tx, Ahead, InLaterBlock, LaterInBlock
  <2> QED  BY <1>1, <2>1, <2>2, KeepAhead
<1>5. MovingInv'
  <2>1. \A o : AheadOutput(o)' => AheadOutput(o)
    BY AheadWithinTx
  <2> QED  BY <1>1, <2>1, KeepMoving DEF MovingInv
<1> QED  BY <1>2, <1>3, <1>4, <1>5 DEF HeldInv

\* Every indexing step, and the start of a block: one step of the proof for each kind.
LEMMA HeldNext == TypeInv /\ HeldInv /\ (IndexStep \/ BeginBlock(height + 1)) => HeldInv'
<1> SUFFICES ASSUME TypeInv, HeldInv, IndexStep \/ BeginBlock(height + 1) PROVE HeldInv'
  OBVIOUS
<1>1. CASE BeginBlock(height + 1)
  <2>1. /\ pc = "idle" /\ output_inscription_cache' = EmptyDB /\ inscription_output_wb' = EmptyDB
        /\ floating' = <<>> /\ flotsam' = <<>>
        /\ UNCHANGED <<chain, output_inscription, inscription_output>>
    BY <1>1 DEF BeginBlock, EnterTx, storeVars
  <2> QED  BY <1>1, <2>1, AheadBegins, DropsHeld
<1>2. CASE FlushStatus
  <2>1. /\ pc = "flush_status" /\ pc' = "idle"
        /\ output_inscription_cache' = EmptyDB /\ inscription_output_wb' = EmptyDB
        /\ floating' = <<>> /\ flotsam' = <<>>
        /\ UNCHANGED <<chain, height, output_inscription, inscription_output>>
    BY <1>2 DEF FlushStatus, DropUpdater
  <2>2. \A tx : Ahead(tx)' => Ahead(tx)
    BY <2>1 DEF Ahead, InLaterBlock
  <2> QED  BY <2>1, <2>2, DropsHeld
<1>3. CASE FlushIdInscription \/ FlushInscriptionOutput \/ FlushOutputInscription
  <2>1. /\ pc # "idle" /\ pc' # "inputs"
        /\ UNCHANGED <<chain, height, tx_index, floating, flotsam, id_counter>>
    BY <1>3
    DEF FlushIdInscription, FlushInscriptionOutput, FlushOutputInscription, blockVars, txVars
  <2>2. Located' = Located /\ Held' = Held
    BY <1>3, FlushSays
  <2>3. StoredInv'
    BY <1>3, FlushStored DEF HeldInv
  <2> QED  BY <2>1, <2>2, <2>3, KeepHeld
<1>4. CASE ScanInput  BY <1>4, ScanInputHeld
<1>5. CASE SortFloating  BY <1>5, SortHeld
<1>6. CASE SettleFees \/ SettleCoinbase  BY <1>6, SettleHeld
<1>7. CASE PlaceOnOutput \/ LoseFloating
  <2>1. PICK output \in OutPoint, offset \in Int :
           /\ pc \in {"outputs", "settle"} /\ floating # <<>>
           /\ UpdateInscriptionState(output, offset)
    BY <1>7, PlacedSomewhere
  <2> QED  BY <2>1, PlaceHeld
<1>8. CASE ScanNullInput \/ NextOutput \/ WriteOutputValue
  <2>1. /\ UNCHANGED <<chain, height, tx_index, floating, flotsam, id_counter,
                       inscription_output, inscription_output_wb,
                       output_inscription, output_inscription_cache>>
        /\ pc \in {"inputs", "outputs"} /\ pc' \in {"inputs", "outputs", "settle"}
        /\ pc' = "inputs" => pc = "inputs" /\ input_index' \in {input_index, input_index + 1}
    BY <1>8
    DEF ScanNullInput, NextOutput, WriteOutputValue, storeVars, counterVars, batchVars,
        blockVars, txVars
  <2>2. Held' = Held /\ Located' = Located /\ StoredInv'
    BY <2>1, NothingStored DEF Held, Located
  <2> QED  BY <2>1, <2>2, KeepHeld
<1> QED  BY <1>1, <1>2, <1>3, <1>4, <1>5, <1>6, <1>7, <1>8 DEF IndexStep

-----------------------------------------------------------------------------
\* The lists are those of the process, from the first block it indexes: it did
\* not find any that an earlier call of start() had left in memory.
OwnLists == lists # "reused"

\* Between two blocks, and after an error, nothing is batched and nothing moves.
Quiet ==
    /\ output_inscription_cache = EmptyDB /\ inscription_output_wb = EmptyDB
    /\ floating = <<>> /\ flotsam = <<>>

OwnListsInv ==
    /\ pc \in {"idle", "failed"} => Quiet
    /\ mode = "open" /\ OwnLists => output_inscription = EmptyDB
    /\ InLoops /\ OwnLists => HeldInv

\* HeldInv is about the updater's variables alone.
LEMMA HeldStays ==
    ASSUME HeldInv, UNCHANGED vars
    PROVE  HeldInv'
<1>1. /\ UNCHANGED <<chain, height, pc, tx_index, input_index, id_counter, floating, flotsam,
                     inscription_output, inscription_output_wb, output_inscription,
                     output_inscription_cache>>
  BY DEF vars, storeVars, batchVars, blockVars, txVars, counterVars
<1>2. Held' = Held /\ Located' = Located /\ Tx' = Tx
  BY <1>1 DEF Held, Located, Tx
<1>3. HeldRecorded' /\ HeldIds' = HeldIds
  BY <1>2, StillRecorded DEF HeldInv
<1>4. OwnIds' = OwnIds /\ \A tx : Ahead(tx)' <=> Ahead(tx)
  BY <1>1, <1>2, <1>3 DEF OwnIds, Ahead, InLaterBlock, LaterInBlock
<1>5. OwnApart' /\ OwnAhead'
  BY <1>1, <1>2, <1>3, <1>4 DEF HeldInv, OwnApart, OwnAhead
<1>6. MovingInv'
  <2>1. \A o : AheadOutput(o)' => AheadOutput(o)
    BY <1>1, <1>2, <1>4 DEF AheadOutput
  <2> QED  BY <1>1, <1>2, <2>1, KeepMoving DEF HeldInv, MovingInv
<1>7. StoredInv'
  BY <1>1, <1>2 DEF HeldInv, StoredInv
<1> QED  BY <1>3, <1>5, <1>6, <1>7 DEF HeldInv

\* Every step of the process: one step of the proof per action.
LEMMA OwnListsNext ==
    OrdiTypeInv /\ LoopsInv /\ OwnListsInv /\ [OrdiNext]_ordiVars => OwnListsInv'
<1> SUFFICES ASSUME OrdiTypeInv, LoopsInv, OwnListsInv, [OrdiNext]_ordiVars PROVE OwnListsInv'
  OBVIOUS
<1>0. TypeInv
  BY DEF OrdiTypeInv, OrdiTypeOK, TypeInv
<1>1. CASE Mine \/ CaughtUp \/ UNCHANGED ordiVars
  <2>1. /\ UNCHANGED vars /\ UNCHANGED lists /\ (mode' = "open" <=> mode = "open")
        /\ InLoops' <=> InLoops
    BY <1>1 DEF Mine, CaughtUp, ordiVars, processVars, InLoops
  <2>2. UNCHANGED <<pc, output_inscription, output_inscription_cache, inscription_output_wb,
                    floating, flotsam>>
    BY <2>1 DEF vars, storeVars, batchVars, blockVars, txVars
  <2> QED  BY <2>1, <2>2, HeldStays DEF OwnListsInv, Quiet, OwnLists
<1>2. CASE Open
  <2>1. /\ output_inscription' = EmptyDB /\ mode' = "open"
        /\ UNCHANGED <<pc, output_inscription_cache, inscription_output_wb, floating, flotsam>>
    BY <1>2 DEF Open, ListsOpened, batchVars, blockVars, txVars
  <2> QED  BY <2>1 DEF OwnListsInv, Quiet, InLoops
<1>3. CASE IndexOutputValue
  <2>1. /\ mode = "open" /\ mode' = "open"
        /\ UNCHANGED <<pc, lists, output_inscription, output_inscription_cache,
                       inscription_output_wb, floating, flotsam>>
    BY <1>3 DEF IndexOutputValue, processVars, batchVars, blockVars, txVars
  <2> QED  BY <2>1 DEF OwnListsInv, Quiet, InLoops, OwnLists
<1>4. CASE Start
  <2>1. /\ mode = "open" /\ mode' = "catch_up" /\ pc' = "idle" /\ pc \in {"idle", "failed"}
        /\ UNCHANGED <<lists, output_inscription, output_inscription_cache,
                       inscription_output_wb, floating, flotsam>>
    BY <1>4 DEF Start, LoopsInv, storeVars, batchVars, txVars
  <2>2. Quiet'
    BY <2>1 DEF OwnListsInv, Quiet
  <2>3. OwnLists' => HeldInv'
    BY <2>1, <2>2, EmptyHeld DEF OwnListsInv, OwnLists, Quiet
  <2> QED  BY <2>1, <2>2, <2>3 DEF OwnListsInv
<1>5. CASE CatchUp \/ Follow
  <2>1. BeginBlock(height + 1) /\ UNCHANGED <<mode, lists>> /\ mode \in {"catch_up", "tail"}
    <3>1. CASE CatchUp
      BY <3>1 DEF CatchUp, BlockToIndex, processVars
    <3>2. CASE Follow
      BY <3>2 DEF Follow, BlockToIndex, BeginBlock, LoopsInv, LoopsMeet, processVars
    <3> QED  BY <1>5, <3>1, <3>2
  <2>2. pc' \notin {"idle", "failed"}
    BY <2>1 DEF BeginBlock
  <2> QED  BY <1>0, <2>1, <2>2, HeldNext DEF OwnListsInv, OwnLists, InLoops
<1>6. CASE Step
  <2>1. /\ IndexStep /\ UNCHANGED <<mode, lists>> /\ mode \notin {"closed", "open"}
        /\ pc' # "failed" /\ (pc' = "idle" <=> pc = "flush_status")
    BY <1>6, StepFrame DEF Step, LoopsInv
  <2>2. pc' = "idle" => Quiet'
    BY <2>1
    DEF IndexStep, ScanNullInput, ScanInput, SortFloating, PlaceOnOutput, NextOutput,
        WriteOutputValue, SettleFees, LoseFloating, SettleCoinbase, FlushIdInscription,
        FlushInscriptionOutput, FlushOutputInscription, FlushStatus, DropUpdater, Quiet
  <2> QED  BY <1>0, <2>1, <2>2, HeldNext DEF OwnListsInv, OwnLists, InLoops
<1>7. CASE StepFails \/ Crash
  <2>1. DropUpdater /\ mode' \in {"closed", "open"} /\ (mode' = "open" => lists' = "reused")
    BY <1>7 DEF StepFails, Crash, Fail, Returned, Ended
  <2>2. Quiet'
    BY <2>1 DEF DropUpdater, Quiet
  <2> QED  BY <2>1, <2>2 DEF OwnListsInv, OwnLists, InLoops
<1>8. CASE FetchFails
  <2>1. /\ pc = "idle" /\ mode' \in {"closed", "open"} /\ (mode' = "open" => lists' = "reused")
        /\ UNCHANGED <<output_inscription_cache, inscription_output_wb, floating, flotsam>>
    BY <1>8 DEF FetchFails, Returned, Ended, vars, batchVars, blockVars, txVars
  <2>2. Quiet'
    BY <2>1 DEF OwnListsInv, Quiet
  <2> QED  BY <2>1, <2>2 DEF OwnListsInv, OwnLists, InLoops
<1>9. CASE IndexOutputValueFails
  <2>1. /\ mode = "open" /\ mode' \in {"closed", "open"}
        /\ UNCHANGED <<pc, lists, output_inscription, output_inscription_cache,
                       inscription_output_wb, floating, flotsam>>
    BY <1>9 DEF IndexOutputValueFails, batchVars, blockVars, txVars
  <2> QED  BY <2>1 DEF OwnListsInv, Quiet, InLoops, OwnLists
<1> QED  BY <1>1, <1>2, <1>3, <1>4, <1>5, <1>6, <1>7, <1>8, <1>9 DEF OrdiNext

\* In every process that starts with empty lists, whatever records errors and
\* crashes left it: at every step each list entry is where the record of its
\* inscription says, and no inscription has two.  It is the part of PlacesRecover
\* that does not speak of the ledger, at any height.
THEOREM EntriesAlwaysRecorded ==
    OrdiSpec => [](mode \in {"catch_up", "tail"} /\ lists # "reused" => EntriesRecorded)
<1>1. OrdiInit => OrdiInv /\ OwnListsInv
  <2> SUFFICES ASSUME OrdiInit PROVE OwnListsInv
    BY OrdiInitInv
  <2> QED  BY DEF OrdiInit, Init, OwnListsInv, Quiet, InLoops
<1>2. (OrdiInv /\ OwnListsInv) /\ [OrdiNext]_ordiVars => (OrdiInv /\ OwnListsInv)'
  BY OrdiNextType, OrdiNextLoops, OrdiNextValues, OwnListsNext DEF OrdiInv
<1>3. OrdiInv /\ OwnListsInv => (mode \in {"catch_up", "tail"} /\ lists # "reused" => EntriesRecorded)
  <2> SUFFICES ASSUME HeldInv PROVE EntriesRecorded
    BY DEF OwnListsInv, InLoops, OwnLists
  <2>1. Agree(Held, HeldAt) /\ \A id \in DOMAIN HeldAt : HeldAt[id] = Located[id]
    BY DEF HeldInv, HeldRecorded, HeldAt
  <2> QED  BY <2>1 DEF EntriesRecorded, Agree, Items, ListDistinct
<1> QED  BY <1>1, <1>2, <1>3, PTL DEF OrdiSpec
=============================================================================
