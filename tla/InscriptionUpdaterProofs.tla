---------------------- MODULE InscriptionUpdaterProofs ----------------------
(***************************************************************************)
(* Proofs about module InscriptionUpdater, for every set of well-formed    *)
(* chains, in four parts.                                                  *)
(*                                                                         *)
(* Types, with the lemmas about stores, sequences and chains that the      *)
(* other proofs use too.                                                   *)
(*                                                                         *)
(* The numbers of inscriptions: they are dense and unique, a number once   *)
(* given stays, the marks of cursed inscriptions agree with them, and the  *)
(* counters are the last thing a block writes.  Uniqueness rests on the    *)
(* ids: an inscription is revealed in one place of one transaction, so an  *)
(* id that is numbered or waits to be numbered is never that of a          *)
(* transaction still ahead.                                                *)
(*                                                                         *)
(* The places of inscriptions: each is in one list, the one its record     *)
(* names; its events chain up; and the updater, with its batches, its      *)
(* cache and four writes for a block, implements the register of module    *)
(* Registry.  An inscription that moves leaves its old list only when it   *)
(* is placed.  Until then it waits, in floating or flotsam, with what is   *)
(* needed to find the entry again; as no output is spent twice, it waits   *)
(* only once.                                                              *)
(*                                                                         *)
(* The amounts: the offsets and sums that are kept in u64 never go below   *)
(* zero, and two blessed inscriptions never share a sat.  Both rest on the *)
(* values of a block: the sums that the updater keeps while it walks are   *)
(* those of the chain, which creates no value beyond the subsidy.          *)
(***************************************************************************)
EXTENDS InscriptionUpdater, FiniteSetTheorems, WellFoundedInduction, TLAPS

-----------------------------------------------------------------------------
\* Stores keep their types under every operation on them.
LEMMA EmptyDBIsStore == ASSUME NEW K, NEW V PROVE IsStore(EmptyDB, K, V)
BY DEF IsStore, EmptyDB

LEMMA PutIsStore ==
    ASSUME NEW K, NEW V, NEW db, IsStore(db, K, V), NEW k \in K, NEW v \in V
    PROVE  IsStore(Put(db, k, v), K, V)
BY DEF IsStore, Put

LEMMA WithoutIsStore ==
    ASSUME NEW K, NEW V, NEW db, IsStore(db, K, V), NEW keys
    PROVE  IsStore(Without(db, keys), K, V)
BY DEF IsStore, Without

LEMMA WriteIsStore ==
    ASSUME NEW K, NEW V, NEW db, IsStore(db, K, V), NEW batch, IsStore(batch, K, V)
    PROVE  IsStore(Write(db, batch), K, V)
BY DEF IsStore, Write

-----------------------------------------------------------------------------
\* A sequence over S, position by position.
LEMMA SeqFromFunction ==
    ASSUME NEW S, NEW n \in Nat, NEW f, f \in [1 .. n -> S]
    PROVE  f \in Seq(S)
OBVIOUS

LEMMA SeqElement ==
    ASSUME NEW S, NEW s \in Seq(S), NEW i \in DOMAIN s
    PROVE  s[i] \in S /\ DOMAIN s = 1 .. Len(s) /\ Len(s) \in Nat
OBVIOUS

LEMMA HeadTail ==
    ASSUME NEW S, NEW s \in Seq(S), s # <<>>
    PROVE  Head(s) \in S /\ Tail(s) \in Seq(S) /\ Head(s) = s[1] /\ 1 \in DOMAIN s
OBVIOUS

\* The offset of the first floating inscription is an integer.
LEMMA HeadOffset ==
    ASSUME NEW s \in Seq(Flotsam), s # <<>>
    PROVE  Head(s).offset \in Int
<1>1. Head(s) \in Flotsam  BY HeadTail
<1> QED  BY <1>1 DEF Flotsam, OldFlotsam, NewFlotsam

\* Sorting gives a sequence of the same elements.
LEMMA StablySortedSeq ==
    ASSUME NEW S, NEW fs \in Seq(S), NEW sorted \in StablySorted(fs)
    PROVE  sorted \in Seq(S)
<1>1. PICK order \in [DOMAIN fs -> DOMAIN fs] : sorted = [i \in DOMAIN fs |-> fs[order[i]]]
  BY DEF StablySorted
<1>2. DOMAIN fs = 1 .. Len(fs) /\ Len(fs) \in Nat
  OBVIOUS
<1>3. \A i \in DOMAIN fs : fs[order[i]] \in S
  BY <1>1
<1> QED  BY <1>1, <1>2, <1>3, SeqFromFunction

\* Removing an entry from a list gives a list.
LEMMA ReplacedSeq ==
    ASSUME NEW S, NEW entries \in Seq(S), NEW entry, NEW rest \in Replaced(entries, entry)
    PROVE  rest \in Seq(S)
<1> DEFINE kept == {i \in DOMAIN entries : entries[i] # entry}
           n == Cardinality(kept)
<1>1. IsFiniteSet(kept)
  <2>1. DOMAIN entries = 1 .. Len(entries) /\ Len(entries) \in Nat  OBVIOUS
  <2>2. IsFiniteSet(1 .. Len(entries))  BY <2>1, FS_Interval
  <2> QED  BY <2>1, <2>2, FS_Subset
<1>2. n \in Nat  BY <1>1, FS_CardinalityType
<1>3. PICK pos \in [1 .. n -> kept] : rest = [i \in 1 .. n |-> entries[pos[i]]]
  BY DEF Replaced
<1>4. \A i \in 1 .. n : entries[pos[i]] \in S
  BY <1>3
<1> QED  BY <1>2, <1>3, <1>4, SeqFromFunction

-----------------------------------------------------------------------------
\* What the node serves is well-formed.
LEMMA ChainFacts ==
    ASSUME NEW c \in Chains
    PROVE  /\ c.blocks \in Seq(Block)
           /\ \A o \in DOMAIN c.value : o \in OutPoint /\ c.value[o] \in Nat
           /\ c.base \subseteq DOMAIN c.value
           /\ \A tx \in Transactions(c) : Spent(tx) \subseteq DOMAIN c.value
           /\ \A h \in DOMAIN c.blocks : Subsidy[h] \in Nat
BY ChainAssumption DEF WellFormed

\* A transaction in walking order is one of the block.
LEMMA TxInOrderType ==
    ASSUME NEW c \in Chains, NEW h \in DOMAIN c.blocks, NEW i \in 1 .. Len(c.blocks[h])
    PROVE  TxInOrder(c.blocks[h], i) \in Transaction \cap Transactions(c)
<1>1. c.blocks[h] \in Seq(Transaction) /\ c.blocks[h] # <<>>
  BY ChainFacts DEF Block
<1> DEFINE b == c.blocks[h]
<1>2. b \in Seq(Transaction) /\ Len(b) \in Nat /\ Len(b) # 0 /\ DOMAIN b = 1 .. Len(b)
  BY <1>1
<1>3. PICK j \in DOMAIN b : TxInOrder(b, i) = b[j]
  BY <1>2 DEF TxInOrder
<1>4. b[j] \in Transactions(c)  BY DEF Transactions
<1> QED  BY <1>2, <1>3, <1>4

-----------------------------------------------------------------------------
\* The inductive invariant: the types, and the chain the node serves.
TypeInv == chain \in Chains /\ TypeOK

\* The transaction at hand is one of the chain, and the values it needs exist.
LEMMA TxFacts ==
    ASSUME TypeInv, pc \in {"inputs", "outputs", "settle"}
    PROVE  /\ height \in DOMAIN chain.blocks /\ Subsidy[height] \in Nat
           /\ tx_index \in 1 .. Len(chain.blocks[height])
           /\ Tx \in Transaction /\ Spent(Tx) \subseteq DOMAIN chain.value
           /\ \A i \in DOMAIN Tx.inputs : Tx.inputs[i] \in Input
           /\ \A v \in DOMAIN Tx.outputs : Tx.outputs[v] \in Nat
           /\ DOMAIN Tx.inputs = 1 .. Len(Tx.inputs) /\ Len(Tx.inputs) \in Nat
           /\ DOMAIN Tx.outputs = 1 .. Len(Tx.outputs) /\ Len(Tx.outputs) \in Nat
<1>1. /\ height \in DOMAIN chain.blocks
      /\ tx_index \in 1 .. Len(chain.blocks[height])
  BY ChainFacts DEF TypeInv, TypeOK
<1>2. Tx \in Transaction \cap Transactions(chain)
  BY <1>1, TxInOrderType DEF Tx, TypeInv
<1>3. Tx.inputs \in Seq(Input) /\ Tx.outputs \in Seq(Nat)
  BY <1>2 DEF Transaction
<1> QED  BY <1>1, <1>2, <1>3, ChainFacts DEF TypeInv

LEMMA EntriesType ==
    ASSUME TypeInv, NEW cache, IsStore(cache, Location, Seq(Entry)), NEW location
    PROVE  Entries(cache, location) \in Seq(Entry)
BY DEF TypeInv, TypeOK, IsStore, Entries

LEMMA OutputValueType ==
    ASSUME TypeInv, NEW outpoint \in DOMAIN chain.value
    PROVE  OutputValue(outpoint) \in Nat
BY ChainFacts DEF TypeInv, TypeOK, IsStore, OutputValue

LEMMA ArrivingType ==
    ASSUME TypeInv, NEW prev \in OutPoint
    PROVE  Arriving(prev) \in Seq(Flotsam)
<1> DEFINE entries == Entries(output_inscription_cache, prev)
<1>1. entries \in Seq(Entry)
  BY EntriesType DEF TypeInv, TypeOK
<1>2. DOMAIN entries = 1 .. Len(entries) /\ Len(entries) \in Nat
  BY <1>1
<1>3. \A k \in DOMAIN entries : entries[k][1] \in Id /\ entries[k][2] \in Int
  BY <1>1 DEF Entry
<1>4. input_value \in Int  BY DEF TypeInv, TypeOK
<1>5. Arriving(prev) \in [1 .. Len(entries) -> Flotsam]
  BY <1>2, <1>3, <1>4 DEF Arriving, Flotsam, OldFlotsam
<1> QED  BY <1>2, <1>5, SeqFromFunction

LEMMA RevealedType ==
    ASSUME TypeInv, pc \in {"inputs", "outputs", "settle"},
           NEW fs, NEW i \in DOMAIN Tx.inputs, NEW total
    PROVE  Revealed(fs, i, total) \in Seq(Flotsam)
<1> DEFINE n == Tx.inputs[i].envelopes
<1>1. Tx.txid \in Nat \ {NullHash} /\ n \in Nat
  BY TxFacts DEF Transaction, Input
<1>2. id_counter \in Nat /\ input_value \in Int  BY DEF TypeInv, TypeOK
<1>3. \A k \in 1 .. n : id_counter + k - 1 \in Nat
  BY <1>1, <1>2
<1>4. \A k : Cursed(fs, i, k, input_value) \in BOOLEAN
  BY DEF Cursed
<1>5. Revealed(fs, i, total) \in [1 .. n -> Flotsam]
  BY <1>1, <1>2, <1>3, <1>4 DEF Revealed, Flotsam, NewFlotsam, Id
<1> QED  BY <1>1, <1>5, SeqFromFunction

-----------------------------------------------------------------------------
LEMMA InitType == Init => TypeInv
<1> SUFFICES ASSUME Init PROVE TypeInv
  OBVIOUS
<1>1. chain \in Chains  BY DEF Init
<1>2. IsStore(output_value, OutPoint, Nat)
  <2>1. ASSUME output_value = EmptyDB PROVE IsStore(output_value, OutPoint, Nat)
    BY <2>1, EmptyDBIsStore
  <2>2. ASSUME output_value = [o \in chain.base |-> chain.value[o]]
        PROVE  IsStore(output_value, OutPoint, Nat)
    BY <1>1, <2>2, ChainFacts DEF IsStore
  <2> QED  BY <2>1, <2>2 DEF Init
<1>3. Len(chain.blocks) \in Nat
  BY <1>1, ChainFacts
<1> QED  BY <1>1, <1>2, <1>3, EmptyDBIsStore DEF Init, TypeInv, TypeOK

\* update_inscription_state: what it writes has the right type.
LEMMA UpdateInscriptionStateType ==
    ASSUME TypeInv, pc \in {"outputs", "settle"}, floating # <<>>,
           NEW output \in OutPoint, NEW offset \in Int,
           UpdateInscriptionState(output, offset)
    PROVE  TypeInv'
<1> DEFINE f == Head(floating)
           e == <<f.id, offset>>
<1>1. f \in Flotsam /\ Tail(floating) \in Seq(Flotsam)
  BY HeadTail DEF TypeInv, TypeOK
<1>2. f.id \in Id /\ e \in Entry
  BY <1>1 DEF Flotsam, OldFlotsam, NewFlotsam, Entry
<1>3. output \in Location  BY DEF Location
<1>4. IsStore(reported', Id, OutPoint)
  BY <1>2, PutIsStore DEF UpdateInscriptionState, TypeInv, TypeOK
<1>5. /\ IsStore(cursed_id', Id, Int)
      /\ unbound_inscriptions' \in Nat /\ next_number' \in Nat /\ next_cursed_number' \in Int
      /\ IsStore(output_inscription_cache', Location, Seq(Entry))
      /\ IsStore(id_inscription_wb', Int, Id)
      /\ IsStore(inscription_output_wb', Id, Location)
  <2>1. CASE MoveInscription(f, output, offset)
    <3>1. PICK rest \in Replaced(Entries(output_inscription_cache, f.old_output),
                                 <<f.id, f.old_offset>>) :
             output_inscription_cache' =
                 LET emptied == Put(output_inscription_cache, f.old_output, rest)
                 IN  Put(emptied, output, Append(Entries(emptied, output), e))
      BY <2>1 DEF MoveInscription
    <3> DEFINE emptied == Put(output_inscription_cache, f.old_output, rest)
    <3>2. f.old_output \in Location
      BY <1>1, <2>1 DEF MoveInscription, Flotsam, OldFlotsam, NewFlotsam, Location
    <3>3. rest \in Seq(Entry)
      BY EntriesType, ReplacedSeq DEF TypeInv, TypeOK
    <3>4. IsStore(emptied, Location, Seq(Entry))
      BY <3>2, <3>3, PutIsStore DEF TypeInv, TypeOK
    <3>5. Append(Entries(emptied, output), e) \in Seq(Entry)
      BY <1>2, <3>4, EntriesType
    <3>6. IsStore(output_inscription_cache', Location, Seq(Entry))
      BY <1>3, <3>1, <3>4, <3>5, PutIsStore
    <3>7. IsStore(inscription_output_wb', Id, Location)
      BY <1>2, <1>3, <2>1, PutIsStore DEF MoveInscription, TypeInv, TypeOK
    <3> QED
      BY <2>1, <3>6, <3>7 DEF MoveInscription, counterVars, TypeInv, TypeOK
  <2>2. CASE AddInscription(f, output, offset)
    <3> DEFINE number == IF f.cursed THEN next_cursed_number ELSE next_number
               location == IF f.unbound THEN Unbound(unbound_inscriptions) ELSE output
    <3>1. /\ unbound_inscriptions \in Nat /\ next_number \in Nat
          /\ next_cursed_number \in Int
      BY DEF TypeInv, TypeOK
    <3>2. f.cursed \in BOOLEAN /\ f.unbound \in BOOLEAN
      BY <1>1, <2>2 DEF AddInscription, Flotsam, OldFlotsam, NewFlotsam
    <3>3. number \in Int /\ location \in Location
      BY <1>3, <3>1 DEF Unbound, Location, NullHash
    <3>4. Append(Entries(output_inscription_cache, location), e) \in Seq(Entry)
      BY <1>2, EntriesType DEF TypeInv, TypeOK
    <3>5. IsStore(output_inscription_cache', Location, Seq(Entry))
      BY <2>2, <3>3, <3>4, PutIsStore DEF AddInscription, TypeInv, TypeOK
    <3>6. IsStore(inscription_output_wb', Id, Location) /\ IsStore(id_inscription_wb', Int, Id)
      BY <1>2, <2>2, <3>3, PutIsStore DEF AddInscription, TypeInv, TypeOK
    <3>7. IsStore(cursed_id', Id, Int)
      BY <1>2, <2>2, <3>3, PutIsStore DEF AddInscription, Marked, TypeInv, TypeOK
    <3>8. unbound_inscriptions' \in Nat /\ next_number' \in Nat /\ next_cursed_number' \in Int
      BY <2>2, <3>1, <3>2 DEF AddInscription
    <3> QED  BY <3>5, <3>6, <3>7, <3>8
  <2> QED  BY <2>1, <2>2 DEF UpdateInscriptionState
<1> QED
  BY <1>1, <1>4, <1>5
  DEF UpdateInscriptionState, TypeInv, TypeOK, blockVars, txVars

\* An inscription is placed on an output of the transaction, or among the lost sats.
LEMMA PlacedSomewhere ==
    ASSUME TypeInv, PlaceOnOutput \/ LoseFloating
    PROVE  /\ pc \in {"outputs", "settle"} /\ floating # <<>>
           /\ \E output \in OutPoint, offset \in Int : UpdateInscriptionState(output, offset)
<1>1. floating \in Seq(Flotsam) /\ placed_value \in Int /\ lost_sats \in Int
  BY DEF TypeInv, TypeOK
<1>2. CASE PlaceOnOutput
  <2>1. pc = "outputs" /\ vout \in DOMAIN Tx.outputs /\ floating # <<>>
    BY <1>2, TxFacts DEF PlaceOnOutput, OutputsLeft, WithinOutput, TypeInv, TypeOK
  <2>2. <<Tx.txid, vout - 1>> \in OutPoint
    BY <2>1, TxFacts DEF OutPoint, Transaction
  <2>3. Head(floating).offset - placed_value \in Int
    BY <1>1, <2>1, HeadOffset
  <2> QED  BY <1>2, <2>1, <2>2, <2>3 DEF PlaceOnOutput
<1>3. CASE LoseFloating
  <2>1. pc = "settle" /\ floating # <<>>
    BY <1>3 DEF LoseFloating
  <2>2. NullOutPoint \in OutPoint
    BY ChainAssumption DEF NullOutPoint, OutPoint, NullHash
  <2>3. lost_sats + Head(floating).offset - placed_value \in Int
    BY <1>1, <2>1, HeadOffset
  <2> QED  BY <1>3, <2>1, <2>2, <2>3 DEF LoseFloating
<1> QED  BY <1>2, <1>3

-----------------------------------------------------------------------------
\* Every step keeps the types: one step of the proof per action.
LEMMA NextType == TypeInv /\ [Next]_vars => TypeInv'
<1> SUFFICES ASSUME TypeInv, [Next]_vars PROVE TypeInv'
  OBVIOUS
<1> USE DEF TypeInv
<1>1. CASE BeginBlock(height + 1)
  <2>1. height + 1 \in DOMAIN chain.blocks /\ Subsidy[height + 1] \in Nat
    BY <1>1, ChainFacts DEF BeginBlock, Served
  <2>2. chain.blocks[height + 1] \in Seq(Transaction) /\ chain.blocks[height + 1] # <<>>
    BY <2>1, ChainFacts DEF Block
  <2>3. /\ height' \in 1 .. Len(chain.blocks) /\ height' # 0
        /\ tx_index' \in 1 .. Len(chain.blocks[height'])
    <3>1. height' = height + 1 /\ tx_index' = 1  BY <1>1 DEF BeginBlock, EnterTx
    <3>2. DOMAIN chain.blocks = 1 .. Len(chain.blocks)  BY ChainFacts
    <3>3. Len(chain.blocks[height + 1]) \in Nat \ {0}  BY <2>2
    <3>4. height' \in 1 .. Len(chain.blocks)  BY <2>1, <3>1, <3>2
    <3>5. tx_index' \in 1 .. Len(chain.blocks[height'])  BY <3>1, <3>3
    <3> QED  BY <3>4, <3>5
  <2>4. /\ unbound_inscriptions' \in Nat /\ next_number' \in Nat
        /\ next_cursed_number' \in Int /\ lost_sats' \in Int /\ reward' \in Int
    <3>1. /\ status.unbound_inscriptions \in Nat /\ status.next_id_number \in Nat
          /\ status.next_cursed_id_number \in Int /\ status.lost_sats \in Int
      BY DEF TypeOK
    <3>2. LoadedCursed \in Int  BY <3>1 DEF LoadedCursed
    <3> QED  BY <1>1, <2>1, <3>1, <3>2 DEF BeginBlock
  <2> QED
    BY <1>1, <2>3, <2>4, EmptyDBIsStore
    DEF BeginBlock, EnterTx, TypeOK, storeVars
<1>2. CASE ScanNullInput
  <2>1. Subsidy[height] \in Nat  BY <1>2, TxFacts DEF ScanNullInput
  <2>2. input_value' \in Int /\ input_index' \in Nat /\ input_index' # 0
    <3>1. input_value \in Int /\ input_index \in Nat  BY DEF TypeOK
    <3> QED  BY <1>2, <2>1, <3>1 DEF ScanNullInput
  <2> QED
    BY <1>2, <2>2
    DEF ScanNullInput, TypeOK, storeVars, counterVars, batchVars, blockVars
<1>3. CASE ScanInput
  <2> DEFINE input == Tx.inputs[input_index]
             prev == input.prev
             entries == Entries(output_inscription_cache, prev)
             arrived == floating \o Arriving(prev)
             total == input_value + OutputValue(prev)
  <2>1. pc = "inputs" /\ input_index \in DOMAIN Tx.inputs
    <3>1. pc = "inputs" /\ input_index <= Len(Tx.inputs)
      BY <1>3 DEF ScanInput, InputsLeft
    <3>2. input_index \in Nat /\ input_index # 0  BY <3>1 DEF TypeOK
    <3> QED  BY <3>1, <3>2, TxFacts
  <2>2. prev \in OutPoint /\ input.envelopes \in Nat
    BY <2>1, TxFacts DEF Input
  <2>3. prev \in DOMAIN chain.value
    BY <1>3, <2>1, TxFacts DEF ScanInput, Spent, IsNull
  <2>4. total \in Int
    BY <2>3, OutputValueType DEF TypeOK
  <2>5. arrived \in Seq(Flotsam)
    BY <2>2, ArrivingType DEF TypeOK
  <2>6. floating' \in Seq(Flotsam)
    <3>1. floating' = arrived \o Revealed(arrived, input_index, total)
      BY <1>3 DEF ScanInput
    <3>2. Revealed(arrived, input_index, total) \in Seq(Flotsam)
      BY <2>1, RevealedType
    <3> HIDE DEF arrived
    <3> QED  BY <2>5, <3>1, <3>2
  <2>7. IsStore(output_inscription_cache', Location, Seq(Entry))
    <3>1. entries \in Seq(Entry) /\ prev \in Location
      BY <2>2, EntriesType DEF TypeOK, Location
    <3> QED  BY <1>3, <3>1, PutIsStore DEF ScanInput, TypeOK
  <2>8. input_value' \in Int /\ id_counter' \in Nat /\ input_index' \in Nat /\ input_index' # 0
    <3>1. id_counter \in Nat /\ input_index \in Nat  BY DEF TypeOK
    <3> QED  BY <1>3, <2>2, <2>4, <3>1 DEF ScanInput
  <2> QED
    BY <1>3, <2>1, <2>6, <2>7, <2>8
    DEF ScanInput, TypeOK, storeVars, counterVars, blockVars
<1>4. CASE SortFloating
  <2>1. floating \in Seq(Flotsam) /\ floating \o flotsam \in Seq(Flotsam)
    BY DEF TypeOK
  <2>2. floating' \in Seq(Flotsam) /\ flotsam' \in Seq(Flotsam)
    <3>1. floating' \in StablySorted(IF IsCoinbase(Tx) THEN floating \o flotsam ELSE floating)
      BY <1>4 DEF SortFloating
    <3>2. floating' \in Seq(Flotsam)
      <4>1. CASE IsCoinbase(Tx)  BY <2>1, <3>1, <4>1, StablySortedSeq
      <4>2. CASE ~ IsCoinbase(Tx)  BY <2>1, <3>1, <4>2, StablySortedSeq
      <4> QED  BY <4>1, <4>2
    <3>3. flotsam' = <<>> \/ flotsam' = flotsam
      BY <1>4 DEF SortFloating
    <3>4. flotsam \in Seq(Flotsam) /\ <<>> \in Seq(Flotsam)
      BY DEF TypeOK
    <3> QED  BY <3>2, <3>3, <3>4
  <2> QED
    BY <1>4, <2>2
    DEF SortFloating, TypeOK, storeVars, counterVars, batchVars, txVars
<1>5. CASE PlaceOnOutput
  BY <1>5, PlacedSomewhere, UpdateInscriptionStateType
<1>6. CASE NextOutput
  <2>1. pc = "outputs" /\ Tx.outputs[vout] \in Nat
    <3>1. pc = "outputs" /\ vout <= Len(Tx.outputs)
      BY <1>6 DEF NextOutput, OutputsLeft
    <3>2. vout \in Nat /\ vout # 0  BY <3>1 DEF TypeOK
    <3>3. vout \in DOMAIN Tx.outputs  BY <3>1, <3>2, TxFacts
    <3> QED  BY <3>1, <3>3, TxFacts
  <2>2. placed_value' \in Int /\ vout' \in Nat /\ vout' # 0
    <3>1. placed_value \in Int /\ vout \in Nat  BY DEF TypeOK
    <3> QED  BY <1>6, <2>1, <3>1 DEF NextOutput
  <2> QED
    BY <1>6, <2>1, <2>2
    DEF NextOutput, TypeOK, storeVars, counterVars, batchVars, blockVars
<1>7. CASE WriteOutputValue
  <2>1. pc = "outputs"  BY <1>7 DEF WriteOutputValue
  <2>2. IsStore([o \in Created(Tx) |-> Tx.outputs[o[2] + 1]], OutPoint, Nat)
    <3>1. SUFFICES ASSUME NEW o \in Created(Tx)
                   PROVE  o \in OutPoint /\ Tx.outputs[o[2] + 1] \in Nat
      BY DEF IsStore
    <3>2. PICK v \in 0 .. Len(Tx.outputs) - 1 : o = <<Tx.txid, v>>
      BY DEF Created
    <3>3. Tx.txid \in Nat /\ v \in Nat /\ v + 1 \in DOMAIN Tx.outputs /\ o[2] = v
      BY <2>1, <3>2, TxFacts DEF Transaction
    <3> QED  BY <2>1, <3>2, <3>3, TxFacts DEF OutPoint
  <2>3. IsStore(output_value', OutPoint, Nat)
    BY <1>7, <2>2, WithoutIsStore, WriteIsStore DEF WriteOutputValue, ValuesAfter, TypeOK
  <2> QED
    BY <1>7, <2>3 DEF WriteOutputValue, TypeOK, counterVars, batchVars, blockVars, txVars
<1>8. CASE SettleFees
  <2> DEFINE moved == [k \in DOMAIN floating |-> InFees(floating[k])]
  <2>1. pc = "settle" /\ reward \in Int /\ placed_value \in Int /\ input_value \in Int
    BY <1>8 DEF SettleFees, TypeOK
  <2>2. DOMAIN floating = 1 .. Len(floating) /\ Len(floating) \in Nat
    BY DEF TypeOK
  <2>3. moved \in [1 .. Len(floating) -> Flotsam]
    <3>1. SUFFICES ASSUME NEW k \in DOMAIN floating
                   PROVE  InFees(floating[k]) \in Flotsam
      BY <2>2
    <3>2. floating[k] \in Flotsam  BY DEF TypeOK
    <3>3. reward + floating[k].offset - placed_value \in Int
      BY <2>1, <3>2 DEF Flotsam, OldFlotsam, NewFlotsam
    <3> QED  BY <3>2, <3>3 DEF InFees, Flotsam, OldFlotsam, NewFlotsam
  <2>4. flotsam' \in Seq(Flotsam)
    <3>1. moved \in Seq(Flotsam)  BY <2>2, <2>3, SeqFromFunction
    <3> QED  BY <1>8, <3>1 DEF SettleFees, TypeOK
  <2>5. tx_index \in 1 .. Len(chain.blocks[height]) /\ Len(chain.blocks[height]) \in Nat
    <3>1. chain.blocks[height] \in Seq(Transaction)
      BY <2>1, TxFacts, ChainFacts DEF Block
    <3> QED  BY <2>1, <3>1, TxFacts
  <2>6. /\ reward' \in Int
        /\ tx_index' \in Nat /\ tx_index' = tx_index + 1
        /\ pc' = "inputs" => tx_index' \in 1 .. Len(chain.blocks[height])
        /\ pc' \in {"inputs", "flush_id_inscription"}
    BY <1>8, <2>1, <2>5 DEF SettleFees, FinishTx, EnterTx
  <2> QED
    BY <1>8, <2>1, <2>4, <2>6
    DEF SettleFees, FinishTx, EnterTx, TypeOK, storeVars, counterVars, batchVars
<1>9. CASE LoseFloating
  BY <1>9, PlacedSomewhere, UpdateInscriptionStateType
<1>10. CASE SettleCoinbase
  <2>1. tx_index \in 1 .. Len(chain.blocks[height]) /\ Len(chain.blocks[height]) \in Nat
    <3>1. chain.blocks[height] \in Seq(Transaction)
      BY <1>10, TxFacts, ChainFacts DEF SettleCoinbase, Block
    <3> QED  BY <1>10, <3>1, TxFacts DEF SettleCoinbase
  <2> QED
    BY <1>10, <2>1
    DEF SettleCoinbase, FinishTx, EnterTx, TypeOK, storeVars, counterVars, batchVars
<1>11. CASE FlushIdInscription
  BY <1>11, WriteIsStore
  DEF FlushIdInscription, TypeOK, counterVars, batchVars, blockVars, txVars
<1>12. CASE FlushInscriptionOutput
  BY <1>12, WriteIsStore
  DEF FlushInscriptionOutput, TypeOK, counterVars, batchVars, blockVars, txVars
<1>13. CASE FlushOutputInscription
  BY <1>13, WriteIsStore, WithoutIsStore
  DEF FlushOutputInscription, ListsAfter, TypeOK, counterVars, batchVars, blockVars, txVars
<1>14. CASE FlushStatus
  BY <1>14, EmptyDBIsStore
  DEF FlushStatus, Counters, DropUpdater, TypeOK
<1>15. CASE Fail
  BY <1>15, EmptyDBIsStore
  DEF Fail, DropUpdater, TypeOK, storeVars
<1>16. CASE UNCHANGED vars
  BY <1>16
  DEF vars, TypeOK, storeVars, counterVars, batchVars, blockVars, txVars
<1> QED
  BY <1>1, <1>2, <1>3, <1>4, <1>5, <1>6, <1>7, <1>8, <1>9, <1>10, <1>11, <1>12, <1>13,
     <1>14, <1>15, <1>16
  DEF Next, IndexStep

\* Every variable keeps its type, for every set of well-formed chains.
THEOREM TypeCorrect == Spec => []TypeOK
<1>1. Init => TypeInv  BY InitType
<1>2. TypeInv /\ [Next]_vars => TypeInv'  BY NextType
<1>3. TypeInv => TypeOK  BY DEF TypeInv
<1> QED  BY <1>1, <1>2, <1>3, PTL DEF Spec

-----------------------------------------------------------------------------
\* The ids that wait in a list of floating inscriptions for their number.
NewAt(s) == {k \in DOMAIN s : s[k].kind = "new"}
NewIds(s) == {s[k].id : k \in NewAt(s)}
Distinct(s) == \A j, k \in NewAt(s) : s[j].id = s[k].id => j = k

NumberedIds == {Numbered[n] : n \in DOMAIN Numbered}
KnownIds == NumberedIds \cup NewIds(floating) \cup NewIds(flotsam)

\* The transactions of the chain that are still to be entered.
InLaterBlock(tx) == \E g \in DOMAIN chain.blocks :
    g > height /\ \E i \in DOMAIN chain.blocks[g] : tx = chain.blocks[g][i]
LaterInBlock(tx) == \E j \in tx_index + 1 .. Len(chain.blocks[height]) :
    tx = TxInOrder(chain.blocks[height], j)
Ahead(tx) == InLaterBlock(tx) \/ (pc # "idle" /\ LaterInBlock(tx))

-----------------------------------------------------------------------------
\* The parts of the invariant.
DenseInv ==
    /\ DOMAIN Numbered = (NextCursed + 1 .. -1) \cup (0 .. NextBlessed - 1)
    /\ NextCursed < 0 /\ NextBlessed >= 0
    /\ pc # "idle" => next_cursed_number < 0

UniqueInv ==
    /\ \A m, n \in DOMAIN Numbered : Numbered[m] = Numbered[n] => m = n
    /\ Distinct(floating) /\ Distinct(flotsam)
    /\ NewIds(floating) \cap NewIds(flotsam) = {}
    /\ (NewIds(floating) \cup NewIds(flotsam)) \cap NumberedIds = {}

AheadInv ==
    /\ \A id \in KnownIds : \A tx \in Transactions(chain) : Ahead(tx) => id[1] # tx.txid
    /\ pc = "inputs" =>
          \A id \in KnownIds : id[1] = Tx.txid => id \in NewIds(floating) /\ id[2] < id_counter

MarkInv ==
    /\ \A id \in DOMAIN cursed_id :
          cursed_id[id] < 0 /\ cursed_id[id] \in DOMAIN Numbered /\ Numbered[cursed_id[id]] = id
    /\ \A n \in DOMAIN Numbered : n < 0 => Numbered[n] \in DOMAIN cursed_id

\* How far the flush is: stores already written hold all there is.
FlushInv ==
    /\ \A n \in DOMAIN id_inscription : n \in DOMAIN Numbered /\ Numbered[n] = id_inscription[n]
    /\ NumberedIds \subseteq DOMAIN Located
    /\ pc \in {"flush_inscription_output", "flush_output_inscription", "flush_status", "idle"} =>
          DOMAIN Numbered \subseteq DOMAIN id_inscription
    /\ pc \in {"flush_output_inscription", "flush_status", "idle"} =>
          DOMAIN Located \subseteq DOMAIN inscription_output

NumbersInv ==
    /\ TypeInv
    /\ Working => DenseInv /\ UniqueInv /\ AheadInv /\ MarkInv /\ FlushInv
    /\ CountersTrailStores

-----------------------------------------------------------------------------
\* Stores, key by key.
LEMMA WriteAt ==
    ASSUME NEW db, NEW batch
    PROVE  /\ DOMAIN Write(db, batch) = DOMAIN db \cup DOMAIN batch
           /\ \A x \in DOMAIN batch : Write(db, batch)[x] = batch[x]
           /\ \A x \in DOMAIN db \ DOMAIN batch : Write(db, batch)[x] = db[x]
BY DEF Write

LEMMA WriteEmpty ==
    ASSUME NEW db
    PROVE  /\ DOMAIN Write(db, EmptyDB) = DOMAIN db
           /\ \A x \in DOMAIN db : Write(db, EmptyDB)[x] = db[x]
BY DEF Write, EmptyDB

LEMMA WriteTwice ==
    ASSUME NEW db, NEW batch
    PROVE  Write(Write(db, batch), batch) = Write(db, batch)
BY DEF Write

-----------------------------------------------------------------------------
\* Lists of floating inscriptions: what is done to them neither invents nor
\* doubles an id that waits for its number.
LEMMA NewIdsConcat ==
    ASSUME NEW s \in Seq(Flotsam), NEW t \in Seq(Flotsam), Distinct(s), Distinct(t),
           NewIds(s) \cap NewIds(t) = {}
    PROVE  NewIds(s \o t) = NewIds(s) \cup NewIds(t) /\ Distinct(s \o t)
<1> DEFINE m == Len(s)
           n == Len(t)
<1>1. m \in Nat /\ n \in Nat /\ DOMAIN s = 1 .. m /\ DOMAIN t = 1 .. n
  OBVIOUS
<1>2. DOMAIN (s \o t) = 1 .. m + n
  BY <1>1
<1>3. \A k \in 1 .. m + n : (s \o t)[k] = IF k <= m THEN s[k] ELSE t[k - m]
  BY <1>1
<1>4. \A k \in NewAt(s \o t) : k \in NewAt(s) \/ (k - m \in NewAt(t) /\ k > m)
  BY <1>1, <1>2, <1>3 DEF NewAt
<1>5. NewIds(s \o t) \subseteq NewIds(s) \cup NewIds(t)
  BY <1>1, <1>2, <1>3, <1>4 DEF NewIds, NewAt
<1>6. NewIds(s) \subseteq NewIds(s \o t)
  BY <1>1, <1>2, <1>3 DEF NewIds, NewAt
<1>7. NewIds(t) \subseteq NewIds(s \o t)
  <2>1. SUFFICES ASSUME NEW k \in NewAt(t) PROVE t[k].id \in NewIds(s \o t)
    BY DEF NewIds
  <2>2. k + m \in 1 .. m + n /\ (s \o t)[k + m] = t[k]
    BY <1>1, <1>3 DEF NewAt
  <2> QED  BY <1>2, <2>2 DEF NewIds, NewAt
<1>8. Distinct(s \o t)
  <2>1. SUFFICES ASSUME NEW j \in NewAt(s \o t), NEW k \in NewAt(s \o t),
                        (s \o t)[j].id = (s \o t)[k].id
                 PROVE  j = k
    BY DEF Distinct
  <2>2. j \in 1 .. m + n /\ k \in 1 .. m + n
    BY <1>2 DEF NewAt
  <2>3. CASE j <= m /\ k <= m
    BY <1>1, <1>3, <1>4, <2>1, <2>2, <2>3 DEF Distinct, NewAt
  <2>4. CASE j > m /\ k > m
    <3>1. j - m \in NewAt(t) /\ k - m \in NewAt(t) /\ t[j - m].id = t[k - m].id
      BY <1>1, <1>2, <1>3, <2>1, <2>2, <2>4 DEF NewAt
    <3> QED  BY <1>1, <2>2, <3>1 DEF Distinct
  <2>5. CASE j <= m /\ k > m
    <3>1. j \in NewAt(s) /\ k - m \in NewAt(t) /\ s[j].id = t[k - m].id
      BY <1>1, <1>2, <1>3, <2>1, <2>2, <2>5 DEF NewAt
    <3> QED  BY <3>1 DEF NewIds
  <2>6. CASE j > m /\ k <= m
    <3>1. k \in NewAt(s) /\ j - m \in NewAt(t) /\ s[k].id = t[j - m].id
      BY <1>1, <1>2, <1>3, <2>1, <2>2, <2>6 DEF NewAt
    <3> QED  BY <3>1 DEF NewIds
  <2> QED  BY <1>1, <2>2, <2>3, <2>4, <2>5, <2>6
<1> QED  BY <1>5, <1>6, <1>7, <1>8

\* A sorting order takes every position once.
LEMMA SortedInjective ==
    ASSUME NEW s \in Seq(Flotsam), NEW order \in [DOMAIN s -> DOMAIN s], SortedBy(s, order),
           NEW i \in DOMAIN s, NEW j \in DOMAIN s, order[i] = order[j]
    PROVE  i = j
<1>1. DOMAIN s = 1 .. Len(s) /\ Len(s) \in Nat
  OBVIOUS
<1>2. ASSUME NEW k \in DOMAIN s, NEW l \in DOMAIN s, k < l PROVE order[k] # order[l]
  <2>1. s[order[k]].offset < s[order[l]].offset \/ order[k] < order[l]
    BY <1>2 DEF SortedBy
  <2>2. order[k] \in Int /\ s[order[k]].offset \in Int
    <3>1. order[k] \in 1 .. Len(s)
      BY <1>1
    <3>2. s[order[k]] \in Flotsam
      BY <3>1
    <3> QED  BY <1>1, <3>1, <3>2 DEF Flotsam, OldFlotsam, NewFlotsam
  <2> QED  BY <2>1, <2>2
<1> QED  BY <1>1, <1>2

LEMMA NewIdsSorted ==
    ASSUME NEW s \in Seq(Flotsam), Distinct(s), NEW sorted \in StablySorted(s)
    PROVE  NewIds(sorted) \subseteq NewIds(s) /\ Distinct(sorted)
<1>1. PICK order \in [DOMAIN s -> DOMAIN s] :
         SortedBy(s, order) /\ sorted = [i \in DOMAIN s |-> s[order[i]]]
  BY DEF StablySorted
<1>3. \A i, j \in DOMAIN s : order[i] = order[j] => i = j
  BY <1>1, SortedInjective
<1>4. \A i \in NewAt(sorted) : i \in DOMAIN s /\ order[i] \in NewAt(s) /\ sorted[i].id = s[order[i]].id
  BY <1>1 DEF NewAt
<1>5. NewIds(sorted) \subseteq NewIds(s)
  BY <1>4 DEF NewIds
<1>6. Distinct(sorted)
  BY <1>3, <1>4 DEF Distinct
<1> QED  BY <1>5, <1>6

LEMMA NewIdsTail ==
    ASSUME NEW s \in Seq(Flotsam), s # <<>>, Distinct(s)
    PROVE  /\ NewIds(Tail(s)) \subseteq NewIds(s) /\ Distinct(Tail(s))
           /\ Head(s).kind = "new" =>
                 Head(s).id \in NewIds(s) /\ Head(s).id \notin NewIds(Tail(s))
<1>1. DOMAIN s = 1 .. Len(s) /\ Len(s) \in Nat /\ Len(s) # 0 /\ Head(s) = s[1]
  OBVIOUS
<1>2. DOMAIN Tail(s) = 1 .. Len(s) - 1 /\ \A k \in 1 .. Len(s) - 1 : Tail(s)[k] = s[k + 1]
  BY <1>1
<1>3. \A k \in NewAt(Tail(s)) : k \in Nat /\ k # 0 /\ k + 1 \in NewAt(s) /\ Tail(s)[k] = s[k + 1]
  BY <1>1, <1>2 DEF NewAt
<1>4. Distinct(Tail(s))
  <2>1. SUFFICES ASSUME NEW j \in NewAt(Tail(s)), NEW k \in NewAt(Tail(s)),
                        Tail(s)[j].id = Tail(s)[k].id
                 PROVE  j = k
    BY DEF Distinct
  <2>2. j + 1 = k + 1  BY <1>3, <2>1 DEF Distinct
  <2> QED  BY <1>3, <2>2
<1>5. NewIds(Tail(s)) \subseteq NewIds(s)
  BY <1>3 DEF NewIds
<1>6. ASSUME Head(s).kind = "new"
      PROVE  Head(s).id \in NewIds(s) /\ Head(s).id \notin NewIds(Tail(s))
  <2>1. 1 \in NewAt(s)  BY <1>1, <1>6 DEF NewAt
  <2>2. ASSUME NEW k \in NewAt(Tail(s)), Tail(s)[k].id = Head(s).id PROVE FALSE
    <3>1. k + 1 = 1  BY <1>1, <1>3, <2>1, <2>2 DEF Distinct
    <3> QED  BY <1>3, <3>1
  <2> QED  BY <1>1, <2>1, <2>2 DEF NewIds
<1> QED  BY <1>4, <1>5, <1>6

\* Inscriptions that arrive have their number already.
LEMMA ArrivingIsOld == ASSUME NEW prev PROVE NewIds(Arriving(prev)) = {} /\ Distinct(Arriving(prev))
BY DEF Arriving, NewIds, NewAt, Distinct

LEMMA EmptyList == NewIds(<<>>) = {} /\ Distinct(<<>>)
BY DEF NewIds, NewAt, Distinct

\* The ids revealed in an input are new ones of the transaction at hand.
LEMMA RevealedIds ==
    ASSUME TypeInv, pc = "inputs", NEW fs, NEW i \in DOMAIN Tx.inputs, NEW total
    PROVE  /\ Distinct(Revealed(fs, i, total))
           /\ \A id \in NewIds(Revealed(fs, i, total)) :
                 /\ id[1] = Tx.txid
                 /\ id[2] >= id_counter /\ id[2] < id_counter + Tx.inputs[i].envelopes
<1> DEFINE n == Tx.inputs[i].envelopes
           r == Revealed(fs, i, total)
<1>1. n \in Nat /\ id_counter \in Nat
  BY TxFacts DEF TypeInv, TypeOK, Input
<1>2. DOMAIN r = 1 .. n /\ \A k \in 1 .. n : r[k].id = <<Tx.txid, id_counter + k - 1>>
  BY DEF Revealed
<1>3. \A k \in 1 .. n :
         r[k].id[1] = Tx.txid /\ r[k].id[2] = id_counter + k - 1
  BY <1>2
<1>4. Distinct(r)
  <2>1. SUFFICES ASSUME NEW j \in 1 .. n, NEW k \in 1 .. n, r[j].id = r[k].id PROVE j = k
    BY <1>2 DEF Distinct, NewAt
  <2>2. id_counter + j - 1 = id_counter + k - 1  BY <1>3, <2>1
  <2> QED  BY <1>1, <2>2
<1>5. ASSUME NEW id \in NewIds(r)
      PROVE  id[1] = Tx.txid /\ id[2] >= id_counter /\ id[2] < id_counter + n
  <2>1. PICK k \in 1 .. n : id = r[k].id  BY <1>2 DEF NewIds, NewAt
  <2> QED  BY <1>1, <1>3, <2>1
<1> QED  BY <1>4, <1>5

-----------------------------------------------------------------------------
\* The position in its block of the i-th transaction in walking order.
LEMMA WalkPosition ==
    ASSUME NEW c \in Chains, NEW h \in DOMAIN c.blocks
    PROVE  /\ Len(c.blocks[h]) \in Nat /\ Len(c.blocks[h]) # 0
           /\ DOMAIN c.blocks[h] = 1 .. Len(c.blocks[h])
           /\ \A i \in 1 .. Len(c.blocks[h]) :
                 TxInOrder(c.blocks[h], i)
                     = c.blocks[h][IF i < Len(c.blocks[h]) THEN i + 1 ELSE 1]
<1>1. c.blocks[h] \in Seq(Transaction) /\ c.blocks[h] # <<>>
  BY ChainFacts DEF Block
<1> QED  BY <1>1 DEF TxInOrder

\* No transaction ahead has the id of the one at hand.
LEMMA AheadDiffers ==
    ASSUME TypeInv, pc \in {"inputs", "outputs", "settle"}, NEW tx, Ahead(tx)
    PROVE  tx.txid # Tx.txid
<1> DEFINE b == chain.blocks[height]
           n == Len(b)
           at(i) == IF i < n THEN i + 1 ELSE 1
<1>1. chain \in Chains /\ height \in DOMAIN chain.blocks /\ tx_index \in 1 .. n /\ height \in Nat
  BY TxFacts DEF TypeInv, TypeOK
<1>2. TxidsUnique(chain.blocks)
  BY <1>1, ChainAssumption DEF WellFormed
<1>3. n \in Nat /\ DOMAIN b = 1 .. n /\ n # 0
  BY <1>1, WalkPosition
<1>4. at(tx_index) \in DOMAIN b /\ Tx = b[at(tx_index)]
  BY <1>1, <1>3, WalkPosition DEF Tx
<1>5. CASE InLaterBlock(tx)
  <2>1. PICK g \in DOMAIN chain.blocks : g > height /\ \E i \in DOMAIN chain.blocks[g] : tx = chain.blocks[g][i]
    BY <1>5 DEF InLaterBlock
  <2>2. g # height  BY <1>1, <2>1
  <2> QED  BY <1>1, <1>2, <1>4, <2>1, <2>2 DEF TxidsUnique
<1>6. CASE LaterInBlock(tx)
  <2>1. PICK j \in tx_index + 1 .. n : tx = TxInOrder(b, j)
    BY <1>6 DEF LaterInBlock
  <2>2. j \in 1 .. n /\ tx_index < j
    BY <1>1, <1>3, <2>1
  <2>3. at(j) \in DOMAIN b /\ tx = b[at(j)] /\ at(j) # at(tx_index)
    BY <1>1, <1>3, <2>1, <2>2, WalkPosition
  <2> QED  BY <1>1, <1>2, <1>4, <2>3 DEF TxidsUnique
<1> QED  BY <1>5, <1>6 DEF Ahead

-----------------------------------------------------------------------------
\* Steps that number nothing: the records, the counters and what is ahead stay,
\* and the floating inscriptions are at most moved or put in another order.
Untouched ==
    UNCHANGED <<chain, status, cursed_id, id_inscription, next_number, next_cursed_number,
                id_inscription_wb, height>>

LEMMA ListsMove ==
    ASSUME NumbersInv, Working, Untouched, TypeInv', Working',
           pc # "idle", pc' # "idle",
           UNCHANGED tx_index,
           NewIds(floating') \cup NewIds(flotsam') \subseteq NewIds(floating) \cup NewIds(flotsam),
           Distinct(floating'), Distinct(flotsam'),
           NewIds(floating') \cap NewIds(flotsam') = {},
           pc' = "inputs" => pc = "inputs" /\ UNCHANGED <<floating, flotsam, id_counter>>
    PROVE  (DenseInv /\ UniqueInv /\ AheadInv /\ MarkInv)'
<1>1. Numbered' = Numbered /\ NextBlessed' = NextBlessed /\ NextCursed' = NextCursed
  BY DEF Untouched, Numbered, NextBlessed, NextCursed
<1>2. NumberedIds' = NumberedIds
  BY <1>1 DEF NumberedIds
<1>3. DenseInv'
  BY <1>1 DEF NumbersInv, DenseInv, Untouched
<1>4. UniqueInv'
  BY <1>1, <1>2 DEF NumbersInv, UniqueInv
<1>5. MarkInv'
  BY <1>1 DEF NumbersInv, MarkInv, Untouched
<1>6. KnownIds' \subseteq KnownIds
  BY <1>2 DEF KnownIds
<1>7. \A tx : Ahead(tx)' => Ahead(tx)
  BY DEF Ahead, InLaterBlock, LaterInBlock, Untouched
<1>8. AheadInv'
  <2>1. \A id \in KnownIds' : \A tx \in Transactions(chain') : Ahead(tx)' => id[1] # tx.txid
    BY <1>6, <1>7 DEF NumbersInv, AheadInv, Untouched
  <2>2. ASSUME pc' = "inputs"
        PROVE  \A id \in KnownIds' : id[1] = Tx'.txid => id \in NewIds(floating') /\ id[2] < id_counter'
    <3>1. Tx' = Tx /\ pc = "inputs" /\ UNCHANGED <<floating, id_counter>>
      BY <2>2 DEF Tx, Untouched
    <3> QED  BY <1>6, <3>1 DEF NumbersInv, AheadInv
  <2> QED  BY <2>1, <2>2 DEF AheadInv
<1> QED  BY <1>3, <1>4, <1>5, <1>8

\* The flush has not begun.
LEMMA FlushNotBegun ==
    ASSUME NumbersInv, Working, Untouched, UNCHANGED inscription_output,
           DOMAIN inscription_output_wb \subseteq DOMAIN inscription_output_wb',
           pc' \in {"inputs", "outputs", "settle", "flush_id_inscription"}
    PROVE  FlushInv' /\ CountersTrailStores'
<1>1. Numbered' = Numbered
  BY DEF Untouched, Numbered
<1>2. DOMAIN Located \subseteq DOMAIN Located'
  <2>1. DOMAIN Located = DOMAIN inscription_output \cup DOMAIN inscription_output_wb
    BY WriteAt DEF Located
  <2>2. DOMAIN Located' = DOMAIN inscription_output' \cup DOMAIN inscription_output_wb'
    BY DEF Located, Write
  <2> QED  BY <2>1, <2>2
<1>3. FlushInv'
  BY <1>1, <1>2 DEF NumbersInv, FlushInv, NumberedIds, Untouched
<1>4. CountersTrailStores'
  BY DEF NumbersInv, CountersTrailStores, Untouched
<1> QED  BY <1>3, <1>4

-----------------------------------------------------------------------------
\* An inscription that moves keeps its number.
LEMMA MoveStep ==
    ASSUME NumbersInv, TypeInv', pc \in {"outputs", "settle"}, floating # <<>>,
           NEW output, NEW offset, UpdateInscriptionState(output, offset),
           MoveInscription(Head(floating), output, offset)
    PROVE  NumbersInv'
<1>1. floating \in Seq(Flotsam) /\ Distinct(floating)
  BY DEF NumbersInv, UniqueInv, TypeInv, TypeOK, Working
<1>2. NewIds(floating') \subseteq NewIds(floating) /\ Distinct(floating')
  BY <1>1, NewIdsTail DEF UpdateInscriptionState
<1>3. Untouched /\ UNCHANGED <<tx_index, flotsam, pc, inscription_output>>
  BY DEF UpdateInscriptionState, MoveInscription, Untouched, counterVars, blockVars, txVars
<1>4. Working /\ Working'
  BY <1>3 DEF Working
<1>5. (DenseInv /\ UniqueInv /\ AheadInv /\ MarkInv)'
  BY <1>2, <1>3, <1>4, ListsMove DEF NumbersInv, UniqueInv
<1>6. DOMAIN inscription_output_wb \subseteq DOMAIN inscription_output_wb'
  BY DEF MoveInscription, Put
<1>7. FlushInv' /\ CountersTrailStores'
  BY <1>3, <1>4, <1>6, FlushNotBegun
<1> QED  BY <1>5, <1>7 DEF NumbersInv

\* A new inscription gets a number of its own, and its mark if it is cursed.
LEMMA AddStep ==
    ASSUME NumbersInv, TypeInv', pc \in {"outputs", "settle"}, floating # <<>>,
           NEW output, NEW offset, UpdateInscriptionState(output, offset),
           AddInscription(Head(floating), output, offset)
    PROVE  NumbersInv'
<1> DEFINE f == Head(floating)
           number == IF f.cursed THEN next_cursed_number ELSE next_number
<1>1. floating \in Seq(Flotsam) /\ Distinct(floating) /\ f \in Flotsam /\ f.kind = "new"
  BY HeadTail DEF NumbersInv, UniqueInv, TypeInv, TypeOK, Working, AddInscription
<1>2. /\ NewIds(floating') \subseteq NewIds(floating) /\ Distinct(floating')
      /\ f.id \in NewIds(floating) /\ f.id \notin NewIds(floating')
  BY <1>1, NewIdsTail DEF UpdateInscriptionState
<1>3. /\ UNCHANGED <<chain, status, id_inscription, inscription_output, height, flotsam,
                     tx_index, pc>>
      /\ id_inscription_wb' = Put(id_inscription_wb, number, f.id)
      /\ \E location : inscription_output_wb' = Put(inscription_output_wb, f.id, location)
      /\ cursed_id' = IF f.cursed THEN Put(cursed_id, f.id, number) ELSE cursed_id
      /\ next_cursed_number' = next_cursed_number - (IF f.cursed THEN 1 ELSE 0)
      /\ next_number' = next_number + (IF f.cursed THEN 0 ELSE 1)
  BY DEF UpdateInscriptionState, AddInscription, Marked, blockVars, txVars
<1>4. Working /\ Working' /\ f.cursed \in BOOLEAN
  BY <1>1, <1>3 DEF Working, Flotsam, OldFlotsam, NewFlotsam
<1>5. /\ next_number \in Nat /\ next_cursed_number \in Int /\ next_cursed_number < 0
      /\ NextBlessed = next_number /\ NextCursed = next_cursed_number
      /\ DOMAIN Numbered = (next_cursed_number + 1 .. -1) \cup (0 .. next_number - 1)
  <2>1. next_number \in Nat /\ next_cursed_number \in Int /\ pc # "idle"
    BY DEF NumbersInv, TypeInv, TypeOK
  <2>2. DenseInv  BY <1>4 DEF NumbersInv
  <2> QED  BY <2>1, <2>2 DEF DenseInv, NextBlessed, NextCursed
<1>6. number \in Int /\ number \notin DOMAIN Numbered
  BY <1>4, <1>5
<1>7. f.id \notin NumberedIds
  BY <1>2, <1>4 DEF NumbersInv, UniqueInv
<1>8. /\ DOMAIN Numbered' = DOMAIN Numbered \cup {number}
      /\ Numbered'[number] = f.id
      /\ \A n \in DOMAIN Numbered : Numbered'[n] = Numbered[n]
  <2>1. Numbered' = Write(id_inscription, Put(id_inscription_wb, number, f.id))
    BY <1>3 DEF Numbered
  <2> HIDE DEF number, f
  <2>2. /\ DOMAIN Numbered' = DOMAIN Write(id_inscription, id_inscription_wb) \cup {number}
        /\ Numbered'[number] = f.id
        /\ \A x \in DOMAIN Write(id_inscription, id_inscription_wb) \ {number} :
              Numbered'[x] = Write(id_inscription, id_inscription_wb)[x]
    BY <2>1 DEF Write, Put
  <2> QED  BY <1>6, <2>2 DEF Numbered
<1>9. NumberedIds' = NumberedIds \cup {f.id}
  BY <1>8 DEF NumberedIds
<1>10. DenseInv'
  <2>1. /\ NextBlessed' = next_number' /\ NextCursed' = next_cursed_number'
        /\ next_cursed_number' < 0 /\ next_number' \in Nat
    BY <1>3, <1>4, <1>5 DEF NextBlessed, NextCursed
  <2>2. DOMAIN Numbered' = (next_cursed_number' + 1 .. -1) \cup (0 .. next_number' - 1)
    <3>1. CASE f.cursed
      BY <1>3, <1>5, <1>8, <3>1
    <3>2. CASE ~ f.cursed
      BY <1>3, <1>4, <1>5, <1>8, <3>2
    <3> QED  BY <3>1, <3>2
  <2> QED  BY <2>1, <2>2 DEF DenseInv
<1>11. UniqueInv'
  <2>1. \A m, n \in DOMAIN Numbered' : Numbered'[m] = Numbered'[n] => m = n
    BY <1>4, <1>7, <1>8 DEF NumbersInv, UniqueInv, NumberedIds
  <2>2. (NewIds(floating') \cup NewIds(flotsam')) \cap NumberedIds' = {}
    BY <1>2, <1>3, <1>4, <1>9 DEF NumbersInv, UniqueInv
  <2> QED  BY <1>2, <1>3, <1>4, <2>1, <2>2 DEF NumbersInv, UniqueInv
<1>12. AheadInv'
  <2>1. KnownIds' \subseteq KnownIds
    BY <1>2, <1>3, <1>9 DEF KnownIds
  <2>2. \A tx : Ahead(tx)' => Ahead(tx)
    BY <1>3 DEF Ahead, InLaterBlock, LaterInBlock
  <2> QED  BY <1>3, <1>4, <2>1, <2>2 DEF NumbersInv, AheadInv
<1>13. MarkInv'
  <2>1. CASE f.cursed
    <3>1. number < 0 /\ number \in DOMAIN Numbered'
      BY <1>5, <1>8, <2>1
    <3>2. DOMAIN cursed_id' = DOMAIN cursed_id \cup {f.id} /\ cursed_id'[f.id] = number
          /\ \A id \in DOMAIN cursed_id : id # f.id => cursed_id'[id] = cursed_id[id]
      BY <1>3, <2>1 DEF Put
    <3> QED  BY <1>4, <1>8, <3>1, <3>2 DEF NumbersInv, MarkInv
  <2>2. CASE ~ f.cursed
    <3>1. number >= 0 /\ cursed_id' = cursed_id
      BY <1>3, <1>5, <2>2
    <3> QED  BY <1>4, <1>6, <1>8, <3>1 DEF NumbersInv, MarkInv
  <2> QED  BY <2>1, <2>2
<1>14. FlushInv'
  <2>1. NumberedIds' \subseteq DOMAIN Located'
    <3>1. PICK location : inscription_output_wb' = Put(inscription_output_wb, f.id, location)
      BY <1>3
    <3>2. Located' = Write(inscription_output, Put(inscription_output_wb, f.id, location))
      BY <1>3, <3>1 DEF Located
    <3>3. DOMAIN Located' = DOMAIN Located \cup {f.id}
      BY <3>2 DEF Located, Write, Put
    <3> QED  BY <1>4, <1>9, <3>3 DEF NumbersInv, FlushInv
  <2> QED  BY <1>3, <1>4, <1>8, <2>1 DEF NumbersInv, FlushInv
<1>15. CountersTrailStores'
  <2>1. SUFFICES ASSUME NEW n \in (status.next_cursed_id_number + 1 .. -1)
                                    \cup (0 .. status.next_id_number - 1)
                 PROVE  /\ n \in DOMAIN id_inscription
                        /\ id_inscription[n] \in DOMAIN inscription_output
                        /\ n < 0 => /\ id_inscription[n] \in DOMAIN cursed_id'
                                    /\ cursed_id'[id_inscription[n]] = n
    BY <1>3 DEF CountersTrailStores
  <2>2. /\ n \in DOMAIN id_inscription
        /\ id_inscription[n] \in DOMAIN inscription_output
        /\ n < 0 => id_inscription[n] \in DOMAIN cursed_id /\ cursed_id[id_inscription[n]] = n
    BY <2>1 DEF NumbersInv, CountersTrailStores
  <2>3. id_inscription[n] # f.id
    BY <1>4, <1>7, <2>2 DEF NumbersInv, FlushInv, NumberedIds
  <2> QED  BY <1>3, <2>2, <2>3 DEF Put
<1> QED  BY <1>10, <1>11, <1>12, <1>13, <1>14, <1>15 DEF NumbersInv

-----------------------------------------------------------------------------
\* An input: of the ids that wait for a number, what arrives adds none, and what
\* is revealed adds new ones of the transaction at hand.
LEMMA ScanWaiting ==
    ASSUME TypeInv, ScanInput, Distinct(floating),
           \A id \in NewIds(floating) : id[1] = Tx.txid => id[2] < id_counter
    PROVE  /\ Distinct(floating') /\ NewIds(floating) \subseteq NewIds(floating')
           /\ \A id \in NewIds(floating') \ NewIds(floating) :
                 id[1] = Tx.txid /\ id[2] >= id_counter
           /\ \A id \in NewIds(floating') : id[1] = Tx.txid => id[2] < id_counter'
<1> DEFINE input == Tx.inputs[input_index]
           arriving == Arriving(input.prev)
           arrived == floating \o arriving
           revealed == Revealed(arrived, input_index, input_value + OutputValue(input.prev))
<1>1. pc = "inputs" /\ input_index \in DOMAIN Tx.inputs
  <2>1. pc = "inputs" /\ InputsLeft
    BY DEF ScanInput
  <2>2. input_index \in Nat /\ input_index # 0
    BY <2>1 DEF TypeInv, TypeOK
  <2> QED  BY <2>1, <2>2, TxFacts DEF InputsLeft
<1>2. floating' = arrived \o revealed /\ id_counter' = id_counter + input.envelopes
  BY DEF ScanInput
<1>3. input.prev \in OutPoint /\ input.envelopes \in Nat /\ id_counter \in Nat
  BY <1>1, TxFacts DEF Input, TypeInv, TypeOK
<1>4. /\ floating \in Seq(Flotsam) /\ arriving \in Seq(Flotsam) /\ arrived \in Seq(Flotsam)
      /\ revealed \in Seq(Flotsam)
  <2>1. floating \in Seq(Flotsam)  BY DEF TypeInv, TypeOK
  <2>2. arriving \in Seq(Flotsam)  BY <1>3, ArrivingType
  <2>3. revealed \in Seq(Flotsam)  BY <1>1, RevealedType
  <2> QED  BY <2>1, <2>2, <2>3
<1>5. NewIds(arrived) = NewIds(floating) /\ Distinct(arrived)
  <2>1. NewIds(arriving) = {} /\ Distinct(arriving)  BY ArrivingIsOld
  <2>2. NewIds(arrived) = NewIds(floating) \cup NewIds(arriving) /\ Distinct(arrived)
    BY <1>4, <2>1, NewIdsConcat
  <2> QED  BY <2>1, <2>2
<1>6. /\ Distinct(revealed)
      /\ \A id \in NewIds(revealed) :
            id[1] = Tx.txid /\ id[2] >= id_counter /\ id[2] < id_counter'
  BY <1>1, <1>2, RevealedIds
<1>7. \A id \in NewIds(floating) : id[2] \in Int
  <2>1. SUFFICES ASSUME NEW id \in NewIds(floating) PROVE id[2] \in Int
    OBVIOUS
  <2>2. PICK k \in DOMAIN floating : id = floating[k].id
    BY DEF NewIds, NewAt
  <2>3. floating[k].id \in Id
    BY <1>4, <2>2 DEF Flotsam, OldFlotsam, NewFlotsam
  <2> QED  BY <2>2, <2>3 DEF Id
<1>8. NewIds(floating) \cap NewIds(revealed) = {}
  BY <1>3, <1>6, <1>7
<1>9. NewIds(floating') = NewIds(floating) \cup NewIds(revealed) /\ Distinct(floating')
  BY <1>2, <1>4, <1>5, <1>6, <1>8, NewIdsConcat
<1>10. \A id \in NewIds(floating) : id[1] = Tx.txid => id[2] < id_counter'
  BY <1>2, <1>3, <1>7
<1> QED  BY <1>6, <1>9, <1>10

\* An input: what arrives is numbered, what is revealed is new and unknown.
LEMMA ScanInputStep == NumbersInv /\ TypeInv' /\ ScanInput => NumbersInv'
<1> SUFFICES ASSUME NumbersInv, TypeInv', ScanInput PROVE NumbersInv'
  OBVIOUS
<1>1. TypeInv /\ pc = "inputs" /\ pc' = "inputs" /\ Working /\ Working'
  BY DEF NumbersInv, ScanInput, Working
<1>2. Untouched /\ UNCHANGED <<tx_index, flotsam, inscription_output, inscription_output_wb>>
  BY DEF ScanInput, Untouched, storeVars, counterVars, blockVars
<1>3. /\ Distinct(floating') /\ NewIds(floating) \subseteq NewIds(floating')
      /\ \A id \in NewIds(floating') \ NewIds(floating) :
            id[1] = Tx.txid /\ id[2] >= id_counter
      /\ \A id \in NewIds(floating') : id[1] = Tx.txid => id[2] < id_counter'
  BY <1>1, ScanWaiting DEF NumbersInv, UniqueInv, AheadInv, KnownIds
<1>4. \A id \in NewIds(floating') \ NewIds(floating) : id \notin KnownIds
  BY <1>1, <1>3 DEF NumbersInv, AheadInv
<1>5. /\ Numbered' = Numbered /\ NextBlessed' = NextBlessed /\ NextCursed' = NextCursed
      /\ NumberedIds' = NumberedIds
  BY <1>1, <1>2 DEF Untouched, Numbered, NextBlessed, NextCursed, NumberedIds
<1>6. DenseInv' /\ MarkInv'
  BY <1>1, <1>2, <1>5 DEF NumbersInv, DenseInv, MarkInv, Untouched
<1>7. UniqueInv'
  BY <1>1, <1>2, <1>3, <1>4, <1>5 DEF NumbersInv, UniqueInv, KnownIds
<1>8. AheadInv'
  <2>1. KnownIds' = KnownIds \cup NewIds(floating')
    BY <1>2, <1>3, <1>5 DEF KnownIds
  <2>2. Tx' = Tx /\ \A tx : Ahead(tx)' <=> Ahead(tx)
    BY <1>1, <1>2 DEF Tx, Ahead, InLaterBlock, LaterInBlock, Untouched
  <2>3. \A id \in KnownIds' : \A tx \in Transactions(chain') : Ahead(tx)' => id[1] # tx.txid
    <3>1. \A tx : Ahead(tx) => tx.txid # Tx.txid
      BY <1>1, AheadDiffers
    <3> QED  BY <1>1, <1>2, <1>3, <2>1, <2>2, <3>1 DEF NumbersInv, AheadInv, Untouched, KnownIds
  <2>4. \A id \in KnownIds' : id[1] = Tx'.txid => id \in NewIds(floating') /\ id[2] < id_counter'
    BY <1>1, <1>3, <2>1, <2>2 DEF NumbersInv, AheadInv
  <2> QED  BY <2>3, <2>4 DEF AheadInv
<1>9. FlushInv' /\ CountersTrailStores'
  BY <1>1, <1>2, FlushNotBegun
<1> QED  BY <1>6, <1>7, <1>8, <1>9 DEF NumbersInv

\* A transaction is done, or a block begins: fewer are ahead, and the one that
\* is entered was.
LEMMA AheadFinishes ==
    ASSUME TypeInv, pc = "settle", FinishTx, UNCHANGED <<chain, height>>
    PROVE  /\ \A tx : Ahead(tx)' => Ahead(tx)
           /\ pc' = "inputs" => Tx' \in Transactions(chain) /\ Ahead(Tx')
<1> DEFINE b == chain.blocks[height]
           n == Len(b)
<1>1. /\ tx_index' = tx_index + 1 /\ pc' # "idle"
      /\ pc' = "inputs" => tx_index < n
  BY DEF FinishTx, EnterTx
<1>2. height \in DOMAIN chain.blocks /\ tx_index \in 1 .. n /\ n \in Nat /\ chain \in Chains
  BY TxFacts, WalkPosition DEF TypeInv
<1>3. \A tx : Ahead(tx)' => Ahead(tx)
  <2>1. tx_index' + 1 .. n \subseteq tx_index + 1 .. n
    BY <1>1, <1>2
  <2> QED  BY <1>1, <2>1 DEF Ahead, InLaterBlock, LaterInBlock
<1>4. ASSUME pc' = "inputs" PROVE Tx' \in Transactions(chain) /\ Ahead(Tx')
  <2>1. Tx' = TxInOrder(b, tx_index + 1)
    BY <1>1 DEF Tx
  <2>2. tx_index + 1 \in 1 .. n /\ tx_index + 1 \in tx_index + 1 .. n
    BY <1>1, <1>2, <1>4
  <2>3. Tx' \in Transactions(chain)
    BY <1>2, <2>1, <2>2, TxInOrderType
  <2> QED  BY <2>1, <2>2, <2>3 DEF Ahead, LaterInBlock
<1> QED  BY <1>3, <1>4

LEMMA AheadBegins ==
    ASSUME TypeInv, BeginBlock(height + 1)
    PROVE  /\ \A tx : Ahead(tx)' => Ahead(tx)
           /\ Tx' \in Transactions(chain) /\ Ahead(Tx')
<1>1. /\ pc = "idle" /\ pc' = "inputs" /\ UNCHANGED chain
      /\ height + 1 \in DOMAIN chain.blocks /\ height' = height + 1 /\ tx_index' = 1
  BY DEF BeginBlock, Served, EnterTx
<1>2. chain \in Chains /\ height \in Nat
  BY <1>1 DEF TypeInv, TypeOK
<1>3. ASSUME NEW j \in 1 .. Len(chain.blocks[height + 1])
      PROVE  /\ TxInOrder(chain.blocks[height + 1], j) \in Transactions(chain)
             /\ Ahead(TxInOrder(chain.blocks[height + 1], j))
  <2>1. TxInOrder(chain.blocks[height + 1], j) \in Transactions(chain)
    BY <1>1, <1>2, TxInOrderType
  <2>2. \E i \in DOMAIN chain.blocks[height + 1] :
           TxInOrder(chain.blocks[height + 1], j) = chain.blocks[height + 1][i]
    BY <1>1, <1>2, WalkPosition
  <2> QED  BY <1>1, <1>2, <2>1, <2>2 DEF Ahead, InLaterBlock
<1>4. ASSUME NEW tx, Ahead(tx)' PROVE Ahead(tx)
  <2>1. CASE InLaterBlock(tx)'
    <3>1. PICK g \in DOMAIN chain.blocks :
             g > height + 1 /\ \E i \in DOMAIN chain.blocks[g] : tx = chain.blocks[g][i]
      BY <1>1, <2>1 DEF InLaterBlock
    <3>2. g \in Int
      BY <1>2, ChainFacts
    <3>3. g > height
      BY <1>2, <3>1, <3>2
    <3> QED  BY <3>1, <3>3 DEF Ahead, InLaterBlock
  <2>2. CASE LaterInBlock(tx)'
    <3>1. Len(chain.blocks[height + 1]) \in Nat
      BY <1>1, <1>2, WalkPosition
    <3>2. PICK j \in 2 .. Len(chain.blocks[height + 1]) :
             tx = TxInOrder(chain.blocks[height + 1], j)
      BY <1>1, <2>2 DEF LaterInBlock
    <3> QED  BY <1>3, <3>1, <3>2
  <2> QED  BY <1>4, <2>1, <2>2 DEF Ahead
<1>5. Tx' \in Transactions(chain) /\ Ahead(Tx')
  <2>1. Tx' = TxInOrder(chain.blocks[height + 1], 1)
    BY <1>1 DEF Tx
  <2>2. 1 \in 1 .. Len(chain.blocks[height + 1])
    BY <1>1, <1>2, WalkPosition
  <2> QED  BY <1>3, <2>1, <2>2
<1> QED  BY <1>4, <1>5

\* The walk moves on: what was ahead next is at hand, the rest still ahead.
LEMMA FinishStep ==
    ASSUME NumbersInv, TypeInv', pc = "settle", FinishTx, Untouched,
           UNCHANGED <<inscription_output, inscription_output_wb>>,
           NewIds(flotsam') \subseteq NewIds(floating) \cup NewIds(flotsam), Distinct(flotsam')
    PROVE  NumbersInv'
<1>1. /\ TypeInv /\ Working /\ Working' /\ pc # "idle" /\ pc' # "idle"
      /\ floating' = <<>> /\ pc' \in {"inputs", "flush_id_inscription"}
  BY DEF NumbersInv, FinishTx, EnterTx, Working
<1>3. NewIds(floating') = {} /\ Distinct(floating')
  BY <1>1, EmptyList
<1>4. /\ Numbered' = Numbered /\ NextBlessed' = NextBlessed /\ NextCursed' = NextCursed
      /\ NumberedIds' = NumberedIds
  BY <1>1 DEF Untouched, Numbered, NextBlessed, NextCursed, NumberedIds
<1>5. DenseInv' /\ MarkInv'
  BY <1>1, <1>4 DEF NumbersInv, DenseInv, MarkInv, Untouched
<1>6. UniqueInv'
  BY <1>1, <1>3, <1>4 DEF NumbersInv, UniqueInv
<1>7. KnownIds' \subseteq KnownIds
  BY <1>3, <1>4 DEF KnownIds
<1>8. /\ \A tx : Ahead(tx)' => Ahead(tx)
      /\ pc' = "inputs" => Tx' \in Transactions(chain) /\ Ahead(Tx')
  BY <1>1, AheadFinishes DEF Untouched
<1>9. AheadInv'
  BY <1>1, <1>7, <1>8 DEF NumbersInv, AheadInv, Untouched
<1>10. FlushInv' /\ CountersTrailStores'
  BY <1>1, FlushNotBegun
<1> QED  BY <1>5, <1>6, <1>9, <1>10 DEF NumbersInv

LEMMA SettleWaiting ==
    ASSUME TypeInv, SettleFees \/ SettleCoinbase, Distinct(floating), Distinct(flotsam),
           NewIds(floating) \cap NewIds(flotsam) = {}
    PROVE  NewIds(flotsam') \subseteq NewIds(floating) \cup NewIds(flotsam) /\ Distinct(flotsam')
<1>1. floating \in Seq(Flotsam) /\ flotsam \in Seq(Flotsam)
  BY DEF TypeInv, TypeOK
<1>2. CASE SettleFees
  <2> DEFINE moved == [k \in DOMAIN floating |-> InFees(floating[k])]
  <2>1. DOMAIN floating = 1 .. Len(floating) /\ Len(floating) \in Nat
    BY <1>1
  <2>2. \A k \in DOMAIN floating :
           /\ moved[k] \in Flotsam
           /\ moved[k].kind = floating[k].kind /\ moved[k].id = floating[k].id
    <3>1. SUFFICES ASSUME NEW k \in DOMAIN floating
                   PROVE  LET m == InFees(floating[k])
                          IN  /\ m \in Flotsam
                              /\ m.kind = floating[k].kind /\ m.id = floating[k].id
      OBVIOUS
    <3>2. floating[k] \in Flotsam /\ reward \in Int /\ placed_value \in Int
      <4>1. reward \in Int /\ placed_value \in Int  BY DEF TypeInv, TypeOK
      <4> QED  BY <1>1, <4>1
    <3>3. reward + floating[k].offset - placed_value \in Int
      BY <3>2 DEF Flotsam, OldFlotsam, NewFlotsam
    <3> QED  BY <3>2, <3>3 DEF InFees, Flotsam, OldFlotsam, NewFlotsam
  <2>3. moved \in Seq(Flotsam)
    BY <2>1, <2>2, SeqFromFunction
  <2> HIDE DEF moved
  <2>4. DOMAIN moved = DOMAIN floating
    BY DEF moved
  <2>5. NewAt(moved) = NewAt(floating)
    BY <2>2, <2>4 DEF NewAt
  <2>6. NewIds(moved) = NewIds(floating) /\ Distinct(moved)
    BY <1>1, <2>2, <2>5 DEF NewIds, Distinct, NewAt
  <2>7. flotsam' = flotsam \o moved
    BY <1>2 DEF SettleFees, moved
  <2> QED  BY <1>1, <2>3, <2>6, <2>7, NewIdsConcat
<1>3. CASE SettleCoinbase
  BY <1>1, <1>3 DEF SettleCoinbase
<1> QED  BY <1>2, <1>3

LEMMA SettleStep == NumbersInv /\ TypeInv' /\ (SettleFees \/ SettleCoinbase) => NumbersInv'
<1> SUFFICES ASSUME NumbersInv, TypeInv', SettleFees \/ SettleCoinbase PROVE NumbersInv'
  OBVIOUS
<1>1. /\ pc = "settle" /\ FinishTx /\ Untouched
      /\ UNCHANGED <<inscription_output, inscription_output_wb>>
  BY DEF SettleFees, SettleCoinbase, Untouched, storeVars, counterVars, batchVars
<1>2. NewIds(flotsam') \subseteq NewIds(floating) \cup NewIds(flotsam) /\ Distinct(flotsam')
  BY <1>1, SettleWaiting DEF NumbersInv, UniqueInv, Working
<1> QED  BY <1>1, <1>2, FinishStep

LEMMA SortWaiting ==
    ASSUME TypeInv, SortFloating, Distinct(floating), Distinct(flotsam),
           NewIds(floating) \cap NewIds(flotsam) = {}
    PROVE  /\ NewIds(floating') \cup NewIds(flotsam') \subseteq NewIds(floating) \cup NewIds(flotsam)
           /\ Distinct(floating') /\ Distinct(flotsam')
           /\ NewIds(floating') \cap NewIds(flotsam') = {}
<1> DEFINE all == IF IsCoinbase(Tx) THEN floating \o flotsam ELSE floating
<1>1. /\ floating' \in StablySorted(all)
      /\ flotsam' = IF IsCoinbase(Tx) THEN <<>> ELSE flotsam
  BY DEF SortFloating
<1>2. floating \in Seq(Flotsam) /\ flotsam \in Seq(Flotsam)
  BY DEF TypeInv, TypeOK
<1>3. /\ all \in Seq(Flotsam) /\ Distinct(all) /\ Distinct(flotsam')
      /\ NewIds(all) \cup NewIds(flotsam') \subseteq NewIds(floating) \cup NewIds(flotsam)
      /\ NewIds(all) \cap NewIds(flotsam') = {}
  <2>1. CASE IsCoinbase(Tx)
    <3>1. /\ NewIds(floating \o flotsam) = NewIds(floating) \cup NewIds(flotsam)
          /\ Distinct(floating \o flotsam)
      BY <1>2, NewIdsConcat
    <3>2. all = floating \o flotsam /\ flotsam' = <<>>
      BY <1>1, <2>1
    <3> QED  BY <1>2, <3>1, <3>2, EmptyList
  <2>2. CASE ~ IsCoinbase(Tx)
    BY <1>1, <1>2, <2>2
  <2> QED  BY <2>1, <2>2
<1> HIDE DEF all
<1>4. NewIds(floating') \subseteq NewIds(all) /\ Distinct(floating')
  BY <1>1, <1>3, NewIdsSorted
<1> QED  BY <1>3, <1>4

LEMMA SortStep == NumbersInv /\ TypeInv' /\ SortFloating => NumbersInv'
<1> SUFFICES ASSUME NumbersInv, TypeInv', SortFloating PROVE NumbersInv'
  OBVIOUS
<1>1. /\ pc = "inputs" /\ pc' = "outputs" /\ Untouched /\ Working /\ Working' /\ TypeInv
      /\ UNCHANGED <<tx_index, inscription_output, inscription_output_wb>>
  BY DEF SortFloating, Untouched, storeVars, counterVars, batchVars, txVars, Working, NumbersInv
<1>2. /\ NewIds(floating') \cup NewIds(flotsam') \subseteq NewIds(floating) \cup NewIds(flotsam)
      /\ Distinct(floating') /\ Distinct(flotsam')
      /\ NewIds(floating') \cap NewIds(flotsam') = {}
  BY <1>1, SortWaiting DEF NumbersInv, UniqueInv
<1>3. (DenseInv /\ UniqueInv /\ AheadInv /\ MarkInv)'
  BY <1>1, <1>2, ListsMove
<1>4. FlushInv' /\ CountersTrailStores'
  BY <1>1, FlushNotBegun
<1> QED  BY <1>3, <1>4 DEF NumbersInv

-----------------------------------------------------------------------------
\* Steps between the transactions of a block: the records say the same
\* whether they are read from the batches or from the stores.
LEMMA KeepNumbers ==
    ASSUME NumbersInv, Working, TypeInv', Working',
           DOMAIN Numbered' = DOMAIN Numbered,
           \A n \in DOMAIN Numbered : Numbered'[n] = Numbered[n],
           NextBlessed' = NextBlessed, NextCursed' = NextCursed,
           pc' # "idle" => next_cursed_number' < 0,
           UNCHANGED <<chain, cursed_id>>,
           floating' = <<>> \/ UNCHANGED floating,
           flotsam' = <<>> \/ UNCHANGED flotsam,
           \A tx : Ahead(tx)' => Ahead(tx),
           pc' = "inputs" => \A id \in KnownIds : id[1] # Tx'.txid
    PROVE  (DenseInv /\ UniqueInv /\ AheadInv /\ MarkInv)'
<1>1. NumberedIds' = NumberedIds
  BY DEF NumberedIds
<1>2. /\ NewIds(floating') \subseteq NewIds(floating) /\ Distinct(floating')
      /\ NewIds(flotsam') \subseteq NewIds(flotsam) /\ Distinct(flotsam')
  BY EmptyList DEF NumbersInv, UniqueInv
<1>3. KnownIds' \subseteq KnownIds
  BY <1>1, <1>2 DEF KnownIds
<1>4. DenseInv'
  BY DEF NumbersInv, DenseInv
<1>5. UniqueInv'
  <2>1. \A m, n \in DOMAIN Numbered' : Numbered'[m] = Numbered'[n] => m = n
    BY DEF NumbersInv, UniqueInv
  <2>2. NewIds(floating') \cap NewIds(flotsam') = {}
        /\ (NewIds(floating') \cup NewIds(flotsam')) \cap NumberedIds' = {}
    BY <1>1, <1>2 DEF NumbersInv, UniqueInv
  <2> QED  BY <1>2, <2>1, <2>2 DEF UniqueInv
<1>6. AheadInv'
  BY <1>3 DEF NumbersInv, AheadInv
<1>7. MarkInv'
  BY DEF NumbersInv, MarkInv
<1> QED  BY <1>4, <1>5, <1>6, <1>7

LEMMA BeginStep == NumbersInv /\ TypeInv' /\ BeginBlock(height + 1) => NumbersInv'
<1> SUFFICES ASSUME NumbersInv, TypeInv', BeginBlock(height + 1) PROVE NumbersInv'
  OBVIOUS
<1>1. /\ pc = "idle" /\ pc' = "inputs" /\ Working /\ Working'
      /\ height + 1 \in DOMAIN chain.blocks /\ height' = height + 1 /\ tx_index' = 1
      /\ id_inscription_wb' = EmptyDB /\ inscription_output_wb' = EmptyDB
      /\ UNCHANGED <<chain, status, cursed_id, id_inscription, inscription_output>>
      /\ floating' = <<>> /\ flotsam' = <<>>
      /\ next_number' = status.next_id_number
      /\ next_cursed_number' = IF status.next_cursed_id_number = 0
                               THEN -1 ELSE status.next_cursed_id_number
  BY DEF BeginBlock, Served, LoadedCursed, EnterTx, storeVars, Working
<1>2. chain \in Chains /\ height \in Nat /\ DenseInv /\ FlushInv /\ AheadInv
  BY <1>1 DEF NumbersInv, TypeInv, TypeOK
<1>3. DOMAIN Numbered' = DOMAIN id_inscription
      /\ \A n \in DOMAIN id_inscription : Numbered'[n] = id_inscription[n]
  BY <1>1, WriteEmpty DEF Numbered
<1>4. DOMAIN Numbered' = DOMAIN Numbered /\ \A n \in DOMAIN Numbered : Numbered'[n] = Numbered[n]
  BY <1>1, <1>2, <1>3 DEF FlushInv
<1>5. NextBlessed' = NextBlessed /\ NextCursed' = NextCursed /\ next_cursed_number' < 0
  BY <1>1, <1>2 DEF NextBlessed, NextCursed, DenseInv
<1>7. /\ \A tx : Ahead(tx)' => Ahead(tx)
      /\ Tx' \in Transactions(chain) /\ Ahead(Tx')
  BY AheadBegins DEF NumbersInv
<1>8. \A id \in KnownIds : id[1] # Tx'.txid
  BY <1>2, <1>7 DEF AheadInv
<1>9. (DenseInv /\ UniqueInv /\ AheadInv /\ MarkInv)'
  BY <1>1, <1>4, <1>5, <1>7, <1>8, KeepNumbers
<1>10. FlushInv'
  <2>1. DOMAIN Located' = DOMAIN inscription_output
    BY <1>1, WriteEmpty DEF Located
  <2>2. NumberedIds' = NumberedIds
    BY <1>4 DEF NumberedIds
  <2> QED  BY <1>1, <1>2, <1>3, <2>1, <2>2 DEF FlushInv
<1>11. CountersTrailStores'
  BY <1>1 DEF NumbersInv, CountersTrailStores
<1> QED  BY <1>9, <1>10, <1>11 DEF NumbersInv

\* The four writes of flush_update.
LEMMA FlushStep ==
    /\ NumbersInv /\ TypeInv'
    /\ FlushIdInscription \/ FlushInscriptionOutput \/ FlushOutputInscription \/ FlushStatus
    => NumbersInv'
<1> SUFFICES ASSUME NumbersInv, TypeInv',
                    \/ FlushIdInscription \/ FlushInscriptionOutput
                    \/ FlushOutputInscription \/ FlushStatus
             PROVE  NumbersInv'
  OBVIOUS
<1>1. CASE FlushIdInscription
  <2>1. /\ pc = "flush_id_inscription" /\ pc' = "flush_inscription_output" /\ Working /\ Working'
        /\ id_inscription' = Write(id_inscription, id_inscription_wb)
        /\ UNCHANGED <<chain, status, cursed_id, inscription_output, next_number,
                       next_cursed_number, id_inscription_wb, inscription_output_wb,
                       height, tx_index, floating, flotsam>>
    BY <1>1 DEF FlushIdInscription, counterVars, batchVars, blockVars, txVars, Working
  <2>2. Numbered' = Numbered /\ id_inscription' = Numbered
    BY <2>1, WriteTwice DEF Numbered
  <2>3. NextBlessed' = NextBlessed /\ NextCursed' = NextCursed /\ next_cursed_number' < 0
    BY <2>1 DEF NextBlessed, NextCursed, NumbersInv, DenseInv
  <2>4. \A tx : Ahead(tx)' => Ahead(tx)
    BY <2>1 DEF Ahead, InLaterBlock, LaterInBlock
  <2>5. (DenseInv /\ UniqueInv /\ AheadInv /\ MarkInv)'
    BY <2>1, <2>2, <2>3, <2>4, KeepNumbers
  <2>6. FlushInv'
    <3>1. Located' = Located /\ NumberedIds' = NumberedIds
      BY <2>1, <2>2 DEF Located, NumberedIds
    <3> QED  BY <2>1, <2>2, <3>1 DEF NumbersInv, FlushInv
  <2>7. CountersTrailStores'
    <3>1. \A n \in DOMAIN id_inscription :
             n \in DOMAIN id_inscription' /\ id_inscription'[n] = id_inscription[n]
      BY <2>1, <2>2 DEF NumbersInv, FlushInv
    <3> QED  BY <2>1, <3>1 DEF NumbersInv, CountersTrailStores
  <2> QED  BY <2>5, <2>6, <2>7 DEF NumbersInv
<1>2. CASE FlushInscriptionOutput
  <2>1. /\ pc = "flush_inscription_output" /\ pc' = "flush_output_inscription"
        /\ Working /\ Working'
        /\ inscription_output' = Write(inscription_output, inscription_output_wb)
        /\ UNCHANGED <<chain, status, cursed_id, id_inscription, next_number,
                       next_cursed_number, id_inscription_wb, inscription_output_wb,
                       height, tx_index, floating, flotsam>>
    BY <1>2 DEF FlushInscriptionOutput, counterVars, batchVars, blockVars, txVars, Working
  <2>2. Numbered' = Numbered /\ Located' = Located /\ inscription_output' = Located
    BY <2>1, WriteTwice DEF Numbered, Located
  <2>3. NextBlessed' = NextBlessed /\ NextCursed' = NextCursed /\ next_cursed_number' < 0
    BY <2>1 DEF NextBlessed, NextCursed, NumbersInv, DenseInv
  <2>4. \A tx : Ahead(tx)' => Ahead(tx)
    BY <2>1 DEF Ahead, InLaterBlock, LaterInBlock
  <2>5. (DenseInv /\ UniqueInv /\ AheadInv /\ MarkInv)'
    BY <2>1, <2>2, <2>3, <2>4, KeepNumbers
  <2>6. FlushInv'
    <3>1. NumberedIds' = NumberedIds
      BY <2>2 DEF NumberedIds
    <3> QED  BY <2>1, <2>2, <3>1 DEF NumbersInv, FlushInv
  <2>7. CountersTrailStores'
    <3>1. DOMAIN inscription_output \subseteq DOMAIN inscription_output'
      BY <2>1, WriteAt
    <3> QED  BY <2>1, <3>1 DEF NumbersInv, CountersTrailStores
  <2> QED  BY <2>5, <2>6, <2>7 DEF NumbersInv
<1>3. CASE FlushOutputInscription
  <2>1. /\ pc = "flush_output_inscription" /\ pc' = "flush_status" /\ Working /\ Working'
        /\ UNCHANGED <<chain, status, cursed_id, id_inscription, inscription_output, next_number,
                       next_cursed_number, id_inscription_wb, inscription_output_wb,
                       height, tx_index, floating, flotsam>>
    BY <1>3 DEF FlushOutputInscription, counterVars, batchVars, blockVars, txVars, Working
  <2>2. Numbered' = Numbered /\ Located' = Located
    BY <2>1 DEF Numbered, Located
  <2>3. NextBlessed' = NextBlessed /\ NextCursed' = NextCursed /\ next_cursed_number' < 0
    BY <2>1 DEF NextBlessed, NextCursed, NumbersInv, DenseInv
  <2>4. \A tx : Ahead(tx)' => Ahead(tx)
    BY <2>1 DEF Ahead, InLaterBlock, LaterInBlock
  <2>5. (DenseInv /\ UniqueInv /\ AheadInv /\ MarkInv)'
    BY <2>1, <2>2, <2>3, <2>4, KeepNumbers
  <2>6. FlushInv'
    <3>1. NumberedIds' = NumberedIds
      BY <2>2 DEF NumberedIds
    <3> QED  BY <2>1, <2>2, <3>1 DEF NumbersInv, FlushInv
  <2>7. CountersTrailStores'
    BY <2>1 DEF NumbersInv, CountersTrailStores
  <2> QED  BY <2>5, <2>6, <2>7 DEF NumbersInv
<1>4. CASE FlushStatus
  <2>1. /\ pc = "flush_status" /\ pc' = "idle" /\ Working /\ Working'
        /\ status'.next_id_number = next_number
        /\ status'.next_cursed_id_number = next_cursed_number
        /\ id_inscription_wb' = EmptyDB /\ inscription_output_wb' = EmptyDB
        /\ floating' = <<>> /\ flotsam' = <<>>
        /\ UNCHANGED <<chain, cursed_id, id_inscription, inscription_output, height>>
    BY <1>4 DEF FlushStatus, Counters, DropUpdater, Working
  <2>2. DenseInv /\ FlushInv /\ MarkInv
    BY <2>1 DEF NumbersInv
  <2>3. /\ DOMAIN Numbered' = DOMAIN id_inscription
        /\ \A n \in DOMAIN id_inscription : Numbered'[n] = id_inscription[n]
        /\ DOMAIN Located' = DOMAIN inscription_output
    BY <2>1, WriteEmpty DEF Numbered, Located
  <2>4. DOMAIN Numbered' = DOMAIN Numbered /\ \A n \in DOMAIN Numbered : Numbered'[n] = Numbered[n]
    BY <2>1, <2>2, <2>3 DEF FlushInv
  <2>5. NextBlessed' = NextBlessed /\ NextCursed' = NextCursed /\ next_cursed_number < 0
    BY <2>1, <2>2 DEF NextBlessed, NextCursed, DenseInv
  <2>6. \A tx : Ahead(tx)' => Ahead(tx)
    BY <2>1 DEF Ahead, InLaterBlock
  <2>7. (DenseInv /\ UniqueInv /\ AheadInv /\ MarkInv)'
    BY <2>1, <2>4, <2>5, <2>6, KeepNumbers
  <2>8. FlushInv'
    <3>1. NumberedIds' = NumberedIds
      BY <2>4 DEF NumberedIds
    <3> QED  BY <2>1, <2>2, <2>3, <2>4, <3>1 DEF FlushInv
  <2>9. CountersTrailStores'
    <3>1. SUFFICES ASSUME NEW n \in (next_cursed_number + 1 .. -1) \cup (0 .. next_number - 1)
                   PROVE  /\ n \in DOMAIN id_inscription
                          /\ id_inscription[n] \in DOMAIN inscription_output
                          /\ n < 0 => /\ id_inscription[n] \in DOMAIN cursed_id
                                      /\ cursed_id[id_inscription[n]] = n
      BY <2>1 DEF CountersTrailStores
    <3>2. n \in DOMAIN Numbered
      BY <2>1, <2>2, <2>5 DEF DenseInv, NextBlessed, NextCursed
    <3>3. n \in DOMAIN id_inscription /\ Numbered[n] = id_inscription[n]
      BY <2>1, <2>2, <3>2 DEF FlushInv
    <3>4. id_inscription[n] \in DOMAIN inscription_output
      BY <2>1, <2>2, <3>2, <3>3 DEF FlushInv, NumberedIds
    <3>5. ASSUME n < 0
          PROVE  Numbered[n] \in DOMAIN cursed_id /\ cursed_id[Numbered[n]] = n
      <4>1. Numbered[n] \in DOMAIN cursed_id
        BY <2>2, <3>2, <3>5 DEF MarkInv
      <4>2. LET m == cursed_id[Numbered[n]]
            IN  m \in DOMAIN Numbered /\ Numbered[m] = Numbered[n]
        BY <2>2, <4>1 DEF MarkInv
      <4> QED  BY <2>1, <3>2, <4>1, <4>2 DEF NumbersInv, UniqueInv
    <3> QED  BY <3>3, <3>4, <3>5
  <2> QED  BY <2>7, <2>8, <2>9 DEF NumbersInv
<1> QED  BY <1>1, <1>2, <1>3, <1>4

-----------------------------------------------------------------------------
LEMMA NumbersInit == Init => NumbersInv
<1> SUFFICES ASSUME Init PROVE NumbersInv
  OBVIOUS
<1>1. TypeInv  BY InitType
<1>2. /\ pc = "idle" /\ floating = <<>> /\ flotsam = <<>>
      /\ cursed_id = EmptyDB /\ id_inscription = EmptyDB /\ id_inscription_wb = EmptyDB
      /\ inscription_output = EmptyDB /\ inscription_output_wb = EmptyDB
      /\ status.next_id_number = 0 /\ status.next_cursed_id_number = 0
  BY DEF Init
<1>3. DOMAIN Numbered = {} /\ DOMAIN Located = {} /\ NumberedIds = {}
  BY <1>2 DEF Numbered, Located, NumberedIds, Write, EmptyDB
<1>4. NextBlessed = 0 /\ NextCursed = -1
  BY <1>2 DEF NextBlessed, NextCursed
<1>5. NewIds(floating) = {} /\ NewIds(flotsam) = {} /\ Distinct(floating) /\ Distinct(flotsam)
  BY <1>2, EmptyList
<1>6. DenseInv  BY <1>2, <1>3, <1>4 DEF DenseInv
<1>7. UniqueInv  BY <1>3, <1>5 DEF UniqueInv
<1>8. AheadInv  BY <1>2, <1>3, <1>5 DEF AheadInv, KnownIds
<1>9. MarkInv  BY <1>2, <1>3 DEF MarkInv, EmptyDB
<1>10. FlushInv  BY <1>2, <1>3 DEF FlushInv, EmptyDB
<1>11. CountersTrailStores  BY <1>2 DEF CountersTrailStores
<1> QED  BY <1>1, <1>6, <1>7, <1>8, <1>9, <1>10, <1>11 DEF NumbersInv

LEMMA NumbersNext == NumbersInv /\ [Next]_vars => NumbersInv'
<1> SUFFICES ASSUME NumbersInv, [Next]_vars PROVE NumbersInv'
  OBVIOUS
<1>1. TypeInv'
  BY NextType DEF NumbersInv
<1>2. CASE BeginBlock(height + 1)  BY <1>1, <1>2, BeginStep
<1>3. CASE ScanInput  BY <1>1, <1>3, ScanInputStep
<1>4. CASE SortFloating  BY <1>1, <1>4, SortStep
<1>5. CASE SettleFees \/ SettleCoinbase  BY <1>1, <1>5, SettleStep
<1>6. CASE \/ FlushIdInscription \/ FlushInscriptionOutput
           \/ FlushOutputInscription \/ FlushStatus
  BY <1>1, <1>6, FlushStep
<1>7. CASE PlaceOnOutput \/ LoseFloating
  <2>1. PICK output, offset :
           /\ pc \in {"outputs", "settle"} /\ floating # <<>>
           /\ UpdateInscriptionState(output, offset)
    BY <1>7 DEF PlaceOnOutput, LoseFloating, WithinOutput
  <2>2. \/ MoveInscription(Head(floating), output, offset)
        \/ AddInscription(Head(floating), output, offset)
    BY <2>1 DEF UpdateInscriptionState
  <2> QED  BY <1>1, <2>1, <2>2, MoveStep, AddStep
<1>8. CASE ScanNullInput \/ NextOutput \/ WriteOutputValue \/ UNCHANGED vars
  <2>1. /\ Untouched
        /\ UNCHANGED <<inscription_output, inscription_output_wb, tx_index, floating, flotsam,
                       id_counter>>
        /\ pc' = pc \/ (pc = "outputs" /\ pc' = "settle")
    BY <1>8
    DEF ScanNullInput, NextOutput, WriteOutputValue, Untouched, vars, storeVars, counterVars,
        batchVars, blockVars, txVars
  <2>2. /\ Numbered' = Numbered /\ Located' = Located /\ NumberedIds' = NumberedIds
        /\ KnownIds' = KnownIds /\ NextBlessed' = NextBlessed /\ NextCursed' = NextCursed
        /\ Tx' = Tx
        /\ \A tx : Ahead(tx)' = Ahead(tx)
    BY <2>1
    DEF Untouched, Numbered, Located, NumberedIds, KnownIds, NextBlessed, NextCursed, Tx,
        Ahead, InLaterBlock, LaterInBlock
  <2>3. CountersTrailStores'
    BY <2>1 DEF NumbersInv, CountersTrailStores, Untouched
  <2>4. ASSUME Working' PROVE (DenseInv /\ UniqueInv /\ AheadInv /\ MarkInv /\ FlushInv)'
    <3>1. Working  BY <2>1, <2>4 DEF Working
    <3>2. DenseInv'  BY <2>1, <2>2, <3>1 DEF NumbersInv, DenseInv, Untouched
    <3>3. UniqueInv'  BY <2>1, <2>2, <3>1 DEF NumbersInv, UniqueInv
    <3>4. AheadInv'  BY <2>1, <2>2, <3>1 DEF NumbersInv, AheadInv, Untouched
    <3>5. MarkInv'  BY <2>1, <2>2, <3>1 DEF NumbersInv, MarkInv, Untouched
    <3>6. FlushInv'  BY <2>1, <2>2, <3>1 DEF NumbersInv, FlushInv, Untouched
    <3> QED  BY <3>2, <3>3, <3>4, <3>5, <3>6
  <2> QED  BY <1>1, <2>3, <2>4 DEF NumbersInv
<1>9. CASE Fail
  <2>1. ~ Working'
    BY <1>9 DEF Fail, Working
  <2>2. CountersTrailStores'
    BY <1>9 DEF Fail, storeVars, NumbersInv, CountersTrailStores
  <2> QED  BY <1>1, <2>1, <2>2 DEF NumbersInv
<1> QED
  BY <1>2, <1>3, <1>4, <1>5, <1>6, <1>7, <1>8, <1>9 DEF Next, IndexStep

LEMMA NumbersAlways == Spec => []NumbersInv
<1>1. Init => NumbersInv  BY NumbersInit
<1>2. NumbersInv /\ [Next]_vars => NumbersInv'  BY NumbersNext
<1> QED  BY <1>1, <1>2, PTL DEF Spec

-----------------------------------------------------------------------------
\* Numbers have no gaps and no inscription has two, for every set of chains.
THEOREM NumbersAreDense == Spec => []NumbersDense
<1>1. NumbersInv => NumbersDense
  BY DEF NumbersInv, DenseInv, UniqueInv, NumbersDense
<1> QED  BY <1>1, NumbersAlways, PTL

\* The marks are those of the inscriptions with negative numbers.
THEOREM CursedAreMarked == Spec => []CursedMarked
<1>1. NumbersInv => CursedMarked
  <2>1. SUFFICES ASSUME NumbersInv, Working PROVE CursedMarked
    BY DEF CursedMarked
  <2>2. MarkInv  BY <2>1 DEF NumbersInv
  <2>3. DOMAIN cursed_id \subseteq {Numbered[n] : n \in {m \in DOMAIN Numbered : m < 0}}
    BY <2>2 DEF MarkInv
  <2>4. {Numbered[n] : n \in {m \in DOMAIN Numbered : m < 0}} \subseteq DOMAIN cursed_id
    BY <2>2 DEF MarkInv
  <2> QED  BY <2>2, <2>3, <2>4 DEF MarkInv, CursedMarked
<1> QED  BY <1>1, NumbersAlways, PTL

\* Wherever a block stops, what the counters in status claim is on record.
THEOREM CountersTrail == Spec => []CountersTrailStores
<1>1. NumbersInv => CountersTrailStores
  BY DEF NumbersInv
<1> QED  BY <1>1, NumbersAlways, PTL

\* A number, once stored, and a mark, once set, are never given to another.
THEOREM NumbersRemain == Spec => NumbersStay
<1> DEFINE Stay ==
        /\ \A n \in DOMAIN id_inscription :
              n \in DOMAIN id_inscription' /\ id_inscription'[n] = id_inscription[n]
        /\ \A id \in DOMAIN cursed_id :
              id \in DOMAIN cursed_id' /\ cursed_id'[id] = cursed_id[id]
<1>1. NumbersInv /\ [Next]_vars => [Stay]_vars
  <2> SUFFICES ASSUME NumbersInv, Next PROVE Stay
    OBVIOUS
  <2>1. CASE FlushIdInscription
    <3>1. Working /\ id_inscription' = Numbered /\ cursed_id' = cursed_id
      BY <2>1 DEF FlushIdInscription, Working, Numbered
    <3> QED  BY <3>1 DEF NumbersInv, FlushInv
  <2>2. CASE PlaceOnOutput \/ LoseFloating
    <3>1. PICK output, offset :
             /\ pc \in {"outputs", "settle"} /\ floating # <<>>
             /\ UpdateInscriptionState(output, offset)
      BY <2>2 DEF PlaceOnOutput, LoseFloating, WithinOutput
    <3>2. id_inscription' = id_inscription
      BY <3>1 DEF UpdateInscriptionState
    <3>3. CASE MoveInscription(Head(floating), output, offset)
      BY <3>2, <3>3 DEF MoveInscription
    <3>4. CASE AddInscription(Head(floating), output, offset)
      <4> DEFINE f == Head(floating)
      <4>1. floating \in Seq(Flotsam) /\ Distinct(floating) /\ f.kind = "new" /\ Working
        BY <3>1, <3>4 DEF NumbersInv, UniqueInv, TypeInv, TypeOK, Working, AddInscription
      <4>2. f.id \in NewIds(floating)
        BY <3>1, <4>1, NewIdsTail
      <4>3. f.id \notin DOMAIN cursed_id
        BY <4>1, <4>2 DEF NumbersInv, UniqueInv, MarkInv, NumberedIds
      <4>4. cursed_id' = cursed_id \/ \E number : cursed_id' = Put(cursed_id, f.id, number)
        BY <3>4 DEF AddInscription, Marked
      <4> QED  BY <3>2, <4>3, <4>4 DEF Put
    <3> QED  BY <3>1, <3>3, <3>4 DEF UpdateInscriptionState
  <2>3. CASE \/ BeginBlock(height + 1) \/ ScanNullInput \/ ScanInput \/ SortFloating
             \/ NextOutput \/ WriteOutputValue \/ SettleFees \/ SettleCoinbase
             \/ FlushInscriptionOutput \/ FlushOutputInscription \/ FlushStatus \/ Fail
    <3>1. id_inscription' = id_inscription /\ cursed_id' = cursed_id
      BY <2>3
      DEF BeginBlock, ScanNullInput, ScanInput, SortFloating, NextOutput, WriteOutputValue,
          SettleFees, SettleCoinbase, FlushInscriptionOutput, FlushOutputInscription,
          FlushStatus, Fail, storeVars
    <3> QED  BY <3>1
  <2> QED  BY <2>1, <2>2, <2>3 DEF Next, IndexStep
<1>2. Spec => [][Stay]_vars
  BY <1>1, NumbersAlways, PTL DEF Spec
<1> QED  BY <1>2 DEF NumbersStay
-----------------------------------------------------------------------------
\* The entries of a list; no inscription has two in it.
Items(list) == {list[k] : k \in DOMAIN list}
ListDistinct(list) == \A j, k \in DOMAIN list : list[j][1] = list[k][1] => j = k

\* What moves, and from where: the id, the output and the offset there.
OldAt(s) == {k \in DOMAIN s : s[k].kind = "old"}
Source(f) == <<f.id, f.old_output, f.old_offset>>
Sources(s) == {Source(s[k]) : k \in OldAt(s)}
OldDistinct(s) == \A j, k \in OldAt(s) : s[j].id = s[k].id => j = k

\* Two lists have no inscription that moves in common.
Apart(s, t) == \A f \in Sources(s), g \in Sources(t) : f[1] # g[1]

\* The outputs that inputs still to be read spend.
AheadOutput(o) ==
    /\ ~IsNull(o)
    /\ \/ \E tx \in Transactions(chain) : Ahead(tx) /\ o \in Spent(tx)
       \/ /\ pc = "inputs"
          /\ \E i \in DOMAIN Tx.inputs : i >= input_index /\ Tx.inputs[i].prev = o

-----------------------------------------------------------------------------
\* The lists and the records say the same.
Agree(lists, records) ==
    /\ \A o \in DOMAIN lists : \A e \in Items(lists[o]) :
          e[1] \in DOMAIN records /\ records[e[1]] = o
    /\ \A id \in DOMAIN records :
          records[id] \in DOMAIN lists /\ \E e \in Items(lists[records[id]]) : e[1] = id
    /\ \A o \in DOMAIN lists : ListDistinct(lists[o])

\* The parts of the invariant.  What has a number has a place, and its entry there.
ListsInv == DOMAIN Located = NumberedIds /\ Agree(Held, Located)

\* What moves is on its way once, is still where it comes from, and comes from
\* an output that no input ahead spends.
MovingInv ==
    /\ OldDistinct(floating) /\ OldDistinct(flotsam) /\ Apart(floating, flotsam)
    /\ \A f \in Sources(floating) \cup Sources(flotsam) :
          /\ f[2] \in DOMAIN Held /\ <<f[1], f[3]>> \in Items(Held[f[2]])
          /\ ~AheadOutput(f[2])

\* How far the flush is: stores already written say what is on record.
StoredInv ==
    /\ pc \in {"flush_output_inscription", "flush_status", "idle"} =>
          \A id \in DOMAIN Located :
              id \in DOMAIN inscription_output /\ inscription_output[id] = Located[id]
    /\ pc \in {"flush_status", "idle"} =>
          /\ \A o \in DOMAIN output_inscription : output_inscription[o] = Held[o]
          /\ \A o \in DOMAIN Held : Held[o] # <<>> => o \in DOMAIN output_inscription

\* The callbacks have reported every inscription, where it is unless it is unbound.
ReportedInv ==
    \A id \in DOMAIN Located :
        /\ id \in DOMAIN reported
        /\ Located[id] \in OutPoint => reported[id] = Located[id]

PlacesInv ==
    /\ NumbersInv
    /\ Working => ListsInv /\ MovingInv /\ StoredInv /\ ReportedInv
    /\ ~Working => floating = <<>> /\ flotsam = <<>>

-----------------------------------------------------------------------------
\* Lists of entries.
LEMMA AppendedList ==
    ASSUME NEW list \in Seq(Entry), NEW e \in Entry
    PROVE  /\ Items(Append(list, e)) = Items(list) \cup {e}
           /\ ListDistinct(list) /\ (\A x \in Items(list) : x[1] # e[1])
                 => ListDistinct(Append(list, e))
<1> DEFINE n == Len(list)
           new == Append(list, e)
<1>1. /\ n \in Nat /\ DOMAIN list = 1 .. n /\ DOMAIN new = 1 .. n + 1
      /\ new[n + 1] = e /\ \A k \in 1 .. n : new[k] = list[k]
  OBVIOUS
<1> HIDE DEF n, new
<1>2. \A k \in 1 .. n + 1 : k \in 1 .. n \/ k = n + 1
  BY <1>1
<1>3. Items(new) = Items(list) \cup {e}
  BY <1>1, <1>2 DEF Items
<1>4. ASSUME ListDistinct(list), \A x \in Items(list) : x[1] # e[1] PROVE ListDistinct(new)
  BY <1>1, <1>2, <1>4 DEF ListDistinct, Items
<1> QED  BY <1>3, <1>4 DEF new

\* str::replace takes out the entry and nothing else.
LEMMA ReplacedList ==
    ASSUME NEW list \in Seq(Entry), NEW e, NEW rest \in Replaced(list, e)
    PROVE  /\ Items(rest) = Items(list) \ {e}
           /\ ListDistinct(list) => ListDistinct(rest)
<1> DEFINE kept == {i \in DOMAIN list : list[i] # e}
           n == Cardinality(kept)
<1>1. IsFiniteSet(kept)
  <2>1. DOMAIN list = 1 .. Len(list) /\ Len(list) \in Nat  OBVIOUS
  <2>2. IsFiniteSet(1 .. Len(list))  BY <2>1, FS_Interval
  <2> QED  BY <2>1, <2>2, FS_Subset
<1>2. n \in Nat  BY <1>1, FS_CardinalityType
<1>3. PICK pos \in [1 .. n -> kept] :
         /\ \A i, j \in 1 .. n : i < j => pos[i] < pos[j]
         /\ rest = [i \in 1 .. n |-> list[pos[i]]]
  BY DEF Replaced
<1> HIDE DEF n, kept
<1>4. \A i, j \in 1 .. n : pos[i] = pos[j] => i = j
  <2>1. \A i \in 1 .. n : pos[i] \in Int  BY <1>3 DEF kept
  <2>2. \A i, j \in 1 .. n : i < j \/ j < i \/ i = j  BY <1>2
  <2> QED  BY <1>3, <2>1, <2>2
<1>5. pos \in Injection(1 .. n, kept)
  BY <1>3, <1>4 DEF Injection, IsInjective
<1>6. IsFiniteSet(1 .. n) /\ Cardinality(1 .. n) = n
  BY <1>2, FS_Interval
<1>7. pos \in Surjection(1 .. n, kept)
  BY <1>1, <1>5, <1>6, FS_Injection DEF n
<1>8. \A i \in kept : \E k \in 1 .. n : pos[k] = i
  BY <1>7 DEF Surjection
<1>9. Items(rest) = {list[i] : i \in kept}
  BY <1>3, <1>8 DEF Items
<1>10. {list[i] : i \in kept} = Items(list) \ {e}
  BY DEF kept, Items
<1>11. ListDistinct(list) => ListDistinct(rest)
  BY <1>3, <1>4 DEF ListDistinct, kept
<1> QED  BY <1>9, <1>10, <1>11

\* The list at a location, empty where there is none.
ListAt(lists, o) == IF o \in DOMAIN lists THEN lists[o] ELSE <<>>

LEMMA EntriesOf ==
    ASSUME NEW cache, NEW o
    PROVE  Entries(cache, o) = ListAt(Write(output_inscription, cache), o)
BY DEF Entries, ListAt, Write

LEMMA WritePut ==
    ASSUME NEW db, NEW batch, NEW k, NEW v
    PROVE  Write(db, Put(batch, k, v)) = Put(Write(db, batch), k, v)
BY DEF Write, Put

\* An entry is taken out of the one list that has it.
LEMMA TakenOut ==
    ASSUME NEW lists, IsStore(lists, Location, Seq(Entry)), NEW records, Agree(lists, records),
           NEW o \in DOMAIN lists, NEW e \in Items(lists[o]), NEW rest \in Replaced(lists[o], e)
    PROVE  /\ e[1] \in DOMAIN records /\ records[e[1]] = o
           /\ Agree(Put(lists, o, rest), Without(records, {e[1]}))
           /\ \A p \in DOMAIN lists : \A x \in Items(lists[p]) :
                 x # e => x \in Items(Put(lists, o, rest)[p])
<1> DEFINE left == Put(lists, o, rest)
           others == Without(records, {e[1]})
<1>1. lists[o] \in Seq(Entry)
  BY DEF IsStore
<1>2. e[1] \in DOMAIN records /\ records[e[1]] = o
  BY DEF Agree
<1>3. Items(rest) = Items(lists[o]) \ {e} /\ ListDistinct(rest)
  BY <1>1, ReplacedList DEF Agree
<1>4. \A x \in Items(rest) : x[1] # e[1]
  <2>1. ListDistinct(lists[o])
    BY DEF Agree
  <2>2. \A x, y \in Items(lists[o]) : x[1] = y[1] => x = y
    BY <2>1 DEF ListDistinct, Items
  <2> QED  BY <1>3, <2>2
<1>5. /\ DOMAIN left = DOMAIN lists /\ left[o] = rest
      /\ \A p \in DOMAIN lists : p # o => left[p] = lists[p]
  BY DEF Put
<1>6. DOMAIN others = DOMAIN records \ {e[1]} /\ \A id \in DOMAIN others : others[id] = records[id]
  BY DEF Without
<1> HIDE DEF left, others
<1>7. ASSUME NEW p \in DOMAIN left, NEW x \in Items(left[p])
      PROVE  x[1] \in DOMAIN others /\ others[x[1]] = p
  <2>1. x \in Items(lists[p]) /\ p \in DOMAIN lists
    BY <1>3, <1>5, <1>7
  <2>2. x[1] \in DOMAIN records /\ records[x[1]] = p
    BY <2>1 DEF Agree
  <2>3. x[1] # e[1]
    BY <1>2, <1>4, <1>5, <1>7, <2>2
  <2> QED  BY <1>6, <2>2, <2>3
<1>8. ASSUME NEW id \in DOMAIN others
      PROVE  others[id] \in DOMAIN left /\ \E x \in Items(left[others[id]]) : x[1] = id
  <2>1. id \in DOMAIN records /\ id # e[1] /\ others[id] = records[id]
    BY <1>6
  <2>2. records[id] \in DOMAIN lists /\ \E x \in Items(lists[records[id]]) : x[1] = id
    BY <2>1 DEF Agree
  <2>3. PICK x \in Items(lists[records[id]]) : x[1] = id
    BY <2>2
  <2>4. x # e  BY <2>1, <2>3
  <2> QED  BY <1>3, <1>5, <2>1, <2>2, <2>3, <2>4
<1>9. \A p \in DOMAIN left : ListDistinct(left[p])
  BY <1>3, <1>5 DEF Agree
<1>10. \A p \in DOMAIN lists : \A x \in Items(lists[p]) : x # e => x \in Items(left[p])
  BY <1>3, <1>5
<1>11. Agree(left, others)
  BY <1>7, <1>8, <1>9 DEF Agree
<1> QED  BY <1>2, <1>10, <1>11 DEF left, others

\* An inscription that is in no list is added to one.
LEMMA PutIn ==
    ASSUME NEW lists, IsStore(lists, Location, Seq(Entry)), NEW records, Agree(lists, records),
           NEW id \in Id, id \notin DOMAIN records, NEW o, NEW offset \in Int
    PROVE  LET more == Put(lists, o, Append(ListAt(lists, o), <<id, offset>>))
           IN  /\ Agree(more, Put(records, id, o))
               /\ \A p \in DOMAIN lists : \A x \in Items(lists[p]) :
                     p \in DOMAIN more /\ x \in Items(more[p])
<1> DEFINE e == <<id, offset>>
           list == ListAt(lists, o)
           longer == Append(list, e)
           more == Put(lists, o, longer)
           all == Put(records, id, o)
<1>1. list \in Seq(Entry) /\ e \in Entry /\ e[1] = id
  BY DEF IsStore, ListAt, Entry
<1>2. o \notin DOMAIN lists => Items(list) = {} /\ ListDistinct(list)
  BY DEF ListAt, Items, ListDistinct
<1>3. o \in DOMAIN lists => list = lists[o]
  BY DEF ListAt
<1>4. \A x \in Items(list) : o \in DOMAIN lists /\ x[1] \in DOMAIN records
  BY <1>2, <1>3 DEF Agree
<1>5. Items(longer) = Items(list) \cup {e} /\ ListDistinct(longer)
  <2>1. ListDistinct(list)  BY <1>2, <1>3 DEF Agree
  <2>2. \A x \in Items(list) : x[1] # e[1]  BY <1>1, <1>4
  <2> QED  BY <1>1, <2>1, <2>2, AppendedList
<1>6. /\ DOMAIN more = DOMAIN lists \cup {o} /\ more[o] = longer
      /\ \A p \in DOMAIN lists : p # o => more[p] = lists[p]
  BY DEF Put
<1>7. /\ DOMAIN all = DOMAIN records \cup {id} /\ all[id] = o
      /\ \A i \in DOMAIN records : all[i] = records[i]
  BY DEF Put
<1> HIDE DEF more, all, longer, list, e
<1>8. ASSUME NEW p \in DOMAIN more, NEW x \in Items(more[p])
      PROVE  x[1] \in DOMAIN all /\ all[x[1]] = p
  <2>1. CASE p \in DOMAIN lists /\ x \in Items(lists[p])
    BY <1>7, <2>1 DEF Agree
  <2>2. CASE p = o /\ x = e
    BY <1>1, <1>7, <2>2
  <2> QED  BY <1>2, <1>3, <1>5, <1>6, <1>8, <2>1, <2>2
<1>9. \A p \in DOMAIN lists : \A x \in Items(lists[p]) : p \in DOMAIN more /\ x \in Items(more[p])
  BY <1>3, <1>5, <1>6
<1>10. ASSUME NEW i \in DOMAIN all
       PROVE  all[i] \in DOMAIN more /\ \E x \in Items(more[all[i]]) : x[1] = i
  <2>1. CASE i = id
    BY <1>1, <1>5, <1>6, <1>7, <2>1
  <2>2. CASE i \in DOMAIN records
    <3>1. records[i] \in DOMAIN lists /\ \E x \in Items(lists[records[i]]) : x[1] = i
      BY <2>2 DEF Agree
    <3> QED  BY <1>7, <1>9, <2>2, <3>1
  <2> QED  BY <1>7, <2>1, <2>2
<1>11. \A p \in DOMAIN more : ListDistinct(more[p])
  BY <1>5, <1>6 DEF Agree
<1>12. Agree(more, all)
  BY <1>8, <1>10, <1>11 DEF Agree
<1> QED  BY <1>9, <1>12 DEF more, all, longer, list, e

-----------------------------------------------------------------------------
\* Lists of floating inscriptions: what is done to them doubles none that moves.
LEMMA SourcesConcat ==
    ASSUME NEW s \in Seq(Flotsam), NEW t \in Seq(Flotsam),
           OldDistinct(s), OldDistinct(t), Apart(s, t)
    PROVE  Sources(s \o t) = Sources(s) \cup Sources(t) /\ OldDistinct(s \o t)
<1> DEFINE m == Len(s)
           n == Len(t)
           both == s \o t
<1>1. m \in Nat /\ n \in Nat /\ DOMAIN s = 1 .. m /\ DOMAIN t = 1 .. n
  OBVIOUS
<1>2. DOMAIN both = 1 .. m + n /\ \A k \in 1 .. m + n : both[k] = IF k <= m THEN s[k] ELSE t[k - m]
  BY <1>1
<1> HIDE DEF m, n, both
<1>3. ASSUME NEW k \in OldAt(both)
      PROVE  \/ k \in OldAt(s) /\ both[k] = s[k] /\ k <= m
             \/ k - m \in OldAt(t) /\ both[k] = t[k - m] /\ k > m
  BY <1>1, <1>2 DEF OldAt
<1>4. Sources(both) \subseteq Sources(s) \cup Sources(t)
  BY <1>3 DEF Sources
<1>5. Sources(s) \subseteq Sources(both)
  <2>1. \A k \in OldAt(s) : k \in OldAt(both) /\ both[k] = s[k]
    BY <1>1, <1>2 DEF OldAt
  <2> QED  BY <2>1 DEF Sources
<1>6. Sources(t) \subseteq Sources(both)
  <2>1. \A k \in OldAt(t) : k + m \in OldAt(both) /\ both[k + m] = t[k]
    BY <1>1, <1>2 DEF OldAt
  <2> QED  BY <2>1 DEF Sources
<1>7. OldDistinct(both)
  <2>1. SUFFICES ASSUME NEW j \in OldAt(both), NEW k \in OldAt(both), both[j].id = both[k].id
                 PROVE  j = k
    BY DEF OldDistinct
  <2>2. j \in Int /\ k \in Int
    BY <1>1, <1>2 DEF OldAt
  <2>3. CASE j <= m /\ k <= m
    BY <1>1, <1>3, <2>1, <2>2, <2>3 DEF OldDistinct
  <2>4. CASE j > m /\ k > m
    <3>1. j - m = k - m
      BY <1>1, <1>3, <2>1, <2>2, <2>4 DEF OldDistinct
    <3> QED  BY <1>1, <2>2, <3>1
  <2>5. \A i \in OldAt(s), l \in OldAt(t) : s[i].id # t[l].id
    <3>1. \A f : Source(f)[1] = f.id  BY DEF Source
    <3> QED  BY <3>1 DEF Apart, Sources
  <2> QED  BY <1>1, <1>3, <2>1, <2>2, <2>3, <2>4, <2>5
<1> QED  BY <1>4, <1>5, <1>6, <1>7 DEF both

LEMMA SourcesSorted ==
    ASSUME NEW s \in Seq(Flotsam), OldDistinct(s), NEW sorted \in StablySorted(s)
    PROVE  Sources(sorted) \subseteq Sources(s) /\ OldDistinct(sorted)
<1>1. PICK order \in [DOMAIN s -> DOMAIN s] :
         SortedBy(s, order) /\ sorted = [i \in DOMAIN s |-> s[order[i]]]
  BY DEF StablySorted
<1>2. \A i, j \in DOMAIN s : order[i] = order[j] => i = j
  BY <1>1, SortedInjective
<1>3. \A i \in OldAt(sorted) : i \in DOMAIN s /\ order[i] \in OldAt(s) /\ sorted[i] = s[order[i]]
  BY <1>1 DEF OldAt
<1> QED  BY <1>2, <1>3 DEF Sources, OldDistinct

LEMMA SourcesTail ==
    ASSUME NEW s \in Seq(Flotsam), s # <<>>, OldDistinct(s)
    PROVE  /\ Sources(Tail(s)) \subseteq Sources(s) /\ OldDistinct(Tail(s))
           /\ Head(s).kind = "old" =>
                 /\ Source(Head(s)) \in Sources(s)
                 /\ \A f \in Sources(Tail(s)) : f[1] # Head(s).id
<1>1. DOMAIN s = 1 .. Len(s) /\ Len(s) \in Nat /\ Len(s) # 0 /\ Head(s) = s[1]
  OBVIOUS
<1>2. DOMAIN Tail(s) = 1 .. Len(s) - 1 /\ \A k \in 1 .. Len(s) - 1 : Tail(s)[k] = s[k + 1]
  BY <1>1
<1>3. \A k \in OldAt(Tail(s)) : k \in Nat /\ k # 0 /\ k + 1 \in OldAt(s) /\ Tail(s)[k] = s[k + 1]
  BY <1>1, <1>2 DEF OldAt
<1>4. Sources(Tail(s)) \subseteq Sources(s)
  BY <1>3 DEF Sources
<1>5. OldDistinct(Tail(s))
  <2>1. SUFFICES ASSUME NEW j \in OldAt(Tail(s)), NEW k \in OldAt(Tail(s)),
                        Tail(s)[j].id = Tail(s)[k].id
                 PROVE  j = k
    BY DEF OldDistinct
  <2>2. j + 1 = k + 1  BY <1>3, <2>1 DEF OldDistinct
  <2> QED  BY <1>3, <2>2
<1>6. ASSUME Head(s).kind = "old"
      PROVE  /\ Source(Head(s)) \in Sources(s)
             /\ \A f \in Sources(Tail(s)) : f[1] # Head(s).id
  <2>1. 1 \in OldAt(s)  BY <1>1, <1>6 DEF OldAt
  <2>2. \A k \in OldAt(Tail(s)) : Tail(s)[k].id # Head(s).id
    <3>1. SUFFICES ASSUME NEW k \in OldAt(Tail(s)), Tail(s)[k].id = Head(s).id PROVE FALSE
      OBVIOUS
    <3>2. k + 1 = 1  BY <1>1, <1>3, <2>1, <3>1 DEF OldDistinct
    <3> QED  BY <1>3, <3>2
  <2>3. \A f : Source(f)[1] = f.id  BY DEF Source
  <2> QED  BY <1>1, <2>1, <2>2, <2>3 DEF Sources
<1> QED  BY <1>4, <1>5, <1>6

LEMMA NoSources == Sources(<<>>) = {} /\ OldDistinct(<<>>) /\ \A s : Apart(<<>>, s) /\ Apart(s, <<>>)
BY DEF Sources, OldAt, OldDistinct, Apart

\* What is revealed does not move.
LEMMA RevealedIsNew ==
    ASSUME NEW fs, NEW i, NEW total
    PROVE  Sources(Revealed(fs, i, total)) = {} /\ OldDistinct(Revealed(fs, i, total))
BY DEF Revealed, Sources, OldAt, OldDistinct

\* What arrives with an input are the entries of the output it spends.
LEMMA ArrivingSources ==
    ASSUME NEW prev
    PROVE  LET entries == Entries(output_inscription_cache, prev)
           IN  /\ Sources(Arriving(prev)) = {<<e[1], prev, e[2]>> : e \in Items(entries)}
               /\ ListDistinct(entries) => OldDistinct(Arriving(prev))
<1> DEFINE entries == Entries(output_inscription_cache, prev)
           a == Arriving(prev)
<1>1. /\ DOMAIN a = DOMAIN entries
      /\ \A k \in DOMAIN entries :
            /\ a[k].kind = "old" /\ a[k].id = entries[k][1]
            /\ Source(a[k]) = <<entries[k][1], prev, entries[k][2]>>
  BY DEF Arriving, Source
<1> HIDE DEF a, entries
<1>2. OldAt(a) = DOMAIN entries
  BY <1>1 DEF OldAt
<1>3. Sources(a) = {<<e[1], prev, e[2]>> : e \in Items(entries)}
  BY <1>1, <1>2 DEF Sources, Items
<1>4. ListDistinct(entries) => OldDistinct(a)
  BY <1>1, <1>2 DEF ListDistinct, OldDistinct
<1> QED  BY <1>3, <1>4 DEF a, entries

-----------------------------------------------------------------------------
\* What is ahead gets less.
LEMMA AheadWithinTx ==
    ASSUME TypeInv, UNCHANGED <<chain, height, tx_index>>, pc # "idle",
           pc' = "inputs" => pc = "inputs" /\ input_index' \in {input_index, input_index + 1},
           NEW o, AheadOutput(o)'
    PROVE  AheadOutput(o)
<1>1. Tx' = Tx /\ \A tx : Ahead(tx)' => Ahead(tx)
  BY DEF Tx, Ahead, InLaterBlock, LaterInBlock
<1>2. CASE \E tx \in Transactions(chain) : Ahead(tx)' /\ o \in Spent(tx)
  BY <1>1, <1>2 DEF AheadOutput
<1>3. CASE pc' = "inputs" /\ \E i \in DOMAIN Tx.inputs : i >= input_index' /\ Tx.inputs[i].prev = o
  <2>1. PICK i \in DOMAIN Tx.inputs : i >= input_index' /\ Tx.inputs[i].prev = o
    BY <1>3
  <2>2. input_index \in Nat /\ i \in Nat
    <3>1. input_index \in Nat
      BY DEF TypeInv, TypeOK
    <3>2. pc = "inputs"
      BY <1>3
    <3>3. DOMAIN Tx.inputs = 1 .. Len(Tx.inputs) /\ Len(Tx.inputs) \in Nat
      BY <3>2, TxFacts
    <3> QED  BY <2>1, <3>1, <3>3
  <2>3. i >= input_index  BY <1>3, <2>1, <2>2
  <2> QED  BY <1>3, <2>1, <2>3 DEF AheadOutput
<1> QED  BY <1>1, <1>2, <1>3 DEF AheadOutput

LEMMA AheadNextTx ==
    ASSUME TypeInv, pc = "settle", FinishTx, UNCHANGED <<chain, height>>,
           NEW o, AheadOutput(o)'
    PROVE  AheadOutput(o)
<1>1. /\ \A tx : Ahead(tx)' => Ahead(tx)
      /\ pc' = "inputs" => Tx' \in Transactions(chain) /\ Ahead(Tx')
  BY AheadFinishes
<1>2. CASE \E tx \in Transactions(chain) : Ahead(tx)' /\ o \in Spent(tx)
  BY <1>1, <1>2 DEF AheadOutput
<1>3. CASE pc' = "inputs" /\ \E i \in DOMAIN Tx'.inputs : Tx'.inputs[i].prev = o
  <2>1. ~IsNull(o)
    BY DEF AheadOutput
  <2>2. o \in Spent(Tx')
    BY <1>3, <2>1 DEF Spent, IsNull
  <2> QED  BY <1>1, <1>3, <2>1, <2>2 DEF AheadOutput
<1> QED  BY <1>2, <1>3 DEF AheadOutput

-----------------------------------------------------------------------------
\* Steps that leave the lists and the records as they are.
LEMMA KeepLists ==
    ASSUME ListsInv, ReportedInv,
           Held' = Held, Located' = Located, NumberedIds' = NumberedIds, UNCHANGED reported
    PROVE  ListsInv' /\ ReportedInv'
BY DEF ListsInv, ReportedInv

LEMMA KeepMoving ==
    ASSUME MovingInv, Held' = Held,
           \A o : AheadOutput(o)' => AheadOutput(o),
           Sources(floating') \cup Sources(flotsam') \subseteq Sources(floating) \cup Sources(flotsam),
           OldDistinct(floating'), OldDistinct(flotsam'), Apart(floating', flotsam')
    PROVE  MovingInv'
BY DEF MovingInv

LEMMA NothingStored ==
    ASSUME pc' \in {"inputs", "outputs", "settle", "flush_id_inscription",
                    "flush_inscription_output"}
    PROVE  StoredInv'
BY DEF StoredInv

-----------------------------------------------------------------------------
\* What the lists are after an inscription moved, or after a new one joined.
LEMMA MoveHeld ==
    ASSUME NEW f, NEW output, NEW offset, MoveInscription(f, output, offset),
           UNCHANGED output_inscription
    PROVE  \E rest \in Replaced(ListAt(Held, f.old_output), <<f.id, f.old_offset>>) :
              LET left == Put(Held, f.old_output, rest)
              IN  Held' = Put(left, output, Append(ListAt(left, output), <<f.id, offset>>))
<1>1. PICK rest \in Replaced(ListAt(Held, f.old_output), <<f.id, f.old_offset>>) :
         output_inscription_cache' =
             LET emptied == Put(output_inscription_cache, f.old_output, rest)
             IN  Put(emptied, output, Append(Entries(emptied, output), <<f.id, offset>>))
  <2>1. Entries(output_inscription_cache, f.old_output) = ListAt(Held, f.old_output)
    BY EntriesOf DEF Held
  <2> QED  BY <2>1 DEF MoveInscription
<1> DEFINE left == Put(Held, f.old_output, rest)
           emptied == Put(output_inscription_cache, f.old_output, rest)
           longer == Append(Entries(emptied, output), <<f.id, offset>>)
<1>2. Write(output_inscription, emptied) = left
  BY WritePut DEF Held
<1>3. Held' = Put(Write(output_inscription, emptied), output, longer)
  BY <1>1, WritePut DEF Held
<1>4. Entries(emptied, output) = ListAt(left, output)
  BY <1>2, EntriesOf
<1> QED  BY <1>2, <1>3, <1>4

LEMMA AddHeld ==
    ASSUME NEW f, NEW output, NEW offset, AddInscription(f, output, offset),
           UNCHANGED output_inscription
    PROVE  LET location == IF f.unbound THEN Unbound(unbound_inscriptions) ELSE output
           IN  Held' = Put(Held, location, Append(ListAt(Held, location), <<f.id, offset>>))
BY WritePut, EntriesOf DEF AddInscription, Held

\* An inscription that moves: its entry leaves one list and joins another.
LEMMA MoveLists ==
    ASSUME TypeInv, MovingInv, NEW records, Agree(Held, records),
           pc \in {"outputs", "settle"}, floating # <<>>,
           NEW output \in OutPoint, NEW offset \in Int, UpdateInscriptionState(output, offset),
           MoveInscription(Head(floating), output, offset)
    PROVE  /\ MovingInv' /\ Head(floating).id \in DOMAIN records
           /\ Agree(Held', Put(records, Head(floating).id, output))
<1> DEFINE f == Head(floating)
           e == <<f.id, f.old_offset>>
<1>1. floating \in Seq(Flotsam) /\ f \in Flotsam /\ f.kind = "old"
  BY HeadTail DEF TypeInv, TypeOK, MoveInscription
<1>2. /\ UNCHANGED <<chain, height, tx_index, pc, flotsam, output_inscription>>
      /\ floating' = Tail(floating)
  BY DEF UpdateInscriptionState, MoveInscription, blockVars, txVars
<1>3. f.id \in Id /\ f.old_output \in OutPoint
  BY <1>1 DEF Flotsam, OldFlotsam, NewFlotsam
<1>4. /\ Source(f) \in Sources(floating) /\ Sources(floating') \subseteq Sources(floating)
      /\ OldDistinct(floating') /\ \A g \in Sources(floating') : g[1] # f.id
  BY <1>1, <1>2, SourcesTail DEF MovingInv
<1>5. f.old_output \in DOMAIN Held /\ e \in Items(Held[f.old_output])
  BY <1>1, <1>4 DEF MovingInv, Source
<1>6. IsStore(Held, Location, Seq(Entry))
  BY <1>1, WriteIsStore DEF Held, TypeInv, TypeOK
<1>7. PICK rest \in Replaced(Held[f.old_output], e) :
         LET left == Put(Held, f.old_output, rest)
         IN  Held' = Put(left, output, Append(ListAt(left, output), <<f.id, offset>>))
  <2>1. MoveInscription(f, output, offset) /\ ListAt(Held, f.old_output) = Held[f.old_output]
    BY <1>5 DEF ListAt
  <2> QED  BY <1>2, <2>1, MoveHeld
<1> DEFINE left == Put(Held, f.old_output, rest)
           others == Without(records, {f.id})
           all == Put(records, f.id, output)
<1>8. Held' = Put(left, output, Append(ListAt(left, output), <<f.id, offset>>))
  BY <1>7
<1>10. /\ f.id \in DOMAIN records /\ Agree(left, others)
       /\ \A p \in DOMAIN Held : \A x \in Items(Held[p]) :
             x # e => p \in DOMAIN left /\ x \in Items(left[p])
  <2>1. Agree(Held, records) /\ e[1] = f.id
    OBVIOUS
  <2>2. DOMAIN left = DOMAIN Held
    BY <1>5 DEF Put
  <2>3. PICK o, x : o = f.old_output /\ x = e
    OBVIOUS
  <2>4. /\ x[1] \in DOMAIN records
        /\ Agree(Put(Held, o, rest), Without(records, {x[1]}))
        /\ \A p \in DOMAIN Held : \A y \in Items(Held[p]) :
              y # x => y \in Items(Put(Held, o, rest)[p])
    <3> HIDE DEF e, f
    <3> QED  BY <1>5, <1>6, <1>7, <2>1, <2>3, TakenOut
  <2> QED  BY <2>1, <2>2, <2>3, <2>4
<1>11. f.id \notin DOMAIN others /\ Put(others, f.id, output) = all
  BY <1>10 DEF Without, Put
<1>12. IsStore(left, Location, Seq(Entry))
  <2>1. Held[f.old_output] \in Seq(Entry)
    BY <1>5, <1>6 DEF IsStore
  <2>2. rest \in Seq(Entry)
    BY <2>1, ReplacedSeq
  <2> QED  BY <1>3, <1>6, <2>2, PutIsStore DEF Location
<1>13. /\ Agree(Held', all)
       /\ \A p \in DOMAIN left : \A x \in Items(left[p]) :
             p \in DOMAIN Held' /\ x \in Items(Held'[p])
  <2> HIDE DEF left, others, all, f
  <2> QED  BY <1>3, <1>8, <1>10, <1>11, <1>12, PutIn
<1>15. MovingInv'
  <2>1. \A o : AheadOutput(o)' => AheadOutput(o)
    BY <1>1, <1>2, AheadWithinTx
  <2>2. Apart(floating', flotsam') /\ OldDistinct(flotsam')
    BY <1>1, <1>2, <1>4 DEF MovingInv, Apart
  <2>3. ASSUME NEW g \in Sources(floating') \cup Sources(flotsam')
        PROVE  /\ g[2] \in DOMAIN Held' /\ <<g[1], g[3]>> \in Items(Held'[g[2]])
               /\ ~AheadOutput(g[2])'
    <3>1. g \in Sources(floating) \cup Sources(flotsam)
      BY <1>2, <1>4
    <3>2. /\ g[2] \in DOMAIN Held /\ <<g[1], g[3]>> \in Items(Held[g[2]])
          /\ ~AheadOutput(g[2])
      BY <1>1, <3>1 DEF MovingInv
    <3>3. g[1] # f.id
      <4>1. Source(f)[1] = f.id  BY DEF Source
      <4> QED  BY <1>1, <1>2, <1>4, <4>1 DEF MovingInv, Apart
    <3> QED  BY <1>10, <1>13, <2>1, <3>2, <3>3
  <2> QED  BY <1>4, <2>2, <2>3 DEF MovingInv
<1> QED  BY <1>10, <1>13, <1>15

LEMMA MovePlaces ==
    ASSUME PlacesInv, NumbersInv', pc \in {"outputs", "settle"}, floating # <<>>,
           NEW output \in OutPoint, NEW offset \in Int, UpdateInscriptionState(output, offset),
           MoveInscription(Head(floating), output, offset)
    PROVE  PlacesInv'
<1> DEFINE f == Head(floating)
<1>1. TypeInv /\ Working /\ ListsInv /\ MovingInv /\ ReportedInv
  BY DEF PlacesInv, NumbersInv, Working
<1>2. /\ UNCHANGED <<pc, id_inscription, id_inscription_wb, inscription_output>> /\ Working'
      /\ reported' = Put(reported, f.id, output)
      /\ inscription_output_wb' = Put(inscription_output_wb, f.id, output)
  BY <1>1 DEF UpdateInscriptionState, MoveInscription, Working
<1>3. Located' = Put(Located, f.id, output)
  BY <1>2, WritePut DEF Located
<1>4. MovingInv' /\ f.id \in DOMAIN Located /\ Agree(Held', Located')
  BY <1>1, <1>3, MoveLists DEF ListsInv
<1>5. ListsInv'
  <2>1. NumberedIds' = NumberedIds
    BY <1>2 DEF NumberedIds, Numbered
  <2>2. DOMAIN Located' = DOMAIN Located
    BY <1>3, <1>4 DEF Put
  <2> QED  BY <1>1, <1>4, <2>1, <2>2 DEF ListsInv
<1>6. ReportedInv'
  BY <1>1, <1>2, <1>3 DEF ReportedInv, Put
<1>7. StoredInv'
  BY <1>2, NothingStored
<1> QED  BY <1>2, <1>4, <1>5, <1>6, <1>7 DEF PlacesInv

\* A new inscription: it joins a list, and was in none.
LEMMA AddLists ==
    ASSUME TypeInv, MovingInv, NEW records, Agree(Held, records),
           pc \in {"outputs", "settle"}, floating # <<>>,
           NEW output \in OutPoint, NEW offset \in Int, UpdateInscriptionState(output, offset),
           AddInscription(Head(floating), output, offset), Head(floating).id \notin DOMAIN records
    PROVE  LET f == Head(floating)
               location == IF f.unbound THEN Unbound(unbound_inscriptions) ELSE output
           IN  MovingInv' /\ Agree(Held', Put(records, f.id, location))
<1> DEFINE f == Head(floating)
           location == IF f.unbound THEN Unbound(unbound_inscriptions) ELSE output
<1>1. floating \in Seq(Flotsam) /\ f \in Flotsam /\ f.kind = "new"
  BY HeadTail DEF TypeInv, TypeOK, AddInscription
<1>2. /\ UNCHANGED <<chain, height, tx_index, pc, flotsam, output_inscription>>
      /\ floating' = Tail(floating)
      /\ AddInscription(f, output, offset)
  BY DEF UpdateInscriptionState, blockVars, txVars
<1>3. f.id \in Id
  BY <1>1 DEF Flotsam, OldFlotsam, NewFlotsam
<1>5. /\ Sources(floating') \subseteq Sources(floating) /\ OldDistinct(floating')
  BY <1>1, <1>2, SourcesTail DEF MovingInv
<1>6. IsStore(Held, Location, Seq(Entry))
  BY <1>1, WriteIsStore DEF Held, TypeInv, TypeOK
<1>7. Held' = Put(Held, location, Append(ListAt(Held, location), <<f.id, offset>>))
  <2> HIDE DEF f
  <2> QED  BY <1>2, AddHeld
<1>9. /\ Agree(Held', Put(records, f.id, location))
      /\ \A p \in DOMAIN Held : \A x \in Items(Held[p]) :
            p \in DOMAIN Held' /\ x \in Items(Held'[p])
  <2>1. f.id \notin DOMAIN records
    OBVIOUS
  <2> HIDE DEF location, f
  <2> QED  BY <1>3, <1>6, <1>7, <2>1, PutIn
<1>11. MovingInv'
  <2>1. \A o : AheadOutput(o)' => AheadOutput(o)
    BY <1>1, <1>2, AheadWithinTx
  <2>2. Apart(floating', flotsam') /\ OldDistinct(flotsam')
    BY <1>1, <1>2, <1>5 DEF MovingInv, Apart
  <2>3. \A g \in Sources(floating') \cup Sources(flotsam') :
           /\ g[2] \in DOMAIN Held' /\ <<g[1], g[3]>> \in Items(Held'[g[2]])
           /\ ~AheadOutput(g[2])'
    BY <1>1, <1>2, <1>5, <1>9, <2>1 DEF MovingInv
  <2> QED  BY <1>5, <2>2, <2>3 DEF MovingInv
<1> QED  BY <1>9, <1>11

LEMMA AddPlaces ==
    ASSUME PlacesInv, NumbersInv', pc \in {"outputs", "settle"}, floating # <<>>,
           NEW output \in OutPoint, NEW offset \in Int, UpdateInscriptionState(output, offset),
           AddInscription(Head(floating), output, offset)
    PROVE  PlacesInv'
<1> DEFINE f == Head(floating)
           number == IF f.cursed THEN next_cursed_number ELSE next_number
           location == IF f.unbound THEN Unbound(unbound_inscriptions) ELSE output
<1>1. /\ TypeInv /\ Working /\ Working' /\ ListsInv /\ MovingInv /\ ReportedInv
      /\ floating \in Seq(Flotsam) /\ f \in Flotsam /\ f.kind = "new"
  BY HeadTail
  DEF PlacesInv, NumbersInv, TypeInv, TypeOK, Working, AddInscription, UpdateInscriptionState
<1>2. /\ UNCHANGED <<pc, id_inscription, inscription_output>>
      /\ reported' = Put(reported, f.id, output)
      /\ id_inscription_wb' = Put(id_inscription_wb, number, f.id)
      /\ inscription_output_wb' = Put(inscription_output_wb, f.id, location)
  BY DEF UpdateInscriptionState, AddInscription, blockVars, txVars
<1>4. f.id \notin NumberedIds
  <2>1. Distinct(floating) /\ UniqueInv
    BY <1>1 DEF PlacesInv, NumbersInv, UniqueInv
  <2>2. f.id \in NewIds(floating)
    BY <1>1, <2>1, NewIdsTail
  <2> QED  BY <2>1, <2>2 DEF UniqueInv
<1>8. Located' = Put(Located, f.id, location)
  BY <1>2, WritePut DEF Located
<1>9. MovingInv' /\ Agree(Held', Located')
  BY <1>1, <1>4, <1>8, AddLists DEF ListsInv
<1>10. ListsInv'
  <2>1. Numbered' = Put(Numbered, number, f.id) /\ DOMAIN Located' = DOMAIN Located \cup {f.id}
    <3>1. Numbered' = Put(Numbered, number, f.id)
      BY <1>2, WritePut DEF Numbered
    <3>2. DOMAIN Located' = DOMAIN Located \cup {f.id}
      BY <1>8 DEF Put
    <3> QED  BY <3>1, <3>2
  <2>2. number \notin DOMAIN Numbered
    <3>1. DenseInv /\ next_number \in Nat /\ next_cursed_number \in Int /\ f.cursed \in BOOLEAN
      BY <1>1 DEF PlacesInv, NumbersInv, TypeInv, TypeOK, Flotsam, OldFlotsam, NewFlotsam
    <3> QED  BY <3>1 DEF DenseInv, NextBlessed, NextCursed
  <2> HIDE DEF number, f
  <2>3. NumberedIds' = NumberedIds \cup {f.id}
    BY <2>1, <2>2 DEF NumberedIds, Put
  <2> QED  BY <1>1, <1>9, <2>1, <2>3 DEF ListsInv
<1>12. ReportedInv'
  <2>1. location \in OutPoint => location = output
    <3>1. \A o \in OutPoint : Len(o) = 2
      BY DEF OutPoint
    <3>2. \A n : Len(Unbound(n)) = 3
      BY DEF Unbound
    <3>3. \A n : Unbound(n) \notin OutPoint
      <4> SUFFICES ASSUME NEW n PROVE Len(Unbound(n)) # 2
        BY <3>1
      <4>1. Len(Unbound(n)) = 3
        BY <3>2
      <4> QED  BY <4>1
    <3>4. location = Unbound(unbound_inscriptions) \/ location = output
      OBVIOUS
    <3> QED  BY <3>3, <3>4, Zenon
  <2> HIDE DEF location, f
  <2> QED  BY <1>1, <1>2, <1>8, <2>1 DEF ReportedInv, Put
<1>13. StoredInv'
  BY <1>2, NothingStored
<1> QED  BY <1>1, <1>9, <1>10, <1>12, <1>13 DEF PlacesInv

\* The output an input spends: no input read before spends it, and none after.
LEMMA SpentNow ==
    ASSUME TypeInv, pc = "inputs", NEW prev, ~IsNull(prev),
           input_index \in DOMAIN Tx.inputs, Tx.inputs[input_index].prev = prev,
           UNCHANGED <<chain, height, tx_index, pc>>, input_index' = input_index + 1
    PROVE  AheadOutput(prev) /\ ~AheadOutput(prev)'
<1>1. /\ Tx \in Transactions(chain) /\ SpentOnce(Transactions(chain))
      /\ input_index \in Nat /\ DOMAIN Tx.inputs = 1 .. Len(Tx.inputs)
  BY TxFacts, TxInOrderType, ChainAssumption DEF TypeInv, TypeOK, WellFormed, Tx
<1>2. Tx' = Tx /\ \A tx : Ahead(tx)' <=> Ahead(tx)
  BY DEF Tx, Ahead, InLaterBlock, LaterInBlock
<1>3. ASSUME NEW tx \in Transactions(chain), Ahead(tx), prev \in Spent(tx) PROVE FALSE
  <2>1. PICK j \in DOMAIN tx.inputs : tx.inputs[j].prev = prev
    BY <1>3 DEF Spent
  <2>2. tx = Tx
    BY <1>1, <2>1 DEF SpentOnce
  <2> QED  BY <1>3, <2>2, AheadDiffers
<1>4. ASSUME NEW i \in DOMAIN Tx.inputs, i >= input_index + 1, Tx.inputs[i].prev = prev PROVE FALSE
  <2>1. i = input_index
    BY <1>1, <1>4 DEF SpentOnce
  <2> QED  BY <1>1, <1>4, <2>1
<1>5. AheadOutput(prev)
  <2>1. input_index >= input_index  BY <1>1
  <2> QED  BY <2>1 DEF AheadOutput
<1>6. ~AheadOutput(prev)'
  BY <1>2, <1>3, <1>4 DEF AheadOutput
<1> QED  BY <1>5, <1>6

\* Reading a list puts it into the cache as it is.
LEMMA ScanHeld == ScanInput => Held' = Held
<1> SUFFICES ASSUME ScanInput PROVE Held' = Held
  OBVIOUS
<1>0. PICK prev : prev = Tx.inputs[input_index].prev
  OBVIOUS
<1> DEFINE entries == Entries(output_inscription_cache, prev)
<1>1. /\ output_inscription_cache' = IF entries = <<>> THEN output_inscription_cache
                                     ELSE Put(output_inscription_cache, prev, entries)
      /\ UNCHANGED output_inscription
  BY <1>0 DEF ScanInput, storeVars
<1>2. entries = ListAt(Held, prev)
  BY EntriesOf DEF Held
<1>3. CASE entries = <<>>
  BY <1>1, <1>3 DEF Held
<1>4. CASE entries # <<>>
  <2>1. prev \in DOMAIN Held /\ entries = Held[prev]
    BY <1>2, <1>4 DEF ListAt
  <2>2. Held' = Put(Held, prev, Held[prev])
    BY <1>1, <1>4, <2>1, WritePut DEF Held
  <2>3. Put(Held, prev, Held[prev]) = Held
    BY <2>1 DEF Put, Held, Write
  <2> QED  BY <2>2, <2>3
<1> QED  BY <1>3, <1>4

\* What arrives with an input was not on its way: it is in the list of the
\* output the input spends.
LEMMA ScanMoving ==
    ASSUME TypeInv, MovingInv, NEW records, Agree(Held, records), ScanInput
    PROVE  MovingInv'
<1>0. PICK prev : prev = Tx.inputs[input_index].prev
  OBVIOUS
<1> DEFINE entries == Entries(output_inscription_cache, prev)
           arriving == Arriving(prev)
           arrived == floating \o arriving
           revealed == Revealed(arrived, input_index, input_value + OutputValue(prev))
<1>1. /\ pc = "inputs" /\ input_index \in DOMAIN Tx.inputs /\ ~IsNull(prev)
  <2>1. pc = "inputs" /\ InputsLeft /\ ~IsNull(prev)
    BY <1>0 DEF ScanInput
  <2>2. input_index \in Nat /\ input_index # 0
    BY <2>1 DEF TypeInv, TypeOK
  <2>3. input_index \in DOMAIN Tx.inputs
    BY <2>1, <2>2, TxFacts DEF InputsLeft
  <2> QED  BY <2>1, <2>3
<1>2. /\ floating' = arrived \o revealed
      /\ input_index' = input_index + 1
      /\ UNCHANGED <<chain, height, tx_index, pc, flotsam>>
  BY <1>0 DEF ScanInput, blockVars
<1>3. /\ floating \in Seq(Flotsam) /\ arriving \in Seq(Flotsam) /\ arrived \in Seq(Flotsam)
      /\ revealed \in Seq(Flotsam)
  <2>1. floating \in Seq(Flotsam)  BY <1>1 DEF TypeInv, TypeOK
  <2>2. prev \in OutPoint  BY <1>0, <1>1, TxFacts DEF Input
  <2>3. arriving \in Seq(Flotsam)  BY <1>1, <2>2, ArrivingType
  <2>4. revealed \in Seq(Flotsam)  BY <1>1, RevealedType
  <2> QED  BY <2>1, <2>3, <2>4
<1>4. AheadOutput(prev) /\ ~AheadOutput(prev)'
  BY <1>0, <1>1, <1>2, SpentNow
<1>5. entries = ListAt(Held, prev)
  BY EntriesOf DEF Held
<1>6. Held' = Held
  BY ScanHeld
<1> HIDE DEF entries, arriving, revealed
<1>9. /\ OldDistinct(arriving)
      /\ \A g \in Sources(arriving) :
            g[2] = prev /\ prev \in DOMAIN Held /\ <<g[1], g[3]>> \in Items(Held[prev])
  <2>1. CASE prev \in DOMAIN Held
    <3>1. entries = Held[prev] /\ ListDistinct(entries)
      BY <1>5, <2>1 DEF ListAt, Agree
    <3>2. Sources(arriving) = {<<x[1], prev, x[2]>> : x \in Items(entries)} /\ OldDistinct(arriving)
      BY <3>1, ArrivingSources DEF arriving, entries
    <3>3. \A x \in Items(entries) : x = <<x[1], x[2]>>
      <4>1. entries \in Seq(Entry)
        BY <1>1, EntriesType DEF entries, TypeInv, TypeOK
      <4> QED  BY <4>1 DEF Items, Entry
    <3> QED  BY <2>1, <3>1, <3>2, <3>3
  <2>2. CASE prev \notin DOMAIN Held
    <3>1. Items(entries) = {} /\ ListDistinct(entries)
      BY <1>5, <2>2 DEF ListAt, Items, ListDistinct
    <3>2. Sources(arriving) = {<<x[1], prev, x[2]>> : x \in Items(entries)} /\ OldDistinct(arriving)
      BY <3>1, ArrivingSources DEF arriving, entries
    <3> QED  BY <3>1, <3>2
  <2> QED  BY <2>1, <2>2
<1>10. \A g \in Sources(floating) \cup Sources(flotsam), h \in Sources(arriving) : g[1] # h[1]
  <2>1. SUFFICES ASSUME NEW g \in Sources(floating) \cup Sources(flotsam),
                        NEW h \in Sources(arriving), g[1] = h[1]
                 PROVE  FALSE
    OBVIOUS
  <2>2. g[2] \in DOMAIN Held /\ <<g[1], g[3]>> \in Items(Held[g[2]]) /\ ~AheadOutput(g[2])
    BY <1>1 DEF MovingInv
  <2>3. records[g[1]] = g[2]
    BY <2>2 DEF Agree
  <2>4. records[h[1]] = prev
    <3>1. h[1] = <<h[1], h[3]>>[1]
      OBVIOUS
    <3> QED  BY <1>9, <3>1 DEF Agree
  <2>5. g[2] = prev
    BY <2>1, <2>3, <2>4
  <2> QED  BY <1>4, <2>2, <2>5
<1>11. /\ Sources(floating') = Sources(floating) \cup Sources(arriving) /\ OldDistinct(floating')
       /\ OldDistinct(flotsam')
  <2>1. Sources(arrived) = Sources(floating) \cup Sources(arriving) /\ OldDistinct(arrived)
    BY <1>1, <1>3, <1>9, <1>10, SourcesConcat DEF MovingInv, Apart
  <2>2. Sources(revealed) = {} /\ OldDistinct(revealed)
    BY RevealedIsNew DEF revealed
  <2> HIDE DEF arrived
  <2>3. Apart(arrived, revealed)
    BY <2>2 DEF Apart
  <2> QED  BY <1>1, <1>2, <1>3, <2>1, <2>2, <2>3, SourcesConcat DEF MovingInv
<1>12. MovingInv'
  <2>1. \A o : AheadOutput(o)' => AheadOutput(o)
    BY <1>1, <1>2, AheadWithinTx
  <2>2. Apart(floating', flotsam')
    BY <1>1, <1>2, <1>10, <1>11 DEF MovingInv, Apart
  <2>3. \A g \in Sources(floating') \cup Sources(flotsam') :
           /\ g[2] \in DOMAIN Held' /\ <<g[1], g[3]>> \in Items(Held'[g[2]])
           /\ ~AheadOutput(g[2])'
    BY <1>1, <1>2, <1>4, <1>6, <1>9, <1>11, <2>1 DEF MovingInv
  <2> QED  BY <1>11, <2>2, <2>3 DEF MovingInv
<1> QED  BY <1>12

LEMMA ScanInputPlaces == PlacesInv /\ NumbersInv' /\ ScanInput => PlacesInv'
<1> SUFFICES ASSUME PlacesInv, NumbersInv', ScanInput PROVE PlacesInv'
  OBVIOUS
<1>1. /\ TypeInv /\ pc' = "inputs" /\ Working /\ Working'
      /\ ListsInv /\ MovingInv /\ ReportedInv
  BY DEF PlacesInv, NumbersInv, ScanInput, Working
<1>2. UNCHANGED <<id_inscription, id_inscription_wb, inscription_output, inscription_output_wb,
                  reported>>
  BY DEF ScanInput, storeVars, counterVars, blockVars
<1>3. Held' = Held /\ Located' = Located /\ NumberedIds' = NumberedIds
  BY <1>2, ScanHeld DEF Located, NumberedIds, Numbered
<1>4. ListsInv' /\ ReportedInv'
  BY <1>1, <1>2, <1>3, KeepLists
<1>5. MovingInv'
  BY <1>1, ScanMoving DEF ListsInv
<1>6. StoredInv'
  BY <1>1, NothingStored
<1> QED  BY <1>1, <1>4, <1>5, <1>6 DEF PlacesInv

LEMMA SortMoving ==
    ASSUME TypeInv, MovingInv, SortFloating
    PROVE  MovingInv'
<1> DEFINE all == IF IsCoinbase(Tx) THEN floating \o flotsam ELSE floating
<1>1. /\ pc = "inputs" /\ pc' = "outputs"
      /\ UNCHANGED <<chain, height, tx_index, output_inscription, output_inscription_cache>>
      /\ floating' \in StablySorted(all)
      /\ flotsam' = IF IsCoinbase(Tx) THEN <<>> ELSE flotsam
  BY DEF SortFloating, storeVars, batchVars, txVars
<1>2. floating \in Seq(Flotsam) /\ flotsam \in Seq(Flotsam)
  BY DEF TypeInv, TypeOK
<1>3. /\ all \in Seq(Flotsam) /\ OldDistinct(all) /\ OldDistinct(flotsam')
      /\ Sources(all) \cup Sources(flotsam') \subseteq Sources(floating) \cup Sources(flotsam)
      /\ Apart(all, flotsam')
  <2>1. CASE IsCoinbase(Tx)
    <3>1. /\ Sources(floating \o flotsam) = Sources(floating) \cup Sources(flotsam)
          /\ OldDistinct(floating \o flotsam)
      BY <1>1, <1>2, SourcesConcat DEF MovingInv
    <3>2. all = floating \o flotsam /\ flotsam' = <<>>
      BY <1>1, <2>1
    <3>3. Sources(flotsam') = {} /\ OldDistinct(flotsam') /\ Apart(all, flotsam')
      BY <3>2, NoSources
    <3>4. all \in Seq(Flotsam)
      BY <1>2, <3>2
    <3> HIDE DEF all
    <3> QED  BY <3>1, <3>2, <3>3, <3>4
  <2>2. CASE ~ IsCoinbase(Tx)
    BY <1>1, <1>2, <2>2 DEF MovingInv
  <2> QED  BY <2>1, <2>2
<1> HIDE DEF all
<1>4. Sources(floating') \subseteq Sources(all) /\ OldDistinct(floating')
  BY <1>1, <1>3, SourcesSorted
<1>5. Held' = Held
  BY <1>1 DEF Held
<1>7. \A o : AheadOutput(o)' => AheadOutput(o)
  BY <1>1, AheadWithinTx
<1>8. Apart(floating', flotsam')
  BY <1>3, <1>4 DEF Apart
<1> QED  BY <1>1, <1>3, <1>4, <1>5, <1>7, <1>8, KeepMoving

LEMMA SortPlaces == PlacesInv /\ NumbersInv' /\ SortFloating => PlacesInv'
<1> SUFFICES ASSUME PlacesInv, NumbersInv', SortFloating PROVE PlacesInv'
  OBVIOUS
<1>1. /\ TypeInv /\ pc' = "outputs" /\ Working /\ Working'
      /\ ListsInv /\ MovingInv /\ ReportedInv
      /\ UNCHANGED <<output_inscription, output_inscription_cache, id_inscription,
                     id_inscription_wb, inscription_output, inscription_output_wb, reported>>
  BY DEF SortFloating, storeVars, batchVars, Working, PlacesInv, NumbersInv
<1>2. Held' = Held /\ Located' = Located /\ NumberedIds' = NumberedIds
  BY <1>1 DEF Held, Located, NumberedIds, Numbered
<1>3. ListsInv' /\ ReportedInv'
  BY <1>1, <1>2, KeepLists
<1>4. MovingInv'
  BY <1>1, SortMoving
<1>5. StoredInv'
  BY <1>1, NothingStored
<1> QED  BY <1>1, <1>3, <1>4, <1>5 DEF PlacesInv

\* What falls into the fees keeps the place it comes from.
LEMMA SettleMoving ==
    ASSUME TypeInv, MovingInv, SettleFees \/ SettleCoinbase
    PROVE  MovingInv'
<1>1. /\ pc = "settle" /\ FinishTx /\ floating' = <<>>
      /\ UNCHANGED <<chain, height, output_inscription, output_inscription_cache>>
  BY DEF SettleFees, SettleCoinbase, storeVars, batchVars, FinishTx, EnterTx
<1>2. floating \in Seq(Flotsam) /\ flotsam \in Seq(Flotsam)
  BY DEF TypeInv, TypeOK
<1>3. Sources(flotsam') \subseteq Sources(floating) \cup Sources(flotsam) /\ OldDistinct(flotsam')
  <2>1. CASE SettleFees
    <3> DEFINE moved == [k \in DOMAIN floating |-> InFees(floating[k])]
    <3>1. DOMAIN floating = 1 .. Len(floating) /\ Len(floating) \in Nat
      BY <1>2
    <3>2. \A k \in DOMAIN floating :
             /\ moved[k] \in Flotsam /\ moved[k].kind = floating[k].kind
             /\ moved[k].id = floating[k].id
             /\ moved[k].kind = "old" => Source(moved[k]) = Source(floating[k])
      <4>1. SUFFICES ASSUME NEW k \in DOMAIN floating
                     PROVE  LET m == InFees(floating[k])
                            IN  /\ m \in Flotsam /\ m.kind = floating[k].kind
                                /\ m.id = floating[k].id
                                /\ m.kind = "old" => Source(m) = Source(floating[k])
        OBVIOUS
      <4>2. floating[k] \in Flotsam /\ reward \in Int /\ placed_value \in Int
        <5>1. reward \in Int /\ placed_value \in Int  BY DEF TypeInv, TypeOK
        <5> QED  BY <1>2, <5>1
      <4>3. reward + floating[k].offset - placed_value \in Int
        BY <4>2 DEF Flotsam, OldFlotsam, NewFlotsam
      <4> QED  BY <4>2, <4>3 DEF InFees, Flotsam, OldFlotsam, NewFlotsam, Source
    <3>3. moved \in Seq(Flotsam)
      BY <3>1, <3>2, SeqFromFunction
    <3>4. DOMAIN moved = DOMAIN floating
      OBVIOUS
    <3> HIDE DEF moved
    <3>5. OldAt(moved) = OldAt(floating)
      BY <3>2, <3>4 DEF OldAt
    <3>6. \A k \in OldAt(moved) :
             moved[k].id = floating[k].id /\ Source(moved[k]) = Source(floating[k])
      BY <3>2, <3>4 DEF OldAt
    <3>7. Sources(moved) = Sources(floating) /\ OldDistinct(moved)
      BY <1>1, <3>5, <3>6 DEF Sources, OldDistinct, MovingInv
    <3>8. flotsam' = flotsam \o moved
      BY <2>1 DEF SettleFees, moved
    <3>9. Apart(flotsam, moved)
      BY <1>1, <3>7 DEF Apart, MovingInv
    <3> QED  BY <1>1, <1>2, <3>3, <3>7, <3>8, <3>9, SourcesConcat DEF MovingInv
  <2>2. CASE SettleCoinbase
    BY <1>1, <2>2 DEF SettleCoinbase, MovingInv
  <2> QED  BY <2>1, <2>2
<1>4. Held' = Held
  BY <1>1 DEF Held
<1>6. \A o : AheadOutput(o)' => AheadOutput(o)
  BY <1>1, AheadNextTx
<1> QED  BY <1>1, <1>3, <1>4, <1>6, NoSources, KeepMoving

LEMMA SettlePlaces == PlacesInv /\ NumbersInv' /\ (SettleFees \/ SettleCoinbase) => PlacesInv'
<1> SUFFICES ASSUME PlacesInv, NumbersInv', SettleFees \/ SettleCoinbase PROVE PlacesInv'
  OBVIOUS
<1>1. /\ TypeInv /\ pc' \in {"inputs", "flush_id_inscription"} /\ Working /\ Working'
      /\ ListsInv /\ MovingInv /\ ReportedInv
      /\ UNCHANGED <<output_inscription, output_inscription_cache, id_inscription,
                     id_inscription_wb, inscription_output, inscription_output_wb, reported>>
  BY DEF SettleFees, SettleCoinbase, storeVars, counterVars, batchVars, FinishTx, EnterTx,
         Working, PlacesInv, NumbersInv
<1>2. Held' = Held /\ Located' = Located /\ NumberedIds' = NumberedIds
  BY <1>1 DEF Held, Located, NumberedIds, Numbered
<1>3. ListsInv' /\ ReportedInv'
  BY <1>1, <1>2, KeepLists
<1>4. MovingInv'
  BY <1>1, SettleMoving
<1>5. StoredInv'
  BY <1>1, NothingStored
<1> QED  BY <1>1, <1>3, <1>4, <1>5 DEF PlacesInv

-----------------------------------------------------------------------------
\* Lists without the empty ones say the same.
LEMMA AgreeStill ==
    ASSUME NEW lists, NEW records, Agree(lists, records), NEW lists2, NEW records2,
           \A o \in DOMAIN lists2 : o \in DOMAIN lists /\ lists2[o] = lists[o],
           \A o \in DOMAIN lists : lists[o] # <<>> => o \in DOMAIN lists2,
           DOMAIN records2 = DOMAIN records,
           \A id \in DOMAIN records : records2[id] = records[id]
    PROVE  Agree(lists2, records2)
<1>1. \A o \in DOMAIN lists : Items(lists[o]) # {} => o \in DOMAIN lists2
  BY DEF Items
<1> QED  BY <1>1 DEF Agree

LEMMA DropsNumbered ==
    ASSUME NumbersInv, pc \in {"flush_status", "idle"},
           id_inscription_wb' = EmptyDB, UNCHANGED id_inscription
    PROVE  Numbered' = Numbered /\ NumberedIds' = NumberedIds
<1>1. FlushInv
  BY DEF NumbersInv, Working
<1>2. /\ DOMAIN Numbered' = DOMAIN id_inscription
      /\ \A n \in DOMAIN id_inscription : Numbered'[n] = id_inscription[n]
  BY WriteEmpty DEF Numbered
<1>3. DOMAIN Numbered' = DOMAIN Numbered /\ \A n \in DOMAIN Numbered : Numbered'[n] = Numbered[n]
  BY <1>1, <1>2 DEF FlushInv
<1>4. Numbered' = Numbered
  BY <1>3 DEF Numbered, Write
<1> QED  BY <1>4 DEF NumberedIds

LEMMA DropHeld ==
    ASSUME StoredInv, pc \in {"flush_status", "idle"},
           output_inscription_cache' = EmptyDB, UNCHANGED output_inscription
    PROVE  /\ \A o \in DOMAIN Held' : o \in DOMAIN Held /\ Held'[o] = Held[o]
           /\ \A o \in DOMAIN Held : Held[o] # <<>> => o \in DOMAIN Held'
<1>1. /\ DOMAIN Held' = DOMAIN output_inscription
      /\ \A o \in DOMAIN output_inscription : Held'[o] = output_inscription[o]
  BY WriteEmpty DEF Held
<1>2. DOMAIN output_inscription \subseteq DOMAIN Held
  BY WriteAt DEF Held
<1> QED  BY <1>1, <1>2 DEF StoredInv

\* The batches and the cache are dropped when the stores have it all.
LEMMA DropStored ==
    ASSUME StoredInv, pc \in {"flush_status", "idle"},
           output_inscription_cache' = EmptyDB, inscription_output_wb' = EmptyDB,
           floating' = <<>>, flotsam' = <<>>,
           UNCHANGED <<output_inscription, inscription_output>>
    PROVE  MovingInv' /\ StoredInv' /\ Located' = Located
<1>1. /\ DOMAIN Held' = DOMAIN output_inscription
      /\ \A o \in DOMAIN output_inscription : Held'[o] = output_inscription[o]
  BY WriteEmpty DEF Held
<1>2. /\ DOMAIN Located' = DOMAIN inscription_output
      /\ \A id \in DOMAIN inscription_output : Located'[id] = inscription_output[id]
  BY WriteEmpty DEF Located
<1>3. DOMAIN inscription_output \subseteq DOMAIN Located
  BY WriteAt DEF Located
<1>4. DOMAIN Located' = DOMAIN Located /\ \A id \in DOMAIN Located : Located'[id] = Located[id]
  BY <1>2, <1>3 DEF StoredInv
<1>5. Located' = Located
  BY <1>4 DEF Located, Write
<1>6. MovingInv'
  BY NoSources DEF MovingInv
<1>7. StoredInv'
  <2>1. \A id \in DOMAIN Located' : id \in DOMAIN inscription_output' /\ inscription_output'[id] = Located'[id]
    BY <1>2
  <2>2. /\ \A o \in DOMAIN output_inscription' : output_inscription'[o] = Held'[o]
        /\ \A o \in DOMAIN Held' : o \in DOMAIN output_inscription'
    BY <1>1
  <2> QED  BY <2>1, <2>2 DEF StoredInv
<1> QED  BY <1>5, <1>6, <1>7

LEMMA DropPlaces ==
    ASSUME PlacesInv, pc \in {"flush_status", "idle"},
           output_inscription_cache' = EmptyDB, inscription_output_wb' = EmptyDB,
           floating' = <<>>, flotsam' = <<>>, NumberedIds' = NumberedIds,
           UNCHANGED <<output_inscription, inscription_output, reported>>
    PROVE  (ListsInv /\ MovingInv /\ StoredInv /\ ReportedInv)' /\ Located' = Located
<1>1. Working /\ ListsInv /\ StoredInv /\ ReportedInv
  BY DEF Working, PlacesInv
<1>2. MovingInv' /\ StoredInv' /\ Located' = Located
  BY <1>1, DropStored
<1>3. /\ \A o \in DOMAIN Held' : o \in DOMAIN Held /\ Held'[o] = Held[o]
      /\ \A o \in DOMAIN Held : Held[o] # <<>> => o \in DOMAIN Held'
  BY <1>1, DropHeld
<1>4. Agree(Held', Located')
  BY <1>1, <1>2, <1>3, AgreeStill DEF ListsInv
<1>5. ListsInv' /\ ReportedInv'
  BY <1>1, <1>2, <1>4 DEF ListsInv, ReportedInv
<1> QED  BY <1>2, <1>5

LEMMA BeginPlaces == PlacesInv /\ NumbersInv' /\ BeginBlock(height + 1) => PlacesInv'
<1> SUFFICES ASSUME PlacesInv, NumbersInv', BeginBlock(height + 1) PROVE PlacesInv'
  OBVIOUS
<1>1. /\ pc = "idle" /\ pc' = "inputs" /\ Working /\ Working'
      /\ output_inscription_cache' = EmptyDB /\ inscription_output_wb' = EmptyDB
      /\ id_inscription_wb' = EmptyDB /\ floating' = <<>> /\ flotsam' = <<>>
      /\ UNCHANGED <<id_inscription, output_inscription, inscription_output, reported>>
  BY DEF BeginBlock, EnterTx, storeVars, Working
<1>2. NumberedIds' = NumberedIds
  BY <1>1, DropsNumbered DEF PlacesInv
<1> QED  BY <1>1, <1>2, DropPlaces DEF PlacesInv

\* Writing the lists to their store changes none.
LEMMA FlushHeld == FlushOutputInscription => Held' = Held
<1> SUFFICES ASSUME FlushOutputInscription PROVE Held' = Held
  OBVIOUS
<1> DEFINE empty == {o \in DOMAIN output_inscription_cache : output_inscription_cache[o] = <<>>}
<1>1. /\ output_inscription' = Write(Without(output_inscription, empty),
                                     Without(output_inscription_cache, empty))
      /\ UNCHANGED output_inscription_cache
  BY DEF FlushOutputInscription, ListsAfter, batchVars
<1>2. empty \subseteq DOMAIN output_inscription_cache
  OBVIOUS
<1> HIDE DEF empty
<1> QED  BY <1>1, <1>2 DEF Held, Write, Without

\* What the writes to the stores change of what is on record: nothing.
LEMMA FlushSays ==
    ASSUME FlushIdInscription \/ FlushInscriptionOutput \/ FlushOutputInscription
    PROVE  Located' = Located /\ Held' = Held
<1>1. /\ UNCHANGED <<inscription_output_wb, output_inscription_cache>>
      /\ inscription_output' \in {inscription_output, Write(inscription_output, inscription_output_wb)}
  BY DEF FlushIdInscription, FlushInscriptionOutput, FlushOutputInscription, batchVars
<1>2. Located' = Located
  BY <1>1, WriteTwice DEF Located
<1>3. CASE FlushIdInscription \/ FlushInscriptionOutput
  BY <1>1, <1>2, <1>3 DEF FlushIdInscription, FlushInscriptionOutput, Held
<1> QED  BY <1>2, <1>3, FlushHeld

LEMMA FlushStored ==
    ASSUME StoredInv, FlushIdInscription \/ FlushInscriptionOutput \/ FlushOutputInscription
    PROVE  StoredInv'
<1>1. Located' = Located /\ Held' = Held
  BY FlushSays
<1>2. CASE FlushIdInscription
  BY <1>2, NothingStored DEF FlushIdInscription
<1>3. CASE FlushInscriptionOutput
  <2>1. inscription_output' = Located /\ pc' = "flush_output_inscription"
    BY <1>3 DEF FlushInscriptionOutput, Located
  <2> QED  BY <1>1, <2>1 DEF StoredInv
<1>4. CASE FlushOutputInscription
  <2>1. /\ pc = "flush_output_inscription" /\ pc' = "flush_status"
        /\ inscription_output' = inscription_output /\ output_inscription' = ListsAfter
    BY <1>4 DEF FlushOutputInscription
  <2>2. \A id \in DOMAIN Located' :
           id \in DOMAIN inscription_output' /\ inscription_output'[id] = Located'[id]
    BY <1>1, <2>1 DEF StoredInv
  <2> DEFINE empty == {o \in DOMAIN output_inscription_cache : output_inscription_cache[o] = <<>>}
  <2>3. output_inscription' = Write(Without(output_inscription, empty),
                                    Without(output_inscription_cache, empty))
    BY <2>1 DEF ListsAfter
  <2>4. /\ empty \subseteq DOMAIN output_inscription_cache
        /\ \A o \in DOMAIN output_inscription_cache :
              output_inscription_cache[o] # <<>> => o \notin empty
        /\ \A o \in empty : output_inscription_cache[o] = <<>>
    OBVIOUS
  <2> HIDE DEF empty
  <2>5. \A o \in DOMAIN output_inscription' : output_inscription'[o] = Held[o]
    BY <2>3, <2>4 DEF Held, Write, Without
  <2>6. \A o \in DOMAIN Held : Held[o] # <<>> => o \in DOMAIN output_inscription'
    BY <2>3, <2>4 DEF Held, Write, Without
  <2> QED  BY <1>1, <2>1, <2>2, <2>5, <2>6 DEF StoredInv
<1> QED  BY <1>2, <1>3, <1>4

\* The four writes.
LEMMA FlushPlaces ==
    /\ PlacesInv /\ NumbersInv'
    /\ FlushIdInscription \/ FlushInscriptionOutput \/ FlushOutputInscription \/ FlushStatus
    => PlacesInv'
<1> SUFFICES ASSUME PlacesInv, NumbersInv',
                    \/ FlushIdInscription \/ FlushInscriptionOutput
                    \/ FlushOutputInscription \/ FlushStatus
             PROVE  PlacesInv'
  OBVIOUS
<1>1. CASE FlushStatus
  <2>1. /\ pc = "flush_status" /\ pc' = "idle" /\ Working /\ Working'
        /\ output_inscription_cache' = EmptyDB /\ inscription_output_wb' = EmptyDB
        /\ id_inscription_wb' = EmptyDB /\ floating' = <<>> /\ flotsam' = <<>>
        /\ UNCHANGED <<id_inscription, output_inscription, inscription_output, reported>>
    BY <1>1 DEF FlushStatus, DropUpdater, Working
  <2>2. NumberedIds' = NumberedIds
    BY <2>1, DropsNumbered DEF PlacesInv
  <2> QED  BY <2>1, <2>2, DropPlaces DEF PlacesInv
<1>2. CASE FlushIdInscription \/ FlushInscriptionOutput \/ FlushOutputInscription
  <2>1. /\ Working /\ Working' /\ TypeInv /\ ListsInv /\ MovingInv /\ ReportedInv
        /\ pc # "idle" /\ pc' # "inputs"
        /\ UNCHANGED <<chain, height, tx_index, floating, flotsam, reported,
                       id_inscription_wb, inscription_output_wb, output_inscription_cache>>
    BY <1>2
    DEF FlushIdInscription, FlushInscriptionOutput, FlushOutputInscription, PlacesInv, NumbersInv,
        Working, batchVars, blockVars, txVars
  <2>2. Located' = Located /\ Held' = Held
    BY <1>2, FlushSays
  <2>3. Numbered' = Numbered
    <3>1. id_inscription' \in {id_inscription, Write(id_inscription, id_inscription_wb)}
      BY <1>2 DEF FlushIdInscription, FlushInscriptionOutput, FlushOutputInscription
    <3> QED  BY <2>1, <3>1, WriteTwice DEF Numbered
  <2>4. ListsInv' /\ ReportedInv'
    <3>1. NumberedIds' = NumberedIds  BY <2>3 DEF NumberedIds
    <3> QED  BY <2>1, <2>2, <3>1, KeepLists
  <2>5. MovingInv'
    <3>1. \A o : AheadOutput(o)' => AheadOutput(o)
      BY <2>1, AheadWithinTx
    <3> QED  BY <2>1, <2>2, <3>1, KeepMoving DEF MovingInv
  <2>6. StoredInv'
    BY <1>2, <2>1, FlushStored DEF PlacesInv
  <2> QED  BY <2>1, <2>4, <2>5, <2>6 DEF PlacesInv
<1> QED  BY <1>1, <1>2

-----------------------------------------------------------------------------
LEMMA PlacesInit == Init => PlacesInv
<1> SUFFICES ASSUME Init PROVE PlacesInv
  OBVIOUS
<1>1. /\ pc = "idle" /\ floating = <<>> /\ flotsam = <<>>
      /\ id_inscription = EmptyDB /\ id_inscription_wb = EmptyDB
      /\ inscription_output = EmptyDB /\ inscription_output_wb = EmptyDB
      /\ output_inscription = EmptyDB /\ output_inscription_cache = EmptyDB
  BY DEF Init
<1>2. DOMAIN Located = {} /\ DOMAIN Held = {} /\ NumberedIds = {}
  BY <1>1 DEF Located, Held, NumberedIds, Numbered, Write, EmptyDB
<1>3. ListsInv  BY <1>2 DEF ListsInv, Agree
<1>4. MovingInv  BY <1>1, NoSources DEF MovingInv
<1>5. StoredInv  BY <1>1, <1>2 DEF StoredInv, EmptyDB
<1>6. ReportedInv  BY <1>2 DEF ReportedInv
<1> QED  BY <1>1, <1>3, <1>4, <1>5, <1>6, NumbersInit DEF PlacesInv

LEMMA PlacesNext == PlacesInv /\ [Next]_vars => PlacesInv'
<1> SUFFICES ASSUME PlacesInv, [Next]_vars PROVE PlacesInv'
  OBVIOUS
<1>1. NumbersInv /\ NumbersInv'
  BY NumbersNext DEF PlacesInv
<1>2. CASE BeginBlock(height + 1)  BY <1>1, <1>2, BeginPlaces
<1>3. CASE ScanInput  BY <1>1, <1>3, ScanInputPlaces
<1>4. CASE SortFloating  BY <1>1, <1>4, SortPlaces
<1>5. CASE SettleFees \/ SettleCoinbase  BY <1>1, <1>5, SettlePlaces
<1>6. CASE \/ FlushIdInscription \/ FlushInscriptionOutput
           \/ FlushOutputInscription \/ FlushStatus
  BY <1>1, <1>6, FlushPlaces
<1>7. CASE PlaceOnOutput \/ LoseFloating
  <2>1. PICK output \in OutPoint, offset \in Int :
           /\ pc \in {"outputs", "settle"} /\ floating # <<>>
           /\ UpdateInscriptionState(output, offset)
    BY <1>1, <1>7, PlacedSomewhere DEF NumbersInv
  <2>2. \/ MoveInscription(Head(floating), output, offset)
        \/ AddInscription(Head(floating), output, offset)
    BY <2>1 DEF UpdateInscriptionState
  <2> QED  BY <1>1, <2>1, <2>2, MovePlaces, AddPlaces
<1>8. CASE ScanNullInput \/ NextOutput \/ WriteOutputValue
  <2>1. /\ UNCHANGED <<chain, height, tx_index, floating, flotsam, reported, id_inscription,
                       id_inscription_wb, inscription_output, inscription_output_wb,
                       output_inscription, output_inscription_cache>>
        /\ pc \in {"inputs", "outputs"} /\ pc' \in {"inputs", "outputs", "settle"}
        /\ pc' = "inputs" => pc = "inputs" /\ input_index' \in {input_index, input_index + 1}
    BY <1>8
    DEF ScanNullInput, NextOutput, WriteOutputValue, storeVars, counterVars, batchVars,
        blockVars, txVars
  <2>2. /\ Working /\ Working' /\ TypeInv /\ ListsInv /\ MovingInv /\ ReportedInv
    BY <1>1, <2>1 DEF Working, PlacesInv, NumbersInv
  <2>3. Held' = Held /\ Located' = Located /\ NumberedIds' = NumberedIds
    BY <2>1 DEF Held, Located, NumberedIds, Numbered
  <2>4. ListsInv' /\ ReportedInv'
    BY <2>1, <2>2, <2>3, KeepLists
  <2>5. MovingInv'
    <3>1. \A o : AheadOutput(o)' => AheadOutput(o)
      BY <2>1, <2>2, AheadWithinTx
    <3> QED  BY <2>1, <2>2, <2>3, <3>1, KeepMoving DEF MovingInv
  <2>6. StoredInv'
    BY <2>1, NothingStored
  <2> QED  BY <1>1, <2>2, <2>4, <2>5, <2>6 DEF PlacesInv
<1>9. CASE Fail
  BY <1>1, <1>9 DEF Fail, DropUpdater, Working, PlacesInv
<1>10. CASE UNCHANGED vars
  <2>1. /\ UNCHANGED <<chain, height, tx_index, input_index, pc, floating, flotsam, reported,
                       output_inscription, inscription_output>>
        /\ Held' = Held /\ Located' = Located /\ NumberedIds' = NumberedIds
    BY <1>10
    DEF vars, storeVars, batchVars, blockVars, txVars, Held, Located, NumberedIds, Numbered
  <2>2. \A o : AheadOutput(o)' = AheadOutput(o)
    BY <2>1 DEF AheadOutput, Ahead, InLaterBlock, LaterInBlock, Tx
  <2>3. ASSUME Working PROVE (ListsInv /\ MovingInv /\ StoredInv /\ ReportedInv)'
    <3>1. ListsInv /\ MovingInv /\ StoredInv /\ ReportedInv
      BY <2>3 DEF PlacesInv
    <3>2. ListsInv' /\ ReportedInv'
      BY <2>1, <3>1, KeepLists
    <3>3. MovingInv'
      BY <2>1, <2>2, <3>1, KeepMoving DEF MovingInv
    <3>4. StoredInv'
      BY <2>1, <3>1 DEF StoredInv
    <3> QED  BY <3>2, <3>3, <3>4
  <2> QED  BY <1>1, <2>1, <2>3 DEF PlacesInv, Working
<1> QED
  BY <1>2, <1>3, <1>4, <1>5, <1>6, <1>7, <1>8, <1>9, <1>10 DEF Next, IndexStep

LEMMA PlacesAlways == Spec => []PlacesInv
<1>1. Init => PlacesInv  BY PlacesInit
<1>2. PlacesInv /\ [Next]_vars => PlacesInv'  BY PlacesNext
<1> QED  BY <1>1, <1>2, PTL DEF Spec

-----------------------------------------------------------------------------
\* Every numbered inscription is in one place, the one its record names, for
\* every set of chains: while it floats, while the stores are written, always.
THEOREM EachInOnePlace == Spec => []OnePlaceEach
<1>1. PlacesInv => OnePlaceEach
  <2>1. SUFFICES ASSUME PlacesInv, Working PROVE OnePlaceEach
    BY DEF OnePlaceEach
  <2>2. DOMAIN Located = NumberedIds /\ Agree(Held, Located)
    BY <2>1 DEF PlacesInv, ListsInv
  <2>3. \A o \in DOMAIN Held : \A k \in DOMAIN Held[o] :
           Held[o][k][1] \in DOMAIN Located /\ Located[Held[o][k][1]] = o
    BY <2>2 DEF Agree, Items
  <2>4. ASSUME NEW id \in DOMAIN Located
        PROVE  /\ Located[id] \in DOMAIN Held
               /\ Cardinality({k \in DOMAIN Held[Located[id]] : Held[Located[id]][k][1] = id}) = 1
    <3>1. Located[id] \in DOMAIN Held /\ \E e \in Items(Held[Located[id]]) : e[1] = id
      BY <2>2 DEF Agree
    <3>2. PICK k \in DOMAIN Held[Located[id]] : Held[Located[id]][k][1] = id
      BY <3>1 DEF Items
    <3>3. ListDistinct(Held[Located[id]])
      BY <2>2, <3>1 DEF Agree
    <3>4. {j \in DOMAIN Held[Located[id]] : Held[Located[id]][j][1] = id} = {k}
      BY <3>2, <3>3 DEF ListDistinct
    <3> QED  BY <3>1, <3>4, FS_Singleton
  <2> QED  BY <2>2, <2>3, <2>4 DEF OnePlaceEach, NumberedIds
<1> QED  BY <1>1, PlacesAlways, PTL

\* The events of every inscription chain up, for every set of chains: what moves
\* was last reported where it comes from, though other inscriptions, blocks and
\* writes came between.
THEOREM EventsChainUp == Spec => []TransfersChain
<1>1. PlacesInv => TransfersChain
  <2> SUFFICES ASSUME PlacesInv PROVE TransfersChain
    OBVIOUS
  <2>1. CASE ~Working
    BY <2>1 DEF PlacesInv, TransfersChain
  <2>2. CASE Working
    <3>1. MovingInv /\ ListsInv /\ ReportedInv /\ TypeInv
      BY <2>2 DEF PlacesInv, NumbersInv
    <3>2. SUFFICES ASSUME NEW s \in {floating, flotsam}, NEW k \in DOMAIN s, s[k].kind = "old"
                   PROVE  s[k].id \in DOMAIN reported /\ reported[s[k].id] = s[k].old_output
      BY DEF TransfersChain
    <3>3. s[k].old_output \in OutPoint
      <4>1. s \in Seq(Flotsam)  BY <3>1 DEF TypeInv, TypeOK
      <4> QED  BY <3>2, <4>1 DEF Flotsam, OldFlotsam, NewFlotsam
    <3>4. Source(s[k]) \in Sources(floating) \cup Sources(flotsam)
      BY <3>2 DEF Sources, OldAt
    <3>5. /\ s[k].old_output \in DOMAIN Held
          /\ <<s[k].id, s[k].old_offset>> \in Items(Held[s[k].old_output])
      BY <3>1, <3>4 DEF MovingInv, Source
    <3>6. s[k].id \in DOMAIN Located /\ Located[s[k].id] = s[k].old_output
      BY <3>1, <3>5 DEF ListsInv, Agree
    <3> QED  BY <3>1, <3>3, <3>6 DEF ReportedInv
  <2> QED  BY <2>1, <2>2
<1> QED  BY <1>1, PlacesAlways, PTL

-----------------------------------------------------------------------------
\* Steps of the register.  A new inscription gets the next number of its end.
LEMMA AddRegisters ==
    ASSUME PlacesInv, pc \in {"outputs", "settle"}, floating # <<>>, NEW output, NEW offset,
           UpdateInscriptionState(output, offset), AddInscription(Head(floating), output, offset)
    PROVE  Reg!Register
<1> DEFINE f == Head(floating)
           number == IF f.cursed THEN next_cursed_number ELSE next_number
           location == IF f.unbound THEN Unbound(unbound_inscriptions) ELSE output
<1>1. /\ TypeInv /\ Working /\ Working' /\ ListsInv /\ DenseInv /\ UniqueInv
      /\ floating \in Seq(Flotsam) /\ f \in Flotsam /\ f.kind = "new"
  BY HeadTail
  DEF PlacesInv, NumbersInv, TypeInv, TypeOK, Working, AddInscription, UpdateInscriptionState
<1>2. /\ UNCHANGED <<status, id_inscription, inscription_output>>
      /\ id_inscription_wb' = Put(id_inscription_wb, number, f.id)
      /\ inscription_output_wb' = Put(inscription_output_wb, f.id, location)
  BY DEF UpdateInscriptionState, AddInscription
<1>3. f.id \notin NumberedIds /\ f.id \notin DOMAIN Located
  <2>1. f.id \in NewIds(floating)
    BY <1>1, NewIdsTail DEF UniqueInv
  <2> QED  BY <1>1, <2>1 DEF UniqueInv, ListsInv
<1>4. /\ number \in Int /\ number \notin DOMAIN Numbered
      /\ number = 0 \/ number = -1 \/ number - 1 \in DOMAIN Numbered \ {-1}
           \/ number + 1 \in DOMAIN Numbered \ {0}
  <2>1. /\ next_number \in Nat /\ next_cursed_number \in Int /\ next_cursed_number < 0
        /\ DOMAIN Numbered = (next_cursed_number + 1 .. -1) \cup (0 .. next_number - 1)
    BY <1>1 DEF TypeInv, TypeOK, DenseInv, NextBlessed, NextCursed
  <2> HIDE DEF f
  <2> QED  BY <2>1
<1>5. Numbered' = Put(Numbered, number, f.id) /\ Located' = Put(Located, f.id, location)
  BY <1>2, WritePut DEF Numbered, Located
<1>6. Settled' = Settled
  BY <1>2 DEF Settled
<1> HIDE DEF f, number, location
<1>7. /\ number \in DOMAIN Numbered' \ DOMAIN Numbered /\ Numbered'[number] = f.id
      /\ Numbered' = [m \in DOMAIN Numbered \cup {number} |->
                         IF m = number THEN Numbered'[number] ELSE Numbered[m]]
  BY <1>4, <1>5 DEF Put
<1>8. Located' = [i \in DOMAIN Located \cup {f.id} |-> IF i = f.id THEN Located'[i] ELSE Located[i]]
  BY <1>5 DEF Put
<1> QED
  BY <1>1, <1>3, <1>4, <1>6, <1>7, <1>8
  DEF Reg!Register, Reg!NextNumber, Reg!Inscriptions, NumberedIds

\* An inscription moves, and no other.
LEMMA MoveMoves ==
    ASSUME PlacesInv, pc \in {"outputs", "settle"}, floating # <<>>, NEW output, NEW offset,
           UpdateInscriptionState(output, offset), MoveInscription(Head(floating), output, offset)
    PROVE  Reg!Move
<1> DEFINE f == Head(floating)
<1>1. /\ Working /\ Working' /\ ListsInv /\ MovingInv
      /\ floating \in Seq(Flotsam) /\ f.kind = "old"
  BY DEF PlacesInv, NumbersInv, TypeInv, TypeOK, Working, MoveInscription, UpdateInscriptionState
<1>2. Source(f) \in Sources(floating)
  BY <1>1, SourcesTail DEF MovingInv
<1>3. f.id \in DOMAIN Located
  <2>1. /\ f.old_output \in DOMAIN Held
        /\ <<f.id, f.old_offset>> \in Items(Held[f.old_output])
    BY <1>1, <1>2 DEF MovingInv, Source
  <2> HIDE DEF f
  <2> QED  BY <1>1, <2>1 DEF ListsInv, Agree
<1>4. Located' = Put(Located, f.id, output) /\ Numbered' = Numbered /\ Settled' = Settled
  BY WritePut DEF UpdateInscriptionState, MoveInscription, Located, Numbered, Settled
<1> HIDE DEF f
<1>5. f.id \in NumberedIds
  BY <1>1, <1>3 DEF ListsInv
<1>6. Located' = [j \in DOMAIN Located |-> IF j = f.id THEN Located'[f.id] ELSE Located[j]]
  BY <1>3, <1>4 DEF Put
<1> QED  BY <1>1, <1>3, <1>4, <1>5, <1>6 DEF Reg!Move, Reg!Inscriptions, NumberedIds

\* The last write settles the block.
LEMMA FlushSettles == PlacesInv /\ FlushStatus => Reg!Settle
<1> SUFFICES ASSUME PlacesInv, FlushStatus PROVE Reg!Settle
  OBVIOUS
<1>1. /\ pc = "flush_status" /\ Working /\ Working'
      /\ status'.next_id_number = next_number
      /\ status'.next_cursed_id_number = next_cursed_number
      /\ output_inscription_cache' = EmptyDB /\ inscription_output_wb' = EmptyDB
      /\ id_inscription_wb' = EmptyDB /\ floating' = <<>> /\ flotsam' = <<>>
      /\ UNCHANGED <<id_inscription, output_inscription, inscription_output, reported>>
  BY DEF FlushStatus, Counters, DropUpdater, Working
<1>2. Numbered' = Numbered /\ Located' = Located
  BY <1>1, DropsNumbered, DropPlaces DEF PlacesInv
<1>3. Settled' = DOMAIN Numbered
  <2>1. DenseInv  BY <1>1 DEF PlacesInv, NumbersInv
  <2> QED  BY <1>1, <2>1 DEF DenseInv, Settled, NextBlessed, NextCursed
<1> QED  BY <1>1, <1>2, <1>3 DEF Reg!Settle

\* An error loses what is not settled, at most.
LEMMA FailAborts == PlacesInv /\ Fail => Reg!Abort
<1> SUFFICES ASSUME PlacesInv, Fail PROVE Reg!Abort
  OBVIOUS
<1>1. /\ Working /\ ~Working' /\ id_inscription_wb' = EmptyDB /\ inscription_output_wb' = EmptyDB
      /\ UNCHANGED <<status, id_inscription, inscription_output>>
  BY DEF Fail, RpcFails, WriteFails, DropUpdater, Working, storeVars
<1>2. FlushInv /\ CountersTrailStores
  BY <1>1 DEF PlacesInv, NumbersInv
<1>3. /\ DOMAIN Numbered' = DOMAIN id_inscription
      /\ \A n \in DOMAIN id_inscription : Numbered'[n] = id_inscription[n]
      /\ DOMAIN Located' = DOMAIN inscription_output
  BY <1>1, WriteEmpty DEF Numbered, Located
<1>4. \A n \in DOMAIN Numbered' : n \in DOMAIN Numbered /\ Numbered'[n] = Numbered[n]
  BY <1>2, <1>3 DEF FlushInv
<1>5. \A n \in Settled : n \in DOMAIN Numbered' /\ Numbered[n] \in DOMAIN Located'
  BY <1>2, <1>3, <1>4 DEF CountersTrailStores, Settled
<1>6. Settled' = Settled
  BY <1>1 DEF Settled
<1> QED  BY <1>1, <1>4, <1>5, <1>6 DEF Reg!Abort

\* Every other step is hidden from outside.
LEMMA OthersHidden ==
    ASSUME PlacesInv,
           \/ BeginBlock(height + 1) \/ ScanNullInput \/ ScanInput \/ SortFloating \/ NextOutput
           \/ WriteOutputValue \/ SettleFees \/ SettleCoinbase \/ FlushIdInscription
           \/ FlushInscriptionOutput \/ FlushOutputInscription \/ UNCHANGED vars
    PROVE  UNCHANGED <<Numbered, Located, Settled, Working>>
<1>1. CASE BeginBlock(height + 1)
  <2>1. /\ pc = "idle" /\ Working /\ Working'
        /\ output_inscription_cache' = EmptyDB /\ inscription_output_wb' = EmptyDB
        /\ id_inscription_wb' = EmptyDB /\ floating' = <<>> /\ flotsam' = <<>>
        /\ UNCHANGED <<status, id_inscription, output_inscription, inscription_output, reported>>
    BY <1>1 DEF BeginBlock, EnterTx, storeVars, Working
  <2>2. Numbered' = Numbered /\ Located' = Located
    BY <2>1, DropsNumbered, DropPlaces DEF PlacesInv
  <2> QED  BY <2>1, <2>2 DEF Settled
<1>2. CASE FlushIdInscription \/ FlushInscriptionOutput \/ FlushOutputInscription
  <2>1. /\ Working /\ Working'
        /\ UNCHANGED <<status, id_inscription_wb, inscription_output_wb>>
        /\ id_inscription' \in {id_inscription, Write(id_inscription, id_inscription_wb)}
        /\ inscription_output' \in {inscription_output, Write(inscription_output, inscription_output_wb)}
    BY <1>2
    DEF FlushIdInscription, FlushInscriptionOutput, FlushOutputInscription, Working, batchVars
  <2>2. Numbered' = Numbered /\ Located' = Located
    BY <2>1, WriteTwice DEF Numbered, Located
  <2> QED  BY <2>1, <2>2 DEF Settled
<1>3. CASE \/ ScanNullInput \/ ScanInput \/ SortFloating \/ NextOutput
           \/ WriteOutputValue \/ SettleFees \/ SettleCoinbase \/ UNCHANGED vars
  <2>1. /\ UNCHANGED <<status, id_inscription, inscription_output, id_inscription_wb,
                       inscription_output_wb>>
        /\ pc' = pc \/ (Working /\ Working')
    BY <1>3
    DEF ScanNullInput, ScanInput, SortFloating, NextOutput, WriteOutputValue, SettleFees,
        SettleCoinbase, FinishTx, vars, storeVars, batchVars, Working
  <2> QED  BY <2>1 DEF Numbered, Located, Settled, Working
<1> QED  BY <1>1, <1>2, <1>3

\* The updater implements the register, for every set of chains: each of its
\* steps registers one inscription, moves one, settles a block, is an error that
\* loses nothing settled, or cannot be seen.
THEOREM UpdaterImplementsRegistry == Spec => ImplementsRegistry
<1>1. Init => Reg!RegistryInit
  <2> SUFFICES ASSUME Init PROVE Reg!RegistryInit
    OBVIOUS
  <2>1. /\ pc = "idle"
        /\ id_inscription = EmptyDB /\ id_inscription_wb = EmptyDB
        /\ inscription_output = EmptyDB /\ inscription_output_wb = EmptyDB
        /\ status.next_id_number = 0 /\ status.next_cursed_id_number = 0
    BY DEF Init
  <2>2. DOMAIN Numbered = {} /\ DOMAIN Located = {}
    BY <2>1 DEF Numbered, Located, Write, EmptyDB
  <2> QED  BY <2>1, <2>2 DEF Reg!RegistryInit, Settled, Working
<1>2. PlacesInv /\ [Next]_vars => [Reg!RegistryNext]_(Reg!registryVars)
  <2> SUFFICES ASSUME PlacesInv, [Next]_vars
               PROVE  Reg!RegistryNext \/ UNCHANGED <<Numbered, Located, Settled, Working>>
    BY DEF Reg!registryVars
  <2>1. CASE PlaceOnOutput \/ LoseFloating
    <3>1. PICK output \in OutPoint, offset \in Int :
             /\ pc \in {"outputs", "settle"} /\ floating # <<>>
             /\ UpdateInscriptionState(output, offset)
      BY <2>1, PlacedSomewhere DEF PlacesInv, NumbersInv
    <3>2. \/ MoveInscription(Head(floating), output, offset)
          \/ AddInscription(Head(floating), output, offset)
      BY <3>1 DEF UpdateInscriptionState
    <3> QED  BY <3>1, <3>2, MoveMoves, AddRegisters DEF Reg!RegistryNext
  <2>2. CASE FlushStatus
    BY <2>2, FlushSettles DEF Reg!RegistryNext
  <2>3. CASE Fail
    BY <2>3, FailAborts DEF Reg!RegistryNext
  <2> QED  BY <2>1, <2>2, <2>3, OthersHidden DEF Next, IndexStep
<1> QED  BY <1>1, <1>2, PlacesAlways, PTL DEF Spec, ImplementsRegistry, Reg!RegistrySpec

-----------------------------------------------------------------------------
\* A set of natural numbers that is not empty has a least one.
LEMMA LeastNat ==
    ASSUME NEW T \in SUBSET Nat, T # {}
    PROVE  \E n \in T : \A m \in T : n <= m
<1> DEFINE R == {ss \in Nat \X Nat : ss[1] < ss[2]}
<1>1. IsWellFoundedOn(R, Nat)
  BY NatLessThanWellFounded DEF OpToRel
<1>2. \A m, n \in Nat : m < n => <<m, n>> \in R
  OBVIOUS
<1> HIDE DEF R
<1>3. PICK n \in T : \A m \in T : ~(<<m, n>> \in R)
  BY <1>1, WFMin
<1>4. \A m \in T : m \in Nat /\ n \in Nat /\ ~(m < n)
  BY <1>2, <1>3
<1> QED  BY <1>3, <1>4

\* The recursive function of the sums exists, so it unfolds.
Unfolds(sum, f, n) == sum = [k \in 0 .. n |-> IF k = 0 THEN 0 ELSE sum[k - 1] + f[k]]

LEMMA SumsExist ==
    ASSUME NEW f, NEW n \in Nat
    PROVE  \E sum : Unfolds(sum, f, n)
<1> DEFINE T == {k \in Nat : ~ \E sum : Unfolds(sum, f, k)}
<1>1. SUFFICES ASSUME T # {} PROVE FALSE
  OBVIOUS
<1>2. PICK k \in T : \A j \in T : k <= j
  BY <1>1, LeastNat
<1>3. CASE k = 0
  <2>1. Unfolds([j \in {0} |-> 0], f, 0)
    BY DEF Unfolds
  <2> QED  BY <1>2, <1>3, <2>1
<1>4. CASE k # 0
  <2>1. k - 1 \in Nat /\ k - 1 \notin T
    BY <1>2, <1>4
  <2>2. PICK sum : Unfolds(sum, f, k - 1)
    BY <2>1
  <2> DEFINE more == [j \in 0 .. k |-> IF j = k THEN sum[k - 1] + f[k] ELSE sum[j]]
  <2>3. \A j \in 0 .. k : more[j] = IF j = 0 THEN 0 ELSE more[j - 1] + f[j]
    <3>1. TAKE j \in 0 .. k
    <3>2. CASE j = 0
      BY <1>2, <1>4, <2>2, <3>2 DEF Unfolds
    <3>3. CASE j \in 1 .. k - 1
      <4>1. sum[j] = sum[j - 1] + f[j]
        BY <1>2, <2>2, <3>3 DEF Unfolds
      <4> QED  BY <1>2, <3>3, <4>1
    <3>4. CASE j = k
      BY <1>2, <1>4, <3>4
    <3> QED  BY <1>2, <3>2, <3>3, <3>4
  <2>4. more = [j \in 0 .. k |-> more[j]]
    OBVIOUS
  <2> HIDE DEF more
  <2>5. [j \in 0 .. k |-> more[j]] = [j \in 0 .. k |-> IF j = 0 THEN 0 ELSE more[j - 1] + f[j]]
    BY <2>3
  <2>6. Unfolds(more, f, k)
    BY <2>4, <2>5 DEF Unfolds
  <2> QED  BY <1>2, <2>6
<1> QED  BY <1>3, <1>4

LEMMA SumsUnfold ==
    ASSUME NEW f, NEW n \in Nat
    PROVE  /\ Sums(f, n)[0] = 0
           /\ \A k \in 1 .. n : Sums(f, n)[k] = Sums(f, n)[k - 1] + f[k]
<1>1. Sums(f, n) = CHOOSE sum : Unfolds(sum, f, n)
  BY DEF Sums, Unfolds
<1>2. Unfolds(Sums(f, n), f, n)
  BY <1>1, SumsExist
<1> QED  BY <1>2 DEF Unfolds

LEMMA SumsAreIntegers ==
    ASSUME NEW f, NEW n \in Nat, \A k \in 1 .. n : f[k] \in Int
    PROVE  \A k \in 0 .. n : Sums(f, n)[k] \in Int
<1> DEFINE T == {k \in 0 .. n : Sums(f, n)[k] \notin Int}
<1>1. SUFFICES ASSUME T # {} PROVE FALSE
  OBVIOUS
<1>2. PICK k \in T : \A j \in T : k <= j
  <2>1. T \in SUBSET Nat
    OBVIOUS
  <2> HIDE DEF T
  <2> QED  BY <1>1, <2>1, LeastNat
<1>3. k # 0
  BY SumsUnfold
<1>4. k \in 1 .. n /\ k - 1 \in 0 .. n /\ k - 1 \notin T
  BY <1>2, <1>3
<1>5. Sums(f, n)[k - 1] \in Int
  BY <1>4
<1> QED  BY <1>4, <1>5, SumsUnfold

-----------------------------------------------------------------------------
\* The sums of a transaction's values, one by one.
LEMMA SumsOutSteps ==
    ASSUME NEW tx \in Transaction
    PROVE  /\ Len(tx.outputs) \in Nat /\ SumsOut(tx)[0] = 0
           /\ \A v \in 1 .. Len(tx.outputs) : SumsOut(tx)[v] = SumsOut(tx)[v - 1] + tx.outputs[v]
           /\ ValueOut(tx) \in Int
<1>1. tx.outputs \in Seq(Nat)
  BY DEF Transaction
<1>2. /\ Len(tx.outputs) \in Nat
      /\ \A v \in 1 .. Len(tx.outputs) : tx.outputs[v] \in Int
  BY <1>1
<1>3. PICK f, n : f = tx.outputs /\ n = Len(tx.outputs)
  OBVIOUS
<1>4. n \in Nat /\ \A v \in 1 .. n : f[v] \in Int
  BY <1>2, <1>3
<1>5. Sums(f, n)[0] = 0 /\ \A v \in 1 .. n : Sums(f, n)[v] = Sums(f, n)[v - 1] + f[v]
  BY <1>4, SumsUnfold
<1>6. Sums(f, n)[n] \in Int
  <2>1. n \in 0 .. n
    BY <1>4
  <2> QED  BY <1>4, <2>1, SumsAreIntegers
<1>7. SumsOut(tx) = Sums(f, n) /\ ValueOut(tx) = Sums(f, n)[n]
  BY <1>3 DEF SumsOut, ValueOut
<1> QED  BY <1>3, <1>4, <1>5, <1>6, <1>7

LEMMA SumsInSteps ==
    ASSUME NEW c \in Chains, NEW tx \in Transaction \cap Transactions(c),
           \A i \in DOMAIN tx.inputs : ~IsNull(tx.inputs[i].prev)
    PROVE  /\ Len(tx.inputs) \in Nat /\ SumsIn(c, tx)[0] = 0
           /\ \A i \in 1 .. Len(tx.inputs) :
                 SumsIn(c, tx)[i] = SumsIn(c, tx)[i - 1] + c.value[tx.inputs[i].prev]
           /\ ValueIn(c, tx) \in Int
<1> DEFINE f == [i \in DOMAIN tx.inputs |-> c.value[tx.inputs[i].prev]]
<1>1. DOMAIN tx.inputs = 1 .. Len(tx.inputs) /\ Len(tx.inputs) \in Nat
  <2>1. tx.inputs \in Seq(Input)
    BY DEF Transaction
  <2> QED  BY <2>1
<1>2. \A i \in 1 .. Len(tx.inputs) : f[i] = c.value[tx.inputs[i].prev]
  BY <1>1
<1>3. \A i \in 1 .. Len(tx.inputs) : c.value[tx.inputs[i].prev] \in Int
  <2>1. \A i \in 1 .. Len(tx.inputs) : tx.inputs[i].prev \in Spent(tx)
    BY <1>1 DEF Spent, IsNull
  <2> QED  BY <2>1, ChainFacts
<1>4. SumsIn(c, tx) = Sums(f, Len(tx.inputs))
  BY DEF SumsIn
<1>5. \A i \in 1 .. Len(tx.inputs) : f[i] \in Int
  BY <1>2, <1>3
<1> HIDE DEF f
<1>6. /\ SumsIn(c, tx)[0] = 0
      /\ \A i \in 1 .. Len(tx.inputs) : SumsIn(c, tx)[i] = SumsIn(c, tx)[i - 1] + f[i]
  BY <1>1, <1>4, SumsUnfold
<1>7. ValueIn(c, tx) \in Int
  BY <1>1, <1>4, <1>5, SumsAreIntegers DEF ValueIn
<1> QED  BY <1>1, <1>2, <1>6, <1>7

\* What a block conserves, in the order in which it is walked.
LEMMA BlockConserves ==
    ASSUME NEW c \in Chains, NEW h \in DOMAIN c.blocks
    PROVE  LET block == c.blocks[h]
               n == Len(block)
               fees == FeeSums(c, block)
           IN  /\ n \in Nat \ {0}
               /\ \A i \in 1 .. n - 1 :
                     LET tx == TxInOrder(block, i) IN
                     /\ \A k \in DOMAIN tx.inputs : ~IsNull(tx.inputs[k].prev)
                     /\ ~IsCoinbase(tx)
                     /\ ValueOut(tx) <= ValueIn(c, tx)
                     /\ fees[i] = fees[i - 1] + (ValueIn(c, tx) - ValueOut(tx))
               /\ LET tx == TxInOrder(block, n) IN
                  /\ IsCoinbase(tx) /\ Len(tx.inputs) = 1
                  /\ ValueOut(tx) <= Subsidy[h] + fees[n - 1]
               /\ fees[0] = 0
               /\ \A i \in 0 .. n - 1 : fees[i] \in Int
<1>0. PICK block : block = c.blocks[h]
  OBVIOUS
<1> DEFINE n == Len(block)
           f == [i \in 1 .. n - 1 |-> ValueIn(c, block[i + 1]) - ValueOut(block[i + 1])]
           fees == FeeSums(c, block)
<1>1. h \in 1 .. Len(c.blocks) /\ block \in Seq(Transaction) /\ n \in Nat \ {0}
  BY <1>0, ChainFacts DEF Block
<1>2. Conserves(c, block, Subsidy[h])
  BY <1>0, <1>1, ChainAssumption
<1>3. \A i \in 1 .. n - 1 : TxInOrder(block, i) = block[i + 1] /\ i + 1 \in 2 .. n
  BY <1>1 DEF TxInOrder
<1>4. TxInOrder(block, n) = block[1]
  BY <1>1 DEF TxInOrder
<1>5. \A i \in 1 .. n - 1 :
         /\ \A k \in DOMAIN block[i + 1].inputs : ~IsNull(block[i + 1].inputs[k].prev)
         /\ ValueOut(block[i + 1]) <= ValueIn(c, block[i + 1])
  BY <1>2, <1>3 DEF Conserves
<1>6. ASSUME NEW i \in 1 .. n - 1
      PROVE  /\ f[i] = ValueIn(c, block[i + 1]) - ValueOut(block[i + 1])
             /\ ValueIn(c, block[i + 1]) \in Int /\ ValueOut(block[i + 1]) \in Int
             /\ ~IsCoinbase(block[i + 1])
  <2>1. block[i + 1] \in Transaction \cap Transactions(c)
    BY <1>0, <1>1, <1>3, TxInOrderType
  <2>2. ValueIn(c, block[i + 1]) \in Int /\ ValueOut(block[i + 1]) \in Int
    BY <1>5, <2>1, SumsInSteps, SumsOutSteps
  <2>3. ~IsCoinbase(block[i + 1])
    <3>1. block[i + 1].inputs \in Seq(Input)
      BY <2>1 DEF Transaction
    <3> QED  BY <1>5, <3>1 DEF IsCoinbase
  <2> QED  BY <2>2, <2>3
<1>7. fees = Sums(f, n - 1) /\ n - 1 \in Nat
  BY <1>1 DEF FeeSums
<1>8. \A i \in 1 .. n - 1 : f[i] \in Int
  BY <1>6
<1> HIDE DEF f, fees
<1>9. /\ fees[0] = 0 /\ \A i \in 1 .. n - 1 : fees[i] = fees[i - 1] + f[i]
      /\ \A i \in 0 .. n - 1 : fees[i] \in Int
  BY <1>7, <1>8, SumsUnfold, SumsAreIntegers
<1>10. IsCoinbase(block[1]) /\ Len(block[1].inputs) = 1 /\ ValueOut(block[1]) <= Subsidy[h] + fees[n - 1]
  BY <1>2 DEF Conserves, fees
<1>11. \A i \in 1 .. n - 1 :
          LET tx == TxInOrder(block, i) IN
          /\ \A k \in DOMAIN tx.inputs : ~IsNull(tx.inputs[k].prev)
          /\ ~IsCoinbase(tx)
          /\ ValueOut(tx) <= ValueIn(c, tx)
          /\ fees[i] = fees[i - 1] + (ValueIn(c, tx) - ValueOut(tx))
  <2>1. SUFFICES ASSUME NEW i \in 1 .. n - 1
                 PROVE  LET tx == block[i + 1] IN
                        /\ \A k \in DOMAIN tx.inputs : ~IsNull(tx.inputs[k].prev)
                        /\ ~IsCoinbase(tx)
                        /\ ValueOut(tx) <= ValueIn(c, tx)
                        /\ fees[i] = fees[i - 1] + (ValueIn(c, tx) - ValueOut(tx))
    BY <1>3
  <2> QED  BY <1>5, <1>6, <1>9
<1> QED  BY <1>0, <1>1, <1>4, <1>9, <1>10, <1>11 DEF fees

-----------------------------------------------------------------------------
\* The parts of the invariant.
InTx == pc \in {"inputs", "outputs", "settle"}

\* The sums the updater keeps are those of the chain.
ValuesInv ==
    \A o \in DOMAIN output_value : o \in DOMAIN chain.value /\ output_value[o] = chain.value[o]
RewardInv ==
    InTx => reward = Subsidy[height] + FeeSums(chain, chain.blocks[height])[tx_index - 1]
ReadInv ==
    pc = "inputs" =>
        /\ placed_value = 0 /\ vout = 1
        /\ input_index \in 1 .. Len(Tx.inputs) + 1
        /\ ~IsCoinbase(Tx) => input_value = SumsIn(chain, Tx)[input_index - 1]
PlacedInv ==
    pc \in {"outputs", "settle"} =>
        /\ vout \in 1 .. Len(Tx.outputs) + 1
        /\ placed_value = SumsOut(Tx)[vout - 1]
        /\ ~IsCoinbase(Tx) => input_value = ValueIn(chain, Tx)
        /\ pc = "settle" => vout = Len(Tx.outputs) + 1
LostInv == status.lost_sats >= 0 /\ lost_sats >= 0 /\ reward >= 0 /\ input_value >= 0

AmountsInv == ValuesInv /\ RewardInv /\ ReadInv /\ PlacedInv /\ LostInv

\* What the transaction at hand conserves.
LEMMA TxConserves ==
    ASSUME TypeInv, InTx
    PROVE  LET n == Len(chain.blocks[height])
               fees == FeeSums(chain, chain.blocks[height])
           IN  /\ tx_index \in 1 .. n /\ n \in Nat
               /\ Tx \in Transaction \cap Transactions(chain)
               /\ IsCoinbase(Tx) <=> tx_index = n
               /\ ~IsCoinbase(Tx) =>
                     /\ \A k \in DOMAIN Tx.inputs : ~IsNull(Tx.inputs[k].prev)
                     /\ ValueOut(Tx) <= ValueIn(chain, Tx)
                     /\ fees[tx_index] = fees[tx_index - 1] + (ValueIn(chain, Tx) - ValueOut(Tx))
               /\ IsCoinbase(Tx) =>
                     /\ Len(Tx.inputs) = 1 /\ IsNull(Tx.inputs[1].prev)
                     /\ ValueOut(Tx) <= Subsidy[height] + fees[tx_index - 1]
               /\ fees[tx_index - 1] \in Int
<1>1. /\ chain \in Chains /\ height \in DOMAIN chain.blocks
      /\ tx_index \in 1 .. Len(chain.blocks[height])
  BY TxFacts DEF InTx, TypeInv
<1>2. Tx = TxInOrder(chain.blocks[height], tx_index) /\ Tx \in Transaction \cap Transactions(chain)
  BY <1>1, TxInOrderType DEF Tx
<1>3. PICK n : n = Len(chain.blocks[height])
  OBVIOUS
<1>4. n \in Nat /\ (tx_index = n \/ tx_index \in 1 .. n - 1) /\ tx_index - 1 \in 0 .. n - 1
  BY <1>1, <1>3, BlockConserves
<1>5. IsCoinbase(Tx) => IsNull(Tx.inputs[1].prev)
  BY DEF IsCoinbase
<1> QED  BY <1>1, <1>2, <1>3, <1>4, <1>5, BlockConserves

\* Only the coinbase has a null input.
LEMMA ReadsNull ==
    ASSUME TypeInv, pc = "inputs", InputsLeft
    PROVE  /\ input_index \in DOMAIN Tx.inputs
           /\ IsNull(Tx.inputs[input_index].prev) <=> IsCoinbase(Tx)
<1>1. input_index \in DOMAIN Tx.inputs /\ DOMAIN Tx.inputs = 1 .. Len(Tx.inputs)
  BY TxFacts DEF TypeInv, TypeOK, InputsLeft
<1>2. CASE IsCoinbase(Tx)
  <2>1. Len(Tx.inputs) = 1 /\ IsNull(Tx.inputs[1].prev)
    BY <1>2, TxConserves DEF InTx
  <2> QED  BY <1>1, <1>2, <2>1
<1>3. CASE ~IsCoinbase(Tx)
  BY <1>1, <1>3, TxConserves DEF InTx
<1> QED  BY <1>1, <1>2, <1>3

\* A transaction is entered.
LEMMA EnterAmounts ==
    ASSUME chain \in Chains, UNCHANGED chain, height' \in DOMAIN chain.blocks,
           tx_index' \in 1 .. Len(chain.blocks[height']),
           NEW i, EnterTx(i), pc' = "inputs"
    PROVE  ReadInv' /\ PlacedInv' /\ input_value' = 0
<1>1. PICK tx : tx = TxInOrder(chain.blocks[height'], tx_index')
  OBVIOUS
<1>2. /\ Tx' = tx /\ input_index' = 1 /\ input_value' = 0 /\ placed_value' = 0 /\ vout' = 1
      /\ chain' = chain
  BY <1>1 DEF Tx, EnterTx
<1>3. tx \in Transaction \cap Transactions(chain)
  BY <1>1, TxInOrderType
<1>4. ~IsCoinbase(tx) => \A k \in DOMAIN tx.inputs : ~IsNull(tx.inputs[k].prev)
  <2>1. PICK n : n = Len(chain.blocks[height'])
    OBVIOUS
  <2>2. n \in Nat \ {0} /\ (tx_index' = n \/ tx_index' \in 1 .. n - 1)
    BY <2>1, BlockConserves
  <2> QED  BY <1>1, <2>1, <2>2, BlockConserves
<1>5. ~IsCoinbase(tx) => SumsIn(chain, tx)[0] = 0
  BY <1>3, <1>4, SumsInSteps
<1>6. 1 \in 1 .. Len(tx.inputs) + 1
  <2>1. tx.inputs \in Seq(Input)
    BY <1>3 DEF Transaction
  <2> QED  BY <2>1
<1>7. ReadInv'
  BY <1>2, <1>5, <1>6 DEF ReadInv
<1>8. PlacedInv'
  BY DEF PlacedInv
<1> QED  BY <1>2, <1>7, <1>8

\* Steps that leave the amounts alone.
LEMMA KeepAmounts ==
    ASSUME AmountsInv,
           UNCHANGED <<chain, height, tx_index, output_value, status, reward, lost_sats, input_value,
                       input_index, vout, placed_value, pc>>
    PROVE  AmountsInv'
<1>1. Tx' = Tx
  BY DEF Tx
<1>2. SumsIn(chain, Tx)' = SumsIn(chain, Tx) /\ SumsOut(Tx)' = SumsOut(Tx)
      /\ ValueIn(chain, Tx)' = ValueIn(chain, Tx) /\ IsCoinbase(Tx)' = IsCoinbase(Tx)
  BY <1>1
<1> QED
  BY <1>1, <1>2 DEF AmountsInv, ValuesInv, RewardInv, ReadInv, PlacedInv, LostInv, InTx

LEMMA AmountsInit == Init => AmountsInv
<1> SUFFICES ASSUME Init PROVE AmountsInv
  OBVIOUS
<1>1. ValuesInv
  BY ChainFacts DEF Init, ValuesInv, EmptyDB
<1>2. /\ pc = "idle" /\ status.lost_sats = 0 /\ lost_sats = 0 /\ reward = 0 /\ input_value = 0
  BY DEF Init
<1> QED
  BY <1>1, <1>2 DEF AmountsInv, RewardInv, ReadInv, PlacedInv, LostInv, InTx

LEMMA ScanAmounts == TypeInv /\ AmountsInv /\ (ScanNullInput \/ ScanInput) => AmountsInv'
<1> SUFFICES ASSUME TypeInv, AmountsInv, ScanNullInput \/ ScanInput PROVE AmountsInv'
  OBVIOUS
<1>1. /\ pc = "inputs" /\ InputsLeft /\ input_index' = input_index + 1
      /\ UNCHANGED <<chain, height, tx_index, output_value, status, reward, lost_sats, vout,
                     placed_value, pc>>
  BY DEF ScanNullInput, ScanInput, storeVars, blockVars
<1>2. Tx' = Tx
  BY <1>1 DEF Tx
<1>3. /\ input_index \in DOMAIN Tx.inputs /\ DOMAIN Tx.inputs = 1 .. Len(Tx.inputs)
      /\ Len(Tx.inputs) \in Nat /\ Subsidy[height] \in Nat /\ input_value \in Int
  BY <1>1, ReadsNull, TxFacts DEF TypeInv, TypeOK
<1>4. CASE IsCoinbase(Tx)
  <2>1. input_value' = input_value + Subsidy[height]
    BY <1>1, <1>4, ReadsNull DEF ScanNullInput, ScanInput
  <2>2. ReadInv' /\ LostInv'
    BY <1>1, <1>2, <1>3, <1>4, <2>1 DEF AmountsInv, ReadInv, LostInv
  <2> QED  BY <1>1, <2>2 DEF AmountsInv, ValuesInv, RewardInv, PlacedInv, InTx
<1>5. CASE ~IsCoinbase(Tx)
  <2>1. PICK prev : prev = Tx.inputs[input_index].prev
    OBVIOUS
  <2>2. input_value' = input_value + OutputValue(prev) /\ ~IsNull(prev)
    BY <1>1, <1>5, <2>1, ReadsNull DEF ScanNullInput, ScanInput
  <2>3. prev \in DOMAIN chain.value
    BY <1>1, <1>3, <2>1, <2>2, TxFacts DEF Spent, IsNull
  <2>4. OutputValue(prev) = chain.value[prev] /\ chain.value[prev] \in Nat
    BY <2>3, ChainFacts DEF OutputValue, AmountsInv, ValuesInv, TypeInv
  <2>5. /\ chain \in Chains /\ Tx \in Transaction \cap Transactions(chain)
        /\ \A k \in DOMAIN Tx.inputs : ~IsNull(Tx.inputs[k].prev)
    BY <1>1, <1>5, TxConserves DEF InTx, TypeInv
  <2>6. SumsIn(chain, Tx)[input_index] = SumsIn(chain, Tx)[input_index - 1] + chain.value[prev]
    BY <1>3, <2>1, <2>5, SumsInSteps
  <2>7. /\ input_value' = SumsIn(chain, Tx)[input_index]
        /\ input_index' - 1 = input_index /\ input_value' >= 0
    <3>1. input_value = SumsIn(chain, Tx)[input_index - 1] /\ input_value >= 0
      BY <1>1, <1>5 DEF AmountsInv, ReadInv, LostInv
    <3>2. PICK v, x : v = chain.value[prev] /\ x = SumsIn(chain, Tx)[input_index]
      OBVIOUS
    <3>3. input_value' = input_value + v /\ x = input_value + v /\ v \in Nat
      BY <2>2, <2>4, <2>6, <3>1, <3>2
    <3>4. input_index' = input_index + 1 /\ input_index \in Int
      BY <1>1, <1>3
    <3> QED  BY <1>3, <3>1, <3>2, <3>3, <3>4
  <2>8. ReadInv' /\ LostInv'
    BY <1>1, <1>2, <1>3, <2>7 DEF AmountsInv, ReadInv, LostInv
  <2> QED  BY <1>1, <2>8 DEF AmountsInv, ValuesInv, RewardInv, PlacedInv, InTx
<1> QED  BY <1>4, <1>5

LEMMA SortAmounts == TypeInv /\ AmountsInv /\ SortFloating => AmountsInv'
<1> SUFFICES ASSUME TypeInv, AmountsInv, SortFloating PROVE AmountsInv'
  OBVIOUS
<1>1. /\ pc = "inputs" /\ ~InputsLeft /\ pc' = "outputs"
      /\ UNCHANGED <<chain, height, tx_index, input_index, input_value, output_value, status,
                     reward, lost_sats, vout, placed_value>>
  BY DEF SortFloating, storeVars, txVars
<1>2. Tx' = Tx
  BY <1>1 DEF Tx
<1>3. input_index - 1 = Len(Tx.inputs) /\ Len(Tx.outputs) \in Nat
  BY <1>1, TxFacts DEF InputsLeft, AmountsInv, ReadInv
<1>4. SumsOut(Tx)[0] = 0
  BY <1>1, TxConserves, SumsOutSteps DEF InTx
<1>5. PlacedInv'
  BY <1>1, <1>2, <1>3, <1>4 DEF AmountsInv, ReadInv, PlacedInv, ValueIn
<1> QED  BY <1>1, <1>5 DEF AmountsInv, ValuesInv, RewardInv, ReadInv, LostInv, InTx

LEMMA NextOutputAmounts == TypeInv /\ AmountsInv /\ NextOutput => AmountsInv'
<1> SUFFICES ASSUME TypeInv, AmountsInv, NextOutput PROVE AmountsInv'
  OBVIOUS
<1>1. /\ pc = "outputs" /\ OutputsLeft
      /\ placed_value' = placed_value + Tx.outputs[vout] /\ vout' = vout + 1
      /\ UNCHANGED <<chain, height, tx_index, input_index, input_value, output_value, status,
                     reward, lost_sats, pc>>
  BY DEF NextOutput, storeVars, blockVars
<1>2. Tx' = Tx
  BY <1>1 DEF Tx
<1>3. /\ vout \in 1 .. Len(Tx.outputs) /\ placed_value = SumsOut(Tx)[vout - 1]
      /\ Len(Tx.outputs) \in Nat
  BY <1>1, TxFacts DEF OutputsLeft, AmountsInv, PlacedInv
<1>4. placed_value' = SumsOut(Tx)[vout]
  BY <1>1, <1>3, TxConserves, SumsOutSteps DEF InTx
<1>5. vout' - 1 = vout /\ vout' \in 1 .. Len(Tx.outputs) + 1
  BY <1>1, <1>3
<1>6. PlacedInv'
  BY <1>1, <1>2, <1>4, <1>5 DEF AmountsInv, PlacedInv
<1> QED  BY <1>1, <1>6 DEF AmountsInv, ValuesInv, RewardInv, ReadInv, LostInv, InTx

LEMMA WriteAmounts == TypeInv /\ AmountsInv /\ WriteOutputValue => AmountsInv'
<1> SUFFICES ASSUME TypeInv, AmountsInv, WriteOutputValue PROVE AmountsInv'
  OBVIOUS
<1>1. /\ pc = "outputs" /\ ~OutputsLeft /\ output_value' = ValuesAfter(Tx) /\ pc' = "settle"
      /\ UNCHANGED <<chain, height, tx_index, input_index, input_value, status, reward, lost_sats,
                     vout, placed_value>>
  BY DEF WriteOutputValue, blockVars, txVars
<1>2. Tx' = Tx
  BY <1>1 DEF Tx
<1>3. ASSUME NEW o \in Created(Tx)
      PROVE  o \in DOMAIN chain.value /\ Tx.outputs[o[2] + 1] = chain.value[o]
  <2>1. PICK v \in 0 .. Len(Tx.outputs) - 1 : o = <<Tx.txid, v>>
    BY DEF Created
  <2>2. PICK w : w = v + 1
    OBVIOUS
  <2>3. w \in DOMAIN Tx.outputs /\ w - 1 = v /\ o[2] + 1 = w
    BY <1>1, <2>1, <2>2, TxFacts
  <2>4. Tx \in Transactions(chain) /\ WellFormed(chain)
    BY <1>1, TxConserves, ChainAssumption DEF InTx, TypeInv
  <2>5. <<Tx.txid, w - 1>> \in DOMAIN chain.value /\ chain.value[<<Tx.txid, w - 1>>] = Tx.outputs[w]
    BY <2>3, <2>4 DEF WellFormed
  <2> QED  BY <2>1, <2>3, <2>5
<1>4. ValuesInv'
  BY <1>1, <1>3 DEF AmountsInv, ValuesInv, ValuesAfter, Write, Without
<1>5. vout = Len(Tx.outputs) + 1
  BY <1>1, TxFacts DEF OutputsLeft, AmountsInv, PlacedInv
<1>6. PlacedInv'
  BY <1>1, <1>2, <1>5 DEF AmountsInv, PlacedInv
<1> QED  BY <1>1, <1>4, <1>6 DEF AmountsInv, RewardInv, ReadInv, LostInv, InTx

\* What is settled is covered by what was spent, or by what the block may create.
LEMMA SettleCovered ==
    ASSUME TypeInv, AmountsInv, pc = "settle" \/ (pc = "outputs" /\ ~OutputsLeft)
    PROVE  placed_value <= IF IsCoinbase(Tx) THEN reward ELSE input_value
<1>1. placed_value = ValueOut(Tx)
  <2>1. vout = Len(Tx.outputs) + 1 /\ placed_value = SumsOut(Tx)[vout - 1] /\ Len(Tx.outputs) \in Nat
    BY TxFacts DEF AmountsInv, PlacedInv, OutputsLeft
  <2>2. vout - 1 = Len(Tx.outputs)
    BY <2>1
  <2> QED  BY <2>1, <2>2 DEF ValueOut
<1>2. CASE IsCoinbase(Tx)
  BY <1>1, <1>2, TxConserves DEF InTx, AmountsInv, RewardInv
<1>3. CASE ~IsCoinbase(Tx)
  BY <1>1, <1>3, TxConserves DEF InTx, AmountsInv, PlacedInv
<1> QED  BY <1>2, <1>3

LEMMA SettleAmounts == TypeInv /\ AmountsInv /\ (SettleFees \/ SettleCoinbase) => AmountsInv'
<1> SUFFICES ASSUME TypeInv, AmountsInv, SettleFees \/ SettleCoinbase PROVE AmountsInv'
  OBVIOUS
<1>1. /\ pc = "settle" /\ FinishTx
      /\ UNCHANGED <<chain, height, output_value, status>>
      /\ EnterTx(tx_index + 1) /\ tx_index' = tx_index + 1 /\ input_value' = 0
  BY DEF SettleFees, SettleCoinbase, storeVars, FinishTx, EnterTx
<1>2. PICK n : n = Len(chain.blocks[height])
  OBVIOUS
<1>3. /\ chain \in Chains /\ height \in DOMAIN chain.blocks
      /\ tx_index \in 1 .. n /\ n \in Nat /\ (IsCoinbase(Tx) <=> tx_index = n)
      /\ reward \in Int /\ placed_value \in Int /\ input_value \in Int /\ lost_sats \in Int
      /\ pc' = IF tx_index < n THEN "inputs" ELSE "flush_id_inscription"
  BY <1>1, <1>2, TxFacts, TxConserves DEF InTx, TypeInv, TypeOK, FinishTx
<1>4. ValuesInv'
  BY <1>1 DEF AmountsInv, ValuesInv
<1>5. CASE IsCoinbase(Tx)
  <2>1. pc' = "flush_id_inscription" /\ reward' = reward /\ lost_sats' = lost_sats + (reward - placed_value)
    BY <1>1, <1>3, <1>5 DEF SettleFees, SettleCoinbase
  <2>2. LostInv'
    BY <1>1, <1>3, <1>5, <2>1, SettleCovered DEF AmountsInv, LostInv
  <2> QED  BY <1>4, <2>1, <2>2 DEF AmountsInv, RewardInv, ReadInv, PlacedInv, InTx
<1>6. CASE ~IsCoinbase(Tx)
  <2>1. /\ pc' = "inputs" /\ reward' = reward + (input_value - placed_value) /\ lost_sats' = lost_sats
        /\ tx_index' \in 1 .. n
    BY <1>1, <1>3, <1>6 DEF SettleFees, SettleCoinbase
  <2>2. LostInv'
    BY <1>1, <1>3, <1>6, <2>1, SettleCovered DEF AmountsInv, LostInv
  <2>3. ReadInv' /\ PlacedInv'
    BY <1>1, <1>2, <1>3, <2>1, EnterAmounts
  <2>4. input_value = ValueIn(chain, Tx) /\ placed_value = ValueOut(Tx)
    <3>1. vout = Len(Tx.outputs) + 1 /\ placed_value = SumsOut(Tx)[vout - 1] /\ Len(Tx.outputs) \in Nat
      BY <1>1, TxFacts DEF AmountsInv, PlacedInv
    <3>2. vout - 1 = Len(Tx.outputs)
      BY <3>1
    <3> QED  BY <1>1, <1>6, <3>1, <3>2 DEF ValueOut, AmountsInv, PlacedInv
  <2>5. PICK fees : fees = FeeSums(chain, chain.blocks[height])
    OBVIOUS
  <2>6. /\ fees[tx_index] = fees[tx_index - 1] + (input_value - placed_value)
        /\ fees[tx_index - 1] \in Int /\ Subsidy[height] \in Nat
    BY <1>1, <1>6, <2>4, <2>5, TxConserves, TxFacts DEF InTx
  <2>7. reward = Subsidy[height] + fees[tx_index - 1]
    BY <1>1, <2>5 DEF AmountsInv, RewardInv, InTx
  <2>8. reward' = Subsidy[height] + fees[tx_index] /\ tx_index' - 1 = tx_index
    BY <1>1, <1>3, <2>1, <2>6, <2>7
  <2>9. RewardInv'
    BY <1>1, <2>5, <2>8 DEF RewardInv
  <2> QED  BY <1>4, <2>2, <2>3, <2>9 DEF AmountsInv
<1> QED  BY <1>5, <1>6

LEMMA AmountsNext == TypeInv /\ AmountsInv /\ [Next]_vars => AmountsInv'
<1> SUFFICES ASSUME TypeInv, AmountsInv, [Next]_vars PROVE AmountsInv'
  OBVIOUS
<1>1. CASE BeginBlock(height + 1)
  <2>1. /\ height' = height + 1 /\ height + 1 \in DOMAIN chain.blocks
        /\ reward' = Subsidy[height + 1] /\ lost_sats' = status.lost_sats
        /\ EnterTx(1) /\ tx_index' = 1 /\ pc' = "inputs" /\ UNCHANGED <<chain, output_value, status>>
    BY <1>1 DEF BeginBlock, Served, EnterTx, storeVars
  <2>2. /\ chain \in Chains /\ Subsidy[height + 1] \in Nat
        /\ Len(chain.blocks[height + 1]) \in Nat \ {0}
        /\ FeeSums(chain, chain.blocks[height + 1])[0] = 0
    BY <2>1, ChainFacts, BlockConserves DEF TypeInv
  <2>3. ReadInv' /\ PlacedInv' /\ input_value' = 0
    BY <2>1, <2>2, EnterAmounts
  <2>4. tx_index' - 1 = 0 /\ Subsidy[height + 1] + 0 = Subsidy[height + 1]
    BY <2>1, <2>2
  <2>5. RewardInv'
    BY <2>1, <2>2, <2>4 DEF RewardInv
  <2> QED  BY <2>1, <2>2, <2>3, <2>5 DEF AmountsInv, ValuesInv, LostInv
<1>2. CASE ScanNullInput \/ ScanInput  BY <1>2, ScanAmounts
<1>3. CASE SortFloating  BY <1>3, SortAmounts
<1>4. CASE NextOutput  BY <1>4, NextOutputAmounts
<1>5. CASE WriteOutputValue  BY <1>5, WriteAmounts
<1>6. CASE SettleFees \/ SettleCoinbase  BY <1>6, SettleAmounts
<1>7. CASE PlaceOnOutput \/ LoseFloating \/ UNCHANGED vars
  <2>1. UNCHANGED <<chain, height, tx_index, output_value, status, reward, lost_sats, input_value,
                    input_index, vout, placed_value, pc>>
    BY <1>7
    DEF PlaceOnOutput, LoseFloating, UpdateInscriptionState, vars, storeVars, blockVars, txVars
  <2> QED  BY <2>1, KeepAmounts
<1>8. CASE FlushIdInscription \/ FlushInscriptionOutput \/ FlushOutputInscription
  BY <1>8
  DEF FlushIdInscription, FlushInscriptionOutput, FlushOutputInscription, blockVars, txVars,
      AmountsInv, ValuesInv, RewardInv, ReadInv, PlacedInv, LostInv, InTx
<1>9. CASE FlushStatus
  BY <1>9
  DEF FlushStatus, Counters, DropUpdater, AmountsInv, ValuesInv, RewardInv, ReadInv, PlacedInv,
      LostInv, InTx
<1>10. CASE Fail
  BY <1>10
  DEF Fail, DropUpdater, storeVars, AmountsInv, ValuesInv, RewardInv, ReadInv, PlacedInv, LostInv, InTx
<1> QED
  BY <1>1, <1>2, <1>3, <1>4, <1>5, <1>6, <1>7, <1>8, <1>9, <1>10 DEF Next, IndexStep
-----------------------------------------------------------------------------
\* Lists of floating inscriptions by their offsets.
Floats(s, from) == \A k \in DOMAIN s : s[k].offset >= from
Ascending(s) == \A j, k \in DOMAIN s : j < k => s[j].offset <= s[k].offset

\* Lists of entries whose offsets are not below zero.
NonNegative(list) == \A e \in Items(list) : e[2] >= 0
ListsNonNegative(store) == \A o \in DOMAIN store : NonNegative(store[o])

\* What floats lies behind the outputs already passed, in the order in which
\* it is placed; the coinbase reveals nothing.
FloatingInv ==
    /\ Floats(floating, placed_value) /\ Floats(flotsam, 0)
    /\ pc \in {"outputs", "settle"} => Ascending(floating)
    /\ pc = "inputs" /\ IsCoinbase(Tx) => floating = <<>>
OffsetsInv == ListsNonNegative(output_inscription) /\ ListsNonNegative(output_inscription_cache)

OffsetIsInt(s) == \A k \in DOMAIN s : s[k].offset \in Int
LEMMA FlotsamOffsets == ASSUME NEW s \in Seq(Flotsam) PROVE OffsetIsInt(s)
<1>1. \A k \in DOMAIN s : s[k] \in Flotsam
  OBVIOUS
<1> QED  BY <1>1 DEF OffsetIsInt, Flotsam, OldFlotsam, NewFlotsam

LEMMA FloatsConcat ==
    ASSUME NEW s \in Seq(Flotsam), NEW t \in Seq(Flotsam), NEW from, Floats(s, from), Floats(t, from)
    PROVE  Floats(s \o t, from)
<1>1. /\ Len(s) \in Nat /\ Len(t) \in Nat /\ DOMAIN s = 1 .. Len(s) /\ DOMAIN t = 1 .. Len(t)
      /\ DOMAIN (s \o t) = 1 .. Len(s) + Len(t)
  OBVIOUS
<1>2. \A k \in DOMAIN (s \o t) :
         \/ k \in DOMAIN s /\ (s \o t)[k] = s[k]
         \/ k - Len(s) \in DOMAIN t /\ (s \o t)[k] = t[k - Len(s)]
  BY <1>1
<1> QED  BY <1>2 DEF Floats

LEMMA FloatsSorted ==
    ASSUME NEW s \in Seq(Flotsam), NEW sorted \in StablySorted(s)
    PROVE  /\ Ascending(sorted)
           /\ \A from : Floats(s, from) => Floats(sorted, from)
<1>1. PICK order \in [DOMAIN s -> DOMAIN s] :
         SortedBy(s, order) /\ sorted = [i \in DOMAIN s |-> s[order[i]]]
  BY DEF StablySorted
<1>2. \A i \in DOMAIN s : s[i].offset \in Int
  BY FlotsamOffsets DEF OffsetIsInt
<1>3. \A i \in DOMAIN s : order[i] \in DOMAIN s /\ sorted[i] = s[order[i]]
  BY <1>1
<1>4. ASSUME NEW i \in DOMAIN s, NEW j \in DOMAIN s, i < j
      PROVE  sorted[i].offset <= sorted[j].offset
  <2>1. \/ s[order[i]].offset < s[order[j]].offset \/ s[order[i]].offset = s[order[j]].offset
    BY <1>1, <1>4 DEF SortedBy
  <2> QED  BY <1>2, <1>3, <2>1
<1>5. DOMAIN sorted = DOMAIN s
  BY <1>1
<1> QED  BY <1>3, <1>4, <1>5 DEF Ascending, Floats

LEMMA FloatsTail ==
    ASSUME NEW s \in Seq(Flotsam), s # <<>>
    PROVE  /\ \A from : Floats(s, from) => Head(s).offset >= from /\ Floats(Tail(s), from)
           /\ Ascending(s) => Ascending(Tail(s)) /\ Floats(s, Head(s).offset)
<1>1. DOMAIN s = 1 .. Len(s) /\ Len(s) \in Nat /\ Len(s) # 0 /\ Head(s) = s[1]
  OBVIOUS
<1>2. DOMAIN Tail(s) = 1 .. Len(s) - 1 /\ \A k \in 1 .. Len(s) - 1 : Tail(s)[k] = s[k + 1]
  BY <1>1
<1>3. \A k \in DOMAIN Tail(s) : k \in Nat /\ k + 1 \in DOMAIN s /\ Tail(s)[k] = s[k + 1]
  BY <1>1, <1>2
<1>4. \A from : Floats(s, from) => Head(s).offset >= from /\ Floats(Tail(s), from)
  <2>1. 1 \in DOMAIN s  BY <1>1
  <2> QED  BY <1>1, <1>3, <2>1 DEF Floats
<1>5. ASSUME Ascending(s) PROVE Ascending(Tail(s))
  <2>1. SUFFICES ASSUME NEW j \in DOMAIN Tail(s), NEW k \in DOMAIN Tail(s), j < k
                 PROVE  Tail(s)[j].offset <= Tail(s)[k].offset
    BY DEF Ascending
  <2>2. j + 1 < k + 1  BY <1>3, <2>1
  <2> QED  BY <1>3, <1>5, <2>2 DEF Ascending
<1>6. ASSUME Ascending(s) PROVE Floats(s, Head(s).offset)
  <2>1. \A k \in DOMAIN s : s[k].offset \in Int
    BY FlotsamOffsets DEF OffsetIsInt
  <2>2. \A k \in DOMAIN s : k = 1 \/ 1 < k
    BY <1>1
  <2>3. \A k \in DOMAIN s : s[1].offset <= s[k].offset
    <3>1. 1 \in DOMAIN s  BY <1>1
    <3> QED  BY <1>6, <2>1, <2>2, <3>1 DEF Ascending
  <2> QED  BY <1>1, <2>1, <2>3 DEF Floats
<1> QED  BY <1>4, <1>5, <1>6

LEMMA NoneFloats == (\A from : Floats(<<>>, from)) /\ Ascending(<<>>)
BY DEF Floats, Ascending

-----------------------------------------------------------------------------
\* The offsets of the lists.
LEMMA EntriesNonNegative ==
    ASSUME NEW cache, ListsNonNegative(output_inscription), ListsNonNegative(cache), NEW o
    PROVE  NonNegative(Entries(cache, o))
BY DEF Entries, ListsNonNegative, NonNegative, Items

LEMMA PutNonNegative ==
    ASSUME NEW store, ListsNonNegative(store), NEW k, NEW list, NonNegative(list)
    PROVE  ListsNonNegative(Put(store, k, list))
BY DEF ListsNonNegative, Put

\* An inscription is placed at an offset that is not below zero.
LEMMA PlacedOffsets ==
    ASSUME TypeInv, OffsetsInv, pc \in {"outputs", "settle"}, floating # <<>>,
           NEW output \in OutPoint, NEW offset \in Int, offset >= 0,
           UpdateInscriptionState(output, offset)
    PROVE  OffsetsInv'
<1> DEFINE f == Head(floating)
           e == <<f.id, offset>>
<1>1. f \in Flotsam /\ e \in Entry /\ e[2] = offset
  <2>1. f \in Flotsam  BY HeadTail DEF TypeInv, TypeOK
  <2> QED  BY <2>1 DEF Flotsam, OldFlotsam, NewFlotsam, Entry
<1>2. ASSUME NEW list \in Seq(Entry), NonNegative(list) PROVE NonNegative(Append(list, e))
  BY <1>1, <1>2, AppendedList DEF NonNegative
<1>3. IsStore(output_inscription_cache, Location, Seq(Entry))
  BY DEF TypeInv, TypeOK
<1>4. CASE MoveInscription(f, output, offset)
  <2>1. f \in OldFlotsam
    BY <1>1, <1>4 DEF MoveInscription, Flotsam, OldFlotsam, NewFlotsam
  <2> DEFINE list == Entries(output_inscription_cache, f.old_output)
  <2>2. list \in Seq(Entry) /\ NonNegative(list)
    BY <1>3, EntriesType, EntriesNonNegative DEF OffsetsInv
  <2>3. PICK rest \in Replaced(list, <<f.id, f.old_offset>>) :
           output_inscription_cache' =
               LET emptied == Put(output_inscription_cache, f.old_output, rest)
               IN  Put(emptied, output, Append(Entries(emptied, output), e))
    BY <1>4 DEF MoveInscription
  <2> HIDE DEF list
  <2>4. rest \in Seq(Entry) /\ NonNegative(rest)
    BY <2>2, ReplacedList, ReplacedSeq DEF NonNegative
  <2>5. PICK emptied : emptied = Put(output_inscription_cache, f.old_output, rest)
    OBVIOUS
  <2>6. ListsNonNegative(emptied)
    BY <2>4, <2>5, PutNonNegative DEF OffsetsInv
  <2>7. IsStore(emptied, Location, Seq(Entry))
    <3>1. f.old_output \in Location  BY <2>1 DEF OldFlotsam, Location
    <3> QED  BY <1>3, <2>4, <2>5, <3>1, PutIsStore
  <2>8. Entries(emptied, output) \in Seq(Entry) /\ NonNegative(Entries(emptied, output))
    BY <2>6, <2>7, EntriesType, EntriesNonNegative DEF OffsetsInv
  <2>9. output_inscription_cache' = Put(emptied, output, Append(Entries(emptied, output), e))
    BY <2>3, <2>5
  <2>10. ListsNonNegative(output_inscription_cache')
    BY <1>2, <2>6, <2>8, <2>9, PutNonNegative
  <2> QED  BY <2>10 DEF OffsetsInv, UpdateInscriptionState
<1>5. CASE AddInscription(f, output, offset)
  <2>1. PICK location :
           output_inscription_cache' =
               Put(output_inscription_cache, location,
                   Append(Entries(output_inscription_cache, location), e))
    BY <1>5 DEF AddInscription
  <2>2. /\ Entries(output_inscription_cache, location) \in Seq(Entry)
        /\ NonNegative(Entries(output_inscription_cache, location))
    BY <1>3, EntriesType, EntriesNonNegative DEF OffsetsInv
  <2>3. ListsNonNegative(output_inscription_cache')
    BY <1>2, <2>1, <2>2, PutNonNegative DEF OffsetsInv
  <2> QED  BY <2>3 DEF OffsetsInv, UpdateInscriptionState
<1> QED  BY <1>4, <1>5 DEF UpdateInscriptionState

-----------------------------------------------------------------------------
\* What arrives with an input, or is revealed in it, floats.
LEMMA ScanFloats == TypeInv /\ AmountsInv /\ FloatingInv /\ OffsetsInv /\ ScanInput
                       => FloatingInv' /\ OffsetsInv'
<1> SUFFICES ASSUME TypeInv, AmountsInv, FloatingInv, OffsetsInv, ScanInput
             PROVE  FloatingInv' /\ OffsetsInv'
  OBVIOUS
<1>0. PICK prev : prev = Tx.inputs[input_index].prev
  OBVIOUS
<1> DEFINE entries == Entries(output_inscription_cache, prev)
           arriving == Arriving(prev)
           arrived == floating \o arriving
           revealed == Revealed(arrived, input_index, input_value + OutputValue(prev))
<1>1. /\ pc = "inputs" /\ pc' = "inputs" /\ InputsLeft /\ ~IsNull(prev)
      /\ floating' = arrived \o revealed
      /\ output_inscription_cache' = IF entries = <<>> THEN output_inscription_cache
                                     ELSE Put(output_inscription_cache, prev, entries)
      /\ UNCHANGED <<chain, height, tx_index, flotsam, placed_value, output_inscription>>
  BY <1>0 DEF ScanInput, storeVars, blockVars
<1>2. input_index \in DOMAIN Tx.inputs /\ ~IsCoinbase(Tx)
  BY <1>0, <1>1, ReadsNull
<1>3. placed_value = 0 /\ input_value >= 0 /\ input_value \in Int
  BY <1>1 DEF AmountsInv, ReadInv, LostInv, TypeInv, TypeOK
<1>4. floating \in Seq(Flotsam) /\ arriving \in Seq(Flotsam) /\ revealed \in Seq(Flotsam)
  <2>1. floating \in Seq(Flotsam)  BY DEF TypeInv, TypeOK
  <2>2. prev \in OutPoint  BY <1>0, <1>1, <1>2, TxFacts DEF Input
  <2>3. arriving \in Seq(Flotsam)  BY <2>2, ArrivingType
  <2>4. revealed \in Seq(Flotsam)  BY <1>1, <1>2, RevealedType
  <2> QED  BY <2>1, <2>3, <2>4
<1>5. NonNegative(entries) /\ entries \in Seq(Entry)
  BY EntriesNonNegative, EntriesType DEF OffsetsInv, TypeInv, TypeOK
<1>6. Floats(arriving, 0)
  <2>1. \A k \in DOMAIN entries : entries[k][2] >= 0 /\ entries[k][2] \in Int
    BY <1>5 DEF NonNegative, Items, Entry
  <2>2. \A k \in DOMAIN entries : input_value + entries[k][2] >= 0
    BY <1>3, <2>1
  <2> QED  BY <2>2 DEF Floats, Arriving
<1>7. Floats(revealed, 0)
  BY <1>3 DEF Floats, Revealed
<1>8. Floats(floating', 0)
  <2>1. arrived \in Seq(Flotsam) /\ Floats(arrived, 0)
    BY <1>3, <1>4, <1>6, FloatsConcat DEF FloatingInv
  <2> HIDE DEF arrived, revealed
  <2> QED  BY <1>1, <1>4, <1>7, <2>1, FloatsConcat
<1>9. Tx' = Tx
  BY <1>1 DEF Tx
<1>10. FloatingInv'
  BY <1>1, <1>2, <1>3, <1>8, <1>9 DEF FloatingInv
<1> HIDE DEF entries
<1>11. OffsetsInv'
  BY <1>1, <1>5, PutNonNegative DEF OffsetsInv
<1> QED  BY <1>10, <1>11

LEMMA SortFloats == TypeInv /\ AmountsInv /\ FloatingInv /\ SortFloating => FloatingInv'
<1> SUFFICES ASSUME TypeInv, AmountsInv, FloatingInv, SortFloating PROVE FloatingInv'
  OBVIOUS
<1>1. PICK all : all = IF IsCoinbase(Tx) THEN floating \o flotsam ELSE floating
  OBVIOUS
<1>2. /\ pc = "inputs" /\ pc' = "outputs" /\ UNCHANGED placed_value
      /\ floating' \in StablySorted(all)
      /\ flotsam' = IF IsCoinbase(Tx) THEN <<>> ELSE flotsam
  BY <1>1 DEF SortFloating, txVars
<1>3. placed_value = 0 /\ floating \in Seq(Flotsam) /\ flotsam \in Seq(Flotsam)
  BY <1>2 DEF AmountsInv, ReadInv, TypeInv, TypeOK
<1>4. all \in Seq(Flotsam) /\ Floats(all, 0)
  BY <1>1, <1>3, FloatsConcat DEF FloatingInv
<1>5. Ascending(floating') /\ Floats(floating', 0)
  BY <1>2, <1>4, FloatsSorted
<1>6. Floats(flotsam', 0)
  BY <1>2, NoneFloats DEF FloatingInv
<1> QED  BY <1>2, <1>3, <1>5, <1>6 DEF FloatingInv

LEMMA NextOutputFloats == TypeInv /\ AmountsInv /\ FloatingInv /\ NextOutput => FloatingInv'
<1> SUFFICES ASSUME TypeInv, AmountsInv, FloatingInv, NextOutput PROVE FloatingInv'
  OBVIOUS
<1>1. /\ pc = "outputs" /\ pc' = "outputs" /\ OutputsLeft /\ ~WithinOutput
      /\ placed_value' = placed_value + Tx.outputs[vout]
      /\ UNCHANGED <<floating, flotsam>>
  BY DEF NextOutput, blockVars
<1>2. Tx.outputs[vout] \in Nat /\ placed_value \in Int /\ floating \in Seq(Flotsam)
  <2>1. vout \in DOMAIN Tx.outputs
    BY <1>1, TxFacts DEF OutputsLeft, AmountsInv, PlacedInv
  <2> QED  BY <1>1, <2>1, TxFacts DEF TypeInv, TypeOK
<1>3. CASE floating = <<>>
  BY <1>1, <1>3, NoneFloats DEF FloatingInv
<1>4. CASE floating # <<>>
  <2>1. PICK d : d = Head(floating).offset
    OBVIOUS
  <2>2. d \in Int /\ d >= placed_value'
    BY <1>1, <1>2, <1>4, <2>1, HeadOffset DEF WithinOutput
  <2>3. Floats(floating, d)
    BY <1>1, <1>2, <1>4, <2>1, FloatsTail DEF FloatingInv
  <2>4. Floats(floating, placed_value')
    <3>1. \A k \in DOMAIN floating : floating[k].offset \in Int
      BY <1>2, FlotsamOffsets DEF OffsetIsInt
    <3> QED  BY <1>1, <1>2, <2>2, <2>3, <3>1 DEF Floats
  <2> QED  BY <1>1, <2>4 DEF FloatingInv
<1> QED  BY <1>3, <1>4

\* Both ways to place an inscription.
LEMMA PlaceFloats == TypeInv /\ AmountsInv /\ FloatingInv /\ OffsetsInv /\ (PlaceOnOutput \/ LoseFloating)
                        => FloatingInv' /\ OffsetsInv'
<1> SUFFICES ASSUME TypeInv, AmountsInv, FloatingInv, OffsetsInv, PlaceOnOutput \/ LoseFloating
             PROVE  FloatingInv' /\ OffsetsInv'
  OBVIOUS
<1>1. /\ pc \in {"outputs", "settle"} /\ pc' = pc /\ floating # <<>> /\ floating' = Tail(floating)
      /\ UNCHANGED <<flotsam, placed_value>>
  BY DEF PlaceOnOutput, WithinOutput, LoseFloating, UpdateInscriptionState, blockVars, txVars
<1>2. floating \in Seq(Flotsam) /\ placed_value \in Int /\ lost_sats \in Int
  BY DEF TypeInv, TypeOK
<1>3. Head(floating).offset \in Int /\ Head(floating).offset >= placed_value
  BY <1>1, <1>2, HeadOffset, FloatsTail DEF FloatingInv
<1>4. FloatingInv'
  BY <1>1, <1>2, FloatsTail DEF FloatingInv
<1>5. CASE PlaceOnOutput
  <2>1. vout \in DOMAIN Tx.outputs
    BY <1>1, <1>5, TxFacts DEF PlaceOnOutput, OutputsLeft, AmountsInv, PlacedInv
  <2>2. <<Tx.txid, vout - 1>> \in OutPoint
    BY <1>1, <2>1, TxFacts DEF OutPoint, Transaction
  <2>3. Head(floating).offset - placed_value \in Int /\ Head(floating).offset - placed_value >= 0
    BY <1>2, <1>3
  <2> QED  BY <1>1, <1>4, <1>5, <2>2, <2>3, PlacedOffsets DEF PlaceOnOutput
<1>6. CASE LoseFloating
  <2>1. NullOutPoint \in OutPoint
    BY ChainAssumption DEF NullOutPoint, OutPoint, NullHash
  <2>2. /\ lost_sats + Head(floating).offset - placed_value \in Int
        /\ lost_sats + Head(floating).offset - placed_value >= 0
    BY <1>2, <1>3 DEF AmountsInv, LostInv
  <2> QED  BY <1>1, <1>4, <1>6, <2>1, <2>2, PlacedOffsets DEF LoseFloating
<1> QED  BY <1>5, <1>6

LEMMA SettleFloats == TypeInv /\ AmountsInv /\ FloatingInv /\ (SettleFees \/ SettleCoinbase) => FloatingInv'
<1> SUFFICES ASSUME TypeInv, AmountsInv, FloatingInv, SettleFees \/ SettleCoinbase PROVE FloatingInv'
  OBVIOUS
<1>1. /\ floating' = <<>> /\ placed_value' = 0 /\ pc' \in {"inputs", "flush_id_inscription"}
  BY DEF SettleFees, SettleCoinbase, FinishTx, EnterTx
<1>2. Floats(flotsam', 0)
  <2>1. CASE SettleFees
    <3> DEFINE moved == [k \in DOMAIN floating |-> InFees(floating[k])]
    <3>1. /\ floating \in Seq(Flotsam) /\ flotsam \in Seq(Flotsam)
          /\ reward \in Int /\ placed_value \in Int /\ reward >= 0
          /\ DOMAIN floating = 1 .. Len(floating) /\ Len(floating) \in Nat
      BY DEF TypeInv, TypeOK, AmountsInv, LostInv
    <3>2. ASSUME NEW k \in DOMAIN floating
          PROVE  InFees(floating[k]) \in Flotsam /\ InFees(floating[k]).offset >= 0
      <4>1. PICK f : f = floating[k]
        OBVIOUS
      <4>2. f \in Flotsam /\ f.offset \in Int /\ f.offset >= placed_value
        BY <3>1, <4>1, FlotsamOffsets DEF OffsetIsInt, FloatingInv, Floats
      <4>3. reward + f.offset - placed_value \in Int /\ reward + f.offset - placed_value >= 0
        BY <3>1, <4>2
      <4>4. InFees(f) = [f EXCEPT !.offset = reward + f.offset - placed_value]
        BY DEF InFees
      <4>5. InFees(f) \in Flotsam
        BY <4>2, <4>3, <4>4 DEF Flotsam, OldFlotsam, NewFlotsam
      <4>6. InFees(f).offset = reward + f.offset - placed_value
        BY <4>2, <4>4 DEF Flotsam, OldFlotsam, NewFlotsam
      <4> QED  BY <4>1, <4>3, <4>5, <4>6
    <3>3. moved \in Seq(Flotsam)
      BY <3>1, <3>2, SeqFromFunction
    <3>4. Floats(moved, 0)
      BY <3>2 DEF Floats
    <3>5. flotsam' = flotsam \o moved
      BY <2>1 DEF SettleFees
    <3> HIDE DEF moved
    <3> QED  BY <3>1, <3>3, <3>4, <3>5, FloatsConcat DEF FloatingInv
  <2>2. CASE SettleCoinbase
    BY <2>2 DEF SettleCoinbase, FloatingInv
  <2> QED  BY <2>1, <2>2
<1> QED  BY <1>1, <1>2, NoneFloats DEF FloatingInv

LEMMA FlushOffsets == OffsetsInv /\ FlushOutputInscription => OffsetsInv'
<1> SUFFICES ASSUME OffsetsInv, FlushOutputInscription PROVE OffsetsInv'
  OBVIOUS
<1>1. /\ output_inscription' = ListsAfter /\ UNCHANGED output_inscription_cache
  BY DEF FlushOutputInscription, batchVars
<1>2. PICK empty : ListsAfter = Write(Without(output_inscription, empty),
                                      Without(output_inscription_cache, empty))
  BY DEF ListsAfter
<1>3. ListsNonNegative(ListsAfter)
  BY <1>2 DEF OffsetsInv, ListsNonNegative, Write, Without
<1> QED  BY <1>1, <1>3 DEF OffsetsInv

LEMMA OffsetsInit == Init => FloatingInv /\ OffsetsInv
BY NoneFloats DEF Init, FloatingInv, OffsetsInv, ListsNonNegative, EmptyDB

LEMMA OffsetsNext ==
    TypeInv /\ AmountsInv /\ FloatingInv /\ OffsetsInv /\ [Next]_vars => FloatingInv' /\ OffsetsInv'
<1> SUFFICES ASSUME TypeInv, AmountsInv, FloatingInv, OffsetsInv, [Next]_vars
             PROVE  FloatingInv' /\ OffsetsInv'
  OBVIOUS
<1>1. CASE BeginBlock(height + 1) \/ FlushStatus \/ Fail
  <2>1. /\ floating' = <<>> /\ flotsam' = <<>> /\ output_inscription_cache' = EmptyDB
        /\ UNCHANGED output_inscription
        /\ pc' \in {"inputs", "idle", "failed"}
    BY <1>1 DEF BeginBlock, FlushStatus, Fail, DropUpdater, EnterTx, storeVars
  <2> QED  BY <2>1, NoneFloats DEF FloatingInv, OffsetsInv, ListsNonNegative, EmptyDB
<1>2. CASE ScanNullInput \/ WriteOutputValue \/ FlushIdInscription \/ FlushInscriptionOutput
           \/ UNCHANGED vars
  <2>1. /\ UNCHANGED <<chain, height, tx_index, floating, flotsam, placed_value,
                       output_inscription, output_inscription_cache>>
        /\ pc' \in {"outputs", "settle"} => pc \in {"outputs", "settle"}
        /\ pc' = "inputs" => pc = "inputs"
    BY <1>2
    DEF ScanNullInput, WriteOutputValue, FlushIdInscription, FlushInscriptionOutput, vars, storeVars,
        batchVars, blockVars, txVars
  <2>2. Tx' = Tx
    BY <2>1 DEF Tx
  <2> QED  BY <2>1, <2>2 DEF FloatingInv, OffsetsInv
<1>3. CASE ScanInput  BY <1>3, ScanFloats
<1>4. CASE SortFloating
  BY <1>4, SortFloats DEF SortFloating, storeVars, batchVars, OffsetsInv
<1>5. CASE NextOutput
  BY <1>5, NextOutputFloats DEF NextOutput, storeVars, batchVars, OffsetsInv
<1>6. CASE PlaceOnOutput \/ LoseFloating  BY <1>6, PlaceFloats
<1>7. CASE SettleFees \/ SettleCoinbase
  BY <1>7, SettleFloats DEF SettleFees, SettleCoinbase, storeVars, batchVars, OffsetsInv
<1>8. CASE FlushOutputInscription
  <2>1. /\ UNCHANGED <<floating, flotsam, placed_value>> /\ pc' = "flush_status"
    BY <1>8 DEF FlushOutputInscription, blockVars, txVars
  <2> QED  BY <1>8, <2>1, FlushOffsets DEF FloatingInv
<1> QED
  BY <1>1, <1>2, <1>3, <1>4, <1>5, <1>6, <1>7, <1>8 DEF Next, IndexStep

-----------------------------------------------------------------------------
\* The subtractions on u64 never go below zero, and neither do the offsets, for
\* every set of chains that create no value beyond the subsidy.
THEOREM NeverUnderflows == Spec => []NoUnderflow
<1> DEFINE Inv == TypeInv /\ AmountsInv /\ FloatingInv /\ OffsetsInv
<1>1. Init => Inv
  BY InitType, AmountsInit, OffsetsInit
<1>2. Inv /\ [Next]_vars => Inv'
  BY NextType, AmountsNext, OffsetsNext
<1>3. Inv => NoUnderflow
  <2>1. SUFFICES ASSUME Inv PROVE NoUnderflow
    OBVIOUS
  <2>2. \A o \in DOMAIN Held : \A k \in DOMAIN Held[o] : Held[o][k][2] >= 0
    <3>1. \A o \in DOMAIN Held : NonNegative(Held[o])
      BY <2>1 DEF OffsetsInv, ListsNonNegative, Held, Write
    <3> QED  BY <3>1 DEF NonNegative, Items
  <2>3. pc = "settle" => placed_value <= IF IsCoinbase(Tx) THEN reward ELSE input_value
    BY <2>1, SettleCovered
  <2> QED  BY <2>1, <2>2, <2>3 DEF NoUnderflow, FloatingInv, Floats
<1> QED  BY <1>1, <1>2, <1>3, PTL DEF Spec

-----------------------------------------------------------------------------
\* A blessed inscription, on record or about to get a number and a sat.
Blessed(id) == id \notin DOMAIN cursed_id
OnSat(f) == IF f.kind = "old" THEN Blessed(f.id) ELSE ~f.cursed /\ ~f.unbound

\* The blessed of a list have a sat each, below a bound.
SatsDistinct(s) ==
    \A j, k \in DOMAIN s : OnSat(s[j]) /\ OnSat(s[k]) /\ s[j].offset = s[k].offset => j = k
SatsBelow(s, bound) == \A k \in DOMAIN s : OnSat(s[k]) => s[k].offset < bound

\* The entries of a location.
At(o) == Items(ListAt(Held, o))

\* The outputs that no step has reached.
NotYet(o) ==
    \/ \E tx \in Transactions(chain) : Ahead(tx) /\ o[1] = tx.txid
    \/ pc = "inputs" /\ o[1] = Tx.txid
    \/ pc = "outputs" /\ o[1] = Tx.txid /\ o[2] >= vout

\* The lost sats and the keys for unbound inscriptions handed out so far; the
\* coinbase loses what its outputs leave of the reward.
LostSoFar ==
    IF pc = "idle" THEN status.lost_sats
    ELSE IF pc = "settle" /\ IsCoinbase(Tx) THEN lost_sats + reward - placed_value ELSE lost_sats
UnboundSoFar == IF pc = "idle" THEN status.unbound_inscriptions ELSE unbound_inscriptions

\* The sats that float are apart, and among those the transaction, or the
\* block so far, has spent.
SatsInv ==
    /\ SatsDistinct(floating) /\ SatsDistinct(flotsam)
    /\ InTx => SatsBelow(flotsam, reward)
    /\ pc = "inputs" => SatsBelow(floating, input_value)
    /\ pc \in {"outputs", "settle"} =>
          SatsBelow(floating, IF IsCoinbase(Tx) THEN reward ELSE input_value)

\* An entry is at a location that was reached and within its value; no two
\* blessed ones are at the same offset.
EntryInv(o, e) ==
    /\ ~NotYet(o)
    /\ o \in OutPoint /\ ~IsNull(o) => o \in DOMAIN chain.value /\ e[2] < chain.value[o]
    /\ IsNull(o) /\ Blessed(e[1]) => e[2] < LostSoFar
    /\ Len(o) = 3 => o[3] < UnboundSoFar
    /\ \A g \in At(o) : Blessed(e[1]) /\ Blessed(g[1]) /\ e[2] = g[2] => e = g
EntriesInv == \A o \in DOMAIN Held : \A e \in At(o) : EntryInv(o, e)

\* What floats is not on a sat of the output, or of the lost sats, on which
\* another was placed already.
Fresh(o, start) ==
    \A e \in At(o) : \A k \in DOMAIN floating :
        Blessed(e[1]) /\ OnSat(floating[k]) => e[2] + start # floating[k].offset
FreshInv ==
    /\ pc = "outputs" /\ OutputsLeft => Fresh(<<Tx.txid, vout - 1>>, placed_value)
    /\ pc = "settle" /\ IsCoinbase(Tx) => Fresh(NullOutPoint, placed_value - lost_sats)

SharedInv == SatsInv /\ EntriesInv /\ FreshInv
BlessedInv ==
    /\ PlacesInv /\ AmountsInv /\ FloatingInv /\ OffsetsInv
    /\ Working => SharedInv

-----------------------------------------------------------------------------
\* Sats of lists of floating inscriptions.
LEMMA SatsSorted ==
    ASSUME NEW s \in Seq(Flotsam), NEW sorted \in StablySorted(s), SatsDistinct(s)
    PROVE  SatsDistinct(sorted) /\ \A bound : SatsBelow(s, bound) => SatsBelow(sorted, bound)
<1>1. PICK order \in [DOMAIN s -> DOMAIN s] :
         SortedBy(s, order) /\ sorted = [i \in DOMAIN s |-> s[order[i]]]
  BY DEF StablySorted
<1>2. \A i, j \in DOMAIN s : order[i] = order[j] => i = j
  BY <1>1, SortedInjective
<1>3. DOMAIN sorted = DOMAIN s /\ \A i \in DOMAIN s : order[i] \in DOMAIN s /\ sorted[i] = s[order[i]]
  BY <1>1
<1> QED  BY <1>2, <1>3 DEF SatsDistinct, SatsBelow

LEMMA SatsTail ==
    ASSUME NEW s \in Seq(Flotsam), s # <<>>, SatsDistinct(s)
    PROVE  /\ SatsDistinct(Tail(s))
           /\ \A bound : SatsBelow(s, bound) =>
                 SatsBelow(Tail(s), bound) /\ (OnSat(Head(s)) => Head(s).offset < bound)
           /\ OnSat(Head(s)) =>
                 \A k \in DOMAIN Tail(s) : OnSat(Tail(s)[k]) => Tail(s)[k].offset # Head(s).offset
           /\ \A k \in DOMAIN Tail(s) : \E j \in DOMAIN s : Tail(s)[k] = s[j]
<1>1. DOMAIN s = 1 .. Len(s) /\ Len(s) \in Nat /\ Len(s) # 0 /\ Head(s) = s[1]
  OBVIOUS
<1>2. DOMAIN Tail(s) = 1 .. Len(s) - 1 /\ \A k \in 1 .. Len(s) - 1 : Tail(s)[k] = s[k + 1]
  BY <1>1
<1>3. \A k \in DOMAIN Tail(s) : k \in Nat /\ k # 0 /\ k + 1 \in DOMAIN s /\ Tail(s)[k] = s[k + 1]
  BY <1>1, <1>2
<1>4. 1 \in DOMAIN s /\ \A j, k \in Nat : j + 1 = k + 1 => j = k
  BY <1>1
<1>5. \A k \in DOMAIN Tail(s) : k + 1 # 1
  BY <1>3
<1> HIDE <1>1, <1>2
<1>6. Head(s) = s[1]  BY <1>1
<1>7. SatsDistinct(Tail(s))
  BY <1>3, <1>4 DEF SatsDistinct
<1>8. \A bound : SatsBelow(s, bound) =>
         SatsBelow(Tail(s), bound) /\ (OnSat(Head(s)) => Head(s).offset < bound)
  BY <1>3, <1>4, <1>6 DEF SatsBelow
<1>9. ASSUME OnSat(Head(s)), NEW k \in DOMAIN Tail(s), OnSat(Tail(s)[k]), Tail(s)[k].offset = Head(s).offset
      PROVE  FALSE
  BY <1>3, <1>4, <1>5, <1>6, <1>9 DEF SatsDistinct
<1>10. \A k \in DOMAIN Tail(s) : \E j \in DOMAIN s : Tail(s)[k] = s[j]
  BY <1>3
<1> QED  BY <1>7, <1>8, <1>9, <1>10

\* Two lists that share no sat.
LEMMA SatsConcat ==
    ASSUME NEW s \in Seq(Flotsam), NEW t \in Seq(Flotsam), SatsDistinct(s), SatsDistinct(t),
           \A j \in DOMAIN s, k \in DOMAIN t :
              OnSat(s[j]) /\ OnSat(t[k]) => s[j].offset # t[k].offset
    PROVE  /\ SatsDistinct(s \o t)
           /\ \A n : SatsBelow(s, n) /\ SatsBelow(t, n) => SatsBelow(s \o t, n)
<1> DEFINE both == s \o t
<1>1. Len(s) \in Nat /\ Len(t) \in Nat /\ DOMAIN s = 1 .. Len(s) /\ DOMAIN t = 1 .. Len(t)
  OBVIOUS
<1>2. DOMAIN both = 1 .. Len(s) + Len(t)
      /\ \A k \in 1 .. Len(s) + Len(t) : both[k] = IF k <= Len(s) THEN s[k] ELSE t[k - Len(s)]
  BY <1>1
<1>3. ASSUME NEW k \in DOMAIN both
      PROVE  k \in Int /\ \/ k \in DOMAIN s /\ both[k] = s[k]
                          \/ k - Len(s) \in DOMAIN t /\ both[k] = t[k - Len(s)]
  BY <1>1, <1>2
<1> HIDE DEF both
<1>4. \A n : SatsBelow(s, n) /\ SatsBelow(t, n) => SatsBelow(both, n)
  BY <1>3 DEF SatsBelow
<1>5. ASSUME NEW j \in DOMAIN both, NEW k \in DOMAIN both, OnSat(both[j]), OnSat(both[k]),
             both[j].offset = both[k].offset
      PROVE  j = k
  <2>1. CASE j \in DOMAIN s /\ both[j] = s[j] /\ k \in DOMAIN s /\ both[k] = s[k]
    BY <1>5, <2>1 DEF SatsDistinct
  <2>2. CASE /\ j - Len(s) \in DOMAIN t /\ both[j] = t[j - Len(s)]
             /\ k - Len(s) \in DOMAIN t /\ both[k] = t[k - Len(s)]
    <3>1. j - Len(s) = k - Len(s)
      BY <1>5, <2>2 DEF SatsDistinct
    <3> QED  BY <1>1, <1>3, <3>1
  <2> QED  BY <1>3, <1>5, <2>1, <2>2
<1> QED  BY <1>4, <1>5 DEF both, SatsDistinct

LEMMA NoSats == SatsDistinct(<<>>) /\ \A bound : SatsBelow(<<>>, bound)
BY DEF SatsDistinct, SatsBelow

-----------------------------------------------------------------------------
\* What is not reached yet gets less.
LEMMA NotYetWithinTx ==
    ASSUME UNCHANGED <<chain, height, tx_index>>, pc # "idle",
           pc' = "inputs" => pc = "inputs",
           pc' = "outputs" => pc = "inputs" \/ (pc = "outputs" /\ vout' \in {vout, vout + 1}),
           TypeInv, NEW o \in Location, NotYet(o)'
    PROVE  NotYet(o)
<1>1. Tx' = Tx /\ \A tx : Ahead(tx)' => Ahead(tx)
  BY DEF Tx, Ahead, InLaterBlock, LaterInBlock
<1>2. CASE \E tx \in Transactions(chain) : Ahead(tx)' /\ o[1] = tx.txid
  BY <1>1, <1>2 DEF NotYet
<1>3. CASE pc' = "inputs" /\ o[1] = Tx.txid
  BY <1>1, <1>3 DEF NotYet
<1>4. CASE pc' = "outputs" /\ o[1] = Tx.txid /\ o[2] >= vout'
  <2>1. CASE pc = "inputs"
    BY <1>4, <2>1 DEF NotYet
  <2>2. CASE pc = "outputs" /\ vout' \in {vout, vout + 1}
    <3>1. o[2] \in Nat /\ vout \in Nat
      BY DEF Location, OutPoint, TypeInv, TypeOK
    <3>2. o[2] >= vout
      BY <1>4, <2>2, <3>1
    <3> QED  BY <1>4, <2>2, <3>2 DEF NotYet
  <2> QED  BY <1>4, <2>1, <2>2
<1> QED  BY <1>1, <1>2, <1>3, <1>4 DEF NotYet

LEMMA NotYetNextTx ==
    ASSUME TypeInv, pc = "settle", FinishTx, UNCHANGED <<chain, height>>, NEW o, NotYet(o)'
    PROVE  NotYet(o)
<1> DEFINE b == chain.blocks[height]
           n == Len(b)
<1>1. /\ tx_index' = tx_index + 1 /\ pc' # "idle" /\ pc' # "outputs"
      /\ pc' = "inputs" => tx_index < n
  BY DEF FinishTx, EnterTx
<1>2. height \in DOMAIN chain.blocks /\ tx_index \in 1 .. n /\ n \in Nat /\ chain \in Chains
  BY TxFacts, WalkPosition DEF TypeInv
<1>3. \A tx : Ahead(tx)' => Ahead(tx)
  <2>1. tx_index' + 1 .. n \subseteq tx_index + 1 .. n
    BY <1>1, <1>2
  <2> QED  BY <1>1, <2>1 DEF Ahead, InLaterBlock, LaterInBlock
<1>4. CASE \E tx \in Transactions(chain) : Ahead(tx)' /\ o[1] = tx.txid
  BY <1>3, <1>4 DEF NotYet
<1>5. CASE pc' = "inputs" /\ o[1] = Tx'.txid
  <2>1. Tx' = TxInOrder(b, tx_index + 1)
    BY <1>1 DEF Tx
  <2>2. tx_index + 1 \in 1 .. n /\ tx_index + 1 \in tx_index + 1 .. n
    BY <1>1, <1>2, <1>5
  <2>3. Tx' \in Transactions(chain) /\ Ahead(Tx')
    BY <1>2, <2>1, <2>2, TxInOrderType DEF Ahead, LaterInBlock
  <2> QED  BY <1>5, <2>3 DEF NotYet
<1> QED  BY <1>1, <1>4, <1>5 DEF NotYet

LEMMA NotYetNextBlock ==
    ASSUME TypeInv, BeginBlock(height + 1), NEW o, NotYet(o)'
    PROVE  NotYet(o)
<1> DEFINE h == height + 1
           b == chain.blocks[h]
           n == Len(b)
<1>1. /\ height' = h /\ h \in DOMAIN chain.blocks /\ tx_index' = 1 /\ pc' = "inputs" /\ chain' = chain
      /\ chain \in Chains /\ height \in Nat
  BY DEF BeginBlock, Served, EnterTx, TypeInv, TypeOK
<1>2. n \in Nat \ {0} /\ DOMAIN b = 1 .. n
  BY <1>1, WalkPosition
<1>3. ASSUME NEW j \in 1 .. n PROVE InLaterBlock(TxInOrder(b, j))
  <2>1. \E i \in DOMAIN b : TxInOrder(b, j) = b[i]
    <3>1. TxInOrder(b, j) = b[IF j < n THEN j + 1 ELSE 1]
      BY <1>1, WalkPosition
    <3>2. (IF j < n THEN j + 1 ELSE 1) \in DOMAIN b
      BY <1>2
    <3> QED  BY <3>1, <3>2
  <2>2. h > height  BY <1>1
  <2> QED  BY <1>1, <2>1, <2>2 DEF InLaterBlock
<1>4. ASSUME NEW tx, Ahead(tx)' PROVE Ahead(tx)
  <2>1. CASE InLaterBlock(tx)'
    <3>1. PICK g \in DOMAIN chain.blocks : g > h /\ \E i \in DOMAIN chain.blocks[g] : tx = chain.blocks[g][i]
      BY <1>1, <2>1 DEF InLaterBlock
    <3>2. g > height
      <4>1. g \in Nat
        BY <1>1, ChainFacts
      <4> QED  BY <1>1, <3>1, <4>1
    <3> QED  BY <3>1, <3>2 DEF Ahead, InLaterBlock
  <2>2. CASE LaterInBlock(tx)'
    <3>1. PICK j \in 2 .. n : tx = TxInOrder(b, j)
      BY <1>1, <2>2 DEF LaterInBlock
    <3>2. j \in 1 .. n
      BY <1>2, <3>1
    <3> QED  BY <1>3, <3>1, <3>2 DEF Ahead
  <2> QED  BY <1>4, <2>1, <2>2 DEF Ahead
<1>5. Tx' \in Transactions(chain) /\ Ahead(Tx')
  <2>1. 1 \in 1 .. n /\ Tx' = TxInOrder(b, 1)
    BY <1>1, <1>2 DEF Tx
  <2> QED  BY <1>1, <1>3, <2>1, TxInOrderType DEF Ahead
<1> QED  BY <1>1, <1>4, <1>5 DEF NotYet

LEMMA AtHeld == \A o : \A e \in At(o) : o \in DOMAIN Held /\ e \in Items(Held[o])
<1>1. Items(<<>>) = {}
  BY DEF Items
<1>2. \A o : At(o) = IF o \in DOMAIN Held THEN Items(Held[o]) ELSE {}
  BY <1>1 DEF At, ListAt
<1> QED  BY <1>2

\* Steps that place nothing keep what is known of the entries.
LEMMA KeepEntries ==
    ASSUME TypeInv, TypeInv', EntriesInv, UNCHANGED chain,
           \A o : At(o)' \subseteq At(o),
           \A id : Blessed(id)' => Blessed(id),
           \A o \in Location : NotYet(o)' => NotYet(o),
           LostSoFar \in Int, LostSoFar' \in Int, LostSoFar <= LostSoFar',
           UnboundSoFar <= UnboundSoFar'
    PROVE  EntriesInv'
<1>1. SUFFICES ASSUME NEW o \in DOMAIN Held', NEW e \in At(o)' PROVE EntryInv(o, e)'
  BY DEF EntriesInv
<1>2. e \in At(o) /\ o \in DOMAIN Held
  BY <1>1, AtHeld
<1>3. EntryInv(o, e)
  BY <1>2 DEF EntriesInv
<1>4. IsStore(Held, Location, Seq(Entry))
  BY WriteIsStore DEF Held, TypeInv, TypeOK
<1>5. o \in Location /\ e \in Entry
  <2>1. Held[o] \in Seq(Entry) /\ o \in Location  BY <1>2, <1>4 DEF IsStore
  <2>2. e \in Items(Held[o])  BY <1>2, AtHeld
  <2> QED  BY <2>1, <2>2 DEF Items
<1>6. UnboundSoFar \in Nat /\ UnboundSoFar' \in Nat
  BY DEF UnboundSoFar, TypeInv, TypeOK
<1>7. e[2] \in Int /\ (Len(o) = 3 => o[3] \in Nat)
  <2>1. \A p \in OutPoint : Len(p) = 2
    BY DEF OutPoint
  <2>2. \A p \in Nat \X Nat \X Nat : p[3] \in Nat
    OBVIOUS
  <2> QED  BY <1>5, <2>1, <2>2 DEF Location, Entry
<1>8. ~NotYet(o)'
  BY <1>3, <1>5 DEF EntryInv
<1>9. o \in OutPoint /\ ~IsNull(o) => o \in DOMAIN chain'.value /\ e[2] < chain'.value[o]
  BY <1>3 DEF EntryInv
<1>10. IsNull(o) /\ Blessed(e[1])' => e[2] < LostSoFar'
  BY <1>3, <1>7 DEF EntryInv
<1>11. Len(o) = 3 => o[3] < UnboundSoFar'
  BY <1>3, <1>6, <1>7 DEF EntryInv
<1>12. ASSUME NEW g \in At(o)', Blessed(e[1])', Blessed(g[1])', e[2] = g[2] PROVE e = g
  BY <1>3, <1>12 DEF EntryInv
<1> QED  BY <1>8, <1>9, <1>10, <1>11, <1>12 DEF EntryInv

-----------------------------------------------------------------------------
\* A list with one entry more, and one with an entry less.
LEMMA JoinedItems ==
    ASSUME NEW lists, IsStore(lists, Location, Seq(Entry)), NEW o, NEW e \in Entry
    PROVE  LET more == Put(lists, o, Append(ListAt(lists, o), e))
           IN  \A p : Items(ListAt(more, p))
                         = Items(ListAt(lists, p)) \cup (IF p = o THEN {e} ELSE {})
<1> DEFINE longer == Append(ListAt(lists, o), e)
           more == Put(lists, o, longer)
<1>1. ListAt(lists, o) \in Seq(Entry)
  BY DEF IsStore, ListAt
<1>2. Items(longer) = Items(ListAt(lists, o)) \cup {e}
  BY <1>1, AppendedList
<1> HIDE DEF longer
<1>3. \A p : ListAt(more, p) = IF p = o THEN longer ELSE ListAt(lists, p)
  BY DEF ListAt, Put
<1> HIDE DEF more
<1>4. \A p : Items(ListAt(more, p)) = Items(ListAt(lists, p)) \cup (IF p = o THEN {e} ELSE {})
  <2>1. TAKE p
  <2>2. CASE p = o  BY <1>2, <1>3, <2>2
  <2>3. CASE p # o  BY <1>3, <2>3
  <2> QED  BY <2>2, <2>3
<1> QED  BY <1>4 DEF more, longer

LEMMA LeftItems ==
    ASSUME NEW lists, IsStore(lists, Location, Seq(Entry)), NEW o \in Location, NEW x,
           NEW rest \in Replaced(ListAt(lists, o), x)
    PROVE  /\ IsStore(Put(lists, o, rest), Location, Seq(Entry))
           /\ \A p : Items(ListAt(Put(lists, o, rest), p)) \subseteq Items(ListAt(lists, p))
<1>1. ListAt(lists, o) \in Seq(Entry)
  BY DEF IsStore, ListAt
<1>2. rest \in Seq(Entry) /\ Items(rest) \subseteq Items(ListAt(lists, o))
  BY <1>1, ReplacedSeq, ReplacedList
<1>3. \A p : ListAt(Put(lists, o, rest), p) = IF p = o THEN rest ELSE ListAt(lists, p)
  BY DEF ListAt, Put
<1>4. \A p : Items(ListAt(Put(lists, o, rest), p)) \subseteq Items(ListAt(lists, p))
  BY <1>2, <1>3
<1> QED  BY <1>2, <1>4, PutIsStore

\* One entry comes, at the output or at a key of its own; a blessed one at the
\* output comes from a sat of its own.
Joins(f, location, output, offset) ==
    /\ \A o : At(o)' \subseteq At(o) \cup (IF o = location THEN {<<f.id, offset>>} ELSE {})
    /\ \A id : Blessed(id)' => Blessed(id)
    /\ \/ location = output /\ UNCHANGED unbound_inscriptions /\ (Blessed(f.id)' => OnSat(f))
       \/ location = Unbound(unbound_inscriptions) /\ unbound_inscriptions' = unbound_inscriptions + 1

LEMMA PlacedEntry ==
    ASSUME TypeInv, pc \in {"outputs", "settle"}, floating # <<>>,
           NEW output \in OutPoint, NEW offset \in Int, UpdateInscriptionState(output, offset)
    PROVE  /\ Head(floating) \in Flotsam /\ <<Head(floating).id, offset>> \in Entry
           /\ \E location \in Location : Joins(Head(floating), location, output, offset)
<1>1. PICK f : f = Head(floating)
  OBVIOUS
<1>2. f \in Flotsam
  BY <1>1, HeadTail DEF TypeInv, TypeOK
<1>3. <<f.id, offset>> \in Entry
  BY <1>2 DEF Flotsam, OldFlotsam, NewFlotsam, Entry
<1>4. IsStore(Held, Location, Seq(Entry)) /\ UNCHANGED output_inscription
  BY WriteIsStore DEF Held, TypeInv, TypeOK, UpdateInscriptionState
<1>5. output \in Location
  BY DEF Location
<1>6. CASE MoveInscription(f, output, offset)
  <2>1. f.kind = "old" /\ f.old_output \in OutPoint /\ UNCHANGED <<cursed_id, unbound_inscriptions>>
    BY <1>2, <1>6 DEF MoveInscription, Flotsam, OldFlotsam, NewFlotsam, counterVars
  <2>2. PICK rest \in Replaced(ListAt(Held, f.old_output), <<f.id, f.old_offset>>) :
           LET left == Put(Held, f.old_output, rest)
           IN  Held' = Put(left, output, Append(ListAt(left, output), <<f.id, offset>>))
    BY <1>4, <1>6, MoveHeld
  <2>3. PICK left : left = Put(Held, f.old_output, rest)
    OBVIOUS
  <2>4. f.old_output \in Location
    BY <2>1 DEF Location
  <2>5. /\ IsStore(left, Location, Seq(Entry))
        /\ \A p : Items(ListAt(left, p)) \subseteq Items(ListAt(Held, p))
    BY <1>4, <2>3, <2>4, LeftItems
  <2>6. Held' = Put(left, output, Append(ListAt(left, output), <<f.id, offset>>))
    BY <2>2, <2>3
  <2>7. \A p : At(p)' = Items(ListAt(left, p)) \cup (IF p = output THEN {<<f.id, offset>>} ELSE {})
    BY <1>3, <2>5, <2>6, JoinedItems DEF At
  <2>8. \A p : At(p)' \subseteq At(p) \cup (IF p = output THEN {<<f.id, offset>>} ELSE {})
    BY <2>5, <2>7 DEF At
  <2>9. \A id : Blessed(id)' = Blessed(id)
    BY <2>1 DEF Blessed
  <2>10. Blessed(f.id)' => OnSat(f)
    BY <2>1, <2>9 DEF OnSat
  <2>11. Joins(f, output, output, offset)
    BY <2>1, <2>8, <2>9, <2>10 DEF Joins
  <2> QED  BY <1>1, <1>2, <1>3, <1>5, <2>11
<1>7. CASE AddInscription(f, output, offset)
  <2>1. PICK location : location = IF f.unbound THEN Unbound(unbound_inscriptions) ELSE output
    OBVIOUS
  <2>2. Held' = Put(Held, location, Append(ListAt(Held, location), <<f.id, offset>>))
    BY <1>4, <1>7, <2>1, AddHeld
  <2>3. \A p : At(p)' = At(p) \cup (IF p = location THEN {<<f.id, offset>>} ELSE {})
    BY <1>3, <1>4, <2>2, JoinedItems DEF At
  <2>4. /\ f.kind = "new" /\ f.cursed \in BOOLEAN /\ f.unbound \in BOOLEAN
        /\ unbound_inscriptions \in Nat
        /\ unbound_inscriptions' = unbound_inscriptions + (IF f.unbound THEN 1 ELSE 0)
        /\ cursed_id' = IF f.cursed THEN Put(cursed_id, f.id, next_cursed_number) ELSE cursed_id
    BY <1>2, <1>7 DEF AddInscription, Marked, Flotsam, OldFlotsam, NewFlotsam, TypeInv, TypeOK
  <2>5. /\ \A id : Blessed(id)' => Blessed(id)
        /\ Blessed(f.id)' => ~f.cursed
    BY <2>4 DEF Blessed, Put
  <2>6. CASE f.unbound
    <3>1. location = Unbound(unbound_inscriptions) /\ unbound_inscriptions' = unbound_inscriptions + 1
      BY <2>1, <2>4, <2>6
    <3>2. location \in Location
      BY <2>4, <3>1 DEF Unbound, Location, NullHash
    <3> QED  BY <1>1, <1>2, <1>3, <2>3, <2>5, <3>1, <3>2 DEF Joins
  <2>7. CASE ~f.unbound
    <3>1. location = output /\ unbound_inscriptions' = unbound_inscriptions
      BY <2>1, <2>4, <2>7
    <3>2. Blessed(f.id)' => OnSat(f)
      BY <2>4, <2>5, <2>7 DEF OnSat
    <3>3. \A o : At(o)' \subseteq At(o) \cup (IF o = output THEN {<<f.id, offset>>} ELSE {})
      BY <2>3, <3>1
    <3>4. Joins(f, output, output, offset)
      BY <2>5, <3>1, <3>2, <3>3 DEF Joins
    <3> QED  BY <1>1, <1>2, <1>3, <1>5, <3>4
  <2> QED  BY <2>6, <2>7
<1> QED  BY <1>1, <1>6, <1>7 DEF UpdateInscriptionState

\* What is not a transaction's output is reached from the start.
LEMMA NullNotYet == ASSUME TypeInv, NEW o, o[1] = NullHash PROVE ~NotYet(o)
<1>1. ASSUME NEW tx \in Transactions(chain) PROVE tx.txid # NullHash
  <2>1. PICK h \in DOMAIN chain.blocks : tx \in {chain.blocks[h][i] : i \in DOMAIN chain.blocks[h]}
    BY DEF Transactions
  <2>2. PICK i \in DOMAIN chain.blocks[h] : tx = chain.blocks[h][i]
    BY <2>1
  <2>3. chain.blocks[h] \in Seq(Transaction)
    BY ChainFacts DEF TypeInv, Block
  <2>4. tx \in Transaction
    BY <2>2, <2>3, SeqElement
  <2> QED  BY <2>4 DEF Transaction
<1>2. pc \in {"inputs", "outputs"} => Tx.txid # NullHash
  BY TxFacts DEF Transaction
<1> QED  BY <1>1, <1>2 DEF NotYet

LEMMA LocationKinds ==
    /\ \A n : Len(Unbound(n)) = 3 /\ Unbound(n)[1] = NullHash /\ Unbound(n)[3] = n
    /\ \A n : Unbound(n) \notin OutPoint /\ ~IsNull(Unbound(n))
    /\ \A o \in OutPoint : Len(o) = 2
<1>1. \A o \in OutPoint : Len(o) = 2
  BY DEF OutPoint
<1>2. \A n : Len(Unbound(n)) = 3 /\ Unbound(n)[1] = NullHash /\ Unbound(n)[3] = n
  BY DEF Unbound
<1>3. Len(NullOutPoint) = 2
  BY DEF NullOutPoint
<1> QED  BY <1>1, <1>2, <1>3 DEF IsNull

\* An entry joins the output: within its value, and on a sat of its own.
LEMMA JoinEntries ==
    ASSUME TypeInv, TypeInv', EntriesInv, pc \in {"outputs", "settle"},
           UNCHANGED <<chain, height, tx_index, pc, vout, lost_sats, reward, placed_value>>,
           NEW f, NEW location \in Location, NEW output \in OutPoint, NEW offset \in Int,
           <<f.id, offset>> \in Entry, Joins(f, location, output, offset),
           ~NotYet(output),
           ~IsNull(output) => output \in DOMAIN chain.value /\ offset < chain.value[output],
           IsNull(output) /\ OnSat(f) => offset < LostSoFar,
           \A g \in At(output) : Blessed(g[1]) /\ OnSat(f) => g[2] # offset
    PROVE  EntriesInv'
<1>1. SUFFICES ASSUME NEW o \in DOMAIN Held', NEW e \in At(o)' PROVE EntryInv(o, e)'
  BY DEF EntriesInv
<1>2. PICK new : new = <<f.id, offset>>
  OBVIOUS
<1>3. /\ new[1] = f.id /\ new[2] = offset
      /\ \A x \in At(o)' : x \in At(o) \/ (x = new /\ o = location)
      /\ \A id : Blessed(id)' => Blessed(id)
  BY <1>2 DEF Joins
<1>4. /\ \A x \in At(o) : EntryInv(o, x)
  BY AtHeld DEF EntriesInv
<1>5. o \in Location
  <2>1. IsStore(Held', Location, Seq(Entry))
    BY WriteIsStore DEF Held, TypeInv, TypeOK
  <2> QED  BY <1>1, <2>1 DEF IsStore
<1>6. ~NotYet(o) => ~NotYet(o)'
  BY <1>5, NotYetWithinTx
<1>7. LostSoFar' = LostSoFar
  BY DEF LostSoFar, Tx
<1>8. /\ UnboundSoFar = unbound_inscriptions /\ UnboundSoFar' = unbound_inscriptions'
      /\ unbound_inscriptions \in Nat /\ unbound_inscriptions' \in Nat
      /\ unbound_inscriptions' \in {unbound_inscriptions, unbound_inscriptions + 1}
  BY DEF UnboundSoFar, Joins, TypeInv, TypeOK
<1>9. CASE o = location /\ location = Unbound(unbound_inscriptions)
  <2>1. unbound_inscriptions' = unbound_inscriptions + 1
    BY <1>9, LocationKinds DEF Joins
  <2>2. ~(unbound_inscriptions < UnboundSoFar) /\ unbound_inscriptions < UnboundSoFar'
    BY <1>8, <2>1
  <2>3. At(o) = {}
    BY <1>4, <1>9, <2>2, LocationKinds DEF EntryInv
  <2>4. \A x \in At(o)' : x = new
    BY <1>3, <2>3
  <2>5. ~NotYet(o)'
    BY <1>6, <1>9, NullNotYet, LocationKinds
  <2> QED  BY <1>1, <1>9, <2>2, <2>4, <2>5, LocationKinds DEF EntryInv
<1>10. CASE ~(o = location /\ location = Unbound(unbound_inscriptions))
  <2>1. o = location => o = output /\ (Blessed(f.id)' => OnSat(f))
    BY <1>10 DEF Joins
  <2>2. \A x \in At(o)' : x \in At(o) \/ (x = new /\ o = output)
    BY <1>3, <2>1
  <2>3. ~NotYet(o)'
    BY <1>4, <1>6, <2>2 DEF EntryInv
  <2>4. o \in OutPoint /\ ~IsNull(o) => o \in DOMAIN chain.value /\ e[2] < chain.value[o]
    BY <1>3, <1>4, <2>2 DEF EntryInv
  <2>5. IsNull(o) /\ Blessed(e[1])' => e[2] < LostSoFar'
    BY <1>3, <1>4, <1>7, <2>1 DEF EntryInv
  <2>6. Len(o) = 3 => o[3] < UnboundSoFar'
    <3>1. Len(o) = 3 => e \in At(o) /\ o[3] \in Nat
      <4>1. \A p \in Nat \X Nat \X Nat : p[3] \in Nat  OBVIOUS
      <4> QED  BY <1>5, <2>2, <4>1, LocationKinds DEF Location
    <3>2. Len(o) = 3 => o[3] < UnboundSoFar
      BY <1>4, <3>1 DEF EntryInv
    <3> QED  BY <1>8, <3>1, <3>2
  <2>7. ASSUME NEW g \in At(o)', Blessed(e[1])', Blessed(g[1])', e[2] = g[2] PROVE e = g
    <3>1. Blessed(e[1]) /\ Blessed(g[1])
      BY <1>3, <2>7
    <3>2. CASE e \in At(o) /\ g \in At(o)
      BY <1>4, <2>7, <3>1, <3>2 DEF EntryInv
    <3>3. CASE e = new /\ o = location /\ g \in At(o)
      BY <1>3, <2>1, <2>7, <3>1, <3>3
    <3>4. CASE g = new /\ o = location /\ e \in At(o)
      BY <1>3, <2>1, <2>7, <3>1, <3>4
    <3> QED  BY <1>3, <2>7, <3>2, <3>3, <3>4
  <2> QED  BY <2>3, <2>4, <2>5, <2>6, <2>7 DEF EntryInv
<1> QED  BY <1>9, <1>10

\* The lists of what floats say the same when more is cursed.
LEMMA StillSats ==
    ASSUME \A id : Blessed(id)' => Blessed(id), NEW s, SatsDistinct(s)
    PROVE  /\ SatsDistinct(s)'
           /\ \A bound : SatsBelow(s, bound) => SatsBelow(s, bound)'
           /\ \A f : OnSat(f)' => OnSat(f)
<1>1. \A f : OnSat(f)' => OnSat(f)
  BY DEF OnSat
<1> QED  BY <1>1 DEF SatsDistinct, SatsBelow

LEMMA JoinSats ==
    ASSUME TypeInv, SatsInv, pc \in {"outputs", "settle"}, floating # <<>>, floating' = Tail(floating),
           UNCHANGED <<chain, height, tx_index, pc, flotsam, reward, input_value>>,
           \A id : Blessed(id)' => Blessed(id)
    PROVE  SatsInv'
<1>1. PICK s, t, b : /\ s = Tail(floating) /\ t = flotsam
                     /\ b = IF IsCoinbase(Tx) THEN reward ELSE input_value
  OBVIOUS
<1>2. floating \in Seq(Flotsam)
  BY DEF TypeInv, TypeOK
<1>3. SatsDistinct(s) /\ SatsBelow(s, b) /\ SatsDistinct(t) /\ SatsBelow(t, reward)
  BY <1>1, <1>2, SatsTail DEF SatsInv, InTx
<1>4. SatsDistinct(s)' /\ SatsDistinct(t)' /\ SatsBelow(s, b)'
  BY <1>3, StillSats
<1>5. SatsBelow(flotsam, reward)'
  BY <1>1, <1>3, StillSats DEF SatsBelow
<1>6. s' = floating' /\ t' = flotsam' /\ b' = (IF IsCoinbase(Tx) THEN reward ELSE input_value)'
  BY <1>1 DEF Tx
<1>7. SatsDistinct(floating)' /\ SatsDistinct(flotsam)'
  BY <1>4, <1>6 DEF SatsDistinct
<1>8. SatsBelow(floating, IF IsCoinbase(Tx) THEN reward ELSE input_value)'
  BY <1>4, <1>6 DEF SatsBelow
<1> QED  BY <1>5, <1>7, <1>8 DEF SatsInv

LEMMA JoinFresh ==
    ASSUME floating \in Seq(Flotsam), floating # <<>>, SatsDistinct(floating),
           floating' = Tail(floating),
           NEW output \in OutPoint, NEW location, NEW offset, NEW start, Fresh(output, start),
           Joins(Head(floating), location, output, offset), offset + start = Head(floating).offset
    PROVE  Fresh(output, start)'
<1>1. PICK f, s : f = Head(floating) /\ s = Tail(floating)
  OBVIOUS
<1>2. /\ OnSat(f) => \A k \in DOMAIN s : OnSat(s[k]) => s[k].offset # f.offset
      /\ \A k \in DOMAIN s : \E j \in DOMAIN floating : s[k] = floating[j]
  BY <1>1, SatsTail
<1>3. /\ \A id : Blessed(id)' => Blessed(id)
      /\ \A e \in At(output)' : e \in At(output) \/ (location = output /\ e = <<f.id, offset>>)
      /\ location = output => (Blessed(f.id)' => OnSat(f))
  <2>1. Joins(f, location, output, offset)
    BY <1>1
  <2>2. location = output => location # Unbound(unbound_inscriptions)
    BY LocationKinds
  <2>3. location = output => (Blessed(f.id)' => OnSat(f))
    BY <2>1, <2>2 DEF Joins
  <2> QED  BY <2>1, <2>3 DEF Joins
<1>4. \A k \in DOMAIN s : OnSat(s[k])' => OnSat(s[k])
  BY <1>3 DEF OnSat
<1>5. ASSUME NEW e \in At(output)', NEW k \in DOMAIN s, Blessed(e[1])', OnSat(s[k])
      PROVE  e[2] + start # s[k].offset
  <2>1. CASE e \in At(output)
    BY <1>2, <1>3, <1>5, <2>1 DEF Fresh
  <2>2. CASE location = output /\ e = <<f.id, offset>>
    <3>1. e[1] = f.id /\ e[2] = offset
      BY <2>2
    <3>2. OnSat(f)
      BY <1>3, <1>5, <2>2, <3>1
    <3> QED  BY <1>1, <1>2, <1>5, <3>1, <3>2
  <2> QED  BY <1>3, <2>1, <2>2
<1>6. floating' = s
  BY <1>1
<1> QED  BY <1>4, <1>5, <1>6 DEF Fresh

LEMMA PlaceShared ==
    BlessedInv /\ TypeInv' /\ PlaceOnOutput => SharedInv'
<1> SUFFICES ASSUME BlessedInv, TypeInv', PlaceOnOutput PROVE SharedInv'
  OBVIOUS
<1>1. PICK f, output, offset : /\ f = Head(floating) /\ output = <<Tx.txid, vout - 1>>
                               /\ offset = Head(floating).offset - placed_value
  OBVIOUS
<1>2. /\ pc = "outputs" /\ OutputsLeft /\ floating # <<>>
      /\ f.offset < placed_value + Tx.outputs[vout]
      /\ UpdateInscriptionState(output, offset) /\ floating' = Tail(floating)
      /\ UNCHANGED <<chain, height, tx_index, pc, vout, lost_sats, reward, placed_value, flotsam,
                     input_value>>
  BY <1>1 DEF PlaceOnOutput, WithinOutput, UpdateInscriptionState, blockVars, txVars
<1>3. /\ TypeInv /\ AmountsInv /\ SatsInv /\ EntriesInv /\ FreshInv
      /\ floating \in Seq(Flotsam) /\ placed_value \in Int
  BY <1>2 DEF BlessedInv, SharedInv, PlacesInv, NumbersInv, TypeInv, TypeOK, Working
<1>4. /\ f.offset \in Int /\ offset \in Int /\ offset = f.offset - placed_value
      /\ offset + placed_value = f.offset
  <2>1. f.offset \in Int /\ offset = f.offset - placed_value
    BY <1>1, <1>2, <1>3, HeadOffset
  <2> QED  BY <1>3, <2>1
<1>5. /\ vout \in DOMAIN Tx.outputs /\ Tx \in Transactions(chain) /\ Tx.txid \in Nat \ {NullHash}
      /\ output \in OutPoint /\ ~IsNull(output) /\ Tx.outputs[vout] \in Nat /\ vout \in Nat
  <2>1. vout \in DOMAIN Tx.outputs
    BY <1>2, <1>3, TxFacts DEF OutputsLeft, AmountsInv, PlacedInv
  <2>2. Tx.txid \in Nat \ {NullHash} /\ Tx \in Transactions(chain)
    BY <1>2, <1>3, TxConserves DEF InTx, Transaction
  <2>3. vout \in Nat /\ vout - 1 \in Nat /\ Tx.outputs[vout] \in Nat
    BY <1>2, <1>3, <2>1, TxFacts
  <2>4. output \in OutPoint
    BY <1>1, <2>2, <2>3 DEF OutPoint
  <2>5. ~IsNull(output)
    BY <1>1, <2>2 DEF IsNull, NullOutPoint
  <2> QED  BY <2>1, <2>2, <2>3, <2>4, <2>5
<1>6. PICK location \in Location : Joins(f, location, output, offset) /\ <<f.id, offset>> \in Entry
  BY <1>1, <1>2, <1>3, <1>4, <1>5, PlacedEntry
<1>7. ~NotYet(output)
  <2>1. ~(vout - 1 >= vout)  BY <1>5
  <2>2. \A tx \in Transactions(chain) : Ahead(tx) => tx.txid # Tx.txid
    BY <1>2, <1>3, AheadDiffers
  <2> QED  BY <1>1, <1>2, <2>1, <2>2 DEF NotYet
<1>8. output \in DOMAIN chain.value /\ offset < chain.value[output]
  <2>1. output \in DOMAIN chain.value /\ chain.value[output] = Tx.outputs[vout]
    BY <1>1, <1>3, <1>5, ChainAssumption DEF TypeInv, WellFormed
  <2> QED  BY <1>2, <1>3, <1>4, <1>5, <2>1
<1>9. \A g \in At(output) : Blessed(g[1]) /\ OnSat(f) => g[2] # offset
  <2>1. 1 \in DOMAIN floating /\ f = floating[1]
    BY <1>1, <1>2, <1>3, HeadTail
  <2>2. Fresh(output, placed_value)
    BY <1>1, <1>2, <1>3 DEF FreshInv
  <2> QED  BY <1>4, <2>1, <2>2 DEF Fresh
<1>10. EntriesInv'
  BY <1>2, <1>3, <1>4, <1>5, <1>6, <1>7, <1>8, <1>9, JoinEntries
<1>11. \A id : Blessed(id)' => Blessed(id)
  BY <1>6 DEF Joins
<1>12. SatsInv'
  BY <1>2, <1>3, <1>11, JoinSats
<1>13. FreshInv'
  <2>1. PICK start : start = placed_value
    OBVIOUS
  <2>2. Fresh(output, start)
    BY <1>1, <1>2, <1>3, <2>1 DEF FreshInv
  <2>3. Fresh(output, start)'
    BY <1>1, <1>2, <1>3, <1>4, <1>5, <1>6, <2>1, <2>2, JoinFresh DEF SatsInv
  <2>4. output = <<Tx.txid, vout - 1>>' /\ placed_value' = start
    BY <1>1, <1>2, <2>1 DEF Tx
  <2>5. Fresh(<<Tx.txid, vout - 1>>, placed_value)'
    BY <2>3, <2>4 DEF Fresh, At
  <2> QED  BY <1>2, <2>5 DEF FreshInv
<1> QED  BY <1>10, <1>12, <1>13 DEF SharedInv

LEMMA LoseShared ==
    BlessedInv /\ TypeInv' /\ LoseFloating => SharedInv'
<1> SUFFICES ASSUME BlessedInv, TypeInv', LoseFloating PROVE SharedInv'
  OBVIOUS
<1>1. PICK f, start : f = Head(floating) /\ start = placed_value - lost_sats
  OBVIOUS
<1>2. PICK offset : offset = lost_sats + Head(floating).offset - placed_value
  OBVIOUS
<1>3. /\ pc = "settle" /\ IsCoinbase(Tx) /\ floating # <<>>
      /\ UpdateInscriptionState(NullOutPoint, offset) /\ floating' = Tail(floating)
      /\ UNCHANGED <<chain, height, tx_index, pc, vout, lost_sats, reward, placed_value, flotsam,
                     input_value>>
  BY <1>2 DEF LoseFloating, UpdateInscriptionState, blockVars, txVars
<1>4. /\ TypeInv /\ AmountsInv /\ SatsInv /\ EntriesInv /\ FreshInv
      /\ floating \in Seq(Flotsam) /\ placed_value \in Int /\ lost_sats \in Int /\ reward \in Int
  BY <1>3 DEF BlessedInv, SharedInv, PlacesInv, NumbersInv, TypeInv, TypeOK, Working
<1>5. /\ f.offset \in Int /\ offset \in Int /\ offset = lost_sats + f.offset - placed_value
      /\ offset + start = f.offset
  BY <1>1, <1>2, <1>3, <1>4, HeadOffset
<1>6. NullOutPoint \in OutPoint /\ IsNull(NullOutPoint) /\ NullOutPoint[1] = NullHash
  BY ChainAssumption DEF NullOutPoint, OutPoint, NullHash, IsNull
<1>7. PICK location \in Location : Joins(f, location, NullOutPoint, offset) /\ <<f.id, offset>> \in Entry
  BY <1>1, <1>3, <1>4, <1>5, <1>6, PlacedEntry
<1>8. ~NotYet(NullOutPoint)
  BY <1>4, <1>6, NullNotYet
<1>9. OnSat(f) => offset < LostSoFar
  <2>1. SatsBelow(floating, reward) /\ SatsDistinct(floating)
    BY <1>3, <1>4 DEF SatsInv
  <2>2. OnSat(f) => f.offset < reward
    BY <1>1, <1>3, <1>4, <2>1, SatsTail
  <2>3. LostSoFar = lost_sats + reward - placed_value
    BY <1>3 DEF LostSoFar
  <2> QED  BY <1>4, <1>5, <2>2, <2>3
<1>10. Fresh(NullOutPoint, start)
  BY <1>1, <1>3, <1>4 DEF FreshInv
<1>11. \A g \in At(NullOutPoint) : Blessed(g[1]) /\ OnSat(f) => g[2] # offset
  <2>1. 1 \in DOMAIN floating /\ f = floating[1]
    BY <1>1, <1>3, <1>4, HeadTail
  <2> QED  BY <1>5, <1>10, <2>1 DEF Fresh
<1>12. EntriesInv'
  BY <1>3, <1>4, <1>5, <1>6, <1>7, <1>8, <1>9, <1>11, JoinEntries
<1>13. \A id : Blessed(id)' => Blessed(id)
  BY <1>7 DEF Joins
<1>14. SatsInv'
  BY <1>3, <1>4, <1>13, JoinSats
<1>15. FreshInv'
  <2>1. Fresh(NullOutPoint, start)'
    BY <1>1, <1>3, <1>4, <1>5, <1>6, <1>7, <1>10, JoinFresh DEF SatsInv
  <2>2. start = (placed_value - lost_sats)'
    BY <1>1, <1>3
  <2>3. Fresh(NullOutPoint, placed_value - lost_sats)'
    BY <2>1, <2>2 DEF Fresh, At
  <2> QED  BY <1>3, <2>3 DEF FreshInv
<1> QED  BY <1>12, <1>14, <1>15 DEF SharedInv

-----------------------------------------------------------------------------
\* What arrives with an input is on sats of its value, a sat each.
LEMMA ArrivingSats ==
    ASSUME BlessedInv, Working, NEW prev \in OutPoint, ~IsNull(prev), input_value \in Int
    PROVE  LET a == Arriving(prev)
           IN  /\ SatsDistinct(a) /\ SatsBelow(a, input_value + chain.value[prev])
               /\ \A k \in DOMAIN a : a[k].kind = "old" /\ a[k].offset >= input_value
<1> DEFINE entries == Entries(output_inscription_cache, prev)
           a == Arriving(prev)
<1>1. TypeInv /\ EntriesInv /\ ListsInv /\ OffsetsInv
  BY DEF BlessedInv, SharedInv, PlacesInv, NumbersInv
<1>2. entries = ListAt(Held, prev)
  BY EntriesOf DEF Held
<1>3. entries \in Seq(Entry) /\ NonNegative(entries)
  BY <1>1, EntriesType, EntriesNonNegative DEF TypeInv, TypeOK, OffsetsInv
<1>4. ListDistinct(entries)
  <2>1. prev \in DOMAIN Held => ListDistinct(Held[prev])
    BY <1>1 DEF ListsInv, Agree
  <2> QED  BY <1>2, <2>1 DEF ListAt, ListDistinct
<1>5. \A k \in DOMAIN entries : entries[k] \in At(prev)
  BY <1>2 DEF At, Items
<1>6. ASSUME NEW k \in DOMAIN entries
      PROVE  /\ a[k].kind = "old" /\ a[k].id = entries[k][1]
             /\ a[k].offset = input_value + entries[k][2]
             /\ entries[k][2] \in Int /\ entries[k][2] >= 0
             /\ prev \in DOMAIN chain.value /\ entries[k][2] < chain.value[prev]
             /\ EntryInv(prev, entries[k])
  <2>1. a[k].kind = "old" /\ a[k].id = entries[k][1] /\ a[k].offset = input_value + entries[k][2]
    BY DEF Arriving
  <2>2. entries[k] \in Entry /\ entries[k][2] >= 0
    BY <1>3 DEF NonNegative, Items
  <2>3. EntryInv(prev, entries[k])
    BY <1>1, <1>5, AtHeld DEF EntriesInv
  <2> QED  BY <2>1, <2>2, <2>3 DEF EntryInv, Entry
<1>7. DOMAIN a = DOMAIN entries
  BY DEF Arriving
<1>8. prev \in DOMAIN chain.value => chain.value[prev] \in Int
  BY <1>1, ChainFacts DEF TypeInv
<1> HIDE DEF a, entries
<1>9. SatsBelow(a, input_value + chain.value[prev])
  BY <1>6, <1>7, <1>8 DEF SatsBelow
<1>10. \A k \in DOMAIN a : a[k].kind = "old" /\ a[k].offset >= input_value
  BY <1>6, <1>7
<1>11. ASSUME NEW j \in DOMAIN a, NEW k \in DOMAIN a, OnSat(a[j]), OnSat(a[k]), a[j].offset = a[k].offset
       PROVE  j = k
  <2>1. Blessed(entries[j][1]) /\ Blessed(entries[k][1])
    BY <1>6, <1>7, <1>11 DEF OnSat
  <2>2. entries[j][2] = entries[k][2]
    BY <1>6, <1>7, <1>11
  <2>3. entries[j] = entries[k]
    BY <1>5, <1>6, <1>7, <2>1, <2>2 DEF EntryInv
  <2> QED  BY <1>4, <1>7, <2>3 DEF ListDistinct
<1> QED  BY <1>9, <1>10, <1>11 DEF a, SatsDistinct

\* Of what is revealed in an input, at most the first is blessed and on a sat:
\* in the first input, whose value is not zero, on a sat without an inscription
\* or with a cursed one only.
LEMMA RevealedSats ==
    ASSUME NEW fs, NEW i, NEW total, NEW r, r = Revealed(fs, i, total),
           NEW k \in DOMAIN r, OnSat(r[k])
    PROVE  /\ k = 1 /\ i = 1 /\ total # 0 /\ r[k].offset = input_value
           /\ \A j \in InscribedAt(fs, input_value) : ~OnSat(fs[j])
<1>1. /\ r[k].kind = "new" /\ r[k].offset = input_value
      /\ r[k].cursed = Cursed(fs, i, k - 1, input_value)
      /\ r[k].unbound = (total = 0 \/ k # 1)
  BY DEF Revealed
<1>2. ~Cursed(fs, i, k - 1, input_value) /\ ~(total = 0 \/ k # 1)
  BY <1>1 DEF OnSat
<1>3. i = 1 /\ k = 1 /\ total # 0
  BY <1>2 DEF Cursed
<1>4. ASSUME NEW j \in InscribedAt(fs, input_value) PROVE ~OnSat(fs[j])
  <2>1. PICK first \in InscribedAt(fs, input_value) :
           InscribedAt(fs, input_value) = {first} /\ fs[first].id \in DOMAIN cursed_id
    BY <1>2, <1>4 DEF Cursed
  <2>2. j = first /\ fs[j].kind = "old"
    BY <2>1 DEF InscribedAt
  <2> QED  BY <2>1, <2>2 DEF OnSat, Blessed
<1> QED  BY <1>1, <1>3, <1>4

LEMMA ScanShared == BlessedInv /\ TypeInv' /\ ScanInput => SharedInv'
<1> SUFFICES ASSUME BlessedInv, TypeInv', ScanInput PROVE SharedInv'
  OBVIOUS
<1>1. PICK prev, arrived, total, revealed :
         /\ prev = Tx.inputs[input_index].prev /\ arrived = floating \o Arriving(prev)
         /\ total = input_value + OutputValue(prev)
         /\ revealed = Revealed(arrived, input_index, total)
  OBVIOUS
<1>2. /\ pc = "inputs" /\ pc' = "inputs" /\ InputsLeft /\ ~IsNull(prev)
      /\ floating' = arrived \o revealed /\ input_value' = total
      /\ UNCHANGED <<chain, height, tx_index, vout, flotsam, reward, lost_sats, placed_value,
                     status, cursed_id, unbound_inscriptions>>
  BY <1>1 DEF ScanInput, storeVars, blockVars, counterVars
<1>3. /\ TypeInv /\ AmountsInv /\ FloatingInv /\ SatsInv /\ EntriesInv /\ Working
      /\ floating \in Seq(Flotsam) /\ input_value \in Int /\ lost_sats \in Int
  BY <1>2 DEF BlessedInv, SharedInv, PlacesInv, NumbersInv, TypeInv, TypeOK, Working
<1>4. input_index \in DOMAIN Tx.inputs /\ ~IsCoinbase(Tx) /\ prev \in OutPoint
  <2>1. input_index \in DOMAIN Tx.inputs /\ ~IsCoinbase(Tx)
    BY <1>1, <1>2, <1>3, ReadsNull
  <2> QED  BY <1>1, <1>2, <1>3, <2>1, TxFacts DEF Input
<1>5. Arriving(prev) \in Seq(Flotsam) /\ arrived \in Seq(Flotsam) /\ revealed \in Seq(Flotsam)
  BY <1>1, <1>2, <1>3, <1>4, ArrivingType, RevealedType
<1>6. chain.value[prev] \in Nat /\ OutputValue(prev) = chain.value[prev]
  <2>1. prev \in DOMAIN chain.value
    BY <1>1, <1>2, <1>3, <1>4, TxFacts DEF Spent, IsNull
  <2> QED  BY <1>3, <2>1, ChainFacts DEF OutputValue, AmountsInv, ValuesInv, TypeInv
<1>7. total \in Int /\ input_value <= total /\ input_value >= 0
  BY <1>1, <1>3, <1>6 DEF AmountsInv, LostInv
<1>8. SatsDistinct(floating) /\ SatsBelow(floating, input_value) /\ SatsBelow(floating, total)
      /\ \A k \in DOMAIN floating : floating[k].offset \in Int
  BY <1>2, <1>3, <1>7, FlotsamOffsets DEF SatsInv, SatsBelow, OffsetIsInt
<1>9. /\ SatsDistinct(Arriving(prev)) /\ SatsBelow(Arriving(prev), total)
      /\ \A k \in DOMAIN Arriving(prev) :
            /\ Arriving(prev)[k].kind = "old" /\ Arriving(prev)[k].offset >= input_value
            /\ Arriving(prev)[k].offset \in Int
  BY <1>1, <1>2, <1>3, <1>4, <1>5, <1>6, ArrivingSats, FlotsamOffsets DEF OffsetIsInt
<1>10. SatsDistinct(arrived) /\ SatsBelow(arrived, total)
  <2>1. \A j \in DOMAIN floating, k \in DOMAIN Arriving(prev) :
           OnSat(floating[j]) /\ OnSat(Arriving(prev)[k])
              => floating[j].offset # Arriving(prev)[k].offset
    BY <1>3, <1>8, <1>9 DEF SatsBelow
  <2> QED  BY <1>1, <1>3, <1>5, <1>8, <1>9, <2>1, SatsConcat
<1>11. ASSUME NEW j \in DOMAIN arrived, OnSat(arrived[j]), arrived[j].offset = input_value
       PROVE  j \in InscribedAt(arrived, input_value)
  <2>1. \/ j \in DOMAIN floating /\ arrived[j] = floating[j]
        \/ j - Len(floating) \in DOMAIN Arriving(prev)
           /\ arrived[j] = Arriving(prev)[j - Len(floating)]
    BY <1>1, <1>3, <1>5, <1>11
  <2>2. ~(j \in DOMAIN floating /\ arrived[j] = floating[j])
    BY <1>3, <1>8, <1>11 DEF SatsBelow
  <2> QED  BY <1>9, <1>11, <2>1, <2>2 DEF InscribedAt
<1>12. ASSUME NEW k \in DOMAIN revealed, OnSat(revealed[k])
       PROVE  /\ k = 1 /\ revealed[k].offset = input_value /\ revealed[k].offset < total
              /\ \A j \in DOMAIN arrived : OnSat(arrived[j]) => arrived[j].offset # revealed[k].offset
  <2>1. /\ k = 1 /\ input_index = 1 /\ total # 0 /\ revealed[k].offset = input_value
        /\ \A j \in InscribedAt(arrived, input_value) : ~OnSat(arrived[j])
    <3>1. revealed = Revealed(arrived, input_index, total)
      BY <1>1
    <3> QED  BY <1>12, <3>1, RevealedSats
  <2>2. input_value = 0
    <3>1. /\ chain \in Chains /\ Tx \in Transaction \cap Transactions(chain)
          /\ \A j \in DOMAIN Tx.inputs : ~IsNull(Tx.inputs[j].prev)
      BY <1>2, <1>3, <1>4, TxConserves DEF InTx, TypeInv
    <3>2. input_value = SumsIn(chain, Tx)[0]
      BY <1>2, <1>3, <1>4, <2>1 DEF AmountsInv, ReadInv
    <3> QED  BY <3>1, <3>2, SumsInSteps
  <2> QED  BY <1>7, <1>11, <2>1, <2>2
<1>13. SatsDistinct(revealed) /\ SatsBelow(revealed, total)
  BY <1>12 DEF SatsDistinct, SatsBelow
<1>14. PICK new : new = floating'
  OBVIOUS
<1>15. SatsDistinct(new) /\ SatsBelow(new, total)
  BY <1>2, <1>5, <1>10, <1>12, <1>13, <1>14, SatsConcat
<1>16. \A id : Blessed(id)' = Blessed(id)
  BY <1>2 DEF Blessed
<1>17. SatsInv'
  <2>1. SatsDistinct(new)' /\ SatsBelow(new, total)'
    BY <1>15, <1>16, StillSats
  <2>2. SatsDistinct(floating)' /\ SatsBelow(floating, input_value)'
    BY <1>2, <1>14, <2>1 DEF SatsDistinct, SatsBelow
  <2>3. SatsDistinct(flotsam)' /\ SatsBelow(flotsam, reward)'
    BY <1>2, <1>3 DEF SatsInv, InTx, SatsDistinct, SatsBelow, OnSat, Blessed
  <2> QED  BY <1>2, <2>2, <2>3 DEF SatsInv
<1>18. EntriesInv'
  <2>1. \A o : At(o)' = At(o)
    BY ScanHeld DEF At
  <2>2. \A o \in Location : NotYet(o)' => NotYet(o)
    BY <1>2, <1>3, NotYetWithinTx
  <2>3. LostSoFar \in Int /\ LostSoFar' = LostSoFar /\ UnboundSoFar' = UnboundSoFar
    BY <1>2, <1>3 DEF LostSoFar, UnboundSoFar
  <2>4. UnboundSoFar \in Int
    BY <1>3 DEF UnboundSoFar, TypeInv, TypeOK
  <2> QED  BY <1>2, <1>3, <1>16, <2>1, <2>2, <2>3, <2>4, KeepEntries
<1> QED  BY <1>2, <1>17, <1>18 DEF SharedInv, FreshInv

\* The sats in the fees stay where they are.
LEMMA FlotsamKept ==
    ASSUME SatsInv, InTx, UNCHANGED <<cursed_id, flotsam, reward>>
    PROVE  SatsDistinct(flotsam)' /\ SatsBelow(flotsam, reward)'
BY DEF SatsInv, SatsDistinct, SatsBelow, OnSat, Blessed

LEMMA EmptyYet == ASSUME EntriesInv, NEW o, NotYet(o) PROVE At(o) = {}
BY AtHeld DEF EntriesInv, EntryInv

\* The steps of a transaction that leave every list alone.
LEMMA KeepInTx ==
    ASSUME TypeInv, TypeInv', EntriesInv, pc \in {"inputs", "outputs"}, pc' # "idle",
           UNCHANGED <<chain, height, tx_index, cursed_id, unbound_inscriptions, output_inscription,
                       output_inscription_cache>>,
           pc' = "inputs" => pc = "inputs",
           pc' = "outputs" => pc = "inputs" \/ (pc = "outputs" /\ vout' \in {vout, vout + 1}),
           LostSoFar' \in Int, LostSoFar <= LostSoFar'
    PROVE  EntriesInv' /\ \A o : At(o)' = At(o)
<1>1. \A o : At(o)' = At(o)
  BY DEF At, Held
<1>2. \A o \in Location : NotYet(o)' => NotYet(o)
  BY NotYetWithinTx
<1>3. LostSoFar \in Int /\ UnboundSoFar' = UnboundSoFar /\ UnboundSoFar \in Int
  BY DEF LostSoFar, UnboundSoFar, TypeInv, TypeOK
<1>4. \A id : Blessed(id)' = Blessed(id)
  BY DEF Blessed
<1> QED  BY <1>1, <1>2, <1>3, <1>4, KeepEntries

LEMMA ScanNullShared == BlessedInv /\ TypeInv' /\ ScanNullInput => SharedInv'
<1> SUFFICES ASSUME BlessedInv, TypeInv', ScanNullInput PROVE SharedInv'
  OBVIOUS
<1>1. /\ pc = "inputs" /\ pc' = "inputs" /\ InputsLeft /\ IsNull(Tx.inputs[input_index].prev)
      /\ UNCHANGED <<chain, height, tx_index, vout, flotsam, floating, reward, lost_sats, placed_value,
                     status, cursed_id, unbound_inscriptions, output_inscription,
                     output_inscription_cache>>
  BY DEF ScanNullInput, storeVars, blockVars, counterVars, batchVars
<1>2. /\ TypeInv /\ AmountsInv /\ FloatingInv /\ SatsInv /\ EntriesInv /\ lost_sats \in Int
  BY <1>1 DEF BlessedInv, SharedInv, PlacesInv, NumbersInv, TypeInv, TypeOK, Working
<1>3. floating = <<>>
  BY <1>1, <1>2, ReadsNull DEF FloatingInv
<1>4. SatsDistinct(floating)' /\ SatsBelow(floating, input_value)'
  BY <1>1, <1>3 DEF SatsDistinct, SatsBelow
<1>5. SatsInv'
  BY <1>1, <1>2, <1>4, FlotsamKept DEF SatsInv, InTx
<1>6. LostSoFar = lost_sats /\ LostSoFar' = lost_sats
  BY <1>1 DEF LostSoFar
<1>7. EntriesInv'
  BY <1>1, <1>2, <1>6, KeepInTx
<1> QED  BY <1>1, <1>5, <1>7 DEF SharedInv, FreshInv

LEMMA SortShared == BlessedInv /\ TypeInv' /\ SortFloating => SharedInv'
<1> SUFFICES ASSUME BlessedInv, TypeInv', SortFloating PROVE SharedInv'
  OBVIOUS
<1>1. PICK all, sorted, bound :
         /\ all = IF IsCoinbase(Tx) THEN floating \o flotsam ELSE floating
         /\ sorted = floating'
         /\ bound = IF IsCoinbase(Tx) THEN reward ELSE input_value
  OBVIOUS
<1>2. /\ pc = "inputs" /\ pc' = "outputs" /\ sorted \in StablySorted(all)
      /\ flotsam' = IF IsCoinbase(Tx) THEN <<>> ELSE flotsam
      /\ UNCHANGED <<chain, height, tx_index, vout, input_value, reward, lost_sats, placed_value,
                     status, cursed_id, unbound_inscriptions, output_inscription,
                     output_inscription_cache>>
  BY <1>1 DEF SortFloating, storeVars, blockVars, counterVars, batchVars, txVars
<1>3. /\ TypeInv /\ AmountsInv /\ FloatingInv /\ SatsInv /\ EntriesInv /\ lost_sats \in Int
      /\ floating \in Seq(Flotsam) /\ flotsam \in Seq(Flotsam)
  BY <1>2 DEF BlessedInv, SharedInv, PlacesInv, NumbersInv, TypeInv, TypeOK, Working
<1>4. Tx' = Tx /\ vout = 1 /\ Tx.txid \in Nat
  BY <1>2, <1>3, TxFacts DEF Tx, AmountsInv, ReadInv, Transaction
<1>5. all \in Seq(Flotsam) /\ SatsDistinct(all) /\ SatsBelow(all, bound)
  <2>1. CASE IsCoinbase(Tx)
    <3>1. all = flotsam
      BY <1>1, <1>2, <1>3, <2>1 DEF FloatingInv
    <3> QED  BY <1>1, <1>2, <1>3, <2>1, <3>1 DEF SatsInv, InTx
  <2>2. CASE ~IsCoinbase(Tx)
    BY <1>1, <1>2, <1>3, <2>2 DEF SatsInv
  <2> QED  BY <2>1, <2>2
<1>6. SatsDistinct(sorted) /\ SatsBelow(sorted, bound)
  BY <1>2, <1>5, SatsSorted
<1>7. SatsInv'
  <2>1. SatsDistinct(sorted)' /\ SatsBelow(sorted, bound)'
    BY <1>2, <1>6 DEF SatsDistinct, SatsBelow, OnSat, Blessed
  <2>2. bound = (IF IsCoinbase(Tx) THEN reward ELSE input_value)'
    BY <1>1, <1>2, <1>4
  <2>3. SatsDistinct(floating)' /\ SatsBelow(floating, IF IsCoinbase(Tx) THEN reward ELSE input_value)'
    BY <1>1, <2>1, <2>2 DEF SatsDistinct, SatsBelow
  <2>4. SatsDistinct(flotsam)' /\ SatsBelow(flotsam, reward)'
    <3>1. CASE IsCoinbase(Tx)
      BY <1>2, <3>1 DEF SatsDistinct, SatsBelow
    <3>2. CASE ~IsCoinbase(Tx)
      BY <1>2, <1>3, <3>2, FlotsamKept DEF InTx
    <3> QED  BY <3>1, <3>2
  <2> QED  BY <1>2, <2>3, <2>4 DEF SatsInv
<1>8. LostSoFar = lost_sats /\ LostSoFar' = lost_sats
  BY <1>2 DEF LostSoFar
<1>9. EntriesInv' /\ \A o : At(o)' = At(o)
  BY <1>2, <1>3, <1>8, KeepInTx
<1>10. FreshInv'
  <2>1. PICK o : o = <<Tx.txid, vout - 1>>
    OBVIOUS
  <2>2. NotYet(o)
    BY <1>2, <2>1 DEF NotYet
  <2>3. At(o)' = {}
    BY <1>3, <1>9, <2>2, EmptyYet
  <2>4. <<Tx.txid, vout - 1>>' = o
    BY <1>2, <1>4, <2>1
  <2>5. At(<<Tx.txid, vout - 1>>)' = {}
    BY <2>3, <2>4 DEF At
  <2> QED  BY <1>2, <2>5 DEF FreshInv, Fresh
<1> QED  BY <1>7, <1>9, <1>10 DEF SharedInv

LEMMA NextOutputShared == BlessedInv /\ TypeInv' /\ NextOutput => SharedInv'
<1> SUFFICES ASSUME BlessedInv, TypeInv', NextOutput PROVE SharedInv'
  OBVIOUS
<1>1. /\ pc = "outputs" /\ pc' = "outputs" /\ vout' = vout + 1
      /\ UNCHANGED <<chain, height, tx_index, input_value, reward, lost_sats, floating, flotsam,
                     status, cursed_id, unbound_inscriptions, output_inscription,
                     output_inscription_cache>>
  BY DEF NextOutput, storeVars, blockVars, counterVars, batchVars
<1>2. /\ TypeInv /\ SatsInv /\ EntriesInv /\ lost_sats \in Int /\ vout \in Nat
  BY <1>1 DEF BlessedInv, SharedInv, PlacesInv, NumbersInv, TypeInv, TypeOK, Working
<1>3. Tx' = Tx
  BY <1>1 DEF Tx
<1>4. SatsInv'
  <2>1. SatsDistinct(floating)' /\ SatsBelow(floating, IF IsCoinbase(Tx) THEN reward ELSE input_value)'
    BY <1>1, <1>2, <1>3 DEF SatsInv, SatsDistinct, SatsBelow, OnSat, Blessed
  <2> QED  BY <1>1, <1>2, <2>1, FlotsamKept DEF SatsInv, InTx
<1>5. LostSoFar = lost_sats /\ LostSoFar' = lost_sats
  BY <1>1 DEF LostSoFar
<1>6. EntriesInv' /\ \A o : At(o)' = At(o)
  BY <1>1, <1>2, <1>5, KeepInTx
<1>7. FreshInv'
  <2>1. PICK o : o = <<Tx.txid, vout>>
    OBVIOUS
  <2>2. NotYet(o)
    BY <1>1, <1>2, <2>1 DEF NotYet
  <2>3. At(o)' = {}
    BY <1>2, <1>6, <2>2, EmptyYet
  <2>4. <<Tx.txid, vout - 1>>' = o
    <3>1. vout' - 1 = vout
      BY <1>1, <1>2
    <3> QED  BY <1>3, <2>1, <3>1
  <2>5. At(<<Tx.txid, vout - 1>>)' = {}
    BY <2>3, <2>4 DEF At
  <2> QED  BY <1>1, <2>5 DEF FreshInv, Fresh
<1> QED  BY <1>4, <1>6, <1>7 DEF SharedInv

\* An offset in a list of entries is a number.
LEMMA EntryOffset == ASSUME TypeInv, NEW o, NEW e \in At(o) PROVE e[2] \in Int
<1>1. IsStore(Held, Location, Seq(Entry))
  BY WriteIsStore DEF Held, TypeInv, TypeOK
<1>2. Held[o] \in Seq(Entry) /\ e \in Items(Held[o])
  BY <1>1, AtHeld DEF IsStore
<1> QED  BY <1>2 DEF Items, Entry

LEMMA WriteShared == BlessedInv /\ TypeInv' /\ WriteOutputValue => SharedInv'
<1> SUFFICES ASSUME BlessedInv, TypeInv', WriteOutputValue PROVE SharedInv'
  OBVIOUS
<1>1. /\ pc = "outputs" /\ pc' = "settle" /\ ~OutputsLeft
      /\ UNCHANGED <<chain, height, tx_index, vout, input_value, reward, lost_sats, placed_value,
                     floating, flotsam, status, cursed_id, unbound_inscriptions, output_inscription,
                     output_inscription_cache>>
  BY DEF WriteOutputValue, blockVars, counterVars, batchVars, txVars
<1>2. /\ TypeInv /\ AmountsInv /\ FloatingInv /\ SatsInv /\ EntriesInv
      /\ lost_sats \in Int /\ reward \in Int /\ placed_value \in Int /\ floating \in Seq(Flotsam)
  BY <1>1 DEF BlessedInv, SharedInv, PlacesInv, NumbersInv, TypeInv, TypeOK, Working
<1>3. Tx' = Tx
  BY <1>1 DEF Tx
<1>4. SatsInv'
  <2>1. SatsDistinct(floating)' /\ SatsBelow(floating, IF IsCoinbase(Tx) THEN reward ELSE input_value)'
    BY <1>1, <1>2, <1>3 DEF SatsInv, SatsDistinct, SatsBelow, OnSat, Blessed
  <2> QED  BY <1>1, <1>2, <2>1, FlotsamKept DEF SatsInv, InTx
<1>5. LostSoFar = lost_sats /\ LostSoFar' \in Int /\ LostSoFar <= LostSoFar'
  BY <1>1, <1>2, <1>3, SettleCovered DEF LostSoFar
<1>6. EntriesInv' /\ \A o : At(o)' = At(o)
  BY <1>1, <1>2, <1>5, KeepInTx
<1>7. Fresh(NullOutPoint, placed_value - lost_sats)
  <2> SUFFICES ASSUME NEW e \in At(NullOutPoint), NEW k \in DOMAIN floating, Blessed(e[1])
               PROVE  e[2] + (placed_value - lost_sats) # floating[k].offset
    BY DEF Fresh
  <2>1. e[2] < lost_sats
    BY <1>2, <1>5, AtHeld DEF EntriesInv, EntryInv, IsNull
  <2>2. floating[k].offset >= placed_value /\ floating[k].offset \in Int
    BY <1>2, FlotsamOffsets DEF FloatingInv, Floats, OffsetIsInt
  <2>3. e[2] \in Int
    BY <1>2, EntryOffset
  <2> QED  BY <1>2, <2>1, <2>2, <2>3
<1>8. FreshInv'
  <2>1. Fresh(NullOutPoint, placed_value - lost_sats)'
    BY <1>1, <1>6, <1>7 DEF Fresh, OnSat, Blessed
  <2> QED  BY <1>1, <2>1 DEF FreshInv
<1> QED  BY <1>4, <1>6, <1>8 DEF SharedInv

-----------------------------------------------------------------------------
\* What leaves for the fees keeps its order of sats.
LEMMA FeesSats ==
    ASSUME floating \in Seq(Flotsam), reward \in Int, placed_value \in Int, input_value \in Int,
           Floats(floating, placed_value), SatsDistinct(floating), SatsBelow(floating, input_value),
           NEW moved, moved = [k \in DOMAIN floating |-> InFees(floating[k])]
    PROVE  /\ moved \in Seq(Flotsam) /\ SatsDistinct(moved)
           /\ SatsBelow(moved, reward + (input_value - placed_value))
           /\ \A k \in DOMAIN moved : moved[k].offset \in Int /\ moved[k].offset >= reward
<1>1. ASSUME NEW k \in DOMAIN floating
      PROVE  /\ moved[k] \in Flotsam /\ moved[k].offset = reward + floating[k].offset - placed_value
             /\ (OnSat(moved[k]) <=> OnSat(floating[k]))
             /\ floating[k].offset \in Int /\ floating[k].offset >= placed_value
  <2>1. PICK f : f = floating[k]
    OBVIOUS
  <2>2. f \in Flotsam /\ f.offset \in Int /\ f.offset >= placed_value
    BY <2>1, FlotsamOffsets DEF OffsetIsInt, Floats
  <2>3. PICK n : n = reward + f.offset - placed_value
    OBVIOUS
  <2>4. n \in Int
    BY <2>2, <2>3
  <2>5. PICK g : g = moved[k]
    OBVIOUS
  <2>6. g = [f EXCEPT !.offset = n]
    BY <2>1, <2>3, <2>5 DEF InFees
  <2>7. /\ g \in Flotsam /\ g.offset = n /\ g.kind = f.kind /\ g.id = f.id
        /\ f.kind # "old" => g.cursed = f.cursed /\ g.unbound = f.unbound
    BY <2>2, <2>4, <2>6 DEF Flotsam, OldFlotsam, NewFlotsam
  <2> QED  BY <2>1, <2>2, <2>3, <2>5, <2>7 DEF OnSat
<1>2. DOMAIN moved = DOMAIN floating /\ DOMAIN floating = 1 .. Len(floating) /\ Len(floating) \in Nat
  OBVIOUS
<1>3. moved \in Seq(Flotsam)
  BY <1>1, <1>2, SeqFromFunction
<1>4. ASSUME NEW j \in DOMAIN moved, NEW k \in DOMAIN moved, OnSat(moved[j]), OnSat(moved[k]),
             moved[j].offset = moved[k].offset
      PROVE  j = k
  <2>1. floating[j].offset = floating[k].offset
    BY <1>1, <1>2, <1>4
  <2> QED  BY <1>1, <1>2, <1>4, <2>1 DEF SatsDistinct
<1>5. SatsBelow(moved, reward + (input_value - placed_value))
  BY <1>1, <1>2 DEF SatsBelow
<1>6. \A k \in DOMAIN moved : moved[k].offset \in Int /\ moved[k].offset >= reward
  BY <1>1, <1>2
<1> QED  BY <1>3, <1>4, <1>5, <1>6 DEF SatsDistinct

\* A transaction is settled: the entries stay, and fewer outputs are to come.
LEMMA KeepSettled ==
    ASSUME TypeInv, TypeInv', EntriesInv, pc = "settle", FinishTx,
           UNCHANGED <<chain, height, cursed_id, unbound_inscriptions, output_inscription,
                       output_inscription_cache>>,
           LostSoFar' = LostSoFar
    PROVE  EntriesInv'
<1>1. \A o : At(o)' = At(o)
  BY DEF At, Held
<1>2. \A o : NotYet(o)' => NotYet(o)
  BY NotYetNextTx
<1>3. pc' # "idle"
  BY DEF FinishTx
<1>4. LostSoFar \in Int /\ UnboundSoFar' = UnboundSoFar /\ UnboundSoFar \in Int
  BY <1>3 DEF LostSoFar, UnboundSoFar, TypeInv, TypeOK
<1>5. \A id : Blessed(id)' = Blessed(id)
  BY DEF Blessed
<1> QED  BY <1>1, <1>2, <1>4, <1>5, KeepEntries

LEMMA SettleShared == BlessedInv /\ TypeInv' /\ (SettleFees \/ SettleCoinbase) => SharedInv'
<1> SUFFICES ASSUME BlessedInv, TypeInv', SettleFees \/ SettleCoinbase PROVE SharedInv'
  OBVIOUS
<1>1. /\ pc = "settle" /\ FinishTx /\ floating' = <<>> /\ input_value' = 0
      /\ pc' = IF tx_index < Len(chain.blocks[height]) THEN "inputs" ELSE "flush_id_inscription"
      /\ UNCHANGED <<chain, height, status, cursed_id, unbound_inscriptions, output_inscription,
                     output_inscription_cache>>
  BY DEF SettleFees, SettleCoinbase, FinishTx, EnterTx, storeVars, counterVars, batchVars
<1>2. /\ TypeInv /\ AmountsInv /\ FloatingInv /\ SatsInv /\ EntriesInv
      /\ lost_sats \in Int /\ reward \in Int /\ placed_value \in Int /\ input_value \in Int
      /\ floating \in Seq(Flotsam) /\ flotsam \in Seq(Flotsam)
  BY <1>1 DEF BlessedInv, SharedInv, PlacesInv, NumbersInv, TypeInv, TypeOK, Working
<1>3. FreshInv'
  BY <1>1 DEF FreshInv
<1>4. \A s, b : (SatsDistinct(s) => SatsDistinct(s)') /\ (SatsBelow(s, b) => SatsBelow(s, b)')
  BY <1>1 DEF SatsDistinct, SatsBelow, OnSat, Blessed
<1>5. SatsDistinct(floating)' /\ SatsBelow(floating, input_value)'
  BY <1>1 DEF SatsDistinct, SatsBelow
<1>6. CASE SettleFees
  <2>1. PICK moved, more, r :
           /\ moved = [k \in DOMAIN floating |-> InFees(floating[k])]
           /\ more = flotsam \o moved
           /\ r = reward + (input_value - placed_value)
    OBVIOUS
  <2>2. ~IsCoinbase(Tx) /\ flotsam' = more /\ reward' = r /\ lost_sats' = lost_sats
    BY <1>6, <2>1 DEF SettleFees
  <2>3. placed_value <= input_value
    BY <1>1, <1>2, <2>2, SettleCovered
  <2>4. SatsDistinct(flotsam) /\ SatsBelow(flotsam, reward)
    BY <1>1, <1>2 DEF SatsInv, InTx
  <2>5. /\ moved \in Seq(Flotsam) /\ SatsDistinct(moved) /\ SatsBelow(moved, r)
        /\ \A k \in DOMAIN moved : moved[k].offset \in Int /\ moved[k].offset >= reward
    BY <1>1, <1>2, <2>1, <2>2, FeesSats DEF FloatingInv, SatsInv
  <2>6. \A k \in DOMAIN flotsam : flotsam[k].offset \in Int
    BY <1>2, FlotsamOffsets DEF OffsetIsInt
  <2>7. SatsBelow(flotsam, r)
    BY <1>2, <2>1, <2>3, <2>4, <2>6 DEF SatsBelow
  <2>8. \A j \in DOMAIN flotsam, k \in DOMAIN moved :
           OnSat(flotsam[j]) /\ OnSat(moved[k]) => flotsam[j].offset # moved[k].offset
    BY <1>2, <2>4, <2>5, <2>6 DEF SatsBelow
  <2>9. SatsDistinct(more) /\ SatsBelow(more, r)
    BY <1>2, <2>1, <2>4, <2>5, <2>7, <2>8, SatsConcat
  <2>10. SatsDistinct(flotsam)' /\ SatsBelow(flotsam, reward)'
    <3>1. SatsDistinct(more)' /\ SatsBelow(more, r)'
      BY <1>4, <2>9
    <3> QED  BY <2>2, <3>1 DEF SatsDistinct, SatsBelow
  <2>11. SatsInv'
    BY <1>1, <1>5, <2>10 DEF SatsInv
  <2>12. LostSoFar' = LostSoFar
    BY <1>1, <2>2 DEF LostSoFar
  <2> QED  BY <1>1, <1>2, <1>3, <2>11, <2>12, KeepSettled DEF SharedInv
<1>7. CASE SettleCoinbase
  <2>1. /\ IsCoinbase(Tx) /\ lost_sats' = lost_sats + (reward - placed_value)
        /\ UNCHANGED <<flotsam, reward>>
    BY <1>7 DEF SettleCoinbase
  <2>2. pc' = "flush_id_inscription"
    <3>1. tx_index = Len(chain.blocks[height]) /\ Len(chain.blocks[height]) \in Nat
      BY <1>1, <1>2, <2>1, TxConserves DEF InTx
    <3> QED  BY <1>1, <3>1
  <2>3. LostSoFar' = LostSoFar
    BY <1>1, <1>2, <2>1, <2>2 DEF LostSoFar
  <2>4. SatsInv'
    BY <1>1, <1>2, <1>5, <2>1, <2>2 DEF SatsInv, InTx, SatsDistinct, SatsBelow, OnSat, Blessed
  <2> QED  BY <1>1, <1>2, <1>3, <2>3, <2>4, KeepSettled DEF SharedInv
<1> QED  BY <1>6, <1>7

\* The sats that float, when nothing does: between two blocks and at their ends.
LEMMA NothingFloats ==
    ASSUME floating' = <<>>, pc' \notin {"outputs", "settle"},
           SatsDistinct(flotsam)', InTx' => SatsBelow(flotsam, reward)'
    PROVE  SatsInv' /\ FreshInv'
BY DEF SatsInv, FreshInv, SatsDistinct, SatsBelow

LEMMA FlushShared ==
    BlessedInv /\ TypeInv' /\ (FlushIdInscription \/ FlushInscriptionOutput \/ FlushOutputInscription)
        => SharedInv'
<1> SUFFICES ASSUME BlessedInv, TypeInv',
                    FlushIdInscription \/ FlushInscriptionOutput \/ FlushOutputInscription
             PROVE  SharedInv'
  OBVIOUS
<1>1. /\ pc \notin {"idle", "failed"} /\ pc' \notin {"idle", "inputs", "outputs", "settle"}
      /\ pc \notin {"inputs", "outputs", "settle"}
      /\ UNCHANGED <<chain, height, tx_index, flotsam, floating, lost_sats, status, cursed_id,
                     unbound_inscriptions>>
  BY DEF FlushIdInscription, FlushInscriptionOutput, FlushOutputInscription, blockVars, counterVars,
         txVars
<1>2. TypeInv /\ SatsInv /\ EntriesInv /\ lost_sats \in Int /\ unbound_inscriptions \in Int
  BY <1>1 DEF BlessedInv, SharedInv, PlacesInv, NumbersInv, TypeInv, TypeOK, Working
<1>3. \A o : At(o)' = At(o)
  <2>1. Held' = Held
    BY FlushHeld DEF FlushIdInscription, FlushInscriptionOutput, batchVars, Held
  <2> QED  BY <2>1 DEF At
<1>4. \A o \in Location : NotYet(o)' => NotYet(o)
  BY <1>1, <1>2, NotYetWithinTx
<1>5. LostSoFar' = LostSoFar /\ LostSoFar \in Int /\ UnboundSoFar' = UnboundSoFar /\ UnboundSoFar \in Int
  BY <1>1, <1>2 DEF LostSoFar, UnboundSoFar
<1>6. \A id : Blessed(id)' = Blessed(id)
  BY <1>1 DEF Blessed
<1>7. EntriesInv'
  BY <1>1, <1>2, <1>3, <1>4, <1>5, <1>6, KeepEntries
<1>8. SatsInv'
  BY <1>1, <1>2 DEF SatsInv, InTx, SatsDistinct, SatsBelow, OnSat, Blessed
<1> QED  BY <1>1, <1>7, <1>8 DEF SharedInv, FreshInv

\* A block begins, or its updater is dropped with the last write.
LEMMA DropShared ==
    BlessedInv /\ TypeInv' /\ (BeginBlock(height + 1) \/ FlushStatus) => SharedInv'
<1> SUFFICES ASSUME BlessedInv, TypeInv', BeginBlock(height + 1) \/ FlushStatus PROVE SharedInv'
  OBVIOUS
<1>1. /\ pc \in {"idle", "flush_status"} /\ pc' \in {"inputs", "idle"}
      /\ output_inscription_cache' = EmptyDB /\ floating' = <<>> /\ flotsam' = <<>>
      /\ UNCHANGED <<chain, cursed_id, output_inscription>>
  BY DEF BeginBlock, FlushStatus, DropUpdater, EnterTx, storeVars
<1>2. /\ TypeInv /\ EntriesInv /\ StoredInv
      /\ status.lost_sats \in Int /\ lost_sats \in Int
      /\ status.unbound_inscriptions \in Int /\ unbound_inscriptions \in Int
  <2>1. TypeInv /\ EntriesInv /\ StoredInv
    BY <1>1 DEF BlessedInv, SharedInv, PlacesInv, NumbersInv, Working
  <2> QED  BY <2>1 DEF TypeInv, TypeOK
<1>3. \A o : At(o)' \subseteq At(o)
  <2>1. \A o \in DOMAIN Held' : o \in DOMAIN Held /\ Held'[o] = Held[o]
    BY <1>1, <1>2, DropHeld
  <2> QED  BY <2>1 DEF At, ListAt, Items
<1>4. \A o : NotYet(o)' => NotYet(o)
  <2>1. CASE BeginBlock(height + 1)  BY <1>2, <2>1, NotYetNextBlock
  <2>2. CASE FlushStatus
    BY <2>2 DEF FlushStatus, NotYet, Ahead, InLaterBlock
  <2> QED  BY <2>1, <2>2
<1>5. LostSoFar' = LostSoFar /\ UnboundSoFar' = UnboundSoFar
  BY DEF BeginBlock, FlushStatus, Counters, LostSoFar, UnboundSoFar
<1>6. LostSoFar \in Int /\ UnboundSoFar \in Int
  BY <1>1, <1>2 DEF LostSoFar, UnboundSoFar
<1>7. \A id : Blessed(id)' = Blessed(id)
  BY <1>1 DEF Blessed
<1>8. EntriesInv'
  BY <1>1, <1>2, <1>3, <1>4, <1>5, <1>6, <1>7, KeepEntries
<1>9. SatsInv' /\ FreshInv'
  BY <1>1, NothingFloats DEF SatsDistinct, SatsBelow
<1> QED  BY <1>8, <1>9 DEF SharedInv

LEMMA BlessedInit == Init => BlessedInv
<1> SUFFICES ASSUME Init PROVE BlessedInv
  OBVIOUS
<1>1. pc = "idle" /\ floating = <<>> /\ flotsam = <<>>
  BY DEF Init
<1>2. DOMAIN Held = {}
  BY WriteEmpty DEF Init, Held, EmptyDB
<1>3. SharedInv
  BY <1>1, <1>2 DEF SharedInv, SatsInv, EntriesInv, FreshInv, InTx, SatsDistinct, SatsBelow
<1> QED  BY <1>3, PlacesInit, AmountsInit, OffsetsInit DEF BlessedInv

LEMMA BlessedNext == BlessedInv /\ [Next]_vars => BlessedInv'
<1> SUFFICES ASSUME BlessedInv, [Next]_vars PROVE BlessedInv'
  OBVIOUS
<1>1. TypeInv /\ PlacesInv /\ AmountsInv /\ FloatingInv /\ OffsetsInv
  BY DEF BlessedInv, PlacesInv, NumbersInv
<1>2. PlacesInv' /\ AmountsInv' /\ FloatingInv' /\ OffsetsInv' /\ TypeInv'
  BY <1>1, PlacesNext, AmountsNext, OffsetsNext, NextType
<1>3. Working' => SharedInv'
  <2> SUFFICES ASSUME Working' PROVE SharedInv'
    OBVIOUS
  <2>1. CASE BeginBlock(height + 1) \/ FlushStatus  BY <1>2, <2>1, DropShared
  <2>2. CASE ScanNullInput  BY <1>2, <2>2, ScanNullShared
  <2>3. CASE ScanInput  BY <1>2, <2>3, ScanShared
  <2>4. CASE SortFloating  BY <1>2, <2>4, SortShared
  <2>5. CASE PlaceOnOutput  BY <1>2, <2>5, PlaceShared
  <2>6. CASE NextOutput  BY <1>2, <2>6, NextOutputShared
  <2>7. CASE WriteOutputValue  BY <1>2, <2>7, WriteShared
  <2>8. CASE SettleFees \/ SettleCoinbase  BY <1>2, <2>8, SettleShared
  <2>9. CASE LoseFloating  BY <1>2, <2>9, LoseShared
  <2>10. CASE FlushIdInscription \/ FlushInscriptionOutput \/ FlushOutputInscription
    BY <1>2, <2>10, FlushShared
  <2>11. CASE Fail
    BY <2>11 DEF Fail, Working
  <2>12. CASE UNCHANGED vars
    <3>1. SharedInv
      BY <2>12 DEF BlessedInv, Working, vars
    <3>2. /\ SatsInv' = SatsInv /\ Held' = Held /\ Tx' = Tx
          /\ UNCHANGED <<chain, cursed_id, unbound_inscriptions, status, height, pc, tx_index, vout,
                         lost_sats, reward, placed_value, floating>>
      BY <2>12
      DEF vars, storeVars, counterVars, batchVars, blockVars, txVars, SatsInv, InTx, SatsDistinct,
          SatsBelow, OnSat, Blessed, Held, Tx
    <3>3. FreshInv' = FreshInv
      BY <3>2 DEF FreshInv, Fresh, OutputsLeft, At, OnSat, Blessed
    <3>4. /\ \A o : NotYet(o)' = NotYet(o)
          /\ LostSoFar' = LostSoFar /\ UnboundSoFar' = UnboundSoFar
      BY <3>2 DEF NotYet, Ahead, InLaterBlock, LaterInBlock, LostSoFar, UnboundSoFar
    <3>5. EntriesInv' = EntriesInv
      BY <3>2, <3>4 DEF EntriesInv, EntryInv, At, Blessed
    <3> QED  BY <3>1, <3>2, <3>3, <3>5 DEF SharedInv
  <2> QED
    BY <2>1, <2>2, <2>3, <2>4, <2>5, <2>6, <2>7, <2>8, <2>9, <2>10, <2>11, <2>12
    DEF Next, IndexStep
<1> QED  BY <1>2, <1>3 DEF BlessedInv

-----------------------------------------------------------------------------
\* Of the inscriptions that share a sat of an output at most one is blessed, for
\* every set of chains: a curse decided from what one transaction brings along
\* holds against all that the sat ever carries.
THEOREM OneBlessedOnEachSat == Spec => []OneBlessedPerSat
<1>1. Init => BlessedInv  BY BlessedInit
<1>2. BlessedInv /\ [Next]_vars => BlessedInv'  BY BlessedNext
<1>3. BlessedInv => OneBlessedPerSat
  <2> SUFFICES ASSUME BlessedInv, pc = "idle",
                      NEW o \in DOMAIN output_inscription,
                      NEW j \in DOMAIN output_inscription[o], NEW k \in DOMAIN output_inscription[o],
                      j # k, output_inscription[o][j][2] = output_inscription[o][k][2],
                      Blessed(output_inscription[o][j][1]), Blessed(output_inscription[o][k][1])
               PROVE  FALSE
    BY DEF OneBlessedPerSat, Blessed
  <2>1. EntriesInv /\ StoredInv /\ ListsInv
    BY DEF BlessedInv, SharedInv, PlacesInv, Working
  <2>2. o \in DOMAIN Held /\ output_inscription[o] = Held[o]
    BY <2>1, WriteAt DEF StoredInv, Held
  <2>3. output_inscription[o][j] \in At(o) /\ output_inscription[o][k] \in At(o)
    BY <2>2 DEF At, ListAt, Items
  <2>4. output_inscription[o][j] = output_inscription[o][k]
    BY <2>1, <2>2, <2>3 DEF EntriesInv, EntryInv
  <2>5. ListDistinct(Held[o])
    BY <2>1, <2>2 DEF ListsInv, Agree
  <2> QED  BY <2>2, <2>4, <2>5 DEF ListDistinct
<1> QED  BY <1>1, <1>2, <1>3, PTL DEF Spec
=============================================================================
