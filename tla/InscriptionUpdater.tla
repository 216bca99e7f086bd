------------------------- MODULE InscriptionUpdater -------------------------
(***************************************************************************)
(* src/block.rs: the indexing of one block.  BlockUpdater walks the        *)
(* transactions of a block, the coinbase last; for each of them            *)
(* InscriptionUpdater collects the inscriptions that arrive with its       *)
(* inputs or are revealed in them, lays them on its outputs first-in       *)
(* first-out, and hands what falls into the fee to the coinbase.  Results  *)
(* gather in batches and a cache that flush_update writes, store by store, *)
(* when the block is done; output values and the marks of cursed           *)
(* inscriptions are written at once.                                       *)
(*                                                                         *)
(* The strings of the stores are modelled by their content: the value      *)
(* "/id:offset/id:offset" is a sequence of entries <<id, offset>>, an      *)
(* inscription id "<txid>i<n>" is <<txid, n>>.                             *)
(***************************************************************************)
EXTENDS Chain, LevelDB, FiniteSets

VARIABLES
    chain,                  \* the chain the node serves
    \* stores: struct Ordi
    status,                 \* the counters under the five named keys
    cursed_id,              \* status, keyed by inscription id: its number
    output_value,           \* outpoint -> value
    id_inscription,         \* number -> inscription id
    inscription_output,     \* inscription id -> location
    output_inscription,     \* location -> entries; lives in memory
    \* struct InscriptionUpdater
    height, flotsam, reward, unbound_inscriptions, next_number,
    next_cursed_number, lost_sats, output_inscription_cache,
    id_inscription_wb, inscription_output_wb,
    \* locals of index_transactions and index_inscriptions_in_transaction
    pc, tx_index, input_index, input_value, id_counter, floating,
    vout, placed_value,
    \* observer: the output the callbacks last reported for an inscription
    reported

storeVars == <<status, cursed_id, output_value, id_inscription,
               inscription_output, output_inscription>>
counterVars == <<unbound_inscriptions, next_number, next_cursed_number>>
batchVars == <<output_inscription_cache, id_inscription_wb, inscription_output_wb>>
blockVars == <<height, flotsam, reward, lost_sats>>
txVars == <<tx_index, input_index, input_value, id_counter, vout, placed_value>>

vars == <<chain, storeVars, counterVars, batchVars, blockVars, txVars, pc, floating, reported>>

-----------------------------------------------------------------------------
\* Inscription ids, and where an inscription may be: on an output, among the
\* lost sats (NullOutPoint), or unbound, at a key of its own.
Id == (Nat \ {NullHash}) \X Nat
Unbound(n) == <<NullHash, 0, n>>
Location == OutPoint \cup (Nat \X Nat \X Nat)
\* Offsets are integers in these types: that the unsigned arithmetic of the code
\* never goes below zero is the property NoUnderflow.
Entry == Id \X Int

OldFlotsam == [id : Id, offset : Int, kind : {"old"}, old_output : OutPoint, old_offset : Int]
NewFlotsam == [id : Id, offset : Int, kind : {"new"}, cursed : BOOLEAN, unbound : BOOLEAN]
Flotsam == OldFlotsam \cup NewFlotsam

Tx == TxInOrder(chain.blocks[height], tx_index)
InputsLeft == input_index <= Len(Tx.inputs)
OutputsLeft == vout <= Len(Tx.outputs)

\* The entries of a location as the updater sees them: cache, then store.
Entries(cache, location) ==
    IF location \in DOMAIN cache THEN cache[location]
    ELSE IF location \in DOMAIN output_inscription THEN output_inscription[location]
    ELSE <<>>

\* The value of a spent output: the store first, the node if it is not there.
OutputValue(outpoint) ==
    IF outpoint \in DOMAIN output_value
    THEN output_value[outpoint] ELSE chain.value[outpoint]

\* The inscriptions an input brings along.
Arriving(prev) ==
    LET entries == Entries(output_inscription_cache, prev)
    IN  [k \in DOMAIN entries |->
            [id |-> entries[k][1], offset |-> input_value + entries[k][2],
             kind |-> "old", old_output |-> prev, old_offset |-> entries[k][2]]]

\* Positions in fs of the inscriptions that arrived on the sat at offset:
\* inscribed_offsets, whose first id is the initial inscription and whose
\* count is zero when there is no other.
InscribedAt(fs, offset) ==
    {k \in DOMAIN fs : fs[k].kind = "old" /\ fs[k].offset = offset}

\* Mutant: every reinscription of a cursed inscription is blessed.
Cursed_CountIgnored(fs, i, k, offset) ==
    LET there == InscribedAt(fs, offset)
    IN  \/ i # 1
        \/ k # 0
        \/ /\ there # {}
           /\ fs[CHOOSE j \in there : \A l \in there : j <= l].id \notin DOMAIN cursed_id

\* The curse of the k-th envelope (from zero) of input i at offset.  A
\* reinscription is not cursed when it is the first on its sat and the
\* initial inscription is.
Cursed(fs, i, k, offset) ==
    LET there == InscribedAt(fs, offset)
    IN  \/ i # 1
        \/ k # 0
        \/ /\ there # {}
           /\ ~ \E first \in there : there = {first} /\ fs[first].id \in DOMAIN cursed_id

\* Mutant: the id is counted within the input instead of the transaction.
Revealed_CountPerInput(fs, i, total) ==
    [k \in 1 .. Tx.inputs[i].envelopes |->
        [id |-> <<Tx.txid, k - 1>>, offset |-> input_value, kind |-> "new",
         cursed |-> Cursed(fs, i, k - 1, input_value), unbound |-> total = 0 \/ k # 1]]

\* The inscriptions revealed in input i; total is the value of the inputs up
\* to and including it.
Revealed(fs, i, total) ==
    [k \in 1 .. Tx.inputs[i].envelopes |->
        [id |-> <<Tx.txid, id_counter + k - 1>>, offset |-> input_value, kind |-> "new",
         cursed |-> Cursed(fs, i, k - 1, input_value),
         unbound |-> total = 0 \/ k # 1]]

\* sort_by_key is stable: the one order that sorts fs by offset and keeps
\* equal offsets in place.
SortedBy(fs, order) ==
    \A i, j \in DOMAIN fs : i < j =>
        \/ fs[order[i]].offset < fs[order[j]].offset
        \/ fs[order[i]].offset = fs[order[j]].offset /\ order[i] < order[j]
StablySorted(fs) ==
    {[i \in DOMAIN fs |-> fs[order[i]]] :
        order \in {o \in [DOMAIN fs -> DOMAIN fs] : SortedBy(fs, o)}}

\* Mutant: the entry stays on the output the inscription leaves.
Replaced_Nothing(entries, entry) == {entries}

\* str::replace(entry, ""): the entries without those equal to entry, in
\* order (one sequence; stated through the positions that stay).
Replaced(entries, entry) ==
    LET kept == {i \in DOMAIN entries : entries[i] # entry}
        n == Cardinality(kept)
    IN  {[i \in 1 .. n |-> entries[pos[i]]] :
            pos \in {p \in [1 .. n -> kept] : \A i, j \in 1 .. n : i < j => p[i] < p[j]}}

-----------------------------------------------------------------------------
\* A fresh data directory.  output_value may have been filled beforehand by
\* index_output_value or from a snapshot.
Init ==
    /\ chain \in Chains
    /\ status = [unbound_inscriptions |-> 0, next_id_number |-> 0,
                 next_cursed_id_number |-> 0, lost_sats |-> 0, indexed_height |-> 0]
    /\ cursed_id = EmptyDB
    /\ output_value \in {EmptyDB, [o \in chain.base |-> chain.value[o]]}
    /\ id_inscription = EmptyDB
    /\ inscription_output = EmptyDB
    /\ output_inscription = EmptyDB
    /\ flotsam = <<>> /\ reward = 0 /\ unbound_inscriptions = 0
    /\ next_number = 0 /\ next_cursed_number = 0 /\ lost_sats = 0
    /\ output_inscription_cache = EmptyDB
    /\ id_inscription_wb = EmptyDB /\ inscription_output_wb = EmptyDB
    /\ tx_index = 0 /\ input_index = 0 /\ input_value = 0
    /\ id_counter = 0 /\ vout = 0 /\ placed_value = 0 /\ floating = <<>>
    /\ height = 0
    /\ pc = "idle"
    /\ reported = EmptyDB

\* The updater is dropped, and the locals go out of scope.
DropUpdater ==
    /\ flotsam' = <<>> /\ reward' = 0 /\ unbound_inscriptions' = 0
    /\ next_number' = 0 /\ next_cursed_number' = 0 /\ lost_sats' = 0
    /\ output_inscription_cache' = EmptyDB
    /\ id_inscription_wb' = EmptyDB /\ inscription_output_wb' = EmptyDB
    /\ tx_index' = 0 /\ input_index' = 0 /\ input_value' = 0
    /\ id_counter' = 0 /\ vout' = 0 /\ placed_value' = 0 /\ floating' = <<>>

-----------------------------------------------------------------------------
\* The i-th transaction in walking order is entered.
EnterTx(i) ==
    /\ tx_index' = i
    /\ input_index' = 1 /\ input_value' = 0 /\ id_counter' = 0
    /\ vout' = 1 /\ placed_value' = 0
    /\ floating' = <<>>

\* Mutant: the cursed numbers start at 0, where the blessed ones do.
LoadedCursed_FromZero == status.next_cursed_id_number

\* The cursed numbers start at -1.
LoadedCursed ==
    IF status.next_cursed_id_number = 0 THEN -1 ELSE status.next_cursed_id_number

\* The node has a block at h.
Served(h) == h \in DOMAIN chain.blocks

\* InscriptionUpdater::new loads the counters.
BeginBlock(h) ==
    /\ pc = "idle"
    /\ Served(h)
    /\ height' = h
    /\ flotsam' = <<>>
    /\ reward' = Subsidy[h]
    /\ unbound_inscriptions' = status.unbound_inscriptions
    /\ next_number' = status.next_id_number
    /\ next_cursed_number' = LoadedCursed
    /\ lost_sats' = status.lost_sats
    /\ output_inscription_cache' = EmptyDB
    /\ id_inscription_wb' = EmptyDB
    /\ inscription_output_wb' = EmptyDB
    /\ EnterTx(1)
    /\ pc' = "inputs"
    /\ UNCHANGED <<chain, storeVars, reported>>

\* A null input, the coinbase's, adds the subsidy; inscriptions in its
\* witness are not looked at.
ScanNullInput ==
    /\ pc = "inputs" /\ InputsLeft
    /\ IsNull(Tx.inputs[input_index].prev)
    /\ input_value' = input_value + Subsidy[height]
    /\ input_index' = input_index + 1
    /\ UNCHANGED <<chain, storeVars, counterVars, batchVars, blockVars, pc,
                   tx_index, id_counter, vout, placed_value, floating, reported>>

\* One round of the loop over the inputs: the inscriptions on the spent
\* output float at their offset in the transaction, then its value is added,
\* then the inscriptions revealed in this input float at its first sat.
ScanInput ==
    /\ pc = "inputs" /\ InputsLeft
    /\ ~ IsNull(Tx.inputs[input_index].prev)
    /\ LET prev == Tx.inputs[input_index].prev
           entries == Entries(output_inscription_cache, prev)
           arrived == floating \o Arriving(prev)
           total == input_value + OutputValue(prev)
       IN  /\ floating' = arrived \o Revealed(arrived, input_index, total)
           /\ input_value' = total
           /\ output_inscription_cache' = IF entries = <<>> THEN output_inscription_cache
                                          ELSE Put(output_inscription_cache, prev, entries)
    /\ id_counter' = id_counter + Tx.inputs[input_index].envelopes
    /\ input_index' = input_index + 1
    /\ UNCHANGED <<chain, storeVars, counterVars, id_inscription_wb, inscription_output_wb,
                   blockVars, pc, tx_index, vout, placed_value, reported>>

\* All inputs read: the coinbase takes over what fell into the fees of the
\* block, and everything is sorted by offset.
SortFloating ==
    /\ pc = "inputs" /\ ~ InputsLeft
    /\ floating' \in StablySorted(IF IsCoinbase(Tx) THEN floating \o flotsam ELSE floating)
    /\ flotsam' = IF IsCoinbase(Tx) THEN <<>> ELSE flotsam
    /\ pc' = "outputs"
    /\ UNCHANGED <<chain, storeVars, counterVars, batchVars, height, reward, lost_sats,
                   txVars, reported>>

-----------------------------------------------------------------------------
\* update_inscription_state, for an inscription that moves: its entry leaves
\* the old output and joins the new one, and the transfer callbacks run.
MoveInscription(f, location, offset) ==
    /\ f.kind = "old"
    /\ \E rest \in Replaced(Entries(output_inscription_cache, f.old_output),
                            <<f.id, f.old_offset>>) :
          LET emptied == Put(output_inscription_cache, f.old_output, rest)
          IN  output_inscription_cache' =
                  Put(emptied, location, Append(Entries(emptied, location), <<f.id, offset>>))
    /\ inscription_output_wb' = Put(inscription_output_wb, f.id, location)
    /\ UNCHANGED <<cursed_id, counterVars, id_inscription_wb>>

\* Mutant: the mark is the number the next cursed inscription gets.
Marked_Next(f, number) == IF f.cursed THEN Put(cursed_id, f.id, number - 1) ELSE cursed_id

\* status.put(inscription_id, number), at once.
Marked(f, number) == IF f.cursed THEN Put(cursed_id, f.id, number) ELSE cursed_id

\* update_inscription_state, for a new inscription: it is numbered, a cursed
\* one is marked in the status store at once, an unbound one goes to a key of
\* its own, and the inscribe callbacks run.
AddInscription(f, output, offset) ==
    /\ f.kind = "new"
    /\ LET number == IF f.cursed THEN next_cursed_number ELSE next_number
           location == IF f.unbound THEN Unbound(unbound_inscriptions) ELSE output
       IN  /\ cursed_id' = Marked(f, number)
           /\ next_cursed_number' = next_cursed_number - (IF f.cursed THEN 1 ELSE 0)
           /\ next_number' = next_number + (IF f.cursed THEN 0 ELSE 1)
           /\ unbound_inscriptions' = unbound_inscriptions + (IF f.unbound THEN 1 ELSE 0)
           /\ id_inscription_wb' = Put(id_inscription_wb, number, f.id)
           /\ output_inscription_cache' =
                  Put(output_inscription_cache, location,
                      Append(Entries(output_inscription_cache, location), <<f.id, offset>>))
           /\ inscription_output_wb' = Put(inscription_output_wb, f.id, location)

\* Both report the output of the transaction, also for an unbound one.
UpdateInscriptionState(output, offset) ==
    LET f == Head(floating)
    IN  /\ MoveInscription(f, output, offset) \/ AddInscription(f, output, offset)
        /\ reported' = Put(reported, f.id, output)
        /\ floating' = Tail(floating)
        /\ UNCHANGED <<chain, status, output_value, id_inscription, inscription_output,
                       output_inscription, blockVars, txVars, pc>>

\* The next floating inscription lies within the current output.
WithinOutput ==
    /\ floating # <<>>
    /\ Head(floating).offset < placed_value + Tx.outputs[vout]

PlaceOnOutput ==
    /\ pc = "outputs" /\ OutputsLeft
    /\ WithinOutput
    /\ UpdateInscriptionState(<<Tx.txid, vout - 1>>, Head(floating).offset - placed_value)

NextOutput ==
    /\ pc = "outputs" /\ OutputsLeft
    /\ ~ WithinOutput
    /\ placed_value' = placed_value + Tx.outputs[vout]
    /\ vout' = vout + 1
    /\ UNCHANGED <<chain, storeVars, counterVars, batchVars, blockVars, pc, tx_index,
                   input_index, input_value, id_counter, floating, reported>>

\* Mutant: the outputs a transaction spends stay.
ValuesAfter_NoDelete(tx) == Write(output_value, [o \in Created(tx) |-> tx.outputs[o[2] + 1]])

\* Mutant: every output gets the value of the first.
ValuesAfter_FirstOnly(tx) ==
    Write(Without(output_value, Spent(tx)), [o \in Created(tx) |-> tx.outputs[1]])

\* The batch of a transaction: outputs it spends go, outputs it creates come.
ValuesAfter(tx) ==
    Write(Without(output_value, Spent(tx)), [o \in Created(tx) |-> tx.outputs[o[2] + 1]])

WriteOutputValue ==
    /\ pc = "outputs" /\ ~ OutputsLeft
    /\ output_value' = ValuesAfter(Tx)
    /\ pc' = "settle"
    /\ UNCHANGED <<chain, status, cursed_id, id_inscription, inscription_output,
                   output_inscription, counterVars, batchVars, blockVars, txVars,
                   floating, reported>>

\* Mutant: one transaction too many.
FinishTx_OneMore ==
    /\ EnterTx(tx_index + 1)
    /\ pc' = IF tx_index <= Len(chain.blocks[height]) THEN "inputs" ELSE "flush_id_inscription"

\* Mutant: the first write of flush_update is skipped.
FinishTx_SkipsWrite ==
    /\ EnterTx(tx_index + 1)
    /\ pc' = IF tx_index < Len(chain.blocks[height]) THEN "inputs" ELSE "flush_inscription_output"

\* The walk goes on with the next transaction, or the block is done.
FinishTx ==
    /\ EnterTx(tx_index + 1)
    /\ pc' = IF tx_index < Len(chain.blocks[height]) THEN "inputs" ELSE "flush_id_inscription"

\* Mutant: the offset in the fees of the transaction, not of the block.
InFees_OwnOnly(f) == [f EXCEPT !.offset = @ - placed_value]

\* The place among the fees of the block.
InFees(f) == [f EXCEPT !.offset = reward + @ - placed_value]

\* Not the coinbase: what lies beyond the outputs is kept, at its offset in
\* the fees, for the coinbase.
SettleFees ==
    /\ pc = "settle" /\ ~ IsCoinbase(Tx)
    /\ flotsam' = flotsam \o [k \in DOMAIN floating |-> InFees(floating[k])]
    /\ reward' = reward + (input_value - placed_value)
    /\ FinishTx
    /\ UNCHANGED <<chain, storeVars, counterVars, batchVars, height, lost_sats, reported>>

\* The coinbase: what lies beyond its outputs is lost.
LoseFloating ==
    /\ pc = "settle" /\ IsCoinbase(Tx)
    /\ floating # <<>>
    /\ UpdateInscriptionState(NullOutPoint, lost_sats + Head(floating).offset - placed_value)

SettleCoinbase ==
    /\ pc = "settle" /\ IsCoinbase(Tx)
    /\ floating = <<>>
    /\ lost_sats' = lost_sats + (reward - placed_value)
    /\ FinishTx
    /\ UNCHANGED <<chain, storeVars, counterVars, batchVars, height, flotsam, reward, reported>>

-----------------------------------------------------------------------------
\* flush_update: four writes, the counters last.
FlushIdInscription ==
    /\ pc = "flush_id_inscription"
    /\ id_inscription' = Write(id_inscription, id_inscription_wb)
    /\ pc' = "flush_inscription_output"
    /\ UNCHANGED <<chain, status, cursed_id, output_value, inscription_output,
                   output_inscription, counterVars, batchVars, blockVars, txVars,
                   floating, reported>>

FlushInscriptionOutput ==
    /\ pc = "flush_inscription_output"
    /\ inscription_output' = Write(inscription_output, inscription_output_wb)
    /\ pc' = "flush_output_inscription"
    /\ UNCHANGED <<chain, status, cursed_id, output_value, id_inscription,
                   output_inscription, counterVars, batchVars, blockVars, txVars,
                   floating, reported>>

\* Mutant: locations that lost their last entry are not deleted.
ListsAfter_NoDelete ==
    LET empty == {o \in DOMAIN output_inscription_cache : output_inscription_cache[o] = <<>>}
    IN  Write(output_inscription, Without(output_inscription_cache, empty))

\* Cached locations without an entry are deleted, the others put.
ListsAfter ==
    LET empty == {o \in DOMAIN output_inscription_cache : output_inscription_cache[o] = <<>>}
    IN  Write(Without(output_inscription, empty), Without(output_inscription_cache, empty))

FlushOutputInscription ==
    /\ pc = "flush_output_inscription"
    /\ output_inscription' = ListsAfter
    /\ pc' = "flush_status"
    /\ UNCHANGED <<chain, status, cursed_id, output_value, id_inscription,
                   inscription_output, counterVars, batchVars, blockVars, txVars,
                   floating, reported>>

\* Mutant: the next number is not saved.
Counters_NumberKept ==
    [unbound_inscriptions |-> unbound_inscriptions, next_id_number |-> status.next_id_number,
     next_cursed_id_number |-> next_cursed_number, lost_sats |-> lost_sats,
     indexed_height |-> height]

\* The five named keys of the status batch.
Counters ==
    [unbound_inscriptions |-> unbound_inscriptions, next_id_number |-> next_number,
     next_cursed_id_number |-> next_cursed_number, lost_sats |-> lost_sats,
     indexed_height |-> height]

\* The updater is dropped with this write.
FlushStatus ==
    /\ pc = "flush_status"
    /\ status' = Counters
    /\ DropUpdater
    /\ pc' = "idle"
    /\ UNCHANGED <<chain, cursed_id, output_value, id_inscription, inscription_output,
                   output_inscription, height, reported>>

-----------------------------------------------------------------------------
\* The value of a spent output is not stored and the node does not answer
\* get_raw_transaction: index_transactions returns the error.
RpcFails ==
    /\ pc = "inputs" /\ InputsLeft
    /\ ~ IsNull(Tx.inputs[input_index].prev)
    /\ Tx.inputs[input_index].prev \notin DOMAIN output_value

\* The next statement writes to a store, and the write returns an error.  A
\* batch without entries is not written.
WriteFails ==
    \/ pc = "outputs" /\ ~ OutputsLeft
    \/ /\ pc \in {"outputs", "settle"} /\ floating # <<>>
       /\ Head(floating).kind = "new" /\ Head(floating).cursed
       /\ pc = "outputs" => OutputsLeft /\ WithinOutput
       /\ pc = "settle" => IsCoinbase(Tx)
    \/ pc = "flush_id_inscription" /\ id_inscription_wb # EmptyDB
    \/ pc = "flush_inscription_output" /\ inscription_output_wb # EmptyDB
    \/ pc = "flush_output_inscription" /\ output_inscription_cache # EmptyDB
    \/ pc = "flush_status"

\* The error leaves start(); the updater is dropped and the stores stay.
Fail ==
    /\ RpcFails \/ WriteFails
    /\ DropUpdater
    /\ pc' = "failed"
    /\ UNCHANGED <<chain, storeVars, height, reported>>

IndexStep ==
    \/ ScanNullInput \/ ScanInput \/ SortFloating
    \/ PlaceOnOutput \/ NextOutput \/ WriteOutputValue
    \/ SettleFees \/ LoseFloating \/ SettleCoinbase
    \/ FlushIdInscription \/ FlushInscriptionOutput
    \/ FlushOutputInscription \/ FlushStatus

Next == BeginBlock(height + 1) \/ IndexStep \/ Fail

Spec == Init /\ [][Next]_vars

-----------------------------------------------------------------------------
\* What the updater has on record: the stores, overlaid by what is not
\* flushed yet.
Numbered == Write(id_inscription, id_inscription_wb)
Located == Write(inscription_output, inscription_output_wb)
Held == Write(output_inscription, output_inscription_cache)

\* The numbers the next blessed and the next cursed inscription will get.
NextBlessed == IF pc = "idle" THEN status.next_id_number ELSE next_number
NextCursed ==
    LET number == IF pc = "idle" THEN status.next_cursed_id_number ELSE next_cursed_number
    IN  IF number = 0 THEN -1 ELSE number

\* The state between two blocks or within one, not after a failed write.
Working == pc # "failed"

\* The types of the variables; chain is one of Chains and never changes.
TypeOK ==
    /\ status \in [unbound_inscriptions : Nat, next_id_number : Nat,
                   next_cursed_id_number : Int, lost_sats : Int, indexed_height : Nat]
    /\ IsStore(cursed_id, Id, Int)
    /\ IsStore(output_value, OutPoint, Nat)
    /\ IsStore(id_inscription, Int, Id)
    /\ IsStore(inscription_output, Id, Location)
    /\ IsStore(output_inscription, Location, Seq(Entry))
    /\ height \in 0 .. Len(chain.blocks)
    /\ flotsam \in Seq(Flotsam)
    /\ reward \in Int /\ lost_sats \in Int
    /\ unbound_inscriptions \in Nat /\ next_number \in Nat /\ next_cursed_number \in Int
    /\ IsStore(output_inscription_cache, Location, Seq(Entry))
    /\ IsStore(id_inscription_wb, Int, Id)
    /\ IsStore(inscription_output_wb, Id, Location)
    /\ pc \in {"idle", "inputs", "outputs", "settle", "flush_id_inscription",
               "flush_inscription_output", "flush_output_inscription", "flush_status", "failed"}
    /\ tx_index \in Nat /\ input_index \in Nat /\ vout \in Nat /\ id_counter \in Nat
    /\ pc \in {"inputs", "outputs", "settle"} =>
          /\ height # 0 /\ tx_index \in 1 .. Len(chain.blocks[height])
          /\ input_index # 0 /\ vout # 0
    /\ input_value \in Int /\ placed_value \in Int
    /\ floating \in Seq(Flotsam)
    /\ IsStore(reported, Id, OutPoint)

\* Numbers are handed out without gaps, the blessed upwards from 0 and the
\* cursed downwards from -1, and no inscription gets two of them: over the
\* blocks, with the counters reloaded from status for each one.
NumbersDense ==
    Working =>
        /\ DOMAIN Numbered = (NextCursed + 1 .. -1) \cup (0 .. NextBlessed - 1)
        /\ \A m, n \in DOMAIN Numbered : Numbered[m] = Numbered[n] => m = n

\* The mark that decides whether a reinscription is cursed is visible at once
\* and agrees with the number, which reaches its store only after the block.
CursedMarked ==
    Working =>
        /\ DOMAIN cursed_id = {Numbered[n] : n \in {m \in DOMAIN Numbered : m < 0}}
        /\ \A id \in DOMAIN cursed_id :
              cursed_id[id] \in DOMAIN Numbered /\ Numbered[cursed_id[id]] = id

\* Every numbered inscription is in one place: it has one entry, in the list
\* of the location its own record names, and no list holds anything else;
\* also while it floats within a block and while the stores are written.
OnePlaceEach ==
    Working =>
        /\ DOMAIN Located = {Numbered[n] : n \in DOMAIN Numbered}
        /\ \A o \in DOMAIN Held : \A k \in DOMAIN Held[o] :
              Held[o][k][1] \in DOMAIN Located /\ Located[Held[o][k][1]] = o
        /\ \A id \in DOMAIN Located :
              /\ Located[id] \in DOMAIN Held
              /\ Cardinality({k \in DOMAIN Held[Located[id]] : Held[Located[id]][k][1] = id}) = 1

\* The counters are the last thing a block writes: whatever happens before, a
\* number below them has its inscription on record, with a location, and the
\* cursed one its mark.
CountersTrailStores ==
    \A n \in (status.next_cursed_id_number + 1 .. -1) \cup (0 .. status.next_id_number - 1) :
        /\ n \in DOMAIN id_inscription
        /\ id_inscription[n] \in DOMAIN inscription_output
        /\ n < 0 => id_inscription[n] \in DOMAIN cursed_id /\ cursed_id[id_inscription[n]] = n

\* The subtractions on u64 when a transaction is settled never go below zero,
\* and neither do the offsets they produce.
NoUnderflow ==
    /\ pc = "settle" => placed_value <= IF IsCoinbase(Tx) THEN reward ELSE input_value
    /\ \A k \in DOMAIN floating : floating[k].offset >= placed_value
    /\ \A k \in DOMAIN flotsam : flotsam[k].offset >= 0
    /\ \A o \in DOMAIN Held : \A k \in DOMAIN Held[o] : Held[o][k][2] >= 0

\* The events of an inscription chain up: when a block moves it on, the output
\* it comes from is the one the callbacks last reported it on.
TransfersChain ==
    \A f \in {floating[k] : k \in DOMAIN floating} \cup {flotsam[k] : k \in DOMAIN flotsam} :
        f.kind = "old" => f.id \in DOMAIN reported /\ reported[f.id] = f.old_output

\* Of the inscriptions that share a sat of an output at most one is blessed,
\* whichever way and in whichever transactions they came to share it.
OneBlessedPerSat ==
    pc = "idle" =>
        \A o \in DOMAIN output_inscription : \A j, k \in DOMAIN output_inscription[o] :
            LET e == output_inscription[o][j]
                f == output_inscription[o][k]
            IN  j # k /\ e[2] = f[2]
                    => e[1] \in DOMAIN cursed_id \/ f[1] \in DOMAIN cursed_id

\* A number once stored names the same inscription for ever, and so does the
\* mark of a cursed one.
NumbersStay ==
    [][ /\ \A n \in DOMAIN id_inscription :
              n \in DOMAIN id_inscription' /\ id_inscription'[n] = id_inscription[n]
        /\ \A id \in DOMAIN cursed_id :
              id \in DOMAIN cursed_id' /\ cursed_id'[id] = cursed_id[id] ]_vars

\* The numbers that the counters, the last write of a block, vouch for.
Settled == (status.next_cursed_id_number + 1 .. -1) \cup (0 .. status.next_id_number - 1)

Reg == INSTANCE Registry WITH
    numbers <- Numbered, places <- Located, settled <- Settled, open <- Working

\* Batches, cache and the four writes of a block, as seen from outside, are a
\* register that grows by one inscription at a time and settles with a block; an
\* error between any two writes loses nothing that was settled before.
ImplementsRegistry == Reg!RegistrySpec
=============================================================================
