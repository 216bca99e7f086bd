-------------------------------- MODULE Ordi --------------------------------
(***************************************************************************)
(* src/lib.rs: the life of a process around the updater.  new() opens the  *)
(* stores and reads the block index of the node; start() indexes what the  *)
(* index knows, always from the first height, and then follows the node    *)
(* block by block.  An error ends start(); the client program ends with it *)
(* and closes the stores.  A crash does not: nothing is ever written with  *)
(* sync, so each store on disk keeps some prefix of what was written to it *)
(* since it was opened.  output_inscription lives in memory and is empty   *)
(* in every new process, while the counters of status go on.  A client may *)
(* also keep the Ordi and call start() again, over the lists it has.       *)
(*                                                                         *)
(* A block of the index is read from its blk file, and its transactions    *)
(* have their txids.  A block above it comes over RPC, and the hash the    *)
(* program makes of a transaction is not its txid (module TxBytes), while  *)
(* the inputs of later transactions name the txid.                         *)
(*                                                                         *)
(* Block h of the chain is the block at FIRST_INSCRIPTION_HEIGHT + h - 1.  *)
(***************************************************************************)
EXTENDS SatTracking

CONSTANTS
    NodeChains,         \* the chains the node may have
    RpcHash(_),         \* the hash of a transaction that came over RPC, by txid
    MaxStops            \* bound: so many errors and crashes

VARIABLES
    mode,               \* the process: "closed", "open", "catch_up", "tail"
    max_height,         \* Index.max_height
    next_height,        \* the local of start()
    node_chain,         \* the node: its chain; chain is how the indexer sees it
    served,             \* the node: how many blocks it has
    survivors,          \* for each store on disk, what a crash may leave of it
    stops,              \* errors and crashes so far
    lists,              \* observer: whether a start() went on over older lists
    reached             \* observer: the highest block any process began

processVars == <<mode, max_height, next_height>>
ordiVars == <<vars, processVars, node_chain, served, survivors, stops, lists, reached>>

-----------------------------------------------------------------------------
\* Block::from(bitcoin::Block): every transaction gets the hash of its
\* re-encoding; the inputs stay what they are.
OverRpc(block) == [i \in DOMAIN block |-> [block[i] EXCEPT !.txid = RpcHash(@)]]

\* The values of a chain's outpoints, under either id.
Known(c) ==
    LET received == UNION {Created([tx EXCEPT !.txid = RpcHash(@)]) : tx \in Transactions(c)}
    IN  Write(c.value, [o \in received |-> c.value[CHOOSE p \in DOMAIN c.value :
                                                       <<RpcHash(p[1]), p[2]>> = o]])

\* Chain c as a process receives it whose block index ends at block h.
Received(c, h) ==
    [blocks |-> [g \in DOMAIN c.blocks |-> IF g <= h THEN c.blocks[g] ELSE OverRpc(c.blocks[g])],
     base |-> c.base, value |-> Known(c)]

\* Assumed of the hash: what is received is a chain, too; two transactions
\* never get the same id, and none gets one that the node knows.
ASSUME ReceivedAssumption ==
    \A c \in NodeChains :
        /\ Len(c.blocks) \in Nat /\ DOMAIN c.blocks = 1 .. Len(c.blocks)
        /\ \A h \in 0 .. Len(c.blocks) : Received(c, h) \in Chains
        /\ \A tx \in Transactions(c) : \A o \in DOMAIN c.value : o[1] # RpcHash(tx.txid)

-----------------------------------------------------------------------------
\* The stores on disk.  The marks of the cursed are part of status.
OnDisk == [status |-> <<status, cursed_id>>, output_value |-> output_value,
           id_inscription |-> id_inscription, inscription_output |-> inscription_output]

\* Every state of a store since it was opened may be the one a crash leaves.
Record == survivors' = [s \in DOMAIN survivors |-> survivors[s] \cup {OnDisk'[s]}]

OrdiInit ==
    /\ node_chain \in NodeChains
    /\ chain = Received(node_chain, 0)
    /\ Init
    /\ mode = "closed" /\ max_height = 0 /\ next_height = 0
    /\ served = 0
    /\ survivors = [s \in DOMAIN OnDisk |-> {OnDisk[s]}]
    /\ stops = 0
    /\ lists = "fresh"
    /\ reached = 0

\* The node gets a block.
Mine ==
    /\ served < Len(node_chain.blocks)
    /\ served' = served + 1
    /\ UNCHANGED <<vars, processVars, node_chain, survivors, stops, lists, reached>>

-----------------------------------------------------------------------------
\* Mutant: indexing resumes behind the last block that was indexed.
FirstHeight_Resumed == status.indexed_height + 1

\* FIRST_INSCRIPTION_HEIGHT
FirstHeight == 1

\* Mutant: the lists are on disk like the other stores.
ListsOpened_OnDisk == output_inscription

\* rusty_leveldb::in_memory()
ListsOpened == EmptyDB

\* Ordi::new: the stores are opened, and the block index is read, in which the
\* node's latest blocks may be missing.
Open ==
    /\ mode = "closed"
    /\ mode' = "open"
    /\ output_inscription' = ListsOpened
    /\ max_height' \in 0 .. served
    /\ chain' = Received(node_chain, max_height')
    /\ survivors' = [s \in DOMAIN OnDisk |-> {OnDisk[s]}]
    /\ lists' = IF lists = "fresh" THEN "fresh" ELSE "fresh_again"
    /\ UNCHANGED <<status, cursed_id, output_value, id_inscription, inscription_output,
                   counterVars, batchVars, blockVars, txVars, pc, floating, reported,
                   next_height, node_chain, served, stops, reached>>

\* index_output_value, which a client may call before start(): the outputs that
\* were unspent before the first height.  It writes once per transaction.
Refilled(outpoints) == Write(output_value, [o \in outpoints |-> chain.value[o]])

IndexOutputValue ==
    /\ mode = "open"
    /\ output_value' = Refilled(chain.base)
    /\ survivors' = [survivors EXCEPT !.output_value =
                        @ \cup {Refilled(outpoints) : outpoints \in SUBSET chain.base}]
    /\ UNCHANGED <<chain, status, cursed_id, id_inscription, inscription_output,
                   output_inscription, counterVars, batchVars, blockVars, txVars, pc, floating,
                   reported, processVars, node_chain, served, stops, lists, reached>>

Start ==
    /\ mode = "open"
    /\ mode' = "catch_up"
    /\ next_height' = max_height + 1
    /\ pc' = "idle"
    /\ height' = FirstHeight - 1
    /\ UNCHANGED <<chain, storeVars, counterVars, batchVars, flotsam, reward, lost_sats, txVars,
                   floating, reported, max_height, node_chain, served, survivors, stops, lists,
                   reached>>

-----------------------------------------------------------------------------
\* Mutant: the loop ends before the last block of the index.
CatchUpLeft_StopsEarly == height + 2 < next_height

\* for height in FIRST_INSCRIPTION_HEIGHT..next_height
CatchUpLeft == height + 1 < next_height

\* Mutant: only a block with another one on top of it is fetched.
TailLeft_Buried == next_height < served

\* get_block_hash(next_height) is Ok.  When it is not, the thread sleeps and
\* asks again: a step that changes nothing.
TailLeft == next_height <= served

BlockToIndex(h) ==
    /\ BeginBlock(h)
    /\ reached' = IF h > reached THEN h ELSE reached
    /\ UNCHANGED <<processVars, node_chain, served, survivors, stops, lists>>

CatchUp == mode = "catch_up" /\ CatchUpLeft /\ BlockToIndex(height + 1)

CaughtUp ==
    /\ mode = "catch_up" /\ pc = "idle" /\ ~ CatchUpLeft
    /\ mode' = "tail"
    /\ UNCHANGED <<vars, max_height, next_height, node_chain, served, survivors, stops, lists,
                   reached>>

Follow == mode = "tail" /\ TailLeft /\ BlockToIndex(next_height)

\* next_height += 1, in the second loop when index_transactions is through.
HeightDone == IF mode = "tail" /\ pc = "flush_status" THEN next_height + 1 ELSE next_height

\* A step of index_transactions.
Step ==
    /\ IndexStep
    /\ next_height' = HeightDone
    /\ Record
    /\ UNCHANGED <<mode, max_height, node_chain, served, stops, lists, reached>>

-----------------------------------------------------------------------------
\* start(), or what was called in front of it, is over, once more.
Stopped ==
    /\ stops < MaxStops
    /\ stops' = stops + 1
    /\ UNCHANGED <<max_height, next_height, node_chain, served, reached>>

\* index_output_value returns an error: catch_block's or a write's, with the
\* outputs of any of its transactions stored.  The client ends, or goes on with
\* what it has.
IndexOutputValueFails ==
    /\ mode = "open"
    /\ \E outpoints \in SUBSET chain.base :
          /\ output_value' = Refilled(outpoints)
          /\ survivors' = [survivors EXCEPT !.output_value =
                              @ \cup {Refilled(written) : written \in SUBSET outpoints}]
    /\ mode' \in {"closed", "open"}
    /\ Stopped
    /\ UNCHANGED <<chain, status, cursed_id, id_inscription, inscription_output,
                   output_inscription, counterVars, batchVars, blockVars, txVars, pc, floating,
                   reported, lists>>

\* The process ends.
Ended == Stopped /\ mode' = "closed" /\ UNCHANGED lists

\* start() returns an error.  Either the client ends, and Drop closes the
\* stores, or it keeps the Ordi and calls start() again.
Returned == Ended \/ (Stopped /\ mode' = "open" /\ lists' = "reused")

\* index_transactions returns an error; what was written stays.
StepFails == Fail /\ Returned /\ UNCHANGED survivors

\* catch_block or get_block returns an error.
FetchFails ==
    /\ pc = "idle"
    /\ (mode = "catch_up" /\ CatchUpLeft) \/ (mode = "tail" /\ TailLeft)
    /\ Returned
    /\ UNCHANGED <<vars, survivors>>

\* The process, or the machine, dies at any point.
Crash ==
    /\ mode # "closed"
    /\ \E kept \in survivors.status : status' = kept[1] /\ cursed_id' = kept[2]
    /\ output_value' \in survivors.output_value
    /\ id_inscription' \in survivors.id_inscription
    /\ inscription_output' \in survivors.inscription_output
    /\ output_inscription' = EmptyDB
    /\ DropUpdater
    /\ pc' = "failed"
    /\ Ended
    /\ UNCHANGED <<chain, height, reported, survivors>>

OrdiNext ==
    \/ Mine
    \/ Open \/ IndexOutputValue \/ Start
    \/ CatchUp \/ CaughtUp \/ Follow \/ Step
    \/ IndexOutputValueFails \/ StepFails \/ FetchFails \/ Crash

OrdiSpec == OrdiInit /\ [][OrdiNext]_ordiVars

\* The thread of start() goes on when it can, an ended process is started
\* again, and the node gets its blocks.
OrdiFairSpec ==
    /\ OrdiSpec
    /\ WF_ordiVars(Open \/ Start \/ CatchUp \/ CaughtUp \/ Follow \/ Step)
    /\ WF_ordiVars(Mine)

-----------------------------------------------------------------------------
\* What a crash may leave of a store is well typed.
SurvivorsOK ==
    /\ DOMAIN survivors = {"status", "output_value", "id_inscription", "inscription_output"}
    /\ \A kept \in survivors.status :
          /\ kept[1] \in [unbound_inscriptions : Nat, next_id_number : Nat,
                          next_cursed_id_number : Int, lost_sats : Int, indexed_height : Nat]
          /\ IsStore(kept[2], Id, Int)
    /\ \A kept \in survivors.output_value : IsStore(kept, OutPoint, Nat)
    /\ \A kept \in survivors.id_inscription : IsStore(kept, Int, Id)
    /\ \A kept \in survivors.inscription_output : IsStore(kept, Id, Location)

\* The types of the process, over any number of restarts.
OrdiTypeOK ==
    /\ TypeOK
    /\ mode \in {"closed", "open", "catch_up", "tail"}
    /\ served \in 0 .. Len(node_chain.blocks)
    /\ max_height \in 0 .. served
    /\ next_height \in 0 .. served + 1
    /\ stops \in Nat /\ reached \in 0 .. Len(node_chain.blocks)
    /\ lists \in {"fresh", "reused", "fresh_again"}
    /\ SurvivorsOK

\* The two loops of start() meet: the second fetches the height right after the
\* last one the first has indexed, whatever the block index had, and neither
\* leaves one out or takes one twice.
LoopsMeet ==
    /\ mode = "catch_up" => height < next_height
    /\ mode = "tail" => next_height = IF pc = "idle" THEN height + 1 ELSE height

\* A stored value is the value of its output, at any time and in every process,
\* also where a crash took deletions back.
ValuesRight == \A o \in DOMAIN output_value : output_value[o] = chain.value[o]

\* Between two blocks, with every block indexed again that an earlier process
\* had begun.
Recovered == mode \in {"catch_up", "tail"} /\ pc = "idle" /\ height >= reached

\* The ledger after the blocks that came from disk.
OnDiskLedger == Ledger(node_chain)[IF height < max_height THEN height ELSE max_height]

\* Every list entry is where the record of its inscription says, and no
\* inscription has two.
EntriesRecorded ==
    \A o \in DOMAIN Held :
        /\ \A k \in DOMAIN Held[o] : Located[Held[o][k][1]] = o
        /\ \A j, k \in DOMAIN Held[o] : Held[o][j][1] = Held[o][k][1] => j = k

\* Whatever crashes and errors left on disk, once a new process has come as far
\* as the old ones every list entry is where the record of its inscription
\* says, and every inscription made in a block from disk that no block over
\* RPC has moved has one entry, on its sat.  Only the lost sats are counted on:
\* their numbers start at what was counted before.
PlacesRecover ==
    Recovered /\ lists # "reused" =>
        LET disk == OnDiskLedger
            now == Ledger(node_chain)[height]
            counted == status.lost_sats - Len(now.lost)
            rested == {id \in DOMAIN disk.inscribed :
                          \/ disk.inscribed[id] \in Sats(disk.lost)
                          \/ \E o \in DOMAIN disk.sats \cap DOMAIN now.sats :
                                disk.inscribed[id] \in Sats(disk.sats[o])}
        IN  /\ EntriesRecorded
            /\ \A id \in rested :
                  /\ OnItsSat(now, id, counted)
                  /\ Cardinality({k \in DOMAIN Held[Located[id]] :
                                     Held[Located[id]][k][1] = id}) = 1

\* The stored outputs are then the unspent ones again: what a crash brought
\* back is deleted, and what it lost is written once more, if its block came
\* from disk.  Outputs stored under an id no input names stay for ever.
ValuesRecover ==
    Recovered =>
        LET unspent == DOMAIN Ledger(node_chain)[height].sats
        IN  /\ DOMAIN output_value \cap DOMAIN node_chain.value \subseteq unspent
            /\ (DOMAIN OnDiskLedger.sats \cap unspent) \ node_chain.base
                   \subseteq DOMAIN output_value

\* The inscription has its own id, that of a transaction of the node.
HasItsId(id) ==
    \E h \in DOMAIN node_chain.blocks : \E i \in DOMAIN node_chain.blocks[h] :
        node_chain.blocks[h][i].txid = id[1]

\* An inscription that has its id is cursed by every process that indexes it or
\* by none: the marks an earlier process left do not change what a later one
\* decides.
CurseStable ==
    lists = "fresh" =>
        \A m \in DOMAIN Numbered :
            m >= 0 /\ HasItsId(Numbered[m]) =>
                /\ Numbered[m] \notin DOMAIN cursed_id
                /\ \A n \in DOMAIN Numbered : Numbered[n] = Numbered[m] => n >= 0

\* After finitely many errors and crashes every block the node gets is indexed,
\* and the process waits for the next one.
ReachesTip == <>[](mode = "tail" /\ pc = "idle" /\ height = Len(node_chain.blocks))
=============================================================================
