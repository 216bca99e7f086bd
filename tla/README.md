# Verification of ordi

`ordi` is a light indexer for ordinals: it reads the blocks of a Bitcoin node,
finds the inscriptions in them, numbers them, follows them from output to
output, and reports every inscription and transfer to callbacks. This directory
holds TLA+ models of it, the TLC configurations that check them, and theorems
about them that TLAPS proves for every value of the constants.

Source paths below are relative to the repository (`src/block.rs` is the file
of the crate `ordi`).

## 1. The system

| Component | Source | State it keeps | Operations |
|---|---|---|---|
| **Ordi** | `src/lib.rs` | five key-value stores: `status`, `output_value`, `id_inscription`, `inscription_output` (on disk), `output_inscription` (in memory); the block index; callbacks | `new`, `index_output_value`, `start`, `close`, `when_inscribe`, `when_transfer` |
| **BlockUpdater / InscriptionUpdater** | `src/block.rs` | per block: write batches, a cache of `output_inscription`, the counters, `flotsam` (inscriptions in the fees), `reward` (subsidy and fees); writes all five stores | `index_transactions`, `index_inscriptions_in_transaction`, `update_inscription_state`, `flush_update` |
| **Block index** | `src/bitcoin/index.rs`, `blk.rs` | block entries by height, largest height, largest height per blk file, open files | `Index::new`, `catch_block`, `BLK::open/close/read_block`, `read_varint` |
| **Transactions and their encoding** | `src/bitcoin/proto/tx.rs`, `varuint.rs`, `mod.rs`, `block_reader.rs` | none | reading a block, conversion of an RPC transaction, serialisation, `double_sha256` |
| **InscriptionParser** | `src/inscription.rs` | position in a script | `parse`, `parse_one_inscription`, ... |
| **Script evaluation** | `src/bitcoin/proto/script/` | position in a script, a stack | `eval_from_bytes`: the address of an output |
| **Subsidy, merkle root** | `src/epoch.rs`, `height.rs`, `src/bitcoin/common/utils.rs`, `proto/block.rs` | none | `subsidy`, `get_base_reward`, `merkle_root` |
| **dump-event** | `src/dump-event/main.rs` | none | an example client |

One thread does everything. `start()` first walks the heights the block index
knows (from `FIRST_INSCRIPTION_HEIGHT`) and then asks the node for the block at
the next height, for ever. Each block goes to a fresh `BlockUpdater`, which
borrows the stores. A transaction's input values come from `output_value`, or
from the node when they are not there. Results gather in the updater and are
flushed store by store when the block is done; only output values (per
transaction) and the marks of cursed inscriptions (at once) bypass the batches.
Callbacks run in the middle of it.

What makes this hard is not concurrency but bookkeeping over time: an
inscription's place is an output and an offset, recomputed at every transfer
from sums over inputs, outputs, fees and all earlier blocks; the same fact is in
up to three places (store, cache, batch) with different delays; several writes
make up a block and any of them may fail.

### What makes each component correct

- **InscriptionUpdater** - an inscription stays on the sat it was made on
  (ordinal theory); it is on record in exactly one place; numbers are dense and
  final; the marks that decide curses agree with the numbers; counters never run
  ahead of the stores; sums never go below zero; the events of an inscription
  form a chain.
- **Ordi** - every block the node serves is indexed, once and in order, also
  over crashes, retries, restarts and reorganisations; what is on record
  afterwards is what an undisturbed run would have.
- **Block index** - the entry used for a height is a block of the best chain
  whose data is on disk; files are closed when they are not needed any more; the
  integers of the index are read exactly.
- **Encoding** - a block is read to its end, field by field, without losing the
  place; the id of a transaction is the hash of its network encoding.
- **InscriptionParser** - all complete envelopes of an input are found, and
  only those, numbered in order.
- **Script evaluation** - an address is made of the bytes the script pays to,
  and of all of them.

## 2. The modules

| Module | What it is |
|---|---|
| `LevelDB` | the stores: a store is a function from the keys that are present; `Put`, `Without`, `Write` |
| `Chain` | blocks, transactions, outpoints; the constants `Chains`, `MaxVout`, `Subsidy` and what is assumed of them |
| `Registry` | abstract: a register of numbered inscriptions and their places, what the updater promises to the outside |
| `InscriptionUpdater` | the state machine of `src/block.rs`: one action per loop round or statement that changes state; implements `Registry` |
| `Ordinals` | ordinal theory as an abstract ledger of sats: outputs are sequences of sats, passed on first-in first-out |
| `SatTracking` | the updater beside the ledger: what the stores must say between two blocks |
| `Ordi` | the process around the updater: opening, the two loops of `start()`, errors, a second `start()`, crashes, restarts; composes `SatTracking` with the node and the disk |
| `Follower` | the two loops of `start()` beside a node that reorganises its chain, without the stores |
| `BlkIndex` | `src/bitcoin/index.rs` and `blk.rs`: the index by height, and the blk files that are opened and closed over it |
| `Varint` | `read_varint`: an integer of the index, byte by byte |
| `TxBytes` | the bytes the program makes of a transaction, its hash, the conversion of one received over RPC, the merkle root |
| `BlockReader` | `src/bitcoin/block_reader.rs`: a block read from a blk file, one field after the other |
| `InscriptionParser` | `src/inscription.rs`: the functions that read the instructions of a script |
| `ScriptEval` | `src/bitcoin/proto/script/`: the two evaluators of an output's script |
| `MCSatTracking`, `MCOrdi`, `MCBlkIndex`, `MCVarint`, `MCBlockReader`, `MCInscriptionParser`, `MCScriptEval` | inputs for TLC: small chains grown block by block, indexes, blocks, scripts |
| `InscriptionUpdaterProofs`, `OrdiProofs`, `FollowerProofs`, `BlockReaderProofs`, `BlkIndexProofs`, `VarintProofs`, `InscriptionParserProofs`, `ScriptEvalProofs` | the proofs (section 5) |

How they fit together: `Ordi` extends `SatTracking`, which extends
`InscriptionUpdater` and `Ordinals`, which extend `Chain` and `LevelDB`. The
other modules are the parts whose results these take as given, and each states
what is taken: `BlkIndex` which block the index gives for a height, `Follower`
which blocks `start()` indexes, `BlockReader` and `TxBytes` that a transaction
from disk has its txid and one over RPC has another id (the constant `RpcHash` of
`Ordi`; its assumption is the lemma `RpcIdsApart` of `BlockReaderProofs`),
`InscriptionParser` the number of envelopes per input.

### Correspondence with the code

**`InscriptionUpdater`.** The variables carry the names of the code. The five
stores are functions; `status` holds the five named counters and `cursed_id` the
part of the same store that is keyed by inscription id. `pc` is the statement
that runs next; the locals of `index_inscriptions_in_transaction` are
`input_index`, `input_value`, `id_counter`, `floating` (before sorting
`floating_inscriptions`, then the iterator `inscriptions`), `vout` and
`placed_value` (the local `output_value`). `reported` is an observer: the output
the callbacks last named for an inscription.

| Action | Code |
|---|---|
| `BeginBlock` | `InscriptionUpdater::new`: counters loaded from `status`, cursed ones from -1 |
| `ScanNullInput`, `ScanInput` | a round of the loop over the inputs: arriving inscriptions, input value, revealed inscriptions with curse and `unbound` |
| `SortFloating` | the coinbase takes over `flotsam`; `sort_by_key` |
| `PlaceOnOutput`, `NextOutput` | the loops over the outputs |
| `WriteOutputValue` | `self.output_value.write(wb)` |
| `SettleFees` | not the coinbase: the rest goes to `flotsam`, the fee to `reward` |
| `LoseFloating`, `SettleCoinbase` | the coinbase: the rest is lost |
| `FlushIdInscription` ... `FlushStatus` | the four writes of `flush_update`, in order |
| `Fail` | a `?` that returns: the node does not answer for an input's value, or a write fails; the updater's state is gone, the stores stay |

`update_inscription_state` is the operator `UpdateInscriptionState`, with one
disjunct for an inscription that moves and one for a new one.

Strings are modelled by what they mean: the list `/id:offset/id:offset` of a
location is a sequence of entries `<<id, offset>>`, and removing a substring is
removing the entries equal to it (`Replaced`). That equals the code's string
`replace` as long as no entry is a proper prefix of another in the same list,
which needs two entries of one inscription in one list; `OnePlaceEach` excludes
those. The body of an inscription, its content type, the address of an output
and timestamps only travel through to the callbacks and are left out; so is
logging.

**`Registry`** is implemented under the mapping `numbers <- Numbered` (the store
`id_inscription` overlaid by its batch), `places <- Located` (the same of
`inscription_output`), `settled <- Settled` (the numbers the counters in
`status` vouch for), `open <- Working` (no error so far). Most steps of the
updater are stutters of it; `AddInscription` is `Register`, `MoveInscription` is
`Move`, the last of the four writes is `Settle`, an error at any point is
`Abort`, which must not lose a settled number or its place.

**`Ordi`** uses the updater's actions through `BeginBlock`, `IndexStep` and
`Fail`, and adds:

| Action | Code |
|---|---|
| `Mine` | the node gets a block (external) |
| `Open` | `Ordi::new`: stores opened, `output_inscription` empty, `max_height` any height the node may have written to its index so far |
| `IndexOutputValue` | `index_output_value`, allowed between `new` and `start` |
| `Start` | the first line of `start()`: `next_height = max_height + 1` |
| `CatchUp`, `CaughtUp` | a round of the first loop, and its end |
| `Follow` | a round of the second loop whose `get_block_hash` is `Ok` |
| `Step` | a step of `index_transactions`; after the last one in the second loop, `next_height += 1` |
| `IndexOutputValueFails` | a `?` in `index_output_value`: the outputs of any of its transactions are stored; the client ends, or keeps the `Ordi` and may call `index_output_value` or `start()` |
| `StepFails`, `FetchFails` | a `?` in `start()`: either the client ends and `Drop` closes the stores, or it keeps the `Ordi` and calls `start()` again, over the lists in memory |
| `Crash` | the process or the machine dies, at any point |

`node_chain` is what the node has, with txids; `chain` is how this process sees
it, and depends on where its block index ends: a block above is received over
RPC (`OverRpc`), and its transactions have other ids than the ones later inputs
name. Every write of the program has `sync` false. A store on disk therefore
comes back after a crash with a prefix of what was written to it since it was
opened, each store with a prefix of its own: `survivors` holds, for each store,
every state it has had, and `Crash` picks one for each. `status` and the marks of
cursed inscriptions are one store and are picked together. An error of
`get_block_hash` makes the thread sleep and ask again, a step that changes
nothing. Observers: `lists` tells whether a `start()` went on over older lists,
`reached` how far any process came.

**`Follower`.** A block is the path from the genesis block that leads to it.
`Mine` gives the node a block on any branch and may let it go over to the longer
chain, or not, where the block failed the checks or is not connected yet; `Open`
gives an index with, for each height, a block of any branch, and of any length,
also one that ends below `FIRST_INSCRIPTION_HEIGHT` or above the node's chain. The
node leaves its chain only for a longer one (`invalidateblock` is left out). `Ask` is an
answer to `get_block_hash`, `Fetch` is `get_block` of that hash and the indexing
of the block; the node may reorganise between the two. `Fails` is any `?` of
`start()`.

**`BlkIndex`.** `ParseEntry` is a round of the loop of
`parse_index_for_ordinals`, in key order (hashes: any order of heights); `Passes`
is its mask, of which one bit is enough. `Walk` starts one of the two loops over
heights a client can run, `CatchBlock` is `catch_block` with `BLK::open`,
`read_block` and `close` (`blks` says which files are open), `Panic` are its two
`expect`s and, in a build that checks for overflow, the `data_offset - 4` of an entry
without data, whose read otherwise fails. The entry of a height, the largest height of a file and the largest
height of all are kept apart, as in the code.

**`Varint`.** `Step` is a round of the loop, with the sum as wrapping arithmetic,
the test in front of the shift and the one in front of the increment. `exact` is
an observer that does not wrap.

**`TxBytes` and `BlockReader`.** Bytes are tuples of the fields they are made
of, which loses nothing, since every field has a fixed length or its length in
front. `VarUint` keeps its value and its bytes; `FromU32` and `FromU64` are the
conversions used for counts and script lengths received over RPC, `CompactSize`
is what the network writes. A hash is an injective function. The actions of
`BlockReader` are the reads of `read_block`, `read_tx`, `read_tx_inputs`,
`read_tx_outputs` and the witness loops, each with all the fields it reads;
`Eof` is the error of `read_exact` on a file that ends early.

**`InscriptionParser`.** An instruction is one of eight kinds that the functions
tell apart, or `"bad"`, one that cannot be decoded. `at` is the function that
runs: `Match` (`advance_into_inscription_envelope`, `match_instructions`), `Field`
and `Body` (the loops of `parse_one_inscription`), `NoMore` and `Yields` (its
returns, seen by `parse_inscriptions`), `Extend` (`parse` and
`from_transaction`). A witness with an annex has the annex itself taken for the
script: `nth(len - 1)` is the last element.

**`ScriptEval`.** Scripts are sequences of bytes. `EvalBitcoin` is
`eval_from_bytes_bitcoin`, on the library's tests; `Load`, `UnexpectedEof` and
`EvalStack` are the evaluator of `custom.rs`, one opcode at a time. It runs only
for coins whose version id is neither `0x00` nor `0x6f`, of which the program
has none at present.

## 3. The runs

Deadlock is not checked in any of them: each system really stops, where the
chain ends, where `start()` returned an error, where an input was read, or where a
bound on faults is reached.

| Run | Instance | What it shows |
|---|---|---|
| `transfers` | two blocks; outputs of 0, 1 and 2 sats, one or two inputs each, split, merged, or left to fees; coinbases that claim all, part or nothing | `FollowsItsSat`, `OnUnspentOutputs`, `ValuesMatchLedger` (agreement with ordinal theory), `OnePlaceEach`, `TransfersChain`, `NoUnderflow`, `TypeOK` |
| `reinscriptions` | two blocks, four transactions over two sats, up to two envelopes an input | `NumbersDense`, `CursedMarked`, `CountersTrailStores`, `OneBlessedPerSat`, `NumbersStay`; the refinement `ImplementsRegistry` |
| `restarts` | two blocks with blessed, cursed and repeated inscriptions that move and are lost; an index that ends anywhere; one error, crash or second `start()` anywhere | `PlacesRecover`, `ValuesRecover`, `CurseStable`, `ValuesRight`, `LoopsMeet` |
| `restart_progress` | one chain of two blocks, one error or crash, with fairness | `ReachesTip` |
| `follower` | up to five blocks on any branches, any index, one error | `HeightsInOrder`, and with fairness `ReachesNodesTip` |
| `blk_index` | a chain of five blocks in up to three files in every distribution, and one more record: another key, a header, a stale, failed or pruned block, one right on top of the chain that failed or is not connected, or one behind a gap above it; three walks, one failed read | `IndexRight`, `DeliversTheChain`, `FilesCloseInTime` |
| `varint` | the encodings of all values of a 15-bit word, and all inputs of up to four bytes out of eight edge values | `Exact`, `PanicsOnlyTooLarge`, `InverseOfWrite` |
| `block_reader` | eighteen blocks with and without witnesses, lengths and counts of one and three bytes, whole or cut off at one of six places | `KeepsItsPlace`, `DiskTxids`, `WholeBlocks`, `RootsVerify`, `WaysAgree` |
| `hashed_is_txid` | the same blocks | violation: `HashedIsTxid` (section 4) |
| `inscription_parser` | all scripts of up to four instructions, tails of up to three behind a header, pairs of envelopes with anything in between; witnesses of every shape | `OnlyEnvelopes`, `NoneMissed`, `NumberedInOrder`, and with fairness `Terminates` |
| `script_eval` | all scripts of up to three pieces, payments of the right and wrong lengths cut at every byte, with a piece in front or behind | `AgreeOnPayments`, `PaymentsAreWhole` |
| `loads_all_data` | the same scripts | violation: `LoadsAllData` (section 4) |

What a restart does **not** keep, by the code: every inscription is given a new
number (the counters go on from `status`), `lost_sats` and the counter of unbound
inscriptions go on too, and all callbacks run again. `NumbersDense`,
`NumbersStay` and `ValuesMatchLedger` are therefore properties of one process
on fresh stores, and the properties of `Ordi` say what remains: places are right
again, relative to the `lost_sats` counted before; curses do not change;
stored values are those of unspent outputs. They hold of blocks that came from
disk. What was stored under the id of a transaction received over RPC is never
found by the inputs that spend it: inscriptions made or moved there do not move
any more, and stored values of such outputs stay for ever. After a second
`start()` in one process, the lists in memory hold entries twice; values are
right nevertheless, and `PlacesRecover` and `CurseStable` leave such a process out.

**Bounds.** Two blocks make state cross a flush and a reload of the counters;
two transactions in the first block make one spend the other's outputs in the
same block and make two contribute to the same fees; outputs of different values
make offsets differ from indices; at most two inputs and two envelopes an input
reach every branch of the curse (not the first input, not the first envelope,
a first and a second reinscription, over a cursed or a blessed inscription).
In every state of the walk, a write or the node may fail. Coinbase outputs may
be spent in the next block instead of a hundred blocks later: the blocks
between would not touch any inscription. `MaxVout` stands for `u32::MAX`, an
output index no transaction reaches. In `Ordi`, `MaxStops` bounds errors and
crashes together; one is enough to leave any mixture of store states behind,
because `Crash` picks for each store separately. The block index of
`Open` may end at any height from none to all the node has. `IndexOutputValue`
leaves out outputs that are created and spent before the first height: they are
written and deleted again (or stay, when the call fails in between), and no later
block names them. In `Follower`,
`MaxBlocks = 5` is enough for a reorganisation two blocks deep, with
`FIRST_INSCRIPTION_HEIGHT = 2` so that an index may end below it. The index of
`Ordi` has blocks of the node's chain only, at most all of them; one that has
other blocks is the matter of `BlkIndex` and `Follower`. In `BlkIndex`,
`MaxWalks = 3` lets a walk follow one that an error ended (`MaxFaults = 1`) and the
walk of `index_output_value`. `Varint`'s `MaxValue` is 2^15 - 1, which stands in
the same relation to seven-bit groups as 2^64 - 1 does (both are 2^(7k+1) - 1); the
proof of `Exact` is for all such widths. A script of four instructions is as
long as the shortest envelope; the longer ones reach duplicate and unknown tags,
bodies, two envelopes and an envelope behind part of another.

**Fairness.** `OrdiFairSpec` assumes that the thread of `start()` takes a step
when it can (it waits for nobody but the node, whose silence is either the end of
the chain or a failure), that an ended process is opened and started again (the
operator's part, not the program's), and that the node gets the blocks of the
chain (`WF` of `Mine`). Nothing is assumed of errors and crashes but that there
are finitely many. `Follower` assumes the same of the thread and nothing of the
node, whose chain is finite. `InscriptionParser` runs in one thread without
waiting.

**Mutants.** Each property comes with a variant of one definition, a plausible
bug (a missing delete, the wrong base of an offset, the coinbase walked first,
a count within the input instead of the transaction, ...), under which TLC finds
it violated. They stand before the definition they vary and are named after it.

## 4. Findings

- `hashed_is_txid`: `src/bitcoin/proto/tx.rs:24` says that the txid of a
  transaction is kept in `Hashed`. For a transaction received over RPC the counts
  are made by `From<u32>` and the script lengths by `From<u64>`, which always
  write five and nine bytes; the hash of these bytes is the txid of nothing
  (`RpcIdsApart`, a lemma of `BlockReaderProofs`). Output values and lists of blocks that the tailing
  loop indexes are stored under ids no later input names.
- `loads_all_data`: `src/bitcoin/proto/script/custom.rs:87` says that all data of a
  script is loaded; the length of `OP_PUSHDATA1`, `2` and `4` is read from the
  position of the opcode, one byte too early (line 129), so that 76 (77, 78 ...)
  goes into the length. Only scripts of coins other than Bitcoin come there.

Seen while modelling, without a run of its own:

- `src/bitcoin/proto/script/mod.rs:133` skips two bytes in front of the text of an
  `OP_RETURN`; data of 76 to 80 bytes has three in front of it, so the text begins
  with the length byte.
- `src/bitcoin/index.rs:67`: the mask lets pass an entry with one of the two bits,
  so `max_height` may be that of a block without data or of a branch, against the
  message of line 93, and the entry of a height that of a block not in the chain;
  `DeliversTheChain` says exactly when. A block at the height above the node's tip
  that failed its checks, or is not connected, passes too: the first loop indexes
  it, and the second begins one height later, so the block the node's chain
  gets at that height is never indexed.
- `src/inscription.rs:107`: a witness with an annex has the annex read as the
  script.
- `src/inscription.rs:200`: an instruction that does not match the header is
  consumed, so an envelope right behind an `OP_FALSE`, or an `OP_FALSE OP_IF`, is
  overlooked (`Shadowed`), and one broken envelope discards all inscriptions of the
  input.
- `src/block.rs:368`: an inscription revealed in an input of value zero behind
  inputs with sats is bound to the sat at its offset, one of a later input or of
  the fees. The model does what the code does; `FollowsItsSat` makes no claim
  about it, since its input has no sat to follow.

## 5. The proofs

Assumptions on the constants, all named and evaluated by TLC in the runs:

- `ChainAssumption` (`Chain`): the node serves well-formed chains. Values are
  natural numbers and known for every outpoint that is created or spent, the
  node's answers agree with the blocks, transaction ids are unique, no output is
  spent twice (`SpentOnce`), every block has a subsidy, and no value is created:
  a transaction pays out at most what it spends, the coinbase at most the subsidy
  and the fees (`Conserves`). These are consensus rules; the code checks none of
  them and relies on all: a node rejects a block that breaks one before `start()`
  ever sees it.
- `SpendsInOrder` (`Chain`) is a hypothesis of three theorems, not an assumption on
  the constants: an output is spent behind the transaction that creates it. That is
  consensus, too; the program's numbers and places do not need it, agreement with a
  ledger of unspent outputs does. `TransfersInOrder` checks it of the chains of
  `transfers`. A chain received over RPC, with its other ids, does not have it.
- `ReceivedAssumption` (`Ordi`): the same of a chain whose later blocks came over
  RPC, where no id is one that the node knows (the lemma `RpcIdsApart`).
- `DatabaseAssumption` (`BlkIndex`): every block of the node's chain has a record
  that the mask of `parse_index_for_ordinals` lets through. Nothing is assumed of the
  other records: stale, failed and not yet connected blocks at any height, the one
  above the tip too, and headers without data.
- `ScriptsAssumption` (`InscriptionParser`): a script cannot be read any further
  behind an instruction that cannot be read, as the library's iterator has it.
- `BlocksAssumption` (`BlockReader`): a block has a coinbase, a transaction at least
  one input and fewer than 2^16 (one takes 41 bytes, so more do not fit in a block),
  lengths are natural numbers. A transaction without inputs would be taken for one
  with a marker; consensus forbids it.
- `BytesAssumption` (`ScriptEval`), `FirstHeightAssumption` (`Follower`),
  `IndexAssumption` (`BlkIndex`), `CutsAssumption` (`BlockReader`),
  `MaxValueAssumption` and `InputsAssumption` (`Varint`): types and ranges of the
  inputs.

**`InscriptionUpdaterProofs`**, for every set of such chains, in four parts that
build on each other.

- *Types*: `TypeCorrect`. `TypeOK` is inductive. Offsets, `reward` and
  `lost_sats` are typed `Int`: that the code's unsigned subtractions stay
  non-negative is `NoUnderflow`, proved further on. One lemma for each action or
  helper; the longest part is that sorting, `Replaced` and `Arriving` yield
  sequences of the right records.
- *Numbers*: `NumbersAreDense`, `CursedAreMarked`, `CountersTrail`,
  `NumbersRemain`. The properties are not inductive: nothing in them says that the
  ids about to be numbered are new. The invariant `NumbersInv` adds
  - `UniqueInv`: the ids waiting in `floating` and `flotsam` as new ones are
    pairwise different and not numbered yet;
  - `AheadInv`: an id on record, or waiting, is of a transaction already walked
    (of the current block up to `tx_index`, or of an earlier block), and those of
    the current transaction are below `id_counter`. This is where unique
    transaction ids enter;
  - `DenseInv`, `MarkInv`: density and marks stated of the store and the batch
    separately, so that each step of the flush preserves them;
  - `FlushInv`: how far the flush has come, store by store, which is what makes
    the counters safe to write last.
- *Places*: `EachInOnePlace`, `EventsChainUp` and `UpdaterImplementsRegistry`, the
  refinement of the abstract register. An inscription that moves leaves its old list
  only when it is placed; in between it is in a list and on its way. `PlacesInv` is
  `NumbersInv` and
  - `ListsInv`: as long as no error occurred, exactly what has a number has a
    place, and its one entry in the list of that place;
  - `MovingInv`: what moves is on its way once, in `floating` or in `flotsam`, its
    entry is still where it comes from, and no input ahead spends that output.
    This is where `SpentOnce` enters: an output spent twice would set the same
    inscription in motion twice;
  - `StoredInv`: how far the flush is, for the two stores of places;
  - `ReportedInv`: the callbacks have named the place each is in.

  Each step of the updater is then a step of `Registry` or a stutter: the lemmas
  of the third part show it action by action under `PlacesInv` and its primed form.

  The fourth part has the amounts: `NeverUnderflows` and `OneBlessedOnEachSat`.

- *Sums*. `AmountsInv` says that the sums the updater keeps are those of the
  chain: `ReadInv`, the value of the inputs read so far is a prefix of `SumsIn`;
  `PlacedInv`, what was placed one of `SumsOut`; `RewardInv`, the reward is the
  subsidy and a prefix of the block's fees. With `Conserves`, the two subtractions
  `input_value - output_value` and `reward - output_value` cannot wrap.
- *Offsets*. `FloatingInv`: what floats lies behind the outputs already passed
  (its offset is at least `output_value`) and, once sorted, ascends, so that
  the subtraction of `src/block.rs:425` cannot wrap either; `OffsetsInv`: nor is an offset on
  record below zero.
- *Sats*. Two blessed inscriptions never share one. `SatsInv`: those that float
  are on different sats, all among the sats spent so far; `EntriesInv`: an entry is
  at a location that was reached, below the value of its output, and no two blessed
  ones of a list are at one offset; `FreshInv`: the sats that are placed next differ
  from those placed on the same output before. The entry of a moving inscription
  stays within its old list, whose sats are those that move, so a sat is never in
  two lists. `BlessedInv` joins these with `PlacesInv`.

**`OrdiProofs`**, first part: `InscriptionsFollowTheirSats`, `OnlyUnspentOutputs` and
`ValuesAreTheLedgers`, the agreement of the stores with ordinal theory, for every set of
chains with `SpendsInOrder`. The properties speak of the moments between two blocks,
the invariant `TrackInv` of every step in between. It sets beside the walk the ledger
in front of the transaction at hand (`LedgerNow`) and behind it (`Passed`); the lists
describe the second as soon as the inputs are read (`Described`).

- `LedgerInv`, the ledger and the sums. `LengthsInv`: the sequences of sats are as long
  as the values, the fees and the lost sats the updater counts; `StoreInv`: the stored
  values are of unspent outputs; `UnspentInv`: what was created behind the walk and not
  spent is in the ledger, so that the inputs of the next transaction are. Here
  `SpendsInOrder` enters.
- `InscribedInv`, the inscriptions and their sats. `FloatsInv`: what floats is, at its
  offset, on its sat among those the inputs read so far brought, and what waits in
  `flotsam` on its sat among the subsidy and the fees; `RestInv`: every other entry of a
  list is on its sat in an unspent output, or among the lost sats, or unbound;
  `CoverInv`: what the ledger has inscribed is on record or floats. An output that was
  read has its inscriptions on the way, so none is left behind on a spent output.
- A step of the walk keeps the ledger and moves an inscription by an offset; the lemmas
  `OutputSats`, `RestSats`, `FeesOnSat` say that the sequence the sat is in is cut at
  the same sums. The settling of a transaction moves the ledger (`LedgerMoves`) and
  nothing else. `BlessedInv` gives the sums, the offsets and where entries are.

Second part: `OrdiTypeCorrect`, `LoopsAlwaysMeet`, `ValuesAlwaysRight`, for
every number of restarts. The invariant `OrdiInv` joins three parts that need
each other: types of the process and of what a crash may leave (`survivors`);
`LoopsInv`, where `height` and `next_height` stand at each `mode` and `pc`
(without it, the height the tailing loop begins might not be one of the chain,
and the updater's types would not hold); `StoredValuesInv`, that values are right in
the store and in each of its survivors. The updater's steps are taken over by
the lemmas of `InscriptionUpdaterProofs`.

Third part: `ValuesAlwaysRecover` (`ValuesRecover`), what is stored after errors,
crashes and restarts, for every chain, in whatever order it spends. `RecoverInv` joins
`OrdiInv` with
- `KnownStore`, of the store and of all that a crash may leave of it: nothing is stored
  under an id of the node but the base and what some process reached. Outputs of blocks
  over RPC are stored under other ids, which is where `ReceivedAssumption` enters;
- `StaleAhead`: a spent output that is stored was created at a position this process has
  not come to again. It is what an earlier process left behind; walking the
  spending transaction again deletes it, so at the height reached before
  none is left;
- `DiskStored`: what the blocks from disk created is stored until it is spent, whatever
  of the earlier writes was lost.

No values are compared, only which outpoints are stored: `LedgerMade` gives the
outpoints of the ledger without its sats.

Fourth part: `EntriesAlwaysRecorded`, the part of `PlacesRecover` that does not speak
of the ledger (`EntriesRecorded`), and at every step of the loops, not only once a
process has caught up. The stores may hold records, numbers and marks of any earlier
process, written in part; only the lists start empty. `PlacesInv` does not hold then:
the ids about to be numbered have numbers already. `HeldInv` keeps what remains of it
for the ids this process has come upon (`OwnIds`): those in its lists, with their
records (`HeldRecorded`), those that wait (`OwnApart`), none of them of a transaction
ahead (`OwnAhead`); `MovingInv` and `StoredInv` are those of the updater.
`OwnListsInv` says when a process has lists of its own: `Open` empties them, and no
error leaves them to a `start()` but that of a client which keeps the `Ordi`
(`lists = "reused"`). There the claim is false.

**`FollowerProofs`**: `HeightsAlwaysInOrder`, for any index, any number of errors and
any reorganisation. The invariant `FollowerInv` adds that the block the node has
answered with has the height it was asked for, that the index has at each height a
block of that height, and how far each loop has come.

**`BlkIndexProofs`**: `FilesAlwaysClose`, `IndexAlwaysRight`, `ChainIsDelivered`, for
any index and any number of walks and failed reads. `EntriesInv` and `WalkInv`: an
entry is found under its own height, `max_height_in_blk` of its file is no less,
and no height was tried while the index is parsed. `LatestInv` and `GreatestInv`: of
the records parsed so far the entry of a height is the last one that passed, and
`max_height` is the greatest height among them. `ReadInv`: a walk begins at one of two
heights, over a complete index, and all heights it has passed have an entry. A
block of a height of the chain therefore came last among the entries of that height,
one of which is the chain's (`DatabaseAssumption`); one above the chain was come to
over entries, since the walk ends (it panics) at a height without one.

**`BlockReaderProofs`**: `PlaceIsKept`, `TxidsFromDisk`, `OnlyWholeBlocks`,
`BothWaysAgree` and `RootsAlwaysVerify`, for all blocks and wherever the file ends.

- The place. Nothing in a file says what a field is, so what the reader knows is the
  invariant `ReaderInv`. Its `StageInv` gives for each step the place it stands at in
  what the node wrote (`TxAt` of the transaction in the block; `HeadLen`, `OutsAt`,
  `WitAt`, `LockAt` of the field in the transaction) and what `raw` holds of the
  transaction so far; `FileInv`: the file is a beginning of what the node wrote;
  `BlockInv`: the block so far is what the transactions in front give. Most of the
  work is where things are: `PartAt(s, o, u)` says that `u` stands in `s` behind the
  first `o` elements, and lemmas give the parts of a concatenation, of `Strung` and of
  `FlattenSeq`, and by `PartOfPart` those of an input, an output or a witness in the
  block.
- The hashes. `SameBytes`: the bytes made anew of what was read are the network's
  without the witnesses. `RootsAlwaysVerify`: the loop of `merkle_root`, which shortens
  one list, makes the levels of the network's tree (`LevelsAreNodes`), and its last
  level has one element (`Narrowing`).
- Over RPC (`RpcIdsApart`): the encoding is injective and differs from the network's in the field of
  the input count, whatever the counts are.

**`VarintProofs`**: `VarintsAlwaysExact` and `PanicsOverTooLarge` (`Exact` and
`PanicsOnlyTooLarge`), for every width of the word and any bytes: one turn of the
loop either panics over a sum that does not fit or its wrapped sum is the exact one,
by arithmetic over `MaxValue = 128 q + 127`. `ReaderInvertsWriter`
(`InverseOfWrite`): by `InverseInv`, the bytes read so far are those the node writes
for the sum so far with the continuation bit set (`Continued[n - 1]`), so the byte
that ends the number completes its encoding. TLAPS has no induction here: that the
recursive function `Continued` exists and unfolds is shown by the least value at which
it would not.

**`InscriptionParserProofs`**: `EveryInscriptionIsAnEnvelope`, `NoEnvelopeMissed`,
`ReportedInOrder`, for scripts of any length and any witnesses.

- `EnvelopeInv` says what `parse_one_inscription` has read, in terms of the script
  alone, whatever function is at work: the first `matched` instructions of the header
  at `start`; `n` pairs of a tag and a value behind it, no tag twice, which are the
  `fields`; an empty push and then only pushes, which are the `body`; and `pos` is
  right behind. `EnvelopeRead` concludes at the OP_ENDIF that the inscription is
  the `Meaning` of what lies between.
- `MissedInv` follows one header through the run: it is in what was read, or hidden
  (`Shadowed`), or in the envelope being read, or ahead. The case that matters is a
  mismatch, where what was matched so far is dropped together with the
  instruction that did not match: `MatchMisses` shows that a header dropped so is a
  shadowed one.
- `NumberedInv`: what is reported belongs to inputs behind which the parser is, a
  failure among the attempts at an input is among the results of its parse, and the
  offsets count the entries of the same input in front.

**`ScriptEvalProofs`**: `AgreesOnPayments` and `PaymentsAlwaysWhole`, for every script
and every coin's version.

- `Loads` says what one turn of the loop loads, whatever the bytes are: data of 1 to 75
  bytes behind its length; data of at least 76 behind an `OP_PUSHDATA`, since the length
  is read from the opcode on (`UintReads`); an operation; or nothing for a no-op.
- Agreement: `ReadInv`, of a script that is made of data behind its length and of
  operations (`MadeOf`) the stack has, at each such position, what stands in front, and
  no push is cut. The three payments that the library knows are made so, and the stack
  of each is its pattern and no other (`PatternsApart`).
- Whole scripts: `WholeInv`, as long as the data on the stack is plain, what the stack
  stands for (`Shows`) is the script so far without its no-ops. A stack with an address
  is one of three (`AddressOf`); each stands for the payment to it.

What a recursive function computes for every argument is proved, where needed, by the
least argument at which it would fail (`LeastNat`, from the library's
well-foundedness of `Nat`): the sums of `Chain` are, the ledger of `Ordinals` block by
block and transaction by transaction, the bytes of `Continued`, and in
`BlockReaderProofs` (`UpTo`) the flattening of sequences and the levels of the merkle
tree; in `ScriptEvalProofs` the number behind a push and the script without its no-ops.

Only model-checked: of `Ordi`, `CurseStable`, and of `PlacesRecover` what it says of
sats. Both compare what two processes decide of one inscription, whose block indexes
end at different blocks, so that they receive different chains; the invariants above
are about one process and its chain. The liveness properties (`ReachesTip`,
`ReachesNodesTip`, `Terminates`) are beyond TLAPS here.

## 6. What is not modelled

- What a reorganisation does to the stores: nothing in the code undoes a block, so
  the results of both branches stay. `Follower` says which blocks are indexed.
- The registration of callbacks, and what they do.
- `get_block_entry_by_block_hash`, which nothing calls, and the layout of a
  record of the block index; AuxPoW headers, since no coin of the program has
  them; the helpers of `src/bitcoin/common/utils.rs` that nothing calls.
- The subsidy schedule (`src/epoch.rs`, `src/height.rs`): a function of the height
  without state, the constant `Subsidy`; its 64-bit values are beyond TLC's
  integers. The parameters of the coins (`src/bitcoin/mod.rs`) are constants.
- `src/dump-event/main.rs`, an example client: it calls `new`,
  `index_output_value` and `start`, which `Ordi` models.
- Overflow of `u64` sums: the money supply is far below. The `as u32` of lengths in
  `src/blocks/block_reader.rs` is the identity: a block has fewer than 2^32 bytes.
- The `InvalidHeight` check of `src/index.rs`, which cannot fire.
- The callers of `verify_merkle_root`: the crate has none, so `RootsVerify` is about
  what it would answer.
- UTF-8 beyond ASCII in the text of an OP_RETURN output (`Utf8` in `ScriptEval`): no
  property reads whether there is a text.

## 7. Plan

1. **Proofs**: the rest of `PlacesRecover`, and `CurseStable`. For the sats, the lemmas
   on `InscribedInv` are where to begin: they rest on `PlacesInv`, and with `HeldInv`
   in its place, and `lost_sats` counted from what an earlier process left, would hold
   of every process; up to the end of the block index its ledger is the node's. For
   the curses, an account of which ids are blessed at each position of a chain, which
   two chains share as far as their blocks are the same.
2. **Reorganisations and the stores**: `Follower`'s node under `Ordi`, and what the
   stores may then say at most: values of outputs of either branch, at most one
   place for each inscription.
