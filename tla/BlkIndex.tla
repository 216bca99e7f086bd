------------------------------ MODULE BlkIndex ------------------------------
(***************************************************************************)
(* index.rs and blk.rs: the node's block index, and the reading of blocks  *)
(* by height from the blk files it names.  new() goes through the index    *)
(* once, in the order of its keys, which are hashes; what it keeps is      *)
(* never read again.  The client then walks over the heights: start() from *)
(* FIRST_INSCRIPTION_HEIGHT on, index_output_value() up to it.             *)
(*                                                                         *)
(* The node writes an entry for every header it has seen: those of its     *)
(* chain, of branches it left, of blocks it is still to receive or to      *)
(* connect, and of blocks that failed its checks.                          *)
(***************************************************************************)
EXTENDS Integers, Sequences, FiniteSetsExt, Functions

CONSTANTS
    Databases,          \* the indexes a node may have: [records, chain]
    BlkFiles,           \* the blk files it has
    FIRST_INSCRIPTION_HEIGHT,
    MaxWalks,           \* bound: how often a client walks
    MaxFaults           \* bound: so many reads of a block fail

ASSUME IndexAssumption ==
    /\ FIRST_INSCRIPTION_HEIGHT \in Nat
    /\ \A d \in Databases : \A i \in 1 .. Len(d.records) : d.records[i].height \in Nat

VARIABLES
    db,                 \* records, in the order of the keys, and the node's chain
    parsed,             \* how many records the loop has seen
    entries, max_height, max_height_in_blk, blks,   \* Index; blks: file -> open?
    at,                 \* "parsing", "idle", "walking", "panicked"
    first, height, last, \* the walk: its range, and the height to read next
    got,                \* the block delivered last: its height and its hash
    walks, faults
indexVars == <<entries, max_height, max_height_in_blk, blks>>
vars == <<db, parsed, indexVars, at, first, height, last, got, walks, faults>>

-----------------------------------------------------------------------------
HasBit(n, bit) == (n \div bit) % 2 = 1
BLOCK_VALID_CHAIN == 4
BLOCK_HAVE_DATA == 8

\* is_block_index_entry, and the mask of parse_index_for_ordinals: one bit is
\* enough.
Passes(r) == r.key = "b" /\ (HasBit(r.status, BLOCK_VALID_CHAIN) \/ HasBit(r.status, BLOCK_HAVE_DATA))

\* What the index knows of the node's chain: every block of it has an entry
\* that passes.
ASSUME DatabaseAssumption ==
    \A d \in Databases : \A h \in DOMAIN d.chain : \E i \in 1 .. Len(d.records) :
        LET r == d.records[i] IN Passes(r) /\ r.height = h /\ r.hash = d.chain[h]

\* f with x mapped to y.
Put(f, x, y) == [z \in DOMAIN f \cup {x} |-> IF z = x THEN y ELSE f[z]]

Nothing == [x \in {} |-> 0]

Init ==
    /\ db \in Databases
    /\ parsed = 0
    /\ entries = Nothing /\ max_height = 0 /\ max_height_in_blk = Nothing /\ blks = Nothing
    /\ at = "parsing" /\ first = 0 /\ height = 0 /\ last = -1
    /\ got = [height |-> -1, hash |-> "none"]
    /\ walks = 0 /\ faults = 0

\* Mutant: the height of a file is that of the last entry, not of the highest.
HeightInBlk_Last(r) == r.height

HeightInBlk(r) ==
    IF r.file \in DOMAIN max_height_in_blk /\ max_height_in_blk[r.file] > r.height
    THEN max_height_in_blk[r.file] ELSE r.height

\* Mutant: the first entry of a height stays.
Inserted_First(r) == IF r.height \in DOMAIN entries THEN entries ELSE Put(entries, r.height, r)

Inserted(r) == Put(entries, r.height, r)

\* One turn of the loop of parse_index_for_ordinals.
ParseEntry ==
    /\ at = "parsing" /\ parsed < Len(db.records)
    /\ parsed' = parsed + 1
    /\ LET r == db.records[parsed'] IN
       IF Passes(r)
       THEN /\ max_height_in_blk' = Put(max_height_in_blk, r.file, HeightInBlk(r))
            /\ blks' = Put(blks, r.file, FALSE)
            /\ max_height' = IF r.height > max_height THEN r.height ELSE max_height
            /\ entries' = Inserted(r)
       ELSE UNCHANGED indexVars
    /\ UNCHANGED <<db, at, first, height, last, got, walks, faults>>

Parsed ==
    /\ at = "parsing" /\ parsed = Len(db.records)
    /\ at' = "idle"
    /\ UNCHANGED <<db, parsed, indexVars, first, height, last, got, walks, faults>>

-----------------------------------------------------------------------------
\* The client walks over the heights: those of start()'s first loop, or those
\* of index_output_value().  It may do so again after an error.
Walk ==
    /\ at = "idle" /\ walks < MaxWalks
    /\ \/ first' = FIRST_INSCRIPTION_HEIGHT /\ last' = max_height
       \/ first' = 0 /\ last' = FIRST_INSCRIPTION_HEIGHT - 1
    /\ height' = first'
    /\ at' = "walking"
    /\ walks' = walks + 1
    /\ UNCHANGED <<db, parsed, indexVars, got, faults>>

WalkEnds ==
    /\ at = "walking" /\ height > last
    /\ at' = "idle"
    /\ UNCHANGED <<db, parsed, indexVars, first, height, last, got, walks, faults>>

\* Mutant: an error is returned before the file is closed.
Closes_UnlessFailed(r, failed) == max_height_in_blk[r.file] = height /\ ~failed

\* The file of an entry after a read: open, unless this was its largest height.
\* It is closed before the read's error is looked at.
Closes(r, failed) == max_height_in_blk[r.file] = height

\* catch_block: BLK::open, BLK::read_block and perhaps BLK::close.  An entry
\* without data has no offset: what is taken for it leads to no block.
CatchBlock ==
    /\ at = "walking" /\ height <= last
    /\ height \in DOMAIN entries
    /\ entries[height].file \in BlkFiles
    /\ LET r == entries[height] IN
       \E failed \in IF HasBit(r.status, BLOCK_HAVE_DATA) THEN {FALSE, faults < MaxFaults} ELSE {TRUE} :
          /\ faults' = IF failed THEN faults + 1 ELSE faults
          /\ blks' = [blks EXCEPT ![r.file] = ~Closes(r, failed)]
          /\ IF failed
             THEN at' = "idle" /\ UNCHANGED <<height, got>>
             ELSE /\ got' = [height |-> height, hash |-> r.hash]
                  /\ height' = height + 1
                  /\ UNCHANGED at
    /\ UNCHANGED <<db, parsed, entries, max_height, max_height_in_blk, first, last, walks>>

\* expect("Invalid height."), and the expect of BLK::open: the height has no
\* entry, or its file is not there.  In a build that checks for overflow also
\* data_offset - 4, for an entry without data.
Panic ==
    /\ at = "walking" /\ height <= last
    /\ \/ height \notin DOMAIN entries
       \/ /\ height \in DOMAIN entries
          /\ \/ entries[height].file \notin BlkFiles
             \/ ~HasBit(entries[height].status, BLOCK_HAVE_DATA)
    /\ at' = "panicked"
    /\ UNCHANGED <<db, parsed, indexVars, first, height, last, got, walks, faults>>

Next == ParseEntry \/ Parsed \/ Walk \/ WalkEnds \/ CatchBlock \/ Panic

Spec == Init /\ [][Next]_vars

-----------------------------------------------------------------------------
\* The records behind the entries so far: those that pass and come last among
\* the records of their height.
Seen == {i \in 1 .. parsed : Passes(db.records[i])}
Latest == {i \in Seen : \A j \in Seen : db.records[j].height = db.records[i].height => j <= i}

\* The index keeps for every height the entry that came last, for every file
\* the largest height that any entry has in it, and the largest height of all
\* (parse_index_for_ordinals) -- the entries themselves and these two are kept
\* apart, and an entry that is replaced stays in the latter.
IndexRight ==
    /\ DOMAIN entries = {db.records[i].height : i \in Seen}
    /\ \A i \in Latest : entries[db.records[i].height] = db.records[i]
    /\ DOMAIN max_height_in_blk = {db.records[i].file : i \in Seen} /\ DOMAIN blks = DOMAIN max_height_in_blk
    /\ \A f \in DOMAIN max_height_in_blk :
          max_height_in_blk[f] = Max({db.records[i].height : i \in {j \in Seen : db.records[j].file = f}})
    /\ max_height = Max({0} \cup {db.records[i].height : i \in Seen})

\* The walk that comes to a height begins here.
WalkedFrom(h) == IF h < FIRST_INSCRIPTION_HEIGHT THEN 0 ELSE FIRST_INSCRIPTION_HEIGHT

\* A record of a height, with data, that the index has seen.
Stored(h) == {i \in Seen : db.records[i].height = h /\ HasBit(db.records[i].status, BLOCK_HAVE_DATA)}

\* A block that is delivered is the one the node's chain has at its height,
\* with two exceptions: the index has another entry of that height behind the
\* chain's, or the height lies above the chain and every height up to there has
\* an entry.  No block is delivered from behind a gap, nor for a header without
\* data, whatever max_height says (parse_index_for_ordinals, catch_block).
DeliversTheChain ==
    got.height >= 0 =>
        \E j \in Stored(got.height) :
            /\ db.records[j].hash = got.hash
            /\ IF got.height \in DOMAIN db.chain
               THEN \/ got.hash = db.chain[got.height]
                    \/ \E i \in Seen :
                          /\ i < j /\ db.records[i].height = got.height
                          /\ db.records[i].hash = db.chain[got.height]
               ELSE \A g \in WalkedFrom(got.height) .. got.height :
                       \E i \in Seen : db.records[i].height = g

\* The heights the walk has tried to read.  A walk that is over tried the last
\* one, and one that an error ended the height it was at.
Tried == IF at = "idle" /\ height <= last THEN first .. height ELSE first .. height - 1

\* No blk file is left open: once a walk has tried the largest height of a file
\* it is closed, even if that read failed, unless the entry of that height was
\* replaced by one in another file.  (An earlier walk that an error ended may
\* have left files open whose heights this one does not come to.)
FilesCloseInTime ==
    \A f \in DOMAIN blks :
        blks[f] => \/ max_height_in_blk[f] \notin Tried
                   \/ entries[max_height_in_blk[f]].file # f
=============================================================================
