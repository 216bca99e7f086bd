------------------------------ MODULE Follower ------------------------------
(***************************************************************************)
(* lib.rs, start(), beside a node whose chain may be reorganised.  The     *)
(* first loop takes, height by height, what the block index had when the   *)
(* process began, which may be a block of any branch; the second asks the  *)
(* node for the hash at a height and then for the block of that hash, and  *)
(* the node may change its mind in between, before and after.  Nothing     *)
(* compares a block with the one that was indexed before it.  The index    *)
(* may also end below FIRST_INSCRIPTION_HEIGHT, and then the second loop   *)
(* begins there.                                                           *)
(*                                                                         *)
(* What indexing a block does is the matter of module Ordi.  Here a block  *)
(* is the path that leads to it from the genesis block: at each height one *)
(* of several children of the block before.                                *)
(***************************************************************************)
EXTENDS Integers, Sequences, FiniteSets

CONSTANTS
    Children,           \* the blocks that may follow on a block
    FIRST_INSCRIPTION_HEIGHT,
    MaxBlocks,          \* bound: so many blocks are mined
    MaxStops            \* bound: so often start() returns an error

ASSUME FirstHeightAssumption == FIRST_INSCRIPTION_HEIGHT \in Nat \ {0}

VARIABLES
    known, node,        \* the node: the blocks it has, and its chain, as its last block
    mode,               \* the process: "closed", "open", "catch_up", "tail"
    entries, max_height, \* Index
    height, next_height, \* locals of start(): height is the next of the first loop
    block_hash,         \* the hash the node answered with, none or one
    indexed,            \* what this start() has indexed, in order
    stops
nodeVars == <<known, node>>
vars == <<nodeVars, mode, entries, max_height, height, next_height, block_hash, indexed, stops>>

-----------------------------------------------------------------------------
Genesis == <<>>
\* The block of the chain that ends with block b, at height h.
BlockAt(b, h) == SubSeq(b, 1, h)

Init ==
    /\ known = {Genesis} /\ node = Genesis
    /\ mode = "closed" /\ entries = <<>> /\ max_height = 0
    /\ height = 0 /\ next_height = 0 /\ block_hash = {} /\ indexed = <<>>
    /\ stops = 0

\* The node receives a block, on its chain or on another, and goes over to the
\* longer one, unless that has not been connected yet or failed the checks.
Mine ==
    /\ Cardinality(known) <= MaxBlocks
    /\ \E b \in known, c \in Children :
          LET new == Append(b, c) IN
          /\ new \notin known
          /\ known' = known \cup {new}
          /\ node' \in {node} \cup {n \in {new} : Len(n) > Len(node)}
    /\ UNCHANGED <<mode, entries, max_height, height, next_height, block_hash, indexed, stops>>

\* Ordi::new: for each height the index gives one block the node has, of those
\* it has written to the index so far (module BlkIndex); they may be of any
\* branch, and the last may lie above the node's chain.
Open ==
    /\ mode = "closed"
    /\ mode' = "open"
    /\ \E b \in known : max_height' = Len(b)
    /\ entries' \in {e \in [1 .. max_height' -> known] : \A h \in 1 .. max_height' : Len(e[h]) = h}
    /\ UNCHANGED <<nodeVars, height, next_height, block_hash, indexed, stops>>

\* Mutant: the second loop begins at the last height of the index.
NextHeight_Again == max_height

NextHeight == max_height + 1

Start ==
    /\ mode = "open"
    /\ mode' = "catch_up"
    /\ height' = FIRST_INSCRIPTION_HEIGHT
    /\ next_height' = NextHeight
    /\ indexed' = <<>>
    /\ UNCHANGED <<nodeVars, entries, max_height, block_hash, stops>>

CatchUp ==
    /\ mode = "catch_up" /\ height < next_height
    /\ indexed' = Append(indexed, entries[height])
    /\ height' = height + 1
    /\ UNCHANGED <<nodeVars, mode, entries, max_height, next_height, block_hash, stops>>

CaughtUp ==
    /\ mode = "catch_up" /\ height >= next_height
    /\ mode' = "tail"
    /\ UNCHANGED <<nodeVars, entries, max_height, height, next_height, block_hash, indexed, stops>>

\* Mutant: a block is asked for when another one is on top of it.
BlockHash_Buried(h) == IF h < Len(node) THEN {BlockAt(node, h)} ELSE {}

\* get_block_hash: that of the node's chain, if it is so long.
BlockHash(h) == IF h <= Len(node) THEN {BlockAt(node, h)} ELSE {}

\* Without an answer the thread sleeps and asks again.
Ask ==
    /\ mode = "tail" /\ block_hash = {}
    /\ \E b \in BlockHash(next_height) : block_hash' = {b}
    /\ UNCHANGED <<nodeVars, mode, entries, max_height, height, next_height, indexed, stops>>

\* get_block, for the hash: the node keeps the blocks of the branches it left.
Fetch ==
    /\ mode = "tail"
    /\ \E b \in block_hash :
          /\ indexed' = Append(indexed, b)
          /\ next_height' = next_height + 1
    /\ block_hash' = {}
    /\ UNCHANGED <<nodeVars, mode, entries, max_height, height, stops>>

\* catch_block, get_block or index_transactions returns an error: the client
\* ends, or calls start() again with the index it has.
Fails ==
    /\ stops < MaxStops
    /\ (mode = "catch_up" /\ height < next_height) \/ (mode = "tail" /\ block_hash # {})
    /\ mode' \in {"closed", "open"}
    /\ block_hash' = {}
    /\ stops' = stops + 1
    /\ UNCHANGED <<nodeVars, entries, max_height, height, next_height, indexed>>

Next == Mine \/ Open \/ Start \/ CatchUp \/ CaughtUp \/ Ask \/ Fetch \/ Fails

\* As in module Ordi: the thread goes on, an ended process is started again.
Spec ==
    /\ Init /\ [][Next]_vars
    /\ WF_vars(Open \/ Start \/ CatchUp \/ CaughtUp \/ Ask \/ Fetch)

-----------------------------------------------------------------------------
Lowest(m, n) == IF m < n THEN m ELSE n
Highest(m, n) == IF m > n THEN m ELSE n

\* Every height is indexed once, in order, from FIRST_INSCRIPTION_HEIGHT on or
\* from the end of an index that does not reach so far, whatever becomes of the
\* branches and wherever a start() before this one ended (the loops of start()).
HeightsInOrder ==
    mode \in {"catch_up", "tail"} =>
        LET from == Lowest(FIRST_INSCRIPTION_HEIGHT, max_height + 1)
            next == IF mode = "tail" THEN next_height ELSE height
        IN  /\ \A k \in DOMAIN indexed : Len(indexed[k]) = from + k - 1
            /\ indexed # <<>> \/ mode = "tail" => next = from + Len(indexed)

\* When the node gets no more blocks, the last height of its chain is indexed,
\* though the chain was reorganised below it: the second loop waits only above
\* the node's chain, or above the index when that ends with a block which is not
\* on the chain.
ReachesNodesTip == <>[](mode = "tail" /\ next_height = Highest(Len(node), max_height) + 1)
=============================================================================
