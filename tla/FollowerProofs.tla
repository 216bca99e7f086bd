--------------------------- MODULE FollowerProofs ---------------------------
(***************************************************************************)
(* The two loops of start() take every height once and in order, for any   *)
(* number of branches, reorganisations and errors.                         *)
(***************************************************************************)
EXTENDS Follower, TLAPS

Path == Seq(Children)

\* The node's blocks, and the one it was asked for.
NodeInv ==
    /\ known \subseteq Path /\ node \in Path
    /\ \A b \in block_hash : b \in Path /\ Len(b) = next_height
    /\ mode # "tail" => block_hash = {}

\* The index: of each height a block of this height.
IndexInv ==
    /\ max_height \in Nat
    /\ entries \in [1 .. max_height -> Path]
    /\ \A h \in 1 .. max_height : Len(entries[h]) = h

From == Lowest(FIRST_INSCRIPTION_HEIGHT, max_height + 1)

\* How far each loop has come.
HeightsInv ==
    /\ mode \in {"closed", "open", "catch_up", "tail"}
    /\ height \in Nat /\ next_height \in Nat
    /\ indexed \in Seq(Path)
    /\ mode \in {"catch_up", "tail"} =>
          \A k \in DOMAIN indexed : Len(indexed[k]) = From + k - 1
    /\ mode = "catch_up" =>
          /\ next_height = max_height + 1
          /\ height = FIRST_INSCRIPTION_HEIGHT + Len(indexed)
          /\ indexed = <<>> \/ height <= next_height
    /\ mode = "tail" => next_height = From + Len(indexed)

FollowerInv == NodeInv /\ IndexInv /\ HeightsInv

LEMMA InitInv == Init => FollowerInv
  <1> SUFFICES ASSUME Init PROVE FollowerInv
    OBVIOUS
  <1>1. NodeInv
    BY DEF Init, NodeInv, Path, Genesis
  <1>2. IndexInv
    BY DEF Init, IndexInv, Path
  <1>3. HeightsInv
    BY DEF Init, HeightsInv, Path
  <1> QED
    BY <1>1, <1>2, <1>3 DEF FollowerInv

\* The node may do what it likes.
LEMMA MineKeeps == FollowerInv /\ Mine => FollowerInv'
  <1> SUFFICES ASSUME FollowerInv, Mine PROVE FollowerInv'
    OBVIOUS
  <1> USE DEF FollowerInv
  <1>1. NodeInv'
    <2>1. PICK b \in known, c \in Children :
              /\ known' = known \cup {Append(b, c)}
              /\ node' \in {node, Append(b, c)}
      BY DEF Mine
    <2>2. Append(b, c) \in Path
      BY DEF NodeInv, Path
    <2> QED
      BY <2>1, <2>2 DEF NodeInv, Mine
  <1>2. IndexInv'
    BY DEF IndexInv, Mine
  <1>3. HeightsInv'
    BY DEF HeightsInv, Mine, From
  <1> QED
    BY <1>1, <1>2, <1>3

LEMMA OpenKeeps == FollowerInv /\ Open => FollowerInv'
  <1> SUFFICES ASSUME FollowerInv, Open PROVE FollowerInv'
    OBVIOUS
  <1> USE DEF FollowerInv
  <1>1. NodeInv'
    BY DEF NodeInv, Open, nodeVars
  <1>2. IndexInv'
    <2>1. PICK b \in known : max_height' = Len(b)
      BY DEF Open
    <2>2. max_height' \in Nat
      BY <2>1 DEF NodeInv, Path
    <2>3. /\ entries' \in [1 .. max_height' -> known]
          /\ \A h \in 1 .. max_height' : Len(entries'[h]) = h
      BY DEF Open
    <2>4. entries' \in [1 .. max_height' -> Path]
      BY <2>3 DEF NodeInv
    <2> QED
      BY <2>2, <2>3, <2>4 DEF IndexInv
  <1>3. HeightsInv'
    BY DEF HeightsInv, Open
  <1> QED
    BY <1>1, <1>2, <1>3

LEMMA StartKeeps == FollowerInv /\ Start => FollowerInv'
  <1> SUFFICES ASSUME FollowerInv, Start PROVE FollowerInv'
    OBVIOUS
  <1> USE FirstHeightAssumption DEF FollowerInv
  <1>1. NodeInv'
    BY DEF NodeInv, Start, nodeVars
  <1>2. IndexInv'
    BY DEF IndexInv, Start
  <1>3. HeightsInv'
    BY DEF HeightsInv, IndexInv, Start, NextHeight
  <1> QED
    BY <1>1, <1>2, <1>3

\* A turn of the first loop takes the entry of its height.
LEMMA CatchUpKeeps == FollowerInv /\ CatchUp => FollowerInv'
  <1> SUFFICES ASSUME FollowerInv, CatchUp PROVE FollowerInv'
    OBVIOUS
  <1> USE FirstHeightAssumption DEF FollowerInv
  <1>1. NodeInv'
    BY DEF NodeInv, CatchUp, nodeVars
  <1>2. IndexInv'
    BY DEF IndexInv, CatchUp
  <1>3. /\ height \in 1 .. max_height
        /\ entries[height] \in Path /\ Len(entries[height]) = height
    BY DEF HeightsInv, IndexInv, CatchUp
  <1>4. From = FIRST_INSCRIPTION_HEIGHT /\ From' = From
    BY <1>3 DEF From, Lowest, HeightsInv, IndexInv, CatchUp
  <1>5. /\ indexed' = Append(indexed, entries[height])
        /\ indexed' \in Seq(Path) /\ Len(indexed') = Len(indexed) + 1
        /\ height' = height + 1
    BY <1>3 DEF CatchUp, HeightsInv
  <1>6. \A k \in DOMAIN indexed' : Len(indexed'[k]) = From' + k - 1
    BY <1>3, <1>4, <1>5 DEF CatchUp, HeightsInv
  <1>7. HeightsInv'
    BY <1>5, <1>6 DEF HeightsInv, CatchUp
  <1> QED
    BY <1>1, <1>2, <1>7

\* The second loop goes on where the first has ended, or below the first height
\* when the first had nothing to do.
LEMMA CaughtUpKeeps == FollowerInv /\ CaughtUp => FollowerInv'
  <1> SUFFICES ASSUME FollowerInv, CaughtUp PROVE FollowerInv'
    OBVIOUS
  <1> USE FirstHeightAssumption DEF FollowerInv
  <1>1. NodeInv'
    BY DEF NodeInv, CaughtUp, nodeVars
  <1>2. IndexInv'
    BY DEF IndexInv, CaughtUp
  <1>3. next_height = From + Len(indexed) /\ From' = From
    BY DEF HeightsInv, IndexInv, CaughtUp, From, Lowest
  <1>4. HeightsInv'
    BY <1>3 DEF HeightsInv, CaughtUp
  <1> QED
    BY <1>1, <1>2, <1>4

LEMMA AskKeeps == FollowerInv /\ Ask => FollowerInv'
  <1> SUFFICES ASSUME FollowerInv, Ask PROVE FollowerInv'
    OBVIOUS
  <1> USE DEF FollowerInv
  <1>1. NodeInv'
    <2>1. PICK b \in BlockHash(next_height) : block_hash' = {b}
      BY DEF Ask
    <2>2. b = SubSeq(node, 1, next_height) /\ next_height <= Len(node)
      BY <2>1 DEF BlockHash, BlockAt
    <2>3. b \in Path /\ Len(b) = next_height
      BY <2>2 DEF NodeInv, HeightsInv, Path
    <2> QED
      BY <2>1, <2>3 DEF NodeInv, Ask, nodeVars
  <1>2. IndexInv'
    BY DEF IndexInv, Ask
  <1>3. HeightsInv'
    BY DEF HeightsInv, Ask, From
  <1> QED
    BY <1>1, <1>2, <1>3

LEMMA FetchKeeps == FollowerInv /\ Fetch => FollowerInv'
  <1> SUFFICES ASSUME FollowerInv, Fetch PROVE FollowerInv'
    OBVIOUS
  <1> USE FirstHeightAssumption DEF FollowerInv
  <1>1. NodeInv'
    BY DEF NodeInv, Fetch, nodeVars
  <1>2. IndexInv'
    BY DEF IndexInv, Fetch
  <1>3. PICK b \in block_hash : indexed' = Append(indexed, b) /\ next_height' = next_height + 1
    BY DEF Fetch
  <1>4. b \in Path /\ Len(b) = next_height
    BY <1>3 DEF NodeInv
  <1>5. /\ indexed' \in Seq(Path) /\ Len(indexed') = Len(indexed) + 1
        /\ From' = From /\ From \in Nat /\ next_height = From + Len(indexed)
    BY <1>3, <1>4 DEF Fetch, HeightsInv, IndexInv, From, Lowest
  <1>6. \A k \in DOMAIN indexed' : Len(indexed'[k]) = From' + k - 1
    BY <1>3, <1>4, <1>5 DEF Fetch, HeightsInv
  <1>7. HeightsInv'
    BY <1>3, <1>5, <1>6 DEF Fetch, HeightsInv
  <1> QED
    BY <1>1, <1>2, <1>7

LEMMA FailsKeeps == FollowerInv /\ Fails => FollowerInv'
  <1> SUFFICES ASSUME FollowerInv, Fails PROVE FollowerInv'
    OBVIOUS
  <1> USE DEF FollowerInv
  <1>1. NodeInv'
    BY DEF NodeInv, Fails, nodeVars
  <1>2. IndexInv'
    BY DEF IndexInv, Fails
  <1>3. HeightsInv'
    BY DEF HeightsInv, Fails
  <1> QED
    BY <1>1, <1>2, <1>3

LEMMA StepKeeps == FollowerInv /\ [Next]_vars => FollowerInv'
  <1> SUFFICES ASSUME FollowerInv, [Next]_vars PROVE FollowerInv'
    OBVIOUS
  <1>1. CASE UNCHANGED vars
    BY <1>1 DEF vars, nodeVars, FollowerInv, NodeInv, IndexInv, HeightsInv, From
  <1>2. CASE Next
    BY <1>2, MineKeeps, OpenKeeps, StartKeeps, CatchUpKeeps, CaughtUpKeeps, AskKeeps,
       FetchKeeps, FailsKeeps DEF Next
  <1> QED
    BY <1>1, <1>2

\* Every height is indexed once and in order (start()), for every index a
\* process may find, any number of errors and any reorganisation.
THEOREM HeightsAlwaysInOrder == Spec => []HeightsInOrder
  <1>1. FollowerInv => HeightsInOrder
    <2> SUFFICES ASSUME FollowerInv PROVE HeightsInOrder
      OBVIOUS
    <2>1. CASE mode = "catch_up"
      BY <2>1, FirstHeightAssumption DEF FollowerInv, HeightsInv, IndexInv, HeightsInOrder, From, Lowest
    <2>2. CASE mode = "tail"
      BY <2>2 DEF FollowerInv, HeightsInv, HeightsInOrder, From
    <2> QED
      BY <2>1, <2>2 DEF HeightsInOrder
  <1> QED
    BY <1>1, InitInv, StepKeeps, PTL DEF Spec

=============================================================================
