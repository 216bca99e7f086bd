--------------------------- MODULE BlkIndexProofs ---------------------------
(***************************************************************************)
(* For every index and every number of walks: the blk files are closed,    *)
(* the index is right, and the blocks delivered are the node's chain's, or *)
(* of an entry that stands behind the chain's, or lie on top of the chain. *)
(***************************************************************************)
EXTENDS BlkIndex, TLAPS

\* Every entry lies in a file whose largest height is no less than its own, and
\* is found under its own height.
EntriesInv ==
    /\ \A h \in DOMAIN entries :
          /\ h \in Nat /\ entries[h].height = h
          /\ entries[h].file \in DOMAIN max_height_in_blk
          /\ h <= max_height_in_blk[entries[h].file]
    /\ \A f \in DOMAIN max_height_in_blk : max_height_in_blk[f] \in Nat
    /\ DOMAIN blks = DOMAIN max_height_in_blk
    /\ max_height \in Nat

\* No height has been passed while the index is parsed.
WalkInv ==
    /\ db \in Databases
    /\ parsed \in Nat
    /\ first \in Nat /\ height \in Nat /\ first <= height
    /\ last \in Int
    /\ at = "parsing" => height = 0 /\ first = 0 /\ last = -1

FilesInv == EntriesInv /\ WalkInv /\ FilesCloseInTime

\* When nothing has been tried, or no file is open, there is nothing to show.
LEMMA NothingTried ==
    ASSUME Tried = {}
    PROVE  FilesCloseInTime
BY DEF FilesCloseInTime

LEMMA FilesInvInit == Init => FilesInv
<1> SUFFICES ASSUME Init PROVE FilesInv
    OBVIOUS
<1>1. EntriesInv /\ WalkInv
    BY DEF Init, Nothing, EntriesInv, WalkInv
<1>2. Tried = {}
    BY DEF Init, Tried
<1> QED
    BY <1>1, <1>2, NothingTried DEF FilesInv

\* The first step of the parser's loop, when the record passes.
LEMMA EntryParsed ==
    ASSUME FilesInv, ParseEntry, Passes(db.records[parsed'])
    PROVE  EntriesInv'
<1> DEFINE r == db.records[parsed']
           m == HeightInBlk(r)
<1>0. Passes(r)
    OBVIOUS
<1>1. r.height \in Nat
    BY IndexAssumption DEF FilesInv, WalkInv, ParseEntry
<1>2. m \in Nat /\ r.height <= m
    BY <1>1 DEF HeightInBlk, FilesInv, EntriesInv
<1>3. r.file \in DOMAIN max_height_in_blk => max_height_in_blk[r.file] <= m
    BY <1>1 DEF HeightInBlk, FilesInv, EntriesInv
<1>4. /\ max_height_in_blk' = Put(max_height_in_blk, r.file, m)
      /\ blks' = Put(blks, r.file, FALSE)
      /\ entries' = Put(entries, r.height, r)
      /\ max_height' = IF r.height > max_height THEN r.height ELSE max_height
    BY <1>0 DEF ParseEntry, Inserted
<1> HIDE DEF m, r
<1>5. /\ DOMAIN max_height_in_blk' = DOMAIN max_height_in_blk \cup {r.file}
      /\ max_height_in_blk'[r.file] = m
      /\ \A f \in DOMAIN max_height_in_blk :
            f # r.file => max_height_in_blk'[f] = max_height_in_blk[f]
    BY <1>4 DEF Put
<1>6. /\ DOMAIN entries' = DOMAIN entries \cup {r.height}
      /\ entries'[r.height] = r
      /\ \A h \in DOMAIN entries : h # r.height => entries'[h] = entries[h]
    BY <1>4 DEF Put
<1>7. DOMAIN blks' = DOMAIN blks \cup {r.file}
    BY <1>4 DEF Put
<1>8. ASSUME NEW h \in DOMAIN entries'
      PROVE  /\ h \in Nat /\ entries'[h].height = h
             /\ entries'[h].file \in DOMAIN max_height_in_blk'
             /\ h <= max_height_in_blk'[entries'[h].file]
    <2>1. CASE h = r.height
        BY <1>1, <1>2, <1>5, <1>6, <2>1
    <2>2. CASE h # r.height
        <3>1. /\ h \in DOMAIN entries /\ entries'[h] = entries[h] /\ h \in Nat
              /\ entries[h].height = h /\ entries[h].file \in DOMAIN max_height_in_blk
              /\ h <= max_height_in_blk[entries[h].file]
              /\ max_height_in_blk[entries[h].file] \in Nat
            BY <1>6, <2>2 DEF FilesInv, EntriesInv
        <3> QED
            BY <1>2, <1>3, <1>5, <3>1
    <2> QED
        BY <2>1, <2>2
<1>9. \A f \in DOMAIN max_height_in_blk' : max_height_in_blk'[f] \in Nat
    BY <1>2, <1>5 DEF FilesInv, EntriesInv
<1>10. max_height' \in Nat
    BY <1>1, <1>4 DEF FilesInv, EntriesInv
<1> QED
    BY <1>5, <1>7, <1>8, <1>9, <1>10 DEF FilesInv, EntriesInv

\* A read leaves its file open only below the file's largest height.
LEMMA BlockCaught ==
    ASSUME FilesInv, CatchBlock
    PROVE  FilesInv'
<1> DEFINE r == entries[height]
<1>1. /\ height \in DOMAIN entries /\ height \in Nat /\ first \in Nat /\ first <= height
      /\ at = "walking" /\ at' # "parsing"
      /\ UNCHANGED <<db, parsed, entries, max_height, max_height_in_blk, first, last>>
      /\ height' = height \/ height' = height + 1
      /\ last \in Int
    BY DEF CatchBlock, FilesInv, WalkInv
<1>0. Tried = first .. height - 1 /\ Tried' = first .. height
    <2>1. height <= last
        BY DEF CatchBlock
    <2>2. \/ at' = "idle" /\ height' = height
          \/ at' = at /\ height' = height + 1
        BY DEF CatchBlock
    <2> QED
        BY <1>1, <2>1, <2>2 DEF Tried
<1>2. /\ DOMAIN blks' = DOMAIN blks
      /\ r.file \in DOMAIN blks
      /\ blks'[r.file] = (max_height_in_blk[r.file] # height)
      /\ \A f \in DOMAIN blks : f # r.file => blks'[f] = blks[f]
    BY DEF CatchBlock, Closes, FilesInv, EntriesInv
<1>3. EntriesInv'
    BY <1>1, <1>2 DEF FilesInv, EntriesInv
<1>4. WalkInv'
    BY <1>1 DEF FilesInv, WalkInv
<1>5. ASSUME NEW f \in DOMAIN blks, blks'[f], max_height_in_blk[f] \in first .. height
      PROVE  entries[max_height_in_blk[f]].file # f
    <2>1. max_height_in_blk[f] \in Nat /\ max_height_in_blk[f] <= height
        BY <1>1, <1>5 DEF FilesInv, EntriesInv
    <2>2. CASE f = r.file
        <3>1. max_height_in_blk[f] # height
            BY <1>2, <1>5, <2>2
        <3>2. height <= max_height_in_blk[f]
            BY <1>1, <2>2 DEF FilesInv, EntriesInv
        <3> QED
            BY <1>1, <2>1, <3>1, <3>2
    <2>3. CASE f # r.file /\ max_height_in_blk[f] = height
        BY <2>3
    <2>4. CASE f # r.file /\ max_height_in_blk[f] # height
        <3>1. blks[f] /\ max_height_in_blk[f] \in Tried
            BY <1>0, <1>1, <1>2, <1>5, <2>1, <2>4
        <3> QED
            BY <3>1 DEF FilesInv, FilesCloseInTime
    <2> QED
        BY <2>2, <2>3, <2>4
<1>6. FilesCloseInTime'
    BY <1>0, <1>1, <1>2, <1>5 DEF FilesCloseInTime
<1> QED
    BY <1>3, <1>4, <1>6 DEF FilesInv

LEMMA FilesInvNext == FilesInv /\ [Next]_vars => FilesInv'
<1> SUFFICES ASSUME FilesInv, [Next]_vars PROVE FilesInv'
    OBVIOUS
<1>1. CASE ParseEntry
    <2>1. EntriesInv'
        <3>1. CASE Passes(db.records[parsed'])
            BY <1>1, <3>1, EntryParsed
        <3>2. CASE ~Passes(db.records[parsed'])
            BY <1>1, <3>2 DEF ParseEntry, indexVars, FilesInv, EntriesInv
        <3> QED
            BY <3>1, <3>2
    <2>2. WalkInv'
        BY <1>1 DEF ParseEntry, FilesInv, WalkInv
    <2>3. Tried' = {}
        BY <1>1 DEF ParseEntry, FilesInv, WalkInv, Tried
    <2> QED
        BY <2>1, <2>2, <2>3 DEF FilesInv, FilesCloseInTime
<1>2. CASE Parsed
    <2>1. EntriesInv' /\ WalkInv'
        BY <1>2 DEF Parsed, indexVars, FilesInv, EntriesInv, WalkInv
    <2>2. Tried' = {}
        BY <1>2 DEF Parsed, FilesInv, WalkInv, Tried
    <2> QED
        BY <2>1, <2>2 DEF FilesInv, FilesCloseInTime
<1>3. CASE Walk
    <2>1. EntriesInv'
        BY <1>3 DEF Walk, indexVars, FilesInv, EntriesInv
    <2>2. WalkInv'
        <3>1. \/ first' = FIRST_INSCRIPTION_HEIGHT /\ last' = max_height
              \/ first' = 0 /\ last' = FIRST_INSCRIPTION_HEIGHT - 1
            BY <1>3 DEF Walk
        <3>2. first' \in Nat /\ last' \in Int
            BY <3>1, IndexAssumption DEF FilesInv, EntriesInv
        <3> QED
            BY <1>3, <3>2 DEF Walk, FilesInv, WalkInv, indexVars
    <2>3. Tried' = {}
        <3>1. height' = first' /\ at' = "walking" /\ first' \in Nat
            BY <1>3, <2>2 DEF Walk, WalkInv
        <3>2. Tried' = first' .. first' - 1
            BY <3>1 DEF Tried
        <3>3. \A n \in Nat : n .. n - 1 = {}
            OBVIOUS
        <3> QED
            BY <3>1, <3>2, <3>3
    <2> QED
        BY <2>1, <2>2, <2>3 DEF FilesInv, FilesCloseInTime
<1>4. CASE WalkEnds
    <2>1. EntriesInv' /\ WalkInv'
        BY <1>4 DEF WalkEnds, indexVars, FilesInv, EntriesInv, WalkInv
    <2>2. Tried' = Tried /\ UNCHANGED indexVars
        BY <1>4 DEF WalkEnds, FilesInv, WalkInv, Tried
    <2> QED
        BY <2>1, <2>2 DEF FilesInv, FilesCloseInTime, indexVars
<1>5. CASE CatchBlock
    BY <1>5, BlockCaught
<1>6. CASE Panic
    <2>1. EntriesInv' /\ WalkInv'
        BY <1>6 DEF Panic, indexVars, FilesInv, EntriesInv, WalkInv
    <2>2. Tried' = Tried /\ UNCHANGED indexVars
        BY <1>6 DEF Panic, FilesInv, WalkInv, Tried
    <2> QED
        BY <2>1, <2>2 DEF FilesInv, FilesCloseInTime, indexVars
<1>7. CASE UNCHANGED vars
    BY <1>7 DEF vars, indexVars, FilesInv, EntriesInv, WalkInv, FilesCloseInTime, Tried
<1> QED
    BY <1>1, <1>2, <1>3, <1>4, <1>5, <1>6, <1>7 DEF Next

\* No blk file is left open behind a walk (catch_block: BLK::close at the
\* largest height of the file).
THEOREM FilesAlwaysClose == Spec => []FilesCloseInTime
<1>1. FilesInv => FilesCloseInTime
    BY DEF FilesInv
<1> QED
    BY FilesInvInit, FilesInvNext, <1>1, PTL DEF Spec

-----------------------------------------------------------------------------
\* The index itself, for every order of the records.  Every height kept has a
\* record that came last, and the two maxima are heights of records and bounds
\* of them all.
HeightsIn(f) == {db.records[i].height : i \in {j \in Seen : db.records[j].file = f}}
AllHeights == {db.records[i].height : i \in Seen}

IsGreatest(m, S) == m \in S /\ \A n \in S : m >= n

LatestInv ==
    /\ DOMAIN entries = AllHeights
    /\ \A h \in DOMAIN entries :
          \E i \in Latest : db.records[i].height = h /\ entries[h] = db.records[i]

GreatestInv ==
    /\ DOMAIN max_height_in_blk = {db.records[i].file : i \in Seen}
    /\ DOMAIN blks = DOMAIN max_height_in_blk
    /\ \A f \in DOMAIN max_height_in_blk : IsGreatest(max_height_in_blk[f], HeightsIn(f))
    /\ IsGreatest(max_height, {0} \cup AllHeights)

IndexInv == WalkInv /\ LatestInv /\ GreatestInv

\* The greatest number of a set is what Max chooses.
LEMMA GreatestIsMax ==
    ASSUME NEW S \in SUBSET Int, NEW m, IsGreatest(m, S)
    PROVE  m = Max(S)
<1>1. IsGreatest(Max(S), S)
    BY DEF Max, IsGreatest
<1>2. m \in Int /\ Max(S) \in Int /\ m >= Max(S) /\ Max(S) >= m
    BY <1>1 DEF IsGreatest
<1> QED
    BY <1>2

\* Two records that came last at one height are the same.
LEMMA OneLatest ==
    ASSUME parsed \in Nat, NEW i \in Latest, NEW j \in Latest, db.records[i].height = db.records[j].height
    PROVE  i = j
<1>1. i \in Int /\ j \in Int /\ i <= j /\ j <= i
    BY DEF Latest, Seen
<1> QED
    BY <1>1

\* What a turn of the loop adds to the records seen.
LEMMA SeenGrows ==
    ASSUME WalkInv, ParseEntry
    PROVE  /\ parsed' = parsed + 1 /\ db' = db
           /\ Passes(db.records[parsed']) => Seen' = Seen \cup {parsed'}
           /\ ~Passes(db.records[parsed']) => Seen' = Seen
           /\ parsed' \notin Seen /\ \A i \in Seen : i \in Nat /\ i < parsed'
BY DEF ParseEntry, WalkInv, Seen
\* The height that a file gets is the greatest of those it has now.
LEMMA GreatestGrows ==
    ASSUME NEW S \in SUBSET Int, NEW m, IsGreatest(m, S), NEW n \in Int,
           NEW k, k = IF m > n THEN m ELSE n
    PROVE  IsGreatest(k, S \cup {n})
BY DEF IsGreatest

\* A record that passes comes last at its height.
LEMMA EntryIsLatest ==
    ASSUME WalkInv, LatestInv, ParseEntry, Passes(db.records[parsed'])
    PROVE  LatestInv'
<1> DEFINE n == parsed'
           r == db.records[n]
<1>1. /\ Seen' = Seen \cup {n} /\ db' = db /\ n \notin Seen
      /\ \A i \in Seen : i \in Nat /\ i < n
      /\ n \in Nat
    BY SeenGrows DEF WalkInv
<1>2. entries' = Put(entries, r.height, r)
    BY DEF ParseEntry, Inserted
<1>3. /\ DOMAIN entries' = DOMAIN entries \cup {r.height}
      /\ entries'[r.height] = r
      /\ \A h \in DOMAIN entries : h # r.height => entries'[h] = entries[h]
    BY <1>2 DEF Put
<1>4. DOMAIN entries' = AllHeights'
    BY <1>1, <1>3 DEF LatestInv, AllHeights
<1>5. n \in Latest'
    BY <1>1 DEF Latest
<1>6. ASSUME NEW i \in Latest, db.records[i].height # r.height
      PROVE  i \in Latest'
    BY <1>1, <1>6 DEF Latest
<1>7. ASSUME NEW h \in DOMAIN entries'
      PROVE  \E i \in Latest' : db'.records[i].height = h /\ entries'[h] = db'.records[i]
    <2>1. CASE h = r.height
        BY <1>1, <1>3, <1>5, <2>1
    <2>2. CASE h # r.height
        <3>1. PICK i \in Latest : db.records[i].height = h /\ entries[h] = db.records[i]
            BY <1>3, <2>2 DEF LatestInv
        <3>2. i \in Latest' /\ entries'[h] = entries[h]
            BY <1>3, <1>6, <2>2, <3>1
        <3> QED
            BY <1>1, <3>1, <3>2
    <2> QED
        BY <2>1, <2>2
<1> QED
    BY <1>4, <1>7 DEF LatestInv

\* The two maxima take the height of a record that passes in.
LEMMA EntryRaises ==
    ASSUME WalkInv, GreatestInv, ParseEntry, Passes(db.records[parsed']),
           \A i \in Seen : db.records[i].height \in Nat
    PROVE  GreatestInv'
<1>r. PICK n, r : n = parsed' /\ r = db.records[n]
    OBVIOUS
<1>m. PICK m : m = HeightInBlk(r)
    OBVIOUS
<1>1. Seen' = Seen \cup {n} /\ db' = db /\ n \notin Seen
    BY SeenGrows, <1>r
<1>2. r.height \in Nat
    BY IndexAssumption, <1>r DEF WalkInv, ParseEntry
<1>3. /\ max_height_in_blk' = Put(max_height_in_blk, r.file, m)
      /\ blks' = Put(blks, r.file, FALSE)
      /\ max_height' = IF max_height > r.height THEN max_height ELSE r.height
    <2>1. max_height \in Int
        BY DEF GreatestInv, IsGreatest, AllHeights
    <2> QED
        BY <1>2, <1>r, <1>m, <2>1 DEF ParseEntry
<1>4. /\ DOMAIN max_height_in_blk' = DOMAIN max_height_in_blk \cup {r.file}
      /\ max_height_in_blk'[r.file] = m
      /\ \A f \in DOMAIN max_height_in_blk : f # r.file => max_height_in_blk'[f] = max_height_in_blk[f]
      /\ DOMAIN blks' = DOMAIN blks \cup {r.file}
    BY <1>3 DEF Put
<1>5. /\ HeightsIn(r.file)' = HeightsIn(r.file) \cup {r.height}
      /\ AllHeights' = AllHeights \cup {r.height}
      /\ \A f : f # r.file => HeightsIn(f)' = HeightsIn(f)
    <2>1. AllHeights' = {db.records[i].height : i \in Seen \cup {n}}
        BY <1>1 DEF AllHeights
    <2>2. ASSUME NEW f
          PROVE  HeightsIn(f)' = {db.records[i].height : i \in {j \in Seen \cup {n} : db.records[j].file = f}}
        BY <1>1 DEF HeightsIn
    <2>3. {j \in Seen \cup {n} : db.records[j].file = r.file} = {j \in Seen : db.records[j].file = r.file} \cup {n}
        BY <1>r
    <2>4. \A f : f # r.file =>
            {j \in Seen \cup {n} : db.records[j].file = f} = {j \in Seen : db.records[j].file = f}
        BY <1>r
    <2>5. AllHeights' = AllHeights \cup {r.height}
        BY <1>r, <2>1 DEF AllHeights
    <2>6. HeightsIn(r.file)' = HeightsIn(r.file) \cup {r.height}
        <3>1. HeightsIn(r.file)' = {db.records[i].height : i \in {j \in Seen : db.records[j].file = r.file} \cup {n}}
            BY <2>2, <2>3
        <3> QED
            BY <1>r, <3>1 DEF HeightsIn
    <2>7. \A f : f # r.file => HeightsIn(f)' = HeightsIn(f)
        BY <2>2, <2>4 DEF HeightsIn
    <2> QED
        BY <2>5, <2>6, <2>7
<1>6. /\ \A f : HeightsIn(f) \in SUBSET Int
      /\ AllHeights \in SUBSET Int
    BY DEF HeightsIn, AllHeights
<1>7. IsGreatest(m, HeightsIn(r.file) \cup {r.height})
    <2>1. CASE r.file \in DOMAIN max_height_in_blk
        <3>1. m = IF max_height_in_blk[r.file] > r.height THEN max_height_in_blk[r.file] ELSE r.height
            BY <1>m, <2>1 DEF HeightInBlk
        <3>2. IsGreatest(max_height_in_blk[r.file], HeightsIn(r.file))
            BY <2>1 DEF GreatestInv
        <3> QED
            BY <1>2, <1>6, <3>1, <3>2, GreatestGrows
    <2>2. CASE r.file \notin DOMAIN max_height_in_blk
        <3>1. HeightsIn(r.file) = {} /\ m = r.height
            BY <1>m, <2>2 DEF HeightInBlk, GreatestInv, HeightsIn
        <3> QED
            BY <1>2, <3>1 DEF IsGreatest
    <2> QED
        BY <2>1, <2>2
<1>8. ASSUME NEW f \in DOMAIN max_height_in_blk'
      PROVE  IsGreatest(max_height_in_blk'[f], HeightsIn(f)')
    <2>1. CASE f = r.file
        BY <1>4, <1>5, <1>7, <2>1
    <2>2. CASE f # r.file
        BY <1>4, <1>5, <2>2 DEF GreatestInv
    <2> QED
        BY <2>1, <2>2
<1>9. IsGreatest(max_height', {0} \cup AllHeights')
    <2>1. {0} \cup AllHeights' = ({0} \cup AllHeights) \cup {r.height}
        BY <1>5
    <2>2. ({0} \cup AllHeights) \in SUBSET Int /\ IsGreatest(max_height, {0} \cup AllHeights)
        BY <1>6 DEF GreatestInv
    <2>3. PICK S, g, h : S = {0} \cup AllHeights /\ g = max_height /\ h = r.height
        OBVIOUS
    <2>4. PICK k : k = max_height'
        OBVIOUS
    <2>5. IsGreatest(k, S \cup {r.height})
        <3>1. S \in SUBSET Int /\ IsGreatest(g, S) /\ h \in Int
            BY <1>2, <2>2, <2>3
        <3>2. k = IF g > h THEN g ELSE h
            BY <1>3, <2>3, <2>4
        <3>3. IsGreatest(k, S \cup {h})
            BY <3>1, <3>2, GreatestGrows
        <3> QED
            BY <2>3, <3>3
    <2> QED
        BY <2>1, <2>3, <2>4, <2>5
<1>10. DOMAIN max_height_in_blk' = {db'.records[i].file : i \in Seen'}
    BY <1>1, <1>4, <1>r DEF GreatestInv
<1> QED
    BY <1>4, <1>8, <1>9, <1>10 DEF GreatestInv, IsGreatest, HeightsIn, AllHeights
LEMMA IndexInvInit == Init => IndexInv
<1> SUFFICES ASSUME Init PROVE IndexInv
    OBVIOUS
<1>1. Seen = {}
    BY DEF Init, Seen
<1>2. WalkInv
    BY FilesInvInit DEF FilesInv
<1>3. AllHeights = {} /\ {db.records[i].file : i \in Seen} = {}
    BY <1>1 DEF AllHeights
<1>4. LatestInv
    BY <1>3 DEF Init, Nothing, LatestInv
<1>5. GreatestInv
    BY <1>3 DEF Init, Nothing, GreatestInv, IsGreatest
<1> QED
    BY <1>2, <1>4, <1>5 DEF IndexInv

\* Opening and closing files is all that is done to the index once it is built.
LEMMA IndexKept ==
    ASSUME IndexInv, WalkInv', UNCHANGED <<db, entries, max_height, max_height_in_blk>>,
           Seen' = Seen, DOMAIN blks' = DOMAIN blks
    PROVE  IndexInv'
<1>1. AllHeights' = AllHeights /\ Latest' = Latest
    BY DEF AllHeights, Latest
<1>2. \A f : HeightsIn(f)' = HeightsIn(f)
    BY DEF HeightsIn
<1>3. LatestInv'
    BY <1>1 DEF IndexInv, LatestInv
<1>4. \A f \in DOMAIN max_height_in_blk : IsGreatest(max_height_in_blk[f], HeightsIn(f)')
    BY <1>2 DEF IndexInv, GreatestInv
<1>5. GreatestInv'
    BY <1>1, <1>4 DEF IndexInv, GreatestInv, IsGreatest, HeightsIn
<1> QED
    BY <1>3, <1>5 DEF IndexInv

LEMMA HeightsAreNatural ==
    ASSUME WalkInv, LatestInv, FilesInv
    PROVE  \A i \in Seen : db.records[i].height \in Nat
BY DEF LatestInv, AllHeights, FilesInv, EntriesInv

LEMMA IndexInvNext == FilesInv /\ FilesInv' /\ IndexInv /\ [Next]_vars => IndexInv'
<1> SUFFICES ASSUME FilesInv, FilesInv', IndexInv, [Next]_vars PROVE IndexInv'
    OBVIOUS
<1>0. WalkInv /\ WalkInv'
    BY DEF FilesInv
<1>1. CASE ParseEntry /\ Passes(db.records[parsed'])
    <2>1. LatestInv'
        BY <1>1, EntryIsLatest DEF IndexInv
    <2>2. GreatestInv'
        BY <1>0, <1>1, HeightsAreNatural, EntryRaises DEF IndexInv
    <2> QED
        BY <1>0, <2>1, <2>2 DEF IndexInv
<1>2. CASE ParseEntry /\ ~Passes(db.records[parsed'])
    <2>1. Seen' = Seen
        BY <1>0, <1>2, SeenGrows
    <2> QED
        BY <1>0, <1>2, <2>1, IndexKept DEF ParseEntry, indexVars
<1>3. CASE UNCHANGED <<db, parsed, entries, max_height, max_height_in_blk>> /\ DOMAIN blks' = DOMAIN blks
    <2>1. Seen' = Seen
        BY <1>3 DEF Seen
    <2> QED
        BY <1>0, <1>3, <2>1, IndexKept
<1>4. CASE Parsed \/ Walk \/ WalkEnds \/ Panic \/ UNCHANGED vars
    BY <1>3, <1>4 DEF Parsed, Walk, WalkEnds, Panic, vars, indexVars
<1>5. CASE CatchBlock
    BY <1>3, <1>5 DEF CatchBlock
<1> QED
    BY <1>1, <1>2, <1>4, <1>5 DEF Next

LEMMA IndexInvRight == IndexInv /\ FilesInv => IndexRight
<1> SUFFICES ASSUME IndexInv, FilesInv PROVE IndexRight
    OBVIOUS
<1>0. WalkInv /\ LatestInv /\ GreatestInv
    BY DEF IndexInv
<1>1. \A i \in Seen : db.records[i].height \in Nat
    BY <1>0, HeightsAreNatural
<1>2. ASSUME NEW i \in Latest
      PROVE  entries[db.records[i].height] = db.records[i]
    <2>1. db.records[i].height \in DOMAIN entries
        BY <1>0 DEF LatestInv, AllHeights, Latest
    <2>2. PICK j \in Latest : /\ db.records[j].height = db.records[i].height
                              /\ entries[db.records[i].height] = db.records[j]
        BY <1>0, <2>1 DEF LatestInv
    <2>3. i = j
        BY <1>0, <2>2, OneLatest DEF WalkInv
    <2> QED
        BY <2>2, <2>3
<1>3. ASSUME NEW f \in DOMAIN max_height_in_blk
      PROVE  max_height_in_blk[f] = Max(HeightsIn(f))
    <2>1. HeightsIn(f) \in SUBSET Int
        BY <1>1 DEF HeightsIn
    <2> QED
        BY <1>0, <2>1, GreatestIsMax DEF GreatestInv
<1>4. max_height = Max({0} \cup AllHeights)
    <2>1. ({0} \cup AllHeights) \in SUBSET Int
        BY <1>1 DEF AllHeights
    <2> QED
        BY <1>0, <2>1, GreatestIsMax DEF GreatestInv
<1> QED
    BY <1>0, <1>2, <1>3, <1>4 DEF IndexRight, LatestInv, GreatestInv, HeightsIn, AllHeights

\* The index keeps for every height the entry that came last, for every file
\* the largest height of an entry in it, and the largest height of all
\* (parse_index_for_ordinals), whatever the order of the keys.
THEOREM IndexAlwaysRight == Spec => []IndexRight
<1>1. Init => FilesInv /\ IndexInv
    BY FilesInvInit, IndexInvInit
<1>2. (FilesInv /\ IndexInv) /\ [Next]_vars => (FilesInv /\ IndexInv)'
    BY FilesInvNext, IndexInvNext
<1>3. FilesInv /\ IndexInv => IndexRight
    BY IndexInvRight
<1> QED
    BY <1>1, <1>2, <1>3, PTL DEF Spec

-----------------------------------------------------------------------------
\* What is delivered.  A walk has come over heights that all have an entry, in an
\* index that is complete.
ReadInv ==
    /\ at # "parsing" => parsed = Len(db.records)
    /\ at = "walking" =>
          /\ first \in {0, FIRST_INSCRIPTION_HEIGHT}
          /\ \A g \in first .. height - 1 : g \in DOMAIN entries

DeliveryInv == ReadInv /\ DeliversTheChain

LEMMA ReadInvNext == FilesInv /\ ReadInv /\ [Next]_vars => ReadInv'
<1> SUFFICES ASSUME FilesInv, ReadInv, [Next]_vars PROVE ReadInv'
    OBVIOUS
<1>1. CASE ParseEntry
    BY <1>1 DEF ParseEntry, ReadInv
<1>2. CASE Parsed
    BY <1>2 DEF Parsed, ReadInv, indexVars
<1>3. CASE Walk
    <2>1. first' \in {0, FIRST_INSCRIPTION_HEIGHT} /\ height' = first'
        BY <1>3 DEF Walk
    <2>2. first' .. height' - 1 = {}
        <3>1. \A n \in Nat : n .. n - 1 = {}
            OBVIOUS
        <3> QED
            BY <2>1, <3>1, IndexAssumption
    <2> QED
        BY <1>3, <2>1, <2>2 DEF Walk, ReadInv, indexVars
<1>4. CASE WalkEnds
    BY <1>4 DEF WalkEnds, ReadInv, indexVars
<1>5. CASE CatchBlock
    <2>1. /\ height \in DOMAIN entries /\ entries' = entries /\ first' = first
          /\ UNCHANGED <<db, parsed>> /\ at = "walking" /\ at' \in {"idle", "walking"}
          /\ at' = "walking" => height' = height + 1
        BY <1>5 DEF CatchBlock
    <2>2. first \in Int /\ height \in Int
        BY DEF FilesInv, WalkInv
    <2> QED
        BY <2>1, <2>2 DEF ReadInv
<1>6. CASE Panic
    BY <1>6 DEF Panic, ReadInv, indexVars
<1>7. CASE UNCHANGED vars
    BY <1>7 DEF vars, indexVars, ReadInv
<1> QED
    BY <1>1, <1>2, <1>3, <1>4, <1>5, <1>6, <1>7 DEF Next

\* A block that is read without an error is the chain's, or its entry came
\* behind that of the chain's, or the walk has come to it over entries.
LEMMA ReadIsTheChains ==
    ASSUME FilesInv, IndexInv, ReadInv, CatchBlock, got' # got
    PROVE  DeliversTheChain'
<1>r. PICK r : r = entries[height]
    OBVIOUS
<1>h. PICK h : h = height
    OBVIOUS
<1>1. /\ HasBit(r.status, BLOCK_HAVE_DATA)
      /\ got' = [height |-> height, hash |-> r.hash]
      /\ height \in DOMAIN entries /\ at = "walking" /\ UNCHANGED <<db, parsed>>
    BY <1>r DEF CatchBlock
<1>2. PICK j \in Latest : db.records[j].height = height /\ r = db.records[j]
    BY <1>1, <1>r DEF IndexInv, LatestInv
<1>3. parsed = Len(db.records) /\ j \in 1 .. Len(db.records) /\ j \in Seen
    BY <1>1, <1>2 DEF ReadInv, Latest, Seen
<1>4. height \in Nat /\ first \in Nat /\ first <= height /\ db \in Databases
    BY DEF FilesInv, WalkInv
<1>5. Seen = {i \in 1 .. Len(db.records) : Passes(db.records[i])} /\ Seen' = Seen
    BY <1>1, <1>3 DEF Seen
<1>6. /\ got' = [height |-> h, hash |-> r.hash] /\ db' = db
      /\ j \in Stored(h)' /\ db.records[j].hash = r.hash
    BY <1>1, <1>2, <1>3, <1>5, <1>h DEF Stored
<1>7. CASE height \in DOMAIN db.chain
    <2>1. PICK i \in 1 .. Len(db.records) :
              Passes(db.records[i]) /\ db.records[i].height = height /\ db.records[i].hash = db.chain[height]
        BY <1>4, <1>7, DatabaseAssumption
    <2>2. i \in Seen /\ i <= j
        BY <1>2, <1>5, <2>1 DEF Latest
    <2>3. i = j \/ i < j
        BY <1>3, <2>1, <2>2
    <2>4. r.hash = db.chain[h] \/ i < j
        BY <1>6, <1>h, <2>1, <2>3
    <2> QED
        BY <1>5, <1>6, <1>7, <1>h, <2>1, <2>2, <2>4 DEF DeliversTheChain
<1>8. CASE height \notin DOMAIN db.chain
    <2>1. ASSUME NEW g \in WalkedFrom(height) .. height
          PROVE  \E i \in Seen : db.records[i].height = g
        <3>1. g \in first .. height
            BY <1>1, <1>4, IndexAssumption DEF ReadInv, WalkedFrom
        <3>2. g \in DOMAIN entries
            BY <1>1, <1>4, <3>1 DEF ReadInv
        <3> QED
            BY <3>2 DEF IndexInv, LatestInv, AllHeights
    <2>2. \A g \in WalkedFrom(h) .. h : \E i \in Seen' : db'.records[i].height = g
        BY <1>5, <1>6, <1>h, <2>1
    <2> QED
        BY <1>6, <1>8, <1>h, <2>2 DEF DeliversTheChain, WalkedFrom
<1> QED
    BY <1>7, <1>8

LEMMA DeliveryNext == FilesInv /\ IndexInv /\ DeliveryInv /\ [Next]_vars => DeliveryInv'
<1> SUFFICES ASSUME FilesInv, IndexInv, DeliveryInv, [Next]_vars PROVE DeliveryInv'
    OBVIOUS
<1>1. ReadInv'
    BY ReadInvNext DEF DeliveryInv
<1>2. CASE got' = got
    <2>1. Seen \subseteq Seen' /\ db' = db
        <3>1. db' = db /\ parsed \in Nat /\ (parsed' = parsed \/ parsed' = parsed + 1)
            BY DEF Next, vars, indexVars, ParseEntry, Parsed, Walk, WalkEnds, CatchBlock, Panic, FilesInv, WalkInv
        <3> QED
            BY <3>1 DEF Seen
    <2>2. DeliversTheChain'
        BY <1>2, <2>1 DEF DeliveryInv, DeliversTheChain, Stored, WalkedFrom
    <2> QED
        BY <1>1, <2>2 DEF DeliveryInv
<1>3. CASE got' # got
    <2>1. CatchBlock
        BY <1>3 DEF Next, vars, indexVars, ParseEntry, Parsed, Walk, WalkEnds, Panic
    <2>2. DeliversTheChain'
        BY <1>3, <2>1, ReadIsTheChains DEF DeliveryInv
    <2> QED
        BY <1>1, <2>2 DEF DeliveryInv
<1> QED
    BY <1>2, <1>3

\* A block that is delivered is that of the node's chain, unless another entry
\* of its height stands behind it in the index, or it lies on top of the chain,
\* with an entry for every height in between (catch_block, start,
\* index_output_value): whatever else the index has, blocks that failed or are
\* not connected included.
THEOREM ChainIsDelivered == Spec => []DeliversTheChain
<1>1. Init => FilesInv /\ IndexInv /\ DeliveryInv
    <2>1. Init => ReadInv /\ DeliversTheChain
        BY DEF Init, ReadInv, DeliversTheChain
    <2> QED
        BY <2>1, FilesInvInit, IndexInvInit DEF DeliveryInv
<1>2. (FilesInv /\ IndexInv /\ DeliveryInv) /\ [Next]_vars => (FilesInv /\ IndexInv /\ DeliveryInv)'
    BY FilesInvNext, IndexInvNext, DeliveryNext
<1>3. FilesInv /\ IndexInv /\ DeliveryInv => DeliversTheChain
    BY DEF DeliveryInv
<1> QED
    BY <1>1, <1>2, <1>3, PTL DEF Spec
=============================================================================
