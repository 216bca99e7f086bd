------------------------------ MODULE LevelDB ------------------------------
(***************************************************************************)
(* The key-value stores of crate rusty_leveldb as ordi uses them: a store  *)
(* is a function whose domain is the set of keys present.  The crate is    *)
(* outside the repository; only what src/lib.rs and src/block.rs rely on   *)
(* is modelled: put, get, delete, and a WriteBatch applied in one step.    *)
(***************************************************************************)
EXTENDS Integers

\* A store (or a batch) with no key.
EmptyDB == [k \in {} |-> 0]

\* A store whose keys and values are of these types.
IsStore(db, keys, values) == DOMAIN db \subseteq keys /\ \A k \in DOMAIN db : db[k] \in values

\* DB::put, WriteBatch::put and HashMap::insert: key k now holds v.
Put(db, k, v) == [x \in DOMAIN db \cup {k} |-> IF x = k THEN v ELSE db[x]]

\* The keys of a batch that are deleted.
Without(db, keys) == [x \in DOMAIN db \ keys |-> db[x]]

\* DB::write: the puts of the batch become visible together.
Write(db, batch) ==
    [x \in DOMAIN db \cup DOMAIN batch |->
        IF x \in DOMAIN batch THEN batch[x] ELSE db[x]]
=============================================================================
