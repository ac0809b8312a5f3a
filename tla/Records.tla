------------------------------ MODULE Records ------------------------------
(***************************************************************************)
(* What the in-memory IndexedDB does to the records of one object store and *)
(* one index of it (packages/idb-bridge/src/MemoryBackend.ts), and how       *)
(* cursors and keys use it.  Keys are numbers, ordered as compareKeys        *)
(* orders them; the sorted trees are functions, whose domains are the keys   *)
(* (module BTree has the trees themselves).                                  *)
(*                                                                          *)
(* A value is its key path's key, the keys of the index's key path, and a    *)
(* body.  A store is [data, index, gen]: key -> value, index key -> set of   *)
(* primary keys, and the key generator.                                      *)
(***************************************************************************)
EXTENDS Integers, FiniteSets, Sequences, SequencesExt, FiniteSetsExt, Functions

CONSTANTS
  Undef,   \* undefined
  Missing  \* what is read through an index entry that has no record: an exception

----------------------------------------------------------------------------
(* Keys in their order *)

MinKey(S) == IF S = {} THEN Undef ELSE Min(S)
MaxKey(S) == IF S = {} THEN Undef ELSE Max(S)
NextHigherKey(S, k) == MinKey({x \in S : x > k})
FirstKey(S, forward) == IF forward THEN MinKey(S) ELSE MaxKey(S)
Beyond(a, b, forward) == IF forward THEN a > b ELSE a < b
FurthestKey(forward, a, b) ==
  CASE a = Undef -> b [] b = Undef -> a [] OTHER -> IF Beyond(b, a, forward) THEN b ELSE a

Bound(lower, upper, lowerOpen, upperOpen) ==
  [lower |-> lower, upper |-> upper, lowerOpen |-> lowerOpen, upperOpen |-> upperOpen]
Only(k) == Bound(k, k, FALSE, FALSE)
Includes(range, k) ==
  /\ range.lower # Undef => k > range.lower \/ (k = range.lower /\ ~range.lowerOpen)
  /\ range.upper # Undef => k < range.upper \/ (k = range.upper /\ ~range.upperOpen)

Forward(direction) == direction \in {"next", "nextunique"}
Unique(direction) == direction \in {"nextunique", "prevunique"}

----------------------------------------------------------------------------
(* getRecords: a request has a range, a direction, the last position of its  *)
(* cursor (index key and primary key) and the key to advance to.  Every      *)
(* request of the wallet has limit 1.                                        *)

\* Where reading from the store begins, if it is in the range.  Below a key that
\* has no record it is the next HIGHER one, whatever the direction; a lower bound
\* that is open but has a record is tried, and ends the reading.
StorePosition(keys, req) ==
  LET forward == Forward(req.direction)
      bound == IF forward THEN req.range.lower ELSE req.range.upper
      pos == FurthestKey(forward, req.advance, IF req.lastPrimary # Undef THEN req.lastPrimary ELSE bound)
  IN CASE pos = Undef -> FirstKey(keys, forward)
       [] pos # Undef /\ (pos \notin keys \/ pos = req.lastPrimary) -> NextHigherKey(keys, pos)
       [] OTHER -> pos

\* The key of the first record that is read: each request asks for one.
GetFromStore(store, req) ==
  LET keys == DOMAIN store.data
      forward == Forward(req.direction)
      start == StorePosition(keys, req)
      found == {k \in keys : ~Beyond(start, k, forward) /\ Includes(req.range, k)}
  IN IF start = Undef \/ ~Includes(req.range, start) THEN Undef ELSE FirstKey(found, forward)

IndexPosition(keys, req) ==
  LET forward == Forward(req.direction)
      bound == IF forward THEN req.range.lower ELSE req.range.upper
      last == IF req.lastIndex # Undef THEN req.lastIndex ELSE bound
      pos == IF req.advance # Undef /\ req.advance > last THEN req.advance ELSE last
  IN CASE pos = Undef -> FirstKey(keys, forward)
       [] pos # Undef /\ pos \notin keys -> NextHigherKey(keys, pos)
       [] OTHER -> pos

\* The index key and the primary key of the first entry that is read, after the cursor's
\* last; if the results are to be unique, under another index key.
GetFromIndex(store, req) ==
  LET keys == DOMAIN store.index
      forward == Forward(req.direction)
      start == IndexPosition(keys, req)
      Entries(i) == {p \in store.index[i] :
                       i = req.lastIndex => Beyond(p, req.lastPrimary, forward) /\ ~Unique(req.direction)}
      found == {i \in keys : ~Beyond(start, i, forward) /\ Includes(req.range, i) /\ Entries(i) # {}}
      first == FirstKey(found, forward)
  IN IF start = Undef \/ ~Includes(req.range, start) \/ found = {} THEN <<>>
     ELSE <<first, FirstKey(Entries(first), forward)>>

----------------------------------------------------------------------------
(* Storing and deleting.  A result is the store afterwards, or an error; an  *)
(* error aborts the transaction, so what was done before it does not matter.  *)

Fails(why) == [error |-> why]
Gives(store) == [error |-> "none", store |-> store]

\* A sorted tree with a key more, or another value for it.
With(tree, key, value) == [k \in DOMAIN tree \cup {key} |-> IF k = key THEN value ELSE tree[k]]

\* getIndexKeys: of several key paths, those that lead nowhere are left out.
IndexKeys(schema, value) ==
  IF schema.multiEntry THEN SelectSeq(value.by, LAMBDA k : k # Undef) ELSE value.by

\* Every key is inserted into the index as it was before: when several are new,
\* the last one is what remains.
InsertIntoIndex(index, schema, key, value) ==
  LET keys == IndexKeys(schema, value)
      new == {n \in DOMAIN keys : keys[n] \notin DOMAIN index \/ key \notin index[keys[n]]}
      k == keys[Max(new)]
  IN CASE Undef \in ToSet(keys) -> Fails("DataError")
       [] schema.unique /\ ToSet(keys) \cap DOMAIN index # {} -> Fails("ConstraintError")
       [] new = {} -> [error |-> "none", index |-> index]
       [] OTHER -> [error |-> "none", index |-> With(index, k, {key} \cup IF k \in DOMAIN index THEN index[k] ELSE {})]

DeleteFromIndex(index, schema, key, value) ==
  LET keys == IndexKeys(schema, value)
      k == Last(keys)
  IN CASE Undef \in ToSet(keys) -> Fails("DataError")
       [] ToSet(keys) \ DOMAIN index # {} -> Fails("db inconsistent")
       [] keys = <<>> -> [error |-> "none", index |-> index]
       [] index[k] = {key} -> [error |-> "none", index |-> [i \in DOMAIN index \ {k} |-> index[i]]]
       [] OTHER -> [error |-> "none", index |-> [index EXCEPT ![k] = @ \ {key}]]

\* makeStoreKeyValue: the key of a value, and the key generator afterwards.  The key
\* given with the request counts only for a store without a key path that generates
\* keys; its number becomes the next generated key.
StoreKey(schema, value, key, gen) ==
  LET Key(k, g) == [error |-> "none", key |-> k, gen |-> g]
  IN CASE key # Undef /\ ~schema.keyPath /\ schema.autoIncrement -> Key(key, key)
       [] key # Undef /\ (schema.keyPath \/ ~schema.autoIncrement) -> Fails("DataError")
       [] key = Undef /\ schema.keyPath /\ schema.autoIncrement ->
            IF value.key = Undef THEN Key(gen, gen + 1) ELSE Key(value.key, Max({gen, value.key + 1}))
       [] key = Undef /\ schema.keyPath /\ ~schema.autoIncrement ->
            IF value.key = Undef THEN Fails("DataError") ELSE Key(value.key, gen)
       [] key = Undef /\ ~schema.keyPath /\ schema.autoIncrement -> Key(gen, gen + 1)
       [] OTHER -> Fails("DataError")

\* The index entries of the record that is overwritten stay.
WithRecord(store, schema, key, value, gen) ==
  LET inserted == InsertIntoIndex(store.index, schema, key, value)
  IN IF inserted.error # "none" THEN inserted
     ELSE Gives([data |-> With(store.data, key, value), index |-> inserted.index, gen |-> gen])

StoreRecord(store, schema, level, value, key) ==
  LET k == StoreKey(schema, value, key, store.gen)
  IN CASE level = "UpdateExisting" ->
            IF key \notin DOMAIN store.data THEN Fails("record does not exist")
            ELSE WithRecord(store, schema, key, value, store.gen)
       [] level # "UpdateExisting" /\ k.error # "none" -> k
       [] level = "NoOverwrite" /\ k.error = "none" /\ k.key \in DOMAIN store.data -> Fails("refusing to overwrite")
       [] OTHER -> WithRecord(store, schema, k.key, value, k.gen)

\* The keys that deleteRecord deletes.  With an open upper bound it stops at that very
\* key only: when there is no such record, everything above goes as well.
DeletedKeys(keys, range) ==
  LET Reached(k) == range.lower # Undef => k > range.lower \/ (k = range.lower /\ ~range.lowerOpen)
      stops == {k \in keys : /\ Reached(k) /\ range.upper # Undef
                             /\ IF range.upperOpen THEN k = range.upper ELSE k > range.upper}
  IN {k \in keys : Reached(k) /\ \A s \in stops : k < s}

\* Mutant: the index keeps its entries.
DeleteRecordOnly(store, schema, range) ==
  Gives([store EXCEPT !.data = [k \in DOMAIN store.data \ DeletedKeys(DOMAIN store.data, range) |-> store.data[k]]])
DeleteRecord(store, schema, range) ==
  LET gone == DeletedKeys(DOMAIN store.data, range)
      Step(k, result) == IF result.error # "none" THEN result
                         ELSE DeleteFromIndex(result.index, schema, k, store.data[k])
      emptied == MapThenFoldSet(Step, [error |-> "none", index |-> store.index], LAMBDA k : k,
                                LAMBDA S : Max(S), gone)
  IN IF emptied.error # "none" THEN emptied
     ELSE Gives([store EXCEPT !.data = [k \in DOMAIN store.data \ gone |-> store.data[k]],
                              !.index = emptied.index])

----------------------------------------------------------------------------
(* Requests of object stores, indexes and cursors *)

Query(range, direction) ==
  [range |-> range, direction |-> direction, lastIndex |-> Undef, lastPrimary |-> Undef, advance |-> Undef]

EmptyStore == [data |-> <<>>, index |-> <<>>, gen |-> 1]

\* An index entry without a record makes reading through the index fail.
ValueOf(store, key) == IF key \in DOMAIN store.data THEN store.data[key] ELSE Missing

Get(store, key) ==
  LET found == GetFromStore(store, Query(Only(key), "next"))
  IN IF found = Undef THEN Undef ELSE ValueOf(store, found)
GetIndexed(store, indexKey) ==
  LET found == GetFromIndex(store, Query(Only(indexKey), "next"))
  IN IF found = <<>> THEN Undef ELSE ValueOf(store, found[2])

\* A cursor is the query that continues it.
NewCursor(byIndex, range, direction) == [byIndex |-> byIndex, query |-> Query(range, direction)]
\* _iterate: the next record's key (Undef when there is none) and the cursor at it.
Iterate(store, cursor) ==
  LET entry == GetFromIndex(store, cursor.query)
      key == GetFromStore(store, cursor.query)
      At(i, p) == [key |-> p, cursor |-> [cursor EXCEPT !.query.lastIndex = i, !.query.lastPrimary = p]]
      end == [key |-> Undef, cursor |-> cursor]
  IN IF cursor.byIndex THEN IF entry = <<>> THEN end ELSE At(entry[1], entry[2])
     ELSE IF key = Undef THEN end ELSE At(Undef, key)
=============================================================================
