------------------------------ MODULE MCTrees ------------------------------
(***************************************************************************)
(* A store's two trees in the in-memory database: the committed one and the *)
(* one a transaction edits, with a commit or a rollback now and then.  What *)
(* the trees should hold is kept beside them as functions.                 *)
(***************************************************************************)
EXTENDS BTree, TLC

CONSTANTS Keys, Orders, MaxOps, MaxDeletes

VARIABLES heap, original, modified, originalMap, modifiedMap, ops, deletes
tvars == <<heap, original, modified, originalMap, modifiedMap, ops, deletes>>

TreeInit == \E order \in Orders :
  LET tree == NewTree([i \in DOMAIN order |-> <<order[i], 0>>])
  IN /\ heap = tree.heap
     /\ original = tree.root /\ modified = original
     /\ originalMap = [k \in ToSet(order) |-> 0] /\ modifiedMap = originalMap
     /\ ops = 0 /\ deletes = 0

Becomes(tree) == heap' = tree.heap /\ modified' = tree.root

\* A search may throw in a tree that is not searchable: nothing is done with it any more.
Put == \E k \in Keys :
  /\ ops < MaxOps
  /\ Searchable(heap, modified)
  /\ Becomes(With(heap, modified, k, ops + 1))
  /\ modifiedMap' = (k :> (ops + 1)) @@ modifiedMap
  /\ ops' = ops + 1
  /\ UNCHANGED <<original, originalMap, deletes>>

Delete == \E k \in DOMAIN modifiedMap :
  /\ ops < MaxOps
  /\ deletes < MaxDeletes
  /\ Searchable(heap, modified)
  /\ Becomes(Without(heap, modified, k))
  /\ modifiedMap' = [i \in DOMAIN modifiedMap \ {k} |-> modifiedMap[i]]
  /\ ops' = ops + 1
  /\ deletes' = deletes + 1
  /\ UNCHANGED <<original, originalMap>>

Commit == /\ modified # original
          /\ original' = modified
          /\ originalMap' = modifiedMap
          /\ UNCHANGED <<heap, modified, modifiedMap, ops, deletes>>

Rollback == /\ modified # original
            /\ modified' = original
            /\ modifiedMap' = originalMap
            /\ UNCHANGED <<heap, original, originalMap, ops, deletes>>

TreeNext == Put \/ Delete \/ Commit \/ Rollback
TreeSpec == TreeInit /\ [][TreeNext]_tvars

----------------------------------------------------------------------------
(* What a tree should answer, from the function it stands for. *)
Denotes(root, map) ==
  LET count == Cardinality(DOMAIN map)
      rank(k) == Cardinality({x \in DOMAIN map : x <= k})
      pair(i) == LET k == CHOOSE x \in DOMAIN map : rank(x) = i IN <<k, map[k]>>
      pairs == [i \in 1..count |-> pair(i)]
      at(i) == IF i \in 1..count THEN pairs[i] ELSE Undefined
      below(k) == IF k \in DOMAIN map THEN rank(k) - 1 ELSE rank(k)
  IN /\ Pairs(heap, root) = pairs
     /\ \A k \in Keys :
          /\ Get(heap, root, k) = IF k \in DOMAIN map THEN map[k] ELSE Undefined
          /\ NextHigherPair(heap, root, k) = at(rank(k) + 1)
          /\ NextLowerPair(heap, root, k) = at(below(k))
     /\ FirstKeyOf(heap, root) = IF count = 0 THEN Undefined ELSE pairs[1][1]
     /\ MaxKey(heap, root) = IF count = 0 THEN Undefined ELSE pairs[count][1]

\* Both trees hold and answer what they should, whatever nodes they share: an edit of the
\* one is never seen in the other, and a rollback is to forget the copy ("any nodes that
\* are shared ... are cloned so that the changes do not affect other copies", clone).
TreesAreMaps == /\ Searchable(heap, original) => Denotes(original, originalMap)
                /\ Searchable(heap, modified) => Denotes(modified, modifiedMap)

\* The tree's own check for serious bugs (checkValid).
TreesAreValid == CheckValid(heap, original, TRUE) /\ CheckValid(heap, modified, TRUE)

\* Orders in which a tree of eleven keys was filled: two levels, and three.
Upward == [i \in 1..10 |-> 2 * i]
Mixed == <<18, 22, 14, 20, 4, 16, 12, 6, 10, 2, 8>>
MCOrders == {Upward, Mixed}
=============================================================================
