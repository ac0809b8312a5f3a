------------------------------- MODULE BTree -------------------------------
(***************************************************************************)
(* The sorted trees of the in-memory IndexedDB                              *)
(* (packages/idb-bridge/src/tree/b+tree.ts): B+ trees whose copies share     *)
(* nodes until one of them is edited.  MemoryBackend keeps a store's          *)
(* committed tree and edits copies of it, so that a rollback is to forget     *)
(* the copy.                                                                *)
(*                                                                          *)
(* A heap is a sequence of nodes; a node has a flag `shared', keys, and       *)
(* slots: the values of a leaf, or the children of an internal node, whose    *)
(* keys are its children's greatest ones.  A tree is its root.  Operators     *)
(* that change nodes take a heap and give one back.                          *)
(***************************************************************************)
EXTENDS Integers, Sequences, SequencesExt, FiniteSets

CONSTANTS
  MaxNodeSize,  \* _maxNodeSize
  Undefined     \* undefined

ASSUME BTreeAssumption == MaxNodeSize \in Nat /\ MaxNodeSize >= 4

Leaf(keys, values) == [leaf |-> TRUE, keys |-> keys, slots |-> values, shared |-> FALSE]
Internal(keys, children) == [leaf |-> FALSE, keys |-> keys, slots |-> children, shared |-> FALSE]
EmptyLeaf == 1
EmptyHeap == <<[Leaf(<<>>, <<>>) EXCEPT !.shared = TRUE]>>

Half == MaxNodeSize \div 2
Size(h, n) == Len(h[n].keys)
MaxKey(h, n) == IF Size(h, n) = 0 THEN Undefined ELSE Last(h[n].keys)

\* The place of a key, or the place where it belongs.
IndexOf(keys, key) == Cardinality({i \in DOMAIN keys : keys[i] < key}) + 1
Found(keys, key) == key \in ToSet(keys)

Removed(s, i) == SubSeq(s, 1, i - 1) \o SubSeq(s, i + 1, Len(s))
Inserted(s, i, x) == SubSeq(s, 1, i - 1) \o <<x>> \o SubSeq(s, i, Len(s))
SmallerOf(a, b) == IF a < b THEN a ELSE b

----------------------------------------------------------------------------
(* Sharing *)

\* clone of a node: its children are shared from now on.  The copy is the last node.
CloneNode(h, n) ==
  LET children == IF h[n].leaf THEN {} ELSE ToSet(h[n].slots)
  IN Append([i \in DOMAIN h |-> IF i \in children THEN [h[i] EXCEPT !.shared = TRUE] ELSE h[i]],
            [h[n] EXCEPT !.shared = FALSE])

\* Mutant: a shared child is edited where it is.
ChildItself(h, n, i) == h
\* A node's own version of its i-th child.
OwnChild(h, n, i) ==
  LET child == h[n].slots[i]
      copied == CloneNode(h, child)
  IN IF h[child].shared THEN [copied EXCEPT ![n].slots[i] = Len(copied)] ELSE h

\* A tree's own version of its root.
OwnRoot(h, root) == IF h[root].shared THEN [heap |-> CloneNode(h, root), root |-> Len(h) + 1]
                    ELSE [heap |-> h, root |-> root]

\* clone of a tree: the root is shared from now on.
Shared(h, root) == [h EXCEPT ![root].shared = TRUE]

----------------------------------------------------------------------------
(* Adding *)

\* The heap, what became of the node, and its new right sibling when it was split.
SetInLeaf(h, n, key, value) ==
  LET keys == h[n].keys
      i == IndexOf(keys, key)
      With(g, m, at) == [g EXCEPT ![m].keys = Inserted(@, at, key), ![m].slots = Inserted(@, at, value)]
      half == Len(keys) \div 2
      right == Leaf(SubSeq(keys, half + 1, Len(keys)), SubSeq(h[n].slots, half + 1, Len(keys)))
      split == Append([h EXCEPT ![n].keys = SubSeq(@, 1, half), ![n].slots = SubSeq(@, 1, half)], right)
  IN CASE Found(keys, key) -> [heap |-> [h EXCEPT ![n].slots[i] = value], result |-> "replaced", sibling |-> 0]
       [] ~Found(keys, key) /\ Len(keys) < MaxNodeSize -> [heap |-> With(h, n, i), result |-> "added", sibling |-> 0]
       [] OTHER -> [heap |-> IF i - 1 > half THEN With(split, Len(split), i - half) ELSE With(split, n, i),
                    result |-> "split", sibling |-> Len(split)]

\* The first slot of a node moves to the end of its left sibling, or the last one to the
\* beginning of its right sibling.
TakeFromRight(h, n, right) ==
  [h EXCEPT ![n].keys = Append(@, Head(h[right].keys)), ![n].slots = Append(@, Head(h[right].slots)),
            ![right].keys = Tail(@), ![right].slots = Tail(@)]
TakeFromLeft(h, n, left) ==
  [h EXCEPT ![n].keys = <<Last(h[left].keys)>> \o @, ![n].slots = <<Last(h[left].slots)>> \o @,
            ![left].keys = Front(@), ![left].slots = Front(@)]

GiveLeft(h, n, i) ==
  LET moved == TakeFromRight(h, h[n].slots[i - 1], h[n].slots[i])
  IN [moved EXCEPT ![n].keys[i - 1] = MaxKey(moved, h[n].slots[i - 1])]
GiveRight(h, n, i) ==
  LET moved == TakeFromLeft(h, h[n].slots[i + 1], h[n].slots[i])
  IN [moved EXCEPT ![n].keys[i] = MaxKey(moved, h[n].slots[i])]

\* A child that is full gives a slot to a sibling that is not, if the key still belongs to it.
MakeRoom(h, n, i, key) ==
  LET child == h[n].slots[i]
      HasRoom(j) == j \in 1..Size(h, n) /\ Size(h, h[n].slots[j]) < MaxNodeSize
  IN CASE HasRoom(i) -> h
       [] ~HasRoom(i) /\ HasRoom(i - 1) /\ Head(h[child].keys) < key -> GiveLeft(OwnChild(h, n, i - 1), n, i)
       [] ~HasRoom(i) /\ ~(HasRoom(i - 1) /\ Head(h[child].keys) < key) /\ HasRoom(i + 1) /\ MaxKey(h, child) < key ->
            GiveRight(OwnChild(h, n, i + 1), n, i)
       [] OTHER -> h

\* The new sibling of the i-th child becomes a child, of this node or of a new right sibling.
AddSibling(h, n, i, sibling) ==
  LET With(g, m, at) == [g EXCEPT ![m].keys = Inserted(@, at, MaxKey(g, sibling)), ![m].slots = Inserted(@, at, sibling)]
      half == Size(h, n) \div 2
      right == Internal(SubSeq(h[n].keys, half + 1, Size(h, n)), SubSeq(h[n].slots, half + 1, Size(h, n)))
      split == Append([h EXCEPT ![n].keys = SubSeq(@, 1, half), ![n].slots = SubSeq(@, 1, half)], right)
  IN IF Size(h, n) < MaxNodeSize THEN [heap |-> With(h, n, i + 1), result |-> "added", sibling |-> 0]
     ELSE [heap |-> IF MaxKey(h, sibling) > MaxKey(split, n) THEN With(split, Len(split), i + 1 - half)
                    ELSE With(split, n, i + 1),
           result |-> "split", sibling |-> Len(split)]

\* The i-th child was set in.
Updated(set, n, i) ==
  LET updated == [set.heap EXCEPT ![n].keys[i] = MaxKey(set.heap, set.heap[n].slots[i])]
  IN CASE set.result = "replaced" -> set
       [] set.result = "added" -> [heap |-> updated, result |-> "added", sibling |-> 0]
       [] OTHER -> AddSibling(updated, n, i, set.sibling)

RECURSIVE SetInNode(_, _, _, _)
SetInChild(h, n, i, key, value) == Updated(SetInNode(h, h[n].slots[i], key, value), n, i)
SetInNode(h, n, key, value) ==
  LET i == SmallerOf(IndexOf(h[n].keys, key), Size(h, n))
  IN IF h[n].leaf THEN SetInLeaf(h, n, key, value)
     ELSE SetInChild(MakeRoom(OwnChild(h, n, i), n, i, key), n, i, key, value)

\* A root that has split gets a new root.
Grown(set, root) ==
  LET keys == <<MaxKey(set.heap, root), MaxKey(set.heap, set.sibling)>>
  IN IF set.result # "split" THEN [heap |-> set.heap, root |-> root]
     ELSE [heap |-> Append(set.heap, Internal(keys, <<root, set.sibling>>)), root |-> Len(set.heap) + 1]

\* set
SetInTree(h, root, key, value) ==
  LET own == OwnRoot(h, root) IN Grown(SetInNode(own.heap, own.root, key, value), own.root)

\* The constructor, which sets pairs one after the other.
NewTree(pairs) ==
  FoldLeft(LAMBDA tree, p : SetInTree(tree.heap, tree.root, p[1], p[2]), [heap |-> EmptyHeap, root |-> EmptyLeaf], pairs)

\* with and without: a copy of a tree with a pair set, or a key removed.
With(h, root, key, value) == SetInTree(Shared(h, root), root, key, value)

----------------------------------------------------------------------------
(* Removing *)

\* What is left of a node whose i-th child has taken the next one over.
WithoutNext(h, n, i) ==
  LET gone == [h EXCEPT ![n].keys = Removed(@, i + 1), ![n].slots = Removed(@, i + 1)]
  IN [gone EXCEPT ![n].keys[i] = MaxKey(h, h[n].slots[i])]

\* A child takes over its right sibling's slots, if there are not too many.  A leaf's
\* slots are values; the children that an internal node takes over may still belong to
\* another tree through that sibling.
RECURSIVE TryMerge(_, _, _)
Merge(h, n, i) ==
  LET child == h[n].slots[i]
      right == h[n].slots[i + 1]
      taken == [h EXCEPT ![child].keys = @ \o h[right].keys, ![child].slots = @ \o h[right].slots]
  IN WithoutNext(IF h[child].leaf THEN taken ELSE TryMerge(taken, child, Size(h, child)), n, i)
TryMerge(h, n, i) ==
  IF \/ i < 1 \/ i >= Size(h, n)
     \/ Size(h, h[n].slots[i]) + Size(h, h[n].slots[i + 1]) > MaxNodeSize
  THEN h ELSE Merge(OwnChild(h, n, i), n, i)

\* After the i-th child has lost a key: it may merge with its right sibling, then its left
\* sibling with it; when nothing is left of the only child, it goes.
MergeSmall(h, n, i) == IF i >= 1 /\ Size(h, h[n].slots[i]) <= Half THEN TryMerge(h, n, i) ELSE h
WithoutEmpty(h, n) ==
  IF Size(h, h[n].slots[1]) = 0 THEN [h EXCEPT ![n].keys = Tail(@), ![n].slots = Tail(@)] ELSE h
MergeAround(h, n, i) == WithoutEmpty(MergeSmall(MergeSmall(h, n, i), n, i - 1), n)

\* The i-th child was deleted from.
Cleared(h, n, i) == MergeAround([h EXCEPT ![n].keys[i] = MaxKey(h, h[n].slots[i])], n, i)

RECURSIVE DeleteInNode(_, _, _)
DeleteInChild(h, n, i, key) == Cleared(DeleteInNode(h, h[n].slots[i], key), n, i)
DeleteInNode(h, n, key) ==
  LET i == IndexOf(h[n].keys, key)
  IN CASE h[n].leaf /\ Found(h[n].keys, key) -> [h EXCEPT ![n].keys = Removed(@, i), ![n].slots = Removed(@, i)]
       [] ~h[n].leaf /\ i <= Size(h, n) -> DeleteInChild(OwnChild(h, n, i), n, i, key)
       [] OTHER -> h

RECURSIVE RootOf(_, _)
RootOf(h, root) ==
  CASE h[root].leaf \/ Size(h, root) > 1 -> root
    [] ~h[root].leaf /\ Size(h, root) = 0 -> EmptyLeaf
    [] OTHER -> RootOf(h, h[root].slots[1])

Shortened(h, root) == [heap |-> h, root |-> RootOf(h, root)]
Without(h, root, key) ==
  LET own == OwnRoot(Shared(h, root), root) IN Shortened(DeleteInNode(own.heap, own.root, key), own.root)

----------------------------------------------------------------------------
(* Reading *)

RECURSIVE Pairs(_, _)
Pairs(h, n) == IF h[n].leaf THEN [i \in DOMAIN h[n].keys |-> <<h[n].keys[i], h[n].slots[i]>>]
               ELSE FlattenSeq([i \in DOMAIN h[n].slots |-> Pairs(h, h[n].slots[i])])

RECURSIVE Get(_, _, _)
Get(h, n, key) ==
  LET i == IndexOf(h[n].keys, key)
  IN CASE h[n].leaf -> IF Found(h[n].keys, key) THEN h[n].slots[i] ELSE Undefined
       [] ~h[n].leaf /\ i <= Size(h, n) -> Get(h, h[n].slots[i], key)
       [] OTHER -> Undefined

RECURSIVE FirstKeyOf(_, _)
FirstKeyOf(h, n) == IF h[n].leaf THEN IF Size(h, n) = 0 THEN Undefined ELSE Head(h[n].keys)
                    ELSE FirstKeyOf(h, h[n].slots[1])

\* entries and entriesReversed: the leaf where a key belongs, then the leaves beside it.
RECURSIVE Entries(_, _, _)
Entries(h, n, key) ==
  LET i == IndexOf(h[n].keys, key)
      rest == SubSeq(h[n].slots, i + 1, Size(h, n))
  IN CASE i > Size(h, n) -> <<>>
       [] i <= Size(h, n) /\ h[n].leaf -> SubSeq(Pairs(h, n), i, Size(h, n))
       [] OTHER -> Entries(h, h[n].slots[i], key) \o FlattenSeq([j \in DOMAIN rest |-> Pairs(h, rest[j])])

\* Below a key: in the order of the keys.
RECURSIVE EntriesBelow(_, _, _)
EntriesBelow(h, n, key) ==
  LET i == SmallerOf(IndexOf(h[n].keys, key), Size(h, n))
      before == SubSeq(h[n].slots, 1, i - 1)
  IN IF h[n].leaf THEN SubSeq(Pairs(h, n), 1, IndexOf(h[n].keys, key) - 1)
     ELSE FlattenSeq([j \in DOMAIN before |-> Pairs(h, before[j])]) \o EntriesBelow(h, h[n].slots[i], key)

NextHigherPair(h, root, key) ==
  LET higher == SelectSeq(Entries(h, root, key), LAMBDA p : p[1] # key)
  IN IF higher = <<>> THEN Undefined ELSE Head(higher)
NextLowerPair(h, root, key) ==
  LET lower == EntriesBelow(h, root, key)
  IN IF lower = <<>> THEN Undefined ELSE Last(lower)

\* No key of an internal node is undefined, so that searching it does not throw.
RECURSIVE Searchable(_, _)
Searchable(h, n) ==
  IF h[n].leaf THEN TRUE
  ELSE Undefined \notin ToSet(h[n].keys) /\ \A i \in DOMAIN h[n].slots : Searchable(h, h[n].slots[i])

\* checkValid
RECURSIVE CheckValid(_, _, _)
CheckValid(h, n, isRoot) ==
  LET children == h[n].slots
      sizes == FoldLeft(LAMBDA sum, c : sum + Size(h, c), 0, children)
  IN /\ Len(h[n].keys) = Len(children)
     /\ IF h[n].leaf THEN isRoot \/ Size(h, n) > 0
        ELSE /\ Size(h, n) > 1
             /\ \A i \in DOMAIN children : /\ CheckValid(h, children[i], FALSE)
                                           /\ h[n].keys[i] = MaxKey(h, children[i])
                                           /\ h[children[i]].leaf = h[children[1]].leaf
                                           /\ i > 1 => h[n].keys[i - 1] < h[n].keys[i]
             /\ sizes >= Half * Size(h, n) /\ sizes <= MaxNodeSize * Size(h, n)
=============================================================================
