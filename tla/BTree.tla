------------------------------- MODULE BTree --------------------------------
(***************************************************************************)
(* The B-tree of btree/btree.cpp.  A node is a record of its keys and its  *)
(* children, num being the number of keys and leaf the absence of          *)
(* children; an operation of the program is a function from trees to       *)
(* trees, and one that calls itself on a child a recursive function of the *)
(* height of the tree it is given.  Positions count from 1.                *)
(*                                                                         *)
(* Keys are inserted once, as main does.  What happens after the program   *)
(* has used a freed node, read through a null root or been hurt by a write *)
(* behind a node's array is not defined, and the behaviour stops there.    *)
(***************************************************************************)
EXTENDS Integers, SequencesExt

CONSTANTS KeyValues, \* the keys a caller may insert and delete
          t,         \* the degree
          MaxUnordered \* bound of the model: keys in a tree that grows out of order

ASSUME BTreeAssumption ==
  KeyValues \subseteq Int /\ t \in Nat /\ t >= 2 /\ MaxUnordered \in Nat

VARIABLES root,   \* the root node
          height, \* history: how many levels there are above the leaves
          status, \* "tree", "null" once T->root is NULL, or "undefined"
          present,  \* history: the keys inserted and not deleted since
          misplaced \* history: a key was put where it does not belong

vars == <<root, height, status, present, misplaced>>

EmptyLeaf == [keys |-> << >>, kids |-> << >>]
Leaf(x)   == x.kids = << >>
Num(x)    == Len(x.keys)
Kids(x, from, to) == IF Leaf(x) THEN << >> ELSE SubSeq(x.kids, from, to)

\* What the program builds out of nodes, h levels above the leaves.
Trees[h \in Nat] ==
  [keys : Seq(KeyValues), kids : Seq(IF h = 0 THEN {} ELSE Trees[h - 1])]

Init == root = EmptyLeaf /\ height = 0 /\ status = "tree" /\ present = {} /\ misplaced = FALSE
-----------------------------------------------------------------------------
(* Insertion *)

\* The full child i of x becomes two, its middle key goes up.
btree_split_child(x, i) ==
  LET y == x.kids[i]
      low  == [keys |-> SubSeq(y.keys, 1, t - 1), kids |-> Kids(y, 1, t)]
      high == [keys |-> SubSeq(y.keys, t + 1, 2 * t - 1), kids |-> Kids(y, t + 1, 2 * t)]
  IN [keys |-> InsertAt(x.keys, i, y.keys[t]),
      kids |-> SubSeq(x.kids, 1, i - 1) \o <<low, high>> \o SubSeq(x.kids, i + 1, Len(x.kids))]

\* The scan from the right for the first key that is not greater.
InsertPosition(x, k) == Max({0} \cup {i \in 1 .. Num(x) : x.keys[i] <= k}) + 1

\* The child that k goes to, split if it is full; the node and the child's
\* place then.
MakeRoom(x, k) ==
  LET i == InsertPosition(x, k)
      s == btree_split_child(x, i)
  IN IF Num(x.kids[i]) # 2 * t - 1 THEN [node |-> x, at |-> i]
     ELSE [node |-> s, at |-> IF k > s.keys[i] THEN i + 1 ELSE i]

btree_insert_nonfull[h \in Nat] ==
  [x \in Trees[h] |-> [k \in KeyValues |->
    IF Leaf(x) THEN [x EXCEPT !.keys = InsertAt(@, InsertPosition(x, k), k)]
    ELSE LET r == MakeRoom(x, k)
         IN [r.node EXCEPT !.kids[r.at] = btree_insert_nonfull[h - 1][@][k]]]]

\* A full root is split below a new one.
Grown(x) == btree_split_child([keys |-> << >>, kids |-> <<x>>], 1)
-----------------------------------------------------------------------------
(* Deletion *)

\* {child[idx], key[idx], child[idx+1]} become one node.
btree_merge(x, i) ==
  LET left == x.kids[i]  right == x.kids[i + 1]
      both == [keys |-> left.keys \o <<x.keys[i]>> \o right.keys, kids |-> left.kids \o right.kids]
  IN [keys |-> RemoveAt(x.keys, i),
      kids |-> SubSeq(x.kids, 1, i - 1) \o <<both>> \o SubSeq(x.kids, i + 2, Len(x.kids))]

BorrowNext(x, i) ==
  LET child == x.kids[i]  right == x.kids[i + 1]
  IN [keys |-> [x.keys EXCEPT ![i] = Head(right.keys)],
      kids |-> [x.kids EXCEPT
        ![i] = [keys |-> Append(child.keys, x.keys[i]),
                kids |-> IF Leaf(right) THEN << >> ELSE Append(child.kids, Head(right.kids))],
        ![i + 1] = [keys |-> Tail(right.keys),
                    kids |-> IF Leaf(right) THEN << >> ELSE Tail(right.kids)]]]

BorrowPrev(x, i) ==
  LET child == x.kids[i]  left == x.kids[i - 1]
  IN [keys |-> [x.keys EXCEPT ![i - 1] = Last(left.keys)],
      kids |-> [x.kids EXCEPT
        ![i] = [keys |-> <<x.keys[i - 1]>> \o child.keys,
                kids |-> IF Leaf(left) THEN << >> ELSE <<Last(left.kids)>> \o child.kids],
        ![i - 1] = [keys |-> Front(left.keys),
                    kids |-> IF Leaf(left) THEN << >> ELSE Front(left.kids)]]]

Rich(x, i) == i \in DOMAIN x.kids /\ Num(x.kids[i]) >= t

\* richR: borrow from the right sibling, unless the left one has as many keys.
FromNext(x, i) ==
  /\ Rich(x, i + 1)
  /\ i > 1 => Num(x.kids[i + 1]) > Num(x.kids[i - 1])

\* Mutant: a child with t - 1 keys that has a left sibling is not filled.
FillOnlyFirst(x, i) ==
  CASE Num(x.kids[i]) # t - 1 \/ i > 1 -> [node |-> x, at |-> i]
    [] OTHER -> IF Rich(x, 2) THEN [node |-> BorrowNext(x, i), at |-> i]
                ELSE [node |-> btree_merge(x, i), at |-> i]

\* Before the descent into child i it is given t keys; the node and the
\* child's place then.
Fill(x, i) ==
  CASE Num(x.kids[i]) # t - 1          -> [node |-> x, at |-> i]
    [] Num(x.kids[i]) = t - 1 /\ FromNext(x, i) -> [node |-> BorrowNext(x, i), at |-> i]
    [] Num(x.kids[i]) = t - 1 /\ ~FromNext(x, i) /\ Rich(x, i - 1)
         -> [node |-> BorrowPrev(x, i), at |-> i]
    [] OTHER -> IF i > 1 THEN [node |-> btree_merge(x, i - 1), at |-> i - 1]
                ELSE [node |-> btree_merge(x, i), at |-> i]

\* The scan from the left for the first key that is not smaller.
DeletePosition(x, k) == Min({i \in 1 .. Num(x) : x.keys[i] >= k} \cup {Num(x) + 1})

Found(x, k) == DeletePosition(x, k) <= Num(x) /\ x.keys[DeletePosition(x, k)] = k

\* Mutant: the first key of the left child takes the place.
LeftmostReplacement(left) == Head(left.keys)

\* The keys that take a deleted key's place: the last of the left child, the
\* first of the right one, whether these are leaves or not.
LeftReplacement(left)   == Last(left.keys)
RightReplacement(right) == Head(right.keys)

\* How deletion goes on below an inner node: the node then, the child's place
\* and the key to delete there.
DeleteBelow(x, k) ==
  LET i == DeletePosition(x, k)
      Replace(j, key) == [node |-> [x EXCEPT !.keys[i] = key], at |-> j, key |-> key]
  IN CASE Found(x, k) /\ Rich(x, i) -> Replace(i, LeftReplacement(x.kids[i]))
       [] Found(x, k) /\ ~Rich(x, i) /\ Rich(x, i + 1) ->
            Replace(i + 1, RightReplacement(x.kids[i + 1]))
       [] Found(x, k) /\ ~Rich(x, i) /\ ~Rich(x, i + 1) ->
            [node |-> btree_merge(x, i), at |-> i, key |-> k]
       [] OTHER -> LET f == Fill(x, i) IN [node |-> f.node, at |-> f.at, key |-> k]

\* Line 275 frees a node that had one key, line 276 reads it.
UsesFreedNode(x, k) ==
  LET i == DeletePosition(x, k)
  IN Found(x, k) /\ ~Rich(x, i) /\ ~Rich(x, i + 1) /\ Num(x) = 1

\* Line 223 writes childrens[num + 1], and somewhere on its way down the deletion
\* of k merges two children of a full node, whose array of line 29 ends before it.
Overruns[h \in Nat] ==
  [x \in Trees[h] |-> [k \in KeyValues |->
    /\ ~Leaf(x) /\ ~UsesFreedNode(x, k)
    /\ LET d == DeleteBelow(x, k)
       IN \/ Num(x) = 2 * t - 1 /\ Num(d.node) < Num(x)
          \/ Overruns[h - 1][d.node.kids[d.at]][d.key]]]

\* The key is replaced by one from a child beside it.
Replacing(x, k) ==
  LET i == DeletePosition(x, k)
  IN Found(x, k) /\ (Rich(x, i) \/ Rich(x, i + 1))

\* Lines 262 and 269: somewhere on its way down the deletion of k replaces a key
\* by one from an inner node, with keys below that belong between the two.
Misplaces[h \in Nat] ==
  [x \in Trees[h] |-> [k \in KeyValues |->
    /\ ~Leaf(x)
    /\ IF Replacing(x, k) THEN h > 1
       ELSE LET d == DeleteBelow(x, k) IN Misplaces[h - 1][d.node.kids[d.at]][d.key]]]

(* The new node and how the call ended: "deleted", "cannot" for the message *)
(* "Cannot del key", "emptied" when a leaf lost its last key and T->root was *)
(* set to NULL, or "undefined".                                              *)
btree_delete_key[h \in Nat] ==
  [x \in Trees[h] |-> [k \in KeyValues |->
    CASE Leaf(x) /\ Found(x, k) ->
           [node |-> [x EXCEPT !.keys = RemoveAt(@, DeletePosition(x, k))],
            how  |-> IF Num(x) = 1 THEN "emptied" ELSE "deleted"]
      [] Leaf(x) /\ ~Found(x, k) -> [node |-> x, how |-> "cannot"]
      [] ~Leaf(x) /\ UsesFreedNode(x, k) -> [node |-> x, how |-> "undefined"]
      [] OTHER ->
           LET d == DeleteBelow(x, k)
               r == btree_delete_key[h - 1][d.node.kids[d.at]][d.key]
           IN [node |-> [d.node EXCEPT !.kids[d.at] = r.node], how |-> r.how]]]

\* A merge took the root's only key, and the merged node is the root.
Keyless(x) == Num(x) = 0 /\ ~Leaf(x)
-----------------------------------------------------------------------------
(* Traversal *)

\* The loop of btree_traverse on an inner node, where below[c] is what the call
\* on c prints.
Walk(x, below) ==
  LET upto[i \in Nat] ==
        IF i = 0 THEN << >> ELSE upto[i - 1] \o below[x.kids[i]] \o <<x.keys[i]>>
  IN upto[Num(x)] \o below[x.kids[Num(x) + 1]]

\* The keys in the order of btree_traverse.
KeySeq[h \in Nat] ==
  [x \in Trees[h] |-> IF Leaf(x) THEN x.keys ELSE Walk(x, KeySeq[h - 1])]
-----------------------------------------------------------------------------
(* The steps of the program *)

btree_insert(k) ==
  IF Num(root) = 2 * t - 1
  THEN LET s == Grown(root)
           j == IF s.keys[1] < k THEN 2 ELSE 1
       IN /\ root' = [s EXCEPT !.kids[j] = btree_insert_nonfull[height][@][k]]
          /\ height' = height + 1
  ELSE /\ root' = btree_insert_nonfull[height][root][k]
       /\ UNCHANGED height

Insert(k) ==
  /\ k \notin present
  /\ misplaced => Len(KeySeq[height][root]) < MaxUnordered
  /\ \/ /\ status = "tree"
        /\ btree_insert(k)
        /\ present' = present \cup {k}
        /\ UNCHANGED <<status, misplaced>>
     \/ /\ status = "null"
        /\ status' = "undefined"
        /\ UNCHANGED <<root, height, present, misplaced>>

\* btree_delete; without a root it returns -1 and does nothing.
Delete(k) ==
  /\ status = "tree"
  /\ LET r == btree_delete_key[height][root][k]
     IN /\ IF Keyless(r.node)
           THEN root' = r.node.kids[1] /\ height' = height - 1
           ELSE root' = r.node /\ UNCHANGED height
        /\ status' = CASE r.how = "emptied" -> "null"
                       [] r.how = "undefined" -> "undefined"
                       [] OTHER -> "tree"
  /\ present' = present \ {k}
  /\ misplaced' = (misplaced \/ Misplaces[height][root][k])

\* The NULL that line 223 writes behind the array may hit padding, and the call
\* ends as Delete says, or something else, and no outcome is defined.
Overrun(k) ==
  /\ status = "tree" /\ Overruns[height][root][k]
  /\ status' = "undefined"
  /\ UNCHANGED <<root, height, present, misplaced>>

Next == \E k \in KeyValues : Insert(k) \/ Delete(k) \/ Overrun(k)

Spec == Init /\ [][Next]_vars
-----------------------------------------------------------------------------
\* The keys in a tree, whatever their order.
KeysIn[h \in Nat] ==
  [x \in Trees[h] |->
    ToSet(x.keys) \cup UNION {IF h = 0 THEN {} ELSE KeysIn[h - 1][c] : c \in ToSet(x.kids)}]

\* Nodes with as many children as they need, taken from below, and no more
\* keys than their array has room for.
NodesOver(h, below) ==
  {x \in [keys : Seq(KeyValues), kids : Seq(below)] :
     /\ Num(x) <= 2 * t - 1
     /\ Len(x.kids) = IF h = 0 THEN 0 ELSE Num(x) + 1}

\* The B-trees of height h below the root: no node has fewer than t - 1 keys.
Subtrees[h \in Nat] ==
  {x \in NodesOver(h, IF h = 0 THEN {} ELSE Subtrees[h - 1]) : Num(x) >= t - 1}

TypeOK ==
  /\ height \in Nat /\ root \in Trees[height]
  /\ status \in {"tree", "null", "undefined"} /\ present \subseteq KeyValues
  /\ misplaced \in BOOLEAN

\* Lines 55-138 and 196-354: after any sequence of insertions and deletions
\* every leaf is at the same depth and every node but the root has between
\* t - 1 and 2t - 1 keys: a node's keys and children fit its arrays, and no
\* sibling is too poor for a merge.  (Line 223 writes behind them all the same.)
Balanced ==
  status = "tree" =>
    /\ root \in NodesOver(height, IF height = 0 THEN {} ELSE Subtrees[height - 1])
    /\ height > 0 => Num(root) > 0

\* Lines 256-271 and 304-346: a key that was inserted and not deleted is in
\* the tree, wherever the rotations and replacements have put it.
NoKeyLost == present \subseteq KeysIn[height][root]

\* Line 253, "root": a leaf loses its last key only when it is the root and
\* the tree becomes empty.
NullOnlyWhenEmpty == status = "null" => present = {}

\* The four of them: what lets the next call run at all.
WellFormed == TypeOK /\ Balanced /\ NoKeyLost /\ NullOnlyWhenEmpty

\* Lines 93-138 and 232-354: until a deletion replaces a key by one from an inner
\* child, the tree holds exactly the keys inserted and not deleted, once each,
\* and btree_traverse meets them in ascending order, whatever was split, lent,
\* merged or replaced on the way.
HoldsKeysInOrder ==
  status = "tree" /\ ~misplaced =>
    LET s == KeySeq[height][root]
    IN /\ ToSet(s) = present
       /\ \A i \in 1 .. Len(s) - 1 : s[i] < s[i + 1]

\* Line 284, "Cannot del key": the message is for keys the tree does not hold.
CannotDelMeansAbsent ==
  status = "tree" =>
    \A k \in KeyValues :
      btree_delete_key[height][root][k].how = "cannot" => k \notin KeysIn[height][root]
=============================================================================
