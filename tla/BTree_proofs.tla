---------------------------- MODULE BTree_proofs ----------------------------
(***************************************************************************)
(* What is proved of the B-tree, for any keys and any degree.              *)
(*                                                                         *)
(* The operations are recursive functions of the height, so a statement    *)
(* about them is proved by induction on the height: FromZero, from a least *)
(* counterexample.  First come the recursive functions themselves and      *)
(* facts about sequences; then nodes and the keys in them; insertion,      *)
(* deletion and the rotations; and the theorem that the tree stays well    *)
(* formed, which needs no order of the keys.                               *)
(*                                                                         *)
(* The second half is about the order.  It begins with search trees and    *)
(* where the operations put keys and children; then insertion, traversal,  *)
(* merges, rotations and deletion once more, now on search trees; and the  *)
(* theorems about the steps of the program.  Not every deletion keeps a    *)
(* search tree one; those that do not set misplaced.                       *)
(***************************************************************************)
EXTENDS BTree, SequenceTheorems, WellFoundedInduction, TLAPS

-----------------------------------------------------------------------------
(* Recursion on the height *)

\* A set of numbers that is not empty has a least one.
LEMMA Least ==
  ASSUME NEW S, S \subseteq Nat, S # {} PROVE \E m \in S : \A n \in S : m <= n
  <1> DEFINE R == OpToRel(<, Nat)
  <1>1. IsWellFoundedOn(R, Nat)
    BY NatLessThanWellFounded
  <1>2. \A m, n \in Nat : <<m, n>> \in R <=> m < n
    BY DEF OpToRel
  <1> HIDE DEF R
  <1>3. PICK m \in S : \A n \in S : ~(<<n, m>> \in R)
    BY <1>1, WFMin
  <1>4. \A n \in S : ~(n < m)
    BY <1>2, <1>3
  <1> QED
    BY <1>4

\* What holds of 0 and of each number after one it holds of, holds of every number.
LEMMA FromZero ==
  ASSUME NEW S, 0 \in S, \A n \in Nat : n \in S => n + 1 \in S
  PROVE  \A n \in Nat : n \in S
  <1> DEFINE Bad == {n \in Nat : n \notin S}
  <1>1. SUFFICES ASSUME Bad # {} PROVE FALSE
    OBVIOUS
  <1>2. Bad \subseteq Nat /\ \A n : n \in Bad <=> n \in Nat /\ n \notin S
    OBVIOUS
  <1> HIDE DEF Bad
  <1>3. PICK m \in Bad : \A n \in Bad : m <= n
    BY ONLY <1>1, <1>2, Least
  <1>4. m \in Nat /\ m # 0 /\ m - 1 \in Nat /\ (m - 1) + 1 = m
    BY <1>2, <1>3
  <1>5. m - 1 \notin Bad
    BY <1>3, <1>4
  <1> QED
    BY <1>2, <1>3, <1>4, <1>5

\* The children a node of height h can have; the nodes; the keys below a child;
\* how many children a node with keys ks has.
Below(h)        == IF h = 0 THEN {} ELSE Subtrees[h - 1]
NodesAt(h)      == NodesOver(h, Below(h))
KeysBelow(h, c) == IF h = 0 THEN {} ELSE KeysIn[h - 1][c]
Children(h, ks) == IF h = 0 THEN 0 ELSE Len(ks) + 1

\* The keys of x ascend, and those below a child are between the keys beside it.
InOrder(h, x) ==
  /\ \A m, n \in 1 .. Num(x) : m < n => x.keys[m] < x.keys[n]
  /\ h > 0 => \A n \in 1 .. Num(x) + 1 : \A e \in KeysIn[h - 1][x.kids[n]] : \A m \in 1 .. Num(x) :
                IF m < n THEN x.keys[m] < e ELSE e < x.keys[m]

\* The search trees among the nodes of a height.
SearchTrees[h \in Nat] ==
  {x \in NodesAt(h) : InOrder(h, x) /\ \A c \in ToSet(x.kids) : c \in IF h = 0 THEN {} ELSE SearchTrees[h - 1]}

\* The right sides of the recursive functions, p standing for the function one
\* level below.
TreesRow(p, h) == [keys : Seq(KeyValues), kids : Seq(IF h = 0 THEN {} ELSE p)]
SubtreesRow(p, h) == {x \in NodesOver(h, IF h = 0 THEN {} ELSE p) : Num(x) >= t - 1}
KeysRow(p, h) ==
  [x \in Trees[h] |->
    ToSet(x.keys) \cup UNION {IF h = 0 THEN {} ELSE p[c] : c \in ToSet(x.kids)}]
Inserted(p, x, k) ==
  IF Leaf(x) THEN [x EXCEPT !.keys = InsertAt(@, InsertPosition(x, k), k)]
  ELSE LET r == MakeRoom(x, k)
       IN [r.node EXCEPT !.kids[r.at] = p[@][k]]
InsertRow(p, h) == [x \in Trees[h] |-> [k \in KeyValues |-> Inserted(p, x, k)]]
Deleted(p, x, k) ==
  CASE Leaf(x) /\ Found(x, k) ->
         [node |-> [x EXCEPT !.keys = RemoveAt(@, DeletePosition(x, k))],
          how  |-> IF Num(x) = 1 THEN "emptied" ELSE "deleted"]
    [] Leaf(x) /\ ~Found(x, k) -> [node |-> x, how |-> "cannot"]
    [] ~Leaf(x) /\ UsesFreedNode(x, k) -> [node |-> x, how |-> "undefined"]
    [] OTHER ->
         LET d == DeleteBelow(x, k)
             r == p[d.node.kids[d.at]][d.key]
         IN [node |-> [d.node EXCEPT !.kids[d.at] = r.node], how |-> r.how]
DeleteRow(p, h) == [x \in Trees[h] |-> [k \in KeyValues |-> Deleted(p, x, k)]]

SearchRow(p, h) ==
  {x \in NodesAt(h) : InOrder(h, x) /\ \A c \in ToSet(x.kids) : c \in IF h = 0 THEN {} ELSE p}
Misplaced(p, h, x, k) ==
  /\ ~Leaf(x)
  /\ IF Replacing(x, k) THEN h > 1
     ELSE LET d == DeleteBelow(x, k) IN p[d.node.kids[d.at]][d.key]
MisplacesRow(p, h) == [x \in Trees[h] |-> [k \in KeyValues |-> Misplaced(p, h, x, k)]]
KeySeqRow(p, h) == [x \in Trees[h] |-> IF Leaf(x) THEN x.keys ELSE Walk(x, p)]
WalkRow(a, p, i) == IF i = 0 THEN << >> ELSE p \o a.below[a.x.kids[i]] \o <<a.x.keys[i]>>

\* One of them, by name.
Row(name, a, p, h) ==
  CASE name = "Trees" -> TreesRow(p, h)
    [] name = "Subtrees" -> SubtreesRow(p, h)
    [] name = "KeysIn" -> KeysRow(p, h)
    [] name = "insert" -> InsertRow(p, h)
    [] name = "delete" -> DeleteRow(p, h)
    [] name = "search" -> SearchRow(p, h)
    [] name = "KeySeq" -> KeySeqRow(p, h)
    [] name = "walk" -> WalkRow(a, p, h)
    [] name = "misplaces" -> MisplacesRow(p, h)

\* At 0 nothing is called.
Grounded(name, a) == \A p, q : Row(name, a, p, 0) = Row(name, a, q, 0)

\* A function that calls itself on the height below exists: up to each height
\* there is one that fits, and two that fit are the same.
LEMMA Recursion ==
  ASSUME NEW name, NEW a, Grounded(name, a)
  PROVE  \E f : f = [h \in Nat |-> Row(name, a, f[h - 1], h)]
  <1> DEFINE Ok(f, m) == \A n \in 0 .. m : f[n] = Row(name, a, f[n - 1], n)
             Good == {m \in Nat : \E f : Ok(f, m)}
  <1>0. \A p, q : Row(name, a, p, 0) = Row(name, a, q, 0)
    BY DEF Grounded
  <1>1. \A m \in Nat : m \in Good
    <2>1. 0 \in Good
      <3> DEFINE f == [n \in 0 .. 0 |-> Row(name, a, 0, 0)]
      <3>1. Ok(f, 0)
        BY <1>0
      <3> QED
        BY <3>1
    <2>2. ASSUME NEW m \in Nat, m \in Good PROVE m + 1 \in Good
      <3>1. PICK f : Ok(f, m)
        BY <2>2
      <3> DEFINE g == [n \in 0 .. m + 1 |-> IF n = m + 1 THEN Row(name, a, f[m], m + 1) ELSE f[n]]
      <3>2. ASSUME NEW n \in 0 .. m + 1 PROVE g[n] = Row(name, a, g[n - 1], n)
        <4>1. CASE n = 0
          <5>1. g[n] = f[0] /\ f[0] = Row(name, a, f[0 - 1], 0)
            BY <3>1, <4>1
          <5> QED
            BY <1>0, <4>1, <5>1
        <4>2. CASE n \in 1 .. m
          <5>1. g[n] = f[n] /\ g[n - 1] = f[n - 1]
            BY <4>2
          <5> QED
            BY <3>1, <4>2, <5>1
        <4>3. CASE n = m + 1
          <5>1. g[n] = Row(name, a, f[m], m + 1) /\ g[n - 1] = f[m]
            BY <4>3
          <5> HIDE DEF g
          <5> QED
            BY <4>3, <5>1
        <4> QED
          BY <4>1, <4>2, <4>3
      <3>3. Ok(g, m + 1)
        BY <3>2
      <3>4. m + 1 \in Nat /\ \E e : Ok(e, m + 1)
        <4> HIDE DEF g, Ok
        <4> QED
          BY <3>3
      <3> QED
        BY ONLY <3>4
    <2> HIDE DEF Good
    <2> QED
      BY <2>1, <2>2, FromZero
  <1>2. ASSUME NEW f, NEW g, NEW m \in Nat, Ok(f, m), Ok(g, m) PROVE f[m] = g[m]
    <2> DEFINE Same == {n \in Nat : n <= m => f[n] = g[n]}
    <2>1. 0 \in Same
      <3>1. f[0] = Row(name, a, f[0 - 1], 0) /\ g[0] = Row(name, a, g[0 - 1], 0)
        BY <1>2
      <3> QED
        BY <1>0, <3>1
    <2>2. ASSUME NEW n \in Nat, n \in Same PROVE n + 1 \in Same
      <3>1. SUFFICES ASSUME n + 1 <= m PROVE f[n + 1] = g[n + 1]
        OBVIOUS
      <3>2. f[n] = g[n] /\ (n + 1) - 1 = n /\ n + 1 \in 0 .. m
        BY <2>2, <3>1
      <3>3. f[n + 1] = Row(name, a, f[(n + 1) - 1], n + 1) /\ g[n + 1] = Row(name, a, g[(n + 1) - 1], n + 1)
        BY <1>2, <3>2
      <3> QED
        BY <3>2, <3>3
    <2> HIDE DEF Same
    <2>3. \A n \in Nat : n \in Same
      BY <2>1, <2>2, FromZero
    <2> QED
      BY <2>3 DEF Same
  <1> DEFINE A(n) == CHOOSE f : Ok(f, n)
             F == [n \in Nat |-> A(n)[n]]
  <1>3. \A n \in Nat : Ok(A(n), n)
    BY <1>1
  <1>4. ASSUME NEW n \in Nat PROVE F[n] = Row(name, a, F[n - 1], n)
    <2>1. F[n] = Row(name, a, A(n)[n - 1], n)
      <3>1. F[n] = A(n)[n]
        OBVIOUS
      <3> QED
        BY <1>3, <3>1
    <2>2. CASE n = 0
      BY <1>0, <2>1, <2>2
    <2>3. CASE n # 0
      <3>1. n - 1 \in Nat /\ F[n - 1] = A(n - 1)[n - 1]
        BY <2>3
      <3>2. Ok(A(n), n - 1) /\ Ok(A(n - 1), n - 1)
        BY <1>3, <3>1
      <3> HIDE DEF F, Ok, A
      <3>3. A(n)[n - 1] = A(n - 1)[n - 1]
        BY <1>2, <3>1, <3>2
      <3> QED
        BY <2>1, <3>1, <3>3
    <2> QED
      BY <2>2, <2>3
  <1>5. F = [h \in Nat |-> Row(name, a, F[h - 1], h)]
    BY <1>4
  <1> QED
    BY <1>5

\* So the recursive functions are what their definitions say they are.
LEMMA TreesDef == \A h \in Nat : Trees[h] = TreesRow(Trees[h - 1], h)
  <1>1. \A p, h : Row("Trees", 0, p, h) = TreesRow(p, h)
    BY DEF Row
  <1>2. \A p, q : TreesRow(p, 0) = TreesRow(q, 0)
    BY DEF TreesRow
  <1>3. PICK f : f = [h \in Nat |-> Row("Trees", 0, f[h - 1], h)]
    <2>1. Grounded("Trees", 0)
      BY <1>1, <1>2 DEF Grounded
    <2> QED
      BY <2>1, Recursion
  <1> DEFINE Ok(g) == g = [h \in Nat |-> TreesRow(g[h - 1], h)]
  <1>4. Ok(f)
    BY <1>1, <1>3
  <1>5. Trees = CHOOSE g : Ok(g)
    BY DEF Trees, TreesRow
  <1>6. Ok(Trees)
    <2> HIDE DEF Ok
    <2> QED
      BY <1>4, <1>5
  <1> QED
    BY <1>6

\* A tree of height 0 is a leaf.
LEMMA TreesZero == \A x \in Trees[0] : Leaf(x)
  <1> SUFFICES ASSUME NEW x \in Trees[0] PROVE Leaf(x)
    OBVIOUS
  <1>1. x.kids \in Seq({})
    <2>1. Trees[0] = TreesRow(Trees[0 - 1], 0)
      BY TreesDef
    <2>2. x \in [keys : Seq(KeyValues), kids : Seq({})]
      BY <2>1 DEF TreesRow
    <2> QED
      BY <2>2
  <1>2. Len(x.kids) = 0
    BY <1>1
  <1> QED
    BY <1>1, <1>2, EmptySeq DEF Leaf

\* Subtrees is what its definition says.
LEMMA SubtreesDef == \A h \in Nat : Subtrees[h] = SubtreesRow(Subtrees[h - 1], h)
  <1>1. \A p, h : Row("Subtrees", 0, p, h) = SubtreesRow(p, h)
    BY DEF Row
  <1>2. \A p, q : SubtreesRow(p, 0) = SubtreesRow(q, 0)
    BY DEF SubtreesRow
  <1>3. PICK f : f = [h \in Nat |-> Row("Subtrees", 0, f[h - 1], h)]
    <2>1. Grounded("Subtrees", 0)
      BY <1>1, <1>2 DEF Grounded
    <2> QED
      BY <2>1, Recursion
  <1> DEFINE Ok(g) == g = [h \in Nat |-> SubtreesRow(g[h - 1], h)]
  <1>4. Ok(f)
    BY <1>1, <1>3
  <1>5. Subtrees = CHOOSE g : Ok(g)
    BY DEF Subtrees, SubtreesRow
  <1>6. Ok(Subtrees)
    <2> HIDE DEF Ok
    <2> QED
      BY <1>4, <1>5
  <1> QED
    BY <1>6

\* KeysIn is what its definition says.
LEMMA KeysInDef == \A h \in Nat : KeysIn[h] = KeysRow(KeysIn[h - 1], h)
  <1>1. \A p, h : Row("KeysIn", 0, p, h) = KeysRow(p, h)
    BY DEF Row
  <1>2. \A p, q : KeysRow(p, 0) = KeysRow(q, 0)
    BY DEF KeysRow
  <1>3. PICK f : f = [h \in Nat |-> Row("KeysIn", 0, f[h - 1], h)]
    <2>1. Grounded("KeysIn", 0)
      BY <1>1, <1>2 DEF Grounded
    <2> QED
      BY <2>1, Recursion
  <1> DEFINE Ok(g) == g = [h \in Nat |-> KeysRow(g[h - 1], h)]
  <1>4. Ok(f)
    BY <1>1, <1>3
  <1>5. KeysIn = CHOOSE g : Ok(g)
    BY DEF KeysIn, KeysRow
  <1>6. Ok(KeysIn)
    <2> HIDE DEF Ok
    <2> QED
      BY <1>4, <1>5
  <1> QED
    BY <1>6

\* btree_insert_nonfull is what its definition says; a leaf calls nothing.
LEMMA InsertDef == \A h \in Nat : btree_insert_nonfull[h] = InsertRow(btree_insert_nonfull[h - 1], h)
  <1>1. \A p, h : Row("insert", 0, p, h) = InsertRow(p, h)
    BY DEF Row
  <1>2. \A p, q : InsertRow(p, 0) = InsertRow(q, 0)
    <2>1. \A p, q : \A x \in Trees[0], k \in KeyValues : Inserted(p, x, k) = Inserted(q, x, k)
      BY TreesZero DEF Inserted
    <2> QED
      BY <2>1 DEF InsertRow
  <1>3. PICK f : f = [h \in Nat |-> Row("insert", 0, f[h - 1], h)]
    <2>1. Grounded("insert", 0)
      BY <1>1, <1>2 DEF Grounded
    <2> QED
      BY <2>1, Recursion
  <1> DEFINE Ok(g) == g = [h \in Nat |-> InsertRow(g[h - 1], h)]
  <1>4. Ok(f)
    BY <1>1, <1>3
  <1>5. btree_insert_nonfull = CHOOSE g : Ok(g)
    BY DEF btree_insert_nonfull, InsertRow, Inserted
  <1>6. Ok(btree_insert_nonfull)
    <2> HIDE DEF Ok
    <2> QED
      BY <1>4, <1>5
  <1> QED
    BY <1>6

\* btree_delete_key is what its definition says; a leaf calls nothing.
LEMMA DeleteDef == \A h \in Nat : btree_delete_key[h] = DeleteRow(btree_delete_key[h - 1], h)
  <1>1. \A p, h : Row("delete", 0, p, h) = DeleteRow(p, h)
    BY DEF Row
  <1>2. \A p, q : DeleteRow(p, 0) = DeleteRow(q, 0)
    <2>1. \A p, q : \A x \in Trees[0], k \in KeyValues : Deleted(p, x, k) = Deleted(q, x, k)
      <3> SUFFICES ASSUME NEW p, NEW q, NEW x \in Trees[0], NEW k \in KeyValues
                   PROVE  Deleted(p, x, k) = Deleted(q, x, k)
        OBVIOUS
      <3>1. Leaf(x)
        BY TreesZero
      <3>2. CASE Found(x, k)
        BY <3>1, <3>2 DEF Deleted
      <3>3. CASE ~Found(x, k)
        BY <3>1, <3>3 DEF Deleted
      <3> QED
        BY <3>2, <3>3
    <2> QED
      BY <2>1 DEF DeleteRow
  <1>3. PICK f : f = [h \in Nat |-> Row("delete", 0, f[h - 1], h)]
    <2>1. Grounded("delete", 0)
      BY <1>1, <1>2 DEF Grounded
    <2> QED
      BY <2>1, Recursion
  <1> DEFINE Ok(g) == g = [h \in Nat |-> DeleteRow(g[h - 1], h)]
  <1>4. Ok(f)
    BY <1>1, <1>3
  <1>5. btree_delete_key = CHOOSE g : Ok(g)
    BY DEF btree_delete_key, DeleteRow, Deleted
  <1>6. Ok(btree_delete_key)
    <2> HIDE DEF Ok
    <2> QED
      BY <1>4, <1>5
  <1> QED
    BY <1>6
-----------------------------------------------------------------------------
(* Sequences *)

\* What a sequence has.
LEMMA Elements ==
  ASSUME NEW S, NEW s \in Seq(S)
  PROVE  /\ Len(s) \in Nat /\ DOMAIN s = 1 .. Len(s)
         /\ \A e : e \in ToSet(s) <=> \E n \in 1 .. Len(s) : s[n] = e
         /\ ToSet(s) \subseteq S
         /\ \A n \in 1 .. Len(s) : s[n] \in S /\ s[n] \in ToSet(s)
  <1>1. Len(s) \in Nat /\ DOMAIN s = 1 .. Len(s) /\ \A n \in 1 .. Len(s) : s[n] \in S
    BY LenProperties, ElementOfSeq
  <1> QED
    BY <1>1 DEF ToSet

\* An element replaced.
LEMMA Put ==
  ASSUME NEW S, NEW s \in Seq(S), NEW n \in 1 .. Len(s), NEW e \in S
  PROVE  LET r == [s EXCEPT ![n] = e]
         IN /\ r \in Seq(S) /\ Len(r) = Len(s) /\ r[n] = e
            /\ \A m \in 1 .. Len(s) : m # n => r[m] = s[m]
            /\ ToSet(s) \subseteq ToSet(r) \cup {s[n]}
  <1> DEFINE r == [s EXCEPT ![n] = e]
  <1>1. r \in Seq(S) /\ Len(r) = Len(s) /\ \A m \in 1 .. Len(s) : r[m] = IF m = n THEN e ELSE s[m]
    BY ExceptSeq
  <1> HIDE DEF r
  <1>2. \A v : v \in ToSet(r) <=> \E m \in 1 .. Len(r) : r[m] = v
    BY <1>1, Elements
  <1>3. \A v : v \in ToSet(s) <=> \E m \in 1 .. Len(s) : s[m] = v
    BY Elements
  <1>4. ToSet(s) \subseteq ToSet(r) \cup {s[n]}
    BY <1>1, <1>2, <1>3
  <1> QED
    BY <1>1, <1>4 DEF r

\* Two sequences in a row.
Cat(s, u) == s \o u
IsJoin(S, s, u, r) ==
  /\ r \in Seq(S) /\ Len(r) = Len(s) + Len(u)
  /\ \A n \in 1 .. Len(s) : r[n] = s[n]
  /\ \A n \in 1 .. Len(u) : r[Len(s) + n] = u[n]
  /\ ToSet(r) = ToSet(s) \cup ToSet(u)

\* The concatenation of two sequences is that.
LEMMA Joined ==
  ASSUME NEW S, NEW s \in Seq(S), NEW u \in Seq(S)
  PROVE  IsJoin(S, s, u, Cat(s, u))
  <1> DEFINE r == s \o u
  <1>1. /\ r \in Seq(S) /\ Len(r) = Len(s) + Len(u)
        /\ \A n \in 1 .. Len(s) + Len(u) : r[n] = IF n <= Len(s) THEN s[n] ELSE u[n - Len(s)]
    BY ConcatProperties
  <1> HIDE DEF r
  <1>2. Len(s) \in Nat /\ Len(u) \in Nat
    BY Elements
  <1>3. \A n \in 1 .. Len(s) : r[n] = s[n]
    BY <1>1, <1>2
  <1>4. ASSUME NEW n \in 1 .. Len(u) PROVE r[Len(s) + n] = u[n]
    <2>1. Len(s) + n \in 1 .. Len(s) + Len(u) /\ ~(Len(s) + n <= Len(s)) /\ (Len(s) + n) - Len(s) = n
      BY <1>2
    <2> QED
      BY <1>1, <2>1
  <1>5. ToSet(r) = ToSet(s) \cup ToSet(u)
    <2>1. \A v : v \in ToSet(r) <=> \E m \in 1 .. Len(r) : r[m] = v
      BY <1>1, Elements
    <2>2. \A v : v \in ToSet(s) <=> \E m \in 1 .. Len(s) : s[m] = v
      BY Elements
    <2>3. \A v : v \in ToSet(u) <=> \E m \in 1 .. Len(u) : u[m] = v
      BY Elements
    <2>4. ASSUME NEW v \in ToSet(r) PROVE v \in ToSet(s) \cup ToSet(u)
      <3>1. PICK m \in 1 .. Len(r) : r[m] = v
        BY <2>1, <2>4
      <3>2. CASE m <= Len(s)
        BY <1>1, <1>2, <2>2, <3>1, <3>2
      <3>3. CASE ~(m <= Len(s))
        <4>1. m - Len(s) \in 1 .. Len(u) /\ u[m - Len(s)] = v
          BY <1>1, <1>2, <3>1, <3>3
        <4> QED
          BY <2>3, <4>1
      <3> QED
        BY <3>2, <3>3
    <2>5. ASSUME NEW v \in ToSet(s) PROVE v \in ToSet(r)
      <3>1. PICK m \in 1 .. Len(s) : s[m] = v
        BY <2>2, <2>5
      <3>2. m \in 1 .. Len(r) /\ r[m] = v
        BY <1>1, <1>2, <1>3, <3>1
      <3> QED
        BY <2>1, <3>2
    <2>6. ASSUME NEW v \in ToSet(u) PROVE v \in ToSet(r)
      <3>1. PICK m \in 1 .. Len(u) : u[m] = v
        BY <2>3, <2>6
      <3>2. Len(s) + m \in 1 .. Len(r) /\ r[Len(s) + m] = v
        BY <1>1, <1>2, <1>4, <3>1
      <3> QED
        BY <2>1, <3>2
    <2> QED
      BY <2>4, <2>5, <2>6
  <1> QED
    BY <1>1, <1>3, <1>4, <1>5 DEF r, Cat, IsJoin

\* A part of a sequence.
LEMMA Part ==
  ASSUME NEW S, NEW s \in Seq(S), NEW a \in 1 .. Len(s) + 1, NEW b \in a - 1 .. Len(s)
  PROVE  LET r == SubSeq(s, a, b)
         IN /\ r \in Seq(S) /\ Len(r) = b - a + 1
            /\ \A n \in 1 .. b - a + 1 : r[n] = s[a + n - 1]
            /\ \A n \in a .. b : s[n] \in ToSet(r)
  <1> DEFINE r == SubSeq(s, a, b)
  <1>1. Len(s) \in Nat /\ \A n \in a .. b : s[n] \in S
    BY Elements
  <1>2. a \in Int /\ b \in Int /\ b >= a - 1
    BY <1>1
  <1>3. /\ r \in Seq(S) /\ Len(r) = IF a <= b THEN b - a + 1 ELSE 0
        /\ \A n \in 1 .. b - a + 1 : r[n] = s[a + n - 1]
    BY <1>1, <1>2, SubSeqProperties
  <1> HIDE DEF r
  <1>4. Len(r) = b - a + 1
    BY <1>2, <1>3
  <1>5. ASSUME NEW n \in a .. b PROVE s[n] \in ToSet(r)
    <2>1. n - a + 1 \in 1 .. b - a + 1 /\ a + (n - a + 1) - 1 = n
      BY <1>2
    <2>2. n - a + 1 \in 1 .. Len(r) /\ r[n - a + 1] = s[n]
      BY <1>3, <1>4, <2>1
    <2> QED
      BY ONLY <1>3, <2>2, Elements
  <1> QED
    BY <1>3, <1>4, <1>5 DEF r

\* A sequence of one element.
LEMMA One == ASSUME NEW S, NEW e \in S PROVE <<e>> \in Seq(S) /\ Len(<<e>>) = 1 /\ <<e>>[1] = e /\ ToSet(<<e>>) = {e}
  <1>1. <<e>> \in Seq(S) /\ Len(<<e>>) = 1 /\ <<e>>[1] = e
    OBVIOUS
  <1> QED
    BY <1>1 DEF ToSet

\* A sequence of two.
LEMMA Two ==
  ASSUME NEW S, NEW d \in S, NEW e \in S
  PROVE  <<d, e>> \in Seq(S) /\ Len(<<d, e>>) = 2 /\ <<d, e>>[1] = d /\ <<d, e>>[2] = e
  OBVIOUS

\* The elements of s from i to before j are replaced by those of u.
Spliced(s, i, u, j) == SubSeq(s, 1, i - 1) \o u \o SubSeq(s, j, Len(s))

\* What r has of s and of u.
IsSplice(S, s, i, u, j, r) ==
  /\ r \in Seq(S) /\ Len(r) = Len(s) + Len(u) - (j - i)
  /\ \A n \in 1 .. Len(u) : r[i - 1 + n] = u[n]
  /\ ToSet(u) \subseteq ToSet(r)
  /\ \A n \in 1 .. Len(s) : n \notin i .. j - 1 => s[n] \in ToSet(r)

\* And it has that.
LEMMA Splice ==
  ASSUME NEW S, NEW s \in Seq(S), NEW u \in Seq(S), NEW i \in 1 .. Len(s) + 1, NEW j \in i .. Len(s) + 1
  PROVE  IsSplice(S, s, i, u, j, Spliced(s, i, u, j))
  <1> DEFINE a == SubSeq(s, 1, i - 1)
             b == SubSeq(s, j, Len(s))
  <1>1. Len(s) \in Nat /\ Len(u) \in Nat
    BY Elements
  <1>2. 1 \in 1 .. Len(s) + 1 /\ i - 1 \in 1 - 1 .. Len(s) /\ j \in 1 .. Len(s) + 1 /\ Len(s) \in j - 1 .. Len(s)
    BY <1>1
  <1>3. a \in Seq(S) /\ Len(a) = i - 1 /\ \A n \in 1 .. i - 1 : s[n] \in ToSet(a)
    <2>1. a \in Seq(S) /\ Len(a) = (i - 1) - 1 + 1 /\ \A n \in 1 .. i - 1 : s[n] \in ToSet(a)
      BY <1>2, Part
    <2> QED
      BY <1>2, <2>1
  <1>4. b \in Seq(S) /\ Len(b) = Len(s) - j + 1 /\ \A n \in j .. Len(s) : s[n] \in ToSet(b)
    BY <1>2, Part
  <1>5. Spliced(s, i, u, j) = Cat(Cat(a, u), b)
    BY DEF Spliced, Cat
  <1> HIDE DEF a, b
  <1> DEFINE c == Cat(a, u)
             r == Cat(c, b)
  <1>6. /\ c \in Seq(S) /\ Len(c) = Len(a) + Len(u)
        /\ \A n \in 1 .. Len(u) : c[Len(a) + n] = u[n]
        /\ ToSet(c) = ToSet(a) \cup ToSet(u)
    <2>1. IsJoin(S, a, u, c)
      BY <1>3, Joined
    <2> HIDE DEF c
    <2> QED
      BY <2>1 DEF IsJoin
  <1> HIDE DEF c
  <1>7. /\ r \in Seq(S) /\ Len(r) = Len(c) + Len(b)
        /\ \A n \in 1 .. Len(c) : r[n] = c[n]
        /\ ToSet(r) = ToSet(c) \cup ToSet(b)
    <2>1. IsJoin(S, c, b, r)
      BY <1>4, <1>6, Joined
    <2> HIDE DEF r
    <2> QED
      BY <2>1 DEF IsJoin
  <1>8. Spliced(s, i, u, j) = r
    BY <1>5 DEF c
  <1> HIDE DEF r
  <1>9. Len(r) = Len(s) + Len(u) - (j - i)
    BY <1>1, <1>2, <1>3, <1>4, <1>6, <1>7
  <1>10. \A n \in 1 .. Len(u) : r[i - 1 + n] = u[n]
    BY <1>1, <1>2, <1>3, <1>6, <1>7
  <1>11. ASSUME NEW n \in 1 .. Len(s), n \notin i .. j - 1 PROVE s[n] \in ToSet(r)
    <2>1. n \in 1 .. i - 1 \/ n \in j .. Len(s)
      BY <1>1, <1>2, <1>11
    <2> QED
      BY <1>3, <1>4, <1>6, <1>7, <2>1
  <1> QED
    BY <1>6, <1>7, <1>8, <1>9, <1>10, <1>11 DEF IsSplice

\* InsertAt adds its element and keeps the others.
LEMMA Inserting ==
  ASSUME NEW S, NEW s \in Seq(S), NEW i \in 1 .. Len(s) + 1, NEW e \in S
  PROVE  LET r == InsertAt(s, i, e)
         IN /\ r \in Seq(S) /\ Len(r) = Len(s) + 1 /\ r[i] = e
            /\ ToSet(s) \cup {e} \subseteq ToSet(r)
  <1>1. InsertAt(s, i, e) = Spliced(s, i, <<e>>, i)
    BY DEF InsertAt, Spliced
  <1> DEFINE r == Spliced(s, i, <<e>>, i)
             u == <<e>>
  <1>2. u \in Seq(S) /\ Len(u) = 1 /\ u[1] = e /\ ToSet(u) = {e}
    BY One
  <1>3. Len(s) \in Nat
    BY Elements
  <1>4. i \in i .. Len(s) + 1
    BY <1>3
  <1> HIDE DEF u
  <1>5. LET q == Spliced(s, i, u, i)
        IN /\ q \in Seq(S) /\ Len(q) = Len(s) + Len(u) - (i - i)
           /\ \A n \in 1 .. Len(u) : q[i - 1 + n] = u[n]
           /\ ToSet(u) \subseteq ToSet(q)
           /\ \A n \in 1 .. Len(s) : n \notin i .. i - 1 => s[n] \in ToSet(q)
    <2> DEFINE q == Spliced(s, i, u, i)
    <2>1. IsSplice(S, s, i, u, i, q)
      BY ONLY <1>2, <1>4, Splice, s \in Seq(S), i \in 1 .. Len(s) + 1
    <2> HIDE DEF q
    <2>2. /\ q \in Seq(S) /\ Len(q) = Len(s) + Len(u) - (i - i)
          /\ \A n \in 1 .. Len(u) : q[i - 1 + n] = u[n]
          /\ ToSet(u) \subseteq ToSet(q)
          /\ \A n \in 1 .. Len(s) : n \notin i .. i - 1 => s[n] \in ToSet(q)
      BY <2>1 DEF IsSplice
    <2> QED
      BY <2>2 DEF q
  <1>6. r = Spliced(s, i, u, i)
    BY DEF u
  <1> HIDE DEF r
  <1>7. r \in Seq(S) /\ Len(r) = Len(s) + 1
    BY <1>2, <1>3, <1>5, <1>6
  <1>8. r[i] = e
    <2>1. r[i - 1 + 1] = u[1]
      BY <1>2, <1>5, <1>6
    <2> QED
      BY <1>2, <2>1
  <1>9. \A v \in ToSet(s) : v \in ToSet(r)
    <2>1. \A n \in 1 .. Len(s) : s[n] \in ToSet(r)
      BY <1>3, <1>5, <1>6
    <2> QED
      BY <2>1, Elements
  <1>10. e \in ToSet(r)
    BY <1>2, <1>5, <1>6
  <1> QED
    BY <1>1, <1>7, <1>8, <1>9, <1>10 DEF r, u

\* RemoveAt keeps all but the element it removes.
LEMMA Removing ==
  ASSUME NEW S, NEW s \in Seq(S), NEW i \in 1 .. Len(s)
  PROVE  LET r == RemoveAt(s, i)
         IN /\ r \in Seq(S) /\ Len(r) = Len(s) - 1
            /\ ToSet(s) \subseteq ToSet(r) \cup {s[i]}
  <1>1. Len(s) \in Nat
    BY Elements
  <1>2. i \in 1 .. Len(s) + 1 /\ i + 1 \in i .. Len(s) + 1 /\ (i + 1) - i = 1 /\ (i + 1) - 1 = i
    BY <1>1
  <1> DEFINE a == SubSeq(s, 1, i - 1)
             b == SubSeq(s, i + 1, Len(s))
  <1>3. a \in Seq(S)
    <2>1. 1 \in 1 .. Len(s) + 1 /\ i - 1 \in 1 - 1 .. Len(s)
      BY <1>1
    <2> QED
      BY <2>1, Part
  <1>4. a \o << >> = a
    <2> HIDE DEF a
    <2> QED
      BY <1>3, ConcatEmptySeq
  <1>5. RemoveAt(s, i) = Spliced(s, i, << >>, i + 1)
    BY <1>4 DEF RemoveAt, Spliced
  <1> DEFINE u == << >>
             j == i + 1
             r == Spliced(s, i, u, j)
  <1>6. u \in Seq(S) /\ Len(u) = 0 /\ i \in 1 .. Len(s) + 1 /\ j \in i .. Len(s) + 1
    BY <1>2, EmptySeq
  <1> HIDE DEF u, j
  <1>7. /\ r \in Seq(S) /\ Len(r) = Len(s) + Len(u) - (j - i)
        /\ \A n \in 1 .. Len(s) : n \notin i .. j - 1 => s[n] \in ToSet(r)
    <2>1. IsSplice(S, s, i, u, j, r)
      BY <1>6, Splice
    <2> HIDE DEF r
    <2> QED
      BY <2>1 DEF IsSplice
  <1> HIDE DEF r
  <1>8. ASSUME NEW v \in ToSet(s) PROVE v \in ToSet(r) \cup {s[i]}
    <2>1. PICK n \in 1 .. Len(s) : s[n] = v
      BY Elements
    <2>2. n # i => n \notin i .. j - 1
      BY <1>1, <1>2, <2>1 DEF j
    <2> QED
      BY <1>7, <2>1, <2>2
  <1>9. Len(r) = Len(s) - 1
    BY <1>1, <1>2, <1>6, <1>7 DEF j
  <1> QED
    BY <1>5, <1>7, <1>8, <1>9 DEF r, u, j

\* The ends of a sequence that is not empty, and what is left without them.
LEMMA Ends ==
  ASSUME NEW S, NEW s \in Seq(S), Len(s) > 0
  PROVE  /\ Head(s) \in S /\ Tail(s) \in Seq(S) /\ Len(Tail(s)) = Len(s) - 1
         /\ ToSet(s) \subseteq ToSet(Tail(s)) \cup {Head(s)}
         /\ Last(s) \in S /\ Front(s) \in Seq(S) /\ Len(Front(s)) = Len(s) - 1
         /\ ToSet(s) \subseteq ToSet(Front(s)) \cup {Last(s)}
         /\ Head(s) = s[1] /\ Last(s) = s[Len(s)]
  <1>1. Len(s) \in Nat /\ \A e : e \in ToSet(s) <=> \E n \in 1 .. Len(s) : s[n] = e
    BY Elements
  <1>2. s # << >>
    BY EmptySeq
  <1>3. Tail(s) = SubSeq(s, 2, Len(s)) /\ Front(s) = SubSeq(s, 1, Len(s) - 1)
    BY <1>2, TailIsSubSeq, SMTT(30) DEF Front
  <1>4. 2 \in 1 .. Len(s) + 1 /\ Len(s) \in 2 - 1 .. Len(s) /\ 1 \in 1 .. Len(s) + 1 /\ Len(s) - 1 \in 1 - 1 .. Len(s)
    BY <1>1
  <1> DEFINE r == SubSeq(s, 2, Len(s))
             f == SubSeq(s, 1, Len(s) - 1)
  <1>5. r \in Seq(S) /\ Len(r) = Len(s) - 2 + 1 /\ \A n \in 2 .. Len(s) : s[n] \in ToSet(r)
    BY <1>4, Part, ZenonT(30)
  <1>6. f \in Seq(S) /\ Len(f) = (Len(s) - 1) - 1 + 1 /\ \A n \in 1 .. Len(s) - 1 : s[n] \in ToSet(f)
    BY <1>4, Part
  <1>7. Head(s) = s[1] /\ Last(s) = s[Len(s)] /\ s[1] \in S /\ s[Len(s)] \in S
    BY <1>1, <1>4, Elements DEF Last
  <1> HIDE DEF r, f
  <1>8. ToSet(s) \subseteq ToSet(r) \cup {s[1]}
    BY <1>1, <1>5
  <1>9. ToSet(s) \subseteq ToSet(f) \cup {s[Len(s)]}
    BY <1>1, <1>6
  <1>10. Len(r) = Len(s) - 1 /\ Len(f) = Len(s) - 1
    BY <1>1, <1>5, <1>6
  <1> QED
    BY <1>3, <1>5, <1>6, <1>7, <1>8, <1>9, <1>10 DEF r, f

\* An element at the end.
LEMMA Appending ==
  ASSUME NEW S, NEW s \in Seq(S), NEW e \in S
  PROVE  /\ Append(s, e) \in Seq(S) /\ Len(Append(s, e)) = Len(s) + 1
         /\ ToSet(Append(s, e)) = ToSet(s) \cup {e}
  <1> DEFINE u == <<e>>
  <1>1. Append(s, e) = Cat(s, u)
    BY AppendIsConcat DEF Cat
  <1>2. u \in Seq(S) /\ Len(u) = 1 /\ ToSet(u) = {e}
    BY One
  <1> HIDE DEF u
  <1>3. IsJoin(S, s, u, Append(s, e))
    BY <1>1, <1>2, Joined
  <1> QED
    BY <1>2, <1>3 DEF IsJoin

\* An element in front.
LEMMA Prefixing ==
  ASSUME NEW S, NEW s \in Seq(S), NEW e \in S
  PROVE  /\ <<e>> \o s \in Seq(S) /\ Len(<<e>> \o s) = Len(s) + 1
         /\ ToSet(<<e>> \o s) = ToSet(s) \cup {e}
  <1> DEFINE u == <<e>>
  <1>1. u \in Seq(S) /\ Len(u) = 1 /\ ToSet(u) = {e}
    BY One
  <1>2. Len(s) \in Nat
    BY Elements
  <1>3. <<e>> \o s = Cat(u, s)
    BY DEF Cat
  <1> HIDE DEF u
  <1>4. IsJoin(S, u, s, <<e>> \o s)
    BY <1>1, <1>3, Joined
  <1> QED
    BY <1>1, <1>2, <1>4 DEF IsJoin
-----------------------------------------------------------------------------
(* Nodes *)

\* What is known of a node.
LEMMA IsNode ==
  ASSUME NEW h \in Nat, NEW x \in NodesAt(h)
  PROVE  /\ x = [keys |-> x.keys, kids |-> x.kids]
         /\ x.keys \in Seq(KeyValues) /\ x.kids \in Seq(Below(h))
         /\ Num(x) \in Nat /\ Num(x) <= 2 * t - 1 /\ Num(x) = Len(x.keys)
         /\ Len(x.kids) = Children(h, x.keys)
         /\ Leaf(x) <=> h = 0
         /\ h > 0 => Len(x.kids) = Num(x) + 1
         /\ h > 0 => \A i \in 1 .. Num(x) + 1 : x.kids[i] \in Subtrees[h - 1]
  <1>1. x \in [keys : Seq(KeyValues), kids : Seq(Below(h))] /\ Num(x) <= 2 * t - 1
        /\ Len(x.kids) = IF h = 0 THEN 0 ELSE Num(x) + 1
    BY DEF NodesAt, NodesOver
  <1>2. x = [keys |-> x.keys, kids |-> x.kids] /\ x.keys \in Seq(KeyValues) /\ x.kids \in Seq(Below(h))
    BY <1>1
  <1>3. Num(x) \in Nat /\ Num(x) = Len(x.keys)
    BY <1>2, Elements DEF Num
  <1>4. Leaf(x) <=> h = 0
    <2>1. x.kids = << >> <=> Len(x.kids) = 0
      BY <1>2, EmptySeq
    <2> QED
      BY <1>1, <1>3, <2>1 DEF Leaf
  <1>5. h > 0 => \A i \in 1 .. Num(x) + 1 : x.kids[i] \in Subtrees[h - 1]
    BY <1>1, <1>2, Elements DEF Below
  <1> QED
    BY <1>1, <1>2, <1>3, <1>4, <1>5 DEF Children

\* Keys that fit and children enough make a node.
LEMMA NewNode ==
  ASSUME NEW h \in Nat, NEW ks \in Seq(KeyValues), NEW cs \in Seq(Below(h)),
         Len(ks) <= 2 * t - 1, Len(cs) = Children(h, ks)
  PROVE  [keys |-> ks, kids |-> cs] \in NodesAt(h)
  BY DEF NodesAt, NodesOver, Num, Children

\* A subtree is a node with at least t - 1 keys.
LEMMA IsSubtree ==
  ASSUME NEW h \in Nat
  PROVE  \A x : x \in Subtrees[h] <=> x \in NodesAt(h) /\ Num(x) >= t - 1
  <1>1. Subtrees[h] = SubtreesRow(Subtrees[h - 1], h)
    BY SubtreesDef
  <1> QED
    BY <1>1 DEF SubtreesRow, NodesAt, Below

\* The functions are defined on nodes.
LEMMA NodesAreTrees == \A h \in Nat : NodesAt(h) \subseteq Trees[h]
  <1> DEFINE Good == {h \in Nat : NodesAt(h) \subseteq Trees[h]}
  <1>1. ASSUME NEW h \in Nat, Below(h) \subseteq (IF h = 0 THEN {} ELSE Trees[h - 1])
        PROVE  NodesAt(h) \subseteq Trees[h]
    <2> SUFFICES ASSUME NEW x \in NodesAt(h) PROVE x \in Trees[h]
      OBVIOUS
    <2> DEFINE B == IF h = 0 THEN {} ELSE Trees[h - 1]
    <2>1. x = [keys |-> x.keys, kids |-> x.kids] /\ x.keys \in Seq(KeyValues) /\ x.kids \in Seq(Below(h))
      BY IsNode
    <2>2. x.kids \in Seq(B)
      BY <1>1, <2>1, SeqMonotonic
    <2>3. Trees[h] = [keys : Seq(KeyValues), kids : Seq(B)]
      BY TreesDef DEF TreesRow
    <2> HIDE DEF B
    <2> QED
      BY <2>1, <2>2, <2>3
  <1>2. 0 \in Good
    BY <1>1 DEF Below
  <1>3. ASSUME NEW h \in Nat, h \in Good PROVE h + 1 \in Good
    <2>1. Below(h + 1) = Subtrees[h]
      BY DEF Below
    <2>2. Below(h + 1) \subseteq Trees[h]
      BY <1>3, <2>1, IsSubtree
    <2> QED
      BY <1>1, <2>2
  <1> HIDE DEF Good
  <1>4. \A h \in Nat : h \in Good
    BY <1>2, <1>3, FromZero
  <1> QED
    BY <1>4 DEF Good

\* A key of a tree is one of its root or of a tree below it.
LEMMA KeysAre ==
  ASSUME NEW h \in Nat, NEW x \in Trees[h]
  PROVE  \A k : k \in KeysIn[h][x] <=>
           k \in ToSet(x.keys) \/ \E c \in ToSet(x.kids) : k \in KeysBelow(h, c)
  <1>1. KeysIn[h] = KeysRow(KeysIn[h - 1], h)
    BY KeysInDef
  <1>2. KeysIn[h][x] =
          ToSet(x.keys) \cup UNION {IF h = 0 THEN {} ELSE KeysIn[h - 1][c] : c \in ToSet(x.kids)}
    BY <1>1 DEF KeysRow
  <1> QED
    BY <1>2 DEF KeysBelow

\* A tree has the keys of its root and of the trees below it.
LEMMA Reaches ==
  ASSUME NEW h \in Nat, NEW x \in NodesAt(h)
  PROVE  /\ ToSet(x.keys) \subseteq KeysIn[h][x]
         /\ \A c \in ToSet(x.kids) : KeysBelow(h, c) \subseteq KeysIn[h][x]
         /\ \A i \in 1 .. Num(x) : x.keys[i] \in KeysIn[h][x]
         /\ h > 0 => \A i \in 1 .. Num(x) + 1 : KeysIn[h - 1][x.kids[i]] \subseteq KeysIn[h][x]
  <1>1. x \in Trees[h]
    BY NodesAreTrees
  <1>2. /\ ToSet(x.keys) \subseteq KeysIn[h][x]
        /\ \A c \in ToSet(x.kids) : KeysBelow(h, c) \subseteq KeysIn[h][x]
    BY <1>1, KeysAre
  <1>3. /\ x.keys \in Seq(KeyValues) /\ x.kids \in Seq(Below(h)) /\ Num(x) = Len(x.keys)
        /\ h > 0 => Len(x.kids) = Num(x) + 1
    BY IsNode
  <1>4. ASSUME NEW i \in 1 .. Num(x) PROVE x.keys[i] \in KeysIn[h][x]
    <2>1. x.keys[i] \in ToSet(x.keys)
      BY <1>3, Elements
    <2> QED
      BY <1>2, <2>1
  <1>5. ASSUME h > 0, NEW i \in 1 .. Num(x) + 1 PROVE KeysIn[h - 1][x.kids[i]] \subseteq KeysIn[h][x]
    <2>1. KeysBelow(h, x.kids[i]) = KeysIn[h - 1][x.kids[i]]
      BY <1>5 DEF KeysBelow
    <2>2. x.kids[i] \in ToSet(x.kids)
      BY <1>3, <1>5, Elements
    <2> QED
      BY <1>2, <2>1, <2>2
  <1>6. \A i \in 1 .. Num(x) : x.keys[i] \in KeysIn[h][x]
    BY <1>4
  <1>7. h > 0 => \A i \in 1 .. Num(x) + 1 : KeysIn[h - 1][x.kids[i]] \subseteq KeysIn[h][x]
    BY <1>5
  <1> QED
    BY ONLY <1>2, <1>6, <1>7

\* And no others.
LEMMA Within ==
  ASSUME NEW h \in Nat, NEW x \in NodesAt(h), NEW K,
         \A i \in 1 .. Num(x) : x.keys[i] \in K,
         h > 0 => \A i \in 1 .. Num(x) + 1 : KeysIn[h - 1][x.kids[i]] \subseteq K
  PROVE  KeysIn[h][x] \subseteq K
  <1>1. x \in Trees[h]
    BY NodesAreTrees
  <1>2. x.keys \in Seq(KeyValues) /\ x.kids \in Seq(Below(h)) /\ Num(x) = Len(x.keys)
        /\ (h > 0 => Len(x.kids) = Num(x) + 1)
    BY IsNode
  <1> SUFFICES ASSUME NEW k \in KeysIn[h][x] PROVE k \in K
    OBVIOUS
  <1>3. CASE k \in ToSet(x.keys)
    BY <1>2, <1>3, Elements
  <1>4. CASE \E c \in ToSet(x.kids) : k \in KeysBelow(h, c)
    <2>1. PICK c \in ToSet(x.kids) : k \in KeysBelow(h, c)
      BY <1>4
    <2>2. PICK i \in 1 .. Len(x.kids) : x.kids[i] = c
      BY <1>2, Elements
    <2>3. h > 0 /\ k \in KeysIn[h - 1][c]
      BY <2>1 DEF KeysBelow
    <2> QED
      BY <1>2, <2>2, <2>3
  <1> QED
    BY <1>1, <1>3, <1>4, KeysAre
-----------------------------------------------------------------------------
(* Insertion *)

\* BTreeAssumption, as a fact to cite.
LEMMA DegreeFacts == t \in Nat /\ t >= 2 /\ KeyValues \subseteq Int
  BY BTreeAssumption

\* Part of a node is a node below the root.
Piece(y, a, b) == [keys |-> SubSeq(y.keys, a, b), kids |-> Kids(y, a, b + 1)]

\* It has the keys and the children it was cut from.
LEMMA Cut ==
  ASSUME NEW g \in Nat, NEW y \in NodesAt(g), NEW a \in 1 .. Num(y) + 1, NEW b \in a - 1 .. Num(y)
  PROVE  /\ Piece(y, a, b) \in NodesAt(g) /\ Num(Piece(y, a, b)) = b - a + 1
         /\ \A n \in a .. b : y.keys[n] \in KeysIn[g][Piece(y, a, b)]
         /\ g > 0 => \A n \in a .. b + 1 : KeysIn[g - 1][y.kids[n]] \subseteq KeysIn[g][Piece(y, a, b)]
  <1> DEFINE ks == SubSeq(y.keys, a, b)
             cs == Kids(y, a, b + 1)
             p  == [keys |-> ks, kids |-> cs]
  <1>1. /\ y.keys \in Seq(KeyValues) /\ y.kids \in Seq(Below(g)) /\ Num(y) \in Nat /\ Num(y) <= 2 * t - 1
        /\ Num(y) = Len(y.keys) /\ (Leaf(y) <=> g = 0) /\ (g > 0 => Len(y.kids) = Num(y) + 1)
    BY IsNode
  <1>2. a \in 1 .. Len(y.keys) + 1 /\ b \in a - 1 .. Len(y.keys) /\ a \in Int /\ b \in Int
    BY <1>1
  <1>3. ks \in Seq(KeyValues) /\ Len(ks) = b - a + 1 /\ \A n \in a .. b : y.keys[n] \in ToSet(ks)
    BY <1>1, <1>2, Part
  <1>4. Len(ks) <= 2 * t - 1
    BY <1>1, <1>2, <1>3, DegreeFacts
  <1>5. CASE g = 0
    <2>1. cs = << >> /\ cs \in Seq(Below(g)) /\ Len(cs) = Children(g, ks)
      BY <1>1, <1>5, EmptySeq DEF Kids, Children
    <2> HIDE DEF ks, cs
    <2>2. p \in NodesAt(g)
      BY <1>3, <1>4, <2>1, NewNode
    <2>3. p.keys = ks /\ Piece(y, a, b) = p
      BY DEF Piece, ks, cs
    <2> HIDE DEF p
    <2>4. ToSet(p.keys) \subseteq KeysIn[g][p]
      BY <2>2, Reaches
    <2>5. Num(p) = b - a + 1
      BY <1>3, <2>3 DEF Num
    <2> QED
      BY <1>3, <1>5, <2>2, <2>3, <2>4, <2>5
  <1>6. CASE g > 0
    <2>1. cs = SubSeq(y.kids, a, b + 1)
      BY <1>1, <1>6 DEF Kids
    <2> DEFINE e == b + 1
    <2>2. a \in 1 .. Len(y.kids) + 1 /\ e \in a - 1 .. Len(y.kids)
      BY <1>1, <1>2, <1>6
    <2>3. cs = SubSeq(y.kids, a, e)
      BY <2>1
    <2> HIDE DEF cs, e
    <2>4. cs \in Seq(Below(g)) /\ Len(cs) = e - a + 1 /\ \A n \in a .. e : y.kids[n] \in ToSet(cs)
      BY <1>1, <2>2, <2>3, Part
    <2>5. Len(cs) = Children(g, ks)
      BY <1>2, <1>3, <1>6, <2>4 DEF Children, e
    <2> HIDE DEF ks
    <2>6. p \in NodesAt(g)
      BY <1>3, <1>4, <2>4, <2>5, NewNode
    <2>7. p.keys = ks /\ p.kids = cs /\ Piece(y, a, b) = p
      BY DEF Piece, ks, cs
    <2> HIDE DEF p
    <2>8. ToSet(p.keys) \subseteq KeysIn[g][p] /\ \A c \in ToSet(p.kids) : KeysBelow(g, c) \subseteq KeysIn[g][p]
      BY <2>6, Reaches
    <2>9. \A c : KeysBelow(g, c) = KeysIn[g - 1][c]
      BY <1>6 DEF KeysBelow
    <2>10. Num(p) = b - a + 1
      BY <1>3, <2>7 DEF Num
    <2>11. \A n \in a .. e : KeysIn[g - 1][y.kids[n]] \subseteq KeysIn[g][p]
      BY <2>4, <2>7, <2>8, <2>9
    <2>12. \A n \in a .. b : y.keys[n] \in KeysIn[g][p]
      BY <1>3, <2>7, <2>8
    <2> QED
      BY <2>6, <2>7, <2>10, <2>11, <2>12 DEF e
  <1> QED
    BY <1>5, <1>6

\* After the split the node has one key more, the two halves are as poor as
\* they may be, and no key is gone.
LEMMA SplitChild ==
  ASSUME NEW h \in Nat, h > 0, NEW x \in NodesAt(h), Num(x) < 2 * t - 1, NEW i \in 1 .. Num(x) + 1,
         Num(x.kids[i]) = 2 * t - 1
  PROVE  LET s == btree_split_child(x, i)
         IN /\ s \in NodesAt(h) /\ Num(s) = Num(x) + 1
            /\ Num(s.kids[i]) = t - 1 /\ Num(s.kids[i + 1]) = t - 1
            /\ KeysIn[h][x] \subseteq KeysIn[h][s]
  <1> DEFINE s    == btree_split_child(x, i)
             y    == x.kids[i]
             low  == Piece(y, 1, t - 1)
             high == Piece(y, t + 1, 2 * t - 1)
             ks   == InsertAt(x.keys, i, y.keys[t])
             u    == <<low, high>>
             cs   == Spliced(x.kids, i, u, i + 1)
  <1>1. /\ x.keys \in Seq(KeyValues) /\ x.kids \in Seq(Below(h)) /\ Num(x) \in Nat
        /\ Num(x) = Len(x.keys) /\ Len(x.kids) = Num(x) + 1 /\ y \in Subtrees[h - 1]
    BY IsNode
  <1>2. h - 1 \in Nat /\ Below(h) = Subtrees[h - 1]
    BY DEF Below
  <1>3. y \in NodesAt(h - 1) /\ Num(y) = 2 * t - 1
    BY <1>1, <1>2, IsSubtree
  <1>4. s = [keys |-> ks, kids |-> cs]
    <2>1. (t - 1) + 1 = t /\ (2 * t - 1) + 1 = 2 * t
      BY DegreeFacts
    <2>2. /\ low = [keys |-> SubSeq(y.keys, 1, t - 1), kids |-> Kids(y, 1, t)]
          /\ high = [keys |-> SubSeq(y.keys, t + 1, 2 * t - 1), kids |-> Kids(y, t + 1, 2 * t)]
      BY <2>1 DEF Piece
    <2> HIDE DEF low, high, y
    <2> QED
      BY <2>2 DEF btree_split_child, Spliced, y
  <1> HIDE DEF y
  <1>5. y.keys \in Seq(KeyValues) /\ Num(y) = Len(y.keys)
    BY <1>2, <1>3, IsNode
  <1>6. y.keys[t] \in KeyValues
    BY <1>3, <1>5, DegreeFacts, Elements
  <1>7. /\ low \in NodesAt(h - 1) /\ Num(low) = t - 1
        /\ \A n \in 1 .. t - 1 : y.keys[n] \in KeysIn[h - 1][low]
        /\ h - 1 > 0 => \A n \in 1 .. t : KeysIn[h - 1 - 1][y.kids[n]] \subseteq KeysIn[h - 1][low]
    <2>1. 1 \in 1 .. Num(y) + 1 /\ t - 1 \in 1 - 1 .. Num(y) /\ (t - 1) - 1 + 1 = t - 1 /\ (t - 1) + 1 = t
      BY <1>3, DegreeFacts
    <2> HIDE DEF low
    <2>2. /\ low \in NodesAt(h - 1) /\ Num(low) = (t - 1) - 1 + 1
          /\ \A n \in 1 .. t - 1 : y.keys[n] \in KeysIn[h - 1][low]
          /\ h - 1 > 0 => \A n \in 1 .. (t - 1) + 1 : KeysIn[h - 1 - 1][y.kids[n]] \subseteq KeysIn[h - 1][low]
      BY ONLY <1>2, <1>3, <2>1, Cut DEF low
    <2> QED
      BY <2>1, <2>2
  <1>8. /\ high \in NodesAt(h - 1) /\ Num(high) = t - 1
        /\ \A n \in t + 1 .. 2 * t - 1 : y.keys[n] \in KeysIn[h - 1][high]
        /\ h - 1 > 0 => \A n \in t + 1 .. 2 * t : KeysIn[h - 1 - 1][y.kids[n]] \subseteq KeysIn[h - 1][high]
    <2>1. /\ t + 1 \in 1 .. Num(y) + 1 /\ 2 * t - 1 \in (t + 1) - 1 .. Num(y)
          /\ (2 * t - 1) - (t + 1) + 1 = t - 1 /\ (2 * t - 1) + 1 = 2 * t
      BY <1>3, DegreeFacts
    <2> HIDE DEF high
    <2>2. /\ high \in NodesAt(h - 1) /\ Num(high) = (2 * t - 1) - (t + 1) + 1
          /\ \A n \in t + 1 .. 2 * t - 1 : y.keys[n] \in KeysIn[h - 1][high]
          /\ h - 1 > 0 => \A n \in t + 1 .. (2 * t - 1) + 1 : KeysIn[h - 1 - 1][y.kids[n]] \subseteq KeysIn[h - 1][high]
      BY ONLY <1>2, <1>3, <2>1, Cut DEF high
    <2> QED
      BY <2>1, <2>2
  <1> HIDE DEF low, high
  <1>9. low \in Below(h) /\ high \in Below(h)
    BY <1>2, <1>7, <1>8, IsSubtree, DegreeFacts
  <1>10. ks \in Seq(KeyValues) /\ Len(ks) = Num(x) + 1 /\ ks[i] = y.keys[t] /\ ToSet(x.keys) \cup {y.keys[t]} \subseteq ToSet(ks)
    <2> DEFINE v == y.keys[t]
               r == InsertAt(x.keys, i, v)
    <2>1. i \in 1 .. Len(x.keys) + 1 /\ v \in KeyValues
      BY <1>1, <1>6
    <2> HIDE DEF v
    <2>2. r \in Seq(KeyValues) /\ Len(r) = Len(x.keys) + 1 /\ r[i] = v /\ ToSet(x.keys) \cup {v} \subseteq ToSet(r)
      BY ONLY <1>1, <2>1, Inserting
    <2> HIDE DEF r
    <2>3. ks = r
      BY DEF r, v
    <2> HIDE DEF ks
    <2> QED
      BY <1>1, <2>2, <2>3 DEF v
  <1> HIDE DEF ks
  <1>11. u \in Seq(Below(h)) /\ Len(u) = 2 /\ u[1] = low /\ u[2] = high
    BY <1>9, Two
  <1> HIDE DEF u
  <1>12. i \in 1 .. Len(x.kids) + 1 /\ i + 1 \in i .. Len(x.kids) + 1 /\ i \in Int
    BY <1>1
  <1>13. IsSplice(Below(h), x.kids, i, u, i + 1, cs)
    BY ONLY <1>1, <1>11, <1>12, Splice
  <1> HIDE DEF cs
  <1>14. /\ cs \in Seq(Below(h)) /\ Len(cs) = Num(x) + 2 /\ cs[i] = low /\ cs[i + 1] = high
         /\ low \in ToSet(cs) /\ high \in ToSet(cs)
         /\ \A n \in 1 .. Num(x) + 1 : n # i => x.kids[n] \in ToSet(cs)
    <2>1. /\ cs \in Seq(Below(h)) /\ Len(cs) = Len(x.kids) + Len(u) - ((i + 1) - i)
          /\ \A n \in 1 .. Len(u) : cs[i - 1 + n] = u[n]
          /\ \A n \in 1 .. Len(x.kids) : n \notin i .. (i + 1) - 1 => x.kids[n] \in ToSet(cs)
      BY <1>13 DEF IsSplice
    <2>2. cs[i - 1 + 1] = low /\ cs[i - 1 + 2] = high
      BY <1>11, <2>1
    <2>3. cs[i] = low /\ cs[i + 1] = high /\ Len(cs) = Num(x) + 2
      BY <1>1, <1>11, <1>12, <2>1, <2>2
    <2>4. i \in 1 .. Len(cs) /\ i + 1 \in 1 .. Len(cs)
      BY <1>1, <2>3
    <2>5. low \in ToSet(cs) /\ high \in ToSet(cs)
      BY <2>1, <2>3, <2>4, Elements
    <2>6. \A n \in 1 .. Num(x) + 1 : n # i => x.kids[n] \in ToSet(cs)
      <3>1. ASSUME NEW n \in 1 .. Num(x) + 1, n # i
            PROVE  n \in 1 .. Len(x.kids) /\ n \notin i .. (i + 1) - 1
        BY <1>1, <1>12, <3>1
      <3> QED
        BY <2>1, <3>1
    <2> QED
      BY <2>1, <2>3, <2>5, <2>6
  <1>15. s \in NodesAt(h)
    <2>1. Len(ks) <= 2 * t - 1 /\ Len(cs) = Children(h, ks)
      BY <1>1, <1>10, <1>14, DegreeFacts, SMTT(30) DEF Children
    <2> QED
      BY <1>4, <1>10, <1>14, <2>1, NewNode
  <1>16. s.keys = ks /\ s.kids = cs
    BY <1>4
  <1> HIDE DEF s
  <1>17. Num(s) = Num(x) + 1 /\ Num(s.kids[i]) = t - 1 /\ Num(s.kids[i + 1]) = t - 1
    BY <1>7, <1>8, <1>10, <1>14, <1>16 DEF Num
  <1> DEFINE K == KeysIn[h][s]
  <1>18. ToSet(ks) \subseteq K /\ \A c \in ToSet(cs) : KeysIn[h - 1][c] \subseteq K
    <2>1. \A c : KeysBelow(h, c) = KeysIn[h - 1][c]
      BY DEF KeysBelow
    <2> QED
      BY <1>15, <1>16, <2>1, Reaches
  <1> HIDE DEF K
  <1>19. \A n \in 1 .. Num(x) : x.keys[n] \in K
    BY <1>1, <1>10, <1>18, Elements
  <1>20. KeysIn[h - 1][y] \subseteq K
    <2>1. KeysIn[h - 1][low] \subseteq K /\ KeysIn[h - 1][high] \subseteq K /\ y.keys[t] \in K
      BY <1>10, <1>14, <1>18
    <2>2. \A n \in 1 .. Num(y) : y.keys[n] \in K
      <3>1. \A n \in 1 .. Num(y) : n \in 1 .. t - 1 \/ n = t \/ n \in t + 1 .. 2 * t - 1
        BY <1>3, DegreeFacts
      <3> QED
        BY <1>7, <1>8, <2>1, <3>1
    <2>3. h - 1 > 0 => \A n \in 1 .. Num(y) + 1 : KeysIn[h - 1 - 1][y.kids[n]] \subseteq K
      <3>1. \A n \in 1 .. Num(y) + 1 : n \in 1 .. t \/ n \in t + 1 .. 2 * t
        BY <1>3, DegreeFacts
      <3> QED
        BY <1>7, <1>8, <2>1, <3>1
    <2> QED
      BY ONLY <1>2, <1>3, <2>2, <2>3, Within
  <1>21. \A n \in 1 .. Num(x) + 1 : KeysIn[h - 1][x.kids[n]] \subseteq K
    BY <1>14, <1>18, <1>20 DEF y
  <1>22. KeysIn[h][x] \subseteq K
    BY <1>19, <1>21, Within
  <1> QED
    BY <1>15, <1>17, <1>22 DEF s, K

\* A bounded set of numbers that is not empty has a greatest one, Max.
LEMMA HasMax ==
  ASSUME NEW N \in Nat, NEW S, S \subseteq 0 .. N, S # {}
  PROVE  Max(S) \in S /\ \A n \in S : Max(S) >= n
  <1> DEFINE D == {N - n : n \in S}
  <1>1. D \subseteq Nat /\ D # {}
    <2>1. PICK n \in S : TRUE
      OBVIOUS
    <2>2. N - n \in D
      BY <2>1
    <2>3. \A m \in S : m \in 0 .. N
      OBVIOUS
    <2>4. \A m \in S : N - m \in Nat
      BY <2>3
    <2> QED
      BY <2>2, <2>4
  <1>2. \A d : d \in D <=> \E n \in S : d = N - n
    OBVIOUS
  <1> HIDE DEF D
  <1>3. PICK m \in D : \A d \in D : m <= d
    BY ONLY <1>1, Least
  <1>4. PICK n \in S : m = N - n
    BY <1>2, <1>3
  <1>5. \A e \in S : n >= e
    <2> SUFFICES ASSUME NEW e \in S PROVE n >= e
      OBVIOUS
    <2>1. N - e \in D
      BY <1>2
    <2> QED
      BY <1>3, <1>4, <2>1
  <1>6. \E v \in S : \A e \in S : v >= e
    BY <1>5
  <1> QED
    BY <1>6 DEF Max

\* A set of numbers that is not empty has a least one, Min.
LEMMA HasMin ==
  ASSUME NEW S, S \subseteq Nat, S # {}
  PROVE  Min(S) \in S /\ \A n \in S : Min(S) <= n
  BY Least DEF Min

\* A key goes to an existing child, or to a place that InsertAt takes.
LEMMA InsertPlace ==
  ASSUME NEW h \in Nat, NEW x \in NodesAt(h), NEW k \in KeyValues
  PROVE  InsertPosition(x, k) \in 1 .. Num(x) + 1
  <1> DEFINE S == {0} \cup {i \in 1 .. Num(x) : x.keys[i] <= k}
  <1>1. Num(x) \in Nat
    BY IsNode
  <1>2. S \subseteq 0 .. Num(x) /\ S # {}
    BY <1>1
  <1>3. InsertPosition(x, k) = Max(S) + 1
    BY DEF InsertPosition
  <1> HIDE DEF S
  <1>4. Max(S) \in 0 .. Num(x)
    BY ONLY <1>1, <1>2, HasMax
  <1> DEFINE m == Max(S)
  <1>5. m + 1 \in 1 .. Num(x) + 1
    <2> HIDE DEF m
    <2>1. m \in 0 .. Num(x)
      BY <1>4 DEF m
    <2> QED
      BY <1>1, <2>1
  <1> QED
    BY <1>3, <1>5

\* The child that a key goes to has room for it, and no key is gone.
LEMMA MakesRoom ==
  ASSUME NEW h \in Nat, h > 0, NEW x \in NodesAt(h), Num(x) < 2 * t - 1, NEW k \in KeyValues
  PROVE  LET r == MakeRoom(x, k)
         IN /\ r.node \in NodesAt(h) /\ Num(r.node) >= Num(x) /\ r.at \in 1 .. Num(r.node) + 1
            /\ Num(r.node.kids[r.at]) < 2 * t - 1
            /\ KeysIn[h][x] \subseteq KeysIn[h][r.node]
  <1> DEFINE i == InsertPosition(x, k)
             s == btree_split_child(x, i)
             r == MakeRoom(x, k)
  <1>1. i \in 1 .. Num(x) + 1 /\ Num(x) \in Nat
    BY InsertPlace, IsNode
  <1>2. x.kids[i] \in Subtrees[h - 1]
    BY <1>1, IsNode
  <1>3. Num(x.kids[i]) \in Nat /\ Num(x.kids[i]) <= 2 * t - 1
    <2>1. x.kids[i] \in NodesAt(h - 1) /\ h - 1 \in Nat
      BY <1>2, IsSubtree
    <2> QED
      BY <2>1, IsNode
  <1>4. CASE Num(x.kids[i]) # 2 * t - 1
    <2>1. r = [node |-> x, at |-> i]
      BY <1>4 DEF MakeRoom
    <2>2. r.node = x /\ r.at = i
      BY <2>1
    <2> HIDE DEF r, i
    <2> QED
      BY <1>1, <1>3, <1>4, <2>2, DegreeFacts DEF r
  <1>5. CASE Num(x.kids[i]) = 2 * t - 1
    <2> DEFINE j == IF k > s.keys[i] THEN i + 1 ELSE i
    <2>1. r = [node |-> s, at |-> j]
      BY <1>5 DEF MakeRoom
    <2>2. r.node = s /\ r.at = j
      BY <2>1
    <2> HIDE DEF r, i
    <2>3. /\ s \in NodesAt(h) /\ Num(s) = Num(x) + 1
          /\ Num(s.kids[i]) = t - 1 /\ Num(s.kids[i + 1]) = t - 1
          /\ KeysIn[h][x] \subseteq KeysIn[h][s]
      BY <1>1, <1>5, SplitChild
    <2> HIDE DEF s
    <2>4. j = i \/ j = i + 1
      OBVIOUS
    <2> HIDE DEF j
    <2>5. j \in 1 .. Num(s) + 1 /\ Num(s.kids[j]) = t - 1
      BY <1>1, <2>3, <2>4
    <2> QED
      BY <1>1, <2>2, <2>3, <2>5, DegreeFacts DEF r
  <1> QED
    BY <1>4, <1>5

\* Child j of x is replaced.
LEMMA Plugged ==
  ASSUME NEW h \in Nat, h > 0, NEW x \in NodesAt(h), NEW j \in 1 .. Num(x) + 1, NEW c \in Subtrees[h - 1]
  PROVE  LET y == [x EXCEPT !.kids[j] = c]
         IN /\ y \in NodesAt(h) /\ Num(y) = Num(x)
            /\ KeysIn[h - 1][c] \subseteq KeysIn[h][y]
            /\ \A n \in 1 .. Num(x) : x.keys[n] \in KeysIn[h][y]
            /\ \A E : KeysIn[h - 1][x.kids[j]] \subseteq KeysIn[h - 1][c] \cup E
                        => KeysIn[h][x] \subseteq KeysIn[h][y] \cup E
  <1> DEFINE cs == [x.kids EXCEPT ![j] = c]
             y  == [x EXCEPT !.kids[j] = c]
  <1>1. /\ x = [keys |-> x.keys, kids |-> x.kids] /\ x.keys \in Seq(KeyValues) /\ x.kids \in Seq(Below(h))
        /\ Num(x) \in Nat /\ Num(x) <= 2 * t - 1
        /\ Num(x) = Len(x.keys) /\ Len(x.kids) = Num(x) + 1
    BY IsNode
  <1>2. y = [keys |-> x.keys, kids |-> cs]
    <2>1. y = [x EXCEPT !.kids = cs]
      OBVIOUS
    <2> HIDE DEF cs, y
    <2> QED
      BY <1>1, <2>1
  <1>3. c \in Below(h) /\ j \in 1 .. Len(x.kids)
    BY <1>1 DEF Below
  <1>4. cs \in Seq(Below(h)) /\ Len(cs) = Len(x.kids) /\ cs[j] = c /\ \A m \in 1 .. Len(x.kids) : m # j => cs[m] = x.kids[m]
    BY <1>1, <1>3, Put
  <1> HIDE DEF cs
  <1>5. y \in NodesAt(h)
    BY <1>1, <1>2, <1>4, NewNode DEF Children
  <1>6. y.keys = x.keys /\ y.kids = cs
    BY <1>2
  <1> HIDE DEF y
  <1>7. Num(y) = Num(x)
    BY <1>6 DEF Num
  <1>8. /\ \A n \in 1 .. Num(x) : x.keys[n] \in KeysIn[h][y]
        /\ \A n \in 1 .. Num(x) + 1 : KeysIn[h - 1][cs[n]] \subseteq KeysIn[h][y]
    BY <1>5, <1>6, <1>7, Reaches
  <1>9. KeysIn[h - 1][c] \subseteq KeysIn[h][y]
    BY <1>1, <1>3, <1>4, <1>8
  <1>10. ASSUME NEW E, KeysIn[h - 1][x.kids[j]] \subseteq KeysIn[h - 1][c] \cup E
         PROVE  KeysIn[h][x] \subseteq KeysIn[h][y] \cup E
    <2> DEFINE K == KeysIn[h][y] \cup E
    <2>1. \A n \in 1 .. Num(x) : x.keys[n] \in K
      BY <1>8
    <2>2. ASSUME NEW n \in 1 .. Num(x) + 1 PROVE KeysIn[h - 1][x.kids[n]] \subseteq K
      BY <1>1, <1>4, <1>8, <1>9, <1>10
    <2> HIDE DEF K
    <2>3. KeysIn[h][x] \subseteq K
      BY <2>1, <2>2, Within
    <2> QED
      BY <2>3 DEF K
  <1> QED
    BY <1>5, <1>7, <1>8, <1>9, <1>10 DEF y

\* What a call of btree_insert_nonfull leaves behind: a node with the keys of
\* x and k, whose children are subtrees.
Inserts(h, x, k) ==
  LET y == btree_insert_nonfull[h][x][k]
  IN /\ y \in NodesAt(h) /\ Num(y) >= Num(x) /\ KeysIn[h][x] \cup {k} \subseteq KeysIn[h][y]

\* Lines 93-116: on a node with room, of any height and degree,
\* btree_insert_nonfull returns a node of the same height with k and every key
\* there was, all of whose subtrees have between t - 1 and 2t - 1 keys.
THEOREM InsertNonfull ==
  \A h \in Nat : \A x \in NodesAt(h) : \A k \in KeyValues : Num(x) < 2 * t - 1 => Inserts(h, x, k)
  <1> DEFINE Good == {h \in Nat : \A x \in NodesAt(h) : \A k \in KeyValues : Num(x) < 2 * t - 1 => Inserts(h, x, k)}
  <1>1. ASSUME NEW h \in Nat, NEW x \in NodesAt(h), NEW k \in KeyValues
        PROVE  btree_insert_nonfull[h][x][k] = Inserted(btree_insert_nonfull[h - 1], x, k)
    <2>1. x \in Trees[h]
      BY NodesAreTrees
    <2>2. btree_insert_nonfull[h] = InsertRow(btree_insert_nonfull[h - 1], h)
      BY InsertDef
    <2> QED
      BY <2>1, <2>2 DEF InsertRow
  <1>2. 0 \in Good
    <2> SUFFICES ASSUME NEW x \in NodesAt(0), NEW k \in KeyValues, Num(x) < 2 * t - 1 PROVE Inserts(0, x, k)
      OBVIOUS
    <2> DEFINE i  == InsertPosition(x, k)
               ks == InsertAt(x.keys, i, k)
               y  == btree_insert_nonfull[0][x][k]
    <2>1. /\ x = [keys |-> x.keys, kids |-> x.kids] /\ x.keys \in Seq(KeyValues) /\ x.kids \in Seq(Below(0))
          /\ Num(x) \in Nat /\ Num(x) = Len(x.keys) /\ Leaf(x) /\ Len(x.kids) = Children(0, x.keys)
      BY IsNode
    <2>2. y = [keys |-> ks, kids |-> x.kids]
      <3>1. y = [x EXCEPT !.keys = ks]
        <4>1. y = Inserted(btree_insert_nonfull[0 - 1], x, k)
          BY <1>1
        <4> HIDE DEF y
        <4> QED
          BY <2>1, <4>1 DEF Inserted
      <3> HIDE DEF ks, y
      <3> QED
        BY <2>1, <3>1
    <2>3. i \in 1 .. Len(x.keys) + 1
      BY <2>1, InsertPlace
    <2> HIDE DEF i
    <2>4. ks \in Seq(KeyValues) /\ Len(ks) = Len(x.keys) + 1 /\ ToSet(x.keys) \cup {k} \subseteq ToSet(ks)
      BY <2>1, <2>3, Inserting
    <2> HIDE DEF ks, y
    <2>5. y \in NodesAt(0)
      <3>1. Len(ks) <= 2 * t - 1 /\ Len(x.kids) = Children(0, ks)
        BY <2>1, <2>4, DegreeFacts DEF Children
      <3> QED
        BY <2>1, <2>2, <2>4, <3>1, NewNode
    <2>6. y.keys = ks /\ Num(y) = Len(ks)
      BY <2>2 DEF Num
    <2>7. ToSet(ks) \subseteq KeysIn[0][y]
      BY <2>5, <2>6, Reaches
    <2>8. KeysIn[0][x] \subseteq KeysIn[0][y]
      <3>1. \A n \in 1 .. Num(x) : x.keys[n] \in KeysIn[0][y]
        BY <2>1, <2>4, <2>7, Elements
      <3> QED
        BY <3>1, Within
    <2> QED
      BY <2>1, <2>4, <2>5, <2>6, <2>7, <2>8 DEF Inserts, y
  <1>3. ASSUME NEW g \in Nat, g \in Good PROVE g + 1 \in Good
    <2> DEFINE h == g + 1
    <2> SUFFICES ASSUME NEW x \in NodesAt(h), NEW k \in KeyValues, Num(x) < 2 * t - 1 PROVE Inserts(h, x, k)
      OBVIOUS
    <2>1. h \in Nat /\ h > 0 /\ h - 1 = g
      OBVIOUS
    <2> HIDE DEF h
    <2> DEFINE r == MakeRoom(x, k)
               c == r.node.kids[r.at]
               d == btree_insert_nonfull[g][c][k]
               y == btree_insert_nonfull[h][x][k]
    <2>2. ~Leaf(x) /\ Num(x) \in Nat
      BY <2>1, IsNode
    <2>3. y = [r.node EXCEPT !.kids[r.at] = d]
      <3> DEFINE f == btree_insert_nonfull[g]
      <3>1. y = Inserted(f, x, k)
        BY <1>1, <2>1
      <3>2. Inserted(f, x, k) = [r.node EXCEPT !.kids[r.at] = f[c][k]]
        <4> HIDE DEF f
        <4> QED
          BY <2>2 DEF Inserted
      <3> QED
        BY <3>1, <3>2
    <2>4. /\ r.node \in NodesAt(h) /\ Num(r.node) >= Num(x) /\ r.at \in 1 .. Num(r.node) + 1
          /\ Num(c) < 2 * t - 1
          /\ KeysIn[h][x] \subseteq KeysIn[h][r.node]
      BY <2>1, MakesRoom
    <2> HIDE DEF r
    <2>5. c \in Subtrees[g]
      BY <2>1, <2>4, IsNode
    <2>6. c \in NodesAt(g) /\ Num(c) >= t - 1
      BY <2>5, IsSubtree
    <2>7. Inserts(g, c, k) /\ Num(c) \in Nat
      BY <1>3, <2>4, <2>6, IsNode
    <2> HIDE DEF c
    <2>8. d \in NodesAt(g) /\ Num(d) >= Num(c) /\ KeysIn[g][c] \cup {k} \subseteq KeysIn[g][d]
      BY <2>7 DEF Inserts
    <2> HIDE DEF d
    <2>9. d \in Subtrees[g]
      <3>1. Num(d) \in Nat
        BY <2>8, IsNode
      <3> QED
        BY <2>6, <2>7, <2>8, <3>1, IsSubtree, DegreeFacts
    <2> DEFINE a == r.node
               j == r.at
               z == [a EXCEPT !.kids[j] = d]
    <2>10. a \in NodesAt(h) /\ j \in 1 .. Num(a) + 1 /\ d \in Subtrees[h - 1]
      BY <2>1, <2>4, <2>9
    <2>11. z = y /\ a.kids[j] = c
      BY <2>3 DEF c
    <2> HIDE DEF a, j
    <2>12. /\ z \in NodesAt(h) /\ Num(z) = Num(a)
           /\ KeysIn[h - 1][d] \subseteq KeysIn[h][z]
           /\ \A E : KeysIn[h - 1][a.kids[j]] \subseteq KeysIn[h - 1][d] \cup E
                       => KeysIn[h][a] \subseteq KeysIn[h][z] \cup E
      BY ONLY <2>1, <2>10, Plugged
    <2> HIDE DEF z, y
    <2>13. KeysIn[h][a] \subseteq KeysIn[h][z]
      <3>1. KeysIn[h - 1][a.kids[j]] \subseteq KeysIn[h - 1][d] \cup {}
        BY <2>1, <2>8, <2>11
      <3>2. KeysIn[h][a] \subseteq KeysIn[h][z] \cup {}
        BY <2>12, <3>1
      <3> QED
        BY <3>2
    <2>14. Num(a) \in Nat /\ Num(a) >= Num(x)
      BY <2>4, <2>10, <2>1, IsNode DEF a
    <2>15. k \in KeysIn[h][z] /\ KeysIn[h][x] \subseteq KeysIn[h][z]
      BY <2>1, <2>4, <2>8, <2>12, <2>13 DEF a
    <2> QED
      BY <2>11, <2>12, <2>14, <2>15 DEF Inserts, y
  <1> HIDE DEF Good
  <1>4. \A h \in Nat : h \in Good
    BY <1>2, <1>3, FromZero
  <1> QED
    BY <1>4 DEF Good
-----------------------------------------------------------------------------
(* Deletion *)

\* A subtree of height h - 1 below a node of height h.
LEMMA Child ==
  ASSUME NEW h \in Nat, h > 0, NEW x \in NodesAt(h), NEW i \in 1 .. Num(x) + 1
  PROVE  /\ x.kids[i] \in NodesAt(h - 1) /\ x.kids[i] \in Subtrees[h - 1] /\ h - 1 \in Nat
         /\ Num(x.kids[i]) \in t - 1 .. 2 * t - 1
  <1>1. x.kids[i] \in Subtrees[h - 1] /\ h - 1 \in Nat
    BY IsNode
  <1>2. x.kids[i] \in NodesAt(h - 1) /\ Num(x.kids[i]) >= t - 1
    BY <1>1, IsSubtree
  <1>3. Num(x.kids[i]) \in Nat /\ Num(x.kids[i]) <= 2 * t - 1
    BY <1>1, <1>2, IsNode
  <1> QED
    BY <1>1, <1>2, <1>3, DegreeFacts

\* Two nodes and a key between them as one node.
LEMMA Glued ==
  ASSUME NEW g \in Nat, NEW l \in NodesAt(g), NEW r \in NodesAt(g), NEW e \in KeyValues,
         Num(l) + Num(r) + 1 <= 2 * t - 1
  PROVE  LET b == [keys |-> l.keys \o <<e>> \o r.keys, kids |-> l.kids \o r.kids]
         IN /\ b \in NodesAt(g) /\ Num(b) = Num(l) + Num(r) + 1
            /\ KeysIn[g][l] \cup KeysIn[g][r] \cup {e} \subseteq KeysIn[g][b]
  <1> DEFINE u  == <<e>>
             lu == Cat(l.keys, u)
             ks == Cat(lu, r.keys)
             cs == Cat(l.kids, r.kids)
             b  == [keys |-> l.keys \o <<e>> \o r.keys, kids |-> l.kids \o r.kids]
  <1>1. b = [keys |-> ks, kids |-> cs]
    BY DEF Cat
  <1>2. /\ l.keys \in Seq(KeyValues) /\ l.kids \in Seq(Below(g)) /\ Num(l) \in Nat /\ Num(l) = Len(l.keys)
        /\ Len(l.kids) = Children(g, l.keys)
    BY IsNode
  <1>3. /\ r.keys \in Seq(KeyValues) /\ r.kids \in Seq(Below(g)) /\ Num(r) \in Nat /\ Num(r) = Len(r.keys)
        /\ Len(r.kids) = Children(g, r.keys)
    BY IsNode
  <1>4. u \in Seq(KeyValues) /\ Len(u) = 1 /\ ToSet(u) = {e}
    BY One
  <1> HIDE DEF u
  <1>5. IsJoin(KeyValues, l.keys, u, lu)
    BY <1>2, <1>4, Joined
  <1> HIDE DEF lu
  <1>6. lu \in Seq(KeyValues) /\ Len(lu) = Len(l.keys) + Len(u) /\ ToSet(lu) = ToSet(l.keys) \cup {e}
    BY <1>4, <1>5 DEF IsJoin
  <1>7. IsJoin(KeyValues, lu, r.keys, ks)
    BY <1>3, <1>6, Joined
  <1> HIDE DEF ks
  <1>8. /\ ks \in Seq(KeyValues) /\ Len(ks) = Len(lu) + Len(r.keys)
        /\ ToSet(ks) = ToSet(l.keys) \cup {e} \cup ToSet(r.keys)
    BY <1>6, <1>7 DEF IsJoin
  <1>9. Len(ks) = Num(l) + Num(r) + 1
    <2>1. Len(ks) = Len(lu) + Num(r)
      BY <1>3, <1>8
    <2>2. Len(lu) = Num(l) + 1
      BY <1>2, <1>4, <1>6
    <2>3. Num(l) \in Nat /\ Num(r) \in Nat
      BY <1>2, <1>3
    <2> HIDE DEF cs, b
    <2>4. \A p, q, v, w : p = q + w /\ q = v + 1 /\ v \in Nat /\ w \in Nat => p = v + w + 1
      OBVIOUS
    <2> QED
      BY ONLY <2>1, <2>2, <2>3, <2>4
  <1>10. IsJoin(Below(g), l.kids, r.kids, cs)
    BY <1>2, <1>3, Joined
  <1> HIDE DEF cs
  <1>11. cs \in Seq(Below(g)) /\ Len(cs) = Len(l.kids) + Len(r.kids) /\ ToSet(cs) = ToSet(l.kids) \cup ToSet(r.kids)
    BY <1>10 DEF IsJoin
  <1>12. Len(cs) = Children(g, ks)
    <2>1. /\ Len(cs) = Len(l.kids) + Len(r.kids) /\ Len(l.kids) = Children(g, l.keys)
          /\ Len(r.kids) = Children(g, r.keys) /\ Len(ks) = Len(l.keys) + Len(r.keys) + 1
          /\ Len(l.keys) \in Nat /\ Len(r.keys) \in Nat
      BY <1>2, <1>3, <1>9, <1>11
    <2>2. CASE g = 0
      BY ONLY <2>1, <2>2 DEF Children
    <2>3. CASE g # 0
      <3>1. /\ Children(g, l.keys) = Len(l.keys) + 1 /\ Children(g, r.keys) = Len(r.keys) + 1
            /\ Children(g, ks) = Len(ks) + 1
        BY <2>3 DEF Children
      <3>2. \A p, q, v, w : p = q + w + 1 /\ q \in Nat /\ w \in Nat /\ v = (q + 1) + (w + 1) => v = p + 1
        OBVIOUS
      <3>3. Len(cs) = (Len(l.keys) + 1) + (Len(r.keys) + 1)
        BY <2>1, <3>1
      <3> QED
        BY ONLY <2>1, <3>1, <3>2, <3>3, ZenonT(30)
    <2> QED
      BY <2>2, <2>3
  <1>13. b \in NodesAt(g)
    BY <1>1, <1>8, <1>9, <1>11, <1>12, NewNode
  <1>14. b.keys = ks /\ b.kids = cs
    BY <1>1
  <1> HIDE DEF b
  <1>15. Num(b) = Num(l) + Num(r) + 1
    BY <1>9, <1>14 DEF Num
  <1> DEFINE K == KeysIn[g][b]
  <1>16. ToSet(ks) \subseteq K /\ \A c \in ToSet(cs) : KeysBelow(g, c) \subseteq K
    BY <1>13, <1>14, Reaches
  <1> HIDE DEF K
  <1>17. ASSUME NEW y \in NodesAt(g), ToSet(y.keys) \subseteq ToSet(ks), ToSet(y.kids) \subseteq ToSet(cs)
         PROVE  KeysIn[g][y] \subseteq K
    <2>1. /\ y.keys \in Seq(KeyValues) /\ y.kids \in Seq(Below(g)) /\ Num(y) = Len(y.keys)
          /\ g > 0 => Len(y.kids) = Num(y) + 1
      BY IsNode
    <2>2. \A n \in 1 .. Num(y) : y.keys[n] \in K
      BY <1>16, <1>17, <2>1, Elements
    <2>3. ASSUME g > 0, NEW n \in 1 .. Num(y) + 1 PROVE KeysIn[g - 1][y.kids[n]] \subseteq K
      <3>1. y.kids[n] \in ToSet(y.kids)
        BY <2>1, <2>3, Elements
      <3>2. KeysBelow(g, y.kids[n]) = KeysIn[g - 1][y.kids[n]]
        BY <2>3 DEF KeysBelow
      <3> QED
        BY <1>16, <1>17, <3>1, <3>2
    <2> QED
      BY <2>2, <2>3, Within
  <1>18. KeysIn[g][l] \subseteq K /\ KeysIn[g][r] \subseteq K /\ e \in K
    BY <1>8, <1>11, <1>16, <1>17
  <1> QED
    BY <1>13, <1>15, <1>18 DEF b, K

\* Two poor siblings become one full node, and no key is gone.
LEMMA Merged ==
  ASSUME NEW h \in Nat, h > 0, NEW x \in NodesAt(h), NEW i \in 1 .. Num(x),
         Num(x.kids[i]) = t - 1, Num(x.kids[i + 1]) = t - 1
  PROVE  LET s == btree_merge(x, i)
         IN /\ s \in NodesAt(h) /\ Num(s) = Num(x) - 1 /\ Num(s.kids[i]) = 2 * t - 1
            /\ KeysIn[h][x] \subseteq KeysIn[h][s]
  <1> DEFINE l  == x.kids[i]
             r  == x.kids[i + 1]
             e  == x.keys[i]
             b  == [keys |-> l.keys \o <<e>> \o r.keys, kids |-> l.kids \o r.kids]
             u  == <<b>>
             ks == RemoveAt(x.keys, i)
             cs == Spliced(x.kids, i, u, i + 2)
             s  == btree_merge(x, i)
  <1>1. s = [keys |-> ks, kids |-> cs]
    BY DEF btree_merge, Spliced
  <1>2. /\ x.keys \in Seq(KeyValues) /\ x.kids \in Seq(Below(h)) /\ Num(x) \in Nat /\ Num(x) = Len(x.keys)
        /\ Len(x.kids) = Num(x) + 1 /\ Num(x) <= 2 * t - 1
    BY IsNode
  <1>3. i \in 1 .. Num(x) + 1 /\ i + 1 \in 1 .. Num(x) + 1
    BY <1>2
  <1>4. /\ l \in NodesAt(h - 1) /\ r \in NodesAt(h - 1) /\ h - 1 \in Nat
        /\ Num(l) = t - 1 /\ Num(r) = t - 1 /\ e \in KeyValues
    BY <1>2, <1>3, Child, Elements
  <1> HIDE DEF l, r, e
  <1>5. Num(l) + Num(r) + 1 <= 2 * t - 1 /\ Num(l) + Num(r) + 1 = 2 * t - 1
    BY <1>4, DegreeFacts
  <1>6. /\ b \in NodesAt(h - 1) /\ Num(b) = 2 * t - 1
        /\ KeysIn[h - 1][l] \cup KeysIn[h - 1][r] \cup {e} \subseteq KeysIn[h - 1][b]
    BY <1>4, <1>5, Glued
  <1> HIDE DEF b
  <1>7. b \in Below(h)
    <2>1. b \in Subtrees[h - 1]
      BY <1>4, <1>6, IsSubtree, DegreeFacts
    <2> QED
      BY <2>1 DEF Below
  <1>8. u \in Seq(Below(h)) /\ Len(u) = 1 /\ u[1] = b
    BY <1>7, One
  <1> HIDE DEF u
  <1>9. ks \in Seq(KeyValues) /\ Len(ks) = Len(x.keys) - 1 /\ ToSet(x.keys) \subseteq ToSet(ks) \cup {e}
    BY <1>2, Removing DEF e
  <1> HIDE DEF ks
  <1>10. i \in 1 .. Len(x.kids) + 1 /\ i + 2 \in i .. Len(x.kids) + 1 /\ i \in Int
    BY <1>2
  <1>11. IsSplice(Below(h), x.kids, i, u, i + 2, cs)
    BY ONLY <1>2, <1>8, <1>10, Splice
  <1> HIDE DEF cs
  <1>12. /\ cs \in Seq(Below(h)) /\ Len(cs) = Num(x) /\ cs[i] = b /\ b \in ToSet(cs)
         /\ \A n \in 1 .. Num(x) + 1 : n # i /\ n # i + 1 => x.kids[n] \in ToSet(cs)
    <2>1. /\ cs \in Seq(Below(h)) /\ Len(cs) = Len(x.kids) + Len(u) - ((i + 2) - i)
          /\ \A n \in 1 .. Len(u) : cs[i - 1 + n] = u[n]
          /\ \A n \in 1 .. Len(x.kids) : n \notin i .. (i + 2) - 1 => x.kids[n] \in ToSet(cs)
      BY <1>11 DEF IsSplice
    <2>2. cs[i - 1 + 1] = b
      BY <1>8, <2>1
    <2>3. cs[i] = b /\ Len(cs) = Num(x) /\ i \in 1 .. Len(cs)
      BY <1>2, <1>8, <1>10, <2>1, <2>2
    <2>4. b \in ToSet(cs)
      BY <2>1, <2>3, Elements
    <2>5. \A n \in 1 .. Num(x) + 1 : n # i /\ n # i + 1 => x.kids[n] \in ToSet(cs)
      BY <1>2, <1>10, <2>1
    <2> QED
      BY <2>1, <2>3, <2>4, <2>5
  <1>13. s \in NodesAt(h)
    <2>1. Len(ks) <= 2 * t - 1 /\ Len(cs) = Children(h, ks)
      BY <1>2, <1>9, <1>12, DegreeFacts DEF Children
    <2> QED
      BY <1>1, <1>9, <1>12, <2>1, NewNode
  <1>14. s.keys = ks /\ s.kids = cs
    BY <1>1
  <1> HIDE DEF s
  <1>15. Num(s) = Num(x) - 1 /\ Num(s.kids[i]) = 2 * t - 1
    BY <1>2, <1>6, <1>9, <1>12, <1>14 DEF Num
  <1> DEFINE K == KeysIn[h][s]
  <1>16. ToSet(ks) \subseteq K /\ \A c \in ToSet(cs) : KeysIn[h - 1][c] \subseteq K
    <2>1. \A c : KeysBelow(h, c) = KeysIn[h - 1][c]
      BY DEF KeysBelow
    <2> QED
      BY <1>13, <1>14, <2>1, Reaches
  <1> HIDE DEF K
  <1>17. KeysIn[h - 1][l] \subseteq K /\ KeysIn[h - 1][r] \subseteq K /\ e \in K
    BY <1>6, <1>12, <1>16
  <1>18. ASSUME NEW n \in 1 .. Num(x) PROVE x.keys[n] \in K
    <2>1. x.keys[n] \in ToSet(x.keys)
      BY <1>2, Elements
    <2> QED
      BY <1>9, <1>16, <1>17, <2>1
  <1>19. \A n \in 1 .. Num(x) + 1 : KeysIn[h - 1][x.kids[n]] \subseteq K
    BY <1>12, <1>16, <1>17 DEF l, r
  <1>20. KeysIn[h][x] \subseteq K
    BY <1>18, <1>19, Within
  <1> QED
    BY <1>13, <1>15, <1>20 DEF s, K

\* A key of x and two of its children are replaced.
Swapped(x, m, e, i, c, j, d) ==
  [keys |-> [x.keys EXCEPT ![m] = e], kids |-> [x.kids EXCEPT ![i] = c, ![j] = d]]

\* If the new children and the new key together have what the old ones had, no
\* key is gone.
LEMMA Swap ==
  ASSUME NEW h \in Nat, h > 0, NEW x \in NodesAt(h), NEW m \in 1 .. Num(x), NEW e \in KeyValues,
         NEW i \in 1 .. Num(x) + 1, NEW j \in 1 .. Num(x) + 1, i # j,
         NEW c \in Subtrees[h - 1], NEW d \in Subtrees[h - 1],
         KeysIn[h - 1][x.kids[i]] \cup KeysIn[h - 1][x.kids[j]] \cup {x.keys[m]}
           \subseteq KeysIn[h - 1][c] \cup KeysIn[h - 1][d] \cup {e}
  PROVE  LET y == Swapped(x, m, e, i, c, j, d)
         IN /\ y \in NodesAt(h) /\ Num(y) = Num(x) /\ y.kids[i] = c
            /\ KeysIn[h][x] \subseteq KeysIn[h][y]
  <1> DEFINE y  == Swapped(x, m, e, i, c, j, d)
             ks == [x.keys EXCEPT ![m] = e]
             c1 == [x.kids EXCEPT ![i] = c]
             cs == [c1 EXCEPT ![j] = d]
  <1>1. y = [keys |-> ks, kids |-> cs]
    BY DEF Swapped
  <1>2. /\ x.keys \in Seq(KeyValues) /\ x.kids \in Seq(Below(h)) /\ Num(x) \in Nat /\ Num(x) = Len(x.keys)
        /\ Len(x.kids) = Num(x) + 1 /\ Num(x) <= 2 * t - 1
    BY IsNode
  <1>3. /\ ks \in Seq(KeyValues) /\ Len(ks) = Len(x.keys) /\ ks[m] = e
        /\ \A n \in 1 .. Len(x.keys) : n # m => ks[n] = x.keys[n]
    BY <1>2, Put
  <1> HIDE DEF ks
  <1>4. c \in Below(h) /\ d \in Below(h) /\ i \in 1 .. Len(x.kids) /\ j \in 1 .. Len(x.kids)
    BY <1>2 DEF Below
  <1>5. /\ c1 \in Seq(Below(h)) /\ Len(c1) = Len(x.kids) /\ c1[i] = c
        /\ \A n \in 1 .. Len(x.kids) : n # i => c1[n] = x.kids[n]
    BY <1>2, <1>4, Put
  <1> HIDE DEF c1
  <1>6. /\ cs \in Seq(Below(h)) /\ Len(cs) = Len(c1) /\ cs[j] = d
        /\ \A n \in 1 .. Len(c1) : n # j => cs[n] = c1[n]
    <2>1. j \in 1 .. Len(c1)
      BY <1>4, <1>5
    <2> QED
      BY <1>4, <1>5, <2>1, Put
  <1> HIDE DEF cs
  <1>7. /\ Len(cs) = Len(x.kids) /\ cs[i] = c /\ cs[j] = d
        /\ \A n \in 1 .. Len(x.kids) : n # i /\ n # j => cs[n] = x.kids[n]
    BY <1>4, <1>5, <1>6
  <1>8. y \in NodesAt(h)
    <2>1. Len(ks) <= 2 * t - 1 /\ Len(cs) = Children(h, ks)
      BY <1>2, <1>3, <1>7 DEF Children
    <2> QED
      BY <1>1, <1>3, <1>6, <2>1, NewNode
  <1>9. y.keys = ks /\ y.kids = cs
    BY <1>1
  <1> HIDE DEF y
  <1>10. Num(y) = Num(x)
    BY <1>2, <1>3, <1>9 DEF Num
  <1> DEFINE K == KeysIn[h][y]
  <1>11. /\ \A n \in 1 .. Num(x) : ks[n] \in K
         /\ \A n \in 1 .. Num(x) + 1 : KeysIn[h - 1][cs[n]] \subseteq K
    BY <1>8, <1>9, <1>10, Reaches
  <1> HIDE DEF K
  <1>12. KeysIn[h - 1][c] \subseteq K /\ KeysIn[h - 1][d] \subseteq K /\ e \in K
    BY <1>3, <1>7, <1>11
  <1>13. \A n \in 1 .. Num(x) : x.keys[n] \in K
    BY <1>2, <1>3, <1>11, <1>12
  <1>14. \A n \in 1 .. Num(x) + 1 : KeysIn[h - 1][x.kids[n]] \subseteq K
    BY <1>2, <1>7, <1>11, <1>12, ZenonT(30)
  <1>15. KeysIn[h][x] \subseteq K
    BY <1>13, <1>14, Within
  <1> QED
    BY <1>7, <1>8, <1>9, <1>10, <1>15 DEF y, K
-----------------------------------------------------------------------------
(* Rotations *)

\* A node with one key e and, if it is not a leaf, one child c more or less.
IsLonger(g, y, e, c, z) ==
  /\ z \in NodesAt(g) /\ Num(z) = Num(y) + 1
  /\ KeysIn[g][y] \cup {e} \cup KeysBelow(g, c) \subseteq KeysIn[g][z]

\* The same in the other direction.
IsShorter(g, y, e, c, z) ==
  /\ z \in NodesAt(g) /\ Num(z) = Num(y) - 1
  /\ KeysIn[g][y] \subseteq KeysIn[g][z] \cup {e} \cup KeysBelow(g, c)

\* What a node keeps of another one's keys.
LEMMA Kept ==
  ASSUME NEW g \in Nat, NEW y \in NodesAt(g), NEW z \in NodesAt(g), NEW e, NEW c,
         ToSet(y.keys) \subseteq ToSet(z.keys) \cup {e}, ToSet(y.kids) \subseteq ToSet(z.kids) \cup {c}
  PROVE  KeysIn[g][y] \subseteq KeysIn[g][z] \cup {e} \cup KeysBelow(g, c)
  <1> SUFFICES ASSUME NEW k \in KeysIn[g][y] PROVE k \in KeysIn[g][z] \cup {e} \cup KeysBelow(g, c)
    OBVIOUS
  <1>1. y \in Trees[g]
    BY NodesAreTrees
  <1>2. k \in ToSet(y.keys) \/ \E b \in ToSet(y.kids) : k \in KeysBelow(g, b)
    BY <1>1, KeysAre
  <1>3. ToSet(z.keys) \subseteq KeysIn[g][z] /\ \A b \in ToSet(z.kids) : KeysBelow(g, b) \subseteq KeysIn[g][z]
    BY Reaches
  <1> QED
    BY <1>2, <1>3

\* Sequences of keys and children that are longer by e and c make such a node.
LEMMA Longer ==
  ASSUME NEW g \in Nat, NEW y \in NodesAt(g), Num(y) < 2 * t - 1, NEW e \in KeyValues, NEW c,
         NEW ks \in Seq(KeyValues), Len(ks) = Num(y) + 1, ToSet(ks) = ToSet(y.keys) \cup {e},
         NEW cs \in Seq(Below(g)), Len(cs) = Children(g, ks),
         g > 0 => ToSet(cs) = ToSet(y.kids) \cup {c}
  PROVE  IsLonger(g, y, e, c, [keys |-> ks, kids |-> cs])
  <1> DEFINE z == [keys |-> ks, kids |-> cs]
  <1>1. /\ y.keys \in Seq(KeyValues) /\ y.kids \in Seq(Below(g)) /\ Num(y) \in Nat
        /\ Len(y.kids) = Children(g, y.keys)
    BY IsNode
  <1>2. Len(ks) <= 2 * t - 1
    BY <1>1, DegreeFacts
  <1>3. z \in NodesAt(g)
    BY <1>2, NewNode
  <1>4. z.keys = ks /\ z.kids = cs
    OBVIOUS
  <1> HIDE DEF z
  <1>5. Num(z) = Num(y) + 1
    BY <1>4 DEF Num
  <1>6. ToSet(z.keys) \subseteq KeysIn[g][z] /\ \A b \in ToSet(z.kids) : KeysBelow(g, b) \subseteq KeysIn[g][z]
    BY <1>3, Reaches
  <1>7. ToSet(y.kids) \subseteq ToSet(cs) /\ KeysBelow(g, c) \subseteq KeysIn[g][z]
    <2>1. CASE g = 0
      <3>1. Len(y.kids) = 0 /\ KeysBelow(g, c) = {}
        BY <1>1, <2>1 DEF Children, KeysBelow
      <3>2. ToSet(y.kids) = {}
        BY <1>1, <3>1, Elements
      <3> QED
        BY <3>1, <3>2
    <2>2. CASE g > 0
      <3>1. ToSet(cs) = ToSet(y.kids) \cup {c}
        BY <2>2
      <3> QED
        BY <1>4, <1>6, <3>1
    <2> QED
      BY <2>1, <2>2
  <1>8. e \in KeysIn[g][z]
    BY <1>4, <1>6
  <1>9. KeysIn[g][y] \subseteq KeysIn[g][z] \cup {e} \cup KeysBelow(g, c)
    <2>1. ToSet(y.keys) \subseteq ToSet(z.keys) \cup {e} /\ ToSet(y.kids) \subseteq ToSet(z.kids) \cup {c}
      BY <1>4, <1>7
    <2> QED
      BY ONLY <1>3, <2>1, Kept, g \in Nat, y \in NodesAt(g)
  <1> QED
    BY <1>3, <1>5, <1>7, <1>8, <1>9 DEF IsLonger, z

\* And so do shorter ones.
LEMMA Shorter ==
  ASSUME NEW g \in Nat, NEW y \in NodesAt(g), NEW e, NEW c,
         NEW ks \in Seq(KeyValues), Len(ks) = Num(y) - 1, ToSet(y.keys) \subseteq ToSet(ks) \cup {e},
         NEW cs \in Seq(Below(g)), Len(cs) = Children(g, ks),
         g > 0 => ToSet(y.kids) \subseteq ToSet(cs) \cup {c}
  PROVE  IsShorter(g, y, e, c, [keys |-> ks, kids |-> cs])
  <1> DEFINE z == [keys |-> ks, kids |-> cs]
  <1>1. /\ y.keys \in Seq(KeyValues) /\ y.kids \in Seq(Below(g)) /\ Num(y) \in Nat /\ Num(y) <= 2 * t - 1
        /\ Len(y.kids) = Children(g, y.keys)
    BY IsNode
  <1>2. Len(ks) <= 2 * t - 1
    BY <1>1, DegreeFacts
  <1>3. z \in NodesAt(g)
    BY <1>2, NewNode
  <1>4. z.keys = ks /\ z.kids = cs
    OBVIOUS
  <1> HIDE DEF z
  <1>5. Num(z) = Num(y) - 1
    BY <1>4 DEF Num
  <1>6. ToSet(y.kids) \subseteq ToSet(cs) \cup {c}
    <2>1. CASE g = 0
      <3>1. Len(y.kids) = 0
        BY <1>1, <2>1 DEF Children
      <3>2. ToSet(y.kids) = {}
        BY <1>1, <3>1, Elements
      <3> QED
        BY <3>2
    <2>2. CASE g > 0
      BY <2>2
    <2> QED
      BY <2>1, <2>2
  <1>7. KeysIn[g][y] \subseteq KeysIn[g][z] \cup {e} \cup KeysBelow(g, c)
    <2>1. ToSet(y.keys) \subseteq ToSet(z.keys) \cup {e} /\ ToSet(y.kids) \subseteq ToSet(z.kids) \cup {c}
      BY <1>4, <1>6
    <2> QED
      BY ONLY <1>3, <2>1, Kept, g \in Nat, y \in NodesAt(g)
  <1> QED
    BY <1>3, <1>5, <1>7 DEF IsShorter, z

\* A key and a child taken from the front or the back of w.
LEMMA Donor ==
  ASSUME NEW g \in Nat, NEW w \in NodesAt(g), Num(w) > 0
  PROVE  /\ Head(w.keys) \in KeyValues /\ Last(w.keys) \in KeyValues
         /\ Head(w.keys) \in ToSet(w.keys) /\ Last(w.keys) \in ToSet(w.keys)
         /\ g > 0 => Head(w.kids) \in Below(g) /\ Last(w.kids) \in Below(g)
         /\ IsShorter(g, w, Head(w.keys), Head(w.kids),
              [keys |-> Tail(w.keys), kids |-> IF Leaf(w) THEN << >> ELSE Tail(w.kids)])
         /\ IsShorter(g, w, Last(w.keys), Last(w.kids),
              [keys |-> Front(w.keys), kids |-> IF Leaf(w) THEN << >> ELSE Front(w.kids)])
  <1> DEFINE tk == Tail(w.keys)
             fk == Front(w.keys)
             tc == IF Leaf(w) THEN << >> ELSE Tail(w.kids)
             fc == IF Leaf(w) THEN << >> ELSE Front(w.kids)
  <1>1. /\ w.keys \in Seq(KeyValues) /\ w.kids \in Seq(Below(g)) /\ Num(w) \in Nat /\ Num(w) = Len(w.keys)
        /\ (Leaf(w) <=> g = 0) /\ (g > 0 => Len(w.kids) = Num(w) + 1)
    BY IsNode
  <1>2. /\ Head(w.keys) \in KeyValues /\ tk \in Seq(KeyValues) /\ Len(tk) = Num(w) - 1
        /\ ToSet(w.keys) \subseteq ToSet(tk) \cup {Head(w.keys)}
        /\ Last(w.keys) \in KeyValues /\ fk \in Seq(KeyValues) /\ Len(fk) = Num(w) - 1
        /\ ToSet(w.keys) \subseteq ToSet(fk) \cup {Last(w.keys)}
        /\ Head(w.keys) = w.keys[1] /\ Last(w.keys) = w.keys[Len(w.keys)]
    BY <1>1, Ends
  <1>3. Head(w.keys) \in ToSet(w.keys) /\ Last(w.keys) \in ToSet(w.keys)
    <2>1. 1 \in 1 .. Len(w.keys) /\ Len(w.keys) \in 1 .. Len(w.keys)
      BY <1>1
    <2> QED
      BY <1>1, <1>2, <2>1, Elements
  <1> HIDE DEF tk, fk
  <1>4. /\ tc \in Seq(Below(g)) /\ Len(tc) = Children(g, tk)
        /\ fc \in Seq(Below(g)) /\ Len(fc) = Children(g, fk)
        /\ g > 0 => /\ Head(w.kids) \in Below(g) /\ ToSet(w.kids) \subseteq ToSet(tc) \cup {Head(w.kids)}
                    /\ Last(w.kids) \in Below(g) /\ ToSet(w.kids) \subseteq ToSet(fc) \cup {Last(w.kids)}
    <2>1. CASE g = 0
      <3>1. tc = << >> /\ fc = << >>
        BY <1>1, <2>1
      <3> HIDE DEF tc, fc
      <3> QED
        BY <2>1, <3>1, EmptySeq DEF Children
    <2>2. CASE g > 0
      <3>1. tc = Tail(w.kids) /\ fc = Front(w.kids) /\ Len(w.kids) > 0 /\ Len(w.kids) = Num(w) + 1
        BY <1>1, <2>2
      <3> HIDE DEF tc, fc
      <3>2. /\ Head(w.kids) \in Below(g) /\ tc \in Seq(Below(g)) /\ Len(tc) = Len(w.kids) - 1
            /\ ToSet(w.kids) \subseteq ToSet(tc) \cup {Head(w.kids)}
            /\ Last(w.kids) \in Below(g) /\ fc \in Seq(Below(g)) /\ Len(fc) = Len(w.kids) - 1
            /\ ToSet(w.kids) \subseteq ToSet(fc) \cup {Last(w.kids)}
        BY <1>1, <3>1, Ends
      <3>3. Len(tc) = Num(w) /\ Len(fc) = Num(w) /\ Len(tk) + 1 = Num(w) /\ Len(fk) + 1 = Num(w)
        BY <1>1, <1>2, <3>1, <3>2
      <3>4. Len(tc) = Children(g, tk) /\ Len(fc) = Children(g, fk)
        BY <2>2, <3>3 DEF Children
      <3> QED
        BY <3>2, <3>4
    <2> QED
      BY <2>1, <2>2
  <1> HIDE DEF tc, fc
  <1>5. IsShorter(g, w, Head(w.keys), Head(w.kids), [keys |-> tk, kids |-> tc])
    BY <1>2, <1>4, Shorter
  <1>6. IsShorter(g, w, Last(w.keys), Last(w.kids), [keys |-> fk, kids |-> fc])
    BY <1>2, <1>4, Shorter
  <1> QED
    BY <1>2, <1>3, <1>4, <1>5, <1>6 DEF tk, tc, fk, fc

\* A key and a child added at the back or the front of y.
LEMMA Receiver ==
  ASSUME NEW g \in Nat, NEW y \in NodesAt(g), Num(y) < 2 * t - 1, NEW e \in KeyValues, NEW c, g > 0 => c \in Below(g),
         NEW l \in BOOLEAN, l <=> g = 0
  PROVE  /\ IsLonger(g, y, e, c, [keys |-> Append(y.keys, e), kids |-> IF l THEN << >> ELSE Append(y.kids, c)])
         /\ IsLonger(g, y, e, c, [keys |-> <<e>> \o y.keys, kids |-> IF l THEN << >> ELSE <<c>> \o y.kids])
  <1> DEFINE ak == Append(y.keys, e)
             pk == <<e>> \o y.keys
             ac == IF l THEN << >> ELSE Append(y.kids, c)
             pc == IF l THEN << >> ELSE <<c>> \o y.kids
  <1>1. /\ y.keys \in Seq(KeyValues) /\ y.kids \in Seq(Below(g)) /\ Num(y) \in Nat /\ Num(y) = Len(y.keys)
        /\ (g > 0 => Len(y.kids) = Num(y) + 1)
    BY IsNode
  <1>2. ak \in Seq(KeyValues) /\ Len(ak) = Num(y) + 1 /\ ToSet(ak) = ToSet(y.keys) \cup {e}
    BY <1>1, Appending
  <1>3. pk \in Seq(KeyValues) /\ Len(pk) = Num(y) + 1 /\ ToSet(pk) = ToSet(y.keys) \cup {e}
    BY <1>1, Prefixing
  <1> HIDE DEF ak, pk
  <1>4. /\ ac \in Seq(Below(g)) /\ Len(ac) = Children(g, ak)
        /\ pc \in Seq(Below(g)) /\ Len(pc) = Children(g, pk)
        /\ g > 0 => ToSet(ac) = ToSet(y.kids) \cup {c} /\ ToSet(pc) = ToSet(y.kids) \cup {c}
    <2>1. CASE g = 0
      <3>1. ac = << >> /\ pc = << >>
        BY <2>1
      <3> HIDE DEF ac, pc
      <3> QED
        BY <2>1, <3>1, EmptySeq DEF Children
    <2>2. CASE g > 0
      <3>1. ac = Append(y.kids, c) /\ c \in Below(g)
        BY <2>2
      <3>2. pc = <<c>> \o y.kids
        BY <2>2
      <3> HIDE DEF ac, pc
      <3>3. ac \in Seq(Below(g)) /\ Len(ac) = Len(y.kids) + 1 /\ ToSet(ac) = ToSet(y.kids) \cup {c}
        BY <1>1, <3>1, Appending
      <3>4. pc \in Seq(Below(g)) /\ Len(pc) = Len(y.kids) + 1 /\ ToSet(pc) = ToSet(y.kids) \cup {c}
        BY <1>1, <3>1, <3>2, Prefixing
      <3>5. Children(g, ak) = Len(ak) + 1 /\ Children(g, pk) = Len(pk) + 1
        BY <2>2 DEF Children
      <3> QED
        BY <1>1, <1>2, <1>3, <2>2, <3>3, <3>4, <3>5
    <2> QED
      BY <2>1, <2>2
  <1> HIDE DEF ac, pc
  <1>5. IsLonger(g, y, e, c, [keys |-> ak, kids |-> ac])
    BY <1>2, <1>4, Longer
  <1>6. IsLonger(g, y, e, c, [keys |-> pk, kids |-> pc])
    BY <1>3, <1>4, Longer
  <1> QED
    BY <1>5, <1>6 DEF ak, ac, pk, pc

\* After a rotation child i has a key more, and no key is gone.
IsRotated(h, x, i, y) ==
  /\ y \in NodesAt(h) /\ Num(y) = Num(x) /\ Num(y.kids[i]) = Num(x.kids[i]) + 1
  /\ KeysIn[h][x] \subseteq KeysIn[h][y]

\* A child gets the key between it and its sibling and the sibling's child c,
\* and the sibling's key e goes up.
LEMMA Rotated ==
  ASSUME NEW h \in Nat, h > 0, NEW x \in NodesAt(h), NEW m \in 1 .. Num(x),
         NEW i \in 1 .. Num(x) + 1, NEW j \in 1 .. Num(x) + 1, i # j, Num(x.kids[j]) >= t,
         NEW e \in KeyValues, e \in ToSet(x.kids[j].keys), NEW c, NEW y, NEW w,
         h - 1 > 0 => c \in Below(h - 1),
         IsLonger(h - 1, x.kids[i], x.keys[m], c, y), IsShorter(h - 1, x.kids[j], e, c, w)
  PROVE  IsRotated(h, x, i, Swapped(x, m, e, i, y, j, w))
  <1> DEFINE a == x.kids[i]
             b == x.kids[j]
             s == Swapped(x, m, e, i, y, j, w)
  <1>1. /\ a \in NodesAt(h - 1) /\ b \in NodesAt(h - 1) /\ h - 1 \in Nat
        /\ Num(a) \in t - 1 .. 2 * t - 1 /\ Num(b) \in t - 1 .. 2 * t - 1
    BY Child
  <1>2. /\ y \in NodesAt(h - 1) /\ Num(y) = Num(a) + 1
        /\ KeysIn[h - 1][a] \cup {x.keys[m]} \cup KeysBelow(h - 1, c) \subseteq KeysIn[h - 1][y]
    BY DEF IsLonger
  <1>3. /\ w \in NodesAt(h - 1) /\ Num(w) = Num(b) - 1
        /\ KeysIn[h - 1][b] \subseteq KeysIn[h - 1][w] \cup {e} \cup KeysBelow(h - 1, c)
    BY DEF IsShorter
  <1>4. Num(b) >= t
    OBVIOUS
  <1> HIDE DEF a, b
  <1>5. Num(y) >= t - 1 /\ Num(w) >= t - 1
    BY <1>1, <1>2, <1>3, <1>4, DegreeFacts
  <1>6. y \in Subtrees[h - 1] /\ w \in Subtrees[h - 1]
    BY <1>1, <1>2, <1>3, <1>5, IsSubtree
  <1>7. KeysIn[h - 1][a] \cup KeysIn[h - 1][b] \cup {x.keys[m]} \subseteq KeysIn[h - 1][y] \cup KeysIn[h - 1][w] \cup {e}
    BY <1>2, <1>3
  <1>8. /\ s \in NodesAt(h) /\ Num(s) = Num(x) /\ s.kids[i] = y
        /\ KeysIn[h][x] \subseteq KeysIn[h][s]
    BY <1>6, <1>7, Swap DEF a, b
  <1> HIDE DEF s
  <1> QED
    BY <1>2, <1>8 DEF IsRotated, s, a

\* BorrowNext is such a rotation.
LEMMA BorrowsNext ==
  ASSUME NEW h \in Nat, h > 0, NEW x \in NodesAt(h), NEW i \in 1 .. Num(x),
         Num(x.kids[i]) = t - 1, Num(x.kids[i + 1]) >= t
  PROVE  IsRotated(h, x, i, BorrowNext(x, i))
  <1> DEFINE a == x.kids[i]
             b == x.kids[i + 1]
             y == [keys |-> Append(a.keys, x.keys[i]),
                   kids |-> IF Leaf(b) THEN << >> ELSE Append(a.kids, Head(b.kids))]
             w == [keys |-> Tail(b.keys), kids |-> IF Leaf(b) THEN << >> ELSE Tail(b.kids)]
             j == i + 1
  <1>1. Num(x) \in Nat /\ x.keys \in Seq(KeyValues) /\ Num(x) = Len(x.keys)
    BY IsNode
  <1>2. i \in 1 .. Num(x) + 1 /\ j \in 1 .. Num(x) + 1 /\ i # j
    BY <1>1
  <1>3. a \in NodesAt(h - 1) /\ b \in NodesAt(h - 1) /\ h - 1 \in Nat /\ x.keys[i] \in KeyValues
    BY <1>1, <1>2, Child, Elements
  <1>4. BorrowNext(x, i) = Swapped(x, i, Head(b.keys), i, y, j, w)
    BY DEF BorrowNext, Swapped
  <1>5. Num(a) = t - 1 /\ Num(b) >= t /\ x.kids[j] = b /\ x.kids[i] = a
    OBVIOUS
  <1> HIDE DEF a, b, j
  <1>6. Num(a) < 2 * t - 1 /\ Num(b) > 0
    <2>1. Num(b) \in Nat
      BY <1>3, IsNode
    <2> QED
      BY <1>5, <2>1, DegreeFacts
  <1>7. /\ Head(b.keys) \in KeyValues /\ Head(b.keys) \in ToSet(b.keys)
        /\ h - 1 > 0 => Head(b.kids) \in Below(h - 1)
        /\ IsShorter(h - 1, b, Head(b.keys), Head(b.kids), w)
    BY <1>3, <1>6, Donor
  <1>8. IsLonger(h - 1, a, x.keys[i], Head(b.kids), y)
    <2>1. Leaf(b) \in BOOLEAN /\ (Leaf(b) <=> h - 1 = 0)
      <3>1. Leaf(b) <=> h - 1 = 0
        BY <1>3, IsNode
      <3> QED
        BY <3>1 DEF Leaf
    <2> QED
      BY <1>3, <1>6, <1>7, <2>1, Receiver
  <1> HIDE DEF y, w
  <1>9. IsRotated(h, x, i, Swapped(x, i, Head(b.keys), i, y, j, w))
    BY <1>2, <1>5, <1>7, <1>8, Rotated
  <1> QED
    BY <1>4, <1>9

\* So is BorrowPrev.
LEMMA BorrowsPrev ==
  ASSUME NEW h \in Nat, h > 0, NEW x \in NodesAt(h), NEW i \in 2 .. Num(x) + 1,
         Num(x.kids[i]) = t - 1, Num(x.kids[i - 1]) >= t
  PROVE  IsRotated(h, x, i, BorrowPrev(x, i))
  <1> DEFINE j == i - 1
             a == x.kids[i]
             b == x.kids[i - 1]
             y == [keys |-> <<x.keys[i - 1]>> \o a.keys,
                   kids |-> IF Leaf(b) THEN << >> ELSE <<Last(b.kids)>> \o a.kids]
             w == [keys |-> Front(b.keys), kids |-> IF Leaf(b) THEN << >> ELSE Front(b.kids)]
  <1>1. Num(x) \in Nat /\ x.keys \in Seq(KeyValues) /\ Num(x) = Len(x.keys)
    BY IsNode
  <1>2. i \in 1 .. Num(x) + 1 /\ j \in 1 .. Num(x) + 1 /\ i # j /\ j \in 1 .. Num(x)
    BY <1>1
  <1>3. a \in NodesAt(h - 1) /\ b \in NodesAt(h - 1) /\ h - 1 \in Nat /\ x.keys[j] \in KeyValues
    BY <1>1, <1>2, Child, Elements
  <1>4. BorrowPrev(x, i) = Swapped(x, j, Last(b.keys), i, y, j, w)
    BY DEF BorrowPrev, Swapped
  <1>5. Num(a) = t - 1 /\ Num(b) >= t /\ x.kids[j] = b /\ x.kids[i] = a
    OBVIOUS
  <1> HIDE DEF a, b
  <1>6. Num(a) < 2 * t - 1 /\ Num(b) > 0
    <2>1. Num(b) \in Nat
      BY <1>3, IsNode
    <2> QED
      BY <1>5, <2>1, DegreeFacts
  <1>7. /\ Last(b.keys) \in KeyValues /\ Last(b.keys) \in ToSet(b.keys)
        /\ h - 1 > 0 => Last(b.kids) \in Below(h - 1)
        /\ IsShorter(h - 1, b, Last(b.keys), Last(b.kids), w)
    BY <1>3, <1>6, Donor
  <1>8. IsLonger(h - 1, a, x.keys[j], Last(b.kids), y)
    <2>1. Leaf(b) \in BOOLEAN /\ (Leaf(b) <=> h - 1 = 0)
      <3>1. Leaf(b) <=> h - 1 = 0
        BY <1>3, IsNode
      <3> QED
        BY <3>1 DEF Leaf
    <2> QED
      BY <1>3, <1>6, <1>7, <2>1, Receiver
  <1> HIDE DEF y, w, j
  <1>9. IsRotated(h, x, i, Swapped(x, j, Last(b.keys), i, y, j, w))
    BY <1>2, <1>5, <1>7, <1>8, Rotated
  <1> QED
    BY <1>4, <1>9

\* What is ready for the descent: a node with all the keys, and a child of it
\* that is not poor.
IsReady(h, x, y, at) ==
  /\ y \in NodesAt(h) /\ Num(y) >= Num(x) - 1 /\ at \in 1 .. Num(y) + 1 /\ Num(y.kids[at]) >= t
  /\ KeysIn[h][x] \subseteq KeysIn[h][y]

\* Fill makes any child ready, whatever its siblings have.
LEMMA Filled ==
  ASSUME NEW h \in Nat, h > 0, NEW x \in NodesAt(h), Num(x) > 0, NEW i \in 1 .. Num(x) + 1
  PROVE  IsReady(h, x, Fill(x, i).node, Fill(x, i).at)
  <1> DEFINE f == Fill(x, i)
  <1>1. Num(x) \in Nat /\ DOMAIN x.kids = 1 .. Num(x) + 1
    BY IsNode, Elements
  <1>2. \A j \in 1 .. Num(x) + 1 : Num(x.kids[j]) \in t - 1 .. 2 * t - 1
    BY Child
  <1>3. \A j : Rich(x, j) <=> j \in 1 .. Num(x) + 1 /\ Num(x.kids[j]) >= t
    BY <1>1 DEF Rich
  <1>4. \A j \in 1 .. Num(x) + 1 : Rich(x, j) \/ Num(x.kids[j]) = t - 1
    BY <1>2, <1>3, DegreeFacts
  <1>5. CASE Num(x.kids[i]) # t - 1
    <2>1. f = [node |-> x, at |-> i]
      BY <1>5 DEF Fill
    <2>2. f.node = x /\ f.at = i
      BY <2>1
    <2> HIDE DEF f
    <2>3. Num(x.kids[i]) >= t
      BY <1>3, <1>4, <1>5
    <2> QED
      BY <1>1, <2>2, <2>3 DEF IsReady, f
  <1>6. ASSUME NEW y, f = [node |-> y, at |-> i], Num(x.kids[i]) = t - 1, IsRotated(h, x, i, y)
        PROVE  IsReady(h, x, f.node, f.at)
    <2>1. f.node = y /\ f.at = i
      BY <1>6
    <2> HIDE DEF f
    <2> QED
      BY <1>1, <1>6, <2>1, DegreeFacts DEF IsReady, IsRotated
  <1>7. ASSUME NEW j \in 1 .. Num(x), Num(x.kids[j]) = t - 1, Num(x.kids[j + 1]) = t - 1,
               f = [node |-> btree_merge(x, j), at |-> j]
        PROVE  IsReady(h, x, f.node, f.at)
    <2> DEFINE s == btree_merge(x, j)
    <2>1. f.node = s /\ f.at = j
      BY <1>7
    <2>2. /\ s \in NodesAt(h) /\ Num(s) = Num(x) - 1 /\ Num(s.kids[j]) = 2 * t - 1
          /\ KeysIn[h][x] \subseteq KeysIn[h][s]
      BY <1>7, Merged
    <2> HIDE DEF f, s
    <2> QED
      BY <1>1, <2>1, <2>2, DegreeFacts DEF IsReady
  <1>8. CASE Num(x.kids[i]) = t - 1 /\ FromNext(x, i)
    <2>1. f = [node |-> BorrowNext(x, i), at |-> i]
      BY <1>8 DEF Fill
    <2>2. i \in 1 .. Num(x) /\ Num(x.kids[i + 1]) >= t
      BY <1>1, <1>3, <1>8 DEF FromNext
    <2>3. IsRotated(h, x, i, BorrowNext(x, i))
      BY <1>8, <2>2, BorrowsNext
    <2> QED
      BY <1>6, <1>8, <2>1, <2>3
  <1>9. CASE Num(x.kids[i]) = t - 1 /\ ~FromNext(x, i) /\ Rich(x, i - 1)
    <2>1. f = [node |-> BorrowPrev(x, i), at |-> i]
      BY <1>9 DEF Fill
    <2>2. i \in 2 .. Num(x) + 1 /\ Num(x.kids[i - 1]) >= t
      BY <1>1, <1>3, <1>9
    <2>3. IsRotated(h, x, i, BorrowPrev(x, i))
      BY <1>9, <2>2, BorrowsPrev
    <2> QED
      BY <1>6, <1>9, <2>1, <2>3
  <1>10. CASE Num(x.kids[i]) = t - 1 /\ ~FromNext(x, i) /\ ~Rich(x, i - 1)
    <2>1. f = IF i > 1 THEN [node |-> btree_merge(x, i - 1), at |-> i - 1]
              ELSE [node |-> btree_merge(x, i), at |-> i]
      BY <1>10 DEF Fill
    <2>2. CASE i > 1
      <3> DEFINE j == i - 1
      <3>1. j \in 1 .. Num(x) /\ j \in 1 .. Num(x) + 1 /\ j + 1 = i
        BY <1>1, <2>2
      <3>2. f = [node |-> btree_merge(x, j), at |-> j] /\ ~Rich(x, j)
        BY <1>10, <2>1, <2>2
      <3> HIDE DEF j
      <3>3. Num(x.kids[j]) = t - 1 /\ Num(x.kids[j + 1]) = t - 1
        BY <1>4, <1>10, <3>1, <3>2
      <3> QED
        BY ONLY <1>7, <3>1, <3>2, <3>3
    <2>3. CASE ~(i > 1)
      <3>1. i = 1 /\ i \in 1 .. Num(x) /\ i + 1 \in 1 .. Num(x) + 1
        BY <1>1, <2>3
      <3>2. ~Rich(x, i + 1)
        BY <1>10, <3>1 DEF FromNext
      <3>3. Num(x.kids[i + 1]) = t - 1
        BY <1>4, <3>1, <3>2
      <3>4. f = [node |-> btree_merge(x, i), at |-> i]
        BY <2>1, <2>3
      <3> QED
        BY <1>7, <1>10, <3>1, <3>3, <3>4
    <2> QED
      BY <2>2, <2>3
  <1> QED
    BY <1>5, <1>8, <1>9, <1>10

\* The scan stops at a child, and at a key if it has found one.
LEMMA DeletePlace ==
  ASSUME NEW h \in Nat, NEW x \in NodesAt(h), NEW k \in KeyValues
  PROVE  /\ DeletePosition(x, k) \in 1 .. Num(x) + 1
         /\ Found(x, k) => DeletePosition(x, k) \in 1 .. Num(x) /\ x.keys[DeletePosition(x, k)] = k
  <1> DEFINE S == {i \in 1 .. Num(x) : x.keys[i] >= k} \cup {Num(x) + 1}
             p == DeletePosition(x, k)
  <1>1. Num(x) \in Nat
    BY IsNode
  <1>2. S \subseteq 1 .. Num(x) + 1 /\ S \subseteq Nat /\ S # {}
    BY <1>1
  <1>3. p = Min(S)
    BY DEF DeletePosition
  <1> HIDE DEF S
  <1>4. p \in 1 .. Num(x) + 1
    BY <1>2, <1>3, HasMin
  <1>5. Found(x, k) => p <= Num(x) /\ x.keys[p] = k
    BY DEF Found
  <1> HIDE DEF p
  <1>6. Found(x, k) => p \in 1 .. Num(x) /\ x.keys[p] = k
    BY <1>1, <1>4, <1>5
  <1> QED
    BY <1>4, <1>6 DEF p

\* Key i of x is replaced.
LEMMA Rekeyed ==
  ASSUME NEW h \in Nat, h > 0, NEW x \in NodesAt(h), NEW i \in 1 .. Num(x), NEW e \in KeyValues
  PROVE  LET y == [x EXCEPT !.keys[i] = e]
         IN /\ y \in NodesAt(h) /\ Num(y) = Num(x) /\ y.kids = x.kids /\ y.keys[i] = e
            /\ KeysIn[h][x] \subseteq KeysIn[h][y] \cup {x.keys[i]}
  <1> DEFINE ks == [x.keys EXCEPT ![i] = e]
             y  == [x EXCEPT !.keys[i] = e]
  <1>1. /\ x = [keys |-> x.keys, kids |-> x.kids] /\ x.keys \in Seq(KeyValues) /\ x.kids \in Seq(Below(h))
        /\ Num(x) \in Nat /\ Num(x) <= 2 * t - 1
        /\ Num(x) = Len(x.keys) /\ Len(x.kids) = Num(x) + 1
    BY IsNode
  <1>2. y = [keys |-> ks, kids |-> x.kids]
    <2>1. y = [x EXCEPT !.keys = ks]
      OBVIOUS
    <2> HIDE DEF ks, y
    <2> QED
      BY <1>1, <2>1
  <1>3. /\ ks \in Seq(KeyValues) /\ Len(ks) = Len(x.keys) /\ ks[i] = e
        /\ ToSet(x.keys) \subseteq ToSet(ks) \cup {x.keys[i]}
    BY <1>1, Put
  <1> HIDE DEF ks
  <1>4. y \in NodesAt(h)
    <2>1. Len(ks) <= 2 * t - 1 /\ Len(x.kids) = Children(h, ks)
      BY <1>1, <1>3 DEF Children
    <2> QED
      BY <1>1, <1>2, <1>3, <2>1, NewNode
  <1>5. y.keys = ks /\ y.kids = x.kids
    BY <1>2
  <1> HIDE DEF y
  <1>6. Num(y) = Num(x)
    BY <1>1, <1>3, <1>5 DEF Num
  <1> DEFINE K == KeysIn[h][y] \cup {x.keys[i]}
  <1>7. /\ ToSet(ks) \subseteq KeysIn[h][y]
        /\ \A n \in 1 .. Num(x) + 1 : KeysIn[h - 1][x.kids[n]] \subseteq KeysIn[h][y]
    BY <1>4, <1>5, <1>6, Reaches
  <1>8. ASSUME NEW n \in 1 .. Num(x) PROVE x.keys[n] \in K
    <2>1. x.keys[n] \in ToSet(x.keys)
      BY <1>1, Elements
    <2> QED
      BY <1>3, <1>7, <2>1
  <1>9. \A n \in 1 .. Num(x) + 1 : KeysIn[h - 1][x.kids[n]] \subseteq K
    BY <1>7
  <1> HIDE DEF K
  <1>10. KeysIn[h][x] \subseteq K
    BY <1>8, <1>9, Within
  <1> QED
    BY <1>3, <1>4, <1>5, <1>6, <1>10 DEF y, K

\* Where deletion goes on: the node has all the keys but k, the child can lose
\* a key, and the key to delete there is k or has been copied into the node.
IsDescent(h, x, k, d) ==
  /\ d.node \in NodesAt(h) /\ Num(d.node) >= Num(x) - 1 /\ d.at \in 1 .. Num(d.node) + 1
  /\ Num(d.node.kids[d.at]) >= t /\ d.key \in KeyValues
  /\ KeysIn[h][x] \subseteq KeysIn[h][d.node] \cup {k}
  /\ d.key = k \/ \E n \in 1 .. Num(d.node) : d.node.keys[n] = d.key

\* Each way to go on below an inner node is such a descent.
LEMMA Descent ==
  ASSUME NEW h \in Nat, h > 0, NEW x \in NodesAt(h), Num(x) > 0, NEW k \in KeyValues, ~UsesFreedNode(x, k)
  PROVE  IsDescent(h, x, k, DeleteBelow(x, k))
  <1> DEFINE i == DeletePosition(x, k)
             d == DeleteBelow(x, k)
  <1>1. Num(x) \in Nat /\ DOMAIN x.kids = 1 .. Num(x) + 1
    BY IsNode, Elements
  <1>2. i \in 1 .. Num(x) + 1 /\ (Found(x, k) => i \in 1 .. Num(x) /\ x.keys[i] = k)
    BY DeletePlace
  <1>3. \A j : Rich(x, j) <=> j \in 1 .. Num(x) + 1 /\ Num(x.kids[j]) >= t
    BY <1>1 DEF Rich
  <1>4. \A j \in 1 .. Num(x) + 1 : Rich(x, j) \/ Num(x.kids[j]) = t - 1
    BY <1>3, Child, DegreeFacts
  <1>5. ASSUME NEW j \in 1 .. Num(x) + 1, NEW e \in KeyValues, Found(x, k), Num(x.kids[j]) >= t,
               d = [node |-> [x EXCEPT !.keys[i] = e], at |-> j, key |-> e]
        PROVE  IsDescent(h, x, k, d)
    <2> DEFINE y == [x EXCEPT !.keys[i] = e]
    <2>1. d.node = y /\ d.at = j /\ d.key = e
      BY <1>5
    <2>2. i \in 1 .. Num(x) /\ x.keys[i] = k
      BY <1>2, <1>5
    <2> HIDE DEF i, d
    <2>3. /\ y \in NodesAt(h) /\ Num(y) = Num(x) /\ y.kids = x.kids /\ y.keys[i] = e
          /\ KeysIn[h][x] \subseteq KeysIn[h][y] \cup {k}
      BY <2>2, Rekeyed
    <2> HIDE DEF y
    <2> QED
      BY <1>1, <1>5, <2>1, <2>2, <2>3 DEF IsDescent
  <1>6. CASE Found(x, k) /\ Rich(x, i)
    <2> DEFINE e == LeftReplacement(x.kids[i])
    <2>1. d = [node |-> [x EXCEPT !.keys[i] = e], at |-> i, key |-> e]
      BY <1>6 DEF DeleteBelow
    <2>2. x.kids[i] \in NodesAt(h - 1) /\ h - 1 \in Nat /\ Num(x.kids[i]) >= t
      BY <1>2, <1>3, <1>6, Child
    <2>3. Num(x.kids[i]) > 0
      <3>1. Num(x.kids[i]) \in Nat
        BY <2>2, IsNode
      <3> QED
        BY <2>2, <3>1, DegreeFacts
    <2>4. e \in KeyValues
      BY <2>2, <2>3, Donor DEF LeftReplacement
    <2> QED
      BY <1>2, <1>5, <1>6, <2>1, <2>2, <2>4
  <1>7. CASE Found(x, k) /\ ~Rich(x, i) /\ Rich(x, i + 1)
    <2> DEFINE j == i + 1
               e == RightReplacement(x.kids[j])
    <2>1. d = [node |-> [x EXCEPT !.keys[i] = e], at |-> j, key |-> e]
      BY <1>7 DEF DeleteBelow
    <2>2. j \in 1 .. Num(x) + 1
      BY <1>3, <1>7
    <2> HIDE DEF j
    <2>3. x.kids[j] \in NodesAt(h - 1) /\ h - 1 \in Nat /\ Num(x.kids[j]) >= t
      BY <1>3, <1>7, <2>2, Child DEF j
    <2>4. Num(x.kids[j]) > 0
      <3>1. Num(x.kids[j]) \in Nat
        BY <2>3, IsNode
      <3> QED
        BY <2>3, <3>1, DegreeFacts
    <2>5. e \in KeyValues
      BY <2>3, <2>4, Donor DEF RightReplacement
    <2> QED
      BY <1>5, <1>7, <2>1, <2>2, <2>3, <2>5
  <1>8. CASE Found(x, k) /\ ~Rich(x, i) /\ ~Rich(x, i + 1)
    <2> DEFINE s == btree_merge(x, i)
    <2>1. d = [node |-> s, at |-> i, key |-> k]
      BY <1>8 DEF DeleteBelow
    <2>2. d.node = s /\ d.at = i /\ d.key = k
      BY <2>1
    <2>3. i \in 1 .. Num(x) /\ i + 1 \in 1 .. Num(x) + 1
      BY <1>1, <1>2, <1>8
    <2>4. Num(x.kids[i]) = t - 1 /\ Num(x.kids[i + 1]) = t - 1
      BY <1>2, <1>4, <1>8, <2>3
    <2>5. /\ s \in NodesAt(h) /\ Num(s) = Num(x) - 1 /\ Num(s.kids[i]) = 2 * t - 1
          /\ KeysIn[h][x] \subseteq KeysIn[h][s]
      BY <2>3, <2>4, Merged
    <2> HIDE DEF d, s, i
    <2>6. i \in 1 .. Num(s) + 1 /\ Num(s) >= Num(x) - 1 /\ Num(s.kids[i]) >= t
      BY <1>1, <2>3, <2>5, DegreeFacts
    <2> QED
      BY <2>2, <2>5, <2>6 DEF IsDescent, d
  <1>9. CASE ~Found(x, k)
    <2> DEFINE f == Fill(x, i)
    <2>1. d = [node |-> f.node, at |-> f.at, key |-> k]
      BY <1>9 DEF DeleteBelow
    <2>2. d.node = f.node /\ d.at = f.at /\ d.key = k
      BY <2>1
    <2>3. IsReady(h, x, f.node, f.at)
      BY <1>2, Filled
    <2> HIDE DEF d, f
    <2> QED
      BY <2>2, <2>3 DEF IsDescent, IsReady, d
  <1> QED
    BY <1>6, <1>7, <1>8, <1>9

\* What a call of btree_delete_key leaves behind.
Deletes(h, x, k) ==
  LET r == btree_delete_key[h][x][k]
  IN /\ r.node \in NodesAt(h) /\ Num(r.node) >= Num(x) - 1
     /\ r.how \in {"deleted", "cannot", "emptied", "undefined"}
     /\ r.how = "undefined" => h > 0 /\ Num(x) = 1
     /\ r.how = "emptied" => h = 0 /\ Num(x) = 1 /\ KeysIn[h][x] \subseteq {k}
     /\ KeysIn[h][x] \subseteq KeysIn[h][r.node] \cup {k}

\* In a leaf the key is removed, or is not there.
LEMMA LeafDeletes ==
  ASSUME NEW x \in NodesAt(0), NEW k \in KeyValues
  PROVE  Deletes(0, x, k)
  <1> DEFINE p == DeletePosition(x, k)
             f == btree_delete_key[0 - 1]
             r == btree_delete_key[0][x][k]
  <1>1. /\ x = [keys |-> x.keys, kids |-> x.kids] /\ x.keys \in Seq(KeyValues) /\ x.kids \in Seq(Below(0))
        /\ Num(x) \in Nat /\ Num(x) <= 2 * t - 1 /\ Num(x) = Len(x.keys) /\ Leaf(x)
        /\ Len(x.kids) = Children(0, x.keys)
    BY IsNode
  <1>2. r = Deleted(f, x, k)
    <2>1. x \in Trees[0]
      BY NodesAreTrees
    <2>2. btree_delete_key[0] = DeleteRow(f, 0)
      BY DeleteDef
    <2> HIDE DEF f
    <2> QED
      BY <2>1, <2>2 DEF DeleteRow
  <1> HIDE DEF f
  <1>3. CASE ~Found(x, k)
    <2>1. r = [node |-> x, how |-> "cannot"]
      BY <1>1, <1>2, <1>3 DEF Deleted
    <2>2. r.node = x /\ r.how = "cannot"
      BY <2>1
    <2> HIDE DEF r
    <2> QED
      BY <1>1, <2>2 DEF Deletes, r
  <1>4. CASE Found(x, k)
    <2> DEFINE ks == RemoveAt(x.keys, p)
               y  == [x EXCEPT !.keys = ks]
               o  == IF Num(x) = 1 THEN "emptied" ELSE "deleted"
    <2>1. r = [node |-> y, how |-> o]
      BY <1>1, <1>2, <1>4 DEF Deleted
    <2>2. r.node = y /\ r.how = o
      BY <2>1
    <2>3. p \in 1 .. Num(x) /\ x.keys[p] = k
      BY <1>4, DeletePlace
    <2>4. y = [keys |-> ks, kids |-> x.kids]
      <3> HIDE DEF ks
      <3> QED
        BY <1>1
    <2> HIDE DEF r, o, p
    <2>5. ks \in Seq(KeyValues) /\ Len(ks) = Len(x.keys) - 1 /\ ToSet(x.keys) \subseteq ToSet(ks) \cup {k}
      BY <1>1, <2>3, Removing
    <2> HIDE DEF ks, y
    <2>6. y \in NodesAt(0)
      <3>1. Len(ks) <= 2 * t - 1 /\ Len(x.kids) = Children(0, ks)
        BY <1>1, <2>5, DegreeFacts DEF Children
      <3> QED
        BY <1>1, <2>4, <2>5, <3>1, NewNode
    <2>7. y.keys = ks /\ Num(y) = Num(x) - 1
      BY <1>1, <2>4, <2>5 DEF Num
    <2>8. KeysIn[0][x] \subseteq KeysIn[0][y] \cup {k}
      <3> DEFINE K == KeysIn[0][y] \cup {k}
      <3>1. ToSet(ks) \subseteq KeysIn[0][y]
        BY <2>6, <2>7, Reaches
      <3>2. ASSUME NEW n \in 1 .. Num(x) PROVE x.keys[n] \in K
        <4>1. x.keys[n] \in ToSet(x.keys)
          BY <1>1, Elements
        <4> QED
          BY <2>5, <3>1, <4>1
      <3> HIDE DEF K
      <3>3. KeysIn[0][x] \subseteq K
        BY <3>2, Within
      <3> QED
        BY <3>3 DEF K
    <2>9. Num(x) = 1 => KeysIn[0][x] \subseteq {k}
      <3> SUFFICES ASSUME Num(x) = 1 PROVE KeysIn[0][x] \subseteq {k}
        OBVIOUS
      <3> DEFINE K == {k}
      <3>1. \A n \in 1 .. Num(x) : x.keys[n] \in K
        BY <2>3
      <3> HIDE DEF K
      <3>2. KeysIn[0][x] \subseteq K
        BY <3>1, Within
      <3> QED
        BY <3>2 DEF K
    <2>10. o \in {"deleted", "emptied"} /\ (o = "emptied" => Num(x) = 1)
      BY DEF o
    <2> QED
      BY <1>1, <2>2, <2>6, <2>7, <2>8, <2>9, <2>10 DEF Deletes, r
  <1> QED
    BY <1>3, <1>4

\* In an inner node, if calls on the level below do what they should.
LEMMA InnerDeletes ==
  ASSUME NEW g \in Nat, NEW x \in NodesAt(g + 1), NEW k \in KeyValues, Num(x) > 0,
         \A c \in NodesAt(g) : \A e \in KeyValues : (g > 0 => Num(c) > 0) => Deletes(g, c, e)
  PROVE  Deletes(g + 1, x, k)
  <1> DEFINE h == g + 1
             f == btree_delete_key[g]
             r == btree_delete_key[h][x][k]
  <1>1. h \in Nat /\ h > 0 /\ h - 1 = g /\ g \in Nat
    OBVIOUS
  <1>2. x \in NodesAt(h)
    OBVIOUS
  <1> HIDE DEF h
  <1>3. Num(x) \in Nat /\ ~Leaf(x)
    BY <1>1, <1>2, IsNode
  <1>4. r = Deleted(f, x, k)
    <2>1. x \in Trees[h]
      BY <1>1, <1>2, NodesAreTrees
    <2>2. btree_delete_key[h] = DeleteRow(f, h)
      BY <1>1, DeleteDef
    <2> HIDE DEF f
    <2> QED
      BY <2>1, <2>2 DEF DeleteRow
  <1>5. CASE UsesFreedNode(x, k)
    <2>1. r = [node |-> x, how |-> "undefined"]
      <3> HIDE DEF f, r
      <3> QED
        BY <1>3, <1>4, <1>5 DEF Deleted
    <2>2. r.node = x /\ r.how = "undefined"
      BY <2>1
    <2> HIDE DEF r
    <2>3. Num(x) = 1
      BY <1>5 DEF UsesFreedNode
    <2> QED
      BY <1>1, <1>2, <1>3, <2>2, <2>3 DEF Deletes, r, h
  <1>6. CASE ~UsesFreedNode(x, k)
    <2> DEFINE d == DeleteBelow(x, k)
               a == d.node
               j == d.at
               e == d.key
               c == a.kids[j]
               q == f[c][e]
               y == [a EXCEPT !.kids[j] = q.node]
    <2>1. r = [node |-> y, how |-> q.how]
      <3> HIDE DEF f, r
      <3> QED
        BY <1>3, <1>4, <1>6 DEF Deleted
    <2>2. r.node = y /\ r.how = q.how
      <3> HIDE DEF r, y, q
      <3> QED
        BY <2>1
    <2> HIDE DEF r
    <2>3. IsDescent(h, x, k, d)
      BY <1>1, <1>2, <1>6, Descent
    <2> HIDE DEF d
    <2>4. /\ a \in NodesAt(h) /\ Num(a) >= Num(x) - 1 /\ j \in 1 .. Num(a) + 1
          /\ Num(c) >= t /\ e \in KeyValues
          /\ KeysIn[h][x] \subseteq KeysIn[h][a] \cup {k}
          /\ e = k \/ \E n \in 1 .. Num(a) : a.keys[n] = e
      BY <2>3 DEF IsDescent
    <2> HIDE DEF a, j, e
    <2>5. c \in NodesAt(g) /\ Num(c) \in Nat /\ Num(a) \in Nat
      <3>1. c \in NodesAt(g)
        BY <1>1, <2>4, Child
      <3> QED
        BY <1>1, <2>4, <3>1, IsNode
    <2>6. Deletes(g, c, e)
      BY <2>4, <2>5, DegreeFacts
    <2> DEFINE o == q.node
    <2>7. /\ o \in NodesAt(g) /\ Num(o) >= Num(c) - 1
          /\ q.how \in {"deleted", "cannot", "emptied", "undefined"}
          /\ q.how = "undefined" => Num(c) = 1
          /\ q.how = "emptied" => Num(c) = 1
          /\ KeysIn[g][c] \subseteq KeysIn[g][o] \cup {e}
      <3> HIDE DEF c
      <3> QED
        BY <2>6 DEF Deletes
    <2>8. a.kids[j] = c /\ y = [a EXCEPT !.kids[j] = o]
      OBVIOUS
    <2> DEFINE v == q.how
    <2>9. r.node = y /\ r.how = v
      BY <2>2
    <2> HIDE DEF q, c, f, o, v
    <2>10. v \in {"deleted", "cannot"}
      BY <2>4, <2>5, <2>7, DegreeFacts DEF v
    <2>11. o \in Subtrees[h - 1]
      <3>1. Num(o) \in Nat
        BY <2>7, IsNode
      <3>2. Num(o) >= t - 1
        BY <2>4, <2>5, <2>7, <3>1, DegreeFacts
      <3> QED
        BY <1>1, <2>7, <3>2, IsSubtree
    <2> DEFINE z == [a EXCEPT !.kids[j] = o]
    <2>12. /\ z \in NodesAt(h) /\ Num(z) = Num(a)
           /\ \A n \in 1 .. Num(a) : a.keys[n] \in KeysIn[h][z]
           /\ \A E : KeysIn[h - 1][a.kids[j]] \subseteq KeysIn[h - 1][o] \cup E
                       => KeysIn[h][a] \subseteq KeysIn[h][z] \cup E
      <3>1. a \in NodesAt(h) /\ j \in 1 .. Num(a) + 1
        BY <2>4
      <3> HIDE DEF y
      <3> QED
        BY ONLY <1>1, <2>11, <3>1, Plugged
    <2>13. z = y
      BY <2>8
    <2> HIDE DEF z, y
    <2>14. KeysIn[h][a] \subseteq KeysIn[h][z] \cup {e}
      BY <1>1, <2>7, <2>8, <2>12
    <2>15. KeysIn[h][x] \subseteq KeysIn[h][z] \cup {k}
      BY <2>4, <2>12, <2>14
    <2> QED
      BY <2>4, <2>9, <2>10, <2>12, <2>13, <2>15 DEF Deletes, r, h
  <1> QED
    BY <1>5, <1>6

\* Lines 232-354: on a node of any height that has a key, btree_delete_key
\* returns a node of the same height, with one key less at most, whose subtrees
\* have between t - 1 and 2t - 1 keys, and which has lost no key but k; a leaf
\* is emptied only if it was all of the tree, and a freed node is read only if
\* the node had a single key.
THEOREM DeleteKey ==
  \A h \in Nat : \A x \in NodesAt(h) : \A k \in KeyValues : (h > 0 => Num(x) > 0) => Deletes(h, x, k)
  <1> DEFINE Good == {h \in Nat : \A x \in NodesAt(h) : \A k \in KeyValues :
                                    (h > 0 => Num(x) > 0) => Deletes(h, x, k)}
  <1>1. 0 \in Good
    BY LeafDeletes
  <1>2. ASSUME NEW g \in Nat, g \in Good PROVE g + 1 \in Good
    <2>1. \A c \in NodesAt(g) : \A e \in KeyValues : (g > 0 => Num(c) > 0) => Deletes(g, c, e)
      BY <1>2
    <2> HIDE DEF Good
    <2>2. ASSUME NEW x \in NodesAt(g + 1), NEW k \in KeyValues, Num(x) > 0 PROVE Deletes(g + 1, x, k)
      BY ONLY <2>1, <2>2, g \in Nat, InnerDeletes
    <2>3. g + 1 \in Nat /\ g + 1 > 0
      OBVIOUS
    <2> QED
      BY ONLY <2>2, <2>3 DEF Good
  <1> HIDE DEF Good
  <1>3. \A h \in Nat : h \in Good
    BY <1>1, <1>2, FromZero
  <1> QED
    BY <1>3 DEF Good
-----------------------------------------------------------------------------
(* The tree *)

\* A full root grows a new one above it before the insertion.
LEMMA GrownInserts ==
  ASSUME NEW h \in Nat, NEW x \in NodesAt(h), Num(x) = 2 * t - 1, NEW k \in KeyValues, NEW j \in 1 .. 2
  PROVE  LET s == Grown(x)
             y == [s EXCEPT !.kids[j] = btree_insert_nonfull[h][s.kids[j]][k]]
         IN /\ y \in NodesAt(h + 1) /\ Num(y) = 1
            /\ KeysIn[h][x] \cup {k} \subseteq KeysIn[h + 1][y]
  <1> DEFINE g  == h + 1
             ks == << >>
             cs == <<x>>
             a  == [keys |-> ks, kids |-> cs]
             s  == Grown(x)
             c  == s.kids[j]
             d  == btree_insert_nonfull[h][c][k]
             y  == [s EXCEPT !.kids[j] = d]
  <1>1. g \in Nat /\ g > 0 /\ g - 1 = h
    OBVIOUS
  <1>2. Below(g) = Subtrees[h]
    BY <1>1 DEF Below
  <1>3. s = btree_split_child(a, 1)
    BY DEF Grown
  <1> HIDE DEF g
  <1>4. x \in Subtrees[h]
    BY IsSubtree, DegreeFacts
  <1>5. ks \in Seq(KeyValues) /\ Len(ks) = 0
    BY EmptySeq
  <1>6. cs \in Seq(Below(g)) /\ Len(cs) = 1 /\ cs[1] = x
    BY <1>2, <1>4, One
  <1> HIDE DEF ks, cs
  <1>7. a \in NodesAt(g)
    <2>1. Len(ks) <= 2 * t - 1 /\ Len(cs) = Children(g, ks)
      BY <1>1, <1>5, <1>6, DegreeFacts DEF Children
    <2> QED
      BY <1>1, <1>5, <1>6, <2>1, NewNode
  <1>8. Num(a) = 0 /\ a.kids[1] = x
    BY <1>5, <1>6 DEF Num
  <1> HIDE DEF a, s
  <1>9. /\ s \in NodesAt(g) /\ Num(s) = Num(a) + 1
        /\ Num(s.kids[1]) = t - 1 /\ Num(s.kids[1 + 1]) = t - 1
        /\ KeysIn[g][a] \subseteq KeysIn[g][s]
    <2>1. Num(a) < 2 * t - 1 /\ 1 \in 1 .. Num(a) + 1
      BY <1>8, DegreeFacts
    <2> QED
      BY <1>1, <1>3, <1>7, <1>8, <2>1, SplitChild
  <1>10. Num(s) = 1 /\ j \in 1 .. Num(s) + 1 /\ Num(c) = t - 1
    <2>1. j = 1 \/ j = 2
      OBVIOUS
    <2> QED
      BY <1>8, <1>9, <2>1
  <1>11. c \in NodesAt(h)
    BY <1>1, <1>9, <1>10, Child
  <1>12. KeysIn[h][x] \subseteq KeysIn[g][s]
    <2>1. 1 \in 1 .. Num(a) + 1
      BY <1>8
    <2>2. KeysIn[g - 1][a.kids[1]] \subseteq KeysIn[g][a]
      BY <1>1, <1>7, <2>1, Reaches
    <2> QED
      BY <1>1, <1>8, <1>9, <2>2
  <1>13. s.kids[j] = c /\ Num(c) < 2 * t - 1
    BY <1>10, DegreeFacts
  <1> HIDE DEF c
  <1>14. d \in NodesAt(h) /\ Num(d) >= Num(c) /\ KeysIn[h][c] \cup {k} \subseteq KeysIn[h][d]
    <2>1. Inserts(h, c, k)
      BY <1>11, <1>13, InsertNonfull
    <2> QED
      BY <2>1 DEF Inserts
  <1> HIDE DEF d
  <1>15. d \in Subtrees[g - 1]
    <2>1. Num(d) \in Nat
      BY <1>14, IsNode
    <2>2. Num(d) >= t - 1
      BY <1>10, <1>14, <2>1, DegreeFacts
    <2> QED
      BY <1>1, <1>14, <2>2, IsSubtree
  <1>16. /\ y \in NodesAt(g) /\ Num(y) = Num(s)
         /\ KeysIn[g - 1][d] \subseteq KeysIn[g][y]
         /\ \A E : KeysIn[g - 1][s.kids[j]] \subseteq KeysIn[g - 1][d] \cup E
                     => KeysIn[g][s] \subseteq KeysIn[g][y] \cup E
    <2>1. s \in NodesAt(g)
      BY <1>9
    <2>2. j \in 1 .. Num(s) + 1
      BY <1>10
    <2> QED
      BY ONLY <1>1, <1>15, <2>1, <2>2, Plugged
  <1> HIDE DEF y
  <1>17. KeysIn[g][s] \subseteq KeysIn[g][y]
    <2>1. KeysIn[g - 1][s.kids[j]] \subseteq KeysIn[g - 1][d] \cup {}
      BY <1>1, <1>13, <1>14
    <2>2. KeysIn[g][s] \subseteq KeysIn[g][y] \cup {}
      BY <1>16, <2>1
    <2> QED
      BY <2>2
  <1>18. KeysIn[h][x] \cup {k} \subseteq KeysIn[g][y] /\ Num(y) = 1
    BY <1>1, <1>10, <1>12, <1>14, <1>16, <1>17
  <1> QED
    BY <1>16, <1>18 DEF y, d, c, s, g

\* The tree as a node of its height.
LEMMA Rooted ==
  ASSUME WellFormed, status = "tree"
  PROVE  /\ height \in Nat /\ root \in NodesAt(height) /\ Num(root) \in Nat /\ Num(root) <= 2 * t - 1
         /\ height > 0 => Num(root) > 0
         /\ present \subseteq KeyValues /\ present \subseteq KeysIn[height][root]
  <1>1. height \in Nat /\ root \in NodesAt(height)
    BY DEF WellFormed, TypeOK, Balanced, NodesAt, Below
  <1>2. Num(root) \in Nat /\ Num(root) <= 2 * t - 1
    BY <1>1, IsNode
  <1> QED
    BY <1>1, <1>2 DEF WellFormed, TypeOK, Balanced, NoKeyLost

\* A step that leaves a node with the keys present, and no emptied inner root.
LEMMA StillWellFormed ==
  ASSUME NEW h \in Nat, NEW x \in NodesAt(h), root' = x, height' = h,
         h > 0 => Num(x) > 0, status' \in {"tree", "null", "undefined"},
         present' \subseteq KeyValues, present' \subseteq KeysIn[h][x], status' = "null" => present' = {},
         misplaced' \in BOOLEAN
  PROVE  WellFormed'
  <1>1. x \in Trees[h]
    BY NodesAreTrees
  <1> QED
    BY <1>1 DEF WellFormed, TypeOK, Balanced, NoKeyLost, NullOnlyWhenEmpty, NodesAt, Below

\* Insertion keeps WellFormed.
LEMMA InsertStep ==
  ASSUME WellFormed, NEW k \in KeyValues, Insert(k)
  PROVE  WellFormed'
  <1>1. CASE status = "null" /\ status' = "undefined" /\ UNCHANGED <<root, height, present, misplaced>>
    BY <1>1 DEF WellFormed, TypeOK, Balanced, NoKeyLost, NullOnlyWhenEmpty
  <1>2. CASE status = "tree" /\ btree_insert(k) /\ present' = present \cup {k} /\ UNCHANGED <<status, misplaced>>
    <2>1. /\ height \in Nat /\ root \in NodesAt(height) /\ Num(root) \in Nat /\ Num(root) <= 2 * t - 1
          /\ present \subseteq KeyValues /\ present \subseteq KeysIn[height][root]
          /\ height > 0 => Num(root) > 0
      BY <1>2, Rooted
    <2>2. present' \subseteq KeyValues /\ status' = "tree" /\ misplaced' \in BOOLEAN
      BY <1>2, <2>1 DEF WellFormed, TypeOK
    <2>3. CASE Num(root) = 2 * t - 1
      <3> DEFINE s == Grown(root)
                 j == IF s.keys[1] < k THEN 2 ELSE 1
                 y == [s EXCEPT !.kids[j] = btree_insert_nonfull[height][@][k]]
                 g == height + 1
      <3>1. root' = y /\ height' = g
        BY <1>2, <2>3 DEF btree_insert
      <3>2. j \in 1 .. 2
        OBVIOUS
      <3>3. y = [s EXCEPT !.kids[j] = btree_insert_nonfull[height][s.kids[j]][k]]
        OBVIOUS
      <3> HIDE DEF j, y
      <3>4. /\ y \in NodesAt(g) /\ Num(y) = 1
            /\ KeysIn[height][root] \cup {k} \subseteq KeysIn[g][y]
        BY <2>1, <2>3, <3>2, <3>3, GrownInserts
      <3>5. g \in Nat
        BY <2>1
      <3> HIDE DEF g
      <3>6. present' \subseteq KeysIn[g][y] /\ Num(y) > 0
        BY <1>2, <2>1, <3>4
      <3> QED
        BY <2>2, <3>1, <3>4, <3>5, <3>6, StillWellFormed
    <2>4. CASE Num(root) # 2 * t - 1
      <3> DEFINE y == btree_insert_nonfull[height][root][k]
      <3>1. root' = y /\ height' = height
        BY <1>2, <2>4 DEF btree_insert
      <3>2. Num(root) < 2 * t - 1
        BY <2>1, <2>4, DegreeFacts
      <3>3. Inserts(height, root, k)
        BY <2>1, <3>2, InsertNonfull
      <3>4. y \in NodesAt(height) /\ Num(y) >= Num(root) /\ KeysIn[height][root] \cup {k} \subseteq KeysIn[height][y]
        BY <3>3 DEF Inserts
      <3> HIDE DEF y
      <3>5. present' \subseteq KeysIn[height][y]
        BY <1>2, <2>1, <3>4
      <3>6. height > 0 => Num(y) > 0
        <4>1. Num(y) \in Nat
          BY <2>1, <3>4, IsNode
        <4> QED
          BY <2>1, <3>4, <4>1
      <3> QED
        BY <2>1, <2>2, <3>1, <3>4, <3>5, <3>6, StillWellFormed
    <2> QED
      BY <2>3, <2>4
  <1> QED
    BY <1>1, <1>2 DEF Insert

\* Deletion keeps WellFormed.
LEMMA DeleteStep ==
  ASSUME WellFormed, NEW k \in KeyValues, Delete(k)
  PROVE  WellFormed'
  <1> DEFINE r == btree_delete_key[height][root][k]
             x == r.node
             w == r.how
  <1>1. status = "tree" /\ present' = present \ {k}
    BY DEF Delete
  <1>2. /\ height \in Nat /\ root \in NodesAt(height)
        /\ height > 0 => Num(root) > 0
        /\ present \subseteq KeyValues /\ present \subseteq KeysIn[height][root]
    BY <1>1, Rooted
  <1>3. Deletes(height, root, k)
    BY <1>2, DeleteKey
  <1>4. /\ x \in NodesAt(height) /\ w \in {"deleted", "cannot", "emptied", "undefined"}
        /\ w = "emptied" => KeysIn[height][root] \subseteq {k}
        /\ KeysIn[height][root] \subseteq KeysIn[height][x] \cup {k}
    BY <1>3 DEF Deletes
  <1>5. /\ IF Keyless(x)
           THEN root' = x.kids[1] /\ height' = height - 1
           ELSE root' = x /\ UNCHANGED height
        /\ status' = CASE w = "emptied" -> "null"
                       [] w = "undefined" -> "undefined"
                       [] OTHER -> "tree"
    BY DEF Delete
  <1> HIDE DEF w, x, r
  <1>6. status' \in {"tree", "null", "undefined"} /\ (status' = "null" => w = "emptied")
    BY <1>4, <1>5
  <1>flag. misplaced' \in BOOLEAN
    BY DEF Delete
  <1>7. /\ present' \subseteq KeyValues /\ present' \subseteq KeysIn[height][x]
        /\ status' = "null" => present' = {}
    BY <1>1, <1>2, <1>4, <1>6
  <1>8. CASE Keyless(x)
    <2> DEFINE g == height - 1
               c == x.kids[1]
    <2>1. root' = c /\ height' = g
      BY <1>5, <1>8
    <2>2. Num(x) = 0 /\ ~Leaf(x)
      BY <1>8 DEF Keyless
    <2>3. height > 0
      BY <1>2, <1>4, <2>2, IsNode
    <2>4. 1 \in 1 .. Num(x) + 1
      BY <2>2
    <2>5. c \in NodesAt(g) /\ g \in Nat /\ Num(c) \in t - 1 .. 2 * t - 1
      BY <1>2, <1>4, <2>3, <2>4, Child
    <2>6. Num(c) > 0
      BY <2>5, DegreeFacts
    <2>7. KeysIn[height][x] \subseteq KeysIn[g][c]
      <3> DEFINE K == KeysIn[g][c]
      <3>1. /\ \A n \in 1 .. Num(x) : x.keys[n] \in K
            /\ \A n \in 1 .. Num(x) + 1 : KeysIn[height - 1][x.kids[n]] \subseteq K
        BY <2>2
      <3> HIDE DEF K
      <3>2. KeysIn[height][x] \subseteq K
        BY <1>2, <1>4, <3>1, Within
      <3> QED
        BY <3>2 DEF K
    <2> HIDE DEF g, c
    <2>8. present' \subseteq KeysIn[g][c]
      BY <1>7, <2>7
    <2> QED
      BY <1>6, <1>7, <1>flag, <2>1, <2>5, <2>6, <2>8, StillWellFormed
  <1>9. CASE ~Keyless(x)
    <2>1. root' = x /\ height' = height
      BY <1>5, <1>9
    <2>2. height > 0 => Num(x) > 0
      <3>1. Num(x) \in Nat /\ (Leaf(x) <=> height = 0)
        BY <1>2, <1>4, IsNode
      <3> QED
        BY <1>2, <1>9, <3>1 DEF Keyless
    <2> QED
      BY <1>2, <1>4, <1>6, <1>7, <1>flag, <2>1, <2>2, StillWellFormed
  <1> QED
    BY <1>8, <1>9

\* The empty tree is well formed.
LEMMA WellFormedInit == Init => WellFormed
  <1> SUFFICES ASSUME Init PROVE WellFormed
    OBVIOUS
  <1>1. root = [keys |-> << >>, kids |-> << >>] /\ height = 0 /\ status = "tree" /\ present = {}
        /\ misplaced = FALSE
    BY DEF Init, EmptyLeaf
  <1>2. << >> \in Seq(KeyValues) /\ << >> \in Seq(Below(0)) /\ Len(<< >>) = 0
    BY EmptySeq
  <1> DEFINE ks == << >>
  <1>3. Len(ks) <= 2 * t - 1 /\ Len(ks) = Children(0, ks)
    BY <1>2, DegreeFacts DEF Children
  <1> HIDE DEF ks
  <1>4. [keys |-> ks, kids |-> ks] \in NodesAt(0)
    BY <1>2, <1>3, NewNode DEF ks
  <1>5. root \in NodesAt(0)
    BY <1>1, <1>4 DEF ks
  <1>6. root \in Trees[0]
    BY <1>5, NodesAreTrees
  <1>7. misplaced \in BOOLEAN
    BY <1>1, Zenon
  <1> QED
    BY <1>1, <1>5, <1>6, <1>7 DEF WellFormed, TypeOK, Balanced, NoKeyLost, NullOnlyWhenEmpty, NodesAt, Below

\* Every step keeps it so.
LEMMA WellFormedStep == WellFormed /\ [Next]_vars => WellFormed'
  <1> SUFFICES ASSUME WellFormed, [Next]_vars PROVE WellFormed'
    OBVIOUS
  <1>1. CASE UNCHANGED vars
    BY <1>1 DEF vars, WellFormed, TypeOK, Balanced, NoKeyLost, NullOnlyWhenEmpty
  <1>2. ASSUME NEW k \in KeyValues, Insert(k) PROVE WellFormed'
    BY <1>2, InsertStep
  <1>3. ASSUME NEW k \in KeyValues, Delete(k) PROVE WellFormed'
    BY <1>3, DeleteStep
  <1>4. ASSUME NEW k \in KeyValues, Overrun(k) PROVE WellFormed'
    BY <1>4 DEF Overrun, WellFormed, TypeOK, Balanced, NoKeyLost, NullOnlyWhenEmpty
  <1> QED
    BY <1>1, <1>2, <1>3, <1>4 DEF Next

\* Lines 55-138 and 196-362: for any keys and any degree, whatever is inserted
\* and deleted, the tree is balanced and filled, no key is lost but those that
\* are deleted, and the root is NULL only when no key is left.  It is so as long
\* as the tree is defined: until a freed node is read, a null root is inserted
\* into, or line 223 has written behind a full node's children.
THEOREM BTreeWellFormed == Spec => []WellFormed
  BY WellFormedInit, WellFormedStep, PTL DEF Spec
-----------------------------------------------------------------------------
(* Search trees *)

\* SearchTrees is what its definition says.
LEMMA SearchDef == \A h \in Nat : SearchTrees[h] = SearchRow(SearchTrees[h - 1], h)
  <1>1. \A p, h : Row("search", 0, p, h) = SearchRow(p, h)
    BY DEF Row
  <1>2. \A p, q : SearchRow(p, 0) = SearchRow(q, 0)
    BY DEF SearchRow
  <1>3. PICK f : f = [h \in Nat |-> Row("search", 0, f[h - 1], h)]
    <2>1. Grounded("search", 0)
      BY <1>1, <1>2 DEF Grounded
    <2> QED
      BY <2>1, Recursion
  <1> DEFINE Ok(g) == g = [h \in Nat |-> SearchRow(g[h - 1], h)]
  <1>4. Ok(f)
    BY <1>1, <1>3
  <1>5. SearchTrees = CHOOSE g : Ok(g)
    BY DEF SearchTrees, SearchRow
  <1>6. Ok(SearchTrees)
    <2> HIDE DEF Ok
    <2> QED
      BY <1>4, <1>5
  <1> QED
    BY <1>6

\* KeySeq is what its definition says; a leaf is not walked.
LEMMA KeySeqDef == \A h \in Nat : KeySeq[h] = KeySeqRow(KeySeq[h - 1], h)
  <1>1. \A p, h : Row("KeySeq", 0, p, h) = KeySeqRow(p, h)
    BY DEF Row
  <1>2. \A p, q : KeySeqRow(p, 0) = KeySeqRow(q, 0)
    BY TreesZero DEF KeySeqRow
  <1>3. PICK f : f = [h \in Nat |-> Row("KeySeq", 0, f[h - 1], h)]
    <2>1. Grounded("KeySeq", 0)
      BY <1>1, <1>2 DEF Grounded
    <2> QED
      BY <2>1, Recursion
  <1> DEFINE Ok(g) == g = [h \in Nat |-> KeySeqRow(g[h - 1], h)]
  <1>4. Ok(f)
    BY <1>1, <1>3
  <1>5. KeySeq = CHOOSE g : Ok(g)
    BY DEF KeySeq, KeySeqRow
  <1>6. Ok(KeySeq)
    <2> HIDE DEF Ok
    <2> QED
      BY <1>4, <1>5
  <1> QED
    BY <1>6

\* f[i] is what the loop of btree_traverse has printed of x after i rounds.
IsWalk(x, below, f) ==
  /\ f[0] = << >>
  /\ \A i \in Nat : f[i + 1] = f[i] \o below[x.kids[i + 1]] \o <<x.keys[i + 1]>>
  /\ Walk(x, below) = f[Num(x)] \o below[x.kids[Num(x) + 1]]

LEMMA WalkDef == ASSUME NEW x, NEW below PROVE \E f : IsWalk(x, below, f)
  <1> DEFINE a == [x |-> x, below |-> below]
  <1>1. \A p, h : Row("walk", a, p, h) = WalkRow(a, p, h)
    BY DEF Row
  <1>2. \A p, q : WalkRow(a, p, 0) = WalkRow(a, q, 0)
    BY DEF WalkRow
  <1>3. PICK f : f = [i \in Nat |-> Row("walk", a, f[i - 1], i)]
    <2> HIDE DEF a
    <2>1. Grounded("walk", a)
      BY <1>1, <1>2 DEF Grounded
    <2> QED
      BY <2>1, Recursion
  <1> DEFINE Ok(g) == g = [i \in Nat |-> IF i = 0 THEN << >> ELSE g[i - 1] \o below[x.kids[i]] \o <<x.keys[i]>>]
             w == CHOOSE g : Ok(g)
  <1>4. Ok(f)
    BY <1>1, <1>3 DEF WalkRow
  <1>5. Walk(x, below) = w[Num(x)] \o below[x.kids[Num(x) + 1]]
    BY DEF Walk
  <1>6. Ok(w)
    <2> HIDE DEF Ok
    <2> QED
      BY <1>4
  <1> HIDE DEF w
  <1>7. w[0] = << >>
    BY <1>6
  <1>8. ASSUME NEW i \in Nat PROVE w[i + 1] = w[i] \o below[x.kids[i + 1]] \o <<x.keys[i + 1]>>
    <2>1. i + 1 \in Nat /\ i + 1 # 0 /\ (i + 1) - 1 = i
      OBVIOUS
    <2>2. w[i + 1] = IF i + 1 = 0 THEN << >> ELSE w[(i + 1) - 1] \o below[x.kids[i + 1]] \o <<x.keys[i + 1]>>
      BY <1>6, <2>1
    <2> QED
      BY <2>1, <2>2
  <1> QED
    BY <1>5, <1>7, <1>8 DEF IsWalk

\* What is known of a search tree, and how one is made.
LEMMA IsSearch ==
  ASSUME NEW h \in Nat, NEW x
  PROVE  x \in SearchTrees[h] <=>
           /\ x \in NodesAt(h) /\ InOrder(h, x)
           /\ h > 0 => \A n \in 1 .. Num(x) + 1 : x.kids[n] \in SearchTrees[h - 1]
  <1>1. SearchTrees[h] = SearchRow(SearchTrees[h - 1], h)
    BY SearchDef
  <1>2. x \in SearchTrees[h] <=>
          x \in NodesAt(h) /\ InOrder(h, x) /\ \A c \in ToSet(x.kids) : c \in IF h = 0 THEN {} ELSE SearchTrees[h - 1]
    BY <1>1 DEF SearchRow
  <1>3. ASSUME x \in NodesAt(h)
        PROVE  (\A c \in ToSet(x.kids) : c \in IF h = 0 THEN {} ELSE SearchTrees[h - 1])
                 <=> (h > 0 => \A n \in 1 .. Num(x) + 1 : x.kids[n] \in SearchTrees[h - 1])
    <2>1. x.kids \in Seq(Below(h)) /\ Len(x.kids) = Children(h, x.keys) /\ Num(x) = Len(x.keys)
      BY <1>3, IsNode
    <2>2. \A c : c \in ToSet(x.kids) <=> \E n \in 1 .. Len(x.kids) : x.kids[n] = c
      BY <2>1, Elements
    <2>3. CASE h = 0
      BY <2>1, <2>2, <2>3 DEF Children
    <2>4. CASE h > 0
      BY <2>1, <2>2, <2>4 DEF Children
    <2> QED
      BY <2>3, <2>4
  <1> QED
    BY <1>2, <1>3
-----------------------------------------------------------------------------
(* Where the operations put keys and children *)

\* Where a splice puts what.
IsSpliceAt(s, i, u, j, r) ==
  /\ \A n \in 1 .. i - 1 : r[n] = s[n]
  /\ \A n \in 1 .. Len(u) : r[i - 1 + n] = u[n]
  /\ \A n \in j .. Len(s) : r[n - (j - i) + Len(u)] = s[n]

LEMMA SpliceAt ==
  ASSUME NEW S, NEW s \in Seq(S), NEW u \in Seq(S), NEW i \in 1 .. Len(s) + 1, NEW j \in i .. Len(s) + 1
  PROVE  IsSpliceAt(s, i, u, j, Spliced(s, i, u, j))
  <1> DEFINE a == SubSeq(s, 1, i - 1)
             b == SubSeq(s, j, Len(s))
  <1>1. Len(s) \in Nat /\ Len(u) \in Nat
    BY Elements
  <1>2. 1 \in 1 .. Len(s) + 1 /\ i - 1 \in 1 - 1 .. Len(s) /\ j \in 1 .. Len(s) + 1 /\ Len(s) \in j - 1 .. Len(s)
    BY <1>1
  <1>3. a \in Seq(S) /\ Len(a) = i - 1 /\ \A n \in 1 .. i - 1 : a[n] = s[n]
    <2>1. a \in Seq(S) /\ Len(a) = (i - 1) - 1 + 1 /\ \A n \in 1 .. (i - 1) - 1 + 1 : a[n] = s[1 + n - 1]
      BY <1>2, Part
    <2> HIDE DEF a
    <2> QED
      BY <1>2, <2>1
  <1>4. b \in Seq(S) /\ Len(b) = Len(s) - j + 1 /\ \A n \in 1 .. Len(s) - j + 1 : b[n] = s[j + n - 1]
    BY <1>2, Part
  <1>5. Spliced(s, i, u, j) = Cat(Cat(a, u), b)
    BY DEF Spliced, Cat
  <1> HIDE DEF a, b
  <1> DEFINE c == Cat(a, u)
             r == Cat(c, b)
  <1>6. /\ c \in Seq(S) /\ Len(c) = Len(a) + Len(u)
        /\ \A n \in 1 .. Len(a) : c[n] = a[n]
        /\ \A n \in 1 .. Len(u) : c[Len(a) + n] = u[n]
    <2>1. IsJoin(S, a, u, c)
      BY <1>3, Joined
    <2> HIDE DEF c
    <2> QED
      BY <2>1 DEF IsJoin
  <1> HIDE DEF c
  <1>7. /\ \A n \in 1 .. Len(c) : r[n] = c[n]
        /\ \A n \in 1 .. Len(b) : r[Len(c) + n] = b[n]
    <2>1. IsJoin(S, c, b, r)
      BY <1>4, <1>6, Joined
    <2> HIDE DEF r
    <2> QED
      BY <2>1 DEF IsJoin
  <1>8. Spliced(s, i, u, j) = r
    BY <1>5 DEF c
  <1> HIDE DEF r
  <1>9. \A n \in 1 .. i - 1 : r[n] = s[n]
    BY <1>1, <1>2, <1>3, <1>6, <1>7
  <1>10. \A n \in 1 .. Len(u) : r[i - 1 + n] = u[n]
    BY <1>1, <1>2, <1>3, <1>6, <1>7
  <1>11. ASSUME NEW n \in j .. Len(s) PROVE r[n - (j - i) + Len(u)] = s[n]
    <2> DEFINE m == n - j + 1
    <2>1. m \in 1 .. Len(s) - j + 1 /\ j + m - 1 = n /\ Len(c) + m = n - (j - i) + Len(u)
      BY <1>1, <1>2, <1>3, <1>6
    <2> HIDE DEF m
    <2>2. b[m] = s[n] /\ r[Len(c) + m] = b[m]
      BY <1>4, <1>7, <2>1
    <2> QED
      BY <2>1, <2>2
  <1> QED
    BY <1>8, <1>9, <1>10, <1>11 DEF IsSpliceAt

\* Where InsertAt puts what.
LEMMA InsertingAt ==
  ASSUME NEW S, NEW s \in Seq(S), NEW i \in 1 .. Len(s) + 1, NEW e \in S
  PROVE  LET r == InsertAt(s, i, e)
         IN /\ \A n \in 1 .. i - 1 : r[n] = s[n]
            /\ r[i] = e
            /\ \A n \in i + 1 .. Len(s) + 1 : r[n] = s[n - 1]
  <1> DEFINE u == <<e>>
             r == InsertAt(s, i, e)
  <1>1. r = Spliced(s, i, u, i)
    BY DEF InsertAt, Spliced
  <1>2. u \in Seq(S) /\ Len(u) = 1 /\ u[1] = e /\ Len(s) \in Nat
    BY One, Elements
  <1>3. i \in i .. Len(s) + 1 /\ i \in Int
    BY <1>2
  <1> HIDE DEF u, r
  <1>4. IsSpliceAt(s, i, u, i, r)
    BY <1>1, <1>2, <1>3, SpliceAt
  <1>5. /\ \A n \in 1 .. i - 1 : r[n] = s[n]
        /\ \A n \in 1 .. Len(u) : r[i - 1 + n] = u[n]
        /\ \A n \in i .. Len(s) : r[n - (i - i) + Len(u)] = s[n]
    BY <1>4 DEF IsSpliceAt
  <1>6. r[i] = e
    <2>1. 1 \in 1 .. Len(u) /\ i - 1 + 1 = i
      BY <1>2, <1>3
    <2> QED
      BY <1>2, <1>5, <2>1
  <1>7. ASSUME NEW n \in i + 1 .. Len(s) + 1 PROVE r[n] = s[n - 1]
    <2>1. n - 1 \in i .. Len(s) /\ (n - 1) - (i - i) + Len(u) = n
      BY <1>2, <1>3
    <2> QED
      BY <1>5, <2>1
  <1> QED
    BY <1>5, <1>6, <1>7 DEF r

\* Where the parts of a node are in it.
LEMMA CutAt ==
  ASSUME NEW g \in Nat, NEW y \in NodesAt(g), NEW a \in 1 .. Num(y) + 1, NEW b \in a - 1 .. Num(y)
  PROVE  LET p == Piece(y, a, b)
         IN /\ \A n \in 1 .. b - a + 1 : p.keys[n] = y.keys[a + n - 1]
            /\ g > 0 => \A n \in 1 .. b - a + 2 : p.kids[n] = y.kids[a + n - 1]
  <1>1. /\ y.keys \in Seq(KeyValues) /\ y.kids \in Seq(Below(g)) /\ Num(y) \in Nat
        /\ Num(y) = Len(y.keys) /\ (Leaf(y) <=> g = 0) /\ (g > 0 => Len(y.kids) = Num(y) + 1)
    BY IsNode
  <1>2. a \in 1 .. Len(y.keys) + 1 /\ b \in a - 1 .. Len(y.keys) /\ a \in Int /\ b \in Int
    BY <1>1
  <1>3. Piece(y, a, b).keys = SubSeq(y.keys, a, b) /\ Piece(y, a, b).kids = Kids(y, a, b + 1)
    BY DEF Piece
  <1>4. \A n \in 1 .. b - a + 1 : SubSeq(y.keys, a, b)[n] = y.keys[a + n - 1]
    BY <1>1, <1>2, Part
  <1>5. CASE g = 0
    BY <1>3, <1>4, <1>5
  <1>6. CASE g > 0
    <2> DEFINE e == b + 1
    <2>1. a \in 1 .. Len(y.kids) + 1 /\ e \in a - 1 .. Len(y.kids) /\ b - a + 2 = e - a + 1
      BY <1>1, <1>2, <1>6
    <2>2. Kids(y, a, b + 1) = SubSeq(y.kids, a, e)
      BY <1>1, <1>6 DEF Kids
    <2> HIDE DEF e
    <2>3. \A n \in 1 .. e - a + 1 : SubSeq(y.kids, a, e)[n] = y.kids[a + n - 1]
      BY <1>1, <2>1, Part
    <2> QED
      BY <1>3, <1>4, <2>1, <2>2, <2>3
  <1> QED
    BY <1>5, <1>6

\* A part of a search tree is one; its keys are some of the tree's, and beyond
\* those it was cut from.
IsPiece(g, y, a, b, p) ==
  /\ p \in SearchTrees[g] /\ KeysIn[g][p] \subseteq KeysIn[g][y]
  /\ \A e \in KeysIn[g][p] : (\A m \in 1 .. a - 1 : y.keys[m] < e) /\ (\A m \in b + 1 .. Num(y) : e < y.keys[m])

LEMMA CutSearch ==
  ASSUME NEW g \in Nat, NEW y \in SearchTrees[g], NEW a \in 1 .. Num(y) + 1, NEW b \in a - 1 .. Num(y)
  PROVE  IsPiece(g, y, a, b, Piece(y, a, b))
  <1> DEFINE p == Piece(y, a, b)
  <1>1. y \in NodesAt(g) /\ InOrder(g, y) /\ (g > 0 => \A n \in 1 .. Num(y) + 1 : y.kids[n] \in SearchTrees[g - 1])
    BY IsSearch
  <1>2. Num(y) \in Nat /\ y.keys \in Seq(KeyValues) /\ Num(y) = Len(y.keys)
    BY <1>1, IsNode
  <1>3. a \in Int /\ b \in Int /\ 1 <= a /\ b <= Num(y) /\ a - 1 <= b
    BY <1>2
  <1>4. p \in NodesAt(g) /\ Num(p) = b - a + 1
    BY <1>1, Cut
  <1>5. /\ \A n \in 1 .. b - a + 1 : p.keys[n] = y.keys[a + n - 1]
        /\ g > 0 => \A n \in 1 .. b - a + 2 : p.kids[n] = y.kids[a + n - 1]
    BY <1>1, CutAt
  <1> HIDE DEF p
  <1>6. /\ \A m, n \in 1 .. Num(y) : m < n => y.keys[m] < y.keys[n]
        /\ g > 0 => \A n \in 1 .. Num(y) + 1 : \A e \in KeysIn[g - 1][y.kids[n]] : \A m \in 1 .. Num(y) :
                      IF m < n THEN y.keys[m] < e ELSE e < y.keys[m]
    BY <1>1 DEF InOrder
  <1>7. \A n \in 1 .. Num(p) : p.keys[n] = y.keys[a + n - 1] /\ a + n - 1 \in a .. b /\ a + n - 1 \in 1 .. Num(y)
    <2>1. ASSUME NEW n \in 1 .. Num(p)
          PROVE  n \in 1 .. b - a + 1 /\ a + n - 1 \in a .. b /\ a + n - 1 \in 1 .. Num(y)
      BY <1>2, <1>3, <1>4
    <2> QED
      BY <1>5, <2>1
  <1>8. g > 0 => \A n \in 1 .. Num(p) + 1 : p.kids[n] = y.kids[a + n - 1] /\ a + n - 1 \in a .. b + 1 /\ a + n - 1 \in 1 .. Num(y) + 1
    <2>1. ASSUME NEW n \in 1 .. Num(p) + 1
          PROVE  n \in 1 .. b - a + 2 /\ a + n - 1 \in a .. b + 1 /\ a + n - 1 \in 1 .. Num(y) + 1
      BY <1>2, <1>3, <1>4
    <2> QED
      BY <1>5, <2>1
  <1>9. InOrder(g, p)
    <2>1. ASSUME NEW m \in 1 .. Num(p), NEW n \in 1 .. Num(p), m < n PROVE p.keys[m] < p.keys[n]
      BY <1>3, <1>6, <1>7, <2>1
    <2>2. ASSUME g > 0, NEW n \in 1 .. Num(p) + 1, NEW e \in KeysIn[g - 1][p.kids[n]], NEW m \in 1 .. Num(p)
          PROVE  IF m < n THEN p.keys[m] < e ELSE e < p.keys[m]
      <3> DEFINE i == a + m - 1
                 j == a + n - 1
      <3>1. p.keys[m] = y.keys[i] /\ i \in 1 .. Num(y)
        BY <1>7
      <3>2. e \in KeysIn[g - 1][y.kids[j]] /\ j \in 1 .. Num(y) + 1
        BY <1>8, <2>2
      <3>3. m < n <=> i < j
        BY <1>3, <1>4
      <3>4. IF i < j THEN y.keys[i] < e ELSE e < y.keys[i]
        BY <1>6, <2>2, <3>1, <3>2
      <3> QED
        BY <3>1, <3>3, <3>4
    <2> QED
      BY <2>1, <2>2 DEF InOrder
  <1>10. p \in SearchTrees[g]
    BY <1>1, <1>4, <1>8, <1>9, IsSearch
  <1>11. /\ \A n \in 1 .. Num(y) : y.keys[n] \in KeysIn[g][y]
         /\ g > 0 => \A n \in 1 .. Num(y) + 1 : KeysIn[g - 1][y.kids[n]] \subseteq KeysIn[g][y]
    BY <1>1, Reaches
  <1>12. KeysIn[g][p] \subseteq KeysIn[g][y]
    <2> DEFINE K == KeysIn[g][y]
    <2>1. ASSUME NEW n \in 1 .. Num(p) PROVE p.keys[n] \in K
      <3> DEFINE j == a + n - 1
      <3>1. p.keys[n] = y.keys[j] /\ j \in 1 .. Num(y)
        BY <1>7
      <3> HIDE DEF j
      <3> QED
        BY <1>11, <3>1
    <2>2. g > 0 => \A n \in 1 .. Num(p) + 1 : KeysIn[g - 1][p.kids[n]] \subseteq K
      BY <1>8, <1>11
    <2> HIDE DEF K
    <2>3. KeysIn[g][p] \subseteq K
      BY <1>4, <2>1, <2>2, Within
    <2> QED
      BY <2>3 DEF K
  <1>13. \A e \in KeysIn[g][p] : (\A m \in 1 .. a - 1 : y.keys[m] < e) /\ (\A m \in b + 1 .. Num(y) : e < y.keys[m])
    <2> DEFINE Q(e) == (\A m \in 1 .. a - 1 : y.keys[m] < e) /\ (\A m \in b + 1 .. Num(y) : e < y.keys[m])
               K == {e \in KeysIn[g][p] : Q(e)}
    <2>1. /\ \A n \in 1 .. Num(p) : p.keys[n] \in KeysIn[g][p]
          /\ g > 0 => \A n \in 1 .. Num(p) + 1 : KeysIn[g - 1][p.kids[n]] \subseteq KeysIn[g][p]
      BY <1>4, Reaches
    <2>2. ASSUME NEW n \in 1 .. Num(p) PROVE p.keys[n] \in K
      <3> DEFINE j == a + n - 1
      <3>1. p.keys[n] = y.keys[j] /\ j \in 1 .. Num(y) /\ j \in a .. b
        BY <1>7
      <3> HIDE DEF j
      <3>2. (\A m \in 1 .. a - 1 : m \in 1 .. Num(y) /\ m < j) /\ (\A m \in b + 1 .. Num(y) : m \in 1 .. Num(y) /\ j < m)
        BY <1>2, <1>3, <3>1
      <3>3. Q(p.keys[n])
        BY <1>6, <3>1, <3>2
      <3> QED
        BY <2>1, <3>3
    <2>3. ASSUME g > 0, NEW n \in 1 .. Num(p) + 1, NEW e \in KeysIn[g - 1][p.kids[n]] PROVE e \in K
      <3> DEFINE j == a + n - 1
      <3>1. e \in KeysIn[g - 1][y.kids[j]] /\ j \in 1 .. Num(y) + 1 /\ j \in a .. b + 1
        BY <1>8, <2>3
      <3> HIDE DEF j
      <3>2. \A m \in 1 .. Num(y) : IF m < j THEN y.keys[m] < e ELSE e < y.keys[m]
        BY <1>6, <2>3, <3>1
      <3>3. \A m \in 1 .. a - 1 : m \in 1 .. Num(y) /\ m < j
        BY <1>2, <1>3, <3>1
      <3>4. \A m \in b + 1 .. Num(y) : m \in 1 .. Num(y) /\ ~(m < j)
        BY <1>2, <1>3, <3>1
      <3>5. Q(e)
        BY ONLY <3>2, <3>3, <3>4
      <3> QED
        BY <2>1, <2>3, <3>5
    <2>4. g > 0 => \A n \in 1 .. Num(p) + 1 : KeysIn[g - 1][p.kids[n]] \subseteq K
      BY <2>3
    <2>5. \A e \in K : Q(e)
      OBVIOUS
    <2> HIDE DEF K
    <2>6. KeysIn[g][p] \subseteq K
      BY <1>4, <2>2, <2>4, Within
    <2> QED
      BY <2>5, <2>6
  <1> QED
    BY <1>10, <1>12, <1>13 DEF IsPiece, p

\* A search tree with its facts spelled out.
LEMMA Ascends ==
  ASSUME NEW h \in Nat, NEW x \in SearchTrees[h]
  PROVE  /\ x \in NodesAt(h) /\ Num(x) \in Nat
         /\ \A n \in 1 .. Num(x) : x.keys[n] \in Int /\ x.keys[n] \in KeyValues
         /\ \A m, n \in 1 .. Num(x) : m < n => x.keys[m] < x.keys[n]
         /\ h > 0 => \A n \in 1 .. Num(x) + 1 :
              /\ x.kids[n] \in SearchTrees[h - 1]
              /\ \A e \in KeysIn[h - 1][x.kids[n]] : \A m \in 1 .. Num(x) :
                   (m < n => x.keys[m] < e) /\ (m >= n => e < x.keys[m])
  <1>1. x \in NodesAt(h) /\ InOrder(h, x) /\ (h > 0 => \A n \in 1 .. Num(x) + 1 : x.kids[n] \in SearchTrees[h - 1])
    BY IsSearch
  <1>2. x.keys \in Seq(KeyValues) /\ Num(x) \in Nat /\ Num(x) = Len(x.keys)
    BY <1>1, IsNode
  <1>3. \A n \in 1 .. Num(x) : x.keys[n] \in Int /\ x.keys[n] \in KeyValues
    BY <1>2, DegreeFacts, Elements
  <1>4. /\ \A m, n \in 1 .. Num(x) : m < n => x.keys[m] < x.keys[n]
        /\ h > 0 => \A n \in 1 .. Num(x) + 1 : \A e \in KeysIn[h - 1][x.kids[n]] : \A m \in 1 .. Num(x) :
                IF m < n THEN x.keys[m] < e ELSE e < x.keys[m]
    BY <1>1 DEF InOrder
  <1>5. h > 0 => \A n \in 1 .. Num(x) + 1 : \A e \in KeysIn[h - 1][x.kids[n]] : \A m \in 1 .. Num(x) :
                (m < n => x.keys[m] < e) /\ (m >= n => e < x.keys[m])
    <2>1. \A n \in 1 .. Num(x) + 1 : \A m \in 1 .. Num(x) : m >= n => ~(m < n)
      BY <1>2
    <2> QED
      BY <1>4, <2>1
  <1> QED
    BY <1>1, <1>2, <1>3, <1>4, <1>5

\* The keys of a tree are keys.
LEMMA KeysAreKeys == \A h \in Nat : \A x \in NodesAt(h) : KeysIn[h][x] \subseteq KeyValues
  <1> DEFINE Good == {h \in Nat : \A x \in NodesAt(h) : KeysIn[h][x] \subseteq KeyValues}
  <1>1. ASSUME NEW h \in Nat, NEW x \in NodesAt(h),
               h > 0 => \A n \in 1 .. Num(x) + 1 : KeysIn[h - 1][x.kids[n]] \subseteq KeyValues
        PROVE  KeysIn[h][x] \subseteq KeyValues
    <2>1. x.keys \in Seq(KeyValues) /\ Num(x) = Len(x.keys)
      BY IsNode
    <2>2. \A n \in 1 .. Num(x) : x.keys[n] \in KeyValues
      BY <2>1, Elements
    <2> QED
      BY ONLY <1>1, <2>2, Within
  <1>2. 0 \in Good
    BY <1>1
  <1>3. ASSUME NEW g \in Nat, g \in Good PROVE g + 1 \in Good
    <2> DEFINE h == g + 1
    <2> SUFFICES ASSUME NEW x \in NodesAt(h) PROVE KeysIn[h][x] \subseteq KeyValues
      OBVIOUS
    <2>1. h \in Nat /\ h > 0 /\ h - 1 = g
      OBVIOUS
    <2> HIDE DEF h
    <2>2. \A n \in 1 .. Num(x) + 1 : KeysIn[h - 1][x.kids[n]] \subseteq KeyValues
      BY <1>3, <2>1, Child
    <2> QED
      BY <1>1, <2>1, <2>2
  <1> HIDE DEF Good
  <1>4. \A h \in Nat : h \in Good
    BY <1>2, <1>3, FromZero
  <1> QED
    BY <1>4 DEF Good

\* Where a split puts keys and children, low and high being the halves.
IsSplit(x, i, mid, low, high, s) ==
  /\ \A n \in 1 .. i - 1 : s.keys[n] = x.keys[n] /\ s.kids[n] = x.kids[n]
  /\ s.keys[i] = mid /\ s.kids[i] = low /\ s.kids[i + 1] = high
  /\ \A n \in i + 1 .. Num(x) + 1 : s.keys[n] = x.keys[n - 1]
  /\ \A n \in i + 2 .. Num(x) + 2 : s.kids[n] = x.kids[n - 1]

LEMMA SplitAt ==
  ASSUME NEW h \in Nat, h > 0, NEW x \in NodesAt(h), NEW i \in 1 .. Num(x) + 1, Num(x.kids[i]) = 2 * t - 1
  PROVE  LET y == x.kids[i]
         IN IsSplit(x, i, y.keys[t], Piece(y, 1, t - 1), Piece(y, t + 1, 2 * t - 1), btree_split_child(x, i))
  <1> DEFINE s    == btree_split_child(x, i)
             y    == x.kids[i]
             low  == Piece(y, 1, t - 1)
             high == Piece(y, t + 1, 2 * t - 1)
             ks   == InsertAt(x.keys, i, y.keys[t])
             u    == <<low, high>>
             cs   == Spliced(x.kids, i, u, i + 1)
  <1>1. /\ x.keys \in Seq(KeyValues) /\ x.kids \in Seq(Below(h)) /\ Num(x) \in Nat
        /\ Num(x) = Len(x.keys) /\ Len(x.kids) = Num(x) + 1
    BY IsNode
  <1>2. h - 1 \in Nat /\ Below(h) = Subtrees[h - 1] /\ y \in NodesAt(h - 1)
    BY Child DEF Below
  <1>3. s.keys = ks /\ s.kids = cs
    <2>1. (t - 1) + 1 = t /\ (2 * t - 1) + 1 = 2 * t
      BY DegreeFacts
    <2>2. /\ low = [keys |-> SubSeq(y.keys, 1, t - 1), kids |-> Kids(y, 1, t)]
          /\ high = [keys |-> SubSeq(y.keys, t + 1, 2 * t - 1), kids |-> Kids(y, t + 1, 2 * t)]
      BY <2>1 DEF Piece
    <2> HIDE DEF low, high, y
    <2>3. s = [keys |-> ks, kids |-> cs]
      BY <2>2 DEF btree_split_child, Spliced, y
    <2> HIDE DEF s
    <2> QED
      BY <2>3
  <1>0. Num(y) = 2 * t - 1
    OBVIOUS
  <1> HIDE DEF y
  <1>4. y.keys \in Seq(KeyValues) /\ Num(y) = Len(y.keys) /\ Num(y) = 2 * t - 1
    BY <1>0, <1>2, IsNode
  <1>5. y.keys[t] \in KeyValues
    <2>1. t \in 1 .. Len(y.keys)
      BY <1>4, DegreeFacts
    <2> QED
      BY <1>4, <2>1, Elements
  <1>6. low \in NodesAt(h - 1) /\ Num(low) = t - 1
    <2> HIDE DEF low
    <2>1. 1 \in 1 .. Num(y) + 1 /\ t - 1 \in 1 - 1 .. Num(y) /\ (t - 1) - 1 + 1 = t - 1
      BY <1>4, DegreeFacts
    <2>2. low \in NodesAt(h - 1) /\ Num(low) = (t - 1) - 1 + 1
      BY ONLY <1>2, <2>1, Cut DEF low
    <2> QED
      BY <2>1, <2>2
  <1>7. high \in NodesAt(h - 1) /\ Num(high) = t - 1
    <2> HIDE DEF high
    <2>1. /\ t + 1 \in 1 .. Num(y) + 1 /\ 2 * t - 1 \in (t + 1) - 1 .. Num(y)
          /\ (2 * t - 1) - (t + 1) + 1 = t - 1
      BY <1>4, DegreeFacts
    <2>2. high \in NodesAt(h - 1) /\ Num(high) = (2 * t - 1) - (t + 1) + 1
      BY ONLY <1>2, <2>1, Cut DEF high
    <2> QED
      BY <2>1, <2>2
  <1> HIDE DEF low, high
  <1>8. low \in Below(h) /\ high \in Below(h)
    BY <1>2, <1>6, <1>7, IsSubtree, DegreeFacts
  <1>9. /\ \A n \in 1 .. i - 1 : ks[n] = x.keys[n]
        /\ ks[i] = y.keys[t]
        /\ \A n \in i + 1 .. Len(x.keys) + 1 : ks[n] = x.keys[n - 1]
    BY <1>1, <1>5, InsertingAt
  <1> HIDE DEF ks
  <1>10. u \in Seq(Below(h)) /\ Len(u) = 2 /\ u[1] = low /\ u[2] = high
    BY <1>8, Two
  <1> HIDE DEF u
  <1>11. i \in 1 .. Len(x.kids) + 1 /\ i + 1 \in i .. Len(x.kids) + 1 /\ i \in Int
    BY <1>1
  <1>12. IsSpliceAt(x.kids, i, u, i + 1, cs)
    BY ONLY <1>1, <1>10, <1>11, SpliceAt
  <1> HIDE DEF cs
  <1>13. /\ \A n \in 1 .. i - 1 : cs[n] = x.kids[n]
         /\ \A n \in 1 .. Len(u) : cs[i - 1 + n] = u[n]
         /\ \A n \in i + 1 .. Len(x.kids) : cs[n - ((i + 1) - i) + Len(u)] = x.kids[n]
    BY <1>12 DEF IsSpliceAt
  <1>14. cs[i] = low /\ cs[i + 1] = high
    <2>1. cs[i - 1 + 1] = low /\ cs[i - 1 + 2] = high
      BY <1>10, <1>13
    <2>2. i - 1 + 1 = i /\ i - 1 + 2 = i + 1
      BY <1>11
    <2> QED
      BY <2>1, <2>2
  <1>15. ASSUME NEW n \in i + 2 .. Num(x) + 2 PROVE cs[n] = x.kids[n - 1]
    <2>1. n - 1 \in i + 1 .. Len(x.kids) /\ (n - 1) - ((i + 1) - i) + Len(u) = n
      BY <1>1, <1>10, <1>11
    <2> QED
      BY <1>13, <2>1
  <1> HIDE DEF s
  <1>16. IsSplit(x, i, y.keys[t], low, high, s)
    BY <1>1, <1>3, <1>9, <1>13, <1>14, <1>15 DEF IsSplit
  <1> QED
    BY <1>16 DEF low, high, s, y
-----------------------------------------------------------------------------
(* Insertion into search trees *)

\* A split in a search tree leaves one, with the same keys.
LEMMA SplitSearch ==
  ASSUME NEW h \in Nat, h > 0, NEW x \in SearchTrees[h], Num(x) < 2 * t - 1, NEW i \in 1 .. Num(x) + 1,
         Num(x.kids[i]) = 2 * t - 1
  PROVE  LET s == btree_split_child(x, i)
         IN s \in SearchTrees[h] /\ KeysIn[h][s] = KeysIn[h][x]
  <1> DEFINE s    == btree_split_child(x, i)
             y    == x.kids[i]
             low  == Piece(y, 1, t - 1)
             high == Piece(y, t + 1, 2 * t - 1)
             mid  == y.keys[t]
             g    == h - 1
  <1>1. /\ x \in NodesAt(h) /\ Num(x) \in Nat
        /\ \A n \in 1 .. Num(x) : x.keys[n] \in Int
        /\ \A m, n \in 1 .. Num(x) : m < n => x.keys[m] < x.keys[n]
        /\ \A n \in 1 .. Num(x) + 1 :
             /\ x.kids[n] \in SearchTrees[g]
             /\ \A e \in KeysIn[g][x.kids[n]] : \A m \in 1 .. Num(x) :
                  (m < n => x.keys[m] < e) /\ (m >= n => e < x.keys[m])
    BY Ascends
  <1>2. /\ s \in NodesAt(h) /\ Num(s) = Num(x) + 1 /\ KeysIn[h][x] \subseteq KeysIn[h][s]
    BY <1>1, SplitChild
  <1>3. IsSplit(x, i, mid, low, high, s)
    BY <1>1, SplitAt
  <1> HIDE DEF s
  <1>4. g \in Nat /\ y \in SearchTrees[g] /\ Num(y) = 2 * t - 1 /\ y \in NodesAt(g) /\ i \in Int
    BY <1>1, IsSearch
  <1>5. mid \in KeysIn[g][y] /\ KeysIn[g][y] \subseteq KeyValues
    <2>1. t \in 1 .. Num(y)
      BY <1>4, DegreeFacts
    <2> HIDE DEF g, y
    <2> QED
      BY <1>4, <2>1, Reaches, KeysAreKeys
  <1>6. /\ \A m \in 1 .. i - 1 : \A e \in KeysIn[g][y] : x.keys[m] < e
        /\ \A m \in i .. Num(x) : \A e \in KeysIn[g][y] : e < x.keys[m]
    BY <1>1, <1>4
  <1>7. low \in SearchTrees[g] /\ KeysIn[g][low] \subseteq KeysIn[g][y] /\ \A e \in KeysIn[g][low] : e < mid
    <2> HIDE DEF low, y, g, mid
    <2>1. 1 \in 1 .. Num(y) + 1 /\ t - 1 \in 1 - 1 .. Num(y) /\ t \in (t - 1) + 1 .. Num(y)
      BY <1>4, DegreeFacts
    <2>2. IsPiece(g, y, 1, t - 1, low)
      BY <1>4, <2>1, CutSearch DEF low
    <2> QED
      BY <2>1, <2>2 DEF IsPiece, mid
  <1>8. high \in SearchTrees[g] /\ KeysIn[g][high] \subseteq KeysIn[g][y] /\ \A e \in KeysIn[g][high] : mid < e
    <2> HIDE DEF high, y, g, mid
    <2>1. t + 1 \in 1 .. Num(y) + 1 /\ 2 * t - 1 \in (t + 1) - 1 .. Num(y) /\ t \in 1 .. (t + 1) - 1
      BY <1>4, DegreeFacts
    <2>2. IsPiece(g, y, t + 1, 2 * t - 1, high)
      BY <1>4, <2>1, CutSearch DEF high
    <2> QED
      BY <2>1, <2>2 DEF IsPiece, mid
  <1> HIDE DEF low, high, mid
  <1>9. /\ \A n \in 1 .. i - 1 : s.keys[n] = x.keys[n] /\ s.kids[n] = x.kids[n]
        /\ s.keys[i] = mid /\ s.kids[i] = low /\ s.kids[i + 1] = high
        /\ \A n \in i + 1 .. Num(x) + 1 : s.keys[n] = x.keys[n - 1]
        /\ \A n \in i + 2 .. Num(x) + 2 : s.kids[n] = x.kids[n - 1]
    BY <1>3 DEF IsSplit
  <1>10. i \in 1 .. Num(x) + 1 /\ y = x.kids[i]
    OBVIOUS
  <1> HIDE DEF y, g
  <1>16. \A n \in 1 .. Num(x) + 1 : KeysIn[g][x.kids[n]] \subseteq Int
    BY <1>1, <1>4, KeysAreKeys, IsSearch, DegreeFacts
  <1>11. \A m, n \in 1 .. Num(s) : m < n => s.keys[m] < s.keys[n]
    <2> SUFFICES ASSUME NEW m \in 1 .. Num(s), NEW n \in 1 .. Num(s), m < n PROVE s.keys[m] < s.keys[n]
      OBVIOUS
    <2>1. CASE n < i
      BY <1>1, <1>2, <1>4, <1>9, <2>1
    <2>2. CASE n = i
      BY <1>1, <1>2, <1>4, <1>5, <1>6, <1>9, <2>2
    <2>3. CASE n > i
      <3>1. n - 1 \in i .. Num(x) /\ s.keys[n] = x.keys[n - 1]
        BY <1>1, <1>2, <1>4, <1>9, <2>3
      <3>2. CASE m < i
        BY <1>1, <1>2, <1>4, <1>9, <3>1, <3>2
      <3>3. CASE m = i
        BY <1>5, <1>6, <1>9, <3>1, <3>3
      <3>4. CASE m > i
        <4>1. m - 1 \in i .. Num(x) /\ s.keys[m] = x.keys[m - 1]
          BY <1>1, <1>2, <1>4, <1>9, <3>4
        <4> QED
          BY <1>1, <1>4, <3>1, <4>1
      <3> QED
        BY <1>4, <3>2, <3>3, <3>4
    <2> QED
      BY <1>4, <2>1, <2>2, <2>3
  <1>12. ASSUME NEW n \in 1 .. Num(s) + 1
         PROVE  /\ s.kids[n] \in SearchTrees[g]
                /\ \E j \in 1 .. Num(x) + 1 : KeysIn[g][s.kids[n]] \subseteq KeysIn[g][x.kids[j]]
                /\ \A e \in KeysIn[g][s.kids[n]] : \A m \in 1 .. Num(s) :
                     IF m < n THEN s.keys[m] < e ELSE e < s.keys[m]
    <2>1. CASE n < i
      <3>1. s.kids[n] = x.kids[n] /\ n \in 1 .. Num(x)
        BY <1>1, <1>2, <1>4, <1>9, <2>1
      <3>2. ASSUME NEW e \in KeysIn[g][x.kids[n]], NEW m \in 1 .. Num(s)
            PROVE  IF m < n THEN s.keys[m] < e ELSE e < s.keys[m]
        <4>1. CASE m < i
          <5>1. m \in 1 .. Num(x) /\ n \in 1 .. Num(x) + 1 /\ s.keys[m] = x.keys[m] /\ (m < n \/ m >= n)
            BY <1>1, <1>2, <1>4, <1>9, <3>1, <4>1
          <5> QED
            BY <1>1, <3>2, <5>1
        <4>2. CASE m >= i
          <5>1. ~(m < n)
            BY <1>4, <2>1, <3>1, <4>2
          <5>2. CASE m > i
            <6>1. m - 1 \in 1 .. Num(x) /\ m - 1 >= n /\ s.keys[m] = x.keys[m - 1] /\ n \in 1 .. Num(x) + 1
              BY <1>1, <1>2, <1>4, <1>9, <2>1, <3>1, <5>2
            <6>2. e < x.keys[m - 1]
              BY <1>1, <3>2, <6>1
            <6> QED
              BY <5>1, <6>1, <6>2
          <5>3. CASE m = i
            <6>1. n \in 1 .. Num(x) + 1 /\ n >= n /\ n \in 1 .. i - 1
              BY <1>1, <1>4, <2>1, <3>1
            <6>2. e < x.keys[n]
              BY <1>1, <3>1, <3>2, <6>1
            <6>3. x.keys[n] < mid
              BY <1>5, <1>6, <6>1
            <6>4. e \in Int /\ mid \in Int /\ x.keys[n] \in Int
              BY <1>1, <1>5, <1>16, <3>1, <3>2, <6>1, DegreeFacts
            <6> QED
              BY <1>9, <5>1, <5>3, <6>2, <6>3, <6>4
          <5> QED
            BY <1>4, <4>2, <5>2, <5>3
        <4> QED
          BY <1>4, <4>1, <4>2
      <3> QED
        BY <1>1, <3>1, <3>2
    <2>2. CASE n = i
      <3>1. s.kids[n] = low
        BY <1>9, <2>2
      <3>2. ASSUME NEW e \in KeysIn[g][low], NEW m \in 1 .. Num(s)
            PROVE  IF m < n THEN s.keys[m] < e ELSE e < s.keys[m]
        <4>1. CASE m < i
          BY <1>4, <1>6, <1>7, <1>9, <2>2, <4>1
        <4>2. CASE m = i
          BY <1>4, <1>7, <1>9, <2>2, <4>2
        <4>3. CASE m > i
          <5>1. m - 1 \in i .. Num(x) /\ s.keys[m] = x.keys[m - 1]
            BY <1>1, <1>2, <1>4, <1>9, <4>3
          <5> QED
            BY <1>4, <1>6, <1>7, <2>2, <4>3, <5>1
        <4> QED
          BY <1>4, <4>1, <4>2, <4>3
      <3> QED
        BY <1>7, <1>10, <3>1, <3>2
    <2>3. CASE n = i + 1
      <3>1. s.kids[n] = high
        BY <1>9, <2>3
      <3>2. ASSUME NEW e \in KeysIn[g][high], NEW m \in 1 .. Num(s)
            PROVE  IF m < n THEN s.keys[m] < e ELSE e < s.keys[m]
        <4>1. CASE m < i
          BY <1>4, <1>6, <1>8, <1>9, <2>3, <4>1
        <4>2. CASE m = i
          BY <1>4, <1>8, <1>9, <2>3, <4>2
        <4>3. CASE m > i
          <5>1. m - 1 \in i .. Num(x) /\ s.keys[m] = x.keys[m - 1]
            BY <1>1, <1>2, <1>4, <1>9, <4>3
          <5> QED
            BY <1>4, <1>6, <1>8, <2>3, <4>3, <5>1
        <4> QED
          BY <1>4, <4>1, <4>2, <4>3
      <3> QED
        BY <1>8, <1>10, <3>1, <3>2
    <2>4. CASE n > i + 1
      <3> DEFINE j == n - 1
      <3>1. j \in i + 1 .. Num(x) + 1 /\ s.kids[n] = x.kids[j] /\ j \in 1 .. Num(x) + 1 /\ n = j + 1
        BY <1>1, <1>2, <1>4, <1>9, <2>4
      <3> HIDE DEF j
      <3>2. ASSUME NEW e \in KeysIn[g][x.kids[j]], NEW m \in 1 .. Num(s)
            PROVE  IF m < n THEN s.keys[m] < e ELSE e < s.keys[m]
        <4>1. CASE m < i
          <5>1. m \in 1 .. Num(x) /\ m < j /\ m < n /\ s.keys[m] = x.keys[m]
            BY <1>1, <1>2, <1>4, <1>9, <3>1, <4>1
          <5> QED
            BY <1>1, <3>1, <3>2, <5>1
        <4>2. CASE m = i
          <5>1. i \in 1 .. Num(x) /\ i < j /\ m < n
            BY <1>1, <1>4, <3>1, <4>2
          <5>2. mid < x.keys[i] /\ x.keys[i] < e
            BY <1>1, <1>5, <1>6, <3>1, <3>2, <5>1
          <5>3. mid \in Int /\ x.keys[i] \in Int /\ e \in Int
            BY <1>1, <1>5, <1>16, <3>1, <3>2, <5>1, DegreeFacts
          <5> QED
            BY <1>9, <4>2, <5>1, <5>2, <5>3
        <4>3. CASE m > i
          <5>1. m - 1 \in 1 .. Num(x) /\ s.keys[m] = x.keys[m - 1] /\ (m < n <=> m - 1 < j) /\ (m - 1 < j \/ m - 1 >= j)
            BY <1>1, <1>2, <1>4, <1>9, <3>1, <4>3
          <5> QED
            BY <1>1, <3>1, <3>2, <5>1
        <4> QED
          BY <1>4, <4>1, <4>2, <4>3
      <3> QED
        BY <1>1, <3>1, <3>2
    <2> QED
      BY <1>4, <2>1, <2>2, <2>3, <2>4
  <1>13. InOrder(h, s)
    BY <1>11, <1>12 DEF InOrder, g
  <1>14. s \in SearchTrees[h]
    BY <1>2, <1>12, <1>13, IsSearch DEF g
  <1>15. KeysIn[h][s] \subseteq KeysIn[h][x]
    <2>1. /\ \A n \in 1 .. Num(x) : x.keys[n] \in KeysIn[h][x]
          /\ \A n \in 1 .. Num(x) + 1 : KeysIn[g][x.kids[n]] \subseteq KeysIn[h][x]
      BY <1>1, Reaches DEF g
    <2> DEFINE K == KeysIn[h][x]
    <2>2. ASSUME NEW n \in 1 .. Num(s) PROVE s.keys[n] \in K
      <3>1. CASE n < i
        BY <1>1, <1>2, <1>4, <1>9, <2>1, <3>1
      <3>2. CASE n = i
        BY <1>5, <1>9, <1>10, <2>1, <3>2
      <3>3. CASE n > i
        <4>1. n - 1 \in 1 .. Num(x) /\ s.keys[n] = x.keys[n - 1]
          BY <1>1, <1>2, <1>4, <1>9, <3>3
        <4> QED
          BY <2>1, <4>1
      <3> QED
        BY <1>4, <3>1, <3>2, <3>3
    <2>3. \A n \in 1 .. Num(s) + 1 : KeysIn[h - 1][s.kids[n]] \subseteq K
      BY <1>12, <2>1 DEF g
    <2> HIDE DEF K
    <2>4. KeysIn[h][s] \subseteq K
      BY <1>2, <2>2, <2>3, Within
    <2> QED
      BY <2>4 DEF K
  <1> QED
    BY <1>2, <1>14, <1>15 DEF s

\* e is where child j of x is, between the keys beside it.
Fits(x, j, e) == \A m \in 1 .. Num(x) : (m < j => x.keys[m] < e) /\ (m >= j => e < x.keys[m])

\* A new key fits where the scan puts it.
LEMMA InsertFits ==
  ASSUME NEW h \in Nat, NEW x \in SearchTrees[h], NEW k \in KeyValues, \A n \in 1 .. Num(x) : x.keys[n] # k
  PROVE  InsertPosition(x, k) \in 1 .. Num(x) + 1 /\ Fits(x, InsertPosition(x, k), k)
  <1> DEFINE S == {0} \cup {i \in 1 .. Num(x) : x.keys[i] <= k}
             p == Max(S)
  <1>1. /\ x \in NodesAt(h) /\ Num(x) \in Nat
        /\ \A n \in 1 .. Num(x) : x.keys[n] \in Int
        /\ \A m, n \in 1 .. Num(x) : m < n => x.keys[m] < x.keys[n]
    BY Ascends
  <1>2. S \subseteq 0 .. Num(x) /\ S # {}
    BY <1>1
  <1>3. InsertPosition(x, k) = p + 1
    BY DEF InsertPosition
  <1>4. /\ p = 0 \/ (p \in 1 .. Num(x) /\ x.keys[p] <= k)
        /\ p \in 0 .. Num(x)
        /\ \A n \in 1 .. Num(x) : x.keys[n] <= k => n <= p
    <2> HIDE DEF p
    <2>1. p \in S /\ \A n \in S : p >= n
      <3> HIDE DEF S
      <3> QED
        BY ONLY <1>1, <1>2, HasMax DEF p
    <2> QED
      BY <1>1, <2>1
  <1> HIDE DEF p
  <1>5. k \in Int
    BY DegreeFacts
  <1>6. ASSUME NEW m \in 1 .. Num(x) PROVE (m < p + 1 => x.keys[m] < k) /\ (m >= p + 1 => k < x.keys[m])
    <2>1. CASE m < p + 1
      <3>1. p \in 1 .. Num(x) /\ x.keys[p] < k /\ (m = p \/ m < p)
        BY <1>1, <1>4, <1>5, <2>1
      <3>2. x.keys[m] \in Int /\ x.keys[p] \in Int
        BY <1>1, <3>1
      <3> QED
        BY <1>1, <1>4, <1>5, <2>1, <3>1, <3>2
    <2>2. CASE m >= p + 1
      BY <1>1, <1>4, <1>5, <2>2
    <2> QED
      BY <1>4, <2>1, <2>2
  <1> QED
    BY <1>1, <1>3, <1>4, <1>6 DEF Fits

\* A child replaced by one whose keys fit in its place.
LEMMA PlugSearch ==
  ASSUME NEW h \in Nat, h > 0, NEW x \in SearchTrees[h], NEW j \in 1 .. Num(x) + 1,
         NEW c \in SearchTrees[h - 1], c \in Subtrees[h - 1], \A e \in KeysIn[h - 1][c] : Fits(x, j, e)
  PROVE  LET y == [x EXCEPT !.kids[j] = c]
         IN y \in SearchTrees[h] /\ KeysIn[h][y] \subseteq KeysIn[h][x] \cup KeysIn[h - 1][c]
  <1> DEFINE cs == [x.kids EXCEPT ![j] = c]
             y  == [x EXCEPT !.kids[j] = c]
             g  == h - 1
  <1>1. /\ x \in NodesAt(h) /\ Num(x) \in Nat
        /\ \A m, n \in 1 .. Num(x) : m < n => x.keys[m] < x.keys[n]
        /\ \A n \in 1 .. Num(x) + 1 :
             /\ x.kids[n] \in SearchTrees[g]
             /\ \A e \in KeysIn[g][x.kids[n]] : \A m \in 1 .. Num(x) :
                  (m < n => x.keys[m] < e) /\ (m >= n => e < x.keys[m])
    BY Ascends
  <1>2. /\ x = [keys |-> x.keys, kids |-> x.kids] /\ x.kids \in Seq(Below(h)) /\ Len(x.kids) = Num(x) + 1
    BY <1>1, IsNode
  <1>3. y = [keys |-> x.keys, kids |-> cs]
    <2>1. y = [x EXCEPT !.kids = cs]
      OBVIOUS
    <2> HIDE DEF cs, y
    <2> QED
      BY <1>2, <2>1
  <1>4. cs[j] = c /\ \A m \in 1 .. Len(x.kids) : m # j => cs[m] = x.kids[m]
    <2>1. c \in Below(h) /\ j \in 1 .. Len(x.kids)
      BY <1>2 DEF Below
    <2> QED
      BY <1>2, <2>1, Put
  <1>5. y \in NodesAt(h) /\ Num(y) = Num(x)
    BY <1>1, Plugged
  <1> HIDE DEF cs
  <1>6. y.keys = x.keys /\ y.kids = cs
    BY <1>3
  <1> HIDE DEF y, g
  <1>7. ASSUME NEW n \in 1 .. Num(x) + 1
        PROVE  /\ cs[n] \in SearchTrees[g]
               /\ KeysIn[g][cs[n]] \subseteq KeysIn[g][x.kids[n]] \cup KeysIn[g][c]
               /\ \A e \in KeysIn[g][cs[n]] : \A m \in 1 .. Num(x) : IF m < n THEN x.keys[m] < e ELSE e < x.keys[m]
    <2>1. CASE n = j
      <3>1. ASSUME NEW e \in KeysIn[g][c], NEW m \in 1 .. Num(x) PROVE IF m < j THEN x.keys[m] < e ELSE e < x.keys[m]
        <4>1. Fits(x, j, e)
          BY DEF g
        <4>2. m < j \/ m >= j
          BY <1>1
        <4> QED
          BY <4>1, <4>2 DEF Fits
      <3> QED
        BY <1>4, <2>1, <3>1 DEF g
    <2>2. CASE n # j
      <3>1. cs[n] = x.kids[n]
        BY <1>2, <1>4, <2>2
      <3>2. ASSUME NEW e \in KeysIn[g][x.kids[n]], NEW m \in 1 .. Num(x) PROVE IF m < n THEN x.keys[m] < e ELSE e < x.keys[m]
        <4>1. m < n \/ m >= n
          BY <1>1
        <4> QED
          BY <1>1, <3>2, <4>1
      <3> QED
        BY <1>1, <3>1, <3>2
    <2> QED
      BY <2>1, <2>2
  <1>8. InOrder(h, y)
    BY <1>1, <1>5, <1>6, <1>7 DEF InOrder, g
  <1>9. y \in SearchTrees[h]
    BY <1>5, <1>6, <1>7, <1>8, IsSearch DEF g
  <1>10. KeysIn[h][y] \subseteq KeysIn[h][x] \cup KeysIn[g][c]
    <2>1. /\ \A n \in 1 .. Num(x) : x.keys[n] \in KeysIn[h][x]
          /\ \A n \in 1 .. Num(x) + 1 : KeysIn[g][x.kids[n]] \subseteq KeysIn[h][x]
      BY <1>1, Reaches DEF g
    <2> DEFINE K == KeysIn[h][x] \cup KeysIn[g][c]
    <2>2. \A n \in 1 .. Num(y) : y.keys[n] \in K
      BY <1>5, <1>6, <2>1
    <2>3. \A n \in 1 .. Num(y) + 1 : KeysIn[h - 1][y.kids[n]] \subseteq K
      BY <1>5, <1>6, <1>7, <2>1 DEF g
    <2> HIDE DEF K
    <2>4. KeysIn[h][y] \subseteq K
      BY <1>5, <2>2, <2>3, Within
    <2> QED
      BY <2>4 DEF K
  <1> QED
    BY <1>9, <1>10 DEF y, g

\* The child that a new key goes to is the place it fits.
LEMMA MakesRoomSearch ==
  ASSUME NEW h \in Nat, h > 0, NEW x \in SearchTrees[h], Num(x) < 2 * t - 1, NEW k \in KeyValues,
         k \notin KeysIn[h][x]
  PROVE  LET r == MakeRoom(x, k)
         IN r.node \in SearchTrees[h] /\ KeysIn[h][r.node] = KeysIn[h][x] /\ Fits(r.node, r.at, k)
  <1> DEFINE i == InsertPosition(x, k)
             s == btree_split_child(x, i)
             r == MakeRoom(x, k)
  <1>1. x \in NodesAt(h) /\ Num(x) \in Nat /\ \A n \in 1 .. Num(x) : x.keys[n] \in Int
    BY Ascends
  <1>2. \A n \in 1 .. Num(x) : x.keys[n] # k
    BY <1>1, Reaches
  <1>3. i \in 1 .. Num(x) + 1 /\ Fits(x, i, k)
    BY <1>2, InsertFits
  <1>4. CASE Num(x.kids[i]) # 2 * t - 1
    <2>1. r = [node |-> x, at |-> i]
      BY <1>4 DEF MakeRoom
    <2>2. r.node = x /\ r.at = i
      BY <2>1
    <2> HIDE DEF r, i
    <2> QED
      BY <1>3, <2>2 DEF r
  <1>5. CASE Num(x.kids[i]) = 2 * t - 1
    <2> DEFINE j == IF k > s.keys[i] THEN i + 1 ELSE i
    <2>1. r = [node |-> s, at |-> j]
      BY <1>5 DEF MakeRoom
    <2>2. r.node = s /\ r.at = j
      BY <2>1
    <2> HIDE DEF r, i
    <2>3. s \in SearchTrees[h] /\ KeysIn[h][s] = KeysIn[h][x] /\ Num(s) = Num(x) + 1
      BY <1>1, <1>3, <1>5, SplitSearch, SplitChild
    <2> DEFINE y == x.kids[i]
               low  == Piece(y, 1, t - 1)
               high == Piece(y, t + 1, 2 * t - 1)
               mid  == y.keys[t]
    <2>4. IsSplit(x, i, mid, low, high, s)
      BY <1>1, <1>3, <1>5, SplitAt
    <2> HIDE DEF s, low, high, mid
    <2>5. /\ \A n \in 1 .. i - 1 : s.keys[n] = x.keys[n]
          /\ \A n \in i + 1 .. Num(x) + 1 : s.keys[n] = x.keys[n - 1]
      BY <2>4 DEF IsSplit
    <2>6. i \in 1 .. Num(s) /\ i \in Int
      BY <1>1, <1>3, <2>3
    <2>7. s.keys[i] # k /\ s.keys[i] \in Int
      <3>1. s \in NodesAt(h) /\ s.keys[i] \in Int
        BY <2>3, <2>6, Ascends
      <3>2. s.keys[i] \in KeysIn[h][s]
        BY <2>6, <3>1, Reaches
      <3> QED
        BY <2>3, <3>1, <3>2
    <2>8. k \in Int
      BY DegreeFacts
    <2>9. (j = i /\ k < s.keys[i]) \/ (j = i + 1 /\ s.keys[i] < k)
      BY <2>7, <2>8
    <2> HIDE DEF j
    <2>10. ASSUME NEW m \in 1 .. Num(s) PROVE (m < j => s.keys[m] < k) /\ (m >= j => k < s.keys[m])
      <3>1. CASE m < i
        <4>1. m \in 1 .. Num(x) /\ s.keys[m] = x.keys[m] /\ ~(m >= j)
          BY <1>1, <1>3, <2>5, <2>6, <2>9, <3>1
        <4> QED
          BY <1>3, <3>1, <4>1 DEF Fits
      <3>2. CASE m = i
        BY <2>6, <2>9, <3>2
      <3>3. CASE m > i
        <4>1. m - 1 \in 1 .. Num(x) /\ m - 1 >= i /\ s.keys[m] = x.keys[m - 1] /\ ~(m < j)
          BY <1>1, <1>3, <2>3, <2>5, <2>6, <2>9, <3>3
        <4> QED
          BY <1>3, <4>1 DEF Fits
      <3> QED
        BY <2>6, <3>1, <3>2, <3>3
    <2> QED
      BY <2>2, <2>3, <2>10 DEF r, Fits
  <1> QED
    BY <1>4, <1>5

\* What a call of btree_insert_nonfull on a search tree leaves behind: a search
\* tree with no other keys.
InsertsInOrder(h, x, k) ==
  LET y == btree_insert_nonfull[h][x][k]
  IN y \in SearchTrees[h] /\ KeysIn[h][y] \subseteq KeysIn[h][x] \cup {k}

\* Lines 96-105, in a leaf.
LEMMA LeafInserts ==
  ASSUME NEW x \in SearchTrees[0], Num(x) < 2 * t - 1, NEW k \in KeyValues, k \notin KeysIn[0][x]
  PROVE  InsertsInOrder(0, x, k)
  <1> DEFINE i  == InsertPosition(x, k)
             ks == InsertAt(x.keys, i, k)
             y  == btree_insert_nonfull[0][x][k]
  <1>1. /\ x \in NodesAt(0) /\ Num(x) \in Nat /\ \A n \in 1 .. Num(x) : x.keys[n] \in Int
        /\ \A m, n \in 1 .. Num(x) : m < n => x.keys[m] < x.keys[n]
    BY Ascends
  <1>2. /\ x = [keys |-> x.keys, kids |-> x.kids] /\ x.keys \in Seq(KeyValues)
        /\ Num(x) = Len(x.keys) /\ Leaf(x)
    BY <1>1, IsNode
  <1>3. y = [keys |-> ks, kids |-> x.kids]
    <2>1. x \in Trees[0]
      BY <1>1, NodesAreTrees
    <2>2. btree_insert_nonfull[0] = InsertRow(btree_insert_nonfull[0 - 1], 0)
      BY InsertDef
    <2> DEFINE f == btree_insert_nonfull[0 - 1]
    <2>3. y = Inserted(f, x, k)
      <3> HIDE DEF f
      <3>1. btree_insert_nonfull[0] = InsertRow(f, 0)
        BY <2>2 DEF f
      <3> QED
        BY <2>1, <3>1 DEF InsertRow
    <2>4. Inserted(f, x, k) = [x EXCEPT !.keys = ks]
      <3> HIDE DEF f
      <3> QED
        BY <1>2 DEF Inserted
    <2> HIDE DEF ks, y, f
    <2> QED
      BY <1>2, <2>3, <2>4
  <1>4. \A n \in 1 .. Num(x) : x.keys[n] # k
    BY <1>1, Reaches
  <1>5. i \in 1 .. Num(x) + 1 /\ Fits(x, i, k)
    BY <1>4, InsertFits
  <1>6. Len(ks) = Num(x) + 1
    BY <1>2, <1>5, Inserting
  <1>7. /\ \A n \in 1 .. i - 1 : ks[n] = x.keys[n]
        /\ ks[i] = k
        /\ \A n \in i + 1 .. Num(x) + 1 : ks[n] = x.keys[n - 1]
    <2> HIDE DEF i
    <2> QED
      BY <1>2, <1>5, InsertingAt
  <1>8. y \in NodesAt(0)
    <2>1. Inserts(0, x, k)
      BY <1>1, InsertNonfull
    <2> QED
      BY <2>1 DEF Inserts
  <1> HIDE DEF ks, y
  <1>9. y.keys = ks /\ Num(y) = Num(x) + 1
    BY <1>3, <1>6 DEF Num
  <1> HIDE DEF i
  <1>10. i \in Int /\ k \in Int
    BY <1>5, DegreeFacts
  <1>11. \A n \in 1 .. Num(x) : (n < i => x.keys[n] < k) /\ (n >= i => k < x.keys[n])
    BY <1>5 DEF Fits
  <1>12. \A m, n \in 1 .. Num(y) : m < n => y.keys[m] < y.keys[n]
    <2> SUFFICES ASSUME NEW m \in 1 .. Num(y), NEW n \in 1 .. Num(y), m < n PROVE ks[m] < ks[n]
      BY <1>9
    <2>1. CASE n < i
      BY <1>1, <1>5, <1>7, <1>9, <1>10, <2>1
    <2>2. CASE n = i
      BY <1>1, <1>5, <1>7, <1>9, <1>10, <1>11, <2>2
    <2>3. CASE n > i
      <3>1. n - 1 \in 1 .. Num(x) /\ n - 1 >= i /\ ks[n] = x.keys[n - 1]
        BY <1>1, <1>5, <1>7, <1>9, <1>10, <2>3
      <3>2. CASE m < i
        <4>1. m \in 1 .. Num(x) /\ ks[m] = x.keys[m] /\ m < n - 1
          BY <1>1, <1>5, <1>7, <1>9, <1>10, <3>1, <3>2
        <4> QED
          BY <1>1, <3>1, <4>1
      <3>3. CASE m = i
        BY <1>7, <1>11, <3>1, <3>3
      <3>4. CASE m > i
        <4>1. m - 1 \in 1 .. Num(x) /\ ks[m] = x.keys[m - 1] /\ m - 1 < n - 1
          BY <1>1, <1>5, <1>7, <1>9, <1>10, <3>4
        <4> QED
          BY <1>1, <3>1, <4>1
      <3> QED
        BY <1>10, <3>2, <3>3, <3>4
    <2> QED
      BY <1>10, <2>1, <2>2, <2>3
  <1>13. y \in SearchTrees[0]
    BY <1>8, <1>12, IsSearch DEF InOrder
  <1>14. KeysIn[0][y] \subseteq KeysIn[0][x] \cup {k}
    <2> DEFINE K == KeysIn[0][x] \cup {k}
    <2>1. \A n \in 1 .. Num(x) : x.keys[n] \in KeysIn[0][x]
      BY <1>1, Reaches
    <2>2. ASSUME NEW n \in 1 .. Num(y) PROVE y.keys[n] \in K
      <3>1. CASE n < i
        BY <1>1, <1>5, <1>7, <1>9, <1>10, <2>1, <3>1
      <3>2. CASE n = i
        BY <1>7, <1>9, <3>2
      <3>3. CASE n > i
        <4>1. n - 1 \in 1 .. Num(x) /\ ks[n] = x.keys[n - 1]
          BY <1>1, <1>5, <1>7, <1>9, <1>10, <3>3
        <4> QED
          BY <1>9, <2>1, <4>1
      <3> QED
        BY <1>10, <3>1, <3>2, <3>3
    <2> HIDE DEF K
    <2>3. KeysIn[0][y] \subseteq K
      BY <1>8, <2>2, Within
    <2> QED
      BY <2>3 DEF K
  <1> QED
    BY <1>13, <1>14 DEF InsertsInOrder, y

\* Lines 93-116: on a search tree with room, of any height and degree,
\* btree_insert_nonfull returns a search tree, with k and the keys there were.
THEOREM InsertNonfullInOrder ==
  \A h \in Nat : \A x \in SearchTrees[h] : \A k \in KeyValues :
    Num(x) < 2 * t - 1 /\ k \notin KeysIn[h][x] => InsertsInOrder(h, x, k)
  <1> DEFINE Good == {h \in Nat : \A x \in SearchTrees[h] : \A k \in KeyValues :
                        Num(x) < 2 * t - 1 /\ k \notin KeysIn[h][x] => InsertsInOrder(h, x, k)}
  <1>1. 0 \in Good
    BY LeafInserts
  <1>2. ASSUME NEW g \in Nat, g \in Good PROVE g + 1 \in Good
    <2> DEFINE h == g + 1
    <2> SUFFICES ASSUME NEW x \in SearchTrees[h], NEW k \in KeyValues, Num(x) < 2 * t - 1, k \notin KeysIn[h][x]
                 PROVE  InsertsInOrder(h, x, k)
      OBVIOUS
    <2>1. h \in Nat /\ h > 0 /\ h - 1 = g
      OBVIOUS
    <2> HIDE DEF h
    <2> DEFINE r == MakeRoom(x, k)
               c == r.node.kids[r.at]
               d == btree_insert_nonfull[g][c][k]
               y == btree_insert_nonfull[h][x][k]
    <2>2. x \in NodesAt(h) /\ ~Leaf(x) /\ Num(x) \in Nat
      BY <2>1, IsSearch, IsNode
    <2>3. y = [r.node EXCEPT !.kids[r.at] = d]
      <3> DEFINE f == btree_insert_nonfull[g]
      <3>1. y = Inserted(f, x, k)
        <4>1. x \in Trees[h]
          BY <2>1, <2>2, NodesAreTrees
        <4>2. btree_insert_nonfull[h] = InsertRow(f, h)
          BY <2>1, InsertDef
        <4> HIDE DEF f
        <4> QED
          BY <4>1, <4>2 DEF InsertRow
      <3>2. Inserted(f, x, k) = [r.node EXCEPT !.kids[r.at] = f[c][k]]
        <4> HIDE DEF f
        <4> QED
          BY <2>2 DEF Inserted
      <3> QED
        BY <3>1, <3>2
    <2>4. /\ r.node \in NodesAt(h) /\ r.at \in 1 .. Num(r.node) + 1 /\ Num(c) < 2 * t - 1
      BY <2>1, <2>2, MakesRoom
    <2>5. r.node \in SearchTrees[h] /\ KeysIn[h][r.node] = KeysIn[h][x] /\ Fits(r.node, r.at, k)
      BY <2>1, MakesRoomSearch
    <2> HIDE DEF r
    <2> DEFINE a == r.node
               j == r.at
               z == [a EXCEPT !.kids[j] = d]
    <2>6. a \in SearchTrees[h] /\ a \in NodesAt(h) /\ j \in 1 .. Num(a) + 1 /\ KeysIn[h][a] = KeysIn[h][x] /\ Fits(a, j, k)
      BY <2>4, <2>5
    <2>7. z = y /\ a.kids[j] = c
      BY <2>3
    <2> HIDE DEF a, j
    <2>8. c \in SearchTrees[g] /\ c \in NodesAt(g) /\ Num(c) \in Nat /\ Num(c) >= t - 1 /\ \A e \in KeysIn[g][c] : Fits(a, j, e)
      <3>1. c \in SearchTrees[g] /\ \A e \in KeysIn[g][c] : Fits(a, j, e)
        BY <2>1, <2>6, <2>7, Ascends DEF Fits
      <3>2. c \in NodesAt(g) /\ Num(c) \in t - 1 .. 2 * t - 1
        BY <2>1, <2>6, <2>7, Child
      <3> QED
        BY <3>1, <3>2, IsNode, DegreeFacts
    <2>9. k \notin KeysIn[g][c]
      BY <2>1, <2>6, <2>7, Reaches
    <2> HIDE DEF c
    <2>10. InsertsInOrder(g, c, k) /\ Inserts(g, c, k)
      BY <1>2, <2>4, <2>8, <2>9, InsertNonfull DEF c
    <2>11. /\ d \in SearchTrees[g] /\ KeysIn[g][d] \subseteq KeysIn[g][c] \cup {k}
           /\ d \in NodesAt(g) /\ Num(d) >= Num(c)
      BY <2>10 DEF InsertsInOrder, Inserts
    <2> HIDE DEF d
    <2>12. d \in Subtrees[h - 1] /\ d \in SearchTrees[h - 1]
      <3>1. Num(d) \in Nat
        BY <2>11, IsNode
      <3> QED
        BY <2>1, <2>8, <2>11, <3>1, IsSubtree, DegreeFacts
    <2>13. \A e \in KeysIn[h - 1][d] : Fits(a, j, e)
      BY <2>1, <2>6, <2>8, <2>11
    <2>14. z \in SearchTrees[h] /\ KeysIn[h][z] \subseteq KeysIn[h][a] \cup KeysIn[h - 1][d]
      BY ONLY <2>1, <2>6, <2>12, <2>13, PlugSearch
    <2>15. KeysIn[g][c] \subseteq KeysIn[h][a]
      BY <2>1, <2>6, <2>7, Reaches
    <2> HIDE DEF z, y
    <2> QED
      BY <2>1, <2>6, <2>7, <2>11, <2>14, <2>15 DEF InsertsInOrder, y
  <1> HIDE DEF Good
  <1>3. \A h \in Nat : h \in Good
    BY <1>1, <1>2, FromZero
  <1> QED
    BY <1>3 DEF Good
-----------------------------------------------------------------------------
(* The traversal *)

\* A sequence of keys that ascends.
Sorted(s) == s \in Seq(KeyValues) /\ \A m, n \in 1 .. Len(s) : m < n => s[m] < s[n]

\* Two of them in a row, the second beyond the first.
LEMMA SortedJoin ==
  ASSUME NEW s, NEW u, Sorted(s), Sorted(u), \A v \in ToSet(s) : \A w \in ToSet(u) : v < w
  PROVE  Sorted(Cat(s, u)) /\ ToSet(Cat(s, u)) = ToSet(s) \cup ToSet(u)
  <1> DEFINE r == Cat(s, u)
  <1>1. /\ s \in Seq(KeyValues) /\ u \in Seq(KeyValues)
        /\ \A m, n \in 1 .. Len(s) : m < n => s[m] < s[n]
        /\ \A m, n \in 1 .. Len(u) : m < n => u[m] < u[n]
    BY DEF Sorted
  <1>2. IsJoin(KeyValues, s, u, r)
    BY <1>1, Joined
  <1> HIDE DEF r
  <1>3. /\ r \in Seq(KeyValues) /\ Len(r) = Len(s) + Len(u)
        /\ \A n \in 1 .. Len(s) : r[n] = s[n]
        /\ \A n \in 1 .. Len(u) : r[Len(s) + n] = u[n]
        /\ ToSet(r) = ToSet(s) \cup ToSet(u)
    BY <1>2 DEF IsJoin
  <1>4. Len(s) \in Nat /\ Len(u) \in Nat
    BY <1>1, Elements
  <1>5. ASSUME NEW n \in 1 .. Len(r), n > Len(s) PROVE n - Len(s) \in 1 .. Len(u) /\ r[n] = u[n - Len(s)]
    <2>1. n - Len(s) \in 1 .. Len(u) /\ Len(s) + (n - Len(s)) = n
      BY <1>3, <1>4, <1>5
    <2> QED
      BY <1>3, <2>1
  <1>6. ASSUME NEW m \in 1 .. Len(r), NEW n \in 1 .. Len(r), m < n PROVE r[m] < r[n]
    <2>1. CASE n <= Len(s)
      <3>1. m \in 1 .. Len(s) /\ n \in 1 .. Len(s)
        BY <1>4, <1>6, <2>1
      <3> QED
        BY <1>1, <1>3, <1>6, <3>1
    <2>2. CASE m <= Len(s) /\ n > Len(s)
      <3>1. m \in 1 .. Len(s)
        BY <1>4, <2>2
      <3>2. r[m] = s[m] /\ s[m] \in ToSet(s)
        BY <1>1, <1>3, <3>1, Elements
      <3>3. n - Len(s) \in 1 .. Len(u) /\ r[n] = u[n - Len(s)]
        BY <1>5, <2>2
      <3>4. r[n] \in ToSet(u)
        BY <1>1, <3>3, Elements
      <3> QED
        BY <3>2, <3>4
    <2>3. CASE m > Len(s)
      <3>1. n > Len(s) /\ m - Len(s) < n - Len(s)
        BY <1>3, <1>4, <1>6, <2>3
      <3>2. m - Len(s) \in 1 .. Len(u) /\ r[m] = u[m - Len(s)] /\ n - Len(s) \in 1 .. Len(u) /\ r[n] = u[n - Len(s)]
        BY <1>5, <2>3, <3>1
      <3> QED
        BY <1>1, <3>1, <3>2
    <2> QED
      BY <1>3, <1>4, <2>1, <2>2, <2>3
  <1> QED
    BY <1>3, <1>6 DEF Sorted, r

\* A key that is printed before child i + 1 of x, where the walk over x has done
\* i rounds.
Printed(g, x, i, v) == \E n \in 1 .. i : v = x.keys[n] \/ v \in KeysIn[g][x.kids[n]]

\* The loop of btree_traverse prints what the keys and the children of a search
\* tree are, in ascending order, if the calls on the children do.
LEMMA WalkSorted ==
  ASSUME NEW h \in Nat, h > 0, NEW x \in SearchTrees[h], NEW below,
         \A n \in 1 .. Num(x) + 1 : Sorted(below[x.kids[n]]) /\ ToSet(below[x.kids[n]]) = KeysIn[h - 1][x.kids[n]]
  PROVE  Sorted(Walk(x, below)) /\ ToSet(Walk(x, below)) = KeysIn[h][x]
  <1> DEFINE g == h - 1
  <1>1. /\ x \in NodesAt(h) /\ Num(x) \in Nat
        /\ \A n \in 1 .. Num(x) : x.keys[n] \in Int /\ x.keys[n] \in KeyValues
        /\ \A m, n \in 1 .. Num(x) : m < n => x.keys[m] < x.keys[n]
        /\ \A n \in 1 .. Num(x) + 1 : \A e \in KeysIn[g][x.kids[n]] : \A m \in 1 .. Num(x) :
             (m < n => x.keys[m] < e) /\ (m >= n => e < x.keys[m])
    BY Ascends
  <1>2. \A n \in 1 .. Num(x) + 1 : KeysIn[g][x.kids[n]] \subseteq Int
    BY <1>1, Child, KeysAreKeys, DegreeFacts
  <1>3. \A n \in 1 .. Num(x) + 1 : Sorted(below[x.kids[n]]) /\ ToSet(below[x.kids[n]]) = KeysIn[g][x.kids[n]]
    OBVIOUS
  <1> HIDE DEF g
  <1>4. PICK f : IsWalk(x, below, f)
    BY WalkDef
  <1>5. /\ f[0] = << >>
        /\ \A i \in Nat : f[i + 1] = Cat(Cat(f[i], below[x.kids[i + 1]]), <<x.keys[i + 1]>>)
        /\ Walk(x, below) = Cat(f[Num(x)], below[x.kids[Num(x) + 1]])
    BY <1>4 DEF IsWalk, Cat
  <1>6. ASSUME NEW i \in 0 .. Num(x), NEW v, Printed(g, x, i, v), NEW w \in KeysIn[g][x.kids[i + 1]] PROVE v < w
    <2>1. PICK n \in 1 .. i : v = x.keys[n] \/ v \in KeysIn[g][x.kids[n]]
      BY <1>6 DEF Printed
    <2>2. i + 1 \in 1 .. Num(x) + 1 /\ n < i + 1 /\ n \in 1 .. Num(x) /\ n \in 1 .. Num(x) + 1 /\ n >= n
      BY <1>1
    <2>3. x.keys[n] < w
      BY <1>1, <2>2
    <2>4. v \in KeysIn[g][x.kids[n]] => v < x.keys[n]
      BY <1>1, <2>2
    <2>5. x.keys[n] \in Int /\ w \in Int /\ (v \in KeysIn[g][x.kids[n]] => v \in Int)
      BY <1>1, <1>2, <2>2
    <2> QED
      BY <2>1, <2>3, <2>4, <2>5
  <1>7. ASSUME NEW i \in 0 .. Num(x), i < Num(x), NEW v, Printed(g, x, i, v) \/ v \in KeysIn[g][x.kids[i + 1]]
        PROVE  v < x.keys[i + 1]
    <2>1. i + 1 \in 1 .. Num(x) /\ i + 1 \in 1 .. Num(x) + 1 /\ i + 1 >= i + 1
      BY <1>1, <1>7
    <2>2. CASE v \in KeysIn[g][x.kids[i + 1]]
      BY <1>1, <2>1, <2>2
    <2>3. CASE Printed(g, x, i, v)
      <3>1. PICK n \in 1 .. i : v = x.keys[n] \/ v \in KeysIn[g][x.kids[n]]
        BY <2>3 DEF Printed
      <3>2. n < i + 1 /\ n \in 1 .. Num(x) /\ n \in 1 .. Num(x) + 1 /\ i + 1 >= n
        BY <1>1
      <3> QED
        BY <1>1, <2>1, <3>1, <3>2
    <2> QED
      BY <1>7, <2>2, <2>3
  <1> DEFINE Ok(i) == Sorted(f[i]) /\ \A v : v \in ToSet(f[i]) <=> Printed(g, x, i, v)
             Good == {i \in Nat : i <= Num(x) => Ok(i)}
  <1>8. 0 \in Good
    <2> DEFINE s == << >>
    <2>1. s \in Seq(KeyValues) /\ Len(s) = 0
      BY EmptySeq
    <2>2. s = f[0]
      BY <1>5
    <2> HIDE DEF s
    <2>3. Sorted(s)
      BY <2>1 DEF Sorted
    <2>4. \A v : v \notin ToSet(s)
      <3>1. \A v : v \in ToSet(s) <=> \E n \in 1 .. Len(s) : s[n] = v
        BY <2>1, Elements
      <3> QED
        BY <2>1, <3>1
    <2>5. \A v : ~Printed(g, x, 0, v)
      BY DEF Printed
    <2> QED
      BY <2>2, <2>3, <2>4, <2>5
  <1>9. ASSUME NEW i \in Nat, i \in Good PROVE i + 1 \in Good
    <2>1. SUFFICES ASSUME i + 1 <= Num(x) PROVE Ok(i + 1)
      OBVIOUS
    <2>2. i \in 0 .. Num(x) /\ i < Num(x) /\ i + 1 \in 1 .. Num(x) /\ i + 1 \in 1 .. Num(x) + 1
      BY <1>1, <2>1
    <2>3. Ok(i)
      BY <1>9, <2>2
    <2> DEFINE b == below[x.kids[i + 1]]
               e == x.keys[i + 1]
               u == <<e>>
               a == Cat(f[i], b)
    <2>4. Sorted(b) /\ ToSet(b) = KeysIn[g][x.kids[i + 1]]
      BY <1>3, <2>2
    <2>5. e \in KeyValues
      BY <1>1, <2>2
    <2>6. f[i + 1] = Cat(a, u)
      BY <1>5
    <2> HIDE DEF b, e
    <2>7. u \in Seq(KeyValues) /\ Len(u) = 1 /\ ToSet(u) = {e}
      BY <2>5, One
    <2> HIDE DEF u
    <2>8. Sorted(u)
      <3>1. \A m, n \in 1 .. Len(u) : ~(m < n)
        BY <2>7
      <3> QED
        BY <2>7, <3>1 DEF Sorted
    <2>9. Sorted(a) /\ ToSet(a) = ToSet(f[i]) \cup ToSet(b)
      <3>1. \A v \in ToSet(f[i]) : \A w \in ToSet(b) : v < w
        BY <1>6, <2>2, <2>3, <2>4
      <3> QED
        BY <2>3, <2>4, <3>1, SortedJoin
    <2> HIDE DEF a
    <2>10. Sorted(Cat(a, u)) /\ ToSet(Cat(a, u)) = ToSet(a) \cup ToSet(u)
      <3>1. \A v \in ToSet(a) : v < e
        BY <1>7, <2>2, <2>3, <2>4, <2>9 DEF e
      <3>2. \A v \in ToSet(a) : \A w \in ToSet(u) : v < w
        BY <2>7, <3>1
      <3> QED
        BY <2>8, <2>9, <3>2, SortedJoin
    <2>11. ASSUME NEW v
           PROVE  Printed(g, x, i + 1, v) <=> Printed(g, x, i, v) \/ v \in KeysIn[g][x.kids[i + 1]] \/ v = e
      <3>1. \A n : n \in 1 .. i + 1 <=> n \in 1 .. i \/ n = i + 1
        OBVIOUS
      <3> QED
        BY <3>1 DEF Printed, e
    <2> QED
      BY <2>3, <2>4, <2>6, <2>7, <2>9, <2>10, <2>11
  <1> HIDE DEF Good
  <1>10. \A i \in Nat : i \in Good
    BY <1>8, <1>9, FromZero
  <1>11. Ok(Num(x))
    BY <1>1, <1>10 DEF Good
  <1> DEFINE b == below[x.kids[Num(x) + 1]]
             s == f[Num(x)]
  <1>12. Sorted(b) /\ ToSet(b) = KeysIn[g][x.kids[Num(x) + 1]]
    BY <1>1, <1>3
  <1>13. \A v \in ToSet(s) : \A w \in ToSet(b) : v < w
    <2>1. Num(x) \in 0 .. Num(x)
      BY <1>1
    <2> QED
      BY <1>6, <1>11, <1>12, <2>1
  <1>14. Walk(x, below) = Cat(s, b) /\ Sorted(s)
    BY <1>5, <1>11
  <1>15. Sorted(Walk(x, below)) /\ ToSet(Walk(x, below)) = ToSet(s) \cup ToSet(b)
    <2> HIDE DEF s, b
    <2> QED
      BY <1>12, <1>13, <1>14, SortedJoin
  <1>16. \A v : v \in KeysIn[h][x] <=> Printed(g, x, Num(x), v) \/ v \in KeysIn[g][x.kids[Num(x) + 1]]
    <2> DEFINE Q(v) == Printed(g, x, Num(x), v) \/ v \in KeysIn[g][x.kids[Num(x) + 1]]
               K == {v \in KeysIn[h][x] : Q(v)}
    <2>1. /\ \A n \in 1 .. Num(x) : x.keys[n] \in KeysIn[h][x]
          /\ \A n \in 1 .. Num(x) + 1 : KeysIn[g][x.kids[n]] \subseteq KeysIn[h][x]
      BY <1>1, Reaches DEF g
    <2>2. \A n \in 1 .. Num(x) : n \in 1 .. Num(x) + 1
      BY <1>1
    <2>3. ASSUME NEW v, Q(v) PROVE v \in KeysIn[h][x]
      <3>1. Num(x) + 1 \in 1 .. Num(x) + 1
        BY <1>1
      <3> QED
        BY <2>1, <2>2, <2>3, <3>1 DEF Printed
    <2>4. \A n \in 1 .. Num(x) : x.keys[n] \in K
      BY <2>1 DEF Printed
    <2>5. ASSUME NEW n \in 1 .. Num(x) + 1 PROVE KeysIn[h - 1][x.kids[n]] \subseteq K
      <3>1. n \in 1 .. Num(x) \/ n = Num(x) + 1
        BY <1>1
      <3>2. \A v \in KeysIn[g][x.kids[n]] : Q(v)
        BY <3>1 DEF Printed
      <3> QED
        BY <2>1, <3>2 DEF g
    <2>6. \A v \in K : Q(v)
      OBVIOUS
    <2> HIDE DEF K
    <2>7. KeysIn[h][x] \subseteq K
      BY <1>1, <2>4, <2>5, Within
    <2> QED
      BY <2>3, <2>6, <2>7
  <1> QED
    BY <1>11, <1>12, <1>15, <1>16

\* Lines 140-150: btree_traverse prints the keys of a search tree in ascending
\* order, each of them once.
THEOREM TraverseInOrder ==
  \A h \in Nat : \A x \in SearchTrees[h] : Sorted(KeySeq[h][x]) /\ ToSet(KeySeq[h][x]) = KeysIn[h][x]
  <1> DEFINE Good == {h \in Nat : \A x \in SearchTrees[h] : Sorted(KeySeq[h][x]) /\ ToSet(KeySeq[h][x]) = KeysIn[h][x]}
  <1>1. ASSUME NEW h \in Nat, NEW x \in SearchTrees[h]
        PROVE  KeySeq[h][x] = IF Leaf(x) THEN x.keys ELSE Walk(x, KeySeq[h - 1])
    <2>1. x \in Trees[h]
      BY IsSearch, NodesAreTrees
    <2>2. KeySeq[h] = KeySeqRow(KeySeq[h - 1], h)
      BY KeySeqDef
    <2> QED
      BY <2>1, <2>2 DEF KeySeqRow
  <1>2. 0 \in Good
    <2> SUFFICES ASSUME NEW x \in SearchTrees[0] PROVE Sorted(KeySeq[0][x]) /\ ToSet(KeySeq[0][x]) = KeysIn[0][x]
      OBVIOUS
    <2>1. x \in NodesAt(0) /\ \A m, n \in 1 .. Num(x) : m < n => x.keys[m] < x.keys[n]
      BY Ascends
    <2>2. x.keys \in Seq(KeyValues) /\ Num(x) = Len(x.keys) /\ Leaf(x)
      BY <2>1, IsNode
    <2>3. KeySeq[0][x] = x.keys
      BY <1>1, <2>2
    <2>4. Sorted(x.keys)
      BY <2>1, <2>2 DEF Sorted
    <2>5. ToSet(x.keys) \subseteq KeysIn[0][x]
      BY <2>1, Reaches
    <2>6. KeysIn[0][x] \subseteq ToSet(x.keys)
      <3>1. \A n \in 1 .. Num(x) : x.keys[n] \in ToSet(x.keys)
        BY <2>2, Elements
      <3> QED
        BY <2>1, <3>1, Within
    <2> QED
      BY <2>3, <2>4, <2>5, <2>6
  <1>3. ASSUME NEW g \in Nat, g \in Good PROVE g + 1 \in Good
    <2> DEFINE h == g + 1
    <2> SUFFICES ASSUME NEW x \in SearchTrees[h] PROVE Sorted(KeySeq[h][x]) /\ ToSet(KeySeq[h][x]) = KeysIn[h][x]
      OBVIOUS
    <2>1. h \in Nat /\ h > 0 /\ h - 1 = g
      OBVIOUS
    <2> HIDE DEF h
    <2>2. x \in NodesAt(h) /\ ~Leaf(x)
      BY <2>1, IsSearch, IsNode
    <2> DEFINE below == KeySeq[g]
    <2>3. KeySeq[h][x] = Walk(x, below)
      BY <1>1, <2>1, <2>2
    <2>4. \A n \in 1 .. Num(x) + 1 : Sorted(below[x.kids[n]]) /\ ToSet(below[x.kids[n]]) = KeysIn[h - 1][x.kids[n]]
      BY <1>3, <2>1, IsSearch
    <2> HIDE DEF below
    <2> QED
      BY <2>1, <2>3, <2>4, WalkSorted
  <1> HIDE DEF Good
  <1>4. \A h \in Nat : h \in Good
    BY <1>2, <1>3, FromZero
  <1> QED
    BY <1>4 DEF Good
-----------------------------------------------------------------------------
(* Merges in search trees *)

\* Where RemoveAt leaves what.
LEMMA RemovingAt ==
  ASSUME NEW S, NEW s \in Seq(S), NEW i \in 1 .. Len(s)
  PROVE  LET r == RemoveAt(s, i)
         IN /\ \A n \in 1 .. i - 1 : r[n] = s[n]
            /\ \A n \in i .. Len(s) - 1 : r[n] = s[n + 1]
  <1> DEFINE a == SubSeq(s, 1, i - 1)
             u == << >>
             j == i + 1
             r == RemoveAt(s, i)
  <1>1. Len(s) \in Nat
    BY Elements
  <1>2. i \in 1 .. Len(s) + 1 /\ j \in i .. Len(s) + 1 /\ i \in Int
    BY <1>1
  <1>3. a \in Seq(S)
    <2>1. 1 \in 1 .. Len(s) + 1 /\ i - 1 \in 1 - 1 .. Len(s)
      BY <1>1
    <2> QED
      BY <2>1, Part
  <1>4. a \o << >> = a
    <2> HIDE DEF a
    <2> QED
      BY <1>3, ConcatEmptySeq
  <1>5. r = Spliced(s, i, u, j)
    BY <1>4 DEF RemoveAt, Spliced
  <1>6. u \in Seq(S) /\ Len(u) = 0
    BY EmptySeq
  <1> HIDE DEF u, r
  <1>7. IsSpliceAt(s, i, u, j, r)
    BY <1>2, <1>5, <1>6, SpliceAt
  <1>8. /\ \A n \in 1 .. i - 1 : r[n] = s[n]
        /\ \A n \in j .. Len(s) : r[n - (j - i) + Len(u)] = s[n]
    BY <1>7 DEF IsSpliceAt
  <1>9. ASSUME NEW n \in i .. Len(s) - 1 PROVE r[n] = s[n + 1]
    <2>1. n + 1 \in j .. Len(s) /\ (n + 1) - (j - i) + Len(u) = n
      BY <1>1, <1>2, <1>6
    <2> QED
      BY <1>8, <2>1
  <1> QED
    BY <1>8, <1>9 DEF r

\* Two nodes and a key between them as one, and where it has what.
Joint(l, e, r) == [keys |-> l.keys \o <<e>> \o r.keys, kids |-> l.kids \o r.kids]
IsJoint(g, l, e, r, b) ==
  /\ \A n \in 1 .. Num(l) : b.keys[n] = l.keys[n]
  /\ b.keys[Num(l) + 1] = e
  /\ \A n \in Num(l) + 2 .. Num(l) + Num(r) + 1 : b.keys[n] = r.keys[n - Num(l) - 1]
  /\ g > 0 => /\ \A n \in 1 .. Num(l) + 1 : b.kids[n] = l.kids[n]
              /\ \A n \in Num(l) + 2 .. Num(l) + Num(r) + 2 : b.kids[n] = r.kids[n - Num(l) - 1]

LEMMA JointAt ==
  ASSUME NEW g \in Nat, NEW l \in NodesAt(g), NEW r \in NodesAt(g), NEW e \in KeyValues
  PROVE  IsJoint(g, l, e, r, Joint(l, e, r))
  <1> DEFINE u  == <<e>>
             lu == Cat(l.keys, u)
             ks == Cat(lu, r.keys)
             cs == Cat(l.kids, r.kids)
             b  == Joint(l, e, r)
  <1>1. b = [keys |-> ks, kids |-> cs]
    BY DEF Joint, Cat
  <1>2. /\ l.keys \in Seq(KeyValues) /\ l.kids \in Seq(Below(g)) /\ Num(l) \in Nat /\ Num(l) = Len(l.keys)
        /\ g > 0 => Len(l.kids) = Num(l) + 1
    BY IsNode
  <1>3. /\ r.keys \in Seq(KeyValues) /\ r.kids \in Seq(Below(g)) /\ Num(r) \in Nat /\ Num(r) = Len(r.keys)
        /\ g > 0 => Len(r.kids) = Num(r) + 1
    BY IsNode
  <1>4. u \in Seq(KeyValues) /\ Len(u) = 1 /\ u[1] = e
    BY One
  <1> HIDE DEF u
  <1>5. IsJoin(KeyValues, l.keys, u, lu)
    BY <1>2, <1>4, Joined
  <1> HIDE DEF lu
  <1>6. /\ lu \in Seq(KeyValues) /\ Len(lu) = Num(l) + 1
        /\ \A n \in 1 .. Num(l) : lu[n] = l.keys[n]
        /\ lu[Num(l) + 1] = e
    <2>1. 1 \in 1 .. Len(u)
      BY <1>4
    <2> QED
      BY <1>2, <1>4, <1>5, <2>1 DEF IsJoin
  <1>7. IsJoin(KeyValues, lu, r.keys, ks)
    BY <1>3, <1>6, Joined
  <1> HIDE DEF ks
  <1>8. /\ \A n \in 1 .. Len(lu) : ks[n] = lu[n]
        /\ \A n \in 1 .. Num(r) : ks[Len(lu) + n] = r.keys[n]
    BY <1>3, <1>7 DEF IsJoin
  <1>9. IsJoin(Below(g), l.kids, r.kids, cs)
    BY <1>2, <1>3, Joined
  <1> HIDE DEF cs
  <1>10. /\ \A n \in 1 .. Len(l.kids) : cs[n] = l.kids[n]
         /\ \A n \in 1 .. Len(r.kids) : cs[Len(l.kids) + n] = r.kids[n]
    BY <1>9 DEF IsJoin
  <1>11. b.keys = ks /\ b.kids = cs
    BY <1>1
  <1> HIDE DEF b
  <1>12. (\A n \in 1 .. Num(l) : ks[n] = l.keys[n]) /\ ks[Num(l) + 1] = e
    <2>1. \A n \in 1 .. Num(l) + 1 : n \in 1 .. Len(lu)
      BY <1>2, <1>6
    <2>2. (\A n \in 1 .. Num(l) : n \in 1 .. Num(l) + 1) /\ Num(l) + 1 \in 1 .. Num(l) + 1
      BY <1>2
    <2> QED
      BY <1>6, <1>8, <2>1, <2>2
  <1>13. ASSUME NEW n \in Num(l) + 2 .. Num(l) + Num(r) + 1 PROVE ks[n] = r.keys[n - Num(l) - 1]
    <2> DEFINE m == n - Num(l) - 1
    <2>1. m \in 1 .. Num(r) /\ Len(lu) + m = n
      <3>1. \A p, q, v : p \in Nat /\ q \in Nat /\ v \in p + 2 .. p + q + 1
                          => v - p - 1 \in 1 .. q /\ (p + 1) + (v - p - 1) = v
        OBVIOUS
      <3>2. Num(l) \in Nat /\ Num(r) \in Nat /\ Len(lu) = Num(l) + 1 /\ n \in Num(l) + 2 .. Num(l) + Num(r) + 1
        BY <1>2, <1>3, <1>6
      <3> QED
        BY ONLY <3>1, <3>2
    <2> HIDE DEF m
    <2>2. ks[n] = r.keys[m]
      BY <1>8, <2>1
    <2> QED
      BY <2>2 DEF m
  <1>14. ASSUME g > 0
         PROVE  /\ \A n \in 1 .. Num(l) + 1 : cs[n] = l.kids[n]
                /\ \A n \in Num(l) + 2 .. Num(l) + Num(r) + 2 : cs[n] = r.kids[n - Num(l) - 1]
    <2>1. Len(l.kids) = Num(l) + 1 /\ Len(r.kids) = Num(r) + 1
      BY <1>2, <1>3, <1>14
    <2>2. ASSUME NEW n \in Num(l) + 2 .. Num(l) + Num(r) + 2 PROVE cs[n] = r.kids[n - Num(l) - 1]
      <3> DEFINE m == n - Num(l) - 1
      <3>1. m \in 1 .. Len(r.kids) /\ Len(l.kids) + m = n
        <4>1. \A p, q, v : p \in Nat /\ q \in Nat /\ v \in p + 2 .. p + q + 2
                            => v - p - 1 \in 1 .. q + 1 /\ (p + 1) + (v - p - 1) = v
          OBVIOUS
        <4>2. /\ Num(l) \in Nat /\ Num(r) \in Nat /\ Len(l.kids) = Num(l) + 1 /\ Len(r.kids) = Num(r) + 1
              /\ n \in Num(l) + 2 .. Num(l) + Num(r) + 2
          BY <1>2, <1>3, <2>1
        <4> QED
          BY ONLY <4>1, <4>2
      <3> HIDE DEF m
      <3>2. cs[n] = r.kids[m]
        BY <1>10, <3>1
      <3> QED
        BY <3>2 DEF m
    <2> QED
      BY <1>10, <2>1, <2>2
  <1> QED
    BY <1>11, <1>12, <1>13, <1>14 DEF IsJoint, b

\* Every key of one tree is below every key of the other.
Under(K, L) == \A v \in K : \A w \in L : v < w

\* Two search trees and a key between their keys are one search tree, with the
\* keys of both and that key.
Joins(g, l, e, r) ==
  /\ l \in SearchTrees[g] /\ r \in SearchTrees[g] /\ e \in KeyValues
  /\ Num(l) + Num(r) + 1 <= 2 * t - 1 /\ Under(KeysIn[g][l], {e}) /\ Under({e}, KeysIn[g][r])

LEMMA JointSearch ==
  ASSUME NEW g \in Nat, NEW l, NEW e, NEW r, Joins(g, l, e, r)
  PROVE  LET b == Joint(l, e, r)
         IN b \in SearchTrees[g] /\ KeysIn[g][b] = KeysIn[g][l] \cup KeysIn[g][r] \cup {e}
  <1> DEFINE b == Joint(l, e, r)
             p == Num(l)
             q == Num(r)
             L == KeysIn[g][l]
             R == KeysIn[g][r]
  <1>0. /\ l \in SearchTrees[g] /\ r \in SearchTrees[g] /\ e \in KeyValues
        /\ p + q + 1 <= 2 * t - 1 /\ Under(L, {e}) /\ Under({e}, R)
    BY DEF Joins
  <1>1. /\ l \in NodesAt(g) /\ p \in Nat
        /\ \A m, n \in 1 .. p : m < n => l.keys[m] < l.keys[n]
        /\ g > 0 => \A n \in 1 .. p + 1 :
             /\ l.kids[n] \in SearchTrees[g - 1]
             /\ \A v \in KeysIn[g - 1][l.kids[n]] : \A m \in 1 .. p :
                  (m < n => l.keys[m] < v) /\ (m >= n => v < l.keys[m])
    BY <1>0, Ascends
  <1>2. /\ r \in NodesAt(g) /\ q \in Nat
        /\ \A m, n \in 1 .. q : m < n => r.keys[m] < r.keys[n]
        /\ g > 0 => \A n \in 1 .. q + 1 :
             /\ r.kids[n] \in SearchTrees[g - 1]
             /\ \A v \in KeysIn[g - 1][r.kids[n]] : \A m \in 1 .. q :
                  (m < n => r.keys[m] < v) /\ (m >= n => v < r.keys[m])
    BY <1>0, Ascends
  <1>3. b \in NodesAt(g) /\ Num(b) = p + q + 1 /\ L \cup R \cup {e} \subseteq KeysIn[g][b]
    BY <1>0, <1>1, <1>2, Glued DEF Joint
  <1>4. IsJoint(g, l, e, r, b)
    BY <1>0, <1>1, <1>2, JointAt
  <1> HIDE DEF b
  <1>5. /\ \A n \in 1 .. p : b.keys[n] = l.keys[n]
        /\ b.keys[p + 1] = e
        /\ \A n \in p + 2 .. p + q + 1 : b.keys[n] = r.keys[n - p - 1]
        /\ g > 0 => /\ \A n \in 1 .. p + 1 : b.kids[n] = l.kids[n]
                    /\ \A n \in p + 2 .. p + q + 2 : b.kids[n] = r.kids[n - p - 1]
    BY <1>4 DEF IsJoint
  <1>6. /\ \A n \in 1 .. p : l.keys[n] \in L
        /\ g > 0 => \A n \in 1 .. p + 1 : KeysIn[g - 1][l.kids[n]] \subseteq L
        /\ \A n \in 1 .. q : r.keys[n] \in R
        /\ g > 0 => \A n \in 1 .. q + 1 : KeysIn[g - 1][r.kids[n]] \subseteq R
    BY <1>1, <1>2, Reaches
  <1>7. e \in Int /\ L \subseteq Int /\ R \subseteq Int
    BY <1>0, <1>1, <1>2, KeysAreKeys, DegreeFacts
  <1>8. (\A v \in L : v < e) /\ (\A w \in R : e < w)
    BY <1>0 DEF Under
  <1>9. \A v \in L : \A w \in R : v < w
    BY <1>7, <1>8
  <1> HIDE DEF p, q, L, R
  <1>10. ASSUME NEW n \in 1 .. Num(b)
         PROVE  \/ n \in 1 .. p /\ b.keys[n] = l.keys[n] /\ b.keys[n] \in L
                \/ n = p + 1 /\ b.keys[n] = e
                \/ n >= p + 2 /\ n - p - 1 \in 1 .. q /\ b.keys[n] = r.keys[n - p - 1] /\ b.keys[n] \in R
    <2>1. n \in 1 .. p \/ n = p + 1 \/ (n >= p + 2 /\ n \in p + 2 .. p + q + 1 /\ n - p - 1 \in 1 .. q)
      BY <1>1, <1>2, <1>3
    <2> QED
      BY <1>5, <1>6, <2>1
  <1>11. ASSUME g > 0, NEW n \in 1 .. Num(b) + 1
         PROVE  \/ n \in 1 .. p + 1 /\ b.kids[n] = l.kids[n] /\ KeysIn[g - 1][b.kids[n]] \subseteq L
                \/ n >= p + 2 /\ n - p - 1 \in 1 .. q + 1 /\ b.kids[n] = r.kids[n - p - 1] /\ KeysIn[g - 1][b.kids[n]] \subseteq R
    <2>1. n \in 1 .. p + 1 \/ (n >= p + 2 /\ n \in p + 2 .. p + q + 2 /\ n - p - 1 \in 1 .. q + 1)
      BY <1>1, <1>2, <1>3
    <2> QED
      BY <1>5, <1>6, <1>11, <2>1
  <1>12. ASSUME NEW m \in 1 .. Num(b), NEW n \in 1 .. Num(b), m < n PROVE b.keys[m] < b.keys[n]
    <2>1. CASE n \in 1 .. p /\ b.keys[n] = l.keys[n]
      <3>1. m \in 1 .. p /\ b.keys[m] = l.keys[m]
        BY <1>1, <1>5, <1>12, <2>1
      <3> QED
        BY <1>1, <1>12, <2>1, <3>1
    <2>2. CASE n = p + 1 /\ b.keys[n] = e
      <3>1. m \in 1 .. p /\ b.keys[m] \in L
        BY <1>1, <1>5, <1>6, <1>12, <2>2
      <3> QED
        BY <1>8, <2>2, <3>1
    <2>3. CASE n >= p + 2 /\ n - p - 1 \in 1 .. q /\ b.keys[n] = r.keys[n - p - 1] /\ b.keys[n] \in R
      <3>1. CASE b.keys[m] \in L \/ b.keys[m] = e
        BY <1>8, <1>9, <2>3, <3>1
      <3>2. CASE m >= p + 2 /\ m - p - 1 \in 1 .. q /\ b.keys[m] = r.keys[m - p - 1]
        <4>1. m - p - 1 < n - p - 1
          BY <1>1, <1>12
        <4> QED
          BY <1>2, <2>3, <3>2, <4>1
      <3> QED
        BY <1>10, <3>1, <3>2
    <2> QED
      BY <1>10, <2>1, <2>2, <2>3
  <1>13. ASSUME g > 0, NEW n \in 1 .. Num(b) + 1
         PROVE  /\ b.kids[n] \in SearchTrees[g - 1]
                /\ \A v \in KeysIn[g - 1][b.kids[n]] : \A m \in 1 .. Num(b) :
                     IF m < n THEN b.keys[m] < v ELSE v < b.keys[m]
    <2>1. CASE n \in 1 .. p + 1 /\ b.kids[n] = l.kids[n] /\ KeysIn[g - 1][b.kids[n]] \subseteq L
      <3>1. ASSUME NEW v \in KeysIn[g - 1][l.kids[n]], NEW m \in 1 .. Num(b)
            PROVE  IF m < n THEN b.keys[m] < v ELSE v < b.keys[m]
        <4>1. v \in L
          BY <2>1
        <4>2. CASE m \in 1 .. p /\ b.keys[m] = l.keys[m]
          <5>1. m < n \/ m >= n
            BY <1>1, <2>1, <4>2
          <5> QED
            BY <1>1, <1>13, <2>1, <3>1, <4>2, <5>1
        <4>3. CASE m >= p + 1 /\ (b.keys[m] = e \/ b.keys[m] \in R)
          <5>1. ~(m < n)
            BY <1>1, <2>1, <4>3
          <5> QED
            BY <1>8, <1>9, <4>1, <4>3, <5>1
        <4>4. (m = p + 1 => m >= p + 1) /\ (m >= p + 2 => m >= p + 1)
          BY <1>1
        <4> QED
          BY <1>10, <4>2, <4>3, <4>4
      <3> QED
        BY <1>1, <1>13, <2>1, <3>1
    <2>2. CASE n >= p + 2 /\ n - p - 1 \in 1 .. q + 1 /\ b.kids[n] = r.kids[n - p - 1] /\ KeysIn[g - 1][b.kids[n]] \subseteq R
      <3> DEFINE j == n - p - 1
      <3>1. j \in 1 .. q + 1 /\ b.kids[n] = r.kids[j] /\ n = j + p + 1
        BY <1>1, <1>2, <1>3, <2>2
      <3> HIDE DEF j
      <3>2. ASSUME NEW v \in KeysIn[g - 1][r.kids[j]], NEW m \in 1 .. Num(b)
            PROVE  IF m < n THEN b.keys[m] < v ELSE v < b.keys[m]
        <4>1. v \in R
          BY <2>2, <3>1
        <4>2. CASE m <= p + 1 /\ (b.keys[m] = e \/ b.keys[m] \in L)
          <5>1. m < n
            BY <1>1, <2>2, <4>2
          <5> QED
            BY <1>8, <1>9, <4>1, <4>2, <5>1
        <4>3. CASE m - p - 1 \in 1 .. q /\ b.keys[m] = r.keys[m - p - 1]
          <5> DEFINE i == m - p - 1
          <5>1. i \in 1 .. q /\ b.keys[m] = r.keys[i] /\ (m < n <=> i < j) /\ (i < j \/ i >= j)
            BY <1>1, <1>2, <3>1, <4>3
          <5> HIDE DEF i
          <5> QED
            BY <1>2, <1>13, <3>1, <3>2, <5>1
        <4>4. (m \in 1 .. p => m <= p + 1) /\ (m = p + 1 => m <= p + 1)
          BY <1>1
        <4> QED
          BY <1>10, <4>2, <4>3, <4>4
      <3> QED
        BY <1>2, <1>13, <3>1, <3>2
    <2> QED
      BY <1>11, <1>13, <2>1, <2>2
  <1>14. InOrder(g, b)
    BY <1>12, <1>13 DEF InOrder
  <1>15. b \in SearchTrees[g]
    BY <1>3, <1>13, <1>14, IsSearch
  <1>16. KeysIn[g][b] \subseteq L \cup R \cup {e}
    <2> DEFINE K == L \cup R \cup {e}
    <2>1. \A n \in 1 .. Num(b) : b.keys[n] \in K
      BY <1>10
    <2>2. g > 0 => \A n \in 1 .. Num(b) + 1 : KeysIn[g - 1][b.kids[n]] \subseteq K
      BY <1>11
    <2> HIDE DEF K
    <2>3. KeysIn[g][b] \subseteq K
      BY <1>3, <2>1, <2>2, Within
    <2> QED
      BY <2>3 DEF K
  <1> QED
    BY <1>3, <1>15, <1>16 DEF b, L, R

\* v is where key i of x is, between the keys beside it.
Near(x, i, v) == \A m \in 1 .. Num(x) : (m < i => x.keys[m] < v) /\ (m > i => v < x.keys[m])

\* The keys of the children beside key i are near it, and that key is.
LEMMA AreNear ==
  ASSUME NEW h \in Nat, h > 0, NEW x \in SearchTrees[h], NEW i \in 1 .. Num(x)
  PROVE  /\ \A v : Fits(x, i, v) \/ Fits(x, i + 1, v) => Near(x, i, v)
         /\ \A v \in KeysIn[h - 1][x.kids[i]] \cup KeysIn[h - 1][x.kids[i + 1]] \cup {x.keys[i]} : Near(x, i, v)
         /\ Under(KeysIn[h - 1][x.kids[i]], {x.keys[i]}) /\ Under({x.keys[i]}, KeysIn[h - 1][x.kids[i + 1]])
  <1>1. /\ Num(x) \in Nat
        /\ \A m, n \in 1 .. Num(x) : m < n => x.keys[m] < x.keys[n]
        /\ \A n \in 1 .. Num(x) + 1 : \A e \in KeysIn[h - 1][x.kids[n]] : \A m \in 1 .. Num(x) :
             (m < n => x.keys[m] < e) /\ (m >= n => e < x.keys[m])
    BY Ascends
  <1>2. i \in 1 .. Num(x) + 1 /\ i + 1 \in 1 .. Num(x) + 1 /\ i \in Int /\ i >= i /\ i < i + 1
    BY <1>1
  <1>3. \A m \in 1 .. Num(x) : (m < i => m < i + 1) /\ (m > i => m >= i /\ m >= i + 1)
    BY <1>1, <1>2
  <1>4. \A v : Fits(x, i, v) \/ Fits(x, i + 1, v) => Near(x, i, v)
    BY <1>3 DEF Fits, Near
  <1>5. \A n \in 1 .. Num(x) + 1 : \A e \in KeysIn[h - 1][x.kids[n]] : Fits(x, n, e)
    BY <1>1 DEF Fits
  <1>6. Near(x, i, x.keys[i])
    BY <1>1 DEF Near
  <1>7. Under(KeysIn[h - 1][x.kids[i]], {x.keys[i]}) /\ Under({x.keys[i]}, KeysIn[h - 1][x.kids[i + 1]])
    BY <1>1, <1>2 DEF Under
  <1> QED
    BY <1>2, <1>4, <1>5, <1>6, <1>7

\* Where a merge puts keys and children, b being the new child.
IsMerge(x, i, b, s) ==
  /\ \A n \in 1 .. i - 1 : s.keys[n] = x.keys[n] /\ s.kids[n] = x.kids[n]
  /\ s.kids[i] = b
  /\ \A n \in i .. Num(x) - 1 : s.keys[n] = x.keys[n + 1]
  /\ \A n \in i + 1 .. Num(x) : s.kids[n] = x.kids[n + 1]

LEMMA MergeAt ==
  ASSUME NEW h \in Nat, h > 0, NEW x \in NodesAt(h), NEW i \in 1 .. Num(x),
         Joint(x.kids[i], x.keys[i], x.kids[i + 1]) \in Subtrees[h - 1]
  PROVE  IsMerge(x, i, Joint(x.kids[i], x.keys[i], x.kids[i + 1]), btree_merge(x, i))
  <1> DEFINE b  == Joint(x.kids[i], x.keys[i], x.kids[i + 1])
             u  == <<b>>
             j  == i + 2
             ks == RemoveAt(x.keys, i)
             cs == Spliced(x.kids, i, u, j)
             s  == btree_merge(x, i)
  <1>1. s = [keys |-> ks, kids |-> cs]
    BY DEF btree_merge, Spliced, Joint
  <1>2. /\ x.keys \in Seq(KeyValues) /\ x.kids \in Seq(Below(h)) /\ Num(x) \in Nat /\ Num(x) = Len(x.keys)
        /\ Len(x.kids) = Num(x) + 1
    BY IsNode
  <1>3. b \in Below(h)
    BY DEF Below
  <1> HIDE DEF b
  <1>4. u \in Seq(Below(h)) /\ Len(u) = 1 /\ u[1] = b
    BY <1>3, One
  <1> HIDE DEF u
  <1>5. /\ \A n \in 1 .. i - 1 : ks[n] = x.keys[n]
        /\ \A n \in i .. Num(x) - 1 : ks[n] = x.keys[n + 1]
    BY <1>2, RemovingAt
  <1> HIDE DEF ks
  <1>6. i \in 1 .. Len(x.kids) + 1 /\ j \in i .. Len(x.kids) + 1 /\ i \in Int
    BY <1>2
  <1>7. IsSpliceAt(x.kids, i, u, j, cs)
    BY <1>2, <1>4, <1>6, SpliceAt
  <1> HIDE DEF cs
  <1>8. /\ \A n \in 1 .. i - 1 : cs[n] = x.kids[n]
        /\ \A n \in 1 .. Len(u) : cs[i - 1 + n] = u[n]
        /\ \A n \in j .. Len(x.kids) : cs[n - (j - i) + Len(u)] = x.kids[n]
    BY <1>7 DEF IsSpliceAt
  <1>9. cs[i] = b
    <2>1. 1 \in 1 .. Len(u) /\ i - 1 + 1 = i
      BY <1>4, <1>6
    <2> QED
      BY <1>4, <1>8, <2>1
  <1>10. ASSUME NEW n \in i + 1 .. Num(x) PROVE cs[n] = x.kids[n + 1]
    <2>1. n + 1 \in j .. Len(x.kids)
      BY <1>2, <1>6, SMTT(30)
    <2>2. (n + 1) - (j - i) + Len(u) = n
      BY <1>4, <1>6
    <2> QED
      BY <1>8, <2>1, <2>2
  <1>11. s.keys = ks /\ s.kids = cs
    BY <1>1
  <1> HIDE DEF s
  <1> QED
    BY <1>5, <1>8, <1>9, <1>10, <1>11 DEF IsMerge, s, b

\* A merge in a search tree leaves one, with the same keys; what was near the
\* key that came down fits the new child.
LEMMA MergeSearch ==
  ASSUME NEW h \in Nat, h > 0, NEW x \in SearchTrees[h], NEW i \in 1 .. Num(x),
         Num(x.kids[i]) = t - 1, Num(x.kids[i + 1]) = t - 1
  PROVE  LET s == btree_merge(x, i)
         IN /\ s \in SearchTrees[h] /\ KeysIn[h][s] = KeysIn[h][x]
            /\ \A v : Near(x, i, v) => Fits(s, i, v)
  <1> DEFINE g == h - 1
             l == x.kids[i]
             e == x.keys[i]
             r == x.kids[i + 1]
             b == Joint(l, e, r)
             s == btree_merge(x, i)
  <1>1. /\ x \in NodesAt(h) /\ Num(x) \in Nat
        /\ \A n \in 1 .. Num(x) : x.keys[n] \in KeyValues
        /\ \A m, n \in 1 .. Num(x) : m < n => x.keys[m] < x.keys[n]
        /\ \A n \in 1 .. Num(x) + 1 :
             /\ x.kids[n] \in SearchTrees[g]
             /\ \A v \in KeysIn[g][x.kids[n]] : \A m \in 1 .. Num(x) :
                  (m < n => x.keys[m] < v) /\ (m >= n => v < x.keys[m])
    BY Ascends
  <1>2. s \in NodesAt(h) /\ Num(s) = Num(x) - 1 /\ KeysIn[h][x] \subseteq KeysIn[h][s]
    BY <1>1, Merged
  <1>3. /\ g \in Nat /\ i \in 1 .. Num(x) + 1 /\ i + 1 \in 1 .. Num(x) + 1 /\ i \in Int
        /\ l \in SearchTrees[g] /\ r \in SearchTrees[g] /\ e \in KeyValues
    BY <1>1
  <1>4. /\ \A v \in KeysIn[g][l] \cup KeysIn[g][r] \cup {e} : Near(x, i, v)
        /\ Under(KeysIn[g][l], {e}) /\ Under({e}, KeysIn[g][r])
    BY AreNear
  <1>5. Num(l) = t - 1 /\ Num(r) = t - 1 /\ Num(l) + Num(r) + 1 = 2 * t - 1 /\ Num(l) + Num(r) + 1 <= 2 * t - 1
    BY DegreeFacts
  <1>6. b \in SearchTrees[g] /\ KeysIn[g][b] = KeysIn[g][l] \cup KeysIn[g][r] \cup {e}
    <2> HIDE DEF g, l, e, r
    <2>1. Joins(g, l, e, r)
      BY <1>3, <1>4, <1>5 DEF Joins
    <2> QED
      BY <1>3, <2>1, JointSearch
  <1>7. b \in Subtrees[g]
    <2>1. l \in NodesAt(g) /\ r \in NodesAt(g)
      BY <1>3, IsSearch
    <2>2. Num(b) = Num(l) + Num(r) + 1 /\ b \in NodesAt(g)
      <3> HIDE DEF g, l, e, r
      <3> QED
        BY <1>3, <1>5, <2>1, Glued DEF Joint
    <2>3. Num(b) >= t - 1
      BY <1>5, <2>2, DegreeFacts
    <2> HIDE DEF b
    <2> QED
      BY <1>3, <2>2, <2>3, IsSubtree
  <1>8. IsMerge(x, i, b, s)
    BY <1>1, <1>7, MergeAt
  <1> HIDE DEF b, s
  <1>9. /\ \A n \in 1 .. i - 1 : s.keys[n] = x.keys[n] /\ s.kids[n] = x.kids[n]
        /\ s.kids[i] = b
        /\ \A n \in i .. Num(x) - 1 : s.keys[n] = x.keys[n + 1]
        /\ \A n \in i + 1 .. Num(x) : s.kids[n] = x.kids[n + 1]
    BY <1>8 DEF IsMerge
  <1> HIDE DEF g, l, e, r
  <1>10. ASSUME NEW m \in 1 .. Num(s)
         PROVE  \/ m < i /\ m \in 1 .. Num(x) /\ s.keys[m] = x.keys[m]
                \/ m >= i /\ m + 1 \in 1 .. Num(x) /\ m + 1 > i /\ s.keys[m] = x.keys[m + 1]
    <2>1. (m < i /\ m \in 1 .. i - 1 /\ m \in 1 .. Num(x)) \/ (m >= i /\ m \in i .. Num(x) - 1 /\ m + 1 \in 1 .. Num(x) /\ m + 1 > i)
      BY <1>1, <1>2, <1>3
    <2> QED
      BY <1>9, <2>1
  <1>11. ASSUME NEW v, Near(x, i, v), NEW m \in 1 .. Num(s) PROVE IF m < i THEN s.keys[m] < v ELSE v < s.keys[m]
    <2>1. \A n \in 1 .. Num(x) : (n < i => x.keys[n] < v) /\ (n > i => v < x.keys[n])
      BY <1>11 DEF Near
    <2>2. m >= i => ~(m < i)
      BY <1>3
    <2> QED
      BY <1>10, <2>1, <2>2
  <1>12. ASSUME NEW m \in 1 .. Num(s), NEW n \in 1 .. Num(s), m < n PROVE s.keys[m] < s.keys[n]
    <2>1. CASE n < i /\ n \in 1 .. Num(x) /\ s.keys[n] = x.keys[n]
      <3>1. m \in 1 .. Num(x) /\ s.keys[m] = x.keys[m]
        BY <1>2, <1>3, <1>9, <1>10, <1>12, <2>1
      <3> QED
        BY <1>1, <1>12, <2>1, <3>1
    <2>2. CASE n >= i /\ n + 1 \in 1 .. Num(x) /\ s.keys[n] = x.keys[n + 1]
      <3>1. m < n + 1 /\ m + 1 < n + 1
        BY <1>12
      <3> QED
        BY <1>1, <1>10, <2>2, <3>1
    <2> QED
      BY <1>10, <2>1, <2>2
  <1>13. ASSUME NEW n \in 1 .. Num(s) + 1
         PROVE  /\ s.kids[n] \in SearchTrees[g]
                /\ \A v \in KeysIn[g][s.kids[n]] : \A m \in 1 .. Num(s) :
                     IF m < n THEN s.keys[m] < v ELSE v < s.keys[m]
                /\ s.kids[n] = b \/ \E j \in 1 .. Num(x) + 1 : s.kids[n] = x.kids[j]
    <2>1. CASE n < i
      <3>1. n \in 1 .. Num(x) + 1 /\ s.kids[n] = x.kids[n]
        BY <1>1, <1>2, <1>3, <1>9, <2>1
      <3>2. ASSUME NEW v \in KeysIn[g][x.kids[n]], NEW m \in 1 .. Num(s)
            PROVE  IF m < n THEN s.keys[m] < v ELSE v < s.keys[m]
        <4>1. CASE m < i /\ m \in 1 .. Num(x) /\ s.keys[m] = x.keys[m]
          <5>1. m < n \/ m >= n
            BY <1>1, <4>1
          <5> QED
            BY <1>1, <3>1, <3>2, <4>1, <5>1
        <4>2. CASE m >= i /\ m + 1 \in 1 .. Num(x) /\ s.keys[m] = x.keys[m + 1]
          <5>1. ~(m < n) /\ m + 1 >= n
            BY <1>3, <2>1, <4>2
          <5> QED
            BY <1>1, <3>1, <3>2, <4>2, <5>1
        <4> QED
          BY <1>10, <4>1, <4>2
      <3> QED
        BY <1>1, <3>1, <3>2
    <2>2. CASE n = i
      BY <1>4, <1>6, <1>9, <1>11, <2>2
    <2>3. CASE n > i
      <3> DEFINE j == n + 1
      <3>1. j \in 1 .. Num(x) + 1 /\ s.kids[n] = x.kids[j] /\ n = j - 1 /\ j > i + 1
        BY <1>1, <1>2, <1>3, <1>9, <2>3
      <3> HIDE DEF j
      <3>2. ASSUME NEW v \in KeysIn[g][x.kids[j]], NEW m \in 1 .. Num(s)
            PROVE  IF m < n THEN s.keys[m] < v ELSE v < s.keys[m]
        <4>1. CASE m < i /\ m \in 1 .. Num(x) /\ s.keys[m] = x.keys[m]
          <5>1. m < n /\ m < j
            BY <1>3, <2>3, <3>1, <4>1
          <5> QED
            BY <1>1, <3>1, <3>2, <4>1, <5>1
        <4>2. CASE m >= i /\ m + 1 \in 1 .. Num(x) /\ s.keys[m] = x.keys[m + 1]
          <5>1. (m < n <=> m + 1 < j) /\ (m + 1 < j \/ m + 1 >= j)
            BY <1>3, <3>1, <4>2
          <5> QED
            BY <1>1, <3>1, <3>2, <4>2, <5>1
        <4> QED
          BY <1>10, <4>1, <4>2
      <3> QED
        BY <1>1, <3>1, <3>2
    <2> QED
      BY <1>3, <2>1, <2>2, <2>3
  <1>14. InOrder(h, s)
    BY <1>12, <1>13 DEF InOrder, g
  <1>15. s \in SearchTrees[h]
    BY <1>2, <1>13, <1>14, IsSearch DEF g
  <1>16. KeysIn[h][s] \subseteq KeysIn[h][x]
    <2>1. /\ \A n \in 1 .. Num(x) : x.keys[n] \in KeysIn[h][x]
          /\ \A n \in 1 .. Num(x) + 1 : KeysIn[g][x.kids[n]] \subseteq KeysIn[h][x]
      BY <1>1, Reaches DEF g
    <2>2. KeysIn[g][b] \subseteq KeysIn[h][x]
      BY <1>3, <1>6, <2>1 DEF l, e, r
    <2> DEFINE K == KeysIn[h][x]
    <2>3. \A n \in 1 .. Num(s) : s.keys[n] \in K
      BY <1>10, <2>1
    <2>4. \A n \in 1 .. Num(s) + 1 : KeysIn[h - 1][s.kids[n]] \subseteq K
      BY <1>13, <2>1, <2>2 DEF g
    <2> HIDE DEF K
    <2>5. KeysIn[h][s] \subseteq K
      BY <1>2, <2>3, <2>4, Within
    <2> QED
      BY <2>5 DEF K
  <1>17. ASSUME NEW v, Near(x, i, v) PROVE Fits(s, i, v)
    <2>1. \A m \in 1 .. Num(s) : m >= i => ~(m < i)
      BY <1>3
    <2> QED
      BY <1>11, <1>17, <2>1 DEF Fits
  <1> QED
    BY <1>2, <1>15, <1>16, <1>17 DEF s
-----------------------------------------------------------------------------
(* Rotations in search trees *)

\* Key i of x and the children beside it are replaced in y.
IsPair(x, i, lo, e, hi, y) ==
  /\ Num(y) = Num(x)
  /\ \A n \in 1 .. Num(x) : y.keys[n] = IF n = i THEN e ELSE x.keys[n]
  /\ \A n \in 1 .. Num(x) + 1 : y.kids[n] = IF n = i THEN lo ELSE IF n = i + 1 THEN hi ELSE x.kids[n]

\* The new key is between the keys of the new children, and these keys were all
\* there before.
IsDivision(h, x, i, lo, e, hi) ==
  /\ lo \in SearchTrees[h - 1] /\ hi \in SearchTrees[h - 1] /\ e \in KeyValues
  /\ Under(KeysIn[h - 1][lo], {e}) /\ Under({e}, KeysIn[h - 1][hi])
  /\ KeysIn[h - 1][lo] \cup {e} \cup KeysIn[h - 1][hi]
       \subseteq KeysIn[h - 1][x.kids[i]] \cup {x.keys[i]} \cup KeysIn[h - 1][x.kids[i + 1]]

\* Then y is a search tree too, with no other keys than x; of the keys near key
\* i it has only those in the new pair.
LEMMA PairSearch ==
  ASSUME NEW h \in Nat, h > 0, NEW x \in SearchTrees[h], NEW i \in 1 .. Num(x), NEW lo, NEW e, NEW hi,
         NEW y \in NodesAt(h), IsPair(x, i, lo, e, hi, y), IsDivision(h, x, i, lo, e, hi)
  PROVE  /\ y \in SearchTrees[h] /\ KeysIn[h][y] \subseteq KeysIn[h][x]
         /\ \A v \in Int : Near(x, i, v) /\ v \in KeysIn[h][y]
                             => v \in KeysIn[h - 1][lo] \cup {e} \cup KeysIn[h - 1][hi]
  <1> DEFINE g == h - 1
             P == KeysIn[g][lo] \cup {e} \cup KeysIn[g][hi]
             Q == KeysIn[g][x.kids[i]] \cup {x.keys[i]} \cup KeysIn[g][x.kids[i + 1]]
  <1>1. /\ x \in NodesAt(h) /\ Num(x) \in Nat
        /\ \A n \in 1 .. Num(x) : x.keys[n] \in Int
        /\ \A m, n \in 1 .. Num(x) : m < n => x.keys[m] < x.keys[n]
        /\ \A n \in 1 .. Num(x) + 1 :
             /\ x.kids[n] \in SearchTrees[g]
             /\ \A v \in KeysIn[g][x.kids[n]] : \A m \in 1 .. Num(x) :
                  (m < n => x.keys[m] < v) /\ (m >= n => v < x.keys[m])
    BY Ascends
  <1>2. /\ Num(y) = Num(x)
        /\ \A n \in 1 .. Num(x) : y.keys[n] = IF n = i THEN e ELSE x.keys[n]
        /\ \A n \in 1 .. Num(x) + 1 : y.kids[n] = IF n = i THEN lo ELSE IF n = i + 1 THEN hi ELSE x.kids[n]
    BY DEF IsPair
  <1>3. /\ lo \in SearchTrees[g] /\ hi \in SearchTrees[g] /\ e \in KeyValues /\ P \subseteq Q
        /\ \A v \in KeysIn[g][lo] : v < e
        /\ \A v \in KeysIn[g][hi] : e < v
    BY DEF IsDivision, Under
  <1>4. \A v \in P : Near(x, i, v)
    <2>1. \A v \in Q : Near(x, i, v)
      BY AreNear
    <2> QED
      BY <1>3, <2>1
  <1>5. i \in 1 .. Num(x) + 1 /\ i + 1 \in 1 .. Num(x) + 1 /\ i \in Int /\ i # i + 1
    BY <1>1
  <1>6. Q \subseteq KeysIn[h][x]
    BY <1>1, <1>5, Reaches
  <1>7. e \in P /\ KeysIn[g][lo] \subseteq P /\ KeysIn[g][hi] \subseteq P
    OBVIOUS
  <1>8. P \subseteq Int
    <2>1. KeysIn[g][lo] \subseteq KeyValues /\ KeysIn[g][hi] \subseteq KeyValues /\ g \in Nat
      BY <1>3, KeysAreKeys, IsSearch
    <2> QED
      BY <1>3, <2>1, DegreeFacts
  <1>9. \A n \in 1 .. Num(x) + 1 : KeysIn[g][x.kids[n]] \subseteq Int
    BY <1>1, Child, KeysAreKeys, DegreeFacts
  <1> HIDE DEF P, Q, g
  <1>10. ASSUME NEW v \in P, NEW m \in 1 .. Num(x) PROVE (m < i => x.keys[m] < v) /\ (m > i => v < x.keys[m])
    BY <1>4, <1>10 DEF Near
  <1>11. ASSUME NEW m \in 1 .. Num(x), NEW n \in 1 .. Num(x), m < n PROVE y.keys[m] < y.keys[n]
    <2>1. CASE n = i
      BY <1>2, <1>5, <1>7, <1>10, <1>11, <2>1
    <2>2. CASE m = i
      BY <1>2, <1>5, <1>7, <1>10, <1>11, <2>2
    <2>3. CASE m # i /\ n # i
      BY <1>1, <1>2, <1>11, <2>3
    <2> QED
      BY <2>1, <2>2, <2>3
  <1>12. ASSUME NEW n \in 1 .. Num(x) + 1
         PROVE  /\ y.kids[n] \in SearchTrees[g]
                /\ \A v \in KeysIn[g][y.kids[n]] : \A m \in 1 .. Num(x) :
                     IF m < n THEN y.keys[m] < v ELSE v < y.keys[m]
    <2>1. ASSUME n = i \/ n = i + 1, NEW v \in P, NEW m \in 1 .. Num(x), m # i
          PROVE  IF m < n THEN y.keys[m] < v ELSE v < y.keys[m]
      <3>1. (m < i /\ m < n) \/ (m > i /\ ~(m < n))
        BY <1>5, <2>1
      <3> QED
        BY <1>2, <1>10, <2>1, <3>1
    <2>2. CASE n = i
      <3>1. y.kids[n] = lo /\ y.keys[i] = e /\ ~(i < n)
        BY <1>2, <1>5, <2>2
      <3> QED
        BY <1>3, <1>7, <2>1, <2>2, <3>1
    <2>3. CASE n = i + 1
      <3>1. y.kids[n] = hi /\ y.keys[i] = e /\ i < n
        BY <1>2, <1>5, <2>3
      <3> QED
        BY <1>3, <1>7, <2>1, <2>3, <3>1
    <2>4. CASE n # i /\ n # i + 1
      <3>1. y.kids[n] = x.kids[n]
        BY <1>2, <2>4
      <3>2. ASSUME NEW v \in KeysIn[g][x.kids[n]], NEW m \in 1 .. Num(x)
            PROVE  IF m < n THEN y.keys[m] < v ELSE v < y.keys[m]
        <4>1. (m < n => x.keys[m] < v) /\ (m >= n => v < x.keys[m]) /\ (m < n \/ m >= n)
          BY <1>1, <3>2
        <4>2. CASE m # i
          BY <1>2, <4>1, <4>2
        <4>3. CASE m = i /\ n < i
          <5>1. n \in 1 .. Num(x) /\ n >= n /\ ~(m < n)
            BY <1>1, <1>5, <4>3
          <5>2. v < x.keys[n] /\ x.keys[n] < e
            BY <1>1, <1>7, <1>10, <3>2, <4>3, <5>1
          <5>3. v \in Int /\ x.keys[n] \in Int /\ e \in Int
            BY <1>1, <1>7, <1>8, <1>9, <3>2, <5>1
          <5> QED
            BY <1>2, <4>3, <5>1, <5>2, <5>3
        <4>4. CASE m = i /\ n > i + 1
          <5> DEFINE j == n - 1
          <5>1. j \in 1 .. Num(x) /\ j < n /\ j > i /\ m < n
            BY <1>1, <1>5, <4>4
          <5> HIDE DEF j
          <5>2. x.keys[j] < v /\ e < x.keys[j]
            BY <1>1, <1>7, <1>10, <3>2, <5>1
          <5>3. v \in Int /\ x.keys[j] \in Int /\ e \in Int
            BY <1>1, <1>7, <1>8, <1>9, <3>2, <5>1
          <5> QED
            BY <1>2, <4>4, <5>1, <5>2, <5>3
        <4> QED
          BY <1>5, <2>4, <4>2, <4>3, <4>4
      <3> QED
        BY <1>1, <3>1, <3>2
    <2> QED
      BY <2>2, <2>3, <2>4
  <1>13. InOrder(h, y)
    BY <1>2, <1>11, <1>12 DEF InOrder, g
  <1>14. y \in SearchTrees[h]
    BY <1>2, <1>12, <1>13, IsSearch DEF g
  <1>15. /\ \A n \in 1 .. Num(x) : x.keys[n] \in KeysIn[h][x]
         /\ \A n \in 1 .. Num(x) + 1 : KeysIn[g][x.kids[n]] \subseteq KeysIn[h][x]
    BY <1>1, Reaches DEF g
  <1>16. ASSUME NEW v \in Int, Near(x, i, v), NEW n \in 1 .. Num(x), n # i PROVE v # x.keys[n]
    BY <1>1, <1>5, <1>16 DEF Near
  <1>17. ASSUME NEW v \in Int, Near(x, i, v), NEW n \in 1 .. Num(x) + 1, n # i, n # i + 1
         PROVE  v \notin KeysIn[g][x.kids[n]]
    <2>1. CASE n < i
      <3>1. n \in 1 .. Num(x) /\ n >= n
        BY <1>1, <1>5, <2>1
      <3>2. x.keys[n] < v /\ x.keys[n] \in Int
        BY <1>1, <1>17, <2>1, <3>1 DEF Near
      <3>3. v \in KeysIn[g][x.kids[n]] => v < x.keys[n]
        BY <1>1, <3>1
      <3> QED
        BY <3>2, <3>3
    <2>2. CASE n > i + 1
      <3> DEFINE j == n - 1
      <3>1. j \in 1 .. Num(x) /\ j < n /\ j > i
        BY <1>1, <1>5, <2>2
      <3> HIDE DEF j
      <3>2. v < x.keys[j] /\ x.keys[j] \in Int
        BY <1>1, <1>17, <3>1 DEF Near
      <3>3. v \in KeysIn[g][x.kids[n]] => x.keys[j] < v
        BY <1>1, <3>1
      <3> QED
        BY <3>2, <3>3
    <2> QED
      BY <1>5, <1>17, <2>1, <2>2
  <1>18. ASSUME NEW n \in 1 .. Num(x) PROVE y.keys[n] \in P \/ (n # i /\ y.keys[n] = x.keys[n])
    BY <1>2, <1>7
  <1>19. ASSUME NEW n \in 1 .. Num(x) + 1
         PROVE  KeysIn[g][y.kids[n]] \subseteq P \/ (n # i /\ n # i + 1 /\ y.kids[n] = x.kids[n])
    BY <1>2, <1>5, <1>7
  <1> DEFINE K == {v \in KeysIn[h][x] : v \in Int /\ (Near(x, i, v) => v \in P)}
  <1>20. KeysIn[h][y] \subseteq K
    <2>1. P \subseteq K
      BY <1>3, <1>6, <1>8
    <2>2. ASSUME NEW n \in 1 .. Num(y) PROVE y.keys[n] \in K
      <3>1. CASE y.keys[n] \in P
        BY <2>1, <3>1
      <3>2. CASE n # i /\ y.keys[n] = x.keys[n]
        BY <1>1, <1>2, <1>15, <1>16, <3>2
      <3> QED
        BY <1>2, <1>18, <3>1, <3>2
    <2>3. ASSUME NEW n \in 1 .. Num(y) + 1 PROVE KeysIn[h - 1][y.kids[n]] \subseteq K
      <3>1. CASE KeysIn[g][y.kids[n]] \subseteq P
        BY <2>1, <3>1 DEF g
      <3>2. CASE n # i /\ n # i + 1 /\ y.kids[n] = x.kids[n]
        <4>1. KeysIn[g][x.kids[n]] \subseteq Int
          BY <1>2, <1>9
        <4>2. ASSUME NEW v \in KeysIn[g][x.kids[n]] PROVE v \in K
          BY <1>2, <1>15, <1>17, <3>2, <4>1
        <4> QED
          BY <3>2, <4>2 DEF g
      <3> QED
        BY <1>2, <1>19, <3>1, <3>2
    <2> HIDE DEF K
    <2> QED
      BY <2>2, <2>3, Within
  <1> QED
    BY <1>14, <1>20 DEF P, g

\* Two neighbours and the key between them replaced, in either order.
LEMMA SwapAt ==
  ASSUME NEW h \in Nat, h > 0, NEW x \in NodesAt(h), NEW i \in 1 .. Num(x), NEW e \in KeyValues,
         NEW lo \in Subtrees[h - 1], NEW hi \in Subtrees[h - 1]
  PROVE  /\ IsPair(x, i, lo, e, hi, Swapped(x, i, e, i, lo, i + 1, hi))
         /\ IsPair(x, i, lo, e, hi, Swapped(x, i, e, i + 1, hi, i, lo))
  <1> DEFINE j == i + 1
  <1>1. /\ x.keys \in Seq(KeyValues) /\ x.kids \in Seq(Below(h)) /\ Num(x) \in Nat /\ Num(x) = Len(x.keys)
        /\ Len(x.kids) = Num(x) + 1
    BY IsNode
  <1>2. /\ i \in 1 .. Len(x.keys) /\ i \in 1 .. Len(x.kids) /\ j \in 1 .. Len(x.kids) /\ i # j
        /\ lo \in Below(h) /\ hi \in Below(h)
    BY <1>1 DEF Below
  <1> HIDE DEF j
  <1>3. ASSUME NEW a \in 1 .. Len(x.kids), NEW b \in 1 .. Len(x.kids), a # b, NEW c \in Below(h), NEW d \in Below(h)
        PROVE  LET y == Swapped(x, i, e, a, c, b, d)
               IN /\ Num(y) = Num(x)
                  /\ \A n \in 1 .. Num(x) : y.keys[n] = IF n = i THEN e ELSE x.keys[n]
                  /\ \A n \in 1 .. Num(x) + 1 : y.kids[n] = IF n = a THEN c ELSE IF n = b THEN d ELSE x.kids[n]
    <2> DEFINE ks == [x.keys EXCEPT ![i] = e]
               c1 == [x.kids EXCEPT ![a] = c]
               cs == [c1 EXCEPT ![b] = d]
               y  == Swapped(x, i, e, a, c, b, d)
    <2>1. y = [keys |-> ks, kids |-> cs]
      BY DEF Swapped
    <2>2. Len(ks) = Len(x.keys) /\ ks[i] = e /\ \A n \in 1 .. Len(x.keys) : n # i => ks[n] = x.keys[n]
      BY <1>1, <1>2, Put
    <2> HIDE DEF ks
    <2>3. /\ c1 \in Seq(Below(h)) /\ Len(c1) = Len(x.kids) /\ c1[a] = c
          /\ \A n \in 1 .. Len(x.kids) : n # a => c1[n] = x.kids[n]
      BY <1>1, Put
    <2> HIDE DEF c1
    <2>4. cs[b] = d /\ \A n \in 1 .. Len(c1) : n # b => cs[n] = c1[n]
      <3>1. b \in 1 .. Len(c1)
        BY <2>3
      <3> QED
        BY <2>3, <3>1, Put
    <2> HIDE DEF cs
    <2>5. y.keys = ks /\ y.kids = cs
      BY <2>1
    <2> HIDE DEF y
    <2> QED
      BY <1>1, <1>2, <1>3, <2>2, <2>3, <2>4, <2>5 DEF Num, y
  <1>4. IsPair(x, i, lo, e, hi, Swapped(x, i, e, i, lo, j, hi))
    <2> DEFINE y == Swapped(x, i, e, i, lo, j, hi)
    <2>1. /\ Num(y) = Num(x)
          /\ \A n \in 1 .. Num(x) : y.keys[n] = IF n = i THEN e ELSE x.keys[n]
          /\ \A n \in 1 .. Num(x) + 1 : y.kids[n] = IF n = i THEN lo ELSE IF n = j THEN hi ELSE x.kids[n]
      BY <1>2, <1>3, SMTT(30)
    <2> HIDE DEF y
    <2> QED
      BY <2>1 DEF IsPair, j, y
  <1>5. IsPair(x, i, lo, e, hi, Swapped(x, i, e, j, hi, i, lo))
    <2> DEFINE y == Swapped(x, i, e, j, hi, i, lo)
    <2>1. /\ Num(y) = Num(x)
          /\ \A n \in 1 .. Num(x) : y.keys[n] = IF n = i THEN e ELSE x.keys[n]
          /\ \A n \in 1 .. Num(x) + 1 : y.kids[n] = IF n = j THEN hi ELSE IF n = i THEN lo ELSE x.kids[n]
      BY <1>2, <1>3
    <2> HIDE DEF y
    <2>2. \A n \in 1 .. Num(x) + 1 : y.kids[n] = IF n = i THEN lo ELSE IF n = j THEN hi ELSE x.kids[n]
      BY <1>2, <2>1
    <2> QED
      BY <2>1, <2>2 DEF IsPair, j, y
  <1> QED
    BY <1>4, <1>5 DEF j

\* The parts of a node without keys: only its first child, or only its last.
LEMMA EndPieces ==
  ASSUME NEW g \in Nat, NEW w \in NodesAt(g)
  PROVE  LET p == Piece(w, 1, 0)
             q == Piece(w, Num(w) + 1, Num(w))
         IN /\ p.keys = << >> /\ p.kids = IF Leaf(w) THEN << >> ELSE <<Head(w.kids)>>
            /\ q.keys = << >> /\ q.kids = IF Leaf(w) THEN << >> ELSE <<Last(w.kids)>>
  <1> DEFINE n == Num(w)
  <1>1. /\ w.keys \in Seq(KeyValues) /\ w.kids \in Seq(Below(g)) /\ n \in Nat /\ n = Len(w.keys)
        /\ (Leaf(w) <=> g = 0) /\ (g > 0 => Len(w.kids) = n + 1)
    BY IsNode
  <1> HIDE DEF n
  <1>2. SubSeq(w.keys, 1, 0) = << >> /\ SubSeq(w.keys, n + 1, n) = << >>
    <2>1. n + 1 \in Int /\ n \in Int /\ n < n + 1
      BY <1>1
    <2> QED
      BY <2>1, SubSeqEmpty
  <1>3. CASE g = 0
    BY <1>1, <1>2, <1>3 DEF Piece, Kids, n
  <1>4. CASE g > 0
    <2>1. \A m \in 1 .. n + 1 : SubSeq(w.kids, m, m) = <<w.kids[m]>>
      <3> SUFFICES ASSUME NEW m \in 1 .. n + 1 PROVE SubSeq(w.kids, m, m) = <<w.kids[m]>>
        OBVIOUS
      <3>1. m \in 1 .. Len(w.kids) /\ m \in m .. Len(w.kids) /\ m + 1 \in Int /\ m \in Int /\ m < m + 1
        BY <1>1, <1>4
      <3> DEFINE u == <<w.kids[m]>>
      <3>2. SubSeq(w.kids, m, m) = u \o SubSeq(w.kids, m + 1, m)
        <4>1. m \in m .. m
          BY <3>1
        <4> QED
          BY <1>1, <3>1, SubSeqRecursiveFirst
      <3>3. SubSeq(w.kids, m + 1, m) = << >>
        BY <3>1, SubSeqEmpty
      <3>4. u \in Seq(Below(g))
        <4>1. w.kids[m] \in Below(g)
          BY <1>1, <3>1, Elements
        <4> QED
          BY <4>1, One
      <3> HIDE DEF u
      <3>5. u \o << >> = u
        BY <3>4, ConcatEmptySeq
      <3> QED
        BY <3>2, <3>3, <3>5 DEF u
    <2>2. 1 \in 1 .. n + 1 /\ n + 1 \in 1 .. n + 1
      BY <1>1
    <2>3. Head(w.kids) = w.kids[1] /\ Last(w.kids) = w.kids[n + 1]
      BY <1>1, <1>4, Ends
    <2>4. Kids(w, 1, 0 + 1) = <<Head(w.kids)>> /\ Kids(w, n + 1, n + 1) = <<Last(w.kids)>>
      BY <1>1, <1>4, <2>1, <2>2, <2>3 DEF Kids
    <2> QED
      BY <1>1, <1>2, <1>4, <2>4 DEF Piece, n
  <1> QED
    BY <1>1, <1>3, <1>4

\* A node longer by the first child of w is joined with that part of w, and w
\* without its first key and child is the rest of it.
LEMMA NextParts ==
  ASSUME NEW g \in Nat, NEW y \in NodesAt(g), NEW w \in NodesAt(g), Num(w) > 0, NEW e \in KeyValues
  PROVE  /\ [keys |-> Append(y.keys, e), kids |-> IF Leaf(w) THEN << >> ELSE Append(y.kids, Head(w.kids))]
              = Joint(y, e, Piece(w, 1, 0))
         /\ [keys |-> Tail(w.keys), kids |-> IF Leaf(w) THEN << >> ELSE Tail(w.kids)] = Piece(w, 2, Num(w))
  <1> DEFINE n == Num(w)
             p == Piece(w, 1, 0)
             b == Joint(y, e, p)
  <1>1. /\ w.keys \in Seq(KeyValues) /\ w.kids \in Seq(Below(g)) /\ n \in Nat /\ n = Len(w.keys)
        /\ (Leaf(w) <=> g = 0) /\ (g > 0 => Len(w.kids) = n + 1)
    BY IsNode
  <1>2. y.keys \in Seq(KeyValues) /\ y.kids \in Seq(Below(g)) /\ (Leaf(y) <=> g = 0)
    BY IsNode
  <1>3. p.keys = << >> /\ p.kids = IF Leaf(w) THEN << >> ELSE <<Head(w.kids)>>
    BY EndPieces
  <1> HIDE DEF p, n
  <1>4. y.keys \o <<e>> \o << >> = Append(y.keys, e)
    <2> DEFINE s == Append(y.keys, e)
    <2>1. s = y.keys \o <<e>> /\ s \in Seq(KeyValues)
      BY <1>2, AppendIsConcat, Appending
    <2> HIDE DEF s
    <2>2. s \o << >> = s
      BY <2>1, ConcatEmptySeq
    <2> QED
      BY <2>1, <2>2 DEF s
  <1>5. y.kids \o p.kids = IF Leaf(w) THEN << >> ELSE Append(y.kids, Head(w.kids))
    <2>1. CASE g = 0
      <3>1. y.kids = << >> /\ p.kids = << >> /\ Leaf(w)
        BY <1>1, <1>2, <1>3, <2>1 DEF Leaf
      <3>2. << >> \o << >> = << >>
        <4>1. << >> \in Seq(KeyValues)
          BY EmptySeq
        <4> QED
          BY <4>1, ConcatEmptySeq
      <3> QED
        BY <3>1, <3>2
    <2>2. CASE g > 0
      <3>1. Head(w.kids) \in Below(g) /\ ~Leaf(w)
        BY <1>1, <2>2, Ends
      <3>2. Append(y.kids, Head(w.kids)) = y.kids \o <<Head(w.kids)>>
        BY <1>2, <3>1, AppendIsConcat
      <3> QED
        BY <1>3, <3>1, <3>2
    <2>3. g = 0 \/ g > 0
      OBVIOUS
    <2> QED
      BY <2>1, <2>2, <2>3, Zenon
  <1>6. b = [keys |-> Append(y.keys, e), kids |-> IF Leaf(w) THEN << >> ELSE Append(y.kids, Head(w.kids))]
    <2>1. b = [keys |-> y.keys \o <<e>> \o p.keys, kids |-> y.kids \o p.kids]
      BY DEF Joint
    <2> QED
      BY <1>3, <1>4, <1>5, <2>1
  <1>7. Tail(w.keys) = SubSeq(w.keys, 2, n)
    <2>1. w.keys # << >>
      BY <1>1, EmptySeq DEF n
    <2> QED
      BY <1>1, <2>1, TailIsSubSeq
  <1>8. Kids(w, 2, n + 1) = IF Leaf(w) THEN << >> ELSE Tail(w.kids)
    <2>1. CASE g > 0
      <3>1. w.kids # << >> /\ Len(w.kids) = n + 1 /\ ~Leaf(w)
        BY <1>1, <2>1 DEF Leaf
      <3>2. Tail(w.kids) = SubSeq(w.kids, 2, Len(w.kids))
        BY <1>1, <3>1, TailIsSubSeq
      <3> QED
        BY <3>1, <3>2 DEF Kids
    <2> QED
      BY <1>1, <2>1 DEF Kids
  <1>9. Piece(w, 2, n) = [keys |-> Tail(w.keys), kids |-> IF Leaf(w) THEN << >> ELSE Tail(w.kids)]
    BY <1>7, <1>8 DEF Piece
  <1> QED
    BY <1>6, <1>9 DEF p, n

\* The same at the other end.
LEMMA PrevParts ==
  ASSUME NEW g \in Nat, NEW y \in NodesAt(g), NEW w \in NodesAt(g), Num(w) > 0, NEW e \in KeyValues
  PROVE  /\ [keys |-> <<e>> \o y.keys, kids |-> IF Leaf(w) THEN << >> ELSE <<Last(w.kids)>> \o y.kids]
              = Joint(Piece(w, Num(w) + 1, Num(w)), e, y)
         /\ [keys |-> Front(w.keys), kids |-> IF Leaf(w) THEN << >> ELSE Front(w.kids)]
              = Piece(w, 1, Num(w) - 1)
  <1> DEFINE n == Num(w)
             p == Piece(w, n + 1, n)
             b == Joint(p, e, y)
  <1>1. /\ w.keys \in Seq(KeyValues) /\ w.kids \in Seq(Below(g)) /\ n \in Nat /\ n = Len(w.keys)
        /\ (Leaf(w) <=> g = 0) /\ (g > 0 => Len(w.kids) = n + 1)
    BY IsNode
  <1>2. y.keys \in Seq(KeyValues) /\ y.kids \in Seq(Below(g)) /\ (Leaf(y) <=> g = 0)
    BY IsNode
  <1>3. p.keys = << >> /\ p.kids = IF Leaf(w) THEN << >> ELSE <<Last(w.kids)>>
    BY EndPieces
  <1> HIDE DEF p, n
  <1>4. << >> \o <<e>> = <<e>>
    <2> DEFINE u == <<e>>
    <2>1. u \in Seq(KeyValues)
      BY One
    <2> HIDE DEF u
    <2>2. << >> \o u = u
      BY <2>1, ConcatEmptySeq
    <2> QED
      BY <2>2 DEF u
  <1>5. p.kids \o y.kids = IF Leaf(w) THEN << >> ELSE <<Last(w.kids)>> \o y.kids
    <2>1. CASE g = 0
      <3>1. y.kids = << >> /\ p.kids = << >> /\ Leaf(w)
        BY <1>1, <1>2, <1>3, <2>1 DEF Leaf
      <3>2. << >> \o << >> = << >>
        <4>1. << >> \in Seq(KeyValues)
          BY EmptySeq
        <4> QED
          BY <4>1, ConcatEmptySeq
      <3> QED
        BY <3>1, <3>2
    <2>2. CASE g > 0
      <3>1. ~Leaf(w)
        BY <1>1, <2>2
      <3>2. p.kids = <<Last(w.kids)>>
        BY <1>3, <3>1
      <3> QED
        BY <3>1, <3>2, Zenon
    <2>3. g = 0 \/ g > 0
      OBVIOUS
    <2> QED
      BY <2>1, <2>2, <2>3, Zenon
  <1>6. b = [keys |-> <<e>> \o y.keys, kids |-> IF Leaf(w) THEN << >> ELSE <<Last(w.kids)>> \o y.kids]
    <2>1. b = [keys |-> p.keys \o <<e>> \o y.keys, kids |-> p.kids \o y.kids]
      BY DEF Joint
    <2> QED
      BY <1>3, <1>4, <1>5, <2>1
  <1>7. Front(w.keys) = SubSeq(w.keys, 1, n - 1)
    BY <1>1 DEF Front
  <1>8. Kids(w, 1, (n - 1) + 1) = IF Leaf(w) THEN << >> ELSE Front(w.kids)
    <2>1. CASE g > 0
      <3>1. ~Leaf(w) /\ Len(w.kids) - 1 = (n - 1) + 1
        BY <1>1, <2>1
      <3> QED
        BY <3>1 DEF Kids, Front
    <2> QED
      BY <1>1, <2>1 DEF Kids
  <1>9. Piece(w, 1, n - 1) = [keys |-> Front(w.keys), kids |-> IF Leaf(w) THEN << >> ELSE Front(w.kids)]
    BY <1>7, <1>8 DEF Piece
  <1> QED
    BY <1>6, <1>9 DEF p, n

\* The key that comes down from x with the first child of the right sibling,
\* and the key that goes up, divide the keys of the pair anew.
LEMMA NextDivision ==
  ASSUME NEW h \in Nat, h > 0, NEW x \in SearchTrees[h], NEW i \in 1 .. Num(x),
         Num(x.kids[i]) = t - 1, Num(x.kids[i + 1]) >= t
  PROVE  LET w == x.kids[i + 1]
             lo == Joint(x.kids[i], x.keys[i], Piece(w, 1, 0))
             hi == Piece(w, 2, Num(w))
         IN /\ IsDivision(h, x, i, lo, Head(w.keys), hi) /\ x.keys[i] < Head(w.keys)
            /\ lo \in Subtrees[h - 1] /\ hi \in Subtrees[h - 1]
  <1> DEFINE g == h - 1
             c == x.kids[i]
             w == x.kids[i + 1]
             d == x.keys[i]
             e == Head(w.keys)
             p == Piece(w, 1, 0)
             lo == Joint(c, d, p)
             hi == Piece(w, 2, Num(w))
  <1>1. x \in NodesAt(h) /\ Num(x) \in Nat /\ g \in Nat /\ d \in KeyValues
    BY Ascends
  <1>2. i \in 1 .. Num(x) + 1 /\ i + 1 \in 1 .. Num(x) + 1
    BY <1>1
  <1>3. c \in SearchTrees[g] /\ w \in SearchTrees[g] /\ c \in NodesAt(g) /\ w \in NodesAt(g)
    BY <1>1, <1>2, Ascends, Child
  <1>4. Under(KeysIn[g][c], {d}) /\ Under({d}, KeysIn[g][w])
    BY AreNear
  <1>5. Num(c) = t - 1 /\ Num(w) >= t /\ Num(w) \in Nat /\ Num(w) <= 2 * t - 1
    BY <1>1, <1>3, IsNode
  <1> HIDE DEF g, c, w, d
  <1>6. 1 \in 1 .. Num(w) /\ 1 \in 1 .. Num(w) + 1 /\ 0 \in 1 - 1 .. Num(w) /\ 2 \in 1 .. Num(w) + 1 /\ Num(w) \in 2 - 1 .. Num(w)
    BY <1>5, DegreeFacts
  <1>7. e = w.keys[1] /\ e \in KeyValues /\ e \in KeysIn[g][w]
    <2>1. w.keys \in Seq(KeyValues) /\ Len(w.keys) = Num(w)
      BY <1>1, <1>3, IsNode
    <2>2. e = w.keys[1] /\ e \in KeyValues
      BY <1>5, <2>1, Ends, DegreeFacts
    <2> QED
      BY <1>1, <1>3, <1>6, <2>2, Reaches
  <1> HIDE DEF e
  <1>8. p \in NodesAt(g) /\ Num(p) = 0 - 1 + 1 /\ hi \in NodesAt(g) /\ Num(hi) = Num(w) - 2 + 1
    BY <1>1, <1>3, <1>6, Cut
  <1>9. p \in SearchTrees[g] /\ KeysIn[g][p] \subseteq KeysIn[g][w] /\ \A v \in KeysIn[g][p] : v < e
    <2>1. IsPiece(g, w, 1, 0, p)
      BY <1>1, <1>3, <1>6, CutSearch
    <2>2. 1 \in 0 + 1 .. Num(w)
      BY <1>6
    <2> HIDE DEF p
    <2> QED
      BY <1>7, <2>1, <2>2 DEF IsPiece
  <1>10. hi \in SearchTrees[g] /\ KeysIn[g][hi] \subseteq KeysIn[g][w] /\ \A v \in KeysIn[g][hi] : e < v
    <2> DEFINE n == Num(w)
    <2>1. IsPiece(g, w, 2, n, hi)
      BY <1>1, <1>3, <1>6, CutSearch
    <2>2. 1 \in 1 .. 2 - 1
      OBVIOUS
    <2> HIDE DEF hi
    <2> QED
      BY <1>7, <2>1, <2>2 DEF IsPiece
  <1> HIDE DEF p, hi
  <1>11. Joins(g, c, d, p)
    <2>1. Num(c) + Num(p) + 1 <= 2 * t - 1
      BY <1>5, <1>8, DegreeFacts
    <2>2. Under({d}, KeysIn[g][p])
      BY <1>4, <1>9 DEF Under
    <2> QED
      BY <1>1, <1>3, <1>4, <1>9, <2>1, <2>2 DEF Joins
  <1>12. lo \in SearchTrees[g] /\ KeysIn[g][lo] = KeysIn[g][c] \cup KeysIn[g][p] \cup {d}
    BY <1>1, <1>11, JointSearch
  <1>13. lo \in NodesAt(g) /\ Num(lo) = Num(c) + Num(p) + 1
    <2>1. Num(c) + Num(p) + 1 <= 2 * t - 1
      BY <1>5, <1>8, DegreeFacts
    <2> QED
      BY <1>1, <1>3, <1>8, <2>1, Glued DEF Joint
  <1> HIDE DEF lo
  <1>14. d < e
    BY <1>4, <1>7 DEF Under
  <1>15. KeysIn[g][c] \subseteq Int /\ d \in Int /\ e \in Int
    BY <1>1, <1>3, <1>7, KeysAreKeys, DegreeFacts
  <1>16. \A v \in KeysIn[g][lo] : v < e
    <2>1. \A v \in KeysIn[g][c] : v < e
      BY <1>4, <1>14, <1>15 DEF Under
    <2> QED
      BY <1>9, <1>12, <1>14, <2>1
  <1>17. lo \in Subtrees[g] /\ hi \in Subtrees[g]
    <2>1. Num(lo) >= t - 1 /\ Num(hi) >= t - 1
      BY <1>5, <1>8, <1>13, DegreeFacts
    <2> QED
      BY <1>1, <1>8, <1>13, <2>1, IsSubtree
  <1>18. KeysIn[g][lo] \cup {e} \cup KeysIn[g][hi] \subseteq KeysIn[g][c] \cup {d} \cup KeysIn[g][w]
    BY <1>7, <1>9, <1>10, <1>12
  <1>19. IsDivision(h, x, i, lo, e, hi)
    BY <1>7, <1>10, <1>12, <1>16, <1>18 DEF IsDivision, Under, g, c, d, w
  <1> QED
    BY <1>14, <1>17, <1>19 DEF g, c, w, d, e, p, lo, hi

\* The same with the left sibling, i - 1 in the code being i here.
LEMMA PrevDivision ==
  ASSUME NEW h \in Nat, h > 0, NEW x \in SearchTrees[h], NEW i \in 1 .. Num(x),
         Num(x.kids[i + 1]) = t - 1, Num(x.kids[i]) >= t
  PROVE  LET w == x.kids[i]
             lo == Piece(w, 1, Num(w) - 1)
             hi == Joint(Piece(w, Num(w) + 1, Num(w)), x.keys[i], x.kids[i + 1])
         IN /\ IsDivision(h, x, i, lo, Last(w.keys), hi) /\ Last(w.keys) < x.keys[i]
            /\ lo \in Subtrees[h - 1] /\ hi \in Subtrees[h - 1]
  <1> DEFINE g == h - 1
             c == x.kids[i + 1]
             w == x.kids[i]
             n == Num(w)
             d == x.keys[i]
             e == Last(w.keys)
             p == Piece(w, n + 1, n)
             hi == Joint(p, d, c)
             lo == Piece(w, 1, n - 1)
  <1>1. x \in NodesAt(h) /\ Num(x) \in Nat /\ g \in Nat /\ d \in KeyValues
    BY Ascends
  <1>2. i \in 1 .. Num(x) + 1 /\ i + 1 \in 1 .. Num(x) + 1
    BY <1>1
  <1>3. c \in SearchTrees[g] /\ w \in SearchTrees[g] /\ c \in NodesAt(g) /\ w \in NodesAt(g)
    BY <1>1, <1>2, Ascends, Child
  <1>4. Under(KeysIn[g][w], {d}) /\ Under({d}, KeysIn[g][c])
    BY AreNear
  <1>5. Num(c) = t - 1 /\ n >= t /\ n \in Nat /\ n <= 2 * t - 1 /\ n = Num(w)
    BY <1>1, <1>3, IsNode
  <1> HIDE DEF g, c, w, d, n
  <1>6. /\ n \in 1 .. n /\ 1 \in 1 .. n + 1 /\ n - 1 \in 1 - 1 .. n /\ n + 1 \in 1 .. n + 1
        /\ n \in (n + 1) - 1 .. n /\ n - 1 \in Int
    BY <1>5, DegreeFacts
  <1>7. e = w.keys[n] /\ e \in KeyValues /\ e \in KeysIn[g][w]
    <2>1. w.keys \in Seq(KeyValues) /\ Len(w.keys) = n
      BY <1>1, <1>3, <1>5, IsNode
    <2>2. e = w.keys[n] /\ e \in KeyValues
      BY <1>5, <2>1, Ends, DegreeFacts
    <2> QED
      BY <1>1, <1>3, <1>5, <1>6, <2>2, Reaches
  <1> HIDE DEF e
  <1>8. p \in NodesAt(g) /\ Num(p) = n - (n + 1) + 1 /\ lo \in NodesAt(g) /\ Num(lo) = (n - 1) - 1 + 1
    BY <1>1, <1>3, <1>5, <1>6, Cut
  <1>9. p \in SearchTrees[g] /\ KeysIn[g][p] \subseteq KeysIn[g][w] /\ \A v \in KeysIn[g][p] : e < v
    <2> DEFINE a == n + 1
    <2>1. IsPiece(g, w, a, n, p)
      BY <1>1, <1>3, <1>5, <1>6, CutSearch
    <2>2. n \in 1 .. a - 1
      BY <1>6
    <2> HIDE DEF p, a
    <2> QED
      BY <1>7, <2>1, <2>2 DEF IsPiece
  <1>10. lo \in SearchTrees[g] /\ KeysIn[g][lo] \subseteq KeysIn[g][w] /\ \A v \in KeysIn[g][lo] : v < e
    <2> DEFINE b == n - 1
    <2>1. IsPiece(g, w, 1, b, lo)
      BY <1>1, <1>3, <1>5, <1>6, CutSearch
    <2>2. n \in b + 1 .. Num(w)
      BY <1>5, <1>6
    <2> HIDE DEF lo, b
    <2> QED
      BY <1>7, <2>1, <2>2 DEF IsPiece
  <1> HIDE DEF p, lo
  <1>11. Joins(g, p, d, c)
    <2>1. Num(p) + Num(c) + 1 <= 2 * t - 1
      BY <1>5, <1>8, DegreeFacts
    <2>2. Under(KeysIn[g][p], {d})
      BY <1>4, <1>9 DEF Under
    <2> QED
      BY <1>1, <1>3, <1>4, <1>9, <2>1, <2>2 DEF Joins
  <1>12. hi \in SearchTrees[g] /\ KeysIn[g][hi] = KeysIn[g][p] \cup KeysIn[g][c] \cup {d}
    BY <1>1, <1>11, JointSearch
  <1>13. hi \in NodesAt(g) /\ Num(hi) = Num(p) + Num(c) + 1
    <2>1. Num(p) + Num(c) + 1 <= 2 * t - 1
      BY <1>5, <1>8, DegreeFacts
    <2> QED
      BY <1>1, <1>3, <1>8, <2>1, Glued DEF Joint
  <1> HIDE DEF hi
  <1>14. e < d
    BY <1>4, <1>7 DEF Under
  <1>15. KeysIn[g][c] \subseteq Int /\ d \in Int /\ e \in Int
    BY <1>1, <1>3, <1>7, KeysAreKeys, DegreeFacts
  <1>16. \A v \in KeysIn[g][hi] : e < v
    <2>1. \A v \in KeysIn[g][c] : e < v
      BY <1>4, <1>14, <1>15 DEF Under
    <2> QED
      BY <1>9, <1>12, <1>14, <2>1
  <1>17. lo \in Subtrees[g] /\ hi \in Subtrees[g]
    <2>1. Num(lo) >= t - 1 /\ Num(hi) >= t - 1
      BY <1>5, <1>8, <1>13, DegreeFacts
    <2> QED
      BY <1>1, <1>8, <1>13, <2>1, IsSubtree
  <1>18. KeysIn[g][lo] \cup {e} \cup KeysIn[g][hi] \subseteq KeysIn[g][w] \cup {d} \cup KeysIn[g][c]
    BY <1>7, <1>9, <1>10, <1>12
  <1>19. IsDivision(h, x, i, lo, e, hi)
    BY <1>7, <1>10, <1>12, <1>16, <1>18 DEF IsDivision, Under, g, c, d, w
  <1> QED
    BY <1>14, <1>17, <1>19 DEF g, c, w, d, e, p, lo, hi, n

\* A node in place of x, as far as order goes: it has the same keys, and what
\* fits child i of x fits child j of it.
InPlace(h, x, i, y, j) ==
  /\ y \in SearchTrees[h] /\ KeysIn[h][y] = KeysIn[h][x]
  /\ \A v \in Int : Fits(x, i, v) => Fits(y, j, v)

\* A rotation in a search tree leaves one in its place, if the new key is on the
\* sibling's side of the old one.
LEMMA TurnedSearch ==
  ASSUME NEW h \in Nat, h > 0, NEW x \in SearchTrees[h], NEW m \in 1 .. Num(x), NEW i \in 1 .. Num(x) + 1,
         NEW lo, NEW e, NEW hi, NEW y, IsRotated(h, x, i, y), IsPair(x, m, lo, e, hi, y),
         IsDivision(h, x, m, lo, e, hi), (i = m /\ x.keys[m] < e) \/ (i = m + 1 /\ e < x.keys[m])
  PROVE  InPlace(h, x, i, y, i)
  <1>1. y \in NodesAt(h) /\ KeysIn[h][x] \subseteq KeysIn[h][y]
    BY DEF IsRotated
  <1>2. y \in SearchTrees[h] /\ KeysIn[h][y] \subseteq KeysIn[h][x]
    BY <1>1, PairSearch
  <1>3. Num(y) = Num(x) /\ \A n \in 1 .. Num(x) : y.keys[n] = IF n = m THEN e ELSE x.keys[n]
    BY DEF IsPair
  <1>4. /\ Num(x) \in Nat /\ \A n \in 1 .. Num(x) : x.keys[n] \in Int
        /\ e \in Int
    BY Ascends, DegreeFacts DEF IsDivision
  <1>5. ASSUME NEW v \in Int, Fits(x, i, v), NEW n \in 1 .. Num(y)
        PROVE  (n < i => y.keys[n] < v) /\ (n >= i => v < y.keys[n])
    <2>1. n \in 1 .. Num(x) /\ x.keys[n] \in Int
      BY <1>3, <1>4, <1>5
    <2>2. (n < i => x.keys[n] < v) /\ (n >= i => v < x.keys[n])
      BY <1>5, <2>1 DEF Fits
    <2>3. CASE n = m
      <3>1. y.keys[n] = e
        BY <1>3, <2>1, <2>3
      <3> QED
        BY <1>4, <2>1, <2>2, <2>3, <3>1
    <2>4. CASE n # m
      <3>1. y.keys[n] = x.keys[n]
        BY <1>3, <2>1, <2>4
      <3> QED
        BY <2>2, <3>1
    <2> QED
      BY <2>3, <2>4
  <1> QED
    BY <1>1, <1>2, <1>5 DEF InPlace, Fits

\* BorrowNext leaves a search tree in place of the node.
LEMMA BorrowNextSearch ==
  ASSUME NEW h \in Nat, h > 0, NEW x \in SearchTrees[h], NEW i \in 1 .. Num(x),
         Num(x.kids[i]) = t - 1, Num(x.kids[i + 1]) >= t
  PROVE  InPlace(h, x, i, BorrowNext(x, i), i)
  <1> DEFINE c == x.kids[i]
             w == x.kids[i + 1]
             d == x.keys[i]
             e == Head(w.keys)
             lo == Joint(c, d, Piece(w, 1, 0))
             hi == Piece(w, 2, Num(w))
             a == [keys |-> Append(c.keys, d), kids |-> IF Leaf(w) THEN << >> ELSE Append(c.kids, Head(w.kids))]
             b == [keys |-> Tail(w.keys), kids |-> IF Leaf(w) THEN << >> ELSE Tail(w.kids)]
             j == i + 1
             y == BorrowNext(x, i)
  <1>1. x \in NodesAt(h) /\ Num(x) \in Nat /\ d \in KeyValues
    BY Ascends
  <1>2. i \in 1 .. Num(x) + 1 /\ j \in 1 .. Num(x) + 1
    BY <1>1
  <1>3. c \in NodesAt(h - 1) /\ w \in NodesAt(h - 1) /\ h - 1 \in Nat
    BY <1>1, <1>2, Child
  <1>4. y = Swapped(x, i, e, i, a, j, b)
    BY DEF BorrowNext, Swapped
  <1>5. IsDivision(h, x, i, lo, e, hi) /\ d < e /\ lo \in Subtrees[h - 1] /\ hi \in Subtrees[h - 1]
    BY NextDivision
  <1>6. IsRotated(h, x, i, y)
    BY <1>1, BorrowsNext
  <1>7. Num(w) > 0
    <2>1. Num(w) \in Nat
      BY <1>3, IsNode
    <2> HIDE DEF w
    <2> QED
      BY <2>1, DegreeFacts DEF w
  <1> HIDE DEF c, w, y
  <1>8. a = lo /\ b = hi
    BY <1>1, <1>3, <1>7, NextParts
  <1> HIDE DEF lo, hi, a, b, e, d, j
  <1>9. y = Swapped(x, i, e, i, lo, j, hi)
    BY <1>4, <1>8
  <1>10. e \in KeyValues
    BY <1>5 DEF IsDivision
  <1>11. IsPair(x, i, lo, e, hi, y)
    BY <1>1, <1>5, <1>9, <1>10, SwapAt DEF j
  <1>12. i = i /\ x.keys[i] < e
    BY <1>5 DEF d
  <1>13. InPlace(h, x, i, y, i)
    BY <1>2, <1>5, <1>6, <1>11, <1>12, TurnedSearch
  <1> QED
    BY <1>13 DEF y

\* And so does BorrowPrev.
LEMMA BorrowPrevSearch ==
  ASSUME NEW h \in Nat, h > 0, NEW x \in SearchTrees[h], NEW i \in 2 .. Num(x) + 1,
         Num(x.kids[i]) = t - 1, Num(x.kids[i - 1]) >= t
  PROVE  InPlace(h, x, i, BorrowPrev(x, i), i)
  <1> DEFINE m == i - 1
             c == x.kids[i]
             w == x.kids[m]
             d == x.keys[m]
             e == Last(w.keys)
             lo == Piece(w, 1, Num(w) - 1)
             hi == Joint(Piece(w, Num(w) + 1, Num(w)), d, c)
             a == [keys |-> <<d>> \o c.keys, kids |-> IF Leaf(w) THEN << >> ELSE <<Last(w.kids)>> \o c.kids]
             b == [keys |-> Front(w.keys), kids |-> IF Leaf(w) THEN << >> ELSE Front(w.kids)]
             y == BorrowPrev(x, i)
  <1>1. x \in NodesAt(h) /\ Num(x) \in Nat
    BY Ascends
  <1>2. i \in 1 .. Num(x) + 1 /\ m \in 1 .. Num(x) /\ m \in 1 .. Num(x) + 1 /\ i = m + 1
    BY <1>1
  <1>3. c \in NodesAt(h - 1) /\ w \in NodesAt(h - 1) /\ h - 1 \in Nat
    BY <1>1, <1>2, Child
  <1>4. y = Swapped(x, m, e, i, a, m, b)
    BY DEF BorrowPrev, Swapped
  <1>5. IsRotated(h, x, i, y)
    BY <1>1, BorrowsPrev
  <1> HIDE DEF m, y
  <1>6. d \in KeyValues
    BY <1>2, Ascends
  <1>7. IsDivision(h, x, m, lo, e, hi) /\ e < d /\ lo \in Subtrees[h - 1] /\ hi \in Subtrees[h - 1]
    <2>1. Num(x.kids[m + 1]) = t - 1 /\ Num(x.kids[m]) >= t /\ x.kids[m + 1] = c
      BY <1>2 DEF m
    <2> QED
      BY ONLY <1>2, <2>1, PrevDivision, h \in Nat, h > 0, x \in SearchTrees[h]
  <1>8. Num(w) > 0
    <2>1. Num(w) \in Nat
      BY <1>3, IsNode
    <2>2. Num(w) >= t
      BY DEF m
    <2> HIDE DEF w
    <2> QED
      BY <2>1, <2>2, DegreeFacts
  <1> HIDE DEF c, w
  <1>9. a = hi /\ b = lo
    BY <1>3, <1>6, <1>8, PrevParts
  <1> HIDE DEF lo, hi, a, b, e, d
  <1>10. y = Swapped(x, m, e, m + 1, hi, m, lo)
    BY <1>2, <1>4, <1>9
  <1>11. e \in KeyValues
    BY <1>7 DEF IsDivision
  <1>12. IsPair(x, m, lo, e, hi, y)
    BY <1>1, <1>2, <1>7, <1>10, <1>11, SwapAt
  <1>13. i = m + 1 /\ e < x.keys[m]
    BY <1>2, <1>7 DEF d
  <1>14. InPlace(h, x, i, y, i)
    BY <1>2, <1>5, <1>7, <1>12, <1>13, TurnedSearch
  <1> QED
    BY <1>14 DEF y
-----------------------------------------------------------------------------
(* The descent in search trees *)

\* A key that is not found fits the child where the scan stopped.
LEMMA DeleteFits ==
  ASSUME NEW h \in Nat, NEW x \in SearchTrees[h], NEW k \in KeyValues, ~Found(x, k)
  PROVE  Fits(x, DeletePosition(x, k), k)
  <1> DEFINE S == {n \in 1 .. Num(x) : x.keys[n] >= k} \cup {Num(x) + 1}
             i == DeletePosition(x, k)
  <1>1. /\ x \in NodesAt(h) /\ Num(x) \in Nat /\ \A n \in 1 .. Num(x) : x.keys[n] \in Int
        /\ \A m, n \in 1 .. Num(x) : m < n => x.keys[m] < x.keys[n]
    BY Ascends
  <1>2. k \in Int
    BY DegreeFacts
  <1>3. i \in S /\ \A n \in S : i <= n
    <2>1. S \subseteq Nat /\ S # {}
      BY <1>1
    <2>2. i = Min(S)
      BY DEF DeletePosition
    <2> HIDE DEF S, i
    <2> QED
      BY <2>1, <2>2, HasMin
  <1>4. i <= Num(x) => x.keys[i] # k
    BY DEF Found
  <1> HIDE DEF i
  <1>5. i \in Int
    BY <1>1, <1>3
  <1>6. ASSUME NEW m \in 1 .. Num(x) PROVE (m < i => x.keys[m] < k) /\ (m >= i => k < x.keys[m])
    <2>1. CASE m < i
      BY <1>1, <1>2, <1>3, <1>5, <2>1
    <2>2. CASE m >= i
      <3>1. i \in 1 .. Num(x) /\ x.keys[i] >= k
        BY <1>1, <1>3, <1>5, <2>2
      <3>2. k < x.keys[i] /\ x.keys[i] \in Int
        BY <1>1, <1>2, <1>4, <3>1
      <3>3. m = i \/ x.keys[i] < x.keys[m]
        BY <1>1, <1>5, <2>2, <3>1
      <3> QED
        BY <1>1, <1>2, <1>5, <2>2, <3>2, <3>3
    <2> QED
      BY <1>5, <2>1, <2>2
  <1> QED
    BY <1>6 DEF Fits, i

\* A key that fits child j is no key of the node and not below another child.
LEMMA FitsOnly ==
  ASSUME NEW h \in Nat, h > 0, NEW x \in SearchTrees[h], NEW j \in 1 .. Num(x) + 1, NEW v \in Int, Fits(x, j, v)
  PROVE  /\ \A n \in 1 .. Num(x) : x.keys[n] # v
         /\ \A n \in 1 .. Num(x) + 1 : n # j => v \notin KeysIn[h - 1][x.kids[n]]
         /\ v \in KeysIn[h][x] => v \in KeysIn[h - 1][x.kids[j]]
  <1> DEFINE g == h - 1
  <1>1. /\ x \in NodesAt(h) /\ Num(x) \in Nat
        /\ \A n \in 1 .. Num(x) : x.keys[n] \in Int
        /\ \A n \in 1 .. Num(x) + 1 :
             \A e \in KeysIn[g][x.kids[n]] : \A m \in 1 .. Num(x) :
               (m < n => x.keys[m] < e) /\ (m >= n => e < x.keys[m])
    BY Ascends
  <1>2. \A m \in 1 .. Num(x) : (m < j => x.keys[m] < v) /\ (m >= j => v < x.keys[m])
    BY DEF Fits
  <1>3. ASSUME NEW n \in 1 .. Num(x) PROVE x.keys[n] # v
    BY <1>1, <1>2
  <1> HIDE DEF g
  <1>4. ASSUME NEW n \in 1 .. Num(x) + 1, n # j PROVE v \notin KeysIn[g][x.kids[n]]
    <2>1. CASE n < j
      <3>1. n \in 1 .. Num(x) /\ n >= n
        BY <1>1, <2>1
      <3>2. x.keys[n] < v /\ x.keys[n] \in Int
        BY <1>1, <1>2, <2>1, <3>1
      <3>3. v \in KeysIn[g][x.kids[n]] => v < x.keys[n]
        BY <1>1, <3>1
      <3> QED
        BY <3>2, <3>3
    <2>2. CASE n > j
      <3>1. j \in 1 .. Num(x) /\ j >= j /\ j < n
        BY <1>1, <2>2
      <3>2. v < x.keys[j] /\ x.keys[j] \in Int
        BY <1>1, <1>2, <3>1
      <3>3. v \in KeysIn[g][x.kids[n]] => x.keys[j] < v
        BY <1>1, <3>1
      <3> QED
        BY <3>2, <3>3
    <2> QED
      BY <1>1, <1>4, <2>1, <2>2
  <1>5. v \in KeysIn[h][x] => v \in KeysIn[g][x.kids[j]]
    <2> SUFFICES ASSUME v \notin KeysIn[g][x.kids[j]] PROVE v \notin KeysIn[h][x]
      OBVIOUS
    <2> DEFINE K == KeysIn[h][x] \ {v}
    <2>1. /\ \A n \in 1 .. Num(x) : x.keys[n] \in KeysIn[h][x]
          /\ \A n \in 1 .. Num(x) + 1 : KeysIn[g][x.kids[n]] \subseteq KeysIn[h][x]
      BY <1>1, Reaches DEF g
    <2>2. \A n \in 1 .. Num(x) : x.keys[n] \in K
      BY <1>3, <2>1
    <2>3. ASSUME NEW n \in 1 .. Num(x) + 1 PROVE KeysIn[h - 1][x.kids[n]] \subseteq K
      <3>1. v \notin KeysIn[g][x.kids[n]]
        BY <1>4
      <3> QED
        BY <2>1, <3>1 DEF g
    <2> HIDE DEF K
    <2>4. KeysIn[h][x] \subseteq K
      BY <1>1, <2>2, <2>3, Within
    <2> QED
      BY <2>4 DEF K
  <1> QED
    BY <1>3, <1>4, <1>5 DEF g

\* If the child that k fits loses k, so does the node.
LEMMA PlugLess ==
  ASSUME NEW h \in Nat, h > 0, NEW x \in SearchTrees[h], NEW j \in 1 .. Num(x) + 1, NEW k \in Int, Fits(x, j, k),
         NEW c \in SearchTrees[h - 1], c \in Subtrees[h - 1],
         KeysIn[h - 1][c] = KeysIn[h - 1][x.kids[j]] \ {k}
  PROVE  LET y == [x EXCEPT !.kids[j] = c]
         IN y \in SearchTrees[h] /\ KeysIn[h][y] = KeysIn[h][x] \ {k}
  <1> DEFINE g == h - 1
             y == [x EXCEPT !.kids[j] = c]
  <1>1. /\ x \in NodesAt(h) /\ Num(x) \in Nat
        /\ \A e \in KeysIn[g][x.kids[j]] : \A m \in 1 .. Num(x) :
             (m < j => x.keys[m] < e) /\ (m >= j => e < x.keys[m])
    BY Ascends
  <1>2. \A e \in KeysIn[g][c] : Fits(x, j, e)
    BY <1>1 DEF Fits
  <1>3. y \in SearchTrees[h]
    BY <1>2, PlugSearch
  <1>4. KeysIn[h][x] \subseteq KeysIn[h][y] \cup {k}
    <2> DEFINE E == {k}
    <2>1. KeysIn[h - 1][x.kids[j]] \subseteq KeysIn[h - 1][c] \cup E
      OBVIOUS
    <2> HIDE DEF E
    <2>2. KeysIn[h][x] \subseteq KeysIn[h][y] \cup E
      BY <1>1, <2>1, Plugged
    <2> QED
      BY <2>2 DEF E
  <1>5. /\ \A n \in 1 .. Num(x) : x.keys[n] # k
        /\ \A n \in 1 .. Num(x) + 1 : n # j => k \notin KeysIn[g][x.kids[n]]
    BY FitsOnly
  <1>6. Num(y) = Num(x) /\ y.keys = x.keys /\ \A n \in 1 .. Num(x) + 1 : y.kids[n] = IF n = j THEN c ELSE x.kids[n]
    <2>1. x = [keys |-> x.keys, kids |-> x.kids] /\ x.kids \in Seq(Below(h)) /\ Len(x.kids) = Num(x) + 1
      BY <1>1, IsNode
    <2> DEFINE cs == [x.kids EXCEPT ![j] = c]
    <2>2. y = [x EXCEPT !.kids = cs]
      OBVIOUS
    <2>3. \A n \in 1 .. Num(x) + 1 : cs[n] = IF n = j THEN c ELSE x.kids[n]
      <3>1. DOMAIN x.kids = 1 .. Num(x) + 1
        BY <2>1, Elements
      <3> QED
        BY <3>1
    <2> HIDE DEF cs, y
    <2>4. y = [keys |-> x.keys, kids |-> cs]
      BY <2>1, <2>2
    <2>5. y.keys = x.keys /\ y.kids = cs
      BY <2>4
    <2> QED
      BY <2>3, <2>5 DEF Num
  <1>7. /\ \A n \in 1 .. Num(x) : x.keys[n] \in KeysIn[h][x]
        /\ \A n \in 1 .. Num(x) + 1 : KeysIn[g][x.kids[n]] \subseteq KeysIn[h][x]
    BY <1>1, Reaches
  <1> HIDE DEF y
  <1>8. KeysIn[h][y] \subseteq KeysIn[h][x] \ {k}
    <2> DEFINE K == KeysIn[h][x] \ {k}
    <2>1. y \in NodesAt(h)
      BY <1>3, IsSearch
    <2>2. \A n \in 1 .. Num(y) : y.keys[n] \in K
      BY <1>5, <1>6, <1>7
    <2>3. ASSUME NEW n \in 1 .. Num(y) + 1 PROVE KeysIn[h - 1][y.kids[n]] \subseteq K
      <3>1. CASE n = j
        BY <1>6, <1>7, <3>1
      <3>2. CASE n # j
        BY <1>5, <1>6, <1>7, <3>2
      <3> QED
        BY <3>1, <3>2
    <2> HIDE DEF K
    <2>4. KeysIn[h][y] \subseteq K
      BY <2>1, <2>2, <2>3, Within
    <2> QED
      BY <2>4 DEF K
  <1> QED
    BY <1>3, <1>4, <1>8 DEF y

\* Fill leaves a search tree in place of the node, whatever it does.
LEMMA FillSearch ==
  ASSUME NEW h \in Nat, h > 0, NEW x \in SearchTrees[h], Num(x) > 0, NEW i \in 1 .. Num(x) + 1
  PROVE  InPlace(h, x, i, Fill(x, i).node, Fill(x, i).at)
  <1> DEFINE f == Fill(x, i)
  <1>1. x \in NodesAt(h) /\ Num(x) \in Nat /\ DOMAIN x.kids = 1 .. Num(x) + 1
    BY Ascends, IsNode, Elements
  <1>2. \A j : Rich(x, j) <=> j \in 1 .. Num(x) + 1 /\ Num(x.kids[j]) >= t
    BY <1>1 DEF Rich
  <1>3. \A j \in 1 .. Num(x) + 1 : Rich(x, j) \/ Num(x.kids[j]) = t - 1
    <2>1. ASSUME NEW j \in 1 .. Num(x) + 1 PROVE Num(x.kids[j]) >= t \/ Num(x.kids[j]) = t - 1
      <3>1. Num(x.kids[j]) \in t - 1 .. 2 * t - 1
        BY <1>1, Child
      <3> QED
        BY <3>1, DegreeFacts
    <2> QED
      BY <1>2, <2>1
  <1>4. ASSUME NEW y, f = [node |-> y, at |-> i], InPlace(h, x, i, y, i)
        PROVE  InPlace(h, x, i, f.node, f.at)
    <2>1. f.node = y /\ f.at = i
      BY <1>4
    <2> HIDE DEF f
    <2> QED
      BY <1>4, <2>1
  <1>5. ASSUME NEW j \in 1 .. Num(x), j = i \/ j + 1 = i, Num(x.kids[j]) = t - 1, Num(x.kids[j + 1]) = t - 1,
               f = [node |-> btree_merge(x, j), at |-> j]
        PROVE  InPlace(h, x, i, f.node, f.at)
    <2> DEFINE s == btree_merge(x, j)
    <2>1. f.node = s /\ f.at = j
      BY <1>5
    <2>2. s \in SearchTrees[h] /\ KeysIn[h][s] = KeysIn[h][x] /\ \A v : Near(x, j, v) => Fits(s, j, v)
      BY <1>5, MergeSearch
    <2>3. \A v : Fits(x, j, v) \/ Fits(x, j + 1, v) => Near(x, j, v)
      BY AreNear
    <2>4. \A v \in Int : Fits(x, i, v) => Fits(s, j, v)
      <3> HIDE DEF s
      <3> QED
        BY <1>5, <2>2, <2>3
    <2> HIDE DEF f, s
    <2> QED
      BY <2>1, <2>2, <2>4 DEF InPlace
  <1>6. CASE Num(x.kids[i]) # t - 1
    <2>1. f = [node |-> x, at |-> i]
      BY <1>6 DEF Fill
    <2>2. InPlace(h, x, i, x, i)
      BY DEF InPlace
    <2> QED
      BY <1>4, <2>1, <2>2
  <1>7. CASE Num(x.kids[i]) = t - 1 /\ FromNext(x, i)
    <2>1. f = [node |-> BorrowNext(x, i), at |-> i]
      BY <1>7 DEF Fill
    <2>2. i \in 1 .. Num(x) /\ Num(x.kids[i + 1]) >= t
      BY <1>1, <1>2, <1>7 DEF FromNext
    <2>3. InPlace(h, x, i, BorrowNext(x, i), i)
      BY <1>7, <2>2, BorrowNextSearch
    <2> QED
      BY <1>4, <2>1, <2>3
  <1>8. CASE Num(x.kids[i]) = t - 1 /\ ~FromNext(x, i) /\ Rich(x, i - 1)
    <2>1. f = [node |-> BorrowPrev(x, i), at |-> i]
      BY <1>8 DEF Fill
    <2>2. i \in 2 .. Num(x) + 1 /\ Num(x.kids[i - 1]) >= t
      BY <1>1, <1>2, <1>8
    <2>3. InPlace(h, x, i, BorrowPrev(x, i), i)
      BY <1>8, <2>2, BorrowPrevSearch
    <2> QED
      BY <1>4, <2>1, <2>3
  <1>9. CASE Num(x.kids[i]) = t - 1 /\ ~FromNext(x, i) /\ ~Rich(x, i - 1)
    <2>1. f = IF i > 1 THEN [node |-> btree_merge(x, i - 1), at |-> i - 1]
              ELSE [node |-> btree_merge(x, i), at |-> i]
      BY <1>9 DEF Fill
    <2>2. CASE i > 1
      <3> DEFINE j == i - 1
      <3>1. j \in 1 .. Num(x) /\ j \in 1 .. Num(x) + 1 /\ j + 1 = i
        BY <1>1, <2>2
      <3>2. f = [node |-> btree_merge(x, j), at |-> j] /\ ~Rich(x, j)
        BY <1>9, <2>1, <2>2
      <3> HIDE DEF j
      <3>3. Num(x.kids[j]) = t - 1 /\ Num(x.kids[j + 1]) = t - 1
        BY <1>3, <1>9, <3>1, <3>2
      <3> QED
        BY ONLY <1>5, <3>1, <3>2, <3>3
    <2>3. CASE ~(i > 1)
      <3>1. i = 1 /\ i \in 1 .. Num(x) /\ i + 1 \in 1 .. Num(x) + 1
        BY <1>1, <2>3
      <3>2. f = [node |-> btree_merge(x, i), at |-> i]
        BY <2>1, <2>3
      <3>3. ~Rich(x, i + 1)
        BY <1>9, <3>1 DEF FromNext
      <3>4. Num(x.kids[i]) = t - 1 /\ Num(x.kids[i + 1]) = t - 1
        BY <1>3, <1>9, <3>1, <3>3
      <3> QED
        BY ONLY <1>5, <3>1, <3>2, <3>4
    <2> QED
      BY <2>2, <2>3
  <1> QED
    BY <1>6, <1>7, <1>8, <1>9

\* A descent for the same key, in a search tree with the same keys, to the child
\* that the key fits.
IsSearchDescent(h, x, k, d) ==
  /\ d.node \in SearchTrees[h] /\ KeysIn[h][d.node] = KeysIn[h][x]
  /\ Fits(d.node, d.at, k) /\ d.key = k

\* Each way to go on is such a descent but the replacements.
LEMMA DescentSearch ==
  ASSUME NEW h \in Nat, h > 0, NEW x \in SearchTrees[h], Num(x) > 0, NEW k \in KeyValues, ~Replacing(x, k)
  PROVE  IsSearchDescent(h, x, k, DeleteBelow(x, k))
  <1> DEFINE i == DeletePosition(x, k)
             d == DeleteBelow(x, k)
  <1>1. x \in NodesAt(h) /\ Num(x) \in Nat /\ DOMAIN x.kids = 1 .. Num(x) + 1
    BY Ascends, IsNode, Elements
  <1>2. i \in 1 .. Num(x) + 1 /\ (Found(x, k) => i \in 1 .. Num(x) /\ x.keys[i] = k)
    BY <1>1, DeletePlace
  <1>3. \A j \in 1 .. Num(x) + 1 : Rich(x, j) \/ Num(x.kids[j]) = t - 1
    BY <1>1, Child, DegreeFacts DEF Rich
  <1>4. k \in Int
    BY DegreeFacts
  <1>5. CASE Found(x, k)
    <2> DEFINE s == btree_merge(x, i)
    <2>1. ~Rich(x, i) /\ ~Rich(x, i + 1)
      BY <1>5 DEF Replacing
    <2>2. d = [node |-> s, at |-> i, key |-> k]
      BY <1>5, <2>1 DEF DeleteBelow
    <2>3. d.node = s /\ d.at = i /\ d.key = k
      BY <2>2
    <2> HIDE DEF d, i
    <2>4. i \in 1 .. Num(x) /\ i + 1 \in 1 .. Num(x) + 1 /\ x.keys[i] = k
      BY <1>1, <1>2, <1>5
    <2>5. Num(x.kids[i]) = t - 1 /\ Num(x.kids[i + 1]) = t - 1
      BY <1>2, <1>3, <2>1, <2>4
    <2>6. s \in SearchTrees[h] /\ KeysIn[h][s] = KeysIn[h][x] /\ \A v : Near(x, i, v) => Fits(s, i, v)
      BY <2>4, <2>5, MergeSearch
    <2>7. Near(x, i, k)
      BY <2>4, AreNear
    <2> HIDE DEF s
    <2> QED
      BY <2>3, <2>6, <2>7 DEF IsSearchDescent, d
  <1>6. CASE ~Found(x, k)
    <2> DEFINE f == Fill(x, i)
    <2>1. d = [node |-> f.node, at |-> f.at, key |-> k]
      BY <1>6 DEF DeleteBelow
    <2>2. d.node = f.node /\ d.at = f.at /\ d.key = k
      BY <2>1
    <2>3. Fits(x, i, k)
      BY <1>6, DeleteFits
    <2>4. InPlace(h, x, i, f.node, f.at)
      BY <1>2, FillSearch
    <2> HIDE DEF d, f, i
    <2> QED
      BY <1>4, <2>2, <2>3, <2>4 DEF InPlace, IsSearchDescent, d
  <1> QED
    BY <1>5, <1>6
-----------------------------------------------------------------------------
(* Deletion from search trees *)

\* Misplaces is what its definition says; a leaf calls nothing.
LEMMA MisplacesDef == \A h \in Nat : Misplaces[h] = MisplacesRow(Misplaces[h - 1], h)
  <1>1. \A p, h : Row("misplaces", 0, p, h) = MisplacesRow(p, h)
    BY DEF Row
  <1>2. \A p, q : MisplacesRow(p, 0) = MisplacesRow(q, 0)
    <2>1. \A p, q : \A x \in Trees[0], k \in KeyValues : Misplaced(p, 0, x, k) = Misplaced(q, 0, x, k)
      <3> SUFFICES ASSUME NEW p, NEW q, NEW x \in Trees[0], NEW k \in KeyValues
                   PROVE  Misplaced(p, 0, x, k) = Misplaced(q, 0, x, k)
        OBVIOUS
      <3>1. Leaf(x)
        BY TreesZero
      <3>2. \A f : Misplaced(f, 0, x, k) = FALSE
        BY <3>1, Zenon DEF Misplaced
      <3> QED
        BY <3>2
    <2> QED
      BY <2>1 DEF MisplacesRow
  <1>3. PICK f : f = [h \in Nat |-> Row("misplaces", 0, f[h - 1], h)]
    <2>1. Grounded("misplaces", 0)
      BY <1>1, <1>2 DEF Grounded
    <2> QED
      BY <2>1, Recursion
  <1> DEFINE Ok(g) == g = [h \in Nat |-> MisplacesRow(g[h - 1], h)]
  <1>4. Ok(f)
    BY <1>1, <1>3
  <1>5. Misplaces = CHOOSE g : Ok(g)
    BY DEF Misplaces, MisplacesRow, Misplaced
  <1>6. Ok(Misplaces)
    <2> HIDE DEF Ok
    <2> QED
      BY <1>4, <1>5
  <1> QED
    BY <1>6

\* What a call of btree_delete_key on a search tree leaves behind: without
\* Misplaces a search tree, with the keys there were but k; and the message
\* "Cannot del key" is right in any case.
DeletesInOrder(h, x, k) ==
  LET r == btree_delete_key[h][x][k]
  IN /\ r.how = "cannot" => k \notin KeysIn[h][x]
     /\ r.how # "undefined" /\ ~Misplaces[h][x][k] =>
          r.node \in SearchTrees[h] /\ KeysIn[h][r.node] = KeysIn[h][x] \ {k}

\* Lines 238-255, in a leaf.
LEMMA LeafDeletesInOrder ==
  ASSUME NEW x \in SearchTrees[0], NEW k \in KeyValues
  PROVE  DeletesInOrder(0, x, k)
  <1> DEFINE p == DeletePosition(x, k)
             f == btree_delete_key[0 - 1]
             r == btree_delete_key[0][x][k]
  <1>1. /\ x \in NodesAt(0) /\ Num(x) \in Nat /\ \A n \in 1 .. Num(x) : x.keys[n] \in Int
        /\ \A m, n \in 1 .. Num(x) : m < n => x.keys[m] < x.keys[n]
    BY Ascends
  <1>2. /\ x = [keys |-> x.keys, kids |-> x.kids] /\ x.keys \in Seq(KeyValues)
        /\ Num(x) = Len(x.keys) /\ Leaf(x)
    BY <1>1, IsNode
  <1>3. r = Deleted(f, x, k)
    <2>1. x \in Trees[0]
      BY <1>1, NodesAreTrees
    <2>2. btree_delete_key[0] = DeleteRow(f, 0)
      BY DeleteDef
    <2> HIDE DEF f
    <2> QED
      BY <2>1, <2>2 DEF DeleteRow
  <1> HIDE DEF f
  <1>4. r.node \in NodesAt(0) /\ KeysIn[0][x] \subseteq KeysIn[0][r.node] \cup {k}
    BY <1>1, LeafDeletes DEF Deletes
  <1>5. \A n \in 1 .. Num(x) : x.keys[n] \in KeysIn[0][x]
    BY <1>1, Reaches
  <1>6. k \in Int
    BY DegreeFacts
  <1>7. CASE ~Found(x, k)
    <2>1. r = [node |-> x, how |-> "cannot"]
      BY <1>2, <1>3, <1>7 DEF Deleted
    <2>2. r.node = x
      BY <2>1
    <2> HIDE DEF r
    <2>3. Fits(x, p, k)
      BY <1>7, DeleteFits
    <2>4. \A n \in 1 .. Num(x) : x.keys[n] # k
      <3>1. p \in Int
        BY <1>1, DeletePlace
      <3> HIDE DEF p
      <3> QED
        BY <1>1, <1>6, <2>3, <3>1 DEF Fits
    <2> DEFINE K == KeysIn[0][x] \ {k}
    <2>5. \A n \in 1 .. Num(x) : x.keys[n] \in K
      BY <1>5, <2>4
    <2> HIDE DEF K
    <2>6. KeysIn[0][x] \subseteq K
      BY <1>1, <2>5, Within
    <2>7. k \notin KeysIn[0][x]
      BY <2>6 DEF K
    <2> QED
      BY <2>2, <2>7 DEF DeletesInOrder, r
  <1>8. CASE Found(x, k)
    <2> DEFINE ks == RemoveAt(x.keys, p)
               y  == [x EXCEPT !.keys = ks]
               o  == IF Num(x) = 1 THEN "emptied" ELSE "deleted"
    <2>1. r = [node |-> y, how |-> o]
      BY <1>2, <1>3, <1>8 DEF Deleted
    <2>2. r.node = y /\ r.how = o
      BY <2>1
    <2>3. p \in 1 .. Num(x) /\ x.keys[p] = k
      BY <1>1, <1>8, DeletePlace
    <2>4. y = [keys |-> ks, kids |-> x.kids]
      <3> HIDE DEF ks
      <3> QED
        BY <1>2
    <2>5. o # "cannot"
      OBVIOUS
    <2> HIDE DEF r, o, p
    <2>6. Len(ks) = Num(x) - 1
      BY <1>2, <2>3, Removing
    <2>7. /\ \A n \in 1 .. p - 1 : ks[n] = x.keys[n]
          /\ \A n \in p .. Num(x) - 1 : ks[n] = x.keys[n + 1]
      BY <1>2, <2>3, RemovingAt
    <2> HIDE DEF ks, y
    <2>8. y.keys = ks /\ Num(y) = Num(x) - 1
      BY <2>4, <2>6 DEF Num
    <2>9. ASSUME NEW n \in 1 .. Num(y)
          PROVE  \/ n < p /\ n \in 1 .. Num(x) /\ y.keys[n] = x.keys[n]
                 \/ n >= p /\ n + 1 \in 1 .. Num(x) /\ y.keys[n] = x.keys[n + 1]
      BY <1>1, <2>3, <2>7, <2>8
    <2>10. ASSUME NEW m \in 1 .. Num(y), NEW n \in 1 .. Num(y), m < n PROVE y.keys[m] < y.keys[n]
      <3>1. m + 1 < n + 1 /\ m < n + 1
        BY <2>10
      <3>2. CASE n < p
        BY <1>1, <2>3, <2>9, <2>10, <3>2
      <3>3. CASE n >= p /\ m < p
        BY <1>1, <2>3, <2>9, <3>1, <3>3
      <3>4. CASE n >= p /\ m >= p
        BY <1>1, <2>3, <2>9, <3>1, <3>4
      <3> QED
        BY <2>3, <3>2, <3>3, <3>4
    <2>11. y \in SearchTrees[0]
      <3>1. InOrder(0, y)
        BY <2>10 DEF InOrder
      <3> QED
        BY <1>4, <2>2, <3>1, IsSearch
    <2> DEFINE K == KeysIn[0][x] \ {k}
    <2>12. ASSUME NEW n \in 1 .. Num(y) PROVE y.keys[n] \in K
      <3>1. CASE n < p
        <4>1. n \in 1 .. Num(x) /\ y.keys[n] = x.keys[n] /\ x.keys[n] < k
          BY <1>1, <2>3, <2>9, <3>1
        <4> QED
          BY <1>5, <1>6, <4>1
      <3>2. CASE n >= p
        <4> DEFINE j == n + 1
        <4>1. j \in 1 .. Num(x) /\ y.keys[n] = x.keys[j] /\ p < j
          BY <2>3, <2>9, <3>2
        <4> HIDE DEF j
        <4>2. k < x.keys[j]
          BY <1>1, <2>3, <4>1
        <4> QED
          BY <1>5, <1>6, <4>1, <4>2
      <3> QED
        BY <2>3, <3>1, <3>2
    <2> HIDE DEF K
    <2>13. KeysIn[0][y] \subseteq K
      BY <1>4, <2>2, <2>12, Within
    <2>14. KeysIn[0][y] = KeysIn[0][x] \ {k}
      BY <1>4, <2>2, <2>13 DEF K
    <2> QED
      BY <2>2, <2>5, <2>11, <2>14 DEF DeletesInOrder, r
  <1> QED
    BY <1>7, <1>8

\* The ends of a node's keys are keys of the tree, and in a leaf all keys are
\* between them.
LEMMA EndKeys ==
  ASSUME NEW g \in Nat, NEW c \in SearchTrees[g], Num(c) > 0
  PROVE  /\ Head(c.keys) \in KeysIn[g][c] /\ Last(c.keys) \in KeysIn[g][c]
         /\ Head(c.keys) \in KeyValues /\ Last(c.keys) \in KeyValues
         /\ g = 0 => \A v \in KeysIn[g][c] : v \in Int /\ Head(c.keys) <= v /\ v <= Last(c.keys)
  <1> DEFINE a == Head(c.keys)
             b == Last(c.keys)
             n == Num(c)
  <1>1. /\ c \in NodesAt(g) /\ n \in Nat /\ \A m \in 1 .. n : c.keys[m] \in Int /\ c.keys[m] \in KeyValues
        /\ \A l, m \in 1 .. n : l < m => c.keys[l] < c.keys[m]
    BY Ascends
  <1>2. 1 \in 1 .. n /\ n \in 1 .. n
    BY <1>1
  <1>3. a = c.keys[1] /\ b = c.keys[n]
    <2>1. c.keys \in Seq(KeyValues) /\ Len(c.keys) = n
      BY <1>1, IsNode
    <2> QED
      BY <2>1, Ends
  <1> HIDE DEF a, b, n
  <1>4. a \in KeysIn[g][c] /\ b \in KeysIn[g][c]
    BY <1>1, <1>2, <1>3, Reaches DEF n
  <1>5. g = 0 => \A v \in KeysIn[g][c] : v \in Int /\ a <= v /\ v <= b
    <2> SUFFICES ASSUME g = 0 PROVE \A v \in KeysIn[g][c] : v \in Int /\ a <= v /\ v <= b
      OBVIOUS
    <2> DEFINE K == {v \in Int : a <= v /\ v <= b}
    <2>1. ASSUME NEW m \in 1 .. n PROVE c.keys[m] \in K
      <3>1. (m = 1 \/ 1 < m) /\ (m = n \/ m < n)
        BY <1>1
      <3> QED
        BY <1>1, <1>2, <1>3, <3>1
    <2> HIDE DEF K
    <2>2. KeysIn[g][c] \subseteq K
      BY <1>1, <2>1, Within DEF n
    <2> QED
      BY <2>2 DEF K
  <1> QED
    BY <1>1, <1>2, <1>3, <1>4, <1>5 DEF a, b

\* Key i and child j of x replaced, one after the other.
Refilled(x, i, e, j, o, z) == LET y == [x EXCEPT !.keys[i] = e] IN z = [y EXCEPT !.kids[j] = o]
IsRefilled(h, x, i, e, j, o, z) ==
  /\ z \in NodesAt(h) /\ Num(z) = Num(x)
  /\ \A n \in 1 .. Num(x) : z.keys[n] = IF n = i THEN e ELSE x.keys[n]
  /\ \A n \in 1 .. Num(x) + 1 : z.kids[n] = IF n = j THEN o ELSE x.kids[n]

\* What the new node has.
LEMMA RefilledAt ==
  ASSUME NEW h \in Nat, h > 0, NEW x \in NodesAt(h), NEW i \in 1 .. Num(x), NEW e \in KeyValues,
         NEW j \in 1 .. Num(x) + 1, NEW o \in Subtrees[h - 1], NEW z, Refilled(x, i, e, j, o, z)
  PROVE  IsRefilled(h, x, i, e, j, o, z)
  <1> DEFINE ks == [x.keys EXCEPT ![i] = e]
             cs == [x.kids EXCEPT ![j] = o]
             y  == [x EXCEPT !.keys[i] = e]
  <1>1. /\ x = [keys |-> x.keys, kids |-> x.kids] /\ x.keys \in Seq(KeyValues) /\ x.kids \in Seq(Below(h))
        /\ Len(x.kids) = Num(x) + 1 /\ Num(x) = Len(x.keys)
    BY IsNode
  <1>2. DOMAIN x.keys = 1 .. Num(x) /\ DOMAIN x.kids = 1 .. Num(x) + 1
    BY <1>1, Elements
  <1>3. /\ \A n \in 1 .. Num(x) : ks[n] = IF n = i THEN e ELSE x.keys[n]
        /\ \A n \in 1 .. Num(x) + 1 : cs[n] = IF n = j THEN o ELSE x.kids[n]
    BY <1>2
  <1>4. y = [x EXCEPT !.keys = ks]
    OBVIOUS
  <1>5. y \in NodesAt(h) /\ Num(y) = Num(x) /\ y.kids = x.kids
    BY Rekeyed, SMTT(30)
  <1>6. z = [y EXCEPT !.kids[j] = o]
    BY DEF Refilled
  <1> HIDE DEF y, ks
  <1>7. y = [keys |-> ks, kids |-> x.kids]
    BY <1>1, <1>4
  <1>8. y.keys = ks
    BY <1>7
  <1>9. z = [y EXCEPT !.kids = cs]
    BY <1>5, <1>6
  <1>10. z \in NodesAt(h) /\ Num(z) = Num(x)
    BY <1>5, <1>6, Plugged
  <1> HIDE DEF cs
  <1>11. z = [keys |-> ks, kids |-> cs]
    BY <1>7, <1>9
  <1>12. z.keys = ks /\ z.kids = cs
    BY <1>11
  <1> QED
    BY <1>3, <1>10, <1>12 DEF IsRefilled

\* The key comes from a leaf beside it, which loses that key.
IsRefill(x, i, j, e, o) ==
  /\ (j = i /\ e = Last(x.kids[j].keys)) \/ (j = i + 1 /\ e = Head(x.kids[j].keys))
  /\ Num(x.kids[j]) > 0 /\ o \in SearchTrees[0] /\ o \in Subtrees[0]
  /\ KeysIn[0][o] = KeysIn[0][x.kids[j]] \ {e}

\* Then the new key and the leaves divide the keys of the pair anew.
LEMMA RefillDivision ==
  ASSUME NEW x \in SearchTrees[1], NEW i \in 1 .. Num(x), NEW j \in 1 .. Num(x) + 1, NEW e, NEW o,
         IsRefill(x, i, j, e, o)
  PROVE  LET lo == IF j = i THEN o ELSE x.kids[i]
             hi == IF j = i THEN x.kids[i + 1] ELSE o
         IN /\ IsDivision(1, x, i, lo, e, hi)
            /\ x.keys[i] \notin KeysIn[0][lo] \cup {e} \cup KeysIn[0][hi]
  <1> DEFINE a == x.kids[i]
             b == x.kids[i + 1]
             d == x.keys[i]
             A == KeysIn[0][a]
             B == KeysIn[0][b]
  <1>1. x \in NodesAt(1) /\ Num(x) \in Nat /\ d \in KeyValues /\ d \in Int
    BY Ascends
  <1>2. i \in 1 .. Num(x) + 1 /\ i + 1 \in 1 .. Num(x) + 1 /\ i # i + 1
    BY <1>1
  <1>3. a \in SearchTrees[0] /\ b \in SearchTrees[0] /\ a \in NodesAt(0) /\ b \in NodesAt(0)
    <2>1. 1 - 1 = 0
      OBVIOUS
    <2> QED
      BY <1>1, <1>2, <2>1, Ascends, Child
  <1>4. (\A v \in A : v < d) /\ (\A v \in B : d < v)
    <2>1. 1 - 1 = 0 /\ 1 \in Nat /\ 1 > 0
      OBVIOUS
    <2> QED
      BY <2>1, AreNear DEF Under
  <1>5. A \subseteq Int /\ B \subseteq Int
    BY <1>3, KeysAreKeys, DegreeFacts
  <1>6. CASE j = i
    <2>1. e = Last(a.keys) /\ Num(a) > 0 /\ o \in SearchTrees[0] /\ KeysIn[0][o] = A \ {e}
      BY <1>2, <1>6 DEF IsRefill
    <2>2. e \in A /\ e \in KeyValues /\ \A v \in A : v <= e
      BY <1>3, <2>1, EndKeys
    <2> HIDE DEF A, B, a, b, d
    <2>3. e \in Int /\ e < d
      BY <1>4, <1>5, <2>2
    <2>4. (\A v \in KeysIn[0][o] : v < e) /\ (\A v \in B : e < v)
      <3>1. ASSUME NEW v \in A, v # e PROVE v < e
        BY <1>5, <2>2, <2>3, <3>1
      <3>2. ASSUME NEW v \in B PROVE e < v
        BY <1>1, <1>4, <1>5, <2>3, <3>2
      <3> QED
        BY <2>1, <3>1, <3>2
    <2>5. KeysIn[0][o] \cup {e} \cup B \subseteq A \cup {d} \cup B /\ d \notin KeysIn[0][o] \cup {e} \cup B
      BY <1>1, <1>4, <2>1, <2>2, <2>3
    <2>6. IsDivision(1, x, i, o, e, b)
      <3>1. 1 - 1 = 0
        OBVIOUS
      <3>2. Under(KeysIn[0][o], {e}) /\ Under({e}, B)
        BY <2>4 DEF Under
      <3> QED
        BY <1>3, <2>1, <2>2, <2>5, <3>1, <3>2 DEF IsDivision, A, B, a, b, d
    <2> QED
      BY <1>6, <2>5, <2>6 DEF B, b, d
  <1>7. CASE j # i
    <2>1. j = i + 1 /\ e = Head(b.keys) /\ Num(b) > 0 /\ o \in SearchTrees[0] /\ KeysIn[0][o] = B \ {e}
      BY <1>2, <1>7 DEF IsRefill
    <2>2. e \in B /\ e \in KeyValues /\ \A v \in B : e <= v
      BY <1>3, <2>1, EndKeys
    <2> HIDE DEF A, B, a, b, d
    <2>3. e \in Int /\ d < e
      BY <1>4, <1>5, <2>2
    <2>4. (\A v \in KeysIn[0][o] : e < v) /\ (\A v \in A : v < e)
      <3>1. ASSUME NEW v \in B, v # e PROVE e < v
        BY <1>5, <2>2, <2>3, <3>1
      <3>2. ASSUME NEW v \in A PROVE v < e
        BY <1>1, <1>4, <1>5, <2>3, <3>2
      <3> QED
        BY <2>1, <3>1, <3>2
    <2>5. A \cup {e} \cup KeysIn[0][o] \subseteq A \cup {d} \cup B /\ d \notin A \cup {e} \cup KeysIn[0][o]
      BY <1>1, <1>4, <2>1, <2>2, <2>3
    <2>6. IsDivision(1, x, i, a, e, o)
      <3>1. 1 - 1 = 0
        OBVIOUS
      <3>2. Under(A, {e}) /\ Under({e}, KeysIn[0][o])
        BY <2>4 DEF Under
      <3> QED
        BY <1>3, <2>1, <2>2, <2>5, <3>1, <3>2 DEF IsDivision, A, B, a, b, d
    <2> QED
      BY <1>7, <2>5, <2>6 DEF A, a, d
  <1> QED
    BY <1>6, <1>7

\* Above leaves a replacement keeps the order, and the key is gone.
LEMMA RefillSearch ==
  ASSUME NEW x \in SearchTrees[1], NEW i \in 1 .. Num(x), NEW j \in 1 .. Num(x) + 1, NEW e \in KeyValues, NEW o,
         IsRefill(x, i, j, e, o), NEW z, Refilled(x, i, e, j, o, z)
  PROVE  z \in SearchTrees[1] /\ KeysIn[1][z] \subseteq KeysIn[1][x] \ {x.keys[i]}
  <1> DEFINE lo == IF j = i THEN o ELSE x.kids[i]
             hi == IF j = i THEN x.kids[i + 1] ELSE o
             d == x.keys[i]
  <1>1. 1 \in Nat /\ 1 > 0 /\ 1 - 1 = 0
    OBVIOUS
  <1>2. x \in NodesAt(1) /\ Num(x) \in Nat /\ d \in Int
    BY Ascends
  <1>3. o \in Subtrees[1 - 1] /\ (j = i \/ j = i + 1)
    BY <1>1 DEF IsRefill
  <1>4. /\ z \in NodesAt(1) /\ Num(z) = Num(x)
        /\ \A n \in 1 .. Num(x) : z.keys[n] = IF n = i THEN e ELSE x.keys[n]
        /\ \A n \in 1 .. Num(x) + 1 : z.kids[n] = IF n = j THEN o ELSE x.kids[n]
    <2>1. IsRefilled(1, x, i, e, j, o, z)
      BY <1>1, <1>2, <1>3, RefilledAt
    <2> QED
      BY <2>1 DEF IsRefilled
  <1>5. IsDivision(1, x, i, lo, e, hi) /\ d \notin KeysIn[0][lo] \cup {e} \cup KeysIn[0][hi]
    BY RefillDivision
  <1>6. IsPair(x, i, lo, e, hi, z)
    <2>1. ASSUME NEW n \in 1 .. Num(x) + 1
          PROVE  z.kids[n] = IF n = i THEN lo ELSE IF n = i + 1 THEN hi ELSE x.kids[n]
      <3>1. i # i + 1
        BY <1>2
      <3> QED
        BY <1>3, <1>4, <3>1
    <2> HIDE DEF lo, hi
    <2> QED
      BY <1>4, <2>1 DEF IsPair
  <1> HIDE DEF lo, hi
  <1>7. /\ z \in SearchTrees[1] /\ KeysIn[1][z] \subseteq KeysIn[1][x]
        /\ \A v \in Int : Near(x, i, v) /\ v \in KeysIn[1][z]
                            => v \in KeysIn[1 - 1][lo] \cup {e} \cup KeysIn[1 - 1][hi]
    BY <1>1, <1>4, <1>5, <1>6, PairSearch
  <1>8. Near(x, i, d)
    BY <1>1, AreNear
  <1>9. d \notin KeysIn[1][z]
    BY <1>1, <1>2, <1>5, <1>7, <1>8
  <1> QED
    BY <1>7, <1>9 DEF d

\* When a deletion misplaces a key.
LEMMA MisplacesWhere ==
  ASSUME NEW h \in Nat, NEW x \in NodesAt(h), NEW k \in KeyValues
  PROVE  LET d == DeleteBelow(x, k)
         IN /\ h = 0 => ~Misplaces[h][x][k]
            /\ h > 0 /\ Replacing(x, k) => (Misplaces[h][x][k] <=> h > 1)
            /\ h > 0 /\ ~Replacing(x, k) =>
                 (Misplaces[h][x][k] <=> Misplaces[h - 1][d.node.kids[d.at]][d.key])
  <1> DEFINE p == Misplaces[h - 1]
  <1>1. x \in Trees[h] /\ (Leaf(x) <=> h = 0)
    BY NodesAreTrees, IsNode
  <1>2. Misplaces[h][x][k] = Misplaced(p, h, x, k)
    <2>1. Misplaces[h] = MisplacesRow(p, h)
      BY MisplacesDef
    <2> HIDE DEF p
    <2> QED
      BY <1>1, <2>1 DEF MisplacesRow
  <1> HIDE DEF p
  <1>3. h = 0 => ~Misplaces[h][x][k]
    BY <1>1, <1>2, Zenon DEF Misplaced
  <1>4. h > 0 => ~Leaf(x)
    BY <1>1
  <1>5. h > 0 /\ Replacing(x, k) => (Misplaces[h][x][k] <=> h > 1)
    BY <1>2, <1>4, Zenon DEF Misplaced
  <1>6. h > 0 /\ ~Replacing(x, k) =>
          (Misplaces[h][x][k] <=>
             p[DeleteBelow(x, k).node.kids[DeleteBelow(x, k).at]][DeleteBelow(x, k).key])
    BY <1>2, <1>4, Zenon DEF Misplaced
  <1> QED
    BY <1>3, <1>5, <1>6 DEF p

\* The call of btree_delete_key on a child: c is the child and r its outcome.
IsCall(g, x, k, d, c, r) ==
  LET z == btree_delete_key[g + 1][x][k]
      o == r.node
  IN /\ d.at \in 1 .. Num(d.node) + 1 /\ d.key \in KeyValues
     /\ c = d.node.kids[d.at] /\ c \in NodesAt(g) /\ Num(c) > 0
     /\ r = btree_delete_key[g][c][d.key] /\ r.how # "undefined" /\ r.node \in Subtrees[g]
     /\ z.how = r.how /\ z.node = [d.node EXCEPT !.kids[d.at] = o]
     /\ KeysIn[g + 1][x] \subseteq KeysIn[g + 1][z.node] \cup {k}

\* It is made unless a freed node is read.
LEMMA Calls ==
  ASSUME NEW g \in Nat, NEW x \in NodesAt(g + 1), NEW k \in KeyValues, Num(x) > 0, ~UsesFreedNode(x, k)
  PROVE  LET d == DeleteBelow(x, k)
             c == d.node.kids[d.at]
         IN IsCall(g, x, k, d, c, btree_delete_key[g][c][d.key])
  <1> DEFINE h == g + 1
             f == btree_delete_key[g]
             z == btree_delete_key[h][x][k]
             d == DeleteBelow(x, k)
             c == d.node.kids[d.at]
             r == f[c][d.key]
             o == r.node
             y == [d.node EXCEPT !.kids[d.at] = o]
  <1>1. h \in Nat /\ h > 0 /\ h - 1 = g /\ g \in Nat /\ x \in NodesAt(h)
    OBVIOUS
  <1>2. KeysIn[h][x] \subseteq KeysIn[h][z.node] \cup {k}
    BY <1>1, DeleteKey DEF Deletes
  <1> HIDE DEF h
  <1>3. Num(x) \in Nat /\ ~Leaf(x) /\ x \in Trees[h]
    BY <1>1, IsNode, NodesAreTrees
  <1>4. z = Deleted(f, x, k)
    <2>1. btree_delete_key[h] = DeleteRow(f, h)
      BY <1>1, DeleteDef
    <2> HIDE DEF f
    <2> QED
      BY <1>3, <2>1 DEF DeleteRow
  <1>5. z = [node |-> y, how |-> r.how]
    <2> HIDE DEF f, z
    <2> QED
      BY <1>3, <1>4 DEF Deleted
  <1> HIDE DEF z
  <1>6. z.node = y /\ z.how = r.how
    <2> HIDE DEF y, r
    <2> QED
      BY <1>5
  <1>7. IsDescent(h, x, k, d)
    BY <1>1, Descent
  <1> HIDE DEF d
  <1>8. d.node \in NodesAt(h) /\ d.at \in 1 .. Num(d.node) + 1 /\ Num(c) >= t /\ d.key \in KeyValues
    BY <1>7 DEF IsDescent
  <1>9. c \in NodesAt(g) /\ Num(c) \in Nat
    <2>1. c \in NodesAt(g)
      BY <1>1, <1>8, Child
    <2> QED
      BY <1>1, <2>1, IsNode
  <1> HIDE DEF c
  <1>10. Num(c) > 0 /\ Num(c) # 1
    BY <1>8, <1>9, DegreeFacts
  <1>11. Deletes(g, c, d.key)
    BY <1>1, <1>8, <1>9, <1>10, DeleteKey
  <1>12. r.how # "undefined" /\ o \in NodesAt(g) /\ Num(o) >= Num(c) - 1
    BY <1>10, <1>11 DEF Deletes
  <1> HIDE DEF f, r
  <1>13. o \in Subtrees[g]
    <2>1. Num(o) \in Nat
      BY <1>1, <1>12, IsNode
    <2> HIDE DEF o
    <2>2. Num(o) >= t - 1
      BY <1>8, <1>9, <1>12, <2>1, DegreeFacts
    <2> QED
      BY <1>1, <1>12, <2>2, IsSubtree
  <1>14. IsCall(g, x, k, d, c, r)
    BY <1>1, <1>2, <1>6, <1>8, <1>9, <1>10, <1>12, <1>13 DEF IsCall, c, r, f, z, h
  <1> QED
    BY <1>14 DEF d, c, r, f

\* Without a replacement at this level.
LEMMA PassesOn ==
  ASSUME NEW g \in Nat, NEW x \in SearchTrees[g + 1], NEW k \in KeyValues, Num(x) > 0, ~Replacing(x, k),
         NEW d, d = DeleteBelow(x, k), NEW c, NEW r, IsCall(g, x, k, d, c, r),
         c \in SearchTrees[g] => DeletesInOrder(g, c, d.key)
  PROVE  DeletesInOrder(g + 1, x, k)
  <1> DEFINE h == g + 1
             a == d.node
             j == d.at
             z == btree_delete_key[h][x][k]
             o == r.node
  <1>1. h \in Nat /\ h > 0 /\ h - 1 = g /\ x \in SearchTrees[h] /\ k \in Int
    BY DegreeFacts
  <1>2. /\ j \in 1 .. Num(a) + 1
        /\ c = a.kids[j] /\ c \in NodesAt(g) /\ Num(c) > 0
        /\ r = btree_delete_key[g][c][d.key] /\ r.how # "undefined" /\ o \in Subtrees[g]
        /\ z.how = r.how /\ z.node = [a EXCEPT !.kids[j] = o]
    BY DEF IsCall
  <1> HIDE DEF h, z
  <1>3. a \in SearchTrees[h] /\ KeysIn[h][a] = KeysIn[h][x] /\ Fits(a, j, k) /\ d.key = k
    BY <1>1, DescentSearch DEF IsSearchDescent
  <1>4. ~Misplaces[h][x][k] => ~Misplaces[g][c][k]
    <2>1. x \in NodesAt(h)
      BY <1>1, Ascends
    <2> DEFINE b == DeleteBelow(x, k)
    <2>2. ~Misplaces[h][x][k] => ~Misplaces[h - 1][b.node.kids[b.at]][b.key]
      BY <1>1, <2>1, MisplacesWhere
    <2>3. b = d
      OBVIOUS
    <2> HIDE DEF b
    <2> QED
      BY <1>1, <1>2, <1>3, <2>2, <2>3
  <1> HIDE DEF a, j, o
  <1>5. a \in NodesAt(h) /\ c \in SearchTrees[g]
    BY <1>1, <1>2, <1>3, IsSearch
  <1>6. /\ r.how = "cannot" => k \notin KeysIn[g][c]
        /\ ~Misplaces[g][c][k] => o \in SearchTrees[g] /\ KeysIn[g][o] = KeysIn[g][c] \ {k}
    BY <1>2, <1>3, <1>5 DEF DeletesInOrder, o
  <1>7. r.how = "cannot" => k \notin KeysIn[h][x]
    BY <1>1, <1>2, <1>3, <1>6, FitsOnly
  <1>8. ~Misplaces[h][x][k] => z.node \in SearchTrees[h] /\ KeysIn[h][z.node] = KeysIn[h][x] \ {k}
    <2> SUFFICES ASSUME ~Misplaces[h][x][k]
                 PROVE  z.node \in SearchTrees[h] /\ KeysIn[h][z.node] = KeysIn[h][x] \ {k}
      OBVIOUS
    <2>1. o \in SearchTrees[h - 1] /\ o \in Subtrees[h - 1] /\ KeysIn[h - 1][o] = KeysIn[h - 1][a.kids[j]] \ {k}
      BY <1>1, <1>2, <1>4, <1>6
    <2> DEFINE y == [a EXCEPT !.kids[j] = o]
    <2>2. y \in SearchTrees[h] /\ KeysIn[h][y] = KeysIn[h][a] \ {k}
      <3>1. j \in 1 .. Num(a) + 1 /\ a \in SearchTrees[h] /\ Fits(a, j, k)
        BY <1>2, <1>3
      <3> QED
        BY ONLY <1>1, <2>1, <3>1, PlugLess
    <2>3. z.node = y
      BY <1>2
    <2> HIDE DEF y
    <2> QED
      BY <1>3, <2>2, <2>3
  <1> QED
    BY <1>2, <1>7, <1>8 DEF DeletesInOrder, z, h

\* The child that gives the key, and the key.
IsDonor(x, i, j, e) ==
  /\ j \in 1 .. Num(x) + 1 /\ Num(x.kids[j]) > 0
  /\ (j = i /\ e = Last(x.kids[j].keys)) \/ (j = i + 1 /\ e = Head(x.kids[j].keys))

\* How a replacement goes on.
LEMMA ReplacementFrom ==
  ASSUME NEW h \in Nat, h > 0, NEW x \in NodesAt(h), NEW k \in KeyValues, Replacing(x, k)
  PROVE  LET d == DeleteBelow(x, k)
             i == DeletePosition(x, k)
             e == d.key
         IN /\ IsDonor(x, i, d.at, e) /\ d.node = [x EXCEPT !.keys[i] = e]
            /\ i \in 1 .. Num(x) /\ x.keys[i] = k
  <1> DEFINE i == DeletePosition(x, k)
             d == DeleteBelow(x, k)
  <1>1. Num(x) \in Nat /\ DOMAIN x.kids = 1 .. Num(x) + 1
    BY IsNode, Elements
  <1>2. i \in 1 .. Num(x) /\ x.keys[i] = k
    BY DeletePlace DEF Replacing
  <1>3. \A j : Rich(x, j) => j \in 1 .. Num(x) + 1 /\ Num(x.kids[j]) > 0
    <2> SUFFICES ASSUME NEW j, Rich(x, j) PROVE j \in 1 .. Num(x) + 1 /\ Num(x.kids[j]) > 0
      OBVIOUS
    <2>1. j \in 1 .. Num(x) + 1 /\ Num(x.kids[j]) >= t
      BY <1>1 DEF Rich
    <2>2. Num(x.kids[j]) \in t - 1 .. 2 * t - 1
      BY <2>1, Child
    <2> QED
      BY <2>1, <2>2, DegreeFacts
  <1>4. CASE Rich(x, i)
    <2> DEFINE e == LeftReplacement(x.kids[i])
               y == [x EXCEPT !.keys[i] = e]
    <2>1. d = [node |-> y, at |-> i, key |-> e]
      BY <1>4 DEF DeleteBelow, Replacing
    <2> HIDE DEF y
    <2>2. d.node = y /\ d.at = i /\ d.key = e
      BY <2>1
    <2>3. IsDonor(x, i, d.at, d.key)
      <3>1. e = Last(x.kids[i].keys)
        BY DEF LeftReplacement
      <3> HIDE DEF d, i, e
      <3> QED
        BY <1>3, <1>4, <2>2, <3>1 DEF IsDonor
    <2> HIDE DEF d, e
    <2> QED
      BY <1>2, <2>2, <2>3 DEF y, d
  <1>5. CASE ~Rich(x, i) /\ Rich(x, i + 1)
    <2> DEFINE e == RightReplacement(x.kids[i + 1])
               y == [x EXCEPT !.keys[i] = e]
    <2>1. d = [node |-> y, at |-> i + 1, key |-> e]
      BY <1>5 DEF DeleteBelow, Replacing
    <2> HIDE DEF y
    <2>2. d.node = y /\ d.at = i + 1 /\ d.key = e
      BY <2>1
    <2>3. IsDonor(x, i, d.at, d.key)
      <3>1. e = Head(x.kids[i + 1].keys)
        BY DEF RightReplacement
      <3> HIDE DEF d, i, e
      <3> QED
        BY <1>3, <1>5, <2>2, <3>1 DEF IsDonor
    <2> HIDE DEF d, e
    <2> QED
      BY <1>2, <2>2, <2>3 DEF y, d
  <1> QED
    BY <1>4, <1>5 DEF Replacing

\* With a replacement at this level.
LEMMA Replaces ==
  ASSUME NEW g \in Nat, NEW x \in SearchTrees[g + 1], NEW k \in KeyValues, Num(x) > 0, Replacing(x, k),
         NEW d, d = DeleteBelow(x, k), NEW c, NEW r, IsCall(g, x, k, d, c, r),
         c \in SearchTrees[g] => DeletesInOrder(g, c, d.key)
  PROVE  DeletesInOrder(g + 1, x, k)
  <1> DEFINE h == g + 1
             i == DeletePosition(x, k)
             a == d.node
             j == d.at
             e == d.key
             z == btree_delete_key[h][x][k]
             o == r.node
  <1>1. h \in Nat /\ h > 0 /\ h - 1 = g /\ x \in SearchTrees[h] /\ x \in NodesAt(h)
    BY Ascends
  <1>2. /\ e \in KeyValues /\ c = a.kids[j]
        /\ r = btree_delete_key[g][c][e] /\ r.how # "undefined" /\ o \in Subtrees[g]
        /\ z.how = r.how /\ z.node = [a EXCEPT !.kids[j] = o]
        /\ KeysIn[h][x] \subseteq KeysIn[h][z.node] \cup {k}
    BY DEF IsCall
  <1> HIDE DEF h, z
  <1>3. IsDonor(x, i, j, e) /\ a = [x EXCEPT !.keys[i] = e] /\ i \in 1 .. Num(x) /\ x.keys[i] = k
    BY <1>1, ReplacementFrom
  <1>4. Misplaces[h][x][k] <=> h > 1
    BY <1>1, MisplacesWhere
  <1> HIDE DEF a, j, e, o, i
  <1>5. a.kids = x.kids
    BY <1>1, <1>2, <1>3, Rekeyed
  <1>6. /\ j \in 1 .. Num(x) + 1 /\ Num(c) > 0
        /\ (j = i /\ e = Last(c.keys)) \/ (j = i + 1 /\ e = Head(c.keys))
    BY <1>2, <1>3, <1>5 DEF IsDonor
  <1>7. c \in SearchTrees[g]
    BY <1>1, <1>2, <1>5, <1>6, IsSearch
  <1>8. e \in KeysIn[g][c]
    BY <1>6, <1>7, EndKeys
  <1>9. /\ r.how # "cannot"
        /\ ~Misplaces[g][c][e] => o \in SearchTrees[g] /\ KeysIn[g][o] = KeysIn[g][c] \ {e}
    BY <1>2, <1>7, <1>8 DEF DeletesInOrder, e, o
  <1>10. ~Misplaces[h][x][k] => z.node \in SearchTrees[h] /\ KeysIn[h][z.node] = KeysIn[h][x] \ {k}
    <2> SUFFICES ASSUME ~Misplaces[h][x][k]
                 PROVE  z.node \in SearchTrees[h] /\ KeysIn[h][z.node] = KeysIn[h][x] \ {k}
      OBVIOUS
    <2>1. h = 1 /\ g = 0
      BY <1>1, <1>4
    <2>2. c \in NodesAt(0) /\ 0 \in Nat
      BY <1>7, <2>1, Ascends
    <2>3. ~Misplaces[0][c][e]
      BY <1>2, <2>2, MisplacesWhere
    <2>4. IsRefill(x, i, j, e, o)
      BY <1>2, <1>5, <1>6, <1>9, <2>1, <2>3 DEF IsRefill
    <2> DEFINE w == z.node
    <2>5. Refilled(x, i, e, j, o, w)
      BY <1>2, <1>3 DEF Refilled
    <2> HIDE DEF w
    <2>6. x \in SearchTrees[1]
      BY <1>1, <2>1
    <2>7. w \in SearchTrees[1] /\ KeysIn[1][w] \subseteq KeysIn[1][x] \ {x.keys[i]}
      BY <1>2, <1>3, <1>6, <2>4, <2>5, <2>6, RefillSearch
    <2> QED
      BY <1>2, <1>3, <2>1, <2>7 DEF w
  <1> QED
    BY <1>2, <1>9, <1>10 DEF DeletesInOrder, z, h

\* An inner node with one key that is merged away ends the call.
LEMMA ReadsFreed ==
  ASSUME NEW h \in Nat, h > 0, NEW x \in NodesAt(h), NEW k \in KeyValues, UsesFreedNode(x, k)
  PROVE  btree_delete_key[h][x][k].how = "undefined"
  <1> DEFINE f == btree_delete_key[h - 1]
             r == btree_delete_key[h][x][k]
  <1>1. ~Leaf(x) /\ x \in Trees[h]
    BY IsNode, NodesAreTrees
  <1>2. r = Deleted(f, x, k)
    <2>1. btree_delete_key[h] = DeleteRow(f, h)
      BY DeleteDef
    <2> HIDE DEF f
    <2> QED
      BY <1>1, <2>1 DEF DeleteRow
  <1> HIDE DEF f, r
  <1>3. r = [node |-> x, how |-> "undefined"]
    BY <1>1, <1>2 DEF Deleted
  <1>4. r.how = "undefined"
    BY <1>3
  <1> QED
    BY <1>4 DEF r

\* In an inner node, if calls on the level below do what they should.
LEMMA InnerDeletesInOrder ==
  ASSUME NEW g \in Nat, NEW x \in SearchTrees[g + 1], NEW k \in KeyValues, Num(x) > 0,
         \A c \in SearchTrees[g] : \A e \in KeyValues : (g > 0 => Num(c) > 0) => DeletesInOrder(g, c, e)
  PROVE  DeletesInOrder(g + 1, x, k)
  <1>1. g + 1 \in Nat /\ g + 1 > 0 /\ x \in NodesAt(g + 1)
    BY Ascends
  <1>2. CASE UsesFreedNode(x, k)
    <2> DEFINE r == btree_delete_key[g + 1][x][k]
    <2>1. r.how = "undefined"
      BY <1>1, <1>2, ReadsFreed
    <2> QED
      BY <2>1 DEF DeletesInOrder
  <1>3. CASE ~UsesFreedNode(x, k)
    <2> DEFINE d == DeleteBelow(x, k)
               c == d.node.kids[d.at]
               r == btree_delete_key[g][c][d.key]
    <2>1. IsCall(g, x, k, d, c, r)
      BY <1>1, <1>3, Calls
    <2>2. d = DeleteBelow(x, k)
      OBVIOUS
    <2> HIDE DEF d, c, r
    <2>3. c \in SearchTrees[g] => DeletesInOrder(g, c, d.key)
      BY <2>1 DEF IsCall
    <2>4. CASE Replacing(x, k)
      BY <2>1, <2>2, <2>3, <2>4, Replaces
    <2>5. CASE ~Replacing(x, k)
      BY <2>1, <2>2, <2>3, <2>5, PassesOn
    <2> QED
      BY <2>4, <2>5
  <1> QED
    BY <1>2, <1>3

\* Lines 232-354: on a search tree of any height and degree, btree_delete_key
\* returns a search tree with the keys there were but k, unless an inner child
\* gives the key that replaces k or the program reads a freed node; and it says
\* "Cannot del key" only of a key that is not there.
THEOREM DeleteKeyInOrder ==
  \A h \in Nat : \A x \in SearchTrees[h] : \A k \in KeyValues : (h > 0 => Num(x) > 0) => DeletesInOrder(h, x, k)
  <1> DEFINE Good == {h \in Nat : \A x \in SearchTrees[h] : \A k \in KeyValues :
                                    (h > 0 => Num(x) > 0) => DeletesInOrder(h, x, k)}
  <1>1. 0 \in Good
    BY LeafDeletesInOrder
  <1>2. ASSUME NEW g \in Nat, g \in Good PROVE g + 1 \in Good
    <2>1. \A c \in SearchTrees[g] : \A e \in KeyValues : (g > 0 => Num(c) > 0) => DeletesInOrder(g, c, e)
      BY <1>2
    <2> HIDE DEF Good
    <2>2. ASSUME NEW x \in SearchTrees[g + 1], NEW k \in KeyValues, Num(x) > 0
          PROVE  DeletesInOrder(g + 1, x, k)
      BY ONLY <2>1, <2>2, g \in Nat, InnerDeletesInOrder
    <2>3. g + 1 \in Nat /\ g + 1 > 0
      OBVIOUS
    <2> QED
      BY ONLY <2>2, <2>3 DEF Good
  <1> HIDE DEF Good
  <1>3. \A h \in Nat : h \in Good
    BY <1>1, <1>2, FromZero
  <1> QED
    BY <1>3 DEF Good
-----------------------------------------------------------------------------
(* The order of the keys *)

\* A full root below a new one.
LEMMA GrownSearch ==
  ASSUME NEW h \in Nat, NEW x \in SearchTrees[h], Num(x) = 2 * t - 1
  PROVE  LET s == Grown(x)
         IN /\ s \in SearchTrees[h + 1] /\ KeysIn[h + 1][s] = KeysIn[h][x]
            /\ Num(s) = 1 /\ Num(s.kids[1]) = t - 1 /\ Num(s.kids[2]) = t - 1
  <1> DEFINE g  == h + 1
             ks == << >>
             cs == <<x>>
             a  == [keys |-> ks, kids |-> cs]
             s  == Grown(x)
  <1>1. g \in Nat /\ g > 0 /\ g - 1 = h
    OBVIOUS
  <1>2. Below(g) = Subtrees[h]
    BY <1>1 DEF Below
  <1>3. s = btree_split_child(a, 1)
    BY DEF Grown
  <1> HIDE DEF g
  <1>4. x \in NodesAt(h) /\ x \in Subtrees[h]
    BY Ascends, IsSubtree, DegreeFacts
  <1>5. ks \in Seq(KeyValues) /\ Len(ks) = 0
    BY EmptySeq
  <1>6. cs \in Seq(Below(g)) /\ Len(cs) = 1 /\ cs[1] = x
    BY <1>2, <1>4, One
  <1> HIDE DEF ks, cs
  <1>7. a \in NodesAt(g)
    <2>1. Len(ks) <= 2 * t - 1 /\ Len(cs) = Children(g, ks)
      BY <1>1, <1>5, <1>6, DegreeFacts DEF Children
    <2> QED
      BY <1>1, <1>5, <1>6, <2>1, NewNode
  <1>8. Num(a) = 0 /\ a.kids[1] = x
    BY <1>5, <1>6 DEF Num
  <1> HIDE DEF a
  <1>9. a \in SearchTrees[g]
    <2>1. InOrder(g, a)
      BY <1>8 DEF InOrder
    <2>2. \A n \in 1 .. Num(a) + 1 : a.kids[n] \in SearchTrees[g - 1]
      BY <1>1, <1>8
    <2> QED
      BY <1>1, <1>7, <2>1, <2>2, IsSearch
  <1>10. KeysIn[g][a] = KeysIn[h][x]
    <2>1. 1 \in 1 .. Num(a) + 1
      BY <1>8
    <2>2. KeysIn[g - 1][a.kids[1]] \subseteq KeysIn[g][a]
      BY <1>1, <1>7, <2>1, Reaches
    <2> DEFINE K == KeysIn[h][x]
    <2>3. /\ \A n \in 1 .. Num(a) : a.keys[n] \in K
          /\ \A n \in 1 .. Num(a) + 1 : KeysIn[g - 1][a.kids[n]] \subseteq K
      BY <1>1, <1>8
    <2> HIDE DEF K
    <2>4. KeysIn[g][a] \subseteq K
      BY <1>1, <1>7, <2>3, Within
    <2> QED
      BY <1>1, <1>8, <2>2, <2>4 DEF K
  <1>11. Num(a) < 2 * t - 1 /\ 1 \in 1 .. Num(a) + 1 /\ Num(a.kids[1]) = 2 * t - 1
    BY <1>8, DegreeFacts
  <1> HIDE DEF s
  <1>12. s \in SearchTrees[g] /\ KeysIn[g][s] = KeysIn[g][a]
    BY <1>1, <1>3, <1>9, <1>11, SplitSearch
  <1>13. Num(s) = Num(a) + 1 /\ Num(s.kids[1]) = t - 1 /\ Num(s.kids[1 + 1]) = t - 1
    BY <1>1, <1>3, <1>7, <1>11, SplitChild
  <1> QED
    BY <1>8, <1>10, <1>12, <1>13 DEF s, g

\* The insertion into the half that the new key belongs to.
LEMMA GrownInOrder ==
  ASSUME NEW h \in Nat, NEW x \in SearchTrees[h], Num(x) = 2 * t - 1, NEW k \in KeyValues, k \notin KeysIn[h][x],
         NEW j, j = IF Grown(x).keys[1] < k THEN 2 ELSE 1
  PROVE  LET s == Grown(x)
             y == [s EXCEPT !.kids[j] = btree_insert_nonfull[h][s.kids[j]][k]]
         IN y \in SearchTrees[h + 1] /\ KeysIn[h + 1][y] \subseteq KeysIn[h][x] \cup {k}
  <1> DEFINE g  == h + 1
             s  == Grown(x)
             c  == s.kids[j]
             d  == btree_insert_nonfull[h][c][k]
             y  == [s EXCEPT !.kids[j] = d]
  <1>1. g \in Nat /\ g > 0 /\ g - 1 = h /\ k \in Int
    BY DegreeFacts
  <1>2. /\ s \in SearchTrees[g] /\ KeysIn[g][s] = KeysIn[h][x]
        /\ Num(s) = 1 /\ Num(s.kids[1]) = t - 1 /\ Num(s.kids[2]) = t - 1
    BY GrownSearch
  <1> HIDE DEF g
  <1>3. (j = 1 /\ ~(s.keys[1] < k)) \/ (j = 2 /\ s.keys[1] < k)
    OBVIOUS
  <1> HIDE DEF s
  <1>4. s \in NodesAt(g) /\ j \in 1 .. Num(s) + 1 /\ 1 \in 1 .. Num(s) /\ Num(c) = t - 1
    BY <1>1, <1>2, <1>3, Ascends
  <1>5. s.keys[1] \in Int /\ s.keys[1] # k
    BY <1>1, <1>2, <1>4, Ascends, Reaches
  <1>6. Fits(s, j, k)
    <2>1. \A m \in 1 .. Num(s) : m = 1
      BY <1>2
    <2>2. (j = 1 /\ k < s.keys[1]) \/ (j = 2 /\ s.keys[1] < k)
      BY <1>1, <1>3, <1>5
    <2> QED
      BY <2>1, <2>2 DEF Fits
  <1>7. c \in SearchTrees[h] /\ c \in NodesAt(h) /\ KeysIn[h][c] \subseteq KeysIn[g][s]
    BY <1>1, <1>2, <1>4, IsSearch, Child, Reaches
  <1>8. \A e \in KeysIn[h][c] : Fits(s, j, e)
    BY <1>1, <1>2, <1>4, Ascends, ZenonT(30) DEF Fits
  <1> HIDE DEF c
  <1>9. Num(c) < 2 * t - 1
    BY <1>4, DegreeFacts
  <1>10. InsertsInOrder(h, c, k) /\ Inserts(h, c, k)
    BY <1>2, <1>7, <1>9, InsertNonfullInOrder, InsertNonfull
  <1>11. /\ d \in SearchTrees[h] /\ KeysIn[h][d] \subseteq KeysIn[h][c] \cup {k}
         /\ d \in NodesAt(h) /\ Num(d) >= Num(c)
    BY <1>10 DEF InsertsInOrder, Inserts
  <1> HIDE DEF d
  <1>12. d \in SearchTrees[g - 1] /\ d \in Subtrees[g - 1]
    <2>1. Num(d) \in Nat
      BY <1>11, IsNode
    <2>2. Num(d) >= t - 1
      BY <1>4, <1>11, <2>1, DegreeFacts
    <2> QED
      BY <1>1, <1>11, <2>2, IsSubtree
  <1>13. \A e \in KeysIn[g - 1][d] : Fits(s, j, e)
    BY <1>1, <1>6, <1>8, <1>11
  <1>14. y \in SearchTrees[g] /\ KeysIn[g][y] \subseteq KeysIn[g][s] \cup KeysIn[g - 1][d]
    BY ONLY <1>1, <1>2, <1>4, <1>12, <1>13, PlugSearch
  <1> HIDE DEF y
  <1>15. KeysIn[g][y] \subseteq KeysIn[h][x] \cup {k}
    BY <1>1, <1>2, <1>7, <1>11, <1>14
  <1> QED
    BY <1>14, <1>15 DEF y, d, c, s, g

\* Until a key is misplaced the tree is a search tree and has no other keys than
\* those present.
Searchable ==
  status = "tree" /\ ~misplaced =>
    root \in SearchTrees[height] /\ KeysIn[height][root] \subseteq present

\* Insertion keeps it so.
LEMMA InsertKeepsOrder ==
  ASSUME WellFormed, Searchable, NEW k \in KeyValues, Insert(k)
  PROVE  Searchable'
  <1>1. CASE status' = "undefined"
    BY <1>1 DEF Searchable
  <1>flag. CASE misplaced'
    BY <1>flag DEF Searchable
  <1>2. CASE ~misplaced' /\ status = "tree" /\ btree_insert(k) /\ present' = present \cup {k} /\ UNCHANGED <<status, misplaced>>
    <2>1. /\ height \in Nat /\ Num(root) \in Nat /\ Num(root) <= 2 * t - 1
          /\ root \in SearchTrees[height] /\ KeysIn[height][root] \subseteq present
      BY <1>2, Rooted DEF Searchable
    <2>2. k \notin KeysIn[height][root]
      BY <2>1 DEF Insert
    <2>3. CASE Num(root) = 2 * t - 1
      <3> DEFINE s == Grown(root)
                 j == IF s.keys[1] < k THEN 2 ELSE 1
                 y == [s EXCEPT !.kids[j] = btree_insert_nonfull[height][@][k]]
                 z == [s EXCEPT !.kids[j] = btree_insert_nonfull[height][s.kids[j]][k]]
                 g == height + 1
      <3>1. root' = y /\ height' = g
        BY <1>2, <2>3 DEF btree_insert
      <3>2. y = z
        OBVIOUS
      <3> HIDE DEF y
      <3>3. j = IF Grown(root).keys[1] < k THEN 2 ELSE 1
        OBVIOUS
      <3> HIDE DEF j
      <3>4. z \in SearchTrees[g] /\ KeysIn[g][z] \subseteq KeysIn[height][root] \cup {k}
        BY <2>1, <2>2, <2>3, <3>3, GrownInOrder
      <3> HIDE DEF z, g
      <3> QED
        BY <1>2, <2>1, <3>1, <3>2, <3>4 DEF Searchable
    <2>4. CASE Num(root) # 2 * t - 1
      <3> DEFINE y == btree_insert_nonfull[height][root][k]
      <3>1. root' = y /\ height' = height
        BY <1>2, <2>4 DEF btree_insert
      <3>2. Num(root) < 2 * t - 1
        BY <2>1, <2>4, DegreeFacts
      <3>3. y \in SearchTrees[height] /\ KeysIn[height][y] \subseteq KeysIn[height][root] \cup {k}
        BY <2>1, <2>2, <3>2, InsertNonfullInOrder DEF InsertsInOrder
      <3> HIDE DEF y
      <3> QED
        BY <1>2, <2>1, <3>1, <3>3 DEF Searchable
    <2> QED
      BY <2>3, <2>4
  <1> QED
    BY <1>1, <1>flag, <1>2 DEF Insert

\* So does deletion, unless it misplaces a key.
LEMMA DeleteKeepsOrder ==
  ASSUME WellFormed, Searchable, NEW k \in KeyValues, Delete(k)
  PROVE  Searchable'
  <1> SUFFICES ASSUME ~misplaced' PROVE Searchable'
    BY DEF Searchable
  <1> DEFINE r == btree_delete_key[height][root][k]
             x == r.node
             w == r.how
  <1>1. /\ status = "tree" /\ present' = present \ {k}
        /\ ~misplaced /\ ~Misplaces[height][root][k]
    BY DEF Delete
  <1>2. /\ height \in Nat /\ (height > 0 => Num(root) > 0)
        /\ root \in SearchTrees[height] /\ KeysIn[height][root] \subseteq present
    BY <1>1, Rooted DEF Searchable
  <1>3. w # "undefined" =>
          x \in SearchTrees[height] /\ KeysIn[height][x] = KeysIn[height][root] \ {k}
    BY <1>1, <1>2, DeleteKeyInOrder DEF DeletesInOrder
  <1>4. /\ IF Keyless(x)
           THEN root' = x.kids[1] /\ height' = height - 1
           ELSE root' = x /\ UNCHANGED height
        /\ status' = CASE w = "emptied" -> "null"
                       [] w = "undefined" -> "undefined"
                       [] OTHER -> "tree"
    BY DEF Delete
  <1> HIDE DEF w, x, r
  <1>5. SUFFICES ASSUME status' = "tree"
                 PROVE  root' \in SearchTrees[height'] /\ KeysIn[height'][root'] \subseteq present'
    BY DEF Searchable
  <1>6. w # "undefined"
    BY <1>4, <1>5
  <1>7. x \in SearchTrees[height] /\ x \in NodesAt(height) /\ KeysIn[height][x] \subseteq present'
    BY <1>1, <1>2, <1>3, <1>6, Ascends
  <1>8. CASE Keyless(x)
    <2> DEFINE g == height - 1
               c == x.kids[1]
    <2>1. root' = c /\ height' = g
      BY <1>4, <1>8
    <2>2. Num(x) = 0 /\ ~Leaf(x)
      BY <1>8 DEF Keyless
    <2>3. height > 0 /\ 1 \in 1 .. Num(x) + 1
      BY <1>2, <1>7, <2>2, IsNode
    <2>4. c \in SearchTrees[g] /\ KeysIn[g][c] \subseteq KeysIn[height][x]
      BY <1>2, <1>7, <2>3, IsSearch, Reaches
    <2> HIDE DEF g, c
    <2> QED
      BY <1>7, <2>1, <2>4
  <1>9. CASE ~Keyless(x)
    BY <1>4, <1>7, <1>9
  <1> QED
    BY <1>8, <1>9

\* What the traversal prints of such a tree, and when it says "Cannot del key".
LEMMA SearchableMeans ==
  WellFormed /\ Searchable => HoldsKeysInOrder /\ (~misplaced => CannotDelMeansAbsent)
  <1> SUFFICES ASSUME WellFormed, Searchable, status = "tree", ~misplaced
               PROVE  HoldsKeysInOrder /\ CannotDelMeansAbsent
    BY DEF HoldsKeysInOrder, CannotDelMeansAbsent
  <1>1. /\ height \in Nat /\ (height > 0 => Num(root) > 0)
        /\ root \in SearchTrees[height] /\ KeysIn[height][root] = present
    BY Rooted DEF Searchable
  <1>2. HoldsKeysInOrder
    <2> DEFINE s == KeySeq[height][root]
    <2>1. Sorted(s) /\ ToSet(s) = present
      BY <1>1, TraverseInOrder
    <2> HIDE DEF s
    <2>2. ASSUME NEW i \in 1 .. Len(s) - 1 PROVE s[i] < s[i + 1]
      <3>1. s \in Seq(KeyValues)
        BY <2>1 DEF Sorted
      <3>2. Len(s) \in Nat
        BY <3>1, Elements
      <3>3. i \in 1 .. Len(s) /\ i + 1 \in 1 .. Len(s) /\ i < i + 1
        BY <3>2
      <3> QED
        BY <2>1, <3>3 DEF Sorted
    <2> QED
      BY <2>1, <2>2 DEF HoldsKeysInOrder, s
  <1>3. CannotDelMeansAbsent
    BY <1>1, DeleteKeyInOrder DEF DeletesInOrder, CannotDelMeansAbsent
  <1> QED
    BY <1>2, <1>3

\* The empty tree is one.
LEMMA SearchableInit == Init => Searchable
  <1> SUFFICES ASSUME Init PROVE Searchable
    OBVIOUS
  <1>1. WellFormed
    BY WellFormedInit
  <1>2. root \in NodesAt(0) /\ height = 0
    BY <1>1, Rooted DEF Init
  <1>3. Num(root) = 0
    <2>1. root.keys = << >>
      BY DEF Init, EmptyLeaf
    <2> QED
      BY <2>1, EmptySeq DEF Num
  <1>4. root \in SearchTrees[0]
    <2>1. InOrder(0, root)
      BY <1>3 DEF InOrder
    <2> QED
      BY <1>2, <2>1, IsSearch
  <1>5. KeysIn[0][root] \subseteq {}
    <2> DEFINE K == {}
               h == 0
    <2>1. h \in Nat /\ root \in NodesAt(h)
      BY <1>2
    <2>2. /\ \A n \in 1 .. Num(root) : root.keys[n] \in K
          /\ h > 0 => \A n \in 1 .. Num(root) + 1 : KeysIn[h - 1][root.kids[n]] \subseteq K
      BY <1>3
    <2> HIDE DEF K, h
    <2>3. KeysIn[h][root] \subseteq K
      BY <2>1, <2>2, Within
    <2> QED
      BY <2>3 DEF K, h
  <1> QED
    BY <1>2, <1>4, <1>5 DEF Searchable

\* Every step of the program keeps it so.
LEMMA SearchableStep == WellFormed /\ Searchable /\ [Next]_vars => WellFormed' /\ Searchable'
  <1> SUFFICES ASSUME WellFormed, Searchable, [Next]_vars PROVE WellFormed' /\ Searchable'
    OBVIOUS
  <1>1. WellFormed'
    BY WellFormedStep
  <1>2. CASE UNCHANGED vars
    BY <1>1, <1>2 DEF vars, Searchable
  <1>3. ASSUME NEW k \in KeyValues, Insert(k) PROVE Searchable'
    BY <1>3, InsertKeepsOrder
  <1>4. ASSUME NEW k \in KeyValues, Delete(k) PROVE Searchable'
    BY <1>4, DeleteKeepsOrder
  <1>5. ASSUME NEW k \in KeyValues, Overrun(k) PROVE Searchable'
    BY <1>5 DEF Overrun, Searchable
  <1> QED
    BY <1>1, <1>2, <1>3, <1>4, <1>5 DEF Next

\* Lines 93-150 and 232-354: for any keys and any degree, until a deletion takes
\* its replacement from an inner node, the tree holds exactly the keys inserted
\* and not deleted, and btree_traverse prints them in ascending order.
THEOREM KeysInOrder == Spec => []HoldsKeysInOrder
  BY WellFormedInit, SearchableInit, SearchableStep, SearchableMeans, PTL DEF Spec

\* Line 284: until then "Cannot del key" is said of absent keys only.
THEOREM CannotDelUntilMisplaced == Spec => [](~misplaced => CannotDelMeansAbsent)
  BY WellFormedInit, SearchableInit, SearchableStep, SearchableMeans, PTL DEF Spec

\* In a tree of at most two levels no call that ends misplaces a key.
LEMMA LowIsOrderly ==
  ASSUME NEW h \in 0 .. 1, NEW x \in NodesAt(h), h > 0 => Num(x) > 0, NEW k \in KeyValues,
         btree_delete_key[h][x][k].how # "undefined"
  PROVE  ~Misplaces[h][x][k]
  <1>1. h \in Nat
    OBVIOUS
  <1>2. CASE h = 0
    BY <1>1, <1>2, MisplacesWhere
  <1>3. CASE h = 1
    <2>1. h > 0 /\ ~(h > 1) /\ h - 1 = 0 /\ 0 \in Nat
      BY <1>3
    <2>2. ~UsesFreedNode(x, k)
      BY <1>1, <2>1, ReadsFreed
    <2> DEFINE d == DeleteBelow(x, k)
               c == d.node.kids[d.at]
    <2>3. IsDescent(h, x, k, d)
      BY <1>1, <2>1, <2>2, Descent
    <2>4. h > 0 /\ ~Replacing(x, k) => (Misplaces[h][x][k] <=> Misplaces[h - 1][c][d.key])
      BY <1>1, MisplacesWhere
    <2> HIDE DEF d
    <2>5. d.node \in NodesAt(h) /\ d.at \in 1 .. Num(d.node) + 1 /\ d.key \in KeyValues
      BY <2>3 DEF IsDescent
    <2>6. c \in NodesAt(0)
      BY <1>1, <2>1, <2>5, Child
    <2> HIDE DEF c
    <2>7. ~Misplaces[0][c][d.key]
      BY <2>1, <2>5, <2>6, MisplacesWhere
    <2>8. CASE Replacing(x, k)
      BY <1>1, <2>1, <2>8, MisplacesWhere
    <2>9. CASE ~Replacing(x, k)
      BY <2>1, <2>4, <2>7, <2>9
    <2> QED
      BY <2>8, <2>9
  <1> QED
    BY <1>2, <1>3

\* So there no key is misplaced while the tree is defined.
Placed == status = "tree" => ~misplaced

LEMMA LowStep == WellFormed /\ Placed /\ height <= 1 /\ [Next]_vars => Placed'
  <1> SUFFICES ASSUME WellFormed, Placed, height <= 1, [Next]_vars PROVE Placed'
    OBVIOUS
  <1>1. CASE UNCHANGED vars
    BY <1>1 DEF vars, Placed
  <1>2. ASSUME NEW k \in KeyValues, Insert(k) PROVE Placed'
    BY <1>2 DEF Insert, Placed
  <1>3. ASSUME NEW k \in KeyValues, Delete(k) PROVE Placed'
    <2>1. height \in 0 .. 1 /\ root \in NodesAt(height) /\ (height > 0 => Num(root) > 0)
      BY <1>3, Rooted DEF Delete
    <2>2. btree_delete_key[height][root][k].how # "undefined" => ~Misplaces[height][root][k]
      BY <2>1, LowIsOrderly
    <2> DEFINE w == btree_delete_key[height][root][k].how
    <2>3. /\ ~misplaced /\ misplaced' = (misplaced \/ Misplaces[height][root][k])
          /\ w = "undefined" => status' = "undefined"
      BY <1>3 DEF Delete, Placed
    <2> HIDE DEF w
    <2>4. w # "undefined" => ~Misplaces[height][root][k]
      BY <2>2 DEF w
    <2> QED
      BY <2>3, <2>4 DEF Placed
  <1>4. ASSUME NEW k \in KeyValues, Overrun(k) PROVE Placed'
    BY <1>4 DEF Overrun, Placed
  <1> QED
    BY <1>1, <1>2, <1>3, <1>4 DEF Next

\* Lines 93-150 and 232-354: as long as the tree has one level or two, no key is
\* misplaced whatever the program does, so the tree holds exactly the keys
\* inserted and not deleted, in order, and "Cannot del key" is said of absent
\* keys only.
THEOREM LowTreesInOrder ==
  Spec /\ [](height <= 1) => [](Placed /\ HoldsKeysInOrder /\ CannotDelMeansAbsent)
  <1>1. Init => Placed
    BY DEF Init, Placed
  <1>2. WellFormed /\ Searchable /\ Placed => HoldsKeysInOrder /\ CannotDelMeansAbsent
    BY SearchableMeans DEF Placed, CannotDelMeansAbsent
  <1> QED
    BY <1>1, <1>2, LowStep, WellFormedInit, SearchableInit, SearchableStep, PTL DEF Spec
=============================================================================
