------------------------------- MODULE RBTree -------------------------------
(***************************************************************************)
(* The red-black tree of rbtree/rbtree.cpp, with its parent links and its  *)
(* sentinel nil; rbtree/main.cpp has the same functions, statement for     *)
(* statement. T is what the program reaches from its rbtree; cells are the *)
(* nodes malloc can return, and a cell outside T.used is free. Every       *)
(* iteration of a loop is one step, so that what the loops keep can be     *)
(* said of the states between them.                                        *)
(*                                                                         *)
(* The left and the right branches of the program's functions are mirror   *)
(* images, line by line; here they are one definition with a side.  nil    *)
(* has no children: malloc leaves them unset, and reading one of them is   *)
(* an error of the model.  A node's value travels with its key.            *)
(***************************************************************************)
EXTENDS Integers, FiniteSets

CONSTANTS Cells,     \* the nodes, numbers
          KeyValues  \* the keys a caller inserts, searches and deletes

nil == 0

\* What malloc can return is finite.
ASSUME RBAssumption ==
  Cells \subseteq Nat \ {nil} /\ IsFiniteSet(Cells) /\ KeyValues \subseteq Int \ {0}

VARIABLES T,       \* root, kid (per side), parent, color, key, used
          pc, arg, \* the function that runs and the key it was called with
          x, y, z, \* its local variables
          present  \* history: the keys inserted and not deleted since

locals == <<x, y, z>>
vars   == <<T, pc, arg, locals, present>>

Sides    == {"left", "right"}
Other(s) == IF s = "left" THEN "right" ELSE "left"
Nodes    == Cells \cup {nil}
NoKey    == 0  \* what the key of a free cell is taken to be

Init ==
  /\ T = [root |-> nil, used |-> {},
          kid    |-> [s \in Sides |-> [c \in Cells |-> nil]],
          parent |-> [c \in Nodes |-> nil],
          color  |-> [c \in Nodes |-> "black"],
          key    |-> [c \in Cells |-> NoKey]]
  /\ pc = "idle" /\ arg = NoKey
  /\ x = nil /\ y = nil /\ z = nil
  /\ present = {}

Return  == pc' = "idle" /\ arg' = NoKey /\ x' = nil /\ y' = nil /\ z' = nil
Hangs(h, c) == IF h.kid["left"][h.parent[c]] = c THEN "left" ELSE "right"

\* The place of c in the tree is given to d; d's parent is not changed.
Replace(h, c, d) ==
  IF h.parent[c] = nil THEN [h EXCEPT !.root = d]
  ELSE [h EXCEPT !.kid[Hangs(h, c)][h.parent[c]] = d]

\* Mutant: the subtree that changes sides keeps its parent.
RotateKeepsParent(h, s, c) ==
  LET up == h.kid[Other(s)][c]
      g == Replace(h, c, up)
  IN [g EXCEPT !.kid[Other(s)][c] = h.kid[s][up], !.kid[s][up] = c,
               !.parent[up] = h.parent[c], !.parent[c] = up]

\* rbtree_left_rotate and rbtree_right_rotate.
rotate(h, s, c) ==
  LET up   == h.kid[Other(s)][c]
      over == h.kid[s][up]
      g == Replace(h, c, up)
  IN [g EXCEPT !.kid[Other(s)][c] = over, !.kid[s][up] = c,
               !.parent = [d \in Nodes |->
                  CASE d = over /\ over # nil -> c
                    [] d = up -> h.parent[c]
                    [] d = c  -> up
                    [] OTHER  -> @[d]]]
-----------------------------------------------------------------------------
(* rbtree_insert *)

\* The caller has allocated a node for the key.
Insert(k) ==
  /\ pc = "idle"
  /\ z' \in Cells \ T.used
  /\ pc' = "descend" /\ arg' = k
  /\ x' = T.root /\ y' = nil
  /\ UNCHANGED <<T, present>>

\* A key that is present is not inserted again.
Descend ==
  /\ pc = "descend" /\ x # nil
  /\ \/ /\ T.key[x] # arg
        /\ y' = x
        /\ x' = T.kid[IF arg < T.key[x] THEN "left" ELSE "right"][x]
        /\ UNCHANGED <<pc, arg, z>>
     \/ T.key[x] = arg /\ Return
  /\ UNCHANGED <<T, present>>

Link ==
  /\ pc = "descend" /\ x = nil
  /\ LET h == IF y = nil THEN [T EXCEPT !.root = z]
              ELSE [T EXCEPT !.kid[IF arg < T.key[y] THEN "left" ELSE "right"][y] = z]
     IN T' = [h EXCEPT !.used = @ \cup {z}, !.parent[z] = y,
                       !.key[z] = arg, !.color[z] = "red"]
  /\ present' = present \cup {arg}
  /\ pc' = "insertFixup"
  /\ UNCHANGED <<arg, x, y, z>>

\* An iteration of rbtree_insert_fixup: the uncle is red, or one or two
\* rotations end it.
InsertFixup ==
  /\ pc = "insertFixup" /\ T.color[T.parent[z]] = "red"
  /\ LET p == T.parent[z]  g == T.parent[p]
         s == Hangs(T, p)  uncle == T.kid[Other(s)][g]
     IN \/ /\ T.color[uncle] = "red"
           /\ T' = [T EXCEPT !.color[p] = "black", !.color[uncle] = "black", !.color[g] = "red"]
           /\ z' = g
        \/ /\ T.color[uncle] = "black"
           /\ LET inner == Hangs(T, z) # s
                  h == IF inner THEN rotate(T, s, p) ELSE T
                  q == IF inner THEN z ELSE p
              IN /\ T' = rotate([h EXCEPT !.color[q] = "black", !.color[g] = "red"], Other(s), g)
                 /\ z' = IF inner THEN p ELSE z
  /\ UNCHANGED <<pc, arg, x, y, present>>

InsertReturns ==
  /\ pc = "insertFixup" /\ T.color[T.parent[z]] = "black"
  /\ T' = [T EXCEPT !.color[T.root] = "black"]
  /\ Return
  /\ UNCHANGED present
-----------------------------------------------------------------------------
(* rbtree_search and rbtree_delete *)

\* The caller looks for the key and deletes the node it gets, if any.
Delete(k) ==
  /\ pc = "idle"
  /\ pc' = "search" /\ arg' = k
  /\ x' = T.root
  /\ UNCHANGED <<T, y, z, present>>

\* Found, rbtree_delete is called with the node: y is the node to take out,
\* z itself or its successor.
Search ==
  /\ pc = "search"
  /\ \/ /\ x # nil /\ T.key[x] # arg
        /\ x' = T.kid[IF arg < T.key[x] THEN "left" ELSE "right"][x]
        /\ UNCHANGED <<pc, arg, y, z>>
     \/ x = nil /\ Return
     \/ /\ x # nil /\ T.key[x] = arg
        /\ z' = x /\ x' = nil
        /\ \/ /\ \E s \in Sides : T.kid[s][x] = nil
              /\ y' = x /\ pc' = "splice"
           \/ /\ \A s \in Sides : T.kid[s][x] # nil
              /\ y' = T.kid["right"][x] /\ pc' = "successor"
        /\ UNCHANGED arg
  /\ UNCHANGED <<T, present>>

\* Mutant: the loop does not move down.
SuccessorStays ==
  /\ pc = "successor"
  /\ IF T.kid["left"][y] # nil THEN UNCHANGED <<y, pc>> ELSE pc' = "splice" /\ UNCHANGED y
  /\ UNCHANGED <<T, arg, x, z, present>>

\* find_min.
Successor ==
  /\ pc = "successor"
  /\ IF T.kid["left"][y] # nil
     THEN y' = T.kid["left"][y] /\ UNCHANGED pc
     ELSE pc' = "splice" /\ UNCHANGED y
  /\ UNCHANGED <<T, arg, x, z, present>>

\* y leaves the tree, its only child takes its place, nil too, and the caller
\* frees it.
Splice ==
  /\ pc = "splice"
  /\ LET only == IF T.kid["left"][y] # nil THEN T.kid["left"][y] ELSE T.kid["right"][y]
         h == [Replace(T, y, only) EXCEPT !.parent[only] = T.parent[y],
                                          !.key[z] = T.key[y]]
     IN /\ T' = [h EXCEPT !.used = @ \ {y}, !.key[y] = NoKey, !.parent[y] = nil,
                          !.color[y] = "black",
                          !.kid["left"][y] = nil, !.kid["right"][y] = nil]
        /\ IF T.color[y] = "black"
           THEN x' = only /\ pc' = "deleteFixup" /\ y' = nil /\ z' = nil /\ UNCHANGED arg
           ELSE Return
  /\ present' = present \ {arg}

\* Mutant: a sibling with a red inner child is not rotated first.
FixNearForgotten(h, s, p) ==
  LET far == h.kid[Other(s)][h.kid[Other(s)][p]]
      w   == h.kid[Other(s)][p]
  IN rotate([h EXCEPT !.color[w] = h.color[p], !.color[p] = "black", !.color[far] = "black"], s, p)

\* The sibling w has a red child: one or two rotations at parent p.
FixRedNephew(h, s, p) ==
  LET o  == Other(s)
      w0 == h.kid[o][p]
      g  == IF h.color[h.kid[o][w0]] = "black"
            THEN rotate([h EXCEPT !.color[h.kid[s][w0]] = "black", !.color[w0] = "red"], o, w0)
            ELSE h
      w  == g.kid[o][p]
  IN rotate([g EXCEPT !.color[w] = g.color[p], !.color[p] = "black",
                      !.color[g.kid[o][w]] = "black"], s, p)

\* A red sibling is rotated above its parent first.
FixRedSibling(h, s, p) ==
  LET w == h.kid[Other(s)][p]
  IN IF h.color[w] = "red"
     THEN rotate([h EXCEPT !.color[w] = "black", !.color[p] = "red"], s, p)
     ELSE h

\* An iteration of rbtree_delete_fixup.
DeleteFixup ==
  /\ pc = "deleteFixup" /\ x # T.root /\ T.color[x] = "black"
  /\ LET p == T.parent[x]
         s == Hangs(T, x)
         h == FixRedSibling(T, s, p)
         w == h.kid[Other(s)][p]
     IN \/ /\ \A side \in Sides : h.color[h.kid[side][w]] = "black"
           /\ T' = [h EXCEPT !.color[w] = "red"]
           /\ x' = p
        \/ /\ \E side \in Sides : h.color[h.kid[side][w]] = "red"
           /\ T' = FixRedNephew(h, s, p)
           /\ x' = T'.root
  /\ UNCHANGED <<pc, arg, y, z, present>>

DeleteReturns ==
  /\ pc = "deleteFixup" /\ (x = T.root \/ T.color[x] = "red")
  /\ T' = [T EXCEPT !.color[x] = "black"]
  /\ Return
  /\ UNCHANGED present
-----------------------------------------------------------------------------
Call == \E k \in KeyValues : Insert(k) \/ Delete(k)

Work ==
  \/ Descend \/ Link \/ InsertFixup \/ InsertReturns
  \/ Search \/ Successor \/ Splice \/ DeleteFixup \/ DeleteReturns

Next == Call \/ Work

Spec == Init /\ [][Next]_vars

(* A function that was called runs on. *)
FairSpec == Spec /\ WF_vars(Work)
-----------------------------------------------------------------------------
\* The cells that hang under c, c among them, to a depth of n.
Under[n \in 0 .. Cardinality(Cells)] ==
  [c \in Nodes |->
     IF c = nil \/ n = 0 THEN {}
     ELSE {c} \cup Under[n - 1][T.kid["left"][c]] \cup Under[n - 1][T.kid["right"][c]]]

Below(c)  == Under[Cardinality(Cells)][c]
KeysOf(S) == {T.key[c] : c \in S}

\* The numbers of black nodes that paths from c down to nil have; in a
\* deletion the link to x counts as one more.
Black(c)    == IF T.color[c] = "black" THEN 1 ELSE 0
Extra(c, s) == IF pc = "deleteFixup" /\ T.parent[x] = c /\ T.kid[s][c] = x /\ Hangs(T, x) = s
               THEN 1 ELSE 0
BlackHeights[n \in 0 .. Cardinality(Cells)] ==
  [c \in Nodes |->
     IF c = nil \/ n = 0 THEN {0}
     ELSE UNION {{Black(c) + Extra(c, s) + b : b \in BlackHeights[n - 1][T.kid[s][c]]} : s \in Sides}]

TypeOK ==
  /\ T.root \in Nodes /\ T.used \subseteq Cells
  /\ T.kid \in [Sides -> [Cells -> Nodes]] /\ T.parent \in [Nodes -> Nodes]
  /\ T.color \in [Nodes -> {"red", "black"}] /\ T.key \in [Cells -> KeyValues \cup {NoKey}]
  /\ \A c \in T.used : T.key[c] # NoKey
  /\ pc \in {"idle", "descend", "insertFixup", "search", "successor", "splice", "deleteFixup"}
  /\ arg \in KeyValues \cup {NoKey}
  /\ x \in Nodes /\ y \in Nodes /\ z \in Nodes /\ present \subseteq KeyValues

\* Lines 59-100 and 251-284: between any two iterations the tree hangs
\* together: the nodes reached from the root are those allocated, none twice,
\* and each one's children point back at it.
WellLinked ==
  /\ Below(T.root) = T.used
  /\ T.root # nil => T.parent[T.root] = nil
  /\ \A c \in T.used :
       /\ \A s \in Sides : T.kid[s][c] # nil => T.parent[T.kid[s][c]] = c
       /\ Below(T.kid["left"][c]) \cap Below(T.kid["right"][c]) = {}

\* Lines 144-170 and 251-302: every key on the left of a node is smaller, on
\* the right greater, also in the middle of a fixup.
Ordered ==
  \A c \in T.used :
    /\ \A k \in KeysOf(Below(T.kid["left"][c])) : k < T.key[c]
    /\ \A k \in KeysOf(Below(T.kid["right"][c])) : k > T.key[c]

\* Lines 102-142 and 181-249: no red node has a red child, and every path has
\* as many black nodes as any other.  In the middle of an insertion only z may
\* be a red child of a red node or a red root; in a deletion x stands for one
\* black node more, and may be red itself.
RedBlack ==
  /\ T.color[nil] = "black"
  /\ \A c \in T.used :
       /\ Cardinality(BlackHeights[Cardinality(Cells)][c]) = 1
       /\ T.color[c] = "red" /\ T.color[T.parent[c]] = "red"
             => (pc = "insertFixup" /\ c = z) \/ (pc = "deleteFixup" /\ x \in {c, T.parent[c]})
  /\ T.color[T.root] = "red" => (pc = "insertFixup" /\ z = T.root)
                                  \/ (pc = "deleteFixup" /\ x = T.root)

\* Lines 148-157, 269-287 and 289-302: the tree holds the keys inserted and
\* not deleted, and while a function looks for one of them it is below x.
HoldsKeys ==
  /\ KeysOf(T.used) = present /\ Cardinality(T.used) = Cardinality(present)
  /\ pc \in {"search", "descend"} /\ arg \in present => arg \in KeysOf(Below(x))

\* The four of them: a search tree, before and after every iteration of every
\* loop, of exactly the keys it should hold.
WellFormed == TypeOK /\ WellLinked /\ Ordered /\ HoldsKeys

\* Lines 107-141 and 183-246: every call returns: the fixup loops end.
CallsReturn == pc # "idle" ~> pc = "idle"
=============================================================================
