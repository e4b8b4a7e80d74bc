--------------------------- MODULE RBTree_proofs ----------------------------
(***************************************************************************)
(* What is proved of the red-black tree, for any cells and keys:           *)
(* WellFormed and RedBlack, in every state between two iterations.         *)
(*                                                                         *)
(* Both speak of recursive functions, Under and BlackHeights, and a step   *)
(* says nothing of those.  The invariant that is inductive, IndInv, has    *)
(* instead a set B[c] of what hangs under each node (Spans) and a height   *)
(* H[c] (Balanced), which say of a node and its children what the          *)
(* functions compute, and for each function where its variables are        *)
(* (OnTheWay) and which node may have a wrong colour (Painted).            *)
(*                                                                         *)
(* In order: what a rotation does to B; what each case of the two fixups   *)
(* does to the colours and H; a node linked in and one taken out; the      *)
(* actions; that Under is B and BlackHeights is H, by the least number     *)
(* for which it would not be; the theorems.                                *)
(***************************************************************************)
EXTENDS RBTree, FiniteSetTheorems, FunctionTheorems, WellFoundedInduction, TLAPS

\* What T can be, whatever its links.
Trees == [root : Nodes, used : SUBSET Cells, kid : [Sides -> [Cells -> Nodes]],
          parent : [Nodes -> Nodes], color : [Nodes -> {"red", "black"}],
          key : [Cells -> KeyValues \cup {NoKey}]]

\* B is what hangs under each node: a node and, apart from each other, what
\* hangs under its children, whose parent it is; all of it under the root.
Spans(h, B) ==
  /\ B \in [Nodes -> SUBSET h.used] /\ B[nil] = {}
  /\ h.root \in h.used \cup {nil} /\ B[h.root] = h.used
  /\ h.root # nil => h.parent[h.root] = nil
  /\ \A c \in h.used :
       /\ \A s \in Sides : /\ h.kid[s][c] \in h.used \cup {nil}
                           /\ c \notin B[h.kid[s][c]]
                           /\ h.kid[s][c] # nil => h.parent[h.kid[s][c]] = c
       /\ \A d : d \in B[c] <=> d = c \/ d \in B[h.kid["left"][c]] \/ d \in B[h.kid["right"][c]]
       /\ \A d \in B[h.kid["left"][c]] : d \notin B[h.kid["right"][c]]
       /\ c # h.root => h.parent[c] \in h.used /\ h.kid[Hangs(h, c)][h.parent[c]] = c
       /\ \A d \in B[c] : B[d] \subseteq B[c] /\ (d # c => h.parent[d] \in B[c])

\* j comes before k, going down on side s.
Before(s, j, k) == IF s = "left" THEN j < k ELSE j > k

\* Under a node's child on either side there are only keys of that side.
Sorted(h, B) ==
  \A c \in h.used, s \in Sides : \A d \in B[h.kid[s][c]] : Before(s, h.key[d], h.key[c])

\* What the links of two neighbours tell, without B.
Linked(h) ==
  /\ h.root \in h.used \cup {nil}
  /\ h.root # nil => h.parent[h.root] = nil
  /\ \A c \in h.used :
       /\ \A s \in Sides :
            /\ h.kid[s][c] \in h.used \cup {nil} /\ h.kid[s][c] # c
            /\ h.kid[s][c] # nil => /\ h.parent[h.kid[s][c]] = c /\ h.kid[s][c] # h.kid[Other(s)][c]
                                    /\ h.kid[s][c] # h.root /\ Hangs(h, h.kid[s][c]) = s
                                    /\ \A t \in Sides : h.kid[t][h.kid[s][c]] # c
       /\ h.parent[c] # c
       /\ c # h.root => h.parent[c] \in h.used /\ h.kid[Hangs(h, c)][h.parent[c]] = c

\* Left and right are each other's other side.
LEMMA SidesFacts ==
  /\ "left" \in Sides /\ "right" \in Sides /\ "left" # "right"
  /\ \A s \in Sides : /\ Other(s) \in Sides /\ Other(s) # s /\ Other(Other(s)) = s
                      /\ \A t \in Sides : t = s \/ t = Other(s)
  /\ \A h, c : Hangs(h, c) \in Sides
  BY DEF Sides, Other, Hangs

\* The links of neighbours, from what hangs under each node.
LEMMA SpansLinked ==
  ASSUME NEW h \in Trees, NEW B, Spans(h, B) PROVE Linked(h)
  <1>0. h.used \subseteq Cells /\ nil \notin h.used
    BY RBAssumption DEF Trees
  <1>1. h.root \in h.used \cup {nil} /\ (h.root # nil => h.parent[h.root] = nil)
    BY DEF Spans
  <1>2. ASSUME NEW c \in h.used, NEW s \in Sides, h.kid[s][c] # nil
        PROVE  /\ h.parent[h.kid[s][c]] = c /\ h.kid[s][c] # h.kid[Other(s)][c]
               /\ h.kid[s][c] # h.root /\ Hangs(h, h.kid[s][c]) = s
               /\ \A t \in Sides : h.kid[t][h.kid[s][c]] # c
    <2> DEFINE k == h.kid[s][c]
    <2>1. k \in h.used /\ h.parent[k] = c /\ c \notin B[k]
      BY <1>2 DEF Spans
    <2>2. k # h.kid[Other(s)][c]
      <3>1. k \in B[k] /\ h.kid["left"][c] \in h.used \cup {nil}
        BY <2>1 DEF Spans, Sides
      <3>2. \A d \in B[h.kid["left"][c]] : d \notin B[h.kid["right"][c]]
        BY DEF Spans
      <3> QED
        BY <3>1, <3>2 DEF Sides, Other
    <2>3. k # h.root
      BY <1>0, <2>1 DEF Spans
    <2>4. Hangs(h, k) = s
      BY <2>1, <2>2 DEF Hangs, Sides, Other
    <2>5. ASSUME NEW t \in Sides PROVE h.kid[t][k] # c
      <3>1. c \in B[c]
        BY DEF Spans
      <3>2. \A d \in B[h.kid[t][k]] : d \in B[k]
        BY <2>1 DEF Spans, Sides
      <3> QED
        BY <2>1, <3>1, <3>2
    <2> QED
      BY <2>1, <2>2, <2>3, <2>4, <2>5
  <1>3. ASSUME NEW c \in h.used PROVE c \in B[c] /\ \A s \in Sides : h.kid[s][c] # c
    BY DEF Spans
  <1>4. ASSUME NEW c \in h.used, c # h.root PROVE h.parent[c] # c
    <2>1. h.parent[c] \in h.used /\ h.kid[Hangs(h, c)][h.parent[c]] = c
      BY <1>4 DEF Spans
    <2> QED
      BY <1>3, <2>1, SidesFacts
  <1>5. \A c \in h.used : h.parent[c] # c
    BY <1>0, <1>1, <1>4
  <1>6. \A c \in h.used : c # h.root => h.parent[c] \in h.used /\ h.kid[Hangs(h, c)][h.parent[c]] = c
    BY DEF Spans
  <1>7. \A c \in h.used, s \in Sides : h.kid[s][c] \in h.used \cup {nil}
    BY DEF Spans
  <1> QED
    BY <1>1, <1>2, <1>3, <1>5, <1>6, <1>7 DEF Linked

\* What a rotation does to the fields of the tree.
Rotated(h, s, c, g) ==
  LET up   == h.kid[Other(s)][c]
      over == h.kid[s][up]
  IN /\ g \in Trees /\ g.used = h.used /\ g.color = h.color /\ g.key = h.key
     /\ g.root = IF h.parent[c] = nil THEN up ELSE h.root
     /\ \A d \in Nodes : g.parent[d] = IF d = over /\ over # nil THEN c
                                       ELSE IF d = up THEN h.parent[c]
                                       ELSE IF d = c THEN up ELSE h.parent[d]
     /\ \A t \in Sides, d \in Cells :
          g.kid[t][d] = IF d = c /\ t = Other(s) THEN over
                        ELSE IF d = up /\ t = s THEN c
                        ELSE IF d = h.parent[c] /\ t = Hangs(h, c) THEN up
                        ELSE h.kid[t][d]

\* One child link is set, and nothing else.
LEMMA SetKid ==
  ASSUME NEW h \in Trees, NEW s \in Sides, NEW c \in Cells, NEW d \in Nodes,
         NEW g, g = [h EXCEPT !.kid[s][c] = d]
  PROVE  /\ g \in Trees /\ g.used = h.used /\ g.color = h.color /\ g.key = h.key /\ g.root = h.root
         /\ g.parent = h.parent
         /\ \A t \in Sides, e \in Cells :
              g.kid[t][e] = IF t = s /\ e = c THEN d ELSE h.kid[t][e]
  BY DEF Trees

\* Cells are nodes, nil is not a cell, keys are integers.
LEMMA NodeFacts ==
  /\ nil \in Nodes /\ nil \notin Cells /\ Cells \subseteq Nodes
  /\ \A c \in Nodes : c # nil => c \in Cells
  /\ \A h \in Trees : /\ \A c \in Nodes : h.parent[c] \in Nodes
                      /\ \A s \in Sides, c \in Cells : h.kid[s][c] \in Nodes
                      /\ h.used \subseteq Cells /\ nil \notin h.used
                      /\ \A c \in Cells : h.key[c] \in Int
  <1>1. nil \in Nodes /\ nil \notin Cells /\ Cells \subseteq Nodes /\ \A c \in Nodes : c # nil => c \in Cells
    BY RBAssumption DEF Nodes
  <1>2. KeyValues \cup {NoKey} \subseteq Int
    BY RBAssumption DEF NoKey
  <1> QED
    BY <1>1, <1>2 DEF Trees

\* rotate changes the fields as Rotated says.
LEMMA RotateEffect ==
  ASSUME NEW h \in Trees, NEW s \in Sides, NEW c \in Cells, h.kid[Other(s)][c] \in Cells,
         h.kid[Other(s)][c] # c, h.parent[c] # c, h.parent[c] # h.kid[Other(s)][c],
         \A t \in Sides : h.kid[t][h.kid[Other(s)][c]] \notin {c, h.kid[Other(s)][c]}
  PROVE  Rotated(h, s, c, rotate(h, s, c))
  <1> DEFINE o == Other(s)
             up == h.kid[o][c]
             over == h.kid[s][up]
             p == h.parent[c]
             q == Hangs(h, c)
             f == Replace(h, c, up)
             g == rotate(h, s, c)
             par == [d \in Nodes |-> CASE d = over /\ over # nil -> c
                    [] d = up -> h.parent[c]
                    [] d = c  -> up
                    [] OTHER  -> h.parent[d]]
  <1>0. /\ c \in Nodes /\ up \in Nodes /\ over \in Nodes /\ p \in Nodes /\ nil \in Nodes
        /\ o \in Sides /\ q \in Sides /\ o # s /\ c # nil /\ up # nil
    BY SidesFacts, NodeFacts
  <1>1. f = IF p = nil THEN [h EXCEPT !.root = up] ELSE [h EXCEPT !.kid[q][p] = up]
    BY DEF Replace
  <1>2. f \in Trees /\ f.parent = h.parent /\ f.used = h.used /\ f.color = h.color /\ f.key = h.key
        /\ f.root = (IF p = nil THEN up ELSE h.root)
        /\ \A t \in Sides, d \in Cells : f.kid[t][d] = IF d = p /\ t = q THEN up ELSE h.kid[t][d]
    <2> HIDE DEF f, p, q, up
    <2>1. CASE p = nil
      BY <1>0, <1>1, <2>1, NodeFacts DEF Trees
    <2>2. CASE p # nil
      <3>1. p \in Cells
        BY <1>0, <2>2, NodeFacts
      <3> QED
        BY <1>0, <1>1, <2>2, <3>1, SetKid
    <2> QED
      BY <2>1, <2>2
  <1>4. g = [f EXCEPT !.kid[o][c] = over, !.kid[s][up] = c,
               !.parent = [d \in Nodes |->
                  CASE d = over /\ over # nil -> c
                    [] d = up -> h.parent[c]
                    [] d = c  -> up
                    [] OTHER  -> f.parent[d]]]
    BY DEF rotate
  <1>5. g = [f EXCEPT !.kid[o][c] = over, !.kid[s][up] = c, !.parent = par]
    BY <1>2, <1>4
  <1> HIDE DEF f
  <1>a. \A d \in Nodes : h.parent[d] \in Nodes
    BY NodeFacts
  <1>b. over \notin {up, c} /\ up # c
    BY <1>0
  <1> HIDE DEF over, up, p, q, o
  <1>7. \A d \in Nodes : par[d] = IF d = over /\ over # nil THEN c
                                       ELSE IF d = up THEN h.parent[c]
                                       ELSE IF d = c THEN up ELSE h.parent[d]
    BY <1>b
  <1>6. par \in [Nodes -> Nodes]
    BY <1>0, <1>a, <1>b
  <1> HIDE DEF par, g, f
  <1>8. g = [f EXCEPT !.kid = [f.kid EXCEPT ![o][c] = over, ![s][up] = c], !.parent = par]
    BY <1>0, <1>2, <1>5 DEF Trees
  <1> DEFINE kids == [f.kid EXCEPT ![o][c] = over, ![s][up] = c]
  <1>9. kids \in [Sides -> [Cells -> Nodes]]
    BY <1>0, <1>2 DEF Trees
  <1>10. \A t \in Sides, d \in Cells : kids[t][d] = IF d = c /\ t = o THEN over
                                     ELSE IF d = up /\ t = s THEN c ELSE f.kid[t][d]
    BY <1>0, <1>2 DEF Trees
  <1>c. g = [f EXCEPT !.kid = kids, !.parent = par]
    BY <1>8
  <1> HIDE DEF kids
  <1>11. g \in Trees /\ g.used = f.used /\ g.color = f.color /\ g.key = f.key /\ g.root = f.root
         /\ g.kid = kids /\ g.parent = par
    <2>1. f \in Trees
      BY <1>2
    <2> QED
      BY ONLY <1>6, <1>9, <1>c, <2>1 DEF Trees
  <1>12. \A t \in Sides, d \in Cells : g.kid[t][d] = IF d = c /\ t = o THEN over
                                     ELSE IF d = up /\ t = s THEN c
                        ELSE IF d = p /\ t = q THEN up ELSE h.kid[t][d]
    BY <1>2, <1>10, <1>11
  <1> QED
    BY <1>2, <1>7, <1>11, <1>12 DEF Rotated, g, p, q, o, up, over
\* Before is an order, and the other side turns it round.
LEMMA BeforeFacts ==
  ASSUME NEW s \in Sides, NEW i \in Int, NEW j \in Int
  PROVE  /\ Before(s, i, j) <=> Before(Other(s), j, i)
         /\ \A k \in Int : Before(s, i, j) /\ Before(s, j, k) => Before(s, i, k)
  BY DEF Sides, Before, Other

\* Spans, of either side.
LEMMA SpansSides ==
  ASSUME NEW h \in Trees, NEW B, Spans(h, B), NEW c \in h.used, NEW s \in Sides
  PROVE  /\ c \in Cells /\ c # nil /\ c \in B[c] /\ B[c] \subseteq h.used
         /\ h.kid[s][c] \in h.used \cup {nil} /\ c \notin B[h.kid[s][c]]
         /\ B[h.kid[s][c]] \subseteq h.used
         /\ h.kid[s][c] # nil => h.parent[h.kid[s][c]] = c
         /\ \A d : d \in B[c] <=> d = c \/ d \in B[h.kid[s][c]] \/ d \in B[h.kid[Other(s)][c]]
         /\ \A d \in B[h.kid[s][c]] : d \notin B[h.kid[Other(s)][c]]
  <1>1. c \in Cells /\ c # nil /\ h.used \subseteq Nodes /\ nil \in Nodes
    BY NodeFacts
  <1>2. h.kid[s][c] \in h.used \cup {nil} /\ c \notin B[h.kid[s][c]]
        /\ (h.kid[s][c] # nil => h.parent[h.kid[s][c]] = c)
    BY DEF Spans
  <1>3. B[c] \subseteq h.used /\ B[h.kid[s][c]] \subseteq h.used
    BY <1>1, <1>2 DEF Spans
  <1>4. /\ \A d : d \in B[c] <=> d = c \/ d \in B[h.kid["left"][c]] \/ d \in B[h.kid["right"][c]]
        /\ \A d \in B[h.kid["left"][c]] : d \notin B[h.kid["right"][c]]
    BY DEF Spans
  <1>5. (s = "left" /\ Other(s) = "right") \/ (s = "right" /\ Other(s) = "left")
    BY DEF Sides, Other
  <1> QED
    BY <1>1, <1>2, <1>3, <1>4, <1>5

\* A child is below its parent, and what is below it too.
LEMMA SpansDown ==
  ASSUME NEW h \in Trees, NEW B, Spans(h, B), NEW c \in h.used, NEW d \in B[c]
  PROVE  d \in h.used /\ B[d] \subseteq B[c] /\ (d # c => h.parent[d] \in B[c])
  BY SpansSides, SidesFacts DEF Spans

\* A rotation keeps what hangs under every node but the two that turn, and the
\* order: over, which changes sides, is between them.
LEMMA RotateSpans ==
  ASSUME NEW h \in Trees, NEW B, Spans(h, B), NEW s \in Sides, NEW c \in h.used,
         h.kid[Other(s)][c] # nil, NEW g, Rotated(h, s, c, g)
  PROVE  \E B2 : Spans(g, B2) /\ (Sorted(h, B) => Sorted(g, B2))
  <1> DEFINE o == Other(s)
             up == h.kid[o][c]
             a == h.kid[s][c]
             over == h.kid[s][up]
             far == h.kid[o][up]
             p == h.parent[c]
             q == Hangs(h, c)
             B2 == [d \in Nodes |-> IF d = up THEN B[c]
                                    ELSE IF d = c THEN {c} \cup B[a] \cup B[over] ELSE B[d]]
             inner == {c} \cup B[a] \cup B[over]
  <1>1. /\ o \in Sides /\ q \in Sides /\ o # s /\ \A t \in Sides : t = s \/ t = o
        /\ Other(o) = s
    BY SidesFacts
  <1>2. /\ nil \in Nodes /\ h.used \subseteq Cells /\ h.used \subseteq Nodes /\ nil \notin h.used
        /\ c \in Cells
    BY NodeFacts
  <1>3. /\ up \in h.used /\ up # c /\ a \in h.used \cup {nil} /\ over \in h.used \cup {nil}
        /\ far \in h.used \cup {nil} /\ h.parent[up] = c
        /\ (a # nil => h.parent[a] = c) /\ (over # nil => h.parent[over] = up)
        /\ (far # nil => h.parent[far] = up)
    BY <1>1, SpansSides
  <1>4. /\ \A d : d \in B[c] <=> d = c \/ d \in B[a] \/ d \in B[up]
        /\ \A d \in B[a] : d \notin B[up]
        /\ c \notin B[a] /\ c \notin B[up]
        /\ \A d : d \in B[up] <=> d = up \/ d \in B[over] \/ d \in B[far]
        /\ \A d \in B[over] : d \notin B[far]
        /\ up \notin B[over] /\ up \notin B[far]
    <2>1. /\ \A d : d \in B[c] <=> d = c \/ d \in B[a] \/ d \in B[up]
          /\ \A d \in B[a] : d \notin B[up]
          /\ c \notin B[a]
      BY SpansSides
    <2>2. c \notin B[up]
      BY <1>1, SpansSides
    <2>3. /\ \A d : d \in B[up] <=> d = up \/ d \in B[over] \/ d \in B[far]
          /\ \A d \in B[over] : d \notin B[far]
          /\ up \notin B[over]
      BY <1>3, SpansSides
    <2>4. up \notin B[far]
      BY <1>1, <1>3, SpansSides
    <2> QED
      BY <2>1, <2>2, <2>3, <2>4
  <1>5. /\ B[nil] = {} /\ (a # nil => a \in B[a]) /\ (over # nil => over \in B[over])
        /\ (far # nil => far \in B[far]) /\ B[c] \subseteq h.used /\ inner \subseteq h.used
    <2>1. B[nil] = {}
      BY DEF Spans
    <2>2. \A d \in h.used : d \in B[d] /\ B[d] \subseteq h.used
      BY SpansSides
    <2> HIDE DEF a, over, far
    <2> QED
      BY <1>3, <2>1, <2>2
  <1>6. /\ p # c /\ p # up /\ (p = nil <=> c = h.root) /\ (p # nil => p \in h.used /\ h.kid[q][p] = c)
    BY <1>1, <1>2, <1>3, SpansLinked DEF Linked
  <1>7. /\ B2[up] = B[c] /\ B2[c] = inner /\ \A d \in Nodes : d # up /\ d # c => B2[d] = B[d]
        /\ B2 \in [Nodes -> SUBSET h.used]
    BY <1>2, <1>3, <1>5 DEF Spans
  <1>8. /\ g.used = h.used /\ g.key = h.key /\ g.root = IF p = nil THEN up ELSE h.root
        /\ \A d \in h.used : g.parent[d] = IF d = over THEN c ELSE IF d = up THEN p
                                       ELSE IF d = c THEN up ELSE h.parent[d]
        /\ \A t \in Sides, d \in h.used :
             g.kid[t][d] = IF d = c /\ t = o THEN over
                           ELSE IF d = up /\ t = s THEN c
                           ELSE IF d = p /\ t = q THEN up ELSE h.kid[t][d]
    BY <1>2 DEF Rotated
  <1>9. \A d \in h.used : /\ d \in B[d] /\ B[d] \subseteq h.used
                          /\ \A t \in Sides : /\ h.kid[t][d] \in h.used \cup {nil}
                                              /\ h.kid[t][d] # nil => h.parent[h.kid[t][d]] = d
                          /\ \A e \in B[d] : e \in h.used /\ B[e] \subseteq B[d] /\ (e # d => h.parent[e] \in B[d])
    BY SpansSides, SpansDown, SidesFacts
  <1> HIDE DEF o, up, a, over, far, p, q, B2
  <1>10. g.kid[s][c] = a /\ g.kid[o][c] = over /\ g.kid[s][up] = c /\ g.kid[o][up] = far
    BY <1>1, <1>3, <1>6, <1>8 DEF a, far
  <1>11. ASSUME NEW d \in h.used, d # c, d # up, NEW t \in Sides
         PROVE  /\ B2[d] = B[d] /\ B2[g.kid[t][d]] = B[h.kid[t][d]]
                /\ g.kid[t][d] \in h.used \cup {nil} /\ (g.kid[t][d] # nil => g.parent[g.kid[t][d]] = d)
    <2>1. h.kid[t][d] # up
      BY <1>2, <1>3, <1>9, <1>11
    <2>2. CASE h.kid[t][d] = c
      <3>1. d = p
        BY <1>2, <1>9, <2>2 DEF p
      <3>2. t = q
        <4>1. h.kid[Other(t)][d] # c
          BY <1>2, <2>2, SpansLinked DEF Linked
        <4> QED
          BY <1>1, <1>2, <1>6, <3>1, <4>1, SidesFacts
      <3>3. g.kid[t][d] = up
        BY <1>8, <1>11, <3>1, <3>2
      <3> QED
        BY <1>2, <1>3, <1>7, <1>8, <1>11, <2>2, <3>1, <3>3, <1>5
    <2>3. CASE h.kid[t][d] # c
      <3>1. g.kid[t][d] = h.kid[t][d]
        BY <1>2, <1>6, <1>8, <1>11, <2>3
      <3> QED
        BY <1>2, <1>3, <1>7, <1>8, <1>9, <1>11, <2>1, <2>3, <3>1
    <2> QED
      BY <2>2, <2>3
  <1>12. Spans(g, B2)
    <2>1. B2 \in [Nodes -> SUBSET g.used] /\ B2[nil] = {}
      BY <1>2, <1>3, <1>5, <1>7, <1>8
    <2>2. g.root \in g.used \cup {nil} /\ B2[g.root] = g.used /\ (g.root # nil => g.parent[g.root] = nil)
      <3>0. h.root \in h.used \cup {nil} /\ B[h.root] = h.used /\ (h.root # nil => h.parent[h.root] = nil)
        BY DEF Spans
      <3>1. CASE p = nil
        BY <1>3, <1>5, <1>6, <1>7, <1>8, <3>0, <3>1
      <3>2. CASE p # nil
        BY <1>2, <1>3, <1>6, <1>7, <1>8, <3>0, <3>2
      <3> QED
        BY <3>1, <3>2
    <2>3. ASSUME NEW d \in h.used, NEW t \in Sides
          PROVE  /\ g.kid[t][d] \in h.used \cup {nil} /\ d \notin B2[g.kid[t][d]]
                 /\ g.kid[t][d] # nil => g.parent[g.kid[t][d]] = d
      <3>1. CASE d = c
        BY <1>1, <1>2, <1>3, <1>4, <1>5, <1>7, <1>8, <1>10, <3>1
      <3>2. CASE d = up
        BY <1>1, <1>2, <1>3, <1>4, <1>5, <1>7, <1>8, <1>10, <3>2
      <3>3. CASE d # c /\ d # up
        BY <1>11, <3>3, SpansSides
      <3> QED
        BY <3>1, <3>2, <3>3
    <2>4. ASSUME NEW d \in h.used, NEW t \in Sides
          PROVE  /\ \A e : e \in B2[d] <=> e = d \/ e \in B2[g.kid[t][d]] \/ e \in B2[g.kid[Other(t)][d]]
                 /\ \A e \in B2[g.kid[t][d]] : e \notin B2[g.kid[Other(t)][d]]
      <3>0. (t = s /\ Other(t) = o) \/ (t = o /\ Other(t) = s)
        BY <1>1 DEF o
      <3>1. CASE d = c
        <4>1. B2[d] = inner /\ B2[a] = B[a] /\ B2[over] = B[over]
          BY <1>2, <1>3, <1>4, <1>5, <1>7, <3>1
        <4> QED
          BY <1>4, <1>10, <3>0, <3>1, <4>1
      <3>2. CASE d = up
        <4>1. B2[d] = B[c] /\ B2[far] = B[far] /\ B2[c] = inner
          BY <1>2, <1>3, <1>4, <1>5, <1>7, <3>2
        <4>2. \A e : e \in B[c] <=> e = up \/ e \in inner \/ e \in B[far]
          BY <1>4
        <4>3. \A e \in inner : e \notin B[far]
          BY <1>4
        <4>4. (g.kid[t][d] = c /\ g.kid[Other(t)][d] = far) \/ (g.kid[t][d] = far /\ g.kid[Other(t)][d] = c)
          BY <1>10, <3>0, <3>2
        <4> HIDE DEF inner
        <4> QED
          BY <3>2, <4>1, <4>2, <4>3, <4>4
      <3>3. CASE d # c /\ d # up
        <4>1. /\ Other(t) \in Sides /\ B2[d] = B[d]
              /\ B2[g.kid[t][d]] = B[h.kid[t][d]] /\ B2[g.kid[Other(t)][d]] = B[h.kid[Other(t)][d]]
          BY <1>11, <3>3, SidesFacts
        <4>2. /\ \A e : e \in B[d] <=> e = d \/ e \in B[h.kid[t][d]] \/ e \in B[h.kid[Other(t)][d]]
              /\ \A e \in B[h.kid[t][d]] : e \notin B[h.kid[Other(t)][d]]
          BY SpansSides
        <4> QED
          BY <4>1, <4>2
      <3> QED
        BY <3>1, <3>2, <3>3
    <2>5. ASSUME NEW d \in h.used, d # g.root
          PROVE  g.parent[d] \in h.used /\ g.kid[Hangs(g, d)][g.parent[d]] = d
      <3>1. g.parent[d] \in h.used /\ \E t \in Sides : g.kid[t][g.parent[d]] = d
        <4>1. CASE d \in {over, c}
          BY <1>1, <1>3, <1>8, <1>10, <4>1, <1>4, <1>5
        <4>2. CASE d = up
          BY <1>1, <1>3, <1>6, <1>8, <4>2, <2>5, <1>4, <1>5
        <4>3. CASE d \notin {over, c, up}
          <5>1. d # h.root
            BY <2>5, <4>3, <1>6, <1>8
          <5>2. h.parent[d] \in h.used /\ h.kid[Hangs(h, d)][h.parent[d]] = d
            BY <5>1 DEF Spans
          <5>3. g.parent[d] = h.parent[d]
            BY <1>8, <4>3
          <5>4. g.kid[Hangs(h, d)][h.parent[d]] = d
            <6> DEFINE t == Hangs(h, d)
                       k == h.parent[d]
            <6>1. t \in Sides /\ k \in h.used /\ h.kid[t][k] = d
              BY <5>2, SidesFacts
            <6>2. h.kid[o][c] = up /\ h.kid[s][up] = over
              BY DEF up, over
            <6> HIDE DEF t, k
            <6>3. g.kid[t][k] = d
              BY <1>2, <1>6, <1>8, <4>3, <6>1, <6>2
            <6> QED
              BY <6>3 DEF t, k
          <5> QED
            BY <5>2, <5>3, <5>4, SidesFacts
        <4> QED
          BY <4>1, <4>2, <4>3
      <3> QED
        BY <3>1 DEF Hangs, Sides
    <2>6. ASSUME NEW d \in h.used, NEW e \in B2[d]
          PROVE  B2[e] \subseteq B2[d] /\ (e # d => g.parent[e] \in B2[d])
      <3>1. CASE d = c
        <4>1. e = c \/ e \in B[a] \/ e \in B[over]
          BY <1>7, <3>1
        <4>2. CASE e = c
          BY <3>1, <4>2
        <4>3. CASE e \in B[a]
          <5>1. a \in h.used /\ e \in h.used /\ e \notin {c, up, over}
            BY <1>3, <1>4, <1>5, <1>9, <4>3
          <5>2. B2[e] = B[e] /\ g.parent[e] = h.parent[e]
            BY <1>2, <1>7, <1>8, <5>1
          <5> QED
            BY <1>3, <1>7, <1>9, <3>1, <4>3, <5>1, <5>2, <1>2
        <4>4. CASE e \in B[over]
          <5>1. over \in h.used /\ e \in h.used /\ e \notin {c, up}
            BY <1>3, <1>4, <1>5, <1>9, <4>4
          <5>2. B2[e] = B[e] /\ g.parent[e] = IF e = over THEN c ELSE h.parent[e]
            BY <1>2, <1>7, <1>8, <5>1
          <5> QED
            BY <1>3, <1>7, <1>9, <3>1, <4>4, <5>1, <5>2, <1>2
        <4> QED
          BY <4>1, <4>2, <4>3, <4>4
      <3>2. CASE d = up
        <4>1. e \in B[c] /\ e \in h.used
          BY <1>7, <1>9, <3>2
        <4>2. B2[e] \subseteq B[c]
          BY <1>2, <1>4, <1>7, <1>9, <4>1
        <4>3. e # up => g.parent[e] \in B[c]
          BY <1>3, <1>4, <1>8, <1>9, <4>1
        <4> QED
          BY <1>7, <3>2, <4>2, <4>3
      <3>3. CASE d # c /\ d # up
        <4>1. B2[d] = B[d] /\ e \in B[d] /\ e \in h.used
          BY <1>2, <1>7, <1>9, <3>3
        <4>2. e = up \/ (e = over /\ e # d) => c \in B[d]
          <5>1. up \in B[d] => c \in B[d]
            BY <1>3, <1>9, <3>3
          <5>2. e = over /\ e # d => up \in B[d]
            BY <1>2, <1>3, <1>9, <4>1
          <5> QED
            BY <4>1, <5>1, <5>2
        <4>3. e = c => up \in B[d]
          BY <1>3, <1>4, <1>5, <1>9, <4>1
        <4>4. B2[e] \subseteq B[d]
          BY <1>2, <1>4, <1>7, <1>9, <4>1, <4>2
        <4>5. e # d => g.parent[e] \in B[d]
          BY <1>8, <1>9, <4>1, <4>2, <4>3, <3>3 DEF p
        <4> QED
          BY <4>1, <4>4, <4>5
      <3> QED
        BY <3>1, <3>2, <3>3
    <2>7. "left" \in Sides /\ Other("left") = "right"
      BY DEF Sides, Other
    <2>8. ASSUME NEW d \in h.used
          PROVE /\ \A e : e \in B2[d] <=> e = d \/ e \in B2[g.kid["left"][d]] \/ e \in B2[g.kid["right"][d]]
                /\ \A e \in B2[g.kid["left"][d]] : e \notin B2[g.kid["right"][d]]
      BY <2>4, <2>7
    <2>9. g.used = h.used
      BY <1>8
    <2>10. ASSUME NEW d \in g.used
           PROVE  /\ \A t \in Sides : /\ g.kid[t][d] \in g.used \cup {nil} /\ d \notin B2[g.kid[t][d]]
                                      /\ g.kid[t][d] # nil => g.parent[g.kid[t][d]] = d
                  /\ d # g.root => g.parent[d] \in g.used /\ g.kid[Hangs(g, d)][g.parent[d]] = d
                  /\ \A e \in B2[d] : B2[e] \subseteq B2[d] /\ (e # d => g.parent[e] \in B2[d])
      BY <2>3, <2>5, <2>6, <2>9
    <2> QED
      BY <2>1, <2>2, <2>8, <2>9, <2>10 DEF Spans
  <1>13. ASSUME Sorted(h, B) PROVE Sorted(g, B2)
    <2>0. \A d \in h.used : h.key[d] \in Int
      BY NodeFacts
    <2>1. \A d \in h.used, t \in Sides : \A e \in B[h.kid[t][d]] : Before(t, h.key[e], h.key[d])
      BY <1>13 DEF Sorted
    <2>2. ASSUME NEW d \in h.used, NEW t \in Sides, NEW e \in B2[g.kid[t][d]]
          PROVE  Before(t, h.key[e], h.key[d])
      <3>1. CASE d = c /\ t = s
        BY <1>2, <1>3, <1>4, <1>5, <1>7, <1>10, <2>1, <3>1 DEF a
      <3>2. CASE d = c /\ t = o
        <4>1. e \in B[up]
          BY <1>2, <1>3, <1>4, <1>5, <1>7, <1>10, <3>2
        <4> QED
          BY <1>1, <2>1, <3>2, <4>1 DEF up
      <3>3. CASE d = up /\ t = o
        <4>1. e \in B[far]
          BY <1>2, <1>3, <1>4, <1>5, <1>7, <1>10, <3>3
        <4> QED
          BY <1>1, <1>3, <2>1, <3>3, <4>1 DEF far
      <3>4. CASE d = up /\ t = s
        <4>1. e = c \/ e \in B[a] \/ e \in B[over]
          BY <1>7, <1>10, <3>4
        <4>2. Before(s, h.key[c], h.key[up])
          <5>1. Before(o, h.key[up], h.key[c])
            BY <1>1, <1>3, <1>9, <2>1 DEF up
          <5> QED
            BY <1>3, <2>0, <5>1, BeforeFacts DEF o
        <4>3. CASE e = c
          BY <3>4, <4>2, <4>3
        <4>4. CASE e \in B[a]
          <5>1. Before(s, h.key[e], h.key[c]) /\ e \in h.used
            BY <1>3, <1>5, <1>9, <2>1, <4>4 DEF a
          <5> QED
            BY <1>3, <2>0, <3>4, <4>2, <5>1, BeforeFacts
        <4>5. CASE e \in B[over]
          BY <1>3, <2>1, <3>4, <4>5 DEF over
        <4> QED
          BY <4>1, <4>3, <4>4, <4>5
      <3>5. CASE d # c /\ d # up
        BY <1>11, <2>1, <3>5
      <3> QED
        BY <1>1, <3>1, <3>2, <3>3, <3>4, <3>5
    <2> QED
      BY <1>8, <2>2 DEF Sorted
  <1> QED
    BY <1>12, <1>13

\* A binary search tree, whatever its colours.
SearchTree(h) == h \in Trees /\ \E B : Spans(h, B) /\ Sorted(h, B)

\* g is h but for its colours.
SameLinks(g, h) ==
  /\ g \in Trees /\ g.root = h.root /\ g.used = h.used /\ g.kid = h.kid
  /\ g.parent = h.parent /\ g.key = h.key

\* New colours leave a search tree.
LEMMA SameTree ==
  ASSUME NEW h, SearchTree(h), NEW g, SameLinks(g, h) PROVE SearchTree(g)
  <1>1. \A c : Hangs(g, c) = Hangs(h, c)
    BY DEF Hangs, SameLinks
  <1>2. ASSUME NEW B, Spans(h, B), Sorted(h, B) PROVE Spans(g, B) /\ Sorted(g, B)
    BY <1>1, <1>2 DEF SameLinks, Spans, Sorted
  <1> QED
    BY <1>2 DEF SearchTree, SameLinks

\* A search tree is linked as Linked says.
LEMMA TreeLinked ==
  ASSUME NEW h, SearchTree(h) PROVE h \in Trees /\ Linked(h)
  BY SpansLinked DEF SearchTree

\* A rotation of a node with a child on the other side leaves a search tree.
LEMMA RotateTree ==
  ASSUME NEW h, SearchTree(h), NEW s \in Sides, NEW c \in h.used, h.kid[Other(s)][c] # nil
  PROVE  Rotated(h, s, c, rotate(h, s, c)) /\ SearchTree(rotate(h, s, c))
  <1> DEFINE o == Other(s)
             up == h.kid[o][c]
             p == h.parent[c]
  <1>1. h \in Trees /\ Linked(h) /\ o \in Sides /\ o # s
    BY TreeLinked, SidesFacts
  <1>2. c \in Cells /\ up \in h.used /\ up \in Cells /\ up # c /\ h.parent[up] = c
        /\ (\A t \in Sides : h.kid[t][up] \notin {c, up})
    BY <1>1, NodeFacts DEF Linked
  <1>3. p # c /\ p # up
    <2>1. p # c
      BY <1>1 DEF Linked
    <2>2. c = h.root => p = nil
      BY <1>1, NodeFacts DEF Linked
    <2>3. c # h.root => h.kid[Hangs(h, c)][p] = c /\ Hangs(h, c) \in Sides
      BY <1>1, SidesFacts DEF Linked
    <2> QED
      BY <1>1, <1>2, <2>1, <2>2, <2>3, NodeFacts
  <1>4. Rotated(h, s, c, rotate(h, s, c))
    BY <1>1, <1>2, <1>3, RotateEffect
  <1>5. PICK B : Spans(h, B) /\ Sorted(h, B)
    BY DEF SearchTree
  <1>6. \E B2 : Spans(rotate(h, s, c), B2) /\ Sorted(rotate(h, s, c), B2)
    BY <1>1, <1>4, <1>5, RotateSpans
  <1> QED
    BY <1>4, <1>6 DEF SearchTree, Rotated

\* The links of a rotated tree, node by node.
LEMMA RotatedLinks ==
  ASSUME NEW h \in Trees, Linked(h), NEW s \in Sides, NEW o, o = Other(s), NEW c \in h.used,
         NEW up, up = h.kid[o][c], up # nil, NEW over, over = h.kid[s][up],
         NEW g, Rotated(h, s, c, g)
  PROVE  /\ o \in Sides /\ o # s /\ up \in h.used /\ up # c
         /\ g.used = h.used /\ g.color = h.color /\ g.parent[nil] = h.parent[nil]
         /\ g.root = IF c = h.root THEN up ELSE h.root
         /\ g.kid[s][c] = h.kid[s][c] /\ g.kid[o][c] = over
         /\ g.kid[s][up] = c /\ g.kid[o][up] = h.kid[o][up]
         /\ \A d \in h.used : g.parent[d] = IF d = over THEN c ELSE IF d = up THEN h.parent[c]
                                            ELSE IF d = c THEN up ELSE h.parent[d]
         /\ \A d \in h.used, t \in Sides : d # c /\ d # up =>
              g.kid[t][d] = IF h.kid[t][d] = c THEN up ELSE h.kid[t][d]
  <1>1. /\ o \in Sides /\ o # s /\ Hangs(h, c) \in Sides /\ (\A t \in Sides : t = s \/ t = o)
        /\ \A t \in Sides : Other(t) \in Sides /\ \A u \in Sides : u = t \/ u = Other(t)
    BY SidesFacts
  <1>2. /\ h.used \subseteq Cells /\ h.used \subseteq Nodes /\ nil \notin h.used /\ nil \in Nodes
    BY NodeFacts
  <1>3. /\ up \in h.used /\ up # c /\ h.parent[up] = c
    BY <1>1 DEF Linked
  <1>4. h.parent[c] # c /\ (h.parent[c] = nil <=> c = h.root)
        /\ (c # h.root => h.parent[c] \in h.used /\ h.kid[Hangs(h, c)][h.parent[c]] = c)
    BY <1>2 DEF Linked
  <1>5. h.parent[c] # up
    BY <1>1, <1>2, <1>3, <1>4 DEF Linked
  <1>6. /\ g.used = h.used /\ g.color = h.color
        /\ g.root = IF h.parent[c] = nil THEN up ELSE h.root
        /\ \A d \in Nodes : g.parent[d] = IF d = over /\ over # nil THEN c
                                       ELSE IF d = up THEN h.parent[c]
                                       ELSE IF d = c THEN up ELSE h.parent[d]
        /\ \A t \in Sides, d \in Cells :
          g.kid[t][d] = IF d = c /\ t = o THEN over
                        ELSE IF d = up /\ t = s THEN c
                        ELSE IF d = h.parent[c] /\ t = Hangs(h, c) THEN up
                        ELSE h.kid[t][d]
    BY DEF Rotated
  <1>7. ASSUME NEW d \in h.used, NEW t \in Sides, d # c, d # up
        PROVE  g.kid[t][d] = IF h.kid[t][d] = c THEN up ELSE h.kid[t][d]
    <2>1. CASE h.kid[t][d] = c
      <3>1. d = h.parent[c]
        BY <1>2, <2>1 DEF Linked
      <3>2. t = Hangs(h, c)
        BY <1>2, <2>1 DEF Linked
      <3> QED
        BY <1>2, <1>6, <1>7, <2>1, <3>1, <3>2
    <2>2. CASE h.kid[t][d] # c
      <3>1. ~(d = h.parent[c] /\ t = Hangs(h, c))
        BY <1>2, <1>4, <2>2
      <3> QED
        BY <1>2, <1>6, <1>7, <2>2, <3>1
    <2> QED
      BY <2>1, <2>2
  <1> QED
    BY <1>1, <1>2, <1>3, <1>4, <1>5, <1>6, <1>7
-----------------------------------------------------------------------------
(* Colours: what the two fixups do *)

\* What a node adds to the black height.
Ink(h, c) == IF h.color[c] = "black" THEN 1 ELSE 0

\* H is the black height of each node, when the link from p on side q counts as
\* one black node more.
Balanced(h, H, p, q) ==
  /\ H \in [Nodes -> Nat] /\ H[nil] = 0
  /\ \A c \in h.used, s \in Sides :
       H[c] = H[h.kid[s][c]] + Ink(h, c) + (IF c = p /\ s = q THEN 1 ELSE 0)

\* Only a node of reds may be red under a red parent, or a red root.
Colored(h, reds, p, q) ==
  /\ h.color[nil] = "black"
  /\ \A c \in h.used : h.color[c] = "red" /\ h.color[h.parent[c]] = "red" => c \in reds
  /\ h.color[h.root] = "red" => h.root \in reds
  /\ \E H : Balanced(h, H, p, q)

\* In an insertion, only c.
ColoredBut(h, c) == Colored(h, {c}, nil, "left")

\* One node and the links around it.
LEMMA LinkedFacts ==
  ASSUME NEW h \in Trees, Linked(h), NEW c \in h.used
  PROVE  /\ h.used \subseteq Nodes /\ h.used \subseteq Cells /\ nil \notin h.used /\ nil \in Nodes
         /\ h.root \in h.used \cup {nil} /\ (h.root # nil => h.parent[h.root] = nil)
         /\ h.parent[c] \in h.used \cup {nil} /\ (h.parent[c] = nil <=> c = h.root)
         /\ h.parent[c] # c
         /\ h.color[c] \in {"red", "black"}
         /\ \A s \in Sides :
              /\ h.kid[s][c] \in h.used \cup {nil} /\ h.kid[s][c] # c
              /\ h.kid[s][c] # nil => /\ h.parent[h.kid[s][c]] = c /\ h.kid[s][c] # h.kid[Other(s)][c]
                                      /\ h.kid[s][c] # h.root /\ Hangs(h, h.kid[s][c]) = s
                                      /\ h.kid[s][c] # h.parent[c]
         /\ c # h.root => h.kid[Hangs(h, c)][h.parent[c]] = c
  <1>1. /\ h.used \subseteq Nodes /\ h.used \subseteq Cells /\ nil \notin h.used /\ nil \in Nodes
        /\ c \in Nodes
    BY NodeFacts
  <1>2. h.color[c] \in {"red", "black"}
    BY <1>1 DEF Trees
  <1>3. h.root \in h.used \cup {nil} /\ (h.root # nil => h.parent[h.root] = nil)
        /\ h.parent[c] # c /\ (c # h.root => h.parent[c] \in h.used /\ h.kid[Hangs(h, c)][h.parent[c]] = c)
    BY DEF Linked
  <1>4. ASSUME NEW s \in Sides
        PROVE  /\ h.kid[s][c] \in h.used \cup {nil} /\ h.kid[s][c] # c
               /\ h.kid[s][c] # nil => /\ h.parent[h.kid[s][c]] = c /\ h.kid[s][c] # h.kid[Other(s)][c]
                                       /\ h.kid[s][c] # h.root /\ Hangs(h, h.kid[s][c]) = s
    BY DEF Linked
  <1>5. ASSUME NEW s \in Sides, h.kid[s][c] # nil PROVE h.kid[s][c] # h.parent[c]
    <2>1. \A t \in Sides : h.kid[t][h.kid[s][c]] # c
      BY <1>5 DEF Linked
    <2>2. CASE c = h.root
      BY <1>1, <1>3, <1>5, <2>2
    <2>3. CASE c # h.root
      BY <1>3, <2>1, <2>3, SidesFacts
    <2> QED
      BY <2>2, <2>3
  <1> QED
    BY <1>1, <1>2, <1>3, <1>4, <1>5

\* One child and its links.
LEMMA KidFacts ==
  ASSUME NEW h \in Trees, Linked(h), NEW c \in h.used, NEW s \in Sides
  PROVE  /\ h.kid[s][c] \in h.used \cup {nil} /\ h.kid[s][c] # c
         /\ h.kid[s][c] # nil => /\ h.parent[h.kid[s][c]] = c /\ h.kid[s][c] # h.root
                                 /\ h.kid[s][c] # h.kid[Other(s)][c]
                                 /\ Hangs(h, h.kid[s][c]) = s /\ h.kid[s][c] # h.parent[c]
  BY LinkedFacts

\* The black height of a node and of its child, by the node's colour.
LEMMA BalancedAt ==
  ASSUME NEW h \in Trees, Linked(h), NEW H, NEW p, NEW q, Balanced(h, H, p, q),
         NEW c \in h.used, NEW s \in Sides
  PROVE  /\ H \in [Nodes -> Nat] /\ H[nil] = 0 /\ H[c] \in Nat /\ H[h.kid[s][c]] \in Nat
         /\ c = p /\ s = q /\ h.color[c] = "black" => H[c] = H[h.kid[s][c]] + 2
         /\ c = p /\ s = q /\ h.color[c] # "black" => H[c] = H[h.kid[s][c]] + 1
         /\ (c # p \/ s # q) /\ h.color[c] = "black" => H[c] = H[h.kid[s][c]] + 1
         /\ (c # p \/ s # q) /\ h.color[c] # "black" => H[c] = H[h.kid[s][c]]
  <1>1. H \in [Nodes -> Nat] /\ H[nil] = 0 /\ c \in Nodes /\ h.kid[s][c] \in Nodes
    BY LinkedFacts DEF Balanced
  <1>2. H[c] = H[h.kid[s][c]] + Ink(h, c) + (IF c = p /\ s = q THEN 1 ELSE 0)
    BY DEF Balanced
  <1> QED
    BY <1>1, <1>2 DEF Ink

\* The root is made black.
LEMMA RootBlack ==
  ASSUME NEW h \in Trees, Linked(h), NEW r, r = h.root, r \in h.used, NEW p, NEW q, p \notin h.used,
         NEW reds, Colored(h, reds, p, q),
         \A c \in reds : c # r => h.color[c] = "black" \/ h.color[h.parent[c]] = "black" \/ h.parent[c] = r,
         NEW g \in Trees, SameLinks(g, h), g.color = [h.color EXCEPT ![r] = "black"]
  PROVE  Colored(g, {}, nil, "left")
  <1>1. PICK H : Balanced(h, H, p, q)
    BY DEF Colored
  <1> DEFINE G == [H EXCEPT ![r] = IF h.color[r] = "black" THEN H[r] ELSE H[r] + 1]
  <1>2. r \in Nodes /\ nil \in Nodes /\ r # nil /\ h.used \subseteq Nodes /\ nil \notin h.used
    BY LinkedFacts
  <1>3. \A d \in Nodes : g.color[d] = IF d = r THEN "black" ELSE h.color[d]
    BY <1>2 DEF Trees
  <1>4. H \in [Nodes -> Nat] /\ H[nil] = 0
    BY <1>1 DEF Balanced
  <1>5. /\ G \in [Nodes -> Nat] /\ G[r] = IF h.color[r] = "black" THEN H[r] ELSE H[r] + 1
        /\ \A d \in Nodes : d # r => G[d] = H[d]
    BY <1>2, <1>4
  <1> HIDE DEF G
  <1>6. ASSUME NEW c \in h.used, NEW s \in Sides
        PROVE  /\ G[h.kid[s][c]] \in Nat
               /\ G[c] = IF g.color[c] = "black" THEN G[h.kid[s][c]] + 1 ELSE G[h.kid[s][c]]
    <2>1. h.kid[s][c] # r /\ h.kid[s][c] \in Nodes
      BY <1>2, LinkedFacts
    <2> QED
      BY <1>1, <1>2, <1>3, <1>5, <2>1, BalancedAt
  <1>7. Balanced(g, G, nil, "left")
    <2>1. G[nil] = 0
      BY <1>2, <1>4, <1>5
    <2>2. g.used = h.used /\ g.kid = h.kid
      BY DEF SameLinks
    <2> QED
      BY <1>2, <1>5, <1>6, <2>1, <2>2 DEF Balanced, Ink
  <1>8. ASSUME NEW c \in h.used PROVE g.color[c] = "black" \/ g.color[h.parent[c]] = "black"
    <2>1. h.parent[c] \in h.used \cup {nil} /\ h.color[c] \in {"red", "black"}
          /\ h.color[h.parent[c]] \in {"red", "black"}
      BY LinkedFacts DEF Colored
    <2>2. c # r => h.color[c] = "black" \/ h.color[h.parent[c]] = "black" \/ h.parent[c] = r
      BY <2>1 DEF Colored
    <2> QED
      BY <1>2, <1>3, <2>1, <2>2
  <1> QED
    BY <1>2, <1>3, <1>7, <1>8 DEF Colored, SameLinks

\* g is h with a painted red and b black.
Recolored(g, h, a, b) ==
  /\ g \in Trees /\ Linked(g) /\ SameLinks(g, h)
  /\ \A d \in Nodes : g.color[d] = IF d = a THEN "red" ELSE IF d = b THEN "black" ELSE h.color[d]

\* Around a red node zz with a red parent p: gp above p, on whose side s p is,
\* and uncle on the other.
RedParent(h, zz, p, gp, s, uncle) ==
  /\ zz \in h.used /\ p \in h.used /\ gp \in h.used /\ p # zz /\ gp # p /\ gp # zz
  /\ h.parent[zz] = p /\ h.parent[p] = gp /\ p # h.root /\ zz # h.root
  /\ s \in Sides /\ h.kid[s][gp] = p /\ h.kid[Other(s)][gp] = uncle
  /\ uncle \in h.used \cup {nil} /\ uncle # p /\ uncle # gp /\ uncle # zz
  /\ h.color[zz] = "red" /\ h.color[p] = "red" /\ h.color[gp] = "black"

\* A red node under a red one has a black grandparent, and so an uncle or nil.
LEMMA RedParentFacts ==
  ASSUME NEW h \in Trees, Linked(h), NEW zz \in h.used, ColoredBut(h, zz),
         h.color[zz] = "red", NEW p, p = h.parent[zz], h.color[p] = "red"
  PROVE  RedParent(h, zz, p, h.parent[p], Hangs(h, p), h.kid[Other(Hangs(h, p))][h.parent[p]])
  <1> DEFINE gp == h.parent[p]
             s == Hangs(h, p)
             uncle == h.kid[Other(s)][gp]
  <1>1. /\ h.color[nil] = "black" /\ nil \notin h.used
        /\ s \in Sides /\ Other(s) \in Sides /\ Other(s) # s
    BY LinkedFacts, SidesFacts DEF Colored, ColoredBut
  <1>2. p \in h.used /\ p # zz /\ zz # h.root
    BY <1>1, LinkedFacts
  <1>3. p # h.root
    BY <1>2 DEF Colored, ColoredBut
  <1>4. gp \in h.used /\ gp # p /\ h.kid[s][gp] = p
    BY <1>1, <1>2, <1>3, LinkedFacts
  <1>5. gp # zz
    <2>1. h.kid[Hangs(h, zz)][p] = zz /\ Hangs(h, zz) \in Sides
      BY <1>2, LinkedFacts, SidesFacts
    <2>2. h.kid[Hangs(h, zz)][p] # nil => h.kid[Hangs(h, zz)][p] # h.parent[p]
      BY <1>2, <2>1, LinkedFacts
    <2> QED
      BY <1>1, <2>1, <2>2
  <1>6. uncle = h.kid[Other(s)][gp] /\ zz \in h.used /\ h.parent[zz] = p /\ p # nil /\ zz # nil
    BY <1>1, <1>2
  <1> HIDE DEF gp, s, uncle
  <1>7. uncle \in h.used \cup {nil} /\ uncle # gp /\ uncle # p /\ uncle # zz
    <2>0. h \in Trees /\ Linked(h)
      OBVIOUS
    <2>1. /\ h.kid[Other(s)][gp] \in h.used \cup {nil} /\ h.kid[Other(s)][gp] # gp
          /\ h.kid[Other(s)][gp] # nil => h.parent[h.kid[Other(s)][gp]] = gp
      BY ONLY <1>1, <1>4, <2>0, KidFacts
    <2>2. h.kid[s][gp] # h.kid[Other(s)][gp]
      BY ONLY <1>1, <1>4, <1>6, <2>0, KidFacts
    <2> QED
      BY ONLY <1>4, <1>6, <2>1, <2>2
  <1>8. h.color[gp] = "black"
    <2>1. h.color[gp] = "red" => p \in {zz}
      BY <1>2 DEF Colored, ColoredBut, gp
    <2> QED
      BY <1>2, <1>4, <2>1, LinkedFacts
  <1> QED
    BY <1>1, <1>2, <1>3, <1>4, <1>5, <1>6, <1>7, <1>8 DEF RedParent, gp, s, uncle

\* An insertion: a red uncle and the parent become black, and the grandparent
\* red.
LEMMA RedUncle ==
  ASSUME NEW h \in Trees, Linked(h), NEW zz, NEW p, NEW gp, NEW s, NEW uncle,
         RedParent(h, zz, p, gp, s, uncle), ColoredBut(h, zz), h.color[uncle] = "red",
         NEW g, SameLinks(g, h),
         \A d \in Nodes : g.color[d] = IF d = gp THEN "red"
                                       ELSE IF d = p \/ d = uncle THEN "black" ELSE h.color[d]
  PROVE  ColoredBut(g, gp)
  <1>1. PICK H : Balanced(h, H, nil, "left")
    BY DEF Colored, ColoredBut
  <1>2. /\ h.color[nil] = "black" /\ h.used \subseteq Nodes /\ nil \in Nodes /\ nil \notin h.used
    BY LinkedFacts DEF Colored, ColoredBut, RedParent
  <1>3. /\ p \in h.used /\ gp \in h.used /\ uncle \in h.used
        /\ p # gp /\ uncle # p /\ uncle # gp /\ h.parent[uncle] = gp /\ h.parent[p] = gp
        /\ h.color[p] = "red" /\ h.color[uncle] = "red" /\ h.color[gp] = "black" /\ zz # h.root
        /\ \A t \in Sides : h.kid[t][gp] = p \/ h.kid[t][gp] = uncle
    <2>1. uncle \in h.used
      BY <1>2 DEF RedParent
    <2>2. h.parent[uncle] = gp
      BY <1>2, <2>1, LinkedFacts, SidesFacts DEF RedParent
    <2> QED
      BY <2>1, <2>2, SidesFacts DEF RedParent
  <1>4. H \in [Nodes -> Nat] /\ H[nil] = 0 /\ H[p] + 1 \in Nat /\ H[uncle] + 1 \in Nat
    BY <1>1, <1>2, <1>3 DEF Balanced
  <1> DEFINE G == [H EXCEPT ![p] = H[p] + 1, ![uncle] = H[uncle] + 1]
  <1>5. /\ G \in [Nodes -> Nat] /\ G[p] = H[p] + 1 /\ G[uncle] = H[uncle] + 1
        /\ \A d \in Nodes : d # p /\ d # uncle => G[d] = H[d]
    <2>1. p \in Nodes /\ uncle \in Nodes /\ p # uncle
      BY <1>2, <1>3
    <2> QED
      BY <1>4, <2>1
  <1> HIDE DEF G
  <1>6. ASSUME NEW c \in h.used, NEW t \in Sides
        PROVE  G[c] = IF g.color[c] = "black" THEN G[h.kid[t][c]] + 1 ELSE G[h.kid[t][c]]
    <2> DEFINE k == h.kid[t][c]
    <2>1. k \in Nodes /\ c # nil /\ c \in Nodes /\ k # c
      BY <1>2, LinkedFacts
    <2>2. k # nil => h.parent[k] = c
      BY LinkedFacts
    <2>3. H[c] = (IF h.color[c] = "black" THEN H[k] + 1 ELSE H[k]) /\ H[k] \in Nat
      BY <1>1, <2>1, BalancedAt
    <2>4. c = gp => k = p \/ k = uncle
      BY <1>3
    <2> HIDE DEF k
    <2>5. CASE c = gp
      <3>1. G[c] = H[c] /\ G[k] = H[k] + 1
        BY <1>2, <1>3, <1>5, <2>1, <2>4, <2>5
      <3>2. g.color[c] = "red" /\ h.color[c] = "black"
        BY <1>3, <2>1, <2>5
      <3> QED
        BY <2>3, <3>1, <3>2 DEF k
    <2>6. CASE c # gp
      <3>1. k # p /\ k # uncle
        BY <1>2, <1>3, <2>2, <2>6
      <3>2. G[k] = H[k]
        BY <1>5, <2>1, <3>1
      <3>3. CASE c = p \/ c = uncle
        <4>1. G[c] = H[c] + 1
          BY <1>5, <3>3
        <4>2. g.color[c] = "black" /\ h.color[c] = "red"
          BY <1>3, <2>1, <3>3
        <4> QED
          BY <2>3, <3>2, <4>1, <4>2 DEF k
      <3>4. CASE c # p /\ c # uncle
        <4>1. G[c] = H[c] /\ g.color[c] = h.color[c]
          BY <1>5, <2>1, <2>6, <3>4
        <4> QED
          BY <2>3, <3>2, <4>1 DEF k
      <3> QED
        BY <3>3, <3>4
    <2> QED
      BY <2>5, <2>6 DEF k
  <1>7. g.used = h.used /\ g.kid = h.kid /\ g.parent = h.parent /\ g.root = h.root
    BY DEF SameLinks
  <1>8. Balanced(g, G, nil, "left")
    <2>1. G[nil] = 0
      <3>1. nil # p /\ nil # uncle
        BY <1>2, <1>3
      <3> QED
        BY <1>2, <1>4, <1>5, <3>1
    <2>2. \A c \in h.used, t \in Sides : G[h.kid[t][c]] \in Nat
      <3>1. \A c \in h.used, t \in Sides : h.kid[t][c] \in Nodes
        BY <1>2, LinkedFacts
      <3> QED
        BY <1>5, <3>1
    <2> QED
      BY <1>2, <1>5, <1>6, <1>7, <2>1, <2>2 DEF Balanced, Ink
  <1>9. ASSUME NEW c \in h.used, g.color[c] = "red", g.color[h.parent[c]] = "red" PROVE c = gp
    <2>1. h.parent[c] \in Nodes /\ c \in Nodes
      BY <1>2, LinkedFacts
    <2>2. CASE h.parent[c] = gp
      <3>1. c = p \/ c = uncle
        BY <1>2, <1>3, <2>2, LinkedFacts, SidesFacts
      <3> QED
        BY <1>3, <1>9, <2>1, <3>1
    <2>3. CASE h.parent[c] # gp
      <3>1. h.color[h.parent[c]] = "red" /\ h.parent[c] # p
        BY <1>9, <2>1, <2>3
      <3>2. c # gp => h.color[c] = "red" /\ c # p
        BY <1>9, <2>1
      <3>3. c # gp => c = zz
        BY <3>1, <3>2 DEF Colored, ColoredBut
      <3>4. h.parent[zz] = p
        BY DEF RedParent
      <3> QED
        BY <3>1, <3>3, <3>4
    <2> QED
      BY <2>2, <2>3
  <1>10. g.color[h.root] = "red" => h.root = gp
    <2>1. h.root \in Nodes /\ h.root # zz
      BY <1>2, <1>3, LinkedFacts
    <2> QED
      BY <2>1 DEF Colored, ColoredBut
  <1>11. g.color[nil] = "black"
    BY <1>2, <1>3
  <1> QED
    BY <1>7, <1>8, <1>9, <1>10, <1>11 DEF Colored, ColoredBut

\* An insertion: zz between p and its parent is rotated above p first.
LEMMA InnerChild ==
  ASSUME NEW h \in Trees, Linked(h), NEW zz, NEW p, NEW gp, NEW s, NEW uncle,
         RedParent(h, zz, p, gp, s, uncle), ColoredBut(h, zz),
         h.kid[Other(s)][p] = zz, NEW f \in Trees, Rotated(h, s, p, f)
  PROVE  /\ RedParent(f, p, zz, gp, s, uncle) /\ ColoredBut(f, p)
         /\ f.kid[s][zz] = p
  <1>1. PICK H : Balanced(h, H, nil, "left")
    BY DEF Colored, ColoredBut
  <1>2. /\ h.color[nil] = "black" /\ h.used \subseteq Nodes /\ nil \in Nodes /\ nil \notin h.used
        /\ \A t \in Sides : t = s \/ t = Other(s)
    BY LinkedFacts, SidesFacts DEF Colored, ColoredBut, RedParent
  <1>3. /\ zz \in h.used /\ p \in h.used /\ gp \in h.used /\ p # zz /\ gp # p /\ gp # zz
        /\ h.parent[zz] = p /\ h.parent[p] = gp /\ p # h.root /\ zz # h.root
        /\ s \in Sides /\ h.kid[s][gp] = p /\ h.kid[Other(s)][gp] = uncle
        /\ uncle \in h.used \cup {nil} /\ uncle # p /\ uncle # gp /\ uncle # zz
        /\ h.color[zz] = "red" /\ h.color[p] = "red" /\ h.color[gp] = "black"
    BY DEF RedParent
  <1> DEFINE over == h.kid[s][zz]
  <1>4. /\ Other(s) \in Sides /\ Other(s) # s
        /\ f.used = h.used /\ f.color = h.color
        /\ f.root = h.root
        /\ f.kid[s][p] = h.kid[s][p] /\ f.kid[Other(s)][p] = over
        /\ f.kid[s][zz] = p /\ f.kid[Other(s)][zz] = h.kid[Other(s)][zz]
        /\ \A d \in h.used : f.parent[d] = IF d = over THEN p ELSE IF d = zz THEN gp
                                           ELSE IF d = p THEN zz ELSE h.parent[d]
        /\ \A d \in h.used, t \in Sides : d # p /\ d # zz =>
              f.kid[t][d] = IF h.kid[t][d] = p THEN zz ELSE h.kid[t][d]
    <2>1. zz # nil
      BY <1>2, <1>3
    <2> QED
      BY <1>3, <2>1, RotatedLinks
  <1>5. over \in h.used \cup {nil} /\ over # zz /\ over # p /\ (over # nil => h.parent[over] = zz)
    BY <1>3, LinkedFacts
  <1> HIDE DEF over
  <1>6. RedParent(f, p, zz, gp, s, uncle)
    <2>1. f.parent[p] = zz /\ f.parent[zz] = gp
      BY <1>3, <1>4, <1>5
    <2>2. f.kid[s][gp] = zz /\ f.kid[Other(s)][gp] = uncle
      BY <1>3, <1>4
    <2> QED
      BY <1>3, <1>4, <2>1, <2>2 DEF RedParent
  <1>7. H \in [Nodes -> Nat] /\ H[nil] = 0
    BY <1>1 DEF Balanced
  <1>8. H[zz] = H[p] /\ H[over] = H[p]
    <2>1. H[p] = H[zz] /\ H[zz] = H[h.kid[s][zz]]
      BY <1>1, <1>2, <1>3, <1>4, BalancedAt
    <2> QED
      BY <2>1 DEF over
  <1>9. ASSUME NEW c \in h.used, NEW t \in Sides
        PROVE  /\ H[f.kid[t][c]] \in Nat
               /\ H[c] = IF h.color[c] = "black" THEN H[f.kid[t][c]] + 1 ELSE H[f.kid[t][c]]
    <2>1. H[c] = (IF h.color[c] = "black" THEN H[h.kid[t][c]] + 1 ELSE H[h.kid[t][c]])
          /\ H[h.kid[t][c]] \in Nat
      BY <1>1, <1>2, BalancedAt
    <2>2. H[f.kid[t][c]] = H[h.kid[t][c]]
      <3>0. \A u \in Sides : H[zz] = H[h.kid[u][zz]] /\ H[p] = H[h.kid[u][p]]
        BY <1>1, <1>2, <1>3, BalancedAt
      <3>1. CASE c = p
        BY <1>2, <1>3, <1>4, <1>8, <3>0, <3>1
      <3>2. CASE c = zz
        BY <1>2, <1>3, <1>4, <1>8, <3>0, <3>2
      <3>3. CASE c # p /\ c # zz
        BY <1>4, <1>8, <3>3
      <3> QED
        BY <3>1, <3>2, <3>3
    <2> QED
      BY <2>1, <2>2
  <1>10. Balanced(f, H, nil, "left")
    BY <1>2, <1>4, <1>7, <1>9 DEF Balanced, Ink
  <1>11. ASSUME NEW c \in h.used, h.color[c] = "red", h.color[f.parent[c]] = "red" PROVE c = p
    <2>1. c # p => h.parent[c] # p \/ c = zz
      BY <1>11, <1>3 DEF Colored, ColoredBut
    <2>2. CASE c = over
      <3>1. h.parent[c] = zz
        BY <1>2, <1>5, <2>2
      <3> QED
        BY <1>3, <1>5, <1>11, <2>2, <3>1 DEF Colored, ColoredBut
    <2>3. CASE c = zz
      BY <1>3, <1>4, <1>5, <1>11, <2>3
    <2>4. CASE c # over /\ c # zz /\ c # p
      <3>1. f.parent[c] = h.parent[c]
        BY <1>4, <2>4
      <3> QED
        BY <1>11, <2>4, <3>1 DEF Colored, ColoredBut
    <2> QED
      BY <2>2, <2>3, <2>4
  <1>12. h.color[h.root] # "red"
    BY <1>3 DEF Colored, ColoredBut
  <1> QED
    BY <1>2, <1>4, <1>6, <1>10, <1>11, <1>12 DEF Colored, ColoredBut

\* An insertion: the red node zz and its parent are on the same side of their
\* parents, and the uncle is black: with new colours the parent is rotated
\* above the grandparent, and no red node has a red parent any more.
LEMMA OuterChild ==
  ASSUME NEW h \in Trees, Linked(h), NEW zz, NEW p, NEW gp, NEW s, NEW uncle,
         RedParent(h, zz, p, gp, s, uncle), ColoredBut(h, zz),
         h.kid[s][p] = zz, h.color[uncle] = "black",
         NEW g, Recolored(g, h, gp, p),
         NEW f \in Trees, Rotated(g, Other(s), gp, f)
  PROVE  Colored(f, {}, nil, "left")
  <1> USE DEF Recolored
  <1>1. PICK H : Balanced(h, H, nil, "left")
    BY DEF Colored, ColoredBut
  <1>2. /\ h.color[nil] = "black" /\ h.used \subseteq Nodes /\ nil \in Nodes /\ nil \notin h.used
        /\ s \in Sides /\ Other(s) \in Sides /\ Other(Other(s)) = s
        /\ \A t \in Sides : t = s \/ t = Other(s)
    BY LinkedFacts, SidesFacts DEF Colored, ColoredBut, RedParent
  <1>3. /\ zz \in h.used /\ p \in h.used /\ gp \in h.used /\ p # zz /\ gp # p /\ gp # zz
        /\ h.parent[zz] = p /\ h.parent[p] = gp /\ p # h.root /\ zz # h.root
        /\ h.kid[s][gp] = p /\ h.kid[Other(s)][gp] = uncle
        /\ uncle \in h.used \cup {nil} /\ uncle # p /\ uncle # gp /\ uncle # zz
        /\ h.color[zz] = "red" /\ h.color[p] = "red" /\ h.color[gp] = "black"
    BY DEF RedParent
  <1>4. g.used = h.used /\ g.kid = h.kid /\ g.parent = h.parent /\ g.root = h.root
    BY DEF SameLinks
  <1> DEFINE over == h.kid[Other(s)][p]
  <1>5. /\ f.used = h.used /\ f.color = g.color
        /\ f.root = IF gp = h.root THEN p ELSE h.root
        /\ f.kid[Other(s)][gp] = uncle /\ f.kid[s][gp] = over
        /\ f.kid[Other(s)][p] = gp /\ f.kid[s][p] = zz
        /\ \A d \in h.used : f.parent[d] = IF d = over THEN gp ELSE IF d = p THEN h.parent[gp]
                                           ELSE IF d = gp THEN p ELSE h.parent[d]
        /\ \A d \in h.used, t \in Sides : d # gp /\ d # p =>
              f.kid[t][d] = IF h.kid[t][d] = gp THEN p ELSE h.kid[t][d]
    <2>1. p # nil /\ gp \in g.used /\ g.kid[Other(Other(s))][gp] = p /\ g.kid[Other(s)][p] = over
      BY <1>2, <1>3, <1>4
    <2>2. /\ f.used = g.used /\ f.color = g.color
          /\ f.root = IF gp = g.root THEN p ELSE g.root
          /\ f.kid[Other(s)][gp] = g.kid[Other(s)][gp] /\ f.kid[s][gp] = over
          /\ f.kid[Other(s)][p] = gp /\ f.kid[s][p] = g.kid[s][p]
          /\ \A d \in g.used : f.parent[d] = IF d = over THEN gp ELSE IF d = p THEN g.parent[gp]
                                             ELSE IF d = gp THEN p ELSE g.parent[d]
          /\ \A d \in g.used, t \in Sides : d # gp /\ d # p =>
                f.kid[t][d] = IF g.kid[t][d] = gp THEN p ELSE g.kid[t][d]
      <3> HIDE DEF over
      <3> QED
        BY <1>2, <2>1, RotatedLinks
    <2> QED
      BY <1>3, <1>4, <2>2
  <1>6. over \in h.used \cup {nil} /\ over # p /\ over # gp /\ over # zz
        /\ (over # nil => h.parent[over] = p)
    BY <1>2, <1>3, LinkedFacts
  <1>7. h.color[over] = "black"
    <2>1. over # nil => h.color[over] \in {"red", "black"}
      BY <1>6, LinkedFacts
    <2> QED
      BY <1>2, <1>3, <1>6, <2>1 DEF Colored, ColoredBut
  <1>8. H \in [Nodes -> Nat] /\ H[nil] = 0
    BY <1>1 DEF Balanced
  <1>9. H[gp] = H[p] + 1 /\ H[uncle] = H[p] /\ H[over] = H[p] /\ H[zz] = H[p] /\ H[p] \in Nat
    BY <1>1, <1>2, <1>3, BalancedAt
  <1> HIDE DEF over
  <1> DEFINE G == [H EXCEPT ![p] = H[gp], ![gp] = H[p]]
  <1>10. /\ G \in [Nodes -> Nat] /\ G[p] = H[gp] /\ G[gp] = H[p]
         /\ \A d \in Nodes : d # p /\ d # gp => G[d] = H[d]
    <2>1. p \in Nodes /\ gp \in Nodes /\ p # gp /\ H[p] \in Nat /\ H[gp] \in Nat
      BY <1>2, <1>3, <1>8
    <2> QED
      BY <1>8, <2>1
  <1> HIDE DEF G
  <1>11. g.color[p] = "black" /\ g.color[gp] = "red"
         /\ \A d \in Nodes : d # p /\ d # gp => g.color[d] = h.color[d]
    BY <1>2, <1>3
  <1>12. ASSUME NEW c \in h.used, NEW t \in Sides
         PROVE  /\ G[f.kid[t][c]] \in Nat
                /\ G[c] = IF g.color[c] = "black" THEN G[f.kid[t][c]] + 1 ELSE G[f.kid[t][c]]
    <2>1. CASE c = gp
      <3>1. f.kid[t][c] \in {uncle, over}
        BY <1>2, <1>5, <2>1
      <3>2. G[f.kid[t][c]] = H[p]
        BY <1>2, <1>3, <1>6, <1>9, <1>10, <3>1
      <3> QED
        BY <1>9, <1>10, <1>11, <2>1, <3>2
    <2>2. CASE c = p
      <3>1. f.kid[t][c] \in {zz, gp}
        BY <1>2, <1>5, <2>2
      <3>2. G[f.kid[t][c]] = H[p]
        BY <1>2, <1>3, <1>9, <1>10, <3>1
      <3> QED
        BY <1>9, <1>10, <1>11, <2>2, <3>2
    <2>3. CASE c # p /\ c # gp
      <3>1. h.kid[t][c] \in Nodes /\ h.kid[t][c] # p /\ c \in Nodes
        BY <1>2, <1>3, <2>3, LinkedFacts
      <3>2. H[c] = (IF h.color[c] = "black" THEN H[h.kid[t][c]] + 1 ELSE H[h.kid[t][c]])
            /\ H[h.kid[t][c]] \in Nat
        BY <1>1, <1>2, BalancedAt
      <3>3. f.kid[t][c] = IF h.kid[t][c] = gp THEN p ELSE h.kid[t][c]
        BY <1>5, <2>3
      <3>4. G[f.kid[t][c]] = H[h.kid[t][c]]
        BY <1>10, <3>1, <3>3
      <3> QED
        BY <1>10, <1>11, <2>3, <3>1, <3>2, <3>4
    <2> QED
      BY <2>1, <2>2, <2>3
  <1>13. Balanced(f, G, nil, "left")
    <2>1. G[nil] = 0
      BY <1>2, <1>3, <1>8, <1>10
    <2> QED
      BY <1>2, <1>5, <1>10, <1>12, <2>1 DEF Balanced, Ink
  <1>14. ASSUME NEW c \in h.used PROVE ~(g.color[c] = "red" /\ g.color[f.parent[c]] = "red")
    <2>0. c \in Nodes /\ h.parent[c] \in Nodes
      BY <1>2, LinkedFacts
    <2>1. CASE c \in {p, gp, over}
      BY <1>2, <1>3, <1>5, <1>6, <1>7, <1>11, <2>0, <2>1
    <2>2. CASE c \notin {p, gp, over}
      <3>1. f.parent[c] = h.parent[c]
        BY <1>5, <2>2
      <3>2. CASE h.parent[c] = gp
        <4>1. c = uncle
          BY <1>2, <1>3, <2>2, <3>2, LinkedFacts, SidesFacts
        <4> QED
          BY <1>11, <2>0, <2>2, <4>1
      <3>3. CASE h.parent[c] # gp
        <4>1. h.color[c] = "red" /\ h.color[h.parent[c]] = "red" => c = zz
          BY DEF Colored, ColoredBut
        <4> QED
          BY <1>3, <1>11, <2>0, <2>2, <3>1, <3>3, <4>1
      <3> QED
        BY <3>2, <3>3
    <2> QED
      BY <2>1, <2>2
  <1>15. g.color[f.root] # "red"
    <2>1. h.root \in Nodes /\ h.color[h.root] # "red"
      BY <1>2, <1>3, LinkedFacts DEF Colored, ColoredBut
    <2> QED
      BY <1>3, <1>5, <1>11, <2>1
  <1>16. g.color[nil] = "black"
    BY <1>2, <1>3, <1>11
  <1> QED
    BY <1>5, <1>13, <1>14, <1>15, <1>16 DEF Colored, ColoredBut

\* A deletion: the subtree of xx, on side s of p, is one black node short; w is
\* the sibling.
Short(h, xx, p, s, w) ==
  /\ s \in Sides /\ p \in h.used /\ w \in h.used /\ xx \in h.used \cup {nil}
  /\ h.kid[s][p] = xx /\ h.kid[Other(s)][p] = w /\ h.parent[w] = p
  /\ w # p /\ w # xx /\ xx # p /\ w # h.root
  /\ h.color[xx] = "black"

\* The sibling is a node: its subtree has a black one.
LEMMA SiblingIsNode ==
  ASSUME NEW h \in Trees, Linked(h), NEW p \in h.used, NEW s \in Sides, Colored(h, {}, p, s),
         NEW xx, xx = h.kid[s][p], h.color[xx] = "black"
  PROVE  Short(h, xx, p, s, h.kid[Other(s)][p])
  <1> DEFINE w == h.kid[Other(s)][p]
  <1>1. PICK H : Balanced(h, H, p, s)
    BY DEF Colored
  <1>2. Other(s) \in Sides /\ Other(s) # s /\ Other(Other(s)) = s
    BY SidesFacts
  <1>3. w # nil
    <2>1. H[p] = H[w] + (IF h.color[p] = "black" THEN 1 ELSE 0) /\ H[w] \in Nat
          /\ H[p] = H[xx] + (IF h.color[p] = "black" THEN 2 ELSE 1) /\ H[xx] \in Nat /\ H[nil] = 0
      BY <1>1, <1>2, BalancedAt
    <2> HIDE DEF w
    <2> QED
      BY <2>1
  <1>4. w \in h.used /\ h.parent[w] = p /\ w # p /\ w # h.root
    BY <1>2, <1>3, LinkedFacts
  <1>5. w # xx
    <2>1. w # nil => w # h.kid[Other(Other(s))][p]
      BY <1>2, LinkedFacts
    <2> QED
      BY <1>2, <1>3, <2>1
  <1>6. xx \in h.used \cup {nil} /\ xx # p
    BY LinkedFacts
  <1> QED
    BY <1>4, <1>5, <1>6 DEF Short

\* A red sibling and the parent change colours and the sibling is rotated above
\* the parent: the next sibling is black.
LEMMA RedSibling ==
  ASSUME NEW h \in Trees, Linked(h), NEW xx, NEW p, NEW s, NEW w, Short(h, xx, p, s, w),
         Colored(h, {}, p, s), h.color[w] = "red",
         NEW g, Recolored(g, h, p, w),
         NEW f \in Trees, Linked(f), Rotated(g, s, p, f)
  PROVE  /\ Colored(f, {}, p, s) /\ f.kid[s][p] = xx /\ f.color[xx] = "black" /\ f.used = h.used
         /\ f.color[f.kid[Other(s)][p]] = "black" /\ (xx = nil => f.parent[xx] = h.parent[xx])
  <1> USE DEF Recolored
  <1>1. PICK H : Balanced(h, H, p, s)
    BY DEF Colored
  <1>2. /\ h.color[nil] = "black" /\ h.used \subseteq Nodes /\ nil \in Nodes /\ nil \notin h.used
        /\ Other(s) \in Sides /\ Other(s) # s /\ Other(Other(s)) = s
        /\ \A t \in Sides : t = s \/ t = Other(s)
    BY LinkedFacts, SidesFacts DEF Colored, Short
  <1>3. /\ s \in Sides /\ p \in h.used /\ w \in h.used /\ xx \in h.used \cup {nil}
        /\ h.kid[s][p] = xx /\ h.kid[Other(s)][p] = w /\ h.parent[w] = p
        /\ w # p /\ w # xx /\ xx # p /\ w # h.root
        /\ h.color[xx] = "black"
    BY DEF Short
  <1>4. g.used = h.used /\ g.kid = h.kid /\ g.parent = h.parent /\ g.root = h.root
    BY DEF SameLinks
  <1> DEFINE over == h.kid[s][w]
             far == h.kid[Other(s)][w]
  <1>5. /\ f.used = h.used /\ f.color = g.color /\ f.parent[nil] = h.parent[nil]
        /\ f.root = IF p = h.root THEN w ELSE h.root
        /\ f.kid[s][p] = xx /\ f.kid[Other(s)][p] = over
        /\ f.kid[s][w] = p /\ f.kid[Other(s)][w] = far
        /\ \A d \in h.used : f.parent[d] = IF d = over THEN p ELSE IF d = w THEN h.parent[p]
                                           ELSE IF d = p THEN w ELSE h.parent[d]
        /\ \A d \in h.used, t \in Sides : d # p /\ d # w =>
              f.kid[t][d] = IF h.kid[t][d] = p THEN w ELSE h.kid[t][d]
    <2>1. w # nil /\ p \in g.used /\ g.kid[Other(s)][p] = w /\ g.kid[s][w] = over
      BY <1>2, <1>3, <1>4
    <2>2. /\ f.used = g.used /\ f.color = g.color /\ f.parent[nil] = g.parent[nil]
          /\ f.root = IF p = g.root THEN w ELSE g.root
          /\ f.kid[s][p] = g.kid[s][p] /\ f.kid[Other(s)][p] = over
          /\ f.kid[s][w] = p /\ f.kid[Other(s)][w] = g.kid[Other(s)][w]
          /\ \A d \in g.used : f.parent[d] = IF d = over THEN p ELSE IF d = w THEN g.parent[p]
                                             ELSE IF d = p THEN w ELSE g.parent[d]
          /\ \A d \in g.used, t \in Sides : d # p /\ d # w =>
                f.kid[t][d] = IF g.kid[t][d] = p THEN w ELSE g.kid[t][d]
      <3> HIDE DEF over
      <3> QED
        BY <1>2, <1>3, <2>1, RotatedLinks
    <2> QED
      BY <1>3, <1>4, <2>2
  <1>6. h.color[p] = "black"
    <2>1. h.color[p] # "red"
      BY <1>3 DEF Colored
    <2> QED
      BY <1>3, <2>1, LinkedFacts
  <1>7. H \in [Nodes -> Nat] /\ H[nil] = 0
    BY <1>1 DEF Balanced
  <1>8. /\ H[p] = H[w] + 1 /\ H[p] = H[xx] + 2 /\ H[w] = H[over] /\ H[w] = H[far]
        /\ H[xx] \in Nat /\ H[w] \in Nat /\ H[p] \in Nat
    <2>1. H[p] = H[w] + 1 /\ H[p] = H[xx] + 2 /\ H[xx] \in Nat /\ H[w] \in Nat /\ H[p] \in Nat
      BY <1>1, <1>2, <1>3, <1>6, BalancedAt
    <2>2. H[w] = H[over] /\ H[w] = H[far]
      BY <1>1, <1>2, <1>3, BalancedAt
    <2> QED
      BY <2>1, <2>2
  <1>9. /\ over \in h.used /\ over # p /\ over # w /\ h.parent[over] = w
        /\ far \in h.used /\ far # p /\ far # w
        /\ over # xx /\ far # xx
    <2>1. over # nil /\ far # nil
      <3> HIDE DEF over, far
      <3>1. H[w] # 0
        BY ONLY <1>8
      <3> QED
        BY ONLY <1>7, <1>8, <3>1
    <2>2. h.parent[over] = w /\ h.parent[far] = w /\ (xx # nil => h.parent[xx] = p)
      BY <1>2, <1>3, <2>1, LinkedFacts
    <2>3. over \in h.used /\ over # w /\ far \in h.used /\ far # w /\ over # p /\ far # p
      BY <1>2, <1>3, <2>1, LinkedFacts
    <2> QED
      BY <1>3, <2>1, <2>2, <2>3
  <1>10. h.color[over] = "black" /\ h.color[far] = "black"
    BY <1>2, <1>3, <1>9, LinkedFacts DEF Colored
  <1> HIDE DEF over, far
  <1>11. /\ g.color[w] = "black" /\ g.color[p] = "red"
         /\ \A d \in Nodes : d # w /\ d # p => g.color[d] = h.color[d]
    BY <1>2, <1>3
  <1> DEFINE G == [H EXCEPT ![w] = H[p], ![p] = H[w]]
  <1>12. /\ G \in [Nodes -> Nat] /\ G[w] = H[p] /\ G[p] = H[w]
         /\ \A d \in Nodes : d # w /\ d # p => G[d] = H[d]
    <2>1. p \in Nodes /\ w \in Nodes /\ p # w /\ H[p] \in Nat /\ H[w] \in Nat
      BY <1>2, <1>3, <1>7
    <2> QED
      BY <1>7, <2>1
  <1> HIDE DEF G
  <1>13. ASSUME NEW c \in h.used, NEW t \in Sides
         PROVE  /\ G[f.kid[t][c]] \in Nat
                /\ G[c] = IF c = p /\ t = s
                          THEN IF g.color[c] = "black" THEN G[f.kid[t][c]] + 2 ELSE G[f.kid[t][c]] + 1
                          ELSE IF g.color[c] = "black" THEN G[f.kid[t][c]] + 1 ELSE G[f.kid[t][c]]
    <2>1. CASE c = p
      <3>1. G[xx] = H[xx] /\ G[over] = H[over]
        BY <1>2, <1>3, <1>9, <1>12
      <3>2. (t = s /\ f.kid[t][c] = xx) \/ (t # s /\ f.kid[t][c] = over)
        BY <1>2, <1>5, <2>1
      <3> QED
        BY <1>8, <1>11, <1>12, <2>1, <3>1, <3>2
    <2>2. CASE c = w
      <3>1. G[far] = H[far]
        BY <1>2, <1>9, <1>12
      <3>2. f.kid[t][c] = p \/ f.kid[t][c] = far
        BY <1>2, <1>5, <2>2
      <3> QED
        BY <1>3, <1>8, <1>11, <1>12, <2>2, <3>1, <3>2
    <2>3. CASE c # p /\ c # w
      <3>1. h.kid[t][c] \in Nodes /\ h.kid[t][c] # w /\ c \in Nodes
        BY <1>2, <1>3, <2>3, LinkedFacts
      <3>2. H[c] = (IF h.color[c] = "black" THEN H[h.kid[t][c]] + 1 ELSE H[h.kid[t][c]])
            /\ H[h.kid[t][c]] \in Nat
        BY <1>1, <1>2, <2>3, BalancedAt
      <3>3. f.kid[t][c] = IF h.kid[t][c] = p THEN w ELSE h.kid[t][c]
        BY <1>5, <2>3
      <3>4. G[f.kid[t][c]] = H[h.kid[t][c]]
        BY <1>12, <3>1, <3>3
      <3> QED
        BY <1>11, <1>12, <2>3, <3>1, <3>2, <3>4
    <2> QED
      BY <2>1, <2>2, <2>3
  <1>14. Balanced(f, G, p, s)
    <2>1. G[nil] = 0
      BY <1>2, <1>3, <1>7, <1>12
    <2> QED
      BY <1>5, <1>12, <1>13, <2>1 DEF Balanced, Ink
  <1>15. ASSUME NEW c \in h.used PROVE ~(g.color[c] = "red" /\ g.color[f.parent[c]] = "red")
    <2>0. c \in Nodes /\ h.parent[c] \in Nodes
      BY <1>2, LinkedFacts
    <2>1. CASE c \in {p, w, over}
      BY <1>2, <1>3, <1>5, <1>9, <1>10, <1>11, <2>0, <2>1
    <2>2. CASE c \notin {p, w, over}
      <3>1. f.parent[c] = h.parent[c]
        BY <1>5, <2>2
      <3>2. CASE h.parent[c] = p
        <4>1. c = xx
          BY <1>2, <1>3, <2>2, <3>2, LinkedFacts, SidesFacts
        <4> QED
          BY <1>3, <1>11, <2>0, <2>2, <4>1
      <3>3. CASE h.parent[c] # p
        <4>1. ~(h.color[c] = "red" /\ h.color[h.parent[c]] = "red")
          BY DEF Colored
        <4> QED
          BY <1>11, <2>0, <2>2, <3>1, <3>3, <4>1
      <3> QED
        BY <3>2, <3>3
    <2> QED
      BY <2>1, <2>2
  <1>16. g.color[f.root] # "red"
    <2>1. h.root \in Nodes /\ h.color[h.root] # "red"
      BY <1>2, <1>3, LinkedFacts DEF Colored
    <2> QED
      BY <1>3, <1>5, <1>11, <2>1
  <1>17. g.color[nil] = "black" /\ g.color[xx] = "black" /\ g.color[over] = "black"
    BY <1>2, <1>3, <1>9, <1>10, <1>11
  <1> QED
    BY <1>5, <1>14, <1>15, <1>16, <1>17 DEF Colored

\* The nodes a deletion that has reached xx may leave red under a red parent.
RedsAt(h, xx) ==
  IF h.color[xx] = "red" THEN {xx} \cup {c \in h.used : h.parent[c] = xx} ELSE {}

\* g is h with w painted red.
Reddened(g, h, w) ==
  /\ SameLinks(g, h)
  /\ \A d \in Nodes : g.color[d] = IF d = w THEN "red" ELSE h.color[d]

\* A deletion: with two black nephews the sibling becomes red, and the parent's
\* subtree is the one that is short.
LEMMA BlackNephews ==
  ASSUME NEW h \in Trees, Linked(h), NEW xx, NEW p, NEW s, NEW w, Short(h, xx, p, s, w),
         Colored(h, {}, p, s), h.color[w] = "black",
         \A t \in Sides : h.color[h.kid[t][w]] = "black",
         NEW g, Reddened(g, h, w)
  PROVE  Colored(g, RedsAt(g, p), g.parent[p], Hangs(g, p))
  <1> USE DEF Reddened
  <1>1. PICK H : Balanced(h, H, p, s)
    BY DEF Colored
  <1>2. /\ h.color[nil] = "black" /\ h.used \subseteq Nodes /\ nil \in Nodes /\ nil \notin h.used
        /\ Other(s) \in Sides /\ Other(s) # s
        /\ \A t \in Sides : t = s \/ t = Other(s)
    BY LinkedFacts, SidesFacts DEF Colored, Short
  <1>3. /\ s \in Sides /\ p \in h.used /\ w \in h.used /\ xx \in h.used \cup {nil}
        /\ h.kid[s][p] = xx /\ h.kid[Other(s)][p] = w /\ h.parent[w] = p
        /\ w # p /\ w # xx /\ xx # p /\ w # h.root
        /\ h.color[xx] = "black"
    BY DEF Short
  <1>4. g.used = h.used /\ g.kid = h.kid /\ g.parent = h.parent /\ g.root = h.root
        /\ \A c : Hangs(g, c) = Hangs(h, c)
    BY DEF SameLinks, Hangs
  <1> DEFINE pp == h.parent[p]
             q == Hangs(h, p)
  <1>5. H \in [Nodes -> Nat] /\ H[nil] = 0
    BY <1>1 DEF Balanced
  <1>6. /\ H[p] = H[w] + (IF h.color[p] = "black" THEN 1 ELSE 0)
        /\ H[p] = H[xx] + (IF h.color[p] = "black" THEN 2 ELSE 1)
        /\ H[xx] \in Nat /\ H[w] \in Nat /\ H[p] \in Nat
        /\ \A t \in Sides : H[w] = H[h.kid[t][w]] + 1 /\ H[h.kid[t][w]] \in Nat
    BY <1>1, <1>2, <1>3, BalancedAt
  <1>7. H[p] - 1 \in Nat /\ H[w] - 1 \in Nat
    BY ONLY <1>6
  <1> DEFINE G == [H EXCEPT ![w] = H[w] - 1, ![p] = H[p] - 1]
  <1>8. /\ G \in [Nodes -> Nat] /\ G[w] = H[w] - 1 /\ G[p] = H[p] - 1
        /\ \A d \in Nodes : d # w /\ d # p => G[d] = H[d]
    <2>1. p \in Nodes /\ w \in Nodes /\ p # w
      BY <1>2, <1>3
    <2> QED
      BY <1>5, <1>7, <2>1
  <1> HIDE DEF G
  <1>9. /\ g.color[w] = "red"
        /\ \A d \in Nodes : d # w => g.color[d] = h.color[d]
    BY <1>2, <1>3
  <1>10. /\ pp \in h.used \cup {nil} /\ pp # p /\ pp # w
         /\ (pp # nil => h.kid[q][pp] = p)
         /\ q \in Sides
    <2>1. pp # w
      <3>1. w # nil => w # h.parent[p]
        BY <1>2, <1>3, LinkedFacts
      <3> QED
        BY <1>2, <1>3, <3>1
    <2> QED
      BY <1>3, <2>1, LinkedFacts, SidesFacts
  <1> HIDE DEF pp, q
  <1>11. ASSUME NEW c \in h.used, NEW t \in Sides
         PROVE  /\ G[h.kid[t][c]] \in Nat
                /\ G[c] = IF c = pp /\ t = q
                          THEN IF g.color[c] = "black" THEN G[h.kid[t][c]] + 2 ELSE G[h.kid[t][c]] + 1
                          ELSE IF g.color[c] = "black" THEN G[h.kid[t][c]] + 1 ELSE G[h.kid[t][c]]
    <2>0. h.kid[t][c] \in Nodes /\ c \in Nodes /\ h.kid[t][c] # c
      BY <1>2, LinkedFacts
    <2>1. CASE c = p
      <3>1. (t = s /\ h.kid[t][c] = xx) \/ (t # s /\ h.kid[t][c] = w)
        BY <1>2, <1>3, <2>1
      <3>2. G[xx] = H[xx]
        BY <1>2, <1>3, <1>8
      <3>3. g.color[c] = h.color[p]
        BY <1>3, <1>9, <2>0, <2>1
      <3> QED
        BY <1>6, <1>8, <1>10, <2>1, <3>1, <3>2, <3>3
    <2>2. CASE c = w
      <3>1. h.kid[t][w] # p
        BY <1>2, <1>3, LinkedFacts
      <3>2. G[h.kid[t][w]] = H[h.kid[t][w]] /\ g.color[w] # "black" /\ w # pp
        BY <1>8, <1>9, <1>10, <2>0, <2>2, <3>1
      <3> QED
        BY <1>6, <1>8, <2>2, <3>2
    <2>3. CASE c # p /\ c # w
      <3>1. h.kid[t][c] # w
        BY <1>2, <1>3, <2>3, LinkedFacts
      <3>2. H[c] = (IF h.color[c] = "black" THEN H[h.kid[t][c]] + 1 ELSE H[h.kid[t][c]])
            /\ H[h.kid[t][c]] \in Nat
        BY <1>1, <1>2, <2>3, BalancedAt
      <3>3. h.kid[t][c] = p <=> c = pp /\ t = q
        <4>1. h.kid[t][c] = p => c = pp /\ t = q
          BY <1>2, <1>3, LinkedFacts DEF pp, q
        <4> QED
          BY <1>2, <1>10, <4>1
      <3>4. G[c] = H[c] /\ g.color[c] = h.color[c]
        BY <1>8, <1>9, <2>0, <2>3
      <3>5. CASE h.kid[t][c] = p
        BY <1>7, <1>8, <3>2, <3>3, <3>4, <3>5
      <3>6. CASE h.kid[t][c] # p
        <4>1. G[h.kid[t][c]] = H[h.kid[t][c]]
          BY <1>8, <2>0, <3>1, <3>6
        <4> QED
          BY <3>2, <3>3, <3>4, <3>6, <4>1
      <3> QED
        BY <3>5, <3>6
    <2> QED
      BY <2>1, <2>2, <2>3
  <1>12. Balanced(g, G, pp, q)
    <2>1. G[nil] = 0
      BY <1>2, <1>3, <1>5, <1>8
    <2> QED
      BY <1>4, <1>8, <1>11, <2>1 DEF Balanced, Ink
  <1>13. ASSUME NEW c \in h.used, g.color[c] = "red", g.color[h.parent[c]] = "red"
         PROVE  c = w /\ g.color[p] = "red"
    <2>0. c \in Nodes /\ h.parent[c] \in Nodes
      BY <1>2, LinkedFacts
    <2>1. CASE c = w
      BY <1>3, <1>13, <2>1
    <2>2. CASE c # w
      <3>1. h.color[c] = "red"
        BY <1>9, <1>13, <2>0, <2>2
      <3>2. h.parent[c] # w
        <4>1. h.parent[c] = w => \E t \in Sides : h.kid[t][w] = c
          BY <1>2, <1>3, LinkedFacts, SidesFacts
        <4> QED
          BY <3>1, <4>1
      <3>3. h.color[h.parent[c]] = "red"
        BY <1>9, <1>13, <2>0, <3>2
      <3> QED
        BY <3>1, <3>3 DEF Colored
    <2> QED
      BY <2>1, <2>2
  <1>14. g.color[h.root] # "red"
    <2>1. h.root \in Nodes /\ h.color[h.root] # "red"
      BY <1>2, <1>3, LinkedFacts DEF Colored
    <2> QED
      BY <1>3, <1>9, <2>1
  <1>15. g.color[nil] = "black"
    BY <1>2, <1>3, <1>9
  <1>16. \A c \in h.used : g.color[c] = "red" /\ g.color[h.parent[c]] = "red" => c \in RedsAt(g, p)
    BY <1>3, <1>4, <1>13 DEF RedsAt
  <1> QED
    BY <1>4, <1>12, <1>14, <1>15, <1>16 DEF Colored, pp, q

\* A deletion: only the nearer nephew is red: it becomes black, the sibling
\* red, and the nephew is rotated above the sibling.
LEMMA NearNephew ==
  ASSUME NEW h \in Trees, Linked(h), NEW xx, NEW p, NEW s, NEW w, Short(h, xx, p, s, w),
         Colored(h, {}, p, s), h.color[w] = "black", NEW near, near = h.kid[s][w],
         h.color[near] = "red", h.color[h.kid[Other(s)][w]] = "black",
         NEW g, Recolored(g, h, w, near),
         NEW f \in Trees, Linked(f), Rotated(g, Other(s), w, f)
  PROVE  /\ Colored(f, {}, p, s) /\ Short(f, xx, p, s, near) /\ f.used = h.used
         /\ f.color[near] = "black" /\ f.kid[Other(s)][near] = w /\ f.color[w] = "red"
  <1> USE DEF Recolored
  <1>1. PICK H : Balanced(h, H, p, s)
    BY DEF Colored
  <1>2. /\ h.color[nil] = "black" /\ h.used \subseteq Nodes /\ nil \in Nodes /\ nil \notin h.used
        /\ Other(s) \in Sides /\ Other(s) # s /\ Other(Other(s)) = s
        /\ \A t \in Sides : t = s \/ t = Other(s)
    BY LinkedFacts, SidesFacts DEF Colored, Short
  <1>3. /\ s \in Sides /\ p \in h.used /\ w \in h.used /\ xx \in h.used \cup {nil}
        /\ h.kid[s][p] = xx /\ h.kid[Other(s)][p] = w /\ h.parent[w] = p
        /\ w # p /\ w # xx /\ xx # p /\ w # h.root
        /\ h.color[xx] = "black"
    BY DEF Short
  <1>4. g.used = h.used /\ g.kid = h.kid /\ g.parent = h.parent /\ g.root = h.root
    BY DEF SameLinks
  <1> DEFINE over == h.kid[Other(s)][near]
             far == h.kid[Other(s)][w]
             inner == h.kid[s][near]
  <1>5. /\ near \in h.used /\ near # w /\ near # p /\ h.parent[near] = w /\ near # h.root
        /\ near # xx /\ near # far
        /\ far \in h.used \cup {nil} /\ far # w /\ far # p
    <2>1. near # nil
      BY <1>2
    <2>2. near \in h.used /\ near # w /\ h.parent[near] = w /\ near # h.root /\ near # p /\ near # far
      BY <1>3, <2>1, LinkedFacts
    <2>3. xx # nil => h.parent[xx] = p
      BY <1>3, LinkedFacts
    <2>4. far \in h.used \cup {nil} /\ far # w /\ (far # nil => far # h.parent[w])
      BY <1>2, <1>3, LinkedFacts
    <2> QED
      BY <1>2, <1>3, <2>1, <2>2, <2>3, <2>4
  <1>6. /\ f.used = h.used /\ f.color = g.color
        /\ f.root = h.root
        /\ f.kid[Other(s)][w] = far /\ f.kid[s][w] = over
        /\ f.kid[Other(s)][near] = w /\ f.kid[s][near] = inner
        /\ \A d \in h.used : f.parent[d] = IF d = over THEN w ELSE IF d = near THEN p
                                           ELSE IF d = w THEN near ELSE h.parent[d]
        /\ \A d \in h.used, t \in Sides : d # w /\ d # near =>
              f.kid[t][d] = IF h.kid[t][d] = w THEN near ELSE h.kid[t][d]
    <2>1. near # nil /\ w \in g.used /\ g.kid[s][w] = near /\ g.kid[Other(s)][near] = over
      BY <1>2, <1>3, <1>4, <1>5
    <2>2. /\ f.used = g.used /\ f.color = g.color
          /\ f.root = IF w = g.root THEN near ELSE g.root
          /\ f.kid[Other(s)][w] = g.kid[Other(s)][w] /\ f.kid[s][w] = over
          /\ f.kid[Other(s)][near] = w /\ f.kid[s][near] = g.kid[s][near]
          /\ \A d \in g.used : f.parent[d] = IF d = over THEN w ELSE IF d = near THEN g.parent[w]
                                             ELSE IF d = w THEN near ELSE g.parent[d]
          /\ \A d \in g.used, t \in Sides : d # w /\ d # near =>
                f.kid[t][d] = IF g.kid[t][d] = w THEN near ELSE g.kid[t][d]
      <3> HIDE DEF over
      <3>1. Other(s) \in Sides /\ s = Other(Other(s)) /\ near = g.kid[s][w] /\ over = g.kid[Other(s)][near]
        BY <1>2, <2>1
      <3>2. w \in g.used /\ near # nil /\ g \in Trees /\ Linked(g) /\ Rotated(g, Other(s), w, f)
        BY <2>1
      <3> QED
        BY ONLY <3>1, <3>2, RotatedLinks
    <2> QED
      BY <1>3, <1>4, <2>2
  <1>7. H \in [Nodes -> Nat] /\ H[nil] = 0
    BY <1>1 DEF Balanced
  <1>8. /\ H[w] = H[near] + 1 /\ H[far] = H[near] /\ H[over] = H[near] /\ H[inner] = H[near]
        /\ H[near] \in Nat /\ H[w] \in Nat
    <2>1. H[w] = H[near] + 1 /\ H[w] = H[far] + 1 /\ H[near] \in Nat /\ H[far] \in Nat /\ H[w] \in Nat
      BY <1>1, <1>2, <1>3, BalancedAt
    <2>2. H[near] = H[over] /\ H[near] = H[inner]
      BY <1>1, <1>2, <1>3, <1>5, BalancedAt
    <2> QED
      BY <2>1, <2>2
  <1>9. /\ over \in h.used \cup {nil} /\ over # near /\ over # w
        /\ inner \in h.used \cup {nil} /\ inner # near /\ inner # w
    <2>1. /\ over \in h.used \cup {nil} /\ over # near /\ (over # nil => over # h.parent[near])
          /\ inner \in h.used \cup {nil} /\ inner # near /\ (inner # nil => inner # h.parent[near])
      BY <1>2, <1>3, <1>5, LinkedFacts
    <2> QED
      BY <1>2, <1>3, <1>5, <2>1
  <1>10. h.color[over] = "black"
    <2>1. over # nil => h.parent[over] = near
      BY <1>2, <1>5, LinkedFacts
    <2>2. over # nil => h.color[over] \in {"red", "black"}
      BY <1>9, LinkedFacts
    <2> QED
      BY <1>2, <1>9, <2>1, <2>2 DEF Colored
  <1> HIDE DEF over, far, inner
  <1>11. /\ g.color[w] = "red" /\ g.color[near] = "black"
         /\ \A d \in Nodes : d # w /\ d # near => g.color[d] = h.color[d]
    BY <1>2, <1>3, <1>5
  <1> DEFINE G == [H EXCEPT ![w] = H[near], ![near] = H[w]]
  <1>12. /\ G \in [Nodes -> Nat] /\ G[w] = H[near] /\ G[near] = H[w]
         /\ \A d \in Nodes : d # w /\ d # near => G[d] = H[d]
    <2>1. near \in Nodes /\ w \in Nodes /\ near # w /\ H[near] \in Nat /\ H[w] \in Nat
      BY <1>2, <1>3, <1>5, <1>7
    <2> QED
      BY <1>7, <2>1
  <1> HIDE DEF G
  <1>13. ASSUME NEW c \in h.used, NEW t \in Sides
         PROVE  /\ G[f.kid[t][c]] \in Nat
                /\ G[c] = IF c = p /\ t = s
                          THEN IF g.color[c] = "black" THEN G[f.kid[t][c]] + 2 ELSE G[f.kid[t][c]] + 1
                          ELSE IF g.color[c] = "black" THEN G[f.kid[t][c]] + 1 ELSE G[f.kid[t][c]]
    <2>1. CASE c = w
      <3>1. G[far] = H[far] /\ G[over] = H[over]
        BY <1>2, <1>5, <1>9, <1>12
      <3>2. f.kid[t][c] = far \/ f.kid[t][c] = over
        BY <1>2, <1>6, <2>1
      <3> QED
        BY <1>3, <1>8, <1>11, <1>12, <2>1, <3>1, <3>2
    <2>2. CASE c = near
      <3>1. G[inner] = H[inner]
        BY <1>2, <1>9, <1>12
      <3>2. f.kid[t][c] = w \/ f.kid[t][c] = inner
        BY <1>2, <1>6, <2>2
      <3> QED
        BY <1>5, <1>8, <1>11, <1>12, <2>2, <3>1, <3>2
    <2>3. CASE c # w /\ c # near
      <3>1. h.kid[t][c] \in Nodes /\ h.kid[t][c] # near /\ c \in Nodes
        BY <1>2, <1>5, <2>3, LinkedFacts
      <3>2. h.color[c] \in {"red", "black"} /\ H[h.kid[t][c]] \in Nat
            /\ H[c] = IF c = p /\ t = s
                      THEN IF h.color[c] = "black" THEN H[h.kid[t][c]] + 2 ELSE H[h.kid[t][c]] + 1
                      ELSE IF h.color[c] = "black" THEN H[h.kid[t][c]] + 1 ELSE H[h.kid[t][c]]
        BY <1>1, <1>2, LinkedFacts, BalancedAt
      <3>3. f.kid[t][c] = IF h.kid[t][c] = w THEN near ELSE h.kid[t][c]
        BY <1>6, <2>3
      <3>4. G[f.kid[t][c]] = H[h.kid[t][c]]
        BY <1>12, <3>1, <3>3
      <3> QED
        BY <1>11, <1>12, <2>3, <3>1, <3>2, <3>4
    <2> QED
      BY <2>1, <2>2, <2>3
  <1>14. Balanced(f, G, p, s)
    <2>1. G[nil] = 0
      BY <1>2, <1>3, <1>5, <1>7, <1>12
    <2> QED
      BY <1>6, <1>12, <1>13, <2>1 DEF Balanced, Ink
  <1>15. ASSUME NEW c \in h.used PROVE ~(g.color[c] = "red" /\ g.color[f.parent[c]] = "red")
    <2>0. c \in Nodes /\ h.parent[c] \in Nodes
      BY <1>2, LinkedFacts
    <2>1. CASE c \in {near, w, over}
      BY <1>2, <1>3, <1>5, <1>6, <1>9, <1>10, <1>11, <2>0, <2>1
    <2>2. CASE c \notin {near, w, over}
      <3>1. f.parent[c] = h.parent[c]
        BY <1>6, <2>2
      <3>2. CASE h.parent[c] = w
        <4>1. c = far
          BY <1>2, <1>3, <2>2, <3>2, LinkedFacts, SidesFacts DEF far
        <4> QED
          BY <1>11, <2>0, <2>2, <4>1 DEF far
      <3>3. CASE h.parent[c] # w
        <4>1. ~(h.color[c] = "red" /\ h.color[h.parent[c]] = "red")
          BY DEF Colored
        <4> QED
          BY <1>11, <2>0, <2>2, <3>1, <3>3, <4>1
      <3> QED
        BY <3>2, <3>3
    <2> QED
      BY <2>1, <2>2
  <1>16. g.color[f.root] # "red"
    <2>1. h.root \in Nodes /\ h.color[h.root] # "red"
      BY <1>2, <1>3, LinkedFacts DEF Colored
    <2> QED
      BY <1>3, <1>5, <1>6, <1>11, <2>1
  <1>17. g.color[nil] = "black" /\ g.color[xx] = "black"
    BY <1>2, <1>3, <1>5, <1>11
  <1>18. Short(f, xx, p, s, near)
    <2>1. f.kid[s][p] = xx /\ f.kid[Other(s)][p] = near
      BY <1>2, <1>3, <1>5, <1>6
    <2>2. f.parent[near] = p
      BY <1>5, <1>6, <1>9
    <2> QED
      BY <1>3, <1>5, <1>6, <1>17, <2>1, <2>2 DEF Short
  <1> QED
    BY <1>6, <1>11, <1>14, <1>15, <1>16, <1>17, <1>18 DEF Colored

\* g is h with the colour of p at w, and p and far black.
Settled(g, h, w, p, far) ==
  /\ g \in Trees /\ Linked(g) /\ SameLinks(g, h)
  /\ \A d \in Nodes : g.color[d] = IF d = w THEN h.color[p]
                                   ELSE IF d = p \/ d = far THEN "black" ELSE h.color[d]

\* A deletion: the farther nephew is red: it becomes black, the sibling takes
\* the colour of the parent, which becomes black and is rotated below it; no
\* path is short any more.
LEMMA FarNephew ==
  ASSUME NEW h \in Trees, Linked(h), NEW xx, NEW p, NEW s, NEW w, Short(h, xx, p, s, w),
         Colored(h, {}, p, s), h.color[w] = "black", NEW far, far = h.kid[Other(s)][w],
         h.color[far] = "red",
         NEW g, Settled(g, h, w, p, far),
         NEW f \in Trees, Rotated(g, s, p, f)
  PROVE  Colored(f, {}, nil, "left")
  <1> USE DEF Settled
  <1>1. PICK H : Balanced(h, H, p, s)
    BY DEF Colored
  <1>2. /\ h.color[nil] = "black" /\ h.used \subseteq Nodes /\ nil \in Nodes /\ nil \notin h.used
        /\ Other(s) \in Sides /\ Other(s) # s /\ Other(Other(s)) = s
        /\ \A t \in Sides : t = s \/ t = Other(s)
    BY LinkedFacts, SidesFacts DEF Colored, Short
  <1>3. /\ s \in Sides /\ p \in h.used /\ w \in h.used /\ xx \in h.used \cup {nil}
        /\ h.kid[s][p] = xx /\ h.kid[Other(s)][p] = w /\ h.parent[w] = p
        /\ w # p /\ w # xx /\ xx # p /\ w # h.root
        /\ h.color[xx] = "black"
    BY DEF Short
  <1>4. g.used = h.used /\ g.kid = h.kid /\ g.parent = h.parent /\ g.root = h.root
    BY DEF SameLinks
  <1> DEFINE over == h.kid[s][w]
  <1>5. /\ far \in h.used /\ far # w /\ far # p /\ h.parent[far] = w /\ far # h.root
        /\ far # xx /\ far # over
        /\ over \in h.used \cup {nil} /\ over # w /\ over # p /\ (over # xx \/ over = nil)
    <2>1. far # nil
      BY <1>2
    <2>2. /\ far \in h.used /\ far # w /\ h.parent[far] = w /\ far # h.root /\ far # p /\ far # over
      BY <1>2, <1>3, <2>1, LinkedFacts
    <2>3. xx # nil => h.parent[xx] = p
      BY <1>3, LinkedFacts
    <2>4. over \in h.used \cup {nil} /\ over # w /\ (over # nil => over # h.parent[w] /\ h.parent[over] = w)
      BY <1>2, <1>3, LinkedFacts
    <2> QED
      BY <1>2, <1>3, <2>1, <2>2, <2>3, <2>4
  <1>6. /\ f.used = h.used /\ f.color = g.color
        /\ f.root = IF p = h.root THEN w ELSE h.root
        /\ f.kid[s][p] = xx /\ f.kid[Other(s)][p] = over
        /\ f.kid[s][w] = p /\ f.kid[Other(s)][w] = far
        /\ \A d \in h.used : f.parent[d] = IF d = over THEN p ELSE IF d = w THEN h.parent[p]
                                           ELSE IF d = p THEN w ELSE h.parent[d]
        /\ \A d \in h.used, t \in Sides : d # p /\ d # w =>
              f.kid[t][d] = IF h.kid[t][d] = p THEN w ELSE h.kid[t][d]
    <2>1. w # nil /\ p \in g.used /\ g.kid[Other(s)][p] = w /\ g.kid[s][w] = over
      BY <1>2, <1>3, <1>4
    <2>2. /\ f.used = g.used /\ f.color = g.color
          /\ f.root = IF p = g.root THEN w ELSE g.root
          /\ f.kid[s][p] = g.kid[s][p] /\ f.kid[Other(s)][p] = over
          /\ f.kid[s][w] = p /\ f.kid[Other(s)][w] = g.kid[Other(s)][w]
          /\ \A d \in g.used : f.parent[d] = IF d = over THEN p ELSE IF d = w THEN g.parent[p]
                                             ELSE IF d = p THEN w ELSE g.parent[d]
          /\ \A d \in g.used, t \in Sides : d # p /\ d # w =>
                f.kid[t][d] = IF g.kid[t][d] = p THEN w ELSE g.kid[t][d]
      <3> HIDE DEF over
      <3> QED
        BY <1>2, <1>3, <2>1, RotatedLinks
    <2> QED
      BY <1>3, <1>4, <2>2
  <1>7. H \in [Nodes -> Nat] /\ H[nil] = 0
    BY <1>1 DEF Balanced
  <1>8. /\ H[w] = H[over] + 1 /\ H[w] = H[far] + 1 /\ H[w] = H[xx] + 1
        /\ H[p] = H[w] + (IF h.color[p] = "black" THEN 1 ELSE 0)
        /\ H[xx] \in Nat /\ H[w] \in Nat /\ H[p] \in Nat /\ H[over] \in Nat /\ H[far] \in Nat
    <2>1. /\ H[p] = H[w] + (IF h.color[p] = "black" THEN 1 ELSE 0)
          /\ H[p] = H[xx] + (IF h.color[p] = "black" THEN 2 ELSE 1)
          /\ H[xx] \in Nat /\ H[w] \in Nat /\ H[p] \in Nat
      BY <1>1, <1>2, <1>3, BalancedAt
    <2>2. H[w] = H[over] + 1 /\ H[w] = H[far] + 1 /\ H[over] \in Nat /\ H[far] \in Nat
      BY <1>1, <1>2, <1>3, BalancedAt
    <2> HIDE DEF over
    <2>3. H[w] = H[xx] + 1
      BY ONLY <2>1
    <2> QED
      BY <2>1, <2>2, <2>3
  <1> HIDE DEF over
  <1>9. h.color[p] \in {"red", "black"}
    BY <1>3, LinkedFacts
  <1>10. /\ g.color[w] = h.color[p] /\ g.color[p] = "black" /\ g.color[far] = "black"
         /\ \A d \in Nodes : d # w /\ d # p /\ d # far => g.color[d] = h.color[d]
    BY <1>2, <1>3, <1>5
  <1> DEFINE G == [H EXCEPT ![w] = H[p], ![p] = H[w], ![far] = H[w]]
  <1>11. /\ G \in [Nodes -> Nat] /\ G[w] = H[p] /\ G[p] = H[w] /\ G[far] = H[w]
         /\ \A d \in Nodes : d # w /\ d # p /\ d # far => G[d] = H[d]
    <2>1. p \in Nodes /\ w \in Nodes /\ far \in Nodes /\ p # w /\ far # p /\ far # w /\ H[p] \in Nat /\ H[w] \in Nat
      BY <1>2, <1>3, <1>5, <1>7
    <2> QED
      BY <1>7, <2>1
  <1> HIDE DEF G
  <1>12. ASSUME NEW c \in h.used, NEW t \in Sides
         PROVE  /\ G[f.kid[t][c]] \in Nat
                /\ G[c] = IF g.color[c] = "black" THEN G[f.kid[t][c]] + 1 ELSE G[f.kid[t][c]]
    <2>1. CASE c = p
      <3>1. G[xx] = H[xx] /\ G[over] = H[over]
        BY <1>2, <1>3, <1>5, <1>11
      <3>2. f.kid[t][c] = xx \/ f.kid[t][c] = over
        BY <1>2, <1>6, <2>1
      <3> QED
        BY <1>8, <1>10, <1>11, <2>1, <3>1, <3>2
    <2>2. CASE c = w
      <3>1. f.kid[t][c] = p \/ f.kid[t][c] = far
        BY <1>2, <1>6, <2>2
      <3> QED
        BY <1>3, <1>8, <1>10, <1>11, <2>2, <3>1
    <2>3. CASE c # p /\ c # w
      <3>1. h.kid[t][c] \in Nodes /\ h.kid[t][c] # w /\ h.kid[t][c] # far /\ c \in Nodes
        BY <1>2, <1>3, <1>5, <2>3, LinkedFacts
      <3>2. H[c] = (IF h.color[c] = "black" THEN H[h.kid[t][c]] + 1 ELSE H[h.kid[t][c]])
            /\ H[h.kid[t][c]] \in Nat
        BY <1>1, <1>2, <2>3, BalancedAt
      <3>3. f.kid[t][c] = IF h.kid[t][c] = p THEN w ELSE h.kid[t][c]
        BY <1>6, <2>3
      <3>4. G[f.kid[t][c]] = H[h.kid[t][c]]
        BY <1>11, <3>1, <3>3
      <3>5. CASE c = far
        BY <1>8, <1>10, <1>11, <3>2, <3>4, <3>5
      <3>6. CASE c # far
        BY <1>10, <1>11, <2>3, <3>1, <3>2, <3>4, <3>6
      <3> QED
        BY <3>5, <3>6
    <2> QED
      BY <2>1, <2>2, <2>3
  <1>13. Balanced(f, G, nil, "left")
    <2>1. G[nil] = 0
      BY <1>2, <1>3, <1>5, <1>7, <1>11
    <2> QED
      BY <1>2, <1>6, <1>11, <1>12, <2>1 DEF Balanced, Ink
  <1>14. ASSUME NEW c \in h.used PROVE ~(g.color[c] = "red" /\ g.color[f.parent[c]] = "red")
    <2>0. c \in Nodes /\ h.parent[c] \in Nodes
      BY <1>2, LinkedFacts
    <2>1. ~(h.color[c] = "red" /\ h.color[h.parent[c]] = "red")
      BY DEF Colored
    <2>2. CASE c \in {p, far, over}
      BY <1>2, <1>3, <1>5, <1>6, <1>10, <2>0, <2>2
    <2>3. CASE c = w
      <3>1. f.parent[c] = h.parent[p] /\ h.parent[p] \in Nodes /\ h.parent[p] # p
        BY <1>2, <1>3, <1>5, <1>6, <2>3, LinkedFacts
      <3>2. ~(h.color[p] = "red" /\ h.color[h.parent[p]] = "red")
        BY <1>3 DEF Colored
      <3>3. h.parent[p] # w
        BY <1>2, <1>3, LinkedFacts
      <3> QED
        BY <1>10, <2>3, <3>1, <3>2, <3>3
    <2>4. CASE c \notin {p, w, far, over}
      <3>1. f.parent[c] = h.parent[c]
        BY <1>6, <2>4
      <3>2. h.parent[c] # w
        BY <1>2, <1>3, <2>4, LinkedFacts, SidesFacts DEF over
      <3> QED
        BY <1>10, <2>0, <2>1, <2>4, <3>1, <3>2
    <2> QED
      BY <2>2, <2>3, <2>4
  <1>15. g.color[f.root] # "red"
    <2>1. h.root \in Nodes /\ h.color[h.root] # "red"
      BY <1>2, <1>3, LinkedFacts DEF Colored
    <2> QED
      BY <1>3, <1>5, <1>6, <1>10, <2>1
  <1>16. g.color[nil] = "black"
    BY <1>2, <1>3, <1>5, <1>10
  <1> QED
    BY <1>6, <1>13, <1>14, <1>15, <1>16 DEF Colored
-----------------------------------------------------------------------------
(* The steps of the two fixups *)

\* The cells that are free have no children.
FreeClean(h) == \A c \in Cells \ h.used, s \in Sides : h.kid[s][c] = nil

\* g is a search tree of the nodes and keys of h.
Reshaped(g, h) ==
  /\ SearchTree(g) /\ g.used = h.used /\ g.key = h.key
  /\ FreeClean(h) => FreeClean(g)

\* The two colours.
Colors == {"red", "black"}

\* One, two or three nodes get a new colour.
Paint(h, a, u)              == [h EXCEPT !.color[a] = u]
PaintTwo(h, a, u, b, v)     == [h EXCEPT !.color[a] = u, !.color[b] = v]
PaintThree(h, a, u, b, v, c) == [h EXCEPT !.color[a] = u, !.color[b] = "black", !.color[c] = v]

\* New colours change no link, and only those nodes.
LEMMA PaintFacts ==
  ASSUME NEW h \in Trees, NEW a \in Nodes, NEW u \in Colors
  PROVE  /\ SameLinks(Paint(h, a, u), h)
         /\ \A d \in Nodes : Paint(h, a, u).color[d] = IF d = a THEN u ELSE h.color[d]
  BY DEF Trees, SameLinks, Paint, Colors

\* As PaintFacts.
LEMMA PaintTwoFacts ==
  ASSUME NEW h \in Trees, NEW a \in Nodes, NEW u \in Colors, NEW b \in Nodes, NEW v \in Colors
  PROVE  /\ SameLinks(PaintTwo(h, a, u, b, v), h)
         /\ \A d \in Nodes : PaintTwo(h, a, u, b, v).color[d] =
                                IF d = b THEN v ELSE IF d = a THEN u ELSE h.color[d]
  BY DEF Trees, SameLinks, PaintTwo, Colors

\* As PaintFacts.
LEMMA PaintThreeFacts ==
  ASSUME NEW h \in Trees, NEW a \in Nodes, NEW u \in Colors, NEW b \in Nodes,
         NEW c \in Nodes, NEW v \in Colors
  PROVE  /\ SameLinks(PaintThree(h, a, u, b, v, c), h)
         /\ \A d \in Nodes : PaintThree(h, a, u, b, v, c).color[d] =
                                IF d = c THEN v ELSE IF d = b THEN "black" ELSE IF d = a THEN u ELSE h.color[d]
  BY DEF Trees, SameLinks, PaintThree, Colors

\* Red and black are colours.
LEMMA ColorFacts == "red" \in Colors /\ "black" \in Colors
  BY DEF Colors

\* New colours reshape nothing.
LEMMA PaintReshapes ==
  ASSUME NEW h, SearchTree(h), NEW g, SameLinks(g, h) PROVE Reshaped(g, h) /\ Linked(g) /\ g \in Trees
  <1>1. SearchTree(g)
    BY SameTree
  <1> QED
    BY <1>1, TreeLinked DEF Reshaped, SameLinks, FreeClean

\* A rotation keeps the nodes, the keys and their order.
LEMMA RotateReshapes ==
  ASSUME NEW h, SearchTree(h), NEW s \in Sides, NEW c \in h.used, h.kid[Other(s)][c] # nil,
         NEW g, g = rotate(h, s, c)
  PROVE  Reshaped(g, h) /\ Rotated(h, s, c, g) /\ g \in Trees /\ Linked(g)
  <1>1. Rotated(h, s, c, g) /\ SearchTree(g)
    BY RotateTree
  <1>2. h \in Trees /\ Linked(h) /\ g \in Trees /\ Linked(g)
    BY <1>1, TreeLinked
  <1>3. h.kid[Other(s)][c] \in h.used /\ h.parent[c] \in h.used \cup {nil} /\ nil \notin h.used
    BY <1>2, LinkedFacts, SidesFacts
  <1>4. FreeClean(h) => FreeClean(g)
    BY <1>1, <1>3, RBAssumption DEF FreeClean, Rotated
  <1> QED
    BY <1>1, <1>2, <1>4 DEF Reshaped, Rotated

\* Reshaping twice is reshaping.
LEMMA ReshapedTwice ==
  ASSUME NEW h, NEW g, NEW f, Reshaped(g, h), Reshaped(f, g) PROVE Reshaped(f, h)
  BY DEF Reshaped

\* rbtree_insert_fixup with a red uncle.
LEMMA RedUncleStep ==
  ASSUME NEW h, SearchTree(h), NEW zz, NEW p, NEW gp, NEW s, NEW uncle,
         RedParent(h, zz, p, gp, s, uncle), ColoredBut(h, zz), h.color[uncle] = "red",
         NEW g, g = PaintThree(h, p, "black", uncle, "red", gp)
  PROVE  Reshaped(g, h) /\ gp \in g.used /\ g.color[gp] = "red" /\ ColoredBut(g, gp)
  <1>1. h \in Trees /\ Linked(h)
    BY TreeLinked
  <1>2. RedParent(h, zz, p, gp, s, uncle)
    OBVIOUS
  <1>3. p \in Nodes /\ gp \in Nodes /\ uncle \in Nodes /\ gp \in h.used
    BY <1>1, <1>2, NodeFacts DEF RedParent
  <1>4. /\ SameLinks(g, h)
        /\ \A d \in Nodes : g.color[d] = IF d = gp THEN "red" ELSE IF d = uncle THEN "black"
                                         ELSE IF d = p THEN "black" ELSE h.color[d]
    <2>1. g = PaintThree(h, p, "black", uncle, "red", gp)
      OBVIOUS
    <2> QED
      BY ONLY <1>1, <1>3, <2>1, ColorFacts, PaintThreeFacts
  <1>5. ColoredBut(g, gp)
    <2>1. \A d \in Nodes : g.color[d] = IF d = gp THEN "red"
                                        ELSE IF d = p \/ d = uncle THEN "black" ELSE h.color[d]
      BY <1>4
    <2>2. ColoredBut(h, zz) /\ h.color[uncle] = "red"
      OBVIOUS
    <2> QED
      BY ONLY <1>1, <1>2, <1>4, <2>1, <2>2, RedUncle
  <1>6. g.color[gp] = "red" /\ Reshaped(g, h)
    BY <1>3, <1>4, PaintReshapes
  <1> QED
    BY <1>3, <1>5, <1>6 DEF Reshaped

\* rbtree_insert_fixup with a black uncle, zz on the side of its parent: one
\* rotation.
LEMMA OuterStep ==
  ASSUME NEW h, SearchTree(h), NEW zz, NEW p, NEW gp, NEW s, NEW uncle,
         RedParent(h, zz, p, gp, s, uncle), ColoredBut(h, zz),
         h.kid[s][p] = zz, h.color[uncle] = "black",
         NEW g, g = PaintTwo(h, p, "black", gp, "red"),
         NEW f, f = rotate(g, Other(s), gp)
  PROVE  Reshaped(f, h) /\ f.color[p] = "black" /\ f.color[zz] = "red" /\ Colored(f, {}, nil, "left")
  <1>1. h \in Trees /\ Linked(h)
    BY TreeLinked
  <1>2. /\ p \in Nodes /\ gp \in Nodes /\ zz \in Nodes /\ gp \in h.used /\ p # nil /\ s \in Sides
        /\ h.kid[s][gp] = p /\ zz # p /\ zz # gp /\ p # gp /\ h.color[zz] = "red"
    BY <1>1, NodeFacts DEF RedParent
  <1>3. Other(s) \in Sides /\ Other(Other(s)) = s
    BY <1>2, SidesFacts
  <1>4. /\ SameLinks(g, h)
        /\ \A d \in Nodes : g.color[d] = IF d = gp THEN "red" ELSE IF d = p THEN "black" ELSE h.color[d]
    BY <1>1, <1>2, ColorFacts, PaintTwoFacts
  <1>5. Reshaped(g, h) /\ g \in Trees /\ Linked(g) /\ SearchTree(g)
    BY <1>4, PaintReshapes DEF Reshaped
  <1>6. gp \in g.used /\ g.kid[Other(Other(s))][gp] # nil
    BY <1>2, <1>3, <1>4 DEF SameLinks
  <1>7. Reshaped(f, g) /\ Rotated(g, Other(s), gp, f) /\ f \in Trees
    BY <1>3, <1>5, <1>6, RotateReshapes
  <1>9. Recolored(g, h, gp, p)
    BY <1>4, <1>5 DEF Recolored
  <1>8. Colored(f, {}, nil, "left")
    <2>1. /\ RedParent(h, zz, p, gp, s, uncle) /\ ColoredBut(h, zz)
          /\ h.kid[s][p] = zz /\ h.color[uncle] = "black"
      OBVIOUS
    <2> QED
      BY ONLY <1>1, <1>7, <1>9, <2>1, OuterChild
  <1>10. f.color = g.color
    BY <1>7 DEF Rotated
  <1> QED
    BY <1>2, <1>4, <1>5, <1>7, <1>8, <1>10, ReshapedTwice

\* What holds with no exception holds with one.
LEMMA ColoredMore ==
  ASSUME NEW h, NEW reds, NEW p, NEW q, Colored(h, {}, p, q) PROVE Colored(h, reds, p, q)
  BY DEF Colored

\* rbtree_insert_fixup with a black uncle, zz on the other side: the first of
\* two rotations.
LEMMA InnerStep ==
  ASSUME NEW h, SearchTree(h), NEW zz, NEW p, NEW gp, NEW s, NEW uncle,
         RedParent(h, zz, p, gp, s, uncle), ColoredBut(h, zz),
         h.kid[Other(s)][p] = zz, h.color[uncle] = "black", NEW e, e = rotate(h, s, p)
  PROVE  /\ Reshaped(e, h) /\ SearchTree(e) /\ e.color[uncle] = "black"
         /\ RedParent(e, p, zz, gp, s, uncle) /\ ColoredBut(e, p) /\ e.kid[s][zz] = p
  <1>1. h \in Trees /\ Linked(h)
    BY TreeLinked
  <1>2. s \in Sides /\ p \in h.used /\ h.kid[Other(s)][p] # nil
    BY <1>1, NodeFacts DEF RedParent
  <1>3. Reshaped(e, h) /\ Rotated(h, s, p, e) /\ e \in Trees
    BY <1>2, RotateReshapes
  <1>4. RedParent(e, p, zz, gp, s, uncle) /\ ColoredBut(e, p) /\ e.kid[s][zz] = p
    BY <1>1, <1>3, InnerChild
  <1> QED
    BY <1>3, <1>4 DEF Reshaped, Rotated

\* rbtree_insert_fixup with a black uncle: one rotation or two.
LEMMA BlackUncleStep ==
  ASSUME NEW h, SearchTree(h), NEW zz \in h.used, h.color[zz] = "red", ColoredBut(h, zz),
         NEW p, p = h.parent[zz], h.color[p] = "red", NEW gp, gp = h.parent[p],
         NEW s, s = Hangs(h, p), NEW uncle, uncle = h.kid[Other(s)][gp], h.color[uncle] = "black",
         NEW e, e = IF Hangs(h, zz) # s THEN rotate(h, s, p) ELSE h,
         NEW q, q = IF Hangs(h, zz) # s THEN zz ELSE p,
         NEW f, f = rotate(PaintTwo(e, q, "black", gp, "red"), Other(s), gp),
         NEW r, r = IF Hangs(h, zz) # s THEN p ELSE zz
  PROVE  Reshaped(f, h) /\ r \in f.used /\ f.color[r] = "red" /\ ColoredBut(f, r)
  <1>1. h \in Trees /\ Linked(h) /\ s \in Sides
    BY TreeLinked, SidesFacts
  <1>2. RedParent(h, zz, p, gp, s, uncle)
    BY <1>1, RedParentFacts
  <1>3. /\ Hangs(h, zz) \in Sides /\ h.kid[Hangs(h, zz)][p] = zz
        /\ p \in h.used /\ zz \in h.used /\ zz # nil /\ p # nil
    <2>1. p \in h.used /\ zz \in h.used /\ h.parent[zz] = p /\ zz # h.root
      BY <1>2 DEF RedParent
    <2> QED
      BY ONLY <1>1, <2>1, NodeFacts, LinkedFacts, SidesFacts
  <1>6. SearchTree(h) /\ ColoredBut(h, zz) /\ h.color[uncle] = "black" /\ h.color[p] = "red"
    OBVIOUS
  <1>4. CASE Hangs(h, zz) = s
    <2>1. r = zz /\ f = rotate(PaintTwo(h, p, "black", gp, "red"), Other(s), gp) /\ h.kid[s][p] = zz
      BY <1>3, <1>4
    <2>2. Reshaped(f, h) /\ f.color[zz] = "red" /\ Colored(f, {}, nil, "left")
      BY ONLY <1>2, <1>6, <2>1, OuterStep
    <2> QED
      BY ONLY <1>3, <2>1, <2>2, ColoredMore DEF Reshaped, ColoredBut
  <1>5. CASE Hangs(h, zz) # s
    <2>1. /\ e = rotate(h, s, p) /\ r = p
          /\ f = rotate(PaintTwo(e, zz, "black", gp, "red"), Other(s), gp)
      BY <1>5
    <2>2. h.kid[Other(s)][p] = zz
      BY <1>1, <1>3, <1>5, SidesFacts
    <2>3. Reshaped(e, h) /\ SearchTree(e) /\ e.color[uncle] = "black"
          /\ RedParent(e, p, zz, gp, s, uncle) /\ ColoredBut(e, p) /\ e.kid[s][zz] = p
      BY ONLY <1>2, <1>6, <2>1, <2>2, InnerStep
    <2>4. Reshaped(f, e) /\ f.color[p] = "red" /\ Colored(f, {}, nil, "left")
      BY ONLY <2>1, <2>3, OuterStep
    <2> QED
      BY ONLY <1>3, <2>1, <2>3, <2>4, ReshapedTwice, ColoredMore DEF Reshaped, ColoredBut
  <1> QED
    BY <1>4, <1>5

\* rbtree_delete_fixup, a red sibling.
LEMMA RedSiblingStep ==
  ASSUME NEW h, SearchTree(h), NEW xx, NEW p, NEW s, NEW w, Short(h, xx, p, s, w),
         Colored(h, {}, p, s), NEW f, f = FixRedSibling(h, s, p)
  PROVE  /\ Reshaped(f, h) /\ Colored(f, {}, p, s) /\ Short(f, xx, p, s, f.kid[Other(s)][p])
         /\ f.color[f.kid[Other(s)][p]] = "black" /\ (xx = nil => f.parent[xx] = h.parent[xx])
  <1> DEFINE g == PaintTwo(h, w, "black", p, "red")
  <1>1. h \in Trees /\ Linked(h)
    BY TreeLinked
  <1>2. /\ s \in Sides /\ p \in h.used /\ w \in h.used /\ h.kid[Other(s)][p] = w /\ w # p
        /\ p \in Nodes /\ w \in Nodes /\ w # nil /\ Other(s) \in Sides
        /\ h.color[w] \in {"red", "black"}
    BY <1>1, NodeFacts, SidesFacts, LinkedFacts DEF Short
  <1>3. CASE h.color[w] # "red"
    <2>1. f = h
      BY <1>2, <1>3 DEF FixRedSibling
    <2> QED
      BY <1>1, <1>2, <1>3, <2>1 DEF Reshaped
  <1>4. CASE h.color[w] = "red"
    <2>1. f = rotate(g, s, p)
      BY <1>2, <1>4 DEF FixRedSibling, PaintTwo
    <2>2. /\ SameLinks(g, h)
          /\ \A d \in Nodes : g.color[d] = IF d = p THEN "red" ELSE IF d = w THEN "black" ELSE h.color[d]
      BY <1>1, <1>2, ColorFacts, PaintTwoFacts
    <2> HIDE DEF g
    <2>3. Reshaped(g, h) /\ g \in Trees /\ Linked(g) /\ SearchTree(g)
      BY <2>2, PaintReshapes DEF Reshaped
    <2>4. p \in g.used /\ g.kid[Other(s)][p] # nil
      BY <1>2, <2>2 DEF SameLinks
    <2>5. Reshaped(f, g) /\ Rotated(g, s, p, f) /\ f \in Trees /\ Linked(f)
      BY <1>2, <2>1, <2>3, <2>4, RotateReshapes
    <2>6. /\ Colored(f, {}, p, s) /\ f.kid[s][p] = xx /\ f.color[xx] = "black" /\ f.used = h.used
          /\ f.color[f.kid[Other(s)][p]] = "black" /\ (xx = nil => f.parent[xx] = h.parent[xx])
      <3>1. Recolored(g, h, p, w)
        BY <2>2, <2>3 DEF Recolored
      <3>2. Short(h, xx, p, s, w) /\ Colored(h, {}, p, s)
        OBVIOUS
      <3> QED
        BY ONLY <1>1, <1>4, <2>5, <3>1, <3>2, RedSibling
    <2>7. Short(f, xx, p, s, f.kid[Other(s)][p])
      BY <1>2, <2>5, <2>6, SiblingIsNode
    <2> QED
      BY <2>3, <2>5, <2>6, <2>7, ReshapedTwice
  <1> QED
    BY <1>3, <1>4

\* rbtree_delete_fixup, the farther nephew is red: one rotation.
LEMMA FarStep ==
  ASSUME NEW h, SearchTree(h), NEW xx, NEW p, NEW s, NEW w, Short(h, xx, p, s, w),
         Colored(h, {}, p, s), h.color[w] = "black", h.color[h.kid[Other(s)][w]] = "red",
         NEW f, f = rotate(PaintThree(h, w, h.color[p], p, "black", h.kid[Other(s)][w]), s, p)
  PROVE  Reshaped(f, h) /\ Colored(f, {}, nil, "left")
  <1> DEFINE far == h.kid[Other(s)][w]
             g == PaintThree(h, w, h.color[p], p, "black", far)
  <1>1. h \in Trees /\ Linked(h)
    BY TreeLinked
  <1>2. /\ s \in Sides /\ p \in h.used /\ w \in h.used /\ h.kid[Other(s)][p] = w /\ w # p
        /\ p \in Nodes /\ w \in Nodes /\ w # nil /\ Other(s) \in Sides /\ w \in Cells
        /\ h.color[p] \in Colors
    BY <1>1, NodeFacts, SidesFacts, LinkedFacts DEF Short, Colors
  <1>3. far \in Nodes /\ far # w /\ Short(h, xx, p, s, w) /\ Colored(h, {}, p, s)
        /\ h.color[w] = "black" /\ h.color[far] = "red" /\ f = rotate(g, s, p)
    BY <1>1, <1>2, NodeFacts, KidFacts
  <1>4. far = h.kid[Other(s)][w]
    OBVIOUS
  <1> HIDE DEF far
  <1>5. /\ SameLinks(g, h)
        /\ \A d \in Nodes : g.color[d] = IF d = far THEN "black" ELSE IF d = p THEN "black"
                                         ELSE IF d = w THEN h.color[p] ELSE h.color[d]
    <2> DEFINE u == h.color[p]
    <2>1. u \in Colors /\ g = PaintThree(h, w, u, p, "black", far)
      BY <1>2
    <2> HIDE DEF u, g
    <2>2. /\ SameLinks(g, h)
          /\ \A d \in Nodes : g.color[d] = IF d = far THEN "black" ELSE IF d = p THEN "black"
                                           ELSE IF d = w THEN u ELSE h.color[d]
      <3>1. h \in Trees /\ w \in Nodes /\ u \in Colors /\ p \in Nodes /\ far \in Nodes /\ "black" \in Colors
        BY ONLY <1>1, <1>2, <1>3, <2>1, ColorFacts
      <3>2. /\ SameLinks(PaintThree(h, w, u, p, "black", far), h)
            /\ \A d \in Nodes : PaintThree(h, w, u, p, "black", far).color[d] =
                                   IF d = far THEN "black" ELSE IF d = p THEN "black"
                                           ELSE IF d = w THEN u ELSE h.color[d]
        BY ONLY <3>1, PaintThreeFacts
      <3> QED
        BY ONLY <2>1, <3>2
    <2> QED
      BY <2>2 DEF u
  <1> HIDE DEF g
  <1>6. Reshaped(g, h) /\ g \in Trees /\ Linked(g) /\ SearchTree(g)
    BY <1>5, PaintReshapes DEF Reshaped
  <1>7. Settled(g, h, w, p, far)
    BY <1>2, <1>3, <1>5, <1>6 DEF Settled
  <1>8. p \in g.used /\ g.kid[Other(s)][p] # nil
    BY <1>2, <1>5 DEF SameLinks
  <1>9. Reshaped(f, g) /\ Rotated(g, s, p, f) /\ f \in Trees
    BY ONLY <1>2, <1>3, <1>6, <1>8, RotateReshapes
  <1>10. Colored(f, {}, nil, "left")
    BY ONLY <1>1, <1>3, <1>4, <1>7, <1>9, FarNephew
  <1> QED
    BY <1>6, <1>9, <1>10, ReshapedTwice

\* rbtree_delete_fixup, only the nearer nephew is red: the first of two
\* rotations.
LEMMA NearStep ==
  ASSUME NEW h, SearchTree(h), NEW xx, NEW p, NEW s, NEW w, Short(h, xx, p, s, w),
         Colored(h, {}, p, s), h.color[w] = "black", NEW near, near = h.kid[s][w],
         h.color[near] = "red", h.color[h.kid[Other(s)][w]] = "black",
         NEW f, f = rotate(PaintTwo(h, near, "black", w, "red"), Other(s), w)
  PROVE  /\ Reshaped(f, h) /\ Colored(f, {}, p, s) /\ Short(f, xx, p, s, near)
         /\ f.color[near] = "black" /\ f.kid[Other(s)][near] = w /\ f.color[w] = "red"
  <1> DEFINE g == PaintTwo(h, near, "black", w, "red")
  <1>1. h \in Trees /\ Linked(h)
    BY TreeLinked
  <1>2. /\ s \in Sides /\ p \in h.used /\ w \in h.used /\ h.kid[Other(s)][p] = w /\ w # p
        /\ p \in Nodes /\ w \in Nodes /\ w # nil /\ Other(s) \in Sides /\ w \in Cells
        /\ Other(Other(s)) = s
    BY <1>1, NodeFacts, SidesFacts DEF Short
  <1>3. near \in Nodes /\ near # w /\ near # nil
    BY <1>1, <1>2, NodeFacts, KidFacts DEF Colored
  <1>4. /\ near = h.kid[s][w] /\ Short(h, xx, p, s, w) /\ Colored(h, {}, p, s)
        /\ h.color[w] = "black" /\ h.color[near] = "red" /\ h.color[h.kid[Other(s)][w]] = "black"
        /\ f = rotate(g, Other(s), w)
    OBVIOUS
  <1>5. /\ SameLinks(g, h)
        /\ \A d \in Nodes : g.color[d] = IF d = w THEN "red" ELSE IF d = near THEN "black" ELSE h.color[d]
    BY ONLY <1>1, <1>2, <1>3, ColorFacts, PaintTwoFacts
  <1> HIDE DEF g
  <1>6. Reshaped(g, h) /\ g \in Trees /\ Linked(g) /\ SearchTree(g)
    BY <1>5, PaintReshapes DEF Reshaped
  <1>7. Recolored(g, h, w, near)
    BY <1>5, <1>6 DEF Recolored
  <1>8. w \in g.used /\ g.kid[Other(Other(s))][w] # nil
    BY <1>2, <1>3, <1>5 DEF SameLinks
  <1>9. Reshaped(f, g) /\ Rotated(g, Other(s), w, f) /\ f \in Trees /\ Linked(f)
    BY ONLY <1>2, <1>4, <1>6, <1>8, RotateReshapes
  <1>10. /\ Colored(f, {}, p, s) /\ Short(f, xx, p, s, near)
         /\ f.color[near] = "black" /\ f.kid[Other(s)][near] = w /\ f.color[w] = "red"
    BY ONLY <1>1, <1>4, <1>7, <1>9, NearNephew
  <1> QED
    BY <1>6, <1>9, <1>10, ReshapedTwice

\* rbtree_delete_fixup with a red nephew: no path is short any more.
LEMMA RedNephewStep ==
  ASSUME NEW h, SearchTree(h), NEW xx, NEW p, NEW s, NEW w, Short(h, xx, p, s, w),
         Colored(h, {}, p, s), h.color[w] = "black", NEW side \in Sides, h.color[h.kid[side][w]] = "red",
         NEW f, f = FixRedNephew(h, s, p)
  PROVE  Reshaped(f, h) /\ Colored(f, {}, nil, "left")
  <1> DEFINE far == h.kid[Other(s)][w]
             near == h.kid[s][w]
             e == rotate(PaintTwo(h, near, "black", w, "red"), Other(s), w)
  <1>1. h \in Trees /\ Linked(h)
    BY TreeLinked
  <1>2. /\ s \in Sides /\ w \in h.used /\ h.kid[Other(s)][p] = w /\ Other(s) \in Sides
        /\ h.color[nil] = "black" /\ (\A t \in Sides : t = s \/ t = Other(s))
    BY SidesFacts DEF Short, Colored
  <1>3. far \in h.used \cup {nil}
    BY <1>1, <1>2, KidFacts
  <1>4. h.color[far] \in {"red", "black"}
    <2> HIDE DEF far
    <2> QED
      BY <1>1, <1>2, <1>3, LinkedFacts
  <1>5. CASE h.color[far] = "red"
    <2>1. f = rotate(PaintThree(h, w, h.color[p], p, "black", far), s, p)
      BY <1>2, <1>5 DEF FixRedNephew, PaintThree
    <2> QED
      BY <1>5, <2>1, FarStep
  <1>6. CASE h.color[far] = "black"
    <2>1. h.color[near] = "red"
      BY <1>2, <1>6
    <2> HIDE DEF near
    <2>2. /\ near = h.kid[s][w] /\ e = rotate(PaintTwo(h, near, "black", w, "red"), Other(s), w)
          /\ h.color[h.kid[Other(s)][w]] = "black"
      BY <1>6 DEF near
    <2>3. /\ Reshaped(e, h) /\ Colored(e, {}, p, s) /\ Short(e, xx, p, s, near)
          /\ e.color[near] = "black" /\ e.kid[Other(s)][near] = w /\ e.color[w] = "red"
      <3> HIDE DEF e
      <3> QED
        BY <2>1, <2>2, NearStep
    <2>4. f = rotate(PaintThree(e, e.kid[Other(s)][p], e.color[p], p, "black",
                                e.kid[Other(s)][e.kid[Other(s)][p]]), s, p)
      BY <1>2, <1>6 DEF FixRedNephew, PaintTwo, PaintThree, near
    <2> HIDE DEF e
    <2>5. e.kid[Other(s)][p] = near
      BY <2>3 DEF Short
    <2>6. f = rotate(PaintThree(e, near, e.color[p], p, "black", e.kid[Other(s)][near]), s, p)
      BY <2>4, <2>5
    <2>7. SearchTree(e) /\ e.color[e.kid[Other(s)][near]] = "red"
      BY <2>3 DEF Reshaped
    <2>8. Reshaped(f, e) /\ Colored(f, {}, nil, "left")
      BY ONLY <2>3, <2>6, <2>7, FarStep
    <2> QED
      BY <2>3, <2>8, ReshapedTwice
  <1> QED
    BY <1>4, <1>5, <1>6

\* A deletion has reached xx: its subtree is one black node short.
DeleteColored(h, xx) ==
  /\ xx \in h.used \cup {nil}
  /\ Colored(h, RedsAt(h, xx), h.parent[xx], Hangs(h, xx))
  /\ xx = nil /\ h.root # nil => h.parent[nil] \in h.used /\ h.kid[Hangs(h, nil)][h.parent[nil]] = nil

\* Above a black xx there is a parent, a sibling, and nothing else is wrong.
LEMMA DeleteShort ==
  ASSUME NEW h \in Trees, Linked(h), NEW xx, DeleteColored(h, xx), xx # h.root, h.color[xx] = "black",
         NEW p, p = h.parent[xx], NEW s, s = Hangs(h, xx)
  PROVE  p \in h.used /\ Colored(h, {}, p, s) /\ Short(h, xx, p, s, h.kid[Other(s)][p])
  <1>1. Colored(h, {}, p, s)
    BY DEF DeleteColored, RedsAt
  <1>2. nil \notin h.used /\ s \in Sides /\ h.root \in h.used \cup {nil}
    BY NodeFacts, SidesFacts DEF Linked
  <1>3. p \in h.used /\ h.kid[s][p] = xx
    <2>1. CASE xx = nil
      BY <1>2, <2>1 DEF DeleteColored
    <2>2. CASE xx # nil
      BY <1>2, <2>2 DEF DeleteColored, Linked
    <2> QED
      BY <2>1, <2>2
  <1>4. h.color[xx] = "black" /\ xx = h.kid[s][p]
    BY <1>3
  <1>5. h \in Trees /\ Linked(h)
    OBVIOUS
  <1> QED
    BY ONLY <1>1, <1>2, <1>3, <1>4, <1>5, SiblingIsNode

\* A tree with no node above its nodes has none.
LEMMA RootIsNode ==
  ASSUME NEW h, SearchTree(h), NEW c \in h.used PROVE h.root \in h.used
  BY DEF SearchTree, Spans

\* A tree that is coloured everywhere is so at its root.
LEMMA RootSettled ==
  ASSUME NEW h, SearchTree(h), Colored(h, {}, nil, "left"), NEW c \in h.used
  PROVE  DeleteColored(h, h.root)
  <1>1. h \in Trees /\ Linked(h)
    BY TreeLinked
  <1>2. h.root \in h.used /\ nil \notin h.used /\ h.root # nil
    BY <1>1, RootIsNode, NodeFacts
  <1>3. h.parent[h.root] = nil
    BY <1>1, <1>2 DEF Linked
  <1>4. PICK H : Balanced(h, H, nil, "left")
    BY DEF Colored
  <1>5. Balanced(h, H, nil, Hangs(h, h.root))
    BY <1>2, <1>4 DEF Balanced
  <1>6. Colored(h, RedsAt(h, h.root), nil, Hangs(h, h.root))
    BY <1>5 DEF Colored
  <1> QED
    BY <1>2, <1>3, <1>6 DEF DeleteColored

\* rbtree_delete_fixup with two black nephews: one level up.
LEMMA BlackNephewsStep ==
  ASSUME NEW h, SearchTree(h), NEW xx, NEW p, NEW s, NEW w, Short(h, xx, p, s, w),
         Colored(h, {}, p, s), h.color[w] = "black",
         \A side \in Sides : h.color[h.kid[side][w]] = "black",
         NEW g, g = Paint(h, w, "red")
  PROVE  Reshaped(g, h) /\ DeleteColored(g, p)
  <1>1. h \in Trees /\ Linked(h)
    BY TreeLinked
  <1>2. w \in Nodes /\ p \in h.used /\ p # nil
    BY <1>1, NodeFacts DEF Short
  <1>3. SameLinks(g, h) /\ \A d \in Nodes : g.color[d] = IF d = w THEN "red" ELSE h.color[d]
    BY <1>1, <1>2, ColorFacts, PaintFacts
  <1>4. Reddened(g, h, w)
    BY <1>3 DEF Reddened
  <1>5. Reshaped(g, h) /\ g \in Trees
    BY <1>3, PaintReshapes
  <1>6. Colored(g, RedsAt(g, p), g.parent[p], Hangs(g, p))
    <2>1. /\ Short(h, xx, p, s, w) /\ Colored(h, {}, p, s) /\ h.color[w] = "black"
          /\ \A side \in Sides : h.color[h.kid[side][w]] = "black"
      OBVIOUS
    <2> QED
      BY ONLY <1>1, <1>4, <1>5, <2>1, BlackNephews
  <1> QED
    BY <1>2, <1>5, <1>6 DEF DeleteColored, Reshaped

\* The last step of a deletion, below the root: xx is red and becomes black.
LEMMA RedTurnsBlack ==
  ASSUME NEW h \in Trees, Linked(h), NEW xx \in h.used, DeleteColored(h, xx), xx # h.root,
         h.root # nil, h.color[xx] = "red", NEW g, SameLinks(g, h),
         \A d \in Nodes : g.color[d] = IF d = xx THEN "black" ELSE h.color[d]
  PROVE  Colored(g, {}, nil, "left")
  <1> DEFINE p == h.parent[xx]
             s == Hangs(h, xx)
  <1>1. PICK H : Balanced(h, H, p, s)
    BY DEF DeleteColored, Colored
  <1>2. /\ h.used \subseteq Nodes /\ nil \in Nodes /\ nil \notin h.used /\ h.color[nil] = "black"
    BY LinkedFacts DEF DeleteColored, Colored
  <1>3. p \in h.used /\ h.kid[s][p] = xx /\ s \in Sides /\ h.parent[h.root] # xx
    <2>1. h.parent[h.root] = nil /\ xx # nil
      BY <1>2, LinkedFacts
    <2> QED
      BY <2>1, SidesFacts DEF Linked
  <1>4. H \in [Nodes -> Nat] /\ H[nil] = 0 /\ H[xx] \in Nat
    BY <1>1, <1>2 DEF Balanced
  <1> HIDE DEF p, s
  <1> DEFINE G == [H EXCEPT ![xx] = H[xx] + 1]
  <1>5. G \in [Nodes -> Nat] /\ G[xx] = H[xx] + 1 /\ \A d \in Nodes : d # xx => G[d] = H[d]
    BY <1>2, <1>4
  <1> HIDE DEF G
  <1>6. /\ g.color[xx] = "black" /\ \A d \in Nodes : d # xx => g.color[d] = h.color[d]
    BY <1>2
  <1>7. g.used = h.used /\ g.kid = h.kid /\ g.parent = h.parent /\ g.root = h.root
    BY DEF SameLinks
  <1>8. ASSUME NEW c \in h.used, NEW t \in Sides
        PROVE  /\ G[h.kid[t][c]] \in Nat
               /\ G[c] = IF g.color[c] = "black" THEN G[h.kid[t][c]] + 1 ELSE G[h.kid[t][c]]
    <2>1. h.kid[t][c] \in Nodes /\ c \in Nodes /\ h.kid[t][c] # c
      BY <1>2, KidFacts
    <2>2. /\ H[h.kid[t][c]] \in Nat /\ h.color[c] \in {"red", "black"}
          /\ H[c] = IF c = p /\ t = s
                    THEN IF h.color[c] = "black" THEN H[h.kid[t][c]] + 2 ELSE H[h.kid[t][c]] + 1
                    ELSE IF h.color[c] = "black" THEN H[h.kid[t][c]] + 1 ELSE H[h.kid[t][c]]
      BY <1>1, LinkedFacts, BalancedAt
    <2>3. h.kid[t][c] = xx <=> c = p /\ t = s
      <3>1. h.kid[t][c] = xx => c = p /\ t = s
        BY <1>2, KidFacts DEF p, s
      <3> QED
        BY <1>3, <3>1
    <2>4. CASE c = xx
      <3>1. G[h.kid[t][c]] = H[h.kid[t][c]] /\ ~(c = p /\ t = s)
        BY <1>5, <2>1, <2>3, <2>4
      <3> QED
        BY <1>5, <1>6, <2>2, <2>4, <3>1
    <2>5. CASE c # xx /\ h.kid[t][c] = xx
      <3>1. G[c] = H[c] /\ g.color[c] = h.color[c] /\ G[h.kid[t][c]] = H[h.kid[t][c]] + 1
        BY <1>5, <1>6, <2>1, <2>5
      <3> QED
        BY <2>2, <2>3, <2>5, <3>1
    <2>6. CASE c # xx /\ h.kid[t][c] # xx
      <3>1. G[c] = H[c] /\ g.color[c] = h.color[c] /\ G[h.kid[t][c]] = H[h.kid[t][c]]
        BY <1>5, <1>6, <2>1, <2>6
      <3> QED
        BY <2>2, <2>3, <2>6, <3>1
    <2> QED
      BY <2>4, <2>5, <2>6
  <1>9. Balanced(g, G, nil, "left")
    <2>1. G[nil] = 0
      BY <1>2, <1>4, <1>5
    <2> QED
      BY <1>2, <1>5, <1>7, <1>8, <2>1 DEF Balanced, Ink
  <1>10. ASSUME NEW c \in h.used PROVE ~(g.color[c] = "red" /\ g.color[h.parent[c]] = "red")
    <2>1. h.parent[c] \in Nodes /\ c \in Nodes
      BY <1>2, LinkedFacts
    <2>2. h.color[c] = "red" /\ h.color[h.parent[c]] = "red" => c = xx \/ h.parent[c] = xx
      BY DEF DeleteColored, Colored, RedsAt
    <2> QED
      BY <1>6, <2>1, <2>2
  <1>11. g.color[h.root] # "red"
    <2>1. h.root \in Nodes
      BY <1>2, LinkedFacts
    <2>2. h.color[h.root] = "red" => h.root = xx \/ h.parent[h.root] = xx
      BY DEF DeleteColored, Colored, RedsAt
    <2> QED
      BY <1>3, <1>6, <2>1, <2>2
  <1>12. g.color[nil] = "black"
    BY <1>2, <1>6
  <1> QED
    BY <1>7, <1>9, <1>10, <1>11, <1>12 DEF Colored

\* rbtree_delete_fixup returns: xx becomes black, and nothing is wrong any more.
LEMMA DeleteReturnsStep ==
  ASSUME NEW h, SearchTree(h), NEW xx, DeleteColored(h, xx), xx = h.root \/ h.color[xx] = "red",
         NEW g, g = Paint(h, xx, "black")
  PROVE  Reshaped(g, h) /\ Colored(g, {}, nil, "left")
  <1>1. h \in Trees /\ Linked(h)
    BY TreeLinked
  <1>2. xx \in Nodes /\ xx \in h.used \cup {nil} /\ h.color[nil] = "black" /\ nil \notin h.used /\ nil \in Nodes
    BY <1>1, NodeFacts DEF DeleteColored, Colored
  <1>3. SameLinks(g, h) /\ \A d \in Nodes : g.color[d] = IF d = xx THEN "black" ELSE h.color[d]
    BY <1>1, <1>2, ColorFacts, PaintFacts
  <1>4. Reshaped(g, h) /\ g \in Trees
    BY <1>3, PaintReshapes
  <1>5. CASE xx \in h.used /\ xx # h.root
    <2>1. h.root \in h.used /\ h.root # nil
      BY <1>2, <1>5, RootIsNode
    <2>2. DeleteColored(h, xx) /\ h.color[xx] = "red"
      BY <1>5
    <2> QED
      BY ONLY <1>1, <1>3, <1>4, <1>5, <2>1, <2>2, RedTurnsBlack
  <1>6. CASE xx \in h.used /\ xx = h.root
    <2>1. g.color = [h.color EXCEPT ![xx] = "black"]
      BY <1>1 DEF Paint, Trees
    <2>2. h.parent[xx] = nil
      BY <1>1, <1>2, <1>6 DEF Linked
    <2>3. Colored(h, RedsAt(h, xx), nil, Hangs(h, xx))
      BY <2>2 DEF DeleteColored
    <2>4. \A c \in RedsAt(h, xx) :
            c # xx => h.color[c] = "black" \/ h.color[h.parent[c]] = "black" \/ h.parent[c] = xx
      BY DEF RedsAt
    <2> QED
      BY ONLY <1>1, <1>2, <1>3, <1>4, <1>6, <2>1, <2>3, <2>4, RootBlack
  <1>7. CASE xx = nil
    <2>1. h.root = nil
      BY <1>2, <1>7
    <2>2. h.used = {}
      BY <1>2, <2>1, RootIsNode
    <2>3. PICK H : Balanced(h, H, h.parent[xx], Hangs(h, xx))
      BY DEF DeleteColored, Colored
    <2>4. Balanced(g, H, nil, "left")
      BY <1>3, <2>2, <2>3 DEF Balanced, SameLinks
    <2>5. g.color[nil] = "black" /\ g.used = {} /\ g.root = nil
      BY <1>2, <1>3, <1>7, <2>1, <2>2 DEF SameLinks
    <2>6. Colored(g, {}, nil, "left")
      BY ONLY <2>4, <2>5 DEF Colored
    <2> QED
      BY <1>4, <2>6
  <1> QED
    BY <1>2, <1>5, <1>6, <1>7

\* rbtree_insert_fixup returns: the root becomes black.
LEMMA InsertReturnsStep ==
  ASSUME NEW h, SearchTree(h), NEW zz \in h.used, ColoredBut(h, zz), h.color[h.parent[zz]] = "black",
         NEW g, g = Paint(h, h.root, "black")
  PROVE  Reshaped(g, h) /\ Colored(g, {}, nil, "left")
  <1>1. h \in Trees /\ Linked(h)
    BY TreeLinked
  <1> DEFINE r == h.root
  <1>2. r \in h.used /\ r \in Nodes /\ nil \notin h.used
    BY <1>1, RootIsNode, NodeFacts
  <1>3. SameLinks(g, h)
    BY <1>1, <1>2, ColorFacts, PaintFacts
  <1>4. Reshaped(g, h) /\ g \in Trees
    BY <1>3, PaintReshapes
  <1>5. g.color = [h.color EXCEPT ![r] = "black"]
    BY <1>1 DEF Paint, Trees
  <1>6. Colored(h, {zz}, nil, "left") /\ r = h.root
        /\ \A c \in {zz} : c # r => h.color[c] = "black" \/ h.color[h.parent[c]] = "black" \/ h.parent[c] = r
    BY DEF ColoredBut
  <1> QED
    BY ONLY <1>1, <1>2, <1>3, <1>4, <1>5, <1>6, RootBlack
-----------------------------------------------------------------------------
(* A node more, a node less *)

\* g is h with the new node zz under yy, on side s, with key k.
Grown(g, h, zz, yy, s, k) ==
  /\ g \in Trees /\ g.used = h.used \cup {zz}
  /\ g.root = IF yy = nil THEN zz ELSE h.root
  /\ \A d \in Nodes : /\ g.parent[d] = IF d = zz THEN yy ELSE h.parent[d]
                      /\ g.color[d] = IF d = zz THEN "red" ELSE h.color[d]
  /\ \A d \in Cells : g.key[d] = IF d = zz THEN k ELSE h.key[d]
  /\ \A t \in Sides, d \in Cells : g.kid[t][d] = IF d = yy /\ t = s THEN zz ELSE h.kid[t][d]

\* Where a new node is put: at a free end, in order.
Place(h, B, yy, s, k) ==
  /\ yy \in h.used \cup {nil} /\ s \in Sides /\ (yy = nil => h.root = nil)
  /\ yy # nil => h.kid[s][yy] = nil /\ Before(s, k, h.key[yy])
  /\ \A c \in h.used, t \in Sides : yy \in B[h.kid[t][c]] => Before(t, k, h.key[c])

\* A node put at a free end leaves a search tree.
LEMMA GrownTree ==
  ASSUME NEW h \in Trees, NEW B, Spans(h, B), Sorted(h, B), FreeClean(h),
         NEW zz \in Cells \ h.used, NEW yy, NEW s, NEW k, Place(h, B, yy, s, k),
         NEW g, Grown(g, h, zz, yy, s, k)
  PROVE  SearchTree(g) /\ FreeClean(g)
  <1> DEFINE B2 == [d \in Nodes |-> IF d = zz THEN {zz} ELSE IF yy \in B[d] THEN B[d] \cup {zz} ELSE B[d]]
  <1>1. /\ nil \in Nodes /\ h.used \subseteq Cells /\ Cells \subseteq Nodes /\ nil \notin Cells
        /\ zz \in Nodes /\ zz # nil /\ zz \notin h.used /\ yy # zz /\ s \in Sides /\ yy \in h.used \cup {nil}
    BY NodeFacts DEF Place
  <1>2. B \in [Nodes -> SUBSET h.used] /\ B[nil] = {} /\ B[h.root] = h.used /\ h.root \in h.used \cup {nil}
    BY DEF Spans
  <1>3. /\ g.used = h.used \cup {zz} /\ g.root = IF yy = nil THEN zz ELSE h.root
        /\ \A d \in Nodes : g.parent[d] = IF d = zz THEN yy ELSE h.parent[d]
        /\ \A d \in Cells : g.key[d] = IF d = zz THEN k ELSE h.key[d]
        /\ \A t \in Sides, d \in Cells : g.kid[t][d] = IF d = yy /\ t = s THEN zz ELSE h.kid[t][d]
    BY DEF Grown
  <1>4. /\ B2 \in [Nodes -> SUBSET g.used] /\ B2[zz] = {zz} /\ B2[nil] = {}
        /\ \A e \in Nodes : e # zz => /\ zz \in B2[e] <=> yy \in B[e]
                                      /\ \A d : d # zz => (d \in B2[e] <=> d \in B[e])
    BY <1>1, <1>2, <1>3
  <1> HIDE DEF B2
  <1>5. ASSUME NEW c \in h.used, NEW t \in Sides
        PROVE  /\ g.kid[t][c] \in g.used \cup {nil} /\ g.kid[t][c] \in Nodes /\ c \in Cells /\ c # zz
               /\ \A d : d # zz => (d \in B2[g.kid[t][c]] <=> d \in B[h.kid[t][c]])
               /\ zz \in B2[g.kid[t][c]] <=> (c = yy /\ t = s) \/ yy \in B[h.kid[t][c]]
               /\ g.kid[t][c] # nil => g.parent[g.kid[t][c]] = c
    <2>1. c \in Cells /\ c # zz /\ h.kid[t][c] \in h.used \cup {nil} /\ h.kid[t][c] # zz
          /\ (h.kid[t][c] # nil => h.parent[h.kid[t][c]] = c)
      BY <1>1, SpansSides
    <2>2. CASE c = yy /\ t = s
      <3>1. g.kid[t][c] = zz /\ h.kid[t][c] = nil
        BY <1>1, <1>3, <2>1, <2>2 DEF Place
      <3> QED
        BY <1>1, <1>2, <1>3, <1>4, <2>1, <2>2, <3>1
    <2>3. CASE ~(c = yy /\ t = s)
      <3>1. g.kid[t][c] = h.kid[t][c]
        BY <1>3, <2>1, <2>3
      <3> QED
        BY <1>1, <1>3, <1>4, <2>1, <2>3, <3>1
    <2> QED
      BY <2>2, <2>3
  <1>6. g.root \in g.used \cup {nil} /\ B2[g.root] = g.used /\ (g.root # nil => g.parent[g.root] = nil)
    <2>1. CASE yy = nil
      <3>1. h.used = {}
        BY <1>2, <2>1 DEF Place
      <3> QED
        BY <1>1, <1>3, <1>4, <2>1, <3>1
    <2>2. CASE yy # nil
      <3>1. yy \in B[h.root] /\ h.root # nil /\ h.root \in Nodes /\ h.root # zz
        BY <1>1, <1>2, <2>2
      <3>2. B2[h.root] = g.used
        BY <1>2, <1>3, <1>4, <3>1
      <3>3. h.parent[h.root] = nil
        BY <3>1 DEF Spans
      <3> QED
        BY <1>1, <1>2, <1>3, <2>2, <3>1, <3>2, <3>3
    <2> QED
      BY <2>1, <2>2
  <1>7. \A t \in Sides : g.kid[t][zz] = nil
    BY <1>1, <1>3 DEF FreeClean
  <1>8. ASSUME NEW c \in h.used
        PROVE  /\ \A t \in Sides : c \notin B2[g.kid[t][c]]
               /\ \A d : d \in B2[c] <=> d = c \/ d \in B2[g.kid["left"][c]] \/ d \in B2[g.kid["right"][c]]
               /\ \A d \in B2[g.kid["left"][c]] : d \notin B2[g.kid["right"][c]]
    <2>1. /\ \A d : d \in B[c] <=> d = c \/ d \in B[h.kid["left"][c]] \/ d \in B[h.kid["right"][c]]
          /\ \A d \in B[h.kid["left"][c]] : d \notin B[h.kid["right"][c]]
          /\ \A t \in Sides : c \notin B[h.kid[t][c]]
      BY DEF Spans
    <2>2. c \in Nodes /\ c # zz /\ "left" \in Sides /\ "right" \in Sides /\ "left" # "right"
          /\ (s = "left" \/ s = "right")
      BY <1>1, SidesFacts DEF Sides
    <2>3. \A t \in Sides : c \notin B2[g.kid[t][c]]
      BY <1>5, <2>1, <2>2
    <2>4. ASSUME NEW d PROVE d \in B2[c] <=> d = c \/ d \in B2[g.kid["left"][c]] \/ d \in B2[g.kid["right"][c]]
      <3>1. CASE d # zz
        BY <1>4, <1>5, <2>1, <2>2, <3>1
      <3>2. CASE d = zz
        <4>1. zz \in B2[c] <=> yy \in B[c]
          BY <1>4, <2>2
        <4>2. /\ zz \in B2[g.kid["left"][c]] <=> (c = yy /\ "left" = s) \/ yy \in B[h.kid["left"][c]]
              /\ zz \in B2[g.kid["right"][c]] <=> (c = yy /\ "right" = s) \/ yy \in B[h.kid["right"][c]]
          BY <1>5, <2>2
        <4> QED
          BY <2>1, <2>2, <3>2, <4>1, <4>2
      <3> QED
        BY <3>1, <3>2
    <2>5. ASSUME NEW d \in B2[g.kid["left"][c]] PROVE d \notin B2[g.kid["right"][c]]
      <3>1. CASE d # zz
        BY <1>5, <2>1, <2>2, <3>1
      <3>2. CASE d = zz
        <4>2. /\ zz \in B2[g.kid["left"][c]] <=> (c = yy /\ "left" = s) \/ yy \in B[h.kid["left"][c]]
              /\ zz \in B2[g.kid["right"][c]] <=> (c = yy /\ "right" = s) \/ yy \in B[h.kid["right"][c]]
          BY <1>5, <2>2
        <4> QED
          BY <2>1, <2>2, <3>2, <4>2
      <3> QED
        BY <3>1, <3>2
    <2> QED
      BY <2>3, <2>4, <2>5
  <1>9. ASSUME NEW c \in h.used, c # g.root
        PROVE  g.parent[c] \in g.used /\ g.kid[Hangs(g, c)][g.parent[c]] = c
    <2>1. c # zz /\ c \in Nodes /\ yy # nil /\ g.root = h.root
      <3>1. yy # nil
        BY <1>2 DEF Place
      <3> QED
        BY <1>1, <1>3, <3>1
    <2>2. h.parent[c] \in h.used /\ h.kid[Hangs(h, c)][h.parent[c]] = c /\ g.parent[c] = h.parent[c]
      BY <1>3, <1>9, <2>1 DEF Spans
    <2>3. \A t \in Sides : h.kid[t][h.parent[c]] = c => g.kid[t][h.parent[c]] = c
      <3>1. yy # nil => h.kid[s][yy] = nil
        BY DEF Place
      <3>2. c # nil /\ h.parent[c] \in Cells
        BY <1>1, <2>2
      <3> QED
        BY <1>3, <2>1, <3>1, <3>2
    <2>4. Hangs(h, c) \in Sides /\ "left" \in Sides
      BY SidesFacts
    <2>5. g.kid["left"][h.parent[c]] = c => Hangs(g, c) = "left"
      BY <2>2 DEF Hangs
    <2>6. g.kid["left"][h.parent[c]] # c => Hangs(g, c) = "right" /\ Hangs(h, c) = "right"
      BY <2>2, <2>3, <2>4 DEF Hangs
    <2> QED
      BY <1>3, <2>2, <2>3, <2>4, <2>5, <2>6
  <1>10. zz # g.root => g.parent[zz] \in g.used /\ g.kid[Hangs(g, zz)][g.parent[zz]] = zz
    <2>1. ASSUME zz # g.root PROVE yy \in h.used /\ yy \in Cells /\ yy # nil
      BY <1>1, <1>3, <2>1
    <2>2. ASSUME zz # g.root PROVE g.kid[Hangs(g, zz)][yy] = zz
      <3>1. g.kid[s][yy] = zz
        BY <1>1, <1>3, <2>1, <2>2
      <3>2. \A t \in Sides : t # s => g.kid[t][yy] # zz
        <4>1. \A t \in Sides : h.kid[t][yy] # zz
          BY <1>1, <2>1, <2>2, SpansSides
        <4> QED
          BY <1>3, <2>1, <2>2, <4>1
      <3>3. g.parent[zz] = yy
        BY <1>1, <1>3
      <3> QED
        BY <1>1, <3>1, <3>2, <3>3 DEF Hangs, Sides
    <2> QED
      BY <1>1, <1>3, <2>1, <2>2
  <1>11. ASSUME NEW c \in h.used, NEW d \in B2[c]
         PROVE  B2[d] \subseteq B2[c] /\ (d # c => g.parent[d] \in B2[c])
    <2>0. c \in Nodes /\ c # zz
      BY <1>1
    <2>1. CASE d = zz
      <3>1. yy \in B[c]
        BY <1>4, <2>0, <2>1
      <3>2. yy \in B2[c] /\ g.parent[zz] = yy /\ B2[zz] \subseteq B2[c]
        BY <1>1, <1>3, <1>4, <2>0, <2>1, <3>1
      <3> QED
        BY <2>1, <3>2
    <2>2. CASE d # zz
      <3>1. d \in B[c]
        BY <1>4, <2>0, <2>2
      <3>2. d \in h.used /\ B[d] \subseteq B[c] /\ (d # c => h.parent[d] \in B[c])
        BY <3>1, SpansDown
      <3>3. d \in Nodes
        BY <1>1, <3>2
      <3>4. B2[d] \subseteq B2[c]
        BY <1>4, <2>0, <2>2, <3>2, <3>3
      <3>5. B[c] \subseteq h.used
        BY <1>1, <1>2, <2>0
      <3> QED
        BY <1>1, <1>3, <1>4, <2>0, <2>2, <3>2, <3>3, <3>4, <3>5
    <2> QED
      BY <2>1, <2>2
  <1>12. Spans(g, B2)
    <2>1. ASSUME NEW c \in g.used
          PROVE /\ \A t \in Sides : /\ g.kid[t][c] \in g.used \cup {nil}
                                    /\ c \notin B2[g.kid[t][c]]
                                    /\ g.kid[t][c] # nil => g.parent[g.kid[t][c]] = c
                /\ \A d : d \in B2[c] <=> d = c \/ d \in B2[g.kid["left"][c]] \/ d \in B2[g.kid["right"][c]]
                /\ \A d \in B2[g.kid["left"][c]] : d \notin B2[g.kid["right"][c]]
                /\ c # g.root => g.parent[c] \in g.used /\ g.kid[Hangs(g, c)][g.parent[c]] = c
                /\ \A d \in B2[c] : B2[d] \subseteq B2[c] /\ (d # c => g.parent[d] \in B2[c])
      <3>1. CASE c = zz
        <4>1. g.kid["left"][zz] = nil /\ g.kid["right"][zz] = nil
          BY <1>7, SidesFacts
        <4> QED
          BY <1>1, <1>4, <1>7, <1>10, <3>1, <4>1
      <3>2. CASE c \in h.used
        BY <1>5, <1>8, <1>9, <1>11, <3>2
      <3> QED
        BY <1>3, <3>1, <3>2
    <2> QED
      <3>1. B2 \in [Nodes -> SUBSET g.used] /\ B2[nil] = {}
        BY ONLY <1>4
      <3> QED
        BY ONLY <1>6, <2>1, <3>1 DEF Spans
  <1>13. Sorted(g, B2)
    <2>1. ASSUME NEW c \in g.used, NEW t \in Sides, NEW d \in B2[g.kid[t][c]]
          PROVE  Before(t, g.key[d], g.key[c])
      <3>1. c # zz
        BY <1>4, <1>7, <2>1
      <3>2. c \in h.used /\ c \in Cells /\ g.key[c] = h.key[c]
        BY <1>1, <1>3, <3>1
      <3>3. CASE d = zz
        <4>1. (c = yy /\ t = s) \/ yy \in B[h.kid[t][c]]
          BY <1>5, <2>1, <3>2, <3>3
        <4>2. g.key[d] = k
          BY <1>3, <3>3
        <4> QED
          BY <1>1, <3>2, <4>1, <4>2 DEF Place
      <3>4. CASE d # zz
        <4>1. d \in B[h.kid[t][c]]
          BY <1>5, <2>1, <3>2, <3>4
        <4>2. d \in Cells /\ g.key[d] = h.key[d]
          BY <1>1, <1>3, <3>2, <3>4, <4>1, SpansSides
        <4> QED
          BY <3>2, <4>1, <4>2 DEF Sorted
      <3> QED
        BY <3>3, <3>4
    <2> QED
      BY <2>1 DEF Sorted
  <1>14. FreeClean(g)
    <2>1. ASSUME NEW c \in Cells \ g.used, NEW t \in Sides PROVE g.kid[t][c] = nil
      <3>1. c \notin h.used /\ c # yy
        BY <1>1, <1>3
      <3> QED
        BY <1>3, <3>1 DEF FreeClean
    <2> QED
      BY <2>1 DEF FreeClean
  <1> QED
    BY <1>12, <1>13, <1>14 DEF SearchTree, Grown

\* The new node is red: only it may be under a red parent.
LEMMA GrownColors ==
  ASSUME NEW h \in Trees, Linked(h), FreeClean(h), Colored(h, {}, nil, "left"),
         NEW zz \in Cells \ h.used, NEW yy, NEW s \in Sides, yy \in h.used \cup {nil},
         yy # nil => h.kid[s][yy] = nil, NEW k, NEW g, Grown(g, h, zz, yy, s, k)
  PROVE  ColoredBut(g, zz) /\ g.color[zz] = "red"
  <1>1. PICK H : Balanced(h, H, nil, "left")
    BY DEF Colored
  <1>2. /\ nil \in Nodes /\ h.used \subseteq Cells /\ Cells \subseteq Nodes /\ nil \notin Cells
        /\ zz \in Nodes /\ zz # nil /\ zz \notin h.used /\ yy # zz /\ zz \in Cells
        /\ h.color[nil] = "black" /\ h.root \in h.used \cup {nil}
    BY NodeFacts DEF Colored, Linked
  <1>3. /\ g.used = h.used \cup {zz} /\ g.root = IF yy = nil THEN zz ELSE h.root
        /\ \A d \in Nodes : g.parent[d] = IF d = zz THEN yy ELSE h.parent[d]
        /\ \A d \in Nodes : g.color[d] = IF d = zz THEN "red" ELSE h.color[d]
        /\ \A t \in Sides, d \in Cells : g.kid[t][d] = IF d = yy /\ t = s THEN zz ELSE h.kid[t][d]
    BY DEF Grown
  <1>4. H \in [Nodes -> Nat] /\ H[nil] = 0
    BY <1>1 DEF Balanced
  <1> DEFINE G == [H EXCEPT ![zz] = 0]
  <1>5. G \in [Nodes -> Nat] /\ G[zz] = 0 /\ \A d \in Nodes : d # zz => G[d] = H[d]
    BY <1>2, <1>4
  <1> HIDE DEF G
  <1>6. ASSUME NEW c \in h.used, NEW t \in Sides
        PROVE  /\ G[g.kid[t][c]] \in Nat
               /\ G[c] = IF g.color[c] = "black" THEN G[g.kid[t][c]] + 1 ELSE G[g.kid[t][c]]
    <2>1. /\ H[h.kid[t][c]] \in Nat
          /\ H[c] = IF h.color[c] = "black" THEN H[h.kid[t][c]] + 1 ELSE H[h.kid[t][c]]
      BY <1>1, <1>2, BalancedAt
    <2>2. c \in Cells /\ c # zz /\ h.kid[t][c] \in Nodes /\ h.kid[t][c] # zz
      BY <1>2, KidFacts
    <2>3. G[g.kid[t][c]] = H[h.kid[t][c]]
      <3>1. CASE c = yy /\ t = s
        <4>1. h.kid[t][c] = nil /\ g.kid[t][c] = zz
          BY <1>2, <1>3, <2>2, <3>1
        <4> QED
          BY <1>4, <1>5, <4>1
      <3>2. CASE ~(c = yy /\ t = s)
        <4>1. g.kid[t][c] = h.kid[t][c]
          BY <1>3, <2>2, <3>2
        <4> QED
          BY <1>5, <2>2, <4>1
      <3> QED
        BY <3>1, <3>2
    <2> QED
      BY <1>2, <1>3, <1>5, <2>1, <2>2, <2>3
  <1>7. ASSUME NEW t \in Sides PROVE g.kid[t][zz] = nil
    BY <1>2, <1>3 DEF FreeClean
  <1>8. G[nil] = 0
    BY <1>2, <1>4, <1>5
  <1>9. ASSUME NEW c \in g.used, NEW t \in Sides
        PROVE  /\ G[g.kid[t][c]] \in Nat
               /\ G[c] = IF g.color[c] = "black" THEN G[g.kid[t][c]] + 1 ELSE G[g.kid[t][c]]
    <2>1. CASE c = zz
      BY <1>2, <1>3, <1>5, <1>7, <1>8, <2>1
    <2>2. CASE c \in h.used
      BY <1>6, <2>2
    <2> QED
      BY <1>3, <2>1, <2>2
  <1>10. Balanced(g, G, nil, "left")
    BY <1>2, <1>3, <1>5, <1>8, <1>9 DEF Balanced, Ink
  <1>11. ASSUME NEW c \in g.used, g.color[c] = "red", g.color[g.parent[c]] = "red" PROVE c \in {zz}
    <2>1. c \in h.used => h.parent[c] \in Nodes /\ h.parent[c] # zz /\ c # zz /\ c \in Nodes
      BY <1>2, LinkedFacts
    <2>2. c \in h.used => ~(h.color[c] = "red" /\ h.color[h.parent[c]] = "red")
      BY DEF Colored
    <2> QED
      BY <1>3, <1>11, <2>1, <2>2
  <1>12. g.color[g.root] = "red" => g.root \in {zz}
    BY <1>2, <1>3 DEF Colored
  <1> QED
    BY <1>2, <1>3, <1>10, <1>11, <1>12 DEF Colored, ColoredBut

\* The end of rbtree_insert's loop.
LEMMA LinkEffect ==
  ASSUME NEW h \in Trees, NEW zz \in Cells \ h.used, NEW yy \in h.used \cup {nil}, NEW s \in Sides,
         NEW k \in KeyValues, NEW e, e = IF yy = nil THEN [h EXCEPT !.root = zz] ELSE [h EXCEPT !.kid[s][yy] = zz]
  PROVE  Grown([e EXCEPT !.used = @ \cup {zz}, !.parent[zz] = yy, !.key[zz] = k, !.color[zz] = "red"],
               h, zz, yy, s, k)
  <1> DEFINE g == [e EXCEPT !.used = @ \cup {zz}, !.parent[zz] = yy, !.key[zz] = k, !.color[zz] = "red"]
  <1>1. /\ nil \in Nodes /\ h.used \subseteq Cells /\ Cells \subseteq Nodes /\ nil \notin Cells
        /\ zz \in Nodes /\ zz # nil /\ yy \in Nodes /\ zz \in Cells
    BY NodeFacts
  <1>2. /\ e \in Trees /\ e.used = h.used /\ e.color = h.color /\ e.key = h.key /\ e.parent = h.parent
        /\ e.root = IF yy = nil THEN zz ELSE h.root
        /\ \A t \in Sides, d \in Cells : e.kid[t][d] = IF d = yy /\ t = s THEN zz ELSE h.kid[t][d]
    <2>1. CASE yy = nil
      <3>1. e = [h EXCEPT !.root = zz]
        BY <2>1
      <3> QED
        BY ONLY <1>1, <2>1, <3>1, h \in Trees DEF Trees
    <2>2. CASE yy # nil
      <3>1. e = [h EXCEPT !.kid[s][yy] = zz] /\ yy \in Cells
        BY <1>1, <2>2
      <3> QED
        BY <1>1, <2>2, <3>1, SetKid
    <2> QED
      BY <2>1, <2>2
  <1>3. k \in KeyValues \cup {NoKey} /\ "red" \in {"red", "black"}
    OBVIOUS
  <1>4. /\ g.used = e.used \cup {zz} /\ g.root = e.root /\ g.kid = e.kid
        /\ g.parent = [e.parent EXCEPT ![zz] = yy] /\ g.key = [e.key EXCEPT ![zz] = k]
        /\ g.color = [e.color EXCEPT ![zz] = "red"] /\ g \in Trees
    BY ONLY <1>1, <1>2, <1>3 DEF Trees
  <1> HIDE DEF g
  <1>5. /\ \A d \in Nodes : g.parent[d] = IF d = zz THEN yy ELSE e.parent[d]
        /\ \A d \in Nodes : g.color[d] = IF d = zz THEN "red" ELSE e.color[d]
        /\ \A d \in Cells : g.key[d] = IF d = zz THEN k ELSE e.key[d]
    BY <1>2, <1>4 DEF Trees
  <1>6. Grown(g, h, zz, yy, s, k)
    BY <1>2, <1>4, <1>5 DEF Grown
  <1> QED
    BY <1>6 DEF g

\* g is h without yy, whose place only has; zz has the key of yy.
Shrunk(g, h, yy, zz, only) ==
  /\ g \in Trees /\ g.used = h.used \ {yy}
  /\ g.root = IF h.parent[yy] = nil THEN only ELSE h.root
  /\ \A d \in Nodes : /\ g.parent[d] = IF d = yy THEN nil ELSE IF d = only THEN h.parent[yy] ELSE h.parent[d]
                      /\ g.color[d] = IF d = yy THEN "black" ELSE h.color[d]
  /\ \A d \in Cells : g.key[d] = IF d = yy THEN NoKey ELSE IF d = zz THEN h.key[yy] ELSE h.key[d]
  /\ \A t \in Sides, d \in Cells :
       g.kid[t][d] = IF d = yy THEN nil ELSE IF d = h.parent[yy] /\ t = Hangs(h, yy) THEN only ELSE h.kid[t][d]

\* yy has one child at most.
OneChild(h, yy, only) ==
  /\ yy \in h.used
  /\ \E s \in Sides : h.kid[s][yy] = only /\ h.kid[Other(s)][yy] = nil

\* yy is zz, or the first of the nodes on its right.
Leaving(h, B, yy, zz) ==
  /\ zz \in h.used
  /\ yy = zz \/ /\ yy \in B[h.kid["right"][zz]]
                /\ \A d \in B[h.kid["right"][zz]] : d = yy \/ Before("right", h.key[d], h.key[yy])

\* The links of a tree that has lost a node with one child at most.
LEMMA ShrunkLinks ==
  ASSUME NEW h \in Trees, Linked(h), NEW yy, NEW only, OneChild(h, yy, only),
         NEW zz, NEW g, Shrunk(g, h, yy, zz, only)
  PROVE  /\ yy \in h.used /\ yy # nil /\ only \in h.used \cup {nil} /\ only # yy
         /\ only # nil => h.parent[only] = yy /\ only # h.root
         /\ \A t \in Sides : h.kid[t][yy] = only \/ h.kid[t][yy] = nil
         /\ h.parent[yy] # yy /\ (yy = h.root <=> h.parent[yy] = nil)
         /\ g.root = IF yy = h.root THEN only ELSE h.root
         /\ \A c \in h.used, t \in Sides : c # yy =>
              g.kid[t][c] = IF h.kid[t][c] = yy THEN only ELSE h.kid[t][c]
         /\ \A c \in h.used \cup {nil} : c # yy => g.parent[c] = IF c = only THEN h.parent[yy] ELSE h.parent[c]
         /\ yy # h.root => h.parent[yy] \in h.used /\ h.kid[Hangs(h, yy)][h.parent[yy]] = yy
  <1>1. /\ yy \in h.used /\ h.used \subseteq Cells /\ h.used \subseteq Nodes /\ nil \notin h.used
        /\ yy \in Cells /\ yy # nil /\ nil \in Nodes
    BY NodeFacts DEF OneChild
  <1>2. PICK s \in Sides : h.kid[s][yy] = only /\ h.kid[Other(s)][yy] = nil
    BY DEF OneChild
  <1>3. /\ only \in h.used \cup {nil} /\ only # yy
        /\ only # nil => h.parent[only] = yy /\ only # h.root
    BY <1>1, <1>2, KidFacts
  <1>4. \A t \in Sides : h.kid[t][yy] = only \/ h.kid[t][yy] = nil
    BY <1>2, SidesFacts
  <1>5. h.parent[yy] # yy /\ (yy = h.root <=> h.parent[yy] = nil)
        /\ (yy # h.root => h.parent[yy] \in h.used /\ h.kid[Hangs(h, yy)][h.parent[yy]] = yy)
    BY <1>1, LinkedFacts DEF Linked
  <1>6. g.root = IF yy = h.root THEN only ELSE h.root
    BY <1>5 DEF Shrunk
  <1>7. ASSUME NEW c \in h.used, NEW t \in Sides, c # yy
        PROVE  g.kid[t][c] = IF h.kid[t][c] = yy THEN only ELSE h.kid[t][c]
    <2>1. h.kid[t][c] = yy <=> c = h.parent[yy] /\ t = Hangs(h, yy)
      <3>1. h.kid[t][c] = yy => c = h.parent[yy] /\ t = Hangs(h, yy)
        BY <1>1, KidFacts
      <3> QED
        BY <1>1, <1>5, <3>1
    <2> QED
      BY <1>1, <1>7, <2>1 DEF Shrunk
  <1>8. \A c \in h.used \cup {nil} : c # yy => g.parent[c] = IF c = only THEN h.parent[yy] ELSE h.parent[c]
    BY <1>1 DEF Shrunk
  <1> QED
    BY <1>1, <1>3, <1>4, <1>5, <1>6, <1>7, <1>8

\* A node with one child at most is taken out: a search tree is left.
LEMMA ShrunkTree ==
  ASSUME NEW h \in Trees, NEW B, Spans(h, B), Sorted(h, B), FreeClean(h),
         NEW yy, NEW zz, NEW only, OneChild(h, yy, only), Leaving(h, B, yy, zz),
         NEW g, Shrunk(g, h, yy, zz, only)
  PROVE  SearchTree(g) /\ FreeClean(g)
  <1> DEFINE B2 == [d \in Nodes |-> IF d = yy THEN {} ELSE B[d] \ {yy}]
             p == h.parent[yy]
  <1>1. Linked(h)
    BY SpansLinked
  <1>2. /\ nil \in Nodes /\ h.used \subseteq Cells /\ Cells \subseteq Nodes /\ nil \notin Cells
        /\ g.used = h.used \ {yy}
    BY NodeFacts DEF Shrunk
  <1>3. /\ B \in [Nodes -> SUBSET h.used] /\ B[nil] = {} /\ B[h.root] = h.used /\ h.root \in h.used \cup {nil}
        /\ h.root # nil => h.parent[h.root] = nil
    BY DEF Spans
  <1>4. /\ yy \in h.used /\ yy # nil /\ only \in h.used \cup {nil} /\ only # yy
        /\ only # nil => h.parent[only] = yy /\ only # h.root
        /\ \A t \in Sides : h.kid[t][yy] = only \/ h.kid[t][yy] = nil
        /\ p # yy /\ (yy = h.root <=> p = nil)
        /\ g.root = IF yy = h.root THEN only ELSE h.root
        /\ \A c \in h.used, t \in Sides : c # yy =>
              g.kid[t][c] = IF h.kid[t][c] = yy THEN only ELSE h.kid[t][c]
        /\ \A c \in h.used \cup {nil} : c # yy => g.parent[c] = IF c = only THEN p ELSE h.parent[c]
        /\ yy # h.root => p \in h.used /\ h.kid[Hangs(h, yy)][p] = yy
    <2>1. h \in Trees /\ OneChild(h, yy, only) /\ Shrunk(g, h, yy, zz, only) /\ p = h.parent[yy]
      OBVIOUS
    <2> HIDE DEF p
    <2> QED
      BY ONLY <1>1, <2>1, ShrunkLinks
  <1>5. /\ B2 \in [Nodes -> SUBSET g.used] /\ B2[nil] = {}
        /\ \A e \in Nodes : e # yy => \A d : d \in B2[e] <=> d \in B[e] /\ d # yy
    BY <1>2, <1>3, <1>4
  <1> HIDE DEF B2, p
  <1>6. /\ \A d : d \in B[yy] <=> d = yy \/ d \in B[only]
        /\ yy \notin B[only]
    <2>1. PICK s \in Sides : h.kid[s][yy] = only /\ h.kid[Other(s)][yy] = nil
      BY DEF OneChild
    <2> QED
      BY <1>3, <1>4, <2>1, SpansSides
  <1>7. ASSUME NEW c \in h.used, c # yy, NEW t \in Sides
        PROVE  /\ g.kid[t][c] \in g.used \cup {nil}
               /\ \A d : d \in B2[g.kid[t][c]] <=> d \in B[h.kid[t][c]] /\ d # yy
               /\ g.kid[t][c] # nil => g.parent[g.kid[t][c]] = c
    <2>1. h.kid[t][c] \in h.used \cup {nil} /\ (h.kid[t][c] # nil => h.parent[h.kid[t][c]] = c)
      BY SpansSides
    <2>2. CASE h.kid[t][c] = yy
      <3>1. g.kid[t][c] = only /\ c = p
        BY <1>4, <1>7, <2>1, <2>2 DEF p
      <3>2. only \in Nodes
        BY <1>2, <1>4
      <3> QED
        BY <1>2, <1>4, <1>5, <1>6, <2>2, <3>1, <3>2
    <2>3. CASE h.kid[t][c] # yy
      <3>1. g.kid[t][c] = h.kid[t][c] /\ h.kid[t][c] \in Nodes
        BY <1>2, <1>4, <1>7, <2>1, <2>3
      <3>2. h.kid[t][c] # nil => h.kid[t][c] # only
        BY <1>4, <1>7, <2>1
      <3> QED
        BY <1>2, <1>4, <1>5, <2>1, <2>3, <3>1, <3>2
    <2> QED
      BY <2>2, <2>3
  <1>8. g.root \in g.used \cup {nil} /\ B2[g.root] = g.used /\ (g.root # nil => g.parent[g.root] = nil)
    <2>1. CASE yy = h.root
      <3>1. g.root = only /\ only \in Nodes
        BY <1>2, <1>4, <2>1
      <3> QED
        BY <1>2, <1>3, <1>4, <1>5, <1>6, <2>1, <3>1
    <2>2. CASE yy # h.root
      <3>1. g.root = h.root /\ h.root \in Nodes
        BY <1>2, <1>3, <1>4, <2>2
      <3>2. h.root \in g.used \cup {nil} /\ B2[h.root] = g.used
        BY <1>2, <1>3, <1>5, <2>2, <3>1
      <3> QED
        BY <1>2, <1>3, <1>4, <2>2, <3>1, <3>2
    <2> QED
      BY <2>1, <2>2
  <1>9. ASSUME NEW c \in h.used, c # yy
        PROVE  /\ \A t \in Sides : c \notin B2[g.kid[t][c]]
               /\ \A d : d \in B2[c] <=> d = c \/ d \in B2[g.kid["left"][c]] \/ d \in B2[g.kid["right"][c]]
               /\ \A d \in B2[g.kid["left"][c]] : d \notin B2[g.kid["right"][c]]
    <2>1. /\ \A d : d \in B[c] <=> d = c \/ d \in B[h.kid["left"][c]] \/ d \in B[h.kid["right"][c]]
          /\ \A d \in B[h.kid["left"][c]] : d \notin B[h.kid["right"][c]]
          /\ \A t \in Sides : c \notin B[h.kid[t][c]]
      BY DEF Spans
    <2>2. c \in Nodes /\ "left" \in Sides /\ "right" \in Sides
      BY <1>2, SidesFacts
    <2>3. \A d : d \in B2[c] <=> d \in B[c] /\ d # yy
      BY <1>5, <1>9, <2>2
    <2> QED
      BY <1>7, <1>9, <2>1, <2>2, <2>3
  <1>10. ASSUME NEW d \in h.used, d # yy, d # only, d # h.root
         PROVE  h.parent[d] \in h.used /\ h.parent[d] # yy /\ h.kid[Hangs(h, d)][h.parent[d]] = d
    <2>1. h.parent[d] \in h.used /\ h.kid[Hangs(h, d)][h.parent[d]] = d
      BY <1>10 DEF Spans
    <2> QED
      BY <1>2, <1>4, <1>10, <2>1, SidesFacts
  <1>11. ASSUME NEW c \in h.used, c # yy, c # g.root
         PROVE  g.parent[c] \in g.used /\ g.kid[Hangs(g, c)][g.parent[c]] = c
    <2>1. CASE c = only
      <3>1. yy # h.root /\ g.parent[c] = p /\ p \in h.used /\ p # yy
        BY <1>4, <1>11, <2>1
      <3>2. g.kid[Hangs(h, yy)][p] = c /\ Hangs(h, yy) \in Sides
        BY <1>4, <2>1, <3>1, SidesFacts
      <3>3. g.kid["left"][p] = c => Hangs(g, c) = "left"
        BY <3>1 DEF Hangs
      <3>4. g.kid["left"][p] # c => Hangs(g, c) = "right" /\ Hangs(h, yy) = "right"
        BY <3>1, <3>2 DEF Hangs, Sides
      <3> QED
        BY <1>2, <3>1, <3>2, <3>3, <3>4
    <2>2. CASE c # only
      <3>1. c # h.root
        BY <1>4, <1>11, <2>2
      <3>2. h.parent[c] \in h.used /\ h.parent[c] # yy /\ h.kid[Hangs(h, c)][h.parent[c]] = c
        BY <1>10, <1>11, <2>2, <3>1
      <3>3. g.parent[c] = h.parent[c]
        BY <1>4, <1>11, <2>2
      <3>4. \A t \in Sides : h.kid[t][h.parent[c]] = c => g.kid[t][h.parent[c]] = c
        BY <1>4, <1>11, <3>2
      <3>5. Hangs(h, c) \in Sides /\ "left" \in Sides
        BY SidesFacts
      <3>6. g.kid["left"][h.parent[c]] = c => Hangs(g, c) = "left"
        BY <3>3 DEF Hangs
      <3>7. g.kid["left"][h.parent[c]] # c => Hangs(g, c) = "right" /\ Hangs(h, c) = "right"
        BY <3>3, <3>4, <3>5 DEF Hangs
      <3> QED
        BY <1>2, <3>2, <3>3, <3>4, <3>5, <3>6, <3>7
    <2> QED
      BY <2>1, <2>2
  <1>12. ASSUME NEW c \in h.used, c # yy, NEW d \in B2[c]
         PROVE  B2[d] \subseteq B2[c] /\ (d # c => g.parent[d] \in B2[c])
    <2>1. c \in Nodes /\ d \in B[c] /\ d # yy
      BY <1>2, <1>5, <1>12
    <2>2. d \in h.used /\ B[d] \subseteq B[c] /\ (d # c => h.parent[d] \in B[c]) /\ B[c] \subseteq h.used
      BY <2>1, SpansDown, SpansSides
    <2>3. B2[d] \subseteq B2[c]
      <3>1. d \in Nodes
        BY <1>2, <2>2
      <3> QED
        BY <1>5, <1>12, <2>1, <2>2, <3>1
    <2>4. ASSUME d # c PROVE g.parent[d] \in B2[c]
      <3>1. CASE d = only
        <4>1. d # nil /\ h.parent[d] = yy
          BY <1>2, <1>4, <2>2, <3>1
        <4>2. yy \in B[c] /\ g.parent[d] = p
          BY <1>4, <2>1, <2>2, <2>4, <3>1, <4>1
        <4>3. p \in B[c]
          BY <1>12, <4>2, SpansDown DEF p
        <4> QED
          BY <1>4, <1>5, <1>12, <2>1, <4>2, <4>3
      <3>2. CASE d # only
        <4>1. h.parent[d] \in B[c] /\ h.parent[d] # nil
          BY <1>2, <2>2, <2>4
        <4>2. d # h.root
          BY <1>2, <1>3, <2>2, <4>1
        <4>3. h.parent[d] # yy /\ g.parent[d] = h.parent[d]
          BY <1>4, <1>10, <2>1, <2>2, <3>2, <4>2
        <4> QED
          BY <1>5, <1>12, <2>1, <4>1, <4>3
      <3> QED
        BY <3>1, <3>2
    <2> QED
      BY <2>3, <2>4
  <1>13. Spans(g, B2)
    <2>1. ASSUME NEW c \in g.used
          PROVE  /\ \A t \in Sides : /\ g.kid[t][c] \in g.used \cup {nil}
                                     /\ c \notin B2[g.kid[t][c]]
                                     /\ g.kid[t][c] # nil => g.parent[g.kid[t][c]] = c
                 /\ \A d : d \in B2[c] <=> d = c \/ d \in B2[g.kid["left"][c]] \/ d \in B2[g.kid["right"][c]]
                 /\ \A d \in B2[g.kid["left"][c]] : d \notin B2[g.kid["right"][c]]
                 /\ c # g.root => g.parent[c] \in g.used /\ g.kid[Hangs(g, c)][g.parent[c]] = c
                 /\ \A d \in B2[c] : B2[d] \subseteq B2[c] /\ (d # c => g.parent[d] \in B2[c])
      <3>1. c \in h.used /\ c # yy
        BY <1>2
      <3> QED
        BY <1>7, <1>9, <1>11, <1>12, <3>1
    <2>2. B2 \in [Nodes -> SUBSET g.used] /\ B2[nil] = {}
      BY <1>5
    <2> QED
      BY ONLY <1>8, <2>1, <2>2 DEF Spans
  <1>14. ASSUME NEW c \in g.used, NEW t \in Sides, NEW d \in B2[g.kid[t][c]]
         PROVE  Before(t, g.key[d], g.key[c])
    <2>1. c \in h.used /\ c # yy
      BY <1>2
    <2>2. d \in B[h.kid[t][c]] /\ d # yy
      BY <1>7, <1>14, <2>1
    <2>3. d \in h.used /\ d \in Cells /\ c \in Cells /\ yy \in Cells /\ zz \in Cells /\ zz \in h.used
      BY <1>2, <1>4, <2>1, <2>2, SpansSides DEF Leaving
    <2>4. /\ g.key[d] = (IF d = zz THEN h.key[yy] ELSE h.key[d])
          /\ g.key[c] = (IF c = zz THEN h.key[yy] ELSE h.key[c])
      BY <2>1, <2>2, <2>3 DEF Shrunk
    <2>5. Before(t, h.key[d], h.key[c])
      BY <2>1, <2>2 DEF Sorted
    <2>6. h.key[d] \in Int /\ h.key[c] \in Int /\ h.key[yy] \in Int
      BY <2>3, NodeFacts
    <2>7. CASE c # zz /\ d # zz
      BY <2>4, <2>5, <2>7
    <2>8. CASE d = zz
      <3>1. yy \in B[h.kid["right"][zz]]
        BY <2>2, <2>8 DEF Leaving
      <3>2. yy \in B[zz] /\ h.kid[t][c] \in h.used
        BY <1>2, <1>3, <2>1, <2>2, <2>3, <3>1, SpansSides, SidesFacts
      <3>3. yy \in B[h.kid[t][c]]
        BY <2>2, <2>8, <3>2, SpansDown
      <3>4. Before(t, h.key[yy], h.key[c])
        BY <2>1, <3>3 DEF Sorted
      <3>5. c # zz
        BY <2>1, <2>2, <2>8, SpansSides
      <3> QED
        BY <2>4, <2>8, <3>4, <3>5
    <2>9. CASE c = zz
      <3>1. yy \in B[h.kid["right"][zz]]
        BY <2>1, <2>9 DEF Leaving
      <3>2. g.key[d] = h.key[d] /\ g.key[c] = h.key[yy]
        BY <2>1, <2>2, <2>4, <2>9, SpansSides
      <3>3. CASE t = "right"
        <4>1. Before("right", h.key[d], h.key[yy])
          BY <2>1, <2>2, <2>9, <3>3 DEF Leaving
        <4> QED
          BY <3>2, <3>3, <4>1
      <3>4. CASE t = "left"
        <4>1. Before("right", h.key[yy], h.key[zz])
          BY <2>3, <3>1, SidesFacts DEF Sorted
        <4> QED
          BY <2>5, <2>6, <2>9, <3>2, <3>4, <4>1 DEF Before
      <3> QED
        BY <3>3, <3>4 DEF Sides
    <2> QED
      BY <2>7, <2>8, <2>9
  <1>15. Sorted(g, B2)
    BY <1>14 DEF Sorted
  <1>16. FreeClean(g)
    <2>1. ASSUME NEW c \in Cells \ g.used, NEW t \in Sides PROVE g.kid[t][c] = nil
      <3>1. c = yy \/ c \notin h.used
        BY <1>2
      <3>2. c \notin h.used => c # p
        BY <1>2, <1>4
      <3> QED
        BY <1>2, <3>1, <3>2 DEF FreeClean, Shrunk, p
    <2> QED
      BY <2>1 DEF FreeClean
  <1> QED
    BY <1>13, <1>15, <1>16 DEF SearchTree, Shrunk

\* The colours of a tree that has lost a node: all is well when it was red.
LEMMA ShrunkRed ==
  ASSUME NEW h \in Trees, Linked(h), Colored(h, {}, nil, "left"), NEW yy, NEW only,
         OneChild(h, yy, only), h.color[yy] = "red", NEW zz, NEW g, Shrunk(g, h, yy, zz, only)
  PROVE  Colored(g, {}, nil, "left")
  <1>1. PICK H : Balanced(h, H, nil, "left")
    BY DEF Colored
  <1>2. /\ nil \in Nodes /\ h.used \subseteq Cells /\ Cells \subseteq Nodes /\ nil \notin Cells
        /\ g.used = h.used \ {yy} /\ h.color[nil] = "black" /\ h.root \in h.used \cup {nil}
        /\ \A d \in Nodes : g.color[d] = IF d = yy THEN "black" ELSE h.color[d]
    BY NodeFacts DEF Shrunk, Colored, Linked
  <1>3. /\ yy \in h.used /\ yy # nil /\ only \in h.used \cup {nil} /\ only # yy
        /\ only # nil => h.parent[only] = yy
        /\ g.root = IF yy = h.root THEN only ELSE h.root
        /\ \A c \in h.used, t \in Sides : c # yy =>
              g.kid[t][c] = IF h.kid[t][c] = yy THEN only ELSE h.kid[t][c]
        /\ \A c \in h.used \cup {nil} : c # yy => g.parent[c] = IF c = only THEN h.parent[yy] ELSE h.parent[c]
    BY ShrunkLinks
  <1>4. H \in [Nodes -> Nat] /\ H[nil] = 0
    BY <1>1 DEF Balanced
  <1>5. H[yy] = H[only]
    <2>1. PICK s \in Sides : h.kid[s][yy] = only
      BY DEF OneChild
    <2> QED
      BY <1>1, <1>2, <1>3, <2>1, BalancedAt
  <1>6. ASSUME NEW c \in g.used, NEW t \in Sides
        PROVE  /\ H[g.kid[t][c]] \in Nat
               /\ H[c] = IF g.color[c] = "black" THEN H[g.kid[t][c]] + 1 ELSE H[g.kid[t][c]]
    <2>1. /\ c \in h.used /\ c # yy /\ H[h.kid[t][c]] \in Nat /\ g.color[c] = h.color[c]
          /\ H[c] = IF h.color[c] = "black" THEN H[h.kid[t][c]] + 1 ELSE H[h.kid[t][c]]
      BY <1>1, <1>2, BalancedAt
    <2>2. H[g.kid[t][c]] = H[h.kid[t][c]]
      BY <1>3, <1>5, <2>1
    <2> QED
      BY <2>1, <2>2
  <1>7. Balanced(g, H, nil, "left")
    <2>1. g.used \subseteq Cells
      BY <1>2
    <2> QED
      BY <1>2, <1>4, <1>6, <2>1 DEF Balanced, Ink
  <1>8. yy # h.root
    BY DEF Colored
  <1>9. ASSUME NEW c \in g.used PROVE ~(g.color[c] = "red" /\ g.color[g.parent[c]] = "red")
    <2>1. c \in h.used /\ c # yy /\ c \in Nodes /\ h.parent[c] \in Nodes
      BY <1>2, LinkedFacts
    <2>2. ~(h.color[c] = "red" /\ h.color[h.parent[c]] = "red") /\ g.color[c] = h.color[c]
      BY <1>2, <2>1 DEF Colored
    <2>3. CASE c = only
      <3>1. h.parent[c] = yy
        BY <1>2, <1>3, <2>1, <2>3
      <3> QED
        BY <2>2, <3>1
    <2>4. CASE c # only
      <3>1. g.parent[c] = h.parent[c]
        BY <1>3, <2>1, <2>4
      <3> QED
        BY <1>2, <2>1, <2>2, <3>1
    <2> QED
      BY <2>3, <2>4
  <1>10. g.color[g.root] # "red" /\ g.color[nil] = "black"
    BY <1>2, <1>3, <1>8 DEF Colored
  <1> QED
    BY <1>7, <1>9, <1>10 DEF Colored

\* When it was black, the child that takes its place is short of one.
LEMMA ShrunkBlack ==
  ASSUME NEW h \in Trees, Linked(h), Colored(h, {}, nil, "left"), NEW yy, NEW only,
         OneChild(h, yy, only), h.color[yy] = "black", NEW zz, NEW g, Shrunk(g, h, yy, zz, only)
  PROVE  DeleteColored(g, only)
  <1> DEFINE p == h.parent[yy]
             q == Hangs(h, yy)
  <1>1. PICK H : Balanced(h, H, nil, "left")
    BY DEF Colored
  <1>2. /\ nil \in Nodes /\ h.used \subseteq Cells /\ Cells \subseteq Nodes /\ nil \notin Cells
        /\ g.used = h.used \ {yy} /\ h.color[nil] = "black" /\ h.root \in h.used \cup {nil}
        /\ \A d \in Nodes : g.color[d] = IF d = yy THEN "black" ELSE h.color[d]
    BY NodeFacts DEF Shrunk, Colored, Linked
  <1>3. /\ yy \in h.used /\ yy # nil /\ only \in h.used \cup {nil} /\ only # yy
        /\ only # nil => h.parent[only] = yy
        /\ g.root = IF yy = h.root THEN only ELSE h.root
        /\ \A c \in h.used, t \in Sides : c # yy =>
              g.kid[t][c] = IF h.kid[t][c] = yy THEN only ELSE h.kid[t][c]
        /\ \A c \in h.used \cup {nil} : c # yy => g.parent[c] = IF c = only THEN p ELSE h.parent[c]
        /\ p # yy /\ (yy = h.root <=> p = nil)
        /\ yy # h.root => p \in h.used /\ h.kid[q][p] = yy
    <2>1. h \in Trees /\ Linked(h) /\ OneChild(h, yy, only) /\ Shrunk(g, h, yy, zz, only)
          /\ p = h.parent[yy] /\ q = Hangs(h, yy)
      OBVIOUS
    <2> HIDE DEF p, q
    <2> QED
      BY ONLY <2>1, ShrunkLinks
  <1>4. H \in [Nodes -> Nat] /\ H[nil] = 0
    BY <1>1 DEF Balanced
  <1>5. H[yy] = H[only] + 1 /\ H[only] \in Nat
    <2>1. PICK s \in Sides : h.kid[s][yy] = only
      BY DEF OneChild
    <2> QED
      BY <1>1, <1>2, <1>3, <2>1, BalancedAt
  <1>6. g.parent[only] = p
    BY <1>3
  <1>7. ASSUME yy # h.root PROVE Hangs(g, only) = q /\ g.kid[q][p] = only
    <2>1. p \in h.used /\ p # yy /\ h.kid[q][p] = yy /\ q \in Sides /\ "left" \in Sides /\ p \in Nodes
      BY <1>2, <1>3, <1>7, SidesFacts
    <2>2. g.kid[q][p] = only
      BY <1>3, <2>1
    <2>3. CASE q = "left"
      BY <1>6, <2>2, <2>3 DEF Hangs
    <2>4. CASE q = "right"
      <3>1. h.kid["left"][p] # yy /\ g.kid["left"][p] = h.kid["left"][p]
        <4>1. Other("left") = "right"
          BY DEF Other
        <4>2. h.kid["left"][p] # nil => h.kid["left"][p] # h.kid["right"][p]
          BY <2>1, <4>1, KidFacts
        <4>3. h.kid["left"][p] # yy
          BY <1>3, <2>1, <2>4, <4>2
        <4> QED
          BY <1>3, <2>1, <4>3
      <3>2. h.kid["left"][p] # only
        <4>1. CASE only = nil
          <5>1. H[p] = H[h.kid["left"][p]] + (IF h.color[p] = "black" THEN 1 ELSE 0) /\ H[h.kid["left"][p]] \in Nat
                /\ H[p] = H[yy] + (IF h.color[p] = "black" THEN 1 ELSE 0) /\ H[yy] \in Nat
            BY <1>1, <1>2, <2>1, BalancedAt
          <5>2. H[h.kid["left"][p]] = H[yy]
            BY ONLY <5>1
          <5> QED
            BY ONLY <1>4, <1>5, <4>1, <5>2
        <4>2. CASE only # nil
          <5>1. h.kid["left"][p] = only => h.parent[only] = p
            BY <2>1, <4>2, KidFacts
          <5> QED
            BY <1>3, <2>1, <4>2, <5>1
        <4> QED
          BY <4>1, <4>2
      <3> QED
        BY <1>6, <2>2, <2>4, <3>1, <3>2 DEF Hangs
    <2> QED
      BY <2>1, <2>2, <2>3, <2>4 DEF Sides
  <1>8. ASSUME NEW c \in h.used, NEW t \in Sides
        PROVE  h.kid[t][c] = yy <=> yy # h.root /\ c = p /\ t = q
    <2>1. h.kid[t][c] = yy => c = p /\ t = q /\ yy # h.root
      BY <1>3, KidFacts
    <2> QED
      BY <1>3, <2>1
  <1> DEFINE r == Hangs(g, only)
  <1>9. yy # h.root => r = q
    BY <1>7
  <1> HIDE DEF p, q, r
  <1>10. ASSUME NEW c \in g.used, NEW t \in Sides
         PROVE  /\ H[g.kid[t][c]] \in Nat
                /\ H[c] = IF c = p /\ t = r
                          THEN IF g.color[c] = "black" THEN H[g.kid[t][c]] + 2 ELSE H[g.kid[t][c]] + 1
                          ELSE IF g.color[c] = "black" THEN H[g.kid[t][c]] + 1 ELSE H[g.kid[t][c]]
    <2>1. /\ c \in h.used /\ c # yy /\ H[h.kid[t][c]] \in Nat /\ g.color[c] = h.color[c] /\ c # nil
          /\ H[c] = IF h.color[c] = "black" THEN H[h.kid[t][c]] + 1 ELSE H[h.kid[t][c]]
      BY <1>1, <1>2, BalancedAt
    <2>2. CASE h.kid[t][c] = yy
      <3>1. c = p /\ t = r /\ g.kid[t][c] = only
        BY <1>3, <1>8, <1>9, <2>1, <2>2
      <3> QED
        BY <1>5, <2>1, <2>2, <3>1
    <2>3. CASE h.kid[t][c] # yy
      <3>1. ~(c = p /\ t = r) /\ g.kid[t][c] = h.kid[t][c]
        BY <1>3, <1>8, <1>9, <2>1, <2>3
      <3> QED
        BY <2>1, <3>1
    <2> QED
      BY <2>2, <2>3
  <1>11. Balanced(g, H, p, r)
    <2>1. g.used \subseteq Cells
      BY <1>2
    <2> QED
      BY <1>2, <1>4, <1>10, <2>1 DEF Balanced, Ink
  <1>12. ASSUME NEW c \in g.used, g.color[c] = "red", g.color[g.parent[c]] = "red" PROVE c \in RedsAt(g, only)
    <2>1. c \in h.used /\ c # yy /\ c \in Nodes /\ h.parent[c] \in Nodes
      BY <1>2, LinkedFacts
    <2>2. CASE c = only
      BY <1>12, <2>2 DEF RedsAt
    <2>3. CASE c # only
      <3>1. g.parent[c] = h.parent[c]
        BY <1>3, <2>1, <2>3
      <3>2. h.color[c] = "red" /\ h.color[h.parent[c]] = "red"
        BY <1>2, <1>12, <2>1, <3>1
      <3> QED
        BY <2>1, <3>2 DEF Colored
    <2> QED
      BY <2>2, <2>3
  <1>13. g.color[g.root] = "red" => g.root \in RedsAt(g, only)
    <2>1. CASE yy = h.root
      BY <1>3, <2>1 DEF RedsAt
    <2>2. CASE yy # h.root
      BY <1>2, <1>3, <2>2 DEF Colored
    <2> QED
      BY <2>1, <2>2
  <1>14. g.color[nil] = "black"
    BY <1>2, <1>3
  <1>15. Colored(g, RedsAt(g, only), g.parent[only], Hangs(g, only))
    BY <1>6, <1>11, <1>12, <1>13, <1>14 DEF Colored, r
  <1>16. ASSUME only = nil, g.root # nil PROVE g.parent[nil] \in g.used /\ g.kid[Hangs(g, nil)][g.parent[nil]] = nil
    <2>1. yy # h.root
      BY <1>3, <1>16
    <2> QED
      BY <1>2, <1>3, <1>6, <1>7, <1>16, <2>1
  <1> QED
    BY <1>2, <1>3, <1>15, <1>16 DEF DeleteColored

\* What rbtree_delete does to take yy out: its only child, the link and the key
\* it hands over, and the cell that is free again.
Only(h, yy) == IF h.kid["left"][yy] # nil THEN h.kid["left"][yy] ELSE h.kid["right"][yy]
Bridged(h, yy, zz, only) ==
  [Replace(h, yy, only) EXCEPT !.parent[only] = h.parent[yy], !.key[zz] = h.key[yy]]
Emptied(h, yy) ==
  [h EXCEPT !.used = @ \ {yy}, !.key[yy] = NoKey, !.parent[yy] = nil, !.color[yy] = "black",
            !.kid["left"][yy] = nil, !.kid["right"][yy] = nil]

\* They change the fields as Shrunk says.
LEMMA SpliceEffect ==
  ASSUME NEW h \in Trees, Linked(h), NEW yy \in h.used, NEW zz \in h.used,
         NEW side \in Sides, h.kid[side][yy] = nil,
         NEW only, only = Only(h, yy), NEW e, e = Bridged(h, yy, zz, only), NEW g, g = Emptied(e, yy)
  PROVE  OneChild(h, yy, only) /\ Shrunk(g, h, yy, zz, only)
  <1> DEFINE f == Replace(h, yy, only)
             p == h.parent[yy]
             q == Hangs(h, yy)
  <1>1. /\ nil \in Nodes /\ h.used \subseteq Cells /\ Cells \subseteq Nodes /\ nil \notin Cells
        /\ yy \in Cells /\ zz \in Cells /\ yy # nil /\ p \in Nodes /\ (p # nil => p \in Cells)
        /\ "left" \in Sides /\ "right" \in Sides /\ q \in Sides /\ (side = "left" \/ side = "right")
    BY NodeFacts, SidesFacts DEF Sides
  <1>2. OneChild(h, yy, only) /\ only \in Nodes
    <2>1. \/ only = h.kid["left"][yy] /\ h.kid["right"][yy] = nil
          \/ only = h.kid["right"][yy] /\ h.kid["left"][yy] = nil
      <3>1. CASE h.kid["left"][yy] = nil
        <4>1. only = h.kid["right"][yy]
          BY <3>1 DEF Only
        <4> QED
          BY ONLY <3>1, <4>1
      <3>2. CASE h.kid["left"][yy] # nil
        <4>1. only = h.kid["left"][yy]
          BY <3>2 DEF Only
        <4>2. h.kid["right"][yy] = nil
          BY <1>1, <3>2
        <4> QED
          BY ONLY <4>1, <4>2
      <3> QED
        BY <3>1, <3>2
    <2>2. Other("left") = "right" /\ Other("right") = "left"
      BY DEF Other
    <2>3. OneChild(h, yy, only)
      BY <1>1, <2>1, <2>2 DEF OneChild
    <2> QED
      BY <1>1, <2>1, <2>3, NodeFacts
  <1>3. only # yy
    BY <1>2, <1>1, KidFacts DEF OneChild
  <1>4. /\ f \in Trees /\ f.used = h.used /\ f.color = h.color /\ f.key = h.key /\ f.parent = h.parent
        /\ f.root = IF p = nil THEN only ELSE h.root
        /\ \A t \in Sides, d \in Cells : f.kid[t][d] = IF d = p /\ t = q THEN only ELSE h.kid[t][d]
    <2>1. CASE p = nil
      <3>1. f = [h EXCEPT !.root = only]
        BY <2>1 DEF Replace
      <3> QED
        BY ONLY <1>1, <1>2, <2>1, <3>1, h \in Trees DEF Trees
    <2>2. CASE p # nil
      <3>1. f = [h EXCEPT !.kid[q][p] = only] /\ p \in Cells
        BY <1>1, <2>2 DEF Replace
      <3> HIDE DEF f, p, q
      <3>2. /\ f \in Trees /\ f.used = h.used /\ f.color = h.color /\ f.key = h.key /\ f.root = h.root
            /\ f.parent = h.parent
            /\ \A t \in Sides, d \in Cells : f.kid[t][d] = IF t = q /\ d = p THEN only ELSE h.kid[t][d]
        <4>1. h \in Trees /\ q \in Sides /\ p \in Cells /\ only \in Nodes
          BY <1>1, <1>2, <3>1
        <4> QED
          BY ONLY <4>1, <3>1 DEF Trees
      <3> QED
        BY ONLY <2>2, <3>2
    <2> QED
      BY <2>1, <2>2
  <1>5. e = [f EXCEPT !.parent[only] = p, !.key[zz] = h.key[yy]]
    BY DEF Bridged
  <1>6. h.key[yy] \in KeyValues \cup {NoKey}
    BY <1>1 DEF Trees
  <1> HIDE DEF f, p, q
  <1>7. /\ e \in Trees /\ e.used = f.used /\ e.color = f.color /\ e.kid = f.kid /\ e.root = f.root
        /\ e.parent = [f.parent EXCEPT ![only] = p] /\ e.key = [f.key EXCEPT ![zz] = h.key[yy]]
    BY ONLY <1>1, <1>2, <1>4, <1>5, <1>6 DEF Trees
  <1>8. /\ g.used = e.used \ {yy} /\ g.root = e.root
        /\ g.parent = [e.parent EXCEPT ![yy] = nil] /\ g.key = [e.key EXCEPT ![yy] = NoKey]
        /\ g.color = [e.color EXCEPT ![yy] = "black"]
        /\ \A t \in Sides, d \in Cells : g.kid[t][d] = IF d = yy THEN nil ELSE e.kid[t][d]
        /\ g \in Trees
    <2> DEFINE e1 == [e EXCEPT !.used = @ \ {yy}, !.key[yy] = NoKey, !.parent[yy] = nil, !.color[yy] = "black"]
               e2 == [e1 EXCEPT !.kid["left"][yy] = nil]
    <2>1. yy \in Cells /\ yy \in Nodes /\ nil \in Nodes /\ e \in Trees
      BY <1>1, <1>7
    <2>2. NoKey \in KeyValues \cup {NoKey}
      OBVIOUS
    <2>3. "left" \in Sides /\ "right" \in Sides
      BY <1>1
    <2>4. /\ e1 \in Trees /\ e1.used = e.used \ {yy} /\ e1.root = e.root /\ e1.kid = e.kid
          /\ e1.parent = [e.parent EXCEPT ![yy] = nil] /\ e1.key = [e.key EXCEPT ![yy] = NoKey]
          /\ e1.color = [e.color EXCEPT ![yy] = "black"]
      BY ONLY <2>1, <2>2 DEF Trees
    <2>5. g = [e2 EXCEPT !.kid["right"][yy] = nil]
      BY DEF Emptied
    <2>6. e2 = [e1 EXCEPT !.kid["left"][yy] = nil]
      OBVIOUS
    <2> HIDE DEF e1, e2
    <2>7. /\ e2 \in Trees /\ e2.used = e1.used /\ e2.root = e1.root /\ e2.parent = e1.parent
          /\ e2.key = e1.key /\ e2.color = e1.color
          /\ \A t \in Sides, d \in Cells : e2.kid[t][d] = IF t = "left" /\ d = yy THEN nil ELSE e1.kid[t][d]
      BY ONLY <2>1, <2>3, <2>4, <2>6 DEF Trees
    <2>8. /\ g \in Trees /\ g.used = e2.used /\ g.root = e2.root /\ g.parent = e2.parent
          /\ g.key = e2.key /\ g.color = e2.color
          /\ \A t \in Sides, d \in Cells : g.kid[t][d] = IF t = "right" /\ d = yy THEN nil ELSE e2.kid[t][d]
      BY ONLY <2>1, <2>3, <2>5, <2>7 DEF Trees
    <2>9. \A t \in Sides, d \in Cells : g.kid[t][d] = IF d = yy THEN nil ELSE e.kid[t][d]
      BY ONLY <2>4, <2>7, <2>8 DEF Sides
    <2> QED
      BY ONLY <2>4, <2>7, <2>8, <2>9
  <1>10. /\ \A d \in Nodes : e.parent[d] = IF d = only THEN p ELSE h.parent[d]
         /\ \A d \in Cells : e.key[d] = IF d = zz THEN h.key[yy] ELSE h.key[d]
    <2>1. f.parent \in [Nodes -> Nodes] /\ f.key \in [Cells -> KeyValues \cup {NoKey}]
      BY <1>4 DEF Trees
    <2>2. /\ e.parent = [f.parent EXCEPT ![only] = p] /\ e.key = [f.key EXCEPT ![zz] = h.key[yy]]
          /\ f.parent = h.parent /\ f.key = h.key
      BY <1>4, <1>7
    <2>3. \A d \in Nodes : e.parent[d] = IF d = only THEN p ELSE h.parent[d]
      BY ONLY <2>1, <2>2
    <2>4. \A d \in Cells : e.key[d] = IF d = zz THEN h.key[yy] ELSE h.key[d]
      BY ONLY <2>1, <2>2
    <2> QED
      BY <2>3, <2>4
  <1>11. /\ \A d \in Nodes : g.parent[d] = IF d = yy THEN nil ELSE e.parent[d]
         /\ \A d \in Nodes : g.color[d] = IF d = yy THEN "black" ELSE e.color[d]
         /\ \A d \in Cells : g.key[d] = IF d = yy THEN NoKey ELSE e.key[d]
    <2>1. /\ e.parent \in [Nodes -> Nodes] /\ e.key \in [Cells -> KeyValues \cup {NoKey}]
          /\ e.color \in [Nodes -> {"red", "black"}]
      BY <1>7 DEF Trees
    <2>2. /\ g.parent = [e.parent EXCEPT ![yy] = nil] /\ g.key = [e.key EXCEPT ![yy] = NoKey]
          /\ g.color = [e.color EXCEPT ![yy] = "black"]
      BY <1>8
    <2>3. \A d \in Nodes : g.parent[d] = IF d = yy THEN nil ELSE e.parent[d]
      BY ONLY <2>1, <2>2
    <2>4. \A d \in Nodes : g.color[d] = IF d = yy THEN "black" ELSE e.color[d]
      BY ONLY <2>1, <2>2
    <2>5. \A d \in Cells : g.key[d] = IF d = yy THEN NoKey ELSE e.key[d]
      BY ONLY <2>1, <2>2
    <2> QED
      BY <2>3, <2>4, <2>5
  <1>12. Shrunk(g, h, yy, zz, only)
    <2>1. g \in Trees /\ g.used = h.used \ {yy} /\ g.root = IF p = nil THEN only ELSE h.root
      BY <1>4, <1>7, <1>8
    <2>2. \A d \in Nodes : /\ g.parent[d] = IF d = yy THEN nil ELSE IF d = only THEN p ELSE h.parent[d]
                           /\ g.color[d] = IF d = yy THEN "black" ELSE h.color[d]
      BY ONLY <1>1, <1>4, <1>7, <1>10, <1>11
    <2>3. \A d \in Cells : g.key[d] = IF d = yy THEN NoKey ELSE IF d = zz THEN h.key[yy] ELSE h.key[d]
      BY <1>10, <1>11
    <2>4. \A t \in Sides, d \in Cells :
            g.kid[t][d] = IF d = yy THEN nil ELSE IF d = p /\ t = q THEN only ELSE h.kid[t][d]
      BY ONLY <1>4, <1>7, <1>8
    <2> QED
      BY ONLY <2>1, <2>2, <2>3, <2>4 DEF Shrunk, p, q
  <1> QED
    BY <1>2, <1>12
-----------------------------------------------------------------------------
(* The inductive invariant *)

\* What the variables can be.
Locals ==
  /\ pc \in {"idle", "descend", "insertFixup", "search", "successor", "splice", "deleteFixup"}
  /\ arg \in KeyValues \cup {NoKey}
  /\ x \in Nodes /\ y \in Nodes /\ z \in Nodes

\* The nodes have the keys present, each key one node.
Contents ==
  /\ FreeClean(T) /\ present \subseteq KeyValues
  /\ \A c \in T.used : T.key[c] \in present
  /\ \A c, d \in T.used : T.key[c] = T.key[d] => c = d
  /\ \A k \in present : \E c \in T.used : T.key[c] = k

\* A search that goes down to x has the key it looks for under it; y, above x,
\* is where an insertion would put it, or on the way to the node next to z.
OnTheWay(B) ==
  /\ pc \in {"descend", "search"} =>
       /\ arg \in KeyValues /\ x \in T.used \cup {nil}
       /\ arg \in present => \E c \in B[x] : T.key[c] = arg
  /\ pc = "descend" =>
       /\ z \in Cells \ T.used /\ y \in T.used \cup {nil}
       /\ y = nil => x = T.root
       /\ y # nil => arg # T.key[y] /\ x = T.kid[IF arg < T.key[y] THEN "left" ELSE "right"][y]
       /\ \A c \in T.used, s \in Sides : y \in B[T.kid[s][c]] => Before(s, arg, T.key[c])
  /\ pc \in {"successor", "splice"} => arg \in KeyValues /\ z \in T.used /\ T.key[z] = arg
  /\ pc = "successor" =>
       /\ y \in B[T.kid["right"][z]]
       /\ \A d \in B[T.kid["right"][z]], e \in B[y] : d \in B[y] \/ T.key[e] < T.key[d]
  /\ pc = "splice" =>
       \/ y = z /\ \E s \in Sides : T.kid[s][z] = nil
       \/ /\ y \in B[T.kid["right"][z]] /\ T.kid["left"][y] = nil
          /\ \A d \in B[T.kid["right"][z]] : d = y \/ T.key[y] < T.key[d]

\* A search tree, with its functions' variables where they should be.
SearchInv == \E B : Spans(T, B) /\ Sorted(T, B) /\ OnTheWay(B)

\* The colours, in a fixup and outside of it.
Painted ==
  /\ pc = "insertFixup" => z \in T.used /\ T.color[z] = "red" /\ ColoredBut(T, z)
  /\ pc = "deleteFixup" => DeleteColored(T, x)
  /\ pc \notin {"insertFixup", "deleteFixup"} => Colored(T, {}, nil, "left")

\* The strengthened invariant.
IndInv == T \in Trees /\ Locals /\ Contents /\ SearchInv /\ Painted

\* Nothing is known of the locals.
Quiet == pc \in {"idle", "insertFixup", "deleteFixup"}

\* A fixup, or no function at all, asks nothing of the way down.
LEMMA QuietWay == \A B : Quiet => OnTheWay(B)
  BY DEF Quiet, OnTheWay

\* Keys are integers other than the mark of a free cell.
LEMMA KeyFacts ==
  /\ KeyValues \subseteq Int /\ NoKey \in Int /\ NoKey \notin KeyValues
  /\ nil \notin Cells /\ nil \in Nodes
  <1>1. KeyValues \subseteq Int \ {0} /\ Cells \subseteq Nat \ {nil}
    BY RBAssumption
  <1>2. KeyValues \subseteq Int /\ NoKey \in Int /\ NoKey \notin KeyValues
    BY ONLY <1>1 DEF NoKey
  <1> QED
    BY ONLY <1>1, <1>2 DEF Nodes

\* The empty tree satisfies it.
LEMMA InitInd == Init => IndInv
  <1> SUFFICES ASSUME Init PROVE IndInv
    OBVIOUS
  <1>1. T \in Trees
    BY DEF Init, Trees, Nodes
  <1>2. Locals
    BY DEF Init, Locals, Nodes
  <1>3. T.used = {} /\ T.root = nil /\ pc = "idle" /\ present = {}
        /\ \A s \in Sides, c \in Cells : T.kid[s][c] = nil
    BY DEF Init
  <1>4. \A c \in Nodes : T.color[c] = "black"
    BY DEF Init
  <1>5. Contents
    BY <1>3 DEF Contents, FreeClean
  <1>6. SearchInv
    <2> DEFINE B == [c \in Nodes |-> {}]
    <2>1. Spans(T, B) /\ Sorted(T, B)
      BY <1>1, <1>3, KeyFacts DEF Spans, Sorted
    <2>2. OnTheWay(B)
      BY <1>3, QuietWay DEF Quiet
    <2> QED
      BY <2>1, <2>2 DEF SearchInv
  <1>7. Colored(T, {}, nil, "left")
    <2> DEFINE H == [c \in Nodes |-> 0]
    <2>1. Balanced(T, H, nil, "left")
      BY <1>3, KeyFacts DEF Balanced
    <2> QED
      BY <1>3, <1>4, <2>1, KeyFacts DEF Colored
  <1> QED
    BY <1>1, <1>2, <1>3, <1>5, <1>6, <1>7 DEF IndInv, Painted

\* A step that only reshapes the tree and is in no search.
LEMMA ReshapedInd ==
  ASSUME IndInv, SearchTree(T), Reshaped(T', T), Quiet', Locals', present' = present, Painted'
  PROVE  IndInv'
  <1>1. T' \in Trees
    BY DEF Reshaped, SearchTree
  <1>2. Contents'
    BY DEF IndInv, Contents, Reshaped
  <1>3. SearchInv'
    <2>1. PICK B : Spans(T', B) /\ Sorted(T', B)
      BY DEF Reshaped, SearchTree
    <2>2. OnTheWay(B)'
      BY QuietWay DEF Quiet, OnTheWay
    <2> QED
      BY <2>1, <2>2 DEF SearchInv
  <1> QED
    BY <1>1, <1>2, <1>3 DEF IndInv

\* The tree of the invariant is a search tree.
LEMMA IndTree == ASSUME IndInv PROVE SearchTree(T) /\ Linked(T) /\ T \in Trees
  <1>1. SearchTree(T)
    BY DEF IndInv, SearchInv, SearchTree
  <1> QED
    BY <1>1, TreeLinked

\* So does a state with the same variables.
LEMMA StutterInd == ASSUME IndInv, UNCHANGED vars PROVE IndInv'
  <1>1. /\ T' = T /\ pc' = pc /\ arg' = arg /\ x' = x /\ y' = y /\ z' = z /\ present' = present
    BY DEF vars, locals
  <1>2. SearchInv'
    BY <1>1 DEF IndInv, SearchInv, OnTheWay
  <1>3. Contents' /\ Locals' /\ Painted'
    BY <1>1 DEF IndInv, Contents, Locals, Painted
  <1> QED
    BY <1>1, <1>2, <1>3 DEF IndInv

\* A node's place in the tree.
LEMMA SpansFacts ==
  ASSUME NEW h \in Trees, NEW B, Spans(h, B)
  PROVE  /\ B[nil] = {} /\ h.root \in h.used \cup {nil} /\ B[h.root] = h.used
         /\ \A c \in Nodes : B[c] \subseteq h.used
         /\ \A c \in h.used : c \in B[c] /\ c \in Nodes /\ c \in Cells /\ c # nil
         /\ \A c \in h.used, s \in Sides : h.kid[s][c] \in h.used \cup {nil} /\ B[h.kid[s][c]] \subseteq B[c]
         /\ \A c \in h.used : \A d \in B[c] : d = c \/ d \in B[h.kid["left"][c]] \/ d \in B[h.kid["right"][c]]
         /\ \A c \in h.used : \A d \in B[c] : d \in h.used /\ B[d] \subseteq B[c] /\ (d # c => h.parent[d] \in B[c])
         /\ \A c \in h.used, s \in Sides : c \notin B[h.kid[s][c]]
  <1>1. h.used \subseteq Cells /\ Cells \subseteq Nodes /\ nil \notin Cells
    BY NodeFacts
  <1>2. \A c \in h.used, s \in Sides : B[h.kid[s][c]] \subseteq B[c]
    BY DEF Spans, Sides
  <1>3. \A c \in h.used : \A d : d \in B[c] <=> d = c \/ d \in B[h.kid["left"][c]] \/ d \in B[h.kid["right"][c]]
    BY DEF Spans
  <1>4. B \in [Nodes -> SUBSET h.used]
    BY DEF Spans
  <1>5. \A c \in h.used, s \in Sides : h.kid[s][c] \in h.used \cup {nil} /\ c \notin B[h.kid[s][c]]
    BY DEF Spans
  <1>6. \A c \in h.used : \A d \in B[c] : B[d] \subseteq B[c] /\ (d # c => h.parent[d] \in B[c])
    BY DEF Spans
  <1>7. B[nil] = {} /\ h.root \in h.used \cup {nil} /\ B[h.root] = h.used
    BY DEF Spans
  <1> QED
    BY <1>1, <1>2, <1>3, <1>4, <1>5, <1>6, <1>7

\* One node further down: the keys that are looked for are on that side.
LEMMA DownOne ==
  ASSUME NEW h \in Trees, NEW B, Spans(h, B), Sorted(h, B), NEW c \in h.used,
         NEW k \in Int, h.key[c] # k, \E d \in B[c] : h.key[d] = k
  PROVE  \E d \in B[h.kid[IF k < h.key[c] THEN "left" ELSE "right"][c]] : h.key[d] = k
  <1>1. PICK d \in B[c] : h.key[d] = k
    OBVIOUS
  <1>2. d \in h.used /\ (d \in B[h.kid["left"][c]] \/ d \in B[h.kid["right"][c]]) /\ c \in Cells
    BY <1>1, SpansFacts
  <1>3. h.key[c] \in Int
    BY <1>2, NodeFacts
  <1>4. CASE d \in B[h.kid["left"][c]]
    <2>1. k < h.key[c]
      BY <1>1, <1>4, SidesFacts DEF Sorted, Before
    <2> QED
      BY <1>1, <1>4, <2>1
  <1>5. CASE d \in B[h.kid["right"][c]]
    <2>1. ~(k < h.key[c])
      BY <1>1, <1>3, <1>5, SidesFacts DEF Sorted, Before
    <2> QED
      BY <1>1, <1>5, <2>1
  <1> QED
    BY <1>2, <1>4, <1>5

\* The invariant, taken apart.
LEMMA IndFacts ==
  ASSUME IndInv
  PROVE  /\ T \in Trees /\ Locals /\ Contents /\ Painted /\ Linked(T) /\ SearchTree(T)
         /\ \E B : Spans(T, B) /\ Sorted(T, B) /\ OnTheWay(B)
  BY IndTree DEF IndInv, SearchInv

\* A step that leaves the tree as it is.
LEMMA SameInd ==
  ASSUME IndInv, T' = T, present' = present, Locals', Painted', NEW B, Spans(T, B), Sorted(T, B), OnTheWay(B)'
  PROVE  IndInv'
  <1>1. Contents'
    BY DEF IndInv, Contents
  <1>2. SearchInv'
    BY DEF SearchInv
  <1> QED
    BY <1>1, <1>2 DEF IndInv

\* An insertion starts at the root.
LEMMA InsertInd ==
  ASSUME IndInv, NEW k \in KeyValues, Insert(k) PROVE IndInv'
  <1>1. PICK B : Spans(T, B) /\ Sorted(T, B) /\ OnTheWay(B)
    BY IndFacts
  <1>2. T \in Trees /\ Locals /\ Contents /\ Painted
    BY IndFacts
  <1>3. T' = T /\ present' = present /\ arg' = k /\ pc = "idle" /\ pc' = "descend" /\ x' = T.root /\ y' = nil
        /\ z' \in Cells \ T.used
    BY DEF Insert
  <1>4. T.root \in T.used \cup {nil} /\ B[T.root] = T.used /\ (\A c \in Nodes : B[c] \subseteq T.used)
        /\ (\A c \in T.used, s \in Sides : T.kid[s][c] \in T.used \cup {nil})
        /\ T.used \subseteq Cells /\ nil \notin T.used /\ Cells \subseteq Nodes
    BY <1>1, <1>2, SpansFacts, NodeFacts
  <1>5. Locals'
    BY <1>2, <1>3, <1>4, KeyFacts DEF Locals
  <1>6. Painted'
    BY <1>2, <1>3 DEF Painted
  <1>7. OnTheWay(B)'
    <2>1. arg' \in present => \E c \in B[x'] : T.key[c] = arg'
      BY <1>2, <1>3, <1>4 DEF Contents
    <2>2. \A c \in T.used, s \in Sides : y' \notin B[T.kid[s][c]]
      BY <1>3, <1>4, KeyFacts
    <2> QED
      BY <1>3, <1>4, <2>1, <2>2 DEF OnTheWay
  <1> QED
    BY <1>1, <1>3, <1>5, <1>6, <1>7, SameInd

\* So does the search of a deletion.
LEMMA DeleteInd ==
  ASSUME IndInv, NEW k \in KeyValues, Delete(k) PROVE IndInv'
  <1>1. PICK B : Spans(T, B) /\ Sorted(T, B) /\ OnTheWay(B)
    BY IndFacts
  <1>2. T \in Trees /\ Locals /\ Contents /\ Painted
    BY IndFacts
  <1>3. T' = T /\ present' = present /\ arg' = k /\ pc = "idle" /\ pc' = "search" /\ x' = T.root
        /\ y' = y /\ z' = z
    BY DEF Delete
  <1>4. T.root \in T.used \cup {nil} /\ B[T.root] = T.used /\ T.used \subseteq Cells /\ Cells \subseteq Nodes
    BY <1>1, <1>2, SpansFacts, NodeFacts
  <1>5. Locals'
    BY <1>2, <1>3, <1>4, KeyFacts DEF Locals
  <1>6. Painted'
    BY <1>2, <1>3 DEF Painted
  <1>7. OnTheWay(B)'
    <2>1. arg' \in present => \E c \in B[x'] : T.key[c] = arg'
      BY <1>2, <1>3, <1>4 DEF Contents
    <2> QED
      BY <1>3, <1>4, <2>1 DEF OnTheWay
  <1> QED
    BY <1>1, <1>3, <1>5, <1>6, <1>7, SameInd

\* A function that returns without touching the tree.
LEMMA ReturnInd ==
  ASSUME IndInv, pc \notin {"insertFixup", "deleteFixup"}, Return, T' = T, present' = present PROVE IndInv'
  <1>1. PICK B : Spans(T, B) /\ Sorted(T, B) /\ OnTheWay(B)
    BY IndFacts
  <1>2. Locals' /\ Painted' /\ OnTheWay(B)'
    BY KeyFacts DEF IndInv, Return, Locals, Painted, OnTheWay
  <1> QED
    BY <1>1, <1>2, SameInd

\* One node further down, the key would still be put under x, and is there if it
\* is present.
LEMMA DescendInd ==
  ASSUME IndInv, Descend PROVE IndInv'
  <1>1. PICK B : Spans(T, B) /\ Sorted(T, B) /\ OnTheWay(B)
    BY IndFacts
  <1>2. T \in Trees /\ Locals /\ Contents /\ Painted /\ Linked(T)
    BY IndFacts
  <1>3. T' = T /\ present' = present /\ pc = "descend" /\ x # nil
    BY DEF Descend
  <1>4. CASE T.key[x] = arg
    BY <1>3, <1>4, ReturnInd DEF Descend
  <1>5. CASE T.key[x] # arg
    <2> DEFINE s == IF arg < T.key[x] THEN "left" ELSE "right"
    <2>1. y' = x /\ x' = T.kid[s][x] /\ pc' = pc /\ arg' = arg /\ z' = z
      BY <1>5 DEF Descend
    <2>2. /\ arg \in KeyValues /\ x \in T.used /\ (arg \in present => \E c \in B[x] : T.key[c] = arg)
          /\ z \in Cells \ T.used /\ y \in T.used \cup {nil} /\ (y = nil => x = T.root)
          /\ y # nil => arg # T.key[y] /\ x = T.kid[IF arg < T.key[y] THEN "left" ELSE "right"][y]
          /\ \A c \in T.used, t \in Sides : y \in B[T.kid[t][c]] => Before(t, arg, T.key[c])
      BY <1>1, <1>3 DEF OnTheWay
    <2>3. /\ x \in Cells /\ s \in Sides /\ x' \in T.used \cup {nil}
          /\ T.used \subseteq Cells /\ Cells \subseteq Nodes /\ arg \in Int
      BY <1>1, <1>2, <2>1, <2>2, SpansFacts, NodeFacts, SidesFacts, KeyFacts
    <2>4. arg \in present => \E c \in B[x'] : T.key[c] = arg
      BY <1>1, <1>2, <1>5, <2>1, <2>2, <2>3, DownOne
    <2>5. ASSUME NEW c \in T.used, NEW t \in Sides, x \in B[T.kid[t][c]] PROVE Before(t, arg, T.key[c])
      <3> DEFINE k == T.kid[t][c]
      <3>1. k \in T.used /\ k \in Nodes /\ nil \notin T.used /\ c \notin B[k] /\ B[nil] = {}
        BY <1>1, <1>2, <2>5, SpansFacts
      <3>2. CASE y = nil
        <4>1. B[x] = T.used /\ B[x] \subseteq B[k]
          BY <1>1, <1>2, <2>2, <2>5, <3>1, <3>2, SpansFacts
        <4> QED
          BY <3>1, <4>1
      <3>3. CASE y # nil /\ x = k
        <4> DEFINE u == IF arg < T.key[y] THEN "left" ELSE "right"
        <4>1. y \in T.used /\ x = T.kid[u][y] /\ u \in Sides /\ arg # T.key[y] /\ T.key[y] \in Int
          BY <1>2, <2>2, <2>3, <3>3, SidesFacts, NodeFacts
        <4>2. T.parent[x] = y /\ Hangs(T, x) = u
          BY <1>2, <1>3, <4>1, KidFacts
        <4>3. T.parent[x] = c /\ Hangs(T, x) = t
          BY <1>2, <1>3, <3>3, KidFacts
        <4>4. Before(u, arg, T.key[y])
          BY <2>3, <4>1, SidesFacts DEF Before
        <4> QED
          BY <4>2, <4>3, <4>4
      <3>4. CASE y # nil /\ x # k
        <4> DEFINE u == IF arg < T.key[y] THEN "left" ELSE "right"
        <4>1. y \in T.used /\ x = T.kid[u][y] /\ u \in Sides
          BY <2>2, <3>4, SidesFacts
        <4>2. T.parent[x] = y
          BY <1>2, <1>3, <4>1, KidFacts
        <4>3. T.parent[x] \in B[k]
          BY <1>1, <1>2, <2>5, <3>1, <3>4, SpansFacts
        <4> QED
          BY <2>2, <4>2, <4>3
      <3> QED
        BY <3>2, <3>3, <3>4
    <2>6. OnTheWay(B)'
      BY <1>3, <1>5, <2>1, <2>2, <2>3, <2>4, <2>5, KeyFacts DEF OnTheWay
    <2>7. Locals' /\ Painted'
      BY <1>2, <1>3, <2>1, <2>2, <2>3, KeyFacts DEF Locals, Painted
    <2> QED
      BY <1>1, <1>3, <2>6, <2>7, SameInd
  <1> QED
    BY <1>4, <1>5

\* x is nil, so the key is new and its place is free: the tree has one key more.
LEMMA LinkInd ==
  ASSUME IndInv, Link PROVE IndInv'
  <1>1. PICK B : Spans(T, B) /\ Sorted(T, B) /\ OnTheWay(B)
    BY IndFacts
  <1>2. T \in Trees /\ Locals /\ Contents /\ Painted /\ Linked(T)
    BY IndFacts
  <1> DEFINE s == IF arg < T.key[y] THEN "left" ELSE "right"
             h == IF y = nil THEN [T EXCEPT !.root = z] ELSE [T EXCEPT !.kid[s][y] = z]
  <1>3. /\ T' = [h EXCEPT !.used = @ \cup {z}, !.parent[z] = y, !.key[z] = arg, !.color[z] = "red"]
        /\ present' = present \cup {arg} /\ pc = "descend" /\ pc' = "insertFixup" /\ x = nil
        /\ arg' = arg /\ x' = x /\ y' = y /\ z' = z
    BY DEF Link
  <1>4. /\ arg \in KeyValues /\ (arg \in present => \E c \in B[x] : T.key[c] = arg)
        /\ z \in Cells \ T.used /\ y \in T.used \cup {nil} /\ (y = nil => x = T.root)
        /\ y # nil => arg # T.key[y] /\ x = T.kid[s][y]
        /\ \A c \in T.used, t \in Sides : y \in B[T.kid[t][c]] => Before(t, arg, T.key[c])
    BY <1>1, <1>3 DEF OnTheWay
  <1>5. s \in Sides /\ T.used \subseteq Cells /\ nil \notin T.used /\ arg \in Int /\ B[nil] = {}
    BY <1>1, <1>2, <1>4, SpansFacts, NodeFacts, SidesFacts, KeyFacts
  <1>6. Grown(T', T, z, y, s, arg)
    <2>1. h = IF y = nil THEN [T EXCEPT !.root = z] ELSE [T EXCEPT !.kid[s][y] = z]
      OBVIOUS
    <2> HIDE DEF h, s
    <2>2. Grown([h EXCEPT !.used = @ \cup {z}, !.parent[z] = y, !.key[z] = arg, !.color[z] = "red"],
                T, z, y, s, arg)
      BY <1>2, <1>4, <1>5, <2>1, LinkEffect
    <2> QED
      BY <1>3, <2>2
  <1>7. Place(T, B, y, s, arg)
    <2>1. y # nil => T.key[y] \in Int
      BY <1>2, <1>4, <1>5, NodeFacts
    <2>2. y # nil => T.kid[s][y] = nil /\ Before(s, arg, T.key[y])
      BY <1>3, <1>4, <1>5, <2>1, SidesFacts DEF Before
    <2> HIDE DEF s
    <2> QED
      BY <1>3, <1>4, <1>5, <2>2 DEF Place
  <1> HIDE DEF s, h
  <1>8. FreeClean(T)
    BY <1>2 DEF Contents
  <1>9. SearchTree(T') /\ FreeClean(T')
    BY <1>1, <1>2, <1>4, <1>6, <1>7, <1>8, GrownTree
  <1>10. ColoredBut(T', z) /\ T'.color[z] = "red"
    <2>1. Colored(T, {}, nil, "left")
      BY <1>2, <1>3 DEF Painted
    <2>2. y # nil => T.kid[s][y] = nil
      BY <1>7 DEF Place
    <2> QED
      BY <1>2, <1>4, <1>5, <1>6, <1>8, <2>1, <2>2, GrownColors
  <1>11. T'.used = T.used \cup {z} /\ \A c \in Cells : T'.key[c] = IF c = z THEN arg ELSE T.key[c]
    BY <1>6 DEF Grown
  <1>12. Contents'
    <2>1. arg \notin present
      BY <1>3, <1>4, <1>5
    <2>2. present' \subseteq KeyValues
      BY <1>2, <1>3, <1>4 DEF Contents
    <2>3. \A c \in T'.used : T'.key[c] \in present'
      BY <1>2, <1>3, <1>4, <1>5, <1>11 DEF Contents
    <2>4. \A c, d \in T'.used : T'.key[c] = T'.key[d] => c = d
      BY <1>2, <1>4, <1>5, <1>11, <2>1 DEF Contents
    <2>5. \A k \in present' : \E c \in T'.used : T'.key[c] = k
      <3> SUFFICES ASSUME NEW k \in present' PROVE \E c \in T'.used : T'.key[c] = k
        OBVIOUS
      <3>1. CASE k = arg
        BY <1>4, <1>11, <3>1
      <3>2. CASE k # arg
        <4>1. PICK c \in T.used : T.key[c] = k
          BY <1>2, <1>3, <3>2 DEF Contents
        <4> QED
          BY <1>4, <1>5, <1>11, <4>1
      <3> QED
        BY <3>1, <3>2
    <2> QED
      BY <1>9, <2>2, <2>3, <2>4, <2>5 DEF Contents
  <1>13. SearchInv'
    <2>1. PICK C : Spans(T', C) /\ Sorted(T', C)
      BY <1>9 DEF SearchTree
    <2>2. OnTheWay(C)'
      BY <1>3 DEF OnTheWay
    <2> QED
      BY <2>1, <2>2 DEF SearchInv
  <1>14. Locals' /\ Painted'
    BY <1>2, <1>3, <1>4, <1>10, <1>11 DEF Locals, Painted
  <1> QED
    BY <1>9, <1>12, <1>13, <1>14 DEF IndInv, SearchTree

\* The search goes to the side of the key; found, the node to take out has one
\* child at most or is looked for on the right.
LEMMA SearchInd ==
  ASSUME IndInv, Search PROVE IndInv'
  <1>1. PICK B : Spans(T, B) /\ Sorted(T, B) /\ OnTheWay(B)
    BY IndFacts
  <1>2. T \in Trees /\ Locals /\ Contents /\ Painted /\ Linked(T)
    BY IndFacts
  <1>3. T' = T /\ present' = present /\ pc = "search"
    BY DEF Search
  <1>4. arg \in KeyValues /\ x \in T.used \cup {nil} /\ (arg \in present => \E c \in B[x] : T.key[c] = arg)
    BY <1>1, <1>3 DEF OnTheWay
  <1>5. T.used \subseteq Cells /\ Cells \subseteq Nodes /\ nil \notin T.used /\ arg \in Int /\ nil \in Nodes
    BY <1>2, <1>4, NodeFacts, KeyFacts
  <1>6. CASE x = nil
    BY <1>3, <1>6, ReturnInd DEF Search
  <1>7. CASE x # nil /\ T.key[x] # arg
    <2> DEFINE s == IF arg < T.key[x] THEN "left" ELSE "right"
    <2>1. x' = T.kid[s][x] /\ pc' = pc /\ arg' = arg /\ z' = z /\ y' = y
      BY <1>7 DEF Search
    <2>2. x \in T.used /\ s \in Sides /\ x' \in T.used \cup {nil}
      BY <1>1, <1>2, <1>4, <1>7, <2>1, SpansFacts, SidesFacts
    <2>3. arg \in present => \E c \in B[x'] : T.key[c] = arg
      BY <1>1, <1>2, <1>4, <1>5, <1>7, <2>1, <2>2, DownOne
    <2>4. OnTheWay(B)'
      BY <1>3, <1>4, <2>1, <2>2, <2>3 DEF OnTheWay
    <2>5. Locals' /\ Painted'
      BY <1>2, <1>3, <1>5, <2>1, <2>2 DEF Locals, Painted
    <2> QED
      BY <1>1, <1>3, <2>4, <2>5, SameInd
  <1>8. CASE x # nil /\ T.key[x] = arg
    <2>1. z' = x /\ x' = nil /\ arg' = arg /\ x \in T.used /\ pc' \in {"splice", "successor"}
      BY <1>4, <1>8 DEF Search
    <2>2. pc' = "splice" => y' = x /\ \E s \in Sides : T.kid[s][x] = nil
      BY <1>8 DEF Search
    <2>3. pc' = "successor" => y' = T.kid["right"][x] /\ T.kid["right"][x] # nil
      BY <1>8, SidesFacts DEF Search
    <2>4. T.kid["right"][x] # nil => T.kid["right"][x] \in T.used /\ T.kid["right"][x] \in B[T.kid["right"][x]]
      BY <1>1, <1>2, <2>1, SpansFacts, SidesFacts
    <2>5. OnTheWay(B)'
      BY <1>3, <1>4, <1>8, <2>1, <2>2, <2>3, <2>4 DEF OnTheWay
    <2>6. Locals' /\ Painted'
      BY <1>2, <1>3, <1>5, <2>1, <2>2, <2>3, <2>4 DEF Locals, Painted
    <2> QED
      BY <1>1, <1>3, <2>5, <2>6, SameInd
  <1> QED
    BY <1>6, <1>7, <1>8

\* On the way to the smallest key on the right, those left aside are greater.
LEMMA SuccessorInd ==
  ASSUME IndInv, Successor PROVE IndInv'
  <1>1. PICK B : Spans(T, B) /\ Sorted(T, B) /\ OnTheWay(B)
    BY IndFacts
  <1>2. T \in Trees /\ Locals /\ Contents /\ Painted /\ Linked(T)
    BY IndFacts
  <1>3. T' = T /\ present' = present /\ pc = "successor" /\ arg' = arg /\ x' = x /\ z' = z
    BY DEF Successor
  <1> DEFINE k == T.kid["right"][z]
             l == T.kid["left"][y]
  <1>4. /\ arg \in KeyValues /\ z \in T.used /\ T.key[z] = arg /\ y \in B[k]
        /\ \A d \in B[k], e \in B[y] : d \in B[y] \/ T.key[e] < T.key[d]
    BY <1>1, <1>3 DEF OnTheWay
  <1>5. k \in T.used /\ y \in T.used /\ B[y] \subseteq B[k] /\ y \in B[y] /\ T.used \subseteq Cells
        /\ T.used \subseteq Nodes
    BY <1>1, <1>2, <1>4, SpansFacts, SidesFacts, NodeFacts
  <1>6. /\ \A d \in B[y] : d \in T.used /\ T.key[d] \in Int
        /\ \A d \in B[l] : d \in B[y] /\ T.key[d] < T.key[y]
        /\ \A d \in B[T.kid["right"][y]] : T.key[d] > T.key[y]
        /\ \A d \in B[y] : d = y \/ d \in B[l] \/ d \in B[T.kid["right"][y]]
    <2>1. \A d \in B[y] : d \in T.used /\ T.key[d] \in Int
      BY <1>1, <1>2, <1>5, SpansFacts, NodeFacts
    <2>2. B[l] \subseteq B[y] /\ \A d \in B[y] : d = y \/ d \in B[l] \/ d \in B[T.kid["right"][y]]
      BY <1>1, <1>2, <1>5, SpansFacts, SidesFacts
    <2>3. /\ \A d \in B[l] : T.key[d] < T.key[y]
          /\ \A d \in B[T.kid["right"][y]] : T.key[d] > T.key[y]
      BY <1>1, <1>5, SidesFacts DEF Sorted, Before
    <2> QED
      BY <2>1, <2>2, <2>3
  <1>7. CASE l # nil
    <2>1. y' = l /\ pc' = pc
      BY <1>7 DEF Successor
    <2>2. l \in T.used /\ l \in B[l] /\ B[l] \subseteq B[y] /\ l \in Nodes
      BY <1>1, <1>2, <1>5, <1>7, SpansFacts, SidesFacts
    <2>3. ASSUME NEW d \in B[k], NEW e \in B[l] PROVE d \in B[l] \/ T.key[e] < T.key[d]
      <3>1. e \in B[y] /\ T.key[e] \in Int /\ T.key[e] < T.key[y] /\ T.key[y] \in Int
        BY <1>5, <1>6, <2>2
      <3>2. CASE d \notin B[y]
        BY <1>4, <3>1, <3>2
      <3>3. CASE d \in B[y]
        BY <1>6, <3>1, <3>3
      <3> QED
        BY <3>2, <3>3
    <2>4. l \in B[k]
      BY <1>5, <2>2
    <2>5. OnTheWay(B)'
      BY <1>3, <1>4, <2>1, <2>3, <2>4 DEF OnTheWay
    <2>6. Locals' /\ Painted'
      BY <1>2, <1>3, <2>1, <2>2 DEF Locals, Painted
    <2> QED
      BY <1>1, <1>3, <2>5, <2>6, SameInd
  <1>8. CASE l = nil
    <2>1. y' = y /\ pc' = "splice"
      BY <1>8 DEF Successor
    <2>2. \A d \in B[k] : d = y \/ T.key[y] < T.key[d]
      <3>1. B[nil] = {}
        BY <1>1, <1>2, SpansFacts
      <3>2. ASSUME NEW d \in B[k] PROVE d = y \/ T.key[y] < T.key[d]
        <4>1. CASE d \notin B[y]
          BY <1>4, <1>5, <4>1
        <4>2. CASE d \in B[y]
          BY <1>5, <1>6, <1>8, <3>1, <4>2
        <4> QED
          BY <4>1, <4>2
      <3> QED
        BY <3>2
    <2>3. OnTheWay(B)'
      BY <1>3, <1>4, <1>8, <2>1, <2>2 DEF OnTheWay
    <2>4. Locals' /\ Painted'
      BY <1>2, <1>3, <2>1 DEF Locals, Painted
    <2> QED
      BY <1>1, <1>3, <2>3, <2>4, SameInd
  <1> QED
    BY <1>7, <1>8

\* The node leaves with one child at most, and with it the key asked for.
LEMMA SpliceInd ==
  ASSUME IndInv, Splice PROVE IndInv'
  <1>1. PICK B : Spans(T, B) /\ Sorted(T, B) /\ OnTheWay(B)
    BY IndFacts
  <1>2. T \in Trees /\ Locals /\ Contents /\ Painted /\ Linked(T)
    BY IndFacts
  <1> DEFINE only == Only(T, y)
             e == Bridged(T, y, z, only)
  <1>3. /\ T' = Emptied(e, y)
        /\ present' = present \ {arg} /\ pc = "splice"
        /\ IF T.color[y] = "black"
           THEN x' = only /\ pc' = "deleteFixup" /\ y' = nil /\ z' = nil /\ arg' = arg
           ELSE Return
    BY DEF Splice, Only, Bridged, Emptied
  <1>4. /\ arg \in KeyValues /\ z \in T.used /\ T.key[z] = arg
        /\ \/ y = z /\ \E s \in Sides : T.kid[s][z] = nil
           \/ /\ y \in B[T.kid["right"][z]] /\ T.kid["left"][y] = nil
              /\ \A d \in B[T.kid["right"][z]] : d = y \/ T.key[y] < T.key[d]
    BY <1>1, <1>3 DEF OnTheWay
  <1>5. /\ y \in T.used /\ \E side \in Sides : T.kid[side][y] = nil
        /\ \A d \in T.used : T.key[d] \in Int
    <2>1. \A d \in T.used : T.key[d] \in Int
      BY <1>2, NodeFacts
    <2>2. T.kid["right"][z] \in T.used \cup {nil} /\ B[nil] = {}
      BY <1>1, <1>2, <1>4, SpansFacts, SidesFacts
    <2>3. \A d \in B[T.kid["right"][z]] : d \in T.used
      BY <1>1, <1>2, <2>2, SpansFacts
    <2> QED
      BY <1>4, <2>1, <2>3, SidesFacts
  <1>6. OneChild(T, y, only) /\ Shrunk(T', T, y, z, only)
    <2>1. only = Only(T, y) /\ e = Bridged(T, y, z, only) /\ T' = Emptied(e, y)
      BY <1>3
    <2>2. PICK side \in Sides : T.kid[side][y] = nil
      BY <1>5
    <2>3. T \in Trees /\ Linked(T) /\ y \in T.used /\ z \in T.used
      BY <1>2, <1>4, <1>5
    <2> HIDE DEF e, only
    <2> QED
      BY ONLY <2>1, <2>2, <2>3, SpliceEffect
  <1>7. Leaving(T, B, y, z)
    <2>1. ASSUME y # z, NEW d \in B[T.kid["right"][z]] PROVE d = y \/ Before("right", T.key[d], T.key[y])
      <3>1. T.kid["right"][z] \in T.used \cup {nil} /\ B[nil] = {}
        BY <1>1, <1>2, <1>4, SpansFacts, SidesFacts
      <3>2. d \in T.used
        BY <1>1, <1>2, <2>1, <3>1, SpansFacts
      <3> QED
        BY <1>4, <1>5, <2>1, <3>2 DEF Before
    <2> QED
      BY <1>4, <2>1 DEF Leaving
  <1> HIDE DEF only, e
  <1>8. FreeClean(T)
    BY <1>2 DEF Contents
  <1>9. SearchTree(T') /\ FreeClean(T')
    BY <1>1, <1>2, <1>6, <1>7, <1>8, ShrunkTree
  <1>10. /\ T'.used = T.used \ {y}
         /\ \A d \in Cells : T'.key[d] = IF d = y THEN NoKey ELSE IF d = z THEN T.key[y] ELSE T.key[d]
         /\ T.used \subseteq Cells
    BY <1>2, <1>6, NodeFacts DEF Shrunk
  <1>11. Contents'
    <2>1. present' \subseteq KeyValues
      BY <1>2, <1>3 DEF Contents
    <2>2. ASSUME NEW c \in T'.used
          PROVE  /\ c \in T.used /\ c # y /\ T'.key[c] = IF c = z THEN T.key[y] ELSE T.key[c]
                 /\ T'.key[c] \in present /\ T'.key[c] # arg
      BY <1>2, <1>4, <1>5, <1>10 DEF Contents
    <2>3. \A c, d \in T'.used : T'.key[c] = T'.key[d] => c = d
      BY <1>2, <1>4, <1>5, <2>2 DEF Contents
    <2>4. ASSUME NEW k \in present, k # arg PROVE \E c \in T'.used : T'.key[c] = k
      <3>1. PICK c \in T.used : T.key[c] = k
        BY <1>2 DEF Contents
      <3>2. c # z
        BY <1>4, <2>4, <3>1
      <3>3. CASE c = y
        <4>1. z \in T'.used /\ T'.key[z] = k
          BY <1>4, <1>10, <3>1, <3>2, <3>3
        <4> QED
          BY <4>1
      <3>4. CASE c # y
        BY <1>10, <3>1, <3>2, <3>4
      <3> QED
        BY <3>3, <3>4
    <2> QED
      BY <1>3, <1>9, <2>1, <2>2, <2>3, <2>4 DEF Contents
  <1>12. pc' \in {"idle", "deleteFixup"}
    BY <1>3 DEF Return
  <1>13. SearchInv'
    <2>1. PICK C : Spans(T', C) /\ Sorted(T', C)
      BY <1>9 DEF SearchTree
    <2>2. OnTheWay(C)'
      BY <1>12 DEF OnTheWay
    <2> QED
      BY <2>1, <2>2 DEF SearchInv
  <1>14. Colored(T, {}, nil, "left") /\ T.color[y] \in {"red", "black"}
    BY <1>2, <1>3, <1>5, LinkedFacts DEF Painted
  <1>15. CASE T.color[y] = "black"
    <2>1. x' = only /\ pc' = "deleteFixup" /\ y' = nil /\ z' = nil /\ arg' = arg
      BY <1>3, <1>15
    <2>2. DeleteColored(T', only)
      BY <1>2, <1>6, <1>14, <1>15, ShrunkBlack
    <2>3. only \in Nodes
      BY <1>2, <1>6, NodeFacts, SidesFacts DEF OneChild
    <2>4. Locals' /\ Painted'
      BY <1>2, <2>1, <2>2, <2>3, KeyFacts DEF Locals, Painted
    <2> QED
      BY <1>9, <1>11, <1>13, <2>4 DEF IndInv, SearchTree
  <1>16. CASE T.color[y] = "red"
    <2>1. Return
      BY <1>3, <1>16
    <2>2. Colored(T', {}, nil, "left")
      BY <1>2, <1>6, <1>14, <1>16, ShrunkRed
    <2>3. Locals' /\ Painted'
      BY <2>1, <2>2, KeyFacts DEF Locals, Painted, Return
    <2> QED
      BY <1>9, <1>11, <1>13, <2>3 DEF IndInv, SearchTree
  <1> QED
    BY <1>14, <1>15, <1>16

\* An iteration of rbtree_insert_fixup moves the red pair up or ends it.
LEMMA InsertFixupInd ==
  ASSUME IndInv, InsertFixup PROVE IndInv'
  <1>1. T \in Trees /\ Locals /\ Painted /\ Linked(T) /\ SearchTree(T)
    BY IndFacts
  <1> DEFINE p == T.parent[z]
             g == T.parent[p]
             s == Hangs(T, p)
             uncle == T.kid[Other(s)][g]
             inner == Hangs(T, z) # s
             h == IF inner THEN rotate(T, s, p) ELSE T
             q == IF inner THEN z ELSE p
  <1>2. pc = "insertFixup" /\ pc' = pc /\ arg' = arg /\ x' = x /\ y' = y /\ present' = present
        /\ T.color[p] = "red"
    BY DEF InsertFixup
  <1>3. z \in T.used /\ T.color[z] = "red" /\ ColoredBut(T, z)
    BY <1>1, <1>2 DEF Painted
  <1>4. Reshaped(T', T) /\ z' \in T'.used /\ T'.color[z'] = "red" /\ ColoredBut(T', z')
    <2>1. CASE /\ T.color[uncle] = "red"
               /\ T' = [T EXCEPT !.color[p] = "black", !.color[uncle] = "black", !.color[g] = "red"]
               /\ z' = g
      <3>1. /\ p = T.parent[z] /\ g = T.parent[p] /\ s = Hangs(T, p) /\ uncle = T.kid[Other(s)][g]
            /\ T' = PaintThree(T, p, "black", uncle, "red", g) /\ z' = g
        BY <2>1 DEF PaintThree
      <3> HIDE DEF p, g, s, uncle
      <3>2. /\ SearchTree(T) /\ z \in T.used /\ T.color[z] = "red" /\ ColoredBut(T, z)
            /\ T.color[p] = "red" /\ T.color[uncle] = "red"
        BY <1>1, <1>2, <1>3, <2>1
      <3>3. Reshaped(T', T) /\ g \in T'.used /\ T'.color[g] = "red" /\ ColoredBut(T', g)
        <4>1. RedParent(T, z, p, g, s, uncle)
          BY <1>1, <3>1, <3>2, RedParentFacts
        <4> QED
          <5> DEFINE f == PaintThree(T, p, "black", uncle, "red", g)
          <5>1. f = PaintThree(T, p, "black", uncle, "red", g) /\ T' = f
            BY <3>1
          <5> HIDE DEF f
          <5>2. SearchTree(T) /\ ColoredBut(T, z) /\ T.color[uncle] = "red"
            BY <3>2
          <5>3. Reshaped(f, T) /\ g \in f.used /\ f.color[g] = "red" /\ ColoredBut(f, g)
            BY ONLY <4>1, <5>1, <5>2, RedUncleStep
          <5> QED
            BY ONLY <5>1, <5>3
      <3> QED
        BY <3>1, <3>3
    <2>2. CASE /\ T.color[uncle] = "black"
               /\ T' = rotate([h EXCEPT !.color[q] = "black", !.color[g] = "red"], Other(s), g)
               /\ z' = IF inner THEN p ELSE z
      <3>1. /\ p = T.parent[z] /\ g = T.parent[p] /\ s = Hangs(T, p) /\ uncle = T.kid[Other(s)][g]
            /\ h = (IF Hangs(T, z) # s THEN rotate(T, s, p) ELSE T)
            /\ q = (IF Hangs(T, z) # s THEN z ELSE p)
            /\ T' = rotate(PaintTwo(h, q, "black", g, "red"), Other(s), g)
            /\ z' = IF Hangs(T, z) # s THEN p ELSE z
        BY <2>2 DEF PaintTwo
      <3> HIDE DEF p, g, s, uncle, inner, h, q
      <3>2. /\ SearchTree(T) /\ z \in T.used /\ T.color[z] = "red" /\ ColoredBut(T, z)
            /\ T.color[p] = "red" /\ T.color[uncle] = "black"
        BY <1>1, <1>2, <1>3, <2>2
      <3> QED
        BY ONLY <3>1, <3>2, BlackUncleStep
    <2> QED
      BY <2>1, <2>2 DEF InsertFixup
  <1> HIDE DEF p, g, s, uncle, inner, h, q
  <1>5. z' \in Nodes
    <2>1. T' \in Trees
      BY <1>4, TreeLinked DEF Reshaped
    <2> QED
      BY <1>4, <2>1, NodeFacts
  <1>6. Quiet' /\ Locals' /\ Painted'
    BY <1>1, <1>2, <1>4, <1>5 DEF Quiet, Locals, Painted
  <1> QED
    BY <1>1, <1>2, <1>4, <1>6, ReshapedInd

\* With a black parent only the root could be wrong.
LEMMA InsertReturnsInd ==
  ASSUME IndInv, InsertReturns PROVE IndInv'
  <1>1. T \in Trees /\ Painted /\ SearchTree(T)
    BY IndFacts
  <1>2. /\ pc = "insertFixup" /\ T.color[T.parent[z]] = "black" /\ present' = present /\ Return
        /\ T' = Paint(T, T.root, "black")
    BY DEF InsertReturns, Paint
  <1>3. z \in T.used /\ ColoredBut(T, z)
    BY <1>1, <1>2 DEF Painted
  <1>4. Reshaped(T', T) /\ Colored(T', {}, nil, "left")
    BY <1>1, <1>2, <1>3, InsertReturnsStep
  <1>5. Quiet' /\ Locals' /\ Painted'
    BY <1>2, <1>4, KeyFacts DEF Quiet, Locals, Painted, Return
  <1> QED
    BY <1>1, <1>2, <1>4, <1>5, ReshapedInd

\* A red x turns black, and the black node that was missing is there.
LEMMA DeleteReturnsInd ==
  ASSUME IndInv, DeleteReturns PROVE IndInv'
  <1>1. T \in Trees /\ Painted /\ SearchTree(T)
    BY IndFacts
  <1>2. /\ pc = "deleteFixup" /\ (x = T.root \/ T.color[x] = "red") /\ present' = present /\ Return
        /\ T' = Paint(T, x, "black")
    BY DEF DeleteReturns, Paint
  <1>3. DeleteColored(T, x)
    BY <1>1, <1>2 DEF Painted
  <1>4. Reshaped(T', T) /\ Colored(T', {}, nil, "left")
    BY <1>1, <1>2, <1>3, DeleteReturnsStep
  <1>5. Quiet' /\ Locals' /\ Painted'
    BY <1>2, <1>4, KeyFacts DEF Quiet, Locals, Painted, Return
  <1> QED
    BY <1>1, <1>2, <1>4, <1>5, ReshapedInd

\* An iteration of rbtree_delete_fixup moves what is short up or ends it.
LEMMA DeleteFixupInd ==
  ASSUME IndInv, DeleteFixup PROVE IndInv'
  <1>1. T \in Trees /\ Locals /\ Painted /\ Linked(T) /\ SearchTree(T)
    BY IndFacts
  <1> DEFINE p == T.parent[x]
             s == Hangs(T, x)
             h == FixRedSibling(T, s, p)
             w == h.kid[Other(s)][p]
             w0 == T.kid[Other(s)][p]
  <1>2. /\ pc = "deleteFixup" /\ x # T.root /\ T.color[x] = "black"
        /\ pc' = pc /\ arg' = arg /\ y' = y /\ z' = z /\ present' = present
    BY DEF DeleteFixup
  <1>3. DeleteColored(T, x)
    BY <1>1, <1>2 DEF Painted
  <1>4. /\ p = T.parent[x] /\ s = Hangs(T, x) /\ h = FixRedSibling(T, s, p) /\ w = h.kid[Other(s)][p]
        /\ w0 = T.kid[Other(s)][p]
    OBVIOUS
  <1>5. \/ /\ \A side \in Sides : h.color[h.kid[side][w]] = "black"
           /\ T' = Paint(h, w, "red")
           /\ x' = p
        \/ /\ \E side \in Sides : h.color[h.kid[side][w]] = "red"
           /\ T' = FixRedNephew(h, s, p)
           /\ x' = T'.root
    BY DEF DeleteFixup, Paint
  <1> HIDE DEF p, s, h, w, w0
  <1>6. p \in T.used /\ Colored(T, {}, p, s) /\ Short(T, x, p, s, w0)
    BY <1>1, <1>2, <1>3, <1>4, DeleteShort
  <1>7. /\ Reshaped(h, T) /\ SearchTree(h) /\ Colored(h, {}, p, s) /\ Short(h, x, p, s, w)
        /\ h.color[w] = "black" /\ p \in h.used
    BY <1>1, <1>4, <1>6, RedSiblingStep DEF Reshaped
  <1>8. Reshaped(T', T) /\ DeleteColored(T', x')
    <2>1. CASE /\ \A side \in Sides : h.color[h.kid[side][w]] = "black"
               /\ T' = Paint(h, w, "red")
               /\ x' = p
      <3>1. Reshaped(T', h) /\ DeleteColored(T', p)
        BY ONLY <1>7, <2>1, BlackNephewsStep
      <3> QED
        BY <1>7, <2>1, <3>1, ReshapedTwice
    <2>2. CASE /\ \E side \in Sides : h.color[h.kid[side][w]] = "red"
               /\ T' = FixRedNephew(h, s, p)
               /\ x' = T'.root
      <3>1. Reshaped(T', h) /\ Colored(T', {}, nil, "left")
        BY ONLY <1>7, <2>2, RedNephewStep
      <3>2. SearchTree(T') /\ p \in T'.used
        BY <1>7, <3>1 DEF Reshaped
      <3>3. DeleteColored(T', T'.root)
        BY ONLY <3>1, <3>2, RootSettled
      <3> QED
        BY <1>7, <2>2, <3>1, <3>3, ReshapedTwice
    <2> QED
      BY <1>5, <2>1, <2>2
  <1>9. x' \in Nodes
    <2>1. T' \in Trees /\ x' \in T'.used \cup {nil}
      BY <1>8, TreeLinked DEF Reshaped, DeleteColored
    <2> QED
      BY <2>1, NodeFacts
  <1>10. Quiet' /\ Locals' /\ Painted'
    BY <1>1, <1>2, <1>8, <1>9 DEF Quiet, Locals, Painted
  <1> QED
    BY <1>1, <1>2, <1>8, <1>10, ReshapedInd

\* The strengthened invariant holds of every state.
THEOREM TreeInductive == Spec => []IndInv
  <1>1. ASSUME IndInv, [Next]_vars PROVE IndInv'
    <2>1. CASE UNCHANGED vars
      BY <1>1, <2>1, StutterInd
    <2>2. CASE Call
      BY <1>1, <2>2, InsertInd, DeleteInd DEF Call
    <2>3. CASE Work
      BY <1>1, <2>3, DescendInd, LinkInd, InsertFixupInd, InsertReturnsInd, SearchInd, SuccessorInd,
         SpliceInd, DeleteFixupInd, DeleteReturnsInd DEF Work
    <2> QED
      BY <1>1, <2>1, <2>2, <2>3 DEF Next
  <1> QED
    BY <1>1, InitInd, PTL DEF Spec
-----------------------------------------------------------------------------
(* What Below and BlackHeights count *)

\* A set of numbers that is not empty has a least one.
LEMMA Least ==
  ASSUME NEW S, S \subseteq Nat, S # {} PROVE \E m \in S : \A n \in S : m <= n
  <1> DEFINE R == OpToRel(<, Nat)
  <1>1. IsWellFoundedOn(R, Nat)
    BY NatLessThanWellFounded
  <1>2. \A m, n \in Nat : <<m, n>> \in R <=> m < n
    BY DEF OpToRel
  <1> HIDE DEF R
  <1>3. PICK m \in S : \A n \in S : ~(<<n, m>> \in R)
    BY <1>1, WFMin
  <1>4. \A n \in S : ~(n < m)
    BY <1>2, <1>3
  <1> QED
    BY <1>4

\* What holds of 0 and of each number after one it holds of, holds up to N.
LEMMA FromZero ==
  ASSUME NEW S, NEW N \in Nat, 0 \in S, \A n \in 0 .. N - 1 : n \in S => n + 1 \in S
  PROVE  \A n \in 0 .. N : n \in S
  <1> DEFINE Bad == {n \in 0 .. N : n \notin S}
  <1>1. SUFFICES ASSUME Bad # {} PROVE FALSE
    OBVIOUS
  <1>2. Bad \subseteq Nat /\ \A n : n \in Bad <=> n \in 0 .. N /\ n \notin S
    OBVIOUS
  <1> HIDE DEF Bad
  <1>3. PICK m \in Bad : \A n \in Bad : m <= n
    BY ONLY <1>1, <1>2, Least
  <1>4. m \in 0 .. N /\ m # 0 /\ m - 1 \in 0 .. N - 1 /\ (m - 1) + 1 = m
    BY <1>2, <1>3
  <1>5. m - 1 \notin Bad
    BY <1>3, <1>4
  <1> QED
    BY <1>2, <1>3, <1>4, <1>5

\* One more level of Under, and of BlackHeights.
UnderRow(prev, n) ==
  [c \in Nodes |->
     IF c = nil \/ n = 0 THEN {}
     ELSE {c} \cup prev[T.kid["left"][c]] \cup prev[T.kid["right"][c]]]
HeightsRow(prev, n) ==
  [c \in Nodes |->
     IF c = nil \/ n = 0 THEN {0}
     ELSE UNION {{Black(c) + Extra(c, s) + b : b \in prev[T.kid[s][c]]} : s \in Sides}]

\* There is a number of cells.
LEMMA CellsFinite == Cardinality(Cells) \in Nat /\ IsFiniteSet(Cells)
  BY RBAssumption, FS_CardinalityType

\* Under is what its definition says at each level.
LEMMA UnderDef == \A n \in 0 .. Cardinality(Cells) : Under[n] = UnderRow(Under[n - 1], n)
  <1> DEFINE N == Cardinality(Cells)
             Ok(f, m) == f = [n \in 0 .. m |-> UnderRow(f[n - 1], n)]
             Good == {m \in 0 .. N : \E f : Ok(f, m)}
  <1>0. N \in Nat
    BY CellsFinite
  <1>1. Under = CHOOSE f : Ok(f, N)
    BY DEF Under, UnderRow
  <1>2. \A f, g : UnderRow(f, 0) = UnderRow(g, 0)
    BY DEF UnderRow
  <1>3. 0 \in Good
    <2> DEFINE f == [n \in 0 .. 0 |-> UnderRow(0, 0)]
    <2>1. Ok(f, 0)
      BY <1>2
    <2> QED
      BY <1>0, <2>1
  <1>4. ASSUME NEW m \in 0 .. N - 1, m \in Good PROVE m + 1 \in Good
    <2>1. PICK f : Ok(f, m)
      BY <1>4
    <2> DEFINE g == [n \in 0 .. m + 1 |-> IF n = m + 1 THEN UnderRow(f[m], m + 1) ELSE f[n]]
    <2>2. \A n \in 0 .. m : f[n] = UnderRow(f[n - 1], n)
      BY <2>1
    <2>3. ASSUME NEW n \in 0 .. m + 1 PROVE g[n] = UnderRow(g[n - 1], n)
      <3>1. CASE n = 0
        <4>1. g[n] = f[0] /\ f[0] = UnderRow(f[0 - 1], 0)
          BY <1>0, <2>2, <3>1
        <4> QED
          BY <1>2, <3>1, <4>1
      <3>2. CASE n \in 1 .. m
        <4>1. g[n] = f[n] /\ g[n - 1] = f[n - 1]
          BY <1>0, <3>2
        <4> QED
          BY <2>2, <3>2, <4>1
      <3>3. CASE n = m + 1
        <4>1. g[n] = UnderRow(f[m], m + 1) /\ g[n - 1] = f[m]
          BY <1>0, <3>3
        <4> HIDE DEF g
        <4> QED
          BY <3>3, <4>1
      <3> QED
        BY <1>0, <3>1, <3>2, <3>3
    <2>4. Ok(g, m + 1)
      BY <2>3
    <2>5. m + 1 \in 0 .. N
      BY <1>0
    <2> QED
      BY <2>4, <2>5
  <1>5. N \in Good
    <2> HIDE DEF Good
    <2> QED
      BY <1>0, <1>3, <1>4, FromZero
  <1>6. \E f : Ok(f, N)
    BY <1>5
  <1>7. Ok(Under, N)
    <2> HIDE DEF Ok
    <2> QED
      BY <1>1, <1>6
  <1> QED
    BY <1>0, <1>7

\* The same of BlackHeights.
LEMMA HeightsDef == \A n \in 0 .. Cardinality(Cells) : BlackHeights[n] = HeightsRow(BlackHeights[n - 1], n)
  <1> DEFINE N == Cardinality(Cells)
             Ok(f, m) == f = [n \in 0 .. m |-> HeightsRow(f[n - 1], n)]
             Good == {m \in 0 .. N : \E f : Ok(f, m)}
  <1>0. N \in Nat
    BY CellsFinite
  <1>1. BlackHeights = CHOOSE f : Ok(f, N)
    BY DEF BlackHeights, HeightsRow
  <1>2. \A f, g : HeightsRow(f, 0) = HeightsRow(g, 0)
    BY DEF HeightsRow
  <1>3. 0 \in Good
    <2> DEFINE f == [n \in 0 .. 0 |-> HeightsRow(0, 0)]
    <2>1. Ok(f, 0)
      BY <1>2
    <2> QED
      BY <1>0, <2>1
  <1>4. ASSUME NEW m \in 0 .. N - 1, m \in Good PROVE m + 1 \in Good
    <2>1. PICK f : Ok(f, m)
      BY <1>4
    <2> DEFINE g == [n \in 0 .. m + 1 |-> IF n = m + 1 THEN HeightsRow(f[m], m + 1) ELSE f[n]]
    <2>2. \A n \in 0 .. m : f[n] = HeightsRow(f[n - 1], n)
      BY <2>1
    <2>3. ASSUME NEW n \in 0 .. m + 1 PROVE g[n] = HeightsRow(g[n - 1], n)
      <3>1. CASE n = 0
        <4>1. g[n] = f[0] /\ f[0] = HeightsRow(f[0 - 1], 0)
          BY <1>0, <2>2, <3>1
        <4> QED
          BY <1>2, <3>1, <4>1
      <3>2. CASE n \in 1 .. m
        <4>1. g[n] = f[n] /\ g[n - 1] = f[n - 1]
          BY <1>0, <3>2
        <4> QED
          BY <2>2, <3>2, <4>1
      <3>3. CASE n = m + 1
        <4>1. g[n] = HeightsRow(f[m], m + 1) /\ g[n - 1] = f[m]
          BY <1>0, <3>3
        <4> HIDE DEF g
        <4> QED
          BY <3>3, <4>1
      <3> QED
        BY <1>0, <3>1, <3>2, <3>3
    <2>4. Ok(g, m + 1)
      BY <2>3
    <2>5. m + 1 \in 0 .. N
      BY <1>0
    <2> QED
      BY <2>4, <2>5
  <1>5. N \in Good
    <2> HIDE DEF Good
    <2> QED
      BY <1>0, <1>3, <1>4, FromZero
  <1>6. \E f : Ok(f, N)
    BY <1>5
  <1>7. Ok(BlackHeights, N)
    <2> HIDE DEF Ok
    <2> QED
      BY <1>1, <1>6
  <1> QED
    BY <1>0, <1>7

\* What hangs under a child is less than what hangs under its parent.
LEMMA Smaller ==
  ASSUME NEW h \in Trees, NEW B, Spans(h, B)
  PROVE  /\ \A c \in h.used \cup {nil} : Cardinality(B[c]) \in 0 .. Cardinality(Cells)
         /\ \A c \in h.used, s \in Sides : Cardinality(B[h.kid[s][c]]) <= Cardinality(B[c]) - 1
         /\ \A c \in h.used : Cardinality(B[c]) # 0
  <1>1. /\ h.used \subseteq Cells /\ B[nil] = {} /\ \A c \in h.used : c \in B[c] /\ B[c] \subseteq h.used
        /\ \A c \in h.used, s \in Sides :
              h.kid[s][c] \in h.used \cup {nil} /\ B[h.kid[s][c]] \subseteq B[c] /\ c \notin B[h.kid[s][c]]
    BY SpansFacts, NodeFacts
  <1>2. \A S \in SUBSET Cells : IsFiniteSet(S) /\ Cardinality(S) \in Nat /\ Cardinality(S) <= Cardinality(Cells)
    BY CellsFinite, FS_Subset, FS_CardinalityType
  <1>3. \A c \in h.used \cup {nil} : B[c] \in SUBSET Cells
    BY <1>1
  <1>4. \A c \in h.used \cup {nil} : Cardinality(B[c]) \in 0 .. Cardinality(Cells)
    BY <1>2, <1>3, CellsFinite
  <1>5. ASSUME NEW c \in h.used, NEW s \in Sides PROVE Cardinality(B[h.kid[s][c]]) <= Cardinality(B[c]) - 1
    <2>1. IsFiniteSet(B[c]) /\ Cardinality(B[c]) \in Nat
      BY <1>2, <1>3
    <2>2. IsFiniteSet(B[c] \ {c}) /\ Cardinality(B[c] \ {c}) = Cardinality(B[c]) - 1
      BY <1>1, <2>1, FS_RemoveElement
    <2>3. B[h.kid[s][c]] \in SUBSET (B[c] \ {c})
      BY <1>1
    <2> QED
      BY <2>2, <2>3, FS_Subset
  <1>6. ASSUME NEW c \in h.used PROVE Cardinality(B[c]) # 0
    <2>1. IsFiniteSet(B[c]) /\ B[c] # {}
      BY <1>1, <1>2, <1>3
    <2> QED
      BY <2>1, FS_EmptySet
  <1> QED
    BY <1>4, <1>5, <1>6

\* Below is what hangs under a node.
LEMMA BelowSpans ==
  ASSUME T \in Trees, NEW B, Spans(T, B) PROVE \A c \in T.used \cup {nil} : Below(c) = B[c]
  <1> DEFINE N == Cardinality(Cells)
             Good == {n \in 0 .. N : \A c \in T.used \cup {nil} : Cardinality(B[c]) <= n => Under[n][c] = B[c]}
  <1>1. N \in Nat
    BY CellsFinite
  <1>2. /\ B[nil] = {} /\ nil \notin T.used /\ nil \in Nodes
        /\ \A c \in T.used : c \in Nodes
        /\ \A c \in T.used : \A d : d \in B[c] <=> d = c \/ d \in B[T.kid["left"][c]] \/ d \in B[T.kid["right"][c]]
        /\ \A c \in T.used, s \in Sides : T.kid[s][c] \in T.used \cup {nil}
    BY SpansFacts, NodeFacts DEF Spans
  <1>3. /\ \A c \in T.used \cup {nil} : Cardinality(B[c]) \in 0 .. N
        /\ \A c \in T.used, s \in Sides : Cardinality(B[T.kid[s][c]]) <= Cardinality(B[c]) - 1
        /\ \A c \in T.used : Cardinality(B[c]) # 0
    BY Smaller
  <1>4. 0 \in Good
    <2>1. \A c \in T.used \cup {nil} : Cardinality(B[c]) <= 0 => c = nil
      BY <1>1, <1>3
    <2>2. Under[0][nil] = {}
      <3>1. Under[0] = UnderRow(Under[0 - 1], 0)
        BY <1>1, UnderDef
      <3> QED
        BY <1>2, <3>1 DEF UnderRow
    <2>3. \A c \in T.used \cup {nil} : Cardinality(B[c]) <= 0 => Under[0][c] = B[c]
      BY <1>2, <2>1, <2>2
    <2>4. 0 \in 0 .. N
      BY <1>1
    <2> QED
      BY ONLY <2>3, <2>4
  <1>5. ASSUME NEW n \in 0 .. N - 1, n \in Good PROVE n + 1 \in Good
    <2>1. n + 1 \in 0 .. N /\ (n + 1) - 1 = n /\ n + 1 # 0
      BY <1>1
    <2>2. Under[n + 1] = UnderRow(Under[n], n + 1)
      BY <2>1, UnderDef
    <2>3. ASSUME NEW c \in T.used \cup {nil}, Cardinality(B[c]) <= n + 1 PROVE Under[n + 1][c] = B[c]
      <3>1. CASE c = nil
        BY <1>2, <2>2, <3>1 DEF UnderRow
      <3>2. CASE c # nil
        <4>1. c \in T.used /\ c \in Nodes
          BY <1>2, <3>2
        <4>2. \A s \in Sides : Cardinality(B[T.kid[s][c]]) <= n
          BY <1>1, <1>2, <1>3, <2>3, <4>1
        <4>3. \A s \in Sides : Under[n][T.kid[s][c]] = B[T.kid[s][c]]
          BY <1>2, <1>5, <4>1, <4>2
        <4>4. Under[n + 1][c] = {c} \cup Under[n][T.kid["left"][c]] \cup Under[n][T.kid["right"][c]]
          BY <2>1, <2>2, <3>2, <4>1 DEF UnderRow
        <4>5. Under[n + 1][c] = {c} \cup B[T.kid["left"][c]] \cup B[T.kid["right"][c]]
          BY <4>3, <4>4, SidesFacts
        <4> QED
          BY <1>2, <4>1, <4>5
      <3> QED
        BY <3>1, <3>2
    <2> QED
      BY <2>1, <2>3
  <1>6. N \in Good
    <2> HIDE DEF Good
    <2> QED
      BY <1>1, <1>4, <1>5, FromZero
  <1> QED
    BY <1>1, <1>3, <1>6 DEF Below

\* Where a deletion counts one black node more.
Lifted == IF pc = "deleteFixup" THEN T.parent[x] ELSE nil
LiftedSide == IF pc = "deleteFixup" THEN Hangs(T, x) ELSE "left"

\* Every path down from a node has the same number of black nodes.
LEMMA OneHeight ==
  ASSUME T \in Trees, NEW B, Spans(T, B), NEW H, Balanced(T, H, Lifted, LiftedSide),
         \A c \in T.used, s \in Sides : Extra(c, s) = IF c = Lifted /\ s = LiftedSide THEN 1 ELSE 0
  PROVE  \A c \in T.used : BlackHeights[Cardinality(Cells)][c] = {H[c]}
  <1> DEFINE N == Cardinality(Cells)
             Good == {n \in 0 .. N : \A c \in T.used \cup {nil} :
                                       Cardinality(B[c]) <= n => BlackHeights[n][c] = {H[c]}}
  <1>1. N \in Nat
    BY CellsFinite
  <1>2. /\ nil \notin T.used /\ nil \in Nodes /\ T.used \subseteq Nodes
        /\ \A c \in T.used, s \in Sides : T.kid[s][c] \in T.used \cup {nil}
    BY SpansFacts, NodeFacts
  <1>3. /\ \A c \in T.used \cup {nil} : Cardinality(B[c]) \in 0 .. N
        /\ \A c \in T.used, s \in Sides : Cardinality(B[T.kid[s][c]]) <= Cardinality(B[c]) - 1
        /\ \A c \in T.used : Cardinality(B[c]) # 0
    BY Smaller
  <1>4. /\ H \in [Nodes -> Nat] /\ H[nil] = 0
        /\ \A c \in T.used, s \in Sides : H[c] = Black(c) + Extra(c, s) + H[T.kid[s][c]]
    <2>1. H \in [Nodes -> Nat] /\ H[nil] = 0
      BY DEF Balanced
    <2>2. ASSUME NEW c \in T.used, NEW s \in Sides PROVE H[c] = Black(c) + Extra(c, s) + H[T.kid[s][c]]
      <3>1. H[c] = H[T.kid[s][c]] + Ink(T, c) + (IF c = Lifted /\ s = LiftedSide THEN 1 ELSE 0)
        BY DEF Balanced
      <3>2. H[c] = H[T.kid[s][c]] + Black(c) + Extra(c, s)
        BY <3>1 DEF Ink, Black
      <3>3. H[T.kid[s][c]] \in Nat /\ Black(c) \in Nat /\ Extra(c, s) \in Nat
        BY <1>2, <2>1 DEF Black, Extra
      <3> QED
        BY ONLY <3>2, <3>3
    <2> QED
      BY <2>1, <2>2
  <1>5. 0 \in Good
    <2>1. \A c \in T.used \cup {nil} : Cardinality(B[c]) <= 0 => c = nil
      BY <1>1, <1>3
    <2>2. BlackHeights[0][nil] = {0}
      <3>1. BlackHeights[0] = HeightsRow(BlackHeights[0 - 1], 0)
        BY <1>1, HeightsDef
      <3> QED
        BY <1>2, <3>1 DEF HeightsRow
    <2> QED
      BY <1>1, <1>4, <2>1, <2>2
  <1>6. ASSUME NEW n \in 0 .. N - 1, n \in Good PROVE n + 1 \in Good
    <2>1. n + 1 \in 0 .. N /\ (n + 1) - 1 = n /\ n + 1 # 0
      BY <1>1
    <2>2. BlackHeights[n + 1] = HeightsRow(BlackHeights[n], n + 1)
      BY <2>1, HeightsDef
    <2>3. ASSUME NEW c \in T.used \cup {nil}, Cardinality(B[c]) <= n + 1
          PROVE BlackHeights[n + 1][c] = {H[c]}
      <3>1. CASE c = nil
        BY <1>2, <1>4, <2>2, <3>1 DEF HeightsRow
      <3>2. CASE c # nil
        <4>1. c \in T.used /\ c \in Nodes
          BY <1>2, <3>2
        <4>2. \A s \in Sides : Cardinality(B[T.kid[s][c]]) <= n
          BY <1>1, <1>2, <1>3, <2>3, <4>1
        <4>3. \A s \in Sides : BlackHeights[n][T.kid[s][c]] = {H[T.kid[s][c]]}
          BY <1>2, <1>6, <4>1, <4>2
        <4>4. BlackHeights[n + 1][c] =
                UNION {{Black(c) + Extra(c, s) + b : b \in BlackHeights[n][T.kid[s][c]]} : s \in Sides}
          BY <2>1, <2>2, <3>2, <4>1 DEF HeightsRow
        <4>5. \A s \in Sides : {Black(c) + Extra(c, s) + b : b \in BlackHeights[n][T.kid[s][c]]} = {H[c]}
          BY <1>4, <4>1, <4>3
        <4> QED
          BY <4>4, <4>5, SidesFacts
      <3> QED
        BY <3>1, <3>2
    <2> QED
      BY <2>1, <2>3
  <1>7. N \in Good
    <2> HIDE DEF Good
    <2> QED
      BY <1>1, <1>5, <1>6, FromZero
  <1> QED
    BY <1>1, <1>3, <1>7
-----------------------------------------------------------------------------
(* The properties *)

\* The number of black nodes on the way down, taken from the colours.
LEMMA InvColors ==
  ASSUME IndInv
  PROVE  /\ T.color[nil] = "black"
         /\ \A c \in T.used : T.color[c] = "red" /\ T.color[T.parent[c]] = "red"
               => (pc = "insertFixup" /\ c = z) \/ (pc = "deleteFixup" /\ x \in {c, T.parent[c]})
         /\ T.color[T.root] = "red" => (pc = "insertFixup" /\ z = T.root)
                                        \/ (pc = "deleteFixup" /\ x = T.root)
         /\ \E H : Balanced(T, H, Lifted, LiftedSide)
  <1>1. T \in Trees /\ Linked(T) /\ Painted
    BY IndFacts
  <1>2. CASE pc = "insertFixup"
    <2>1. Colored(T, {z}, nil, "left")
      BY <1>1, <1>2 DEF Painted, ColoredBut
    <2>2. Lifted = nil /\ LiftedSide = "left"
      BY <1>2 DEF Lifted, LiftedSide
    <2> QED
      BY <1>2, <2>1, <2>2 DEF Colored
  <1>3. CASE pc = "deleteFixup"
    <2>1. Colored(T, RedsAt(T, x), T.parent[x], Hangs(T, x))
      BY <1>1, <1>3 DEF Painted, DeleteColored
    <2>2. Lifted = T.parent[x] /\ LiftedSide = Hangs(T, x)
      BY <1>3 DEF Lifted, LiftedSide
    <2>3. \A c \in RedsAt(T, x) : T.color[x] = "red" /\ (c = x \/ T.parent[c] = x)
      BY DEF RedsAt
    <2>4. T.color[T.root] = "red" => T.root = x
      <3>1. T.root # nil => T.parent[T.root] = nil
        BY <1>1 DEF Linked
      <3> QED
        BY <2>1, <2>3, <3>1 DEF Colored
    <2>5. \A c \in T.used : T.color[c] = "red" /\ T.color[T.parent[c]] = "red" => x \in {c, T.parent[c]}
      BY <2>1, <2>3 DEF Colored
    <2> QED
      BY <1>3, <2>1, <2>2, <2>4, <2>5 DEF Colored
  <1>4. CASE pc \notin {"insertFixup", "deleteFixup"}
    <2>1. Colored(T, {}, nil, "left")
      BY <1>1, <1>4 DEF Painted
    <2>2. Lifted = nil /\ LiftedSide = "left"
      BY <1>4 DEF Lifted, LiftedSide
    <2> QED
      BY <2>1, <2>2 DEF Colored
  <1> QED
    BY <1>2, <1>3, <1>4

\* The one link that counts as a black node is the one to x.
LEMMA ExtraLifted ==
  ASSUME IndInv, NEW c \in T.used, NEW s \in Sides
  PROVE  Extra(c, s) = IF c = Lifted /\ s = LiftedSide THEN 1 ELSE 0
  <1>1. T \in Trees /\ Linked(T) /\ Painted /\ nil \notin T.used
    BY IndFacts, NodeFacts
  <1>2. CASE pc # "deleteFixup"
    BY <1>1, <1>2 DEF Extra, Lifted
  <1>3. CASE pc = "deleteFixup"
    <2>1. Lifted = T.parent[x] /\ LiftedSide = Hangs(T, x)
      BY <1>3 DEF Lifted, LiftedSide
    <2>2. DeleteColored(T, x)
      BY <1>1, <1>3 DEF Painted
    <2>3. ASSUME T.parent[x] = c PROVE T.kid[Hangs(T, x)][c] = x
      <3>1. x \in T.used \cup {nil}
        BY <2>2 DEF DeleteColored
      <3>2. CASE x \in T.used
        <4>1. x # T.root
          BY <1>1, <2>3, <3>2 DEF Linked
        <4> QED
          BY <1>1, <2>3, <3>2, <4>1 DEF Linked
      <3>3. CASE x = nil /\ T.root # nil
        BY <2>2, <2>3, <3>3 DEF DeleteColored
      <3>4. CASE x = nil /\ T.root = nil
        <4>1. PICK B : Spans(T, B) /\ Sorted(T, B) /\ OnTheWay(B)
          BY IndFacts
        <4>2. T.used = {}
          BY <3>4, <4>1 DEF Spans
        <4> QED
          BY <4>2
      <3> QED
        BY <3>1, <3>2, <3>3, <3>4
    <2> QED
      BY <1>3, <2>1, <2>3 DEF Extra
  <1> QED
    BY <1>2, <1>3

\* From the heights and the colours of the invariant.
LEMMA IndRedBlack == IndInv => RedBlack
  <1> SUFFICES ASSUME IndInv PROVE RedBlack
    OBVIOUS
  <1>1. T \in Trees
    BY IndFacts
  <1>2. PICK B : Spans(T, B) /\ Sorted(T, B) /\ OnTheWay(B)
    BY IndFacts
  <1>3. PICK H : Balanced(T, H, Lifted, LiftedSide)
    BY InvColors
  <1>4. \A c \in T.used, s \in Sides : Extra(c, s) = IF c = Lifted /\ s = LiftedSide THEN 1 ELSE 0
    BY ExtraLifted
  <1>5. \A c \in T.used : BlackHeights[Cardinality(Cells)][c] = {H[c]}
    BY <1>1, <1>2, <1>3, <1>4, OneHeight
  <1>6. \A c \in T.used : Cardinality(BlackHeights[Cardinality(Cells)][c]) = 1
    BY <1>5, FS_Singleton
  <1> QED
    BY <1>6, InvColors DEF RedBlack

\* From the types and the contents of the invariant.
LEMMA IndTypeOK == IndInv => TypeOK
  <1> SUFFICES ASSUME IndInv PROVE TypeOK
    OBVIOUS
  <1>1. T \in Trees /\ Locals /\ Contents
    BY IndFacts
  <1>2. \A c \in T.used : T.key[c] # NoKey
    BY <1>1, KeyFacts DEF Contents
  <1> QED
    BY <1>1, <1>2 DEF Trees, Locals, Contents, TypeOK

\* From what hangs under each node.
LEMMA IndWellFormed == IndInv => WellFormed
  <1> SUFFICES ASSUME IndInv PROVE WellFormed
    OBVIOUS
  <1>1. T \in Trees /\ Locals /\ Contents
    BY IndFacts
  <1>2. PICK B : Spans(T, B) /\ Sorted(T, B) /\ OnTheWay(B)
    BY IndFacts
  <1>3. \A c \in T.used \cup {nil} : Below(c) = B[c]
    BY <1>1, <1>2, BelowSpans
  <1>4. \A c \in T.used, s \in Sides : T.kid[s][c] \in T.used \cup {nil} /\ Below(T.kid[s][c]) = B[T.kid[s][c]]
    BY <1>1, <1>2, <1>3, SpansFacts
  <1>5. WellLinked
    <2>1. Below(T.root) = T.used /\ (T.root # nil => T.parent[T.root] = nil)
      BY <1>2, <1>3 DEF Spans
    <2>2. \A c \in T.used, s \in Sides : T.kid[s][c] # nil => T.parent[T.kid[s][c]] = c
      BY <1>2 DEF Spans
    <2>3. \A c \in T.used : Below(T.kid["left"][c]) \cap Below(T.kid["right"][c]) = {}
      <3>1. \A c \in T.used : \A d \in B[T.kid["left"][c]] : d \notin B[T.kid["right"][c]]
        BY <1>2 DEF Spans
      <3> QED
        BY <1>4, <3>1, SidesFacts
    <2> QED
      BY <2>1, <2>2, <2>3 DEF WellLinked
  <1>6. Ordered
    <2>1. ASSUME NEW c \in T.used
          PROVE  /\ \A d \in Below(T.kid["left"][c]) : T.key[d] < T.key[c]
                 /\ \A d \in Below(T.kid["right"][c]) : T.key[d] > T.key[c]
      <3>1. /\ \A d \in B[T.kid["left"][c]] : Before("left", T.key[d], T.key[c])
            /\ \A d \in B[T.kid["right"][c]] : Before("right", T.key[d], T.key[c])
        BY <1>2, SidesFacts DEF Sorted
      <3> QED
        BY <1>4, <3>1, SidesFacts DEF Before
    <2> QED
      BY <2>1 DEF Ordered, KeysOf
  <1>7. HoldsKeys
    <2>1. KeysOf(T.used) = present
      BY <1>1 DEF Contents, KeysOf
    <2>2. Cardinality(T.used) = Cardinality(present)
      <3> DEFINE f == [c \in T.used |-> T.key[c]]
      <3>1. f \in Bijection(T.used, present)
        <4>1. f \in [T.used -> present] /\ \A a, b \in T.used : f[a] = f[b] => a = b
          BY <1>1 DEF Contents
        <4>2. \A k \in present : \E a \in T.used : f[a] = k
          BY <1>1 DEF Contents
        <4> HIDE DEF f
        <4> QED
          BY <4>1, <4>2 DEF Bijection, Injection, Surjection, IsInjective
      <3>2. ExistsBijection(T.used, present)
        BY <3>1 DEF ExistsBijection
      <3>3. IsFiniteSet(T.used)
        BY <1>1, CellsFinite, FS_Subset, NodeFacts
      <3> QED
        BY <3>2, <3>3, FS_Bijection
    <2>3. pc \in {"search", "descend"} /\ arg \in present => arg \in KeysOf(Below(x))
      <3> SUFFICES ASSUME pc \in {"search", "descend"}, arg \in present PROVE arg \in KeysOf(Below(x))
        OBVIOUS
      <3>1. x \in T.used \cup {nil} /\ \E c \in B[x] : T.key[c] = arg
        BY <1>2 DEF OnTheWay
      <3>2. Below(x) = B[x]
        BY <1>3, <3>1
      <3> QED
        BY <3>1, <3>2 DEF KeysOf
    <2> QED
      BY <2>1, <2>2, <2>3 DEF HoldsKeys
  <1>8. TypeOK
    BY IndTypeOK
  <1> QED
    BY <1>5, <1>6, <1>7, <1>8 DEF WellFormed

\* Between any two iterations of any loop of rbtree_insert and rbtree_delete the
\* tree is one search tree of the keys it should hold, each in one node.
THEOREM TreeWellFormed == Spec => []WellFormed
  BY TreeInductive, IndWellFormed, PTL

\* And its colours are as RedBlack says: no red node under a red one but where
\* the fixup that runs is at work, the same number of black nodes on every path.
THEOREM TreeRedBlack == Spec => []RedBlack
  BY TreeInductive, IndRedBlack, PTL
=============================================================================
