----------------------------- MODULE MCRBTree ------------------------------
(***************************************************************************)
(* Instances of RBTree.  The program compares nodes for equality only, so  *)
(* which cells malloc returned makes no difference: View names each node   *)
(* of the tree by its key, and forgets the free cells and, outside a       *)
(* deletion's fixup, the parent left in nil.                               *)
(***************************************************************************)
EXTENDS RBTree

Name(c) == IF c \in T.used THEN T.key[c] ELSE NoKey

View ==
  <<pc, arg, present, Name(x), Name(y), Name(z), Name(T.root),
    IF pc = "deleteFixup" THEN Name(T.parent[nil]) ELSE NoKey,
    {<<T.key[c], T.color[c], Name(T.parent[c]),
       Name(T.kid["left"][c]), Name(T.kid["right"][c])>> : c \in T.used}>>
=============================================================================
