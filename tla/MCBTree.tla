------------------------------ MODULE MCBTree -------------------------------
(* Instances of BTree: the keys of the runs. *)
EXTENDS BTree

KeysTo10 == 1 .. 10
=============================================================================
