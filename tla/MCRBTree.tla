------------------------------ MODULE MCRBTree ------------------------------
(* The constants of the runs are given in their configurations. *)
EXTENDS RBTree
=============================================================================
