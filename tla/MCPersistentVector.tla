------------------------- MODULE MCPersistentVector -------------------------
(* The constants of the runs are given in their configurations. *)
EXTENDS PersistentVector
=============================================================================
