-------------------------- MODULE MCRdbTransaction --------------------------
(* Restores that insert at the same time. *)
EXTENDS RdbTransaction

CONSTANTS r1, r2, r3
=============================================================================
