----------------------------- MODULE MCBootScan -----------------------------
(***************************************************************************)
(* The instances of BootScan that TLC checks.  The first directory holds   *)
(* two files of one table, one of them in a subdirectory, which fill a     *)
(* batch of two, and a file of the other table; the second holds one more. *)
(***************************************************************************)
EXTENDS BootScan

CONSTANTS p1, p2, p3, p4, c1, extension, backup

Instance_TableOf == (p1 :> 1) @@ (p2 :> 2) @@ (p3 :> 1) @@ (p4 :> 1) @@ (c1 :> 1)
Instance_DirOf   == (p1 :> 1) @@ (p2 :> 1) @@ (p3 :> 1) @@ (p4 :> 2)

(* Two of these files in one table and one directory: p1 and p3 share a batch. *)
Small_TableOf == (p1 :> 1) @@ (p3 :> 1) @@ (c1 :> 1)
Small_DirOf   == (p1 :> 1) @@ (p3 :> 1)
=============================================================================
