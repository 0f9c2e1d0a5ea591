---------------------------- MODULE SerialBatch ----------------------------
(***************************************************************************)
(* What BatchInsert promises to the restores that call it at the same      *)
(* time: their transactions come one after the other, rows become durable  *)
(* all at once and only by the transaction of their own restore, and a     *)
(* restore that is told of an error has no row in the database, then or    *)
(* later.                                                                  *)
(***************************************************************************)
CONSTANTS Users, NoUser

VARIABLES
    open,               \* whose transaction is open
    durable,            \* the users whose rows are in the database
    told                \* what each user is told: "E_OK" or "error"

Init ==
    /\ open = NoUser
    /\ durable = {}
    /\ told = [u \in Users |-> "E_OK"]

Begin(u) ==
    /\ open = NoUser
    /\ told[u] = "E_OK"
    /\ u \notin durable
    /\ open' = u
    /\ UNCHANGED <<durable, told>>

Commit(u) ==
    /\ open = u
    /\ told[u] = "E_OK"
    /\ durable' = durable \cup {u}
    /\ open' = NoUser
    /\ UNCHANGED told

(* A transaction may end without its rows, and one that never ends keeps the others out.      *)
RollBack(u) ==
    /\ open = u
    /\ open' = NoUser
    /\ UNCHANGED <<durable, told>>

Refuse(u) ==
    /\ u \notin durable
    /\ told' = [told EXCEPT ![u] = "error"]
    /\ UNCHANGED <<open, durable>>

Next == \E u \in Users : Begin(u) \/ Commit(u) \/ RollBack(u) \/ Refuse(u)

Spec == Init /\ [][Next]_<<open, durable, told>>
=============================================================================
