--------------------------- MODULE RdbTransaction ---------------------------
(***************************************************************************)
(* RingtoneRdbTransaction, the scope guard of a database transaction, and  *)
(* its one user, the BatchInsert of a restore: construct, Start, insert,   *)
(* Finish (whose outcome BatchInsert does not see), destruct.  Two calls   *)
(* of startRestore run on two threads of the uv pool, and RdbHelper hands  *)
(* both the same store.                                                    *)
(*                                                                         *)
(* BeginTransaction keeps transactionMutex_ from its first line to its     *)
(* return, its sleeps included; the committer commits first and takes the  *)
(* mutex afterwards, to clear isInTransaction_.                            *)
(***************************************************************************)
EXTENDS Integers, FiniteSets

CONSTANTS
    Users,              \* the restores that insert their rows
    NoUser,             \* the owner of a free mutex and of no transaction
    MAX_TRY_TIMES,      \* tries before BeginTransaction gives up
    CommitLeaves        \* what a failing Commit leaves of the transaction; {}: none fails

ASSUME TransactionAssumption ==
    /\ NoUser \notin Users
    /\ MAX_TRY_TIMES \in Nat
    /\ CommitLeaves \subseteq {"open", "closed"}

VARIABLES
    mutex,              \* who holds transactionMutex_
    isInTransaction,    \* isInTransaction_
    tx,                 \* whose transaction the store has open
    durable,            \* the users whose rows the store has committed
    pc,                 \* where each user is
    tries,              \* curTryTime
    isStart,            \* isStart of the user's object
    isFinish,           \* isFinish of it
    ret                 \* what BatchInsert returns: "E_OK" or "error"

store  == <<tx, durable>>
object == <<isStart, isFinish>>
vars   == <<mutex, isInTransaction, store, pc, tries, object, ret>>

(* start .. begin: in Start; insert: the rows go in; finish, cleared: in Finish, before and  *)
(* after the store's Commit; destruct, undone: in the destructor, likewise.                  *)
Places == {"idle", "start", "wait", "try", "sleep", "begin", "insert",
           "finish", "cleared", "destruct", "undone", "done"}

TypeOK ==
    /\ mutex \in Users \cup {NoUser}
    /\ isInTransaction \in BOOLEAN
    /\ tx \in Users \cup {NoUser}
    /\ durable \subseteq Users
    /\ pc \in [Users -> Places]
    /\ tries \in [Users -> 0 .. MAX_TRY_TIMES]
    /\ isStart \in [Users -> BOOLEAN]
    /\ isFinish \in [Users -> BOOLEAN]
    /\ ret \in [Users -> {"E_OK", "error"}]

Init ==
    /\ mutex = NoUser
    /\ isInTransaction = FALSE
    /\ tx = NoUser
    /\ durable = {}
    /\ pc = [u \in Users |-> "idle"]
    /\ tries = [u \in Users |-> 0]
    /\ isStart = [u \in Users |-> FALSE]
    /\ isFinish = [u \in Users |-> FALSE]
    /\ ret = [u \in Users |-> "E_OK"]

At(u, place) == pc[u] = place
Goto(u, place) == pc' = [pc EXCEPT ![u] = place]

(* rdbStore_->IsInTransaction() *)
StoreInTransaction == tx # NoUser

-----------------------------------------------------------------------------
(* Start: BeginTransaction *)

(* A restore has rows to insert. *)
Construct(u) ==
    /\ At(u, "idle")
    /\ Goto(u, "start")
    /\ UNCHANGED <<mutex, isInTransaction, store, tries, object, ret>>

(* The mutex is taken; while another transaction runs, wait_for gives it back. *)
LockForBegin(u) ==
    /\ At(u, "start")
    /\ mutex = NoUser
    /\ IF isInTransaction
       THEN Goto(u, "wait") /\ UNCHANGED mutex
       ELSE Goto(u, "try") /\ mutex' = u
    /\ UNCHANGED <<isInTransaction, store, tries, object, ret>>

(* wait_for returns with the mutex: its predicate holds, or RDB_TRANSACTION_WAIT_MS passed,  *)
(* and the code goes on either way.                                                          *)
WaitEnds(u) ==
    /\ At(u, "wait")
    /\ mutex = NoUser
    /\ mutex' = u
    /\ Goto(u, "try")
    /\ UNCHANGED <<isInTransaction, store, tries, object, ret>>

(* A mutant of NextTry: the count of the loop is not advanced. *)
SameTry(u) == Goto(u, "try") /\ UNCHANGED tries

NextTry(u) == Goto(u, "try") /\ tries' = [tries EXCEPT ![u] = @ + 1]

(* The loop is over: Start fails, and so does BatchInsert. *)
GiveUp(u) ==
    /\ At(u, "try")
    /\ tries[u] = MAX_TRY_TIMES
    /\ mutex' = NoUser
    /\ ret' = [ret EXCEPT ![u] = "error"]
    /\ Goto(u, "destruct")
    /\ UNCHANGED <<isInTransaction, store, tries, object>>

(* A mutant of TryBegin: the loop has no bound. *)
TryBeginForever(u) ==
    /\ At(u, "try")
    /\ Goto(u, IF StoreInTransaction THEN "sleep" ELSE "begin")
    /\ UNCHANGED <<mutex, isInTransaction, store, tries, object, ret>>

(* A mutant of TryBegin: the store is not asked whether it is in a transaction. *)
TryBeginBlind(u) ==
    /\ At(u, "try")
    /\ tries[u] < MAX_TRY_TIMES
    /\ Goto(u, "begin")
    /\ UNCHANGED <<mutex, isInTransaction, store, tries, object, ret>>

TryBegin(u) ==
    /\ At(u, "try")
    /\ tries[u] < MAX_TRY_TIMES
    /\ Goto(u, IF StoreInTransaction THEN "sleep" ELSE "begin")
    /\ UNCHANGED <<mutex, isInTransaction, store, tries, object, ret>>

(* 50 ms later, with the mutex still held, both flags are read again. *)
SleepEnds(u) ==
    /\ At(u, "sleep")
    /\ IF isInTransaction \/ StoreInTransaction
       THEN NextTry(u)
       ELSE Goto(u, "begin") /\ UNCHANGED tries
    /\ UNCHANGED <<mutex, isInTransaction, store, object, ret>>

(* The store's BeginTransaction finds the database file locked. *)
DatabaseLocked(u) ==
    /\ At(u, "begin")
    /\ NextTry(u)
    /\ UNCHANGED <<mutex, isInTransaction, store, object, ret>>

(* It fails in another way. *)
BeginFails(u) ==
    /\ At(u, "begin")
    /\ mutex' = NoUser
    /\ isInTransaction' = FALSE
    /\ ret' = [ret EXCEPT ![u] = "error"]
    /\ Goto(u, "destruct")
    /\ UNCHANGED <<store, tries, object>>

(* It succeeds. *)
Begin(u) ==
    /\ At(u, "begin")
    /\ tx' = u
    /\ isInTransaction' = TRUE
    /\ mutex' = NoUser
    /\ isStart' = [isStart EXCEPT ![u] = TRUE]
    /\ Goto(u, "insert")
    /\ UNCHANGED <<durable, tries, isFinish, ret>>

-----------------------------------------------------------------------------
(* The insertion itself, by the store *)

Insert(u) ==
    /\ At(u, "insert")
    /\ Goto(u, "finish")
    /\ UNCHANGED <<mutex, isInTransaction, store, tries, object, ret>>

(* A mutant of InsertFails: the transaction is finished all the same. *)
InsertFailsOn(u) ==
    /\ At(u, "insert")
    /\ ret' = [ret EXCEPT ![u] = "error"]
    /\ Goto(u, "finish")
    /\ UNCHANGED <<mutex, isInTransaction, store, tries, object>>

(* BatchInsert returns before it comes to Finish. *)
InsertFails(u) ==
    /\ At(u, "insert")
    /\ ret' = [ret EXCEPT ![u] = "error"]
    /\ Goto(u, "destruct")
    /\ UNCHANGED <<mutex, isInTransaction, store, tries, object>>

-----------------------------------------------------------------------------
(* Finish: TransactionCommit.  The destructor: TransactionRollback. *)

InTransaction == isInTransaction /\ StoreInTransaction

(* "no transaction now": TransactionCommit fails, and Finish says nothing of it. *)
NothingToCommit(u) ==
    /\ At(u, "finish")
    /\ ~InTransaction
    /\ Goto(u, "destruct")
    /\ UNCHANGED <<mutex, isInTransaction, store, tries, object, ret>>

(* The store commits what it has open.  isFinish is written when Finish returns, which only  *)
(* this thread can tell from here.                                                           *)
Commit(u) ==
    /\ At(u, "finish")
    /\ InTransaction
    /\ durable' = durable \cup {tx}
    /\ tx' = NoUser
    /\ isFinish' = [isFinish EXCEPT ![u] = TRUE]
    /\ Goto(u, "cleared")
    /\ UNCHANGED <<mutex, isInTransaction, tries, isStart, ret>>

(* The store's Commit fails, and the transaction stays open or is rolled back by the store.  *)
CommitFails(u) ==
    /\ At(u, "finish")
    /\ InTransaction
    /\ \E left \in CommitLeaves : tx' = IF left = "open" THEN tx ELSE NoUser
    /\ Goto(u, "cleared")
    /\ UNCHANGED <<mutex, isInTransaction, durable, tries, object, ret>>

(* ~RingtoneRdbTransaction has nothing to undo, or may not: isInTransaction_ is already      *)
(* false, or the store has nothing open.                                                     *)
NothingToUndo(u) ==
    /\ At(u, "destruct")
    /\ ~isStart[u] \/ isFinish[u] \/ ~InTransaction
    /\ Goto(u, "done")
    /\ UNCHANGED <<mutex, isInTransaction, store, tries, object, ret>>

MustUndo(u) == At(u, "destruct") /\ isStart[u] /\ ~isFinish[u] /\ InTransaction

RollBack(u) ==
    /\ MustUndo(u)
    /\ tx' = NoUser
    /\ Goto(u, "undone")
    /\ UNCHANGED <<mutex, isInTransaction, durable, tries, object, ret>>

RollBackFails(u) ==
    /\ CommitLeaves # {}
    /\ MustUndo(u)
    /\ Goto(u, "undone")
    /\ UNCHANGED <<mutex, isInTransaction, store, tries, object, ret>>

(* Under the mutex, which is taken only now, isInTransaction_ becomes false and the waiters  *)
(* are notified, whatever the store answered.                                                *)
Clear(u) ==
    /\ At(u, "cleared") \/ At(u, "undone")
    /\ mutex = NoUser
    /\ isInTransaction' = FALSE
    /\ Goto(u, IF At(u, "cleared") THEN "destruct" ELSE "done")
    /\ UNCHANGED <<mutex, store, tries, object, ret>>

-----------------------------------------------------------------------------

Step(u) ==
    \/ LockForBegin(u) \/ WaitEnds(u) \/ GiveUp(u) \/ TryBegin(u) \/ SleepEnds(u)
    \/ DatabaseLocked(u) \/ BeginFails(u) \/ Begin(u)
    \/ Insert(u) \/ InsertFails(u)
    \/ NothingToCommit(u) \/ Commit(u) \/ CommitFails(u)
    \/ NothingToUndo(u) \/ RollBack(u) \/ RollBackFails(u) \/ Clear(u)

Next == \E u \in Users : Construct(u) \/ Step(u)

(* A thread that can go on does; nothing obliges a restore to be started. *)
Fairness == \A u \in Users : WF_vars(Step(u))

Spec     == Init /\ [][Next]_vars
FairSpec == Spec /\ Fairness

-----------------------------------------------------------------------------
(* What the guard promises *)

(* BatchInsert that returned an error has left no row in the database: rows are never        *)
(* committed by the failing call, nor later with the transaction of another restore.  (Here  *)
(* and in the next two, a commit that fails leaves its transaction open.)                    *)
ErrorMeansNoRows ==
    \A u \in Users : ret[u] = "error" => u \notin durable

(* Two transactions never run into each other: one begins only when none is open, whatever   *)
(* isInTransaction_ says and however long the other takes.                                   *)
OneAtATime ==
    [][tx' # tx => tx = NoUser \/ tx' = NoUser]_vars

(* What becomes durable is the transaction of the thread that commits, which has begun it    *)
(* and whose insertion succeeded.                                                            *)
CommitsItsOwn ==
    [][\A u \in durable' \ durable :
          At(u, "finish") /\ isStart[u] /\ ret[u] = "E_OK"]_vars

(* Every Start comes back, and with it BatchInsert: by MAX_TRY_TIMES even if a transaction   *)
(* is left open for good.                                                                    *)
BatchInsertReturns ==
    \A u \in Users : At(u, "start") ~> At(u, "done")

(* The promise as a whole: whoever sees only the store and the results of BatchInsert sees   *)
(* SerialBatch, whatever the mutex, the flag, the tries and the timeouts do meanwhile.       *)
Batches == INSTANCE SerialBatch WITH open <- tx, told <- ret
Serial  == Batches!Spec

-----------------------------------------------------------------------------
(* What the header says, and the code does not do *)

(* ringtone_rdb_transaction.h:40: "If RingtoneRdbTransaction is destructed without           *)
(* successfully finish, it will be auto rollback".                                           *)
AutoRollback ==
    \A u \in Users : At(u, "done") /\ ~isFinish[u] => tx # u

=============================================================================
