------------------------ MODULE RdbTransaction_proofs -----------------------
(***************************************************************************)
(* What RdbTransaction guarantees for every set of restores and every      *)
(* number of tries.  OwnedMutex is what makes the check-then-begin of      *)
(* BeginTransaction atomic; OwnTransaction, which needs a failing commit   *)
(* to leave its transaction open, is what ties a guard to the transaction  *)
(* it began.                                                               *)
(***************************************************************************)
EXTENDS RdbTransaction, TLAPS

(* The loop of BeginTransaction has a try left when it comes to sleep or to begin. *)
TriesLeft ==
    \A u \in Users : pc[u] \in {"sleep", "begin"} => tries[u] < MAX_TRY_TIMES

(* The mutex is held through the loop of BeginTransaction and only there, and a thread that  *)
(* is about to begin saw no transaction and will see none.                                   *)
OwnedMutex ==
    /\ \A u \in Users : pc[u] \in {"try", "sleep", "begin"} <=> mutex = u
    /\ \A u \in Users : pc[u] = "begin" => tx = NoUser

(* A thread that is inside its transaction owns the store's; committed rows belong to a      *)
(* guard that finished without an error.                                                     *)
OwnTransaction ==
    /\ \A u \in Users : isStart[u] /\ ~isFinish[u] /\ pc[u] \notin {"undone", "done"} => tx = u
    /\ \A u \in Users : pc[u] \in {"insert", "finish"} => isStart[u] /\ ~isFinish[u]
    /\ \A u \in Users : pc[u] \in {"idle", "start", "wait", "try", "sleep", "begin"} =>
          ~isStart[u] /\ ~isFinish[u]
    /\ \A u \in Users :
          pc[u] \notin {"destruct", "undone", "done"} \/ isFinish[u] => ret[u] = "E_OK"
    /\ \A u \in durable : isFinish[u]

TypedInv == TypeOK /\ TriesLeft

-----------------------------------------------------------------------------

(* TypeOK is inductive, with the count of the loop bounded before each increment. *)
LEMMA TypedStep ==
    ASSUME TypedInv, [Next]_vars
    PROVE  TypedInv'
<1> USE TransactionAssumption DEF TransactionAssumption, TypedInv, TypeOK, TriesLeft, At, Goto, Places
<1>1. CASE UNCHANGED vars
  BY <1>1 DEF vars, store, object
<1>2. ASSUME NEW u \in Users, Construct(u)
      PROVE  TypedInv'
  BY <1>2 DEF Construct, store, object
<1>3. ASSUME NEW u \in Users, Step(u)
      PROVE  TypedInv'
  <2>1. CASE LockForBegin(u)
    BY <2>1 DEF LockForBegin, store, object
  <2>2. CASE WaitEnds(u)
    BY <2>2 DEF WaitEnds, store, object
  <2>3. CASE GiveUp(u)
    BY <2>3 DEF GiveUp, store, object
  <2>4. CASE TryBegin(u)
    BY <2>4 DEF TryBegin, store, object
  <2>5. CASE SleepEnds(u)
    BY <2>5 DEF SleepEnds, NextTry, store, object
  <2>6. CASE DatabaseLocked(u)
    BY <2>6 DEF DatabaseLocked, NextTry, store, object
  <2>7. CASE BeginFails(u)
    BY <2>7 DEF BeginFails, store, object
  <2>8. CASE Begin(u)
    BY <2>8 DEF Begin
  <2>9. CASE Insert(u) \/ InsertFails(u)
    BY <2>9 DEF Insert, InsertFails, store, object
  <2>10. CASE NothingToCommit(u) \/ NothingToUndo(u)
    BY <2>10 DEF NothingToCommit, NothingToUndo, store, object
  <2>11. CASE Commit(u)
    BY <2>11 DEF Commit, InTransaction, StoreInTransaction
  <2>12. CASE CommitFails(u)
    BY <2>12 DEF CommitFails, object
  <2>13. CASE RollBack(u) \/ RollBackFails(u)
    BY <2>13 DEF RollBack, RollBackFails, MustUndo, store, object
  <2>14. CASE Clear(u)
    BY <2>14 DEF Clear, store, object
  <2>15. QED
    BY <1>3, <2>1, <2>2, <2>3, <2>4, <2>5, <2>6, <2>7, <2>8, <2>9, <2>10, <2>11, <2>12,
       <2>13, <2>14 DEF Step
<1>4. QED
  BY <1>1, <1>2, <1>3 DEF Next

(* Every step keeps the mutex with the thread in the loop, and no transaction opens while a  *)
(* thread is about to begin one: only Begin opens one, and it needs the mutex.               *)
LEMMA MutexStep ==
    ASSUME TypedInv, OwnedMutex, [Next]_vars
    PROVE  OwnedMutex'
<1> USE TransactionAssumption DEF TransactionAssumption, TypedInv, TypeOK, OwnedMutex, At, Goto, Places
<1>1. CASE UNCHANGED vars
  BY <1>1 DEF vars, store, object
<1>2. ASSUME NEW u \in Users, Construct(u)
      PROVE  OwnedMutex'
  BY <1>2 DEF Construct, store
<1>3. ASSUME NEW u \in Users, Step(u)
      PROVE  OwnedMutex'
  <2>1. CASE LockForBegin(u) \/ WaitEnds(u)
    BY <2>1 DEF LockForBegin, WaitEnds, store
  <2>2. CASE GiveUp(u) \/ BeginFails(u)
    BY <2>2 DEF GiveUp, BeginFails, store
  <2>3. CASE TryBegin(u)
    BY <2>3 DEF TryBegin, StoreInTransaction, store
  <2>4. CASE SleepEnds(u) \/ DatabaseLocked(u)
    BY <2>4 DEF SleepEnds, DatabaseLocked, NextTry, StoreInTransaction, store
  <2>5. CASE Begin(u)
    BY <2>5 DEF Begin
  <2>6. CASE Insert(u) \/ InsertFails(u) \/ NothingToCommit(u) \/ NothingToUndo(u)
    BY <2>6 DEF Insert, InsertFails, NothingToCommit, NothingToUndo, store
  <2>7. CASE Commit(u) \/ CommitFails(u)
    BY <2>7 DEF Commit, CommitFails
  <2>8. CASE RollBack(u) \/ RollBackFails(u)
    BY <2>8 DEF RollBack, RollBackFails, MustUndo, store
  <2>9. CASE Clear(u)
    BY <2>9 DEF Clear, store
  <2>10. QED
    BY <1>3, <2>1, <2>2, <2>3, <2>4, <2>5, <2>6, <2>7, <2>8, <2>9 DEF Step
<1>4. QED
  BY <1>1, <1>2, <1>3 DEF Next

(* The initial state satisfies the invariants. *)
LEMMA InvInit ==
    Init => TypedInv /\ OwnedMutex /\ OwnTransaction
<1> SUFFICES ASSUME Init
             PROVE  TypedInv /\ OwnedMutex /\ OwnTransaction
  OBVIOUS
<1> USE TransactionAssumption DEF TransactionAssumption, Init
<1>1. TypedInv
  <2>1. isStart \in [Users -> BOOLEAN] /\ isFinish \in [Users -> BOOLEAN]
    BY Zenon
  <2>2. pc \in [Users -> Places] /\ ret \in [Users -> {"E_OK", "error"}]
    BY DEF Places
  <2>3. tries \in [Users -> 0 .. MAX_TRY_TIMES]
    OBVIOUS
  <2>4. QED
    BY <2>1, <2>2, <2>3 DEF TypedInv, TypeOK, TriesLeft
<1>2. OwnedMutex
  BY DEF OwnedMutex
<1>3. OwnTransaction
  BY DEF OwnTransaction
<1>4. QED
  BY <1>1, <1>2, <1>3

(* A transaction never begins while another is open. *)
LEMMA OneAtATimeStep ==
    ASSUME TypedInv, OwnedMutex, [Next]_vars
    PROVE  tx' # tx => tx = NoUser \/ tx' = NoUser
<1>1. CASE UNCHANGED vars
  BY <1>1 DEF vars, store
<1>2. ASSUME NEW u \in Users, Construct(u) \/ Step(u)
      PROVE  tx' = tx \/ tx = NoUser \/ tx' = NoUser
  BY <1>2 DEF OwnedMutex, Construct, Step, LockForBegin, WaitEnds, GiveUp, TryBegin, SleepEnds,
      DatabaseLocked, BeginFails, Begin, Insert, InsertFails, NothingToCommit, Commit, CommitFails,
      NothingToUndo, RollBack, RollBackFails, Clear, At, store
<1>3. QED
  BY <1>1, <1>2 DEF Next

(* Every step keeps each guard with its own transaction, when a failing commit leaves its    *)
(* transaction open: then nothing but its guard ends one.                                    *)
LEMMA OwnStep ==
    ASSUME "closed" \notin CommitLeaves,
           TypedInv, OwnedMutex, OwnTransaction, [Next]_vars
    PROVE  OwnTransaction'
<1> USE TransactionAssumption
    DEF TransactionAssumption, TypedInv, TypeOK, OwnTransaction, At, Goto, Places
<1>1. CASE UNCHANGED vars
  BY <1>1 DEF vars, store, object
<1>2. ASSUME NEW u \in Users, Construct(u)
      PROVE  OwnTransaction'
  BY <1>2 DEF Construct, store, object
<1>3. ASSUME NEW u \in Users, Step(u)
      PROVE  OwnTransaction'
  <2>1. CASE LockForBegin(u) \/ WaitEnds(u)
    BY <2>1 DEF LockForBegin, WaitEnds, store, object
  <2>2. CASE GiveUp(u) \/ BeginFails(u)
    BY <2>2 DEF GiveUp, BeginFails, store, object
  <2>3. CASE TryBegin(u)
    BY <2>3 DEF TryBegin, store, object
  <2>4. CASE SleepEnds(u) \/ DatabaseLocked(u)
    BY <2>4 DEF SleepEnds, DatabaseLocked, NextTry, store, object
  <2>5. CASE Begin(u)
    <3>1. tx = NoUser
      BY <2>5 DEF Begin, OwnedMutex
    <3>2. \A v \in Users : isStart[v] /\ ~isFinish[v] => pc[v] \in {"undone", "done"}
      BY <3>1
    <3>3. QED
      BY <2>5, <3>1, <3>2 DEF Begin
  <2>6. CASE Insert(u)
    BY <2>6 DEF Insert, store, object
  <2>7. CASE InsertFails(u)
    BY <2>7 DEF InsertFails, store, object
  <2>8. CASE NothingToCommit(u) \/ NothingToUndo(u)
    BY <2>8 DEF NothingToCommit, NothingToUndo, store, object
  <2>9. CASE Commit(u)
    <3>1. tx = u
      BY <2>9 DEF Commit
    <3>2. \A v \in Users \ {u} : isStart[v] /\ ~isFinish[v] => pc[v] \in {"undone", "done"}
      BY <3>1
    <3>3. QED
      BY <2>9, <3>1, <3>2 DEF Commit
  <2>10. CASE CommitFails(u)
    <3>1. tx' = tx
      BY <2>10 DEF CommitFails
    <3>2. QED
      BY <2>10, <3>1 DEF CommitFails, object
  <2>11. CASE RollBack(u)
    <3>1. tx = u
      BY <2>11 DEF RollBack, MustUndo
    <3>2. \A v \in Users \ {u} : isStart[v] /\ ~isFinish[v] => pc[v] \in {"undone", "done"}
      BY <3>1
    <3>3. QED
      BY <2>11, <3>1, <3>2 DEF RollBack, MustUndo, object
  <2>12. CASE RollBackFails(u)
    BY <2>12 DEF RollBackFails, MustUndo, store, object
  <2>13. CASE Clear(u)
    BY <2>13 DEF Clear, store, object
  <2>14. QED
    BY <1>3, <2>1, <2>2, <2>3, <2>4, <2>5, <2>6, <2>7, <2>8, <2>9, <2>10, <2>11, <2>12,
       <2>13 DEF Step
<1>4. QED
  BY <1>1, <1>2, <1>3 DEF Next

(* Only a thread that commits its own, error-free transaction makes rows durable. *)
LEMMA CommitStep ==
    ASSUME TypedInv, OwnTransaction, [Next]_vars
    PROVE  \A u \in durable' \ durable : At(u, "finish") /\ isStart[u] /\ ret[u] = "E_OK"
<1>1. CASE UNCHANGED vars
  BY <1>1 DEF vars, store
<1>2. ASSUME NEW u \in Users, Commit(u)
      PROVE  \A v \in durable' \ durable : At(v, "finish") /\ isStart[v] /\ ret[v] = "E_OK"
  <2>1. pc[u] = "finish" /\ durable' = durable \cup {tx}
    BY <1>2 DEF Commit, At
  <2>2. isStart[u] /\ ~isFinish[u] /\ ret[u] = "E_OK"
    BY <2>1 DEF OwnTransaction
  <2>3. tx = u
    BY <2>1, <2>2 DEF OwnTransaction
  <2>4. QED
    BY <2>1, <2>2, <2>3 DEF At
<1>3. ASSUME NEW u \in Users, Construct(u) \/ Step(u), ~Commit(u)
      PROVE  durable' = durable
  BY <1>3 DEF Construct, Step, LockForBegin, WaitEnds, GiveUp, TryBegin, SleepEnds,
      DatabaseLocked, BeginFails, Begin, Insert, InsertFails, NothingToCommit, CommitFails,
      NothingToUndo, RollBack, RollBackFails, Clear, store
<1>4. QED
  BY <1>1, <1>2, <1>3 DEF Next

-----------------------------------------------------------------------------

(* Every variable of RdbTransaction keeps its type. *)
THEOREM TypeCorrect == Spec => []TypeOK
<1>1. Init => TypedInv
  BY InvInit
<1>2. TypedInv /\ [Next]_vars => TypedInv'
  BY TypedStep
<1>3. TypedInv => TypeOK
  BY DEF TypedInv
<1>4. QED
  BY <1>1, <1>2, <1>3, PTL DEF Spec

(* Two restores never have a transaction open in the store at the same time, one inside the  *)
(* other: the check of IsInTransaction and the store's BeginTransaction are atomic together  *)
(* because transactionMutex_ is kept from the one to the other, for any number of threads,   *)
(* any length of a transaction and any failure of the store.                                 *)
THEOREM TransactionsExclude == Spec => OneAtATime
<1>1. Init => TypedInv /\ OwnedMutex
  BY InvInit
<1>2. TypedInv /\ OwnedMutex /\ [Next]_vars => TypedInv' /\ OwnedMutex'
  BY TypedStep, MutexStep
<1>3. TypedInv /\ OwnedMutex /\ [Next]_vars
        => [tx' # tx => tx = NoUser \/ tx' = NoUser]_vars
  BY OneAtATimeStep
<1>4. QED
  BY <1>1, <1>2, <1>3, PTL DEF Spec, OneAtATime

(* When the store keeps a transaction open whose commit failed, a BatchInsert that returns   *)
(* an error leaves no row of its restore in the database, however many restores run and      *)
(* whatever isInTransaction_ says by then.                                                   *)
THEOREM ErrorLeavesNoRows ==
    ASSUME "closed" \notin CommitLeaves
    PROVE  Spec => []ErrorMeansNoRows
<1> DEFINE IInv == TypedInv /\ OwnedMutex /\ OwnTransaction
<1>1. Init => IInv
  BY InvInit
<1>2. IInv /\ [Next]_vars => IInv'
  BY TypedStep, MutexStep, OwnStep
<1>3. IInv => ErrorMeansNoRows
  BY DEF TypedInv, TypeOK, OwnTransaction, ErrorMeansNoRows
<1>4. QED
  BY <1>1, <1>2, <1>3, PTL DEF Spec

(* Under the same condition a restore commits nothing but its own rows, and those only when  *)
(* they were inserted without an error.                                                      *)
THEOREM CommitsOwnRows ==
    ASSUME "closed" \notin CommitLeaves
    PROVE  Spec => CommitsItsOwn
<1> DEFINE IInv == TypedInv /\ OwnedMutex /\ OwnTransaction
<1>1. Init => IInv
  BY InvInit
<1>2. IInv /\ [Next]_vars => IInv'
  BY TypedStep, MutexStep, OwnStep
<1>3. IInv /\ [Next]_vars
        => [\A u \in durable' \ durable :
               At(u, "finish") /\ isStart[u] /\ ret[u] = "E_OK"]_vars
  BY CommitStep
<1>4. QED
  BY <1>1, <1>2, <1>3, PTL DEF Spec, CommitsItsOwn

-----------------------------------------------------------------------------
(* BatchInsert implements SerialBatch *)

(* Every step is a step of SerialBatch or leaves what it speaks of alone. *)
LEMMA SerialStep ==
    ASSUME "closed" \notin CommitLeaves,
           TypedInv, OwnedMutex, OwnTransaction, [Next]_vars
    PROVE  [Batches!Next]_<<tx, durable, ret>>
<1> USE TransactionAssumption DEF TransactionAssumption, At
<1>1. CASE UNCHANGED vars
  BY <1>1 DEF vars, store
<1>2. ASSUME NEW u \in Users, Construct(u)
      PROVE  UNCHANGED <<tx, durable, ret>>
  BY <1>2 DEF Construct, store
<1>3. ASSUME NEW u \in Users, Step(u)
      PROVE  [Batches!Next]_<<tx, durable, ret>>
  <2>1. CASE GiveUp(u) \/ BeginFails(u) \/ InsertFails(u)
    <3>1. ~isFinish[u]
      BY <2>1 DEF GiveUp, BeginFails, InsertFails, OwnTransaction
    <3>2. u \notin durable
      BY <3>1 DEF OwnTransaction
    <3>3. Batches!Refuse(u)
      BY <2>1, <3>2 DEF GiveUp, BeginFails, InsertFails, store, Batches!Refuse
    <3>4. QED
      BY <3>3 DEF Batches!Next
  <2>2. CASE Begin(u)
    <3>1. tx = NoUser
      BY <2>2 DEF Begin, OwnedMutex
    <3>2. ret[u] = "E_OK" /\ u \notin durable
      BY <2>2 DEF Begin, OwnTransaction
    <3>3. Batches!Begin(u)
      BY <2>2, <3>1, <3>2 DEF Begin, Batches!Begin
    <3>4. QED
      BY <3>3 DEF Batches!Next
  <2>3. CASE Commit(u)
    <3>1. isStart[u] /\ ~isFinish[u] /\ ret[u] = "E_OK"
      BY <2>3 DEF Commit, OwnTransaction
    <3>2. tx = u
      BY <2>3, <3>1 DEF Commit, OwnTransaction
    <3>3. Batches!Commit(u)
      BY <2>3, <3>1, <3>2 DEF Commit, Batches!Commit
    <3>4. QED
      BY <3>3 DEF Batches!Next
  <2>4. CASE RollBack(u)
    <3>1. tx = u
      BY <2>4 DEF RollBack, MustUndo, OwnTransaction
    <3>2. Batches!RollBack(u)
      BY <2>4, <3>1 DEF RollBack, Batches!RollBack
    <3>3. QED
      BY <3>2 DEF Batches!Next
  <2>5. CASE LockForBegin(u) \/ WaitEnds(u) \/ TryBegin(u) \/ SleepEnds(u) \/ DatabaseLocked(u)
    BY <2>5 DEF LockForBegin, WaitEnds, TryBegin, SleepEnds, DatabaseLocked, store
  <2>6. CASE Insert(u) \/ NothingToCommit(u) \/ NothingToUndo(u) \/ RollBackFails(u) \/ Clear(u)
    BY <2>6 DEF Insert, NothingToCommit, NothingToUndo, RollBackFails, Clear, store
  <2>7. CASE CommitFails(u)
    BY <2>7 DEF CommitFails
  <2>8. QED
    BY <1>3, <2>1, <2>2, <2>3, <2>4, <2>5, <2>6, <2>7 DEF Step
<1>4. QED
  BY <1>1, <1>2, <1>3 DEF Next

(* When the store keeps a transaction open whose commit failed, restores that insert at the  *)
(* same time are served one after the other, as SerialBatch says: for any number of threads, *)
(* any timeout of the wait and any failure.                                                  *)
THEOREM InsertsAreSerial ==
    ASSUME "closed" \notin CommitLeaves
    PROVE  Spec => Serial
<1> DEFINE IInv == TypedInv /\ OwnedMutex /\ OwnTransaction
<1>1. Init => IInv
  BY InvInit
<1>2. IInv /\ [Next]_vars => IInv'
  BY TypedStep, MutexStep, OwnStep
<1>3. Init => Batches!Init
  BY DEF Init, Batches!Init
<1>4. IInv /\ [Next]_vars => [Batches!Next]_<<tx, durable, ret>>
  BY SerialStep
<1>5. QED
  BY <1>1, <1>2, <1>3, <1>4, PTL DEF Spec, Serial, Batches!Spec
=============================================================================
