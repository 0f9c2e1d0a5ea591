------------------------- MODULE ScanExecutor_proofs -------------------------
(***************************************************************************)
(* What the scan executor guarantees for every number of threads, commits  *)
(* and starts, with or without client scans and spurious wake-ups.         *)
(***************************************************************************)
EXTENDS ScanExecutor, FiniteSetTheorems, TLAPS

(* Arithmetic of a size_t that does not wrap. *)
LEMMA ModRange ==
    ASSUME NEW x \in Int, NEW m \in Nat, m > 0
    PROVE  x % m \in 0 .. m - 1
BY SMT

(* The remainder of a small number is that number. *)
LEMMA ModSmall ==
    ASSUME NEW m \in Nat, NEW x \in 0 .. m - 1
    PROVE  x % m = x
BY SMT

-----------------------------------------------------------------------------

(* A thread holds a task exactly while it scans; without it, ended could gain a 0. *)
HandsFull == \A n \in Tasks : scanning[n] # 0 <=> thread[n] = "scanning"

(* The thread of a commit that was not made yet does not exist. *)
ThreadsInOrder == \A n \in Tasks : n > committed => thread[n] = "none"

Typed == TypeOK /\ HandsFull /\ ThreadsInOrder

(* The values every variable keeps. *)
LEMMA TypeStep == Typed /\ [Next]_vars => TypeOK'
<1> SUFFICES ASSUME TypeOK, HandsFull, [Next]_vars PROVE TypeOK'
  BY DEF Typed
<1> USE ExecutorAssumption
<1>1. ASSUME Commit,
             UNCHANGED <<stopFlag, isScanFinished, scanning, ended, dropped>>,
             ability' \in AbilityStates, starts' = starts
      PROVE  TypeOK'
  <2>1. committed + 1 \in Tasks /\ committed' \in 0 .. MaxCommits
    BY <1>1 DEF Commit, TypeOK, Tasks
  <2>2. queue' \in Seq(Tasks)
    BY <1>1, <2>1 DEF Commit, TypeOK
  <2>3. (activeThread + 1) % SizeMod \in 0 .. SizeMod - 1
    BY ModRange DEF TypeOK
  <2>4. activeThread' \in 0 .. SizeMod - 1
    BY <1>1, <2>3 DEF Commit, TypeOK
  <2>5. thread' \in [Tasks -> ThreadStates]
    BY <1>1, <2>1 DEF Commit, TypeOK, ThreadStates
  <2> QED
    BY <1>1, <2>1, <2>2, <2>4, <2>5 DEF TypeOK
<1>2. CASE ClientCommit
  BY <1>1, <1>2 DEF ClientCommit, TypeOK
<1>3. CASE CommitBootScan
  BY <1>1, <1>3 DEF CommitBootScan, AbilityStates
<1>4. CASE OnStart
  <2>1. starts' \in 0 .. MaxStarts
    BY <1>4 DEF OnStart, TypeOK
  <2>2. ability' \in AbilityStates
    BY <1>4 DEF OnStart, AbilityStates
  <2> QED
    BY <1>4, <2>1, <2>2 DEF OnStart, TypeOK, locals
<1>5. CASE WaitForReturns \/ StopFlag \/ StopCheck \/ StopWait \/ SpuriousWakeup
  BY <1>5 DEF WaitForReturns, StopFlag, StopCheck, StopWait, SpuriousWakeup,
              TypeOK, AbilityStates, locals, history
<1>6. CASE StopClear
  <2>1. {queue[i] : i \in 1 .. Len(queue)} \subseteq Tasks
    BY DEF TypeOK
  <2>2. queue' \in Seq(Tasks) /\ dropped' \subseteq Tasks /\ ability' \in AbilityStates
    BY <1>6, <2>1 DEF StopClear, TypeOK, AbilityStates
  <2> QED
    BY <1>6, <2>2 DEF StopClear, TypeOK, locals
<1>7. ASSUME NEW n \in Tasks, Pop(n) PROVE TypeOK'
  <2>1. Head(queue) \in Tasks /\ Tail(queue) \in Seq(Tasks)
    BY <1>7 DEF Pop, TypeOK
  <2>2. (activeThread - 1) % SizeMod \in 0 .. SizeMod - 1
    BY ModRange DEF TypeOK
  <2> QED
    BY <1>7, <2>1, <2>2 DEF Pop, QueueAfterPop, CountAfterPop, TypeOK, ThreadStates, history
<1>8. ASSUME NEW n \in Tasks, ThreadStart(n) \/ PopEmpty(n) \/ Finish(n) PROVE TypeOK'
  BY <1>8 DEF ThreadStart, PopEmpty, Finish, TypeOK, ThreadStates, history
<1>9. ASSUME NEW n \in Tasks, ScanReturns(n) PROVE TypeOK'
  <2>1. ended' \subseteq Tasks
    BY <1>9 DEF ScanReturns, TypeOK, HandsFull
  <2> QED
    BY <1>9, <2>1 DEF ScanReturns, TypeOK, ThreadStates
<1>10. ASSUME NEW n \in Tasks, Notify(n) PROVE TypeOK'
  BY <1>10 DEF Notify, TypeOK, ThreadStates, AbilityStates, history
<1>11. CASE UNCHANGED vars
  BY <1>11 DEF TypeOK, vars, locals, history
<1> QED
  BY <1>2, <1>3, <1>4, <1>5, <1>6, <1>7, <1>8, <1>9, <1>10, <1>11
     DEF Next, AbilityStep, ThreadStep

(* A step keeps the types, a scanning thread's task and the order in which threads appear. *)
LEMMA TypedStep == Typed /\ [Next]_vars => Typed'
<1> SUFFICES ASSUME Typed, [Next]_vars PROVE HandsFull' /\ ThreadsInOrder'
  BY TypeStep DEF Typed
<1> USE ExecutorAssumption DEF Typed, TypeOK, HandsFull, ThreadsInOrder
<1>1. ASSUME Commit, UNCHANGED scanning PROVE HandsFull' /\ ThreadsInOrder'
  <2>1. committed + 1 \in Tasks /\ thread[committed + 1] = "none"
    BY <1>1 DEF Commit, Tasks
  <2> QED
    BY <1>1, <2>1 DEF Commit, Tasks
<1>2. CASE ClientCommit \/ CommitBootScan
  BY <1>1, <1>2 DEF ClientCommit, CommitBootScan
<1>3. ASSUME UNCHANGED <<locals, committed>> PROVE HandsFull' /\ ThreadsInOrder'
  BY <1>3 DEF locals
<1>4. CASE \/ OnStart \/ WaitForReturns \/ StopFlag \/ StopCheck
           \/ StopWait \/ SpuriousWakeup \/ StopClear
  BY <1>3, <1>4 DEF OnStart, WaitForReturns, StopFlag, StopCheck,
                    StopWait, SpuriousWakeup, StopClear, history
<1>5. ASSUME NEW n \in Tasks, Pop(n) PROVE HandsFull' /\ ThreadsInOrder'
  <2>1. Head(queue) \in Tasks /\ Head(queue) # 0
    BY <1>5 DEF Pop, Tasks
  <2> QED
    BY <1>5, <2>1 DEF Pop, history, Tasks
<1>6. ASSUME NEW n \in Tasks,
             ThreadStart(n) \/ PopEmpty(n) \/ ScanReturns(n) \/ Finish(n) \/ Notify(n)
      PROVE  HandsFull' /\ ThreadsInOrder'
  BY <1>6 DEF ThreadStart, PopEmpty, ScanReturns, Finish, Notify, history, Tasks
<1>7. CASE UNCHANGED vars
  BY <1>3, <1>7 DEF vars, locals, history
<1> QED
  BY <1>2, <1>4, <1>5, <1>6, <1>7 DEF Next, AbilityStep, ThreadStep

(* They hold at the start. *)
LEMMA TypedInit == Init => Typed
<1>1. ASSUME Init PROVE TypeOK
  <2>1. activeThread \in 0 .. SizeMod - 1
    BY <1>1, ExecutorAssumption DEF Init
  <2>2. starts \in 0 .. MaxStarts /\ committed \in 0 .. MaxCommits
    BY <1>1, ExecutorAssumption DEF Init
  <2>3. thread \in [Tasks -> ThreadStates] /\ scanning \in [Tasks -> Tasks \cup {0}]
    BY <1>1 DEF Init, ThreadStates
  <2>4. queue \in Seq(Tasks)
    BY <1>1 DEF Init
  <2>5. ended \subseteq Tasks /\ dropped \subseteq Tasks
    BY <1>1 DEF Init
  <2>6. stopFlag \in BOOLEAN /\ isScanFinished \in BOOLEAN /\ ability \in AbilityStates
    BY <1>1 DEF Init, AbilityStates
  <2> QED
    BY <2>1, <2>2, <2>3, <2>4, <2>5, <2>6 DEF TypeOK
<1>2. Init => HandsFull /\ ThreadsInOrder
  BY DEF Init, HandsFull, ThreadsInOrder
<1> QED
  BY <1>1, <1>2 DEF Typed

(* Every reachable state is well typed: the queue holds tasks, the counter is a size_t, and  *)
(* each thread, each task and the ability are where the code can put them.                   *)
THEOREM TypeCorrect == Spec => []TypeOK
<1>1. Init => Typed
  BY TypedInit
<1>2. Typed => TypeOK
  BY DEF Typed
<1> QED
  BY <1>1, <1>2, TypedStep, PTL DEF Spec

-----------------------------------------------------------------------------

(* A thread that exists goes on existing, and the commits made so far stay made.  A step     *)
(* that makes a commit and does not refuse it creates the commit's own thread.               *)
LEMMA ThreadsGrow ==
    ASSUME Typed, [Next]_vars
    PROVE  /\ committed' \in {committed, committed + 1}
           /\ \A n \in Tasks : thread[n] # "none" => thread'[n] # "none"
           /\ Refused \subseteq Refused'
<1> USE DEF Typed, TypeOK, ThreadsInOrder, Refused, Committed, Tasks
<1>1. ASSUME Commit
      PROVE  /\ committed' = committed + 1
             /\ \A n \in Tasks : n # committed + 1 => thread'[n] = thread[n]
             /\ committed + 1 \in Tasks /\ thread[committed + 1] = "none"
  BY <1>1, ExecutorAssumption DEF Commit
<1>2. CASE ClientCommit \/ CommitBootScan
  <2>1. Commit
    BY <1>2 DEF ClientCommit, CommitBootScan
  <2>2. \A n \in Tasks : thread[n] # "none" => thread'[n] = thread[n]
    BY <1>1, <2>1
  <2>3. Refused \subseteq Refused'
    BY <1>1, <2>1, ExecutorAssumption
  <2> QED
    BY <1>1, <2>1, <2>2, <2>3
<1>3. CASE \/ OnStart \/ WaitForReturns \/ StopFlag \/ StopCheck \/ StopWait
           \/ SpuriousWakeup \/ StopClear
  BY <1>3 DEF OnStart, WaitForReturns, StopFlag, StopCheck, StopWait, SpuriousWakeup, StopClear,
              locals, history
<1>4. ASSUME NEW n \in Tasks, ThreadStep(n)
      PROVE  /\ committed' = committed
             /\ thread[n] # "none" /\ thread'[n] # "none"
             /\ \A m \in Tasks : m # n => thread'[m] = thread[m]
  BY <1>4 DEF ThreadStep, ThreadStart, Pop, PopEmpty, ScanReturns, Finish, Notify, history
<1>5. CASE \E n \in Tasks : ThreadStep(n)
  <2>1. PICK n \in Tasks : ThreadStep(n)
    BY <1>5
  <2>2. /\ committed' = committed
        /\ thread[n] # "none" /\ thread'[n] # "none"
        /\ \A m \in Tasks : m # n => thread'[m] = thread[m]
    BY <1>4, <2>1
  <2>3. \A m \in Tasks : (thread[m] # "none") <=> (thread'[m] # "none")
    BY <2>2
  <2>4. Refused' = Refused
    BY <2>2, <2>3, ExecutorAssumption
  <2> QED
    BY <2>2, <2>3, <2>4
<1>6. CASE UNCHANGED vars
  BY <1>6 DEF vars, locals, history
<1> QED
  BY <1>2, <1>3, <1>5, <1>6 DEF Next, AbilityStep

(* While at most MAX_THREAD tasks were committed, no operation on the counter wraps. *)
LEMMA CounterStep == Typed /\ CounterCoversQueue /\ [Next]_vars => CounterCoversQueue'
<1> SUFFICES ASSUME Typed, CounterCoversQueue, [Next]_vars, committed' <= MAX_THREAD
             PROVE  Len(queue') <= activeThread' /\ activeThread' <= committed'
  BY DEF CounterCoversQueue
<1> USE ExecutorAssumption DEF Typed, TypeOK
<1>1. committed \in Nat /\ committed' \in {committed, committed + 1}
  BY ThreadsGrow
<1>2. Len(queue) <= activeThread /\ activeThread <= committed /\ Len(queue) \in Nat
  <2>1. committed <= MAX_THREAD
    BY <1>1
  <2> QED
    BY <2>1 DEF CounterCoversQueue
<1>3. CASE Commit
  <2>1. activeThread < MAX_THREAD
    BY <1>2, <1>3 DEF Commit
  <2>2. activeThread + 1 \in 0 .. SizeMod - 1
    BY <2>1
  <2>3. (activeThread + 1) % SizeMod = activeThread + 1
    BY <2>2, ModSmall
  <2>4. Len(queue') = Len(queue) + 1
    BY <1>3 DEF Commit, Tasks
  <2> QED
    BY <1>2, <1>3, <2>1, <2>3, <2>4 DEF Commit, ThreadToSpare
<1>4. CASE ClientCommit \/ CommitBootScan
  BY <1>3, <1>4 DEF ClientCommit, CommitBootScan
<1>5. ASSUME NEW n \in Tasks, Pop(n)
      PROVE  Len(queue') <= activeThread' /\ activeThread' <= committed'
  <2>1. Len(queue) >= 1 /\ Len(queue') = Len(queue) - 1
    BY <1>5 DEF Pop, QueueAfterPop
  <2>2. activeThread - 1 \in 0 .. SizeMod - 1
    BY <1>2, <2>1
  <2>3. (activeThread - 1) % SizeMod = activeThread - 1
    BY <2>2, ModSmall
  <2> QED
    BY <1>2, <1>5, <2>1, <2>3 DEF Pop, CountAfterPop, history
<1>6. CASE StopClear
  BY <1>2, <1>6 DEF StopClear
<1>7. ASSUME UNCHANGED <<queue, activeThread, committed>>
      PROVE  Len(queue') <= activeThread' /\ activeThread' <= committed'
  BY <1>2, <1>7
<1>8. CASE OnStart \/ WaitForReturns \/ StopFlag \/ StopCheck \/ StopWait \/ SpuriousWakeup
  BY <1>7, <1>8 DEF OnStart, WaitForReturns, StopFlag, StopCheck, StopWait, SpuriousWakeup, history
<1>9. ASSUME NEW n \in Tasks,
             ThreadStart(n) \/ PopEmpty(n) \/ ScanReturns(n) \/ Finish(n) \/ Notify(n)
      PROVE  Len(queue') <= activeThread' /\ activeThread' <= committed'
  BY <1>7, <1>9 DEF ThreadStart, PopEmpty, ScanReturns, Finish, Notify, history
<1>10. CASE UNCHANGED vars
  BY <1>7, <1>10 DEF vars, history
<1> QED
  BY <1>4, <1>5, <1>6, <1>8, <1>9, <1>10 DEF Next, AbilityStep, ThreadStep

(* So none of these commits is refused a thread. *)
LEMMA EarlyStep ==
    Typed /\ CounterCoversQueue /\ EarlyCommitsGetThreads /\ [Next]_vars => EarlyCommitsGetThreads'
<1> SUFFICES ASSUME Typed, CounterCoversQueue, EarlyCommitsGetThreads, [Next]_vars,
                    committed' <= MAX_THREAD
             PROVE  Refused' = {}
  BY DEF EarlyCommitsGetThreads
<1>1. committed \in Nat /\ committed' \in {committed, committed + 1}
  BY ThreadsGrow DEF Typed, TypeOK
<1>2. committed <= MAX_THREAD
  BY <1>1, ExecutorAssumption
<1>3. \A n \in 1 .. committed : n \in Tasks /\ thread[n] # "none"
  BY <1>2, ExecutorAssumption
     DEF EarlyCommitsGetThreads, Refused, Committed, Typed, TypeOK, Tasks
<1>4. \A n \in 1 .. committed : thread'[n] # "none"
  BY <1>3, ThreadsGrow
<1>5. CASE committed' = committed
  BY <1>4, <1>5 DEF Refused, Committed
<1>6. CASE committed' = committed + 1
  <2>1. Commit
    BY <1>1, <1>6
       DEF Next, AbilityStep, ThreadStep, vars, locals, history, ClientCommit, OnStart,
           CommitBootScan, WaitForReturns, StopFlag, StopCheck, StopWait, SpuriousWakeup,
           StopClear, ThreadStart, Pop, PopEmpty, ScanReturns, Finish, Notify
  <2>2. activeThread < MAX_THREAD
    BY <1>1, <1>2, <1>6, ExecutorAssumption DEF CounterCoversQueue, Typed, TypeOK
  <2>3. committed + 1 \in Tasks
    BY <1>1, <2>1, ExecutorAssumption DEF Commit, Typed, TypeOK, Tasks
  <2>4. thread'[committed + 1] = "created"
    BY <2>1, <2>2, <2>3 DEF Commit, ThreadToSpare, Typed, TypeOK
  <2> QED
    BY <1>1, <1>4, <1>6, <2>4 DEF Refused, Committed
<1> QED
  BY <1>1, <1>5, <1>6

(* A thread that will look at the queue goes on to look, except one that finds it empty. *)
LEMMA ServedStep == Typed /\ QueueServed /\ [Next]_vars => QueueServed'
<1> SUFFICES ASSUME Typed, QueueServed, [Next]_vars, Refused' = {}, queue' # <<>>
             PROVE  \E n \in Tasks : WillLook(n)'
  BY DEF QueueServed
<1> USE DEF Typed, TypeOK, WillLook
<1>1. Refused = {}
  BY ThreadsGrow
<1>2. ASSUME queue # <<>> PROVE \E n \in Tasks : WillLook(n)
  BY <1>1, <1>2 DEF QueueServed
<1>3. ASSUME Commit PROVE \E n \in Tasks : WillLook(n)'
  <2>1. committed + 1 \in Tasks /\ committed + 1 \in Committed'
    BY <1>3, ExecutorAssumption DEF Commit, Tasks, Committed
  <2>2. thread'[committed + 1] # "none"
    BY <2>1 DEF Refused
  <2>3. thread[committed + 1] = "none"
    BY <2>1 DEF ThreadsInOrder
  <2>4. thread'[committed + 1] = "created"
    BY <1>3, <2>1, <2>2, <2>3 DEF Commit
  <2> QED
    BY <2>1, <2>4
<1>4. CASE ClientCommit \/ CommitBootScan
  BY <1>3, <1>4 DEF ClientCommit, CommitBootScan
<1>5. ASSUME UNCHANGED <<queue, thread>> PROVE \E n \in Tasks : WillLook(n)'
  BY <1>2, <1>5
<1>6. CASE OnStart \/ WaitForReturns \/ StopFlag \/ StopCheck \/ StopWait \/ SpuriousWakeup
  BY <1>5, <1>6 DEF OnStart, WaitForReturns, StopFlag, StopCheck, StopWait, SpuriousWakeup, locals
<1>7. ASSUME NEW n \in Tasks, ThreadStart(n) \/ Pop(n) \/ ScanReturns(n)
      PROVE  \E m \in Tasks : WillLook(m)'
  BY <1>7 DEF ThreadStart, Pop, ScanReturns
<1>8. ASSUME NEW n \in Tasks, Finish(n) \/ Notify(n) PROVE \E m \in Tasks : WillLook(m)'
  <2>1. queue' = queue /\ ~WillLook(n) /\ \A m \in Tasks : m # n => thread'[m] = thread[m]
    BY <1>8 DEF Finish, Notify
  <2> QED
    BY <1>2, <2>1
<1>9. CASE StopClear
  BY <1>9 DEF StopClear
<1>10. ASSUME NEW n \in Tasks, PopEmpty(n) PROVE FALSE
  BY <1>10 DEF PopEmpty
<1>11. CASE UNCHANGED vars
  BY <1>5, <1>11 DEF vars, locals
<1> QED
  BY <1>4, <1>6, <1>7, <1>8, <1>9, <1>10, <1>11 DEF Next, AbilityStep, ThreadStep

(* isScanFinished is false from a thread's first statement until a thread leaves. *)
LEMMA FinishedStep == Typed /\ UnfinishedMeansRunning /\ [Next]_vars => UnfinishedMeansRunning'
<1> DEFINE Running(n) == thread[n] \in {"loop", "scanning", "leaving"}
<1> SUFFICES ASSUME Typed, UnfinishedMeansRunning, [Next]_vars, ~isScanFinished'
             PROVE  \E n \in Tasks : Running(n)'
  BY DEF UnfinishedMeansRunning
<1> USE DEF Typed, TypeOK
<1>1. ASSUME ~isScanFinished, \A n \in Tasks : Running(n) => Running(n)'
      PROVE  \E n \in Tasks : Running(n)'
  BY <1>1 DEF UnfinishedMeansRunning
<1>2. CASE ClientCommit \/ CommitBootScan
  <2>1. committed + 1 \in Tasks /\ thread[committed + 1] = "none"
    BY <1>2, ExecutorAssumption DEF ClientCommit, CommitBootScan, Commit, Tasks, ThreadsInOrder
  <2>2. isScanFinished' = isScanFinished
    BY <1>2 DEF ClientCommit, CommitBootScan
  <2>3. \A n \in Tasks : n # committed + 1 => thread'[n] = thread[n]
    BY <1>2, <2>1 DEF ClientCommit, CommitBootScan, Commit
  <2> QED
    BY <1>1, <2>1, <2>2, <2>3
<1>3. CASE \/ OnStart \/ WaitForReturns \/ StopFlag \/ StopCheck \/ StopWait
           \/ SpuriousWakeup \/ StopClear \/ UNCHANGED vars
  BY <1>1, <1>3 DEF OnStart, WaitForReturns, StopFlag, StopCheck, StopWait, SpuriousWakeup,
                    StopClear, vars, locals
<1>4. ASSUME NEW n \in Tasks, ThreadStart(n) \/ Pop(n) \/ PopEmpty(n) \/ ScanReturns(n)
      PROVE  \E m \in Tasks : Running(m)'
  BY <1>4 DEF ThreadStart, Pop, PopEmpty, ScanReturns
<1>5. ASSUME NEW n \in Tasks, Finish(n) PROVE FALSE
  BY <1>5 DEF Finish
<1>6. ASSUME NEW n \in Tasks, Notify(n) PROVE \E m \in Tasks : Running(m)'
  <2>1. ~Running(n) /\ isScanFinished' = isScanFinished
    BY <1>6 DEF Notify
  <2>2. \A m \in Tasks : m # n => thread'[m] = thread[m]
    BY <1>6 DEF Notify
  <2> QED
    BY <1>1, <2>1, <2>2
<1> QED
  BY <1>2, <1>3, <1>4, <1>5, <1>6 DEF Next, AbilityStep, ThreadStep

-----------------------------------------------------------------------------

(* The invariant behind the theorems: what the counter, the threads and isScanFinished mean *)
(* needs the types and each other.                                                          *)
IInv ==
    /\ Typed
    /\ CounterCoversQueue
    /\ EarlyCommitsGetThreads
    /\ QueueServed
    /\ UnfinishedMeansRunning

(* IInv holds throughout. *)
LEMMA Inductive == Spec => []IInv
<1>1. Init => IInv
  <2>1. Init => Typed
    BY TypedInit
  <2>2. Init => CounterCoversQueue /\ EarlyCommitsGetThreads /\ QueueServed
    BY DEF Init, CounterCoversQueue, EarlyCommitsGetThreads, QueueServed, Refused, Committed
  <2>3. Init => UnfinishedMeansRunning
    BY DEF Init, UnfinishedMeansRunning
  <2> QED
    BY <2>1, <2>2, <2>3 DEF IInv
<1>2. IInv /\ [Next]_vars => IInv'
  BY TypedStep, CounterStep, EarlyStep, ServedStep, FinishedStep DEF IInv
<1> QED
  BY <1>1, <1>2, PTL DEF Spec

(* The counter never wraps and covers the queue while at most MAX_THREAD tasks were          *)
(* committed in the process, for any MAX_THREAD below the width of size_t.                   *)
THEOREM CounterCovers == Spec => []CounterCoversQueue
BY Inductive, PTL DEF IInv

(* The first MAX_THREAD commits of a process each get a thread. *)
THEOREM EarlyCommitsServed == Spec => []EarlyCommitsGetThreads
BY Inductive, PTL DEF IInv

(* No task is stranded in the queue unless some commit was refused a thread. *)
THEOREM NoStrandedTask == Spec => []QueueServed
BY Inductive, PTL DEF IInv

(* A Stop that decides to wait has a thread to wait for. *)
THEOREM StopHasSomeoneToWaitFor == Spec => []UnfinishedMeansRunning
BY Inductive, PTL DEF IInv

-----------------------------------------------------------------------------
(* Where the tasks are *)

(* A set has as many members as one whose members it names one by one. *)
LEMMA OneByOne ==
    ASSUME NEW S, IsFiniteSet(S), NEW T, NEW f \in [S -> T],
           \A x, y \in S : f[x] = f[y] => x = y,
           \A t \in T : \E x \in S : f[x] = t
    PROVE  IsFiniteSet(T) /\ Cardinality(T) = Cardinality(S)
<1>1. f \in Bijection(S, T)
  BY DEF Bijection, Injection, Surjection, IsInjective
<1> QED
  BY <1>1, FS_Bijection DEF ExistsBijection

LEMMA ApartCount ==
    ASSUME NEW S, NEW T, IsFiniteSet(S), IsFiniteSet(T), S \cap T = {}
    PROVE  IsFiniteSet(S \cup T) /\ Cardinality(S \cup T) = Cardinality(S) + Cardinality(T)
<1>1. /\ IsFiniteSet(S \cup T)
      /\ Cardinality(S \cup T) = Cardinality(S) + Cardinality(T) - Cardinality(S \cap T)
  BY FS_Union
<1>2. Cardinality(S \cap T) = 0 /\ Cardinality(S) \in Nat /\ Cardinality(T) \in Nat
  BY FS_EmptySet, FS_CardinalityType
<1> QED
  BY <1>1, <1>2

(* A committed task is in one place, and there once. *)
Apart ==
    /\ Committed = Queued \cup Held \cup ended \cup dropped
    /\ \A i, j \in 1 .. Len(queue) : queue[i] = queue[j] => i = j
    /\ \A n, m \in Working : scanning[n] = scanning[m] => n = m
    /\ Queued \cap (Held \cup ended \cup dropped) = {}
    /\ Held \cap (ended \cup dropped) = {}
    /\ ended \cap dropped = {}

LEMMA TasksFinite == IsFiniteSet(Tasks) /\ \A S \in SUBSET Tasks : IsFiniteSet(S) /\ Cardinality(S) \in Nat
<1>1. IsFiniteSet(Tasks)
  BY FS_Interval, ExecutorAssumption DEF Tasks
<1>2. ASSUME NEW S \in SUBSET Tasks PROVE IsFiniteSet(S) /\ Cardinality(S) \in Nat
  <2>1. IsFiniteSet(S)
    BY <1>1, FS_Subset
  <2> QED
    BY <2>1, FS_CardinalityType
<1> QED
  BY <1>1, <1>2

LEMMA QueuedCount ==
    ASSUME Typed, Apart
    PROVE  IsFiniteSet(Queued) /\ Cardinality(Queued) = Len(queue)
<1> DEFINE S == 1 .. Len(queue)
           f == [i \in S |-> queue[i]]
<1>1. Len(queue) \in Nat
  BY DEF Typed, TypeOK
<1>2. IsFiniteSet(S) /\ Cardinality(S) = Len(queue)
  <2>1. \A b \in Int : IsFiniteSet(1 .. b) /\ Cardinality(1 .. b) = IF 1 > b THEN 0 ELSE b - 1 + 1
    BY FS_Interval
  <2>2. IsFiniteSet(S) /\ Cardinality(S) = IF 1 > Len(queue) THEN 0 ELSE Len(queue) - 1 + 1
    BY <1>1, <2>1
  <2> HIDE DEF S
  <2> QED
    BY <1>1, <2>2
<1>3. /\ f \in [S -> Queued]
      /\ \A x, y \in S : f[x] = f[y] => x = y
      /\ \A t \in Queued : \E x \in S : f[x] = t
  BY DEF Queued, Apart
<1> HIDE DEF S, f
<1> QED
  BY <1>2, <1>3, OneByOne

LEMMA HeldCount ==
    ASSUME Typed, Apart
    PROVE  IsFiniteSet(Held) /\ Cardinality(Held) = Cardinality(Working)
<1> DEFINE f == [n \in Working |-> scanning[n]]
<1>1. IsFiniteSet(Working)
  BY TasksFinite DEF Working
<1>2. /\ f \in [Working -> Held]
      /\ \A x, y \in Working : f[x] = f[y] => x = y
      /\ \A t \in Held : \E x \in Working : f[x] = t
  BY DEF Held, Apart
<1> HIDE DEF f
<1> QED
  BY <1>1, <1>2, OneByOne

LEMMA Accounted ==
    ASSUME Typed, Apart
    PROVE  TaskAccounting
<1>1. IsFiniteSet(Queued) /\ Cardinality(Queued) = Len(queue) /\ IsFiniteSet(Held) /\ Cardinality(Held) = Cardinality(Working)
  BY QueuedCount, HeldCount
<1>2. IsFiniteSet(ended) /\ IsFiniteSet(dropped)
  BY TasksFinite DEF Typed, TypeOK
<1>3. /\ IsFiniteSet(Queued \cup Held)
      /\ Cardinality(Queued \cup Held) = Cardinality(Queued) + Cardinality(Held)
  <2>1. Queued \cap Held = {}
    BY DEF Apart
  <2> QED
    BY <1>1, <2>1, ApartCount
<1>4. /\ IsFiniteSet(Queued \cup Held \cup ended)
      /\ Cardinality(Queued \cup Held \cup ended) = Cardinality(Queued \cup Held) + Cardinality(ended)
  <2>1. (Queued \cup Held) \cap ended = {}
    BY DEF Apart
  <2> QED
    BY <1>2, <1>3, <2>1, ApartCount
<1>5. Cardinality(Queued \cup Held \cup ended \cup dropped) =
        Cardinality(Queued \cup Held \cup ended) + Cardinality(dropped)
  <2>1. (Queued \cup Held \cup ended) \cap dropped = {}
    BY DEF Apart
  <2> QED
    BY <1>2, <1>4, <2>1, ApartCount
<1>6. Committed = Queued \cup Held \cup ended \cup dropped
  BY DEF Apart
<1>7. Cardinality(Committed) = Len(queue) + Cardinality(Working) + Cardinality(ended) + Cardinality(dropped)
  BY <1>1, <1>3, <1>4, <1>5, <1>6
<1> QED
  BY <1>6, <1>7 DEF TaskAccounting

LEMMA ApartStep ==
    ASSUME Typed, Apart, [Next]_vars
    PROVE  Apart'
<1> USE DEF Typed, TypeOK
<1>1. ASSUME Commit, UNCHANGED <<scanning, ended, dropped>> PROVE Apart'
  <2> DEFINE t == committed + 1
  <2>1. t \in Tasks /\ thread[t] = "none" /\ Committed' = Committed \cup {t} /\ t \notin Committed
    BY <1>1, ExecutorAssumption DEF Commit, Tasks, ThreadsInOrder, Committed
  <2>2. queue' = Append(queue, t) /\ Len(queue) \in Nat
    BY <1>1 DEF Commit
  <2>3. \A n \in Tasks : n # t => thread'[n] = thread[n]
    BY <1>1, <2>1 DEF Commit
  <2>4. thread'[t] # "scanning"
    BY <1>1, <2>1 DEF Commit
  <2>5. Working' = Working
    BY <2>1, <2>3, <2>4 DEF Working
  <2>6. Held' = Held
    BY <1>1, <2>5 DEF Held
  <2> HIDE DEF t
  <2>7. Len(queue') = Len(queue) + 1 /\ queue'[Len(queue) + 1] = t
        /\ \A i \in 1 .. Len(queue) : queue'[i] = queue[i]
    BY <2>1, <2>2
  <2>8. Queued' = Queued \cup {t}
    BY <2>2, <2>7 DEF Queued
  <2>9. t \notin Queued \cup Held \cup ended \cup dropped
    BY <2>1 DEF Apart
  <2>10. \A i, j \in 1 .. Len(queue') : queue'[i] = queue'[j] => i = j
    <3>1. \A i \in 1 .. Len(queue) : queue[i] # t
      BY <2>9 DEF Queued
    <3>2. \A i \in 1 .. Len(queue') : i \in 1 .. Len(queue) \/ i = Len(queue) + 1
      BY <2>2, <2>7
    <3> QED
      BY <2>7, <3>1, <3>2 DEF Apart
  <2>11. ended' = ended /\ dropped' = dropped /\ scanning' = scanning
    BY <1>1
  <2> QED
    BY <2>1, <2>5, <2>6, <2>8, <2>9, <2>10, <2>11 DEF Apart
<1>2. CASE ClientCommit \/ CommitBootScan
  BY <1>1, <1>2 DEF ClientCommit, CommitBootScan
<1>3. ASSUME UNCHANGED <<queue, scanning, committed, ended, dropped>>, Working' = Working PROVE Apart'
  <2>1. Committed' = Committed /\ Queued' = Queued /\ Held' = Held
    BY <1>3 DEF Committed, Queued, Held
  <2> QED
    BY <1>3, <2>1 DEF Apart
<1>4. CASE OnStart \/ WaitForReturns \/ StopFlag \/ StopCheck \/ StopWait \/ SpuriousWakeup \/ UNCHANGED vars
  <2>1. UNCHANGED <<queue, thread, scanning, committed, ended, dropped>>
    BY <1>4 DEF OnStart, WaitForReturns, StopFlag, StopCheck, StopWait, SpuriousWakeup, vars, locals, history
  <2> QED
    BY <1>3, <2>1 DEF Working
<1>5. CASE StopClear
  <2>1. /\ queue' = <<>> /\ dropped' = dropped \cup Queued /\ UNCHANGED <<thread, scanning, committed, ended>>
    BY <1>5 DEF StopClear, locals, Queued
  <2>2. Committed' = Committed /\ Queued' = {} /\ Working' = Working /\ Held' = Held
    BY <2>1 DEF Committed, Queued, Working, Held
  <2>3. \A i, j \in 1 .. Len(queue') : queue'[i] = queue'[j] => i = j
    BY <2>1
  <2> QED
    BY <2>1, <2>2, <2>3 DEF Apart
<1>6. ASSUME NEW n \in Tasks, ThreadStart(n) \/ PopEmpty(n) \/ Finish(n) \/ Notify(n) PROVE Apart'
  <2>1. UNCHANGED <<queue, scanning, committed, ended, dropped>>
    BY <1>6 DEF ThreadStart, PopEmpty, Finish, Notify, history
  <2>2. Working' = Working
    BY <1>6 DEF ThreadStart, PopEmpty, Finish, Notify, Working
  <2> QED
    BY <1>3, <2>1, <2>2
<1>7. ASSUME NEW n \in Tasks, Pop(n) PROVE Apart'
  <2>1. /\ queue # <<>> /\ queue' = Tail(queue) /\ n \notin Working
        /\ Working' = Working \cup {n}
        /\ scanning'[n] = Head(queue) /\ \A m \in Working : scanning'[m] = scanning[m]
        /\ UNCHANGED <<committed, ended, dropped>>
    BY <1>7 DEF Pop, QueueAfterPop, Working, history
  <2>2. /\ Len(queue) \in Nat /\ Len(queue) >= 1 /\ Head(queue) = queue[1] /\ Len(queue') = Len(queue) - 1
        /\ \A i \in 1 .. Len(queue') : i + 1 \in 1 .. Len(queue) /\ i + 1 # 1 /\ queue'[i] = queue[i + 1]
        /\ \A i \in 1 .. Len(queue) : i # 1 => i - 1 \in 1 .. Len(queue') /\ queue'[i - 1] = queue[i]
    BY <2>1
  <2>3. Held' = Held \cup {Head(queue)}
    BY <2>1 DEF Held
  <2>4. Head(queue) \in Queued
    BY <2>2 DEF Queued
  <2>5. Queued' = Queued \ {Head(queue)}
    <3>1. \A q \in Queued' : q \in Queued /\ q # queue[1]
      BY <2>2 DEF Queued, Apart
    <3>2. \A q \in Queued : q # queue[1] => q \in Queued'
      BY <2>2 DEF Queued
    <3>3. \A q \in Queued' : q # queue[1]
      BY <3>1
    <3> QED
      BY <2>2, <3>1, <3>2, <3>3
  <2>6. \A i, j \in 1 .. Len(queue') : queue'[i] = queue'[j] => i = j
    BY <2>2 DEF Apart
  <2>7. \A m, q \in Working' : scanning'[m] = scanning'[q] => m = q
    <3>1. \A m \in Working : scanning[m] \in Held
      BY DEF Held
    <3>2. Head(queue) \notin Held
      BY <2>4 DEF Apart
    <3> QED
      BY <2>1, <3>1, <3>2 DEF Apart
  <2>8. Committed' = Committed
    BY <2>1 DEF Committed
  <2> QED
    BY <2>1, <2>3, <2>4, <2>5, <2>6, <2>7, <2>8 DEF Apart
<1>8. ASSUME NEW n \in Tasks, ScanReturns(n) PROVE Apart'
  <2>1. /\ n \in Working /\ Working' = Working \ {n}
        /\ \A m \in Working' : scanning'[m] = scanning[m]
        /\ ended' = ended \cup {scanning[n]}
        /\ UNCHANGED <<queue, committed, dropped>>
    BY <1>8 DEF ScanReturns, Working
  <2>2. scanning[n] \in Held
    BY <2>1 DEF Held
  <2>3. Held' = Held \ {scanning[n]}
    <3>1. \A h \in Held' : h \in Held /\ h # scanning[n]
      BY <2>1 DEF Held, Apart
    <3>2. \A h \in Held : h # scanning[n] => h \in Held'
      BY <2>1 DEF Held
    <3> QED
      BY <3>1, <3>2
  <2>4. Committed' = Committed /\ Queued' = Queued
    BY <2>1 DEF Committed, Queued
  <2>5. \A m, q \in Working' : scanning'[m] = scanning'[q] => m = q
    BY <2>1 DEF Apart
  <2> QED
    BY <2>1, <2>2, <2>3, <2>4, <2>5 DEF Apart
<1> QED
  BY <1>2, <1>4, <1>5, <1>6, <1>7, <1>8 DEF Next, AbilityStep, ThreadStep

LEMMA InitApart ==
    ASSUME Init
    PROVE  Apart
<1>1. queue = <<>> /\ committed = 0 /\ ended = {} /\ dropped = {} /\ Working = {}
  BY DEF Init, Working
<1>2. Committed = {} /\ Queued = {} /\ Held = {}
  BY <1>1 DEF Committed, Queued, Held
<1> QED
  BY <1>1, <1>2 DEF Apart

(* Every committed task is in one place: in the queue, with one thread, ended or dropped,    *)
(* and there once, whatever the threads, Commit and Stop do to the queue.                    *)
THEOREM TasksAccounted == Spec => []TaskAccounting
<1>1. Init => Typed /\ Apart
  BY TypedInit, InitApart
<1>2. Typed /\ Apart /\ [Next]_vars => Typed' /\ Apart'
  BY TypedStep, ApartStep
<1>3. Typed /\ Apart => TaskAccounting
  BY Accounted
<1> QED
  BY <1>1, <1>2, <1>3, PTL DEF Spec

(* A thread takes only tasks of the queue: none that ended or was dropped is scanned again.  *)
THEOREM NoTaskAgain == Spec => NoTaskComesBack
<1> DEFINE Forward ==
        /\ ended \subseteq ended'
        /\ dropped \subseteq dropped'
        /\ Held' \cap (ended \cup dropped) = {}
<1>1. Init => Typed /\ Apart
  BY TypedInit, InitApart
<1>2. Typed /\ Apart /\ [Next]_vars => Typed' /\ Apart'
  BY TypedStep, ApartStep
<1>3. Typed /\ Apart /\ Apart' /\ [Next]_vars => [Forward]_vars
  <2> SUFFICES ASSUME Apart', [Next]_vars PROVE Forward
    BY Zenon
  <2>1. ended \subseteq ended' /\ dropped \subseteq dropped'
    <3>1. CASE ClientCommit \/ AbilityStep
      BY <3>1 DEF ClientCommit, AbilityStep, OnStart, CommitBootScan, WaitForReturns, StopFlag, StopCheck,
          StopWait, SpuriousWakeup, StopClear, history
    <3>2. CASE \E n \in Tasks : ThreadStep(n)
      BY <3>2 DEF ThreadStep, ThreadStart, Pop, PopEmpty, ScanReturns, Finish, Notify, history
    <3>3. CASE UNCHANGED vars
      BY <3>3 DEF vars, history
    <3> QED
      BY <3>1, <3>2, <3>3 DEF Next
  <2> QED
    BY <2>1 DEF Apart
<1> HIDE DEF Forward
<1>4. Spec => [][Forward]_vars
  BY <1>1, <1>2, <1>3, PTL DEF Spec
<1> QED
  BY <1>4 DEF NoTaskComesBack, Forward
-----------------------------------------------------------------------------
(* What the counter counts *)

LEMMA ModUnique ==
    ASSUME NEW m \in Nat, NEW r \in 0 .. m - 1, NEW s \in 0 .. m - 1, NEW d \in Int, r - s = m * d
    PROVE  r = s
<1>1. CASE d >= 1
  <2>1. m * d >= m
    BY <1>1
  <2> QED
    BY <2>1
<1>2. CASE d <= -1
  <2>1. m * d <= -m
    BY <1>2
  <2> QED
    BY <2>1
<1>3. CASE d = 0
  BY <1>3
<1> QED
  BY <1>1, <1>2, <1>3

LEMMA Quotient ==
    ASSUME NEW m \in Nat, m > 0, NEW x \in Int
    PROVE  \E q \in Int : \E r \in 0 .. m - 1 : x = m * q + r /\ x % m = r
<1>1. x \div m \in Int /\ x % m \in 0 .. m - 1 /\ x = m * (x \div m) + (x % m)
  BY SMT
<1> QED
  BY <1>1

(* The remainder of a sum is that of the sum of a remainder. *)
LEMMA ModAgain ==
    ASSUME NEW m \in Nat, m > 0, NEW x \in Int, NEW y \in Int
    PROVE  ((x % m) + y) % m = (x + y) % m
<1>1. PICK q \in Int : \E r \in 0 .. m - 1 : x = m * q + r /\ x % m = r
  BY Quotient
<1>2. PICK r \in 0 .. m - 1 : x = m * q + r /\ x % m = r
  BY <1>1
<1> DEFINE u == r + y  v == x + y
<1>3. u \in Int /\ v \in Int /\ v - u = m * q
  BY <1>2
<1> HIDE DEF u, v
<1>4. PICK p \in Int : \E s \in 0 .. m - 1 : u = m * p + s /\ u % m = s
  BY <1>3, Quotient
<1>5. PICK s \in 0 .. m - 1 : u = m * p + s /\ u % m = s
  BY <1>4
<1>6. PICK o \in Int : \E t \in 0 .. m - 1 : v = m * o + t /\ v % m = t
  BY <1>3, Quotient
<1>7. PICK t \in 0 .. m - 1 : v = m * o + t /\ v % m = t
  BY <1>6
<1>8. s - t = m * (o - q - p)
  BY <1>3, <1>5, <1>7
<1>9. o - q - p \in Int
  OBVIOUS
<1>10. s = t
  BY <1>8, <1>9, ModUnique
<1> QED
  BY <1>2, <1>5, <1>7, <1>10 DEF u, v

LEMMA MeaningStep ==
    ASSUME Typed, Apart, CounterMeaning, [Next]_vars
    PROVE  CounterMeaning'
<1> DEFINE len == Len(queue)  lost == Cardinality(dropped)  refused == Cardinality(Refused)
<1>1. len \in Nat /\ lost \in Nat /\ refused \in Nat /\ IsFiniteSet(Refused) /\ IsFiniteSet(dropped)
  <2>1. Refused \subseteq Tasks /\ dropped \subseteq Tasks
    BY ExecutorAssumption DEF Refused, Committed, Typed, TypeOK, Tasks
  <2> QED
    BY <2>1, TasksFinite DEF Typed, TypeOK
<1>2. activeThread = (len + lost - refused) % SizeMod /\ SizeMod \in Nat /\ SizeMod > 0
  BY ExecutorAssumption DEF CounterMeaning
<1>3. ASSUME Commit, dropped' = dropped PROVE CounterMeaning'
  <2> DEFINE t == committed + 1
  <2>1. t \in Tasks /\ thread[t] = "none" /\ Committed' = Committed \cup {t} /\ t \notin Committed
    BY <1>3, ExecutorAssumption DEF Commit, Tasks, ThreadsInOrder, Committed, Typed, TypeOK
  <2>2. Len(queue') = len + 1
    BY <1>3 DEF Commit, Typed, TypeOK
  <2>3. CASE ThreadToSpare
    <3>1. /\ activeThread' = (activeThread + 1) % SizeMod
          /\ thread'[t] # "none" /\ \A n \in Tasks : n # t => thread'[n] = thread[n]
      BY <1>3, <2>1, <2>3 DEF Commit, Typed, TypeOK
    <3>2. Refused' = Refused
      <4>1. \A n \in Committed : n \in Tasks /\ n # t
        BY <2>1, ExecutorAssumption DEF Committed, Typed, TypeOK, Tasks
      <4> QED
        BY <2>1, <3>1, <4>1 DEF Refused
    <3>3. (activeThread + 1) % SizeMod = ((len + lost - refused) + 1) % SizeMod
      <4> DEFINE sum == len + lost - refused
      <4>1. sum \in Int /\ activeThread = sum % SizeMod
        BY <1>1, <1>2
      <4> HIDE DEF sum
      <4>2. 1 \in Int
        OBVIOUS
      <4>3. ((sum % SizeMod) + 1) % SizeMod = (sum + 1) % SizeMod
        BY <1>2, <4>1, <4>2, ModAgain, Zenon
      <4> QED
        BY <4>1, <4>3, Zenon DEF sum
    <3>4. (len + lost - refused) + 1 = Len(queue') + Cardinality(dropped') - Cardinality(Refused')
      BY <1>1, <1>3, <2>2, <3>2
    <3> QED
      BY <3>1, <3>3, <3>4 DEF CounterMeaning
  <2>4. CASE ~ThreadToSpare
    <3>1. activeThread' = activeThread /\ thread' = thread
      BY <1>3, <2>4 DEF Commit
    <3>2. Refused' = Refused \cup {t} /\ t \notin Refused
      BY <2>1, <3>1 DEF Refused
    <3>3. Cardinality(Refused') = refused + 1
      BY <1>1, <3>2, FS_AddElement
    <3>4. len + lost - refused = Len(queue') + Cardinality(dropped') - Cardinality(Refused')
      BY <1>1, <1>3, <2>2, <3>3
    <3> QED
      BY <1>2, <3>1, <3>4 DEF CounterMeaning
  <2> QED
    BY <2>3, <2>4
<1>4. CASE ClientCommit \/ CommitBootScan
  BY <1>3, <1>4 DEF ClientCommit, CommitBootScan
<1>5. ASSUME UNCHANGED <<queue, activeThread, committed, dropped>>,
             \A n \in Tasks : thread[n] = "none" <=> thread'[n] = "none"
      PROVE  CounterMeaning'
  <2>1. Refused' = Refused
    BY <1>5, ExecutorAssumption DEF Refused, Committed, Typed, TypeOK, Tasks
  <2> QED
    BY <1>5, <2>1 DEF CounterMeaning
<1>6. CASE OnStart \/ WaitForReturns \/ StopFlag \/ StopCheck \/ StopWait \/ SpuriousWakeup \/ UNCHANGED vars
  <2>1. UNCHANGED <<queue, activeThread, thread, committed, dropped>>
    BY <1>6 DEF OnStart, WaitForReturns, StopFlag, StopCheck, StopWait, SpuriousWakeup, vars, locals, history
  <2> QED
    BY <1>5, <2>1
<1>7. ASSUME NEW n \in Tasks, ThreadStart(n) \/ PopEmpty(n) \/ ScanReturns(n) \/ Finish(n) \/ Notify(n)
      PROVE  CounterMeaning'
  <2>1. /\ UNCHANGED <<queue, activeThread, committed, dropped>>
        /\ \A m \in Tasks : thread[m] = "none" <=> thread'[m] = "none"
    BY <1>7 DEF ThreadStart, PopEmpty, ScanReturns, Finish, Notify, history, Typed, TypeOK
  <2> QED
    BY <1>5, <2>1
<1>8. CASE StopClear
  <2>1. /\ queue' = <<>> /\ dropped' = dropped \cup Queued /\ UNCHANGED <<activeThread, thread, committed>>
    BY <1>8 DEF StopClear, locals, Queued
  <2>2. Cardinality(dropped') = lost + len
    <3>1. IsFiniteSet(Queued) /\ Cardinality(Queued) = len /\ dropped \cap Queued = {}
      BY QueuedCount DEF Apart
    <3> QED
      BY <1>1, <2>1, <3>1, ApartCount
  <2>3. Len(queue') = 0 /\ Refused' = Refused
    BY <2>1 DEF Refused, Committed
  <2>4. len + lost - refused = Len(queue') + Cardinality(dropped') - Cardinality(Refused')
    BY <1>1, <2>2, <2>3
  <2> QED
    BY <1>2, <2>1, <2>4 DEF CounterMeaning
<1>9. ASSUME NEW n \in Tasks, Pop(n) PROVE CounterMeaning'
  <2>1. /\ queue # <<>> /\ queue' = Tail(queue) /\ activeThread' = (activeThread + (-1)) % SizeMod
        /\ UNCHANGED <<committed, dropped>>
        /\ \A m \in Tasks : thread[m] = "none" <=> thread'[m] = "none"
    <3>1. activeThread - 1 = activeThread + (-1)
      BY DEF Typed, TypeOK
    <3>2. queue # <<>> /\ queue' = Tail(queue) /\ activeThread' = (activeThread - 1) % SizeMod
      BY <1>9 DEF Pop, QueueAfterPop, CountAfterPop
    <3>3. /\ UNCHANGED <<committed, dropped>>
          /\ \A m \in Tasks : thread[m] = "none" <=> thread'[m] = "none"
      BY <1>9 DEF Pop, history, Typed, TypeOK
    <3> QED
      BY <3>1, <3>2, <3>3
  <2>2. Len(queue') = len - 1
    BY <2>1 DEF Typed, TypeOK
  <2>3. Refused' = Refused
    BY <2>1, ExecutorAssumption DEF Refused, Committed, Typed, TypeOK, Tasks
  <2>4. (activeThread + (-1)) % SizeMod = ((len + lost - refused) + (-1)) % SizeMod
    <3> DEFINE sum == len + lost - refused
    <3>1. sum \in Int /\ activeThread = sum % SizeMod
      BY <1>1, <1>2
    <3> HIDE DEF sum
    <3>2. -1 \in Int
      OBVIOUS
    <3>3. ((sum % SizeMod) + (-1)) % SizeMod = (sum + (-1)) % SizeMod
      BY <1>2, <3>1, <3>2, ModAgain, Zenon
    <3> QED
      BY <3>1, <3>3, Zenon DEF sum
  <2>5. (len + lost - refused) + (-1) = Len(queue') + Cardinality(dropped') - Cardinality(Refused')
    BY <1>1, <2>1, <2>2, <2>3
  <2> QED
    BY <2>1, <2>4, <2>5 DEF CounterMeaning
<1> QED
  BY <1>4, <1>6, <1>7, <1>8, <1>9 DEF Next, AbilityStep, ThreadStep

(* What activeThread_ counts, in every state: modulo the width of size_t, the queued tasks    *)
(* and those Stop dropped, less the commits that were refused a thread.                       *)
THEOREM CounterCounts == Spec => []CounterMeaning
<1>1. Init => Typed /\ Apart /\ CounterMeaning
  <2> SUFFICES ASSUME Init PROVE CounterMeaning
    BY TypedInit, InitApart
  <2>1. Len(queue) = 0 /\ dropped = {} /\ Refused = {} /\ activeThread = 0
    BY DEF Init, Refused, Committed
  <2>2. Cardinality(dropped) = 0 /\ Cardinality(Refused) = 0 /\ 0 % SizeMod = 0
    BY <2>1, FS_EmptySet, ModSmall, ExecutorAssumption
  <2> QED
    BY <2>1, <2>2 DEF CounterMeaning
<1>2. Typed /\ Apart /\ CounterMeaning /\ [Next]_vars => Typed' /\ Apart' /\ CounterMeaning'
  BY TypedStep, ApartStep, MeaningStep
<1> QED
  BY <1>1, <1>2, PTL DEF Spec
=============================================================================
