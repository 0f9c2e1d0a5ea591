---------------------------- MODULE ScanExecutor ----------------------------
(***************************************************************************)
(* The scan executor (ringtone_scan_executor.cpp): a queue of scan tasks,  *)
(* the detached threads that serve it, and the Start / Stop pair that the  *)
(* data-share extension calls from OnStart and OnStop.                     *)
(*                                                                         *)
(* Tasks are numbered in the order they are committed.  The thread spawned *)
(* by the commit of task n is thread n, so a thread that was never spawned *)
(* marks a commit that was refused one.  Everything Commit does, and each  *)
(* visit of a thread to the queue, happens under queueMtx_ and is one      *)
(* step; isScanFinished, the notification and *stopFlag_ are accessed      *)
(* without the lock and each access is a step of its own.                  *)
(***************************************************************************)
EXTENDS Integers, Sequences, FiniteSets

CONSTANTS
    MAX_THREAD,         \* the size activeThread_ is compared with
    SizeMod,            \* 2^w, where w is the width of size_t
    MaxCommits,         \* bound: scan tasks committed in a behaviour
    MaxStarts,          \* bound: calls of OnStart
    ClientScans,        \* TRUE: ScanFile / ScanDir are called as well
    SpuriousWakeups     \* TRUE: condition_variable::wait may return unnotified

ASSUME ExecutorAssumption ==
    /\ MAX_THREAD \in Nat
    /\ SizeMod \in Nat
    /\ MAX_THREAD < SizeMod
    /\ MaxCommits \in Nat
    /\ MaxStarts \in Nat
    /\ ClientScans \in BOOLEAN
    /\ SpuriousWakeups \in BOOLEAN

VARIABLES
    queue,              \* queue_
    activeThread,       \* activeThread_, a size_t
    stopFlag,           \* *stopFlag_, shared with every scan that was popped
    isScanFinished,     \* isScanFinished
    thread,             \* the program counter of each thread
    scanning,           \* the task a thread holds while it scans, 0 for none
    ability,            \* where the ability is in its OnStart / OnStop calls
    starts,             \* how many times OnStart ran
    committed,          \* how many tasks were committed
    ended,              \* the tasks whose Scan returned
    dropped             \* the tasks Stop threw away

locals  == <<thread, scanning>>
history == <<starts, committed, ended, dropped>>
vars    == <<queue, activeThread, stopFlag, isScanFinished, locals, ability, history>>

Tasks == 1 .. MaxCommits

ThreadStates == {"none", "created", "loop", "scanning", "leaving", "notifying", "exited"}

(* idle: before the first call; starting: after executor_.Start(); scanWait: in WaitFor;     *)
(* started: OnStart returned; flagged: Stop wrote the flag; checked: Stop holds queueMtx_     *)
(* and saw a scan running; waiting, woken: in stopCond.wait; stopped: Stop returned.          *)
AbilityStates == {"idle", "starting", "scanWait", "started",
                  "flagged", "checked", "waiting", "woken", "stopped"}

(* Only Stop holds queueMtx_ across two steps. *)
MutexFree == ability # "checked"

TypeOK ==
    /\ queue \in Seq(Tasks)
    /\ activeThread \in 0 .. SizeMod - 1
    /\ stopFlag \in BOOLEAN
    /\ isScanFinished \in BOOLEAN
    /\ thread \in [Tasks -> ThreadStates]
    /\ scanning \in [Tasks -> Tasks \cup {0}]
    /\ ability \in AbilityStates
    /\ starts \in 0 .. MaxStarts
    /\ committed \in 0 .. MaxCommits
    /\ ended \subseteq Tasks
    /\ dropped \subseteq Tasks

Init ==
    /\ queue = <<>>
    /\ activeThread = 0
    /\ stopFlag = FALSE
    /\ isScanFinished = TRUE
    /\ thread = [n \in Tasks |-> "none"]
    /\ scanning = [n \in Tasks |-> 0]
    /\ ability = "idle"
    /\ starts = 0
    /\ committed = 0
    /\ ended = {}
    /\ dropped = {}

-----------------------------------------------------------------------------
(* Commit *)

(* A mutant of ThreadToSpare: one thread serves the queue. *)
OneThreadAtATime == activeThread < 1

ThreadToSpare == activeThread < MAX_THREAD

(* Commit: push the task, and spawn a thread for it while there is one to spare. *)
Commit ==
    /\ MutexFree
    /\ committed < MaxCommits
    /\ committed' = committed + 1
    /\ queue' = Append(queue, committed + 1)
    /\ IF ThreadToSpare
       THEN /\ thread' = [thread EXCEPT ![committed + 1] = "created"]
            /\ activeThread' = (activeThread + 1) % SizeMod
       ELSE UNCHANGED <<thread, activeThread>>

(* ScanFile and ScanDir commit a task at any time. *)
ClientCommit ==
    /\ ClientScans
    /\ Commit
    /\ UNCHANGED <<stopFlag, isScanFinished, scanning, ability, starts, ended, dropped>>

-----------------------------------------------------------------------------
(* HandleScanExecution, the body of a thread *)

(* isScanFinished = false, without the lock. *)
ThreadStart(n) ==
    /\ thread[n] = "created"
    /\ thread' = [thread EXCEPT ![n] = "loop"]
    /\ isScanFinished' = FALSE
    /\ UNCHANGED <<queue, activeThread, stopFlag, scanning, ability, history>>

(* A mutant of CountAfterPop: the count is not given back. *)
CountKept == activeThread

(* A mutant of CountAfterPop: the counter is a signed number. *)
CountUnbounded == activeThread - 1

(* activeThread_-- goes with every task that is popped, not with a thread that ends. *)
CountAfterPop == (activeThread - 1) % SizeMod

(* A mutant of QueueAfterPop: front() without pop(). *)
FrontKept == queue

QueueAfterPop == Tail(queue)

(* A thread takes the first task. *)
Pop(n) ==
    /\ thread[n] = "loop"
    /\ MutexFree
    /\ queue # <<>>
    /\ queue' = QueueAfterPop
    /\ scanning' = [scanning EXCEPT ![n] = Head(queue)]
    /\ activeThread' = CountAfterPop
    /\ thread' = [thread EXCEPT ![n] = "scanning"]
    /\ UNCHANGED <<stopFlag, isScanFinished, ability, history>>

(* A mutant of PopEmpty: a thread leaves one task too early. *)
PopEmptyEarly(n) ==
    /\ thread[n] = "loop"
    /\ MutexFree
    /\ Len(queue) <= 1
    /\ thread' = [thread EXCEPT ![n] = "leaving"]
    /\ UNCHANGED <<queue, activeThread, stopFlag, isScanFinished, scanning, ability, history>>

(* A mutant of PopEmpty: a thread that ends gives a count back as well. *)
PopEmptyCounted(n) ==
    /\ thread[n] = "loop"
    /\ MutexFree
    /\ queue = <<>>
    /\ activeThread' = CountAfterPop
    /\ thread' = [thread EXCEPT ![n] = "leaving"]
    /\ UNCHANGED <<queue, stopFlag, isScanFinished, scanning, ability, history>>

(* A thread finds the queue empty and breaks out of its loop. *)
PopEmpty(n) ==
    /\ thread[n] = "loop"
    /\ MutexFree
    /\ queue = <<>>
    /\ thread' = [thread EXCEPT ![n] = "leaving"]
    /\ UNCHANGED <<queue, activeThread, stopFlag, isScanFinished, scanning, ability, history>>

(* scanner->Scan() returns, at its end or early because it saw *stopFlag_; its result is     *)
(* ignored and the thread goes back to the queue either way.                                 *)
ScanReturns(n) ==
    /\ thread[n] = "scanning"
    /\ ended' = ended \cup {scanning[n]}
    /\ scanning' = [scanning EXCEPT ![n] = 0]
    /\ thread' = [thread EXCEPT ![n] = "loop"]
    /\ UNCHANGED <<queue, activeThread, stopFlag, isScanFinished, ability,
                   starts, committed, dropped>>

(* A mutant of Finish: the flag is left as it was. *)
FinishSilently(n) ==
    /\ thread[n] = "leaving"
    /\ thread' = [thread EXCEPT ![n] = "notifying"]
    /\ UNCHANGED <<queue, activeThread, stopFlag, isScanFinished, scanning, ability, history>>

(* isScanFinished = true, without the lock and whatever the other threads do. *)
Finish(n) ==
    /\ thread[n] = "leaving"
    /\ thread' = [thread EXCEPT ![n] = "notifying"]
    /\ isScanFinished' = TRUE
    /\ UNCHANGED <<queue, activeThread, stopFlag, scanning, ability, history>>

(* A mutant of Notify: the thread ends without notify_one. *)
NotifyNobody(n) ==
    /\ thread[n] = "notifying"
    /\ thread' = [thread EXCEPT ![n] = "exited"]
    /\ UNCHANGED <<queue, activeThread, stopFlag, isScanFinished, scanning, ability, history>>

(* stopCond.notify_one(): nothing happens unless Stop is waiting. *)
Notify(n) ==
    /\ thread[n] = "notifying"
    /\ thread' = [thread EXCEPT ![n] = "exited"]
    /\ ability' = IF ability = "waiting" THEN "woken" ELSE ability
    /\ UNCHANGED <<queue, activeThread, stopFlag, isScanFinished, scanning, history>>

-----------------------------------------------------------------------------
(* OnStart: Start, Commit of the boot scan and WaitFor, or none of them *)

(* RingtoneScanner starts the executor and commits the boot scan only where the parameter    *)
(* scanner.first is "false"; elsewhere OnStart leaves the stop flag as it is.                *)
OnStart ==
    /\ ability \in {"idle", "stopped"}
    /\ starts < MaxStarts
    /\ starts' = starts + 1
    /\ \/ /\ committed < MaxCommits
          /\ ability' = "starting"
          /\ stopFlag' = FALSE
       \/ /\ ability' = "started"
          /\ UNCHANGED stopFlag
    /\ UNCHANGED <<queue, activeThread, isScanFinished, locals, committed, ended, dropped>>

CommitBootScan ==
    /\ ability = "starting"
    /\ Commit
    /\ ability' = "scanWait"
    /\ UNCHANGED <<stopFlag, isScanFinished, scanning, starts, ended, dropped>>

(* WaitFor has no predicate: it returns on the boot scan's notification, on a spurious       *)
(* wake-up or after its 20 seconds, so it may return at any moment.                          *)
WaitForReturns ==
    /\ ability = "scanWait"
    /\ ability' = "started"
    /\ UNCHANGED <<queue, activeThread, stopFlag, isScanFinished, locals, history>>

-----------------------------------------------------------------------------
(* OnStop: Stop.  A test calls OnStop before any OnStart, so it may come first. *)

StopFlag ==
    /\ ability \in {"idle", "started"}
    /\ ability' = "flagged"
    /\ stopFlag' = TRUE
    /\ UNCHANGED <<queue, activeThread, isScanFinished, locals, history>>

(* Stop takes queueMtx_ and finds a scan running: it is about to wait. *)
StopCheck ==
    /\ ability = "flagged"
    /\ ~isScanFinished
    /\ ability' = "checked"
    /\ UNCHANGED <<queue, activeThread, stopFlag, isScanFinished, locals, history>>

(* stopCond.wait(lock) releases queueMtx_ and blocks, in one step. *)
StopWait ==
    /\ ability = "checked"
    /\ ability' = "waiting"
    /\ UNCHANGED <<queue, activeThread, stopFlag, isScanFinished, locals, history>>

SpuriousWakeup ==
    /\ SpuriousWakeups
    /\ ability = "waiting"
    /\ ability' = "woken"
    /\ UNCHANGED <<queue, activeThread, stopFlag, isScanFinished, locals, history>>

(* Under queueMtx_, after the wait or because no scan seemed to run, Stop swaps the queue    *)
(* with an empty one.  activeThread_ is not touched.                                         *)
StopClear ==
    /\ \/ ability = "flagged" /\ isScanFinished
       \/ ability = "woken"
    /\ ability' = "stopped"
    /\ queue' = <<>>
    /\ dropped' = dropped \cup {queue[i] : i \in 1 .. Len(queue)}
    /\ UNCHANGED <<activeThread, stopFlag, isScanFinished, locals, starts, committed, ended>>

-----------------------------------------------------------------------------

ThreadStep(n) ==
    \/ ThreadStart(n)
    \/ Pop(n)
    \/ PopEmpty(n)
    \/ ScanReturns(n)
    \/ Finish(n)
    \/ Notify(n)

AbilityStep ==
    \/ OnStart
    \/ CommitBootScan
    \/ WaitForReturns
    \/ StopFlag
    \/ StopCheck
    \/ StopWait
    \/ SpuriousWakeup
    \/ StopClear

Next ==
    \/ ClientCommit
    \/ AbilityStep
    \/ \E n \in Tasks : ThreadStep(n)

(* Every runnable thread is scheduled, every scan returns, and a Stop that can go on does.  *)
(* Nothing obliges a client to scan, the system to start or stop the ability, or a           *)
(* condition variable to wake up unnotified.                                                 *)
Fairness ==
    /\ \A n \in Tasks : WF_vars(ThreadStep(n))
    /\ WF_vars(StopCheck \/ StopWait \/ StopClear)

Spec     == Init /\ [][Next]_vars
FairSpec == Spec /\ Fairness

-----------------------------------------------------------------------------
(* What the executor guarantees *)

Committed == 1 .. committed
Queued    == {queue[i] : i \in 1 .. Len(queue)}
Working   == {n \in Tasks : thread[n] = "scanning"}
Held      == {scanning[n] : n \in Working}
Refused   == {n \in Committed : thread[n] = "none"}

(* A thread that will look at the queue again before it ends. *)
WillLook(n) == thread[n] \in {"created", "loop", "scanning"}

(* Every committed task is in exactly one place: in the queue, in the hands of one thread,  *)
(* ended, or dropped by Stop.  This is about the queue being popped under queueMtx_ by      *)
(* several threads while Commit pushes and Stop swaps it.                                   *)
TaskAccounting ==
    /\ Committed = Queued \cup Held \cup ended \cup dropped
    /\ Cardinality(Committed) =
         Len(queue) + Cardinality(Working) + Cardinality(ended) + Cardinality(dropped)

(* activeThread_ does not count threads: modulo the width of size_t it is the number of     *)
(* queued tasks, plus those Stop dropped (their count is never given back), minus the       *)
(* commits that were refused a thread (their decrement has no increment).                   *)
CounterMeaning ==
    activeThread =
        (Len(queue) + Cardinality(dropped) - Cardinality(Refused)) % SizeMod

(* With at most MAX_THREAD commits the counter covers the queue and never wraps, whatever   *)
(* the threads and Stop do in between.                                                      *)
CounterCoversQueue ==
    committed <= MAX_THREAD =>
        /\ Len(queue) <= activeThread
        /\ activeThread <= committed

(* While no commit has been refused a thread, a task in the queue always has a thread that  *)
(* will look at the queue again: Commit's test of activeThread_ strands nothing.            *)
QueueServed ==
    Refused = {} => (queue # <<>> => \E n \in Tasks : WillLook(n))

(* The first MAX_THREAD commits of a process all get a thread. *)
EarlyCommitsGetThreads ==
    committed <= MAX_THREAD => Refused = {}

(* isScanFinished is false only while some thread is between its first statement and the    *)
(* end of its loop, so a Stop that decides to wait has a thread to wait for.                *)
UnfinishedMeansRunning ==
    ~isScanFinished =>
        \E n \in Tasks : thread[n] \in {"loop", "scanning", "leaving"}

(* No step of the executor takes a task up again once it ended or was dropped. *)
NoTaskComesBack ==
    [][/\ ended \subseteq ended'
       /\ dropped \subseteq dropped'
       /\ Held' \cap (ended \cup dropped) = {}]_vars

(* As long as no more than MAX_THREAD tasks are committed, each of them is eventually        *)
(* scanned or dropped by Stop.  It says nothing once another commit was made: that one may   *)
(* be refused a thread, and its task then waits for a thread that comes back to the queue.   *)
TasksLeave ==
    \A t \in Tasks :
        (t <= committed /\ committed <= MAX_THREAD) ~> (t \in ended \cup dropped \/ committed > MAX_THREAD)

(* A Stop that waits while some thread has yet to notify does return. *)
WaitingStopReturns ==
    (/\ ability = "waiting"
     /\ \E n \in Tasks : thread[n] \in {"created", "loop", "scanning", "leaving", "notifying"})
        ~> ability = "stopped"

-----------------------------------------------------------------------------
(* What a test says, and the code does not do *)

(* ringtone_datashare_extension_test.cpp:97-100 calls OnStart, then OnStop, and expects a   *)
(* connection afterwards: OnStop returns.                                                   *)
StopReturns ==
    ability = "flagged" ~> ability = "stopped"
=============================================================================
