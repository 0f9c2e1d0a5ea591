------------------------------ MODULE BootScan ------------------------------
(***************************************************************************)
(* The boot scan (RingtoneScannerObj of type START): it clears the scanner *)
(* flag of every row, walks the preload directories and upserts a flagged  *)
(* row for each file it meets, then deletes the preset rows that are still *)
(* unflagged.  The same database is scanned by the data-share extension    *)
(* (Start(false), behind the parameter scanner.first) and by the backup    *)
(* extension (Start(true)), which are two processes.                       *)
(*                                                                         *)
(* A scanner is one such process.  A step is one database operation, one   *)
(* directory entry or one system call; rows buffered by the walk are       *)
(* written by a transaction, whose results the code ignores.  File         *)
(* contents, titles and mime types are left out: a file is a value, and    *)
(* all the code stores of it that matters here is its row's id and flag.   *)
(***************************************************************************)
EXTENDS Integers, Sequences, FiniteSets, SequencesExt

CONSTANTS
    Scanners,           \* the processes that run boot scans
    Backup,             \* those that do not look at scanner.first
    Preset,             \* the files a preload directory may hold
    Customised,         \* files with a row but outside the preload directories
    NumTables,          \* 2, or 3 with pocket vibration: tone, vibration, haptic
    TableOf,            \* the table a file's row belongs to
    NumDirs,            \* how many preload directories are walked
    DirOf,              \* the preload directory of a preset file
    Nested,             \* the preset files that are in a subdirectory of it
    MAX_BATCH_SIZE,     \* rows buffered for one table before a flush
    MaxScans,           \* bound: scans started in a behaviour
    Stops,              \* TRUE: OnStop may set the stop flag of a scan
    Failures,           \* TRUE: files, directories and database calls may fail
    Crashes             \* TRUE: a process may die and the device reboot

Tables == 1 .. NumTables
Files  == Preset \cup Customised

ASSUME BootScanAssumption ==
    /\ Backup \subseteq Scanners
    /\ Preset \cap Customised = {} /\ IsFiniteSet(Preset) /\ IsFiniteSet(Customised)
    /\ NumTables \in {2, 3}
    /\ TableOf \in [Files -> Tables]
    /\ NumDirs \in Nat \ {0}
    /\ DirOf \in [Preset -> 1 .. NumDirs]
    /\ Nested \subseteq Preset
    /\ MAX_BATCH_SIZE \in Nat \ {0}
    /\ MaxScans \in Nat
    /\ {Stops, Failures, Crashes} \subseteq BOOLEAN

VARIABLES
    rows,               \* the rows of the tables: [id, file, flag]
    nextId,             \* the next AUTOINCREMENT id
    disk,               \* the preset files the preload directories hold
    first,              \* the system parameter scanner.first
    scans,              \* how many scans were started
    scan                \* the state of each scanner

vars == <<rows, nextId, disk, first, scans, scan>>

Phases == {"idle", "flags", "open", "walk", "flush", "commit", "default", "delete", "end"}

(* phase: where the scan is; table, dir: the table or directory it is at; todo, nested: the  *)
(* entries the open directory and its open subdirectory have left, nested being of use when  *)
(* inNested; buffer: the rows each table's buffer holds, [file, id] with id 0 for a new row; *)
(* stop: *stopFlag_; ok: the result so far is E_OK.  Two histories: sawStop, a readdir loop  *)
(* of this scan found the stop flag set; skipped, the files it failed to write a row for;    *)
(* both outlive the scan, until the next one begins.                                         *)
IdleScan ==
    [phase |-> "idle", table |-> 1, dir |-> 1, todo |-> {}, inNested |-> FALSE,
     nested |-> {}, buffer |-> [t \in Tables |-> <<>>], stop |-> FALSE, ok |-> TRUE,
     sawStop |-> FALSE, skipped |-> {}]

Row == [id : Nat, file : Files, flag : {0, 1}]
Entry == [file : Preset, id : Nat]
Scan == [phase : Phases, table : Tables, dir : 1 .. NumDirs + 1, todo : SUBSET Preset,
         inNested : BOOLEAN, nested : SUBSET Preset, buffer : [Tables -> Seq(Entry)],
         stop : BOOLEAN, ok : BOOLEAN, sawStop : BOOLEAN, skipped : SUBSET Preset]

TypeOK ==
    /\ rows \subseteq Row
    /\ nextId \in Nat
    /\ disk \subseteq Preset
    /\ first \in BOOLEAN
    /\ scans \in 0 .. MaxScans
    /\ scan \in [Scanners -> Scan]

(* The rows an earlier version of the preload directories left, and today's directories. *)
Init ==
    /\ \E known \in SUBSET Preset :
         LET all == SetToSeq(Customised \cup known) IN
         /\ rows = {[id |-> i, file |-> all[i], flag |-> 1] : i \in 1 .. Len(all)}
         /\ nextId = Len(all) + 1
    /\ disk \in SUBSET Preset
    /\ first = FALSE
    /\ scans = 0
    /\ scan = [s \in Scanners |-> IdleScan]

RowsOf(f) == {r \in rows : r.file = f}

(* The scan of s, and no other, goes on as new. *)
Becomes(s, new) == scan' = [scan EXCEPT ![s] = new]

(* Leave a phase for another one, or for the next table of the same one. *)
Goto(s, phase) == [scan[s] EXCEPT !.phase = phase, !.table = 1]

(* A mutant of NextTableOr: one table too many. *)
NextTableOrOneMore(s, phase) ==
    IF scan[s].table <= NumTables THEN [scan[s] EXCEPT !.table = @ + 1] ELSE Goto(s, phase)

NextTableOr(s, phase) ==
    IF scan[s].table < NumTables THEN [scan[s] EXCEPT !.table = @ + 1] ELSE Goto(s, phase)

(* The scan ends early: BootScanProcess returns an error. *)
Fail(s) == Becomes(s, [Goto(s, "end") EXCEPT !.ok = FALSE])

-----------------------------------------------------------------------------
(* RingtoneScanner and Start: the scan of a process begins *)

(* A mutant of StartScan: scanner.first is set when the scan begins. *)
StartScanMarked(s) ==
    /\ scan[s].phase = "idle"
    /\ scans < MaxScans
    /\ s \in Backup \/ ~first
    /\ scans' = scans + 1
    /\ first' = TRUE
    /\ Becomes(s, [IdleScan EXCEPT !.phase = "flags"])
    /\ UNCHANGED <<rows, nextId, disk>>

StartScan(s) ==
    /\ scan[s].phase = "idle"
    /\ scans < MaxScans
    /\ s \in Backup \/ ~first
    /\ scans' = scans + 1
    /\ Becomes(s, [IdleScan EXCEPT !.phase = "flags"])
    /\ UNCHANGED <<rows, nextId, disk, first>>

(* OnStop sets the flag the scan polls; the backup extension has no OnStop. *)
SetStopFlag(s) ==
    /\ Stops
    /\ s \notin Backup
    /\ scan[s].phase # "idle"
    /\ ~scan[s].stop
    /\ Becomes(s, [scan[s] EXCEPT !.stop = TRUE])
    /\ UNCHANGED <<rows, nextId, disk, first, scans>>

-----------------------------------------------------------------------------
(* UpdateScannerFlag, then UpdateRingMockHapticAudioScannerFlag: table by table *)

ResetFlags(s) ==
    /\ scan[s].phase = "flags"
    /\ rows' = {IF TableOf[r.file] = scan[s].table THEN [r EXCEPT !.flag = 0] ELSE r : r \in rows}
    /\ Becomes(s, NextTableOr(s, "open"))
    /\ UNCHANGED <<nextId, disk, first, scans>>

ResetFlagsFails(s) ==
    /\ Failures
    /\ scan[s].phase = "flags"
    /\ Fail(s)
    /\ UNCHANGED <<rows, nextId, disk, first, scans>>

-----------------------------------------------------------------------------
(* ScanDirectories, ScanDirInternal, WalkFileTree, TraverseDirEntries *)

InDir(d) == {f \in disk : DirOf[f] = d}

(* The next directory is walked. *)
OpenDir(s) ==
    /\ scan[s].phase = "open"
    /\ scan[s].dir <= NumDirs
    /\ Becomes(s, [scan[s] EXCEPT !.phase = "walk", !.todo = InDir(scan[s].dir)])
    /\ UNCHANGED <<rows, nextId, disk, first, scans>>

OpenDirFails(s) ==
    /\ Failures
    /\ scan[s].phase = "open"
    /\ scan[s].dir <= NumDirs
    /\ Fail(s)
    /\ UNCHANGED <<rows, nextId, disk, first, scans>>

(* A directory whose real path is not found, or of which stat tells neither a directory nor  *)
(* a file, is passed over, and the scan is none the worse for it.                            *)
PassOverDir(s) ==
    /\ Failures
    /\ scan[s].phase = "open"
    /\ scan[s].dir <= NumDirs
    /\ Becomes(s, [scan[s] EXCEPT !.dir = @ + 1, !.skipped = @ \cup InDir(scan[s].dir)])
    /\ UNCHANGED <<rows, nextId, disk, first, scans>>

AllDirsWalked(s) ==
    /\ scan[s].phase = "open"
    /\ scan[s].dir > NumDirs
    /\ Becomes(s, Goto(s, "default"))
    /\ UNCHANGED <<rows, nextId, disk, first, scans>>

(* The entries of the loop that is running. *)
Pending(s) == IF scan[s].inNested THEN scan[s].nested ELSE scan[s].todo \ Nested

(* A mutant of NewEntry: every file is taken for a new one. *)
NewEntryBlind(f) == [file |-> f, id |-> 0]

(* BuildData reads the row of the file for its id; a file without a row keeps id 0. *)
NewEntry(f) ==
    [file |-> f,
     id |-> IF RowsOf(f) = {} THEN 0 ELSE CHOOSE i \in {r.id : r \in RowsOf(f)} :
                                            \A r \in RowsOf(f) : i <= r.id]

Taken(s, f) ==
    IF scan[s].inNested THEN [scan[s] EXCEPT !.nested = @ \ {f}]
                        ELSE [scan[s] EXCEPT !.todo = @ \ {f}]

(* readdir returns a file: it is buffered, and a full buffer is flushed at once. *)
ReadFile(s) ==
    /\ scan[s].phase = "walk"
    /\ ~scan[s].stop
    /\ \E f \in Pending(s) :
         LET t      == TableOf[f]
             buffer == Append(scan[s].buffer[t], NewEntry(f))
             full   == Len(buffer) >= MAX_BATCH_SIZE
         IN  Becomes(s, [Taken(s, f) EXCEPT !.buffer = [@ EXCEPT ![t] = buffer],
                                            !.phase = IF full THEN "flush" ELSE "walk",
                                            !.table = IF full THEN t ELSE 1])
    /\ UNCHANGED <<rows, nextId, disk, first, scans>>

(* lstat, stat or the query of the row fails: the file is left out and the loop goes on. *)
ReadFileFails(s) ==
    /\ Failures
    /\ scan[s].phase = "walk"
    /\ ~scan[s].stop
    /\ \E f \in Pending(s) : Becomes(s, [Taken(s, f) EXCEPT !.skipped = @ \cup {f}])
    /\ UNCHANGED <<rows, nextId, disk, first, scans>>

(* readdir returns the subdirectory: its own loop begins. *)
EnterNested(s) ==
    /\ scan[s].phase = "walk"
    /\ ~scan[s].stop
    /\ ~scan[s].inNested
    /\ scan[s].todo \cap Nested # {}
    /\ Becomes(s, [scan[s] EXCEPT !.inNested = TRUE,
                                  !.nested = scan[s].todo \cap Nested,
                                  !.todo = @ \ Nested])
    /\ UNCHANGED <<rows, nextId, disk, first, scans>>

(* The subdirectory can't be opened: the error of WalkFileTree is discarded. *)
EnterNestedFails(s) ==
    /\ Failures
    /\ scan[s].phase = "walk"
    /\ ~scan[s].stop
    /\ ~scan[s].inNested
    /\ scan[s].todo \cap Nested # {}
    /\ Becomes(s, [scan[s] EXCEPT !.skipped = @ \cup (scan[s].todo \cap Nested),
                                  !.todo = @ \ Nested])
    /\ UNCHANGED <<rows, nextId, disk, first, scans>>

(* readdir fails, which looks like the end of the loop that is running. *)
ReaddirFails(s) ==
    /\ Failures
    /\ scan[s].phase = "walk"
    /\ Becomes(s, IF scan[s].inNested
                  THEN [scan[s] EXCEPT !.inNested = FALSE, !.nested = {}, !.skipped = @ \cup scan[s].nested]
                  ELSE [Goto(s, "commit") EXCEPT !.todo = {}, !.skipped = @ \cup scan[s].todo])
    /\ UNCHANGED <<rows, nextId, disk, first, scans>>

(* The subdirectory has no entry left. *)
LeaveNested(s) ==
    /\ scan[s].phase = "walk"
    /\ scan[s].inNested
    /\ scan[s].nested = {}
    /\ Becomes(s, [scan[s] EXCEPT !.inNested = FALSE])
    /\ UNCHANGED <<rows, nextId, disk, first, scans>>

(* readdir returned an entry, which may be "." or "..", and the stop flag is set.  In the    *)
(* directory itself the scan fails with E_STOP; in the subdirectory that error is discarded  *)
(* and the walk of the directory goes on.                                                    *)
SeeStop(s) ==
    /\ scan[s].phase = "walk"
    /\ scan[s].stop
    /\ Becomes(s, IF scan[s].inNested
                  THEN [scan[s] EXCEPT !.inNested = FALSE, !.nested = {}, !.sawStop = TRUE]
                  ELSE [Goto(s, "end") EXCEPT !.ok = FALSE, !.sawStop = TRUE])
    /\ UNCHANGED <<rows, nextId, disk, first, scans>>

(* A mutant of DirWalked: the buffers of the directory wait for a later flush. *)
DirWalkedNoCommit(s) ==
    /\ scan[s].phase = "walk"
    /\ ~scan[s].inNested
    /\ scan[s].todo = {}
    /\ Becomes(s, [Goto(s, "open") EXCEPT !.dir = @ + 1])
    /\ UNCHANGED <<rows, nextId, disk, first, scans>>

(* The directory has no entry left: what is buffered is committed, table by table. *)
DirWalked(s) ==
    /\ scan[s].phase = "walk"
    /\ ~scan[s].inNested
    /\ scan[s].todo = {}
    /\ Becomes(s, Goto(s, "commit"))
    /\ UNCHANGED <<rows, nextId, disk, first, scans>>

-----------------------------------------------------------------------------
(* CommitTransaction, CommitVibrateTransaction, CommitRingMockHapticAudioTransaction *)

Batch(s) == scan[s].buffer[scan[s].table]

(* A mutant of Write: an update does not set the flag. *)
WriteUnflagged(batch) ==
    LET updated  == {e.id : e \in batch} \ {0}
        inserted == SetToSeq({e.file : e \in {x \in batch : x.id = 0}}) IN
    /\ rows' = rows
         \cup {[id |-> nextId + i - 1, file |-> inserted[i], flag |-> 1] : i \in 1 .. Len(inserted)}
    /\ nextId' = nextId + Len(inserted)

(* UpdateMetadata sets the flag of the row with the entry's id, if there is one still;       *)
(* InsertMetadata adds a row.  No uniqueness constraint is declared on the path.             *)
Write(batch) ==
    LET updated  == {e.id : e \in batch} \ {0}
        inserted == SetToSeq({e.file : e \in {x \in batch : x.id = 0}}) IN
    /\ rows' = {IF r.id \in updated THEN [r EXCEPT !.flag = 1] ELSE r : r \in rows}
         \cup {[id |-> nextId + i - 1, file |-> inserted[i], flag |-> 1] : i \in 1 .. Len(inserted)}
    /\ nextId' = nextId + Len(inserted)

(* The transaction's results are ignored: with failures, any part of the batch is written,   *)
(* the buffer is emptied and the caller sees E_OK.                                           *)
WriteBatch(s) ==
    \E written \in IF Failures THEN SUBSET ToSet(Batch(s)) ELSE {ToSet(Batch(s))} :
        /\ Write(written)
        /\ LET lost == {e.file : e \in ToSet(Batch(s)) \ written}
               next == IF scan[s].phase = "flush" THEN Goto(s, "walk") ELSE NextTableOr(s, "open")
           IN  Becomes(s, [next EXCEPT !.buffer = [@ EXCEPT ![scan[s].table] = <<>>],
                                       !.skipped = @ \cup lost,
                                       !.dir = IF next.phase = "open" THEN @ + 1 ELSE @])

(* A buffer reached MAX_BATCH_SIZE in the middle of the walk. *)
Flush(s) ==
    /\ scan[s].phase = "flush"
    /\ WriteBatch(s)
    /\ UNCHANGED <<disk, first, scans>>

(* The store is gone: the flush fails, the buffer is kept and the walk goes on. *)
FlushFails(s) ==
    /\ Failures
    /\ scan[s].phase = "flush"
    /\ Becomes(s, Goto(s, "walk"))
    /\ UNCHANGED <<rows, nextId, disk, first, scans>>

(* The directory's buffers are committed. *)
CommitTable(s) ==
    /\ scan[s].phase = "commit"
    /\ WriteBatch(s)
    /\ UNCHANGED <<disk, first, scans>>

(* The store is gone: the scan fails. *)
CommitTableFails(s) ==
    /\ Failures
    /\ scan[s].phase = "commit"
    /\ Batch(s) # <<>>
    /\ Fail(s)
    /\ UNCHANGED <<rows, nextId, disk, first, scans>>

-----------------------------------------------------------------------------
(* The end of BootScanProcess *)

(* UpdateDefaultTone, whose writes are to the settings columns of the rows. *)
UpdateDefaultTone(s) ==
    /\ scan[s].phase = "default"
    /\ \/ Becomes(s, Goto(s, "delete"))
       \/ Failures /\ Fail(s)
    /\ UNCHANGED <<rows, nextId, disk, first, scans>>

(* The rows of a table that DeleteNotExist deletes: scanner_flag = 0 and source_type = 1. *)
NotExist(t) == {r \in rows : TableOf[r.file] = t /\ r.flag = 0 /\ r.file \in Preset}

DeleteNotExist(s) ==
    /\ scan[s].phase = "delete"
    /\ rows' = rows \ NotExist(scan[s].table)
    /\ Becomes(s, NextTableOr(s, "end"))
    /\ UNCHANGED <<nextId, disk, first, scans>>

DeleteNotExistFails(s) ==
    /\ Failures
    /\ scan[s].phase = "delete"
    /\ Fail(s)
    /\ UNCHANGED <<rows, nextId, disk, first, scans>>

(* BootScan: the waiter is notified, and scanner.first becomes true if all went well. *)
EndScan(s) ==
    /\ scan[s].phase = "end"
    /\ first' = (first \/ scan[s].ok)
    /\ Becomes(s, [IdleScan EXCEPT !.sawStop = scan[s].sawStop, !.skipped = scan[s].skipped])
    /\ UNCHANGED <<rows, nextId, disk, scans>>

-----------------------------------------------------------------------------
(* The process dies: what it buffered is lost, what it committed is not. *)
Crash(s) ==
    /\ Crashes
    /\ scan[s].phase # "idle"
    /\ Becomes(s, IdleScan)
    /\ UNCHANGED <<rows, nextId, disk, first, scans>>

(* The device reboots, perhaps with other preload directories: scanner.first is false again. *)
Reboot ==
    /\ Crashes
    /\ disk' \in SUBSET Preset
    /\ first' = FALSE
    /\ scan' = [s \in Scanners |-> IdleScan]
    /\ UNCHANGED <<rows, nextId, scans>>

ScanStep(s) ==
    \/ ResetFlags(s) \/ ResetFlagsFails(s)
    \/ OpenDir(s) \/ OpenDirFails(s) \/ PassOverDir(s) \/ AllDirsWalked(s)
    \/ ReadFile(s) \/ ReadFileFails(s) \/ ReaddirFails(s)
    \/ EnterNested(s) \/ EnterNestedFails(s) \/ LeaveNested(s)
    \/ SeeStop(s) \/ DirWalked(s)
    \/ Flush(s) \/ FlushFails(s) \/ CommitTable(s) \/ CommitTableFails(s)
    \/ UpdateDefaultTone(s)
    \/ DeleteNotExist(s) \/ DeleteNotExistFails(s)
    \/ EndScan(s)

Next ==
    \/ \E s \in Scanners : StartScan(s) \/ SetStopFlag(s) \/ ScanStep(s) \/ Crash(s)
    \/ Reboot

Spec     == Init /\ [][Next]_vars

-----------------------------------------------------------------------------
(* What a scan guarantees *)

(* Why a scan may have written no row for a file: it met an error there, or its stop flag. *)
Excused(f) == \E s \in Scanners : scan[s].sawStop \/ f \in scan[s].skipped

(* A row is deleted only if it is a preset row whose file is gone, or one of a file the scan *)
(* failed to write.  In particular a row survives, with its id and settings, every flush,    *)
(* crash and rescan in which its file is met.  (With neither failures nor stops nothing is   *)
(* excused.)                                                                                 *)
OnlyMissingDeleted ==
    [][\A r \in rows :
         (\A q \in rows' : q.id # r.id) =>
             r.file \in Preset /\ (r.file \notin disk \/ Excused(r.file))]_vars

(* When a scan reaches its end without an error, the preset rows are those of the files the  *)
(* directories hold, all flagged: the batches, flushes and per-table commits lose nothing.   *)
FinishedScanIsExact ==
    \A s \in Scanners :
        (scan[s].phase = "end" /\ scan[s].ok) =>
            \A f \in Preset : Excused(f) \/
                /\ (RowsOf(f) # {}) <=> (f \in disk)
                /\ \A r \in RowsOf(f) : r.flag = 1

(* No file ever has two rows, although nothing in the schema forbids it: an entry inserted   *)
(* from a buffer had no row when it was read and has none when it is written.                *)
OneRowPerFile ==
    \A f \in Files : Cardinality(RowsOf(f)) <= 1

(* What the walk read of a row is still true when the buffer is written: the row of an entry *)
(* with an id is there with that id, and an entry without one still has no row.              *)
BuffersCurrent ==
    \A s \in Scanners : \A t \in Tables : \A e \in ToSet(scan[s].buffer[t]) :
        IF e.id = 0 THEN RowsOf(e.file) = {}
                    ELSE \E r \in RowsOf(e.file) : r.id = e.id

(* scanner.first = "true", which keeps later starts from scanning, is never set before the   *)
(* rows match the preload directories, whatever crashes, reboots and abandoned scans came    *)
(* before: what is excused is only what the very scan that set it failed to write.           *)
FirstMeansScanned ==
    first => \A f \in Preset : Excused(f) \/ ((RowsOf(f) # {}) <=> (f \in disk))

-----------------------------------------------------------------------------
(* What a comment says, and the code does not do *)

(* ringtone_scanner.cpp:355, before the walk: "no further operation when stopped".  Once the *)
(* walk has seen the stop flag, the scan at the very least deletes no row of a file that is  *)
(* there.                                                                                    *)
NothingAfterStop ==
    [][\A s \in Scanners : scan[s].sawStop =>
         \A r \in rows : r.file \in disk => \E q \in rows' : q.id = r.id]_vars
=============================================================================
