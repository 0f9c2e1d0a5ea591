---------------------------- MODULE DataManager -----------------------------
(***************************************************************************)
(* RingtoneDataManager: Insert and Delete, which the data-share extension  *)
(* runs on the threads of its callers, against each other and against the  *)
(* Init and ClearRingtoneDataMgr of OnStart and OnStop.  Insert and Delete *)
(* hold mgrSharedMutex_ shared, so they do not exclude each other; each    *)
(* database call and each file system call is a step.                      *)
(*                                                                         *)
(* A row is its table, id, path and whether it is a video.  A write to the *)
(* SIM card settings returns before a row is looked up and touches neither *)
(* tones nor files: it is no request of this module.  The lock has         *)
(* the behaviours a shared_mutex may have: with WriterFirst, a thread that *)
(* asks for it shared waits for one that already asks for it exclusively.  *)
(***************************************************************************)
EXTENDS Integers, FiniteSets

CONSTANTS
    Clients,                    \* the threads that serve callers
    Inserters,                  \* those whose callers insert
    Deleters,                   \* those whose callers delete
    DeleteKinds,                \* what a deletion selects rows by: "byPath", "byId"
    Tables,                     \* the tables they write
    Paths,                      \* the file paths the callers use
    PresetPath,                 \* the path of the preset row
    RINGTONE_VIDEO_MAX_COUNT,   \* the video ringtones the database may hold
    MaxRequests,                \* bound: requests in a behaviour
    MaxStops,                   \* bound: OnStop calls
    WriterFirst,                \* TRUE: a waiting writer goes before new readers
    Failures                    \* what may fail: calls of the "store", "file" system calls

ASSUME DataManagerAssumption ==
    /\ Inserters \subseteq Clients
    /\ Deleters \subseteq Clients
    /\ DeleteKinds \subseteq {"byPath", "byId"}
    /\ Tables \subseteq {"ToneFiles", "VibrateFiles"}
    /\ PresetPath \in Paths
    /\ RINGTONE_VIDEO_MAX_COUNT \in Nat
    /\ MaxRequests \in Nat
    /\ MaxStops \in Nat
    /\ WriterFirst \in BOOLEAN
    /\ Failures \subseteq {"store", "file"}

VARIABLES
    rows,               \* the rows of the two tables
    nextId,             \* the next AUTOINCREMENT id of each table
    files,              \* the paths that exist
    refCnt,             \* refCnt_
    shared,             \* how often each client holds mgrSharedMutex_ shared
    ability,            \* the ability: up, stopping, down, starting
    requests,           \* how many requests were made
    stops,              \* how many times OnStop ran
    op                  \* the request each client is serving

vars == <<rows, nextId, files, refCnt, shared, ability, requests, stops, op>>

Ids == 1 .. MaxRequests + 1

(* idle; lock: before shared_lock; check, row, asset, exists, create: in Insert; undoLock,   *)
(* undo: in the Delete of DeleteRingtoneRowById; query, unlink, delete: in Delete; done.     *)
Places == {"idle", "lock", "check", "row", "asset", "exists", "create",
           "undoLock", "undo", "query", "unlink", "delete", "done"}

Row == [table : {"ToneFiles", "VibrateFiles"}, id : Ids, path : Paths, video : BOOLEAN]

(* kind: what was asked; row: what Insert is to write, with its id once it is written, or    *)
(* the predicate of Delete, by path or by id; file: the path of the asset Insert looked up;  *)
(* found: the paths Delete still has to remove; ret: the outcome.                            *)
IdleOp ==
    [place |-> "idle", kind |-> "none", table |-> "ToneFiles", path |-> PresetPath,
     video |-> FALSE, id |-> 0, file |-> PresetPath, found |-> {}, ret |-> "none"]

TypeOK ==
    /\ rows \subseteq Row
    /\ nextId \in [{"ToneFiles", "VibrateFiles"} -> Nat]
    /\ files \subseteq Paths
    /\ refCnt \in 0 .. 1
    /\ shared \in [Clients -> 0 .. 2]
    /\ ability \in {"up", "stopping", "down", "starting"}
    /\ requests \in 0 .. MaxRequests
    /\ stops \in 0 .. MaxStops
    /\ op \in [Clients ->
         [place : Places, kind : {"none", "insert", "byPath", "byId"},
          table : {"ToneFiles", "VibrateFiles"}, path : Paths, video : BOOLEAN, id : Ids \cup {0},
          file : Paths, found : SUBSET Paths, ret : {"none", "ok", "error"}]]

(* One preset ringtone, after the OnStart of the extension. *)
Init ==
    /\ rows = {[table |-> "ToneFiles", id |-> 1, path |-> PresetPath, video |-> FALSE]}
    /\ nextId = [t \in {"ToneFiles", "VibrateFiles"} |-> IF t = "ToneFiles" THEN 2 ELSE 1]
    /\ files = {PresetPath}
    /\ refCnt = 1
    /\ shared = [c \in Clients |-> 0]
    /\ ability = "up"
    /\ requests = 0
    /\ stops = 0
    /\ op = [c \in Clients |-> IdleOp]

At(c, place) == op[c].place = place
Goto(c, place) == op' = [op EXCEPT ![c].place = place]

(* The request is over, with its outcome; every shared hold of the client is given up. *)
Return(c, ret) ==
    /\ op' = [op EXCEPT ![c].place = "done", ![c].ret = ret]
    /\ shared' = [shared EXCEPT ![c] = 0]

-----------------------------------------------------------------------------
(* mgrSharedMutex_ *)

WriterWaits == ability \in {"stopping", "starting"}

(* Init and ClearRingtoneDataMgr hold the mutex exclusively within one step. *)
MayShare == ~(WriterFirst /\ WriterWaits)
NoneShared == \A c \in Clients : shared[c] = 0

LockShared(c) ==
    /\ At(c, "lock")
    /\ MayShare
    /\ IF refCnt <= 0
       THEN Return(c, "error")
       ELSE /\ shared' = [shared EXCEPT ![c] = 1]
            /\ Goto(c, IF op[c].kind = "insert" THEN "check" ELSE "query")
    /\ UNCHANGED <<rows, nextId, files, refCnt, ability, requests, stops>>

(* OnStop asks for the lock, and gets it when no request holds it. *)
OnStop ==
    /\ ability = "up"
    /\ stops < MaxStops
    /\ stops' = stops + 1
    /\ ability' = "stopping"
    /\ UNCHANGED <<rows, nextId, files, refCnt, shared, requests, op>>

(* A mutant of ClearRingtoneDataMgr: the mutex is not taken. *)
ClearUnlocked ==
    /\ ability = "stopping"
    /\ refCnt' = refCnt - 1
    /\ ability' = "down"
    /\ UNCHANGED <<rows, nextId, files, shared, requests, stops, op>>

ClearRingtoneDataMgr ==
    /\ ability = "stopping"
    /\ NoneShared
    /\ refCnt' = refCnt - 1
    /\ ability' = "down"
    /\ UNCHANGED <<rows, nextId, files, shared, requests, stops, op>>

OnStart ==
    /\ ability = "down"
    /\ ability' = "starting"
    /\ UNCHANGED <<rows, nextId, files, refCnt, shared, requests, stops, op>>

(* A mutant of InitManager: the extension is not counted again. *)
InitUncounted ==
    /\ ability = "starting"
    /\ NoneShared
    /\ ability' = "up"
    /\ UNCHANGED <<rows, nextId, files, refCnt, shared, requests, stops, op>>

(* Init, which counts one more extension whether or not it is the first.  It can fail only   *)
(* where no store was ever opened, that is in the first OnStart, which then kills the        *)
(* application: g_uniStore is of the process and stays.                                      *)
InitManager ==
    /\ ability = "starting"
    /\ NoneShared
    /\ refCnt' = refCnt + 1
    /\ ability' = "up"
    /\ UNCHANGED <<rows, nextId, files, shared, requests, stops, op>>

-----------------------------------------------------------------------------
(* Requests *)

AskInsert(c) ==
    /\ c \in Inserters
    /\ At(c, "idle") \/ At(c, "done")
    /\ requests < MaxRequests
    /\ requests' = requests + 1
    /\ \E t \in Tables : \E p \in Paths : \E v \in BOOLEAN :
         op' = [op EXCEPT ![c] = [IdleOp EXCEPT !.place = "lock", !.kind = "insert",
                                     !.table = t, !.path = p, !.video = v /\ t = "ToneFiles"]]
    /\ UNCHANGED <<rows, nextId, files, refCnt, shared, ability, stops>>

(* A caller deletes the rows of a path, or a row whose id it knows from a query. *)
AskDelete(c) ==
    /\ c \in Deleters
    /\ At(c, "idle") \/ At(c, "done")
    /\ requests < MaxRequests
    /\ requests' = requests + 1
    /\ \E r \in rows : \E kind \in DeleteKinds :
         op' = [op EXCEPT ![c] = [IdleOp EXCEPT !.place = "lock", !.kind = kind,
                                     !.table = r.table, !.path = r.path, !.id = r.id]]
    /\ UNCHANGED <<rows, nextId, files, refCnt, shared, ability, stops>>

-----------------------------------------------------------------------------
(* Insert *)

Videos == {r \in rows : r.video}

(* A mutant of RoomForVideo: one more than the limit. *)
RoomForOneMore == Cardinality(Videos) <= RINGTONE_VIDEO_MAX_COUNT

RoomForVideo == Cardinality(Videos) < RINGTONE_VIDEO_MAX_COUNT

(* CheckVideoRingtoneSize: the space left, then the count of video rows. *)
CheckVideoRingtoneSize(c) ==
    /\ At(c, "check")
    /\ \/ /\ ~op[c].video \/ RoomForVideo
          /\ Goto(c, "row")
          /\ UNCHANGED shared
       \/ /\ op[c].video
          /\ ~RoomForVideo \/ Failures # {}
          /\ Return(c, "error")
    /\ UNCHANGED <<rows, nextId, files, refCnt, ability, requests, stops>>

InsertRow(c) ==
    /\ At(c, "row")
    /\ LET id == nextId[op[c].table] IN
       /\ rows' = rows \cup {[table |-> op[c].table, id |-> id, path |-> op[c].path,
                              video |-> op[c].video]}
       /\ nextId' = [nextId EXCEPT ![op[c].table] = id + 1]
       /\ op' = [op EXCEPT ![c].place = "asset", ![c].id = id]
    /\ UNCHANGED <<files, refCnt, shared, ability, requests, stops>>

InsertRowFails(c) ==
    /\ At(c, "row")
    /\ "store" \in Failures
    /\ Return(c, "error")
    /\ UNCHANGED <<rows, nextId, files, refCnt, ability, requests, stops>>

(* GetRingtoneAssetFromId looks the id up in ToneFiles, whatever table the row went to. *)
AssetRows(c) == {r \in rows : r.table = "ToneFiles" /\ r.id = op[c].id}

GetAsset(c) ==
    /\ At(c, "asset")
    /\ \E r \in AssetRows(c) :
          op' = [op EXCEPT ![c].place = "exists", ![c].file = r.path]
    /\ UNCHANGED <<rows, nextId, files, refCnt, shared, ability, requests, stops>>

GetAssetFails(c) ==
    /\ At(c, "asset")
    /\ AssetRows(c) = {} \/ "store" \in Failures
    /\ Goto(c, "undoLock")
    /\ UNCHANGED <<rows, nextId, files, refCnt, shared, ability, requests, stops>>

(* A mutant of FileExists: a file that is there is written again. *)
FileExistsUnseen(c) ==
    /\ At(c, "exists")
    /\ Goto(c, "create")
    /\ UNCHANGED <<rows, nextId, files, refCnt, shared, ability, requests, stops>>

(* CreateFile asks whether the file exists ... *)
FileExists(c) ==
    /\ At(c, "exists")
    /\ Goto(c, IF op[c].file \in files THEN "undoLock" ELSE "create")
    /\ UNCHANGED <<rows, nextId, files, refCnt, shared, ability, requests, stops>>

(* ... and then creates it. *)
CreateFile(c) ==
    /\ At(c, "create")
    /\ files' = files \cup {op[c].file}
    /\ Return(c, "ok")
    /\ UNCHANGED <<rows, nextId, refCnt, ability, requests, stops>>

(* A mutant of CreateFileFails: the row is not deleted. *)
CreateFileFailsOnly(c) ==
    /\ At(c, "create")
    /\ "file" \in Failures
    /\ Return(c, "error")
    /\ UNCHANGED <<rows, nextId, files, refCnt, ability, requests, stops>>

CreateFileFails(c) ==
    /\ At(c, "create")
    /\ "file" \in Failures
    /\ Goto(c, "undoLock")
    /\ UNCHANGED <<rows, nextId, files, refCnt, shared, ability, requests, stops>>

(* DeleteRingtoneRowById calls Delete, which takes the mutex shared a second time.  It also  *)
(* looks at refCnt_ again, which by ServedWhileInitialised tells it nothing new.             *)
UndoLock(c) ==
    /\ At(c, "undoLock")
    /\ MayShare
    /\ shared' = [shared EXCEPT ![c] = 2]
    /\ Goto(c, "undo")
    /\ UNCHANGED <<rows, nextId, files, refCnt, ability, requests, stops>>

(* The row with the id is deleted from ToneFiles, whatever table the row went to. *)
Undo(c) ==
    /\ At(c, "undo")
    /\ \/ rows' = rows \ AssetRows(c)
       \/ "store" \in Failures /\ UNCHANGED rows
    /\ Return(c, "error")
    /\ UNCHANGED <<nextId, files, refCnt, ability, requests, stops>>

-----------------------------------------------------------------------------
(* Delete *)

Matches(c) ==
    {r \in rows : /\ r.table = op[c].table
                  /\ IF op[c].kind = "byPath" THEN r.path = op[c].path ELSE r.id = op[c].id}

(* The rows are queried for their paths; a query that fails deletes no file. *)
QueryPaths(c) ==
    /\ At(c, "query")
    /\ \/ op' = [op EXCEPT ![c].place = "unlink", ![c].found = {r.path : r \in Matches(c)}]
       \/ "store" \in Failures /\ Goto(c, "delete")
    /\ UNCHANGED <<rows, nextId, files, refCnt, shared, ability, requests, stops>>

(* A mutant of UnlinkNext: the loop stays at its first row. *)
UnlinkFirst(c) ==
    /\ At(c, "unlink")
    /\ IF op[c].found = {}
       THEN Goto(c, "delete") /\ UNCHANGED files
       ELSE \E p \in op[c].found : files' = files \ {p} /\ UNCHANGED op
    /\ UNCHANGED <<rows, nextId, refCnt, shared, ability, requests, stops>>

(* DeleteFileFromResultSet: file by file, a failure being ignored. *)
UnlinkNext(c) ==
    /\ At(c, "unlink")
    /\ IF op[c].found = {}
       THEN Goto(c, "delete") /\ UNCHANGED files
       ELSE \E p \in op[c].found :
              /\ op' = [op EXCEPT ![c].found = @ \ {p}]
              /\ \/ files' = files \ {p}
                 \/ "file" \in Failures /\ UNCHANGED files
    /\ UNCHANGED <<rows, nextId, refCnt, shared, ability, requests, stops>>

(* The rows that match now are deleted; none is an error. *)
DeleteRows(c) ==
    /\ At(c, "delete")
    /\ rows' = rows \ Matches(c)
    /\ Return(c, IF Matches(c) = {} THEN "error" ELSE "ok")
    /\ UNCHANGED <<nextId, files, refCnt, ability, requests, stops>>

DeleteRowsFails(c) ==
    /\ At(c, "delete")
    /\ "store" \in Failures
    /\ Return(c, "error")
    /\ UNCHANGED <<rows, nextId, files, refCnt, ability, requests, stops>>

-----------------------------------------------------------------------------

Serve(c) ==
    \/ LockShared(c)
    \/ CheckVideoRingtoneSize(c) \/ InsertRow(c) \/ InsertRowFails(c)
    \/ GetAsset(c) \/ GetAssetFails(c)
    \/ FileExists(c) \/ CreateFile(c) \/ CreateFileFails(c)
    \/ UndoLock(c) \/ Undo(c)
    \/ QueryPaths(c) \/ UnlinkNext(c) \/ DeleteRows(c) \/ DeleteRowsFails(c)

Ability == OnStop \/ ClearRingtoneDataMgr \/ OnStart \/ InitManager

Next ==
    \/ \E c \in Clients : AskInsert(c) \/ AskDelete(c) \/ Serve(c)
    \/ Ability

(* A request that can go on does, and so does an OnStop or OnStart that has begun; callers   *)
(* need not ask, nor the system stop or start the ability.                                   *)
Fairness ==
    /\ \A c \in Clients : WF_vars(Serve(c))
    /\ WF_vars(ClearRingtoneDataMgr)
    /\ WF_vars(InitManager)

Spec     == Init /\ [][Next]_vars
FairSpec == Spec /\ Fairness

-----------------------------------------------------------------------------
(* What the manager guarantees *)

Quiet == \A c \in Clients : op[c].place \in {"idle", "done"}

(* The manager is never torn down under a request: refCnt_ is checked once, and stays        *)
(* positive until the request lets go of the mutex.                                          *)
ServedWhileInitialised ==
    \A c \in Clients : shared[c] > 0 => refCnt > 0

(* Between requests every tone row has its file, even while two callers insert and one also  *)
(* deletes, and file system calls fail.  (The deletions are by path: one by id may pick the  *)
(* row that an Insert is about to roll back, and take away the file of the row it doubles.)  *)
RowsHaveFiles ==
    Quiet => \A r \in rows : r.path \in files

(* An Insert into ToneFiles that returns an error leaves no row behind, at whatever file     *)
(* system call it failed.  (The rollback of a row of VibrateFiles looks in ToneFiles, so it  *)
(* leaves the row, and a rollback that the database refuses does; neither is in the run.)    *)
FailedInsertLeavesNoRow ==
    \A c \in Clients :
        At(c, "done") /\ op[c].kind = "insert" /\ op[c].ret = "error" =>
            ~\E r \in rows : r.table = op[c].table /\ r.id = op[c].id

(* A path is inserted twice only by callers that insert it at the same time: no column of    *)
(* ToneFiles is unique, the file is looked for and created in two steps                      *)
(* (ringtone_file_utils.cpp:414, 419), and only that look makes an Insert give its row up.   *)
(* So, between requests, a path has a row for each inserting caller at most, whatever is     *)
(* deleted by path meanwhile and whatever file system call fails.                            *)
DoubledByCallers ==
    Quiet => \A p \in Paths :
        Cardinality({r \in rows : r.path = p}) <= Cardinality(Inserters)

(* The video rows exceed RINGTONE_VIDEO_MAX_COUNT, if at all, by the callers that insert at  *)
(* the same time: the count is checked before the row is written, and neither under an       *)
(* exclusive lock, so all of them but one may pass on the same count.                        *)
VideoOverrun ==
    Cardinality(Videos) <= RINGTONE_VIDEO_MAX_COUNT + Cardinality(Inserters) - 1

(* ringtone_datashare_extension.cpp:470: Insert returns the row's id or an error code.       *)
(* Every request comes back.                                                                 *)
RequestsEnd ==
    \A c \in Clients : At(c, "lock") ~> At(c, "done")
=============================================================================
