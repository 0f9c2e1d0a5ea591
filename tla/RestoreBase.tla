---------------------------- MODULE RestoreBase ----------------------------
(***************************************************************************)
(* RingtoneRestoreBase: the state of a restore and the steps the clone     *)
(* (CloneRestore) and the upgrades from the other framework (DualRestore)  *)
(* have in common.  The restore works on the database while the user may   *)
(* choose tones (UserCustomises), and its process may die (Crash), after   *)
(* which it is started again.                                              *)
(*                                                                         *)
(* A path names a tone; two files are the same for the code when their     *)
(* sizes are equal, so the content of a file is its size.                  *)
(***************************************************************************)
EXTENDS ToneSettings

CONSTANTS
    Jobs,           \* the restores that are modelled: see Init
    Names,          \* the destinations a restored file is given in turn: b, b(1), ...;
                    \* the first is its display name; bound: how many are tried
    Relative,       \* the part of a preset tone's path after "/audio/"; "" for others
    ToneKinds,      \* the kinds the tone_type of a preset row is meant for
    Contents,       \* sizes of files
    RINGTONE_VIDEO_MAX_COUNT,
    MaxChanges      \* bound: how often the user chooses a tone during the restore

ASSUME RestoreAssumption ==
    /\ {MaxChanges, RINGTONE_VIDEO_MAX_COUNT} \subseteq Nat
    /\ IsFiniteSet(Paths) /\ "" \notin Paths /\ Names \in [Paths -> Seq(Paths)]

(* A row of SimCardSetting: vibrate_mode, vibrate_file (none, the device's own or the one the *)
(* restore finds) and tone_file; set: it was written.                                        *)
VibrateFile == {"", "own", "std"}
SimRow == [mode : {"null", "none", "sync", "classic"}, vibrate : VibrateFile, tone : Paths \cup {""},
           set : BOOLEAN]
IsSims(table) == table \in [DOMAIN table -> SimRow] /\ DOMAIN table \subseteq SimCards \X Kinds
IsFiles(sizes) == sizes \in [DOMAIN sizes -> Contents] /\ DOMAIN sizes \subseteq Paths

(* What is restored of one tone.  path is where to; on, by and key, vibrate are its settings  *)
(* and the row of SimCardSetting they name; insert, skip: a row and the settings are, or not. *)
Vibrations == {"none", "sync", "classic", "invalid"}
Info == [data : Paths, path : Paths \cup {""}, source : {"preset", "customised"}, video : BOOLEAN,
         on : CardSets, by : [Kinds -> Sources], key : (SimCards \cup {""}) \X (Kinds \cup {""}), vibrate : Vibrations,
         insert : BOOLEAN, skip : BOOLEAN]

(* A setting of the other framework: the tone is a display name, the title of a tone, or null. *)
Setting == {s \in [kind : Kinds, card : AllSlots, tone : Paths, null : BOOLEAN, title : BOOLEAN,
                   vibrate : Vibrations] : s.card \in Slots(s.kind)}

IsBackup(b) ==
    /\ b = [rows |-> b.rows, files |-> b.files, sims |-> b.sims, there |-> b.there]
    /\ IsTable(b.rows) /\ IsFiles(b.files) /\ IsSims(b.sims) /\ b.there \in BOOLEAN

(* The other framework knew two cards. *)
IsJob(j) ==
    /\ j.scene \in {"clone", "dual"} /\ j.completed \in BOOLEAN /\ j.crashes \in Nat
    /\ j.scene = "dual" => {"SIM1", "SIM2"} \subseteq SimCards
    /\ IsTable(j.rows) /\ IsTable(j.factory) /\ IsFiles(j.files) /\ IsSims(j.sims)
    /\ IsBackup(j.backup)
    /\ j.settings \in Seq(Setting) /\ IsFiles(j.gallery) /\ j.cards \subseteq SimCards
    /\ \A ch \in j.choices : ch \in Kinds \X AllSlots \X Paths /\ ch[2] \in Slots(ch[1])

ASSUME JobsAssumption == \A j \in Jobs : IsJob(j)

VARIABLES
    job,            \* what is restored to which device, what the user may choose meanwhile
                    \* (choices) and how often the process dies (crashes): never changes
    backup,         \* the directory that is restored: [rows, files, sims, there]
    phase, ret,     \* the next step, and the result the promise resolves to
    completed,      \* ringtone.scanner.completed of the preferences
    rows,           \* ToneFiles
    files,          \* the tone files of the device: from path to size
    sims,           \* SimCardSetting: from <<card, kind>>
    work,           \* memory of the restore
    given,          \* history: <<kind, card, path>> of the device or the user's choice
    intact,         \* history: no call has failed and the process has not died
    changes, crashes

vars == <<job, backup, phase, ret, completed, rows, files, sims, work, given, intact,
          changes, crashes>>
device == <<completed, rows, files, sims>>
history == <<given, intact, changes, crashes>>

NoWork == [noTone |-> {}, steps |-> <<>>, infos |-> <<>>, values |-> <<>>, cache |-> {}, presets |-> <<>>,
           todo |-> {}]

Init ==
    /\ job \in Jobs
    /\ backup = job.backup
    /\ phase = IF job.scene = "clone" THEN "backup" ELSE "ready"
    /\ ret = "none"
    /\ completed = job.completed
    /\ rows = job.rows
    /\ files = job.files
    /\ sims = job.sims
    /\ work = NoWork
    /\ given = {h \in Kinds \X AllSlots \X (DOMAIN job.factory \cup DOMAIN job.rows) :
                    \/ Holds(job.rows, h[3], h[1], h[2])
                    \/ ~job.completed /\ Holds(job.factory, h[3], h[1], h[2])}
    /\ intact = TRUE
    /\ changes = 0
    /\ crashes = 0

-----------------------------------------------------------------------------
(* CheckSetting *)

(* A customised setting of the device is kept, and so is the choice of no tone, except for   *)
(* the alarm.                                                                                *)
NeedCommit(kind, card) ==
    /\ ~IsCardAlreadyCustomised(rows, kind, card)
    /\ kind = "alarm" \/ <<kind, card>> \notin work.noTone

\* Mutant: a customised setting of one card is committed for all.
CommitsForAll(info) ==
    {[path |-> info.path, kind |-> k, by |-> "customised",
      cards |-> {c \in Slots(k) : NeedCommit(k, c)}] :
        k \in {k \in Kinds : info.by[k] = "customised"}}

Commits(info) ==
    {[path |-> info.path, kind |-> k, by |-> "customised",
      cards |-> {c \in info.on[k] : NeedCommit(k, c)}] :
        k \in {k \in Kinds : info.by[k] = "customised"}}

(* A tone that was never set for the kind: the row of the device forgets its preset setting. *)
Clears(info, kind) ==
    kind \notin CardKinds /\ info.on[kind] = {} /\ info.by[kind] = "invalid"

ClearLocalDBTypeSetting(table, info) ==
    Change(table, {info.path},
           LAMBDA row : LET C == {k \in Kinds : Clears(info, k) /\ row.by[k] # "customised"}
                        IN [row EXCEPT !.on = [k \in Kinds |-> IF k \in C THEN {} ELSE @[k]],
                                       !.by = [k \in Kinds |-> IF k \in C THEN "notSet" ELSE @[k]]])

(* Only a row of SimCardSetting whose vibrate_mode is NULL, not set yet, is written.         *)
UpdateSettingTable(table, key, asset) ==
    IF key \in DOMAIN table /\ ~table[key].set
    THEN [table EXCEPT ![key] = [asset EXCEPT !.set = TRUE,
                                              !.tone = IF @ = "" THEN table[key].tone ELSE @]]
    ELSE table

(* The vibration of the setting, if it names one; the file may not be found. *)
CheckUpdateVibrateSetting(info, found) ==
    IF info.vibrate = "invalid" THEN sims
    ELSE UpdateSettingTable(sims, info.key,
             [mode |-> info.vibrate, tone |-> info.data, set |-> TRUE,
              vibrate |-> IF info.vibrate = "none" THEN "" ELSE found])

CheckSetting(info, found) ==
    /\ rows' = ClearLocalDBTypeSetting(rows, info)
    /\ sims' = CheckUpdateVibrateSetting(info, found)

-----------------------------------------------------------------------------
(* Init of the object, by the factory, and StartRestore of the base class. *)

(* Without the database of the backup, or without the device's, nothing starts.  Otherwise   *)
(* the presets are scanned once, which leaves the settings of the rows that are there, and   *)
(* the scan counts as completed whatever it returns.                                         *)
StartFails ==
    /\ phase = "ready"
    /\ phase' = "ended"
    /\ ret' = IF backup.there THEN "fail" ELSE "dbError"
    /\ intact' = FALSE
    /\ UNCHANGED <<job, backup, device, work, given, changes, crashes>>

StartRestore ==
    /\ phase = "ready"
    /\ backup.there
    /\ phase' = "started"
    /\ ret' = "none"
    /\ completed' = TRUE
    /\ \E scanned \in BOOLEAN :
        /\ completed => ~scanned
        /\ rows' = IF scanned THEN Merge(rows, job.factory) ELSE rows
        /\ intact' = (intact /\ (completed \/ scanned))
    /\ UNCHANGED <<job, backup, files, sims, work, given, changes, crashes>>

(* The slots without a tone before the restore changes anything. *)
CacheInitialNoRingtoneState ==
    /\ phase = "started"
    /\ phase' = IF job.scene = "clone" THEN "noTone" ELSE "eSim"
    /\ work' = [work EXCEPT !.noTone =
                    {s \in Kinds \X AllSlots : s[2] \in Slots(s[1]) /\ IsDetermineNoRingtone(rows, s[1], s[2])}]
    /\ UNCHANGED <<job, backup, ret, device, history>>

-----------------------------------------------------------------------------
(* InsertTones *)

(* The row of a restored tone: SetInsertValue writes no setting. *)
SetInsertValue(info) ==
    [source |-> info.source, video |-> info.video,
     on |-> [k \in Kinds |-> {}], by |-> [k \in Kinds |-> "invalid"]]

\* Mutant: a file of the same name is taken for the same file.
TargetByName(path, data, size) == path = Names[data][1]

(* The path is the first of the names of a file that is free or is taken by the same file;   *)
(* Names bounds how many the code tries.                                                     *)
Target(path, data, size) ==
    LET fits(i) == Names[data][i] \in DOMAIN files => files[Names[data][i]] = size
    IN  \E i \in DOMAIN Names[data] :
            path = Names[data][i] /\ fits(i) /\ \A j \in 1 .. i - 1 : ~fits(j)

EndOfInserts ==
    /\ phase = "insert"
    /\ work.infos = <<>>
    /\ phase' = "batch"
    /\ UNCHANGED <<job, backup, ret, device, work, history>>

(* One transaction (RdbTransaction).  If it fails the settings are flushed all the same.     *)
(* A path that has a row gets a second one; as every update goes by path, one stands for     *)
(* both.                                                                                     *)
BatchInsert ==
    /\ phase = "batch"
    /\ \/ /\ rows' = Merge(rows, work.values)
          /\ ret' = "ok"
          /\ phase' = "finish"
          /\ UNCHANGED intact
       \/ /\ ret' = "fail"
          /\ phase' = "flush"
          /\ intact' = FALSE
          /\ UNCHANGED rows
    /\ UNCHANGED <<job, backup, completed, files, sims, work, given, changes, crashes>>

(* OnFinished: the clone removes the directory of the backup, its database included. *)
OnFinished ==
    /\ phase = "finish"
    /\ phase' = "flush"
    /\ backup' = IF job.scene = "clone" THEN [backup EXCEPT !.there = FALSE, !.files = <<>>] ELSE backup
    /\ UNCHANGED <<job, ret, device, work, history>>

-----------------------------------------------------------------------------
(* FlushSettings: the presets' cards are remembered, then the cards of the items are         *)
(* applied one by one, each a query or several and an update.                                *)
BeginFlush ==
    /\ phase = "flush"
    /\ phase' = "flushing"
    /\ \E presets \in PresetCardBits(rows) :
        work' = [work EXCEPT !.presets = presets, !.todo = FlushSteps(work.cache)]
    /\ UNCHANGED <<job, backup, ret, device, history>>

\* Mutant: the loop does not move on.
FlushOneAgain ==
    /\ phase = "flushing"
    /\ \E step \in work.todo :
        /\ IsNext(step, work.todo)
        /\ rows' = Flush(rows, work.cache, work.presets, step, TRUE)
    /\ UNCHANGED <<job, backup, phase, ret, completed, files, sims, work, history>>

FlushOne ==
    /\ phase = "flushing"
    /\ \E step \in work.todo :
        /\ IsNext(step, work.todo)
        /\ rows' = Flush(rows, work.cache, work.presets, step, TRUE)
        /\ work' = [work EXCEPT !.todo = @ \ {step}]
    /\ UNCHANGED <<job, backup, phase, ret, completed, files, sims, history>>

EndFlush ==
    /\ phase = "flushing"
    /\ work.todo = {}
    /\ phase' = IF job.scene = "clone" THEN "clear" ELSE "sanitize"
    /\ work' = [work EXCEPT !.cache = {}]
    /\ UNCHANGED <<job, backup, ret, device, history>>

(* A synchronised vibration without a file takes a file of VibrateFiles, or is turned off;   *)
(* nothing happens if the table is empty, and an update may fail.                            *)
IsDirty(row) == row.mode = "sync" /\ row.vibrate = "" /\ row.tone # ""

SanitizeVibrateRecords ==
    /\ phase = "sanitize"
    /\ phase' = "ended"
    /\ LET dirty == {k \in DOMAIN sims : IsDirty(sims[k])}
       IN  \E fixed \in SUBSET dirty : \E off \in {{}, dirty \ fixed} :
            sims' = [k \in DOMAIN sims |->
                        IF k \in fixed THEN [sims[k] EXCEPT !.vibrate = "std"]
                        ELSE IF k \in off THEN [sims[k] EXCEPT !.mode = "none"] ELSE sims[k]]
    /\ UNCHANGED <<job, backup, ret, completed, rows, files, work, history>>

-----------------------------------------------------------------------------
(* Meanwhile *)

(* RingtoneDataManager::Update on behalf of the user, who chooses a tone for a card: the     *)
(* tone chosen before gives the card up.                                                     *)
UserCustomises ==
    /\ changes < MaxChanges
    /\ changes' = changes + 1
    /\ \E choice \in {ch \in job.choices : ch[3] \in DOMAIN rows} :
        LET k == choice[1]
            c == choice[2]
            p == choice[3]
        IN
        /\ rows' = [q \in DOMAIN rows |->
                LET rest == rows[q].on[k] \ {c}
                IN  IF q = p
                    THEN [rows[q] EXCEPT !.on[k] = @ \cup {c}, !.by[k] = "customised"]
                    ELSE [rows[q] EXCEPT !.on[k] = rest,
                                         !.by[k] = IF rest = {} /\ c \in rows[q].on[k] THEN "notSet" ELSE @]]
        /\ given' = given \cup {choice}
    /\ UNCHANGED <<job, backup, phase, ret, completed, files, sims, work, intact, crashes>>

(* The process dies between two steps; the caller starts the restore again. *)
Crash ==
    /\ phase \notin {"backup", "ready", "ended"}
    /\ crashes < job.crashes
    /\ crashes' = crashes + 1
    /\ phase' = "ready"
    /\ work' = NoWork
    /\ intact' = FALSE
    /\ UNCHANGED <<job, backup, ret, device, given, changes>>

BaseStep ==
    \/ StartFails
    \/ StartRestore
    \/ CacheInitialNoRingtoneState
    \/ EndOfInserts
    \/ BatchInsert
    \/ OnFinished
    \/ BeginFlush
    \/ FlushOne
    \/ EndFlush
    \/ SanitizeVibrateRecords
=============================================================================
