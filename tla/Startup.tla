------------------------------ MODULE Startup ------------------------------
(***************************************************************************)
(* A start of the ability, from RingtoneRdbStore::Init, which finds or     *)
(* moves the database and upgrades it (Upgrade), over the folder of the    *)
(* user's tones, the boot scan with the default settings, the move of the  *)
(* files of old versions and the language of titles, to the requests it    *)
(* serves (ESimMigration); with crashes, after which it starts again.      *)
(*                                                                         *)
(* BootScan models the walk, its batches and its deletions; here a scan    *)
(* reads the rows of all preset tones, job.factory, and later writes them. *)
(***************************************************************************)
EXTENDS Upgrade, ESimMigration

(* The next phase, whatever came of this one. *)
Then(next) == phase' = next /\ work' = work

-----------------------------------------------------------------------------
(* RingtoneRdbStore::Init *)

(* ChecMoveDb: the database is moved once, if that of el2 was scanned. *)
ChecMoveDb ==
    /\ phase = "off"
    /\ \/ /\ phase' = "open"
          /\ work' = [NoWork EXCEPT !.open = IF ~prefs.completed /\ job.el2Completed THEN "el2" ELSE "el1"]
          /\ UNCHANGED failures
       \/ Fails /\ Then("off")
    /\ Calm /\ UNCHANGED <<dbs, prefs, files, folder>>

MoveEL2DBToEL1DB ==
    /\ phase = "backup"
    /\ \/ /\ dbs' = [dbs EXCEPT !.el1 = dbs.el2]
          /\ Then("moved")
          /\ UNCHANGED failures
       \/ Fails /\ Then("off") /\ UNCHANGED dbs
    /\ Calm /\ UNCHANGED <<prefs, files, folder>>

SetMoveEL2DBToEL1 ==
    /\ phase = "moved"
    /\ \/ prefs' = [prefs EXCEPT !.completed = TRUE] /\ UNCHANGED failures
       \/ Fails /\ UNCHANGED prefs
    /\ phase' = "open"
    /\ work' = NoWork
    /\ Calm /\ UNCHANGED <<dbs, files, folder>>

-----------------------------------------------------------------------------
(* OnStart *)

(* The defaults of a database whose conf table names the ringtone of card 1 are in place. *)
CheckRingtoneDbDefaultSettings ==
    /\ phase = "defaults"
    /\ \/ /\ prefs' = [prefs EXCEPT !.initScanner =
                @ \/ \E x \in DOMAIN dbs.el1.conf : x = <<"ring", "SIM1">> /\ dbs.el1.conf[x] # "null"]
          /\ UNCHANGED failures
       \/ Fails /\ UNCHANGED prefs
    /\ Then("dir")
    /\ Calm /\ UNCHANGED <<dbs, files, folder>>

In(place) == {f \in files : f[2] = place}
Moved(F, place) == {<<f[1], place>> : f \in F}

(* AccessRingtoneDir: a folder the group cannot write to is renamed to a temporary one, made   *)
(* anew, and gets its files back.  Only a folder whose subfolders cannot be made is empty.     *)
AccessRingtoneDir ==
    /\ phase = "dir"
    /\ \/ /\ folder = "none"
          /\ \/ folder' = "open" /\ UNCHANGED failures
             \/ Fails /\ UNCHANGED folder
          /\ Then("scan") /\ UNCHANGED files
       \/ folder = "open" /\ Then("scan") /\ UNCHANGED <<files, folder, failures>>
       \/ /\ folder = "closed"
          /\ \/ /\ In("new") = {} /\ Fails
                /\ folder' = "open"
                /\ Then("scan") /\ UNCHANGED files
             \/ /\ In("tmp") = {}
                /\ files' = (files \ In("new")) \cup Moved(In("new"), "tmp")
                /\ folder' = "none"
                /\ Then("makeDir") /\ UNCHANGED failures
             \/ /\ \/ In("tmp") # {} /\ UNCHANGED failures
                   \/ Fails
                /\ Then("scan") /\ UNCHANGED <<files, folder>>
    /\ Calm /\ UNCHANGED <<dbs, prefs>>

(* A directory that cannot be made is not noticed, but nothing can then be moved into it, and *)
(* CreateRingtoneDir tries once more; what was renamed stays under the temporary name.        *)
CreatePreloadFolder ==
    /\ phase = "makeDir"
    /\ \/ folder' = "open" /\ Then("moveBack") /\ UNCHANGED failures
       \/ Fails /\ folder' \in {"open", "none"} /\ Then("scan")
    /\ Calm /\ UNCHANGED <<dbs, prefs, files>>

MoveDirectory ==
    /\ phase = "moveBack"
    /\ \E done \in SUBSET In("tmp") :
        /\ files' = (files \ done) \cup Moved(done, "new")
        /\ Ends(done = In("tmp"), "scan", work)
    /\ UNCHANGED <<job, dbs, prefs, folder>>

(* CheckCurrentUser and the parameter of the first scan, which a user who is new resets. *)
RingtoneScanner ==
    /\ phase = "scan"
    /\ known' = TRUE
    /\ first' = (first /\ known)
    /\ IF first' THEN Then("paths") /\ UNCHANGED scan
       ELSE Then("wait") /\ scan' = [NoScan EXCEPT !.phase = "walk"]
    /\ UNCHANGED <<job, dbs, prefs, files, folder, clients, history, failures, crashes>>

(* For the notification of the scan's end, but no longer than 20 seconds. *)
WaitFor ==
    /\ phase = "wait"
    /\ scan.phase = "idle" \/ job.late
    /\ history' = [history EXCEPT !.late = @ \/ scan.phase # "idle"]
    /\ Then("paths")
    /\ UNCHANGED <<job, storage, scan, clients, failures, crashes>>

-----------------------------------------------------------------------------
(* UpdataRdbPathData, as long as there is an old folder.  It stays if no row names a file in   *)
(* it.                                                                                         *)
QueryOldPaths ==
    /\ phase = "paths"
    /\ LET due == {t \in DOMAIN rows : rows[t].place = "old"}
       IN  IF In("old") = {} \/ due = {} THEN Then("ringtones") /\ UNCHANGED failures
           ELSE \/ /\ phase' = "copy"
                   /\ work' = [work EXCEPT !.left = due, !.all = TRUE]
                   /\ UNCHANGED failures
                \/ Fails /\ Then("ringtones")
    /\ Calm /\ UNCHANGED <<dbs, prefs, files, folder>>

\* Mutant: a file that could not be copied does not keep the old folder.
CopyIgnored(all, copied) == all

(* bRemoveRingtoneFolder *)
CopyNoted(all, copied) == all /\ copied

(* A file that is not there is not copied either. *)
CopyOldFile ==
    /\ phase = "copy"
    /\ \E t \in work.left, copied \in BOOLEAN :
        /\ phase' = IF copied THEN "save" ELSE "copy"
        /\ work' = [work EXCEPT !.left = @ \ {t}, !.todo = IF copied THEN <<t>> ELSE <<>>,
                               !.all = CopyNoted(@, copied)]
        /\ \/ <<t, "old">> \in files /\ copied /\ UNCHANGED failures
           \/ <<t, "old">> \notin files /\ ~copied /\ UNCHANGED failures
           \/ <<t, "old">> \in files /\ ~copied /\ Fails
        /\ files' = IF copied THEN files \cup {<<t, "new">>} ELSE files
    /\ Calm /\ UNCHANGED <<dbs, prefs, folder>>

(* Whether the row could be updated is not looked at. *)
UpdatePath ==
    /\ phase = "save"
    /\ LET t == Head(work.todo)
       IN  \/ /\ dbs' = [dbs EXCEPT !.el1.rows[t].place = "new"]
              /\ UNCHANGED <<failures, history>>
           \/ /\ Fails
              /\ history' = [history EXCEPT !.unsaved = @ \cup {t}]
              /\ UNCHANGED dbs
    /\ phase' = "copy"
    /\ work' = [work EXCEPT !.todo = <<>>]
    /\ UNCHANGED <<job, prefs, files, folder, first, known, scan, clients, crashes>>

RemoveRingtoneFolder ==
    /\ phase = "copy"
    /\ work.left = {}
    /\ \E gone \in SUBSET In("old") :
        /\ ~work.all => gone = {}
        /\ files' = files \ gone
        /\ Ends(work.all => gone = In("old"), "ringtones", work)
    /\ UNCHANGED <<job, dbs, prefs, folder>>

-----------------------------------------------------------------------------
(* SyncAssetLanguage *)

\* Mutant: a title in another language is left as it is.
NeverTranslated(assets, language) == {a \in DOMAIN assets : assets[a].mark \in {"null", ""}}

(* CheckLanguageTypeByRingtone, CheckLanguageTypeByVibration *)
NotInLanguage(assets, language) == {a \in DOMAIN assets : assets[a].mark # language}

(* SetValuesFromResultSet: what has no translation keeps its title, but counts as translated. *)
InLanguage(assets, done, language) ==
    [a \in DOMAIN assets |->
        IF a \notin done THEN assets[a]
        ELSE [assets[a] EXCEPT !.mark = language, !.title = IF a \in Translated THEN language ELSE @]]

(* Both end at the first update that fails. *)
UpdateRingtoneLanguage ==
    /\ phase = "ringtones"
    /\ \E language \in job.languages :
        LET presets == {t \in DOMAIN rows : rows[t].source = "preset"}
            due == NotInLanguage(rows, language) \cap presets
        IN  \E done \in SUBSET due :
            /\ dbs' = [dbs EXCEPT !.el1.rows = InLanguage(@, done, language)]
            /\ Ends(done = due, "vibrations", [work EXCEPT !.language = language])
    /\ Rest /\ UNCHANGED prefs

UpdateVibrationLanguage ==
    /\ phase = "vibrations"
    /\ LET due == NotInLanguage(dbs.el1.vibrations, work.language) \cap StandardVibrations
       IN  \E done \in SUBSET due :
            /\ dbs' = [dbs EXCEPT !.el1.vibrations = InLanguage(@, done, work.language)]
            /\ Ends(done = due, "serving", work)
    /\ Rest /\ UNCHANGED prefs

-----------------------------------------------------------------------------
(* The boot scan, a thread of the executor *)

Apart == UNCHANGED <<job, known, files, folder, phase, work, clients, history, crashes>>

NewTone == [source |-> "preset", on |-> [k \in Kinds |-> {}], by |-> [k \in Kinds |-> "invalid"],
            place |-> "preset", title |-> "file", mark |-> "null", mime |-> TRUE, media |-> TRUE]

(* BuildData starts from the row as it is, BuildVibrateData from its title only. *)
BuildData ==
    /\ scan.phase = "walk"
    /\ scan' = [scan EXCEPT !.phase = "write",
            !.buffer.rows = [t \in job.factory |->
                IF t \in DOMAIN rows THEN [rows[t] EXCEPT !.mime = TRUE, !.media = TRUE] ELSE NewTone],
            !.buffer.vibrations = [v \in job.vibrations |->
                [title |-> IF v \in DOMAIN dbs.el1.vibrations THEN dbs.el1.vibrations[v].title ELSE "file",
                 mark |-> ""]]]
    /\ Apart /\ UNCHANGED <<dbs, prefs, first, failures>>

(* All columns of a row are written but the language its title is in. *)
CommitTransaction ==
    /\ scan.phase = "write"
    /\ scan' = [scan EXCEPT !.phase = "vibrations"]
    /\ LET new == scan.buffer.rows
       IN  dbs' = [dbs EXCEPT !.el1.rows =
                Merge([t \in DOMAIN new |->
                        [new[t] EXCEPT !.mark = IF t \in DOMAIN rows THEN rows[t].mark ELSE @]], @)]
    /\ Apart /\ UNCHANGED <<prefs, first, failures>>

CommitVibrateTransaction ==
    /\ scan.phase = "vibrations"
    /\ scan' = [scan EXCEPT !.phase = "defaults", !.buffer = NoScan.buffer]
    /\ dbs' = [dbs EXCEPT !.el1.vibrations = Merge(scan.buffer.vibrations, @)]
    /\ Apart /\ UNCHANGED <<prefs, first, failures>>

(* (Shot|Ring)ToneDefaultSettings: only preset tones are defaults; ShotDefault stands in for   *)
(* the message tones without a parameter.                                                     *)
DefaultFor(type) ==
    IF type \in DOMAIN Defaults THEN Defaults[type] ELSE IF type[1] = "shot" THEN ShotDefault ELSE ""
DefaultSettings ==
    {[path |-> DefaultFor(type), kind |-> type[1], cards |-> {type[2]}, by |-> "preset"] :
        type \in {x \in Types : DefaultFor(x) \in DOMAIN rows /\ rows[DefaultFor(x)].source = "preset"}}

(* UpdateDefaultTone: the settings only once, the conf table always. *)
UpdateDefaultTone ==
    /\ scan.phase = "defaults"
    /\ IF prefs.initScanner THEN scan' = [scan EXCEPT !.phase = "conf"]
       ELSE \E presets \in PresetCardBits(rows) :
            LET cache == CommitSettings({}, DefaultSettings)
            IN  scan' = [scan EXCEPT !.phase = "flush", !.cache = cache, !.presets = presets,
                                     !.todo = FlushSteps(cache)]
    /\ Apart /\ UNCHANGED <<dbs, prefs, first, failures>>

FlushSettings ==
    /\ scan.phase = "flush"
    /\ \/ \E step \in scan.todo :
            /\ IsNext(step, scan.todo)
            /\ scan' = [scan EXCEPT !.todo = @ \ {step}]
            /\ \/ /\ dbs' = [dbs EXCEPT !.el1.rows = Flush(@, scan.cache, scan.presets, step, FALSE)]
                  /\ UNCHANGED failures
               \/ Fails /\ UNCHANGED dbs
       \/ /\ scan.todo = {}
          /\ scan' = [NoScan EXCEPT !.phase = "conf"]
          /\ dbs' = [dbs EXCEPT !.el1.rows = ClearPresetCardBitsByCustom(@)]
          /\ UNCHANGED failures
    /\ Apart /\ UNCHANGED <<prefs, first>>

(* A default without a row gets its name and no id. *)
UpdateConf ==
    /\ scan.phase = "conf"
    /\ scan' = [scan EXCEPT !.phase = "init"]
    /\ \E done \in {{}, DOMAIN dbs.el1.conf} :
        /\ dbs' = [dbs EXCEPT !.el1.conf = [type \in DOMAIN @ |->
                IF type \notin done \cap DOMAIN Defaults THEN @[type]
                ELSE IF Defaults[type] \in DOMAIN rows THEN Defaults[type] ELSE "missing"]]
        /\ IF done = {} THEN Fails ELSE UNCHANGED failures
    /\ Apart /\ UNCHANGED <<prefs, first>>

SetInitScanner ==
    /\ scan.phase = "init"
    /\ scan' = [scan EXCEPT !.phase = "delete"]
    /\ prefs' = [prefs EXCEPT !.initScanner = TRUE]
    /\ Apart /\ UNCHANGED <<dbs, first, failures>>

(* DeleteNotExist, and BootScan's end; after an error the scan is not marked as done. *)
EndOfScan ==
    /\ scan.phase = "delete"
    /\ scan' = NoScan
    /\ \/ /\ dbs' = [dbs EXCEPT !.el1.rows =
                [t \in {t \in DOMAIN @ : @[t].source = "customised" \/ t \in job.factory} |-> @[t]]]
          /\ first' = TRUE
          /\ UNCHANGED failures
       \/ Fails /\ UNCHANGED <<dbs, first>>
    /\ Apart /\ UNCHANGED prefs

-----------------------------------------------------------------------------
StartStep ==
    \/ ChecMoveDb
    \/ MoveEL2DBToEL1DB
    \/ SetMoveEL2DBToEL1
    \/ CheckRingtoneDbDefaultSettings
    \/ AccessRingtoneDir
    \/ CreatePreloadFolder
    \/ MoveDirectory
    \/ RingtoneScanner
    \/ WaitFor
    \/ QueryOldPaths
    \/ CopyOldFile
    \/ UpdatePath
    \/ RemoveRingtoneFolder
    \/ UpdateRingtoneLanguage
    \/ UpdateVibrationLanguage

ScanStep ==
    \/ BuildData
    \/ CommitTransaction
    \/ CommitVibrateTransaction
    \/ UpdateDefaultTone
    \/ FlushSettings
    \/ UpdateConf
    \/ SetInitScanner
    \/ EndOfScan

Next ==
    \/ StartStep
    \/ UpgradeStep
    \/ ScanStep
    \/ ESimStep
    \/ Crash

Spec == Init /\ [][Next]_vars

-----------------------------------------------------------------------------
DbOK(db) ==
    /\ db.version \in 0 .. RINGTONE_RDB_VERSION
    /\ db.schema \subseteq {"language", "conf", "vibrate", "flags", "haptic"}
    /\ DOMAIN db.rows \subseteq Paths
    /\ \A t \in DOMAIN db.rows :
        /\ db.rows[t] \in Tone
        /\ \A k \in Kinds : db.rows[t].on[k] \subseteq Slots(k)
    /\ \A type \in DOMAIN db.conf : type \in Types /\ db.conf[type] \in Paths \cup {"null", "missing"}
    /\ \A key \in DOMAIN db.sims : key \in SimKeys /\ db.sims[key] \in SimRow
    /\ \A v \in DOMAIN db.vibrations : db.vibrations[v] \in [title : Title, mark : Mark]

IsDb(db) ==
    /\ db = [version |-> db.version, schema |-> db.schema, rows |-> db.rows, conf |-> db.conf,
             sims |-> db.sims, vibrations |-> db.vibrations]
    /\ DbOK(db)
    /\ db.version = 0 => db = NoDb

(* What the process may find: the scanned directories hold preset tones, and an eSIM that is  *)
(* detected is a card that is modelled.                                                       *)
IsJob(j) ==
    /\ \A db \in {j.el1, j.el2} :
        /\ IsDb(db)
        /\ \A t \in j.factory \cap DOMAIN db.rows : db.rows[t].source = "preset"
    /\ {j.completed, j.el2Completed, j.initScanner, j.first, j.late, j.reboots} \subseteq BOOLEAN
    /\ {j.failures, j.crashes} \subseteq Nat
    /\ j.files \subseteq Paths \X {"old", "new", "tmp"}
    /\ j.folder \in {"open", "closed", "none"}
    /\ j.factory \subseteq Paths
    /\ j.languages \subseteq Languages
    /\ Inherits(j.cards) => ESimOf(j.cards) \in SimCards
    /\ \A choice \in j.choices : choice[1] \in Kinds /\ choice[2] \in Slots(choice[1])

ASSUME JobsAssumption == \A j \in Jobs : IsJob(j)

(* The conf table holds a row's id, no name or a name without an id; only a scan that         *)
(* outlasted OnStart's wait runs while OnStart goes on.                                       *)
TypeOK ==
    /\ DbOK(dbs.el1) /\ DbOK(dbs.el2)
    /\ prefs \in [completed : BOOLEAN, initScanner : BOOLEAN, eSimTime : {"none", "recent", "old"}]
    /\ first \in BOOLEAN /\ known \in BOOLEAN
    /\ files \subseteq Paths \X {"old", "new", "tmp"}
    /\ folder \in {"open", "closed", "none"}
    /\ scan.phase = "idle" => scan = NoScan
    /\ scan.phase # "idle" => phase = "wait" \/ history.late
    /\ \A i \in scan.cache : ValidSetting(i) /\ i.path \in Paths
    /\ \A c \in Clients : clients[c] # <<>> => phase = "serving"

(* The database that is served, as the process first found it. *)
Found == IF ~job.completed /\ job.el2Completed THEN job.el2 ELSE job.el1
Untouched == history.chosen = {} /\ history.runs = 0

(* Whatever version it comes from and wherever the process died on the way, once no statement *)
(* failed: a database in use has the current version and all it is made of, in particular no  *)
(* sound whose vibration is missing and no choice of the user's lost; without a crash also    *)
(* the defaults.  (A crash after INIT_PRELOAD_CONF_TABLE, and a version that had no conf      *)
(* table, leave the eSIMs without: the table counts as complete.)                             *)
UpgradeCompletes ==
    phase = "defaults" /\ failures = 0 =>
    LET db == dbs.el1
    IN
    /\ db.version = RINGTONE_RDB_VERSION
    /\ db.schema = {"language", "conf", "vibrate", "flags", "haptic"}
    /\ DOMAIN db.conf = Types /\ DOMAIN db.sims = SimKeys
    /\ \A t \in DOMAIN db.rows :
        /\ db.rows[t].mime /\ db.rows[t].media
        /\ db.rows[t].place = "misplaced" => <<t, "new">> \notin files
    /\ db.vibrations # <<>> => \A key \in DOMAIN db.sims : ~IsDirty(db.sims[key])
    /\ Untouched =>
        /\ \A t \in DOMAIN Found.rows, k \in Kinds :
            Found.rows[t].by[k] = "customised" =>
                t \in DOMAIN db.rows /\ Found.rows[t].on[k] \subseteq db.rows[t].on[k]
        /\ crashes = 0 =>
            \A x \in {x \in DOMAIN Defaults \cap Types : Defaults[x] \in DOMAIN db.rows} :
                /\ db.conf[x] = Defaults[x]
                /\ x[2] \in ESims /\ Found.version \in 4 .. 12 =>
                    \/ x[2] \in db.rows[Defaults[x]].on[x[1]]
                    \/ IsCardAlreadyCustomised(db.rows, x[1], x[2])

(* A tone of the user's that could be played still can, through the renewal of the folder and *)
(* the move from the old one, with any call failing and a crash anywhere; but for tones       *)
(* stranded in the temporary folder, where no later start looks, and for those whose row      *)
(* could not be updated after their file was copied.  (A row whose path the upgrade is to     *)
(* correct could not be played before: that it can be afterwards is UpgradeCompletes's.)      *)
MigratedTonesPlay ==
    \A t \in DOMAIN Found.rows :
        /\ Found.rows[t].source = "customised" /\ <<t, Found.rows[t].place>> \in job.files
        /\ phase = "serving" \/ t \in DOMAIN rows
        => \/ <<t, rows[t].place>> \in files
           \/ <<t, "tmp">> \in files
           \/ t \in history.unsaved

(* After each start every preset tone and every vibration of type standard, those the scan    *)
(* has just found included, is marked and, if it can be, titled in the language of the        *)
(* system, however often the language changed and starts were cut off, unless an update       *)
(* failed or a scan came late.  The gentle vibrations, and those of alarms, ringtones and     *)
(* notifications, are not looked for: they keep the title of their file.                      *)
TitlesInLanguage ==
    phase = "serving" /\ failures = 0 /\ ~history.late =>
        LET asked(assets, a) ==
                /\ assets[a].mark = work.language
                /\ a \in Translated => assets[a].title = work.language
        IN  /\ \A t \in DOMAIN rows : rows[t].source = "preset" => asked(rows, t)
            /\ \A v \in StandardVibrations \cap DOMAIN dbs.el1.vibrations :
                    asked(dbs.el1.vibrations, v)
=============================================================================
