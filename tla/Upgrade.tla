------------------------------ MODULE Upgrade ------------------------------
(***************************************************************************)
(* RingtoneDataCallBack: OnCreate and OnUpgrade, which GetRdbStore calls   *)
(* on the database it opens.  The version is written when they return, so  *)
(* an upgrade the process did not survive runs again from the old version. *)
(***************************************************************************)
EXTENDS Library

RINGTONE_RDB_VERSION == 13

ESimDefaultParams == <<<<"ring", "ESIM1">>, <<"ring", "ESIM2">>, <<"shot", "ESIM1">>, <<"shot", "ESIM2">>>>

(* UpgradeExtension: each step and the version that has it. *)
UpgradeExtension ==
    <<<<2, "language">>, <<3, "mimeType">>, <<4, "confTable">>, <<4, "systemTone">>,
      <<5, "scanAgain">>, <<5, "vibrateTable">>, <<6, "mimeType">>, <<7, "flags">>,
      <<8, "mediaType">>, <<9, "dataUri">>, <<10, "haptic">>, <<11, "soundMode">>,
      <<13, "conf">>, <<13, "systemTone">>>>
    \o [i \in 1 .. 4 |-> <<13, "eSimTone", ESimDefaultParams[i]>>]
    \o <<<<13, "inherit">>, <<13, "sanitize">>, <<13, "simRows">>, <<13, "eSimTime">>>>

\* Mutant: the step of a version is taken to be there one version earlier.
StepsAfter(version) ==
    LET past == {i \in DOMAIN UpgradeExtension : UpgradeExtension[i][1] <= version + 1}
    IN  SubSeq(UpgradeExtension, Cardinality(past) + 1, Len(UpgradeExtension))

(* The steps are in the order of their versions. *)
StepsFrom(version) ==
    LET past == {i \in DOMAIN UpgradeExtension : UpgradeExtension[i][1] <= version}
    IN  SubSeq(UpgradeExtension, Cardinality(past) + 1, Len(UpgradeExtension))

Db == dbs[work.open]

At(step) == phase = "upgrade" /\ work.todo # <<>> /\ Head(work.todo)[2] = step
SetDb(db) == dbs' = [dbs EXCEPT ![work.open] = db]
Next1(done) == Ends(done, "upgrade", [work EXCEPT !.todo = Tail(@)])
Rest == UNCHANGED <<job, files, folder>>

-----------------------------------------------------------------------------
(* OnCreate, the first time; a statement that fails leaves no database. *)
OnCreate ==
    /\ phase = "open"
    /\ Db.version = 0
    /\ \/ /\ SetDb([NoDb EXCEPT !.version = RINGTONE_RDB_VERSION,
                                !.schema = {"language", "conf", "vibrate", "flags", "haptic"},
                                !.sims = [key \in SimKeys |-> EmptySim],
                                !.conf = [type \in Types |-> "null"]])
          /\ phase' = IF work.open = "el2" THEN "backup" ELSE "defaults"
          /\ folder' = IF folder = "none" THEN "open" ELSE folder
          /\ UNCHANGED failures
       \/ /\ Fails
          /\ phase' = "off"
          /\ UNCHANGED <<dbs, folder>>
    /\ Calm /\ UNCHANGED <<prefs, files, work>>

BeginUpgrade ==
    /\ phase = "open"
    /\ Db.version # 0
    /\ phase' = "upgrade"
    /\ work' = [work EXCEPT !.todo = StepsFrom(Db.version)]
    /\ Calm /\ UNCHANGED <<storage, failures>>

(* OnUpgrade has returned: the version is stored.  The other area's database is then copied   *)
(* (MoveEL2DBToEL1DB), this one's is in use.                                                  *)
EndUpgrade ==
    /\ phase = "upgrade"
    /\ work.todo = <<>>
    /\ SetDb([Db EXCEPT !.version = RINGTONE_RDB_VERSION])
    /\ phase' = IF work.open = "el2" THEN "backup" ELSE "defaults"
    /\ Calm /\ UNCHANGED <<prefs, files, folder, work, failures>>

-----------------------------------------------------------------------------
(* Tables and columns.  ALTER TABLE fails on a column that is there, and all goes on. *)

(* Columns of ToneFiles, and of VibrateFiles for the scanner's flags. *)
AddColumn ==
    /\ \E column \in {"language", "flags"} :
        /\ At(column)
        /\ \E done \in BOOLEAN :
            /\ SetDb(IF done THEN [Db EXCEPT !.schema = @ \cup {column}] ELSE Db)
            /\ Next1(done)
    /\ Rest /\ UNCHANGED prefs

AddRingMockHapticAudioTable ==
    /\ At("haptic")
    /\ \E done \in BOOLEAN :
        /\ SetDb(IF done THEN [Db EXCEPT !.schema = @ \cup {"haptic"}] ELSE Db)
        /\ Next1(done)
    /\ Rest /\ UNCHANGED prefs

(* CREATE_PRELOAD_CONF_TABLE and INIT_PRELOAD_CONF_TABLE, also of UpdatePreloadConfTable,     *)
(* which counts the rows first: where they cannot be counted or have the types of the eSIMs,  *)
(* it leaves the table, the tones of its types and the four of the eSIMs alone.               *)
AddPreloadConfTable ==
    /\ At("confTable") \/ At("conf")
    /\ \E done, counted \in BOOLEAN :
        LET full == At("conf") /\ (~counted \/ Cardinality(DOMAIN Db.conf) > RINGTONE_PRELOAD_CONF_COUNT)
            rest == IF full THEN SubSeq(work.todo, 7, Len(work.todo)) ELSE Tail(work.todo)
        IN  /\ done => counted
            /\ SetDb(IF done /\ ~full
                     THEN [Db EXCEPT !.schema = @ \cup {"conf"}, !.conf = Merge(@, [type \in Types |-> "null"])]
                     ELSE Db)
            /\ Ends(done, "upgrade", [work EXCEPT !.todo = rest])
    /\ Rest /\ UNCHANGED prefs

(* AddVibrateTable: the scan of the vibrations is asked for first, in the preferences.       *)
AddVibrateTable ==
    /\ \/ /\ At("scanAgain")
          /\ prefs' = [prefs EXCEPT !.completed = FALSE]
          /\ Next1(TRUE)
          /\ UNCHANGED dbs
       \/ /\ At("vibrateTable")
          /\ \E done \in BOOLEAN :
            /\ SetDb(IF done THEN [Db EXCEPT !.schema = @ \cup {"vibrate"},
                                             !.sims = Merge(@, [key \in SimKeys |-> EmptySim])] ELSE Db)
            /\ Next1(done)
          /\ UNCHANGED prefs
    /\ Rest

(* AddSoundModeVibrateRecords, and the rows AddESimRecords inserts. *)
AddSimRows ==
    /\ At("soundMode") \/ At("simRows")
    /\ LET new == IF At("simRows") THEN SimKeys
                  ELSE {key \in SimKeys : key[1] \notin ESims
                                          /\ key[2] \in {"vibShot", "vibRing", "vibAlarm", "vibNotification"}}
       IN  \E done \in BOOLEAN :
            /\ SetDb(IF done THEN [Db EXCEPT !.sims = Merge(@, [key \in new |-> EmptySim])] ELSE Db)
            /\ Next1(done)
    /\ Rest /\ UNCHANGED prefs

-----------------------------------------------------------------------------
(* Rows *)

ChangeRows(due, F(_)) ==
    \E done \in SUBSET due :
        /\ SetDb([Db EXCEPT !.rows = Change(@, done, F)])
        /\ Next1(done = due)

(* The mime type, and the media type with it, of the tones the first scans did not know. *)
UpdateMimeType ==
    /\ At("mimeType")
    /\ ChangeRows({t \in DOMAIN Db.rows : ~Db.rows[t].mime},
                  LAMBDA row : [row EXCEPT !.mime = TRUE, !.media = TRUE])
    /\ Rest /\ UNCHANGED prefs

UpdateMediaType ==
    /\ At("mediaType")
    /\ ChangeRows({t \in DOMAIN Db.rows : ~Db.rows[t].media}, LAMBDA row : [row EXCEPT !.media = TRUE])
    /\ Rest /\ UNCHANGED prefs

(* CheckAndGetDataUri: a tone of the user's whose path in the new folder is not the one of    *)
(* its name and type gets that path if its file is there.                                     *)
UpdateDataUri ==
    /\ At("dataUri")
    /\ ChangeRows({t \in DOMAIN Db.rows : Db.rows[t].place = "misplaced" /\ <<t, "new">> \in files},
                  LAMBDA row : [row EXCEPT !.place = "new"])
    /\ Rest /\ UNCHANGED prefs

\* Mutant: a default tone without a row gets its id all the same.
SystemTonesUnchecked(db) ==
    [db EXCEPT !.conf = [type \in DOMAIN @ |-> IF type \in DOMAIN Defaults THEN Defaults[type] ELSE @[type]]]

SystemTones(db) ==
    [db EXCEPT !.conf = [type \in DOMAIN @ |->
        IF type \in DOMAIN Defaults /\ Defaults[type] \in DOMAIN db.rows THEN Defaults[type] ELSE @[type]]]

(* A default tone without a row is passed over, and each type is an update of its own. *)
UpdateDefaultSystemTone ==
    /\ At("systemTone")
    /\ \E done \in SUBSET DOMAIN Db.conf :
        /\ SetDb([Db EXCEPT !.conf = [type \in DOMAIN @ |->
                    IF type \in done THEN SystemTones(Db).conf[type] ELSE @[type]]])
        /\ \A type \in DOMAIN Db.conf \ done : SystemTones(Db).conf[type] # Db.conf[type]
        /\ Next1(done = DOMAIN Db.conf)
    /\ Rest /\ UNCHANGED prefs

(* SetEsimToneBitByDisplayName: unless a customised tone holds the eSIM.  The setting of the  *)
(* row becomes a preset one, for all its cards.                                               *)
UpdateEsimDefaultSystemToneToToneFile ==
    /\ At("eSimTone")
    /\ LET slot == Head(work.todo)[3]
           kind == slot[1]
           card == slot[2]
           due == IF slot \notin DOMAIN Defaults \/ kind \notin Kinds THEN {}
                  ELSE IF IsCardAlreadyCustomised(Db.rows, kind, card) THEN {}
                  ELSE {t \in DOMAIN Db.rows : t = Defaults[slot] /\ card \notin Db.rows[t].on[kind]}
       IN  ChangeRows(due, LAMBDA row : [row EXCEPT !.on[kind] = @ \cup {card}, !.by[kind] = "preset"])
    /\ Rest /\ UNCHANGED prefs

-----------------------------------------------------------------------------
(* UpdateSoundModeVibrateRecords *)

(* A vibration whose mode is not 1 inherits the row of its sound; that of a ringtone only if  *)
(* the ringtone vibrates.                                                                     *)
Heirs(sims) ==
    {x \in {<<<<c, "vibShot">>, <<c, "shot">>>> : c \in {"SIM1", "SIM2"}}
           \cup {<<<<c, "vibRing">>, <<c, "ring">>>> : c \in {"SIM1", "SIM2"}}
           \cup {<<<<"device", "vibNotification">>, <<"device", "notification">>>>} :
        /\ {x[1], x[2]} \subseteq DOMAIN sims
        /\ sims[x[1]].mode # "one"
        /\ x[1][2] = "vibRing" => sims[x[2]].ring # "none"}

UpdateSimCardSettingESIMValue ==
    /\ At("inherit")
    /\ LET heirs == Heirs(Db.sims)
       IN  \E done \in SUBSET {x \in heirs : Db.sims[x[1]] # Db.sims[x[2]]} :
            /\ SetDb([Db EXCEPT !.sims = [key \in DOMAIN @ |->
                        IF \E x \in done : x[1] = key
                        THEN @[(CHOOSE x \in done : x[1] = key)[2]] ELSE @[key]]])
            /\ Next1(\A x \in heirs : Db.sims[x[1]] # Db.sims[x[2]] => x \in done)
    /\ Rest /\ UNCHANGED prefs

(* A sound that should vibrate with it but has no vibration gets the one of its name, or the  *)
(* classic one, if it is found, and else does not vibrate.  Without vibrations, not scanned   *)
(* yet, nothing happens.                                                                      *)
IsDirty(row) == row.ring = "sync" /\ row.vibrate = "" /\ row.tone # ""

Sanitized(row, found) ==
    IF found THEN [row EXCEPT !.vibrate = "std"] ELSE [row EXCEPT !.ring = "none"]

SanitizeSoundModeVibrateRecords ==
    /\ At("sanitize")
    /\ LET due == IF Db.vibrations = <<>> THEN {} ELSE {key \in DOMAIN Db.sims : IsDirty(Db.sims[key])}
       IN  \E done, found \in SUBSET due :
            /\ SetDb([Db EXCEPT !.sims = [key \in DOMAIN @ |->
                        IF key \in done THEN Sanitized(@[key], key \in found) ELSE @[key]]])
            /\ Next1(done = due)
    /\ Rest /\ UNCHANGED prefs

(* AddESimRecords: from now on the first "isUpdateSimCard" may move settings to the eSIM.     *)
SetUpgradeEsimTime ==
    /\ At("eSimTime")
    /\ prefs' = [prefs EXCEPT !.eSimTime = "recent"]
    /\ phase' = "upgrade"
    /\ work' = [work EXCEPT !.todo = Tail(@)]
    /\ LET held(C) == {x \in Kinds \X (DOMAIN Db.rows) : Db.rows[x[2]].on[x[1]] \cap C # {}}
       IN  history' = [history EXCEPT !.legacy = held({"SIM2"}),
                                      !.ever = held({"SIM2"}) \cup {x \in held(ESims) :
                                                    Db.rows[x[2]].by[x[1]] = "customised"},
                                      !.was = [type \in SimTypes |-> Db.sims[<<"SIM2", type>>]]]
    /\ Rest /\ UNCHANGED <<dbs, first, known, scan, clients, failures, crashes>>

UpgradeStep ==
    \/ OnCreate
    \/ BeginUpgrade
    \/ EndUpgrade
    \/ AddColumn
    \/ AddRingMockHapticAudioTable
    \/ AddPreloadConfTable
    \/ AddVibrateTable
    \/ AddSimRows
    \/ UpdateMimeType
    \/ UpdateMediaType
    \/ UpdateDataUri
    \/ UpdateDefaultSystemTone
    \/ UpdateEsimDefaultSystemToneToToneFile
    \/ UpdateSimCardSettingESIMValue
    \/ SanitizeSoundModeVibrateRecords
    \/ SetUpgradeEsimTime
=============================================================================
