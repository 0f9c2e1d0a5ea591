---------------------------- MODULE DualRestore ----------------------------
(***************************************************************************)
(* RingtoneDualFwkRestore and RingtoneDualFwkRestoreClone: the settings of *)
(* the other framework, read from the settings service (job.settings, in   *)
(* the order of ProcessConf), are restored; their tones are found in the   *)
(* file manager (backup.files), among the videos of the media library      *)
(* (job.gallery) or in ToneFiles.                                          *)
(***************************************************************************)
EXTENDS RestoreBase

(* HandleUpgradeWithESim: the old framework knew two cards; AnalyzeCardScenario and           *)
(* BuildMigrationSteps say which of them is an eSIM now.                                      *)
MigrationSteps(cards) ==
    LET eSims == cards \cap {"ESIM1", "ESIM2"}
        eSim == CHOOSE c \in eSims : TRUE
    IN  IF Cardinality(eSims) # 1 \/ Cardinality(cards) > 2 THEN <<>>
        ELSE IF "SIM2" \in cards THEN <<<<"SIM1", "SIM2">>, <<"SIM2", eSim>>>>
        ELSE <<<<"SIM2", eSim>>>>

(* The target card joins the source card, whatever the source of the setting. *)
MigrateToneType(table, kinds, step) ==
    [p \in DOMAIN table |->
        [table[p] EXCEPT !.on = [k \in Kinds |->
            IF k \in kinds /\ step[1] \in @[k] THEN @[k] \cup {step[2]} ELSE @[k]]]]

(* Missing rows are copied, and then what is empty in the target's rows is filled. *)
MigrateSimCardSetting(table, step) ==
    LET kinds == {k \in Kinds : <<step[1], k>> \in DOMAIN table}
        from(k) == table[<<step[1], k>>]
        fill(row, src) == [mode |-> IF row.mode = "null" THEN src.mode ELSE row.mode,
                           vibrate |-> IF row.vibrate = "" THEN src.vibrate ELSE row.vibrate,
                           tone |-> IF row.tone = "" THEN src.tone ELSE row.tone,
                           set |-> row.set \/ src.set]
    IN  [key \in DOMAIN table \cup {<<step[2], k>> : k \in kinds} |->
            IF key \notin DOMAIN table THEN from(key[2])
            ELSE IF key[1] = step[2] /\ key[2] \in kinds THEN fill(table[key], from(key[2]))
            ELSE table[key]]

(* Without an answer of the telephony service, or with too many cards, nothing is migrated. *)
HandleUpgradeWithESim ==
    /\ phase = "eSim"
    /\ \E steps \in {<<>>, MigrationSteps(job.cards)} :
        /\ work' = [work EXCEPT !.steps = steps]
        /\ phase' = IF steps = <<>> THEN "build" ELSE "migrate"
        /\ intact' = (intact /\ steps = MigrationSteps(job.cards))
    /\ UNCHANGED <<job, backup, ret, device, given, changes, crashes>>

(* One step.  Its statements may fail one by one, which is only logged. *)
ApplyMigration ==
    /\ phase = "migrate"
    /\ LET step == Head(work.steps)
       IN  /\ \E kinds \in {{}, Kinds \cap CardKinds}, copied \in BOOLEAN :
                /\ rows' = MigrateToneType(rows, kinds, step)
                /\ sims' = IF copied THEN MigrateSimCardSetting(sims, step) ELSE sims
                /\ intact' = (intact /\ kinds # {} /\ copied)
           /\ given' = given \cup {<<h[1], step[2], h[2]>> :
                    h \in {h \in Kinds \X DOMAIN rows : Holds(rows, h[2], h[1], step[1])}}
    /\ work' = [work EXCEPT !.steps = Tail(@)]
    /\ phase' = IF Tail(work.steps) = <<>> THEN "build" ELSE phase
    /\ UNCHANGED <<job, backup, ret, completed, files, changes, crashes>>

-----------------------------------------------------------------------------
(* BuildFileInfo *)

(* QueryFileMgrForFileInfo: the tones of the settings that can be found as files, by display *)
(* name.  Every video counts, found or not, until there is no room.  A video of the media    *)
(* library is copied to the directory of the tones, unless a file of its name is there.      *)
IsVideoTone(name) == name \in DOMAIN job.gallery
Found(copied) ==
    LET video(i) == IsVideoTone(job.settings[i].tone)
        count == Cardinality({p \in DOMAIN rows : rows[p].video})
        fits(i) == video(i) => count + Cardinality({j \in 1 .. i : video(j)}) <= RINGTONE_VIDEO_MAX_COUNT
        named == {i \in DOMAIN job.settings : fits(i)}
        docs == {i \in named : \E p \in DOMAIN backup.files : Names[p][1] = job.settings[i].tone}
        fileOf(n) == CHOOSE p \in DOMAIN backup.files : Names[p][1] = n
    IN  Merge([n \in {job.settings[i].tone : i \in docs} |-> fileOf(n)],
              [n \in {job.settings[i].tone : i \in {i \in named \ docs : video(i)}}
                    \cap (copied \cup DOMAIN files) |-> n])

(* GetRingtonebyDisplayName: a preset tone must be meant for the kind, but if the setting     *)
(* only has its title.                                                                        *)
Named(name) == {p \in DOMAIN rows : Names[p][1] = name}
InLibrary(s) ==
    {p \in Named(s.tone) : rows[p].source = "customised" \/ s.kind \in ToneKinds[p] \/ s.title}

(* MergeQueries: the file found, or else the tone of the device.  A found file is not          *)
(* inserted if the device has a tone of its name.                                             *)
MergeQueries(s, found) ==
    LET none == SetInsertValue([source |-> "customised", video |-> IsVideoTone(s.tone)])
        isFile == s.tone \in DOMAIN found
        data == IF isFile THEN found[s.tone] ELSE CHOOSE p \in InLibrary(s) : TRUE
        row == IF isFile THEN [none EXCEPT !.by = [k \in Kinds |-> "notSet"]] ELSE rows[data]
    IN  [data |-> data, insert |-> isFile /\ Named(s.tone) = {},
         source |-> row.source, video |-> row.video, on |-> row.on, by |-> row.by]

(* The device's user chose a tone for this card, or one for both cards. *)
IsRingtoneSet(kind, card) ==
    \E p \in DOMAIN rows : /\ rows[p].by[kind] = "customised"
                           /\ rows[p].on[kind] \in {{card}, {"SIM1", "SIM2"}}

(* AddSettingsToFileInfo.  "" is a setting without a path. *)
BuildInfo(s, found) ==
    LET info == MergeQueries(s, found)
        isSet == IsRingtoneSet(s.kind, s.card)
    IN  [data |-> info.data, path |-> "", source |-> info.source, video |-> info.video,
         on |-> [info.on EXCEPT ![s.kind] = IF s.null THEN {} ELSE {s.card}],
         by |-> [info.by EXCEPT ![s.kind] = IF s.null THEN "invalid" ELSE "customised"],
         key |-> <<IF s.card = "device" THEN "SIM1" ELSE s.card, s.kind>>, vibrate |-> s.vibrate,
         insert |-> info.insert /\ ~isSet, skip |-> isSet]

BuildFileInfo ==
    /\ phase = "build"
    /\ \E copied \in SUBSET (DOMAIN job.gallery \ DOMAIN files) :
        LET found == Found(copied)
            put == copied \cap DOMAIN found
            known == {i \in DOMAIN job.settings : job.settings[i].tone \in DOMAIN found
                                                  \/ InLibrary(job.settings[i]) # {}}
        IN  /\ files' = Merge([n \in put |-> job.gallery[n]], files)
            /\ \E order \in [1 .. Cardinality(known) -> known] :
                /\ \A i, j \in DOMAIN order : i < j => order[i] < order[j]
                /\ work' = [work EXCEPT
                        !.infos = [i \in DOMAIN order |-> BuildInfo(job.settings[order[i]], found)]]
            /\ phase' = IF known # {} THEN "insert" ELSE "flush"
            /\ intact' = (intact /\ DOMAIN job.gallery \subseteq copied \cup DOMAIN files)
    /\ ret' = "ok"
    /\ UNCHANGED <<job, backup, completed, rows, sims, given, changes, crashes>>

(* OnPrepare, DupToneFile and MakeInsertValues for one setting.  A tone of the device keeps   *)
(* its path.  A file of the file manager is copied unless the same file is there; if that     *)
(* fails its path in the file manager becomes the path of the row.                            *)
DupTone ==
    /\ job.scene # "clone" /\ phase = "insert"
    /\ work.infos # <<>>
    /\ LET info == Head(work.infos)
           isFile == info.data \in DOMAIN backup.files
       IN  \E target \in Paths, path \in Paths, vibrate \in {"", "std"} :
            LET free == isFile /\ target \notin DOMAIN files
                to == [info EXCEPT !.path = path]
                insert == to.insert /\ path \notin DOMAIN work.values
            IN  /\ IF isFile THEN Target(target, info.data, backup.files[info.data])
                   ELSE target = info.data
                /\ path = target \/ (free /\ path = info.data)
                /\ files' = IF free /\ path = target THEN Merge([p \in {path} |-> backup.files[info.data]], files)
                            ELSE files
                /\ intact' = (intact /\ path = target)
                /\ work' = [work EXCEPT
                        !.infos = Tail(@),
                        !.values = IF insert THEN Merge([p \in {path} |-> SetInsertValue(to)], @) ELSE @,
                        !.cache = IF to.skip THEN @ ELSE CommitSettings(@, Commits(to))]
                /\ IF to.skip THEN UNCHANGED <<rows, sims>> ELSE CheckSetting(to, vibrate)
    /\ UNCHANGED <<job, backup, phase, ret, completed, given, changes, crashes>>

DualStep ==
    \/ HandleUpgradeWithESim
    \/ ApplyMigration
    \/ BuildFileInfo
    \/ DupTone
=============================================================================
