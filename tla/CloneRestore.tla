---------------------------- MODULE CloneRestore ----------------------------
(***************************************************************************)
(* RingtoneRestore: a device is cloned from the backup of another of the   *)
(* same system.  The other device may take the settings of cards this one  *)
(* has not out of the backup first (CleanESimData).                        *)
(***************************************************************************)
EXTENDS RestoreBase

CONSTANT
    Unplaced        \* tones of a backup that no directory is restored to: those of a contact,
                    \* of the camera or of no type, and files that are not of a tone's format

ASSUME UnplacedAssumption == Unplaced \subseteq Paths

(* BuildUnusedCustomWhere: a customised tone, no video, that no customised setting uses. *)
IsUnusedCustom(row) ==
    /\ row.source = "customised" /\ ~row.video
    /\ \A k \in Kinds : row.on[k] # {} => row.by[k] # "customised"

(* The first peerSlotNum cards stay. *)
ClearESimSlotBits(table, peerSlotNum) ==
    LET peers == {CardOrder[i] : i \in 1 .. peerSlotNum}
        kept(row, k) == IF k \in CardKinds THEN row.on[k] \cap peers ELSE row.on[k]
    IN  [p \in DOMAIN table |->
            [table[p] EXCEPT
                !.on = [k \in Kinds |-> kept(table[p], k)],
                !.by = [k \in Kinds |->
                    IF k \in CardKinds /\ kept(table[p], k) = {} /\ @[k] \in {"preset", "customised"}
                    THEN "invalid" ELSE @[k]]]]

(* On the other device, for a peer with one or two slots; the files of the tones that are    *)
(* not in use any more go too.  With more slots, or when it fails, the backup stays as it is. *)
CleanESimData ==
    /\ phase = "backup"
    /\ phase' = "ready"
    /\ \/ UNCHANGED backup
       \/ \E peerSlotNum \in 1 .. 2 :
            LET table == ClearESimSlotBits(backup.rows, peerSlotNum)
                unused == {p \in DOMAIN table : IsUnusedCustom(table[p])}
            IN  backup' = [backup EXCEPT
                    !.rows = [p \in DOMAIN table \ unused |-> table[p]],
                    !.files = [p \in DOMAIN @ \ unused |-> @[p]],
                    !.sims = [k \in {k \in DOMAIN @ : k[1] \in {"SIM1", "SIM2", "device"}} |-> @[k]]]
    /\ UNCHANGED <<job, ret, device, work, history>>

(* What had no tone on the other device has none here, unless the user of this one chose a   *)
(* tone; the eSIM cards are not looked at.                                                   *)
NotRingtone(kind, card) ==
    /\ card \in {"SIM1", "SIM2"} \/ kind = "notification"
    /\ IsDetermineNoRingtone(backup.rows, kind, card)
    /\ NeedCommit(kind, card)

CheckNotRingtoneRestore ==
    /\ phase = "noTone"
    /\ phase' = "sims"
    /\ rows' = [p \in DOMAIN rows |->
            LET off(k) == {c \in Slots(k) : NotRingtone(k, c) /\ rows[p].by[k] = "preset"}
            IN  [rows[p] EXCEPT
                    !.on = [k \in Kinds |-> @[k] \ off(k)],
                    !.by = [k \in Kinds |->
                        IF k = "notification" /\ off(k) \cap rows[p].on[k] # {} THEN "invalid" ELSE @[k]]]]
    /\ UNCHANGED <<job, backup, ret, completed, files, sims, work, history>>

(* The vibrations of the other device, but for the rows without a mode. *)
UpdateSettingInfos ==
    /\ phase = "sims"
    /\ phase' = "query"
    /\ sims' = [k \in DOMAIN sims |->
            IF k \in DOMAIN backup.sims /\ backup.sims[k].mode # "null"
            THEN UpdateSettingTable(sims, k, backup.sims[k])[k] ELSE sims[k]]
    /\ UNCHANGED <<job, backup, ret, completed, rows, files, work, history>>

-----------------------------------------------------------------------------
(* QueryFileInfos and CheckRestoreFileInfos *)

FileInfo(data, path) ==
    LET row == backup.rows[data]
    IN  [data |-> data, path |-> path, source |-> row.source, video |-> row.video,
         on |-> row.on, by |-> row.by, key |-> <<"", "">>, vibrate |-> "invalid",
         insert |-> TRUE, skip |-> FALSE]

\* Mutant: the paths of the other device are taken as they are.
PathOfBackup(data) == data

(* CustomizedRingToneHandle: a path this device does not have becomes that of its preset     *)
(* with the same relative path.                                                              *)
LocalPath(data) ==
    LET twins == {p \in DOMAIN rows : /\ rows[p].source = "preset"
                                      /\ Relative[p] = Relative[data] /\ Relative[p] # ""}
    IN  IF data \in DOMAIN files \/ twins = {} THEN data ELSE CHOOSE p \in twins : TRUE

VideoLimit ==
    LET count == Cardinality({p \in DOMAIN rows : rows[p].video})
    IN  IF count > RINGTONE_VIDEO_MAX_COUNT THEN 0 ELSE RINGTONE_VIDEO_MAX_COUNT - count

(* The files that are restored: those of the backup, as many videos among them as there is   *)
(* room for.                                                                                 *)
RestoredSets ==
    LET present == DOMAIN backup.rows \cap DOMAIN backup.files
        videos == {p \in present : backup.rows[p].video}
        most == IF Cardinality(videos) < VideoLimit THEN Cardinality(videos) ELSE VideoLimit
    IN  {(present \ videos) \cup V : V \in {V \in SUBSET videos : Cardinality(V) = most}}

(* Of the others, presets commit their settings to the preset of this device.  (The code asks *)
(* for that preset for every tone, but a file of the backup is never a preset's, and goes to  *)
(* the place of its own that PrepareTone gives it.)                                           *)
CheckRestoreFileInfos ==
    /\ phase = "query"
    /\ \E kept \in RestoredSets :
        LET presets == {FileInfo(p, LocalPath(p)) :
                p \in {p \in DOMAIN backup.rows \ kept : backup.rows[p].source = "preset"}}
        IN  /\ \E order \in [1 .. Cardinality(kept) -> kept] :
                /\ \A p \in kept : \E i \in DOMAIN order : order[i] = p
                /\ work' = [work EXCEPT
                        !.infos = [i \in DOMAIN order |-> FileInfo(order[i], "")],
                        !.cache = CommitSettings(@, UNION {Commits(i) : i \in presets})]
                /\ phase' = IF kept # {} THEN "insert" ELSE "flush"
            /\ rows' = [p \in DOMAIN rows |->
                    LET same == {i \in presets : i.path = p}
                    IN  IF same = {} THEN rows[p]
                        ELSE ClearLocalDBTypeSetting(rows, CHOOSE i \in same : TRUE)[p]]
    /\ ret' = "ok"
    /\ UNCHANGED <<job, backup, completed, files, sims, history>>

(* MakeInsertValues passes over a tone that GetRestoreDir has no directory for, or OnPrepare *)
(* no name: it is not moved, gets no row, and its settings are not committed.                *)
PassOver ==
    /\ job.scene = "clone" /\ phase = "insert"
    /\ work.infos # <<>>
    /\ Head(work.infos).data \in Unplaced
    /\ work' = [work EXCEPT !.infos = Tail(@)]
    /\ UNCHANGED <<job, backup, phase, ret, device, history>>

(* OnPrepare and MakeInsertValues for any other file.  A file that is there already is not moved    *)
(* and gets no row, but its settings are committed; the rename may have to be a copy, after   *)
(* which the deletion of the source may fail, and both may fail.                              *)
PrepareTone ==
    /\ job.scene = "clone" /\ phase = "insert"
    /\ work.infos # <<>>
    /\ Head(work.infos).data \notin Unplaced
    /\ LET info == Head(work.infos)
           size == backup.files[info.data]
       IN  \E path \in Paths :
            LET to == [info EXCEPT !.path = path]
                commit == CommitSettings(work.cache, Commits(to))
                next == [work EXCEPT !.infos = Tail(@), !.cache = commit]
            IN  /\ Target(path, info.data, size)
                /\ \/ /\ path \in DOMAIN files
                      /\ CheckSetting(to, "")
                      /\ work' = next
                      /\ UNCHANGED <<backup, files, intact>>
                   \/ /\ path \notin DOMAIN files
                      /\ CheckSetting(to, "")
                      /\ work' = [next EXCEPT !.values = Merge([p \in {path} |-> SetInsertValue(to)], @)]
                      /\ files' = Merge([p \in {path} |-> size], files)
                      /\ \/ backup' = [backup EXCEPT !.files = [p \in DOMAIN @ \ {info.data} |-> @[p]]]
                         \/ UNCHANGED backup
                      /\ UNCHANGED intact
                   \/ /\ path \notin DOMAIN files
                      /\ work' = [work EXCEPT !.infos = Tail(@)]
                      /\ intact' = FALSE
                      /\ UNCHANGED <<backup, rows, files, sims>>
    /\ UNCHANGED <<job, phase, ret, completed, given, changes, crashes>>

ClearPresetCardBits ==
    /\ phase = "clear"
    /\ phase' = "sanitize"
    /\ rows' = ClearPresetCardBitsByCustom(rows)
    /\ UNCHANGED <<job, backup, ret, completed, files, sims, work, history>>

CloneStep ==
    \/ CleanESimData
    \/ CheckNotRingtoneRestore
    \/ UpdateSettingInfos
    \/ CheckRestoreFileInfos
    \/ PassOver
    \/ PrepareTone
    \/ ClearPresetCardBits
=============================================================================
