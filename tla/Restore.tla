------------------------------ MODULE Restore ------------------------------
(***************************************************************************)
(* One restore, of either kind, while the user goes on using the device.   *)
(***************************************************************************)
EXTENDS CloneRestore, DualRestore

Step == BaseStep \/ CloneStep \/ DualStep

Next == Step \/ UserCustomises \/ Crash

Spec == Init /\ [][Next]_vars

(* The restore runs in a thread of its own to its end. *)
FairSpec == Spec /\ WF_vars(Step)

(* Each card has at most one tone among the user's settings on the other device, and each of *)
(* the other framework's settings is there once (ProcessConf).                               *)
OneTone(j) ==
    /\ \A k \in Kinds \cap CardKinds : \A d, e \in DOMAIN j.backup.rows :
            j.backup.rows[d].by[k] = "customised" /\ j.backup.rows[e].by[k] = "customised"
                /\ j.backup.rows[d].on[k] \cap j.backup.rows[e].on[k] # {} => d = e
    /\ \A i, h \in DOMAIN j.settings :
            j.settings[i].kind = j.settings[h].kind /\ j.settings[i].card = j.settings[h].card => i = h

ASSUME OneToneAssumption == \A j \in Jobs : OneTone(j)

-----------------------------------------------------------------------------
Phases == {"backup", "ready", "started", "noTone", "sims", "query", "eSim", "migrate", "build",
           "insert", "batch", "finish", "flush", "flushing", "clear", "sanitize", "ended"}

IsWork(w) ==
    /\ w = [noTone |-> w.noTone, steps |-> w.steps, infos |-> w.infos, values |-> w.values,
            cache |-> w.cache, presets |-> w.presets, todo |-> w.todo]
    /\ w.noTone \subseteq Kinds \X AllSlots
    /\ w.steps \in Seq(SimCards \X SimCards)
    /\ w.infos \in Seq(Info)
    /\ IsTable(w.values)
    /\ \A i \in w.cache : i \in Item /\ ValidSetting(i) /\ i.by = "customised"
    /\ \A s \in w.todo : s.item \in w.cache /\ s.card \in s.item.cards

(* The rows hold cards of their kinds, what is to be committed and inserted is well formed,  *)
(* flushing has something of the cache to do, and a migration has a step left.               *)
TypeOK ==
    /\ job \in Jobs /\ phase \in Phases /\ ret \in {"none", "ok", "fail", "dbError"}
    /\ completed \in BOOLEAN /\ intact \in BOOLEAN
    /\ IsBackup(backup) /\ IsTable(rows) /\ IsFiles(files) /\ IsSims(sims)
    /\ IsWork(work)
    /\ phase = "migrate" => work.steps # <<>>
    /\ changes \in 0 .. MaxChanges /\ crashes \in 0 .. job.crashes

(* NeedCommit, ClearPresetCardBit and the clearing statements: no step of the restore takes a *)
(* card from a tone the user chose for it, even if the choice is made while it runs, nor      *)
(* changes a vibration that is set, unless it could not be played.                            *)
OwnSettingsKept ==
    [][changes' = changes =>
        /\ \A p \in DOMAIN rows : \A k \in Kinds : rows[p].by[k] = "customised" =>
                /\ p \in DOMAIN rows' /\ rows'[p].by[k] = "customised"
                /\ rows[p].on[k] \subseteq rows'[p].on[k]
        /\ \A key \in DOMAIN sims : sims[key].set /\ sims[key].mode # "null" /\ ~IsDirty(sims[key]) =>
                /\ sims'[key].mode = sims[key].mode
                /\ sims[key].vibrate # "" => sims'[key].vibrate = sims[key].vibrate]_vars

(* ApplyCardSettings: a card that has a tone keeps having one at every step of the restore,   *)
(* whichever statement, move or insertion fails, unless it has none on the device that is     *)
(* cloned.  (A query that fails and is taken for an empty answer is not among them.)          *)
Sounds(table, kind, card) == ~IsDetermineNoRingtone(table, kind, card)
NeverSilenced ==
    [][changes' = changes =>
        \A k \in Kinds \cap CardKinds : \A c \in SimCards :
            Sounds(rows, k, c) /\ (job.scene = "clone" => Sounds(backup.rows, k, c))
                => Sounds(rows', k, c)]_vars

(* The tones that path may stand for. *)
IsCopyOf(path, data) ==
    \/ path = data
    \/ path \in {Names[data][i] : i \in DOMAIN Names[data]}
    \/ Relative[path] = Relative[data] /\ Relative[path] # ""

(* The user of the other device chose the tone data for the card; a setting of the other      *)
(* framework names it.                                                                        *)
ChosenThere(data, kind, card) ==
    /\ data \in DOMAIN job.backup.rows
    /\ job.backup.rows[data].by[kind] = "customised" /\ card \in job.backup.rows[data].on[kind]
NamedBySetting(data, kind, card) ==
    \E i \in DOMAIN job.settings :
        LET s == job.settings[i]
        IN  /\ s.kind = kind /\ s.card = card /\ ~s.null
            /\ data = s.tone \/ Names[data][1] = s.tone

(* CommitCardSettings, FlushSettings and the migration: a tone is never set for a card it was *)
(* not set for on either device or by the user.                                               *)
NoForeignTone ==
    \A p \in DOMAIN rows : \A k \in Kinds : \A c \in rows[p].on[k] :
        \/ <<k, c, p>> \in given
        \/ \E d \in Paths : IsCopyOf(p, d) /\ (ChosenThere(d, k, c) \/ NamedBySetting(d, k, c))

(* A clone without failures brings every tone the user of the other device chose, under       *)
(* whatever name it got, unless the user of this one chose a tone for the card, or none.  (A  *)
(* video may find no room, and an unplaced tone has no directory: neither is restored.)       *)
Arrives(d, k, c) ==
    \E p \in DOMAIN rows :
        /\ rows[p].by[k] \in {"preset", "customised"} /\ c \in rows[p].on[k]
        /\ IsCopyOf(p, d)
        /\ d \in DOMAIN job.backup.files => files[p] = job.backup.files[d]
SettingsArrive ==
    phase = "ended" /\ intact /\ changes = 0 /\ job.scene = "clone" =>
        \A d \in DOMAIN backup.rows : \A k \in Kinds : \A c \in backup.rows[d].on[k] :
            /\ backup.rows[d].by[k] = "customised" /\ ~backup.rows[d].video /\ d \notin Unplaced
            /\ d \in DOMAIN job.backup.files \/ \E p \in DOMAIN rows : rows[p].source = "preset" /\ IsCopyOf(p, d)
            /\ LET own == IF job.completed THEN job.rows ELSE Merge(job.rows, job.factory)
               IN  ~IsCardAlreadyCustomised(own, k, c) /\ Sounds(own, k, c)
            => Arrives(d, k, c)

(* OnPrepare and OnFinished: no file of the device is overwritten or removed, and the sounds  *)
(* of the backup's tones are on the device once the backup is removed, unless a move failed.  *)
(* (Not those of videos without room and of unplaced tones: the code leaves them in the       *)
(* backup and removes it, before the extension would move what is left of it.)                *)
TonesNotLost ==
    [][/\ \A p \in DOMAIN files : p \in DOMAIN files' /\ files'[p] = files[p]
       /\ intact' /\ phase # "backup" =>
            \A d \in (DOMAIN backup.files \cap DOMAIN backup.rows) \ Unplaced : ~backup.rows[d].video =>
                \/ d \in DOMAIN backup'.files
                \/ \E i \in DOMAIN Names[d] : Names[d][i] \in DOMAIN files' /\ files'[Names[d][i]] = backup.files[d]]_vars

(* The promise of JSStartRestore resolves: the loops over tones, settings, cards and steps of *)
(* a migration come to their end.  (Reading the rows of the backup is one step here.)         *)
RestoreEnds == <>(phase = "ended")
=============================================================================
