--------------------------- MODULE Restore_proofs ---------------------------
(***************************************************************************)
(* Proofs about the restore, for every set of jobs and every device.       *)
(***************************************************************************)
EXTENDS Restore, ToneSettings_proofs, FiniteSetTheorems

-----------------------------------------------------------------------------
(* Changes of the tables *)

LEMMA Merged ==
    ASSUME NEW S, NEW f, NEW g, f \in [DOMAIN f -> S], g \in [DOMAIN g -> S]
    PROVE  /\ Merge(f, g) \in [DOMAIN Merge(f, g) -> S]
           /\ DOMAIN Merge(f, g) = DOMAIN f \cup DOMAIN g
           /\ \A x \in DOMAIN f : Merge(f, g)[x] = f[x]
           /\ \A x \in DOMAIN g \ DOMAIN f : Merge(f, g)[x] = g[x]
BY DEF Merge

(* New rows leave those that are there. *)
LEMMA NewRowsKeep ==
    ASSUME NEW old, NEW more, IsTable(old), IsTable(more)
    PROVE  LET new == Merge(old, more)
           IN  /\ IsTable(new) /\ DOMAIN new = DOMAIN old \cup DOMAIN more
               /\ \A p \in DOMAIN old : new[p] = old[p]
               /\ \A p \in DOMAIN more \ DOMAIN old : new[p] = more[p]
               /\ Keeps(old, new) /\ StaysSounding(old, new)
<1> DEFINE new == Merge(old, more)
<1>1. old \in [DOMAIN old -> Row] /\ more \in [DOMAIN more -> Row]
  BY DEF IsTable
<1>2. /\ new \in [DOMAIN new -> Row] /\ DOMAIN new = DOMAIN old \cup DOMAIN more
      /\ \A p \in DOMAIN old : new[p] = old[p]
      /\ \A p \in DOMAIN more \ DOMAIN old : new[p] = more[p]
  BY <1>1 DEF Merge
<1> HIDE DEF new
<1>3. IsTable(new)
  BY <1>2 DEF IsTable
<1>4. Keeps(old, new) /\ StaysSounding(old, new)
  BY <1>2 DEF Keeps, StaysSounding, Sounding
<1> QED
  BY <1>2, <1>3, <1>4 DEF new

(* Rows forget settings of kinds without cards that are not the user's. *)
Cleared(old, new) ==
    \A p \in DOMAIN old : \A k \in Kinds :
        \/ Same(new[p], old[p], k)
        \/ new[p].on[k] = {} /\ old[p].by[k] # "customised" /\ k \notin CardKinds

LEMMA ClearedKeeps ==
    ASSUME NEW old, NEW new, DOMAIN new = DOMAIN old, Cleared(old, new)
    PROVE  Keeps(old, new) /\ Shrinks(old, new) /\ StaysSounding(old, new)
<1>1. Keeps(old, new) /\ Shrinks(old, new)
  BY DEF Cleared, Keeps, Shrinks, Same
<1>2. StaysSounding(old, new)
  BY DEF Cleared, StaysSounding, Sounding, Same
<1> QED
  BY <1>1, <1>2

LEMMA ClearLocalKeeps ==
    ASSUME NEW table, IsTable(table), NEW info
    PROVE  LET new == ClearLocalDBTypeSetting(table, info)
           IN  IsTable(new) /\ DOMAIN new = DOMAIN table /\ Cleared(table, new)
<1> DEFINE C(p) == {k \in Kinds : Clears(info, k) /\ table[p].by[k] # "customised"}
           on == [p \in DOMAIN table |-> [k \in Kinds |->
                    IF p = info.path /\ k \in C(p) THEN {} ELSE table[p].on[k]]]
           by == [p \in DOMAIN table |-> [k \in Kinds |->
                    IF p = info.path /\ k \in C(p) THEN "notSet" ELSE table[p].by[k]]]
           new == ClearLocalDBTypeSetting(table, info)
<1>1. table \in [DOMAIN table -> Row]
  BY DEF IsTable
<1>2. on \in [DOMAIN table -> CardSets] /\ by \in [DOMAIN table -> [Kinds -> Sources]]
  BY <1>1 DEF Row, CardSets, Sources
<1>3. new = [p \in DOMAIN table |-> WithSettings(table[p], on[p], by[p])]
  <2>1. new = [p \in DOMAIN table |->
                IF p \in {info.path}
                THEN [table[p] EXCEPT !.on = [k \in Kinds |-> IF k \in C(p) THEN {} ELSE table[p].on[k]],
                                      !.by = [k \in Kinds |-> IF k \in C(p) THEN "notSet" ELSE table[p].by[k]]]
                ELSE table[p]]
    BY Zenon DEF ClearLocalDBTypeSetting, Change
  <2>2. ASSUME NEW p \in DOMAIN table
        PROVE  new[p] = WithSettings(table[p], on[p], by[p])
    <3> DEFINE r == table[p]
    <3>1. r \in Row
      BY <1>1
    <3>2. CASE p = info.path
      BY <2>1, <3>2, Zenon DEF WithSettings
    <3>3. CASE p # info.path
      <4>1. on[p] = r.on /\ by[p] = r.by /\ new[p] = r
        BY <1>1, <2>1, <3>1, <3>3 DEF Row, CardSets
      <4> HIDE DEF r, on, by, new
      <4> QED
        BY <3>1, <4>1 DEF Row, WithSettings, r
    <3> QED
      BY <3>2, <3>3
  <2> QED
    BY <2>1, <2>2
<1>4. ASSUME NEW p \in DOMAIN table, NEW k \in Kinds
      PROVE  \/ on[p][k] = table[p].on[k] /\ by[p][k] = table[p].by[k]
             \/ on[p][k] = {} /\ table[p].by[k] # "customised" /\ k \notin CardKinds
  BY DEF Clears
<1> HIDE DEF on, by, new
<1>5. /\ IsTable(new) /\ DOMAIN new = DOMAIN table
      /\ \A p \in DOMAIN table : new[p].on = on[p] /\ new[p].by = by[p]
  BY <1>2, <1>3, Resettled
<1>6. Cleared(table, new)
  BY <1>4, <1>5 DEF Cleared, Same
<1> QED
  BY <1>5, <1>6 DEF new

(* Preset settings give up what had no tone on the other device. *)
LEMMA MutedKeeps ==
    ASSUME IsTable(rows), CheckNotRingtoneRestore
    PROVE  /\ IsTable(rows') /\ DOMAIN rows' = DOMAIN rows
           /\ Keeps(rows, rows') /\ Shrinks(rows, rows')
           /\ \A k \in Kinds \cap CardKinds : \A c \in SimCards :
                Sounding(rows, k, c) /\ Sounding(backup.rows, k, c) => Sounding(rows', k, c)
<1> DEFINE off(p, k) == {c \in Slots(k) : NotRingtone(k, c) /\ rows[p].by[k] = "preset"}
           on == [p \in DOMAIN rows |-> [k \in Kinds |-> rows[p].on[k] \ off(p, k)]]
           by == [p \in DOMAIN rows |-> [k \in Kinds |->
                    IF k = "notification" /\ off(p, k) \cap rows[p].on[k] # {} THEN "invalid"
                    ELSE rows[p].by[k]]]
<1>1. rows \in [DOMAIN rows -> Row]
  BY DEF IsTable
<1>2. on \in [DOMAIN rows -> CardSets] /\ by \in [DOMAIN rows -> [Kinds -> Sources]]
  BY <1>1 DEF Row, CardSets, Sources
<1>3. rows' = [p \in DOMAIN rows |-> WithSettings(rows[p], on[p], by[p])]
  BY Zenon DEF CheckNotRingtoneRestore, WithSettings
<1>4. ASSUME NEW p \in DOMAIN rows, NEW k \in Kinds
      PROVE  /\ on[p][k] \subseteq rows[p].on[k]
             /\ \A c \in rows[p].on[k] : c \notin on[p][k] => NotRingtone(k, c) /\ rows[p].by[k] = "preset"
             /\ \/ by[p][k] = rows[p].by[k]
                \/ k = "notification" /\ rows[p].by[k] = "preset"
  OBVIOUS
<1> HIDE DEF on, by
<1>5. /\ IsTable(rows') /\ DOMAIN rows' = DOMAIN rows
      /\ \A p \in DOMAIN rows : rows'[p].on = on[p] /\ rows'[p].by = by[p]
  BY <1>2, <1>3, Resettled
<1>6. \A p \in DOMAIN rows : \A k \in Kinds :
        /\ rows'[p].on[k] \subseteq rows[p].on[k]
        /\ \A c \in rows[p].on[k] : c \notin rows'[p].on[k] => NotRingtone(k, c) /\ rows[p].by[k] = "preset"
        /\ \/ rows'[p].by[k] = rows[p].by[k]
           \/ k = "notification" /\ rows[p].by[k] = "preset"
  BY <1>4, <1>5
<1>7. Keeps(rows, rows') /\ Shrinks(rows, rows')
  BY <1>5, <1>6 DEF Keeps, Shrinks
<1>8. ASSUME NEW k \in Kinds \cap CardKinds, NEW c \in SimCards,
             Sounding(rows, k, c), Sounding(backup.rows, k, c)
      PROVE  Sounding(rows', k, c)
  <2>1. PICK p \in DOMAIN rows : rows[p].by[k] \in {"preset", "customised"} /\ c \in rows[p].on[k]
    BY <1>8 DEF Sounding
  <2>2. ~NotRingtone(k, c)
    BY <1>8, NotDetermined DEF NotRingtone
  <2>3. k # "notification"
    BY DEF CardKinds
  <2> QED
    BY <1>5, <1>6, <2>1, <2>2, <2>3 DEF Sounding
<1> QED
  BY <1>5, <1>7, <1>8

(* A step of the migration: the target card joins the source card. *)
LEMMA MigratedKeeps ==
    ASSUME NEW table, IsTable(table), NEW kinds \in SUBSET CardKinds, NEW step \in SimCards \X SimCards
    PROVE  LET new == MigrateToneType(table, kinds, step)
           IN  /\ IsTable(new) /\ DOMAIN new = DOMAIN table
               /\ Keeps(table, new) /\ StaysSounding(table, new)
               /\ \A p \in DOMAIN new : \A k \in Kinds : \A c \in new[p].on[k] :
                    c \in table[p].on[k] \/ (c = step[2] /\ step[1] \in table[p].on[k])
<1> DEFINE on == [p \in DOMAIN table |-> [k \in Kinds |->
                    IF k \in kinds /\ step[1] \in table[p].on[k] THEN table[p].on[k] \cup {step[2]}
                    ELSE table[p].on[k]]]
           by == [p \in DOMAIN table |-> table[p].by]
           new == MigrateToneType(table, kinds, step)
<1>1. table \in [DOMAIN table -> Row] /\ step[2] \in SimCards
  BY DEF IsTable
<1>2. on \in [DOMAIN table -> CardSets] /\ by \in [DOMAIN table -> [Kinds -> Sources]]
  BY <1>1 DEF Row, CardSets, Slots, AllSlots
<1>3. new = [p \in DOMAIN table |-> WithSettings(table[p], on[p], by[p])]
  BY <1>1 DEF Row, WithSettings, MigrateToneType
<1>4. ASSUME NEW p \in DOMAIN table, NEW k \in Kinds
      PROVE  /\ by[p][k] = table[p].by[k] /\ table[p].on[k] \subseteq on[p][k]
             /\ \A c \in on[p][k] : c \in table[p].on[k] \/ (c = step[2] /\ step[1] \in table[p].on[k])
  OBVIOUS
<1> HIDE DEF on, by, new
<1>5. /\ IsTable(new) /\ DOMAIN new = DOMAIN table
      /\ \A p \in DOMAIN table : new[p].on = on[p] /\ new[p].by = by[p]
  BY <1>2, <1>3, Resettled
<1>6. \A p \in DOMAIN table : \A k \in Kinds :
        /\ new[p].by[k] = table[p].by[k] /\ table[p].on[k] \subseteq new[p].on[k]
        /\ \A c \in new[p].on[k] : c \in table[p].on[k] \/ (c = step[2] /\ step[1] \in table[p].on[k])
  BY <1>4, <1>5
<1>7. Keeps(table, new) /\ StaysSounding(table, new)
  BY <1>5, <1>6 DEF Keeps, StaysSounding, Sounding
<1> QED
  BY <1>5, <1>6, <1>7 DEF new

(* The user's choice: a card the user set a tone for stays so, of this tone or of another. *)
StaysCustomised(old, new) ==
    \A k \in Kinds : \A c : IsCardAlreadyCustomised(old, k, c) => IsCardAlreadyCustomised(new, k, c)

LEMMA KeepsStays ==
    ASSUME NEW old, NEW new, Keeps(old, new)
    PROVE  StaysCustomised(old, new)
BY DEF Keeps, StaysCustomised, IsCardAlreadyCustomised

LEMMA ChoiceKeeps ==
    ASSUME IsTable(rows), UserCustomises, IsJob(job)
    PROVE  /\ IsTable(rows') /\ DOMAIN rows' = DOMAIN rows
           /\ StaysCustomised(rows, rows')
           /\ given \subseteq given'
           /\ \A p \in DOMAIN rows : \A k \in Kinds : \A c \in rows'[p].on[k] :
                c \in rows[p].on[k] \/ <<k, c, p>> \in given'
<1>1. PICK choice \in job.choices :
        /\ choice[3] \in DOMAIN rows
        /\ rows' = [q \in DOMAIN rows |->
                LET rest == rows[q].on[choice[1]] \ {choice[2]}
                IN  IF q = choice[3]
                    THEN [rows[q] EXCEPT !.on[choice[1]] = @ \cup {choice[2]}, !.by[choice[1]] = "customised"]
                    ELSE [rows[q] EXCEPT !.on[choice[1]] = rest,
                            !.by[choice[1]] = IF rest = {} /\ choice[2] \in rows[q].on[choice[1]]
                                              THEN "notSet" ELSE @]]
        /\ given' = given \cup {choice}
  BY DEF UserCustomises
<1> DEFINE k == choice[1]  c == choice[2]  p == choice[3]
           rest(q) == rows[q].on[k] \ {c}
           on == [q \in DOMAIN rows |-> [rows[q].on EXCEPT ![k] = IF q = p THEN @ \cup {c} ELSE rest(q)]]
           by == [q \in DOMAIN rows |-> [rows[q].by EXCEPT ![k] =
                    IF q = p THEN "customised"
                    ELSE IF rest(q) = {} /\ c \in rows[q].on[k] THEN "notSet" ELSE @]]
<1>2. k \in Kinds /\ c \in Slots(k) /\ choice = <<k, c, p>> /\ p \in DOMAIN rows
  <2>1. choice \in Kinds \X AllSlots \X Paths /\ choice[2] \in Slots(choice[1])
    BY Zenon DEF IsJob
  <2>2. choice = <<choice[1], choice[2], choice[3]>> /\ choice[1] \in Kinds
    BY <2>1
  <2> QED
    BY <1>1, <2>1, <2>2, Zenon
<1>3. rows \in [DOMAIN rows -> Row]
  BY DEF IsTable
<1>4. on \in [DOMAIN rows -> CardSets] /\ by \in [DOMAIN rows -> [Kinds -> Sources]]
  BY <1>2, <1>3 DEF Row, CardSets, Sources, Slots, AllSlots
<1>5. rows' = [q \in DOMAIN rows |-> WithSettings(rows[q], on[q], by[q])]
  <2>1. ASSUME NEW q \in DOMAIN rows
        PROVE  rows'[q] = WithSettings(rows[q], on[q], by[q])
    <3> DEFINE r == rows[q]  o == r.on[k]  b == r.by[k]
    <3>1. r \in Row /\ k \in Kinds
      BY <1>2, <1>3
    <3>2. rows'[q] = IF q = p THEN [r EXCEPT !.on[k] = r.on[k] \cup {c}, !.by[k] = "customised"]
                     ELSE [r EXCEPT !.on[k] = o \ {c}, !.by[k] = IF o \ {c} = {} /\ c \in o THEN "notSet" ELSE r.by[k]]
      BY <1>1
    <3>3. /\ on[q] = [r.on EXCEPT ![k] = IF q = p THEN r.on[k] \cup {c} ELSE o \ {c}]
          /\ by[q] = [r.by EXCEPT ![k] = IF q = p THEN "customised"
                                        ELSE IF o \ {c} = {} /\ c \in o THEN "notSet" ELSE r.by[k]]
      OBVIOUS
    <3> HIDE DEF r, o, on, by, k, c, p
    <3>4. CASE q = p
      BY <3>1, <3>2, <3>3, <3>4 DEF Row, WithSettings, r
    <3>5. CASE q # p
      BY <3>1, <3>2, <3>3, <3>5 DEF Row, WithSettings, r
    <3> QED
      BY <3>4, <3>5
  <2>2. rows' = [q \in DOMAIN rows |-> rows'[q]]
    BY <1>1
  <2> QED
    BY <2>1, <2>2
<1>6. ASSUME NEW q \in DOMAIN rows, NEW j \in Kinds
      PROVE  /\ q = p /\ j = k => on[q][j] = rows[q].on[j] \cup {c} /\ by[q][j] = "customised"
             /\ q # p /\ j = k => /\ on[q][j] = rows[q].on[j] \ {c}
                                  /\ by[q][j] = rows[q].by[j] \/ on[q][j] = {}
             /\ j # k => on[q][j] = rows[q].on[j] /\ by[q][j] = rows[q].by[j]
  BY <1>3 DEF Row, CardSets
<1> HIDE DEF on, by
<1>7. /\ IsTable(rows') /\ DOMAIN rows' = DOMAIN rows
      /\ \A q \in DOMAIN rows : rows'[q].on = on[q] /\ rows'[q].by = by[q]
  BY <1>4, <1>5, Resettled
<1> HIDE DEF k, c, p
<1>8. \A q \in DOMAIN rows : \A j \in Kinds :
        /\ q = p /\ j = k => rows'[q].on[j] = rows[q].on[j] \cup {c} /\ rows'[q].by[j] = "customised"
        /\ q # p /\ j = k => /\ rows'[q].on[j] = rows[q].on[j] \ {c}
                             /\ rows'[q].by[j] = rows[q].by[j] \/ rows'[q].on[j] = {}
        /\ j # k => rows'[q].on[j] = rows[q].on[j] /\ rows'[q].by[j] = rows[q].by[j]
  BY <1>6, <1>7
<1>9. StaysCustomised(rows, rows')
  <2> SUFFICES ASSUME NEW j \in Kinds, NEW d,
                      NEW q \in DOMAIN rows, rows[q].by[j] = "customised", d \in rows[q].on[j]
               PROVE  \E o \in DOMAIN rows' : rows'[o].by[j] = "customised" /\ d \in rows'[o].on[j]
    BY DEF StaysCustomised, IsCardAlreadyCustomised
  <2>1. CASE j = k /\ d = c
    BY <1>2, <1>7, <1>8, <2>1
  <2>2. CASE j = k /\ d # c /\ q = p
    BY <1>7, <1>8, <2>2
  <2>3. CASE j = k /\ d # c /\ q # p
    <3>1. d \in rows'[q].on[j]
      BY <1>8, <2>3
    <3>2. rows'[q].by[j] = rows[q].by[j] \/ rows'[q].on[j] = {}
      BY <1>8, <2>3
    <3> QED
      BY <1>7, <3>1, <3>2
  <2>4. CASE j # k
    BY <1>7, <1>8, <2>4
  <2> QED
    BY <2>1, <2>2, <2>3, <2>4
<1>10. \A q \in DOMAIN rows : \A j \in Kinds : \A d \in rows'[q].on[j] :
          d \in rows[q].on[j] \/ <<j, d, q>> \in given'
  <2>1. <<k, c, p>> \in given'
    BY <1>1, <1>2, Zenon
  <2> QED
    BY <1>8, <2>1
<1> QED
  BY <1>1, <1>7, <1>9, <1>10
(* CleanESimData: the backup loses tones and settings only. *)
Lessened(old, new) ==
    \A d \in DOMAIN new :
        /\ d \in DOMAIN old
        /\ \A k \in Kinds : /\ new[d].on[k] \subseteq old[d].on[k]
                            /\ new[d].by[k] = "customised" => old[d].by[k] = "customised"

LEMMA PeersLessened ==
    ASSUME NEW table, IsTable(table), NEW peerSlotNum
    PROVE  LET new == ClearESimSlotBits(table, peerSlotNum)
           IN  IsTable(new) /\ DOMAIN new = DOMAIN table /\ Lessened(table, new)
<1> DEFINE peers == {CardOrder[i] : i \in 1 .. peerSlotNum}
           kept(p, k) == IF k \in CardKinds THEN table[p].on[k] \cap peers ELSE table[p].on[k]
           on == [p \in DOMAIN table |-> [k \in Kinds |-> kept(p, k)]]
           by == [p \in DOMAIN table |-> [k \in Kinds |->
                    IF k \in CardKinds /\ kept(p, k) = {} /\ table[p].by[k] \in {"preset", "customised"}
                    THEN "invalid" ELSE table[p].by[k]]]
           new == ClearESimSlotBits(table, peerSlotNum)
<1>1. table \in [DOMAIN table -> Row]
  BY DEF IsTable
<1>2. on \in [DOMAIN table -> CardSets] /\ by \in [DOMAIN table -> [Kinds -> Sources]]
  BY <1>1 DEF Row, CardSets, Sources
<1>3. new = [p \in DOMAIN table |-> WithSettings(table[p], on[p], by[p])]
  BY Zenon DEF ClearESimSlotBits, WithSettings
<1>4. ASSUME NEW p \in DOMAIN table, NEW k \in Kinds
      PROVE  /\ on[p][k] \subseteq table[p].on[k]
             /\ by[p][k] = "customised" => table[p].by[k] = "customised"
  OBVIOUS
<1> HIDE DEF on, by, new
<1>5. /\ IsTable(new) /\ DOMAIN new = DOMAIN table
      /\ \A p \in DOMAIN table : new[p].on = on[p] /\ new[p].by = by[p]
  BY <1>2, <1>3, Resettled
<1>6. Lessened(table, new)
  BY <1>4, <1>5 DEF Lessened
<1> QED
  BY <1>5, <1>6 DEF new

LEMMA CleanedBackup ==
    ASSUME IsBackup(backup), CleanESimData
    PROVE  /\ IsBackup(backup') /\ Lessened(backup.rows, backup'.rows)
<1>1. CASE backup' = backup
  BY <1>1 DEF Lessened
<1>2. CASE backup' # backup
  <2>1. PICK peerSlotNum \in 1 .. 2 :
            LET table == ClearESimSlotBits(backup.rows, peerSlotNum)
                unused == {p \in DOMAIN table : IsUnusedCustom(table[p])}
            IN  backup' = [backup EXCEPT
                    !.rows = [p \in DOMAIN table \ unused |-> table[p]],
                    !.files = [p \in DOMAIN backup.files \ unused |-> backup.files[p]],
                    !.sims = [k \in {k \in DOMAIN backup.sims : k[1] \in {"SIM1", "SIM2", "device"}} |->
                                backup.sims[k]]]
    BY <1>2 DEF CleanESimData
  <2> DEFINE table == ClearESimSlotBits(backup.rows, peerSlotNum)
             unused == {p \in DOMAIN table : IsUnusedCustom(table[p])}
             some == {k \in DOMAIN backup.sims : k[1] \in {"SIM1", "SIM2", "device"}}
             r == [p \in DOMAIN table \ unused |-> table[p]]
             f == [p \in DOMAIN backup.files \ unused |-> backup.files[p]]
             s == [k \in some |-> backup.sims[k]]
  <2>2. IsTable(backup.rows) /\ IsFiles(backup.files) /\ IsSims(backup.sims) /\ backup.there \in BOOLEAN
    BY DEF IsBackup
  <2>3. IsTable(table) /\ Lessened(backup.rows, table)
    BY <2>2, PeersLessened
  <2>4. backup' = [rows |-> r, files |-> f, sims |-> s, there |-> backup.there]
    <3>1. backup' = [backup EXCEPT !.rows = r, !.files = f, !.sims = s]
      BY <2>1, Zenon
    <3>2. backup = [rows |-> backup.rows, files |-> backup.files, sims |-> backup.sims, there |-> backup.there]
      BY DEF IsBackup
    <3> HIDE DEF r, f, s
    <3> QED
      BY <3>1, <3>2
  <2>5. IsFiles(f) /\ IsSims(s)
    <3> HIDE DEF unused
    <3> QED
      BY <2>2 DEF IsFiles, IsSims
  <2> HIDE DEF table, unused, f, s
  <2>6. IsTable(r) /\ Lessened(backup.rows, r)
    BY <2>3 DEF IsTable, Lessened
  <2> HIDE DEF r
  <2> QED
    BY <2>2, <2>4, <2>5, <2>6 DEF IsBackup
<1> QED
  BY <1>1, <1>2

-----------------------------------------------------------------------------
(* Changes of SimCardSetting *)

(* A vibration that is set stays, unless it can't be played. *)
SimsKept(old, new) ==
    \A key \in DOMAIN old :
        /\ key \in DOMAIN new
        /\ old[key].set /\ old[key].mode # "null" /\ ~IsDirty(old[key]) =>
            /\ new[key].mode = old[key].mode
            /\ old[key].vibrate # "" => new[key].vibrate = old[key].vibrate

LEMMA WrittenSims ==
    ASSUME NEW table, IsSims(table), NEW key, NEW asset \in SimRow
    PROVE  LET new == UpdateSettingTable(table, key, asset)
           IN  IsSims(new) /\ DOMAIN new = DOMAIN table /\ SimsKept(table, new)
<1> DEFINE new == UpdateSettingTable(table, key, asset)
           row == [asset EXCEPT !.set = TRUE, !.tone = IF asset.tone = "" THEN table[key].tone ELSE asset.tone]
           Goal == IsSims(new) /\ DOMAIN new = DOMAIN table /\ SimsKept(table, new)
<1>1. table \in [DOMAIN table -> SimRow]
  BY DEF IsSims
<1> SUFFICES Goal
  OBVIOUS
<1>2. CASE key \in DOMAIN table /\ ~table[key].set
  <2>1. row \in SimRow
    <3> DEFINE old == table[key]
    <3>1. old \in SimRow
      BY <1>1, <1>2
    <3> HIDE DEF old
    <3>2. [asset EXCEPT !.set = TRUE, !.tone = IF asset.tone = "" THEN old.tone ELSE asset.tone] \in SimRow
      BY <3>1 DEF SimRow
    <3> QED
      BY <3>2 DEF old
  <2>2. new = [table EXCEPT ![key] = row]
    BY <1>2, Zenon DEF UpdateSettingTable
  <2> HIDE DEF row, new
  <2>3. DOMAIN new = DOMAIN table /\ \A x \in DOMAIN table : new[x] = IF x = key THEN row ELSE table[x]
    BY <2>2
  <2>4. new \in [DOMAIN table -> SimRow]
    BY <1>1, <2>1, <2>2
  <2> QED
    BY <1>2, <2>3, <2>4 DEF IsSims, SimsKept
<1>3. CASE ~(key \in DOMAIN table /\ ~table[key].set)
  <2>1. new = table
    BY <1>3, Zenon DEF UpdateSettingTable
  <2> HIDE DEF new
  <2> QED
    BY <2>1 DEF SimsKept
<1> QED
  BY <1>2, <1>3

LEMMA RestoredSims ==
    ASSUME IsSims(sims), IsBackup(backup), UpdateSettingInfos
    PROVE  IsSims(sims') /\ SimsKept(sims, sims')
<1> DEFINE new(k) == UpdateSettingTable(sims, k, backup.sims[k])
           P(k) == k \in DOMAIN backup.sims /\ backup.sims[k].mode # "null"
<1>1. sims' = [k \in DOMAIN sims |-> IF P(k) THEN new(k)[k] ELSE sims[k]]
  BY Zenon DEF UpdateSettingInfos
<1>2. ASSUME NEW k \in DOMAIN sims, P(k)
      PROVE  /\ new(k)[k] \in SimRow
             /\ sims[k].set /\ sims[k].mode # "null" /\ ~IsDirty(sims[k]) =>
                /\ new(k)[k].mode = sims[k].mode
                /\ sims[k].vibrate # "" => new(k)[k].vibrate = sims[k].vibrate
  <2> DEFINE asset == backup.sims[k]
  <2>1. asset \in SimRow
    BY <1>2 DEF IsBackup, IsSims
  <2> HIDE DEF asset
  <2>2. LET t == UpdateSettingTable(sims, k, asset)
        IN  IsSims(t) /\ DOMAIN t = DOMAIN sims /\ SimsKept(sims, t)
    BY <2>1, WrittenSims
  <2>3. IsSims(new(k)) /\ DOMAIN new(k) = DOMAIN sims /\ SimsKept(sims, new(k))
    BY <2>2, Zenon DEF asset
  <2> HIDE DEF new
  <2> QED
    BY <2>3 DEF IsSims, SimsKept
<1> HIDE DEF new, P
<1>3. sims \in [DOMAIN sims -> SimRow]
  BY DEF IsSims
<1>4. IsSims(sims') /\ DOMAIN sims' = DOMAIN sims
  BY <1>1, <1>2, <1>3 DEF IsSims
<1>5. SimsKept(sims, sims')
  BY <1>1, <1>2, <1>4 DEF SimsKept
<1> QED
  BY <1>4, <1>5
LEMMA VibrationSims ==
    ASSUME IsSims(sims), NEW info \in Info, NEW found \in VibrateFile
    PROVE  LET new == CheckUpdateVibrateSetting(info, found)
           IN  IsSims(new) /\ SimsKept(sims, new)
<1> DEFINE new == CheckUpdateVibrateSetting(info, found)
           asset == [mode |-> info.vibrate, tone |-> info.data, set |-> TRUE,
                     vibrate |-> IF info.vibrate = "none" THEN "" ELSE found]
           key == info.key
<1>1. CASE info.vibrate = "invalid"
  <2>1. new = sims
    BY <1>1 DEF CheckUpdateVibrateSetting
  <2> HIDE DEF new
  <2>2. IsSims(new) /\ SimsKept(sims, new)
    BY <2>1 DEF SimsKept
  <2> QED
    BY <2>2, Zenon DEF new
<1>2. CASE info.vibrate # "invalid"
  <2>1. new = UpdateSettingTable(sims, key, asset)
    BY <1>2, Zenon DEF CheckUpdateVibrateSetting
  <2>2. asset \in SimRow
    BY <1>2 DEF Info, Vibrations, SimRow, VibrateFile
  <2> HIDE DEF asset, key, new
  <2>3. IsSims(UpdateSettingTable(sims, key, asset)) /\ SimsKept(sims, UpdateSettingTable(sims, key, asset))
    BY <2>2, WrittenSims
  <2>4. IsSims(new) /\ SimsKept(sims, new)
    BY <2>1, <2>3, Zenon
  <2> QED
    BY <2>4, Zenon DEF new
<1> QED
  BY <1>1, <1>2

LEMMA MigratedSims ==
    ASSUME NEW table, IsSims(table), NEW step \in SimCards \X SimCards
    PROVE  LET new == MigrateSimCardSetting(table, step)
           IN  IsSims(new) /\ SimsKept(table, new)
<1> DEFINE kinds == {k \in Kinds : <<step[1], k>> \in DOMAIN table}
           from(k) == table[<<step[1], k>>]
           fill(row, src) == [mode |-> IF row.mode = "null" THEN src.mode ELSE row.mode,
                              vibrate |-> IF row.vibrate = "" THEN src.vibrate ELSE row.vibrate,
                              tone |-> IF row.tone = "" THEN src.tone ELSE row.tone,
                              set |-> row.set \/ src.set]
           keys == DOMAIN table \cup {<<step[2], k>> : k \in kinds}
           new == MigrateSimCardSetting(table, step)
<1>1. table \in [DOMAIN table -> SimRow] /\ DOMAIN table \subseteq SimCards \X Kinds
  BY DEF IsSims
<1>2. new = [key \in keys |->
                IF key \notin DOMAIN table THEN from(key[2])
                ELSE IF key[1] = step[2] /\ key[2] \in kinds THEN fill(table[key], from(key[2]))
                ELSE table[key]]
  BY Zenon DEF MigrateSimCardSetting
<1>3. \A k \in kinds : from(k) \in SimRow
  BY <1>1
<1>4. ASSUME NEW row \in SimRow, NEW src \in SimRow
      PROVE  /\ fill(row, src) \in SimRow
             /\ row.mode # "null" => fill(row, src).mode = row.mode
             /\ row.vibrate # "" => fill(row, src).vibrate = row.vibrate
  BY DEF SimRow
<1>5. /\ \A key \in keys : key \notin DOMAIN table => key[2] \in kinds
      /\ keys \subseteq SimCards \X Kinds /\ DOMAIN table \subseteq keys
  <2> DEFINE b == step[2]
  <2>1. b \in SimCards /\ keys = DOMAIN table \cup {<<b, k>> : k \in kinds} /\ kinds \subseteq Kinds
    OBVIOUS
  <2> HIDE DEF b, keys, kinds
  <2> QED
    BY <1>1, <2>1
<1> HIDE DEF kinds, from, fill, keys, new
<1>7. ASSUME NEW key \in keys
      PROVE  /\ new[key] \in SimRow
             /\ key \in DOMAIN table =>
                    /\ table[key].mode # "null" => new[key].mode = table[key].mode
                    /\ table[key].vibrate # "" => new[key].vibrate = table[key].vibrate
  <2>1. CASE key \notin DOMAIN table
    BY <1>2, <1>3, <1>5, <2>1
  <2>2. CASE key \in DOMAIN table /\ key[1] = step[2] /\ key[2] \in kinds
    <3> DEFINE row == table[key]  src == from(key[2])
    <3>1. row \in SimRow /\ src \in SimRow
      BY <1>1, <1>3, <2>2
    <3>2. new[key] = fill(row, src)
      BY <1>2, <2>2
    <3> HIDE DEF row, src
    <3>3. /\ fill(row, src) \in SimRow
          /\ row.mode # "null" => fill(row, src).mode = row.mode
          /\ row.vibrate # "" => fill(row, src).vibrate = row.vibrate
      BY <1>4, <3>1
    <3> QED
      BY <3>2, <3>3, Zenon DEF row
  <2>3. CASE key \in DOMAIN table /\ ~(key[1] = step[2] /\ key[2] \in kinds)
    BY <1>1, <1>2, <2>3
  <2> QED
    BY <2>1, <2>2, <2>3
<1>8. IsSims(new) /\ DOMAIN new = keys
  BY <1>2, <1>5, <1>7 DEF IsSims
<1>9. SimsKept(table, new)
  BY <1>5, <1>7, <1>8 DEF SimsKept
<1> QED
  BY <1>8, <1>9 DEF new

LEMMA SanitizedSims ==
    ASSUME IsSims(sims), SanitizeVibrateRecords
    PROVE  IsSims(sims') /\ SimsKept(sims, sims')
<1> DEFINE dirty == {k \in DOMAIN sims : IsDirty(sims[k])}
<1> DEFINE F(fixed, off) ==
                [k \in DOMAIN sims |->
                    IF k \in fixed THEN [sims[k] EXCEPT !.vibrate = "std"]
                    ELSE IF k \in off THEN [sims[k] EXCEPT !.mode = "none"] ELSE sims[k]]
<1>0. PICK fixed \in SUBSET dirty : \E off \in {{}, dirty \ fixed} : sims' = F(fixed, off)
  BY Zenon DEF SanitizeVibrateRecords
<1>1. PICK off \in SUBSET dirty : sims' = F(fixed, off)
  <2> HIDE DEF dirty, F
  <2> QED
    BY <1>0
<1>2. sims \in [DOMAIN sims -> SimRow]
  BY DEF IsSims
<1>3. ASSUME NEW r \in SimRow
      PROVE  [r EXCEPT !.vibrate = "std"] \in SimRow /\ [r EXCEPT !.mode = "none"] \in SimRow
  BY DEF SimRow, VibrateFile
<1>4. fixed \subseteq dirty /\ off \subseteq dirty
  OBVIOUS
<1>5. \A k \in DOMAIN sims : k \notin dirty => sims'[k] = sims[k]
  <2> HIDE DEF dirty
  <2> QED
    BY <1>1, <1>4
<1>6. sims' \in [DOMAIN sims -> SimRow]
  <2> SUFFICES ASSUME NEW k \in DOMAIN sims PROVE sims'[k] \in SimRow
    BY <1>1
  <2> DEFINE r == sims[k]
  <2>1. r \in SimRow
    BY <1>2
  <2>2. sims'[k] \in {r, [r EXCEPT !.vibrate = "std"], [r EXCEPT !.mode = "none"]}
    <3> HIDE DEF dirty
    <3> QED
      BY <1>1
  <2> HIDE DEF r
  <2> QED
    BY <1>3, <2>1, <2>2
<1> QED
  BY <1>5, <1>6 DEF IsSims, SimsKept
-----------------------------------------------------------------------------
(* What is restored of one tone *)

LEMMA NewRow ==
    ASSUME NEW source \in {"preset", "customised"}, NEW video \in BOOLEAN,
           NEW info, info.source = source, info.video = video
    PROVE  /\ SetInsertValue(info) \in Row
           /\ SetInsertValue(info).source = source /\ SetInsertValue(info).video = video
           /\ \A k \in Kinds : SetInsertValue(info).on[k] = {} /\ SetInsertValue(info).by[k] = "invalid"
BY DEF SetInsertValue, Row, CardSets, Sources

LEMMA InfoAt ==
    ASSUME NEW info \in Info, NEW path \in Paths
    PROVE  LET to == [info EXCEPT !.path = path]
           IN  /\ to \in Info /\ to.path = path /\ to.data = info.data /\ to.on = info.on /\ to.by = info.by
               /\ to.source = info.source /\ to.video = info.video /\ to.insert = info.insert
               /\ to.skip = info.skip
BY DEF Info

(* The items of a tone: the cards the user of the other device chose it for and may have it.  *)
LEMMA ItemsOfInfo ==
    ASSUME NEW info \in Info, info.path \in Paths
    PROVE  \A i \in Commits(info) :
                /\ i \in Item /\ i.by = "customised" /\ i.path = info.path
                /\ info.by[i.kind] = "customised"
                /\ \A c \in i.cards : c \in info.on[i.kind] /\ NeedCommit(i.kind, c)
<1> SUFFICES ASSUME NEW i \in Commits(info)
             PROVE  /\ i \in Item /\ i.by = "customised" /\ i.path = info.path
                    /\ info.by[i.kind] = "customised"
                    /\ \A c \in i.cards : c \in info.on[i.kind] /\ NeedCommit(i.kind, c)
  OBVIOUS
<1>1. PICK k \in Kinds :
        /\ info.by[k] = "customised"
        /\ i = [path |-> info.path, kind |-> k, by |-> "customised",
                cards |-> {c \in info.on[k] : NeedCommit(k, c)}]
  BY DEF Commits
<1>2. info.on[k] \subseteq Slots(k) /\ Slots(k) \subseteq AllSlots
  BY DEF Info, CardSets, Slots, AllSlots
<1> DEFINE C == {c \in info.on[k] : NeedCommit(k, c)}
<1>3. C \subseteq Slots(k) /\ C \in SUBSET AllSlots /\ \A c \in C : c \in info.on[k] /\ NeedCommit(k, c)
  BY <1>2
<1>4. i = [path |-> info.path, kind |-> k, by |-> "customised", cards |-> C]
  BY <1>1
<1> HIDE DEF C
<1>5. i.path = info.path /\ i.kind = k /\ i.by = "customised" /\ i.cards = C /\ i \in Item
  BY <1>3, <1>4 DEF Item
<1> QED
  BY <1>1, <1>3, <1>5

IsInfo(info) ==
    /\ info = [data |-> info.data, path |-> info.path, source |-> info.source, video |-> info.video,
               on |-> info.on, by |-> info.by, key |-> info.key, vibrate |-> info.vibrate,
               insert |-> info.insert, skip |-> info.skip]
    /\ info.data \in Paths /\ info.path \in Paths \cup {""} /\ info.source \in {"preset", "customised"}
    /\ info.video \in BOOLEAN /\ info.on \in CardSets /\ info.by \in [Kinds -> Sources]
    /\ info.key \in (SimCards \cup {""}) \X (Kinds \cup {""}) /\ info.vibrate \in Vibrations
    /\ info.insert \in BOOLEAN /\ info.skip \in BOOLEAN

LEMMA MadeInfo ==
    ASSUME NEW info, IsInfo(info)
    PROVE  info \in Info
BY DEF IsInfo, Info

LEMMA InfoOfFile ==
    ASSUME IsBackup(backup), NEW data \in DOMAIN backup.rows, NEW path \in Paths \cup {""}
    PROVE  LET info == FileInfo(data, path)
           IN  /\ info \in Info /\ info.data = data /\ info.path = path
               /\ info.on = backup.rows[data].on /\ info.by = backup.rows[data].by
<1> DEFINE row == backup.rows[data]
           key == <<"", "">>
           source == row.source  video == row.video  on == row.on  by == row.by
           info == FileInfo(data, path)
<1>1. /\ data \in Paths /\ key \in (SimCards \cup {""}) \X (Kinds \cup {""})
      /\ source \in {"preset", "customised"} /\ video \in BOOLEAN
      /\ on \in CardSets /\ by \in [Kinds -> Sources]
  BY DEF IsBackup, IsTable, Row
<1>2. info = [data |-> data, path |-> path, source |-> source, video |-> video, on |-> on, by |-> by,
              key |-> key, vibrate |-> "invalid", insert |-> TRUE, skip |-> FALSE]
  BY Zenon DEF FileInfo
<1>3. "invalid" \in Vibrations /\ TRUE \in BOOLEAN /\ FALSE \in BOOLEAN
  BY DEF Vibrations
<1> HIDE DEF source, video, on, by, key, info
<1>4. /\ info.data = data /\ info.path = path /\ info.on = on /\ info.by = by
      /\ IsInfo(info)
  BY <1>1, <1>2, <1>3 DEF IsInfo
<1>5. info \in Info
  BY <1>4, MadeInfo
<1> QED
  BY <1>4, <1>5, Zenon DEF info, on, by

(* The files that are found for settings bear the names the settings give. *)
Bears(data, name) == data = name \/ Names[data][1] = name

LEMMA FoundNames ==
    ASSUME IsBackup(backup), IsJob(job), NEW copied
    PROVE  LET found == Found(copied)
           IN  /\ found \in [DOMAIN found -> Paths] /\ \A n \in DOMAIN found : Bears(found[n], n)
<1> DEFINE video(i) == IsVideoTone(job.settings[i].tone)
           count == Cardinality({p \in DOMAIN rows : rows[p].video})
           fits(i) == video(i) => count + Cardinality({j \in 1 .. i : video(j)}) <= RINGTONE_VIDEO_MAX_COUNT
           named == {i \in DOMAIN job.settings : fits(i)}
           docs == {i \in named : \E p \in DOMAIN backup.files : Names[p][1] = job.settings[i].tone}
           fileOf(n) == CHOOSE p \in DOMAIN backup.files : Names[p][1] = n
           A == {job.settings[i].tone : i \in docs}
           B == {job.settings[i].tone : i \in {i \in named \ docs : video(i)}} \cap (copied \cup DOMAIN files)
           found == Found(copied)
<1>1. found = Merge([n \in A |-> fileOf(n)], [n \in B |-> n])
  BY Zenon DEF Found
<1>2. \A n \in A : \E p \in DOMAIN backup.files : Names[p][1] = n
  <2>1. \A i \in docs : \E p \in DOMAIN backup.files : Names[p][1] = job.settings[i].tone
    OBVIOUS
  <2> HIDE DEF docs
  <2> QED
    BY <2>1, Zenon
<1>3. \A n \in A : fileOf(n) \in DOMAIN backup.files /\ Names[fileOf(n)][1] = n
  <2> HIDE DEF A
  <2> QED
    BY <1>2
<1>4. B \subseteq Paths
  <2>1. \A i \in DOMAIN job.settings : job.settings[i].tone \in Paths
    <3>1. job.settings \in Seq(Setting)
      BY DEF IsJob
    <3> QED
      BY <3>1 DEF Setting
  <2>2. named \subseteq DOMAIN job.settings
    OBVIOUS
  <2> HIDE DEF named, docs
  <2> QED
    BY <2>1, <2>2
<1>5. DOMAIN backup.files \subseteq Paths
  BY DEF IsBackup, IsFiles
<1> HIDE DEF A, B, fileOf, found
<1>6. DOMAIN found = A \cup B /\ \A n \in DOMAIN found : found[n] = IF n \in A THEN fileOf(n) ELSE n
  BY <1>1 DEF Merge
<1>7. found \in [DOMAIN found -> Paths]
  <2>1. found = [n \in DOMAIN found |-> found[n]]
    BY <1>1 DEF Merge
  <2> QED
    BY <1>3, <1>4, <1>5, <1>6, <2>1
<1>8. \A n \in DOMAIN found : Bears(found[n], n)
  BY <1>3, <1>6 DEF Bears
<1> QED
  BY <1>7, <1>8 DEF found
(* The tone of a setting, as the file that is found or the row of the device says. *)
LEMMA MergedTone ==
    ASSUME IsTable(rows), NEW s \in Setting, NEW found, found \in [DOMAIN found -> Paths],
           \A n \in DOMAIN found : Bears(found[n], n), s.tone \in DOMAIN found \/ InLibrary(s) # {}
    PROVE  LET q == MergeQueries(s, found)
           IN  /\ q.data \in Paths /\ Bears(q.data, s.tone) /\ q.insert \in BOOLEAN
               /\ q.source \in {"preset", "customised"} /\ q.video \in BOOLEAN
               /\ q.on \in CardSets /\ q.by \in [Kinds -> Sources]
               /\ \A k \in Kinds : q.by[k] = "customised" =>
                    \A c \in q.on[k] : IsCardAlreadyCustomised(rows, k, c)
<1> DEFINE none == SetInsertValue([source |-> "customised", video |-> IsVideoTone(s.tone)])
           isFile == s.tone \in DOMAIN found
           data == IF isFile THEN found[s.tone] ELSE CHOOSE p \in InLibrary(s) : TRUE
           row == IF isFile THEN [none EXCEPT !.by = [k \in Kinds |-> "notSet"]] ELSE rows[data]
           insert == isFile /\ Named(s.tone) = {}
           q == MergeQueries(s, found)
<1>1. q = [data |-> data, insert |-> insert, source |-> row.source, video |-> row.video,
           on |-> row.on, by |-> row.by]
  BY Zenon DEF MergeQueries
<1>2. /\ data \in Paths /\ Bears(data, s.tone) /\ row \in Row
      /\ \A k \in Kinds : row.by[k] = "customised" => \A c \in row.on[k] : IsCardAlreadyCustomised(rows, k, c)
  <2>1. CASE isFile
    <3>1. data \in Paths /\ Bears(data, s.tone)
      BY <2>1
    <3> DEFINE old == [source |-> "customised", video |-> IsVideoTone(s.tone)]
    <3>2. none \in Row
      <4>1. old.source = "customised" /\ old.video = IsVideoTone(s.tone) /\ IsVideoTone(s.tone) \in BOOLEAN
        BY DEF IsVideoTone
      <4> HIDE DEF old
      <4>2. SetInsertValue(old) \in Row
        BY <4>1, NewRow
      <4> QED
        BY <4>2, Zenon DEF old
    <3>3. row = [none EXCEPT !.by = [k \in Kinds |-> "notSet"]]
      BY <2>1
    <3> HIDE DEF none, row, data
    <3>4. row \in Row /\ row.by = [k \in Kinds |-> "notSet"]
      BY <3>2, <3>3 DEF Row, Sources
    <3> QED
      BY <3>1, <3>4
  <2>2. CASE ~isFile
    <3>1. data \in InLibrary(s) /\ row = rows[data]
      BY <2>2
    <3> HIDE DEF data, row
    <3>2. data \in DOMAIN rows /\ Names[data][1] = s.tone
      BY <3>1 DEF InLibrary, Named
    <3> QED
      BY <3>1, <3>2 DEF IsTable, Bears, IsCardAlreadyCustomised
  <2> QED
    BY <2>1, <2>2
<1>3. insert \in BOOLEAN
  OBVIOUS
<1> HIDE DEF data, row, insert, q
<1>4. /\ q.data = data /\ q.insert = insert /\ q.source = row.source /\ q.video = row.video
      /\ q.on = row.on /\ q.by = row.by
  BY <1>1
<1>5. /\ row.source \in {"preset", "customised"} /\ row.video \in BOOLEAN
      /\ row.on \in CardSets /\ row.by \in [Kinds -> Sources]
  BY <1>2 DEF Row
<1> QED
  BY <1>2, <1>3, <1>4, <1>5, Zenon DEF q

LEMMA InfoOfSetting ==
    ASSUME IsTable(rows), IsJob(job), job.scene = "dual",
           NEW s \in Setting, NEW found, found \in [DOMAIN found -> Paths],
           \A n \in DOMAIN found : Bears(found[n], n), s.tone \in DOMAIN found \/ InLibrary(s) # {}
    PROVE  LET info == BuildInfo(s, found)
           IN  /\ info \in Info /\ Bears(info.data, s.tone)
               /\ \A k \in Kinds : info.by[k] = "customised" => \A c \in info.on[k] :
                    \/ k = s.kind /\ c = s.card /\ ~s.null
                    \/ IsCardAlreadyCustomised(rows, k, c)
<1> DEFINE q == MergeQueries(s, found)
           isSet == IsRingtoneSet(s.kind, s.card)
           on == [q.on EXCEPT ![s.kind] = IF s.null THEN {} ELSE {s.card}]
           by == [q.by EXCEPT ![s.kind] = IF s.null THEN "invalid" ELSE "customised"]
           key == <<IF s.card = "device" THEN "SIM1" ELSE s.card, s.kind>>
           insert == q.insert /\ ~isSet
           info == BuildInfo(s, found)
<1>1. /\ q.data \in Paths /\ Bears(q.data, s.tone) /\ q.insert \in BOOLEAN
      /\ q.source \in {"preset", "customised"} /\ q.video \in BOOLEAN
      /\ q.on \in CardSets /\ q.by \in [Kinds -> Sources]
      /\ \A k \in Kinds : q.by[k] = "customised" => \A c \in q.on[k] : IsCardAlreadyCustomised(rows, k, c)
  BY MergedTone, Zenon
<1>2. /\ s.kind \in Kinds /\ s.card \in Slots(s.kind) /\ s.card \in SimCards \cup {"device"}
      /\ s.vibrate \in Vibrations /\ s.null \in BOOLEAN
  BY DEF Setting, AllSlots
<1>3. "SIM1" \in SimCards
  BY DEF IsJob
<1>4. info = [data |-> q.data, path |-> "", source |-> q.source, video |-> q.video, on |-> on, by |-> by,
              key |-> key, vibrate |-> s.vibrate, insert |-> insert, skip |-> isSet]
  BY Zenon DEF BuildInfo
<1>5. insert \in BOOLEAN /\ isSet \in BOOLEAN
  BY DEF IsRingtoneSet
<1>6. key \in (SimCards \cup {""}) \X (Kinds \cup {""})
  BY <1>2, <1>3
<1> HIDE DEF q, isSet, key, insert, info
<1>7. on \in CardSets /\ by \in [Kinds -> Sources]
  BY <1>1, <1>2 DEF CardSets, Sources, Slots, AllSlots
<1>8. ASSUME NEW k \in Kinds, by[k] = "customised", NEW c \in on[k]
      PROVE  (k = s.kind /\ c = s.card /\ ~s.null) \/ IsCardAlreadyCustomised(rows, k, c)
  <2>1. CASE k = s.kind
    BY <1>1, <1>2, <1>8, <2>1 DEF CardSets
  <2>2. CASE k # s.kind
    <3>1. by[k] = q.by[k] /\ on[k] = q.on[k]
      BY <1>1, <2>2 DEF CardSets
    <3> QED
      BY <1>1, <1>8, <3>1
  <2> QED
    BY <2>1, <2>2
<1> HIDE DEF on, by
<1>9. /\ info.data = q.data /\ info.path = "" /\ info.on = on /\ info.by = by
      /\ IsInfo(info)
  BY <1>1, <1>2, <1>4, <1>5, <1>6, <1>7 DEF IsInfo
<1>10. info \in Info
  BY <1>9, MadeInfo
<1> QED
  BY <1>1, <1>8, <1>9, <1>10 DEF info
-----------------------------------------------------------------------------
(* Where the phases of a restore are, and what of its memory they use.  The rows of restored  *)
(* tones have no settings yet, and a clone knows each of its tones as a file of the backup,   *)
(* once.                                                                                      *)
Shape ==
    /\ phase \in {"backup", "noTone", "sims", "query", "clear"} => job.scene = "clone"
    /\ phase \in {"eSim", "migrate", "build"} => job.scene = "dual"
    /\ phase # "insert" => work.infos = <<>>
    /\ phase # "flushing" => work.todo = {}
    /\ phase \in {"noTone", "sims", "query", "eSim", "migrate", "build", "started", "ready", "backup"} =>
            work.cache = {}
    /\ \A p \in DOMAIN work.values : \A k \in Kinds : work.values[p].on[k] = {}
    /\ job.scene = "clone" =>
        /\ \A x \in DOMAIN work.infos : work.infos[x].data \in DOMAIN backup.files
        /\ \A x, y \in DOMAIN work.infos : work.infos[x].data = work.infos[y].data => x = y

TypeInv == TypeOK /\ Shape

LEMMA EmptyTable == IsTable(<<>>) /\ IsFiles(<<>>)
BY DEF IsTable, IsFiles

LEMMA JobTyped ==
    ASSUME job \in Jobs
    PROVE  IsJob(job)
BY JobsAssumption

LEMMA NoWorkTyped == IsWork(NoWork)
<1>1. <<>> \in Seq(SimCards \X SimCards) /\ <<>> \in Seq(Info)
  OBVIOUS
<1> QED
  BY <1>1, EmptyTable DEF IsWork, NoWork

LEMMA TypeInit ==
    ASSUME Init
    PROVE  TypeInv
<1>1. job \in Jobs /\ IsJob(job)
  BY JobTyped DEF Init
<1>2. IsBackup(backup) /\ IsTable(rows) /\ IsFiles(files) /\ IsSims(sims)
  BY <1>1 DEF Init, IsJob
<1>3. /\ phase \in Phases /\ ret \in {"none", "ok", "fail", "dbError"} /\ phase # "migrate"
      /\ changes = 0 /\ crashes = 0 /\ MaxChanges \in Nat /\ job.crashes \in Nat
  BY <1>1, RestoreAssumption DEF Init, IsJob, Phases
<1>4. completed \in BOOLEAN /\ intact \in BOOLEAN
  BY <1>1 DEF Init, IsJob
<1>5. IsWork(work) /\ work = NoWork
  BY NoWorkTyped DEF Init
<1>6. TypeOK
  BY <1>1, <1>2, <1>3, <1>4, <1>5 DEF TypeOK
<1>7. Shape
  BY <1>5 DEF Shape, NoWork, Init
<1> QED
  BY <1>6, <1>7 DEF TypeInv

-----------------------------------------------------------------------------
(* The steps of the base *)

(* Steps that leave the tables and the memory of the restore alone. *)
LEMMA IdleTypes ==
    ASSUME TypeInv, StartFails \/ EndOfInserts
    PROVE  TypeInv'
<1>1. /\ UNCHANGED <<job, backup, completed, rows, files, sims, work, changes, crashes>>
      /\ phase' \in Phases /\ ret' \in {"none", "ok", "fail", "dbError"} /\ intact' \in BOOLEAN
      /\ \/ phase = "ready" /\ phase' = "ended"
         \/ phase = "insert" /\ work.infos = <<>> /\ phase' = "batch"
  BY DEF TypeInv, TypeOK, StartFails, EndOfInserts, Phases, device, history
<1>2. TypeOK'
  BY <1>1 DEF TypeInv, TypeOK
<1>3. Shape'
  BY <1>1 DEF TypeInv, Shape
<1> QED
  BY <1>2, <1>3 DEF TypeInv

LEMMA StartTypes ==
    ASSUME TypeInv, StartRestore
    PROVE  TypeInv' /\ Keeps(rows, rows') /\ StaysSounding(rows, rows')
<1>1. /\ UNCHANGED <<job, backup, files, sims, work, changes, crashes>>
      /\ phase = "ready" /\ phase' = "started" /\ ret' = "none" /\ completed' = TRUE /\ intact' \in BOOLEAN
      /\ rows' = rows \/ rows' = Merge(rows, job.factory)
  BY DEF TypeInv, TypeOK, StartRestore
<1>2. IsTable(rows) /\ IsTable(job.factory)
  BY JobTyped DEF TypeInv, TypeOK, IsJob
<1>3. IsTable(rows') /\ Keeps(rows, rows') /\ StaysSounding(rows, rows')
  <2>1. CASE rows' = rows
    BY <1>2, <2>1 DEF Keeps, StaysSounding
  <2>2. CASE rows' = Merge(rows, job.factory)
    BY <1>2, <2>2, NewRowsKeep
  <2> QED
    BY <1>1, <2>1, <2>2
<1>4. TypeOK'
  BY <1>1, <1>3 DEF TypeInv, TypeOK, Phases
<1>5. Shape'
  BY <1>1 DEF TypeInv, Shape
<1> QED
  BY <1>3, <1>4, <1>5 DEF TypeInv

LEMMA NoToneTypes ==
    ASSUME TypeInv, CacheInitialNoRingtoneState
    PROVE  TypeInv'
<1> DEFINE none == {s \in Kinds \X AllSlots : s[2] \in Slots(s[1]) /\ IsDetermineNoRingtone(rows, s[1], s[2])}
<1>1. /\ UNCHANGED <<job, backup, ret, completed, rows, files, sims, intact, changes, crashes>>
      /\ phase = "started" /\ phase' = IF job.scene = "clone" THEN "noTone" ELSE "eSim"
      /\ work' = [work EXCEPT !.noTone = none]
  BY DEF CacheInitialNoRingtoneState, device, history
<1>2. none \subseteq Kinds \X AllSlots
  OBVIOUS
<1>3. job.scene \in {"clone", "dual"} /\ IsWork(work)
  BY JobTyped DEF TypeInv, TypeOK, IsJob
<1> HIDE DEF none
<1>4. /\ IsWork(work') /\ work'.infos = work.infos /\ work'.todo = work.todo /\ work'.cache = work.cache
      /\ work'.steps = work.steps /\ work'.values = work.values
  BY <1>1, <1>2, <1>3 DEF IsWork
<1>5. TypeOK'
  BY <1>1, <1>3, <1>4 DEF TypeInv, TypeOK, Phases
<1>6. Shape'
  BY <1>1, <1>3, <1>4 DEF TypeInv, Shape
<1> QED
  BY <1>5, <1>6 DEF TypeInv
LEMMA BatchTypes ==
    ASSUME TypeInv, BatchInsert
    PROVE  /\ TypeInv' /\ Keeps(rows, rows') /\ StaysSounding(rows, rows')
           /\ rows' = rows \/ rows' = Merge(rows, work.values)
<1>1. /\ UNCHANGED <<job, backup, completed, files, sims, work, changes, crashes>>
      /\ phase = "batch" /\ ret' \in {"ok", "fail"} /\ phase' \in {"finish", "flush"} /\ intact' \in BOOLEAN
      /\ rows' = rows \/ rows' = Merge(rows, work.values)
  BY DEF TypeInv, TypeOK, BatchInsert
<1>2. IsTable(rows) /\ IsTable(work.values)
  BY DEF TypeInv, TypeOK, IsWork
<1>3. IsTable(rows') /\ Keeps(rows, rows') /\ StaysSounding(rows, rows')
  <2>1. CASE rows' = rows
    BY <1>2, <2>1 DEF Keeps, StaysSounding
  <2>2. CASE rows' = Merge(rows, work.values)
    BY <1>2, <2>2, NewRowsKeep
  <2> QED
    BY <1>1, <2>1, <2>2
<1>4. TypeOK'
  BY <1>1, <1>3 DEF TypeInv, TypeOK, Phases
<1>5. Shape'
  BY <1>1 DEF TypeInv, Shape
<1> QED
  BY <1>1, <1>3, <1>4, <1>5 DEF TypeInv

LEMMA FinishTypes ==
    ASSUME TypeInv, OnFinished
    PROVE  TypeInv' /\ backup'.rows = backup.rows
<1>1. /\ UNCHANGED <<job, ret, completed, rows, files, sims, work, intact, changes, crashes>>
      /\ phase = "finish" /\ phase' = "flush"
      /\ backup' = backup \/ backup' = [backup EXCEPT !.there = FALSE, !.files = <<>>]
  BY DEF OnFinished, device, history
<1>2. IsBackup(backup') /\ backup'.rows = backup.rows
  <2>1. CASE backup' = backup
    BY <2>1 DEF TypeInv, TypeOK
  <2>2. CASE backup' = [backup EXCEPT !.there = FALSE, !.files = <<>>]
    <3>1. IsBackup(backup)
      BY DEF TypeInv, TypeOK
    <3>2. backup' = [rows |-> backup.rows, files |-> <<>>, sims |-> backup.sims, there |-> FALSE]
      BY <2>2, <3>1 DEF IsBackup
    <3> QED
      BY <3>1, <3>2, EmptyTable DEF IsBackup
  <2> QED
    BY <1>1, <2>1, <2>2
<1>3. TypeOK'
  BY <1>1, <1>2 DEF TypeInv, TypeOK, Phases
<1>4. Shape'
  BY <1>1 DEF TypeInv, Shape
<1> QED
  BY <1>2, <1>3, <1>4 DEF TypeInv

LEMMA BeginFlushTypes ==
    ASSUME TypeInv, BeginFlush
    PROVE  TypeInv'
<1>1. PICK presets : work' = [work EXCEPT !.presets = presets, !.todo = FlushSteps(work.cache)]
  BY DEF BeginFlush
<1>2. /\ UNCHANGED <<job, backup, ret, completed, rows, files, sims, intact, changes, crashes>>
      /\ phase = "flush" /\ phase' = "flushing"
  BY DEF BeginFlush, device, history
<1>3. \A s \in FlushSteps(work.cache) : s.item \in work.cache /\ s.card \in s.item.cards
  BY DEF FlushSteps
<1>4. IsWork(work)
  BY DEF TypeInv, TypeOK
<1>5. IsWork(work') /\ work'.infos = work.infos /\ work'.values = work.values
  <2> DEFINE todo == FlushSteps(work.cache)
  <2>1. /\ work' = [work EXCEPT !.presets = presets, !.todo = todo]
        /\ \A s \in todo : s.item \in work.cache /\ s.card \in s.item.cards
    BY <1>1, <1>3
  <2> HIDE DEF todo
  <2> QED
    BY <1>4, <2>1 DEF IsWork
<1>6. TypeOK'
  BY <1>2, <1>5 DEF TypeInv, TypeOK, Phases
<1>7. Shape'
  BY <1>2, <1>5 DEF TypeInv, Shape
<1> QED
  BY <1>6, <1>7 DEF TypeInv

(* One card of one item of the cache is flushed. *)
LEMMA FlushOneRows ==
    ASSUME TypeInv, FlushOne
    PROVE  \E item \in work.cache : \E card \in item.cards :
                /\ item \in Item
                /\ IsTable(rows') /\ DOMAIN rows' = DOMAIN rows
                /\ Keeps(rows, rows') /\ AddsOnly(rows, rows', item.path, item.kind, card)
                /\ (item.kind \in CardKinds =>
                        \A i \in work.cache : i.kind = item.kind /\ card \in i.cards => i.path = item.path)
                    => StaysSounding(rows, rows')
<1>1. PICK step \in work.todo : rows' = Flush(rows, work.cache, work.presets, step, TRUE)
  BY DEF FlushOne
<1>2. IsTable(rows) /\ step.item \in work.cache /\ step.card \in step.item.cards
  BY DEF TypeInv, TypeOK, IsWork
<1>3. step.item \in Item /\ step.item.by = "customised"
  BY <1>2 DEF TypeInv, TypeOK, IsWork
<1> DEFINE cache == work.cache  presets == work.presets
           new == Flush(rows, cache, presets, step, TRUE)
<1> HIDE DEF cache, presets
<1>4. /\ IsTable(new) /\ DOMAIN new = DOMAIN rows
      /\ Keeps(rows, new) /\ AddsOnly(rows, new, step.item.path, step.item.kind, step.card)
      /\ (step.item.kind \in CardKinds =>
            \A i \in cache : i.kind = step.item.kind /\ step.card \in i.cards => i.path = step.item.path)
           => StaysSounding(rows, new)
  BY <1>2, <1>3, FlushKeeps
<1>5. new = rows'
  BY <1>1 DEF cache, presets
<1> QED
  BY <1>2, <1>3, <1>4, <1>5, Zenon DEF cache

LEMMA FlushTypes ==
    ASSUME TypeInv, FlushOne \/ EndFlush
    PROVE  TypeInv'
<1>1. IsTable(rows')
  <2>1. CASE FlushOne
    BY <2>1, FlushOneRows
  <2>2. CASE EndFlush
    BY <2>2 DEF EndFlush, device, TypeInv, TypeOK
  <2> QED
    BY <2>1, <2>2
<1>2. /\ UNCHANGED <<job, backup, ret, completed, files, sims, intact, changes, crashes>>
      /\ phase = "flushing"
      /\ \/ phase' = "flushing" /\ \E step \in work.todo : work' = [work EXCEPT !.todo = work.todo \ {step}]
         \/ /\ phase' = IF job.scene = "clone" THEN "clear" ELSE "sanitize"
            /\ work.todo = {} /\ work' = [work EXCEPT !.cache = {}]
  BY DEF FlushOne, EndFlush, device, history
<1>3. job.scene \in {"clone", "dual"} /\ IsWork(work)
  BY JobTyped DEF TypeInv, TypeOK, IsJob
<1>4. /\ IsWork(work') /\ work'.infos = work.infos /\ work'.values = work.values
      /\ phase' # "flushing" => work'.todo = {}
  BY <1>2, <1>3 DEF IsWork
<1>5. TypeOK'
  BY <1>1, <1>2, <1>3, <1>4 DEF TypeInv, TypeOK, Phases
<1>6. Shape'
  BY <1>2, <1>3, <1>4 DEF TypeInv, Shape
<1> QED
  BY <1>5, <1>6 DEF TypeInv

LEMMA SanitizeTypes ==
    ASSUME TypeInv, SanitizeVibrateRecords
    PROVE  TypeInv' /\ SimsKept(sims, sims')
<1>1. /\ UNCHANGED <<job, backup, ret, completed, rows, files, work, intact, changes, crashes>>
      /\ phase = "sanitize" /\ phase' = "ended"
  BY DEF SanitizeVibrateRecords, history
<1>2. IsSims(sims') /\ SimsKept(sims, sims')
  BY SanitizedSims DEF TypeInv, TypeOK
<1>3. TypeOK'
  BY <1>1, <1>2 DEF TypeInv, TypeOK, Phases
<1>4. Shape'
  BY <1>1 DEF TypeInv, Shape
<1> QED
  BY <1>2, <1>3, <1>4 DEF TypeInv

LEMMA MeanwhileTypes ==
    ASSUME TypeInv, UserCustomises \/ Crash
    PROVE  TypeInv'
<1>1. IsTable(rows')
  <2>1. CASE UserCustomises
    BY <2>1, ChoiceKeeps, JobTyped DEF TypeInv, TypeOK
  <2>2. CASE Crash
    BY <2>2 DEF Crash, device, TypeInv, TypeOK
  <2> QED
    BY <2>1, <2>2
<1>2. /\ UNCHANGED <<job, backup, ret, completed, files, sims>>
      /\ (phase' = phase /\ work' = work) \/ (phase' = "ready" /\ work' = NoWork)
      /\ intact' \in BOOLEAN
  BY DEF UserCustomises, Crash, device, TypeInv, TypeOK
<1>3. changes' \in 0 .. MaxChanges /\ crashes' \in 0 .. job.crashes
  <2>1. MaxChanges \in Nat /\ job.crashes \in Nat
    BY RestoreAssumption, JobTyped DEF TypeInv, TypeOK, IsJob
  <2>2. changes \in 0 .. MaxChanges /\ crashes \in 0 .. job.crashes
    BY DEF TypeInv, TypeOK
  <2>3. CASE UserCustomises
    <3>1. changes < MaxChanges /\ changes' = changes + 1 /\ crashes' = crashes
      BY <2>3 DEF UserCustomises
    <3> QED
      BY <2>1, <2>2, <3>1
  <2>4. CASE Crash
    <3>1. crashes < job.crashes /\ crashes' = crashes + 1 /\ changes' = changes
      BY <2>4 DEF Crash
    <3> QED
      BY <2>1, <2>2, <3>1
  <2> QED
    BY <2>3, <2>4
<1>4. TypeOK'
  BY <1>1, <1>2, <1>3, NoWorkTyped DEF TypeInv, TypeOK, Phases
<1>5. Shape'
  BY <1>2 DEF TypeInv, Shape, NoWork
<1> QED
  BY <1>4, <1>5 DEF TypeInv
-----------------------------------------------------------------------------
(* The steps of a clone *)

LEMMA CleanTypes ==
    ASSUME TypeInv, CleanESimData
    PROVE  TypeInv' /\ Lessened(backup.rows, backup'.rows)
<1>1. /\ UNCHANGED <<job, ret, completed, rows, files, sims, work, intact, changes, crashes>>
      /\ phase = "backup" /\ phase' = "ready"
  BY DEF CleanESimData, device, history
<1>2. IsBackup(backup') /\ Lessened(backup.rows, backup'.rows)
  BY CleanedBackup DEF TypeInv, TypeOK
<1>3. TypeOK'
  BY <1>1, <1>2 DEF TypeInv, TypeOK, Phases
<1>4. Shape'
  BY <1>1 DEF TypeInv, Shape
<1> QED
  BY <1>2, <1>3, <1>4 DEF TypeInv

LEMMA NotRingtoneTypes ==
    ASSUME TypeInv, CheckNotRingtoneRestore
    PROVE  TypeInv'
<1>1. /\ UNCHANGED <<job, backup, ret, completed, files, sims, work, intact, changes, crashes>>
      /\ phase = "noTone" /\ phase' = "sims"
  BY DEF CheckNotRingtoneRestore, history
<1>2. IsTable(rows')
  BY MutedKeeps DEF TypeInv, TypeOK
<1>3. TypeOK'
  BY <1>1, <1>2 DEF TypeInv, TypeOK, Phases
<1>4. Shape'
  BY <1>1 DEF TypeInv, Shape
<1> QED
  BY <1>3, <1>4 DEF TypeInv

LEMMA SettingInfosTypes ==
    ASSUME TypeInv, UpdateSettingInfos
    PROVE  TypeInv' /\ SimsKept(sims, sims')
<1>1. /\ UNCHANGED <<job, backup, ret, completed, rows, files, work, intact, changes, crashes>>
      /\ phase = "sims" /\ phase' = "query"
  BY DEF UpdateSettingInfos, history
<1>2. IsSims(sims') /\ SimsKept(sims, sims')
  BY RestoredSims DEF TypeInv, TypeOK
<1>3. TypeOK'
  BY <1>1, <1>2 DEF TypeInv, TypeOK, Phases
<1>4. Shape'
  BY <1>1 DEF TypeInv, Shape
<1> QED
  BY <1>2, <1>3, <1>4 DEF TypeInv

LEMMA ClearTypes ==
    ASSUME TypeInv, ClearPresetCardBits
    PROVE  /\ TypeInv'
           /\ Keeps(rows, rows') /\ Shrinks(rows, rows') /\ StaysSounding(rows, rows')
<1>1. /\ UNCHANGED <<job, backup, ret, completed, files, sims, work, intact, changes, crashes>>
      /\ phase = "clear" /\ phase' = "sanitize" /\ rows' = ClearPresetCardBitsByCustom(rows)
  BY DEF ClearPresetCardBits, history
<1>2. IsTable(rows') /\ Keeps(rows, rows') /\ Shrinks(rows, rows') /\ StaysSounding(rows, rows')
  BY <1>1, ClearPresetsKeeps DEF TypeInv, TypeOK
<1>3. TypeOK'
  BY <1>1, <1>2 DEF TypeInv, TypeOK, Phases
<1>4. Shape'
  BY <1>1 DEF TypeInv, Shape
<1> QED
  BY <1>2, <1>3, <1>4 DEF TypeInv

(* A preset that is not found at its path may have another on this device. *)
LEMMA LocalPathIsCopy ==
    ASSUME TypeInv, NEW data \in Paths
    PROVE  LocalPath(data) \in Paths /\ IsCopyOf(LocalPath(data), data)
<1> DEFINE twins == {p \in DOMAIN rows : /\ rows[p].source = "preset"
                                         /\ Relative[p] = Relative[data] /\ Relative[p] # ""}
<1>1. LocalPath(data) = data \/ LocalPath(data) \in twins
  BY DEF LocalPath
<1>2. DOMAIN rows \subseteq Paths
  BY DEF TypeInv, TypeOK, IsTable
<1> QED
  BY <1>1, <1>2 DEF IsCopyOf

(* The files that are restored, in any order, are all that are no videos. *)
LEMMA RestoredFiles ==
    ASSUME TypeInv, NEW kept \in RestoredSets
    PROVE  /\ kept \subseteq DOMAIN backup.rows /\ kept \subseteq DOMAIN backup.files
           /\ \A d \in DOMAIN backup.rows \cap DOMAIN backup.files : ~backup.rows[d].video => d \in kept
           /\ Cardinality(kept) \in Nat
           /\ \A order \in [1 .. Cardinality(kept) -> kept] :
                (\A p \in kept : \E i \in DOMAIN order : order[i] = p) =>
                    \A i, j \in DOMAIN order : order[i] = order[j] => i = j
<1> DEFINE present == DOMAIN backup.rows \cap DOMAIN backup.files
           videos == {p \in present : backup.rows[p].video}
<1>1. \E V \in SUBSET videos : kept = (present \ videos) \cup V
  BY Zenon DEF RestoredSets
<1>2. kept \subseteq present /\ \A d \in present : ~backup.rows[d].video => d \in kept
  BY <1>1
<1>3. IsFiniteSet(kept) /\ Cardinality(kept) \in Nat
  <2>1. kept \in SUBSET Paths
    BY <1>2 DEF TypeInv, TypeOK, IsBackup, IsTable
  <2>2. IsFiniteSet(kept)
    BY <2>1, RestoreAssumption, FS_Subset
  <2> QED
    BY <2>2, FS_CardinalityType
<1>4. ASSUME NEW order \in [1 .. Cardinality(kept) -> kept],
             \A p \in kept : \E i \in DOMAIN order : order[i] = p
      PROVE  \A i, j \in DOMAIN order : order[i] = order[j] => i = j
  <2> DEFINE n == Cardinality(kept)
  <2>1. IsFiniteSet(1 .. n) /\ Cardinality(1 .. n) = n
    BY <1>3, FS_Interval
  <2>2. order \in Surjection(1 .. n, kept)
    BY <1>4 DEF Surjection
  <2>3. order \in Injection(1 .. n, kept)
    BY <1>3, <2>1, <2>2, FS_SurjSameCardinalityImpliesInj
  <2> QED
    BY <2>3 DEF Injection, IsInjective
<1> QED
  BY <1>2, <1>3, <1>4
(* The rows of the presets that are not restored as files. *)
LEMMA ClearedRows ==
    ASSUME NEW P, IsTable(rows),
           rows' = [p \in DOMAIN rows |->
                    LET same == {i \in P : i.path = p}
                    IN  IF same = {} THEN rows[p]
                        ELSE ClearLocalDBTypeSetting(rows, CHOOSE i \in same : TRUE)[p]]
    PROVE  /\ IsTable(rows')
           /\ Keeps(rows, rows') /\ Shrinks(rows, rows') /\ StaysSounding(rows, rows')
<1>1. rows \in [DOMAIN rows -> Row] /\ DOMAIN rows \subseteq Paths /\ DOMAIN rows' = DOMAIN rows
  BY DEF IsTable
<1>2. ASSUME NEW p \in DOMAIN rows
      PROVE  /\ rows'[p] \in Row
             /\ \A k \in Kinds :
                \/ Same(rows'[p], rows[p], k)
                \/ rows'[p].on[k] = {} /\ rows[p].by[k] # "customised" /\ k \notin CardKinds
  <2> DEFINE info == CHOOSE i \in {i \in P : i.path = p} : TRUE
             new == ClearLocalDBTypeSetting(rows, info)
  <2>1. rows'[p] = rows[p] \/ rows'[p] = new[p]
    OBVIOUS
  <2> HIDE DEF info
  <2>2. IsTable(new) /\ DOMAIN new = DOMAIN rows /\ Cleared(rows, new)
    BY ClearLocalKeeps
  <2> HIDE DEF new
  <2> QED
    BY <1>1, <2>1, <2>2 DEF IsTable, Cleared, Same
<1>3. IsTable(rows')
  <2>1. rows' = [p \in DOMAIN rows |-> rows'[p]]
    OBVIOUS
  <2> QED
    BY <1>1, <1>2, <2>1 DEF IsTable
<1>4. Cleared(rows, rows')
  BY <1>2 DEF Cleared
<1> QED
  BY <1>1, <1>3, <1>4, ClearedKeeps

LEMMA NoElement ==
    ASSUME NEW S, NEW s \in Seq(S), DOMAIN s = 1 .. 0
    PROVE  s = <<>>
OBVIOUS

(* The files kept become infos; the presets that are not kept commit to those of this device. *)
LEMMA QueryStep ==
    ASSUME TypeInv, CheckRestoreFileInfos
    PROVE  /\ TypeInv'
           /\ Keeps(rows, rows') /\ Shrinks(rows, rows') /\ StaysSounding(rows, rows')
           /\ \E kept \in RestoredSets :
                /\ \A x \in DOMAIN work'.infos :
                    /\ work'.infos[x].data \in kept
                    /\ work'.infos[x].on = backup.rows[work'.infos[x].data].on
                    /\ work'.infos[x].by = backup.rows[work'.infos[x].data].by
                /\ \A d \in kept : \E x \in DOMAIN work'.infos : work'.infos[x].data = d
                /\ \A i \in work'.cache : \A c \in i.cards : \E d \in DOMAIN backup.rows \ kept :
                    /\ i.path = LocalPath(d)
                    /\ backup.rows[d].by[i.kind] = "customised" /\ c \in backup.rows[d].on[i.kind]
<1>1. /\ UNCHANGED <<job, backup, completed, files, sims, intact, changes, crashes>>
      /\ phase = "query" /\ ret' = "ok"
  BY DEF CheckRestoreFileInfos, history
<1> DEFINE left(kept) == {p \in DOMAIN backup.rows \ kept : backup.rows[p].source = "preset"}
           P(kept) == {FileInfo(p, LocalPath(p)) : p \in left(kept)}
           items(kept) == UNION {Commits(i) : i \in P(kept)}
<1>2. PICK kept \in RestoredSets : \E order \in [1 .. Cardinality(kept) -> kept] :
        /\ \A p \in kept : \E i \in DOMAIN order : order[i] = p
        /\ work' = [work EXCEPT !.infos = [i \in DOMAIN order |-> FileInfo(order[i], "")],
                                !.cache = CommitSettings(work.cache, items(kept))]
        /\ phase' = IF kept # {} THEN "insert" ELSE "flush"
        /\ rows' = [p \in DOMAIN rows |->
                    LET same == {i \in P(kept) : i.path = p}
                    IN  IF same = {} THEN rows[p]
                        ELSE ClearLocalDBTypeSetting(rows, CHOOSE i \in same : TRUE)[p]]
  BY Zenon DEF CheckRestoreFileInfos
<1>3. PICK order \in [1 .. Cardinality(kept) -> kept] :
        /\ \A p \in kept : \E i \in DOMAIN order : order[i] = p
        /\ work' = [work EXCEPT !.infos = [i \in DOMAIN order |-> FileInfo(order[i], "")],
                                !.cache = CommitSettings(work.cache, items(kept))]
        /\ phase' = IF kept # {} THEN "insert" ELSE "flush"
        /\ rows' = [p \in DOMAIN rows |->
                    LET same == {i \in P(kept) : i.path = p}
                    IN  IF same = {} THEN rows[p]
                        ELSE ClearLocalDBTypeSetting(rows, CHOOSE i \in same : TRUE)[p]]
  BY <1>2, Zenon
<1>4. IsTable(rows') /\ Keeps(rows, rows') /\ Shrinks(rows, rows') /\ StaysSounding(rows, rows')
  <2> DEFINE Q == P(kept)
  <2>1. rows' = [p \in DOMAIN rows |->
                    LET same == {i \in Q : i.path = p}
                    IN  IF same = {} THEN rows[p]
                        ELSE ClearLocalDBTypeSetting(rows, CHOOSE i \in same : TRUE)[p]]
    BY <1>3, Zenon
  <2> HIDE DEF Q
  <2>2. IsTable(rows)
    BY DEF TypeInv, TypeOK
  <2> QED
    BY <2>1, <2>2, ClearedRows
<1>5. /\ kept \subseteq DOMAIN backup.rows /\ kept \subseteq DOMAIN backup.files /\ Cardinality(kept) \in Nat
      /\ \A i, j \in DOMAIN order : order[i] = order[j] => i = j
  BY <1>3, RestoredFiles
<1>6. IsBackup(backup) /\ IsCache(work.cache) /\ IsWork(work)
  BY DEF TypeInv, TypeOK, IsWork, IsCache
<1> DEFINE infos == [i \in DOMAIN order |-> FileInfo(order[i], "")]
           new == items(kept)
           cache == CommitSettings(work.cache, new)
<1>7. ASSUME NEW x \in DOMAIN infos
      PROVE  /\ infos[x] \in Info /\ infos[x].data = order[x] /\ order[x] \in kept
             /\ infos[x].on = backup.rows[order[x]].on /\ infos[x].by = backup.rows[order[x]].by
  <2> DEFINE d == order[x]
  <2>1. d \in kept /\ d \in DOMAIN backup.rows /\ "" \in Paths \cup {""}
    BY <1>5
  <2>2. infos[x] = FileInfo(d, "")
    OBVIOUS
  <2> HIDE DEF d, infos
  <2>3. LET info == FileInfo(d, "")
        IN  /\ info \in Info /\ info.data = d
            /\ info.on = backup.rows[d].on /\ info.by = backup.rows[d].by
    BY <1>6, <2>1, InfoOfFile
  <2> QED
    BY <2>1, <2>2, <2>3, Zenon DEF d
<1>8. /\ \A i \in items(kept) :
            /\ i \in Item /\ i.by = "customised"
            /\ \A c \in i.cards : \E d \in DOMAIN backup.rows \ kept :
                /\ i.path = LocalPath(d)
                /\ backup.rows[d].by[i.kind] = "customised" /\ c \in backup.rows[d].on[i.kind]
  <2> SUFFICES ASSUME NEW i \in items(kept)
               PROVE  \E d \in DOMAIN backup.rows \ kept :
                        /\ i \in Item /\ i.by = "customised" /\ i.path = LocalPath(d)
                        /\ \A c \in i.cards : /\ backup.rows[d].by[i.kind] = "customised"
                                              /\ c \in backup.rows[d].on[i.kind]
    <3> HIDE DEF items
    <3> QED
      BY Zenon
  <2>0. PICK d \in DOMAIN backup.rows \ kept : i \in Commits(FileInfo(d, LocalPath(d)))
    OBVIOUS
  <2> DEFINE path == LocalPath(d)  info == FileInfo(d, path)
  <2>1. path \in Paths
    BY <1>6, LocalPathIsCopy DEF IsBackup, IsTable
  <2> HIDE DEF path
  <2>2. info \in Info /\ info.path = path /\ info.on = backup.rows[d].on /\ info.by = backup.rows[d].by
    BY <1>6, <2>1, InfoOfFile
  <2>3. i \in Commits(info)
    BY <2>0, Zenon DEF path
  <2> HIDE DEF info
  <2>4. /\ i \in Item /\ i.by = "customised" /\ i.path = info.path
        /\ info.by[i.kind] = "customised" /\ \A c \in i.cards : c \in info.on[i.kind]
    BY <2>1, <2>2, <2>3, ItemsOfInfo
  <2> QED
    BY <2>2, <2>4, Zenon DEF path
<1>9. /\ IsCache(cache)
      /\ \A i \in cache : \A c \in i.cards : \E j \in work.cache \cup new :
            j.path = i.path /\ j.kind = i.kind /\ c \in j.cards
  <2>1. \A i \in new : i \in Item /\ i.by = "customised"
    BY <1>8, Zenon
  <2> HIDE DEF new
  <2> QED
    BY <1>6, <2>1, CacheOfCommits
<1>10. work.cache = {} /\ job.scene = "clone" /\ work.todo = {} /\ work.steps \in Seq(SimCards \X SimCards)
  BY <1>1 DEF TypeInv, TypeOK, Shape, IsWork
<1>11. /\ \A i \in cache : \A c \in i.cards : \E d \in DOMAIN backup.rows \ kept :
            /\ i.path = LocalPath(d)
            /\ backup.rows[d].by[i.kind] = "customised" /\ c \in backup.rows[d].on[i.kind]
  <2> SUFFICES ASSUME NEW i \in cache, NEW c \in i.cards
               PROVE  \E d \in DOMAIN backup.rows \ kept :
                        /\ i.path = LocalPath(d)
                        /\ backup.rows[d].by[i.kind] = "customised" /\ c \in backup.rows[d].on[i.kind]
    OBVIOUS
  <2>1. PICK j \in new : j.path = i.path /\ j.kind = i.kind /\ c \in j.cards
    BY <1>9, <1>10
  <2> HIDE DEF cache, new
  <2>2. PICK d \in DOMAIN backup.rows \ kept :
            /\ j.path = LocalPath(d)
            /\ backup.rows[d].by[j.kind] = "customised" /\ c \in backup.rows[d].on[j.kind]
    BY <1>8, <2>1, Zenon DEF new
  <2> QED
    BY <2>1, <2>2, Zenon
<1>12. work' = [work EXCEPT !.infos = infos, !.cache = cache]
  BY <1>3, Zenon
<1>13. infos \in Seq(Info) /\ DOMAIN infos = 1 .. Cardinality(kept) /\ DOMAIN order = 1 .. Cardinality(kept)
  <2>1. DOMAIN infos = 1 .. Cardinality(kept) /\ DOMAIN order = 1 .. Cardinality(kept)
    OBVIOUS
  <2>2. infos = [i \in 1 .. Cardinality(kept) |-> infos[i]]
    OBVIOUS
  <2> HIDE DEF infos
  <2> QED
    BY <1>5, <1>7, <2>1, <2>2
<1>14. kept = {} => infos = <<>>
  <2> HIDE DEF infos
  <2> QED
    BY <1>13, NoElement, FS_EmptySet
<1> HIDE DEF infos, cache
<1>15. /\ IsWork(work') /\ work'.infos = infos /\ work'.cache = cache /\ work'.todo = {}
       /\ work'.steps = work.steps /\ work'.values = work.values
  BY <1>6, <1>9, <1>10, <1>12, <1>13 DEF IsWork, IsCache
<1>16. TypeOK'
  BY <1>1, <1>3, <1>4, <1>15 DEF TypeInv, TypeOK, Phases
<1>17. Shape'
  <2>1. /\ \A x \in DOMAIN infos : infos[x].data \in DOMAIN backup.files
        /\ \A x, y \in DOMAIN infos : infos[x].data = infos[y].data => x = y
    BY <1>5, <1>7, <1>13
  <2>2. phase' \in {"insert", "flush"} /\ (phase' # "insert" => infos = <<>>)
    BY <1>3, <1>14
  <2> QED
    BY <1>1, <1>10, <1>15, <2>1, <2>2 DEF TypeInv, Shape
<1>18. /\ \A x \in DOMAIN infos :
            /\ infos[x].data \in kept
            /\ infos[x].on = backup.rows[infos[x].data].on
            /\ infos[x].by = backup.rows[infos[x].data].by
       /\ \A d \in kept : \E x \in DOMAIN infos : infos[x].data = d
  BY <1>3, <1>7, <1>13
<1> QED
  BY <1>4, <1>11, <1>15, <1>16, <1>17, <1>18 DEF TypeInv
-----------------------------------------------------------------------------
(* One tone *)

LEMMA Shortened ==
    ASSUME NEW s \in Seq(Info), s # <<>>
    PROVE  /\ 1 \in DOMAIN s /\ Head(s) = s[1] /\ s[1] \in Info /\ Tail(s) \in Seq(Info)
           /\ \A x \in DOMAIN Tail(s) : x + 1 \in DOMAIN s /\ x + 1 # 1 /\ Tail(s)[x] = s[x + 1]
           /\ \A x, y \in DOMAIN Tail(s) : x + 1 = y + 1 => x = y
           /\ \A y \in DOMAIN s : y = 1 \/ (y - 1 \in DOMAIN Tail(s) /\ Tail(s)[y - 1] = s[y])
OBVIOUS

(* The items of a tone join the cache. *)
Takes(old, new, info, path) ==
    \A i \in new : \A c \in i.cards :
        \/ \E j \in old : j.path = i.path /\ j.kind = i.kind /\ c \in j.cards
        \/ /\ i.path = path /\ info.by[i.kind] = "customised" /\ c \in info.on[i.kind]
           /\ NeedCommit(i.kind, c)

LEMMA ItemsTaken ==
    ASSUME NEW cache, IsCache(cache), NEW info \in Info, NEW path \in Paths
    PROVE  LET new == CommitSettings(cache, Commits([info EXCEPT !.path = path]))
           IN  IsCache(new) /\ Takes(cache, new, info, path)
<1> DEFINE to == [info EXCEPT !.path = path]
           items == Commits(to)
           new == CommitSettings(cache, items)
<1>1. to \in Info /\ to.path = path /\ to.on = info.on /\ to.by = info.by
  BY InfoAt
<1> HIDE DEF to
<1>2. \A i \in items : /\ i \in Item /\ i.by = "customised" /\ i.path = path
                       /\ info.by[i.kind] = "customised"
                       /\ \A c \in i.cards : c \in info.on[i.kind] /\ NeedCommit(i.kind, c)
  BY <1>1, ItemsOfInfo
<1> HIDE DEF items
<1>3. /\ IsCache(new)
      /\ \A i \in new : \A c \in i.cards : \E j \in cache \cup items :
            j.path = i.path /\ j.kind = i.kind /\ c \in j.cards
  BY <1>2, CacheOfCommits
<1> HIDE DEF new
<1>4. Takes(cache, new, info, path)
  <2> SUFFICES ASSUME NEW i \in new, NEW c \in i.cards
               PROVE  \/ \E j \in cache : j.path = i.path /\ j.kind = i.kind /\ c \in j.cards
                      \/ /\ i.path = path /\ info.by[i.kind] = "customised" /\ c \in info.on[i.kind]
                         /\ NeedCommit(i.kind, c)
    BY DEF Takes
  <2>1. PICK j \in cache \cup items : j.path = i.path /\ j.kind = i.kind /\ c \in j.cards
    BY <1>3
  <2>2. CASE j \in items
    BY <1>2, <2>1, <2>2, Zenon
  <2> QED
    BY <2>1, <2>2
<1> QED
  BY <1>3, <1>4, Zenon DEF new, items, to

LEMMA RowOfInfo ==
    ASSUME NEW info \in Info, NEW path \in Paths
    PROVE  LET row == SetInsertValue([info EXCEPT !.path = path])
           IN  row \in Row /\ \A k \in Kinds : row.on[k] = {}
<1> DEFINE to == [info EXCEPT !.path = path]
           row == SetInsertValue(to)
<1>1. to.source = info.source /\ to.video = info.video
      /\ info.source \in {"preset", "customised"} /\ info.video \in BOOLEAN
  BY DEF Info
<1> HIDE DEF to
<1>2. row \in Row /\ \A k \in Kinds : row.on[k] = {}
  BY <1>1, NewRow
<1> QED
  BY <1>2, Zenon DEF row, to

(* What a tone adds to a table. *)
Put(table, path, x) == Merge([p \in {path} |-> x], table)

NoSettings(table) == \A p \in DOMAIN table : \A k \in Kinds : table[p].on[k] = {}

LEMMA RowTaken ==
    ASSUME NEW values, IsTable(values), NoSettings(values), NEW path \in Paths,
           NEW row \in Row, \A k \in Kinds : row.on[k] = {}
    PROVE  LET new == Put(values, path, row)
           IN  IsTable(new) /\ NoSettings(new)
<1> DEFINE new == Put(values, path, row)
<1>3. values \in [DOMAIN values -> Row] /\ DOMAIN values \subseteq Paths
  BY DEF IsTable
<1>4. /\ DOMAIN new = {path} \cup DOMAIN values
      /\ \A p \in DOMAIN new : new[p] = IF p = path THEN row ELSE values[p]
      /\ new = [p \in DOMAIN new |-> new[p]]
  BY DEF Merge, Put
<1> HIDE DEF new
<1>5. IsTable(new)
  BY <1>3, <1>4 DEF IsTable
<1>6. NoSettings(new)
  BY <1>4 DEF NoSettings
<1> QED
  BY <1>5, <1>6, Zenon DEF new

(* Files of the device stay as they are. *)
FilesStay(old, new) == \A p \in DOMAIN old : p \in DOMAIN new /\ new[p] = old[p]

LEMMA FilePut ==
    ASSUME NEW path \in Paths, NEW size \in Contents, NEW sizes, IsFiles(sizes), path \notin DOMAIN sizes
    PROVE  LET new == Put(sizes, path, size)
           IN  IsFiles(new) /\ FilesStay(sizes, new) /\ path \in DOMAIN new /\ new[path] = size
<1> DEFINE new == Put(sizes, path, size)
<1>1. sizes \in [DOMAIN sizes -> Contents] /\ DOMAIN sizes \subseteq Paths
  BY DEF IsFiles
<1>2. /\ DOMAIN new = {path} \cup DOMAIN sizes
      /\ \A p \in DOMAIN new : new[p] = IF p = path THEN size ELSE sizes[p]
      /\ new = [p \in DOMAIN new |-> new[p]]
  BY DEF Merge, Put
<1> HIDE DEF new
<1>3. IsFiles(new)
  BY <1>1, <1>2 DEF IsFiles
<1> QED
  BY <1>2, <1>3 DEF new, FilesStay

LEMMA SettingsChecked ==
    ASSUME IsTable(rows), IsSims(sims), NEW info \in Info, NEW found \in VibrateFile, CheckSetting(info, found)
    PROVE  /\ IsTable(rows') /\ Keeps(rows, rows') /\ Shrinks(rows, rows') /\ StaysSounding(rows, rows')
           /\ IsSims(sims') /\ SimsKept(sims, sims')
<1>1. rows' = ClearLocalDBTypeSetting(rows, info) /\ sims' = CheckUpdateVibrateSetting(info, found)
  BY DEF CheckSetting
<1>2. IsTable(rows') /\ DOMAIN rows' = DOMAIN rows /\ Cleared(rows, rows')
  BY <1>1, ClearLocalKeeps
<1>3. IsSims(sims') /\ SimsKept(sims, sims')
  BY <1>1, VibrationSims
<1> QED
  BY <1>2, <1>3, ClearedKeeps
LEMMA KeptTwice ==
    ASSUME NEW table
    PROVE  Keeps(table, table) /\ Shrinks(table, table) /\ StaysSounding(table, table)
BY DEF Keeps, Shrinks, StaysSounding

(* The first name of a restored file that fits is one of its names. *)
LEMMA TargetIsCopy ==
    ASSUME NEW path, NEW data, NEW size, Target(path, data, size)
    PROVE  /\ \E i \in DOMAIN Names[data] : path = Names[data][i]
           /\ IsCopyOf(path, data)
           /\ path \in DOMAIN files => files[path] = size
<1>1. PICK i \in DOMAIN Names[data] : path = Names[data][i] /\ (Names[data][i] \in DOMAIN files => files[Names[data][i]] = size)
  BY Zenon DEF Target
<1> QED
  BY <1>1, Zenon DEF IsCopyOf

(* A tone without a place is only forgotten. *)
LEMMA PassStep ==
    ASSUME TypeInv, PassOver
    PROVE  /\ TypeInv' /\ UNCHANGED <<job, backup, phase, ret, completed, rows, files, sims, given, intact, changes, crashes>>
           /\ job.scene = "clone" /\ phase = "insert" /\ work.infos # <<>> /\ work'.infos = Tail(work.infos)
           /\ work'.cache = work.cache /\ work'.noTone = work.noTone /\ work'.values = work.values
           /\ work.infos[1].data \in Unplaced
<1>1. /\ UNCHANGED <<job, backup, phase, ret, completed, rows, files, sims, given, intact, changes, crashes>>
      /\ job.scene = "clone" /\ phase = "insert" /\ work.infos # <<>>
      /\ work' = [work EXCEPT !.infos = Tail(work.infos)] /\ Head(work.infos).data \in Unplaced
  BY DEF PassOver, device, history
<1>2. /\ work.infos \in Seq(Info) /\ IsWork(work) /\ NoSettings(work.values)
      /\ \A x \in DOMAIN work.infos : work.infos[x].data \in DOMAIN backup.files
      /\ \A x, y \in DOMAIN work.infos : work.infos[x].data = work.infos[y].data => x = y
  BY <1>1 DEF TypeInv, TypeOK, Shape, IsWork, NoSettings
<1> DEFINE tail == Tail(work.infos)
<1>3. /\ tail \in Seq(Info) /\ Head(work.infos) = work.infos[1]
      /\ \A x \in DOMAIN tail : x \in Int /\ x + 1 \in DOMAIN work.infos /\ tail[x] = work.infos[x + 1]
  BY <1>1, <1>2, Shortened
<1> HIDE DEF tail
<1>4. /\ \A x \in DOMAIN tail : tail[x].data \in DOMAIN backup.files
      /\ \A x, y \in DOMAIN tail : tail[x].data = tail[y].data => x = y
  BY <1>2, <1>3
<1>5. /\ IsWork(work') /\ work'.infos = tail /\ work'.cache = work.cache /\ work'.noTone = work.noTone
      /\ work'.values = work.values /\ work'.steps = work.steps /\ work'.presets = work.presets
      /\ work'.todo = work.todo
  BY <1>1, <1>2, <1>3 DEF IsWork, tail
<1>6. TypeOK'
  BY <1>1, <1>5 DEF TypeInv, TypeOK
<1>7. Shape'
  BY <1>1, <1>4, <1>5 DEF TypeInv, Shape, NoSettings
<1> QED
  BY <1>1, <1>3, <1>5, <1>6, <1>7 DEF TypeInv, tail

(* A file of a clone is there, is moved, or fails to be. *)
LEMMA PrepareStep ==
    ASSUME TypeInv, PrepareTone
    PROVE  /\ TypeInv'
           /\ Keeps(rows, rows') /\ Shrinks(rows, rows') /\ StaysSounding(rows, rows')
           /\ SimsKept(sims, sims') /\ FilesStay(files, files')
           /\ job.scene = "clone" /\ phase = "insert" /\ phase' = phase /\ (intact' => intact)
           /\ work.infos # <<>> /\ work'.infos = Tail(work.infos)
           /\ backup'.rows = backup.rows
           /\ \A d \in DOMAIN backup.files \ {work.infos[1].data} :
                d \in DOMAIN backup'.files /\ backup'.files[d] = backup.files[d]
           /\ \A d \in DOMAIN backup'.files : d \in DOMAIN backup.files /\ backup'.files[d] = backup.files[d]
           /\ \E path \in Paths :
                /\ IsCopyOf(path, work.infos[1].data)
                /\ Takes(work.cache, work'.cache, work.infos[1], path)
                /\ intact' => \E i \in DOMAIN Names[work.infos[1].data] :
                    /\ path = Names[work.infos[1].data][i]
                    /\ path \in DOMAIN files' /\ files'[path] = backup.files[work.infos[1].data]
<1> DEFINE info == work.infos[1]
           size == backup.files[info.data]
<1>1. /\ UNCHANGED <<job, phase, ret, completed, changes, crashes>>
      /\ job.scene = "clone" /\ phase = "insert" /\ work.infos # <<>>
  BY DEF PrepareTone
<1>2. /\ work.infos \in Seq(Info) /\ IsTable(work.values) /\ IsCache(work.cache) /\ IsWork(work)
      /\ IsTable(rows) /\ IsSims(sims) /\ IsFiles(files) /\ IsBackup(backup) /\ intact \in BOOLEAN
      /\ \A p \in DOMAIN work.values : \A k \in Kinds : work.values[p].on[k] = {}
      /\ work.todo = {}
      /\ \A x \in DOMAIN work.infos : work.infos[x].data \in DOMAIN backup.files
      /\ \A x, y \in DOMAIN work.infos : work.infos[x].data = work.infos[y].data => x = y
  BY <1>1 DEF TypeInv, TypeOK, Shape, IsWork, IsCache
<1>3. info \in Info /\ Head(work.infos) = info /\ 1 \in DOMAIN work.infos /\ Tail(work.infos) \in Seq(Info)
  BY <1>1, <1>2, Shortened
<1>4. info.data \in DOMAIN backup.files /\ size \in Contents
  BY <1>2, <1>3 DEF IsBackup, IsFiles
<1> DEFINE to(path) == [info EXCEPT !.path = path]
           commit(path) == CommitSettings(work.cache, Commits(to(path)))
           values(path) == Merge([p \in {path} |-> SetInsertValue(to(path))], work.values)
           left == [p \in DOMAIN backup.files \ {info.data} |-> backup.files[p]]
<1>5. PICK path \in Paths :
        /\ Target(path, info.data, size)
        /\ \/ /\ path \in DOMAIN files
              /\ CheckSetting(to(path), "")
              /\ work' = [work EXCEPT !.infos = Tail(work.infos), !.cache = commit(path)]
              /\ UNCHANGED <<backup, files, intact>>
           \/ /\ path \notin DOMAIN files
              /\ CheckSetting(to(path), "")
              /\ work' = [[work EXCEPT !.infos = Tail(work.infos), !.cache = commit(path)]
                            EXCEPT !.values = Merge([p \in {path} |-> SetInsertValue(to(path))],
                                                    [work EXCEPT !.infos = Tail(work.infos), !.cache = commit(path)].values)]
              /\ files' = Merge([p \in {path} |-> size], files)
              /\ backup' = [backup EXCEPT !.files = left] \/ backup' = backup
              /\ UNCHANGED intact
           \/ /\ path \notin DOMAIN files
              /\ work' = [work EXCEPT !.infos = Tail(work.infos)]
              /\ intact' = FALSE
              /\ UNCHANGED <<backup, rows, files, sims>>
  BY <1>3, Zenon DEF PrepareTone
<1> DEFINE there ==
              /\ path \in DOMAIN files
              /\ CheckSetting(to(path), "")
              /\ work' = [work EXCEPT !.infos = Tail(work.infos), !.cache = commit(path)]
              /\ UNCHANGED <<backup, files, intact>>
           moved ==
              /\ path \notin DOMAIN files
              /\ CheckSetting(to(path), "")
              /\ work' = [work EXCEPT !.infos = Tail(work.infos), !.cache = commit(path), !.values = values(path)]
              /\ files' = Merge([p \in {path} |-> size], files)
              /\ backup' = [backup EXCEPT !.files = left] \/ backup' = backup
              /\ UNCHANGED intact
           failed ==
              /\ path \notin DOMAIN files
              /\ work' = [work EXCEPT !.infos = Tail(work.infos)]
              /\ intact' = FALSE
              /\ UNCHANGED <<backup, rows, files, sims>>
<1>6. there \/ moved \/ failed
  <2> DEFINE c == commit(path)  t == Tail(work.infos)  r == SetInsertValue(to(path))
  <2>1. [[work EXCEPT !.infos = t, !.cache = c] EXCEPT
            !.values = Merge([p \in {path} |-> r], [work EXCEPT !.infos = t, !.cache = c].values)]
        = [work EXCEPT !.infos = t, !.cache = c, !.values = Merge([p \in {path} |-> r], work.values)]
    <3> HIDE DEF c, t, r
    <3>1. [work EXCEPT !.infos = t, !.cache = c].values = work.values
      BY <1>2 DEF IsWork
    <3> QED
      BY <1>2, <3>1 DEF IsWork
  <2> QED
    BY <1>5, <2>1, Zenon
<1>7. to(path) \in Info /\ "" \in VibrateFile
  BY <1>3, InfoAt DEF VibrateFile
<1>t. /\ \E i \in DOMAIN Names[info.data] : path = Names[info.data][i]
      /\ IsCopyOf(path, info.data)
      /\ path \in DOMAIN files => files[path] = size
  <2> DEFINE d == info.data  z == size
  <2>1. Target(path, d, z)
    BY <1>5, Zenon
  <2> HIDE DEF info, d, z, size
  <2>2. /\ \E i \in DOMAIN Names[d] : path = Names[d][i]
        /\ IsCopyOf(path, d)
        /\ path \in DOMAIN files => files[path] = z
    BY <2>1, TargetIsCopy
  <2> QED
    BY <2>2, Zenon DEF d, z
<1>8. /\ IsTable(rows') /\ Keeps(rows, rows') /\ Shrinks(rows, rows') /\ StaysSounding(rows, rows')
      /\ IsSims(sims') /\ SimsKept(sims, sims')
  <2>1. CASE there \/ moved
    <3> HIDE DEF to
    <3> QED
      BY <1>2, <1>7, <2>1, SettingsChecked
  <2>2. CASE failed
    BY <1>2, <2>2, KeptTwice DEF SimsKept
  <2> QED
    BY <1>6, <2>1, <2>2
<1>9. /\ IsFiles(files') /\ FilesStay(files, files')
      /\ intact' => path \in DOMAIN files' /\ files'[path] = size
  <2> DEFINE z == size
  <2>0. z \in Contents /\ (path \in DOMAIN files => files[path] = z)
    BY <1>4, <1>t, Zenon
  <2>1. CASE there
    <3>1. files' = files /\ path \in DOMAIN files
      BY <2>1, Zenon
    <3> HIDE DEF z, there
    <3>2. /\ IsFiles(files') /\ FilesStay(files, files')
          /\ path \in DOMAIN files' /\ files'[path] = z
      BY <1>2, <2>0, <3>1 DEF FilesStay
    <3> QED
      BY <3>2, Zenon DEF z
  <2>2. CASE moved
    <3>1. files' = Put(files, path, z) /\ path \notin DOMAIN files
      BY <2>2, Zenon DEF Put
    <3>0. IsFiles(files)
      BY <1>2
    <3> HIDE DEF z, moved, size, info
    <3>2. LET new == Put(files, path, z)
          IN  IsFiles(new) /\ FilesStay(files, new) /\ path \in DOMAIN new /\ new[path] = z
      BY <2>0, <3>0, <3>1, FilePut
    <3> QED
      BY <3>1, <3>2, Zenon DEF z
  <2>3. CASE failed
    BY <1>2, <2>3 DEF FilesStay
  <2> QED
    BY <1>6, <2>1, <2>2, <2>3
<1>10. /\ IsCache(commit(path)) /\ Takes(work.cache, commit(path), info, path)
       /\ Takes(work.cache, work.cache, info, path)
  <2> DEFINE cache == work.cache
  <2>1. IsCache(cache)
    BY <1>2
  <2> HIDE DEF info, cache
  <2>2. /\ IsCache(CommitSettings(cache, Commits([info EXCEPT !.path = path])))
        /\ Takes(cache, CommitSettings(cache, Commits([info EXCEPT !.path = path])), info, path)
    BY <1>3, <2>1, ItemsTaken
  <2>3. Takes(cache, cache, info, path)
    BY DEF Takes
  <2> QED
    BY <2>2, <2>3 DEF cache
<1>11. IsTable(values(path)) /\ NoSettings(values(path))
  <2> DEFINE v == work.values
             row == SetInsertValue([info EXCEPT !.path = path])
  <2>1. IsTable(v) /\ NoSettings(v)
    BY <1>2 DEF NoSettings
  <2>2. row \in Row /\ \A k \in Kinds : row.on[k] = {}
    <3>1. info \in Info
      BY <1>3
    <3> HIDE DEF info
    <3> QED
      BY <3>1, RowOfInfo
  <2> HIDE DEF row, v
  <2>3. IsTable(Put(v, path, row)) /\ NoSettings(Put(v, path, row))
    BY <2>1, <2>2, RowTaken
  <2> QED
    BY <2>3, Zenon DEF v, row, Put
<1>12. /\ IsBackup(backup') /\ backup'.rows = backup.rows
       /\ \A d \in DOMAIN backup.files \ {info.data} : d \in DOMAIN backup'.files /\ backup'.files[d] = backup.files[d]
       /\ \A d \in DOMAIN backup'.files : d \in DOMAIN backup.files /\ backup'.files[d] = backup.files[d]
  <2>1. CASE backup' = backup
    BY <1>2, <2>1
  <2>2. CASE backup' = [backup EXCEPT !.files = left]
    <3>1. IsFiles(left) /\ DOMAIN left = DOMAIN backup.files \ {info.data} /\ \A d \in DOMAIN left : left[d] = backup.files[d]
      <4> HIDE DEF info
      <4> QED
        BY <1>2 DEF IsBackup, IsFiles
    <3> HIDE DEF left, info
    <3>2. backup' = [rows |-> backup.rows, files |-> left, sims |-> backup.sims, there |-> backup.there]
      BY <1>2, <2>2 DEF IsBackup
    <3> QED
      BY <1>2, <3>1, <3>2 DEF IsBackup
  <2> QED
    BY <1>6, <2>1, <2>2
<1> HIDE DEF commit, values, left, to, info
<1>13. /\ IsWork(work') /\ work'.infos = Tail(work.infos) /\ work'.todo = {}
       /\ work'.steps = work.steps
       /\ work'.cache = work.cache \/ work'.cache = commit(path)
       /\ NoSettings(work'.values)
  <2> DEFINE tail == Tail(work.infos)
  <2>1. tail \in Seq(Info)
    BY <1>3
  <2>2. /\ \E c \in {work.cache, commit(path)} : \E v \in {work.values, values(path)} :
                work' = [work EXCEPT !.infos = tail, !.cache = c, !.values = v]
    <3>1. /\ [work EXCEPT !.infos = tail, !.cache = commit(path)]
             = [work EXCEPT !.infos = tail, !.cache = commit(path), !.values = work.values]
          /\ [work EXCEPT !.infos = tail]
             = [work EXCEPT !.infos = tail, !.cache = work.cache, !.values = work.values]
      <4> HIDE DEF tail
      <4> QED
        BY <1>2 DEF IsWork
    <3> QED
      BY <1>6, <3>1, Zenon
  <2> HIDE DEF tail
  <2>3. PICK c \in {work.cache, commit(path)} : \E v \in {work.values, values(path)} :
                work' = [work EXCEPT !.infos = tail, !.cache = c, !.values = v]
    BY <2>2
  <2>4. PICK v \in {work.values, values(path)} : work' = [work EXCEPT !.infos = tail, !.cache = c, !.values = v]
    BY <2>3
  <2>5. IsCache(c) /\ IsTable(v) /\ NoSettings(v)
    BY <1>2, <1>10, <1>11 DEF NoSettings
  <2>6. /\ IsWork(work') /\ work'.infos = tail /\ work'.todo = {} /\ work'.cache = c /\ work'.values = v
        /\ work'.steps = work.steps
    BY <1>2, <2>1, <2>4, <2>5 DEF IsWork, IsCache
  <2> QED
    BY <2>5, <2>6 DEF tail
<1>14. TypeOK'
  <2>1. intact' \in BOOLEAN
    BY <1>2, <1>6
  <2> QED
    BY <1>1, <1>8, <1>9, <1>12, <1>13, <2>1 DEF TypeInv, TypeOK
<1>15. Shape'
  <2>1. /\ \A x \in DOMAIN Tail(work.infos) : Tail(work.infos)[x].data \in DOMAIN backup'.files
        /\ \A x, y \in DOMAIN Tail(work.infos) : Tail(work.infos)[x].data = Tail(work.infos)[y].data => x = y
    <3> DEFINE tail == Tail(work.infos)
    <3>1. \A x \in DOMAIN tail : x + 1 \in DOMAIN work.infos /\ x + 1 # 1 /\ tail[x] = work.infos[x + 1]
      BY <1>1, <1>2, Shortened
    <3>2. \A x, y \in DOMAIN tail : x + 1 = y + 1 => x = y
      BY <1>1, <1>2, Shortened
    <3> HIDE DEF tail
    <3>3. \A x \in DOMAIN tail : tail[x].data \in DOMAIN backup'.files
      <4> SUFFICES ASSUME NEW x \in DOMAIN tail PROVE tail[x].data \in DOMAIN backup'.files
        OBVIOUS
      <4>1. work.infos[x + 1].data \in DOMAIN backup.files /\ work.infos[x + 1].data # info.data
        BY <1>2, <1>3, <3>1 DEF info
      <4> QED
        BY <1>12, <3>1, <4>1
    <3>4. \A x, y \in DOMAIN tail : tail[x].data = tail[y].data => x = y
      BY <1>2, <3>1, <3>2
    <3> QED
      BY <3>3, <3>4 DEF tail
  <2> QED
    BY <1>1, <1>13, <2>1 DEF TypeInv, Shape, NoSettings
<1>17. Takes(work.cache, work'.cache, info, path)
  BY <1>10, <1>13
<1>18. intact' => intact
  BY <1>6
<1> QED
  BY <1>1, <1>8, <1>9, <1>12, <1>13, <1>14, <1>15, <1>17, <1>18, <1>t DEF TypeInv, info

(* A tone of a setting has a path of the device, or is copied to one, or stays where it is.   *)
LEMMA DupStep ==
    ASSUME TypeInv, DupTone
    PROVE  /\ TypeInv'
           /\ Keeps(rows, rows') /\ Shrinks(rows, rows') /\ StaysSounding(rows, rows')
           /\ SimsKept(sims, sims') /\ FilesStay(files, files')
           /\ job.scene = "dual" /\ phase = "insert" /\ phase' = phase
           /\ work.infos # <<>> /\ work'.infos = Tail(work.infos) /\ backup' = backup
           /\ \E path \in Paths :
                /\ IsCopyOf(path, work.infos[1].data)
                /\ Takes(work.cache, work'.cache, work.infos[1], path)
<1> DEFINE info == Head(work.infos)
           data == info.data
           size == backup.files[data]
           isFile == data \in DOMAIN backup.files
           to(path) == [info EXCEPT !.path = path]
           insert(path) == to(path).insert /\ path \notin DOMAIN work.values
           commit(path) == CommitSettings(work.cache, Commits(to(path)))
           values(path) == Merge([p \in {path} |-> SetInsertValue(to(path))], work.values)
<1>1. /\ UNCHANGED <<job, backup, phase, ret, completed, changes, crashes>>
      /\ job.scene # "clone" /\ phase = "insert" /\ work.infos # <<>>
  BY DEF DupTone
<1>2. /\ work.infos \in Seq(Info) /\ IsTable(work.values) /\ IsCache(work.cache) /\ IsWork(work)
      /\ IsTable(rows) /\ IsSims(sims) /\ IsFiles(files) /\ IsBackup(backup) /\ intact \in BOOLEAN
      /\ NoSettings(work.values) /\ work.todo = {}
  BY <1>1 DEF TypeInv, TypeOK, Shape, IsWork, IsCache, NoSettings
<1>3. job.scene = "dual"
  BY <1>1, JobTyped DEF TypeInv, TypeOK, IsJob
<1>4. info \in Info /\ info = work.infos[1] /\ Tail(work.infos) \in Seq(Info) /\ data \in Paths
  <2>1. info \in Info /\ info = work.infos[1] /\ Tail(work.infos) \in Seq(Info)
    BY <1>1, <1>2, Shortened
  <2> HIDE DEF info
  <2> QED
    BY <2>1 DEF Info
<1>5. PICK target \in Paths, path \in Paths, vibrate \in {"", "std"} :
        LET free == isFile /\ target \notin DOMAIN files
        IN  /\ IF isFile THEN Target(target, data, size) ELSE target = data
            /\ path = target \/ (free /\ path = data)
            /\ files' = IF free /\ path = target THEN Merge([p \in {path} |-> size], files) ELSE files
            /\ intact' = (intact /\ path = target)
            /\ work' = [work EXCEPT
                    !.infos = Tail(work.infos),
                    !.values = IF insert(path) THEN values(path) ELSE work.values,
                    !.cache = IF to(path).skip THEN work.cache ELSE commit(path)]
            /\ IF to(path).skip THEN UNCHANGED <<rows, sims>> ELSE CheckSetting(to(path), vibrate)
  BY Zenon DEF DupTone
<1>6. to(path) \in Info /\ vibrate \in VibrateFile
  BY <1>4, InfoAt DEF VibrateFile
<1>7. IsCopyOf(path, data)
  <2>1. CASE isFile
    <3>1. Target(target, data, size) /\ (path = target \/ path = data)
      BY <1>5, <2>1, Zenon
    <3> HIDE DEF data, size
    <3>2. IsCopyOf(target, data)
      BY <3>1, TargetIsCopy
    <3>3. IsCopyOf(data, data)
      BY DEF IsCopyOf
    <3> QED
      BY <3>1, <3>2, <3>3, Zenon
  <2>2. CASE ~isFile
    <3>1. path = data
      BY <1>5, <2>2, Zenon
    <3> HIDE DEF data
    <3> QED
      BY <3>1 DEF IsCopyOf
  <2> QED
    BY <2>1, <2>2
<1>8. /\ IsTable(rows') /\ Keeps(rows, rows') /\ Shrinks(rows, rows') /\ StaysSounding(rows, rows')
      /\ IsSims(sims') /\ SimsKept(sims, sims')
  <2>1. CASE CheckSetting(to(path), vibrate)
    <3> HIDE DEF to
    <3> QED
      BY <1>2, <1>6, <2>1, SettingsChecked
  <2>2. CASE UNCHANGED <<rows, sims>>
    BY <1>2, <2>2, KeptTwice DEF SimsKept
  <2> QED
    BY <1>5, <2>1, <2>2, Zenon
<1>9. IsFiles(files') /\ FilesStay(files, files')
  <2>0. IsFiles(files)
    BY <1>2
  <2>1. CASE files' = files
    BY <2>0, <2>1 DEF FilesStay
  <2>2. CASE files' # files
    <3> DEFINE z == size
    <3>1. isFile /\ path \notin DOMAIN files /\ files' = Put(files, path, z)
      BY <1>5, <2>2, Zenon DEF Put
    <3>2. z \in Contents
      BY <1>2, <3>1 DEF IsBackup, IsFiles
    <3> HIDE DEF size, isFile, data, z, info
    <3>3. LET new == Put(files, path, z)
          IN  IsFiles(new) /\ FilesStay(files, new) /\ path \in DOMAIN new /\ new[path] = z
      BY <2>0, <3>1, <3>2, FilePut
    <3> QED
      BY <3>1, <3>3, Zenon
  <2> QED
    BY <2>1, <2>2
<1>10. /\ IsCache(commit(path)) /\ Takes(work.cache, commit(path), info, path)
       /\ Takes(work.cache, work.cache, info, path)
  <2> DEFINE cache == work.cache
  <2>1. IsCache(cache) /\ info \in Info
    BY <1>2, <1>4
  <2> HIDE DEF info, cache
  <2>2. /\ IsCache(CommitSettings(cache, Commits([info EXCEPT !.path = path])))
        /\ Takes(cache, CommitSettings(cache, Commits([info EXCEPT !.path = path])), info, path)
    BY <2>1, ItemsTaken
  <2>3. Takes(cache, cache, info, path)
    BY DEF Takes
  <2> QED
    BY <2>2, <2>3, Zenon DEF cache
<1>11. IsTable(values(path)) /\ NoSettings(values(path))
  <2> DEFINE v == work.values
             row == SetInsertValue([info EXCEPT !.path = path])
  <2>1. IsTable(v) /\ NoSettings(v)
    BY <1>2
  <2>2. row \in Row /\ \A k \in Kinds : row.on[k] = {}
    <3>1. info \in Info
      BY <1>4
    <3> HIDE DEF info
    <3> QED
      BY <3>1, RowOfInfo
  <2> HIDE DEF row, v
  <2>3. IsTable(Put(v, path, row)) /\ NoSettings(Put(v, path, row))
    BY <2>1, <2>2, RowTaken
  <2> QED
    BY <2>3, Zenon DEF v, row, Put
<1> DEFINE tail == Tail(work.infos)
           c == IF to(path).skip THEN work.cache ELSE commit(path)
           v == IF insert(path) THEN values(path) ELSE work.values
<1>12. work' = [work EXCEPT !.infos = tail, !.values = v, !.cache = c]
  BY <1>5, Zenon
<1>13. IsCache(c) /\ Takes(work.cache, c, info, path) /\ IsTable(v) /\ NoSettings(v) /\ tail \in Seq(Info)
  BY <1>2, <1>4, <1>10, <1>11, Zenon
<1>14. intact' \in BOOLEAN
  BY <1>5, Zenon
<1> HIDE DEF tail, c, v, info, to, commit, values, insert
<1>15. /\ IsWork(work') /\ work'.infos = tail /\ work'.todo = {} /\ work'.cache = c /\ work'.values = v
       /\ work'.steps = work.steps
  BY <1>2, <1>12, <1>13 DEF IsWork, IsCache
<1>16. TypeOK'
  BY <1>1, <1>2, <1>8, <1>9, <1>14, <1>15 DEF TypeInv, TypeOK
<1>17. Shape'
  BY <1>1, <1>3, <1>13, <1>15 DEF TypeInv, Shape, NoSettings
<1>18. IsCopyOf(path, work.infos[1].data) /\ Takes(work.cache, work'.cache, work.infos[1], path)
  BY <1>4, <1>7, <1>13, <1>15, Zenon DEF data
<1>19. work'.infos = Tail(work.infos)
  BY <1>15 DEF tail
<1> QED
  BY <1>1, <1>3, <1>8, <1>9, <1>16, <1>17, <1>18, <1>19 DEF TypeInv
-----------------------------------------------------------------------------
(* The steps of an upgrade *)

(* What a restored tone has from a setting of the other framework. *)
FromSetting(info, s) ==
    /\ Bears(info.data, s.tone)
    /\ \A k \in Kinds : info.by[k] = "customised" => \A c \in info.on[k] :
            \/ k = s.kind /\ c = s.card /\ ~s.null
            \/ IsCardAlreadyCustomised(rows, k, c)

LEMMA SettingTyped ==
    ASSUME IsJob(job), NEW i \in DOMAIN job.settings
    PROVE  job.settings[i] \in Setting /\ i \in Nat
<1>1. job.settings \in Seq(Setting)
  BY DEF IsJob
<1> QED
  BY <1>1

(* Numbers that grow are different. *)
LEMMA Growing ==
    ASSUME NEW n \in Nat, NEW S, NEW order \in [1 .. n -> S], S \subseteq Nat,
           \A i, j \in DOMAIN order : i < j => order[i] < order[j]
    PROVE  \A i, j \in DOMAIN order : order[i] = order[j] => i = j
<1> SUFFICES ASSUME NEW i \in 1 .. n, NEW j \in 1 .. n, order[i] = order[j], i # j
             PROVE  FALSE
  OBVIOUS
<1>1. order[i] \in Nat /\ order[j] \in Nat
  OBVIOUS
<1>2. i < j \/ j < i
  OBVIOUS
<1> QED
  BY <1>1, <1>2

(* Every setting that names a tone becomes one that is restored; videos are copied.           *)
LEMMA BuildStep ==
    ASSUME TypeInv, BuildFileInfo
    PROVE  /\ TypeInv' /\ UNCHANGED <<job, backup, rows, sims, given>>
           /\ FilesStay(files, files')
           /\ job.scene = "dual" /\ phase = "build" /\ work'.cache = {}
           /\ \E order \in [DOMAIN work'.infos -> DOMAIN job.settings] :
                /\ \A x, y \in DOMAIN work'.infos : order[x] = order[y] => x = y
                /\ \A x \in DOMAIN work'.infos : FromSetting(work'.infos[x], job.settings[order[x]])
<1>1. /\ UNCHANGED <<job, backup, completed, rows, sims, given, changes, crashes>>
      /\ phase = "build" /\ ret' = "ok"
  BY DEF BuildFileInfo
<1>2. /\ IsTable(rows) /\ IsFiles(files) /\ IsBackup(backup) /\ IsWork(work) /\ IsJob(job)
      /\ job.scene = "dual" /\ work.cache = {} /\ work.todo = {} /\ intact \in BOOLEAN
  BY <1>1, JobTyped DEF TypeInv, TypeOK, Shape
<1> DEFINE known(found) == {i \in DOMAIN job.settings :
                                job.settings[i].tone \in DOMAIN found \/ InLibrary(job.settings[i]) # {}}
<1>3. PICK copied \in SUBSET (DOMAIN job.gallery \ DOMAIN files) :
        LET found == Found(copied)
            put == copied \cap DOMAIN found
        IN  /\ files' = Merge([n \in put |-> job.gallery[n]], files)
            /\ \E order \in [1 .. Cardinality(known(found)) -> known(found)] :
                /\ \A i, j \in DOMAIN order : i < j => order[i] < order[j]
                /\ work' = [work EXCEPT
                        !.infos = [i \in DOMAIN order |-> BuildInfo(job.settings[order[i]], found)]]
            /\ phase' = IF known(found) # {} THEN "insert" ELSE "flush"
            /\ intact' = (intact /\ DOMAIN job.gallery \subseteq copied \cup DOMAIN files)
  BY Zenon DEF BuildFileInfo
<1> DEFINE found == Found(copied)
           put == copied \cap DOMAIN found
           K == known(found)
<1>4. found \in [DOMAIN found -> Paths] /\ \A n \in DOMAIN found : Bears(found[n], n)
  BY <1>2, FoundNames
<1>5. IsFiles(files') /\ FilesStay(files, files')
  <2>1. files' = Merge([n \in put |-> job.gallery[n]], files)
    BY <1>3, Zenon
  <2>2. put \subseteq DOMAIN job.gallery /\ put \cap DOMAIN files = {}
    OBVIOUS
  <2>3. /\ job.gallery \in [DOMAIN job.gallery -> Contents] /\ DOMAIN job.gallery \subseteq Paths
        /\ files \in [DOMAIN files -> Contents] /\ DOMAIN files \subseteq Paths
    BY <1>2 DEF IsJob, IsFiles
  <2> HIDE DEF put, found
  <2>4. /\ DOMAIN files' = put \cup DOMAIN files
        /\ \A p \in put : files'[p] = job.gallery[p]
        /\ \A p \in DOMAIN files : files'[p] = files[p]
        /\ files' = [p \in DOMAIN files' |-> files'[p]]
    BY <2>1, <2>2 DEF Merge
  <2> QED
    BY <2>2, <2>3, <2>4 DEF IsFiles, FilesStay
<1>6. K \subseteq DOMAIN job.settings /\ K \subseteq Nat /\ IsFiniteSet(K) /\ Cardinality(K) \in Nat
  <2>1. K \subseteq DOMAIN job.settings
    OBVIOUS
  <2> HIDE DEF K
  <2>2. job.settings \in Seq(Setting)
    BY <1>2 DEF IsJob
  <2>3. DOMAIN job.settings = 1 .. Len(job.settings) /\ Len(job.settings) \in Nat
    BY <2>2
  <2>4. IsFiniteSet(DOMAIN job.settings)
    BY <2>3, FS_Interval
  <2>5. IsFiniteSet(K)
    BY <2>1, <2>4, FS_Subset
  <2> QED
    BY <2>1, <2>3, <2>5, FS_CardinalityType
<1>7. PICK order \in [1 .. Cardinality(K) -> K] :
        /\ \A i, j \in DOMAIN order : i < j => order[i] < order[j]
        /\ work' = [work EXCEPT !.infos = [i \in DOMAIN order |-> BuildInfo(job.settings[order[i]], found)]]
  BY <1>3, Zenon
<1>8. /\ phase' = IF K # {} THEN "insert" ELSE "flush"
      /\ intact' \in BOOLEAN
  BY <1>2, <1>3, Zenon
<1> DEFINE infos == [i \in DOMAIN order |-> BuildInfo(job.settings[order[i]], found)]
<1>9. /\ DOMAIN order = 1 .. Cardinality(K)
      /\ order \in [DOMAIN order -> DOMAIN job.settings]
      /\ \A i, j \in DOMAIN order : order[i] = order[j] => i = j
      /\ DOMAIN infos = DOMAIN order
  <2> HIDE DEF K
  <2> QED
    BY <1>6, <1>7, Growing
<1>10. ASSUME NEW x \in DOMAIN infos
       PROVE  infos[x] \in Info /\ FromSetting(infos[x], job.settings[order[x]])
  <2> DEFINE s == job.settings[order[x]]
  <2>1. order[x] \in K
    <3> HIDE DEF K
    <3> QED
      BY <1>7, <1>9
  <2>2. s \in Setting /\ (s.tone \in DOMAIN found \/ InLibrary(s) # {})
    <3>1. order[x] \in DOMAIN job.settings
      BY <2>1
    <3> QED
      BY <1>2, <2>1, <3>1, SettingTyped, Zenon
  <2>3. infos[x] = BuildInfo(s, found)
    OBVIOUS
  <2> HIDE DEF s, found, infos
  <2>4. LET info == BuildInfo(s, found)
        IN  /\ info \in Info /\ Bears(info.data, s.tone)
            /\ \A k \in Kinds : info.by[k] = "customised" => \A c \in info.on[k] :
                 \/ k = s.kind /\ c = s.card /\ ~s.null
                 \/ IsCardAlreadyCustomised(rows, k, c)
    BY <1>2, <1>4, <2>2, InfoOfSetting
  <2>5. infos[x] \in Info /\ FromSetting(infos[x], s)
    BY <2>3, <2>4, Zenon DEF FromSetting
  <2> QED
    BY <2>5, Zenon DEF s
<1>11. infos \in Seq(Info)
  <2> DEFINE n == Cardinality(K)
  <2>1. n \in Nat /\ DOMAIN infos = 1 .. n
    BY <1>6, <1>9
  <2>2. infos = [i \in DOMAIN infos |-> infos[i]]
    OBVIOUS
  <2>3. \A i \in DOMAIN infos : infos[i] \in Info
    BY <1>10, Zenon
  <2> HIDE DEF infos, n
  <2> QED
    BY <2>1, <2>2, <2>3
<1>12. K = {} => infos = <<>>
  <2>1. K = {} => DOMAIN infos = 1 .. 0
    <3> HIDE DEF infos, K
    <3> QED
      BY <1>9, FS_EmptySet
  <2> HIDE DEF infos, K
  <2> QED
    BY <1>11, <2>1, NoElement
<1>13. work' = [work EXCEPT !.infos = infos]
  BY <1>7, Zenon
<1> HIDE DEF infos, K, found, known
<1>14. /\ IsWork(work') /\ work'.infos = infos /\ work'.cache = {} /\ work'.todo = {}
       /\ work'.steps = work.steps /\ work'.values = work.values
  BY <1>2, <1>11, <1>13 DEF IsWork
<1>15. TypeOK'
  BY <1>1, <1>5, <1>8, <1>14 DEF TypeInv, TypeOK, Phases
<1>16. Shape'
  BY <1>1, <1>2, <1>8, <1>12, <1>14 DEF TypeInv, Shape
<1>17. /\ order \in [DOMAIN work'.infos -> DOMAIN job.settings]
       /\ \A x, y \in DOMAIN work'.infos : order[x] = order[y] => x = y
       /\ \A x \in DOMAIN work'.infos : FromSetting(work'.infos[x], job.settings[order[x]])
  <2>1. DOMAIN work'.infos = DOMAIN order /\ work'.infos = infos
    BY <1>9, <1>14
  <2> QED
    BY <1>9, <1>10, <2>1, Zenon
<1> QED
  BY <1>1, <1>2, <1>5, <1>14, <1>15, <1>16, <1>17, Zenon DEF TypeInv

LEMMA MigrationTyped ==
    ASSUME NEW cards \in SUBSET SimCards, {"SIM1", "SIM2"} \subseteq SimCards
    PROVE  MigrationSteps(cards) \in Seq(SimCards \X SimCards)
<1> DEFINE eSims == cards \cap {"ESIM1", "ESIM2"}
           eSim == CHOOSE c \in eSims : TRUE
           steps == MigrationSteps(cards)
           Goal == steps \in Seq(SimCards \X SimCards)
<1>1. \/ steps = <<>>
      \/ Cardinality(eSims) = 1 /\ steps = <<<<"SIM1", "SIM2">>, <<"SIM2", eSim>>>>
      \/ Cardinality(eSims) = 1 /\ steps = <<<<"SIM2", eSim>>>>
  BY Zenon DEF MigrationSteps
<1>2. Cardinality(eSims) = 1 => eSim \in SimCards
  <2>1. Cardinality({}) = 0
    BY FS_EmptySet
  <2>2. Cardinality(eSims) = 1 => eSims # {}
    BY <2>1
  <2> QED
    BY <2>2
<1> HIDE DEF eSims, eSim, steps
<1> SUFFICES Goal
  BY DEF steps
<1>3. CASE steps = <<>>
  BY <1>3
<1>4. CASE steps # <<>>
  <2>1. <<"SIM1", "SIM2">> \in SimCards \X SimCards /\ <<"SIM2", eSim>> \in SimCards \X SimCards
    BY <1>1, <1>2, <1>4
  <2> DEFINE a == <<"SIM1", "SIM2">>  b == <<"SIM2", eSim>>
  <2>2. a \in SimCards \X SimCards /\ b \in SimCards \X SimCards /\ (steps = <<a, b>> \/ steps = <<b>>)
    BY <1>1, <1>4, <2>1
  <2> DEFINE S == SimCards \X SimCards
  <2>3. a \in S /\ b \in S
    BY <2>2
  <2> HIDE DEF a, b, S
  <2>4. steps \in Seq(S)
    <3>1. <<a, b>> \in Seq(S) /\ <<b>> \in Seq(S)
      BY <2>3
    <3> QED
      BY <2>2, <3>1, Zenon
  <2> QED
    BY <2>4 DEF S
<1> QED
  BY <1>3, <1>4

LEMMA ESimTypes ==
    ASSUME TypeInv, HandleUpgradeWithESim
    PROVE  TypeInv'
<1>1. /\ UNCHANGED <<job, backup, ret, completed, rows, files, sims, given, changes, crashes>>
      /\ phase = "eSim" /\ intact' \in BOOLEAN
      /\ \E steps \in {<<>>, MigrationSteps(job.cards)} :
            work' = [work EXCEPT !.steps = steps] /\ phase' = IF steps = <<>> THEN "build" ELSE "migrate"
  BY DEF HandleUpgradeWithESim, device, TypeInv, TypeOK
<1>2. IsWork(work) /\ IsJob(job) /\ job.scene = "dual"
  BY <1>1, JobTyped DEF TypeInv, TypeOK, Shape
<1>3. MigrationSteps(job.cards) \in Seq(SimCards \X SimCards)
  BY <1>2, MigrationTyped DEF IsJob
<1>4. PICK steps \in Seq(SimCards \X SimCards) :
        work' = [work EXCEPT !.steps = steps] /\ phase' = IF steps = <<>> THEN "build" ELSE "migrate"
  <2> DEFINE S == SimCards \X SimCards  m == MigrationSteps(job.cards)
  <2>1. <<>> \in Seq(S) /\ m \in Seq(S)
    BY <1>3
  <2> HIDE DEF S, m
  <2>2. \E steps \in Seq(S) :
            work' = [work EXCEPT !.steps = steps] /\ phase' = IF steps = <<>> THEN "build" ELSE "migrate"
    <3>1. \E steps \in {<<>>, m} :
            work' = [work EXCEPT !.steps = steps] /\ phase' = IF steps = <<>> THEN "build" ELSE "migrate"
      BY <1>1, Zenon DEF m
    <3> QED
      BY <2>1, <3>1, Zenon
  <2> QED
    BY <2>2, Zenon DEF S
<1>5. /\ IsWork(work') /\ work'.steps = steps /\ work'.infos = work.infos /\ work'.cache = work.cache
      /\ work'.todo = work.todo /\ work'.values = work.values
  BY <1>2, <1>4 DEF IsWork
<1>6. TypeOK'
  BY <1>1, <1>4, <1>5 DEF TypeInv, TypeOK, Phases
<1>7. Shape'
  BY <1>1, <1>2, <1>4, <1>5 DEF TypeInv, Shape
<1> QED
  BY <1>6, <1>7 DEF TypeInv

(* One step of the migration: only the holders of the source card get the target card.        *)
LEMMA MigrationStep ==
    ASSUME TypeInv, ApplyMigration
    PROVE  /\ TypeInv' /\ UNCHANGED <<job, backup, files>>
           /\ Keeps(rows, rows') /\ StaysSounding(rows, rows') /\ SimsKept(sims, sims')
           /\ given \subseteq given' /\ phase = "migrate" /\ work'.cache = {} /\ work'.infos = <<>>
           /\ DOMAIN rows' = DOMAIN rows
           /\ \A p \in DOMAIN rows' : \A k \in Kinds : \A c \in rows'[p].on[k] :
                c \in rows[p].on[k] \/ <<k, c, p>> \in given'
<1> DEFINE step == Head(work.steps)  tail == Tail(work.steps)
           holders == {h \in Kinds \X DOMAIN rows : Holds(rows, h[2], h[1], step[1])}
<1>1. /\ UNCHANGED <<job, backup, ret, completed, files, changes, crashes>>
      /\ phase = "migrate"
      /\ phase' = IF tail = <<>> THEN "build" ELSE phase
      /\ work' = [work EXCEPT !.steps = tail]
      /\ given' = given \cup {<<h[1], step[2], h[2]>> : h \in holders}
  BY Zenon DEF ApplyMigration
<1>2. /\ IsTable(rows) /\ IsSims(sims) /\ IsWork(work) /\ intact \in BOOLEAN /\ work.steps # <<>>
      /\ work.cache = {} /\ work.infos = <<>> /\ work.todo = {} /\ job.scene = "dual"
  BY <1>1 DEF TypeInv, TypeOK, Shape
<1>3. step \in SimCards \X SimCards /\ tail \in Seq(SimCards \X SimCards)
  <2>1. work.steps \in Seq(SimCards \X SimCards) /\ work.steps # <<>>
    BY <1>2 DEF IsWork
  <2> DEFINE S == SimCards \X SimCards
  <2> HIDE DEF S
  <2>2. work.steps \in Seq(S) /\ work.steps # <<>>
    BY <2>1 DEF S
  <2>3. Head(work.steps) \in S /\ Tail(work.steps) \in Seq(S)
    BY <2>2
  <2> QED
    BY <2>3 DEF S
<1>4. PICK kinds \in {{}, Kinds \cap CardKinds}, copied \in BOOLEAN :
        /\ rows' = MigrateToneType(rows, kinds, step)
        /\ sims' = IF copied THEN MigrateSimCardSetting(sims, step) ELSE sims
        /\ intact' = (intact /\ kinds # {} /\ copied)
  BY Zenon DEF ApplyMigration
<1>5. /\ IsTable(rows') /\ DOMAIN rows' = DOMAIN rows
      /\ Keeps(rows, rows') /\ StaysSounding(rows, rows')
      /\ \A p \in DOMAIN rows' : \A k \in Kinds : \A c \in rows'[p].on[k] :
            c \in rows[p].on[k] \/ (c = step[2] /\ step[1] \in rows[p].on[k])
  <2>1. kinds \in SUBSET CardKinds
    BY <1>4
  <2> HIDE DEF step
  <2>2. LET new == MigrateToneType(rows, kinds, step)
        IN  /\ IsTable(new) /\ DOMAIN new = DOMAIN rows
            /\ Keeps(rows, new) /\ StaysSounding(rows, new)
            /\ \A p \in DOMAIN new : \A k \in Kinds : \A c \in new[p].on[k] :
                 c \in rows[p].on[k] \/ (c = step[2] /\ step[1] \in rows[p].on[k])
    BY <1>2, <1>3, <2>1, MigratedKeeps
  <2> QED
    BY <1>4, <2>2, Zenon
<1>6. IsSims(sims') /\ SimsKept(sims, sims')
  <2> HIDE DEF step
  <2>1. CASE copied
    <3>1. LET new == MigrateSimCardSetting(sims, step)
          IN  IsSims(new) /\ SimsKept(sims, new)
      BY <1>2, <1>3, MigratedSims
    <3> QED
      BY <1>4, <2>1, <3>1, Zenon
  <2>2. CASE ~copied
    BY <1>2, <1>4, <2>2 DEF SimsKept
  <2> QED
    BY <2>1, <2>2
<1>7. ASSUME NEW p \in DOMAIN rows', NEW k \in Kinds, NEW c \in rows'[p].on[k]
      PROVE  c \in rows[p].on[k] \/ <<k, c, p>> \in given'
  <2> SUFFICES ASSUME c = step[2], step[1] \in rows[p].on[k]
               PROVE  <<k, c, p>> \in given'
    BY <1>5, <1>7
  <2> DEFINE h == <<k, p>>
  <2>1. h \in holders
    BY <1>5 DEF Holds
  <2>2. <<h[1], step[2], h[2]>> \in {<<g[1], step[2], g[2]>> : g \in holders}
    BY <2>1
  <2>3. <<h[1], step[2], h[2]>> = <<k, c, p>>
    OBVIOUS
  <2> HIDE DEF h, holders, step
  <2> QED
    BY <1>1, <2>2, <2>3
<1>8. intact' \in BOOLEAN /\ given \subseteq given'
  <2>1. intact' \in BOOLEAN
    BY <1>2, <1>4
  <2>2. given \subseteq given'
    BY <1>1
  <2> QED
    BY <2>1, <2>2
<1>9. /\ IsWork(work') /\ work'.steps = tail /\ work'.infos = <<>> /\ work'.cache = {}
      /\ work'.todo = {} /\ work'.values = work.values
  <2> HIDE DEF tail
  <2> QED
    BY <1>1, <1>2, <1>3 DEF IsWork
<1> HIDE DEF step, tail, holders
<1>10. TypeOK'
  BY <1>1, <1>5, <1>6, <1>8, <1>9 DEF TypeInv, TypeOK, Phases
<1>11. Shape'
  BY <1>1, <1>2, <1>9 DEF TypeInv, Shape
<1>12. UNCHANGED <<job, backup, files>>
  BY <1>1
<1> QED
  BY <1>1, <1>5, <1>6, <1>7, <1>8, <1>9, <1>10, <1>11, <1>12, Zenon DEF TypeInv
-----------------------------------------------------------------------------
(* Every step *)

LEMMA SimsKeptTwice ==
    ASSUME NEW table
    PROVE  SimsKept(table, table)
BY DEF SimsKept

(* No step of the restore breaks a type, and none but the user's choices changes a setting of *)
(* the user's or a file of the device.                                                        *)
KeepingStep ==
    changes' = changes => /\ Keeps(rows, rows') /\ SimsKept(sims, sims')

LEMMA BaseKeeps ==
    ASSUME TypeInv, BaseStep
    PROVE  TypeInv' /\ KeepingStep /\ files' = files
<1>1. CASE StartFails
  <2>1. rows' = rows /\ sims' = sims /\ files' = files
    BY <1>1 DEF StartFails, device
  <2> QED
    BY <1>1, <2>1, IdleTypes, KeptTwice, SimsKeptTwice DEF KeepingStep
<1>2. CASE StartRestore
  <2>1. sims' = sims /\ files' = files
    BY <1>2 DEF StartRestore
  <2> QED
    BY <1>2, <2>1, StartTypes, SimsKeptTwice DEF KeepingStep
<1>3. CASE CacheInitialNoRingtoneState
  <2>1. rows' = rows /\ sims' = sims /\ files' = files
    BY <1>3 DEF CacheInitialNoRingtoneState, device
  <2> QED
    BY <1>3, <2>1, NoToneTypes, KeptTwice, SimsKeptTwice DEF KeepingStep
<1>4. CASE EndOfInserts
  <2>1. rows' = rows /\ sims' = sims /\ files' = files
    BY <1>4 DEF EndOfInserts, device
  <2> QED
    BY <1>4, <2>1, IdleTypes, KeptTwice, SimsKeptTwice DEF KeepingStep
<1>5. CASE BatchInsert
  <2>1. sims' = sims /\ files' = files
    BY <1>5 DEF BatchInsert
  <2> QED
    BY <1>5, <2>1, BatchTypes, SimsKeptTwice DEF KeepingStep
<1>6. CASE OnFinished
  <2>1. rows' = rows /\ sims' = sims /\ files' = files
    BY <1>6 DEF OnFinished, device
  <2> QED
    BY <1>6, <2>1, FinishTypes, KeptTwice, SimsKeptTwice DEF KeepingStep
<1>7. CASE BeginFlush
  <2>1. rows' = rows /\ sims' = sims /\ files' = files
    BY <1>7 DEF BeginFlush, device
  <2> QED
    BY <1>7, <2>1, BeginFlushTypes, KeptTwice, SimsKeptTwice DEF KeepingStep
<1>8. CASE FlushOne
  <2>1. sims' = sims /\ files' = files
    BY <1>8 DEF FlushOne
  <2>2. Keeps(rows, rows')
    BY <1>8, FlushOneRows
  <2> QED
    BY <1>8, <2>1, <2>2, FlushTypes, SimsKeptTwice DEF KeepingStep
<1>9. CASE EndFlush
  <2>1. rows' = rows /\ sims' = sims /\ files' = files
    BY <1>9 DEF EndFlush, device
  <2> QED
    BY <1>9, <2>1, FlushTypes, KeptTwice, SimsKeptTwice DEF KeepingStep
<1>10. CASE SanitizeVibrateRecords
  <2>1. rows' = rows /\ files' = files
    BY <1>10 DEF SanitizeVibrateRecords
  <2> QED
    BY <1>10, <2>1, SanitizeTypes, KeptTwice DEF KeepingStep
<1> QED
  BY <1>1, <1>2, <1>3, <1>4, <1>5, <1>6, <1>7, <1>8, <1>9, <1>10 DEF BaseStep

LEMMA CloneKeeps ==
    ASSUME TypeInv, CloneStep
    PROVE  TypeInv' /\ KeepingStep /\ FilesStay(files, files')
<1>1. CASE CleanESimData
  <2>1. rows' = rows /\ sims' = sims /\ files' = files
    BY <1>1 DEF CleanESimData, device
  <2> QED
    BY <1>1, <2>1, CleanTypes, KeptTwice, SimsKeptTwice DEF KeepingStep, FilesStay
<1>2. CASE CheckNotRingtoneRestore
  <2>1. sims' = sims /\ files' = files /\ Keeps(rows, rows')
    BY <1>2, MutedKeeps DEF CheckNotRingtoneRestore, TypeInv, TypeOK
  <2> QED
    BY <1>2, <2>1, NotRingtoneTypes, SimsKeptTwice DEF KeepingStep, FilesStay
<1>3. CASE UpdateSettingInfos
  <2>1. rows' = rows /\ files' = files
    BY <1>3 DEF UpdateSettingInfos
  <2> QED
    BY <1>3, <2>1, SettingInfosTypes, KeptTwice DEF KeepingStep, FilesStay
<1>4. CASE CheckRestoreFileInfos
  <2>1. sims' = sims /\ files' = files
    BY <1>4 DEF CheckRestoreFileInfos
  <2>2. TypeInv' /\ Keeps(rows, rows')
    BY <1>4, QueryStep
  <2> QED
    BY <2>1, <2>2, SimsKeptTwice DEF KeepingStep, FilesStay
<1>5. CASE PrepareTone
  BY <1>5, PrepareStep DEF KeepingStep
<1>6. CASE ClearPresetCardBits
  <2>1. sims' = sims /\ files' = files
    BY <1>6 DEF ClearPresetCardBits
  <2> QED
    BY <1>6, <2>1, ClearTypes, SimsKeptTwice DEF KeepingStep, FilesStay
<1>7. CASE PassOver
  <2>1. TypeInv' /\ rows' = rows /\ sims' = sims /\ files' = files
    BY <1>7, PassStep
  <2> QED
    BY <2>1, KeptTwice, SimsKeptTwice DEF KeepingStep, FilesStay
<1> QED
  BY <1>1, <1>2, <1>3, <1>4, <1>5, <1>6, <1>7 DEF CloneStep

LEMMA DualKeeps ==
    ASSUME TypeInv, DualStep
    PROVE  TypeInv' /\ KeepingStep /\ FilesStay(files, files')
<1>1. CASE HandleUpgradeWithESim
  <2>1. rows' = rows /\ sims' = sims /\ files' = files
    BY <1>1 DEF HandleUpgradeWithESim, device
  <2> QED
    BY <1>1, <2>1, ESimTypes, KeptTwice, SimsKeptTwice DEF KeepingStep, FilesStay
<1>2. CASE ApplyMigration
  <2>1. TypeInv' /\ files' = files /\ Keeps(rows, rows') /\ SimsKept(sims, sims')
    BY <1>2, MigrationStep
  <2> QED
    BY <2>1 DEF KeepingStep, FilesStay
<1>3. CASE BuildFileInfo
  <2>1. TypeInv' /\ rows' = rows /\ sims' = sims /\ FilesStay(files, files')
    BY <1>3, BuildStep
  <2> QED
    BY <2>1, KeptTwice, SimsKeptTwice DEF KeepingStep
<1>4. CASE DupTone
  BY <1>4, DupStep DEF KeepingStep
<1> QED
  BY <1>1, <1>2, <1>3, <1>4 DEF DualStep

LEMMA MeanwhileKeeps ==
    ASSUME TypeInv, UserCustomises \/ Crash
    PROVE  TypeInv' /\ KeepingStep /\ FilesStay(files, files')
<1>1. TypeInv'
  BY MeanwhileTypes
<1>2. CASE UserCustomises
  <2>1. changes \in Nat /\ changes' = changes + 1 /\ files' = files
    <3>1. changes \in 0 .. MaxChanges /\ MaxChanges \in Nat
      BY RestoreAssumption DEF TypeInv, TypeOK
    <3>2. changes' = changes + 1 /\ files' = files
      BY <1>2 DEF UserCustomises
    <3> QED
      BY <3>1, <3>2
  <2>2. changes' # changes
    BY <2>1
  <2> QED
    BY <1>1, <2>1, <2>2 DEF KeepingStep, FilesStay
<1>3. CASE Crash
  <2>1. rows' = rows /\ sims' = sims /\ files' = files
    BY <1>3 DEF Crash, device
  <2> QED
    BY <1>1, <2>1, KeptTwice, SimsKeptTwice DEF KeepingStep, FilesStay
<1> QED
  BY <1>2, <1>3

LEMMA NextKeeps ==
    ASSUME TypeInv, [Next]_vars
    PROVE  TypeInv' /\ KeepingStep /\ FilesStay(files, files')
<1>1. CASE BaseStep
  <2>1. TypeInv' /\ KeepingStep /\ files' = files
    BY <1>1, BaseKeeps
  <2> QED
    BY <2>1 DEF FilesStay
<1>2. CASE CloneStep
  BY <1>2, CloneKeeps
<1>3. CASE DualStep
  BY <1>3, DualKeeps
<1>4. CASE UserCustomises \/ Crash
  BY <1>4, MeanwhileKeeps
<1>5. CASE UNCHANGED vars
  <2>1. rows' = rows /\ sims' = sims /\ files' = files
    BY <1>5 DEF vars
  <2>2. TypeInv'
    BY <1>5 DEF TypeInv, TypeOK, Shape, vars
  <2> QED
    BY <2>1, <2>2, KeptTwice, SimsKeptTwice DEF KeepingStep, FilesStay
<1> QED
  BY <1>1, <1>2, <1>3, <1>4, <1>5 DEF Next, Step

(* In every state of every restore the tables, the memory of the restore and the counters     *)
(* are well formed, and the memory is empty but for what the phase needs.                     *)
THEOREM TypeCorrect == Spec => []TypeOK
<1>1. Init => TypeInv
  BY TypeInit
<1>2. TypeInv /\ [Next]_vars => TypeInv'
  BY NextKeeps
<1>3. TypeInv => TypeOK
  BY DEF TypeInv
<1> QED
  BY <1>1, <1>2, <1>3, PTL DEF Spec

(* No step of a restore, of either kind, takes a card from a tone the user chose for it, or a *)
(* tone the user chose from the table, or changes a vibration that is set and can be played.  *)
THEOREM UserKeepsOwnSettings == Spec => OwnSettingsKept
<1> DEFINE Kept ==
        changes' = changes =>
        /\ \A p \in DOMAIN rows : \A k \in Kinds : rows[p].by[k] = "customised" =>
                /\ p \in DOMAIN rows' /\ rows'[p].by[k] = "customised"
                /\ rows[p].on[k] \subseteq rows'[p].on[k]
        /\ \A key \in DOMAIN sims : sims[key].set /\ sims[key].mode # "null" /\ ~IsDirty(sims[key]) =>
                /\ sims'[key].mode = sims[key].mode
                /\ sims[key].vibrate # "" => sims'[key].vibrate = sims[key].vibrate
<1>1. Init => TypeInv
  BY TypeInit
<1>2. TypeInv /\ [Next]_vars => TypeInv'
  BY NextKeeps
<1>3. TypeInv /\ [Next]_vars => [Kept]_vars
  <2> SUFFICES ASSUME TypeInv, [Next]_vars PROVE Kept
    BY Zenon
  <2>1. KeepingStep
    BY NextKeeps
  <2> QED
    BY <2>1, Zenon DEF KeepingStep, Keeps, SimsKept
<1> HIDE DEF Kept
<1>4. Spec => [][Kept]_vars
  BY <1>1, <1>2, <1>3, PTL DEF Spec
<1> QED
  BY <1>4 DEF OwnSettingsKept, Kept
-----------------------------------------------------------------------------
(* The sounds of the backup *)

(* The sound of the backup's tone data is on the device, under one of its names. *)
Placed(data) ==
    \E i \in DOMAIN Names[data] :
        Names[data][i] \in DOMAIN files /\ files[Names[data][i]] = backup.files[data]

(* Until the backup is removed, a tone of it is on the device or is still to be restored.     *)
Sorted ==
    job.scene = "clone" /\ intact /\ phase \in {"insert", "batch", "finish"} =>
        \A d \in (DOMAIN backup.files \cap DOMAIN backup.rows) \ Unplaced : ~backup.rows[d].video =>
            Placed(d) \/ \E x \in DOMAIN work.infos : work.infos[x].data = d

LEMMA PlacedStays ==
    ASSUME NEW d, Placed(d), FilesStay(files, files'), backup'.files[d] = backup.files[d]
    PROVE  Placed(d)'
<1>1. PICK i \in DOMAIN Names[d] : Names[d][i] \in DOMAIN files /\ files[Names[d][i]] = backup.files[d]
  BY DEF Placed
<1>2. Names[d][i] \in DOMAIN files' /\ files'[Names[d][i]] = backup'.files[d]
  <2> DEFINE p == Names[d][i]
  <2> HIDE DEF p
  <2>1. p \in DOMAIN files /\ files[p] = backup.files[d]
    BY <1>1, Zenon DEF p
  <2>2. p \in DOMAIN files' /\ files'[p] = backup'.files[d]
    BY <2>1 DEF FilesStay
  <2> QED
    BY <2>2, Zenon DEF p
<1> QED
  BY <1>2, Zenon DEF Placed

LEMMA PreparedPlaced ==
    ASSUME TypeInv, PrepareTone
    PROVE  /\ Sorted => Sorted'
           /\ intact' => \A d \in DOMAIN backup.files : d \notin DOMAIN backup'.files =>
                \E i \in DOMAIN Names[d] :
                    Names[d][i] \in DOMAIN files' /\ files'[Names[d][i]] = backup.files[d]
<1> DEFINE data == work.infos[1].data
<1>1. /\ FilesStay(files, files') /\ work.infos # <<>> /\ work'.infos = Tail(work.infos)
      /\ job.scene = "clone" /\ phase = "insert" /\ (intact' => intact)
      /\ backup'.rows = backup.rows
      /\ \A d \in DOMAIN backup.files \ {data} : d \in DOMAIN backup'.files
      /\ \A d \in DOMAIN backup'.files : d \in DOMAIN backup.files /\ backup'.files[d] = backup.files[d]
  BY PrepareStep
<1>2. intact' => \E i \in DOMAIN Names[data] :
            Names[data][i] \in DOMAIN files' /\ files'[Names[data][i]] = backup.files[data]
  <2>1. \E path \in Paths :
            intact' => \E i \in DOMAIN Names[data] :
                path = Names[data][i] /\ path \in DOMAIN files' /\ files'[path] = backup.files[data]
    BY PrepareStep, Zenon
  <2> QED
    BY <2>1, Zenon
<1> HIDE DEF data
<1>3. ASSUME intact', NEW d \in DOMAIN backup.files, d \notin DOMAIN backup'.files
      PROVE  \E i \in DOMAIN Names[d] :
                Names[d][i] \in DOMAIN files' /\ files'[Names[d][i]] = backup.files[d]
  <2>1. d = data
    BY <1>1, <1>3
  <2> QED
    BY <1>2, <1>3, <2>1, Zenon
<1>4. ASSUME Sorted, intact',
             NEW d \in DOMAIN backup'.files, d \in DOMAIN backup'.rows, d \notin Unplaced, ~backup'.rows[d].video
      PROVE  Placed(d)' \/ \E x \in DOMAIN work'.infos : work'.infos[x].data = d
  <2>1. d \in DOMAIN backup.files /\ d \in DOMAIN backup.rows /\ ~backup.rows[d].video
    BY <1>1, <1>4
  <2>2. backup'.files[d] = backup.files[d]
    BY <1>1, <1>4
  <2>3. CASE d = data
    <3>1. \E i \in DOMAIN Names[d] : Names[d][i] \in DOMAIN files' /\ files'[Names[d][i]] = backup.files[d]
      BY <1>2, <1>4, <2>3, Zenon
    <3> QED
      BY <2>2, <3>1, Zenon DEF Placed
  <2>4. CASE d # data
    <3>1. Placed(d) \/ \E x \in DOMAIN work.infos : work.infos[x].data = d
      BY <1>1, <1>4, <2>1 DEF Sorted
    <3>2. CASE Placed(d)
      BY <1>1, <2>2, <3>2, PlacedStays
    <3>3. CASE \E x \in DOMAIN work.infos : work.infos[x].data = d
      <4>1. PICK x \in DOMAIN work.infos : work.infos[x].data = d
        BY <3>3
      <4>2. x # 1
        BY <2>4, <4>1 DEF data
      <4>3. work.infos \in Seq(Info)
        BY DEF TypeInv, TypeOK, IsWork
      <4>4. x - 1 \in DOMAIN Tail(work.infos) /\ Tail(work.infos)[x - 1] = work.infos[x]
        BY <1>1, <4>1, <4>2, <4>3, Shortened
      <4> QED
        BY <1>1, <4>1, <4>4
    <3> QED
      BY <3>1, <3>2, <3>3
  <2> QED
    BY <2>3, <2>4
<1> QED
  BY <1>3, <1>4 DEF Sorted

LEMMA PassedSorted ==
    ASSUME TypeInv, Sorted, PassOver
    PROVE  Sorted'
<1>1. /\ UNCHANGED <<job, backup, phase, files, intact>> /\ work.infos # <<>> /\ work'.infos = Tail(work.infos)
      /\ work.infos[1].data \in Unplaced
  BY PassStep
<1>2. work.infos \in Seq(Info)
  BY DEF TypeInv, TypeOK, IsWork
<1>3. ASSUME NEW d, d \notin Unplaced, NEW x \in DOMAIN work.infos, work.infos[x].data = d
      PROVE  \E y \in DOMAIN work'.infos : work'.infos[y].data = d
  <2>1. x # 1
    BY <1>1, <1>3
  <2>2. x - 1 \in DOMAIN Tail(work.infos) /\ Tail(work.infos)[x - 1] = work.infos[x]
    BY <1>1, <1>2, <1>3, <2>1, Shortened
  <2> QED
    BY <1>1, <1>3, <2>2
<1> QED
  BY <1>1, <1>3 DEF Sorted, Placed

LEMMA SortedStep ==
    ASSUME TypeInv, Sorted, [Next]_vars
    PROVE  Sorted'
<1>1. CASE /\ UNCHANGED <<job, backup, files, work>> /\ (intact' => intact)
           /\ phase' \in {"insert", "batch", "finish"} => phase \in {"insert", "batch", "finish"}
  BY <1>1 DEF Sorted, Placed
<1>2. CASE \/ phase' \notin {"insert", "batch", "finish"}
           \/ job.scene # "clone" /\ job' = job
  BY <1>2 DEF Sorted
<1>3. CASE BaseStep
  <2>1. CASE EndOfInserts \/ BatchInsert
    BY <1>1, <2>1 DEF EndOfInserts, BatchInsert, device, history
  <2>2. CASE StartFails \/ StartRestore \/ CacheInitialNoRingtoneState \/ OnFinished
    BY <1>2, <2>2 DEF StartFails, StartRestore, CacheInitialNoRingtoneState, OnFinished
  <2>3. CASE BeginFlush \/ FlushOne \/ EndFlush \/ SanitizeVibrateRecords
    BY <1>2, <2>3 DEF BeginFlush, FlushOne, EndFlush, SanitizeVibrateRecords
  <2> QED
    BY <1>3, <2>1, <2>2, <2>3 DEF BaseStep
<1>4. CASE CloneStep
  <2>1. CASE CleanESimData \/ CheckNotRingtoneRestore \/ UpdateSettingInfos \/ ClearPresetCardBits
    BY <1>2, <2>1 DEF CleanESimData, CheckNotRingtoneRestore, UpdateSettingInfos, ClearPresetCardBits
  <2>2. CASE CheckRestoreFileInfos
    <3>1. PICK kept \in RestoredSets : \A d \in kept : \E x \in DOMAIN work'.infos : work'.infos[x].data = d
      BY <2>2, QueryStep, Zenon
    <3>2. \A d \in DOMAIN backup.rows \cap DOMAIN backup.files : ~backup.rows[d].video => d \in kept
      BY <3>1, RestoredFiles
    <3>3. backup' = backup
      BY <2>2 DEF CheckRestoreFileInfos
    <3> QED
      BY <3>1, <3>2, <3>3 DEF Sorted
  <2>3. CASE PrepareTone
    BY <2>3, PreparedPlaced
  <2>4. CASE PassOver
    BY <2>4, PassedSorted
  <2> QED
    BY <1>4, <2>1, <2>2, <2>3, <2>4 DEF CloneStep
<1>5. CASE DualStep
  <2>1. CASE HandleUpgradeWithESim \/ ApplyMigration
    BY <1>2, <2>1 DEF HandleUpgradeWithESim, ApplyMigration
  <2>2. CASE BuildFileInfo \/ DupTone
    <3>1. job.scene = "dual" /\ job' = job
      BY <2>2, BuildStep, DupStep DEF BuildFileInfo, DupTone
    <3> QED
      BY <1>2, <3>1
  <2> QED
    BY <1>5, <2>1, <2>2 DEF DualStep
<1>6. CASE UserCustomises \/ Crash
  BY <1>1, <1>2, <1>6 DEF UserCustomises, Crash
<1>7. CASE UNCHANGED vars
  BY <1>1, <1>7 DEF vars
<1> QED
  BY <1>3, <1>4, <1>5, <1>6, <1>7 DEF Next, Step

(* A tone that leaves the backup is on the device. *)
LEMMA LeavesPlaced ==
    ASSUME TypeInv, Sorted, [Next]_vars, intact', phase # "backup",
           NEW d \in DOMAIN backup.files, d \in DOMAIN backup.rows, d \notin Unplaced, ~backup.rows[d].video,
           d \notin DOMAIN backup'.files
    PROVE  \E i \in DOMAIN Names[d] : Names[d][i] \in DOMAIN files' /\ files'[Names[d][i]] = backup.files[d]
<1>1. backup' # backup
  BY Zenon
<1>2. CASE BaseStep
  <2>1. OnFinished /\ job.scene = "clone"
    BY <1>1, <1>2 DEF BaseStep, StartFails, StartRestore, CacheInitialNoRingtoneState, EndOfInserts,
        BatchInsert, OnFinished, BeginFlush, FlushOne, EndFlush, SanitizeVibrateRecords
  <2>2. phase = "finish" /\ intact /\ files' = files
    BY <2>1 DEF OnFinished, device, history
  <2>3. work.infos = <<>>
    BY <2>2 DEF TypeInv, Shape
  <2>4. Placed(d)
    BY <2>1, <2>2, <2>3 DEF Sorted
  <2> QED
    BY <2>2, <2>4, Zenon DEF Placed
<1>3. CASE CloneStep
  <2>1. PrepareTone
    BY <1>1, <1>3 DEF CloneStep, CleanESimData, CheckNotRingtoneRestore, UpdateSettingInfos,
        CheckRestoreFileInfos, PassOver, ClearPresetCardBits
  <2> QED
    BY <2>1, PreparedPlaced, Zenon
<1>4. CASE DualStep \/ UserCustomises \/ Crash \/ UNCHANGED vars
  BY <1>1, <1>4 DEF DualStep, HandleUpgradeWithESim, ApplyMigration, BuildFileInfo, DupTone,
        UserCustomises, Crash, vars
<1> QED
  BY <1>2, <1>3, <1>4 DEF Next, Step

(* No file of the device is ever changed or removed by a restore, and as long as every call   *)
(* has succeeded, the sound of a tone leaves the backup only for a file of the device.        *)
THEOREM NoToneIsLost == Spec => TonesNotLost
<1> DEFINE Kept ==
        /\ \A p \in DOMAIN files : p \in DOMAIN files' /\ files'[p] = files[p]
        /\ intact' /\ phase # "backup" =>
            \A d \in (DOMAIN backup.files \cap DOMAIN backup.rows) \ Unplaced : ~backup.rows[d].video =>
                \/ d \in DOMAIN backup'.files
                \/ \E i \in DOMAIN Names[d] : Names[d][i] \in DOMAIN files' /\ files'[Names[d][i]] = backup.files[d]
<1>1. Init => TypeInv /\ Sorted
  BY TypeInit DEF Sorted, Init
<1>2. TypeInv /\ Sorted /\ [Next]_vars => TypeInv' /\ Sorted'
  BY NextKeeps, SortedStep
<1>3. TypeInv /\ Sorted /\ [Next]_vars => [Kept]_vars
  <2> SUFFICES ASSUME TypeInv, Sorted, [Next]_vars PROVE Kept
    BY Zenon
  <2>1. \A p \in DOMAIN files : p \in DOMAIN files' /\ files'[p] = files[p]
    BY NextKeeps, Zenon DEF FilesStay
  <2>2. ASSUME intact', phase # "backup", NEW d \in (DOMAIN backup.files \cap DOMAIN backup.rows) \ Unplaced,
               ~backup.rows[d].video, d \notin DOMAIN backup'.files
        PROVE  \E i \in DOMAIN Names[d] : Names[d][i] \in DOMAIN files' /\ files'[Names[d][i]] = backup.files[d]
    <3>1. d \in DOMAIN backup.files /\ d \in DOMAIN backup.rows /\ d \notin Unplaced
      OBVIOUS
    <3> QED
      BY <2>2, <3>1, LeavesPlaced, Zenon
  <2> QED
    BY <2>1, <2>2, Zenon
<1> HIDE DEF Kept
<1>4. Spec => [][Kept]_vars
  BY <1>1, <1>2, <1>3, PTL DEF Spec
<1> QED
  BY <1>4 DEF TonesNotLost, Kept
-----------------------------------------------------------------------------
(* Where the settings come from *)

Asked(data, kind, card) == ChosenThere(data, kind, card) \/ NamedBySetting(data, kind, card)

(* The tone may get the card: it stands for a tone that is asked for it. *)
Due(path, kind, card) == \E d \in Paths : IsCopyOf(path, d) /\ Asked(d, kind, card)

(* The presets that are still to be scanned. *)
FactoryGiven ==
    ~completed => \A p \in DOMAIN job.factory : \A k \in Kinds : \A c \in job.factory[p].on[k] :
                    <<k, c, p>> \in given
CacheDue == \A i \in work.cache : \A c \in i.cards : Due(i.path, i.kind, c)

(* What a restored tone would commit is asked for, unless a tone of the user's has the card.  *)
InfoAsked(info, table) ==
    \A k \in Kinds : info.by[k] = "customised" =>
        \A c \in info.on[k] : Asked(info.data, k, c) \/ IsCardAlreadyCustomised(table, k, c)

(* NoForeignTone, and that nothing else is on its way to the table. *)
Justified ==
    /\ NoForeignTone
    /\ FactoryGiven
    /\ Lessened(job.backup.rows, backup.rows)
    /\ CacheDue
    /\ \A x \in DOMAIN work.infos : InfoAsked(work.infos[x], rows)

LEMMA JobAsks ==
    ASSUME job' = job, NEW path, NEW kind, NEW card
    PROVE  Asked(path, kind, card)' = Asked(path, kind, card) /\ Due(path, kind, card)' = Due(path, kind, card)
BY DEF Due, Asked, ChosenThere, NamedBySetting, IsCopyOf

(* What a step must not do. *)
LEMMA JustifiedStays ==
    ASSUME Justified, job' = job, given \subseteq given', completed => completed',
           Lessened(backup.rows, backup'.rows), StaysCustomised(rows, rows'),
           \A p \in DOMAIN rows' : \A k \in Kinds : \A c \in rows'[p].on[k] :
                Holds(rows, p, k, c) \/ <<k, c, p>> \in given' \/ Due(p, k, c),
           \A i \in work'.cache : \A c \in i.cards :
                Due(i.path, i.kind, c) \/ \E j \in work.cache : j.path = i.path /\ j.kind = i.kind /\ c \in j.cards,
           \A x \in DOMAIN work'.infos :
                InfoAsked(work'.infos[x], rows) \/ \E y \in DOMAIN work.infos : work'.infos[x] = work.infos[y]
    PROVE  Justified'
<1>1. NoForeignTone'
  <2> SUFFICES ASSUME NEW p \in DOMAIN rows', NEW k \in Kinds, NEW c \in rows'[p].on[k],
                      <<k, c, p>> \notin given'
               PROVE  Due(p, k, c)'
    BY DEF NoForeignTone, Due, Asked
  <2>1. Holds(rows, p, k, c) \/ Due(p, k, c)
    OBVIOUS
  <2>2. <<k, c, p>> \notin given
    OBVIOUS
  <2>3. Holds(rows, p, k, c) => Due(p, k, c)
    BY <2>2 DEF Justified, NoForeignTone, Holds, Due, Asked
  <2> QED
    BY <2>1, <2>3, JobAsks
<1>2. FactoryGiven'
  BY DEF Justified, FactoryGiven
<1>3. Lessened(job.backup.rows, backup.rows)'
  BY DEF Justified, Lessened
<1>4. CacheDue'
  <2> SUFFICES ASSUME NEW i \in work'.cache, NEW c \in i.cards
               PROVE  Due(i.path, i.kind, c)'
    BY DEF CacheDue
  <2>1. Due(i.path, i.kind, c)
    BY DEF Justified, CacheDue
  <2> DEFINE p == i.path  k == i.kind
  <2>2. Due(p, k, c)
    BY <2>1
  <2> HIDE DEF p, k
  <2>3. Due(p, k, c)'
    BY <2>2, JobAsks
  <2> QED
    BY <2>3 DEF p, k
<1>5. ASSUME NEW x \in DOMAIN work'.infos
      PROVE  InfoAsked(work.infos[x], rows)'
  <2> SUFFICES ASSUME NEW k \in Kinds, work'.infos[x].by[k] = "customised", NEW c \in work'.infos[x].on[k]
               PROVE  Asked(work.infos[x].data, k, c)' \/ IsCardAlreadyCustomised(rows', k, c)
    BY Zenon DEF InfoAsked
  <2> DEFINE info == work'.infos[x]
  <2>1. InfoAsked(info, rows)
    BY DEF Justified
  <2>2. Asked(info.data, k, c) \/ IsCardAlreadyCustomised(rows, k, c)
    BY <2>1, Zenon DEF InfoAsked
  <2>3. CASE IsCardAlreadyCustomised(rows, k, c)
    BY <2>3 DEF StaysCustomised
  <2>4. CASE Asked(info.data, k, c)
    BY <2>4, Zenon DEF Asked, ChosenThere, NamedBySetting
  <2> QED
    BY <2>2, <2>3, <2>4
<1> QED
  BY <1>1, <1>2, <1>3, <1>4, <1>5, Zenon DEF Justified

(* Steps that set nothing. *)
LEMMA QuietJustified ==
    ASSUME Justified, job' = job, given' = given, completed => completed',
           Lessened(backup.rows, backup'.rows), StaysCustomised(rows, rows'), Shrinks(rows, rows'),
           work'.cache \subseteq work.cache, work'.infos \in {work.infos, <<>>}
    PROVE  Justified'
<1>1. \A p \in DOMAIN rows' : \A k \in Kinds : \A c \in rows'[p].on[k] : Holds(rows, p, k, c)
  BY DEF Shrinks, Holds
<1>2. \A i \in work'.cache : \A c \in i.cards : Due(i.path, i.kind, c)
  BY DEF Justified, CacheDue
<1>3. \A x \in DOMAIN work'.infos : \E y \in DOMAIN work.infos : work'.infos[x] = work.infos[y]
  <2>1. CASE work'.infos = <<>>
    <3>1. DOMAIN work'.infos = {}
      BY <2>1
    <3> QED
      BY <3>1
  <2>2. CASE work'.infos = work.infos
    BY <2>2
  <2> QED
    BY <2>1, <2>2
<1> QED
  BY <1>1, <1>2, <1>3, JustifiedStays

LEMMA LessenedTwice ==
    ASSUME NEW table
    PROVE  Lessened(table, table) /\ StaysCustomised(table, table)
BY DEF Lessened, StaysCustomised

LEMMA StartJustified ==
    ASSUME TypeInv, Justified, StartRestore
    PROVE  Justified'
<1>1. /\ UNCHANGED <<job, backup, work, given>> /\ completed'
      /\ rows' = rows \/ (~completed /\ rows' = Merge(rows, job.factory))
  BY DEF StartRestore
<1>2. StaysCustomised(rows, rows')
  BY StartTypes, KeepsStays
<1>3. ASSUME NEW p \in DOMAIN rows', NEW k \in Kinds, NEW c \in rows'[p].on[k]
      PROVE  Holds(rows, p, k, c) \/ <<k, c, p>> \in given'
  <2>1. CASE p \in DOMAIN rows
    <3>1. rows'[p] = rows[p]
      <4>1. CASE rows' = rows
        BY <4>1
      <4>2. CASE rows' = Merge(rows, job.factory)
        BY <2>1, <4>2 DEF Merge
      <4> QED
        BY <1>1, <4>1, <4>2
    <3> QED
      BY <1>3, <2>1, <3>1 DEF Holds
  <2>2. CASE p \notin DOMAIN rows
    <3>1. ~completed /\ rows' = Merge(rows, job.factory)
      BY <1>1, <1>3, <2>2
    <3>2. p \in DOMAIN job.factory /\ rows'[p] = job.factory[p]
      BY <1>3, <2>2, <3>1 DEF Merge
    <3> QED
      BY <1>1, <1>3, <3>1, <3>2 DEF Justified, FactoryGiven
  <2> QED
    BY <2>1, <2>2
<1>4. \A i \in work'.cache : \A c \in i.cards : Due(i.path, i.kind, c)
  BY <1>1 DEF Justified, CacheDue
<1> QED
  BY <1>1, <1>2, <1>3, <1>4, LessenedTwice, JustifiedStays

LEMMA BatchJustified ==
    ASSUME TypeInv, Justified, BatchInsert
    PROVE  Justified'
<1>1. UNCHANGED <<job, backup, work, given, completed>> /\ (rows' = rows \/ rows' = Merge(rows, work.values))
  BY DEF BatchInsert
<1>2. StaysCustomised(rows, rows')
  BY BatchTypes, KeepsStays
<1>3. ASSUME NEW p \in DOMAIN rows', NEW k \in Kinds, NEW c \in rows'[p].on[k]
      PROVE  Holds(rows, p, k, c)
  <2>1. CASE rows' = rows
    BY <1>3, <2>1 DEF Holds
  <2>2. CASE rows' = Merge(rows, work.values)
    <3>1. \/ p \in DOMAIN rows /\ rows'[p] = rows[p]
          \/ p \in DOMAIN work.values /\ rows'[p] = work.values[p]
      BY <1>3, <2>2 DEF Merge
    <3>2. p \in DOMAIN work.values => work.values[p].on[k] = {}
      BY DEF TypeInv, Shape
    <3> QED
      BY <1>3, <3>1, <3>2 DEF Holds
  <2> QED
    BY <1>1, <2>1, <2>2
<1>4. \A i \in work'.cache : \A c \in i.cards : Due(i.path, i.kind, c)
  BY <1>1 DEF Justified, CacheDue
<1> QED
  BY <1>1, <1>2, <1>3, <1>4, LessenedTwice, JustifiedStays

LEMMA FlushJustified ==
    ASSUME TypeInv, Justified, FlushOne
    PROVE  Justified'
<1>1. UNCHANGED <<job, backup, given, completed>> /\ work'.cache = work.cache /\ work'.infos = work.infos
  BY DEF FlushOne, history, TypeInv, TypeOK, IsWork
<1>2. PICK item \in work.cache : \E card \in item.cards :
        Keeps(rows, rows') /\ AddsOnly(rows, rows', item.path, item.kind, card)
  BY FlushOneRows, Zenon
<1>3. PICK card \in item.cards : Keeps(rows, rows') /\ AddsOnly(rows, rows', item.path, item.kind, card)
  BY <1>2
<1>4. Due(item.path, item.kind, card)
  BY <1>3 DEF Justified, CacheDue
<1>5. \A p \in DOMAIN rows' : \A k \in Kinds : \A c \in rows'[p].on[k] :
        Holds(rows, p, k, c) \/ Due(p, k, c)
  BY <1>3, <1>4 DEF AddsOnly, Holds
<1>6. StaysCustomised(rows, rows')
  BY <1>3, KeepsStays
<1>7. \A i \in work'.cache : \A c \in i.cards : Due(i.path, i.kind, c)
  BY <1>1 DEF Justified, CacheDue
<1> QED
  BY <1>1, <1>5, <1>6, <1>7, LessenedTwice, JustifiedStays

(* What the user of the other device chose. *)
LEMMA ChosenInBackup ==
    ASSUME Justified, NEW d \in DOMAIN backup.rows, NEW k \in Kinds,
           backup.rows[d].by[k] = "customised", NEW c \in backup.rows[d].on[k]
    PROVE  Asked(d, k, c)
BY DEF Justified, Lessened, Asked, ChosenThere

LEMMA QueryJustified ==
    ASSUME TypeInv, Justified, CheckRestoreFileInfos
    PROVE  Justified'
<1>1. UNCHANGED <<job, backup, given, completed>>
  BY DEF CheckRestoreFileInfos, history
<1>2. Keeps(rows, rows') /\ Shrinks(rows, rows')
  BY QueryStep
<1>3. PICK kept \in RestoredSets :
        /\ \A x \in DOMAIN work'.infos :
            /\ work'.infos[x].data \in kept
            /\ work'.infos[x].on = backup.rows[work'.infos[x].data].on
            /\ work'.infos[x].by = backup.rows[work'.infos[x].data].by
        /\ \A i \in work'.cache : \A c \in i.cards : \E d \in DOMAIN backup.rows \ kept :
            /\ i.path = LocalPath(d)
            /\ backup.rows[d].by[i.kind] = "customised" /\ c \in backup.rows[d].on[i.kind]
  BY QueryStep, Zenon
<1>4. kept \subseteq DOMAIN backup.rows /\ DOMAIN backup.rows \subseteq Paths
  BY RestoredFiles DEF TypeInv, TypeOK, IsBackup, IsTable
<1>5. StaysCustomised(rows, rows')
  BY <1>2, KeepsStays
<1>6. \A p \in DOMAIN rows' : \A k \in Kinds : \A c \in rows'[p].on[k] : Holds(rows, p, k, c)
  BY <1>2 DEF Shrinks, Holds
<1>7. ASSUME NEW i \in work'.cache, NEW c \in i.cards
      PROVE  Due(i.path, i.kind, c)
  <2>1. PICK d \in DOMAIN backup.rows :
            /\ i.path = LocalPath(d)
            /\ backup.rows[d].by[i.kind] = "customised" /\ c \in backup.rows[d].on[i.kind]
    BY <1>3
  <2>2. i.kind \in Kinds
    <3>1. TypeInv'
      BY QueryStep
    <3>2. i \in Item
      BY <3>1 DEF TypeInv, TypeOK, IsWork
    <3> QED
      BY <3>2 DEF Item
  <2> DEFINE k == i.kind
  <2>3. Asked(d, k, c)
    BY <2>1, <2>2, ChosenInBackup
  <2>4. d \in Paths /\ IsCopyOf(LocalPath(d), d)
    BY <1>4, LocalPathIsCopy
  <2> QED
    BY <2>1, <2>3, <2>4, Zenon DEF Due
<1>8. ASSUME NEW x \in DOMAIN work'.infos
      PROVE  InfoAsked(work'.infos[x], rows)
  <2> SUFFICES ASSUME NEW k \in Kinds, work'.infos[x].by[k] = "customised", NEW c \in work'.infos[x].on[k]
               PROVE  Asked(work'.infos[x].data, k, c)
    BY Zenon DEF InfoAsked
  <2>1. PICK d : d = work'.infos[x].data
    OBVIOUS
  <2>2. d \in DOMAIN backup.rows /\ backup.rows[d].by[k] = "customised" /\ c \in backup.rows[d].on[k]
    BY <1>3, <1>4, <2>1
  <2>3. Asked(d, k, c)
    BY <2>2, ChosenInBackup
  <2> QED
    BY <2>1, <2>3, Zenon
<1> QED
  BY <1>1, <1>5, <1>6, <1>7, <1>8, LessenedTwice, JustifiedStays

(* The first of the restored tones commits what is asked for. *)
LEMMA ToneJustified ==
    ASSUME TypeInv, TypeInv', Justified, work.infos # <<>>, work'.infos = Tail(work.infos),
           UNCHANGED <<job, given, completed>>, backup'.rows = backup.rows,
           Keeps(rows, rows'), Shrinks(rows, rows'),
           NEW path \in Paths, IsCopyOf(path, work.infos[1].data),
           Takes(work.cache, work'.cache, work.infos[1], path)
    PROVE  Justified'
<1>1. StaysCustomised(rows, rows') /\ Lessened(backup.rows, backup'.rows)
  BY KeepsStays, LessenedTwice
<1>2. \A p \in DOMAIN rows' : \A k \in Kinds : \A c \in rows'[p].on[k] : Holds(rows, p, k, c)
  BY DEF Shrinks, Holds
<1>3. work.infos \in Seq(Info) /\ 1 \in DOMAIN work.infos
  <2>1. work.infos \in Seq(Info)
    BY DEF TypeInv, TypeOK, IsWork
  <2> QED
    BY <2>1, Shortened
<1>4. work.infos[1].data \in Paths
  <2> DEFINE info == work.infos[1]
  <2>1. info \in Info
    BY <1>3
  <2> HIDE DEF info
  <2>2. info.data \in Paths
    BY <2>1 DEF Info
  <2> QED
    BY <2>2 DEF info
<1>5. ASSUME NEW i \in work'.cache, NEW c \in i.cards
      PROVE  Due(i.path, i.kind, c) \/ \E j \in work.cache : j.path = i.path /\ j.kind = i.kind /\ c \in j.cards
  <2> SUFFICES ASSUME i.path = path, work.infos[1].by[i.kind] = "customised",
                      c \in work.infos[1].on[i.kind], NeedCommit(i.kind, c)
               PROVE  Due(i.path, i.kind, c)
    BY <1>5, Zenon DEF Takes
  <2>1. InfoAsked(work.infos[1], rows)
    BY <1>3 DEF Justified
  <2>2. i.kind \in Kinds
    <3>1. i \in Item
      BY DEF TypeInv, TypeOK, IsWork
    <3> QED
      BY <3>1 DEF Item
  <2> DEFINE k == i.kind  d == work.infos[1].data
  <2>3. Asked(d, k, c)
    BY <2>1, <2>2, Zenon DEF InfoAsked, NeedCommit
  <2>4. d \in Paths /\ IsCopyOf(path, d)
    BY <1>4
  <2> HIDE DEF k, d
  <2>5. Due(path, k, c)
    BY <2>3, <2>4, Zenon DEF Due
  <2> QED
    BY <2>5, Zenon DEF k
<1>6. ASSUME NEW x \in DOMAIN work'.infos
      PROVE  \E y \in DOMAIN work.infos : work'.infos[x] = work.infos[y]
  <2>1. x + 1 \in DOMAIN work.infos /\ Tail(work.infos)[x] = work.infos[x + 1]
    BY <1>3, <1>6, Shortened
  <2> QED
    BY <2>1
<1> QED
  BY <1>1, <1>2, <1>5, <1>6, JustifiedStays

LEMMA PrepareJustified ==
    ASSUME TypeInv, Justified, PrepareTone
    PROVE  Justified'
<1>1. /\ TypeInv' /\ Keeps(rows, rows') /\ Shrinks(rows, rows')
      /\ work.infos # <<>> /\ work'.infos = Tail(work.infos) /\ backup'.rows = backup.rows
  BY PrepareStep
<1>2. UNCHANGED <<job, given, completed>>
  BY DEF PrepareTone
<1>3. PICK path \in Paths :
        IsCopyOf(path, work.infos[1].data) /\ Takes(work.cache, work'.cache, work.infos[1], path)
  BY PrepareStep, Zenon
<1> QED
  BY <1>1, <1>2, <1>3, ToneJustified

LEMMA PassJustified ==
    ASSUME TypeInv, Justified, PassOver
    PROVE  Justified'
<1>1. /\ TypeInv' /\ UNCHANGED <<job, given, completed, backup, rows>>
      /\ work.infos # <<>> /\ work'.infos = Tail(work.infos) /\ work'.cache = work.cache
  BY PassStep
<1>2. PICK path : path = work.infos[1].data
  OBVIOUS
<1>3. path \in Paths
  <2>1. work.infos \in Seq(Info) /\ 1 \in DOMAIN work.infos
    BY <1>1, Shortened DEF TypeInv, TypeOK, IsWork
  <2>2. PICK info \in Info : info = work.infos[1]
    BY <2>1
  <2> QED
    BY <1>2, <2>2 DEF Info
<1>4. IsCopyOf(path, work.infos[1].data) /\ Takes(work.cache, work'.cache, work.infos[1], path)
  BY <1>1, <1>2 DEF IsCopyOf, Takes
<1>5. Keeps(rows, rows') /\ Shrinks(rows, rows')
  BY <1>1, KeptTwice
<1> QED
  BY <1>1, <1>3, <1>4, <1>5, ToneJustified

LEMMA DupJustified ==
    ASSUME TypeInv, Justified, DupTone
    PROVE  Justified'
<1>1. /\ TypeInv' /\ Keeps(rows, rows') /\ Shrinks(rows, rows')
      /\ work.infos # <<>> /\ work'.infos = Tail(work.infos) /\ backup'.rows = backup.rows
  BY DupStep
<1>2. UNCHANGED <<job, given, completed>>
  BY DEF DupTone
<1>3. PICK path \in Paths :
        IsCopyOf(path, work.infos[1].data) /\ Takes(work.cache, work'.cache, work.infos[1], path)
  BY DupStep, Zenon
<1> QED
  BY <1>1, <1>2, <1>3, ToneJustified

LEMMA MigrationJustified ==
    ASSUME TypeInv, Justified, ApplyMigration
    PROVE  Justified'
<1>1. /\ UNCHANGED <<job, backup>> /\ given \subseteq given' /\ Keeps(rows, rows')
      /\ work'.cache = {} /\ work'.infos = <<>> /\ DOMAIN rows' = DOMAIN rows
      /\ \A p \in DOMAIN rows' : \A k \in Kinds : \A c \in rows'[p].on[k] :
            c \in rows[p].on[k] \/ <<k, c, p>> \in given'
  BY MigrationStep
<1>2. completed' = completed
  BY DEF ApplyMigration
<1>3. \A p \in DOMAIN rows' : \A k \in Kinds : \A c \in rows'[p].on[k] :
            Holds(rows, p, k, c) \/ <<k, c, p>> \in given'
  BY <1>1 DEF Holds
<1>4. DOMAIN work'.infos = {}
  BY <1>1
<1> QED
  BY <1>1, <1>2, <1>3, <1>4, LessenedTwice, KeepsStays, JustifiedStays

LEMMA BuildJustified ==
    ASSUME TypeInv, Justified, BuildFileInfo
    PROVE  Justified'
<1>1. UNCHANGED <<job, backup, rows, sims, given>> /\ work'.cache = {}
  BY BuildStep
<1>2. completed' = completed
  BY DEF BuildFileInfo
<1>3. PICK order \in [DOMAIN work'.infos -> DOMAIN job.settings] :
        \A x \in DOMAIN work'.infos : FromSetting(work'.infos[x], job.settings[order[x]])
  BY BuildStep, Zenon
<1>4. ASSUME NEW x \in DOMAIN work'.infos
      PROVE  InfoAsked(work'.infos[x], rows)
  <2> SUFFICES ASSUME NEW k \in Kinds, work'.infos[x].by[k] = "customised", NEW c \in work'.infos[x].on[k],
                      ~IsCardAlreadyCustomised(rows, k, c)
               PROVE  Asked(work'.infos[x].data, k, c)
    BY Zenon DEF InfoAsked
  <2>1. PICK i \in DOMAIN job.settings : FromSetting(work'.infos[x], job.settings[i])
    BY <1>3
  <2> DEFINE s == job.settings[i]  d == work'.infos[x].data
  <2>2. s.kind = k /\ s.card = c /\ ~s.null /\ (d = s.tone \/ Names[d][1] = s.tone)
    BY <2>1, Zenon DEF FromSetting, Bears
  <2>3. NamedBySetting(d, k, c)
    BY <2>2, Zenon DEF NamedBySetting
  <2> QED
    BY <2>3, Zenon DEF Asked
<1>5. /\ \A p \in DOMAIN rows' : \A k \in Kinds : \A c \in rows'[p].on[k] : Holds(rows, p, k, c)
      /\ StaysCustomised(rows, rows')
  BY <1>1, LessenedTwice DEF Holds
<1> QED
  BY <1>1, <1>2, <1>4, <1>5, LessenedTwice, JustifiedStays

LEMMA MeanwhileJustified ==
    ASSUME TypeInv, Justified, UserCustomises \/ Crash
    PROVE  Justified'
<1>1. CASE UserCustomises
  <2>1. /\ StaysCustomised(rows, rows') /\ given \subseteq given' /\ DOMAIN rows' = DOMAIN rows
        /\ \A p \in DOMAIN rows : \A k \in Kinds : \A c \in rows'[p].on[k] :
             c \in rows[p].on[k] \/ <<k, c, p>> \in given'
    BY <1>1, ChoiceKeeps, JobTyped DEF TypeInv, TypeOK
  <2>2. UNCHANGED <<job, backup, completed, work>>
    BY <1>1 DEF UserCustomises
  <2>3. \A p \in DOMAIN rows' : \A k \in Kinds : \A c \in rows'[p].on[k] :
            Holds(rows, p, k, c) \/ <<k, c, p>> \in given'
    BY <2>1 DEF Holds
  <2>4. \A i \in work'.cache : \A c \in i.cards : Due(i.path, i.kind, c)
    BY <2>2 DEF Justified, CacheDue
  <2> QED
    BY <2>1, <2>2, <2>3, <2>4, LessenedTwice, JustifiedStays
<1>2. CASE Crash
  <2>1. UNCHANGED <<job, backup, completed, rows, given>> /\ work'.cache = {} /\ work'.infos = <<>>
    BY <1>2 DEF Crash, device, NoWork
  <2> QED
    BY <2>1, LessenedTwice, KeptTwice, QuietJustified
<1> QED
  BY <1>1, <1>2

LEMMA BaseJustified ==
    ASSUME TypeInv, Justified, BaseStep
    PROVE  Justified'
<1>1. CASE \/ StartFails \/ CacheInitialNoRingtoneState \/ EndOfInserts \/ BeginFlush \/ EndFlush
           \/ SanitizeVibrateRecords
  <2>1. UNCHANGED <<job, backup, completed, rows, given>>
    BY <1>1 DEF StartFails, CacheInitialNoRingtoneState, EndOfInserts, BeginFlush, EndFlush,
        SanitizeVibrateRecords, device, history
  <2>2. work'.cache \subseteq work.cache /\ work'.infos = work.infos
    BY <1>1 DEF StartFails, CacheInitialNoRingtoneState, EndOfInserts, BeginFlush, EndFlush,
        SanitizeVibrateRecords, TypeInv, TypeOK, IsWork
  <2> QED
    BY <2>1, <2>2, LessenedTwice, KeptTwice, QuietJustified
<1>2. CASE StartRestore
  BY <1>2, StartJustified
<1>3. CASE BatchInsert
  BY <1>3, BatchJustified
<1>4. CASE OnFinished
  <2>1. UNCHANGED <<job, completed, rows, work, given>> /\ backup'.rows = backup.rows
    BY <1>4, FinishTypes DEF OnFinished, device, history
  <2> QED
    BY <2>1, LessenedTwice, KeptTwice, QuietJustified
<1>5. CASE FlushOne
  BY <1>5, FlushJustified
<1> QED
  BY <1>1, <1>2, <1>3, <1>4, <1>5 DEF BaseStep

LEMMA CloneJustified ==
    ASSUME TypeInv, Justified, CloneStep
    PROVE  Justified'
<1>1. CASE CleanESimData
  <2>1. UNCHANGED <<job, completed, rows, work, given>>
    BY <1>1 DEF CleanESimData, device, history
  <2> QED
    BY <1>1, <2>1, CleanTypes, LessenedTwice, KeptTwice, QuietJustified
<1>2. CASE CheckNotRingtoneRestore
  <2>1. UNCHANGED <<job, backup, completed, work, given>>
    BY <1>2 DEF CheckNotRingtoneRestore, history
  <2>2. StaysCustomised(rows, rows') /\ Shrinks(rows, rows')
    BY <1>2, MutedKeeps, KeepsStays DEF TypeInv, TypeOK
  <2> QED
    BY <2>1, <2>2, LessenedTwice, QuietJustified
<1>3. CASE UpdateSettingInfos
  <2>1. UNCHANGED <<job, backup, completed, rows, work, given>>
    BY <1>3 DEF UpdateSettingInfos, history
  <2> QED
    BY <2>1, LessenedTwice, KeptTwice, QuietJustified
<1>4. CASE CheckRestoreFileInfos
  BY <1>4, QueryJustified
<1>5. CASE PrepareTone
  BY <1>5, PrepareJustified
<1>6. CASE ClearPresetCardBits
  <2>1. UNCHANGED <<job, backup, completed, work, given>>
    BY <1>6 DEF ClearPresetCardBits, history
  <2>2. StaysCustomised(rows, rows') /\ Shrinks(rows, rows')
    BY <1>6, ClearTypes, KeepsStays
  <2> QED
    BY <2>1, <2>2, LessenedTwice, QuietJustified
<1>7. CASE PassOver
  BY <1>7, PassJustified
<1> QED
  BY <1>1, <1>2, <1>3, <1>4, <1>5, <1>6, <1>7 DEF CloneStep

LEMMA DualJustified ==
    ASSUME TypeInv, Justified, DualStep
    PROVE  Justified'
<1>1. CASE HandleUpgradeWithESim
  <2>1. UNCHANGED <<job, backup, completed, rows, given>>
    BY <1>1 DEF HandleUpgradeWithESim, device
  <2>2. work'.cache = work.cache /\ work'.infos = work.infos
    BY <1>1 DEF HandleUpgradeWithESim, TypeInv, TypeOK, IsWork
  <2> QED
    BY <2>1, <2>2, LessenedTwice, KeptTwice, QuietJustified
<1>2. CASE ApplyMigration
  BY <1>2, MigrationJustified
<1>3. CASE BuildFileInfo
  BY <1>3, BuildJustified
<1>4. CASE DupTone
  BY <1>4, DupJustified
<1> QED
  BY <1>1, <1>2, <1>3, <1>4 DEF DualStep

LEMMA InitJustified ==
    ASSUME Init
    PROVE  Justified
<1>1. TypeInv /\ IsJob(job)
  BY TypeInit, JobTyped DEF Init
<1>2. /\ backup = job.backup /\ completed = job.completed /\ rows = job.rows /\ work = NoWork
      /\ given = {h \in Kinds \X AllSlots \X (DOMAIN job.factory \cup DOMAIN job.rows) :
                    \/ Holds(job.rows, h[3], h[1], h[2])
                    \/ ~job.completed /\ Holds(job.factory, h[3], h[1], h[2])}
  BY DEF Init
<1>3. ASSUME NEW table, table = job.rows \/ (table = job.factory /\ ~job.completed),
             NEW p \in DOMAIN table, NEW k \in Kinds, NEW c \in table[p].on[k]
      PROVE  <<k, c, p>> \in given
  <2>1. c \in AllSlots
    <3>1. IsTable(table)
      BY <1>1, <1>3 DEF IsJob
    <3>2. table[p].on \in CardSets
      BY <3>1 DEF IsTable, Row
    <3> QED
      BY <3>2 DEF CardSets
  <2> DEFINE h == <<k, c, p>>
  <2>2. /\ h \in Kinds \X AllSlots \X (DOMAIN job.factory \cup DOMAIN job.rows)
        /\ h[1] = k /\ h[2] = c /\ h[3] = p
    BY <1>3, <2>1
  <2>3. Holds(table, p, k, c)
    BY DEF Holds
  <2> HIDE DEF h
  <2>4. h \in given
    BY <1>2, <1>3, <2>2, <2>3
  <2> QED
    BY <2>4 DEF h
<1>4. NoForeignTone
  BY <1>2, <1>3 DEF NoForeignTone
<1>5. FactoryGiven
  BY <1>2, <1>3 DEF FactoryGiven
<1>6. Lessened(job.backup.rows, backup.rows)
  BY <1>2, LessenedTwice
<1>7. CacheDue /\ DOMAIN work.infos = {}
  BY <1>2 DEF CacheDue, NoWork
<1> QED
  BY <1>4, <1>5, <1>6, <1>7 DEF Justified

LEMMA JustifiedStep ==
    ASSUME TypeInv, Justified, [Next]_vars
    PROVE  Justified'
<1>1. TypeInv'
  BY NextKeeps
<1>2. CASE BaseStep \/ CloneStep \/ DualStep
  BY <1>1, <1>2, BaseJustified, CloneJustified, DualJustified
<1>3. CASE UserCustomises \/ Crash
  BY <1>1, <1>3, MeanwhileJustified
<1>4. CASE UNCHANGED vars
  <2>1. UNCHANGED <<job, backup, completed, rows, work, given>>
    BY <1>4 DEF vars
  <2> QED
    BY <1>1, <2>1, LessenedTwice, KeptTwice, QuietJustified
<1> QED
  BY <1>2, <1>3, <1>4 DEF Next, Step

(* At no time does a tone hold a card it was not given by the device or by its user, unless   *)
(* it stands for a tone that the user of the other device chose for the card, or that a       *)
(* setting of the other framework names for it.                                               *)
THEOREM NoToneIsForeign == Spec => []NoForeignTone
<1>1. Init => TypeInv /\ Justified
  BY TypeInit, InitJustified
<1>2. TypeInv /\ Justified /\ [Next]_vars => TypeInv' /\ Justified'
  BY NextKeeps, JustifiedStep
<1>3. TypeInv /\ Justified => NoForeignTone
  BY DEF Justified
<1> QED
  BY <1>1, <1>2, <1>3, PTL DEF Spec
-----------------------------------------------------------------------------
(* Which tone takes a card *)

InCache(path, kind, card) == \E i \in work.cache : i.path = path /\ i.kind = kind /\ card \in i.cards

(* The tone still has to be restored, and will commit the card unless the user gives it away. *)
Pends(x, kind, card) ==
    /\ x \in DOMAIN work.infos
    /\ work.infos[x].by[kind] = "customised" /\ card \in work.infos[x].on[kind]
    /\ ~IsCardAlreadyCustomised(rows, kind, card)

(* At most one tone is to take a card, be it in the cache or on its way there. *)
OneTaker ==
    \A k \in Kinds \cap CardKinds : \A c :
        /\ \A p, q : InCache(p, k, c) /\ InCache(q, k, c) => p = q
        /\ \A p, x : ~(InCache(p, k, c) /\ Pends(x, k, c))
        /\ \A x, y : Pends(x, k, c) /\ Pends(y, k, c) => x = y

LEMMA QuietOneTaker ==
    ASSUME OneTaker, StaysCustomised(rows, rows'),
           work'.cache \subseteq work.cache, work'.infos = work.infos
    PROVE  OneTaker'
<1>1. \A k \in Kinds : \A p, c : InCache(p, k, c)' => InCache(p, k, c)
  BY DEF InCache
<1>2. \A k \in Kinds : \A x, c : Pends(x, k, c)' => Pends(x, k, c)
  BY DEF Pends, StaysCustomised
<1> QED
  BY <1>1, <1>2 DEF OneTaker

LEMMA EmptyOneTaker ==
    ASSUME work'.cache = {}, work'.infos = <<>>
    PROVE  OneTaker'
<1>1. \A p, k, c : ~InCache(p, k, c)'
  BY DEF InCache
<1>2. \A x, k, c : ~Pends(x, k, c)'
  BY DEF Pends
<1> QED
  BY <1>1, <1>2 DEF OneTaker

(* In the backup one tone at most has a card. *)
LEMMA OneChosen ==
    ASSUME job \in Jobs, Justified, NEW k \in Kinds \cap CardKinds, NEW c,
           NEW d \in DOMAIN backup.rows, backup.rows[d].by[k] = "customised", c \in backup.rows[d].on[k],
           NEW e \in DOMAIN backup.rows, backup.rows[e].by[k] = "customised", c \in backup.rows[e].on[k]
    PROVE  d = e
<1>1. /\ d \in DOMAIN job.backup.rows /\ job.backup.rows[d].by[k] = "customised" /\ c \in job.backup.rows[d].on[k]
      /\ e \in DOMAIN job.backup.rows /\ job.backup.rows[e].by[k] = "customised" /\ c \in job.backup.rows[e].on[k]
  BY DEF Justified, Lessened
<1>2. OneTone(job)
  BY OneToneAssumption
<1>3. job.backup.rows[d].on[k] \cap job.backup.rows[e].on[k] # {}
  BY <1>1
<1> QED
  BY <1>1, <1>2, <1>3, Zenon DEF OneTone

LEMMA QueryOneTaker ==
    ASSUME TypeInv, Justified, CheckRestoreFileInfos
    PROVE  OneTaker'
<1>1. PICK kept \in RestoredSets :
        /\ \A x \in DOMAIN work'.infos :
            /\ work'.infos[x].data \in kept
            /\ work'.infos[x].on = backup.rows[work'.infos[x].data].on
            /\ work'.infos[x].by = backup.rows[work'.infos[x].data].by
        /\ \A i \in work'.cache : \A c \in i.cards : \E d \in DOMAIN backup.rows \ kept :
            /\ i.path = LocalPath(d)
            /\ backup.rows[d].by[i.kind] = "customised" /\ c \in backup.rows[d].on[i.kind]
  BY QueryStep, Zenon
<1>2. kept \subseteq DOMAIN backup.rows /\ job \in Jobs
  BY RestoredFiles DEF TypeInv, TypeOK
<1>3. \A x, y \in DOMAIN work'.infos : work'.infos[x].data = work'.infos[y].data => x = y
  BY QueryStep DEF TypeInv, Shape, CheckRestoreFileInfos
<1>4. ASSUME NEW k \in Kinds \cap CardKinds, NEW c, NEW p, InCache(p, k, c)'
      PROVE  \E d \in DOMAIN backup.rows \ kept :
                p = LocalPath(d) /\ backup.rows[d].by[k] = "customised" /\ c \in backup.rows[d].on[k]
  BY <1>1, <1>4, Zenon DEF InCache
<1>5. ASSUME NEW k \in Kinds \cap CardKinds, NEW c, NEW x, Pends(x, k, c)'
      PROVE  \E d \in kept :
                /\ x \in DOMAIN work'.infos /\ d = work'.infos[x].data
                /\ backup.rows[d].by[k] = "customised" /\ c \in backup.rows[d].on[k]
  <2>1. x \in DOMAIN work'.infos /\ work'.infos[x].by[k] = "customised" /\ c \in work'.infos[x].on[k]
    BY <1>5 DEF Pends
  <2> QED
    BY <1>1, <2>1
<1>6. ASSUME NEW k \in Kinds \cap CardKinds, NEW c
      PROVE  /\ \A p, q : InCache(p, k, c)' /\ InCache(q, k, c)' => p = q
             /\ \A p, x : ~(InCache(p, k, c)' /\ Pends(x, k, c)')
             /\ \A x, y : Pends(x, k, c)' /\ Pends(y, k, c)' => x = y
  <2> DEFINE Has(d) == backup.rows[d].by[k] = "customised" /\ c \in backup.rows[d].on[k]
  <2>1. \A d, e \in DOMAIN backup.rows : Has(d) /\ Has(e) => d = e
    BY <1>2, OneChosen
  <2>2. \A p : InCache(p, k, c)' => \E d \in DOMAIN backup.rows \ kept : p = LocalPath(d) /\ Has(d)
    BY <1>4
  <2>3. \A x : Pends(x, k, c)' => \E d \in kept : x \in DOMAIN work'.infos /\ d = work'.infos[x].data /\ Has(d)
    BY <1>5
  <2> HIDE DEF Has
  <2>4. ASSUME NEW p, NEW q, InCache(p, k, c)', InCache(q, k, c)' PROVE p = q
    <3>1. PICK d \in DOMAIN backup.rows \ kept : p = LocalPath(d) /\ Has(d)
      BY <2>2, <2>4, Zenon
    <3>2. PICK e \in DOMAIN backup.rows \ kept : q = LocalPath(e) /\ Has(e)
      BY <2>2, <2>4, Zenon
    <3>3. d = e
      BY <2>1, <3>1, <3>2
    <3> QED
      BY <3>1, <3>2, <3>3, Zenon
  <2>5. \A p, x : ~(InCache(p, k, c)' /\ Pends(x, k, c)')
    <3>1. \A p : InCache(p, k, c)' => \E d \in DOMAIN backup.rows : d \notin kept /\ Has(d)
      BY <2>2, Zenon
    <3>2. \A x : Pends(x, k, c)' => \E e \in kept : Has(e)
      BY <2>3, Zenon
    <3>3. \A e \in kept : e \in DOMAIN backup.rows
      BY <1>2
    <3> QED
      BY <2>1, <3>1, <3>2, <3>3, Zenon
  <2>6. \A x, y : Pends(x, k, c)' /\ Pends(y, k, c)' => x = y
    BY <1>2, <1>3, <2>1, <2>3
  <2> QED
    BY <2>4, <2>5, <2>6
<1> QED
  BY <1>6 DEF OneTaker

LEMMA ToneOneTaker ==
    ASSUME TypeInv, OneTaker, work.infos # <<>>, work'.infos = Tail(work.infos), Keeps(rows, rows'),
           NEW path, Takes(work.cache, work'.cache, work.infos[1], path)
    PROVE  OneTaker'
<1>1. work.infos \in Seq(Info) /\ 1 \in DOMAIN work.infos
  <2>1. work.infos \in Seq(Info)
    BY DEF TypeInv, TypeOK, IsWork
  <2> QED
    BY <2>1, Shortened
<1>2. \A k \in Kinds : \A p, c : InCache(p, k, c)' => InCache(p, k, c) \/ (p = path /\ Pends(1, k, c))
  BY <1>1 DEF InCache, Takes, Pends, NeedCommit
<1>3. /\ \A x \in DOMAIN work'.infos :
            x + 1 \in DOMAIN work.infos /\ x + 1 # 1 /\ work'.infos[x] = work.infos[x + 1]
      /\ \A x, y \in DOMAIN work'.infos : x + 1 = y + 1 => x = y
  BY <1>1, Shortened
<1>4. StaysCustomised(rows, rows')
  BY KeepsStays
<1>5. \A k \in Kinds : \A x, c : Pends(x, k, c)' =>
            x \in DOMAIN work'.infos /\ x + 1 # 1 /\ Pends(x + 1, k, c)
  BY <1>3, <1>4 DEF Pends, StaysCustomised
<1>6. ASSUME NEW k \in Kinds \cap CardKinds, NEW c
      PROVE  /\ \A p, q : InCache(p, k, c)' /\ InCache(q, k, c)' => p = q
             /\ \A p, x : ~(InCache(p, k, c)' /\ Pends(x, k, c)')
             /\ \A x, y : Pends(x, k, c)' /\ Pends(y, k, c)' => x = y
  <2>1. /\ \A p, q : InCache(p, k, c) /\ InCache(q, k, c) => p = q
        /\ \A p, x : ~(InCache(p, k, c) /\ Pends(x, k, c))
        /\ \A x, y : Pends(x, k, c) /\ Pends(y, k, c) => x = y
    BY DEF OneTaker
  <2>2. \A p, q : InCache(p, k, c)' /\ InCache(q, k, c)' => p = q
    BY <1>2, <2>1
  <2>3. \A p, x : ~(InCache(p, k, c)' /\ Pends(x, k, c)')
    BY <1>2, <1>5, <2>1
  <2>4. \A x, y : Pends(x, k, c)' /\ Pends(y, k, c)' => x = y
    BY <1>3, <1>5, <2>1
  <2> QED
    BY <2>2, <2>3, <2>4
<1> QED
  BY <1>6 DEF OneTaker

LEMMA BuildOneTaker ==
    ASSUME TypeInv, BuildFileInfo
    PROVE  OneTaker'
<1>1. PICK order \in [DOMAIN work'.infos -> DOMAIN job.settings] :
        /\ \A x, y \in DOMAIN work'.infos : order[x] = order[y] => x = y
        /\ \A x \in DOMAIN work'.infos : FromSetting(work'.infos[x], job.settings[order[x]])
  BY BuildStep, Zenon
<1>2. work'.cache = {} /\ rows' = rows /\ OneTone(job)
  BY BuildStep, OneToneAssumption DEF TypeInv, TypeOK
<1>3. \A p, k, c : ~InCache(p, k, c)'
  BY <1>2 DEF InCache
<1>4. ASSUME NEW k \in Kinds, NEW c, NEW x, Pends(x, k, c)'
      PROVE  /\ x \in DOMAIN work'.infos /\ order[x] \in DOMAIN job.settings
             /\ job.settings[order[x]].kind = k /\ job.settings[order[x]].card = c
  <2>1. /\ x \in DOMAIN work'.infos /\ work'.infos[x].by[k] = "customised" /\ c \in work'.infos[x].on[k]
        /\ ~IsCardAlreadyCustomised(rows, k, c)
    BY <1>2, <1>4 DEF Pends
  <2>2. FromSetting(work'.infos[x], job.settings[order[x]])
    BY <1>1, <2>1
  <2>3. job.settings[order[x]].kind = k /\ job.settings[order[x]].card = c
    BY <2>1, <2>2, Zenon DEF FromSetting
  <2> QED
    BY <1>1, <2>1, <2>3
<1>5. ASSUME NEW k \in Kinds, NEW c, NEW x, NEW y, Pends(x, k, c)', Pends(y, k, c)'
      PROVE  x = y
  <2> DEFINE i == order[x]  h == order[y]
  <2>1. /\ x \in DOMAIN work'.infos /\ i \in DOMAIN job.settings
        /\ job.settings[i].kind = k /\ job.settings[i].card = c
    BY <1>4, <1>5
  <2>2. /\ y \in DOMAIN work'.infos /\ h \in DOMAIN job.settings
        /\ job.settings[h].kind = k /\ job.settings[h].card = c
    BY <1>4, <1>5
  <2> HIDE DEF i, h
  <2>3. i = h
    BY <1>2, <2>1, <2>2, Zenon DEF OneTone
  <2> QED
    BY <1>1, <2>1, <2>2, <2>3 DEF i, h
<1> QED
  BY <1>3, <1>5 DEF OneTaker

LEMMA OneTakerStep ==
    ASSUME TypeInv, Justified, OneTaker, [Next]_vars
    PROVE  OneTaker'
<1>1. CASE BaseStep
  <2>1. work'.cache \subseteq work.cache /\ work'.infos = work.infos
    BY <1>1 DEF BaseStep, StartFails, StartRestore, CacheInitialNoRingtoneState, EndOfInserts, BatchInsert,
        OnFinished, BeginFlush, FlushOne, EndFlush, SanitizeVibrateRecords, TypeInv, TypeOK, IsWork
  <2>2. changes' = changes
    BY <1>1 DEF BaseStep, StartFails, StartRestore, CacheInitialNoRingtoneState, EndOfInserts, BatchInsert,
        OnFinished, BeginFlush, FlushOne, EndFlush, SanitizeVibrateRecords, history
  <2>3. StaysCustomised(rows, rows')
    BY <1>1, <2>2, BaseKeeps, KeepsStays DEF KeepingStep
  <2> QED
    BY <2>1, <2>3, QuietOneTaker
<1>2. CASE CloneStep
  <2>1. CASE CleanESimData \/ CheckNotRingtoneRestore \/ UpdateSettingInfos \/ ClearPresetCardBits
    <3>1. work' = work /\ changes' = changes
      BY <2>1 DEF CleanESimData, CheckNotRingtoneRestore, UpdateSettingInfos, ClearPresetCardBits, history
    <3>2. StaysCustomised(rows, rows')
      BY <1>2, <3>1, CloneKeeps, KeepsStays DEF KeepingStep
    <3> QED
      BY <3>1, <3>2, QuietOneTaker
  <2>2. CASE CheckRestoreFileInfos
    BY <2>2, QueryOneTaker
  <2>3. CASE PrepareTone
    <3>1. work.infos # <<>> /\ work'.infos = Tail(work.infos) /\ Keeps(rows, rows')
      BY <2>3, PrepareStep
    <3>2. PICK path \in Paths : Takes(work.cache, work'.cache, work.infos[1], path)
      BY <2>3, PrepareStep, Zenon
    <3> QED
      BY <3>1, <3>2, ToneOneTaker
  <2>4. CASE PassOver
    <3>1. work.infos # <<>> /\ work'.infos = Tail(work.infos) /\ Keeps(rows, rows')
      BY <2>4, PassStep, KeptTwice
    <3>2. Takes(work.cache, work'.cache, work.infos[1], work.infos[1].data)
      BY <2>4, PassStep DEF Takes
    <3> QED
      BY <3>1, <3>2, ToneOneTaker
  <2> QED
    BY <1>2, <2>1, <2>2, <2>3, <2>4 DEF CloneStep
<1>3. CASE DualStep
  <2>1. CASE HandleUpgradeWithESim
    <3>1. work'.cache = work.cache /\ work'.infos = work.infos /\ rows' = rows
      BY <2>1 DEF HandleUpgradeWithESim, device, TypeInv, TypeOK, IsWork
    <3> QED
      BY <3>1, LessenedTwice, QuietOneTaker
  <2>2. CASE ApplyMigration
    BY <2>2, MigrationStep, EmptyOneTaker
  <2>3. CASE BuildFileInfo
    BY <2>3, BuildOneTaker
  <2>4. CASE DupTone
    <3>1. work.infos # <<>> /\ work'.infos = Tail(work.infos) /\ Keeps(rows, rows')
      BY <2>4, DupStep
    <3>2. PICK path \in Paths : Takes(work.cache, work'.cache, work.infos[1], path)
      BY <2>4, DupStep, Zenon
    <3> QED
      BY <3>1, <3>2, ToneOneTaker
  <2> QED
    BY <1>3, <2>1, <2>2, <2>3, <2>4 DEF DualStep
<1>4. CASE UserCustomises
  <2>1. StaysCustomised(rows, rows') /\ work' = work
    BY <1>4, ChoiceKeeps, JobTyped DEF TypeInv, TypeOK, UserCustomises
  <2> QED
    BY <2>1, QuietOneTaker
<1>5. CASE Crash
  <2>1. work'.cache = {} /\ work'.infos = <<>>
    BY <1>5 DEF Crash, NoWork
  <2> QED
    BY <2>1, EmptyOneTaker
<1>6. CASE UNCHANGED vars
  BY <1>6, LessenedTwice, QuietOneTaker DEF vars
<1> QED
  BY <1>1, <1>2, <1>3, <1>4, <1>5, <1>6 DEF Next, Step

(* No card falls silent in a step, but for a clone's and cards without a tone in the backup.  *)
Resounds ==
    \A k \in Kinds \cap CardKinds : \A c \in SimCards :
        Sounding(rows, k, c) /\ (job.scene = "clone" => Sounding(backup.rows, k, c))
            => Sounding(rows', k, c)

LEMMA QuietResounds ==
    ASSUME rows' = rows
    PROVE  Resounds
BY DEF Resounds

LEMMA StayResounds ==
    ASSUME StaysSounding(rows, rows')
    PROVE  Resounds
BY DEF Resounds, StaysSounding

LEMMA FlushResounds ==
    ASSUME TypeInv, OneTaker, FlushOne
    PROVE  Resounds
<1>1. PICK item \in work.cache : \E card \in item.cards :
        /\ item \in Item
        /\ (item.kind \in CardKinds =>
                \A i \in work.cache : i.kind = item.kind /\ card \in i.cards => i.path = item.path)
            => StaysSounding(rows, rows')
  BY FlushOneRows, Zenon
<1>2. PICK card \in item.cards :
        /\ item \in Item
        /\ (item.kind \in CardKinds =>
                \A i \in work.cache : i.kind = item.kind /\ card \in i.cards => i.path = item.path)
            => StaysSounding(rows, rows')
  BY <1>1, Zenon
<1>3. ASSUME item.kind \in CardKinds, NEW i \in work.cache, i.kind = item.kind, card \in i.cards
      PROVE  i.path = item.path
  <2>1. item.kind \in Kinds \cap CardKinds
    BY <1>2, <1>3 DEF Item
  <2>2. InCache(item.path, item.kind, card) /\ InCache(i.path, item.kind, card)
    BY <1>2, <1>3 DEF InCache
  <2> QED
    BY <2>1, <2>2, Zenon DEF OneTaker
<1> QED
  BY <1>2, <1>3, StayResounds

LEMMA ResoundsStep ==
    ASSUME TypeInv, OneTaker, [Next]_vars, changes' = changes
    PROVE  Resounds
<1>1. CASE BaseStep
  <2>1. CASE StartFails \/ CacheInitialNoRingtoneState \/ EndOfInserts \/ OnFinished \/ BeginFlush
             \/ EndFlush \/ SanitizeVibrateRecords
    <3>1. rows' = rows
      BY <2>1 DEF StartFails, CacheInitialNoRingtoneState, EndOfInserts, OnFinished, BeginFlush, EndFlush,
          SanitizeVibrateRecords, device
    <3> QED
      BY <3>1, QuietResounds
  <2>2. CASE StartRestore
    BY <2>2, StartTypes, StayResounds
  <2>3. CASE BatchInsert
    BY <2>3, BatchTypes, StayResounds
  <2>4. CASE FlushOne
    BY <2>4, FlushResounds
  <2> QED
    BY <1>1, <2>1, <2>2, <2>3, <2>4 DEF BaseStep
<1>2. CASE CloneStep
  <2>1. CASE CleanESimData \/ UpdateSettingInfos \/ PassOver
    <3>1. rows' = rows
      BY <2>1 DEF CleanESimData, UpdateSettingInfos, PassOver, device
    <3> QED
      BY <3>1, QuietResounds
  <2>2. CASE CheckNotRingtoneRestore
    <3>1. job.scene = "clone"
      BY <2>2 DEF CheckNotRingtoneRestore, TypeInv, Shape
    <3>2. \A k \in Kinds \cap CardKinds : \A c \in SimCards :
            Sounding(rows, k, c) /\ Sounding(backup.rows, k, c) => Sounding(rows', k, c)
      BY <2>2, MutedKeeps DEF TypeInv, TypeOK
    <3> QED
      BY <3>1, <3>2 DEF Resounds
  <2>3. CASE CheckRestoreFileInfos
    BY <2>3, QueryStep, StayResounds
  <2>4. CASE PrepareTone
    BY <2>4, PrepareStep, StayResounds
  <2>5. CASE ClearPresetCardBits
    BY <2>5, ClearTypes, StayResounds
  <2> QED
    BY <1>2, <2>1, <2>2, <2>3, <2>4, <2>5 DEF CloneStep
<1>3. CASE DualStep
  <2>1. CASE HandleUpgradeWithESim
    <3>1. rows' = rows
      BY <2>1 DEF HandleUpgradeWithESim, device
    <3> QED
      BY <3>1, QuietResounds
  <2>2. CASE ApplyMigration
    BY <2>2, MigrationStep, StayResounds
  <2>3. CASE BuildFileInfo
    BY <2>3, BuildStep, QuietResounds
  <2>4. CASE DupTone
    BY <2>4, DupStep, StayResounds
  <2> QED
    BY <1>3, <2>1, <2>2, <2>3, <2>4 DEF DualStep
<1>4. CASE UserCustomises
  <2>1. changes \in Nat /\ changes' = changes + 1
    <3>1. changes \in 0 .. MaxChanges /\ MaxChanges \in Nat
      BY RestoreAssumption DEF TypeInv, TypeOK
    <3>2. changes' = changes + 1
      BY <1>4 DEF UserCustomises
    <3> QED
      BY <3>1, <3>2
  <2> QED
    BY <2>1
<1>5. CASE Crash
  <2>1. rows' = rows
    BY <1>5 DEF Crash, device
  <2> QED
    BY <2>1, QuietResounds
<1>6. CASE UNCHANGED vars
  <2>1. rows' = rows
    BY <1>6 DEF vars
  <2> QED
    BY <2>1, QuietResounds
<1> QED
  BY <1>1, <1>2, <1>3, <1>4, <1>5, <1>6 DEF Next, Step

(* A card that has a tone keeps having one at every step of a restore, whatever fails, and    *)
(* however often the process dies; a clone may silence a card that has no tone in the backup. *)
THEOREM NoCardFallsSilent == Spec => NeverSilenced
<1> DEFINE Kept ==
        changes' = changes =>
        \A k \in Kinds \cap CardKinds : \A c \in SimCards :
            Sounds(rows, k, c) /\ (job.scene = "clone" => Sounds(backup.rows, k, c))
                => Sounds(rows', k, c)
<1>1. Init => TypeInv /\ Justified /\ OneTaker
  <2> SUFFICES ASSUME Init PROVE TypeInv /\ Justified /\ OneTaker
    OBVIOUS
  <2>1. work.cache = {} /\ work.infos = <<>>
    BY DEF Init, NoWork
  <2>2. OneTaker
    BY <2>1 DEF OneTaker, InCache, Pends
  <2> QED
    BY <2>2, TypeInit, InitJustified
<1>2. TypeInv /\ Justified /\ OneTaker /\ [Next]_vars => TypeInv' /\ Justified' /\ OneTaker'
  BY NextKeeps, JustifiedStep, OneTakerStep
<1>3. TypeInv /\ OneTaker /\ [Next]_vars => [Kept]_vars
  <2> SUFFICES ASSUME TypeInv, OneTaker, [Next]_vars, changes' = changes PROVE Kept
    BY Zenon
  <2>1. Resounds
    BY ResoundsStep
  <2>2. \A t, k, c : Sounding(t, k, c) <=> Sounds(t, k, c)
    BY NotDetermined DEF Sounds
  <2> QED
    BY <2>1, <2>2, Zenon DEF Resounds
<1> HIDE DEF Kept
<1>4. Spec => [][Kept]_vars
  BY <1>1, <1>2, <1>3, PTL DEF Spec
<1> QED
  BY <1>4 DEF NeverSilenced, Kept

-----------------------------------------------------------------------------
(* What the other device's settings come to.  A clone looks at the table of the device as it  *)
(* is at the start, the presets scanned.                                                      *)
Own == IF job.completed THEN job.rows ELSE Merge(job.rows, job.factory)

OneHolder(table, kind, card) ==
    \A p, q \in DOMAIN table : card \in table[p].on[kind] /\ card \in table[q].on[kind] => p = q

(* No tone is the user's for the card, and a card has one tone. *)
Free(table, kind, card) ==
    /\ ~IsCardAlreadyCustomised(table, kind, card)
    /\ kind \in CardKinds => OneHolder(table, kind, card)

(* A step that gives no card to a tone, or makes it the user's. *)
Fewer(old, new) ==
    \A p \in DOMAIN new : \A k \in Kinds : \A c \in new[p].on[k] :
        /\ p \in DOMAIN old /\ c \in old[p].on[k]
        /\ new[p].by[k] = "customised" => old[p].by[k] = "customised"

SameTones(old, new) ==
    /\ \A p \in DOMAIN old : p \in DOMAIN new /\ new[p].source = old[p].source
    /\ \A p \in DOMAIN new \ DOMAIN old : new[p].source = "customised"

LEMMA FewerFree ==
    ASSUME NEW old, NEW new, Fewer(old, new), NEW k \in Kinds, NEW c, Free(old, k, c)
    PROVE  Free(new, k, c)
<1>1. ~IsCardAlreadyCustomised(new, k, c)
  BY DEF Fewer, Free, IsCardAlreadyCustomised
<1>2. OneHolder(old, k, c) => OneHolder(new, k, c)
  BY DEF Fewer, OneHolder
<1> QED
  BY <1>1, <1>2 DEF Free

LEMMA SameFewer ==
    ASSUME NEW table
    PROVE  Fewer(table, table) /\ SameTones(table, table)
BY DEF Fewer, SameTones

LEMMA ClearedFewer ==
    ASSUME NEW old, NEW new, DOMAIN new = DOMAIN old, Cleared(old, new)
    PROVE  Fewer(old, new)
BY DEF Cleared, Fewer, Same

LEMMA ClearLocalFewer ==
    ASSUME NEW table, IsTable(table), NEW info
    PROVE  LET new == ClearLocalDBTypeSetting(table, info)
           IN  /\ IsTable(new) /\ DOMAIN new = DOMAIN table /\ Cleared(table, new)
               /\ Fewer(table, new) /\ SameTones(table, new)
<1> DEFINE new == ClearLocalDBTypeSetting(table, info)
           C(p) == {k \in Kinds : Clears(info, k) /\ table[p].by[k] # "customised"}
<1>1. IsTable(new) /\ DOMAIN new = DOMAIN table /\ Cleared(table, new)
  BY ClearLocalKeeps
<1>2. \A p \in DOMAIN table : new[p].source = table[p].source
  <2>1. new = [p \in DOMAIN table |->
                IF p \in {info.path}
                THEN [table[p] EXCEPT !.on = [k \in Kinds |-> IF k \in C(p) THEN {} ELSE table[p].on[k]],
                                      !.by = [k \in Kinds |-> IF k \in C(p) THEN "notSet" ELSE table[p].by[k]]]
                ELSE table[p]]
    BY Zenon DEF ClearLocalDBTypeSetting, Change
  <2>2. ASSUME NEW p \in DOMAIN table
        PROVE  new[p].source = table[p].source
    <3> DEFINE r == table[p]
               a == [k \in Kinds |-> IF k \in C(p) THEN {} ELSE table[p].on[k]]
               b == [k \in Kinds |-> IF k \in C(p) THEN "notSet" ELSE table[p].by[k]]
    <3>1. r \in Row
      BY DEF IsTable
    <3>2. new[p] = [r EXCEPT !.on = a, !.by = b] \/ new[p] = r
      BY <2>1, Zenon
    <3> HIDE DEF r, a, b, new
    <3>3. [r EXCEPT !.on = a, !.by = b].source = r.source
      BY <3>1 DEF Row
    <3> QED
      BY <3>2, <3>3, Zenon DEF r
  <2> QED
    BY <2>2
<1> HIDE DEF new
<1>3. Fewer(table, new)
  BY <1>1, ClearedFewer
<1>4. SameTones(table, new)
  BY <1>1, <1>2 DEF SameTones
<1> QED
  BY <1>1, <1>3, <1>4 DEF new

LEMMA ClearedRowsFewer ==
    ASSUME NEW P, IsTable(rows),
           rows' = [p \in DOMAIN rows |->
                    LET same == {i \in P : i.path = p}
                    IN  IF same = {} THEN rows[p]
                        ELSE ClearLocalDBTypeSetting(rows, CHOOSE i \in same : TRUE)[p]]
    PROVE  Fewer(rows, rows') /\ SameTones(rows, rows')
<1>1. rows \in [DOMAIN rows -> Row] /\ DOMAIN rows \subseteq Paths /\ DOMAIN rows' = DOMAIN rows
  BY DEF IsTable
<1>2. ASSUME NEW p \in DOMAIN rows
      PROVE  /\ rows'[p].source = rows[p].source
             /\ \A k \in Kinds :
                \/ Same(rows'[p], rows[p], k)
                \/ rows'[p].on[k] = {} /\ rows[p].by[k] # "customised" /\ k \notin CardKinds
  <2> DEFINE info == CHOOSE i \in {i \in P : i.path = p} : TRUE
             new == ClearLocalDBTypeSetting(rows, info)
  <2>1. rows'[p] = rows[p] \/ rows'[p] = new[p]
    OBVIOUS
  <2> HIDE DEF info
  <2>2. IsTable(new) /\ DOMAIN new = DOMAIN rows /\ Cleared(rows, new) /\ SameTones(rows, new)
    BY ClearLocalFewer
  <2> HIDE DEF new
  <2> QED
    BY <1>1, <2>1, <2>2 DEF IsTable, Cleared, SameTones, Same
<1>3. Cleared(rows, rows')
  BY <1>2 DEF Cleared
<1> QED
  BY <1>1, <1>2, <1>3, ClearedFewer DEF SameTones

LEMMA MutedFewer ==
    ASSUME IsTable(rows), CheckNotRingtoneRestore
    PROVE  Fewer(rows, rows') /\ SameTones(rows, rows')
<1> DEFINE off(p, k) == {c \in Slots(k) : NotRingtone(k, c) /\ rows[p].by[k] = "preset"}
           on == [p \in DOMAIN rows |-> [k \in Kinds |-> rows[p].on[k] \ off(p, k)]]
           by == [p \in DOMAIN rows |-> [k \in Kinds |->
                    IF k = "notification" /\ off(p, k) \cap rows[p].on[k] # {} THEN "invalid"
                    ELSE rows[p].by[k]]]
<1>1. rows \in [DOMAIN rows -> Row]
  BY DEF IsTable
<1>2. on \in [DOMAIN rows -> CardSets] /\ by \in [DOMAIN rows -> [Kinds -> Sources]]
  BY <1>1 DEF Row, CardSets, Sources
<1>3. rows' = [p \in DOMAIN rows |-> WithSettings(rows[p], on[p], by[p])]
  BY Zenon DEF CheckNotRingtoneRestore, WithSettings
<1>4. ASSUME NEW p \in DOMAIN rows, NEW k \in Kinds
      PROVE  on[p][k] \subseteq rows[p].on[k] /\ by[p][k] \in {rows[p].by[k], "invalid"}
  OBVIOUS
<1> HIDE DEF on, by
<1>5. /\ IsTable(rows') /\ DOMAIN rows' = DOMAIN rows
      /\ \A p \in DOMAIN rows : rows'[p].on = on[p] /\ rows'[p].by = by[p] /\ rows'[p].source = rows[p].source
  BY <1>2, <1>3, Resettled
<1>6. \A p \in DOMAIN rows : \A k \in Kinds :
        /\ rows'[p].on[k] \subseteq rows[p].on[k]
        /\ rows'[p].by[k] = "customised" => rows[p].by[k] = "customised"
  BY <1>4, <1>5
<1> QED
  BY <1>5, <1>6 DEF Fewer, SameTones

LEMMA MergedFewer ==
    ASSUME NEW old, NEW more, IsTable(old), IsTable(more), NoSettings(more),
           \A p \in DOMAIN more : more[p].source = "customised"
    PROVE  LET new == Merge(old, more)
           IN  DOMAIN new = DOMAIN old \cup DOMAIN more /\ Fewer(old, new) /\ SameTones(old, new)
<1> DEFINE new == Merge(old, more)
<1>1. /\ DOMAIN new = DOMAIN old \cup DOMAIN more
      /\ \A p \in DOMAIN old : new[p] = old[p]
      /\ \A p \in DOMAIN more \ DOMAIN old : new[p] = more[p]
  BY NewRowsKeep
<1> HIDE DEF new
<1>2. Fewer(old, new)
  BY <1>1 DEF Fewer, NoSettings
<1>3. SameTones(old, new)
  BY <1>1 DEF SameTones
<1> QED
  BY <1>1, <1>2, <1>3 DEF new

-----------------------------------------------------------------------------
(* The tone of path has the card: the user's, or a preset's that no other tone disputes. *)
IsSet(table, path, kind, card) ==
    /\ path \in DOMAIN table /\ card \in table[path].on[kind]
    /\ \/ table[path].by[kind] = "customised"
       \/ kind \in CardKinds /\ table[path].by[kind] = "preset" /\ OneHolder(table, kind, card)

(* Flushing will give the tone the card: if the tone was the card's preset, it has it. *)
Ready(table, presets, path, kind, card) ==
    /\ path \in DOMAIN table
    /\ kind \in CardKinds =>
        /\ OneHolder(table, kind, card)
        /\ presets[<<kind, card>>] = path =>
            card \in table[path].on[kind] /\ table[path].by[kind] \in {"preset", "customised"}

(* A step leaves the card to those that have it, who may become the user's. *)
Carries(old, new, kind, card) ==
    /\ DOMAIN new = DOMAIN old
    /\ \A p \in DOMAIN old :
        /\ card \in new[p].on[kind] <=> card \in old[p].on[kind]
        /\ card \in old[p].on[kind] /\ old[p].by[kind] \in {"preset", "customised"} =>
            new[p].by[kind] = old[p].by[kind] \/ new[p].by[kind] = "customised"

LEMMA CarriesHolder ==
    ASSUME NEW old, NEW new, NEW k, NEW c, Carries(old, new, k, c), OneHolder(old, k, c)
    PROVE  OneHolder(new, k, c)
BY DEF Carries, OneHolder

LEMMA CarriesSet ==
    ASSUME NEW old, NEW new, NEW k, NEW c, Carries(old, new, k, c), NEW p
    PROVE  /\ IsSet(old, p, k, c) => IsSet(new, p, k, c)
           /\ \A presets : Ready(old, presets, p, k, c) => Ready(new, presets, p, k, c)
<1>1. ASSUME IsSet(old, p, k, c)
      PROVE  IsSet(new, p, k, c)
  BY <1>1, CarriesHolder DEF IsSet, Carries
<1>2. ASSUME NEW presets, Ready(old, presets, p, k, c)
      PROVE  Ready(new, presets, p, k, c)
  BY <1>2, CarriesHolder DEF Ready, Carries
<1> QED
  BY <1>1, <1>2

LEMMA CarriesTwice ==
    ASSUME NEW s, NEW t, NEW u, NEW k, NEW c, Carries(s, t, k, c), Carries(t, u, k, c)
    PROVE  Carries(s, u, k, c)
<1>1. DOMAIN t = DOMAIN s /\ DOMAIN u = DOMAIN s
  BY DEF Carries
<1>2. ASSUME NEW p \in DOMAIN s
      PROVE  /\ c \in u[p].on[k] <=> c \in s[p].on[k]
             /\ c \in s[p].on[k] /\ s[p].by[k] \in {"preset", "customised"} =>
                u[p].by[k] = s[p].by[k] \/ u[p].by[k] = "customised"
  BY <1>1 DEF Carries
<1> QED
  BY <1>1, <1>2 DEF Carries

LEMMA ApplyCardCarries ==
    ASSUME NEW table, IsTable(table), NEW item \in Item, item.by = "customised", NEW card \in item.cards,
           NEW k \in Kinds, NEW c, k # item.kind \/ c # card
    PROVE  Carries(table, ApplyCardSetting(table, item, card), k, c)
<1> DEFINE new == ApplyCardSetting(table, item, card)
<1>1. /\ DOMAIN new = DOMAIN table
      /\ \A p \in DOMAIN table : \A j \in Kinds :
            IF p = item.path /\ j = item.kind
            THEN new[p].on[j] = table[p].on[j] \cup {card} /\ new[p].by[j] = item.by
            ELSE Same(new[p], table[p], j)
  BY ApplyCard
<1> HIDE DEF new
<1>2. Carries(table, new, k, c)
  BY <1>1 DEF Carries, Same
<1> QED
  BY <1>2 DEF new

LEMMA ClearBitCarries ==
    ASSUME NEW table, IsTable(table), NEW kind \in Kinds, NEW card,
           NEW k \in Kinds, NEW c, k # kind \/ c # card
    PROVE  Carries(table, ClearPresetCardBit(table, kind, card), k, c)
<1> DEFINE new == ClearPresetCardBit(table, kind, card)
<1>1. /\ DOMAIN new = DOMAIN table
      /\ \A p \in DOMAIN table : \A j \in Kinds :
            IF j = kind /\ p \in PresetHolders(table, kind, card)
            THEN /\ new[p].on[j] = table[p].on[j] \ {card}
                 /\ new[p].by[j] = IF table[p].on[j] = {card} THEN "invalid" ELSE "preset"
            ELSE Same(new[p], table[p], j)
  BY ClearBit
<1> HIDE DEF new
<1>2. Carries(table, new, k, c)
  BY <1>1 DEF Carries, Same, PresetHolders
<1> QED
  BY <1>2 DEF new

LEMMA ApplyNonCardCarries ==
    ASSUME NEW table, IsTable(table), NEW item \in Item, item.kind \notin CardKinds,
           NEW k \in Kinds, NEW c, k # item.kind
    PROVE  Carries(table, ApplyNonCardSetting(table, item, TRUE), k, c)
<1> DEFINE new == ApplyNonCardSetting(table, item, TRUE)
<1>1. /\ DOMAIN new = DOMAIN table
      /\ \A p \in DOMAIN table : \A j \in Kinds :
            IF p = item.path /\ j = item.kind
            THEN new[p].on[j] = {"device"} /\ new[p].by[j] = item.by
            ELSE Same(new[p], table[p], j)
  BY ApplyNonCard
<1> HIDE DEF new
<1>2. Carries(table, new, k, c)
  BY <1>1 DEF Carries, Same
<1> QED
  BY <1>2 DEF new

(* Clearing the preset bit of a card takes it from no tone of the user's. *)
LEMMA ClearBitSet ==
    ASSUME NEW table, IsTable(table), NEW kind \in Kinds, NEW card, NEW p \in DOMAIN table,
           card \in table[p].on[kind], table[p].by[kind] = "customised"
    PROVE  IsSet(ClearPresetCardBit(table, kind, card), p, kind, card)
<1> DEFINE new == ClearPresetCardBit(table, kind, card)
<1>1. /\ DOMAIN new = DOMAIN table
      /\ \A q \in DOMAIN table : \A j \in Kinds :
            IF j = kind /\ q \in PresetHolders(table, kind, card)
            THEN /\ new[q].on[j] = table[q].on[j] \ {card}
                 /\ new[q].by[j] = IF table[q].on[j] = {card} THEN "invalid" ELSE "preset"
            ELSE Same(new[q], table[q], j)
  BY ClearBit
<1>2. p \notin PresetHolders(table, kind, card)
  BY DEF PresetHolders
<1> HIDE DEF new
<1>3. Same(new[p], table[p], kind)
  BY <1>1, <1>2
<1>4. IsSet(new, p, kind, card)
  BY <1>1, <1>3 DEF IsSet, Same
<1> QED
  BY <1>4 DEF new

LEMMA FlushTones ==
    ASSUME NEW table, IsTable(table), NEW cache, NEW presets, NEW step,
           step.item \in Item, step.card \in step.item.cards
    PROVE  LET new == Flush(table, cache, presets, step, TRUE)
           IN  DOMAIN new = DOMAIN table /\ SameTones(table, new)
<1> DEFINE item == step.item  card == step.card
           set == ApplyCardSetting(table, item, card)
           clear == ClearPresetCardBit(table, item.kind, card)
           both == ClearPresetCardBit(set, item.kind, card)
           other == ApplyNonCardSetting(table, item, TRUE)
           new == Flush(table, cache, presets, step, TRUE)
           Like(t) == DOMAIN t = DOMAIN table /\ \A p \in DOMAIN table : t[p].source = table[p].source
<1>0. item \in Item /\ card \in item.cards /\ item.kind \in Kinds
  BY DEF Item
<1>1. new \in {table, set, clear, both} \/ (item.kind \notin CardKinds /\ new = other)
  BY Zenon DEF Flush, ApplyCardSettings
<1> HIDE DEF item, card
<1>2. Like(set) /\ IsTable(set)
  BY <1>0, ApplyCard
<1>3. Like(clear)
  BY <1>0, ClearBit
<1>4. Like(both)
  <2> DEFINE s == set
  <2>1. IsTable(s) /\ DOMAIN s = DOMAIN table /\ \A p \in DOMAIN table : s[p].source = table[p].source
    BY <1>2
  <2> DEFINE b == ClearPresetCardBit(s, item.kind, card)
  <2> HIDE DEF s
  <2>2. DOMAIN b = DOMAIN s /\ \A p \in DOMAIN s : b[p].source = s[p].source
    BY <1>0, <2>1, ClearBit
  <2>3. DOMAIN b = DOMAIN table /\ \A p \in DOMAIN table : b[p].source = table[p].source
    <3> HIDE DEF b
    <3> QED
      BY <2>1, <2>2
  <2> QED
    BY <2>3, Zenon DEF s
<1>5. item.kind \notin CardKinds => Like(other)
  BY <1>0, ApplyNonCard
<1> HIDE DEF set, clear, both, other, new
<1>6. Like(new)
  BY <1>1, <1>2, <1>3, <1>4, <1>5
<1>7. DOMAIN new = DOMAIN table /\ SameTones(table, new)
  BY <1>6 DEF SameTones
<1> QED
  BY <1>7, Zenon DEF new

(* A step of flushing for a kind without cards: its tone has the setting, and the others     *)
(* what they had.                                                                            *)
LEMMA FlushNonCardSets ==
    ASSUME NEW table, IsTable(table), NEW item \in Item, item.kind \notin CardKinds, item.by = "customised",
           NEW presets, NEW p \in DOMAIN table, NEW k \in Kinds, NEW c \in Slots(k), NEW card \in item.cards
    PROVE  LET new == ApplyNonCardSetting(table, item, TRUE)
               hit == p = item.path /\ k = item.kind /\ c = card
           IN  /\ IsSet(table, p, k, c) \/ hit => IsSet(new, p, k, c)
               /\ Ready(table, presets, p, k, c) => IsSet(new, p, k, c) \/ (~hit /\ Ready(new, presets, p, k, c))
<1> DEFINE new == ApplyNonCardSetting(table, item, TRUE)
           hit == p = item.path /\ k = item.kind /\ c = card
<1>1. /\ DOMAIN new = DOMAIN table
      /\ \A q \in DOMAIN table : \A j \in Kinds :
            IF q = item.path /\ j = item.kind
            THEN new[q].on[j] = {"device"} /\ new[q].by[j] = item.by
            ELSE Same(new[q], table[q], j)
  BY ApplyNonCard
<1>2. k # item.kind => Carries(table, new, k, c)
  BY ApplyNonCardCarries
<1> HIDE DEF new
<1>3. CASE k # item.kind
  <2>1. /\ IsSet(table, p, k, c) => IsSet(new, p, k, c)
        /\ Ready(table, presets, p, k, c) => Ready(new, presets, p, k, c)
    BY <1>2, <1>3, CarriesSet
  <2> QED
    BY <1>3, <2>1, Zenon DEF new
<1>4. CASE k = item.kind /\ p = item.path
  <2>1. c = "device"
    BY <1>4 DEF Slots
  <2>2. IsSet(new, p, k, c)
    BY <1>1, <1>4, <2>1 DEF IsSet
  <2> QED
    BY <2>2, Zenon DEF new
<1>5. CASE k = item.kind /\ p # item.path
  <2>1. Same(new[p], table[p], k)
    BY <1>1, <1>5
  <2>2. IsSet(table, p, k, c) => IsSet(new, p, k, c)
    BY <1>1, <1>5, <2>1 DEF IsSet, Same
  <2>3. Ready(new, presets, p, k, c)
    BY <1>1, <1>5 DEF Ready
  <2> QED
    BY <1>5, <2>2, <2>3, Zenon DEF new
<1> QED
  BY <1>3, <1>4, <1>5

(* A step for a card: it comes to the step's tone, unless that has it as the preset of the   *)
(* card, and stays there.                                                                    *)
LEMMA FlushCardSets ==
    ASSUME NEW table, IsTable(table), NEW cache, NEW presets,
           NEW item \in Item, item.kind \in CardKinds, item.by = "customised", NEW card \in item.cards,
           \A i \in cache : i.kind = item.kind /\ card \in i.cards => i.path = item.path,
           NEW p \in DOMAIN table, p = item.path,
           IsSet(table, p, item.kind, card) \/ Ready(table, presets, p, item.kind, card)
    PROVE  IsSet(ApplyCardSettings(table, cache, presets, item, card, TRUE), p, item.kind, card)
<1> DEFINE set == ApplyCardSetting(table, item, card)
           clear == ClearPresetCardBit(table, item.kind, card)
           both == ClearPresetCardBit(set, item.kind, card)
           new == ApplyCardSettings(table, cache, presets, item, card, TRUE)
           k == item.kind
<1>0. k \in Kinds
  BY DEF Item
<1>1. CASE presets[<<item.kind, card>>] = item.path
  <2>1. /\ p \in DOMAIN table /\ card \in table[p].on[k]
        /\ table[p].by[k] = "customised" \/ (table[p].by[k] = "preset" /\ OneHolder(table, k, card))
    BY <1>1 DEF IsSet, Ready
  <2>2. IsSet(table, p, k, card)
    BY <2>1 DEF IsSet
  <2>3. new = IF HasOtherCustomisedForCard(table, cache, item, card) THEN clear ELSE table
    BY <1>1, Zenon DEF ApplyCardSettings, IsPresetTonePath
  <2> HIDE DEF new, clear, set, both
  <2>4. CASE HasOtherCustomisedForCard(table, cache, item, card)
    <3>1. IsCardAlreadyCustomised(table, k, card)
      BY <2>4 DEF HasOtherCustomisedForCard
    <3>2. PICK q \in DOMAIN table : table[q].by[k] = "customised" /\ card \in table[q].on[k]
      BY <3>1 DEF IsCardAlreadyCustomised
    <3>3. table[p].by[k] = "customised"
      BY <2>1, <3>2 DEF OneHolder
    <3>4. IsSet(clear, p, k, card)
      BY <1>0, <2>1, <3>3, ClearBitSet, Zenon DEF clear
    <3> QED
      BY <2>3, <2>4, <3>4, Zenon DEF new
  <2>5. CASE ~HasOtherCustomisedForCard(table, cache, item, card)
    BY <2>2, <2>3, <2>5, Zenon DEF new
  <2> QED
    BY <2>4, <2>5
<1>2. CASE presets[<<item.kind, card>>] # item.path
  <2>1. new \in {set, both}
    BY <1>2, Zenon DEF ApplyCardSettings, IsPresetTonePath
  <2>2. /\ IsTable(set) /\ DOMAIN set = DOMAIN table
        /\ \A q \in DOMAIN table : \A j \in Kinds :
            IF q = item.path /\ j = item.kind
            THEN set[q].on[j] = table[q].on[j] \cup {card} /\ set[q].by[j] = item.by
            ELSE Same(set[q], table[q], j)
    BY ApplyCard
  <2> HIDE DEF new, set
  <2>3. p \in DOMAIN set /\ card \in set[p].on[k] /\ set[p].by[k] = "customised"
    BY <1>0, <2>2
  <2>4. IsSet(set, p, k, card)
    BY <2>3 DEF IsSet
  <2> DEFINE s == set
  <2>5. IsTable(s) /\ p \in DOMAIN s /\ card \in s[p].on[k] /\ s[p].by[k] = "customised"
    BY <2>2, <2>3, Zenon
  <2> HIDE DEF s, k
  <2>6. IsSet(ClearPresetCardBit(s, k, card), p, k, card)
    BY <1>0, <2>5, ClearBitSet
  <2>7. new = set \/ new = ClearPresetCardBit(s, k, card)
    BY <2>1, Zenon DEF s, k
  <2> QED
    BY <2>4, <2>6, <2>7, Zenon DEF new, k
<1> QED
  BY <1>1, <1>2

LEMMA FlushSets ==
    ASSUME NEW table, IsTable(table), NEW cache, NEW presets, NEW step,
           step.item \in Item, step.card \in step.item.cards, step.item.by = "customised",
           step.item.kind \in CardKinds =>
                \A i \in cache : i.kind = step.item.kind /\ step.card \in i.cards => i.path = step.item.path,
           NEW p \in DOMAIN table, NEW k \in Kinds, NEW c \in Slots(k),
           k \in CardKinds /\ k = step.item.kind /\ c = step.card => p = step.item.path
    PROVE  LET new == Flush(table, cache, presets, step, TRUE)
               hit == p = step.item.path /\ k = step.item.kind /\ c = step.card
           IN  /\ IsSet(table, p, k, c) => IsSet(new, p, k, c)
               /\ Ready(table, presets, p, k, c) => IsSet(new, p, k, c) \/ (~hit /\ Ready(new, presets, p, k, c))
<1> DEFINE item == step.item  card == step.card
           set == ApplyCardSetting(table, item, card)
           clear == ClearPresetCardBit(table, item.kind, card)
           both == ClearPresetCardBit(set, item.kind, card)
           new == Flush(table, cache, presets, step, TRUE)
           hit == p = item.path /\ k = item.kind /\ c = card
<1>0. /\ item \in Item /\ card \in item.cards /\ item.kind \in Kinds /\ item.by = "customised"
      /\ item.kind \in CardKinds => \A i \in cache : i.kind = item.kind /\ card \in i.cards => i.path = item.path
      /\ k \in CardKinds /\ k = item.kind /\ c = card => p = item.path
  BY DEF Item
<1>1. CASE item.kind \notin CardKinds
  <2>1. new = ApplyNonCardSetting(table, item, TRUE)
    BY <1>1, Zenon DEF Flush
  <2> HIDE DEF item, card, new
  <2>2. /\ IsSet(table, p, k, c) => IsSet(new, p, k, c)
        /\ Ready(table, presets, p, k, c) => IsSet(new, p, k, c) \/ (~hit /\ Ready(new, presets, p, k, c))
    BY <1>0, <1>1, <2>1, FlushNonCardSets
  <2> QED
    BY <2>2, Zenon DEF new, item, card
<1>2. CASE item.kind \in CardKinds
  <2>1. new = ApplyCardSettings(table, cache, presets, item, card, TRUE)
    BY <1>2, Zenon DEF Flush
  <2>2. new \in {table, set, clear, both}
    BY <2>1, Zenon DEF ApplyCardSettings
  <2> HIDE DEF item, card
  <2>3. CASE k = item.kind /\ c = card
    <3>1. p = item.path
      BY <1>0, <1>2, <2>3
    <3>2. ASSUME IsSet(table, p, k, c) \/ Ready(table, presets, p, k, c)
          PROVE  IsSet(new, p, k, c)
      <4>1. IsSet(table, p, item.kind, card) \/ Ready(table, presets, p, item.kind, card)
        BY <2>3, <3>2, Zenon
      <4>2. IsSet(ApplyCardSettings(table, cache, presets, item, card, TRUE), p, item.kind, card)
        BY <1>0, <1>2, <3>1, <4>1, FlushCardSets
      <4> QED
        BY <2>1, <2>3, <4>2, Zenon
    <3> QED
      BY <3>2, Zenon DEF item, card
  <2>4. CASE k # item.kind \/ c # card
    <3>1. Carries(table, table, k, c)
      BY DEF Carries
    <3>2. Carries(table, set, k, c) /\ IsTable(set)
      <4>1. Carries(table, set, k, c)
        BY <1>0, <2>4, ApplyCardCarries
      <4>2. IsTable(set)
        BY <1>0, ApplyCard
      <4> QED
        BY <4>1, <4>2
    <3>3. Carries(table, clear, k, c)
      BY <1>0, <2>4, ClearBitCarries
    <3>4. Carries(table, both, k, c)
      <4> DEFINE s == set
      <4>1. Carries(table, s, k, c) /\ IsTable(s)
        BY <3>2
      <4> HIDE DEF s
      <4>2. Carries(s, ClearPresetCardBit(s, item.kind, card), k, c)
        BY <1>0, <2>4, <4>1, ClearBitCarries
      <4> DEFINE b == ClearPresetCardBit(s, item.kind, card)
      <4> HIDE DEF b
      <4>3. Carries(table, b, k, c)
        BY <4>1, <4>2, CarriesTwice DEF b
      <4> QED
        BY <4>3, Zenon DEF b, s
    <3> HIDE DEF set, clear, both, new
    <3>5. Carries(table, new, k, c)
      BY <2>2, <3>1, <3>2, <3>3, <3>4
    <3>6. /\ IsSet(table, p, k, c) => IsSet(new, p, k, c)
          /\ Ready(table, presets, p, k, c) => Ready(new, presets, p, k, c)
      BY <3>5, CarriesSet
    <3> QED
      BY <2>4, <3>6, Zenon DEF new, item, card
  <2> QED
    BY <2>3, <2>4
<1> QED
  BY <1>1, <1>2

(* Clearing the presets' bits takes no card from a tone that has it for good. *)
LEMMA ClearPresetsSets ==
    ASSUME NEW table, IsTable(table)
    PROVE  LET new == ClearPresetCardBitsByCustom(table)
           IN  /\ DOMAIN new = DOMAIN table /\ SameTones(table, new)
               /\ \A p \in DOMAIN table : \A k \in Kinds : \A c : IsSet(table, p, k, c) => IsSet(new, p, k, c)
<1> DEFINE on == [p \in DOMAIN table |-> [k \in Kinds |->
                IF k \in CardKinds /\ table[p].by[k] = "preset"
                THEN {c \in table[p].on[k] : ~IsCardAlreadyCustomised(table, k, c)} ELSE table[p].on[k]]]
           by == [p \in DOMAIN table |-> table[p].by]
           new == ClearPresetCardBitsByCustom(table)
<1>1. table \in [DOMAIN table -> Row]
  BY DEF IsTable
<1>2. on \in [DOMAIN table -> CardSets] /\ by \in [DOMAIN table -> [Kinds -> Sources]]
  BY <1>1 DEF Row, CardSets
<1>3. new = [p \in DOMAIN table |-> WithSettings(table[p], on[p], by[p])]
  BY <1>1 DEF Row, WithSettings, ClearPresetCardBitsByCustom
<1>4. ASSUME NEW p \in DOMAIN table, NEW k \in Kinds
      PROVE  /\ by[p][k] = table[p].by[k] /\ on[p][k] \subseteq table[p].on[k]
             /\ \A c \in table[p].on[k] : c \notin on[p][k] =>
                    k \in CardKinds /\ table[p].by[k] = "preset" /\ IsCardAlreadyCustomised(table, k, c)
  OBVIOUS
<1> HIDE DEF on, by, new
<1>5. /\ DOMAIN new = DOMAIN table
      /\ \A p \in DOMAIN table : new[p].on = on[p] /\ new[p].by = by[p] /\ new[p].source = table[p].source
  BY <1>2, <1>3, Resettled
<1>6. \A p \in DOMAIN table : \A k \in Kinds :
        /\ new[p].by[k] = table[p].by[k] /\ new[p].on[k] \subseteq table[p].on[k]
        /\ \A c \in table[p].on[k] : c \notin new[p].on[k] =>
            k \in CardKinds /\ table[p].by[k] = "preset" /\ IsCardAlreadyCustomised(table, k, c)
  BY <1>4, <1>5
<1>7. ASSUME NEW p \in DOMAIN table, NEW k \in Kinds, NEW c, IsSet(table, p, k, c)
      PROVE  IsSet(new, p, k, c)
  <2>1. OneHolder(table, k, c) => OneHolder(new, k, c)
    BY <1>5, <1>6 DEF OneHolder
  <2>2. c \in new[p].on[k]
    <3>1. SUFFICES ASSUME table[p].by[k] = "preset", IsCardAlreadyCustomised(table, k, c), OneHolder(table, k, c)
                   PROVE  FALSE
      BY <1>6, <1>7 DEF IsSet
    <3>2. PICK q \in DOMAIN table : table[q].by[k] = "customised" /\ c \in table[q].on[k]
      BY <3>1 DEF IsCardAlreadyCustomised
    <3> QED
      BY <1>7, <3>1, <3>2 DEF OneHolder, IsSet
  <2> QED
    BY <1>5, <1>6, <1>7, <2>1, <2>2 DEF IsSet
<1>8. SameTones(table, new)
  BY <1>5 DEF SameTones
<1> QED
  BY <1>5, <1>7, <1>8 DEF new

-----------------------------------------------------------------------------
(* A device and a backup that fit: each card has one tone at most on the device, its files    *)
(* have rows, the files of the backup are those of the user's tones, and no preset of the     *)
(* device has the name a tone of the user's is restored to.                                   *)
Fitting ==
    /\ \A k \in Kinds \cap CardKinds : \A c \in SimCards : OneHolder(Own, k, c)
    /\ DOMAIN job.files \subseteq DOMAIN Own
    /\ \A d \in DOMAIN job.backup.files \cap DOMAIN job.backup.rows :
            job.backup.rows[d].source = "customised"
    /\ \A p \in DOMAIN Own : \A d \in DOMAIN job.backup.rows :
        Own[p].source = "preset" /\ IsCopyOf(p, d) =>
            /\ job.backup.rows[d].source = "preset"
            /\ p = d \/ (Relative[p] = Relative[d] /\ Relative[p] # "")

(* A clone in which nothing has failed and nobody has interfered. *)
Quiet == job.scene = "clone" /\ intact /\ changes = 0 /\ Fitting

(* The settings that are to arrive: those of a tone that is there for a card that is free and *)
(* not mute on this device.                                                                   *)
Open(kind, card) == ~IsCardAlreadyCustomised(Own, kind, card) /\ Sounds(Own, kind, card)
There(data) ==
    data \in DOMAIN job.backup.files \/ \E p \in DOMAIN Own : Own[p].source = "preset" /\ IsCopyOf(p, data)
Wanted(data, kind, card) ==
    /\ data \in DOMAIN backup.rows /\ kind \in Kinds
    /\ card \in backup.rows[data].on[kind] /\ backup.rows[data].by[kind] = "customised"
    /\ ~backup.rows[data].video /\ data \notin Unplaced
    /\ There(data) /\ Open(kind, card)

(* The tone of path is data, restored or the preset it stands for. *)
Matches(path, data) ==
    /\ IsCopyOf(path, data)
    /\ data \in DOMAIN job.backup.files => path \in DOMAIN files /\ files[path] = job.backup.files[data]

(* It has a row, or will have one; its setting is in the cache; it is about to be flushed. *)
Landed(path) == path \in DOMAIN rows \/ (phase \in {"insert", "batch"} /\ path \in DOMAIN work.values)
Sent(data, kind, card) ==
    \E path \in Paths : InCache(path, kind, card) /\ Landed(path) /\ Matches(path, data)
Leaving(path, kind, card) ==
    /\ Ready(rows, work.presets, path, kind, card)
    /\ \E step \in work.todo : step.item.path = path /\ step.item.kind = kind /\ step.card = card

(* How far a setting has come in each phase. *)
Way(data, kind, card) ==
    /\ phase \in {"backup", "ready", "started", "noTone", "sims", "query"} =>
            (data \in DOMAIN job.backup.files => data \in DOMAIN backup.files)
    /\ phase \in {"started", "noTone", "sims", "query", "insert", "batch", "finish", "flush"} =>
            Free(rows, kind, card)
    /\ phase \in {"noTone", "sims", "query", "insert"} => <<kind, card>> \notin work.noTone
    /\ phase = "insert" => Sent(data, kind, card) \/ \E x \in DOMAIN work.infos : work.infos[x].data = data
    /\ phase \in {"batch", "finish", "flush"} => Sent(data, kind, card)
    /\ phase = "flushing" => \E path \in Paths :
            /\ Matches(path, data) /\ InCache(path, kind, card)
            /\ IsSet(rows, path, kind, card) \/ Leaving(path, kind, card)
    /\ phase \in {"clear", "sanitize", "ended"} =>
            \E path \in Paths : Matches(path, data) /\ IsSet(rows, path, kind, card)

Ways == \A d \in Paths : \A k \in Kinds : \A c \in AllSlots : Wanted(d, k, c) => Way(d, k, c)

(* The device is as it was found until the presets are scanned; it then only gains tones of   *)
(* the user's, one for each file.                                                             *)
Untouched ==
    /\ phase \in {"backup", "ready"} =>
        /\ rows = job.rows /\ completed = job.completed /\ files = job.files /\ work.values = <<>>
    /\ phase = "backup" => backup = job.backup
    /\ phase = "started" => rows = Own
Enlarged ==
    phase \notin {"backup", "ready"} => SameTones(Own, rows) /\ \A p \in DOMAIN files : Landed(p)

(* What is left of the backup is as it was, and what is made of it is the user's. *)
Brought ==
    /\ \A d \in DOMAIN backup.files :
            d \in DOMAIN job.backup.files /\ backup.files[d] = job.backup.files[d]
    /\ \A d \in DOMAIN backup.rows :
            d \in DOMAIN job.backup.rows /\ backup.rows[d].source = job.backup.rows[d].source
    /\ \A p \in DOMAIN work.values : work.values[p].source = "customised"
    /\ \A x \in DOMAIN work.infos :
        LET data == work.infos[x].data
        IN  /\ data \in DOMAIN backup.rows /\ work.infos[x].source = backup.rows[data].source
            /\ work.infos[x].on = backup.rows[data].on /\ work.infos[x].by = backup.rows[data].by

Arriving == Untouched /\ Enlarged /\ Brought /\ Ways

LEMMA StillWanted ==
    ASSUME job' = job, backup'.rows = backup.rows, NEW d, NEW k, NEW c
    PROVE  Wanted(d, k, c)' = Wanted(d, k, c)
BY DEF Wanted, There, Open, Own

LEMMA WantedTyped ==
    ASSUME IsBackup(backup), NEW d, NEW k, NEW c, Wanted(d, k, c)
    PROVE  d \in Paths /\ k \in Kinds /\ c \in Slots(k) /\ c \in AllSlots
           /\ (k \in CardKinds => c \in SimCards)
<1>1. d \in Paths /\ k \in Kinds /\ backup.rows[d] \in Row /\ c \in backup.rows[d].on[k]
  BY DEF Wanted, IsBackup, IsTable
<1>2. c \in Slots(k)
  BY <1>1 DEF Row, CardSets
<1> QED
  BY <1>1, <1>2 DEF Slots, AllSlots

LEMMA SameTonesTwice ==
    ASSUME NEW s, NEW t, NEW u, SameTones(s, t), SameTones(t, u)
    PROVE  SameTones(s, u)
<1>1. ASSUME NEW p \in DOMAIN s
      PROVE  p \in DOMAIN u /\ u[p].source = s[p].source
  BY <1>1 DEF SameTones
<1>2. ASSUME NEW p \in DOMAIN u \ DOMAIN s
      PROVE  u[p].source = "customised"
  <2>1. CASE p \in DOMAIN t
    BY <1>2, <2>1 DEF SameTones
  <2>2. CASE p \notin DOMAIN t
    BY <1>2, <2>2 DEF SameTones
  <2> QED
    BY <2>1, <2>2
<1> QED
  BY <1>1, <1>2 DEF SameTones

(* A step of a quiet clone comes after a quiet clone. *)
LEMMA QuietBefore ==
    ASSUME TypeInv, [Next]_vars, Quiet'
    PROVE  Quiet /\ job' = job /\ changes' = changes /\ (BaseStep \/ CloneStep \/ UNCHANGED vars)
<1>1. job' = job
  BY DEF Next, Step, BaseStep, CloneStep, DualStep, StartFails, StartRestore, CacheInitialNoRingtoneState,
    EndOfInserts, BatchInsert, OnFinished, BeginFlush, FlushOne, EndFlush, SanitizeVibrateRecords,
    CleanESimData, CheckNotRingtoneRestore, UpdateSettingInfos, CheckRestoreFileInfos, PassOver, PrepareTone,
    ClearPresetCardBits, HandleUpgradeWithESim, ApplyMigration, BuildFileInfo, DupTone, UserCustomises,
    Crash, device, history, vars
<1>2. job.scene = "clone" /\ intact' /\ changes' = 0 /\ changes \in Nat /\ intact \in BOOLEAN
  <2>1. job.scene = "clone" /\ intact' /\ changes' = 0
    BY <1>1 DEF Quiet
  <2>2. MaxChanges \in Nat
    BY RestoreAssumption
  <2>3. changes \in 0 .. MaxChanges /\ intact \in BOOLEAN
    BY DEF TypeInv, TypeOK
  <2> QED
    BY <2>1, <2>2, <2>3
<1>3. Fitting' = Fitting
  BY <1>1 DEF Fitting, Own
<1>4. ~UserCustomises /\ ~Crash
  <2>1. UserCustomises => changes' = changes + 1
    BY Zenon DEF UserCustomises
  <2>2. Crash => intact' = FALSE
    BY Zenon DEF Crash
  <2> QED
    BY <1>2, <2>1, <2>2
<1>5. ~DualStep
  BY <1>2 DEF DualStep, HandleUpgradeWithESim, ApplyMigration, BuildFileInfo, DupTone, TypeInv, Shape
<1>6. CASE BaseStep
  <2>1. intact /\ changes' = changes
    <3>1. CASE StartFails \/ StartRestore \/ BatchInsert
      BY <1>2, <3>1 DEF StartFails, StartRestore, BatchInsert
    <3>2. CASE CacheInitialNoRingtoneState \/ EndOfInserts \/ OnFinished
      BY <1>2, <3>2 DEF CacheInitialNoRingtoneState, EndOfInserts, OnFinished, history
    <3>3. CASE BeginFlush \/ FlushOne \/ EndFlush \/ SanitizeVibrateRecords
      BY <1>2, <3>3 DEF BeginFlush, FlushOne, EndFlush, SanitizeVibrateRecords, history
    <3> QED
      BY <1>6, <3>1, <3>2, <3>3 DEF BaseStep
  <2> QED
    BY <1>1, <1>2, <1>3, <1>6, <2>1 DEF Quiet
<1>7. CASE CloneStep
  <2>1. intact /\ changes' = changes
    BY <1>2, <1>7 DEF CloneStep, CleanESimData, CheckNotRingtoneRestore, UpdateSettingInfos,
        CheckRestoreFileInfos, PassOver, PrepareTone, ClearPresetCardBits, history
  <2> QED
    BY <1>1, <1>2, <1>3, <1>7, <2>1 DEF Quiet
<1>8. CASE UNCHANGED vars
  BY <1>1, <1>2, <1>3, <1>8 DEF vars, Quiet
<1> QED
  BY <1>4, <1>5, <1>6, <1>7, <1>8 DEF Next, Step

LEMMA InitArriving ==
    ASSUME TypeInv, Init
    PROVE  Arriving
<1>1. /\ backup = job.backup /\ rows = job.rows /\ completed = job.completed /\ files = job.files
      /\ work.values = <<>> /\ work.infos = <<>> /\ phase \in {"backup", "ready"}
  BY DEF Init, NoWork
<1>2. Untouched /\ Enlarged
  BY <1>1 DEF Untouched, Enlarged
<1>3. Brought
  BY <1>1 DEF Brought
<1>4. Ways
  BY <1>1 DEF Ways, Way
<1> QED
  BY <1>2, <1>3, <1>4 DEF Arriving

-----------------------------------------------------------------------------
(* The backup may lose tones with their files. *)
LEMMA CleanedFiles ==
    ASSUME IsBackup(backup), CleanESimData
    PROVE  /\ \A d \in DOMAIN backup'.rows :
                d \in DOMAIN backup.rows /\ backup'.rows[d].source = backup.rows[d].source
           /\ \A d \in DOMAIN backup'.files : d \in DOMAIN backup.files /\ backup'.files[d] = backup.files[d]
           /\ \A d \in DOMAIN backup.files : d \in DOMAIN backup'.rows => d \in DOMAIN backup'.files
<1>1. CASE backup' = backup
  BY <1>1, CleanedBackup DEF Lessened
<1>2. CASE backup' # backup
  <2>1. PICK peerSlotNum \in 1 .. 2 :
            LET table == ClearESimSlotBits(backup.rows, peerSlotNum)
                unused == {p \in DOMAIN table : IsUnusedCustom(table[p])}
            IN  backup' = [backup EXCEPT
                    !.rows = [p \in DOMAIN table \ unused |-> table[p]],
                    !.files = [p \in DOMAIN backup.files \ unused |-> backup.files[p]],
                    !.sims = [k \in {k \in DOMAIN backup.sims : k[1] \in {"SIM1", "SIM2", "device"}} |->
                                backup.sims[k]]]
    BY <1>2 DEF CleanESimData
  <2> DEFINE old == backup.rows
             peers == {CardOrder[i] : i \in 1 .. peerSlotNum}
             kept(p, k) == IF k \in CardKinds THEN old[p].on[k] \cap peers ELSE old[p].on[k]
             on == [p \in DOMAIN old |-> [k \in Kinds |-> kept(p, k)]]
             by == [p \in DOMAIN old |-> [k \in Kinds |->
                    IF k \in CardKinds /\ kept(p, k) = {} /\ old[p].by[k] \in {"preset", "customised"}
                    THEN "invalid" ELSE old[p].by[k]]]
             table == ClearESimSlotBits(old, peerSlotNum)
             unused == {p \in DOMAIN table : IsUnusedCustom(table[p])}
             some == {k \in DOMAIN backup.sims : k[1] \in {"SIM1", "SIM2", "device"}}
             r == [p \in DOMAIN table \ unused |-> table[p]]
             f == [p \in DOMAIN backup.files \ unused |-> backup.files[p]]
             s == [k \in some |-> backup.sims[k]]
  <2>2. IsTable(old) /\ old \in [DOMAIN old -> Row]
    BY DEF IsBackup, IsTable
  <2>3. on \in [DOMAIN old -> CardSets] /\ by \in [DOMAIN old -> [Kinds -> Sources]]
    BY <2>2 DEF Row, CardSets, Sources
  <2>4. table = [p \in DOMAIN old |-> WithSettings(old[p], on[p], by[p])]
    BY Zenon DEF ClearESimSlotBits, WithSettings
  <2>5. backup'.rows = r /\ backup'.files = f
    <3>1. backup' = [backup EXCEPT !.rows = r, !.files = f, !.sims = s]
      BY <2>1, Zenon
    <3>2. backup = [rows |-> backup.rows, files |-> backup.files, sims |-> backup.sims, there |-> backup.there]
      BY DEF IsBackup
    <3> HIDE DEF r, f, s
    <3> QED
      BY <3>1, <3>2
  <2> HIDE DEF old, on, by
  <2>6. DOMAIN table = DOMAIN old /\ \A p \in DOMAIN old : table[p].source = old[p].source
    BY <2>2, <2>3, <2>4, Resettled
  <2> HIDE DEF table, unused
  <2> QED
    BY <2>5, <2>6 DEF old
<1> QED
  BY <1>1, <1>2

LEMMA CleanArrives ==
    ASSUME TypeInv, Arriving, Quiet, job' = job, CleanESimData
    PROVE  Arriving'
<1>1. /\ UNCHANGED <<rows, completed, files, work>> /\ phase = "backup" /\ phase' = "ready"
  BY DEF CleanESimData, device
<1>2. IsBackup(backup)
  BY DEF TypeInv, TypeOK
<1>3. /\ \A d \in DOMAIN backup'.rows :
            d \in DOMAIN backup.rows /\ backup'.rows[d].source = backup.rows[d].source
      /\ \A d \in DOMAIN backup'.files : d \in DOMAIN backup.files /\ backup'.files[d] = backup.files[d]
      /\ \A d \in DOMAIN backup.files : d \in DOMAIN backup'.rows => d \in DOMAIN backup'.files
  BY <1>2, CleanedFiles
<1>4. work.infos = <<>> /\ backup = job.backup /\ rows = job.rows /\ completed = job.completed
      /\ files = job.files /\ work.values = <<>>
  BY <1>1 DEF TypeInv, Shape, Arriving, Untouched
<1>5. Untouched' /\ Enlarged'
  BY <1>1, <1>4 DEF Untouched, Enlarged
<1>6. Brought'
  <2>1. DOMAIN work'.infos = {} /\ DOMAIN work'.values = {}
    BY <1>1, <1>4
  <2>2. Brought
    BY DEF Arriving
  <2> QED
    BY <1>3, <2>1, <2>2 DEF Brought
<1>7. ASSUME NEW d, NEW k, NEW c, Wanted(d, k, c)'
      PROVE  Way(d, k, c)'
  <2>1. d \in DOMAIN backup'.rows
    BY <1>7 DEF Wanted
  <2>2. d \in DOMAIN job'.backup.files => d \in DOMAIN backup'.files
    BY <1>3, <1>4, <2>1
  <2> QED
    BY <1>1, <2>2 DEF Way
<1>8. Ways'
  BY <1>7 DEF Ways
<1> QED
  BY <1>5, <1>6, <1>8 DEF Arriving

(* A step that leaves the backup alone: what remains to be shown. *)
LEMMA ArrivingStays ==
    ASSUME TypeInv, Arriving, job' = job, backup' = backup, Untouched', Enlarged',
           \A p \in DOMAIN work'.values : p \in DOMAIN work.values /\ work'.values[p] = work.values[p],
           \A x \in DOMAIN work'.infos : x \in DOMAIN work.infos /\ work'.infos[x] = work.infos[x],
           \A d \in Paths : \A k \in Kinds : \A c \in AllSlots :
                Wanted(d, k, c) /\ Way(d, k, c) => Way(d, k, c)'
    PROVE  Arriving'
<1>1. Brought'
  BY DEF Arriving, Brought
<1>2. ASSUME NEW d \in Paths, NEW k \in Kinds, NEW c \in AllSlots, Wanted(d, k, c)'
      PROVE  Way(d, k, c)'
  <2>1. Wanted(d, k, c)
    BY <1>2, StillWanted
  <2>2. Way(d, k, c)
    BY <2>1 DEF Arriving, Ways
  <2> QED
    BY <2>1, <2>2
<1>3. Ways'
  BY <1>2 DEF Ways
<1> QED
  BY <1>1, <1>3 DEF Arriving

LEMMA StartArrives ==
    ASSUME TypeInv, Arriving, Quiet, Quiet', job' = job, StartRestore
    PROVE  Arriving'
<1>1. /\ UNCHANGED <<backup, files, work>> /\ phase = "ready" /\ phase' = "started" /\ completed \in BOOLEAN
  BY DEF StartRestore, TypeInv, TypeOK
<1>2. PICK scanned \in BOOLEAN :
        /\ completed => ~scanned
        /\ rows' = IF scanned THEN Merge(rows, job.factory) ELSE rows
        /\ intact' = (intact /\ (completed \/ scanned))
  BY Zenon DEF StartRestore
<1>3. rows = job.rows /\ completed = job.completed /\ files = job.files /\ work.values = <<>>
  BY <1>1 DEF Arriving, Untouched
<1>4. rows' = Own
  BY <1>2, <1>3 DEF Quiet, Own
<1>5. Own' = Own
  BY DEF Own
<1>6. Untouched'
  BY <1>1, <1>4, <1>5 DEF Untouched
<1>7. Enlarged'
  <2>1. SameTones(Own, Own)
    BY SameFewer
  <2>2. SameTones(Own, rows)'
    BY <1>4, <1>5, <2>1, Zenon
  <2>3. \A p \in DOMAIN files' : p \in DOMAIN rows'
    BY <1>1, <1>3, <1>4 DEF Quiet, Fitting
  <2> QED
    BY <2>2, <2>3 DEF Enlarged, Landed
<1>8. ASSUME NEW d \in Paths, NEW k \in Kinds, NEW c \in AllSlots, Wanted(d, k, c), Way(d, k, c)
      PROVE  Way(d, k, c)'
  <2>1. k \in CardKinds => c \in SimCards
    BY <1>8, WantedTyped DEF TypeInv, TypeOK
  <2>2. Free(Own, k, c)
    BY <1>8, <2>1 DEF Wanted, Open, Free, Quiet, Fitting
  <2>3. Free(rows', k, c)
    BY <1>4, <2>2, Zenon
  <2> QED
    BY <1>1, <1>8, <2>3 DEF Way
<1> QED
  BY <1>1, <1>6, <1>7, <1>8, ArrivingStays

LEMMA NoToneArrives ==
    ASSUME TypeInv, Arriving, Quiet, job' = job, CacheInitialNoRingtoneState
    PROVE  Arriving'
<1>1. /\ UNCHANGED <<backup, completed, rows, files>> /\ phase = "started" /\ phase' = "noTone"
  BY DEF CacheInitialNoRingtoneState, device, Quiet
<1>2. /\ work'.values = work.values /\ work'.infos = work.infos
      /\ \A k, c : <<k, c>> \in work'.noTone => IsDetermineNoRingtone(rows, k, c)
  <2> DEFINE none == {s \in Kinds \X AllSlots : s[2] \in Slots(s[1]) /\ IsDetermineNoRingtone(rows, s[1], s[2])}
  <2>1. work' = [work EXCEPT !.noTone = none]
    BY Zenon DEF CacheInitialNoRingtoneState
  <2>2. \A k, c : <<k, c>> \in none => IsDetermineNoRingtone(rows, k, c)
    BY Zenon
  <2>3. work = [noTone |-> work.noTone, steps |-> work.steps, infos |-> work.infos, values |-> work.values,
                cache |-> work.cache, presets |-> work.presets, todo |-> work.todo]
    BY DEF TypeInv, TypeOK, IsWork
  <2> HIDE DEF none
  <2>4. work'.values = work.values /\ work'.infos = work.infos /\ work'.noTone = none
    BY <2>1, <2>3
  <2> QED
    BY <2>2, <2>4
<1>3. rows = Own
  BY <1>1 DEF Arriving, Untouched
<1>4. Untouched' /\ Enlarged'
  BY <1>1 DEF Untouched, Arriving, Enlarged, Landed, Own
<1>5. ASSUME NEW d \in Paths, NEW k \in Kinds, NEW c \in AllSlots, Wanted(d, k, c), Way(d, k, c)
      PROVE  Way(d, k, c)'
  <2>1. <<k, c>> \notin work'.noTone
    BY <1>2, <1>3, <1>5 DEF Wanted, Open, Sounds
  <2> QED
    BY <1>1, <1>5, <2>1 DEF Way
<1> QED
  BY <1>1, <1>2, <1>4, <1>5, ArrivingStays

LEMMA MutedArrives ==
    ASSUME TypeInv, Arriving, Quiet, job' = job, CheckNotRingtoneRestore
    PROVE  Arriving'
<1>1. /\ UNCHANGED <<backup, completed, files, work>> /\ phase = "noTone" /\ phase' = "sims" /\ IsTable(rows)
  BY DEF CheckNotRingtoneRestore, TypeInv, TypeOK
<1>2. Fewer(rows, rows') /\ SameTones(rows, rows')
  BY <1>1, MutedFewer
<1>3. Untouched'
  BY <1>1 DEF Untouched
<1>4. Enlarged'
  <2>1. Own' = Own /\ SameTones(Own, rows) /\ \A p \in DOMAIN files : p \in DOMAIN rows
    BY <1>1 DEF Own, Arriving, Enlarged, Landed
  <2>2. SameTones(Own', rows')
    BY <1>2, <2>1, SameTonesTwice
  <2>3. \A p \in DOMAIN files' : p \in DOMAIN rows'
    BY <1>1, <1>2, <2>1 DEF SameTones
  <2> QED
    BY <2>2, <2>3 DEF Enlarged, Landed
<1>5. ASSUME NEW d \in Paths, NEW k \in Kinds, NEW c \in AllSlots, Wanted(d, k, c), Way(d, k, c)
      PROVE  Way(d, k, c)'
  <2>1. Free(rows, k, c)
    BY <1>1, <1>5 DEF Way
  <2>2. Free(rows', k, c)
    BY <1>2, <2>1, FewerFree
  <2> QED
    BY <1>1, <1>5, <2>2 DEF Way
<1> QED
  BY <1>1, <1>3, <1>4, <1>5, ArrivingStays

(* Steps that change neither the table nor what is to be flushed. *)
LEMMA IdleArrives ==
    ASSUME TypeInv, Arriving, Quiet, Quiet', job' = job,
           StartFails \/ UpdateSettingInfos \/ SanitizeVibrateRecords \/ UNCHANGED vars
    PROVE  Arriving'
<1>1. ~StartFails
  BY DEF StartFails, Quiet
<1>2. UNCHANGED <<backup, completed, rows, files, work>>
  BY <1>1 DEF UpdateSettingInfos, SanitizeVibrateRecords, vars
<1>3. \/ phase = "sims" /\ phase' = "query"
      \/ phase = "sanitize" /\ phase' = "ended"
      \/ phase' = phase
  BY <1>1 DEF UpdateSettingInfos, SanitizeVibrateRecords, vars
<1>4. Untouched' /\ Enlarged'
  BY <1>2, <1>3 DEF Untouched, Arriving, Enlarged, Landed, Own
<1>5. ASSUME NEW d \in Paths, NEW k \in Kinds, NEW c \in AllSlots, Wanted(d, k, c), Way(d, k, c)
      PROVE  Way(d, k, c)'
  BY <1>2, <1>3, <1>5 DEF Way, Sent, Landed, Matches, InCache, Leaving
<1> QED
  BY <1>2, <1>4, <1>5, ArrivingStays

-----------------------------------------------------------------------------
(* What is committed is in the cache, and what was there stays. *)
Held(cache, path, kind, card) == \E i \in cache : i.path = path /\ i.kind = kind /\ card \in i.cards

LEMMA HeldInCache ==
    ASSUME NEW p, NEW k, NEW c
    PROVE  InCache(p, k, c) <=> Held(work.cache, p, k, c)
BY DEF InCache, Held

LEMMA CommitsHeld ==
    ASSUME NEW cache, NEW items, AreSettings(cache), \A i \in items : i \in Item,
           NEW p, NEW k, NEW c,
           Held(cache, p, k, c) \/ Held({i \in items : ValidSetting(i)}, p, k, c)
    PROVE  Held(CommitSettings(cache, items), p, k, c)
<1> DEFINE all == cache \cup {i \in items : ValidSetting(i)}
           like(i) == {j \in all : j.path = i.path /\ j.kind = i.kind /\ j.by = i.by}
           merged(i) == [i EXCEPT !.cards = UNION {j.cards : j \in like(i)}]
<1>1. CommitSettings(cache, items) = {merged(i) : i \in all}
  BY DEF CommitSettings
<1>2. PICK i \in all : i.path = p /\ i.kind = k /\ c \in i.cards
  BY DEF Held
<1>3. i \in Item /\ i \in like(i)
  BY <1>2 DEF AreSettings
<1> DEFINE C == UNION {j.cards : j \in like(i)}
<1>4. c \in C
  BY <1>2, <1>3
<1>5. merged(i) = [i EXCEPT !.cards = C]
  OBVIOUS
<1>6. merged(i) \in CommitSettings(cache, items)
  BY <1>1, <1>2, Zenon
<1> HIDE DEF C, merged, all, like
<1>7. merged(i).path = p /\ merged(i).kind = k /\ c \in merged(i).cards
  BY <1>2, <1>3, <1>4, <1>5 DEF Item
<1> QED
  BY <1>6, <1>7 DEF Held

(* The setting of a tone the user chose becomes an item, if the card is free. *)
LEMMA InfoCommits ==
    ASSUME NEW info \in Info, info.path \in Paths, NEW k \in Kinds, info.by[k] = "customised",
           NEW c \in info.on[k], ~IsCardAlreadyCustomised(rows, k, c), <<k, c>> \notin work.noTone
    PROVE  Held({i \in Commits(info) : ValidSetting(i)}, info.path, k, c)
<1> DEFINE C == {a \in info.on[k] : NeedCommit(k, a)}
           i == [path |-> info.path, kind |-> k, by |-> "customised", cards |-> C]
<1>1. i \in Commits(info)
  BY DEF Commits
<1>2. c \in C /\ C \subseteq Slots(k)
  BY DEF NeedCommit, Info, CardSets
<1>3. k \notin CardKinds => C = {"device"}
  BY <1>2 DEF Slots
<1> HIDE DEF C
<1>4. ValidSetting(i) /\ i.path = info.path /\ i.kind = k /\ c \in i.cards
  BY <1>2, <1>3 DEF ValidSetting
<1> HIDE DEF i
<1> QED
  BY <1>1, <1>4 DEF Held

(* A preset of the backup has its counterpart on this device. *)
LEMMA CounterpartFound ==
    ASSUME TypeInv, Arriving, Quiet, phase = "query", NEW d, NEW k, NEW c, Wanted(d, k, c), Way(d, k, c),
           d \notin DOMAIN backup.files
    PROVE  /\ backup.rows[d].source = "preset" /\ LocalPath(d) \in DOMAIN rows
           /\ Matches(LocalPath(d), d)
<1>1. d \notin DOMAIN job.backup.files /\ There(d) /\ d \in DOMAIN backup.rows
  BY DEF Way, Wanted
<1>2. PICK p \in DOMAIN Own : Own[p].source = "preset" /\ IsCopyOf(p, d)
  BY <1>1 DEF There
<1>3. d \in DOMAIN job.backup.rows /\ backup.rows[d].source = job.backup.rows[d].source
  BY <1>1 DEF Arriving, Brought
<1>4. /\ job.backup.rows[d].source = "preset"
      /\ p = d \/ (Relative[p] = Relative[d] /\ Relative[p] # "")
  BY <1>2, <1>3 DEF Quiet, Fitting
<1>5. p \in DOMAIN rows /\ rows[p].source = "preset" /\ \A q \in DOMAIN files : q \in DOMAIN rows
  BY <1>2 DEF Arriving, Enlarged, SameTones, Landed
<1> DEFINE twins == {q \in DOMAIN rows : /\ rows[q].source = "preset"
                                         /\ Relative[q] = Relative[d] /\ Relative[q] # ""}
<1>6. LocalPath(d) = IF d \in DOMAIN files \/ twins = {} THEN d ELSE CHOOSE q \in twins : TRUE
  BY Zenon DEF LocalPath
<1>7. LocalPath(d) \in DOMAIN rows
  <2>1. CASE d \in DOMAIN files
    BY <1>5, <1>6, <2>1, Zenon
  <2>2. CASE d \notin DOMAIN files /\ twins = {}
    <3>1. p = d
      BY <1>4, <1>5, <2>2
    <3> QED
      BY <1>5, <1>6, <2>2, <3>1, Zenon
  <2>3. CASE d \notin DOMAIN files /\ twins # {}
    <3>1. LocalPath(d) = CHOOSE q \in twins : TRUE
      BY <1>6, <2>3, Zenon
    <3>2. LocalPath(d) \in twins
      BY <2>3, <3>1
    <3> QED
      BY <3>2
  <2> QED
    BY <2>1, <2>2, <2>3
<1>8. d \in Paths
  BY <1>1 DEF TypeInv, TypeOK, IsBackup, IsTable
<1>9. IsCopyOf(LocalPath(d), d)
  BY <1>8, LocalPathIsCopy
<1>10. Matches(LocalPath(d), d)
  <2> DEFINE q == LocalPath(d)
  <2>1. IsCopyOf(q, d)
    BY <1>9
  <2> HIDE DEF q
  <2>2. Matches(q, d)
    BY <1>1, <2>1 DEF Matches
  <2> QED
    BY <2>2, Zenon DEF q
<1> QED
  BY <1>3, <1>4, <1>7, <1>10

(* The query: what is in the backup becomes a tone to restore, and the settings of the others *)
(* are committed.                                                                            *)
LEMMA QueryParts ==
    ASSUME TypeInv, CheckRestoreFileInfos
    PROVE  /\ Fewer(rows, rows') /\ SameTones(rows, rows') /\ DOMAIN rows' = DOMAIN rows
           /\ work'.values = work.values /\ work'.noTone = work.noTone
           /\ \E kept \in RestoredSets :
                /\ phase' = IF kept # {} THEN "insert" ELSE "flush"
                /\ \A x \in DOMAIN work'.infos :
                    LET data == work'.infos[x].data
                    IN  /\ data \in kept /\ work'.infos[x].source = backup.rows[data].source
                        /\ work'.infos[x].on = backup.rows[data].on /\ work'.infos[x].by = backup.rows[data].by
                /\ \A d \in kept : \E x \in DOMAIN work'.infos : work'.infos[x].data = d
                /\ \A d \in DOMAIN backup.rows \ kept : backup.rows[d].source = "preset" =>
                    \A k \in Kinds : \A c \in backup.rows[d].on[k] :
                        /\ backup.rows[d].by[k] = "customised"
                        /\ ~IsCardAlreadyCustomised(rows, k, c) /\ <<k, c>> \notin work.noTone
                        => Held(work'.cache, LocalPath(d), k, c)
<1> DEFINE left(kept) == {p \in DOMAIN backup.rows \ kept : backup.rows[p].source = "preset"}
           P(kept) == {FileInfo(p, LocalPath(p)) : p \in left(kept)}
           items(kept) == UNION {Commits(i) : i \in P(kept)}
<1>2. PICK kept \in RestoredSets : \E order \in [1 .. Cardinality(kept) -> kept] :
        /\ \A p \in kept : \E i \in DOMAIN order : order[i] = p
        /\ work' = [work EXCEPT !.infos = [i \in DOMAIN order |-> FileInfo(order[i], "")],
                                !.cache = CommitSettings(work.cache, items(kept))]
        /\ phase' = IF kept # {} THEN "insert" ELSE "flush"
        /\ rows' = [p \in DOMAIN rows |->
                    LET same == {i \in P(kept) : i.path = p}
                    IN  IF same = {} THEN rows[p]
                        ELSE ClearLocalDBTypeSetting(rows, CHOOSE i \in same : TRUE)[p]]
  BY Zenon DEF CheckRestoreFileInfos
<1>3. PICK order \in [1 .. Cardinality(kept) -> kept] :
        /\ \A p \in kept : \E i \in DOMAIN order : order[i] = p
        /\ work' = [work EXCEPT !.infos = [i \in DOMAIN order |-> FileInfo(order[i], "")],
                                !.cache = CommitSettings(work.cache, items(kept))]
        /\ phase' = IF kept # {} THEN "insert" ELSE "flush"
        /\ rows' = [p \in DOMAIN rows |->
                    LET same == {i \in P(kept) : i.path = p}
                    IN  IF same = {} THEN rows[p]
                        ELSE ClearLocalDBTypeSetting(rows, CHOOSE i \in same : TRUE)[p]]
  BY <1>2, Zenon
<1>4. Fewer(rows, rows') /\ SameTones(rows, rows') /\ DOMAIN rows' = DOMAIN rows
  <2> DEFINE Q == P(kept)
  <2>1. rows' = [p \in DOMAIN rows |->
                    LET same == {i \in Q : i.path = p}
                    IN  IF same = {} THEN rows[p]
                        ELSE ClearLocalDBTypeSetting(rows, CHOOSE i \in same : TRUE)[p]]
    BY <1>3, Zenon
  <2> HIDE DEF Q
  <2>2. IsTable(rows)
    BY DEF TypeInv, TypeOK
  <2>3. DOMAIN rows' = DOMAIN rows
    BY <2>1
  <2> QED
    BY <2>1, <2>2, <2>3, ClearedRowsFewer
<1>5. kept \subseteq DOMAIN backup.rows
  BY RestoredFiles
<1>6. IsBackup(backup) /\ IsCache(work.cache) /\ IsWork(work)
  BY DEF TypeInv, TypeOK, IsWork, IsCache
<1> DEFINE infos == [i \in DOMAIN order |-> FileInfo(order[i], "")]
           new == items(kept)
           cache == CommitSettings(work.cache, new)
<1>7. work'.infos = infos /\ work'.cache = cache /\ work'.values = work.values /\ work'.noTone = work.noTone
  <2>1. work' = [work EXCEPT !.infos = infos, !.cache = cache]
    BY <1>3, Zenon
  <2>2. work = [noTone |-> work.noTone, steps |-> work.steps, infos |-> work.infos, values |-> work.values,
                cache |-> work.cache, presets |-> work.presets, todo |-> work.todo]
    BY <1>6 DEF IsWork
  <2> HIDE DEF infos, cache
  <2> QED
    BY <2>1, <2>2
<1>8. \A x \in DOMAIN infos :
        /\ x \in DOMAIN order /\ infos[x].data = order[x] /\ order[x] \in kept
        /\ infos[x].source = backup.rows[order[x]].source
        /\ infos[x].on = backup.rows[order[x]].on /\ infos[x].by = backup.rows[order[x]].by
  BY DEF FileInfo
<1>9. DOMAIN infos = DOMAIN order
  OBVIOUS
<1>10. \A i \in new : i \in Item
  <2> SUFFICES ASSUME NEW i \in new
               PROVE  i \in Item
    OBVIOUS
  <2>1. PICK d \in DOMAIN backup.rows \ kept : i \in Commits(FileInfo(d, LocalPath(d)))
    OBVIOUS
  <2> DEFINE path == LocalPath(d)  info == FileInfo(d, path)
  <2>2. path \in Paths
    BY <1>6, LocalPathIsCopy DEF IsBackup, IsTable
  <2> HIDE DEF path
  <2>3. info \in Info /\ info.path = path
    BY <1>6, <2>2, InfoOfFile
  <2>4. i \in Commits(info)
    BY <2>1, Zenon DEF path
  <2> HIDE DEF info
  <2> QED
    BY <2>2, <2>3, <2>4, ItemsOfInfo
<1>11. ASSUME NEW d \in DOMAIN backup.rows \ kept, backup.rows[d].source = "preset",
              NEW k \in Kinds, NEW c \in backup.rows[d].on[k], backup.rows[d].by[k] = "customised",
              ~IsCardAlreadyCustomised(rows, k, c), <<k, c>> \notin work.noTone
       PROVE  Held(cache, LocalPath(d), k, c)
  <2> DEFINE path == LocalPath(d)  info == FileInfo(d, path)
  <2>1. path \in Paths
    BY <1>6, LocalPathIsCopy DEF IsBackup, IsTable
  <2>2. Commits(info) \subseteq new
    <3>1. d \in left(kept)
      BY <1>11
    <3>2. info \in P(kept)
      BY <3>1, Zenon
    <3> HIDE DEF P, info
    <3> QED
      BY <3>2
  <2> HIDE DEF path
  <2>3. info \in Info /\ info.path = path /\ info.on = backup.rows[d].on /\ info.by = backup.rows[d].by
    BY <1>6, <2>1, InfoOfFile
  <2> HIDE DEF info, new
  <2>4. Held({i \in Commits(info) : ValidSetting(i)}, info.path, k, c)
    BY <1>11, <2>1, <2>3, InfoCommits
  <2>5. Held({i \in new : ValidSetting(i)}, path, k, c)
    BY <2>2, <2>3, <2>4 DEF Held
  <2>6. AreSettings(work.cache)
    BY <1>6 DEF AreSettings, IsCache
  <2>7. Held(CommitSettings(work.cache, new), path, k, c)
    BY <1>10, <2>5, <2>6, CommitsHeld
  <2> QED
    BY <2>7, Zenon DEF path
<1> HIDE DEF infos, cache, items, P, left
<1>12. \A x \in DOMAIN work'.infos :
            LET data == work'.infos[x].data
            IN  /\ data \in kept /\ work'.infos[x].source = backup.rows[data].source
                /\ work'.infos[x].on = backup.rows[data].on /\ work'.infos[x].by = backup.rows[data].by
  BY <1>7, <1>8
<1>13. ASSUME NEW d \in kept
       PROVE  \E x \in DOMAIN work'.infos : work'.infos[x].data = d
  <2>1. PICK x \in DOMAIN order : order[x] = d
    BY <1>3, Zenon
  <2>2. x \in DOMAIN infos /\ infos[x].data = d
    BY <1>8, <1>9, <2>1
  <2> QED
    BY <1>7, <2>2, Zenon
<1>14. \A d \in DOMAIN backup.rows \ kept : backup.rows[d].source = "preset" =>
            \A k \in Kinds : \A c \in backup.rows[d].on[k] :
                /\ backup.rows[d].by[k] = "customised"
                /\ ~IsCardAlreadyCustomised(rows, k, c) /\ <<k, c>> \notin work.noTone
                => Held(work'.cache, LocalPath(d), k, c)
  BY <1>7, <1>11, Zenon
<1> QED
  BY <1>3, <1>4, <1>7, <1>12, <1>13, <1>14, Zenon

LEMMA QueryArrives ==
    ASSUME TypeInv, TypeInv', Arriving, Quiet, job' = job, CheckRestoreFileInfos
    PROVE  Arriving'
<1>1. UNCHANGED <<backup, completed, files>> /\ phase = "query"
  BY DEF CheckRestoreFileInfos
<1>2. /\ Fewer(rows, rows') /\ SameTones(rows, rows') /\ DOMAIN rows' = DOMAIN rows
      /\ work'.values = work.values /\ work'.noTone = work.noTone
  BY QueryParts, Zenon
<1>3. PICK kept \in RestoredSets :
        /\ phase' = IF kept # {} THEN "insert" ELSE "flush"
        /\ \A x \in DOMAIN work'.infos :
            LET data == work'.infos[x].data
            IN  /\ data \in kept /\ work'.infos[x].source = backup.rows[data].source
                /\ work'.infos[x].on = backup.rows[data].on /\ work'.infos[x].by = backup.rows[data].by
        /\ \A d \in kept : \E x \in DOMAIN work'.infos : work'.infos[x].data = d
        /\ \A d \in DOMAIN backup.rows \ kept : backup.rows[d].source = "preset" =>
            \A k \in Kinds : \A c \in backup.rows[d].on[k] :
                /\ backup.rows[d].by[k] = "customised"
                /\ ~IsCardAlreadyCustomised(rows, k, c) /\ <<k, c>> \notin work.noTone
                => Held(work'.cache, LocalPath(d), k, c)
  BY QueryParts, Zenon
<1>4. /\ kept \subseteq DOMAIN backup.rows /\ kept \subseteq DOMAIN backup.files
      /\ \A d \in DOMAIN backup.rows \cap DOMAIN backup.files : ~backup.rows[d].video => d \in kept
  BY RestoredFiles
<1>5. phase' \in {"insert", "flush"}
  BY <1>3
<1>6. Untouched'
  BY <1>5 DEF Untouched
<1>7. Enlarged'
  <2>1. Own' = Own /\ SameTones(Own, rows) /\ \A p \in DOMAIN files : p \in DOMAIN rows
    BY <1>1 DEF Own, Arriving, Enlarged, Landed
  <2>2. SameTones(Own', rows')
    BY <1>2, <2>1, SameTonesTwice
  <2> QED
    BY <1>1, <1>2, <2>1, <2>2 DEF Enlarged, Landed
<1>8. Brought'
  <2>1. \A x \in DOMAIN work'.infos :
            LET data == work'.infos[x].data
            IN  /\ data \in DOMAIN backup.rows /\ work'.infos[x].source = backup.rows[data].source
                /\ work'.infos[x].on = backup.rows[data].on /\ work'.infos[x].by = backup.rows[data].by
    BY <1>3, <1>4
  <2> QED
    BY <1>1, <1>2, <2>1 DEF Arriving, Brought
<1>9. ASSUME NEW d \in Paths, NEW k \in Kinds, NEW c \in AllSlots, Wanted(d, k, c)'
      PROVE  Way(d, k, c)'
  <2>1. Wanted(d, k, c)
    BY <1>1, <1>9, StillWanted
  <2>2. Way(d, k, c)
    BY <2>1 DEF Arriving, Ways
  <2>3. Free(rows, k, c) /\ <<k, c>> \notin work.noTone
    BY <1>1, <2>2 DEF Way
  <2>4. Free(rows', k, c)
    BY <1>2, <2>3, FewerFree
  <2>5. CASE d \in DOMAIN backup.files
    <3>1. d \in kept
      BY <1>4, <2>1, <2>5 DEF Wanted
    <3>2. phase' = "insert" /\ \E x \in DOMAIN work'.infos : work'.infos[x].data = d
      BY <1>3, <3>1
    <3> QED
      BY <1>2, <2>3, <2>4, <3>2 DEF Way
  <2>6. CASE d \notin DOMAIN backup.files
    <3>0. PICK path : path = LocalPath(d)
      OBVIOUS
    <3>1. backup.rows[d].source = "preset" /\ path \in DOMAIN rows /\ Matches(path, d)
      <4>1. /\ backup.rows[d].source = "preset" /\ LocalPath(d) \in DOMAIN rows
            /\ Matches(LocalPath(d), d)
        BY <1>1, <2>1, <2>2, <2>6, CounterpartFound
      <4> QED
        BY <3>0, <4>1, Zenon
    <3>2. /\ d \in DOMAIN backup.rows \ kept /\ c \in backup.rows[d].on[k] /\ backup.rows[d].by[k] = "customised"
          /\ ~IsCardAlreadyCustomised(rows, k, c)
      BY <1>4, <2>1, <2>3, <2>6 DEF Wanted, Free
    <3>3. Held(work'.cache, path, k, c)
      BY <1>3, <2>3, <3>0, <3>1, <3>2, Zenon
    <3>4. path \in Paths
      BY <1>2, <3>1 DEF TypeInv, TypeOK, IsTable
    <3>5. Matches(path, d)' /\ Landed(path)' /\ InCache(path, k, c)'
      BY <1>1, <1>2, <3>1, <3>3 DEF Matches, Landed, InCache, Held
    <3>6. Sent(d, k, c)'
      BY <3>4, <3>5, Zenon DEF Sent
    <3> QED
      BY <1>2, <1>5, <2>3, <2>4, <3>6 DEF Way
  <2> QED
    BY <2>5, <2>6
<1>10. Ways'
  BY <1>9 DEF Ways
<1> QED
  BY <1>6, <1>7, <1>8, <1>10 DEF Arriving

LEMMA WorkTaken ==
    ASSUME NEW w, NEW t, NEW c,
           w = [noTone |-> w.noTone, steps |-> w.steps, infos |-> w.infos, values |-> w.values,
                cache |-> w.cache, presets |-> w.presets, todo |-> w.todo]
    PROVE  LET new == [w EXCEPT !.infos = t, !.cache = c]
           IN  /\ new.cache = c /\ new.noTone = w.noTone /\ new.values = w.values
               /\ \A v : [new EXCEPT !.values = v].cache = c /\ [new EXCEPT !.values = v].noTone = w.noTone
                        /\ [new EXCEPT !.values = v].values = v
<1> DEFINE one == [w EXCEPT !.infos = t]
           new == [w EXCEPT !.infos = t, !.cache = c]
<1>1. new = [one EXCEPT !.cache = c]
  OBVIOUS
<1>2. /\ one.noTone = w.noTone /\ one.values = w.values
      /\ DOMAIN one = {"noTone", "steps", "infos", "values", "cache", "presets", "todo"}
  OBVIOUS
<1> HIDE DEF one, new
<1>3. /\ new.cache = c /\ new.noTone = w.noTone /\ new.values = w.values
      /\ DOMAIN new = {"noTone", "steps", "infos", "values", "cache", "presets", "todo"}
  BY <1>1, <1>2
<1>4. \A v : [new EXCEPT !.values = v].cache = c /\ [new EXCEPT !.values = v].noTone = w.noTone
           /\ [new EXCEPT !.values = v].values = v
  BY <1>3
<1> QED
  BY <1>3, <1>4 DEF new

(* A tone that is restored without a failure, under the first name that fits: its row and its *)
(* settings will be written.                                                                 *)
LEMMA PrepareParts ==
    ASSUME TypeInv, PrepareTone, intact'
    PROVE  /\ Fewer(rows, rows') /\ SameTones(rows, rows') /\ DOMAIN rows' = DOMAIN rows
           /\ work'.noTone = work.noTone
           /\ \A p, k, c : Held(work.cache, p, k, c) => Held(work'.cache, p, k, c)
           /\ \E path \in Paths :
                /\ IsCopyOf(path, work.infos[1].data)
                /\ path \in DOMAIN files' /\ files'[path] = backup.files[work.infos[1].data]
                /\ \A k \in Kinds : \A c \in work.infos[1].on[k] :
                    /\ work.infos[1].by[k] = "customised"
                    /\ ~IsCardAlreadyCustomised(rows, k, c) /\ <<k, c>> \notin work.noTone
                    => Held(work'.cache, path, k, c)
                /\ DOMAIN files' \subseteq DOMAIN files \cup DOMAIN work'.values
                /\ DOMAIN work.values \subseteq DOMAIN work'.values
                /\ \A p \in DOMAIN work'.values :
                    \/ work'.values[p].source = work.infos[1].source
                    \/ p \in DOMAIN work.values /\ work'.values[p] = work.values[p]
<1> DEFINE info == work.infos[1]
           size == backup.files[info.data]
<1>1. work.infos # <<>>
  BY DEF PrepareTone
<1>2. /\ work.infos \in Seq(Info) /\ IsTable(work.values) /\ IsCache(work.cache) /\ IsWork(work)
      /\ IsTable(rows) /\ IsFiles(files)
  BY DEF TypeInv, TypeOK, IsWork, IsCache
<1>3. info \in Info /\ Head(work.infos) = info
  BY <1>1, <1>2, Shortened
<1> DEFINE to(path) == [info EXCEPT !.path = path]
           commit(path) == CommitSettings(work.cache, Commits(to(path)))
<1>5. PICK path \in Paths :
        /\ Target(path, info.data, size)
        /\ \/ /\ path \in DOMAIN files
              /\ CheckSetting(to(path), "")
              /\ work' = [work EXCEPT !.infos = Tail(work.infos), !.cache = commit(path)]
              /\ UNCHANGED <<backup, files, intact>>
           \/ /\ path \notin DOMAIN files
              /\ CheckSetting(to(path), "")
              /\ work' = [[work EXCEPT !.infos = Tail(work.infos), !.cache = commit(path)]
                            EXCEPT !.values = Merge([p \in {path} |-> SetInsertValue(to(path))],
                                                    [work EXCEPT !.infos = Tail(work.infos), !.cache = commit(path)].values)]
              /\ files' = Merge([p \in {path} |-> size], files)
              /\ backup' = [backup EXCEPT !.files = [p \in DOMAIN backup.files \ {info.data} |-> backup.files[p]]]
                 \/ backup' = backup
              /\ UNCHANGED intact
           \/ /\ path \notin DOMAIN files
              /\ work' = [work EXCEPT !.infos = Tail(work.infos)]
              /\ intact' = FALSE
              /\ UNCHANGED <<backup, rows, files, sims>>
  BY <1>3, Zenon DEF PrepareTone
<1> DEFINE c == commit(path)  t == Tail(work.infos)  r == SetInsertValue(to(path))
           there == /\ path \in DOMAIN files /\ files' = files
                    /\ work' = [work EXCEPT !.infos = t, !.cache = c]
           moved == /\ path \notin DOMAIN files /\ files' = Put(files, path, size)
                    /\ work' = [[work EXCEPT !.infos = t, !.cache = c]
                                  EXCEPT !.values = Put([work EXCEPT !.infos = t, !.cache = c].values, path, r)]
<1>6. (there \/ moved) /\ CheckSetting(to(path), "")
  BY <1>5, Zenon DEF Put
<1>7. to(path) \in Info /\ to(path).path = path /\ to(path).on = info.on /\ to(path).by = info.by
      /\ to(path).source = info.source
  BY <1>3, InfoAt
<1>8. /\ IsCopyOf(path, info.data)
      /\ path \in DOMAIN files => files[path] = size
  <2> DEFINE d == info.data  z == size
  <2>1. Target(path, d, z)
    BY <1>5, Zenon
  <2> HIDE DEF info, d, z, size
  <2>2. /\ IsCopyOf(path, d)
        /\ path \in DOMAIN files => files[path] = z
    BY <2>1, TargetIsCopy
  <2> QED
    BY <2>2, Zenon DEF d, z
<1>9. Fewer(rows, rows') /\ SameTones(rows, rows') /\ DOMAIN rows' = DOMAIN rows
  <2> DEFINE i == to(path)  new == ClearLocalDBTypeSetting(rows, i)
  <2>1. rows' = new
    BY <1>6, Zenon DEF CheckSetting
  <2> HIDE DEF i
  <2>2. DOMAIN new = DOMAIN rows /\ Fewer(rows, new) /\ SameTones(rows, new)
    BY <1>2, ClearLocalFewer
  <2> QED
    BY <2>1, <2>2, Zenon
<1>10. /\ \A p, k, a : Held(work.cache, p, k, a) => Held(c, p, k, a)
       /\ \A k \in Kinds : \A a \in info.on[k] :
            /\ info.by[k] = "customised" /\ ~IsCardAlreadyCustomised(rows, k, a) /\ <<k, a>> \notin work.noTone
            => Held(c, path, k, a)
  <2> DEFINE i == to(path)  new == Commits(i)
  <2>1. i \in Info /\ i.path = path /\ i.on = info.on /\ i.by = info.by
    BY <1>7
  <2> HIDE DEF i, info
  <2>2. \A j \in new : j \in Item
    BY <2>1, ItemsOfInfo
  <2>3. AreSettings(work.cache)
    BY <1>2 DEF AreSettings, IsCache
  <2>4. ASSUME NEW p, NEW k, NEW a, Held(work.cache, p, k, a) \/ Held({j \in new : ValidSetting(j)}, p, k, a)
        PROVE  Held(CommitSettings(work.cache, new), p, k, a)
    <3> HIDE DEF new
    <3> QED
      BY <2>2, <2>3, <2>4, CommitsHeld
  <2>5. ASSUME NEW k \in Kinds, NEW a \in info.on[k], info.by[k] = "customised",
               ~IsCardAlreadyCustomised(rows, k, a), <<k, a>> \notin work.noTone
        PROVE  Held({j \in new : ValidSetting(j)}, path, k, a)
    <3>1. Held({j \in Commits(i) : ValidSetting(j)}, i.path, k, a)
      BY <2>1, <2>5, InfoCommits
    <3> QED
      BY <2>1, <3>1, Zenon
  <2>6. c = CommitSettings(work.cache, new)
    BY Zenon DEF i
  <2> HIDE DEF new, c
  <2> QED
    BY <2>4, <2>5, <2>6, Zenon
<1>11. /\ work'.cache = c /\ work'.noTone = work.noTone
       /\ work'.values = IF path \in DOMAIN files THEN work.values ELSE Put(work.values, path, r)
  <2>1. work = [noTone |-> work.noTone, steps |-> work.steps, infos |-> work.infos, values |-> work.values,
                cache |-> work.cache, presets |-> work.presets, todo |-> work.todo]
    BY <1>2 DEF IsWork
  <2>2. path \in DOMAIN files => work' = [work EXCEPT !.infos = t, !.cache = c]
    BY <1>6, Zenon
  <2>3. path \notin DOMAIN files =>
            work' = [[work EXCEPT !.infos = t, !.cache = c]
                        EXCEPT !.values = Put([work EXCEPT !.infos = t, !.cache = c].values, path, r)]
    BY <1>6, Zenon
  <2> DEFINE w == [work EXCEPT !.infos = t, !.cache = c]
  <2> HIDE DEF c, t, r
  <2>4. /\ w.cache = c /\ w.noTone = work.noTone /\ w.values = work.values
        /\ \A v : [w EXCEPT !.values = v].cache = c /\ [w EXCEPT !.values = v].noTone = work.noTone
                 /\ [w EXCEPT !.values = v].values = v
    BY <2>1, WorkTaken
  <2> HIDE DEF w
  <2>5. path \notin DOMAIN files => work' = [w EXCEPT !.values = Put(work.values, path, r)]
    BY <2>3, <2>4, Zenon DEF w
  <2> QED
    <3>1. CASE path \in DOMAIN files
      BY <2>2, <2>4, <3>1 DEF w
    <3> DEFINE v == Put(work.values, path, r)
    <3> HIDE DEF v
    <3>2. CASE path \notin DOMAIN files
      <4>1. work' = [w EXCEPT !.values = v]
        BY <2>5, <3>2, Zenon DEF v
      <4>2. work'.cache = c /\ work'.noTone = work.noTone /\ work'.values = v
        BY <2>4, <4>1
      <4> QED
        BY <3>2, <4>2 DEF v
    <3> QED
      BY <3>1, <3>2
<1>12. r.source = info.source
  BY <1>7 DEF SetInsertValue
<1>13. /\ path \in DOMAIN files' /\ files'[path] = size
       /\ DOMAIN files' \subseteq DOMAIN files \cup DOMAIN work'.values
       /\ DOMAIN work.values \subseteq DOMAIN work'.values
       /\ \A p \in DOMAIN work'.values :
            \/ work'.values[p].source = info.source
            \/ p \in DOMAIN work.values /\ work'.values[p] = work.values[p]
  <2>1. path \in DOMAIN files => files' = files
    BY <1>6, Zenon
  <2>2. path \notin DOMAIN files => files' = Put(files, path, size)
    BY <1>6, Zenon
  <2> HIDE DEF c, r, size, info, there, moved
  <2>3. CASE path \in DOMAIN files
    BY <1>8, <1>11, <2>1, <2>3
  <2>4. CASE path \notin DOMAIN files
    <3>1. files' = Put(files, path, size) /\ work'.values = Put(work.values, path, r)
      BY <1>11, <2>2, <2>4
    <3> QED
      BY <1>12, <3>1 DEF Put, Merge
  <2> QED
    BY <2>3, <2>4
<1> HIDE DEF c, r, t
<1>14. \A p, k, a : Held(work.cache, p, k, a) => Held(work'.cache, p, k, a)
  BY <1>10, <1>11, Zenon
<1>15. \A k \in Kinds : \A a \in info.on[k] :
            /\ info.by[k] = "customised" /\ ~IsCardAlreadyCustomised(rows, k, a) /\ <<k, a>> \notin work.noTone
            => Held(work'.cache, path, k, a)
  BY <1>10, <1>11, Zenon
<1> QED
  BY <1>8, <1>9, <1>11, <1>13, <1>14, <1>15, Zenon

(* A setting in the cache whose tone has a row stays that far. *)
LEMMA SentStays ==
    ASSUME NEW d, NEW k, NEW c, Sent(d, k, c), job' = job, FilesStay(files, files'),
           \A p : InCache(p, k, c) => InCache(p, k, c)', \A p \in Paths : Landed(p) => Landed(p)'
    PROVE  Sent(d, k, c)'
<1>1. PICK path \in Paths : InCache(path, k, c) /\ Landed(path) /\ Matches(path, d)
  BY DEF Sent
<1>2. Matches(path, d)'
  BY <1>1 DEF Matches, FilesStay
<1>3. InCache(path, k, c)' /\ Landed(path)'
  BY <1>1
<1> QED
  BY <1>2, <1>3, Zenon DEF Sent

LEMMA PrepareArrives ==
    ASSUME TypeInv, TypeInv', Arriving, Quiet, Quiet', job' = job, PrepareTone
    PROVE  Arriving'
<1> DEFINE data == work.infos[1].data
<1>1. /\ FilesStay(files, files') /\ phase = "insert" /\ phase' = "insert"
      /\ work.infos # <<>> /\ work'.infos = Tail(work.infos) /\ backup'.rows = backup.rows
      /\ \A d \in DOMAIN backup'.files : d \in DOMAIN backup.files /\ backup'.files[d] = backup.files[d]
  BY PrepareStep
<1>2. intact' /\ job.scene = "clone" /\ Fitting
  BY DEF Quiet
<1>3. /\ Fewer(rows, rows') /\ SameTones(rows, rows') /\ DOMAIN rows' = DOMAIN rows
      /\ work'.noTone = work.noTone
      /\ \A p, k, c : Held(work.cache, p, k, c) => Held(work'.cache, p, k, c)
  BY <1>2, PrepareParts, Zenon
<1>4. PICK path \in Paths :
        /\ IsCopyOf(path, data)
        /\ path \in DOMAIN files' /\ files'[path] = backup.files[data]
        /\ \A k \in Kinds : \A c \in work.infos[1].on[k] :
            /\ work.infos[1].by[k] = "customised"
            /\ ~IsCardAlreadyCustomised(rows, k, c) /\ <<k, c>> \notin work.noTone
            => Held(work'.cache, path, k, c)
        /\ DOMAIN files' \subseteq DOMAIN files \cup DOMAIN work'.values
        /\ DOMAIN work.values \subseteq DOMAIN work'.values
        /\ \A p \in DOMAIN work'.values :
            \/ work'.values[p].source = work.infos[1].source
            \/ p \in DOMAIN work.values /\ work'.values[p] = work.values[p]
  BY <1>2, PrepareParts, Zenon
<1>5. /\ 1 \in DOMAIN work.infos /\ work.infos \in Seq(Info)
      /\ \A x \in DOMAIN work'.infos : x + 1 \in DOMAIN work.infos /\ work'.infos[x] = work.infos[x + 1]
      /\ \A y \in DOMAIN work.infos : y = 1 \/ (y - 1 \in DOMAIN work'.infos /\ work'.infos[y - 1] = work.infos[y])
  BY <1>1, Shortened DEF TypeInv, TypeOK, IsWork
<1>6. /\ data \in DOMAIN backup.rows /\ work.infos[1].source = backup.rows[data].source
      /\ work.infos[1].on = backup.rows[data].on /\ work.infos[1].by = backup.rows[data].by
      /\ \A x \in DOMAIN work.infos :
            LET e == work.infos[x].data
            IN  /\ e \in DOMAIN backup.rows /\ work.infos[x].source = backup.rows[e].source
                /\ work.infos[x].on = backup.rows[e].on /\ work.infos[x].by = backup.rows[e].by
  BY <1>5 DEF Arriving, Brought
<1>7. data \in DOMAIN backup.files
  BY <1>2, <1>5 DEF TypeInv, Shape
<1> HIDE DEF data
<1>8. /\ data \in DOMAIN job.backup.files /\ backup.files[data] = job.backup.files[data]
      /\ data \in DOMAIN job.backup.rows /\ backup.rows[data].source = job.backup.rows[data].source
  BY <1>6, <1>7 DEF Arriving, Brought
<1>9. work.infos[1].source = "customised"
  BY <1>2, <1>6, <1>8 DEF Fitting
<1>10. Untouched'
  BY <1>1 DEF Untouched
<1>11. \A p : Landed(p) => Landed(p)'
  BY <1>1, <1>3, <1>4 DEF Landed
<1>12. Enlarged'
  <2>1. Own' = Own /\ SameTones(Own, rows) /\ \A p \in DOMAIN files : Landed(p)
    BY <1>1 DEF Own, Arriving, Enlarged
  <2>2. SameTones(Own', rows')
    BY <1>3, <2>1, SameTonesTwice
  <2>3. \A p \in DOMAIN files' : Landed(p)'
    <3>1. \A p \in DOMAIN work'.values : Landed(p)'
      BY <1>1 DEF Landed
    <3> QED
      BY <1>4, <1>11, <2>1, <3>1
  <2> QED
    BY <2>2, <2>3 DEF Enlarged
<1>13. Brought'
  <2>1. \A d \in DOMAIN backup'.files :
            d \in DOMAIN job'.backup.files /\ backup'.files[d] = job'.backup.files[d]
    BY <1>1 DEF Arriving, Brought
  <2>2. \A d \in DOMAIN backup'.rows :
            d \in DOMAIN job'.backup.rows /\ backup'.rows[d].source = job'.backup.rows[d].source
    BY <1>1 DEF Arriving, Brought
  <2>3. \A p \in DOMAIN work'.values : work'.values[p].source = "customised"
    BY <1>4, <1>9 DEF Arriving, Brought
  <2>4. ASSUME NEW x \in DOMAIN work'.infos
        PROVE  LET e == work'.infos[x].data
               IN  /\ e \in DOMAIN backup'.rows /\ work'.infos[x].source = backup'.rows[e].source
                   /\ work'.infos[x].on = backup'.rows[e].on /\ work'.infos[x].by = backup'.rows[e].by
    <3>1. x + 1 \in DOMAIN work.infos /\ work'.infos[x] = work.infos[x + 1]
      BY <1>5
    <3>2. PICK y : y = x + 1
      OBVIOUS
    <3> QED
      BY <1>1, <1>6, <3>1, <3>2, Zenon
  <2> QED
    BY <2>1, <2>2, <2>3, <2>4 DEF Brought
<1>14. ASSUME NEW d \in Paths, NEW k \in Kinds, NEW c \in AllSlots, Wanted(d, k, c)'
       PROVE  Way(d, k, c)'
  <2>1. Wanted(d, k, c)
    BY <1>1, <1>14, StillWanted
  <2>2. Way(d, k, c)
    BY <2>1 DEF Arriving, Ways
  <2>3. Free(rows, k, c) /\ <<k, c>> \notin work.noTone
    BY <1>1, <2>2 DEF Way
  <2>4. Free(rows', k, c)
    BY <1>3, <2>3, FewerFree
  <2>5. Sent(d, k, c)' \/ \E x \in DOMAIN work'.infos : work'.infos[x].data = d
    <3>1. Sent(d, k, c) \/ \E x \in DOMAIN work.infos : work.infos[x].data = d
      BY <1>1, <2>2 DEF Way
    <3>2. CASE Sent(d, k, c)
      <4>1. \A p : InCache(p, k, c) => InCache(p, k, c)'
        BY <1>3 DEF InCache, Held
      <4> QED
        BY <1>1, <1>11, <3>2, <4>1, SentStays
    <3>3. CASE \E x \in DOMAIN work.infos : work.infos[x].data = d
      <4>1. PICK x \in DOMAIN work.infos : work.infos[x].data = d
        BY <3>3
      <4>2. CASE x = 1
        <5>1. d = data
          BY <4>1, <4>2 DEF data
        <5>2. c \in work.infos[1].on[k] /\ work.infos[1].by[k] = "customised"
          BY <1>6, <2>1, <5>1 DEF Wanted
        <5>3. Held(work'.cache, path, k, c)
          BY <1>4, <2>3, <5>2, Zenon DEF Free
        <5>4. InCache(path, k, c)'
          BY <5>3 DEF InCache, Held
        <5>5. Landed(path)'
          <6>1. \A p \in DOMAIN files' : Landed(p)'
            BY <1>1, <1>12 DEF Enlarged
          <6> QED
            BY <1>4, <6>1
        <5>6. Matches(path, d)'
          BY <1>4, <1>8, <5>1 DEF Matches
        <5> QED
          BY <5>4, <5>5, <5>6, Zenon DEF Sent
      <4>3. CASE x # 1
        BY <1>5, <4>1, <4>3
      <4> QED
        BY <4>2, <4>3
    <3> QED
      BY <3>1, <3>2, <3>3
  <2> QED
    BY <1>1, <1>3, <2>3, <2>4, <2>5 DEF Way
<1>15. Ways'
  BY <1>14 DEF Ways
<1> QED
  BY <1>10, <1>12, <1>13, <1>15 DEF Arriving

LEMMA PassArrives ==
    ASSUME TypeInv, Arriving, Quiet, PassOver
    PROVE  Arriving'
<1>1. /\ UNCHANGED <<job, backup, phase, ret, completed, rows, files>>
      /\ phase = "insert" /\ work.infos # <<>> /\ work'.infos = Tail(work.infos)
      /\ work'.cache = work.cache /\ work'.noTone = work.noTone /\ work'.values = work.values
      /\ work.infos[1].data \in Unplaced
  BY PassStep
<1>2. /\ \A x \in DOMAIN work'.infos : x + 1 \in DOMAIN work.infos /\ work'.infos[x] = work.infos[x + 1]
      /\ \A y \in DOMAIN work.infos : y = 1 \/ (y - 1 \in DOMAIN work'.infos /\ work'.infos[y - 1] = work.infos[y])
  BY <1>1, Shortened DEF TypeInv, TypeOK, IsWork
<1>3. Untouched' /\ \A p : Landed(p)' = Landed(p)
  BY <1>1 DEF Untouched, Landed
<1>4. Enlarged'
  BY <1>1, <1>3 DEF Arriving, Enlarged, Own
<1>5. Brought'
  <2>1. ASSUME NEW x \in DOMAIN work'.infos
        PROVE  LET e == work'.infos[x].data
               IN  /\ e \in DOMAIN backup'.rows /\ work'.infos[x].source = backup'.rows[e].source
                   /\ work'.infos[x].on = backup'.rows[e].on /\ work'.infos[x].by = backup'.rows[e].by
    <3>1. PICK y \in DOMAIN work.infos : work'.infos[x] = work.infos[y]
      BY <1>2
    <3> QED
      BY <1>1, <3>1 DEF Arriving, Brought
  <2> QED
    BY <1>1, <2>1 DEF Arriving, Brought
<1>6. ASSUME NEW d \in Paths, NEW k \in Kinds, NEW c \in AllSlots, Wanted(d, k, c)'
      PROVE  Way(d, k, c)'
  <2>1. Wanted(d, k, c)
    BY <1>1, <1>6, StillWanted
  <2>2. Way(d, k, c)
    BY <2>1 DEF Arriving, Ways
  <2>3. Sent(d, k, c)' = Sent(d, k, c)
    BY <1>1, <1>3 DEF Sent, InCache, Matches
  <2>4. ASSUME NEW x \in DOMAIN work.infos, work.infos[x].data = d
        PROVE  \E y \in DOMAIN work'.infos : work'.infos[y].data = d
    BY <1>1, <1>2, <2>1, <2>4 DEF Wanted
  <2> QED
    BY <1>1, <2>2, <2>3, <2>4 DEF Way
<1>7. Ways'
  BY <1>6 DEF Ways
<1> QED
  BY <1>3, <1>4, <1>5, <1>7 DEF Arriving

-----------------------------------------------------------------------------
LEMMA InsertsArrive ==
    ASSUME TypeInv, Arriving, Quiet, job' = job, EndOfInserts
    PROVE  Arriving'
<1>1. /\ UNCHANGED <<backup, completed, rows, files, work>> /\ phase = "insert" /\ phase' = "batch"
      /\ work.infos = <<>>
  BY DEF EndOfInserts, device
<1>2. Untouched'
  BY <1>1 DEF Untouched
<1>3. Enlarged'
  BY <1>1 DEF Arriving, Enlarged, Landed, Own
<1>4. ASSUME NEW d \in Paths, NEW k \in Kinds, NEW c \in AllSlots, Wanted(d, k, c), Way(d, k, c)
      PROVE  Way(d, k, c)'
  <2>1. Sent(d, k, c)
    BY <1>1, <1>4 DEF Way
  <2>2. FilesStay(files, files') /\ (\A p : InCache(p, k, c) => InCache(p, k, c)')
    BY <1>1 DEF FilesStay, InCache
  <2>3. \A p \in Paths : Landed(p) => Landed(p)'
    BY <1>1 DEF Landed
  <2>4. Sent(d, k, c)'
    BY <2>1, <2>2, <2>3, SentStays
  <2> QED
    BY <1>1, <1>4, <2>4 DEF Way
<1> QED
  BY <1>1, <1>2, <1>3, <1>4, ArrivingStays

LEMMA BatchArrives ==
    ASSUME TypeInv, Arriving, Quiet, Quiet', job' = job, BatchInsert
    PROVE  Arriving'
<1>1. /\ UNCHANGED <<backup, completed, files, work>> /\ phase = "batch" /\ phase' = "finish"
      /\ rows' = Merge(rows, work.values)
  BY DEF BatchInsert, Quiet
<1>2. /\ IsTable(rows) /\ IsTable(work.values) /\ NoSettings(work.values)
      /\ \A p \in DOMAIN work.values : work.values[p].source = "customised"
  BY DEF TypeInv, TypeOK, IsWork, Shape, NoSettings, Arriving, Brought
<1>3. /\ DOMAIN rows' = DOMAIN rows \cup DOMAIN work.values
      /\ Fewer(rows, rows') /\ SameTones(rows, rows')
  <2> DEFINE values == work.values  new == Merge(rows, values)
  <2>1. IsTable(values) /\ NoSettings(values) /\ \A p \in DOMAIN values : values[p].source = "customised"
    BY <1>2
  <2> HIDE DEF values
  <2>2. DOMAIN new = DOMAIN rows \cup DOMAIN values /\ Fewer(rows, new) /\ SameTones(rows, new)
    BY <1>2, <2>1, MergedFewer
  <2> QED
    BY <1>1, <2>2, Zenon DEF values
<1>4. Untouched'
  BY <1>1 DEF Untouched
<1>5. \A p : Landed(p) => Landed(p)'
  BY <1>1, <1>3 DEF Landed
<1>6. Enlarged'
  <2>1. Own' = Own /\ SameTones(Own, rows) /\ \A p \in DOMAIN files : Landed(p)
    BY <1>1 DEF Own, Arriving, Enlarged
  <2>2. SameTones(Own', rows')
    BY <1>3, <2>1, SameTonesTwice
  <2>3. \A p \in DOMAIN files' : Landed(p)'
    BY <1>1, <1>5, <2>1
  <2> QED
    BY <2>2, <2>3 DEF Enlarged
<1>7. ASSUME NEW d \in Paths, NEW k \in Kinds, NEW c \in AllSlots, Wanted(d, k, c), Way(d, k, c)
      PROVE  Way(d, k, c)'
  <2>1. Sent(d, k, c) /\ Free(rows, k, c)
    BY <1>1, <1>7 DEF Way
  <2>2. FilesStay(files, files') /\ (\A p : InCache(p, k, c) => InCache(p, k, c)')
    BY <1>1 DEF FilesStay, InCache
  <2>3. Sent(d, k, c)'
    BY <1>5, <2>1, <2>2, SentStays
  <2>4. Free(rows', k, c)
    BY <1>3, <2>1, FewerFree
  <2> QED
    BY <1>1, <1>7, <2>3, <2>4 DEF Way
<1> QED
  BY <1>1, <1>4, <1>6, <1>7, ArrivingStays

LEMMA FinishArrives ==
    ASSUME TypeInv, Arriving, Quiet, job' = job, OnFinished
    PROVE  Arriving'
<1>1. /\ UNCHANGED <<completed, rows, files, work>> /\ phase = "finish" /\ phase' = "flush"
  BY DEF OnFinished, device
<1>2. backup'.rows = backup.rows /\ backup'.files = <<>>
  <2>1. backup'.rows = backup.rows
    BY FinishTypes
  <2>2. backup' = [backup EXCEPT !.there = FALSE, !.files = <<>>]
    BY DEF OnFinished, Quiet
  <2>3. backup = [rows |-> backup.rows, files |-> backup.files, sims |-> backup.sims, there |-> backup.there]
    BY DEF TypeInv, TypeOK, IsBackup
  <2> QED
    BY <2>1, <2>2, <2>3
<1>3. Untouched'
  BY <1>1 DEF Untouched
<1>4. Enlarged'
  BY <1>1 DEF Arriving, Enlarged, Landed, Own
<1>5. Brought'
  BY <1>1, <1>2 DEF Arriving, Brought
<1>6. ASSUME NEW d \in Paths, NEW k \in Kinds, NEW c \in AllSlots, Wanted(d, k, c)'
      PROVE  Way(d, k, c)'
  <2>1. Wanted(d, k, c)
    BY <1>2, <1>6, StillWanted
  <2>2. Way(d, k, c)
    BY <2>1 DEF Arriving, Ways
  <2>3. Sent(d, k, c) /\ Free(rows, k, c)
    BY <1>1, <2>2 DEF Way
  <2>4. FilesStay(files, files') /\ (\A p : InCache(p, k, c) => InCache(p, k, c)')
    BY <1>1 DEF FilesStay, InCache
  <2>5. \A p \in Paths : Landed(p) => Landed(p)'
    BY <1>1 DEF Landed
  <2>6. Sent(d, k, c)'
    BY <2>3, <2>4, <2>5, SentStays
  <2> QED
    BY <1>1, <2>3, <2>6 DEF Way
<1>7. Ways'
  BY <1>6 DEF Ways
<1> QED
  BY <1>3, <1>4, <1>5, <1>7 DEF Arriving

LEMMA BeginFlushArrives ==
    ASSUME TypeInv, Arriving, Quiet, job' = job, BeginFlush
    PROVE  Arriving'
<1>1. /\ UNCHANGED <<backup, completed, rows, files>> /\ phase = "flush" /\ phase' = "flushing"
  BY DEF BeginFlush, device
<1>2. PICK presets \in PresetCardBits(rows) :
        work' = [work EXCEPT !.presets = presets, !.todo = FlushSteps(work.cache)]
  BY DEF BeginFlush
<1>3. /\ work'.presets = presets /\ work'.todo = FlushSteps(work.cache) /\ work'.cache = work.cache
      /\ work'.values = work.values /\ work'.infos = work.infos
  <2> DEFINE todo == FlushSteps(work.cache)
  <2>1. work' = [work EXCEPT !.presets = presets, !.todo = todo]
    BY <1>2
  <2>2. work = [noTone |-> work.noTone, steps |-> work.steps, infos |-> work.infos, values |-> work.values,
                cache |-> work.cache, presets |-> work.presets, todo |-> work.todo]
    BY DEF TypeInv, TypeOK, IsWork
  <2> HIDE DEF todo
  <2>3. /\ work'.presets = presets /\ work'.todo = todo /\ work'.cache = work.cache
        /\ work'.values = work.values /\ work'.infos = work.infos
    BY <2>1, <2>2
  <2> QED
    BY <2>3 DEF todo
<1>4. Untouched'
  BY <1>1 DEF Untouched
<1>5. Enlarged'
  BY <1>1 DEF Arriving, Enlarged, Landed, Own
<1>6. ASSUME NEW d \in Paths, NEW k \in Kinds, NEW c \in AllSlots, Wanted(d, k, c), Way(d, k, c)
      PROVE  Way(d, k, c)'
  <2>1. Sent(d, k, c) /\ Free(rows, k, c)
    BY <1>1, <1>6 DEF Way
  <2>2. PICK p \in Paths : InCache(p, k, c) /\ Landed(p) /\ Matches(p, d)
    BY <2>1 DEF Sent
  <2>3. p \in DOMAIN rows
    BY <1>1, <2>2 DEF Landed
  <2>4. Matches(p, d)' /\ InCache(p, k, c)'
    BY <1>1, <1>3, <2>2 DEF Matches, InCache
  <2>5. k \in CardKinds => c \in SimCards
    BY <1>6, WantedTyped DEF TypeInv, TypeOK
  <2>6. ASSUME k \in CardKinds, presets[<<k, c>>] = p
        PROVE  c \in rows[p].on[k] /\ rows[p].by[k] = "preset"
    <3> DEFINE s == <<k, c>>
    <3>1. s \in (CardKinds \cap Kinds) \X SimCards /\ s[1] = k /\ s[2] = c /\ presets[s] = p
      BY <2>5, <2>6
    <3>2. /\ presets \in [(CardKinds \cap Kinds) \X SimCards -> DOMAIN rows \cup {""}]
          /\ \A t \in DOMAIN presets :
                LET H == PresetHolders(rows, t[1], t[2])
                IN  IF H = {} THEN presets[t] = "" ELSE presets[t] \in H
      BY <1>2, Zenon DEF PresetCardBits
    <3> HIDE DEF s
    <3>3. s \in DOMAIN presets
      BY <3>1, <3>2
    <3>4. LET H == PresetHolders(rows, k, c)
          IN  IF H = {} THEN presets[s] = "" ELSE presets[s] \in H
      BY <3>1, <3>2, <3>3, Zenon
    <3>5. p # ""
      BY <2>2, RestoreAssumption
    <3>6. p \in PresetHolders(rows, k, c)
      BY <3>1, <3>4, <3>5, Zenon
    <3> QED
      BY <3>6 DEF PresetHolders
  <2>7. Ready(rows', work'.presets, p, k, c)
    BY <1>1, <1>3, <2>1, <2>3, <2>6 DEF Ready, Free
  <2>8. \E step \in work'.todo : step.item.path = p /\ step.item.kind = k /\ step.card = c
    <3>1. PICK i \in work.cache : i.path = p /\ i.kind = k /\ c \in i.cards
      BY <2>2 DEF InCache
    <3>2. [item |-> i, card |-> c] \in work'.todo
      BY <1>3, <3>1 DEF FlushSteps
    <3> QED
      BY <3>1, <3>2
  <2> QED
    BY <1>1, <2>4, <2>7, <2>8 DEF Way, Leaving
<1> QED
  BY <1>1, <1>3, <1>4, <1>5, <1>6, ArrivingStays

LEMMA FlushOneArrives ==
    ASSUME TypeInv, Arriving, OneTaker, Quiet, job' = job, FlushOne
    PROVE  Arriving'
<1>1. /\ UNCHANGED <<backup, completed, files>> /\ phase = "flushing" /\ phase' = "flushing"
  BY DEF FlushOne
<1>2. PICK step \in work.todo :
        /\ IsNext(step, work.todo)
        /\ rows' = Flush(rows, work.cache, work.presets, step, TRUE)
        /\ work' = [work EXCEPT !.todo = work.todo \ {step}]
  BY Zenon DEF FlushOne
<1> DEFINE todo == work.todo \ {step}  cache == work.cache  presets == work.presets
           path == step.item.path  kind == step.item.kind  card == step.card
<1>3. /\ work'.todo = todo /\ work'.cache = cache /\ work'.presets = presets
      /\ work'.values = work.values /\ work'.infos = work.infos
  <2>1. work = [noTone |-> work.noTone, steps |-> work.steps, infos |-> work.infos, values |-> work.values,
                cache |-> work.cache, presets |-> work.presets, todo |-> work.todo]
    BY DEF TypeInv, TypeOK, IsWork
  <2>2. work' = [work EXCEPT !.todo = todo]
    BY <1>2
  <2> HIDE DEF todo
  <2> QED
    BY <2>1, <2>2
<1>4. /\ IsTable(rows) /\ IsBackup(backup)
      /\ step.item \in cache /\ step.item \in Item /\ step.item.by = "customised" /\ card \in step.item.cards
  BY DEF TypeInv, TypeOK, IsWork
<1>5. InCache(path, kind, card)
  BY <1>4 DEF InCache
<1>6. kind \in Kinds
  BY <1>4 DEF Item
<1>7. kind \in CardKinds => \A i \in cache : i.kind = kind /\ card \in i.cards => i.path = path
  <2> SUFFICES ASSUME kind \in CardKinds, NEW i \in cache, i.kind = kind, card \in i.cards
               PROVE  i.path = path
    OBVIOUS
  <2>1. InCache(i.path, kind, card)
    BY DEF InCache
  <2> HIDE DEF path, kind, card
  <2> QED
    BY <1>5, <1>6, <2>1 DEF OneTaker
<1> DEFINE new == Flush(rows, cache, presets, step, TRUE)
<1>8. rows' = new
  BY <1>2
<1> HIDE DEF todo, cache, presets
<1>9. DOMAIN new = DOMAIN rows /\ SameTones(rows, new)
  BY <1>4, FlushTones
<1>10. ASSUME NEW p \in DOMAIN rows, NEW k \in Kinds, NEW c \in Slots(k), InCache(p, k, c)
       PROVE  LET hit == p = path /\ k = kind /\ c = card
              IN  /\ IsSet(rows, p, k, c) => IsSet(new, p, k, c)
                  /\ Ready(rows, presets, p, k, c) => IsSet(new, p, k, c) \/ (~hit /\ Ready(new, presets, p, k, c))
  <2>1. ASSUME k \in CardKinds, k = kind, c = card PROVE p = path
    BY <1>5, <1>10, <2>1 DEF OneTaker
  <2> QED
    BY <1>4, <1>7, <2>1, FlushSets
<1> HIDE DEF new
<1>11. Untouched'
  BY <1>1 DEF Untouched
<1>12. Enlarged'
  <2>1. Own' = Own /\ SameTones(Own, rows) /\ \A p \in DOMAIN files : Landed(p)
    BY <1>1 DEF Own, Arriving, Enlarged
  <2>2. SameTones(Own', rows')
    BY <1>8, <1>9, <2>1, SameTonesTwice
  <2>3. \A p \in DOMAIN files' : Landed(p)'
    BY <1>1, <1>8, <1>9, <2>1 DEF Landed
  <2> QED
    BY <2>2, <2>3 DEF Enlarged
<1>13. ASSUME NEW d \in Paths, NEW k \in Kinds, NEW c \in AllSlots, Wanted(d, k, c), Way(d, k, c)
       PROVE  Way(d, k, c)'
  <2>1. PICK p \in Paths : /\ Matches(p, d) /\ InCache(p, k, c)
                           /\ IsSet(rows, p, k, c) \/ Leaving(p, k, c)
    BY <1>1, <1>13 DEF Way
  <2>2. c \in Slots(k)
    BY <1>4, <1>13, WantedTyped
  <2>3. p \in DOMAIN rows
    BY <2>1 DEF IsSet, Leaving, Ready
  <2>4. Matches(p, d)' /\ InCache(p, k, c)'
    BY <1>1, <1>3, <2>1 DEF Matches, InCache, cache
  <2>5. CASE IsSet(rows, p, k, c)
    <3>1. IsSet(rows', p, k, c)
      BY <1>8, <1>10, <2>1, <2>2, <2>3, <2>5
    <3> QED
      BY <1>1, <2>4, <3>1 DEF Way
  <2>6. CASE Leaving(p, k, c)
    <3>1. PICK s \in work.todo : s.item.path = p /\ s.item.kind = k /\ s.card = c
      BY <2>6 DEF Leaving
    <3>2. Ready(rows, presets, p, k, c)
      BY <2>6 DEF Leaving, presets
    <3>3. IsSet(rows', p, k, c) \/ (s # step /\ Ready(rows', work'.presets, p, k, c))
      BY <1>3, <1>8, <1>10, <2>1, <2>2, <2>3, <3>1, <3>2
    <3>4. s # step => s \in work'.todo
      BY <1>3 DEF todo
    <3>5. IsSet(rows', p, k, c) \/ Leaving(p, k, c)'
      BY <3>1, <3>3, <3>4 DEF Leaving
    <3> QED
      BY <1>1, <2>4, <3>5 DEF Way
  <2> QED
    BY <2>1, <2>5, <2>6
<1> QED
  BY <1>1, <1>3, <1>11, <1>12, <1>13, ArrivingStays

LEMMA EndFlushArrives ==
    ASSUME TypeInv, Arriving, Quiet, job' = job, EndFlush
    PROVE  Arriving'
<1>1. /\ UNCHANGED <<backup, completed, rows, files>> /\ phase = "flushing" /\ phase' = "clear"
      /\ work.todo = {} /\ work' = [work EXCEPT !.cache = {}]
  BY DEF EndFlush, device, Quiet
<1>2. work'.values = work.values /\ work'.infos = work.infos
  BY <1>1 DEF TypeInv, TypeOK, IsWork
<1>3. Untouched'
  BY <1>1 DEF Untouched
<1>4. Enlarged'
  BY <1>1 DEF Arriving, Enlarged, Landed, Own
<1>5. ASSUME NEW d \in Paths, NEW k \in Kinds, NEW c \in AllSlots, Wanted(d, k, c), Way(d, k, c)
      PROVE  Way(d, k, c)'
  <2>1. PICK p \in Paths : Matches(p, d) /\ IsSet(rows, p, k, c)
    BY <1>1, <1>5 DEF Way, Leaving
  <2>2. Matches(p, d)' /\ IsSet(rows', p, k, c)
    BY <1>1, <2>1 DEF Matches
  <2> QED
    BY <1>1, <2>2 DEF Way
<1> QED
  BY <1>1, <1>2, <1>3, <1>4, <1>5, ArrivingStays

LEMMA ClearPresetsArrives ==
    ASSUME TypeInv, Arriving, Quiet, job' = job, ClearPresetCardBits
    PROVE  Arriving'
<1>1. /\ UNCHANGED <<backup, completed, files, work>> /\ phase = "clear" /\ phase' = "sanitize"
      /\ rows' = ClearPresetCardBitsByCustom(rows)
  BY DEF ClearPresetCardBits
<1> DEFINE new == ClearPresetCardBitsByCustom(rows)
<1>2. /\ DOMAIN new = DOMAIN rows /\ SameTones(rows, new)
      /\ \A p \in DOMAIN rows : \A k \in Kinds : \A c : IsSet(rows, p, k, c) => IsSet(new, p, k, c)
  BY ClearPresetsSets DEF TypeInv, TypeOK
<1>3. rows' = new
  BY <1>1
<1> HIDE DEF new
<1>4. Untouched'
  BY <1>1 DEF Untouched
<1>5. Enlarged'
  <2>1. Own' = Own /\ SameTones(Own, rows) /\ \A p \in DOMAIN files : Landed(p)
    BY <1>1 DEF Own, Arriving, Enlarged
  <2>2. SameTones(Own', rows')
    BY <1>2, <1>3, <2>1, SameTonesTwice
  <2>3. \A p \in DOMAIN files' : Landed(p)'
    BY <1>1, <1>2, <1>3, <2>1 DEF Landed
  <2> QED
    BY <2>2, <2>3 DEF Enlarged
<1>6. ASSUME NEW d \in Paths, NEW k \in Kinds, NEW c \in AllSlots, Wanted(d, k, c), Way(d, k, c)
      PROVE  Way(d, k, c)'
  <2>1. PICK p \in Paths : Matches(p, d) /\ IsSet(rows, p, k, c)
    BY <1>1, <1>6 DEF Way
  <2>2. p \in DOMAIN rows
    BY <2>1 DEF IsSet
  <2>3. Matches(p, d)' /\ IsSet(rows', p, k, c)
    BY <1>1, <1>2, <1>3, <1>6, <2>1, <2>2 DEF Matches
  <2> QED
    BY <1>1, <2>3 DEF Way
<1> QED
  BY <1>1, <1>4, <1>5, <1>6, ArrivingStays

LEMMA ArrivingStep ==
    ASSUME TypeInv, TypeInv', OneTaker, Quiet => Arriving, [Next]_vars
    PROVE  (Quiet => Arriving)'
<1> SUFFICES ASSUME Quiet' PROVE Arriving'
  OBVIOUS
<1>1. Quiet /\ job' = job /\ changes' = changes /\ (BaseStep \/ CloneStep \/ UNCHANGED vars)
  BY QuietBefore
<1>2. Arriving
  BY <1>1
<1>3. CASE BaseStep
  <2>1. CASE StartFails
    BY <1>1, <1>2, <2>1, IdleArrives
  <2>2. CASE StartRestore
    BY <1>1, <1>2, <2>2, StartArrives
  <2>3. CASE CacheInitialNoRingtoneState
    BY <1>1, <1>2, <2>3, NoToneArrives
  <2>4. CASE EndOfInserts
    BY <1>1, <1>2, <2>4, InsertsArrive
  <2>5. CASE BatchInsert
    BY <1>1, <1>2, <2>5, BatchArrives
  <2>6. CASE OnFinished
    BY <1>1, <1>2, <2>6, FinishArrives
  <2>7. CASE BeginFlush
    BY <1>1, <1>2, <2>7, BeginFlushArrives
  <2>8. CASE FlushOne
    BY <1>1, <1>2, <2>8, FlushOneArrives
  <2>9. CASE EndFlush
    BY <1>1, <1>2, <2>9, EndFlushArrives
  <2>10. CASE SanitizeVibrateRecords
    BY <1>1, <1>2, <2>10, IdleArrives
  <2> QED
    BY <1>3, <2>1, <2>2, <2>3, <2>4, <2>5, <2>6, <2>7, <2>8, <2>9, <2>10 DEF BaseStep
<1>4. CASE CloneStep
  <2>1. CASE CleanESimData
    BY <1>1, <1>2, <2>1, CleanArrives
  <2>2. CASE CheckNotRingtoneRestore
    BY <1>1, <1>2, <2>2, MutedArrives
  <2>3. CASE UpdateSettingInfos
    BY <1>1, <1>2, <2>3, IdleArrives
  <2>4. CASE CheckRestoreFileInfos
    BY <1>1, <1>2, <2>4, QueryArrives
  <2>5. CASE PrepareTone
    BY <1>1, <1>2, <2>5, PrepareArrives
  <2>6. CASE ClearPresetCardBits
    BY <1>1, <1>2, <2>6, ClearPresetsArrives
  <2>7. CASE PassOver
    BY <1>1, <1>2, <2>7, PassArrives
  <2> QED
    BY <1>4, <2>1, <2>2, <2>3, <2>4, <2>5, <2>6, <2>7 DEF CloneStep
<1>5. CASE UNCHANGED vars
  BY <1>1, <1>2, <1>5, IdleArrives
<1> QED
  BY <1>1, <1>3, <1>4, <1>5

(* At the end of the restore what is on its way has come. *)
LEMMA ArrivedAtEnd ==
    ASSUME TypeInv, Quiet => Arriving, Fitting
    PROVE  SettingsArrive
<1> SUFFICES ASSUME phase = "ended", intact, changes = 0, job.scene = "clone",
                    NEW d \in DOMAIN backup.rows, NEW k \in Kinds, NEW c \in backup.rows[d].on[k],
                    backup.rows[d].by[k] = "customised", ~backup.rows[d].video, d \notin Unplaced,
                    d \in DOMAIN job.backup.files \/ \E p \in DOMAIN rows : rows[p].source = "preset" /\ IsCopyOf(p, d),
                    ~IsCardAlreadyCustomised(Own, k, c), Sounds(Own, k, c)
             PROVE  Arrives(d, k, c)
  BY Zenon DEF SettingsArrive, Own
<1>1. Arriving
  BY DEF Quiet
<1>2. There(d)
  <2>1. SameTones(Own, rows)
    BY <1>1 DEF Arriving, Enlarged
  <2>2. ASSUME NEW p \in DOMAIN rows, rows[p].source = "preset", IsCopyOf(p, d)
        PROVE  p \in DOMAIN Own /\ Own[p].source = "preset"
    BY <2>1, <2>2 DEF SameTones
  <2> QED
    BY <2>2 DEF There
<1>3. Wanted(d, k, c)
  BY <1>2 DEF Wanted, Open
<1>4. d \in Paths /\ c \in AllSlots
  BY <1>3, WantedTyped DEF TypeInv, TypeOK
<1>5. Way(d, k, c)
  BY <1>1, <1>3, <1>4 DEF Arriving, Ways
<1>6. PICK p \in Paths : Matches(p, d) /\ IsSet(rows, p, k, c)
  BY <1>5 DEF Way
<1> QED
  BY <1>6 DEF Arrives, Matches, IsSet

(* SettingsArrive: a clone without failures, during which the user chooses nothing, ends with *)
(* every tone the user of the other device chose set for its card on this one, under whatever *)
(* name the file got and with its sound, unless the user of this device had chosen a tone for *)
(* the card, or none.  Fitting says what the two devices are: this one's cards have one tone  *)
(* each and its files have rows, the files of the backup are customised tones, and a preset   *)
(* tone of this device is the counterpart of presets of the other alone, found by its path.   *)
THEOREM SettingsDoArrive == Spec => [](Fitting => SettingsArrive)
<1>1. Init => TypeInv /\ Justified /\ OneTaker /\ (Quiet => Arriving)
  <2> SUFFICES ASSUME Init PROVE TypeInv /\ Justified /\ OneTaker /\ (Quiet => Arriving)
    OBVIOUS
  <2>1. work.cache = {} /\ work.infos = <<>>
    BY DEF Init, NoWork
  <2>2. OneTaker
    BY <2>1 DEF OneTaker, InCache, Pends
  <2>3. TypeInv
    BY TypeInit
  <2> QED
    BY <2>2, <2>3, InitJustified, InitArriving
<1>2. TypeInv /\ Justified /\ OneTaker /\ (Quiet => Arriving) /\ [Next]_vars
        => TypeInv' /\ Justified' /\ OneTaker' /\ (Quiet => Arriving)'
  <2> SUFFICES ASSUME TypeInv, Justified, OneTaker, Quiet => Arriving, [Next]_vars
               PROVE  TypeInv' /\ Justified' /\ OneTaker' /\ (Quiet => Arriving)'
    OBVIOUS
  <2>1. TypeInv'
    BY NextKeeps
  <2>2. (Quiet => Arriving)'
    BY <2>1, ArrivingStep
  <2> QED
    BY <2>1, <2>2, JustifiedStep, OneTakerStep
<1>3. TypeInv /\ (Quiet => Arriving) => (Fitting => SettingsArrive)
  BY ArrivedAtEnd
<1> QED
  BY <1>1, <1>2, <1>3, PTL DEF Spec
=============================================================================
