------------------------- MODULE StartupTones_proofs ------------------------
(***************************************************************************)
(* Proofs about what becomes of the tones over starts: that the user's     *)
(* can still be played (MigratedTonesPlay), that the presets are titled in *)
(* the system's language (TitlesInLanguage), and that an upgrade is        *)
(* complete, whatever version it comes from (UpgradeCompletes).            *)
(***************************************************************************)
EXTENDS Startup_proofs, SequenceTheorems

-----------------------------------------------------------------------------
(* Presets and tones of the user's do not mix *)

(* The tones in the scanned directories are presets wherever they have a row, and only they   *)
(* are read by a scan.                                                                        *)
Presets(R) == \A t \in job.factory \cap DOMAIN R : R[t].source = "preset"
FactoryInv ==
    /\ Presets(dbs.el1.rows) /\ Presets(dbs.el2.rows)
    /\ DOMAIN scan.buffer.rows \subseteq job.factory
    /\ \A t \in DOMAIN scan.buffer.rows : scan.buffer.rows[t].source = "preset"

(* The rows that a step leaves of the user's tones. *)
RowsKept(R, new) ==
    \A t \in DOMAIN R : R[t].source = "customised" =>
        t \in DOMAIN new /\ new[t].source = "customised" /\ new[t].place = R[t].place

-----------------------------------------------------------------------------
(* The tones of the user's *)

(* A library that makes one move at most: a database to be moved finds none in its new place, *)
(* and is moved without a restart that comes after a failure; one that has been moved is not  *)
(* of a version whose upgrade asks for the move again, or is not started again.  (The others  *)
(* are moved, or moved again, over what the user did since.)                                  *)
Steady(j) ==
    j.el2Completed =>
        /\ ~j.completed => DOMAIN j.el1.rows = {} /\ (j.failures = 0 \/ j.crashes = 0)
        /\ j.completed => j.el1.version \notin 1 .. 4 \/ j.crashes = 0

(* What MigratedTonesPlay speaks of. *)
Mine(t) ==
    /\ t \in DOMAIN Found.rows /\ Found.rows[t].source = "customised"
    /\ <<t, Found.rows[t].place>> \in job.files

Plays(R, t, F, U) ==
    /\ t \in DOMAIN R /\ R[t].source = "customised" /\ R[t].place \in {"old", "new"}
    /\ \/ t \in U
       \/ R[t].place = "old" /\ <<t, "old">> \in F
       \/ R[t].place = "new" /\ (<<t, "new">> \in F \/ <<t, "tmp">> \in F)

(* The steps of an upgrade that come after AddVibrateTable asks for a scan. *)
LaterSteps == {UpgradeExtension[i] : i \in 7 .. Len(UpgradeExtension)}

(* The database of the device-level area is the one that is opened from now on. *)
Stays ==
    \/ ~job.el2Completed
    \/ /\ prefs.completed /\ dbs.el1.version \notin 1 .. 4
       /\ phase = "upgrade" => work.todo \in Seq(LaterSteps)
    \/ job.crashes = 0 /\ (prefs.completed \/ phase # "off")

InEl1(t) ==
    /\ work.open = "el1" /\ phase \notin {"backup", "moved"}
    /\ Stays
    /\ Plays(dbs.el1.rows, t, files, history.unsaved)

(* The database is still to be moved. *)
InEl2(t) ==
    /\ phase \in {"off", "open", "upgrade", "backup", "moved"}
    /\ ~prefs.completed /\ job.el2Completed
    /\ job.failures = 0 \/ job.crashes = 0
    /\ phase # "off" => work.open = "el2"
    /\ Plays(dbs.el2.rows, t, files, history.unsaved)
    /\ t \in DOMAIN dbs.el1.rows \/ phase = "moved" => Plays(dbs.el1.rows, t, files, history.unsaved)

(* The old folder is removed only if every tone in it was copied and its row tells so. *)
Copying(t) ==
    /\ phase \in {"copy", "save"} /\ work.all /\ dbs.el1.rows[t].place = "old" =>
        \/ t \in work.left \cup history.unsaved
        \/ phase = "save" /\ t = Head(work.todo)
    /\ phase = "save" => <<Head(work.todo), "new">> \in files

Kept(t) == (InEl1(t) /\ Copying(t)) \/ InEl2(t)
TonesKept == \A t \in Paths : Mine(t) => Kept(t)

LEMMA FoundInPaths == ASSUME TypeInv PROVE DOMAIN Found.rows \subseteq Paths /\ Table(Found.rows)
BY JobIs, IsDbTable DEF IsJob, Found, Table

LEMMA InitKept ==
    ASSUME Init
    PROVE  FactoryInv /\ (Steady(job) => TonesKept)
<1>1. TypeInv
  BY InitTypes
<1>2. /\ dbs.el1 = job.el1 /\ dbs.el2 = job.el2 /\ prefs.completed = job.completed /\ phase = "off"
      /\ work = NoWork /\ scan = NoScan /\ files = job.files
  BY DEF Init
<1>3. FactoryInv
  BY <1>1, <1>2, JobIs DEF FactoryInv, Presets, IsJob, NoScan
<1>4. ASSUME Steady(job), NEW t \in Paths, Mine(t) PROVE Kept(t)
  <2>1. Found.rows[t].place \in {"old", "new"}
    <3> DEFINE p == Found.rows[t].place
    <3>1. p \in Places
      BY <1>1, <1>4, FoundInPaths DEF Mine, Table, GoodRow, Tone
    <3>2. <<t, p>> \in Paths \X {"old", "new", "tmp"}
      BY <1>1, <1>4, JobIs DEF Mine, IsJob
    <3> QED
      BY <3>1, <3>2 DEF Places
  <2>2. Plays(Found.rows, t, files, history.unsaved)
    BY <1>2, <1>4, <2>1 DEF Mine, Plays
  <2>3. CASE ~job.completed /\ job.el2Completed
    <3>1. Found = job.el2
      BY <2>3 DEF Found
    <3>2. InEl2(t)
      BY <1>2, <1>4, <2>2, <2>3, <3>1 DEF InEl2, Steady
    <3> QED
      BY <3>2 DEF Kept
  <2>4. CASE job.completed \/ ~job.el2Completed
    <3>1. Found = job.el1
      BY <2>4 DEF Found
    <3>2. Stays
      BY <1>2, <1>4, <2>4 DEF Stays, Steady
    <3>3. InEl1(t) /\ Copying(t)
      BY <1>2, <2>2, <3>1, <3>2 DEF InEl1, Copying, NoWork
    <3> QED
      BY <3>3 DEF Kept
  <2> QED
    BY <2>3, <2>4, <1>1, JobIs DEF IsJob
<1> QED
  BY <1>3, <1>4 DEF TonesKept

-----------------------------------------------------------------------------
(* The steps of the upgrade *)

LEMMA SomeStepIsLeft == ASSUME Mid PROVE work.todo # <<>>
BY Zenon DEF Mid, At, AddColumn, AddRingMockHapticAudioTable, AddPreloadConfTable, AddVibrateTable,
   AddSimRows, UpdateMimeType, UpdateMediaType, UpdateDataUri, UpdateDefaultSystemTone,
   UpdateEsimDefaultSystemToneToToneFile, UpdateSimCardSettingESIMValue,
   SanitizeSoundModeVibrateRecords, SetUpgradeEsimTime

LEMMA Joined ==
    ASSUME NEW S, NEW s, NEW t, NEW u, s \in Seq(S), t \in Seq(S), u = s \o t
    PROVE  /\ u \in Seq(S) /\ Len(u) = Len(s) + Len(t)
           /\ \A i \in 1 .. Len(s) : u[i] = s[i]
           /\ \A i \in 1 .. Len(t) : u[Len(s) + i] = t[i]
OBVIOUS
LEMMA JoinedThree ==
    ASSUME NEW S, NEW a, NEW b, NEW c, NEW d, NEW e, a \in Seq(S), b \in Seq(S), c \in Seq(S), d = a \o b,
           e = d \o c
    PROVE  /\ e \in Seq(S) /\ Len(e) = Len(a) + Len(b) + Len(c)
           /\ \A i \in 1 .. Len(a) : e[i] = a[i]
           /\ \A i \in 1 .. Len(b) : e[Len(a) + i] = b[i]
           /\ \A i \in 1 .. Len(c) : e[Len(a) + Len(b) + i] = c[i]
<1>1. /\ d \in Seq(S) /\ Len(d) = Len(a) + Len(b)
      /\ \A i \in 1 .. Len(a) : d[i] = a[i]
      /\ \A i \in 1 .. Len(b) : d[Len(a) + i] = b[i]
  BY Joined
<1>2. /\ e \in Seq(S) /\ Len(e) = Len(d) + Len(c)
      /\ \A i \in 1 .. Len(d) : e[i] = d[i]
      /\ \A i \in 1 .. Len(c) : e[Len(d) + i] = c[i]
  BY <1>1, Joined
<1>3. Len(a) \in Nat /\ Len(b) \in Nat /\ Len(c) \in Nat
  OBVIOUS
<1>4. \A i \in 1 .. Len(a) : i \in 1 .. Len(d)
  BY <1>1, <1>3
<1>5. \A i \in 1 .. Len(b) : Len(a) + i \in 1 .. Len(d)
  BY <1>1, <1>3
<1> QED
  BY <1>1, <1>2, <1>3, <1>4, <1>5

LEMMA StepsAre ==
    /\ Len(UpgradeExtension) = 22 /\ DOMAIN UpgradeExtension = 1 .. 22
    /\ \A i \in 1 .. 6 : UpgradeExtension[i][1] \in 2 .. 5
    /\ \A i \in 7 .. 22 : UpgradeExtension[i][2] # "scanAgain"
<1> DEFINE a == <<<<2, "language">>, <<3, "mimeType">>, <<4, "confTable">>, <<4, "systemTone">>,
                  <<5, "scanAgain">>, <<5, "vibrateTable">>, <<6, "mimeType">>, <<7, "flags">>,
                  <<8, "mediaType">>, <<9, "dataUri">>, <<10, "haptic">>, <<11, "soundMode">>,
                  <<13, "conf">>, <<13, "systemTone">>>>
           b == [i \in 1 .. 4 |-> <<13, "eSimTone", ESimDefaultParams[i]>>]
           c == <<<<13, "inherit">>, <<13, "sanitize">>, <<13, "simRows">>, <<13, "eSimTime">>>>
           Any == {a[i] : i \in 1 .. 14} \cup {b[i] : i \in 1 .. 4} \cup {c[i] : i \in 1 .. 4}
<1>1. Len(a) = 14 /\ \A i \in 1 .. 6 : a[i][1] \in 2 .. 5
  OBVIOUS
<1>2. \A i \in 7 .. 14 : a[i][2] # "scanAgain"
  OBVIOUS
<1>3. \A i \in 1 .. 4 : b[i][2] # "scanAgain" /\ c[i][2] # "scanAgain"
  OBVIOUS
<1>4. a \in Seq(Any) /\ b \in Seq(Any) /\ c \in Seq(Any)
  OBVIOUS
<1>5. Len(b) = 4 /\ Len(c) = 4
  OBVIOUS
<1>6. UpgradeExtension = (a \o b) \o c
  BY Zenon DEF UpgradeExtension
<1> HIDE DEF a, b, c, Any
<1>7. PICK ab : ab = a \o b
  OBVIOUS
<1>8. UpgradeExtension = ab \o c
  BY <1>6, <1>7, Zenon
<1> DEFINE e == UpgradeExtension
<1>9. e = ab \o c
  BY <1>8
<1> HIDE DEF e
<1>10. /\ e \in Seq(Any) /\ Len(e) = Len(a) + Len(b) + Len(c)
       /\ \A i \in 1 .. Len(a) : e[i] = a[i]
       /\ \A i \in 1 .. Len(b) : e[Len(a) + i] = b[i]
       /\ \A i \in 1 .. Len(c) : e[Len(a) + Len(b) + i] = c[i]
  BY <1>4, <1>7, <1>9, JoinedThree
<1>11. Len(e) = 22 /\ DOMAIN e = 1 .. 22
  <2>1. \A s \in Seq(Any) : DOMAIN s = 1 .. Len(s)
    OBVIOUS
  <2>2. Len(e) = 22
    BY <1>1, <1>5, <1>10
  <2> QED
    BY <1>10, <2>1, <2>2, Zenon
<1>12. /\ \A i \in 1 .. 14 : UpgradeExtension[i] = a[i]
       /\ \A i \in 1 .. 4 : UpgradeExtension[14 + i] = b[i]
       /\ \A i \in 1 .. 4 : UpgradeExtension[18 + i] = c[i]
  <2>1. 14 + 4 = 18
    OBVIOUS
  <2>2. \A i \in 1 .. 4 : e[14 + 4 + i] = c[i]
    BY <1>1, <1>5, <1>10, Zenon
  <2> QED
    BY <1>1, <1>5, <1>10, <2>1, <2>2, Zenon DEF e
<1>14. ASSUME NEW i \in 7 .. 22 PROVE UpgradeExtension[i][2] # "scanAgain"
  <2>1. CASE i \in 7 .. 14
    BY <1>2, <1>12, <2>1
  <2>2. CASE i \in 15 .. 18
    <3>1. PICK j \in 1 .. 4 : i = 14 + j
      <4>1. i - 14 \in 1 .. 4 /\ i = 14 + (i - 14)
        BY <2>2
      <4> QED
        BY <4>1
    <3> QED
      BY <1>3, <1>12, <3>1, Zenon
  <2>3. CASE i \in 19 .. 22
    <3>1. PICK j \in 1 .. 4 : i = 18 + j
      <4>1. i - 18 \in 1 .. 4 /\ i = 18 + (i - 18)
        BY <2>3
      <4> QED
        BY <4>1
    <3> QED
      BY <1>3, <1>12, <3>1, Zenon
  <2> QED
    BY <2>1, <2>2, <2>3
<1>15. \A i \in 1 .. 6 : UpgradeExtension[i][1] \in 2 .. 5
  BY <1>1, <1>12
<1> QED
  BY <1>11, <1>14, <1>15 DEF e

LEMMA LaterPart ==
    ASSUME NEW n \in Nat, 6 <= n
    PROVE  SubSeq(UpgradeExtension, n + 1, 22) \in Seq(LaterSteps)
<1>1. \A i \in n + 1 .. 22 : UpgradeExtension[i] \in LaterSteps
  BY StepsAre DEF LaterSteps
<1> QED
  BY <1>1, SubSeqProperties

(* An upgrade from version 5 on does not ask for a scan. *)
LEMMA StepsFromLater ==
    ASSUME NEW v \in 5 .. RINGTONE_RDB_VERSION
    PROVE  StepsFrom(v) \in Seq(LaterSteps)
<1> DEFINE past == {i \in DOMAIN UpgradeExtension : UpgradeExtension[i][1] <= v}
           n == Cardinality(past)
<1>1. past \subseteq 1 .. 22
  BY StepsAre
<1>2. 1 .. 6 \subseteq past
  BY StepsAre DEF RINGTONE_RDB_VERSION
<1>3. StepsFrom(v) = SubSeq(UpgradeExtension, n + 1, 22)
  BY StepsAre, Zenon DEF StepsFrom
<1> HIDE DEF past
<1>4. IsFiniteSet(1 .. 22) /\ Cardinality(1 .. 6) = 6
  <2>1. \A m, k \in Int : IsFiniteSet(m .. k) /\ Cardinality(m .. k) = IF m > k THEN 0 ELSE k - m + 1
    BY FS_Interval
  <2>2. 1 \in Int /\ 6 \in Int /\ 22 \in Int /\ ~(1 > 6) /\ 6 - 1 + 1 = 6
    OBVIOUS
  <2>3. Cardinality(1 .. 6) = IF 1 > 6 THEN 0 ELSE 6 - 1 + 1
    BY <2>1, <2>2, Zenon
  <2>4. IsFiniteSet(1 .. 22)
    BY <2>1, <2>2, Zenon
  <2> QED
    BY <2>2, <2>3, <2>4
<1>5. IsFiniteSet(past)
  BY <1>1, <1>4, FS_Subset
<1>6. n \in Nat /\ 6 <= n
  BY <1>2, <1>4, <1>5, FS_CardinalityType, FS_Subset
<1> HIDE DEF n
<1> QED
  BY <1>3, <1>6, LaterPart

LEMMA LaterIsNotScan ==
    ASSUME NEW todo \in Seq(LaterSteps), todo # <<>>
    PROVE  /\ Head(todo)[2] # "scanAgain"
           /\ Tail(todo) \in Seq(LaterSteps)
           /\ SubSeq(todo, 7, Len(todo)) \in Seq(LaterSteps)
<1>1. Head(todo) \in LaterSteps /\ Tail(todo) \in Seq(LaterSteps)
  OBVIOUS
<1>2. \A s \in LaterSteps : s[2] # "scanAgain"
  BY StepsAre DEF LaterSteps
<1>3. SubSeq(todo, 7, Len(todo)) \in Seq(LaterSteps)
  OBVIOUS
<1> QED
  BY <1>1, <1>2, <1>3

-----------------------------------------------------------------------------
(* Up to the upgrade *)

(* What a step leaves of the user's tones depends on rows, files and what is excused. *)
LEMMA PlaysOn ==
    ASSUME NEW t, NEW R, NEW S, NEW F, NEW G, NEW U, NEW V,
           Plays(R, t, F, U), t \in DOMAIN S, S[t].source = R[t].source, S[t].place = R[t].place,
           U \subseteq V, <<t, "old">> \in F => <<t, "old">> \in G,
           {<<t, "new">>, <<t, "tmp">>} \cap F # {} => {<<t, "new">>, <<t, "tmp">>} \cap G # {}
    PROVE  Plays(S, t, G, V)
BY DEF Plays

LEMMA PlaysRighted ==
    ASSUME NEW t, NEW R, NEW S, NEW F, NEW U, Plays(R, t, F, U), Righted(R, S)
    PROVE  Plays(S, t, F, U)
BY DEF Plays, Righted

LEMMA OpeningKeeps ==
    ASSUME TypeInv, FactoryInv, ChecMoveDb \/ MoveEL2DBToEL1DB \/ SetMoveEL2DBToEL1
    PROVE  FactoryInv' /\ \A t \in Paths : Kept(t) => Kept(t)'
<1>1. UNCHANGED <<job, first, known, scan, clients, history, crashes>> /\ UNCHANGED <<files, folder>>
  BY Zenon DEF ChecMoveDb, MoveEL2DBToEL1DB, SetMoveEL2DBToEL1, Calm, others
<1>2. /\ DbsOK(dbs) /\ prefs.completed \in BOOLEAN
      /\ prefs \in [completed : BOOLEAN, initScanner : BOOLEAN, eSimTime : {"none", "recent", "old"}]
  BY DEF TypeInv, Stored
<1>3. CASE ChecMoveDb
  <2>1. phase = "off" /\ UNCHANGED <<dbs, prefs>>
    BY <1>3, Zenon DEF ChecMoveDb
  <2>2. FactoryInv'
    BY <1>1, <2>1 DEF FactoryInv, Presets
  <2>3. CASE phase' = "off" /\ work' = work
    BY <1>1, <2>1, <2>2, <2>3 DEF Kept, InEl1, InEl2, Stays, Copying
  <2>4. CASE /\ phase' = "open"
             /\ work' = [NoWork EXCEPT !.open = IF ~prefs.completed /\ job.el2Completed THEN "el2" ELSE "el1"]
    <3>1. work'.open = IF ~prefs.completed /\ job.el2Completed THEN "el2" ELSE "el1"
      BY <2>4 DEF NoWork
    <3> QED
      BY <1>1, <2>1, <2>2, <2>4, <3>1 DEF Kept, InEl1, InEl2, Stays, Copying
  <2> QED
    BY <1>3, <2>3, <2>4, Zenon DEF ChecMoveDb, Then
<1>4. CASE MoveEL2DBToEL1DB
  <2>1. phase = "backup" /\ prefs' = prefs /\ work' = work
    BY <1>4, Zenon DEF MoveEL2DBToEL1DB, Then
  <2>2. CASE dbs' = [dbs EXCEPT !.el1 = dbs.el2] /\ phase' = "moved"
    <3> DEFINE db == dbs.el2
    <3>1. IsDb(db) /\ dbs' = [dbs EXCEPT !["el1"] = db]
      BY <1>2, <2>2 DEF DbsOK
    <3>2. dbs'.el1 = db /\ dbs'.el2 = db
      BY <1>2, <3>1, SetDbTypes
    <3>3. FactoryInv'
      BY <1>1, <3>2 DEF FactoryInv, Presets
    <3> QED
      BY <1>1, <2>1, <2>2, <3>2, <3>3 DEF Kept, InEl1, InEl2, Copying
  <2>3. CASE phase' = "off" /\ dbs' = dbs
    <3>1. FactoryInv'
      BY <1>1, <2>3 DEF FactoryInv, Presets
    <3> QED
      BY <1>1, <2>1, <2>3, <3>1 DEF Kept, InEl1, InEl2, Copying
  <2> QED
    BY <1>4, <2>2, <2>3, Zenon DEF MoveEL2DBToEL1DB, Then
<1>5. CASE SetMoveEL2DBToEL1
  <2>1. phase = "moved" /\ phase' = "open" /\ work' = NoWork /\ dbs' = dbs
    BY <1>5, Zenon DEF SetMoveEL2DBToEL1
  <2>2. FactoryInv'
    BY <1>1, <2>1 DEF FactoryInv, Presets
  <2>3. dbs.el1.version = RINGTONE_RDB_VERSION /\ work'.open = "el1"
    BY <2>1 DEF TypeInv, Staged, NoWork
  <2>4. prefs'.completed \/ job.failures # 0
    <3>1. prefs' = [prefs EXCEPT !.completed = TRUE] \/ Fails
      BY <1>5, Zenon DEF SetMoveEL2DBToEL1
    <3>2. job.failures \in Nat /\ failures \in Nat
      BY JobIs DEF IsJob, TypeInv, Counted
    <3> QED
      BY <1>2, <3>1, <3>2 DEF Fails
  <2> QED
    BY <1>1, <2>1, <2>2, <2>3, <2>4 DEF Kept, InEl1, InEl2, Stays, Copying, RINGTONE_RDB_VERSION
<1> QED
  BY <1>3, <1>4, <1>5

LEMMA OnCreateKeeps ==
    ASSUME TypeInv, FactoryInv, OnCreate
    PROVE  FactoryInv' /\ \A t \in Paths : Kept(t) => Kept(t)'
<1>1. /\ phase = "open" /\ Db.version = 0 /\ job' = job /\ scan' = scan
      /\ \/ dbs' = [dbs EXCEPT ![work.open] = NewDb]
         \/ dbs' = dbs
  BY OnCreateIs DEF others
<1>2. DbsOK(dbs) /\ work.open \in {"el1", "el2"} /\ IsDb(Db) /\ IsDb(NewDb)
  BY OpenDb, NewDbTypes DEF UsedDb
<1>3. Db.rows = <<>>
  BY <1>1, <1>2 DEF IsDb, NoDb
<1>4. ASSUME NEW t \in Paths PROVE ~Kept(t)
  BY <1>1, <1>3, OpenDb DEF Kept, InEl1, InEl2, Plays
<1>5. FactoryInv'
  <2>1. CASE dbs' = dbs
    BY <1>1, <2>1 DEF FactoryInv, Presets
  <2>2. CASE dbs' = [dbs EXCEPT ![work.open] = NewDb]
    <3>1. /\ work.open = "el1" => dbs'.el1 = NewDb /\ dbs'.el2 = dbs.el2
          /\ work.open = "el2" => dbs'.el2 = NewDb /\ dbs'.el1 = dbs.el1
      <4> DEFINE area == work.open
                 db == NewDb
      <4> HIDE DEF area, db
      <4>1. area \in {"el1", "el2"} /\ IsDb(db) /\ dbs' = [dbs EXCEPT ![area] = db]
        BY <1>2, <2>2 DEF area, db
      <4> QED
        BY <1>2, <4>1, SetDbTypes DEF area, db
    <3>2. NewDb.rows = <<>>
      BY DEF NewDb
    <3> QED
      BY <1>1, <1>2, <3>1, <3>2 DEF FactoryInv, Presets
  <2> QED
    BY <1>1, <2>1, <2>2
<1> QED
  BY <1>4, <1>5

LEMMA BeginUpgradeKeeps ==
    ASSUME TypeInv, FactoryInv, BeginUpgrade
    PROVE  FactoryInv' /\ \A t \in Paths : Kept(t) => Kept(t)'
<1>1. /\ phase = "open" /\ Db.version # 0 /\ phase' = "upgrade"
      /\ work' = [work EXCEPT !.todo = StepsFrom(Db.version)]
      /\ UNCHANGED <<job, scan, history, dbs, prefs, files>>
  BY DEF BeginUpgrade, Calm, others, storage
<1>2. PICK todo : todo = StepsFrom(Db.version)
  OBVIOUS
<1>3. WorkOK(work) /\ IsDb(Db)
  BY OpenDb DEF TypeInv, Memory
<1>4. work'.open = work.open /\ work'.todo = todo
  BY <1>1, <1>2, <1>3 DEF WorkOK
<1>5. Db.version \in 1 .. RINGTONE_RDB_VERSION
  BY <1>1, <1>3 DEF IsDb, DbOK, RINGTONE_RDB_VERSION
<1>6. work.open = "el1" /\ dbs.el1.version \notin 1 .. 4 => todo \in Seq(LaterSteps)
  <2> DEFINE v == Db.version
  <2> HIDE DEF v
  <2>1. work.open = "el1" => v = dbs.el1.version
    BY OpenDb DEF v
  <2>2. v \in 5 .. RINGTONE_RDB_VERSION => StepsFrom(v) \in Seq(LaterSteps)
    BY StepsFromLater
  <2>3. v \in 1 .. RINGTONE_RDB_VERSION /\ todo = StepsFrom(v)
    BY <1>2, <1>5 DEF v
  <2> QED
    BY <2>1, <2>2, <2>3 DEF RINGTONE_RDB_VERSION
<1>7. FactoryInv'
  BY <1>1 DEF FactoryInv, Presets
<1> QED
  BY <1>1, <1>4, <1>6, <1>7 DEF Kept, InEl1, InEl2, Stays, Copying

LEMMA EndUpgradeKeeps ==
    ASSUME TypeInv, FactoryInv, EndUpgrade
    PROVE  FactoryInv' /\ \A t \in Paths : Kept(t) => Kept(t)'
<1>1. /\ phase = "upgrade" /\ UNCHANGED <<job, prefs, files, work, scan, history>>
      /\ phase' = IF work.open = "el2" THEN "backup" ELSE "defaults"
  BY EndUpgradeIs DEF others
<1>2. PICK db : /\ UsedDb(db) /\ db.version = RINGTONE_RDB_VERSION /\ db.rows = Db.rows
                /\ dbs' = [dbs EXCEPT ![work.open] = db]
  BY EndUpgradeIs
<1>3. DbsOK(dbs) /\ work.open \in {"el1", "el2"}
  BY OpenDb
<1>4. /\ work.open = "el1" => dbs'.el1 = db /\ dbs'.el2 = dbs.el2
      /\ work.open = "el2" => dbs'.el2 = db /\ dbs'.el1 = dbs.el1
  <2> DEFINE area == work.open
  <2> HIDE DEF area
  <2>1. area \in {"el1", "el2"} /\ IsDb(db) /\ dbs' = [dbs EXCEPT ![area] = db]
    BY <1>2, <1>3 DEF area, UsedDb
  <2> QED
    BY <1>3, <2>1, SetDbTypes DEF area
<1>5. /\ dbs'.el1.rows = dbs.el1.rows /\ dbs'.el2.rows = dbs.el2.rows
      /\ work.open = "el1" => dbs'.el1.version = RINGTONE_RDB_VERSION
      /\ work.open = "el2" => dbs'.el1 = dbs.el1
  BY <1>2, <1>3, <1>4, OpenDb
<1>6. FactoryInv'
  BY <1>1, <1>5 DEF FactoryInv, Presets
<1> QED
  BY <1>1, <1>5, <1>6 DEF Kept, InEl1, InEl2, Stays, Copying, RINGTONE_RDB_VERSION

LEMMA DiesKeeps ==
    ASSUME TypeInv, Dies, job' = job, files' = files,
           prefs'.completed = prefs.completed \/ ~job.el2Completed,
           dbs'.el1.version = dbs.el1.version, NEW t \in Paths
    PROVE  /\ InEl1(t) /\ Plays(dbs'.el1.rows, t, files, history.unsaved) => InEl1(t)' /\ Copying(t)'
           /\ /\ InEl2(t) /\ Plays(dbs'.el2.rows, t, files, history.unsaved)
              /\ t \in DOMAIN dbs'.el1.rows => Plays(dbs'.el1.rows, t, files, history.unsaved)
              => InEl2(t)'
<1>1. phase' = "off" /\ work' = NoWork /\ job.crashes # 0
  BY JobIs DEF Dies, IsJob, TypeInv, Counted
<1>2. history'.unsaved = history.unsaved
  BY DEF Dies, TypeInv, Memory, HistoryOK
<1>3. work'.open = "el1"
  BY <1>1 DEF NoWork
<1> QED
  BY <1>1, <1>2, <1>3 DEF InEl1, InEl2, Stays, Copying

LEMMA MidKeeps ==
    ASSUME TypeInv, FactoryInv, Mid
    PROVE  FactoryInv' /\ \A t \in Paths : Kept(t) => Kept(t)'
<1>1. /\ phase = "upgrade" /\ UNCHANGED <<job, files, folder>>
      /\ \/ prefs' = prefs
         \/ At("scanAgain") /\ prefs' = [prefs EXCEPT !.completed = FALSE]
         \/ prefs' = [prefs EXCEPT !.eSimTime = "recent"]
      /\ Passed
  BY MidPasses
<1>2. PICK db : Carried(db)
  BY MidPasses
<1>3. DbsOK(dbs) /\ work.open \in {"el1", "el2"} /\ UsedDb(Db)
  BY <1>1, OpenDb
<1>4. UsedDb(db) /\ db.version = Db.version /\ Righted(Db.rows, db.rows) /\ dbs' = [dbs EXCEPT ![work.open] = db]
  BY <1>2 DEF Carried, SetDb
<1>5. /\ work.open = "el1" => dbs'.el1 = db /\ dbs'.el2 = dbs.el2
      /\ work.open = "el2" => dbs'.el2 = db /\ dbs'.el1 = dbs.el1
  <2> DEFINE area == work.open
  <2> HIDE DEF area
  <2>1. area \in {"el1", "el2"} /\ IsDb(db) /\ dbs' = [dbs EXCEPT ![area] = db]
    BY <1>3, <1>4 DEF area, UsedDb
  <2> QED
    BY <1>3, <2>1, SetDbTypes DEF area
<1>6. /\ dbs'.el1.version = dbs.el1.version
      /\ Righted(dbs.el1.rows, dbs'.el1.rows) /\ Righted(dbs.el2.rows, dbs'.el2.rows)
      /\ work.open = "el2" => dbs'.el1 = dbs.el1
  <2>1. Table(dbs.el1.rows) /\ Table(dbs.el2.rows)
    BY <1>3, IsDbTable DEF DbsOK
  <2> QED
    BY <1>3, <1>4, <1>5, <2>1, OpenDb, RightedSame
<1>7. scan.buffer = NoScan.buffer
  BY <1>1 DEF TypeInv, Memory, ScanOK, Staged, After
<1>8. scan'.buffer = NoScan.buffer
  BY <1>1, <1>7 DEF Passed, Advanced, Dies
<1>9. FactoryInv'
  <2>1. Presets(dbs.el1.rows) /\ Presets(dbs.el2.rows)
    BY DEF FactoryInv
  <2>2. \A R, S : Presets(R) /\ Righted(R, S) => \A t \in job.factory \cap DOMAIN S : S[t].source = "preset"
    BY DEF Presets, Righted
  <2>3. Presets(dbs.el1.rows)' /\ Presets(dbs.el2.rows)'
    BY <1>1, <1>6, <2>1, <2>2 DEF Presets
  <2> QED
    BY <1>8, <2>3 DEF FactoryInv, NoScan
<1>10. prefs \in [completed : BOOLEAN, initScanner : BOOLEAN, eSimTime : {"none", "recent", "old"}]
  BY DEF TypeInv, Stored
<1>11. /\ prefs'.completed => prefs.completed
       /\ ~At("scanAgain") => prefs'.completed = prefs.completed
  BY <1>1, <1>10
<1>12. work.todo \in Seq(LaterSteps) => ~At("scanAgain")
  <2> DEFINE w == work.todo
  <2>1. w # <<>> /\ (At("scanAgain") => Head(w)[2] = "scanAgain")
    BY SomeStepIsLeft DEF At
  <2> HIDE DEF w
  <2>2. w \in Seq(LaterSteps) => ~At("scanAgain")
    BY <2>1, LaterIsNotScan
  <2> QED
    BY <2>2 DEF w
<1>13. ASSUME NEW t \in Paths, Kept(t) PROVE Kept(t)'
  <2>1. Plays(dbs.el1.rows, t, files, history.unsaved) => Plays(dbs'.el1.rows, t, files, history.unsaved)
    BY <1>6, PlaysRighted
  <2>2. Plays(dbs.el2.rows, t, files, history.unsaved) => Plays(dbs'.el2.rows, t, files, history.unsaved)
    BY <1>6, PlaysRighted
  <2>3. DOMAIN dbs'.el1.rows = DOMAIN dbs.el1.rows
    BY <1>6 DEF Righted
  <2>4. CASE \E todo \in {Tail(work.todo), SubSeq(work.todo, 7, Len(work.todo))} : Advanced(todo)
    <3>1. PICK todo \in {Tail(work.todo), SubSeq(work.todo, 7, Len(work.todo))} : Advanced(todo)
      BY <2>4
    <3>2. phase' = "upgrade" /\ work' = [work EXCEPT !.todo = todo] /\ history'.unsaved = history.unsaved
      BY <3>1 DEF Advanced
    <3>3. work'.open = work.open /\ work'.todo = todo
      BY <3>2 DEF TypeInv, Memory, WorkOK
    <3>4. work.todo \in Seq(LaterSteps) => todo \in Seq(LaterSteps)
      <4> DEFINE w == work.todo
      <4>1. w # <<>> /\ todo \in {Tail(w), SubSeq(w, 7, Len(w))}
        BY <3>1, SomeStepIsLeft
      <4> HIDE DEF w
      <4>2. w \in Seq(LaterSteps) => todo \in Seq(LaterSteps)
        BY <4>1, LaterIsNotScan
      <4> QED
        BY <4>2 DEF w
    <3>5. CASE InEl1(t)
      <4>1. Stays'
        BY <1>1, <1>6, <1>11, <1>12, <3>2, <3>3, <3>4, <3>5 DEF InEl1, Stays
      <4> QED
        BY <1>1, <2>1, <3>2, <3>3, <3>5, <4>1 DEF Kept, InEl1, Copying
    <3>6. CASE InEl2(t)
      BY <1>1, <1>6, <1>11, <2>2, <3>2, <3>3, <3>6 DEF Kept, InEl2
    <3> QED
      BY <1>13, <3>5, <3>6 DEF Kept
  <2>5. CASE Dies /\ failures' = failures
    <3>1. job.crashes # 0
      BY <2>5, JobIs DEF Dies, IsJob, TypeInv, Counted
    <3>2. prefs'.completed = prefs.completed \/ ~job.el2Completed
      <4>1. prefs.completed \in BOOLEAN /\ prefs'.completed \in BOOLEAN
        BY <1>1, <1>10
      <4>2. CASE InEl1(t)
        BY <1>1, <1>11, <1>12, <3>1, <4>2 DEF InEl1, Stays
      <4>3. CASE InEl2(t)
        BY <1>11, <4>1, <4>3 DEF InEl2
      <4> QED
        BY <1>13, <4>2, <4>3 DEF Kept
    <3>3. InEl1(t) => InEl1(t)' /\ Copying(t)'
      BY <1>1, <1>6, <2>1, <2>5, <3>2, DiesKeeps DEF InEl1
    <3>4. InEl2(t) => InEl2(t)'
      BY <1>1, <1>6, <2>1, <2>2, <2>3, <2>5, <3>2, DiesKeeps DEF InEl2
    <3> QED
      BY <1>13, <3>3, <3>4 DEF Kept
  <2> QED
    BY <1>1, <2>4, <2>5 DEF Passed
<1> QED
  BY <1>9, <1>13

-----------------------------------------------------------------------------
(* From the upgrade on *)

(* A step that goes on, or that the process does not survive. *)
Onward ==
    /\ phase \in After /\ job' = job /\ prefs'.completed = prefs.completed
    /\ dbs'.el1.version = dbs.el1.version /\ dbs'.el2 = dbs.el2
    /\ \/ phase' \in After /\ work'.open = "el1"
       \/ phase' = "off" /\ work' = NoWork /\ job.crashes # 0

LEMMA KeptAfter ==
    ASSUME phase \in After, NEW t, Kept(t)
    PROVE  InEl1(t) /\ Copying(t)
BY DEF After, Kept, InEl2

LEMMA OnwardKeeps ==
    ASSUME TypeInv, Onward, NEW t \in Paths, InEl1(t), Plays(dbs'.el1.rows, t, files', history'.unsaved)
    PROVE  InEl1(t)'
<1>1. work'.open = "el1" /\ phase' \notin {"backup", "moved", "upgrade"}
  <2>1. NoWork.open = "el1"
    BY DEF NoWork
  <2>2. work'.open = "el1"
    BY <2>1, Zenon DEF Onward
  <2> QED
    BY <2>2 DEF Onward, After
<1>2. Stays'
  BY <1>1 DEF Onward, InEl1, Stays, After
<1> QED
  BY <1>1, <1>2 DEF InEl1

LEMMA EndsOnward ==
    ASSUME TypeInv, phase \in After, NEW done, NEW next \in After, NEW memory, memory.open = "el1",
           Ends(done, next, memory), UNCHANGED <<job, prefs>>,
           dbs'.el1.version = dbs.el1.version, dbs'.el2 = dbs.el2
    PROVE  /\ Onward /\ history'.unsaved = history.unsaved
           /\ phase' = next \/ phase' = "off"
           /\ scan'.buffer \in {scan.buffer, NoScan.buffer}
<1>1. CASE phase' = next /\ work' = memory /\ UNCHANGED <<first, known, others, crashes>>
  BY <1>1 DEF Onward, others
<1>2. CASE Dies
  <2>1. phase' = "off" /\ work' = NoWork /\ job.crashes # 0 /\ scan' = NoScan
    BY <1>2, JobIs DEF Dies, IsJob, TypeInv, Counted
  <2>2. history'.unsaved = history.unsaved
    BY <1>2 DEF Dies, TypeInv, Memory, HistoryOK
  <2> QED
    BY <2>1, <2>2 DEF Onward
<1> QED
  BY <1>1, <1>2 DEF Ends

(* The presets stay presets, if no row changes hands. *)
LEMMA FactoryKept ==
    ASSUME FactoryInv, job' = job, dbs'.el2 = dbs.el2, scan'.buffer \in {scan.buffer, NoScan.buffer},
           DOMAIN dbs'.el1.rows = DOMAIN dbs.el1.rows,
           \A t \in DOMAIN dbs.el1.rows : dbs'.el1.rows[t].source = dbs.el1.rows[t].source
    PROVE  FactoryInv'
<1>1. Presets(dbs.el1.rows)' /\ Presets(dbs.el2.rows)'
  BY DEF FactoryInv, Presets
<1>2. DOMAIN NoScan.buffer.rows = {}
  BY DEF NoScan
<1> QED
  BY <1>1, <1>2 DEF FactoryInv

(* Files are renamed from the folder to the temporary one, or back. *)
LEMMA Renamed ==
    ASSUME NEW from \in {"new", "tmp"}, NEW to \in {"new", "tmp"}, NEW gone, gone \subseteq In(from), NEW F,
           F = (files \ gone) \cup Moved(gone, to), NEW t
    PROVE  /\ <<t, "old">> \in files => <<t, "old">> \in F
           /\ {<<t, "new">>, <<t, "tmp">>} \cap files # {} => {<<t, "new">>, <<t, "tmp">>} \cap F # {}
<1>1. <<t, "old">> \notin gone
  BY DEF In
<1>2. ASSUME NEW p \in {"new", "tmp"}, <<t, p>> \in gone PROVE <<t, to>> \in F
  <2> DEFINE f == <<t, p>>
  <2>1. f[1] = t /\ f \in gone
    BY <1>2
  <2> HIDE DEF f
  <2> QED
    BY <2>1 DEF Moved
<1> QED
  BY <1>1, <1>2

LEMMA FolderKeeps ==
    ASSUME TypeInv, FactoryInv, CheckRingtoneDbDefaultSettings \/ AccessRingtoneDir \/ CreatePreloadFolder
    PROVE  FactoryInv' /\ \A t \in Paths : Kept(t) => Kept(t)'
<1>1. /\ UNCHANGED <<job, scan, history, dbs, work>>
      /\ phase \in {"defaults", "dir", "makeDir"} /\ phase' \in {"dir", "scan", "makeDir", "moveBack"}
  BY DEF CheckRingtoneDbDefaultSettings, AccessRingtoneDir, CreatePreloadFolder, Calm, Then, others
<1>2. phase \in After /\ phase' \in After \ {"copy", "save"}
  BY <1>1 DEF After
<1>3. prefs'.completed = prefs.completed
  <2>1. CASE CheckRingtoneDbDefaultSettings
    <3> DEFINE b == prefs.initScanner \/ \E x \in DOMAIN dbs.el1.conf :
                        x = <<"ring", "SIM1">> /\ dbs.el1.conf[x] # "null"
    <3>1. prefs' = [prefs EXCEPT !.initScanner = b] \/ prefs' = prefs
      BY <2>1, Zenon DEF CheckRingtoneDbDefaultSettings
    <3> HIDE DEF b
    <3> QED
      BY <3>1 DEF TypeInv, Stored
  <2>2. CASE AccessRingtoneDir \/ CreatePreloadFolder
    BY <2>2 DEF AccessRingtoneDir, CreatePreloadFolder
  <2> QED
    BY <2>1, <2>2
<1>4. \/ files' = files
      \/ files' = (files \ In("new")) \cup Moved(In("new"), "tmp")
      \/ files' = (files \ In("tmp")) \cup Moved(In("tmp"), "new")
  BY DEF CheckRingtoneDbDefaultSettings, AccessRingtoneDir, CreatePreloadFolder
<1>5. FactoryInv'
  BY <1>1, FactoryKept
<1>6. Onward
  BY <1>1, <1>2, <1>3, InUse DEF Onward
<1>7. ASSUME NEW t \in Paths, Kept(t) PROVE Kept(t)'
  <2>1. InEl1(t)
    BY <1>2, <1>7, KeptAfter
  <2> DEFINE R == dbs.el1.rows
             U == history.unsaved
  <2>2. /\ <<t, "old">> \in files => <<t, "old">> \in files'
        /\ {<<t, "new">>, <<t, "tmp">>} \cap files # {} => {<<t, "new">>, <<t, "tmp">>} \cap files' # {}
    BY <1>4, Renamed
  <2>3. Plays(R, t, files, U) /\ t \in DOMAIN R
    BY <2>1 DEF InEl1, Plays
  <2>4. Plays(dbs'.el1.rows, t, files', history'.unsaved)
    <3> HIDE DEF R, U
    <3>1. Plays(R, t, files', U)
      BY <2>2, <2>3, PlaysOn
    <3> QED
      BY <1>1, <3>1 DEF R, U
  <2>5. InEl1(t)'
    BY <1>6, <2>1, <2>4, OnwardKeeps
  <2> QED
    BY <1>2, <2>5 DEF Kept, Copying
<1> QED
  BY <1>5, <1>7

LEMMA MoveBackKeeps ==
    ASSUME TypeInv, FactoryInv, MoveDirectory
    PROVE  FactoryInv' /\ \A t \in Paths : Kept(t) => Kept(t)'
<1>1. phase = "moveBack" /\ phase \in After /\ UNCHANGED <<job, dbs, prefs, folder>>
  BY DEF MoveDirectory, After
<1>2. PICK gone \in SUBSET In("tmp") :
        files' = (files \ gone) \cup Moved(gone, "new") /\ Ends(gone = In("tmp"), "scan", work)
  BY DEF MoveDirectory
<1>3. work.open = "el1"
  BY <1>1, InUse
<1>4. /\ Onward /\ history'.unsaved = history.unsaved /\ phase' \in {"scan", "off"}
      /\ scan'.buffer \in {scan.buffer, NoScan.buffer}
  <2> DEFINE done == gone = In("tmp")
  <2>1. Ends(done, "scan", work) /\ "scan" \in After
    BY <1>2 DEF After
  <2> HIDE DEF done
  <2> QED
    BY <1>1, <1>3, <2>1, EndsOnward
<1>5. FactoryInv'
  BY <1>1, <1>4, FactoryKept
<1>6. ASSUME NEW t \in Paths, Kept(t) PROVE Kept(t)'
  <2>1. InEl1(t)
    BY <1>1, <1>6, KeptAfter
  <2> DEFINE R == dbs.el1.rows
             U == history.unsaved
  <2>2. /\ <<t, "old">> \in files => <<t, "old">> \in files'
        /\ {<<t, "new">>, <<t, "tmp">>} \cap files # {} => {<<t, "new">>, <<t, "tmp">>} \cap files' # {}
    BY <1>2, Renamed
  <2>3. Plays(R, t, files, U) /\ t \in DOMAIN R
    BY <2>1 DEF InEl1, Plays
  <2>4. Plays(dbs'.el1.rows, t, files', history'.unsaved)
    <3> HIDE DEF R, U
    <3>1. Plays(R, t, files', U)
      BY <2>2, <2>3, PlaysOn
    <3> QED
      BY <1>1, <1>4, <3>1 DEF R, U
  <2>5. InEl1(t)'
    BY <1>4, <2>1, <2>4, OnwardKeeps
  <2> QED
    BY <1>4, <2>5 DEF Kept, Copying
<1> QED
  BY <1>5, <1>6

LEMMA ScannerKeeps ==
    ASSUME TypeInv, FactoryInv, RingtoneScanner \/ WaitFor
    PROVE  FactoryInv' /\ \A t \in Paths : Kept(t) => Kept(t)'
<1>1. /\ phase \in {"scan", "wait"} /\ UNCHANGED <<job, dbs, prefs, files>> /\ work' = work
      /\ phase' \in {"paths", "wait"}
      /\ scan' \in {scan, [NoScan EXCEPT !.phase = "walk"]}
      /\ history' = history \/ \E late : history' = [history EXCEPT !.late = late]
  <2>1. CASE RingtoneScanner
    BY <2>1 DEF RingtoneScanner, Then
  <2>2. CASE WaitFor
    BY <2>2 DEF WaitFor, Then, storage
  <2> QED
    BY <2>1, <2>2
<1>2. phase \in After /\ phase' \in After \ {"copy", "save"}
  BY <1>1 DEF After
<1>3. history'.unsaved = history.unsaved
  BY <1>1 DEF TypeInv, Memory, HistoryOK
<1>4. FactoryInv'
  <2>1. scan'.buffer \in {scan.buffer, NoScan.buffer}
    BY <1>1 DEF NoScan
  <2> QED
    BY <1>1, <2>1, FactoryKept
<1>5. Onward
  BY <1>1, <1>2, InUse DEF Onward
<1>6. ASSUME NEW t \in Paths, Kept(t) PROVE Kept(t)'
  <2>1. InEl1(t)
    BY <1>2, <1>6, KeptAfter
  <2>2. Plays(dbs'.el1.rows, t, files', history'.unsaved)
    BY <1>1, <1>3, <2>1 DEF InEl1
  <2>3. InEl1(t)'
    BY <1>5, <2>1, <2>2, OnwardKeeps
  <2> QED
    BY <1>2, <2>3 DEF Kept, Copying
<1> QED
  BY <1>4, <1>6

LEMMA QueryKeeps ==
    ASSUME TypeInv, FactoryInv, QueryOldPaths
    PROVE  FactoryInv' /\ \A t \in Paths : Kept(t) => Kept(t)'
<1>1. phase = "paths" /\ UNCHANGED <<job, scan, history, dbs, prefs, files>>
  BY DEF QueryOldPaths, Calm, others
<1> DEFINE due == {t \in DOMAIN rows : rows[t].place = "old"}
<1>2. \/ phase' = "ringtones" /\ work' = work
      \/ phase' = "copy" /\ work' = [work EXCEPT !.left = due, !.all = TRUE]
  BY DEF QueryOldPaths, Then
<1>3. phase \in After /\ phase' \in After \ {"save"}
  BY <1>1, <1>2 DEF After
<1>4. WorkOK(work) /\ work.open = "el1" /\ rows = dbs.el1.rows
  BY <1>3, InUse
<1>5. work'.open = "el1" /\ (phase' = "copy" => work'.left = due)
  <2> HIDE DEF due
  <2> QED
    BY <1>2, <1>4 DEF WorkOK
<1>6. FactoryInv'
  BY <1>1, FactoryKept
<1>7. Onward
  BY <1>1, <1>3, <1>5 DEF Onward
<1>8. ASSUME NEW t \in Paths, Kept(t) PROVE Kept(t)'
  <2>1. InEl1(t)
    BY <1>3, <1>8, KeptAfter
  <2>2. Plays(dbs'.el1.rows, t, files', history'.unsaved)
    BY <1>1, <2>1 DEF InEl1
  <2>3. InEl1(t)'
    BY <1>7, <2>1, <2>2, OnwardKeeps
  <2>4. Copying(t)'
    <3>1. t \in DOMAIN rows
      BY <1>4, <2>1 DEF InEl1, Plays
    <3>2. phase' = "copy" /\ dbs.el1.rows[t].place = "old" => t \in work'.left
      BY <1>4, <1>5, <3>1
    <3> QED
      BY <1>1, <1>3, <3>2 DEF Copying
  <2> QED
    BY <2>3, <2>4 DEF Kept
<1> QED
  BY <1>6, <1>8

LEMMA CopyKeeps ==
    ASSUME TypeInv, FactoryInv, CopyOldFile
    PROVE  FactoryInv' /\ \A t \in Paths : Kept(t) => Kept(t)'
<1>1. phase = "copy" /\ UNCHANGED <<job, scan, history, dbs, prefs>>
  BY CopyIs DEF others
<1>2. PICK q \in work.left, copied \in BOOLEAN, all \in BOOLEAN :
        /\ phase' = IF copied THEN "save" ELSE "copy"
        /\ work'.todo = IF copied THEN <<q>> ELSE <<>>
        /\ work'.open = work.open /\ work'.left = work.left \ {q}
        /\ work'.all = all /\ all = (work.all /\ copied)
        /\ files' = IF copied THEN files \cup {<<q, "new">>} ELSE files
  BY CopyIs
<1>3. phase \in After /\ phase' \in {"copy", "save"} /\ phase' \in After
  BY <1>1, <1>2 DEF After
<1>4. work.open = "el1"
  BY <1>3, InUse
<1>5. FactoryInv'
  BY <1>1, FactoryKept
<1>6. Onward
  BY <1>1, <1>2, <1>3, <1>4 DEF Onward
<1>7. copied => Head(work'.todo) = q
  <2>1. Head(<<q>>) = q
    OBVIOUS
  <2> QED
    BY <1>2, <2>1
<1>8. ASSUME NEW t \in Paths, Kept(t) PROVE Kept(t)'
  <2>1. InEl1(t) /\ Copying(t)
    BY <1>3, <1>8, KeptAfter
  <2> DEFINE R == dbs.el1.rows
             U == history.unsaved
  <2>2. Plays(R, t, files, U) /\ t \in DOMAIN R
    BY <2>1 DEF InEl1, Plays
  <2>3. files \subseteq files'
    BY <1>2
  <2>4. Plays(dbs'.el1.rows, t, files', history'.unsaved)
    <3> HIDE DEF R, U
    <3>1. Plays(R, t, files', U)
      BY <2>2, <2>3, PlaysOn
    <3> QED
      BY <1>1, <3>1 DEF R, U
  <2>5. InEl1(t)'
    BY <1>6, <2>1, <2>4, OnwardKeeps
  <2>6. Copying(t)'
    <3>1. work'.all /\ dbs'.el1.rows[t].place = "old" =>
            t \in work'.left \cup history'.unsaved \/ (phase' = "save" /\ t = Head(work'.todo))
      BY <1>1, <1>2, <1>7, <2>1 DEF Copying
    <3>2. phase' = "save" => <<Head(work'.todo), "new">> \in files'
      BY <1>2, <1>7
    <3> QED
      BY <3>1, <3>2 DEF Copying
  <2> QED
    BY <2>5, <2>6 DEF Kept
<1> QED
  BY <1>5, <1>8

LEMMA PathKeeps ==
    ASSUME TypeInv, FactoryInv, UpdatePath
    PROVE  FactoryInv' /\ \A t \in Paths : Kept(t) => Kept(t)'
<1> DEFINE q == Head(work.todo)
<1>1. /\ phase = "save" /\ phase' = "copy" /\ work' = [work EXCEPT !.todo = <<>>]
      /\ UNCHANGED <<job, prefs, files, scan>>
      /\ \/ /\ history' = history
            /\ \E R : /\ Table(R) /\ DOMAIN R = DOMAIN rows
                      /\ dbs' = [dbs EXCEPT !.el1.rows = R]
                      /\ \A t \in DOMAIN rows :
                            /\ R[t].source = rows[t].source
                            /\ t # q => R[t] = rows[t]
                            /\ t = q => R[t].place = "new"
         \/ dbs' = dbs /\ history'.unsaved = history.unsaved \cup {q}
  BY PathIs
<1> HIDE DEF q
<1>2. phase \in After /\ phase' \in After
  BY <1>1 DEF After
<1>3. WorkOK(work) /\ work.open = "el1" /\ rows = dbs.el1.rows
  BY <1>2, InUse
<1>4. work'.open = "el1" /\ work'.left = work.left /\ work'.all = work.all
  <2> DEFINE todo == <<>>
  <2>1. work' = [work EXCEPT !.todo = todo]
    BY <1>1
  <2> HIDE DEF todo
  <2> QED
    BY <1>3, <2>1, WorkWith
<1>5. /\ dbs'.el1.version = dbs.el1.version /\ dbs'.el2 = dbs.el2
      /\ DOMAIN dbs'.el1.rows = DOMAIN rows
      /\ \A t \in DOMAIN rows : dbs'.el1.rows[t].source = rows[t].source
      /\ \/ /\ history' = history
            /\ \A t \in DOMAIN rows : /\ t # q => dbs'.el1.rows[t] = rows[t]
                                      /\ t = q => dbs'.el1.rows[t].place = "new"
         \/ dbs' = dbs /\ history'.unsaved = history.unsaved \cup {q}
  <2>1. CASE dbs' = dbs /\ history'.unsaved = history.unsaved \cup {q}
    BY <1>3, <2>1
  <2>2. CASE /\ history' = history
             /\ \E R : /\ Table(R) /\ DOMAIN R = DOMAIN rows
                       /\ dbs' = [dbs EXCEPT !.el1.rows = R]
                       /\ \A t \in DOMAIN rows :
                            /\ R[t].source = rows[t].source
                            /\ t # q => R[t] = rows[t]
                            /\ t = q => R[t].place = "new"
    <3>1. PICK R : /\ Table(R) /\ DOMAIN R = DOMAIN rows
                   /\ dbs' = [dbs EXCEPT !.el1.rows = R]
                   /\ \A t \in DOMAIN rows :
                        /\ R[t].source = rows[t].source
                        /\ t # q => R[t] = rows[t]
                        /\ t = q => R[t].place = "new"
      BY <2>2
    <3>2. dbs'.el1.rows = R /\ dbs'.el2 = dbs.el2 /\ dbs'.el1.version = dbs.el1.version
      BY <1>2, <3>1, El1With
    <3> QED
      BY <2>2, <3>1, <3>2
  <2> QED
    BY <1>1, <2>1, <2>2
<1>6. FactoryInv'
  BY <1>1, <1>3, <1>5, FactoryKept
<1>7. Onward
  BY <1>1, <1>2, <1>4, <1>5 DEF Onward
<1>8. ASSUME NEW t \in Paths, Kept(t) PROVE Kept(t)'
  <2>1. InEl1(t) /\ Copying(t)
    BY <1>2, <1>8, KeptAfter
  <2>2. Plays(dbs.el1.rows, t, files, history.unsaved) /\ t \in DOMAIN rows
    BY <1>3, <2>1 DEF InEl1, Plays
  <2>3. <<q, "new">> \in files
    BY <1>1, <2>1 DEF Copying, q
  <2>4. Plays(dbs'.el1.rows, t, files', history'.unsaved)
    BY <1>1, <1>3, <1>5, <2>2, <2>3 DEF Plays
  <2>5. InEl1(t)'
    BY <1>7, <2>1, <2>4, OnwardKeeps
  <2>6. dbs'.el1.rows[t].place = "old" => dbs.el1.rows[t].place = "old" /\ (t = q => t \in history'.unsaved)
    BY <1>3, <1>5, <2>2
  <2>7. history.unsaved \subseteq history'.unsaved
    BY <1>5
  <2>8. work.all /\ dbs.el1.rows[t].place = "old" => t \in work.left \cup history.unsaved \/ t = q
    BY <1>1, <2>1 DEF Copying, q
  <2>9. Copying(t)'
    BY <1>1, <1>4, <2>6, <2>7, <2>8 DEF Copying
  <2> QED
    BY <2>5, <2>9 DEF Kept
<1> QED
  BY <1>6, <1>8

LEMMA RemoveKeeps ==
    ASSUME TypeInv, FactoryInv, RemoveRingtoneFolder
    PROVE  FactoryInv' /\ \A t \in Paths : Kept(t) => Kept(t)'
<1>1. phase = "copy" /\ phase \in After /\ work.left = {} /\ UNCHANGED <<job, dbs, prefs, folder>>
  BY DEF RemoveRingtoneFolder, After
<1>2. PICK gone \in SUBSET In("old") :
        /\ ~work.all => gone = {}
        /\ files' = files \ gone
        /\ Ends(work.all => gone = In("old"), "ringtones", work)
  BY DEF RemoveRingtoneFolder
<1>3. work.open = "el1"
  BY <1>1, InUse
<1>4. /\ Onward /\ history'.unsaved = history.unsaved /\ phase' \in {"ringtones", "off"}
      /\ scan'.buffer \in {scan.buffer, NoScan.buffer}
  <2> DEFINE done == work.all => gone = In("old")
  <2>1. Ends(done, "ringtones", work) /\ "ringtones" \in After
    BY <1>2 DEF After
  <2> HIDE DEF done
  <2> QED
    BY <1>1, <1>3, <2>1, EndsOnward
<1>5. FactoryInv'
  BY <1>1, <1>4, FactoryKept
<1>6. ASSUME NEW t \in Paths, Kept(t) PROVE Kept(t)'
  <2>1. InEl1(t) /\ Copying(t)
    BY <1>1, <1>6, KeptAfter
  <2>2. Plays(dbs.el1.rows, t, files, history.unsaved)
    BY <2>1 DEF InEl1
  <2>3. work.all /\ dbs.el1.rows[t].place = "old" => t \in history.unsaved
    BY <1>1, <2>1 DEF Copying
  <2>4. \A p \in {"new", "tmp"} : <<t, p>> \in files => <<t, p>> \in files'
    BY <1>2 DEF In
  <2>5. ~work.all => files' = files
    BY <1>2
  <2>6. Plays(dbs.el1.rows, t, files', history.unsaved)
    BY <2>2, <2>3, <2>4, <2>5 DEF Plays
  <2>7. Plays(dbs'.el1.rows, t, files', history'.unsaved)
    BY <1>1, <1>4, <2>6
  <2>8. InEl1(t)'
    BY <1>4, <2>1, <2>7, OnwardKeeps
  <2> QED
    BY <1>4, <2>8 DEF Kept, Copying
<1> QED
  BY <1>5, <1>6

LEMMA TitlesKeep ==
    ASSUME TypeInv, FactoryInv, UpdateRingtoneLanguage \/ UpdateVibrationLanguage
    PROVE  FactoryInv' /\ \A t \in Paths : Kept(t) => Kept(t)'
<1>1. UNCHANGED <<job, files, folder, prefs>> /\ phase \in {"ringtones", "vibrations"}
  BY DEF UpdateRingtoneLanguage, UpdateVibrationLanguage, Rest
<1>2. phase \in After
  BY <1>1 DEF After
<1>3. /\ Table(rows) /\ rows = dbs.el1.rows /\ Vibrations(dbs.el1.vibrations)
      /\ WorkOK(work) /\ work.open = "el1"
  BY <1>2, InUse
<1>4. /\ Onward /\ history'.unsaved = history.unsaved /\ phase' \in {"vibrations", "serving", "off"}
      /\ scan'.buffer \in {scan.buffer, NoScan.buffer}
      /\ DOMAIN dbs'.el1.rows = DOMAIN dbs.el1.rows
      /\ \A t \in DOMAIN dbs.el1.rows : /\ dbs'.el1.rows[t].source = dbs.el1.rows[t].source
                                        /\ dbs'.el1.rows[t].place = dbs.el1.rows[t].place
      /\ dbs'.el2 = dbs.el2
  <2>1. CASE UpdateRingtoneLanguage
    <3>1. PICK language, due, done :
            /\ language \in job.languages
            /\ dbs' = [dbs EXCEPT !.el1.rows = InLanguage(dbs.el1.rows, done, language)]
            /\ Ends(done = due, "vibrations", [work EXCEPT !.language = language])
      BY <2>1, Zenon DEF UpdateRingtoneLanguage
    <3>2. language \in Languages
      BY <3>1, JobIs DEF IsJob
    <3> DEFINE R == InLanguage(dbs.el1.rows, done, language)
               memory == [work EXCEPT !.language = language]
               all == done = due
    <3>3. dbs' = [dbs EXCEPT !.el1.rows = R] /\ Ends(all, "vibrations", memory)
      BY <3>1
    <3>4. /\ Table(R) /\ DOMAIN R = DOMAIN rows
          /\ \A t \in DOMAIN rows : R[t].source = rows[t].source /\ R[t].place = rows[t].place
      BY <1>3, <3>2, LanguageTypes
    <3>5. memory.open = "el1" /\ "vibrations" \in After
      BY <1>3 DEF WorkOK, After
    <3> HIDE DEF R, memory, all
    <3>6. dbs'.el1.rows = R /\ dbs'.el2 = dbs.el2 /\ dbs'.el1.version = dbs.el1.version
      BY <1>2, <3>3, <3>4, El1With
    <3> QED
      BY <1>1, <1>2, <1>3, <3>3, <3>4, <3>5, <3>6, EndsOnward
  <2>2. CASE UpdateVibrationLanguage
    <3>1. PICK due, done :
            /\ dbs' = [dbs EXCEPT !.el1.vibrations = InLanguage(dbs.el1.vibrations, done, work.language)]
            /\ Ends(done = due, "serving", work)
      BY <2>2, Zenon DEF UpdateVibrationLanguage
    <3>2. work.language \in Languages
      BY <2>2 DEF UpdateVibrationLanguage, TypeInv, Staged
    <3> DEFINE V == InLanguage(dbs.el1.vibrations, done, work.language)
               all == done = due
    <3>3. dbs' = [dbs EXCEPT !.el1.vibrations = V] /\ Ends(all, "serving", work)
      BY <3>1
    <3>4. Vibrations(V)
      BY <1>3, <3>2, LanguageTypes
    <3>5. "serving" \in After
      BY DEF After
    <3> HIDE DEF V, all
    <3>6. dbs'.el1.rows = dbs.el1.rows /\ dbs'.el2 = dbs.el2 /\ dbs'.el1.version = dbs.el1.version
      BY <1>2, <3>3, <3>4, El1With
    <3> QED
      BY <1>1, <1>2, <1>3, <3>3, <3>5, <3>6, EndsOnward
  <2> QED
    BY <2>1, <2>2
<1>5. FactoryInv'
  BY <1>1, <1>4, FactoryKept
<1>6. ASSUME NEW t \in Paths, Kept(t) PROVE Kept(t)'
  <2>1. InEl1(t)
    BY <1>2, <1>6, KeptAfter
  <2>2. Plays(dbs'.el1.rows, t, files', history'.unsaved)
    BY <1>1, <1>4, <2>1 DEF InEl1, Plays
  <2>3. InEl1(t)'
    BY <1>4, <2>1, <2>2, OnwardKeeps
  <2> QED
    BY <1>4, <2>3 DEF Kept, Copying
<1> QED
  BY <1>5, <1>6

-----------------------------------------------------------------------------
(* Beside OnStart *)

LEMMA BesideKeeps ==
    ASSUME TypeInv, phase \in After, UNCHANGED <<job, files, phase, work>>, prefs'.completed = prefs.completed,
           dbs'.el1.version = dbs.el1.version, dbs'.el2 = dbs.el2, history'.unsaved = history.unsaved,
           RowsKept(dbs.el1.rows, dbs'.el1.rows), NEW t \in Paths, Kept(t)
    PROVE  Kept(t)'
<1>1. InEl1(t) /\ Copying(t)
  BY KeptAfter
<1>2. /\ Plays(dbs.el1.rows, t, files, history.unsaved)
      /\ t \in DOMAIN dbs'.el1.rows /\ dbs'.el1.rows[t].source = dbs.el1.rows[t].source
      /\ dbs'.el1.rows[t].place = dbs.el1.rows[t].place
  BY <1>1 DEF InEl1, Plays, RowsKept
<1>3. Plays(dbs'.el1.rows, t, files', history'.unsaved)
  BY <1>2 DEF Plays
<1>4. Onward
  BY <1>1 DEF Onward, InEl1
<1>5. InEl1(t)'
  BY <1>1, <1>3, <1>4, OnwardKeeps
<1>6. Copying(t)'
  BY <1>1, <1>2 DEF Copying
<1> QED
  BY <1>5, <1>6 DEF Kept

LEMMA TunedKeeps == ASSUME NEW R, NEW new, Tuned(R, new) PROVE RowsKept(R, new)
BY DEF Tuned, SameTone, RowsKept

LEMMA BuildKeeps ==
    ASSUME TypeInv, FactoryInv, BuildData
    PROVE  FactoryInv' /\ \A t \in Paths : Kept(t) => Kept(t)'
<1>1. /\ scan.phase = "walk" /\ Apart /\ UNCHANGED <<dbs, prefs>>
      /\ scan'.buffer = [rows |-> Built, vibrations |-> BuiltVibrations]
  BY BuildIs
<1>2. phase \in After /\ Table(rows) /\ rows = dbs.el1.rows
  BY <1>1, Scanning, InUse
<1>3. scan'.buffer.rows = Built
  BY <1>1
<1>4. ASSUME NEW t \in job.factory PROVE Built[t].source = "preset"
  <2>1. CASE t \in DOMAIN rows
    <3> DEFINE r == rows[t]
               v == [r EXCEPT !.mime = TRUE, !.media = TRUE]
    <3>1. Built[t] = v /\ GoodRow(r) /\ r.source = "preset"
      BY <1>2, <2>1 DEF Built, Table, FactoryInv, Presets
    <3> HIDE DEF r
    <3>2. SameTone(v, r)
      BY <3>1, MediaKnown
    <3> QED
      BY <3>1, <3>2 DEF SameTone
  <2>2. CASE t \notin DOMAIN rows
    BY <2>2 DEF Built, NewTone
  <2> QED
    BY <2>1, <2>2
<1>5. DOMAIN Built = job.factory
  BY DEF Built
<1>6. FactoryInv'
  BY <1>1, <1>3, <1>4, <1>5 DEF FactoryInv, Presets, Apart
<1>7. RowsKept(dbs.el1.rows, dbs'.el1.rows)
  BY <1>1 DEF RowsKept
<1> QED
  BY <1>1, <1>2, <1>6, <1>7, BesideKeeps DEF Apart

LEMMA CommitKeeps ==
    ASSUME TypeInv, FactoryInv, CommitTransaction
    PROVE  FactoryInv' /\ \A t \in Paths : Kept(t) => Kept(t)'
<1>1. scan.phase = "write" /\ Apart /\ prefs' = prefs /\ scan' = [scan EXCEPT !.phase = "vibrations"]
  BY CommitIs
<1>2. PICK R : /\ Table(R) /\ dbs' = [dbs EXCEPT !.el1.rows = R]
               /\ DOMAIN R = DOMAIN scan.buffer.rows \cup DOMAIN rows
               /\ \A t \in DOMAIN rows \ DOMAIN scan.buffer.rows : R[t] = rows[t]
               /\ \A t \in DOMAIN scan.buffer.rows : R[t].source = scan.buffer.rows[t].source
  BY CommitIs
<1>3. phase \in After /\ rows = dbs.el1.rows /\ ScanOK(scan)
  BY <1>1, Scanning, InUse
<1>4. dbs'.el1.rows = R /\ dbs'.el2 = dbs.el2 /\ dbs'.el1.version = dbs.el1.version
  BY <1>2, <1>3, El1With
<1>5. scan'.buffer = scan.buffer
  BY <1>1, <1>3 DEF ScanOK
<1>6. \A t \in DOMAIN scan.buffer.rows : scan.buffer.rows[t].source = "preset" /\ t \in job.factory
  BY DEF FactoryInv
<1>7. \A t \in job.factory \cap DOMAIN rows : rows[t].source = "preset"
  BY <1>3 DEF FactoryInv, Presets
<1>8. FactoryInv'
  <2>1. \A t \in job.factory \cap DOMAIN R : R[t].source = "preset"
    BY <1>2, <1>6, <1>7
  <2>2. Presets(dbs.el1.rows)' /\ Presets(dbs.el2.rows)'
    BY <1>1, <1>4, <2>1 DEF FactoryInv, Presets, Apart
  <2> QED
    BY <1>1, <1>5, <2>2 DEF FactoryInv, Apart
<1>9. RowsKept(dbs.el1.rows, dbs'.el1.rows)
  BY <1>2, <1>3, <1>4, <1>6, <1>7 DEF RowsKept
<1> QED
  BY <1>1, <1>3, <1>4, <1>8, <1>9, BesideKeeps DEF Apart

LEMMA ScanKeeps ==
    ASSUME TypeInv, FactoryInv, ScanStep
    PROVE  FactoryInv' /\ \A t \in Paths : Kept(t) => Kept(t)'
<1>1. CASE BuildData
  BY <1>1, BuildKeeps
<1>2. CASE CommitTransaction
  BY <1>2, CommitKeeps
<1>3. ASSUME scan.phase # "idle", Apart, prefs'.completed = prefs.completed,
             scan'.buffer \in {scan.buffer, NoScan.buffer}, dbs'.el1.version = dbs.el1.version,
             dbs'.el2 = dbs.el2, DOMAIN dbs'.el1.rows = DOMAIN dbs.el1.rows,
             \A t \in DOMAIN dbs.el1.rows : /\ dbs'.el1.rows[t].source = dbs.el1.rows[t].source
                                            /\ dbs'.el1.rows[t].place = dbs.el1.rows[t].place
      PROVE  FactoryInv' /\ \A t \in Paths : Kept(t) => Kept(t)'
  <2>1. FactoryInv'
    BY <1>3, FactoryKept DEF Apart
  <2>2. RowsKept(dbs.el1.rows, dbs'.el1.rows)
    BY <1>3 DEF RowsKept
  <2>3. phase \in After
    BY <1>3, Scanning
  <2> QED
    BY <1>3, <2>1, <2>2, <2>3, BesideKeeps DEF Apart
<1>4. CASE CommitVibrateTransaction
  <2>1. /\ scan.phase = "vibrations" /\ Apart /\ prefs' = prefs
        /\ \E V : Vibrations(V) /\ dbs' = [dbs EXCEPT !.el1.vibrations = V]
    BY <1>4, CommitVibrateIs
  <2>2. scan'.buffer = NoScan.buffer
    <3> DEFINE none == NoScan.buffer
    <3>1. scan' = [scan EXCEPT !.phase = "defaults", !.buffer = none] /\ ScanOK(scan)
      BY <1>4, <2>1, Scanning DEF CommitVibrateTransaction
    <3> HIDE DEF none
    <3>2. scan'.buffer = none
      BY <3>1 DEF ScanOK
    <3> QED
      BY <3>2 DEF none
  <2>3. dbs'.el1.rows = dbs.el1.rows /\ dbs'.el2 = dbs.el2 /\ dbs'.el1.version = dbs.el1.version
    BY <2>1, Scanning, El1With
  <2> QED
    BY <1>3, <2>1, <2>2, <2>3
<1>5. CASE UpdateDefaultTone
  BY <1>3, <1>5, DefaultToneIs
<1>6. CASE FlushSettings
  <2>1. /\ scan.phase = "flush" /\ Apart /\ prefs' = prefs
        /\ \/ dbs' = dbs
           \/ \E R : Tuned(rows, R) /\ dbs' = [dbs EXCEPT !.el1.rows = R]
    BY <1>6, FlushIs
  <2>2. scan'.buffer \in {scan.buffer, NoScan.buffer}
    <3>1. \/ \E step \in scan.todo : scan' = [scan EXCEPT !.todo = scan.todo \ {step}]
          \/ scan' = [NoScan EXCEPT !.phase = "conf"]
      BY <1>6, Zenon DEF FlushSettings
    <3>2. CASE \E step \in scan.todo : scan' = [scan EXCEPT !.todo = scan.todo \ {step}]
      BY <2>1, <3>2, Scanning DEF ScanOK
    <3>3. CASE scan' = [NoScan EXCEPT !.phase = "conf"]
      BY <3>3 DEF NoScan
    <3> QED
      BY <3>1, <3>2, <3>3
  <2>3. Table(rows) /\ rows = dbs.el1.rows /\ phase \in After
    BY <2>1, Scanning, InUse
  <2>4. CASE dbs' = dbs
    BY <1>3, <2>1, <2>2, <2>4
  <2>5. CASE \E R : Tuned(rows, R) /\ dbs' = [dbs EXCEPT !.el1.rows = R]
    <3>1. PICK R : Tuned(rows, R) /\ dbs' = [dbs EXCEPT !.el1.rows = R]
      BY <2>5
    <3>2. Table(R)
      BY <2>3, <3>1, TunedTable
    <3>3. dbs'.el1.rows = R /\ dbs'.el2 = dbs.el2 /\ dbs'.el1.version = dbs.el1.version
      BY <2>3, <3>1, <3>2, El1With
    <3>4. DOMAIN R = DOMAIN rows /\ \A t \in DOMAIN rows : R[t].source = rows[t].source /\ R[t].place = rows[t].place
      BY <3>1 DEF Tuned, SameTone
    <3> QED
      BY <1>3, <2>1, <2>2, <2>3, <3>3, <3>4
  <2> QED
    BY <2>1, <2>4, <2>5
<1>7. CASE UpdateConf
  <2>1. /\ scan.phase = "conf" /\ Apart /\ prefs' = prefs
        /\ scan' = [scan EXCEPT !.phase = "init"]
        /\ \E conf : Confs(conf) /\ dbs' = [dbs EXCEPT !.el1.conf = conf]
    BY <1>7, ConfIs
  <2>2. dbs'.el1.rows = dbs.el1.rows /\ dbs'.el2 = dbs.el2 /\ dbs'.el1.version = dbs.el1.version
    BY <2>1, Scanning, El1With
  <2>3. scan'.buffer = scan.buffer
    BY <2>1, Scanning DEF ScanOK
  <2> QED
    BY <1>3, <2>1, <2>2, <2>3
<1>8. CASE SetInitScanner
  <2>1. /\ scan.phase = "init" /\ Apart /\ dbs' = dbs
        /\ scan' = [scan EXCEPT !.phase = "delete"] /\ prefs' = [prefs EXCEPT !.initScanner = TRUE]
    BY <1>8 DEF SetInitScanner
  <2>2. scan'.buffer = scan.buffer /\ prefs'.completed = prefs.completed
    BY <2>1, Scanning DEF ScanOK
  <2> QED
    BY <1>3, <2>1, <2>2
<1>9. CASE EndOfScan
  <2>1. /\ scan.phase = "delete" /\ Apart /\ prefs' = prefs /\ scan' = NoScan
        /\ \/ dbs' = dbs
           \/ \E R : /\ Table(R) /\ dbs' = [dbs EXCEPT !.el1.rows = R]
                     /\ DOMAIN R = {t \in DOMAIN rows : rows[t].source = "customised" \/ t \in job.factory}
                     /\ \A t \in DOMAIN R : R[t] = rows[t]
    BY <1>9, EndIs
  <2>2. rows = dbs.el1.rows /\ phase \in After
    BY <2>1, Scanning, InUse
  <2>3. CASE dbs' = dbs
    BY <1>3, <2>1, <2>3
  <2>4. CASE \E R : /\ Table(R) /\ dbs' = [dbs EXCEPT !.el1.rows = R]
                    /\ DOMAIN R = {t \in DOMAIN rows : rows[t].source = "customised" \/ t \in job.factory}
                    /\ \A t \in DOMAIN R : R[t] = rows[t]
    <3>1. PICK R : /\ Table(R) /\ dbs' = [dbs EXCEPT !.el1.rows = R]
                   /\ DOMAIN R = {t \in DOMAIN rows : rows[t].source = "customised" \/ t \in job.factory}
                   /\ \A t \in DOMAIN R : R[t] = rows[t]
      BY <2>4
    <3>2. dbs'.el1.rows = R /\ dbs'.el2 = dbs.el2 /\ dbs'.el1.version = dbs.el1.version
      BY <2>2, <3>1, El1With
    <3>3. RowsKept(dbs.el1.rows, dbs'.el1.rows)
      BY <2>2, <3>1, <3>2 DEF RowsKept
    <3>4. FactoryInv'
      <4>1. \A t \in job.factory \cap DOMAIN R : R[t].source = "preset"
        BY <2>2, <3>1 DEF FactoryInv, Presets
      <4>2. Presets(dbs.el1.rows)' /\ Presets(dbs.el2.rows)'
        BY <2>1, <3>2, <4>1 DEF FactoryInv, Presets, Apart
      <4>3. DOMAIN scan'.buffer.rows = {}
        BY <2>1 DEF NoScan
      <4> QED
        BY <4>2, <4>3 DEF FactoryInv
    <3> QED
      BY <2>1, <2>2, <3>2, <3>3, <3>4, BesideKeeps DEF Apart
  <2> QED
    BY <2>1, <2>3, <2>4
<1> QED
  BY <1>1, <1>2, <1>4, <1>5, <1>6, <1>7, <1>8, <1>9 DEF ScanStep

LEMMA ESimKeeps ==
    ASSUME TypeInv, FactoryInv, Beside
    PROVE  FactoryInv' /\ \A t \in Paths : Kept(t) => Kept(t)'
<1>1. /\ UNCHANGED <<job, files, phase, work, scan>> /\ history'.unsaved = history.unsaved
      /\ prefs'.completed = prefs.completed
  <2>1. \/ prefs' = prefs
        \/ \E time \in {"none", "recent", "old"} : prefs' = [prefs EXCEPT !.eSimTime = time]
    BY DEF Beside
  <2>2. prefs'.completed = prefs.completed
    BY <2>1 DEF TypeInv, Stored
  <2> QED
    BY <2>2 DEF Beside
<1>2. CASE dbs' = dbs
  <2>1. FactoryInv'
    BY <1>1, <1>2, FactoryKept
  <2> QED
    BY <1>1, <1>2, <2>1 DEF Kept, InEl1, InEl2, Stays, Copying
<1>3. CASE dbs' # dbs
  <2>1. /\ phase = "serving" /\ dbs'.el1.version = dbs.el1.version /\ dbs'.el2 = dbs.el2
        /\ Tuned(rows, dbs'.el1.rows)
    BY <1>3 DEF Beside
  <2>2. phase \in After /\ rows = dbs.el1.rows
    BY <2>1 DEF After, rows
  <2>3. /\ RowsKept(dbs.el1.rows, dbs'.el1.rows) /\ DOMAIN dbs'.el1.rows = DOMAIN dbs.el1.rows
        /\ \A t \in DOMAIN dbs.el1.rows : dbs'.el1.rows[t].source = dbs.el1.rows[t].source
    BY <2>1, <2>2 DEF RowsKept, Tuned, SameTone
  <2>4. FactoryInv'
    BY <1>1, <2>1, <2>3, FactoryKept
  <2> QED
    BY <1>1, <2>1, <2>2, <2>3, <2>4, BesideKeeps
<1> QED
  BY <1>2, <1>3

LEMMA CrashKeeps ==
    ASSUME TypeInv, FactoryInv, Crash
    PROVE  FactoryInv' /\ \A t \in Paths : Kept(t) => Kept(t)'
<1>1. Dies /\ UNCHANGED <<job, dbs, prefs, files>>
  BY DEF Crash
<1>2. FactoryInv'
  <2>1. scan' = NoScan
    BY <1>1 DEF Dies
  <2> QED
    BY <1>1, <2>1, FactoryKept
<1>3. ASSUME NEW t \in Paths, Kept(t) PROVE Kept(t)'
  <2>1. CASE InEl1(t)
    <3>1. Plays(dbs'.el1.rows, t, files, history.unsaved)
      BY <1>1, <2>1 DEF InEl1
    <3>2. InEl1(t)' /\ Copying(t)'
      BY <1>1, <2>1, <3>1, DiesKeeps
    <3> QED
      BY <3>2 DEF Kept
  <2>2. CASE InEl2(t)
    <3>1. /\ Plays(dbs'.el2.rows, t, files, history.unsaved)
          /\ t \in DOMAIN dbs'.el1.rows => Plays(dbs'.el1.rows, t, files, history.unsaved)
      BY <1>1, <2>2 DEF InEl2
    <3>2. InEl2(t)'
      BY <1>1, <2>2, <3>1, DiesKeeps
    <3> QED
      BY <3>2 DEF Kept
  <2> QED
    BY <1>3, <2>1, <2>2 DEF Kept
<1> QED
  BY <1>2, <1>3

-----------------------------------------------------------------------------
LEMMA NextKeeps ==
    ASSUME TypeInv, FactoryInv, [Next]_vars
    PROVE  FactoryInv' /\ \A t \in Paths : Kept(t) => Kept(t)'
<1>1. CASE StartStep
  BY <1>1, OpeningKeeps, FolderKeeps, MoveBackKeeps, ScannerKeeps, QueryKeeps, CopyKeeps, PathKeeps, RemoveKeeps,
     TitlesKeep DEF StartStep
<1>2. CASE UpgradeStep
  <2>1. OnCreate \/ BeginUpgrade \/ EndUpgrade \/ Mid
    BY <1>2 DEF UpgradeStep, Mid
  <2> QED
    BY <2>1, OnCreateKeeps, BeginUpgradeKeeps, EndUpgradeKeeps, MidKeeps
<1>3. CASE ScanStep
  BY <1>3, ScanKeeps
<1>4. CASE ESimStep
  BY <1>4, ESimIs, ESimKeeps
<1>5. CASE Crash
  BY <1>5, CrashKeeps
<1>6. CASE UNCHANGED vars
  BY <1>6 DEF vars, FactoryInv, Presets, Kept, InEl1, InEl2, Stays, Copying
<1> QED
  BY <1>1, <1>2, <1>3, <1>4, <1>5, <1>6 DEF Next

LEMMA JobStays == ASSUME TypeInv, [Next]_vars PROVE job' = job
<1>1. CASE StartStep
  <2>1. CASE MoveDirectory \/ RemoveRingtoneFolder
    BY <2>1, Zenon DEF MoveDirectory, RemoveRingtoneFolder
  <2>2. CASE UpdateRingtoneLanguage \/ UpdateVibrationLanguage
    BY <2>2, Zenon DEF UpdateRingtoneLanguage, UpdateVibrationLanguage, Rest
  <2>3. CASE RingtoneScanner \/ WaitFor \/ UpdatePath
    BY <2>3, Zenon DEF RingtoneScanner, WaitFor, UpdatePath
  <2> QED
    BY <1>1, <2>1, <2>2, <2>3, Zenon DEF StartStep, ChecMoveDb, MoveEL2DBToEL1DB, SetMoveEL2DBToEL1,
       CheckRingtoneDbDefaultSettings, AccessRingtoneDir, CreatePreloadFolder, QueryOldPaths, CopyOldFile, Calm
<1>2. CASE UpgradeStep
  <2>1. OnCreate \/ BeginUpgrade \/ EndUpgrade \/ Mid
    BY <1>2 DEF UpgradeStep, Mid
  <2>2. CASE Mid
    BY <2>2, MidPasses
  <2> QED
    BY <2>1, <2>2, Zenon DEF OnCreate, BeginUpgrade, EndUpgrade, Calm
<1>3. CASE ScanStep
  BY <1>3, Zenon DEF ScanStep, BuildData, CommitTransaction, CommitVibrateTransaction, UpdateDefaultTone,
     FlushSettings, UpdateConf, SetInitScanner, EndOfScan, Apart
<1>4. CASE ESimStep
  BY <1>4, ESimIs DEF Beside
<1>5. CASE Crash
  BY <1>5 DEF Crash
<1>6. CASE UNCHANGED vars
  BY <1>6 DEF vars
<1> QED
  BY <1>1, <1>2, <1>3, <1>4, <1>5, <1>6 DEF Next

LEMMA PlaysHere ==
    ASSUME TypeInv, TonesKept
    PROVE  MigratedTonesPlay
<1> SUFFICES ASSUME NEW t \in DOMAIN Found.rows,
                    Found.rows[t].source = "customised" /\ <<t, Found.rows[t].place>> \in job.files,
                    phase = "serving" \/ t \in DOMAIN rows
             PROVE  <<t, rows[t].place>> \in files \/ <<t, "tmp">> \in files \/ t \in history.unsaved
  BY DEF MigratedTonesPlay
<1>1. t \in Paths /\ Mine(t)
  BY FoundInPaths DEF Mine
<1>2. Plays(dbs.el1.rows, t, files, history.unsaved)
  BY <1>1 DEF TonesKept, Kept, InEl1, InEl2, rows
<1>3. rows = dbs.el1.rows
  BY DEF rows
<1> QED
  BY <1>2, <1>3 DEF Plays

(* A tone of the user's that could be played can be played from the first start on, whatever  *)
(* the library looks like, whichever version it comes from, whatever fails and wherever the   *)
(* process dies (UpdateDataUri, MoveRingtoneFolder, UpdataRdbPathData, BootScan), but for     *)
(* what MigratedTonesPlay itself excepts: provided that the database is not moved twice.      *)
THEOREM UsersTonesPlay == Spec => [](Steady(job) => MigratedTonesPlay)
<1> DEFINE Inv == TypeInv /\ FactoryInv /\ (Steady(job) => TonesKept)
<1>1. Init => Inv
  BY InitTypes, InitKept
<1>2. Inv /\ [Next]_vars => Inv'
  <2> SUFFICES ASSUME Inv, [Next]_vars PROVE Inv'
    OBVIOUS
  <2>1. TypeInv' /\ FactoryInv'
    BY NextTypes, NextKeeps
  <2>2. job' = job
    BY JobStays
  <2>3. ASSUME Steady(job)', NEW t \in Paths, Mine(t)' PROVE Kept(t)'
    <3>1. Steady(job) /\ Mine(t)
      BY <2>2, <2>3 DEF Mine, Found
    <3> QED
      BY <3>1, NextKeeps DEF TonesKept
  <2> QED
    BY <2>1, <2>3 DEF TonesKept
<1>3. Inv => (Steady(job) => MigratedTonesPlay)
  BY PlaysHere
<1> QED
  BY <1>1, <1>2, <1>3, PTL DEF Spec

-----------------------------------------------------------------------------
(* Titles *)

(* What is marked as titled in a language is, if it can be. *)
Coherent(A) == \A a \in DOMAIN A : A[a].mark \in Languages /\ a \in Translated => A[a].title = A[a].mark
Titled(d) ==
    /\ Coherent(d.el1.rows) /\ Coherent(d.el1.vibrations)
    /\ Coherent(d.el2.rows) /\ Coherent(d.el2.vibrations)

(* The titles that CommitTransaction writes are those of the rows whose language it leaves,   *)
(* as long as no title is translated between BuildData and it.                                *)
ScanTitled(s, R) ==
    /\ s.phase = "write" => \A t \in DOMAIN s.buffer.rows :
            IF t \in DOMAIN R THEN s.buffer.rows[t].title = R[t].title
            ELSE s.buffer.rows[t].mark \notin Languages
    /\ \A v \in DOMAIN s.buffer.vibrations : s.buffer.vibrations[v].mark \notin Languages

(* What SyncAssetLanguage has marked. *)
Marked ==
    failures = 0 =>
        /\ phase \in {"vibrations", "serving"} =>
                \A t \in DOMAIN dbs.el1.rows :
                    dbs.el1.rows[t].source = "preset" => dbs.el1.rows[t].mark = work.language
        /\ phase = "serving" =>
                \A v \in StandardVibrations \cap DOMAIN dbs.el1.vibrations :
                    dbs.el1.vibrations[v].mark = work.language

TitleInv == Titled(job) /\ ~history.late => Titled(dbs) /\ ScanTitled(scan, dbs.el1.rows) /\ Marked

(* Titles and marks are left as they are. *)
Alike(A, B) ==
    DOMAIN B = DOMAIN A /\ \A a \in DOMAIN A : B[a].title = A[a].title /\ B[a].mark = A[a].mark

LEMMA AlikeCoherent == ASSUME NEW A, NEW B, Coherent(A), Alike(A, B) PROVE Coherent(B)
BY DEF Coherent, Alike

LEMMA RightedAlike == ASSUME NEW R, NEW new, Righted(R, new) PROVE Alike(R, new)
BY DEF Righted, Alike

LEMMA TunedAlike == ASSUME NEW R, NEW new, Tuned(R, new) PROVE Alike(R, new)
BY DEF Tuned, SameTone, Alike

LEMMA IdleTitled == \A R : ScanTitled(NoScan, R) /\ \A p : p # "write" => ScanTitled([NoScan EXCEPT !.phase = p], R)
BY DEF ScanTitled, NoScan

(* Before the titles are looked at. *)
LEMMA TitlesAside ==
    ASSUME TitleInv, job' = job, history'.late \in {history.late, TRUE}, phase' \notin {"vibrations", "serving"},
           Titled(dbs) => Titled(dbs'), ScanTitled(scan, dbs.el1.rows) => ScanTitled(scan', dbs'.el1.rows)
    PROVE  TitleInv'
BY DEF TitleInv, Marked

LEMMA InitTitles == ASSUME Init PROVE TitleInv
<1>1. dbs.el1 = job.el1 /\ dbs.el2 = job.el2 /\ scan = NoScan /\ phase = "off"
  BY DEF Init
<1> QED
  BY <1>1, IdleTitled DEF TitleInv, Titled, Marked

LEMMA NoScanBefore == ASSUME TypeInv, phase \notin After PROVE scan = NoScan
BY DEF TypeInv, Staged, Memory, ScanOK

LEMMA LateAfterEnds ==
    ASSUME TypeInv, NEW done, NEW next, NEW memory, Ends(done, next, memory)
    PROVE  history'.late = history.late
<1>1. HistoryOK(history)
  BY DEF TypeInv, Memory
<1> QED
  BY <1>1 DEF Ends, Dies, others, HistoryOK

LEMMA OpeningTitles ==
    ASSUME TypeInv, TitleInv, ChecMoveDb \/ MoveEL2DBToEL1DB \/ SetMoveEL2DBToEL1
    PROVE  TitleInv'
<1>1. /\ UNCHANGED <<job, scan, history>> /\ phase \in {"off", "backup", "moved"}
      /\ phase' \in {"off", "open", "moved"}
      /\ dbs' = dbs \/ dbs' = [dbs EXCEPT !.el1 = dbs.el2]
  BY DEF ChecMoveDb, MoveEL2DBToEL1DB, SetMoveEL2DBToEL1, Calm, others, Then
<1>2. scan = NoScan
  BY <1>1, NoScanBefore DEF After
<1>3. ScanTitled(scan', dbs'.el1.rows)
  BY <1>1, <1>2, IdleTitled
<1>4. Titled(dbs) => Titled(dbs')
  <2>1. CASE dbs' = dbs
    BY <2>1
  <2>2. CASE dbs' = [dbs EXCEPT !.el1 = dbs.el2]
    <3> DEFINE db == dbs.el2
    <3>1. IsDb(db) /\ dbs' = [dbs EXCEPT !["el1"] = db] /\ DbsOK(dbs)
      BY <2>2 DEF TypeInv, Stored, DbsOK
    <3> HIDE DEF db
    <3>2. dbs'.el1 = db /\ dbs'.el2 = dbs.el2
      BY <3>1, SetDbTypes
    <3> QED
      BY <3>2 DEF Titled, db
  <2> QED
    BY <1>1, <2>1, <2>2
<1> QED
  BY <1>1, <1>3, <1>4, TitlesAside

(* The open database is replaced in the upgrade. *)
LEMMA OpenTitled ==
    ASSUME TypeInv, NEW db, UsedDb(db), dbs' = [dbs EXCEPT ![work.open] = db], Titled(dbs),
           Coherent(Db.rows) => Coherent(db.rows), Coherent(Db.vibrations) => Coherent(db.vibrations)
    PROVE  Titled(dbs')
<1>1. DbsOK(dbs) /\ work.open \in {"el1", "el2"}
  BY OpenDb
<1>2. /\ work.open = "el1" => dbs'.el1 = db /\ dbs'.el2 = dbs.el2
      /\ work.open = "el2" => dbs'.el2 = db /\ dbs'.el1 = dbs.el1
  <2> DEFINE area == work.open
  <2> HIDE DEF area
  <2>1. area \in {"el1", "el2"} /\ IsDb(db) /\ dbs' = [dbs EXCEPT ![area] = db]
    BY <1>1 DEF area, UsedDb
  <2> QED
    BY <1>1, <2>1, SetDbTypes DEF area
<1> QED
  BY <1>1, <1>2, OpenDb DEF Titled

LEMMA UpgradeTitles ==
    ASSUME TypeInv, TitleInv, UpgradeStep
    PROVE  TitleInv'
<1>1. OnCreate \/ BeginUpgrade \/ EndUpgrade \/ Mid
  BY DEF UpgradeStep, Mid
<1>2. CASE OnCreate
  <2>1. /\ phase = "open" /\ job' = job /\ scan' = scan /\ history' = history
        /\ phase' \in {"backup", "defaults", "off"}
        /\ dbs' = [dbs EXCEPT ![work.open] = NewDb] \/ dbs' = dbs
    BY <1>2, OnCreateIs DEF others
  <2>2. ScanTitled(scan', dbs'.el1.rows)
    BY <2>1, NoScanBefore, IdleTitled DEF After
  <2>3. Titled(dbs) => Titled(dbs')
    <3> DEFINE db == NewDb
    <3>1. UsedDb(db) /\ Coherent(db.rows) /\ Coherent(db.vibrations)
      BY NewDbTypes DEF Coherent, NewDb
    <3>2. dbs' = [dbs EXCEPT ![work.open] = db] \/ dbs' = dbs
      BY <2>1
    <3> HIDE DEF db
    <3> QED
      BY <3>1, <3>2, OpenTitled
  <2> QED
    BY <2>1, <2>2, <2>3, TitlesAside
<1>3. CASE BeginUpgrade
  <2>1. UNCHANGED <<job, dbs, scan, history>> /\ phase' = "upgrade"
    BY <1>3 DEF BeginUpgrade, Calm, others, storage
  <2> QED
    BY <2>1, TitlesAside
<1>4. CASE EndUpgrade
  <2>1. /\ phase = "upgrade" /\ UNCHANGED <<job, scan, history>> /\ phase' \in {"backup", "defaults"}
    BY <1>4, EndUpgradeIs DEF others
  <2>2. PICK db : /\ UsedDb(db) /\ db.rows = Db.rows /\ db.vibrations = Db.vibrations
                  /\ dbs' = [dbs EXCEPT ![work.open] = db]
    BY <1>4, EndUpgradeIs
  <2>3. ScanTitled(scan', dbs'.el1.rows)
    BY <2>1, NoScanBefore, IdleTitled DEF After
  <2>4. Titled(dbs) => Titled(dbs')
    BY <2>2, OpenTitled
  <2> QED
    BY <2>1, <2>3, <2>4, TitlesAside
<1>5. CASE Mid
  <2>1. phase = "upgrade" /\ job' = job /\ Passed
    BY <1>5, MidPasses
  <2>2. PICK db : Carried(db)
    BY <1>5, MidPasses
  <2>3. scan = NoScan
    BY <2>1, NoScanBefore DEF After
  <2>4. scan' = NoScan /\ phase' \in {"upgrade", "off"}
    BY <2>1, <2>3 DEF Passed, Advanced, Dies
  <2>5. history'.late = history.late
    BY <2>1 DEF Passed, Advanced, Dies, TypeInv, Memory, HistoryOK
  <2>6. Titled(dbs) => Titled(dbs')
    <3>1. UsedDb(db) /\ dbs' = [dbs EXCEPT ![work.open] = db] /\ db.vibrations = Db.vibrations
          /\ Righted(Db.rows, db.rows)
      BY <2>2 DEF Carried, SetDb
    <3> DEFINE R == Db.rows
    <3>2. R = Db.rows /\ Righted(R, db.rows)
      BY <3>1
    <3> HIDE DEF R
    <3>3. Coherent(R) => Coherent(db.rows)
      BY <3>2, RightedAlike, AlikeCoherent
    <3> QED
      BY <3>1, <3>2, <3>3, OpenTitled
  <2> QED
    BY <2>1, <2>3, <2>4, <2>5, <2>6, IdleTitled, TitlesAside
<1> QED
  BY <1>1, <1>2, <1>3, <1>4, <1>5

LEMMA OnStartTitles ==
    ASSUME TypeInv, TitleInv,
           \/ CheckRingtoneDbDefaultSettings \/ AccessRingtoneDir \/ CreatePreloadFolder \/ MoveDirectory
           \/ RingtoneScanner \/ WaitFor \/ QueryOldPaths \/ CopyOldFile \/ RemoveRingtoneFolder
    PROVE  TitleInv'
<1>1. UNCHANGED <<job, dbs>> /\ phase' \notin {"vibrations", "serving"}
      /\ history'.late \in {history.late, TRUE}
      /\ scan' \in {scan, NoScan, [NoScan EXCEPT !.phase = "walk"]}
  <2>1. CASE CheckRingtoneDbDefaultSettings \/ AccessRingtoneDir \/ CreatePreloadFolder
    BY <2>1 DEF CheckRingtoneDbDefaultSettings, AccessRingtoneDir, CreatePreloadFolder, Calm, Then, others
  <2>2. CASE MoveDirectory
    <3>1. UNCHANGED <<job, dbs>>
      BY <2>2 DEF MoveDirectory
    <3>2. PICK done \in BOOLEAN : Ends(done, "scan", work)
      BY <2>2 DEF MoveDirectory
    <3>3. history'.late = history.late
      BY <3>2, LateAfterEnds
    <3> QED
      BY <3>1, <3>2, <3>3 DEF Ends, Dies, others
  <2>3. CASE RemoveRingtoneFolder
    <3>1. UNCHANGED <<job, dbs>>
      BY <2>3 DEF RemoveRingtoneFolder
    <3>2. PICK done \in BOOLEAN : Ends(done, "ringtones", work)
      BY <2>3 DEF RemoveRingtoneFolder
    <3>3. history'.late = history.late
      BY <3>2, LateAfterEnds
    <3> QED
      BY <3>1, <3>2, <3>3 DEF Ends, Dies, others
  <2>4. CASE RingtoneScanner
    BY <2>4 DEF RingtoneScanner, Then
  <2>5. CASE WaitFor
    <3> DEFINE late == history.late \/ scan.phase # "idle"
    <3>1. UNCHANGED <<job, dbs, scan>> /\ phase' = "paths" /\ history' = [history EXCEPT !.late = late]
      BY <2>5, Zenon DEF WaitFor, Then, storage
    <3>2. late \in {history.late, TRUE} /\ HistoryOK(history)
      BY DEF TypeInv, Memory, HistoryOK
    <3> HIDE DEF late
    <3>3. history'.late = late
      BY <3>1, <3>2 DEF HistoryOK
    <3> QED
      BY <3>1, <3>2, <3>3
  <2>6. CASE QueryOldPaths
    BY <2>6 DEF QueryOldPaths, Then, Calm, others
  <2>7. CASE CopyOldFile
    BY <2>7, CopyIs DEF others
  <2> QED
    BY <2>1, <2>2, <2>3, <2>4, <2>5, <2>6, <2>7
<1>2. ScanTitled(scan, dbs.el1.rows) => ScanTitled(scan', dbs'.el1.rows)
  BY <1>1, IdleTitled
<1> QED
  BY <1>1, <1>2, TitlesAside

LEMMA PathTitles ==
    ASSUME TypeInv, TitleInv, UpdatePath
    PROVE  TitleInv'
<1>1. /\ phase = "save" /\ phase' = "copy" /\ UNCHANGED <<job, scan>> /\ history'.late = history.late
      /\ \/ \E R : /\ Table(R) /\ DOMAIN R = DOMAIN rows
                   /\ dbs' = [dbs EXCEPT !.el1.rows = R]
                   /\ \A t \in DOMAIN rows : R[t].title = rows[t].title /\ R[t].mark = rows[t].mark
         \/ dbs' = dbs
  BY PathIs
<1>2. phase \in After /\ rows = dbs.el1.rows
  BY <1>1 DEF After, rows
<1>3. CASE dbs' = dbs
  BY <1>1, <1>3, TitlesAside
<1>4. CASE \E R : /\ Table(R) /\ DOMAIN R = DOMAIN rows
                  /\ dbs' = [dbs EXCEPT !.el1.rows = R]
                  /\ \A t \in DOMAIN rows : R[t].title = rows[t].title /\ R[t].mark = rows[t].mark
  <2>1. PICK R : /\ Table(R) /\ DOMAIN R = DOMAIN rows
                 /\ dbs' = [dbs EXCEPT !.el1.rows = R]
                 /\ \A t \in DOMAIN rows : R[t].title = rows[t].title /\ R[t].mark = rows[t].mark
    BY <1>4
  <2>2. /\ dbs'.el1.rows = R /\ dbs'.el2 = dbs.el2 /\ dbs'.el1.vibrations = dbs.el1.vibrations
        /\ Alike(dbs.el1.rows, R)
    BY <1>2, <2>1, El1With DEF Alike
  <2>3. Titled(dbs) => Titled(dbs')
    BY <2>2, AlikeCoherent DEF Titled
  <2>4. ScanTitled(scan, dbs.el1.rows) => ScanTitled(scan', dbs'.el1.rows)
    BY <1>1, <2>2 DEF ScanTitled, Alike
  <2> QED
    BY <1>1, <2>3, <2>4, TitlesAside
<1> QED
  BY <1>1, <1>3, <1>4

(* What a loop of updates makes of the tables. *)
LEMMA InLanguageIs ==
    ASSUME NEW language \in Languages, NEW done
    PROVE  /\ \A R : Table(R) =>
                LET new == InLanguage(R, done, language)
                IN  /\ DOMAIN new = DOMAIN R
                    /\ \A t \in DOMAIN R :
                        /\ t \notin done => new[t] = R[t]
                        /\ t \in done => /\ new[t].mark = language /\ new[t].source = R[t].source
                                         /\ t \in Translated => new[t].title = language
           /\ \A V : Vibrations(V) =>
                LET new == InLanguage(V, done, language)
                IN  /\ DOMAIN new = DOMAIN V
                    /\ \A v \in DOMAIN V :
                        /\ v \notin done => new[v] = V[v]
                        /\ v \in done => /\ new[v].mark = language
                                         /\ v \in Translated => new[v].title = language
<1>1. \A r \in Tone : \A t :
        LET new == [r EXCEPT !.mark = language, !.title = IF t \in Translated THEN language ELSE @]
        IN  new.mark = language /\ new.source = r.source /\ (t \in Translated => new.title = language)
  BY DEF Tone
<1>2. \A r \in [title : Title, mark : Mark] : \A t :
        LET new == [r EXCEPT !.mark = language, !.title = IF t \in Translated THEN language ELSE @]
        IN  new.mark = language /\ (t \in Translated => new.title = language)
  OBVIOUS
<1>3. ASSUME NEW R, Table(R)
      PROVE  LET new == InLanguage(R, done, language)
             IN  /\ DOMAIN new = DOMAIN R
                 /\ \A t \in DOMAIN R :
                    /\ t \notin done => new[t] = R[t]
                    /\ t \in done => /\ new[t].mark = language /\ new[t].source = R[t].source
                                     /\ t \in Translated => new[t].title = language
  <2>1. \A t \in DOMAIN R : R[t] \in Tone
    BY <1>3 DEF Table, GoodRow
  <2> QED
    BY <1>1, <2>1 DEF InLanguage
<1>4. ASSUME NEW V, Vibrations(V)
      PROVE  LET new == InLanguage(V, done, language)
             IN  /\ DOMAIN new = DOMAIN V
                 /\ \A v \in DOMAIN V :
                    /\ v \notin done => new[v] = V[v]
                    /\ v \in done => /\ new[v].mark = language
                                     /\ v \in Translated => new[v].title = language
  <2>1. \A v \in DOMAIN V : V[v] \in [title : Title, mark : Mark]
    BY <1>4 DEF Vibrations
  <2> QED
    BY <1>2, <2>1 DEF InLanguage
<1> QED
  BY <1>3, <1>4

(* How such a loop ends, if nothing fails. *)
LEMMA LanguageEnds ==
    ASSUME TypeInv, NEW done, NEW next, NEW memory, Ends(done, next, memory)
    PROVE  /\ history'.late = history.late
           /\ \/ phase' = "off"
              \/ phase' = next /\ work' = memory /\ (failures' = 0 => done /\ failures = 0)
           /\ scan' \in {scan, NoScan}
<1>1. failures \in Nat
  BY DEF TypeInv, Counted
<1> QED
  BY <1>1, LateAfterEnds DEF Ends, Dies, Fails, others

LEMMA LanguageTitles ==
    ASSUME TypeInv, TitleInv, UpdateRingtoneLanguage \/ UpdateVibrationLanguage
    PROVE  TitleInv'
<1>1. job' = job /\ phase \in {"ringtones", "vibrations"}
  BY DEF UpdateRingtoneLanguage, UpdateVibrationLanguage, Rest
<1>2. phase \in After
  BY <1>1 DEF After
<1>3. /\ Table(rows) /\ rows = dbs.el1.rows /\ Vibrations(dbs.el1.vibrations)
      /\ WorkOK(work) /\ work.open = "el1"
  BY <1>2, InUse
<1>4. scan = NoScan \/ history.late
  BY <1>1 DEF TypeInv, Staged, Memory, ScanOK
<1>5. CASE UpdateRingtoneLanguage
  <2>0. PICK language \in job.languages : \E due, done :
            /\ due = NotInLanguage(rows, language) \cap {t \in DOMAIN rows : rows[t].source = "preset"}
            /\ dbs' = [dbs EXCEPT !.el1.rows = InLanguage(dbs.el1.rows, done, language)]
            /\ Ends(done = due, "vibrations", [work EXCEPT !.language = language])
    BY <1>5, Zenon DEF UpdateRingtoneLanguage
  <2>1. PICK due, done :
            /\ due = NotInLanguage(rows, language) \cap {t \in DOMAIN rows : rows[t].source = "preset"}
            /\ dbs' = [dbs EXCEPT !.el1.rows = InLanguage(dbs.el1.rows, done, language)]
            /\ Ends(done = due, "vibrations", [work EXCEPT !.language = language])
    BY <2>0, Zenon
  <2>2. language \in Languages
    BY JobIs DEF IsJob
  <2> DEFINE R == InLanguage(dbs.el1.rows, done, language)
             memory == [work EXCEPT !.language = language]
             all == done = due
  <2>3. dbs' = [dbs EXCEPT !.el1.rows = R] /\ Ends(all, "vibrations", memory)
    BY <2>1
  <2>4. Table(R)
    BY <1>3, <2>2, LanguageTypes
  <2>5. /\ DOMAIN R = DOMAIN rows
        /\ \A t \in DOMAIN rows :
            /\ t \notin done => R[t] = rows[t]
            /\ t \in done => /\ R[t].mark = language /\ R[t].source = rows[t].source
                             /\ t \in Translated => R[t].title = language
    BY <1>3, <2>2, InLanguageIs
  <2>6. memory.language = language
    BY <1>3 DEF WorkOK
  <2> HIDE DEF R, memory, all
  <2>7. dbs'.el1.rows = R /\ dbs'.el2 = dbs.el2 /\ dbs'.el1.vibrations = dbs.el1.vibrations
    BY <1>2, <2>3, <2>4, El1With
  <2>8. /\ history'.late = history.late
        /\ \/ phase' = "off"
           \/ phase' = "vibrations" /\ work' = memory /\ (failures' = 0 => all /\ failures = 0)
        /\ scan' \in {scan, NoScan}
    BY <2>3, LanguageEnds
  <2>9. Titled(dbs) => Titled(dbs')
    BY <1>3, <2>5, <2>7 DEF Titled, Coherent
  <2>10. ScanTitled(scan', dbs'.el1.rows) \/ history.late
    BY <1>4, <2>8, IdleTitled
  <2>11. all => \A t \in DOMAIN R : R[t].source = "preset" => R[t].mark = language
    BY <2>1, <2>5 DEF NotInLanguage, all
  <2>12. Marked'
    BY <2>6, <2>7, <2>8, <2>11 DEF Marked
  <2> QED
    BY <1>1, <2>8, <2>9, <2>10, <2>12 DEF TitleInv
<1>6. CASE UpdateVibrationLanguage
  <2> DEFINE language == work.language
  <2>1. PICK due, done :
            /\ due = NotInLanguage(dbs.el1.vibrations, language) \cap StandardVibrations
            /\ dbs' = [dbs EXCEPT !.el1.vibrations = InLanguage(dbs.el1.vibrations, done, language)]
            /\ Ends(done = due, "serving", work)
    BY <1>6, Zenon DEF UpdateVibrationLanguage
  <2>2. language \in Languages /\ phase = "vibrations"
    BY <1>6 DEF UpdateVibrationLanguage, TypeInv, Staged
  <2> DEFINE W == dbs.el1.vibrations
             V == InLanguage(W, done, language)
             all == done = due
  <2>3. dbs' = [dbs EXCEPT !.el1.vibrations = V] /\ Ends(all, "serving", work)
    BY <2>1
  <2>4. Vibrations(V)
    BY <1>3, <2>2, LanguageTypes
  <2>5. /\ DOMAIN V = DOMAIN W
        /\ \A v \in DOMAIN W :
            /\ v \notin done => V[v] = W[v]
            /\ v \in done => /\ V[v].mark = language
                             /\ v \in Translated => V[v].title = language
    <3>1. Vibrations(W)
      BY <1>3
    <3> HIDE DEF language, W
    <3> QED
      BY <2>2, <3>1, InLanguageIs
  <2> HIDE DEF V, all
  <2>6. dbs'.el1.vibrations = V /\ dbs'.el2 = dbs.el2 /\ dbs'.el1.rows = dbs.el1.rows
    BY <1>2, <2>3, <2>4, El1With
  <2>7. /\ history'.late = history.late
        /\ \/ phase' = "off"
           \/ phase' = "serving" /\ work' = work /\ (failures' = 0 => all /\ failures = 0)
        /\ scan' \in {scan, NoScan}
    BY <2>3, LanguageEnds
  <2>8. Titled(dbs) => Titled(dbs')
    BY <2>5, <2>6 DEF Titled, Coherent
  <2>9. ScanTitled(scan', dbs'.el1.rows) \/ history.late
    BY <1>4, <2>7, IdleTitled
  <2>10. all => \A v \in StandardVibrations \cap DOMAIN V : V[v].mark = language
    BY <2>1, <2>5 DEF NotInLanguage, all
  <2>11. Marked => Marked'
    BY <2>2, <2>6, <2>7, <2>10 DEF Marked
  <2> QED
    BY <1>1, <2>7, <2>8, <2>9, <2>11 DEF TitleInv
<1> QED
  BY <1>5, <1>6

(* As long as no scan is late, it runs while OnStart waits for it. *)
LEMMA ScanTitles ==
    ASSUME TypeInv, TitleInv, ScanStep
    PROVE  TitleInv'
<1>1. Apart
  BY DEF ScanStep, BuildData, CommitTransaction, CommitVibrateTransaction, UpdateDefaultTone, FlushSettings,
     UpdateConf, SetInitScanner, EndOfScan
<1>2. scan.phase # "idle"
  BY DEF ScanStep, BuildData, CommitTransaction, CommitVibrateTransaction, UpdateDefaultTone, FlushSettings,
     UpdateConf, SetInitScanner, EndOfScan
<1>3. /\ phase \in After /\ ScanOK(scan) /\ Table(rows) /\ rows = dbs.el1.rows
      /\ Vibrations(dbs.el1.vibrations)
  BY <1>2, Scanning, InUse
<1>4. phase = "wait" \/ history.late
  BY <1>2 DEF TypeInv, Staged
<1>5. ASSUME ~history.late => /\ Titled(dbs) => Titled(dbs')
                              /\ ScanTitled(scan, dbs.el1.rows) => ScanTitled(scan', dbs'.el1.rows)
      PROVE  TitleInv'
  BY <1>1, <1>4, <1>5 DEF Apart, TitleInv, Marked
<1>6. CASE BuildData
  <2>1. /\ dbs' = dbs /\ scan'.buffer = [rows |-> Built, vibrations |-> BuiltVibrations]
    BY <1>6, BuildIs
  <2>2. scan'.buffer.rows = Built /\ scan'.buffer.vibrations = BuiltVibrations
    BY <2>1
  <2>3. ASSUME NEW t \in DOMAIN Built
        PROVE  IF t \in DOMAIN rows THEN Built[t].title = rows[t].title ELSE Built[t].mark \notin Languages
    <3>1. CASE t \in DOMAIN rows
      <4> DEFINE r == rows[t]
                 v == [r EXCEPT !.mime = TRUE, !.media = TRUE]
      <4>1. Built[t] = v /\ GoodRow(r)
        BY <1>3, <2>3, <3>1 DEF Built, Table
      <4> HIDE DEF r
      <4>2. SameTone(v, r)
        BY <4>1, MediaKnown
      <4> QED
        BY <3>1, <4>1, <4>2 DEF SameTone, r
    <3>2. CASE t \notin DOMAIN rows
      <4>1. Built[t] = NewTone
        BY <2>3, <3>2 DEF Built
      <4>2. NewTone.mark = "null"
        BY DEF NewTone
      <4>3. Built[t].mark \notin Languages
        BY <4>1, <4>2, LibraryAssumption
      <4> QED
        BY <3>2, <4>3
    <3> QED
      BY <3>1, <3>2
  <2>4. \A v \in DOMAIN BuiltVibrations : BuiltVibrations[v].mark \notin Languages
    BY LibraryAssumption DEF BuiltVibrations
  <2>5. ScanTitled(scan', dbs'.el1.rows)
    BY <1>3, <2>1, <2>2, <2>3, <2>4 DEF ScanTitled
  <2> QED
    BY <1>5, <2>1, <2>5
<1>7. CASE CommitTransaction
  <2>1. scan.phase = "write" /\ scan' = [scan EXCEPT !.phase = "vibrations"]
    BY <1>7, CommitIs
  <2>2. PICK R : /\ Table(R) /\ dbs' = [dbs EXCEPT !.el1.rows = R]
                 /\ DOMAIN R = DOMAIN scan.buffer.rows \cup DOMAIN rows
                 /\ \A t \in DOMAIN rows \ DOMAIN scan.buffer.rows : R[t] = rows[t]
                 /\ \A t \in DOMAIN scan.buffer.rows :
                        /\ SameUse(R[t], scan.buffer.rows[t])
                        /\ R[t].source = scan.buffer.rows[t].source /\ R[t].place = scan.buffer.rows[t].place
                        /\ R[t].title = scan.buffer.rows[t].title
                        /\ R[t].mark = IF t \in DOMAIN rows THEN rows[t].mark ELSE scan.buffer.rows[t].mark
    BY <1>7, CommitIs, Zenon
  <2> DEFINE B == scan.buffer.rows
  <2>3. dbs'.el1.rows = R /\ dbs'.el2 = dbs.el2 /\ dbs'.el1.vibrations = dbs.el1.vibrations
    BY <1>3, <2>2, El1With
  <2>4. scan'.buffer = scan.buffer /\ scan'.phase = "vibrations"
    BY <1>3, <2>1 DEF ScanOK
  <2>5. ASSUME ScanTitled(scan, dbs.el1.rows) PROVE ScanTitled(scan', dbs'.el1.rows)
    BY <2>4, <2>5 DEF ScanTitled
  <2>6. ASSUME ScanTitled(scan, dbs.el1.rows), Coherent(rows) PROVE Coherent(R)
    <3>1. \A t \in DOMAIN B : IF t \in DOMAIN rows THEN B[t].title = rows[t].title ELSE B[t].mark \notin Languages
      BY <1>3, <2>1, <2>6 DEF ScanTitled
    <3> QED
      BY <2>2, <2>6, <3>1 DEF Coherent
  <2>7. ~history.late => ~Titled(job) \/ (Titled(dbs) /\ ScanTitled(scan, dbs.el1.rows))
    BY DEF TitleInv
  <2>8. ScanTitled(scan, dbs.el1.rows) /\ Titled(dbs) => Titled(dbs')
    BY <1>3, <2>3, <2>6 DEF Titled
  <2> QED
    BY <1>1, <1>4, <2>5, <2>8 DEF Apart, TitleInv, Marked
<1>8. CASE CommitVibrateTransaction
  <2>1. PICK V : /\ Vibrations(V) /\ dbs' = [dbs EXCEPT !.el1.vibrations = V]
                 /\ DOMAIN V = DOMAIN scan.buffer.vibrations \cup DOMAIN dbs.el1.vibrations
                 /\ \A v \in DOMAIN V :
                        V[v] = IF v \in DOMAIN scan.buffer.vibrations THEN scan.buffer.vibrations[v]
                               ELSE dbs.el1.vibrations[v]
    BY <1>8, CommitVibrateIs
  <2>2. dbs'.el1.vibrations = V /\ dbs'.el2 = dbs.el2 /\ dbs'.el1.rows = dbs.el1.rows
    BY <1>3, <2>1, El1With
  <2>3. ScanTitled(scan', dbs'.el1.rows)
    <3> DEFINE none == NoScan.buffer
    <3>1. scan' = [scan EXCEPT !.phase = "defaults", !.buffer = none]
      BY <1>8 DEF CommitVibrateTransaction
    <3>2. DOMAIN none.vibrations = {}
      BY DEF NoScan
    <3> HIDE DEF none
    <3>3. scan'.phase = "defaults" /\ scan'.buffer = none
      BY <1>3, <3>1 DEF ScanOK
    <3> QED
      BY <3>2, <3>3 DEF ScanTitled
  <2>4. ScanTitled(scan, dbs.el1.rows) /\ Coherent(dbs.el1.vibrations) => Coherent(V)
    BY <2>1 DEF ScanTitled, Coherent
  <2>5. ScanTitled(scan, dbs.el1.rows) /\ Titled(dbs) => Titled(dbs')
    BY <2>2, <2>4 DEF Titled
  <2> QED
    BY <1>1, <1>4, <2>3, <2>5 DEF Apart, TitleInv, Marked
<1>9. CASE UpdateDefaultTone
  <2>1. dbs' = dbs /\ scan'.phase # "write" /\ scan'.buffer = scan.buffer
    BY <1>9, DefaultToneIs
  <2> QED
    BY <1>5, <2>1 DEF ScanTitled
<1>10. CASE FlushSettings
  <2>1. /\ scan.phase = "flush"
        /\ \/ dbs' = dbs
           \/ \E R : Tuned(rows, R) /\ dbs' = [dbs EXCEPT !.el1.rows = R]
        /\ scan'.phase \in {"flush", "conf"}
    BY <1>10, FlushIs
  <2>2. scan'.buffer \in {scan.buffer, NoScan.buffer}
    <3>1. \/ \E step \in scan.todo : scan' = [scan EXCEPT !.todo = scan.todo \ {step}]
          \/ scan' = [NoScan EXCEPT !.phase = "conf"]
      BY <1>10, Zenon DEF FlushSettings
    <3>2. CASE \E step \in scan.todo : scan' = [scan EXCEPT !.todo = scan.todo \ {step}]
      BY <1>3, <3>2 DEF ScanOK
    <3>3. CASE scan' = [NoScan EXCEPT !.phase = "conf"]
      BY <3>3 DEF NoScan
    <3> QED
      BY <3>1, <3>2, <3>3
  <2>3. DOMAIN NoScan.buffer.vibrations = {}
    BY DEF NoScan
  <2>4. ScanTitled(scan, dbs.el1.rows) => ScanTitled(scan', dbs'.el1.rows)
    BY <2>1, <2>2, <2>3 DEF ScanTitled
  <2>5. CASE dbs' = dbs
    BY <1>5, <2>4, <2>5
  <2>6. CASE \E R : Tuned(rows, R) /\ dbs' = [dbs EXCEPT !.el1.rows = R]
    <3>1. PICK R : Tuned(rows, R) /\ dbs' = [dbs EXCEPT !.el1.rows = R]
      BY <2>6
    <3>2. Table(R)
      BY <1>3, <3>1, TunedTable
    <3>3. dbs'.el1.rows = R /\ dbs'.el2 = dbs.el2 /\ dbs'.el1.vibrations = dbs.el1.vibrations
      BY <1>3, <3>1, <3>2, El1With
    <3>4. Alike(rows, R)
      BY <3>1, TunedAlike
    <3>5. Titled(dbs) => Titled(dbs')
      BY <1>3, <3>3, <3>4, AlikeCoherent DEF Titled
    <3> QED
      BY <1>5, <2>4, <3>5
  <2> QED
    BY <2>1, <2>5, <2>6
<1>11. CASE UpdateConf
  <2>1. /\ scan' = [scan EXCEPT !.phase = "init"]
        /\ \E conf : Confs(conf) /\ dbs' = [dbs EXCEPT !.el1.conf = conf]
    BY <1>11, ConfIs
  <2>2. dbs'.el1.rows = dbs.el1.rows /\ dbs'.el2 = dbs.el2 /\ dbs'.el1.vibrations = dbs.el1.vibrations
    BY <1>3, <2>1, El1With
  <2>3. scan'.buffer = scan.buffer /\ scan'.phase = "init"
    BY <1>3, <2>1 DEF ScanOK
  <2> QED
    BY <1>5, <2>2, <2>3 DEF Titled, ScanTitled
<1>12. CASE SetInitScanner
  <2>1. dbs' = dbs /\ scan' = [scan EXCEPT !.phase = "delete"]
    BY <1>12 DEF SetInitScanner
  <2>2. scan'.buffer = scan.buffer /\ scan'.phase = "delete"
    BY <1>3, <2>1 DEF ScanOK
  <2> QED
    BY <1>5, <2>1, <2>2 DEF ScanTitled
<1>13. CASE EndOfScan
  <2>1. /\ scan' = NoScan
        /\ \/ dbs' = dbs
           \/ \E R : /\ Table(R) /\ dbs' = [dbs EXCEPT !.el1.rows = R]
                     /\ DOMAIN R \subseteq DOMAIN rows
                     /\ \A t \in DOMAIN R : R[t] = rows[t]
    BY <1>13, EndIs
  <2>2. CASE dbs' = dbs
    BY <1>5, <2>1, <2>2, IdleTitled
  <2>3. CASE \E R : /\ Table(R) /\ dbs' = [dbs EXCEPT !.el1.rows = R]
                    /\ DOMAIN R \subseteq DOMAIN rows
                    /\ \A t \in DOMAIN R : R[t] = rows[t]
    <3>1. PICK R : /\ Table(R) /\ dbs' = [dbs EXCEPT !.el1.rows = R]
                   /\ DOMAIN R \subseteq DOMAIN rows
                   /\ \A t \in DOMAIN R : R[t] = rows[t]
      BY <2>3
    <3>2. dbs'.el1.rows = R /\ dbs'.el2 = dbs.el2 /\ dbs'.el1.vibrations = dbs.el1.vibrations
      BY <1>3, <3>1, El1With
    <3>3. Titled(dbs) => Titled(dbs')
      BY <1>3, <3>1, <3>2 DEF Titled, Coherent
    <3> QED
      BY <1>5, <2>1, <3>3, IdleTitled
  <2> QED
    BY <2>1, <2>2, <2>3
<1> QED
  BY <1>6, <1>7, <1>8, <1>9, <1>10, <1>11, <1>12, <1>13 DEF ScanStep

LEMMA ESimTitles ==
    ASSUME TypeInv, TitleInv, Beside
    PROVE  TitleInv'
<1>1. /\ UNCHANGED <<job, phase, work, scan>> /\ history'.late = history.late
      /\ failures' = 0 => failures = 0
  BY DEF Beside, TypeInv, Counted
<1>2. CASE dbs' = dbs
  BY <1>1, <1>2 DEF TitleInv, Marked
<1>3. CASE dbs' # dbs
  <2>1. /\ dbs'.el1.vibrations = dbs.el1.vibrations /\ dbs'.el2 = dbs.el2
        /\ Tuned(rows, dbs'.el1.rows) /\ rows = dbs.el1.rows
    BY <1>3 DEF Beside, rows
  <2>2. /\ Alike(rows, dbs'.el1.rows)
        /\ \A t \in DOMAIN rows : dbs'.el1.rows[t].source = rows[t].source
    BY <2>1, TunedAlike DEF Tuned, SameTone
  <2>3. Titled(dbs) => Titled(dbs')
    BY <2>1, <2>2, AlikeCoherent DEF Titled
  <2>4. ScanTitled(scan, dbs.el1.rows) => ScanTitled(scan', dbs'.el1.rows)
    BY <1>1, <2>1, <2>2 DEF ScanTitled, Alike
  <2>5. Marked => Marked'
    BY <1>1, <2>1, <2>2 DEF Marked, Alike
  <2> QED
    BY <1>1, <2>3, <2>4, <2>5 DEF TitleInv
<1> QED
  BY <1>2, <1>3

LEMMA CrashTitles ==
    ASSUME TypeInv, TitleInv, Crash
    PROVE  TitleInv'
<1>1. /\ job' = job /\ dbs' = dbs /\ phase' = "off" /\ scan' = NoScan
      /\ history'.late = history.late
  BY DEF Crash, Dies, TypeInv, Memory, HistoryOK
<1> QED
  BY <1>1, IdleTitled, TitlesAside

LEMMA NextTitles == ASSUME TypeInv, TitleInv, [Next]_vars PROVE TitleInv'
<1>1. CASE StartStep
  BY <1>1, OpeningTitles, OnStartTitles, PathTitles, LanguageTitles DEF StartStep
<1>2. CASE UpgradeStep
  BY <1>2, UpgradeTitles
<1>3. CASE ScanStep
  BY <1>3, ScanTitles
<1>4. CASE ESimStep
  BY <1>4, ESimIs, ESimTitles
<1>5. CASE Crash
  BY <1>5, CrashTitles
<1>6. CASE UNCHANGED vars
  BY <1>6 DEF vars, TitleInv, Marked
<1> QED
  BY <1>1, <1>2, <1>3, <1>4, <1>5, <1>6 DEF Next

(* However many tones, vibrations and languages there are, however often the language changes *)
(* and starts are cut off: where no update failed and no scan came late, every preset tone    *)
(* and every vibration of type standard is titled in the system's language once the library   *)
(* is served (SyncAssetLanguage, CheckLanguageTypeByVibration, BuildData, CommitTransaction), *)
(* if what the library it was found with marks as titled in a language is.                    *)
THEOREM PresetsAreTitled == Spec => [](Titled(job) => TitlesInLanguage)
<1> DEFINE Inv == TypeInv /\ TitleInv
<1>1. Init => Inv
  BY InitTypes, InitTitles
<1>2. Inv /\ [Next]_vars => Inv'
  BY NextTypes, NextTitles
<1>3. Inv => (Titled(job) => TitlesInLanguage)
  <2> SUFFICES ASSUME TypeInv, TitleInv, Titled(job), phase = "serving", failures = 0, ~history.late
               PROVE  TitlesInLanguage
    BY DEF TitlesInLanguage
  <2>1. Titled(dbs) /\ Marked /\ work.language \in Languages /\ rows = dbs.el1.rows
    BY DEF TitleInv, TypeInv, Staged, rows
  <2>2. \A t \in DOMAIN rows : rows[t].source = "preset" =>
            rows[t].mark = work.language /\ (t \in Translated => rows[t].title = work.language)
    BY <2>1 DEF Titled, Coherent, Marked
  <2>3. \A v \in StandardVibrations \cap DOMAIN dbs.el1.vibrations :
            /\ dbs.el1.vibrations[v].mark = work.language
            /\ v \in Translated => dbs.el1.vibrations[v].title = work.language
    BY <2>1 DEF Titled, Coherent, Marked
  <2> QED
    BY <2>2, <2>3 DEF TitlesInLanguage
<1> QED
  BY <1>1, <1>2, <1>3, PTL DEF Spec

-----------------------------------------------------------------------------
(* The steps of an upgrade *)

(* The steps one by one. *)
LEMMA StepList ==
    LET a == <<<<2, "language">>, <<3, "mimeType">>, <<4, "confTable">>, <<4, "systemTone">>,
               <<5, "scanAgain">>, <<5, "vibrateTable">>, <<6, "mimeType">>, <<7, "flags">>,
               <<8, "mediaType">>, <<9, "dataUri">>, <<10, "haptic">>, <<11, "soundMode">>,
               <<13, "conf">>, <<13, "systemTone">>>>
        c == <<<<13, "inherit">>, <<13, "sanitize">>, <<13, "simRows">>, <<13, "eSimTime">>>>
    IN  /\ \E S : UpgradeExtension \in Seq(S)
        /\ Len(UpgradeExtension) = 22 /\ DOMAIN UpgradeExtension = 1 .. 22
        /\ \A i \in 1 .. 14 : UpgradeExtension[i] = a[i]
        /\ \A i \in 1 .. 4 : UpgradeExtension[14 + i] = <<13, "eSimTone", ESimDefaultParams[i]>>
        /\ \A i \in 1 .. 4 : UpgradeExtension[18 + i] = c[i]
<1> DEFINE a == <<<<2, "language">>, <<3, "mimeType">>, <<4, "confTable">>, <<4, "systemTone">>,
                  <<5, "scanAgain">>, <<5, "vibrateTable">>, <<6, "mimeType">>, <<7, "flags">>,
                  <<8, "mediaType">>, <<9, "dataUri">>, <<10, "haptic">>, <<11, "soundMode">>,
                  <<13, "conf">>, <<13, "systemTone">>>>
           b == [i \in 1 .. 4 |-> <<13, "eSimTone", ESimDefaultParams[i]>>]
           c == <<<<13, "inherit">>, <<13, "sanitize">>, <<13, "simRows">>, <<13, "eSimTime">>>>
           Any == {a[i] : i \in 1 .. 14} \cup {b[i] : i \in 1 .. 4} \cup {c[i] : i \in 1 .. 4}
<1>1. Len(a) = 14 /\ Len(b) = 4 /\ Len(c) = 4
  OBVIOUS
<1>2. a \in Seq(Any) /\ b \in Seq(Any) /\ c \in Seq(Any)
  OBVIOUS
<1>3. \A i \in 1 .. 4 : b[i] = <<13, "eSimTone", ESimDefaultParams[i]>>
  OBVIOUS
<1>4. UpgradeExtension = (a \o b) \o c
  BY Zenon DEF UpgradeExtension
<1> HIDE DEF a, b, c, Any
<1>5. PICK ab : ab = a \o b
  OBVIOUS
<1> DEFINE e == UpgradeExtension
<1>6. e = ab \o c
  BY <1>4, <1>5, Zenon
<1> HIDE DEF e
<1>7. /\ e \in Seq(Any) /\ Len(e) = Len(a) + Len(b) + Len(c)
      /\ \A i \in 1 .. Len(a) : e[i] = a[i]
      /\ \A i \in 1 .. Len(b) : e[Len(a) + i] = b[i]
      /\ \A i \in 1 .. Len(c) : e[Len(a) + Len(b) + i] = c[i]
  BY <1>2, <1>5, <1>6, JoinedThree
<1>8. Len(e) = 22 /\ DOMAIN e = 1 .. 22
  <2>1. \A s \in Seq(Any) : DOMAIN s = 1 .. Len(s)
    OBVIOUS
  <2>2. Len(e) = 22
    BY <1>1, <1>7
  <2> QED
    BY <1>7, <2>1, <2>2, Zenon
<1>9. 14 + 4 = 18
  OBVIOUS
<1>10. /\ \A i \in 1 .. 14 : e[i] = a[i]
       /\ \A i \in 1 .. 4 : e[14 + i] = <<13, "eSimTone", ESimDefaultParams[i]>>
       /\ \A i \in 1 .. 4 : e[14 + 4 + i] = c[i]
  BY <1>1, <1>3, <1>7, Zenon
<1>11. \A i \in 1 .. 4 : e[18 + i] = c[i]
  BY <1>9, <1>10, Zenon
<1> QED
  BY <1>7, <1>8, <1>10, <1>11, Zenon DEF a, c, e

(* Their names and versions. *)
StepNames ==
    <<"language", "mimeType", "confTable", "systemTone", "scanAgain", "vibrateTable", "mimeType", "flags",
      "mediaType", "dataUri", "haptic", "soundMode", "conf", "systemTone", "eSimTone", "eSimTone", "eSimTone",
      "eSimTone", "inherit", "sanitize", "simRows", "eSimTime">>
StepVersions == <<2, 3, 4, 4, 5, 5, 6, 7, 8, 9, 10, 11, 13, 13, 13, 13, 13, 13, 13, 13, 13, 13>>

LEMMA StepFacts ==
    /\ \A i \in 1 .. 22 : UpgradeExtension[i][1] = StepVersions[i] /\ UpgradeExtension[i][2] = StepNames[i]
    /\ \A i \in 1 .. 4 : UpgradeExtension[14 + i][3] = ESimDefaultParams[i]
<1> DEFINE e == UpgradeExtension
<1> HIDE DEF e
<1>1. /\ e[1] = <<2, "language">> /\ e[2] = <<3, "mimeType">> /\ e[3] = <<4, "confTable">>
      /\ e[4] = <<4, "systemTone">> /\ e[5] = <<5, "scanAgain">> /\ e[6] = <<5, "vibrateTable">>
      /\ e[7] = <<6, "mimeType">> /\ e[8] = <<7, "flags">> /\ e[9] = <<8, "mediaType">>
      /\ e[10] = <<9, "dataUri">> /\ e[11] = <<10, "haptic">> /\ e[12] = <<11, "soundMode">>
      /\ e[13] = <<13, "conf">> /\ e[14] = <<13, "systemTone">>
  BY StepList DEF e
<1>2. /\ e[19] = <<13, "inherit">> /\ e[20] = <<13, "sanitize">> /\ e[21] = <<13, "simRows">>
      /\ e[22] = <<13, "eSimTime">>
  <2>1. \A i \in 1 .. 4 : e[18 + i] = <<<<13, "inherit">>, <<13, "sanitize">>, <<13, "simRows">>, <<13, "eSimTime">>>>[i]
    BY StepList, Zenon DEF e
  <2>2. 19 = 18 + 1 /\ 20 = 18 + 2 /\ 21 = 18 + 3 /\ 22 = 18 + 4
    OBVIOUS
  <2> QED
    BY <2>1, <2>2
<1>3. \A i \in 1 .. 4 : e[14 + i] = <<13, "eSimTone", ESimDefaultParams[i]>>
  BY StepList, Zenon DEF e
<1>4. /\ e[15][1] = 13 /\ e[15][2] = "eSimTone" /\ e[16][1] = 13 /\ e[16][2] = "eSimTone"
      /\ e[17][1] = 13 /\ e[17][2] = "eSimTone" /\ e[18][1] = 13 /\ e[18][2] = "eSimTone"
  <2>1. 15 = 14 + 1 /\ 16 = 14 + 2 /\ 17 = 14 + 3 /\ 18 = 14 + 4
    OBVIOUS
  <2> QED
    BY <1>3, <2>1
<1>5. ASSUME NEW i \in 1 .. 22 PROVE e[i][1] = StepVersions[i] /\ e[i][2] = StepNames[i]
  <2>1. CASE i \in 1 .. 7
    BY <1>1, <2>1 DEF StepVersions, StepNames
  <2>2. CASE i \in 8 .. 14
    BY <1>1, <2>2 DEF StepVersions, StepNames
  <2>3. CASE i \in 15 .. 22
    BY <1>2, <1>4, <2>3 DEF StepVersions, StepNames
  <2> QED
    BY <2>1, <2>2, <2>3
<1>6. \A i \in 1 .. 4 : e[14 + i][3] = ESimDefaultParams[i]
  BY <1>3
<1> QED
  BY <1>5, <1>6 DEF e

(* What is left of the upgrade from step p on. *)
LEMMA LeftFrom ==
    /\ SubSeq(UpgradeExtension, 23, 22) = <<>>
    /\ \A p \in 1 .. 22 :
        LET s == SubSeq(UpgradeExtension, p, 22)
        IN  /\ s # <<>> /\ Head(s) = UpgradeExtension[p]
            /\ Tail(s) = SubSeq(UpgradeExtension, p + 1, 22)
            /\ p = 13 => SubSeq(s, 7, Len(s)) = SubSeq(UpgradeExtension, 19, 22)
<1>1. PICK S : UpgradeExtension \in Seq(S)
  BY StepList
<1>2. Len(UpgradeExtension) = 22
  BY StepList
<1> DEFINE e == UpgradeExtension
<1> HIDE DEF e
<1>3. e \in Seq(S) /\ Len(e) = 22
  BY <1>1, <1>2 DEF e
<1>4. SubSeq(e, 23, 22) = <<>>
  BY <1>3
<1>5. ASSUME NEW p \in 1 .. 22
      PROVE  /\ SubSeq(e, p, 22) # <<>> /\ Head(SubSeq(e, p, 22)) = e[p]
             /\ Tail(SubSeq(e, p, 22)) = SubSeq(e, p + 1, 22)
  <2>1. \A i \in 1 .. 22 : e[i] \in S
    <3>1. \A r \in Seq(S) : \A i \in 1 .. Len(r) : r[i] \in S
      OBVIOUS
    <3> QED
      BY <1>3, <3>1, Zenon
  <2> DEFINE s == SubSeq(e, p, 22)
             t == SubSeq(e, p + 1, 22)
  <2>2. s \in Seq(S) /\ Len(s) = 23 - p /\ \A i \in 1 .. 23 - p : s[i] = e[p + i - 1]
    <3>1. /\ s \in Seq(S) /\ Len(s) = IF p <= 22 THEN 22 - p + 1 ELSE 0
          /\ \A i \in 1 .. 22 - p + 1 : s[i] = e[p + i - 1]
      <4>1. p \in Int /\ 22 \in Int /\ \A i \in p .. 22 : e[i] \in S
        BY <2>1
      <4> QED
        BY <4>1, SubSeqProperties
    <3>2. p <= 22 /\ 22 - p + 1 = 23 - p
      OBVIOUS
    <3> QED
      BY <3>1, <3>2, Zenon
  <2>3. t \in Seq(S) /\ Len(t) = 22 - p /\ \A i \in 1 .. 22 - p : t[i] = e[p + i]
    <3>1. /\ t \in Seq(S) /\ Len(t) = IF p + 1 <= 22 THEN 22 - (p + 1) + 1 ELSE 0
          /\ \A i \in 1 .. 22 - (p + 1) + 1 : t[i] = e[p + 1 + i - 1]
      <4>1. p + 1 \in Int /\ 22 \in Int /\ \A i \in p + 1 .. 22 : e[i] \in S
        BY <2>1
      <4> QED
        BY <4>1, SubSeqProperties
    <3> HIDE DEF t
    <3>2. Len(t) = 22 - p
      <4> DEFINE n == IF p + 1 <= 22 THEN 22 - (p + 1) + 1 ELSE 0
      <4>1. n = 22 - p
        OBVIOUS
      <4>2. Len(t) = n
        BY <3>1
      <4> HIDE DEF n
      <4> QED
        BY <4>1, <4>2, Zenon
    <3>3. ASSUME NEW i \in 1 .. 22 - p PROVE t[i] = e[p + i]
      <4>1. i \in 1 .. 22 - (p + 1) + 1 /\ p + 1 + i - 1 = p + i
        OBVIOUS
      <4> QED
        BY <3>1, <4>1
    <3> QED
      BY <3>1, <3>2, <3>3
  <2> HIDE DEF s, t
  <2>4. s # <<>>
    BY <2>2
  <2>5. Tail(s) \in Seq(S) /\ Len(Tail(s)) = Len(s) - 1 /\ \A i \in 1 .. Len(Tail(s)) : Tail(s)[i] = s[i + 1]
    BY <2>2, <2>4, HeadTailProperties
  <2>6. ASSUME NEW i \in 1 .. Len(Tail(s)) PROVE Tail(s)[i] = t[i]
    <3>1. i + 1 \in 1 .. 23 - p /\ p + (i + 1) - 1 = p + i /\ i \in 1 .. 22 - p
      BY <2>2, <2>5
    <3> QED
      BY <2>2, <2>3, <2>5, <3>1
  <2>7. Tail(s) = t
    <3>1. Len(Tail(s)) = Len(t)
      <4>1. 23 - p - 1 = 22 - p
        OBVIOUS
      <4> QED
        BY <2>2, <2>3, <2>5, <4>1, Zenon
    <3> QED
      BY <2>3, <2>5, <2>6, <3>1, SeqEqual, Zenon
  <2>8. Head(s) = e[p]
    <3>1. 1 \in 1 .. 23 - p /\ p + 1 - 1 = p
      OBVIOUS
    <3>2. s[1] = e[p]
      BY <2>2, <3>1, Zenon
    <3>3. \A r \in Seq(S) : r # <<>> => Head(r) = r[1]
      OBVIOUS
    <3> QED
      BY <2>2, <2>4, <3>2, <3>3, Zenon
  <2> QED
    BY <2>4, <2>7, <2>8, Zenon DEF s, t
<1>6. SubSeq(SubSeq(e, 13, 22), 7, Len(SubSeq(e, 13, 22))) = SubSeq(e, 19, 22)
  BY <1>3
<1>7. \A p \in 1 .. 22 : p = 13 => SubSeq(SubSeq(e, p, 22), 7, Len(SubSeq(e, p, 22))) = SubSeq(e, 19, 22)
  BY <1>6, Zenon
<1> QED
  BY <1>4, <1>5, <1>7, Zenon DEF e
-----------------------------------------------------------------------------
(* What an upgrade has reached *)

(* The number of the step an upgrade from a version begins with. *)
FirstOf(version) == Cardinality({i \in DOMAIN UpgradeExtension : UpgradeExtension[i][1] <= version}) + 1

(* What the steps before step p, each named by its number, have made of a database, and what  *)
(* holds on the way: a conf table with more types than RINGTONE_PRELOAD_CONF_COUNT has all,   *)
(* only tones of the user's are misplaced, and what awaits the first vibrations is clean.     *)
Clean(sims) == \A key \in DOMAIN sims : ~IsDirty(sims[key])
SchemaAt(S, p) ==
    /\ p > 1 => "language" \in S
    /\ p > 3 => "conf" \in S
    /\ p > 6 => "vibrate" \in S
    /\ p > 8 => "flags" \in S
    /\ p > 11 => "haptic" \in S
ConfAt(conf, p) ==
    /\ DOMAIN conf = Types \/ Cardinality(DOMAIN conf) <= RINGTONE_PRELOAD_CONF_COUNT
    /\ p > 13 => DOMAIN conf = Types
RowsAt(R, F, p) ==
    \A t \in DOMAIN R :
        /\ p > 7 => R[t].mime
        /\ p > 9 => R[t].media
        /\ R[t].place = "misplaced" => R[t].source = "customised" /\ (p > 10 => <<t, "new">> \notin F)
SimsAt(sims, V, p) ==
    /\ V = <<>> \/ p > 20 => Clean(sims)
    /\ p > 21 => DOMAIN sims = SimKeys
Whole(db, F, p) ==
    /\ SchemaAt(db.schema, p) /\ ConfAt(db.conf, p) /\ RowsAt(db.rows, F, p)
    /\ SimsAt(db.sims, db.vibrations, p)

(* The default tones, in an upgrade from version v that nothing cuts off. *)
ConfSet(conf, R) ==
    \A x \in DOMAIN Defaults \cap Types : Defaults[x] \in DOMAIN R => x \in DOMAIN conf /\ conf[x] = Defaults[x]
ESimSet(R, x) ==
    x \in DOMAIN Defaults /\ x \in Types /\ Defaults[x] \in DOMAIN R => x[2] \in R[Defaults[x]].on[x[1]]
NoESimChosen(R) == \A t \in DOMAIN R, k \in Kinds : R[t].by[k] = "customised" => R[t].on[k] \cap ESims = {}
DefaultsAt(conf, R, v, p) ==
    /\ v < 4 /\ p > 3 => DOMAIN conf = Types
    /\ v \in {0, 13} \/ p > 14 \/ (v < 4 /\ p > 4) => ConfSet(conf, R)
    /\ v \in 4 .. 12 =>
        /\ p > 4
        /\ p <= 13 => Cardinality(DOMAIN conf) <= RINGTONE_PRELOAD_CONF_COUNT
        /\ NoESimChosen(R)
        /\ \A i \in 1 .. 4 : p > 14 + i => ESimSet(R, ESimDefaultParams[i])

(* The choices of the rows F, and no others. *)
Chosen(F, R) ==
    /\ \A t \in DOMAIN F, k \in Kinds :
        F[t].by[k] = "customised" =>
            /\ t \in DOMAIN R /\ F[t].on[k] \subseteq R[t].on[k]
            /\ F[t].source = "customised" => R[t].source = "customised"
    /\ \A t \in DOMAIN R, k \in Kinds : R[t].by[k] = "customised" =>
        t \in DOMAIN F /\ F[t].by[k] = "customised" /\ R[t].on[k] \subseteq F[t].on[k]

(* A library that grew as the code lets it: the database that is found has what the upgrades  *)
(* to its version made, at most one tone was chosen for each kind and card, and a tone that   *)
(* was chosen is the user's own or one that a scan reads; nor is it one that has been moved   *)
(* and asks to be moved again (see Steady).                                                   *)
Grown ==
    LET db == Found
        R == db.rows
    IN
    /\ Whole(db, job.files, FirstOf(db.version))
    /\ DefaultsAt(db.conf, R, db.version, FirstOf(db.version))
    /\ \A t, u \in DOMAIN R, k \in Kinds :
        R[t].by[k] = "customised" /\ R[u].by[k] = "customised" /\ R[t].on[k] \cap R[u].on[k] # {} => t = u
    /\ \A t \in DOMAIN R, k \in Kinds :
        R[t].by[k] = "customised" => R[t].source = "customised" \/ t \in job.factory
    /\ job.el2Completed /\ job.completed => db.version \notin 1 .. 4 \/ job.crashes = 0

LEMMA FirstIs ==
    /\ \A v \in 0 .. 13 : FirstOf(v) \in 1 .. 23 /\ StepsFrom(v) = SubSeq(UpgradeExtension, FirstOf(v), 22)
    /\ FirstOf(13) = 23
<1>1. \A m, k \in Int : IsFiniteSet(m .. k) /\ Cardinality(m .. k) = IF m > k THEN 0 ELSE k - m + 1
  BY FS_Interval
<1>2. IsFiniteSet(1 .. 22) /\ Cardinality(1 .. 22) = 22
  <2>1. 1 \in Int /\ 22 \in Int /\ ~(1 > 22) /\ 22 - 1 + 1 = 22
    OBVIOUS
  <2>2. Cardinality(1 .. 22) = IF 1 > 22 THEN 0 ELSE 22 - 1 + 1
    BY <1>1, <2>1, Zenon
  <2>3. IsFiniteSet(1 .. 22)
    BY <1>1, <2>1, Zenon
  <2> QED
    BY <2>1, <2>2, <2>3
<1>3. ASSUME NEW v \in 0 .. 13
      PROVE  FirstOf(v) \in 1 .. 23 /\ StepsFrom(v) = SubSeq(UpgradeExtension, FirstOf(v), 22)
  <2> DEFINE past == {i \in DOMAIN UpgradeExtension : UpgradeExtension[i][1] <= v}
             n == Cardinality(past)
  <2>1. past \subseteq 1 .. 22
    BY StepList
  <2>2. FirstOf(v) = n + 1
    BY Zenon DEF FirstOf
  <2>3. StepsFrom(v) = SubSeq(UpgradeExtension, n + 1, 22)
    BY StepList, Zenon DEF StepsFrom
  <2> HIDE DEF past
  <2>4. n \in Nat /\ n <= 22
    BY <1>2, <2>1, FS_Subset, FS_CardinalityType
  <2> HIDE DEF n
  <2> QED
    BY <2>2, <2>3, <2>4
<1>4. FirstOf(13) = 23
  <2> DEFINE past == {i \in DOMAIN UpgradeExtension : UpgradeExtension[i][1] <= 13}
  <2>1. \A i \in 1 .. 22 : StepVersions[i] <= 13
    BY DEF StepVersions
  <2>2. \A i \in 1 .. 22 : UpgradeExtension[i][1] <= 13
    BY <2>1, StepFacts, Zenon
  <2>3. past = 1 .. 22
    BY <2>2, StepList, Zenon
  <2>4. FirstOf(13) = Cardinality(past) + 1
    BY Zenon DEF FirstOf
  <2> HIDE DEF past
  <2> QED
    BY <1>2, <2>3, <2>4
<1> QED
  BY <1>3, <1>4

(* The statements of the steps, one by one, and what they leave of a database: the upgrade    *)
(* goes on with step q; step p is due; and it leaves db, with step p or a crash to follow.    *)
Goes(q) ==
    /\ phase' = "upgrade" /\ work' = [work EXCEPT !.todo = SubSeq(UpgradeExtension, q, 22)]
    /\ UNCHANGED <<scan, clients, crashes>>
    /\ history'.chosen = history.chosen /\ history'.runs = history.runs

Due(p) ==
    /\ TypeInv /\ phase = "upgrade" /\ failures = 0 /\ failures' = 0
    /\ work.todo = SubSeq(UpgradeExtension, p, 22)
    /\ Whole(Db, files, p)

Reaches(db, p) ==
    /\ UsedDb(db) /\ db.version = Db.version /\ SetDb(db)
    /\ Chosen(Found.rows, Db.rows) => Chosen(Found.rows, db.rows)
    /\ \/ Dies /\ Whole(db, files, p)
       \/ \E q \in p .. 23 :
            /\ Goes(q) /\ Whole(db, files, q)
            /\ DefaultsAt(Db.conf, Db.rows, Found.version, p) => DefaultsAt(db.conf, db.rows, Found.version, q)

LEMMA DueIs ==
    ASSUME NEW p \in 1 .. 23, Due(p)
    PROVE  /\ UsedDb(Db) /\ Table(Db.rows) /\ Confs(Db.conf) /\ Sims(Db.sims) /\ Db.schema \subseteq Schemas
           /\ \A s : At(s) =>
                /\ p \in 1 .. 22 /\ StepNames[p] = s
                /\ Head(work.todo)[3] = UpgradeExtension[p][3]
                /\ Tail(work.todo) = SubSeq(UpgradeExtension, p + 1, 22)
                /\ p = 13 => SubSeq(work.todo, 7, Len(work.todo)) = SubSeq(UpgradeExtension, 19, 22)
<1>1. UsedDb(Db)
  BY OpenDb DEF Due
<1>2. Table(Db.rows) /\ Confs(Db.conf) /\ Sims(Db.sims) /\ Db.schema \subseteq Schemas
  BY <1>1, DbParts
<1>3. ASSUME NEW s, At(s)
      PROVE  /\ p \in 1 .. 22 /\ StepNames[p] = s
             /\ Head(work.todo)[3] = UpgradeExtension[p][3]
             /\ Tail(work.todo) = SubSeq(UpgradeExtension, p + 1, 22)
             /\ p = 13 => SubSeq(work.todo, 7, Len(work.todo)) = SubSeq(UpgradeExtension, 19, 22)
  <2> DEFINE w == work.todo
  <2>1. w # <<>> /\ Head(w)[2] = s
    BY <1>3 DEF At
  <2>2. w = SubSeq(UpgradeExtension, p, 22)
    BY DEF Due
  <2> HIDE DEF w
  <2>3. p \in 1 .. 22
    <3>1. p # 23
      BY <2>1, <2>2, LeftFrom
    <3> QED
      BY <3>1
  <2>4. /\ Head(w) = UpgradeExtension[p] /\ Tail(w) = SubSeq(UpgradeExtension, p + 1, 22)
        /\ p = 13 => SubSeq(w, 7, Len(w)) = SubSeq(UpgradeExtension, 19, 22)
    BY <2>2, <2>3, LeftFrom, Zenon
  <2>5. StepNames[p] = s
    BY <2>1, <2>3, <2>4, StepFacts, Zenon
  <2> QED
    BY <2>3, <2>4, <2>5, Zenon DEF w
<1> QED
  BY <1>1, <1>2, <1>3

LEMMA EndsGoes ==
    ASSUME TypeInv, failures = 0, failures' = 0, NEW done, NEW q,
           Ends(done, "upgrade", [work EXCEPT !.todo = SubSeq(UpgradeExtension, q, 22)])
    PROVE  (done /\ Goes(q)) \/ (~done /\ Dies)
<1>1. ~Fails
  BY DEF Fails
<1> QED
  BY <1>1 DEF Ends, Goes, others

LEMMA Next1Goes ==
    ASSUME NEW p \in 1 .. 23, Due(p), NEW s, At(s), NEW done, Next1(done)
    PROVE  (done /\ Goes(p + 1)) \/ (~done /\ Dies)
<1>1. Tail(work.todo) = SubSeq(UpgradeExtension, p + 1, 22)
  BY DueIs
<1>2. Ends(done, "upgrade", [work EXCEPT !.todo = Tail(work.todo)])
  BY DEF Next1
<1> DEFINE rest == Tail(work.todo)
<1>3. Ends(done, "upgrade", [work EXCEPT !.todo = SubSeq(UpgradeExtension, p + 1, 22)])
  BY <1>1, <1>2
<1> QED
  BY <1>3, EndsGoes DEF Due

(* What a change of one column of tables leaves of the others. *)
LEMMA DbFields ==
    ASSUME NEW db, UsedDb(db)
    PROVE  /\ \A R : Table(R) =>
                LET new == [db EXCEPT !.rows = R]
                IN  /\ UsedDb(new) /\ new.version = db.version /\ new.schema = db.schema /\ new.rows = R
                    /\ new.conf = db.conf /\ new.sims = db.sims /\ new.vibrations = db.vibrations
           /\ \A conf : Confs(conf) =>
                LET new == [db EXCEPT !.conf = conf]
                IN  /\ UsedDb(new) /\ new.version = db.version /\ new.schema = db.schema /\ new.rows = db.rows
                    /\ new.conf = conf /\ new.sims = db.sims /\ new.vibrations = db.vibrations
           /\ \A sims : Sims(sims) =>
                LET new == [db EXCEPT !.sims = sims]
                IN  /\ UsedDb(new) /\ new.version = db.version /\ new.schema = db.schema /\ new.rows = db.rows
                    /\ new.conf = db.conf /\ new.sims = sims /\ new.vibrations = db.vibrations
           /\ \A S : S \subseteq Schemas =>
                LET new == [db EXCEPT !.schema = S]
                IN  /\ UsedDb(new) /\ new.version = db.version /\ new.schema = S /\ new.rows = db.rows
                    /\ new.conf = db.conf /\ new.sims = db.sims /\ new.vibrations = db.vibrations
<1>1. db = [version |-> db.version, schema |-> db.schema, rows |-> db.rows, conf |-> db.conf,
            sims |-> db.sims, vibrations |-> db.vibrations]
  BY DbParts
<1>2. /\ \A R : Table(R) => UsedDb([db EXCEPT !.rows = R])
      /\ \A conf : Confs(conf) => UsedDb([db EXCEPT !.conf = conf])
      /\ \A sims : Sims(sims) => UsedDb([db EXCEPT !.sims = sims])
      /\ \A S : S \subseteq Schemas => UsedDb([db EXCEPT !.schema = S])
  BY DbWith
<1>3. /\ \A R : LET new == [db EXCEPT !.rows = R]
               IN  /\ new.version = db.version /\ new.schema = db.schema /\ new.rows = R
                   /\ new.conf = db.conf /\ new.sims = db.sims /\ new.vibrations = db.vibrations
      /\ \A conf : LET new == [db EXCEPT !.conf = conf]
               IN  /\ new.version = db.version /\ new.schema = db.schema /\ new.rows = db.rows
                   /\ new.conf = conf /\ new.sims = db.sims /\ new.vibrations = db.vibrations
      /\ \A sims : LET new == [db EXCEPT !.sims = sims]
               IN  /\ new.version = db.version /\ new.schema = db.schema /\ new.rows = db.rows
                   /\ new.conf = db.conf /\ new.sims = sims /\ new.vibrations = db.vibrations
      /\ \A S : LET new == [db EXCEPT !.schema = S]
               IN  /\ new.version = db.version /\ new.schema = S /\ new.rows = db.rows
                   /\ new.conf = db.conf /\ new.sims = db.sims /\ new.vibrations = db.vibrations
  BY <1>1
<1> QED
  BY <1>2, <1>3, Zenon

(* Rows whose tones keep their cards and get no new choices. *)
Widened(R, new) ==
    /\ DOMAIN new = DOMAIN R
    /\ \A t \in DOMAIN R : R[t].source = "customised" => new[t].source = "customised"
    /\ \A t \in DOMAIN R : \A k \in Kinds :
        /\ R[t].on[k] \subseteq new[t].on[k]
        /\ new[t].by[k] = "customised" => R[t].by[k] = "customised" /\ new[t].on[k] = R[t].on[k]

LEMMA WidenedIs ==
    ASSUME NEW R, NEW new, Widened(R, new)
    PROVE  /\ \A F : Chosen(F, R) => Chosen(F, new)
           /\ \A conf : ConfSet(conf, R) => ConfSet(conf, new)
           /\ NoESimChosen(R) => NoESimChosen(new)
           /\ \A x : ESimSet(R, x) => ESimSet(new, x)
<1>1. ASSUME NEW F, Chosen(F, R) PROVE Chosen(F, new)
  <2>1. ASSUME NEW t \in DOMAIN F, NEW k \in Kinds, F[t].by[k] = "customised"
        PROVE  /\ t \in DOMAIN new /\ F[t].on[k] \subseteq new[t].on[k]
               /\ F[t].source = "customised" => new[t].source = "customised"
    <3>1. /\ t \in DOMAIN R /\ F[t].on[k] \subseteq R[t].on[k]
          /\ F[t].source = "customised" => R[t].source = "customised"
      BY <1>1, <2>1, Zenon DEF Chosen
    <3>2. /\ t \in DOMAIN new /\ R[t].on[k] \subseteq new[t].on[k]
          /\ R[t].source = "customised" => new[t].source = "customised"
      BY <3>1, Zenon DEF Widened
    <3> QED
      BY <3>1, <3>2
  <2>2. ASSUME NEW t \in DOMAIN new, NEW k \in Kinds, new[t].by[k] = "customised"
        PROVE  t \in DOMAIN F /\ F[t].by[k] = "customised" /\ new[t].on[k] \subseteq F[t].on[k]
    <3>1. t \in DOMAIN R /\ R[t].by[k] = "customised" /\ new[t].on[k] = R[t].on[k]
      BY <2>2, Zenon DEF Widened
    <3>2. t \in DOMAIN F /\ F[t].by[k] = "customised" /\ R[t].on[k] \subseteq F[t].on[k]
      BY <1>1, <3>1, Zenon DEF Chosen
    <3> QED
      BY <3>1, <3>2
  <2> QED
    BY <2>1, <2>2, Zenon DEF Chosen
<1>2. \A conf : ConfSet(conf, R) => ConfSet(conf, new)
  BY Zenon DEF ConfSet, Widened
<1>3. NoESimChosen(R) => NoESimChosen(new)
  BY DEF NoESimChosen, Widened
<1>4. ASSUME NEW x, ESimSet(R, x) PROVE ESimSet(new, x)
  <2>1. SUFFICES ASSUME x \in DOMAIN Defaults, x \in Types, Defaults[x] \in DOMAIN new
                 PROVE  x[2] \in new[Defaults[x]].on[x[1]]
    BY DEF ESimSet
  <2>2. x[1] \in Kinds
    BY <2>1 DEF Types
  <2> DEFINE t == Defaults[x]
             k == x[1]
  <2>3. t \in DOMAIN R /\ x[2] \in R[t].on[k]
    BY <1>4, <2>1 DEF ESimSet, Widened
  <2> HIDE DEF t, k
  <2>4. R[t].on[k] \subseteq new[t].on[k]
    BY <2>2, <2>3, Zenon DEF Widened, k
  <2>5. x[2] \in new[t].on[k]
    BY <2>3, <2>4
  <2> QED
    BY <2>5 DEF t, k
<1> QED
  BY <1>1, <1>2, <1>3, <1>4

LEMMA ESimParamsAre ==
    \A i \in 1 .. 4 : ESimDefaultParams[i][1] \in CardKinds /\ ESimDefaultParams[i][2] \in ESims
BY DEF ESimDefaultParams, CardKinds, ESims

LEMMA FoundIs ==
    ASSUME TypeInv
    PROVE  IsDb(Found) /\ Found.version \in 0 .. 13
<1>1. IsDb(Found)
  BY JobIs DEF IsJob, Found
<1> QED
  BY <1>1 DEF IsDb, DbOK, RINGTONE_RDB_VERSION

(* A step that leaves the rows and the conf table alone, or widens the rows. *)
LEMMA DefaultsStay ==
    ASSUME NEW conf, NEW R, NEW new, NEW v \in 0 .. 13, NEW p \in 1 .. 22, p \notin {3, 4, 14, 15, 16, 17, 18},
           Widened(R, new), DefaultsAt(conf, R, v, p)
    PROVE  DefaultsAt(conf, new, v, p + 1)
<1>1. /\ ConfSet(conf, R) => ConfSet(conf, new)
      /\ NoESimChosen(R) => NoESimChosen(new)
      /\ \A x : ESimSet(R, x) => ESimSet(new, x)
  BY WidenedIs
<1>2. v < 4 /\ p + 1 > 3 => DOMAIN conf = Types
  BY DEF DefaultsAt
<1>3. v \in {0, 13} \/ p + 1 > 14 \/ (v < 4 /\ p + 1 > 4) => ConfSet(conf, new)
  BY <1>1 DEF DefaultsAt
<1>4. ASSUME v \in 4 .. 12
      PROVE  /\ p + 1 > 4
             /\ p + 1 <= 13 => Cardinality(DOMAIN conf) <= RINGTONE_PRELOAD_CONF_COUNT
             /\ NoESimChosen(new)
             /\ \A i \in 1 .. 4 : p + 1 > 14 + i => ESimSet(new, ESimDefaultParams[i])
  <2>1. /\ p > 4
        /\ p <= 13 => Cardinality(DOMAIN conf) <= RINGTONE_PRELOAD_CONF_COUNT
        /\ NoESimChosen(R)
        /\ \A i \in 1 .. 4 : p > 14 + i => ESimSet(R, ESimDefaultParams[i])
    BY <1>4, Zenon DEF DefaultsAt
  <2>2. (p + 1 <= 13 => p <= 13) /\ (p > 4 => p + 1 > 4)
    OBVIOUS
  <2>3. \A i \in 1 .. 4 : p + 1 > 14 + i => p > 14 + i
    OBVIOUS
  <2> QED
    BY <1>1, <2>1, <2>2, <2>3, Zenon
<1> QED
  BY <1>2, <1>3, <1>4, Zenon DEF DefaultsAt

LEMMA WidenedSame == \A R : Widened(R, R)
BY DEF Widened

(* Columns and tables *)
LEMMA SameReaches ==
    ASSUME NEW p \in 1 .. 23, Due(p), SetDb(Db),
           \/ Dies
           \/ \E q \in p .. 23 : /\ Goes(q) /\ Whole(Db, files, q)
                                 /\ DefaultsAt(Db.conf, Db.rows, Found.version, p)
                                    => DefaultsAt(Db.conf, Db.rows, Found.version, q)
    PROVE  Reaches(Db, p)
<1>1. UsedDb(Db)
  BY DueIs
<1> QED
  BY <1>1, Zenon DEF Reaches, Due

LEMMA FlagsReach ==
    ASSUME NEW p \in 1 .. 23, Due(p), AddColumn \/ AddRingMockHapticAudioTable
    PROVE  \E db : Reaches(db, p)
<1>1. PICK column \in {"language", "flags", "haptic"} :
        /\ At(column)
        /\ \E done \in BOOLEAN :
            /\ SetDb(IF done THEN [Db EXCEPT !.schema = Db.schema \cup {column}] ELSE Db)
            /\ Next1(done)
  BY DEF AddColumn, AddRingMockHapticAudioTable
<1>2. PICK done \in BOOLEAN :
        /\ SetDb(IF done THEN [Db EXCEPT !.schema = Db.schema \cup {column}] ELSE Db)
        /\ Next1(done)
  BY <1>1
<1>3. (done /\ Goes(p + 1)) \/ (~done /\ Dies)
  BY <1>1, <1>2, Next1Goes
<1>4. CASE done
  <2> DEFINE S == Db.schema \cup {column}
             db == [Db EXCEPT !.schema = S]
  <2>1. SetDb(db) /\ Goes(p + 1)
    BY <1>2, <1>3, <1>4
  <2>2. S \subseteq Schemas
    BY <1>1, DueIs DEF Schemas
  <2>3. /\ UsedDb(db) /\ db.version = Db.version /\ db.schema = S /\ db.rows = Db.rows
        /\ db.conf = Db.conf /\ db.sims = Db.sims /\ db.vibrations = Db.vibrations
    <3> HIDE DEF S
    <3> QED
      BY <2>2, DueIs, DbFields
  <2> HIDE DEF db
  <2>4. p \in 1 .. 22 /\ StepNames[p] = column
    BY <1>1, DueIs
  <2>5. \/ p = 1 /\ column = "language"
        \/ p = 8 /\ column = "flags"
        \/ p = 11 /\ column = "haptic"
    BY <1>1, <2>4 DEF StepNames
  <2>6. Whole(Db, files, p)
    BY DEF Due
  <2>7. SchemaAt(S, p + 1)
    BY <2>5, <2>6 DEF Whole, SchemaAt
  <2>8. ConfAt(Db.conf, p + 1) /\ RowsAt(Db.rows, files, p + 1) /\ SimsAt(Db.sims, Db.vibrations, p + 1)
    BY <2>5, <2>6 DEF Whole, ConfAt, RowsAt, SimsAt
  <2>9. Whole(db, files, p + 1)
    BY <2>3, <2>7, <2>8 DEF Whole
  <2>10. DefaultsAt(Db.conf, Db.rows, Found.version, p) => DefaultsAt(Db.conf, Db.rows, Found.version, p + 1)
    <3>1. p \notin {3, 4, 14, 15, 16, 17, 18} /\ Found.version \in 0 .. 13
      BY <2>5, FoundIs DEF Due
    <3> QED
      BY <2>4, <3>1, DefaultsStay, WidenedSame
  <2>11. p + 1 \in p .. 23
    BY <2>4
  <2>12. Reaches(db, p)
    BY <2>1, <2>3, <2>9, <2>10, <2>11, Zenon DEF Reaches
  <2> QED
    BY <2>12
<1>5. CASE ~done
  <2>1. SetDb(Db) /\ Dies
    BY <1>2, <1>3, <1>5
  <2> QED
    BY <2>1, SameReaches
<1> QED
  BY <1>4, <1>5

LEMMA TypesFinite == IsFiniteSet(Types)
<1> DEFINE K == {"ring", "shot", "notification", "alarm"}
           C == {"SIM1", "SIM2", "ESIM1", "ESIM2", "device"}
<1>1. \A S, x : IsFiniteSet(S) => IsFiniteSet(S \cup {x})
  BY FS_AddElement
<1>2. IsFiniteSet({})
  BY FS_EmptySet
<1>3. K = {} \cup {"ring"} \cup {"shot"} \cup {"notification"} \cup {"alarm"}
  OBVIOUS
<1>4. C = {} \cup {"SIM1"} \cup {"SIM2"} \cup {"ESIM1"} \cup {"ESIM2"} \cup {"device"}
  OBVIOUS
<1> HIDE DEF K, C
<1>5. IsFiniteSet(K) /\ IsFiniteSet(C)
  BY <1>1, <1>2, <1>3, <1>4, Zenon
<1>6. Types \subseteq K \X C
  BY ToneSettingsAssumption DEF Types, AllSlots, K, C
<1> QED
  BY <1>5, <1>6, FS_Product, FS_Subset

LEMMA TypesCounted ==
    ASSUME NEW conf, Confs(conf), Cardinality(DOMAIN conf) > RINGTONE_PRELOAD_CONF_COUNT
    PROVE  ~(Cardinality(DOMAIN conf) <= RINGTONE_PRELOAD_CONF_COUNT)
<1> DEFINE D == DOMAIN conf
           n == Cardinality(D)
<1>1. D \subseteq Types
  BY DEF Confs
<1> HIDE DEF D
<1>2. IsFiniteSet(D)
  BY <1>1, TypesFinite, FS_Subset
<1>3. n \in Nat
  BY <1>2, FS_CardinalityType
<1>4. n > RINGTONE_PRELOAD_CONF_COUNT
  BY DEF D
<1> HIDE DEF n
<1>5. ~(n <= RINGTONE_PRELOAD_CONF_COUNT)
  <2>1. RINGTONE_PRELOAD_CONF_COUNT \in Nat
    BY LibraryAssumption
  <2>2. \A a, b \in Nat : a > b => ~(a <= b)
    OBVIOUS
  <2> QED
    BY <1>3, <1>4, <2>1, <2>2, Zenon
<1> QED
  BY <1>5 DEF n, D

LEMMA ConfReaches ==
    ASSUME NEW p \in 1 .. 23, Due(p), AddPreloadConfTable
    PROVE  \E db : Reaches(db, p)
<1> DEFINE few == ~(Cardinality(DOMAIN Db.conf) > RINGTONE_PRELOAD_CONF_COUNT)
           left(counted) == At("conf") /\ (~counted \/ ~few)
           after(counted) == IF left(counted) THEN SubSeq(work.todo, 7, Len(work.todo)) ELSE Tail(work.todo)
           conf == Merge(Db.conf, [type \in Types |-> "null"])
           S == Db.schema \cup {"conf"}
<1>0. PICK done \in BOOLEAN, counted \in BOOLEAN :
            /\ done => counted
            /\ SetDb(IF done /\ ~left(counted) THEN [Db EXCEPT !.schema = S, !.conf = conf] ELSE Db)
            /\ Ends(done, "upgrade", [work EXCEPT !.todo = after(counted)])
  BY DEF AddPreloadConfTable
<1> DEFINE full == left(counted)
           rest == after(counted)
<1>1. /\ SetDb(IF done /\ ~full THEN [Db EXCEPT !.schema = S, !.conf = conf] ELSE Db)
      /\ Ends(done, "upgrade", [work EXCEPT !.todo = rest])
  BY <1>0
<1>2. UsedDb(Db) /\ Confs(Db.conf) /\ Db.schema \subseteq Schemas
  BY DueIs
<1>3. \/ p = 3 /\ ~At("conf")
      \/ p = 13 /\ At("conf")
  <2>1. PICK s \in {"confTable", "conf"} : At(s)
    BY DEF AddPreloadConfTable
  <2>2. p \in 1 .. 22 /\ StepNames[p] = s
    BY <2>1, DueIs
  <2>3. At("conf") => StepNames[p] = "conf"
    BY DueIs
  <2> QED
    BY <2>1, <2>2, <2>3 DEF StepNames
<1>4. p \in 1 .. 22 /\ Tail(work.todo) = SubSeq(UpgradeExtension, p + 1, 22)
      /\ (p = 13 => SubSeq(work.todo, 7, Len(work.todo)) = SubSeq(UpgradeExtension, 19, 22))
  <2>1. PICK s \in {"confTable", "conf"} : At(s)
    BY DEF AddPreloadConfTable
  <2> QED
    BY <2>1, DueIs
<1>5. Whole(Db, files, p) /\ TypeInv /\ failures = 0 /\ failures' = 0
  BY DEF Due
<1>6. ConfAt(Db.conf, p)
  BY <1>5 DEF Whole
<1>7. Found.version \in 0 .. 13
  BY <1>5, FoundIs
<1>8. CASE ~done
  <2>1. SetDb(Db)
    BY <1>1, <1>8
  <2>2. Dies
    BY <1>1, <1>5, <1>8 DEF Ends, Fails
  <2> QED
    BY <2>1, <2>2, SameReaches
<1>9. CASE done /\ full
  <2>1. SetDb(Db)
    BY <1>1, <1>9
  <2>2. p = 13 /\ Cardinality(DOMAIN Db.conf) > RINGTONE_PRELOAD_CONF_COUNT
    BY <1>0, <1>3, <1>9
  <2>3. rest = SubSeq(UpgradeExtension, 19, 22)
    BY <1>4, <1>9, <2>2
  <2>4. Goes(19)
    <3> HIDE DEF rest
    <3>1. Ends(done, "upgrade", [work EXCEPT !.todo = SubSeq(UpgradeExtension, 19, 22)])
      BY <1>1, <2>3
    <3> QED
      BY <1>5, <1>9, <3>1, EndsGoes
  <2>5. DOMAIN Db.conf = Types
    <3>2. ~(Cardinality(DOMAIN Db.conf) <= RINGTONE_PRELOAD_CONF_COUNT)
      BY <1>2, <2>2, TypesCounted
    <3> QED
      BY <1>6, <3>2 DEF ConfAt
  <2>6. Whole(Db, files, 19)
    <3>1. /\ SchemaAt(Db.schema, 13) /\ RowsAt(Db.rows, files, 13) /\ SimsAt(Db.sims, Db.vibrations, 13)
      BY <1>5, <2>2 DEF Whole
    <3>2. SchemaAt(Db.schema, 19) /\ RowsAt(Db.rows, files, 19) /\ SimsAt(Db.sims, Db.vibrations, 19)
      BY <3>1 DEF SchemaAt, RowsAt, SimsAt
    <3> QED
      BY <2>5, <3>2 DEF Whole, ConfAt
  <2>7. DefaultsAt(Db.conf, Db.rows, Found.version, p) => DefaultsAt(Db.conf, Db.rows, Found.version, 19)
    <3> DEFINE v == Found.version
    <3>1. SUFFICES ASSUME DefaultsAt(Db.conf, Db.rows, v, 13)
                   PROVE  DefaultsAt(Db.conf, Db.rows, v, 19)
      BY <2>2
    <3> HIDE DEF v
    <3>2. v \in 0 .. 13
      BY <1>7 DEF v
    <3>3. v \notin 4 .. 12
      <4>2. ~(Cardinality(DOMAIN Db.conf) <= RINGTONE_PRELOAD_CONF_COUNT)
        BY <1>2, <2>2, TypesCounted
      <4> QED
        BY <3>1, <4>2 DEF DefaultsAt
    <3>4. ConfSet(Db.conf, Db.rows)
      BY <3>1, <3>2, <3>3 DEF DefaultsAt
    <3> QED
      BY <2>5, <3>3, <3>4 DEF DefaultsAt
  <2>8. 19 \in p .. 23
    BY <2>2
  <2> QED
    BY <2>1, <2>4, <2>6, <2>7, <2>8, SameReaches
<1>10. CASE done /\ ~full
  <2> DEFINE mid == [Db EXCEPT !.schema = S]
             db == [mid EXCEPT !.conf = conf]
  <2>1. SetDb(db)
    <3>1. [Db EXCEPT !.schema = S, !.conf = conf] = db
      OBVIOUS
    <3>2. SetDb([Db EXCEPT !.schema = S, !.conf = conf])
      BY <1>1, <1>10
    <3> QED
      BY <3>1, <3>2, Zenon
  <2>2. Goes(p + 1)
    <3>1. rest = SubSeq(UpgradeExtension, p + 1, 22)
      BY <1>4, <1>10
    <3> HIDE DEF rest
    <3>2. Ends(done, "upgrade", [work EXCEPT !.todo = SubSeq(UpgradeExtension, p + 1, 22)])
      BY <1>1, <3>1
    <3> QED
      BY <1>5, <1>10, <3>2, EndsGoes
  <2>3. S \subseteq Schemas
    BY <1>2 DEF Schemas
  <2>4. /\ Confs(conf) /\ DOMAIN conf = Types
        /\ \A x \in DOMAIN Db.conf : conf[x] = Db.conf[x]
    BY <1>2 DEF Confs, Merge
  <2>5. /\ UsedDb(mid) /\ mid.version = Db.version /\ mid.schema = S /\ mid.rows = Db.rows
        /\ mid.sims = Db.sims /\ mid.vibrations = Db.vibrations
    <3> HIDE DEF S
    <3> QED
      BY <1>2, <2>3, DbFields
  <2> HIDE DEF mid
  <2>6. /\ UsedDb(db) /\ db.version = mid.version /\ db.schema = mid.schema /\ db.rows = mid.rows
        /\ db.conf = conf /\ db.sims = mid.sims /\ db.vibrations = mid.vibrations
    <3> HIDE DEF conf
    <3> QED
      BY <2>4, <2>5, DbFields
  <2> HIDE DEF db
  <2>7. Whole(db, files, p + 1)
    <3>1. /\ SchemaAt(Db.schema, p) /\ RowsAt(Db.rows, files, p) /\ SimsAt(Db.sims, Db.vibrations, p)
      BY <1>5 DEF Whole
    <3>2. SchemaAt(S, p + 1)
      BY <1>3, <3>1 DEF SchemaAt
    <3>3. RowsAt(Db.rows, files, p + 1) /\ SimsAt(Db.sims, Db.vibrations, p + 1)
      BY <1>3, <3>1 DEF RowsAt, SimsAt
    <3>4. ConfAt(conf, p + 1)
      BY <2>4 DEF ConfAt
    <3> QED
      BY <2>5, <2>6, <3>2, <3>3, <3>4, Zenon DEF Whole
  <2> HIDE DEF conf
  <2>8. DefaultsAt(Db.conf, Db.rows, Found.version, p) => DefaultsAt(conf, Db.rows, Found.version, p + 1)
    <3> DEFINE v == Found.version
               old == Db.conf
               R == Db.rows
    <3>1. SUFFICES ASSUME DefaultsAt(old, R, v, p)
                   PROVE  DefaultsAt(conf, R, v, p + 1)
      OBVIOUS
    <3>2. v \in 0 .. 13 /\ p \in {3, 13}
      BY <1>3, <1>7
    <3>3. ConfSet(old, R) => ConfSet(conf, R)
      BY <2>4, Zenon DEF ConfSet
    <3> HIDE DEF v, old, R
    <3>4. v \in {0, 13} \/ p + 1 > 14 \/ (v < 4 /\ p + 1 > 4) => ConfSet(conf, R)
      BY <3>1, <3>2, <3>3 DEF DefaultsAt
    <3>5. ASSUME v \in 4 .. 12
          PROVE  /\ p + 1 > 4
                 /\ p + 1 <= 13 => Cardinality(DOMAIN conf) <= RINGTONE_PRELOAD_CONF_COUNT
                 /\ NoESimChosen(R)
                 /\ \A i \in 1 .. 4 : p + 1 > 14 + i => ESimSet(R, ESimDefaultParams[i])
      <4>1. NoESimChosen(R) /\ p = 13
        BY <3>1, <3>2, <3>5 DEF DefaultsAt
      <4>2. \A i \in 1 .. 4 : ~(p + 1 > 14 + i)
        BY <3>2
      <4> QED
        BY <3>2, <4>1, <4>2
    <3> QED
      BY <2>4, <3>4, <3>5, Zenon DEF DefaultsAt
  <2>9. p + 1 \in p .. 23
    BY <1>4
  <2>10. Reaches(db, p)
    BY <2>1, <2>2, <2>5, <2>6, <2>7, <2>8, <2>9, Zenon DEF Reaches
  <2> QED
    BY <2>10
<1> QED
  BY <1>8, <1>9, <1>10

LEMMA CleanMerged ==
    ASSUME NEW sims, NEW keys
    PROVE  LET new == Merge(sims, [key \in keys |-> EmptySim])
           IN  DOMAIN new = DOMAIN sims \cup keys /\ (Clean(sims) => Clean(new))
<1>1. ~IsDirty(EmptySim)
  BY DEF IsDirty, EmptySim
<1> DEFINE new == Merge(sims, [key \in keys |-> EmptySim])
<1>2. /\ DOMAIN new = DOMAIN sims \cup keys
      /\ \A key \in DOMAIN new : new[key] = IF key \in DOMAIN sims THEN sims[key] ELSE EmptySim
  BY DEF Merge
<1> HIDE DEF new
<1>3. Clean(sims) => Clean(new)
  BY <1>1, <1>2 DEF Clean
<1> QED
  BY <1>2, <1>3 DEF new

(* A change of the rows of SimCardSetting. *)
LEMMA SimsReach ==
    ASSUME NEW p \in 1 .. 22, Due(p), NEW sims, Sims(sims), SetDb([Db EXCEPT !.sims = sims]),
           p \notin {3, 4, 14, 15, 16, 17, 18}, p \notin {1, 2, 6, 7, 8, 9, 10, 11, 13},
           \/ Dies /\ SimsAt(sims, Db.vibrations, p)
           \/ Goes(p + 1) /\ SimsAt(sims, Db.vibrations, p + 1)
    PROVE  \E db : Reaches(db, p)
<1> DEFINE db == [Db EXCEPT !.sims = sims]
<1>1. /\ UsedDb(db) /\ db.version = Db.version /\ db.schema = Db.schema /\ db.rows = Db.rows
      /\ db.conf = Db.conf /\ db.sims = sims /\ db.vibrations = Db.vibrations
  BY DueIs, DbFields
<1>2. SetDb(db)
  OBVIOUS
<1> HIDE DEF db
<1>3. SchemaAt(Db.schema, p) /\ ConfAt(Db.conf, p) /\ RowsAt(Db.rows, files, p)
  BY DEF Due, Whole
<1>4. SchemaAt(Db.schema, p + 1) /\ ConfAt(Db.conf, p + 1) /\ RowsAt(Db.rows, files, p + 1)
  BY <1>3 DEF SchemaAt, ConfAt, RowsAt
<1>5. DefaultsAt(Db.conf, Db.rows, Found.version, p) => DefaultsAt(Db.conf, Db.rows, Found.version, p + 1)
  BY FoundIs, DefaultsStay, WidenedSame DEF Due
<1>6. p + 1 \in p .. 23
  OBVIOUS
<1>7. CASE Dies /\ SimsAt(sims, Db.vibrations, p)
  <2>1. Whole(db, files, p)
    BY <1>1, <1>3, <1>7 DEF Whole
  <2> QED
    BY <1>1, <1>2, <1>7, <2>1, Zenon DEF Reaches
<1>8. CASE Goes(p + 1) /\ SimsAt(sims, Db.vibrations, p + 1)
  <2>1. Whole(db, files, p + 1)
    BY <1>1, <1>4, <1>8 DEF Whole
  <2> QED
    BY <1>1, <1>2, <1>5, <1>6, <1>8, <2>1, Zenon DEF Reaches
<1> QED
  BY <1>7, <1>8

LEMMA VibrateReaches ==
    ASSUME NEW p \in 1 .. 23, Due(p), AddVibrateTable
    PROVE  \E db : Reaches(db, p)
<1>1. UsedDb(Db) /\ Sims(Db.sims) /\ Db.schema \subseteq Schemas
  BY DueIs
<1>2. TypeInv /\ Whole(Db, files, p) /\ Found.version \in 0 .. 13
  BY FoundIs DEF Due
<1>3. CASE At("scanAgain") /\ Next1(TRUE) /\ UNCHANGED dbs
  <2>1. p \in 1 .. 22 /\ StepNames[p] = "scanAgain"
    BY <1>3, DueIs
  <2>2. p = 5
    BY <2>1 DEF StepNames
  <2>3. Goes(p + 1)
    BY <1>3, Next1Goes
  <2>4. SetDb(Db)
    <3>1. dbs = [el1 |-> dbs.el1, el2 |-> dbs.el2] /\ work.open \in {"el1", "el2"}
      BY <1>2, OpenDb DEF DbsOK
    <3> QED
      BY <1>3, <3>1 DEF SetDb, Db
  <2>5. Whole(Db, files, p + 1)
    BY <1>2, <2>2 DEF Whole, SchemaAt, ConfAt, RowsAt, SimsAt
  <2>6. DefaultsAt(Db.conf, Db.rows, Found.version, p) => DefaultsAt(Db.conf, Db.rows, Found.version, p + 1)
    BY <1>2, <2>1, <2>2, DefaultsStay, WidenedSame
  <2>7. p + 1 \in p .. 23
    BY <2>2
  <2> QED
    BY <2>3, <2>4, <2>5, <2>6, <2>7, SameReaches
<1>4. CASE /\ At("vibrateTable")
           /\ \E done \in BOOLEAN :
                /\ SetDb(IF done THEN [Db EXCEPT !.schema = Db.schema \cup {"vibrate"},
                                                 !.sims = Merge(Db.sims, [key \in SimKeys |-> EmptySim])] ELSE Db)
                /\ Next1(done)
  <2> DEFINE S == Db.schema \cup {"vibrate"}
             sims == Merge(Db.sims, [key \in SimKeys |-> EmptySim])
  <2>1. PICK done \in BOOLEAN :
            SetDb(IF done THEN [Db EXCEPT !.schema = S, !.sims = sims] ELSE Db) /\ Next1(done)
    BY <1>4
  <2>2. p \in 1 .. 22 /\ StepNames[p] = "vibrateTable"
    BY <1>4, DueIs
  <2>3. p = 6
    BY <2>2 DEF StepNames
  <2>4. (done /\ Goes(p + 1)) \/ (~done /\ Dies)
    BY <1>4, <2>1, Next1Goes
  <2>5. CASE ~done
    <3>1. SetDb(Db) /\ Dies
      BY <2>1, <2>4, <2>5
    <3> QED
      BY <3>1, SameReaches
  <2>6. CASE done
    <3> DEFINE mid == [Db EXCEPT !.schema = S]
               db == [mid EXCEPT !.sims = sims]
    <3>1. SetDb(db)
      <4>1. [Db EXCEPT !.schema = S, !.sims = sims] = db
        OBVIOUS
      <4>2. SetDb([Db EXCEPT !.schema = S, !.sims = sims])
        BY <2>1, <2>6
      <4> QED
        BY <4>1, <4>2, Zenon
    <3>2. S \subseteq Schemas
      BY <1>1 DEF Schemas
    <3>3. Sims(sims)
      BY <1>1, NewSims
    <3>4. /\ UsedDb(mid) /\ mid.version = Db.version /\ mid.schema = S /\ mid.rows = Db.rows
          /\ mid.conf = Db.conf /\ mid.vibrations = Db.vibrations
      <4> HIDE DEF S
      <4> QED
        BY <1>1, <3>2, DbFields
    <3> HIDE DEF mid
    <3>5. Clean(Db.sims) => Clean(sims)
      BY CleanMerged
    <3> HIDE DEF sims
    <3>6. /\ UsedDb(db) /\ db.version = mid.version /\ db.schema = mid.schema /\ db.rows = mid.rows
          /\ db.conf = mid.conf /\ db.sims = sims /\ db.vibrations = mid.vibrations
      BY <3>3, <3>4, DbFields
    <3> HIDE DEF db
    <3>7. SchemaAt(S, p + 1) /\ SimsAt(sims, Db.vibrations, p + 1)
      BY <1>2, <2>3, <3>5 DEF Whole, SchemaAt, SimsAt
    <3>8. ConfAt(Db.conf, p + 1) /\ RowsAt(Db.rows, files, p + 1)
      BY <1>2, <2>3 DEF Whole, ConfAt, RowsAt
    <3>9. Whole(db, files, p + 1)
      BY <3>4, <3>6, <3>7, <3>8, Zenon DEF Whole
    <3>10. DefaultsAt(Db.conf, Db.rows, Found.version, p) => DefaultsAt(Db.conf, Db.rows, Found.version, p + 1)
      BY <1>2, <2>2, <2>3, DefaultsStay, WidenedSame
    <3>11. p + 1 \in p .. 23 /\ Goes(p + 1)
      BY <2>3, <2>4, <2>6
    <3>12. Reaches(db, p)
      BY <3>1, <3>4, <3>6, <3>9, <3>10, <3>11, Zenon DEF Reaches
    <3> QED
      BY <3>12
  <2> QED
    BY <2>5, <2>6
<1> QED
  BY <1>3, <1>4 DEF AddVibrateTable

LEMMA SimRowsReach ==
    ASSUME NEW p \in 1 .. 23, Due(p), AddSimRows
    PROVE  \E db : Reaches(db, p)
<1> DEFINE new == IF At("simRows") THEN SimKeys
                  ELSE {key \in SimKeys : key[1] \notin ESims
                                          /\ key[2] \in {"vibShot", "vibRing", "vibAlarm", "vibNotification"}}
           sims == Merge(Db.sims, [key \in new |-> EmptySim])
<1>1. UsedDb(Db) /\ Sims(Db.sims)
  BY DueIs
<1>2. PICK done \in BOOLEAN : SetDb(IF done THEN [Db EXCEPT !.sims = sims] ELSE Db) /\ Next1(done)
  BY Zenon DEF AddSimRows
<1>3. PICK s \in {"soundMode", "simRows"} : At(s)
  BY DEF AddSimRows
<1>4. p \in 1 .. 22 /\ StepNames[p] = s
  BY <1>3, DueIs
<1>5. p = 12 \/ (p = 21 /\ s = "simRows")
  BY <1>4 DEF StepNames
<1>6. (done /\ Goes(p + 1)) \/ (~done /\ Dies)
  BY <1>2, <1>3, Next1Goes
<1>7. CASE ~done
  <2>1. SetDb(Db) /\ Dies
    BY <1>2, <1>6, <1>7
  <2> QED
    BY <2>1, SameReaches
<1>8. CASE done
  <2>1. new \subseteq SimKeys /\ (p = 21 => new = SimKeys)
    BY <1>3, <1>5
  <2> HIDE DEF new
  <2>2. DOMAIN sims = DOMAIN Db.sims \cup new /\ (Clean(Db.sims) => Clean(sims))
    BY CleanMerged
  <2>3. Sims(sims)
    BY <1>1, <2>1, NewSims
  <2>4. SetDb([Db EXCEPT !.sims = sims]) /\ Goes(p + 1)
    BY <1>2, <1>6, <1>8
  <2> HIDE DEF sims
  <2>5. SimsAt(Db.sims, Db.vibrations, p)
    BY DEF Due, Whole
  <2>6. DOMAIN sims \subseteq SimKeys
    BY <2>3 DEF Sims
  <2>7. SimsAt(sims, Db.vibrations, p + 1)
    BY <1>5, <2>1, <2>2, <2>5, <2>6 DEF SimsAt
  <2> QED
    BY <1>4, <1>5, <2>3, <2>4, <2>7, SimsReach
<1> QED
  BY <1>7, <1>8

(* A change of the tones. *)
LEMMA RowsReach ==
    ASSUME NEW p \in 1 .. 22, Due(p), NEW R, Table(R), SetDb([Db EXCEPT !.rows = R]),
           p \in {2, 7, 9, 10, 15, 16, 17, 18}, Widened(Db.rows, R),
           \/ Dies /\ RowsAt(R, files, p)
           \/ /\ Goes(p + 1) /\ RowsAt(R, files, p + 1)
              /\ p >= 15 => (DefaultsAt(Db.conf, Db.rows, Found.version, p)
                             => DefaultsAt(Db.conf, R, Found.version, p + 1))
    PROVE  \E db : Reaches(db, p)
<1> DEFINE db == [Db EXCEPT !.rows = R]
<1>1. /\ UsedDb(db) /\ db.version = Db.version /\ db.schema = Db.schema /\ db.rows = R
      /\ db.conf = Db.conf /\ db.sims = Db.sims /\ db.vibrations = Db.vibrations
  BY DueIs, DbFields
<1>2. SetDb(db)
  OBVIOUS
<1> HIDE DEF db
<1>3. SchemaAt(Db.schema, p) /\ ConfAt(Db.conf, p) /\ SimsAt(Db.sims, Db.vibrations, p)
  BY DEF Due, Whole
<1>4. SchemaAt(Db.schema, p + 1) /\ ConfAt(Db.conf, p + 1) /\ SimsAt(Db.sims, Db.vibrations, p + 1)
  BY <1>3 DEF SchemaAt, ConfAt, SimsAt
<1>5. Chosen(Found.rows, Db.rows) => Chosen(Found.rows, db.rows)
  BY <1>1, WidenedIs, Zenon
<1>6. p + 1 \in p .. 23
  OBVIOUS
<1>7. CASE Dies /\ RowsAt(R, files, p)
  <2>1. Whole(db, files, p)
    BY <1>1, <1>3, <1>7 DEF Whole
  <2> QED
    BY <1>1, <1>2, <1>5, <1>7, <2>1, Zenon DEF Reaches
<1>8. CASE /\ Goes(p + 1) /\ RowsAt(R, files, p + 1)
           /\ p >= 15 => (DefaultsAt(Db.conf, Db.rows, Found.version, p)
                          => DefaultsAt(Db.conf, R, Found.version, p + 1))
  <2>1. Whole(db, files, p + 1)
    BY <1>1, <1>4, <1>8 DEF Whole
  <2>2. DefaultsAt(Db.conf, Db.rows, Found.version, p) => DefaultsAt(Db.conf, R, Found.version, p + 1)
    <3>1. CASE p >= 15
      BY <1>8, <3>1
    <3>2. CASE ~(p >= 15)
      <4>1. p \notin {3, 4, 14, 15, 16, 17, 18}
        BY <3>2
      <4>2. Found.version \in 0 .. 13
        BY FoundIs DEF Due
      <4> DEFINE v == Found.version
      <4> HIDE DEF v
      <4>3. v \in 0 .. 13
        BY <4>2 DEF v
      <4>4. ASSUME DefaultsAt(Db.conf, Db.rows, v, p) PROVE DefaultsAt(Db.conf, R, v, p + 1)
        BY <4>1, <4>3, <4>4, DefaultsStay
      <4> QED
        BY <4>4 DEF v
    <3> QED
      BY <3>1, <3>2
  <2> QED
    BY <1>1, <1>2, <1>5, <1>6, <1>8, <2>1, <2>2, Zenon DEF Reaches
<1> QED
  BY <1>7, <1>8

(* Rows that get a type or a path, and keep their cards. *)
Better(R, done, S, new) ==
    /\ new = [t \in DOMAIN R |-> IF t \in done THEN S[t] ELSE R[t]]
    /\ \A t \in DOMAIN R :
        /\ S[t].on = R[t].on /\ S[t].by = R[t].by /\ S[t].source = R[t].source
        /\ (R[t].mime => S[t].mime) /\ (R[t].media => S[t].media)
        /\ S[t].place = "misplaced" => R[t].place = "misplaced"

LEMMA RowsBetter ==
    ASSUME NEW R, NEW F, NEW p \in 1 .. 23, RowsAt(R, F, p), NEW done, NEW S, NEW new, Better(R, done, S, new)
    PROVE  /\ Widened(R, new) /\ RowsAt(new, F, p)
           /\ \A t \in DOMAIN R : new[t] = IF t \in done THEN S[t] ELSE R[t]
<1>0. new = [t \in DOMAIN R |-> IF t \in done THEN S[t] ELSE R[t]]
  BY Zenon DEF Better
<1>1. DOMAIN new = DOMAIN R /\ \A t \in DOMAIN R : new[t] = IF t \in done THEN S[t] ELSE R[t]
  BY <1>0
<1>2. Widened(R, new)
  BY <1>1, Zenon DEF Better, Widened
<1>3. \A t \in DOMAIN R :
        /\ (R[t].mime => new[t].mime) /\ (R[t].media => new[t].media)
        /\ new[t].place = "misplaced" => R[t].place = "misplaced" /\ new[t].source = R[t].source
  BY <1>1, Zenon DEF Better
<1>4. RowsAt(new, F, p)
  BY <1>1, <1>3, Zenon DEF RowsAt
<1> QED
  BY <1>1, <1>2, <1>4

LEMMA MediaReach ==
    ASSUME NEW p \in 1 .. 23, Due(p), UpdateMimeType \/ UpdateMediaType
    PROVE  \E db : Reaches(db, p)
<1>1. Table(Db.rows) /\ RowsAt(Db.rows, files, p)
  BY DueIs DEF Due, Whole
<1>2. \A t \in DOMAIN Db.rows : GoodRow(Db.rows[t])
  BY <1>1 DEF Table
<1>3. CASE UpdateMimeType
  <2> DEFINE due == {t \in DOMAIN Db.rows : ~Db.rows[t].mime}
  <2>1. At("mimeType") /\ ChangeRows(due, LAMBDA row : [row EXCEPT !.mime = TRUE, !.media = TRUE])
    BY <1>3, Zenon DEF UpdateMimeType
  <2>2. PICK done \in SUBSET due :
            /\ SetDb([Db EXCEPT !.rows = Change(Db.rows, done, LAMBDA row : [row EXCEPT !.mime = TRUE, !.media = TRUE])])
            /\ Next1(done = due)
    BY <2>1 DEF ChangeRows
  <2> DEFINE R == Change(Db.rows, done, LAMBDA row : [row EXCEPT !.mime = TRUE, !.media = TRUE])
             S == [t \in DOMAIN Db.rows |-> [Db.rows[t] EXCEPT !.mime = TRUE, !.media = TRUE]]
  <2>3. R = [t \in DOMAIN Db.rows |-> IF t \in done THEN S[t] ELSE Db.rows[t]]
    BY DEF Change
  <2>4. \A r : GoodRow(r) =>
            LET n == [r EXCEPT !.mime = TRUE, !.media = TRUE]
            IN  /\ GoodRow(n) /\ n.mime /\ n.media /\ n.place = r.place /\ n.source = r.source
                /\ n.on = r.on /\ n.by = r.by
    <3>1. \A r : GoodRow(r) => GoodRow([r EXCEPT !.mime = TRUE, !.media = TRUE])
      BY MediaKnown
    <3>2. \A r \in Tone : LET n == [r EXCEPT !.mime = TRUE, !.media = TRUE]
                          IN  /\ n.mime /\ n.media /\ n.place = r.place /\ n.source = r.source
                              /\ n.on = r.on /\ n.by = r.by
      BY DEF Tone
    <3> QED
      BY <3>1, <3>2, Zenon DEF GoodRow
  <2>5. \A t \in DOMAIN Db.rows :
            /\ GoodRow(S[t]) /\ S[t].mime /\ S[t].media /\ S[t].place = Db.rows[t].place
            /\ S[t].source = Db.rows[t].source /\ S[t].on = Db.rows[t].on /\ S[t].by = Db.rows[t].by
    BY <1>2, <2>4
  <2>6. SetDb([Db EXCEPT !.rows = R])
    BY <2>2
  <2>7. p \in 1 .. 22 /\ StepNames[p] = "mimeType"
    BY <2>1, DueIs
  <2>8. p \in {2, 7}
    BY <2>7 DEF StepNames
  <2> HIDE DEF S, R
  <2>9. Table(R)
    BY <1>1, <2>3, <2>5 DEF Table
  <2> DEFINE Q == Db.rows
  <2>a. RowsAt(Q, files, p) /\ R = [t \in DOMAIN Q |-> IF t \in done THEN S[t] ELSE Q[t]]
    BY <1>1, <2>3
  <2>b. \A t \in DOMAIN Q :
            /\ S[t].on = Q[t].on /\ S[t].by = Q[t].by /\ S[t].source = Q[t].source
            /\ (Q[t].mime => S[t].mime) /\ (Q[t].media => S[t].media)
            /\ S[t].place = "misplaced" => Q[t].place = "misplaced"
    BY <2>5, Zenon
  <2>c. \A t \in DOMAIN Q : ~Q[t].mime => t \in due
    OBVIOUS
  <2>d. \A t \in DOMAIN Q : S[t].mime
    BY <2>5, Zenon
  <2> HIDE DEF Q, due
  <2>10. /\ Widened(Q, R) /\ RowsAt(R, files, p)
         /\ \A t \in DOMAIN Q : R[t] = IF t \in done THEN S[t] ELSE Q[t]
    <3>1. Better(Q, done, S, R)
      BY <2>a, <2>b, Zenon DEF Better
    <3> QED
      BY <2>a, <3>1, RowsBetter
  <2>11. DOMAIN R = DOMAIN Q
    BY <2>10 DEF Widened
  <2>12. ASSUME done = due PROVE RowsAt(R, files, p + 1)
    <3>1. \A t \in DOMAIN R : R[t].mime
      BY <2>c, <2>d, <2>10, <2>11, <2>12, Zenon
    <3> QED
      <4>1. ~(p + 1 > 9) /\ ~(p + 1 > 10)
        BY <2>8
      <4>2. \A t \in DOMAIN R : R[t].place = "misplaced" => R[t].source = "customised"
        BY <2>10, Zenon DEF RowsAt
      <4> QED
        BY <3>1, <4>1, <4>2, Zenon DEF RowsAt
  <2>13. (done = due /\ Goes(p + 1)) \/ Dies
    BY <2>1, <2>2, Next1Goes
  <2> QED
    <3>1. Table(R) /\ p \in {2, 7, 9, 10, 15, 16, 17, 18} /\ ~(p >= 15) /\ Widened(Db.rows, R)
      BY <2>8, <2>9, <2>10 DEF Q
    <3>2. (Dies /\ RowsAt(R, files, p)) \/ (Goes(p + 1) /\ RowsAt(R, files, p + 1))
      BY <2>10, <2>12, <2>13
    <3> QED
      BY <2>6, <2>7, <3>1, <3>2, RowsReach
<1>4. CASE UpdateMediaType
  <2> DEFINE due == {t \in DOMAIN Db.rows : ~Db.rows[t].media}
  <2>1. At("mediaType") /\ ChangeRows(due, LAMBDA row : [row EXCEPT !.media = TRUE])
    BY <1>4, Zenon DEF UpdateMediaType
  <2>2. PICK done \in SUBSET due :
            /\ SetDb([Db EXCEPT !.rows = Change(Db.rows, done, LAMBDA row : [row EXCEPT !.media = TRUE])])
            /\ Next1(done = due)
    BY <2>1 DEF ChangeRows
  <2> DEFINE R == Change(Db.rows, done, LAMBDA row : [row EXCEPT !.media = TRUE])
             S == [t \in DOMAIN Db.rows |-> [Db.rows[t] EXCEPT !.media = TRUE]]
  <2>3. R = [t \in DOMAIN Db.rows |-> IF t \in done THEN S[t] ELSE Db.rows[t]]
    BY DEF Change
  <2>4. \A r : GoodRow(r) =>
            LET n == [r EXCEPT !.media = TRUE]
            IN  /\ GoodRow(n) /\ n.mime = r.mime /\ n.media /\ n.place = r.place /\ n.source = r.source
                /\ n.on = r.on /\ n.by = r.by
    <3>1. \A r : GoodRow(r) => GoodRow([r EXCEPT !.media = TRUE])
      BY MediaKnown
    <3>2. \A r \in Tone : LET n == [r EXCEPT !.media = TRUE]
                          IN  /\ n.mime = r.mime /\ n.media /\ n.place = r.place /\ n.source = r.source
                              /\ n.on = r.on /\ n.by = r.by
      BY DEF Tone
    <3> QED
      BY <3>1, <3>2, Zenon DEF GoodRow
  <2>5. \A t \in DOMAIN Db.rows :
            /\ GoodRow(S[t]) /\ S[t].mime = Db.rows[t].mime /\ S[t].media /\ S[t].place = Db.rows[t].place
            /\ S[t].source = Db.rows[t].source /\ S[t].on = Db.rows[t].on /\ S[t].by = Db.rows[t].by
    BY <1>2, <2>4
  <2>6. SetDb([Db EXCEPT !.rows = R])
    BY <2>2
  <2>7. p \in 1 .. 22 /\ StepNames[p] = "mediaType"
    BY <2>1, DueIs
  <2>8. p = 9
    BY <2>7 DEF StepNames
  <2> HIDE DEF S, R
  <2>9. Table(R)
    BY <1>1, <2>3, <2>5 DEF Table
  <2> DEFINE Q == Db.rows
  <2>a. RowsAt(Q, files, p) /\ R = [t \in DOMAIN Q |-> IF t \in done THEN S[t] ELSE Q[t]]
    BY <1>1, <2>3
  <2>b. \A t \in DOMAIN Q :
            /\ S[t].on = Q[t].on /\ S[t].by = Q[t].by /\ S[t].source = Q[t].source
            /\ (Q[t].mime => S[t].mime) /\ (Q[t].media => S[t].media)
            /\ S[t].place = "misplaced" => Q[t].place = "misplaced"
    BY <2>5, Zenon
  <2>c. \A t \in DOMAIN Q : ~Q[t].media => t \in due
    OBVIOUS
  <2>d. \A t \in DOMAIN Q : S[t].media
    BY <2>5, Zenon
  <2> HIDE DEF Q, due
  <2>10. /\ Widened(Q, R) /\ RowsAt(R, files, p)
         /\ \A t \in DOMAIN Q : R[t] = IF t \in done THEN S[t] ELSE Q[t]
    <3>1. Better(Q, done, S, R)
      BY <2>a, <2>b, Zenon DEF Better
    <3> QED
      BY <2>a, <3>1, RowsBetter
  <2>11. DOMAIN R = DOMAIN Q
    BY <2>10 DEF Widened
  <2>12. ASSUME done = due PROVE RowsAt(R, files, p + 1)
    <3>1. \A t \in DOMAIN R : R[t].media
      BY <2>c, <2>d, <2>10, <2>11, <2>12, Zenon
    <3> QED
      BY <2>8, <2>10, <3>1 DEF RowsAt
  <2>13. (done = due /\ Goes(p + 1)) \/ Dies
    BY <2>1, <2>2, Next1Goes
  <2> QED
    <3>1. Table(R) /\ p \in {2, 7, 9, 10, 15, 16, 17, 18} /\ ~(p >= 15) /\ Widened(Db.rows, R)
      BY <2>8, <2>9, <2>10 DEF Q
    <3>2. (Dies /\ RowsAt(R, files, p)) \/ (Goes(p + 1) /\ RowsAt(R, files, p + 1))
      BY <2>10, <2>12, <2>13
    <3> QED
      BY <2>6, <2>7, <3>1, <3>2, RowsReach
<1> QED
  BY <1>3, <1>4

LEMMA DataUriReaches ==
    ASSUME NEW p \in 1 .. 23, Due(p), UpdateDataUri
    PROVE  \E db : Reaches(db, p)
<1>1. Table(Db.rows) /\ RowsAt(Db.rows, files, p)
  BY DueIs DEF Due, Whole
<1>2. \A t \in DOMAIN Db.rows : GoodRow(Db.rows[t])
  BY <1>1 DEF Table
<1> DEFINE due == {t \in DOMAIN Db.rows : Db.rows[t].place = "misplaced" /\ <<t, "new">> \in files}
<1>3. At("dataUri") /\ ChangeRows(due, LAMBDA row : [row EXCEPT !.place = "new"])
  BY Zenon DEF UpdateDataUri
<1>4. PICK done \in SUBSET due :
        /\ SetDb([Db EXCEPT !.rows = Change(Db.rows, done, LAMBDA row : [row EXCEPT !.place = "new"])])
        /\ Next1(done = due)
  BY <1>3 DEF ChangeRows
<1> DEFINE R == Change(Db.rows, done, LAMBDA row : [row EXCEPT !.place = "new"])
           S == [t \in DOMAIN Db.rows |-> [Db.rows[t] EXCEPT !.place = "new"]]
<1>5. R = [t \in DOMAIN Db.rows |-> IF t \in done THEN S[t] ELSE Db.rows[t]]
  BY DEF Change
<1>6. \A r : GoodRow(r) =>
        LET n == [r EXCEPT !.place = "new"]
        IN  /\ GoodRow(n) /\ n.mime = r.mime /\ n.media = r.media /\ n.place = "new"
            /\ n.on = r.on /\ n.by = r.by /\ n.source = r.source
  <2>1. \A r \in Tone : LET n == [r EXCEPT !.place = "new"]
                        IN  /\ n \in Tone /\ n.mime = r.mime /\ n.media = r.media /\ n.place = "new"
                            /\ n.on = r.on /\ n.by = r.by /\ n.source = r.source
    BY DEF Tone, Places
  <2> QED
    BY <2>1, Zenon DEF GoodRow
<1>7. \A t \in DOMAIN Db.rows :
        /\ GoodRow(S[t]) /\ S[t].mime = Db.rows[t].mime /\ S[t].media = Db.rows[t].media /\ S[t].place = "new"
        /\ S[t].on = Db.rows[t].on /\ S[t].by = Db.rows[t].by /\ S[t].source = Db.rows[t].source
  BY <1>2, <1>6
<1>8. SetDb([Db EXCEPT !.rows = R])
  BY <1>4
<1>9. p \in 1 .. 22 /\ StepNames[p] = "dataUri"
  BY <1>3, DueIs
<1>10. p = 10
  BY <1>9 DEF StepNames
<1> HIDE DEF S, R
<1>11. Table(R)
  BY <1>1, <1>5, <1>7 DEF Table
<1>b. /\ Widened(Db.rows, R) /\ RowsAt(R, files, p)
      /\ \A t \in DOMAIN Db.rows : R[t] = IF t \in done THEN S[t] ELSE Db.rows[t]
  <2> DEFINE Q == Db.rows
  <2>1. RowsAt(Q, files, p) /\ R = [t \in DOMAIN Q |-> IF t \in done THEN S[t] ELSE Q[t]]
    BY <1>1, <1>5
  <2>2. \A t \in DOMAIN Q :
            /\ S[t].on = Q[t].on /\ S[t].by = Q[t].by /\ S[t].source = Q[t].source
            /\ (Q[t].mime => S[t].mime) /\ (Q[t].media => S[t].media)
            /\ S[t].place = "misplaced" => Q[t].place = "misplaced"
    <3>1. "new" # "misplaced"
      OBVIOUS
    <3> QED
      BY <1>7, <3>1, Zenon
  <2> HIDE DEF Q
  <2>3. /\ Widened(Q, R) /\ RowsAt(R, files, p)
        /\ \A t \in DOMAIN Q : R[t] = IF t \in done THEN S[t] ELSE Q[t]
    <3>1. Better(Q, done, S, R)
      BY <2>1, <2>2, Zenon DEF Better
    <3> QED
      BY <2>1, <3>1, RowsBetter
  <2> QED
    BY <2>3 DEF Q
<1>12. Widened(Db.rows, R)
  BY <1>b
<1>13. ASSUME done = due PROVE RowsAt(R, files, p + 1)
  <2> DEFINE Q == Db.rows
  <2>1. \A t \in DOMAIN Q : Q[t].place = "misplaced" /\ <<t, "new">> \in files => t \in done
    BY <1>13
  <2> HIDE DEF Q, due
  <2>2. DOMAIN R = DOMAIN Q /\ \A t \in DOMAIN Q : R[t] = IF t \in done THEN S[t] ELSE Q[t]
    BY <1>b DEF Q, Widened
  <2>3. \A t \in DOMAIN R : R[t].place = "misplaced" => <<t, "new">> \notin files
    <3>1. \A t \in DOMAIN Q : S[t].place = "new"
      BY <1>7 DEF Q
    <3>2. "new" # "misplaced"
      OBVIOUS
    <3> QED
      BY <2>1, <2>2, <3>1, <3>2, Zenon
  <2> QED
    <3>1. p > 7 /\ p > 9
      BY <1>10
    <3>2. \A t \in DOMAIN R : R[t].mime /\ R[t].media /\ (R[t].place = "misplaced" => R[t].source = "customised")
      BY <1>b, <3>1, Zenon DEF RowsAt
    <3> QED
      BY <2>3, <3>2, Zenon DEF RowsAt
<1>15. (done = due /\ Goes(p + 1)) \/ Dies
  BY <1>3, <1>4, Next1Goes
<1> QED
  <2>1. Table(R) /\ p \in {2, 7, 9, 10, 15, 16, 17, 18} /\ ~(p >= 15) /\ Widened(Db.rows, R)
    BY <1>10, <1>11, <1>12
  <2>2. (Dies /\ RowsAt(R, files, p)) \/ (Goes(p + 1) /\ RowsAt(R, files, p + 1))
    BY <1>b, <1>13, <1>15
  <2> QED
    BY <1>8, <1>9, <2>1, <2>2, RowsReach

(* The ids of the default tones. *)
LEMMA SystemToneReaches ==
    ASSUME NEW p \in 1 .. 23, Due(p), UpdateDefaultSystemTone
    PROVE  \E db : Reaches(db, p)
<1>1. At("systemTone")
  BY DEF UpdateDefaultSystemTone
<1>2. PICK done \in SUBSET DOMAIN Db.conf :
        /\ SetDb([Db EXCEPT !.conf = [type \in DOMAIN Db.conf |->
                    IF type \in done THEN SystemTones(Db).conf[type] ELSE Db.conf[type]]])
        /\ Next1(done = DOMAIN Db.conf)
  BY Zenon DEF UpdateDefaultSystemTone
<1> DEFINE old == Db.conf
           R == Db.rows
           set(x) == IF x \in DOMAIN Defaults /\ Defaults[x] \in DOMAIN R THEN Defaults[x] ELSE old[x]
           conf == [x \in DOMAIN old |-> IF x \in done THEN set(x) ELSE old[x]]
           db == [Db EXCEPT !.conf = conf]
<1>3. Table(R) /\ Confs(old)
  BY DueIs
<1>4. \A x \in DOMAIN old : SystemTones(Db).conf[x] = set(x)
  <2>1. UsedDb(Db)
    BY DueIs
  <2>2. Db = [version |-> Db.version, schema |-> Db.schema, rows |-> Db.rows, conf |-> Db.conf,
              sims |-> Db.sims, vibrations |-> Db.vibrations]
    BY <2>1, DbParts
  <2>3. \A new : [Db EXCEPT !.conf = new].conf = new
    BY <2>2
  <2>4. SystemTones(Db).conf = [x \in DOMAIN old |-> set(x)]
    BY <2>3, Zenon DEF SystemTones
  <2> QED
    BY <2>4
<1>5. SetDb(db)
  <2>1. [type \in DOMAIN Db.conf |-> IF type \in done THEN SystemTones(Db).conf[type] ELSE Db.conf[type]] = conf
    BY <1>4, Zenon
  <2> HIDE DEF conf
  <2> QED
    BY <1>2, <2>1, Zenon
<1>6. Confs(conf) /\ DOMAIN conf = DOMAIN old
  <2>1. \A x \in DOMAIN old : conf[x] \in Paths \cup {"null", "missing"}
    BY <1>3 DEF Confs, Table
  <2> QED
    BY <1>3, <2>1 DEF Confs
<1>7. ASSUME NEW x \in DOMAIN Defaults \cap Types, x \in DOMAIN old, Defaults[x] \in DOMAIN R,
             x \in done \/ old[x] = Defaults[x]
      PROVE  x \in DOMAIN conf /\ conf[x] = Defaults[x]
  BY <1>7
<1> HIDE DEF conf, set
<1>8. /\ UsedDb(db) /\ db.version = Db.version /\ db.schema = Db.schema /\ db.rows = Db.rows
      /\ db.conf = conf /\ db.sims = Db.sims /\ db.vibrations = Db.vibrations
  BY <1>6, DueIs, DbFields
<1> HIDE DEF db
<1>9. p \in 1 .. 22 /\ p \in {4, 14}
  <2>1. p \in 1 .. 22 /\ StepNames[p] = "systemTone"
    BY <1>1, DueIs
  <2> QED
    BY <2>1 DEF StepNames
<1>10. Whole(Db, files, p)
  BY DEF Due
<1>11. Whole(db, files, p) /\ Whole(db, files, p + 1)
  <2>1. /\ SchemaAt(Db.schema, p) /\ ConfAt(old, p) /\ RowsAt(Db.rows, files, p)
        /\ SimsAt(Db.sims, Db.vibrations, p)
    BY <1>10 DEF Whole
  <2>2. /\ SchemaAt(Db.schema, p + 1) /\ RowsAt(Db.rows, files, p + 1) /\ SimsAt(Db.sims, Db.vibrations, p + 1)
    BY <1>9, <2>1 DEF SchemaAt, RowsAt, SimsAt
  <2>3. ConfAt(conf, p) /\ ConfAt(conf, p + 1)
    <3> DEFINE D == DOMAIN old
    <3>1. DOMAIN conf = D
      BY <1>6
    <3>2. D = Types \/ Cardinality(D) <= RINGTONE_PRELOAD_CONF_COUNT
      BY <2>1, Zenon DEF ConfAt
    <3>3. p > 13 => D = Types
      BY <2>1, Zenon DEF ConfAt
    <3>4. p + 1 > 13 => D = Types
      BY <1>9, <3>3
    <3> QED
      BY <3>1, <3>2, <3>3, <3>4, Zenon DEF ConfAt
  <2> QED
    BY <1>8, <2>1, <2>2, <2>3, Zenon DEF Whole
<1>12. (done = DOMAIN old /\ Goes(p + 1)) \/ Dies
  BY <1>1, <1>2, Next1Goes
<1>13. CASE Dies
  BY <1>5, <1>8, <1>11, <1>13, Zenon DEF Reaches
<1>14. CASE done = DOMAIN old /\ Goes(p + 1)
  <2> DEFINE v == Found.version
  <2>1. v \in 0 .. 13
    BY FoundIs DEF Due
  <2> HIDE DEF v
  <2>2. ASSUME DefaultsAt(old, R, v, p)
        PROVE  DefaultsAt(conf, R, v, p + 1)
    <3>1. v < 4 \/ p = 14 => DOMAIN old = Types
      <4>1. ConfAt(old, p)
        BY <1>10 DEF Whole
      <4> QED
        BY <1>9, <2>2, <4>1 DEF DefaultsAt, ConfAt
    <3>2. DOMAIN old = Types => ConfSet(conf, R)
      BY <1>7, <1>14, Zenon DEF ConfSet
    <3>3. ConfSet(old, R) => ConfSet(conf, R)
      BY <1>7, Zenon DEF ConfSet
    <3>4. v \in {0, 13} \/ p + 1 > 14 \/ (v < 4 /\ p + 1 > 4) => ConfSet(conf, R)
      BY <1>9, <2>1, <2>2, <3>1, <3>2, <3>3 DEF DefaultsAt
    <3>5. ASSUME v \in 4 .. 12
          PROVE  /\ p + 1 > 4
                 /\ p + 1 <= 13 => Cardinality(DOMAIN conf) <= RINGTONE_PRELOAD_CONF_COUNT
                 /\ NoESimChosen(R)
                 /\ \A i \in 1 .. 4 : p + 1 > 14 + i => ESimSet(R, ESimDefaultParams[i])
      <4>1. NoESimChosen(R) /\ p = 14
        BY <1>9, <2>2, <3>5 DEF DefaultsAt
      <4>2. \A i \in 1 .. 4 : ~(p + 1 > 14 + i)
        BY <4>1
      <4> QED
        BY <4>1, <4>2
    <3>6. v < 4 /\ p + 1 > 3 => DOMAIN conf = Types
      BY <1>6, <3>1
    <3> QED
      BY <3>4, <3>5, <3>6, Zenon DEF DefaultsAt
  <2>3. DefaultsAt(Db.conf, Db.rows, Found.version, p) => DefaultsAt(db.conf, db.rows, Found.version, p + 1)
    BY <1>8, <2>2 DEF v
  <2>4. p + 1 \in p .. 23
    BY <1>9
  <2>5. Chosen(Found.rows, Db.rows) => Chosen(Found.rows, db.rows)
    BY <1>8
  <2> QED
    BY <1>5, <1>8, <1>11, <1>14, <2>3, <2>4, <2>5, Zenon DEF Reaches
<1> QED
  BY <1>12, <1>13, <1>14

LEMMA InheritReaches ==
    ASSUME NEW p \in 1 .. 23, Due(p), UpdateSimCardSettingESIMValue
    PROVE  \E db : Reaches(db, p)
<1> DEFINE heirs == Heirs(Db.sims)
           all(done) == \A x \in heirs : Db.sims[x[1]] # Db.sims[x[2]] => x \in done
<1>1. At("inherit")
  BY DEF UpdateSimCardSettingESIMValue
<1>2. PICK done \in SUBSET {x \in heirs : Db.sims[x[1]] # Db.sims[x[2]]} :
        /\ SetDb([Db EXCEPT !.sims = [key \in DOMAIN Db.sims |->
                        IF \E x \in done : x[1] = key
                        THEN Db.sims[(CHOOSE x \in done : x[1] = key)[2]] ELSE Db.sims[key]]])
        /\ Next1(all(done))
  BY Zenon DEF UpdateSimCardSettingESIMValue
<1> DEFINE old == Db.sims
           sims == [key \in DOMAIN old |-> IF \E x \in done : x[1] = key
                                           THEN old[(CHOOSE x \in done : x[1] = key)[2]] ELSE old[key]]
<1>3. p = 19
  <2>1. p \in 1 .. 22 /\ StepNames[p] = "inherit"
    BY <1>1, DueIs
  <2> QED
    BY <2>1 DEF StepNames
<1>4. Sims(old) /\ SimsAt(old, Db.vibrations, p)
  BY DueIs DEF Due, Whole
<1>5. SetDb([Db EXCEPT !.sims = sims])
  BY <1>2, Zenon
<1>6. \A key \in DOMAIN old : \E u \in DOMAIN old : sims[key] = old[u]
  <2>1. \A x \in done : x[2] \in DOMAIN old
    BY DEF Heirs
  <2>2. ASSUME NEW key \in DOMAIN old PROVE \E u \in DOMAIN old : sims[key] = old[u]
    <3>1. CASE \E x \in done : x[1] = key
      <4> DEFINE heir == CHOOSE x \in done : x[1] = key
      <4>1. heir \in done
        BY <3>1
      <4>2. sims[key] = old[heir[2]]
        BY <3>1
      <4> HIDE DEF heir, sims, old
      <4> QED
        BY <2>1, <4>1, <4>2, Zenon
    <3>2. CASE ~\E x \in done : x[1] = key
      BY <3>2
    <3> QED
      BY <3>1, <3>2
  <2> QED
    BY <2>2
<1>7. DOMAIN sims = DOMAIN old
  OBVIOUS
<1>8. (all(done) /\ Goes(p + 1)) \/ Dies
  <2> DEFINE d == all(done)
  <2>1. Next1(d)
    BY <1>2
  <2> HIDE DEF d
  <2> QED
    BY <1>1, <2>1, Next1Goes DEF d
<1> HIDE DEF sims
<1>9. Sims(sims)
  BY <1>4, <1>6, <1>7 DEF Sims
<1>10. SimsAt(sims, Db.vibrations, p) /\ SimsAt(sims, Db.vibrations, p + 1)
  <2>1. Clean(old) => Clean(sims)
    BY <1>6, <1>7, Zenon DEF Clean
  <2>2. ~(p > 20) /\ ~(p > 21) /\ ~(p + 1 > 20) /\ ~(p + 1 > 21)
    BY <1>3
  <2> QED
    BY <1>4, <2>1, <2>2, Zenon DEF SimsAt
<1> HIDE DEF all
<1> QED
  BY <1>3, <1>5, <1>8, <1>9, <1>10, SimsReach

LEMMA SanitizeReaches ==
    ASSUME NEW p \in 1 .. 23, Due(p), SanitizeSoundModeVibrateRecords
    PROVE  \E db : Reaches(db, p)
<1> DEFINE due == IF Db.vibrations = <<>> THEN {} ELSE {key \in DOMAIN Db.sims : IsDirty(Db.sims[key])}
<1>1. At("sanitize")
  BY DEF SanitizeSoundModeVibrateRecords
<1>2. PICK done \in SUBSET due, found \in SUBSET due :
        /\ SetDb([Db EXCEPT !.sims = [key \in DOMAIN Db.sims |->
                    IF key \in done THEN Sanitized(Db.sims[key], key \in found) ELSE Db.sims[key]]])
        /\ Next1(done = due)
  BY Zenon DEF SanitizeSoundModeVibrateRecords
<1> DEFINE old == Db.sims
           fixed(key) == Sanitized(old[key], key \in found)
           sims == [key \in DOMAIN old |-> IF key \in done THEN fixed(key) ELSE old[key]]
<1>3. p = 20
  <2>1. p \in 1 .. 22 /\ StepNames[p] = "sanitize"
    BY <1>1, DueIs
  <2> QED
    BY <2>1 DEF StepNames
<1>4. Sims(old) /\ SimsAt(old, Db.vibrations, p)
  BY DueIs DEF Due, Whole
<1>5. SetDb([Db EXCEPT !.sims = sims])
  BY <1>2
<1>6. \A key \in DOMAIN old : fixed(key) \in SimRow /\ ~IsDirty(fixed(key))
  <2> DEFINE std(row) == [row EXCEPT !.vibrate = "std"]
             none(row) == [row EXCEPT !.ring = "none"]
  <2>1. \A row \in SimRow :
            /\ std(row) \in SimRow /\ ~IsDirty(std(row))
            /\ none(row) \in SimRow /\ ~IsDirty(none(row))
    BY DEF SimRow, IsDirty
  <2>2. \A key \in DOMAIN old : fixed(key) \in {std(old[key]), none(old[key])}
    <3> SUFFICES ASSUME NEW key \in DOMAIN old
                 PROVE  fixed(key) \in {std(old[key]), none(old[key])}
      OBVIOUS
    <3>1. CASE key \in found
      BY <3>1, Zenon DEF Sanitized
    <3>2. CASE key \notin found
      BY <3>2, Zenon DEF Sanitized
    <3> QED
      BY <3>1, <3>2, Zenon
  <2>3. \A key \in DOMAIN old : old[key] \in SimRow
    BY <1>4, Zenon DEF Sims
  <2> HIDE DEF fixed, old, std, none
  <2> QED
    BY <2>1, <2>2, <2>3
<1>7. /\ DOMAIN sims = DOMAIN old
      /\ \A key \in DOMAIN old : sims[key] = IF key \in done THEN fixed(key) ELSE old[key]
  OBVIOUS
<1>8. (done = due /\ Goes(p + 1)) \/ Dies
  <2> DEFINE d == done = due
  <2>1. Next1(d)
    BY <1>2
  <2> HIDE DEF d
  <2> QED
    BY <1>1, <2>1, Next1Goes DEF d
<1> HIDE DEF sims, fixed
<1>9. Sims(sims)
  BY <1>4, <1>6, <1>7 DEF Sims
<1>10. SimsAt(sims, Db.vibrations, p) /\ (done = due => SimsAt(sims, Db.vibrations, p + 1))
  <2>1. Clean(old) => Clean(sims)
    BY <1>6, <1>7, Zenon DEF Clean
  <2>2. ~(p > 20) /\ ~(p > 21) /\ ~(p + 1 > 21)
    BY <1>3
  <2>3. Db.vibrations = <<>> => Clean(old)
    BY <1>4, Zenon DEF SimsAt
  <2>4. ASSUME done = due PROVE Clean(sims)
    <3>1. CASE Db.vibrations = <<>>
      BY <2>1, <2>3, <3>1
    <3>2. CASE Db.vibrations # <<>>
      <4>1. \A key \in DOMAIN old : IsDirty(old[key]) => key \in done
        BY <2>4, <3>2, Zenon
      <4> QED
        BY <1>6, <1>7, <4>1, Zenon DEF Clean
    <3> QED
      BY <3>1, <3>2
  <2> QED
    BY <1>4, <2>1, <2>2, <2>3, <2>4, Zenon DEF SimsAt
<1> HIDE DEF due
<1>11. (Dies /\ SimsAt(sims, Db.vibrations, p)) \/ (Goes(p + 1) /\ SimsAt(sims, Db.vibrations, p + 1))
  BY <1>8, <1>10, Zenon
<1> QED
  BY <1>3, <1>5, <1>9, <1>11, SimsReach

LEMMA ESimTimeReaches ==
    ASSUME NEW p \in 1 .. 23, Due(p), SetUpgradeEsimTime
    PROVE  \E db : Reaches(db, p)
<1>1. At("eSimTime")
  BY DEF SetUpgradeEsimTime
<1>2. p = 22 /\ Tail(work.todo) = SubSeq(UpgradeExtension, p + 1, 22)
  <2>1. p \in 1 .. 22 /\ StepNames[p] = "eSimTime" /\ Tail(work.todo) = SubSeq(UpgradeExtension, p + 1, 22)
    BY <1>1, DueIs
  <2> QED
    BY <2>1 DEF StepNames
<1>3. Goes(p + 1)
  <2> DEFINE rest == Tail(work.todo)
  <2>1. work' = [work EXCEPT !.todo = rest] /\ rest = SubSeq(UpgradeExtension, p + 1, 22)
    BY <1>2 DEF SetUpgradeEsimTime
  <2> HIDE DEF rest
  <2>2. work' = [work EXCEPT !.todo = SubSeq(UpgradeExtension, p + 1, 22)]
    BY <2>1, Zenon
  <2>3. /\ phase' = "upgrade" /\ UNCHANGED <<scan, clients, crashes>>
        /\ \E L, E, W : history' = [history EXCEPT !.legacy = L, !.ever = E, !.was = W]
    BY DEF SetUpgradeEsimTime
  <2>4. HistoryOK(history)
    BY DEF Due, TypeInv, Memory
  <2>5. history'.chosen = history.chosen /\ history'.runs = history.runs
    BY <2>3, <2>4 DEF HistoryOK
  <2> QED
    BY <2>2, <2>3, <2>5, Zenon DEF Goes
<1>4. SetDb(Db)
  <2>1. dbs = [el1 |-> dbs.el1, el2 |-> dbs.el2] /\ work.open \in {"el1", "el2"}
    BY OpenDb DEF Due, DbsOK
  <2> QED
    BY <2>1 DEF SetUpgradeEsimTime, SetDb, Db
<1>5. Whole(Db, files, p + 1)
  BY <1>2 DEF Due, Whole, SchemaAt, ConfAt, RowsAt, SimsAt
<1>6. DefaultsAt(Db.conf, Db.rows, Found.version, p) => DefaultsAt(Db.conf, Db.rows, Found.version, p + 1)
  <2>1. p \in 1 .. 22 /\ p \notin {3, 4, 14, 15, 16, 17, 18} /\ Found.version \in 0 .. 13
    BY <1>2, FoundIs DEF Due
  <2> QED
    BY <2>1, DefaultsStay, WidenedSame
<1>7. p + 1 \in p .. 23
  BY <1>2
<1>8. Reaches(Db, p)
  BY <1>3, <1>4, <1>5, <1>6, <1>7, SameReaches
<1> QED
  BY <1>8

(* The tones of the eSIMs. *)
LEMMA ESimToneReaches ==
    ASSUME NEW p \in 1 .. 23, Due(p), UpdateEsimDefaultSystemToneToToneFile
    PROVE  \E db : Reaches(db, p)
<1>1. At("eSimTone")
  BY DEF UpdateEsimDefaultSystemToneToToneFile
<1>2. p \in 15 .. 18 /\ Head(work.todo)[3] = UpgradeExtension[p][3]
  <2>1. p \in 1 .. 22 /\ StepNames[p] = "eSimTone" /\ Head(work.todo)[3] = UpgradeExtension[p][3]
    BY <1>1, DueIs
  <2> QED
    BY <2>1 DEF StepNames
<1>3. PICK i \in 1 .. 4 : p = 14 + i
  <2>1. p - 14 \in 1 .. 4 /\ p = 14 + (p - 14)
    BY <1>2
  <2> QED
    BY <2>1
<1> DEFINE slot == ESimDefaultParams[i]
           kind == slot[1]
           card == slot[2]
           Q == Db.rows
           due == IF slot \notin DOMAIN Defaults \/ kind \notin Kinds THEN {}
                  ELSE IF IsCardAlreadyCustomised(Q, kind, card) THEN {}
                  ELSE {t \in DOMAIN Q : t = Defaults[slot] /\ card \notin Q[t].on[kind]}
<1>4. Head(work.todo)[3] = slot
  BY <1>2, <1>3, StepFacts, Zenon
<1>5. PICK done \in SUBSET due :
        /\ SetDb([Db EXCEPT !.rows = Change(Db.rows, done,
                    LAMBDA row : [row EXCEPT !.on[kind] = @ \cup {card}, !.by[kind] = "preset"])])
        /\ Next1(done = due)
  <2> DEFINE h == Head(work.todo)[3]
             due2 == IF h \notin DOMAIN Defaults \/ h[1] \notin Kinds THEN {}
                     ELSE IF IsCardAlreadyCustomised(Db.rows, h[1], h[2]) THEN {}
                     ELSE {t \in DOMAIN Db.rows : t = Defaults[h] /\ h[2] \notin Db.rows[t].on[h[1]]}
  <2>1. PICK done \in SUBSET due2 :
            /\ SetDb([Db EXCEPT !.rows = Change(Db.rows, done,
                        LAMBDA row : [row EXCEPT !.on[h[1]] = @ \cup {h[2]}, !.by[h[1]] = "preset"])])
            /\ Next1(done = due2)
    <3>1. ChangeRows(due2, LAMBDA row : [row EXCEPT !.on[h[1]] = @ \cup {h[2]}, !.by[h[1]] = "preset"])
      BY Zenon DEF UpdateEsimDefaultSystemToneToToneFile
    <3> QED
      BY <3>1 DEF ChangeRows
  <2>2. h = slot
    BY <1>4
  <2> HIDE DEF h
  <2>3. due2 = due
    BY <2>2
  <2> QED
    <3>1. /\ SetDb([Db EXCEPT !.rows = Change(Db.rows, done,
                        LAMBDA row : [row EXCEPT !.on[kind] = @ \cup {card}, !.by[kind] = "preset"])])
          /\ Next1(done = due2)
      BY <2>1, <2>2
    <3>2. done \in SUBSET due /\ Next1(done = due)
      BY <2>1, <2>3, <3>1, Zenon
    <3> HIDE DEF due, due2
    <3> QED
      BY <3>1, <3>2
<1>6. Table(Q) /\ RowsAt(Q, files, p)
  BY DueIs DEF Due, Whole
<1>7. kind \in Kinds /\ card \in ESims
  BY ESimParamsAre, LibraryAssumption, Zenon
<1>8. done # {} => card \in Slots(kind) /\ slot \in DOMAIN Defaults
  <2>1. SUFFICES ASSUME slot \in DOMAIN Defaults PROVE card \in Slots(kind)
    BY Zenon
  <2> HIDE DEF slot
  <2>2. slot \in Types
    BY <2>1, LibraryAssumption
  <2> QED
    BY <2>2 DEF Types
<1>9. done \subseteq DOMAIN Q
  BY Zenon
<1> DEFINE S == [t \in DOMAIN Q |-> [Q[t] EXCEPT !.on[kind] = Q[t].on[kind] \cup {card}, !.by[kind] = "preset"]]
           R == [t \in DOMAIN Q |-> IF t \in done THEN S[t] ELSE Q[t]]
<1> HIDE DEF due, slot, kind, card
<1>10. SetDb([Db EXCEPT !.rows = R])
  <2>1. \A t \in DOMAIN Q : Q[t] \in Tone
    BY <1>6 DEF Table, GoodRow
  <2>2. \A r \in Tone : [r EXCEPT !.on[kind] = @ \cup {card}, !.by[kind] = "preset"]
                        = [r EXCEPT !.on[kind] = r.on[kind] \cup {card}, !.by[kind] = "preset"]
    BY DEF Tone
  <2>3. Change(Db.rows, done, LAMBDA row : [row EXCEPT !.on[kind] = @ \cup {card}, !.by[kind] = "preset"]) = R
    BY <2>1, <2>2 DEF Change
  <2> QED
    BY <1>5, <2>3
<1> HIDE DEF Q
<1>11. ASSUME NEW t \in DOMAIN Q
       PROVE  /\ S[t].mime = Q[t].mime /\ S[t].media = Q[t].media /\ S[t].place = Q[t].place
              /\ S[t].source = Q[t].source
              /\ \A k \in Kinds : S[t].on[k] = IF k = kind THEN Q[t].on[k] \cup {card} ELSE Q[t].on[k]
              /\ \A k \in Kinds : S[t].by[k] = IF k = kind THEN "preset" ELSE Q[t].by[k]
              /\ card \in Slots(kind) => GoodRow(S[t])
  <2> DEFINE r == Q[t]
             C == r.on[kind] \cup {card}
             n == [r EXCEPT !.on[kind] = C, !.by[kind] = "preset"]
  <2>1. GoodRow(r)
    BY <1>6 DEF Table
  <2>2. S[t] = n
    OBVIOUS
  <2> HIDE DEF r
  <2>3. r \in Tone /\ r.on \in [Kinds -> SUBSET AllSlots] /\ r.by \in [Kinds -> Sources]
    BY <2>1 DEF GoodRow, Tone
  <2> HIDE DEF C
  <2>4. /\ n.mime = r.mime /\ n.media = r.media /\ n.place = r.place /\ n.source = r.source
        /\ \A k \in Kinds : n.on[k] = IF k = kind THEN C ELSE r.on[k]
        /\ \A k \in Kinds : n.by[k] = IF k = kind THEN "preset" ELSE r.by[k]
    BY <1>7, <2>3 DEF Tone
  <2>5. ASSUME card \in Slots(kind) PROVE GoodRow(n)
    <3>1. C \subseteq Slots(kind) /\ Slots(kind) \subseteq AllSlots
      BY <1>7, <2>1, <2>5 DEF GoodRow, Slots, AllSlots, C
    <3>2. n \in Tone
      BY <1>7, <2>3, <3>1 DEF Tone, Sources
    <3> QED
      BY <1>7, <2>1, <2>4, <3>1, <3>2 DEF GoodRow
  <2> QED
    BY <2>2, <2>4, <2>5 DEF r, C
<1>12. DOMAIN R = DOMAIN Q /\ \A t \in DOMAIN Q : R[t] = IF t \in done THEN S[t] ELSE Q[t]
  OBVIOUS
<1> HIDE DEF R, S
<1>13. Table(R)
  BY <1>6, <1>8, <1>11, <1>12 DEF Table
<1>14. Widened(Q, R)
  <2>1. ASSUME NEW t \in DOMAIN Q, NEW k \in Kinds
        PROVE  /\ Q[t].on[k] \subseteq R[t].on[k]
               /\ R[t].by[k] = "customised" => Q[t].by[k] = "customised" /\ R[t].on[k] = Q[t].on[k]
    <3>1. /\ S[t].on[k] = IF k = kind THEN Q[t].on[k] \cup {card} ELSE Q[t].on[k]
          /\ S[t].by[k] = IF k = kind THEN "preset" ELSE Q[t].by[k]
      BY <1>11
    <3>2. R[t] = IF t \in done THEN S[t] ELSE Q[t]
      BY <1>12
    <3>3. CASE t \in done
      <4>1. R[t] = S[t]
        BY <3>2, <3>3
      <4>2. Q[t].on[k] \subseteq S[t].on[k]
        BY <3>1
      <4>3. S[t].by[k] = "customised" => k # kind /\ Q[t].by[k] = "customised" /\ S[t].on[k] = Q[t].on[k]
        <5>1. "preset" # "customised"
          OBVIOUS
        <5> QED
          BY <3>1, <5>1, Zenon
      <4> QED
        BY <4>1, <4>2, <4>3, Zenon
    <3>4. CASE t \notin done
      <4>1. R[t] = Q[t]
        BY <3>2, <3>4
      <4> QED
        BY <4>1
    <3> QED
      BY <3>3, <3>4
  <2>2. \A t \in DOMAIN Q : R[t].source = Q[t].source
    BY <1>11, <1>12, Zenon
  <2> QED
    BY <1>12, <2>1, <2>2, Zenon DEF Widened
<1>15. RowsAt(R, files, p) /\ RowsAt(R, files, p + 1)
  <2>1. \A t \in DOMAIN R : R[t].mime = Q[t].mime /\ R[t].media = Q[t].media /\ R[t].place = Q[t].place
                            /\ R[t].source = Q[t].source
    BY <1>11, <1>12, Zenon
  <2>2. p > 7 /\ p > 9 /\ p > 10
    BY <1>2
  <2>3. \A t \in DOMAIN R : /\ R[t].mime /\ R[t].media
                            /\ R[t].place = "misplaced" => R[t].source = "customised" /\ <<t, "new">> \notin files
    BY <1>6, <1>12, <2>1, <2>2, Zenon DEF RowsAt
  <2> QED
    BY <2>3, Zenon DEF RowsAt
<1>16. ASSUME done = due, NoESimChosen(Q) PROVE ESimSet(R, slot)
  <2>1. SUFFICES ASSUME slot \in DOMAIN Defaults, Defaults[slot] \in DOMAIN R
                 PROVE  card \in R[Defaults[slot]].on[kind]
    BY Zenon DEF ESimSet, card, kind
  <2> DEFINE t == Defaults[slot]
  <2>2. t \in DOMAIN Q
    BY <1>12, <2>1
  <2> HIDE DEF t
  <2>3. ~IsCardAlreadyCustomised(Q, kind, card)
    BY <1>7, <1>16 DEF IsCardAlreadyCustomised, NoESimChosen
  <2>4. card \notin Q[t].on[kind] => t \in done
    <3>1. due = {u \in DOMAIN Q : u = t /\ card \notin Q[u].on[kind]}
      BY <1>7, <2>1, <2>3, Zenon DEF due, t, Q, kind, card
    <3> QED
      BY <1>16, <2>2, <3>1
  <2>5. card \in R[t].on[kind]
    <3>1. S[t].on[kind] = Q[t].on[kind] \cup {card}
      BY <1>7, <1>11, <2>2
    <3>2. R[t] = IF t \in done THEN S[t] ELSE Q[t]
      BY <1>12, <2>2
    <3> QED
      BY <2>4, <3>1, <3>2
  <2> QED
    BY <2>5 DEF t
<1>17. ASSUME done = due
       PROVE  DefaultsAt(Db.conf, Q, Found.version, p) => DefaultsAt(Db.conf, R, Found.version, p + 1)
  <2> DEFINE v == Found.version
             conf == Db.conf
  <2>1. SUFFICES ASSUME DefaultsAt(conf, Q, v, p) PROVE DefaultsAt(conf, R, v, p + 1)
    OBVIOUS
  <2> HIDE DEF v, conf
  <2>2. /\ ConfSet(conf, Q) => ConfSet(conf, R)
        /\ NoESimChosen(Q) => NoESimChosen(R)
        /\ \A x : ESimSet(Q, x) => ESimSet(R, x)
    BY <1>14, WidenedIs, Zenon
  <2>3. p > 3 /\ p > 14 /\ p > 4 /\ p + 1 > 4 /\ ~(p + 1 <= 13)
    BY <1>2
  <2>4. ConfSet(conf, R) /\ (v < 4 => DOMAIN conf = Types)
    BY <2>1, <2>2, <2>3, Zenon DEF DefaultsAt
  <2>5. ASSUME v \in 4 .. 12
        PROVE  NoESimChosen(R) /\ \A j \in 1 .. 4 : p + 1 > 14 + j => ESimSet(R, ESimDefaultParams[j])
    <3>1. NoESimChosen(Q) /\ \A j \in 1 .. 4 : p > 14 + j => ESimSet(Q, ESimDefaultParams[j])
      BY <2>1, <2>5, Zenon DEF DefaultsAt
    <3>2. ESimSet(R, ESimDefaultParams[i])
      BY <1>16, <1>17, <3>1 DEF slot
    <3>3. \A j \in 1 .. 4 : p + 1 > 14 + j => j = i \/ p > 14 + j
      BY <1>3
    <3> QED
      BY <2>2, <3>1, <3>2, <3>3, Zenon
  <2> QED
    BY <2>3, <2>4, <2>5, Zenon DEF DefaultsAt
<1>18. (done = due /\ Goes(p + 1)) \/ Dies
  <2> DEFINE d == done = due
  <2>1. Next1(d)
    BY <1>5
  <2> HIDE DEF d
  <2> QED
    BY <1>1, <2>1, Next1Goes DEF d
<1>19. /\ p \in 1 .. 22 /\ p \in {2, 7, 9, 10, 15, 16, 17, 18} /\ Widened(Db.rows, R)
  BY <1>2, <1>14 DEF Q
<1>20. \/ Dies /\ RowsAt(R, files, p)
       \/ /\ Goes(p + 1) /\ RowsAt(R, files, p + 1)
          /\ p >= 15 => (DefaultsAt(Db.conf, Db.rows, Found.version, p)
                         => DefaultsAt(Db.conf, R, Found.version, p + 1))
  BY <1>15, <1>17, <1>18, Zenon DEF Q
<1> QED
  BY <1>10, <1>13, <1>19, <1>20, RowsReach

LEMMA MidReaches ==
    ASSUME NEW p \in 1 .. 23, Due(p), Mid
    PROVE  \E db : Reaches(db, p)
BY FlagsReach, ConfReaches, VibrateReaches, SimRowsReach, MediaReach, DataUriReaches, SystemToneReaches,
   ESimToneReaches, InheritReaches, SanitizeReaches, ESimTimeReaches, Zenon DEF Mid

-----------------------------------------------------------------------------
(* How far a database is, in the start that is under way. *)
Progress(db, p) ==
    /\ Whole(db, files, p)
    /\ Untouched => Chosen(Found.rows, db.rows)
    /\ crashes = 0 /\ phase \notin After \ {"defaults"} => DefaultsAt(db.conf, db.rows, Found.version, p)

(* Between upgrades a database is where its version says, in one where the next step is.       *)
Stage(db) ==
    \E p \in FirstOf(db.version) .. 23 :
        /\ Progress(db, p)
        /\ IF phase = "upgrade" THEN work.todo = SubSeq(UpgradeExtension, p, 22) ELSE p = FirstOf(db.version)

(* The database that is upgraded: the one of the device-level area for good, or the encrypted *)
(* one until it is moved; while it is being moved, both.                                      *)
StaysInEl1 == work.open = "el1" /\ phase \notin {"backup", "moved"} /\ Stays
StillInEl2 ==
    /\ phase \in {"off", "open", "upgrade", "backup", "moved"}
    /\ ~prefs.completed /\ job.el2Completed
    /\ phase # "off" => work.open = "el2"

Upgraded ==
    \/ StaysInEl1 /\ Stage(dbs.el1)
    \/ StillInEl2 /\ Stage(dbs.el2) /\ (phase = "moved" => Stage(dbs.el1))

(* What goes on beside: the rows a scan has read, the settings it is to flush, what the        *)
(* clients have left to do, and the files that are on the way.                                 *)
BufferOK(B) ==
    /\ \A t \in DOMAIN B : B[t].mime /\ B[t].media /\ B[t].place # "misplaced"
    /\ Untouched =>
        /\ \A t \in DOMAIN Found.rows \cap DOMAIN B, k \in Kinds :
            Found.rows[t].by[k] = "customised" => Found.rows[t].on[k] \subseteq B[t].on[k]
        /\ \A t \in DOMAIN B, k \in Kinds : B[t].by[k] = "customised" =>
             t \in DOMAIN Found.rows /\ Found.rows[t].by[k] = "customised" /\ B[t].on[k] \subseteq Found.rows[t].on[k]
FlushOK(R) ==
    scan.phase = "flush" =>
        /\ \A i \in scan.cache : i.by = "preset" /\ i.path \in DOMAIN R /\ R[i.path].source = "preset"
        /\ \A s \in scan.todo : s.item \in scan.cache
FilesOK(R) ==
    /\ phase \in {"makeDir", "moveBack"} =>
        \A t \in DOMAIN R : R[t].place = "misplaced" => <<t, "tmp">> \notin files
    /\ phase \in {"copy", "save"} => \A t \in work.left \cap DOMAIN R : R[t].place # "misplaced"
Aside ==
    /\ history.runs \in Nat
    /\ phase = "defaults" => scan.phase = "idle"
    /\ Untouched => \A c \in Clients : clients[c] \in {<<>>, <<Reset>>}
    /\ BufferOK(scan.buffer.rows) /\ FlushOK(dbs.el1.rows) /\ FilesOK(dbs.el1.rows)

(* The invariant behind UpgradeCompletes. *)
UpgradeInv == Grown /\ failures = 0 => Upgraded /\ Aside

(* A step without a failure, in a library that grew as the code lets it. *)
Ready ==
    /\ TypeInv /\ FactoryInv /\ Grown /\ Upgraded /\ Aside
    /\ job' = job /\ failures = 0 /\ failures' = 0

LEMMA WholeBefore ==
    ASSUME NEW db, NEW F, NEW p \in 1 .. 23, NEW q \in p .. 23, Whole(db, F, q)
    PROVE  Whole(db, F, p)
<1>1. \A n \in Nat : p > n => q > n
  OBVIOUS
<1>2. SchemaAt(db.schema, p)
  BY <1>1 DEF Whole, SchemaAt
<1>3. ConfAt(db.conf, p)
  BY <1>1 DEF Whole, ConfAt
<1>4. RowsAt(db.rows, F, p)
  BY <1>1 DEF Whole, RowsAt
<1>5. SimsAt(db.sims, db.vibrations, p)
  BY <1>1 DEF Whole, SimsAt
<1> QED
  BY <1>2, <1>3, <1>4, <1>5 DEF Whole

LEMMA ChosenSame == \A F : Chosen(F, F)
BY DEF Chosen

LEMMA GrownSame == ASSUME job' = job PROVE Found' = Found /\ (Grown' <=> Grown)
BY DEF Found, Grown

LEMMA NoFailure ==
    ASSUME Ready
    PROVE  ~Fails /\ Found' = Found /\ Grown'
BY GrownSame DEF Ready, Fails

(* The first state *)
LEMMA InitUpgraded ==
    ASSUME Init, Grown
    PROVE  Upgraded /\ Aside
<1>1. /\ dbs = [el1 |-> job.el1, el2 |-> job.el2]
      /\ prefs = [completed |-> job.completed, initScanner |-> job.initScanner, eSimTime |-> "none"]
      /\ files = job.files /\ phase = "off" /\ work = NoWork /\ scan = NoScan
      /\ clients = [c \in Clients |-> <<>>] /\ history = NoHistory /\ crashes = 0
  BY DEF Init
<1>2. work.open = "el1" /\ scan.buffer.rows = <<>> /\ history.runs = 0 /\ scan.phase = "idle"
  BY <1>1 DEF NoWork, NoScan, NoHistory
<1>3. FirstOf(Found.version) \in FirstOf(Found.version) .. 23
  <2>1. TypeInv
    BY InitTypes
  <2>2. Found.version \in 0 .. 13
    BY <2>1, FoundIs
  <2> DEFINE v == Found.version
  <2> HIDE DEF v
  <2>3. v \in 0 .. 13 => FirstOf(v) \in 1 .. 23
    BY FirstIs
  <2> DEFINE p == FirstOf(v)
  <2>4. p \in 1 .. 23
    BY <2>2, <2>3 DEF v
  <2> HIDE DEF p
  <2>5. p \in p .. 23
    BY <2>4
  <2> QED
    BY <2>5 DEF p, v
<1>4. Stage(Found)
  <2>1. Whole(Found, files, FirstOf(Found.version))
        /\ DefaultsAt(Found.conf, Found.rows, Found.version, FirstOf(Found.version))
    BY <1>1 DEF Grown
  <2>2. Progress(Found, FirstOf(Found.version))
    BY <2>1, ChosenSame, Zenon DEF Progress
  <2>3. phase # "upgrade"
    BY <1>1
  <2> QED
    BY <1>3, <2>2, <2>3, Zenon DEF Stage
<1>5. Upgraded
  <2>1. CASE ~job.completed /\ job.el2Completed
    <3>1. Found = dbs.el2 /\ StillInEl2 /\ phase # "moved"
      BY <1>1, <2>1 DEF Found, StillInEl2
    <3> QED
      BY <1>4, <3>1, Zenon DEF Upgraded
  <2>2. CASE job.completed \/ ~job.el2Completed
    <3>1. Found = job.el1 /\ Found = dbs.el1
      BY <1>1, <2>2 DEF Found
    <3>2. job.el2Completed /\ job.completed => Found.version \notin 1 .. 4 \/ job.crashes = 0
      BY DEF Grown
    <3>3. prefs.completed = job.completed
      BY <1>1
    <3>4. StaysInEl1
      BY <1>1, <1>2, <2>2, <3>1, <3>2, <3>3 DEF StaysInEl1, Stays
    <3> QED
      BY <1>4, <3>1, <3>4, Zenon DEF Upgraded
  <2> QED
    BY <2>1, <2>2
<1>6. BufferOK(scan.buffer.rows)
  BY <1>2 DEF BufferOK
<1>7. Aside
  BY <1>1, <1>2, <1>6 DEF Aside, FlushOK, FilesOK
<1> QED
  BY <1>5, <1>7

(* Nothing goes on beside before the start has come to the folder. *)
LEMMA AsideEarly ==
    ASSUME Ready, scan' = NoScan, \A c \in Clients : clients'[c] = <<>>, history'.runs = history.runs,
           phase' \notin {"makeDir", "moveBack", "copy", "save"}
    PROVE  Aside'
<1>1. scan'.phase = "idle" /\ scan'.buffer.rows = <<>>
  BY DEF NoScan
<1>2. BufferOK(scan.buffer.rows)'
  BY <1>1 DEF BufferOK
<1>3. history'.runs \in Nat
  BY DEF Ready, Aside
<1> QED
  BY <1>1, <1>2, <1>3 DEF Aside, FlushOK, FilesOK

(* A step of OnStart, beside which everything stays. *)
LEMMA AsideOn ==
    ASSUME Ready, UNCHANGED <<scan, clients>>, history'.chosen = history.chosen, history'.runs = history.runs,
           \A t \in DOMAIN rows : t \in DOMAIN dbs'.el1.rows /\ dbs'.el1.rows[t].source = rows[t].source,
           phase' # "defaults", FilesOK(dbs.el1.rows)'
    PROVE  Aside'
<1>1. Untouched' <=> Untouched
  BY DEF Untouched
<1>2. Found' = Found
  BY NoFailure
<1>3. BufferOK(scan.buffer.rows)'
  BY <1>1, <1>2 DEF BufferOK, Ready, Aside
<1>4. FlushOK(dbs.el1.rows)'
  BY DEF FlushOK, Ready, Aside, rows
<1> QED
  BY <1>1, <1>3, <1>4 DEF Aside, Ready

-----------------------------------------------------------------------------
(* From the opening to the end of the upgrade *)

LEMMA StageIs ==
    ASSUME Ready, NEW db, NEW p \in FirstOf(db.version) .. 23, Whole(db, files', p),
           Untouched' => Chosen(Found.rows, db.rows),
           crashes' = 0 /\ phase' \notin After \ {"defaults"} => DefaultsAt(db.conf, db.rows, Found.version, p),
           IF phase' = "upgrade" THEN work'.todo = SubSeq(UpgradeExtension, p, 22) ELSE p = FirstOf(db.version)
    PROVE  (dbs'.el1 = db => Stage(dbs.el1)') /\ (dbs'.el2 = db => Stage(dbs.el2)')
<1>1. Found' = Found
  BY NoFailure
<1>2. /\ Whole(db, files', p)
      /\ Untouched' => Chosen(Found'.rows, db.rows)
      /\ crashes' = 0 /\ phase' \notin After \ {"defaults"} => DefaultsAt(db.conf, db.rows, Found'.version, p)
  BY <1>1, Zenon
<1>3. dbs'.el1 = db => Progress(dbs.el1, p)'
  BY <1>2, Zenon DEF Progress
<1>4. dbs'.el2 = db => Progress(dbs.el2, p)'
  BY <1>2, Zenon DEF Progress
<1>5. ASSUME dbs'.el1 = db PROVE Stage(dbs.el1)'
  <2>1. p \in FirstOf(dbs'.el1.version) .. 23
    BY <1>5, Zenon
  <2>2. IF phase' = "upgrade" THEN work'.todo = SubSeq(UpgradeExtension, p, 22) ELSE p = FirstOf(dbs'.el1.version)
    BY <1>5, Zenon
  <2> QED
    BY <1>3, <1>5, <2>1, <2>2, Zenon DEF Stage
<1>6. ASSUME dbs'.el2 = db PROVE Stage(dbs.el2)'
  <2>1. p \in FirstOf(dbs'.el2.version) .. 23
    BY <1>6, Zenon
  <2>2. IF phase' = "upgrade" THEN work'.todo = SubSeq(UpgradeExtension, p, 22) ELSE p = FirstOf(dbs'.el2.version)
    BY <1>6, Zenon
  <2> QED
    BY <1>4, <1>6, <2>1, <2>2, Zenon DEF Stage
<1> QED
  BY <1>5, <1>6

(* Opening and beginning change nothing of a database. *)
LEMMA StageKept ==
    ASSUME Ready, NEW db, Stage(db), files' = files, history' = history, crashes' = crashes,
           phase \notin After \cup {"upgrade"}, phase' # "upgrade"
    PROVE  (dbs'.el1 = db => Stage(dbs.el1)') /\ (dbs'.el2 = db => Stage(dbs.el2)')
<1>1. PICK p \in FirstOf(db.version) .. 23 :
        /\ Progress(db, p)
        /\ p = FirstOf(db.version)
  BY Zenon DEF Stage
<1>2. Whole(db, files', p)
  BY <1>1, Zenon DEF Progress
<1>3. Untouched' => Chosen(Found.rows, db.rows)
  BY <1>1, Zenon DEF Progress, Untouched
<1>4. crashes' = 0 => DefaultsAt(db.conf, db.rows, Found.version, p)
  BY <1>1, Zenon DEF Progress
<1> QED
  BY <1>1, <1>2, <1>3, <1>4, StageIs

LEMMA NothingBeside ==
    ASSUME Ready, phase \notin After, UNCHANGED <<scan, clients>>
    PROVE  scan' = NoScan /\ \A c \in Clients : clients'[c] = <<>>
<1>1. TypeInv
  BY DEF Ready
<1>2. scan = NoScan
  BY <1>1, NoScanBefore
<1>3. \A c \in Clients : clients[c] = <<>>
  BY <1>1 DEF TypeInv, Staged, After
<1> QED
  BY <1>2, <1>3

LEMMA OpeningUpgrades ==
    ASSUME Ready, ChecMoveDb \/ MoveEL2DBToEL1DB \/ SetMoveEL2DBToEL1
    PROVE  Upgraded' /\ Aside'
<1>1. UNCHANGED <<job, first, known, scan, clients, history, crashes>> /\ UNCHANGED <<files, folder>>
  BY Zenon DEF ChecMoveDb, MoveEL2DBToEL1DB, SetMoveEL2DBToEL1, Calm, others
<1>2. /\ DbsOK(dbs) /\ prefs.completed \in BOOLEAN
      /\ prefs \in [completed : BOOLEAN, initScanner : BOOLEAN, eSimTime : {"none", "recent", "old"}]
  BY DEF Ready, TypeInv, Stored
<1>3. ~Fails
  BY NoFailure
<1>4. phase \in {"off", "backup", "moved"} /\ phase' \in {"open", "moved"}
  BY <1>3, Zenon DEF ChecMoveDb, MoveEL2DBToEL1DB, SetMoveEL2DBToEL1, Then
<1>5. phase \notin After \cup {"upgrade"} /\ phase' # "upgrade" /\ phase' \notin {"makeDir", "moveBack", "copy", "save"}
  BY <1>4 DEF After
<1>6. Aside'
  BY <1>1, <1>5, NothingBeside, AsideEarly
<1>7. \A db : Stage(db) => (dbs'.el1 = db => Stage(dbs.el1)') /\ (dbs'.el2 = db => Stage(dbs.el2)')
  BY <1>1, <1>5, StageKept
<1>8. Upgraded
  BY DEF Ready
<1>9. CASE ChecMoveDb
  <2>1. phase = "off" /\ phase' = "open" /\ UNCHANGED <<dbs, prefs>>
    BY <1>3, <1>9, Zenon DEF ChecMoveDb
  <2>2. work'.open = IF ~prefs.completed /\ job.el2Completed THEN "el2" ELSE "el1"
    <3>1. work' = [NoWork EXCEPT !.open = IF ~prefs.completed /\ job.el2Completed THEN "el2" ELSE "el1"]
      BY <1>3, <1>9, Zenon DEF ChecMoveDb
    <3> QED
      BY <3>1 DEF NoWork
  <2>3. StaysInEl1 => StaysInEl1'
    BY <1>1, <2>1, <2>2 DEF StaysInEl1, Stays
  <2>4. StillInEl2 => StillInEl2'
    BY <1>1, <2>1, <2>2 DEF StillInEl2
  <2>5. (Stage(dbs.el1) => Stage(dbs.el1)') /\ (Stage(dbs.el2) => Stage(dbs.el2)')
    BY <1>7, <2>1, Zenon
  <2>6. phase' # "moved"
    BY <2>1
  <2> QED
    BY <1>6, <1>8, <2>3, <2>4, <2>5, <2>6, Zenon DEF Upgraded
<1>10. CASE MoveEL2DBToEL1DB
  <2>1. phase = "backup" /\ prefs' = prefs /\ work' = work /\ dbs' = [dbs EXCEPT !.el1 = dbs.el2] /\ phase' = "moved"
    BY <1>3, <1>10, Zenon DEF MoveEL2DBToEL1DB, Then
  <2> DEFINE db == dbs.el2
  <2>2. dbs'.el1 = db /\ dbs'.el2 = db
    <3>1. IsDb(db) /\ dbs' = [dbs EXCEPT !["el1"] = db]
      BY <1>2, <2>1 DEF DbsOK
    <3> QED
      BY <1>2, <3>1, SetDbTypes
  <2>3. StillInEl2 /\ Stage(db)
    BY <1>8, <2>1 DEF Upgraded, StaysInEl1
  <2>4. StillInEl2'
    BY <1>1, <2>1, <2>3 DEF StillInEl2
  <2> HIDE DEF db
  <2>5. Stage(dbs.el1)' /\ Stage(dbs.el2)'
    BY <1>7, <2>2, <2>3, Zenon
  <2> QED
    BY <1>6, <2>4, <2>5, Zenon DEF Upgraded
<1>11. CASE SetMoveEL2DBToEL1
  <2>1. phase = "moved" /\ phase' = "open" /\ work' = NoWork /\ dbs' = dbs
        /\ prefs' = [prefs EXCEPT !.completed = TRUE]
    BY <1>3, <1>11, Zenon DEF SetMoveEL2DBToEL1
  <2>2. dbs.el1.version = 13 /\ work'.open = "el1" /\ prefs'.completed
    BY <1>2, <2>1 DEF Ready, TypeInv, Staged, NoWork, RINGTONE_RDB_VERSION
  <2>3. StaysInEl1'
    BY <1>1, <2>1, <2>2 DEF StaysInEl1, Stays
  <2>4. Stage(dbs.el1)
    BY <1>8, <2>1 DEF Upgraded, StaysInEl1
  <2>5. Stage(dbs.el1)'
    BY <1>7, <2>1, <2>4, Zenon
  <2> QED
    BY <1>6, <2>3, <2>5, Zenon DEF Upgraded
<1> QED
  BY <1>9, <1>10, <1>11

LEMMA SetDbIs ==
    ASSUME TypeInv, NEW db, IsDb(db), SetDb(db)
    PROVE  /\ work.open = "el1" => dbs'.el1 = db /\ dbs'.el2 = dbs.el2
           /\ work.open = "el2" => dbs'.el2 = db /\ dbs'.el1 = dbs.el1
<1>1. DbsOK(dbs) /\ work.open \in {"el1", "el2"}
  BY OpenDb
<1> DEFINE area == work.open
<1> HIDE DEF area
<1>2. area \in {"el1", "el2"} /\ IsDb(db) /\ dbs' = [dbs EXCEPT ![area] = db]
  BY <1>1 DEF area, SetDb
<1> QED
  BY <1>1, <1>2, SetDbTypes DEF area

(* The database that is opened, in either area. *)
LEMMA OpenStage ==
    ASSUME TypeInv, Upgraded, phase \in {"open", "upgrade"}
    PROVE  /\ Stage(Db)
           /\ \/ StaysInEl1 /\ work.open = "el1" /\ Db = dbs.el1
              \/ StillInEl2 /\ work.open = "el2" /\ Db = dbs.el2
<1>1. /\ work.open = "el1" => Db = dbs.el1
      /\ work.open = "el2" => Db = dbs.el2
  BY OpenDb
<1>2. \/ StaysInEl1 /\ work.open = "el1" /\ Stage(dbs.el1)
      \/ StillInEl2 /\ work.open = "el2" /\ Stage(dbs.el2)
  BY DEF Upgraded, StaysInEl1, StillInEl2
<1> DEFINE a == dbs.el1
           b == dbs.el2
           d == Db
<1>3. (work.open = "el1" => d = a) /\ (work.open = "el2" => d = b)
  BY <1>1
<1>4. \/ StaysInEl1 /\ work.open = "el1" /\ Stage(a)
      \/ StillInEl2 /\ work.open = "el2" /\ Stage(b)
  BY <1>2, Zenon
<1> HIDE DEF a, b, d
<1>5. /\ Stage(d)
      /\ \/ StaysInEl1 /\ work.open = "el1" /\ d = a
         \/ StillInEl2 /\ work.open = "el2" /\ d = b
  BY <1>3, <1>4, Zenon
<1> QED
  BY <1>5, Zenon DEF a, b, d

LEMMA NewDbWhole ==
    /\ \A F : Whole(NewDb, F, 23)
    /\ \A v : DefaultsAt(NewDb.conf, NewDb.rows, v, 23)
    /\ \A F : Chosen(F, <<>>) => Chosen(F, NewDb.rows)
    /\ FirstOf(NewDb.version) = 23
<1>1. /\ NewDb.schema = Schemas /\ NewDb.rows = <<>> /\ DOMAIN NewDb.conf = Types /\ DOMAIN NewDb.sims = SimKeys
      /\ \A key \in SimKeys : NewDb.sims[key] = EmptySim
      /\ NewDb.version = 13
  BY DEF NewDb, RINGTONE_RDB_VERSION
<1> DEFINE db == NewDb
<1> HIDE DEF db
<1>2. /\ db.schema = Schemas /\ db.rows = <<>> /\ DOMAIN db.conf = Types /\ DOMAIN db.sims = SimKeys
      /\ \A key \in SimKeys : db.sims[key] = EmptySim
      /\ db.version = 13
  BY <1>1, Zenon DEF db
<1>3. DOMAIN db.rows = {}
  BY <1>2
<1>4. Clean(db.sims)
  <2>1. ~IsDirty(EmptySim)
    BY DEF IsDirty, EmptySim
  <2> QED
    BY <1>2, <2>1, Zenon DEF Clean
<1>5. \A F : Whole(db, F, 23)
  <2>1. SchemaAt(db.schema, 23)
    BY <1>2 DEF SchemaAt, Schemas
  <2>2. ConfAt(db.conf, 23)
    BY <1>2 DEF ConfAt
  <2>3. \A F : RowsAt(db.rows, F, 23)
    BY <1>3 DEF RowsAt
  <2>4. SimsAt(db.sims, db.vibrations, 23)
    BY <1>2, <1>4 DEF SimsAt
  <2> QED
    BY <2>1, <2>2, <2>3, <2>4, Zenon DEF Whole
<1>6. \A v : DefaultsAt(db.conf, db.rows, v, 23)
  <2>1. ConfSet(db.conf, db.rows)
    BY <1>3 DEF ConfSet
  <2>2. NoESimChosen(db.rows)
    BY <1>3 DEF NoESimChosen
  <2>3. \A x : ESimSet(db.rows, x)
    BY <1>3 DEF ESimSet
  <2>4. ~(23 <= 13) /\ 23 > 4
    OBVIOUS
  <2> QED
    BY <1>2, <2>1, <2>2, <2>3, <2>4, Zenon DEF DefaultsAt
<1>7. FirstOf(db.version) = 23
  BY <1>2, FirstIs
<1> QED
  BY <1>2, <1>5, <1>6, <1>7, Zenon DEF db

LEMMA OnCreateUpgrades ==
    ASSUME Ready, OnCreate
    PROVE  Upgraded' /\ Aside'
<1>1. TypeInv /\ Upgraded /\ ~Fails
  BY NoFailure DEF Ready
<1>2. /\ phase = "open" /\ Db.version = 0 /\ UNCHANGED <<job, prefs, files, work>>
      /\ UNCHANGED <<scan, clients, history, crashes>>
      /\ dbs' = [dbs EXCEPT ![work.open] = NewDb]
      /\ phase' = IF work.open = "el2" THEN "backup" ELSE "defaults"
  BY <1>1, OnCreateIs DEF others
<1>3. Aside'
  <2>1. phase \notin After /\ phase' \notin {"makeDir", "moveBack", "copy", "save"}
    BY <1>2 DEF After
  <2> QED
    BY <1>2, <2>1, NothingBeside, AsideEarly
<1>4. /\ work.open = "el1" => dbs'.el1 = NewDb /\ dbs'.el2 = dbs.el2
      /\ work.open = "el2" => dbs'.el2 = NewDb /\ dbs'.el1 = dbs.el1
  <2> DEFINE db == NewDb
  <2>1. IsDb(db)
    BY NewDbTypes DEF UsedDb
  <2> HIDE DEF db
  <2>2. SetDb(db)
    BY <1>2, Zenon DEF SetDb, db
  <2>3. /\ work.open = "el1" => dbs'.el1 = db /\ dbs'.el2 = dbs.el2
        /\ work.open = "el2" => dbs'.el2 = db /\ dbs'.el1 = dbs.el1
    BY <1>1, <2>1, <2>2, SetDbIs
  <2> QED
    BY <2>3 DEF db
<1>5. Untouched => Chosen(Found.rows, <<>>)
  <2>1. Db.rows = <<>>
    BY <1>1, <1>2, OpenDb DEF IsDb, NoDb
  <2>2. Stage(Db)
    BY <1>1, <1>2, OpenStage
  <2>3. Untouched => Chosen(Found.rows, Db.rows)
    BY <2>2, Zenon DEF Stage, Progress
  <2> QED
    BY <2>1, <2>3, Zenon
<1>6. (dbs'.el1 = NewDb => Stage(dbs.el1)') /\ (dbs'.el2 = NewDb => Stage(dbs.el2)')
  <2> DEFINE db == NewDb
             v == Found.version
             F == Found.rows
  <2>1. /\ Whole(db, files', 23)
        /\ Untouched' => Chosen(F, db.rows)
        /\ DefaultsAt(db.conf, db.rows, v, 23)
        /\ FirstOf(db.version) = 23
    BY <1>2, <1>5, NewDbWhole, Zenon DEF Untouched
  <2>2. phase' # "upgrade"
    BY <1>2
  <2> HIDE DEF db
  <2>3. 23 \in FirstOf(db.version) .. 23
    BY <2>1
  <2>4. (dbs'.el1 = db => Stage(dbs.el1)') /\ (dbs'.el2 = db => Stage(dbs.el2)')
    BY <2>1, <2>2, <2>3, StageIs
  <2> QED
    BY <2>4 DEF db
<1>7. CASE StaysInEl1 /\ work.open = "el1"
  <2>1. phase' = "defaults" /\ dbs'.el1 = NewDb
    BY <1>2, <1>4, <1>7
  <2>2. StaysInEl1'
    <3>1. NewDb.version = 13
      BY NewDbTypes DEF RINGTONE_RDB_VERSION
    <3> QED
      BY <1>2, <1>7, <2>1, <3>1 DEF StaysInEl1, Stays
  <2> QED
    BY <1>3, <1>6, <2>1, <2>2, Zenon DEF Upgraded
<1>8. CASE StillInEl2 /\ work.open = "el2"
  <2>1. phase' = "backup" /\ dbs'.el2 = NewDb
    BY <1>2, <1>4, <1>8
  <2>2. StillInEl2' /\ phase' # "moved"
    BY <1>2, <1>8, <2>1 DEF StillInEl2
  <2> QED
    BY <1>3, <1>6, <2>1, <2>2, Zenon DEF Upgraded
<1> QED
  BY <1>1, <1>2, <1>7, <1>8, OpenStage

LEMMA BeginUpgrades ==
    ASSUME Ready, BeginUpgrade
    PROVE  Upgraded' /\ Aside'
<1>1. TypeInv /\ Upgraded
  BY DEF Ready
<1>2. /\ phase = "open" /\ Db.version # 0 /\ phase' = "upgrade"
      /\ work' = [work EXCEPT !.todo = StepsFrom(Db.version)]
      /\ UNCHANGED <<job, scan, clients, history, crashes, dbs, prefs, files>>
  BY DEF BeginUpgrade, Calm, others, storage
<1>3. Aside'
  <2>1. phase \notin After /\ phase' \notin {"makeDir", "moveBack", "copy", "save"}
    BY <1>2 DEF After
  <2> QED
    BY <1>2, <2>1, NothingBeside, AsideEarly
<1>4. PICK todo : todo = StepsFrom(Db.version)
  OBVIOUS
<1>5. WorkOK(work) /\ IsDb(Db)
  BY <1>1, OpenDb DEF TypeInv, Memory
<1>6. work'.open = work.open /\ work'.todo = todo
  BY <1>2, <1>4, <1>5 DEF WorkOK
<1>7. Db.version \in 1 .. 13
  BY <1>2, <1>5 DEF IsDb, DbOK, RINGTONE_RDB_VERSION
<1>8. work.open = "el1" /\ dbs.el1.version \notin 1 .. 4 => todo \in Seq(LaterSteps)
  <2> DEFINE v == Db.version
  <2> HIDE DEF v
  <2>1. work.open = "el1" => v = dbs.el1.version
    BY <1>1, OpenDb DEF v
  <2>2. v \in 5 .. 13 => StepsFrom(v) \in Seq(LaterSteps)
    BY StepsFromLater DEF RINGTONE_RDB_VERSION
  <2>3. v \in 1 .. 13 /\ todo = StepsFrom(v)
    BY <1>4, <1>7 DEF v
  <2> QED
    BY <2>1, <2>2, <2>3
<1>9. PICK db : db = Db
  OBVIOUS
<1>10. (dbs'.el1 = db => Stage(dbs.el1)') /\ (dbs'.el2 = db => Stage(dbs.el2)')
  <2>1. Stage(db) /\ db.version \in 1 .. 13 /\ todo = StepsFrom(db.version)
    BY <1>1, <1>2, <1>4, <1>7, <1>9, OpenStage
  <2> DEFINE p == FirstOf(db.version)
  <2>2. p \in p .. 23 /\ todo = SubSeq(UpgradeExtension, p, 22)
    <3> DEFINE v == db.version
    <3> HIDE DEF v
    <3>1. v \in 0 .. 13 => FirstOf(v) \in 1 .. 23 /\ StepsFrom(v) = SubSeq(UpgradeExtension, FirstOf(v), 22)
      BY FirstIs, Zenon
    <3>2. v \in 0 .. 13 /\ todo = StepsFrom(v) /\ p = FirstOf(v)
      BY <2>1 DEF v
    <3> HIDE DEF p
    <3>3. p \in 1 .. 23 /\ todo = SubSeq(UpgradeExtension, p, 22)
      BY <3>1, <3>2, Zenon
    <3> QED
      BY <3>3
  <2>3. Progress(db, p)
    BY <1>2, <2>1 DEF Stage
  <2>4. /\ Whole(db, files', p)
        /\ Untouched' => Chosen(Found.rows, db.rows)
        /\ crashes' = 0 => DefaultsAt(db.conf, db.rows, Found.version, p)
    <3>1. phase \notin After
      BY <1>2 DEF After
    <3> QED
      BY <1>2, <2>3, <3>1, Zenon DEF Progress, Untouched
  <2>5. p \in FirstOf(db.version) .. 23
    BY <2>2, Zenon
  <2> HIDE DEF p
  <2>6. IF phase' = "upgrade" THEN work'.todo = SubSeq(UpgradeExtension, p, 22) ELSE p = FirstOf(db.version)
    BY <1>2, <1>6, <2>2, Zenon
  <2> QED
    BY <2>4, <2>5, <2>6, StageIs
<1>11. CASE StaysInEl1 /\ work.open = "el1" /\ Db = dbs.el1
  <2>1. StaysInEl1'
    BY <1>2, <1>6, <1>8, <1>11 DEF StaysInEl1, Stays
  <2>2. dbs'.el1 = db
    BY <1>2, <1>9, <1>11
  <2> QED
    BY <1>3, <1>10, <2>1, <2>2, Zenon DEF Upgraded
<1>12. CASE StillInEl2 /\ work.open = "el2" /\ Db = dbs.el2
  <2>1. StillInEl2' /\ phase' # "moved"
    BY <1>2, <1>6, <1>12 DEF StillInEl2
  <2>2. dbs'.el2 = db
    BY <1>2, <1>9, <1>12
  <2> QED
    BY <1>3, <1>10, <2>1, <2>2, Zenon DEF Upgraded
<1> QED
  BY <1>1, <1>2, <1>11, <1>12, OpenStage

LEMMA EndUpgrades ==
    ASSUME Ready, EndUpgrade
    PROVE  Upgraded' /\ Aside'
<1>1. TypeInv /\ Upgraded
  BY DEF Ready
<1>2. /\ phase = "upgrade" /\ work.todo = <<>>
      /\ SetDb([Db EXCEPT !.version = RINGTONE_RDB_VERSION])
      /\ phase' = IF work.open = "el2" THEN "backup" ELSE "defaults"
      /\ UNCHANGED <<job, prefs, files, work, scan, clients, history, crashes>>
  BY DEF EndUpgrade, Calm, others
<1>3. Aside'
  <2>1. phase \notin After /\ phase' \notin {"makeDir", "moveBack", "copy", "save"}
    BY <1>2 DEF After
  <2> QED
    BY <1>2, <2>1, NothingBeside, AsideEarly
<1>4. PICK old : old = Db
  OBVIOUS
<1>5. PICK db : db = [old EXCEPT !.version = RINGTONE_RDB_VERSION]
  OBVIOUS
<1>6. UsedDb(old)
  BY <1>1, <1>2, <1>4, OpenDb
<1>7. /\ UsedDb(db) /\ db.version = 13 /\ db.rows = old.rows /\ db.conf = old.conf /\ db.sims = old.sims
      /\ db.vibrations = old.vibrations /\ db.schema = old.schema
  <2>1. old = [version |-> old.version, schema |-> old.schema, rows |-> old.rows, conf |-> old.conf,
               sims |-> old.sims, vibrations |-> old.vibrations]
    BY <1>6, DbParts
  <2>2. UsedDb(db)
    BY <1>5, <1>6, DbWith
  <2> QED
    BY <1>5, <2>1, <2>2 DEF RINGTONE_RDB_VERSION
<1>8. SetDb(db)
  BY <1>2, <1>4, <1>5, Zenon
<1>9. /\ work.open = "el1" => dbs'.el1 = db /\ dbs'.el2 = dbs.el2
      /\ work.open = "el2" => dbs'.el2 = db /\ dbs'.el1 = dbs.el1
  BY <1>1, <1>7, <1>8, SetDbIs DEF UsedDb
<1>10. (dbs'.el1 = db => Stage(dbs.el1)') /\ (dbs'.el2 = db => Stage(dbs.el2)')
  <2>1. Stage(old)
    BY <1>1, <1>2, <1>4, OpenStage
  <2>2. PICK p \in FirstOf(old.version) .. 23 : Progress(old, p) /\ work.todo = SubSeq(UpgradeExtension, p, 22)
    BY <1>2, <2>1, Zenon DEF Stage
  <2>3. p = 23
    <3> DEFINE v == old.version
               w == work.todo
    <3> HIDE DEF v, w
    <3>1. v \in 0 .. 13 => FirstOf(v) \in 1 .. 23
      BY FirstIs
    <3>2. v \in 0 .. 13
      BY <1>6 DEF UsedDb, IsDb, DbOK, RINGTONE_RDB_VERSION, v
    <3>3. p \in FirstOf(v) .. 23
      BY <2>2 DEF v
    <3> DEFINE n == FirstOf(v)
    <3>4. n \in 1 .. 23 /\ p \in n .. 23
      BY <3>1, <3>2, <3>3
    <3> HIDE DEF n
    <3>5. p \in 1 .. 23
      BY <3>4
    <3>6. w = <<>> /\ w = SubSeq(UpgradeExtension, p, 22)
      BY <1>2, <2>2 DEF w
    <3>7. p \notin 1 .. 22
      BY <3>6, LeftFrom, Zenon
    <3> QED
      BY <3>5, <3>7
  <2>4. Progress(old, 23)
    BY <2>2, <2>3
  <2>5. /\ Whole(old, files, 23)
        /\ Untouched => Chosen(Found.rows, old.rows)
        /\ crashes = 0 => DefaultsAt(old.conf, old.rows, Found.version, 23)
    <3>1. phase \notin After
      BY <1>2 DEF After
    <3> QED
      BY <2>4, <3>1, Zenon DEF Progress
  <2>6. /\ Whole(db, files', 23)
        /\ Untouched' => Chosen(Found.rows, db.rows)
        /\ crashes' = 0 => DefaultsAt(db.conf, db.rows, Found.version, 23)
    BY <1>2, <1>7, <2>5, Zenon DEF Whole, Untouched
  <2>7. FirstOf(db.version) = 23
    BY <1>7, FirstIs
  <2>8. phase' # "upgrade"
    BY <1>2
  <2>9. 23 \in FirstOf(db.version) .. 23
    BY <2>7
  <2> QED
    BY <2>6, <2>7, <2>8, <2>9, StageIs
<1>11. CASE StaysInEl1 /\ work.open = "el1"
  <2>1. phase' = "defaults" /\ dbs'.el1 = db
    BY <1>2, <1>9, <1>11
  <2>2. StaysInEl1'
    BY <1>2, <1>7, <1>11, <2>1 DEF StaysInEl1, Stays
  <2> QED
    BY <1>3, <1>10, <2>1, <2>2, Zenon DEF Upgraded
<1>12. CASE StillInEl2 /\ work.open = "el2"
  <2>1. phase' = "backup" /\ dbs'.el2 = db
    BY <1>2, <1>9, <1>12
  <2>2. StillInEl2' /\ phase' # "moved"
    BY <1>2, <1>12, <2>1 DEF StillInEl2
  <2> QED
    BY <1>3, <1>10, <2>1, <2>2, Zenon DEF Upgraded
<1> QED
  BY <1>1, <1>2, <1>11, <1>12, OpenStage

(* A process that dies leaves the database where it was, but for what the steps after its     *)
(* version will do again.                                                                     *)
LEMMA StageAgain ==
    ASSUME Ready, Dies, files' = files, NEW db, IsDb(db), NEW p \in FirstOf(db.version) .. 23,
           Whole(db, files, p), Untouched => Chosen(Found.rows, db.rows)
    PROVE  (dbs'.el1 = db => Stage(dbs.el1)') /\ (dbs'.el2 = db => Stage(dbs.el2)')
<1>1. phase' = "off" /\ crashes' # 0
  BY DEF Dies, Ready, TypeInv, Counted
<1>2. history'.runs = history.runs /\ history'.chosen = history.chosen
  BY DEF Dies, Ready, TypeInv, Memory, HistoryOK
<1>3. PICK v : v = db.version
  OBVIOUS
<1>4. PICK n : n = FirstOf(v)
  OBVIOUS
<1>5. n \in 1 .. 23 /\ p \in n .. 23 /\ p \in 1 .. 23
  <2>1. v \in 0 .. 13
    BY <1>3 DEF IsDb, DbOK, RINGTONE_RDB_VERSION
  <2>2. n \in 1 .. 23
    BY <1>4, <2>1, FirstIs
  <2>3. p \in n .. 23
    BY <1>3, <1>4
  <2> QED
    BY <2>2, <2>3
<1>6. Whole(db, files', n)
  BY <1>5, WholeBefore
<1>7. Untouched' => Chosen(Found.rows, db.rows)
  BY <1>2 DEF Untouched
<1>8. n \in FirstOf(db.version) .. 23 /\ n = FirstOf(db.version)
  <2>1. n \in n .. 23
    BY <1>5
  <2> QED
    BY <1>3, <1>4, <2>1, Zenon
<1>9. /\ crashes' = 0 /\ phase' \notin After \ {"defaults"} => DefaultsAt(db.conf, db.rows, Found.version, n)
      /\ IF phase' = "upgrade" THEN work'.todo = SubSeq(UpgradeExtension, n, 22) ELSE n = FirstOf(db.version)
  BY <1>1, <1>8
<1> QED
  BY <1>6, <1>7, <1>8, <1>9, StageIs

LEMMA DiesAside ==
    ASSUME Ready, Dies
    PROVE  Aside'
<1>1. phase' = "off" /\ scan' = NoScan /\ \A c \in Clients : clients'[c] = <<>>
  BY DEF Dies
<1>2. history'.runs = history.runs
  BY DEF Dies, Ready, TypeInv, Memory, HistoryOK
<1> QED
  BY <1>1, <1>2, AsideEarly

LEMMA DiesStays ==
    ASSUME Ready, Dies, prefs'.completed = prefs.completed \/ ~job.el2Completed,
           dbs'.el1.version = dbs.el1.version
    PROVE  /\ StaysInEl1 => StaysInEl1'
           /\ StillInEl2 => StillInEl2' /\ phase' # "moved"
<1>1. phase' = "off" /\ work' = NoWork /\ job.crashes # 0
  BY JobIs DEF Dies, IsJob, Ready, TypeInv, Counted
<1>2. work'.open = "el1"
  BY <1>1 DEF NoWork
<1> QED
  BY <1>1, <1>2 DEF StaysInEl1, StillInEl2, Stays, Ready

LEMMA MidUpgrades ==
    ASSUME Ready, Mid
    PROVE  Upgraded' /\ Aside'
<1>1. TypeInv /\ Upgraded
  BY DEF Ready
<1>2. /\ phase = "upgrade" /\ UNCHANGED <<job, files, folder>>
      /\ \/ prefs' = prefs
         \/ At("scanAgain") /\ prefs' = [prefs EXCEPT !.completed = FALSE]
         \/ prefs' = [prefs EXCEPT !.eSimTime = "recent"]
  BY <1>1, MidPasses
<1>3. PICK old : old = Db
  OBVIOUS
<1>4. PICK p \in FirstOf(old.version) .. 23 : Progress(old, p) /\ work.todo = SubSeq(UpgradeExtension, p, 22)
  <2>1. Stage(old)
    BY <1>1, <1>2, <1>3, OpenStage
  <2> QED
    BY <1>2, <2>1, Zenon DEF Stage
<1>5. old.version \in 1 .. 13 /\ p \in 1 .. 23
  <2>1. UsedDb(old)
    BY <1>1, <1>2, <1>3, OpenDb
  <2> DEFINE v == old.version
  <2> HIDE DEF v
  <2>2. v \in 1 .. 13
    BY <2>1, DbParts DEF RINGTONE_RDB_VERSION, v
  <2>3. v \in 0 .. 13 => FirstOf(v) \in 1 .. 23
    BY FirstIs
  <2> DEFINE n == FirstOf(v)
  <2>4. n \in 1 .. 23 /\ p \in n .. 23
    BY <1>4, <2>2, <2>3 DEF v
  <2> HIDE DEF n
  <2>5. p \in 1 .. 23
    BY <2>4
  <2> QED
    BY <2>2, <2>5 DEF v
<1>6. Due(p)
  <2>1. Whole(Db, files, p)
    BY <1>3, <1>4, Zenon DEF Progress
  <2> QED
    BY <1>1, <1>2, <1>4, <2>1 DEF Due, Ready
<1>7. PICK db : Reaches(db, p)
  BY <1>5, <1>6, MidReaches
<1>8. /\ UsedDb(db) /\ db.version = old.version /\ SetDb(db)
      /\ Chosen(Found.rows, old.rows) => Chosen(Found.rows, db.rows)
      /\ \/ Dies /\ Whole(db, files, p)
         \/ \E q \in p .. 23 :
              /\ Goes(q) /\ Whole(db, files, q)
              /\ DefaultsAt(old.conf, old.rows, Found.version, p)
                    => DefaultsAt(db.conf, db.rows, Found.version, q)
  BY <1>3, <1>7, Zenon DEF Reaches
<1>9. /\ work.open = "el1" => dbs'.el1 = db /\ dbs'.el2 = dbs.el2
      /\ work.open = "el2" => dbs'.el2 = db /\ dbs'.el1 = dbs.el1
  BY <1>1, <1>8, SetDbIs DEF UsedDb
<1>10. phase \notin After
  BY <1>2 DEF After
<1>11. /\ Untouched => Chosen(Found.rows, old.rows)
       /\ crashes = 0 => DefaultsAt(old.conf, old.rows, Found.version, p)
  BY <1>4, <1>10, Zenon DEF Progress
<1>12. p \in FirstOf(db.version) .. 23
  BY <1>4, <1>8, Zenon
<1>13. dbs'.el1.version = dbs.el1.version
  <2>1. work.open = "el1" => Db = dbs.el1
    BY <1>1, OpenDb
  <2>2. work.open \in {"el1", "el2"}
    BY <1>1, OpenDb
  <2> QED
    BY <1>3, <1>8, <1>9, <2>1, <2>2, Zenon
<1>14. prefs \in [completed : BOOLEAN, initScanner : BOOLEAN, eSimTime : {"none", "recent", "old"}]
  BY <1>1 DEF TypeInv, Stored
<1>15. /\ prefs'.completed => prefs.completed
       /\ ~At("scanAgain") => prefs'.completed = prefs.completed
  BY <1>2, <1>14
<1>16. work.todo \in Seq(LaterSteps) => ~At("scanAgain")
  <2> DEFINE w == work.todo
  <2>1. w # <<>> /\ (At("scanAgain") => Head(w)[2] = "scanAgain")
    BY SomeStepIsLeft DEF At
  <2> HIDE DEF w
  <2>2. w \in Seq(LaterSteps) => ~At("scanAgain")
    BY <2>1, LaterIsNotScan
  <2> QED
    BY <2>2 DEF w
<1>17. CASE Dies /\ Whole(db, files, p)
  <2>1. Untouched => Chosen(Found.rows, db.rows)
    BY <1>8, <1>11, Zenon
  <2>2. IsDb(db) /\ files' = files
    BY <1>2, <1>8 DEF UsedDb
  <2>3. (dbs'.el1 = db => Stage(dbs.el1)') /\ (dbs'.el2 = db => Stage(dbs.el2)')
    BY <1>12, <1>17, <2>1, <2>2, StageAgain
  <2>4. Aside'
    BY <1>17, DiesAside
  <2>5. job.crashes # 0
    BY <1>1, <1>17, JobIs DEF Dies, IsJob, TypeInv, Counted
  <2>6. prefs'.completed = prefs.completed \/ ~job.el2Completed
    <3>1. prefs.completed \in BOOLEAN /\ prefs'.completed \in BOOLEAN
      BY <1>2, <1>14
    <3>2. CASE StaysInEl1
      BY <1>2, <1>15, <1>16, <2>5, <3>2 DEF StaysInEl1, Stays
    <3>3. CASE StillInEl2
      BY <1>15, <3>1, <3>3 DEF StillInEl2
    <3> QED
      BY <1>1, <3>2, <3>3 DEF Upgraded
  <2>7. /\ StaysInEl1 => StaysInEl1'
        /\ StillInEl2 => StillInEl2' /\ phase' # "moved"
    BY <1>13, <1>17, <2>6, DiesStays
  <2>8. \/ StaysInEl1 /\ dbs'.el1 = db
        \/ StillInEl2 /\ dbs'.el2 = db
    BY <1>1, <1>2, <1>9, OpenStage
  <2> QED
    BY <2>3, <2>4, <2>7, <2>8, Zenon DEF Upgraded
<1>18. ASSUME NEW q \in p .. 23, Goes(q), Whole(db, files, q),
              DefaultsAt(old.conf, old.rows, Found.version, p) => DefaultsAt(db.conf, db.rows, Found.version, q)
       PROVE  Upgraded' /\ Aside'
  <2>1. /\ phase' = "upgrade" /\ work' = [work EXCEPT !.todo = SubSeq(UpgradeExtension, q, 22)]
        /\ UNCHANGED <<scan, clients, crashes>>
        /\ history'.chosen = history.chosen /\ history'.runs = history.runs
    BY <1>18, Zenon DEF Goes
  <2>2. PICK todo : todo = SubSeq(UpgradeExtension, q, 22)
    OBVIOUS
  <2>3. work'.open = work.open /\ work'.todo = todo
    BY <1>1, <2>1, <2>2 DEF TypeInv, Memory, WorkOK
  <2>4. Aside'
    <3>1. phase' \notin {"makeDir", "moveBack", "copy", "save"}
      BY <2>1
    <3> QED
      BY <1>10, <2>1, <3>1, NothingBeside, AsideEarly
  <2>5. (dbs'.el1 = db => Stage(dbs.el1)') /\ (dbs'.el2 = db => Stage(dbs.el2)')
    <3>1. q \in FirstOf(db.version) .. 23
      <4> DEFINE v == old.version
      <4> HIDE DEF v
      <4>1. v \in 0 .. 13 => FirstOf(v) \in 1 .. 23
        BY FirstIs
      <4>2. v \in 0 .. 13
        BY <1>5 DEF v
      <4> DEFINE n == FirstOf(v)
      <4>3. n \in 1 .. 23 /\ p \in n .. 23
        BY <1>4, <4>1, <4>2 DEF v
      <4> HIDE DEF n
      <4>4. q \in n .. 23
        BY <1>18, <4>3
      <4> QED
        BY <1>8, <4>4, Zenon DEF n, v
    <3>2. /\ Untouched' => Chosen(Found.rows, db.rows)
          /\ crashes' = 0 => DefaultsAt(db.conf, db.rows, Found.version, q)
      BY <1>8, <1>11, <1>18, <2>1, Zenon DEF Untouched
    <3>3. IF phase' = "upgrade" THEN work'.todo = SubSeq(UpgradeExtension, q, 22) ELSE q = FirstOf(db.version)
      BY <2>1, <2>2, <2>3, Zenon
    <3>4. Whole(db, files', q)
      BY <1>2, <1>18, Zenon
    <3> QED
      BY <3>1, <3>2, <3>3, <3>4, StageIs
  <2>6. work.todo \in Seq(LaterSteps) => todo \in Seq(LaterSteps)
    <3>1. Passed /\ work.todo # <<>>
      BY <1>1, MidPasses, SomeStepIsLeft
    <3>2. PICK next \in {Tail(work.todo), SubSeq(work.todo, 7, Len(work.todo))} : Advanced(next)
      BY <2>1, <3>1 DEF Passed, Dies
    <3>3. work' = [work EXCEPT !.todo = next]
      BY <3>2 DEF Advanced
    <3>4. work'.todo = next
      BY <1>1, <3>3 DEF TypeInv, Memory, WorkOK
    <3> DEFINE w == work.todo
    <3>5. w # <<>> /\ todo \in {Tail(w), SubSeq(w, 7, Len(w))}
      BY <2>3, <3>1, <3>2, <3>4
    <3> HIDE DEF w
    <3>6. w \in Seq(LaterSteps) => todo \in Seq(LaterSteps)
      BY <3>5, LaterIsNotScan
    <3> QED
      BY <3>6 DEF w
  <2>7. CASE StaysInEl1 /\ work.open = "el1"
    <3>1. StaysInEl1'
      BY <1>2, <1>13, <1>15, <1>16, <2>1, <2>3, <2>6, <2>7 DEF StaysInEl1, Stays
    <3> QED
      BY <1>9, <2>4, <2>5, <2>7, <3>1, Zenon DEF Upgraded
  <2>8. CASE StillInEl2 /\ work.open = "el2"
    <3>1. StillInEl2' /\ phase' # "moved"
      BY <1>2, <1>15, <2>1, <2>3, <2>8 DEF StillInEl2
    <3> QED
      BY <1>9, <2>4, <2>5, <2>8, <3>1, Zenon DEF Upgraded
  <2> QED
    BY <1>1, <1>2, <2>7, <2>8, OpenStage
<1> QED
  BY <1>8, <1>17, <1>18

LEMMA CrashUpgrades ==
    ASSUME Ready, Crash
    PROVE  Upgraded' /\ Aside'
<1>1. Dies /\ phase # "off" /\ UNCHANGED <<job, dbs, prefs, files>>
  BY DEF Crash
<1>2. Aside'
  BY <1>1, DiesAside
<1>3. DbsOK(dbs)
  BY DEF Ready, TypeInv, Stored
<1>4. ASSUME NEW db, IsDb(db), Stage(db)
      PROVE  (dbs'.el1 = db => Stage(dbs.el1)') /\ (dbs'.el2 = db => Stage(dbs.el2)')
  <2>1. PICK p \in FirstOf(db.version) .. 23 : Progress(db, p)
    BY <1>4, Zenon DEF Stage
  <2>2. Whole(db, files, p) /\ (Untouched => Chosen(Found.rows, db.rows))
    BY <2>1, Zenon DEF Progress
  <2> QED
    BY <1>1, <1>4, <2>2, StageAgain
<1>5. (Stage(dbs.el1) => Stage(dbs.el1)') /\ (Stage(dbs.el2) => Stage(dbs.el2)')
  BY <1>1, <1>3, <1>4, Zenon DEF DbsOK
<1>6. /\ StaysInEl1 => StaysInEl1'
      /\ StillInEl2 => StillInEl2' /\ phase' # "moved"
  BY <1>1, DiesStays
<1> QED
  BY <1>2, <1>5, <1>6, Zenon DEF Ready, Upgraded

-----------------------------------------------------------------------------
(* From the upgrade on, nothing of a whole database is lost *)

LEMMA AfterIs ==
    ASSUME Ready, phase \in After
    PROVE  /\ StaysInEl1 /\ Whole(dbs.el1, files, 23)
           /\ Untouched => Chosen(Found.rows, rows)
<1>1. StaysInEl1 /\ Stage(dbs.el1)
  BY DEF Ready, Upgraded, StillInEl2, After
<1>2. dbs.el1.version = 13 /\ phase # "upgrade"
  BY DEF Ready, TypeInv, Staged, RINGTONE_RDB_VERSION, After
<1>3. PICK p \in FirstOf(dbs.el1.version) .. 23 : Progress(dbs.el1, p) /\ p = FirstOf(dbs.el1.version)
  BY <1>1, <1>2, Zenon DEF Stage
<1>4. p = 23
  <2>1. FirstOf(dbs.el1.version) = FirstOf(13)
    BY <1>2, Zenon
  <2> QED
    BY <1>3, <2>1, FirstIs
<1>5. Progress(dbs.el1, 23)
  BY <1>3, <1>4
<1> QED
  BY <1>1, <1>5, Zenon DEF Progress, rows

LEMMA AfterUpgrades ==
    ASSUME Ready, Onward, phase' # "defaults", phase' = "off" => crashes' # 0,
           Whole(dbs.el1, files, 23)', Untouched' => Chosen(Found.rows, dbs'.el1.rows)
    PROVE  Upgraded'
<1>1. work'.open = "el1" /\ phase' \notin {"backup", "moved", "upgrade"}
  <2>1. NoWork.open = "el1"
    BY DEF NoWork
  <2>2. work'.open = "el1"
    BY <2>1, Zenon DEF Onward
  <2> QED
    BY <2>2 DEF Onward, After
<1>2. StaysInEl1'
  <2>1. StaysInEl1
    BY AfterIs DEF Onward
  <2> QED
    BY <1>1, <2>1 DEF Onward, StaysInEl1, Stays, After
<1>3. PICK db : db = dbs'.el1
  OBVIOUS
<1>4. Stage(dbs.el1)'
  <2>1. db.version = 13
    BY <1>3 DEF Onward, Ready, TypeInv, Staged, RINGTONE_RDB_VERSION
  <2>2. FirstOf(db.version) = 23
    BY <2>1, FirstIs
  <2>3. 23 \in FirstOf(db.version) .. 23
    BY <2>2
  <2>4. Whole(db, files', 23)
    BY <1>3, Zenon DEF Onward
  <2>5. Untouched' => Chosen(Found.rows, db.rows)
    BY <1>3, Zenon
  <2>6. /\ crashes' = 0 /\ phase' \notin After \ {"defaults"} => DefaultsAt(db.conf, db.rows, Found.version, 23)
        /\ IF phase' = "upgrade" THEN work'.todo = SubSeq(UpgradeExtension, 23, 22) ELSE 23 = FirstOf(db.version)
    BY <1>1, <2>2 DEF Onward
  <2> QED
    BY <1>3, <2>3, <2>4, <2>5, <2>6, StageIs
<1> QED
  BY <1>2, <1>4, Zenon DEF Upgraded

LEMMA EndsUpgrades ==
    ASSUME Ready, phase \in After, NEW done,
           NEW next \in After \ {"defaults", "makeDir", "moveBack", "copy", "save"}, NEW memory, memory.open = "el1",
           Ends(done, next, memory), UNCHANGED <<job, prefs>>,
           dbs'.el1.version = dbs.el1.version, dbs'.el2 = dbs.el2,
           Whole(dbs.el1, files, 23)', Untouched => Chosen(Found.rows, dbs'.el1.rows),
           \A t \in DOMAIN rows : t \in DOMAIN dbs'.el1.rows /\ dbs'.el1.rows[t].source = rows[t].source
    PROVE  Upgraded' /\ Aside'
<1>1. Onward /\ (phase' = next \/ phase' = "off")
  BY EndsOnward DEF Ready
<1>2. phase' # "defaults"
  BY <1>1 DEF After
<1>3. CASE phase' = next /\ work' = memory /\ UNCHANGED <<first, known, others, crashes>>
  <2>1. UNCHANGED <<scan, clients, history>>
    BY <1>3 DEF others
  <2>2. phase' \notin {"off", "makeDir", "moveBack", "copy", "save"}
    BY <1>3 DEF After
  <2>3. FilesOK(dbs.el1.rows)'
    BY <2>2 DEF FilesOK
  <2>4. Aside'
    BY <1>2, <2>1, <2>3, AsideOn
  <2>5. Untouched' => Chosen(Found.rows, dbs'.el1.rows)
    BY <2>1, Zenon DEF Untouched
  <2>6. phase' = "off" => crashes' # 0
    BY <2>2
  <2> QED
    BY <1>1, <1>2, <2>4, <2>5, <2>6, AfterUpgrades
<1>4. CASE Dies
  <2>1. Aside' /\ phase' = "off" /\ crashes' # 0
    <3>1. Aside'
      BY <1>4, DiesAside
    <3>2. phase' = "off" /\ crashes' = crashes + 1
      BY <1>4 DEF Dies
    <3> QED
      BY <3>1, <3>2 DEF Ready, TypeInv, Counted
  <2>2. Untouched' => Untouched
    BY <1>4 DEF Untouched, Dies, Ready, TypeInv, Memory, HistoryOK
  <2> QED
    BY <1>1, <1>2, <2>1, <2>2, AfterUpgrades
<1> QED
  BY <1>3, <1>4 DEF Ends

LEMMA CalmUpgrades ==
    ASSUME Ready, phase \in After, phase' \in After \ {"defaults"}, work'.open = "el1", UNCHANGED <<scan, clients>>,
           history'.chosen = history.chosen, history'.runs = history.runs,
           prefs'.completed = prefs.completed, dbs'.el1.version = dbs.el1.version, dbs'.el2 = dbs.el2,
           Whole(dbs.el1, files, 23)', Untouched => Chosen(Found.rows, dbs'.el1.rows),
           \A t \in DOMAIN rows : t \in DOMAIN dbs'.el1.rows /\ dbs'.el1.rows[t].source = rows[t].source,
           FilesOK(dbs.el1.rows)'
    PROVE  Upgraded' /\ Aside'
<1>1. Onward
  BY DEF Onward, Ready
<1>2. Aside'
  BY AsideOn
<1>3. Untouched' => Chosen(Found.rows, dbs'.el1.rows)
  BY Zenon DEF Untouched
<1>4. phase' # "defaults" /\ phase' # "off"
  BY DEF After
<1> QED
  BY <1>1, <1>2, <1>3, <1>4, AfterUpgrades

(* Where the database, or its rows alone, change *)
LEMMA RowsAre ==
    \A R, F : RowsAt(R, F, 23) <=>
        \A t \in DOMAIN R : /\ R[t].mime /\ R[t].media
                            /\ R[t].place = "misplaced" => R[t].source = "customised" /\ <<t, "new">> \notin F
BY DEF RowsAt

LEMMA El1Rows ==
    ASSUME Ready, phase \in After, NEW R, Table(R), dbs' = [dbs EXCEPT !.el1.rows = R], RowsAt(R, files', 23)
    PROVE  /\ Whole(dbs.el1, files, 23)' /\ dbs'.el1.rows = R /\ dbs'.el1.version = dbs.el1.version
           /\ dbs'.el2 = dbs.el2
<1>1. DbsOK(dbs) /\ UsedDb(dbs.el1)
  BY InUse DEF Ready
<1>2. Whole(dbs.el1, files, 23)
  BY AfterIs
<1>3. PICK db : db = dbs.el1
  OBVIOUS
<1>4. PICK new : new = [db EXCEPT !.rows = R]
  OBVIOUS
<1>5. /\ new.version = db.version /\ new.schema = db.schema /\ new.rows = R
      /\ new.conf = db.conf /\ new.sims = db.sims /\ new.vibrations = db.vibrations
  BY <1>1, <1>3, <1>4, DbFields
<1>6. dbs'.el1 = new /\ dbs'.el2 = dbs.el2
  BY <1>1, <1>3, <1>4 DEF DbsOK
<1>7. Whole(new, files', 23)
  BY <1>2, <1>3, <1>5, Zenon DEF Whole
<1> QED
  BY <1>3, <1>5, <1>6, <1>7, Zenon

LEMMA El1Same ==
    ASSUME Ready, phase \in After, dbs' = dbs, RowsAt(rows, files', 23)
    PROVE  Whole(dbs.el1, files, 23)'
<1>1. Whole(dbs.el1, files, 23)
  BY AfterIs
<1> QED
  BY <1>1, Zenon DEF Whole, rows

LEMMA TunedRows == ASSUME NEW R, NEW new, NEW F, Tuned(R, new), RowsAt(R, F, 23) PROVE RowsAt(new, F, 23)
BY RowsAre DEF Tuned, SameTone

-----------------------------------------------------------------------------
(* The folder of the user's tones, and what OnStart does after it *)

LEMMA MovedFrom ==
    ASSUME Ready, NEW from, NEW to, NEW gone, gone \subseteq In(from), NEW t, <<t, to>> \in Moved(gone, to)
    PROVE  <<t, from>> \in files
<1>1. PICK f \in gone : <<f[1], to>> = <<t, to>>
  BY DEF Moved
<1>2. f \in files /\ f[2] = from /\ f[1] = t
  BY <1>1 DEF In
<1>3. f \in Paths \X {"old", "new", "tmp"}
  BY <1>2 DEF Ready, TypeInv, Stored
<1>4. f = <<f[1], f[2]>>
  BY <1>3
<1> QED
  BY <1>2, <1>4

LEMMA FolderUpgrades ==
    ASSUME Ready, CheckRingtoneDbDefaultSettings \/ AccessRingtoneDir \/ CreatePreloadFolder
    PROVE  Upgraded' /\ Aside'
<1>1. /\ UNCHANGED <<job, scan, clients, history, dbs, work>>
      /\ phase \in {"defaults", "dir", "makeDir"} /\ phase' \in {"dir", "scan", "makeDir", "moveBack"}
  BY DEF CheckRingtoneDbDefaultSettings, AccessRingtoneDir, CreatePreloadFolder, Calm, Then, others
<1>2. phase \in After /\ phase' \in After \ {"defaults"} /\ phase' \notin {"copy", "save"}
  BY <1>1 DEF After
<1>3. prefs'.completed = prefs.completed
  <2>1. CASE CheckRingtoneDbDefaultSettings
    <3> DEFINE b == prefs.initScanner \/ \E x \in DOMAIN dbs.el1.conf :
                        x = <<"ring", "SIM1">> /\ dbs.el1.conf[x] # "null"
    <3>1. prefs' = [prefs EXCEPT !.initScanner = b] \/ prefs' = prefs
      BY <2>1, Zenon DEF CheckRingtoneDbDefaultSettings
    <3> HIDE DEF b
    <3> QED
      BY <3>1 DEF Ready, TypeInv, Stored
  <2>2. CASE AccessRingtoneDir \/ CreatePreloadFolder
    BY <2>2 DEF AccessRingtoneDir, CreatePreloadFolder
  <2> QED
    BY <2>1, <2>2
<1>4. \/ files' = files /\ phase' \in {"dir", "scan"}
      \/ files' = files /\ phase' = "moveBack" /\ phase = "makeDir"
      \/ /\ files' = (files \ In("new")) \cup Moved(In("new"), "tmp")
         /\ phase' = "makeDir" /\ In("tmp") = {}
  <2>1. ~Fails
    BY NoFailure
  <2> QED
    BY <2>1 DEF CheckRingtoneDbDefaultSettings, AccessRingtoneDir, CreatePreloadFolder, Then
<1>5. \A t : <<t, "new">> \in files' => <<t, "new">> \in files
  BY <1>4 DEF In, Moved
<1>6. ASSUME NEW t, phase' = "makeDir", <<t, "tmp">> \in files' PROVE <<t, "new">> \in files
  <2>1. <<t, "tmp">> \in files \ In("new") \/ <<t, "tmp">> \in Moved(In("new"), "tmp")
    BY <1>4, <1>6
  <2>2. <<t, "tmp">> \notin files
    BY <1>4, <1>6 DEF In
  <2> QED
    BY <2>1, <2>2, MovedFrom
<1>7. RowsAt(rows, files, 23)
  BY <1>2, AfterIs DEF Whole, rows
<1>8. RowsAt(rows, files', 23)
  BY <1>5, <1>7, RowsAre
<1>9. Whole(dbs.el1, files, 23)'
  BY <1>1, <1>2, <1>8, El1Same
<1>10. FilesOK(dbs.el1.rows)'
  <2>1. \A t \in DOMAIN rows : rows[t].place = "misplaced" => <<t, "new">> \notin files
    BY <1>7, RowsAre
  <2>2. phase = "makeDir" => \A t \in DOMAIN rows : rows[t].place = "misplaced" => <<t, "tmp">> \notin files
    BY DEF Ready, Aside, FilesOK, rows
  <2>3. phase' \in {"makeDir", "moveBack"} =>
            \A t \in DOMAIN rows : rows[t].place = "misplaced" => <<t, "tmp">> \notin files'
    BY <1>4, <1>6, <2>1, <2>2
  <2> QED
    BY <1>1, <1>2, <2>3 DEF FilesOK, rows
<1>11. work'.open = "el1" /\ (Untouched => Chosen(Found.rows, dbs'.el1.rows))
  BY <1>1, <1>2, AfterIs, InUse DEF Ready, rows
<1>12. \A t \in DOMAIN rows : t \in DOMAIN dbs'.el1.rows /\ dbs'.el1.rows[t].source = rows[t].source
  BY <1>1 DEF rows
<1>13. dbs'.el1.version = dbs.el1.version /\ dbs'.el2 = dbs.el2
  BY <1>1
<1> QED
  BY <1>1, <1>2, <1>3, <1>9, <1>10, <1>11, <1>12, <1>13, CalmUpgrades

LEMMA MoveBackUpgrades ==
    ASSUME Ready, MoveDirectory
    PROVE  Upgraded' /\ Aside'
<1>1. phase = "moveBack" /\ phase \in After /\ UNCHANGED <<job, dbs, prefs, folder>>
  BY DEF MoveDirectory, After
<1>2. PICK gone \in SUBSET In("tmp") :
        files' = (files \ gone) \cup Moved(gone, "new") /\ Ends(gone = In("tmp"), "scan", work)
  BY DEF MoveDirectory
<1>3. work.open = "el1" /\ (Untouched => Chosen(Found.rows, rows)) /\ RowsAt(rows, files, 23)
  BY <1>1, InUse, AfterIs DEF Ready, Whole, rows
<1>4. RowsAt(rows, files', 23)
  <2>1. \A t \in DOMAIN rows : rows[t].place = "misplaced" => <<t, "tmp">> \notin files
    BY <1>1 DEF Ready, Aside, FilesOK, rows
  <2>2. \A t : <<t, "new">> \in files' => <<t, "new">> \in files \/ <<t, "tmp">> \in files
    BY <1>2, MovedFrom
  <2> QED
    BY <1>3, <2>1, <2>2, RowsAre
<1>5. Whole(dbs.el1, files, 23)'
  BY <1>1, <1>4, El1Same
<1> DEFINE done == gone = In("tmp")
<1>6. Ends(done, "scan", work) /\ "scan" \in After \ {"defaults", "makeDir", "moveBack", "copy", "save"}
  BY <1>2 DEF After
<1>7. /\ \A t \in DOMAIN rows : t \in DOMAIN dbs'.el1.rows /\ dbs'.el1.rows[t].source = rows[t].source
      /\ Untouched => Chosen(Found.rows, dbs'.el1.rows)
  BY <1>1, <1>3 DEF rows
<1>8. dbs'.el1.version = dbs.el1.version /\ dbs'.el2 = dbs.el2
  BY <1>1
<1> HIDE DEF done
<1> QED
  BY <1>1, <1>3, <1>5, <1>6, <1>7, <1>8, EndsUpgrades

LEMMA ScannerUpgrades ==
    ASSUME Ready, RingtoneScanner \/ WaitFor
    PROVE  Upgraded' /\ Aside'
<1>1. /\ phase \in {"scan", "wait"} /\ UNCHANGED <<job, dbs, prefs, files, clients, crashes>> /\ work' = work
      /\ phase' \in {"paths", "wait"}
      /\ scan' \in {scan, [NoScan EXCEPT !.phase = "walk"]}
      /\ history' = history \/ \E late : history' = [history EXCEPT !.late = late]
  <2>1. CASE RingtoneScanner
    BY <2>1 DEF RingtoneScanner, Then
  <2>2. CASE WaitFor
    BY <2>2 DEF WaitFor, Then, storage
  <2> QED
    BY <2>1, <2>2
<1>2. phase \in After /\ phase' \in After \ {"defaults"} /\ phase' \notin {"off", "makeDir", "moveBack", "copy", "save"}
  BY <1>1 DEF After
<1>3. history'.chosen = history.chosen /\ history'.runs = history.runs
  BY <1>1 DEF Ready, TypeInv, Memory, HistoryOK
<1>4. work'.open = "el1" /\ (Untouched => Chosen(Found.rows, rows)) /\ RowsAt(rows, files, 23)
  BY <1>1, <1>2, InUse, AfterIs DEF Ready, Whole, rows
<1>5. Whole(dbs.el1, files, 23)'
  BY <1>1, <1>2, <1>4, El1Same
<1>6. Onward
  BY <1>1, <1>2, <1>4 DEF Onward, Ready
<1>7. Untouched' => Chosen(Found.rows, dbs'.el1.rows)
  BY <1>1, <1>3, <1>4 DEF Untouched, rows
<1>8. phase' # "defaults" /\ (phase' = "off" => crashes' # 0)
  BY <1>2
<1>9. Upgraded'
  BY <1>5, <1>6, <1>7, <1>8, AfterUpgrades
<1>10. Aside'
  <2>1. CASE scan' = scan
    <3>1. FilesOK(dbs.el1.rows)'
      BY <1>2 DEF FilesOK
    <3>2. \A t \in DOMAIN rows : t \in DOMAIN dbs'.el1.rows /\ dbs'.el1.rows[t].source = rows[t].source
      BY <1>1 DEF rows
    <3> QED
      BY <1>1, <1>2, <1>3, <2>1, <3>1, <3>2, AsideOn
  <2>2. CASE scan' = [NoScan EXCEPT !.phase = "walk"]
    <3>1. scan'.phase = "walk" /\ scan'.buffer.rows = <<>>
      BY <2>2 DEF NoScan
    <3>2. BufferOK(scan.buffer.rows)'
      BY <3>1 DEF BufferOK
    <3>3. Untouched' => Untouched
      BY <1>3 DEF Untouched
    <3>4. Untouched' => \A c \in Clients : clients'[c] \in {<<>>, <<Reset>>}
      BY <1>1, <3>3 DEF Ready, Aside
    <3>5. history'.runs \in Nat
      BY <1>3 DEF Ready, Aside
    <3>6. FilesOK(dbs.el1.rows)' /\ FlushOK(dbs.el1.rows)'
      BY <1>2, <3>1 DEF FilesOK, FlushOK
    <3> QED
      BY <1>2, <3>2, <3>4, <3>5, <3>6 DEF Aside
  <2> QED
    BY <1>1, <2>1, <2>2
<1> QED
  BY <1>9, <1>10

LEMMA QueryUpgrades ==
    ASSUME Ready, QueryOldPaths
    PROVE  Upgraded' /\ Aside'
<1>1. phase = "paths" /\ UNCHANGED <<job, scan, clients, history, dbs, prefs, files>>
  BY DEF QueryOldPaths, Calm, others
<1> DEFINE due == {t \in DOMAIN rows : rows[t].place = "old"}
<1>2. \/ phase' = "ringtones" /\ work' = work
      \/ phase' = "copy" /\ work' = [work EXCEPT !.left = due, !.all = TRUE]
  BY DEF QueryOldPaths, Then
<1>3. phase \in After /\ phase' \in After \ {"defaults"} /\ phase' \notin {"save", "makeDir", "moveBack"}
  BY <1>1, <1>2 DEF After
<1>4. WorkOK(work) /\ work.open = "el1"
  BY <1>3, InUse DEF Ready
<1>5. work'.open = "el1" /\ (phase' = "copy" => work'.left = due)
  <2> HIDE DEF due
  <2> QED
    BY <1>2, <1>4 DEF WorkOK
<1>6. FilesOK(dbs.el1.rows)'
  <2>1. \A t \in due : rows[t].place # "misplaced"
    OBVIOUS
  <2> HIDE DEF due
  <2> QED
    BY <1>1, <1>3, <1>5, <2>1 DEF FilesOK, rows
<1>7. (Untouched => Chosen(Found.rows, rows)) /\ RowsAt(rows, files, 23)
  BY <1>3, AfterIs DEF Whole, rows
<1>8. Whole(dbs.el1, files, 23)'
  BY <1>1, <1>3, <1>7, El1Same
<1>9. /\ \A t \in DOMAIN rows : t \in DOMAIN dbs'.el1.rows /\ dbs'.el1.rows[t].source = rows[t].source
      /\ Untouched => Chosen(Found.rows, dbs'.el1.rows)
      /\ dbs'.el1.version = dbs.el1.version /\ dbs'.el2 = dbs.el2
  BY <1>1, <1>7 DEF rows
<1> HIDE DEF due
<1> QED
  BY <1>1, <1>3, <1>5, <1>6, <1>8, <1>9, CalmUpgrades

LEMMA CopyUpgrades ==
    ASSUME Ready, CopyOldFile
    PROVE  Upgraded' /\ Aside'
<1>1. phase = "copy" /\ UNCHANGED <<job, scan, clients, history, dbs, prefs>>
  BY CopyIs DEF others, Ready
<1>2. PICK q \in work.left, copied \in BOOLEAN :
        /\ phase' = IF copied THEN "save" ELSE "copy"
        /\ work'.open = work.open /\ work'.left = work.left \ {q}
        /\ files' = IF copied THEN files \cup {<<q, "new">>} ELSE files
  BY CopyIs DEF Ready
<1>3. phase \in After /\ phase' \in {"copy", "save"} /\ phase' \in After \ {"defaults"}
  BY <1>1, <1>2 DEF After
<1>4. work.open = "el1" /\ (Untouched => Chosen(Found.rows, rows)) /\ RowsAt(rows, files, 23)
  BY <1>3, InUse, AfterIs DEF Ready, Whole, rows
<1>5. \A t \in work.left \cap DOMAIN rows : rows[t].place # "misplaced"
  BY <1>1 DEF Ready, Aside, FilesOK, rows
<1>6. RowsAt(rows, files', 23)
  <2>1. \A t : <<t, "new">> \in files' => <<t, "new">> \in files \/ t = q
    BY <1>2
  <2> QED
    BY <1>2, <1>4, <1>5, <2>1, RowsAre
<1>7. Whole(dbs.el1, files, 23)'
  BY <1>1, <1>3, <1>6, El1Same
<1>8. FilesOK(dbs.el1.rows)'
  <2>1. work'.left \subseteq work.left
    BY <1>2
  <2> QED
    BY <1>1, <1>3, <1>5, <2>1 DEF FilesOK, rows
<1>9. /\ \A t \in DOMAIN rows : t \in DOMAIN dbs'.el1.rows /\ dbs'.el1.rows[t].source = rows[t].source
      /\ Untouched => Chosen(Found.rows, dbs'.el1.rows)
      /\ dbs'.el1.version = dbs.el1.version /\ dbs'.el2 = dbs.el2
  BY <1>1, <1>4 DEF rows
<1> QED
  BY <1>1, <1>2, <1>3, <1>4, <1>7, <1>8, <1>9, CalmUpgrades

LEMMA UsedRows ==
    ASSUME NEW R, NEW new, NEW F, DOMAIN new = DOMAIN R,
           \A t \in DOMAIN R : /\ SameUse(new[t], R[t])
                               /\ new[t].place = "misplaced" => R[t].place = "misplaced"
    PROVE  /\ Widened(R, new)
           /\ RowsAt(R, F, 23) => RowsAt(new, F, 23)
<1>1. Widened(R, new)
  BY DEF Widened, SameUse
<1>2. RowsAt(R, F, 23) => RowsAt(new, F, 23)
  BY RowsAre DEF SameUse
<1> QED
  BY <1>1, <1>2

LEMMA PathUpgrades ==
    ASSUME Ready, UpdatePath
    PROVE  Upgraded' /\ Aside'
<1> DEFINE q == Head(work.todo)
<1>1. /\ phase = "save" /\ phase' = "copy" /\ work' = [work EXCEPT !.todo = <<>>]
      /\ UNCHANGED <<job, prefs, files, scan, clients>>
      /\ history' = history
  <2>1. ~Fails
    BY NoFailure
  <2> QED
    BY <2>1 DEF UpdatePath
<1>2. PICK R : /\ Table(R) /\ DOMAIN R = DOMAIN rows
               /\ dbs' = [dbs EXCEPT !.el1.rows = R]
               /\ \A t \in DOMAIN rows :
                    /\ SameUse(R[t], rows[t]) /\ R[t].source = rows[t].source
                    /\ R[t] # rows[t] => R[t].place = "new"
  <2>1. TypeInv /\ phase \in After
    BY <1>1 DEF Ready, After
  <2>2. CASE dbs' = dbs
    <3>1. DbsOK(dbs) /\ UsedDb(dbs.el1) /\ Table(rows) /\ rows = dbs.el1.rows
      BY <2>1, InUse
    <3>2. dbs' = [dbs EXCEPT !.el1.rows = rows]
      BY <2>2, <3>1, DbParts DEF DbsOK
    <3>3. \A t \in DOMAIN rows : /\ SameUse(rows[t], rows[t]) /\ rows[t].source = rows[t].source
                                 /\ rows[t] # rows[t] => rows[t].place = "new"
      BY DEF SameUse
    <3> QED
      BY <3>1, <3>2, <3>3, Zenon
  <2>3. \/ \E R : /\ Table(R) /\ DOMAIN R = DOMAIN rows
                  /\ dbs' = [dbs EXCEPT !.el1.rows = R]
                  /\ \A t \in DOMAIN rows :
                    /\ SameUse(R[t], rows[t]) /\ R[t].source = rows[t].source
                    /\ R[t].title = rows[t].title /\ R[t].mark = rows[t].mark
                    /\ t # q => R[t] = rows[t]
                    /\ t = q => R[t].place = "new"
        \/ dbs' = dbs /\ history'.unsaved = history.unsaved \cup {q}
    BY <2>1, PathIs, Zenon DEF q
  <2>4. CASE dbs' # dbs
    <3>1. PICK R : /\ Table(R) /\ DOMAIN R = DOMAIN rows
                   /\ dbs' = [dbs EXCEPT !.el1.rows = R]
                   /\ \A t \in DOMAIN rows :
                        /\ SameUse(R[t], rows[t]) /\ R[t].source = rows[t].source
                        /\ R[t].title = rows[t].title /\ R[t].mark = rows[t].mark
                        /\ t # q => R[t] = rows[t]
                        /\ t = q => R[t].place = "new"
      BY <2>3, <2>4, Zenon
    <3>2. \A t \in DOMAIN rows : /\ SameUse(R[t], rows[t]) /\ R[t].source = rows[t].source
                                 /\ R[t] # rows[t] => R[t].place = "new"
      BY <3>1, Zenon
    <3> QED
      BY <3>1, <3>2, Zenon
  <2> QED
    BY <2>2, <2>4, Zenon
<1> HIDE DEF q
<1>3. phase \in After /\ phase' \in After \ {"defaults"}
  BY <1>1 DEF After
<1>4. work.open = "el1" /\ (Untouched => Chosen(Found.rows, rows)) /\ RowsAt(rows, files, 23)
  BY <1>3, InUse, AfterIs DEF Ready, Whole, rows
<1>5. work'.open = "el1" /\ work'.left = work.left
  <2> DEFINE todo == <<>>
  <2>1. work' = [work EXCEPT !.todo = todo]
    BY <1>1
  <2> HIDE DEF todo
  <2> QED
    BY <1>3, <1>4, <2>1, InUse, WorkWith DEF Ready
<1>6. \A t \in DOMAIN rows : /\ SameUse(R[t], rows[t])
                             /\ R[t].place = "misplaced" => rows[t].place = "misplaced"
  <2>1. \A t \in DOMAIN rows : R[t].place = "misplaced" => R[t] = rows[t]
    <3>1. "new" # "misplaced"
      OBVIOUS
    <3> QED
      BY <1>2, <3>1, Zenon
  <2>2. \A t \in DOMAIN rows : R[t].place = "misplaced" => rows[t].place = "misplaced"
    BY <2>1
  <2> QED
    BY <1>2, <2>2, Zenon
<1>7. Widened(rows, R) /\ RowsAt(R, files', 23)
  BY <1>1, <1>2, <1>4, <1>6, UsedRows
<1>8. Whole(dbs.el1, files, 23)' /\ dbs'.el1.rows = R /\ dbs'.el1.version = dbs.el1.version /\ dbs'.el2 = dbs.el2
  BY <1>2, <1>3, <1>7, El1Rows
<1>9. FilesOK(dbs.el1.rows)'
  <2>1. \A t \in work.left \cap DOMAIN rows : rows[t].place # "misplaced"
    BY <1>1 DEF Ready, Aside, FilesOK, rows
  <2>2. \A t \in work'.left \cap DOMAIN dbs'.el1.rows : dbs'.el1.rows[t].place # "misplaced"
    BY <1>2, <1>5, <1>6, <1>8, <2>1
  <2> QED
    BY <1>1, <2>2 DEF FilesOK
<1>10. /\ \A t \in DOMAIN rows : t \in DOMAIN dbs'.el1.rows /\ dbs'.el1.rows[t].source = rows[t].source
       /\ Untouched => Chosen(Found.rows, dbs'.el1.rows)
  <2>1. Untouched => Chosen(Found.rows, dbs'.el1.rows)
    BY <1>4, <1>7, <1>8, WidenedIs
  <2> QED
    BY <1>2, <1>8, <2>1
<1>11. history'.chosen = history.chosen /\ history'.runs = history.runs /\ prefs'.completed = prefs.completed
  BY <1>1
<1> QED
  BY <1>1, <1>3, <1>5, <1>8, <1>9, <1>10, <1>11, CalmUpgrades

LEMMA RemoveUpgrades ==
    ASSUME Ready, RemoveRingtoneFolder
    PROVE  Upgraded' /\ Aside'
<1>1. phase = "copy" /\ phase \in After /\ UNCHANGED <<job, dbs, prefs>>
  BY DEF RemoveRingtoneFolder, After
<1>2. PICK gone \in SUBSET In("old") :
        /\ files' = files \ gone
        /\ Ends(work.all => gone = In("old"), "ringtones", work)
  BY DEF RemoveRingtoneFolder
<1>3. work.open = "el1" /\ (Untouched => Chosen(Found.rows, rows)) /\ RowsAt(rows, files, 23)
  BY <1>1, InUse, AfterIs DEF Ready, Whole, rows
<1>4. RowsAt(rows, files', 23)
  BY <1>2, <1>3, RowsAre
<1>5. Whole(dbs.el1, files, 23)'
  BY <1>1, <1>4, El1Same
<1> DEFINE done == work.all => gone = In("old")
<1>6. Ends(done, "ringtones", work) /\ "ringtones" \in After \ {"defaults", "makeDir", "moveBack", "copy", "save"}
  BY <1>2 DEF After
<1>7. /\ \A t \in DOMAIN rows : t \in DOMAIN dbs'.el1.rows /\ dbs'.el1.rows[t].source = rows[t].source
      /\ Untouched => Chosen(Found.rows, dbs'.el1.rows)
  BY <1>1, <1>3 DEF rows
<1>8. dbs'.el1.version = dbs.el1.version /\ dbs'.el2 = dbs.el2
  BY <1>1
<1> HIDE DEF done
<1> QED
  BY <1>1, <1>3, <1>5, <1>6, <1>7, <1>8, EndsUpgrades

LEMMA El1Vibrations ==
    ASSUME Ready, phase \in After, files' = files, NEW V, Vibrations(V), dbs' = [dbs EXCEPT !.el1.vibrations = V]
    PROVE  /\ Whole(dbs.el1, files, 23)' /\ dbs'.el1.rows = rows /\ dbs'.el1.version = dbs.el1.version
           /\ dbs'.el2 = dbs.el2
<1>1. DbsOK(dbs) /\ UsedDb(dbs.el1) /\ rows = dbs.el1.rows
  BY InUse DEF Ready
<1>2. Whole(dbs.el1, files, 23)
  BY AfterIs
<1>3. /\ dbs'.el1.version = dbs.el1.version /\ dbs'.el1.schema = dbs.el1.schema /\ dbs'.el1.rows = dbs.el1.rows
      /\ dbs'.el1.conf = dbs.el1.conf /\ dbs'.el1.sims = dbs.el1.sims /\ dbs'.el2 = dbs.el2
  BY <1>1, DbParts DEF DbsOK
<1>4. Clean(dbs.el1.sims) /\ DOMAIN dbs.el1.sims = SimKeys
  BY <1>2 DEF Whole, SimsAt
<1>5. SimsAt(dbs'.el1.sims, dbs'.el1.vibrations, 23)
  <2>1. Clean(dbs'.el1.sims) /\ DOMAIN dbs'.el1.sims = SimKeys
    BY <1>3, <1>4
  <2> QED
    BY <2>1 DEF SimsAt
<1>6. Whole(dbs.el1, files, 23)'
  BY <1>2, <1>3, <1>5, Zenon DEF Whole
<1> QED
  BY <1>1, <1>3, <1>6

LEMMA TitlesUpgrade ==
    ASSUME Ready, UpdateRingtoneLanguage \/ UpdateVibrationLanguage
    PROVE  Upgraded' /\ Aside'
<1>1. UNCHANGED <<job, files, prefs>> /\ phase \in {"ringtones", "vibrations"}
  BY DEF UpdateRingtoneLanguage, UpdateVibrationLanguage, Rest
<1>2. phase \in After /\ TypeInv
  BY <1>1 DEF After, Ready
<1>3. /\ Table(rows) /\ rows = dbs.el1.rows /\ Vibrations(dbs.el1.vibrations)
      /\ WorkOK(work) /\ work.open = "el1"
  BY <1>2, InUse
<1>4. (Untouched => Chosen(Found.rows, rows)) /\ RowsAt(rows, files, 23)
  BY <1>2, AfterIs DEF Whole, rows
<1>5. CASE UpdateRingtoneLanguage
  <2>1. PICK language, due, done :
          /\ language \in job.languages
          /\ dbs' = [dbs EXCEPT !.el1.rows = InLanguage(dbs.el1.rows, done, language)]
          /\ Ends(done = due, "vibrations", [work EXCEPT !.language = language])
    BY <1>5, Zenon DEF UpdateRingtoneLanguage
  <2>2. language \in Languages
    BY <1>2, <2>1, JobIs DEF IsJob
  <2> DEFINE R == InLanguage(dbs.el1.rows, done, language)
             memory == [work EXCEPT !.language = language]
             all == done = due
             next == "vibrations"
  <2>3. dbs' = [dbs EXCEPT !.el1.rows = R] /\ Ends(all, next, memory)
    BY <2>1
  <2>4. /\ Table(R) /\ DOMAIN R = DOMAIN rows
        /\ \A t \in DOMAIN rows : SameUse(R[t], rows[t]) /\ R[t].source = rows[t].source /\ R[t].place = rows[t].place
    BY <1>3, <2>2, LanguageTypes
  <2>5. memory.open = "el1" /\ next \in After \ {"defaults", "makeDir", "moveBack", "copy", "save"}
    BY <1>3 DEF WorkOK, After
  <2> HIDE DEF R, memory, all, next
  <2>6. \A t \in DOMAIN rows : /\ SameUse(R[t], rows[t])
                               /\ R[t].place = "misplaced" => rows[t].place = "misplaced"
    BY <2>4
  <2>7. Widened(rows, R) /\ RowsAt(R, files', 23)
    BY <1>1, <1>4, <2>4, <2>6, UsedRows
  <2>8. Whole(dbs.el1, files, 23)' /\ dbs'.el1.rows = R /\ dbs'.el1.version = dbs.el1.version /\ dbs'.el2 = dbs.el2
    BY <1>2, <2>3, <2>4, <2>7, El1Rows
  <2>9. Untouched => Chosen(Found.rows, dbs'.el1.rows)
    BY <1>4, <2>7, <2>8, WidenedIs
  <2>10. \A t \in DOMAIN rows : t \in DOMAIN dbs'.el1.rows /\ dbs'.el1.rows[t].source = rows[t].source
    BY <2>4, <2>8
  <2> QED
    BY <1>1, <1>2, <2>3, <2>5, <2>8, <2>9, <2>10, EndsUpgrades
<1>6. CASE UpdateVibrationLanguage
  <2>1. PICK due, done :
          /\ dbs' = [dbs EXCEPT !.el1.vibrations = InLanguage(dbs.el1.vibrations, done, work.language)]
          /\ Ends(done = due, "serving", work)
    BY <1>6, Zenon DEF UpdateVibrationLanguage
  <2>2. work.language \in Languages
    BY <1>2, <1>6 DEF UpdateVibrationLanguage, TypeInv, Staged
  <2> DEFINE V == InLanguage(dbs.el1.vibrations, done, work.language)
             all == done = due
             next == "serving"
  <2>3. dbs' = [dbs EXCEPT !.el1.vibrations = V] /\ Ends(all, next, work)
    BY <2>1
  <2>4. Vibrations(V)
    BY <1>3, <2>2, LanguageTypes
  <2>5. next \in After \ {"defaults", "makeDir", "moveBack", "copy", "save"}
    BY DEF After
  <2> HIDE DEF V, all, next
  <2>6. Whole(dbs.el1, files, 23)' /\ dbs'.el1.rows = rows /\ dbs'.el1.version = dbs.el1.version /\ dbs'.el2 = dbs.el2
    BY <1>1, <1>2, <2>3, <2>4, El1Vibrations
  <2>7. /\ Untouched => Chosen(Found.rows, dbs'.el1.rows)
        /\ \A t \in DOMAIN rows : t \in DOMAIN dbs'.el1.rows /\ dbs'.el1.rows[t].source = rows[t].source
    BY <1>4, <2>6
  <2> QED
    BY <1>1, <1>2, <1>3, <2>3, <2>5, <2>6, <2>7, EndsUpgrades
<1> QED
  BY <1>5, <1>6

-----------------------------------------------------------------------------
(* The boot scan *)

(* What the rows a scan has read, and the settings it is to flush, are after a step of its. *)
ToFlush(s, R) ==
    s.phase = "flush" =>
        /\ \A i \in s.cache : i.by = "preset" /\ i.path \in DOMAIN R /\ R[i.path].source = "preset"
        /\ \A step \in s.todo : step.item \in s.cache

LEMMA ScanIs ==
    ASSUME Ready, scan.phase # "idle"
    PROVE  /\ TypeInv /\ phase \in After \ {"defaults"} /\ ScanOK(scan) /\ Table(rows) /\ rows = dbs.el1.rows
           /\ work.open = "el1" /\ Presets(rows) /\ RowsAt(rows, files, 23)
           /\ Untouched => Chosen(Found.rows, rows)
           /\ BufferOK(scan.buffer.rows)
<1>1. TypeInv /\ phase \in After \ {"defaults"} /\ ScanOK(scan)
  BY Scanning DEF Ready, Aside
<1>2. Table(rows) /\ rows = dbs.el1.rows /\ work.open = "el1"
  BY <1>1, InUse
<1>3. Presets(rows) /\ BufferOK(scan.buffer.rows)
  BY <1>2 DEF Ready, FactoryInv, Aside
<1>4. RowsAt(rows, files, 23) /\ (Untouched => Chosen(Found.rows, rows))
  BY <1>1, <1>2, AfterIs DEF Whole
<1> QED
  BY <1>1, <1>2, <1>3, <1>4

LEMMA ScanOn ==
    ASSUME Ready, Apart, scan.phase # "idle", prefs'.completed = prefs.completed, dbs'.el2 = dbs.el2,
           dbs'.el1.version = dbs.el1.version, Whole(dbs.el1, files, 23)',
           Untouched => Chosen(Found.rows, dbs'.el1.rows),
           \A t \in DOMAIN dbs'.el1.rows :
                dbs'.el1.rows[t].place = "misplaced" => t \in DOMAIN rows /\ rows[t].place = "misplaced",
           BufferOK(scan'.buffer.rows), ToFlush(scan', dbs'.el1.rows)
    PROVE  Upgraded' /\ Aside'
<1>1. UNCHANGED <<job, files, phase, work, clients, history, crashes>>
  BY DEF Apart
<1>2. phase \in After \ {"defaults"} /\ work.open = "el1" /\ rows = dbs.el1.rows
  BY ScanIs
<1>3. Onward /\ phase' # "defaults" /\ phase' # "off"
  BY <1>1, <1>2 DEF Onward, After
<1>4. Untouched' <=> Untouched
  BY <1>1 DEF Untouched
<1>5. Upgraded'
  BY <1>3, <1>4, AfterUpgrades
<1>6. FilesOK(dbs.el1.rows)'
  <2>1. FilesOK(rows)
    BY <1>2 DEF Ready, Aside
  <2> QED
    BY <1>1, <2>1 DEF FilesOK
<1>7. FlushOK(dbs.el1.rows)'
  BY DEF FlushOK, ToFlush
<1>8. Found' = Found
  BY NoFailure
<1>9. BufferOK(scan.buffer.rows)'
  BY <1>4, <1>8 DEF BufferOK
<1>10. history'.runs \in Nat /\ (Untouched' => \A c \in Clients : clients'[c] \in {<<>>, <<Reset>>})
  BY <1>1, <1>4 DEF Ready, Aside
<1> QED
  BY <1>3, <1>5, <1>6, <1>7, <1>9, <1>10 DEF Aside

LEMMA ScanOnSame ==
    ASSUME Ready, Apart, scan.phase # "idle", prefs'.completed = prefs.completed, dbs' = dbs,
           BufferOK(scan'.buffer.rows), ToFlush(scan', rows)
    PROVE  Upgraded' /\ Aside'
<1>1. UNCHANGED files
  BY DEF Apart
<1>2. phase \in After /\ RowsAt(rows, files, 23) /\ (Untouched => Chosen(Found.rows, rows)) /\ rows = dbs.el1.rows
  BY ScanIs
<1>3. Whole(dbs.el1, files, 23)'
  BY <1>1, <1>2, El1Same
<1> QED
  BY <1>2, <1>3, ScanOn

LEMMA NothingBuffered == BufferOK(<<>>) /\ BufferOK(NoScan.buffer.rows)
BY DEF BufferOK, NoScan

LEMMA BuildUpgrades ==
    ASSUME Ready, BuildData
    PROVE  Upgraded' /\ Aside'
<1>1. /\ scan.phase = "walk" /\ scan.phase # "idle" /\ Apart /\ UNCHANGED <<dbs, prefs>>
      /\ scan'.phase = "write" /\ scan'.buffer = [rows |-> Built, vibrations |-> BuiltVibrations]
  BY BuildIs DEF Ready
<1>2. /\ Table(rows) /\ Presets(rows) /\ RowsAt(rows, files, 23) /\ (Untouched => Chosen(Found.rows, rows))
  BY <1>1, ScanIs
<1>3. /\ DOMAIN Built = job.factory
      /\ \A t \in job.factory : /\ t \in DOMAIN rows => Built[t] = [rows[t] EXCEPT !.mime = TRUE, !.media = TRUE]
                                /\ t \notin DOMAIN rows => Built[t] = NewTone
  BY DEF Built
<1>4. ASSUME NEW t \in DOMAIN Built
      PROVE  /\ Built[t].mime /\ Built[t].media /\ Built[t].place # "misplaced"
             /\ t \in DOMAIN rows => Built[t].on = rows[t].on /\ Built[t].by = rows[t].by
             /\ t \notin DOMAIN rows => \A k \in Kinds : Built[t].by[k] # "customised"
  <2> DEFINE b == Built[t]
  <2>1. CASE t \in DOMAIN rows
    <3> DEFINE r == rows[t]
    <3>1. b = [r EXCEPT !.mime = TRUE, !.media = TRUE] /\ GoodRow(r) /\ r.place # "misplaced"
      <4>1. rows[t].source = "preset"
        BY <1>2, <1>3, <2>1 DEF Presets
      <4>2. rows[t].place # "misplaced"
        BY <1>2, <2>1, <4>1, RowsAre
      <4> QED
        BY <1>2, <1>3, <2>1, <4>2 DEF Table
    <3> HIDE DEF b, r
    <3>2. b.mime /\ b.media /\ b.place # "misplaced" /\ b.on = r.on /\ b.by = r.by
      BY <3>1 DEF GoodRow, Tone
    <3> QED
      BY <2>1, <3>2, Zenon DEF b, r
  <2>2. CASE t \notin DOMAIN rows
    <3>1. b = NewTone
      BY <1>3, <2>2
    <3> HIDE DEF b
    <3>2. b.mime /\ b.media /\ b.place # "misplaced" /\ \A k \in Kinds : b.by[k] # "customised"
      BY <3>1 DEF NewTone
    <3> QED
      BY <2>2, <3>2, Zenon DEF b
  <2> QED
    BY <2>1, <2>2
<1> HIDE DEF Built
<1>5. BufferOK(Built)
  <2>1. ASSUME Untouched
        PROVE  /\ \A t \in DOMAIN Found.rows \cap DOMAIN Built, k \in Kinds :
                    Found.rows[t].by[k] = "customised" => Found.rows[t].on[k] \subseteq Built[t].on[k]
               /\ \A t \in DOMAIN Built, k \in Kinds : Built[t].by[k] = "customised" =>
                    t \in DOMAIN Found.rows /\ Found.rows[t].by[k] = "customised"
                    /\ Built[t].on[k] \subseteq Found.rows[t].on[k]
    <3>1. PICK F : F = Found.rows
      OBVIOUS
    <3>2. Chosen(F, rows)
      BY <1>2, <2>1, <3>1
    <3>3. \A t \in DOMAIN F \cap DOMAIN Built, k \in Kinds :
            F[t].by[k] = "customised" => F[t].on[k] \subseteq Built[t].on[k]
      BY <1>4, <3>2 DEF Chosen
    <3>4. \A t \in DOMAIN Built, k \in Kinds : Built[t].by[k] = "customised" =>
            t \in DOMAIN F /\ F[t].by[k] = "customised" /\ Built[t].on[k] \subseteq F[t].on[k]
      BY <1>4, <3>2 DEF Chosen
    <3> QED
      BY <3>1, <3>3, <3>4
  <2> QED
    BY <1>4, <2>1 DEF BufferOK
<1>6. BufferOK(scan'.buffer.rows)
  BY <1>1, <1>5
<1>7. ToFlush(scan', rows)
  BY <1>1 DEF ToFlush
<1> QED
  BY <1>1, <1>6, <1>7, ScanOnSame

LEMMA CommitUpgrades ==
    ASSUME Ready, CommitTransaction
    PROVE  Upgraded' /\ Aside'
<1>1. /\ scan.phase = "write" /\ scan.phase # "idle" /\ Apart /\ UNCHANGED prefs /\ TypeInv
      /\ scan' = [scan EXCEPT !.phase = "vibrations"]
  BY CommitIs DEF Ready
<1>2. /\ Table(rows) /\ RowsAt(rows, files, 23) /\ (Untouched => Chosen(Found.rows, rows))
      /\ ScanOK(scan) /\ BufferOK(scan.buffer.rows) /\ phase \in After /\ Presets(rows)
  BY <1>1, ScanIs
<1>3. scan'.buffer = scan.buffer /\ scan'.phase = "vibrations" /\ files' = files
  BY <1>1, <1>2 DEF ScanOK, Apart
<1>4. PICK R : /\ Table(R) /\ dbs' = [dbs EXCEPT !.el1.rows = R]
               /\ DOMAIN R = DOMAIN scan.buffer.rows \cup DOMAIN rows
               /\ \A t \in DOMAIN rows \ DOMAIN scan.buffer.rows : R[t] = rows[t]
               /\ \A t \in DOMAIN scan.buffer.rows :
                      /\ SameUse(R[t], scan.buffer.rows[t])
                      /\ R[t].source = scan.buffer.rows[t].source /\ R[t].place = scan.buffer.rows[t].place
                      /\ R[t].title = scan.buffer.rows[t].title
                      /\ R[t].mark = IF t \in DOMAIN rows THEN rows[t].mark ELSE scan.buffer.rows[t].mark
  BY <1>1, CommitIs, Zenon
<1>5. PICK B : B = scan.buffer.rows
  OBVIOUS
<1>6. /\ DOMAIN R = DOMAIN B \cup DOMAIN rows
      /\ \A t \in DOMAIN rows \ DOMAIN B : R[t] = rows[t]
      /\ \A t \in DOMAIN B : SameUse(R[t], B[t]) /\ R[t].place = B[t].place
  BY <1>4, <1>5, Zenon
<1>7. \A t \in DOMAIN B \cap DOMAIN rows : rows[t].source = "preset"
  <2>1. DOMAIN B \subseteq job.factory
    BY <1>5 DEF Ready, FactoryInv
  <2> QED
    BY <1>2, <2>1 DEF Presets
<1>8. RowsAt(R, files', 23)
  <2>1. \A t \in DOMAIN B : B[t].mime /\ B[t].media /\ B[t].place # "misplaced"
    BY <1>2, <1>5 DEF BufferOK
  <2>2. \A t \in DOMAIN B : R[t].mime /\ R[t].media /\ R[t].place # "misplaced"
    BY <1>6, <2>1 DEF SameUse
  <2> QED
    BY <1>2, <1>3, <1>6, <2>2, RowsAre
<1>9. ASSUME Untouched PROVE Chosen(Found.rows, R)
  <2>1. PICK F : F = Found.rows
    OBVIOUS
  <2>2. Chosen(F, rows)
    BY <1>2, <1>9, <2>1
  <2>3. /\ \A t \in DOMAIN F \cap DOMAIN B, k \in Kinds :
            F[t].by[k] = "customised" => F[t].on[k] \subseteq B[t].on[k]
        /\ \A t \in DOMAIN B, k \in Kinds : B[t].by[k] = "customised" =>
            t \in DOMAIN F /\ F[t].by[k] = "customised" /\ B[t].on[k] \subseteq F[t].on[k]
    BY <1>2, <1>5, <1>9, <2>1, Zenon DEF BufferOK
  <2>4. ASSUME NEW t \in DOMAIN F, NEW k \in Kinds, F[t].by[k] = "customised"
        PROVE  /\ t \in DOMAIN R /\ F[t].on[k] \subseteq R[t].on[k]
               /\ F[t].source = "customised" => R[t].source = "customised"
    <3>1. /\ t \in DOMAIN rows /\ F[t].on[k] \subseteq rows[t].on[k]
          /\ F[t].source = "customised" => rows[t].source = "customised"
      BY <2>2, <2>4 DEF Chosen
    <3>2. CASE t \in DOMAIN B
      <4>1. F[t].source # "customised"
        BY <1>7, <3>1, <3>2
      <4> QED
        BY <1>6, <2>3, <2>4, <3>2, <4>1 DEF SameUse
    <3>3. CASE t \notin DOMAIN B
      BY <1>6, <3>1, <3>3
    <3> QED
      BY <3>2, <3>3
  <2>5. ASSUME NEW t \in DOMAIN R, NEW k \in Kinds, R[t].by[k] = "customised"
        PROVE  t \in DOMAIN F /\ F[t].by[k] = "customised" /\ R[t].on[k] \subseteq F[t].on[k]
    <3>1. CASE t \in DOMAIN B
      BY <1>6, <2>3, <2>5, <3>1 DEF SameUse
    <3>2. CASE t \notin DOMAIN B
      BY <1>6, <2>2, <2>5, <3>2 DEF Chosen
    <3> QED
      BY <3>1, <3>2
  <2> QED
    BY <2>1, <2>4, <2>5 DEF Chosen
<1>10. Whole(dbs.el1, files, 23)' /\ dbs'.el1.rows = R /\ dbs'.el1.version = dbs.el1.version /\ dbs'.el2 = dbs.el2
  BY <1>2, <1>4, <1>8, El1Rows
<1>11. \A t \in DOMAIN R : R[t].place = "misplaced" => t \in DOMAIN rows /\ rows[t].place = "misplaced"
  BY <1>2, <1>5, <1>6 DEF BufferOK
<1>12. BufferOK(scan'.buffer.rows) /\ ToFlush(scan', dbs'.el1.rows)
  BY <1>2, <1>3 DEF ToFlush
<1> QED
  BY <1>1, <1>9, <1>10, <1>11, <1>12, ScanOn

LEMMA CommitVibrateUpgrades ==
    ASSUME Ready, CommitVibrateTransaction
    PROVE  Upgraded' /\ Aside'
<1>1. /\ scan.phase = "vibrations" /\ scan.phase # "idle" /\ Apart /\ UNCHANGED prefs
      /\ scan'.phase = "defaults"
  BY CommitVibrateIs DEF Ready
<1>2. PICK V : Vibrations(V) /\ dbs' = [dbs EXCEPT !.el1.vibrations = V]
  BY CommitVibrateIs DEF Ready
<1>3. scan'.buffer = NoScan.buffer /\ files' = files
  <2> DEFINE none == NoScan.buffer
  <2>1. scan' = [scan EXCEPT !.phase = "defaults", !.buffer = none]
    BY Zenon DEF CommitVibrateTransaction
  <2> HIDE DEF none
  <2>2. scan'.buffer = none
    BY <1>1, <2>1, ScanIs DEF ScanOK
  <2> QED
    BY <1>1, <2>2 DEF none, Apart
<1>4. phase \in After /\ rows = dbs.el1.rows /\ (Untouched => Chosen(Found.rows, rows))
  BY <1>1, ScanIs
<1>5. Whole(dbs.el1, files, 23)' /\ dbs'.el1.rows = rows /\ dbs'.el1.version = dbs.el1.version /\ dbs'.el2 = dbs.el2
  BY <1>2, <1>3, <1>4, El1Vibrations
<1>6. BufferOK(scan'.buffer.rows) /\ ToFlush(scan', dbs'.el1.rows)
  BY <1>1, <1>3, NothingBuffered DEF ToFlush
<1> QED
  BY <1>1, <1>4, <1>5, <1>6, ScanOn

LEMMA El1Conf ==
    ASSUME Ready, phase \in After, files' = files, NEW conf, Confs(conf), DOMAIN conf = DOMAIN dbs.el1.conf,
           dbs' = [dbs EXCEPT !.el1.conf = conf]
    PROVE  /\ Whole(dbs.el1, files, 23)' /\ dbs'.el1.rows = rows /\ dbs'.el1.version = dbs.el1.version
           /\ dbs'.el2 = dbs.el2
<1>1. DbsOK(dbs) /\ UsedDb(dbs.el1) /\ rows = dbs.el1.rows
  BY InUse DEF Ready
<1>2. Whole(dbs.el1, files, 23)
  BY AfterIs
<1>3. /\ dbs'.el1.version = dbs.el1.version /\ dbs'.el1.schema = dbs.el1.schema /\ dbs'.el1.rows = dbs.el1.rows
      /\ dbs'.el1.conf = conf /\ dbs'.el1.sims = dbs.el1.sims /\ dbs'.el1.vibrations = dbs.el1.vibrations
      /\ dbs'.el2 = dbs.el2
  BY <1>1, DbParts DEF DbsOK
<1>4. ConfAt(dbs'.el1.conf, 23)
  BY <1>2, <1>3 DEF Whole, ConfAt
<1>5. Whole(dbs.el1, files, 23)'
  BY <1>2, <1>3, <1>4, Zenon DEF Whole
<1> QED
  BY <1>1, <1>3, <1>5

LEMMA ConfUpgrades ==
    ASSUME Ready, UpdateConf
    PROVE  Upgraded' /\ Aside'
<1>1. /\ scan.phase = "conf" /\ scan.phase # "idle" /\ Apart /\ UNCHANGED prefs
      /\ scan' = [scan EXCEPT !.phase = "init"]
  BY ConfIs DEF Ready
<1>2. PICK conf : /\ Confs(conf) /\ DOMAIN conf = DOMAIN dbs.el1.conf
                  /\ dbs' = [dbs EXCEPT !.el1.conf = conf]
  BY ConfIs DEF Ready
<1>3. /\ phase \in After /\ rows = dbs.el1.rows /\ (Untouched => Chosen(Found.rows, rows)) /\ ScanOK(scan)
      /\ BufferOK(scan.buffer.rows)
  BY <1>1, ScanIs
<1>4. scan'.buffer = scan.buffer /\ scan'.phase = "init" /\ files' = files
  BY <1>1, <1>3 DEF ScanOK, Apart
<1>5. Whole(dbs.el1, files, 23)' /\ dbs'.el1.rows = rows /\ dbs'.el1.version = dbs.el1.version /\ dbs'.el2 = dbs.el2
  BY <1>2, <1>3, <1>4, El1Conf
<1>6. BufferOK(scan'.buffer.rows) /\ ToFlush(scan', dbs'.el1.rows)
  BY <1>3, <1>4 DEF ToFlush
<1> QED
  BY <1>1, <1>3, <1>5, <1>6, ScanOn

LEMMA MarkUpgrades ==
    ASSUME Ready, SetInitScanner
    PROVE  Upgraded' /\ Aside'
<1>1. /\ scan.phase = "init" /\ scan.phase # "idle" /\ Apart /\ dbs' = dbs
      /\ scan' = [scan EXCEPT !.phase = "delete"] /\ prefs' = [prefs EXCEPT !.initScanner = TRUE]
  BY DEF SetInitScanner
<1>2. ScanOK(scan) /\ BufferOK(scan.buffer.rows)
  BY <1>1, ScanIs
<1>3. scan'.buffer = scan.buffer /\ scan'.phase = "delete"
  BY <1>1, <1>2 DEF ScanOK
<1>4. prefs'.completed = prefs.completed
  BY <1>1 DEF Ready, TypeInv, Stored
<1>5. BufferOK(scan'.buffer.rows) /\ ToFlush(scan', rows)
  BY <1>2, <1>3 DEF ToFlush
<1> QED
  BY <1>1, <1>4, <1>5, ScanOnSame

LEMMA EndScanUpgrades ==
    ASSUME Ready, EndOfScan
    PROVE  Upgraded' /\ Aside'
<1>1. scan.phase = "delete" /\ scan.phase # "idle" /\ Apart /\ prefs' = prefs /\ scan' = NoScan
  BY EndIs DEF Ready
<1>2. /\ phase \in After /\ rows = dbs.el1.rows /\ (Untouched => Chosen(Found.rows, rows))
      /\ RowsAt(rows, files, 23)
  BY <1>1, ScanIs
<1>3. BufferOK(scan'.buffer.rows) /\ \A R : ToFlush(scan', R)
  BY <1>1, NothingBuffered DEF ToFlush, NoScan
<1>4. CASE dbs' = dbs
  BY <1>1, <1>3, <1>4, ScanOnSame
<1>5. CASE \E R : /\ Table(R) /\ dbs' = [dbs EXCEPT !.el1.rows = R]
                  /\ DOMAIN R = {t \in DOMAIN rows : rows[t].source = "customised" \/ t \in job.factory}
                  /\ \A t \in DOMAIN R : R[t] = rows[t]
  <2>1. PICK R : /\ Table(R) /\ dbs' = [dbs EXCEPT !.el1.rows = R]
                 /\ DOMAIN R = {t \in DOMAIN rows : rows[t].source = "customised" \/ t \in job.factory}
                 /\ \A t \in DOMAIN R : R[t] = rows[t]
    BY <1>5
  <2>2. RowsAt(R, files', 23)
    BY <1>1, <1>2, <2>1, RowsAre DEF Apart
  <2>3. Whole(dbs.el1, files, 23)' /\ dbs'.el1.rows = R /\ dbs'.el1.version = dbs.el1.version /\ dbs'.el2 = dbs.el2
    BY <1>2, <2>1, <2>2, El1Rows
  <2>4. ASSUME Untouched PROVE Chosen(Found.rows, R)
    <3>1. PICK F : F = Found.rows
      OBVIOUS
    <3>2. Chosen(F, rows)
      BY <1>2, <2>4, <3>1
    <3>3. \A t \in DOMAIN F, k \in Kinds :
            F[t].by[k] = "customised" => F[t].source = "customised" \/ t \in job.factory
      BY <3>1 DEF Ready, Grown
    <3>4. \A t \in DOMAIN F, k \in Kinds : F[t].by[k] = "customised" => t \in DOMAIN R
      BY <2>1, <3>2, <3>3 DEF Chosen
    <3>5. Chosen(F, R)
      BY <2>1, <3>2, <3>4 DEF Chosen
    <3> QED
      BY <3>1, <3>5
  <2>5. \A t \in DOMAIN R : R[t].place = "misplaced" => t \in DOMAIN rows /\ rows[t].place = "misplaced"
    BY <2>1
  <2> QED
    BY <1>1, <1>3, <2>3, <2>4, <2>5, ScanOn
<1>6. \/ dbs' = dbs
      \/ \E R : /\ Table(R) /\ dbs' = [dbs EXCEPT !.el1.rows = R]
                /\ DOMAIN R = {t \in DOMAIN rows : rows[t].source = "customised" \/ t \in job.factory}
                /\ \A t \in DOMAIN R : R[t] = rows[t]
  BY EndIs, Zenon DEF Ready
<1> QED
  BY <1>4, <1>5, <1>6

(* A default setting is a preset one of a preset tone. *)
LEMMA DefaultsArePreset ==
    ASSUME Table(rows), NEW cache, cache = CommitSettings({}, DefaultSettings)
    PROVE  /\ \A i \in cache : i.by = "preset" /\ i.path \in DOMAIN rows /\ rows[i.path].source = "preset"
           /\ \A step \in FlushSteps(cache) : step.item \in cache
<1> DEFINE items == DefaultSettings
<1>1. \A i \in items : i.by = "preset" /\ i.path \in DOMAIN rows /\ rows[i.path].source = "preset"
  BY DEF DefaultSettings
<1>2. AreSettings({}) /\ \A i \in items : i \in Item
  BY DefaultsAreSettings DEF AreSettings
<1> HIDE DEF items
<1> DEFINE new == CommitSettings({}, items)
<1>3. /\ AreSettings(new)
      /\ \A i \in new : \E j \in {} \cup items : j.by = i.by
      /\ \A i \in new : \A c \in i.cards : \E j \in {} \cup items :
            j.path = i.path /\ j.kind = i.kind /\ c \in j.cards
  BY <1>2, CommittedAreSettings
<1> HIDE DEF new
<1>4. \A i \in new : i.by = "preset" /\ i.path \in DOMAIN rows /\ rows[i.path].source = "preset"
  <2> TAKE i \in new
  <2>1. i.cards # {}
    BY <1>3 DEF AreSettings, ValidSetting
  <2>2. PICK c : c \in i.cards
    BY <2>1
  <2>3. PICK j \in items : j.path = i.path
    BY <1>3, <2>2
  <2>4. PICK l \in items : l.by = i.by
    BY <1>3
  <2> QED
    BY <1>1, <2>3, <2>4
<1>5. cache = new
  BY DEF new, items
<1>6. \A step \in FlushSteps(cache) : step.item \in cache
  BY DEF FlushSteps
<1> QED
  BY <1>4, <1>5, <1>6

LEMMA DefaultUpgrades ==
    ASSUME Ready, UpdateDefaultTone
    PROVE  Upgraded' /\ Aside'
<1>1. /\ scan.phase = "defaults" /\ scan.phase # "idle" /\ Apart /\ UNCHANGED <<dbs, prefs>>
      /\ scan'.buffer = scan.buffer
  BY DefaultToneIs DEF Ready
<1>2. ScanOK(scan) /\ BufferOK(scan.buffer.rows) /\ Table(rows)
  BY <1>1, ScanIs
<1>3. ToFlush(scan', rows)
  <2>1. CASE scan' = [scan EXCEPT !.phase = "conf"]
    BY <1>2, <2>1 DEF ScanOK, ToFlush
  <2>2. CASE \E presets \in PresetCardBits(rows) :
            LET cache == CommitSettings({}, DefaultSettings)
            IN  scan' = [scan EXCEPT !.phase = "flush", !.cache = cache, !.presets = presets,
                                     !.todo = FlushSteps(cache)]
    <3>1. PICK presets, cache : /\ cache = CommitSettings({}, DefaultSettings)
                                /\ scan' = [scan EXCEPT !.phase = "flush", !.cache = cache, !.presets = presets,
                                                        !.todo = FlushSteps(cache)]
      BY <2>2, Zenon
    <3> DEFINE todo == FlushSteps(cache)
    <3>2. scan' = [scan EXCEPT !.phase = "flush", !.cache = cache, !.presets = presets, !.todo = todo]
      BY <3>1
    <3>3. /\ \A i \in cache : i.by = "preset" /\ i.path \in DOMAIN rows /\ rows[i.path].source = "preset"
          /\ \A step \in todo : step.item \in cache
      BY <1>2, <3>1, DefaultsArePreset
    <3> HIDE DEF todo
    <3>4. scan'.cache = cache /\ scan'.todo = todo
      BY <1>2, <3>2 DEF ScanOK
    <3> QED
      BY <3>3, <3>4 DEF ToFlush
  <2> QED
    BY <1>1, <2>1, <2>2, Zenon DEF UpdateDefaultTone
<1>4. BufferOK(scan'.buffer.rows) /\ prefs'.completed = prefs.completed
  BY <1>1, <1>2
<1> QED
  BY <1>1, <1>3, <1>4, ScanOnSame

(* A preset setting adds to what is set, and makes no customised one. *)
LEMMA ApplyWidens ==
    ASSUME NEW R, Table(R), NEW item \in Item, NEW card \in item.cards, item.by = "preset"
    PROVE  /\ Widened(R, ApplyCardSetting(R, item, card))
           /\ item.kind \notin CardKinds => Widened(R, ApplyNonCardSetting(R, item, FALSE))
<1> DEFINE kind == item.kind
           set == ApplyCardSetting(R, item, card)
           fixed == ApplyNonCardSetting(R, item, FALSE)
           add(r) == [r EXCEPT !.on[kind] = @ \cup {card}, !.by[kind] = item.by]
           fix(r) == [r EXCEPT !.on[kind] = {"device"}, !.by[kind] = item.by]
           wide(r, v) ==
                /\ v.source = r.source
                /\ \A k \in Kinds : /\ r.on[k] \subseteq v.on[k]
                                    /\ v.by[k] = "customised" => r.by[k] = "customised" /\ v.on[k] = r.on[k]
<1>1. kind \in Kinds /\ item.by = "preset"
  BY DEF Item
<1>2. /\ DOMAIN set = DOMAIN R
      /\ \A t \in DOMAIN R : set[t] = add(R[t]) \/ set[t] = R[t]
  BY DEF ApplyCardSetting, Change
<1>3. \/ fixed = R
      \/ /\ DOMAIN fixed = DOMAIN R
         /\ \A t \in DOMAIN R : fixed[t] = fix(R[t]) \/ fixed[t] = R[t]
  BY DEF ApplyNonCardSetting, Change
<1> HIDE DEF kind, set, fixed
<1>4. ASSUME NEW r, GoodRow(r)
      PROVE  wide(r, add(r)) /\ (kind \notin CardKinds => wide(r, fix(r)))
  <2>1. r \in Tone /\ \A k \in Kinds : r.on[k] \subseteq Slots(k)
    BY <1>4 DEF GoodRow
  <2>2. kind \notin CardKinds => r.on[kind] \subseteq {"device"}
    BY <1>1, <2>1 DEF Slots
  <2>3. wide(r, add(r))
    BY <1>1, <2>1 DEF Tone
  <2>4. kind \notin CardKinds => wide(r, fix(r))
    BY <1>1, <2>1, <2>2 DEF Tone
  <2> QED
    BY <2>3, <2>4
<1>5. \A t \in DOMAIN R : GoodRow(R[t]) /\ wide(R[t], R[t])
  BY DEF Table
<1>6. \A new : DOMAIN new = DOMAIN R /\ (\A t \in DOMAIN R : wide(R[t], new[t])) => Widened(R, new)
  BY DEF Widened
<1> HIDE DEF add, fix, wide
<1>7. \A t \in DOMAIN R : wide(R[t], set[t])
  BY <1>2, <1>4, <1>5, Zenon
<1>8. Widened(R, set)
  BY <1>2, <1>6, <1>7, Zenon
<1>9. ASSUME kind \notin CardKinds PROVE Widened(R, fixed)
  <2>1. DOMAIN fixed = DOMAIN R /\ \A t \in DOMAIN R : wide(R[t], fixed[t])
    BY <1>3, <1>4, <1>5, <1>9, Zenon
  <2> QED
    BY <1>6, <2>1, Zenon
<1> QED
  BY <1>8, <1>9 DEF kind, set, fixed

LEMMA FlushWidens ==
    ASSUME NEW R, Table(R), NEW cache, \A i \in cache : i.by = "preset", NEW presets, NEW step,
           step.item \in Item, step.card \in step.item.cards, step.item \in cache,
           step.item.path \in DOMAIN R, R[step.item.path].source = "preset"
    PROVE  Widened(R, Flush(R, cache, presets, step, FALSE))
<1> DEFINE new == Flush(R, cache, presets, step, FALSE)
           item == step.item
           card == step.card
           set == ApplyCardSetting(R, item, card)
<1>1. item \in Item /\ card \in item.cards /\ item.by = "preset"
  OBVIOUS
<1>2. Widened(R, R)
  BY WidenedSame
<1>3. CASE item.kind \notin CardKinds
  <2>1. new = ApplyNonCardSetting(R, item, FALSE)
    BY <1>3 DEF Flush
  <2> HIDE DEF new, item, card
  <2>2. Widened(R, new)
    BY <1>1, <1>3, <2>1, ApplyWidens
  <2> QED
    BY <2>2 DEF new
<1>4. CASE item.kind \in CardKinds
  <2>1. new = R \/ new = set
    <3>1. GetTargetSourceType(R, item.path) = "preset"
      BY DEF GetTargetSourceType
    <3>2. HasOtherCustomisedForCard(R, cache, item, card) => IsCardAlreadyCustomised(R, item.kind, card)
      BY DEF HasOtherCustomisedForCard
    <3>3. new = ApplyCardSettings(R, cache, presets, item, card, FALSE)
      BY <1>4 DEF Flush
    <3> QED
      BY <3>1, <3>2, <3>3 DEF ApplyCardSettings
  <2> HIDE DEF new, item, card
  <2>2. Widened(R, set)
    BY <1>1, ApplyWidens
  <2> QED
    BY <1>2, <2>1, <2>2, Zenon DEF new
<1> QED
  BY <1>3, <1>4

(* What a customised tone takes from a preset one was not the preset one's by a choice. *)
LEMMA ClearPresetsChosen ==
    ASSUME NEW R, Table(R), NEW F, Chosen(F, R),
           \A t, u \in DOMAIN F, k \in Kinds :
              F[t].by[k] = "customised" /\ F[u].by[k] = "customised" /\ F[t].on[k] \cap F[u].on[k] # {} => t = u
    PROVE  Chosen(F, ClearPresetCardBitsByCustom(R))
<1> DEFINE less(t) == [k \in Kinds |-> IF k \in CardKinds /\ R[t].by[k] = "preset"
                                        THEN {c \in R[t].on[k] : ~IsCardAlreadyCustomised(R, k, c)}
                                        ELSE R[t].on[k]]
           cleared(t) == [R[t] EXCEPT !.on = less(t)]
           new == ClearPresetCardBitsByCustom(R)
<1>1. new = [t \in DOMAIN R |-> cleared(t)]
  <2>1. \A x \in Tone : [x EXCEPT !.on = [k \in Kinds |->
                            IF k \in CardKinds /\ x.by[k] = "preset"
                            THEN {c \in @[k] : ~IsCardAlreadyCustomised(R, k, c)} ELSE @[k]]]
                        = [x EXCEPT !.on = [k \in Kinds |->
                            IF k \in CardKinds /\ x.by[k] = "preset"
                            THEN {c \in x.on[k] : ~IsCardAlreadyCustomised(R, k, c)} ELSE x.on[k]]]
    BY DEF Tone
  <2>2. \A t \in DOMAIN R : R[t] \in Tone
    BY DEF Table, GoodRow
  <2> QED
    BY <2>1, <2>2 DEF ClearPresetCardBitsByCustom
<1>2. ASSUME NEW t \in DOMAIN R
      PROVE  new[t].source = R[t].source /\ new[t].by = R[t].by /\ new[t].on = less(t)
  <2> DEFINE r == R[t]
             on == less(t)
  <2>1. new[t] = [r EXCEPT !.on = on] /\ r \in Tone
    BY <1>1 DEF Table, GoodRow
  <2> HIDE DEF new, r, on
  <2>2. new[t].source = r.source /\ new[t].by = r.by /\ new[t].on = on
    BY <2>1 DEF Tone
  <2> QED
    BY <2>2 DEF r, on
<1>3. DOMAIN new = DOMAIN R
  BY <1>1
<1>4. ASSUME NEW t \in DOMAIN R, NEW k \in Kinds
      PROVE  /\ less(t)[k] = IF k \in CardKinds /\ R[t].by[k] = "preset"
                             THEN {c \in R[t].on[k] : ~IsCardAlreadyCustomised(R, k, c)}
                             ELSE R[t].on[k]
  OBVIOUS
<1> HIDE DEF new, less, cleared
<1>5. ASSUME NEW t \in DOMAIN F, NEW k \in Kinds, F[t].by[k] = "customised"
      PROVE  /\ t \in DOMAIN new /\ F[t].on[k] \subseteq new[t].on[k]
             /\ F[t].source = "customised" => new[t].source = "customised"
  <2>1. /\ t \in DOMAIN R /\ F[t].on[k] \subseteq R[t].on[k]
        /\ F[t].source = "customised" => R[t].source = "customised"
    BY <1>5 DEF Chosen
  <2>2. ASSUME NEW c \in F[t].on[k], R[t].by[k] = "preset" PROVE ~IsCardAlreadyCustomised(R, k, c)
    <3>1. ASSUME NEW p \in DOMAIN R, R[p].by[k] = "customised", c \in R[p].on[k] PROVE FALSE
      <4>1. p \in DOMAIN F /\ F[p].by[k] = "customised" /\ c \in F[p].on[k]
        BY <3>1 DEF Chosen
      <4>2. p = t
        BY <1>5, <4>1
      <4> QED
        BY <2>2, <3>1, <4>2
    <3> QED
      BY <3>1 DEF IsCardAlreadyCustomised
  <2>3. F[t].on[k] \subseteq less(t)[k]
    BY <1>4, <2>1, <2>2
  <2> QED
    BY <1>2, <1>3, <2>1, <2>3
<1>6. ASSUME NEW t \in DOMAIN new, NEW k \in Kinds, new[t].by[k] = "customised"
      PROVE  t \in DOMAIN F /\ F[t].by[k] = "customised" /\ new[t].on[k] \subseteq F[t].on[k]
  <2>1. t \in DOMAIN R /\ R[t].by[k] = "customised" /\ new[t].on[k] = R[t].on[k]
    BY <1>2, <1>3, <1>4, <1>6
  <2> QED
    BY <2>1 DEF Chosen
<1>7. Chosen(F, new)
  BY <1>5, <1>6 DEF Chosen
<1> QED
  BY <1>7 DEF new

LEMMA FlushUpgrades ==
    ASSUME Ready, FlushSettings
    PROVE  Upgraded' /\ Aside'
<1>1. /\ scan.phase = "flush" /\ scan.phase # "idle" /\ Apart /\ UNCHANGED prefs
      /\ \/ \E step \in scan.todo :
                /\ scan' = [scan EXCEPT !.todo = scan.todo \ {step}]
                /\ dbs' = [dbs EXCEPT !.el1.rows = Flush(dbs.el1.rows, scan.cache, scan.presets, step, FALSE)]
         \/ /\ scan' = [NoScan EXCEPT !.phase = "conf"]
            /\ dbs' = [dbs EXCEPT !.el1.rows = ClearPresetCardBitsByCustom(dbs.el1.rows)]
  <2>1. ~Fails
    BY NoFailure
  <2>2. scan.phase = "flush" /\ Apart /\ UNCHANGED prefs
    BY DEF FlushSettings
  <2>3. \/ \E step \in scan.todo :
                /\ scan' = [scan EXCEPT !.todo = scan.todo \ {step}]
                /\ dbs' = [dbs EXCEPT !.el1.rows = Flush(dbs.el1.rows, scan.cache, scan.presets, step, FALSE)]
        \/ /\ scan' = [NoScan EXCEPT !.phase = "conf"]
           /\ dbs' = [dbs EXCEPT !.el1.rows = ClearPresetCardBitsByCustom(dbs.el1.rows)]
    BY <2>1, Zenon DEF FlushSettings
  <2> QED
    BY <2>2, <2>3
<1>2. /\ Table(rows) /\ rows = dbs.el1.rows /\ RowsAt(rows, files, 23) /\ (Untouched => Chosen(Found.rows, rows))
      /\ ScanOK(scan) /\ BufferOK(scan.buffer.rows) /\ phase \in After
  BY <1>1, ScanIs
<1>3. files' = files
  BY <1>1 DEF Apart
<1>4. /\ \A i \in scan.cache : i.by = "preset" /\ i.path \in DOMAIN rows /\ rows[i.path].source = "preset"
      /\ \A s \in scan.todo : s.item \in scan.cache
  BY <1>1, <1>2 DEF Ready, Aside, FlushOK
<1>5. ASSUME NEW R, Tuned(rows, R), dbs' = [dbs EXCEPT !.el1.rows = R], Untouched => Chosen(Found.rows, R),
             BufferOK(scan'.buffer.rows), ToFlush(scan', rows)
      PROVE  Upgraded' /\ Aside'
  <2>1. Table(R) /\ RowsAt(R, files', 23)
    BY <1>2, <1>3, <1>5, TunedTable, TunedRows
  <2>2. Whole(dbs.el1, files, 23)' /\ dbs'.el1.rows = R /\ dbs'.el1.version = dbs.el1.version /\ dbs'.el2 = dbs.el2
    BY <1>2, <1>5, <2>1, El1Rows
  <2>3. /\ DOMAIN R = DOMAIN rows
        /\ \A t \in DOMAIN rows : R[t].source = rows[t].source /\ R[t].place = rows[t].place
    BY <1>5 DEF Tuned, SameTone
  <2>4. ToFlush(scan', dbs'.el1.rows)
    BY <1>5, <2>2, <2>3 DEF ToFlush
  <2>5. \A t \in DOMAIN R : R[t].place = "misplaced" => t \in DOMAIN rows /\ rows[t].place = "misplaced"
    BY <2>3
  <2> QED
    BY <1>1, <1>5, <2>2, <2>4, <2>5, ScanOn
<1>6. ASSUME NEW step \in scan.todo, scan' = [scan EXCEPT !.todo = scan.todo \ {step}],
             dbs' = [dbs EXCEPT !.el1.rows = Flush(dbs.el1.rows, scan.cache, scan.presets, step, FALSE)]
      PROVE  Upgraded' /\ Aside'
  <2> DEFINE todo == scan.todo \ {step}
             cache == scan.cache
             presets == scan.presets
             R == Flush(rows, cache, presets, step, FALSE)
  <2>1. step.item \in Item /\ step.card \in step.item.cards
    BY <1>2 DEF ScanOK
  <2>2. /\ \A i \in cache : i.by = "preset"
        /\ step.item \in cache /\ step.item.path \in DOMAIN rows /\ rows[step.item.path].source = "preset"
    BY <1>4
  <2>3. dbs' = [dbs EXCEPT !.el1.rows = R]
    BY <1>2, <1>6
  <2>4. scan'.buffer = scan.buffer /\ scan'.cache = scan.cache /\ scan'.todo \subseteq scan.todo
    <3>1. scan' = [scan EXCEPT !.todo = todo] /\ todo \subseteq scan.todo
      BY <1>6
    <3> HIDE DEF todo
    <3> QED
      BY <1>2, <3>1 DEF ScanOK
  <2> HIDE DEF cache, presets
  <2>5. Tuned(rows, R)
    BY <1>2, <2>1, FlushTunes
  <2>6. Widened(rows, R)
    BY <1>2, <2>1, <2>2, FlushWidens
  <2> HIDE DEF R
  <2>7. Untouched => Chosen(Found.rows, R)
    BY <1>2, <2>6, WidenedIs
  <2>8. BufferOK(scan'.buffer.rows) /\ ToFlush(scan', rows)
    BY <1>2, <1>4, <2>4 DEF ToFlush
  <2> QED
    BY <1>5, <2>3, <2>5, <2>7, <2>8
<1>7. CASE /\ scan' = [NoScan EXCEPT !.phase = "conf"]
           /\ dbs' = [dbs EXCEPT !.el1.rows = ClearPresetCardBitsByCustom(dbs.el1.rows)]
  <2> DEFINE R == ClearPresetCardBitsByCustom(rows)
  <2>1. Tuned(rows, R)
    BY <1>2, ClearPresetsTunes
  <2>2. dbs' = [dbs EXCEPT !.el1.rows = R]
    BY <1>2, <1>7
  <2>3. ASSUME Untouched PROVE Chosen(Found.rows, R)
    <3>1. PICK F : F = Found.rows
      OBVIOUS
    <3>2. \A t, u \in DOMAIN F, k \in Kinds :
            F[t].by[k] = "customised" /\ F[u].by[k] = "customised" /\ F[t].on[k] \cap F[u].on[k] # {} => t = u
      BY <3>1 DEF Ready, Grown
    <3>3. Chosen(F, rows)
      BY <1>2, <2>3, <3>1
    <3>4. Chosen(F, R)
      BY <1>2, <3>2, <3>3, ClearPresetsChosen
    <3> QED
      BY <3>1, <3>4
  <2> HIDE DEF R
  <2>4. scan'.buffer = NoScan.buffer /\ scan'.phase = "conf"
    BY <1>7 DEF NoScan
  <2>5. BufferOK(scan'.buffer.rows) /\ ToFlush(scan', rows)
    BY <2>4, NothingBuffered DEF ToFlush
  <2> QED
    BY <1>5, <2>1, <2>2, <2>3, <2>5
<1> QED
  BY <1>1, <1>6, <1>7

LEMMA ScanUpgrades ==
    ASSUME Ready, ScanStep
    PROVE  Upgraded' /\ Aside'
BY BuildUpgrades, CommitUpgrades, CommitVibrateUpgrades, DefaultUpgrades, FlushUpgrades, ConfUpgrades, MarkUpgrades,
   EndScanUpgrades DEF ScanStep

-----------------------------------------------------------------------------
(* CheckSimCard and the user's choices *)

LEMMA NothingUpgrades ==
    ASSUME Ready, UNCHANGED <<job, dbs, files, phase, work, scan, clients, history, crashes>>,
           prefs'.completed = prefs.completed
    PROVE  Upgraded' /\ Aside'
<1>1. Found' = Found
  BY NoFailure
<1>2. Untouched' <=> Untouched
  BY DEF Untouched
<1>3. ASSUME NEW db, Stage(db)
      PROVE  (dbs'.el1 = db => Stage(dbs.el1)') /\ (dbs'.el2 = db => Stage(dbs.el2)')
  <2>1. PICK p \in FirstOf(db.version) .. 23 :
          /\ Progress(db, p)
          /\ IF phase = "upgrade" THEN work.todo = SubSeq(UpgradeExtension, p, 22) ELSE p = FirstOf(db.version)
    BY <1>3, Zenon DEF Stage
  <2>2. Whole(db, files', p)
    BY <2>1, Zenon DEF Progress
  <2>3. Untouched' => Chosen(Found.rows, db.rows)
    BY <1>2, <2>1, Zenon DEF Progress
  <2>4. crashes' = 0 /\ phase' \notin After \ {"defaults"} => DefaultsAt(db.conf, db.rows, Found.version, p)
    BY <2>1, Zenon DEF Progress
  <2>5. IF phase' = "upgrade" THEN work'.todo = SubSeq(UpgradeExtension, p, 22) ELSE p = FirstOf(db.version)
    BY <2>1, Zenon
  <2> QED
    BY <2>2, <2>3, <2>4, <2>5, StageIs
<1>4. (Stage(dbs.el1) => Stage(dbs.el1)') /\ (Stage(dbs.el2) => Stage(dbs.el2)')
  BY <1>3, Zenon
<1>5. (StaysInEl1' <=> StaysInEl1) /\ (StillInEl2' <=> StillInEl2)
  BY DEF StaysInEl1, StillInEl2, Stays
<1>6. Upgraded'
  BY <1>4, <1>5 DEF Ready, Upgraded
<1>7. BufferOK(scan.buffer.rows)'
  BY <1>1, <1>2 DEF Ready, Aside, BufferOK
<1>8. FlushOK(dbs.el1.rows)' /\ FilesOK(dbs.el1.rows)'
  BY DEF Ready, Aside, FlushOK, FilesOK
<1>9. Aside'
  BY <1>2, <1>7, <1>8 DEF Ready, Aside
<1> QED
  BY <1>6, <1>9

LEMMA TimeUpgrades ==
    ASSUME Ready, TimePasses
    PROVE  Upgraded' /\ Aside'
<1>1. prefs' = [prefs EXCEPT !.eSimTime = "old"]
  BY DEF TimePasses
<1>2. prefs'.completed = prefs.completed
  BY <1>1 DEF Ready, TypeInv, Stored
<1> QED
  BY <1>2, NothingUpgrades DEF TimePasses

LEMMA ServingOn ==
    ASSUME Ready, Beside, phase = "serving", Whole(dbs.el1, files, 23)', history'.runs \in Nat,
           Untouched' => /\ Untouched /\ Chosen(Found.rows, dbs'.el1.rows)
                         /\ \A c \in Clients : clients'[c] \in {<<>>, <<Reset>>}
    PROVE  Upgraded' /\ Aside'
<1>1. UNCHANGED <<job, files, phase, work, scan, crashes>>
  BY DEF Beside
<1>2. prefs'.completed = prefs.completed
  BY DEF Beside, Ready, TypeInv, Stored
<1>3. phase \in After /\ phase' \in After /\ phase' = "serving" /\ work.open = "el1" /\ rows = dbs.el1.rows
  BY <1>1, InUse DEF Ready, After
<1>4. /\ dbs'.el1.version = dbs.el1.version /\ dbs'.el2 = dbs.el2
      /\ \A t \in DOMAIN rows : t \in DOMAIN dbs'.el1.rows /\ dbs'.el1.rows[t].source = rows[t].source
  <2>1. CASE dbs' = dbs
    BY <1>3, <2>1
  <2>2. CASE dbs'.el1.version = dbs.el1.version /\ dbs'.el2 = dbs.el2 /\ Tuned(rows, dbs'.el1.rows)
    BY <2>2 DEF Tuned, SameTone
  <2> QED
    BY <2>1, <2>2 DEF Beside
<1>5. Onward
  BY <1>1, <1>2, <1>3, <1>4 DEF Onward
<1>6. Upgraded'
  BY <1>3, <1>5, AfterUpgrades
<1>7. Found' = Found
  BY NoFailure
<1>8. BufferOK(scan.buffer.rows)'
  BY <1>1, <1>7 DEF Ready, Aside, BufferOK
<1>9. FlushOK(dbs.el1.rows)' /\ FilesOK(dbs.el1.rows)'
  BY <1>1, <1>3, <1>4 DEF Ready, Aside, FlushOK, FilesOK, rows
<1>10. Aside'
  BY <1>3, <1>8, <1>9 DEF Aside
<1> QED
  BY <1>6, <1>10

LEMMA ServingIs ==
    ASSUME Ready, phase = "serving"
    PROVE  /\ phase \in After /\ TypeInv /\ RowsAt(rows, files, 23) /\ rows = dbs.el1.rows /\ Table(rows)
           /\ Untouched => Chosen(Found.rows, rows)
           /\ history.runs \in Nat /\ HistoryOK(history)
           /\ Untouched => \A c \in Clients : clients[c] \in {<<>>, <<Reset>>}
<1>1. phase \in After
  BY DEF After
<1> QED
  BY <1>1, AfterIs, InUse DEF Ready, Whole, Aside, TypeInv, Memory

LEMMA CheckUpgrades ==
    ASSUME Ready, NEW c \in Clients, CheckSimCard(c)
    PROVE  Upgraded' /\ Aside'
<1>1. Beside /\ phase = "serving" /\ UNCHANGED <<dbs, files>>
  BY CheckSimCardIs DEF Ready, CheckSimCard, storage
<1>2. /\ RowsAt(rows, files, 23) /\ (Untouched => Chosen(Found.rows, rows)) /\ phase \in After
      /\ history.runs \in Nat /\ HistoryOK(history) /\ rows = dbs.el1.rows
  BY <1>1, ServingIs
<1>3. Whole(dbs.el1, files, 23)'
  BY <1>1, <1>2, El1Same
<1>4. CASE history' = [history EXCEPT !.runs = @ + 1, !.torn = FALSE]
  <2>1. history'.runs = history.runs + 1
    BY <1>2, <1>4 DEF HistoryOK
  <2>2. ~Untouched' /\ history'.runs \in Nat
    BY <1>2, <2>1 DEF Untouched
  <2> QED
    BY <1>1, <1>3, <2>2, ServingOn
<1>5. CASE clients' = [clients EXCEPT ![c] = <<Reset>>] /\ history' = history
  <2>1. ASSUME Untouched' PROVE Untouched /\ \A d \in Clients : clients'[d] \in {<<>>, <<Reset>>}
    <3>1. Untouched
      BY <1>5, <2>1 DEF Untouched
    <3>2. \A d \in Clients : clients[d] \in {<<>>, <<Reset>>}
      BY <1>1, <3>1, ServingIs
    <3>3. clients \in [Clients -> Seq(Stmt)]
      BY DEF Ready, TypeInv, Memory
    <3>4. \A d \in Clients : clients'[d] = clients[d] \/ clients'[d] = <<Reset>>
      BY <1>5, <3>3, Zenon
    <3> QED
      BY <3>1, <3>2, <3>4, Zenon
  <2> QED
    BY <1>1, <1>2, <1>3, <1>5, <2>1, ServingOn
<1> QED
  BY <1>4, <1>5 DEF CheckSimCard

LEMMA ExecutedWhole ==
    ASSUME NEW db, UsedDb(db), NEW F, Whole(db, F, 23), NEW step \in Stmt, step.do \notin {"reset", "collect"}
    PROVE  Whole(Executed(db, step), F, 23)
<1> DEFINE new == Executed(db, step)
<1>1. Tuned(db.rows, new.rows)
  BY ExecutedTunes
<1>2. db = [version |-> db.version, schema |-> db.schema, rows |-> db.rows, conf |-> db.conf,
            sims |-> db.sims, vibrations |-> db.vibrations]
  BY DbParts
<1>3. /\ new.schema = db.schema /\ new.conf = db.conf /\ DOMAIN new.sims = SimKeys
      /\ Clean(new.sims)
  <2>1. Clean(db.sims) /\ DOMAIN db.sims = SimKeys
    BY DEF Whole, SimsAt
  <2>2. CASE step.do = "copy"
    <3> DEFINE copied == {y \in SimKeys : y[1] \in step.to /\ y[2] \in SimTypes /\ <<step.from, y[2]>> \in DOMAIN db.sims}
               sims == Merge([x \in copied |-> db.sims[<<step.from, x[2]>>]], db.sims)
    <3>1. new = [db EXCEPT !.sims = sims]
      BY <2>2 DEF Executed
    <3>2. DOMAIN sims = SimKeys
      BY <2>1 DEF Merge
    <3>3. \A key \in SimKeys : \E old \in SimKeys : sims[key] = db.sims[old]
      BY <2>1 DEF Merge
    <3> HIDE DEF sims, new
    <3>4. new.schema = db.schema /\ new.conf = db.conf /\ new.sims = sims
      BY <1>2, <3>1
    <3>5. Clean(sims)
      BY <2>1, <3>2, <3>3, Zenon DEF Clean
    <3> QED
      BY <3>2, <3>4, <3>5
  <2>3. CASE step.do # "copy"
    <3>1. PICK R : new = [db EXCEPT !.rows = R]
      <4>1. step.do \in {"add", "clear", "preset"}
        BY <2>3 DEF Stmt
      <4> QED
        BY <4>1 DEF Executed
    <3> HIDE DEF new
    <3>2. new.schema = db.schema /\ new.conf = db.conf /\ new.sims = db.sims
      BY <1>2, <3>1
    <3> QED
      BY <2>1, <3>2
  <2> QED
    BY <2>2, <2>3
<1> HIDE DEF new
<1>4. RowsAt(new.rows, F, 23)
  <2>1. RowsAt(db.rows, F, 23)
    BY DEF Whole
  <2> QED
    BY <1>1, <2>1, TunedRows
<1>5. SimsAt(new.sims, new.vibrations, 23)
  BY <1>3 DEF SimsAt
<1>6. Whole(new, F, 23)
  BY <1>3, <1>4, <1>5 DEF Whole
<1> QED
  BY <1>6 DEF new

LEMMA StatementUpgrades ==
    ASSUME Ready, NEW c \in Clients, Statement(c)
    PROVE  Upgraded' /\ Aside'
<1> DEFINE step == Head(clients[c])
           rest == Tail(clients[c])
<1>1. /\ clients[c] # <<>> /\ UNCHANGED <<files, history>>
      /\ \/ step.do = "reset" /\ clients' = [clients EXCEPT ![c] = rest] /\ dbs' = dbs
         \/ step.do = "collect" /\ dbs' = dbs
         \/ step.do \notin {"reset", "collect"} /\ dbs' = [dbs EXCEPT !.el1 = Executed(dbs.el1, step)]
  <2>1. ~Fails
    BY NoFailure
  <2> HIDE DEF step, rest
  <2> QED
    BY <2>1, Zenon DEF Statement, step, rest
<1>2. Beside /\ phase = "serving" /\ clients \in [Clients -> Seq(Stmt)]
  BY <1>1, StatementIs DEF Ready, TypeInv, Staged, Memory
<1>3. /\ RowsAt(rows, files, 23) /\ (Untouched => Chosen(Found.rows, rows)) /\ phase \in After
      /\ history.runs \in Nat /\ rows = dbs.el1.rows
      /\ Untouched => \A d \in Clients : clients[d] \in {<<>>, <<Reset>>}
  BY <1>2, ServingIs
<1>4. Untouched => step = Reset /\ step.do = "reset" /\ rest = <<>>
  <2>1. Untouched => clients[c] = <<Reset>>
    BY <1>1, <1>3
  <2>2. Head(<<Reset>>) = Reset /\ Tail(<<Reset>>) = <<>> /\ Reset.do = "reset"
    BY DEF Reset
  <2> QED
    BY <2>1, <2>2
<1>5. step \in Stmt
  <2> DEFINE s == clients[c]
  <2>1. s \in Seq(Stmt) /\ s # <<>>
    BY <1>1, <1>2
  <2> HIDE DEF s
  <2>2. Head(s) \in Stmt
    BY <2>1
  <2> QED
    BY <2>2 DEF s
<1> HIDE DEF step, rest
<1>6. Whole(dbs.el1, files, 23)'
  <2>1. CASE dbs' = dbs
    BY <1>1, <1>3, <2>1, El1Same
  <2>2. CASE step.do \notin {"reset", "collect"} /\ dbs' = [dbs EXCEPT !.el1 = Executed(dbs.el1, step)]
    <3>1. PICK db : db = dbs.el1
      OBVIOUS
    <3>2. UsedDb(db) /\ DbsOK(dbs)
      BY <1>3, <3>1, InUse DEF Ready
    <3>3. Whole(db, files, 23)
      BY <1>3, <3>1, AfterIs
    <3>4. Whole(Executed(db, step), files, 23)
      BY <1>5, <2>2, <3>2, <3>3, ExecutedWhole
    <3>5. dbs'.el1 = Executed(db, step)
      BY <2>2, <3>1, <3>2 DEF DbsOK
    <3> QED
      BY <1>1, <3>4, <3>5, Zenon
  <2> QED
    BY <1>1, <2>1, <2>2
<1>7. ASSUME Untouched'
      PROVE  /\ Untouched /\ Chosen(Found.rows, dbs'.el1.rows)
             /\ \A d \in Clients : clients'[d] \in {<<>>, <<Reset>>}
  <2>1. Untouched
    BY <1>1, <1>7 DEF Untouched
  <2>2. step.do = "reset" /\ rest = <<>>
    BY <1>4, <2>1
  <2>3. clients' = [clients EXCEPT ![c] = <<>>] /\ dbs' = dbs
    BY <1>1, <2>2
  <2>4. \A d \in Clients : clients'[d] = clients[d] \/ clients'[d] = <<>>
    BY <1>2, <2>3, Zenon
  <2>5. \A d \in Clients : clients'[d] \in {<<>>, <<Reset>>}
    BY <1>3, <2>1, <2>4, Zenon
  <2> QED
    BY <1>3, <2>1, <2>3, <2>5
<1>8. history'.runs \in Nat
  BY <1>1, <1>3
<1> QED
  BY <1>2, <1>6, <1>7, <1>8, ServingOn

LEMMA ChoiceUpgrades ==
    ASSUME Ready, UserCustomises
    PROVE  Upgraded' /\ Aside'
<1>1. Beside /\ phase = "serving" /\ UNCHANGED files
  BY CustomisesIs DEF Ready, UserCustomises
<1>2. /\ RowsAt(rows, files, 23) /\ phase \in After /\ TypeInv
      /\ history.runs \in Nat /\ HistoryOK(history) /\ rows = dbs.el1.rows /\ Table(rows)
  BY <1>1, ServingIs
<1>3. PICK choice \in {x \in job.choices : x[3] \in DOMAIN rows /\ <<x[1], x[2]>> \notin history.chosen} :
        LET k == choice[1]
            c == choice[2]
            t == choice[3]
        IN
        /\ dbs' = [dbs EXCEPT !.el1.rows = [q \in DOMAIN rows |->
                LET left == rows[q].on[k] \ {c}
                IN  IF q = t THEN [rows[q] EXCEPT !.on[k] = @ \cup {c}, !.by[k] = "customised"]
                    ELSE [rows[q] EXCEPT !.on[k] = left,
                                         !.by[k] = IF left = {} /\ c \in rows[q].on[k] THEN "notSet"
                                                   ELSE rows[q].by[k]]]]
        /\ history' = [history EXCEPT
                !.chosen = @ \cup {<<k, c>>},
                !.legacy = IF c \in ESims \cup {"SIM2"} THEN {x \in @ : x[1] # k} ELSE @,
                !.ever = IF (rows[t].on[k] \cup {c}) \cap (ESims \cup {"SIM2"}) = {} THEN @
                         ELSE @ \cup {<<k, t>>}]
  BY Zenon DEF UserCustomises
<1>4. history'.chosen = history.chosen \cup {<<choice[1], choice[2]>>} /\ history'.runs = history.runs
  <2>1. PICK legacy, ever :
            history' = [history EXCEPT !.chosen = @ \cup {<<choice[1], choice[2]>>}, !.legacy = legacy, !.ever = ever]
    BY <1>3, Zenon
  <2> DEFINE pick == <<choice[1], choice[2]>>
  <2> HIDE DEF pick
  <2>2. history' = [history EXCEPT !.chosen = @ \cup {pick}, !.legacy = legacy, !.ever = ever]
    BY <2>1, Zenon DEF pick
  <2>3. history'.chosen = history.chosen \cup {pick} /\ history'.runs = history.runs
    BY <1>2, <2>2 DEF HistoryOK
  <2> QED
    BY <2>3, Zenon DEF pick
<1>5. ~Untouched' /\ history'.runs \in Nat
  BY <1>2, <1>4 DEF Untouched
<1>6. DbsOK(dbs) /\ UsedDb(dbs.el1)
  BY <1>2, InUse
<1>7. PICK R : dbs' = [dbs EXCEPT !.el1.rows = R] /\ dbs'.el1.rows = R
  <2>1. PICK R : dbs' = [dbs EXCEPT !.el1.rows = R]
    BY <1>3, Zenon
  <2> QED
    BY <1>6, <2>1, DbParts DEF DbsOK
<1>8. Tuned(rows, dbs'.el1.rows)
  BY <1>2, TunedSame, <1>1 DEF Beside
<1>9. Table(R) /\ RowsAt(R, files', 23)
  BY <1>1, <1>2, <1>7, <1>8, TunedTable, TunedRows
<1>10. Whole(dbs.el1, files, 23)'
  BY <1>2, <1>7, <1>9, El1Rows
<1> QED
  BY <1>1, <1>5, <1>10, ServingOn

-----------------------------------------------------------------------------
(* Every step *)

LEMMA NextUpgrades ==
    ASSUME Ready, [Next]_vars
    PROVE  Upgraded' /\ Aside'
<1>1. CASE StartStep
  BY <1>1, OpeningUpgrades, FolderUpgrades, MoveBackUpgrades, ScannerUpgrades, QueryUpgrades, CopyUpgrades,
     PathUpgrades, RemoveUpgrades, TitlesUpgrade DEF StartStep
<1>2. CASE UpgradeStep
  <2>1. OnCreate \/ BeginUpgrade \/ EndUpgrade \/ Mid
    BY <1>2 DEF UpgradeStep, Mid
  <2> QED
    BY <2>1, OnCreateUpgrades, BeginUpgrades, EndUpgrades, MidUpgrades
<1>3. CASE ScanStep
  BY <1>3, ScanUpgrades
<1>4. CASE ESimStep
  BY <1>4, CheckUpgrades, StatementUpgrades, TimeUpgrades, ChoiceUpgrades DEF ESimStep
<1>5. CASE Crash
  BY <1>5, CrashUpgrades
<1>6. CASE UNCHANGED vars
  BY <1>6, NothingUpgrades DEF vars
<1> QED
  BY <1>1, <1>2, <1>3, <1>4, <1>5, <1>6 DEF Next

LEMMA FailuresGrow == ASSUME TypeInv, [Next]_vars PROVE failures' \in {failures, failures + 1}
<1>1. CASE StartStep
  <2>1. CASE MoveDirectory \/ RemoveRingtoneFolder
    BY <2>1 DEF MoveDirectory, RemoveRingtoneFolder, Ends, Fails
  <2>2. CASE UpdateRingtoneLanguage \/ UpdateVibrationLanguage
    BY <2>2 DEF UpdateRingtoneLanguage, UpdateVibrationLanguage, Ends, Fails
  <2>3. CASE RingtoneScanner \/ WaitFor \/ UpdatePath
    BY <2>3 DEF RingtoneScanner, WaitFor, UpdatePath, Fails
  <2>4. CASE ChecMoveDb \/ MoveEL2DBToEL1DB \/ SetMoveEL2DBToEL1
    BY <2>4 DEF ChecMoveDb, MoveEL2DBToEL1DB, SetMoveEL2DBToEL1, Fails
  <2>5. CASE CheckRingtoneDbDefaultSettings \/ AccessRingtoneDir \/ CreatePreloadFolder
    BY <2>5 DEF CheckRingtoneDbDefaultSettings, AccessRingtoneDir, CreatePreloadFolder, Fails
  <2>6. CASE QueryOldPaths \/ CopyOldFile
    BY <2>6, CopyIs DEF QueryOldPaths, Fails
  <2> QED
    BY <1>1, <2>1, <2>2, <2>3, <2>4, <2>5, <2>6 DEF StartStep
<1>2. CASE UpgradeStep
  <2>1. OnCreate \/ BeginUpgrade \/ EndUpgrade \/ Mid
    BY <1>2 DEF UpgradeStep, Mid
  <2>2. CASE Mid
    BY <2>2, MidPasses DEF Passed, Advanced
  <2>3. CASE OnCreate
    BY <2>3, OnCreateIs DEF Fails
  <2>4. CASE BeginUpgrade \/ EndUpgrade
    BY <2>4 DEF BeginUpgrade, EndUpgrade, Fails
  <2> QED
    BY <2>1, <2>2, <2>3, <2>4
<1>3. CASE ScanStep
  BY <1>3, BuildIs, CommitIs, CommitVibrateIs, DefaultToneIs, FlushIs, ConfIs, EndIs DEF ScanStep, SetInitScanner, Fails
<1>4. CASE ESimStep
  BY <1>4, ESimIs DEF Beside
<1>5. CASE Crash
  BY <1>5 DEF Crash
<1>6. CASE UNCHANGED vars
  BY <1>6 DEF vars
<1> QED
  BY <1>1, <1>2, <1>3, <1>4, <1>5, <1>6 DEF Next

LEMMA UpgradeDone ==
    ASSUME TypeInv, Grown, failures = 0 => Upgraded /\ Aside
    PROVE  UpgradeCompletes
<1> DEFINE db == dbs.el1
<1> SUFFICES ASSUME phase = "defaults" /\ failures = 0
             PROVE  /\ db.version = RINGTONE_RDB_VERSION
                    /\ db.schema = {"language", "conf", "vibrate", "flags", "haptic"}
                    /\ DOMAIN db.conf = Types /\ DOMAIN db.sims = SimKeys
                    /\ \A t \in DOMAIN db.rows :
                        /\ db.rows[t].mime /\ db.rows[t].media
                        /\ db.rows[t].place = "misplaced" => <<t, "new">> \notin files
                    /\ db.vibrations # <<>> => \A key \in DOMAIN db.sims : ~IsDirty(db.sims[key])
                    /\ Untouched =>
                        /\ \A t \in DOMAIN Found.rows, k \in Kinds :
                            Found.rows[t].by[k] = "customised" =>
                                t \in DOMAIN db.rows /\ Found.rows[t].on[k] \subseteq db.rows[t].on[k]
                        /\ crashes = 0 =>
                            \A x \in {x \in DOMAIN Defaults \cap Types : Defaults[x] \in DOMAIN db.rows} :
                                /\ db.conf[x] = Defaults[x]
                                /\ x[2] \in ESims /\ Found.version \in 4 .. 12 =>
                                    \/ x[2] \in db.rows[Defaults[x]].on[x[1]]
                                    \/ IsCardAlreadyCustomised(db.rows, x[1], x[2])
  BY Zenon DEF UpgradeCompletes
<1>1. db.version = RINGTONE_RDB_VERSION /\ UsedDb(db) /\ phase \in After
  BY InUse DEF After
<1>2. Progress(db, 23)
  <2>1. StaysInEl1 /\ Stage(dbs.el1)
    BY DEF Upgraded, StillInEl2
  <2>2. PICK p \in FirstOf(dbs.el1.version) .. 23 : Progress(dbs.el1, p) /\ p = FirstOf(dbs.el1.version)
    BY <2>1, Zenon DEF Stage
  <2>3. dbs.el1.version = 13
    BY <1>1 DEF RINGTONE_RDB_VERSION
  <2>4. FirstOf(dbs.el1.version) = FirstOf(13)
    BY <2>3, Zenon
  <2>5. p = 23
    BY <2>2, <2>4, FirstIs
  <2> QED
    BY <2>2, <2>5
<1>3. Whole(db, files, 23) /\ (Untouched => Chosen(Found.rows, db.rows))
  BY <1>2, Zenon DEF Progress
<1> HIDE DEF db
<1>4. /\ db.schema = {"language", "conf", "vibrate", "flags", "haptic"}
      /\ DOMAIN db.conf = Types /\ DOMAIN db.sims = SimKeys
  <2>1. db.schema \subseteq Schemas
    BY <1>1, DbParts
  <2> QED
    BY <1>3, <2>1 DEF Whole, SchemaAt, ConfAt, SimsAt, Schemas
<1>5. /\ \A t \in DOMAIN db.rows :
            /\ db.rows[t].mime /\ db.rows[t].media
            /\ db.rows[t].place = "misplaced" => <<t, "new">> \notin files
      /\ db.vibrations # <<>> => \A key \in DOMAIN db.sims : ~IsDirty(db.sims[key])
  <2>1. RowsAt(db.rows, files, 23) /\ Clean(db.sims)
    BY <1>3 DEF Whole, SimsAt
  <2> QED
    BY <2>1, RowsAre DEF Clean
<1>6. ASSUME Untouched
      PROVE  \A t \in DOMAIN Found.rows, k \in Kinds :
                Found.rows[t].by[k] = "customised" =>
                    t \in DOMAIN db.rows /\ Found.rows[t].on[k] \subseteq db.rows[t].on[k]
  <2>1. PICK F : F = Found.rows
    OBVIOUS
  <2>2. Chosen(F, db.rows)
    BY <1>3, <1>6, <2>1
  <2>3. \A t \in DOMAIN F, k \in Kinds :
            F[t].by[k] = "customised" => t \in DOMAIN db.rows /\ F[t].on[k] \subseteq db.rows[t].on[k]
    BY <2>2 DEF Chosen
  <2> QED
    BY <2>1, <2>3, Zenon
<1>7. ASSUME crashes = 0, NEW x \in DOMAIN Defaults \cap Types, Defaults[x] \in DOMAIN db.rows
      PROVE  /\ db.conf[x] = Defaults[x]
             /\ x[2] \in ESims /\ Found.version \in 4 .. 12 => x[2] \in db.rows[Defaults[x]].on[x[1]]
  <2>1. PICK v : v = Found.version
    OBVIOUS
  <2>2. DefaultsAt(db.conf, db.rows, v, 23)
    BY <1>2, <1>7, <2>1, Zenon DEF Progress
  <2>3. ConfSet(db.conf, db.rows) /\ (v \in 4 .. 12 => \A i \in 1 .. 4 : ESimSet(db.rows, ESimDefaultParams[i]))
    BY <2>2 DEF DefaultsAt
  <2>4. db.conf[x] = Defaults[x]
    BY <1>7, <2>3, Zenon DEF ConfSet
  <2>5. ASSUME x[2] \in ESims PROVE \E i \in 1 .. 4 : x = ESimDefaultParams[i]
    <3>1. x[1] \in CardKinds /\ x = <<x[1], x[2]>>
      BY <1>7, <2>5 DEF Types, Slots, ESims
    <3> QED
      BY <2>5, <3>1 DEF ESims, CardKinds, ESimDefaultParams
  <2>6. ASSUME x[2] \in ESims, v \in 4 .. 12 PROVE x[2] \in db.rows[Defaults[x]].on[x[1]]
    <3>1. ESimSet(db.rows, x)
      BY <2>3, <2>5, <2>6, Zenon
    <3> QED
      BY <1>7, <3>1, Zenon DEF ESimSet
  <2> QED
    BY <2>1, <2>4, <2>6, Zenon
<1> QED
  BY <1>1, <1>4, <1>5, <1>6, <1>7, Zenon

(* From whatever version and with whatever rows, cards and scenario, wherever the process     *)
(* dies and however often it is started again: where no statement failed, the store that      *)
(* RingtoneRdbStore::Init hands over (OnCreate, OnUpgrade) has the current version with its   *)
(* tables, rows and settings, and no choice of the user's is lost; without a crash it also    *)
(* has the default tones.  This is so for a library that grew as the code lets it.            *)
THEOREM UpgradeIsComplete == Spec => [](Grown => UpgradeCompletes)
<1> DEFINE Inv == TypeInv /\ FactoryInv /\ UpgradeInv
<1>1. Init => Inv
  BY InitTypes, InitKept, InitUpgraded DEF UpgradeInv
<1>2. Inv /\ [Next]_vars => Inv'
  <2> SUFFICES ASSUME Inv, [Next]_vars PROVE Inv'
    OBVIOUS
  <2>1. TypeInv' /\ FactoryInv' /\ job' = job
    BY NextTypes, NextKeeps, JobStays
  <2>2. Grown' <=> Grown
    BY <2>1, GrownSame
  <2>3. failures' = 0 => failures = 0
    BY FailuresGrow DEF TypeInv, Counted
  <2>4. ASSUME Grown, failures' = 0 PROVE Upgraded' /\ Aside'
    <3>1. Ready
      BY <2>1, <2>3, <2>4 DEF Ready, UpgradeInv
    <3> QED
      BY <3>1, NextUpgrades
  <2> QED
    BY <2>1, <2>2, <2>4 DEF UpgradeInv
<1>3. Inv => (Grown => UpgradeCompletes)
  BY UpgradeDone DEF UpgradeInv
<1> QED
  BY <1>1, <1>2, <1>3, PTL DEF Spec
=============================================================================
