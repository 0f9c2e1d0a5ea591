---------------------------- MODULE Startup_proofs --------------------------
(***************************************************************************)
(* Proofs about the start, for every set of libraries and every language.  *)
(***************************************************************************)
EXTENDS Startup, ToneSettings_proofs, FiniteSetTheorems

-----------------------------------------------------------------------------
(* Rows *)

GoodRow(r) == r \in Tone /\ \A k \in Kinds : r.on[k] \subseteq Slots(k)
Table(R) == DOMAIN R \subseteq Paths /\ \A t \in DOMAIN R : GoodRow(R[t])

(* What no setting and no media type changes; a type that is known stays known. *)
SameTone(r, old) ==
    /\ r.source = old.source /\ r.place = old.place /\ r.title = old.title /\ r.mark = old.mark
    /\ (old.mime => r.mime) /\ (old.media => r.media)

(* Rows whose tones stay what they are. *)
(* What the upgrade, a scan or a translation leaves of a row's use. *)
SameUse(r, old) ==
    r.source = old.source /\ r.on = old.on /\ r.by = old.by /\ r.mime = old.mime /\ r.media = old.media

Tuned(R, new) ==
    DOMAIN new = DOMAIN R /\ \A t \in DOMAIN R : GoodRow(new[t]) /\ SameTone(new[t], R[t])

LEMMA TunedTable ==
    ASSUME NEW R, NEW new, Table(R), Tuned(R, new)
    PROVE  Table(new)
BY DEF Table, Tuned

LEMMA TunedSame == ASSUME NEW R, Table(R) PROVE Tuned(R, R)
BY DEF Table, Tuned, SameTone

LEMMA TunedTwice ==
    ASSUME NEW R, NEW S, NEW T, Tuned(R, S), Tuned(S, T)
    PROVE  Tuned(R, T)
BY DEF Tuned, SameTone

LEMMA SlotsInAll == \A k : Slots(k) \subseteq AllSlots
BY DEF Slots, AllSlots

LEMMA Resettable ==
    ASSUME NEW r, GoodRow(r), NEW on, NEW by,
           on \in [Kinds -> SUBSET AllSlots], \A k \in Kinds : on[k] \subseteq Slots(k), by \in [Kinds -> Sources]
    PROVE  LET new == [r EXCEPT !.on = on, !.by = by]
           IN  GoodRow(new) /\ SameTone(new, r)
BY DEF GoodRow, SameTone, Tone

LEMMA SetOfKind ==
    ASSUME NEW r, GoodRow(r), NEW k \in Kinds, NEW C, C \subseteq Slots(k)
    PROVE  /\ \A b \in Sources : LET new == [r EXCEPT !.on[k] = C, !.by[k] = b]
                                 IN  GoodRow(new) /\ SameTone(new, r)
           /\ LET new == [r EXCEPT !.on[k] = C]
              IN  GoodRow(new) /\ SameTone(new, r)
<1> DEFINE on == [r.on EXCEPT ![k] = C]
<1>1. r \in Tone /\ r.on \in [Kinds -> SUBSET AllSlots] /\ r.by \in [Kinds -> Sources]
      /\ \A j \in Kinds : r.on[j] \subseteq Slots(j)
  BY DEF GoodRow, Tone
<1>2. C \subseteq AllSlots
  BY SlotsInAll
<1>3. on \in [Kinds -> SUBSET AllSlots] /\ \A j \in Kinds : on[j] \subseteq Slots(j)
  BY <1>1, <1>2
<1>4. ASSUME NEW b \in Sources
      PROVE  LET new == [r EXCEPT !.on[k] = C, !.by[k] = b] IN GoodRow(new) /\ SameTone(new, r)
  <2> DEFINE by == [r.by EXCEPT ![k] = b]
  <2>1. by \in [Kinds -> Sources]
    BY <1>1
  <2>2. [r EXCEPT !.on[k] = C, !.by[k] = b] = [r EXCEPT !.on = on, !.by = by]
    BY <1>1 DEF Tone
  <2> HIDE DEF on, by
  <2> QED
    BY <1>3, <2>1, <2>2, Resettable
<1>5. [r EXCEPT !.on[k] = C] = [r EXCEPT !.on = on, !.by = r.by]
  BY <1>1 DEF Tone
<1> HIDE DEF on
<1>6. GoodRow([r EXCEPT !.on[k] = C]) /\ SameTone([r EXCEPT !.on[k] = C], r)
  BY <1>1, <1>3, <1>5, Resettable
<1> QED
  BY <1>4, <1>6

LEMMA MediaKnown ==
    ASSUME NEW r, GoodRow(r)
    PROVE  /\ GoodRow([r EXCEPT !.media = TRUE]) /\ SameTone([r EXCEPT !.media = TRUE], r)
           /\ GoodRow([r EXCEPT !.mime = TRUE, !.media = TRUE])
           /\ SameTone([r EXCEPT !.mime = TRUE, !.media = TRUE], r)
BY DEF GoodRow, SameTone, Tone

-----------------------------------------------------------------------------
(* Settings that are flushed *)

LEMMA ApplyCardTunes ==
    ASSUME NEW R, Table(R), NEW item \in Item, NEW card \in item.cards
    PROVE  Tuned(R, ApplyCardSetting(R, item, card))
<1> DEFINE new == ApplyCardSetting(R, item, card)
           tuned(t) == [R[t] EXCEPT !.on[item.kind] = @ \cup {card}, !.by[item.kind] = item.by]
<1>1. item.kind \in Kinds /\ card \in Slots(item.kind) /\ item.by \in Sources
  BY DEF Item, Sources
<1>2. ASSUME NEW t \in DOMAIN R PROVE GoodRow(tuned(t)) /\ SameTone(tuned(t), R[t])
  <2> DEFINE C == R[t].on[item.kind] \cup {card}
  <2>1. GoodRow(R[t])
    BY DEF Table
  <2>2. C \subseteq Slots(item.kind)
    BY <1>1, <2>1 DEF GoodRow
  <2>3. tuned(t) = [R[t] EXCEPT !.on[item.kind] = C, !.by[item.kind] = item.by]
    BY <2>1 DEF GoodRow, Tone
  <2> HIDE DEF C
  <2> QED
    BY <1>1, <2>1, <2>2, <2>3, SetOfKind
<1>3. new = [t \in DOMAIN R |-> IF t \in {item.path} THEN tuned(t) ELSE R[t]]
  BY DEF ApplyCardSetting, Change
<1>4. Tuned(R, R)
  BY TunedSame
<1> HIDE DEF new, tuned
<1> QED
  BY <1>2, <1>3, <1>4 DEF Tuned, new

LEMMA ClearBitTunes ==
    ASSUME NEW R, Table(R), NEW kind \in Kinds, NEW card
    PROVE  Tuned(R, ClearPresetCardBit(R, kind, card))
<1> DEFINE new == ClearPresetCardBit(R, kind, card)
           tuned(t) == [Without(R[t], kind, {card}) EXCEPT
                            !.by[kind] = IF R[t].on[kind] = {card} THEN "invalid"
                                         ELSE Without(R[t], kind, {card}).by[kind]]
<1>1. ASSUME NEW t \in DOMAIN R PROVE GoodRow(tuned(t)) /\ SameTone(tuned(t), R[t])
  <2> DEFINE C == R[t].on[kind] \ {card}
             b == IF R[t].on[kind] = {card} THEN "invalid" ELSE R[t].by[kind]
  <2>1. GoodRow(R[t])
    BY DEF Table
  <2>2. C \subseteq Slots(kind) /\ b \in Sources
    BY <2>1 DEF GoodRow, Tone, Sources
  <2>3. tuned(t) = [R[t] EXCEPT !.on[kind] = C, !.by[kind] = b]
    <3>1. \A r \in Tone :
            [Without(r, kind, {card}) EXCEPT
                !.by[kind] = IF r.on[kind] = {card} THEN "invalid" ELSE Without(r, kind, {card}).by[kind]]
            = [r EXCEPT !.on[kind] = r.on[kind] \ {card},
                        !.by[kind] = IF r.on[kind] = {card} THEN "invalid" ELSE r.by[kind]]
      BY DEF Tone, Without
    <3> QED
      BY <2>1, <3>1, Zenon DEF GoodRow
  <2> DEFINE r == R[t]
             v == [r EXCEPT !.on[kind] = C, !.by[kind] = b]
  <2>4. GoodRow(r) /\ tuned(t) = v
    BY <2>1, <2>3, Zenon
  <2> HIDE DEF C, b, r
  <2>5. GoodRow(v) /\ SameTone(v, r)
    BY <2>2, <2>4, SetOfKind
  <2> HIDE DEF v, tuned
  <2> QED
    BY <2>4, <2>5, Zenon DEF r
<1>2. new = [t \in DOMAIN R |-> IF t \in PresetHolders(R, kind, card) THEN tuned(t) ELSE R[t]]
  BY Zenon DEF ClearPresetCardBit, Change
<1>3. Tuned(R, R)
  BY TunedSame
<1> HIDE DEF new, tuned
<1> QED
  BY <1>1, <1>2, <1>3 DEF Tuned, new

LEMMA ApplyNonCardTunes ==
    ASSUME NEW R, Table(R), NEW item \in Item, item.kind \notin CardKinds
    PROVE  Tuned(R, ApplyNonCardSetting(R, item, FALSE))
<1> DEFINE new == ApplyNonCardSetting(R, item, FALSE)
           set == Change(R, {item.path},
                         LAMBDA row : [row EXCEPT !.on[item.kind] = {"device"}, !.by[item.kind] = item.by])
           tuned(t) == [R[t] EXCEPT !.on[item.kind] = {"device"}, !.by[item.kind] = item.by]
<1>1. item.kind \in Kinds /\ {"device"} \subseteq Slots(item.kind) /\ item.by \in Sources
  BY DEF Item, Sources, Slots
<1>2. ASSUME NEW t \in DOMAIN R PROVE GoodRow(tuned(t)) /\ SameTone(tuned(t), R[t])
  <2>1. GoodRow(R[t])
    BY DEF Table
  <2> DEFINE C == {"device"}
  <2>2. C \subseteq Slots(item.kind) /\ tuned(t) = [R[t] EXCEPT !.on[item.kind] = C, !.by[item.kind] = item.by]
    BY <1>1
  <2> HIDE DEF C
  <2> QED
    BY <1>1, <2>1, <2>2, SetOfKind
<1>3. set = [t \in DOMAIN R |-> IF t \in {item.path} THEN tuned(t) ELSE R[t]]
  BY DEF Change
<1>4. new = R \/ new = set
  BY DEF ApplyNonCardSetting
<1>5. Tuned(R, R)
  BY TunedSame
<1> HIDE DEF set, tuned
<1>6. Tuned(R, set)
  BY <1>2, <1>3, <1>5 DEF Tuned
<1> QED
  BY <1>4, <1>5, <1>6

LEMMA FlushTunes ==
    ASSUME NEW R, Table(R), NEW cache, NEW presets, NEW step,
           step.item \in Item, step.card \in step.item.cards
    PROVE  Tuned(R, Flush(R, cache, presets, step, FALSE))
<1> DEFINE new == Flush(R, cache, presets, step, FALSE)
           item == step.item
           card == step.card
           kind == item.kind
           set == ApplyCardSetting(R, item, card)
<1>1. item \in Item /\ card \in item.cards /\ kind \in Kinds
  BY DEF Item
<1>2. Tuned(R, R)
  BY TunedSame
<1>3. CASE kind \notin CardKinds
  <2>1. new = ApplyNonCardSetting(R, item, FALSE)
    BY <1>3 DEF Flush
  <2> HIDE DEF new, item
  <2>2. Tuned(R, new)
    BY <1>1, <1>3, <2>1, ApplyNonCardTunes
  <2> QED
    BY <2>2 DEF new
<1>4. CASE kind \in CardKinds
  <2> DEFINE cleared == ClearPresetCardBit(R, kind, card)
             both == ClearPresetCardBit(set, kind, card)
  <2>1. new = R \/ new = cleared \/ new = both \/ new = set
    BY <1>4 DEF Flush, ApplyCardSettings
  <2> HIDE DEF new, item, card
  <2>2. Tuned(R, set)
    BY <1>1, ApplyCardTunes
  <2>3. Table(set)
    BY <2>2, TunedTable
  <2>4. Tuned(R, cleared)
    BY <1>1, ClearBitTunes
  <2> HIDE DEF set
  <2>5. Tuned(set, both)
    BY <1>1, <2>3, ClearBitTunes
  <2>6. Tuned(R, both)
    BY <2>2, <2>5, TunedTwice
  <2>7. Tuned(R, new)
    BY <1>2, <2>1, <2>2, <2>4, <2>6
  <2> QED
    BY <2>7 DEF new
<1> QED
  BY <1>3, <1>4

LEMMA ClearPresetsTunes ==
    ASSUME NEW R, Table(R)
    PROVE  Tuned(R, ClearPresetCardBitsByCustom(R))
<1> DEFINE new == ClearPresetCardBitsByCustom(R)
           on(t) == [k \in Kinds |->
                        IF k \in CardKinds /\ R[t].by[k] = "preset"
                        THEN {c \in R[t].on[k] : ~IsCardAlreadyCustomised(R, k, c)} ELSE R[t].on[k]]
<1>0. new = [t \in DOMAIN R |-> [R[t] EXCEPT !.on = on(t), !.by = R[t].by]]
  BY DEF ClearPresetCardBitsByCustom, Table, GoodRow, Tone
<1>1. ASSUME NEW t \in DOMAIN R PROVE GoodRow(new[t]) /\ SameTone(new[t], R[t])
  <2>1. GoodRow(R[t]) /\ R[t] \in Tone /\ R[t].on \in [Kinds -> SUBSET AllSlots]
        /\ R[t].by \in [Kinds -> Sources] /\ \A k \in Kinds : R[t].on[k] \subseteq Slots(k)
    BY DEF Table, GoodRow, Tone
  <2>2. \A k \in Kinds : on(t)[k] \subseteq R[t].on[k]
    OBVIOUS
  <2>3. on(t) \in [Kinds -> SUBSET AllSlots] /\ \A k \in Kinds : on(t)[k] \subseteq Slots(k)
    BY <2>1, <2>2
  <2> DEFINE r == R[t]
             o == on(t)
             b == r.by
             v == [r EXCEPT !.on = o, !.by = b]
  <2>4. new[t] = v /\ GoodRow(r) /\ b \in [Kinds -> Sources]
    BY <1>0, <2>1
  <2>5. o \in [Kinds -> SUBSET AllSlots] /\ \A k \in Kinds : o[k] \subseteq Slots(k)
    BY <2>3
  <2> HIDE DEF o, b, r, new
  <2>6. GoodRow(v) /\ SameTone(v, r)
    BY <2>4, <2>5, Resettable
  <2> HIDE DEF v
  <2> QED
    BY <2>4, <2>6, Zenon DEF r
<1>2. DOMAIN new = DOMAIN R
  BY DEF ClearPresetCardBitsByCustom
<1> HIDE DEF new
<1> QED
  BY <1>1, <1>2 DEF Tuned, new

-----------------------------------------------------------------------------
(* Databases *)

Confs(conf) == \A type \in DOMAIN conf : type \in Types /\ conf[type] \in Paths \cup {"null", "missing"}
Sims(sims) == \A key \in DOMAIN sims : key \in SimKeys /\ sims[key] \in SimRow
Vibrations(V) == \A v \in DOMAIN V : V[v] \in [title : Title, mark : Mark]
Schemas == {"language", "conf", "vibrate", "flags", "haptic"}

(* A database that was created. *)
UsedDb(db) == IsDb(db) /\ db.version # 0

LEMMA DbParts ==
    ASSUME NEW db
    PROVE  UsedDb(db) <=>
            /\ db = [version |-> db.version, schema |-> db.schema, rows |-> db.rows, conf |-> db.conf,
                     sims |-> db.sims, vibrations |-> db.vibrations]
            /\ db.version \in 1 .. RINGTONE_RDB_VERSION /\ db.schema \subseteq Schemas
            /\ Table(db.rows) /\ Confs(db.conf) /\ Sims(db.sims) /\ Vibrations(db.vibrations)
BY DEF UsedDb, IsDb, DbOK, Table, GoodRow, Confs, Sims, Vibrations, Schemas, RINGTONE_RDB_VERSION

LEMMA NoDbTyped == IsDb(NoDb) /\ NoDb.version = 0 /\ DOMAIN NoDb.rows = {} /\ DOMAIN NoDb.vibrations = {}
BY DEF IsDb, DbOK, NoDb, RINGTONE_RDB_VERSION

LEMMA IsDbTable == ASSUME NEW db, IsDb(db) PROVE Table(db.rows)
BY DEF IsDb, DbOK, Table, GoodRow

(* One part of a database is replaced. *)
LEMMA DbWith ==
    ASSUME NEW db, UsedDb(db)
    PROVE  /\ \A R : Table(R) =>
                /\ UsedDb([db EXCEPT !.rows = R]) /\ [db EXCEPT !.rows = R].rows = R
                /\ [db EXCEPT !.rows = R].version = db.version
                /\ [db EXCEPT !.rows = R].vibrations = db.vibrations
           /\ \A V : Vibrations(V) =>
                /\ UsedDb([db EXCEPT !.vibrations = V]) /\ [db EXCEPT !.vibrations = V].vibrations = V
                /\ [db EXCEPT !.vibrations = V].version = db.version
                /\ [db EXCEPT !.vibrations = V].rows = db.rows
           /\ \A conf : Confs(conf) =>
                /\ UsedDb([db EXCEPT !.conf = conf])
                /\ [db EXCEPT !.conf = conf].version = db.version
                /\ [db EXCEPT !.conf = conf].rows = db.rows
                /\ [db EXCEPT !.conf = conf].vibrations = db.vibrations
           /\ \A sims : Sims(sims) =>
                /\ UsedDb([db EXCEPT !.sims = sims])
                /\ [db EXCEPT !.sims = sims].version = db.version
                /\ [db EXCEPT !.sims = sims].rows = db.rows
                /\ [db EXCEPT !.sims = sims].vibrations = db.vibrations
           /\ \A S : S \subseteq Schemas =>
                /\ UsedDb([db EXCEPT !.schema = S])
                /\ [db EXCEPT !.schema = S].version = db.version
                /\ [db EXCEPT !.schema = S].rows = db.rows
                /\ [db EXCEPT !.schema = S].vibrations = db.vibrations
           /\ LET new == [db EXCEPT !.version = RINGTONE_RDB_VERSION]
              IN  UsedDb(new) /\ new.version = RINGTONE_RDB_VERSION /\ new.rows = db.rows
                  /\ new.vibrations = db.vibrations
<1>1. /\ db = [version |-> db.version, schema |-> db.schema, rows |-> db.rows, conf |-> db.conf,
               sims |-> db.sims, vibrations |-> db.vibrations]
      /\ db.version \in 1 .. RINGTONE_RDB_VERSION /\ db.schema \subseteq Schemas
      /\ Table(db.rows) /\ Confs(db.conf) /\ Sims(db.sims) /\ Vibrations(db.vibrations)
  BY DbParts
<1> DEFINE made(n, S, R, conf, sims, V) ==
                [version |-> n, schema |-> S, rows |-> R, conf |-> conf, sims |-> sims, vibrations |-> V]
<1>2. ASSUME NEW n \in 1 .. RINGTONE_RDB_VERSION, NEW S \in SUBSET Schemas, NEW R, Table(R),
             NEW conf, Confs(conf), NEW sims, Sims(sims), NEW V, Vibrations(V)
      PROVE  UsedDb(made(n, S, R, conf, sims, V))
  <2> DEFINE v == made(n, S, R, conf, sims, V)
  <2>1. v.version = n /\ v.schema = S /\ v.rows = R /\ v.conf = conf /\ v.sims = sims /\ v.vibrations = V
    OBVIOUS
  <2>2. v = [version |-> v.version, schema |-> v.schema, rows |-> v.rows, conf |-> v.conf,
             sims |-> v.sims, vibrations |-> v.vibrations]
    OBVIOUS
  <2> HIDE DEF v
  <2>3. UsedDb(v)
    BY <1>2, <2>1, <2>2, DbParts
  <2> QED
    BY <2>3 DEF v
<1>3. ASSUME NEW R, Table(R)
      PROVE  /\ UsedDb([db EXCEPT !.rows = R]) /\ [db EXCEPT !.rows = R].rows = R
             /\ [db EXCEPT !.rows = R].version = db.version
             /\ [db EXCEPT !.rows = R].vibrations = db.vibrations
  <2>1. [db EXCEPT !.rows = R] = made(db.version, db.schema, R, db.conf, db.sims, db.vibrations)
    BY <1>1
  <2> QED
    BY <1>1, <1>2, <1>3, <2>1
<1>4. ASSUME NEW V, Vibrations(V)
      PROVE  /\ UsedDb([db EXCEPT !.vibrations = V]) /\ [db EXCEPT !.vibrations = V].vibrations = V
             /\ [db EXCEPT !.vibrations = V].version = db.version
             /\ [db EXCEPT !.vibrations = V].rows = db.rows
  <2>1. [db EXCEPT !.vibrations = V] = made(db.version, db.schema, db.rows, db.conf, db.sims, V)
    BY <1>1
  <2> QED
    BY <1>1, <1>2, <1>4, <2>1
<1>5. ASSUME NEW conf, Confs(conf)
      PROVE  /\ UsedDb([db EXCEPT !.conf = conf])
             /\ [db EXCEPT !.conf = conf].version = db.version
             /\ [db EXCEPT !.conf = conf].rows = db.rows
             /\ [db EXCEPT !.conf = conf].vibrations = db.vibrations
  <2>1. [db EXCEPT !.conf = conf] = made(db.version, db.schema, db.rows, conf, db.sims, db.vibrations)
    BY <1>1
  <2> QED
    BY <1>1, <1>2, <1>5, <2>1
<1>6. ASSUME NEW sims, Sims(sims)
      PROVE  /\ UsedDb([db EXCEPT !.sims = sims])
             /\ [db EXCEPT !.sims = sims].version = db.version
             /\ [db EXCEPT !.sims = sims].rows = db.rows
             /\ [db EXCEPT !.sims = sims].vibrations = db.vibrations
  <2>1. [db EXCEPT !.sims = sims] = made(db.version, db.schema, db.rows, db.conf, sims, db.vibrations)
    BY <1>1
  <2> QED
    BY <1>1, <1>2, <1>6, <2>1
<1>7. ASSUME NEW S, S \subseteq Schemas
      PROVE  /\ UsedDb([db EXCEPT !.schema = S])
             /\ [db EXCEPT !.schema = S].version = db.version
             /\ [db EXCEPT !.schema = S].rows = db.rows
             /\ [db EXCEPT !.schema = S].vibrations = db.vibrations
  <2>1. [db EXCEPT !.schema = S] = made(db.version, S, db.rows, db.conf, db.sims, db.vibrations)
    BY <1>1
  <2> QED
    BY <1>1, <1>2, <1>7, <2>1
<1>8. LET new == [db EXCEPT !.version = RINGTONE_RDB_VERSION]
      IN  UsedDb(new) /\ new.version = RINGTONE_RDB_VERSION /\ new.rows = db.rows
          /\ new.vibrations = db.vibrations
  <2>1. [db EXCEPT !.version = RINGTONE_RDB_VERSION]
        = made(RINGTONE_RDB_VERSION, db.schema, db.rows, db.conf, db.sims, db.vibrations)
    BY <1>1
  <2>2. RINGTONE_RDB_VERSION \in 1 .. RINGTONE_RDB_VERSION
    BY DEF RINGTONE_RDB_VERSION
  <2>3. UsedDb(made(RINGTONE_RDB_VERSION, db.schema, db.rows, db.conf, db.sims, db.vibrations))
    BY <1>1, <1>2, <2>2
  <2> QED
    BY <1>1, <2>1, <2>3
<1> QED
  BY <1>3, <1>4, <1>5, <1>6, <1>7, <1>8

-----------------------------------------------------------------------------
(* The types *)

After == {"defaults", "dir", "makeDir", "moveBack", "scan", "wait", "paths", "copy", "save", "ringtones",
          "vibrations", "serving"}
Phases == After \cup {"off", "open", "upgrade", "backup", "moved"}

WorkOK(w) ==
    /\ w = [open |-> w.open, todo |-> w.todo, left |-> w.left, all |-> w.all, language |-> w.language]
    /\ w.open \in {"el1", "el2"} /\ w.all \in BOOLEAN

ScanOK(s) ==
    /\ s = [phase |-> s.phase, buffer |-> s.buffer, cache |-> s.cache, presets |-> s.presets, todo |-> s.todo]
    /\ s.buffer = [rows |-> s.buffer.rows, vibrations |-> s.buffer.vibrations]
    /\ Table(s.buffer.rows) /\ Vibrations(s.buffer.vibrations)
    /\ AreSettings(s.cache)
    /\ \A step \in s.todo : step.item \in Item /\ step.card \in step.item.cards
    /\ s.phase = "idle" => s = NoScan

(* A statement of CheckSimCard. *)
Stmt == {x \in [do : {"copy", "add", "clear", "preset", "collect", "reset"}, kind : CardKinds \cup {""},
                from : SimCards \cup {""}, to : SUBSET SimCards] :
            x.do \in {"add", "clear", "preset", "collect"} => x.kind \in CardKinds}

HistoryOK(h) ==
    /\ h = [legacy |-> h.legacy, ever |-> h.ever, chosen |-> h.chosen, was |-> h.was, runs |-> h.runs,
            torn |-> h.torn, late |-> h.late, unsaved |-> h.unsaved]
    /\ h.late \in BOOLEAN

DbsOK(d) == d = [el1 |-> d.el1, el2 |-> d.el2] /\ IsDb(d.el1) /\ IsDb(d.el2)

Stored ==
    /\ DbsOK(dbs)
    /\ prefs \in [completed : BOOLEAN, initScanner : BOOLEAN, eSimTime : {"none", "recent", "old"}]
    /\ files \subseteq Paths \X {"old", "new", "tmp"}
    /\ folder \in {"open", "closed", "none"}

Counted == first \in BOOLEAN /\ known \in BOOLEAN /\ failures \in Nat /\ crashes \in Nat

Memory == WorkOK(work) /\ ScanOK(scan) /\ clients \in [Clients -> Seq(Stmt)] /\ HistoryOK(history)

(* Which databases are there, where the start is, and what runs beside it. *)
Staged ==
    /\ phase \in Phases
    /\ phase \in After => dbs.el1.version = RINGTONE_RDB_VERSION /\ work.open = "el1"
    /\ phase = "upgrade" => Db.version # 0
    /\ phase = "backup" => dbs.el2.version = RINGTONE_RDB_VERSION /\ work.open = "el2"
    /\ phase = "moved" => dbs.el1.version = RINGTONE_RDB_VERSION
    /\ phase \in {"vibrations", "serving"} => work.language \in Languages
    /\ scan.phase # "idle" => phase \in After /\ (phase = "wait" \/ history.late)
    /\ \A c \in Clients : clients[c] # <<>> => phase = "serving"

TypeInv == job \in Jobs /\ Stored /\ Counted /\ Memory /\ Staged

LEMMA InitTypes == Init => TypeInv
<1> SUFFICES ASSUME Init PROVE TypeInv
  OBVIOUS
<1>1. job \in Jobs /\ IsJob(job)
  BY JobsAssumption DEF Init
<1>2. Stored
  <2>1. DbsOK(dbs)
    BY <1>1 DEF Init, IsJob, DbsOK
  <2>2. job.completed \in BOOLEAN /\ job.initScanner \in BOOLEAN
    BY <1>1 DEF IsJob
  <2> QED
    BY <1>1, <2>1, <2>2 DEF Init, IsJob, Stored
<1>3. Counted
  BY <1>1 DEF Init, IsJob, Counted
<1>4. Memory
  <2>1. WorkOK(NoWork) /\ HistoryOK(NoHistory)
    BY DEF WorkOK, NoWork, HistoryOK, NoHistory
  <2>2. ScanOK(NoScan)
    BY DEF ScanOK, NoScan, Table, Vibrations, AreSettings
  <2> QED
    BY <2>1, <2>2 DEF Init, Memory
<1>5. Staged
  BY DEF Init, Staged, Phases, After, NoScan
<1> QED
  BY <1>1, <1>2, <1>3, <1>4, <1>5 DEF TypeInv

(* The process dies in a step that leaves the stored things in order. *)
LEMMA DiesTypes ==
    ASSUME TypeInv, Dies, job' = job, failures' = failures, Stored'
    PROVE  TypeInv'
<1>1. /\ phase' = "off" /\ work' = NoWork /\ scan' = NoScan
      /\ clients' = [c \in Clients |-> <<>>]
      /\ crashes' = crashes + 1
      /\ history' = [history EXCEPT !.torn = history.torn \/ \E c \in Clients : clients[c] # <<>>]
  BY DEF Dies
<1>2. job \in Jobs /\ {job.reboots} \subseteq BOOLEAN
  BY JobsAssumption DEF TypeInv, IsJob
<1>3. first' \in BOOLEAN /\ known' \in BOOLEAN
  BY <1>2 DEF Dies, TypeInv, Counted
<1>4. Counted'
  BY <1>1, <1>3 DEF TypeInv, Counted
<1>5. Memory'
  <2>1. WorkOK(NoWork)
    BY DEF WorkOK, NoWork
  <2>2. ScanOK(NoScan)
    BY DEF ScanOK, NoScan, Table, Vibrations, AreSettings
  <2>3. HistoryOK(history')
    <3>1. HistoryOK(history)
      BY DEF TypeInv, Memory
    <3> QED
      BY <1>1, <3>1 DEF HistoryOK
  <2>4. clients' \in [Clients -> Seq(Stmt)]
    BY <1>1
  <2> QED
    BY <1>1, <2>1, <2>2, <2>3, <2>4 DEF Memory
<1>6. Staged'
  BY <1>1 DEF Staged, Phases, After, NoScan
<1> QED
  BY <1>2, <1>4, <1>5, <1>6 DEF TypeInv

(* One database is replaced. *)
LEMMA SetDbTypes ==
    ASSUME DbsOK(dbs), NEW db, IsDb(db), NEW area \in {"el1", "el2"}, dbs' = [dbs EXCEPT ![area] = db]
    PROVE  /\ DbsOK(dbs)' /\ dbs'[area] = db
           /\ area = "el1" => dbs'.el1 = db /\ dbs'.el2 = dbs.el2
           /\ area = "el2" => dbs'.el2 = db /\ dbs'.el1 = dbs.el1
<1>1. /\ dbs = [el1 |-> dbs.el1, el2 |-> dbs.el2]
      /\ IsDb(dbs.el1) /\ IsDb(dbs.el2)
  BY DEF DbsOK
<1>2. CASE area = "el1"
  <2>1. dbs' = [el1 |-> db, el2 |-> dbs.el2]
    BY <1>1, <1>2
  <2> QED
    BY <1>1, <1>2, <2>1 DEF DbsOK
<1>3. CASE area = "el2"
  <2>1. dbs' = [el1 |-> dbs.el1, el2 |-> db]
    BY <1>1, <1>3
  <2> QED
    BY <1>1, <1>3, <2>1 DEF DbsOK
<1> QED
  BY <1>2, <1>3

LEMMA OpenDb ==
    ASSUME TypeInv
    PROVE  /\ work.open \in {"el1", "el2"} /\ IsDb(Db) /\ DbsOK(dbs)
           /\ work.open = "el1" => Db = dbs.el1
           /\ work.open = "el2" => Db = dbs.el2
           /\ phase = "upgrade" => UsedDb(Db)
<1>1. work.open \in {"el1", "el2"} /\ DbsOK(dbs)
  BY DEF TypeInv, Memory, WorkOK, Stored
<1>2. /\ work.open = "el1" => Db = dbs.el1
      /\ work.open = "el2" => Db = dbs.el2
  BY DEF Db
<1>3. IsDb(Db)
  BY <1>1, <1>2 DEF DbsOK
<1>4. phase = "upgrade" => Db.version # 0
  BY DEF TypeInv, Staged
<1> QED
  BY <1>1, <1>2, <1>3, <1>4 DEF UsedDb

-----------------------------------------------------------------------------
(* The steps of an upgrade *)

Mid ==
    \/ AddColumn
    \/ AddRingMockHapticAudioTable
    \/ AddPreloadConfTable
    \/ AddVibrateTable
    \/ AddSimRows
    \/ UpdateMimeType
    \/ UpdateMediaType
    \/ UpdateDataUri
    \/ UpdateDefaultSystemTone
    \/ UpdateEsimDefaultSystemToneToToneFile
    \/ UpdateSimCardSettingESIMValue
    \/ SanitizeSoundModeVibrateRecords
    \/ SetUpgradeEsimTime

(* Tones stay what they are, or get the path of their name. *)
Righted(R, new) ==
    /\ DOMAIN new = DOMAIN R
    /\ \A t \in DOMAIN R :
        /\ GoodRow(new[t])
        /\ new[t].source = R[t].source /\ new[t].title = R[t].title /\ new[t].mark = R[t].mark
        /\ new[t].place # R[t].place => R[t].place = "misplaced" /\ new[t].place = "new"

LEMMA RightedTable == ASSUME NEW R, NEW new, Table(R), Righted(R, new) PROVE Table(new)
BY DEF Table, Righted

LEMMA RightedSame == ASSUME NEW R, Table(R) PROVE Righted(R, R)
BY DEF Table, Righted

LEMMA TunedRighted == ASSUME NEW R, NEW new, Tuned(R, new) PROVE Righted(R, new)
BY DEF Tuned, Righted, SameTone

(* What a step makes of the open database. *)
Carried(db) ==
    /\ UsedDb(db) /\ db.version = Db.version /\ db.vibrations = Db.vibrations
    /\ Righted(Db.rows, db.rows)
    /\ SetDb(db)

LEMMA CarriedIs ==
    ASSUME UsedDb(Db)
    PROVE  /\ SetDb(Db) => Carried(Db)
           /\ \A R : Righted(Db.rows, R) /\ SetDb([Db EXCEPT !.rows = R]) => \E db : Carried(db)
           /\ \A conf : Confs(conf) /\ SetDb([Db EXCEPT !.conf = conf]) => \E db : Carried(db)
           /\ \A sims : Sims(sims) /\ SetDb([Db EXCEPT !.sims = sims]) => \E db : Carried(db)
           /\ \A S : S \subseteq Schemas /\ SetDb([Db EXCEPT !.schema = S]) => \E db : Carried(db)
           /\ \A S, conf : /\ S \subseteq Schemas /\ Confs(conf)
                            /\ SetDb([Db EXCEPT !.schema = S, !.conf = conf])
                => \E db : Carried(db)
           /\ \A S, sims : /\ S \subseteq Schemas /\ Sims(sims)
                            /\ SetDb([Db EXCEPT !.schema = S, !.sims = sims])
                => \E db : Carried(db)
<1> DEFINE d == Db
<1>1. UsedDb(d) /\ Table(d.rows)
  BY IsDbTable DEF UsedDb
<1>2. Righted(d.rows, d.rows)
  BY <1>1, RightedSame
<1>3. d = Db
  OBVIOUS
<1> HIDE DEF d
<1>4. SetDb(d) => Carried(d)
  BY <1>1, <1>2, <1>3 DEF Carried
<1>5. ASSUME NEW R, Righted(d.rows, R), SetDb([d EXCEPT !.rows = R]) PROVE \E db : Carried(db)
  <2> DEFINE v == [d EXCEPT !.rows = R]
  <2>1. Table(R)
    BY <1>1, <1>5, RightedTable
  <2>2. UsedDb(v) /\ v.rows = R /\ v.version = d.version /\ v.vibrations = d.vibrations
    BY <1>1, <2>1, DbWith
  <2> HIDE DEF v
  <2>3. Carried(v)
    BY <1>3, <1>5, <2>2 DEF Carried, v
  <2> QED
    BY <2>3
<1>6. ASSUME NEW conf, Confs(conf), SetDb([d EXCEPT !.conf = conf]) PROVE \E db : Carried(db)
  <2> DEFINE v == [d EXCEPT !.conf = conf]
  <2>1. UsedDb(v) /\ v.rows = d.rows /\ v.version = d.version /\ v.vibrations = d.vibrations
    BY <1>1, <1>6, DbWith
  <2> HIDE DEF v
  <2>2. Carried(v)
    BY <1>2, <1>3, <1>6, <2>1 DEF Carried, v
  <2> QED
    BY <2>2
<1>7. ASSUME NEW sims, Sims(sims), SetDb([d EXCEPT !.sims = sims]) PROVE \E db : Carried(db)
  <2> DEFINE v == [d EXCEPT !.sims = sims]
  <2>1. UsedDb(v) /\ v.rows = d.rows /\ v.version = d.version /\ v.vibrations = d.vibrations
    BY <1>1, <1>7, DbWith
  <2> HIDE DEF v
  <2>2. Carried(v)
    BY <1>2, <1>3, <1>7, <2>1 DEF Carried, v
  <2> QED
    BY <2>2
<1>8. ASSUME NEW S, S \subseteq Schemas, SetDb([d EXCEPT !.schema = S]) PROVE \E db : Carried(db)
  <2> DEFINE v == [d EXCEPT !.schema = S]
  <2>1. UsedDb(v) /\ v.rows = d.rows /\ v.version = d.version /\ v.vibrations = d.vibrations
    BY <1>1, <1>8, DbWith
  <2> HIDE DEF v
  <2>2. Carried(v)
    BY <1>2, <1>3, <1>8, <2>1 DEF Carried, v
  <2> QED
    BY <2>2
<1>9. ASSUME NEW S, S \subseteq Schemas, NEW conf, Confs(conf), SetDb([d EXCEPT !.schema = S, !.conf = conf])
       PROVE  \E db : Carried(db)
  <2> DEFINE u == [d EXCEPT !.schema = S]
             v == [u EXCEPT !.conf = conf]
  <2>1. UsedDb(u) /\ u.rows = d.rows /\ u.version = d.version /\ u.vibrations = d.vibrations
    BY <1>1, <1>9, DbWith
  <2>2. v = [d EXCEPT !.schema = S, !.conf = conf]
    OBVIOUS
  <2> HIDE DEF u
  <2>3. UsedDb(v) /\ v.rows = u.rows /\ v.version = u.version /\ v.vibrations = u.vibrations
    BY <1>9, <2>1, DbWith
  <2> HIDE DEF v
  <2>4. Carried(v)
    BY <1>2, <1>3, <1>9, <2>1, <2>2, <2>3 DEF Carried
  <2> QED
    BY <2>4
<1>10. ASSUME NEW S, S \subseteq Schemas, NEW sims, Sims(sims), SetDb([d EXCEPT !.schema = S, !.sims = sims])
       PROVE  \E db : Carried(db)
  <2> DEFINE u == [d EXCEPT !.schema = S]
             v == [u EXCEPT !.sims = sims]
  <2>1. UsedDb(u) /\ u.rows = d.rows /\ u.version = d.version /\ u.vibrations = d.vibrations
    BY <1>1, <1>10, DbWith
  <2>2. v = [d EXCEPT !.schema = S, !.sims = sims]
    OBVIOUS
  <2> HIDE DEF u
  <2>3. UsedDb(v) /\ v.rows = u.rows /\ v.version = u.version /\ v.vibrations = u.vibrations
    BY <1>10, <2>1, DbWith
  <2> HIDE DEF v
  <2>4. Carried(v)
    BY <1>2, <1>3, <1>10, <2>1, <2>2, <2>3 DEF Carried
  <2> QED
    BY <2>4
<1> QED
  BY <1>3, <1>4, <1>5, <1>6, <1>7, <1>8, <1>9, <1>10

(* What a step makes of the rest. *)
Advanced(todo) ==
    /\ phase' = "upgrade" /\ work' = [work EXCEPT !.todo = todo]
    /\ failures' \in {failures, failures + 1}
    /\ HistoryOK(history') /\ history'.late = history.late /\ history'.unsaved = history.unsaved
    /\ UNCHANGED <<first, known, scan, clients, crashes>>

Passed ==
    \/ \E todo \in {Tail(work.todo), SubSeq(work.todo, 7, Len(work.todo))} : Advanced(todo)
    \/ Dies /\ failures' = failures

LEMMA EndsPasses ==
    ASSUME TypeInv, NEW done, NEW todo \in {Tail(work.todo), SubSeq(work.todo, 7, Len(work.todo))},
           Ends(done, "upgrade", [work EXCEPT !.todo = todo])
    PROVE  Passed
<1>1. HistoryOK(history)
  BY DEF TypeInv, Memory
<1>2. CASE /\ UNCHANGED failures \/ Fails
           /\ phase' = "upgrade" /\ work' = [work EXCEPT !.todo = todo]
           /\ UNCHANGED <<first, known, others, crashes>>
  <2>1. failures' \in {failures, failures + 1}
    BY <1>2 DEF Fails
  <2> QED
    BY <1>1, <1>2, <2>1 DEF Passed, Advanced, others
<1>3. CASE Dies /\ UNCHANGED failures
  BY <1>3 DEF Passed
<1> QED
  BY <1>2, <1>3 DEF Ends

LEMMA Next1Passes == ASSUME TypeInv, NEW done, Next1(done) PROVE Passed
BY EndsPasses DEF Next1

LEMMA RowsCarried ==
    ASSUME TypeInv, phase = "upgrade", NEW P, NEW S, NEW R,
           R = [t \in DOMAIN Db.rows |-> IF t \in P THEN S[t] ELSE Db.rows[t]],
           \A t \in P \cap DOMAIN Db.rows :
              /\ GoodRow(S[t])
              /\ S[t].source = Db.rows[t].source /\ S[t].title = Db.rows[t].title /\ S[t].mark = Db.rows[t].mark
              /\ S[t].place # Db.rows[t].place => Db.rows[t].place = "misplaced" /\ S[t].place = "new",
           SetDb([Db EXCEPT !.rows = R])
    PROVE  \E db : Carried(db)
<1>1. UsedDb(Db)
  BY OpenDb
<1>2. Table(Db.rows)
  BY <1>1, IsDbTable DEF UsedDb
<1>3. Righted(Db.rows, R)
  BY <1>2 DEF Righted, Table
<1> QED
  BY <1>1, <1>3, CarriedIs

LEMMA FlagsPass ==
    ASSUME TypeInv, AddColumn \/ AddRingMockHapticAudioTable
    PROVE  /\ phase = "upgrade" /\ UNCHANGED <<job, files, folder, prefs>>
           /\ Passed /\ \E db : Carried(db)
<1>1. PICK column \in {"language", "flags", "haptic"} :
        /\ At(column)
        /\ \E done \in BOOLEAN :
            /\ SetDb(IF done THEN [Db EXCEPT !.schema = Db.schema \cup {column}] ELSE Db)
            /\ Next1(done)
  BY DEF AddColumn, AddRingMockHapticAudioTable
<1>2. UNCHANGED <<job, files, folder, prefs>>
  BY DEF AddColumn, AddRingMockHapticAudioTable, Rest
<1>3. phase = "upgrade" /\ UsedDb(Db)
  BY <1>1, OpenDb DEF At
<1>4. Passed
  BY <1>1, Next1Passes
<1> DEFINE S == Db.schema \cup {column}
<1>5. SetDb(Db) \/ SetDb([Db EXCEPT !.schema = S])
  BY <1>1
<1>6. S \subseteq Schemas
  BY <1>3, DbParts DEF Schemas
<1> HIDE DEF S
<1>7. \E db : Carried(db)
  BY <1>3, <1>5, <1>6, CarriedIs
<1> QED
  BY <1>2, <1>3, <1>4, <1>7

LEMMA NewSims ==
    ASSUME NEW sims, Sims(sims), NEW keys, keys \subseteq SimKeys
    PROVE  Sims(Merge(sims, [key \in keys |-> EmptySim]))
<1>1. EmptySim \in SimRow
  BY DEF EmptySim, SimRow
<1> QED
  BY <1>1 DEF Sims, Merge

LEMMA ConfPasses ==
    ASSUME TypeInv, AddPreloadConfTable
    PROVE  /\ phase = "upgrade" /\ UNCHANGED <<job, files, folder, prefs>>
           /\ Passed /\ \E db : Carried(db)
<1> DEFINE few == ~(Cardinality(DOMAIN Db.conf) > RINGTONE_PRELOAD_CONF_COUNT)
           left(counted) == At("conf") /\ (~counted \/ ~few)
           after(counted) == IF left(counted) THEN SubSeq(work.todo, 7, Len(work.todo)) ELSE Tail(work.todo)
           conf == Merge(Db.conf, [type \in Types |-> "null"])
           S == Db.schema \cup {"conf"}
<1>0. PICK done \in BOOLEAN, counted \in BOOLEAN :
            /\ done => counted
            /\ SetDb(IF done /\ ~left(counted) THEN [Db EXCEPT !.schema = S, !.conf = conf] ELSE Db)
            /\ Ends(done, "upgrade", [work EXCEPT !.todo = after(counted)])
  BY DEF AddPreloadConfTable
<1> DEFINE full == left(counted)
           rest == after(counted)
<1>1. /\ SetDb(IF done /\ ~full THEN [Db EXCEPT !.schema = S, !.conf = conf] ELSE Db)
      /\ Ends(done, "upgrade", [work EXCEPT !.todo = rest])
  BY <1>0
<1>2. phase = "upgrade" /\ UNCHANGED <<job, files, folder, prefs>>
  BY DEF AddPreloadConfTable, Rest, At
<1>3. UsedDb(Db)
  BY <1>2, OpenDb
<1>4. rest \in {Tail(work.todo), SubSeq(work.todo, 7, Len(work.todo))}
  OBVIOUS
<1>5. SetDb(Db) \/ SetDb([Db EXCEPT !.schema = S, !.conf = conf])
  BY <1>1
<1>6. S \subseteq Schemas
  BY <1>3, DbParts DEF Schemas
<1>7. Confs(conf)
  BY <1>3, DbParts DEF Confs, Merge
<1> HIDE DEF rest, conf, S
<1>8. Passed
  BY <1>1, <1>4, EndsPasses
<1>9. \E db : Carried(db)
  BY <1>3, <1>5, <1>6, <1>7, CarriedIs
<1> QED
  BY <1>2, <1>8, <1>9

LEMMA VibratePasses ==
    ASSUME TypeInv, AddVibrateTable
    PROVE  /\ phase = "upgrade" /\ UNCHANGED <<job, files, folder>>
           /\ \/ prefs' = prefs
              \/ At("scanAgain") /\ prefs' = [prefs EXCEPT !.completed = FALSE]
           /\ Passed /\ \E db : Carried(db)
<1>1. phase = "upgrade" /\ UNCHANGED <<job, files, folder>>
  BY DEF AddVibrateTable, Rest, At
<1>2. UsedDb(Db)
  BY <1>1, OpenDb
<1>3. CASE /\ At("scanAgain") /\ prefs' = [prefs EXCEPT !.completed = FALSE]
           /\ Next1(TRUE) /\ UNCHANGED dbs
  <2>1. Passed
    BY <1>3, Next1Passes
  <2>2. SetDb(Db)
    <3>1. dbs = [el1 |-> dbs.el1, el2 |-> dbs.el2] /\ work.open \in {"el1", "el2"}
      BY OpenDb DEF DbsOK
    <3> QED
      BY <1>3, <3>1 DEF SetDb, Db
  <2> QED
    BY <1>1, <1>2, <1>3, <2>1, <2>2, CarriedIs
<1>4. CASE /\ prefs' = prefs
           /\ \E done \in BOOLEAN :
                /\ SetDb(IF done THEN [Db EXCEPT !.schema = Db.schema \cup {"vibrate"},
                                                 !.sims = Merge(Db.sims, [key \in SimKeys |-> EmptySim])] ELSE Db)
                /\ Next1(done)
  <2> DEFINE S == Db.schema \cup {"vibrate"}
             sims == Merge(Db.sims, [key \in SimKeys |-> EmptySim])
  <2>1. Passed
    BY <1>4, Next1Passes
  <2>2. S \subseteq Schemas /\ Sims(Db.sims)
    BY <1>2, DbParts DEF Schemas
  <2>3. Sims(sims)
    BY <2>2, NewSims
  <2>4. SetDb(Db) \/ SetDb([Db EXCEPT !.schema = S, !.sims = sims])
    BY <1>4
  <2> HIDE DEF S, sims
  <2>5. \E db : Carried(db)
    BY <1>2, <2>2, <2>3, <2>4, CarriedIs
  <2> QED
    BY <1>1, <1>4, <2>1, <2>5
<1> QED
  BY <1>3, <1>4 DEF AddVibrateTable

LEMMA SimRowsPass ==
    ASSUME TypeInv, AddSimRows
    PROVE  /\ phase = "upgrade" /\ UNCHANGED <<job, files, folder, prefs>>
           /\ Passed /\ \E db : Carried(db)
<1> DEFINE new == IF At("simRows") THEN SimKeys
                  ELSE {key \in SimKeys : key[1] \notin ESims
                                          /\ key[2] \in {"vibShot", "vibRing", "vibAlarm", "vibNotification"}}
           sims == Merge(Db.sims, [key \in new |-> EmptySim])
<1>1. phase = "upgrade" /\ UNCHANGED <<job, files, folder, prefs>>
  BY DEF AddSimRows, Rest, At
<1>2. UsedDb(Db)
  BY <1>1, OpenDb
<1>3. PICK done \in BOOLEAN : SetDb(IF done THEN [Db EXCEPT !.sims = sims] ELSE Db) /\ Next1(done)
  BY Zenon DEF AddSimRows
<1>4. Passed
  BY <1>3, Next1Passes
<1>5. new \subseteq SimKeys /\ Sims(Db.sims)
  BY <1>2, DbParts
<1> HIDE DEF new
<1>6. Sims(sims)
  BY <1>5, NewSims
<1>7. SetDb(Db) \/ SetDb([Db EXCEPT !.sims = sims])
  BY <1>3
<1> HIDE DEF sims
<1>8. \E db : Carried(db)
  BY <1>2, <1>6, <1>7, CarriedIs
<1> QED
  BY <1>1, <1>4, <1>8

LEMMA MediaPasses ==
    ASSUME TypeInv, UpdateMimeType \/ UpdateMediaType
    PROVE  /\ phase = "upgrade" /\ UNCHANGED <<job, files, folder, prefs>>
           /\ Passed /\ \E db : Carried(db)
<1>1. phase = "upgrade" /\ UNCHANGED <<job, files, folder, prefs>>
  BY DEF UpdateMimeType, UpdateMediaType, Rest, At
<1>2. Table(Db.rows)
  BY <1>1, OpenDb, IsDbTable DEF UsedDb
<1>3. CASE UpdateMimeType
  <2>1. PICK due : ChangeRows(due, LAMBDA row : [row EXCEPT !.mime = TRUE, !.media = TRUE])
    BY <1>3, Zenon DEF UpdateMimeType
  <2>2. PICK done \in SUBSET due :
            /\ SetDb([Db EXCEPT !.rows = Change(Db.rows, done, LAMBDA row : [row EXCEPT !.mime = TRUE, !.media = TRUE])])
            /\ Next1(done = due)
    BY <2>1 DEF ChangeRows
  <2> DEFINE R == Change(Db.rows, done, LAMBDA row : [row EXCEPT !.mime = TRUE, !.media = TRUE])
             S == [t \in DOMAIN Db.rows |-> [Db.rows[t] EXCEPT !.mime = TRUE, !.media = TRUE]]
  <2>3. R = [t \in DOMAIN Db.rows |-> IF t \in done THEN S[t] ELSE Db.rows[t]]
    BY DEF Change
  <2>4. ASSUME NEW t \in DOMAIN Db.rows PROVE GoodRow(S[t]) /\ SameTone(S[t], Db.rows[t])
    <3>1. GoodRow(Db.rows[t]) /\ S[t] = [Db.rows[t] EXCEPT !.mime = TRUE, !.media = TRUE]
      BY <1>2 DEF Table
    <3> HIDE DEF S
    <3> QED
      BY <3>1, MediaKnown
  <2>5. Passed
    BY <2>2, Next1Passes
  <2>6. SetDb([Db EXCEPT !.rows = R])
    BY <2>2
  <2> HIDE DEF R, S
  <2>7. \E db : Carried(db)
    BY <1>1, <2>3, <2>4, <2>6, RowsCarried DEF SameTone
  <2> QED
    BY <1>1, <2>5, <2>7
<1>4. CASE UpdateMediaType
  <2>1. PICK due : ChangeRows(due, LAMBDA row : [row EXCEPT !.media = TRUE])
    BY <1>4, Zenon DEF UpdateMediaType
  <2>2. PICK done \in SUBSET due :
            /\ SetDb([Db EXCEPT !.rows = Change(Db.rows, done, LAMBDA row : [row EXCEPT !.media = TRUE])])
            /\ Next1(done = due)
    BY <2>1 DEF ChangeRows
  <2> DEFINE R == Change(Db.rows, done, LAMBDA row : [row EXCEPT !.media = TRUE])
             S == [t \in DOMAIN Db.rows |-> [Db.rows[t] EXCEPT !.media = TRUE]]
  <2>3. R = [t \in DOMAIN Db.rows |-> IF t \in done THEN S[t] ELSE Db.rows[t]]
    BY DEF Change
  <2>4. ASSUME NEW t \in DOMAIN Db.rows PROVE GoodRow(S[t]) /\ SameTone(S[t], Db.rows[t])
    <3>1. GoodRow(Db.rows[t]) /\ S[t] = [Db.rows[t] EXCEPT !.media = TRUE]
      BY <1>2 DEF Table
    <3> HIDE DEF S
    <3> QED
      BY <3>1, MediaKnown
  <2>5. Passed
    BY <2>2, Next1Passes
  <2>6. SetDb([Db EXCEPT !.rows = R])
    BY <2>2
  <2> HIDE DEF R, S
  <2>7. \E db : Carried(db)
    BY <1>1, <2>3, <2>4, <2>6, RowsCarried DEF SameTone
  <2> QED
    BY <1>1, <2>5, <2>7
<1> QED
  BY <1>3, <1>4

LEMMA DataUriPasses ==
    ASSUME TypeInv, UpdateDataUri
    PROVE  /\ phase = "upgrade" /\ UNCHANGED <<job, files, folder, prefs>>
           /\ Passed /\ \E db : Carried(db)
<1>1. phase = "upgrade" /\ UNCHANGED <<job, files, folder, prefs>>
  BY DEF UpdateDataUri, Rest, At
<1>2. Table(Db.rows)
  BY <1>1, OpenDb, IsDbTable DEF UsedDb
<1> DEFINE due == {t \in DOMAIN Db.rows : Db.rows[t].place = "misplaced" /\ <<t, "new">> \in files}
<1>3. ChangeRows(due, LAMBDA row : [row EXCEPT !.place = "new"])
  BY Zenon DEF UpdateDataUri
<1>4. PICK done \in SUBSET due :
        /\ SetDb([Db EXCEPT !.rows = Change(Db.rows, done, LAMBDA row : [row EXCEPT !.place = "new"])])
        /\ Next1(done = due)
  BY <1>3 DEF ChangeRows
<1> DEFINE R == Change(Db.rows, done, LAMBDA row : [row EXCEPT !.place = "new"])
           S == [t \in DOMAIN Db.rows |-> [Db.rows[t] EXCEPT !.place = "new"]]
<1>5. R = [t \in DOMAIN Db.rows |-> IF t \in done THEN S[t] ELSE Db.rows[t]]
  BY DEF Change
<1>6. ASSUME NEW t \in done
      PROVE  /\ GoodRow(S[t])
             /\ S[t].source = Db.rows[t].source /\ S[t].title = Db.rows[t].title
             /\ S[t].mark = Db.rows[t].mark /\ S[t].place = "new" /\ Db.rows[t].place = "misplaced"
  <2> DEFINE r == Db.rows[t]
  <2>1. GoodRow(r) /\ S[t] = [r EXCEPT !.place = "new"] /\ r.place = "misplaced"
    BY <1>2 DEF Table
  <2> HIDE DEF S, r
  <2>2. r \in Tone
    BY <2>1 DEF GoodRow
  <2>3. /\ S[t] \in Tone /\ S[t].on = r.on /\ S[t].source = r.source /\ S[t].title = r.title
        /\ S[t].mark = r.mark /\ S[t].place = "new"
    BY <2>1, <2>2 DEF Tone, Places
  <2> QED
    BY <2>1, <2>3, Zenon DEF GoodRow, r
<1>7. Passed
  BY <1>4, Next1Passes
<1>8. SetDb([Db EXCEPT !.rows = R])
  BY <1>4
<1> HIDE DEF R, S, due
<1>9. \E db : Carried(db)
  BY <1>1, <1>5, <1>6, <1>8, RowsCarried
<1> QED
  BY <1>1, <1>7, <1>9

LEMMA ESimTonePasses ==
    ASSUME TypeInv, UpdateEsimDefaultSystemToneToToneFile
    PROVE  /\ phase = "upgrade" /\ UNCHANGED <<job, files, folder, prefs>>
           /\ Passed /\ \E db : Carried(db)
<1>1. phase = "upgrade" /\ UNCHANGED <<job, files, folder, prefs>>
  BY DEF UpdateEsimDefaultSystemToneToToneFile, Rest, At
<1>2. Table(Db.rows)
  BY <1>1, OpenDb, IsDbTable DEF UsedDb
<1> DEFINE slot == Head(work.todo)[3]
           kind == slot[1]
           card == slot[2]
           due == IF slot \notin DOMAIN Defaults \/ kind \notin Kinds THEN {}
                  ELSE IF IsCardAlreadyCustomised(Db.rows, kind, card) THEN {}
                  ELSE {t \in DOMAIN Db.rows : t = Defaults[slot] /\ card \notin Db.rows[t].on[kind]}
<1>3. ChangeRows(due, LAMBDA row : [row EXCEPT !.on[kind] = @ \cup {card}, !.by[kind] = "preset"])
  BY Zenon DEF UpdateEsimDefaultSystemToneToToneFile
<1>4. PICK done \in SUBSET due :
        /\ SetDb([Db EXCEPT !.rows = Change(Db.rows, done,
                    LAMBDA row : [row EXCEPT !.on[kind] = @ \cup {card}, !.by[kind] = "preset"])])
        /\ Next1(done = due)
  BY <1>3 DEF ChangeRows
<1>5. ASSUME done # {} PROVE kind \in Kinds /\ card \in Slots(kind)
  <2>1. slot \in DOMAIN Defaults
    BY <1>5, Zenon
  <2> HIDE DEF slot
  <2>2. slot \in Types
    BY <2>1, LibraryAssumption
  <2> QED
    BY <2>2 DEF Types
<1> HIDE DEF due
<1> DEFINE R == Change(Db.rows, done,
                       LAMBDA row : [row EXCEPT !.on[kind] = @ \cup {card}, !.by[kind] = "preset"])
           S == [t \in DOMAIN Db.rows |->
                    [Db.rows[t] EXCEPT !.on[kind] = Db.rows[t].on[kind] \cup {card}, !.by[kind] = "preset"]]
<1>6. Passed
  BY <1>4, Next1Passes
<1>7. SetDb([Db EXCEPT !.rows = R])
  BY <1>4
<1> HIDE DEF slot, kind, card
<1>8. R = [t \in DOMAIN Db.rows |-> IF t \in done THEN S[t] ELSE Db.rows[t]]
  <2>1. \A t \in DOMAIN Db.rows : Db.rows[t] \in Tone
    BY <1>2 DEF Table, GoodRow
  <2>2. \A r \in Tone : [r EXCEPT !.on[kind] = @ \cup {card}, !.by[kind] = "preset"]
                        = [r EXCEPT !.on[kind] = r.on[kind] \cup {card}, !.by[kind] = "preset"]
    BY DEF Tone
  <2> QED
    BY <2>1, <2>2 DEF Change
<1>9. ASSUME NEW t \in done \cap DOMAIN Db.rows PROVE GoodRow(S[t]) /\ SameTone(S[t], Db.rows[t])
  <2> DEFINE r == Db.rows[t]
             C == r.on[kind] \cup {card}
             v == [r EXCEPT !.on[kind] = C, !.by[kind] = "preset"]
  <2>1. GoodRow(r) /\ S[t] = v
    BY <1>2 DEF Table
  <2> HIDE DEF S, r
  <2>2. kind \in Kinds /\ C \subseteq Slots(kind) /\ "preset" \in Sources
    BY <1>5, <2>1 DEF GoodRow, Sources
  <2> HIDE DEF C
  <2>3. GoodRow(v) /\ SameTone(v, r)
    BY <2>1, <2>2, SetOfKind
  <2> HIDE DEF v
  <2> QED
    BY <2>1, <2>3, Zenon DEF r
<1> HIDE DEF R, S
<1>10. \E db : Carried(db)
  BY <1>1, <1>7, <1>8, <1>9, RowsCarried DEF SameTone
<1> QED
  BY <1>1, <1>6, <1>10

LEMMA SystemTonePasses ==
    ASSUME TypeInv, UpdateDefaultSystemTone
    PROVE  /\ phase = "upgrade" /\ UNCHANGED <<job, files, folder, prefs>>
           /\ Passed /\ \E db : Carried(db)
<1>1. phase = "upgrade" /\ UNCHANGED <<job, files, folder, prefs>>
  BY DEF UpdateDefaultSystemTone, Rest, At
<1>2. UsedDb(Db) /\ Confs(Db.conf) /\ DOMAIN Db.rows \subseteq Paths
  BY <1>1, OpenDb, DbParts DEF Table
<1>3. PICK done \in SUBSET DOMAIN Db.conf :
        /\ SetDb([Db EXCEPT !.conf = [type \in DOMAIN Db.conf |->
                    IF type \in done THEN SystemTones(Db).conf[type] ELSE Db.conf[type]]])
        /\ Next1(done = DOMAIN Db.conf)
  BY DEF UpdateDefaultSystemTone
<1>4. Passed
  BY <1>3, Next1Passes
<1> DEFINE filled == [type \in DOMAIN Db.conf |->
                        IF type \in DOMAIN Defaults /\ Defaults[type] \in DOMAIN Db.rows
                        THEN Defaults[type] ELSE Db.conf[type]]
           conf == [type \in DOMAIN Db.conf |-> IF type \in done THEN filled[type] ELSE Db.conf[type]]
<1>5. SystemTones(Db).conf = filled
  <2>1. SystemTones(Db) = [Db EXCEPT !.conf = filled]
    BY Zenon DEF SystemTones
  <2>2. Db = [version |-> Db.version, schema |-> Db.schema, rows |-> Db.rows, conf |-> Db.conf,
              sims |-> Db.sims, vibrations |-> Db.vibrations]
    BY <1>2, DbParts
  <2> HIDE DEF filled
  <2> QED
    BY <2>1, <2>2
<1>6. SetDb([Db EXCEPT !.conf = conf])
  BY <1>3, <1>5
<1>7. Confs(conf)
  BY <1>2 DEF Confs
<1> HIDE DEF conf
<1>8. \E db : Carried(db)
  BY <1>2, <1>6, <1>7, CarriedIs
<1> QED
  BY <1>1, <1>4, <1>8

LEMMA InheritPasses ==
    ASSUME TypeInv, UpdateSimCardSettingESIMValue
    PROVE  /\ phase = "upgrade" /\ UNCHANGED <<job, files, folder, prefs>>
           /\ Passed /\ \E db : Carried(db)
<1>1. phase = "upgrade" /\ UNCHANGED <<job, files, folder, prefs>>
  BY DEF UpdateSimCardSettingESIMValue, Rest, At
<1>2. UsedDb(Db) /\ Sims(Db.sims)
  BY <1>1, OpenDb, DbParts
<1> DEFINE heirs == Heirs(Db.sims)
<1>3. PICK done \in SUBSET {x \in heirs : Db.sims[x[1]] # Db.sims[x[2]]} :
        /\ SetDb([Db EXCEPT !.sims = [key \in DOMAIN Db.sims |->
                    IF \E x \in done : x[1] = key
                    THEN Db.sims[(CHOOSE x \in done : x[1] = key)[2]] ELSE Db.sims[key]]])
        /\ Next1(\A x \in heirs : Db.sims[x[1]] # Db.sims[x[2]] => x \in done)
  BY DEF UpdateSimCardSettingESIMValue
<1>4. Passed
  BY <1>3, Next1Passes
<1>5. \A x \in done : x[2] \in DOMAIN Db.sims
  BY DEF Heirs
<1> DEFINE heir(key) == CHOOSE x \in done : x[1] = key
           sims == [key \in DOMAIN Db.sims |->
                        IF \E x \in done : x[1] = key THEN Db.sims[heir(key)[2]] ELSE Db.sims[key]]
<1>6. SetDb([Db EXCEPT !.sims = sims])
  BY <1>3
<1>7. \A key : (\E x \in done : x[1] = key) => heir(key) \in done
  OBVIOUS
<1> HIDE DEF heir
<1>8. Sims(sims)
  BY <1>2, <1>5, <1>7 DEF Sims
<1> HIDE DEF sims
<1>9. \E db : Carried(db)
  BY <1>2, <1>6, <1>8, CarriedIs
<1> QED
  BY <1>1, <1>4, <1>9

LEMMA SanitizePasses ==
    ASSUME TypeInv, SanitizeSoundModeVibrateRecords
    PROVE  /\ phase = "upgrade" /\ UNCHANGED <<job, files, folder, prefs>>
           /\ Passed /\ \E db : Carried(db)
<1>1. phase = "upgrade" /\ UNCHANGED <<job, files, folder, prefs>>
  BY DEF SanitizeSoundModeVibrateRecords, Rest, At
<1>2. UsedDb(Db) /\ Sims(Db.sims)
  BY <1>1, OpenDb, DbParts
<1> DEFINE due == IF Db.vibrations = <<>> THEN {} ELSE {key \in DOMAIN Db.sims : IsDirty(Db.sims[key])}
<1>3. PICK done \in SUBSET due, found \in SUBSET due :
        /\ SetDb([Db EXCEPT !.sims = [key \in DOMAIN Db.sims |->
                    IF key \in done THEN Sanitized(Db.sims[key], key \in found) ELSE Db.sims[key]]])
        /\ Next1(done = due)
  BY Zenon DEF SanitizeSoundModeVibrateRecords
<1>4. Passed
  BY <1>3, Next1Passes
<1> DEFINE sims == [key \in DOMAIN Db.sims |->
                    IF key \in done THEN Sanitized(Db.sims[key], key \in found) ELSE Db.sims[key]]
<1>5. SetDb([Db EXCEPT !.sims = sims])
  BY <1>3
<1>6. \A row \in SimRow : [row EXCEPT !.vibrate = "std"] \in SimRow /\ [row EXCEPT !.ring = "none"] \in SimRow
  BY DEF SimRow
<1>7. Sims(sims)
  BY <1>2, <1>6 DEF Sims, Sanitized
<1> HIDE DEF sims, due
<1>8. \E db : Carried(db)
  BY <1>2, <1>5, <1>7, CarriedIs
<1> QED
  BY <1>1, <1>4, <1>8

LEMMA ESimTimePasses ==
    ASSUME TypeInv, SetUpgradeEsimTime
    PROVE  /\ phase = "upgrade" /\ UNCHANGED <<job, files, folder>>
           /\ prefs' = [prefs EXCEPT !.eSimTime = "recent"]
           /\ Passed /\ \E db : Carried(db)
<1>1. phase = "upgrade" /\ UNCHANGED <<job, files, folder>> /\ prefs' = [prefs EXCEPT !.eSimTime = "recent"]
  BY DEF SetUpgradeEsimTime, Rest, At
<1>2. UsedDb(Db)
  BY <1>1, OpenDb
<1>3. SetDb(Db)
  <2>1. dbs = [el1 |-> dbs.el1, el2 |-> dbs.el2] /\ work.open \in {"el1", "el2"}
    BY OpenDb DEF DbsOK
  <2>2. dbs' = dbs
    BY DEF SetUpgradeEsimTime
  <2> QED
    BY <2>1, <2>2 DEF SetDb, Db
<1>4. Passed
  <2>1. PICK legacy, ever, was :
            history' = [history EXCEPT !.legacy = legacy, !.ever = ever, !.was = was]
    BY Zenon DEF SetUpgradeEsimTime
  <2>2. HistoryOK(history)
    BY DEF TypeInv, Memory
  <2>3. HistoryOK(history') /\ history'.late = history.late /\ history'.unsaved = history.unsaved
    BY <2>1, <2>2 DEF HistoryOK
  <2>4. /\ phase' = "upgrade" /\ work' = [work EXCEPT !.todo = Tail(work.todo)]
        /\ UNCHANGED <<first, known, scan, clients, failures, crashes>>
    BY DEF SetUpgradeEsimTime
  <2> QED
    BY <2>3, <2>4 DEF Passed, Advanced
<1> QED
  BY <1>1, <1>2, <1>3, <1>4, CarriedIs

LEMMA MidPasses ==
    ASSUME TypeInv, Mid
    PROVE  /\ phase = "upgrade" /\ UNCHANGED <<job, files, folder>>
           /\ \/ prefs' = prefs
              \/ At("scanAgain") /\ prefs' = [prefs EXCEPT !.completed = FALSE]
              \/ prefs' = [prefs EXCEPT !.eSimTime = "recent"]
           /\ Passed /\ \E db : Carried(db)
<1>1. CASE AddColumn \/ AddRingMockHapticAudioTable
  BY <1>1, FlagsPass
<1>2. CASE AddPreloadConfTable
  BY <1>2, ConfPasses
<1>3. CASE AddVibrateTable
  BY <1>3, VibratePasses
<1>4. CASE AddSimRows
  BY <1>4, SimRowsPass
<1>5. CASE UpdateMimeType \/ UpdateMediaType
  BY <1>5, MediaPasses
<1>6. CASE UpdateDataUri
  BY <1>6, DataUriPasses
<1>7. CASE UpdateDefaultSystemTone
  BY <1>7, SystemTonePasses
<1>8. CASE UpdateEsimDefaultSystemToneToToneFile
  BY <1>8, ESimTonePasses
<1>9. CASE UpdateSimCardSettingESIMValue
  BY <1>9, InheritPasses
<1>10. CASE SanitizeSoundModeVibrateRecords
  BY <1>10, SanitizePasses
<1>11. CASE SetUpgradeEsimTime
  BY <1>11, ESimTimePasses
<1> QED
  BY <1>1, <1>2, <1>3, <1>4, <1>5, <1>6, <1>7, <1>8, <1>9, <1>10, <1>11 DEF Mid

-----------------------------------------------------------------------------
(* Type correctness *)

(* What the steps of OnStart that end no wait have in common. *)
LEMMA CalmTypes ==
    ASSUME TypeInv, phase \notin {"wait", "serving"}, UNCHANGED <<job, first, known, others, crashes>>,
           Stored', failures' \in {failures, failures + 1}, WorkOK(work'), phase' \in Phases,
           phase \in After => phase' \in After,
           phase' \in After => dbs'.el1.version = RINGTONE_RDB_VERSION /\ work'.open = "el1",
           phase' = "upgrade" => dbs'[work'.open].version # 0,
           phase' = "backup" => dbs'.el2.version = RINGTONE_RDB_VERSION /\ work'.open = "el2",
           phase' = "moved" => dbs'.el1.version = RINGTONE_RDB_VERSION,
           phase' \in {"vibrations", "serving"} => work'.language \in Languages
    PROVE  TypeInv'
<1>1. job' = job /\ first' = first /\ known' = known /\ scan' = scan /\ clients' = clients
      /\ history' = history /\ crashes' = crashes
  BY DEF others
<1>2. Counted'
  BY <1>1 DEF TypeInv, Counted
<1>3. Memory'
  BY <1>1 DEF TypeInv, Memory
<1>4. Staged'
  <2>1. scan.phase # "idle" => phase \in After /\ history.late
    BY DEF TypeInv, Staged
  <2>2. \A c \in Clients : clients[c] = <<>>
    BY DEF TypeInv, Staged
  <2> QED
    BY <1>1, <2>1, <2>2 DEF Staged, Db
<1> QED
  BY <1>1, <1>2, <1>3, <1>4 DEF TypeInv

(* A step that may fail, or that the process may not survive. *)
LEMMA EndsTypes ==
    ASSUME TypeInv, phase \in After \ {"wait", "serving"}, NEW done, NEW next \in After, NEW memory,
           WorkOK(memory), memory.open = "el1", Ends(done, next, memory), job' = job, Stored',
           next \in {"vibrations", "serving"} => memory.language \in Languages,
           dbs'.el1.version = dbs.el1.version
    PROVE  TypeInv'
<1>1. CASE Dies /\ UNCHANGED failures
  BY <1>1, DiesTypes
<1>2. CASE /\ UNCHANGED failures \/ Fails
           /\ phase' = next /\ work' = memory /\ UNCHANGED <<first, known, others, crashes>>
  <2>1. failures' \in {failures, failures + 1}
    BY <1>2 DEF Fails
  <2>2. dbs.el1.version = RINGTONE_RDB_VERSION
    BY DEF TypeInv, Staged
  <2>3. next \notin {"upgrade", "backup", "moved"} /\ next \in Phases
    BY DEF After, Phases
  <2> QED
    BY <1>2, <2>1, <2>2, <2>3, CalmTypes
<1> QED
  BY <1>1, <1>2 DEF Ends

LEMMA WorkWith ==
    ASSUME NEW w, WorkOK(w), NEW todo
    PROVE  LET v == [w EXCEPT !.todo = todo]
           IN  /\ WorkOK(v) /\ v.open = w.open /\ v.todo = todo /\ v.left = w.left /\ v.all = w.all
               /\ v.language = w.language
<1>1. /\ w = [open |-> w.open, todo |-> w.todo, left |-> w.left, all |-> w.all, language |-> w.language]
      /\ w.open \in {"el1", "el2"}
  BY DEF WorkOK
<1> QED
  BY <1>1 DEF WorkOK

LEMMA WorkIs ==
    ASSUME NEW v, NEW open \in {"el1", "el2"}, NEW todo, NEW left, NEW all \in BOOLEAN, NEW language,
           v = [open |-> open, todo |-> todo, left |-> left, all |-> all, language |-> language]
    PROVE  /\ WorkOK(v) /\ v.open = open /\ v.todo = todo /\ v.left = left /\ v.all = all
           /\ v.language = language
BY DEF WorkOK

LEMMA PrefsWith ==
    ASSUME Stored
    PROVE  /\ \A b \in BOOLEAN :
                /\ [prefs EXCEPT !.completed = b]
                    \in [completed : BOOLEAN, initScanner : BOOLEAN, eSimTime : {"none", "recent", "old"}]
                /\ [prefs EXCEPT !.initScanner = b]
                    \in [completed : BOOLEAN, initScanner : BOOLEAN, eSimTime : {"none", "recent", "old"}]
           /\ \A time \in {"none", "recent", "old"} :
                [prefs EXCEPT !.eSimTime = time]
                    \in [completed : BOOLEAN, initScanner : BOOLEAN, eSimTime : {"none", "recent", "old"}]
BY DEF Stored

LEMMA MidTypes == ASSUME TypeInv, Mid PROVE TypeInv'
<1>1. /\ phase = "upgrade" /\ UNCHANGED <<job, files, folder>>
      /\ \/ prefs' = prefs
         \/ At("scanAgain") /\ prefs' = [prefs EXCEPT !.completed = FALSE]
         \/ prefs' = [prefs EXCEPT !.eSimTime = "recent"]
      /\ Passed /\ \E db : Carried(db)
  BY MidPasses
<1>2. PICK db : Carried(db)
  BY <1>1
<1>3. IsDb(db) /\ db.version # 0 /\ dbs' = [dbs EXCEPT ![work.open] = db]
  BY <1>2 DEF Carried, UsedDb, SetDb
<1>4. work.open \in {"el1", "el2"} /\ DbsOK(dbs)
  BY OpenDb
<1>5. DbsOK(dbs)' /\ dbs'[work.open] = db
  BY <1>3, <1>4, SetDbTypes
<1>6. prefs' \in [completed : BOOLEAN, initScanner : BOOLEAN, eSimTime : {"none", "recent", "old"}]
  BY <1>1, PrefsWith DEF TypeInv, Stored
<1>7. Stored'
  BY <1>1, <1>5, <1>6 DEF TypeInv, Stored
<1>8. CASE Dies /\ failures' = failures
  BY <1>1, <1>7, <1>8, DiesTypes
<1>9. ASSUME NEW todo, Advanced(todo) PROVE TypeInv'
  <2>1. WorkOK(work) /\ work' = [work EXCEPT !.todo = todo]
    BY <1>9 DEF Advanced, TypeInv, Memory
  <2>2. WorkOK(work') /\ work'.open = work.open
    <3>1. work.all \in BOOLEAN
      BY <2>1 DEF WorkOK
    <3> QED
      BY <2>1, <3>1, WorkWith
  <2>3. Counted'
    BY <1>9 DEF Advanced, TypeInv, Counted
  <2>4. Memory'
    BY <1>9, <2>2 DEF Advanced, TypeInv, Memory
  <2>5. Staged'
    <3>1. scan.phase = "idle" /\ \A c \in Clients : clients[c] = <<>>
      BY <1>1 DEF TypeInv, Staged, After
    <3>2. phase' = "upgrade" /\ scan' = scan /\ clients' = clients
      BY <1>9 DEF Advanced
    <3> QED
      BY <1>3, <1>5, <2>2, <3>1, <3>2 DEF Staged, After, Phases, Db
  <2> QED
    BY <1>1, <1>7, <2>3, <2>4, <2>5 DEF TypeInv
<1> QED
  BY <1>1, <1>8, <1>9 DEF Passed

(* The database OnCreate makes. *)
NewDb == [version |-> RINGTONE_RDB_VERSION, schema |-> Schemas, rows |-> <<>>,
          conf |-> [type \in Types |-> "null"], sims |-> [key \in SimKeys |-> EmptySim], vibrations |-> <<>>]

LEMMA NewDbTypes == UsedDb(NewDb) /\ NewDb.version = RINGTONE_RDB_VERSION
<1>1. RINGTONE_RDB_VERSION \in 1 .. RINGTONE_RDB_VERSION
  BY DEF RINGTONE_RDB_VERSION
<1>2. Table(<<>>) /\ Vibrations(<<>>)
  BY DEF Table, Vibrations
<1>3. Confs([type \in Types |-> "null"])
  BY DEF Confs
<1>4. Sims([key \in SimKeys |-> EmptySim])
  BY DEF Sims, EmptySim, SimRow
<1> DEFINE d == NewDb
<1>5. /\ d.version = RINGTONE_RDB_VERSION /\ d.schema = Schemas /\ d.rows = <<>> /\ d.vibrations = <<>>
      /\ d.conf = [type \in Types |-> "null"] /\ d.sims = [key \in SimKeys |-> EmptySim]
  BY DEF NewDb
<1>6. d = [version |-> d.version, schema |-> d.schema, rows |-> d.rows, conf |-> d.conf,
           sims |-> d.sims, vibrations |-> d.vibrations]
  BY DEF NewDb
<1> HIDE DEF d
<1>7. UsedDb(d)
  BY <1>1, <1>2, <1>3, <1>4, <1>5, <1>6, DbParts
<1> QED
  BY <1>5, <1>7 DEF d

LEMMA OnCreateIs ==
    ASSUME TypeInv, OnCreate
    PROVE  /\ phase = "open" /\ Db.version = 0 /\ UNCHANGED <<job, prefs, files, work>>
           /\ UNCHANGED <<first, known, others, crashes>>
           /\ folder' \in {"open", folder}
           /\ \/ /\ dbs' = [dbs EXCEPT ![work.open] = NewDb] /\ failures' = failures
                 /\ phase' = IF work.open = "el2" THEN "backup" ELSE "defaults"
              \/ dbs' = dbs /\ folder' = folder /\ Fails /\ phase' = "off"
<1>1. [NoDb EXCEPT !.version = RINGTONE_RDB_VERSION,
                   !.schema = {"language", "conf", "vibrate", "flags", "haptic"},
                   !.sims = [key \in SimKeys |-> EmptySim],
                   !.conf = [type \in Types |-> "null"]] = NewDb
  <2> DEFINE sims == [key \in SimKeys |-> EmptySim]
             conf == [type \in Types |-> "null"]
             none == <<>>
             d == [version |-> 0, schema |-> {}, rows |-> none, conf |-> none, sims |-> none, vibrations |-> none]
  <2>1. NoDb = d
    BY DEF NoDb
  <2>2. NewDb = [version |-> RINGTONE_RDB_VERSION, schema |-> Schemas, rows |-> none, conf |-> conf,
                 sims |-> sims, vibrations |-> none]
    BY Zenon DEF NewDb
  <2> HIDE DEF sims, conf, none
  <2>3. [d EXCEPT !.version = RINGTONE_RDB_VERSION,
                  !.schema = Schemas, !.sims = sims, !.conf = conf] = NewDb
    <3> DEFINE n == RINGTONE_RDB_VERSION
               S == Schemas
               d1 == [d EXCEPT !.version = n]
               d2 == [d1 EXCEPT !.schema = S]
               d3 == [d2 EXCEPT !.sims = sims]
               d4 == [d3 EXCEPT !.conf = conf]
    <3>1. d4 = [d EXCEPT !.version = n, !.schema = S, !.sims = sims, !.conf = conf]
      OBVIOUS
    <3> HIDE DEF n, S
    <3>2. d1 = [version |-> n, schema |-> {}, rows |-> none, conf |-> none, sims |-> none, vibrations |-> none]
      OBVIOUS
    <3> HIDE DEF d1
    <3>3. d2 = [version |-> n, schema |-> S, rows |-> none, conf |-> none, sims |-> none, vibrations |-> none]
      BY <3>2
    <3> HIDE DEF d2
    <3>4. d3 = [version |-> n, schema |-> S, rows |-> none, conf |-> none, sims |-> sims, vibrations |-> none]
      BY <3>3
    <3> HIDE DEF d3
    <3>5. d4 = [version |-> n, schema |-> S, rows |-> none, conf |-> conf, sims |-> sims, vibrations |-> none]
      BY <3>4
    <3> QED
      BY <2>2, <3>1, <3>5, Zenon DEF n, S
  <2> QED
    BY <2>1, <2>3, Zenon DEF Schemas, sims, conf
<1>2. /\ phase = "open" /\ Db.version = 0 /\ UNCHANGED <<job, prefs, files, work>>
      /\ UNCHANGED <<first, known, others, crashes>>
      /\ \/ /\ dbs' = [dbs EXCEPT ![work.open] = NewDb] /\ failures' = failures
            /\ phase' = IF work.open = "el2" THEN "backup" ELSE "defaults"
            /\ folder' = IF folder = "none" THEN "open" ELSE folder
         \/ Fails /\ phase' = "off" /\ UNCHANGED <<dbs, folder>>
  BY <1>1, Zenon DEF OnCreate, SetDb, Calm
<1> QED
  BY <1>2

LEMMA OnCreateTypes == ASSUME TypeInv, OnCreate PROVE TypeInv'
<1>1. /\ phase = "open" /\ UNCHANGED <<job, prefs, files, work>>
      /\ UNCHANGED <<first, known, others, crashes>>
      /\ folder' \in {"open", folder}
      /\ \/ /\ dbs' = [dbs EXCEPT ![work.open] = NewDb] /\ failures' = failures
            /\ phase' = IF work.open = "el2" THEN "backup" ELSE "defaults"
         \/ dbs' = dbs /\ folder' = folder /\ Fails /\ phase' = "off"
  BY OnCreateIs
<1>2. work.open \in {"el1", "el2"} /\ DbsOK(dbs) /\ WorkOK(work)
  BY OpenDb DEF TypeInv, Memory
<1>3. IsDb(NewDb) /\ NewDb.version = RINGTONE_RDB_VERSION
  BY NewDbTypes DEF UsedDb
<1>4. CASE dbs' = dbs /\ folder' = folder /\ Fails /\ phase' = "off"
  <2>1. Stored' /\ failures' \in {failures, failures + 1}
    BY <1>1, <1>2, <1>4 DEF TypeInv, Stored, DbsOK, Fails
  <2> QED
    BY <1>1, <1>2, <1>4, <2>1, CalmTypes DEF Phases, After
<1>5. CASE /\ dbs' = [dbs EXCEPT ![work.open] = NewDb] /\ failures' = failures
           /\ phase' = IF work.open = "el2" THEN "backup" ELSE "defaults"
  <2>1. /\ DbsOK(dbs)'
        /\ work.open = "el1" => dbs'.el1 = NewDb
        /\ work.open = "el2" => dbs'.el2 = NewDb
    BY <1>2, <1>3, <1>5, SetDbTypes
  <2>2. Stored'
    BY <1>1, <2>1 DEF TypeInv, Stored
  <2> QED
    BY <1>1, <1>2, <1>3, <1>5, <2>1, <2>2, CalmTypes DEF Phases, After
<1> QED
  BY <1>1, <1>4, <1>5

LEMMA BeginUpgradeTypes == ASSUME TypeInv, BeginUpgrade PROVE TypeInv'
<1>1. /\ phase = "open" /\ Db.version # 0 /\ phase' = "upgrade"
      /\ work' = [work EXCEPT !.todo = StepsFrom(Db.version)]
      /\ UNCHANGED <<job, first, known, others, crashes>> /\ UNCHANGED <<storage, failures>>
  BY Zenon DEF BeginUpgrade, Calm
<1>2. WorkOK(work) /\ work.all \in BOOLEAN
  BY DEF TypeInv, Memory, WorkOK
<1>3. WorkOK(work') /\ work'.open = work.open
  <2> DEFINE todo == StepsFrom(Db.version)
  <2>1. work' = [work EXCEPT !.todo = todo]
    BY <1>1
  <2> HIDE DEF todo
  <2> QED
    BY <1>2, <2>1, WorkWith
<1>4. Stored' /\ dbs' = dbs
  BY <1>1 DEF TypeInv, Stored, storage, DbsOK
<1>5. dbs'[work'.open].version # 0
  BY <1>1, <1>3, <1>4 DEF Db
<1> QED
  BY <1>1, <1>3, <1>4, <1>5, CalmTypes DEF Phases, After

LEMMA EndUpgradeIs ==
    ASSUME TypeInv, EndUpgrade
    PROVE  /\ phase = "upgrade" /\ work.todo = <<>>
           /\ UNCHANGED <<job, prefs, files, folder, work, failures>>
           /\ UNCHANGED <<first, known, others, crashes>>
           /\ phase' = IF work.open = "el2" THEN "backup" ELSE "defaults"
           /\ \E db : /\ UsedDb(db) /\ db.version = RINGTONE_RDB_VERSION
                      /\ db.rows = Db.rows /\ db.vibrations = Db.vibrations
                      /\ dbs' = [dbs EXCEPT ![work.open] = db]
<1>1. /\ phase = "upgrade" /\ work.todo = <<>>
      /\ UNCHANGED <<job, prefs, files, folder, work, failures>>
      /\ UNCHANGED <<first, known, others, crashes>>
      /\ phase' = IF work.open = "el2" THEN "backup" ELSE "defaults"
      /\ dbs' = [dbs EXCEPT ![work.open] = [Db EXCEPT !.version = RINGTONE_RDB_VERSION]]
  BY DEF EndUpgrade, Calm, SetDb
<1> DEFINE d == Db
           new == [d EXCEPT !.version = RINGTONE_RDB_VERSION]
<1>2. UsedDb(d)
  BY <1>1, OpenDb
<1> HIDE DEF d
<1>3. UsedDb(new) /\ new.version = RINGTONE_RDB_VERSION /\ new.rows = d.rows /\ new.vibrations = d.vibrations
  BY <1>2, DbWith
<1> QED
  BY <1>1, <1>3 DEF d

LEMMA EndUpgradeTypes == ASSUME TypeInv, EndUpgrade PROVE TypeInv'
<1>1. /\ phase = "upgrade" /\ UNCHANGED <<job, prefs, files, folder, work, failures>>
      /\ UNCHANGED <<first, known, others, crashes>>
      /\ phase' = IF work.open = "el2" THEN "backup" ELSE "defaults"
  BY EndUpgradeIs
<1>2. PICK db : /\ UsedDb(db) /\ db.version = RINGTONE_RDB_VERSION
                /\ dbs' = [dbs EXCEPT ![work.open] = db]
  BY EndUpgradeIs
<1>3. work.open \in {"el1", "el2"} /\ DbsOK(dbs) /\ WorkOK(work) /\ IsDb(db)
  BY <1>2, OpenDb DEF TypeInv, Memory, UsedDb
<1>4. /\ DbsOK(dbs)'
      /\ work.open = "el1" => dbs'.el1 = db
      /\ work.open = "el2" => dbs'.el2 = db
  BY <1>2, <1>3, SetDbTypes
<1>5. Stored'
  BY <1>1, <1>4 DEF TypeInv, Stored
<1> QED
  BY <1>1, <1>2, <1>3, <1>4, <1>5, CalmTypes DEF Phases, After

LEMMA UpgradeTypes == ASSUME TypeInv, UpgradeStep PROVE TypeInv'
<1>1. OnCreate \/ BeginUpgrade \/ EndUpgrade \/ Mid
  BY DEF UpgradeStep, Mid
<1> QED
  BY <1>1, OnCreateTypes, BeginUpgradeTypes, EndUpgradeTypes, MidTypes

LEMMA InUse ==
    ASSUME TypeInv, phase \in After
    PROVE  /\ DbsOK(dbs) /\ UsedDb(dbs.el1) /\ dbs.el1.version = RINGTONE_RDB_VERSION
           /\ rows = dbs.el1.rows /\ Table(rows) /\ Vibrations(dbs.el1.vibrations) /\ Confs(dbs.el1.conf)
           /\ WorkOK(work) /\ work.open = "el1" /\ work.all \in BOOLEAN
<1>1. /\ DbsOK(dbs) /\ dbs.el1.version = RINGTONE_RDB_VERSION /\ WorkOK(work) /\ work.open = "el1"
      /\ work.all \in BOOLEAN
  BY DEF TypeInv, Stored, Staged, Memory, WorkOK
<1>2. UsedDb(dbs.el1)
  BY <1>1 DEF DbsOK, UsedDb, RINGTONE_RDB_VERSION
<1> QED
  BY <1>1, <1>2, DbParts DEF rows

(* A table of the database in use is replaced. *)
LEMMA El1With ==
    ASSUME TypeInv, phase \in After
    PROVE  /\ \A R : Table(R) /\ dbs' = [dbs EXCEPT !.el1.rows = R] =>
                /\ DbsOK(dbs)' /\ UsedDb(dbs'.el1) /\ dbs'.el1.rows = R /\ dbs'.el2 = dbs.el2
                /\ dbs'.el1.version = dbs.el1.version /\ dbs'.el1.vibrations = dbs.el1.vibrations
           /\ \A V : Vibrations(V) /\ dbs' = [dbs EXCEPT !.el1.vibrations = V] =>
                /\ DbsOK(dbs)' /\ UsedDb(dbs'.el1) /\ dbs'.el1.vibrations = V /\ dbs'.el2 = dbs.el2
                /\ dbs'.el1.version = dbs.el1.version /\ dbs'.el1.rows = dbs.el1.rows
           /\ \A conf : Confs(conf) /\ dbs' = [dbs EXCEPT !.el1.conf = conf] =>
                /\ DbsOK(dbs)' /\ UsedDb(dbs'.el1) /\ dbs'.el2 = dbs.el2
                /\ dbs'.el1.version = dbs.el1.version /\ dbs'.el1.rows = dbs.el1.rows
                /\ dbs'.el1.vibrations = dbs.el1.vibrations
<1> DEFINE d == dbs.el1
<1>1. UsedDb(d) /\ DbsOK(dbs) /\ dbs = [el1 |-> d, el2 |-> dbs.el2]
  BY InUse DEF DbsOK
<1>2. ASSUME NEW db, UsedDb(db), dbs' = [dbs EXCEPT !.el1 = db]
      PROVE  DbsOK(dbs)' /\ dbs'.el1 = db /\ dbs'.el2 = dbs.el2
  <2>1. IsDb(db) /\ dbs' = [dbs EXCEPT !["el1"] = db]
    BY <1>2 DEF UsedDb
  <2> QED
    BY <1>1, <2>1, SetDbTypes
<1>3. ASSUME NEW R, Table(R), dbs' = [dbs EXCEPT !.el1.rows = R]
      PROVE  /\ DbsOK(dbs)' /\ UsedDb(dbs'.el1) /\ dbs'.el1.rows = R /\ dbs'.el2 = dbs.el2
             /\ dbs'.el1.version = dbs.el1.version /\ dbs'.el1.vibrations = dbs.el1.vibrations
  <2> DEFINE db == [d EXCEPT !.rows = R]
  <2>1. dbs' = [dbs EXCEPT !.el1 = db]
    BY <1>1, <1>3
  <2> HIDE DEF d
  <2>2. UsedDb(db) /\ db.rows = R /\ db.version = d.version /\ db.vibrations = d.vibrations
    BY <1>1, <1>3, DbWith
  <2> HIDE DEF db
  <2> QED
    BY <1>2, <2>1, <2>2 DEF d
<1>4. ASSUME NEW V, Vibrations(V), dbs' = [dbs EXCEPT !.el1.vibrations = V]
      PROVE  /\ DbsOK(dbs)' /\ UsedDb(dbs'.el1) /\ dbs'.el1.vibrations = V /\ dbs'.el2 = dbs.el2
             /\ dbs'.el1.version = dbs.el1.version /\ dbs'.el1.rows = dbs.el1.rows
  <2> DEFINE db == [d EXCEPT !.vibrations = V]
  <2>1. dbs' = [dbs EXCEPT !.el1 = db]
    BY <1>1, <1>4
  <2> HIDE DEF d
  <2>2. UsedDb(db) /\ db.vibrations = V /\ db.version = d.version /\ db.rows = d.rows
    BY <1>1, <1>4, DbWith
  <2> HIDE DEF db
  <2> QED
    BY <1>2, <2>1, <2>2 DEF d
<1>5. ASSUME NEW conf, Confs(conf), dbs' = [dbs EXCEPT !.el1.conf = conf]
      PROVE  /\ DbsOK(dbs)' /\ UsedDb(dbs'.el1) /\ dbs'.el2 = dbs.el2
             /\ dbs'.el1.version = dbs.el1.version /\ dbs'.el1.rows = dbs.el1.rows
             /\ dbs'.el1.vibrations = dbs.el1.vibrations
  <2> DEFINE db == [d EXCEPT !.conf = conf]
  <2>1. dbs' = [dbs EXCEPT !.el1 = db]
    BY <1>1, <1>5
  <2> HIDE DEF d
  <2>2. UsedDb(db) /\ db.vibrations = d.vibrations /\ db.version = d.version /\ db.rows = d.rows
    BY <1>1, <1>5, DbWith
  <2> HIDE DEF db
  <2> QED
    BY <1>2, <2>1, <2>2 DEF d
<1> HIDE DEF d
<1> QED
  BY <1>3, <1>4, <1>5

LEMMA LanguageTypes ==
    ASSUME NEW language \in Languages, NEW done
    PROVE  /\ \A R : Table(R) =>
                LET new == InLanguage(R, done, language)
                IN  /\ Table(new) /\ DOMAIN new = DOMAIN R
                    /\ \A t \in DOMAIN R : SameUse(new[t], R[t]) /\ new[t].source = R[t].source /\ new[t].place = R[t].place
           /\ \A V : Vibrations(V) => Vibrations(InLanguage(V, done, language))
<1>1. ASSUME NEW R, Table(R)
      PROVE  LET new == InLanguage(R, done, language)
             IN  /\ Table(new) /\ DOMAIN new = DOMAIN R
                 /\ \A t \in DOMAIN R : SameUse(new[t], R[t]) /\ new[t].source = R[t].source /\ new[t].place = R[t].place
  <2> DEFINE new == InLanguage(R, done, language)
             told(t) == [R[t] EXCEPT !.mark = language, !.title = IF t \in Translated THEN language ELSE R[t].title]
  <2>1. DOMAIN new = DOMAIN R /\ DOMAIN R \subseteq Paths
    BY <1>1 DEF InLanguage, Table
  <2>2. ASSUME NEW t \in DOMAIN R
        PROVE  /\ GoodRow(told(t)) /\ SameUse(told(t), R[t])
               /\ told(t).source = R[t].source /\ told(t).place = R[t].place
    <3> DEFINE r == R[t]
               v == [r EXCEPT !.mark = language, !.title = IF t \in Translated THEN language ELSE r.title]
    <3>1. GoodRow(r) /\ told(t) = v
      BY <1>1 DEF Table
    <3> HIDE DEF r
    <3>2. v \in Tone /\ v.on = r.on /\ v.source = r.source /\ v.place = r.place
      BY <3>1 DEF GoodRow, Tone, Title, Mark
    <3>3. SameUse(v, r)
      BY <3>1 DEF GoodRow, Tone, SameUse
    <3> HIDE DEF v, told
    <3> QED
      BY <3>1, <3>2, <3>3, Zenon DEF GoodRow, r
  <2>3. \A t \in DOMAIN R : new[t] = IF t \notin done THEN R[t] ELSE told(t)
    <3>1. \A r \in Tone : \A t :
            [r EXCEPT !.mark = language, !.title = IF t \in Translated THEN language ELSE @]
            = [r EXCEPT !.mark = language, !.title = IF t \in Translated THEN language ELSE r.title]
      BY DEF Tone
    <3>2. \A t \in DOMAIN R : R[t] \in Tone
      BY <1>1 DEF Table, GoodRow
    <3> QED
      BY <3>1, <3>2 DEF InLanguage
  <2>4. \A t \in DOMAIN R : GoodRow(R[t]) /\ SameUse(R[t], R[t])
    BY <1>1 DEF Table, SameUse
  <2> HIDE DEF new, told
  <2>5. \A t \in DOMAIN R : /\ GoodRow(new[t]) /\ SameUse(new[t], R[t])
                          /\ new[t].source = R[t].source /\ new[t].place = R[t].place
    BY <2>2, <2>3, <2>4
  <2>6. Table(new)
    BY <2>1, <2>5 DEF Table
  <2> QED
    BY <2>1, <2>5, <2>6 DEF new
<1>2. ASSUME NEW V, Vibrations(V) PROVE Vibrations(InLanguage(V, done, language))
  BY <1>2 DEF Vibrations, InLanguage, Title, Mark
<1> QED
  BY <1>1, <1>2

LEMMA OpeningTypes ==
    ASSUME TypeInv, ChecMoveDb \/ MoveEL2DBToEL1DB \/ SetMoveEL2DBToEL1
    PROVE  TypeInv'
<1>1. UNCHANGED <<job, first, known, others, crashes>> /\ UNCHANGED <<files, folder>>
  BY Zenon DEF ChecMoveDb, MoveEL2DBToEL1DB, SetMoveEL2DBToEL1, Calm
<1>2. DbsOK(dbs) /\ WorkOK(work) /\ Stored /\ failures \in Nat
  BY DEF TypeInv, Memory, Stored, Counted
<1>3. CASE ChecMoveDb
  <2>1. phase = "off" /\ UNCHANGED <<dbs, prefs>>
    BY <1>3, Zenon DEF ChecMoveDb
  <2>2. Stored'
    BY <1>1, <1>2, <2>1 DEF Stored, DbsOK
  <2>3. CASE Fails /\ Then("off")
    <3>1. phase' = "off" /\ work' = work /\ failures' \in {failures, failures + 1}
      BY <2>3 DEF Then, Fails
    <3> QED
      BY <1>1, <1>2, <2>1, <2>2, <3>1, CalmTypes DEF Phases, After
  <2>4. CASE /\ phase' = "open" /\ failures' = failures
             /\ work' = [NoWork EXCEPT !.open = IF ~prefs.completed /\ job.el2Completed THEN "el2" ELSE "el1"]
    <3>1. WorkOK(work')
      BY <2>4 DEF WorkOK, NoWork
    <3> QED
      BY <1>1, <1>2, <2>1, <2>2, <2>4, <3>1, CalmTypes DEF Phases, After
  <2> QED
    BY <1>3, <2>3, <2>4, Zenon DEF ChecMoveDb
<1>4. CASE MoveEL2DBToEL1DB
  <2>1. phase = "backup" /\ prefs' = prefs /\ work' = work
    BY <1>4, Zenon DEF MoveEL2DBToEL1DB, Then
  <2>2. dbs.el2.version = RINGTONE_RDB_VERSION
    BY <2>1 DEF TypeInv, Staged
  <2>3. CASE dbs' = [dbs EXCEPT !.el1 = dbs.el2] /\ phase' = "moved" /\ failures' = failures
    <3> DEFINE db == dbs.el2
    <3>1. IsDb(db) /\ dbs' = [dbs EXCEPT !["el1"] = db]
      BY <1>2, <2>3 DEF DbsOK
    <3>2. DbsOK(dbs)' /\ dbs'.el1 = db
      BY <1>2, <3>1, SetDbTypes
    <3>3. Stored'
      BY <1>1, <1>2, <2>1, <3>2 DEF Stored
    <3> QED
      BY <1>1, <1>2, <2>1, <2>2, <2>3, <3>2, <3>3, CalmTypes DEF Phases, After
  <2>4. CASE Fails /\ phase' = "off" /\ dbs' = dbs
    <3>1. Stored' /\ failures' \in {failures, failures + 1}
      BY <1>1, <1>2, <2>1, <2>4 DEF Stored, DbsOK, Fails
    <3> QED
      BY <1>1, <1>2, <2>1, <2>4, <3>1, CalmTypes DEF Phases, After
  <2> QED
    BY <1>4, <2>3, <2>4, Zenon DEF MoveEL2DBToEL1DB, Then
<1>5. CASE SetMoveEL2DBToEL1
  <2>1. phase = "moved" /\ phase' = "open" /\ work' = NoWork /\ dbs' = dbs
    BY <1>5, Zenon DEF SetMoveEL2DBToEL1
  <2>2. /\ prefs' = [prefs EXCEPT !.completed = TRUE] \/ prefs' = prefs
        /\ failures' \in {failures, failures + 1}
    BY <1>5 DEF SetMoveEL2DBToEL1, Fails
  <2>3. prefs' \in [completed : BOOLEAN, initScanner : BOOLEAN, eSimTime : {"none", "recent", "old"}]
    BY <1>2, <2>2, PrefsWith DEF Stored
  <2>4. Stored' /\ WorkOK(work')
    BY <1>1, <1>2, <2>1, <2>3 DEF Stored, DbsOK, WorkOK, NoWork
  <2> QED
    BY <1>1, <1>2, <2>1, <2>2, <2>4, CalmTypes DEF Phases, After
<1> QED
  BY <1>3, <1>4, <1>5

LEMMA FolderTypes ==
    ASSUME TypeInv, CheckRingtoneDbDefaultSettings \/ AccessRingtoneDir \/ CreatePreloadFolder
    PROVE  TypeInv'
<1>1. /\ UNCHANGED <<job, first, known, others, crashes>> /\ UNCHANGED <<dbs, work>>
      /\ phase \in {"defaults", "dir", "makeDir"} /\ phase' \in {"dir", "scan", "makeDir", "moveBack"}
  BY DEF CheckRingtoneDbDefaultSettings, AccessRingtoneDir, CreatePreloadFolder, Calm, Then
<1>2. phase \in After /\ phase' \in After \ {"wait", "serving", "vibrations"} /\ phase' \in Phases
  BY <1>1 DEF After, Phases
<1>3. failures' \in {failures, failures + 1}
  <2>1. UNCHANGED failures \/ Fails
    BY DEF CheckRingtoneDbDefaultSettings, AccessRingtoneDir, CreatePreloadFolder
  <2> QED
    BY <2>1 DEF Fails
<1>4. prefs' \in [completed : BOOLEAN, initScanner : BOOLEAN, eSimTime : {"none", "recent", "old"}]
  <2>1. CASE CheckRingtoneDbDefaultSettings
    <3> DEFINE inPlace == \E x \in DOMAIN dbs.el1.conf : x = <<"ring", "SIM1">> /\ dbs.el1.conf[x] # "null"
               b == prefs.initScanner \/ inPlace
    <3>1. prefs' = [prefs EXCEPT !.initScanner = b] \/ prefs' = prefs
      BY <2>1, Zenon DEF CheckRingtoneDbDefaultSettings
    <3>2. b \in BOOLEAN
      BY DEF TypeInv, Stored
    <3> HIDE DEF b
    <3> QED
      BY <3>1, <3>2, PrefsWith DEF TypeInv, Stored
  <2>2. CASE AccessRingtoneDir \/ CreatePreloadFolder
    BY <2>2 DEF AccessRingtoneDir, CreatePreloadFolder, TypeInv, Stored
  <2> QED
    BY <2>1, <2>2
<1>5. files' \subseteq Paths \X {"old", "new", "tmp"} /\ folder' \in {"open", "closed", "none"}
  <2>1. files \subseteq Paths \X {"old", "new", "tmp"} /\ folder \in {"open", "closed", "none"}
    BY DEF TypeInv, Stored
  <2>2. /\ \/ files' = files
           \/ files' = (files \ In("new")) \cup Moved(In("new"), "tmp")
           \/ files' = (files \ In("tmp")) \cup Moved(In("tmp"), "new")
        /\ folder' \in {"open", "closed", "none", folder}
    BY DEF CheckRingtoneDbDefaultSettings, AccessRingtoneDir, CreatePreloadFolder
  <2> QED
    BY <2>1, <2>2 DEF In, Moved
<1>6. Stored'
  BY <1>1, <1>4, <1>5 DEF TypeInv, Stored, DbsOK
<1>7. WorkOK(work) /\ work.open = "el1" /\ dbs.el1.version = RINGTONE_RDB_VERSION
  BY <1>2, InUse
<1> QED
  BY <1>1, <1>2, <1>3, <1>6, <1>7, CalmTypes

LEMMA EndingTypes ==
    ASSUME TypeInv, MoveDirectory \/ RemoveRingtoneFolder
    PROVE  TypeInv'
<1>1. /\ phase \in After \ {"wait", "serving"} /\ UNCHANGED <<job, dbs, prefs, folder>>
      /\ files' \subseteq files \cup Moved(In("tmp"), "new")
      /\ \E done \in BOOLEAN, next \in {"scan", "ringtones"} : Ends(done, next, work)
  <2>1. CASE MoveDirectory
    <3>1. phase = "moveBack" /\ UNCHANGED <<job, dbs, prefs, folder>>
      BY <2>1 DEF MoveDirectory
    <3>2. PICK gone \in SUBSET In("tmp") :
            /\ files' = (files \ gone) \cup Moved(gone, "new")
            /\ Ends(gone = In("tmp"), "scan", work)
      BY <2>1 DEF MoveDirectory
    <3>3. files' \subseteq files \cup Moved(In("tmp"), "new")
      BY <3>2 DEF Moved
    <3> QED
      BY <3>1, <3>2, <3>3 DEF After
  <2>2. CASE RemoveRingtoneFolder
    <3>1. phase = "copy" /\ UNCHANGED <<job, dbs, prefs, folder>>
      BY <2>2 DEF RemoveRingtoneFolder
    <3>2. PICK gone \in SUBSET In("old") :
            files' = files \ gone /\ Ends(work.all => gone = In("old"), "ringtones", work)
      BY <2>2 DEF RemoveRingtoneFolder
    <3>3. files' \subseteq files \cup Moved(In("tmp"), "new")
      BY <3>2
    <3> QED
      BY <3>1, <3>2, <3>3 DEF After
  <2> QED
    BY <2>1, <2>2
<1>2. PICK done \in BOOLEAN, next \in {"scan", "ringtones"} : Ends(done, next, work)
  BY <1>1
<1>3. Stored'
  BY <1>1 DEF TypeInv, Stored, DbsOK, Moved, In
<1>4. WorkOK(work) /\ work.open = "el1"
  BY <1>1, InUse
<1>5. next \in After /\ next \notin {"vibrations", "serving"}
  BY DEF After
<1> QED
  BY <1>1, <1>2, <1>3, <1>4, <1>5, EndsTypes

(* A scan whose phase is another. *)
LEMMA ScanWith ==
    ASSUME NEW s, ScanOK(s), NEW p, p # "idle"
    PROVE  LET new == [s EXCEPT !.phase = p]
           IN  /\ ScanOK(new) /\ new.phase = p /\ new.buffer = s.buffer /\ new.cache = s.cache
               /\ new.presets = s.presets /\ new.todo = s.todo
<1>1. s = [phase |-> s.phase, buffer |-> s.buffer, cache |-> s.cache, presets |-> s.presets, todo |-> s.todo]
  BY DEF ScanOK
<1> DEFINE new == [phase |-> p, buffer |-> s.buffer, cache |-> s.cache, presets |-> s.presets, todo |-> s.todo]
<1>2. [s EXCEPT !.phase = p] = new
  BY <1>1
<1>3. /\ new.phase = p /\ new.buffer = s.buffer /\ new.cache = s.cache
      /\ new.presets = s.presets /\ new.todo = s.todo
  OBVIOUS
<1>4. new = [phase |-> new.phase, buffer |-> new.buffer, cache |-> new.cache, presets |-> new.presets,
             todo |-> new.todo]
  OBVIOUS
<1> HIDE DEF new
<1>5. ScanOK(new)
  BY <1>3, <1>4 DEF ScanOK
<1> QED
  BY <1>2, <1>3, <1>5

LEMMA ScannerTypes == ASSUME TypeInv, RingtoneScanner PROVE TypeInv'
<1>1. /\ phase = "scan" /\ known' = TRUE /\ first' = (first /\ known) /\ work' = work
      /\ \/ phase' = "paths" /\ scan' = scan
         \/ phase' = "wait" /\ scan' = [NoScan EXCEPT !.phase = "walk"]
      /\ UNCHANGED <<job, dbs, prefs, files, folder, clients, history, failures, crashes>>
  BY Zenon DEF RingtoneScanner, Then
<1>2. phase \in After /\ first' \in BOOLEAN /\ known' \in BOOLEAN
  BY <1>1 DEF After, TypeInv, Counted
<1>3. Stored' /\ Counted'
  BY <1>1, <1>2 DEF TypeInv, Stored, Counted, DbsOK
<1>4. ScanOK([NoScan EXCEPT !.phase = "walk"]) /\ [NoScan EXCEPT !.phase = "walk"].phase = "walk"
  <2>1. ScanOK(NoScan)
    BY DEF ScanOK, NoScan, Table, Vibrations, AreSettings
  <2> QED
    BY <2>1, ScanWith
<1>5. Memory'
  BY <1>1, <1>4 DEF TypeInv, Memory
<1>6. Staged'
  <2>1. scan.phase # "idle" => history.late
    BY <1>1 DEF TypeInv, Staged
  <2>2. \A c \in Clients : clients[c] = <<>>
    BY <1>1 DEF TypeInv, Staged
  <2>3. dbs.el1.version = RINGTONE_RDB_VERSION /\ work.open = "el1"
    BY <1>2, InUse
  <2> QED
    BY <1>1, <1>4, <2>1, <2>2, <2>3 DEF Staged, Phases, After
<1> QED
  BY <1>1, <1>3, <1>5, <1>6 DEF TypeInv

LEMMA WaitTypes == ASSUME TypeInv, WaitFor PROVE TypeInv'
<1> DEFINE b == history.late \/ scan.phase # "idle"
<1>1. /\ phase = "wait" /\ history' = [history EXCEPT !.late = b]
      /\ phase' = "paths" /\ work' = work
      /\ UNCHANGED <<job, storage, scan, clients, failures, crashes>>
  BY Zenon DEF WaitFor, Then
<1>2. HistoryOK(history') /\ history'.late = b /\ b \in BOOLEAN
  <2>1. HistoryOK(history) /\ b \in BOOLEAN
    BY DEF TypeInv, Memory, HistoryOK
  <2> HIDE DEF b
  <2> QED
    BY <1>1, <2>1 DEF HistoryOK
<1>3. Stored' /\ Counted'
  BY <1>1 DEF TypeInv, Stored, Counted, DbsOK, storage
<1>4. Memory'
  BY <1>1, <1>2 DEF TypeInv, Memory
<1>5. dbs.el1.version = RINGTONE_RDB_VERSION /\ work.open = "el1" /\ dbs' = dbs
  BY <1>1, InUse DEF After, storage
<1>6. Staged'
  <2>1. \A c \in Clients : clients[c] = <<>>
    BY <1>1 DEF TypeInv, Staged
  <2> QED
    BY <1>1, <1>2, <1>5, <2>1 DEF Staged, Phases, After
<1> QED
  BY <1>1, <1>3, <1>4, <1>6 DEF TypeInv

LEMMA QueryTypes == ASSUME TypeInv, QueryOldPaths PROVE TypeInv'
<1>1. /\ phase = "paths" /\ UNCHANGED <<job, first, known, others, crashes>>
      /\ UNCHANGED <<dbs, prefs, files, folder>>
  BY Zenon DEF QueryOldPaths, Calm
<1> DEFINE due == {t \in DOMAIN rows : rows[t].place = "old"}
<1>2. \/ phase' = "ringtones" /\ work' = work /\ failures' \in {failures, failures + 1}
      \/ /\ phase' = "copy" /\ work' = [work EXCEPT !.left = due, !.all = TRUE]
         /\ failures' = failures
  BY DEF QueryOldPaths, Then, Fails
<1>3. Stored' /\ phase \in After /\ dbs' = dbs
  BY <1>1 DEF TypeInv, Stored, DbsOK, After
<1>4. WorkOK(work) /\ work.open = "el1" /\ dbs.el1.version = RINGTONE_RDB_VERSION
  BY <1>3, InUse
<1>5. WorkOK(work') /\ work'.open = "el1"
  <2> HIDE DEF due
  <2>1. CASE work' = [work EXCEPT !.left = due, !.all = TRUE]
    <3>1. work = [open |-> work.open, todo |-> work.todo, left |-> work.left, all |-> work.all,
                    language |-> work.language]
          /\ work.open \in {"el1", "el2"}
      BY <1>4 DEF WorkOK
    <3>2. work' = [open |-> work.open, todo |-> work.todo, left |-> due, all |-> TRUE,
                   language |-> work.language]
      BY <2>1, <3>1
    <3> QED
      BY <1>4, <3>1, <3>2, WorkIs
  <2> QED
    BY <1>2, <1>4, <2>1
<1> QED
  BY <1>1, <1>2, <1>3, <1>4, <1>5, CalmTypes DEF After, Phases

LEMMA CopyIs ==
    ASSUME TypeInv, CopyOldFile
    PROVE  /\ phase = "copy" /\ UNCHANGED <<job, first, known, others, crashes>>
           /\ UNCHANGED <<dbs, prefs, folder>> /\ failures' \in {failures, failures + 1}
           /\ \E t \in work.left : \E copied, all \in BOOLEAN : \E todo :
                /\ phase' = IF copied THEN "save" ELSE "copy"
                /\ todo = IF copied THEN <<t>> ELSE <<>>
                /\ work' = [work EXCEPT !.left = work.left \ {t}, !.todo = todo, !.all = all]
                /\ WorkOK(work') /\ work'.open = work.open /\ work'.left = work.left \ {t}
                /\ work'.todo = todo /\ work'.all = all
                /\ all = (work.all /\ copied)
                /\ copied => <<t, "old">> \in files
                /\ files' = IF copied THEN files \cup {<<t, "new">>} ELSE files
<1>1. phase = "copy" /\ UNCHANGED <<job, first, known, others, crashes>> /\ UNCHANGED <<dbs, prefs, folder>>
  BY Zenon DEF CopyOldFile, Calm
<1>2. PICK t \in work.left, copied \in BOOLEAN :
        /\ phase' = IF copied THEN "save" ELSE "copy"
        /\ work' = [work EXCEPT !.left = work.left \ {t}, !.todo = IF copied THEN <<t>> ELSE <<>>,
                               !.all = CopyNoted(work.all, copied)]
        /\ \/ <<t, "old">> \in files /\ copied /\ UNCHANGED failures
           \/ <<t, "old">> \notin files /\ ~copied /\ UNCHANGED failures
           \/ <<t, "old">> \in files /\ ~copied /\ Fails
        /\ files' = IF copied THEN files \cup {<<t, "new">>} ELSE files
  BY DEF CopyOldFile
<1>3. failures' \in {failures, failures + 1} /\ (copied => <<t, "old">> \in files)
  BY <1>2 DEF Fails
<1>4. WorkOK(work) /\ work.all \in BOOLEAN
  BY DEF TypeInv, Memory, WorkOK
<1> DEFINE todo == IF copied THEN <<t>> ELSE <<>>
           all == work.all /\ copied
           left == work.left \ {t}
<1>5. all \in BOOLEAN /\ work' = [work EXCEPT !.left = left, !.todo = todo, !.all = all]
  BY <1>2, <1>4 DEF CopyNoted
<1>6. todo = IF copied THEN <<t>> ELSE <<>>
  OBVIOUS
<1>7. all = (work.all /\ copied)
  BY Zenon
<1> HIDE DEF todo
<1>8. /\ WorkOK(work') /\ work'.open = work.open /\ work'.left = left
      /\ work'.todo = todo /\ work'.all = all
  <2> HIDE DEF all, left
  <2> QED
    <3>1. work = [open |-> work.open, todo |-> work.todo, left |-> work.left, all |-> work.all,
                    language |-> work.language]
          /\ work.open \in {"el1", "el2"}
      BY <1>4 DEF WorkOK
    <3>2. work' = [open |-> work.open, todo |-> todo, left |-> left, all |-> all,
                   language |-> work.language]
      BY <1>5, <3>1
    <3>3. all \in BOOLEAN
      BY <1>5
    <3> HIDE DEF todo
    <3> QED
      BY <3>1, <3>2, <3>3, WorkIs
<1> QED
  BY <1>1, <1>2, <1>3, <1>5, <1>6, <1>7, <1>8

LEMMA CopyTypes == ASSUME TypeInv, CopyOldFile PROVE TypeInv'
<1>1. /\ phase = "copy" /\ UNCHANGED <<job, first, known, others, crashes>>
      /\ UNCHANGED <<dbs, prefs, folder>> /\ failures' \in {failures, failures + 1}
      /\ \E t \in work.left : \E copied \in BOOLEAN :
            /\ phase' = IF copied THEN "save" ELSE "copy"
            /\ WorkOK(work') /\ work'.open = work.open
            /\ copied => <<t, "old">> \in files
            /\ files' = IF copied THEN files \cup {<<t, "new">>} ELSE files
  BY CopyIs
<1>2. phase \in After /\ work.open = "el1" /\ dbs.el1.version = RINGTONE_RDB_VERSION
  BY <1>1, InUse DEF After
<1>3. files' \subseteq Paths \X {"old", "new", "tmp"}
  <2>1. files \subseteq Paths \X {"old", "new", "tmp"}
    BY DEF TypeInv, Stored
  <2> QED
    BY <1>1, <2>1
<1>4. Stored'
  BY <1>1, <1>3 DEF TypeInv, Stored, DbsOK
<1> QED
  BY <1>1, <1>2, <1>4, CalmTypes DEF After, Phases

(* The rows once the path of a tone is in the new folder. *)
LEMMA PathIs ==
    ASSUME TypeInv, UpdatePath
    PROVE  /\ phase = "save" /\ phase' = "copy" /\ work' = [work EXCEPT !.todo = <<>>]
           /\ UNCHANGED <<job, prefs, files, folder, first, known, scan, clients, crashes>>
           /\ failures' \in {failures, failures + 1}
           /\ HistoryOK(history') /\ history'.late = history.late
           /\ \/ /\ history' = history
                 /\ \E R : /\ Table(R) /\ DOMAIN R = DOMAIN rows
                           /\ dbs' = [dbs EXCEPT !.el1.rows = R]
                           /\ \A t \in DOMAIN rows :
                                /\ SameUse(R[t], rows[t]) /\ R[t].source = rows[t].source
                                /\ R[t].title = rows[t].title /\ R[t].mark = rows[t].mark
                                /\ t # Head(work.todo) => R[t] = rows[t]
                                /\ t = Head(work.todo) => R[t].place = "new"
              \/ dbs' = dbs /\ history'.unsaved = history.unsaved \cup {Head(work.todo)}
<1> DEFINE t == Head(work.todo)
<1>1. /\ phase = "save" /\ phase' = "copy" /\ work' = [work EXCEPT !.todo = <<>>]
      /\ UNCHANGED <<job, prefs, files, folder, first, known, scan, clients, crashes>>
      /\ \/ dbs' = [dbs EXCEPT !.el1.rows[t].place = "new"] /\ UNCHANGED <<failures, history>>
         \/ /\ Fails /\ dbs' = dbs
            /\ history' = [history EXCEPT !.unsaved = history.unsaved \cup {t}]
  BY Zenon DEF UpdatePath
<1>2. HistoryOK(history) /\ Table(rows) /\ dbs = [el1 |-> dbs.el1, el2 |-> dbs.el2] /\ rows = dbs.el1.rows
      /\ dbs.el1 = [version |-> dbs.el1.version, schema |-> dbs.el1.schema, rows |-> dbs.el1.rows,
                    conf |-> dbs.el1.conf, sims |-> dbs.el1.sims, vibrations |-> dbs.el1.vibrations]
  <2>1. UsedDb(dbs.el1) /\ DbsOK(dbs) /\ Table(rows) /\ rows = dbs.el1.rows
    BY <1>1, InUse DEF After
  <2> QED
    BY <2>1, DbParts DEF TypeInv, Memory, DbsOK
<1>3. CASE dbs' = [dbs EXCEPT !.el1.rows[t].place = "new"] /\ UNCHANGED <<failures, history>>
  <2> DEFINE R == [rows EXCEPT ![t].place = "new"]
  <2>1. dbs' = [dbs EXCEPT !.el1.rows = R]
    <3> HIDE DEF t
    <3> QED
      BY <1>2, <1>3
  <2>2. ASSUME NEW q \in DOMAIN rows
        PROVE  /\ GoodRow(R[q]) /\ SameUse(R[q], rows[q]) /\ R[q].source = rows[q].source
               /\ R[q].title = rows[q].title /\ R[q].mark = rows[q].mark
               /\ q # t => R[q] = rows[q]
               /\ q = t => R[q].place = "new"
    <3> DEFINE r == rows[q]
               v == R[q]
    <3>1. GoodRow(r) /\ (q # t => v = r) /\ (q = t => v = [r EXCEPT !.place = "new"])
      BY <1>2 DEF Table
    <3> HIDE DEF t, v, r, R
    <3>2. \A x \in Tone : LET y == [x EXCEPT !.place = "new"]
                          IN  y \in Tone /\ y.on = x.on /\ y.source = x.source /\ y.title = x.title
                              /\ y.mark = x.mark /\ y.place = "new"
                              /\ y.by = x.by /\ y.mime = x.mime /\ y.media = x.media
      BY DEF Tone, Places
    <3>3. q = t => /\ v \in Tone /\ v.on = r.on /\ v.source = r.source /\ v.title = r.title
                   /\ v.mark = r.mark /\ v.place = "new"
                   /\ v.by = r.by /\ v.mime = r.mime /\ v.media = r.media
      BY <3>1, <3>2 DEF GoodRow
    <3>4. GoodRow(v) /\ v.source = r.source /\ v.title = r.title /\ v.mark = r.mark
      BY <3>1, <3>3 DEF GoodRow
    <3>5. SameUse(v, r)
      BY <3>1, <3>3 DEF SameUse
    <3> QED
      BY <3>1, <3>3, <3>4, <3>5, Zenon DEF v, r
  <2>3. DOMAIN R = DOMAIN rows
    BY Zenon
  <2> HIDE DEF R, t
  <2>4. Table(R)
    BY <1>2, <2>2, <2>3 DEF Table
  <2>5. /\ Table(R) /\ DOMAIN R = DOMAIN rows
        /\ dbs' = [dbs EXCEPT !.el1.rows = R]
        /\ \A q \in DOMAIN rows :
            /\ SameUse(R[q], rows[q]) /\ R[q].source = rows[q].source
            /\ R[q].title = rows[q].title /\ R[q].mark = rows[q].mark
            /\ q # t => R[q] = rows[q]
            /\ q = t => R[q].place = "new"
    BY <2>1, <2>2, <2>3, <2>4
  <2>6. /\ history' = history /\ failures' \in {failures, failures + 1}
        /\ HistoryOK(history') /\ history'.late = history.late
    BY <1>2, <1>3
  <2> QED
    BY <1>1, <2>5, <2>6, Zenon DEF t
<1>4. CASE /\ Fails /\ dbs' = dbs /\ history' = [history EXCEPT !.unsaved = history.unsaved \cup {t}]
  <2> HIDE DEF t
  <2>1. HistoryOK(history') /\ history'.late = history.late /\ history'.unsaved = history.unsaved \cup {t}
    BY <1>2, <1>4 DEF HistoryOK
  <2> QED
    BY <1>1, <1>4, <2>1 DEF Fails, t
<1> QED
  BY <1>1, <1>3, <1>4

LEMMA PathTypes == ASSUME TypeInv, UpdatePath PROVE TypeInv'
<1>1. /\ phase = "save" /\ phase' = "copy" /\ work' = [work EXCEPT !.todo = <<>>]
      /\ UNCHANGED <<job, prefs, files, folder, first, known, scan, clients, crashes>>
      /\ failures' \in {failures, failures + 1}
      /\ HistoryOK(history') /\ history'.late = history.late
      /\ \/ \E R : Table(R) /\ dbs' = [dbs EXCEPT !.el1.rows = R]
         \/ dbs' = dbs
  BY PathIs
<1>2. phase \in After
  BY <1>1 DEF After
<1>3. DbsOK(dbs)' /\ dbs'.el1.version = dbs.el1.version
  <2>1. DbsOK(dbs)
    BY DEF TypeInv, Stored
  <2> QED
    BY <1>1, <1>2, <2>1, El1With DEF DbsOK
<1>4. Stored' /\ Counted'
  BY <1>1, <1>3 DEF TypeInv, Stored, Counted
<1>5. WorkOK(work) /\ work.open = "el1" /\ dbs.el1.version = RINGTONE_RDB_VERSION
  BY <1>2, InUse
<1>6. WorkOK(work') /\ work'.open = "el1"
  <2> DEFINE todo == <<>>
  <2>1. work' = [work EXCEPT !.todo = todo]
    BY <1>1
  <2> HIDE DEF todo
  <2> QED
    BY <1>5, <2>1, WorkWith
<1>7. Memory'
  BY <1>1, <1>6 DEF TypeInv, Memory
<1>8. Staged'
  <2>1. (scan.phase # "idle" => history.late) /\ \A c \in Clients : clients[c] = <<>>
    BY <1>1 DEF TypeInv, Staged
  <2> QED
    BY <1>1, <1>3, <1>5, <1>6, <2>1 DEF Staged, Phases, After
<1> QED
  BY <1>1, <1>4, <1>7, <1>8 DEF TypeInv

LEMMA JobIs == ASSUME TypeInv PROVE IsJob(job)
BY JobsAssumption DEF TypeInv

LEMMA TitlesTypes ==
    ASSUME TypeInv, UpdateRingtoneLanguage \/ UpdateVibrationLanguage
    PROVE  TypeInv'
<1>1. UNCHANGED <<job, files, folder, prefs>> /\ phase \in {"ringtones", "vibrations"}
  BY DEF UpdateRingtoneLanguage, UpdateVibrationLanguage, Rest
<1>2. phase \in After \ {"wait", "serving"}
  BY <1>1 DEF After
<1>3. /\ Table(rows) /\ rows = dbs.el1.rows /\ Vibrations(dbs.el1.vibrations)
      /\ WorkOK(work) /\ work.open = "el1"
  BY <1>2, InUse
<1>4. CASE UpdateRingtoneLanguage
  <2>1. PICK language \in job.languages : \E due : \E done \in SUBSET due :
            /\ dbs' = [dbs EXCEPT !.el1.rows = InLanguage(dbs.el1.rows, done, language)]
            /\ Ends(done = due, "vibrations", [work EXCEPT !.language = language])
    BY <1>4, Zenon DEF UpdateRingtoneLanguage
  <2>2. language \in Languages
    BY JobIs DEF IsJob
  <2>3. PICK due, done : /\ dbs' = [dbs EXCEPT !.el1.rows = InLanguage(dbs.el1.rows, done, language)]
                         /\ Ends(done = due, "vibrations", [work EXCEPT !.language = language])
    BY <2>1
  <2> DEFINE R == InLanguage(dbs.el1.rows, done, language)
             memory == [work EXCEPT !.language = language]
  <2>4. dbs' = [dbs EXCEPT !.el1.rows = R] /\ Ends(done = due, "vibrations", memory)
    BY <2>3
  <2>5. Table(R)
    BY <1>3, <2>2, LanguageTypes
  <2> HIDE DEF R
  <2>6. DbsOK(dbs)' /\ dbs'.el1.version = dbs.el1.version
    BY <1>2, <2>4, <2>5, El1With
  <2>7. Stored'
    BY <1>1, <2>6 DEF TypeInv, Stored
  <2>8. WorkOK(memory) /\ memory.open = "el1" /\ memory.language = language
    <3>1. memory = [open |-> work.open, todo |-> work.todo, left |-> work.left, all |-> work.all,
                    language |-> language]
      BY <1>3 DEF WorkOK
    <3> HIDE DEF memory
    <3>2. work.all \in BOOLEAN
      BY <1>3 DEF WorkOK
    <3> QED
      BY <1>3, <3>1, <3>2, WorkIs
  <2> HIDE DEF memory
  <2> QED
    BY <1>1, <1>2, <2>2, <2>4, <2>6, <2>7, <2>8, EndsTypes DEF After
<1>5. CASE UpdateVibrationLanguage
  <2>1. PICK due, done :
            /\ dbs' = [dbs EXCEPT !.el1.vibrations = InLanguage(dbs.el1.vibrations, done, work.language)]
            /\ Ends(done = due, "serving", work)
    BY <1>5, Zenon DEF UpdateVibrationLanguage
  <2> DEFINE V == InLanguage(dbs.el1.vibrations, done, work.language)
  <2>2. dbs' = [dbs EXCEPT !.el1.vibrations = V] /\ Ends(done = due, "serving", work)
    BY <2>1
  <2>3. work.language \in Languages
    BY <1>5 DEF UpdateVibrationLanguage, TypeInv, Staged
  <2>4. Vibrations(V)
    BY <1>3, <2>3, LanguageTypes
  <2> HIDE DEF V
  <2>5. DbsOK(dbs)' /\ dbs'.el1.version = dbs.el1.version
    BY <1>2, <2>2, <2>4, El1With
  <2>6. Stored'
    BY <1>1, <2>5 DEF TypeInv, Stored
  <2> QED
    BY <1>1, <1>2, <1>3, <2>2, <2>3, <2>5, <2>6, EndsTypes DEF After
<1> QED
  BY <1>4, <1>5

LEMMA StartTypes == ASSUME TypeInv, StartStep PROVE TypeInv'
BY OpeningTypes, FolderTypes, EndingTypes, ScannerTypes, WaitTypes, QueryTypes, CopyTypes, PathTypes,
   TitlesTypes DEF StartStep

(* What the steps of the scan have in common. *)
LEMMA ScanTypesFrom ==
    ASSUME TypeInv, Apart, scan.phase # "idle", DbsOK(dbs)', dbs'.el1.version = dbs.el1.version,
           prefs' \in [completed : BOOLEAN, initScanner : BOOLEAN, eSimTime : {"none", "recent", "old"}],
           first' \in BOOLEAN, UNCHANGED failures \/ Fails, ScanOK(scan')
    PROVE  TypeInv'
<1>1. UNCHANGED <<job, known, files, folder, phase, work, clients, history, crashes>>
  BY DEF Apart
<1>2. Stored'
  BY <1>1 DEF TypeInv, Stored
<1>3. Counted'
  BY <1>1 DEF TypeInv, Counted, Fails
<1>4. Memory'
  BY <1>1 DEF TypeInv, Memory
<1>5. Staged'
  <2>1. phase \in After /\ work.open = "el1" /\ dbs.el1.version = RINGTONE_RDB_VERSION
    BY InUse DEF TypeInv, Staged
  <2> QED
    BY <1>1, <2>1 DEF TypeInv, Staged, After
<1> QED
  BY <1>1, <1>2, <1>3, <1>4, <1>5 DEF TypeInv

LEMMA Scanning ==
    ASSUME TypeInv, scan.phase # "idle"
    PROVE  /\ phase \in After /\ ScanOK(scan) /\ DbsOK(dbs)
           /\ prefs \in [completed : BOOLEAN, initScanner : BOOLEAN, eSimTime : {"none", "recent", "old"}]
           /\ first \in BOOLEAN
BY DEF TypeInv, Staged, Memory, Stored, Counted

(* What BuildData collects. *)
Built == [t \in job.factory |->
            IF t \in DOMAIN rows THEN [rows[t] EXCEPT !.mime = TRUE, !.media = TRUE] ELSE NewTone]
BuiltVibrations ==
    [v \in job.vibrations |->
        [title |-> IF v \in DOMAIN dbs.el1.vibrations THEN dbs.el1.vibrations[v].title ELSE "file", mark |-> ""]]

LEMMA NewToneGood == GoodRow(NewTone)
BY DEF GoodRow, NewTone, Tone, Places, Title, Mark, Sources

LEMMA BuildIs ==
    ASSUME TypeInv, BuildData
    PROVE  /\ scan.phase = "walk" /\ Apart /\ UNCHANGED <<dbs, prefs, first, failures>>
           /\ ScanOK(scan') /\ scan'.phase = "write"
           /\ scan'.buffer = [rows |-> Built, vibrations |-> BuiltVibrations]
<1>1. /\ scan.phase = "walk" /\ Apart /\ UNCHANGED <<dbs, prefs, first, failures>>
      /\ scan' = [scan EXCEPT !.phase = "write", !.buffer.rows = Built, !.buffer.vibrations = BuiltVibrations]
  BY Zenon DEF BuildData, Built, BuiltVibrations
<1>2. Table(rows) /\ Vibrations(dbs.el1.vibrations) /\ ScanOK(scan)
  BY <1>1, Scanning, InUse
<1> DEFINE R == Built
           V == BuiltVibrations
<1>3. Table(R)
  <2>1. job.factory \subseteq Paths
    BY JobIs DEF IsJob
  <2>2. ASSUME NEW t \in job.factory PROVE GoodRow(R[t])
    <3>1. CASE t \in DOMAIN rows
      <4> DEFINE r == rows[t]
                 v == [r EXCEPT !.mime = TRUE, !.media = TRUE]
      <4>1. R[t] = v /\ GoodRow(r)
        BY <1>2, <3>1 DEF Built, Table
      <4> HIDE DEF r, R
      <4> QED
        BY <4>1, MediaKnown
    <3>2. CASE t \notin DOMAIN rows
      BY <3>2, NewToneGood DEF Built
    <3> QED
      BY <3>1, <3>2
  <2> QED
    BY <2>1, <2>2 DEF Table, Built
<1>4. Vibrations(V)
  <2>1. \A v \in DOMAIN dbs.el1.vibrations : dbs.el1.vibrations[v].title \in Title
    BY <1>2 DEF Vibrations
  <2> QED
    BY <2>1 DEF Vibrations, BuiltVibrations, Title, Mark
<1> HIDE DEF R, V
<1> DEFINE new == [phase |-> "write", buffer |-> [rows |-> R, vibrations |-> V], cache |-> scan.cache,
                   presets |-> scan.presets, todo |-> scan.todo]
<1>5. scan' = new
  <2>1. /\ scan = [phase |-> scan.phase, buffer |-> scan.buffer, cache |-> scan.cache,
                   presets |-> scan.presets, todo |-> scan.todo]
        /\ scan.buffer = [rows |-> scan.buffer.rows, vibrations |-> scan.buffer.vibrations]
    BY <1>2 DEF ScanOK
  <2>2. scan' = [scan EXCEPT !.phase = "write", !.buffer.rows = R, !.buffer.vibrations = V]
    BY <1>1 DEF R, V
  <2> QED
    BY <2>1, <2>2
<1>6. new.phase = "write" /\ new.buffer.rows = R /\ new.buffer.vibrations = V
      /\ new.buffer = [rows |-> R, vibrations |-> V] /\ new.cache = scan.cache /\ new.todo = scan.todo
  OBVIOUS
<1>7. /\ new = [phase |-> new.phase, buffer |-> new.buffer, cache |-> new.cache, presets |-> new.presets,
                todo |-> new.todo]
  OBVIOUS
<1> HIDE DEF new
<1>8. ScanOK(new)
  BY <1>2, <1>3, <1>4, <1>6, <1>7 DEF ScanOK
<1> QED
  BY <1>1, <1>5, <1>6, <1>8, Zenon DEF R, V

(* What CommitTransaction writes. *)
Committed == [t \in DOMAIN scan.buffer.rows |->
                [scan.buffer.rows[t] EXCEPT
                    !.mark = IF t \in DOMAIN rows THEN rows[t].mark ELSE scan.buffer.rows[t].mark]]

LEMMA CommitIs ==
    ASSUME TypeInv, CommitTransaction
    PROVE  /\ scan.phase = "write" /\ Apart /\ UNCHANGED <<prefs, first, failures>>
           /\ scan' = [scan EXCEPT !.phase = "vibrations"]
           /\ \E R : /\ Table(R) /\ dbs' = [dbs EXCEPT !.el1.rows = R]
                     /\ DOMAIN R = DOMAIN scan.buffer.rows \cup DOMAIN rows
                     /\ \A t \in DOMAIN rows \ DOMAIN scan.buffer.rows : R[t] = rows[t]
                     /\ \A t \in DOMAIN scan.buffer.rows :
                            /\ SameUse(R[t], scan.buffer.rows[t])
                            /\ R[t].source = scan.buffer.rows[t].source /\ R[t].place = scan.buffer.rows[t].place
                            /\ R[t].title = scan.buffer.rows[t].title
                            /\ R[t].mark = IF t \in DOMAIN rows THEN rows[t].mark ELSE scan.buffer.rows[t].mark
<1> DEFINE new == scan.buffer.rows
           raw == [t \in DOMAIN new |->
                    [new[t] EXCEPT !.mark = IF t \in DOMAIN rows THEN rows[t].mark ELSE @]]
           R == Merge(Committed, dbs.el1.rows)
<1>1. /\ scan.phase = "write" /\ Apart /\ UNCHANGED <<prefs, first, failures>>
      /\ scan' = [scan EXCEPT !.phase = "vibrations"]
      /\ dbs' = [dbs EXCEPT !.el1.rows = Merge(raw, dbs.el1.rows)]
  BY Zenon DEF CommitTransaction
<1>2. Table(rows) /\ rows = dbs.el1.rows /\ Table(new)
  BY <1>1, Scanning, InUse DEF ScanOK
<1>3. raw = Committed
  <2>1. \A r \in Tone : \A t : [r EXCEPT !.mark = IF t \in DOMAIN rows THEN rows[t].mark ELSE @]
                               = [r EXCEPT !.mark = IF t \in DOMAIN rows THEN rows[t].mark ELSE r.mark]
    BY DEF Tone
  <2>2. \A t \in DOMAIN new : new[t] \in Tone
    BY <1>2 DEF Table, GoodRow
  <2> QED
    BY <2>1, <2>2 DEF Committed
<1>4. ASSUME NEW t \in DOMAIN new
      PROVE  /\ GoodRow(Committed[t]) /\ SameUse(Committed[t], new[t])
             /\ Committed[t].source = new[t].source /\ Committed[t].place = new[t].place
             /\ Committed[t].title = new[t].title
             /\ Committed[t].mark = IF t \in DOMAIN rows THEN rows[t].mark ELSE new[t].mark
  <2> DEFINE r == new[t]
             m == IF t \in DOMAIN rows THEN rows[t].mark ELSE r.mark
             v == [r EXCEPT !.mark = m]
  <2>1. GoodRow(r) /\ Committed[t] = v /\ m \in Mark
    BY <1>2 DEF Table, Committed, GoodRow, Tone
  <2> HIDE DEF r, m
  <2>2. v \in Tone /\ v.on = r.on /\ v.source = r.source /\ v.place = r.place /\ v.title = r.title /\ v.mark = m
    BY <2>1 DEF GoodRow, Tone
  <2>4. SameUse(v, r)
    BY <2>1 DEF GoodRow, Tone, SameUse
  <2> HIDE DEF v
  <2>3. GoodRow(v)
    BY <2>1, <2>2 DEF GoodRow
  <2> QED
    BY <2>1, <2>2, <2>3, <2>4, Zenon DEF r, m
<1>5. /\ DOMAIN R = DOMAIN new \cup DOMAIN rows
      /\ \A t \in DOMAIN new : R[t] = Committed[t]
      /\ \A t \in DOMAIN rows \ DOMAIN new : R[t] = rows[t]
  BY <1>2 DEF Merge, Committed
<1>6. dbs' = [dbs EXCEPT !.el1.rows = R]
  BY <1>1, <1>3
<1> HIDE DEF R
<1>7. Table(R)
  BY <1>2, <1>4, <1>5 DEF Table
<1>8. \A t \in DOMAIN new :
        /\ R[t].source = new[t].source /\ R[t].place = new[t].place
        /\ R[t].title = new[t].title
        /\ R[t].mark = IF t \in DOMAIN rows THEN rows[t].mark ELSE new[t].mark
  BY <1>4, <1>5
<1>9. \A t \in DOMAIN new : SameUse(R[t], new[t])
  BY <1>4, <1>5, Zenon
<1>10. /\ Table(R) /\ dbs' = [dbs EXCEPT !.el1.rows = R]
       /\ DOMAIN R = DOMAIN new \cup DOMAIN rows
       /\ \A t \in DOMAIN rows \ DOMAIN new : R[t] = rows[t]
       /\ \A t \in DOMAIN new :
            /\ SameUse(R[t], new[t])
            /\ R[t].source = new[t].source /\ R[t].place = new[t].place
            /\ R[t].title = new[t].title
            /\ R[t].mark = IF t \in DOMAIN rows THEN rows[t].mark ELSE new[t].mark
  BY <1>5, <1>6, <1>7, <1>8, <1>9, Zenon
<1> QED
  BY <1>1, <1>10, Zenon

LEMMA CommitVibrateIs ==
    ASSUME TypeInv, CommitVibrateTransaction
    PROVE  /\ scan.phase = "vibrations" /\ Apart /\ UNCHANGED <<prefs, first, failures>>
           /\ ScanOK(scan') /\ scan'.phase = "defaults"
           /\ \E V : /\ Vibrations(V) /\ dbs' = [dbs EXCEPT !.el1.vibrations = V]
                     /\ DOMAIN V = DOMAIN scan.buffer.vibrations \cup DOMAIN dbs.el1.vibrations
                     /\ \A v \in DOMAIN V :
                            V[v] = IF v \in DOMAIN scan.buffer.vibrations THEN scan.buffer.vibrations[v]
                                   ELSE dbs.el1.vibrations[v]
<1> DEFINE V == Merge(scan.buffer.vibrations, dbs.el1.vibrations)
<1>1. /\ scan.phase = "vibrations" /\ Apart /\ UNCHANGED <<prefs, first, failures>>
      /\ scan' = [scan EXCEPT !.phase = "defaults", !.buffer = NoScan.buffer]
      /\ dbs' = [dbs EXCEPT !.el1.vibrations = V]
  BY Zenon DEF CommitVibrateTransaction
<1>2. Vibrations(dbs.el1.vibrations) /\ ScanOK(scan)
  BY <1>1, Scanning, InUse
<1>3. /\ DOMAIN V = DOMAIN scan.buffer.vibrations \cup DOMAIN dbs.el1.vibrations
      /\ \A v \in DOMAIN V : V[v] = IF v \in DOMAIN scan.buffer.vibrations THEN scan.buffer.vibrations[v]
                                    ELSE dbs.el1.vibrations[v]
  BY DEF Merge
<1> HIDE DEF V
<1>4. Vibrations(V)
  BY <1>2, <1>3 DEF Vibrations, ScanOK
<1> DEFINE none == NoScan.buffer
<1>5. Table(none.rows) /\ Vibrations(none.vibrations) /\ none = [rows |-> none.rows, vibrations |-> none.vibrations]
  BY DEF NoScan, Table, Vibrations
<1> HIDE DEF none
<1> DEFINE new == [phase |-> "defaults", buffer |-> none, cache |-> scan.cache,
                   presets |-> scan.presets, todo |-> scan.todo]
<1>6. scan' = new
  <2>1. scan = [phase |-> scan.phase, buffer |-> scan.buffer, cache |-> scan.cache,
                presets |-> scan.presets, todo |-> scan.todo]
    BY <1>2 DEF ScanOK
  <2>2. scan' = [scan EXCEPT !.phase = "defaults", !.buffer = none]
    BY <1>1 DEF none
  <2> QED
    BY <2>1, <2>2
<1>7. new.phase = "defaults" /\ new.buffer = none /\ new.cache = scan.cache /\ new.todo = scan.todo
  OBVIOUS
<1>8. new = [phase |-> new.phase, buffer |-> new.buffer, cache |-> new.cache, presets |-> new.presets,
             todo |-> new.todo]
  OBVIOUS
<1> HIDE DEF new
<1>9. ScanOK(new)
  BY <1>2, <1>5, <1>7, <1>8 DEF ScanOK
<1> QED
  BY <1>1, <1>3, <1>4, <1>6, <1>7, <1>9

LEMMA DefaultsAreSettings ==
    ASSUME Table(rows)
    PROVE  \A i \in DefaultSettings : i \in Item
<1>1. ASSUME NEW type \in Types, DefaultFor(type) \in DOMAIN rows
      PROVE  [path |-> DefaultFor(type), kind |-> type[1], cards |-> {type[2]}, by |-> "preset"] \in Item
  <2>1. type[1] \in Kinds /\ type[2] \in AllSlots /\ type[2] \in Slots(type[1])
    BY DEF Types
  <2>2. DefaultFor(type) \in Paths
    BY <1>1 DEF Table
  <2> DEFINE path == DefaultFor(type)
             k == type[1]
             c == type[2]
  <2>3. path \in Paths /\ k \in Kinds /\ c \in AllSlots /\ c \in Slots(k)
    BY <2>1, <2>2
  <2> HIDE DEF path, k, c
  <2>4. [path |-> path, kind |-> k, cards |-> {c}, by |-> "preset"] \in Item
    BY <2>3 DEF Item
  <2> QED
    BY <2>4 DEF path, k, c
<1> QED
  BY <1>1 DEF DefaultSettings

LEMMA DefaultToneIs ==
    ASSUME TypeInv, UpdateDefaultTone
    PROVE  /\ scan.phase = "defaults" /\ Apart /\ UNCHANGED <<dbs, prefs, first, failures>>
           /\ ScanOK(scan') /\ scan'.phase \in {"conf", "flush"} /\ scan'.buffer = scan.buffer
<1>1. scan.phase = "defaults" /\ Apart /\ UNCHANGED <<dbs, prefs, first, failures>>
  BY Zenon DEF UpdateDefaultTone
<1>2. Table(rows) /\ ScanOK(scan)
  BY <1>1, Scanning, InUse
<1>3. CASE scan' = [scan EXCEPT !.phase = "conf"]
  BY <1>1, <1>2, <1>3, ScanWith
<1>4. ASSUME NEW presets, NEW cache, cache = CommitSettings({}, DefaultSettings),
             scan' = [scan EXCEPT !.phase = "flush", !.cache = cache, !.presets = presets,
                                  !.todo = FlushSteps(cache)]
      PROVE  ScanOK(scan') /\ scan'.phase = "flush" /\ scan'.buffer = scan.buffer
  <2>1. AreSettings(cache)
    <3>1. AreSettings({}) /\ \A i \in DefaultSettings : i \in Item
      BY <1>2, DefaultsAreSettings DEF AreSettings
    <3> DEFINE items == DefaultSettings
    <3> HIDE DEF items
    <3>2. AreSettings(CommitSettings({}, items))
      BY <3>1, CommittedAreSettings DEF items
    <3> QED
      BY <1>4, <3>2 DEF items
  <2> DEFINE todo == FlushSteps(cache)
  <2>2. \A step \in todo : step.item \in Item /\ step.card \in step.item.cards
    BY <2>1 DEF FlushSteps, AreSettings
  <2>3. scan' = [scan EXCEPT !.phase = "flush", !.cache = cache, !.presets = presets, !.todo = todo]
    BY <1>4
  <2> HIDE DEF todo
  <2> DEFINE s1 == [scan EXCEPT !.phase = "flush"]
             s2 == [s1 EXCEPT !.cache = cache]
             s3 == [s2 EXCEPT !.presets = presets]
             s4 == [s3 EXCEPT !.todo = todo]
             b == scan.buffer
  <2>4. scan' = s4 /\ b = scan.buffer
    BY <2>3
  <2>5. scan = [phase |-> scan.phase, buffer |-> b, cache |-> scan.cache,
                presets |-> scan.presets, todo |-> scan.todo]
    BY <1>2 DEF ScanOK
  <2>6. b = [rows |-> b.rows, vibrations |-> b.vibrations] /\ Table(b.rows) /\ Vibrations(b.vibrations)
    BY <1>2 DEF ScanOK
  <2> HIDE DEF b
  <2>7. s1 = [phase |-> "flush", buffer |-> b, cache |-> scan.cache, presets |-> scan.presets,
              todo |-> scan.todo]
    BY <2>5
  <2> HIDE DEF s1
  <2>8. s2 = [phase |-> "flush", buffer |-> b, cache |-> cache, presets |-> scan.presets, todo |-> scan.todo]
    BY <2>7
  <2> HIDE DEF s2
  <2>9. s3 = [phase |-> "flush", buffer |-> b, cache |-> cache, presets |-> presets, todo |-> scan.todo]
    BY <2>8
  <2> HIDE DEF s3
  <2> DEFINE new == [phase |-> "flush", buffer |-> b, cache |-> cache, presets |-> presets, todo |-> todo]
  <2>10. s4 = new
    BY <2>9
  <2>11. new.phase = "flush" /\ new.buffer = b /\ new.cache = cache /\ new.todo = todo
    OBVIOUS
  <2>12. new = [phase |-> new.phase, buffer |-> new.buffer, cache |-> new.cache, presets |-> new.presets,
                todo |-> new.todo]
    OBVIOUS
  <2> HIDE DEF new, s4
  <2>13. ScanOK(new)
    BY <2>1, <2>2, <2>6, <2>11, <2>12 DEF ScanOK
  <2> QED
    BY <2>4, <2>10, <2>11, <2>13
<1>5. CASE \E presets \in PresetCardBits(rows) :
            LET cache == CommitSettings({}, DefaultSettings)
            IN  scan' = [scan EXCEPT !.phase = "flush", !.cache = cache, !.presets = presets,
                                     !.todo = FlushSteps(cache)]
  BY <1>1, <1>4, <1>5
<1> QED
  BY <1>3, <1>1, <1>5, Zenon DEF UpdateDefaultTone

LEMMA FlushIs ==
    ASSUME TypeInv, FlushSettings
    PROVE  /\ scan.phase = "flush" /\ Apart /\ UNCHANGED <<prefs, first>> /\ (UNCHANGED failures \/ Fails)
           /\ ScanOK(scan') /\ scan'.phase \in {"flush", "conf"}
           /\ \/ dbs' = dbs
              \/ \E R : Tuned(rows, R) /\ dbs' = [dbs EXCEPT !.el1.rows = R]
<1>1. /\ scan.phase = "flush" /\ Apart /\ UNCHANGED <<prefs, first>>
      /\ \/ \E step \in scan.todo :
                /\ scan' = [scan EXCEPT !.todo = scan.todo \ {step}]
                /\ \/ /\ dbs' = [dbs EXCEPT !.el1.rows = Flush(dbs.el1.rows, scan.cache, scan.presets, step, FALSE)]
                      /\ UNCHANGED failures
                   \/ Fails /\ UNCHANGED dbs
         \/ /\ scan' = [NoScan EXCEPT !.phase = "conf"]
            /\ dbs' = [dbs EXCEPT !.el1.rows = ClearPresetCardBitsByCustom(dbs.el1.rows)]
            /\ UNCHANGED failures
  BY Zenon DEF FlushSettings
<1>2. Table(rows) /\ rows = dbs.el1.rows /\ ScanOK(scan)
  BY <1>1, Scanning, InUse
<1>3. ASSUME NEW step \in scan.todo, scan' = [scan EXCEPT !.todo = scan.todo \ {step}],
             \/ /\ dbs' = [dbs EXCEPT !.el1.rows = Flush(dbs.el1.rows, scan.cache, scan.presets, step, FALSE)]
                /\ UNCHANGED failures
             \/ Fails /\ UNCHANGED dbs
      PROVE  /\ UNCHANGED failures \/ Fails
             /\ ScanOK(scan') /\ scan'.phase = "flush"
             /\ \/ dbs' = dbs
                \/ \E R : Tuned(rows, R) /\ dbs' = [dbs EXCEPT !.el1.rows = R]
  <2> DEFINE todo == scan.todo \ {step}
             new == [phase |-> "flush", buffer |-> scan.buffer, cache |-> scan.cache,
                     presets |-> scan.presets, todo |-> todo]
             cache == scan.cache
             presets == scan.presets
             R == Flush(dbs.el1.rows, cache, presets, step, FALSE)
  <2>1. step.item \in Item /\ step.card \in step.item.cards
    BY <1>2 DEF ScanOK
  <2>2. scan' = new
    BY <1>1, <1>2, <1>3 DEF ScanOK
  <2>3. new.phase = "flush" /\ new.buffer = scan.buffer /\ new.cache = scan.cache /\ new.todo = todo
    OBVIOUS
  <2>4. new = [phase |-> new.phase, buffer |-> new.buffer, cache |-> new.cache, presets |-> new.presets,
               todo |-> new.todo]
    OBVIOUS
  <2>5. \A x \in todo : x \in scan.todo
    OBVIOUS
  <2> HIDE DEF new, todo
  <2>6. ScanOK(new)
    BY <1>2, <2>3, <2>4, <2>5 DEF ScanOK
  <2>7. dbs' = dbs \/ dbs' = [dbs EXCEPT !.el1.rows = R]
    BY <1>3
  <2> HIDE DEF cache, presets
  <2>8. Tuned(rows, R)
    BY <1>2, <2>1, FlushTunes
  <2> HIDE DEF R
  <2> QED
    BY <1>3, <2>2, <2>3, <2>6, <2>7, <2>8
<1>4. CASE /\ scan' = [NoScan EXCEPT !.phase = "conf"]
           /\ dbs' = [dbs EXCEPT !.el1.rows = ClearPresetCardBitsByCustom(dbs.el1.rows)]
           /\ UNCHANGED failures
  <2> DEFINE R == ClearPresetCardBitsByCustom(dbs.el1.rows)
  <2>1. Tuned(rows, R)
    BY <1>2, ClearPresetsTunes
  <2>2. ScanOK(NoScan)
    BY DEF ScanOK, NoScan, Table, Vibrations, AreSettings
  <2>3. ScanOK(scan') /\ scan'.phase = "conf"
    BY <1>4, <2>2, ScanWith
  <2>4. dbs' = [dbs EXCEPT !.el1.rows = R]
    BY <1>4
  <2> HIDE DEF R
  <2> QED
    BY <1>1, <1>4, <2>1, <2>3, <2>4
<1> QED
  BY <1>1, <1>3, <1>4

LEMMA ConfIs ==
    ASSUME TypeInv, UpdateConf
    PROVE  /\ scan.phase = "conf" /\ Apart /\ UNCHANGED <<prefs, first>> /\ (UNCHANGED failures \/ Fails)
           /\ scan' = [scan EXCEPT !.phase = "init"]
           /\ \E conf : /\ Confs(conf) /\ DOMAIN conf = DOMAIN dbs.el1.conf
                        /\ dbs' = [dbs EXCEPT !.el1.conf = conf]
<1>1. scan.phase = "conf" /\ Apart /\ UNCHANGED <<prefs, first>> /\ scan' = [scan EXCEPT !.phase = "init"]
  BY Zenon DEF UpdateConf
<1>2. Table(rows) /\ Confs(dbs.el1.conf)
  BY <1>1, Scanning, InUse
<1>3. PICK done \in {{}, DOMAIN dbs.el1.conf} :
        /\ dbs' = [dbs EXCEPT !.el1.conf = [type \in DOMAIN dbs.el1.conf |->
                IF type \notin done \cap DOMAIN Defaults THEN dbs.el1.conf[type]
                ELSE IF Defaults[type] \in DOMAIN rows THEN Defaults[type] ELSE "missing"]]
        /\ IF done = {} THEN Fails ELSE UNCHANGED failures
  BY DEF UpdateConf
<1> DEFINE conf == [type \in DOMAIN dbs.el1.conf |->
                IF type \notin done \cap DOMAIN Defaults THEN dbs.el1.conf[type]
                ELSE IF Defaults[type] \in DOMAIN rows THEN Defaults[type] ELSE "missing"]
<1>4. dbs' = [dbs EXCEPT !.el1.conf = conf] /\ (UNCHANGED failures \/ Fails)
  BY <1>3
<1>6. DOMAIN conf = DOMAIN dbs.el1.conf
  OBVIOUS
<1>5. Confs(conf)
  BY <1>2 DEF Confs, Table
<1> HIDE DEF conf
<1> QED
  BY <1>1, <1>4, <1>5, <1>6

LEMMA EndIs ==
    ASSUME TypeInv, EndOfScan
    PROVE  /\ scan.phase = "delete" /\ Apart /\ prefs' = prefs /\ (UNCHANGED failures \/ Fails)
           /\ scan' = NoScan
           /\ \/ UNCHANGED <<dbs, first>>
              \/ /\ first' = TRUE
                 /\ \E R : /\ Table(R) /\ dbs' = [dbs EXCEPT !.el1.rows = R]
                           /\ DOMAIN R = {t \in DOMAIN rows : rows[t].source = "customised" \/ t \in job.factory}
                           /\ \A t \in DOMAIN R : R[t] = rows[t]
<1> DEFINE R == [t \in {t \in DOMAIN rows : rows[t].source = "customised" \/ t \in job.factory} |-> rows[t]]
<1>1. rows = dbs.el1.rows
  BY DEF rows
<1>2. /\ scan.phase = "delete" /\ Apart /\ prefs' = prefs /\ scan' = NoScan
      /\ \/ /\ dbs' = [dbs EXCEPT !.el1.rows =
                [t \in {t \in DOMAIN dbs.el1.rows : dbs.el1.rows[t].source = "customised" \/ t \in job.factory}
                    |-> dbs.el1.rows[t]]]
            /\ first' = TRUE
            /\ UNCHANGED failures
         \/ Fails /\ UNCHANGED <<dbs, first>>
  BY Zenon DEF EndOfScan
<1>3. /\ DOMAIN R = {t \in DOMAIN rows : rows[t].source = "customised" \/ t \in job.factory}
      /\ \A t \in DOMAIN R : R[t] = rows[t]
  OBVIOUS
<1>4. /\ UNCHANGED failures \/ Fails
      /\ \/ UNCHANGED <<dbs, first>>
         \/ first' = TRUE /\ dbs' = [dbs EXCEPT !.el1.rows = R]
  BY <1>1, <1>2
<1>5. Table(rows)
  BY <1>2, Scanning, InUse
<1> HIDE DEF R
<1>6. Table(R)
  BY <1>3, <1>5 DEF Table
<1> QED
  BY <1>2, <1>3, <1>4, <1>6

LEMMA ScanStepTypes == ASSUME TypeInv, ScanStep PROVE TypeInv'
<1>1. CASE BuildData
  BY <1>1, BuildIs, Scanning, ScanTypesFrom DEF DbsOK
<1>2. CASE CommitTransaction
  <2>1. /\ scan.phase = "write" /\ Apart /\ UNCHANGED <<prefs, first, failures>>
        /\ scan' = [scan EXCEPT !.phase = "vibrations"]
        /\ \E R : Table(R) /\ dbs' = [dbs EXCEPT !.el1.rows = R]
    BY <1>2, CommitIs
  <2>2. DbsOK(dbs)' /\ dbs'.el1.version = dbs.el1.version
    BY <2>1, Scanning, El1With
  <2>3. ScanOK(scan')
    BY <2>1, Scanning, ScanWith
  <2> QED
    BY <2>1, <2>2, <2>3, Scanning, ScanTypesFrom
<1>3. CASE CommitVibrateTransaction
  <2>1. /\ scan.phase = "vibrations" /\ Apart /\ UNCHANGED <<prefs, first, failures>> /\ ScanOK(scan')
        /\ \E V : Vibrations(V) /\ dbs' = [dbs EXCEPT !.el1.vibrations = V]
    BY <1>3, CommitVibrateIs
  <2>2. DbsOK(dbs)' /\ dbs'.el1.version = dbs.el1.version
    BY <2>1, Scanning, El1With
  <2> QED
    BY <2>1, <2>2, Scanning, ScanTypesFrom
<1>4. CASE UpdateDefaultTone
  BY <1>4, DefaultToneIs, Scanning, ScanTypesFrom DEF DbsOK
<1>5. CASE FlushSettings
  <2>1. /\ scan.phase = "flush" /\ Apart /\ UNCHANGED <<prefs, first>> /\ (UNCHANGED failures \/ Fails)
        /\ ScanOK(scan')
        /\ \/ dbs' = dbs
           \/ \E R : Tuned(rows, R) /\ dbs' = [dbs EXCEPT !.el1.rows = R]
    BY <1>5, FlushIs
  <2>2. Table(rows)
    BY <2>1, Scanning, InUse
  <2>3. DbsOK(dbs)' /\ dbs'.el1.version = dbs.el1.version
    <3>1. CASE dbs' = dbs
      BY <2>1, <3>1, Scanning DEF DbsOK
    <3>2. CASE \E R : Tuned(rows, R) /\ dbs' = [dbs EXCEPT !.el1.rows = R]
      BY <2>1, <2>2, <3>2, TunedTable, Scanning, El1With
    <3> QED
      BY <2>1, <3>1, <3>2
  <2> QED
    BY <2>1, <2>3, Scanning, ScanTypesFrom
<1>6. CASE UpdateConf
  <2>1. /\ scan.phase = "conf" /\ Apart /\ UNCHANGED <<prefs, first>> /\ (UNCHANGED failures \/ Fails)
        /\ scan' = [scan EXCEPT !.phase = "init"]
        /\ \E conf : Confs(conf) /\ dbs' = [dbs EXCEPT !.el1.conf = conf]
    BY <1>6, ConfIs
  <2>2. DbsOK(dbs)' /\ dbs'.el1.version = dbs.el1.version
    BY <2>1, Scanning, El1With
  <2>3. ScanOK(scan')
    BY <2>1, Scanning, ScanWith
  <2> QED
    BY <2>1, <2>2, <2>3, Scanning, ScanTypesFrom
<1>7. CASE SetInitScanner
  <2>1. /\ scan.phase = "init" /\ Apart /\ UNCHANGED <<dbs, first, failures>>
        /\ scan' = [scan EXCEPT !.phase = "delete"] /\ prefs' = [prefs EXCEPT !.initScanner = TRUE]
    BY <1>7 DEF SetInitScanner
  <2>2. ScanOK(scan')
    BY <2>1, Scanning, ScanWith
  <2>3. prefs' \in [completed : BOOLEAN, initScanner : BOOLEAN, eSimTime : {"none", "recent", "old"}]
    BY <2>1, PrefsWith DEF TypeInv
  <2> QED
    BY <2>1, <2>2, <2>3, Scanning, ScanTypesFrom DEF DbsOK
<1>8. CASE EndOfScan
  <2>1. /\ scan.phase = "delete" /\ Apart /\ prefs' = prefs /\ (UNCHANGED failures \/ Fails)
        /\ scan' = NoScan /\ first' \in {first, TRUE}
        /\ \/ dbs' = dbs
           \/ \E R : Table(R) /\ dbs' = [dbs EXCEPT !.el1.rows = R]
    BY <1>8, EndIs
  <2>2. DbsOK(dbs)' /\ dbs'.el1.version = dbs.el1.version
    <3>1. CASE dbs' = dbs
      BY <2>1, <3>1, Scanning DEF DbsOK
    <3>2. CASE \E R : Table(R) /\ dbs' = [dbs EXCEPT !.el1.rows = R]
      BY <2>1, <3>2, Scanning, El1With
    <3> QED
      BY <2>1, <3>1, <3>2
  <2>3. ScanOK(NoScan)
    BY DEF ScanOK, NoScan, Table, Vibrations, AreSettings
  <2> QED
    BY <2>1, <2>2, <2>3, Scanning, ScanTypesFrom
<1> QED
  BY <1>1, <1>2, <1>3, <1>4, <1>5, <1>6, <1>7, <1>8 DEF ScanStep

-----------------------------------------------------------------------------
(* CheckSimCard *)

LEMMA StatementsAre ==
    /\ \A from, to \in SimCards : Copy(from, to) \in Stmt
    /\ \A kind \in CardKinds : \A from, to \in SimCards : Add(kind, from, to) \in Stmt
    /\ \A kind \in CardKinds : \A card \in SimCards : Clear(kind, card) \in Stmt
    /\ \A kind \in CardKinds : \A cards : cards \subseteq SimCards => Preset(kind, cards) \in Stmt
    /\ \A kind \in CardKinds : Collect(kind) \in Stmt
    /\ Reset \in Stmt
<1>1. \A kind \in CardKinds : Collect(kind) \in Stmt
  BY DEF Collect, Stmt
<1>2. Reset \in Stmt
  BY DEF Reset, Stmt
<1>3. \A kind \in CardKinds : \A cards : cards \subseteq SimCards => Preset(kind, cards) \in Stmt
  BY DEF Preset, Stmt
<1>4. \A kind \in CardKinds : \A card \in SimCards : Clear(kind, card) \in Stmt
  BY DEF Clear, Stmt
<1>5. \A kind \in CardKinds : \A from, to \in SimCards : Add(kind, from, to) \in Stmt
  BY DEF Add, Stmt
<1>6. \A from, to \in SimCards : Copy(from, to) \in Stmt
  BY DEF Copy, Stmt
<1> QED
  BY <1>1, <1>2, <1>3, <1>4, <1>5, <1>6

LEMMA MigrationTypes ==
    ASSUME NEW cards, Inherits(cards) => ESimOf(cards) \in SimCards
    PROVE  /\ Migration(cards) \o ClearPresetCardBitsIfCustomExists \o <<Reset>> \in Seq(Stmt)
           /\ ClearPresetCardBitsIfCustomExists \o <<Reset>> \in Seq(Stmt)
           /\ <<Reset>> \in Seq(Stmt)
<1>1. "ring" \in CardKinds /\ "shot" \in CardKinds /\ "SIM1" \in SimCards /\ "SIM2" \in SimCards
  BY LibraryAssumption DEF CardKinds
<1>2. Migration(cards) \in Seq(Stmt)
  <2>1. CASE ~Inherits(cards)
    <3>1. Migration(cards) = <<>>
      BY <2>1 DEF Migration
    <3> QED
      BY <3>1
  <2>2. CASE Inherits(cards)
    <3> DEFINE e == ESimOf(cards)
               m1 == <<Copy("SIM2", e)>>
               m2 == <<Copy("SIM1", "SIM2")>>
               m3 == <<Preset("ring", {e}), Preset("shot", {e}), Add("shot", "SIM2", e), Add("ring", "SIM2", e)>>
               m4 == <<Clear("ring", "SIM2"), Clear("shot", "SIM2"),
                       Add("shot", "SIM1", "SIM2"), Add("ring", "SIM1", "SIM2")>>
               none == <<>>
    <3>1. Migration(cards) = m1 \o (IF Swaps(cards) THEN m2 ELSE none) \o m3 \o (IF Swaps(cards) THEN m4 ELSE none)
      BY <2>2, Zenon DEF Migration
    <3>2. e \in SimCards
      BY <2>2
    <3> HIDE DEF e
    <3>3. m1 \in Seq(Stmt) /\ m2 \in Seq(Stmt) /\ none \in Seq(Stmt)
      <4>1. Copy("SIM2", e) \in Stmt /\ Copy("SIM1", "SIM2") \in Stmt
        BY <1>1, <3>2, StatementsAre
      <4> QED
        BY <4>1
    <3>4. m3 \in Seq(Stmt)
      <4>1. {e} \subseteq SimCards
        BY <3>2
      <4>2. Preset("ring", {e}) \in Stmt /\ Preset("shot", {e}) \in Stmt
            /\ Add("shot", "SIM2", e) \in Stmt /\ Add("ring", "SIM2", e) \in Stmt
        BY <1>1, <3>2, <4>1, StatementsAre
      <4> QED
        BY <4>2
    <3>5. m4 \in Seq(Stmt)
      <4>1. Clear("ring", "SIM2") \in Stmt /\ Clear("shot", "SIM2") \in Stmt
            /\ Add("shot", "SIM1", "SIM2") \in Stmt /\ Add("ring", "SIM1", "SIM2") \in Stmt
        BY <1>1, StatementsAre
      <4> QED
        BY <4>1
    <3> HIDE DEF m1, m2, m3, m4, none
    <3> QED
      BY <3>1, <3>3, <3>4, <3>5
  <2> QED
    BY <2>1, <2>2
<1>3. ClearPresetCardBitsIfCustomExists \in Seq(Stmt)
  <2>1. Collect("shot") \in Stmt /\ Collect("ring") \in Stmt
    BY <1>1, StatementsAre
  <2> QED
    BY <2>1 DEF ClearPresetCardBitsIfCustomExists
<1>4. <<Reset>> \in Seq(Stmt)
  BY StatementsAre
<1> DEFINE m == Migration(cards)
           c == ClearPresetCardBitsIfCustomExists
           r == <<Reset>>
<1> HIDE DEF m, c, r
<1>5. m \o c \o r \in Seq(Stmt) /\ c \o r \in Seq(Stmt) /\ r \in Seq(Stmt)
  BY <1>2, <1>3, <1>4 DEF m, c, r
<1> QED
  BY <1>5 DEF m, c, r

LEMMA ExecutedTunes ==
    ASSUME NEW db, UsedDb(db), NEW step \in Stmt, step.do \notin {"reset", "collect"}
    PROVE  LET new == Executed(db, step)
           IN  /\ UsedDb(new) /\ new.version = db.version /\ new.vibrations = db.vibrations
               /\ Tuned(db.rows, new.rows)
<1> DEFINE k == step.kind
           C == step.to
           R == db.rows
           holders == {t \in DOMAIN R : step.from \in R[t].on[k]}
           presets == {t \in DOMAIN R : R[t].by[k] = "preset"}
<1>1. Table(R) /\ Sims(db.sims)
  BY DbParts
<1>2. /\ step.do \in {"copy", "add", "clear", "preset"} /\ step.from \in SimCards \cup {""}
      /\ C \subseteq SimCards /\ (step.do # "copy" => k \in CardKinds)
  BY DEF Stmt
<1>3. CASE step.do = "copy"
  <2> DEFINE copied == {y \in SimKeys : y[1] \in C /\ y[2] \in SimTypes /\ <<step.from, y[2]>> \in DOMAIN db.sims}
             sims == Merge([x \in copied |-> db.sims[<<step.from, x[2]>>]], db.sims)
  <2>1. Executed(db, step) = [db EXCEPT !.sims = sims]
    BY <1>3 DEF Executed
  <2>2. Sims(sims)
    BY <1>1 DEF Sims, Merge
  <2> HIDE DEF sims
  <2>3. LET new == [db EXCEPT !.sims = sims]
        IN  /\ UsedDb(new) /\ new.version = db.version /\ new.vibrations = db.vibrations /\ new.rows = db.rows
    BY <2>2, DbWith
  <2>4. Tuned(R, R)
    BY <1>1, TunedSame
  <2> QED
    BY <2>1, <2>3, <2>4
<1>4. ASSUME NEW S, Tuned(R, S), Executed(db, step) = [db EXCEPT !.rows = S]
      PROVE  LET new == Executed(db, step)
             IN  /\ UsedDb(new) /\ new.version = db.version /\ new.vibrations = db.vibrations
                 /\ Tuned(db.rows, new.rows)
  <2>1. Table(S)
    BY <1>1, <1>4, TunedTable
  <2>2. LET new == [db EXCEPT !.rows = S]
        IN  UsedDb(new) /\ new.version = db.version /\ new.vibrations = db.vibrations /\ new.rows = S
    BY <2>1, DbWith
  <2> QED
    BY <1>4, <2>2
<1>5. ASSUME step.do # "copy", NEW t \in DOMAIN R
      PROVE  /\ GoodRow([R[t] EXCEPT !.on[k] = R[t].on[k] \cup C])
             /\ SameTone([R[t] EXCEPT !.on[k] = R[t].on[k] \cup C], R[t])
             /\ GoodRow(Without(R[t], k, C)) /\ SameTone(Without(R[t], k, C), R[t])
  <2> DEFINE r == R[t]
             more == r.on[k] \cup C
             less == r.on[k] \ C
  <2>1. GoodRow(r) /\ k \in Kinds /\ C \subseteq Slots(k)
    BY <1>1, <1>2, <1>5, LibraryAssumption DEF Table, Slots
  <2> HIDE DEF r, k
  <2>2. more \subseteq Slots(k) /\ less \subseteq Slots(k)
    BY <2>1 DEF GoodRow
  <2>3. Without(r, k, C) = [r EXCEPT !.on[k] = less]
    <3>1. \A x \in Tone : Without(x, k, C) = [x EXCEPT !.on[k] = x.on[k] \ C]
      BY <2>1 DEF Tone, Without
    <3> QED
      BY <2>1, <3>1 DEF GoodRow
  <2> DEFINE v == [r EXCEPT !.on[k] = more]
             w == [r EXCEPT !.on[k] = less]
  <2>4. v = [r EXCEPT !.on[k] = r.on[k] \cup C]
    OBVIOUS
  <2> HIDE DEF more, less
  <2>5. GoodRow(v) /\ SameTone(v, r) /\ GoodRow(w) /\ SameTone(w, r)
    BY <2>1, <2>2, SetOfKind
  <2>6. w = Without(r, k, C)
    BY <2>3
  <2> HIDE DEF v, w
  <2> QED
    BY <2>4, <2>5, <2>6, Zenon DEF r, k
<1>6. Tuned(R, R)
  BY <1>1, TunedSame
<1>7. CASE step.do = "add"
  <2> DEFINE S == [t \in DOMAIN R |-> IF t \in holders THEN [R[t] EXCEPT !.on[k] = R[t].on[k] \cup C] ELSE R[t]]
  <2>1. Executed(db, step) = [db EXCEPT !.rows = S]
    <3>1. Executed(db, step) = [db EXCEPT !.rows = Change(R, holders, LAMBDA row : [row EXCEPT !.on[k] = @ \cup C])]
      BY <1>7 DEF Executed
    <3>2. \A x \in Tone : [x EXCEPT !.on[k] = @ \cup C] = [x EXCEPT !.on[k] = x.on[k] \cup C]
      BY DEF Tone
    <3>3. \A t \in DOMAIN R : R[t] \in Tone
      BY <1>1 DEF Table, GoodRow
    <3>4. Change(R, holders, LAMBDA row : [row EXCEPT !.on[k] = @ \cup C]) = S
      BY <3>2, <3>3 DEF Change
    <3> QED
      BY <3>1, <3>4
  <2>2. Tuned(R, S)
    BY <1>5, <1>6, <1>7 DEF Tuned
  <2> HIDE DEF S
  <2> QED
    BY <1>4, <2>1, <2>2
<1>8. CASE step.do \in {"clear", "preset"}
  <2> DEFINE P == IF step.do = "clear" THEN DOMAIN R ELSE presets
             S == [t \in DOMAIN R |-> IF t \in P THEN Without(R[t], k, C) ELSE R[t]]
  <2>1. Executed(db, step) = [db EXCEPT !.rows = S]
    BY <1>8 DEF Executed, Change
  <2>2. Tuned(R, S)
    BY <1>5, <1>6, <1>8 DEF Tuned
  <2> HIDE DEF S
  <2> QED
    BY <1>4, <2>1, <2>2
<1> QED
  BY <1>2, <1>3, <1>7, <1>8

(* What a step beside the start makes of the database in use, and of what the start knows. *)
Beside ==
    /\ UNCHANGED <<job, first, known, files, folder, phase, work, scan, crashes>>
    /\ failures' \in {failures, failures + 1}
    /\ \/ prefs' = prefs
       \/ \E time \in {"none", "recent", "old"} : prefs' = [prefs EXCEPT !.eSimTime = time]
    /\ HistoryOK(history') /\ history'.late = history.late /\ history'.unsaved = history.unsaved
    /\ clients' \in [Clients -> Seq(Stmt)] /\ (clients' = clients \/ phase = "serving")
    /\ \/ dbs' = dbs
       \/ /\ phase = "serving"
          /\ DbsOK(dbs)' /\ UsedDb(dbs'.el1) /\ dbs'.el1.version = dbs.el1.version
          /\ dbs'.el1.vibrations = dbs.el1.vibrations /\ dbs'.el2 = dbs.el2
          /\ Tuned(rows, dbs'.el1.rows)

LEMMA CheckSimCardIs == ASSUME TypeInv, NEW c \in Clients, CheckSimCard(c) PROVE Beside
<1>1. /\ phase = "serving" /\ UNCHANGED <<job, storage, phase, work, scan, crashes>>
      /\ \/ history' = [history EXCEPT !.runs = history.runs + 1, !.torn = FALSE]
         \/ history' = history
      /\ \E s : /\ clients' = [clients EXCEPT ![c] = s]
                /\ s \in {Migration(job.cards) \o ClearPresetCardBitsIfCustomExists \o <<Reset>>,
                          ClearPresetCardBitsIfCustomExists \o <<Reset>>, <<Reset>>}
      /\ UNCHANGED failures \/ Fails
  BY Zenon DEF CheckSimCard
<1>2. Inherits(job.cards) => ESimOf(job.cards) \in SimCards
  BY JobIs DEF IsJob
<1>3. /\ Migration(job.cards) \o ClearPresetCardBitsIfCustomExists \o <<Reset>> \in Seq(Stmt)
      /\ ClearPresetCardBitsIfCustomExists \o <<Reset>> \in Seq(Stmt)
      /\ <<Reset>> \in Seq(Stmt)
  <2> DEFINE cards == job.cards
  <2>1. Inherits(cards) => ESimOf(cards) \in SimCards
    BY <1>2
  <2> HIDE DEF cards
  <2>2. /\ Migration(cards) \o ClearPresetCardBitsIfCustomExists \o <<Reset>> \in Seq(Stmt)
        /\ ClearPresetCardBitsIfCustomExists \o <<Reset>> \in Seq(Stmt)
        /\ <<Reset>> \in Seq(Stmt)
    BY <2>1, MigrationTypes
  <2> QED
    BY <2>2 DEF cards
<1>4. PICK s \in Seq(Stmt) : clients' = [clients EXCEPT ![c] = s]
  BY <1>1, <1>3
<1>5. clients' \in [Clients -> Seq(Stmt)]
  BY <1>4 DEF TypeInv, Memory
<1>6. HistoryOK(history') /\ history'.late = history.late /\ history'.unsaved = history.unsaved
  <2>1. HistoryOK(history)
    BY DEF TypeInv, Memory
  <2> QED
    BY <1>1, <2>1 DEF HistoryOK
<1> QED
  BY <1>1, <1>5, <1>6 DEF Beside, storage, Fails

LEMMA StatementIs == ASSUME TypeInv, NEW c \in Clients, Statement(c) PROVE Beside
<1> DEFINE s == clients[c]
           step == Head(s)
           rest == Tail(s)
<1>1. /\ s # <<>>
      /\ \/ /\ prefs' = [prefs EXCEPT !.eSimTime = "none"]
            /\ clients' = [clients EXCEPT ![c] = rest]
            /\ UNCHANGED <<dbs, failures>>
         \/ /\ step.do = "collect"
            /\ clients' = [clients EXCEPT ![c] = <<Preset(step.kind, CustomCards(step.kind))>> \o rest]
            /\ UNCHANGED <<dbs, prefs, failures>>
         \/ /\ step.do \notin {"reset", "collect"}
            /\ clients' = [clients EXCEPT ![c] = rest]
            /\ \/ dbs' = [dbs EXCEPT !.el1 = Executed(dbs.el1, step)] /\ UNCHANGED failures
               \/ Fails /\ UNCHANGED dbs
            /\ UNCHANGED prefs
      /\ UNCHANGED <<job, first, known, files, folder, phase, work, scan, history, crashes>>
  BY Zenon DEF Statement
<1>2. /\ phase = "serving" /\ clients \in [Clients -> Seq(Stmt)] /\ s \in Seq(Stmt) /\ HistoryOK(history)
  BY <1>1 DEF TypeInv, Staged, Memory
<1>3. step \in Stmt /\ rest \in Seq(Stmt)
  BY <1>1, <1>2
<1>4. /\ DbsOK(dbs) /\ UsedDb(dbs.el1) /\ rows = dbs.el1.rows /\ Table(rows)
  BY <1>2, InUse DEF After
<1>5. HistoryOK(history') /\ history'.late = history.late /\ history'.unsaved = history.unsaved
  BY <1>1, <1>2
<1> HIDE DEF step, rest, s
<1>6. CASE /\ prefs' = [prefs EXCEPT !.eSimTime = "none"]
           /\ clients' = [clients EXCEPT ![c] = rest]
           /\ UNCHANGED <<dbs, failures>>
  BY <1>1, <1>2, <1>3, <1>5, <1>6 DEF Beside
<1>7. CASE /\ step.do = "collect"
           /\ clients' = [clients EXCEPT ![c] = <<Preset(step.kind, CustomCards(step.kind))>> \o rest]
           /\ UNCHANGED <<dbs, prefs, failures>>
  <2> DEFINE k == step.kind
             cards == CustomCards(k)
  <2>1. k \in CardKinds
    BY <1>3, <1>7 DEF Stmt
  <2>2. cards \subseteq SimCards
    <3>1. k \in Kinds /\ Slots(k) = SimCards
      BY <2>1, LibraryAssumption DEF Slots
    <3> HIDE DEF k
    <3>2. \A t \in DOMAIN rows : rows[t].on[k] \subseteq SimCards
      BY <1>4, <3>1 DEF Table, GoodRow
    <3> QED
      BY <3>2 DEF CustomCards
  <2> HIDE DEF k, cards
  <2>3. Preset(k, cards) \in Stmt
    BY <2>1, <2>2, StatementsAre
  <2> DEFINE p == Preset(k, cards)
  <2> HIDE DEF p
  <2>4. <<p>> \o rest \in Seq(Stmt)
    BY <1>3, <2>3 DEF p
  <2>5. clients' = [clients EXCEPT ![c] = <<p>> \o rest]
    BY <1>7 DEF p, cards, k
  <2>6. clients' \in [Clients -> Seq(Stmt)]
    BY <1>2, <2>4, <2>5
  <2> QED
    BY <1>1, <1>2, <1>5, <1>7, <2>6 DEF Beside
<1>8. CASE /\ step.do \notin {"reset", "collect"}
           /\ clients' = [clients EXCEPT ![c] = rest]
           /\ \/ dbs' = [dbs EXCEPT !.el1 = Executed(dbs.el1, step)] /\ UNCHANGED failures
              \/ Fails /\ UNCHANGED dbs
           /\ UNCHANGED prefs
  <2>1. clients' \in [Clients -> Seq(Stmt)]
    BY <1>2, <1>3, <1>8
  <2>2. CASE dbs' = [dbs EXCEPT !.el1 = Executed(dbs.el1, step)] /\ UNCHANGED failures
    <3> DEFINE d == dbs.el1
               db == Executed(d, step)
    <3>1. UsedDb(d)
      BY <1>4
    <3>2. dbs' = [dbs EXCEPT !["el1"] = db] /\ rows = d.rows
      BY <1>4, <2>2
    <3> HIDE DEF d
    <3>3. UsedDb(db) /\ db.version = d.version /\ db.vibrations = d.vibrations /\ Tuned(d.rows, db.rows)
      BY <1>3, <1>8, <3>1, ExecutedTunes
    <3> HIDE DEF db
    <3>4. DbsOK(dbs)' /\ dbs'.el1 = db /\ dbs'.el2 = dbs.el2
      BY <1>4, <3>2, <3>3, SetDbTypes DEF UsedDb
    <3>5. /\ DbsOK(dbs)' /\ UsedDb(dbs'.el1) /\ dbs'.el1.version = dbs.el1.version
          /\ dbs'.el1.vibrations = dbs.el1.vibrations /\ dbs'.el2 = dbs.el2
          /\ Tuned(rows, dbs'.el1.rows)
      BY <3>2, <3>3, <3>4, Zenon DEF d
    <3> QED
      BY <1>1, <1>2, <1>5, <1>8, <2>1, <2>2, <3>5 DEF Beside
  <2>3. CASE Fails /\ UNCHANGED dbs
    BY <1>1, <1>2, <1>5, <1>8, <2>1, <2>3 DEF Beside, Fails
  <2> QED
    BY <1>8, <2>2, <2>3
<1> QED
  BY <1>1, <1>6, <1>7, <1>8

LEMMA TimeIs == ASSUME TypeInv, TimePasses PROVE Beside
<1>1. /\ prefs' = [prefs EXCEPT !.eSimTime = "old"]
      /\ UNCHANGED <<job, dbs, first, known, files, folder, phase, work, scan, clients, history,
                     failures, crashes>>
  BY Zenon DEF TimePasses
<1> QED
  BY <1>1 DEF Beside, TypeInv, Memory

LEMMA CustomisesIs == ASSUME TypeInv, UserCustomises PROVE Beside
<1>1. phase = "serving" /\ UNCHANGED <<job, prefs, first, known, files, folder, phase, work, scan, clients,
                                       failures, crashes>>
  BY Zenon DEF UserCustomises
<1>2. PICK choice \in {x \in job.choices : x[3] \in DOMAIN rows /\ <<x[1], x[2]>> \notin history.chosen} :
        LET k == choice[1]
            c == choice[2]
            t == choice[3]
        IN
        /\ dbs' = [dbs EXCEPT !.el1.rows = [q \in DOMAIN rows |->
                LET left == rows[q].on[k] \ {c}
                IN  IF q = t THEN [rows[q] EXCEPT !.on[k] = @ \cup {c}, !.by[k] = "customised"]
                    ELSE [rows[q] EXCEPT !.on[k] = left,
                                         !.by[k] = IF left = {} /\ c \in rows[q].on[k] THEN "notSet"
                                                   ELSE rows[q].by[k]]]]
        /\ history' = [history EXCEPT
                !.chosen = @ \cup {<<k, c>>},
                !.legacy = IF c \in ESims \cup {"SIM2"} THEN {x \in @ : x[1] # k} ELSE @,
                !.ever = IF (rows[t].on[k] \cup {c}) \cap (ESims \cup {"SIM2"}) = {} THEN @
                         ELSE @ \cup {<<k, t>>}]
  BY Zenon DEF UserCustomises
<1> DEFINE k == choice[1]
           c == choice[2]
           t == choice[3]
<1>3. k \in Kinds /\ c \in Slots(k)
  BY JobIs DEF IsJob
<1>4. /\ DbsOK(dbs) /\ UsedDb(dbs.el1) /\ rows = dbs.el1.rows /\ Table(rows)
  BY <1>1, InUse DEF After
<1> DEFINE less(q) == rows[q].on[k] \ {c}
           from(q) == IF less(q) = {} /\ c \in rows[q].on[k] THEN "notSet" ELSE rows[q].by[k]
           R == [q \in DOMAIN rows |->
                    IF q = t THEN [rows[q] EXCEPT !.on[k] = rows[q].on[k] \cup {c}, !.by[k] = "customised"]
                    ELSE [rows[q] EXCEPT !.on[k] = less(q), !.by[k] = from(q)]]
<1>5. dbs' = [dbs EXCEPT !.el1.rows = R]
  <2> DEFINE raw == [q \in DOMAIN rows |->
                        IF q = t THEN [rows[q] EXCEPT !.on[k] = @ \cup {c}, !.by[k] = "customised"]
                        ELSE [rows[q] EXCEPT !.on[k] = less(q), !.by[k] = from(q)]]
  <2>1. dbs' = [dbs EXCEPT !.el1.rows = raw]
    BY <1>2
  <2>2. raw = R
    <3> HIDE DEF k, c, t
    <3>1. \A x \in Tone : [x EXCEPT !.on[k] = @ \cup {c}, !.by[k] = "customised"]
                          = [x EXCEPT !.on[k] = x.on[k] \cup {c}, !.by[k] = "customised"]
      BY DEF Tone
    <3>2. \A q \in DOMAIN rows : rows[q] \in Tone
      BY <1>4 DEF Table, GoodRow
    <3> QED
      BY <3>1, <3>2
  <2> HIDE DEF raw, R
  <2> QED
    BY <2>1, <2>2
<1>6. Tuned(rows, R)
  <2>1. ASSUME NEW q \in DOMAIN rows PROVE GoodRow(R[q]) /\ SameTone(R[q], rows[q])
    <3> DEFINE r == rows[q]
               more == r.on[k] \cup {c}
               left == r.on[k] \ {c}
               b == IF left = {} /\ c \in r.on[k] THEN "notSet" ELSE r.by[k]
               v == [r EXCEPT !.on[k] = more, !.by[k] = "customised"]
               w == [r EXCEPT !.on[k] = left, !.by[k] = b]
    <3>1. R[q] = v \/ R[q] = w
      BY Zenon
    <3>2. GoodRow(r)
      BY <1>4 DEF Table
    <3> HIDE DEF R, r, k, c
    <3>3. more \subseteq Slots(k) /\ left \subseteq Slots(k) /\ b \in Sources /\ "customised" \in Sources
      BY <1>3, <3>2 DEF GoodRow, Tone, Sources
    <3> HIDE DEF more, left, b
    <3>4. GoodRow(v) /\ SameTone(v, r) /\ GoodRow(w) /\ SameTone(w, r)
      BY <1>3, <3>2, <3>3, SetOfKind
    <3> HIDE DEF v, w
    <3> QED
      BY <3>1, <3>4, Zenon DEF r
  <2>2. DOMAIN R = DOMAIN rows
    BY Zenon
  <2> HIDE DEF R
  <2> QED
    BY <2>1, <2>2 DEF Tuned
<1> HIDE DEF R
<1>7. /\ DbsOK(dbs)' /\ UsedDb(dbs'.el1) /\ dbs'.el1.version = dbs.el1.version
      /\ dbs'.el1.vibrations = dbs.el1.vibrations /\ dbs'.el2 = dbs.el2 /\ dbs'.el1.rows = R
  <2>1. Table(R) /\ phase \in After
    BY <1>1, <1>4, <1>6, TunedTable DEF After
  <2> QED
    BY <1>5, <2>1, El1With
<1>8. HistoryOK(history') /\ history'.late = history.late /\ history'.unsaved = history.unsaved
  <2>1. HistoryOK(history)
    BY DEF TypeInv, Memory
  <2>2. PICK chosen, legacy, ever :
            history' = [history EXCEPT !.chosen = chosen, !.legacy = legacy, !.ever = ever]
    BY <1>2, Zenon
  <2> QED
    BY <2>1, <2>2 DEF HistoryOK
<1>9. clients' \in [Clients -> Seq(Stmt)]
  BY <1>1 DEF TypeInv, Memory
<1> QED
  BY <1>1, <1>6, <1>7, <1>8, <1>9, Zenon DEF Beside

LEMMA ESimIs == ASSUME TypeInv, ESimStep PROVE Beside
BY CheckSimCardIs, StatementIs, TimeIs, CustomisesIs DEF ESimStep

LEMMA BesideTypes == ASSUME TypeInv, Beside PROVE TypeInv'
<1>1. prefs' \in [completed : BOOLEAN, initScanner : BOOLEAN, eSimTime : {"none", "recent", "old"}]
  BY PrefsWith DEF Beside, TypeInv, Stored
<1>2. DbsOK(dbs)'
  BY DEF Beside, TypeInv, Stored, DbsOK
<1>3. Stored' /\ Counted'
  BY <1>1, <1>2 DEF Beside, TypeInv, Stored, Counted
<1>4. Memory'
  BY DEF Beside, TypeInv, Memory
<1>5. Staged'
  <2>1. CASE dbs' = dbs
    <3>1. phase' = phase /\ work' = work /\ scan' = scan /\ history'.late = history.late
          /\ (clients' = clients \/ phase = "serving")
      BY DEF Beside
    <3> QED
      BY <2>1, <3>1 DEF TypeInv, Staged, Db
  <2>2. CASE dbs' # dbs
    <3>1. /\ phase' = phase /\ work' = work /\ scan' = scan /\ history'.late = history.late
          /\ phase = "serving" /\ dbs'.el1.version = dbs.el1.version
      BY <2>2 DEF Beside
    <3> QED
      BY <3>1 DEF TypeInv, Staged
  <2> QED
    BY <2>1, <2>2
<1>6. job' = job
  BY DEF Beside
<1> QED
  BY <1>3, <1>4, <1>5, <1>6 DEF TypeInv

LEMMA CrashTypes == ASSUME TypeInv, Crash PROVE TypeInv'
<1>1. Dies /\ UNCHANGED <<job, dbs, prefs, files, folder, failures>>
  BY DEF Crash
<1>2. Stored'
  BY <1>1 DEF TypeInv, Stored, DbsOK
<1> QED
  BY <1>1, <1>2, DiesTypes

LEMMA NextTypes == TypeInv /\ [Next]_vars => TypeInv'
<1> SUFFICES ASSUME TypeInv, [Next]_vars PROVE TypeInv'
  OBVIOUS
<1>1. CASE StartStep
  BY <1>1, StartTypes
<1>2. CASE UpgradeStep
  BY <1>2, UpgradeTypes
<1>3. CASE ScanStep
  BY <1>3, ScanStepTypes
<1>4. CASE ESimStep
  BY <1>4, ESimIs, BesideTypes
<1>5. CASE Crash
  BY <1>5, CrashTypes
<1>6. CASE UNCHANGED vars
  BY <1>6 DEF vars, TypeInv, Stored, DbsOK, Counted, Memory, Staged, Db
<1> QED
  BY <1>1, <1>2, <1>3, <1>4, <1>5, <1>6 DEF Next

(* Whatever libraries the process finds, whatever fails and wherever it dies: both databases  *)
(* are databases of a version the code knows, with rows, default tones, card settings and     *)
(* vibrations that the columns can hold; a scan that is over has left nothing behind, one     *)
(* that runs beside OnStart is waited for or was waited for too long; and CheckSimCard works  *)
(* only on a library that is served (OnStart, RingtoneRdbStore::Init, OnUpgrade, BootScan).   *)
THEOREM TypeCorrect == Spec => []TypeOK
<1>1. TypeInv => TypeOK
  <2> SUFFICES ASSUME TypeInv PROVE TypeOK
    OBVIOUS
  <2>1. DbOK(dbs.el1) /\ DbOK(dbs.el2)
    BY DEF TypeInv, Stored, DbsOK, IsDb
  <2>2. \A i \in scan.cache : ValidSetting(i) /\ i.path \in Paths
    BY DEF TypeInv, Memory, ScanOK, AreSettings, Item
  <2>3. scan.phase = "idle" => scan = NoScan
    BY DEF TypeInv, Memory, ScanOK
  <2> QED
    BY <2>1, <2>2, <2>3 DEF TypeInv, Stored, Counted, Staged, TypeOK
<1> QED
  BY <1>1, InitTypes, NextTypes, PTL DEF Spec
=============================================================================
