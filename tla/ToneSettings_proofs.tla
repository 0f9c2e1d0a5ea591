------------------------- MODULE ToneSettings_proofs -------------------------
(***************************************************************************)
(* What one change of a tone's settings does to a table, for any table, and *)
(* what flushing one card of one item keeps.                               *)
(***************************************************************************)
EXTENDS ToneSettings, TLAPS

(* A kind of a row is as in the other row. *)
Same(row, old, k) == row.on[k] = old.on[k] /\ row.by[k] = old.by[k]

(* A row with other settings. *)
WithSettings(row, on, by) == [row EXCEPT !.on = on, !.by = by]

LEMMA RowWithSettings ==
    ASSUME NEW row \in Row, NEW on \in CardSets, NEW by \in [Kinds -> Sources]
    PROVE  /\ WithSettings(row, on, by) \in Row
           /\ WithSettings(row, on, by).on = on /\ WithSettings(row, on, by).by = by
           /\ WithSettings(row, on, by).source = row.source
           /\ WithSettings(row, on, by).video = row.video
BY DEF Row, WithSettings

(* A row with another setting of one kind. *)
WithSetting(row, k, C, b) == [row EXCEPT !.on[k] = C, !.by[k] = b]

LEMMA RowWithSetting ==
    ASSUME NEW row \in Row, NEW k \in Kinds, NEW C \in SUBSET Slots(k), NEW b \in Sources
    PROVE  /\ WithSetting(row, k, C, b) \in Row
           /\ WithSetting(row, k, C, b).on[k] = C /\ WithSetting(row, k, C, b).by[k] = b
           /\ WithSetting(row, k, C, b).source = row.source
           /\ WithSetting(row, k, C, b).video = row.video
           /\ \A j \in Kinds \ {k} : Same(WithSetting(row, k, C, b), row, j)
<1> DEFINE on == [row.on EXCEPT ![k] = C]
           by == [row.by EXCEPT ![k] = b]
<1>1. row.on \in CardSets /\ row.by \in [Kinds -> Sources]
  BY DEF Row
<1>2. C \subseteq AllSlots
  BY DEF Slots, AllSlots
<1>3. on \in CardSets /\ on[k] = C /\ \A j \in Kinds \ {k} : on[j] = row.on[j]
  BY <1>1, <1>2 DEF CardSets
<1>4. by \in [Kinds -> Sources] /\ by[k] = b /\ \A j \in Kinds \ {k} : by[j] = row.by[j]
  BY <1>1
<1>5. WithSetting(row, k, C, b) = WithSettings(row, on, by)
  BY DEF Row, WithSetting, WithSettings
<1> HIDE DEF on, by
<1> QED
  BY <1>3, <1>4, <1>5, RowWithSettings DEF Same

-----------------------------------------------------------------------------
(* The tone of the item gets the card; nothing else changes. *)
LEMMA ApplyCard ==
    ASSUME NEW rows, IsTable(rows), NEW item \in Item, NEW card \in item.cards
    PROVE  LET new == ApplyCardSetting(rows, item, card)
           IN  /\ IsTable(new) /\ DOMAIN new = DOMAIN rows
               /\ \A p \in DOMAIN rows :
                    /\ new[p].source = rows[p].source
                    /\ \A k \in Kinds :
                        IF p = item.path /\ k = item.kind
                        THEN new[p].on[k] = rows[p].on[k] \cup {card} /\ new[p].by[k] = item.by
                        ELSE Same(new[p], rows[p], k)
<1> DEFINE new == ApplyCardSetting(rows, item, card)
           row(p) == WithSetting(rows[p], item.kind, rows[p].on[item.kind] \cup {card}, item.by)
<1>1. /\ rows \in [DOMAIN rows -> Row] /\ DOMAIN rows \subseteq Paths
      /\ item.kind \in Kinds /\ item.by \in Sources /\ card \in Slots(item.kind)
  BY DEF IsTable, Item, Sources
<1>2. new = [p \in DOMAIN rows |-> IF p \in {item.path} THEN row(p) ELSE rows[p]]
  BY Zenon DEF ApplyCardSetting, Change, WithSetting
<1>3. ASSUME NEW p \in DOMAIN rows
      PROVE  /\ row(p) \in Row /\ row(p).source = rows[p].source
             /\ row(p).on[item.kind] = rows[p].on[item.kind] \cup {card}
             /\ row(p).by[item.kind] = item.by
             /\ \A k \in Kinds \ {item.kind} : Same(row(p), rows[p], k)
  <2> DEFINE r == rows[p]  k == item.kind  b == item.by  C == r.on[k] \cup {card}
  <2>1. r \in Row /\ k \in Kinds /\ b \in Sources
    BY <1>1
  <2>2. C \in SUBSET Slots(k)
    BY <1>1, <2>1 DEF Row, CardSets
  <2> HIDE DEF r, k, b, C
  <2>3. /\ WithSetting(r, k, C, b) \in Row /\ WithSetting(r, k, C, b).source = r.source
        /\ WithSetting(r, k, C, b).on[k] = C /\ WithSetting(r, k, C, b).by[k] = b
        /\ \A j \in Kinds \ {k} : Same(WithSetting(r, k, C, b), r, j)
    BY <2>1, <2>2, RowWithSetting
  <2> QED
    BY <2>3, Zenon DEF r, k, b, C
<1> HIDE DEF row, new
<1>4. IsTable(new) /\ DOMAIN new = DOMAIN rows
  BY <1>1, <1>2, <1>3 DEF IsTable
<1>5. \A p \in DOMAIN rows :
        /\ new[p].source = rows[p].source
        /\ \A k \in Kinds :
            IF p = item.path /\ k = item.kind
            THEN new[p].on[k] = rows[p].on[k] \cup {card} /\ new[p].by[k] = item.by
            ELSE Same(new[p], rows[p], k)
  BY <1>2, <1>3 DEF Same
<1> QED
  BY <1>4, <1>5 DEF new

(* A preset row that holds the card for the kind gives it up, and forgets its setting with    *)
(* the last card; nothing else changes.                                                      *)
LEMMA ClearBit ==
    ASSUME NEW rows, IsTable(rows), NEW kind \in Kinds, NEW card
    PROVE  LET new == ClearPresetCardBit(rows, kind, card)
           IN  /\ IsTable(new) /\ DOMAIN new = DOMAIN rows
               /\ \A p \in DOMAIN rows :
                    /\ new[p].source = rows[p].source
                    /\ \A k \in Kinds :
                        IF k = kind /\ p \in PresetHolders(rows, kind, card)
                        THEN /\ new[p].on[k] = rows[p].on[k] \ {card}
                             /\ new[p].by[k] = IF rows[p].on[k] = {card} THEN "invalid" ELSE "preset"
                        ELSE Same(new[p], rows[p], k)
<1> DEFINE new == ClearPresetCardBit(rows, kind, card)
           H == PresetHolders(rows, kind, card)
           C(p) == rows[p].on[kind] \ {card}
           b(p) == IF rows[p].on[kind] = {card} THEN "invalid" ELSE rows[p].by[kind]
           row(p) == WithSetting(rows[p], kind, C(p), b(p))
<1>1. rows \in [DOMAIN rows -> Row] /\ DOMAIN rows \subseteq Paths
  BY DEF IsTable
<1>2. ASSUME NEW r \in Row
      PROVE  [Without(r, kind, {card}) EXCEPT
                !.by[kind] = IF r.on[kind] = {card} THEN "invalid" ELSE Without(r, kind, {card}).by[kind]]
             = WithSetting(r, kind, r.on[kind] \ {card},
                           IF r.on[kind] = {card} THEN "invalid" ELSE r.by[kind])
  BY DEF Row, Without, WithSetting
<1>3. new = [p \in DOMAIN rows |-> IF p \in H THEN row(p) ELSE rows[p]]
  <2>1. new = [p \in DOMAIN rows |->
                IF p \in H
                THEN [Without(rows[p], kind, {card}) EXCEPT
                        !.by[kind] = IF rows[p].on[kind] = {card} THEN "invalid"
                                     ELSE Without(rows[p], kind, {card}).by[kind]]
                ELSE rows[p]]
    BY Zenon DEF ClearPresetCardBit, Change
  <2>2. \A p \in DOMAIN rows : rows[p] \in Row
    BY <1>1
  <2> QED
    BY <1>2, <2>1, <2>2, Zenon
<1>4. ASSUME NEW p \in H
      PROVE  /\ row(p) \in Row /\ row(p).source = rows[p].source
             /\ row(p).on[kind] = C(p)
             /\ row(p).by[kind] = IF rows[p].on[kind] = {card} THEN "invalid" ELSE "preset"
             /\ \A k \in Kinds \ {kind} : Same(row(p), rows[p], k)
  <2> DEFINE r == rows[p]  D == C(p)  c == b(p)
  <2>1. p \in DOMAIN rows /\ r \in Row /\ r.by[kind] = "preset"
    BY <1>1 DEF PresetHolders
  <2>2. D \in SUBSET Slots(kind) /\ c \in Sources
    BY <2>1 DEF Row, CardSets, Sources
  <2>3. c = IF rows[p].on[kind] = {card} THEN "invalid" ELSE "preset"
    BY <2>1
  <2>4. row(p) = WithSetting(r, kind, D, c)
    OBVIOUS
  <2> HIDE DEF r, D, c
  <2>5. /\ WithSetting(r, kind, D, c) \in Row /\ WithSetting(r, kind, D, c).source = r.source
        /\ WithSetting(r, kind, D, c).on[kind] = D /\ WithSetting(r, kind, D, c).by[kind] = c
        /\ \A j \in Kinds \ {kind} : Same(WithSetting(r, kind, D, c), r, j)
    BY <2>1, <2>2, RowWithSetting
  <2> HIDE DEF row
  <2> QED
    BY <2>3, <2>4, <2>5, Zenon DEF r, D
<1> HIDE DEF row, new
<1>5. H \subseteq DOMAIN rows
  BY DEF PresetHolders
<1>6. IsTable(new) /\ DOMAIN new = DOMAIN rows
  BY <1>1, <1>3, <1>4, <1>5 DEF IsTable
<1>7. \A p \in DOMAIN rows :
        /\ new[p].source = rows[p].source
        /\ \A k \in Kinds :
            IF k = kind /\ p \in H
            THEN /\ new[p].on[k] = rows[p].on[k] \ {card}
                 /\ new[p].by[k] = IF rows[p].on[k] = {card} THEN "invalid" ELSE "preset"
            ELSE Same(new[p], rows[p], k)
  <2> SUFFICES ASSUME NEW p \in DOMAIN rows, NEW k \in Kinds
               PROVE  /\ new[p].source = rows[p].source
                      /\ IF k = kind /\ p \in H
                         THEN /\ new[p].on[k] = rows[p].on[k] \ {card}
                              /\ new[p].by[k] = IF rows[p].on[k] = {card} THEN "invalid" ELSE "preset"
                         ELSE Same(new[p], rows[p], k)
    OBVIOUS
  <2>1. CASE p \notin H
    BY <1>3, <2>1 DEF Same
  <2>2. CASE p \in H
    <3>1. new[p] = row(p)
      BY <1>3, <2>2
    <3> QED
      BY <1>4, <2>2, <3>1, Zenon
  <2> QED
    BY <2>1, <2>2
<1> QED
  BY <1>6, <1>7 DEF new

(* A tone without cards gets the kind; nothing else changes. *)
LEMMA ApplyNonCard ==
    ASSUME NEW rows, IsTable(rows), NEW item \in Item, item.kind \notin CardKinds
    PROVE  LET new == ApplyNonCardSetting(rows, item, TRUE)
           IN  /\ IsTable(new) /\ DOMAIN new = DOMAIN rows
               /\ \A p \in DOMAIN rows :
                    /\ new[p].source = rows[p].source
                    /\ \A k \in Kinds :
                        IF p = item.path /\ k = item.kind
                        THEN new[p].on[k] = {"device"} /\ new[p].by[k] = item.by
                        ELSE Same(new[p], rows[p], k)
<1> DEFINE new == ApplyNonCardSetting(rows, item, TRUE)
           row(p) == WithSetting(rows[p], item.kind, {"device"}, item.by)
<1>1. /\ rows \in [DOMAIN rows -> Row] /\ DOMAIN rows \subseteq Paths
      /\ item.kind \in Kinds /\ item.by \in Sources /\ {"device"} \in SUBSET Slots(item.kind)
  BY DEF IsTable, Item, Sources, Slots
<1>2. new = [p \in DOMAIN rows |-> IF p \in {item.path} THEN row(p) ELSE rows[p]]
  BY DEF ApplyNonCardSetting, Change, WithSetting
<1>3. ASSUME NEW p \in DOMAIN rows
      PROVE  /\ row(p) \in Row /\ row(p).source = rows[p].source
             /\ row(p).on[item.kind] = {"device"} /\ row(p).by[item.kind] = item.by
             /\ \A k \in Kinds \ {item.kind} : Same(row(p), rows[p], k)
  <2> DEFINE r == rows[p]  k == item.kind  b == item.by  C == {"device"}
  <2>1. r \in Row /\ k \in Kinds /\ b \in Sources /\ C \in SUBSET Slots(k)
    BY <1>1
  <2> HIDE DEF r, k, b, C
  <2>2. /\ WithSetting(r, k, C, b) \in Row /\ WithSetting(r, k, C, b).source = r.source
        /\ WithSetting(r, k, C, b).on[k] = C /\ WithSetting(r, k, C, b).by[k] = b
        /\ \A j \in Kinds \ {k} : Same(WithSetting(r, k, C, b), r, j)
    BY <2>1, RowWithSetting
  <2> QED
    BY <2>2, Zenon DEF r, k, b, C
<1> HIDE DEF row, new
<1>4. IsTable(new) /\ DOMAIN new = DOMAIN rows
  BY <1>1, <1>2, <1>3 DEF IsTable
<1>5. \A p \in DOMAIN rows :
        /\ new[p].source = rows[p].source
        /\ \A k \in Kinds :
            IF p = item.path /\ k = item.kind
            THEN new[p].on[k] = {"device"} /\ new[p].by[k] = item.by
            ELSE Same(new[p], rows[p], k)
  BY <1>2, <1>3 DEF Same
<1> QED
  BY <1>4, <1>5 DEF new

-----------------------------------------------------------------------------
(* What flushing keeps *)

(* What the user customised stays. *)
Keeps(old, new) ==
    \A p \in DOMAIN old : \A k \in Kinds : old[p].by[k] = "customised" =>
        /\ p \in DOMAIN new /\ new[p].by[k] = "customised"
        /\ old[p].on[k] \subseteq new[p].on[k]

(* No tone holds a card it did not hold, but for the one of path. *)
AddsOnly(old, new, path, kind, card) ==
    \A p \in DOMAIN new : \A k \in Kinds : \A c \in new[p].on[k] :
        \/ p \in DOMAIN old /\ c \in old[p].on[k]
        \/ p = path /\ k = kind /\ c = card

(* The cards with a tone keep one. *)
Sounding(table, kind, card) ==
    \E p \in DOMAIN table : table[p].by[kind] \in {"preset", "customised"} /\ card \in table[p].on[kind]
StaysSounding(old, new) ==
    \A k \in Kinds \cap CardKinds : \A c \in SimCards : Sounding(old, k, c) => Sounding(new, k, c)

LEMMA NotDetermined ==
    ASSUME NEW table, NEW kind, NEW card
    PROVE  Sounding(table, kind, card) <=> ~IsDetermineNoRingtone(table, kind, card)
BY DEF Sounding, IsDetermineNoRingtone

LEMMA ApplyCardKeeps ==
    ASSUME NEW rows, IsTable(rows), NEW item \in Item, NEW card \in item.cards, item.by = "customised"
    PROVE  LET new == ApplyCardSetting(rows, item, card)
           IN  /\ IsTable(new) /\ DOMAIN new = DOMAIN rows
               /\ Keeps(rows, new) /\ AddsOnly(rows, new, item.path, item.kind, card)
               /\ StaysSounding(rows, new)
<1> DEFINE new == ApplyCardSetting(rows, item, card)
<1>1. /\ IsTable(new) /\ DOMAIN new = DOMAIN rows
      /\ \A p \in DOMAIN rows : \A k \in Kinds :
            IF p = item.path /\ k = item.kind
            THEN new[p].on[k] = rows[p].on[k] \cup {card} /\ new[p].by[k] = "customised"
            ELSE Same(new[p], rows[p], k)
  BY ApplyCard
<1> HIDE DEF new
<1>2. Keeps(rows, new)
  BY <1>1 DEF Keeps, Same
<1>3. AddsOnly(rows, new, item.path, item.kind, card)
  BY <1>1 DEF AddsOnly, Same
<1>4. StaysSounding(rows, new)
  BY <1>1 DEF StaysSounding, Sounding, Same
<1> QED
  BY <1>1, <1>2, <1>3, <1>4 DEF new

LEMMA ClearBitKeeps ==
    ASSUME NEW rows, IsTable(rows), NEW kind \in Kinds, NEW card
    PROVE  LET new == ClearPresetCardBit(rows, kind, card)
           IN  /\ IsTable(new) /\ DOMAIN new = DOMAIN rows
               /\ Keeps(rows, new) /\ \A path : AddsOnly(rows, new, path, kind, card)
               /\ IsCardAlreadyCustomised(rows, kind, card) => StaysSounding(rows, new)
<1> DEFINE new == ClearPresetCardBit(rows, kind, card)
           H == PresetHolders(rows, kind, card)
<1>1. /\ IsTable(new) /\ DOMAIN new = DOMAIN rows
      /\ \A p \in DOMAIN rows : \A k \in Kinds :
            IF k = kind /\ p \in H
            THEN /\ new[p].on[k] = rows[p].on[k] \ {card}
                 /\ new[p].by[k] = IF rows[p].on[k] = {card} THEN "invalid" ELSE "preset"
            ELSE Same(new[p], rows[p], k)
  BY ClearBit
<1> HIDE DEF new
<1>2. Keeps(rows, new)
  BY <1>1 DEF Keeps, Same, PresetHolders
<1>3. ASSUME NEW path PROVE AddsOnly(rows, new, path, kind, card)
  BY <1>1 DEF AddsOnly, Same
<1>4. ASSUME IsCardAlreadyCustomised(rows, kind, card) PROVE StaysSounding(rows, new)
  <2> SUFFICES ASSUME NEW k \in Kinds, NEW c, Sounding(rows, k, c) PROVE Sounding(new, k, c)
    BY DEF StaysSounding
  <2>1. CASE k = kind /\ c = card
    <3>1. PICK p \in DOMAIN rows : rows[p].by[kind] = "customised" /\ card \in rows[p].on[kind]
      BY <1>4 DEF IsCardAlreadyCustomised
    <3>2. p \notin H
      BY <3>1 DEF PresetHolders
    <3>3. Same(new[p], rows[p], k)
      BY <1>1, <3>2
    <3> QED
      BY <1>1, <2>1, <3>1, <3>3 DEF Sounding, Same
  <2>2. CASE ~(k = kind /\ c = card)
    <3>1. PICK p \in DOMAIN rows : rows[p].by[k] \in {"preset", "customised"} /\ c \in rows[p].on[k]
      BY DEF Sounding
    <3>2. CASE k = kind /\ p \in H
      BY <1>1, <2>2, <3>1, <3>2 DEF Sounding
    <3>3. CASE ~(k = kind /\ p \in H)
      <4>1. Same(new[p], rows[p], k)
        BY <1>1, <3>3
      <4> QED
        BY <1>1, <3>1, <4>1 DEF Sounding, Same
    <3> QED
      BY <3>2, <3>3
  <2> QED
    BY <2>1, <2>2
<1> QED
  BY <1>1, <1>2, <1>3, <1>4 DEF new

LEMMA ApplyNonCardKeeps ==
    ASSUME NEW rows, IsTable(rows), NEW item \in Item, item.kind \notin CardKinds,
           item.by = "customised"
    PROVE  LET new == ApplyNonCardSetting(rows, item, TRUE)
           IN  /\ IsTable(new) /\ DOMAIN new = DOMAIN rows
               /\ Keeps(rows, new) /\ AddsOnly(rows, new, item.path, item.kind, "device")
               /\ StaysSounding(rows, new)
<1> DEFINE new == ApplyNonCardSetting(rows, item, TRUE)
<1>a. /\ IsTable(new) /\ DOMAIN new = DOMAIN rows
      /\ \A p \in DOMAIN rows :
            /\ new[p].source = rows[p].source
            /\ \A k \in Kinds :
                IF p = item.path /\ k = item.kind
                THEN new[p].on[k] = {"device"} /\ new[p].by[k] = item.by
                ELSE Same(new[p], rows[p], k)
  <2> HIDE DEF new
  <2> QED
    BY ApplyNonCard DEF new
<1> HIDE DEF new
<1>1. /\ IsTable(new) /\ DOMAIN new = DOMAIN rows
      /\ \A p \in DOMAIN rows : \A k \in Kinds :
            IF p = item.path /\ k = item.kind
            THEN new[p].on[k] = {"device"} /\ new[p].by[k] = "customised"
            ELSE Same(new[p], rows[p], k)
  BY <1>a
<1>2. \A p \in DOMAIN rows : rows[p].on[item.kind] \subseteq {"device"}
  BY DEF IsTable, Row, CardSets, Slots, Item
<1> HIDE DEF new
<1>3. Keeps(rows, new)
  BY <1>1, <1>2 DEF Keeps, Same
<1>4. AddsOnly(rows, new, item.path, item.kind, "device")
  BY <1>1 DEF AddsOnly, Same
<1>5. StaysSounding(rows, new)
  BY <1>1 DEF StaysSounding, Sounding, Same
<1> QED
  BY <1>1, <1>3, <1>4, <1>5 DEF new

LEMMA KeepsTwice ==
    ASSUME NEW s, NEW t, NEW u, NEW path, NEW kind, NEW card, DOMAIN t = DOMAIN u,
           Keeps(s, t), Keeps(t, u), AddsOnly(s, t, path, kind, card), AddsOnly(t, u, path, kind, card)
    PROVE  Keeps(s, u) /\ AddsOnly(s, u, path, kind, card)
<1>1. Keeps(s, u)
  BY DEF Keeps
<1>2. AddsOnly(s, u, path, kind, card)
  BY DEF AddsOnly
<1> QED
  BY <1>1, <1>2

(* One step of a forced flush of a setting the user chose elsewhere: it adds one card to one  *)
(* tone, no tone of the user's loses one, and no card falls silent, unless another tone of    *)
(* the cache is still to get it.                                                             *)
LEMMA FlushKeeps ==
    ASSUME NEW rows, IsTable(rows), NEW cache, NEW presets, NEW step,
           step.item \in Item, step.card \in step.item.cards, step.item.by = "customised"
    PROVE  LET new == Flush(rows, cache, presets, step, TRUE)
           IN  /\ IsTable(new) /\ DOMAIN new = DOMAIN rows
               /\ Keeps(rows, new)
               /\ AddsOnly(rows, new, step.item.path, step.item.kind, step.card)
               /\ (step.item.kind \in CardKinds =>
                    \A i \in cache : i.kind = step.item.kind /\ step.card \in i.cards => i.path = step.item.path)
                    => StaysSounding(rows, new)
<1> DEFINE item == step.item  card == step.card
           set == ApplyCardSetting(rows, item, card)
           new == Flush(rows, cache, presets, step, TRUE)
           Goal == /\ IsTable(new) /\ DOMAIN new = DOMAIN rows
                   /\ Keeps(rows, new)
                   /\ AddsOnly(rows, new, item.path, item.kind, card)
                   /\ (item.kind \in CardKinds =>
                        \A i \in cache : i.kind = item.kind /\ card \in i.cards => i.path = item.path)
                        => StaysSounding(rows, new)
<1>1. item \in Item /\ card \in item.cards /\ item.by = "customised" /\ item.kind \in Kinds
  BY DEF Item
<1> SUFFICES Goal
  OBVIOUS
<1>2. CASE item.kind \notin CardKinds
  <2>1. card = "device" /\ new = ApplyNonCardSetting(rows, item, TRUE)
    BY <1>1, <1>2 DEF Item, Slots, Flush
  <2> HIDE DEF new, item
  <2> QED
    BY <1>1, <1>2, <2>1, ApplyNonCardKeeps
<1>3. CASE item.kind \in CardKinds
  <2>1. \/ new = rows
        \/ new = ClearPresetCardBit(rows, item.kind, card) /\ HasOtherCustomisedForCard(rows, cache, item, card)
        \/ new = set
        \/ new = ClearPresetCardBit(set, item.kind, card) /\ item.path \in DOMAIN rows
    BY <1>3 DEF Flush, ApplyCardSettings, GetTargetSourceType
  <2>2. /\ IsTable(set) /\ DOMAIN set = DOMAIN rows
        /\ Keeps(rows, set) /\ AddsOnly(rows, set, item.path, item.kind, card)
        /\ StaysSounding(rows, set)
    BY <1>1, ApplyCardKeeps
  <2> HIDE DEF new, item, card
  <2>3. CASE new = rows
    BY <2>3 DEF Keeps, AddsOnly, StaysSounding
  <2>4. CASE /\ new = ClearPresetCardBit(rows, item.kind, card)
             /\ HasOtherCustomisedForCard(rows, cache, item, card)
    BY <1>1, <1>3, <2>4, ClearBitKeeps DEF HasOtherCustomisedForCard
  <2>5. CASE new = set
    BY <2>2, <2>5
  <2>6. CASE new = ClearPresetCardBit(set, item.kind, card) /\ item.path \in DOMAIN rows
    <3>1. set[item.path].by[item.kind] = "customised" /\ card \in set[item.path].on[item.kind]
      BY <1>1, <2>6, ApplyCard
    <3>2. IsCardAlreadyCustomised(set, item.kind, card)
      BY <2>2, <2>6, <3>1 DEF IsCardAlreadyCustomised
    <3> HIDE DEF set
    <3>3. /\ IsTable(new) /\ DOMAIN new = DOMAIN set
          /\ Keeps(set, new) /\ AddsOnly(set, new, item.path, item.kind, card)
          /\ StaysSounding(set, new)
      BY <1>1, <2>2, <2>6, <3>2, ClearBitKeeps
    <3>4. Keeps(rows, new) /\ AddsOnly(rows, new, item.path, item.kind, card)
      BY <2>2, <3>3, KeepsTwice
    <3>5. StaysSounding(rows, new)
      BY <2>2, <3>3 DEF StaysSounding
    <3> QED
      BY <2>2, <3>3, <3>4, <3>5
  <2> QED
    BY <2>1, <2>3, <2>4, <2>5, <2>6
<1> QED
  BY <1>2, <1>3
-----------------------------------------------------------------------------
(* Changes of the settings of all rows *)

LEMMA Resettled ==
    ASSUME NEW rows, IsTable(rows), NEW on \in [DOMAIN rows -> CardSets],
           NEW by \in [DOMAIN rows -> [Kinds -> Sources]], NEW new,
           new = [p \in DOMAIN rows |-> WithSettings(rows[p], on[p], by[p])]
    PROVE  /\ IsTable(new) /\ DOMAIN new = DOMAIN rows
           /\ \A p \in DOMAIN rows :
                /\ new[p].on = on[p] /\ new[p].by = by[p]
                /\ new[p].source = rows[p].source /\ new[p].video = rows[p].video
<1>1. rows \in [DOMAIN rows -> Row] /\ DOMAIN rows \subseteq Paths
  BY DEF IsTable
<1>2. ASSUME NEW p \in DOMAIN rows
      PROVE  /\ new[p] \in Row
             /\ new[p].on = on[p] /\ new[p].by = by[p]
             /\ new[p].source = rows[p].source /\ new[p].video = rows[p].video
  <2> DEFINE r == rows[p]  o == on[p]  b == by[p]
  <2>1. r \in Row /\ o \in CardSets /\ b \in [Kinds -> Sources]
    BY <1>1
  <2>2. new[p] = WithSettings(r, o, b)
    OBVIOUS
  <2> HIDE DEF r, o, b
  <2>3. /\ new[p] \in Row /\ new[p].on = o /\ new[p].by = b
        /\ new[p].source = r.source /\ new[p].video = r.video
    BY <2>1, <2>2, RowWithSettings
  <2> QED
    BY <2>3, Zenon DEF r, o, b
<1> QED
  BY <1>1, <1>2 DEF IsTable

(* No tone is set for a card it was not set for. *)
Shrinks(old, new) ==
    \A p \in DOMAIN new : \A k \in Kinds : \A c \in new[p].on[k] : p \in DOMAIN old /\ c \in old[p].on[k]

(* After the flush, preset settings give up the cards the user chose tones for. *)
LEMMA ClearPresetsKeeps ==
    ASSUME NEW rows, IsTable(rows)
    PROVE  LET new == ClearPresetCardBitsByCustom(rows)
           IN  /\ IsTable(new) /\ DOMAIN new = DOMAIN rows
               /\ Keeps(rows, new) /\ Shrinks(rows, new) /\ StaysSounding(rows, new)
<1> DEFINE on == [p \in DOMAIN rows |-> [k \in Kinds |->
                    IF k \in CardKinds /\ rows[p].by[k] = "preset"
                    THEN {c \in rows[p].on[k] : ~IsCardAlreadyCustomised(rows, k, c)} ELSE rows[p].on[k]]]
           by == [p \in DOMAIN rows |-> rows[p].by]
           new == ClearPresetCardBitsByCustom(rows)
<1>1. rows \in [DOMAIN rows -> Row]
  BY DEF IsTable
<1>2. on \in [DOMAIN rows -> CardSets] /\ by \in [DOMAIN rows -> [Kinds -> Sources]]
  BY <1>1 DEF Row, CardSets
<1>3. new = [p \in DOMAIN rows |-> WithSettings(rows[p], on[p], by[p])]
  BY <1>1 DEF Row, WithSettings, ClearPresetCardBitsByCustom
<1>4. ASSUME NEW p \in DOMAIN rows, NEW k \in Kinds
      PROVE  /\ by[p][k] = rows[p].by[k]
             /\ on[p][k] = IF k \in CardKinds /\ rows[p].by[k] = "preset"
                           THEN {c \in rows[p].on[k] : ~IsCardAlreadyCustomised(rows, k, c)} ELSE rows[p].on[k]
  OBVIOUS
<1> HIDE DEF on, by, new
<1>5. /\ IsTable(new) /\ DOMAIN new = DOMAIN rows
      /\ \A p \in DOMAIN rows : new[p].on = on[p] /\ new[p].by = by[p]
  BY <1>2, <1>3, Resettled
<1>6. \A p \in DOMAIN rows : \A k \in Kinds :
        /\ new[p].by[k] = rows[p].by[k]
        /\ new[p].on[k] = IF k \in CardKinds /\ rows[p].by[k] = "preset"
                          THEN {c \in rows[p].on[k] : ~IsCardAlreadyCustomised(rows, k, c)} ELSE rows[p].on[k]
  BY <1>4, <1>5
<1>7. Keeps(rows, new) /\ Shrinks(rows, new)
  BY <1>5, <1>6 DEF Keeps, Shrinks
<1>8. StaysSounding(rows, new)
  <2> SUFFICES ASSUME NEW k \in Kinds, NEW c, Sounding(rows, k, c) PROVE Sounding(new, k, c)
    BY DEF StaysSounding
  <2>1. PICK p \in DOMAIN rows : rows[p].by[k] \in {"preset", "customised"} /\ c \in rows[p].on[k]
    BY DEF Sounding
  <2>2. CASE IsCardAlreadyCustomised(rows, k, c)
    BY <1>5, <1>6, <2>2 DEF IsCardAlreadyCustomised, Sounding
  <2>3. CASE ~IsCardAlreadyCustomised(rows, k, c)
    BY <1>5, <1>6, <2>1, <2>3 DEF Sounding
  <2> QED
    BY <2>2, <2>3
<1> QED
  BY <1>5, <1>7, <1>8 DEF new

-----------------------------------------------------------------------------
(* The cache of commits: every card of an item was one of an item for the same tone, kind and *)
(* source before.                                                                             *)
AreSettings(cache) == \A i \in cache : i \in Item /\ ValidSetting(i)

LEMMA CommittedAreSettings ==
    ASSUME NEW cache, NEW items, AreSettings(cache), \A i \in items : i \in Item
    PROVE  LET new == CommitSettings(cache, items)
           IN  /\ AreSettings(new)
               /\ \A i \in new : \E j \in cache \cup items : j.by = i.by
               /\ \A i \in new : \A c \in i.cards : \E j \in cache \cup items :
                    j.path = i.path /\ j.kind = i.kind /\ c \in j.cards
<1> DEFINE all == cache \cup {i \in items : ValidSetting(i)}
           like(i) == {j \in all : j.path = i.path /\ j.kind = i.kind /\ j.by = i.by}
           merged(i) == [i EXCEPT !.cards = UNION {j.cards : j \in like(i)}]
<1>1. AreSettings(all)
  BY DEF AreSettings, Item, ValidSetting
<1>2. ASSUME NEW i \in all
      PROVE  /\ merged(i) \in Item /\ ValidSetting(merged(i)) /\ merged(i).by = i.by
             /\ \A c \in merged(i).cards : \E j \in all :
                    j.path = merged(i).path /\ j.kind = merged(i).kind /\ c \in j.cards
  <2> DEFINE C == UNION {j.cards : j \in like(i)}
  <2>1. i \in Item /\ ValidSetting(i) /\ i \in like(i)
    BY <1>1 DEF AreSettings
  <2>2. \A j \in like(i) : j \in Item /\ ValidSetting(j) /\ j.kind = i.kind /\ j.path = i.path
    BY <1>1 DEF AreSettings
  <2>3. C \subseteq Slots(i.kind) /\ C # {} /\ (i.kind \notin CardKinds => C = {"device"})
    BY <2>1, <2>2 DEF Item, ValidSetting
  <2>4. \A c \in C : \E j \in all : j.path = i.path /\ j.kind = i.kind /\ c \in j.cards
    OBVIOUS
  <2>5. merged(i) = [i EXCEPT !.cards = C]
    OBVIOUS
  <2> HIDE DEF C, merged, all, like
  <2>6. /\ merged(i).path = i.path /\ merged(i).kind = i.kind /\ merged(i).by = i.by
        /\ merged(i).cards = C
        /\ merged(i) \in [path : Paths, kind : Kinds, cards : SUBSET AllSlots, by : {"preset", "customised"}]
    <3>1. C \in SUBSET AllSlots
      BY <2>3 DEF Slots, AllSlots
    <3> QED
      BY <2>1, <2>5, <3>1 DEF Item
  <2>7. merged(i) \in Item /\ ValidSetting(merged(i))
    BY <2>1, <2>3, <2>6 DEF Item, ValidSetting
  <2> QED
    BY <2>1, <2>4, <2>6, <2>7
<1>3. CommitSettings(cache, items) = {merged(i) : i \in all}
  BY DEF CommitSettings
<1>4. all \subseteq cache \cup items
  OBVIOUS
<1> HIDE DEF merged, all
<1> QED
  BY <1>2, <1>3, <1>4 DEF AreSettings

(* The cache of a restore holds settings of the users' alone. *)
IsCache(cache) == \A i \in cache : i \in Item /\ ValidSetting(i) /\ i.by = "customised"

LEMMA CacheOfCommits ==
    ASSUME NEW cache, NEW items, IsCache(cache),
           \A i \in items : i \in Item /\ i.by = "customised"
    PROVE  LET new == CommitSettings(cache, items)
           IN  /\ IsCache(new)
               /\ \A i \in new : \A c \in i.cards : \E j \in cache \cup items :
                    j.path = i.path /\ j.kind = i.kind /\ c \in j.cards
<1> DEFINE new == CommitSettings(cache, items)
<1>1. AreSettings(cache)
  BY DEF AreSettings, IsCache
<1>2. /\ AreSettings(new)
      /\ \A i \in new : \E j \in cache \cup items : j.by = i.by
      /\ \A i \in new : \A c \in i.cards : \E j \in cache \cup items :
            j.path = i.path /\ j.kind = i.kind /\ c \in j.cards
  BY <1>1, CommittedAreSettings
<1> HIDE DEF new
<1>3. IsCache(new)
  BY <1>2 DEF AreSettings, IsCache
<1> QED
  BY <1>2, <1>3 DEF new
=============================================================================
