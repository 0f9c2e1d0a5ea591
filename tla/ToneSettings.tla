---------------------------- MODULE ToneSettings ----------------------------
(***************************************************************************)
(* RingtoneSettingManager: the settings of the ToneFiles table and the     *)
(* cache of commits that FlushSettings writes to it.  Restores use it with *)
(* forceFlush, the scanner's default settings without.                     *)
(*                                                                         *)
(* A setting is a kind and, for the card kinds, a card; the bitmap of a    *)
(* *_tone_type column is the set of its cards, and the fixed value of a    *)
(* kind without cards is {"device"}.  A table is a function from the paths *)
(* of its rows.                                                            *)
(***************************************************************************)
EXTENDS Naturals, Sequences, FiniteSets

CONSTANTS
    Kinds,          \* the kinds of settings that are modelled
    SimCards,       \* the cards that are modelled
    Paths           \* the paths a row may have

CardOrder == <<"SIM1", "SIM2", "ESIM1", "ESIM2">>
CardKinds == {"ring", "shot"}

ASSUME ToneSettingsAssumption ==
    /\ Kinds \subseteq {"ring", "shot", "notification", "alarm"}
    /\ SimCards \subseteq {"SIM1", "SIM2", "ESIM1", "ESIM2"}

Slots(kind) == IF kind \in CardKinds THEN SimCards ELSE {"device"}
AllSlots == SimCards \cup {"device"}

(* source: source_type of the tone itself.  on, by: the *_tone_type and *_tone_source_type   *)
(* of each kind, INVALID (-1) being the default and NOT_SET 0.                               *)
Sources == {"invalid", "notSet", "preset", "customised"}
CardSets == {on \in [Kinds -> SUBSET AllSlots] : \A k \in Kinds : on[k] \subseteq Slots(k)}
Row == [source : {"preset", "customised"}, video : BOOLEAN, on : CardSets, by : [Kinds -> Sources]]
IsTable(rows) == rows \in [DOMAIN rows -> Row] /\ DOMAIN rows \subseteq Paths

(* f, and g for what f does not have. *)
Merge(f, g) == [x \in DOMAIN f \cup DOMAIN g |-> IF x \in DOMAIN f THEN f[x] ELSE g[x]]

Holds(rows, path, kind, card) == path \in DOMAIN rows /\ card \in rows[path].on[kind]

(* A row that the user set for the card; combinations of the bitmap are membership. *)
IsCardAlreadyCustomised(rows, kind, card) ==
    \E p \in DOMAIN rows : rows[p].by[kind] = "customised" /\ card \in rows[p].on[kind]

(* "No ringtone": no row with a source > 0 holds the card. *)
IsDetermineNoRingtone(rows, kind, card) ==
    \A p \in DOMAIN rows :
        rows[p].by[kind] \in {"preset", "customised"} => card \notin rows[p].on[kind]

(* The rows with those of the paths P changed by F. *)
Change(rows, P, F(_)) == [p \in DOMAIN rows |-> IF p \in P THEN F(rows[p]) ELSE rows[p]]

(* A row without the cards C of the kind. *)
Without(row, kind, C) == [row EXCEPT !.on[kind] = @ \ C]

\* Mutant: the source of the setting is not looked at.
HoldersOfAnySource(rows, kind, card) == {p \in DOMAIN rows : card \in rows[p].on[kind]}

PresetHolders(rows, kind, card) ==
    {p \in DOMAIN rows : rows[p].by[kind] = "preset" /\ card \in rows[p].on[kind]}

-----------------------------------------------------------------------------
(* The cache of commits. *)

Item == {i \in [path : Paths, kind : Kinds, cards : SUBSET AllSlots, by : {"preset", "customised"}] :
            i.cards \subseteq Slots(i.kind)}

ValidSetting(item) ==
    /\ item.by \in {"preset", "customised"}
    /\ item.cards # {}
    /\ item.kind \notin CardKinds => item.cards = {"device"}

\* Mutant: what is not a setting is committed too.
CommitUnchecked(cache, items) == cache \cup items

(* Each card of an item is a commit of its own: items of the same path, kind and source are  *)
(* one, which holds the cards of all, and committing a card again changes nothing.           *)
CommitSettings(cache, items) ==
    LET all == cache \cup {i \in items : ValidSetting(i)}
        like(i) == {j \in all : j.path = i.path /\ j.kind = i.kind /\ j.by = i.by}
    IN  {[i EXCEPT !.cards = UNION {j.cards : j \in like(i)}] : i \in all}

-----------------------------------------------------------------------------
(* FlushSettings *)

(* CachePresetCardBits remembers, for each card of each kind, the last preset row the       *)
(* query returned, or "" if there is none.                                                  *)
PresetCardBits(rows) ==
    {f \in [(CardKinds \cap Kinds) \X SimCards -> DOMAIN rows \cup {""}] :
        \A s \in DOMAIN f :
            LET H == PresetHolders(rows, s[1], s[2])
            IN  IF H = {} THEN f[s] = "" ELSE f[s] \in H}

ApplyCardSetting(rows, item, card) ==
    Change(rows, {item.path},
           LAMBDA row : [row EXCEPT !.on[item.kind] = @ \cup {card}, !.by[item.kind] = item.by])

ClearPresetCardBit(rows, kind, card) ==
    Change(rows, PresetHolders(rows, kind, card),
           LAMBDA row : [Without(row, kind, {card}) EXCEPT
                            !.by[kind] = IF row.on[kind] = {card} THEN "invalid" ELSE @])

\* Mutant: a tone that is missing counts as one of the user's.
TargetSourceGuessed(rows, path) == IF path \in DOMAIN rows THEN rows[path].source ELSE "customised"

(* source_type of the tone, not the source of the setting. *)
GetTargetSourceType(rows, path) == IF path \in DOMAIN rows THEN rows[path].source ELSE "invalid"

HasOtherCustomisedForCard(rows, cache, item, card) ==
    \/ \E i \in cache : /\ i.path # item.path /\ i.kind = item.kind
                        /\ i.by = "customised" /\ card \in i.cards
    \/ IsCardAlreadyCustomised(rows, item.kind, card)

IsPresetTonePath(presets, item, card) == presets[<<item.kind, card>>] = item.path

(* One card of one item of a card kind. *)
ApplyCardSettings(rows, cache, presets, item, card, forceFlush) ==
    LET set == ApplyCardSetting(rows, item, card)
    IN  IF ~forceFlush /\ IsCardAlreadyCustomised(rows, item.kind, card) THEN rows
        ELSE IF IsPresetTonePath(presets, item, card)
        THEN IF HasOtherCustomisedForCard(rows, cache, item, card)
             THEN ClearPresetCardBit(rows, item.kind, card) ELSE rows
        ELSE IF GetTargetSourceType(rows, item.path) = "customised"
        THEN ClearPresetCardBit(set, item.kind, card) ELSE set

ApplyNonCardSetting(rows, item, forceFlush) ==
    IF ~forceFlush /\ IsCardAlreadyCustomised(rows, item.kind, "device") THEN rows
    ELSE Change(rows, {item.path},
                LAMBDA row : [row EXCEPT !.on[item.kind] = {"device"}, !.by[item.kind] = item.by])

(* Once a customised tone holds a card, no preset row keeps it; the source stays preset.     *)
ClearPresetCardBitsByCustom(rows) ==
    [p \in DOMAIN rows |->
        [rows[p] EXCEPT !.on = [k \in Kinds |->
            IF k \in CardKinds /\ rows[p].by[k] = "preset"
            THEN {c \in @[k] : ~IsCardAlreadyCustomised(rows, k, c)} ELSE @[k]]]]

(* What is left to flush: each card of each item.  Items come in the order of their paths,  *)
(* which means nothing, so any may come first; the cards of an item come in order.           *)
FlushSteps(cache) == UNION {{[item |-> i, card |-> c] : c \in i.cards} : i \in cache}

IsNext(step, todo) ==
    \A other \in todo :
        other.item = step.item =>
            \A i, j \in 1 .. Len(CardOrder) :
                CardOrder[i] = other.card /\ CardOrder[j] = step.card => j <= i

Flush(rows, cache, presets, step, forceFlush) ==
    IF step.item.kind \in CardKinds
    THEN ApplyCardSettings(rows, cache, presets, step.item, step.card, forceFlush)
    ELSE ApplyNonCardSetting(rows, step.item, forceFlush)
=============================================================================
