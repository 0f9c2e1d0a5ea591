---------------------------- MODULE ESimMigration ---------------------------
(***************************************************************************)
(* RingtoneDataManager::CheckSimCard: a client that updates the predicate  *)
(* "isUpdateSimCard" soon after the upgrade makes an eSIM inherit what the *)
(* second card had, which may have been the eSIM.  Clients hold the mutex  *)
(* of the data manager shared, so their statements interleave with each    *)
(* other's and with the user's choices.                                    *)
(***************************************************************************)
EXTENDS Library

(* job.cards: the active cards, each <<isEsim, simLabelIndex, slotIndex>>. *)
ESimIn(cards) == cards \cap {<<TRUE, 1, 1>>, <<TRUE, 2, 1>>}
ESimOf(cards) == IF <<TRUE, 1, 1>> \in cards THEN "ESIM1" ELSE "ESIM2"

(* ApplyESimMigration: whether the eSIM inherits from card 2, and whether the SIM in slot 1,  *)
(* which was the second card, then takes over card 2.  Other sets of cards have no scenario.  *)
Inherits(cards) ==
    /\ Cardinality(ESimIn(cards)) = 1
    /\ cards \ ESimIn(cards) \in {{}, {<<FALSE, 1, 0>>}, {<<FALSE, 2, 0>>}}
Swaps(cards) == Inherits(cards) /\ <<FALSE, 2, 0>> \in cards

(* Statements.  "copy" is MigrateESimSimCardSetting, "add" a half of AddESimToneTypeBit,      *)
(* "clear" one of ClearToneTypeBit, "preset" one of RemovePresetToneTypeBit or of             *)
(* ClearPreset(Shot|Ring)ToneCardBits, for which "collect" determines the cards.              *)
Copy(from, to) == [do |-> "copy", kind |-> "", from |-> from, to |-> {to}]
Add(kind, from, to) == [do |-> "add", kind |-> kind, from |-> from, to |-> {to}]
Clear(kind, card) == [do |-> "clear", kind |-> kind, from |-> "", to |-> {card}]
Preset(kind, cards) == [do |-> "preset", kind |-> kind, from |-> "", to |-> cards]
Collect(kind) == [do |-> "collect", kind |-> kind, from |-> "", to |-> {}]
Reset == [do |-> "reset", kind |-> "", from |-> "", to |-> {}]

\* Mutant: the SIM in slot 1 takes card 2 over before the eSIM has inherited it.
MigrationTooEarly(cards) ==
    LET e == ESimOf(cards)
    IN  IF ~Inherits(cards) THEN <<>>
        ELSE (IF Swaps(cards) THEN <<Copy("SIM1", "SIM2"), Copy("SIM2", e)>> ELSE <<Copy("SIM2", e)>>)
             \o <<Preset("ring", {e}), Preset("shot", {e}), Add("shot", "SIM2", e), Add("ring", "SIM2", e)>>
             \o (IF Swaps(cards) THEN <<Clear("ring", "SIM2"), Clear("shot", "SIM2"),
                                        Add("shot", "SIM1", "SIM2"), Add("ring", "SIM1", "SIM2")>> ELSE <<>>)

Migration(cards) ==
    LET e == ESimOf(cards)
    IN  IF ~Inherits(cards) THEN <<>>
        ELSE <<Copy("SIM2", e)>> \o (IF Swaps(cards) THEN <<Copy("SIM1", "SIM2")>> ELSE <<>>)
             \o <<Preset("ring", {e}), Preset("shot", {e}), Add("shot", "SIM2", e), Add("ring", "SIM2", e)>>
             \o (IF Swaps(cards) THEN <<Clear("ring", "SIM2"), Clear("shot", "SIM2"),
                                        Add("shot", "SIM1", "SIM2"), Add("ring", "SIM1", "SIM2")>> ELSE <<>>)

ClearPresetCardBitsIfCustomExists == <<Collect("shot"), Collect("ring")>>

-----------------------------------------------------------------------------
(* Update with "isUpdateSimCard".  Cards that cannot be detected count as none; once the time *)
(* is reset, later calls change nothing.                                                      *)
CheckSimCard(c) ==
    /\ phase = "serving"
    /\ clients[c] = <<>>
    /\ prefs.eSimTime # "none"
    /\ \/ /\ prefs.eSimTime = "recent"
          /\ \/ /\ clients' = [clients EXCEPT ![c] = Migration(job.cards)
                                    \o ClearPresetCardBitsIfCustomExists \o <<Reset>>]
                /\ UNCHANGED failures
             \/ /\ Fails
                /\ clients' = [clients EXCEPT ![c] = ClearPresetCardBitsIfCustomExists \o <<Reset>>]
          /\ history' = [history EXCEPT !.runs = @ + 1, !.torn = FALSE]
       \/ /\ prefs.eSimTime = "old"
          /\ clients' = [clients EXCEPT ![c] = <<Reset>>]
          /\ UNCHANGED <<failures, history>>
    /\ UNCHANGED <<job, storage, phase, work, scan, crashes>>

CustomCards(kind) == UNION {rows[t].on[kind] : t \in {t \in DOMAIN rows : rows[t].by[kind] = "customised"}}

(* What a statement makes of the database. *)
Executed(db, step) ==
    LET k == step.kind
        holders == {t \in DOMAIN db.rows : step.from \in db.rows[t].on[k]}
        presets == {t \in DOMAIN db.rows : db.rows[t].by[k] = "preset"}
        without(row) == Without(row, k, step.to)
    IN  CASE step.do = "copy" ->
                [db EXCEPT !.sims = Merge([x \in {y \in SimKeys : y[1] \in step.to /\ y[2] \in SimTypes
                                                            /\ <<step.from, y[2]>> \in DOMAIN db.sims} |->
                                              db.sims[<<step.from, x[2]>>]], @)]
          [] step.do = "add" ->
                [db EXCEPT !.rows = Change(@, holders, LAMBDA row : [row EXCEPT !.on[k] = @ \cup step.to])]
          [] step.do = "clear" -> [db EXCEPT !.rows = Change(@, DOMAIN @, without)]
          [] step.do = "preset" -> [db EXCEPT !.rows = Change(@, presets, without)]

Statement(c) ==
    /\ clients[c] # <<>>
    /\ LET step == Head(clients[c])
           rest == Tail(clients[c])
       IN  \/ /\ step.do = "reset"
              /\ prefs' = [prefs EXCEPT !.eSimTime = "none"]
              /\ clients' = [clients EXCEPT ![c] = rest]
              /\ UNCHANGED <<dbs, failures>>
           \/ /\ step.do = "collect"
              /\ clients' = [clients EXCEPT ![c] = <<Preset(step.kind, CustomCards(step.kind))>> \o rest]
              /\ UNCHANGED <<dbs, prefs, failures>>
           \/ /\ step.do \notin {"reset", "collect"}
              /\ clients' = [clients EXCEPT ![c] = rest]
              /\ \/ /\ dbs' = [dbs EXCEPT !.el1 = Executed(@, step)]
                    /\ UNCHANGED failures
                 \/ Fails /\ UNCHANGED dbs
              /\ UNCHANGED prefs
    /\ UNCHANGED <<job, first, known, files, folder, phase, work, scan, history, crashes>>

(* More than a minute after the upgrade. *)
TimePasses ==
    /\ prefs.eSimTime = "recent"
    /\ prefs' = [prefs EXCEPT !.eSimTime = "old"]
    /\ UNCHANGED <<job, dbs, first, known, files, folder, phase, work, scan, clients, history,
                   failures, crashes>>

(* Update on behalf of the user, who chooses a tone for a card: see RestoreBase. *)
UserCustomises ==
    /\ phase = "serving"
    /\ \E choice \in {x \in job.choices : x[3] \in DOMAIN rows /\ <<x[1], x[2]>> \notin history.chosen} :
        LET k == choice[1]
            c == choice[2]
            t == choice[3]
        IN
        /\ dbs' = [dbs EXCEPT !.el1.rows = [q \in DOMAIN rows |->
                LET left == rows[q].on[k] \ {c}
                IN  IF q = t THEN [rows[q] EXCEPT !.on[k] = @ \cup {c}, !.by[k] = "customised"]
                    ELSE [rows[q] EXCEPT !.on[k] = left,
                                         !.by[k] = IF left = {} /\ c \in rows[q].on[k] THEN "notSet"
                                                   ELSE rows[q].by[k]]]]
        /\ history' = [history EXCEPT
                !.chosen = @ \cup {<<k, c>>},
                !.legacy = IF c \in ESims \cup {"SIM2"} THEN {x \in @ : x[1] # k} ELSE @,
                !.ever = IF (rows[t].on[k] \cup {c}) \cap (ESims \cup {"SIM2"}) = {} THEN @
                         ELSE @ \cup {<<k, t>>}]
    /\ UNCHANGED <<job, prefs, first, known, files, folder, phase, work, scan, clients, failures, crashes>>

ESimStep ==
    \/ \E c \in Clients :
        \/ CheckSimCard(c)
        \/ Statement(c)
    \/ TimePasses
    \/ UserCustomises

-----------------------------------------------------------------------------
(* Once clients have asked and none is at work, the eSIM has the tones card 2 had, and no     *)
(* others but the user's, unless a customised tone took a preset one's place; its row of      *)
(* SimCardSetting is card 2's; and card 2 has card 1's, if the cards are swapped: whatever    *)
(* the interleaving with the user's choices and with other clients, and a crash after which   *)
(* a client asks again.  Swapping twice is another story: see the README.                     *)
ESimInherits ==
    /\ phase = "serving" /\ Inherits(job.cards) /\ ~history.torn /\ ~history.late /\ failures = 0
    /\ history.runs >= 1 /\ (Swaps(job.cards) => history.runs = 1)
    /\ \A c \in Clients : clients[c] = <<>>
    =>
    LET e == ESimOf(job.cards)
    IN
    /\ \A x \in history.legacy :
        \/ e \in rows[x[2]].on[x[1]]
        \/ rows[x[2]].by[x[1]] # "customised" /\ IsCardAlreadyCustomised(rows, x[1], e)
    /\ \A k \in CardKinds \cap Kinds, t \in DOMAIN rows : e \in rows[t].on[k] => <<k, t>> \in history.ever
    /\ \A type \in SimTypes :
        /\ dbs.el1.sims[<<e, type>>] = history.was[type]
        /\ Swaps(job.cards) => dbs.el1.sims[<<"SIM2", type>>] = dbs.el1.sims[<<"SIM1", type>>]
=============================================================================
