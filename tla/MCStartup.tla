------------------------------ MODULE MCStartup -----------------------------
(***************************************************************************)
(* Two preset tones p1 and p2 and a third, p3, that only a scan finds, a   *)
(* tone u of the user's, the vibrations v and w and a gentle one, x.  The  *)
(* default of the eSIM's messages is a tone the product does not have.     *)
(***************************************************************************)
EXTENDS Startup, TLC

MCDefaults == (<<"ring", "SIM1">> :> "p1") @@ (<<"ring", "SIM2">> :> "p1") @@ (<<"ring", "ESIM1">> :> "p2")
              @@ (<<"shot", "SIM1">> :> "p2") @@ (<<"shot", "ESIM1">> :> "absent")

OldTypes == {x \in Types : x[2] # "ESIM1"}

Settings(ring, shot, by) ==
    LET on == [k \in Kinds |-> IF k = "ring" THEN ring ELSE shot]
    IN  [on |-> on, by |-> [k \in Kinds |-> IF on[k] = {} THEN "invalid" ELSE by]]
PresetTone(ring, shot, n) ==
    Settings(ring, shot, "preset") @@ [source |-> "preset", place |-> "preset", title |-> "zh", mark |-> "zh",
                                       mime |-> n >= 6, media |-> n >= 8]
UsersTone(ring, shot, place, n) ==
    Settings(ring, shot, "customised") @@ [source |-> "customised", place |-> place, title |-> "file",
                                           mark |-> "null", mime |-> n >= 6, media |-> n >= 8]
Rows(u, n) ==
    ("p1" :> PresetTone({"SIM1", "SIM2"} \ u.on["ring"], {}, n)) @@ ("u" :> u)
    @@ ("p2" :> PresetTone({}, {"SIM1", "SIM2"}, n))

Sim(tone, mode, ring, vibrate) == [tone |-> tone, vibrate |-> vibrate, mode |-> mode, ring |-> ring]
\* A ringtone that vibrates, has no vibration and is inherited, and values a vibration keeps.
OldSims(keys) ==
    [key \in keys |->
        CASE key = <<"SIM1", "ring">> -> Sim("p1", "null", "sync", "")
          [] key = <<"SIM2", "ring">> -> Sim("u", "null", "sync", "std")
          [] key = <<"SIM1", "vibShot">> -> Sim("p2", "one", "none", "std")
          [] OTHER -> EmptySim]
OldKeys == {key \in SimKeys : key[1] # "ESIM1"}

Marked == [a \in {"v", "w", "x"} |-> [title |-> IF a = "v" THEN "zh" ELSE "file",
                                      mark |-> IF a = "x" THEN "" ELSE "zh"]]

Version(n, u) ==
    [version |-> n,
     schema |-> {c[2] : c \in {x \in {<<2, "language">>, <<4, "conf">>, <<5, "vibrate">>, <<7, "flags">>,
                                      <<10, "haptic">>} : x[1] <= n}},
     rows |-> Rows(u, n),
     conf |-> IF n < 4 THEN <<>> ELSE [x \in OldTypes |-> IF x \in DOMAIN MCDefaults THEN MCDefaults[x] ELSE "null"],
     sims |-> IF n < 5 THEN <<>>
              ELSE OldSims({key \in OldKeys : n >= 11 \/ key[2] \in {"ring", "shot", "notification", "alarm"}}),
     vibrations |-> IF n < 5 THEN <<>> ELSE Marked]
Current(u) ==
    [Version(12, u) EXCEPT !.version = 13,
                           !.sims = [key \in SimKeys |-> [OldSims(SimKeys)[key] EXCEPT !.vibrate = "std"]],
                           !.conf = [x \in Types |-> IF x \in OldTypes THEN @[x] ELSE "p2"]]

Job == [el1 |-> NoDb, el2 |-> NoDb, completed |-> TRUE, el2Completed |-> FALSE, initScanner |-> TRUE,
        first |-> TRUE, files |-> {<<"u", "new">>}, folder |-> "open", factory |-> {"p1", "p2"},
        vibrations |-> {"v", "w", "x"}, languages |-> {"zh"}, cards |-> {}, choices |-> {}, late |-> FALSE,
        failures |-> 0, crashes |-> 0, reboots |-> FALSE]
Plain == UsersTone({}, {}, "new", 13)

(* An upgrade, and which cards are found after it; the user may choose a tone. *)
Sim1 == <<FALSE, 1, 0>>
Sim2 == <<FALSE, 2, 0>>
ESim == <<TRUE, 1, 1>>
Migrations ==
    {[Job EXCEPT !.el1 = Version(12, u), !.cards = cards, !.choices = choices, !.crashes = n] :
        u \in {Plain, UsersTone({"SIM2"}, {}, "new", 13), UsersTone({"SIM1"}, {"SIM2"}, "new", 13)},
        cards \in {{ESim}, {ESim, Sim2}},
        <<choices, n>> \in {<<{<<"ring", "SIM2", "p2">>}, 0>>, <<{<<"ring", "ESIM1", "u">>}, 0>>, <<{}, 1>>}}
    \cup {[Job EXCEPT !.el1 = Version(12, Plain), !.cards = cards] :
            cards \in {{}, {Sim1}, {Sim1, Sim2}, {Sim1, ESim}, {Sim2}}}

(* From each version whose steps differ, with a crash or a failure anywhere. *)
Upgrades ==
    {[Job EXCEPT !.el1 = Version(n, UsersTone({"SIM2"}, {}, IF n < 9 THEN "misplaced" ELSE "new", n)),
                 !.crashes = f[1], !.failures = f[2]] :
        n \in {1, 3, 4, 6, 8, 10, 12}, f \in {<<1, 0>>, <<0, 1>>}}
    \cup {[Job EXCEPT !.el1 = Version(1, UsersTone({}, {}, "misplaced", 1)), !.files = {}]}

(* The first start, and starts with a scan: cut off, after a change of the language, late.    *)
Scans ==
    {[Job EXCEPT !.first = FALSE, !.initScanner = FALSE, !.completed = FALSE, !.factory = {"p1", "p2", "p3"},
                 !.folder = "none", !.files = {}, !.failures = f[1], !.crashes = f[2], !.reboots = TRUE] :
        f \in {<<1, 0>>, <<0, 1>>}}
    \cup {[Job EXCEPT !.el1 = Current(u), !.first = r, !.reboots = r, !.languages = {"zh", "en"},
                      !.factory = {"p1", "p3"}, !.crashes = 1] :
            u \in {Plain, UsersTone({"SIM1"}, {}, "new", 13)}, r \in BOOLEAN}
    \cup {[Job EXCEPT !.el1 = Current(UsersTone({"SIM1"}, {"SIM1"}, "new", 13)), !.first = FALSE,
                      !.initScanner = FALSE, !.late = TRUE, !.factory = {"p1", "p2", "p3"},
                      !.choices = {<<"ring", "SIM1", "p2">>}]}

(* Files to move and folders to make anew. *)
Files ==
    {[Job EXCEPT !.el1 = [Current(u) EXCEPT !.vibrations = <<>>], !.files = F, !.folder = dir,
                 !.failures = f[1], !.crashes = f[2]] :
        <<u, F>> \in {<<UsersTone({"SIM1"}, {}, "old", 13), {<<"u", "old">>}>>,
                      <<UsersTone({"SIM1"}, {}, "new", 13), {<<"u", "new">>}>>,
                      <<UsersTone({"SIM1"}, {}, "new", 13), {<<"u", "new">>, <<"p3", "tmp">>}>>,
                      <<UsersTone({"SIM1"}, {}, "old", 13), {<<"p3", "old">>}>>},
        dir \in {"open", "closed", "none"}, f \in {<<1, 0>>, <<0, 1>>}}

(* The database is still in the encrypted area. *)
Moves ==
    {[Job EXCEPT !.el2 = Version(n, u), !.completed = FALSE, !.el2Completed = TRUE, !.initScanner = FALSE,
                 !.cards = {ESim}, !.failures = f[1], !.crashes = f[2]] :
        n \in {4, 11}, u \in {UsersTone({"SIM2"}, {}, "new", 13)}, f \in {<<1, 0>>, <<0, 1>>}}

MCJobs == Migrations \cup Upgrades \cup Scans \cup Files \cup Moves
=============================================================================
