----------------------------- MODULE MCRestore -----------------------------
(***************************************************************************)
(* Two ringtone presets (the first has another path on the other device),  *)
(* two notification presets, a tone b of the user's, which may exist on    *)
(* both devices with the same or another size, a video v, and the tone c   *)
(* of a contact.                                                           *)
(***************************************************************************)
EXTENDS Restore, TLC

MCPaths == {"p1", "old/p1", "p2", "n1", "n2", "b", "b(1)", "docs/b", "v", "c"}
MCUnplaced == {"c"}
MCNames == [p \in MCPaths |-> IF p \in {"b", "docs/b"} THEN <<"b", "b(1)">> ELSE <<p>>]
MCRelative == [p \in MCPaths |-> CASE p \in {"p1", "old/p1"} -> "ringtones/p1"
                                   [] p \in {"p2", "n1", "n2"} -> p
                                   [] OTHER -> ""]
MCToneKinds == [p \in MCPaths |-> CASE p \in {"p1", "old/p1", "p2"} -> {"ring"}
                                    [] p \in {"n1", "n2"} -> {"notification"}
                                    [] OTHER -> Kinds]
Presets == {"p1", "old/p1", "p2", "n1", "n2"}

(* A table of the tones P with the settings S, <<path, kind, card, source>>; a tone of which  *)
(* one card is customised is customised.                                                      *)
Table(P, S) ==
    [p \in P |->
        [source |-> IF p \in Presets THEN "preset" ELSE "customised", video |-> p = "v",
         on |-> [k \in Kinds |-> {s[3] : s \in {s \in S : s[1] = p /\ s[2] = k}}],
         by |-> [k \in Kinds |->
            LET sources == {s[4] : s \in {s \in S : s[1] = p /\ s[2] = k}}
            IN  IF "customised" \in sources THEN "customised"
                ELSE IF "preset" \in sources THEN "preset" ELSE "invalid"]]]

Ring(p, cards, source) == {<<p, "ring", c, source>> : c \in cards}
All == {"SIM1", "SIM2", "ESIM1"}
OwnRings == {Ring("p1", All, "preset"), {},
             Ring("p1", {"SIM1", "ESIM1"}, "preset") \cup Ring("p2", {"SIM2"}, "preset"),
             Ring("p1", {"SIM2"}, "preset") \cup Ring("b", {"SIM1"}, "customised")}
TheirRings == {Ring("old/p1", All, "preset"),
               Ring("b", {"SIM1"}, "customised") \cup Ring("old/p1", {"SIM2", "ESIM1"}, "preset"),
               Ring("b", {"SIM1", "ESIM1"}, "customised"),
               Ring("p2", {"SIM1"}, "customised") \cup Ring("b", {"SIM2"}, "customised"),
               Ring("old/p1", {"ESIM1", "SIM2"}, "customised") \cup Ring("p2", {"SIM1"}, "preset")}
Notify(p, source) == {<<p, "notification", "device", source>>}
\* Own and theirs.
Notifications == <<<<Notify("n1", "preset"), Notify("n1", "preset")>>,
                   <<Notify("n1", "preset"), Notify("b", "customised")>>,
                   <<Notify("n2", "customised"), {}>>>>

Sim(mode, vibrate, tone, set) == [mode |-> mode, vibrate |-> vibrate, tone |-> tone, set |-> set]
OwnSims == (<<"SIM1", "ring">> :> Sim("sync", "own", "p1", TRUE)) @@ (<<"SIM2", "ring">> :> Sim("null", "", "", FALSE))
TheirSims == (<<"SIM1", "ring">> :> Sim("none", "", "", FALSE)) @@ (<<"SIM2", "ring">> :> Sim("sync", "", "p2", TRUE))

Sizes(P) == [p \in P |-> IF p \in Presets THEN 0 ELSE 1]
OwnTones == {"p1", "p2", "n1", "n2"}
TheirTones == {"old/p1", "p2", "n1", "n2", "b"}
Job == [scene |-> "clone", completed |-> TRUE, factory |-> <<>>, sims |-> OwnSims, settings |-> <<>>,
        cards |-> {}, gallery |-> <<>>, choices |-> {}, crashes |-> 0]

(* b: absent, or there with its size. *)
WithB(sizes, b) == IF b = 0 THEN sizes ELSE ("b" :> b) @@ sizes
Clones ==
    {[Job EXCEPT !.choices = IF b = 1 THEN {<<"ring", "SIM1", "p2">>, <<"notification", "device", "n1">>}
                             ELSE {<<"ring", "ESIM1", "b">>},
                 !.crashes = IF b = 2 THEN 1 ELSE 0]
      @@ [rows |-> Table(OwnTones \cup (IF b = 0 THEN {} ELSE {"b"}), r \cup n[1]),
          files |-> WithB(Sizes(OwnTones), b),
          backup |-> [rows |-> Table(TheirTones, tr \cup n[2]), files |-> "b" :> 1,
                      sims |-> TheirSims, there |-> TRUE]] :
        <<r, tr, n>> \in (OwnRings \X TheirRings \X {Notifications[1]})
                         \cup ({{}} \X {Ring("b", {"SIM1", "ESIM1"}, "customised")}
                               \X {Notifications[2], Notifications[3]}), b \in 0 .. 2}
(* No preset scan before the restore, and a video with or without room for it, with a contact. *)
Others ==
    {Job @@ [rows |-> own, files |-> Sizes(OwnTones \cup DOMAIN own),
             backup |-> [rows |-> Table(TheirTones \cup {"v", "c"}, Ring("v", {"SIM1"}, "customised")),
                         files |-> Sizes({"b", "v", "c"}), sims |-> TheirSims, there |-> TRUE]] :
        own \in {Table(OwnTones, Ring("p1", All, "preset")), Table(OwnTones \cup {"v"}, {})}}
    \cup {[Job EXCEPT !.completed = FALSE, !.factory = Table(OwnTones, Ring("p1", All, "preset"))]
            @@ [rows |-> own, files |-> Sizes(OwnTones \cup DOMAIN own),
                backup |-> [rows |-> Table(TheirTones, Ring("b", {"SIM2"}, "customised")), files |-> "b" :> 1,
                            sims |-> TheirSims, there |-> TRUE]] :
            own \in {<<>>, Table({"b", "p1"}, Ring("b", {"SIM1"}, "customised"))}}

SettingOf(kind, card, tone, null) ==
    [kind |-> kind, card |-> card, tone |-> tone, null |-> null, title |-> FALSE,
     vibrate |-> IF card = "SIM1" THEN "sync" ELSE "invalid"]
Duals ==
    {[Job EXCEPT !.scene = "dual", !.cards = cards, !.crashes = IF b = 0 THEN 1 ELSE 0, !.gallery = "v" :> 2,
        !.settings = <<SettingOf("ring", "SIM1", one, FALSE), SettingOf("ring", "SIM2", two, FALSE),
                       SettingOf("notification", "device", note, note = "n1")>>]
      @@ [rows |-> Table(OwnTones, r), files |-> WithB(Sizes(OwnTones), b),
          backup |-> [rows |-> <<>>, files |-> "docs/b" :> 1, sims |-> <<>>, there |-> TRUE]] :
        cards \in {{"SIM1"}, {"SIM1", "ESIM1"}, {"SIM2", "ESIM1"}},
        <<one, two, note>> \in {<<"b", "v", "n1">>, <<"p2", "b", "n2">>, <<"b", "b", "n2">>}, b \in {0, 2},
        r \in {Ring("p1", {"SIM1", "SIM2"}, "preset"),
               Ring("p1", {"SIM1"}, "preset") \cup Ring("p2", {"SIM2"}, "customised")}}

MCJobs == Clones \cup Others \cup Duals
=============================================================================
