------------------------- MODULE PlanningCatalogue -------------------------
(***************************************************************************)
(* A small catalogue for TLC: two trackers, one client with little room,   *)
(* releases in a free, a token and a low quality, one that has been        *)
(* trumped, and settings old and new.                                      *)
(***************************************************************************)
EXTENDS PackPlanner, TLC

V(tracker, id, encoding, size, free) ==
    [tracker |-> tracker, id |-> id, format |-> "flac", encoding |-> encoding, media |-> "WEB",
     size |-> size, free |-> free, canToken |-> TRUE, known |-> TRUE,
     edition |-> {}, seeders |-> id % 2]
Mp3(v) == [v EXCEPT !.format = "mp3"]

R(release, variants) ==
    [release |-> release, origin |-> None, requested |-> None, variants |-> variants,
     owned |-> FALSE, downloading |-> FALSE, targets |-> [id \in 1..9 |-> "missing"]]

r1 == V("red", 1, "lossless", 2, FALSE)
o2 == V("ops", 2, "lossless", 2, FALSE)
o8 == V("ops", 8, "lossless", 2, FALSE)
r9 == V("red", 9, "lossless", 2, FALSE)
r3 == V("red", 3, "24bit", 3, FALSE)
o4 == Mp3(V("ops", 4, "320", 1, TRUE))
o5 == [V("ops", 5, "lossless", 3, TRUE) EXCEPT !.edition = {"deluxe"}]
o6 == [V("ops", 6, "lossless", 0, FALSE) EXCEPT !.media = "Vinyl"]

SomeRecommendations ==
    {R("either", <<o8, r9>>), R("red", <<r1, o4>>), R("hires", <<r3, o5>>),
     R("double", <<r9>>), [R("again", <<o2, o6>>) EXCEPT !.requested = "deluxe"],
     R("low", <<Mp3(V("red", 7, "v0", 1, TRUE))>>),
     [R("either", <<o5>>) EXCEPT !.owned = TRUE],
     [R("coming", <<o5>>) EXCEPT !.downloading = TRUE],
     [R("trumped", <<o2, r1>>) EXCEPT !.origin = "red"],
     [R("trumped", <<o5, r3>>) EXCEPT !.origin = "ops",
                                     !.targets = [id \in 1..9 |-> "complete"]]}

Tracker(mode, auto, limit) ==
    [mode |-> mode, autoTokens |-> auto, profile |-> "music", limit |-> limit]

Tiers == [tiers |-> <<{"hi_res", "lossless"}, {"320", "v0"}, {"other"}>>, cutoff |-> 1,
          mediaTiers |-> DefaultMedia, mediaCutoff |-> 2,
          order |-> <<"quality", "tracker", "media", "edition">>, trackers |-> <<"red", "ops">>,
          policies |-> "red" :> Tracker("freeleech_or_token", TRUE, 1)
                       @@ "ops" :> Tracker("freeleech_or_token", TRUE, 1),
          legacyOrder |-> <<>>, legacyMinimum |-> ""]

SomeSettings ==
    {Tiers,
     [Tiers EXCEPT !.policies["ops"] = Tracker("freeleech_or_token", TRUE, 3), !.cutoff = 2,
                   !.trackers = <<"ops", "red">>],
     [Tiers EXCEPT !.policies["red"] = Tracker("any", FALSE, 1),
                   !.policies["ops"].profile = None],
     [Tiers EXCEPT !.tiers = <<>>, !.cutoff = 2, !.mediaTiers = LegacyMedia,
                   !.legacyOrder = <<"lossless", "320", "hi_res", "v0", "other">>,
                   !.legacyMinimum = "lossless", !.order = <<"edition", "tracker", "media", "quality">>],
     [Tiers EXCEPT !.tiers = <<{"lossless"}, {"lossless", "320"}>>]}

SomeProfiles == "music" :> "box"
SomeRooms    == {[c \in {"box"} |-> 6], [c \in {} |-> 0]}
SomeImports  == {{}, {"ready"}, {"downloading"}, {"complete"}, {"failed", "downloading"}}
=============================================================================
