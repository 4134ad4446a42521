---------------------------- MODULE PackPlanning ----------------------------
(***************************************************************************)
(* A pack from its settings to its selection: preferences are saved, the   *)
(* recommendations are resolved one by one, the items are fitted together, *)
(* and later the pack is shown with what has become of one of its items.   *)
(* Composes PackPlanner (what is downloaded) and Acquisition (what can     *)
(* still be done), whose definitions are pure; a step here is one request. *)
(***************************************************************************)
EXTENDS PackPlanner, FiniteSets

CONSTANTS
    Settings,         \* the preferences a request or the stored row may hold
    Profiles,         \* the configured download profiles and their clients
    Rooms,            \* what the clients may report as free space
    Recommendations,  \* what is recommended (see ResolveWith)
    Jobs,             \* states of a download job an item may have by then
    Imports,          \* states of the imports of its release
    Progresses,       \* what the client may say of its torrent: "none", "partial", "done"
    MaxItems          \* items of a pack

\* The records of the catalogue and of the settings (see PackPlanner); sizes,
\* ids and limits are natural numbers, and None is no plan.  What the code
\* itself writes is listed beside STRING, as the provers know of no literal
\* that it is a string.
Variant == [tracker : STRING, id : Nat, format : STRING, encoding : STRING, media : STRING,
            size : Nat, free : BOOLEAN, canToken : BOOLEAN, known : BOOLEAN,
            edition : SUBSET STRING, seeders : Nat]
Media == {"WEB", "CD", "SACD", "DVD", "Blu-ray", "Vinyl", "Cassette", "Other"}
Mode  == {"disabled", "freeleech_only", "freeleech_or_token", "any"}
Preferences(trackers) ==
    [tiers : Seq(SUBSET STRING), cutoff : Nat,
     mediaTiers : Seq(SUBSET (STRING \cup Media)), mediaCutoff : Nat,
     order : Seq(STRING), trackers : Seq(STRING),
     policies : [trackers -> [mode : Mode, autoTokens : BOOLEAN,
                              profile : {None} \cup STRING, limit : Nat]],
     legacyOrder : Seq(STRING), legacyMinimum : STRING \cup {""}]
Plan == [tracker : STRING, id : Nat, profile : DOMAIN Profiles, useToken : BOOLEAN,
         cost : Nat, size : Nat]

ASSUME PlanningAssumption ==
    /\ \A given \in Settings : given \in Preferences(DOMAIN given.policies)
    /\ \A r \in Recommendations : r.variants \in Seq(Variant)
    /\ \A free \in Rooms : free \in [DOMAIN free -> Nat]
    /\ None \notin Plan

VARIABLES
    settings,  \* the preferences as they were given
    prefs,     \* the preferences as they are used
    room,      \* free space when the pack is fitted
    items,     \* the items of the pack
    shown,     \* the item that is looked at, or None
    stage      \* "given", "refused", "resolving", "fitted" or "shown"

plans == <<settings, prefs, room, items, shown, stage>>

Acq == INSTANCE Acquisition

----------------------------------------------------------------------------
(* update_preferences                                                      *)

Qualities == {"hi_res", "lossless", "320", "v0", "other"}
Criteria  == {"quality", "tracker", "media", "edition"}

\* Mutant: the tiers are migrated, the number of admitted ones is not.
MigrateTiersOnly(p) ==
    IF p.legacyOrder = <<>> THEN p
    ELSE [p EXCEPT !.tiers = [i \in DOMAIN p.legacyOrder |-> {p.legacyOrder[i]}],
                   !.legacyOrder = <<>>]

\* Settings from before tiers: one quality per tier, down to the lowest one
\* that was admitted.
MigrateLegacy(p) ==
    LET was     == p.legacyOrder # <<>>
        lowest  == Position({i \in DOMAIN p.legacyOrder : p.legacyOrder[i] = p.legacyMinimum}, 2)
        quality == IF ~was THEN p
                   ELSE [p EXCEPT !.tiers = [i \in DOMAIN p.legacyOrder |-> {p.legacyOrder[i]}],
                                  !.cutoff = lowest, !.legacyOrder = <<>>, !.legacyMinimum = ""]
    IN  CASE p.mediaTiers = LegacyMedia ->
                [quality EXCEPT !.mediaTiers = DefaultMedia, !.mediaCutoff = 2]
          [] p.mediaTiers # LegacyMedia /\ was ->
                [quality EXCEPT !.mediaCutoff = Len(p.mediaTiers)]
          [] OTHER -> quality

Partition(tiers, all) ==
    /\ tiers # <<>>
    /\ \A i \in DOMAIN tiers : tiers[i] # {}
    /\ \A i, j \in DOMAIN tiers : i # j => tiers[i] \cap tiers[j] = {}
    /\ UNION {tiers[i] : i \in DOMAIN tiers} \subseteq all

ValidPreferences(p) ==
    /\ Partition(p.tiers, Qualities)
    /\ UNION {p.tiers[i] : i \in DOMAIN p.tiers} = Qualities
    /\ p.cutoff <= Len(p.tiers)
    /\ Partition(p.mediaTiers, Media)
    /\ p.mediaCutoff <= Len(p.mediaTiers)
    /\ Len(p.order) = Cardinality(Criteria) /\ ToSet(p.order) = Criteria
    /\ Cardinality(ToSet(p.trackers)) = Len(p.trackers)
    /\ \A t \in DOMAIN p.policies :
          /\ t \in ToSet(p.trackers)
          /\ p.policies[t].limit <= 100
          /\ p.policies[t].profile \in DOMAIN Profiles \cup {None}

Save ==
    /\ stage = "given"
    /\ LET migrated == MigrateLegacy(settings) IN
          IF ValidPreferences(migrated)
          THEN prefs' = migrated /\ stage' = "resolving"
          ELSE prefs' = prefs /\ stage' = "refused"
    /\ UNCHANGED <<settings, room, items, shown>>

----------------------------------------------------------------------------
(* refresh_channel, replan_items and attach_channel_pack_item              *)

Unlimited == 1000  \* u32::MAX: no item costs that much

\* One recommendation with its release, in the order of the pack.
Resolve(r) ==
    /\ stage = "resolving" /\ Len(items) < MaxItems
    /\ LET result == ResolveRelease(r, prefs, Profiles, Unlimited) IN
          items' = Append(items, [release |-> r.release, requested |-> r.requested,
                                  variants |-> result.variants, aim |-> result.aim,
                                  replacement |-> result.aim # None,
                                  state |-> result.planned.state, plan |-> result.planned.plan])
    /\ UNCHANGED <<settings, prefs, room, shown, stage>>

Fit ==
    /\ stage = "resolving" /\ items # <<>>
    /\ items' = ApplyPackConstraints(items, prefs, Profiles, room)
    /\ stage' = "fitted"
    /\ UNCHANGED <<settings, prefs, room, shown>>

----------------------------------------------------------------------------
(* channel_pack: the last item, with the job, the imports and the          *)
(* downloads that are known by the time it is shown.                       *)

LiveDownload(progress) ==
    IF progress = "none" THEN {}
    ELSE {[id |-> progress, done |-> progress = "done",
           state |-> IF progress = "done" THEN "complete" ELSE "downloading"]}

\* The torrents whose job and download are looked up for an item.
TorrentsOf(item) ==
    IF item.aim # None THEN {item.aim.variant}
    ELSE {<<v.tracker, v.id>> : v \in ToSet(item.variants)}

\* The item as project_pack_fulfillment hands it on, one of its torrents having
\* come as far as the job and the client say.
Hydrated(item, torrent, job, progress) ==
    [matched |-> TRUE, released |-> TRUE, planState |-> item.state, plan |-> item.plan,
     job |-> IF job = "none" THEN None ELSE [state |-> job, variant |-> torrent],
     replacement |-> IF item.aim = None THEN None
                     ELSE [variant |-> torrent, complete |-> item.aim.complete,
                           downloads |-> {[live |-> d, inLibrary |-> FALSE] :
                                           d \in LiveDownload(progress)}],
     variants |-> {[key |-> <<v.tracker, v.id>>, inLibrary |-> FALSE,
                    eligible |-> Eligibility(v, prefs).eligible,
                    downloads |-> IF <<v.tracker, v.id>> = torrent
                                  THEN LiveDownload(progress) ELSE {}] :
                     v \in ToSet(item.variants)},
     downloads |-> {}]

Show(item, torrent, job, imports, progress) ==
    /\ stage = "fitted"
    /\ shown' = [item |-> item, job |-> job, states |-> imports, progress |-> progress,
                 status |-> Acq!Project(Hydrated(item, torrent, job, progress), imports, <<>>)]
    /\ stage' = "shown"
    /\ UNCHANGED <<settings, prefs, room, items>>

----------------------------------------------------------------------------
PlansInit ==
    /\ settings \in Settings /\ prefs = settings
    /\ room \in Rooms
    /\ items = <<>> /\ shown = None /\ stage = "given"

PlansNext ==
    \/ Save
    \/ \E r \in Recommendations : Resolve(r)
    \/ Fit
    \/ items # <<>> /\ \E job \in Jobs, imports \in Imports, progress \in Progresses :
          \E torrent \in TorrentsOf(Last(items)) :
             Show(Last(items), torrent, job, imports, progress)

PlansSpec == PlansInit /\ [][PlansNext]_plans

----------------------------------------------------------------------------
(* Properties                                                              *)

Executable == {i \in DOMAIN items : items[i].state = "executable"}
Fitted     == stage \in {"fitted", "shown"}

\* What the plans of the pack ask of a client altogether.
Asked(list, client) ==
    LET asked[n \in 0..Len(list)] ==
            CASE n = 0 -> 0
              [] n > 0 /\ list[n].state = "executable"
                 /\ Profiles[list[n].plan.profile] = client -> asked[n - 1] + list[n].plan.size
              [] OTHER -> asked[n - 1]
    IN  asked[Len(list)]

\* The plans of one pack never ask for more space than a client reported, even
\* when items were planned again (README: "excludes items that would exceed
\* the download client's currently reported free space").
SpaceFits ==
    Fitted => \A client \in DOMAIN room : Asked(items, client) <= room[client]

\* A pack never downloads one release twice or one torrent twice, however its
\* items were planned again.
NothingTwice ==
    Fitted => \A i, j \in Executable : i # j =>
        /\ items[i].release # items[j].release
        /\ \/ items[i].plan.tracker # items[j].plan.tracker
           \/ items[i].plan.id # items[j].plan.id

\* The qualities that the given settings admit, said without ranks: of old
\* settings, those down to the minimum, or the first two when it is not there.
Admitted ==
    LET order == settings.legacyOrder
        Down(i) == IF settings.legacyMinimum \in ToSet(order)
                   THEN \E j \in i..Len(order) : order[j] = settings.legacyMinimum ELSE i <= 2
    IN  IF order # <<>> THEN {order[i] : i \in {i \in DOMAIN order : Down(i)}}
        ELSE UNION {settings.tiers[i] : i \in {i \in DOMAIN settings.tiers : i <= settings.cutoff}}

\* What is planned is a torrent of the item's release, of a quality the
\* settings admit as they were given, on a tracker whose mode does not disable
\* it; and unless that mode is "any", which admits a torrent that is not free
\* with or without a token, it is free or is to spend the token its tracker
\* lets be spent.  This holds from the recommendation to the last round of
\* fitting.
PlansAreAllowed ==
    Fitted => \A i \in Executable :
        \E v \in ToSet(items[i].variants) :
            LET plan == items[i].plan
                policy == Policy(v.tracker, settings) IN
            /\ plan.tracker = v.tracker /\ plan.id = v.id /\ plan.size = v.size
            /\ QualityClass(v) \in Admitted
            /\ policy.mode # "disabled"
            /\ \/ v.free
               \/ policy.mode = "any"
               \/ plan.useToken /\ policy.autoTokens /\ plan.cost = TokenCost(v)

\* Work on its way is not selected a second time: an item that replaces nothing
\* is not offered while a job for one of its torrents is queued, active or
\* complete, while the client shows one of them unfinished, or while an import
\* of its release is ready, downloading or complete, whatever the other two say
\* (AcquisitionSignals::phase puts each of these before a failure).  A torrent
\* the client has finished, of which neither a job nor an import is left, is
\* offered again.
NotSelectedTwice ==
    stage = "shown" /\ shown.status.selectable /\ shown.item.aim = None =>
        /\ shown.job \notin {"queued", "active", "complete"}
        /\ shown.progress # "partial"
        /\ shown.states \cap {"ready", "downloading", "complete"} = {}
=============================================================================
