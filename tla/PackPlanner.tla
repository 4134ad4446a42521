----------------------------- MODULE PackPlanner -----------------------------
(***************************************************************************)
(* What a pack downloads (src/src/channel.rs, src/src/model.rs): which     *)
(* torrent of a release the preferences allow and prefer, and how the      *)
(* items of one pack share tokens and disk space.  Pure functions, called  *)
(* by every refresh, replan and attach.                                    *)
(*                                                                         *)
(*   preferences [tiers, cutoff, mediaTiers, mediaCutoff, order, trackers, *)
(*                policies], tiers being sequences of sets and policies a  *)
(*                function on some trackers to                             *)
(*                [mode, autoTokens, profile, limit];                      *)
(*   variant     [tracker, id, format, encoding, media, size, free,        *)
(*                canToken, known, edition, seeders], edition being the    *)
(*                set of labels its title contains;                        *)
(*   profiles    a function from the configured profiles to their client;  *)
(*   plan        [tracker, id, profile, useToken, cost, size] or None.     *)
(* Sizes count units of 320 MiB, and a size of 0 is an unknown one.        *)
(***************************************************************************)
EXTENDS Integers, Sequences, SequencesExt

CONSTANT None  \* absent: a plan, a job, a replacement, a profile, a cost

\* The media tiers before and after they were reordered.
LegacyMedia  == <<{"WEB", "CD"}, {"Vinyl"}, {"SACD", "DVD", "Blu-ray"}, {"Cassette"}, {"Other"}>>
DefaultMedia == <<{"WEB", "CD"}, {"SACD", "DVD", "Blu-ray"}, {"Vinyl"}, {"Cassette"}, {"Other"}>>

\* The first of the positions that were found, or else a fallback.
Position(found, fallback) ==
    IF found = {} THEN fallback ELSE CHOOSE i \in found : \A j \in found : i <= j

----------------------------------------------------------------------------
(* ReleasePreferences (model.rs).                                          *)

QualityClass(v) ==
    CASE v.encoding = "24bit" -> "hi_res"
      [] v.encoding = "lossless" \/ (v.encoding # "24bit" /\ v.format = "flac") -> "lossless"
      [] v.format # "flac" /\ v.encoding \in {"320", "v0"} -> v.encoding
      [] OTHER -> "other"

QualityRank(v, prefs) ==
    Position({i \in DOMAIN prefs.tiers : QualityClass(v) \in prefs.tiers[i]},
             Len(prefs.tiers) + 1)

\* A medium no tier names counts as "Other".
MediaRank(v, prefs) ==
    LET Tiers(media) == {i \in DOMAIN prefs.mediaTiers : media \in prefs.mediaTiers[i]}
    IN  Position(Tiers(v.media), Position(Tiers("Other"), Len(prefs.mediaTiers) + 1))

Policy(tracker, prefs) ==
    IF tracker \in DOMAIN prefs.policies THEN prefs.policies[tracker]
    ELSE [mode |-> "freeleech_only", autoTokens |-> FALSE, profile |-> None, limit |-> 1]

\* The tokens one torrent costs, or None when that is not known.
TokenCost(v) ==
    CASE v.tracker = "red" -> 1
      [] v.tracker = "ops" /\ v.size > 0 -> v.size
      [] OTHER -> None

Eligible(v, mode, canToken, cost, wanted, token) ==
    [eligible |-> /\ wanted /\ mode # "disabled"
                  /\ mode = "freeleech_only" => v.free
                  /\ token => canToken /\ cost # None,
     requiresToken |-> token,
     cost |-> IF cost = None THEN 0 ELSE cost]

Wanted(v, prefs) ==
    QualityRank(v, prefs) <= prefs.cutoff /\ MediaRank(v, prefs) <= prefs.mediaCutoff

Eligibility(v, prefs) ==
    LET mode     == Policy(v.tracker, prefs).mode
        canToken == v.canToken \/ ~v.known
        cost     == IF v.free THEN 0 ELSE IF canToken THEN TokenCost(v) ELSE None
    IN  Eligible(v, mode, canToken, cost, Wanted(v, prefs),
                 mode = "freeleech_or_token" /\ ~v.free /\ Wanted(v, prefs))

----------------------------------------------------------------------------
(* The order of the variants of a release (channel.rs).                    *)

TrackerRank(v, prefs) ==
    Position({i \in DOMAIN prefs.trackers : prefs.trackers[i] = v.tracker},
             Len(prefs.trackers) + 1)

Enhanced == {"super deluxe", "deluxe", "expanded", "extended", "anniversary", "bonus track"}

\* requested: the first enhanced label of the recommendation's title, or None.
EditionRank(v, requested) ==
    CASE requested \in v.edition -> 0
      [] requested \notin v.edition /\ v.edition \cap Enhanced # {} ->
            IF requested = None THEN 0 ELSE 1
      [] v.edition \cap Enhanced = {} /\ v.edition # {} -> 3
      [] OTHER -> IF requested = None THEN 1 ELSE 2

Ranks(v, prefs, requested) ==
    [i \in DOMAIN prefs.order |->
        CASE prefs.order[i] = "quality" -> QualityRank(v, prefs)
          [] prefs.order[i] = "tracker" -> TrackerRank(v, prefs)
          [] prefs.order[i] = "media"   -> MediaRank(v, prefs)
          [] OTHER                      -> EditionRank(v, requested)]
    \o <<-v.seeders, v.id>>

CompareVariants(l, r) == \E i \in DOMAIN l : l[i] < r[i] /\ \A j \in 1..(i - 1) : l[j] = r[j]

FirstOf(candidates, ranks) ==
    CHOOSE i \in candidates : \A j \in candidates \ {i} :
        \/ CompareVariants(ranks[i], ranks[j])
        \/ i < j /\ ~CompareVariants(ranks[j], ranks[i])

\* The first of the candidates in that order; among equal ones the first listed.
First(candidates, variants, prefs, requested) ==
    FirstOf(candidates, [i \in candidates |-> Ranks(variants[i], prefs, requested)])

----------------------------------------------------------------------------
(* Plans.  A result is [state, plan].                                      *)

Blocked(state) == [state |-> state, plan |-> None]

PlanOf(v, policy, eligibility, profiles) ==
    IF policy.profile \notin DOMAIN profiles THEN Blocked("no_profile")
    ELSE [state |-> "executable",
          plan  |-> [tracker |-> v.tracker, id |-> v.id, profile |-> policy.profile,
                     useToken |-> eligibility.requiresToken,
                     cost |-> IF eligibility.requiresToken THEN eligibility.cost ELSE 0,
                     size |-> v.size]]

Planned(v, prefs, profiles) ==
    PlanOf(v, Policy(v.tracker, prefs), Eligibility(v, prefs), profiles)

Allowed(eligibility, policy, budget) ==
    /\ eligibility.eligible
    /\ eligibility.requiresToken => policy.autoTokens /\ eligibility.cost <= budget

\* The first of the candidates, or None.
Preferred(candidates, variants, prefs, requested) ==
    IF candidates = {} THEN None ELSE variants[First(candidates, variants, prefs, requested)]

PlanVariant(variants, prefs, profiles, budget, requested) ==
    LET Plan(v)    == IF v = None THEN Blocked("policy_blocked") ELSE Planned(v, prefs, profiles)
        candidates == {i \in DOMAIN variants : LET v == variants[i] IN
                         Allowed(Eligibility(v, prefs), Policy(v.tracker, prefs), budget)}
    IN  Plan(Preferred(candidates, variants, prefs, requested))

PreferredEligibleVariant(variants, prefs, requested) ==
    Preferred({i \in DOMAIN variants : Eligibility(variants[i], prefs).eligible},
              variants, prefs, requested)

PlanExactVariant(v, prefs, profiles) ==
    IF Eligibility(v, prefs).requiresToken /\ ~Policy(v.tracker, prefs).autoTokens
    THEN Blocked("policy_blocked") ELSE Planned(v, prefs, profiles)

\* The variants of one tracker, in their order.
OfTracker(variants, tracker) ==
    LET kept[n \in 0..Len(variants)] ==
            CASE n = 0 -> <<>>
              [] n > 0 /\ variants[n].tracker = tracker -> Append(kept[n - 1], variants[n])
              [] OTHER -> kept[n - 1]
    IN  kept[Len(variants)]

\* resolve_release_with_index: a trumped download is replaced by one variant of
\* its own tracker, anything else is planned unless it is there or on its way.
\* A recommendation r is a record [release, origin, requested, variants, owned,
\* downloading, targets], targets[id] being what the client says of a torrent.
ResolveWith(r, own, preferred, prefs, profiles, budget) ==
    [planned |->
        CASE r.origin # None ->
                (CASE preferred = None -> Blocked("policy_blocked")
                   [] preferred # None /\ r.targets[preferred.id] = "complete" ->
                        Blocked("cleanup_ready")
                   [] preferred # None /\ r.targets[preferred.id] = "downloading" ->
                        Blocked("already_downloading")
                   [] OTHER -> PlanExactVariant(preferred, prefs, profiles))
          [] r.origin = None /\ r.owned -> Blocked("already_owned")
          [] r.origin = None /\ ~r.owned /\ r.downloading -> Blocked("already_downloading")
          [] OTHER -> PlanVariant(r.variants, prefs, profiles, budget, r.requested),
     aim |-> IF r.origin = None \/ preferred = None THEN None
             ELSE [variant  |-> <<preferred.tracker, preferred.id>>,
                   complete |-> r.targets[preferred.id] = "complete"],
     variants |-> IF r.origin = None THEN r.variants ELSE own]

ResolveRelease(r, prefs, profiles, budget) ==
    LET own == OfTracker(r.variants, r.origin)
    IN  ResolveWith(r, own, PreferredEligibleVariant(own, prefs, r.requested),
                    prefs, profiles, budget)

----------------------------------------------------------------------------
(* apply_pack_constraints: the items of a pack in order, each                *)
(* [release, variants, requested, replacement, state, plan].                 *)

Used(function, key) == IF key \in DOMAIN function THEN function[key] ELSE 0
Increased(function, key, n) ==
    [k \in DOMAIN function \cup {key} |-> Used(function, k) + IF k = key THEN n ELSE 0]

Exceeds(used, cost, limit) == used + cost > limit

\* An item that does not fit is planned again with what is left of the tokens
\* of the tracker it was planned on.
Within(item, limit, used, prefs, profiles) ==
    LET Again(fit) == IF fit.plan = None THEN Blocked("token_budget_exceeded") ELSE fit
    IN  CASE ~item.plan.useToken \/ ~Exceeds(used, item.plan.cost, limit) ->
                [state |-> item.state, plan |-> item.plan]
          [] item.replacement /\ item.plan.useToken /\ Exceeds(used, item.plan.cost, limit) ->
                Blocked("token_budget_exceeded")
          [] OTHER -> Again(PlanVariant(item.variants, prefs, profiles,
                                        IF used > limit THEN 0 ELSE limit - used, item.requested))

WithinTokens(item, tokens, prefs, profiles) ==
    Within(item, Policy(item.plan.tracker, prefs).limit, Used(tokens, item.plan.tracker),
           prefs, profiles)

\* Mutant: the torrent that was planned first is the one that is remembered.
TorrentFirstPlanned(item, plan) == <<item.plan.tracker, item.plan.id, item.plan.profile>>

Torrent(item, plan) == <<plan.tracker, plan.id, plan.profile>>

\* Mutant: every item sees all of the space.
ReserveNothing(space, client, size) == space

Reserve(space, client, size) == Increased(space, client, -size)

\* room: the free space of the clients that report it.
Placed(acc, item, fit, plan, profiles) ==
    LET torrent == Torrent(item, plan)
        client  == profiles[plan.profile]
        put(state, chosen) == Append(acc.items, [item EXCEPT !.state = state, !.plan = chosen])
        seen    == [acc EXCEPT !.releases = @ \cup {item.release}]
        counted == client \in DOMAIN acc.room /\ plan.size > 0
    IN  CASE plan = None -> [seen EXCEPT !.items = put(fit.state, None)]
          [] plan # None /\ torrent \in acc.torrents ->
               [seen EXCEPT !.items = put("duplicate", None)]
          [] plan # None /\ torrent \notin acc.torrents /\ plan.profile \notin DOMAIN profiles ->
               [seen EXCEPT !.items = put("no_profile", None), !.torrents = @ \cup {torrent}]
          [] plan # None /\ torrent \notin acc.torrents /\ plan.profile \in DOMAIN profiles
               /\ counted /\ plan.size > Used(acc.room, client) ->
               [seen EXCEPT !.items = put("capacity_blocked", None),
                            !.torrents = @ \cup {torrent}]
          [] OTHER ->
               [seen EXCEPT !.items = put(fit.state, plan),
                            !.torrents = @ \cup {torrent},
                            !.room = IF counted THEN Reserve(@, client, plan.size) ELSE @,
                            !.tokens = IF plan.useToken
                                       THEN Increased(@, plan.tracker, plan.cost) ELSE @]

Constrain(acc, item, prefs, profiles) ==
    LET Place(fit) == Placed(acc, item, fit, fit.plan, profiles)
    IN  CASE item.state # "executable" -> [acc EXCEPT !.items = Append(@, item)]
          [] item.state = "executable" /\ item.release \in acc.releases ->
               [acc EXCEPT !.items = Append(@, [item EXCEPT !.state = "duplicate", !.plan = None])]
          [] OTHER -> Place(WithinTokens(item, acc.tokens, prefs, profiles))

\* The loop over the items, by the number of its turns.
ApplyPackConstraints(items, prefs, profiles, room) ==
    LET fitted[n \in 0..Len(items)] ==
            IF n = 0
            THEN [items |-> <<>>, releases |-> {}, torrents |-> {}, tokens |-> <<>>, room |-> room]
            ELSE Constrain(fitted[n - 1], items[n], prefs, profiles)
    IN  fitted[Len(items)].items
=============================================================================
