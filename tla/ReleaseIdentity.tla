--------------------------- MODULE ReleaseIdentity ---------------------------
(***************************************************************************)
(* Canonical releases and artists (src/src/db.rs).  Every tracker group    *)
(* the program meets is a source of one canonical release.  Storing a      *)
(* group finds or creates its release; a search, a reviewed match or the   *)
(* reconciliation after an upgrade merge two releases; the operator may    *)
(* take a source out of a release again.  Each of these is a sequence of   *)
(* statements without a transaction, and the process may end between any   *)
(* two actions.  An action is a statement, but for two: the artist of a    *)
(* stored group comes with its source and its credit, and several releases *)
(* whose metadata one operation rebuilds are rebuilt together.             *)
(*                                                                         *)
(* A group stands for one group of one tracker with one torrent, one       *)
(* download of it and one credited artist; all groups credit an artist of  *)
(* the same name.  Release and artist ids are numbers handed out in order  *)
(* (the code draws random UUIDs; where it prefers the smaller of two, the  *)
(* model takes either).  0 is a NULL or a missing row.                     *)
(***************************************************************************)
EXTENDS Naturals, FiniteSets, Sequences, FiniteSetsExt

CONSTANTS
    Groups,      \* tracker groups, each of another tracker
    Score,       \* Score[{g, h}]: what the matcher says of two groups
    Editions,    \* what a tracker may answer for a group; 1 is what it answered before
    Writers,     \* tasks and handlers that store, merge and unlink
    MaxIds,      \* bound on releases
    MaxArtists,  \* bound on artists
    MaxEvents    \* bound on operations, changes and faults together

Ids     == 1 .. MaxIds
Artists == 1 .. MaxArtists
Pairs   == {p \in SUBSET Ids : Cardinality(p) = 2}

ASSUME ScoreAssumption ==
    \A p \in {q \in SUBSET Groups : Cardinality(q) = 2} :
        Score[p] \in {"auto", "review", "none"}

VARIABLES
    release,      \* canonical_releases: what metadata_json was built from
    source,       \* release_sources: the group's release, edition and credit
    torrent,      \* canonical_torrents.release_id
    link,         \* download_release_links.release_id of the group's download
    credit,       \* canonical_release_credits
    artist,       \* canonical_artists
    artistSource, \* artist_sources.canonical_artist_id
    alias,        \* canonical_aliases of releases
    decided,      \* match_candidates: the status of a pair of releases
    outdated,     \* groups whose source has an older matcher version
    issued,       \* releases that have had a row
    born,         \* number of artists created so far
    job,          \* what each writer is doing
    events        \* counter of the bound

rows == <<release, source, torrent, link, credit, artist, artistSource, alias>>
identity == <<rows, decided, outdated, issued, born, job>>
identityVars == <<identity, events>>

-----------------------------------------------------------------------------
(* Rows.                                                                   *)

NoRelease == [parts |-> {}, artists |-> {}]
NoSource  == [release |-> 0, edition |-> 0, credit |-> 0]
Exists(r) == release[r] # NoRelease

SourcesOf(r) == {g \in Groups : source[g].release = r}

\* What rebuild_release_metadata makes of the sources of a release; without
\* sources, or without a row, it writes nothing.
Rebuilt(r, src) ==
    LET of == {g \in Groups : src[g].release = r}
    IN  [parts   |-> {<<g, src[g].edition>> : g \in of},
         artists |-> {src[g].credit : g \in of} \ {0}]

RebuildAll(rel, src, rs) ==
    [r \in Ids |->
        IF r \in rs /\ rel[r] # NoRelease /\ \E g \in Groups : src[g].release = r
        THEN Rebuilt(r, src) ELSE rel[r]]

\* resolve_alias looks for an alias eight times: it follows seven, and 0 stands for
\* its error.
Follow[n \in 0 .. 7, r \in Ids] ==
    IF alias[r] = 0 THEN r ELSE IF n = 0 THEN 0 ELSE Follow[n - 1, alias[r]]
Resolve(r) == Follow[7, r]

Fresh == Cardinality(issued) + 1

-----------------------------------------------------------------------------
(* find_release_identity_match: the best release among the sources of      *)
(* other trackers, unless its pair with the current release was rejected.  *)

ScoreOf(g, r) ==
    LET of == {Score[{g, h}] : h \in {k \in Groups \ {g} :
                                        source[k].release # 0 /\ Resolve(source[k].release) = r}}
    IN  IF "auto" \in of THEN "auto" ELSE IF "review" \in of THEN "review" ELSE "none"

Candidates(g, current) ==
    {r \in Ids : /\ ScoreOf(g, r) # "none"
                 /\ current # 0 /\ r # current => decided[{current, r}] # "rejected"}

\* The first of the ranking.  Two releases as good as each other have no
\* margin between them: the match is only reviewed.
Best(g, current) ==
    LET all  == Candidates(g, current)
        auto == {r \in all : ScoreOf(g, r) = "auto"}
    IN  IF auto # {} THEN auto ELSE all

AutoMerges(g, r, current) == ScoreOf(g, r) = "auto" /\ Best(g, current) = {r}

\* put_match_candidate: a rejected pair stays rejected.
Judged(p, status) == [decided EXCEPT ![p] = IF @ = "rejected" THEN @ ELSE status]

-----------------------------------------------------------------------------
Idle == [op |-> "idle", at |-> "", group |-> 0, id |-> 0, other |-> 0,
         edition |-> 0, known |-> FALSE, pair |-> {}]

Event == events < MaxEvents /\ events' = events + 1

Begin(w, j) == job[w] = Idle /\ Event /\ job' = [job EXCEPT ![w] = j]

At(w, op, at) == job[w].op = op /\ job[w].at = at
Go(w, at)     == job' = [job EXCEPT ![w].at = at] /\ UNCHANGED events
Done(w)       == job' = [job EXCEPT ![w] = Idle] /\ UNCHANGED events
Kept(v)       == UNCHANGED v

(* put_canonical, put_catalog_group and put_release_summary.               *)

\* ensure_release_identity reads the group's source and, for a new group,
\* the best match; a match to review gets a release of its own.
PutStart(w, g, e) ==
    \E id \in Ids, other \in Ids \cup {0} :
        /\ \/ source[g].release # 0 /\ id = source[g].release /\ other = 0
           \/ source[g].release = 0 /\ \E r \in Best(g, 0) :
                 \/ AutoMerges(g, r, 0) /\ id = r /\ other = 0
                 \/ ~AutoMerges(g, r, 0) /\ id = Fresh /\ other = r
           \/ source[g].release = 0 /\ Best(g, 0) = {} /\ id = Fresh /\ other = 0
        /\ Begin(w, [Idle EXCEPT !.op = "put", !.at = "row", !.group = g, !.id = id,
                                 !.other = other, !.edition = e,
                                 !.known = source[g].release # 0])
        /\ Kept(<<rows, decided, outdated, issued, born>>)

PutRow(w) ==
    LET j == job[w] IN
    /\ At(w, "put", "row")
    /\ release' = IF Exists(j.id) THEN release
                  ELSE [release EXCEPT ![j.id] =
                            [parts |-> {<<j.group, j.edition>>}, artists |-> {}]]
    /\ issued' = issued \cup {j.id}
    /\ Go(w, "source")
    /\ Kept(<<source, torrent, link, credit, artist, artistSource, alias,
              decided, outdated, born>>)

\* The source row, as the tracker describes it: without canonical credits;
\* and the pair to review.  Inserting a source another writer has inserted
\* fails, and the operation with it.
PutSource(w) ==
    LET j == job[w] IN
    /\ At(w, "put", "source")
    /\ j.known \/ source[j.group].release = 0
    /\ source' = [source EXCEPT ![j.group] = [release |-> j.id, edition |-> j.edition, credit |-> 0]]
    /\ decided' = IF j.other = 0 THEN decided ELSE Judged({j.id, j.other}, "pending")
    /\ Go(w, "artists")
    /\ Kept(<<release, torrent, link, credit, artist, artistSource, alias,
              outdated, issued, born>>)

PutCollides(w) ==
    /\ At(w, "put", "source")
    /\ ~job[w].known /\ source[job[w].group].release # 0
    /\ Done(w)
    /\ Kept(<<rows, decided, outdated, issued, born>>)

\* The artist of a credit: the known source's; else the artist of that name
\* another tracker already credits on this release; else a new one.
ArtistOf(g, r) ==
    LET named == {artistSource[h] : h \in Groups \ {g}} \ {0}
    IN  IF artistSource[g] # 0 THEN {artistSource[g]}
        ELSE IF \E a \in named : <<r, a>> \in credit
             THEN {a \in named : <<r, a>> \in credit}
             ELSE {born + 1}

PutArtists(w) ==
    LET j == job[w] IN
    /\ At(w, "put", "artists")
    /\ \E a \in ArtistOf(j.group, j.id) :
        /\ a \in Artists
        /\ artist' = artist \cup {a}
        /\ born' = IF a > born THEN a ELSE born
        /\ artistSource' = [artistSource EXCEPT ![j.group] = a]
        /\ credit' = credit \cup {<<j.id, a>>}
    /\ Go(w, "rebuild")
    /\ Kept(<<release, source, torrent, link, alias, decided, outdated, issued>>)

\* The source's JSON with the canonical credits, and the release's metadata.
PutRebuild(w) ==
    LET j == job[w] IN
    /\ At(w, "put", "rebuild")
    /\ source' = [source EXCEPT ![j.group].credit = artistSource[j.group]]
    /\ release' = RebuildAll(release, source', {j.id})
    /\ Go(w, "links")
    /\ Kept(<<torrent, link, credit, artist, artistSource, alias, decided,
              outdated, issued, born>>)

PutLinks(w) ==
    LET j == job[w] IN
    /\ At(w, "put", "links")
    /\ link' = [link EXCEPT ![j.group] = IF @ = 0 THEN @ ELSE j.id]
    /\ Go(w, "torrent")
    /\ Kept(<<release, source, torrent, credit, artist, artistSource, alias,
              decided, outdated, issued, born>>)

PutTorrent(w) ==
    LET j == job[w] IN
    /\ At(w, "put", "torrent")
    /\ torrent' = [torrent EXCEPT ![j.group] = j.id]
    /\ Go(w, "linked")
    /\ Kept(<<release, source, link, credit, artist, artistSource, alias,
              decided, outdated, issued, born>>)

\* set_linked, when the group was stored to resolve its download.
SetLinked(w) ==
    LET j == job[w] IN
    /\ At(w, "put", "linked")
    /\ link' = [link EXCEPT ![j.group] = source[j.group].release]
    /\ Done(w)
    /\ Kept(<<release, source, torrent, credit, artist, artistSource, alias,
              decided, outdated, issued, born>>)

\* A summary or a catalog group stops before the torrent or the link.
PutEnds(w) ==
    /\ At(w, "put", "torrent") \/ At(w, "put", "linked")
    /\ Done(w)
    /\ Kept(<<rows, decided, outdated, issued, born>>)

-----------------------------------------------------------------------------
(* merge_releases.                                                         *)

Merging(to, from) == [Idle EXCEPT !.op = "merge", !.at = "sources", !.id = to, !.other = from]

\* decide_match_candidate: the ids of the candidate, resolved, are merged,
\* or the pair is rejected.
AcceptMatch(w, p) ==
    /\ decided[p] # "none"
    /\ \E to \in p : LET from == CHOOSE r \in p \ {to} : TRUE IN
        /\ Resolve(to) # 0 /\ Resolve(from) # 0
        /\ \/ /\ Resolve(to) # Resolve(from)
              /\ Begin(w, [Merging(Resolve(to), Resolve(from)) EXCEPT !.pair = p])
              /\ Kept(<<decided>>)
           \/ /\ Resolve(to) = Resolve(from)
              /\ job[w] = Idle /\ Event /\ Kept(job)
              /\ decided' = [decided EXCEPT ![p] = "accepted"]
    /\ Kept(<<rows, outdated, issued, born>>)

RejectMatch(p) ==
    /\ decided[p] # "none"
    /\ Event
    /\ decided' = [decided EXCEPT ![p] = "rejected"]
    /\ Kept(<<rows, outdated, issued, born, job>>)

\* A search found two groups to be the same release (api.rs): their releases
\* are merged whatever was decided about them.
SearchMerges(w, g, h) ==
    LET to == source[g].release from == source[h].release IN
    /\ Score[{g, h}] = "auto"
    /\ to # 0 /\ from # 0 /\ to # from
    /\ Resolve(to) # 0 /\ Resolve(from) # 0 /\ Resolve(to) # Resolve(from)
    /\ Begin(w, Merging(Resolve(to), Resolve(from)))
    /\ Kept(<<rows, decided, outdated, issued, born>>)

\* One source of reconcile_canonical_release_identities.
Reconcile(w, g) ==
    LET current == Resolve(source[g].release) IN
    /\ g \in outdated /\ source[g].release # 0 /\ current # 0
    /\ \/ \E r \in Best(g, current) \ {current} :
            \/ /\ AutoMerges(g, r, current)
               /\ decided' = Judged({current, r}, "accepted")
               /\ Begin(w, [Merging(r, current) EXCEPT !.group = g, !.known = TRUE])
               /\ Kept(outdated)
            \/ /\ ~AutoMerges(g, r, current)
               /\ decided' = Judged({current, r}, "pending")
               /\ outdated' = outdated \ {g}
               /\ job[w] = Idle /\ Event /\ Kept(job)
       \/ /\ Best(g, current) = {} \/ current \in Best(g, current)
          /\ outdated' = outdated \ {g}
          /\ job[w] = Idle /\ Event /\ Kept(<<job, decided>>)
    /\ Kept(<<rows, issued, born>>)

\* One row after the other, and so the credits below.  The code lists the rows
\* first; what another writer adds meanwhile is left behind there and found here.
MergeSources(w) ==
    LET j == job[w] IN
    /\ At(w, "merge", "sources")
    /\ \/ /\ \E g \in SourcesOf(j.other) : source' = [source EXCEPT ![g].release = j.id]
          /\ Kept(<<job, events>>)
       \/ SourcesOf(j.other) = {} /\ Kept(source) /\ Go(w, "torrents")
    /\ Kept(<<release, torrent, link, credit, artist, artistSource, alias,
              decided, outdated, issued, born>>)

MergeTorrents(w) ==
    LET j == job[w] IN
    /\ At(w, "merge", "torrents")
    /\ torrent' = [g \in Groups |-> IF torrent[g] = j.other THEN j.id ELSE torrent[g]]
    /\ Go(w, "links")
    /\ Kept(<<release, source, link, credit, artist, artistSource, alias,
              decided, outdated, issued, born>>)

\* Mutant: the downloads keep the release that is merged away.
MergeLinksForgotten(w) ==
    /\ At(w, "merge", "links")
    /\ Go(w, "credits")
    /\ Kept(<<rows, decided, outdated, issued, born>>)

MergeLinks(w) ==
    LET j == job[w] IN
    /\ At(w, "merge", "links")
    /\ link' = [g \in Groups |-> IF link[g] = j.other THEN j.id ELSE link[g]]
    /\ Go(w, "credits")
    /\ Kept(<<release, source, torrent, credit, artist, artistSource, alias,
              decided, outdated, issued, born>>)

\* A credit of the release merged away: added to the other unless it is there, then
\* deleted.
MoveCredit(to, from) ==
    \E c \in credit :
        /\ c[1] = from
        /\ credit' = IF <<to, c[2]>> \in credit THEN credit \ {c} ELSE credit \cup {<<to, c[2]>>}
Credited(r) == \E c \in credit : c[1] = r

\* Mutant: the row is deleted with its credits, before the alias.
MergeCreditsDeletes(w) ==
    LET j == job[w] IN
    /\ At(w, "merge", "credits")
    /\ \/ MoveCredit(j.id, j.other) /\ Kept(<<release, job, events>>)
       \/ /\ ~Credited(j.other) /\ Kept(credit) /\ Go(w, "alias")
          /\ release' = [release EXCEPT ![j.other] = NoRelease]
    /\ Kept(<<source, torrent, link, artist, artistSource, alias,
              decided, outdated, issued, born>>)

MergeCredits(w) ==
    LET j == job[w] IN
    /\ At(w, "merge", "credits")
    /\ \/ MoveCredit(j.id, j.other) /\ Kept(<<job, events>>)
       \/ ~Credited(j.other) /\ Kept(credit) /\ Go(w, "alias")
    /\ Kept(<<release, source, torrent, link, artist, artistSource, alias,
              decided, outdated, issued, born>>)

\* put_alias keeps an alias that is already there.
MergeAlias(w) ==
    LET j == job[w] IN
    /\ At(w, "merge", "alias")
    /\ alias' = [alias EXCEPT ![j.other] = IF @ = 0 THEN j.id ELSE @]
    /\ Go(w, "delete")
    /\ Kept(<<release, source, torrent, link, credit, artist, artistSource,
              decided, outdated, issued, born>>)

MergeDelete(w) ==
    LET j == job[w] IN
    /\ At(w, "merge", "delete")
    /\ release' = [release EXCEPT ![j.other] = NoRelease]
    /\ Go(w, "rebuild")
    /\ Kept(<<source, torrent, link, credit, artist, artistSource, alias,
              decided, outdated, issued, born>>)

MergeRebuild(w) ==
    LET j == job[w] IN
    /\ At(w, "merge", "rebuild")
    /\ release' = RebuildAll(release, source, {j.id})
    /\ Go(w, "artists")
    /\ Kept(<<source, torrent, link, credit, artist, artistSource, alias,
              decided, outdated, issued, born>>)

\* reconcile_release_artist_identities: two trackers that credit the same
\* name on one release credit one artist.
SameArtists(r) ==
    {IF artistSource[g] # 0 THEN artistSource[g] ELSE source[g].credit : g \in SourcesOf(r)} \ {0}

\* merge_artists, one transaction: sources, credits, the credits in the
\* sources' JSON, the artist row.
MergeArtists(w) ==
    LET j    == job[w]
        same == SameArtists(j.id) \cap artist
    IN
    /\ At(w, "merge", "artists")
    /\ \/ /\ Cardinality(same) < 2
          /\ Go(w, "decide")
          /\ Kept(<<source, credit, artist, artistSource>>)
       \/ \E to \in same : \E from \in same \ {to} :
          /\ artistSource' = [g \in Groups |-> IF artistSource[g] = from THEN to ELSE artistSource[g]]
          /\ credit' = {IF c[2] = from THEN <<c[1], to>> ELSE c : c \in credit}
          /\ source' = [g \in Groups |->
                          IF source[g].credit = from /\ <<source[g].release, from>> \in credit
                          THEN [source[g] EXCEPT !.credit = to] ELSE source[g]]
          /\ artist' = artist \ {from}
          /\ Go(w, "credited")
    /\ Kept(<<release, torrent, link, alias, decided, outdated, issued, born>>)

\* The metadata of the releases that credited the artist merged away.
MergeCredited(w) ==
    /\ At(w, "merge", "credited")
    /\ release' = RebuildAll(release, source, {c[1] : c \in credit})
    /\ Go(w, "decide")
    /\ Kept(<<source, torrent, link, credit, artist, artistSource, alias,
              decided, outdated, issued, born>>)

MergeDecide(w) ==
    LET j == job[w] IN
    /\ At(w, "merge", "decide")
    /\ decided' = IF j.pair = {} THEN decided ELSE [decided EXCEPT ![j.pair] = "accepted"]
    /\ outdated' = IF j.known THEN outdated \ {j.group} ELSE outdated
    /\ Done(w)
    /\ Kept(<<rows, issued, born>>)

-----------------------------------------------------------------------------
(* unlink_release_source.                                                  *)

UnlinkStart(w, g) ==
    /\ source[g].release # 0
    /\ Cardinality(SourcesOf(source[g].release)) > 1
    /\ Fresh \in Ids
    /\ Begin(w, [Idle EXCEPT !.op = "unlink", !.at = "row", !.group = g,
                             !.id = Fresh, !.other = source[g].release])
    /\ Kept(<<rows, decided, outdated, issued, born>>)

UnlinkRow(w) ==
    LET j == job[w] IN
    /\ At(w, "unlink", "row")
    /\ release' = [release EXCEPT ![j.id] =
                      [parts   |-> {<<j.group, source[j.group].edition>>},
                       artists |-> {source[j.group].credit} \ {0}]]
    /\ issued' = issued \cup {j.id}
    /\ Go(w, "source")
    /\ Kept(<<source, torrent, link, credit, artist, artistSource, alias,
              decided, outdated, born>>)

UnlinkSource(w) ==
    LET j == job[w] IN
    /\ At(w, "unlink", "source")
    /\ source' = [source EXCEPT ![j.group].release = j.id]
    /\ Go(w, "torrents")
    /\ Kept(<<release, torrent, link, credit, artist, artistSource, alias,
              decided, outdated, issued, born>>)

UnlinkTorrents(w) ==
    LET j == job[w] IN
    /\ At(w, "unlink", "torrents")
    /\ torrent' = [torrent EXCEPT ![j.group] = IF @ = 0 THEN @ ELSE j.id]
    /\ Go(w, "links")
    /\ Kept(<<release, source, link, credit, artist, artistSource, alias,
              decided, outdated, issued, born>>)

UnlinkLinks(w) ==
    LET j == job[w] IN
    /\ At(w, "unlink", "links")
    /\ link' = [link EXCEPT ![j.group] = IF @ = 0 THEN @ ELSE j.id]
    /\ Go(w, "credits")
    /\ Kept(<<release, source, torrent, credit, artist, artistSource, alias,
              decided, outdated, issued, born>>)

\* The credits of the new release; the old release keeps its own.
UnlinkCredits(w) ==
    LET j == job[w] IN
    /\ At(w, "unlink", "credits")
    /\ credit' = credit \cup {<<j.id, a>> : a \in {source[j.group].credit} \ {0}}
    /\ Go(w, "rejected")
    /\ Kept(<<release, source, torrent, link, artist, artistSource, alias,
              decided, outdated, issued, born>>)

UnlinkRejected(w) ==
    LET j == job[w] IN
    /\ At(w, "unlink", "rejected")
    /\ decided' = [decided EXCEPT ![{j.id, j.other}] = "rejected"]
    /\ Go(w, "rebuild")
    /\ Kept(<<rows, outdated, issued, born>>)

UnlinkRebuild(w) ==
    LET j == job[w] IN
    /\ At(w, "unlink", "rebuild")
    /\ release' = RebuildAll(release, source, {j.id, j.other})
    /\ Done(w)
    /\ Kept(<<source, torrent, link, credit, artist, artistSource, alias,
              decided, outdated, issued, born>>)

-----------------------------------------------------------------------------
\* A statement fails, or the process ends: the rows stay as they are.
Cut(w) ==
    /\ job[w] # Idle /\ Event
    /\ job' = [job EXCEPT ![w] = Idle]
    /\ Kept(<<rows, decided, outdated, issued, born>>)

Put(w)    == PutRow(w) \/ PutSource(w) \/ PutCollides(w) \/ PutArtists(w) \/ PutRebuild(w) \/ PutLinks(w)
                \/ PutTorrent(w) \/ SetLinked(w) \/ PutEnds(w)
Merge(w)  == MergeSources(w) \/ MergeTorrents(w) \/ MergeLinks(w) \/ MergeCredits(w)
                \/ MergeAlias(w) \/ MergeDelete(w) \/ MergeRebuild(w) \/ MergeArtists(w)
                \/ MergeCredited(w) \/ MergeDecide(w)
Unlink(w) == UnlinkRow(w) \/ UnlinkSource(w) \/ UnlinkTorrents(w) \/ UnlinkLinks(w)
                \/ UnlinkCredits(w) \/ UnlinkRejected(w) \/ UnlinkRebuild(w)

Starts(w) == /\ job[w] = Idle /\ events < MaxEvents
             /\ \/ \E g \in Groups, e \in Editions : PutStart(w, g, e)
                \/ \E p \in Pairs : AcceptMatch(w, p)
                \/ \E g, h \in Groups : g # h /\ SearchMerges(w, g, h)
                \/ \E g \in Groups : Reconcile(w, g) \/ UnlinkStart(w, g)

IdentityStep == \/ \E w \in Writers : Starts(w) \/ Put(w) \/ Merge(w) \/ Unlink(w) \/ Cut(w)
                \/ \E p \in Pairs : RejectMatch(p)

-----------------------------------------------------------------------------
(* The states before: nothing is known, or an older matcher kept the       *)
(* groups apart, each stored, downloaded and credited, and an upgrade has  *)
(* marked their sources for reconciliation.                                *)

IdentityNew ==
    /\ release = [r \in Ids |-> NoRelease]
    /\ source = [g \in Groups |-> NoSource]
    /\ torrent = [g \in Groups |-> 0] /\ link = [g \in Groups |-> 0]
    /\ credit = {} /\ artist = {} /\ artistSource = [g \in Groups |-> 0]
    /\ outdated = {} /\ issued = {} /\ born = 0

IdentityOld ==
    LET n == Cardinality(Groups) IN
    \E number \in [Groups -> 1 .. n] :
        /\ \A g, h \in Groups : number[g] = number[h] => g = h
        /\ source = [g \in Groups |-> [release |-> number[g], edition |-> 1, credit |-> number[g]]]
        /\ release = [r \in Ids |->
                        IF r > n THEN NoRelease
                        ELSE LET g == CHOOSE h \in Groups : number[h] = r
                             IN  [parts |-> {<<g, 1>>}, artists |-> {r}]]
        /\ torrent = number /\ link = number
        /\ credit = {<<r, r>> : r \in 1 .. n} /\ artist = 1 .. n
        /\ artistSource = number
        /\ outdated = Groups /\ issued = 1 .. n /\ born = n

IdentityInit ==
    /\ IdentityNew \/ IdentityOld
    /\ alias = [r \in Ids |-> 0]
    /\ decided = [p \in Pairs |-> "none"]
    /\ job = [w \in Writers |-> Idle]
    /\ events = 0

=============================================================================
