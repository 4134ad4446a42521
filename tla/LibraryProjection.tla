-------------------------- MODULE LibraryProjection --------------------------
(***************************************************************************)
(* The Library as the pages read it (src/src/api.rs, src/src/db.rs): a     *)
(* document per release the user holds, a summary per artist and the       *)
(* relation between them, projected from the canonical rows.  Triggers on  *)
(* those rows (src/src/migration.rs) mark the releases to project again;   *)
(* one observer reads the marks, reads the rows, builds the documents and  *)
(* stores them, and only then removes the marks whose version is still the *)
(* one it read.  A change that touches no single release marks "*", and    *)
(* the whole Library is rebuilt.                                           *)
(*                                                                         *)
(* The version of a mark is only ever compared with the one the observer   *)
(* read, so the model keeps the set of marks that have moved on since.     *)
(***************************************************************************)
EXTENDS ReleaseIdentity

CONSTANTS
    Everything, \* the mark "*"
    Batch,      \* library_projection_dirty(250)
    MaxBefore   \* bound on the events before the last refresh or change starts

\* The mark of the whole Library is no release.
ASSUME MarkAssumption == Everything \notin Ids \cup {0}

VARIABLES
    held,       \* download_release_links.library_added_at is set
    present,    \* download_release_links.present
    admitted,   \* releases with library_admissions.admitted_at
    coverage,   \* single_album_coverages of the group
    preference, \* runtime_preferences
    dirty,      \* library_projection_dirty
    moved,      \* marks the observer has read whose version moved on since
    ready,      \* library_projection_state.ready
    docs,       \* library_release_projection
    summaries,  \* library_artist_projection
    relations,  \* library_artist_release_projection
    refresh,    \* the observer's refresh
    up          \* the process serves: the refresh at its start is over

libraryRows    == <<held, present, admitted, coverage, preference>>
marks          == <<dirty, moved>>
projection     == <<ready, docs, summaries, relations>>
projectionVars == <<libraryRows, marks, projection, refresh, up>>
vars           == <<identityVars, projectionVars>>

NoDoc == [meta |-> NoRelease, copies |-> {}, covered |-> <<>>]
NoRefresh == [at |-> "idle", full |-> FALSE, batch |-> {}, records |-> {}, built |-> [r \in Ids |-> NoDoc]]

-----------------------------------------------------------------------------
(* The triggers.  Each names the releases a statement marks, from the rows *)
(* before and after it.                                                    *)

Changed(v, w) == {g \in Groups : v[g] # w[g]}

LinkTrigger ==
    UNION {{link[g], link'[g]} :
              g \in Changed(link, link') \cup Changed(held, held') \cup Changed(present, present')}

AdmissionTrigger == (admitted \ admitted') \cup (admitted' \ admitted)

ReleaseTrigger == {r \in Ids : release[r] # release'[r]}

CreditTrigger == {c[1] : c \in (credit \ credit') \cup (credit' \ credit)}

TorrentTrigger == UNION {{torrent[g], torrent'[g]} : g \in Changed(torrent, torrent')}

SourceTrigger ==
    UNION {{source[g].release, source'[g].release} :
              g \in Changed(source, source') \cup (outdated \ outdated')}

\* A new or changed artist, or one of its sources, through its credits; a
\* deleted artist marks everything.
ArtistTrigger ==
    LET touched == {a \in Artists : a \in artist' \ artist}
            \cup UNION {{artistSource[g], artistSource'[g]} :
                          g \in Changed(artistSource, artistSource')}
    IN  {c[1] : c \in {d \in credit \cup credit' : d[2] \in touched}}
            \cup IF artist \ artist' # {} THEN {Everything} ELSE {}

CoverageTrigger == {source'[g].release : g \in Changed(coverage, coverage')}

\* Aliases and preferences belong to no release.
WholeTrigger == IF alias # alias' \/ preference # preference' THEN {Everything} ELSE {}

Marked == (LinkTrigger \cup AdmissionTrigger \cup ReleaseTrigger \cup CreditTrigger
            \cup TorrentTrigger \cup SourceTrigger \cup ArtistTrigger
            \cup CoverageTrigger \cup WholeTrigger) \ {0}

TriggersFire == /\ dirty' = dirty \cup Marked
                /\ moved' = moved \cup (Marked \cap refresh.batch)

-----------------------------------------------------------------------------
(* build_projected_library_releases.                                       *)

\* list_published_library_records: linked, held and admitted downloads.  The
\* exact torrent decides the release, the link only without one.
RecordsOf(rs) ==
    {[group |-> g, copy |-> present[g], key |-> IF torrent[g] # 0 THEN torrent[g] ELSE link[g]] :
        g \in {h \in Groups : link[h] \in rs \cap admitted /\ held[h]}}

\* One document per release, with its details, its copies and, for singles,
\* the coverage of the groups it is made of under the preferences (the code
\* looks up the one group its metadata names).
Built(records) ==
    [r \in Ids |->
        LET own == {c \in records : c.key = r} IN
        IF own = {} \/ ~Exists(r) THEN NoDoc
        ELSE [meta    |-> release[r],
              copies  |-> {<<c.group, c.copy>> : c \in own},
              covered |-> <<{p \in release[r].parts : coverage[p[1]]}, preference>>]]

Held(built) == {r \in Ids : built[r] # NoDoc}

\* library_projection_relations and build_artist_summaries.
RelationsOf(built) ==
    {p \in Artists \X Ids : p[2] \in Held(built) /\ p[1] \in built[p[2]].meta.artists}
SummaryOf(a, built) == {<<r, built[r]>> : r \in {q \in Held(built) : a \in built[q].meta.artists}}

Rebuild == Built(RecordsOf(Ids))

-----------------------------------------------------------------------------
(* refresh_library_projection and store_library_projection.                *)

\* The marks, at most Batch of them.
RefreshStart ==
    /\ refresh.at = "idle"
    /\ dirty # {} \/ ~ready
    /\ events <= MaxBefore
    /\ \E batch \in SUBSET dirty :
        /\ Cardinality(batch) = Min({Batch, Cardinality(dirty)})
        /\ refresh' = [NoRefresh EXCEPT !.at = "records", !.batch = batch,
                                        !.full = ~ready \/ Everything \in batch]
    /\ UNCHANGED <<marks, projection, up>>

NothingToDo ==
    /\ refresh.at = "idle"
    /\ dirty = {} /\ ready /\ ~up
    /\ up' = TRUE
    /\ UNCHANGED <<marks, projection, refresh>>

ReadRecords ==
    /\ refresh.at = "records"
    /\ refresh' = [refresh EXCEPT !.at = "details",
                      !.records = RecordsOf(IF refresh.full THEN Ids ELSE refresh.batch)]
    /\ UNCHANGED <<marks, projection, up>>

\* Details, preferences and coverage, three queries one after the other: whatever
\* changes between them marks its release anew.
ReadDetails ==
    /\ refresh.at = "details"
    /\ refresh' = [refresh EXCEPT !.at = "store", !.built = Built(refresh.records), !.records = {}]
    /\ UNCHANGED <<marks, projection, up>>

\* The artists a partial refresh touches, and their summaries over the
\* stored documents of their other releases.
Affected == {p[1] : p \in {q \in relations : q[2] \in refresh.batch}}
              \cup {p[1] : p \in RelationsOf(refresh.built)}
Together == [r \in Ids |-> IF refresh.built[r] # NoDoc THEN refresh.built[r]
                           ELSE IF r \in refresh.batch THEN NoDoc ELSE docs[r]]
Other(a) == {p[2] : p \in {q \in relations : q[1] = a}} \cup refresh.batch
              \cup Held(refresh.built)
Summed(a) == {s \in SummaryOf(a, Together) : s[1] \in UNION {Other(b) : b \in Affected}}

\* Mutant: the marks go whether or not their version moved on.
StoredMarksAnyway == refresh.batch

StoredMarks == refresh.batch \ moved

Stored ==
    IF refresh.full
    THEN /\ docs' = refresh.built
         /\ relations' = RelationsOf(refresh.built)
         /\ summaries' = [a \in Artists |-> SummaryOf(a, refresh.built)]
    ELSE /\ docs' = Together
         /\ relations' = {p \in relations : p[2] \notin refresh.batch}
                            \cup RelationsOf(refresh.built)
         /\ summaries' = [a \in Artists |-> IF a \in Affected THEN Summed(a) ELSE summaries[a]]

\* One transaction; a partial refresh that changes nothing stores nothing,
\* but its marks go.
Store ==
    /\ refresh.at = "store"
    /\ dirty' = dirty \ StoredMarks
    /\ moved' = {}
    /\ Stored
    /\ ready' = TRUE
    /\ refresh' = NoRefresh
    /\ up' = TRUE

RefreshStep == RefreshStart \/ NothingToDo \/ ReadRecords \/ ReadDetails \/ Store

\* A read or the write fails: the observer starts again.
RefreshFails ==
    /\ refresh.at # "idle" /\ up
    /\ Event
    /\ refresh' = NoRefresh /\ moved' = {}
    /\ UNCHANGED <<dirty, projection, up>>

-----------------------------------------------------------------------------
(* The other writers of the rows: the download observer, the admissions,   *)
(* the coverage jobs and the settings.                                     *)

Change(p) == events <= MaxBefore /\ Event /\ p

\* A download completes and stays in the Library; its copy may go or return.
Complete(g) == ~held[g] /\ held' = [held EXCEPT ![g] = TRUE]
                 /\ UNCHANGED <<present, admitted, coverage, preference>>
Copy(g)     == held[g] /\ present' = [present EXCEPT ![g] = ~@]
                 /\ UNCHANGED <<held, admitted, coverage, preference>>
Cover(g)    == source[g].release # 0 /\ coverage' = [coverage EXCEPT ![g] = ~@]
                 /\ UNCHANGED <<held, present, admitted, preference>>
Prefer      == preference' = ~preference
                 /\ UNCHANGED <<held, present, admitted, coverage>>

\* reconcile_library_admissions: a held release is admitted once its
\* metadata, artists and artwork are stored; the row goes with the holding.
HeldReleases == {link[g] : g \in {h \in Groups : held[h]}} \ {0}
Admit(r)     == /\ r \in HeldReleases \ admitted /\ Exists(r) /\ \E c \in credit : c[1] = r
                /\ admitted' = admitted \cup {r}
                /\ UNCHANGED <<held, present, coverage, preference, events>>
Retire(r)    == /\ r \in admitted \ HeldReleases
                /\ admitted' = admitted \ {r}
                /\ UNCHANGED <<held, present, coverage, preference, events>>

RowStep ==
    \/ \E g \in Groups : Change(Complete(g)) \/ Change(Copy(g)) \/ Change(Cover(g))
    \/ Change(Prefer)
    \/ \E r \in Ids : Admit(r) \/ Retire(r)

Restart ==
    /\ Event
    /\ job' = [w \in Writers |-> Idle]
    /\ UNCHANGED <<rows, decided, outdated, issued, born>>
    /\ refresh' = NoRefresh /\ moved' = {}
    /\ up' = FALSE
    /\ UNCHANGED <<libraryRows, dirty, projection>>

-----------------------------------------------------------------------------
\* The migration marks everything and no revision is ready.  Releases whose
\* download had completed before it are held and admitted.
Init ==
    /\ IdentityInit
    /\ \E done \in SUBSET {g \in Groups : link[g] # 0} :
          held = [g \in Groups |-> g \in done] /\ admitted = {link[g] : g \in done}
    /\ present = [g \in Groups |-> TRUE] /\ coverage = [g \in Groups |-> FALSE] /\ preference = FALSE
    /\ dirty = {Everything} /\ moved = {} /\ ready = FALSE
    /\ docs = [r \in Ids |-> NoDoc] /\ summaries = [a \in Artists |-> {}] /\ relations = {}
    /\ refresh = NoRefresh /\ up = FALSE

Next ==
    \/ /\ up /\ IdentityStep
       /\ UNCHANGED <<libraryRows, projection, refresh, up>>
       /\ TriggersFire
    \/ /\ up /\ RowStep
       /\ UNCHANGED <<identity, projection, refresh, up>>
       /\ TriggersFire
    \/ RefreshStep /\ UNCHANGED <<identityVars, libraryRows>>
    \/ RefreshFails
         /\ UNCHANGED <<identity, libraryRows>>
    \/ Restart

Spec == Init /\ [][Next]_vars

-----------------------------------------------------------------------------
(* Properties.                                                             *)

TypeOK ==
    /\ \A r \in Ids : /\ release[r].parts \subseteq Groups \X (Editions \cup {1})
                      /\ release[r].artists \subseteq Artists
    /\ source \in [Groups -> [release : Ids \cup {0}, edition : Editions \cup {0, 1},
                              credit : Artists \cup {0}]]
    /\ torrent \in [Groups -> Ids \cup {0}] /\ link \in [Groups -> Ids \cup {0}]
    /\ credit \subseteq Ids \X Artists /\ artist \subseteq Artists
    /\ alias \in [Ids -> Ids \cup {0}]
    /\ decided \in [Pairs -> {"none", "pending", "accepted", "rejected"}]
    /\ dirty \subseteq Ids \cup {Everything} /\ moved \subseteq refresh.batch /\ admitted \subseteq Ids
    /\ relations \subseteq Artists \X Ids

\* A release whose rows agree: its metadata was built from the sources it
\* has, and a download's link and torrent both name it or both do not.  An
\* operation between two statements, or one that was cut there, leaves
\* releases that do not.
Agree(r) ==
    /\ Exists(r) => {p[1] : p \in release[r].parts} = SourcesOf(r)
    /\ \A g \in Groups : torrent[g] # 0 /\ r \in {torrent[g], link[g]} => torrent[g] = link[g]

\* What is not marked is current: an unmarked release whose rows agree has
\* the document a rebuild of the whole Library would give it, and an artist
\* with only such releases their summary and relations.
UnmarkedIsCurrent ==
    ready /\ Everything \notin dirty =>
        LET now   == Rebuild
            of(a) == {r \in Ids : <<a, r>> \in relations \cup RelationsOf(now)}
            sure  == {r \in Ids \ dirty : Agree(r)}
        IN  /\ \A r \in sure : docs[r] = now[r]
            /\ \A a \in Artists : of(a) \subseteq sure =>
                  /\ summaries[a] = SummaryOf(a, now)
                  /\ \A r \in Ids : <<a, r>> \in relations <=> <<a, r>> \in RelationsOf(now)

\* A release id that was ever given out leads to a release: merges leave an
\* alias behind before the row goes, however they are interrupted.
IdsAreStable == \A r \in issued : Resolve(r) # 0 /\ Exists(Resolve(r))

\* No source, torrent, download or credit is left on a release that was
\* merged away.
MergedIsEmpty ==
    \A r \in Ids : alias[r] # 0 =>
        /\ \A g \in Groups : r \notin {source[g].release, torrent[g], link[g]}
        /\ \A c \in credit : c[1] # r

\* Rejected pairs stay rejected: but for the operator's own acceptance of the
\* pair, nothing begins to merge two releases that were rejected as a match or
\* taken apart.
RejectedStayApart ==
    [][\A w \in Writers :
         job[w] = Idle /\ job'[w].op = "merge" /\ job'[w].pair = {}
            => decided[{job'[w].id, job'[w].other}] # "rejected"]_vars

=============================================================================
