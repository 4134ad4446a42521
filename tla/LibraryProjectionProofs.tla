----------------------- MODULE LibraryProjectionProofs -----------------------
(***************************************************************************)
(* Theorems about LibraryProjection, for every set of groups and writers   *)
(* and every bound: what is not marked is current.                         *)
(***************************************************************************)
EXTENDS LibraryProjection, TLAPS

(***************************************************************************)
(* What the prover must know of the variables: an operation has a release  *)
(* to work on, and the observer that is idle has read nothing.             *)
(***************************************************************************)
Fields == {"op", "at", "group", "id", "other", "edition", "known", "pair"}

JobsOK ==
    /\ DOMAIN torrent = Groups /\ DOMAIN job = Writers
    /\ \A w \in Writers : DOMAIN job[w] = Fields /\ (job[w].op # "idle" => job[w].id # 0)

RefreshOK ==
    /\ DOMAIN refresh = {"at", "full", "batch", "records", "built"}
    /\ refresh.at = "idle" => refresh.batch = {}
    /\ refresh.at # "idle" /\ ~refresh.full => ready /\ Everything \notin refresh.batch

(***************************************************************************)
(* What the observer has read is what it would read now, of a release that *)
(* is not marked or whose mark has not moved on since the observer read    *)
(* it, and whose rows agree.                                               *)
(***************************************************************************)
Quiet(mark) == mark \notin dirty \/ mark \in refresh.batch \ moved
Sure(r)     == Quiet(r) /\ Agree(r)

Scope == IF refresh.full THEN Ids ELSE refresh.batch

\* The records and the document of a release whose rows agree.
Sheet(r) == {[group |-> g, copy |-> present[g], key |-> r] :
                g \in {h \in Groups : link[h] = r /\ held[h] /\ r \in admitted}}
Document(r) ==
    IF Sheet(r) = {} \/ ~Exists(r) THEN NoDoc
    ELSE [meta    |-> release[r],
          copies  |-> {<<c.group, c.copy>> : c \in Sheet(r)},
          covered |-> <<{p \in release[r].parts : coverage[p[1]]}, preference>>]

RecordsAreCurrent ==
    refresh.at = "details" => \A r \in Ids : Sure(r) =>
        {c \in refresh.records : c.key = r} = IF r \in Scope THEN Sheet(r) ELSE {}
BuiltIsCurrent ==
    refresh.at = "store" /\ Quiet(Everything) => \A r \in Ids : Sure(r) =>
        refresh.built[r] = IF r \in Scope THEN Document(r) ELSE NoDoc

(***************************************************************************)
(* What is stored.  A relation that is out of date hangs on a release that *)
(* is marked or whose rows do not agree, so that an artist without such a  *)
(* release has the summary of the stored documents.                        *)
(***************************************************************************)
Settled == ready /\ Everything \notin dirty

DocsAreCurrent ==
    Settled => \A r \in Ids : r \notin dirty /\ Agree(r) =>
        /\ docs[r] = Document(r)
        /\ \A a \in Artists : <<a, r>> \in relations <=> <<a, r>> \in RelationsOf(docs)
RelationsCover == RelationsOf(docs) \subseteq relations
SummariesFollow ==
    Settled => \A a \in Artists :
        (\A r \in Ids : <<a, r>> \in relations => r \notin dirty /\ Agree(r))
            => summaries[a] = SummaryOf(a, docs)

ProjectionInv ==
    /\ JobsOK /\ RefreshOK
    /\ RecordsAreCurrent /\ BuiltIsCurrent
    /\ DocsAreCurrent /\ RelationsCover /\ SummariesFollow
-----------------------------------------------------------------------------
(***************************************************************************)
(* What Init and the steps of ReleaseIdentity leave to the projection.     *)
(***************************************************************************)
LEMMA ShapeInit == Init => JobsOK /\ RefreshOK
<1> SUFFICES ASSUME Init PROVE JobsOK /\ RefreshOK
  OBVIOUS
<1>1. DOMAIN torrent = Groups
  BY DEF Init, IdentityInit, IdentityNew, IdentityOld
<1>2. job = [w \in Writers |-> Idle]
  BY DEF Init, IdentityInit
<1>3. JobsOK
  BY <1>1, <1>2 DEF JobsOK, Idle, Fields
<1> QED
  BY <1>3 DEF Init, RefreshOK, NoRefresh

\* A torrent that is known of a group stays with some release.
TorrentsStay == \A g \in Groups : torrent[g] # 0 => torrent'[g] # 0

LEMMA Beginning ==
    ASSUME JobsOK, NEW w \in Writers, NEW j, Begin(w, j), DOMAIN j = Fields, j.id # 0,
           UNCHANGED torrent
    PROVE  JobsOK' /\ TorrentsStay
BY DEF JobsOK, Begin, TorrentsStay

LEMMA Going ==
    ASSUME JobsOK, NEW w \in Writers, (\E at : Go(w, at)) \/ Done(w), DOMAIN torrent' = Groups
    PROVE  JobsOK'
<1>1. ASSUME NEW at, Go(w, at)
      PROVE  JobsOK'
  <2>1. DOMAIN job' = Writers
    BY <1>1 DEF Go, JobsOK
  <2>2. ASSUME NEW v \in Writers
        PROVE  DOMAIN job'[v] = Fields /\ job'[v].op = job[v].op /\ job'[v].id = job[v].id
    BY <1>1, <2>2 DEF Go, JobsOK, Fields
  <2> QED
    BY <2>1, <2>2 DEF JobsOK
<1>2. CASE Done(w)
  BY <1>2 DEF Done, JobsOK, Idle, Fields
<1> QED
  BY <1>1, <1>2

LEMMA Starting ==
    ASSUME JobsOK, NEW w \in Writers, Starts(w)
    PROVE  JobsOK' /\ TorrentsStay
<1>1. ASSUME NEW g \in Groups, NEW e \in Editions, PutStart(w, g, e)
      PROVE  JobsOK' /\ TorrentsStay
  <2>1. PICK id \in Ids, other \in Ids \cup {0} :
           /\ Begin(w, [Idle EXCEPT !.op = "put", !.at = "row", !.group = g, !.id = id,
                                    !.other = other, !.edition = e,
                                    !.known = source[g].release # 0])
           /\ UNCHANGED torrent
    BY <1>1 DEF PutStart, Kept, rows
  <2> QED
    <3> DEFINE j == [Idle EXCEPT !.op = "put", !.at = "row", !.group = g, !.id = id,
                                 !.other = other, !.edition = e,
                                 !.known = source[g].release # 0]
    <3>1. DOMAIN j = Fields /\ j.id = id
      BY DEF Idle, Fields
    <3>2. id # 0
      BY DEF Ids
    <3> HIDE DEF j
    <3>3. Begin(w, j) /\ j.id # 0
      BY <2>1, <3>1, <3>2 DEF j
    <3> QED
      BY <2>1, <3>1, <3>3, Beginning
<1>2. ASSUME NEW to, NEW from, NEW pair, to # 0, UNCHANGED torrent,
             Begin(w, [Merging(to, from) EXCEPT !.pair = pair])
      PROVE  JobsOK' /\ TorrentsStay
  BY <1>2, Beginning DEF Merging, Idle, Fields
<1>3. ASSUME NEW to, NEW from, NEW g, to # 0, UNCHANGED torrent,
             Begin(w, [Merging(to, from) EXCEPT !.group = g, !.known = TRUE])
      PROVE  JobsOK' /\ TorrentsStay
  BY <1>3, Beginning DEF Merging, Idle, Fields
<1>4. ASSUME NEW to, NEW from, to # 0, UNCHANGED torrent, Begin(w, Merging(to, from))
      PROVE  JobsOK' /\ TorrentsStay
  BY <1>4, Beginning DEF Merging, Idle, Fields
<1>5. ASSUME UNCHANGED <<job, torrent>>
      PROVE  JobsOK' /\ TorrentsStay
  BY <1>5 DEF JobsOK, TorrentsStay
<1>6. ASSUME NEW p \in Pairs, AcceptMatch(w, p)
      PROVE  JobsOK' /\ TorrentsStay
  BY <1>6, <1>2, <1>5 DEF AcceptMatch, Kept, rows
<1>7. ASSUME NEW g \in Groups, NEW h \in Groups, SearchMerges(w, g, h)
      PROVE  JobsOK' /\ TorrentsStay
  BY <1>7, <1>4 DEF SearchMerges, Kept, rows
<1>8. ASSUME NEW g \in Groups, Reconcile(w, g)
      PROVE  JobsOK' /\ TorrentsStay
  <2>1. \A r \in Best(g, Resolve(source[g].release)) : r # 0
    BY DEF Best, Candidates, Ids
  <2> QED
    BY <1>8, <2>1, <1>3, <1>5 DEF Reconcile, Kept, rows
<1>9. ASSUME NEW g \in Groups, UnlinkStart(w, g)
      PROVE  JobsOK' /\ TorrentsStay
  <2>1. /\ Begin(w, [Idle EXCEPT !.op = "unlink", !.at = "row", !.group = g,
                                 !.id = Fresh, !.other = source[g].release])
        /\ Fresh # 0 /\ UNCHANGED torrent
    BY <1>9 DEF UnlinkStart, Kept, rows, Ids
  <2> QED
    BY <2>1, Beginning DEF Idle, Fields
<1> QED
  BY <1>1, <1>6, <1>7, <1>8, <1>9 DEF Starts

LEMMA Operating ==
    ASSUME JobsOK, NEW w \in Writers, Put(w) \/ Merge(w) \/ Unlink(w) \/ Cut(w)
    PROVE  JobsOK' /\ TorrentsStay
<1>1. ASSUME (\E at : Go(w, at)) \/ Done(w), UNCHANGED torrent
      PROVE  JobsOK' /\ TorrentsStay
  BY <1>1, Going DEF TorrentsStay, JobsOK
<1>2. CASE PutTorrent(w)
  <2>1. torrent' = [torrent EXCEPT ![job[w].group] = job[w].id] /\ job[w].id # 0
    BY <1>2 DEF PutTorrent, At, JobsOK
  <2>2. \E at : Go(w, at)
    BY <1>2 DEF PutTorrent
  <2> QED
    BY <2>1, <2>2, Going DEF TorrentsStay, JobsOK
<1>3. CASE MergeTorrents(w)
  <2>1. /\ torrent' = [g \in Groups |-> IF torrent[g] = job[w].other THEN job[w].id ELSE torrent[g]]
        /\ job[w].id # 0
    BY <1>3 DEF MergeTorrents, At, JobsOK
  <2>2. \E at : Go(w, at)
    BY <1>3 DEF MergeTorrents
  <2> QED
    BY <2>1, <2>2, Going DEF TorrentsStay, JobsOK
<1>4. CASE UnlinkTorrents(w)
  <2>1. /\ torrent' = [torrent EXCEPT ![job[w].group] = IF @ = 0 THEN @ ELSE job[w].id]
        /\ job[w].id # 0
    BY <1>4 DEF UnlinkTorrents, At, JobsOK
  <2>2. \E at : Go(w, at)
    BY <1>4 DEF UnlinkTorrents
  <2> QED
    BY <2>1, <2>2, Going DEF TorrentsStay, JobsOK
<1>5. CASE PutRow(w) \/ PutSource(w) \/ PutCollides(w) \/ PutArtists(w) \/ PutRebuild(w)
             \/ PutLinks(w) \/ SetLinked(w) \/ PutEnds(w)
  BY <1>1, <1>5 DEF PutRow, PutSource, PutCollides, PutArtists, PutRebuild, PutLinks,
     SetLinked, PutEnds, Kept, rows
<1>6. CASE MergeLinks(w) \/ MergeAlias(w) \/ MergeDelete(w)
             \/ MergeRebuild(w) \/ MergeCredited(w) \/ MergeDecide(w)
  BY <1>1, <1>6 DEF MergeLinks, MergeAlias, MergeDelete, MergeRebuild, MergeCredited,
     MergeDecide, Kept, rows
<1>10. CASE MergeSources(w) \/ MergeCredits(w)
  <2>1. UNCHANGED torrent /\ (UNCHANGED job \/ \E at : Go(w, at))
    BY <1>10 DEF MergeSources, MergeCredits, Kept
  <2>2. ASSUME UNCHANGED <<job, torrent>>
        PROVE  JobsOK' /\ TorrentsStay
    BY <2>2 DEF JobsOK, TorrentsStay
  <2> QED
    BY <1>1, <2>1, <2>2
<1>7. CASE MergeArtists(w)
  <2>1. (\E at : Go(w, at)) /\ UNCHANGED torrent
    BY <1>7 DEF MergeArtists, Kept
  <2> QED
    BY <1>1, <2>1
<1>8. CASE UnlinkRow(w) \/ UnlinkSource(w) \/ UnlinkLinks(w) \/ UnlinkCredits(w)
             \/ UnlinkRejected(w) \/ UnlinkRebuild(w)
  BY <1>1, <1>8 DEF UnlinkRow, UnlinkSource, UnlinkLinks, UnlinkCredits, UnlinkRejected,
     UnlinkRebuild, Kept, rows
<1>9. CASE Cut(w)
  BY <1>9 DEF Cut, Kept, rows, JobsOK, TorrentsStay, Idle, Fields
<1> QED
  BY <1>2, <1>3, <1>4, <1>5, <1>6, <1>7, <1>8, <1>9, <1>10 DEF Put, Merge, Unlink

LEMMA IdentityShape == JobsOK /\ IdentityStep => JobsOK' /\ TorrentsStay
<1>1. ASSUME JobsOK, NEW p \in Pairs, RejectMatch(p)
      PROVE  JobsOK' /\ TorrentsStay
  BY <1>1 DEF RejectMatch, Kept, rows, JobsOK, TorrentsStay
<1> QED
  BY <1>1, Starting, Operating DEF IdentityStep
-----------------------------------------------------------------------------
(***************************************************************************)
(* The triggers: what a step that leaves a release unmarked has left alone.*)
(***************************************************************************)
Unmarked(r) ==
    /\ release'[r] = release[r] /\ (r \in admitted' <=> r \in admitted)
    /\ \A g \in Groups :
          /\ link'[g] # link[g] => r \notin {link[g], link'[g]}
          /\ held'[g] # held[g] \/ present'[g] # present[g] => r # link[g]
          /\ torrent'[g] # torrent[g] => r \notin {torrent[g], torrent'[g]}
          /\ source'[g] # source[g] => r \notin {source[g].release, source'[g].release}
          /\ coverage'[g] # coverage[g] => r # source'[g].release

LEMMA TriggersMark ==
    ASSUME NEW r \in Ids, r \notin Marked
    PROVE  Unmarked(r)
<1>1. r # 0
  BY DEF Ids
<1>2. release'[r] = release[r]
  BY <1>1 DEF Marked, ReleaseTrigger
<1>3. r \in admitted' <=> r \in admitted
  BY <1>1 DEF Marked, AdmissionTrigger
<1>4. ASSUME NEW g \in Groups
      PROVE  /\ link'[g] # link[g] => r \notin {link[g], link'[g]}
             /\ held'[g] # held[g] \/ present'[g] # present[g] => r # link[g]
  BY <1>1 DEF Marked, LinkTrigger, Changed
<1>5. ASSUME NEW g \in Groups
      PROVE  torrent'[g] # torrent[g] => r \notin {torrent[g], torrent'[g]}
  BY <1>1 DEF Marked, TorrentTrigger, Changed
<1>6. ASSUME NEW g \in Groups
      PROVE  source'[g] # source[g] => r \notin {source[g].release, source'[g].release}
  BY <1>1 DEF Marked, SourceTrigger, Changed
<1>7. ASSUME NEW g \in Groups
      PROVE  coverage'[g] # coverage[g] => r # source'[g].release
  BY <1>1 DEF Marked, CoverageTrigger, Changed
<1> QED
  BY <1>2, <1>3, <1>4, <1>5, <1>6, <1>7 DEF Unmarked

\* A release that is sure after a step was so before it, and has the same rows.
LEMMA SureBefore ==
    ASSUME TriggersFire, TorrentsStay, UNCHANGED refresh, NEW r \in Ids, Sure(r)'
    PROVE  /\ r \notin Marked /\ Sure(r)
           /\ Sheet(r)' = Sheet(r) /\ release'[r] = release[r]
           /\ preference' = preference => Document(r)' = Document(r)
<1>1. r \notin Marked /\ Quiet(r)
  BY DEF TriggersFire, Sure, Quiet
<1>2. Unmarked(r) /\ r # 0
  BY <1>1, TriggersMark DEF Ids
<1>3. SourcesOf(r)' = SourcesOf(r)
  BY <1>2 DEF Unmarked, SourcesOf
<1>4. Exists(r)' = Exists(r)
  BY <1>2 DEF Unmarked, Exists
<1>5. Agree(r)
  <2>1. Exists(r) => {p[1] : p \in release[r].parts} = SourcesOf(r)
    BY <1>2, <1>3, <1>4 DEF Sure, Agree, Unmarked
  <2>2. ASSUME NEW g \in Groups, torrent[g] # 0, r \in {torrent[g], link[g]}
        PROVE  torrent[g] = link[g]
    <3>1. torrent'[g] # 0 /\ r \in {torrent'[g], link'[g]}
      BY <1>2, <2>2 DEF TorrentsStay, Unmarked
    <3>2. torrent'[g] = link'[g]
      BY <3>1 DEF Sure, Agree
    <3> QED
      BY <1>2, <3>1, <3>2 DEF Unmarked
  <2> QED
    BY <2>1, <2>2 DEF Agree
<1>6. Sheet(r)' = Sheet(r)
  <2>1. ASSUME NEW g \in Groups
        PROVE  /\ link'[g] = r /\ held'[g] /\ r \in admitted' <=> link[g] = r /\ held[g] /\ r \in admitted
               /\ link[g] = r => present'[g] = present[g]
    BY <1>2 DEF Unmarked
  <2> QED
    BY <2>1 DEF Sheet
<1>7. ASSUME preference' = preference
      PROVE  Document(r)' = Document(r)
  <2>1. CASE ~Exists(r)
    BY <2>1, <1>4 DEF Document
  <2>2. CASE Exists(r)
    <3>1. ASSUME NEW p \in release[r].parts
          PROVE  coverage'[p[1]] = coverage[p[1]]
      BY <1>2, <1>3, <1>4, <2>2 DEF Sure, Agree, SourcesOf, Unmarked
    <3>2. {p \in release'[r].parts : coverage'[p[1]]} = {p \in release[r].parts : coverage[p[1]]}
      BY <1>2, <3>1 DEF Unmarked
    <3> QED
      BY <1>2, <1>4, <1>6, <1>7, <3>2 DEF Document, Unmarked
  <2> QED
    BY <2>1, <2>2
<1> QED
  BY <1>1, <1>2, <1>5, <1>6, <1>7 DEF Sure, Unmarked

\* A step that does not mark everything keeps the preferences.
LEMMA Whole ==
    ASSUME Everything \notin Marked
    PROVE  preference' = preference
BY MarkAssumption DEF Marked, WholeTrigger

LEMMA RowsChange ==
    ASSUME ProjectionInv, TriggersFire, TorrentsStay, JobsOK',
           UNCHANGED <<projection, refresh>>
    PROVE  ProjectionInv'
<1> USE DEF ProjectionInv
<1>1. dirty \subseteq dirty' /\ Marked \subseteq dirty' /\ UNCHANGED <<refresh, ready, docs, summaries, relations>>
  BY DEF TriggersFire, projection
<1>2. RefreshOK'
  BY <1>1 DEF RefreshOK
<1>3. Scope' = Scope
  BY <1>1 DEF Scope
<1>4. RecordsAreCurrent'
  BY <1>1, <1>3, SureBefore DEF RecordsAreCurrent
<1>5. BuiltIsCurrent'
  <2> SUFFICES ASSUME refresh'.at = "store", Quiet(Everything)', NEW r \in Ids, Sure(r)'
               PROVE  refresh'.built[r] = IF r \in Scope' THEN Document(r)' ELSE NoDoc
    BY DEF BuiltIsCurrent
  <2>1. Quiet(Everything) /\ Everything \notin Marked
    BY <1>1 DEF TriggersFire, Quiet
  <2>2. Sure(r) /\ Document(r)' = Document(r)
    BY <1>1, <2>1, SureBefore, Whole
  <2> QED
    BY <1>1, <1>3, <2>1, <2>2 DEF BuiltIsCurrent
<1>6. ASSUME Settled'
      PROVE  /\ Settled /\ preference' = preference
             /\ \A r \in Ids : r \notin dirty' /\ Agree(r)' =>
                   r \notin dirty /\ Agree(r) /\ Document(r)' = Document(r)
  <2>1. Settled /\ Everything \notin Marked
    BY <1>1, <1>6 DEF Settled
  <2>2. ASSUME NEW r \in Ids, r \notin dirty', Agree(r)'
        PROVE  r \notin dirty /\ Agree(r) /\ Document(r)' = Document(r)
    <3>1. Sure(r)'
      BY <2>2 DEF Sure, Quiet
    <3> QED
      BY <1>1, <2>1, <2>2, <3>1, SureBefore, Whole DEF Sure
  <2> QED
    BY <2>1, <2>2, Whole
<1>7. DocsAreCurrent'
  BY <1>1, <1>6 DEF DocsAreCurrent, RelationsOf, Held
<1>8. RelationsCover'
  BY <1>1 DEF RelationsCover, RelationsOf, Held
<1>9. SummariesFollow'
  BY <1>1, <1>6 DEF SummariesFollow, SummaryOf, Held
<1> QED
  BY <1>2, <1>4, <1>5, <1>7, <1>8, <1>9
-----------------------------------------------------------------------------
(***************************************************************************)
(* The observer.                                                           *)
(***************************************************************************)
\* Where the rows of a release agree, its records are its sheet, and the
\* document of a rebuild is made of them.
LEMMA Recorded ==
    ASSUME NEW r \in Ids, Agree(r), NEW rs
    PROVE  {c \in RecordsOf(rs) : c.key = r} = IF r \in rs THEN Sheet(r) ELSE {}
<1> DEFINE Key(g) == IF torrent[g] # 0 THEN torrent[g] ELSE link[g]
           Entry(g) == [group |-> g, copy |-> present[g], key |-> Key(g)]
<1>1. RecordsOf(rs) = {Entry(g) : g \in {h \in Groups : link[h] \in rs \cap admitted /\ held[h]}}
  BY DEF RecordsOf
<1>2. ASSUME NEW g \in Groups
      PROVE  Key(g) = r <=> link[g] = r
  <2>1. r # 0
    BY DEF Ids
  <2> QED
    BY <2>1 DEF Agree
<1>3. ASSUME NEW g \in Groups
      PROVE  Entry(g).key = Key(g)
             /\ (Key(g) = r => Entry(g) = [group |-> g, copy |-> present[g], key |-> r])
  OBVIOUS
<1> HIDE DEF Entry, Key
<1>4. {c \in RecordsOf(rs) : c.key = r}
        = {Entry(g) : g \in {h \in Groups : link[h] = r /\ r \in rs \cap admitted /\ held[h]}}
  BY <1>1, <1>2, <1>3
<1>5. CASE r \notin rs
  BY <1>4, <1>5
<1>6. CASE r \in rs
  BY <1>2, <1>3, <1>4, <1>6 DEF Sheet
<1> QED
  BY <1>5, <1>6

LEMMA Documented ==
    ASSUME NEW r \in Ids, NEW records, NEW here \in BOOLEAN,
           {c \in records : c.key = r} = IF here THEN Sheet(r) ELSE {}
    PROVE  Built(records)[r] = IF here THEN Document(r) ELSE NoDoc
BY DEF Built, Document

LEMMA Rebuilding ==
    ASSUME NEW r \in Ids, Agree(r)
    PROVE  Rebuild[r] = Document(r)
<1>1. {c \in RecordsOf(Ids) : c.key = r} = IF TRUE THEN Sheet(r) ELSE {}
  BY Recorded
<1> QED
  BY <1>1, Documented DEF Rebuild

\* A step that neither changes rows nor removes marks, until the document is
\* stored.
LEMMA Reading ==
    ASSUME ProjectionInv, UNCHANGED <<identityVars, libraryRows, projection, dirty>>
    PROVE  /\ JobsOK' /\ DocsAreCurrent' /\ RelationsCover' /\ SummariesFollow'
           /\ \A r : Agree(r)' = Agree(r) /\ Sheet(r)' = Sheet(r) /\ Document(r)' = Document(r)
<1>1. UNCHANGED <<release, source, torrent, link, job, held, present, admitted, coverage,
                  preference, dirty, ready, docs, summaries, relations>>
  BY DEF identityVars, identity, rows, libraryRows, projection
<1>2. JobsOK'
  BY <1>1 DEF ProjectionInv, JobsOK
<1>3. \A r : Agree(r)' = Agree(r)
  BY <1>1 DEF Agree, Exists, SourcesOf
<1>4. \A r : Sheet(r)' = Sheet(r)
  BY <1>1 DEF Sheet
<1>5. \A r : Document(r)' = Document(r)
  BY <1>1, <1>4 DEF Document, Exists
<1>6. RelationsOf(docs)' = RelationsOf(docs) /\ \A a : SummaryOf(a, docs)' = SummaryOf(a, docs)
  BY <1>1 DEF RelationsOf, SummaryOf, Held
<1>7. Settled' = Settled
  BY <1>1 DEF Settled
<1> QED
  BY <1>1, <1>2, <1>3, <1>4, <1>5, <1>6, <1>7
     DEF ProjectionInv, DocsAreCurrent, RelationsCover, SummariesFollow

LEMMA ObserverReads ==
    ASSUME ProjectionInv, UNCHANGED <<identityVars, libraryRows>>,
           RefreshStart \/ NothingToDo \/ ReadRecords \/ ReadDetails
    PROVE  ProjectionInv'
<1> USE DEF ProjectionInv
<1>1. UNCHANGED <<projection, marks>>
  BY DEF RefreshStart, NothingToDo, ReadRecords, ReadDetails
<1>2. UNCHANGED <<dirty, moved, ready>>
  BY <1>1 DEF projection, marks
<1>3. /\ JobsOK' /\ DocsAreCurrent' /\ RelationsCover' /\ SummariesFollow'
      /\ \A r : Agree(r)' = Agree(r) /\ Sheet(r)' = Sheet(r) /\ Document(r)' = Document(r)
  BY <1>1, <1>2, Reading
<1>4. CASE RefreshStart
  <2>1. PICK batch \in SUBSET dirty :
           refresh' = [NoRefresh EXCEPT !.at = "records", !.batch = batch,
                                        !.full = ~ready \/ Everything \in batch]
    BY <1>4 DEF RefreshStart
  <2>2. RefreshOK' /\ refresh'.at = "records"
    BY <1>2, <2>1 DEF RefreshOK, NoRefresh
  <2> QED
    BY <1>3, <2>2 DEF RecordsAreCurrent, BuiltIsCurrent
<1>5. CASE NothingToDo
  <2>1. refresh' = refresh /\ refresh.at = "idle"
    BY <1>5 DEF NothingToDo
  <2> QED
    BY <1>2, <1>3, <2>1 DEF RefreshOK, RecordsAreCurrent, BuiltIsCurrent
<1>6. CASE ReadRecords
  <2>1. refresh' = [refresh EXCEPT !.at = "details", !.records = RecordsOf(Scope)]
    BY <1>6 DEF ReadRecords, Scope
  <2>2. /\ refresh'.at = "details" /\ refresh'.records = RecordsOf(Scope)
        /\ refresh'.full = refresh.full /\ refresh'.batch = refresh.batch
        /\ DOMAIN refresh' = DOMAIN refresh
    BY <2>1 DEF RefreshOK
  <2>3. RefreshOK' /\ Scope' = Scope
    BY <1>2, <1>6, <2>2 DEF RefreshOK, Scope, ReadRecords
  <2>4. RecordsAreCurrent'
    BY <1>3, <2>2, <2>3, Recorded DEF RecordsAreCurrent, Sure
  <2> QED
    BY <1>3, <2>2, <2>3, <2>4 DEF BuiltIsCurrent
<1>7. CASE ReadDetails
  <2>1. /\ refresh'.at = "store" /\ refresh'.built = Built(refresh.records)
        /\ refresh'.full = refresh.full /\ refresh'.batch = refresh.batch
        /\ DOMAIN refresh' = DOMAIN refresh /\ refresh.at = "details"
    BY <1>7 DEF ReadDetails, RefreshOK
  <2>2. RefreshOK' /\ Scope' = Scope /\ \A m : Quiet(m)' = Quiet(m)
    BY <1>2, <2>1 DEF RefreshOK, Scope, Quiet
  <2>3. BuiltIsCurrent'
    <3> SUFFICES ASSUME NEW r \in Ids, Sure(r)'
                 PROVE  refresh'.built[r] = IF r \in Scope' THEN Document(r)' ELSE NoDoc
      BY DEF BuiltIsCurrent
    <3>1. Sure(r)
      BY <1>3, <2>2 DEF Sure
    <3>2. {c \in refresh.records : c.key = r} = IF r \in Scope THEN Sheet(r) ELSE {}
      BY <2>1, <3>1 DEF RecordsAreCurrent
    <3>3. Built(refresh.records)[r] = IF r \in Scope THEN Document(r) ELSE NoDoc
      BY <3>2, Documented
    <3> QED
      BY <1>3, <2>1, <2>2, <3>3
  <2> QED
    BY <1>3, <2>1, <2>2, <2>3 DEF RecordsAreCurrent
<1> QED
  BY <1>4, <1>5, <1>6, <1>7

\* The observer begins again, with nothing read.
LEMMA Forgetting ==
    ASSUME ProjectionInv, UNCHANGED <<release, source, torrent, link, libraryRows, dirty, projection>>,
           refresh' = NoRefresh, JobsOK'
    PROVE  ProjectionInv'
<1> USE DEF ProjectionInv
<1>1. UNCHANGED <<held, present, admitted, coverage, preference, ready, docs, summaries, relations>>
  BY DEF libraryRows, projection
<1>2. \A r : Agree(r)' = Agree(r)
  BY DEF Agree, Exists, SourcesOf
<1>3. \A r : Sheet(r)' = Sheet(r)
  BY <1>1 DEF Sheet
<1>4. \A r : Document(r)' = Document(r)
  BY <1>1, <1>3 DEF Document, Exists
<1>5. RelationsOf(docs)' = RelationsOf(docs) /\ \A a : SummaryOf(a, docs)' = SummaryOf(a, docs)
  BY <1>1 DEF RelationsOf, SummaryOf, Held
<1>6. Settled' = Settled
  BY <1>1 DEF Settled
<1>7. DocsAreCurrent' /\ RelationsCover' /\ SummariesFollow'
  BY <1>1, <1>2, <1>4, <1>5, <1>6 DEF DocsAreCurrent, RelationsCover, SummariesFollow
<1>8. RefreshOK' /\ refresh'.at = "idle"
  BY DEF RefreshOK, NoRefresh
<1> QED
  BY <1>7, <1>8 DEF RecordsAreCurrent, BuiltIsCurrent
-----------------------------------------------------------------------------
(***************************************************************************)
(* The observer stores what it built.                                      *)
(***************************************************************************)
\* A release that is not marked afterwards is stored as it is now: rebuilt, or
\* left alone.
LEMMA Storing ==
    ASSUME ProjectionInv, Store, UNCHANGED <<identityVars, libraryRows>>, Settled',
           NEW r \in Ids, r \notin dirty', Agree(r)
    PROVE  refresh.built[r] = IF r \in Scope THEN Document(r) ELSE NoDoc
<1>1. Quiet(r) /\ Quiet(Everything)
  BY DEF Store, StoredMarks, Settled, Quiet
<1> QED
  BY <1>1 DEF Store, ProjectionInv, BuiltIsCurrent, Sure

LEMMA StoreAll ==
    ASSUME ProjectionInv, Store, refresh.full, UNCHANGED <<identityVars, libraryRows>>
    PROVE  /\ RelationsOf(docs') \subseteq relations'
           /\ \A a \in Artists : summaries'[a] = SummaryOf(a, docs')
           /\ Settled' => \A r \in Ids : r \notin dirty' /\ Agree(r) =>
                 /\ docs'[r] = Document(r)
                 /\ \A a \in Artists : <<a, r>> \in relations' <=> <<a, r>> \in RelationsOf(docs')
<1>1. /\ docs' = refresh.built /\ relations' = RelationsOf(refresh.built)
      /\ summaries' = [a \in Artists |-> SummaryOf(a, refresh.built)]
  BY DEF Store, Stored
<1>2. ASSUME Settled', NEW r \in Ids, r \notin dirty', Agree(r)
      PROVE  docs'[r] = Document(r)
  BY <1>1, <1>2, Storing DEF Scope
<1> QED
  BY <1>1, <1>2

LEMMA StorePart ==
    ASSUME ProjectionInv, Store, ~refresh.full, UNCHANGED <<identityVars, libraryRows>>
    PROVE  /\ RelationsOf(docs') \subseteq relations'
           /\ Settled' => \A r \in Ids : r \notin dirty' /\ Agree(r) =>
                 /\ docs'[r] = Document(r)
                 /\ \A a \in Artists : <<a, r>> \in relations' <=> <<a, r>> \in RelationsOf(docs')
           /\ Settled' => \A a \in Artists :
                 (\A r \in Ids : <<a, r>> \in relations' => r \notin dirty' /\ Agree(r))
                     => summaries'[a] = SummaryOf(a, docs')
<1> USE DEF ProjectionInv
<1> DEFINE built == refresh.built
           batch == refresh.batch
           Of(d, a, r) == d[r] # NoDoc /\ a \in d[r].meta.artists
<1>1. /\ docs' = Together
      /\ relations' = {p \in relations : p[2] \notin batch} \cup RelationsOf(built)
      /\ summaries' = [a \in Artists |-> IF a \in Affected THEN Summed(a) ELSE summaries[a]]
  BY DEF Store, Stored
<1>2. \A r \in Ids : docs'[r] = IF built[r] # NoDoc THEN built[r]
                                ELSE IF r \in batch THEN NoDoc ELSE docs[r]
  BY <1>1 DEF Together
<1>3. Settled' => Settled /\ dirty' \subseteq dirty
  BY DEF Store, StoredMarks, Settled, RefreshOK
<1>4. \A d : \A a \in Artists : \A r \in Ids : <<a, r>> \in RelationsOf(d) <=> Of(d, a, r)
  BY DEF RelationsOf, Held
<1>5. \A d : \A p \in RelationsOf(d) : p[1] \in Artists /\ p[2] \in Ids /\ p = <<p[1], p[2]>>
  BY DEF RelationsOf
<1> HIDE DEF built, batch
<1>6. \A a \in Artists : \A r \in Ids :
        <<a, r>> \in relations' <=> (<<a, r>> \in relations /\ r \notin batch) \/ Of(built, a, r)
  BY <1>1, <1>4
<1>7. RelationsOf(docs') \subseteq relations'
  <2> SUFFICES ASSUME NEW a \in Artists, NEW r \in Ids, Of(docs', a, r)
               PROVE  <<a, r>> \in relations'
    BY <1>4, <1>5
  <2>1. Of(built, a, r) \/ (r \notin batch /\ Of(docs, a, r))
    BY <1>2
  <2> QED
    BY <1>4, <1>6, <2>1 DEF RelationsCover
<1>8. ASSUME Settled', NEW r \in Ids, r \notin dirty', Agree(r)
      PROVE  /\ r \notin batch => r \notin dirty /\ built[r] = NoDoc
             /\ docs'[r] = Document(r)
             /\ \A a \in Artists : <<a, r>> \in relations' <=> <<a, r>> \in RelationsOf(docs')
  <2>1. built[r] = IF r \in batch THEN Document(r) ELSE NoDoc
    BY <1>8, Storing DEF Scope, built, batch
  <2>2. r \notin batch => r \notin dirty
    BY <1>8 DEF Store, StoredMarks, batch
  <2>3. r \notin batch => docs[r] = Document(r)
                          /\ \A a \in Artists : <<a, r>> \in relations <=> Of(docs, a, r)
    BY <1>3, <1>4, <1>8, <2>2 DEF DocsAreCurrent
  <2> QED
    BY <1>2, <1>4, <1>6, <2>1, <2>2, <2>3
<1>9. ASSUME Settled', NEW a \in Artists,
             \A r \in Ids : <<a, r>> \in relations' => r \notin dirty' /\ Agree(r)
      PROVE  summaries'[a] = SummaryOf(a, docs')
  <2>1. CASE a \in Affected
    <3>1. summaries'[a] = Summed(a)
      BY <1>1, <2>1
    <3>2. ASSUME NEW r \in Ids, Of(docs', a, r)
          PROVE  r \in Other(a)
      <4>1. built[r] # NoDoc \/ r \in batch \/ Of(docs, a, r)
        BY <1>2, <3>2
      <4>2. Of(docs, a, r) => <<a, r>> \in relations
        BY <1>4 DEF RelationsCover
      <4> QED
        BY <4>1, <4>2 DEF Other, Held, built, batch
    <3>3. SummaryOf(a, Together) = SummaryOf(a, docs')
      BY <1>1
    <3>4. \A x \in SummaryOf(a, docs') : x[1] \in Other(a)
      BY <3>2 DEF SummaryOf, Held
    <3> QED
      BY <2>1, <3>1, <3>3, <3>4 DEF Summed
  <2>2. CASE a \notin Affected
    <3>1. summaries'[a] = summaries[a]
      BY <1>1, <2>2
    <3>2. \A r \in Ids : /\ <<a, r>> \in relations => r \notin batch
                         /\ ~Of(built, a, r)
      BY <1>4, <2>2 DEF Affected, built, batch
    <3>3. \A r \in Ids : <<a, r>> \in relations => r \notin dirty /\ Agree(r)
      BY <1>6, <1>8, <1>9, <3>2
    <3>4. summaries[a] = SummaryOf(a, docs)
      BY <1>3, <1>9, <3>3 DEF SummariesFollow
    <3>5. ASSUME NEW r \in Ids
          PROVE  /\ Of(docs, a, r) <=> Of(docs', a, r)
                 /\ Of(docs, a, r) => docs'[r] = docs[r]
      <4>1. CASE <<a, r>> \in relations
        <5>1. r \notin batch /\ built[r] = NoDoc
          BY <1>6, <1>8, <1>9, <3>2, <4>1
        <5> QED
          BY <1>2, <5>1
      <4>2. CASE <<a, r>> \notin relations
        <5>1. ~Of(docs, a, r)
          BY <1>4, <4>2 DEF RelationsCover
        <5> QED
          BY <1>2, <3>2, <5>1
      <4> QED
        BY <4>1, <4>2
    <3> QED
      BY <3>1, <3>4, <3>5 DEF SummaryOf, Held
  <2> QED
    BY <2>1, <2>2
<1> QED
  BY <1>7, <1>8, <1>9

LEMMA ObserverStores ==
    ASSUME ProjectionInv, Store, UNCHANGED <<identityVars, libraryRows>>
    PROVE  ProjectionInv'
<1>1. UNCHANGED <<release, source, torrent, link, job>>
  BY DEF identityVars, identity, rows
<1>2. UNCHANGED <<held, present, admitted, coverage, preference>>
  BY DEF libraryRows
<1>3. \A r : Agree(r)' = Agree(r)
  BY <1>1 DEF Agree, Exists, SourcesOf
<1>4. \A r : Document(r)' = Document(r)
  BY <1>1, <1>2 DEF Document, Exists, Sheet
<1>5. JobsOK' /\ RefreshOK' /\ refresh'.at = "idle"
  BY <1>1 DEF ProjectionInv, JobsOK, Store, RefreshOK, NoRefresh
<1>6. RelationsOf(docs)' = RelationsOf(docs') /\ \A a : SummaryOf(a, docs)' = SummaryOf(a, docs')
  BY DEF RelationsOf, SummaryOf, Held
<1>7. DocsAreCurrent'
  BY <1>3, <1>4, <1>6, StoreAll, StorePart DEF DocsAreCurrent
<1>8. RelationsCover'
  BY <1>6, StoreAll, StorePart DEF RelationsCover
<1>9. SummariesFollow'
  BY <1>3, <1>6, StoreAll, StorePart DEF SummariesFollow
<1> QED
  BY <1>5, <1>7, <1>8, <1>9 DEF ProjectionInv, RecordsAreCurrent, BuiltIsCurrent

-----------------------------------------------------------------------------
(***************************************************************************)
(* The theorem.                                                            *)
(***************************************************************************)
LEMMA ProjectionInit == Init => ProjectionInv
<1> SUFFICES ASSUME Init PROVE ProjectionInv
  OBVIOUS
<1>1. JobsOK /\ RefreshOK /\ refresh.at = "idle"
  BY ShapeInit DEF Init, NoRefresh
<1>2. ~Settled
  BY DEF Init, Settled
<1>3. RelationsCover
  BY DEF Init, RelationsCover, RelationsOf, Held
<1> QED
  BY <1>1, <1>2, <1>3
     DEF ProjectionInv, RecordsAreCurrent, BuiltIsCurrent, DocsAreCurrent, SummariesFollow

LEMMA ProjectionNext == ProjectionInv /\ [Next]_vars => ProjectionInv'
<1> SUFFICES ASSUME ProjectionInv, [Next]_vars PROVE ProjectionInv'
  OBVIOUS
<1>1. CASE IdentityStep /\ UNCHANGED <<libraryRows, projection, refresh, up>> /\ TriggersFire
  BY <1>1, IdentityShape, RowsChange DEF ProjectionInv
<1>2. CASE UNCHANGED <<identity, projection, refresh, up>> /\ TriggersFire
  <2>1. JobsOK' /\ TorrentsStay
    BY <1>2 DEF identity, rows, ProjectionInv, JobsOK, TorrentsStay
  <2> QED
    BY <1>2, <2>1, RowsChange
<1>3. CASE RefreshStep /\ UNCHANGED <<identityVars, libraryRows>>
  BY <1>3, ObserverReads, ObserverStores DEF RefreshStep
<1>4. CASE RefreshFails /\ UNCHANGED <<identity, libraryRows>>
  <2>1. JobsOK' /\ UNCHANGED <<release, source, torrent, link>>
    BY <1>4 DEF identity, rows, ProjectionInv, JobsOK
  <2> QED
    BY <1>4, <2>1, Forgetting DEF RefreshFails
<1>5. CASE Restart
  <2>1. UNCHANGED <<release, source, torrent, link>>
    BY <1>5 DEF Restart, rows
  <2>2. JobsOK'
    BY <1>5, <2>1 DEF Restart, ProjectionInv, JobsOK, Idle, Fields
  <2> QED
    BY <1>5, <2>1, <2>2, Forgetting DEF Restart
<1>6. CASE UNCHANGED vars
  <2>1. UNCHANGED <<identityVars, libraryRows, projection, dirty, moved, refresh>>
    BY <1>6 DEF vars, projectionVars, marks
  <2>2. /\ JobsOK' /\ DocsAreCurrent' /\ RelationsCover' /\ SummariesFollow'
        /\ \A r : Agree(r)' = Agree(r) /\ Sheet(r)' = Sheet(r) /\ Document(r)' = Document(r)
    BY <2>1, Reading
  <2>3. ready' = ready
    BY <2>1 DEF projection
  <2> QED
    BY <2>1, <2>2, <2>3 DEF ProjectionInv, RefreshOK, RecordsAreCurrent, BuiltIsCurrent,
       Sure, Quiet, Scope
<1> QED
  BY <1>1, <1>2, <1>3, <1>4, <1>5, <1>6 DEF Next

LEMMA InvIsEnough == ProjectionInv => UnmarkedIsCurrent
<1> SUFFICES ASSUME ProjectionInv, Settled PROVE UnmarkedIsCurrent
  BY DEF UnmarkedIsCurrent, Settled
<1> DEFINE now  == Rebuild
           sure == {r \in Ids \ dirty : Agree(r)}
           of(a) == {r \in Ids : <<a, r>> \in relations \cup RelationsOf(now)}
<1>1. ASSUME NEW r \in sure
      PROVE  /\ docs[r] = now[r]
             /\ \A a \in Artists : <<a, r>> \in relations <=> <<a, r>> \in RelationsOf(docs)
  BY <1>1, Rebuilding DEF ProjectionInv, DocsAreCurrent
<1> HIDE DEF now
<1>2. ASSUME NEW a \in Artists, of(a) \subseteq sure
      PROVE  /\ summaries[a] = SummaryOf(a, now)
             /\ \A r \in Ids : <<a, r>> \in relations <=> <<a, r>> \in RelationsOf(now)
  <2>1. summaries[a] = SummaryOf(a, docs)
    BY <1>2 DEF ProjectionInv, SummariesFollow
  <2>2. ASSUME NEW r \in Ids
        PROVE  /\ <<a, r>> \in RelationsOf(docs) <=> <<a, r>> \in RelationsOf(now)
               /\ <<a, r>> \in RelationsOf(docs) => docs[r] = now[r]
    <3>1. CASE r \in sure
      BY <1>1, <3>1 DEF RelationsOf, Held
    <3>2. CASE r \notin sure
      BY <1>2, <3>2 DEF ProjectionInv, RelationsCover
    <3> QED
      BY <3>1, <3>2
  <2>3. \A d : \A r \in Ids : <<a, r>> \in RelationsOf(d) <=> r \in Held(d) /\ a \in d[r].meta.artists
    BY DEF RelationsOf
  <2>4. SummaryOf(a, docs) = SummaryOf(a, now)
    BY <2>2, <2>3 DEF SummaryOf, Held
  <2>5. ASSUME NEW r \in Ids
        PROVE  <<a, r>> \in relations <=> <<a, r>> \in RelationsOf(now)
    BY <1>1, <1>2, <2>2
  <2> QED
    BY <2>1, <2>4, <2>5
<1> QED
  BY <1>1, <1>2 DEF UnmarkedIsCurrent, now

\* What is not marked is current: whatever the statements of writers, changes
\* of the rows, restarts and failures the refresh of the Library interleaves
\* with, a release that no trigger has left marked, and whose rows agree, has
\* the document that a rebuild of the whole Library would give it, and an
\* artist with only such releases their summary and relations
\* (refresh_library_projection, store_library_projection, the triggers of the
\* migration).
THEOREM UnmarkedDocumentsAreCurrent == Spec => []UnmarkedIsCurrent
<1>1. Spec => []ProjectionInv
  BY ProjectionInit, ProjectionNext, PTL DEF Spec
<1> QED
  BY <1>1, InvIsEnough, PTL
=============================================================================
