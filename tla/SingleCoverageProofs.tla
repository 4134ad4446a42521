------------------------ MODULE SingleCoverageProofs ------------------------
(***************************************************************************)
(* Theorems about SingleCoverage for every set of artists, singles,        *)
(* albums, listings, tracklists and pages: type correctness, and that what *)
(* is shown of a single's coverage is current, awaited or worked on.       *)
(***************************************************************************)
EXTENDS SingleCoverage, TLAPS

USE CoverageAssumption

(***************************************************************************)
(* The inductive invariant, single by single.  What a caller of            *)
(* put_track_index_with_parent has not yet invalidated is a smaller debt   *)
(* than what it has not yet woken: coverages are current but for the       *)
(* first, waiting jobs are justified but for the second, and an execution  *)
(* that has read something holds it to the same two standards until it is  *)
(* overtaken.                                                              *)
(***************************************************************************)
StorerShape(w) ==
    /\ storer[w].at # "invalidating" => storer[w].left = {} /\ storer[w].wake = {}
    /\ storer[w].left \subseteq storer[w].wake
    /\ storer[w].at = "settling" => storer[w].outcome \in {"completed", "pending"}

\* How an execution of a coverage job can end.
Outcomes == {"completed", "waiting", "pending", "ended"}

JobShape(s) ==
    /\ run[s].at \in {"settling", "committing"} => run[s].outcome \in Outcomes
    /\ coverage[s].state = "absent" => job[s] = "absent"

\* An execution without its lease was one with it.
StrayShape(s) ==
    \A x \in Strays :
        /\ stray[s][x].at # "idle" => coverage[s].state # "absent"
        /\ stray[s][x].at \in {"settling", "committing"} => stray[s][x].outcome \in Outcomes

\* A caller has still to find or to invalidate s.
Unsettled(w, s) ==
    \/ s \in storer[w].left
    \/ storer[w].at = "stored" /\ storer[w].changed /\ s \in Affected(storer[w].group)

Settles(s, outcome) == run[s].at \in {"settling", "committing"} /\ run[s].outcome = outcome

\* The job of a pending coverage will store one, or waits, or was given up.
PendingOwed(s) ==
    coverage[s].state = "pending" /\ Listed(s) =>
        job[s] \in {"pending", "running", "waiting", "ended"} /\ ~Settles(s, "completed")

\* An execution that has read the catalogues has read what they say now.
NeedsAreCurrent(s) == run[s].at = "listed" => run[s].needs = Needs(s)

\* What a waiting job waits for, or is about to wait for.
Blocked(s) == index[s].state # "indexed" \/ \E g \in Needs(s) : index[g].tracks = NoTracks

WaitIsJustified(s) ==
    job[s] = "waiting" \/ Settles(s, "waiting") => Blocked(s) \/ Awaited(s)

\* What was or is being stored is current, unless somebody will invalidate it.
StoredIsCurrent(s) ==
    (\A w \in Storers : ~Unsettled(w, s)) =>
        /\ Listed(s) /\ run[s].at = "computed" => run[s].from = ComputedFrom(Needs(s))
        /\ Listed(s) /\ coverage[s].state = "ready"
              /\ (job[s] \in {"absent", "completed"} \/ Settles(s, "completed"))
           => Current(s)

SingleInv(s) ==
    s \notin missed =>
        PendingOwed(s) /\ NeedsAreCurrent(s) /\ WaitIsJustified(s) /\ StoredIsCurrent(s)

ShapeInv ==
    /\ TypeOK
    /\ \A w \in Storers : StorerShape(w)
    /\ \A s \in Singles : JobShape(s) /\ StrayShape(s)

CoverageInv == ShapeInv /\ \A s \in Singles : SingleInv(s)

(***************************************************************************)
(* Values the actions write.                                               *)
(***************************************************************************)
LEMMA Constants ==
    /\ Indexer \in Storers /\ Pages \subseteq Storers
    /\ Singles \subseteq Groups /\ Albums \subseteq Groups
    /\ Nothing \in Inputs /\ PendingCoverage \in Coverage
    /\ NoRun \in Run /\ NoStore \in Storer
BY CoverageAssumption, SMT DEF Storers, Groups, Nothing, Inputs, PendingCoverage, Coverage, NoRun, Run,
    NoStore, Storer, JobStates

LEMMA Queued ==
    ASSUME NEW K, NEW jobs \in [K -> JobStates], NEW S
    PROVE  /\ Enqueued(jobs, S) \in [K -> JobStates]
           /\ Reactivated(jobs, S) \in [K -> JobStates]
           /\ Woken(jobs, S) \in [K -> JobStates]
           /\ \A k \in K :
                 /\ Enqueued(jobs, S)[k] =
                       IF k \in S /\ jobs[k] = "absent" THEN "pending" ELSE jobs[k]
                 /\ Reactivated(jobs, S)[k] =
                       IF k \in S /\ jobs[k] = "completed" THEN "pending" ELSE jobs[k]
                 /\ Woken(jobs, S)[k] =
                       IF k \in S /\ jobs[k] = "waiting" THEN "pending" ELSE jobs[k]
BY DEF Enqueued, Reactivated, Woken, JobStates

LEMMA Ensuring ==
    ASSUME NEW rows \in [Groups -> Index], NEW jobs \in [Groups -> JobStates], NEW G,
           EnsuredFrom(rows, jobs, G)
    PROVE  /\ index' \in [Groups -> Index] /\ indexJob' \in [Groups -> JobStates]
           /\ \A g \in Groups :
                 /\ index'[g].tracks = rows[g].tracks
                 /\ index'[g].state = "indexed" => rows[g].state = "indexed"
                 /\ indexJob'[g] = "running" <=> jobs[g] = "running"
<1>1. PICK expired \in SUBSET {g \in G : rows[g].tracks # NoTracks} :
          /\ index' = EnsuredIndex(rows, G, expired)
          /\ indexJob' = EnsuredIndexJob(jobs, rows, G, expired)
  BY DEF EnsuredFrom
<1>2. /\ index' \in [Groups -> Index]
      /\ \A g \in Groups : /\ index'[g].tracks = rows[g].tracks
                           /\ index'[g].state = "indexed" => rows[g].state = "indexed"
  BY <1>1 DEF EnsuredIndex, Index
<1> DEFINE indexed == {g \in G : rows[g].state = "indexed"}
           again   == Reactivated(jobs, indexed \cap expired)
<1>3. indexJob' = Enqueued(again, (G \ indexed) \cup (G \cap expired))
  BY <1>1 DEF EnsuredIndexJob
<1>4. again \in [Groups -> JobStates] /\ \A g \in Groups : again[g] = "running" <=> jobs[g] = "running"
  BY Queued
<1> HIDE DEF again, indexed
<1>5. /\ indexJob' \in [Groups -> JobStates]
      /\ \A g \in Groups : indexJob'[g] = "running" <=> again[g] = "running"
  BY <1>3, <1>4, Queued
<1>6. QED
  BY <1>2, <1>4, <1>5

\* A storer that has only to invalidate has to wake what it invalidates.
LEMMA UnsettledIsUndone ==
    ASSUME NEW w \in Storers, NEW s \in Singles, StorerShape(w), Unsettled(w, s)
    PROVE  s \in Undone(w)
BY DEF StorerShape, Unsettled, Undone

LEMMA NeedsItself == ASSUME NEW s PROVE s \in Needs(s)
BY DEF Needs

LEMMA Computing == ASSUME NEW S, TypeOK PROVE ComputedFrom(S) \in Inputs
BY DEF ComputedFrom, Inputs, TypeOK, Index

LEMMA Invalidating ==
    ASSUME TypeOK, NEW S, Invalidated(S)
    PROVE  /\ coverage' \in [Singles -> Coverage] /\ job' \in [Singles -> JobStates]
           /\ \A s \in Singles :
                 /\ coverage'[s] = IF s \in S THEN PendingCoverage ELSE coverage[s]
                 /\ job'[s] = IF s \in S /\ job[s] \in {"absent", "completed"}
                              THEN "pending" ELSE job[s]
<1> DEFINE again == Reactivated(job, S)
<1>1. coverage' = [s \in Singles |-> IF s \in S THEN PendingCoverage ELSE coverage[s]]
  BY DEF Invalidated
<1>2. coverage \in [Singles -> Coverage] /\ job \in [Singles -> JobStates]
  BY DEF TypeOK
<1>3. /\ again \in [Singles -> JobStates]
      /\ \A s \in Singles :
            again[s] = IF s \in S /\ job[s] = "completed" THEN "pending" ELSE job[s]
  BY <1>2, Queued
<1>4. job' = Enqueued(again, S)
  BY DEF Invalidated
<1> HIDE DEF again
<1>5. /\ job' \in [Singles -> JobStates]
      /\ \A s \in Singles :
            job'[s] = IF s \in S /\ again[s] = "absent" THEN "pending" ELSE again[s]
  BY <1>3, <1>4, Queued
<1>6. QED
  BY <1>1, <1>2, <1>3, <1>5, Constants

LEMMA Seeding ==
    ASSUME TypeOK, NEW S, coverage' = PendingIfNew(S), job' = Enqueued(job, Unready(S))
    PROVE  /\ coverage' \in [Singles -> Coverage] /\ job' \in [Singles -> JobStates]
           /\ \A s \in Singles :
                 /\ coverage'[s] = IF s \in S /\ coverage[s].state = "absent"
                                   THEN PendingCoverage ELSE coverage[s]
                 /\ job'[s] = IF s \in S /\ coverage[s].state # "ready" /\ job[s] = "absent"
                              THEN "pending" ELSE job[s]
<1>1. coverage \in [Singles -> Coverage] /\ job \in [Singles -> JobStates]
  BY DEF TypeOK
<1>2. /\ job' \in [Singles -> JobStates]
      /\ \A s \in Singles :
            job'[s] = IF s \in Unready(S) /\ job[s] = "absent" THEN "pending" ELSE job[s]
  BY <1>1, Queued
<1>3. \A s \in Singles : s \in Unready(S) <=> s \in S /\ coverage[s].state # "ready"
  BY DEF Unready
<1>4. QED
  BY <1>1, <1>2, <1>3, Constants DEF PendingIfNew

LEMMA Ending ==
    ASSUME NEW outcome \in JobStates
    PROVE  /\ Settling(outcome) \in Run
           /\ Settling(outcome).at = "settling" /\ Settling(outcome).outcome = outcome
BY Constants DEF Settling, NoRun, Run, JobStates

LEMMA ReadingCatalog ==
    ASSUME NEW x \in Singles
    PROVE  /\ CatalogRead(x) \in Run /\ CatalogRead(x).at \notin {"idle", "committing"}
           /\ CatalogRead(x).at = "settling" => CatalogRead(x).outcome \in Outcomes
           /\ IF Listed(x) THEN CatalogRead(x).at = "listed" /\ CatalogRead(x).needs = Needs(x)
                           ELSE CatalogRead(x).at = "settling" /\ CatalogRead(x).outcome = "completed"
<1>1. Needs(x) \subseteq Groups
  BY Constants DEF Needs
<1>2. CASE Listed(x)
  BY <1>1, <1>2, Constants DEF CatalogRead, NoRun, Run, JobStates
<1>3. CASE ~Listed(x)
  BY <1>3, Ending DEF CatalogRead, JobStates, Outcomes
<1>4. QED
  BY <1>2, <1>3

LEMMA ReadingIndexes ==
    ASSUME TypeOK, NEW x \in Singles, NEW needs
    PROVE  LET read == IndexesRead(x, needs)
           IN  /\ read \in Run /\ read.at \notin {"idle", "committing"}
               /\ read.at = "settling" => read.outcome \in Outcomes
               /\ IF Computable(x, needs)
                  THEN read.at = "computed" /\ read.from = ComputedFrom(needs)
                  ELSE read.at = "settling" /\ read.outcome = "waiting"
<1>1. ComputedFrom(needs) \in Inputs
  BY Computing
<1>2. CASE Computable(x, needs)
  BY <1>1, <1>2, Constants DEF IndexesRead, NoRun, Run, JobStates
<1>3. CASE ~Computable(x, needs)
  BY <1>3, Ending DEF IndexesRead, JobStates, Outcomes
<1>4. QED
  BY <1>2, <1>3

(***************************************************************************)
(* Type correctness.                                                       *)
(***************************************************************************)
\* What an action on the tables, the jobs of the singles and the storers has
\* to say for itself.
LEMMA ShapeKept ==
    ASSUME ShapeInv,
           catalog' \in [Artists -> SUBSET Groups], missed' \subseteq Singles,
           index' \in [Groups -> Index], coverage' \in [Singles -> Coverage],
           indexJob' \in [Groups -> JobStates], job' \in [Singles -> JobStates],
           storer' \in [Storers -> Storer], run' \in [Singles -> Run],
           \A s \in Singles : (job[s] = "running" <=> run[s].at # "idle")
                                 => (job'[s] = "running" <=> run'[s].at # "idle"),
           \A g \in Groups : indexJob'[g] = "running" <=>
                                storer'[Indexer].at # "idle" /\ storer'[Indexer].group = g,
           \A w \in Storers : StorerShape(w) => StorerShape(w)',
           \A s \in Singles : JobShape(s) => JobShape(s)', stray' = stray,
           \A s \in Singles : coverage'[s] = coverage[s] \/ coverage'[s].state # "absent"
    PROVE  ShapeInv'
<1>1. TypeOK'
  BY DEF ShapeInv, TypeOK
<1>2. \A s \in Singles : StrayShape(s)'
  BY DEF ShapeInv, StrayShape
<1>3. QED
  BY <1>1, <1>2 DEF ShapeInv

LEMMA ShapeInit == Init => ShapeInv
<1> SUFFICES ASSUME Init PROVE ShapeInv
  OBVIOUS
<1>1. [state |-> "absent", from |-> Nothing] \in Coverage
  BY Constants DEF Coverage
<1>2. [state |-> "absent", tracks |-> NoTracks] \in Index
  BY DEF Index
<1>3. TypeOK
  BY <1>1, <1>2, Constants DEF Init, TypeOK, NoRun, NoStore, JobStates
<1>4. ASSUME NEW w \in Storers PROVE StorerShape(w)
  BY DEF Init, StorerShape, NoStore
<1>5. ASSUME NEW s \in Singles PROVE JobShape(s)
  BY DEF Init, JobShape, NoRun
<1>6. ASSUME NEW s \in Singles PROVE StrayShape(s)
  BY DEF Init, StrayShape, NoRun
<1>7. QED
  BY <1>3, <1>4, <1>5, <1>6 DEF ShapeInv

LEMMA ShapeIndexing ==
    ASSUME ShapeInv, IndexSteps
    PROVE  ShapeInv'
<1> USE Constants
<1>t. TypeOK /\ \A w \in Storers : StorerShape(w)
  BY DEF ShapeInv
<1>0. /\ catalog \in [Artists -> SUBSET Groups] /\ missed \subseteq Singles
      /\ index \in [Groups -> Index] /\ coverage \in [Singles -> Coverage]
      /\ indexJob \in [Groups -> JobStates] /\ job \in [Singles -> JobStates]
      /\ storer \in [Storers -> Storer] /\ run \in [Singles -> Run]
      /\ \A g \in Groups :
            indexJob[g] = "running" <=> storer[Indexer].at # "idle" /\ storer[Indexer].group = g
  BY <1>t DEF TypeOK
<1>1. ASSUME NEW g \in Groups, StartIndex(g) PROVE ShapeInv'
  <2> DEFINE resolving == [index[g] EXCEPT !.state = "resolving"]
             fetched   == [storer[Indexer] EXCEPT !.at = "fetched", !.group = g]
  <2>a. resolving \in Index /\ fetched \in Storer
    <3>1. index[g] \in Index /\ storer[Indexer] \in Storer /\ g \in Groups
      BY <1>0
    <3>2. resolving \in Index
      BY <3>1 DEF Index
    <3>3. fetched \in Storer
      BY <3>1 DEF Storer
    <3>4. QED
      BY <3>2, <3>3
  <2>b. /\ index' = [index EXCEPT ![g] = resolving]
        /\ storer' = [storer EXCEPT ![Indexer] = fetched]
        /\ indexJob' = [indexJob EXCEPT ![g] = "running"]
    BY <1>1, <1>0 DEF StartIndex
  <2> HIDE DEF resolving, fetched
  <2>1. /\ index' \in [Groups -> Index] /\ indexJob' \in [Groups -> JobStates]
        /\ storer' \in [Storers -> Storer]
    BY <1>0, <2>a, <2>b DEF JobStates
  <2>2. storer'[Indexer].at = "fetched" /\ storer'[Indexer].group = g
    BY <1>0, <1>1 DEF StartIndex, Storer
  <2>3. \A h \in Groups : indexJob'[h] = "running" <=>
                             storer'[Indexer].at # "idle" /\ storer'[Indexer].group = h
    BY <1>0, <1>1, <2>2 DEF StartIndex
  <2>4. \A w \in Storers : StorerShape(w) => StorerShape(w)'
    BY <1>0, <1>1 DEF StartIndex, StorerShape, Storer
  <2>5. QED
    BY <1>0, <1>1, <2>1, <2>3, <2>4, ShapeKept DEF StartIndex, JobShape
<1>2. ASSUME NEW w \in Storers, FindAffected(w) PROVE ShapeInv'
  <2> DEFINE affected == IF storer[w].changed THEN Affected(storer[w].group) ELSE {}
             found == [NoStore EXCEPT
                 !.at = "invalidating", !.group = storer[w].group, !.left = affected,
                 !.wake = affected \cup ({storer[w].group} \cap Singles)]
  <2>1. affected \subseteq Singles
    BY DEF Affected
  <2>2. storer' = [storer EXCEPT ![w] = found]
    BY <1>2 DEF FindAffected
  <2>3. /\ found \in Storer /\ found.at = "invalidating" /\ found.group = storer[w].group
        /\ found.left \subseteq found.wake
    BY <1>0, <2>1 DEF NoStore, Storer
  <2> HIDE DEF found
  <2>4. storer[w].at # "idle"
    BY <1>2 DEF FindAffected
  <2>5. /\ storer' \in [Storers -> Storer]
        /\ \A g \in Groups : indexJob[g] = "running" <=>
                                storer'[Indexer].at # "idle" /\ storer'[Indexer].group = g
    BY <1>0, <2>2, <2>3, <2>4
  <2>6. \A v \in Storers : StorerShape(v) => StorerShape(v)'
    BY <1>0, <2>2, <2>3 DEF StorerShape
  <2>7. QED
    BY <1>0, <1>2, <2>5, <2>6, ShapeKept DEF FindAffected, JobShape
<1>3. ASSUME NEW w \in Storers, ResumeWaiting(w) PROVE ShapeInv'
  <2> DEFINE resting == IF w = Indexer THEN [storer[w] EXCEPT !.at = "following", !.wake = {}]
                                       ELSE NoStore
  <2>1. storer' = [storer EXCEPT ![w] = resting] /\ storer[w].at = "invalidating" /\ storer[w].left = {}
    BY <1>0, <1>3 DEF ResumeWaiting
  <2>2. /\ resting \in Storer /\ resting.left = {} /\ resting.wake = {}
        /\ resting.at \in {"following", "idle"}
        /\ w = Indexer => resting.at = "following" /\ resting.group = storer[w].group
    BY <1>0, <2>1 DEF NoStore, Storer
  <2> HIDE DEF resting
  <2>3. /\ storer' \in [Storers -> Storer]
        /\ \A g \in Groups : indexJob[g] = "running" <=>
                                storer'[Indexer].at # "idle" /\ storer'[Indexer].group = g
    BY <1>0, <2>1, <2>2
  <2>4. \A v \in Storers : StorerShape(v) => StorerShape(v)'
    BY <1>0, <2>1, <2>2 DEF StorerShape
  <2>5. /\ job' \in [Singles -> JobStates]
        /\ \A s \in Singles : job'[s] = IF s \in storer[w].wake /\ job[s] = "waiting"
                                        THEN "pending" ELSE job[s]
    BY <1>0, <1>3, Queued DEF ResumeWaiting
  <2>6. \A s \in Singles : JobShape(s) => JobShape(s)'
    BY <1>3, <2>5 DEF ResumeWaiting, JobShape
  <2>7. missed' \subseteq Singles
    BY <1>0, <1>3 DEF ResumeWaiting, Overtaken, Storer
  <2>8. QED
    BY <1>0, <1>3, <2>3, <2>4, <2>5, <2>6, <2>7, ShapeKept DEF ResumeWaiting
<1>4. ASSUME NEW w \in Storers, NEW tracks \in Tracklists, PutIndex(w, tracks) PROVE ShapeInv'
  <2>1. [state |-> "indexed", tracks |-> tracks] \in Index
    BY DEF Index
  <2>2. index' \in [Groups -> Index]
    BY <1>0, <1>4, <2>1 DEF PutIndex
  <2>3. Changed(storer[w].group, tracks) \in BOOLEAN
    BY DEF Changed
  <2> DEFINE stored == [storer[w] EXCEPT !.at = "stored",
                                         !.changed = Changed(storer[w].group, tracks)]
  <2>a. storer' = [storer EXCEPT ![w] = stored] /\ storer[w].at = "fetched"
    BY <1>0, <1>4 DEF PutIndex
  <2>b. /\ stored \in Storer /\ stored.at = "stored" /\ stored.group = storer[w].group
    BY <1>0, <2>3 DEF Storer
  <2> HIDE DEF stored
  <2>4. /\ storer' \in [Storers -> Storer]
        /\ \A g \in Groups : indexJob[g] = "running" <=>
                                storer'[Indexer].at # "idle" /\ storer'[Indexer].group = g
    BY <1>0, <2>a, <2>b
  <2>5. \A v \in Storers : StorerShape(v) => StorerShape(v)'
    BY <1>0, <1>4 DEF PutIndex, StorerShape, Storer
  <2>6. QED
    BY <1>0, <1>4, <2>2, <2>4, <2>5, ShapeKept DEF PutIndex, JobShape
<1>5. ASSUME NEW w \in Storers, NEW x \in Singles, Invalidate(w, x) PROVE ShapeInv'
  <2>1. Invalidated({x})
    BY <1>5 DEF Invalidate
  <2>2. /\ coverage' \in [Singles -> Coverage] /\ job' \in [Singles -> JobStates]
        /\ \A s \in Singles :
              /\ coverage'[s] = IF s \in {x} THEN PendingCoverage ELSE coverage[s]
              /\ job'[s] = IF s \in {x} /\ job[s] \in {"absent", "completed"}
                           THEN "pending" ELSE job[s]
    BY <1>t, <2>1, Invalidating
  <2>3. /\ storer' \in [Storers -> Storer]
        /\ \A g \in Groups : indexJob[g] = "running" <=>
                                storer'[Indexer].at # "idle" /\ storer'[Indexer].group = g
    BY <1>0, <1>5 DEF Invalidate, Storer
  <2>4. \A v \in Storers : StorerShape(v) => StorerShape(v)'
    BY <1>0, <1>5 DEF Invalidate, StorerShape, Storer
  <2>5. \A s \in Singles : JobShape(s) => JobShape(s)'
    BY <1>5, <2>2 DEF Invalidate, JobShape, PendingCoverage
  <2>6. missed' \subseteq Singles
    BY <1>0, <1>5 DEF Invalidate, Overtaken
  <2>7. \A s \in Singles : coverage'[s] = coverage[s] \/ coverage'[s].state # "absent"
    BY <2>2 DEF PendingCoverage
  <2>8. QED
    BY <1>0, <1>5, <2>2, <2>3, <2>4, <2>5, <2>6, <2>7, ShapeKept DEF Invalidate
<1>6. ASSUME Follow PROVE ShapeInv'
  <2> DEFINE single == {storer[Indexer].group} \cap Singles
             over   == [NoStore EXCEPT !.at = "settling", !.group = storer[Indexer].group,
                                       !.outcome = "completed"]
  <2>1. /\ coverage' = PendingIfNew(single) /\ job' = Enqueued(job, Unready(single))
        /\ storer' = [storer EXCEPT ![Indexer] = over] /\ storer[Indexer].at = "following"
    BY <1>6 DEF Follow
  <2>2. /\ over \in Storer /\ over.at = "settling" /\ over.group = storer[Indexer].group
        /\ over.left = {} /\ over.wake = {} /\ over.outcome = "completed"
    BY <1>0 DEF NoStore, Storer, JobStates
  <2> HIDE DEF over, single
  <2>3. /\ coverage' \in [Singles -> Coverage] /\ job' \in [Singles -> JobStates]
        /\ \A s \in Singles :
              /\ coverage'[s] = IF s \in single /\ coverage[s].state = "absent"
                                THEN PendingCoverage ELSE coverage[s]
              /\ job'[s] = IF s \in single /\ coverage[s].state # "ready" /\ job[s] = "absent"
                           THEN "pending" ELSE job[s]
    BY <1>t, <2>1, Seeding
  <2>4. /\ storer' \in [Storers -> Storer]
        /\ \A g \in Groups : indexJob[g] = "running" <=>
                                storer'[Indexer].at # "idle" /\ storer'[Indexer].group = g
    BY <1>0, <2>1, <2>2
  <2>5. \A v \in Storers : StorerShape(v) => StorerShape(v)'
    BY <1>0, <2>1, <2>2 DEF StorerShape
  <2>6. \A s \in Singles : JobShape(s) => JobShape(s)'
    <3>1. PendingCoverage.state = "pending"
      BY DEF PendingCoverage
    <3>2. run' = run
      BY <1>6 DEF Follow
    <3>3. QED
      BY <2>3, <3>1, <3>2 DEF JobShape
  <2>7. \A s \in Singles : (job[s] = "running" <=> run[s].at # "idle")
                             => (job'[s] = "running" <=> run'[s].at # "idle")
    BY <1>6, <2>3 DEF Follow
  <2>8. \A s \in Singles : coverage'[s] = coverage[s] \/ coverage'[s].state # "absent"
    BY <2>3 DEF PendingCoverage
  <2>9. QED
    BY <1>0, <1>6, <2>3, <2>4, <2>5, <2>6, <2>7, <2>8, ShapeKept DEF Follow
<1>7. ASSUME IndexFails PROVE ShapeInv'
  <2> DEFINE over == [NoStore EXCEPT !.at = "settling", !.group = storer[Indexer].group,
                                     !.outcome = "pending"]
  <2>1. storer' = [storer EXCEPT ![Indexer] = over] /\ storer[Indexer].at # "idle"
    BY <1>7 DEF IndexFails
  <2>2. /\ over \in Storer /\ over.at = "settling" /\ over.group = storer[Indexer].group
        /\ over.left = {} /\ over.wake = {} /\ over.outcome = "pending"
    BY <1>0 DEF NoStore, Storer, JobStates
  <2> HIDE DEF over
  <2>3. PICK state \in {"pending", "failed"} :
           index' = [index EXCEPT ![storer[Indexer].group].state = state]
    BY <1>7 DEF IndexFails
  <2>4. index' \in [Groups -> Index]
    <3>1. ASSUME NEW g \in Groups PROVE [index[g] EXCEPT !.state = state] \in Index
      BY <1>0 DEF Index
    <3>2. QED
      BY <1>0, <2>3, <3>1
  <2>5. /\ storer' \in [Storers -> Storer]
        /\ \A g \in Groups : indexJob[g] = "running" <=>
                                storer'[Indexer].at # "idle" /\ storer'[Indexer].group = g
    BY <1>0, <2>1, <2>2
  <2>6. \A v \in Storers : StorerShape(v) => StorerShape(v)'
    BY <1>0, <2>1, <2>2 DEF StorerShape
  <2>7. Undone(Indexer) \subseteq Singles
    BY <1>0 DEF Undone, Affected, Storer
  <2>8. QED
    BY <1>0, <1>7, <2>4, <2>5, <2>6, <2>7, ShapeKept DEF IndexFails, JobShape
<1>8. ASSUME SettleIndex PROVE ShapeInv'
  <2>1. /\ storer[Indexer].at = "settling" /\ storer[Indexer].outcome \in {"completed", "pending"}
        /\ indexJob' = [indexJob EXCEPT ![storer[Indexer].group] = storer[Indexer].outcome]
        /\ storer' = [storer EXCEPT ![Indexer] = NoStore]
    BY <1>t, <1>8 DEF SettleIndex, StorerShape
  <2>2. indexJob' \in [Groups -> JobStates] /\ storer' \in [Storers -> Storer]
    BY <1>0, <2>1 DEF JobStates
  <2>3. storer'[Indexer].at = "idle"
    BY <1>0, <2>1 DEF NoStore
  <2>4. \A g \in Groups : indexJob'[g] # "running"
    BY <1>0, <2>1
  <2>5. \A v \in Storers : StorerShape(v) => StorerShape(v)'
    BY <1>0, <2>1 DEF StorerShape, NoStore
  <2>6. QED
    BY <1>0, <1>8, <2>2, <2>3, <2>4, <2>5, ShapeKept DEF SettleIndex, JobShape
<1>9. QED
  BY <1>1, <1>2, <1>3, <1>4, <1>5, <1>6, <1>7, <1>8 DEF IndexSteps

LEMMA ShapeComputing ==
    ASSUME ShapeInv, NEW x \in Singles, CoverageSteps(x)
    PROVE  ShapeInv'
<1> USE Constants
<1>t. TypeOK /\ JobShape(x)
  BY DEF ShapeInv
<1>0. /\ catalog \in [Artists -> SUBSET Groups] /\ missed \subseteq Singles
      /\ index \in [Groups -> Index] /\ coverage \in [Singles -> Coverage]
      /\ indexJob \in [Groups -> JobStates] /\ job \in [Singles -> JobStates]
      /\ storer \in [Storers -> Storer] /\ run \in [Singles -> Run]
      /\ \A s \in Singles : job[s] = "running" <=> run[s].at # "idle"
      /\ \A g \in Groups :
            indexJob[g] = "running" <=> storer[Indexer].at # "idle" /\ storer[Indexer].group = g
  BY <1>t DEF TypeOK
<1>1. CASE StartCoverage(x)
  <2> DEFINE claimed == [NoRun EXCEPT !.at = "claimed"]
  <2>1. run' = [run EXCEPT ![x] = claimed] /\ claimed \in Run /\ claimed.at = "claimed"
    BY <1>1 DEF StartCoverage, NoRun, Run
  <2> HIDE DEF claimed
  <2>2. run' \in [Singles -> Run] /\ job' \in [Singles -> JobStates]
    BY <1>0, <1>1, <2>1 DEF StartCoverage, JobStates
  <2>3. \A s \in Singles : job'[s] = "running" <=> run'[s].at # "idle"
    BY <1>0, <1>1, <2>1 DEF StartCoverage
  <2>4. \A s \in Singles : JobShape(s) => JobShape(s)'
    BY <1>0, <1>1, <2>1 DEF StartCoverage, JobShape
  <2>5. QED
    BY <1>0, <1>1, <2>2, <2>3, <2>4, ShapeKept DEF StartCoverage, StorerShape
<1>2. CASE ReadCatalog(x)
  <2> DEFINE read == CatalogRead(x)
  <2>1. run' = [run EXCEPT ![x] = read] /\ run[x].at = "claimed"
    BY <1>0, <1>2 DEF ReadCatalog
  <2>4. /\ read \in Run /\ read.at \notin {"idle", "committing"}
        /\ read.at = "settling" => read.outcome \in Outcomes
    BY ReadingCatalog
  <2> HIDE DEF read
  <2>5. run' \in [Singles -> Run] /\ \A s \in Singles : job[s] = "running" <=> run'[s].at # "idle"
    BY <1>0, <2>1, <2>4
  <2>6. \A s \in Singles : JobShape(s) => JobShape(s)'
    BY <1>0, <1>2, <2>1, <2>4 DEF ReadCatalog, JobShape
  <2>7. QED
    BY <1>0, <1>2, <2>5, <2>6, ShapeKept DEF ReadCatalog, StorerShape
<1>3. CASE ReadIndexes(x)
  <2> DEFINE read == IndexesRead(x, run[x].needs)
  <2>1. run' = [run EXCEPT ![x] = read] /\ run[x].at = "listed"
    BY <1>0, <1>3 DEF ReadIndexes
  <2>4. /\ read \in Run /\ read.at \notin {"idle", "committing"}
        /\ read.at = "settling" => read.outcome \in Outcomes
    BY <1>t, ReadingIndexes
  <2> HIDE DEF read
  <2>5. run' \in [Singles -> Run] /\ \A s \in Singles : job[s] = "running" <=> run'[s].at # "idle"
    BY <1>0, <2>1, <2>4
  <2>6. \A s \in Singles : JobShape(s) => JobShape(s)'
    BY <1>0, <1>3, <2>1, <2>4 DEF ReadIndexes, JobShape
  <2>7. QED
    BY <1>0, <1>3, <2>5, <2>6, ShapeKept DEF ReadIndexes, StorerShape
<1>4. CASE PutCoverage(x)
  <2> DEFINE over == Settling("completed")
             put  == [state |-> "ready", from |-> run[x].from]
  <2>1. run' = [run EXCEPT ![x] = over] /\ coverage' = [coverage EXCEPT ![x] = put]
    BY <1>4 DEF PutCoverage
  <2>2. over \in Run /\ over.at = "settling" /\ over.outcome \in Outcomes
    BY Ending DEF Outcomes, JobStates
  <2>3. put \in Coverage /\ put.state = "ready"
    BY <1>0 DEF Run, Coverage
  <2> HIDE DEF over, put
  <2>4. run[x].at # "idle"
    BY <1>4 DEF PutCoverage
  <2>5. /\ run' \in [Singles -> Run] /\ coverage' \in [Singles -> Coverage]
        /\ \A s \in Singles : job[s] = "running" <=> run'[s].at # "idle"
    BY <1>0, <2>1, <2>2, <2>3, <2>4
  <2>6. \A s \in Singles : JobShape(s) => JobShape(s)'
    BY <1>0, <1>4, <2>1, <2>2, <2>3 DEF PutCoverage, JobShape
  <2>7. QED
    BY <1>0, <1>4, <2>5, <2>6, ShapeKept DEF PutCoverage, StorerShape
<1>5. CASE CoverageFails(x)
  <2>1. PICK outcome \in {"pending", "ended"} : run' = [run EXCEPT ![x] = Settling(outcome)]
    BY <1>5 DEF CoverageFails
  <2> DEFINE over == Settling(outcome)
  <2>2. over \in Run /\ over.at = "settling" /\ over.outcome \in Outcomes
    BY Ending DEF Outcomes, JobStates
  <2>3. run' = [run EXCEPT ![x] = over] /\ run[x].at # "idle"
    BY <1>5, <2>1 DEF CoverageFails
  <2> HIDE DEF over
  <2>4. run' \in [Singles -> Run] /\ \A s \in Singles : job[s] = "running" <=> run'[s].at # "idle"
    BY <1>0, <2>2, <2>3
  <2>5. \A s \in Singles : JobShape(s) => JobShape(s)'
    BY <1>0, <1>5, <2>2, <2>3 DEF CoverageFails, JobShape
  <2>6. QED
    BY <1>0, <1>5, <2>4, <2>5, ShapeKept DEF CoverageFails, StorerShape
<1>6. CASE SettleCoverage(x)
  <2> DEFINE over == [run[x] EXCEPT !.at = "committing"]
  <2>1. run[x].at = "settling" /\ run' = [run EXCEPT ![x] = over] /\ run[x] \in Run
    BY <1>0, <1>6 DEF SettleCoverage
  <2>2. over \in Run /\ over.at = "committing" /\ over.outcome \in Outcomes
    BY <1>t, <2>1 DEF JobShape, Run
  <2> HIDE DEF over
  <2>3. run' \in [Singles -> Run] /\ \A s \in Singles : job[s] = "running" <=> run'[s].at # "idle"
    BY <1>0, <2>1, <2>2
  <2>4. \A s \in Singles : JobShape(s) => JobShape(s)'
    BY <1>0, <1>6, <2>1, <2>2 DEF SettleCoverage, JobShape
  <2>5. QED
    BY <1>0, <1>6, <2>3, <2>4, ShapeKept DEF SettleCoverage, StorerShape
<1>7. CASE CommitCoverage(x)
  <2>1. /\ run[x].at = "committing" /\ run[x].outcome \in Outcomes
        /\ job' = [job EXCEPT ![x] = run[x].outcome] /\ run' = [run EXCEPT ![x] = NoRun]
    BY <1>t, <1>7 DEF CommitCoverage, JobShape
  <2>2. NoRun.at = "idle"
    BY DEF NoRun
  <2>3. /\ run' \in [Singles -> Run] /\ job' \in [Singles -> JobStates]
        /\ \A s \in Singles : job'[s] = "running" <=> run'[s].at # "idle"
    BY <1>0, <2>1, <2>2 DEF JobStates, Outcomes
  <2>4. coverage[x].state # "absent"
    BY <1>0, <1>t, <2>1 DEF JobShape
  <2>5. \A s \in Singles : JobShape(s) => JobShape(s)'
    BY <1>0, <1>7, <2>1, <2>2, <2>4 DEF CommitCoverage, JobShape
  <2>6. QED
    BY <1>0, <1>7, <2>3, <2>5, ShapeKept DEF CommitCoverage, StorerShape
<1>8. QED
  BY <1>1, <1>2, <1>3, <1>4, <1>5, <1>6, <1>7 DEF CoverageSteps

\* What the steps of executions without their lease, and the steps that take
\* it, have to say for themselves: those of s alone.
LEMMA ShapeKeptBy ==
    ASSUME ShapeInv, NEW x \in Singles,
           UNCHANGED <<catalog, index, indexJob, storer>>, missed' \subseteq Singles,
           coverage' \in [Singles -> Coverage], job' \in [Singles -> JobStates],
           run' \in [Singles -> Run], stray' \in [Singles -> [Strays -> Run]],
           \A s \in Singles \ {x} : /\ job'[s] = job[s] /\ run'[s] = run[s]
                                    /\ stray'[s] = stray[s] /\ coverage'[s] = coverage[s],
           job'[x] = "running" <=> run'[x].at # "idle", JobShape(x)', StrayShape(x)'
    PROVE  ShapeInv'
<1>1. TypeOK'
  BY DEF ShapeInv, TypeOK
<1>2. \A s \in Singles : JobShape(s)' /\ StrayShape(s)'
  BY DEF ShapeInv, JobShape, StrayShape
<1>3. \A w \in Storers : StorerShape(w)'
  BY DEF ShapeInv, StorerShape
<1>4. QED
  BY <1>1, <1>2, <1>3 DEF ShapeInv

LEMMA ShapeLeases ==
    ASSUME ShapeInv, NEW x \in Singles, LeaseSteps(x)
    PROVE  ShapeInv'
<1> USE Constants
<1>t. TypeOK /\ JobShape(x) /\ StrayShape(x)
  BY DEF ShapeInv
<1>0. /\ missed \subseteq Singles
      /\ coverage \in [Singles -> Coverage] /\ job \in [Singles -> JobStates]
      /\ run \in [Singles -> Run] /\ stray \in [Singles -> [Strays -> Run]]
      /\ job[x] = "running" <=> run[x].at # "idle"
  BY <1>t DEF TypeOK
<1>n. NoRun.at = "idle"
  BY DEF NoRun
<1>d. ASSUME NEW state \in {"pending", "ended"}, job[x] = "running", Disown(x, state),
             UNCHANGED <<catalog, index, coverage, indexJob, storer, missed>>
      PROVE  ShapeInv'
  <2>1. /\ job' = [job EXCEPT ![x] = state] /\ run' = [run EXCEPT ![x] = NoRun]
        /\ \E y \in Strays : stray' = [stray EXCEPT ![x][y] = run[x]]
    BY <1>d DEF Disown
  <2>2. PICK y \in Strays : stray' = [stray EXCEPT ![x][y] = run[x]]
    BY <2>1
  <2>3. coverage[x].state # "absent"
    BY <1>d, <1>t DEF JobShape
  <2>4. stray' \in [Singles -> [Strays -> Run]] /\ \A s \in Singles \ {x} : stray'[s] = stray[s]
    BY <1>0, <2>2
  <2>5. \A z \in Strays : stray'[x][z] = IF z = y THEN run[x] ELSE stray[x][z]
    BY <1>0, <2>2
  <2>6. StrayShape(x)'
    BY <1>d, <1>t, <2>3, <2>5 DEF StrayShape, JobShape
  <2>7. /\ job' \in [Singles -> JobStates] /\ run' \in [Singles -> Run]
        /\ job'[x] = state /\ run'[x] = NoRun
    BY <1>0, <2>1 DEF JobStates
  <2>8. JobShape(x)'
    BY <1>d, <1>n, <2>3, <2>7 DEF JobShape
  <2>9. QED
    BY <1>0, <1>d, <1>n, <2>1, <2>4, <2>6, <2>7, <2>8, ShapeKeptBy
<1>1. CASE LeaseLost(x)
  BY <1>1, <1>d DEF LeaseLost
<1>2. CASE CancelCoverage(x)
  <2>1. CASE job[x] = "running" /\ Disown(x, "ended")
    BY <1>2, <1>d, <2>1 DEF CancelCoverage
  <2>2. CASE job[x] \in {"pending", "waiting"} /\ job' = [job EXCEPT ![x] = "ended"]
               /\ UNCHANGED <<run, stray>>
    <3>1. /\ job' \in [Singles -> JobStates] /\ job'[x] = "ended" /\ run'[x].at = "idle"
          /\ UNCHANGED <<catalog, index, coverage, indexJob, storer, missed>>
      BY <1>0, <1>2, <2>2 DEF CancelCoverage, JobStates
    <3>2. JobShape(x)' /\ StrayShape(x)'
      BY <1>t, <2>2, <3>1 DEF JobShape, StrayShape
    <3>3. QED
      BY <1>0, <2>2, <3>1, <3>2, ShapeKeptBy
  <2>3. QED
    BY <1>2, <2>1, <2>2 DEF CancelCoverage
<1>3. CASE RetryCoverage(x)
  <2>1. /\ job' = [job EXCEPT ![x] = "pending"] /\ job[x] = "ended"
        /\ UNCHANGED <<catalog, index, coverage, indexJob, storer, run, stray, missed>>
    BY <1>3 DEF RetryCoverage
  <2>2. job' \in [Singles -> JobStates] /\ job'[x] = "pending" /\ run'[x].at = "idle"
    BY <1>0, <2>1 DEF JobStates
  <2>3. JobShape(x)' /\ StrayShape(x)'
    BY <1>t, <2>1, <2>2 DEF JobShape, StrayShape
  <2>4. QED
    BY <1>0, <2>1, <2>2, <2>3, ShapeKeptBy
\* What an execution without its lease writes of itself.
<1>y. ASSUME NEW y \in Strays, NEW next \in Run, stray' = [stray EXCEPT ![x][y] = next],
             coverage'[x] = coverage[x] \/ coverage'[x].state # "absent",
             next.at # "idle" => coverage'[x].state # "absent",
             next.at \in {"settling", "committing"} => next.outcome \in Outcomes
      PROVE  /\ stray' \in [Singles -> [Strays -> Run]] /\ StrayShape(x)'
             /\ \A s \in Singles \ {x} : stray'[s] = stray[s]
  <2>1. /\ stray' \in [Singles -> [Strays -> Run]]
        /\ \A s \in Singles \ {x} : stray'[s] = stray[s]
        /\ \A z \in Strays : stray'[x][z] = IF z = y THEN next ELSE stray[x][z]
    BY <1>0, <1>y
  <2>2. QED
    BY <1>t, <1>y, <2>1 DEF StrayShape
<1>4. ASSUME NEW y \in Strays, StrayReads(x, y) PROVE ShapeInv'
  <2>1. PICK next : /\ next \in {CatalogRead(x), IndexesRead(x, stray[x][y].needs)}
                    /\ stray' = [stray EXCEPT ![x][y] = next]
    BY <1>4 DEF StrayReads
  <2>2. /\ next \in Run /\ next.at # "committing"
        /\ next.at = "settling" => next.outcome \in Outcomes
    BY <1>t, <2>1, ReadingCatalog, ReadingIndexes
  <2>3. /\ UNCHANGED <<catalog, index, coverage, indexJob, job, storer, run, missed>>
        /\ stray[x][y].at # "idle"
    BY <1>4 DEF StrayReads
  <2>4. coverage[x].state # "absent" /\ JobShape(x)'
    BY <1>t, <2>3 DEF StrayShape, JobShape
  <2>5. /\ stray' \in [Singles -> [Strays -> Run]] /\ StrayShape(x)'
        /\ \A s \in Singles \ {x} : stray'[s] = stray[s]
    BY <1>y, <2>1, <2>2, <2>3, <2>4
  <2>6. QED
    BY <1>0, <2>3, <2>4, <2>5, ShapeKeptBy
<1>5. ASSUME NEW y \in Strays, StrayPut(x, y) PROVE ShapeInv'
  <2> DEFINE put == [state |-> "ready", from |-> stray[x][y].from]
             over == Settling("completed")
  <2>1. /\ coverage' = [coverage EXCEPT ![x] = put] /\ stray' = [stray EXCEPT ![x][y] = over]
        /\ missed' = missed \cup {x} /\ stray[x][y] \in Run /\ stray[x][y].at = "computed"
        /\ UNCHANGED <<catalog, index, indexJob, job, storer, run>>
    BY <1>0, <1>5 DEF StrayPut
  <2>2. put \in Coverage /\ put.state = "ready"
    BY <2>1 DEF Run, Coverage
  <2>3. over \in Run /\ over.at = "settling" /\ over.outcome \in Outcomes
    BY Ending DEF Outcomes, JobStates
  <2> HIDE DEF put, over
  <2>4. coverage' \in [Singles -> Coverage] /\ coverage'[x] = put
    BY <1>0, <2>1, <2>2
  <2>5. /\ stray' \in [Singles -> [Strays -> Run]] /\ StrayShape(x)'
        /\ \A s \in Singles \ {x} : stray'[s] = stray[s]
    BY <1>y, <2>1, <2>2, <2>3, <2>4
  <2>6. JobShape(x)'
    BY <1>t, <2>1, <2>2, <2>4 DEF JobShape
  <2>7. QED
    BY <1>0, <2>1, <2>4, <2>5, <2>6, ShapeKeptBy
<1>6. ASSUME NEW y \in Strays, StrayCommit(x, y) PROVE ShapeInv'
  <2>1. /\ job' = [job EXCEPT ![x] = stray[x][y].outcome] /\ stray' = [stray EXCEPT ![x][y] = run[x]]
        /\ run' = [run EXCEPT ![x] = NoRun] /\ missed' = missed \cup {x}
        /\ stray[x][y].at = "committing"
        /\ UNCHANGED <<catalog, index, coverage, indexJob, storer>>
    BY <1>6 DEF StrayCommit
  <2>2. stray[x][y].outcome \in Outcomes /\ coverage[x].state # "absent"
    BY <1>t, <2>1 DEF StrayShape
  <2>3. /\ job' \in [Singles -> JobStates] /\ job'[x] \in Outcomes
        /\ run' \in [Singles -> Run] /\ run'[x] = NoRun
    BY <1>0, <2>1, <2>2 DEF JobStates, Outcomes
  <2>4. run[x].at \in {"settling", "committing"} => run[x].outcome \in Outcomes
    BY <1>t DEF JobShape
  <2>5. /\ stray' \in [Singles -> [Strays -> Run]] /\ StrayShape(x)'
        /\ \A s \in Singles \ {x} : stray'[s] = stray[s]
    BY <1>0, <1>y, <2>1, <2>2, <2>4
  <2>6. JobShape(x)'
    BY <1>n, <2>1, <2>2, <2>3 DEF JobShape
  <2>7. QED
    BY <1>0, <1>n, <2>1, <2>3, <2>5, <2>6, ShapeKeptBy DEF Outcomes
<1>7. ASSUME NEW y \in Strays, StrayEnds(x, y) PROVE ShapeInv'
  <2>1. /\ stray' = [stray EXCEPT ![x][y] = NoRun]
        /\ UNCHANGED <<catalog, index, coverage, indexJob, job, storer, run, missed>>
    BY <1>7 DEF StrayEnds
  <2>2. /\ stray' \in [Singles -> [Strays -> Run]] /\ StrayShape(x)'
        /\ \A s \in Singles \ {x} : stray'[s] = stray[s]
    BY <1>n, <1>y, <2>1
  <2>3. JobShape(x)'
    BY <1>t, <2>1 DEF JobShape
  <2>4. QED
    BY <1>0, <2>1, <2>2, <2>3, ShapeKeptBy
<1>8. QED
  BY <1>1, <1>2, <1>3, <1>4, <1>5, <1>6, <1>7 DEF LeaseSteps

LEMMA ShapeEnvironment ==
    ASSUME ShapeInv, Environment
    PROVE  ShapeInv'
<1> USE Constants
<1>t. TypeOK /\ \A w \in Storers : StorerShape(w)
  BY DEF ShapeInv
<1>0. /\ catalog \in [Artists -> SUBSET Groups] /\ missed \subseteq Singles
      /\ index \in [Groups -> Index] /\ coverage \in [Singles -> Coverage]
      /\ indexJob \in [Groups -> JobStates] /\ job \in [Singles -> JobStates]
      /\ storer \in [Storers -> Storer] /\ run \in [Singles -> Run]
      /\ \A s \in Singles : job[s] = "running" <=> run[s].at # "idle"
      /\ \A g \in Groups :
            indexJob[g] = "running" <=> storer[Indexer].at # "idle" /\ storer[Indexer].group = g
  BY <1>t DEF TypeOK
\* What asking for indexes leaves well typed.
<1>e. ASSUME NEW G, Ensured(G)
      PROVE  /\ index' \in [Groups -> Index] /\ indexJob' \in [Groups -> JobStates]
             /\ \A g \in Groups : indexJob'[g] = "running" <=> indexJob[g] = "running"
  <2>1. EnsuredFrom(index, indexJob, G)
    BY <1>e DEF Ensured
  <2>2. QED
    BY <1>0, <2>1, Ensuring
<1>1. ASSUME NEW g \in Groups, EnsureIndex(g) PROVE ShapeInv'
  <2>1. Ensured({g})
    BY <1>1 DEF EnsureIndex
  <2>2. QED
    BY <1>0, <1>1, <2>1, <1>e, ShapeKept DEF EnsureIndex, StorerShape, JobShape
<1>2. ASSUME NEW x \in Singles, SeedSingle(x) PROVE ShapeInv'
  <2>1. Ensured({x}) /\ coverage' = PendingIfNew({x}) /\ job' = Enqueued(job, Unready({x}))
    BY <1>2 DEF SeedSingle
  <2>2. /\ coverage' \in [Singles -> Coverage] /\ job' \in [Singles -> JobStates]
        /\ \A s \in Singles :
              /\ coverage'[s] = IF s \in {x} /\ coverage[s].state = "absent"
                                THEN PendingCoverage ELSE coverage[s]
              /\ job'[s] = IF s \in {x} /\ coverage[s].state # "ready" /\ job[s] = "absent"
                           THEN "pending" ELSE job[s]
    BY <1>t, <2>1, Seeding
  <2>3. PendingCoverage.state = "pending" /\ run' = run
    BY <1>2 DEF PendingCoverage, SeedSingle
  <2>4. \A s \in Singles : JobShape(s) => JobShape(s)'
    BY <2>2, <2>3 DEF JobShape
  <2>5. \A s \in Singles : job'[s] = "running" <=> run'[s].at # "idle"
    BY <1>0, <2>2, <2>3
  <2>6. \A s \in Singles : coverage'[s] = coverage[s] \/ coverage'[s].state # "absent"
    BY <2>2, <2>3
  <2>7. QED
    BY <1>0, <1>2, <2>1, <2>2, <2>4, <2>5, <2>6, <1>e, ShapeKept DEF SeedSingle, StorerShape
<1>3. ASSUME NEW w \in Pages, PageLeaves(w) PROVE ShapeInv'
  <2>1. storer' = [storer EXCEPT ![w] = NoStore] /\ w # Indexer /\ w \in Storers
    BY <1>3 DEF PageLeaves
  <2>2. storer' \in [Storers -> Storer] /\ storer'[Indexer] = storer[Indexer]
    BY <1>0, <2>1
  <2>3. \A v \in Storers : StorerShape(v) => StorerShape(v)'
    BY <1>0, <2>1 DEF StorerShape, NoStore
  <2>4. Undone(w) \subseteq Singles
    BY <1>0, <2>1 DEF Undone, Affected, Storer
  <2>5. QED
    BY <1>0, <1>3, <2>2, <2>3, <2>4, ShapeKept DEF PageLeaves, JobShape
<1>4. ASSUME NEW w \in Pages, NEW g \in Groups, ViewGroup(w, g) PROVE ShapeInv'
  <2>1. /\ storer' = [storer EXCEPT ![w].at = "fetched", ![w].group = g]
        /\ w # Indexer /\ w \in Storers /\ Ensured({g}) /\ storer[w].at = "idle"
    BY <1>4 DEF ViewGroup
  <2> DEFINE fetched == [storer[w] EXCEPT !.at = "fetched", !.group = g]
  <2>a. storer' = [storer EXCEPT ![w] = fetched] /\ storer[w] \in Storer
    BY <1>0, <2>1
  <2>b. fetched \in Storer
    BY <2>a DEF Storer
  <2>2. storer' \in [Storers -> Storer] /\ storer'[Indexer] = storer[Indexer]
    BY <1>0, <2>1, <2>a, <2>b
  <2>3. \A v \in Storers : StorerShape(v) => StorerShape(v)'
    BY <1>0, <2>1 DEF StorerShape, Storer
  <2>4. QED
    BY <1>0, <1>4, <2>1, <2>2, <2>3, <1>e, ShapeKept DEF ViewGroup, JobShape
<1>5. ASSUME NEW w \in Pages, NEW a \in Artists, NEW listing \in Listings,
             ReplaceCatalog(w, a, listing)
      PROVE  ShapeInv'
  <2> DEFINE dirty == IF listing = catalog[a] THEN {} ELSE Singles \cap (catalog[a] \cup listing)
  <2>1. /\ w # Indexer /\ w \in Storers /\ storer[w].at = "idle"
        /\ catalog' = [catalog EXCEPT ![a] = listing]
        /\ Ensured(listing) /\ Invalidated(dirty) /\ missed' = missed \cup Overtaken(dirty)
        /\ storer' = [storer EXCEPT ![w].at = "invalidating", ![w].wake = dirty]
        /\ run' = run /\ stray' = stray
    BY <1>5 DEF ReplaceCatalog
  <2>2. dirty \subseteq Singles
    OBVIOUS
  <2> HIDE DEF dirty
  <2>3. catalog' \in [Artists -> SUBSET Groups]
    BY <1>0, <2>1, CoverageAssumption
  <2>4. /\ coverage' \in [Singles -> Coverage] /\ job' \in [Singles -> JobStates]
        /\ \A s \in Singles :
              /\ coverage'[s] = IF s \in dirty THEN PendingCoverage ELSE coverage[s]
              /\ job'[s] = IF s \in dirty /\ job[s] \in {"absent", "completed"}
                           THEN "pending" ELSE job[s]
    BY <1>t, <2>1, Invalidating
  <2> DEFINE stored == [storer[w] EXCEPT !.at = "invalidating", !.wake = dirty]
  <2>a. storer' = [storer EXCEPT ![w] = stored] /\ storer[w] \in Storer
    BY <1>0, <2>1
  <2>b. stored \in Storer
    BY <2>2, <2>a DEF Storer
  <2>5. storer' \in [Storers -> Storer] /\ storer'[Indexer] = storer[Indexer]
    BY <1>0, <2>1, <2>a, <2>b
  <2>6. \A v \in Storers : StorerShape(v) => StorerShape(v)'
    BY <1>0, <1>t, <2>1 DEF StorerShape, Storer
  <2>7. PendingCoverage.state = "pending"
    BY DEF PendingCoverage
  <2>8. \A s \in Singles : JobShape(s) => JobShape(s)'
    BY <2>1, <2>4, <2>7 DEF JobShape
  <2>9. \A s \in Singles : job'[s] = "running" <=> run'[s].at # "idle"
    BY <1>0, <2>1, <2>4
  <2>10. missed' \subseteq Singles
    BY <1>0, <2>1, <2>2 DEF Overtaken
  <2>11. \A s \in Singles : coverage'[s] = coverage[s] \/ coverage'[s].state # "absent"
    BY <2>4, <2>7
  <2>12. QED
    BY <1>0, <2>1, <2>3, <2>4, <2>5, <2>6, <2>8, <2>9, <2>10, <2>11, <1>e, ShapeKept
<1>6. ASSUME Restart PROVE ShapeInv'
  <2> DEFINE recovered == [g \in Groups |-> IF index[g].state = "resolving"
                              THEN [index[g] EXCEPT !.state = "pending"] ELSE index[g]]
             requeued  == [g \in Groups |-> IF indexJob[g] = "running" THEN "pending" ELSE indexJob[g]]
             resumed   == [s \in Singles |-> IF job[s] = "running" THEN "pending" ELSE job[s]]
             due       == {g \in Groups : recovered[g].state = "pending"}
             pending   == {s \in Singles : coverage[s].state = "pending"}
  <2>1. /\ \E nudged : EnsuredFrom(recovered, Enqueued(requeued, due), nudged)
        /\ job' = Woken(Enqueued(resumed, pending), Singles)
        /\ storer' = [w \in Storers |-> NoStore] /\ run' = [s \in Singles |-> NoRun]
        /\ missed' = missed \cup UNION {Undone(w) : w \in Storers}
        /\ stray' = [s \in Singles |-> [x \in Strays |-> NoRun]]
        /\ catalog' = catalog /\ coverage' = coverage
    BY <1>6 DEF Restart
  <2>2. recovered \in [Groups -> Index]
    <3>1. ASSUME NEW g \in Groups PROVE [index[g] EXCEPT !.state = "pending"] \in Index
      BY <1>0 DEF Index
    <3>2. QED
      BY <1>0, <3>1
  <2>3. requeued \in [Groups -> JobStates] /\ \A g \in Groups : requeued[g] # "running"
    BY <1>0 DEF JobStates
  <2>4. /\ resumed \in [Singles -> JobStates]
        /\ \A s \in Singles : resumed[s] = IF job[s] = "running" THEN "pending" ELSE job[s]
    BY <1>0 DEF JobStates
  <2> HIDE DEF recovered, requeued, resumed, due
  <2>5. /\ Enqueued(requeued, due) \in [Groups -> JobStates]
        /\ \A g \in Groups : Enqueued(requeued, due)[g] # "running"
    BY <2>3, Queued
  <2>6. /\ index' \in [Groups -> Index] /\ indexJob' \in [Groups -> JobStates]
        /\ \A g \in Groups : indexJob'[g] # "running"
    BY <2>1, <2>2, <2>5, Ensuring
  <2> DEFINE queued == Enqueued(resumed, pending)
  <2>7. /\ queued \in [Singles -> JobStates]
        /\ \A s \in Singles : queued[s] = IF s \in pending /\ resumed[s] = "absent"
                                          THEN "pending" ELSE resumed[s]
    BY <2>4, Queued
  <2>8. job' = Woken(queued, Singles)
    BY <2>1
  <2> HIDE DEF queued
  <2>9. /\ job' \in [Singles -> JobStates]
        /\ \A s \in Singles : job'[s] = IF queued[s] = "waiting" THEN "pending" ELSE queued[s]
    BY <2>7, <2>8, Queued
  <2>10. NoRun.at = "idle" /\ NoStore.at = "idle" /\ NoStore.left = {} /\ NoStore.wake = {}
    BY DEF NoRun, NoStore
  <2>11. /\ storer' \in [Storers -> Storer] /\ storer'[Indexer].at = "idle"
         /\ run' \in [Singles -> Run] /\ \A s \in Singles : run'[s].at = "idle"
    BY <2>1, <2>10
  <2>12. \A v \in Storers : StorerShape(v)'
    BY <2>1, <2>10 DEF StorerShape
  <2>13. \A s \in Singles : job'[s] # "running"
    BY <2>4, <2>7, <2>9
  <2>14. ASSUME NEW s \in Singles, JobShape(s) PROVE JobShape(s)'
    BY <2>1, <2>4, <2>7, <2>9, <2>11, <2>14 DEF JobShape
  <2>15. missed' \subseteq Singles
    <3>1. ASSUME NEW w \in Storers PROVE Undone(w) \subseteq Singles
      BY <1>0 DEF Undone, Affected, Storer
    <3>2. QED
      BY <1>0, <2>1, <3>1
  <2>16. stray' \in [Singles -> [Strays -> Run]] /\ \A s \in Singles : StrayShape(s)'
    BY <2>1, <2>10 DEF StrayShape
  <2>17. TypeOK'
    BY <1>0, <2>1, <2>6, <2>9, <2>11, <2>13, <2>15, <2>16 DEF TypeOK
  <2>18. QED
    BY <1>t, <2>12, <2>14, <2>16, <2>17 DEF ShapeInv
<1>7. QED
  BY <1>1, <1>2, <1>3, <1>4, <1>5, <1>6 DEF Environment

LEMMA ShapeNext == ShapeInv /\ [Next]_vars => ShapeInv'
<1> SUFFICES ASSUME ShapeInv, [Next]_vars PROVE ShapeInv'
  OBVIOUS
<1>1. CASE UNCHANGED vars
  BY <1>1 DEF vars, ShapeInv, TypeOK, StorerShape, JobShape, StrayShape
<1>2. QED
  BY <1>1, ShapeIndexing, ShapeComputing, ShapeLeases, ShapeEnvironment DEF Next

(***************************************************************************)
(* The invariant of a single.                                              *)
(***************************************************************************)
\* What an action has to say that is not about s.
LEMMA Kept ==
    ASSUME NEW s \in Singles, SingleInv(s), JobShape(s),
           job[s] = "running" <=> run[s].at # "idle",
           s \notin missed' => s \notin missed,
           Needs(s)' = Needs(s), Listed(s)' <=> Listed(s), run'[s] = run[s],
           job'[s] = job[s] \/ (job[s] = "absent" /\ job'[s] = "pending"),
           \/ coverage'[s] = coverage[s]
           \/ coverage[s].state = "absent" /\ coverage'[s].state = "pending" /\ job'[s] = "pending",
           Blocked(s) => Blocked(s)' \/ Awaited(s)',
           s \notin missed' /\ Awaited(s) => Awaited(s)',
           s \notin missed' => \A w \in Storers : Unsettled(w, s) => Unsettled(w, s)',
           \/ \A g \in Needs(s) : index'[g].tracks = index[g].tracks
           \/ \E w \in Storers : Unsettled(w, s)'
           \/ ~Listed(s)
    PROVE  SingleInv(s)'
<1> SUFFICES ASSUME s \notin missed'
             PROVE  PendingOwed(s)' /\ NeedsAreCurrent(s)' /\ WaitIsJustified(s)' /\ StoredIsCurrent(s)'
  BY DEF SingleInv
<1>0. PendingOwed(s) /\ NeedsAreCurrent(s) /\ WaitIsJustified(s) /\ StoredIsCurrent(s)
  BY DEF SingleInv
<1>1. PendingOwed(s)'
  BY <1>0 DEF PendingOwed, Settles, JobShape
<1>2. NeedsAreCurrent(s)'
  BY <1>0 DEF NeedsAreCurrent
<1>3. WaitIsJustified(s)'
  BY <1>0 DEF WaitIsJustified, Settles
<1>4. StoredIsCurrent(s)'
  <2> SUFFICES ASSUME \A w \in Storers : ~Unsettled(w, s)', Listed(s)'
               PROVE  /\ run'[s].at = "computed" => run'[s].from = ComputedFrom(Needs(s))'
                      /\ coverage'[s].state = "ready"
                            /\ (job'[s] \in {"absent", "completed"} \/ Settles(s, "completed")')
                         => Current(s)'
    BY DEF StoredIsCurrent
  <2>1. ComputedFrom(Needs(s))' = ComputedFrom(Needs(s))
    BY DEF ComputedFrom
  <2>2. (\A w \in Storers : ~Unsettled(w, s)) /\ Listed(s)
    OBVIOUS
  <2>3. run[s].at = "computed" => run[s].from = ComputedFrom(Needs(s))
    BY <1>0, <2>2 DEF StoredIsCurrent
  <2>4. coverage[s].state = "ready" /\ (job[s] \in {"absent", "completed"} \/ Settles(s, "completed"))
           => Current(s)
    BY <1>0, <2>2 DEF StoredIsCurrent
  <2>5. Settles(s, "completed") => job[s] # "absent" /\ coverage'[s] = coverage[s]
    BY DEF Settles, JobShape
  <2>6. QED
    BY <2>1, <2>3, <2>4, <2>5 DEF Current, Settles
<1>5. QED
  BY <1>1, <1>2, <1>3, <1>4

LEMMA SameCatalog ==
    ASSUME catalog' = catalog
    PROVE  /\ \A s : Needs(s)' = Needs(s) /\ (Listed(s)' <=> Listed(s))
           /\ \A g : Affected(g)' = Affected(g)
BY DEF Needs, Listed, Listers, Affected

LEMMA SameIndex ==
    ASSUME NEW s \in Singles, Needs(s)' = Needs(s),
           \A g \in Groups : /\ index'[g].tracks = index[g].tracks
                             /\ index'[g].state = "indexed" => index[g].state = "indexed"
    PROVE  /\ Blocked(s) => Blocked(s)'
           /\ \A g \in Needs(s) : index'[g].tracks = index[g].tracks
BY Constants DEF Blocked, Needs

LEMMA StorerStands ==
    ASSUME NEW s, NEW v, storer'[v] = storer[v],
           \A g : s \in Affected(g)' <=> s \in Affected(g)
    PROVE  (s \in Undone(v)' <=> s \in Undone(v)) /\ (Unsettled(v, s)' <=> Unsettled(v, s))
BY DEF Undone, Unsettled

\* One storer changes, and owes s what it owed before or more.
LEMMA StorersStand ==
    ASSUME NEW s, NEW w \in Storers, \A v \in Storers \ {w} : storer'[v] = storer[v],
           \A g : s \in Affected(g)' <=> s \in Affected(g),
           s \in Undone(w) => s \in Undone(w)', Unsettled(w, s) => Unsettled(w, s)'
    PROVE  /\ Awaited(s) => Awaited(s)'
           /\ \A v \in Storers : Unsettled(v, s) => Unsettled(v, s)'
BY StorerStands DEF Awaited

\* Nobody owes anything while it does not store or invalidate.
LEMMA OweNothing ==
    ASSUME NEW w \in Storers, StorerShape(w), storer[w].at \notin {"stored", "invalidating"}
    PROVE  Undone(w) = {} /\ \A s : ~Unsettled(w, s)
BY DEF Undone, Unsettled, StorerShape

\* After an invalidation or a wake-up that met no execution past its claim.
LEMMA Fresh ==
    ASSUME NEW s \in Singles,
           s \notin missed' => run'[s].at \in {"idle", "claimed"},
           s \notin missed' => (coverage'[s].state = "pending" /\ Listed(s)'
                                   => job'[s] \in {"pending", "running", "waiting", "ended"}),
           s \notin missed' => (job'[s] = "waiting" => Blocked(s)' \/ Awaited(s)'),
           s \notin missed' => (/\ \A w \in Storers : ~Unsettled(w, s)'
                                /\ Listed(s)' /\ coverage'[s].state = "ready"
                                /\ job'[s] \in {"absent", "completed"}
                                => Current(s)')
    PROVE  SingleInv(s)'
BY DEF SingleInv, PendingOwed, NeedsAreCurrent, WaitIsJustified, StoredIsCurrent, Settles

\* Asking for indexes leaves tracklists alone and takes "indexed" away only.
LEMMA Asking ==
    ASSUME TypeOK, NEW G, Ensured(G)
    PROVE  \A g \in Groups : /\ index'[g].tracks = index[g].tracks
                             /\ index'[g].state = "indexed" => index[g].state = "indexed"
<1>1. index \in [Groups -> Index] /\ indexJob \in [Groups -> JobStates]
  BY DEF TypeOK
<1>2. EnsuredFrom(index, indexJob, G)
  BY DEF Ensured
<1>3. QED
  BY <1>1, <1>2, Ensuring

LEMMA SingleComputing ==
    ASSUME CoverageInv, NEW x \in Singles, CoverageSteps(x), NEW s \in Singles
    PROVE  SingleInv(s)'
<1>0. /\ TypeOK /\ JobShape(s) /\ SingleInv(s)
      /\ job \in [Singles -> JobStates] /\ run \in [Singles -> Run]
      /\ coverage \in [Singles -> Coverage]
      /\ job[s] = "running" <=> run[s].at # "idle"
  BY DEF CoverageInv, ShapeInv, TypeOK
<1>1. catalog' = catalog /\ index' = index /\ storer' = storer
  BY DEF CoverageSteps, StartCoverage, ReadCatalog, ReadIndexes, PutCoverage, CoverageFails,
         SettleCoverage, CommitCoverage
<1>2. /\ Needs(s)' = Needs(s) /\ (Listed(s)' <=> Listed(s))
      /\ Blocked(s)' <=> Blocked(s)
      /\ Awaited(s)' <=> Awaited(s)
      /\ \A w \in Storers : Unsettled(w, s)' <=> Unsettled(w, s)
      /\ ComputedFrom(Needs(s))' = ComputedFrom(Needs(s))
  BY <1>1 DEF Needs, Listed, Listers, Blocked, Awaited, Undone, Affected, Unsettled, ComputedFrom
<1>3. CASE s # x
  <2>1. run'[s] = run[s] /\ job'[s] = job[s] /\ coverage'[s] = coverage[s]
    <3>1. CASE StartCoverage(x)
      BY <1>0, <1>3, <3>1 DEF StartCoverage
    <3>2. CASE ReadCatalog(x)
      BY <1>0, <1>3, <3>2 DEF ReadCatalog
    <3>3. CASE ReadIndexes(x)
      BY <1>0, <1>3, <3>3 DEF ReadIndexes
    <3>4. CASE PutCoverage(x)
      BY <1>0, <1>3, <3>4 DEF PutCoverage
    <3>5. CASE CoverageFails(x)
      BY <1>0, <1>3, <3>5 DEF CoverageFails
    <3>6. CASE SettleCoverage(x)
      BY <1>0, <1>3, <3>6 DEF SettleCoverage
    <3>7. CASE CommitCoverage(x)
      BY <1>0, <1>3, <3>7 DEF CommitCoverage
    <3>8. QED
      BY <3>1, <3>2, <3>3, <3>4, <3>5, <3>6, <3>7 DEF CoverageSteps
  <2>2. s \notin missed' => s \notin missed
    BY <1>3 DEF CoverageSteps, StartCoverage, ReadCatalog, ReadIndexes, PutCoverage, CoverageFails,
         SettleCoverage, CommitCoverage
  <2>3. QED
    BY <1>0, <1>1, <1>2, <2>1, <2>2, Kept
<1>4. CASE s = x /\ StartCoverage(x)
  <2>1. run'[s].at = "claimed" /\ job'[s] = "running"
    BY <1>0, <1>4 DEF StartCoverage, NoRun
  <2>2. QED
    BY <2>1, Fresh
<1>5. ASSUME s = x, ~StartCoverage(x), s \notin missed'
      PROVE  PendingOwed(s)' /\ NeedsAreCurrent(s)' /\ WaitIsJustified(s)' /\ StoredIsCurrent(s)'
  <2>0. s \notin missed
    BY <1>5 DEF CoverageSteps, ReadCatalog, ReadIndexes, PutCoverage, CoverageFails,
           SettleCoverage, CommitCoverage
  <2>1. PendingOwed(s) /\ NeedsAreCurrent(s) /\ WaitIsJustified(s) /\ StoredIsCurrent(s)
    BY <1>0, <2>0 DEF SingleInv
  <2>2. CASE ReadCatalog(x)
    <3>1. /\ run[s].at = "claimed" /\ job'[s] = job[s] /\ job[s] = "running" /\ coverage' = coverage
          /\ IF Listed(s) THEN run'[s].at = "listed" /\ run'[s].needs = Needs(s)
                          ELSE run'[s].at = "settling" /\ run'[s].outcome = "completed"
      BY <1>0, <1>5, <2>2, ReadingCatalog DEF ReadCatalog
    <3>2. QED
      BY <1>2, <3>1 DEF PendingOwed, NeedsAreCurrent, WaitIsJustified, StoredIsCurrent, Settles
  <2>3. CASE ReadIndexes(x)
    <3>1. /\ run[s].at = "listed" /\ job'[s] = job[s] /\ job[s] = "running" /\ coverage' = coverage
          /\ IF Computable(s, run[s].needs)
             THEN run'[s].at = "computed" /\ run'[s].from = ComputedFrom(run[s].needs)
             ELSE run'[s].at = "settling" /\ run'[s].outcome = "waiting"
      BY <1>0, <1>5, <2>3, ReadingIndexes DEF ReadIndexes
    <3>2. run[s].needs = Needs(s)
      BY <2>1, <3>1 DEF NeedsAreCurrent
    <3>3. ~Computable(s, Needs(s)) => Blocked(s)
      BY DEF Computable, Blocked
    <3>4. QED
      BY <1>2, <3>1, <3>2, <3>3 DEF PendingOwed, NeedsAreCurrent, WaitIsJustified, StoredIsCurrent, Settles
  <2>4. CASE PutCoverage(x)
    <3>1. /\ run[s].at = "computed" /\ job'[s] = job[s] /\ job[s] = "running"
          /\ coverage'[s].state = "ready" /\ coverage'[s].from = run[s].from
          /\ run'[s].at = "settling" /\ run'[s].outcome = "completed"
      BY <1>0, <1>5, <2>4, Ending DEF PutCoverage, JobStates
    <3>2. (\A w \in Storers : ~Unsettled(w, s)) /\ Listed(s) => run[s].from = ComputedFrom(Needs(s))
      BY <2>1, <3>1 DEF StoredIsCurrent
    <3>3. QED
      BY <1>2, <3>1, <3>2
      DEF PendingOwed, NeedsAreCurrent, WaitIsJustified, StoredIsCurrent, Settles, Current
  <2>5. CASE CoverageFails(x)
    <3>1. /\ run[s].at # "idle" /\ job'[s] = job[s] /\ job[s] = "running" /\ coverage' = coverage
          /\ run'[s].at = "settling" /\ run'[s].outcome \in {"pending", "ended"}
      BY <1>0, <1>5, <2>5, Ending DEF CoverageFails, JobStates
    <3>2. QED
      BY <1>2, <3>1 DEF PendingOwed, NeedsAreCurrent, WaitIsJustified, StoredIsCurrent, Settles
  <2>6. CASE SettleCoverage(x)
    <3>1. /\ run[s].at = "settling" /\ job'[s] = job[s] /\ job[s] = "running" /\ coverage' = coverage
          /\ run'[s].at = "committing" /\ run'[s].outcome = run[s].outcome
      BY <1>0, <1>5, <2>6 DEF SettleCoverage, Run
    <3>2. QED
      BY <1>2, <2>1, <3>1
      DEF PendingOwed, NeedsAreCurrent, WaitIsJustified, StoredIsCurrent, Settles, Current
  <2>7. CASE CommitCoverage(x)
    <3>1. /\ run[s].at = "committing" /\ job'[s] = run[s].outcome /\ coverage' = coverage
          /\ run'[s].at = "idle" /\ run[s].outcome \in Outcomes
      BY <1>0, <1>5, <2>7 DEF CommitCoverage, NoRun, JobShape
    <3>2. QED
      BY <1>2, <2>1, <3>1
      DEF PendingOwed, NeedsAreCurrent, WaitIsJustified, StoredIsCurrent, Settles, Current, Outcomes
  <2>8. QED
    BY <1>5, <2>2, <2>3, <2>4, <2>5, <2>6, <2>7 DEF CoverageSteps
<1>6. QED
  BY <1>3, <1>4, <1>5 DEF SingleInv

LEMMA SingleLeases ==
    ASSUME CoverageInv, NEW x \in Singles, LeaseSteps(x), NEW s \in Singles
    PROVE  SingleInv(s)'
<1>0. /\ TypeOK /\ JobShape(s) /\ SingleInv(s)
      /\ job \in [Singles -> JobStates] /\ run \in [Singles -> Run]
      /\ coverage \in [Singles -> Coverage]
      /\ job[s] = "running" <=> run[s].at # "idle"
  BY DEF CoverageInv, ShapeInv, TypeOK
<1>1. catalog' = catalog /\ index' = index /\ storer' = storer
  BY DEF LeaseSteps, LeaseLost, CancelCoverage, RetryCoverage, StrayReads, StrayPut, StrayCommit,
         StrayEnds
<1>2. /\ Needs(s)' = Needs(s) /\ (Listed(s)' <=> Listed(s))
      /\ Blocked(s)' <=> Blocked(s)
      /\ Awaited(s)' <=> Awaited(s)
      /\ \A w \in Storers : Unsettled(w, s)' <=> Unsettled(w, s)
  BY <1>1 DEF Needs, Listed, Listers, Blocked, Awaited, Undone, Affected, Unsettled
\* A job that lost its lease, or was cancelled or retried, will compute s anew.
<1>3. CASE s = x /\ (LeaseLost(x) \/ CancelCoverage(x) \/ RetryCoverage(x))
  <2>1. job'[s] \in {"pending", "ended"} /\ run'[s].at = "idle"
    <3>1. CASE LeaseLost(x)
      BY <1>0, <1>3, <3>1 DEF LeaseLost, Disown, NoRun
    <3>2. CASE CancelCoverage(x)
      BY <1>0, <1>3, <3>2 DEF CancelCoverage, Disown, NoRun
    <3>3. CASE RetryCoverage(x)
      BY <1>0, <1>3, <3>3 DEF RetryCoverage
    <3>4. QED
      BY <1>3, <3>1, <3>2, <3>3
  <2>2. QED
    BY <2>1, Fresh
<1>4. CASE s = x /\ \E y \in Strays : StrayPut(x, y) \/ StrayCommit(x, y)
  <2>1. s \in missed'
    BY <1>4 DEF StrayPut, StrayCommit
  <2>2. QED
    BY <2>1 DEF SingleInv
<1>5. CASE s # x \/ \E y \in Strays : StrayReads(x, y) \/ StrayEnds(x, y)
  <2>1. /\ run'[s] = run[s] /\ job'[s] = job[s] /\ coverage'[s] = coverage[s]
        /\ s \notin missed' => s \notin missed
    <3>1. CASE LeaseLost(x)
      BY <1>0, <1>5, <3>1 DEF LeaseLost, Disown, StrayReads, StrayEnds
    <3>2. CASE CancelCoverage(x)
      BY <1>0, <1>5, <3>2 DEF CancelCoverage, Disown, StrayReads, StrayEnds
    <3>3. CASE RetryCoverage(x)
      BY <1>0, <1>5, <3>3 DEF RetryCoverage, StrayReads, StrayEnds
    <3>4. ASSUME NEW y \in Strays, StrayReads(x, y) \/ StrayEnds(x, y)
          PROVE  /\ run'[s] = run[s] /\ job'[s] = job[s] /\ coverage'[s] = coverage[s]
                 /\ s \notin missed' => s \notin missed
      BY <3>4 DEF StrayReads, StrayEnds
    <3>5. ASSUME s # x, NEW y \in Strays, StrayPut(x, y) \/ StrayCommit(x, y)
          PROVE  /\ run'[s] = run[s] /\ job'[s] = job[s] /\ coverage'[s] = coverage[s]
                 /\ s \notin missed' => s \notin missed
      BY <1>0, <3>5 DEF StrayPut, StrayCommit
    <3>6. QED
      BY <1>5, <3>1, <3>2, <3>3, <3>4, <3>5 DEF LeaseSteps
  <2>2. QED
    BY <1>0, <1>1, <1>2, <2>1, Kept
<1>6. QED
  BY <1>3, <1>4, <1>5 DEF LeaseSteps

LEMMA SingleIndexing ==
    ASSUME CoverageInv, IndexSteps, NEW s \in Singles
    PROVE  SingleInv(s)'
<1> USE Constants
<1>0. /\ TypeOK /\ JobShape(s) /\ SingleInv(s) /\ \A w \in Storers : StorerShape(w)
      /\ job \in [Singles -> JobStates] /\ coverage \in [Singles -> Coverage]
      /\ index \in [Groups -> Index] /\ storer \in [Storers -> Storer]
      /\ job[s] = "running" <=> run[s].at # "idle"
  BY DEF CoverageInv, ShapeInv, TypeOK
<1>1. catalog' = catalog /\ run' = run
  BY DEF IndexSteps, StartIndex, FindAffected, ResumeWaiting, PutIndex, Invalidate, Follow,
         IndexFails, SettleIndex
<1>2. /\ Needs(s)' = Needs(s) /\ (Listed(s)' <=> Listed(s))
      /\ \A g : Affected(g)' = Affected(g)
      /\ \A g : s \in Affected(g)' <=> s \in Affected(g)
  BY <1>1, SameCatalog
<1>3. ASSUME NEW g \in Groups, StartIndex(g) PROVE SingleInv(s)'
  <2>1. /\ index' = [index EXCEPT ![g].state = "resolving"]
        /\ storer[Indexer].at = "idle"
        /\ \A v \in Storers \ {Indexer} : storer'[v] = storer[v]
        /\ coverage' = coverage /\ job' = job /\ missed' = missed
    BY <1>0, <1>3 DEF StartIndex
  <2>2. \A h \in Groups : /\ index'[h].tracks = index[h].tracks
                          /\ index'[h].state = "indexed" => index[h].state = "indexed"
    BY <1>0, <2>1 DEF Index
  <2>3. Undone(Indexer) = {} /\ ~Unsettled(Indexer, s)
    BY <1>0, <2>1, OweNothing
  <2>4. (Awaited(s) => Awaited(s)') /\ \A v \in Storers : Unsettled(v, s) => Unsettled(v, s)'
    BY <1>2, <2>1, <2>3, StorersStand
  <2>5. (Blocked(s) => Blocked(s)') /\ \A h \in Needs(s) : index'[h].tracks = index[h].tracks
    BY <1>2, <2>2, SameIndex
  <2>6. QED
    BY <1>0, <1>1, <1>2, <2>1, <2>4, <2>5, Kept
<1>4. ASSUME NEW w \in Storers, FindAffected(w) PROVE SingleInv(s)'
  <2>1. /\ storer[w].at = "stored" /\ storer'[w].at = "invalidating"
        /\ storer'[w].left = IF storer[w].changed THEN Affected(storer[w].group) ELSE {}
        /\ storer'[w].wake = storer'[w].left \cup ({storer[w].group} \cap Singles)
        /\ \A v \in Storers \ {w} : storer'[v] = storer[v]
        /\ index' = index /\ coverage' = coverage /\ job' = job /\ missed' = missed
    BY <1>0, <1>4 DEF FindAffected, NoStore
  <2>2. storer[w].left = {} /\ storer[w].wake = {}
    BY <1>0, <2>1 DEF StorerShape
  <2>3. (s \in Undone(w) => s \in Undone(w)') /\ (Unsettled(w, s) => Unsettled(w, s)')
    BY <2>1, <2>2 DEF Undone, Unsettled
  <2>4. (Awaited(s) => Awaited(s)') /\ \A v \in Storers : Unsettled(v, s) => Unsettled(v, s)'
    BY <1>2, <2>1, <2>3, StorersStand
  <2>5. (Blocked(s) => Blocked(s)') /\ \A h \in Needs(s) : index'[h].tracks = index[h].tracks
    BY <1>2, <2>1, SameIndex
  <2>6. QED
    BY <1>0, <1>1, <1>2, <2>1, <2>4, <2>5, Kept
<1>5. ASSUME NEW w \in Storers, ResumeWaiting(w) PROVE SingleInv(s)'
  <2>1. /\ storer[w].at = "invalidating" /\ storer[w].left = {}
        /\ missed' = missed \cup Overtaken(storer[w].wake)
        /\ \A v \in Storers \ {w} : storer'[v] = storer[v]
        /\ index' = index /\ coverage' = coverage
    BY <1>0, <1>5 DEF ResumeWaiting
  <2>2. job'[s] = IF s \in storer[w].wake /\ job[s] = "waiting" THEN "pending" ELSE job[s]
    BY <1>0, <1>5, Queued DEF ResumeWaiting
  <2>3. ~Unsettled(w, s) /\ (s \in Undone(w) <=> s \in storer[w].wake)
    BY <2>1 DEF Unsettled, Undone
  <2>4. \A v \in Storers : Unsettled(v, s) => Unsettled(v, s)'
    BY <1>2, <2>1, <2>3, StorerStands
  <2>5. CASE s \notin storer[w].wake
    <3>1. Awaited(s) => Awaited(s)'
      BY <1>2, <2>1, <2>3, <2>5, StorersStand
    <3>2. (Blocked(s) => Blocked(s)') /\ \A h \in Needs(s) : index'[h].tracks = index[h].tracks
      BY <1>2, <2>1, SameIndex
    <3>3. QED
      BY <1>0, <1>1, <1>2, <2>1, <2>2, <2>4, <2>5, <3>1, <3>2, Kept
  <2>6. CASE s \in storer[w].wake
    <3> SUFFICES ASSUME s \notin missed'
                 PROVE  SingleInv(s)'
      BY DEF SingleInv
    <3>1. run'[s].at \in {"idle", "claimed"} /\ s \notin missed
      BY <1>1, <2>1, <2>6 DEF Overtaken
    <3>2. job'[s] # "waiting" /\ (job'[s] \in {"absent", "completed"} => job[s] = job'[s])
      BY <2>2, <2>6
    <3>3. PendingOwed(s) /\ StoredIsCurrent(s)
      BY <1>0, <3>1 DEF SingleInv
    <3>4. coverage'[s].state = "pending" /\ Listed(s)' => job'[s] \in {"pending", "running", "waiting", "ended"}
      BY <1>2, <2>1, <2>2, <3>3 DEF PendingOwed
    <3>5. Current(s)' <=> Current(s)
      BY <1>2, <2>1 DEF Current, ComputedFrom
    <3>6. /\ \A v \in Storers : ~Unsettled(v, s)'
          /\ Listed(s)' /\ coverage'[s].state = "ready" /\ job'[s] \in {"absent", "completed"}
          => Current(s)'
      BY <1>2, <2>1, <2>4, <3>2, <3>3, <3>5 DEF StoredIsCurrent
    <3>7. QED
      BY <3>1, <3>2, <3>4, <3>6, Fresh
  <2>7. QED
    BY <2>5, <2>6
<1>6. ASSUME NEW w \in Storers, NEW tracks \in Tracklists, PutIndex(w, tracks) PROVE SingleInv(s)'
  <2> DEFINE g == storer[w].group
  <2>1. /\ storer[w].at = "fetched" /\ storer'[w].at = "stored"
        /\ storer'[w].group = g /\ storer'[w].changed = (index[g].tracks # tracks)
        /\ \A v \in Storers \ {w} : storer'[v] = storer[v]
        /\ index' = [index EXCEPT ![g] = [state |-> "indexed", tracks |-> tracks]]
        /\ coverage' = coverage /\ job' = job /\ missed' = missed
    BY <1>0, <1>6 DEF PutIndex, Changed, Storer
  <2>2. Undone(w) = {} /\ ~Unsettled(w, s)
    BY <1>0, <2>1, OweNothing
  <2>3. (Awaited(s) => Awaited(s)') /\ \A v \in Storers : Unsettled(v, s) => Unsettled(v, s)'
    BY <1>2, <2>1, <2>2, StorersStand
  <2> HIDE DEF g
  <2>4. CASE g \notin Needs(s)
    <3>1. \A h \in Needs(s) : index'[h] = index[h]
      BY <1>0, <2>1, <2>4 DEF Needs
    <3>2. s \in Needs(s)
      BY NeedsItself
    <3>3. Blocked(s) => Blocked(s)'
      BY <1>2, <3>1, <3>2 DEF Blocked
    <3>4. QED
      BY <1>0, <1>1, <1>2, <2>1, <2>3, <3>1, <3>3, Kept
  <2>5. CASE g \in Needs(s) /\ index[g].tracks = tracks
    <3>1. g \in Groups
      BY <2>5 DEF Needs
    <3>2. \A h \in Groups : /\ index'[h].tracks = index[h].tracks
                            /\ h # g => index'[h] = index[h]
      BY <1>0, <2>1, <2>5, <3>1
    <3>3. ASSUME s = g PROVE Awaited(s)'
      <4>1. s \in Undone(w)'
        BY <2>1, <3>3 DEF Undone
      <4>2. QED
        BY <4>1 DEF Awaited
    <3>4. Blocked(s) => Blocked(s)' \/ Awaited(s)'
      <4>1. \A h \in Needs(s) : h \in Groups
        BY DEF Needs
      <4>2. QED
        BY <1>2, <3>2, <3>3, <4>1 DEF Blocked
    <3>5. \A h \in Needs(s) : index'[h].tracks = index[h].tracks
      BY <3>2 DEF Needs
    <3>6. QED
      BY <1>0, <1>1, <1>2, <2>1, <2>3, <3>4, <3>5, Kept
  <2>6. CASE g \in Needs(s) /\ index[g].tracks # tracks
    <3>1. Listed(s) => s \in Affected(g)
      BY <2>6 DEF Needs, Affected, Listed
    <3>2. Listed(s) => Unsettled(w, s)'
      BY <1>2, <2>1, <2>6, <3>1 DEF Unsettled
    <3>3. s \in Undone(w)'
      <4>1. s = g \/ Listed(s)
        BY <2>6 DEF Needs, Listed
      <4>2. QED
        BY <1>2, <2>1, <2>6, <3>1, <4>1 DEF Undone
    <3>4. Awaited(s)'
      BY <3>3 DEF Awaited
    <3>5. QED
      BY <1>0, <1>1, <1>2, <2>1, <2>3, <3>2, <3>4, Kept
  <2>7. QED
    BY <2>4, <2>5, <2>6
<1>7. ASSUME NEW w \in Storers, NEW x \in Singles, Invalidate(w, x) PROVE SingleInv(s)'
  <2>1. /\ storer[w].at = "invalidating" /\ x \in storer[w].left
        /\ storer'[w] = [storer[w] EXCEPT !.left = @ \ {x}]
        /\ \A v \in Storers \ {w} : storer'[v] = storer[v]
        /\ Invalidated({x}) /\ missed' = missed \cup Overtaken({x}) /\ index' = index
    BY <1>0, <1>7 DEF Invalidate
  <2>2. /\ coverage'[s] = IF s \in {x} THEN PendingCoverage ELSE coverage[s]
        /\ job'[s] = IF s \in {x} /\ job[s] \in {"absent", "completed"} THEN "pending" ELSE job[s]
    BY <1>0, <2>1, Invalidating
  <2>3. /\ storer'[w].at = "invalidating" /\ storer'[w].wake = storer[w].wake
        /\ storer'[w].left = storer[w].left \ {x}
    BY <1>0, <2>1 DEF Storer
  <2>4. CASE s # x
    <3>1. (s \in Undone(w) => s \in Undone(w)') /\ (Unsettled(w, s) => Unsettled(w, s)')
      BY <2>1, <2>3, <2>4 DEF Undone, Unsettled
    <3>2. (Awaited(s) => Awaited(s)') /\ \A v \in Storers : Unsettled(v, s) => Unsettled(v, s)'
      BY <1>2, <2>1, <3>1, StorersStand
    <3>3. (Blocked(s) => Blocked(s)') /\ \A h \in Needs(s) : index'[h].tracks = index[h].tracks
      BY <1>2, <2>1, SameIndex
    <3>4. QED
      BY <1>0, <1>1, <1>2, <2>1, <2>2, <2>4, <3>2, <3>3, Kept
  <2>5. CASE s = x
    <3>1. s \in storer'[w].wake
      BY <1>0, <2>1, <2>3, <2>5 DEF StorerShape
    <3>2. Awaited(s)'
      BY <2>3, <3>1 DEF Awaited, Undone
    <3>3. s \notin missed' => run'[s].at \in {"idle", "claimed"}
      BY <1>1, <2>1, <2>5 DEF Overtaken
    <3>4. job[s] \in JobStates /\ coverage'[s].state = "pending"
      BY <1>0, <2>2, <2>5 DEF PendingCoverage
    <3>5. job'[s] \in {"pending", "running", "waiting", "ended"}
      BY <2>2, <2>5, <3>4 DEF JobStates
    <3>6. QED
      BY <3>2, <3>3, <3>4, <3>5, Fresh
  <2>6. QED
    BY <2>4, <2>5
<1>8. ASSUME Follow PROVE SingleInv(s)'
  <2> DEFINE single == {storer[Indexer].group} \cap Singles
  <2>1. /\ coverage' = PendingIfNew(single) /\ job' = Enqueued(job, Unready(single))
        /\ storer[Indexer].at = "following" /\ index' = index /\ missed' = missed
        /\ \A v \in Storers \ {Indexer} : storer'[v] = storer[v]
    BY <1>0, <1>8 DEF Follow
  <2> HIDE DEF single
  <2>2. /\ coverage'[s] = IF s \in single /\ coverage[s].state = "absent"
                          THEN PendingCoverage ELSE coverage[s]
        /\ job'[s] = IF s \in single /\ coverage[s].state # "ready" /\ job[s] = "absent"
                     THEN "pending" ELSE job[s]
    BY <1>0, <2>1, Seeding
  <2>3. Undone(Indexer) = {} /\ ~Unsettled(Indexer, s)
    BY <1>0, <2>1, OweNothing
  <2>4. (Awaited(s) => Awaited(s)') /\ \A v \in Storers : Unsettled(v, s) => Unsettled(v, s)'
    BY <1>2, <2>1, <2>3, StorersStand
  <2>5. (Blocked(s) => Blocked(s)') /\ \A h \in Needs(s) : index'[h].tracks = index[h].tracks
    BY <1>2, <2>1, SameIndex
  <2>6. PendingCoverage.state = "pending" /\ (coverage[s].state = "absent" => job[s] = "absent")
    BY <1>0 DEF PendingCoverage, JobShape
  <2>7. QED
    BY <1>0, <1>1, <1>2, <2>1, <2>2, <2>4, <2>5, <2>6, Kept
<1>9. ASSUME IndexFails PROVE SingleInv(s)'
  <2>1. /\ missed' = missed \cup Undone(Indexer)
        /\ \A v \in Storers \ {Indexer} : storer'[v] = storer[v]
        /\ coverage' = coverage /\ job' = job
    BY <1>0, <1>9 DEF IndexFails
  <2>2. PICK state \in {"pending", "failed"} :
           index' = [index EXCEPT ![storer[Indexer].group].state = state]
    BY <1>9 DEF IndexFails
  <2>3. \A h \in Groups : /\ index'[h].tracks = index[h].tracks
                          /\ index'[h].state = "indexed" => index[h].state = "indexed"
    BY <1>0, <2>2 DEF Index
  <2>4. (Blocked(s) => Blocked(s)') /\ \A h \in Needs(s) : index'[h].tracks = index[h].tracks
    BY <1>2, <2>3, SameIndex
  <2>5. s \notin missed' => s \notin Undone(Indexer) /\ ~Unsettled(Indexer, s)
    BY <1>0, <2>1, UnsettledIsUndone
  <2>6. s \notin missed' =>
           (Awaited(s) => Awaited(s)') /\ \A v \in Storers : Unsettled(v, s) => Unsettled(v, s)'
    BY <1>2, <2>1, <2>5, StorersStand
  <2>7. QED
    BY <1>0, <1>1, <1>2, <2>1, <2>4, <2>6, Kept
<1>10. ASSUME SettleIndex PROVE SingleInv(s)'
  <2>1. /\ storer[Indexer].at = "settling" /\ \A v \in Storers \ {Indexer} : storer'[v] = storer[v]
        /\ index' = index /\ coverage' = coverage /\ job' = job /\ missed' = missed
    BY <1>0, <1>10 DEF SettleIndex
  <2>2. Undone(Indexer) = {} /\ ~Unsettled(Indexer, s)
    BY <1>0, <2>1, OweNothing
  <2>3. (Awaited(s) => Awaited(s)') /\ \A v \in Storers : Unsettled(v, s) => Unsettled(v, s)'
    BY <1>2, <2>1, <2>2, StorersStand
  <2>4. (Blocked(s) => Blocked(s)') /\ \A h \in Needs(s) : index'[h].tracks = index[h].tracks
    BY <1>2, <2>1, SameIndex
  <2>5. QED
    BY <1>0, <1>1, <1>2, <2>1, <2>3, <2>4, Kept
<1>11. QED
  BY <1>3, <1>4, <1>5, <1>6, <1>7, <1>8, <1>9, <1>10 DEF IndexSteps

LEMMA SingleEnvironment ==
    ASSUME CoverageInv, Environment, NEW s \in Singles
    PROVE  SingleInv(s)'
<1> USE Constants
<1>0. /\ TypeOK /\ JobShape(s) /\ SingleInv(s) /\ \A w \in Storers : StorerShape(w)
      /\ catalog \in [Artists -> SUBSET Groups] /\ run \in [Singles -> Run]
      /\ job \in [Singles -> JobStates] /\ coverage \in [Singles -> Coverage]
      /\ index \in [Groups -> Index] /\ storer \in [Storers -> Storer]
      /\ indexJob \in [Groups -> JobStates]
      /\ job[s] = "running" <=> run[s].at # "idle"
  BY DEF CoverageInv, ShapeInv, TypeOK
<1>1. ASSUME NEW g \in Groups, EnsureIndex(g) PROVE SingleInv(s)'
  <2>1. /\ Ensured({g}) /\ catalog' = catalog /\ coverage' = coverage /\ job' = job
        /\ storer' = storer /\ run' = run /\ missed' = missed
    BY <1>1 DEF EnsureIndex
  <2>2. Needs(s)' = Needs(s) /\ (Listed(s)' <=> Listed(s)) /\ \A h : Affected(h)' = Affected(h)
    BY <2>1, SameCatalog
  <2>3. (Awaited(s) <=> Awaited(s)') /\ \A v \in Storers : Unsettled(v, s) <=> Unsettled(v, s)'
    BY <2>1, <2>2, StorerStands DEF Awaited
  <2>4. (Blocked(s) => Blocked(s)') /\ \A h \in Needs(s) : index'[h].tracks = index[h].tracks
    BY <1>0, <2>1, <2>2, Asking, SameIndex
  <2>5. QED
    BY <1>0, <2>1, <2>2, <2>3, <2>4, Kept
<1>2. ASSUME NEW x \in Singles, SeedSingle(x) PROVE SingleInv(s)'
  <2>1. /\ Ensured({x}) /\ coverage' = PendingIfNew({x}) /\ job' = Enqueued(job, Unready({x}))
        /\ catalog' = catalog /\ storer' = storer /\ run' = run /\ missed' = missed
    BY <1>2 DEF SeedSingle
  <2>2. Needs(s)' = Needs(s) /\ (Listed(s)' <=> Listed(s)) /\ \A h : Affected(h)' = Affected(h)
    BY <2>1, SameCatalog
  <2>3. (Awaited(s) <=> Awaited(s)') /\ \A v \in Storers : Unsettled(v, s) <=> Unsettled(v, s)'
    BY <2>1, <2>2, StorerStands DEF Awaited
  <2>4. (Blocked(s) => Blocked(s)') /\ \A h \in Needs(s) : index'[h].tracks = index[h].tracks
    BY <1>0, <2>1, <2>2, Asking, SameIndex
  <2>5. /\ coverage'[s] = IF s \in {x} /\ coverage[s].state = "absent"
                          THEN PendingCoverage ELSE coverage[s]
        /\ job'[s] = IF s \in {x} /\ coverage[s].state # "ready" /\ job[s] = "absent"
                     THEN "pending" ELSE job[s]
    BY <1>0, <2>1, Seeding
  <2>6. PendingCoverage.state = "pending" /\ (coverage[s].state = "absent" => job[s] = "absent")
    BY <1>0 DEF PendingCoverage, JobShape
  <2>7. QED
    BY <1>0, <2>1, <2>2, <2>3, <2>4, <2>5, <2>6, Kept
<1>3. ASSUME NEW w \in Pages, PageLeaves(w) PROVE SingleInv(s)'
  <2>1. /\ missed' = missed \cup Undone(w) /\ w \in Storers
        /\ \A v \in Storers \ {w} : storer'[v] = storer[v]
        /\ catalog' = catalog /\ index' = index /\ coverage' = coverage /\ job' = job
        /\ run' = run
    BY <1>0, <1>3 DEF PageLeaves
  <2>2. /\ Needs(s)' = Needs(s) /\ (Listed(s)' <=> Listed(s))
        /\ \A h : s \in Affected(h)' <=> s \in Affected(h)
    BY <2>1, SameCatalog
  <2>3. s \notin missed' => s \notin Undone(w) /\ ~Unsettled(w, s)
    BY <1>0, <2>1, UnsettledIsUndone
  <2>4. s \notin missed' =>
           (Awaited(s) => Awaited(s)') /\ \A v \in Storers : Unsettled(v, s) => Unsettled(v, s)'
    BY <2>1, <2>2, <2>3, StorersStand
  <2>5. (Blocked(s) => Blocked(s)') /\ \A h \in Needs(s) : index'[h].tracks = index[h].tracks
    BY <2>1, <2>2, SameIndex
  <2>6. QED
    BY <1>0, <2>1, <2>2, <2>4, <2>5, Kept
<1>4. ASSUME NEW w \in Pages, NEW g \in Groups, ViewGroup(w, g) PROVE SingleInv(s)'
  <2>1. /\ Ensured({g}) /\ w \in Storers /\ storer[w].at = "idle"
        /\ \A v \in Storers \ {w} : storer'[v] = storer[v]
        /\ catalog' = catalog /\ coverage' = coverage /\ job' = job
        /\ run' = run /\ missed' = missed
    BY <1>0, <1>4 DEF ViewGroup
  <2>2. /\ Needs(s)' = Needs(s) /\ (Listed(s)' <=> Listed(s))
        /\ \A h : s \in Affected(h)' <=> s \in Affected(h)
    BY <2>1, SameCatalog
  <2>3. Undone(w) = {} /\ ~Unsettled(w, s)
    BY <1>0, <2>1, OweNothing
  <2>4. (Awaited(s) => Awaited(s)') /\ \A v \in Storers : Unsettled(v, s) => Unsettled(v, s)'
    BY <2>1, <2>2, <2>3, StorersStand
  <2>5. (Blocked(s) => Blocked(s)') /\ \A h \in Needs(s) : index'[h].tracks = index[h].tracks
    BY <1>0, <2>1, <2>2, Asking, SameIndex
  <2>6. QED
    BY <1>0, <2>1, <2>2, <2>4, <2>5, Kept
<1>5. ASSUME NEW w \in Pages, NEW a \in Artists, NEW listing \in Listings,
             ReplaceCatalog(w, a, listing)
      PROVE  SingleInv(s)'
  <2> DEFINE dirty == IF listing = catalog[a] THEN {} ELSE Singles \cap (catalog[a] \cup listing)
  <2>1. /\ w \in Storers /\ storer[w].at = "idle"
        /\ catalog' = [catalog EXCEPT ![a] = listing]
        /\ Ensured(listing) /\ Invalidated(dirty) /\ missed' = missed \cup Overtaken(dirty)
        /\ storer'[w].at = "invalidating" /\ storer'[w].wake = dirty
        /\ \A v \in Storers \ {w} : storer'[v] = storer[v]
        /\ run' = run
    BY <1>0, <1>5 DEF ReplaceCatalog, Storer
  <2>2. /\ coverage'[s] = IF s \in dirty THEN PendingCoverage ELSE coverage[s]
        /\ job'[s] = IF s \in dirty /\ job[s] \in {"absent", "completed"}
                     THEN "pending" ELSE job[s]
    BY <1>0, <2>1, Invalidating
  <2>3. CASE s \in dirty
    <3>1. Awaited(s)'
      BY <2>1, <2>3 DEF Awaited, Undone
    <3>2. s \notin missed' => run'[s].at \in {"idle", "claimed"}
      BY <2>1, <2>3 DEF Overtaken
    <3>3. job[s] \in JobStates /\ coverage'[s].state = "pending"
      BY <1>0, <2>2, <2>3 DEF PendingCoverage
    <3>4. job'[s] \in {"pending", "running", "waiting", "ended"}
      BY <2>2, <2>3, <3>3 DEF JobStates
    <3>5. QED
      BY <3>1, <3>2, <3>3, <3>4, Fresh
  <2>4. CASE s \notin dirty
    \* What s depends on has not changed: either nothing has, or the artist
    \* lists s neither before nor after.
    <3>1. listing = catalog[a] \/ (s \notin catalog[a] /\ s \notin listing)
      BY <2>4
    <3>2. \A b \in Artists \ {a} : catalog'[b] = catalog[b]
      BY <1>0, <2>1
    <3>3. catalog'[a] = listing
      BY <1>0, <2>1
    <3>4. Listers(s)' = Listers(s) /\ \A h : \A b \in Listers(s) : b \in Listers(h)' <=> b \in Listers(h)
      BY <3>1, <3>2, <3>3 DEF Listers
    <3>5. \A h : (Listers(h) \cap Listers(s))' = Listers(h) \cap Listers(s)
      BY <3>4
    <3>6. /\ Needs(s)' = Needs(s) /\ (Listed(s)' <=> Listed(s))
          /\ \A h : s \in Affected(h)' <=> s \in Affected(h)
      BY <3>4, <3>5 DEF Needs, Listed, Affected
    <3>7. Undone(w) = {} /\ ~Unsettled(w, s)
      BY <1>0, <2>1, OweNothing
    <3>8. (Awaited(s) => Awaited(s)') /\ \A v \in Storers : Unsettled(v, s) => Unsettled(v, s)'
      BY <2>1, <3>6, <3>7, StorersStand
    <3>9. (Blocked(s) => Blocked(s)') /\ \A h \in Needs(s) : index'[h].tracks = index[h].tracks
      BY <1>0, <2>1, <3>6, Asking, SameIndex
    <3>10. s \notin missed' => s \notin missed
      BY <2>1
    <3>11. QED
      BY <1>0, <2>1, <2>2, <2>4, <3>6, <3>8, <3>9, <3>10, Kept
  <2>5. QED
    BY <2>3, <2>4
<1>6. ASSUME Restart PROVE SingleInv(s)'
  <2> SUFFICES ASSUME s \notin missed'
               PROVE  SingleInv(s)'
    BY DEF SingleInv
  <2> DEFINE recovered == [g \in Groups |-> IF index[g].state = "resolving"
                              THEN [index[g] EXCEPT !.state = "pending"] ELSE index[g]]
             requeued  == [g \in Groups |-> IF indexJob[g] = "running" THEN "pending" ELSE indexJob[g]]
             resumed   == [k \in Singles |-> IF job[k] = "running" THEN "pending" ELSE job[k]]
             due       == {g \in Groups : recovered[g].state = "pending"}
             pending   == {k \in Singles : coverage[k].state = "pending"}
             queued    == Enqueued(resumed, pending)
  <2>1. /\ \E nudged : EnsuredFrom(recovered, Enqueued(requeued, due), nudged)
        /\ job' = Woken(queued, Singles)
        /\ run' = [k \in Singles |-> NoRun]
        /\ missed' = missed \cup UNION {Undone(w) : w \in Storers}
        /\ catalog' = catalog /\ coverage' = coverage
    BY <1>6 DEF Restart
  <2>2. resumed \in [Singles -> JobStates] /\ resumed[s] = IF job[s] = "running" THEN "pending" ELSE job[s]
    BY <1>0 DEF JobStates
  <2>3. /\ recovered \in [Groups -> Index]
        /\ \A g \in Groups : recovered[g].tracks = index[g].tracks
    <3>1. ASSUME NEW g \in Groups
          PROVE  /\ [index[g] EXCEPT !.state = "pending"] \in Index
                 /\ [index[g] EXCEPT !.state = "pending"].tracks = index[g].tracks
      BY <1>0 DEF Index
    <3>2. QED
      BY <1>0, <3>1
  <2>4. requeued \in [Groups -> JobStates]
    BY <1>0 DEF JobStates
  <2> HIDE DEF recovered, requeued, resumed, due
  <2>5. Enqueued(requeued, due) \in [Groups -> JobStates]
    BY <2>4, Queued
  <2>6. \A g \in Groups : index'[g].tracks = index[g].tracks
    BY <2>1, <2>3, <2>5, Ensuring
  <2>7. /\ queued \in [Singles -> JobStates]
        /\ queued[s] = IF s \in pending /\ resumed[s] = "absent" THEN "pending" ELSE resumed[s]
    BY <2>2, Queued
  <2> HIDE DEF queued
  <2>8. job'[s] = IF queued[s] = "waiting" THEN "pending" ELSE queued[s]
    BY <2>1, <2>7, Queued
  <2>9. run'[s].at = "idle" /\ s \notin missed /\ \A w \in Storers : ~Unsettled(w, s)
    BY <1>0, <2>1, UnsettledIsUndone DEF NoRun
  <2>10. Needs(s)' = Needs(s) /\ (Listed(s)' <=> Listed(s))
    BY <2>1, SameCatalog
  <2>11. PendingOwed(s) /\ StoredIsCurrent(s) /\ job[s] \in JobStates
    BY <1>0, <2>9 DEF SingleInv
  <2>12. coverage'[s].state = "pending" /\ Listed(s)' => job'[s] \in {"pending", "running", "waiting", "ended"}
    BY <2>1, <2>2, <2>7, <2>8, <2>10, <2>11 DEF PendingOwed
  <2>13. job'[s] # "waiting"
    BY <2>8
  <2>14. Current(s)' <=> Current(s)
    <3>1. ComputedFrom(Needs(s))' = ComputedFrom(Needs(s))
      BY <2>6, <2>10 DEF ComputedFrom
    <3>2. QED
      BY <2>1, <3>1 DEF Current
  <2>15. job'[s] \in {"absent", "completed"} => job[s] = job'[s]
    BY <2>2, <2>7, <2>8
  <2>16. Listed(s)' /\ coverage'[s].state = "ready" /\ job'[s] \in {"absent", "completed"} => Current(s)'
    BY <2>1, <2>9, <2>10, <2>11, <2>14, <2>15 DEF StoredIsCurrent
  <2>17. QED
    BY <2>9, <2>12, <2>13, <2>16, Fresh
<1>7. QED
  BY <1>1, <1>2, <1>3, <1>4, <1>5, <1>6 DEF Environment

LEMMA CoverageInit == Init => CoverageInv
<1> SUFFICES ASSUME Init PROVE CoverageInv
  OBVIOUS
<1>1. ASSUME NEW s \in Singles PROVE SingleInv(s)
  <2>1. run[s].at = "idle" /\ job[s] = "absent" /\ coverage[s].state = "absent"
    BY DEF Init, NoRun
  <2>2. QED
    BY <2>1 DEF SingleInv, PendingOwed, NeedsAreCurrent, WaitIsJustified, StoredIsCurrent, Settles
<1>2. QED
  BY <1>1, ShapeInit DEF CoverageInv

LEMMA CoverageNext == CoverageInv /\ [Next]_vars => CoverageInv'
<1> SUFFICES ASSUME CoverageInv, [Next]_vars PROVE CoverageInv'
  OBVIOUS
<1>1. ShapeInv'
  BY ShapeNext DEF CoverageInv
<1>2. CASE UNCHANGED vars
  BY <1>1, <1>2 DEF vars, CoverageInv, SingleInv, PendingOwed, NeedsAreCurrent, WaitIsJustified,
     StoredIsCurrent, Settles, Blocked, Awaited, Undone, Unsettled, Affected, Needs, Listed,
     Listers, Current, ComputedFrom
<1>3. CASE Next
  <2>1. ASSUME NEW s \in Singles PROVE SingleInv(s)'
    BY <1>3, SingleIndexing, SingleComputing, SingleLeases, SingleEnvironment DEF Next
  <2>2. QED
    BY <1>1, <2>1 DEF CoverageInv
<1>4. QED
  BY <1>2, <1>3

LEMMA CoverageHolds == Spec => []CoverageInv
BY CoverageInit, CoverageNext, PTL DEF Spec

(***************************************************************************)
(* The theorems.                                                           *)
(***************************************************************************)
\* The tables, the jobs and what their callers have read are well typed, and
\* the jobs that run are exactly those that somebody executes.
THEOREM TypeCorrect == Spec => []TypeOK
<1>1. CoverageInv => TypeOK
  BY DEF CoverageInv, ShapeInv
<1>2. QED
  BY <1>1, CoverageHolds, PTL

\* Coverage that is shown as ready and that nobody is about to touch was
\* computed from the tracklists and catalogues stored now
\* (put_track_index_with_parent, replace_catalog_memberships and
\* compute_single_coverage, in any order and broken off anywhere), unless an
\* invalidation met its running job or was cut short.
THEOREM ReadyCoverageIsCurrent == Spec => []ReadyIsCurrent
<1>1. ASSUME CoverageInv PROVE ReadyIsCurrent
  <2> SUFFICES ASSUME NEW s \in Singles \ missed, Quiet(s), coverage[s].state = "ready"
               PROVE  Current(s)
    BY DEF ReadyIsCurrent
  <2>1. StoredIsCurrent(s) /\ \A w \in Storers : StorerShape(w)
    BY <1>1 DEF CoverageInv, ShapeInv, SingleInv
  <2>2. \A w \in Storers : ~Unsettled(w, s)
    BY <2>1, UnsettledIsUndone DEF Quiet, Awaited
  <2>3. QED
    BY <2>1, <2>2 DEF StoredIsCurrent, Quiet
<1>2. QED
  BY <1>1, CoverageHolds, PTL

\* A coverage job that waits, and that nobody is about to wake, waits for a
\* tracklist that is not stored (wait_background_job against
\* resume_waiting_single_coverages), with the same exception.
THEOREM WaitingCoverageMissesSomething == Spec => []WaitersMissSomething
<1>1. ASSUME CoverageInv PROVE WaitersMissSomething
  <2> SUFFICES ASSUME NEW s \in Singles \ missed, job[s] = "waiting", ~Awaited(s)
               PROVE  \E g \in Needs(s) : index[g].tracks = NoTracks \/ index[g].state # "indexed"
    BY DEF WaitersMissSomething
  <2>1. WaitIsJustified(s)
    BY <1>1 DEF CoverageInv, SingleInv
  <2>2. QED
    BY <2>1, NeedsItself DEF WaitIsJustified, Blocked
<1>2. QED
  BY <1>1, CoverageHolds, PTL

\* Pending coverage of a listed single has a job that will store one or waits
\* (seed_single_deduplications, invalidate_single_coverage and the completion
\* of the job), with the same exception.
THEOREM PendingCoverageIsWorkedOn == Spec => []PendingIsWorkedOn
<1>1. ASSUME CoverageInv PROVE PendingIsWorkedOn
  BY <1>1 DEF CoverageInv, SingleInv, PendingOwed, PendingIsWorkedOn
<1>2. QED
  BY <1>1, CoverageHolds, PTL
=============================================================================
