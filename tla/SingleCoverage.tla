--------------------------- MODULE SingleCoverage ---------------------------
(***************************************************************************)
(* Single-to-Album coverage (src/src/db.rs, src/src/background.rs): for a  *)
(* Single, which of its tracks an Album of the same artist holds.  It is   *)
(* computed by a queue job from the artist catalogues and the tracklist    *)
(* indexes, and invalidated or woken when either changes.                  *)
(*                                                                         *)
(* One action is one transaction, or one statement outside a transaction.  *)
(* A tracklist is stored by the indexing job or by a group page; storing   *)
(* it, finding the Singles it affects, invalidating each and waking the    *)
(* waiting ones are separate transactions of one caller.  Jobs of the      *)
(* queue (see JobQueue) are their states; "pending" stands for pending and *)
(* retrying, whose difference is a delay, and for an index job that waits  *)
(* for its tracker or failed for good, until somebody resumes it; "ended"  *)
(* for a coverage job that is failed or cancelled, which only an operator  *)
(* revives.  An execution of a coverage job can outlive its lease, and     *)
(* goes on until its next heartbeat; an indexing job that outlives its own *)
(* stores what a page stores.                                              *)
(***************************************************************************)
EXTENDS Naturals, FiniteSets

CONSTANTS
    Artists,      \* artists of one tracker
    Singles,      \* its release groups of type single
    Albums,       \* its release groups of type album
    Listings,     \* the groups an artist page can list
    Tracklists,   \* what the tracker can answer for a group
    NoTracks,     \* index_json IS NULL
    NoGroup,      \* the group of a caller that stores nothing
    Indexer,      \* the one worker running a job of this tracker
    Pages,        \* group pages that fetched a tracklist themselves
    Strays        \* executions of one coverage job that can be without its lease

Groups  == Singles \cup Albums
Storers == {Indexer} \cup Pages

ASSUME CoverageAssumption ==
    /\ Singles \cap Albums = {} /\ NoGroup \notin Groups
    /\ Listings \subseteq SUBSET Groups
    /\ NoTracks \notin Tracklists /\ Indexer \notin Pages

VARIABLES
    catalog,   \* dedupe_catalog_membership: what each artist's page lists
    index,     \* release_track_index
    coverage,  \* single_album_coverage
    indexJob,  \* the index_tracklist job of each group
    job,       \* the compute_single_coverage job of each single
    storer,    \* what each caller of put_track_index_with_parent is doing
    run,       \* what each running compute_single_coverage has read
    stray,     \* what those have read that go on without their lease
    missed     \* history: singles whose last invalidation or wake-up was lost,
               \* or whose coverage or job was written without the lease since

vars == <<catalog, index, coverage, indexJob, job, storer, run, stray, missed>>

JobStates == {"absent", "pending", "running", "waiting", "completed", "ended"}

\* The tracklists a coverage was computed from; NoTracks for an unused group.
Inputs == [Groups -> Tracklists \cup {NoTracks}]
Nothing == [g \in Groups |-> NoTracks]

Index    == [state : {"absent", "pending", "resolving", "indexed", "failed"},
             tracks : Tracklists \cup {NoTracks}]
Coverage == [state : {"absent", "pending", "ready"}, from : Inputs]
Storer   == [at : {"idle", "fetched", "stored", "invalidating", "following", "settling"},
             group : Groups \cup {NoGroup}, changed : BOOLEAN, left : SUBSET Singles,
             wake : SUBSET Singles, outcome : JobStates]
Run      == [at : {"idle", "claimed", "listed", "computed", "settling", "committing"},
             needs : SUBSET Groups, from : Inputs, outcome : JobStates]

\* The value kept beside a pending state is never read, so it is not kept here.
PendingCoverage == [state |-> "pending", from |-> Nothing]

NoRun == [at |-> "idle", needs |-> {}, from |-> Nothing, outcome |-> "absent"]
NoStore == [at |-> "idle", group |-> NoGroup, changed |-> FALSE, left |-> {},
            wake |-> {}, outcome |-> "absent"]

TypeOK ==
    /\ catalog \in [Artists -> SUBSET Groups]
    /\ index \in [Groups -> Index] /\ coverage \in [Singles -> Coverage]
    /\ indexJob \in [Groups -> JobStates] /\ job \in [Singles -> JobStates]
    /\ storer \in [Storers -> Storer]
    /\ run \in [Singles -> Run] /\ stray \in [Singles -> [Strays -> Run]]
    /\ missed \subseteq Singles
    \* a job that runs has an execution with its lease, and no other has
    /\ \A s \in Singles : job[s] = "running" <=> run[s].at # "idle"
    /\ \A g \in Groups :
          indexJob[g] = "running" <=> storer[Indexer].at # "idle" /\ storer[Indexer].group = g

Init ==
    /\ catalog = [a \in Artists |-> {}]
    /\ index = [g \in Groups |-> [state |-> "absent", tracks |-> NoTracks]]
    /\ coverage = [s \in Singles |-> [state |-> "absent", from |-> Nothing]]
    /\ indexJob = [g \in Groups |-> "absent"] /\ job = [s \in Singles |-> "absent"]
    /\ storer = [w \in Storers |-> NoStore]
    /\ run = [s \in Singles |-> NoRun]
    /\ stray = [s \in Singles |-> [x \in Strays |-> NoRun]]
    /\ missed = {}

-----------------------------------------------------------------------------
(***************************************************************************)
(* Catalogues: who depends on whom.                                        *)
(***************************************************************************)
Listers(g) == {a \in Artists : g \in catalog[a]}
Listed(s)  == Listers(s) # {}

\* The tracklists the coverage of s is computed from.
Needs(s) == {s} \cup {g \in Albums : Listers(g) \cap Listers(s) # {}}

Affected(g) == {s \in Singles : Listers(g) \cap Listers(s) # {}}

(***************************************************************************)
(* Queue requests, applied to a function of job states: an insert leaves a *)
(* row that exists alone; a reactivation moves a completed row only; a     *)
(* wake-up moves a waiting one.                                            *)
(***************************************************************************)
Enqueued(jobs, S) ==
    [k \in DOMAIN jobs |-> IF k \in S /\ jobs[k] = "absent" THEN "pending" ELSE jobs[k]]

Reactivated(jobs, S) ==
    [k \in DOMAIN jobs |-> IF k \in S /\ jobs[k] = "completed" THEN "pending" ELSE jobs[k]]
Woken(jobs, S) ==
    [k \in DOMAIN jobs |-> IF k \in S /\ jobs[k] = "waiting" THEN "pending" ELSE jobs[k]]

\* Executions that have read something: what changes now may escape them.
Overtaken(S) == {s \in S : run[s].at \notin {"idle", "claimed"}}

(***************************************************************************)
(* What every caller asks for: index these groups, cover these singles.    *)
(***************************************************************************)
EnsuredIndex(rows, G, expired) ==
    [g \in Groups |-> IF g \in G /\ (rows[g].state = "absent" \/ g \in expired)
                      THEN [rows[g] EXCEPT !.state = "pending"] ELSE rows[g]]
EnsuredIndexJob(jobs, rows, G, expired) ==
    LET indexed == {g \in G : rows[g].state = "indexed"}
    IN  Enqueued(Reactivated(jobs, indexed \cap expired), (G \ indexed) \cup (G \cap expired))

\* ensure_track_index_on, from these rows and jobs; any stored index may have
\* reached its expires_at.
EnsuredFrom(rows, jobs, G) ==
    \E expired \in SUBSET {g \in G : rows[g].tracks # NoTracks} :
        /\ index' = EnsuredIndex(rows, G, expired)
        /\ indexJob' = EnsuredIndexJob(jobs, rows, G, expired)
Ensured(G) == EnsuredFrom(index, indexJob, G)

PendingIfNew(S) ==
    [s \in Singles |-> IF s \in S /\ coverage[s].state = "absent"
                       THEN PendingCoverage ELSE coverage[s]]
Unready(S) == {s \in S : coverage[s].state # "ready"}

\* A page or a catalogue asks for the tracklist of g.
EnsureIndex(g) ==
    /\ Ensured({g})
    /\ UNCHANGED <<catalog, coverage, job, storer, run, stray, missed>>

\* A page shows a single.
SeedSingle(s) ==
    /\ Ensured({s})
    /\ coverage' = PendingIfNew({s}) /\ job' = Enqueued(job, Unready({s}))
    /\ UNCHANGED <<catalog, storer, run, stray, missed>>

\* Mutant: completed jobs are not reactivated.
InvalidatedOnly(S) ==
    /\ coverage' = [s \in Singles |-> IF s \in S THEN PendingCoverage ELSE coverage[s]]
    /\ job' = Enqueued(job, S)

\* invalidate_single_coverage, and the loop over dirty_singles.
Invalidated(S) ==
    /\ coverage' = [s \in Singles |->
           IF s \in S THEN PendingCoverage ELSE coverage[s]]
    /\ job' = Enqueued(Reactivated(job, S), S)

\* A refreshed artist page: one transaction; the wake-up follows.
ReplaceCatalog(w, a, listing) ==
    LET dirty == IF listing = catalog[a] THEN {} ELSE Singles \cap (catalog[a] \cup listing)
    IN  /\ w # Indexer /\ storer[w].at = "idle"
        /\ catalog' = [catalog EXCEPT ![a] = listing]
        /\ Ensured(listing)
        /\ Invalidated(dirty)
        /\ missed' = missed \cup Overtaken(dirty)
        /\ storer' = [storer EXCEPT ![w].at = "invalidating", ![w].wake = dirty]
        /\ UNCHANGED <<run, stray>>

-----------------------------------------------------------------------------
(***************************************************************************)
(* Storing a tracklist.                                                    *)
(***************************************************************************)
StartIndex(g) ==
    /\ storer[Indexer].at = "idle" /\ indexJob[g] = "pending"
    /\ indexJob' = [indexJob EXCEPT ![g] = "running"]
    /\ index' = [index EXCEPT ![g].state = "resolving"]
    /\ storer' = [storer EXCEPT ![Indexer].at = "fetched", ![Indexer].group = g]
    /\ UNCHANGED <<catalog, coverage, job, run, stray, missed>>

\* A group page that is not cached asks for the index, then stores its own.
ViewGroup(w, g) ==
    /\ w # Indexer /\ storer[w].at = "idle"
    /\ Ensured({g})
    /\ storer' = [storer EXCEPT ![w].at = "fetched", ![w].group = g]
    /\ UNCHANGED <<catalog, coverage, job, run, stray, missed>>

\* Mutant: only the first tracklist of a group counts as a change.
ChangedFirst(g, tracks) == index[g].tracks = NoTracks
Changed(g, tracks) == index[g].tracks # tracks

PutIndex(w, tracks) ==
    LET g == storer[w].group
    IN  /\ storer[w].at = "fetched"
        /\ index' = [index EXCEPT ![g] =
                        [state |-> "indexed", tracks |-> tracks]]
        /\ storer' = [storer EXCEPT ![w].at = "stored", ![w].changed = Changed(g, tracks)]
        /\ UNCHANGED <<catalog, coverage, indexJob, job, run, stray, missed>>

\* Mutant: the group that was stored is not woken itself.
FindChanged(w) ==
    LET affected == IF storer[w].changed THEN Affected(storer[w].group) ELSE {}
    IN  /\ storer[w].at = "stored"
        /\ storer' = [storer EXCEPT ![w] = [NoStore EXCEPT
              !.at = "invalidating", !.group = storer[w].group, !.left = affected,
              !.wake = affected]]
        /\ UNCHANGED <<catalog, index, coverage, indexJob, job, run, stray, missed>>

\* The affected singles, read after the commit.
FindAffected(w) ==
    LET g == storer[w].group
        affected == IF storer[w].changed THEN Affected(g) ELSE {}
    IN  /\ storer[w].at = "stored"
        /\ storer' = [storer EXCEPT ![w] = [NoStore EXCEPT
              !.at = "invalidating", !.group = g, !.left = affected,
              !.wake = affected \cup ({g} \cap Singles)]]
        /\ UNCHANGED <<catalog, index, coverage, indexJob, job, run, stray, missed>>

Invalidate(w, s) ==
    /\ storer[w].at = "invalidating" /\ s \in storer[w].left
    /\ Invalidated({s})
    /\ missed' = missed \cup Overtaken({s})
    /\ storer' = [storer EXCEPT ![w].left = @ \ {s}]
    /\ UNCHANGED <<catalog, index, indexJob, run, stray>>

ResumeWaiting(w) ==
    /\ storer[w].at = "invalidating" /\ storer[w].left = {}
    /\ job' = Woken(job, storer[w].wake)
    /\ missed' = missed \cup Overtaken(storer[w].wake)
    /\ storer' = [storer EXCEPT ![w] =
                     IF w = Indexer THEN [@ EXCEPT !.at = "following", !.wake = {}]
                     ELSE NoStore]
    /\ UNCHANGED <<catalog, index, coverage, indexJob, run, stray>>

\* The indexing job of a single also asks for its coverage.
Follow ==
    LET single == {storer[Indexer].group} \cap Singles
    IN  /\ storer[Indexer].at = "following"
        /\ coverage' = PendingIfNew(single) /\ job' = Enqueued(job, Unready(single))
        /\ storer' = [storer EXCEPT ![Indexer] =
              [NoStore EXCEPT !.at = "settling", !.group = storer[Indexer].group, !.outcome = "completed"]]
        /\ UNCHANGED <<catalog, index, indexJob, run, stray, missed>>

\* What a storer that stops here leaves undone.
Undone(w) ==
    IF storer[w].at = "stored"
    THEN (IF storer[w].changed THEN Affected(storer[w].group) ELSE {})
            \cup ({storer[w].group} \cap Singles)
    ELSE storer[w].left \cup storer[w].wake

\* The fetch or any later write fails: the index is deferred or failed.
IndexFails ==
    LET g == storer[Indexer].group
    IN  /\ storer[Indexer].at \in {"fetched", "stored", "invalidating", "following"}
        /\ \E state \in {"pending", "failed"} : index' = [index EXCEPT ![g].state = state]
        /\ storer' = [storer EXCEPT ![Indexer] =
              [NoStore EXCEPT !.at = "settling", !.group = g, !.outcome = "pending"]]
        /\ missed' = missed \cup Undone(Indexer)
        /\ UNCHANGED <<catalog, coverage, indexJob, job, run, stray>>

SettleIndex ==
    /\ storer[Indexer].at = "settling"
    /\ indexJob' = [indexJob EXCEPT ![storer[Indexer].group] = storer[Indexer].outcome]
    /\ storer' = [storer EXCEPT ![Indexer] = NoStore]
    /\ UNCHANGED <<catalog, index, coverage, job, run, stray, missed>>

\* A page fails, or its reader leaves.
PageLeaves(w) ==
    /\ w # Indexer /\ storer[w].at # "idle"
    /\ storer' = [storer EXCEPT ![w] = NoStore]
    /\ missed' = missed \cup Undone(w)
    /\ UNCHANGED <<catalog, index, coverage, indexJob, job, run, stray>>

-----------------------------------------------------------------------------
(***************************************************************************)
(* Computing the coverage of s.                                            *)
(***************************************************************************)
StartCoverage(s) ==
    /\ job[s] = "pending"
    /\ job' = [job EXCEPT ![s] = "running"]
    /\ run' = [run EXCEPT ![s] = [NoRun EXCEPT !.at = "claimed"]]
    /\ missed' = missed \ {s}
    /\ UNCHANGED <<catalog, index, coverage, indexJob, storer, stray>>

Settling(outcome) == [NoRun EXCEPT !.at = "settling", !.outcome = outcome]

\* A single no artist lists has no coverage: the job is done.
CatalogRead(s) ==
    IF Listed(s) THEN [NoRun EXCEPT !.at = "listed", !.needs = Needs(s)]
                 ELSE Settling("completed")

ReadCatalog(s) ==
    /\ run[s].at = "claimed"
    /\ run' = [run EXCEPT ![s] = CatalogRead(s)]
    /\ UNCHANGED <<catalog, index, coverage, indexJob, job, storer, stray, missed>>

Computable(s, needs) ==
    /\ index[s].state # "failed"
    /\ \A g \in needs : index[g].tracks # NoTracks

ComputedFrom(needs) == [g \in Groups |-> IF g \in needs THEN index[g].tracks ELSE NoTracks]

IndexesRead(s, needs) ==
    IF Computable(s, needs)
    THEN [NoRun EXCEPT !.at = "computed", !.from = ComputedFrom(needs)]
    ELSE Settling("waiting")

ReadIndexes(s) ==
    /\ run[s].at = "listed"
    /\ run' = [run EXCEPT ![s] = IndexesRead(s, run[s].needs)]
    /\ UNCHANGED <<catalog, index, coverage, indexJob, job, storer, stray, missed>>

PutCoverage(s) ==
    /\ run[s].at = "computed"
    /\ coverage' = [coverage EXCEPT ![s] = [state |-> "ready", from |-> run[s].from]]
    /\ run' = [run EXCEPT ![s] = Settling("completed")]
    /\ UNCHANGED <<catalog, index, indexJob, job, storer, stray, missed>>

\* A read or the write fails: the job is tried again, or that was the last
\* attempt.
CoverageFails(s) ==
    /\ run[s].at \in {"claimed", "listed", "computed"}
    /\ \E outcome \in {"pending", "ended"} : run' = [run EXCEPT ![s] = Settling(outcome)]
    /\ UNCHANGED <<catalog, index, coverage, indexJob, job, storer, stray, missed>>

\* The outcome is written in two statements: the row is read if the lease is
\* held, then updated by its id.
SettleCoverage(s) ==
    /\ run[s].at = "settling"
    /\ run' = [run EXCEPT ![s].at = "committing"]
    /\ UNCHANGED <<catalog, index, coverage, indexJob, job, storer, stray, missed>>

CommitCoverage(s) ==
    /\ run[s].at = "committing"
    /\ job' = [job EXCEPT ![s] = run[s].outcome]
    /\ run' = [run EXCEPT ![s] = NoRun]
    /\ UNCHANGED <<catalog, index, coverage, indexJob, storer, stray, missed>>

-----------------------------------------------------------------------------
(***************************************************************************)
(* Executions without their lease: it expired (a worker that could not     *)
(* write its heartbeats, or its outcome), or an operator cancelled the     *)
(* job.  The execution hears of it at its next heartbeat.                  *)
(***************************************************************************)
Disown(s, state) ==
    /\ job' = [job EXCEPT ![s] = state]
    /\ run' = [run EXCEPT ![s] = NoRun]
    /\ \E x \in Strays : /\ stray[s][x] = NoRun
                         /\ stray' = [stray EXCEPT ![s][x] = run[s]]

\* recover_expired_background_jobs, which counts an attempt.
LeaseLost(s) ==
    /\ job[s] = "running"
    /\ \E state \in {"pending", "ended"} : Disown(s, state)
    /\ UNCHANGED <<catalog, index, coverage, indexJob, storer, missed>>

CancelCoverage(s) ==
    /\ \/ /\ job[s] = "running" /\ Disown(s, "ended")
       \/ /\ job[s] \in {"pending", "waiting"}
          /\ job' = [job EXCEPT ![s] = "ended"] /\ UNCHANGED <<run, stray>>
    /\ UNCHANGED <<catalog, index, coverage, indexJob, storer, missed>>

\* An operator retries a failed or cancelled job.
RetryCoverage(s) ==
    /\ job[s] = "ended"
    /\ job' = [job EXCEPT ![s] = "pending"]
    /\ UNCHANGED <<catalog, index, coverage, indexJob, storer, run, stray, missed>>

StrayReads(s, x) ==
    /\ \/ /\ stray[s][x].at = "claimed"
          /\ stray' = [stray EXCEPT ![s][x] = CatalogRead(s)]
       \/ /\ stray[s][x].at = "listed"
          /\ stray' = [stray EXCEPT ![s][x] = IndexesRead(s, stray[s][x].needs)]
    /\ UNCHANGED <<catalog, index, coverage, indexJob, job, storer, run, missed>>

StrayPut(s, x) ==
    /\ stray[s][x].at = "computed"
    /\ coverage' = [coverage EXCEPT ![s] = [state |-> "ready", from |-> stray[s][x].from]]
    /\ stray' = [stray EXCEPT ![s][x] = Settling("completed")]
    /\ missed' = missed \cup {s}
    /\ UNCHANGED <<catalog, index, indexJob, job, storer, run>>

\* The update by id takes the row from whoever holds it now.
StrayCommit(s, x) ==
    /\ stray[s][x].at = "committing"
    /\ job' = [job EXCEPT ![s] = stray[s][x].outcome]
    /\ stray' = [stray EXCEPT ![s][x] = run[s]]
    /\ run' = [run EXCEPT ![s] = NoRun]
    /\ missed' = missed \cup {s}
    /\ UNCHANGED <<catalog, index, coverage, indexJob, storer>>

\* A heartbeat, or the read of its outcome, finds no row of its own; or its
\* write fails.
StrayEnds(s, x) ==
    /\ stray[s][x].at # "idle"
    /\ stray' = [stray EXCEPT ![s][x] = NoRun]
    /\ UNCHANGED <<catalog, index, coverage, indexJob, job, storer, run, missed>>

-----------------------------------------------------------------------------
(***************************************************************************)
(* The end of the process.                                                 *)
(***************************************************************************)
\* Recovered leases, recover_track_indexes and bootstrap_jobs, before any
\* worker runs: due indexes, the indexes of singles whose job waits for them
\* (by its last message), pending coverages, waiting jobs.  A pending coverage
\* whose job completed is not revived.
Restart ==
    LET recovered == [g \in Groups |-> IF index[g].state = "resolving"
                                       THEN [index[g] EXCEPT !.state = "pending"] ELSE index[g]]
        requeued  == [g \in Groups |-> IF indexJob[g] = "running" THEN "pending" ELSE indexJob[g]]
        resumed   == [s \in Singles |-> IF job[s] = "running" THEN "pending" ELSE job[s]]
        due       == {g \in Groups : recovered[g].state = "pending"}
        pending   == {s \in Singles : coverage[s].state = "pending"}
    IN  /\ \E nudged \in SUBSET {s \in Singles : job[s] = "waiting"} :
              EnsuredFrom(recovered, Enqueued(requeued, due), nudged)
        /\ job' = Woken(Enqueued(resumed, pending), Singles)
        /\ storer' = [w \in Storers |-> NoStore]
        /\ run' = [s \in Singles |-> NoRun]
        /\ stray' = [s \in Singles |-> [x \in Strays |-> NoRun]]
        /\ missed' = missed \cup UNION {Undone(w) : w \in Storers}
        /\ UNCHANGED <<catalog, coverage>>

IndexSteps ==
    \/ \E g \in Groups : StartIndex(g)
    \/ \E w \in Storers : FindAffected(w) \/ ResumeWaiting(w)
    \/ \E w \in Storers, tracks \in Tracklists : PutIndex(w, tracks)
    \/ \E w \in Storers, s \in Singles : Invalidate(w, s)
    \/ Follow \/ IndexFails \/ SettleIndex

CoverageSteps(s) ==
    \/ StartCoverage(s) \/ ReadCatalog(s) \/ ReadIndexes(s)
    \/ PutCoverage(s) \/ CoverageFails(s) \/ SettleCoverage(s) \/ CommitCoverage(s)

LeaseSteps(s) ==
    \/ LeaseLost(s) \/ CancelCoverage(s) \/ RetryCoverage(s)
    \/ \E x \in Strays :
          StrayReads(s, x) \/ StrayPut(s, x) \/ StrayCommit(s, x) \/ StrayEnds(s, x)

Environment ==
    \/ \E g \in Groups : EnsureIndex(g)
    \/ \E s \in Singles : SeedSingle(s)
    \/ \E w \in Pages : PageLeaves(w)
    \/ \E w \in Pages, g \in Groups : ViewGroup(w, g)
    \/ \E w \in Pages, a \in Artists, listing \in Listings : ReplaceCatalog(w, a, listing)
    \/ Restart

Next == IndexSteps \/ Environment \/ \E s \in Singles : CoverageSteps(s) \/ LeaseSteps(s)

Spec == Init /\ [][Next]_vars

-----------------------------------------------------------------------------
(***************************************************************************)
(* Properties.                                                             *)
(***************************************************************************)
\* A caller of put_track_index_with_parent or replace_catalog_memberships
\* still has to invalidate or wake s.
Awaited(s) == \E w \in Storers : s \in Undone(w)
Quiet(s)   == Listed(s) /\ job[s] \in {"absent", "completed"} /\ ~Awaited(s)

Current(s) == coverage[s].from = ComputedFrom(Needs(s))

\* The coverage of a listed single shown as ready, that nobody is about to
\* touch, was computed from the tracklists and catalogues that are stored now,
\* unless an invalidation of it met its running job or was cut short
\* (reactivate_completed_background_job_on passes running rows by), or an
\* execution without the lease stored it or ended its job.
ReadyIsCurrent ==
    \A s \in Singles \ missed : Quiet(s) /\ coverage[s].state = "ready" => Current(s)

\* The README's promise without that exception: tracklist changes invalidate
\* the coverage they affect.
ChangesInvalidate ==
    \A s \in Singles : Quiet(s) /\ coverage[s].state = "ready" => Current(s)

\* A coverage job that waits for dependencies misses one: some tracklist it
\* needs is not stored or is being stored again (resume_waiting_single_coverages
\* is called after everything that can end the wait).
WaitersMissSomething ==
    \A s \in Singles \ missed :
        job[s] = "waiting" /\ ~Awaited(s) =>
            \E g \in Needs(s) : index[g].tracks = NoTracks \/ index[g].state # "indexed"

\* A coverage shown as pending for a listed single has a job that is queued,
\* runs or waits, or that failed or was cancelled, where an operator sees it:
\* no order of seeding, invalidating, failing and completing leaves it with a
\* completed job or none.  (A failed or cancelled one is left alone by every
\* invalidation: reactivate_completed_background_job_on.)
PendingIsWorkedOn ==
    \A s \in Singles \ missed :
        coverage[s].state = "pending" /\ Listed(s) /\ ~Awaited(s) =>
            job[s] \in {"pending", "running", "waiting", "ended"}
=============================================================================
