--------------------------- MODULE DownloadIndex ---------------------------
(***************************************************************************)
(* What Wotbox knows of the torrents in a download client: the observer    *)
(* that polls the client (src/src/change.rs, src/src/qbittorrent.rs), the  *)
(* rows it keeps (download_release_links in src/src/db.rs), the job that   *)
(* asks the tracker which release a torrent is (resolve_download_hash in   *)
(* src/src/background.rs), the automatic match of torrents of no tracker,  *)
(* and the imports and download jobs that follow the rows.                 *)
(*                                                                         *)
(* One client.  An action is a transaction or the statements between two   *)
(* calls to the outside; a response and the transaction that stores it are *)
(* one action, because nothing the response depends on changes between     *)
(* them.  The Plex scan a finished torrent asks for is a job like any      *)
(* other (JobQueue) and left out, and so are the batches of a transaction. *)
(***************************************************************************)
EXTENDS Naturals

CONSTANTS
    Torrents,       \* info hashes
    ClientChanges,  \* bound: changes in the client
    MaxFaulty,      \* bound: failed statements, and crashes
    MaxLookups      \* max_attempts of resolve_download_hash

\* What the constants are.
ASSUME DownloadIndexAssumption ==
    ClientChanges \in Nat /\ MaxFaulty \in Nat /\ MaxLookups \in Nat \ {0}

VARIABLES
    held,        \* the torrents in qBittorrent, and what it reports of them
    session,     \* sync_state: rid and torrents, and what changed since rid
    observer,    \* the tick of download_client_observer under way
    links,       \* download_release_links
    fresh,       \* links with last_seen_at >= scan_started_at
    resolve,     \* the resolve_download_hash job of each torrent
    matching,    \* the torrent match_download_releases is searching for
    imports,     \* import_tasks: the state of each torrent's task
    downloads,   \* download_jobs with an info hash
    changed, faulty

index == <<held, session, observer, links, fresh, resolve, matching, imports,
           downloads, changed, faulty>>

Absent == [state |-> "absent", present |-> FALSE, tracker |-> FALSE, ids |-> FALSE,
           release |-> "none", error |-> FALSE, live |-> "unseen", done |-> FALSE]
Unresolved == {"pending", "resolving"}
Failures   == {"failed", "not_found"}
Link  == [state : Unresolved \cup Failures \cup {"absent", "unconfigured", "linked"},
          present : BOOLEAN,    \* present
          tracker : BOOLEAN,    \* tracker IS NOT NULL
          ids     : BOOLEAN,    \* group_id and torrent_id
          release : {"none", "matched", "resolved"},  \* release_id, and who set it
          error   : BOOLEAN,    \* error_code IS NOT NULL
          live    : {"unseen", "partial", "whole"},   \* the progress in observed_json
          done    : BOOLEAN]    \* completed_at, library_added_at
ImportState == {"none", "Downloading", "Resolving", "NeedsReview", "Complete", "Ready"}
Terminal == {"completed", "failed", "cancelled"}
Lookups  == {"idle", "asking", "completed", "failed", "retry", "waiting"}
Resolve  == [state : Terminal \cup {"absent", "pending", "running", "waiting"},
             attempts : 0..MaxLookups, at : Lookups]
InClient == {t \in Torrents : held[t].state # "absent"}
Nothing == [at |-> "idle", down |-> {}, gone |-> {}, full |-> FALSE]
NoTorrent == "no torrent"

IndexTypeOK ==
    /\ held \in [Torrents -> [state : {"absent", "partial", "whole"}, announced : BOOLEAN]]
    /\ session \in [rid : BOOLEAN, known : SUBSET Torrents, behind : SUBSET Torrents]
    /\ observer \in [at : {"idle", "removing", "scanning", "finishing"},
                     down : SUBSET Torrents, gone : SUBSET Torrents, full : BOOLEAN]
    /\ links \in [Torrents -> Link] /\ fresh \subseteq Torrents
    /\ resolve \in [Torrents -> Resolve]
    /\ matching \in Torrents \cup {NoTorrent}
    /\ imports \in [Torrents -> ImportState]
    /\ downloads \in [Torrents -> {"none", "active", "complete", "unknown"}]
    /\ changed \in 0..ClientChanges /\ faulty \in 0..MaxFaulty

NoJob == [state |-> "absent", attempts |-> 0, at |-> "idle"]

-----------------------------------------------------------------------------
(***************************************************************************)
(* Rows.                                                                   *)
(***************************************************************************)
Job(state) == [state |-> state, attempts |-> 0, at |-> "idle"]

\* enqueue_background_job: a row with the key is left as it is.
Enqueued(job) == IF job.state = "absent" THEN Job("pending") ELSE job

\* reactivate_completed_background_job_on.
Reactivated(job) == IF job.state = "completed" THEN Job("pending") ELSE job

ReleaseLevel(l) == l.state = "linked" /\ ~l.ids

\* observe_download_on: the row afterwards, and whether it asks for a lookup.
Observed(l, seen) ==
    LET state == IF seen.announced THEN "pending" ELSE "unconfigured" IN
    IF l.state = "absent"
    THEN [Absent EXCEPT !.state = state, !.present = TRUE, !.tracker = seen.announced,
                        !.live = seen.state, !.done = seen.state = "whole"]
    ELSE [l EXCEPT !.present = TRUE, !.live = seen.state,
                   !.done = @ \/ seen.state = "whole",
                   !.tracker = IF l.state = "linked" THEN @ ELSE seen.announced,
                   !.state = IF l.state # "linked" /\ l.tracker # seen.announced
                             THEN state ELSE @]

ShouldResolve(l, seen) ==
    /\ seen.announced
    /\ l.state \in {"absent", "pending"} \/ l.tracker # seen.announced \/ ReleaseLevel(l)

\* Mutant: a torrent that is gone is forgotten.
Forgotten(l) == Absent

\* mark_downloads_removed and complete_client_scan, for one row.
Gone(l) == IF l.done THEN [l EXCEPT !.present = FALSE] ELSE Absent

\* seed_download_link: the row of a torrent that a download job adds.
Seeded(l) ==
    [IF l.state = "absent" THEN [Absent EXCEPT !.present = TRUE] ELSE l
     EXCEPT !.state = "linked", !.tracker = TRUE, !.ids = TRUE,
            !.release = "resolved", !.error = FALSE]

\* The client has any torrents when Wotbox first looks, of which an earlier
\* process may have added some.
IndexInit ==
    /\ held \in [Torrents -> {[state |-> "absent", announced |-> FALSE]}
                             \cup [state : {"partial", "whole"}, announced : BOOLEAN]]
    /\ \E ours \in SUBSET {t \in Torrents : held[t] = [state |-> "partial", announced |-> TRUE]} :
          /\ links = [t \in Torrents |-> IF t \in ours THEN Seeded(Absent) ELSE Absent]
          /\ downloads = [t \in Torrents |-> IF t \in ours THEN "active" ELSE "none"]
    /\ session = [rid |-> FALSE, known |-> {}, behind |-> {}]
    /\ observer = Nothing /\ fresh = {}
    /\ resolve = [t \in Torrents |-> NoJob]
    /\ matching = NoTorrent
    /\ imports = [t \in Torrents |-> "none"]
    /\ changed = 0 /\ faulty = 0

\* import_state_for_link.
StateForLink(l) ==
    IF l.present /\ l.live = "partial" THEN "Downloading"
    ELSE IF l.state \in Unresolved THEN "Resolving"
    ELSE IF l.error \/ l.release = "none" THEN "NeedsReview"
    ELSE IF l.done THEN "Complete" ELSE "Ready"

RowsOf(rows) == {t \in Torrents : rows[t].state # "absent"}

\* Mutant: only a new row gets a task.
NotSynced(tasks, rows) ==
    [t \in Torrents |-> IF t \in RowsOf(rows) /\ tasks[t] = "none" THEN StateForLink(rows[t])
                                                              ELSE tasks[t]]

\* sync_import_tasks: the task of a row that is gone stays as it is.
Synced(tasks, rows) ==
    [t \in Torrents |-> IF t \in RowsOf(rows) THEN StateForLink(rows[t]) ELSE tasks[t]]

-----------------------------------------------------------------------------
(***************************************************************************)
(* The client: what users and peers do in it, and Wotbox's own downloads.  *)
(***************************************************************************)
ClientChange(t, now) ==
    /\ changed < ClientChanges /\ changed' = changed + 1
    /\ held' = [held EXCEPT ![t] = now]
    /\ session' = [session EXCEPT !.behind = @ \cup {t}]
    /\ UNCHANGED <<observer, fresh, resolve, matching, imports, faulty>>

Added(t) ==
    /\ held[t].state = "absent"
    /\ \E announced \in BOOLEAN, state \in {"partial", "whole"} :
           ClientChange(t, [state |-> state, announced |-> announced])
    /\ UNCHANGED <<links, downloads>>
Announces(t) ==
    /\ held[t].state # "absent" /\ ~held[t].announced
    /\ ClientChange(t, [held[t] EXCEPT !.announced = TRUE]) /\ UNCHANGED <<links, downloads>>
Finishes(t) ==
    /\ held[t].state = "partial"
    /\ ClientChange(t, [held[t] EXCEPT !.state = "whole"]) /\ UNCHANGED <<links, downloads>>
Removed(t) ==
    /\ held[t].state # "absent"
    /\ ClientChange(t, [state |-> "absent", announced |-> FALSE])
    /\ UNCHANGED <<links, downloads>>

\* process_download (DownloadSubmission): the row is seeded, the torrent added.
DownloadAdded(t) ==
    /\ held[t].state = "absent" /\ downloads[t] = "none"
    /\ ClientChange(t, [state |-> "partial", announced |-> TRUE])
    /\ links' = [links EXCEPT ![t] = Seeded(@)]
    /\ downloads' = [downloads EXCEPT ![t] = "active"]

-----------------------------------------------------------------------------
(***************************************************************************)
(* The observer.                                                           *)
(***************************************************************************)
IndexFault == faulty < MaxFaulty /\ faulty' = faulty + 1

\* sync_downloads: what the client answers, and what it means is gone.
Reported(full) == IF full THEN InClient ELSE session.behind \cap InClient
GoneSince(full) == session.known \ IF full THEN InClient ELSE InClient \cup
                                       (session.known \ session.behind)

Reports(full) ==
    /\ observer.at = "idle"
    /\ full \/ session.rid
    /\ session' = [rid |-> TRUE, behind |-> {},
                   known |-> (session.known \cup Reported(full)) \ GoneSince(full)]

\* The delta is stored: observe_downloads, one transaction.
Sync(full) ==
    /\ Reports(full)
    /\ full \/ Reported(full) \cup GoneSince(full) # {}
    /\ observer' = [at |-> "removing", down |-> Reported(full), gone |-> GoneSince(full),
                    full |-> full]
    /\ links' = [t \in Torrents |->
           IF t \in Reported(full) THEN Observed(links[t], held[t]) ELSE links[t]]
    /\ resolve' = [t \in Torrents |->
           IF t \in Reported(full) /\ ShouldResolve(links[t], held[t])
           THEN Enqueued(IF ReleaseLevel(links[t]) THEN Reactivated(resolve[t])
                                                   ELSE resolve[t])
           ELSE resolve[t]]
    /\ fresh' = IF full THEN Reported(full) ELSE fresh \cup Reported(full)
    /\ UNCHANGED <<held, matching, imports, downloads, changed, faulty>>

\* The response cannot be read, or observe_downloads fails: rid is past it.
DeltaIsLost ==
    /\ IndexFault
    /\ \E full \in BOOLEAN : Reports(full)
    /\ UNCHANGED <<held, observer, links, fresh, resolve, matching, imports, downloads, changed>>

\* mark_downloads_removed; when it fails the rest of the tick is skipped.
MarkRemoved ==
    /\ observer.at = "removing"
    /\ \/ /\ links' = [t \in Torrents |->
                IF t \in observer.gone \cap RowsOf(links) THEN Gone(links[t]) ELSE links[t]]
          /\ observer' = [observer EXCEPT !.at = IF observer.full THEN "scanning" ELSE "finishing"]
          /\ UNCHANGED faulty
       \/ IndexFault /\ observer' = Nothing /\ UNCHANGED links
    /\ UNCHANGED <<held, session, fresh, resolve, matching, imports, downloads, changed>>

\* Mutant: a snapshot only stores what it contains.
NothingStale == {}

Stale == RowsOf(links) \ fresh

\* complete_client_scan; when it fails the tick goes on.
CompleteScan ==
    /\ observer.at = "scanning"
    /\ \/ /\ links' = [t \in Torrents |-> IF t \in Stale THEN Gone(links[t]) ELSE links[t]]
          /\ UNCHANGED faulty
       \/ IndexFault /\ UNCHANGED links
    /\ observer' = [observer EXCEPT !.at = "finishing"]
    /\ UNCHANGED <<held, session, fresh, resolve, matching, imports, downloads, changed>>

\* reconcile_download_jobs.
Reconciled(t) ==
    IF downloads[t] = "none" THEN "none"
    ELSE IF t \in observer.down THEN IF links[t].live = "whole" THEN "complete" ELSE "active"
    ELSE IF t \in observer.gone THEN "unknown" ELSE downloads[t]

\* reconcile_download_jobs and sync_import_tasks, whose error is ignored.
Finish ==
    /\ observer.at = "finishing" /\ observer' = Nothing
    /\ downloads' = [t \in Torrents |-> Reconciled(t)]
    /\ \/ imports' = Synced(imports, links) /\ UNCHANGED faulty
       \/ IndexFault /\ UNCHANGED imports
    /\ UNCHANGED <<held, session, links, fresh, resolve, matching, changed>>

-----------------------------------------------------------------------------
(***************************************************************************)
(* resolve_download_hash: read and mark, ask the tracker, write, commit.   *)
(***************************************************************************)
\* links_for_tracker_hash.
ToResolve(l) == l.tracker /\ (l.state \in Unresolved \cup {"failed"} \/ ReleaseLevel(l))

Resolving(t) ==
    /\ resolve[t].state = "pending"
    /\ IF ToResolve(links[t])
       THEN /\ resolve' = [resolve EXCEPT ![t].state = "running", ![t].at = "asking"]
            /\ links' = [links EXCEPT ![t].state = IF @ = "linked" THEN @ ELSE "resolving"]
       ELSE /\ resolve' = [resolve EXCEPT ![t].state = "running", ![t].at = "completed"]
            /\ UNCHANGED links
    /\ UNCHANGED <<held, session, observer, fresh, matching, imports, downloads, changed, faulty>>

\* set_linked, set_link_failure, defer_link_resolution: the row afterwards.
Linked(l) == [l EXCEPT !.state = "linked", !.tracker = TRUE, !.ids = TRUE,
                       !.release = "resolved", !.error = FALSE]
Failed(l, state) == [l EXCEPT !.state = state, !.error = TRUE]
Deferred(l) == IF l.state = "linked" THEN l ELSE [l EXCEPT !.state = "pending", !.error = TRUE]

\* The answer is written where the row still is; set_link_failure needs the row.
Answer(t) ==
    LET there == t \in RowsOf(links)
        Write(row, outcome) ==
            /\ links' = IF there THEN [links EXCEPT ![t] = row] ELSE links
            /\ resolve' = [resolve EXCEPT ![t].at = outcome]
    IN
    /\ resolve[t].at = "asking"
    /\ \/ Write(Linked(links[t]), "completed")
       \/ Write(Failed(links[t], "not_found"), IF there THEN "failed" ELSE "retry")
       \/ Write(Failed(links[t], "failed"), "retry")
       \/ Write(Deferred(links[t]), "waiting")
    /\ UNCHANGED <<held, session, observer, fresh, matching, imports, downloads, changed, faulty>>

\* Commit of the execution (JobQueue); a job that was cancelled keeps its state.
Commit(t) ==
    /\ resolve[t].at \notin {"idle", "asking"}
    /\ LET job == resolve[t]
           next == IF job.at # "retry" THEN [job EXCEPT !.state = job.at]
                   ELSE [job EXCEPT !.attempts = @ + 1,
                                    !.state = IF job.attempts + 1 >= MaxLookups
                                              THEN "failed" ELSE "pending"]
       IN resolve' = [resolve EXCEPT ![t] =
              [IF job.state = "running" THEN next ELSE job EXCEPT !.at = "idle"]]
    /\ UNCHANGED <<held, session, observer, links, fresh, matching, imports, downloads,
                   changed, faulty>>

Waited(t) ==
    /\ resolve[t].state = "waiting"
    /\ resolve' = [resolve EXCEPT ![t].state = "pending"]
    /\ UNCHANGED <<held, session, observer, links, fresh, matching, imports, downloads,
                   changed, faulty>>

\* The job is cancelled; its execution is aborted, or gets to write first.
CancelLookup(t) ==
    /\ resolve[t].state \in {"pending", "running", "waiting"}
    /\ \E at \in {"idle", resolve[t].at} :
           resolve' = [resolve EXCEPT ![t].state = "cancelled", ![t].at = at]
    /\ UNCHANGED <<held, session, observer, links, fresh, matching, imports, downloads,
                   changed, faulty>>

\* retry_background_job_by_key, retry_background_job.
LookupRearmed(t) == resolve' = [resolve EXCEPT ![t].state = "pending", ![t].attempts = 0]

RetryJob(t) ==
    /\ resolve[t].state \in {"failed", "cancelled"} /\ LookupRearmed(t)
    /\ UNCHANGED <<held, session, observer, links, fresh, matching, imports, downloads,
                   changed, faulty>>

\* retry_download_link: retry_link, then retry_hash_resolution.
RetryLink(t) ==
    /\ links[t].tracker /\ links[t].state \in Failures
    /\ links' = [links EXCEPT ![t].state = "pending", ![t].error = FALSE]
    /\ IF resolve[t].state \in Terminal THEN LookupRearmed(t)
       ELSE resolve' = [resolve EXCEPT ![t] = Enqueued(@)]
    /\ UNCHANGED <<held, session, observer, fresh, matching, imports, downloads, changed, faulty>>

-----------------------------------------------------------------------------
(***************************************************************************)
(* match_download_releases: read, search the trackers, write.              *)
(***************************************************************************)
Matching(t) ==
    /\ matching = NoTorrent
    /\ links[t].present /\ links[t].release = "none" /\ links[t].state = "unconfigured"
    /\ matching' = t
    /\ UNCHANGED <<held, session, observer, links, fresh, resolve, imports, downloads,
                   changed, faulty>>

\* set_automatic_release_match, with the tracker the announce host hints at.
AutomaticallyMatched(l, hint) ==
    [l EXCEPT !.state = "linked", !.release = "matched", !.error = FALSE, !.tracker = @ \/ hint]

\* set_automatic_match_review.
Reviewed(l) == IF l.release = "none" THEN [l EXCEPT !.error = TRUE] ELSE l

Matched(t) ==
    /\ matching = t /\ matching' = NoTorrent
    /\ \/ /\ \E row \in {Reviewed(links[t])} \cup
                        {AutomaticallyMatched(links[t], hint) : hint \in BOOLEAN} :
                links' = IF t \in RowsOf(links) THEN [links EXCEPT ![t] = row] ELSE links
          /\ imports' = Synced(imports, links')
       \/ UNCHANGED <<links, imports>>   \* a search failed: the job retries
    /\ UNCHANGED <<held, session, observer, fresh, resolve, downloads, changed, faulty>>

-----------------------------------------------------------------------------
(***************************************************************************)
(* The process stops and starts: AppState::new, then the initial jobs.     *)
(***************************************************************************)
\* recover_resolving_links.
Recovered(rows) ==
    [t \in Torrents |-> IF rows[t].state = "resolving" THEN [rows[t] EXCEPT !.state = "pending"]
                                                       ELSE rows[t]]
\* seed_existing_job_links.
SeededJobs(rows) == [t \in Torrents |-> IF downloads[t] = "none" THEN rows[t] ELSE Seeded(rows[t])]

\* A lease that ran out (JobQueue), and the links due when the process starts.
Released(job) ==
    IF job.state # "running" THEN [job EXCEPT !.at = "idle"]
    ELSE [job EXCEPT !.at = "idle", !.attempts = @ + 1,
                     !.state = IF job.attempts + 1 >= MaxLookups THEN "failed" ELSE "pending"]

\* prune_background_jobs may delete it: it was over 30 days ago.
Prunable == {t \in Torrents : resolve[t].state \in {"completed", "cancelled"}}

Started(t, old) == IF t \in old THEN NoJob ELSE Released(resolve[t])

Restart ==
    /\ IndexFault
    /\ imports' = Synced(imports, Recovered(links))
    /\ links' = SeededJobs(Recovered(links))
    /\ \E old \in SUBSET Prunable :
           resolve' = [t \in Torrents |->
               IF links'[t].state = "pending" /\ links'[t].tracker
               THEN Enqueued(Started(t, old)) ELSE Started(t, old)]
    /\ session' = [rid |-> FALSE, known |-> {}, behind |-> {}]
    /\ observer' = Nothing /\ matching' = NoTorrent /\ fresh' = {}
    /\ UNCHANGED <<held, downloads, changed>>

IndexNext ==
    \/ DeltaIsLost \/ MarkRemoved \/ CompleteScan \/ Finish \/ Restart
    \/ \E full \in BOOLEAN : Sync(full)
    \/ \E t \in Torrents :
          \/ Added(t) \/ Announces(t) \/ Finishes(t) \/ Removed(t) \/ DownloadAdded(t)
          \/ Resolving(t) \/ Answer(t) \/ Commit(t) \/ Waited(t)
          \/ CancelLookup(t) \/ RetryJob(t) \/ RetryLink(t)
          \/ Matching(t) \/ Matched(t)

IndexSpec == IndexInit /\ [][IndexNext]_index

(***************************************************************************)
(* Fairness: every 300th tick asks for everything, a tick runs to its end, *)
(* and workers run the jobs.  Nothing is asked of the client, of users or  *)
(* of what the tracker answers.                                            *)
(***************************************************************************)
IndexFairSpec ==
    /\ IndexSpec
    /\ WF_index(Sync(TRUE)) /\ WF_index(MarkRemoved) /\ WF_index(CompleteScan) /\ WF_index(Finish)
    /\ \A t \in Torrents : /\ WF_index(Resolving(t)) /\ WF_index(Answer(t)) /\ WF_index(Commit(t))
                           /\ SF_index(Waited(t))

-----------------------------------------------------------------------------
(***************************************************************************)
(* Properties.                                                             *)
(***************************************************************************)
(* Once the client is left alone, and whatever deltas, statements and      *)
(* processes failed before, the index has exactly the client's torrents as *)
(* present, with the progress the client reports, and so do the download   *)
(* jobs of torrents that are there (qBittorrent's request id moves past a  *)
(* delta before it is stored, change.rs:250).                              *)
InventoryCatchesUp ==
    <>[]\A t \in Torrents :
           /\ links[t].present <=> t \in InClient
           /\ t \in InClient =>
                 /\ links[t].live = held[t].state
                 /\ downloads[t] \in {"none", IF held[t].state = "whole" THEN "complete"
                                                                           ELSE "active"}

(* What the imports page shows of a torrent catches up with its row again  *)
(* and again, though lookups, matches and restarts change rows without     *)
(* telling it and an error of sync_import_tasks is ignored.                *)
ImportsCatchUp == []<>\A t \in RowsOf(links) : imports[t] = StateForLink(links[t])

(* A torrent that was complete once stays in the library, with the release *)
(* it was found to be: a client that lost it, a snapshot, a restart or a   *)
(* failed lookup only mark it (README.md: "its canonical release remains   *)
(* in the Library even if its client copy later disappears").              *)
LibraryKeeps ==
    [][\A t \in Torrents : links[t].done =>
           /\ links'[t].done
           /\ links[t].release # "none" => links'[t].release # "none"]_index
=============================================================================
