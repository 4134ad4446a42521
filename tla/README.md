# A TLA+ model of wotbox

wotbox is one Rust process (axum, sea-orm on SQLite, tokio) with a Svelte
frontend. It searches private music trackers, downloads through qBittorrent,
keeps a library, and fills recommendation channels. This directory models its
concurrent and failure-prone core, checks the model with TLC and proves the
invariants that matter most with TLAPS.

Paths below are relative to the repository; `src/src/db.rs` is the Rust file
`src/db.rs` of the crate.

## The system

| component | where | state it keeps | operations | interacts with |
|---|---|---|---|---|
| Background job queue | `db.rs` 1278-2130, `background.rs` | table `background_jobs` (state, attempts, next_run_at, lease, provider, priority), claim mutex, eight worker loops | enqueue, reactivate, rearm, claim, heartbeat, settle (complete, fail, retry, defer, wait), recover, cancel, retry, release on shutdown, bootstrap | every component enqueues into it; the claim reads `provider_state`; the governor's errors decide outcomes |
| Provider governor | `provider.rs` | per provider: circuit, failures, deadlines, five queues, permits in use, endpoint windows; persisted in `provider_state` | acquire, complete, abandon, pause, resume, policy, cooldown, grant | all HTTP clients ask it for permits; `resume_provider` also wakes parked jobs |
| Single-to-Album coverage | `db.rs` 3427-4180, `background.rs` 1664-1850 | `track_index`, `single_coverage`, memberships | seed, index a tracklist, invalidate, compute, wait for dependencies | queue jobs `index_tracklist`, `compute_single_coverage` |
| Download submission | `db.rs` 4225-4500, `api.rs` 4499-4875, `background.rs` 1024-1048 | `download_jobs`, staged torrent files, the client | create with idempotency key, submit, stage, add to client, fail, rearm | queue job `submit_download`, trackers, qBittorrent |
| Download observation and links | `change.rs` 207-376, `db.rs` 6922-7660, `qbittorrent.rs` | `download_release_link`, delta cursor per client | observe, mark removed, resolve hash, match | imports, acquisition, change feed |
| Change feed | `change.rs`, `api.rs` 474-621, `frontend/src/lib/live*.ts` | `change_events` rows, shared cursor, per-stream cursor | publish, subscribe, replay, reset, retention | every component publishes; frontends refetch |
| Channels, runs, packs | `channel.rs`, `api.rs` 790-1420, `db.rs` 2197-2770 | `channel_config`, `channel_run`, `channel_pack(_item)` | schedule, refresh, recover, replan, attach, accept, reject | governor, downloads, imports |
| Imports and replacements | `db.rs` 2951-3427, `background.rs` 738-1480 | `import_tasks`, replacement state | sync, process, replace, clean up | downloads, library, qBittorrent |
| Library admission and projection | `db.rs` 634-1224, 7695-8261, `asset.rs` | library tables, projection cursor, asset files | reconcile, admit, project, materialise | imports, change feed |
| Release identity and matching | `release_matcher.rs`, `dedupe.rs`, `db.rs` 4540-5530 | canonical releases, review pairs | match, merge, reject, track comparison | catalog, coverage |
| Acquisition disposition | `acquisition.rs` | none (pure) | combine states of a release | packs, pages |
| Trackers, Plex, configuration, schema, packaging | `tracker.rs`, `plex.rs`, `config.rs`, `migration.rs`, `entity.rs`, `nix/` | none of their own | third-party HTTP, parsing, SQL definitions | governor |

What is hard in it: eight worker loops and any number of HTTP handlers share
rows that most functions read in one statement and update in another; workers
lose leases while their operation runs; the governor is an actor whose callers
disappear while it awaits; decisions taken on an error (wait, defer, fail) are
written long after the error; domain changes and the jobs that follow from them
are not always one transaction; three stores (SQLite, staged files, the
download client) change one after the other; and the process may stop between
any two of these steps. `PROJECT.json` lists the hazards at their lines.

What makes each component correct, in a sentence each:

- queue: a job is granted to one worker at a time, out of the queue only; a
  running row is resolved in the end; attempts are bounded; one job per
  provider; only the lease holder commits; parked work is woken.
- governor: never more requests than allowed, one probe in half-open, blocks
  end by an explicit resume only, every waiter is answered.
- coverage: once quiet, `ready` coverage was computed from the current
  tracklists, and nobody waits for an index that is there.
- downloads: one torrent per accepted request, no lost or doubled submission
  over crashes, no token spent twice for one download.
- links: the stored state of a torrent converges to the client's.
- change feed: a stream that stays connected learns of every event or is reset.
- channels: one run per channel at a time, a decided pack is not changed, each
  pack item is submitted at most once per plan version.
- imports and library: an import that is complete is in the library once; a
  replaced torrent is only removed when its replacement is safe.
- pure algorithms: agree with their declarative definitions.

## Modules

| module | models |
|---|---|
| `JobContract` | what the queue promises, without leases, owners or SQL |
| `JobQueue`, `MCJobQueue`, `MCLocalJobs`, `MCTrackerJobs`, `JobQueueProofs` | the queue, its workers, HTTP handlers, shutdown, crash and restart; TLC instances (shared definitions, local jobs, jobs of a tracker); theorems |
| `ProviderGovernor`, `MCProviderGovernor`, `ProviderGovernorProofs` | the actor of one provider and its callers; TLC instances; theorems |
| `SingleCoverage`, `MCSingleCoverage`, `SingleCoverageProofs` | catalogues, tracklist indexes, coverage, their jobs and wake-ups; an instance for TLC; theorems |
| `ChangeFeed`, `ChangeFeedProofs` | publishers, event rows, streams, pages, retention; theorems |
| `DownloadSubmission` | create, submit, stage, client, crash, rearm |
| `DownloadIndex` | what the observer of the client knows of its torrents, lookups, automatic match, the import and download rows that follow |
| `ReplacementImports` | the replacement of trumped torrents, up to their deletion |
| `DownloadsProofs` | theorems about `ReplacementImports` and `DownloadIndex` |
| `ChannelRuns` | scheduler, refresh, bookkeeping and recovery of one channel |
| `ChannelPacks` | accept, reject, replan and attach of one pack |
| `PackPlanner` | pure: eligibility, order of the variants, plan of an item, constraints of a pack |
| `Acquisition` | pure: what is known of an item and what can be done about it |
| `PackPlanning` | composes `PackPlanner` and `Acquisition`: from the settings to a pack that is shown |
| `PlanningCatalogue` | a small catalogue of recommendations and settings for TLC |
| `PackProofs` | theorems about `DownloadSubmission`, `ChannelPacks`, `PackPlanner` and `PackPlanning` |
| `ReleaseIdentity` | canonical releases and artists: store, match, merge, unlink |
| `LibraryProjection`, `LibraryProjectionProofs` | extends `ReleaseIdentity` by the triggers and the incremental projection of the Library; theorems |
| `LibraryAssets` | artwork, files, admission of held releases |
| `UpkeepProofs` | theorems about `ChannelRuns` and `LibraryAssets` |
| `MCPacks`, `MCPages`, `MCDownloads`, `MCUpkeep`, `MCLibrary` | the components that belong to one page or one cycle, for TLC |

An `MC` module that speaks of several components extends them all, which is why
names that two of them would use alike carry the component's (`IndexSpec`,
`PacksInit`, `ServerRestart`); the catalogue of `PackPlanning`, and
`ReleaseIdentity` without a projection, are instantiated. Its variable `part` is chosen in the initial state; a
behaviour moves the variables of that part only, and those of the others stay
as they begin. The parts do not share state in the code either, except where one
module stands in for the other's component (for example, `DownloadIndex` and
`ReplacementImports` each have the client), so nothing is lost by looking at them
one at a time, and one run answers for the components that belong together.

### JobQueue

One action is one SQLite statement or one immediate transaction. `row` is the
table, keyed by deduplication key (unique in the schema); `worker` holds each
loop's program counter (`phase`), the claimed key, the outcome it is about to
write and the attempts it read; `claimLock` is the `tokio::sync::Mutex` around
recovery and claim; `circuit` is the part of `provider_state` the claim reads;
`handlers` are HTTP requests between their read and their write; `mode` is the
process. Wall-clock time is two booleans of a row, `due` and `live`.

| code | actions |
|---|---|
| `enqueue_background_job`, `reactivate_*`, `ensure_download_submission_on` | `Enqueue`, `Reactivate`, `Rearm` |
| cancel, retry, retry by key, revisit (read, then update by id) | `HandlerRead`, `HandlerWrite` |
| `resume_provider` | `ResumeProvider`, `ResumeWaitingJobs` |
| `resume_waiting_single_coverages` | `Wake` |
| `worker_loop` | `StartRound`, `RecoverExpired`, `SelectJob`, `ClaimJob`, `LoseClaim`, `NothingToClaim`, `WorkerStops` |
| `run_claimed_job` | `Heartbeat`, `Disowned`, `OperationEnds`, `ProviderError` |
| `complete_`, `fail_`, `retry_`, `wait_background_job` | `SettleRead`, `SettleIgnored`, `SettleWrite`, `SettleError` |
| `BackgroundRuntime::shutdown`, `main` | `StopSignal`, `ShutdownInTime`, `ShutdownTimesOut` |
| process death, `bootstrap_jobs` | `Crash`, `Start` |

The constant `Parking` holds the jobs whose own handler may ask to wait, without an
error of a provider: `compute_single_coverage`, whose tracklists are missing
(`background.rs:1810-1841`); `OperationEnds` gives them that outcome, and `Wake` and a
start of the process end the wait.

Attempts saturate one above `max_attempts`, because the code only ever compares
`attempts >= max_attempts`. Not modelled: priority and age order (any claimable
row may be selected), the limit of 2000 candidate rows, payloads, parents and
progress, failures of the recovery and heartbeat statements other than the
lease running out, and pruning while the process runs.

### ProviderGovernor

The actor's loop is the variable `actor`: it waits for a command or for its
timer, advances the cooldown, grants, and persists a permit. Commands are
handled one at a time; everything its callers do (give up, be cancelled, take a
grant, finish, drop a permit) interleaves with that. Deadlines (`retry_at`,
`last_request_at` plus the interval, the background interval, the endpoint
window) are the set `past`. `client` holds one request per task; `dropped` is
the number of `Abandoned` commands on their way. Consecutive failures saturate
at 3, where the code stops distinguishing them except in the length of a delay.
A positive minimum interval is assumed, as every provider in the code has one.
Failed writes of the circuit outside a grant are only logged by the code and
are not modelled.

### SingleCoverage

One action is one transaction of a component, or one statement outside a
transaction. `index` and `coverage` are the two tables, `indexJob` and `job`
the states of the two kinds of queue jobs ("ended" is a coverage job that failed or
was cancelled, which only an operator revives), `storer` the callers of
`put_track_index_with_parent` (the one worker that runs jobs of the tracker,
and group pages that fetched a tracklist themselves), `run` what each running
computation has read, `stray` the same of those that go on without their lease
(`Strays` of them for one job). A computed coverage is the function from groups to the
tracklists it was computed from; how tracks are compared is left to a module on
matching.

| code | actions |
|---|---|
| `enqueue_track_index_with_priority`, `seed_single_deduplications` | `EnsureIndex`, `SeedSingle` |
| `replace_catalog_memberships` | `ReplaceCatalog`, then `ResumeWaiting` |
| group page, `index_tracklist` | `ViewGroup`, `StartIndex`, `Follow`, `IndexFails`, `SettleIndex`, `PageLeaves` |
| `put_track_index_with_parent` | `PutIndex` (the transaction), `FindAffected`, `Invalidate` (one per Single), `ResumeWaiting` |
| `compute_single_coverage` | `StartCoverage`, `ReadCatalog`, `ReadIndexes`, `PutCoverage`, `CoverageFails` |
| the outcome of its job (read, then update by id) | `SettleCoverage`, `CommitCoverage` |
| lost leases, `cancel_background_job`, `retry_failed_background_job` | `LeaseLost`, `CancelCoverage`, `RetryCoverage` |
| an execution without its lease | `StrayReads`, `StrayPut`, `StrayCommit`, `StrayEnds` |
| process death, `recover_track_indexes`, `bootstrap_jobs` | `Restart` |

`missed` is a history variable: the Singles whose last invalidation or wake-up
found their job running with something already read, or was cut short by a
failure, a page that left or a restart, or whose coverage or job an execution
without the lease has written since. Such a Single may keep an old coverage
(run `coverage_lost`); the invariants say that these are the only ways, and that a
new execution of the job repairs it. Attempts are not counted here: any failure or
lost lease may be the last one. Abstractions: the expiry of an index is a choice
each time it is looked at; an index job that waits for its tracker or failed counts
as pending; roles and priorities are left out.

### DownloadSubmission

`download` is the row of `download_jobs` as far as submission uses it (state,
idempotency key, whether the info hash is known), `job` its queue row, `staged`
the files in the staging directory, `inClient` the torrents of the download
client, `worker` the program counter of each execution and what it has read.
Each download is another torrent of another (tracker, torrent, profile).

| code | actions |
|---|---|
| `create_job` | `Create`, `Repeat` |
| `submit_download` | `Load` |
| `process_download` | `ReadStage`, `LookUp`, `StartFetching`, `Describe`, `StartSubmitting`, `Fetch`, `RecordHash`, `CheckClient`, `Stage`, `Add`, `Activate`, `Found`, `Clean` |
| errors, `classify_error`, terminal failure | `OperationFails`, `Bury`, `Clean` |
| `reconcile_download_jobs` | `Observe` |
| claim, lease, heartbeat | `Claim`, `Recover`, `Disowned` |
| settle functions | `SettleRead`, `SettleWrite`, `SettleError` |
| cancel, retry, resume of the job | `CancelJob`, `RetryJob`, `ResumeJob` |
| process death, `cleanup_orphaned_download_stages`, `ensure_incomplete_download_submissions` | `Restart` |

`astray` is history. A download is astray once the queue's gap
(`queue_stale_commit`), an overlap of two executions, a job given up at the end
of a lease, or a terminal failure that could not be written has touched it;
nothing is promised for it until the next start, and the invariants say that
nothing else breaks it. Abstractions: an expired lease is recovered at once;
the handlers of a job are one step (`JobQueue` has their two statements); an
event row that cannot be inserted, snapshots and release links are left out.
The observer of the client (`Observe`, from `reconcile_download_jobs`) reads its
list and updates a row in one step; torrents that disappear from the client are
in `DownloadIndex`.

Seen while modelling, and not checked: a cancelled submission is rearmed by the
next start, because its download is still shown as queued; and retrying the job
of a failed submission completes at once without doing anything, because the
download itself stays failed until it is asked for again.

### ChangeFeed

A publisher changes data, appends an event row, and wakes the streams, in three
steps that anything can come between. `log` is every row ever appended and
`pruned` how many retention has removed; ids are `AUTOINCREMENT`, so a row keeps
its position. `stream` is the task behind one `EventSource`, `pipe` the bounded
channel and connection to the page, `page` the cursor in `sessionStorage`, what
waits for the flush timer, and what the page shows that is out of date. A kind
of change stands for a resource together with the queries that use it. The page
looks at the scopes of a message only if it has no resources
(`LiveUpdates.svelte:65-70`); every publisher names a resource, so scopes decide only
what a reset refetches. An event without a resource that is replayed together with
others would be lost to the page; none is published today.
The number in the watch channel is read by nobody; a send is a wake-up, which a
stream remembers until it looks.

| code | actions |
|---|---|
| handlers, `publish_http_mutation` | `Change` |
| `ChangeHub::publish`, `AppState::publish` | `AppendEvent`, `Announce`, `PublishingEnds` |
| `events` | `Connect`, `ReadLatest`, `Decide`, `Wake` |
| `send_change_replay` | `ReadBatch`, `Send` |
| `LiveUpdates.svelte` | `Receive`, `Flush`, `Disconnect`, `Reload` |
| `change_retention`, process death | `Prune`, `ServerRestart` |

`lost` is history: the kinds a page shows out of date and cannot learn of from
its cursor. There are four ways to that, and the invariants say there is no
other: the change was never published (a failed insert is only logged, a request
was dropped, the process stopped), nobody was woken for the row, retention
overtook a stream that was behind, or the query for the oldest row failed while
the stream decided that its cursor is good (`api.rs:490` takes an error for an
empty table). A flush or a reload ends the loss. Left out: pings, which repeat
the cursor of the stream in the same channel; the payload overlay and the
`assets` event; refetches that fail.

Seen while modelling, and not checked: a message names the first 8 reasons of
up to 256 events, and images are retried only when a reason names them
(`CachedImage.svelte`); and a reset does not clear the overlay of
`liveState.ts`.

### DownloadIndex

One client. `client` is what qBittorrent has and reports, `session` the observer
with its request id and what it saw last, `links` the rows of
`download_release_links`, `resolve` the lookup jobs, `imports` and `downloads`
the rows that follow the links.

| code | actions |
|---|---|
| `download_client_observer`, `sync_downloads` | `Sync` (with `Observed`), `DeltaIsLost`, `MarkRemoved`, `CompleteScan`, `Finish` |
| `resolve_download_hash` | `Resolving`, `Answer` (with `Linked`, `Failed`, `Deferred`), `Commit`, `Waited` |
| job handlers, `retry_link` | `CancelLookup`, `RetryJob`, `RetryLink` |
| `match_download_releases` | `Matched` |
| `process_download` (the row it seeds) | `DownloadAdded` |
| `sync_import_tasks`, `reconcile_download_jobs` | `Synced`, `Reconciled`, in the steps that call them |
| process death, `recover_resolving_links`, `seed_existing_job_links`, `bootstrap_jobs` | `Restart` |

A response of the client or the tracker and the transaction that stores it are one
step. Left out: several clients, the batches of a large transaction, the Plex
scan that a finished torrent asks for.

### ReplacementImports

`task` is the import row, `cleanup` its sources, `plain` the import rows the
observer keeps for the torrents themselves, `job` the queue row of
`process_import`, `worker` its executions with the plans they have made: the
"holder" of the lease, and a "stray" that has lost it, to a cancellation or to
heartbeats that failed, and goes on until its next heartbeat. `client` holds the
torrents. What cleanup must know of a source besides its registration (tracker,
client, content path, Plex root, no overlap, not shared) is one condition.

| code | actions |
|---|---|
| `accept_channel_pack`, `create_replacement_import` | `Create`, `List`, `Enqueue` |
| `retry_import`, `dismiss_import` | `RetryImport`, `DismissImport` |
| cancel and retry of the job, `resume_waiting_jobs_for_provider` | `CancelJob`, `RetryFailedJob`, `Resume` |
| `process_import` | `Start`, `Bind`, `Look`, `Verify`, `Verified`, `Scan`, `Delete`, `Record`, `Complete`, `Follow` |
| `classify_error` | `CallFails` (counted: transient failures and other errors), `CallIsRefused` (deferred, parked or ended by what the provider answers) |
| lost leases, heartbeat, process death | `LoseLease`, `Heartbeat`, `Crash` |
| `sync_import_tasks` | `Observe` |
| qBittorrent, its users, the tracker | `Submitted`, `Downloaded`, `Interferes` |

### ChannelRuns

`channel` is the configuration row with settings and bookkeeping together, `row`
the runs, `starter` the scheduler and the refresh requests, `task` the spawned
refreshes, `editor` the requests that change the settings. Every read of the
configuration and every later write of all of it are two actions. The schedule
(`NextOccurrence`) and the retry delay are functions of a small clock.

| code | actions |
|---|---|
| `spawn_channel_scheduler`, `refresh_channel` | `Tick`, `CheckActive`, `Request` |
| `start_channel_run` | `CreateRun`, `ReadForAttempt`, `MarkAttempt`, `StartFails`; after the refresh `ReadBack`, `WriteBack` |
| `channel::refresh_channel` | `Discover`, `Match`, `ProviderLimited`, `Resume`, `Save`, `Finish` |
| `update_channel` | `ReadForUpdate`, `Update` |
| process death, `recover_channel_runs`, `AppState::new` | `Crash`, `RecoverRun`, `RecoverChannel`, `Serve` |

`stranded` and `blurred` are history: the runs whose end could not be written, and
that a write of the channel was lost or overwritten by one that had read before.

### ChannelPacks, PackPlanner, Acquisition, PackPlanning

`ChannelPacks` is one pack and the requests on it. Each request reads the pack,
then works through its items query by query; jobs change meanwhile. What an item
looks like when it is read is computed by `Acquisition`, as in the code, from its
job, the imports of its release (one of the sets `ReleaseImports`), what the client
reports of its torrent and whether it is in the library (`Sight`); the last three
are anything at each look, because other parts of the program write them. `passed`
is history: the items that the accept which decided has left out because they are
there, on their way without this program, or have an import to be reviewed.

| code | actions |
|---|---|
| `accept_channel_pack` | `LoadOpenPack`, `Project`, `Choose`, `Enqueue`, `Import`, `Record`, `Decide` |
| `reject_channel_pack`, `replan_channel_pack`, `attach_channel_pack_item` | `Reject`, `LoadForReplan`, `Replan`, `ReplaceChannelPlan`, `Attach` |
| failed queries, process death | `Fail`, `Crash` |
| downloads go on, preferences are saved | `JobGoesOn`, `ChangePreferences` |

`PackPlanner` is `ReleasePreferences` (`model.rs`) and the planning half of
`channel.rs`: `Eligibility`, `CompareVariants`, `PlanVariant`,
`ResolveRelease`, `ApplyPackConstraints`. `Acquisition` is
`acquisition.rs`: holdings, satisfaction, activities, actions, phase,
disposition. `PackPlanning` calls them as the requests do: `Save` (migration and
validation of the settings), `Resolve` (one recommendation), `Fit` (the
constraints), `Show` (an item with a job, imports and progress). Its properties
state in declarative terms what the algorithms together have to guarantee.

### ReleaseIdentity and LibraryProjection

Storing a group, merging and unlinking are sequences of statements without a
transaction, so each statement is an action, the rows a merge moves one by one
included, and `Cut` may end a sequence before any of them. Two exceptions: the
artist of a stored group comes with its source and credit, and the releases whose
metadata one operation rebuilds are rebuilt together. `job` holds what each writer is about to do.

| code | actions |
|---|---|
| `put_catalog_group`, `ensure_release_identity`, `ensure_release_artists` | `PutStart`, `PutRow`, `PutSource`, `PutCollides`, `PutArtists`, `PutRebuild`, `PutLinks`, `PutTorrent`, `PutEnds` |
| `merge_releases`, called by reconciliation, review and search | `Reconcile`, `AcceptMatch`, `SearchMerges`, then `MergeSources` ... `MergeRebuild`, `MergeArtists`, `MergeDecide` |
| `reject_match`, `unlink_release_source` | `RejectMatch`, `UnlinkStart` ... `UnlinkRebuild` |
| a failed statement, process death | `Cut` |
| triggers of `IncrementalLibraryProjectionSchema` | `LinkTrigger` ... `WholeTrigger`, evaluated in every step that changes rows (`TriggersFire`) |
| `refresh_library_projection`, `store_library_projection` | `RefreshStart`, `ReadRecords`, `ReadDetails`, `Store`, `RefreshFails`, `NothingToDo` |
| `reconcile_library_admissions`, links, coverage, settings | `Admit`, `Retire`, `Complete`, `Copy`, `Cover`, `Prefer` |

Scores of the matcher are an input. Ids are numbers in the order in which they are
issued; where the code prefers the smaller of two UUIDs the model takes either.
`ReadDetails` takes three queries as one (details, preferences, coverage): what
changes between them moves a mark, so that the document is built again.

### LibraryAssets

`run` is the reconciliation, of which there is one at a time; `asset` is the row of
each artwork, `named` the rows that name a stored file, `files` the stored contents,
`job` the queue row, and `worker` the executions: the "holder" of the lease, and a
"stray" that has lost it and writes the row of the artwork until its next heartbeat.
Two addresses may have the same content. `ReadRows` takes the eight queries of the
admissions as one.

| code | actions |
|---|---|
| `reconcile_library_asset_references`, `ensure_library_asset` | `Wake`, `Upsert`, `DeleteObsolete`, `ListSources`, `Ensure` |
| `reconcile_library_admissions` | `ReadHeld`, `ReadRows`, `Admit`, `RemoveAdmissions` |
| `prune_unreferenced_library_assets`, `remove_blob` | `PruneRead`, `PruneCommit`, `RemoveFile` |
| `materialize_library_asset` | `Claim`, `Fetched`, `Store`, `Complete`, `Disappeared`, `Failure`, `FinishJob` |
| a write that fails | `WriteFails` |
| lost leases, heartbeat | `Expire`, `Heartbeat`, `Interrupted` |
| cancel and retry of the job | `Cancel`, `Retry` |

`raced` and `left` are history: artworks that took up a file while a prune that
removes it was under way; and those whose row and job nobody brings together again,
since their job was last queued: an operator cancelled it, its last attempt ended
without a word to the row (a lost worker, a failed write, a row made anew), or a
stray wrote the row last.

## Runs

Bounds are small because each hazard needs two actors: a worker and a handler,
two workers, an actor and a cancelled task, a writer and the observer.

| run | asks | bound, and why it is enough |
|---|---|---|
| `queue` | typing, bounded attempts, refinement of `JobContract`; queued work is claimed, running rows are resolved, disowned workers stop | 2 workers and one of two jobs: a recurring one with 2 attempts that every start enqueues, with all operations, or a coverage with 1 attempt, which may wait, is woken and cancelled; 1 handler in flight: a worker, a second worker and a handler write one row in any order |
| `queue_tracker` | one running job per provider | 2 workers, 2 jobs of one provider, 1 handler or resume in flight, 1 cancel or retry by an operator; attempts 1, so that failure and rearming both occur; the first job may meet errors of the provider |
| `governor` | permits are counted, probes are alone, blocks hold, requests are answered | 2 tasks over 3 classes, 1 permit (what every tracker has), queue depth 1 so that `Busy` occurs, 1 request per window of one endpoint |
| `packs` | an accepted pack is requested; plans fit, are allowed and do not repeat; work on its way is not selected; a submission is not forgotten, doubled or fetched twice | packs: 2 items, one a replacement, 2 accepts, 1 reject, 1 replan, 1 attach, 1 fault; no import or one that is downloading, to be reviewed or failed, with every progress, in the library or not. Plans: up to 3 of 10 recommendations, 5 settings (one legacy, one invalid), a client without room for all of them. Submission: 1 download, 2 keys, 2 workers, 2 attempts |
| `pages` | ready coverage is current, waiting jobs miss something, pending coverage is worked on; a cursor skips nothing, a quiet page is fresh | coverage: 1 Single, 1 Album, 2 tracklists, the indexing job, a page, and 1 execution without its lease. Feed: 2 publishers, 1 page, 2 kinds, 3 events, batches of 2 rows, a pipe of 1 message |
| `downloads` | the index, the jobs and the imports page catch up with the client, the Library keeps what was complete; cleanup removes what it checked only, records what is gone only, and ends | index: 1 torrent, 2 changes in the client from any initial content, 1 fault, 2 attempts. Imports: 2 sources, 1 replacement, 2 attempts, 1 change, 1 fault (a refused call, a lost lease or a crash), 2 clicks, 1 execution without its lease |
| `upkeep` | no run is left running, the channel shows its last outcome, settings hold, a due channel is attempted; artwork is worked on, files stay, held releases are decided | runs: 1 channel, the scheduler and either a refresh or a change of the settings, 2 runs, 1 fault, a clock of 2 units whose second is the next scheduled occurrence. Assets: 1 release and its artist, 2 addresses with the same bytes, 2 attempts, 1 lost worker or failed write, 2 clicks, 1 change, of which at most 2 together |
| `library` | unmarked documents are current, ids are stable, merged releases are empty | 2 groups of 2 trackers the matcher takes for the same release, 1 writer, 3 releases, 2 operations or changes beside the observer and 4 without it; the pair always scores "auto", so that a match kept for review does not occur; the theorem on `UnmarkedIsCurrent` is about every score |
| `queue_stale_commit` | README: stale workers do not commit | violated, see Findings |
| `governor_probe` | README: an expired cooldown allows a probe | violated |
| `coverage_lost` | README: tracklist changes invalidate the coverage they affect | violated |
| `library_rejected` | frontend: rejected pairs stay rejected | violated |

The further bounds are named where they stand in the MC modules (`FewOverlap`,
`JobsAreRead`, `LookedAt`, `Spacious`, `BoundedSubmission`, `BoundedNext`, `Alone`, `OneClick`,
`FewStrays`, `BoundedRuns`, `BoundedAssets`). `FewStrays` and `BoundedAssets` let an
execution go on without its lease where nothing else has changed; the theorems on
`ReplacementImports` and `LibraryAssets` have no such bound. Symmetry is declared on tracklists, kinds, publishers, torrents,
requests, workers and trackers, in runs without liveness only. In `MCPacks` two
parts use the same model values, so that one symmetry set serves both.

`CHECK_DEADLOCK FALSE` is set where behaviours end by their bounds: no more
changes, faults, runs or requests. A violation of liveness in such an end state
is found all the same. Of the type invariants the runs check that of `JobQueue`;
those of the other modules with proofs are proved, or are part of an inductive
invariant (`PackShape`, `PlansInv`), and in `ChannelPacks` and `LibraryProjection`
the definition of that name documents the types of the variables.

Fairness.

- `JobQueue`: tokio polls every task, the claim mutex is granted in order (strong
  fairness of `RecoverExpired`), leases nobody extends run out, deadlines come.
  That operations return is not part of it; the two properties that need it name
  it as a premise (`OperationsReturn`), since an operation can hang while
  heartbeats go on.
- `ProviderGovernor`: the actor runs, its mailbox is first in first out (strong
  fairness of the commands), operations end, time passes.
- `DownloadIndex`: the observer's loop goes on, workers take up and finish
  lookups; parked lookups are woken if their provider keeps coming back (strong
  fairness of `Waited`). Full updates come (`Sync(TRUE)`): a delta that fails, a
  restart and qBittorrent itself ask for one.
- `ReplacementImports`: the import job is claimed when it is due, the execution that
  holds its lease takes its steps, and the download of the replacement goes on while
  it is there. A provider that refuses owes nothing: `ImportSettles` bounds the
  failures that count no attempt, because one that is deferred for ever goes round
  for ever.
- `ChannelRuns`: the scheduler's interval ticks, spawned tasks go on, time passes, a
  start of the process ends.
- `LibraryAssets`: the reconciliation recurs, and workers go on. That nobody cancels
  the reconciliation for ever is part of it; a cancelled or failed one is queued again
  by the next interval (`Interrupted` is the way it breaks off here).

Requests, cancellations, failures, crashes, lost leases and the operator are never
assumed to act, and are bounded rather than assumed to stop.

## Findings

Each of these is a run that TLC ends with a counterexample:

- A worker that lost its lease can still commit its outcome (`queue_stale_commit`).
- A grant sent to a cancelled task is never returned; the provider grants
  nothing more until a restart (`governor_probe`).
- A tracklist stored while a coverage is computed, or just before the process
  stops, leaves coverage computed from the old one shown as ready
  (`coverage_lost`).
- A search merges releases that the operator took apart (`library_rejected`).

## Observations

Met while modelling and visible at the lines given, without a run of their own.
Where a property of a passing run names an exception (`astray`, `missed`, `lost`,
`stranded`, `blurred`, `raced`, `left`, `overlapped`, `passed`), it is one of these,
and the property says that there is no other.

Queue and submission:
- `resume_provider` (`api.rs:790-803`, `db.rs:2029-2051`) reopens a provider and
  then wakes the waiting rows; a job refused before and written as waiting
  after is not woken by it, although `BackgroundJobsPanel.svelte:107-108` says
  that it resumes.
- `BackgroundRuntime::shutdown` gives joining the workers and releasing their
  leases one deadline, so when a worker uses it up no lease is released.
- A torrent file fetched for its info hash (`api.rs:4784`) is staged only after
  further writes and a question to the client, and is fetched again, with its
  token, when one of them fails.
- A wait is written by id like every outcome: one that comes late puts a row whose
  recovery spent the last attempt among the waiting ones, and the next wake-up runs
  it again (`db.rs:1755-1800`, `2029-2130`). So `AttemptBudget` is about jobs that
  nothing can park.
- `README.md` speaks of two workers; `WORKER_LANES` has eight entries.

Coverage:
- A coverage job that failed or was cancelled is left alone by every invalidation
  (`db.rs:1393-1405` revives completed ones only), so that its coverage stays pending
  until an operator retries it; and a start does not revive a completed job whose
  coverage is pending.
- An execution that has lost its lease stores the coverage it computed
  (`background.rs:1845`), over what the job's next execution may have stored.

Downloads and imports:
- `set_automatic_release_match` overwrites a link that was resolved meanwhile.
- The download job of a torrent that is removed before the first delta, or
  while the process is down, stays active.
- A cancelled lookup leaves its link `resolving` until the next start.
- `create_replacement_import` writes the task and then its sources outside a
  transaction (`db.rs:3049-3168`); `sync_import_tasks` (`db.rs:2997-3003`) or an
  import job in between takes it for a plain import and completes it, after which
  `process_import` returns at once (`background.rs:1059`) and the sources are
  never handled, whatever `Preferences.svelte:569-582` promises.
- `bind_import_target` (`db.rs:3202`) can collide with the observer's own task for
  the same torrent.
- A crash between completing a replacement and `set_superseded_source_states`
  leaves its sources `processing`.
- An import that is cancelled or dismissed goes on deleting until the next heartbeat
  of its execution (`background.rs:576`); a dismissed one, to its end.
- A pack accepted again with "keep" does not stop an attempt that has read
  "remove" already.
- `sync_import_tasks` sets a dismissed plain import back to the state of its
  link, and a retry during the last statement of an execution is lost.

Channels and packs:
- Overlapping accepts, replans and attaches overwrite each other's items.
- A replacement whose download was enqueued by an accept that broke off before
  `create_replacement_import` (`api.rs:1148-1172`), and that finished before the pack is
  accepted again, counts as satisfied and is skipped (`acquisition.rs:343-350`,
  `api.rs:1123`): the pack is accepted, the trumped torrent stays.
- If `finish_channel_run` fails, the run stays running and blocks the channel until a restart.
- An item planned again on another tracker is not held against that tracker's
  token limit (`channel.rs:2642-2717` compares only the first plan).
- A finished torrent known by its info hash only is offered again, and "add"
  can be offered while the disposition is waiting.

Library:
- Two merges of the same releases in opposite directions make a cycle of aliases
  and delete both rows; a store that read a source while its release is merged
  brings that release back. No mutex keeps `merge_releases` alone.
- A crash in the middle of a merge or an unlink leaves link and torrent of a
  download on different releases (`README.md:65-68` promises one).
- Merging a release into one that is not admitted yet hides it until it is.
- `put_match_candidate` reads and then updates: it can overwrite a rejection
  written in between.
- A coverage that changes between the move of a source and the rebuild of the
  release does not mark the release it moved to.
- A file that a second artwork takes up while the prune that removes it is under
  way (`background.rs:908`, `db.rs:955`) is gone although its row is ready, and
  nothing fetches a ready artwork again.
- The row of an artwork is settled by the handler only (`background.rs:965`), and
  `library_artwork_sources` (`db.rs:771-776`) lists no pending or retrying one. So an
  artwork stays `retrying` or `pending`, and its release `preparing`, until an operator
  retries the job, when its last attempt loses its worker or cannot write the row;
  when an operator cancels the job (`db.rs:1910`), before or while it runs; and when
  an execution that has lost its lease writes `retrying` (`background.rs:983`) over a
  row that another one has settled, also over a stored one.
- An artwork that failed a week ago and is listed again between the report of its
  handler and the end of its job gets a row but no job.

## Proofs

A proof module extends the modules it is about and holds for every value of the
constants that satisfies their assumptions: an `ASSUME` in `JobQueue`,
`ProviderGovernor`, `SingleCoverage`, `ChannelRuns`, `ChannelPacks`,
`PackPlanning`, `DownloadIndex`, `ReleaseIdentity`, `LibraryProjection` and
`LibraryAssets`; in `DownloadSubmission`, `ReplacementImports` and `ChangeFeed` a
definition, `ConstantsFit`, that the theorems name in `ASSUME ... PROVE` and that
the `MC` modules assume, so that TLC evaluates it. They say that null values are
not among the real ones, that counts are numbers, what the fields of a setting
and of a variant are, and where the code needs one of something (a permit, a row
of a batch, a source) that there is one. No set needs to be finite or non-empty
except there. Two theorems of `PackProofs` need more of a null value than TLC can
evaluate, and name it: `NilIsNoValue` and `NoneIsNoJob` say that it is no tuple,
record or string that the models build, which is true of a model value.

Each theorem follows from an inductive invariant with one step per action of
`Next`. The strengthened invariants were checked with TLC before they were
proved, on instances of the size of the runs. What they say, beyond types, is
what a reviewer of the code would have to keep in mind:

`JobQueueProofs`
- `TypeCorrect`: `Spec => []TypeOK`. `TypeOK` is inductive once it says that a
  worker has a key exactly in the phases where it uses one.
- `ProviderIsExclusive`: `Spec => []ProviderExclusive`. `ExclusiveInv` says who may
  be between the query and the claim: only the holder of the claim mutex is in
  those phases, and while it is, no loyal job of its candidate's provider is
  running and its candidate is still queued under that provider. Retries,
  rearms and cancellations do not take the mutex, so the proof shows that none
  of them can make a row running.
- `AttemptsAreBounded`: `Spec => []AttemptBudget`. A row of a job that meets no
  provider and whose handler does not ask to wait (`Local`) never waits; a
  queued or running local row has attempts left, and so has the value a worker
  carries from its read to its write, as far as it decides the new state.
- `QueueKeepsItsContract`: `Spec => ContractHolds`, the refinement of
  `JobContract`. The initial states map to initial states, and each action to a
  step of the contract or to a stutter: requests to `Submit`, `Close`, `Reopen`
  and `Unpark`, the claim to `Grant`, a settle to `Report`, an aborted operation
  to `Abandon`, recovery to `Reclaim`, the end and the start of the process to
  `Halt` and `Boot`. It needs `TypeOK` and that no worker outlives its process
  (`DownIsEmpty`).

`ProviderGovernorProofs`
- `TypeCorrect`: `Spec => []TypeOK`.
- `BlocksHold`: `Spec => BlockHolds`. No invariant is needed: the guard of each
  action that moves the circuit settles it.
- `PermitsCounted`: `Spec => []PermitsAreCounted`. `active` is a number kept by
  the actor and changed on a grant, a completion and a drop; the property
  compares it with who holds a permit. `CountInv` says that a queue holds each
  waiter once and under its own class and phase, that the permit being
  persisted belongs to somebody, and that holders and drops are counted by
  `active`. Giving up and being cancelled move a request from one side of that
  count to the other without the actor.
- `ProbesAlone`: `Spec => ProbeIsAlone`, from `CountInv`: a half-open circuit
  grants only at `active = 0`, and then nobody holds a permit.

`SingleCoverageProofs`
- `TypeCorrect`, `ReadyCoverageIsCurrent`, `WaitingCoverageMissesSomething` and
  `PendingCoverageIsWorkedOn`: `Spec => []` of `TypeOK`, `ReadyIsCurrent`,
  `WaitersMissSomething` and `PendingIsWorkedOn`. `CoverageInv` keeps two debts
  of a caller apart: the Singles it has still to invalidate, for which alone
  coverage may be out of date, and those it has still to wake, for which alone a
  job may wait in vain; the first are among the second. An execution that has
  read catalogues or tracklists is held to what they say until it is overtaken.
  An execution without the lease is held to nothing: what it writes makes the Single
  `missed`.
  A catalogue that changes moves who depends on whom: the proof shows that a
  Single which is on the page neither before nor after depends on the same
  groups as before.

`PackProofs`, `DownloadSubmission`
- `TypeCorrect`, `TorrentsAreAddedOnce`, `StagedFilesAreNotFetched`,
  `UnfinishedDownloadsAreWorkedOn`. `OnceInv` says that one execution at most
  operates on a download that is not astray, and that what it has been told (the
  torrent is not in the client, nothing is staged) is still true when it acts on
  it. `WorkInv` relates the row, its job and the executions: who holds the lease is
  the last to have claimed, a download that is operated on has a live job, and
  an outcome that ends the job ends the download before.

`PackProofs`, `ChannelPacks`
- `AcceptedPacksAreRequested`: `PacksSpec => []AcceptedIsRequested`. While no two
  requests overlap, the one that works on the pack sees the items as they are
  from the one it has come to; those before it, and those that it found not
  selectable, have what they planned or are passed over (`AcceptInv`). An item is
  left out only when `Acquisition` says so; then something was created for its
  torrent, or it is there, on its way or to be reviewed already, and it is passed
  over: the lemmas on `Phase` and `Project` say what an item without a job is shown as.

`PackProofs`, `PackPlanner` and `PackPlanning`
- `SpaceIsKept`, `NothingIsDownloadedTwice`, `PlannedIsAllowed`: `PlansSpec => []` of
  `SpaceFits`, `NothingTwice` and `PlansAreAllowed`, for every catalogue, settings
  and number of items. `PlansInv` says that the settings in use are the given ones,
  migrated, and that every planned item is planned for a variant of its own that
  they allow (`ItemOK`). What the loop of `apply_pack_constraints` keeps is `Held`:
  the releases and torrents of the items planned so far are remembered, so that a
  new one repeats neither, and what they ask of a client and what is left of its
  space add up to no more than it reported. That a torrent is known by its
  profile too does no harm, because a tracker has one profile. Underneath are
  lemmas on the operators: a loop over positions has a result and keeps what
  each of its turns keeps (`Recursion`, `Induction`, from the well-foundedness
  of the numbers; the loops are recursive functions, and a property is the set of
  positions that have it), the ranks of variants are weakly ordered and so have a
  first (`ComparingIsAnOrder`, `FirstIsOne`), and a quality within the cutoff after
  the migration is one that was admitted before (`AdmittedIs`).
- `WorkIsNotSelectedTwice`: `PlansSpec => []NotSelectedTwice`. `ShownInv` keeps what
  the shown item was projected from; a job or a download of it is among its
  signals, and the item with such a signal is in no phase that can be selected. It is
  about downloads that are not finished; a finished torrent of which neither job nor
  import is left is offered again.

`DownloadsProofs`, `ReplacementImports`
- `TypeCorrect`, `RemovedSourcesAreGone`, `OnlyTheRemovableIsRemoved`. What is in
  the plan of an execution has been found removable by itself (`sound`), only one
  that keeps nothing and has seen the replacement whole and in place (`whole`) has a
  plan, and the source that is about to be recorded as removed is out of the client
  (`Inv`). All this is kept of the execution that has lost its lease as of the one
  that holds it.

`DownloadsProofs`, `DownloadIndex`
- `IndexTypeCorrect`, and `CompleteTorrentsStay`: `IndexSpec => LibraryKeeps`. A step
  of the observer, a lookup, a handler or a restart writes a row in several ways
  one after the other (`RowsKept` has them all); each keeps that a row that does
  not exist is not done, and that a lookup which is not over has attempts left
  (`IndexInv`).

`UpkeepProofs`, `ChannelRuns`
- `RunningRunsAreWorkedOn`: runs are created one after the other and only the
  last may be running; one request at most is starting it, and a process that is
  down works on nothing (`RunInv`).
- `OutcomesAreShown`: a copy of the channel that is about to be written is the
  row as it still is, unless somebody wrote in between (`behind`), so that a
  write keeps what it does not mean to change; and a run that ended and has
  nobody left to write for it is shown (`BookInv`).
- `SettingsAreKept`: `Spec => SettingsHold`, from the same invariant.
- `TypeOK` of this module also bounds the failures a channel counts by the runs
  there were. That is not proved; the theorems take the number as a natural one.

`UpkeepProofs`, `LibraryAssets`
- `AssetsTypeCorrect`, `FilesAreKept`, `UnsettledArtworkIsWorkedOn`. What a prune is
  about to remove is the file of no ready row except of those that took it up
  meanwhile; an execution that has stored its bytes has its file. A row is ready only
  if it names its file. `left` is emptied of an artwork only when its job is queued
  again or its own execution has told the row, and then the row is settled or the
  job still alive.

`LibraryProjectionProofs`
- `UnmarkedDocumentsAreCurrent`: `Spec => []UnmarkedIsCurrent`. `ProjectionInv` follows
  the observer through its two reads and its store: what it has read of a
  release is what it would read now, unless the release is marked and the mark
  has moved since (`Sure`). A step that changes what a document is made of fires
  a trigger that marks the release, or leaves its rows in disagreement until a
  later step of the same operation does; a summary follows the relations, and a
  relation that is out of date hangs on a marked release.

`ChangeFeedProofs`
- `TypeCorrect`, `CursorsSkipNothing`, `QuietPagesAreFresh`. The cursor of a page is
  only moved by messages, so `FeedInv` speaks of what the page would still have to
  hear of after each prefix of its channel (`Promised`), after what the stream
  reads next (`Replayed`), and of a stream that listens unwoken having read all that
  was announced (`Finished`). `BatchIsNext` says that a batch is the next stretch of
  the log, by the cardinality of an interval.

Model-checked only:
- liveness and what it needs of fairness (`RunningIsResolved`, `QueuedWorkRuns`,
  `DisownedStops`, `RequestsAreAnswered`, `InventoryCatchesUp`, `ImportsCatchUp`,
  `ImportSettles`, `DueIsAttempted`, `HeldIsDecided`): the prover knows nothing of
  `ENABLED`;
- `IdsAreStable` and `MergedIsEmpty` of `LibraryProjection`: they do not hold for
  every value of the constants. The code follows seven aliases (`db.rs:6849`),
  so that a longer chain of merges loses an id, and two
  writers that merge in opposite directions make a cycle (see Observations); the
  run has one writer and three releases;
- the bound on failures in `TypeOK` of `ChannelRuns`.

## Not modelled

- Scores of releases and tracks (`release_matcher.rs`, `dedupe.rs`): string
  distances and weights in floating point. Their three answers are inputs.
- `tracker.rs`, `plex.rs`, the Last.fm and chart clients of `channel.rs`: HTTP and
  JSON of third parties. Their errors are inputs of the modules that call them.
- `config.rs`: parsing and validation of a file at the start.
- Table definitions of `migration.rs` and `entity.rs`, and the order of the
  migrations. (Migration 18's `UPDATE library_assets` is not idempotent; it runs once.)
- Reads, rendering and filters of the HTTP API; the frontend but for its live
  updates.
- The job queue's priorities and lanes; lengths of delays.

## Plan

Of the safety properties the runs check, all but `IdsAreStable` and `MergedIsEmpty`
are proved. These two could be stated of one writer and of chains no longer than
the code follows; the proof would need that aliases make no cycle.
