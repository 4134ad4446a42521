---------------------------- MODULE LibraryAssets ----------------------------
(***************************************************************************)
(* Artwork and admission of the Library (src/src/db.rs, asset.rs,          *)
(* background.rs).  Every five minutes one job, the reconciliation, lists  *)
(* the artwork the held releases need, makes a row and a job for each new  *)
(* one, decides which releases are complete enough to be shown, and        *)
(* removes what nothing has needed for a month.  Jobs of another lane      *)
(* fetch one artwork each and store its bytes under their hash: two        *)
(* addresses with the same bytes share a file.                             *)
(*                                                                         *)
(* An owner (a release, an artist, a group of an artist's catalog) has at  *)
(* most one artwork.  None is no address.  Time is not counted: a month or *)
(* a week may pass between any two steps.                                  *)
(*                                                                         *)
(* The rows of the jobs are those of JobQueue.  An execution that loses    *)
(* its lease, or whose job an operator cancels, goes on as a "stray" until *)
(* its next heartbeat, and writes the row of the artwork as the holder of  *)
(* the lease does.  There is one reconciliation at a time.                 *)
(***************************************************************************)
EXTENDS Naturals, FiniteSets

CONSTANTS
    Releases,     \* releases that may be held
    Owners,       \* what may have artwork
    Needs,        \* Needs[r]: the owners whose artwork r is shown with
    Sources,      \* addresses of artwork
    Bytes,        \* Bytes[s]: what is found there
    None,         \* no artwork
    MaxAttempts,  \* max_attempts of a materialization
    MaxLost,      \* bound on lost workers and failed writes
    MaxClicks,    \* bound on the clicks of operators
    MaxChanges    \* bound on changes of the canonical rows

\* None is no address, a job has an attempt, the bounds are counted.
ASSUME LibraryAssetsAssumption ==
    /\ None \notin Sources
    /\ MaxAttempts \in Nat \ {0}
    /\ MaxLost \in Nat /\ MaxClicks \in Nat /\ MaxChanges \in Nat

VARIABLES
    held,       \* releases with a download_release_links.library_added_at
    described,  \* held releases with metadata, artists and their catalogs
    artwork,    \* artwork of the canonical rows
    reference,  \* library_asset_references
    asset,      \* library_assets.state
    named,      \* rows with a library_assets.blob_hash
    files,      \* blobs of the AssetStore
    job,        \* materialize_library_asset jobs
    worker,     \* their executions, with the lease and without
    admission,  \* library_admissions
    run,        \* the reconciliation
    raced,      \* history: materializations that used a file a prune had given up
    left,       \* history: artworks whose row and job nobody brings together
    lost,       \* bound: workers lost and writes failed so far
    clicks,     \* bound: clicks so far
    changes     \* bound: changes of the canonical rows so far

rows   == <<held, described, artwork>>
stored == <<reference, asset, named, files, admission>>
bounds == <<lost, clicks, changes>>
assets == <<rows, stored, job, worker, run, raced, left, bounds>>

Settled   == {"ready", "absent", "unsupported"}
Final     == Settled \cup {"failed_terminal"}
Unsettled == {"pending", "retrying"}
Live      == {"queued", "running"}

Executions == {"holder", "stray"}

NoJob  == [state |-> "none", attempts |-> 0]
\* What an execution has reached, whether its attempt is the last one, and
\* whether the row says what it reported.
NoWork == [at |-> "none", last |-> FALSE, told |-> FALSE]
NoRun  == [at |-> "idle", wanted |-> [o \in Owners |-> None], sources |-> {}, held |-> {},
           decided |-> [r \in Releases |-> "none"], candidates |-> {}, theirs |-> {},
           removable |-> {}]

Referenced == {reference[o] : o \in Owners} \ {None}

-----------------------------------------------------------------------------
(* reconcile_library_store.                                                *)

ReconcileGoes(next) == run' = [run EXCEPT !.at = next]

\* The owners with a held release, and their artwork.
Wake ==
    /\ run.at = "idle"
    /\ run' = [NoRun EXCEPT !.at = "upsert",
                 !.wanted = [o \in Owners |->
                     IF \E r \in held : o \in Needs[r] THEN artwork[o] ELSE None]]
    /\ UNCHANGED stored

\* Only what differs is written, and then what nobody wants is deleted.
Upsert ==
    /\ run.at = "upsert"
    /\ reference' = [o \in Owners |-> IF run.wanted[o] # None THEN run.wanted[o] ELSE reference[o]]
    /\ ReconcileGoes("delete")
    /\ UNCHANGED <<asset, named, files, admission>>

DeleteObsolete ==
    /\ run.at = "delete"
    /\ reference' = run.wanted
    /\ ReconcileGoes("sources")
    /\ UNCHANGED <<asset, named, files, admission>>

\* library_artwork_sources: without a row, or failed and due again by now.
ListSources ==
    /\ run.at = "sources"
    /\ \E due \in SUBSET {s \in Referenced : asset[s] = "failed_terminal"} :
        run' = [run EXCEPT !.at = "ensure",
                           !.sources = {s \in Referenced : asset[s] = "none"} \cup due]
    /\ UNCHANGED stored

\* ensure_library_asset, one transaction: the row, and a job that is queued
\* again if it had ended.  A worker that has just reported finds its report gone.
Ensure(s) ==
    LET rewritten == asset[s] \in {"none", "failed_terminal"} IN
    /\ run.at = "ensure" /\ s \in run.sources
    /\ asset' = [asset EXCEPT ![s] = IF rewritten THEN "pending" ELSE @]
    /\ job' = [job EXCEPT ![s] = IF @.state \in Live THEN @ ELSE [NoJob EXCEPT !.state = "queued"]]
    /\ worker' = [worker EXCEPT !["holder"][s].told = @ /\ ~rewritten]
    /\ left' = IF job[s].state \in Live THEN left ELSE left \ {s}
    /\ run' = [run EXCEPT !.sources = @ \ {s}]
    /\ UNCHANGED <<reference, named, files, admission>>

\* reconcile_library_admissions: the held releases, ...
ReadHeld ==
    /\ run.at = "ensure" /\ run.sources = {}
    /\ run' = [run EXCEPT !.at = "decide", !.held = held, !.wanted = NoRun.wanted]
    /\ UNCHANGED stored

\* Mutant: an artwork that does not exist is waited for.
DecisionStored(r) ==
    IF r \in described
         /\ {reference[o] : o \in Needs[r]} \ {None} \subseteq {s \in Sources : asset[s] = "ready"}
    THEN {"published"} ELSE {"preparing"}

Decision(r) ==
    LET required == {reference[o] : o \in Needs[r]} \ {None} IN
    IF r \notin described THEN {"preparing"}
    ELSE IF required \subseteq {s \in Sources : asset[s] \in Settled} THEN {"published"}
    ELSE {IF asset[s] = "failed_terminal" THEN "blocked" ELSE "preparing" :
            s \in {t \in required : asset[t] \notin Settled}}

\* ... and what is known of them: eight queries, taken together.  One of them is
\* about the artworks, the references are the reconciliation's own, and the metadata
\* and the catalogs only grow: a later query sees no less than an earlier one would.
ReadRows ==
    /\ run.at = "decide"
    /\ \E decided \in [Releases -> {"none", "preparing", "blocked", "published"}] :
        /\ \A r \in Releases : IF r \in run.held THEN decided[r] \in Decision(r)
                               ELSE decided[r] = "none"
        /\ run' = [run EXCEPT !.at = "admit", !.decided = decided]
    /\ UNCHANGED stored

\* admitted_at stays once it is set; without changes nothing is written.
Admitted(r, state) == [state |-> state, admitted |-> admission[r].admitted \/ state = "published"]

Admit(r) ==
    /\ run.at = "admit" /\ r \in run.held
    /\ run.decided[r] # "none"
    /\ admission' = [admission EXCEPT ![r] = Admitted(r, run.decided[r])]
    /\ run' = [run EXCEPT !.decided[r] = "none"]
    /\ UNCHANGED <<reference, asset, named, files>>

RemoveAdmissions ==
    /\ run.at = "admit" /\ \A r \in Releases : run.decided[r] = "none"
    /\ admission' = [r \in Releases |-> IF r \in run.held THEN admission[r]
                                        ELSE [state |-> "none", admitted |-> FALSE]]
    /\ ReconcileGoes("prune")
    /\ UNCHANGED <<reference, asset, named, files>>

\* prune_unreferenced_library_assets: what has not been written for a month,
\* then one transaction that deletes it and lists the files no other row names.
PruneRead ==
    /\ run.at = "prune"
    /\ \E old \in SUBSET {s \in Sources \ Referenced : asset[s] \in Final} :
        run' = IF old = {} THEN NoRun
               ELSE [NoRun EXCEPT !.at = "commit", !.candidates = old,
                                  !.theirs = {Bytes[s] : s \in old \cap named}]
    /\ UNCHANGED stored

\* Mutant: another row of the same file is not looked for.
RemovableAlone(gone, theirs) == theirs

Removable(gone, theirs) == theirs \ {Bytes[s] : s \in named \ gone}

PruneCommit ==
    LET removable == Removable(run.candidates, run.theirs) IN
    /\ run.at = "commit"
    /\ asset' = [s \in Sources |-> IF s \in run.candidates THEN "none" ELSE asset[s]]
    /\ named' = named \ run.candidates
    /\ run' = IF removable = {} THEN NoRun
              ELSE [NoRun EXCEPT !.at = "remove", !.removable = removable]
    /\ UNCHANGED <<reference, files, admission>>

\* remove_blob; a failure is only logged.
RemoveFile ==
    /\ run.at = "remove"
    /\ \E b \in run.removable :
        /\ run' = IF run.removable = {b} THEN NoRun ELSE [run EXCEPT !.removable = @ \ {b}]
        /\ files' \in {files, files \ {b}}
    /\ UNCHANGED <<reference, asset, named, admission>>

\* A materialization that holds a file when the prune gives it up.
GivenUp == {s \in Sources : \E e \in Executions :
                worker[e][s].at = "stored" /\ Bytes[s] \in run'.removable}

Reconcile ==
    /\ \/ /\ \/ Wake \/ Upsert \/ DeleteObsolete \/ ListSources \/ ReadHeld \/ ReadRows
             \/ RemoveAdmissions \/ PruneRead \/ PruneCommit \/ RemoveFile
             \/ \E r \in Releases : Admit(r)
          /\ UNCHANGED <<job, worker, left>>
       \/ \E s \in Sources : Ensure(s)
    /\ raced' = raced \cup GivenUp
    /\ UNCHANGED <<rows, bounds>>

-----------------------------------------------------------------------------
(* materialize_library_asset.                                              *)

LastAttempt(s) == job[s].attempts + 1 >= MaxAttempts

Claim(s) ==
    /\ job[s].state = "queued"
    /\ job' = [job EXCEPT ![s].state = "running"]
    /\ worker' = [worker EXCEPT !["holder"][s] =
                     [at |-> "fetching", last |-> LastAttempt(s), told |-> FALSE]]
    /\ UNCHANGED <<stored, raced, left>>

\* The bytes are written under their hash, or a file of that name is reused.
Store(e, s) ==
    /\ worker[e][s].at = "fetching"
    /\ files' = files \cup {Bytes[s]}
    /\ worker' = [worker EXCEPT ![e][s].at = "stored"]
    /\ raced' = IF Bytes[s] \in run.removable THEN raced \cup {s} ELSE raced
    /\ UNCHANGED <<reference, asset, named, admission, job, left>>

\* The handler returns.  That of a stray does no more: its job has no lease of its.
Returns(e, s, next, told) ==
    worker' = [worker EXCEPT ![e][s] =
                  IF e = "stray" THEN NoWork ELSE [@ EXCEPT !.at = next, !.told = told]]

\* What the row says is what the job's own execution reported, or not.
Reports(e, s) == left' = IF e = "stray" THEN left \cup {s} ELSE left \ {s}

\* complete_library_asset; without a row the handler fails.
Complete(e, s) ==
    /\ worker[e][s].at = "stored" /\ asset[s] # "none"
    /\ asset' = [asset EXCEPT ![s] = "ready"]
    /\ named' = named \cup {s}
    /\ Returns(e, s, "complete", TRUE) /\ Reports(e, s)
    /\ UNCHANGED <<reference, files, admission, job, raced>>

Disappeared(e, s) ==
    /\ worker[e][s].at = "stored" /\ asset[s] = "none"
    /\ Returns(e, s, "error", FALSE)
    /\ UNCHANGED <<stored, job, raced, left>>

\* Mutant: the last attempt is recorded like those before it.
FailureAgain(e, s, kind) == IF kind = "retryable" THEN "retrying" ELSE kind

\* What set_library_asset_failure is told, which does nothing without a row.
Failure(e, s, kind) ==
    IF kind # "retryable" THEN kind
    ELSE IF worker[e][s].last THEN "failed_terminal" ELSE "retrying"

Fetched(e, s, kind) ==
    /\ worker[e][s].at = "fetching"
    /\ asset' = [asset EXCEPT ![s] = IF @ = "none" THEN @ ELSE Failure(e, s, kind)]
    /\ Returns(e, s, IF kind = "retryable" THEN "error" ELSE "complete", asset[s] # "none")
    /\ Reports(e, s)
    /\ UNCHANGED <<reference, named, files, admission, job, raced>>

\* An execution is over; if its job is too, and the row was not told, that stays.
Over(s, next) ==
    /\ job' = [job EXCEPT ![s] = next]
    /\ left' = IF next.state \in Live \/ worker["holder"][s].told THEN left ELSE left \cup {s}

Again(s) == [state |-> IF LastAttempt(s) THEN "failed" ELSE "queued",
             attempts |-> job[s].attempts + 1]

\* The outcome of the job is a statement of its own.
FinishJob(s) ==
    /\ worker["holder"][s].at \in {"complete", "error"}
    /\ Over(s, IF worker["holder"][s].at = "error" THEN Again(s)
               ELSE [job[s] EXCEPT !.state = "complete"])
    /\ worker' = [worker EXCEPT !["holder"][s] = NoWork]
    /\ UNCHANGED <<stored, raced>>

Materialize(e, s) ==
    \/ Store(e, s) \/ Complete(e, s) \/ Disappeared(e, s)
    \/ \E kind \in {"absent", "unsupported", "retryable"} : Fetched(e, s, kind)

Work(s) ==
    /\ Claim(s) \/ Materialize("holder", s) \/ FinishJob(s)
    /\ UNCHANGED <<rows, run, bounds>>

-----------------------------------------------------------------------------
(* Workers without a lease, failures and operators.                        *)

\* What becomes of the execution when it loses the lease: nothing is left of
\* it, or it goes on if its handler has not returned.
Astray(s) ==
    LET work == worker["holder"][s] IN
    \/ worker' = [worker EXCEPT !["holder"][s] = NoWork]
    \/ /\ work.at \in {"fetching", "stored"} /\ worker["stray"][s] = NoWork
       /\ worker' = [worker EXCEPT !["holder"][s] = NoWork, !["stray"][s] = work]

\* The lease expires: the attempt counts, and nobody tells the asset.
Expire(s) ==
    /\ job[s].state = "running" /\ lost < MaxLost
    /\ lost' = lost + 1
    /\ Over(s, Again(s)) /\ Astray(s)
    /\ UNCHANGED <<rows, stored, run, raced, clicks, changes>>

\* The row cannot be written; the handler fails.
WriteFails(e, s) ==
    /\ worker[e][s].at \in {"fetching", "stored"} /\ lost < MaxLost
    /\ lost' = lost + 1
    /\ Returns(e, s, "error", FALSE)
    /\ UNCHANGED <<rows, stored, job, run, raced, left, clicks, changes>>

\* cancel_background_job and retry_failed_background_job: neither looks at the
\* artwork.
Cancel(s) ==
    /\ job[s].state \in Live /\ clicks < MaxClicks
    /\ clicks' = clicks + 1
    /\ job' = [job EXCEPT ![s].state = "cancelled"]
    /\ left' = left \cup {s}
    /\ Astray(s)
    /\ UNCHANGED <<rows, stored, run, raced, lost, changes>>

Retry(s) ==
    /\ job[s].state \in {"failed", "cancelled"} /\ clicks < MaxClicks
    /\ clicks' = clicks + 1
    /\ job' = [job EXCEPT ![s] = [NoJob EXCEPT !.state = "queued"]]
    /\ left' = left \ {s}
    /\ UNCHANGED <<rows, stored, worker, run, raced, lost, changes>>

\* A stray goes on, or its heartbeat stops it.
StrayWorks(s) == Materialize("stray", s) /\ UNCHANGED <<rows, run, bounds>>

Heartbeat(s) ==
    /\ worker["stray"][s] # NoWork
    /\ worker' = [worker EXCEPT !["stray"][s] = NoWork]
    /\ UNCHANGED <<rows, stored, job, run, raced, left, bounds>>

Trouble(s) ==
    \/ Expire(s) \/ Cancel(s) \/ Retry(s) \/ StrayWorks(s) \/ Heartbeat(s)
    \/ \E e \in Executions : WriteFails(e, s)

\* The reconciliation is lost and starts again.
Interrupted ==
    /\ run.at # "idle" /\ lost < MaxLost
    /\ lost' = lost + 1
    /\ run' = NoRun
    /\ UNCHANGED <<rows, stored, job, worker, raced, left, clicks, changes>>

-----------------------------------------------------------------------------
(* What others do to the rows.                                             *)

\* The catalogs of the artists, which the reconciliation asks for when they
\* are missing, arrive.
Describe ==
    /\ \E r \in held \ described : described' = described \cup {r}
    /\ UNCHANGED <<held, artwork, stored, job, worker, run, raced, left, bounds>>

Change ==
    /\ changes < MaxChanges
    /\ changes' = changes + 1
    /\ \/ \E r \in Releases :
            \/ held' = held \cup {r} /\ UNCHANGED <<described, artwork>>
            \/ held' = held \ {r} /\ UNCHANGED <<described, artwork>>
       \/ \E o \in Owners, s \in Sources \cup {None} :
            artwork' = [artwork EXCEPT ![o] = s] /\ UNCHANGED <<held, described>>
    /\ rows' # rows
    /\ UNCHANGED <<stored, job, worker, run, raced, left, lost, clicks>>

-----------------------------------------------------------------------------
AssetsInit ==
    /\ held \in SUBSET Releases /\ described = {}
    /\ artwork \in [Owners -> Sources \cup {None}]
    /\ reference = [o \in Owners |-> None]
    /\ asset = [s \in Sources |-> "none"]
    /\ named = {} /\ files = {}
    /\ job = [s \in Sources |-> NoJob]
    /\ worker = [e \in Executions |-> [s \in Sources |-> NoWork]]
    /\ admission = [r \in Releases |-> [state |-> "none", admitted |-> FALSE]]
    /\ run = NoRun /\ raced = {} /\ left = {}
    /\ lost = 0 /\ clicks = 0 /\ changes = 0

AssetsNext ==
    \/ Reconcile \/ Interrupted \/ Describe \/ Change
    \/ \E s \in Sources : Work(s) \/ Trouble(s)

AssetsSpec == AssetsInit /\ [][AssetsNext]_assets

\* The reconciliation recurs and its steps and those of the workers go on.
AssetsFairness == WF_assets(Reconcile) /\ \A s \in Sources : WF_assets(Work(s))
AssetsFairSpec == AssetsSpec /\ AssetsFairness

-----------------------------------------------------------------------------
(* Properties.                                                             *)

AssetsTypeOK ==
    /\ held \subseteq Releases /\ described \subseteq Releases
    /\ artwork \in [Owners -> Sources \cup {None}]
    /\ reference \in [Owners -> Sources \cup {None}]
    /\ asset \in [Sources -> Final \cup Unsettled \cup {"none"}]
    /\ named \subseteq Sources
    /\ job \in [Sources -> [state : Live \cup {"none", "complete", "failed", "cancelled"},
                            attempts : 0 .. MaxAttempts]]
    /\ worker \in [Executions -> [Sources ->
           [at : {"none", "fetching", "stored", "complete", "error"}, last : BOOLEAN, told : BOOLEAN]]]
    /\ admission \in [Releases -> [state : {"none", "preparing", "blocked", "published"},
                                   admitted : BOOLEAN]]

\* An artwork whose row says that it is to be fetched, and whose job is over: the
\* reconciliation does not list it again.
Forgotten(s) == asset[s] \in Unsettled /\ job[s].state \notin Live

\* An artwork that is neither stored nor given up is being worked on, unless since
\* its job was last queued an operator cancelled it, its last attempt ended
\* without a word to the row (its worker was lost, the write failed, or the row was
\* made anew meanwhile), or an execution without the lease wrote the row last.
UnsettledIsWorkedOn == \A s \in Sources : Forgotten(s) => s \in left

\* A stored artwork keeps its file, also when an unreferenced row of the same
\* bytes is removed; but for one that took up the file while the prune that
\* removes it was under way.
FilesStay == \A s \in Sources : asset[s] = "ready" => Bytes[s] \in files \/ s \in raced

\* A held release whose metadata is there does not prepare for ever: it is
\* admitted, unless one of its own artworks failed or was forgotten.
HeldIsDecided ==
    \A r \in Releases :
        []<>(r \in held \cap described
                => \/ admission[r].admitted
                   \/ \E s \in {reference[o] : o \in Needs[r]} \ {None} :
                          Forgotten(s) \/ asset[s] = "failed_terminal")

=============================================================================
