------------------------- MODULE DownloadSubmission -------------------------
(***************************************************************************)
(* From a download request to a torrent in the download client             *)
(* (src/src/db.rs create_job, src/src/api.rs process_download,             *)
(* src/src/background.rs run_claimed_job).  Three stores change one after  *)
(* the other: the rows in SQLite, the staged torrent file, and the client; *)
(* and fetching the file from the tracker can cost a freeleech token.      *)
(*                                                                         *)
(* One action is one statement, one transaction or one external call.  The *)
(* queue job of a download is its state, attempts and lease owner (see     *)
(* JobQueue; "pending" includes retrying, and a lease that runs out is     *)
(* recovered at once).  Each download is another torrent.                  *)
(***************************************************************************)
EXTENDS Naturals

CONSTANTS
    Downloads,    \* (tracker, torrent, profile)
    Keys,         \* idempotency keys requests carry, NoKey for one without
    NoKey,        \* idempotency_key IS NULL
    Workers,      \* worker loops
    Nobody,       \* lease_owner of no worker of this process
    NoDownload,   \* a worker without a job
    MaxAttempts   \* max_attempts of submit_download

\* The null values are no worker and no download, and attempts are counted.
ConstantsFit == Nobody \notin Workers /\ NoDownload \notin Downloads /\ MaxAttempts \in Nat

VARIABLES
    download,   \* download_jobs
    job,        \* the submit_download job of each download
    staged,     \* the torrent files in the staging directory
    inClient,   \* the torrents the download client has
    worker,     \* what each execution is doing, and what it has read
    astray      \* history: see the properties

vars == <<download, job, staged, inClient, worker, astray>>

Incomplete == {"queued", "fetching_metadata", "submitting"}
Settled    == {"active", "complete", "failed"}
Terminal   == {"completed", "failed", "cancelled"}
Live       == {"pending", "running", "waiting"}

Download == [state : Incomplete \cup Settled \cup {"absent"},
             key : Keys \cup {NoKey}, hash : BOOLEAN]
Job      == [state : Live \cup Terminal \cup {"absent"}, attempts : 0..MaxAttempts,
             owner : Workers \cup {Nobody}]

Operation == {"loading", "opening", "looking", "fetching", "describing", "starting",
              "paying", "recording", "checking", "staging", "adding", "activating",
              "found", "cleaning"}
Outcomes  == {"complete", "fail", "retry", "defer", "wait"}
Worker    == [at : Operation \cup {"idle", "burying", "settling", "committing"},
              on : Downloads \cup {NoDownload}, attempts : 0..MaxAttempts,
              hash : BOOLEAN, payload : BOOLEAN, outcome : Outcomes \cup {"none"}]

Idle == [at |-> "idle", on |-> NoDownload, attempts |-> 0,
         hash |-> FALSE, payload |-> FALSE, outcome |-> "none"]

At(w, place) == worker[w].at = place
Waits(d) == download[d].state \in Incomplete

TypeOK ==
    /\ download \in [Downloads -> Download] /\ job \in [Downloads -> Job]
    /\ staged \subseteq Downloads /\ inClient \subseteq Downloads
    /\ astray \subseteq Downloads
    /\ worker \in [Workers -> Worker]
    /\ \A w \in Workers : worker[w].on = NoDownload <=> At(w, "idle")
    \* only a commit or a burial has an outcome before the operation is over
    /\ \A w \in Workers : worker[w].at \in {"burying", "settling", "committing"}
                              => worker[w].outcome # "none"

Init ==
    /\ download = [d \in Downloads |-> [state |-> "absent", key |-> NoKey, hash |-> FALSE]]
    /\ job = [d \in Downloads |-> [state |-> "absent", attempts |-> 0, owner |-> Nobody]]
    /\ staged = {} /\ inClient = {} /\ astray = {}
    /\ worker = [w \in Workers |-> Idle]

-----------------------------------------------------------------------------
(***************************************************************************)
(* The queue, as far as a submission can see it.                           *)
(***************************************************************************)
Bump(n) == IF n >= MaxAttempts THEN MaxAttempts ELSE n + 1
Exhausted(n) == n + 1 >= MaxAttempts
Holds(w, d) == job[d].state = "running" /\ job[d].owner = w

NewJob == [state |-> "pending", attempts |-> 0, owner |-> Nobody]

\* Mutant: a job that gave up is left alone.
EnsuredIfAbsent(j, rearm) == IF rearm \/ j.state = "absent" THEN NewJob ELSE j

\* ensure_download_submission_on.
Ensured(j, rearm) ==
    IF rearm \/ j.state \in Terminal \cup {"absent"} THEN NewJob ELSE j

\* Executions whose operation on d is under way.
Operating(d) == {w \in Workers : worker[w].on = d /\ worker[w].outcome = "none"}

Claim(w, d) ==
    /\ At(w, "idle") /\ job[d].state = "pending"
    /\ job' = [job EXCEPT ![d].state = "running", ![d].owner = w]
    /\ worker' = [worker EXCEPT ![w] =
          [Idle EXCEPT !.at = "loading", !.on = d, !.attempts = job[d].attempts]]
    /\ astray' = IF Operating(d) = {} THEN astray ELSE astray \cup {d}
    /\ UNCHANGED <<download, staged, inClient>>

\* The lease ran out: the heartbeats timed out, or its process is gone.
Recover(d) ==
    /\ job[d].state = "running"
    /\ job' = [job EXCEPT ![d] = [state |-> IF Exhausted(@.attempts) THEN "failed" ELSE "pending",
                                  attempts |-> Bump(@.attempts), owner |-> Nobody]]
    /\ astray' = IF Exhausted(job[d].attempts) THEN astray \cup {d} ELSE astray
    /\ UNCHANGED <<download, staged, inClient, worker>>

\* Torrents on their way to the client: a call that is cut off may still arrive.
Submitting(S) == {worker[w].on : w \in {v \in S : At(v, "adding")}}

\* A heartbeat finds the lease gone and aborts the operation.
Disowned(w) ==
    /\ worker[w].at \in Operation /\ worker[w].outcome = "none" /\ ~Holds(w, worker[w].on)
    /\ \E late \in SUBSET Submitting({w}) : inClient' = inClient \cup late
    /\ worker' = [worker EXCEPT ![w] = Idle]
    /\ UNCHANGED <<download, job, staged, astray>>

\* Handlers of the job, in one step each (JobQueue has their two statements).
CancelJob(d) ==
    /\ job[d].state \in Live
    /\ job' = [job EXCEPT ![d].state = "cancelled", ![d].owner = Nobody]
    /\ UNCHANGED <<download, staged, inClient, worker, astray>>
RetryJob(d) ==
    /\ job[d].state \in {"failed", "cancelled"}
    /\ job' = [job EXCEPT ![d] = NewJob]
    /\ UNCHANGED <<download, staged, inClient, worker, astray>>
ResumeJob(d) ==
    /\ job[d].state = "waiting"
    /\ job' = [job EXCEPT ![d].state = "pending"]
    /\ UNCHANGED <<download, staged, inClient, worker, astray>>

-----------------------------------------------------------------------------
(***************************************************************************)
(* Requests: create_job is one transaction.                                *)
(***************************************************************************)
Existing(d, key) ==
    {e \in Downloads : key # NoKey /\ download[e].key = key}
        \cup {e \in {d} : /\ download[d].state # "absent"
                          /\ key = NoKey \/ \A other \in Downloads : download[other].key # key}

\* The request names a download that is there: it is not asked for again.
Repeat(d, key) ==
    /\ \E e \in Existing(d, key) :
          /\ download[e].state # "failed" \/ (key # NoKey /\ download[e].key = key)
          /\ job' = [job EXCEPT ![e] = IF Waits(e) THEN Ensured(@, FALSE) ELSE @]
    /\ UNCHANGED <<download, staged, inClient, worker, astray>>

\* A new download, or one that failed and is asked for under another key.
Create(d, key) ==
    /\ key = NoKey \/ \A e \in Downloads : download[e].key # key
    /\ download[d].state \in {"absent", "failed"}
    /\ download' = [download EXCEPT ![d] = [state |-> "queued", key |-> key, hash |-> FALSE]]
    /\ job' = [job EXCEPT ![d] = Ensured(@, TRUE)]
    /\ UNCHANGED <<staged, inClient, worker, astray>>

-----------------------------------------------------------------------------
(***************************************************************************)
(* submit_download and process_download.                                   *)
(***************************************************************************)
Goes(w, place) == worker' = [worker EXCEPT ![w].at = place]

\* From here on nothing the execution has read matters.
Leaves(w, place) == worker' = [worker EXCEPT ![w] =
    [@ EXCEPT !.at = place, !.hash = FALSE, !.payload = FALSE]]

Load(w) ==
    LET d == worker[w].on
    IN  /\ At(w, "loading")
        /\ worker' = [worker EXCEPT ![w] =
              IF Waits(d) THEN [@ EXCEPT !.at = "opening", !.hash = download[d].hash]
                          ELSE [@ EXCEPT !.at = "settling", !.outcome = "complete"]]
        /\ UNCHANGED <<download, job, staged, inClient, astray>>

\* Mutant: the staged file is only looked at once the hash is known.
ReadStageForHash(w) ==
    /\ At(w, "opening")
    /\ worker' = [worker EXCEPT ![w].payload = worker[w].hash /\ worker[w].on \in staged,
                                ![w].hash = FALSE,
                                ![w].at = IF worker[w].hash THEN "looking" ELSE "fetching"]
    /\ UNCHANGED <<download, job, staged, inClient, astray>>

ReadStage(w) ==
    /\ At(w, "opening")
    /\ worker' = [worker EXCEPT ![w].payload = worker[w].on \in staged, ![w].hash = FALSE,
                                ![w].at = IF worker[w].hash THEN "looking" ELSE "fetching"]
    /\ UNCHANGED <<download, job, staged, inClient, astray>>

\* An earlier execution recorded the hash: the client may have the torrent.
\* (From here on `hash` says that this execution has recorded it.)
LookUp(w) ==
    /\ At(w, "looking")
    /\ IF worker[w].on \in inClient THEN Leaves(w, "found")
       ELSE IF worker[w].payload THEN Leaves(w, "adding") ELSE Goes(w, "fetching")
    /\ UNCHANGED <<download, job, staged, inClient, astray>>

SetState(w, from, state, next) ==
    /\ At(w, from)
    /\ download' = [download EXCEPT ![worker[w].on].state = state]
    /\ Goes(w, next)
    /\ UNCHANGED <<job, staged, inClient, astray>>

StartFetching(w) == SetState(w, "fetching", "fetching_metadata", "describing")

\* The tracker describes an eligible torrent, with or without its info hash;
\* without, the hash comes out of the torrent file.
Describe(w) ==
    /\ At(w, "describing")
    /\ \E known \in BOOLEAN :
          worker' = [worker EXCEPT
              ![w].at = IF known \/ worker[w].payload THEN "recording" ELSE "starting"]
    /\ UNCHANGED <<download, job, staged, inClient, astray>>

StartSubmitting(w) == SetState(w, "starting", "submitting", "paying")

\* Fetched for its hash, the file is staged only after the client was asked.
Fetch(w) ==
    /\ At(w, "paying")
    /\ worker' = [worker EXCEPT ![w].payload = TRUE,
                                ![w].at = IF worker[w].hash THEN "staging" ELSE "recording"]
    /\ UNCHANGED <<download, job, staged, inClient, astray>>

RecordHash(w) ==
    /\ At(w, "recording")
    /\ download' = [download EXCEPT ![worker[w].on].hash = TRUE]
    /\ worker' = [worker EXCEPT ![w].hash = TRUE, ![w].at = "checking"]
    /\ UNCHANGED <<job, staged, inClient, astray>>

\* Mutant: the client is not asked before the torrent is added.
CheckNothing(w) ==
    /\ At(w, "checking")
    /\ Goes(w, IF worker[w].payload THEN "staging" ELSE "starting")
    /\ UNCHANGED <<download, job, staged, inClient, astray>>

CheckClient(w) ==
    /\ At(w, "checking")
    /\ IF worker[w].on \in inClient THEN Leaves(w, "found")
       ELSE Goes(w, IF worker[w].payload THEN "staging" ELSE "starting")
    /\ UNCHANGED <<download, job, staged, inClient, astray>>

Stage(w) ==
    /\ At(w, "staging")
    /\ staged' = staged \cup {worker[w].on}
    /\ Leaves(w, "adding")
    /\ UNCHANGED <<download, job, inClient, astray>>

Add(w) ==
    /\ At(w, "adding")
    /\ inClient' = inClient \cup {worker[w].on}
    /\ Goes(w, "activating")
    /\ UNCHANGED <<download, job, staged, astray>>

Activate(w) == SetState(w, "activating", "active", "cleaning")
Found(w) == \E state \in {"active", "complete"} : SetState(w, "found", state, "cleaning")

\* cleanup_download_stage, after a success and after a terminal failure.
Clean(w) ==
    /\ At(w, "cleaning")
    /\ staged' = staged \ {worker[w].on}
    /\ worker' = [worker EXCEPT ![w].at = "settling",
                                ![w].outcome = IF @ = "none" THEN "complete" ELSE @]
    /\ UNCHANGED <<download, job, inClient, astray>>

\* What classify_error makes of an error: anything of an external call, a
\* counted retry of every other error.
Errors(place) ==
    IF place \in {"looking", "describing", "paying", "checking", "adding"}
    THEN Outcomes \ {"complete"} ELSE {"retry"}

GivesUp(w, outcome) ==
    outcome = "fail" \/ (outcome = "retry" /\ Exhausted(worker[w].attempts))

\* The client may have the torrent although its answer is lost.
OperationFails(w, outcome) ==
    /\ worker[w].at \in Operation \ {"cleaning"} /\ outcome \in Errors(worker[w].at)
    /\ \E late \in SUBSET Submitting({w}) : inClient' = inClient \cup late
    /\ worker' = [worker EXCEPT ![w] =
          [@ EXCEPT !.at = IF GivesUp(w, outcome) THEN "burying" ELSE "settling",
                    !.payload = FALSE, !.hash = FALSE, !.outcome = outcome]]
    /\ UNCHANGED <<download, job, staged, astray>>

\* The terminal failure of the download, written before the job is settled
\* and whoever owns it; if the write fails that is only logged.
Bury(w) ==
    LET d == worker[w].on
    IN  /\ At(w, "burying")
        /\ \/ download' = [download EXCEPT ![d].state = "failed"] /\ UNCHANGED astray
           \/ astray' = astray \cup {d} /\ UNCHANGED download
        /\ Goes(w, "cleaning")
        /\ UNCHANGED <<job, staged, inClient>>

-----------------------------------------------------------------------------
\* reconcile_download_jobs: the observer of the client sees a torrent whose
\* hash is recorded, whatever the state of its download (the list of downloads
\* and the update of one are a single step).
Observe(d) ==
    /\ d \in inClient /\ download[d].hash
    /\ \E state \in {"active", "complete"} :
          download' = [download EXCEPT ![d].state = state]
    /\ UNCHANGED <<job, staged, inClient, worker, astray>>

-----------------------------------------------------------------------------
(***************************************************************************)
(* Settling the job: a read filtered by owner, then an update by id.       *)
(***************************************************************************)
SettleRead(w) ==
    LET d == worker[w].on
    IN  /\ At(w, "settling")
        /\ worker' = [worker EXCEPT ![w] =
              IF job[d].owner = w /\ job[d].state # "cancelled"
              THEN [@ EXCEPT !.at = "committing", !.attempts = job[d].attempts] ELSE Idle]
        /\ UNCHANGED <<download, job, staged, inClient, astray>>

SettledState(w) ==
    CASE worker[w].outcome = "complete" -> "completed"
      [] worker[w].outcome = "wait"     -> "waiting"
      [] worker[w].outcome = "defer"    -> "pending"
      [] OTHER -> IF GivesUp(w, worker[w].outcome) THEN "failed" ELSE "pending"

SettleWrite(w) ==
    LET d == worker[w].on
        attempts == CASE worker[w].outcome = "retry" -> Bump(worker[w].attempts)
                      [] worker[w].outcome = "defer" -> worker[w].attempts
                      [] OTHER -> job[d].attempts
    IN  /\ At(w, "committing")
        /\ job' = [job EXCEPT ![d] =
              [state |-> SettledState(w), attempts |-> attempts, owner |-> Nobody]]
        /\ astray' = IF Holds(w, d) THEN astray ELSE astray \cup {d}
        /\ worker' = [worker EXCEPT ![w] = Idle]
        /\ UNCHANGED <<download, staged, inClient>>

SettleError(w) ==
    /\ worker[w].at \in {"settling", "committing"}
    /\ worker' = [worker EXCEPT ![w] = Idle]
    /\ UNCHANGED <<download, job, staged, inClient, astray>>

\* The process ends anywhere; the next one removes the files nobody needs and
\* looks after every unfinished submission.  Leases of the old one run out.
Restart ==
    /\ worker' = [w \in Workers |-> Idle]
    /\ \E late \in SUBSET Submitting(Workers) : inClient' = inClient \cup late
    /\ staged' = staged \cap {d \in Downloads : Waits(d)}
    /\ job' = [d \in Downloads |->
                 LET j == [job[d] EXCEPT !.owner = Nobody]
                 IN  IF Waits(d) THEN Ensured(j, FALSE) ELSE j]
    /\ astray' = {}
    /\ UNCHANGED <<download>>

-----------------------------------------------------------------------------
Execution(w) ==
    \/ \E d \in Downloads : Claim(w, d)
    \/ Load(w) \/ ReadStage(w) \/ LookUp(w) \/ StartFetching(w) \/ Describe(w)
    \/ StartSubmitting(w) \/ Fetch(w) \/ RecordHash(w) \/ CheckClient(w) \/ Stage(w)
    \/ Add(w) \/ Activate(w) \/ Found(w) \/ Clean(w) \/ Bury(w)
    \/ \E outcome \in Outcomes : OperationFails(w, outcome)
    \/ SettleRead(w) \/ SettleWrite(w) \/ SettleError(w) \/ Disowned(w)

Requests ==
    \E d \in Downloads :
        \/ \E key \in Keys : Create(d, key) \/ Repeat(d, key)
        \/ CancelJob(d) \/ RetryJob(d) \/ ResumeJob(d) \/ Recover(d)

Next ==
    \/ \E w \in Workers : Execution(w)
    \/ \E d \in Downloads : Observe(d)
    \/ Requests \/ Restart

Spec == Init /\ [][Next]_vars

-----------------------------------------------------------------------------
(***************************************************************************)
(* Properties.  A download is astray from the moment two operations on it  *)
(* overlap, an outcome is committed by a worker that lost its lease, the   *)
(* queue gives its job up at the end of a lease, or its failure cannot be  *)
(* written, until the next start.                                          *)
(***************************************************************************)
\* A download shown as queued, fetching or submitting is worked on, unless
\* its job was cancelled: failures, retries, waits, restarts and repeated
\* requests lose none that has not gone astray.
UnfinishedIsWorkedOn ==
    \A d \in Downloads \ astray :
        Waits(d) => job[d].state \in Live \cup {"cancelled"}

\* No torrent is added to the client twice: after an answer that got lost, a
\* crash or a new request the client is asked before it is given the file.
AddedOnce ==
    \A w \in Workers :
        At(w, "adding") => worker[w].on \notin inClient \/ worker[w].on \in astray

\* A torrent file that is staged is not fetched again (and a token not spent
\* again), whatever fails between staging it and adding it.
StagedIsNotFetched ==
    \A w \in Workers :
        At(w, "paying") => worker[w].on \notin staged \/ worker[w].on \in astray
=============================================================================
