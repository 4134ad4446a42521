------------------------------ MODULE JobQueue ------------------------------
(***************************************************************************)
(* The durable SQLite job queue of wotbox: the rows of `background_jobs`   *)
(* (src/src/db.rs), the worker loops that claim, execute and settle them   *)
(* (src/src/background.rs), and the HTTP handlers that cancel, retry and   *)
(* resume them (src/src/api.rs).                                           *)
(*                                                                         *)
(* One action is one SQLite statement or one immediate transaction.  A     *)
(* function of db.rs that reads a row in one statement and updates it in   *)
(* another is two actions, because nothing holds the row in between.       *)
(* Wall-clock time is two booleans of a row: `due` (next_run_at has        *)
(* passed) and `live` (lease_until lies in the future).                    *)
(***************************************************************************)
EXTENDS Naturals, FiniteSets

CONSTANTS
    Keys,         \* deduplication keys
    Workers,      \* worker loops of the running process
    Departed,     \* the owner written by a process that is gone
    Nobody,       \* lease_owner IS NULL
    Providers,    \* external services behind the provider governor
    NoProvider,   \* provider_id IS NULL
    NoKey,        \* a worker that has no claimed job
    Home,         \* Home[k]: provider_id a request for k carries
    Talks,        \* Talks[k]: providers whose errors an execution of k can meet
    Parking,      \* keys whose operation may itself ask to wait (single coverage)
    MaxAttempts,  \* MaxAttempts[k]: max_attempts of the kind of k
    Recurring,    \* keys with a recurring_interval_seconds
    BootKeys,     \* keys bootstrap_jobs enqueues on every start
    Requests,     \* Requests[k]: the operations other components call on k
    MaxHandlers   \* bound: HTTP handlers between two of their statements

Terminal == {"completed", "failed", "cancelled"}
Queued   == {"pending", "retrying"}
Active   == Queued \cup {"running", "waiting"}
States   == Active \cup Terminal \cup {"absent"}

Operations == {"enqueue", "reactivate", "rearm",
               "wake", "cancel", "retry", "retryByKey", "revisit"}

ASSUME NamesAssumption ==
    /\ Departed \notin Workers /\ Nobody \notin Workers /\ Departed # Nobody
    /\ NoProvider \notin Providers /\ NoKey \notin Keys
ASSUME KeysAssumption ==
    /\ Home \in [Keys -> Providers \cup {NoProvider}]
    /\ Talks \in [Keys -> SUBSET Providers]
    /\ MaxAttempts \in [Keys -> Nat \ {0}]
    /\ Recurring \subseteq Keys /\ BootKeys \subseteq Keys /\ Parking \subseteq Keys
    /\ Requests \in [Keys -> SUBSET Operations]
ASSUME HandlersAssumption == MaxHandlers \in Nat

VARIABLES
    row,        \* the background_jobs table, one row per key
    worker,     \* where each worker loop is, and the job it works on
    claimLock,  \* the worker holding the claim mutex
    circuit,    \* the persisted provider_state, as the claim query reads it
    handlers,   \* HTTP handlers between their first and their second step
    mode        \* "up", "draining" (stop signal sent) or "down"

vars == <<row, worker, claimLock, circuit, handlers, mode>>

Owners == Workers \cup {Departed, Nobody}

(***************************************************************************)
(* Attempts saturate one above max_attempts: every comparison in the code  *)
(* is `attempts >= max_attempts`.                                          *)
(***************************************************************************)
Bump(k, n) == IF n > MaxAttempts[k] THEN n ELSE n + 1

Row == [state : States, attempts : Nat, due : BOOLEAN,
        owner : Owners, live : BOOLEAN,
        provider : Providers \cup {NoProvider}]

Phases == {"idle", "asking", "claiming", "selected",
           "running", "settling", "committing", "gone"}
Outcomes == {"none", "complete", "fail", "retry", "defer", "wait"}

Job == [phase : Phases, key : Keys \cup {NoKey},
        outcome : Outcomes, attempts : Nat]

Idle == [phase |-> "idle", key |-> NoKey, outcome |-> "none", attempts |-> 0]
Gone == [Idle EXCEPT !.phase = "gone"]
At(w, phase) == worker[w].phase = phase

Handler == [op : {"cancel", "retry", "retryByKey", "revisit"}, on : Keys]
             \cup [op : {"resume"}, on : Providers]

TypeOK ==
    /\ row \in [Keys -> Row]
    /\ worker \in [Workers -> Job]
    /\ \A w \in Workers :
          worker[w].key = NoKey <=> worker[w].phase \in {"idle", "asking", "claiming", "gone"}
    /\ claimLock \in Workers \cup {Nobody}
    /\ circuit \in [Providers -> {"open", "cooling", "blocked"}]
    /\ handlers \subseteq Handler
    /\ mode \in {"up", "draining", "down"}

(***************************************************************************)
(* Rows as the update statements leave them.                               *)
(***************************************************************************)
Absent(k) == [state |-> "absent", attempts |-> 0, due |-> FALSE,
              owner |-> Nobody, live |-> FALSE, provider |-> Home[k]]

Fresh(k) == [Absent(k) EXCEPT !.state = "pending", !.due = TRUE]

\* next_run_at = NULL, attempts = 0, lease cleared; provider_id untouched.
Restarted(r) == [r EXCEPT !.state = "pending", !.attempts = 0, !.due = TRUE,
                          !.owner = Nobody, !.live = FALSE]

\* reactivate_completed and retry_completed_by_key leave the lease columns.
Reopened(r) == [r EXCEPT !.state = "pending", !.attempts = 0, !.due = TRUE]

Unleased(r) == [r EXCEPT !.owner = Nobody, !.live = FALSE]

\* A waiting row goes back to the queue with the attempts it has.
Resumed(r) == IF r.state = "waiting" THEN [r EXCEPT !.state = "pending", !.due = TRUE] ELSE r

\* The first process finds no row of a key, or one that an earlier process
\* left cancelled; it enqueues the boot jobs that have none.
FirstRow(k, cancelled) ==
    IF k \in cancelled THEN [Absent(k) EXCEPT !.state = "cancelled"]
    ELSE IF k \in BootKeys THEN Fresh(k) ELSE Absent(k)

Init ==
    /\ \E cancelled \in SUBSET Keys : row = [k \in Keys |-> FirstRow(k, cancelled)]
    /\ worker = [w \in Workers |-> Idle]
    /\ claimLock = Nobody
    /\ circuit = [p \in Providers |-> "open"]
    /\ handlers = {}
    /\ mode = "up"

-----------------------------------------------------------------------------
(***************************************************************************)
(* Transactions of the other components: enqueue, reactivate after a       *)
(* domain change, rearm a download submission.                             *)
(***************************************************************************)

\* An existing row keeps its state: only its routing columns are refreshed.
Enqueued(k, r) ==
    IF r.state = "absent" THEN Fresh(k) ELSE [r EXCEPT !.provider = Home[k]]

\* A request that carries a later next_run_at inserts a row that is not due.
Enqueue(k) ==
    /\ mode # "down" /\ "enqueue" \in Requests[k]
    /\ \E due \in BOOLEAN :
          row' = [row EXCEPT ![k] = IF @.state = "absent"
                                    THEN [Fresh(k) EXCEPT !.due = due]
                                    ELSE Enqueued(k, @)]
    /\ UNCHANGED <<worker, claimLock, circuit, handlers, mode>>

\* reactivate_completed_background_job_on followed by the enqueue.
Reactivate(k) ==
    /\ mode # "down" /\ "reactivate" \in Requests[k]
    /\ row' = [row EXCEPT ![k] = Enqueued(k,
                 IF @.state = "completed" THEN Reopened(@) ELSE @)]
    /\ UNCHANGED <<worker, claimLock, circuit, handlers, mode>>

\* ensure_download_submission_on; `force` resets a row of any state.
Rearmed(k, force, r) ==
    IF r.state # "absent" /\ (force \/ r.state \in Terminal)
    THEN [Restarted(r) EXCEPT !.provider = Home[k]]
    ELSE Enqueued(k, r)

Rearm(k) ==
    /\ mode # "down" /\ "rearm" \in Requests[k]
    /\ \E force \in BOOLEAN : row' = [row EXCEPT ![k] = Rearmed(k, force, @)]
    /\ UNCHANGED <<worker, claimLock, circuit, handlers, mode>>

\* resume_waiting_single_coverages: what the job waited for is stored.
Wake(k) ==
    /\ mode # "down" /\ "wake" \in Requests[k] /\ row[k].state = "waiting"
    /\ row' = [row EXCEPT ![k] = Resumed(@)]
    /\ UNCHANGED <<worker, claimLock, circuit, handlers, mode>>

-----------------------------------------------------------------------------
(***************************************************************************)
(* HTTP handlers: a read that decides, then an update by id that checks    *)
(* nothing again.                                                          *)
(***************************************************************************)
Accepts(op) ==
    CASE op = "cancel"     -> Active
      [] op = "retry"      -> {"failed", "cancelled"}
      [] op = "retryByKey" -> Terminal
      [] op = "revisit"    -> {"completed"}

HandlerRead(op, k) ==
    /\ mode # "down" /\ op \in Requests[k]
    /\ row[k].state \in Accepts(op)
    /\ Cardinality(handlers) < MaxHandlers
    /\ handlers' = handlers \cup {[op |-> op, on |-> k]}
    /\ UNCHANGED <<row, worker, claimLock, circuit, mode>>

HandlerWrites(op, r) ==
    CASE op = "cancel"                 -> Unleased([r EXCEPT !.state = "cancelled"])
      [] op \in {"retry", "retryByKey"} -> Restarted(r)
      [] op = "revisit"                -> Reopened(r)

HandlerWrite(op, k) ==
    /\ mode # "down" /\ [op |-> op, on |-> k] \in handlers
    /\ row[k].state # "absent"
    /\ row' = [row EXCEPT ![k] = HandlerWrites(op, @)]
    /\ handlers' = handlers \ {[op |-> op, on |-> k]}
    /\ UNCHANGED <<worker, claimLock, circuit, mode>>

\* resume_provider: the governor reopens first, the parked jobs follow.
ResumeProvider(p) ==
    /\ mode # "down" /\ circuit[p] = "blocked"
    /\ Cardinality(handlers) < MaxHandlers
    /\ circuit' = [circuit EXCEPT ![p] = "open"]
    /\ handlers' = handlers \cup {[op |-> "resume", on |-> p]}
    /\ UNCHANGED <<row, worker, claimLock, mode>>

ResumeWaitingJobs(p) ==
    /\ mode # "down" /\ [op |-> "resume", on |-> p] \in handlers
    /\ row' = [k \in Keys |->
                 IF row[k].provider = p THEN Resumed(row[k]) ELSE row[k]]
    /\ handlers' = handlers \ {[op |-> "resume", on |-> p]}
    /\ UNCHANGED <<worker, claimLock, circuit, mode>>

-----------------------------------------------------------------------------
(***************************************************************************)
(* The worker loop.                                                        *)
(***************************************************************************)

\* The stop signal is only looked at here, before the claim mutex.
StartRound(w) ==
    /\ mode = "up" /\ At(w, "idle")
    /\ worker' = [worker EXCEPT ![w].phase = "asking"]
    /\ UNCHANGED <<row, claimLock, circuit, handlers, mode>>

\* Mutant: only the leases of an earlier process are recovered.
RecoveredAtStart(k, r) ==
    IF r.state = "running" /\ ~r.live /\ r.owner = Departed
    THEN Unleased([r EXCEPT !.state = "retrying", !.due = TRUE])
    ELSE r

Recovered(k, r) ==
    IF r.state = "running" /\ ~r.live
    THEN LET attempts == Bump(k, r.attempts)
             terminal == attempts >= MaxAttempts[k]
         IN  Unleased([r EXCEPT !.state = IF terminal THEN "failed" ELSE "retrying",
                                !.attempts = attempts, !.due = TRUE])
    ELSE r

RecoverExpired(w) ==
    /\ mode # "down" /\ At(w, "asking") /\ claimLock = Nobody
    /\ claimLock' = w
    /\ row' = [k \in Keys |-> Recovered(k, row[k])]
    /\ worker' = [worker EXCEPT ![w].phase = "claiming"]
    /\ UNCHANGED <<circuit, handlers, mode>>

\* Mutant: the circuit is asked, the running set is not.
ProviderIsReachable(k) ==
    row[k].provider # NoProvider => circuit[row[k].provider] # "cooling"

\* background_provider_is_due: nobody else runs on that provider, and it is
\* not cooling down.  A blocked provider lets the job run into the governor.
ProviderIsDue(k) ==
    LET p == row[k].provider
    IN  p # NoProvider =>
          /\ \A j \in Keys : ~(row[j].state = "running" /\ row[j].provider = p)
          /\ circuit[p] # "cooling"

Claimable(k) == row[k].state \in Queued /\ row[k].due /\ ProviderIsDue(k)

\* The candidate query.  Which candidate is first (priority, age) is left open.
SelectJob(w, k) ==
    /\ mode # "down" /\ At(w, "claiming") /\ Claimable(k)
    /\ worker' = [worker EXCEPT ![w].phase = "selected", ![w].key = k]
    /\ UNCHANGED <<row, claimLock, circuit, handlers, mode>>

\* Mutant: the claim mutex is kept when there is nothing to claim.
NothingToClaimKeepsLock(w) ==
    /\ mode # "down" /\ At(w, "claiming")
    /\ \A k \in Keys : ~Claimable(k)
    /\ worker' = [worker EXCEPT ![w] = Idle]
    /\ UNCHANGED <<row, claimLock, circuit, handlers, mode>>

NothingToClaim(w) ==
    /\ mode # "down" /\ At(w, "claiming")
    /\ \A k \in Keys : ~Claimable(k)
    /\ worker' = [worker EXCEPT ![w] = Idle]
    /\ claimLock' = Nobody
    /\ UNCHANGED <<row, circuit, handlers, mode>>

\* Mutant: the update is not conditional on the state it selected.
ClaimJobUnchecked(w) ==
    LET k == worker[w].key
    IN  /\ mode # "down" /\ At(w, "selected")
        /\ row' = [row EXCEPT ![k].state = "running", ![k].owner = w,
                              ![k].live = TRUE]
        /\ worker' = [worker EXCEPT ![w].phase = "running"]
        /\ claimLock' = Nobody
        /\ UNCHANGED <<circuit, handlers, mode>>

\* The conditional update: it rechecks the state and nothing else.
ClaimJob(w) ==
    LET k == worker[w].key
    IN  /\ mode # "down" /\ At(w, "selected")
        /\ row[k].state \in Queued
        /\ row' = [row EXCEPT ![k].state = "running", ![k].owner = w,
                              ![k].live = TRUE]
        /\ worker' = [worker EXCEPT ![w].phase = "running"]
        /\ claimLock' = Nobody
        /\ UNCHANGED <<circuit, handlers, mode>>

\* Mutant: the next round still carries the job that was lost.
LoseClaimKeepsJob(w) ==
    /\ mode # "down" /\ At(w, "selected")
    /\ row[worker[w].key].state \notin Queued
    /\ worker' = [worker EXCEPT ![w].phase = "claiming"]
    /\ UNCHANGED <<row, claimLock, circuit, handlers, mode>>

LoseClaim(w) ==
    /\ mode # "down" /\ At(w, "selected")
    /\ row[worker[w].key].state \notin Queued
    /\ worker' = [worker EXCEPT ![w].phase = "claiming", ![w].key = NoKey]
    /\ UNCHANGED <<row, claimLock, circuit, handlers, mode>>

Holds(w, k) == row[k].state = "running" /\ row[k].owner = w

\* heartbeat_background_job returned true: the lease is extended.
Heartbeat(w) ==
    LET k == worker[w].key
    IN  /\ mode # "down" /\ At(w, "running") /\ Holds(w, k)
        /\ row' = [row EXCEPT ![k].live = TRUE]
        /\ UNCHANGED <<worker, claimLock, circuit, handlers, mode>>

\* Mutant: a heartbeat that finds another owner keeps going.
DisownedByState(w) ==
    /\ mode # "down" /\ At(w, "running") /\ row[worker[w].key].state # "running"
    /\ worker' = [worker EXCEPT ![w] = Idle]
    /\ UNCHANGED <<row, claimLock, circuit, handlers, mode>>

\* It returned false: the operation is aborted and no outcome is written.
Disowned(w) ==
    /\ mode # "down" /\ At(w, "running") /\ ~Holds(w, worker[w].key)
    /\ worker' = [worker EXCEPT ![w] = Idle]
    /\ UNCHANGED <<row, claimLock, circuit, handlers, mode>>

\* The operation returns something other than a provider's error.
OperationEnds(w, outcome) ==
    /\ mode # "down" /\ At(w, "running")
    /\ outcome \in {"complete", "fail", "retry", "defer"}
         \cup (IF worker[w].key \in Parking THEN {"wait"} ELSE {})
    /\ worker' = [worker EXCEPT ![w].phase = "settling", ![w].outcome = outcome]
    /\ UNCHANGED <<row, claimLock, circuit, handlers, mode>>

\* classify_error on an error of provider p: the running row is attributed
\* to p, whoever owns it now; a refusal by a blocked circuit becomes a wait.
ProviderError(w, p, outcome) ==
    LET k == worker[w].key
    IN  /\ mode # "down" /\ At(w, "running") /\ p \in Talks[k]
        /\ outcome \in {"fail", "retry", "defer"}
             \cup (IF circuit[p] = "blocked" THEN {"wait"} ELSE {})
        /\ row' = [row EXCEPT ![k] = IF @.state = "running"
                                     THEN [@ EXCEPT !.provider = p] ELSE @]
        /\ worker' = [worker EXCEPT ![w].phase = "settling",
                                    ![w].outcome = outcome]
        /\ UNCHANGED <<claimLock, circuit, handlers, mode>>

-----------------------------------------------------------------------------
(***************************************************************************)
(* complete/fail/retry/wait_background_job: a read filtered by owner, then *)
(* an update by id.                                                        *)
(***************************************************************************)
SettleRead(w) ==
    LET k == worker[w].key
    IN  /\ mode # "down" /\ At(w, "settling")
        /\ row[k].owner = w /\ row[k].state \notin {"absent", "cancelled"}
        /\ worker' = [worker EXCEPT ![w].phase = "committing",
                                    ![w].attempts = row[k].attempts]
        /\ UNCHANGED <<row, claimLock, circuit, handlers, mode>>

SettleIgnored(w) ==
    LET k == worker[w].key
    IN  /\ mode # "down" /\ At(w, "settling")
        /\ row[k].owner # w \/ row[k].state = "cancelled"
        /\ worker' = [worker EXCEPT ![w] = Idle]
        /\ UNCHANGED <<row, claimLock, circuit, handlers, mode>>

\* Mutant: one attempt too many.
ExhaustedLate(k, job) == Bump(k, job.attempts) > MaxAttempts[k]

Exhausted(k, job) == Bump(k, job.attempts) >= MaxAttempts[k]

SettledState(k, job) ==
    CASE job.outcome = "complete" -> IF k \in Recurring THEN "pending" ELSE "completed"
      [] job.outcome = "fail"     -> "failed"
      [] job.outcome = "wait"     -> "waiting"
      [] job.outcome = "defer"    -> "retrying"
      [] job.outcome = "retry"    -> IF Exhausted(k, job) THEN "failed" ELSE "retrying"

\* Only a retry and a recurring completion set the attempts column.
SettledAttempts(k, job, r) ==
    CASE job.outcome = "complete" -> IF k \in Recurring THEN 0 ELSE r.attempts
      [] job.outcome = "defer"    -> job.attempts
      [] job.outcome = "retry"    -> Bump(k, job.attempts)
      [] OTHER                    -> r.attempts

\* A job that goes back to the queue gets a later next_run_at, the others NULL.
Settled(k, job, r) ==
    [Unleased(r) EXCEPT !.state = SettledState(k, job),
                        !.attempts = SettledAttempts(k, job, r),
                        !.due = SettledState(k, job) \notin Queued]

SettleWrite(w) ==
    LET k == worker[w].key
    IN  /\ mode # "down" /\ At(w, "committing") /\ row[k].state # "absent"
        /\ row' = [row EXCEPT ![k] = Settled(k, worker[w], @)]
        /\ worker' = [worker EXCEPT ![w] = Idle]
        /\ UNCHANGED <<claimLock, circuit, handlers, mode>>

\* Either statement fails: the error is logged and the row stays as it is.
SettleError(w) ==
    /\ mode # "down" /\ worker[w].phase \in {"settling", "committing"}
    /\ worker' = [worker EXCEPT ![w] = Idle]
    /\ UNCHANGED <<row, claimLock, circuit, handlers, mode>>

-----------------------------------------------------------------------------
(***************************************************************************)
(* Time and the providers.                                                 *)
(***************************************************************************)
LeaseExpires(k) ==
    /\ row[k].live
    /\ row' = [row EXCEPT ![k].live = FALSE]
    /\ UNCHANGED <<worker, claimLock, circuit, handlers, mode>>

BecomesDue(k) ==
    /\ row[k].state \in Queued /\ ~row[k].due
    /\ row' = [row EXCEPT ![k].due = TRUE]
    /\ UNCHANGED <<worker, claimLock, circuit, handlers, mode>>

\* A rate limit, a hard block or the background spacing of a provider; a
\* cooldown and the spacing elapse, a block only ends by ResumeProvider.
ProviderTrips(p) ==
    /\ mode # "down" /\ circuit[p] # "blocked"
    /\ \E c \in {"cooling", "blocked"} \ {circuit[p]} :
          circuit' = [circuit EXCEPT ![p] = c]
    /\ UNCHANGED <<row, worker, claimLock, handlers, mode>>

CooldownEnds(p) ==
    /\ circuit[p] = "cooling"
    /\ circuit' = [circuit EXCEPT ![p] = "open"]
    /\ UNCHANGED <<row, worker, claimLock, handlers, mode>>

-----------------------------------------------------------------------------
(***************************************************************************)
(* Shutdown, crash and restart.                                            *)
(***************************************************************************)
StopSignal ==
    /\ mode = "up" /\ mode' = "draining"
    /\ UNCHANGED <<row, worker, claimLock, circuit, handlers>>

WorkerStops(w) ==
    /\ mode = "draining" /\ At(w, "idle")
    /\ worker' = [worker EXCEPT ![w] = Gone]
    /\ UNCHANGED <<row, claimLock, circuit, handlers, mode>>

\* What the next process finds: owner names carry the process id.
Orphaned(r) == IF r.owner \in Workers THEN [r EXCEPT !.owner = Departed] ELSE r

Exit(table) ==
    /\ row' = [k \in Keys |-> Orphaned(table[k])]
    /\ worker' = [w \in Workers |-> Gone]
    /\ claimLock' = Nobody
    /\ handlers' = {}
    /\ mode' = "down"
    /\ UNCHANGED circuit

\* release_background_job_lease for every owner of this process.
Released(r) ==
    IF r.state = "running" /\ r.owner \in Workers
    THEN Unleased([r EXCEPT !.state = "retrying", !.due = TRUE]) ELSE r

ShutdownInTime ==
    /\ mode = "draining" /\ \A w \in Workers : At(w, "gone")
    /\ Exit([k \in Keys |-> Released(row[k])])

\* Aborting a worker uses up the deadline, so no lease is released.
ShutdownTimesOut ==
    /\ mode = "draining" /\ \E w \in Workers : ~At(w, "gone")
    /\ Exit(row)

Crash == mode # "down" /\ Exit(row)

\* recover_expired_background_jobs, then bootstrap_jobs: prune what has been
\* finished for 30 days (any subset), enqueue the boot jobs, and wake the
\* coverage jobs that wait.
Booted(k, pruned) ==
    LET r == IF k \in pruned THEN Absent(k) ELSE Recovered(k, row[k])
        b == IF k \in BootKeys THEN Enqueued(k, r) ELSE r
    IN  IF k \in Parking THEN Resumed(b) ELSE b

Start ==
    /\ mode = "down"
    /\ \E pruned \in SUBSET {k \in Keys : row[k].state \in {"completed", "cancelled"}} :
          row' = [k \in Keys |-> Booted(k, pruned)]
    /\ worker' = [w \in Workers |-> Idle]
    /\ mode' = "up"
    /\ UNCHANGED <<claimLock, circuit, handlers>>

-----------------------------------------------------------------------------
Request(k) ==
    \/ Enqueue(k) \/ Reactivate(k) \/ Rearm(k) \/ Wake(k)
    \/ \E op \in {"cancel", "retry", "retryByKey", "revisit"} :
          HandlerRead(op, k) \/ HandlerWrite(op, k)

Claiming(w) ==
    \/ StartRound(w) \/ RecoverExpired(w) \/ NothingToClaim(w)
    \/ \E k \in Keys : SelectJob(w, k)
    \/ ClaimJob(w) \/ LoseClaim(w)

Executing(w) ==
    \/ Heartbeat(w) \/ Disowned(w)
    \/ \E outcome \in Outcomes : OperationEnds(w, outcome)
    \/ \E outcome \in Outcomes, p \in Providers : ProviderError(w, p, outcome)

Settling(w) ==
    SettleRead(w) \/ SettleIgnored(w) \/ SettleWrite(w) \/ SettleError(w)

Provider(p) ==
    ResumeProvider(p) \/ ResumeWaitingJobs(p) \/ ProviderTrips(p) \/ CooldownEnds(p)

Process ==
    \/ StopSignal \/ (\E w \in Workers : WorkerStops(w))
    \/ ShutdownInTime \/ ShutdownTimesOut \/ Crash \/ Start

Next ==
    \/ \E k \in Keys : Request(k) \/ LeaseExpires(k) \/ BecomesDue(k)
    \/ \E w \in Workers : Claiming(w) \/ Executing(w) \/ Settling(w)
    \/ \E p \in Providers : Provider(p)
    \/ Process

Spec == Init /\ [][Next]_vars

(***************************************************************************)
(* Fairness.  Tokio keeps polling every task, the claim mutex is granted   *)
(* in arrival order, and time passes: a lease nobody extends runs out.     *)
(* OperationsReturn is not part of it: an operation may hang while its     *)
(* heartbeats go on, and the properties that need it say so.               *)
(* No fairness is assumed of requests, errors, heartbeats, crashes or the  *)
(* stop signal.                                                            *)
(***************************************************************************)
Beating(k) == \E w \in Workers : At(w, "running") /\ worker[w].key = k /\ Holds(w, k)

Fairness ==
    /\ \A w \in Workers :
         /\ WF_vars(StartRound(w)) /\ SF_vars(RecoverExpired(w))
         /\ WF_vars(NothingToClaim(w) \/ \E k \in Keys : SelectJob(w, k))
         /\ WF_vars(ClaimJob(w) \/ LoseClaim(w))
         /\ WF_vars(Disowned(w))
         /\ WF_vars(SettleRead(w) \/ SettleIgnored(w)) /\ WF_vars(SettleWrite(w))
         /\ WF_vars(WorkerStops(w))
    /\ \A k \in Keys :
         /\ WF_vars(~Beating(k) /\ LeaseExpires(k)) /\ WF_vars(BecomesDue(k))
         /\ \A op \in {"cancel", "retry", "retryByKey", "revisit"} :
              WF_vars(HandlerWrite(op, k))
    /\ \A p \in Providers : WF_vars(ResumeWaitingJobs(p)) /\ WF_vars(CooldownEnds(p))
    /\ WF_vars(ShutdownInTime \/ ShutdownTimesOut) /\ WF_vars(Start)

OperationsReturn ==
    \A w \in Workers : WF_vars(\E outcome \in Outcomes : OperationEnds(w, outcome))

FairSpec == Spec /\ Fairness

-----------------------------------------------------------------------------
(***************************************************************************)
(* Properties.                                                             *)
(***************************************************************************)

\* Jobs that only ever speak to the provider they are queued under.
Loyal(k) == Home[k] # NoProvider /\ Talks[k] \subseteq {Home[k]}

\* The claim query admits one running job per provider, although it reads the
\* running set in one statement and claims in another: two loyal jobs of one
\* provider are never both running, whatever is cancelled, retried, rearmed,
\* recovered or restarted in between.
ProviderExclusive ==
    \A j, k \in Keys :
        /\ j # k /\ Loyal(j) /\ Loyal(k) /\ Home[j] = Home[k]
        /\ row[j].state = "running" /\ row[k].state = "running"
        => FALSE

\* Jobs nothing can park: no provider's error, and not their own operation.
Local(k) == Talks[k] = {} /\ k \notin Parking

\* Bounded attempts: a job that never waits and can still be executed has
\* attempts left, although late writes of a disowned worker may hit its row in
\* any state.  A job that may wait is not covered: wait_background_job writes
\* by id, so a late wait puts a row whose recovery spent the last attempt back
\* among the waiting ones, and the next wake-up executes it again.
AttemptBudget ==
    \A k \in Keys :
        Local(k) /\ row[k].state \in Active => row[k].attempts < MaxAttempts[k]

\* The queue keeps the contract of JobContract: its rows and worker loops
\* implement grants, reports and restarts without ever granting a job twice
\* or parking one nobody held.
StatusOf(r) ==
    CASE r.state = "absent"    -> "none"
      [] r.state \in Queued    -> "queued"
      [] r.state = "running"   -> "held"
      [] r.state = "waiting"   -> "parked"
      [] r.state \in Terminal  -> "closed"

Owed(job) ==
    IF job.phase \in {"running", "settling", "committing"} THEN job.key ELSE NoKey

Contract == INSTANCE JobContract
              WITH Jobs <- Keys, Claimants <- Workers, NoJob <- NoKey,
                   status <- [k \in Keys |-> StatusOf(row[k])],
                   claims <- [w \in Workers |-> Owed(worker[w])]

ContractHolds == Contract!Spec

\* A running row is always owned by somebody, and its owner is executing or
\* settling it unless an outcome could not be persisted or the process died:
\* then nobody extends the lease, so the row is recovered in the end.
RunningIsResolved ==
    OperationsReturn => \A k \in Keys  :
        row[k].state = "running" ~> row[k].state # "running"

\* A worker whose row was cancelled, recovered or rearmed stops executing it
\* even if its operation would never return: the heartbeat aborts it.
DisownedStops ==
    \A w \in Workers :
        (At(w, "running") /\ ~Holds(w, worker[w].key)) ~> ~At(w, "running")

\* A job that is queued does not stay queued for ever while the service is up
\* and no provider is held back: the claim mutex is always handed on, every
\* later next_run_at comes, and no row is left in a shape nobody can claim.
QueuedWorkRuns ==
    OperationsReturn /\ <>[](mode = "up" /\ \A p \in Providers : circuit[p] = "open")
      => \A k \in Keys : row[k].state \in Queued ~> row[k].state \notin Queued

\* An outcome is only committed by the worker that holds the lease.
NoStaleCommit ==
    [][\A w \in Workers : SettleWrite(w) => row[worker[w].key].owner = w]_vars
=============================================================================
