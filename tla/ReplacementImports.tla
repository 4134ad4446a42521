------------------------- MODULE ReplacementImports -------------------------
(***************************************************************************)
(* A replacement import: the torrents of a release that the tracker has    *)
(* trumped are removed once their replacement is complete (process_import  *)
(* in src/src/background.rs, import_tasks and import_supersessions in      *)
(* src/src/db.rs, the import handlers of src/src/api.rs).  Three stores    *)
(* change one after the other: the rows, the download client, and Plex.    *)
(*                                                                         *)
(* One replacement and its sources; their own tasks, which the observer    *)
(* keeps, are in plain.  An action is a statement or an external call.     *)
(* What cleanup needs to know of a source beyond its registration (same    *)
(* tracker, client configured, content path known, in a Plex root, neither *)
(* overlapping the replacement's nor shared with another torrent) is one   *)
(* condition, clear[s]; the same of the replacement is placed.             *)
(*                                                                         *)
(* The job has an execution that holds its lease, and there can be one     *)
(* that has lost it, to a cancellation or to a heartbeat that failed for   *)
(* too long: that one goes on until its next heartbeat, and does not write *)
(* the row of the job (JobQueue models the write that slips through).      *)
(***************************************************************************)
EXTENDS Naturals, FiniteSets

CONSTANTS
    Sources,      \* the trumped torrents
    Target,       \* the torrent that replaces them
    MaxAttempts,  \* max_attempts of process_import
    MaxFaults,    \* bound: calls the provider refuses, lost leases and crashes
    MaxChanges,   \* bound: changes in the client
    MaxClicks     \* bound: what users ask for

VARIABLES
    client,     \* the torrents of the download client: their progress
    clear,      \* the sources cleanup may touch, beyond their registration
    registered, \* the sources the tracker does not report as unregistered
    placed,     \* the replacement is where cleanup needs it, Plex configured
    download,   \* the download job of the replacement
    accepting,  \* create_replacement_import under way
    task,       \* the replacement's import_tasks row
    cleanup,    \* import_supersessions: mode and state of each source
    plain,      \* import_tasks of the observer: the state of each torrent's own
    job,        \* the process_import job
    worker,     \* its executions, and what they have read
    faults, changes, clicks

vars == <<client, clear, registered, placed, download, accepting, task, cleanup, plain,
          job, worker, faults, changes, clicks>>
World  == <<client, clear, registered, placed, download>>
Rows   == <<accepting, task, cleanup, plain>>
Bounds == <<faults, changes, clicks>>

Watched == Sources \cup {Target}
Modes    == {"keep", "remove"}   \* with its files or without
Settled  == {"removed", "retained"}
Review   == {"needs_review", "blocked", "failed"}
States   == Review \cup {"absent", "downloading", "ready", "processing", "complete", "dismissed"}
Steps    == {"idle", "binding", "looking", "verifying", "showing", "deleting", "recording",
             "rescanning", "completing", "following"}
Nobody   == "nobody"

\* The execution that holds the lease, and the one that has lost it.
Executions == {"holder", "stray"}

\* whole and sound are history: the replacement was complete and in place when this
\* execution looked, and the sources it has found removable.
Execution ==
    [at : Steps, mode : Modes, todo : SUBSET Sources, plan : SUBSET Sources,
     on : Sources \cup {Nobody}, outcome : States \cup {"none"},
     whole : BOOLEAN, sound : SUBSET Sources]
Idle == [at |-> "idle", mode |-> "keep", todo |-> {}, plan |-> {}, on |-> Nobody,
         outcome |-> "none", whole |-> FALSE, sound |-> {}]

\* There is a source, the replacement is none, and attempts and bounds are
\* counted.
ConstantsFit ==
    /\ Sources # {} /\ Target \notin Sources /\ Nobody \notin Sources
    /\ MaxAttempts \in Nat /\ MaxFaults \in Nat /\ MaxChanges \in Nat /\ MaxClicks \in Nat

TypeOK ==
    /\ client \in [Watched -> {"absent", "partial", "whole"}]
    /\ clear \subseteq Sources /\ registered \subseteq Sources /\ placed \in BOOLEAN
    /\ download \in {"none", "queued", "added", "failed"}
    /\ accepting \in {"no", "created", "listed"}
    /\ task \in [state : States, bound : BOOLEAN]
    /\ cleanup \in [Sources -> [mode : Modes, state : Settled \cup {"absent", "pending"}]]
    /\ plain \in [Watched -> States]
    /\ job \in [state : {"absent", "pending", "running", "waiting", "completed", "failed",
                         "cancelled"},
                attempts : 0..MaxAttempts]
    /\ worker \in [Executions -> Execution]
    /\ worker["holder"].at # "idle" => job.state = "running"
    /\ faults \in 0..MaxFaults /\ changes \in 0..MaxChanges /\ clicks \in 0..MaxClicks

Init ==
    /\ client \in {[t \in Watched |-> IF t \in Sources THEN "whole" ELSE state] :
                       state \in {"absent", "whole"}}
    /\ clear = Sources /\ registered \in SUBSET Sources /\ placed = TRUE
    \* a replacement that the client does not have is downloaded by a job
    /\ download = IF client[Target] = "absent" THEN "queued" ELSE "none"
    /\ accepting = "no" /\ task = [state |-> "absent", bound |-> FALSE]
    /\ cleanup = [s \in Sources |-> [mode |-> "keep", state |-> "absent"]]
    /\ plain = [t \in Watched |-> IF client[t] = "absent" THEN "absent" ELSE "complete"]
    /\ job = [state |-> "absent", attempts |-> 0]
    /\ worker = [e \in Executions |-> Idle]
    /\ faults = 0 /\ changes = 0 /\ clicks = 0

Exists == task.state # "absent"
Listed(s) == cleanup[s].state # "absent"
Fault == faults < MaxFaults /\ faults' = faults + 1 /\ UNCHANGED <<changes, clicks>>
Click == clicks < MaxClicks /\ clicks' = clicks + 1 /\ UNCHANGED <<faults, changes>>
Change == changes < MaxChanges /\ changes' = changes + 1 /\ UNCHANGED <<faults, clicks>>

-----------------------------------------------------------------------------
(***************************************************************************)
(* The client, the tracker, and the replacement's download.                *)
(***************************************************************************)
Aside == UNCHANGED <<accepting, task, cleanup, plain, job, worker>>

Submitted ==
    /\ download = "queued" /\ download' \in {"added", "failed"}
    /\ client' = IF download' = "added" THEN [client EXCEPT ![Target] = "partial"] ELSE client
    /\ UNCHANGED <<clear, registered, placed>> /\ UNCHANGED Bounds /\ Aside
Downloaded ==
    /\ client[Target] = "partial" /\ client' = [client EXCEPT ![Target] = "whole"]
    /\ UNCHANGED <<clear, registered, placed, download>> /\ UNCHANGED Bounds /\ Aside

\* Somebody removes a torrent, moves one, or the tracker changes its mind.
Interferes ==
    /\ Change
    /\ \/ /\ \E t \in Watched : client[t] # "absent" /\ client' = [client EXCEPT ![t] = "absent"]
          /\ UNCHANGED <<clear, registered, placed>>
       \/ /\ placed' = FALSE /\ placed /\ UNCHANGED <<client, clear, registered>>
       \/ \E s \in Sources :
             \/ clear' = clear \ {s} /\ s \in clear /\ UNCHANGED <<client, registered, placed>>
             \/ /\ registered' = (registered \ {s}) \cup ({s} \ registered)
                /\ UNCHANGED <<client, clear, placed>>
    /\ UNCHANGED download /\ Aside

\* sync_import_tasks, for a torrent the observer sees: a task with sources is
\* left alone, and so is the task of a source.
Observe(t) ==
    LET explicit == t = Target /\ task.bound /\ \E s \in Sources : Listed(s)
        superseded == t \in Sources /\ Listed(t) /\ plain[t] # "absent" IN
    /\ client[t] # "absent" /\ ~explicit /\ ~superseded
    /\ \E state \in IF client[t] = "partial" THEN {"downloading"} ELSE {"needs_review", "complete"} :
          IF t = Target /\ task.bound
          THEN task' = [task EXCEPT !.state = state] /\ UNCHANGED plain
          ELSE plain' = [plain EXCEPT ![t] = state] /\ UNCHANGED task
    /\ UNCHANGED World /\ UNCHANGED Bounds
    /\ UNCHANGED <<accepting, cleanup, job, worker>>

-----------------------------------------------------------------------------
(***************************************************************************)
(* Accepting it: create_replacement_import, then the job.                  *)
(***************************************************************************)
\* The task of the replacement: the one of its torrent if the client has it.
Create ==
    /\ accepting = "no" /\ Click
    /\ client[Target] # "absent" \/ download # "none"
    /\ LET direct == download = "none" IN
       /\ task' = [state |-> IF direct /\ client[Target] = "whole" THEN "ready" ELSE "downloading",
                   bound |-> direct]
       /\ plain' = IF direct THEN [plain EXCEPT ![Target] = "absent"] ELSE plain
    /\ accepting' = "created"
    /\ UNCHANGED World /\ UNCHANGED <<cleanup, job, worker>>

\* The sources, one row each; a source's own task waits for the replacement.
List(mode) ==
    /\ accepting = "created" /\ accepting' = "listed"
    /\ cleanup' = [s \in Sources |-> [mode |-> mode, state |-> "pending"]]
    /\ plain' = [t \in Watched |->
           IF t \in Sources /\ plain[t] # "absent" THEN "processing" ELSE plain[t]]
    /\ UNCHANGED World /\ UNCHANGED Bounds /\ UNCHANGED <<task, job, worker>>

\* enqueue_import_processing: a job that is over runs again.
Rearmed == IF job.state \in {"absent", "completed", "failed", "cancelled"}
           THEN [state |-> "pending", attempts |-> 0] ELSE job
Enqueue ==
    /\ accepting = "listed" /\ accepting' = "no" /\ job' = Rearmed
    /\ UNCHANGED World /\ UNCHANGED Bounds /\ UNCHANGED <<task, cleanup, plain, worker>>

\* retry_import and dismiss_import.
RetryImport ==
    /\ Exists /\ Click
    /\ task' = [task EXCEPT !.state = "ready"] /\ job' = Rearmed
    /\ UNCHANGED World /\ UNCHANGED <<accepting, cleanup, plain, worker>>
DismissImport ==
    /\ Exists /\ Click
    /\ task' = [task EXCEPT !.state = "dismissed"]
    /\ UNCHANGED World /\ UNCHANGED <<accepting, cleanup, plain, job, worker>>

\* The execution that holds the lease goes on without it, if there is one.
Strays ==
    worker' = IF worker["holder"].at = "idle" THEN worker
              ELSE [holder |-> Idle, stray |-> worker["holder"]]
CanStray == worker["holder"].at = "idle" \/ worker["stray"].at = "idle"

\* cancel_background_job and retry_failed_background_job.
CancelJob ==
    /\ job.state \in {"pending", "running", "waiting"} /\ Click /\ CanStray
    /\ job' = [job EXCEPT !.state = "cancelled"] /\ Strays
    /\ UNCHANGED World /\ UNCHANGED Rows
RetryFailedJob ==
    /\ job.state \in {"failed", "cancelled"} /\ Click
    /\ job' = [state |-> "pending", attempts |-> 0] /\ UNCHANGED worker
    /\ UNCHANGED World /\ UNCHANGED Rows

\* resume_waiting_jobs_for_provider.
Resume ==
    /\ job.state = "waiting" /\ job' = [job EXCEPT !.state = "pending"]
    /\ UNCHANGED World /\ UNCHANGED Rows /\ UNCHANGED <<worker, faults, changes, clicks>>

-----------------------------------------------------------------------------
(***************************************************************************)
(* process_import.                                                         *)
(***************************************************************************)
\* The row after so many attempts.
Attempted(state, attempts) ==
    IF attempts >= MaxAttempts THEN [state |-> "failed", attempts |-> MaxAttempts]
                               ELSE [state |-> state, attempts |-> attempts]

\* The commit of an execution (JobQueue): it is over, and only the one that holds
\* the lease writes the row.
Over(e, state, attempts) ==
    /\ worker' = [worker EXCEPT ![e] = Idle]
    /\ job' = IF e = "holder" THEN Attempted(state, attempts) ELSE job
Completes(e) == Over(e, "completed", job.attempts)
Defers(e)    == Over(e, "pending", job.attempts)
\* Mutant: a failed attempt is not counted.
ErrsFreely(e) == Over(e, "pending", job.attempts)

Errs(e) == Over(e, "pending", job.attempts + 1)
Goes(e, step) == worker' = [worker EXCEPT ![e].at = step] /\ UNCHANGED job

\* set_import_state, which set_superseded_source_states follows.
SetState(state) == task' = [task EXCEPT !.state = state]
Follows(state) == [Idle EXCEPT !.at = "following", !.outcome = state]
Ends(e, state) ==
    /\ SetState(state) /\ worker' = [worker EXCEPT ![e] = Follows(state)]
    /\ UNCHANGED job

\* block_import.
Block(e) == Ends(e, "blocked") /\ UNCHANGED cleanup

InStep(e, step) == worker[e].at = step /\ UNCHANGED World /\ UNCHANGED <<accepting>>

\* import_task_models: an acceptance gives all its sources one mode.
ModeRead == cleanup[CHOOSE s \in Sources : TRUE].mode

Begins(record) ==
    /\ job' = [job EXCEPT !.state = "running"]
    /\ worker' = [worker EXCEPT !["holder"] = record]

Start ==
    /\ job.state = "pending"
    /\ IF task.state \in {"complete", "dismissed"}
       THEN Completes("holder") /\ UNCHANGED task
       ELSE IF ~task.bound /\ download = "failed"
       THEN SetState("failed") /\ Begins(Follows("failed"))
       ELSE IF ~task.bound /\ download = "queued"
       THEN SetState("downloading") /\ Defers("holder")
       ELSE /\ UNCHANGED task
            /\ Begins([Idle EXCEPT !.at = "binding", !.mode = ModeRead,
                                   !.todo = {s \in Sources : cleanup[s].state = "pending"}])
    /\ UNCHANGED World /\ UNCHANGED Bounds /\ UNCHANGED <<accepting, cleanup, plain>>

\* bind_import_target: client and hash are unique among tasks, and the
\* observer may have given the torrent a task of its own.
Bind(e) ==
    /\ InStep(e, "binding")
    /\ IF ~task.bound /\ plain[Target] # "absent"
       THEN Errs(e) /\ UNCHANGED task
       ELSE task' = [task EXCEPT !.bound = TRUE] /\ Goes(e, "looking")
    /\ UNCHANGED Bounds /\ UNCHANGED <<cleanup, plain>>

Retained(S) == [s \in Sources |-> IF s \in S THEN [cleanup[s] EXCEPT !.state = "retained"]
                                             ELSE cleanup[s]]
Look(e) ==
    /\ InStep(e, "looking")
    /\ \/ client[Target] = "absent" /\ Defers(e) /\ UNCHANGED <<task, cleanup>>
       \/ /\ client[Target] = "partial" /\ SetState("downloading") /\ Defers(e)
          /\ UNCHANGED cleanup
       \/ /\ client[Target] = "whole" /\ worker[e].mode = "keep"
          /\ cleanup' = Retained({s \in Sources : Listed(s)})
          /\ Goes(e, "completing") /\ UNCHANGED task
       \/ /\ client[Target] = "whole" /\ worker[e].mode # "keep" /\ ~placed /\ Block(e)
       \/ /\ client[Target] = "whole" /\ worker[e].mode # "keep" /\ placed
          /\ SetState("processing") /\ UNCHANGED <<cleanup, job>>
          /\ worker' = [worker EXCEPT ![e].at = "verifying", ![e].whole = TRUE]
    /\ UNCHANGED Bounds /\ UNCHANGED plain

\* Mutant: a source the tracker still has is as good.
RemovableAnyway(s) == s \in clear

\* The checks of one source, in the order of the code.
Removable(s) == s \notin registered /\ s \in clear

Verify(e, s) ==
    /\ InStep(e, "verifying") /\ s \in worker[e].todo
    /\ \/ /\ client[s] = "absent"
          /\ cleanup' = [cleanup EXCEPT ![s].state = "removed"]
          /\ worker' = [worker EXCEPT ![e].todo = @ \ {s}] /\ UNCHANGED <<job, task>>
       \/ /\ client[s] # "absent" /\ Removable(s)
          /\ worker' = [worker EXCEPT ![e].todo = @ \ {s}, ![e].plan = @ \cup {s},
                ![e].sound = IF s \notin registered /\ s \in clear THEN @ \cup {s} ELSE @]
          /\ UNCHANGED <<cleanup, task, job>>
       \/ client[s] # "absent" /\ ~Removable(s) /\ Block(e)
    /\ UNCHANGED Bounds /\ UNCHANGED plain

Verified(e) ==
    /\ InStep(e, "verifying") /\ worker[e].todo = {} /\ Goes(e, "showing")
    /\ UNCHANGED Bounds /\ UNCHANGED <<task, cleanup, plain>>

\* Plex scans the replacement before, and the place of a source after.
Scan(e, step) ==
    /\ InStep(e, step)
    /\ Goes(e, IF worker[e].plan = {} THEN "completing" ELSE "deleting")
    /\ UNCHANGED Bounds /\ UNCHANGED <<task, cleanup, plain>>

Recording(e, s) ==
    worker' = [worker EXCEPT ![e].at = "recording", ![e].plan = @ \ {s}, ![e].on = s]

\* Mutant: the torrent is recorded as removed before it is.
DeleteLater(e, s) ==
    /\ InStep(e, "deleting") /\ s \in worker[e].plan /\ Recording(e, s)
    /\ UNCHANGED Bounds /\ UNCHANGED <<task, cleanup, plain, job>>

\* delete_torrent.
Delete(e, s) ==
    /\ worker[e].at = "deleting" /\ s \in worker[e].plan /\ Recording(e, s)
    /\ client' = [client EXCEPT ![s] = "absent"]
    /\ UNCHANGED <<clear, registered, placed, download, job>>
    /\ UNCHANGED Rows /\ UNCHANGED Bounds

\* set_supersession_state.
Record(e) ==
    /\ InStep(e, "recording") /\ Goes(e, "rescanning")
    /\ cleanup' = [cleanup EXCEPT ![worker[e].on].state = "removed"]
    /\ UNCHANGED Bounds /\ UNCHANGED <<task, plain>>

Complete(e) ==
    /\ InStep(e, "completing") /\ Ends(e, "complete")
    /\ UNCHANGED Bounds /\ UNCHANGED <<cleanup, plain>>

\* set_superseded_source_states, and the outcome of the execution.
Follow(e) ==
    /\ InStep(e, "following")
    /\ plain' = [t \in Watched |->
           IF t \in Sources /\ Listed(t) /\ plain[t] # "absent"
           THEN IF worker[e].outcome = "complete" THEN "complete" ELSE "needs_review"
           ELSE plain[t]]
    /\ IF worker[e].outcome = "failed" THEN Over(e, "failed", job.attempts) ELSE Completes(e)
    /\ UNCHANGED Bounds /\ UNCHANGED <<task, cleanup>>

Calls == {"looking", "verifying", "showing", "deleting", "rescanning"}

\* A call breaks off; a deletion may have happened all the same.
BreaksOff(e) ==
    /\ \E s \in worker[e].plan \cup {Nobody} :
          client' = IF worker[e].at = "deleting" /\ s # Nobody
                    THEN [client EXCEPT ![s] = "absent"] ELSE client
    /\ UNCHANGED <<clear, registered, placed, download>> /\ UNCHANGED Rows

\* classify_error: a transient failure, and any that is not the provider's, counts
\* as an attempt.
CallFails(e) ==
    /\ worker[e].at \in Calls /\ Errs(e) /\ BreaksOff(e) /\ UNCHANGED Bounds

\* classify_error: a provider that is busy, paused or rate limited defers the job,
\* one that is blocked or needs its credentials parks it, and a permanent failure
\* ends it.
CallIsRefused(e) ==
    /\ worker[e].at \in Calls /\ Fault /\ BreaksOff(e)
    /\ \E state \in {"pending", "waiting", "failed"} : Over(e, state, job.attempts)

\* A heartbeat finds the lease lost and aborts the execution.
Heartbeat ==
    /\ worker["stray"].at # "idle" /\ BreaksOff("stray") /\ UNCHANGED Bounds
    /\ worker' = [worker EXCEPT !["stray"] = Idle] /\ UNCHANGED job

\* recover_expired_background_jobs: another attempt, or the end of them.
LeaseOver == Attempted("pending", job.attempts + 1)

\* The heartbeats fail for so long that the lease runs out.
LoseLease ==
    /\ job.state = "running" /\ Fault /\ CanStray
    /\ job' = LeaseOver /\ Strays /\ UNCHANGED World /\ UNCHANGED Rows

\* The process stops; the lease of a running job runs out.
Crash ==
    /\ Fault
    /\ accepting' = "no" /\ worker' = [e \in Executions |-> Idle]
    /\ job' = IF job.state = "running" THEN LeaseOver ELSE job
    /\ UNCHANGED World /\ UNCHANGED <<task, cleanup, plain>>

\* The steps of an execution that goes on.
Process(e) ==
    \/ Bind(e) \/ Look(e) \/ Verified(e) \/ Scan(e, "showing") \/ Scan(e, "rescanning")
    \/ Record(e) \/ Complete(e) \/ Follow(e)
    \/ \E s \in Sources : Verify(e, s) \/ Delete(e, s)

Next ==
    \/ Submitted \/ Downloaded \/ Interferes \/ Create \/ Enqueue \/ RetryImport
    \/ DismissImport \/ CancelJob \/ RetryFailedJob \/ Resume \/ Start \/ LoseLease
    \/ Heartbeat \/ Crash
    \/ \E e \in Executions : Process(e) \/ CallFails(e) \/ CallIsRefused(e)
    \/ \E mode \in Modes : List(mode)
    \/ \E t \in Watched : Observe(t)

Spec == Init /\ [][Next]_vars

(***************************************************************************)
(* Fairness: the job is claimed, the execution that holds the lease takes  *)
(* its steps, and a download that is under way ends.  Users, the observer, *)
(* the client and a provider that refuses owe nothing.                     *)
(***************************************************************************)
FairSpec ==
    /\ Spec /\ WF_vars(Start) /\ WF_vars(Process("holder"))
    /\ WF_vars(Submitted) /\ WF_vars(Downloaded)

-----------------------------------------------------------------------------
(***************************************************************************)
(* Properties.                                                             *)
(***************************************************************************)
(* A source loses its torrent to an execution only that was told to remove *)
(* it, saw the replacement complete and in place, and has itself found the *)
(* source unregistered and clear, whatever an earlier attempt found before *)
(* it failed (Preferences.svelte:578-582, "Cleanup is fail-closed").  It   *)
(* may have lost its lease since: a cancelled job deletes on until its     *)
(* next heartbeat.                                                         *)
CleanupIsGuarded ==
    [][\A s \in Sources :
           client[s] # "absent" /\ client'[s] = "absent" /\ changes' = changes
               => \E e \in Executions :
                     /\ worker[e].at = "deleting" /\ s \in worker[e].sound
                     /\ worker[e].whole /\ worker[e].mode # "keep"]_vars

(* A source recorded as removed is gone: the record follows the deletion,  *)
(* and an attempt that was cut off between them, or whose answer was lost, *)
(* is finished by the next.                                                *)
RemovedIsGone ==
    \A s \in Sources : cleanup[s].state = "removed" => client[s] = "absent"

(* A complete replacement ends its import, or a provider that is blocked   *)
(* keeps it waiting: the job does not go round for ever while the torrent  *)
(* it waited for is there, however often its calls fail.  The exceptions   *)
(* are failures that are not counted: a provider that is busy, paused or   *)
(* limited for ever defers the job for ever, and here refuses MaxFaults    *)
(* times at most.                                                          *)
ImportSettles ==
    []<>(job.state \notin {"pending", "running"} \/ client[Target] # "whole")
=============================================================================
