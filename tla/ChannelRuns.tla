----------------------------- MODULE ChannelRuns -----------------------------
(***************************************************************************)
(* The refreshes of one recommendation channel (src/src/api.rs,            *)
(* src/src/channel.rs, src/src/db.rs): the scheduler and the API start     *)
(* them, a spawned task works through the sources and saves a pack, and    *)
(* the API changes the channel's settings meanwhile.                       *)
(*                                                                         *)
(* The configuration row holds the settings and the bookkeeping together.  *)
(* Whoever changes it reads the whole row, and writes the whole row later; *)
(* each read and each write is an action.  Only create_channel_run is a    *)
(* transaction.  Time is counted in units of the shortest retry delay, and *)
(* a time of Never stands for a column that is NULL.                       *)
(***************************************************************************)
EXTENDS Naturals, FiniteSets

CONSTANTS
    Scheduler,    \* the one scheduler loop
    Callers,      \* requests that refresh the channel, each made once
    Editors,      \* requests that change its settings, each made once
    Names,        \* Last.fm user names, the blank one included
    Blank,        \* the name of a channel without a user
    Week,         \* the units between two scheduled occurrences
    Doublings,    \* how often the retry delay doubles
    MaxSources,   \* bound: sources of one refresh
    MaxRuns,      \* bound: runs of the channel
    MaxFaults,    \* bound: failed queries and crashes
    Horizon       \* bound: the clock stops there

Starters == {Scheduler} \cup Callers
Runs     == 1..MaxRuns
Never    == 0
Times    == Never..Horizon

ASSUME ChannelRunsAssumption ==
    /\ Scheduler \notin Callers /\ Blank \in Names
    /\ Starters \cap Editors = {} /\ 0 \notin Starters \cup Editors
    /\ Week \in Nat \ {0} /\ Horizon \in Nat \ {0}
    /\ Doublings \in Nat /\ MaxSources \in Nat /\ MaxRuns \in Nat /\ MaxFaults \in Nat

VARIABLES
    channel,    \* channel_config.config_json
    row,        \* channel_run: what the table says of each run
    task,       \* the spawned task of each run
    starter,    \* start_channel_run of the scheduler and of each request
    editor,     \* update_channel of each request
    process,    \* whether the process serves, and what it recovers at its start
    keyed,      \* AppState::lastfm_api_key is there
    now,        \* the clock
    faults,     \* bound: failed queries and crashes so far
    stranded,   \* history: runs that a failed query took the task from
    blurred     \* history: the bookkeeping of the last run was lost or overwritten

vars == <<channel, row, task, starter, editor, process, keyed, now, faults, stranded, blurred>>

Kinds == {"country_chart", "lastfm", "trumped_downloads"}

Config == [kind : Kinds, enabled : BOOLEAN, name : Names, attempt : Times,
           success : Times, error : BOOLEAN, failures : 0..2 * MaxRuns]

\* What is not held by anybody.
NoConfig == [kind |-> "lastfm", enabled |-> FALSE, name |-> Blank, attempt |-> Never,
             success |-> Never, error |-> FALSE, failures |-> 0]

Row     == [status : {"absent", "running", "successful", "partial", "failed"},
            phase : {"none", "discovering", "matching", "waiting_provider", "saving"},
            retryAt : Times, pack : BOOLEAN]
Task    == [at : {"none", "discover", "match", "wait", "save", "finish", "read", "write"},
            left : 0..MaxSources, outcome : {"successful", "partial", "failed"},
            until : Times, copy : Config, behind : BOOLEAN]
Starter == [at : {"idle", "listed", "checked", "created", "write", "done"},
            run : Runs \cup {0}, copy : Config, behind : BOOLEAN]
Editor  == [at : {"idle", "write", "done"}, enabled : BOOLEAN, name : Names, copy : Config,
            behind : BOOLEAN]
Process == [up : BOOLEAN, recovering : Runs \cup {0}]

NoRow   == [status |-> "absent", phase |-> "none", retryAt |-> Never, pack |-> FALSE]
NoTask  == [at |-> "none", left |-> 0, outcome |-> "successful", until |-> Never,
            copy |-> NoConfig, behind |-> FALSE]
Idle    == [at |-> "idle", run |-> 0, copy |-> NoConfig, behind |-> FALSE]
NoEdit  == [at |-> "idle", enabled |-> FALSE, name |-> Blank, copy |-> NoConfig,
            behind |-> FALSE]
Ended(s) == IF s = Scheduler THEN Idle ELSE [Idle EXCEPT !.at = "done"]

TypeOK ==
    /\ channel \in Config /\ row \in [Runs -> Row] /\ task \in [Runs -> Task]
    /\ starter \in [Starters -> Starter] /\ editor \in [Editors -> Editor]
    /\ process \in Process /\ keyed \in BOOLEAN /\ now \in Times \ {Never}
    /\ faults \in 0..MaxFaults /\ stranded \subseteq Runs /\ blurred \in BOOLEAN
    \* a run is finished exactly when its task or a restart finished it, and a
    \* pack is recorded only for a run that saved one
    /\ \A r \in Runs : row[r].pack <=> row[r].status \in {"successful", "partial"}
    /\ \A r \in Runs : row[r].retryAt # Never => row[r].phase = "waiting_provider"

----------------------------------------------------------------------------
(* The rules of a configuration: validate_channel and the schedule.        *)

Valid(c) == c.kind = "lastfm" /\ c.enabled => keyed /\ c.name # Blank

Refreshable(c) == Valid(c) /\ (c.kind = "lastfm" => keyed /\ c.name # Blank)

NextOccurrence(after) == Week * (after \div Week + 1)

RetryDelay(failures) ==
    LET exponent == IF failures = 0 THEN 0 ELSE failures - 1
    IN  2 ^ (IF exponent > Doublings THEN Doublings ELSE exponent)

\* channel_is_due.  A channel that was never refreshed is due at once: it looks
\* for an occurrence in the last eight days.
Due(c) ==
    /\ c.enabled
    /\ IF c.error /\ c.attempt # Never
       THEN c.attempt + RetryDelay(c.failures) <= now
       ELSE LET since == IF c.attempt # Never THEN c.attempt ELSE c.success
            IN  since = Never \/ NextOccurrence(since) <= now

Running(r) == row[r].status = "running"
Unused     == {r \in Runs : row[r].status = "absent"}
Latest     == IF Unused = {} THEN MaxRuns ELSE (CHOOSE r \in Unused : \A s \in Unused : r <= s) - 1

----------------------------------------------------------------------------
(* put_channel writes the row; those who read it before are behind now.    *)

Behind(holders, except) ==
    [h \in DOMAIN holders |->
        IF h # except /\ holders[h].at = "write"
        THEN [holders[h] EXCEPT !.behind = TRUE] ELSE holders[h]]

MayFail == faults < MaxFaults /\ faults' = faults + 1

\* A channel that was never refreshed, with its default or other settings.
Init ==
    /\ keyed \in BOOLEAN
    /\ \E kind \in Kinds, enabled \in BOOLEAN, name \in Names :
          /\ channel = [NoConfig EXCEPT !.kind = kind, !.enabled = enabled, !.name = name]
          /\ Valid(channel) /\ (kind # "lastfm" => name = Blank)
    /\ row = [r \in Runs |-> NoRow] /\ task = [r \in Runs |-> NoTask]
    /\ starter = [s \in Starters |-> Idle] /\ editor = [e \in Editors |-> NoEdit]
    /\ process = [up |-> TRUE, recovering |-> 0] /\ now = 1
    /\ faults = 0 /\ stranded = {} /\ blurred = FALSE

----------------------------------------------------------------------------
(* start_channel_run, called by the scheduler and by POST .../refresh.     *)

\* The scheduler lists the channels and picks a due one.  A failed query ends
\* this tick, which changes nothing.
Tick ==
    /\ process.up /\ starter[Scheduler].at = "idle" /\ Due(channel)
    /\ starter' = [starter EXCEPT ![Scheduler] = [Idle EXCEPT !.at = "listed", !.copy = channel]]
    /\ UNCHANGED <<channel, row, task, editor, process, keyed, now, faults, stranded, blurred>>

\* Mutant: any run that was not successful counts as an active one.
CheckActiveAny ==
    /\ starter[Scheduler].at = "listed"
    /\ starter' = [starter EXCEPT ![Scheduler] =
          IF \E r \in Runs : row[r].status \in {"running", "partial", "failed"}
          THEN Idle ELSE [@ EXCEPT !.at = "checked"]]
    /\ UNCHANGED <<channel, row, task, editor, process, keyed, now, faults, stranded, blurred>>

CheckActive ==
    /\ starter[Scheduler].at = "listed"
    /\ starter' = [starter EXCEPT ![Scheduler] =
          IF \E r \in Runs : Running(r) THEN Idle ELSE [@ EXCEPT !.at = "checked"]]
    /\ UNCHANGED <<channel, row, task, editor, process, keyed, now, faults, stranded, blurred>>

Request(c) ==
    /\ process.up /\ starter[c].at = "idle" /\ Refreshable(channel)
    /\ starter' = [starter EXCEPT ![c] = [Idle EXCEPT !.at = "checked", !.copy = channel]]
    /\ UNCHANGED <<channel, row, task, editor, process, keyed, now, faults, stranded, blurred>>

\* create_channel_run is one transaction: no run when one is running.
CreateRun(s) ==
    /\ starter[s].at = "checked"
    /\ IF Refreshable(starter[s].copy) /\ \A r \in Runs : ~Running(r)
       THEN /\ Unused # {}
            /\ row' = [row EXCEPT ![Latest + 1] =
                  [NoRow EXCEPT !.status = "running", !.phase = "discovering"]]
            /\ starter' = [starter EXCEPT ![s].at = "created", ![s].run = Latest + 1]
            /\ blurred' = FALSE
       ELSE starter' = [starter EXCEPT ![s] = Ended(s)] /\ UNCHANGED <<row, blurred>>
    /\ UNCHANGED <<channel, task, editor, process, keyed, now, faults, stranded>>

\* Mutant: the configuration handed to start_channel_run is written back.
KeepForAttempt(s) ==
    /\ starter[s].at = "created"
    /\ starter' = [starter EXCEPT ![s].at = "write", ![s].behind = FALSE]
    /\ UNCHANGED <<channel, row, task, editor, process, keyed, now, faults, stranded, blurred>>

ReadForAttempt(s) ==
    /\ starter[s].at = "created"
    /\ starter' = [starter EXCEPT ![s].at = "write", ![s].copy = channel, ![s].behind = FALSE]
    /\ UNCHANGED <<channel, row, task, editor, process, keyed, now, faults, stranded, blurred>>

\* The attempt is written and the task spawned.
MarkAttempt(s) ==
    /\ starter[s].at = "write"
    /\ channel' = [starter[s].copy EXCEPT !.attempt = now, !.error = FALSE]
    /\ task' = [Behind(task, 0) EXCEPT ![starter[s].run] = [NoTask EXCEPT !.at = "discover"]]
    /\ starter' = [Behind(starter, s) EXCEPT ![s] = Ended(s)]
    /\ editor' = Behind(editor, s)
    /\ blurred' = (blurred \/ starter[s].behind)
    /\ UNCHANGED <<row, process, keyed, now, faults, stranded>>

\* A query after create_channel_run fails: the caller gets an error, the run
\* stays running and no task was spawned for it.
StartFails(s) ==
    /\ starter[s].at \in {"created", "write"} /\ MayFail
    /\ stranded' = stranded \cup {starter[s].run}
    /\ starter' = [starter EXCEPT ![s] = Ended(s)]
    /\ UNCHANGED <<channel, row, task, editor, process, keyed, now, blurred>>

StarterSteps(s) == CreateRun(s) \/ ReadForAttempt(s) \/ MarkAttempt(s)

----------------------------------------------------------------------------
(* The task: refresh_channel, and what start_channel_run does afterwards.  *)

Goes(r, at) == task' = [task EXCEPT ![r].at = at]
Fails(r) == task' = [task EXCEPT ![r].at = "finish", ![r].outcome = "failed"]

\* The sources are fetched.  Trumped downloads may be none; Last.fm may know
\* that it could not read everything.
Discover(r) ==
    /\ task[r].at = "discover"
    /\ \/ \E n \in 0..MaxSources, partial \in BOOLEAN :
             /\ n = 0 => channel.kind = "trumped_downloads"
             /\ partial => channel.kind = "lastfm"
             /\ task' = [task EXCEPT ![r].at = IF n = 0 THEN "save" ELSE "match", ![r].left = n,
                            ![r].outcome = IF partial THEN "partial" ELSE "successful"]
             /\ row' = [row EXCEPT ![r].phase = "matching"]
       \/ Fails(r) /\ UNCHANGED row
    /\ UNCHANGED <<channel, starter, editor, process, keyed, now, faults, stranded, blurred>>

\* One source is resolved; an error of its own only makes the pack partial.
Match(r) ==
    /\ task[r].at = "match"
    /\ row' = [row EXCEPT ![r].phase = "matching"]
    /\ \E outcome \in {task[r].outcome, "partial"} :
          task' = [task EXCEPT ![r].left = @ - 1, ![r].outcome = outcome,
                      ![r].at = IF task[r].left = 1 THEN "save" ELSE "match"]
    /\ UNCHANGED <<channel, starter, editor, process, keyed, now, faults, stranded, blurred>>

\* A provider that says when to come back is waited for, one that does not fails
\* the whole run.
ProviderLimited(r) ==
    /\ task[r].at = "match"
    /\ \/ \E until \in (now + 1)..Horizon :
             /\ task' = [task EXCEPT ![r].at = "wait", ![r].until = until]
             /\ row' = [row EXCEPT ![r].phase = "waiting_provider", ![r].retryAt = until]
       \/ Fails(r) /\ row' = [row EXCEPT ![r].phase = "matching"]
    /\ UNCHANGED <<channel, starter, editor, process, keyed, now, faults, stranded, blurred>>

Resume(r) ==
    /\ task[r].at = "wait" /\ task[r].until <= now
    /\ task' = [task EXCEPT ![r].at = "match", ![r].until = Never]
    /\ row' = [row EXCEPT ![r].phase = "matching", ![r].retryAt = Never]
    /\ UNCHANGED <<channel, starter, editor, process, keyed, now, faults, stranded, blurred>>

\* The plan is coordinated and the pack saved; a failed write fails the run.
Save(r) ==
    /\ task[r].at = "save"
    /\ row' = [row EXCEPT ![r].phase = "saving"]
    /\ Goes(r, "finish") \/ Fails(r)
    /\ UNCHANGED <<channel, starter, editor, process, keyed, now, faults, stranded, blurred>>

\* The outcome goes to the run's row, and then to the channel: its error is
\* dropped ("let _"), so a failed write leaves the run running.
Finish(r) ==
    /\ task[r].at = "finish" /\ Goes(r, "read")
    /\ \/ /\ row' = [row EXCEPT ![r].status = task[r].outcome, ![r].retryAt = Never,
                                ![r].pack = task[r].outcome # "failed"]
          /\ UNCHANGED <<faults, stranded>>
       \/ MayFail /\ stranded' = stranded \cup {r} /\ UNCHANGED row
    /\ UNCHANGED <<channel, starter, editor, process, keyed, now, blurred>>

ReadBack(r) ==
    /\ task[r].at = "read"
    /\ \/ /\ task' = [task EXCEPT ![r].at = "write", ![r].copy = channel]
          /\ UNCHANGED <<faults, blurred>>
       \/ MayFail /\ task' = [task EXCEPT ![r] = NoTask] /\ blurred' = TRUE
    /\ UNCHANGED <<channel, row, starter, editor, process, keyed, now, stranded>>

\* Mutant: a successful run clears the error and not the count of failures.
OutcomeWithFailures(c, outcome) ==
    IF outcome = "failed"
    THEN [c EXCEPT !.error = TRUE, !.failures = @ + 1]
    ELSE [c EXCEPT !.error = FALSE, !.success = IF outcome = "successful" THEN now ELSE @]

Outcome(c, outcome) ==
    IF outcome = "failed"
    THEN [c EXCEPT !.error = TRUE, !.failures = @ + 1]
    ELSE [c EXCEPT !.error = FALSE, !.failures = 0,
                   !.success = IF outcome = "successful" THEN now ELSE @]

\* The bookkeeping of a run that is no longer the last one blurs the last one's.
WriteBack(r) ==
    /\ task[r].at = "write"
    /\ \/ /\ channel' = Outcome(task[r].copy, task[r].outcome)
          /\ task' = [Behind(task, r) EXCEPT ![r] = NoTask]
          /\ starter' = Behind(starter, 0) /\ editor' = Behind(editor, 0)
          /\ blurred' = (blurred \/ task[r].behind \/ r # Latest)
          /\ UNCHANGED faults
       \/ /\ MayFail /\ task' = [task EXCEPT ![r] = NoTask] /\ blurred' = TRUE
          /\ UNCHANGED <<channel, starter, editor>>
    /\ UNCHANGED <<row, process, keyed, now, stranded>>

TaskSteps(r) ==
    \/ Discover(r) \/ Match(r) \/ ProviderLimited(r) \/ Resume(r) \/ Save(r)
    \/ Finish(r) \/ ReadBack(r) \/ WriteBack(r)

----------------------------------------------------------------------------
(* update_channel: the settings of the request, the bookkeeping of the row *)
(* it read.                                                                *)

ReadForUpdate(e) ==
    /\ process.up /\ editor[e].at = "idle"
    /\ \E enabled \in BOOLEAN, name \in Names :
          /\ channel.kind # "lastfm" => name = Blank
          /\ Valid([channel EXCEPT !.enabled = enabled, !.name = name])
          /\ editor' = [editor EXCEPT ![e] = [at |-> "write", enabled |-> enabled,
                            name |-> name, copy |-> channel, behind |-> FALSE]]
    /\ UNCHANGED <<channel, row, task, starter, process, keyed, now, faults, stranded, blurred>>

\* Another Last.fm user starts without the errors of the one before.
Update(e) ==
    LET renamed == editor[e].name # editor[e].copy.name IN
    /\ editor[e].at = "write"
    /\ channel' = [editor[e].copy EXCEPT
          !.enabled = editor[e].enabled, !.name = editor[e].name,
          !.error = @ /\ ~renamed, !.failures = IF renamed THEN 0 ELSE @]
    /\ editor' = [Behind(editor, e) EXCEPT ![e] = [NoEdit EXCEPT !.at = "done"]]
    /\ task' = Behind(task, 0) /\ starter' = Behind(starter, 0)
    /\ blurred' = (blurred \/ editor[e].behind \/ renamed)
    /\ UNCHANGED <<row, process, keyed, now, faults, stranded>>

----------------------------------------------------------------------------
(* Time, and a crash with the recovery of the next start.                  *)

Clock ==
    /\ now < Horizon /\ now' = now + 1
    /\ UNCHANGED <<channel, row, task, starter, editor, process, keyed, faults, stranded, blurred>>

\* The outcome of a run that is in its row and not yet in the channel is lost.
Crash ==
    /\ MayFail /\ process' = [up |-> FALSE, recovering |-> 0] /\ keyed' \in BOOLEAN
    /\ task' = [r \in Runs |-> NoTask]
    /\ starter' = [s \in Starters |-> IF starter[s].at = "idle" THEN Idle ELSE Ended(s)]
    /\ editor' = [e \in Editors |-> [NoEdit EXCEPT !.at = IF editor[e].at = "idle" THEN @ ELSE "done"]]
    /\ blurred' = (blurred \/ process.recovering # 0
                     \/ \E r \in Runs : task[r].at \in {"read", "write"})
    /\ UNCHANGED <<channel, row, now, stranded>>

\* recover_channel_runs: first the run, then its channel.
RecoverRun(r) ==
    /\ ~process.up /\ process.recovering = 0 /\ Running(r)
    /\ row' = [row EXCEPT ![r].status = "failed", ![r].retryAt = Never]
    /\ process' = [process EXCEPT !.recovering = r]
    /\ UNCHANGED <<channel, task, starter, editor, keyed, now, faults, stranded, blurred>>

RecoverChannel ==
    /\ process.recovering # 0
    /\ channel' = Outcome(channel, "failed")
    /\ process' = [process EXCEPT !.recovering = 0]
    /\ UNCHANGED <<row, task, starter, editor, keyed, now, faults, stranded, blurred>>

\* Mutant: the API is bound without waiting for the recovery of the runs.
ServeAtOnce ==
    /\ ~process.up /\ process.recovering = 0
    /\ process' = [process EXCEPT !.up = TRUE]
    /\ UNCHANGED <<channel, row, task, starter, editor, keyed, now, faults, stranded, blurred>>

Serve ==
    /\ ~process.up /\ process.recovering = 0 /\ \A r \in Runs : ~Running(r)
    /\ process' = [process EXCEPT !.up = TRUE]
    /\ UNCHANGED <<channel, row, task, starter, editor, keyed, now, faults, stranded, blurred>>

Recovery == (\E r \in Runs : RecoverRun(r)) \/ RecoverChannel \/ Serve

----------------------------------------------------------------------------
Next ==
    \/ Tick \/ CheckActive \/ (\E c \in Callers : Request(c))
    \/ \E s \in Starters : StarterSteps(s) \/ StartFails(s)
    \/ \E r \in Runs : TaskSteps(r)
    \/ \E e \in Editors : ReadForUpdate(e) \/ Update(e)
    \/ Clock \/ Crash \/ Recovery

\* The scheduler's interval and the spawned tasks keep running, time passes and
\* a start of the process ends.  Nobody has to ask for anything.
Fairness ==
    /\ WF_vars(Tick) /\ WF_vars(CheckActive) /\ WF_vars(Clock) /\ WF_vars(Recovery)
    /\ \A s \in Starters : WF_vars(StarterSteps(s))
    /\ \A r \in Runs : WF_vars(TaskSteps(r))

Spec == Init /\ [][Next]_vars /\ Fairness

----------------------------------------------------------------------------
(* Properties.                                                             *)

\* While the process serves, a run that its row calls running is being started
\* or worked on, unless a query on its way failed: no crash leaves one behind,
\* which would block every later refresh of the channel.
RunningIsWorkedOn ==
    process.up => \A r \in Runs : Running(r) =>
        \/ r \in stranded
        \/ task[r].at \notin {"none", "read", "write"}
        \/ \E s \in Starters : starter[s].at \in {"created", "write"} /\ starter[s].run = r

\* When nothing is going on, the channel shows how its last run ended, also when
\* a restart ended it, unless a write of the channel was lost or overwritten by
\* one that had read it before.
OutcomeIsShown ==
    LET quiet == /\ process.up /\ \A r \in Runs : task[r].at = "none"
                 /\ \A s \in Starters : starter[s].at \in {"idle", "done"}
    IN  quiet /\ ~blurred /\ Latest # 0 =>
            CASE row[Latest].status = "failed" -> channel.error /\ channel.failures > 0
              [] row[Latest].status = "partial" -> ~channel.error /\ channel.failures = 0
              [] row[Latest].status = "successful" ->
                    ~channel.error /\ channel.failures = 0 /\ channel.success # Never
              [] OTHER -> Latest \in stranded

\* Only update_channel changes the settings: the bookkeeping of a run can undo a
\* change only when that change was written between its read and its write.
SettingsHold ==
    [][ \/ channel'.enabled = channel.enabled /\ channel'.name = channel.name
        \/ \E e \in Editors : editor[e].at = "write" /\ editor'[e].at = "done"
        \/ \E s \in Starters : starter[s].behind /\ starter'[s].at # "write"
        \/ \E r \in Runs : task[r].behind /\ task'[r].at = "none" ]_vars

\* A channel does not stay due: while it can be refreshed it is attempted, unless a
\* failed query left one of its runs running: then no refresh starts before a
\* restart.
DueIsAttempted ==
    []<>(~Due(channel) \/ ~Refreshable(channel) \/ stranded # {} \/ Unused = {})
=============================================================================
