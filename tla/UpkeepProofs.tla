----------------------------- MODULE UpkeepProofs -----------------------------
(***************************************************************************)
(* Theorems about what the process does over and over again.               *)
(*                                                                         *)
(* ChannelRuns, for every set of requests and names and every bound: no    *)
(* run is left running by nobody, the channel shows how its last run       *)
(* ended, and only who read the settings before they changed can undo the  *)
(* change.                                                                 *)
(*                                                                         *)
(* LibraryAssets, for every set of releases, owners and addresses: type    *)
(* correctness, that a stored artwork keeps its file, and that no artwork  *)
(* waits for a job nobody will run.                                        *)
(***************************************************************************)
EXTENDS ChannelRuns, LibraryAssets, TLAPS

-----------------------------------------------------------------------------
(***************************************************************************)
(* ChannelRuns.                                                            *)
(***************************************************************************)
(***************************************************************************)
(* The variables.  That a channel counts no more failures than its runs    *)
(* had is TypeOK's, and not needed here.                                   *)
(***************************************************************************)
Book == [kind : Kinds, enabled : BOOLEAN, name : Names, attempt : Times,
         success : Times, error : BOOLEAN, failures : Nat]

Tasks == [at : {"none", "discover", "match", "wait", "save", "finish", "read", "write"},
          left : 0..MaxSources, outcome : {"successful", "partial", "failed"},
          until : Times, copy : Book, behind : BOOLEAN]

Opening == [at : {"idle", "listed", "checked", "created", "write", "done"},
            run : Runs \cup {0}, copy : Book, behind : BOOLEAN]

Editing == [at : {"idle", "write", "done"}, enabled : BOOLEAN, name : Names, copy : Book,
            behind : BOOLEAN]

ShapeInv ==
    /\ channel \in Book /\ row \in [Runs -> Row] /\ task \in [Runs -> Tasks]
    /\ starter \in [Starters -> Opening] /\ editor \in [Editors -> Editing]
    /\ process \in Process /\ keyed \in BOOLEAN /\ now \in Times \ {Never}
    /\ faults \in 0..MaxFaults /\ stranded \subseteq Runs /\ blurred \in BOOLEAN
    /\ \A r \in Runs : task[r].at \in {"match", "wait"} => task[r].left # 0

(***************************************************************************)
(* The runs.  Those that were created are the first ones, only the last of *)
(* them may be running, and it is one request that is starting it.         *)
(***************************************************************************)
Working == {"discover", "match", "wait", "save", "finish"}
Opens(s) == starter[s].at \in {"created", "write"}

Created == /\ Latest \in 0..MaxRuns
           /\ \A r \in Runs : row[r].status = "absent" <=> Latest < r

OneRuns ==
    \A r \in Runs :
        /\ Running(r) => r = Latest
        /\ task[r].at \in Working => Running(r)
        /\ task[r].at \in {"read", "write"} =>
              \/ row[r].status = task[r].outcome
              \/ Running(r) /\ r \in stranded

OneStarts ==
    /\ \A s \in Starters : Opens(s) =>
          /\ Latest # 0 /\ Running(Latest) /\ task[Latest].at = "none"
          /\ starter[s].run = Latest
    /\ \A s, t \in Starters : Opens(s) /\ Opens(t) => s = t

NobodyIsDown ==
    /\ ~process.up =>
          /\ \A r \in Runs : task[r].at = "none"
          /\ \A s \in Starters : starter[s].at \in {"idle", "done"}
          /\ \A e \in Editors : editor[e].at \in {"idle", "done"}
    /\ process.recovering # 0 =>
          /\ ~process.up /\ process.recovering = Latest
          /\ row[Latest].status = "failed"

RunInv == ShapeInv /\ Created /\ OneRuns /\ OneStarts /\ NobodyIsDown /\ RunningIsWorkedOn

(***************************************************************************)
(* The channel.  Who is not behind holds what the channel still is, so its *)
(* write keeps what it does not mean to change.                            *)
(***************************************************************************)
Current(h) == h.at = "write" /\ ~h.behind => h.copy = channel

CopiesAreCurrent ==
    /\ \A r \in Runs : Current(task[r])
    /\ \A s \in Starters : Current(starter[s])
    /\ \A e \in Editors : Current(editor[e])

Shows(status) ==
    CASE status = "failed" -> channel.error /\ channel.failures > 0
      [] status = "partial" -> ~channel.error /\ channel.failures = 0
      [] status = "successful" ->
            ~channel.error /\ channel.failures = 0 /\ channel.success # Never

EndIsShown ==
    /\ ~blurred /\ Latest # 0 /\ ~Running(Latest)
    /\ task[Latest].at \notin {"read", "write"} /\ process.recovering # Latest
    => Shows(row[Latest].status)

BookInv == RunInv /\ CopiesAreCurrent /\ EndIsShown
-----------------------------------------------------------------------------
(***************************************************************************)
(* The records: what an action makes of one is one again.                  *)
(***************************************************************************)
LEMMA Blanks ==
    /\ NoConfig \in Book /\ NoTask \in Tasks /\ Idle \in Opening /\ NoEdit \in Editing
    /\ NoRow \in Row /\ \A s : Ended(s) \in Opening /\ Ended(s).at \in {"idle", "done"}
<1> USE ChannelRunsAssumption DEF NoConfig, NoTask, Idle, NoEdit, NoRow, Times, Never
<1>1. NoConfig \in Book
  BY DEF Book, Kinds
<1>2. NoTask \in Tasks
  BY <1>1 DEF Tasks
<1>3. Idle \in Opening /\ NoEdit \in Editing
  BY <1>1 DEF Opening, Editing
<1>4. NoRow \in Row
  BY DEF Row
<1>5. ASSUME NEW s
      PROVE  Ended(s) \in Opening /\ Ended(s).at \in {"idle", "done"}
  <2>1. CASE s = Scheduler
    BY <1>3, <2>1 DEF Ended
  <2>2. CASE s # Scheduler
    BY <1>3, <2>2 DEF Ended, Opening
  <2> QED
    BY <2>1, <2>2
<1> QED
  BY <1>1, <1>2, <1>3, <1>4, <1>5

\* What each writer of the channel makes of the configuration it holds.
LEMMA TriedColumns ==
    ASSUME NEW c \in Book, now \in Times \ {Never}
    PROVE  LET tried == [c EXCEPT !.attempt = now, !.error = FALSE]
           IN  tried \in Book /\ tried.enabled = c.enabled /\ tried.name = c.name
BY DEF Book

LEMMA OutcomeColumns ==
    ASSUME NEW c \in Book, NEW outcome \in {"successful", "partial", "failed"},
           now \in Times \ {Never}
    PROVE  LET told == Outcome(c, outcome)
           IN  /\ told \in Book /\ told.enabled = c.enabled /\ told.name = c.name
               /\ outcome = "failed" => told.error /\ told.failures > 0
               /\ outcome # "failed" => ~told.error /\ told.failures = 0
               /\ outcome = "successful" => told.success # Never
<1>1. CASE outcome = "failed"
  <2>1. c.failures + 1 \in Nat /\ c.failures + 1 > 0
    BY DEF Book
  <2>2. Outcome(c, outcome) = [c EXCEPT !.error = TRUE, !.failures = c.failures + 1]
    BY <1>1 DEF Outcome
  <2> QED
    BY <1>1, <2>1, <2>2 DEF Book
<1>2. CASE outcome # "failed"
  BY <1>2 DEF Outcome, Book
<1> QED
  BY <1>1, <1>2

LEMMA EditedColumns ==
    ASSUME NEW c \in Book, NEW enabled \in BOOLEAN, NEW name \in Names, NEW renamed \in BOOLEAN
    PROVE  LET edited == [c EXCEPT !.enabled = enabled, !.name = name,
                                   !.error = @ /\ ~renamed,
                                   !.failures = IF renamed THEN 0 ELSE @]
           IN  edited \in Book
<1>1. CASE renamed
  BY <1>1 DEF Book
<1>2. CASE ~renamed
  BY <1>2 DEF Book
<1> QED
  BY <1>1, <1>2

\* Being behind is all that a write of the channel changes of the others.
LEMMA BehindTask ==
    ASSUME task \in [Runs -> Tasks], NEW x
    PROVE  /\ Behind(task, x) \in [Runs -> Tasks]
           /\ \A r \in Runs :
                 LET h == Behind(task, x)[r]
                 IN  /\ h.at = task[r].at /\ h.left = task[r].left /\ h.outcome = task[r].outcome
                     /\ r # x /\ h.at = "write" => h.behind
BY DEF Behind, Tasks

LEMMA BehindStarter ==
    ASSUME starter \in [Starters -> Opening], NEW x
    PROVE  /\ Behind(starter, x) \in [Starters -> Opening]
           /\ \A s \in Starters :
                 LET h == Behind(starter, x)[s]
                 IN  /\ h.at = starter[s].at /\ h.run = starter[s].run
                     /\ s # x /\ h.at = "write" => h.behind
BY DEF Behind, Opening

LEMMA BehindEditor ==
    ASSUME editor \in [Editors -> Editing], NEW x
    PROVE  /\ Behind(editor, x) \in [Editors -> Editing]
           /\ \A e \in Editors :
                 LET h == Behind(editor, x)[e]
                 IN  h.at = editor[e].at /\ (e # x /\ h.at = "write" => h.behind)
BY DEF Behind, Editing

\* The last run, when the runs that were created are the first n.
LEMMA LastIs ==
    ASSUME NEW n \in 0..MaxRuns
    PROVE  /\ (\A r \in Runs : row[r].status = "absent" <=> n < r) => Latest = n
           /\ (\A r \in Runs : row'[r].status = "absent" <=> n < r) => Latest' = n
<1> USE ChannelRunsAssumption
<1> DEFINE First(S) == IF S = {} THEN MaxRuns ELSE (CHOOSE r \in S : \A s \in S : r <= s) - 1
<1>1. ASSUME NEW S \in SUBSET Runs, \A r \in Runs : r \in S <=> n < r
      PROVE  First(S) = n
  <2>1. CASE S = {}
    BY <1>1, <2>1 DEF Runs
  <2>2. CASE S # {}
    <3>0. PICK x \in S : TRUE
      BY <2>2
    <3>1. n + 1 \in S /\ \A s \in S : n + 1 <= s
      <4>1. n + 1 \in Runs /\ n < n + 1
        BY <1>1, <3>0 DEF Runs
      <4>2. n + 1 \in S
        BY <1>1, <4>1
      <4> QED
        BY <1>1, <4>2 DEF Runs
    <3>2. \A r \in S : (\A s \in S : r <= s) => r = n + 1
      BY <3>1 DEF Runs
    <3> QED
      BY <2>2, <3>1, <3>2
  <2> QED
    BY <2>1, <2>2
<1> HIDE DEF First
<1>2. (\A r \in Runs : row[r].status = "absent" <=> n < r) => First(Unused) = n
  BY <1>1 DEF Unused
<1>3. (\A r \in Runs : row'[r].status = "absent" <=> n < r) => First(Unused') = n
  BY <1>1 DEF Unused
<1> QED
  BY <1>2, <1>3 DEF Latest, First

-----------------------------------------------------------------------------
(***************************************************************************)
(* Type correctness, action by action.                                     *)
(***************************************************************************)
LEMMA ShapeInit == Init => ShapeInv
<1> SUFFICES ASSUME Init PROVE ShapeInv
  OBVIOUS
<1>1. channel \in Book
  <2>1. PICK kind \in Kinds, enabled \in BOOLEAN, name \in Names :
           channel = [NoConfig EXCEPT !.kind = kind, !.enabled = enabled, !.name = name]
    BY DEF Init
  <2> QED
    BY <2>1, Blanks DEF Book
<1>2. process \in Process /\ now \in Times \ {Never} /\ faults \in 0..MaxFaults
  BY ChannelRunsAssumption DEF Init, Process, Times, Never
<1>3. \A r \in Runs : task[r].at \notin {"match", "wait"}
  BY DEF Init, NoTask
<1> QED
  BY <1>1, <1>2, <1>3, Blanks DEF Init, ShapeInv

LEMMA Counted == MayFail /\ faults \in 0..MaxFaults => faults' \in 0..MaxFaults
BY ChannelRunsAssumption DEF MayFail

\* A run can be created, and one that is being started was.
LEMMA NextRun ==
    ASSUME Created
    PROVE  /\ Unused # {} => Latest + 1 \in Runs
           /\ OneStarts => \A s \in Starters : Opens(s) => starter[s].run \in Runs
<1> USE ChannelRunsAssumption DEF Created, Runs
<1>1. ASSUME Unused # {}
      PROVE  Latest + 1 \in Runs
  <2>1. PICK r \in Runs : row[r].status = "absent"
    BY <1>1 DEF Unused
  <2> QED
    BY <2>1
<1> QED
  BY <1>1 DEF OneStarts

LEMMA ShapeStarter ==
    ASSUME ShapeInv, Created, OneStarts,
           Tick \/ CheckActive \/ (\E c \in Callers : Request(c))
             \/ \E s \in Starters : StarterSteps(s) \/ StartFails(s)
    PROVE  ShapeInv'
<1> USE Blanks DEF ShapeInv
<1>1. CASE Tick
  BY <1>1 DEF Tick, Opening
<1>2. CASE CheckActive
  <2>1. [starter[Scheduler] EXCEPT !.at = "checked"] \in Opening
    BY DEF Opening, Starters
  <2> QED
    BY <1>2, <2>1 DEF CheckActive
<1>3. ASSUME NEW c \in Callers, Request(c)
      PROVE  ShapeInv'
  BY <1>3 DEF Request, Opening
<1>4. ASSUME NEW s \in Starters, CreateRun(s)
      PROVE  ShapeInv'
  <2>1. CASE Refreshable(starter[s].copy) /\ \A r \in Runs : ~Running(r)
    <3>1. [NoRow EXCEPT !.status = "running", !.phase = "discovering"] \in Row
      BY DEF Row
    <3>2. row' \in [Runs -> Row]
      BY <1>4, <2>1, <3>1 DEF CreateRun
    <3>3. Latest + 1 \in Runs
      BY <1>4, <2>1, NextRun DEF CreateRun
    <3>4. [starter[s] EXCEPT !.at = "created", !.run = Latest + 1] \in Opening
      BY <3>3 DEF Opening
    <3>5. starter' = [starter EXCEPT ![s] = [@ EXCEPT !.at = "created", !.run = Latest + 1]]
      BY <1>4, <2>1 DEF CreateRun
    <3> QED
      BY <1>4, <2>1, <3>2, <3>4, <3>5 DEF CreateRun
  <2>2. CASE ~(Refreshable(starter[s].copy) /\ \A r \in Runs : ~Running(r))
    BY <1>4, <2>2 DEF CreateRun
  <2> QED
    BY <2>1, <2>2
<1>5. ASSUME NEW s \in Starters, ReadForAttempt(s)
      PROVE  ShapeInv'
  <2>1. starter' \in [Starters -> Opening]
    BY <1>5 DEF ReadForAttempt, Opening
  <2> QED
    BY <1>5, <2>1 DEF ReadForAttempt
<1>6. ASSUME NEW s \in Starters, MarkAttempt(s)
      PROVE  ShapeInv'
  <2>1. starter[s] \in Opening /\ starter[s].copy \in Book
    BY DEF Opening
  <2>2. channel' \in Book
    BY <1>6, <2>1, TriedColumns DEF MarkAttempt
  <2>3. [NoTask EXCEPT !.at = "discover"] \in Tasks
    BY DEF Tasks
  <2>4. task' \in [Runs -> Tasks] /\ \A r \in Runs : task'[r].at \in {"match", "wait"} => task'[r].left # 0
    <3>1. task' = [Behind(task, 0) EXCEPT ![starter[s].run] = [NoTask EXCEPT !.at = "discover"]]
      BY <1>6 DEF MarkAttempt
    <3>2. [NoTask EXCEPT !.at = "discover"].at = "discover"
      BY DEF NoTask
    <3>3. DOMAIN Behind(task, 0) = Runs /\ \A r \in Runs : Behind(task, 0)[r] \in Tasks
      BY BehindTask
    <3>4. task' \in [Runs -> Tasks]
      BY <2>3, <3>1, <3>3, BehindTask
    <3>5. \A r \in Runs : \/ task'[r] = [NoTask EXCEPT !.at = "discover"]
                          \/ task'[r] = Behind(task, 0)[r]
      BY <3>1, <3>3
    <3>6. \A r \in Runs : \/ task'[r].at = "discover"
                          \/ task'[r].at = task[r].at /\ task'[r].left = task[r].left
      <4>1. \A r \in Runs : /\ Behind(task, 0)[r].at = task[r].at
                            /\ Behind(task, 0)[r].left = task[r].left
        BY BehindTask
      <4> QED
        BY <3>2, <3>5, <4>1
    <3> QED
      BY <3>4, <3>6
  <2>5. starter' \in [Starters -> Opening] /\ editor' \in [Editors -> Editing]
    BY <1>6, BehindStarter, BehindEditor DEF MarkAttempt
  <2> QED
    BY <1>6, <2>1, <2>2, <2>4, <2>5 DEF MarkAttempt, Opening
<1>7. ASSUME NEW s \in Starters, StartFails(s)
      PROVE  ShapeInv'
  <2>1. starter[s].run \in Runs
    BY <1>7, NextRun DEF StartFails, Opens
  <2> QED
    BY <1>7, <2>1, Counted DEF StartFails
<1> QED
  BY <1>1, <1>2, <1>3, <1>4, <1>5, <1>6, <1>7 DEF StarterSteps

LEMMA ShapeTask ==
    ASSUME ShapeInv, NEW r \in Runs, TaskSteps(r)
    PROVE  ShapeInv'
<1> USE Blanks DEF ShapeInv
<1>1. task[r] \in Tasks /\ row[r] \in Row
  OBVIOUS
<1>2. ASSUME Fails(r)
      PROVE  /\ task' \in [Runs -> Tasks]
             /\ \A q \in Runs : task'[q].at \in {"match", "wait"} => task'[q].left # 0
  BY <1>2 DEF Fails, Tasks
<1>3. \A phase \in {"matching", "saving"} :
         [row EXCEPT ![r].phase = phase] \in [Runs -> Row]
  BY DEF Row
<1>4. CASE Discover(r)
  <2>1. CASE Fails(r) /\ UNCHANGED row
    BY <1>2, <1>4, <2>1 DEF Discover
  <2>2. ASSUME NEW n \in 0..MaxSources, NEW partial \in BOOLEAN,
               task' = [task EXCEPT ![r].at = IF n = 0 THEN "save" ELSE "match", ![r].left = n,
                           ![r].outcome = IF partial THEN "partial" ELSE "successful"],
               row' = [row EXCEPT ![r].phase = "matching"]
        PROVE  ShapeInv'
    <3> DEFINE stage == IF n = 0 THEN "save" ELSE "match"
               outcome == IF partial THEN "partial" ELSE "successful"
               t == [task[r] EXCEPT !.at = stage, !.left = n, !.outcome = outcome]
    <3>1. /\ stage \in {"save", "match"} /\ outcome \in {"partial", "successful"}
          /\ stage \in {"match", "wait"} => n # 0
      OBVIOUS
    <3>2. task' = [task EXCEPT ![r] = t]
      BY <2>2
    <3> HIDE DEF stage, outcome
    <3>3. t \in Tasks /\ t.at = stage /\ t.left = n
      BY <1>1, <3>1 DEF Tasks
    <3> HIDE DEF t
    <3>4. task' \in [Runs -> Tasks] /\ \A q \in Runs : task'[q].at \in {"match", "wait"} => task'[q].left # 0
      BY <3>1, <3>2, <3>3
    <3> QED
      BY <1>3, <1>4, <2>2, <3>4 DEF Discover
  <2> QED
    BY <1>4, <2>1, <2>2 DEF Discover
<1>5. CASE Match(r)
  <2>1. PICK outcome \in {task[r].outcome, "partial"} :
           task' = [task EXCEPT ![r].left = @ - 1, ![r].outcome = outcome,
                       ![r].at = IF task[r].left = 1 THEN "save" ELSE "match"]
    BY <1>5 DEF Match
  <2>2. /\ task[r].left - 1 \in 0..MaxSources /\ (task[r].left # 1 => task[r].left - 1 # 0)
        /\ outcome \in {"successful", "partial", "failed"}
    BY <1>1, <1>5, ChannelRunsAssumption DEF Match, Tasks
  <2>3. task' \in [Runs -> Tasks] /\ \A q \in Runs : task'[q].at \in {"match", "wait"} => task'[q].left # 0
    <3>1. CASE task[r].left = 1
      BY <1>1, <2>1, <2>2, <3>1 DEF Tasks
    <3>2. CASE task[r].left # 1
      BY <1>1, <2>1, <2>2, <3>2 DEF Tasks
    <3> QED
      BY <3>1, <3>2
  <2> QED
    BY <1>3, <1>5, <2>3 DEF Match
<1>6. CASE ProviderLimited(r)
  <2>1. CASE Fails(r) /\ row' = [row EXCEPT ![r].phase = "matching"]
    BY <1>2, <1>3, <1>6, <2>1 DEF ProviderLimited
  <2>2. ASSUME NEW until \in (now + 1)..Horizon,
               task' = [task EXCEPT ![r].at = "wait", ![r].until = until],
               row' = [row EXCEPT ![r].phase = "waiting_provider", ![r].retryAt = until]
        PROVE  ShapeInv'
    <3>1. until \in Times
      BY DEF Times, Never
    <3>2. row' \in [Runs -> Row]
      BY <2>2, <3>1 DEF Row
    <3>3. task' \in [Runs -> Tasks] /\ \A q \in Runs : task'[q].at \in {"match", "wait"} => task'[q].left # 0
      BY <1>6, <2>2, <3>1 DEF Tasks, ProviderLimited
    <3> QED
      BY <1>6, <3>2, <3>3 DEF ProviderLimited
  <2> QED
    BY <1>6, <2>1, <2>2 DEF ProviderLimited
<1>7. CASE Resume(r)
  <2>1. Never \in Times
    BY ChannelRunsAssumption DEF Times, Never
  <2>2. row' \in [Runs -> Row]
    BY <1>7, <2>1 DEF Resume, Row
  <2>3. task' \in [Runs -> Tasks] /\ \A q \in Runs : task'[q].at \in {"match", "wait"} => task'[q].left # 0
    BY <1>7, <2>1 DEF Tasks, Resume
  <2> QED
    BY <1>7, <2>2, <2>3 DEF Resume
<1>8. CASE Save(r)
  BY <1>2, <1>3, <1>8 DEF Save, Goes, Tasks
<1>9. CASE Finish(r)
  <2>1. row' \in [Runs -> Row]
    BY <1>1, <1>9, ChannelRunsAssumption DEF Finish, Row, Tasks, Times, Never
  <2>2. task' \in [Runs -> Tasks] /\ \A q \in Runs : task'[q].at \in {"match", "wait"} => task'[q].left # 0
    BY <1>9 DEF Finish, Goes, Tasks
  <2> QED
    BY <1>9, <2>1, <2>2, Counted DEF Finish
<1>10. CASE ReadBack(r)
  <2>1. [task[r] EXCEPT !.at = "write", !.copy = channel] \in Tasks
    BY DEF Tasks
  <2>2. task' \in [Runs -> Tasks] /\ \A q \in Runs : task'[q].at \in {"match", "wait"} => task'[q].left # 0
    <3>1. /\ [task[r] EXCEPT !.at = "write", !.copy = channel].at = "write"
          /\ NoTask.at = "none"
      BY <1>1 DEF Tasks, NoTask
    <3>2. \/ task' = [task EXCEPT ![r] = [task[r] EXCEPT !.at = "write", !.copy = channel]]
          \/ task' = [task EXCEPT ![r] = NoTask]
      BY <1>10 DEF ReadBack
    <3> QED
      BY <2>1, <3>1, <3>2
  <2> QED
    BY <1>10, <2>2, Counted DEF ReadBack
<1>11. CASE WriteBack(r)
  <2>0. task[r].copy \in Book /\ task[r].outcome \in {"successful", "partial", "failed"}
    BY <1>1 DEF Tasks
  <2>1. channel' \in Book
    <3>1. channel' = Outcome(task[r].copy, task[r].outcome) \/ channel' = channel
      BY <1>11 DEF WriteBack
    <3>2. Outcome(task[r].copy, task[r].outcome) \in Book
      BY <2>0, OutcomeColumns
    <3> QED
      BY <3>1, <3>2
  <2>2. task' \in [Runs -> Tasks]
    BY <1>11, BehindTask DEF WriteBack
  <2>3. \A q \in Runs : \/ task'[q].at = "none"
                        \/ task'[q].at = task[q].at /\ task'[q].left = task[q].left
    <3>1. \/ task' = [Behind(task, r) EXCEPT ![r] = NoTask]
          \/ task' = [task EXCEPT ![r] = NoTask]
      BY <1>11 DEF WriteBack
    <3>2. Behind(task, r) \in [Runs -> Tasks] /\ NoTask.at = "none"
      BY BehindTask DEF NoTask
    <3>3. \A q \in Runs : task'[q] = NoTask \/ task'[q] = Behind(task, r)[q] \/ task'[q] = task[q]
      BY <3>1, <3>2
    <3>4. \A q \in Runs : /\ Behind(task, r)[q].at = task[q].at
                          /\ Behind(task, r)[q].left = task[q].left
      BY BehindTask
    <3> QED
      BY <3>2, <3>3, <3>4
  <2>4. starter' \in [Starters -> Opening] /\ editor' \in [Editors -> Editing]
    BY <1>11, BehindStarter, BehindEditor DEF WriteBack
  <2>5. faults' \in 0..MaxFaults /\ blurred' \in BOOLEAN
    BY <1>1, <1>11, Counted DEF WriteBack, Tasks
  <2> QED
    BY <1>11, <2>1, <2>2, <2>3, <2>4, <2>5 DEF WriteBack
<1> QED
  BY <1>4, <1>5, <1>6, <1>7, <1>8, <1>9, <1>10, <1>11 DEF TaskSteps

LEMMA ShapeEditor ==
    ASSUME ShapeInv, NEW e \in Editors, ReadForUpdate(e) \/ Update(e)
    PROVE  ShapeInv'
<1> USE Blanks DEF ShapeInv
<1>1. CASE ReadForUpdate(e)
  <2>1. PICK enabled \in BOOLEAN, name \in Names :
           editor' = [editor EXCEPT ![e] = [at |-> "write", enabled |-> enabled,
                         name |-> name, copy |-> channel, behind |-> FALSE]]
    BY <1>1 DEF ReadForUpdate
  <2>2. [at |-> "write", enabled |-> enabled, name |-> name, copy |-> channel,
         behind |-> FALSE] \in Editing
    BY DEF Editing
  <2> QED
    BY <1>1, <2>1, <2>2 DEF ReadForUpdate
<1>2. CASE Update(e)
  <2>1. editor[e] \in Editing /\ editor[e].copy \in Book /\ editor[e].name \in Names
    BY DEF Editing
  <2>2. channel' \in Book
    BY <1>2, <2>1, EditedColumns DEF Update, Editing
  <2>3. [NoEdit EXCEPT !.at = "done"] \in Editing
    BY DEF Editing
  <2>4. editor' \in [Editors -> Editing] /\ starter' \in [Starters -> Opening]
    BY <1>2, <2>3, BehindEditor, BehindStarter DEF Update
  <2>5. task' \in [Runs -> Tasks] /\ \A q \in Runs : task'[q].at \in {"match", "wait"} => task'[q].left # 0
    BY <1>2, BehindTask DEF Update
  <2>6. blurred' \in BOOLEAN
    BY <1>2, <2>1 DEF Update, Editing
  <2> QED
    BY <1>2, <2>2, <2>4, <2>5, <2>6 DEF Update
<1> QED
  BY <1>1, <1>2

LEMMA ShapeProcess ==
    ASSUME ShapeInv, Clock \/ Crash \/ Recovery \/ UNCHANGED vars
    PROVE  ShapeInv'
<1> USE Blanks DEF ShapeInv
<1>1. CASE Clock
  BY <1>1, ChannelRunsAssumption DEF Clock, Times, Never
<1>2. CASE Crash
  <2>1. \A e \in Editors :
           [NoEdit EXCEPT !.at = IF editor[e].at = "idle" THEN @ ELSE "done"] \in Editing
    BY DEF Editing, NoEdit
  <2>2. starter' \in [Starters -> Opening] /\ editor' \in [Editors -> Editing]
    BY <1>2, <2>1 DEF Crash
  <2>3. task' \in [Runs -> Tasks] /\ \A q \in Runs : task'[q].at = "none"
    BY <1>2 DEF Crash, NoTask
  <2>4. blurred' \in BOOLEAN /\ process' \in Process
    BY <1>2, ChannelRunsAssumption DEF Crash, Process
  <2> QED
    BY <1>2, <2>2, <2>3, <2>4, Counted DEF Crash
<1>3. ASSUME NEW r \in Runs, RecoverRun(r)
      PROVE  ShapeInv'
  <2>1. row' \in [Runs -> Row]
    <3>1. row[r] \in Row /\ Never \in Times
      BY ChannelRunsAssumption DEF Times, Never
    <3>2. [row[r] EXCEPT !.status = "failed", !.retryAt = Never] \in Row
      BY <3>1 DEF Row
    <3> QED
      BY <1>3, <3>2 DEF RecoverRun
  <2> QED
    BY <1>3, <2>1 DEF RecoverRun, Process
<1>4. CASE RecoverChannel
  <2>1. channel' \in Book
    BY <1>4, OutcomeColumns DEF RecoverChannel
  <2>2. process' \in Process
    BY <1>4 DEF RecoverChannel, Process
  <2> QED
    BY <1>4, <2>1, <2>2 DEF RecoverChannel
<1>5. CASE Serve
  BY <1>5 DEF Serve, Process
<1>6. CASE UNCHANGED vars
  BY <1>6 DEF vars
<1> QED
  BY <1>1, <1>2, <1>3, <1>4, <1>5, <1>6 DEF Recovery

LEMMA ShapeNext == ShapeInv /\ Created /\ OneStarts /\ [Next]_vars => ShapeInv'
BY ShapeStarter, ShapeTask, ShapeEditor, ShapeProcess DEF Next

-----------------------------------------------------------------------------
(***************************************************************************)
(* What a step of the task of r is to everybody else: it goes on, ends the *)
(* run, reads the channel or writes it.                                    *)
(***************************************************************************)
Works(r) ==
    /\ task[r].at \in Working /\ task'[r].at \in Working
    /\ row'[r].status = row[r].status
    /\ UNCHANGED <<stranded, blurred>>

Ends(r) ==
    /\ task[r].at \in Working /\ task'[r].at = "read" /\ task'[r].outcome = task[r].outcome
    /\ \/ row'[r].status = task[r].outcome /\ UNCHANGED stranded
       \/ row'[r].status = row[r].status /\ stranded' = stranded \cup {r}
    /\ UNCHANGED blurred

Reads(r) ==
    /\ task[r].at = "read" /\ row'[r].status = row[r].status
    /\ \/ /\ task'[r].at = "write" /\ task'[r].copy = channel
          /\ task'[r].outcome = task[r].outcome /\ UNCHANGED blurred
       \/ task'[r].at = "none" /\ blurred'
    /\ UNCHANGED stranded

\* The holders of a copy, whoever else they are, after a write of the channel.
LeftBehind(R, S, E) ==
    /\ \A q \in R : /\ task'[q].at = task[q].at /\ task'[q].outcome = task[q].outcome
                    /\ task'[q].at = "write" => task'[q].behind
    /\ \A t \in S : /\ starter'[t].at = starter[t].at /\ starter'[t].run = starter[t].run
                    /\ starter'[t].at = "write" => starter'[t].behind
    /\ \A f \in E : /\ editor'[f].at = editor[f].at
                    /\ editor'[f].at = "write" => editor'[f].behind

Writes(r) ==
    /\ task[r].at = "write" /\ task'[r].at = "none"
    /\ \/ /\ channel' = Outcome(task[r].copy, task[r].outcome)
          /\ LeftBehind(Runs \ {r}, Starters, Editors)
          /\ task[r].behind \/ r # Latest => blurred'
          /\ blurred => blurred'
       \/ /\ UNCHANGED <<channel, starter, editor>> /\ blurred'
          /\ \A q \in Runs \ {r} : task'[q] = task[q]

LEMMA TaskEffects ==
    ASSUME ShapeInv, NEW r \in Runs, TaskSteps(r)
    PROVE  /\ UNCHANGED process
           /\ \/ /\ Works(r) \/ Ends(r) \/ Reads(r)
                 /\ UNCHANGED <<channel, starter, editor>>
                 /\ \A q \in Runs \ {r} : task'[q] = task[q] /\ row'[q] = row[q]
              \/ Writes(r) /\ UNCHANGED <<row, stranded>>
<1>1. task[r] \in Tasks /\ row[r] \in Row /\ task \in [Runs -> Tasks] /\ row \in [Runs -> Row]
  BY DEF ShapeInv
<1>2. ASSUME Fails(r)
      PROVE  task'[r].at \in Working /\ \A q \in Runs \ {r} : task'[q] = task[q]
  BY <1>1, <1>2 DEF Fails, Working, Tasks
<1>3. ASSUME NEW phase, row' = [row EXCEPT ![r].phase = phase]
      PROVE  row'[r].status = row[r].status /\ \A q \in Runs \ {r} : row'[q] = row[q]
  BY <1>1, <1>3 DEF Row
<1>4. CASE Discover(r)
  <2>1. CASE Fails(r) /\ UNCHANGED row
    BY <1>2, <1>4, <2>1 DEF Discover, Works, Working
  <2>2. ASSUME NEW n \in 0..MaxSources, NEW partial \in BOOLEAN,
               task' = [task EXCEPT ![r].at = IF n = 0 THEN "save" ELSE "match", ![r].left = n,
                           ![r].outcome = IF partial THEN "partial" ELSE "successful"],
               row' = [row EXCEPT ![r].phase = "matching"]
        PROVE  Works(r) /\ \A q \in Runs \ {r} : task'[q] = task[q] /\ row'[q] = row[q]
    <3>1. task'[r].at \in {"save", "match"} /\ \A q \in Runs \ {r} : task'[q] = task[q]
      BY <1>1, <2>2 DEF Tasks
    <3> QED
      BY <1>3, <1>4, <2>2, <3>1 DEF Discover, Works, Working
  <2> QED
    BY <1>4, <2>1, <2>2 DEF Discover
<1>5. CASE Match(r)
  <2>1. PICK outcome : 
           task' = [task EXCEPT ![r].left = @ - 1, ![r].outcome = outcome,
                       ![r].at = IF task[r].left = 1 THEN "save" ELSE "match"]
    BY <1>5 DEF Match
  <2>2. task'[r].at \in {"save", "match"} /\ \A q \in Runs \ {r} : task'[q] = task[q]
    BY <1>1, <2>1 DEF Tasks
  <2> QED
    BY <1>3, <1>5, <2>2 DEF Match, Works, Working
<1>6. CASE ProviderLimited(r)
  <2>1. CASE Fails(r) /\ row' = [row EXCEPT ![r].phase = "matching"]
    BY <1>2, <1>3, <1>6, <2>1 DEF ProviderLimited, Works, Working
  <2>2. ASSUME NEW until,
               task' = [task EXCEPT ![r].at = "wait", ![r].until = until],
               row' = [row EXCEPT ![r].phase = "waiting_provider", ![r].retryAt = until]
        PROVE  Works(r) /\ \A q \in Runs \ {r} : task'[q] = task[q] /\ row'[q] = row[q]
    <3>1. row'[r].status = row[r].status /\ \A q \in Runs \ {r} : row'[q] = row[q]
      BY <1>1, <2>2 DEF Row
    <3>2. task'[r].at = "wait" /\ \A q \in Runs \ {r} : task'[q] = task[q]
      BY <1>1, <2>2 DEF Tasks
    <3> QED
      BY <1>6, <3>1, <3>2 DEF ProviderLimited, Works, Working
  <2> QED
    BY <1>6, <2>1, <2>2 DEF ProviderLimited
<1>7. CASE Resume(r)
  <2>1. row'[r].status = row[r].status /\ \A q \in Runs \ {r} : row'[q] = row[q]
    BY <1>1, <1>7 DEF Resume, Row
  <2>2. task'[r].at = "match" /\ \A q \in Runs \ {r} : task'[q] = task[q]
    BY <1>1, <1>7 DEF Resume, Tasks
  <2> QED
    BY <1>7, <2>1, <2>2 DEF Resume, Works, Working
<1>8. CASE Save(r)
  <2>1. Goes(r, "finish") => task'[r].at = "finish" /\ \A q \in Runs \ {r} : task'[q] = task[q]
    BY <1>1 DEF Goes, Tasks
  <2> QED
    BY <1>2, <1>3, <1>8, <2>1 DEF Save, Works, Working
<1>9. CASE Finish(r)
  <2>1. /\ task'[r].at = "read" /\ task'[r].outcome = task[r].outcome
        /\ \A q \in Runs \ {r} : task'[q] = task[q]
    BY <1>1, <1>9 DEF Finish, Goes, Tasks
  <2>2. CASE row' = [row EXCEPT ![r].status = task[r].outcome, ![r].retryAt = Never,
                                ![r].pack = task[r].outcome # "failed"]
             /\ UNCHANGED <<faults, stranded>>
    <3>1. row'[r].status = task[r].outcome /\ \A q \in Runs \ {r} : row'[q] = row[q]
      BY <1>1, <2>2 DEF Row
    <3> QED
      BY <1>9, <2>1, <2>2, <3>1 DEF Finish, Ends, Working
  <2>3. CASE stranded' = stranded \cup {r} /\ UNCHANGED row
    BY <1>9, <2>1, <2>3 DEF Finish, Ends, Working
  <2> QED
    BY <1>9, <2>2, <2>3 DEF Finish
<1>10. CASE ReadBack(r)
  <2>1. CASE task' = [task EXCEPT ![r].at = "write", ![r].copy = channel] /\ UNCHANGED <<faults, blurred>>
    <3>1. /\ task'[r].at = "write" /\ task'[r].copy = channel /\ task'[r].outcome = task[r].outcome
          /\ \A q \in Runs \ {r} : task'[q] = task[q]
      BY <1>1, <2>1 DEF Tasks
    <3> QED
      BY <1>10, <2>1, <3>1 DEF ReadBack, Reads
  <2>2. CASE task' = [task EXCEPT ![r] = NoTask] /\ blurred' = TRUE
    BY <1>1, <1>10, <2>2 DEF ReadBack, Reads, NoTask
  <2> QED
    BY <1>10, <2>1, <2>2 DEF ReadBack
<1>11. CASE WriteBack(r)
  <2>1. CASE /\ channel' = Outcome(task[r].copy, task[r].outcome)
             /\ task' = [Behind(task, r) EXCEPT ![r] = NoTask]
             /\ starter' = Behind(starter, 0) /\ editor' = Behind(editor, 0)
             /\ blurred' = (blurred \/ task[r].behind \/ r # Latest)
    <3>1. /\ task'[r] = NoTask /\ NoTask.at = "none"
          /\ \A q \in Runs \ {r} : task'[q] = Behind(task, r)[q]
      BY <1>1, <2>1, BehindTask DEF NoTask
    <3>2. LeftBehind(Runs \ {r}, Starters, Editors)
      <4>1. 0 \notin Starters \cup Editors
        BY ChannelRunsAssumption
      <4> QED
        BY <2>1, <3>1, <4>1, BehindTask, BehindStarter, BehindEditor DEF LeftBehind, ShapeInv
    <3> QED
      BY <1>11, <2>1, <3>1, <3>2 DEF WriteBack, Writes
  <2>2. CASE MayFail /\ task' = [task EXCEPT ![r] = NoTask] /\ blurred' = TRUE
             /\ UNCHANGED <<channel, starter, editor>>
    <3>1. task'[r].at = "none" /\ \A q \in Runs \ {r} : task'[q] = task[q]
      BY <1>1, <2>2 DEF NoTask
    <3> QED
      BY <1>11, <2>2, <3>1 DEF WriteBack, Writes
  <2> QED
    BY <1>11, <2>1, <2>2 DEF WriteBack
<1> QED
  BY <1>4, <1>5, <1>6, <1>7, <1>8, <1>9, <1>10, <1>11
     DEF TaskSteps, Discover, Match, ProviderLimited, Resume, Save, Finish, ReadBack, WriteBack

-----------------------------------------------------------------------------
(***************************************************************************)
(* The runs.                                                               *)
(***************************************************************************)
LEMMA SameRuns ==
    ASSUME Created, \A r \in Runs : row'[r].status = "absent" <=> row[r].status = "absent"
    PROVE  Created' /\ Latest' = Latest
<1>1. Latest' = Latest
  BY LastIs DEF Created
<1> QED
  BY <1>1 DEF Created

LEMMA LastRun == Created /\ Latest # 0 => Latest \in Runs
BY ChannelRunsAssumption DEF Created, Runs

LEMMA RunTask ==
    ASSUME RunInv, NEW r \in Runs, TaskSteps(r)
    PROVE  Created' /\ Latest' = Latest /\ OneRuns' /\ OneStarts' /\ NobodyIsDown' /\ RunningIsWorkedOn'
<1> USE DEF RunInv
<1>1. task[r].outcome \in {"successful", "partial", "failed"} /\ task[r].at # "none"
  <2>1. task[r].outcome \in {"successful", "partial", "failed"}
    BY DEF ShapeInv, Tasks
  <2> QED
    BY <2>1, TaskEffects DEF Works, Ends, Reads, Writes, Working
<1>2. process.up /\ process.recovering = 0
  BY <1>1 DEF NobodyIsDown
<1>3. CASE /\ Works(r) \/ Ends(r) \/ Reads(r)
           /\ UNCHANGED <<channel, starter, editor, process>>
           /\ \A q \in Runs \ {r} : task'[q] = task[q] /\ row'[q] = row[q]
  <2>1. row'[r].status = "absent" <=> row[r].status = "absent"
    BY <1>1, <1>3 DEF Works, Ends, Reads, OneRuns, Running
  <2>2. Created' /\ Latest' = Latest
    BY <1>3, <2>1, SameRuns
  <2>3. row'[r].status = "running" => row[r].status = "running"
    BY <1>1, <1>3 DEF Works, Ends, Reads
  <2>4. OneRuns'
    BY <1>1, <1>3, <2>2, <2>3 DEF OneRuns, Running, Works, Ends, Reads, Working
  <2>5. OneStarts'
    <3>1. \A s \in Starters : Opens(s) => Latest \in Runs /\ Latest # r
      BY <1>1, LastRun DEF OneStarts
    <3>2. \A s \in Starters : Opens(s)' <=> Opens(s)
      BY <1>3 DEF Opens
    <3>3. \A s \in Starters : Opens(s) =>
             row'[Latest].status = "running" /\ task'[Latest].at = "none"
      BY <1>3, <3>1 DEF OneStarts, Running
    <3> QED
      BY <1>3, <2>2, <3>2, <3>3 DEF OneStarts, Running
  <2>6. NobodyIsDown'
    BY <1>2, <1>3 DEF NobodyIsDown
  <2>7. RunningIsWorkedOn'
    BY <1>1, <1>2, <1>3, <2>3 DEF RunningIsWorkedOn, Running, Works, Ends, Reads, Working
  <2> QED
    BY <2>2, <2>4, <2>5, <2>6, <2>7
<1>4. CASE Writes(r) /\ UNCHANGED <<row, stranded, process>>
  <2>1. Created' /\ Latest' = Latest
    BY <1>4, SameRuns
  <2>2. /\ \A q \in Runs \ {r} : task'[q].at = task[q].at /\ task'[q].outcome = task[q].outcome
        /\ \A s \in Starters : starter'[s].at = starter[s].at /\ starter'[s].run = starter[s].run
        /\ task[r].at = "write" /\ task'[r].at = "none"
    <3>1. CASE LeftBehind(Runs \ {r}, Starters, Editors)
      BY <1>4, <3>1 DEF Writes, LeftBehind
    <3>2. CASE UNCHANGED <<channel, starter, editor>> /\ \A q \in Runs \ {r} : task'[q] = task[q]
      BY <1>4, <3>2 DEF Writes
    <3> QED
      BY <1>4, <3>1, <3>2 DEF Writes
  <2>3. OneRuns'
    BY <1>4, <2>1, <2>2 DEF OneRuns, Running, Working
  <2>4. OneStarts'
    <3>1. \A s \in Starters : Opens(s) => Latest \in Runs /\ Latest # r
      BY <1>1, LastRun DEF OneStarts
    <3>2. \A s \in Starters : Opens(s)' <=> Opens(s)
      BY <2>2 DEF Opens
    <3>3. \A s \in Starters : Opens(s) =>
             row'[Latest].status = "running" /\ task'[Latest].at = "none"
      BY <1>4, <2>2, <3>1 DEF OneStarts, Running
    <3> QED
      BY <2>1, <2>2, <3>2, <3>3 DEF OneStarts, Running
  <2>5. NobodyIsDown'
    BY <1>2, <1>4 DEF NobodyIsDown
  <2>6. RunningIsWorkedOn'
    BY <1>2, <1>4, <2>2 DEF RunningIsWorkedOn, Running
  <2> QED
    BY <2>1, <2>3, <2>4, <2>5, <2>6
<1> QED
  BY <1>3, <1>4, TaskEffects

\* A refresh starts: nothing runs when it is created, so nobody else starts one.
LEMMA RunStarter ==
    ASSUME RunInv,
           Tick \/ CheckActive \/ (\E c \in Callers : Request(c))
             \/ \E s \in Starters : StarterSteps(s) \/ StartFails(s)
    PROVE  /\ Created' /\ OneRuns' /\ OneStarts' /\ NobodyIsDown' /\ RunningIsWorkedOn'
           /\ Latest' # Latest => ~blurred' /\ row'[Latest'].status = "running"
<1> USE Blanks DEF RunInv
<1>1. /\ starter \in [Starters -> Opening] /\ row \in [Runs -> Row] /\ task \in [Runs -> Tasks]
      /\ \A s \in Starters : starter[s] \in Opening
  BY DEF ShapeInv
<1>2. ASSUME UNCHANGED <<row, task, process, stranded>>,
             NEW s \in Starters, ~Opens(s), starter[s].at # "done",
             process.up \/ starter[s].at # "idle",
             ~Opens(s)', \A t \in Starters \ {s} : starter'[t] = starter[t]
      PROVE  /\ Created' /\ OneRuns' /\ OneStarts' /\ NobodyIsDown' /\ RunningIsWorkedOn'
             /\ Latest' = Latest
  <2>1. Created' /\ Latest' = Latest
    BY <1>2, SameRuns
  <2>2. process.up
    BY <1>2 DEF NobodyIsDown
  <2>3. OneRuns'
    BY <1>2, <2>1 DEF OneRuns, Running
  <2>4. OneStarts'
    BY <1>2, <2>1 DEF OneStarts, Opens, Running
  <2>5. NobodyIsDown'
    BY <1>2, <2>2 DEF NobodyIsDown
  <2>6. RunningIsWorkedOn'
    BY <1>2, <2>2 DEF RunningIsWorkedOn, Running, Opens
  <2> QED
    BY <2>1, <2>3, <2>4, <2>5, <2>6
<1>3. CASE Tick
  <2>1. Scheduler \in Starters
    BY DEF Starters
  <2>2. \A t \in Starters \ {Scheduler} : starter'[t] = starter[t]
    BY <1>1, <1>3 DEF Tick
  <2>3. starter'[Scheduler].at = "listed"
    BY <1>1, <1>3, <2>1 DEF Tick, Idle
  <2> QED
    BY <1>2, <1>3, <2>1, <2>2, <2>3 DEF Tick, Opens
<1>4. CASE CheckActive
  <2>1. Scheduler \in Starters
    BY DEF Starters
  <2>2. \A t \in Starters \ {Scheduler} : starter'[t] = starter[t]
    BY <1>1, <1>4 DEF CheckActive
  <2>3. starter'[Scheduler].at \in {"checked", "idle"}
    BY <1>1, <1>4, <2>1 DEF CheckActive, Idle, Opening
  <2> QED
    BY <1>2, <1>4, <2>1, <2>2, <2>3 DEF CheckActive, Opens
<1>5. ASSUME NEW c \in Callers, Request(c)
      PROVE  /\ Created' /\ OneRuns' /\ OneStarts' /\ NobodyIsDown' /\ RunningIsWorkedOn'
             /\ Latest' = Latest
  <2>1. c \in Starters
    BY DEF Starters
  <2>2. \A t \in Starters \ {c} : starter'[t] = starter[t]
    BY <1>1, <1>5 DEF Request
  <2>3. starter'[c].at = "checked"
    BY <1>1, <1>5, <2>1 DEF Request, Idle
  <2> QED
    BY <1>2, <1>5, <2>1, <2>2, <2>3 DEF Request, Opens
<1>6. ASSUME NEW s \in Starters, CreateRun(s)
      PROVE  /\ Created' /\ OneRuns' /\ OneStarts' /\ NobodyIsDown' /\ RunningIsWorkedOn'
             /\ Latest' # Latest => ~blurred' /\ row'[Latest'].status = "running"
  <2>1. CASE Refreshable(starter[s].copy) /\ \A r \in Runs : ~Running(r)
    <3> DEFINE n == Latest + 1
    <3>1. n \in Runs /\ Latest \in 0..MaxRuns
      BY <1>6, <2>1, NextRun DEF CreateRun, Created
    <3>2. /\ row' = [row EXCEPT ![n] = [NoRow EXCEPT !.status = "running", !.phase = "discovering"]]
          /\ starter' = [starter EXCEPT ![s].at = "created", ![s].run = n]
          /\ blurred' = FALSE
          /\ UNCHANGED <<task, process, stranded>> /\ starter[s].at = "checked"
      BY <1>6, <2>1 DEF CreateRun
    <3> HIDE DEF n
    <3>3. row'[n].status = "running" /\ \A r \in Runs \ {n} : row'[r] = row[r]
      BY <1>1, <3>1, <3>2 DEF NoRow
    <3>4. \A r \in Runs : row'[r].status = "absent" <=> n < r
      BY <3>1, <3>3, ChannelRunsAssumption DEF Created, Runs, n
    <3>5. Latest' = n
      BY <3>1, <3>4, LastIs, ChannelRunsAssumption DEF Runs
    <3>6. Created'
      BY <3>1, <3>4, <3>5, ChannelRunsAssumption DEF Created, Runs
    <3>7. process.up
      BY <3>2 DEF NobodyIsDown
    <3>8. task[n].at = "none"
      <4>1. row[n].status = "absent"
        BY <3>1, ChannelRunsAssumption DEF Created, Runs, n
      <4>2. task[n].at \notin Working /\ task[n].outcome # "absent"
        <5>1. task[n] \in Tasks
          BY <1>1, <3>1
        <5> QED
          BY <3>1, <4>1, <5>1 DEF OneRuns, Running, Tasks
      <4>3. task[n].at \notin {"read", "write"}
        BY <3>1, <4>1, <4>2 DEF OneRuns, Running
      <4> QED
        BY <1>1, <3>1, <4>2, <4>3 DEF Tasks, Working
    <3>9. OneRuns'
      BY <2>1, <3>1, <3>2, <3>3, <3>5, <3>8 DEF OneRuns, Running, Working
    <3>10. /\ starter'[s].at = "created" /\ starter'[s].run = n
           /\ \A t \in Starters \ {s} : starter'[t] = starter[t]
      BY <1>1, <3>2 DEF Opening
    <3>11. \A t \in Starters : ~Opens(t)
      BY <2>1, LastRun DEF OneStarts
    <3>12. OneStarts'
      <4>1. n # 0
        BY <3>1 DEF Runs
      <4> QED
        <5>1. \A t \in Starters : Opens(t)' => t = s
          BY <3>10, <3>11 DEF Opens
        <5>2. task'[n].at = "none"
          BY <3>2, <3>8
        <5> QED
          BY <3>3, <3>5, <3>10, <4>1, <5>1, <5>2 DEF OneStarts, Running
    <3>13. NobodyIsDown'
      BY <3>2, <3>7 DEF NobodyIsDown
    <3>14. RunningIsWorkedOn'
      BY <2>1, <3>3, <3>10 DEF RunningIsWorkedOn, Running
    <3> QED
      BY <3>2, <3>3, <3>5, <3>6, <3>9, <3>12, <3>13, <3>14
  <2>2. CASE ~(Refreshable(starter[s].copy) /\ \A r \in Runs : ~Running(r))
    <3>1. starter' = [starter EXCEPT ![s] = Ended(s)] /\ UNCHANGED <<row, task, process, stranded>>
      BY <1>6, <2>2 DEF CreateRun
    <3> QED
      BY <1>1, <1>2, <1>6, <3>1 DEF CreateRun, Opens
  <2> QED
    BY <2>1, <2>2
<1>7. ASSUME NEW s \in Starters, ReadForAttempt(s)
      PROVE  /\ Created' /\ OneRuns' /\ OneStarts' /\ NobodyIsDown' /\ RunningIsWorkedOn'
             /\ Latest' = Latest
  <2>1. /\ starter'[s].at = "write" /\ starter'[s].run = starter[s].run
        /\ \A t \in Starters \ {s} : starter'[t] = starter[t]
        /\ starter[s].at = "created" /\ UNCHANGED <<row, task, process, stranded>>
    BY <1>1, <1>7 DEF ReadForAttempt, Opening
  <2>2. \A t \in Starters : (Opens(t)' <=> Opens(t)) /\ starter'[t].run = starter[t].run
    BY <2>1 DEF Opens
  <2>3. Created' /\ Latest' = Latest
    BY <2>1, SameRuns
  <2>4. OneRuns'
    BY <2>1, <2>3 DEF OneRuns, Running
  <2>5. OneStarts'
    BY <2>1, <2>2, <2>3 DEF OneStarts, Running
  <2>6. process.up
    BY <2>1 DEF NobodyIsDown
  <2>7. NobodyIsDown'
    BY <2>1, <2>6 DEF NobodyIsDown
  <2>8. RunningIsWorkedOn'
    BY <2>1, <2>2, <2>6 DEF RunningIsWorkedOn, Running, Opens
  <2> QED
    BY <2>3, <2>4, <2>5, <2>7, <2>8
<1>8. ASSUME NEW s \in Starters, MarkAttempt(s) \/ StartFails(s)
      PROVE  /\ Created' /\ OneRuns' /\ OneStarts' /\ NobodyIsDown' /\ RunningIsWorkedOn'
             /\ Latest' = Latest
  <2>1. /\ Opens(s) /\ Latest \in Runs /\ Running(Latest) /\ starter[s].run = Latest
        /\ task[Latest].at = "none" /\ process.up /\ process.recovering = 0
    BY <1>8, LastRun DEF MarkAttempt, StartFails, Opens, OneStarts, NobodyIsDown
  <2>2. /\ UNCHANGED <<row, process>>
        /\ starter'[s].at \in {"idle", "done"}
        /\ \A t \in Starters \ {s} : starter'[t].at = starter[t].at /\ starter'[t].run = starter[t].run
    BY <1>1, <1>8, BehindStarter DEF MarkAttempt, StartFails
  <2>3. \A r \in Runs \ {Latest} : task'[r].at = task[r].at /\ task'[r].outcome = task[r].outcome
    BY <1>1, <1>8, <2>1, BehindTask DEF MarkAttempt, StartFails
  <2>4. \/ task'[Latest].at = "discover" /\ stranded' = stranded
        \/ task'[Latest].at = "none" /\ stranded' = stranded \cup {Latest}
    BY <1>1, <1>8, <2>1, BehindTask DEF MarkAttempt, StartFails, NoTask
  <2>5. Created' /\ Latest' = Latest
    BY <2>2, SameRuns
  <2>6. OneRuns'
    BY <2>1, <2>2, <2>3, <2>4, <2>5 DEF OneRuns, Running, Working
  <2>7. \A t \in Starters : ~Opens(t)'
    BY <2>1, <2>2 DEF OneStarts, Opens
  <2>8. OneStarts'
    BY <2>7 DEF OneStarts
  <2>9. NobodyIsDown'
    BY <2>1, <2>2 DEF NobodyIsDown
  <2>10. RunningIsWorkedOn'
    BY <2>1, <2>2, <2>3, <2>4 DEF RunningIsWorkedOn, Running, OneRuns
  <2> QED
    BY <2>5, <2>6, <2>8, <2>9, <2>10
<1> QED
  BY <1>3, <1>4, <1>5, <1>6, <1>7, <1>8 DEF StarterSteps

LEMMA RunEditor ==
    ASSUME RunInv, NEW e \in Editors, ReadForUpdate(e) \/ Update(e)
    PROVE  Created' /\ Latest' = Latest /\ OneRuns' /\ OneStarts' /\ NobodyIsDown' /\ RunningIsWorkedOn'
<1> USE DEF RunInv
<1>1. /\ starter \in [Starters -> Opening] /\ task \in [Runs -> Tasks]
      /\ UNCHANGED <<row, process, stranded>>
  BY DEF ShapeInv, ReadForUpdate, Update
<1>2. /\ \A r \in Runs : task'[r].at = task[r].at /\ task'[r].outcome = task[r].outcome
      /\ \A s \in Starters : starter'[s].at = starter[s].at /\ starter'[s].run = starter[s].run
  <2>1. \/ UNCHANGED <<task, starter>>
        \/ task' = Behind(task, 0) /\ starter' = Behind(starter, 0)
    BY DEF ReadForUpdate, Update
  <2>2. CASE task' = Behind(task, 0) /\ starter' = Behind(starter, 0)
    BY <1>1, <2>2, BehindTask, BehindStarter
  <2> QED
    BY <2>1, <2>2
<1>3. process.up
  BY DEF ReadForUpdate, Update, NobodyIsDown
<1>4. Created' /\ Latest' = Latest
  BY <1>1, SameRuns
<1>5. OneRuns'
  BY <1>1, <1>2, <1>4 DEF OneRuns, Running
<1>6. OneStarts'
  <2>1. \A s \in Starters : Opens(s) => Latest \in Runs
    BY LastRun DEF OneStarts
  <2> QED
    BY <1>1, <1>2, <1>4, <2>1 DEF OneStarts, Running, Opens
<1>7. NobodyIsDown'
  BY <1>1, <1>3 DEF NobodyIsDown
<1>8. RunningIsWorkedOn'
  BY <1>1, <1>2 DEF RunningIsWorkedOn, Running
<1> QED
  BY <1>4, <1>5, <1>6, <1>7, <1>8

\* A crash leaves rows only, and the next start finishes them before it serves.
LEMMA RunProcess ==
    ASSUME RunInv, Clock \/ Crash \/ Recovery \/ UNCHANGED vars
    PROVE  Created' /\ Latest' = Latest /\ OneRuns' /\ OneStarts' /\ NobodyIsDown' /\ RunningIsWorkedOn'
<1> USE DEF RunInv
<1>1. CASE UNCHANGED <<row, task, starter, editor, process, stranded>>
  <2>1. Created' /\ Latest' = Latest
    BY <1>1, SameRuns
  <2> QED
    BY <1>1, <2>1 DEF OneRuns, OneStarts, Opens, NobodyIsDown, RunningIsWorkedOn, Running
<1>2. CASE Crash
  <2>1. /\ UNCHANGED <<row, stranded>> /\ ~process'.up /\ process'.recovering = 0
        /\ \A r \in Runs : task'[r].at = "none"
        /\ \A s \in Starters : starter'[s].at \in {"idle", "done"}
        /\ \A e \in Editors : editor'[e].at \in {"idle", "done"}
    <3>1. \A r \in Runs : task'[r].at = "none"
      BY <1>2 DEF Crash, NoTask
    <3>2. \A s \in Starters : starter'[s].at \in {"idle", "done"}
      BY <1>2, Blanks DEF Crash, Idle
    <3>3. \A e \in Editors : editor'[e].at \in {"idle", "done"}
      BY <1>2 DEF Crash, NoEdit
    <3> QED
      BY <1>2, <3>1, <3>2, <3>3 DEF Crash
  <2>2. Created' /\ Latest' = Latest
    BY <2>1, SameRuns
  <2> QED
    BY <2>1, <2>2 DEF OneRuns, OneStarts, Opens, NobodyIsDown, RunningIsWorkedOn, Running, Working
<1>3. ASSUME NEW r \in Runs, RecoverRun(r)
      PROVE  Created' /\ Latest' = Latest /\ OneRuns' /\ OneStarts' /\ NobodyIsDown' /\ RunningIsWorkedOn'
  <2>1. /\ row'[r].status = "failed" /\ \A q \in Runs \ {r} : row'[q] = row[q]
        /\ process' = [process EXCEPT !.recovering = r]
        /\ UNCHANGED <<task, starter, editor, stranded>>
        /\ row[r].status = "running" /\ ~process.up
    BY <1>3 DEF RecoverRun, ShapeInv, Row, Running
  <2>2. Created' /\ Latest' = Latest
    BY <2>1, SameRuns
  <2>3. r = Latest /\ ~process'.up /\ process'.recovering = r
    BY <2>1 DEF OneRuns, Running, ShapeInv, Process
  <2>4. OneRuns'
    BY <2>1, <2>2 DEF OneRuns, Running, NobodyIsDown, Working
  <2>5. OneStarts'
    BY <2>1 DEF OneStarts, Opens, NobodyIsDown
  <2>6. NobodyIsDown'
    BY <2>1, <2>2, <2>3 DEF NobodyIsDown
  <2> QED
    BY <2>2, <2>3, <2>4, <2>5, <2>6 DEF RunningIsWorkedOn
<1>4. CASE RecoverChannel \/ Serve
  <2>1. UNCHANGED <<row, task, starter, editor, stranded>> /\ ~process.up
    BY <1>4 DEF RecoverChannel, Serve, NobodyIsDown
  <2>2. Created' /\ Latest' = Latest
    BY <2>1, SameRuns
  <2>3. process'.recovering = 0 /\ (process'.up => \A r \in Runs : ~Running(r))
    BY <1>4, <2>1 DEF RecoverChannel, Serve, ShapeInv, Process
  <2>4. OneRuns' /\ OneStarts'
    BY <2>1, <2>2 DEF OneRuns, OneStarts, Opens, Running
  <2>5. NobodyIsDown'
    BY <2>1, <2>3 DEF NobodyIsDown
  <2>6. RunningIsWorkedOn'
    BY <2>1, <2>3 DEF RunningIsWorkedOn, Running
  <2> QED
    BY <2>2, <2>4, <2>5, <2>6
<1> QED
  BY <1>1, <1>2, <1>3, <1>4 DEF Clock, Recovery, vars

LEMMA RunInit == Init => RunInv
<1> SUFFICES ASSUME Init PROVE RunInv
  OBVIOUS
<1>1. /\ \A r \in Runs : row[r].status = "absent" /\ task[r].at = "none"
      /\ \A s \in Starters : starter[s].at = "idle"
      /\ process.up /\ process.recovering = 0
  BY DEF Init, NoRow, NoTask, Idle
<1>2. Latest = 0
  BY <1>1, LastIs, ChannelRunsAssumption DEF Runs
<1>3. Created
  BY <1>1, <1>2, ChannelRunsAssumption DEF Created, Runs
<1> QED
  BY <1>1, <1>3, ShapeInit
     DEF RunInv, OneRuns, OneStarts, Opens, NobodyIsDown, RunningIsWorkedOn, Running, Working

LEMMA RunNext == RunInv /\ [Next]_vars => RunInv'
<1> SUFFICES ASSUME RunInv, [Next]_vars PROVE RunInv'
  OBVIOUS
<1>1. ShapeInv'
  BY ShapeNext DEF RunInv
<1>2. Created' /\ OneRuns' /\ OneStarts' /\ NobodyIsDown' /\ RunningIsWorkedOn'
  BY RunTask, RunStarter, RunEditor, RunProcess DEF Next
<1> QED
  BY <1>1, <1>2 DEF RunInv

\* While the process serves, a run its row calls running is being started or
\* worked on, unless a failed query took the task from it: a crash leaves none
\* behind (create_channel_run, refresh_channel, recover_channel_runs).
THEOREM RunningRunsAreWorkedOn == Spec => []RunningIsWorkedOn
<1>1. RunInv => RunningIsWorkedOn
  BY DEF RunInv
<1> QED
  BY <1>1, RunInit, RunNext, PTL DEF Spec

-----------------------------------------------------------------------------
(***************************************************************************)
(* The channel.                                                            *)
(***************************************************************************)
LEMMA ShownFrame ==
    ASSUME EndIsShown, Latest' = Latest, UNCHANGED process, blurred => blurred',
           Latest # 0 => row'[Latest].status = row[Latest].status,
           Latest # 0 /\ task[Latest].at \in {"read", "write"} =>
              task'[Latest].at \in {"read", "write"} \/ blurred',
           channel'.error = channel.error, channel'.failures = channel.failures,
           channel'.success = channel.success
    PROVE  EndIsShown'
BY DEF EndIsShown, Shows, Running

\* Those that hold the channel go on holding it.
LEMMA CurrentFrame ==
    ASSUME CopiesAreCurrent, UNCHANGED channel
    PROVE  /\ UNCHANGED task => \A r \in Runs : Current(task[r])'
           /\ UNCHANGED starter => \A s \in Starters : Current(starter[s])'
           /\ UNCHANGED editor => \A e \in Editors : Current(editor[e])'
BY DEF CopiesAreCurrent, Current

LEMMA BookTask ==
    ASSUME BookInv, NEW r \in Runs, TaskSteps(r)
    PROVE  CopiesAreCurrent' /\ EndIsShown'
<1> USE DEF BookInv
<1>0. RunInv /\ ShapeInv /\ OneRuns
  BY DEF RunInv
<1>1. Latest' = Latest /\ UNCHANGED process /\ (Latest # 0 => Latest \in Runs)
  BY <1>0, RunTask, TaskEffects, LastRun DEF RunInv
<1>2. CASE /\ Works(r) \/ Ends(r) \/ Reads(r)
           /\ UNCHANGED <<channel, starter, editor>>
           /\ \A q \in Runs \ {r} : task'[q] = task[q] /\ row'[q] = row[q]
  <2>1. CopiesAreCurrent'
    <3>1. task'[r].at = "write" => task'[r].copy = channel
      BY <1>2 DEF Works, Ends, Reads, Working
    <3> QED
      BY <1>2, <3>1, CurrentFrame DEF CopiesAreCurrent, Current
  <2>2. EndIsShown'
    <3>1. CASE r # Latest
      BY <1>1, <1>2, <3>1, ShownFrame DEF Works, Ends, Reads
    <3>2. CASE r = Latest
      BY <1>0, <1>1, <1>2, <3>2 DEF Works, Ends, Reads, EndIsShown, OneRuns, Running
    <3> QED
      BY <3>1, <3>2
  <2> QED
    BY <2>1, <2>2
<1>3. CASE Writes(r) /\ UNCHANGED row
  <2>1. CASE /\ channel' = Outcome(task[r].copy, task[r].outcome)
             /\ LeftBehind(Runs \ {r}, Starters, Editors)
             /\ task[r].behind \/ r # Latest => blurred'
    <3>1. CopiesAreCurrent'
      BY <1>3, <2>1 DEF Writes, LeftBehind, CopiesAreCurrent, Current
    <3>2. ASSUME ~blurred', ~Running(Latest)
          PROVE  Shows(row[Latest].status)'
      <4>1. r = Latest /\ task[r].copy = channel /\ row[r].status = task[r].outcome
        BY <1>0, <1>3, <2>1, <3>2 DEF Writes, CopiesAreCurrent, Current, OneRuns
      <4>2. channel' = Outcome(channel, task[r].outcome)
        BY <2>1, <4>1
      <4>3. channel \in Book /\ now \in Times \ {Never}
            /\ task[r].outcome \in {"successful", "partial", "failed"}
        BY <1>0 DEF ShapeInv, Tasks
      <4> QED
        <5>1. /\ row[r].status = "failed" => channel'.error /\ channel'.failures > 0
              /\ row[r].status # "failed" => ~channel'.error /\ channel'.failures = 0
              /\ row[r].status = "successful" => channel'.success # Never
          BY <4>1, <4>2, <4>3, OutcomeColumns
        <5>2. row'[Latest'].status \in {"successful", "partial", "failed"}
              /\ row'[Latest'].status = row[r].status
          BY <1>1, <1>3, <4>1, <4>3
        <5> QED
          BY <5>1, <5>2 DEF Shows
    <3> QED
      BY <1>1, <1>3, <3>1, <3>2 DEF EndIsShown, Running
  <2>2. CASE /\ UNCHANGED <<channel, starter, editor>> /\ blurred'
             /\ \A q \in Runs \ {r} : task'[q] = task[q]
    BY <1>3, <2>2, CurrentFrame DEF Writes, CopiesAreCurrent, Current, EndIsShown
  <2> QED
    BY <1>3, <2>1, <2>2 DEF Writes
<1> QED
  BY <1>0, <1>2, <1>3, TaskEffects

LEMMA BookStarter ==
    ASSUME BookInv,
           Tick \/ CheckActive \/ (\E c \in Callers : Request(c))
             \/ \E s \in Starters : StarterSteps(s) \/ StartFails(s)
    PROVE  CopiesAreCurrent' /\ EndIsShown'
<1> USE Blanks DEF BookInv
<1>0. RunInv /\ starter \in [Starters -> Opening] /\ \A s \in Starters : starter[s] \in Opening
  BY DEF RunInv, ShapeInv
<1>1. Latest' # Latest => ~blurred' /\ row'[Latest'].status = "running"
  BY <1>0, RunStarter
<1>2. ASSUME UNCHANGED <<channel, task, editor, process>>, Latest' = Latest => UNCHANGED <<row, blurred>>,
             NEW s \in Starters, \A t \in Starters \ {s} : starter'[t] = starter[t],
             starter'[s].at = "write" => starter'[s].copy = channel
      PROVE  CopiesAreCurrent' /\ EndIsShown'
  <2>1. CopiesAreCurrent'
    BY <1>2, CurrentFrame DEF CopiesAreCurrent, Current
  <2>2. EndIsShown'
    <3>1. CASE Latest' = Latest
      BY <1>2, <3>1, ShownFrame
    <3>2. CASE Latest' # Latest
      BY <1>1, <3>2 DEF EndIsShown, Running
    <3> QED
      BY <3>1, <3>2
  <2> QED
    BY <2>1, <2>2
<1>3. CASE Tick
  <2>1. Scheduler \in Starters
    BY DEF Starters
  <2>2. /\ \A t \in Starters \ {Scheduler} : starter'[t] = starter[t]
        /\ starter'[Scheduler].at = "listed"
    BY <1>0, <1>3, <2>1 DEF Tick, Idle
  <2> QED
    BY <1>2, <1>3, <2>1, <2>2 DEF Tick
<1>4. CASE CheckActive
  <2>1. Scheduler \in Starters
    BY DEF Starters
  <2>2. /\ \A t \in Starters \ {Scheduler} : starter'[t] = starter[t]
        /\ starter'[Scheduler].at \in {"checked", "idle"}
    BY <1>0, <1>4, <2>1 DEF CheckActive, Idle, Opening
  <2> QED
    BY <1>2, <1>4, <2>1, <2>2 DEF CheckActive
<1>5. ASSUME NEW c \in Callers, Request(c)
      PROVE  CopiesAreCurrent' /\ EndIsShown'
  <2>1. c \in Starters
    BY DEF Starters
  <2>2. /\ \A t \in Starters \ {c} : starter'[t] = starter[t]
        /\ starter'[c].at = "checked"
    BY <1>0, <1>5, <2>1 DEF Request, Idle
  <2> QED
    BY <1>2, <1>5, <2>1, <2>2 DEF Request
<1>6. ASSUME NEW s \in Starters, CreateRun(s)
      PROVE  CopiesAreCurrent' /\ EndIsShown'
  <2>1. CASE Refreshable(starter[s].copy) /\ \A r \in Runs : ~Running(r)
    <3>1. starter' = [starter EXCEPT ![s].at = "created", ![s].run = Latest + 1]
          /\ UNCHANGED <<channel, task, editor, process>>
      BY <1>6, <2>1 DEF CreateRun
    <3>2. starter'[s].at = "created" /\ \A t \in Starters \ {s} : starter'[t] = starter[t]
      BY <1>0, <3>1 DEF Opening
    <3>3. Latest' # Latest
      <4>1. row' = [row EXCEPT ![Latest + 1] = [NoRow EXCEPT !.status = "running", !.phase = "discovering"]]
            /\ Latest + 1 \in Runs
        BY <1>0, <1>6, <2>1, NextRun DEF CreateRun, RunInv
      <4>2. row'[Latest + 1].status = "running"
        BY <4>1, <1>0 DEF NoRow, RunInv, ShapeInv
      <4>3. Created' /\ Latest \in Nat
        BY <1>0, RunStarter DEF RunInv, Created
      <4> QED
        BY <4>1, <4>2, <4>3 DEF Created
    <3> QED
      BY <1>2, <3>1, <3>2, <3>3
  <2>2. CASE ~(Refreshable(starter[s].copy) /\ \A r \in Runs : ~Running(r))
    <3>1. starter' = [starter EXCEPT ![s] = Ended(s)]
          /\ UNCHANGED <<channel, row, task, editor, process, blurred>>
      BY <1>6, <2>2 DEF CreateRun
    <3> QED
      BY <1>0, <1>2, <3>1
  <2> QED
    BY <2>1, <2>2
<1>7. ASSUME NEW s \in Starters, ReadForAttempt(s)
      PROVE  CopiesAreCurrent' /\ EndIsShown'
  <2>1. starter'[s].copy = channel /\ \A t \in Starters \ {s} : starter'[t] = starter[t]
    BY <1>0, <1>7 DEF ReadForAttempt, Opening
  <2> QED
    BY <1>2, <1>7, <2>1 DEF ReadForAttempt
<1>8. ASSUME NEW s \in Starters, MarkAttempt(s) \/ StartFails(s)
      PROVE  EndIsShown'
  <2>1. Latest # 0 /\ row[Latest].status = "running" /\ UNCHANGED row
    BY <1>0, <1>8 DEF MarkAttempt, StartFails, RunInv, OneStarts, Opens, Running
  <2>2. Latest' = Latest
    BY <1>0, <2>1, SameRuns DEF RunInv
  <2> QED
    BY <2>1, <2>2 DEF EndIsShown, Running
<1>9. ASSUME NEW s \in Starters, MarkAttempt(s)
      PROVE  CopiesAreCurrent'
  <2>1. s \notin Editors /\ 0 \notin Runs /\ starter[s].run \in Runs
    BY <1>0, <1>9, NextRun, ChannelRunsAssumption DEF Runs, RunInv, MarkAttempt, Opens
  <2>2. LeftBehind(Runs \ {starter[s].run}, Starters \ {s}, Editors)
    BY <1>0, <1>9, <2>1, BehindTask, BehindStarter, BehindEditor
       DEF MarkAttempt, LeftBehind, RunInv, ShapeInv
  <2>3. task'[starter[s].run].at = "discover" /\ starter'[s].at \in {"idle", "done"}
    BY <1>0, <1>9, <2>1, BehindTask, BehindStarter DEF MarkAttempt, RunInv, ShapeInv, NoTask
  <2> QED
    BY <2>2, <2>3 DEF LeftBehind, CopiesAreCurrent, Current
<1>10. ASSUME NEW s \in Starters, StartFails(s)
       PROVE  CopiesAreCurrent'
  <2>1. starter'[s].at \in {"idle", "done"} /\ \A t \in Starters \ {s} : starter'[t] = starter[t]
    BY <1>0, <1>10 DEF StartFails
  <2> QED
    BY <1>10, <2>1, CurrentFrame DEF StartFails, CopiesAreCurrent, Current
<1> QED
  BY <1>3, <1>4, <1>5, <1>6, <1>7, <1>8, <1>9, <1>10 DEF StarterSteps

LEMMA BookEditor ==
    ASSUME BookInv, NEW e \in Editors, ReadForUpdate(e) \/ Update(e)
    PROVE  CopiesAreCurrent' /\ EndIsShown'
<1> USE Blanks DEF BookInv
<1>0. RunInv /\ ShapeInv
  BY DEF RunInv
<1>1. Latest' = Latest /\ UNCHANGED <<row, process>>
  BY <1>0, RunEditor DEF ReadForUpdate, Update
<1>2. CASE ReadForUpdate(e)
  <2>1. PICK enabled, name :
           editor' = [editor EXCEPT ![e] = [at |-> "write", enabled |-> enabled,
                         name |-> name, copy |-> channel, behind |-> FALSE]]
    BY <1>2 DEF ReadForUpdate
  <2>2. editor'[e].copy = channel /\ \A f \in Editors \ {e} : editor'[f] = editor[f]
    BY <1>0, <2>1 DEF ShapeInv
  <2>3. CopiesAreCurrent'
    <3>1. /\ \A r \in Runs : Current(task[r])'
          /\ \A s \in Starters : Current(starter[s])'
      BY <1>2, CurrentFrame DEF ReadForUpdate
    <3>2. \A f \in Editors : Current(editor[f])'
      BY <1>2, <2>2 DEF ReadForUpdate, CopiesAreCurrent, Current
    <3> QED
      BY <3>1, <3>2 DEF CopiesAreCurrent
  <2> QED
    BY <1>1, <1>2, <2>3, ShownFrame DEF ReadForUpdate
<1>3. CASE Update(e)
  <2> DEFINE renamed == editor[e].name # editor[e].copy.name
  <2>1. /\ editor[e].at = "write" /\ editor[e].copy \in Book /\ renamed \in BOOLEAN
        /\ editor[e].enabled \in BOOLEAN /\ editor[e].name \in Names
        /\ channel \in Book /\ now \in Times \ {Never}
    BY <1>0, <1>3 DEF Update, ShapeInv, Editing
  <2>2. /\ channel' = [editor[e].copy EXCEPT
                !.enabled = editor[e].enabled, !.name = editor[e].name,
                !.error = @ /\ ~renamed, !.failures = IF renamed THEN 0 ELSE @]
        /\ blurred' = (blurred \/ editor[e].behind \/ renamed)
    BY <1>3 DEF Update
  <2> HIDE DEF renamed
  <2>3. /\ LeftBehind(Runs, Starters, Editors \ {e})
        /\ editor'[e].at = "done"
    <3>1. 0 \notin Runs /\ 0 \notin Starters
      BY ChannelRunsAssumption DEF Runs
    <3>2. NoEdit \in Editing /\ [NoEdit EXCEPT !.at = "done"].at = "done"
      BY DEF NoEdit
    <3> QED
      BY <1>0, <1>3, <3>1, <3>2, BehindTask, BehindStarter, BehindEditor DEF Update, LeftBehind, ShapeInv
  <2>4. CopiesAreCurrent'
    BY <2>3 DEF LeftBehind, CopiesAreCurrent, Current
  <2>5. ASSUME ~blurred'
        PROVE  /\ channel'.error = channel.error /\ channel'.failures = channel.failures
               /\ channel'.success = channel.success
    <3>1. ~renamed /\ editor[e].copy = channel
      BY <2>1, <2>2, <2>5 DEF CopiesAreCurrent, Current
    <3> QED
      <4>1. channel' = [channel EXCEPT !.enabled = editor[e].enabled, !.name = editor[e].name,
                                       !.error = @ /\ ~renamed,
                                       !.failures = IF renamed THEN 0 ELSE @]
        BY <2>2, <3>1
      <4> QED
        BY <2>1, <3>1, <4>1 DEF Book
  <2>6. EndIsShown'
    <3>1. CASE blurred'
      BY <3>1 DEF EndIsShown
    <3>2. CASE ~blurred'
      <4>1. Latest # 0 => task'[Latest].at = task[Latest].at
        BY <1>0, <2>3, LastRun DEF LeftBehind, RunInv
      <4> QED
        BY <1>1, <2>2, <2>5, <3>2, <4>1, ShownFrame
    <3> QED
      BY <3>1, <3>2
  <2> QED
    BY <2>4, <2>6
<1> QED
  BY <1>2, <1>3

LEMMA BookProcess ==
    ASSUME BookInv, Clock \/ Crash \/ Recovery \/ UNCHANGED vars
    PROVE  CopiesAreCurrent' /\ EndIsShown'
<1> USE DEF BookInv
<1>0. RunInv /\ ShapeInv /\ Latest' = Latest /\ NobodyIsDown /\ (Latest # 0 => Latest \in Runs)
  BY RunProcess, LastRun DEF RunInv
<1>1. CASE UNCHANGED <<channel, row, task, starter, editor, process, blurred>>
  BY <1>0, <1>1, ShownFrame, CurrentFrame DEF CopiesAreCurrent
<1>2. CASE Crash
  <2>1. /\ \A r \in Runs : task'[r].at = "none"
        /\ \A s \in Starters : starter'[s].at # "write"
        /\ \A e \in Editors : editor'[e].at # "write"
    <3>1. \A s \in Starters : starter'[s].at # "write"
      BY <1>2, Blanks DEF Crash, Idle
    <3>2. \A e \in Editors : editor'[e].at # "write"
      BY <1>2 DEF Crash, NoEdit
    <3> QED
      BY <1>2, <3>1, <3>2 DEF Crash, NoTask
  <2>2. CopiesAreCurrent'
    BY <2>1 DEF CopiesAreCurrent, Current
  <2>3. ASSUME ~blurred', Latest # 0
        PROVE  ~blurred /\ process.recovering # Latest /\ task[Latest].at \notin {"read", "write"}
    BY <1>0, <1>2, <2>3 DEF Crash
  <2> QED
    BY <1>0, <1>2, <2>2, <2>3 DEF Crash, EndIsShown, Shows, Running
<1>3. ASSUME NEW r \in Runs, RecoverRun(r)
      PROVE  CopiesAreCurrent' /\ EndIsShown'
  <2>1. CopiesAreCurrent'
    BY <1>3, CurrentFrame DEF RecoverRun, CopiesAreCurrent
  <2>2. process'.recovering = r /\ r = Latest
    BY <1>0, <1>3 DEF RecoverRun, ShapeInv, Process, RunInv, OneRuns
  <2> QED
    BY <1>0, <2>1, <2>2 DEF EndIsShown
<1>4. CASE RecoverChannel
  <2>1. /\ ~process.up /\ process.recovering = Latest /\ row'[Latest].status = "failed"
        /\ UNCHANGED <<row, task, starter, editor, blurred>> /\ channel' = Outcome(channel, "failed")
    BY <1>0, <1>4 DEF RecoverChannel, NobodyIsDown
  <2>2. CopiesAreCurrent'
    BY <1>0, <2>1 DEF NobodyIsDown, CopiesAreCurrent, Current
  <2>3. channel'.error /\ channel'.failures > 0
    BY <1>0, <2>1, OutcomeColumns DEF ShapeInv
  <2>4. Shows(row[Latest].status)'
    BY <1>0, <2>1, <2>3 DEF Shows
  <2> QED
    BY <2>2, <2>4 DEF EndIsShown
<1>5. CASE Serve
  <2>1. CopiesAreCurrent'
    BY <1>5, CurrentFrame DEF Serve, CopiesAreCurrent
  <2>2. process'.recovering = process.recovering
    BY <1>0, <1>5 DEF Serve, ShapeInv, Process
  <2> QED
    BY <1>0, <1>5, <2>1, <2>2 DEF Serve, EndIsShown, Shows, Running
<1> QED
  BY <1>1, <1>2, <1>3, <1>4, <1>5 DEF Clock, Recovery, vars

LEMMA BookInit == Init => BookInv
<1> SUFFICES ASSUME Init PROVE BookInv
  OBVIOUS
<1>1. RunInv
  BY RunInit
<1>2. CopiesAreCurrent
  BY DEF Init, CopiesAreCurrent, Current, NoTask, Idle, NoEdit
<1>3. Latest = 0
  BY LastIs, ChannelRunsAssumption DEF Init, NoRow, Runs
<1> QED
  BY <1>1, <1>2, <1>3 DEF BookInv, EndIsShown

LEMMA BookNext == BookInv /\ [Next]_vars => BookInv'
<1> SUFFICES ASSUME BookInv, [Next]_vars PROVE BookInv'
  OBVIOUS
<1>1. RunInv'
  BY RunNext DEF BookInv
<1>2. CopiesAreCurrent' /\ EndIsShown'
  BY BookTask, BookStarter, BookEditor, BookProcess DEF Next
<1> QED
  BY <1>1, <1>2 DEF BookInv

\* When nothing is going on, the channel shows how its last run ended, also when
\* a restart ended it, unless a write of the channel was lost or overwritten by
\* one that had read it before (refresh_channel, recover_channel_runs,
\* put_channel).
THEOREM OutcomesAreShown == Spec => []OutcomeIsShown
<1>1. BookInv => OutcomeIsShown
  <2> SUFFICES ASSUME BookInv, process.up, \A r \in Runs : task[r].at = "none",
                      \A s \in Starters : starter[s].at \in {"idle", "done"},
                      ~blurred, Latest # 0
               PROVE  CASE row[Latest].status = "failed" -> channel.error /\ channel.failures > 0
                        [] row[Latest].status = "partial" -> ~channel.error /\ channel.failures = 0
                        [] row[Latest].status = "successful" ->
                              ~channel.error /\ channel.failures = 0 /\ channel.success # Never
                        [] OTHER -> Latest \in stranded
    BY DEF OutcomeIsShown
  <2>1. Latest \in Runs /\ row[Latest] \in Row
    BY LastRun DEF BookInv, RunInv, ShapeInv
  <2>2. row[Latest].status \in {"running", "successful", "partial", "failed"}
    BY <2>1 DEF BookInv, RunInv, Created, Row, Runs
  <2>3. CASE Running(Latest)
    BY <2>1, <2>3 DEF BookInv, RunInv, RunningIsWorkedOn, Running
  <2>4. CASE ~Running(Latest)
    <3>1. Shows(row[Latest].status)
      BY <2>1, <2>4 DEF BookInv, RunInv, EndIsShown, NobodyIsDown
    <3> QED
      BY <2>2, <2>4, <3>1 DEF Shows, Running
  <2> QED
    BY <2>3, <2>4
<1> QED
  BY <1>1, BookInit, BookNext, PTL DEF Spec

\* Only update_channel changes the settings: the bookkeeping of a run can undo a
\* change only when that change was written between its read and its write.
THEOREM SettingsAreKept == Spec => SettingsHold
<1>1. ASSUME BookInv, Next
      PROVE  \/ channel'.enabled = channel.enabled /\ channel'.name = channel.name
             \/ \E e \in Editors : editor[e].at = "write" /\ editor'[e].at = "done"
             \/ \E s \in Starters : starter[s].behind /\ starter'[s].at # "write"
             \/ \E r \in Runs : task[r].behind /\ task'[r].at = "none"
  <2>0. ShapeInv /\ channel \in Book /\ now \in Times \ {Never}
    BY <1>1 DEF BookInv, RunInv, ShapeInv
  <2>1. ASSUME NEW s \in Starters, MarkAttempt(s), ~starter[s].behind
        PROVE  channel'.enabled = channel.enabled /\ channel'.name = channel.name
    <3>1. starter[s].copy = channel
      BY <1>1, <2>1 DEF MarkAttempt, BookInv, CopiesAreCurrent, Current
    <3>2. channel' = [channel EXCEPT !.attempt = now, !.error = FALSE]
      BY <2>1, <3>1 DEF MarkAttempt
    <3> QED
      BY <2>0, <3>2, TriedColumns
  <2>2. ASSUME NEW s \in Starters, MarkAttempt(s)
        PROVE  starter'[s].at # "write"
    BY <2>0, <2>2, Blanks, BehindStarter DEF MarkAttempt, ShapeInv
  <2>3. ASSUME NEW r \in Runs, WriteBack(r)
        PROVE  \/ channel'.enabled = channel.enabled /\ channel'.name = channel.name
               \/ task[r].behind /\ task'[r].at = "none"
    <3>1. task'[r].at = "none"
      BY <2>0, <2>3, BehindTask DEF WriteBack, ShapeInv, NoTask
    <3>2. channel' = channel \/ channel' = Outcome(task[r].copy, task[r].outcome)
      BY <2>3 DEF WriteBack
    <3>3. task[r].behind \/ task[r].copy = channel
      BY <1>1, <2>3 DEF WriteBack, BookInv, CopiesAreCurrent, Current
    <3>4. task[r].outcome \in {"successful", "partial", "failed"}
      BY <2>0 DEF ShapeInv, Tasks
    <3> QED
      BY <2>0, <3>1, <3>2, <3>3, <3>4, OutcomeColumns
  <2>4. ASSUME NEW e \in Editors, Update(e)
        PROVE  editor[e].at = "write" /\ editor'[e].at = "done"
    <3>1. [NoEdit EXCEPT !.at = "done"].at = "done"
      BY DEF NoEdit
    <3> QED
      <4>1. editor' = [Behind(editor, e) EXCEPT ![e] = [NoEdit EXCEPT !.at = "done"]]
            /\ editor[e].at = "write" /\ Behind(editor, e) \in [Editors -> Editing]
        BY <2>0, <2>4, BehindEditor DEF Update, ShapeInv
      <4> QED
        BY <3>1, <4>1
  <2>5. RecoverChannel => channel'.enabled = channel.enabled /\ channel'.name = channel.name
    BY <2>0, OutcomeColumns DEF RecoverChannel
  <2>6. \/ UNCHANGED channel \/ RecoverChannel
        \/ \E s \in Starters : MarkAttempt(s)
        \/ \E r \in Runs : WriteBack(r)
        \/ \E e \in Editors : Update(e)
    BY <1>1 DEF Next, Tick, CheckActive, Request, StarterSteps, CreateRun, ReadForAttempt, StartFails,
                TaskSteps, Discover, Match, ProviderLimited, Resume, Save, Finish, ReadBack,
                ReadForUpdate, Clock, Crash, Recovery, RecoverRun, Serve
  <2> QED
    BY <2>1, <2>2, <2>3, <2>4, <2>5, <2>6
<1> QED
  <2>1. BookInv /\ [Next]_vars =>
           [ \/ channel'.enabled = channel.enabled /\ channel'.name = channel.name
             \/ \E e \in Editors : editor[e].at = "write" /\ editor'[e].at = "done"
             \/ \E s \in Starters : starter[s].behind /\ starter'[s].at # "write"
             \/ \E r \in Runs : task[r].behind /\ task'[r].at = "none" ]_vars
    BY <1>1
  <2> QED
    BY <2>1, BookInit, BookNext, PTL DEF Spec, SettingsHold

-----------------------------------------------------------------------------
(***************************************************************************)
(* LibraryAssets.                                                          *)
(***************************************************************************)
Stages == {"idle", "upsert", "delete", "sources", "ensure", "decide", "admit", "prune",
           "commit", "remove"}
Places == {"none", "fetching", "stored", "complete", "error"}
Decided == {"none", "preparing", "blocked", "published"}
Workings == [at : Places, last : BOOLEAN, told : BOOLEAN]
Files == {Bytes[s] : s \in Sources}

(***************************************************************************)
(* The variables AssetsTypeOK leaves out, and the jobs: a job that has the *)
(* holder of a lease is running, and one that is going to run has an       *)
(* attempt left.                                                           *)
(***************************************************************************)
AssetRuns == [at : Stages, wanted : [Owners -> Sources \cup {None}], sources : SUBSET Sources,
              held : SUBSET Releases, decided : [Releases -> Decided],
              candidates : SUBSET Sources, theirs : SUBSET Files, removable : SUBSET Files]

JobOK ==
    \A s \in Sources :
        /\ worker["holder"][s].at # "none" <=> job[s].state = "running"
        /\ job[s].state \in Live => job[s].attempts < MaxAttempts

AssetsInv == AssetsTypeOK /\ run \in AssetRuns /\ JobOK

(***************************************************************************)
(* The files.  What the prune has given up and an artwork has or is about  *)
(* to have is raced, so what it removes is nobody else's; and a stored     *)
(* artwork's row names its file, which keeps the prune from giving it up.  *)
(***************************************************************************)
Holds(s) == asset[s] = "ready" \/ \E e \in Executions : worker[e][s].at = "stored"

RemovableIsFree == \A s \in Sources : Bytes[s] \in run.removable /\ Holds(s) => s \in raced

HasFile == \A s \in Sources : Holds(s) => Bytes[s] \in files \/ s \in raced

ReadyIsNamed == \A s \in Sources : asset[s] = "ready" => s \in named

FileInv == AssetsInv /\ RemovableIsFree /\ HasFile /\ ReadyIsNamed

(***************************************************************************)
(* The jobs.  A holder of the lease knows which attempt is its last, and   *)
(* one that is about to end its job and has told the row has settled it,   *)
(* unless somebody without the lease wrote the row since.                  *)
(***************************************************************************)
Ending(s) ==
    LET work == worker["holder"][s] IN
    work.told /\ (work.at = "complete" \/ (work.at = "error" /\ work.last))

EndIsRecorded ==
    \A s \in Sources :
        /\ worker["holder"][s].told => worker["holder"][s].at \in {"complete", "error"}
        /\ job[s].state = "running" => worker["holder"][s].last = LastAttempt(s)
        /\ Ending(s) => asset[s] \notin Unsettled \/ s \in left

JobInv == AssetsInv /\ EndIsRecorded /\ UnsettledIsWorkedOn
-----------------------------------------------------------------------------
(***************************************************************************)
(* Type correctness.                                                       *)
(***************************************************************************)
StoredOK ==
    /\ reference \in [Owners -> Sources \cup {None}]
    /\ asset \in [Sources -> Final \cup Unsettled \cup {"none"}]
    /\ named \subseteq Sources
    /\ admission \in [Releases -> [state : Decided, admitted : BOOLEAN]]
RowsOK ==
    /\ held \subseteq Releases /\ described \subseteq Releases
    /\ artwork \in [Owners -> Sources \cup {None}]
JobRows ==
    /\ job \in [Sources -> [state : Live \cup {"none", "complete", "failed", "cancelled"},
                            attempts : 0 .. MaxAttempts]]
    /\ worker \in [Executions -> [Sources -> Workings]]
    /\ JobOK

LEMMA AssetsParts ==
    /\ AssetsInv <=> RowsOK /\ StoredOK /\ JobRows /\ run \in AssetRuns
    /\ AssetsInv' <=> RowsOK' /\ StoredOK' /\ JobRows' /\ run' \in AssetRuns
BY DEF AssetsInv, AssetsTypeOK, RowsOK, StoredOK, JobRows, Decided, Workings, Places

LEMMA UnchangedParts ==
    /\ RowsOK /\ UNCHANGED rows => RowsOK'
    /\ StoredOK /\ UNCHANGED stored => StoredOK'
    /\ JobRows /\ UNCHANGED <<job, worker>> => JobRows'
BY DEF RowsOK, StoredOK, JobRows, rows, stored, JobOK, LastAttempt

LEMMA Nobody == NoWork \in Workings /\ NoWork.at = "none" /\ ~NoWork.told
BY DEF NoWork, Workings, Places

Queued == [NoJob EXCEPT !.state = "queued"]

LEMMA QueuedJob ==
    /\ Queued.state = "queued" /\ Queued.attempts = 0
    /\ Queued \in [state : Live \cup {"none", "complete", "failed", "cancelled"},
                   attempts : 0 .. MaxAttempts]
BY LibraryAssetsAssumption DEF Queued, NoJob, Live

\* The step of one execution of one artwork.
LEMMA OneWorks ==
    ASSUME worker \in [Executions -> [Sources -> Workings]], NEW e \in Executions, NEW s \in Sources,
           NEW work \in Workings, worker' = [worker EXCEPT ![e][s] = work]
    PROVE  /\ worker' \in [Executions -> [Sources -> Workings]] /\ worker'[e][s] = work
           /\ \A f \in Executions, u \in Sources :
                 f # e \/ u # s => worker'[f][u] = worker[f][u]
<1>1. worker[e] \in [Sources -> Workings] /\ [worker[e] EXCEPT ![s] = work] \in [Sources -> Workings]
  OBVIOUS
<1>2. worker' = [worker EXCEPT ![e] = [worker[e] EXCEPT ![s] = work]]
  OBVIOUS
<1> QED
  BY <1>1, <1>2

\* The holder stops, and at most goes on as the stray.
LEMMA HolderStops ==
    ASSUME worker \in [Executions -> [Sources -> Workings]], NEW s \in Sources, Astray(s)
    PROVE  /\ worker' \in [Executions -> [Sources -> Workings]]
           /\ worker'["holder"][s] = NoWork
           /\ worker'["stray"][s] \in {worker["stray"][s], worker["holder"][s]}
           /\ \A e \in Executions, u \in Sources : u # s => worker'[e][u] = worker[e][u]
<1> DEFINE still == [worker["holder"] EXCEPT ![s] = NoWork]
           gone == [worker["stray"] EXCEPT ![s] = worker["holder"][s]]
<1>1. still \in [Sources -> Workings] /\ gone \in [Sources -> Workings]
  BY Nobody DEF Executions
<1>2. \/ worker' = [worker EXCEPT !["holder"] = still]
      \/ worker' = [worker EXCEPT !["holder"] = still, !["stray"] = gone]
  BY DEF Astray, Executions
<1> QED
  BY <1>1, <1>2 DEF Executions

\* The steps of an execution, to a place of its own or to the end of its handler.
LEMMA Stored ==
    ASSUME JobRows, NEW e \in Executions, NEW s \in Sources, Store(e, s)
    PROVE  /\ worker' \in [Executions -> [Sources -> Workings]]
           /\ worker'[e][s].at = "stored"
           /\ worker'[e][s].last = worker[e][s].last
           /\ worker'[e][s].told = worker[e][s].told
           /\ \A f \in Executions, u \in Sources :
                 f # e \/ u # s => worker'[f][u] = worker[f][u]
<1> DEFINE work == [at |-> "stored", last |-> worker[e][s].last, told |-> worker[e][s].told]
<1>0. worker \in [Executions -> [Sources -> Workings]] /\ worker[e][s] \in Workings
  BY DEF JobRows
<1>1. work \in Workings
  BY <1>0 DEF Workings, Places
<1>2. [worker[e][s] EXCEPT !.at = "stored"] = work
  BY <1>0 DEF Workings
<1>3. worker' = [worker EXCEPT ![e][s] = work]
  BY <1>0, <1>2 DEF Store
<1> HIDE DEF work
<1>4. /\ worker' \in [Executions -> [Sources -> Workings]] /\ worker'[e][s] = work
      /\ \A f \in Executions, u \in Sources : f # e \/ u # s => worker'[f][u] = worker[f][u]
  BY <1>0, <1>1, <1>3, OneWorks
<1> QED
  BY <1>4 DEF work

LEMMA Returned ==
    ASSUME JobRows, NEW e \in Executions, NEW s \in Sources,
           NEW next \in {"complete", "error"}, NEW told \in BOOLEAN, Returns(e, s, next, told)
    PROVE  /\ worker' \in [Executions -> [Sources -> Workings]]
           /\ e = "stray" => worker'[e][s] = NoWork
           /\ e = "holder" => /\ worker'[e][s].at = next /\ worker'[e][s].told = told
                              /\ worker'[e][s].last = worker[e][s].last
           /\ \A f \in Executions, u \in Sources :
                 f # e \/ u # s => worker'[f][u] = worker[f][u]
<1> DEFINE returned == [worker[e][s] EXCEPT !.at = next, !.told = told]
           work == IF e = "stray" THEN NoWork ELSE returned
<1>0. worker \in [Executions -> [Sources -> Workings]] /\ worker[e][s] \in Workings
  BY DEF JobRows
<1>1. /\ returned \in Workings /\ returned.at = next /\ returned.last = worker[e][s].last
      /\ returned.told = told
  BY <1>0 DEF Workings, Places
<1>2. worker' = [worker EXCEPT ![e][s] = work]
  BY <1>0 DEF Returns
<1> HIDE DEF returned
<1>3. work \in Workings
  BY <1>1, Nobody
<1> HIDE DEF work
<1>4. /\ worker' \in [Executions -> [Sources -> Workings]] /\ worker'[e][s] = work
      /\ \A f \in Executions, u \in Sources : f # e \/ u # s => worker'[f][u] = worker[f][u]
  BY <1>0, <1>2, <1>3, OneWorks
<1> QED
  BY <1>1, <1>4 DEF work

\* ensure_library_asset takes nothing from an execution but its word.
LEMMA Ensured ==
    ASSUME JobRows, NEW s \in Sources, Ensure(s)
    PROVE  /\ worker' \in [Executions -> [Sources -> Workings]]
           /\ worker'["holder"][s].at = worker["holder"][s].at
           /\ worker'["holder"][s].last = worker["holder"][s].last
           /\ worker'["holder"][s].told =>
                 worker["holder"][s].told /\ asset[s] \notin {"none", "failed_terminal"}
           /\ \A f \in Executions, u \in Sources :
                 f # "holder" \/ u # s => worker'[f][u] = worker[f][u]
<1> DEFINE rewritten == asset[s] \in {"none", "failed_terminal"}
           work == [worker["holder"][s] EXCEPT !.told = @ /\ ~rewritten]
<1>0. worker \in [Executions -> [Sources -> Workings]] /\ worker["holder"][s] \in Workings
  BY DEF JobRows, Executions
<1>1. /\ work \in Workings /\ work.at = worker["holder"][s].at
      /\ work.last = worker["holder"][s].last
      /\ work.told => worker["holder"][s].told /\ ~rewritten
  <2> HIDE DEF rewritten
  <2> QED
    BY <1>0 DEF Workings
<1>2. worker' = [worker EXCEPT !["holder"][s] = work]
  BY <1>0 DEF Ensure, Executions
<1> HIDE DEF work
<1>3. /\ worker' \in [Executions -> [Sources -> Workings]] /\ worker'["holder"][s] = work
      /\ \A f \in Executions, u \in Sources : f # "holder" \/ u # s => worker'[f][u] = worker[f][u]
  BY <1>0, <1>1, <1>2, OneWorks DEF Executions
<1> QED
  BY <1>1, <1>3

LEMMA IdleRun == NoRun \in AssetRuns
BY DEF NoRun, AssetRuns, Stages, Decided, Files

\* Only what is referenced is an address.
LEMMA ReferencedSources == StoredOK => Referenced \subseteq Sources
BY DEF StoredOK, Referenced

LEMMA RunColumns ==
    ASSUME NEW r \in AssetRuns
    PROVE  /\ \A stage \in Stages : [r EXCEPT !.at = stage] \in AssetRuns
           /\ \A S \in SUBSET Sources : [r EXCEPT !.at = "ensure", !.sources = S] \in AssetRuns
           /\ \A S \in SUBSET Sources : [r EXCEPT !.sources = S] \in AssetRuns
           /\ \A S \in SUBSET Releases :
                 [r EXCEPT !.at = "decide", !.held = S, !.wanted = NoRun.wanted] \in AssetRuns
           /\ \A decided \in [Releases -> Decided] :
                 /\ [r EXCEPT !.at = "admit", !.decided = decided] \in AssetRuns
                 /\ [r EXCEPT !.decided = decided] \in AssetRuns
           /\ \A S \in SUBSET Files : [r EXCEPT !.removable = S] \in AssetRuns
BY DEF AssetRuns, Stages, NoRun

LEMMA ReconcileTypes ==
    ASSUME AssetsInv, Reconcile
    PROVE  AssetsInv'
<1> USE AssetsParts, UnchangedParts
<1>0. UNCHANGED rows
  BY DEF Reconcile
<1>1. CASE Wake /\ UNCHANGED <<job, worker>>
  <2> DEFINE wanted == [o \in Owners |-> IF \E r \in held : o \in Needs[r] THEN artwork[o] ELSE None]
  <2>1. [NoRun EXCEPT !.at = "upsert", !.wanted = wanted] \in AssetRuns
    BY DEF AssetRuns, NoRun, Stages, Decided, RowsOK
  <2> QED
    BY <1>0, <1>1, <2>1 DEF Wake
<1>2. CASE (Upsert \/ DeleteObsolete) /\ UNCHANGED <<job, worker>>
  <2>1. StoredOK'
    BY <1>2 DEF Upsert, DeleteObsolete, StoredOK, AssetRuns
  <2> QED
    BY <1>0, <1>2, <2>1, RunColumns DEF Upsert, DeleteObsolete, ReconcileGoes, Stages
<1>3. CASE (ListSources \/ ReadHeld) /\ UNCHANGED <<job, worker>>
  <2>1. run' \in AssetRuns
    <3>1. CASE ListSources
      <4>1. PICK S \in SUBSET Sources : run' = [run EXCEPT !.at = "ensure", !.sources = S]
        BY <3>1, ReferencedSources DEF ListSources
      <4> QED
        BY <4>1, RunColumns
    <3>2. CASE ReadHeld
      BY <3>2, RunColumns DEF ReadHeld, RowsOK
    <3> QED
      BY <1>3, <3>1, <3>2
  <2> QED
    BY <1>0, <1>3, <2>1 DEF ListSources, ReadHeld
<1>4. ASSUME NEW s \in Sources, Ensure(s)
      PROVE  AssetsInv'
  <2>1. StoredOK'
    BY <1>4 DEF Ensure, StoredOK, Final, Unsettled
  <2>2. JobRows'
    <3>0. JobRows /\ job \in [Sources -> [state : Live \cup {"none", "complete", "failed", "cancelled"},
                                         attempts : 0 .. MaxAttempts]]
      BY DEF JobRows
    <3>1. /\ worker' \in [Executions -> [Sources -> Workings]]
          /\ \A u \in Sources : worker'["holder"][u].at = worker["holder"][u].at
      BY <1>4, <3>0, Ensured DEF Executions
    <3>2. \/ job' = job
          \/ job[s].state \notin Live /\ job' = [job EXCEPT ![s] = Queued]
      BY <1>4, <3>0 DEF Ensure, Queued
    <3>3. JobOK'
      <4>1. JobOK /\ \A u \in Sources : u # s => job'[u] = job[u]
        BY <3>0, <3>2 DEF JobRows
      <4>2. \/ job'[s] = job[s]
            \/ job'[s] = Queued /\ job[s].state # "running"
        BY <3>0, <3>2 DEF Live
      <4>3. Queued.state # "running" /\ Queued.attempts < MaxAttempts
        BY QueuedJob, LibraryAssetsAssumption
      <4> QED
        BY <3>1, <4>1, <4>2, <4>3 DEF JobOK, Live
    <3>4. job' \in [Sources -> [state : Live \cup {"none", "complete", "failed", "cancelled"},
                              attempts : 0 .. MaxAttempts]]
      BY <3>0, <3>2, QueuedJob
    <3> QED
      BY <3>1, <3>3, <3>4 DEF JobRows
  <2>3. run' \in AssetRuns
    BY <1>4, RunColumns DEF Ensure, AssetRuns
  <2> QED
    BY <1>0, <2>1, <2>2, <2>3
<1>5. CASE ReadRows /\ UNCHANGED <<job, worker>>
  <2>1. PICK decided \in [Releases -> Decided] : run' = [run EXCEPT !.at = "admit", !.decided = decided]
    BY <1>5 DEF ReadRows, Decided
  <2> QED
    BY <1>0, <1>5, <2>1, RunColumns DEF ReadRows
<1>6. ASSUME NEW r \in Releases, Admit(r), UNCHANGED <<job, worker>>
      PROVE  AssetsInv'
  <2>1. run.decided[r] \in Decided /\ [run.decided EXCEPT ![r] = "none"] \in [Releases -> Decided]
    BY DEF AssetRuns, Decided
  <2>2. StoredOK'
    BY <1>6, <2>1 DEF Admit, Admitted, StoredOK
  <2>3. run' \in AssetRuns
    BY <1>6, <2>1, RunColumns DEF Admit
  <2> QED
    BY <1>0, <1>6, <2>2, <2>3
<1>7. CASE RemoveAdmissions /\ UNCHANGED <<job, worker>>
  <2>1. StoredOK'
    BY <1>7 DEF RemoveAdmissions, StoredOK, Decided
  <2> QED
    BY <1>0, <1>7, <2>1, RunColumns DEF RemoveAdmissions, ReconcileGoes, Stages
<1>8. CASE PruneRead /\ UNCHANGED <<job, worker>>
  <2>1. PICK old \in SUBSET Sources :
           run' = IF old = {} THEN NoRun
                  ELSE [NoRun EXCEPT !.at = "commit", !.candidates = old,
                                     !.theirs = {Bytes[s] : s \in old \cap named}]
    BY <1>8 DEF PruneRead
  <2>2. {Bytes[s] : s \in old \cap named} \subseteq Files
    BY DEF Files
  <2>3. [NoRun EXCEPT !.at = "commit", !.candidates = old,
                      !.theirs = {Bytes[s] : s \in old \cap named}] \in AssetRuns
    BY <2>2 DEF AssetRuns, NoRun, Stages, Decided
  <2> QED
    BY <1>0, <1>8, <2>1, <2>3, IdleRun DEF PruneRead
<1>9. CASE PruneCommit /\ UNCHANGED <<job, worker>>
  <2> DEFINE removable == Removable(run.candidates, run.theirs)
  <2>1. removable \subseteq Files
    BY DEF AssetRuns, Removable
  <2>2. [NoRun EXCEPT !.at = "remove", !.removable = removable] \in AssetRuns
    BY <2>1 DEF AssetRuns, NoRun, Stages, Decided
  <2>3. StoredOK'
    BY <1>9 DEF PruneCommit, StoredOK
  <2> QED
    BY <1>0, <1>9, <2>2, <2>3, IdleRun DEF PruneCommit
<1>10. CASE RemoveFile /\ UNCHANGED <<job, worker>>
  <2>1. run' \in AssetRuns
    <3>1. PICK b \in run.removable :
             run' = IF run.removable = {b} THEN NoRun ELSE [run EXCEPT !.removable = @ \ {b}]
      BY <1>10 DEF RemoveFile
    <3>2. run.removable \ {b} \in SUBSET Files
      BY DEF AssetRuns
    <3> QED
      BY <3>1, <3>2, IdleRun, RunColumns
  <2> QED
    BY <1>0, <1>10, <2>1 DEF RemoveFile, StoredOK
<1> QED
  BY <1>1, <1>2, <1>3, <1>4, <1>5, <1>6, <1>7, <1>8, <1>9, <1>10 DEF Reconcile

LEMMA RunTypes ==
    ASSUME AssetsInv, NEW e \in Executions, NEW s \in Sources,
           Materialize(e, s) \/ WriteFails(e, s)
    PROVE  StoredOK' /\ JobRows'
<1>0. StoredOK /\ JobRows /\ worker[e][s].at \in {"fetching", "stored"}
  BY AssetsParts DEF Materialize, Store, Complete, Disappeared, Fetched, WriteFails
<1>1. StoredOK'
  BY <1>0 DEF Materialize, WriteFails, Store, Complete, Disappeared, Fetched, Failure, stored, StoredOK,
     Final, Settled, Unsettled
<1>2. UNCHANGED job
  BY DEF Materialize, WriteFails, Store, Complete, Disappeared, Fetched
<1>3. /\ worker' \in [Executions -> [Sources -> Workings]]
      /\ \A f \in Executions, u \in Sources : f # e \/ u # s => worker'[f][u] = worker[f][u]
      /\ e = "holder" => worker'[e][s].at # "none"
  <2>1. CASE Store(e, s)
    BY <1>0, <2>1, Stored
  <2>2. ASSUME NEW next \in {"complete", "error"}, NEW told \in BOOLEAN, Returns(e, s, next, told)
        PROVE  /\ worker' \in [Executions -> [Sources -> Workings]]
               /\ \A f \in Executions, u \in Sources : f # e \/ u # s => worker'[f][u] = worker[f][u]
               /\ e = "holder" => worker'[e][s].at # "none"
    BY <1>0, <2>2, Returned
  <2>3. Store(e, s) \/ \E next \in {"complete", "error"}, told \in BOOLEAN : Returns(e, s, next, told)
    <3>1. CASE Store(e, s)
      BY <3>1
    <3>2. CASE Complete(e, s)
      BY <3>2 DEF Complete
    <3>3. CASE Disappeared(e, s) \/ WriteFails(e, s)
      BY <3>3 DEF Disappeared, WriteFails
    <3>4. ASSUME NEW kind \in {"absent", "unsupported", "retryable"}, Fetched(e, s, kind)
          PROVE  \E next \in {"complete", "error"}, told \in BOOLEAN : Returns(e, s, next, told)
      <4>1. Returns(e, s, IF kind = "retryable" THEN "error" ELSE "complete", asset[s] # "none")
        BY <3>4 DEF Fetched
      <4> QED
        BY <4>1
    <3> QED
      BY <3>1, <3>2, <3>3, <3>4 DEF Materialize
  <2> QED
    BY <2>1, <2>2, <2>3
<1>4. JobOK'
  <2>1. ASSUME NEW u \in Sources
        PROVE  worker'["holder"][u].at # "none" <=> worker["holder"][u].at # "none"
    BY <1>0, <1>3 DEF Executions
  <2> QED
    BY <1>0, <1>2, <2>1 DEF JobOK, JobRows
<1> QED
  BY <1>0, <1>1, <1>2, <1>3, <1>4 DEF JobRows

\* The steps at which a job begins or ends.
LEMMA JobTypes ==
    ASSUME AssetsInv, NEW s \in Sources,
           Claim(s) \/ FinishJob(s) \/ Expire(s) \/ Cancel(s) \/ Retry(s)
    PROVE  StoredOK' /\ JobRows'
<1>0. StoredOK /\ JobRows /\ worker \in [Executions -> [Sources -> Workings]]
  BY AssetsParts DEF JobRows
<1>1. StoredOK'
  BY <1>0, UnchangedParts DEF Claim, FinishJob, Expire, Cancel, Retry
<1>2. /\ job[s].attempts \in 0 .. MaxAttempts
      /\ job[s].state \in Live => job[s].attempts < MaxAttempts
  BY <1>0 DEF JobRows, JobOK
<1>3. CASE Claim(s)
  <2> DEFINE work == [at |-> "fetching", last |-> LastAttempt(s), told |-> FALSE]
  <2>1. work \in Workings
    BY DEF Workings, Places, LastAttempt
  <2>2. worker' = [worker EXCEPT !["holder"][s] = work]
    BY <1>3 DEF Claim
  <2>3. work.at # "none"
    OBVIOUS
  <2> HIDE DEF work
  <2>4. /\ worker' \in [Executions -> [Sources -> Workings]] /\ worker'["holder"][s] = work
        /\ \A u \in Sources : u # s => worker'["holder"][u] = worker["holder"][u]
    BY <1>0, <2>1, <2>2, OneWorks DEF Executions
  <2>5. /\ job'[s].state = "running" /\ job'[s].attempts = job[s].attempts
        /\ job' = [job EXCEPT ![s].state = "running"]
        /\ job[s].state = "queued"
    BY <1>0, <1>3 DEF Claim, JobRows
  <2> QED
    BY <1>0, <1>1, <2>3, <2>4, <2>5 DEF JobRows, JobOK, Live
<1>4. CASE FinishJob(s) \/ Expire(s) \/ Cancel(s)
  <2>1. /\ worker' \in [Executions -> [Sources -> Workings]] /\ worker'["holder"][s] = NoWork
        /\ \A u \in Sources : u # s => worker'["holder"][u] = worker["holder"][u]
    <3>1. CASE FinishJob(s)
      BY <1>0, <3>1, Nobody, OneWorks DEF FinishJob, Executions
    <3>2. CASE Expire(s) \/ Cancel(s)
      BY <1>0, <3>2, HolderStops DEF Expire, Cancel, Executions
    <3> QED
      BY <1>4, <3>1, <3>2
  <2>3. /\ job'[s].state \in {"queued", "complete", "failed", "cancelled"}
        /\ job'[s].state = "queued" => job'[s].attempts < MaxAttempts
        /\ \A u \in Sources : u # s => job'[u] = job[u]
        /\ job' \in [Sources -> [state : Live \cup {"none", "complete", "failed", "cancelled"},
                                attempts : 0 .. MaxAttempts]]
    <3>1. job[s].state \in Live
      BY <1>0, <1>4 DEF FinishJob, Expire, Cancel, JobRows, JobOK, Live
    <3>2. /\ Again(s) \in [state : Live \cup {"none", "complete", "failed", "cancelled"},
                            attempts : 0 .. MaxAttempts]
          /\ Again(s).state \in {"queued", "failed"}
          /\ Again(s).state = "queued" => Again(s).attempts < MaxAttempts
      BY <1>2, <3>1, LibraryAssetsAssumption DEF Again, LastAttempt, Live
    <3>3. CASE job' = [job EXCEPT ![s] = Again(s)]
      BY <1>0, <3>2, <3>3 DEF JobRows
    <3>4. ASSUME NEW state \in {"complete", "cancelled"}, job' = [job EXCEPT ![s].state = state]
          PROVE  /\ job'[s].state \in {"queued", "complete", "failed", "cancelled"}
                 /\ job'[s].state = "queued" => job'[s].attempts < MaxAttempts
                 /\ \A u \in Sources : u # s => job'[u] = job[u]
                 /\ job' \in [Sources -> [state : Live \cup {"none", "complete", "failed", "cancelled"},
                                         attempts : 0 .. MaxAttempts]]
      BY <1>0, <3>4 DEF JobRows
    <3>5. \/ job' = [job EXCEPT ![s] = Again(s)]
          \/ \E state \in {"complete", "cancelled"} : job' = [job EXCEPT ![s].state = state]
      <4>1. CASE FinishJob(s)
        BY <1>0, <4>1 DEF FinishJob, Over, JobRows
      <4>2. CASE Expire(s) \/ Cancel(s)
        BY <4>2 DEF Expire, Cancel, Over
      <4> QED
        BY <1>4, <4>1, <4>2
    <3> QED
      BY <3>3, <3>4, <3>5
  <2>4. JobOK'
    BY <1>0, <2>1, <2>3, Nobody DEF JobOK, JobRows, Live
  <2> QED
    BY <1>1, <2>1, <2>3, <2>4 DEF JobRows
<1>5. CASE Retry(s)
  <2>1. job' = [job EXCEPT ![s] = Queued] /\ worker' = worker
    BY <1>5 DEF Retry, Queued
  <2>2. job[s].state # "running"
    BY <1>5 DEF Retry
  <2> QED
    BY <1>0, <1>1, <2>1, <2>2, QueuedJob, LibraryAssetsAssumption DEF JobRows, JobOK, Live
<1> QED
  BY <1>3, <1>4, <1>5

LEMMA WorkTypes ==
    ASSUME AssetsInv, NEW s \in Sources, Work(s) \/ Trouble(s)
    PROVE  AssetsInv'
<1> USE AssetsParts, UnchangedParts
<1>1. UNCHANGED <<rows, run>>
  BY DEF Work, Trouble, Expire, Cancel, Retry, StrayWorks, Heartbeat, WriteFails
<1>2. CASE \E e \in Executions : Materialize(e, s) \/ WriteFails(e, s)
  BY <1>1, <1>2, RunTypes
<1>3. CASE Claim(s) \/ FinishJob(s) \/ Expire(s) \/ Cancel(s) \/ Retry(s)
  BY <1>1, <1>3, JobTypes
<1>4. CASE Heartbeat(s)
  <2>1. JobRows /\ worker \in [Executions -> [Sources -> Workings]]
    BY DEF JobRows
  <2>2. /\ worker' \in [Executions -> [Sources -> Workings]]
        /\ \A u \in Sources : worker'["holder"][u] = worker["holder"][u]
    BY <1>4, <2>1, Nobody, OneWorks DEF Heartbeat, Executions
  <2>3. JobRows'
    BY <1>4, <2>1, <2>2 DEF Heartbeat, JobRows, JobOK
  <2> QED
    BY <1>1, <1>4, <2>3 DEF Heartbeat
<1> QED
  BY <1>2, <1>3, <1>4 DEF Work, Trouble, StrayWorks, Materialize, Executions

LEMMA AssetsInvNext == AssetsInv /\ [AssetsNext]_assets => AssetsInv'
<1> USE AssetsParts, UnchangedParts
<1> SUFFICES ASSUME AssetsInv, [AssetsNext]_assets PROVE AssetsInv'
  OBVIOUS
<1>1. CASE Interrupted
  BY <1>1, IdleRun DEF Interrupted
<1>2. CASE Describe \/ Change
  <2>1. RowsOK'
    BY <1>2 DEF Describe, Change, RowsOK
  <2> QED
    BY <1>2, <2>1 DEF Describe, Change
<1>3. CASE UNCHANGED assets
  BY <1>3 DEF assets
<1> QED
  BY <1>1, <1>2, <1>3, ReconcileTypes, WorkTypes DEF AssetsNext

LEMMA AssetsInvInit == AssetsInit => AssetsInv
<1> SUFFICES ASSUME AssetsInit PROVE AssetsInv
  OBVIOUS
<1>1. JobRows
  BY Nobody, LibraryAssetsAssumption DEF AssetsInit, JobRows, JobOK, NoJob, Live, Executions
<1>2. RowsOK /\ StoredOK /\ run \in AssetRuns
  BY IdleRun DEF AssetsInit, RowsOK, StoredOK, Decided
<1> QED
  BY <1>1, <1>2, AssetsParts

\* The artwork rows and their jobs have their types, and a job without an attempt
\* left is over.
THEOREM AssetsTypeCorrect == AssetsSpec => []AssetsTypeOK
<1>1. AssetsInit => AssetsInv
  BY AssetsInvInit
<1>2. AssetsInv /\ [AssetsNext]_assets => AssetsInv'
  BY AssetsInvNext
<1>3. AssetsInv => AssetsTypeOK
  BY DEF AssetsInv
<1> QED
  BY <1>1, <1>2, <1>3, PTL DEF AssetsSpec

\* What the reconciliation has listed and given up, from step to step.
LEMMA RunLists ==
    ASSUME run \in AssetRuns
    PROVE  /\ Wake \/ PruneRead => run'.removable = {}
           /\ Upsert \/ DeleteObsolete \/ ReadHeld \/ ReadRows \/ RemoveAdmissions \/ ListSources
                  \/ (\E r \in Releases : Admit(r)) \/ (\E s \in Sources : Ensure(s)) =>
                run'.removable = run.removable
<1> USE DEF AssetRuns
<1>1. ASSUME PruneRead
      PROVE  run'.removable = {}
  <2>1. PICK old : run' = IF old = {} THEN NoRun
                          ELSE [NoRun EXCEPT !.at = "commit", !.candidates = old,
                                             !.theirs = {Bytes[s] : s \in old \cap named}]
    BY <1>1 DEF PruneRead
  <2> QED
    BY <2>1 DEF NoRun
<1>2. Wake => run'.removable = {}
  BY DEF Wake, NoRun
<1>3. Upsert \/ DeleteObsolete \/ RemoveAdmissions => run'.removable = run.removable
  BY DEF Upsert, DeleteObsolete, RemoveAdmissions, ReconcileGoes
<1>4. ReadHeld => run'.removable = run.removable
  BY DEF ReadHeld
<1>5. ReadRows \/ ListSources => run'.removable = run.removable
  BY DEF ReadRows, ListSources
<1>6. ASSUME NEW r \in Releases, Admit(r)
      PROVE  run'.removable = run.removable
  BY <1>6 DEF Admit
<1>7. ASSUME NEW s \in Sources, Ensure(s)
      PROVE  run'.removable = run.removable
  BY <1>7 DEF Ensure
<1> QED
  BY <1>1, <1>2, <1>3, <1>4, <1>5, <1>6, <1>7

-----------------------------------------------------------------------------
(***************************************************************************)
(* Files.                                                                  *)
(***************************************************************************)
\* The executions are the same as before, but for what they remember of a row.
LEMMA SamePlaces ==
    ASSUME AssetsInv, Reconcile
    PROVE  \A e \in Executions, s \in Sources : worker'[e][s].at = worker[e][s].at
<1>1. worker \in [Executions -> [Sources -> Workings]]
  BY AssetsParts DEF JobRows
<1>2. ASSUME NEW s \in Sources, Ensure(s)
      PROVE  \A e \in Executions, u \in Sources : worker'[e][u].at = worker[e][u].at
  BY <1>2, AssetsParts, Ensured DEF Executions
<1> QED
  BY <1>2 DEF Reconcile

\* The reconciliation gives files up in one step and removes them in another.
LEMMA FileReconcile ==
    ASSUME FileInv, Reconcile
    PROVE  RemovableIsFree' /\ HasFile' /\ ReadyIsNamed'
<1> USE DEF FileInv, RemovableIsFree, HasFile, ReadyIsNamed
<1>0. /\ \A e \in Executions, s \in Sources : worker'[e][s].at = worker[e][s].at
      /\ raced' = raced \cup GivenUp
      /\ run \in AssetRuns /\ asset \in [Sources -> Final \cup Unsettled \cup {"none"}]
  BY SamePlaces DEF Reconcile, AssetsInv, AssetsTypeOK
<1>1. ASSUME run'.removable \subseteq run.removable, files' = files, named' = named,
             \A s \in Sources : asset'[s] = "ready" => asset[s] = "ready"
      PROVE  RemovableIsFree' /\ HasFile' /\ ReadyIsNamed'
  <2>1. \A s \in Sources : Holds(s)' => Holds(s)
    BY <1>0, <1>1 DEF Holds
  <2> QED
    BY <1>0, <1>1, <2>1
<1>2. CASE Wake \/ Upsert \/ DeleteObsolete \/ ListSources \/ ReadHeld \/ ReadRows
           \/ RemoveAdmissions \/ PruneRead \/ \E r \in Releases : Admit(r)
  <2>1. run'.removable \subseteq run.removable
    BY <1>0, <1>2, RunLists
  <2>2. UNCHANGED <<files, asset, named>>
    BY <1>2 DEF Wake, Upsert, DeleteObsolete, ListSources, ReadHeld, ReadRows,
       RemoveAdmissions, PruneRead, Admit, stored
  <2> QED
    BY <1>1, <2>1, <2>2
<1>3. ASSUME NEW s \in Sources, Ensure(s)
      PROVE  RemovableIsFree' /\ HasFile' /\ ReadyIsNamed'
  <2>1. run'.removable = run.removable
    BY <1>0, <1>3, RunLists
  <2>2. /\ files' = files /\ named' = named
        /\ \A u \in Sources : asset'[u] = "ready" => asset[u] = "ready"
    BY <1>0, <1>3 DEF Ensure
  <2> QED
    BY <1>1, <2>1, <2>2
<1>4. CASE PruneCommit
  <2> DEFINE gone == run.candidates
  <2>1. run'.removable = Removable(gone, run.theirs)
    BY <1>4 DEF PruneCommit, NoRun
  <2>2. /\ \A s \in Sources : asset'[s] = "ready" => asset[s] = "ready" /\ s \notin gone
        /\ named' = named \ gone
    BY <1>4 DEF PruneCommit
  <2>3. \A s \in Sources : asset'[s] = "ready" => Bytes[s] \notin run'.removable
    BY <2>1, <2>2 DEF Removable
  <2>4. \A s \in Sources : (\E e \in Executions : worker[e][s].at = "stored")
                              /\ Bytes[s] \in run'.removable => s \in raced'
    BY <1>0 DEF GivenUp
  <2>5. files' = files
    BY <1>4 DEF PruneCommit
  <2>6. \A s \in Sources : Holds(s)' => Holds(s)
    BY <1>0, <2>2 DEF Holds
  <2>7. RemovableIsFree'
    BY <1>0, <2>3, <2>4 DEF Holds
  <2> HIDE DEF gone
  <2> QED
    BY <1>0, <2>2, <2>5, <2>6, <2>7
<1>5. CASE RemoveFile
  <2>1. PICK b \in run.removable :
           /\ run' = IF run.removable = {b} THEN NoRun ELSE [run EXCEPT !.removable = @ \ {b}]
           /\ files' \in {files, files \ {b}}
    BY <1>5 DEF RemoveFile
  <2>2. run'.removable \subseteq run.removable /\ asset' = asset /\ named' = named
    BY <1>0, <1>5, <2>1 DEF RemoveFile, NoRun, AssetRuns
  <2>3. \A s \in Sources : Bytes[s] \in files => Bytes[s] \in files' \/ Bytes[s] = b
    BY <2>1
  <2>4. \A s \in Sources : Holds(s)' => Holds(s)
    BY <1>0, <2>2 DEF Holds
  <2> QED
    BY <1>0, <2>1, <2>2, <2>3, <2>4
<1> QED
  BY <1>2, <1>3, <1>4, <1>5 DEF Reconcile

LEMMA FileWork ==
    ASSUME FileInv, NEW s \in Sources, Work(s) \/ Trouble(s)
    PROVE  RemovableIsFree' /\ HasFile' /\ ReadyIsNamed'
<1> USE DEF FileInv, RemovableIsFree, HasFile, ReadyIsNamed
<1>0. /\ run' = run /\ JobRows /\ worker \in [Executions -> [Sources -> Workings]]
      /\ asset \in [Sources -> Final \cup Unsettled \cup {"none"}]
  BY AssetsParts DEF Work, Trouble, Expire, Cancel, Retry, StrayWorks, Heartbeat, WriteFails,
     AssetsInv, AssetsTypeOK, JobRows
<1>1. ASSUME \A u \in Sources : Holds(u)' => Holds(u), UNCHANGED raced,
             files \subseteq files', named \subseteq named',
             \A u \in Sources : asset'[u] = "ready" => asset[u] = "ready" \/ u \in named'
      PROVE  RemovableIsFree' /\ HasFile' /\ ReadyIsNamed'
  BY <1>0, <1>1
<1>2. CASE Claim(s) \/ FinishJob(s) \/ Expire(s) \/ Cancel(s) \/ Retry(s) \/ Heartbeat(s)
  <2>1. \A u \in Sources :
           (\E e \in Executions : worker'[e][u].at = "stored")
               => \E e \in Executions : worker[e][u].at = "stored"
    <3>1. CASE Claim(s)
      <4> DEFINE work == [at |-> "fetching", last |-> LastAttempt(s), told |-> FALSE]
      <4>1. work \in Workings /\ work.at # "stored"
        BY DEF Workings, Places, LastAttempt
      <4>2. worker' = [worker EXCEPT !["holder"][s] = work]
        BY <3>1 DEF Claim
      <4> HIDE DEF work
      <4> QED
        BY <1>0, <4>1, <4>2, OneWorks DEF Executions
    <3>2. CASE FinishJob(s)
      BY <1>0, <3>2, Nobody, OneWorks DEF FinishJob, Executions
    <3>3. CASE Heartbeat(s)
      BY <1>0, <3>3, Nobody, OneWorks DEF Heartbeat, Executions
    <3>4. CASE Expire(s) \/ Cancel(s)
      BY <1>0, <3>4, Nobody, HolderStops DEF Expire, Cancel, Executions
    <3>5. CASE Retry(s)
      BY <3>5 DEF Retry
    <3> QED
      BY <1>2, <3>1, <3>2, <3>3, <3>4, <3>5
  <2>2. UNCHANGED <<asset, named, files, raced>>
    BY <1>2 DEF Claim, FinishJob, Expire, Cancel, Retry, Heartbeat, stored
  <2>3. \A u \in Sources : Holds(u)' => Holds(u)
    BY <2>1, <2>2 DEF Holds
  <2> QED
    BY <1>1, <2>2, <2>3
<1>3. ASSUME NEW e \in Executions, Store(e, s)
      PROVE  RemovableIsFree' /\ HasFile' /\ ReadyIsNamed'
  <2>1. \A f \in Executions, u \in Sources : u # s => worker'[f][u] = worker[f][u]
    BY <1>0, <1>3, Stored
  <2>2. \A u \in Sources : u # s => (Holds(u)' <=> Holds(u))
    BY <1>3, <2>1 DEF Holds, Store
  <2>3. /\ Bytes[s] \in files' /\ files \subseteq files' /\ UNCHANGED <<asset, named>>
        /\ raced \subseteq raced'
        /\ Bytes[s] \in run.removable => s \in raced'
    BY <1>3 DEF Store
  <2> QED
    BY <1>0, <2>2, <2>3
<1>4. ASSUME NEW e \in Executions,
             \/ Complete(e, s) \/ Disappeared(e, s) \/ WriteFails(e, s)
             \/ \E kind \in {"absent", "unsupported", "retryable"} : Fetched(e, s, kind)
      PROVE  RemovableIsFree' /\ HasFile' /\ ReadyIsNamed'
  <2>1. \E next \in {"complete", "error"}, told \in BOOLEAN : Returns(e, s, next, told)
    <3>1. CASE Complete(e, s)
      BY <3>1 DEF Complete
    <3>2. CASE Disappeared(e, s) \/ WriteFails(e, s)
      BY <3>2 DEF Disappeared, WriteFails
    <3>3. ASSUME NEW kind \in {"absent", "unsupported", "retryable"}, Fetched(e, s, kind)
          PROVE  \E next \in {"complete", "error"}, told \in BOOLEAN : Returns(e, s, next, told)
      <4>1. Returns(e, s, IF kind = "retryable" THEN "error" ELSE "complete", asset[s] # "none")
        BY <3>3 DEF Fetched
      <4> QED
        BY <4>1
    <3> QED
      BY <1>4, <3>1, <3>2, <3>3
  <2>2. \A f \in Executions, u \in Sources :
           worker'[f][u].at = "stored" => worker[f][u].at = "stored"
    <3>1. PICK next \in {"complete", "error"}, told \in BOOLEAN : Returns(e, s, next, told)
      BY <2>1
    <3>2. worker'[e][s].at # "stored"
      BY <1>0, <3>1, Returned, Nobody DEF Executions
    <3>3. \A f \in Executions, u \in Sources : f # e \/ u # s => worker'[f][u] = worker[f][u]
      BY <1>0, <3>1, Returned
    <3> QED
      BY <3>2, <3>3
  <2>3. /\ UNCHANGED <<files, raced>> /\ named \subseteq named'
        /\ \A u \in Sources : asset'[u] = "ready" =>
              \/ asset[u] = "ready"
              \/ worker[e][u].at = "stored" /\ u \in named'
    <3>1. CASE Complete(e, s)
      BY <1>0, <3>1 DEF Complete
    <3>2. CASE Disappeared(e, s) \/ WriteFails(e, s)
      BY <3>2 DEF Disappeared, WriteFails, stored
    <3>3. ASSUME NEW kind \in {"absent", "unsupported", "retryable"}, Fetched(e, s, kind)
          PROVE  /\ UNCHANGED <<files, raced>> /\ named \subseteq named'
                 /\ \A u \in Sources : asset'[u] = "ready" => asset[u] = "ready"
      BY <1>0, <3>3 DEF Fetched, Failure
    <3> QED
      BY <1>4, <3>1, <3>2, <3>3
  <2>4. \A u \in Sources : Holds(u)' => Holds(u)
    BY <2>2, <2>3 DEF Holds
  <2> QED
    BY <1>1, <2>3, <2>4
<1> QED
  BY <1>2, <1>3, <1>4 DEF Work, Trouble, StrayWorks, Materialize, Executions

\* A stored artwork keeps its file: what prune_unreferenced_library_assets
\* decides to remove is removed later, and only an artwork that took the file up
\* in between can miss it, be it with the lease of its job or without.
THEOREM FilesAreKept == AssetsSpec => []FilesStay
<1>1. AssetsInit => FileInv
  BY AssetsInvInit, Nobody
     DEF AssetsInit, FileInv, RemovableIsFree, HasFile, ReadyIsNamed, Holds, NoRun, Executions
<1>2. FileInv /\ [AssetsNext]_assets => FileInv'
  <2> SUFFICES ASSUME FileInv, [AssetsNext]_assets PROVE FileInv'
    OBVIOUS
  <2>0. AssetsInv'
    BY AssetsInvNext DEF FileInv
  <2>1. CASE Reconcile \/ \E s \in Sources : Work(s) \/ Trouble(s)
    BY <2>0, <2>1, FileReconcile, FileWork DEF FileInv
  <2>2. CASE Interrupted
    BY <2>0, <2>2 DEF Interrupted, FileInv, RemovableIsFree, HasFile, ReadyIsNamed, Holds, stored, NoRun
  <2>3. CASE Describe \/ Change \/ UNCHANGED assets
    BY <2>0, <2>3 DEF Describe, Change, assets, FileInv, RemovableIsFree, HasFile, ReadyIsNamed,
       Holds, stored
  <2> QED
    BY <2>1, <2>2, <2>3 DEF AssetsNext
<1>3. FileInv => FilesStay
  BY DEF FileInv, HasFile, Holds, FilesStay
<1> QED
  BY <1>1, <1>2, <1>3, PTL DEF AssetsSpec

-----------------------------------------------------------------------------
(***************************************************************************)
(* Jobs.                                                                   *)
(***************************************************************************)
LEMMA JobReconcile ==
    ASSUME JobInv, Reconcile
    PROVE  EndIsRecorded' /\ UnsettledIsWorkedOn'
<1> USE DEF JobInv, EndIsRecorded, UnsettledIsWorkedOn, Forgotten, LastAttempt, Ending
<1>0. /\ JobRows /\ worker \in [Executions -> [Sources -> Workings]] /\ JobOK
      /\ job \in [Sources -> [state : Live \cup {"none", "complete", "failed", "cancelled"},
                              attempts : 0 .. MaxAttempts]]
      /\ asset \in [Sources -> Final \cup Unsettled \cup {"none"}]
  BY AssetsParts DEF JobRows, AssetsInv, AssetsTypeOK
<1>1. ASSUME UNCHANGED <<job, worker, left>>,
             \A s \in Sources : asset'[s] \in Unsettled => asset[s] \in Unsettled
      PROVE  EndIsRecorded' /\ UnsettledIsWorkedOn'
  BY <1>1
<1>2. CASE /\ \/ Wake \/ Upsert \/ DeleteObsolete \/ ListSources \/ ReadHeld \/ ReadRows
              \/ RemoveAdmissions \/ PruneRead \/ RemoveFile \/ \E r \in Releases : Admit(r)
           /\ UNCHANGED <<job, worker, left>>
  <2>1. asset' = asset
    BY <1>2 DEF Wake, Upsert, DeleteObsolete, ListSources, ReadHeld, ReadRows,
       RemoveAdmissions, PruneRead, RemoveFile, Admit, stored
  <2> QED
    BY <1>1, <1>2, <2>1
<1>3. CASE PruneCommit /\ UNCHANGED <<job, worker, left>>
  BY <1>1, <1>3 DEF PruneCommit, Unsettled
<1>4. ASSUME NEW s \in Sources, Ensure(s)
      PROVE  EndIsRecorded' /\ UnsettledIsWorkedOn'
  <2> DEFINE rewritten == asset[s] \in {"none", "failed_terminal"}
             work == worker'["holder"][s]
  <2>1. /\ work.at = worker["holder"][s].at /\ work.last = worker["holder"][s].last
        /\ work.told => worker["holder"][s].told /\ ~rewritten
        /\ \A u \in Sources : u # s => worker'["holder"][u] = worker["holder"][u]
    BY <1>0, <1>4, Ensured DEF Executions
  <2>3. /\ asset' = [asset EXCEPT ![s] = IF rewritten THEN "pending" ELSE @]
        /\ job' = [job EXCEPT ![s] = IF job[s].state \in Live THEN job[s] ELSE Queued]
        /\ left' = IF job[s].state \in Live THEN left ELSE left \ {s}
    BY <1>0, <1>4 DEF Ensure, Queued
  <2>5. /\ job'[s].state \in Live /\ (job'[s].state = "running" => job'[s] = job[s] /\ left' = left)
        /\ worker["holder"][s].at # "none" => left' = left
        /\ \A u \in Sources : u # s => job'[u] = job[u] /\ asset'[u] = asset[u]
                                       /\ (u \in left' <=> u \in left)
    BY <1>0, <2>3, QueuedJob DEF Live, JobOK
  <2>6. UnsettledIsWorkedOn'
    BY <2>5
  <2>7. ~rewritten => asset'[s] = asset[s]
    BY <1>0, <2>3
  <2>8. EndIsRecorded'
    <3>1. /\ worker'["holder"][s].told => worker'["holder"][s].at \in {"complete", "error"}
          /\ job'[s].state = "running" => worker'["holder"][s].last = LastAttempt(s)'
      BY <2>1, <2>5
    <3>2. Ending(s)' => asset'[s] \notin Unsettled \/ s \in left'
      BY <2>1, <2>5, <2>7
    <3>3. ASSUME NEW u \in Sources, u # s
          PROVE  /\ worker'["holder"][u].told => worker'["holder"][u].at \in {"complete", "error"}
                 /\ job'[u].state = "running" => worker'["holder"][u].last = LastAttempt(u)'
                 /\ Ending(u)' => asset'[u] \notin Unsettled \/ u \in left'
      BY <2>1, <2>5, <3>3
    <3> QED
      BY <3>1, <3>2, <3>3
  <2> QED
    BY <2>6, <2>8
<1> QED
  BY <1>2, <1>3, <1>4 DEF Reconcile

\* A handler, with the lease or without it.
LEMMA JobMaterialize ==
    ASSUME JobInv, NEW e \in Executions, NEW s \in Sources, Materialize(e, s) \/ WriteFails(e, s)
    PROVE  EndIsRecorded' /\ UnsettledIsWorkedOn'
<1> USE DEF JobInv, EndIsRecorded, UnsettledIsWorkedOn, Forgotten, LastAttempt, Ending
<1>0. /\ JobRows /\ worker \in [Executions -> [Sources -> Workings]] /\ JobOK
      /\ asset \in [Sources -> Final \cup Unsettled \cup {"none"}]
      /\ job' = job /\ worker[e][s].at \in {"fetching", "stored"}
      /\ e = "holder" => job[s].state = "running"
  BY AssetsParts DEF JobRows, AssetsInv, AssetsTypeOK, Materialize, Store, Complete, Disappeared,
     Fetched, WriteFails, JobOK
<1>1. ASSUME UNCHANGED <<asset, left>>, worker'["holder"] = worker["holder"]
      PROVE  EndIsRecorded' /\ UnsettledIsWorkedOn'
  BY <1>0, <1>1
<1>2. CASE Store(e, s)
  <2>1. /\ \A u \in Sources : u # s \/ e # "holder" => worker'["holder"][u] = worker["holder"][u]
        /\ e = "holder" => /\ worker'["holder"][s].last = worker["holder"][s].last
                           /\ worker'["holder"][s].told = worker["holder"][s].told
    BY <1>0, <1>2, Stored DEF Executions
  <2>2. UNCHANGED <<asset, left>>
    BY <1>2 DEF Store
  <2>3. e = "holder" => ~worker["holder"][s].told
    BY <1>0
  <2> QED
    BY <1>0, <2>1, <2>2, <2>3
<1>3. ASSUME NEW next \in {"complete", "error"}, NEW told \in BOOLEAN, Returns(e, s, next, told),
             \A u \in Sources : u # s => asset'[u] = asset[u] /\ (u \in left' <=> u \in left),
             \/ asset'[s] = asset[s] /\ left' = left /\ ~told
             \/ /\ Reports(e, s)
                /\ e = "holder" /\ told /\ (next = "complete" \/ worker[e][s].last)
                       => asset'[s] \notin Unsettled
      PROVE  EndIsRecorded' /\ UnsettledIsWorkedOn'
  <2>1. /\ e = "stray" => worker'[e][s] = NoWork
        /\ e = "holder" => /\ worker'[e][s].at = next /\ worker'[e][s].told = told
                           /\ worker'[e][s].last = worker[e][s].last
        /\ \A u \in Sources : u # s \/ e # "holder" => worker'["holder"][u] = worker["holder"][u]
    BY <1>0, <1>3, Returned DEF Executions
  <2>2. CASE e = "stray"
    <3>1. left \subseteq left' /\ (s \in left' \/ asset'[s] = asset[s])
      BY <1>3, <2>2 DEF Reports
    <3> QED
      BY <1>0, <1>3, <2>1, <2>2, <3>1
  <2>3. CASE e = "holder"
    <3>1. UnsettledIsWorkedOn'
      BY <1>0, <1>3, <2>3 DEF Live
    <3>2. /\ worker'["holder"][s].at = next /\ worker'["holder"][s].told = told
          /\ worker'["holder"][s].last = worker["holder"][s].last
      BY <2>1, <2>3
    <3>3. EndIsRecorded'
      BY <1>0, <1>3, <2>1, <2>3, <3>2
    <3> QED
      BY <3>1, <3>3
  <2> QED
    BY <2>2, <2>3 DEF Executions
<1>4. CASE Complete(e, s)
  <2>1. Returns(e, s, "complete", TRUE) /\ Reports(e, s) /\ asset' = [asset EXCEPT ![s] = "ready"]
    BY <1>4 DEF Complete
  <2>2. \A u \in Sources : u # s => asset'[u] = asset[u] /\ (u \in left' <=> u \in left)
    BY <1>0, <2>1 DEF Reports
  <2>3. asset'[s] \notin Unsettled
    BY <1>0, <2>1 DEF Unsettled
  <2> QED
    BY <1>3, <2>1, <2>2, <2>3
<1>5. CASE Disappeared(e, s) \/ WriteFails(e, s)
  <2>1. Returns(e, s, "error", FALSE) /\ UNCHANGED <<asset, left>>
    BY <1>5 DEF Disappeared, WriteFails, stored
  <2> QED
    BY <1>3, <2>1
<1>6. ASSUME NEW kind \in {"absent", "unsupported", "retryable"}, Fetched(e, s, kind)
      PROVE  EndIsRecorded' /\ UnsettledIsWorkedOn'
  <2> DEFINE next == IF kind = "retryable" THEN "error" ELSE "complete"
             told == asset[s] # "none"
  <2>1. /\ Returns(e, s, next, told) /\ Reports(e, s) /\ next \in {"complete", "error"}
        /\ asset' = [asset EXCEPT ![s] = IF @ = "none" THEN @ ELSE Failure(e, s, kind)]
    BY <1>6 DEF Fetched
  <2>2. \A u \in Sources : u # s => asset'[u] = asset[u] /\ (u \in left' <=> u \in left)
    BY <1>0, <2>1 DEF Reports
  <2>3. told /\ (next = "complete" \/ worker[e][s].last) => asset'[s] \notin Unsettled
    BY <1>0, <2>1 DEF Failure, Unsettled
  <2> HIDE DEF next, told
  <2>4. told \in BOOLEAN
    BY DEF told
  <2> QED
    BY <1>3, <2>1, <2>2, <2>3, <2>4
<1> QED
  BY <1>2, <1>4, <1>5, <1>6 DEF Materialize

\* The steps at which a job begins or ends.
LEMMA JobSteps ==
    ASSUME JobInv, NEW s \in Sources,
           Claim(s) \/ FinishJob(s) \/ Expire(s) \/ Cancel(s) \/ Retry(s)
    PROVE  EndIsRecorded' /\ UnsettledIsWorkedOn'
<1> USE DEF JobInv, EndIsRecorded, UnsettledIsWorkedOn, Forgotten, LastAttempt, Ending
<1>0. /\ JobRows /\ worker \in [Executions -> [Sources -> Workings]] /\ JobOK
      /\ job \in [Sources -> [state : Live \cup {"none", "complete", "failed", "cancelled"},
                              attempts : 0 .. MaxAttempts]]
      /\ asset' = asset
  BY AssetsParts DEF JobRows, Claim, FinishJob, Expire, Cancel, Retry, stored
<1>1. ASSUME \A u \in Sources : u # s => /\ worker'["holder"][u] = worker["holder"][u]
                                         /\ job'[u] = job[u] /\ (u \in left' <=> u \in left),
             ~worker'["holder"][s].told,
             job'[s].state = "running" => worker'["holder"][s].last = LastAttempt(s)',
             Forgotten(s)' => s \in left'
      PROVE  EndIsRecorded' /\ UnsettledIsWorkedOn'
  BY <1>0, <1>1
<1>2. CASE Claim(s)
  <2> DEFINE work == [at |-> "fetching", last |-> LastAttempt(s), told |-> FALSE]
  <2>1. work \in Workings /\ work.last = LastAttempt(s) /\ ~work.told
    BY DEF Workings, Places
  <2>2. worker' = [worker EXCEPT !["holder"][s] = work]
    BY <1>2 DEF Claim
  <2> HIDE DEF work
  <2>3. /\ worker'["holder"][s] = work
        /\ \A u \in Sources : u # s => worker'["holder"][u] = worker["holder"][u]
    BY <1>0, <2>1, <2>2, OneWorks DEF Executions
  <2>4. /\ job'[s].state = "running" /\ job'[s].attempts = job[s].attempts
        /\ \A u \in Sources : u # s => job'[u] = job[u]
        /\ left' = left
    BY <1>0, <1>2 DEF Claim
  <2> QED
    BY <1>1, <2>1, <2>3, <2>4 DEF Live
<1>3. CASE FinishJob(s) \/ Expire(s) \/ Cancel(s)
  <2>1. /\ worker'["holder"][s] = NoWork
        /\ \A u \in Sources : u # s => worker'["holder"][u] = worker["holder"][u]
    <3>1. CASE FinishJob(s)
      BY <1>0, <3>1, Nobody, OneWorks DEF FinishJob, Executions
    <3>2. CASE Expire(s) \/ Cancel(s)
      BY <1>0, <3>2, HolderStops DEF Expire, Cancel, Executions
    <3> QED
      BY <1>3, <3>1, <3>2
  <2>2. \A u \in Sources : u # s => job'[u] = job[u] /\ (u \in left' <=> u \in left)
    BY <1>0, <1>3 DEF FinishJob, Expire, Cancel, Over
  <2>3. job'[s].state # "running" /\ (Forgotten(s)' => s \in left')
    <3>1. CASE Cancel(s)
      BY <1>0, <3>1 DEF Cancel
    <3>2. CASE FinishJob(s) /\ worker["holder"][s].at = "complete"
      BY <1>0, <3>2 DEF FinishJob, Over, Live
    <3>3. CASE Expire(s) \/ (FinishJob(s) /\ worker["holder"][s].at # "complete")
      <4>1. /\ job' = [job EXCEPT ![s] = Again(s)]
            /\ left' = IF Again(s).state \in Live \/ worker["holder"][s].told
                       THEN left ELSE left \cup {s}
        BY <3>3 DEF Expire, FinishJob, Over
      <4>2. /\ job'[s].state \in {"failed", "queued"}
            /\ job'[s].state = "failed" => LastAttempt(s) /\ Again(s).state = "failed"
        BY <1>0, <4>1 DEF Again
      <4>3. job[s].state = "running"
        BY <1>0, <3>3 DEF Expire, FinishJob, JobOK
      <4>4. worker["holder"][s].told /\ LastAttempt(s) => Ending(s)
        BY <4>3
      <4> QED
        BY <1>0, <4>1, <4>2, <4>4 DEF Live
    <3> QED
      BY <1>3, <3>1, <3>2, <3>3
  <2> QED
    BY <1>1, <2>1, <2>2, <2>3, Nobody
<1>4. CASE Retry(s)
  <2>1. /\ job' = [job EXCEPT ![s] = Queued]
        /\ worker' = worker /\ left' = left \ {s}
    BY <1>4 DEF Retry, Queued
  <2>2. worker["holder"][s].at = "none"
    BY <1>0, <1>4 DEF Retry, JobOK, JobRows, Executions, Workings, Places
  <2>3. ~worker["holder"][s].told
    BY <2>2
  <2> QED
    BY <1>0, <1>1, <2>1, <2>3, QueuedJob DEF Live
<1> QED
  BY <1>2, <1>3, <1>4

LEMMA JobWork ==
    ASSUME JobInv, NEW s \in Sources, Work(s) \/ Trouble(s)
    PROVE  EndIsRecorded' /\ UnsettledIsWorkedOn'
<1>1. CASE Heartbeat(s)
  <2>1. worker'["holder"] = worker["holder"] /\ UNCHANGED <<asset, job, left>>
    BY <1>1, AssetsParts DEF Heartbeat, stored, JobInv, JobRows, Executions
  <2> QED
    BY <2>1 DEF JobInv, EndIsRecorded, UnsettledIsWorkedOn, Forgotten, LastAttempt, Ending
<1>2. CASE \E e \in Executions : Materialize(e, s) \/ WriteFails(e, s)
  BY <1>2, JobMaterialize
<1>3. CASE Claim(s) \/ FinishJob(s) \/ Expire(s) \/ Cancel(s) \/ Retry(s)
  BY <1>3, JobSteps
<1> QED
  BY <1>1, <1>2, <1>3 DEF Work, Trouble, StrayWorks, Executions

\* An artwork whose row says that it is to be fetched has a job that will be run, in
\* every order of ensure_library_asset, materialize_library_asset, its settling,
\* the recovery of leases, the clicks of operators and the executions without a
\* lease, unless one of the things that UnsettledIsWorkedOn names happened.
THEOREM UnsettledArtworkIsWorkedOn == AssetsSpec => []UnsettledIsWorkedOn
<1>1. AssetsInit => JobInv
  BY AssetsInvInit, Nobody
     DEF AssetsInit, JobInv, EndIsRecorded, Ending, UnsettledIsWorkedOn, Forgotten, NoJob, Live,
         Unsettled, Executions
<1>2. JobInv /\ [AssetsNext]_assets => JobInv'
  <2> SUFFICES ASSUME JobInv, [AssetsNext]_assets PROVE JobInv'
    OBVIOUS
  <2>0. AssetsInv'
    BY AssetsInvNext DEF JobInv
  <2>1. CASE Reconcile \/ \E s \in Sources : Work(s) \/ Trouble(s)
    BY <2>0, <2>1, JobReconcile, JobWork DEF JobInv
  <2>2. CASE Interrupted \/ Describe \/ Change \/ UNCHANGED assets
    BY <2>0, <2>2 DEF Interrupted, Describe, Change, assets, JobInv, EndIsRecorded, Ending,
       UnsettledIsWorkedOn, Forgotten, LastAttempt, stored
  <2> QED
    BY <2>1, <2>2 DEF AssetsNext
<1>3. JobInv => UnsettledIsWorkedOn
  BY DEF JobInv
<1> QED
  BY <1>1, <1>2, <1>3, PTL DEF AssetsSpec
=============================================================================
