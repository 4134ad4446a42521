---------------------------- MODULE DownloadsProofs ----------------------------
(***************************************************************************)
(* Theorems about what becomes of a download:                              *)
(*   ReplacementImports, for every set of sources and every bound: type    *)
(*     correctness, that only what was found removable is removed, and     *)
(*     that what is recorded as removed is gone;                           *)
(*   DownloadIndex, for every set of torrents and every bound: type        *)
(*     correctness, and that a torrent found complete stays in the         *)
(*     Library.                                                            *)
(***************************************************************************)
EXTENDS ReplacementImports, DownloadIndex, TLAPS

(***************************************************************************)
(* Type correctness: first the columns an action writes.                   *)
(***************************************************************************)
WorldOK ==
    /\ client \in [Watched -> {"absent", "partial", "whole"}]
    /\ clear \subseteq Sources /\ registered \subseteq Sources /\ placed \in BOOLEAN
    /\ download \in {"none", "queued", "added", "failed"}
RowsOK ==
    /\ accepting \in {"no", "created", "listed"}
    /\ task \in [state : States, bound : BOOLEAN]
    /\ cleanup \in [Sources -> [mode : Modes, state : Settled \cup {"absent", "pending"}]]
    /\ plain \in [Watched -> States]
JobOK ==
    job \in [state : {"absent", "pending", "running", "waiting", "completed", "failed",
                      "cancelled"},
             attempts : 0..MaxAttempts]
WorkOK ==
    /\ worker \in [Executions -> Execution]
    /\ worker["holder"].at # "idle" => job.state = "running"
BoundsOK == faults \in 0..MaxFaults /\ changes \in 0..MaxChanges /\ clicks \in 0..MaxClicks

LEMMA TypeParts ==
    /\ TypeOK <=> WorldOK /\ RowsOK /\ JobOK /\ WorkOK /\ BoundsOK
    /\ TypeOK' <=> WorldOK' /\ RowsOK' /\ JobOK' /\ WorkOK' /\ BoundsOK'
BY DEF TypeOK, WorldOK, RowsOK, JobOK, WorkOK, BoundsOK

LEMMA UnchangedParts ==
    /\ WorldOK /\ UNCHANGED World => WorldOK'
    /\ RowsOK /\ UNCHANGED Rows => RowsOK'
    /\ JobOK /\ UNCHANGED job => JobOK'
    /\ WorkOK /\ UNCHANGED <<job, worker>> => WorkOK'
    /\ BoundsOK /\ UNCHANGED Bounds => BoundsOK'
BY DEF World, Rows, Bounds, WorldOK, RowsOK, JobOK, WorkOK, BoundsOK

LEMMA Counting == ConstantsFit /\ BoundsOK /\ (Fault \/ Click \/ Change) => BoundsOK'
BY DEF ConstantsFit, BoundsOK, Fault, Click, Change

LEMMA IdleWorker ==
    /\ Idle \in Execution /\ Idle.at = "idle" /\ Idle.plan = {}
    /\ \A state \in States :
          /\ Follows(state) \in Execution /\ Follows(state).plan = {}
          /\ Follows(state).at = "following"
BY DEF Idle, Follows, Execution, Steps, Modes, States

\* The step of one execution.
LEMMA OneGoes ==
    ASSUME WorkOK, NEW e \in Executions, NEW record \in Execution,
           worker' = [worker EXCEPT ![e] = record]
    PROVE  /\ worker' \in [Executions -> Execution] /\ worker'[e] = record
           /\ \A f \in Executions \ {e} : worker'[f] = worker[f]
BY DEF WorkOK

LEMMA AttemptedJob ==
    ASSUME ConstantsFit, NEW state \in {"pending", "waiting", "completed", "failed"}, NEW n \in Nat
    PROVE  /\ Attempted(state, n).attempts \in 0..MaxAttempts
           /\ Attempted(state, n).state \in {"pending", "waiting", "completed", "failed"}
           /\ Attempted(state, n) \in [state : {"pending", "waiting", "completed", "failed"},
                                       attempts : 0..MaxAttempts]
BY DEF Attempted, ConstantsFit

\* An execution that is over has left nothing behind.
LEMMA OverIsIdle ==
    ASSUME ConstantsFit, JobOK, WorkOK, NEW e \in Executions,
           NEW state \in {"pending", "waiting", "completed", "failed"}, NEW n \in Nat,
           Over(e, state, n)
    PROVE  JobOK' /\ WorkOK'
<1>1. /\ worker' \in [Executions -> Execution] /\ worker'[e] = Idle
      /\ \A f \in Executions \ {e} : worker'[f] = worker[f]
  BY IdleWorker, OneGoes DEF Over
<1>2. JobOK'
  BY AttemptedJob DEF Over, JobOK
<1>3. worker'["holder"].at # "idle" => e # "holder" /\ job' = job
  BY <1>1, IdleWorker DEF Over, Executions
<1> QED
  BY <1>1, <1>2, <1>3 DEF WorkOK, Executions

\* One that goes on keeps the job as it is.
LEMMA OneWorks ==
    ASSUME WorkOK, JobOK, NEW e \in Executions, NEW record \in Execution, worker[e].at # "idle",
           worker' = [worker EXCEPT ![e] = record], UNCHANGED job
    PROVE  WorkOK' /\ JobOK'
<1>1. /\ worker' \in [Executions -> Execution]
      /\ \A f \in Executions \ {e} : worker'[f] = worker[f]
  BY OneGoes
<1> QED
  BY <1>1 DEF WorkOK, JobOK, Executions

LEMMA GoesOn ==
    ASSUME WorkOK, JobOK, NEW e \in Executions, NEW step \in Steps, Goes(e, step),
           worker[e].at # "idle"
    PROVE  /\ WorkOK' /\ JobOK'
           /\ worker' = [worker EXCEPT ![e] = [worker[e] EXCEPT !.at = step]]
<1>1. worker[e] \in Execution
  BY DEF WorkOK
<1>2. [worker[e] EXCEPT !.at = step] \in Execution
  BY <1>1 DEF Execution
<1>3. worker' = [worker EXCEPT ![e] = [worker[e] EXCEPT !.at = step]]
  BY DEF Goes, WorkOK
<1> QED
  BY <1>2, <1>3, OneWorks DEF Goes

LEMMA EndsFollowing ==
    ASSUME WorkOK, JobOK, RowsOK, NEW e \in Executions, NEW state \in States, Ends(e, state),
           worker[e].at # "idle"
    PROVE  WorkOK' /\ JobOK' /\ task' \in [state : States, bound : BOOLEAN]
<1>1. WorkOK' /\ JobOK'
  BY IdleWorker, OneWorks DEF Ends
<1> QED
  BY <1>1 DEF Ends, SetState, RowsOK

\* The holder without its lease, and the execution a recovered job leaves.
LEMMA StraysOn ==
    ASSUME WorkOK, Strays
    PROVE  worker' \in [Executions -> Execution] /\ worker'["holder"].at = "idle"
BY IdleWorker DEF Strays, WorkOK, Executions

LEMMA TypeClient ==
    ASSUME ConstantsFit, TypeOK,
           Submitted \/ Downloaded \/ Interferes \/ \E t \in Watched : Observe(t)
    PROVE  TypeOK'
<1> USE TypeParts, UnchangedParts
<1>1. CASE Submitted \/ Downloaded
  BY <1>1 DEF Submitted, Downloaded, Aside, WorldOK, RowsOK, JobOK, WorkOK, Rows, Bounds
<1>2. CASE Interferes
  <2>1. WorldOK' /\ BoundsOK'
    BY <1>2, Counting DEF Interferes, WorldOK
  <2> QED
    BY <1>2, <2>1 DEF Interferes, Aside, RowsOK, JobOK, WorkOK
<1>3. ASSUME NEW t \in Watched, Observe(t)
      PROVE  TypeOK'
  <2>1. RowsOK'
    BY <1>3 DEF Observe, RowsOK, States, Review
  <2> QED
    BY <1>3, <2>1 DEF Observe, WorkOK, JobOK
<1> QED
  BY <1>1, <1>2, <1>3

LEMMA TypeRequests ==
    ASSUME ConstantsFit, TypeOK,
           \/ Create \/ Enqueue \/ RetryImport \/ DismissImport \/ CancelJob
           \/ RetryFailedJob \/ Resume \/ LoseLease \/ Heartbeat \/ Crash
           \/ \E mode \in Modes : List(mode)
    PROVE  TypeOK'
<1> USE TypeParts, UnchangedParts, Counting DEF States, Review
<1>0. job.attempts \in Nat /\ job.attempts + 1 \in Nat
  BY DEF JobOK, ConstantsFit
<1>1. CASE Create
  BY <1>1 DEF Create, RowsOK, WorkOK, JobOK
<1>2. CASE Enqueue \/ RetryImport
  <2>1. JobOK' /\ WorkOK'
    BY <1>2 DEF Enqueue, RetryImport, Rearmed, JobOK, WorkOK, ConstantsFit
  <2> QED
    BY <1>2, <2>1 DEF Enqueue, RetryImport, RowsOK
<1>3. CASE DismissImport
  BY <1>3 DEF DismissImport, RowsOK, WorkOK, JobOK
<1>4. CASE CancelJob
  BY <1>4, StraysOn DEF CancelJob, JobOK, WorkOK
<1>5. ASSUME NEW mode \in Modes, List(mode)
      PROVE  TypeOK'
  <2>1. RowsOK'
    BY <1>5 DEF List, RowsOK
  <2> QED
    BY <1>5, <2>1 DEF List, WorkOK, JobOK
<1>6. CASE RetryFailedJob \/ Resume
  <2>1. JobOK' /\ WorkOK'
    BY <1>6 DEF RetryFailedJob, Resume, JobOK, WorkOK, ConstantsFit
  <2> QED
    BY <1>6, <2>1 DEF RetryFailedJob, Resume, Bounds, BoundsOK
<1>7. CASE LoseLease
  <2>1. JobOK'
    BY <1>0, <1>7, AttemptedJob DEF LoseLease, LeaseOver, JobOK
  <2> QED
    BY <1>7, <2>1, StraysOn DEF LoseLease, WorkOK
<1>8. CASE Heartbeat
  <2>1. WorkOK' /\ JobOK'
    BY <1>8, IdleWorker, OneWorks DEF Heartbeat, Executions
  <2> QED
    BY <1>8, <2>1 DEF Heartbeat, BreaksOff, WorldOK
<1>9. CASE Crash
  <2>1. JobOK' /\ WorkOK'
    BY <1>0, <1>9, AttemptedJob, IdleWorker DEF Crash, LeaseOver, JobOK, WorkOK, Executions
  <2> QED
    BY <1>9, <2>1 DEF Crash, RowsOK
<1> QED
  BY <1>1, <1>2, <1>3, <1>4, <1>5, <1>6, <1>7, <1>8, <1>9

LEMMA TypeStart ==
    ASSUME ConstantsFit, TypeOK, Start
    PROVE  TypeOK'
<1> USE TypeParts, UnchangedParts
<1>0. job.attempts \in Nat /\ "holder" \in Executions
  BY DEF JobOK, ConstantsFit, Executions
<1>1. WorldOK' /\ BoundsOK'
  BY DEF Start
<1>2. RowsOK'
  BY DEF Start, RowsOK, SetState, States, Review
<1>3. CASE Completes("holder") \/ Defers("holder")
  BY <1>0, <1>1, <1>2, <1>3, OverIsIdle DEF Completes, Defers
<1>4. ASSUME NEW record \in Execution, Begins(record)
      PROVE  TypeOK'
  <2>1. JobOK' /\ WorkOK'
    BY <1>0, <1>4, OneGoes DEF Begins, JobOK, WorkOK
  <2> QED
    BY <1>1, <1>2, <2>1
<1>5. [Idle EXCEPT !.at = "binding", !.mode = ModeRead,
                   !.todo = {s \in Sources : cleanup[s].state = "pending"}] \in Execution
  <2>1. ModeRead \in Modes
    BY DEF ModeRead, RowsOK, ConstantsFit
  <2> QED
    BY <2>1, IdleWorker DEF Execution, Steps
<1>6. Follows("failed") \in Execution
  BY IdleWorker DEF States, Review
<1> QED
  BY <1>3, <1>4, <1>5, <1>6 DEF Start

\* The records a step of process_import leaves.
LEMMA StepsAre ==
    ASSUME WorkOK, NEW e \in Executions, NEW s \in Sources
    PROVE  LET me == worker[e]
               found == [me EXCEPT !.todo = me.todo \ {s}, !.plan = me.plan \cup {s},
                   !.sound = IF s \notin registered /\ s \in clear THEN me.sound \cup {s}
                                                                  ELSE me.sound]
           IN  /\ me \in Execution
               /\ [me EXCEPT !.at = "verifying", !.whole = TRUE] \in Execution
               /\ [me EXCEPT !.todo = me.todo \ {s}] \in Execution
               /\ found \in Execution
               /\ [me EXCEPT !.at = "recording", !.plan = me.plan \ {s}, !.on = s] \in Execution
<1> DEFINE me == worker[e]
<1>1. me \in Execution
  BY DEF WorkOK
<1> HIDE DEF me
<1>2. me \in Execution =>
         /\ [me EXCEPT !.at = "verifying", !.whole = TRUE] \in Execution
         /\ [me EXCEPT !.todo = me.todo \ {s}] \in Execution
         /\ [me EXCEPT !.at = "recording", !.plan = me.plan \ {s}, !.on = s] \in Execution
  BY DEF Execution, Steps
<1>3. ASSUME NEW some \in SUBSET Sources
      PROVE  [me EXCEPT !.todo = me.todo \ {s}, !.plan = me.plan \cup {s}, !.sound = some]
                \in Execution
  BY <1>1 DEF Execution
<1>4. me.sound \cup {s} \in SUBSET Sources /\ me.sound \in SUBSET Sources
  BY <1>1 DEF Execution
<1> QED
  BY <1>1, <1>2, <1>3, <1>4 DEF me

LEMMA TypeProcess ==
    ASSUME ConstantsFit, TypeOK, NEW e \in Executions,
           Process(e) \/ CallFails(e) \/ CallIsRefused(e)
    PROVE  TypeOK'
<1> USE TypeParts, UnchangedParts
<1>0. job.attempts \in Nat /\ job.attempts + 1 \in Nat /\ worker[e] \in Execution
  BY DEF JobOK, WorkOK, ConstantsFit
<1>1. ASSUME \/ Completes(e) \/ Defers(e) \/ Errs(e)
             \/ \E state \in {"pending", "waiting", "failed"} : Over(e, state, job.attempts)
      PROVE  JobOK' /\ WorkOK'
  BY <1>0, <1>1, OverIsIdle DEF Completes, Defers, Errs
<1>2. CASE Bind(e)
  <2>1. RowsOK'
    BY <1>2 DEF Bind, InStep, RowsOK
  <2>2. JobOK' /\ WorkOK'
    BY <1>1, <1>2, GoesOn DEF Bind, InStep, Steps
  <2> QED
    BY <1>2, <2>1, <2>2 DEF Bind, InStep
<1>3. CASE Look(e)
  <2>1. WorldOK' /\ BoundsOK' /\ worker[e].at # "idle" /\ UNCHANGED <<accepting, plain>>
    BY <1>3 DEF Look, InStep
  <2>2. CASE Defers(e) /\ UNCHANGED cleanup /\ (UNCHANGED task \/ SetState("downloading"))
    BY <1>1, <2>1, <2>2 DEF RowsOK, SetState, States
  <2>3. CASE /\ cleanup' = Retained({s \in Sources : Listed(s)})
             /\ Goes(e, "completing") /\ UNCHANGED task
    <3>1. RowsOK'
      BY <2>1, <2>3 DEF Retained, RowsOK, Settled
    <3> QED
      BY <2>1, <2>3, <3>1, GoesOn DEF Steps
  <2>4. CASE Block(e)
    BY <2>1, <2>4, EndsFollowing DEF Block, RowsOK, States, Review
  <2>5. CASE /\ SetState("processing") /\ UNCHANGED <<cleanup, job>>
             /\ worker' = [worker EXCEPT ![e].at = "verifying", ![e].whole = TRUE]
    <3>1. worker' = [worker EXCEPT ![e] =
                        [worker[e] EXCEPT !.at = "verifying", !.whole = TRUE]]
      BY <2>5 DEF WorkOK
    <3>2. WorkOK' /\ JobOK'
      <4>1. PICK s : s \in Sources
        BY DEF ConstantsFit
      <4> QED
        BY <2>1, <2>5, <3>1, <4>1, StepsAre, OneWorks
    <3> QED
      BY <2>1, <2>5, <3>2 DEF RowsOK, SetState, States
  <2> QED
    BY <1>3, <2>2, <2>3, <2>4, <2>5 DEF Look
<1>4. ASSUME NEW s \in Sources, Verify(e, s)
      PROVE  TypeOK'
  <2>1. /\ WorldOK' /\ BoundsOK' /\ worker[e].at # "idle" /\ UNCHANGED <<accepting, plain>>
    BY <1>4 DEF Verify, InStep
  <2>2. CASE Block(e)
    BY <2>1, <2>2, EndsFollowing DEF Block, RowsOK, States, Review
  <2>3. CASE /\ cleanup' = [cleanup EXCEPT ![s].state = "removed"]
             /\ worker' = [worker EXCEPT ![e].todo = @ \ {s}] /\ UNCHANGED <<job, task>>
    <3>1. worker' = [worker EXCEPT ![e] = [worker[e] EXCEPT !.todo = worker[e].todo \ {s}]]
      BY <2>3 DEF WorkOK
    <3>2. WorkOK' /\ JobOK'
      BY <2>1, <2>3, <3>1, StepsAre, OneWorks
    <3> QED
      BY <2>1, <2>3, <3>2 DEF RowsOK, Settled
  <2>4. CASE /\ worker' = [worker EXCEPT ![e].todo = @ \ {s}, ![e].plan = @ \cup {s},
                    ![e].sound = IF s \notin registered /\ s \in clear THEN @ \cup {s} ELSE @]
             /\ UNCHANGED <<cleanup, task, job>>
    <3> DEFINE found == [worker[e] EXCEPT
                   !.todo = worker[e].todo \ {s}, !.plan = worker[e].plan \cup {s},
                   !.sound = IF s \notin registered /\ s \in clear
                             THEN worker[e].sound \cup {s} ELSE worker[e].sound]
    <3>1. worker' = [worker EXCEPT ![e] = found]
      BY <2>4 DEF WorkOK
    <3>2. found \in Execution
      BY StepsAre
    <3> HIDE DEF found
    <3>3. WorkOK' /\ JobOK'
      BY <2>1, <2>4, <3>1, <3>2, OneWorks
    <3> QED
      BY <2>1, <2>4, <3>3 DEF RowsOK
  <2> QED
    BY <1>4, <2>2, <2>3, <2>4 DEF Verify
<1>5. CASE Verified(e) \/ Scan(e, "showing") \/ Scan(e, "rescanning")
  BY <1>5, GoesOn DEF Verified, Scan, InStep, RowsOK, Steps
<1>6. ASSUME NEW s \in Sources, Delete(e, s)
      PROVE  TypeOK'
  <2>1. worker' = [worker EXCEPT ![e] =
           [worker[e] EXCEPT !.at = "recording", !.plan = worker[e].plan \ {s}, !.on = s]]
    BY <1>6 DEF Delete, Recording, WorkOK
  <2>2. WorkOK' /\ JobOK'
    BY <1>6, <2>1, StepsAre, OneWorks DEF Delete
  <2> QED
    BY <1>6, <2>2 DEF Delete, WorldOK
<1>7. CASE Record(e)
  BY <1>7, GoesOn DEF Record, InStep, RowsOK, Settled, Steps
<1>8. CASE Complete(e)
  BY <1>8, EndsFollowing DEF Complete, InStep, RowsOK, States
<1>9. CASE Follow(e)
  <2>1. RowsOK'
    BY <1>9 DEF Follow, InStep, RowsOK, States, Review
  <2> QED
    BY <1>1, <1>9, <2>1 DEF Follow, InStep
<1>10. CASE CallFails(e)
  BY <1>1, <1>10 DEF CallFails, BreaksOff, WorldOK
<1>11. CASE CallIsRefused(e)
  BY <1>1, <1>11, Counting DEF CallIsRefused, BreaksOff, WorldOK
<1> QED
  BY <1>2, <1>3, <1>4, <1>5, <1>6, <1>7, <1>8, <1>9, <1>10, <1>11 DEF Process

\* The import's rows, the client and the executions of process_import have their
\* types.
THEOREM TypeCorrect == ASSUME ConstantsFit PROVE Spec => []TypeOK
<1>1. Init => TypeOK
  BY IdleWorker DEF Init, TypeOK, ConstantsFit, Modes, States, Watched, Executions
<1>2. TypeOK /\ [Next]_vars => TypeOK'
  <2>1. TypeOK /\ UNCHANGED vars => TypeOK'
    BY DEF vars, TypeOK, World, Rows, Bounds
  <2> QED
    BY <2>1, TypeClient, TypeRequests, TypeStart, TypeProcess DEF Next
<1> QED
  BY <1>1, <1>2, PTL DEF Spec

-----------------------------------------------------------------------------
(***************************************************************************)
(* What cleanup removes.                                                   *)
(***************************************************************************)
\* What an execution is about to remove it has found removable, after it saw the
\* replacement complete, and it was told to; what it is about to record it has
\* removed.
MayRemove(me) ==
    /\ me.plan \subseteq me.sound
    /\ me.plan # {} \/ me.at = "verifying" => me.whole /\ me.mode # "keep"
PlanIsSound == \A e \in Executions : MayRemove(worker[e])

RecordsGone(me) == me.at = "recording" => me.on \in Sources /\ client[me.on] = "absent"
RecordsWhatIsGone == \A e \in Executions : RecordsGone(worker[e])

Inv == TypeOK /\ PlanIsSound /\ RecordsWhatIsGone /\ RemovedIsGone

\* A call that breaks off has removed a planned source at most.
LEMMA BrokenOff ==
    ASSUME ConstantsFit, TypeOK, NEW e \in Executions, BreaksOff(e), NEW s \in Sources,
           client[s] # client'[s]
    PROVE  client'[s] = "absent" /\ worker[e].at = "deleting" /\ s \in worker[e].plan
BY DEF BreaksOff, TypeOK, Watched, ConstantsFit

\* A torrent of the sources is lost in these steps only.
LEMMA Losing ==
    ASSUME ConstantsFit, TypeOK, Next, NEW s \in Sources, client[s] # client'[s]
    PROVE  /\ client'[s] = "absent"
           /\ \/ Interferes
              \/ \E e \in Executions : worker[e].at = "deleting" /\ s \in worker[e].plan
<1>0. client \in [Watched -> {"absent", "partial", "whole"}] /\ s \in Watched /\ s # Target
  BY DEF TypeOK, Watched, ConstantsFit
<1>1. CASE Submitted \/ Downloaded
  BY <1>0, <1>1 DEF Submitted, Downloaded
<1>2. CASE Interferes
  BY <1>0, <1>2 DEF Interferes
<1>3. ASSUME NEW e \in Executions, NEW u \in Sources, Delete(e, u)
      PROVE  client'[s] = "absent" /\ worker[e].at = "deleting" /\ s \in worker[e].plan
  BY <1>0, <1>3 DEF Delete
<1>4. CASE Heartbeat \/ \E e \in Executions : CallFails(e) \/ CallIsRefused(e)
  BY <1>4, BrokenOff DEF Heartbeat, CallFails, CallIsRefused, Executions
<1>5. CASE \/ Create \/ Enqueue \/ RetryImport \/ DismissImport \/ CancelJob \/ Crash
           \/ RetryFailedJob \/ Resume \/ LoseLease \/ Start
           \/ \E mode \in Modes : List(mode)
           \/ \E t \in Watched : Observe(t)
  BY <1>5 DEF World, Create, Enqueue, RetryImport, DismissImport, CancelJob, Crash, List,
     Observe, RetryFailedJob, Resume, LoseLease, Start
<1>6. ASSUME NEW e \in Executions,
             \/ Bind(e) \/ Look(e) \/ Verified(e) \/ Scan(e, "showing") \/ Scan(e, "rescanning")
             \/ Record(e) \/ Complete(e) \/ Follow(e) \/ \E u \in Sources : Verify(e, u)
      PROVE  FALSE
  BY <1>6 DEF World, InStep, Bind, Look, Verified, Scan, Record, Complete, Follow, Verify
<1> QED
  BY <1>1, <1>2, <1>3, <1>4, <1>5, <1>6 DEF Next, Process

\* What is gone stays so.
LEMMA GoneStays ==
    ASSUME ConstantsFit, TypeOK, Next, NEW s \in Sources, client[s] = "absent"
    PROVE  client'[s] = "absent"
BY Losing

\* A step that gives one execution a record which may be its own.
LEMMA OneIsSound ==
    ASSUME ConstantsFit, Inv, Next, NEW e \in Executions, NEW record,
           worker' = [worker EXCEPT ![e] = record], MayRemove(record),
           record.at = "recording" => record.on \in Sources /\ client'[record.on] = "absent"
    PROVE  PlanIsSound' /\ RecordsWhatIsGone'
<1>1. worker'[e] = record /\ \A f \in Executions \ {e} : worker'[f] = worker[f]
  BY DEF Inv, TypeOK
<1>2. PlanIsSound'
  BY <1>1 DEF Inv, PlanIsSound, MayRemove
<1>3. RecordsWhatIsGone'
  BY <1>1, GoneStays DEF Inv, RecordsWhatIsGone, RecordsGone
<1> QED
  BY <1>2, <1>3

LEMMA IdleIsSound ==
    /\ MayRemove(Idle) /\ Idle.at # "recording"
    /\ \A state : MayRemove(Follows(state)) /\ Follows(state).at # "recording"
BY DEF MayRemove, Idle, Follows

LEMMA PlanOfAll ==
    ASSUME ConstantsFit, Inv, Next,
           \/ UNCHANGED worker \/ Strays \/ worker' = [e \in Executions |-> Idle]
    PROVE  PlanIsSound' /\ RecordsWhatIsGone'
<1>1. ASSUME NEW e \in Executions
      PROVE  worker'[e] = Idle \/ \E f \in Executions : worker'[e] = worker[f]
  BY DEF Strays, Executions
<1>2. PlanIsSound'
  BY <1>1, IdleIsSound DEF Inv, PlanIsSound, MayRemove
<1>3. RecordsWhatIsGone'
  BY <1>1, IdleIsSound, GoneStays DEF Inv, RecordsWhatIsGone, RecordsGone
<1> QED
  BY <1>2, <1>3

LEMMA PlanOfProcess ==
    ASSUME ConstantsFit, Inv, Next, NEW e \in Executions,
           Process(e) \/ CallFails(e) \/ CallIsRefused(e)
    PROVE  PlanIsSound' /\ RecordsWhatIsGone'
<1> DEFINE me == worker[e]
<1>0. me \in Execution /\ MayRemove(me)
  BY DEF Inv, TypeOK, PlanIsSound
<1>1. ASSUME worker' = [worker EXCEPT ![e] = Idle]
      PROVE  PlanIsSound' /\ RecordsWhatIsGone'
  BY <1>1, IdleIsSound, OneIsSound
<1>2. ASSUME NEW state, Ends(e, state)
      PROVE  PlanIsSound' /\ RecordsWhatIsGone'
  BY <1>2, IdleIsSound, OneIsSound DEF Ends
<1>3. Completes(e) \/ Defers(e) \/ Errs(e) \/ (\E state, n : Over(e, state, n))
         => worker' = [worker EXCEPT ![e] = Idle]
  BY DEF Completes, Defers, Errs, Over
<1>4. ASSUME NEW step \in Steps \ {"verifying", "recording"}, Goes(e, step)
      PROVE  PlanIsSound' /\ RecordsWhatIsGone'
  <2> DEFINE record == [me EXCEPT !.at = step]
  <2>1. worker' = [worker EXCEPT ![e] = record]
    BY <1>4 DEF Goes, Inv, TypeOK
  <2>2. MayRemove(record) /\ record.at # "recording"
    BY <1>0, <1>4 DEF MayRemove, Execution
  <2> HIDE DEF record
  <2> QED
    BY <2>1, <2>2, OneIsSound
<1>5. CASE Bind(e)
  BY <1>1, <1>3, <1>4, <1>5 DEF Bind, Steps
<1>6. CASE Look(e)
  <2>1. CASE /\ worker' = [worker EXCEPT ![e].at = "verifying", ![e].whole = TRUE]
             /\ me.mode # "keep"
    <3> DEFINE record == [me EXCEPT !.at = "verifying", !.whole = TRUE]
    <3>1. worker' = [worker EXCEPT ![e] = record]
      BY <2>1 DEF Inv, TypeOK
    <3>2. MayRemove(record) /\ record.at # "recording"
      BY <1>0, <2>1 DEF MayRemove, Execution
    <3> HIDE DEF record
    <3> QED
      BY <3>1, <3>2, OneIsSound
  <2> QED
    BY <1>1, <1>2, <1>3, <1>4, <1>6, <2>1 DEF Look, Block, Steps
<1>7. ASSUME NEW s \in Sources, Verify(e, s)
      PROVE  PlanIsSound' /\ RecordsWhatIsGone'
  <2>1. CASE worker' = [worker EXCEPT ![e].todo = @ \ {s}]
    <3> DEFINE record == [me EXCEPT !.todo = me.todo \ {s}]
    <3>1. worker' = [worker EXCEPT ![e] = record]
      BY <2>1 DEF Inv, TypeOK
    <3>2. MayRemove(record) /\ record.at # "recording"
      BY <1>0, <1>7 DEF MayRemove, Execution, Verify, InStep
    <3> HIDE DEF record
    <3> QED
      BY <3>1, <3>2, OneIsSound
  <2>2. CASE /\ worker' = [worker EXCEPT ![e].todo = @ \ {s}, ![e].plan = @ \cup {s},
                    ![e].sound = IF s \notin registered /\ s \in clear THEN @ \cup {s} ELSE @]
             /\ Removable(s)
    <3> DEFINE record == [me EXCEPT !.todo = me.todo \ {s}, !.plan = me.plan \cup {s},
                                    !.sound = me.sound \cup {s}]
    <3>1. worker' = [worker EXCEPT ![e] = record]
      BY <2>2 DEF Removable, Inv, TypeOK
    <3>2. MayRemove(record) /\ record.at # "recording"
      BY <1>0, <1>7 DEF MayRemove, Execution, Verify, InStep
    <3> HIDE DEF record
    <3> QED
      BY <3>1, <3>2, OneIsSound
  <2> QED
    BY <1>2, <1>7, <2>1, <2>2 DEF Verify, Block
<1>8. CASE Verified(e) \/ Scan(e, "showing") \/ Scan(e, "rescanning") \/ Record(e)
  BY <1>4, <1>8 DEF Verified, Scan, Record, Steps
<1>9. ASSUME NEW s \in Sources, Delete(e, s)
      PROVE  PlanIsSound' /\ RecordsWhatIsGone'
  <2> DEFINE record == [me EXCEPT !.at = "recording", !.plan = me.plan \ {s}, !.on = s]
  <2>1. worker' = [worker EXCEPT ![e] = record]
    BY <1>9 DEF Delete, Recording, Inv, TypeOK
  <2>2. MayRemove(record) /\ record.on = s
    BY <1>0, <1>9 DEF MayRemove, Execution, Delete
  <2>3. client'[s] = "absent"
    BY <1>9 DEF Delete, Inv, TypeOK, Watched
  <2> HIDE DEF record
  <2> QED
    BY <2>1, <2>2, <2>3, OneIsSound
<1>10. CASE Complete(e) \/ Follow(e)
  BY <1>1, <1>2, <1>3, <1>10 DEF Complete, Follow
<1>11. CASE CallFails(e) \/ CallIsRefused(e)
  BY <1>1, <1>3, <1>11 DEF CallFails, CallIsRefused
<1> QED
  BY <1>5, <1>6, <1>7, <1>8, <1>9, <1>10, <1>11 DEF Process

LEMMA PlanStep ==
    ASSUME ConstantsFit, Inv, Next
    PROVE  PlanIsSound' /\ RecordsWhatIsGone'
<1>1. CASE \/ Submitted \/ Downloaded \/ Interferes \/ Create \/ Enqueue \/ RetryImport
           \/ DismissImport \/ CancelJob \/ RetryFailedJob \/ Resume \/ LoseLease \/ Crash
           \/ (\E mode \in Modes : List(mode)) \/ \E t \in Watched : Observe(t)
  BY <1>1, PlanOfAll DEF Submitted, Downloaded, Interferes, Create, Enqueue, RetryImport,
     DismissImport, CancelJob, RetryFailedJob, Resume, LoseLease, Crash, List, Observe, Aside
<1>2. CASE Heartbeat
  BY <1>2, IdleIsSound, OneIsSound DEF Heartbeat, Executions
<1>3. CASE Start
  <2>1. ASSUME NEW record, worker' = [worker EXCEPT !["holder"] = record], MayRemove(record),
               record.at # "recording"
        PROVE  PlanIsSound' /\ RecordsWhatIsGone'
    BY <2>1, OneIsSound DEF Executions
  <2> DEFINE first == [Idle EXCEPT !.at = "binding", !.mode = ModeRead,
                                   !.todo = {s \in Sources : cleanup[s].state = "pending"}]
  <2>2. MayRemove(first) /\ first.at # "recording"
    BY DEF MayRemove, Idle
  <2>3. \/ worker' = [worker EXCEPT !["holder"] = Idle]
        \/ worker' = [worker EXCEPT !["holder"] = Follows("failed")]
        \/ worker' = [worker EXCEPT !["holder"] = first]
    BY <1>3 DEF Start, Completes, Defers, Over, Begins
  <2> HIDE DEF first
  <2> QED
    BY <2>1, <2>2, <2>3, IdleIsSound
<1> QED
  BY <1>1, <1>2, <1>3, PlanOfProcess DEF Next

\* A source is recorded as removed in two steps only.
LEMMA Recorded ==
    ASSUME ConstantsFit, TypeOK, Next, NEW s \in Sources,
           cleanup'[s].state = "removed", cleanup[s].state # "removed"
    PROVE  \/ \E e \in Executions : worker[e].at = "recording" /\ worker[e].on = s
           \/ client[s] = "absent"
<1>0. cleanup \in [Sources -> [mode : Modes, state : Settled \cup {"absent", "pending"}]]
  BY DEF TypeOK
<1>1. CASE \/ Submitted \/ Downloaded \/ Interferes \/ Create \/ Enqueue \/ RetryImport
           \/ DismissImport \/ CancelJob \/ Crash \/ Start \/ RetryFailedJob \/ Resume
           \/ LoseLease \/ Heartbeat \/ (\E t \in Watched : Observe(t))
  BY <1>1 DEF Submitted, Downloaded, Interferes, Create, Enqueue, RetryImport, DismissImport,
     CancelJob, Crash, Start, RetryFailedJob, Resume, LoseLease, Heartbeat, Observe, Aside,
     BreaksOff, Rows
<1>2. ASSUME NEW e \in Executions,
             \/ CallFails(e) \/ CallIsRefused(e) \/ Bind(e) \/ Verified(e) \/ Scan(e, "showing")
             \/ Scan(e, "rescanning") \/ Complete(e) \/ Follow(e) \/ \E u \in Sources : Delete(e, u)
      PROVE  FALSE
  BY <1>2 DEF CallFails, CallIsRefused, BreaksOff, Bind, Verified, Scan, Complete, Follow,
     Delete, Rows
<1>3. ASSUME NEW mode \in Modes, List(mode)
      PROVE  FALSE
  BY <1>3 DEF List
<1>4. ASSUME NEW e \in Executions, Look(e)
      PROVE  FALSE
  BY <1>0, <1>4 DEF Look, Retained, Block
<1>5. ASSUME NEW e \in Executions, NEW u \in Sources, Verify(e, u)
      PROVE  client[s] = "absent"
  BY <1>0, <1>5 DEF Verify, Block
<1>6. ASSUME NEW e \in Executions, Record(e)
      PROVE  worker[e].at = "recording" /\ worker[e].on = s
  BY <1>0, <1>6 DEF Record, InStep
<1> QED
  BY <1>1, <1>2, <1>3, <1>4, <1>5, <1>6 DEF Next, Process

LEMMA InvHolds == ASSUME ConstantsFit PROVE Spec => []Inv
<1>1. Init => PlanIsSound /\ RecordsWhatIsGone /\ RemovedIsGone
  BY IdleIsSound DEF Init, PlanIsSound, RecordsWhatIsGone, RecordsGone, RemovedIsGone
<1>2. Inv /\ [Next]_vars => PlanIsSound' /\ RecordsWhatIsGone' /\ RemovedIsGone'
  <2> SUFFICES ASSUME Inv, [Next]_vars
               PROVE  PlanIsSound' /\ RecordsWhatIsGone' /\ RemovedIsGone'
    OBVIOUS
  <2>1. CASE UNCHANGED vars
    BY <2>1 DEF vars, Inv, PlanIsSound, RecordsWhatIsGone, MayRemove, RecordsGone,
       RemovedIsGone, World, Rows
  <2>2. CASE Next
    <3>1. ASSUME NEW s \in Sources, cleanup'[s].state = "removed"
          PROVE  client'[s] = "absent"
      <4>1. client[s] = "absent"
        BY <2>2, <3>1, Recorded DEF Inv, RemovedIsGone, RecordsWhatIsGone, RecordsGone
      <4> QED
        BY <2>2, <4>1, GoneStays DEF Inv
    <3> QED
      BY <2>2, <3>1, PlanStep DEF RemovedIsGone
  <2> QED
    BY <2>1, <2>2
<1> QED
  BY <1>1, <1>2, TypeCorrect, PTL DEF Spec, Inv

\* A source that process_import has recorded as removed is gone from the client,
\* whatever call failed, whose answer was lost and who asked for it again.
THEOREM RemovedSourcesAreGone == ASSUME ConstantsFit PROVE Spec => []RemovedIsGone
BY InvHolds, PTL DEF Inv

\* process_import deletes only a torrent that this execution has found removable
\* after every check, once it had seen the replacement complete, and only if it was
\* told to, although the tracker, the client and Plex are asked one after the other,
\* attempts break off anywhere, and one that lost its lease goes on for a while.
THEOREM OnlyTheRemovableIsRemoved == ASSUME ConstantsFit PROVE Spec => CleanupIsGuarded
<1>1. Inv /\ [Next]_vars =>
        [\A s \in Sources :
             client[s] # "absent" /\ client'[s] = "absent" /\ changes' = changes
                 => \E e \in Executions :
                       /\ worker[e].at = "deleting" /\ s \in worker[e].sound
                       /\ worker[e].whole /\ worker[e].mode # "keep"]_vars
  <2> SUFFICES ASSUME Inv, Next, NEW s \in Sources,
                      client[s] # "absent", client'[s] = "absent", changes' = changes
               PROVE  \E e \in Executions :
                         /\ worker[e].at = "deleting" /\ s \in worker[e].sound
                         /\ worker[e].whole /\ worker[e].mode # "keep"
    BY DEF vars
  <2>1. ~Interferes
    BY DEF Interferes, Change, Inv, TypeOK, ConstantsFit
  <2>2. PICK e \in Executions : worker[e].at = "deleting" /\ s \in worker[e].plan
    BY <2>1, Losing DEF Inv
  <2> QED
    BY <2>2 DEF Inv, PlanIsSound, MayRemove
<1> QED
  BY <1>1, InvHolds, PTL DEF Spec, CleanupIsGuarded

-----------------------------------------------------------------------------
(***************************************************************************)
(* DownloadIndex: what the index says of the torrents of the client.       *)
(***************************************************************************)

(***************************************************************************)
(* Rows of the index.  A row that does not exist is not of a complete      *)
(* torrent, and a job that is not over has attempts left.                  *)
(***************************************************************************)
RowOK(l) == l \in Link /\ (l.state = "absent" => ~l.done)

\* What a row says of a complete torrent is not lost.
Keeps(old, new) ==
    old.done => new.done /\ (old.release # "none" => new.release # "none")

LookupOK(r) ==
    r \in Resolve /\ (r.state \in {"pending", "running", "waiting"} => r.attempts < MaxLookups)

IndexInv ==
    /\ IndexTypeOK
    /\ \A t \in Torrents : RowOK(links[t]) /\ LookupOK(resolve[t])

Seens == [state : {"partial", "whole"}, announced : BOOLEAN]

\* Each way a row is written, one after the other.
LEMMA RowsKept ==
    ASSUME NEW l, RowOK(l)
    PROVE  /\ \A seen \in Seens : RowOK(Observed(l, seen)) /\ Keeps(l, Observed(l, seen))
           /\ RowOK(Gone(l)) /\ Keeps(l, Gone(l))
           /\ RowOK(Seeded(l)) /\ Keeps(l, Seeded(l))
           /\ RowOK(Linked(l)) /\ Keeps(l, Linked(l))
           /\ RowOK(Deferred(l)) /\ Keeps(l, Deferred(l))
           /\ RowOK(Reviewed(l)) /\ Keeps(l, Reviewed(l))
           /\ \A state \in Failures : RowOK(Failed(l, state)) /\ Keeps(l, Failed(l, state))
           /\ \A hint \in BOOLEAN : /\ RowOK(AutomaticallyMatched(l, hint))
                                    /\ Keeps(l, AutomaticallyMatched(l, hint))
           /\ RowOK([l EXCEPT !.state = "pending", !.error = FALSE])
           /\ Keeps(l, [l EXCEPT !.state = "pending", !.error = FALSE])
           /\ RowOK([l EXCEPT !.state = IF @ = "linked" THEN @ ELSE "resolving"])
           /\ Keeps(l, [l EXCEPT !.state = IF @ = "linked" THEN @ ELSE "resolving"])
           /\ RowOK([l EXCEPT !.state = "pending"]) /\ Keeps(l, [l EXCEPT !.state = "pending"])
           /\ Keeps(l, l)
<1> USE DEF RowOK, Keeps, Link, Unresolved, Failures
<1>1. l \in Link
  OBVIOUS
<1>2. ASSUME NEW seen \in Seens
      PROVE  RowOK(Observed(l, seen)) /\ Keeps(l, Observed(l, seen))
  <2> DEFINE state == IF seen.announced THEN "pending" ELSE "unconfigured"
             whole == seen.state = "whole"
  <2>1. /\ seen.announced \in BOOLEAN /\ seen.state \in {"unseen", "partial", "whole"}
        /\ state \in {"pending", "unconfigured"} /\ whole \in BOOLEAN
    BY DEF Seens
  <2>2. CASE l.state = "absent"
    <3>1. Observed(l, seen) =
             [Absent EXCEPT !.state = state, !.present = TRUE, !.tracker = seen.announced,
                            !.live = seen.state, !.done = whole]
      BY <2>2 DEF Observed
    <3> HIDE DEF state, whole
    <3>2. Observed(l, seen).state = state
      BY <3>1 DEF Absent
    <3>3. Observed(l, seen) \in Link
      BY <2>1, <3>1 DEF Absent
    <3> QED
      BY <2>1, <2>2, <3>2, <3>3
  <2>3. CASE l.state # "absent"
    <3> DEFINE announced == IF l.state = "linked" THEN l.tracker ELSE seen.announced
               now == IF l.state # "linked" /\ l.tracker # seen.announced THEN state ELSE l.state
               done == l.done \/ whole
    <3>1. Observed(l, seen) =
             [l EXCEPT !.present = TRUE, !.live = seen.state, !.done = done,
                       !.tracker = announced, !.state = now]
      BY <1>1, <2>3 DEF Observed
    <3>2. announced \in BOOLEAN
      BY <1>1, <2>1
    <3>3. now \in {"pending", "unconfigured", l.state}
      BY <2>1
    <3>4. done \in BOOLEAN /\ (l.done => done)
      BY <1>1, <2>1
    <3> HIDE DEF state, whole, announced, now, done
    <3>5. /\ Observed(l, seen).state = now /\ Observed(l, seen).done = done
          /\ Observed(l, seen).release = l.release
      BY <1>1, <3>1
    <3>6. Observed(l, seen) \in Link
      BY <1>1, <2>1, <3>1, <3>2, <3>3, <3>4
    <3> QED
      BY <2>3, <3>3, <3>4, <3>5, <3>6
  <2> QED
    BY <2>2, <2>3
<1>3. RowOK(Gone(l)) /\ Keeps(l, Gone(l))
  BY DEF Gone, Absent
<1>4. RowOK(Seeded(l)) /\ Keeps(l, Seeded(l))
  <2> DEFINE row == IF l.state = "absent" THEN [Absent EXCEPT !.present = TRUE] ELSE l
  <2>1. row \in Link /\ (l.done => row.done)
    BY DEF Absent
  <2>2. Seeded(l) = [row EXCEPT !.state = "linked", !.tracker = TRUE, !.ids = TRUE,
                                !.release = "resolved", !.error = FALSE]
    BY DEF Seeded
  <2> HIDE DEF row
  <2> QED
    BY <2>1, <2>2
<1>5. RowOK(Linked(l)) /\ Keeps(l, Linked(l)) /\ RowOK(Deferred(l)) /\ Keeps(l, Deferred(l))
  <2>1. RowOK(Linked(l)) /\ Keeps(l, Linked(l))
    BY DEF Linked
  <2>2. RowOK(Deferred(l)) /\ Keeps(l, Deferred(l))
    BY DEF Deferred
  <2> QED
    BY <2>1, <2>2
<1>6. RowOK(Reviewed(l)) /\ Keeps(l, Reviewed(l))
  BY DEF Reviewed
<1>7. ASSUME NEW state \in Failures
      PROVE  RowOK(Failed(l, state)) /\ Keeps(l, Failed(l, state))
  BY DEF Failed
<1>8. ASSUME NEW hint \in BOOLEAN
      PROVE  /\ RowOK(AutomaticallyMatched(l, hint))
             /\ Keeps(l, AutomaticallyMatched(l, hint))
  BY DEF AutomaticallyMatched
<1>9. /\ RowOK([l EXCEPT !.state = "pending", !.error = FALSE])
      /\ Keeps(l, [l EXCEPT !.state = "pending", !.error = FALSE])
  OBVIOUS
<1>10. /\ RowOK([l EXCEPT !.state = IF @ = "linked" THEN @ ELSE "resolving"])
       /\ Keeps(l, [l EXCEPT !.state = IF @ = "linked" THEN @ ELSE "resolving"])
  OBVIOUS
<1>11. RowOK([l EXCEPT !.state = "pending"]) /\ Keeps(l, [l EXCEPT !.state = "pending"])
  OBVIOUS
<1> HIDE DEF RowOK
<1> QED
  BY <1>2, <1>3, <1>4, <1>5, <1>6, <1>7, <1>8, <1>9, <1>10, <1>11

\* Each way a job is written.
LEMMA LookupsKept ==
    ASSUME NEW r, LookupOK(r)
    PROVE  /\ LookupOK(NoJob) /\ LookupOK(Job("pending"))
           /\ LookupOK(Enqueued(r)) /\ LookupOK(Reactivated(r)) /\ LookupOK(Released(r))
           /\ \A at \in Lookups : LookupOK([r EXCEPT !.at = at])
           /\ \A at \in Lookups : LookupOK([r EXCEPT !.state = "cancelled", !.at = at])
           /\ LookupOK([r EXCEPT !.state = "pending", !.attempts = 0])
           /\ r.state \in {"pending", "waiting"} =>
                 /\ \A at \in Lookups : LookupOK([r EXCEPT !.state = "running", !.at = at])
                 /\ LookupOK([r EXCEPT !.state = "pending"])
<1> USE DownloadIndexAssumption DEF LookupOK, Resolve, Terminal, Lookups
<1>1. LookupOK(NoJob) /\ LookupOK(Job("pending"))
  BY DEF NoJob, Job
<1>2. LookupOK(Enqueued(r)) /\ LookupOK(Reactivated(r))
  <2>1. LookupOK(Enqueued(r))
    BY <1>1 DEF Enqueued
  <2>2. LookupOK(Reactivated(r))
    BY <1>1 DEF Reactivated
  <2> QED
    BY <2>1, <2>2
<1>3. LookupOK(Released(r))
  <2>1. CASE r.state # "running"
    <3>1. Released(r) = [r EXCEPT !.at = "idle"]
      BY <2>1 DEF Released
    <3> QED
      BY <2>1, <3>1
  <2>2. CASE r.state = "running"
    <3> DEFINE next == IF r.attempts + 1 >= MaxLookups THEN "failed" ELSE "pending"
    <3>1. Released(r) = [r EXCEPT !.at = "idle", !.attempts = r.attempts + 1, !.state = next]
      BY <2>2 DEF Released
    <3>2. /\ r.attempts + 1 \in 0..MaxLookups /\ next \in {"failed", "pending"}
          /\ next = "pending" => r.attempts + 1 < MaxLookups
      BY <2>2
    <3> HIDE DEF next
    <3> QED
      BY <3>1, <3>2
  <2> QED
    BY <2>1, <2>2
<1>4. ASSUME NEW at \in Lookups
      PROVE  /\ LookupOK([r EXCEPT !.at = at])
             /\ LookupOK([r EXCEPT !.state = "cancelled", !.at = at])
             /\ r.state \in {"pending", "waiting"} =>
                   LookupOK([r EXCEPT !.state = "running", !.at = at])
  OBVIOUS
<1>5. LookupOK([r EXCEPT !.state = "pending", !.attempts = 0])
  <2>1. 0 \in 0..MaxLookups /\ 0 < MaxLookups
    OBVIOUS
  <2> QED
    BY <2>1
<1>6. r.state \in {"pending", "waiting"} => LookupOK([r EXCEPT !.state = "pending"])
  OBVIOUS
<1> HIDE DEF LookupOK
<1> QED
  BY <1>1, <1>2, <1>3, <1>4, <1>5, <1>6

\* What the client answers.
LEMMA ReportsTyped ==
    ASSUME IndexTypeOK, NEW full \in BOOLEAN
    PROVE  /\ Reported(full) \subseteq Torrents /\ GoneSince(full) \subseteq Torrents
           /\ Reports(full) => session' \in [rid : BOOLEAN, known : SUBSET Torrents,
                                             behind : SUBSET Torrents]
<1>1. Reported(full) \subseteq Torrents /\ GoneSince(full) \subseteq Torrents
  BY DEF IndexTypeOK, Reported, GoneSince, InClient
<1>2. session.known \subseteq Torrents
  BY DEF IndexTypeOK
<1>3. ASSUME Reports(full)
      PROVE  session' \in [rid : BOOLEAN, known : SUBSET Torrents, behind : SUBSET Torrents]
  <2> DEFINE known == (session.known \cup Reported(full)) \ GoneSince(full)
  <2>1. known \in SUBSET Torrents
    BY <1>1, <1>2
  <2>2. session' = [rid |-> TRUE, behind |-> {}, known |-> known]
    BY <1>3 DEF Reports
  <2> QED
    BY <2>1, <2>2
<1> QED
  BY <1>1, <1>3

LEMMA TasksTyped ==
    ASSUME NEW tasks \in [Torrents -> ImportState], NEW rows
    PROVE  Synced(tasks, rows) \in [Torrents -> ImportState]
<1>1. \A t \in Torrents : StateForLink(rows[t]) \in ImportState
  BY DEF StateForLink, ImportState
<1> QED
  BY <1>1 DEF Synced

LEMMA IndexInitInv == IndexInit => IndexInv
<1> SUFFICES ASSUME IndexInit PROVE IndexInv
  OBVIOUS
<1>1. RowOK(Absent) /\ LookupOK(NoJob)
  BY DownloadIndexAssumption DEF RowOK, Absent, Link, LookupOK, NoJob, Resolve, Lookups
<1>2. RowOK(Seeded(Absent))
  BY <1>1, RowsKept
<1>3. \A t \in Torrents : RowOK(links[t]) /\ LookupOK(resolve[t])
  BY <1>1, <1>2 DEF IndexInit
<1>4. links \in [Torrents -> Link] /\ resolve \in [Torrents -> Resolve]
  <2>1. Absent \in Link /\ Seeded(Absent) \in Link /\ NoJob \in Resolve
    BY <1>1, <1>2 DEF RowOK, LookupOK
  <2> QED
    BY <2>1 DEF IndexInit
<1>5. held \in [Torrents -> [state : {"absent", "partial", "whole"}, announced : BOOLEAN]]
  <2> DEFINE all == [state : {"absent", "partial", "whole"}, announced : BOOLEAN]
             some == {[state |-> "absent", announced |-> FALSE]}
                        \cup [state : {"partial", "whole"}, announced : BOOLEAN]
  <2>1. some \subseteq all
    <3>1. [state |-> "absent", announced |-> FALSE] \in all
      OBVIOUS
    <3>2. [state : {"partial", "whole"}, announced : BOOLEAN] \subseteq all
      OBVIOUS
    <3> HIDE DEF all
    <3> QED
      BY <3>1, <3>2
  <2>2. held \in [Torrents -> some]
    BY DEF IndexInit
  <2> HIDE DEF some, all
  <2>3. held \in [Torrents -> all]
    BY <2>1, <2>2
  <2> QED
    BY <2>3 DEF all
<1>6. downloads \in [Torrents -> {"none", "active", "complete", "unknown"}]
  BY DEF IndexInit
<1> QED
  BY <1>3, <1>4, <1>5, <1>6, DownloadIndexAssumption
     DEF IndexInit, IndexInv, IndexTypeOK, Nothing, ImportState

\* The rows and the jobs after a step; the rest is a matter of types.
LinksGoOn ==
    /\ links' \in [Torrents -> Link]
    /\ \A t \in Torrents : RowOK(links'[t]) /\ Keeps(links[t], links'[t])
LookupsGoOn ==
    resolve' \in [Torrents -> Resolve] /\ \A t \in Torrents : LookupOK(resolve'[t])
IndexGoesOn == IndexTypeOK' /\ LinksGoOn /\ LookupsGoOn

\* Nothing, or one row or job, is written.
LEMMA OneIsWritten ==
    ASSUME IndexInv
    PROVE  /\ UNCHANGED links => LinksGoOn
           /\ UNCHANGED resolve => LookupsGoOn
           /\ \A t \in Torrents : \A row :
                 /\ RowOK(row) /\ Keeps(links[t], row) /\ links' = [links EXCEPT ![t] = row]
                       => LinksGoOn
                 /\ LookupOK(row) /\ resolve' = [resolve EXCEPT ![t] = row] => LookupsGoOn
<1>1. /\ links \in [Torrents -> Link] /\ resolve \in [Torrents -> Resolve]
      /\ \A t \in Torrents : /\ RowOK(links[t]) /\ LookupOK(resolve[t])
                             /\ Keeps(links[t], links[t])
  BY RowsKept DEF IndexInv, IndexTypeOK
<1>2. (UNCHANGED links => LinksGoOn) /\ (UNCHANGED resolve => LookupsGoOn)
  BY <1>1 DEF LinksGoOn, LookupsGoOn
<1>3. ASSUME NEW t \in Torrents, NEW row, RowOK(row), Keeps(links[t], row),
             links' = [links EXCEPT ![t] = row]
      PROVE  LinksGoOn
  <2>1. row \in Link
    BY <1>3 DEF RowOK
  <2> QED
    BY <1>1, <1>3, <2>1 DEF LinksGoOn
<1>4. ASSUME NEW t \in Torrents, NEW row, LookupOK(row), resolve' = [resolve EXCEPT ![t] = row]
      PROVE  LookupsGoOn
  <2>1. row \in Resolve
    BY <1>4 DEF LookupOK
  <2> QED
    BY <1>1, <1>4, <2>1 DEF LookupsGoOn
<1> QED
  BY <1>2, <1>3, <1>4

\* The client, and the rows a download seeds.
LEMMA IndexClient ==
    ASSUME IndexInv, NEW t \in Torrents,
           Added(t) \/ Announces(t) \/ Finishes(t) \/ Removed(t) \/ DownloadAdded(t)
    PROVE  IndexGoesOn
<1>1. PICK now \in [state : {"absent", "partial", "whole"}, announced : BOOLEAN] :
         ClientChange(t, now)
  <2>1. held[t] \in [state : {"absent", "partial", "whole"}, announced : BOOLEAN]
    BY DEF IndexInv, IndexTypeOK
  <2> QED
    BY <2>1 DEF Added, Announces, Finishes, Removed, DownloadAdded
<1>2. /\ held' \in [Torrents -> [state : {"absent", "partial", "whole"}, announced : BOOLEAN]]
      /\ session' \in [rid : BOOLEAN, known : SUBSET Torrents, behind : SUBSET Torrents]
      /\ changed' \in 0..ClientChanges
  <2>1. held' \in [Torrents -> [state : {"absent", "partial", "whole"}, announced : BOOLEAN]]
    BY <1>1 DEF IndexInv, IndexTypeOK, ClientChange
  <2>2. session' \in [rid : BOOLEAN, known : SUBSET Torrents, behind : SUBSET Torrents]
    BY <1>1 DEF IndexInv, IndexTypeOK, ClientChange
  <2>3. changed' \in 0..ClientChanges
    BY <1>1, DownloadIndexAssumption DEF IndexInv, IndexTypeOK, ClientChange
  <2> QED
    BY <2>1, <2>2, <2>3
<1>3. LookupsGoOn
  BY <1>1, OneIsWritten DEF ClientChange
<1>4. /\ LinksGoOn
      /\ downloads' \in [Torrents -> {"none", "active", "complete", "unknown"}]
  <2>1. CASE UNCHANGED <<links, downloads>>
    BY <2>1, OneIsWritten DEF IndexInv, IndexTypeOK
  <2>2. CASE DownloadAdded(t)
    <3>1. RowOK(Seeded(links[t])) /\ Keeps(links[t], Seeded(links[t]))
      BY RowsKept DEF IndexInv
    <3>2. links' = [links EXCEPT ![t] = Seeded(links[t])]
      BY <2>2 DEF DownloadAdded
    <3>3. downloads' \in [Torrents -> {"none", "active", "complete", "unknown"}]
      BY <2>2 DEF DownloadAdded, IndexInv, IndexTypeOK
    <3> QED
      BY <3>1, <3>2, <3>3, OneIsWritten
  <2> QED
    BY <2>1, <2>2 DEF Added, Announces, Finishes, Removed
<1> QED
  BY <1>1, <1>2, <1>3, <1>4
     DEF IndexGoesOn, LinksGoOn, LookupsGoOn, ClientChange, IndexInv, IndexTypeOK

LEMMA Counted == IndexTypeOK /\ IndexFault => faulty' \in 0..MaxFaulty
BY DownloadIndexAssumption DEF IndexTypeOK, IndexFault

\* The observer: what the client reports, what is gone, and what follows the rows.
LEMMA IndexObserver ==
    ASSUME IndexInv,
           \/ \E full \in BOOLEAN : Sync(full)
           \/ DeltaIsLost \/ MarkRemoved \/ CompleteScan \/ Finish
    PROVE  IndexGoesOn
<1>0. /\ IndexTypeOK /\ links \in [Torrents -> Link]
      /\ \A t \in Torrents : RowOK(links[t]) /\ LookupOK(resolve[t]) /\ Keeps(links[t], links[t])
  BY RowsKept DEF IndexInv, IndexTypeOK
<1>1. ASSUME NEW full \in BOOLEAN, Sync(full) PROVE IndexGoesOn
  <2>1. /\ Reported(full) \subseteq Torrents /\ GoneSince(full) \subseteq Torrents
        /\ session' \in [rid : BOOLEAN, known : SUBSET Torrents, behind : SUBSET Torrents]
    BY <1>0, <1>1, ReportsTyped DEF Sync
  <2>2. \A t \in Reported(full) : held[t] \in Seens
    BY <1>0 DEF Reported, InClient, IndexTypeOK, Seens
  <2>3. LinksGoOn
    <3> DEFINE row(t) == IF t \in Reported(full) THEN Observed(links[t], held[t]) ELSE links[t]
    <3>1. \A t \in Torrents : RowOK(row(t)) /\ Keeps(links[t], row(t))
      BY <1>0, <2>2, RowsKept
    <3>2. links' = [t \in Torrents |-> row(t)]
      BY <1>1 DEF Sync
    <3> HIDE DEF row
    <3> QED
      BY <3>1, <3>2 DEF LinksGoOn, RowOK
  <2>4. LookupsGoOn
    <3> DEFINE next(t) == IF t \in Reported(full) /\ ShouldResolve(links[t], held[t])
                          THEN Enqueued(IF ReleaseLevel(links[t]) THEN Reactivated(resolve[t])
                                                                  ELSE resolve[t])
                          ELSE resolve[t]
    <3>1. \A t \in Torrents : LookupOK(next(t))
      BY <1>0, LookupsKept
    <3>2. resolve' = [t \in Torrents |-> next(t)]
      BY <1>1 DEF Sync
    <3> HIDE DEF next
    <3> QED
      BY <3>1, <3>2 DEF LookupsGoOn, LookupOK
  <2>5. observer' \in [at : {"idle", "removing", "scanning", "finishing"},
                       down : SUBSET Torrents, gone : SUBSET Torrents, full : BOOLEAN]
    BY <1>1, <2>1 DEF Sync
  <2>6. fresh' \subseteq Torrents
    BY <1>0, <1>1, <2>1 DEF Sync, IndexTypeOK
  <2> QED
    BY <1>0, <1>1, <2>1, <2>3, <2>4, <2>5, <2>6
       DEF IndexGoesOn, LinksGoOn, LookupsGoOn, Sync, IndexTypeOK
<1>2. CASE DeltaIsLost
  <2>1. session' \in [rid : BOOLEAN, known : SUBSET Torrents, behind : SUBSET Torrents]
    BY <1>0, <1>2, ReportsTyped DEF DeltaIsLost
  <2>2. LinksGoOn /\ LookupsGoOn
    BY <1>2, OneIsWritten DEF DeltaIsLost
  <2> QED
    BY <1>0, <1>2, <2>1, <2>2, Counted DEF IndexGoesOn, DeltaIsLost, IndexTypeOK
<1>3. ASSUME NEW gone, links' = [t \in Torrents |-> IF t \in gone THEN Gone(links[t]) ELSE links[t]]
      PROVE  LinksGoOn
  <2> DEFINE row(t) == IF t \in gone THEN Gone(links[t]) ELSE links[t]
  <2>1. \A t \in Torrents : RowOK(row(t)) /\ Keeps(links[t], row(t))
    BY <1>0, RowsKept
  <2> HIDE DEF row
  <2>2. links' = [t \in Torrents |-> row(t)]
    BY <1>3 DEF row
  <2> QED
    BY <2>1, <2>2 DEF LinksGoOn, RowOK
<1>4. CASE MarkRemoved \/ CompleteScan
  <2>1. LookupsGoOn /\ LinksGoOn
    <3>1. LookupsGoOn
      BY <1>4, OneIsWritten DEF MarkRemoved, CompleteScan
    <3>2. CASE UNCHANGED links
      BY <3>1, <3>2, OneIsWritten
    <3>3. CASE ~UNCHANGED links
      <4>1. \E gone : links' = [t \in Torrents |-> IF t \in gone THEN Gone(links[t]) ELSE links[t]]
        BY <1>4, <3>3 DEF MarkRemoved, CompleteScan
      <4> QED
        BY <1>3, <3>1, <4>1
    <3> QED
      BY <3>1, <3>2, <3>3
  <2>2. observer' \in [at : {"idle", "removing", "scanning", "finishing"},
                       down : SUBSET Torrents, gone : SUBSET Torrents, full : BOOLEAN]
    <3>1. observer \in [at : {"idle", "removing", "scanning", "finishing"},
                        down : SUBSET Torrents, gone : SUBSET Torrents, full : BOOLEAN]
      BY <1>0 DEF IndexTypeOK
    <3>2. \/ observer' = Nothing
          \/ observer' = [observer EXCEPT !.at = "scanning"]
          \/ observer' = [observer EXCEPT !.at = "finishing"]
      BY <1>4 DEF MarkRemoved, CompleteScan
    <3>3. Nothing \in [at : {"idle", "removing", "scanning", "finishing"},
                       down : SUBSET Torrents, gone : SUBSET Torrents, full : BOOLEAN]
      BY DEF Nothing
    <3>4. \A at \in {"scanning", "finishing"} :
             [observer EXCEPT !.at = at] \in
               [at : {"idle", "removing", "scanning", "finishing"},
                down : SUBSET Torrents, gone : SUBSET Torrents, full : BOOLEAN]
      BY <3>1
    <3> QED
      BY <3>2, <3>3, <3>4
  <2>3. faulty' \in 0..MaxFaulty
    BY <1>0, <1>4, Counted DEF MarkRemoved, CompleteScan, IndexTypeOK
  <2> QED
    BY <1>0, <1>4, <2>1, <2>2, <2>3
       DEF IndexGoesOn, LinksGoOn, LookupsGoOn, MarkRemoved, CompleteScan, IndexTypeOK
<1>5. CASE Finish
  <2>1. downloads' \in [Torrents -> {"none", "active", "complete", "unknown"}]
    <3>1. \A t \in Torrents : Reconciled(t) \in {"none", "active", "complete", "unknown"}
      BY <1>0 DEF Reconciled, IndexTypeOK
    <3> QED
      BY <1>5, <3>1 DEF Finish
  <2>2. imports' \in [Torrents -> ImportState] /\ faulty' \in 0..MaxFaulty
    BY <1>0, <1>5, TasksTyped, Counted DEF Finish, IndexTypeOK
  <2>3. LinksGoOn /\ LookupsGoOn
    BY <1>5, OneIsWritten DEF Finish
  <2>4. observer' \in [at : {"idle", "removing", "scanning", "finishing"},
                       down : SUBSET Torrents, gone : SUBSET Torrents, full : BOOLEAN]
    BY <1>5 DEF Finish, Nothing
  <2> QED
    BY <1>0, <1>5, <2>1, <2>2, <2>3, <2>4
       DEF IndexGoesOn, LinksGoOn, LookupsGoOn, Finish, IndexTypeOK
<1> QED
  BY <1>1, <1>2, <1>4, <1>5

\* Lookups, what users do with them, and matches.
LEMMA IndexLookups ==
    ASSUME IndexInv, NEW t \in Torrents,
           \/ Resolving(t) \/ Answer(t) \/ Commit(t) \/ Waited(t)
           \/ CancelLookup(t) \/ RetryJob(t) \/ RetryLink(t)
    PROVE  IndexGoesOn
<1>0. /\ IndexTypeOK /\ RowOK(links[t]) /\ LookupOK(resolve[t]) /\ Keeps(links[t], links[t])
      /\ \A row : RowOK(row) /\ Keeps(links[t], row) /\ links' = [links EXCEPT ![t] = row]
                     => LinksGoOn
      /\ \A next : LookupOK(next) /\ resolve' = [resolve EXCEPT ![t] = next] => LookupsGoOn
      /\ UNCHANGED links => LinksGoOn
      /\ resolve[t].at \in Lookups
      /\ {"asking", "completed", "failed", "retry", "waiting", "idle"} \subseteq Lookups
  BY RowsKept, OneIsWritten DEF IndexInv, LookupOK, Resolve, Lookups
<1>1. UNCHANGED <<held, session, observer, fresh, matching, imports, downloads, changed, faulty>>
  BY DEF Resolving, Answer, Commit, Waited, CancelLookup, RetryJob, RetryLink
<1>2. SUFFICES LinksGoOn /\ LookupsGoOn
  BY <1>0, <1>1 DEF IndexGoesOn, LinksGoOn, LookupsGoOn, IndexTypeOK
<1>3. CASE Resolving(t)
  <2>1. LookupsGoOn
    <3>1. PICK at \in {"asking", "completed"} :
             resolve' = [resolve EXCEPT ![t].state = "running", ![t].at = at]
      BY <1>3 DEF Resolving
    <3> DEFINE next == [resolve[t] EXCEPT !.state = "running", !.at = at]
    <3>2. LookupOK(next)
      BY <1>0, <1>3, LookupsKept DEF Resolving
    <3>3. resolve' = [resolve EXCEPT ![t] = next]
      BY <1>0, <3>1 DEF IndexTypeOK, Resolve
    <3> HIDE DEF next
    <3> QED
      BY <1>0, <3>2, <3>3
  <2>2. LinksGoOn
    <3> DEFINE row == [links[t] EXCEPT !.state = IF @ = "linked" THEN @ ELSE "resolving"]
    <3>1. RowOK(row) /\ Keeps(links[t], row)
      BY <1>0, RowsKept
    <3>2. UNCHANGED links \/ links' = [links EXCEPT ![t] = row]
      BY <1>0, <1>3 DEF Resolving, IndexTypeOK, Link
    <3> HIDE DEF row
    <3> QED
      BY <1>0, <3>1, <3>2
  <2> QED
    BY <2>1, <2>2
<1>4. CASE Answer(t)
  <2>1. PICK at \in Lookups : resolve' = [resolve EXCEPT ![t].at = at]
    BY <1>0, <1>4 DEF Answer
  <2>2. PICK row \in {Linked(links[t]), Failed(links[t], "not_found"), Failed(links[t], "failed"),
                      Deferred(links[t])} :
           links' = IF t \in RowsOf(links) THEN [links EXCEPT ![t] = row] ELSE links
    BY <1>4 DEF Answer
  <2>3. LookupsGoOn
    <3>1. LookupOK([resolve[t] EXCEPT !.at = at])
      BY <1>0, LookupsKept
    <3>2. resolve' = [resolve EXCEPT ![t] = [resolve[t] EXCEPT !.at = at]]
      BY <2>1
    <3> QED
      BY <1>0, <3>1, <3>2
  <2>4. RowOK(row) /\ Keeps(links[t], row)
    BY <1>0, RowsKept DEF Failures
  <2> QED
    BY <1>0, <2>2, <2>3, <2>4
<1>5. CASE Commit(t)
  <2> DEFINE r == resolve[t]
             next == IF r.at # "retry" THEN [r EXCEPT !.state = r.at]
                     ELSE [r EXCEPT !.attempts = r.attempts + 1,
                                    !.state = IF r.attempts + 1 >= MaxLookups
                                              THEN "failed" ELSE "pending"]
             over == [IF r.state = "running" THEN next ELSE r EXCEPT !.at = "idle"]
  <2>1. resolve' = [resolve EXCEPT ![t] = over]
    BY <1>5 DEF Commit
  <2>2. LookupOK(over)
    <3>1. CASE r.state # "running"
      <4>1. over = [r EXCEPT !.at = "idle"]
        BY <3>1
      <4> QED
        BY <1>0, <4>1, LookupsKept
    <3>2. CASE r.state = "running" /\ r.at # "retry"
      <4>1. over = [[r EXCEPT !.state = r.at] EXCEPT !.at = "idle"]
        BY <3>2
      <4>2. r.at \in {"completed", "failed", "waiting"}
        BY <1>0, <1>5, <3>2 DEF Commit, Lookups
      <4> QED
        BY <1>0, <3>2, <4>1, <4>2 DEF LookupOK, Resolve, Terminal, Lookups
    <3>3. CASE r.state = "running" /\ r.at = "retry"
      <4> DEFINE state == IF r.attempts + 1 >= MaxLookups THEN "failed" ELSE "pending"
      <4>1. over = [r EXCEPT !.attempts = r.attempts + 1, !.state = state, !.at = "idle"]
        BY <1>0, <3>3 DEF LookupOK, Resolve
      <4>2. /\ r.attempts + 1 \in 0..MaxLookups /\ state \in {"failed", "pending"}
            /\ state = "pending" => r.attempts + 1 < MaxLookups
        BY <1>0, <3>3, DownloadIndexAssumption DEF LookupOK, Resolve
      <4> HIDE DEF state
      <4> QED
        BY <1>0, <4>1, <4>2 DEF LookupOK, Resolve, Terminal, Lookups
    <3> QED
      BY <3>1, <3>2, <3>3
  <2>3. LinksGoOn
    BY <1>0, <1>5 DEF Commit
  <2> HIDE DEF over
  <2> QED
    BY <1>0, <2>1, <2>2, <2>3
<1>6. CASE Waited(t) \/ RetryJob(t)
  <2>1. \/ /\ resolve[t].state = "waiting"
           /\ resolve' = [resolve EXCEPT ![t] = [resolve[t] EXCEPT !.state = "pending"]]
        \/ resolve' = [resolve EXCEPT ![t] =
                          [resolve[t] EXCEPT !.state = "pending", !.attempts = 0]]
    BY <1>0, <1>6 DEF Waited, RetryJob, LookupRearmed, IndexTypeOK, Resolve
  <2>2. LookupsGoOn
    BY <1>0, <2>1, LookupsKept
  <2> QED
    BY <1>0, <1>6, <2>2 DEF Waited, RetryJob
<1>7. CASE CancelLookup(t)
  <2>1. PICK at \in {"idle", resolve[t].at} :
           resolve' = [resolve EXCEPT ![t].state = "cancelled", ![t].at = at]
    BY <1>7 DEF CancelLookup
  <2> DEFINE next == [resolve[t] EXCEPT !.state = "cancelled", !.at = at]
  <2>2. LookupOK(next)
    BY <1>0, LookupsKept
  <2>3. resolve' = [resolve EXCEPT ![t] = next]
    BY <1>0, <2>1 DEF IndexTypeOK, Resolve
  <2> HIDE DEF next
  <2> QED
    BY <1>0, <1>7, <2>2, <2>3 DEF CancelLookup
<1>8. CASE RetryLink(t)
  <2>1. LinksGoOn
    <3> DEFINE row == [links[t] EXCEPT !.state = "pending", !.error = FALSE]
    <3>1. RowOK(row) /\ Keeps(links[t], row)
      BY <1>0, RowsKept
    <3>2. links' = [links EXCEPT ![t] = row]
      BY <1>0, <1>8 DEF RetryLink, IndexTypeOK, Link
    <3> HIDE DEF row
    <3> QED
      BY <1>0, <3>1, <3>2
  <2>2. \/ resolve' =
             [resolve EXCEPT ![t] = [resolve[t] EXCEPT !.state = "pending", !.attempts = 0]]
        \/ resolve' = [resolve EXCEPT ![t] = Enqueued(resolve[t])]
    BY <1>0, <1>8 DEF RetryLink, LookupRearmed, IndexTypeOK, Resolve
  <2>3. LookupsGoOn
    BY <1>0, <2>2, LookupsKept
  <2> QED
    BY <2>1, <2>3
<1> QED
  BY <1>3, <1>4, <1>5, <1>6, <1>7, <1>8

LEMMA IndexMatches ==
    ASSUME IndexInv, NEW t \in Torrents, Matching(t) \/ Matched(t)
    PROVE  IndexGoesOn
<1>0. IndexTypeOK /\ RowOK(links[t]) /\ LookupsGoOn
  BY OneIsWritten DEF IndexInv, Matching, Matched
<1>1. CASE Matching(t)
  <2>1. LinksGoOn
    BY <1>1, OneIsWritten DEF Matching
  <2> QED
    BY <1>0, <1>1, <2>1 DEF IndexGoesOn, LinksGoOn, LookupsGoOn, Matching, IndexTypeOK
<1>2. CASE Matched(t)
  <2>1. LinksGoOn
    <3>1. CASE UNCHANGED links
      BY <3>1, OneIsWritten
    <3>2. CASE ~UNCHANGED links
      <4>1. PICK row \in {Reviewed(links[t])} \cup
                         {AutomaticallyMatched(links[t], hint) : hint \in BOOLEAN} :
               links' = [links EXCEPT ![t] = row]
        BY <1>2, <3>2 DEF Matched
      <4>2. RowOK(row) /\ Keeps(links[t], row)
        BY <1>0, RowsKept
      <4> QED
        BY <4>1, <4>2, OneIsWritten
    <3> QED
      BY <3>1, <3>2
  <2>2. imports' \in [Torrents -> ImportState]
    BY <1>0, <1>2, TasksTyped DEF Matched, IndexTypeOK
  <2> QED
    BY <1>0, <1>2, <2>1, <2>2 DEF IndexGoesOn, LinksGoOn, LookupsGoOn, Matched, IndexTypeOK
<1> QED
  BY <1>1, <1>2

LEMMA IndexRestarts == ASSUME IndexInv, Restart PROVE IndexGoesOn
<1>0. /\ IndexTypeOK /\ links \in [Torrents -> Link] /\ resolve \in [Torrents -> Resolve]
      /\ \A t \in Torrents : RowOK(links[t]) /\ LookupOK(resolve[t]) /\ Keeps(links[t], links[t])
  BY RowsKept DEF IndexInv, IndexTypeOK
<1>1. LinksGoOn
  <2> DEFINE mid(t) == IF links[t].state = "resolving" THEN [links[t] EXCEPT !.state = "pending"]
                       ELSE links[t]
             row(t) == IF downloads[t] = "none" THEN mid(t) ELSE Seeded(mid(t))
  <2>1. \A t \in Torrents : RowOK(mid(t)) /\ Keeps(links[t], mid(t))
    BY <1>0, RowsKept
  <2>2. \A t \in Torrents : RowOK(Seeded(mid(t))) /\ Keeps(mid(t), Seeded(mid(t)))
    BY <2>1, RowsKept
  <2>3. \A t \in Torrents : RowOK(row(t)) /\ Keeps(links[t], row(t))
    BY <2>1, <2>2 DEF Keeps
  <2>4. links' = [t \in Torrents |-> row(t)]
    BY DEF Restart, SeededJobs, Recovered
  <2> HIDE DEF row
  <2> QED
    BY <2>3, <2>4 DEF LinksGoOn, RowOK
<1>2. LookupsGoOn
  <2>1. PICK old \in SUBSET Prunable :
           resolve' = [t \in Torrents |-> IF links'[t].state = "pending" /\ links'[t].tracker
                                          THEN Enqueued(Started(t, old)) ELSE Started(t, old)]
    BY DEF Restart
  <2>2. \A t \in Torrents : LookupOK(Started(t, old))
    BY <1>0, LookupsKept DEF Started
  <2>3. \A t \in Torrents : LookupOK(Enqueued(Started(t, old)))
    BY <2>2, LookupsKept
  <2>4. \A t \in Torrents : LookupOK(resolve'[t])
    BY <2>1, <2>2, <2>3
  <2> QED
    BY <2>1, <2>4 DEF LookupsGoOn, LookupOK
<1>3. imports' \in [Torrents -> ImportState] /\ faulty' \in 0..MaxFaulty
  BY <1>0, TasksTyped, Counted DEF Restart, IndexTypeOK
<1> QED
  BY <1>0, <1>1, <1>2, <1>3 DEF IndexGoesOn, LinksGoOn, LookupsGoOn, Restart, IndexTypeOK, Nothing

LEMMA IndexStep ==
    ASSUME IndexInv, [IndexNext]_index
    PROVE  IndexInv' /\ \A t \in Torrents : Keeps(links[t], links'[t])
<1>1. CASE UNCHANGED index
  BY <1>1, RowsKept DEF index, IndexInv, IndexTypeOK, InClient
<1>2. CASE IndexNext
  <2>1. IndexGoesOn
    BY <1>2, IndexClient, IndexObserver, IndexLookups, IndexMatches, IndexRestarts DEF IndexNext
  <2> QED
    BY <2>1 DEF IndexGoesOn, LinksGoOn, LookupsGoOn, IndexInv
<1> QED
  BY <1>1, <1>2

\* The rows, jobs and tasks are well typed in every reachable state.
THEOREM IndexTypeCorrect == IndexSpec => []IndexTypeOK
<1>1. IndexInv /\ [IndexNext]_index => IndexInv'
  BY IndexStep
<1>2. IndexInv => IndexTypeOK
  BY DEF IndexInv
<1> QED
  BY <1>1, <1>2, IndexInitInv, PTL DEF IndexSpec

\* What was complete stays in the Library, with the release it was found to be.
THEOREM CompleteTorrentsStay == IndexSpec => LibraryKeeps
<1>1. IndexInv /\ [IndexNext]_index => IndexInv'
  BY IndexStep
<1>2. IndexInv /\ [IndexNext]_index =>
         [\A t \in Torrents : links[t].done =>
             /\ links'[t].done
             /\ links[t].release # "none" => links'[t].release # "none"]_index
  BY IndexStep DEF Keeps
<1> QED
  BY <1>1, <1>2, IndexInitInv, PTL DEF IndexSpec, LibraryKeeps
=============================================================================
