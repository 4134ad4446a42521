------------------------------ MODULE PackProofs ------------------------------
(***************************************************************************)
(* Theorems about the packs of a channel:                                  *)
(*   DownloadSubmission, for every set of downloads, keys and workers:     *)
(*     type correctness, what the download client is given and what is     *)
(*     fetched at most once, and that no unfinished download is forgotten; *)
(*   ChannelPacks, for every pack and every set of requests: an accepted   *)
(*     pack has asked for all that it planned;                             *)
(*   PackPlanning, for every catalogue, settings, pack and state of the    *)
(*     downloads: what is planned fits the space that was reported, is     *)
(*     planned once, and is what the settings allow; work on its way is    *)
(*     not selected again.                                                 *)
(***************************************************************************)
EXTENDS DownloadSubmission, ChannelPacks, PackPlanning, WellFoundedInduction, TLAPS

(***************************************************************************)
(* The inductive invariant.  All of it is about downloads that are not     *)
(* astray; a download and the execution that works on it.                  *)
(***************************************************************************)
Works(w, d)    == worker[w].on = d
Operates(w, d) == Works(w, d) /\ worker[w].outcome = "none"

\* Places an operation reaches without an outcome, and what it knows there.
OutcomeOK ==
    \A w \in Workers :
        /\ worker[w].at \in (Operation \ {"cleaning"}) \cup {"idle"} => worker[w].outcome = "none"
        /\ worker[w].at \in {"fetching", "describing", "looking", "recording"} => ~worker[w].hash
        /\ worker[w].at \in {"starting", "paying"} => ~worker[w].payload

\* The operations on a download do not overlap.
OneOperates ==
    \A d \in Downloads \ astray : \A v, w \in Workers :
        Operates(v, d) /\ Operates(w, d) => v = w

\* Having recorded the hash, an execution has asked the client.
HasAsked(w) ==
    \/ worker[w].at \in {"staging", "adding"}
    \/ worker[w].at \in {"starting", "paying"} /\ worker[w].hash

AskedBefore ==
    \A d \in Downloads \ astray : \A w \in Workers :
        Works(w, d) /\ HasAsked(w) => d \notin inClient

\* An execution without the torrent file has looked for a staged one.
HasLooked(w) ==
    /\ worker[w].at \in {"looking", "fetching", "describing", "starting", "paying", "recording", "checking"}
    /\ ~worker[w].payload

LookedBefore ==
    \A d \in Downloads \ astray : \A w \in Workers :
        Works(w, d) /\ HasLooked(w) => d \notin staged

\* What a worker that holds the job knows of the row: a lease has an owner
\* only while the job runs, and the attempts it read are still the row's.
LeaseOK ==
    /\ \A d \in Downloads : job[d].owner # Nobody => job[d].state = "running"
    /\ \A d \in Downloads, w \in Workers :
          Works(w, d) /\ Holds(w, d) => worker[w].attempts = job[d].attempts

\* An execution that is over and still holds the job is the last one.
HolderIsLast ==
    \A d \in Downloads \ astray : \A v, w \in Workers :
        Works(w, d) /\ ~Operates(w, d) /\ Holds(w, d) => ~Operates(v, d)

\* An execution under way is a reason for the job not to be over.
OperatedIsLive ==
    \A d \in Downloads \ astray : \A w \in Workers :
        Operates(w, d) => job[d].state \in Live \cup {"cancelled"}

\* The holder is about to settle the job for good.
Ending(w) ==
    \/ worker[w].at = "cleaning"
    \/ /\ worker[w].at \in {"settling", "committing"}
       /\ worker[w].outcome = "complete" \/ GivesUp(w, worker[w].outcome)

EndedIsSettled ==
    \A d \in Downloads \ astray : \A w \in Workers :
        Works(w, d) /\ Ending(w) /\ Holds(w, d) => ~Waits(d)

Inv == /\ TypeOK /\ OutcomeOK /\ OneOperates /\ AskedBefore /\ LookedBefore
       /\ LeaseOK /\ HolderIsLast /\ OperatedIsLive /\ EndedIsSettled /\ UnfinishedIsWorkedOn

-----------------------------------------------------------------------------
(***************************************************************************)
(* Type correctness.                                                       *)
(***************************************************************************)
\* One execution goes on; the tables may change with it.
LEMMA TypeWorker ==
    ASSUME ConstantsFit, TypeOK, NEW w \in Workers, NEW r \in Worker,
           r.on = NoDownload <=> r.at = "idle",
           r.at \in {"burying", "settling", "committing"} => r.outcome # "none",
           worker' = [worker EXCEPT ![w] = r],
           download' \in [Downloads -> Download], job' \in [Downloads -> Job],
           staged' \subseteq Downloads, inClient' \subseteq Downloads, astray' \subseteq Downloads
    PROVE  TypeOK'
BY DEF TypeOK, At

\* What an execution becomes is an execution, on the same download.
LEMMA WorkerColumns ==
    ASSUME NEW r \in Worker
    PROVE  /\ \A at \in Operation \cup {"idle", "burying", "settling", "committing"} :
                 /\ [r EXCEPT !.at = at] \in Worker
                 /\ \A hash \in BOOLEAN, payload \in BOOLEAN, outcome \in Outcomes \cup {"none"} :
                       [r EXCEPT !.at = at, !.hash = hash, !.payload = payload, !.outcome = outcome] \in Worker
BY DEF Worker

LEMMA TypeLeaves ==
    ASSUME ConstantsFit, TypeOK, NEW w \in Workers, NEW place \in Operation,
           worker[w].at \in Operation, Leaves(w, place),
           UNCHANGED <<download, job, inClient, astray>>, staged' \subseteq Downloads
    PROVE  TypeOK'
<1> DEFINE r == [worker[w] EXCEPT !.at = place, !.hash = FALSE, !.payload = FALSE]
<1>0. worker[w] \in Worker /\ worker[w].on # NoDownload
  BY DEF TypeOK, At, Operation
<1>1. r \in Worker /\ r.on = worker[w].on /\ r.at = place
  BY <1>0 DEF Worker
<1>2. r.at \notin {"idle", "burying", "settling", "committing"}
  BY <1>1 DEF Operation
<1>3. worker' = [worker EXCEPT ![w] = r]
  BY DEF Leaves
<1> HIDE DEF r
<1> QED
  BY <1>0, <1>1, <1>2, <1>3, TypeWorker DEF TypeOK

LEMMA DownloadColumns ==
    ASSUME NEW d \in Downloads, download \in [Downloads -> Download]
    PROVE  /\ \A state \in Incomplete \cup Settled :
                 [download EXCEPT ![d].state = state] \in [Downloads -> Download]
           /\ [download EXCEPT ![d].hash = TRUE] \in [Downloads -> Download]
           /\ \A key \in Keys :
                 [download EXCEPT ![d] = [state |-> "queued", key |-> key, hash |-> FALSE]]
                    \in [Downloads -> Download]
BY DEF Download, Incomplete

LEMMA IdleWorker == ConstantsFit => Idle \in Worker
BY DEF Idle, Worker, ConstantsFit

LEMMA JobRows ==
    ASSUME ConstantsFit, NEW j \in Job
    PROVE  /\ NewJob \in Job
           /\ \A rearm \in BOOLEAN : Ensured(j, rearm) \in Job
           /\ [j EXCEPT !.owner = Nobody] \in Job
           /\ Bump(j.attempts) \in 0..MaxAttempts
BY DEF Job, NewJob, Ensured, Live, Terminal, Bump, ConstantsFit

LEMMA LateArrivals ==
    ASSUME TypeOK, NEW S \in SUBSET Workers, NEW late \in SUBSET Submitting(S)
    PROVE  late \subseteq Downloads
<1>1. ASSUME NEW v \in S, At(v, "adding")
      PROVE  worker[v].on \in Downloads
  BY <1>1 DEF TypeOK, At, Worker
<1> QED
  BY <1>1 DEF Submitting

LEMMA JobColumns ==
    ASSUME NEW d \in Downloads, NEW j \in [Downloads -> Job]
    PROVE  /\ \A state \in Live \cup Terminal : [j EXCEPT ![d].state = state] \in [Downloads -> Job]
           /\ \A state \in Live \cup Terminal, owner \in Workers \cup {Nobody} :
                 [j EXCEPT ![d].state = state, ![d].owner = owner] \in [Downloads -> Job]
           /\ \A r \in Job : [j EXCEPT ![d] = r] \in [Downloads -> Job]
<1>1. j[d] \in Job
  OBVIOUS
<1>2. \A state \in Live \cup Terminal : [j[d] EXCEPT !.state = state] \in Job
  BY <1>1 DEF Job
<1>3. \A state \in Live \cup Terminal, owner \in Workers \cup {Nobody} :
        [j[d] EXCEPT !.state = state, !.owner = owner] \in Job
  BY <1>1 DEF Job
<1> QED
  BY <1>2, <1>3

LEMMA TypeExecution ==
    ASSUME ConstantsFit, TypeOK, NEW w \in Workers, Execution(w)
    PROVE  TypeOK'
<1> USE DEF ConstantsFit
<1>0. worker[w] \in Worker /\ (worker[w].on = NoDownload <=> At(w, "idle"))
  BY DEF TypeOK
<1>1. ASSUME NEW d \in Downloads, Claim(w, d)
      PROVE  TypeOK'
  <2> DEFINE r == [Idle EXCEPT !.at = "loading", !.on = d, !.attempts = job[d].attempts]
  <2>1. r \in Worker /\ r.on = d /\ r.at = "loading"
    BY DEF Idle, Worker, Operation, TypeOK, Job
  <2>2. job' \in [Downloads -> Job]
    BY <1>1, JobColumns DEF Claim, TypeOK, Live
  <2> QED
    BY <1>1, <2>1, <2>2, TypeWorker DEF Claim, TypeOK
<1>2. CASE Load(w)
  <2> DEFINE d == worker[w].on
             r == IF Waits(d) THEN [worker[w] EXCEPT !.at = "opening", !.hash = download[d].hash]
                              ELSE [worker[w] EXCEPT !.at = "settling", !.outcome = "complete"]
  <2>1. d \in Downloads
    BY <1>0, <1>2 DEF Load, At, Worker
  <2>2. download[d].hash \in BOOLEAN
    BY <2>1 DEF TypeOK, Download
  <2>3. r \in Worker /\ r.on = d /\ r.at # "idle" /\ (r.at = "settling" => r.outcome = "complete")
          /\ r.at \in {"opening", "settling"}
    BY <1>0, <2>2 DEF Worker, Operation, Outcomes
  <2>4. worker' = [worker EXCEPT ![w] = r]
    BY <1>2 DEF Load
  <2> HIDE DEF r
  <2> QED
    BY <1>0, <1>2, <2>1, <2>3, <2>4, TypeWorker DEF Load, TypeOK
<1>3. CASE ReadStage(w)
  BY <1>0, <1>3, TypeWorker DEF ReadStage, TypeOK, Worker, Operation, At
<1>4. CASE LookUp(w)
  <2>1. CASE Leaves(w, "found") \/ Leaves(w, "adding")
    BY <1>4, <2>1, TypeLeaves DEF LookUp, At, Operation, TypeOK
  <2>2. ASSUME NEW place \in {"fetching", "staging", "starting"}, Goes(w, place)
        PROVE  TypeOK'
    <3>1. [worker[w] EXCEPT !.at = place] \in Worker
      BY <1>0, WorkerColumns DEF Operation
    <3> QED
      BY <1>0, <1>4, <2>2, <3>1, TypeWorker DEF LookUp, TypeOK, At, Goes, Worker
  <2> QED
    BY <1>4, <2>1, <2>2 DEF LookUp
<1>5. CASE StartFetching(w) \/ StartSubmitting(w) \/ Activate(w) \/ Found(w)
  <2>1. ASSUME NEW from \in {"fetching", "starting", "activating", "found"},
               NEW state \in Incomplete \cup Settled,
               NEW next \in {"describing", "paying", "cleaning"}, SetState(w, from, state, next)
        PROVE  TypeOK'
    <3>1. download' \in [Downloads -> Download]
      BY <1>0, <2>1, DownloadColumns DEF SetState, TypeOK, At, Worker
    <3>2. [worker[w] EXCEPT !.at = next] \in Worker
      BY <1>0, WorkerColumns DEF Operation
    <3> QED
      BY <1>0, <2>1, <3>1, <3>2, TypeWorker DEF SetState, TypeOK, At, Goes, Worker
  <2> QED
    BY <1>5, <2>1 DEF StartFetching, StartSubmitting, Activate, Found, Incomplete, Settled
<1>6. CASE Describe(w)
  BY <1>0, <1>6, TypeWorker DEF Describe, TypeOK, Worker, Operation, At
<1>7. CASE Fetch(w)
  BY <1>0, <1>7, TypeWorker DEF Fetch, TypeOK, Worker, Operation, At
<1>8. CASE RecordHash(w)
  <2>1. download' \in [Downloads -> Download]
    BY <1>0, <1>8, DownloadColumns DEF RecordHash, TypeOK, At, Worker
  <2> QED
    BY <1>0, <1>8, <2>1, TypeWorker DEF RecordHash, TypeOK, Worker, Operation, At
<1>9. CASE CheckClient(w)
  <2>1. CASE Leaves(w, "found") \/ Leaves(w, "adding")
    BY <1>9, <2>1, TypeLeaves DEF CheckClient, At, Operation, TypeOK
  <2>2. ASSUME NEW place \in {"fetching", "staging", "starting"}, Goes(w, place)
        PROVE  TypeOK'
    <3>1. [worker[w] EXCEPT !.at = place] \in Worker
      BY <1>0, WorkerColumns DEF Operation
    <3> QED
      BY <1>0, <1>9, <2>2, <3>1, TypeWorker DEF CheckClient, TypeOK, At, Goes, Worker
  <2> QED
    BY <1>9, <2>1, <2>2 DEF CheckClient
<1>10. CASE Stage(w)
  BY <1>0, <1>10, TypeLeaves DEF Stage, TypeOK, Worker, Operation, At
<1>11. CASE Add(w)
  BY <1>0, <1>11, TypeWorker DEF Add, TypeOK, Worker, Operation, At, Goes
<1>12. CASE Clean(w)
  BY <1>0, <1>12, TypeWorker DEF Clean, TypeOK, Worker, Operation, At, Outcomes
<1>13. CASE Bury(w)
  <2>2. worker[w].on \in Downloads
    BY <1>0, <1>13 DEF Bury, At, Worker
  <2>1. download' \in [Downloads -> Download]
    <3>1. [download EXCEPT ![worker[w].on].state = "failed"] \in [Downloads -> Download]
      BY <2>2, DownloadColumns DEF TypeOK, Settled
    <3> QED
      BY <1>13, <3>1 DEF Bury, TypeOK
  <2>3. [worker[w] EXCEPT !.at = "cleaning"] \in Worker
    BY <1>0, WorkerColumns DEF Operation
  <2> QED
    BY <1>0, <1>13, <2>1, <2>2, <2>3, TypeWorker DEF Bury, TypeOK, Worker, At, Goes
<1>14. ASSUME NEW outcome \in Outcomes, OperationFails(w, outcome)
       PROVE  TypeOK'
  <2> DEFINE at == IF GivesUp(w, outcome) THEN "burying" ELSE "settling"
             r == [worker[w] EXCEPT !.at = at, !.payload = FALSE, !.hash = FALSE, !.outcome = outcome]
  <2>1. r \in Worker /\ r.on = worker[w].on /\ r.at \in {"burying", "settling"} /\ r.outcome # "none"
    BY <1>0 DEF Worker, Outcomes
  <2>2. worker' = [worker EXCEPT ![w] = r]
    BY <1>14 DEF OperationFails
  <2>3. inClient' \subseteq Downloads
    BY <1>14, LateArrivals DEF OperationFails, TypeOK
  <2>4. worker[w].at # "idle"
    BY <1>14 DEF OperationFails, Operation
  <2> HIDE DEF r
  <2> QED
    BY <1>0, <1>14, <2>1, <2>2, <2>3, <2>4, TypeWorker DEF OperationFails, TypeOK, At
<1>15. CASE SettleRead(w)
  <2> DEFINE d == worker[w].on
             r == IF job[d].owner = w /\ job[d].state # "cancelled"
                  THEN [worker[w] EXCEPT !.at = "committing", !.attempts = job[d].attempts] ELSE Idle
  <2>1. d \in Downloads /\ worker[w].outcome # "none"
    BY <1>0, <1>15 DEF SettleRead, At, Worker, TypeOK
  <2>2. job[d].attempts \in 0..MaxAttempts
    BY <2>1 DEF TypeOK, Job
  <2>3. r \in Worker /\ (r.on = NoDownload <=> r.at = "idle")
          /\ (r.at \in {"burying", "settling", "committing"} => r.outcome # "none")
    BY <1>0, <2>1, <2>2, IdleWorker DEF Worker, Idle
  <2>4. worker' = [worker EXCEPT ![w] = r]
    BY <1>15 DEF SettleRead
  <2> HIDE DEF r
  <2> QED
    BY <1>15, <2>3, <2>4, TypeWorker DEF SettleRead, TypeOK
<1>16. CASE SettleWrite(w)
  BY <1>0, <1>16, TypeWorker, IdleWorker, JobRows
  DEF SettleWrite, TypeOK, Worker, At, Job, Idle, SettledState, Live, Terminal, Outcomes, Bump
<1>17. CASE SettleError(w)
  BY <1>0, <1>17, TypeWorker, IdleWorker DEF SettleError, TypeOK, Idle
<1>18. CASE Disowned(w)
  <2>1. inClient' \subseteq Downloads
    BY <1>18, LateArrivals DEF Disowned, TypeOK
  <2> QED
    BY <1>18, <2>1, TypeWorker, IdleWorker DEF Disowned, TypeOK, Idle
<1> QED
  BY <1>1, <1>2, <1>3, <1>4, <1>5, <1>6, <1>7, <1>8, <1>9, <1>10, <1>11, <1>12, <1>13,
     <1>14, <1>15, <1>16, <1>17, <1>18 DEF Execution

LEMMA TypeRequests ==
    ASSUME ConstantsFit, TypeOK, Requests \/ Restart \/ \E d \in Downloads : Observe(d)
    PROVE  TypeOK'
<1> USE DEF TypeOK
<1>1. ASSUME NEW d \in Downloads, CancelJob(d) \/ RetryJob(d) \/ ResumeJob(d) \/ Recover(d)
      PROVE  TypeOK'
  <2>1. job' \in [Downloads -> Job]
    <3>1. CASE CancelJob(d)
      <4>1. job' = [job EXCEPT ![d].state = "cancelled", ![d].owner = Nobody]
        BY <3>1 DEF CancelJob
      <4> QED
        BY <4>1, JobColumns DEF Terminal, TypeOK
    <3>4. CASE ResumeJob(d)
      BY <3>4, JobColumns DEF ResumeJob, Live
    <3>2. CASE RetryJob(d)
      BY <3>2, JobRows, JobColumns DEF RetryJob
    <3>3. CASE Recover(d)
      <4> DEFINE r == [state |-> IF Exhausted(job[d].attempts) THEN "failed" ELSE "pending",
                       attempts |-> Bump(job[d].attempts), owner |-> Nobody]
      <4>1. r \in Job
        BY JobRows DEF Job, Live, Terminal
      <4>2. job' = [job EXCEPT ![d] = r]
        BY <3>3 DEF Recover
      <4> HIDE DEF r
      <4> QED
        BY <4>1, <4>2
    <3> QED
      BY <1>1, <3>1, <3>2, <3>3, <3>4
  <2> QED
    BY <1>1, <2>1 DEF CancelJob, RetryJob, ResumeJob, Recover, At
<1>2. ASSUME NEW d \in Downloads, NEW key \in Keys, Create(d, key)
      PROVE  TypeOK'
  BY <1>2, JobRows DEF Create, At, Download, Incomplete
<1>3. ASSUME NEW d \in Downloads, NEW key \in Keys, Repeat(d, key)
      PROVE  TypeOK'
  <2>1. PICK e \in Existing(d, key) : job' = [job EXCEPT ![e] = IF Waits(e) THEN Ensured(@, FALSE) ELSE @]
    BY <1>3 DEF Repeat
  <2>2. e \in Downloads
    BY DEF Existing
  <2>3. Ensured(job[e], FALSE) \in Job /\ job[e] \in Job
    BY <2>2, JobRows
  <2>4. job' \in [Downloads -> Job]
    BY <2>1, <2>3
  <2> QED
    BY <1>3, <2>4 DEF Repeat, At
<1>4. CASE Restart
  <2>1. inClient' \subseteq Downloads
    BY <1>4, LateArrivals DEF Restart
  <2>2. job' \in [Downloads -> Job]
    <3> DEFINE j(d) == [job[d] EXCEPT !.owner = Nobody]
    <3>1. \A d \in Downloads : j(d) \in Job /\ Ensured(j(d), FALSE) \in Job
      BY JobRows
    <3>2. job' = [d \in Downloads |-> IF Waits(d) THEN Ensured(j(d), FALSE) ELSE j(d)]
      BY <1>4 DEF Restart
    <3> HIDE DEF j
    <3> QED
      BY <3>1, <3>2
  <2> QED
    BY <1>4, <2>1, <2>2, IdleWorker DEF Restart, At, Idle, ConstantsFit
<1>5. ASSUME NEW d \in Downloads, Observe(d)
      PROVE  TypeOK'
  BY <1>5 DEF Observe, At, Download, Settled
<1> QED
  BY <1>1, <1>2, <1>3, <1>4, <1>5 DEF Requests

LEMMA TypeInit == ConstantsFit /\ Init => TypeOK
BY IdleWorker DEF Init, TypeOK, Download, Job, Idle, At, ConstantsFit

LEMMA TypeNext == ConstantsFit /\ TypeOK /\ [Next]_vars => TypeOK'
<1>1. ConstantsFit /\ TypeOK /\ UNCHANGED vars => TypeOK'
  BY DEF vars, TypeOK, At
<1> QED
  BY <1>1, TypeExecution, TypeRequests DEF Next

\* Every record of download_jobs and background_jobs has its columns, and only an
\* execution that is over has an outcome to settle.
THEOREM TypeCorrect == ASSUME ConstantsFit PROVE Spec => []TypeOK
<1>1. Init => TypeOK
  BY TypeInit
<1>2. TypeOK /\ [Next]_vars => TypeOK'
  BY TypeNext
<1> QED
  BY <1>1, <1>2, PTL DEF Spec

-----------------------------------------------------------------------------
(***************************************************************************)
(* What a step of an execution that has its job may change.                *)
(***************************************************************************)
Continues(w) ==
    /\ \A v \in Workers \ {w} : worker'[v] = worker[v]
    /\ astray \subseteq astray'
    /\ \A d \in Downloads :
          /\ Works(w, d)' => Works(w, d)
          /\ Operates(w, d)' => Operates(w, d)

\* The client and the staging directory only get what an operation brings
\* them, and the operation knows.
Brings(w) ==
    /\ \A d \in inClient' \ inClient : Operates(w, d) /\ ~HasAsked(w)'
    /\ \A d \in staged' \ staged : Operates(w, d) /\ ~HasLooked(w)'
    /\ HasAsked(w)' => HasAsked(w) \/ worker[w].on \notin inClient
    /\ HasLooked(w)' => HasLooked(w) \/ worker[w].on \notin staged

LEMMA LeavesFields ==
    ASSUME worker \in [Workers -> Worker], NEW w \in Workers, NEW place, Leaves(w, place)
    PROVE  /\ worker'[w].at = place /\ worker'[w].on = worker[w].on
           /\ worker'[w].outcome = worker[w].outcome /\ worker'[w].attempts = worker[w].attempts
           /\ ~worker'[w].hash /\ ~worker'[w].payload
           /\ \A v \in Workers \ {w} : worker'[v] = worker[v]
<1> DEFINE r == [worker[w] EXCEPT !.at = place, !.hash = FALSE, !.payload = FALSE]
<1>1. r.at = place /\ r.on = worker[w].on /\ r.outcome = worker[w].outcome
        /\ r.attempts = worker[w].attempts /\ ~r.hash /\ ~r.payload
  BY DEF Worker
<1>2. worker' = [worker EXCEPT ![w] = r]
  BY DEF Leaves
<1> HIDE DEF r
<1> QED
  BY <1>1, <1>2

LEMMA GoesFields ==
    ASSUME worker \in [Workers -> Worker], NEW w \in Workers, NEW place, Goes(w, place)
    PROVE  /\ worker'[w].at = place /\ worker'[w].on = worker[w].on
           /\ worker'[w].outcome = worker[w].outcome /\ worker'[w].attempts = worker[w].attempts
           /\ (worker'[w].hash <=> worker[w].hash) /\ (worker'[w].payload <=> worker[w].payload)
           /\ \A v \in Workers \ {w} : worker'[v] = worker[v]
BY DEF Goes, Worker

LEMMA Continuation ==
    ASSUME ConstantsFit, TypeOK, OutcomeOK, NEW w \in Workers, Execution(w),
           ~ \E d \in Downloads : Claim(w, d)
    PROVE  OutcomeOK' /\ Continues(w) /\ Brings(w)
<1> USE DEF Continues, Brings, HasAsked, HasLooked, Works, Operates, OutcomeOK, ConstantsFit
<1>0. worker[w] \in Worker /\ (worker[w].on = NoDownload <=> At(w, "idle"))
        /\ worker \in [Workers -> Worker]
  BY DEF TypeOK
<1>2. CASE Load(w)
  BY <1>0, <1>2 DEF Load, Worker, Operation, At
<1>3. CASE ReadStage(w)
  BY <1>0, <1>3 DEF ReadStage, Worker, Operation, At
<1>4. CASE LookUp(w)
  <2>1. CASE Leaves(w, "found") /\ worker[w].on \in inClient
    BY <1>0, <1>4, <2>1, LeavesFields DEF LookUp, Operation, At
  <2>2. CASE Leaves(w, "adding") /\ worker[w].on \notin inClient
    BY <1>0, <1>4, <2>2, LeavesFields DEF LookUp, Operation, At
  <2>3. CASE Goes(w, "fetching") /\ ~worker[w].payload
    BY <1>0, <1>4, <2>3, GoesFields DEF LookUp, Operation, At
  <2> QED
    BY <1>4, <2>1, <2>2, <2>3 DEF LookUp
<1>5. CASE StartFetching(w) \/ StartSubmitting(w) \/ Activate(w) \/ Found(w)
  BY <1>0, <1>5 DEF StartFetching, StartSubmitting, Activate, Found, SetState, Worker, Operation, At, Goes
<1>6. CASE Describe(w)
  BY <1>0, <1>6 DEF Describe, Worker, Operation, At
<1>7. CASE Fetch(w)
  BY <1>0, <1>7 DEF Fetch, Worker, Operation, At
<1>8. CASE RecordHash(w)
  BY <1>0, <1>8 DEF RecordHash, Worker, Operation, At
<1>9. CASE CheckClient(w)
  <2>1. CASE Leaves(w, "found") /\ worker[w].on \in inClient
    BY <1>0, <1>9, <2>1, LeavesFields DEF CheckClient, Operation, At
  <2>2. CASE Goes(w, "staging") /\ worker[w].payload /\ worker[w].on \notin inClient
    BY <1>0, <1>9, <2>2, GoesFields DEF CheckClient, Operation, At
  <2>3. CASE Goes(w, "starting") /\ ~worker[w].payload /\ worker[w].on \notin inClient
    BY <1>0, <1>9, <2>3, GoesFields DEF CheckClient, Operation, At
  <2> QED
    BY <1>9, <2>1, <2>2, <2>3 DEF CheckClient
<1>10. CASE Stage(w)
  BY <1>0, <1>10 DEF Stage, Worker, Operation, At, Leaves
<1>11. CASE Add(w)
  BY <1>0, <1>11 DEF Add, Worker, Operation, At, Goes
<1>12. CASE Clean(w)
  BY <1>0, <1>12 DEF Clean, Worker, Operation, At
<1>13. CASE Bury(w)
  BY <1>0, <1>13 DEF Bury, Worker, Operation, At, Goes
<1>14. ASSUME NEW outcome \in Outcomes, OperationFails(w, outcome)
       PROVE  OutcomeOK' /\ Continues(w) /\ Brings(w)
  BY <1>0, <1>14 DEF OperationFails, Worker, Operation, At, Outcomes, Submitting
<1>15. CASE SettleRead(w)
  BY <1>0, <1>15 DEF SettleRead, Worker, Operation, At, Idle
<1>16. CASE SettleWrite(w)
  BY <1>0, <1>16 DEF SettleWrite, Worker, Operation, At, Idle
<1>17. CASE SettleError(w)
  BY <1>0, <1>17 DEF SettleError, Worker, Operation, At, Idle
<1>18. CASE Disowned(w)
  BY <1>0, <1>18 DEF Disowned, Worker, Operation, At, Idle, Submitting
<1> QED
  BY <1>2, <1>3, <1>4, <1>5, <1>6, <1>7, <1>8, <1>9, <1>10, <1>11, <1>12, <1>13,
     <1>14, <1>15, <1>16, <1>17, <1>18 DEF Execution

LEMMA Claiming ==
    ASSUME ConstantsFit, TypeOK, OutcomeOK, NEW w \in Workers, NEW d \in Downloads, Claim(w, d)
    PROVE  /\ worker' = [worker EXCEPT ![w] = worker'[w]]
           /\ worker'[w].at = "loading" /\ worker'[w].on = d /\ worker'[w].outcome = "none"
           /\ worker'[w].attempts = job[d].attempts
           /\ worker[w].at = "idle" /\ \A e \in Downloads : ~Works(w, e)
           /\ OutcomeOK'
BY DEF Claim, Idle, TypeOK, At, OutcomeOK, Operation, Works, ConstantsFit

-----------------------------------------------------------------------------
(***************************************************************************)
(* What a download gets once.                                              *)
(***************************************************************************)
OnceInv == TypeOK /\ OutcomeOK /\ OneOperates /\ AskedBefore /\ LookedBefore

LEMMA OnceClaim ==
    ASSUME ConstantsFit, OnceInv, NEW w \in Workers, NEW d \in Downloads, Claim(w, d)
    PROVE  OutcomeOK' /\ OneOperates' /\ AskedBefore' /\ LookedBefore'
<1> USE DEF OnceInv
<1>1. /\ \A v \in Workers \ {w} : worker'[v] = worker[v]
      /\ worker'[w].at = "loading" /\ worker'[w].on = d
      /\ OutcomeOK' /\ UNCHANGED <<inClient, staged>> /\ astray \subseteq astray'
      /\ d \in astray' \/ \A v \in Workers : ~Operates(v, d)
  BY Claiming DEF TypeOK, Claim, Operating, Operates, Works
<1>2. OneOperates'
  BY <1>1 DEF OneOperates, Operates, Works
<1>3. AskedBefore'
  BY <1>1 DEF AskedBefore, HasAsked, Works
<1>4. LookedBefore'
  BY <1>1 DEF LookedBefore, HasLooked, Works
<1> QED
  BY <1>1, <1>2, <1>3, <1>4

LEMMA OnceContinuation ==
    ASSUME ConstantsFit, OnceInv, NEW w \in Workers, Execution(w),
           ~ \E d \in Downloads : Claim(w, d)
    PROVE  OutcomeOK' /\ OneOperates' /\ AskedBefore' /\ LookedBefore'
<1>1. OutcomeOK' /\ Continues(w) /\ Brings(w)
  BY Continuation DEF OnceInv
<1>2. OneOperates'
  BY <1>1 DEF OnceInv, OneOperates, Continues, Operates, Works
<1>3. ASSUME NEW d \in Downloads \ astray', NEW v \in Workers, Works(v, d)', HasAsked(v)'
      PROVE  d \notin inClient'
  <2>1. d \notin astray /\ Works(v, d) /\ (v # w => HasAsked(v))
    BY <1>1, <1>3 DEF Continues, Works, HasAsked
  <2>2. d \notin inClient
    BY <1>1, <1>3, <2>1 DEF OnceInv, AskedBefore, Brings, Works
  <2>3. ASSUME d \in inClient'
        PROVE  FALSE
    <3>1. Operates(w, d) /\ v # w
      BY <1>1, <1>3, <2>2, <2>3 DEF Brings
    <3>2. Operates(v, d)
      BY <2>1, <3>1 DEF OnceInv, OutcomeOK, HasAsked, Operates, Operation
    <3> QED
      BY <2>1, <3>1, <3>2 DEF OnceInv, OneOperates
  <2> QED
    BY <2>3
<1>4. ASSUME NEW d \in Downloads \ astray', NEW v \in Workers, Works(v, d)', HasLooked(v)'
      PROVE  d \notin staged'
  <2>1. d \notin astray /\ Works(v, d) /\ (v # w => HasLooked(v))
    BY <1>1, <1>4 DEF Continues, Works, HasLooked
  <2>2. d \notin staged
    BY <1>1, <1>4, <2>1 DEF OnceInv, LookedBefore, Brings, Works
  <2>3. ASSUME d \in staged'
        PROVE  FALSE
    <3>1. Operates(w, d) /\ v # w
      BY <1>1, <1>4, <2>2, <2>3 DEF Brings
    <3>2. Operates(v, d)
      BY <2>1, <3>1 DEF OnceInv, OutcomeOK, HasLooked, Operates, Operation
    <3> QED
      BY <2>1, <3>1, <3>2 DEF OnceInv, OneOperates
  <2> QED
    BY <2>3
<1> QED
  BY <1>1, <1>2, <1>3, <1>4 DEF AskedBefore, LookedBefore

\* No execution is left after a restart.
LEMMA Restarted ==
    ASSUME Restart, ConstantsFit
    PROVE  /\ \A w \in Workers : worker'[w] = Idle
           /\ \A w \in Workers, d \in Downloads : ~Works(w, d)'
           /\ OutcomeOK'
BY DEF Restart, Idle, Works, ConstantsFit, OutcomeOK, Operation

LEMMA OnceRequests ==
    ASSUME ConstantsFit, OnceInv, Requests \/ Restart \/ \E d \in Downloads : Observe(d)
    PROVE  OutcomeOK' /\ OneOperates' /\ AskedBefore' /\ LookedBefore'
<1>1. CASE Restart
  BY <1>1, Restarted DEF OneOperates, AskedBefore, LookedBefore, Operates
<1>2. CASE Requests \/ \E d \in Downloads : Observe(d)
  <2>1. UNCHANGED <<staged, inClient, worker>> /\ astray \subseteq astray'
    BY <1>2 DEF Requests, Create, Repeat, CancelJob, RetryJob, ResumeJob, Recover, Observe
  <2> QED
    BY <2>1 DEF OnceInv, OutcomeOK, OneOperates, AskedBefore, LookedBefore, Operates, Works,
       HasAsked, HasLooked
<1> QED
  BY <1>1, <1>2

\* Of a download that has not gone astray one execution operates at a time, and
\* what that execution has been told of the client and the stage is still so; the
\* next two theorems rest on this (claim_background_job, process_download).
THEOREM OnceInvHolds == ASSUME ConstantsFit PROVE Spec => []OnceInv
<1>1. Init => OnceInv
  <2>1. Init => TypeOK
    BY TypeInit
  <2> QED
    BY <2>1 DEF Init, OnceInv, OutcomeOK, OneOperates, AskedBefore, LookedBefore,
       Idle, Works, Operates, Operation, ConstantsFit
<1>2. OnceInv /\ [Next]_vars => OnceInv'
  <2> SUFFICES ASSUME OnceInv, [Next]_vars PROVE OnceInv'
    OBVIOUS
  <2>0. TypeOK'
    BY TypeNext DEF OnceInv
  <2>1. CASE UNCHANGED vars
    BY <2>0, <2>1 DEF vars, OnceInv, OutcomeOK, OneOperates, AskedBefore, LookedBefore,
       Works, Operates, HasAsked, HasLooked
  <2>2. ASSUME NEW w \in Workers, Execution(w)
        PROVE  OnceInv'
    BY <2>0, <2>2, OnceClaim, OnceContinuation DEF OnceInv
  <2> QED
    BY <2>0, <2>1, <2>2, OnceRequests DEF Next, OnceInv
<1> QED
  BY <1>1, <1>2, PTL DEF Spec

\* No torrent is added to the download client twice: process_download asks the
\* client before it adds, and an answer that got lost, a crash, a lease that
\* expired or a new request is met by that question.
THEOREM TorrentsAreAddedOnce == ASSUME ConstantsFit PROVE Spec => []AddedOnce
<1>1. OnceInv => AddedOnce
  <2> SUFFICES ASSUME OnceInv, NEW w \in Workers, At(w, "adding"), worker[w].on \notin astray
               PROVE  worker[w].on \notin inClient
    BY DEF AddedOnce
  <2>1. worker[w].on \in Downloads
    BY DEF OnceInv, TypeOK, At, Worker
  <2> QED
    BY <2>1 DEF OnceInv, AskedBefore, HasAsked, Works, At
<1> QED
  BY <1>1, OnceInvHolds, PTL

\* No staged torrent file is fetched again: process_download opens the stage
\* before it pays for the file, whatever fails between the two.
THEOREM StagedFilesAreNotFetched == ASSUME ConstantsFit PROVE Spec => []StagedIsNotFetched
<1>1. OnceInv => StagedIsNotFetched
  <2> SUFFICES ASSUME OnceInv, NEW w \in Workers, At(w, "paying"), worker[w].on \notin astray
               PROVE  worker[w].on \notin staged
    BY DEF StagedIsNotFetched
  <2>1. worker[w].on \in Downloads /\ HasLooked(w)
    BY DEF OnceInv, TypeOK, At, Worker, HasLooked, OutcomeOK
  <2> QED
    BY <2>1 DEF OnceInv, LookedBefore, Works
<1> QED
  BY <1>1, OnceInvHolds, PTL

-----------------------------------------------------------------------------
(***************************************************************************)
(* No unfinished download is forgotten.                                    *)
(***************************************************************************)
\* What a step of an execution does to the job and the state of a download:
\* only its own download waits again, before it is over, and only the commit
\* writes the job.
Settles(w) ==
    \A d \in Downloads :
        /\ Waits(d)' => Waits(d) \/ (Operates(w, d) /\ ~Ending(w)')
        /\ Works(w, d)' /\ Ending(w)' /\ Holds(w, d) /\ d \notin astray' => Ending(w) \/ ~Waits(d)'
        /\ Works(w, d)' /\ Holds(w, d) => worker'[w].attempts = worker[w].attempts
        /\ \/ job'[d] = job[d]
           \/ /\ job'[d].owner = Nobody /\ Works(w, d) /\ ~Operates(w, d) /\ ~Works(w, d)'
              /\ Holds(w, d) \/ d \in astray'
              /\ job'[d].state \in Live \/ Ending(w)

LEMMA Settlement ==
    ASSUME ConstantsFit, TypeOK, OutcomeOK, LeaseOK, NEW w \in Workers, Execution(w),
           ~ \E d \in Downloads : Claim(w, d)
    PROVE  Settles(w)
<1> USE DEF Settles, Ending, Works, Operates, Holds, Waits, ConstantsFit
<1>0. /\ worker[w] \in Worker /\ (worker[w].on = NoDownload <=> At(w, "idle"))
      /\ worker \in [Workers -> Worker] /\ job \in [Downloads -> Job]
      /\ download \in [Downloads -> Download]
  BY DEF TypeOK
<1>2. CASE Load(w)
  BY <1>0, <1>2 DEF Load, Worker, At
<1>3. CASE ReadStage(w) \/ Describe(w) \/ Fetch(w) \/ Add(w)
  BY <1>0, <1>3 DEF ReadStage, Describe, Fetch, Add, Worker, At, Goes
<1>4. CASE LookUp(w)
  BY <1>0, <1>4, LeavesFields, GoesFields DEF LookUp, At
<1>5. CASE StartFetching(w) \/ StartSubmitting(w) \/ Activate(w) \/ Found(w)
  BY <1>0, <1>5 DEF StartFetching, StartSubmitting, Activate, Found, SetState, Worker, At, Goes,
     OutcomeOK, Operation, Download, Incomplete
<1>8. CASE RecordHash(w)
  BY <1>0, <1>8 DEF RecordHash, Worker, At, Download
<1>9. CASE CheckClient(w)
  BY <1>0, <1>9, LeavesFields, GoesFields DEF CheckClient, At
<1>10. CASE Stage(w)
  BY <1>0, <1>10, LeavesFields DEF Stage, At
<1>12. CASE Clean(w)
  BY <1>0, <1>12 DEF Clean, Worker, At
<1>13. CASE Bury(w)
  BY <1>0, <1>13 DEF Bury, Worker, At, Goes, Download, Incomplete
<1>14. ASSUME NEW outcome \in Outcomes, OperationFails(w, outcome)
       PROVE  Settles(w)
  BY <1>0, <1>14 DEF OperationFails, Worker, At, Outcomes, GivesUp, Errors
<1>15. CASE SettleRead(w)
  BY <1>0, <1>15 DEF SettleRead, Worker, At, Idle, LeaseOK, GivesUp
<1>16. CASE SettleWrite(w)
  BY <1>0, <1>16 DEF SettleWrite, Worker, At, Idle, SettledState, Live, TypeOK, Outcomes
<1>17. CASE SettleError(w)
  BY <1>0, <1>17 DEF SettleError, Worker, At, Idle
<1>18. CASE Disowned(w)
  BY <1>0, <1>18 DEF Disowned, Worker, At, Idle
<1> QED
  BY <1>2, <1>3, <1>4, <1>5, <1>8, <1>9, <1>10, <1>12, <1>13,
     <1>14, <1>15, <1>16, <1>17, <1>18 DEF Execution

WorkInv == LeaseOK /\ HolderIsLast /\ OperatedIsLive /\ EndedIsSettled /\ UnfinishedIsWorkedOn

LEMMA WorkClaim ==
    ASSUME ConstantsFit, OnceInv, WorkInv, NEW w \in Workers, NEW d \in Downloads, Claim(w, d)
    PROVE  WorkInv'
<1> USE DEF OnceInv, WorkInv
<1>1. /\ \A v \in Workers \ {w} : worker'[v] = worker[v]
      /\ worker'[w].at = "loading" /\ worker'[w].on = d /\ worker'[w].outcome = "none"
      /\ worker'[w].attempts = job[d].attempts
      /\ UNCHANGED download /\ astray \subseteq astray'
  BY Claiming DEF TypeOK, Claim
<1>2. /\ \A e \in Downloads \ {d} : job'[e] = job[e]
      /\ job[d].state = "pending" /\ job'[d].state = "running" /\ job'[d].owner = w
      /\ job'[d].attempts = job[d].attempts
  BY DEF Claim, TypeOK, Job
<1>3. LeaseOK'
  BY <1>1, <1>2 DEF LeaseOK, Works, Holds
<1>4. HolderIsLast'
  BY <1>1, <1>2, Claiming DEF HolderIsLast, Works, Operates, Holds
<1>5. OperatedIsLive'
  BY <1>1, <1>2 DEF OperatedIsLive, Works, Operates, Live
<1>6. EndedIsSettled'
  BY <1>1, <1>2 DEF EndedIsSettled, Works, Ending, Holds, Waits, GivesUp
<1>7. UnfinishedIsWorkedOn'
  BY <1>1, <1>2 DEF UnfinishedIsWorkedOn, Waits, Live
<1> QED
  BY <1>3, <1>4, <1>5, <1>6, <1>7

LEMMA WorkContinuation ==
    ASSUME ConstantsFit, OnceInv, WorkInv, NEW w \in Workers, Execution(w),
           ~ \E d \in Downloads : Claim(w, d)
    PROVE  WorkInv'
<1> USE DEF OnceInv, WorkInv
<1>1. Continues(w) /\ Settles(w)
  BY Continuation, Settlement
<1>2. \A d \in Downloads, v \in Workers : Holds(v, d)' => Holds(v, d) /\ job'[d] = job[d]
  BY <1>1 DEF Settles, Holds, ConstantsFit
<1>3. LeaseOK'
  BY <1>1, <1>2 DEF LeaseOK, Continues, Settles, Works, Holds
<1>4. HolderIsLast'
  BY <1>1, <1>2 DEF HolderIsLast, OneOperates, Continues, Works, Operates
<1>5. OperatedIsLive'
  <2> SUFFICES ASSUME NEW d \in Downloads \ astray', NEW v \in Workers, Operates(v, d)'
               PROVE  job'[d].state \in Live \cup {"cancelled"}
    BY DEF OperatedIsLive
  <2>1. d \notin astray /\ Operates(v, d)
    BY <1>1 DEF Continues, Works, Operates
  <2>2. job[d].state \in Live \cup {"cancelled"}
    BY <2>1 DEF OperatedIsLive
  <2>3. job'[d] # job[d] => job'[d].state \in Live
    BY <1>1, <2>1 DEF Settles, HolderIsLast
  <2> QED
    BY <2>2, <2>3
<1>6. EndedIsSettled'
  <2> SUFFICES ASSUME NEW d \in Downloads \ astray', NEW v \in Workers,
                      Works(v, d)', Ending(v)', Holds(v, d)', Waits(d)'
               PROVE  FALSE
    BY DEF EndedIsSettled
  <2>1. d \notin astray /\ Works(v, d) /\ Holds(v, d)
    BY <1>1, <1>2 DEF Continues, Works
  <2>2. Ending(v)
    BY <1>1, <2>1 DEF Continues, Settles, Ending, GivesUp
  <2>3. ~Waits(d)
    BY <2>1, <2>2 DEF EndedIsSettled
  <2>4. Operates(w, d) /\ v # w
    BY <1>1, <2>3 DEF Settles
  <2>5. ~Operates(v, d)
    BY <2>1, <2>4 DEF OneOperates
  <2> QED
    BY <2>1, <2>4, <2>5 DEF HolderIsLast
<1>7. UnfinishedIsWorkedOn'
  <2> SUFFICES ASSUME NEW d \in Downloads \ astray', Waits(d)'
               PROVE  job'[d].state \in Live \cup {"cancelled"}
    BY DEF UnfinishedIsWorkedOn
  <2>1. d \notin astray
    BY <1>1 DEF Continues
  <2>2. CASE job'[d] = job[d]
    BY <1>1, <2>1, <2>2 DEF Settles, UnfinishedIsWorkedOn, OperatedIsLive
  <2>3. CASE job'[d] # job[d]
    BY <1>1, <2>1, <2>3 DEF Settles, EndedIsSettled
  <2> QED
    BY <2>2, <2>3
<1> QED
  BY <1>3, <1>4, <1>5, <1>6, <1>7

\* Requests leave the executions alone.  A job they write is pending or
\* cancelled and nobody's, or its lease ran out.
LEMMA WorkRequests ==
    ASSUME ConstantsFit, OnceInv, WorkInv, Requests \/ \E d \in Downloads : Observe(d)
    PROVE  WorkInv'
<1> USE DEF OnceInv, WorkInv
<1>1. UNCHANGED worker /\ astray \subseteq astray'
  BY DEF Requests, Create, Repeat, CancelJob, RetryJob, ResumeJob, Recover, Observe
<1> DEFINE AsIs(d) ==
              /\ \/ job'[d] = job[d]
                 \/ /\ job'[d].owner = Nobody
                    /\ job'[d].state \in Live \cup {"cancelled"} \/ d \in astray'
              /\ Waits(d)' => Waits(d) \/ (job'[d].state = "pending" /\ job'[d].owner = Nobody)
<1>2. ASSUME NEW d \in Downloads
      PROVE  AsIs(d)
  <2>1. ASSUME NEW e \in Downloads, CancelJob(e) \/ RetryJob(e) \/ Observe(e)
        PROVE  AsIs(d)
    BY <2>1 DEF CancelJob, RetryJob, Observe, NewJob, TypeOK, Job, Live, Waits, Download, Incomplete
  <2>2. ASSUME NEW e \in Downloads, ResumeJob(e) \/ Recover(e)
        PROVE  AsIs(d)
    BY <2>2 DEF ResumeJob, Recover, LeaseOK, TypeOK, Job, Live, Waits
  <2>3. ASSUME NEW e \in Downloads, NEW key \in Keys, Create(e, key)
        PROVE  AsIs(d)
    BY <2>3 DEF Create, Ensured, NewJob, TypeOK, Live, Waits
  <2>4. ASSUME NEW e \in Downloads, NEW key \in Keys, Repeat(e, key)
        PROVE  AsIs(d)
    BY <2>4 DEF Repeat, Ensured, NewJob, TypeOK, Live, Waits, Existing
  <2> QED
    BY <2>1, <2>2, <2>3, <2>4 DEF Requests
<1>3. \A d \in Downloads, v \in Workers : Holds(v, d)' => Holds(v, d) /\ job'[d] = job[d]
  BY <1>2 DEF Holds, ConstantsFit
<1>4. LeaseOK'
  BY <1>1, <1>2, <1>3 DEF LeaseOK, Works, Holds
<1>5. HolderIsLast'
  BY <1>1, <1>3 DEF HolderIsLast, Works, Operates
<1>6. OperatedIsLive'
  BY <1>1, <1>2 DEF OperatedIsLive, Works, Operates
<1>7. EndedIsSettled'
  BY <1>1, <1>2, <1>3 DEF EndedIsSettled, Works, Ending, Holds, GivesUp, ConstantsFit
<1>8. UnfinishedIsWorkedOn'
  BY <1>1, <1>2 DEF UnfinishedIsWorkedOn, Live
<1> QED
  BY <1>4, <1>5, <1>6, <1>7, <1>8

LEMMA WorkRestart ==
    ASSUME ConstantsFit, OnceInv, WorkInv, Restart
    PROVE  WorkInv'
<1>1. \A d \in Downloads, w \in Workers : ~Works(w, d)'
  BY Restarted
<1>2. \A d \in Downloads : job'[d].owner = Nobody /\ (Waits(d)' => job'[d].state \in Live \cup {"cancelled"})
  <2> SUFFICES ASSUME NEW d \in Downloads
               PROVE  job'[d].owner = Nobody /\ (Waits(d)' => job'[d].state \in Live \cup {"cancelled"})
    OBVIOUS
  <2> DEFINE j == [job[d] EXCEPT !.owner = Nobody]
  <2>1. j \in Job /\ j.owner = Nobody
    BY DEF OnceInv, TypeOK, Job
  <2>2. job'[d] = IF Waits(d) THEN Ensured(j, FALSE) ELSE j
    BY DEF Restart
  <2>3. Waits(d)' <=> Waits(d)
    BY DEF Restart, Waits
  <2> HIDE DEF j
  <2> QED
    BY <2>1, <2>2, <2>3 DEF Ensured, NewJob, Job, Live, Terminal
<1> QED
  BY <1>1, <1>2 DEF WorkInv, LeaseOK, HolderIsLast, OperatedIsLive, EndedIsSettled,
     UnfinishedIsWorkedOn, Operates

\* A download shown as unfinished is worked on, unless its job was cancelled:
\* create_job, the settle functions, classify_error and the start of the
\* process (ensure_incomplete_download_submissions) lose none between them.
THEOREM UnfinishedDownloadsAreWorkedOn ==
    ASSUME ConstantsFit PROVE Spec => []UnfinishedIsWorkedOn
<1>1. Init => WorkInv
  BY DEF Init, WorkInv, LeaseOK, HolderIsLast, OperatedIsLive, EndedIsSettled,
     UnfinishedIsWorkedOn, Idle, Works, Operates, Waits, Incomplete, ConstantsFit
<1>2. OnceInv /\ WorkInv /\ [Next]_vars => WorkInv'
  <2> SUFFICES ASSUME OnceInv, WorkInv, [Next]_vars PROVE WorkInv'
    OBVIOUS
  <2>1. CASE UNCHANGED vars
    BY <2>1 DEF vars, WorkInv, LeaseOK, HolderIsLast, OperatedIsLive, EndedIsSettled,
       UnfinishedIsWorkedOn, Works, Operates, Ending, Holds, Waits, GivesUp
  <2> QED
    BY <2>1, WorkClaim, WorkContinuation, WorkRequests, WorkRestart DEF Next
<1>3. WorkInv => UnfinishedIsWorkedOn
  BY DEF WorkInv
<1> QED
  BY <1>1, <1>2, <1>3, OnceInvHolds, PTL DEF Spec

-----------------------------------------------------------------------------
(***************************************************************************)
(* ChannelPacks: the rows of a pack, and the one request that works on it. *)
(***************************************************************************)

\* Nil is neither a key of a download nor a job, its state or a replacement.
NilIsNoValue ==
    /\ Nil \notin {"queued", "fetching_metadata", "submitting", "active", "complete", "failed"}
    /\ \A o, version : <<o, version>> # Nil
    /\ \A state, variant : [state |-> state, variant |-> variant] # Nil
    /\ \A variant, complete, downloads :
          [variant |-> variant, complete |-> complete, downloads |-> downloads] # Nil

(***************************************************************************)
(* The variables, as far as the prover must know them.                     *)
(***************************************************************************)
States == {"none", "queued", "active", "complete", "failed"}
Ats    == {"idle", "project", "item", "enqueue", "import", "record", "decide", "replace", "done"}

PackRow    == [decision : {"open", "accepted", "rejected"}, version : Nat, fingerprint : Nat,
               items : [Ordinals -> Item]]
JobRow     == [state : States, key : (Ordinals \X Nat) \cup {Nil}]
RequestRow == [at : Ats, item : Nat, version : Nat, fingerprint : Nat,
               items : [Ordinals -> Item], selected : SUBSET Ordinals,
               selectable : SUBSET Ordinals, passed : SUBSET Ordinals, job : Torrents \cup {Nil}]

PackShape ==
    /\ pack \in PackRow /\ jobs \in [Torrents -> JobRow] /\ imports \subseteq Torrents
    /\ request \in [PackRequests -> RequestRow] /\ current \in Nat /\ overlapped \in BOOLEAN
    /\ passed \subseteq Ordinals

(***************************************************************************)
(* The rows.  A job that has a key, an import or a request that goes on    *)
(* with it was created; an item that is to be downloaded has no job yet.   *)
(***************************************************************************)
Created(t) == jobs[t].state # "none"
Unstarted(list) == \A o \in Ordinals : list[o].planState = "executable" => list[o].job = Nil

AtAnItem(me) ==
    /\ me.at \in {"enqueue", "import", "record"} => me.item \in Ordinals
    /\ me.at = "enqueue" => me.items[me.item].plan # Nil

RowsInv ==
    /\ \A t \in Torrents : jobs[t].key # Nil \/ t \in imports => Created(t)
    /\ \A r \in PackRequests : request[r].job # Nil => Created(request[r].job)
    /\ Unstarted(pack.items) /\ \A r \in PackRequests : Unstarted(request[r].items)
    /\ \A r \in PackRequests : AtAnItem(request[r])

(***************************************************************************)
(* One request at a time.  It works on the items as they are from the one  *)
(* it has come to; those before it, and those that could not be selected,  *)
(* have what they planned, or were passed over.                            *)
(***************************************************************************)
Requested(o, torrent) == Created(torrent) /\ (o \in Replacements => torrent \in imports)
HasPlan(o) == pack.items[o].planState \in {"executable", "submitted"} /\ pack.items[o].plan # Nil
Fulfilled(o) == HasPlan(o) => Requested(o, pack.items[o].plan)

Accepting == {"item", "enqueue", "import", "record"}
Accepter(r) == request[r].at \in Accepting \/ (r \in Accepts /\ request[r].at = "decide")

OneInv ==
    /\ \A r, s \in PackRequests : Busy(r) /\ Busy(s) => r = s
    /\ pack.decision # "open" => \A r \in PackRequests : ~Busy(r)
    /\ pack.decision = "accepted" => \A o \in Ordinals : o \in passed \/ Fulfilled(o)
    /\ \A o \in Ordinals : pack.items[o].planState = "submitted" => Fulfilled(o)

\* The key of a job names the item of the pack that planned it.
KeysInv ==
    \A t \in Torrents : \A o \in Ordinals, version \in Nat :
        jobs[t].key = <<o, version>> =>
            /\ version <= pack.version
            /\ version = pack.version => pack.items[o].plan \in {t, Nil}

StepInv(r) ==
    LET me == request[r] IN
    /\ Busy(r) => /\ me.version = pack.version
                  /\ \A o \in Ordinals : o >= me.item => me.items[o] = pack.items[o]
    /\ Accepter(r) => \A o \in Ordinals :
          o < me.item \/ o \notin me.selectable => o \in me.passed \/ Fulfilled(o)
    /\ me.at \in {"project", "replace"} => me.item = 0
    /\ me.at = "decide" /\ r \in Accepts => me.item > Size
    /\ me.at \in {"import", "record"} /\ me.items[me.item].plan # Nil
          => me.job = me.items[me.item].plan
    /\ me.at = "record" /\ me.items[me.item].plan # Nil
          => Requested(me.item, me.items[me.item].plan)

AcceptInv ==
    /\ PackShape /\ RowsInv
    /\ ~overlapped => OneInv /\ KeysInv /\ \A r \in PackRequests : StepInv(r)

-----------------------------------------------------------------------------
(***************************************************************************)
(* What an item that is to be downloaded is shown as.                      *)
(***************************************************************************)

\* The phase is the first of the signals in this order, "missing" without any.
LEMMA PhaseIsFirst ==
    ASSUME NEW signals
    PROVE  LET order == <<"owned", "importing", "downloaded", "downloading", "queued",
                          "needs_review", "failed">>
           IN  \/ /\ A!Phase(signals) = "missing"
                  /\ \A j \in 1..7 : order[j] \notin signals
               \/ \E i \in 1..7 : /\ A!Phase(signals) = order[i] /\ order[i] \in signals
                                  /\ \A j \in 1..7 : order[j] \in signals => i <= j
<1> DEFINE order == <<"owned", "importing", "downloaded", "downloading", "queued",
                      "needs_review", "failed">>
           seen == {i \in DOMAIN order : order[i] \in signals}
           least(i) == i \in seen /\ \A j \in seen : i <= j
<1>0. DOMAIN order = 1..7
  OBVIOUS
<1>1. A!Phase(signals) = IF seen = {} THEN "missing"
                         ELSE order[CHOOSE i \in seen : \A j \in seen : i <= j]
  BY DEF A!Phase
<1> HIDE DEF order
<1>2. CASE seen = {}
  BY <1>0, <1>1, <1>2 DEF order
<1>3. CASE seen # {}
  <2>1. \E i \in 1..7 : least(i)
    <3>1. \E i \in 1..7 : i \in seen
      BY <1>0, <1>3
    <3>2. \/ least(1) \/ least(2) \/ least(3) \/ least(4) \/ least(5) \/ least(6) \/ least(7)
      BY <1>0, <3>1
    <3> QED
      BY <3>2
  <2> DEFINE i == CHOOSE i \in seen : \A j \in seen : i <= j
  <2>2. least(i)
    BY <2>1
  <2> HIDE DEF i
  <2>3. A!Phase(signals) = order[i]
    BY <1>1, <1>3 DEF i
  <2>4. i \in 1..7 /\ order[i] \in signals /\ \A j \in 1..7 : order[j] \in signals => i <= j
    BY <1>0, <2>2
  <2> QED
    BY <2>3, <2>4 DEF order
<1> QED
  BY <1>2, <1>3

\* The phase of an item that is not asked for yet: what its clients, its imports
\* or its job say of it.
LEMMA PhaseOfUnrequested ==
    ASSUME NEW signals, "queued" \notin signals
    PROVE  /\ A!Phase(signals) \in {"owned", "importing", "downloaded", "downloading",
                                    "needs_review", "failed", "missing"}
           /\ A!Phase(signals) = "owned" => "owned" \in signals
BY PhaseIsFirst

\* A plan that nothing was created for can be selected unless it is passed over,
\* and so can one that replaces a trumped download whatever has become of it.
LEMMA UnrequestedIsShown ==
    ASSUME NilIsNoValue, PackShape, RowsInv, NEW o \in Ordinals, NEW item \in Item,
           item.planState = "executable", item.plan # Nil, item.job = Nil,
           o \in Replacements \/ ~Created(item.plan), NEW view \in Views(o, item)
    PROVE  view.selectable \/ view.passed
<1>1. PICK sight \in Sight :
         LET look == Projected(o, item, sight)
         IN  view = [selectable |-> look.selectable, passed |-> PassedOver(item, look)]
  BY DEF Views
<1> DEFINE downloads == {[live |-> d, inLibrary |-> sight.library] :
                            d \in ClientHas(sight.progress)}
           aim == IF o \in Replacements
                  THEN [variant |-> item.plan, complete |-> FALSE, downloads |-> downloads]
                  ELSE Nil
           rec == [matched |-> TRUE, released |-> TRUE, planState |-> item.planState,
                   plan |-> item.plan, job |-> JobShown(item),
                   variants |-> {[key |-> item.plan, inLibrary |-> sight.library,
                                  eligible |-> TRUE, downloads |-> ClientHas(sight.progress)]},
                   downloads |-> IF o \in Replacements THEN {} ELSE downloads,
                   replacement |-> aim]
           look == Projected(o, item, sight)
           held == A!Satisfaction(rec, A!Holdings(rec, <<>>))
           signals == A!Signals(rec, sight.states, <<>>, held)
           phase == A!Phase(signals)
<1>2. look = A!Project(rec, sight.states, <<>>)
  BY DEF Projected
<1>3. /\ JobShown(item) # Nil <=> Created(item.plan)
      /\ aim # Nil <=> o \in Replacements
      /\ rec.matched /\ rec.released /\ rec.planState = "executable" /\ rec.plan # Nil
      /\ rec.job = JobShown(item) /\ rec.replacement = aim
  BY DEF NilIsNoValue, Created, JobShown
<1> HIDE DEF rec, aim, downloads
<1>4. /\ look.satisfaction = held
      /\ held \in {"satisfied", "unsatisfied"}
      /\ held = "unsatisfied" =>
            /\ look.disposition = A!Disposition(phase, "executable", TRUE, aim # Nil)
            /\ look.selectable = A!Selectable(rec, look.disposition)
      /\ held = "satisfied" => look.disposition = "resolved" /\ ~look.selectable
  <2>1. held \in {"satisfied", "unsatisfied"}
    BY <1>3 DEF A!Satisfaction
  <2>2. /\ look.satisfaction = held
        /\ look.selectable = A!Selectable(rec, look.disposition)
        /\ look.disposition =
              CASE rec.replacement # Nil /\ rec.planState = "cleanup_ready" -> "cleanup"
                [] held \in {"satisfied", "not_required"}
                      /\ ~(rec.replacement # Nil /\ rec.planState = "cleanup_ready") -> "resolved"
                [] OTHER -> A!Disposition(phase, rec.planState, rec.plan # Nil,
                                          rec.replacement # Nil)
    BY <1>2 DEF A!Project
  <2> HIDE DEF held, phase, look
  <2>3. held = "satisfied" => look.disposition = "resolved"
    BY <1>3, <2>2
  <2>4. held = "unsatisfied" =>
           look.disposition = A!Disposition(phase, "executable", TRUE, aim # Nil)
    BY <1>3, <2>2
  <2> QED
    BY <2>1, <2>2, <2>3, <2>4 DEF A!Selectable
<1>5. CASE held = "satisfied"
  BY <1>1, <1>4, <1>5 DEF PassedOver
<1>6. CASE held = "unsatisfied"
  <2>1. "owned" \notin signals
    BY <1>6 DEF A!Signals
  <2>2. CASE o \in Replacements
    <3>1. phase \in {"importing", "downloaded", "downloading", "queued", "needs_review",
                     "failed", "missing"}
      <4> HIDE DEF signals
      <4> QED
        BY <2>1, PhaseIsFirst
    <3> HIDE DEF phase
    <3>2. look.disposition \in {"actionable", "waiting", "review"}
      BY <1>4, <1>6, <3>1 DEF A!Disposition
    <3> QED
      BY <1>1, <1>3, <1>4, <1>6, <2>2, <3>2 DEF A!Selectable, PassedOver
  <2>3. CASE o \notin Replacements
    <3>1. JobShown(item) = Nil
      BY <1>3, <2>3
    <3>2. "queued" \notin signals
      BY <1>3, <3>1 DEF A!Signals, A!Queueing, NilIsNoValue
    <3>3. phase \in {"importing", "downloaded", "downloading", "needs_review", "failed",
                     "missing"}
      <4> HIDE DEF signals
      <4> QED
        BY <2>1, <3>2, PhaseOfUnrequested
    <3> HIDE DEF phase
    <3>4. look.disposition \in {"actionable", "waiting", "review"}
      BY <1>4, <1>6, <3>3 DEF A!Disposition
    <3> QED
      BY <1>1, <1>4, <1>6, <3>1, <3>4 DEF A!Selectable, PassedOver
  <2> QED
    BY <2>2, <2>3
<1> QED
  BY <1>4, <1>5, <1>6
-----------------------------------------------------------------------------
(***************************************************************************)
(* Every step keeps the shape and the rows.                                *)
(***************************************************************************)
LEMMA OrdinalsAre == Size \in Nat \ {0} /\ Ordinals = {o \in Nat : 1 <= o /\ o <= Size}
BY ChannelPacksAssumption DEF Ordinals

LEMMA PlansAreItems ==
    /\ NoItem \in Item
    /\ \A o \in Ordinals : \A item \in PlansOf(o) :
          /\ item \in Item /\ item.planState # "submitted"
          /\ item.planState = "executable" => item.job = Nil
BY DEF PlansOf, NoItem, Item

\* A plan of the whole pack.
LEMMA PlansOfAPack ==
    ASSUME NEW list \in [Ordinals -> UNION {PlansOf(o) : o \in Ordinals}]
    PROVE  /\ list \in [Ordinals -> Item] /\ Unstarted(list)
           /\ \A o \in Ordinals : list[o].planState # "submitted"
<1>1. \A o \in Ordinals : /\ list[o] \in Item /\ list[o].planState # "submitted"
                          /\ list[o].planState = "executable" => list[o].job = Nil
  BY PlansAreItems
<1> QED
  BY <1>1 DEF Unstarted

LEMMA NoRequestIs ==
    /\ NoRequest \in RequestRow /\ NoRequest.job = Nil /\ Unstarted(NoRequest.items)
    /\ [NoRequest EXCEPT !.at = "done"] \in RequestRow
    /\ [NoRequest EXCEPT !.at = "done"].at = "done"
    /\ [NoRequest EXCEPT !.at = "done"].job = Nil
    /\ [NoRequest EXCEPT !.at = "done"].items = NoRequest.items
    /\ AtAnItem(NoRequest) /\ AtAnItem([NoRequest EXCEPT !.at = "done"])
BY PlansAreItems DEF NoRequest, RequestRow, Unstarted, Ats, NoItem, AtAnItem

\* A step of one request.
Moves(r) == \A s \in PackRequests \ {r} : request'[s] = request[s]

LEMMA ShapeOfARequest ==
    ASSUME PackShape, RowsInv, NEW r \in PackRequests, NEW me \in RequestRow,
           request' = [request EXCEPT ![r] = me], Unstarted(me.items), AtAnItem(me),
           me.job # Nil => jobs'[me.job].state # "none"
    PROVE  /\ request' \in [PackRequests -> RequestRow] /\ request'[r] = me /\ Moves(r)
           /\ jobs' = jobs \/ (\A t \in Torrents : Created(t) => jobs'[t].state # "none")
              => \A s \in PackRequests :
                    /\ request'[s].job # Nil => jobs'[request'[s].job].state # "none"
                    /\ Unstarted(request'[s].items) /\ AtAnItem(request'[s])
<1>1. request' \in [PackRequests -> RequestRow] /\ request'[r] = me /\ Moves(r)
  BY DEF PackShape, Moves
<1>2. ASSUME jobs' = jobs \/ (\A t \in Torrents : Created(t) => jobs'[t].state # "none"),
             NEW s \in PackRequests
      PROVE  /\ request'[s].job # Nil => jobs'[request'[s].job].state # "none"
             /\ Unstarted(request'[s].items) /\ AtAnItem(request'[s])
  <2>1. CASE s = r
    BY <1>1, <2>1
  <2>2. CASE s # r
    <3>1. request'[s] = request[s] /\ request[s].job \in Torrents \cup {Nil}
      BY <1>1, <2>2 DEF PackShape, RequestRow, Moves
    <3> QED
      BY <1>2, <3>1 DEF RowsInv, Created
  <2> QED
    BY <2>1, <2>2
<1> QED
  BY <1>1, <1>2

LEMMA RowsInit == PacksInit => PackShape /\ RowsInv
<1> SUFFICES ASSUME PacksInit PROVE PackShape /\ RowsInv
  OBVIOUS
<1>1. PICK list \in [Ordinals -> UNION {PlansOf(o) : o \in Ordinals}] :
         pack = [decision |-> "open", version |-> 1, fingerprint |-> 1, items |-> list]
  BY DEF PacksInit
<1>2. pack \in PackRow /\ Unstarted(pack.items)
  BY <1>1, PlansOfAPack DEF PackRow
<1>3. jobs \in [Torrents -> JobRow] /\ \A t \in Torrents : jobs[t].key = Nil
  BY DEF PacksInit, NoJob, JobRow, States
<1>4. request \in [PackRequests -> RequestRow] /\ \A r \in PackRequests : request[r] = NoRequest
  BY NoRequestIs DEF PacksInit
<1> QED
  BY <1>2, <1>3, <1>4, NoRequestIs DEF PacksInit, PackShape, RowsInv

\* What only request r changes of itself.
LEMMA RowsOfARequest ==
    ASSUME PackShape, RowsInv, NEW r \in PackRequests, NEW me \in RequestRow,
           request' = [request EXCEPT ![r] = me], Unstarted(me.items), AtAnItem(me),
           me.job # Nil => Created(me.job),
           UNCHANGED <<jobs, imports, current>>, overlapped' \in BOOLEAN,
           passed' \subseteq Ordinals, pack' \in PackRow, Unstarted(pack'.items)
    PROVE  PackShape' /\ RowsInv' /\ request'[r] = me /\ Moves(r)
<1>1. me.job # Nil => jobs'[me.job].state # "none"
  BY DEF Created
<1> QED
  BY <1>1, ShapeOfARequest DEF PackShape, RowsInv, Created, Unstarted, AtAnItem
-----------------------------------------------------------------------------
(***************************************************************************)
(* One request at a time.                                                  *)
(***************************************************************************)
OneAtATime == ~overlapped => OneInv /\ KeysInv /\ \A r \in PackRequests : StepInv(r)

LEMMA AtsAre == PackShape => \A r \in PackRequests :
    Busy(r) <=> request[r].at \in {"project", "replace", "decide"} \cup Accepting
BY DEF PackShape, RequestRow, Ats, Busy, Accepting

\* A request that does nothing has nothing to keep.
LEMMA IdleWorks == \A r \in PackRequests : ~Busy(r) => StepInv(r)
BY DEF Busy, StepInv, Accepter, Accepting

\* While r is at work the others are not, and a step of r leaves them alone.
LEMMA OthersRest ==
    ASSUME NEW r \in PackRequests, Moves(r), \A s \in PackRequests \ {r} : ~Busy(s)
    PROVE  /\ \A s \in PackRequests \ {r} : ~Busy(s)' /\ StepInv(s)'
           /\ \A s, t \in PackRequests : Busy(s)' /\ Busy(t)' => s = t
BY DEF Moves, Busy, StepInv, Accepter, Accepting

LEMMA OneIsAlone ==
    ASSUME OneInv, NEW r \in PackRequests, Busy(r)
    PROVE  pack.decision = "open" /\ \A s \in PackRequests \ {r} : ~Busy(s)
BY DEF OneInv

\* What has been requested stays so.
LEMMA SettledStays ==
    ASSUME \A t \in Torrents : Created(t) => Created(t)', imports \subseteq imports',
           PackShape, NEW o \in Ordinals, pack'.items[o] = pack.items[o], Fulfilled(o)
    PROVE  Fulfilled(o)'
<1>1. pack.items[o].plan \in Torrents \cup {Nil}
  BY DEF PackShape, PackRow, Item
<1> QED
  BY <1>1 DEF Fulfilled, HasPlan, Requested

LEMMA AcceptInit == ASSUME NilIsNoValue, PacksInit PROVE AcceptInv
<1> SUFFICES OneAtATime
  BY RowsInit DEF AcceptInv, OneAtATime
<1>1. PICK list \in [Ordinals -> UNION {PlansOf(o) : o \in Ordinals}] :
         pack = [decision |-> "open", version |-> 1, fingerprint |-> 1, items |-> list]
  BY DEF PacksInit
<1>2. \A r \in PackRequests : ~Busy(r)
  BY DEF PacksInit, Busy, NoRequest
<1>3. OneInv
  BY <1>1, <1>2, PlansOfAPack DEF OneInv
<1>4. KeysInv
  <2>1. \A t \in Torrents : jobs[t].key = Nil
    BY DEF PacksInit, NoJob
  <2> QED
    BY <2>1 DEF KeysInv, NilIsNoValue
<1> QED
  BY <1>2, <1>3, <1>4, IdleWorks DEF OneAtATime

\* A request that ends, having changed nothing else.
LEMMA AcceptEnds ==
    ASSUME AcceptInv, NEW r \in PackRequests, Busy(r), Ends(r),
           UNCHANGED <<pack, jobs, imports, current, overlapped, passed>>
    PROVE  AcceptInv'
<1>1. PackShape' /\ RowsInv' /\ Moves(r) /\ ~Busy(r)'
  <2>1. /\ PackShape' /\ RowsInv' /\ request'[r] = [NoRequest EXCEPT !.at = "done"] /\ Moves(r)
    BY NoRequestIs, RowsOfARequest DEF AcceptInv, Ends, PackShape, RowsInv
  <2> QED
    BY <2>1, NoRequestIs DEF Busy
<1>2. ASSUME ~overlapped
      PROVE  OneInv' /\ KeysInv' /\ \A s \in PackRequests : StepInv(s)'
  <2>1. /\ pack.decision = "open" /\ \A s \in PackRequests \ {r} : ~Busy(s)
        /\ OneInv /\ KeysInv
    BY <1>2, OneIsAlone DEF AcceptInv
  <2>2. /\ \A s, t \in PackRequests : Busy(s)' /\ Busy(t)' => s = t
        /\ \A s \in PackRequests : ~Busy(s)'
    BY <1>1, <2>1, OthersRest
  <2>3. \A s \in PackRequests : StepInv(s)'
    BY <2>2 DEF Busy, StepInv, Accepter, Accepting
  <2>4. \A o \in Ordinals : Fulfilled(o) => Fulfilled(o)'
    BY DEF Fulfilled, HasPlan, Requested, Created
  <2> QED
    BY <2>1, <2>2, <2>3, <2>4 DEF OneInv, KeysInv
<1> QED
  BY <1>1, <1>2 DEF AcceptInv

LEMMA AcceptCrash ==
    ASSUME AcceptInv, Crash
    PROVE  AcceptInv'
<1>1. /\ request' \in [PackRequests -> RequestRow]
      /\ \A r \in PackRequests : /\ ~Busy(r)'
                                 /\ \/ request'[r] = request[r]
                                    \/ request'[r] = [NoRequest EXCEPT !.at = "done"]
  BY NoRequestIs DEF Crash, AcceptInv, PackShape, Busy
<1>2. PackShape' /\ RowsInv'
  BY <1>1, NoRequestIs
     DEF Crash, AcceptInv, PackShape, RowsInv, Created, Unstarted, AtAnItem
<1>3. ASSUME ~overlapped
      PROVE  OneInv' /\ KeysInv' /\ \A s \in PackRequests : StepInv(s)'
  <2>1. \A s \in PackRequests : StepInv(s)'
    BY <1>1 DEF Busy, StepInv, Accepter, Accepting
  <2>2. \A o \in Ordinals : Fulfilled(o) => Fulfilled(o)'
    BY DEF Crash, Fulfilled, HasPlan, Requested, Created
  <2> QED
    BY <1>1, <1>3, <2>1, <2>2 DEF AcceptInv, OneInv, KeysInv, Crash
<1> QED
  BY <1>2, <1>3 DEF AcceptInv, Crash

\* A request reads the pack; that it overlaps another one is remembered.
LEMMA AcceptLoaded ==
    ASSUME AcceptInv, NEW r \in PackRequests, NEW at \in {"project", "decide", "replace"},
           at = "decide" => r \notin Accepts, ~Busy(r), pack.decision = "open", Loaded(r, at),
           UNCHANGED <<pack, jobs, imports, current, passed>>
    PROVE  AcceptInv'
<1> DEFINE me == [NoRequest EXCEPT !.at = at, !.items = pack.items,
                                   !.version = pack.version, !.fingerprint = current]
<1>1. /\ me \in RequestRow /\ me.job = Nil /\ me.at = at /\ me.item = 0
      /\ me.items = pack.items /\ me.version = pack.version
  BY NoRequestIs DEF AcceptInv, PackShape, PackRow, RequestRow, NoRequest, Ats
<1> HIDE DEF me
<1>2. request' = [request EXCEPT ![r] = me] /\ overlapped' \in BOOLEAN
  BY DEF Loaded, me
<1>3. PackShape' /\ RowsInv' /\ request'[r] = me /\ Moves(r)
  BY <1>1, <1>2, RowsOfARequest DEF AcceptInv, PackShape, RowsInv, AtAnItem
<1>4. ASSUME ~overlapped'
      PROVE  OneInv' /\ KeysInv' /\ \A s \in PackRequests : StepInv(s)'
  <2>1. /\ ~overlapped /\ \A s \in PackRequests : ~Busy(s)
        /\ OneInv /\ KeysInv
    BY <1>4 DEF Loaded, AcceptInv
  <2>2. /\ \A s \in PackRequests \ {r} : ~Busy(s)' /\ StepInv(s)'
        /\ \A s, t \in PackRequests : Busy(s)' /\ Busy(t)' => s = t
    BY <1>3, <2>1, OthersRest
  <2>3. StepInv(r)'
    BY <1>1, <1>3 DEF StepInv, Accepter, Accepting
  <2>4. \A o \in Ordinals : Fulfilled(o) => Fulfilled(o)'
    BY DEF Fulfilled, HasPlan, Requested, Created
  <2> QED
    BY <2>1, <2>2, <2>3, <2>4 DEF OneInv, KeysInv
<1> QED
  BY <1>3, <1>4 DEF AcceptInv

\* A step of an accept that goes on.
LEMMA AcceptStep ==
    ASSUME AcceptInv, NEW r \in PackRequests, Busy(r), Moves(r), overlapped' = overlapped,
           PackShape', RowsInv',
           OneInv /\ KeysInv /\ StepInv(r) /\ pack.decision = "open" =>
              /\ pack'.decision = "open" /\ KeysInv' /\ StepInv(r)'
              /\ \A o \in Ordinals : pack'.items[o].planState = "submitted" => Fulfilled(o)'
    PROVE  AcceptInv'
<1>1. ASSUME ~overlapped
      PROVE  OneInv' /\ KeysInv' /\ \A s \in PackRequests : StepInv(s)'
  <2>1. /\ pack.decision = "open" /\ \A s \in PackRequests \ {r} : ~Busy(s)
        /\ OneInv /\ KeysInv /\ StepInv(r)
    BY <1>1, OneIsAlone DEF AcceptInv
  <2>2. /\ \A s \in PackRequests \ {r} : ~Busy(s)' /\ StepInv(s)'
        /\ \A s, t \in PackRequests : Busy(s)' /\ Busy(t)' => s = t
    BY <2>1, OthersRest
  <2> QED
    BY <2>1, <2>2 DEF OneInv
<1> QED
  BY <1>1 DEF AcceptInv

\* What could not be selected when the jobs were read has been asked for or is
\* passed over.
LEMMA AcceptProject ==
    ASSUME NilIsNoValue, AcceptInv, NEW r \in Accepts, Project(r)
    PROVE  AcceptInv'
<1>0. r \in PackRequests /\ Busy(r)
  BY DEF PackRequests, Project, Busy
<1>1. CASE Ends(r)
  BY <1>0, <1>1, AcceptEnds DEF Project
<1>2. CASE ~Ends(r)
  <2> DEFINE views == [o \in Ordinals |-> Views(o, request[r].items[o])]
             can(view) == {o \in Ordinals : view[o].selectable}
             over(view) == {o \in Ordinals : view[o].passed}
             me(view, selected) == [request[r] EXCEPT !.at = "item", !.item = 1,
                 !.selected = selected, !.selectable = can(view), !.passed = over(view)]
  <2>0. PICK view \in [Ordinals -> UNION {views[o] : o \in Ordinals}],
             selected \in SUBSET Ordinals :
           /\ \A o \in Ordinals : view[o] \in Views(o, request[r].items[o])
           /\ request' = [request EXCEPT ![r].at = "item", ![r].item = 1,
                 ![r].selected = selected, ![r].selectable = can(view), ![r].passed = over(view)]
    BY <1>2 DEF Project
  <2> DEFINE selectable == can(view)
             mine == me(view, selected)
  <2>1. selectable \in SUBSET Ordinals /\ over(view) \in SUBSET Ordinals
    OBVIOUS
  <2>2. request[r] \in RequestRow
    BY <1>0 DEF AcceptInv, PackShape
  <2>3. /\ mine \in RequestRow /\ mine.at = "item" /\ mine.item = 1 /\ mine.job = request[r].job
        /\ mine.items = request[r].items /\ mine.version = request[r].version
        /\ mine.selectable = selectable /\ mine.passed = over(view)
    BY <2>1, <2>2 DEF RequestRow, Ats
  <2>4. request' = [request EXCEPT ![r] = mine]
    BY <1>0, <2>0, <2>1, <2>2 DEF AcceptInv, PackShape, RequestRow
  <2> HIDE DEF mine, me
  <2>5. PackShape' /\ RowsInv' /\ request'[r] = mine /\ Moves(r)
    <3>1. AtAnItem(mine) /\ Unstarted(mine.items) /\ (mine.job # Nil => Created(mine.job))
      BY <1>0, <2>3 DEF AcceptInv, RowsInv, AtAnItem
    <3> QED
      BY <1>0, <2>3, <2>4, <3>1, RowsOfARequest DEF Project, AcceptInv, PackShape, RowsInv
  <2>6. ASSUME OneInv, KeysInv, StepInv(r), pack.decision = "open"
        PROVE  /\ pack'.decision = "open" /\ KeysInv' /\ StepInv(r)'
               /\ \A o \in Ordinals : pack'.items[o].planState = "submitted" => Fulfilled(o)'
    <3>1. UNCHANGED <<pack, jobs, imports>>
      BY DEF Project
    <3>2. \A o \in Ordinals : Fulfilled(o) => Fulfilled(o)'
      BY <3>1 DEF Fulfilled, HasPlan, Requested, Created
    <3>3. /\ request[r].version = pack.version
          /\ \A o \in Ordinals : request[r].items[o] = pack.items[o]
      <4>1. request[r].item = 0
        BY <2>6 DEF StepInv, Project
      <4>2. \A o \in Ordinals : o >= 0
        BY OrdinalsAre
      <4> QED
        BY <1>0, <2>6, <4>1, <4>2 DEF StepInv
    <3>4. ASSUME NEW o \in Ordinals, o \notin selectable
          PROVE  o \in over(view) \/ Fulfilled(o)
      <4>1. SUFFICES ASSUME HasPlan(o), pack.items[o].planState = "executable",
                            ~Requested(o, pack.items[o].plan)
                     PROVE  view[o].passed
        BY <2>6 DEF OneInv, Fulfilled, HasPlan
      <4>2. pack.items[o] \in Item /\ pack.items[o].job = Nil /\ pack.items[o].plan # Nil
        BY <4>1 DEF AcceptInv, PackShape, PackRow, RowsInv, Unstarted, HasPlan
      <4>3. view[o] \in Views(o, pack.items[o]) /\ ~view[o].selectable
        BY <2>0, <3>3, <3>4
      <4>4. o \in Replacements \/ ~Created(pack.items[o].plan)
        BY <4>1 DEF Requested
      <4> QED
        BY <4>1, <4>2, <4>3, <4>4, UnrequestedIsShown DEF AcceptInv
    <3>5. StepInv(r)'
      <4>1. \A o \in Ordinals : o >= 1
        BY OrdinalsAre
      <4>2. \A o \in Ordinals :
               o < 1 \/ o \notin selectable => o \in over(view) \/ Fulfilled(o)'
        BY <3>2, <3>4, <4>1, OrdinalsAre
      <4> HIDE DEF selectable, over
      <4> QED
        BY <2>3, <2>5, <3>1, <3>3, <4>2 DEF StepInv
    <3> QED
      BY <2>6, <3>1, <3>2, <3>5 DEF KeysInv, OneInv
  <2> QED
    BY <1>0, <2>5, <2>6, AcceptStep DEF Project
<1> QED
  BY <1>1, <1>2

\* A plan that is selected for download starts nothing but itself: the rows of r
\* as it goes on, and the row of the item it is at.
Mine(r, at, item, task) == [request[r] EXCEPT !.at = at, !.item = item, !.job = task]

LEMMA MineIs ==
    ASSUME AcceptInv, NEW r \in PackRequests, NEW at \in Ats, NEW item \in Nat,
           NEW task \in Torrents \cup {Nil}
    PROVE  /\ Mine(r, at, item, task) \in RequestRow
           /\ Mine(r, at, item, task).at = at /\ Mine(r, at, item, task).item = item
           /\ Mine(r, at, item, task).job = task
           /\ Mine(r, at, item, task).items = request[r].items
           /\ Mine(r, at, item, task).version = request[r].version
           /\ Mine(r, at, item, task).selectable = request[r].selectable
           /\ Mine(r, at, item, task).passed = request[r].passed
           /\ Unstarted(Mine(r, at, item, task).items)
BY DEF Mine, AcceptInv, PackShape, RequestRow, RowsInv

\* How the steps of an accept move on.
LEMMA FollowingIs ==
    ASSUME AcceptInv, NEW r \in PackRequests
    PROVE  /\ Following(r) = [request EXCEPT ![r] = Mine(r, "item", request[r].item + 1, Nil)]
           /\ \A at \in Ats : RequestGoes(r, at) =>
                 request' = [request EXCEPT ![r] = Mine(r, at, request[r].item, request[r].job)]
           /\ request[r] \in RequestRow /\ request[r].item \in Nat
           /\ request[r].job \in Torrents \cup {Nil}
BY DEF AcceptInv, PackShape, RequestRow, Following, RequestGoes, Mine

\* A step of an accept that changes nothing but where it is.
LEMMA AcceptGoesOn ==
    ASSUME AcceptInv, NEW r \in Accepts, Accepter(r),
           NEW at \in Ats, NEW item \in Nat, NEW task \in Torrents \cup {Nil},
           request' = [request EXCEPT ![r] = Mine(r, at, item, task)],
           AtAnItem(Mine(r, at, item, task)), task # Nil => Created(task),
           item >= request[r].item, at \in Accepting \cup {"decide"},
           UNCHANGED <<pack, jobs, imports, current, overlapped, passed>>,
           StepInv(r) =>
              /\ \A o \in Ordinals : o < item => o \in request[r].passed \/ Fulfilled(o)
              /\ at = "decide" => item > Size
              /\ at \in {"import", "record"} /\ request[r].items[item].plan # Nil
                    => task = request[r].items[item].plan
              /\ at = "record" /\ request[r].items[item].plan # Nil
                    => Requested(item, request[r].items[item].plan)
    PROVE  AcceptInv'
<1> DEFINE me == Mine(r, at, item, task)
<1>1. r \in PackRequests /\ Busy(r)
  BY DEF PackRequests, Accepter, Accepting, Busy
<1>2. /\ me \in RequestRow /\ me.at = at /\ me.item = item /\ me.job = task
      /\ me.items = request[r].items /\ me.version = request[r].version
      /\ me.selectable = request[r].selectable /\ me.passed = request[r].passed
      /\ Unstarted(me.items) /\ AtAnItem(me)
      /\ request' = [request EXCEPT ![r] = me]
  BY <1>1, MineIs
<1> HIDE DEF me
<1>3. PackShape' /\ RowsInv' /\ request'[r] = me /\ Moves(r)
  BY <1>1, <1>2, RowsOfARequest DEF AcceptInv, PackShape, RowsInv
<1>4. ASSUME OneInv, KeysInv, StepInv(r), pack.decision = "open"
      PROVE  /\ pack'.decision = "open" /\ KeysInv' /\ StepInv(r)'
             /\ \A o \in Ordinals : pack'.items[o].planState = "submitted" => Fulfilled(o)'
  <2>1. \A o \in Ordinals : Fulfilled(o) => Fulfilled(o)'
    BY DEF Fulfilled, HasPlan, Requested, Created
  <2>2. request[r].item \in Nat
    BY <1>1, FollowingIs
  <2>3. /\ request[r].version = pack.version
        /\ \A o \in Ordinals : o >= item => request[r].items[o] = pack.items[o]
    BY <1>1, <1>4, <2>2, OrdinalsAre DEF StepInv
  <2>4. \A o \in Ordinals :
           o < item \/ o \notin me.selectable => o \in me.passed \/ Fulfilled(o)'
    BY <1>2, <1>4, <2>1 DEF StepInv
  <2>5. at = "record" /\ me.items[item].plan # Nil =>
           /\ jobs'[me.items[item].plan].state # "none"
           /\ item \in Replacements => me.items[item].plan \in imports'
    BY <1>2, <1>4 DEF Requested, Created
  <2>6. StepInv(r)'
    BY <1>2, <1>3, <1>4, <2>3, <2>4, <2>5 DEF StepInv, Accepting, Requested, Created
  <2> QED
    BY <1>4, <2>1, <2>6 DEF OneInv, KeysInv
<1> QED
  BY <1>1, <1>3, <1>4, AcceptStep

\* A step of an accept that writes the item it is at and goes to the next one.
LEMMA AcceptWrites ==
    ASSUME AcceptInv, NEW r \in Accepts, request[r].at \in {"item", "record"},
           NEW o \in Ordinals, o = request[r].item, NEW row \in Item,
           row.planState # "executable",
           pack' = [pack EXCEPT !.items[o] = row], request' = Following(r),
           UNCHANGED <<jobs, imports, current, overlapped, passed>>,
           OneInv /\ StepInv(r) =>
              /\ row.planState \in {"submitted"} /\ row.plan # Nil => Requested(o, row.plan)
              /\ row.plan \in {Nil, pack.items[o].plan}
    PROVE  AcceptInv'
<1> DEFINE me == Mine(r, "item", o + 1, Nil)
<1>1. r \in PackRequests /\ Busy(r) /\ Accepter(r) /\ o \in Nat
  BY OrdinalsAre DEF PackRequests, Accepter, Accepting, Busy
<1>2. /\ me \in RequestRow /\ me.at = "item" /\ me.item = o + 1 /\ me.job = Nil
      /\ me.items = request[r].items /\ me.version = request[r].version
      /\ me.selectable = request[r].selectable /\ me.passed = request[r].passed
      /\ Unstarted(me.items) /\ AtAnItem(me)
      /\ request' = [request EXCEPT ![r] = me]
  <2>1. "item" \in Ats /\ o + 1 \in Nat /\ Nil \in Torrents \cup {Nil}
    BY <1>1 DEF Ats
  <2>2. request' = [request EXCEPT ![r] = me]
    BY <1>1, FollowingIs
  <2> QED
    BY <1>1, <2>1, <2>2, MineIs DEF AtAnItem
<1> HIDE DEF me
<1>3. /\ pack' \in PackRow /\ pack'.decision = pack.decision /\ pack'.version = pack.version
      /\ pack'.items[o] = row /\ \A p \in Ordinals \ {o} : pack'.items[p] = pack.items[p]
  BY DEF AcceptInv, PackShape, PackRow
<1>4. Unstarted(pack'.items)
  BY <1>3 DEF AcceptInv, RowsInv, Unstarted
<1>5. PackShape' /\ RowsInv' /\ request'[r] = me /\ Moves(r)
  BY <1>1, <1>2, <1>3, <1>4, RowsOfARequest DEF AcceptInv, PackShape
<1>6. ASSUME OneInv, KeysInv, StepInv(r), pack.decision = "open"
      PROVE  /\ pack'.decision = "open" /\ KeysInv' /\ StepInv(r)'
             /\ \A p \in Ordinals : pack'.items[p].planState = "submitted" => Fulfilled(p)'
  <2>1. \A p \in Ordinals : p # o /\ Fulfilled(p) => Fulfilled(p)'
    BY <1>3 DEF Fulfilled, HasPlan, Requested, Created
  <2>2. Fulfilled(o)'
    BY <1>3, <1>6 DEF Fulfilled, HasPlan, Requested, Created
  <2>3. \A p \in Ordinals :
             p < o + 1 \/ p \notin me.selectable => p \in me.passed \/ Fulfilled(p)'
    <3>1. \A p \in Ordinals :
             p < o \/ p \notin me.selectable => p \in me.passed \/ Fulfilled(p)
      BY <1>1, <1>2, <1>6 DEF StepInv
    <3> QED
      BY <1>1, <2>1, <2>2, <3>1, OrdinalsAre
  <2>4. /\ me.version = pack'.version
        /\ \A p \in Ordinals : p >= o + 1 => me.items[p] = pack'.items[p]
    BY <1>1, <1>2, <1>3, <1>6, OrdinalsAre DEF StepInv
  <2>5. StepInv(r)'
    BY <1>2, <1>5, <2>3, <2>4 DEF StepInv
  <2>6. KeysInv'
    BY <1>3, <1>6 DEF KeysInv
  <2> QED
    BY <1>3, <1>6, <2>1, <2>2, <2>5, <2>6 DEF OneInv
<1> QED
  BY <1>1, <1>5, <1>6, AcceptStep

LEMMA AcceptChoose ==
    ASSUME AcceptInv, NEW r \in Accepts, Choose(r)
    PROVE  AcceptInv'
<1> DEFINE o == request[r].item
<1>1. /\ r \in PackRequests /\ Accepter(r) /\ request[r] \in RequestRow /\ o \in Nat
      /\ request[r].job \in Torrents \cup {Nil}
      /\ request[r].job # Nil => Created(request[r].job)
      /\ request[r].selectable \subseteq Ordinals
      /\ request[r].at = "item" /\ UNCHANGED <<jobs, imports, current, faults, overlapped, passed>>
  BY FollowingIs DEF PackRequests, Choose, Accepter, Accepting, AcceptInv, RowsInv, RequestRow
<1>2. CASE o > Size
  <2>1. UNCHANGED pack /\ RequestGoes(r, "decide")
    BY <1>2, OrdinalsAre, <1>1 DEF Choose
  <2>2. request' = [request EXCEPT ![r] = Mine(r, "decide", o, request[r].job)]
    BY <1>1, <2>1, FollowingIs DEF Ats
  <2>3. AtAnItem(Mine(r, "decide", o, request[r].job))
    BY <1>1, MineIs DEF Ats, AtAnItem
  <2>4. StepInv(r) => \A p \in Ordinals : p < o => p \in request[r].passed \/ Fulfilled(p)
    BY <1>1 DEF StepInv
  <2>5. "decide" \in Ats /\ "decide" \in Accepting \cup {"decide"} /\ o >= request[r].item
    BY <1>1 DEF Ats
  <2>6. "decide" \notin {"import", "record"} /\ "decide" # "record"
    OBVIOUS
  <2> HIDE DEF o
  <2> QED
    BY <1>1, <1>2, <2>1, <2>2, <2>3, <2>4, <2>5, <2>6, AcceptGoesOn
<1>3. CASE o <= Size /\ o \notin request[r].selectable
  <2>1. UNCHANGED pack /\ request' = Following(r)
    BY <1>3, <1>1, OrdinalsAre DEF Choose
  <2>2. request' = [request EXCEPT ![r] = Mine(r, "item", o + 1, Nil)]
    BY <1>1, <2>1, FollowingIs
  <2>3. AtAnItem(Mine(r, "item", o + 1, Nil))
    BY <1>1, MineIs DEF Ats, AtAnItem
  <2>4. StepInv(r) => \A p \in Ordinals : p < o + 1 => p \in request[r].passed \/ Fulfilled(p)
    <3>1. StepInv(r) => \A p \in Ordinals :
             p < o \/ p \notin request[r].selectable => p \in request[r].passed \/ Fulfilled(p)
      BY <1>1 DEF StepInv
    <3> QED
      BY <1>1, <1>3, <3>1, OrdinalsAre
  <2>5. /\ "item" \in Ats /\ "item" \in Accepting \cup {"decide"} /\ o + 1 >= request[r].item
        /\ o + 1 \in Nat /\ Nil \in Torrents \cup {Nil}
    BY <1>1 DEF Ats, Accepting
  <2>6. "item" \notin {"import", "record"} /\ "item" # "record" /\ "item" # "decide"
    OBVIOUS
  <2> HIDE DEF o
  <2> QED
    BY <1>1, <2>1, <2>2, <2>3, <2>4, <2>5, <2>6, AcceptGoesOn
<1>4. CASE o <= Size /\ o \in request[r].selectable \ request[r].selected
  <2> DEFINE row == [planState |-> "excluded", plan |-> Nil, job |-> request[r].items[o].job]
  <2>1. pack' = [pack EXCEPT !.items[o] = row] /\ request' = Following(r)
    BY <1>4, <1>1, OrdinalsAre DEF Choose
  <2>2. o \in Ordinals
    BY <1>1, <1>4
  <2>3. row \in Item /\ row.planState = "excluded" /\ row.plan = Nil
    BY <1>1, <2>2 DEF RequestRow, Item
  <2> QED
    BY <1>1, <2>1, <2>2, <2>3, AcceptWrites
<1>5. CASE o <= Size /\ o \in request[r].selectable /\ o \in request[r].selected
  <2> DEFINE next == IF request[r].items[o].plan # Nil THEN "enqueue" ELSE "import"
  <2>1. UNCHANGED pack /\ RequestGoes(r, next)
    BY <1>5, <1>1, OrdinalsAre DEF Choose
  <2>2. /\ next \in Ats /\ next \in Accepting \cup {"decide"} /\ o >= request[r].item
        /\ next \in {"enqueue", "import"}
        /\ next = "enqueue" <=> request[r].items[o].plan # Nil
    BY <1>1 DEF Ats, Accepting
  <2> HIDE DEF next
  <2>3. request' = [request EXCEPT ![r] = Mine(r, next, o, request[r].job)]
    BY <1>1, <2>1, <2>2, FollowingIs
  <2>4. AtAnItem(Mine(r, next, o, request[r].job))
    <3>1. o \in Ordinals
      BY <1>1, <1>5
    <3> QED
      BY <1>1, <2>2, <3>1, MineIs DEF AtAnItem
  <2>5. StepInv(r) => \A p \in Ordinals : p < o => p \in request[r].passed \/ Fulfilled(p)
    BY <1>1 DEF StepInv
  <2>6. next # "decide" /\ next # "record" /\ (next = "import" => request[r].items[o].plan = Nil)
    BY <2>2
  <2> HIDE DEF o
  <2> QED
    BY <1>1, <2>1, <2>2, <2>3, <2>4, <2>5, <2>6, AcceptGoesOn
<1> QED
  BY <1>1, <1>2, <1>3, <1>4, <1>5, OrdinalsAre

\* The job of the plan is there, under the key of the item or as it was.
LEMMA EnqueuedIs ==
    ASSUME NilIsNoValue, PackShape, RowsInv, NEW t \in Torrents, NEW o \in Ordinals,
           NEW version \in Nat, jobs' = CreateJob(t, <<o, version>>)
    PROVE  LET task == JobOf(t, <<o, version>>) IN
           /\ jobs' \in [Torrents -> JobRow]
           /\ \A u \in Torrents : Created(u) => jobs'[u].state # "none"
           /\ \A u \in Torrents : jobs'[u].key # Nil => jobs'[u].state # "none"
           /\ task \in Torrents /\ jobs'[task].state # "none"
           /\ task # t => jobs[task].key = <<o, version>>
           /\ \A u \in Torrents : \/ jobs'[u].key = jobs[u].key
                                  \/ u = t /\ jobs'[u].key = <<o, version>>
<1> DEFINE key == <<o, version>>
<1>1. key # Nil /\ key \in (Ordinals \X Nat) \cup {Nil}
  BY DEF NilIsNoValue
<1> HIDE DEF key
<1>2. CASE \E u \in Torrents : jobs[u].key = key
  <2>1. jobs' = jobs /\ JobOf(t, key) \in Torrents /\ jobs[JobOf(t, key)].key = key
    BY <1>2 DEF CreateJob, JobOf, key
  <2> QED
    BY <1>1, <2>1 DEF PackShape, RowsInv, Created, key
<1>3. CASE ~\E u \in Torrents : jobs[u].key = key
  <2>1. JobOf(t, key) = t
    BY <1>3 DEF JobOf
  <2>2. jobs' = IF jobs[t].state \in {"none", "failed"}
                THEN [jobs EXCEPT ![t] = [state |-> "queued", key |-> key]] ELSE jobs
    BY <1>3 DEF CreateJob, key
  <2>3. [state |-> "queued", key |-> key] \in JobRow
    BY <1>1 DEF JobRow, States
  <2>4. CASE jobs[t].state \in {"none", "failed"}
    <3>1. /\ jobs' \in [Torrents -> JobRow]
          /\ jobs'[t].state = "queued" /\ jobs'[t].key = key
          /\ \A u \in Torrents \ {t} : jobs'[u] = jobs[u]
      BY <2>2, <2>3, <2>4 DEF PackShape
    <3> QED
      BY <2>1, <3>1 DEF PackShape, RowsInv, Created, key
  <2>5. CASE jobs[t].state \notin {"none", "failed"}
    BY <2>1, <2>2, <2>5 DEF PackShape, RowsInv, Created, key
  <2> QED
    BY <2>4, <2>5
<1> QED
  BY <1>2, <1>3

LEMMA AcceptEnqueue ==
    ASSUME NilIsNoValue, AcceptInv, NEW r \in Accepts, Enqueue(r)
    PROVE  AcceptInv'
<1> DEFINE o == request[r].item
           t == request[r].items[o].plan
           version == request[r].version
           task == JobOf(t, <<o, version>>)
           next == IF o \in Replacements THEN "import" ELSE "record"
           me == Mine(r, next, o, task)
<1>1. /\ r \in PackRequests /\ Busy(r) /\ Accepter(r) /\ request[r] \in RequestRow
      /\ request[r].at = "enqueue"
      /\ UNCHANGED <<pack, imports, current, faults, overlapped, passed>>
  BY FollowingIs DEF PackRequests, Enqueue, Accepter, Accepting, AcceptInv, Busy
<1>2. o \in Ordinals /\ o \in Nat /\ version \in Nat /\ t \in Torrents /\ next \in Ats
  BY <1>1, OrdinalsAre DEF AcceptInv, RowsInv, AtAnItem, RequestRow, Item, Ats
<1>3. jobs' = CreateJob(t, <<o, version>>)
  BY DEF Enqueue
<1>4. /\ jobs' \in [Torrents -> JobRow]
      /\ \A u \in Torrents : Created(u) => jobs'[u].state # "none"
      /\ \A u \in Torrents : jobs'[u].key # Nil => jobs'[u].state # "none"
      /\ task \in Torrents /\ jobs'[task].state # "none"
      /\ task # t => jobs[task].key = <<o, version>>
      /\ \A u \in Torrents : \/ jobs'[u].key = jobs[u].key
                             \/ u = t /\ jobs'[u].key = <<o, version>>
  <2> HIDE DEF o, t, version
  <2> QED
    BY <1>2, <1>3, EnqueuedIs DEF AcceptInv
<1>5. request' = [request EXCEPT ![r] = me]
  BY <1>1 DEF Enqueue, AcceptInv, PackShape, RequestRow, Mine
<1> HIDE DEF task, next
<1>6. /\ me \in RequestRow /\ me.at = next /\ me.item = o /\ me.job = task
      /\ me.items = request[r].items /\ me.version = version
      /\ me.selectable = request[r].selectable /\ me.passed = request[r].passed
      /\ Unstarted(me.items)
  BY <1>1, <1>2, <1>4, MineIs
<1> HIDE DEF me
<1>7. PackShape' /\ RowsInv' /\ request'[r] = me /\ Moves(r)
  <2>1. AtAnItem(me)
    BY <1>2, <1>6 DEF AtAnItem, next
  <2>2. /\ request' \in [PackRequests -> RequestRow] /\ request'[r] = me /\ Moves(r)
        /\ \A s \in PackRequests : /\ request'[s].job # Nil => jobs'[request'[s].job].state # "none"
                                   /\ Unstarted(request'[s].items) /\ AtAnItem(request'[s])
    BY <1>1, <1>4, <1>5, <1>6, <2>1, ShapeOfARequest DEF AcceptInv
  <2>3. PackShape'
    BY <1>1, <1>4, <2>2 DEF AcceptInv, PackShape
  <2>4. \A u \in Torrents : jobs'[u].key # Nil \/ u \in imports' => jobs'[u].state # "none"
    BY <1>1, <1>4 DEF AcceptInv, RowsInv
  <2>5. Unstarted(pack'.items)
    BY <1>1 DEF AcceptInv, RowsInv
  <2> QED
    BY <2>2, <2>3, <2>4, <2>5 DEF RowsInv, Created, Unstarted, AtAnItem
<1>8. ASSUME OneInv, KeysInv, StepInv(r), pack.decision = "open"
      PROVE  /\ pack'.decision = "open" /\ KeysInv' /\ StepInv(r)'
             /\ \A p \in Ordinals : pack'.items[p].planState = "submitted" => Fulfilled(p)'
  <2>1. \A p \in Ordinals : Fulfilled(p) => Fulfilled(p)'
    BY <1>1, <1>4, SettledStays DEF AcceptInv, Created
  <2>2. version = pack.version /\ \A p \in Ordinals : p >= o => request[r].items[p] = pack.items[p]
    BY <1>1, <1>8 DEF StepInv
  <2>3. pack.items[o].plan = t
    BY <1>2, <2>2
  <2> HIDE DEF o, t, version
  <2>4. task = t
    <3>1. ASSUME task # t PROVE FALSE
      <4>1. jobs[task].key = <<o, version>> /\ task \in Torrents
        BY <1>4, <3>1
      <4>2. pack.items[o].plan \in {task, Nil}
        BY <1>2, <1>8, <2>2, <4>1 DEF KeysInv
      <4> QED
        BY <1>2, <2>3, <3>1, <4>2, ChannelPacksAssumption
    <3> QED
      BY <3>1
  <2>5. KeysInv'
    <3>1. SUFFICES ASSUME NEW u \in Torrents, NEW p \in Ordinals, NEW w \in Nat,
                          jobs'[u].key = <<p, w>>
                   PROVE  /\ w <= pack.version
                          /\ w = pack.version => pack.items[p].plan \in {u, Nil}
      BY <1>1 DEF KeysInv
    <3>2. CASE jobs'[u].key = jobs[u].key
      BY <1>8, <3>1, <3>2 DEF KeysInv
    <3>3. CASE u = t /\ jobs'[u].key = <<o, version>>
      BY <1>2, <2>2, <2>3, <3>1, <3>3
    <3> QED
      BY <1>4, <3>2, <3>3
  <2>6. StepInv(r)'
    <3>1. \A p \in Ordinals :
             p < o \/ p \notin me.selectable => p \in me.passed \/ Fulfilled(p)'
      BY <1>1, <1>6, <1>8, <2>1 DEF StepInv, o
    <3>2. me.version = pack'.version /\ \A p \in Ordinals : p >= o => me.items[p] = pack'.items[p]
      BY <1>1, <1>6, <2>2
    <3>3. me.items[o].plan = t
      BY <1>6 DEF t
    <3>4. next = "record" => jobs'[t].state # "none" /\ (o \in Replacements => t \in imports')
      BY <1>4, <2>4 DEF next
    <3>5. next \in {"import", "record"}
      BY DEF next
    <3> QED
      BY <1>6, <1>7, <2>4, <3>1, <3>2, <3>3, <3>4, <3>5 DEF StepInv, Requested, Created
  <2> QED
    BY <1>1, <1>8, <2>1, <2>5, <2>6 DEF OneInv
<1> QED
  BY <1>1, <1>7, <1>8, AcceptStep

LEMMA AcceptImport ==
    ASSUME AcceptInv, NEW r \in Accepts, Import(r)
    PROVE  AcceptInv'
<1> DEFINE o == request[r].item
           task == request[r].job
           t == request[r].items[o].plan
           me == Mine(r, "record", o, task)
<1>1. /\ r \in PackRequests /\ Busy(r) /\ Accepter(r) /\ request[r] \in RequestRow
      /\ request[r].at = "import" /\ "record" \in Ats
      /\ UNCHANGED <<pack, jobs, current, faults, overlapped, passed>>
  BY FollowingIs DEF PackRequests, Import, Accepter, Accepting, AcceptInv, Busy, Ats
<1>2. o \in Ordinals /\ o \in Nat /\ task \in Torrents \cup {Nil} /\ t \in Torrents \cup {Nil}
  BY <1>1 DEF AcceptInv, RowsInv, AtAnItem, RequestRow, Item
<1>3. task # Nil => Created(task)
  BY <1>1 DEF AcceptInv, RowsInv
<1>4. imports' = imports \cup ({task} \ {Nil})
  BY DEF Import
<1>5. request' = [request EXCEPT ![r] = me]
  BY <1>1, FollowingIs DEF Import
<1>6. /\ me \in RequestRow /\ me.at = "record" /\ me.item = o /\ me.job = task
      /\ me.items = request[r].items /\ me.version = request[r].version
      /\ me.selectable = request[r].selectable /\ me.passed = request[r].passed
      /\ Unstarted(me.items)
  BY <1>1, <1>2, MineIs
<1> HIDE DEF me
<1>7. PackShape' /\ RowsInv' /\ request'[r] = me /\ Moves(r)
  <2>1. AtAnItem(me)
    BY <1>2, <1>6 DEF AtAnItem
  <2>2. /\ request' \in [PackRequests -> RequestRow] /\ request'[r] = me /\ Moves(r)
        /\ \A s \in PackRequests : /\ request'[s].job # Nil => jobs'[request'[s].job].state # "none"
                                   /\ Unstarted(request'[s].items) /\ AtAnItem(request'[s])
    <3>1. me.job # Nil => jobs'[me.job].state # "none"
      BY <1>1, <1>3, <1>6 DEF Created
    <3> QED
      BY <1>1, <1>5, <1>6, <2>1, <3>1, ShapeOfARequest DEF AcceptInv
  <2>3. PackShape'
    BY <1>1, <1>2, <1>4, <2>2 DEF AcceptInv, PackShape
  <2>4. \A u \in Torrents : jobs'[u].key # Nil \/ u \in imports' => jobs'[u].state # "none"
    BY <1>1, <1>3, <1>4 DEF AcceptInv, RowsInv, Created
  <2>5. Unstarted(pack'.items)
    BY <1>1 DEF AcceptInv, RowsInv
  <2> QED
    BY <2>2, <2>3, <2>4, <2>5 DEF RowsInv, Created, Unstarted, AtAnItem
<1>8. ASSUME OneInv, KeysInv, StepInv(r), pack.decision = "open"
      PROVE  /\ pack'.decision = "open" /\ KeysInv' /\ StepInv(r)'
             /\ \A p \in Ordinals : pack'.items[p].planState = "submitted" => Fulfilled(p)'
  <2>1. \A p \in Ordinals : Fulfilled(p) => Fulfilled(p)'
    <3>1. (\A u \in Torrents : Created(u) => Created(u)') /\ imports \subseteq imports'
      BY <1>1, <1>4 DEF Created
    <3> QED
      BY <1>1, <3>1, SettledStays DEF AcceptInv
  <2>2. /\ request[r].version = pack.version
        /\ \A p \in Ordinals : p >= o => request[r].items[p] = pack.items[p]
    BY <1>1, <1>8 DEF StepInv
  <2>3. t # Nil => task = t
    BY <1>1, <1>8 DEF StepInv
  <2>4. t # Nil => jobs'[t].state # "none" /\ t \in imports'
    BY <1>1, <1>3, <1>4, <2>3 DEF Created
  <2>5. StepInv(r)'
    <3>1. \A p \in Ordinals :
             p < o \/ p \notin me.selectable => p \in me.passed \/ Fulfilled(p)'
      BY <1>1, <1>6, <1>8, <2>1 DEF StepInv
    <3>2. me.version = pack'.version /\ \A p \in Ordinals : p >= o => me.items[p] = pack'.items[p]
      BY <1>1, <1>6, <2>2
    <3>3. me.items[o].plan = t
      BY <1>6
    <3> HIDE DEF t, o, task
    <3> QED
      BY <1>6, <1>7, <2>3, <2>4, <3>1, <3>2, <3>3 DEF StepInv, Requested, Created
  <2> QED
    BY <1>1, <1>8, <2>1, <2>5 DEF OneInv, KeysInv
<1> QED
  BY <1>1, <1>7, <1>8, AcceptStep

LEMMA AcceptRecord ==
    ASSUME AcceptInv, NEW r \in Accepts, Record(r)
    PROVE  AcceptInv'
<1> DEFINE o == request[r].item
           row == [planState |-> "submitted", plan |-> request[r].items[o].plan,
                   job |-> request[r].job]
<1>1. /\ r \in PackRequests /\ Busy(r) /\ request[r] \in RequestRow /\ request[r].at = "record"
  BY FollowingIs DEF PackRequests, Record, AcceptInv, Busy
<1>2. o \in Ordinals /\ o >= o
  BY <1>1, OrdinalsAre DEF AcceptInv, RowsInv, AtAnItem
<1>3. row \in Item
  BY <1>1, <1>2 DEF RequestRow, Item
<1>4. ASSUME StepInv(r)
      PROVE  /\ row.plan # Nil => Requested(o, row.plan)
             /\ row.plan = pack.items[o].plan
  BY <1>1, <1>2, <1>4 DEF StepInv
<1> QED
  BY <1>1, <1>2, <1>3, <1>4, AcceptWrites DEF Record

\* The last step of a request, which may write the pack.
LEMMA AcceptEndsWith ==
    ASSUME AcceptInv, NEW r \in PackRequests, Busy(r), Ends(r),
           UNCHANGED <<jobs, imports, current, overlapped>>, passed' \subseteq Ordinals,
           pack' \in PackRow, Unstarted(pack'.items),
           OneInv /\ KeysInv /\ StepInv(r) /\ pack.decision = "open" =>
              /\ KeysInv'
              /\ pack'.decision = "accepted" => \A o \in Ordinals : o \in passed' \/ Fulfilled(o)'
              /\ \A o \in Ordinals : pack'.items[o].planState = "submitted" => Fulfilled(o)'
    PROVE  AcceptInv'
<1>1. PackShape' /\ RowsInv' /\ Moves(r) /\ ~Busy(r)'
  <2>1. /\ PackShape' /\ RowsInv' /\ request'[r] = [NoRequest EXCEPT !.at = "done"] /\ Moves(r)
    BY NoRequestIs, RowsOfARequest DEF AcceptInv, Ends, PackShape
  <2> QED
    BY <2>1, NoRequestIs DEF Busy
<1>2. ASSUME ~overlapped
      PROVE  OneInv' /\ KeysInv' /\ \A s \in PackRequests : StepInv(s)'
  <2>1. /\ pack.decision = "open" /\ \A s \in PackRequests \ {r} : ~Busy(s)
        /\ OneInv /\ KeysInv /\ StepInv(r)
    BY <1>2, OneIsAlone DEF AcceptInv
  <2>2. /\ \A s, t \in PackRequests : Busy(s)' /\ Busy(t)' => s = t
        /\ \A s \in PackRequests : ~Busy(s)'
    BY <1>1, <2>1, OthersRest
  <2>3. \A s \in PackRequests : StepInv(s)'
    BY <2>2 DEF Busy, StepInv, Accepter, Accepting
  <2> QED
    BY <2>1, <2>2, <2>3 DEF OneInv
<1> QED
  BY <1>1, <1>2 DEF AcceptInv

LEMMA AcceptDecide ==
    ASSUME AcceptInv, NEW r \in Accepts \cup Rejects, Decide(r)
    PROVE  AcceptInv'
<1>1. r \in PackRequests /\ Busy(r) /\ request[r].at = "decide" /\ request[r].item \in Nat
      /\ request[r].passed \subseteq Ordinals /\ passed' = request[r].passed
  BY FollowingIs DEF PackRequests, Decide, Busy, RequestRow
<1>2. /\ pack' \in PackRow /\ pack'.items = pack.items /\ pack'.version = pack.version
      /\ pack'.decision = IF r \in Accepts THEN "accepted" ELSE "rejected"
  BY DEF Decide, AcceptInv, PackShape, PackRow
<1>3. \A o \in Ordinals : Fulfilled(o) => Fulfilled(o)'
  BY <1>2 DEF Decide, Fulfilled, HasPlan, Requested, Created
<1>4. ASSUME StepInv(r), r \in Accepts
      PROVE  \A o \in Ordinals : o \in request[r].passed \/ Fulfilled(o)
  <2>1. /\ request[r].item > Size
        /\ \A o \in Ordinals : o < request[r].item => o \in request[r].passed \/ Fulfilled(o)
    BY <1>1, <1>4 DEF StepInv, Accepter
  <2> QED
    BY <1>1, <2>1, OrdinalsAre
<1>5. Unstarted(pack'.items)
  BY <1>2 DEF AcceptInv, RowsInv
<1>6. ASSUME OneInv, KeysInv, StepInv(r), pack.decision = "open"
      PROVE  /\ KeysInv'
             /\ pack'.decision = "accepted" => \A o \in Ordinals : o \in passed' \/ Fulfilled(o)'
             /\ \A o \in Ordinals : pack'.items[o].planState = "submitted" => Fulfilled(o)'
  BY <1>2, <1>3, <1>4, <1>6 DEF OneInv, KeysInv, Decide
<1> QED
  BY <1>1, <1>2, <1>5, <1>6, AcceptEndsWith DEF Decide

\* New items come under a new version, so that no key is one of theirs.
LEMMA AcceptReplace ==
    ASSUME AcceptInv, NEW r \in PackRequests, request[r].at = "replace", Ends(r),
           NEW list \in [Ordinals -> Item], Unstarted(list), pack' = ReplaceChannelPlan(r, list),
           StepInv(r) => \A o \in Ordinals :
                            list[o].planState = "submitted" => list[o] = pack.items[o],
           UNCHANGED <<jobs, imports, current, overlapped, passed>>
    PROVE  AcceptInv'
<1>1. Busy(r) /\ request[r] \in RequestRow
  BY FollowingIs DEF Busy
<1>2. /\ pack' \in PackRow /\ pack'.items = list /\ pack'.version = pack.version + 1
      /\ pack'.decision = pack.decision /\ pack.version \in Nat
  <2>1. pack \in PackRow /\ pack.version + 1 \in Nat /\ request[r].fingerprint \in Nat
    BY <1>1 DEF AcceptInv, PackShape, PackRow, RequestRow
  <2>2. pack' = [pack EXCEPT !.version = pack.version + 1,
                             !.fingerprint = request[r].fingerprint, !.items = list]
    BY <2>1 DEF ReplaceChannelPlan, PackRow
  <2> QED
    BY <2>1, <2>2 DEF PackRow
<1>3. ASSUME OneInv, KeysInv, StepInv(r), pack.decision = "open"
      PROVE  /\ KeysInv'
             /\ pack'.decision = "accepted" => \A o \in Ordinals : o \in passed' \/ Fulfilled(o)'
             /\ \A o \in Ordinals : pack'.items[o].planState = "submitted" => Fulfilled(o)'
  <2>1. KeysInv'
    BY <1>2, <1>3 DEF KeysInv
  <2>2. \A o \in Ordinals : pack'.items[o].planState = "submitted" => Fulfilled(o)'
    BY <1>2, <1>3 DEF OneInv, Fulfilled, HasPlan, Requested, Created
  <2> QED
    BY <1>2, <1>3, <2>1, <2>2
<1> QED
  BY <1>1, <1>2, <1>3, AcceptEndsWith DEF AcceptInv, PackShape

LEMMA AcceptReplan ==
    ASSUME AcceptInv, NEW r \in Replans, Replan(r)
    PROVE  AcceptInv'
<1>1. r \in PackRequests /\ r \notin Accepts
  BY ChannelPacksAssumption DEF PackRequests
<1>2. CASE LoadForReplan(r)
  BY <1>1, <1>2, AcceptLoaded DEF LoadForReplan, Busy
<1>3. CASE ~LoadForReplan(r)
  <2>1. PICK list \in [Ordinals -> UNION {PlansOf(o) : o \in Ordinals}] :
           pack' = ReplaceChannelPlan(r, list)
    BY <1>3 DEF Replan
  <2>2. /\ list \in [Ordinals -> Item] /\ Unstarted(list)
        /\ \A o \in Ordinals : list[o].planState # "submitted"
    BY PlansOfAPack
  <2> QED
    BY <1>1, <1>3, <2>1, <2>2, AcceptReplace DEF Replan
<1> QED
  BY <1>2, <1>3

LEMMA AcceptAttach ==
    ASSUME AcceptInv, NEW r \in Attaches, Attach(r)
    PROVE  AcceptInv'
<1>1. r \in PackRequests /\ r \notin Accepts
  BY ChannelPacksAssumption DEF PackRequests
<1>2. CASE LoadOpenPack(r, "replace")
  BY <1>1, <1>2, AcceptLoaded DEF LoadOpenPack, Busy
<1>3. CASE ~LoadOpenPack(r, "replace")
  <2>1. /\ request[r].at = "replace" /\ Ends(r)
        /\ UNCHANGED <<jobs, imports, current, faults, overlapped, passed>>
    BY <1>3 DEF Attach
  <2>2. PICK o \in Ordinals : \E item \in PlansOf(o) :
           pack' = ReplaceChannelPlan(r, [request[r].items EXCEPT ![o] = item])
    BY <1>3 DEF Attach
  <2>3. PICK item \in PlansOf(o) :
           pack' = ReplaceChannelPlan(r, [request[r].items EXCEPT ![o] = item])
    BY <2>2
  <2> DEFINE list == [request[r].items EXCEPT ![o] = item]
  <2>4. /\ item \in Item /\ item.planState # "submitted"
        /\ item.planState = "executable" => item.job = Nil
    BY PlansAreItems
  <2>5. request[r] \in RequestRow /\ Unstarted(request[r].items)
    BY <1>1, FollowingIs DEF AcceptInv, RowsInv
  <2>6. /\ list \in [Ordinals -> Item] /\ list[o] = item
        /\ \A p \in Ordinals \ {o} : list[p] = request[r].items[p]
    BY <2>4, <2>5 DEF RequestRow
  <2> HIDE DEF list
  <2>7. Unstarted(list)
    BY <2>4, <2>5, <2>6 DEF Unstarted
  <2>8. ASSUME StepInv(r), NEW p \in Ordinals, list[p].planState = "submitted"
        PROVE  list[p] = pack.items[p]
    <3>1. p # o /\ list[p] = request[r].items[p]
      BY <2>4, <2>6, <2>8
    <3>2. request[r].item = 0 /\ Busy(r)
      BY <2>1, <2>8 DEF StepInv, Busy
    <3>3. p >= 0
      BY OrdinalsAre
    <3> QED
      BY <2>8, <3>1, <3>2, <3>3 DEF StepInv
  <2>9. pack' = ReplaceChannelPlan(r, list)
    BY <2>3 DEF list
  <2> QED
    BY <1>1, <2>1, <2>6, <2>7, <2>8, <2>9, AcceptReplace
<1> QED
  BY <1>2, <1>3

\* What the requests leave alone stays as it is.
LEMMA AcceptApart ==
    ASSUME AcceptInv, UNCHANGED <<pack, imports, request, overlapped, passed>>, current' \in Nat,
           jobs' \in [Torrents -> JobRow],
           \A t \in Torrents : /\ Created(t) => jobs'[t].state # "none"
                               /\ jobs'[t].key = jobs[t].key
    PROVE  AcceptInv'
<1>1. PackShape' /\ RowsInv'
  <2>1. PackShape'
    BY DEF AcceptInv, PackShape
  <2>2. \A r \in PackRequests : request[r].job \in Torrents \cup {Nil}
    BY FollowingIs
  <2>3. (\A r \in PackRequests : AtAnItem(request'[r]) /\ Unstarted(request'[r].items))
        /\ Unstarted(pack'.items)
    BY DEF AcceptInv, RowsInv
  <2> QED
    BY <2>1, <2>2, <2>3 DEF AcceptInv, RowsInv, Created, Unstarted, AtAnItem
<1>2. \A o \in Ordinals : Fulfilled(o) => Fulfilled(o)'
  BY SettledStays DEF AcceptInv, Created
<1>3. ASSUME ~overlapped
      PROVE  OneInv' /\ KeysInv' /\ \A r \in PackRequests : StepInv(r)'
  <2>1. OneInv' /\ KeysInv'
    BY <1>2, <1>3 DEF AcceptInv, OneInv, KeysInv, Busy
  <2>2. ASSUME NEW r \in PackRequests
        PROVE  StepInv(r)'
    <3>1. StepInv(r) /\ request'[r] = request[r] /\ request[r] \in RequestRow
      BY <1>3, FollowingIs DEF AcceptInv
    <3>2. request[r].at = "record" /\ request[r].items[request[r].item].plan # Nil =>
             /\ jobs'[request[r].items[request[r].item].plan].state # "none"
             /\ request[r].item \in Replacements
                   => request[r].items[request[r].item].plan \in imports
      <4>1. SUFFICES ASSUME request[r].at = "record",
                            request[r].items[request[r].item].plan # Nil
                     PROVE  /\ jobs'[request[r].items[request[r].item].plan].state # "none"
                            /\ request[r].item \in Replacements
                                  => request[r].items[request[r].item].plan \in imports
        OBVIOUS
      <4>2. request[r].item \in Ordinals
        BY <4>1 DEF AcceptInv, RowsInv, AtAnItem
      <4>3. request[r].items[request[r].item].plan \in Torrents
        BY <3>1, <4>1, <4>2 DEF RequestRow, Item
      <4> QED
        BY <3>1, <4>1, <4>3 DEF StepInv, Requested
    <3> QED
      BY <1>2, <3>1, <3>2 DEF StepInv, Busy, Accepter, Accepting, Requested, Created
  <2> QED
    BY <2>1, <2>2
<1> QED
  BY <1>1, <1>3 DEF AcceptInv

LEMMA AcceptJob ==
    ASSUME AcceptInv, NEW t \in Torrents, JobGoesOn(t)
    PROVE  AcceptInv'
<1>1. PICK state \in {"active", "complete", "failed"} : jobs' = [jobs EXCEPT ![t].state = state]
  BY DEF JobGoesOn
<1>2. /\ jobs' \in [Torrents -> JobRow]
      /\ \A u \in Torrents : /\ Created(u) => jobs'[u].state # "none"
                             /\ jobs'[u].key = jobs[u].key
  BY <1>1 DEF AcceptInv, PackShape, JobRow, States, Created
<1>3. current \in Nat
  BY DEF AcceptInv, PackShape
<1> QED
  BY <1>2, <1>3, AcceptApart DEF JobGoesOn

LEMMA AcceptNext == ASSUME NilIsNoValue, AcceptInv, [PacksNext]_packs PROVE AcceptInv'
<1>1. ASSUME NEW r \in Accepts, Accept(r) PROVE AcceptInv'
  <2>1. r \in PackRequests
    BY DEF PackRequests
  <2>2. CASE LoadOpenPack(r, "project")
    BY <2>1, <2>2, AcceptLoaded DEF LoadOpenPack, Busy
  <2> QED
    BY <1>1, <2>2, AcceptProject, AcceptChoose, AcceptEnqueue, AcceptImport, AcceptRecord,
       AcceptDecide DEF Accept
<1>2. ASSUME NEW r \in Rejects, Reject(r) PROVE AcceptInv'
  <2>1. r \in PackRequests /\ r \notin Accepts
    BY ChannelPacksAssumption DEF PackRequests
  <2>2. CASE LoadOpenPack(r, "decide")
    BY <2>1, <2>2, AcceptLoaded DEF LoadOpenPack, Busy
  <2> QED
    BY <1>2, <2>2, AcceptDecide DEF Reject
<1>3. ASSUME NEW r \in PackRequests, Fail(r) PROVE AcceptInv'
  BY <1>3, AcceptEnds DEF Fail
<1>4. CASE ChangePreferences
  BY <1>4, AcceptApart DEF ChangePreferences, AcceptInv, PackShape, Created
<1>5. CASE UNCHANGED packs
  BY <1>5, AcceptApart DEF packs, AcceptInv, PackShape, Created
<1> QED
  BY <1>1, <1>2, <1>3, <1>4, <1>5, AcceptReplan, AcceptAttach, AcceptCrash, AcceptJob
     DEF PacksNext

\* A pack that ends up accepted has asked for the download of each item it planned
\* and for the import of each replacement, however often an accept broke off,
\* unless requests overlapped, or the accept that decided passed the item over: it
\* was there, on its way without this program, or had an import to be reviewed.
THEOREM AcceptedPacksAreRequested ==
    ASSUME NilIsNoValue PROVE PacksSpec => []AcceptedIsRequested
<1>1. PacksInit => AcceptInv
  BY AcceptInit
<1>2. AcceptInv /\ [PacksNext]_packs => AcceptInv'
  BY AcceptNext
<1>3. AcceptInv => AcceptedIsRequested
  BY DEF AcceptInv, OneInv, AcceptedIsRequested, Fulfilled, HasPlan, Requested, Created
<1> QED
  BY <1>1, <1>2, <1>3, PTL DEF PacksSpec

-----------------------------------------------------------------------------
(***************************************************************************)
(* PackPlanning: what an item is projected from when it is shown.          *)
(***************************************************************************)

\* None is not a job.
NoneIsNoJob == \A state, variant : [state |-> state, variant |-> variant] # None

\* What can be selected and replaces nothing is not owned, on its way or there.
LEMMA SelectableIsIdle ==
    ASSUME NEW me, NEW states, Acq!Project(me, states, <<>>).selectable, me.replacement = None
    PROVE  \E satisfaction :
              Acq!Signals(me, states, <<>>, satisfaction)
                 \cap {"owned", "importing", "downloaded", "downloading", "queued"} = {}
<1> DEFINE satisfaction == Acq!Satisfaction(me, Acq!Holdings(me, <<>>))
           signals == Acq!Signals(me, states, <<>>, satisfaction)
           asked == Acq!Disposition(Acq!Phase(signals), me.planState, me.plan # None, FALSE)
           disposition == IF satisfaction \in {"satisfied", "not_required"} THEN "resolved"
                          ELSE asked
<1>1. Acq!Project(me, states, <<>>).selectable = Acq!Selectable(me, disposition)
  BY DEF Acq!Project
<1>2. disposition \in {"actionable", "cleanup"}
  <2> HIDE DEF disposition
  <2> QED
    BY <1>1 DEF Acq!Selectable
<1>3. Acq!Phase(signals) \notin {"owned", "importing", "downloaded", "downloading", "queued"}
  <2> HIDE DEF signals, satisfaction
  <2> QED
    BY <1>2 DEF Acq!Disposition
<1>4. Acq!Phase(signals) = A!Phase(signals)
  BY DEF Acq!Phase, A!Phase
<1> HIDE DEF signals, satisfaction
<1>5. signals \cap {"owned", "importing", "downloaded", "downloading", "queued"} = {}
  BY <1>3, <1>4, PhaseIsFirst
<1> QED
  BY <1>5 DEF signals

\* What an item that replaces nothing is projected from when it is shown.
Known(me, item, task, progress) ==
    /\ me.replacement = None /\ me.downloads = {}
    /\ me.job = IF task = "none" THEN None ELSE [state |-> task, variant |-> me.job.variant]
    /\ \E seen \in me.variants : seen.downloads = LiveDownload(progress)

ShownInv ==
    stage = "shown" /\ shown.item.aim = None =>
        \E me : /\ Known(me, shown.item, shown.job, shown.progress)
                /\ shown.status = Acq!Project(me, shown.states, <<>>)

LEMMA HydratedIsKnown ==
    ASSUME NoneIsNoJob, NEW item, NEW torrent \in TorrentsOf(item), NEW task, NEW progress,
           item.aim = None
    PROVE  Known(Hydrated(item, torrent, task, progress), item, task, progress)
<1> DEFINE me == Hydrated(item, torrent, task, progress)
<1>1. PICK v \in ToSet(item.variants) : <<v.tracker, v.id>> = torrent
  BY DEF TorrentsOf
<1>2. /\ me.job = IF task = "none" THEN None ELSE [state |-> task, variant |-> torrent]
      /\ me.replacement = None /\ me.downloads = {}
  BY DEF Hydrated
<1>3. \E seen \in me.variants : seen.downloads = LiveDownload(progress)
  <2> DEFINE row(w) == [key |-> <<w.tracker, w.id>>, inLibrary |-> FALSE,
                        eligible |-> Eligibility(w, prefs).eligible,
                        downloads |-> IF <<w.tracker, w.id>> = torrent
                                      THEN LiveDownload(progress) ELSE {}]
  <2>1. me.variants = {row(w) : w \in ToSet(item.variants)}
    BY DEF Hydrated
  <2>2. row(v).downloads = LiveDownload(progress)
    BY <1>1
  <2>3. row(v) \in me.variants
    BY <1>1, <2>1
  <2> QED
    BY <2>2, <2>3
<1> HIDE DEF me
<1> QED
  BY <1>2, <1>3 DEF Known, me

\* Work on its way is a signal.
LEMMA WorkIsSeen ==
    ASSUME NoneIsNoJob, NEW me, NEW item, NEW task, NEW states, NEW progress, NEW satisfaction,
           Known(me, item, task, progress),
           \/ task \in {"queued", "active", "complete"} \/ progress = "partial"
           \/ states \cap {"ready", "downloading", "complete"} # {}
    PROVE  Acq!Signals(me, states, <<>>, satisfaction)
              \cap {"owned", "importing", "downloaded", "downloading", "queued"} # {}
<1> DEFINE signals == Acq!Signals(me, states, <<>>, satisfaction)
<1>1. CASE task \in {"queued", "active", "complete"}
  <2>1. me.job # None /\ me.job.state = task
    BY <1>1 DEF NoneIsNoJob, Known
  <2>2. /\ task = "queued" => "queued" \in signals
        /\ task = "active" => "downloading" \in signals
        /\ task = "complete" => "downloaded" \in signals
    BY <2>1 DEF Acq!Signals, Acq!Queueing
  <2> QED
    BY <1>1, <2>2
<1>2. CASE progress = "partial"
  <2>1. PICK d : d \in LiveDownload(progress) /\ ~d.done
    <3> DEFINE live == [id |-> progress, done |-> FALSE, state |-> "downloading"]
    <3>1. (progress = "done") = FALSE /\ progress # "none"
      BY <1>2
    <3>2. LiveDownload(progress) = {live}
      BY <3>1 DEF LiveDownload
    <3>3. live \in {live} /\ ~live.done
      OBVIOUS
    <3> QED
      BY <3>2, <3>3
  <2>2. \E seen \in me.variants : \E e \in seen.downloads : ~e.done
    BY <2>1 DEF Known
  <2>3. "downloading" \in signals
    BY <2>2 DEF Acq!Signals
  <2> QED
    BY <2>3
<1>3. CASE states \cap {"ready", "downloading", "complete"} # {}
  <2>1. /\ "ready" \in states => "importing" \in signals
        /\ "downloading" \in states => "downloading" \in signals
        /\ "complete" \in states => "downloaded" \in signals
    BY DEF Acq!Signals, Acq!Importing
  <2> QED
    BY <1>3, <2>1
<1> QED
  BY <1>1, <1>2, <1>3

LEMMA ShownNext == ASSUME NoneIsNoJob, ShownInv, [PlansNext]_plans PROVE ShownInv'
<1>1. CASE Save
  BY <1>1 DEF Save, ShownInv
<1>2. ASSUME NEW r \in Recommendations, Resolve(r) PROVE ShownInv'
  BY <1>2 DEF Resolve, ShownInv
<1>3. CASE Fit
  BY <1>3 DEF Fit, ShownInv
<1>4. ASSUME NEW task \in Jobs, NEW states \in Imports, NEW progress \in Progresses,
             NEW torrent \in TorrentsOf(Last(items)),
             Show(Last(items), torrent, task, states, progress)
      PROVE  ShownInv'
  <2> DEFINE item == Last(items)
             me == Hydrated(item, torrent, task, progress)
             status == Acq!Project(me, states, <<>>)
  <2>1. shown' = [item |-> item, job |-> task, states |-> states, progress |-> progress,
                  status |-> status]
    BY <1>4 DEF Show
  <2>2. item.aim = None => Known(me, item, task, progress)
    BY HydratedIsKnown
  <2> HIDE DEF item, me
  <2>3. /\ shown'.item = item /\ shown'.job = task /\ shown'.states = states
        /\ shown'.progress = progress /\ shown'.status = Acq!Project(me, states, <<>>)
    BY <2>1
  <2> HIDE DEF status
  <2>4. shown'.item.aim = None =>
           \E one : /\ Known(one, shown'.item, shown'.job, shown'.progress)
                    /\ shown'.status = Acq!Project(one, shown'.states, <<>>)
    BY <2>2, <2>3
  <2> QED
    BY <2>4 DEF ShownInv
<1>5. CASE UNCHANGED plans
  BY <1>5 DEF plans, ShownInv
<1> QED
  BY <1>1, <1>2, <1>3, <1>4, <1>5 DEF PlansNext

\* An item that replaces nothing cannot be selected while a job of it is queued,
\* active or complete, the client shows a torrent of it unfinished, or an import
\* of its release is ready, downloading or complete, whatever the other two say.
\* A torrent that only the client knows, and has finished, is not covered.
THEOREM WorkIsNotSelectedTwice == ASSUME NoneIsNoJob PROVE PlansSpec => []NotSelectedTwice
<1>1. PlansInit => ShownInv
  BY DEF PlansInit, ShownInv
<1>2. ShownInv /\ [PlansNext]_plans => ShownInv'
  BY ShownNext
<1>3. ShownInv => NotSelectedTwice
  <2> SUFFICES ASSUME ShownInv, stage = "shown", shown.status.selectable,
                      shown.item.aim = None
               PROVE  /\ shown.job \notin {"queued", "active", "complete"}
                      /\ shown.progress # "partial"
                      /\ shown.states \cap {"ready", "downloading", "complete"} = {}
    BY DEF NotSelectedTwice
  <2>1. PICK me : /\ Known(me, shown.item, shown.job, shown.progress)
                  /\ shown.status = Acq!Project(me, shown.states, <<>>)
    BY DEF ShownInv
  <2>2. Acq!Project(me, shown.states, <<>>).selectable /\ me.replacement = None
    BY <2>1 DEF Known
  <2>3. PICK satisfaction :
           Acq!Signals(me, shown.states, <<>>, satisfaction)
              \cap {"owned", "importing", "downloaded", "downloading", "queued"} = {}
    BY <2>2, SelectableIsIdle
  <2> QED
    BY <2>1, <2>3, WorkIsSeen
<1> QED
  BY <1>1, <1>2, <1>3, PTL DEF PlansSpec

(***************************************************************************)
(* Induction and recursion over positions.  The theorems of the library    *)
(* that take an operator are not used: a property of a position is the     *)
(* set of positions that have it, and a step is a function.                *)
(***************************************************************************)
LEMMA Least ==
    ASSUME NEW S \in SUBSET Nat, S # {}
    PROVE  \E n \in S : \A m \in S : n <= m
<1>1. \E n \in S : \A m \in S : <<m, n>> \notin OpToRel(<, Nat)
  BY NatLessThanWellFounded, WFMin
<1>2. \A m, n \in Nat : m < n => <<m, n>> \in OpToRel(<, Nat)
  BY DEF OpToRel
<1>3. PICK n \in S : \A m \in S : <<m, n>> \notin OpToRel(<, Nat)
  BY <1>1
<1>4. ASSUME NEW m \in S PROVE n <= m
  <2>1. m \in Nat /\ n \in Nat
    OBVIOUS
  <2>2. ~(m < n)
    BY <1>2, <1>3, <2>1
  <2> QED
    BY <2>1, <2>2
<1> QED
  BY <1>4

LEMMA Induction ==
    ASSUME NEW S, NEW N \in Nat, 0 \in S, \A n \in 1..N : n - 1 \in S => n \in S
    PROVE  0..N \subseteq S
<1> DEFINE Rest == (0..N) \ S
<1> SUFFICES ASSUME Rest # {} PROVE FALSE
  OBVIOUS
<1>0. Rest \in SUBSET Nat
  OBVIOUS
<1>1. PICK n \in Rest : \A m \in Rest : n <= m
  <2> HIDE DEF Rest
  <2> QED
    BY <1>0, Least
<1>2. n # 0
  BY <1>1
<1>3. n - 1 \in 0..N /\ n \in 1..N
  BY <1>1, <1>2
<1>4. n - 1 \in S
  BY <1>1, <1>3
<1> QED
  BY <1>1, <1>3, <1>4

\* The function f starts at base and goes on as next says.
Runs(f, base, N, next) ==
    f[0] = base /\ \A n \in 1..N : f[n] = next[<<n, f[n - 1]>>]

LEMMA Recursion ==
    ASSUME NEW S, NEW base \in S, NEW N \in Nat, NEW next \in [(1..N) \X S -> S]
    PROVE  \E f \in [0..N -> S] : Runs(f, base, N, next)
<1> DEFINE Good(n, f) == /\ f \in [0..n -> S] /\ f[0] = base
                         /\ \A m \in 1..n : f[m] = next[<<m, f[m - 1]>>]
           T == {n \in 0..N : \E f \in [0..n -> S] : Good(n, f)}
<1>1. 0 \in T
  <2> DEFINE f == [n \in 0..0 |-> base]
  <2>1. f \in [0..0 -> S] /\ Good(0, f)
    OBVIOUS
  <2>2. 0 \in 0..N
    OBVIOUS
  <2> HIDE DEF Good, f
  <2> QED
    BY <2>1, <2>2
<1>2. ASSUME NEW n \in 1..N, n - 1 \in T PROVE n \in T
  <2>1. PICK f \in [0..(n - 1) -> S] : Good(n - 1, f)
    BY <1>2
  <2> DEFINE g == [m \in 0..n |-> IF m = n THEN next[<<n, f[n - 1]>>] ELSE f[m]]
  <2>0. f[n - 1] \in S
    <3>1. n - 1 \in 0..(n - 1)
      OBVIOUS
    <3> QED
      BY <3>1
  <2>2. next[<<n, f[n - 1]>>] \in S
    <3>1. <<n, f[n - 1]>> \in (1..N) \X S
      BY <2>0
    <3> HIDE DEF g
    <3> QED
      BY <3>1
  <2>3. g \in [0..n -> S]
    BY <2>1, <2>2
  <2>4. g[0] = base
    BY <2>1
  <2>5. ASSUME NEW m \in 1..n PROVE g[m] = next[<<m, g[m - 1]>>]
    <3>1. m - 1 \in 0..n /\ m - 1 # n /\ g[m - 1] = f[m - 1]
      OBVIOUS
    <3>2. CASE m = n
      BY <3>1, <3>2
    <3>3. CASE m # n
      <4>1. m \in 1..(n - 1) /\ g[m] = f[m]
        BY <3>3
      <4> QED
        BY <2>1, <3>1, <4>1
    <3> QED
      BY <3>2, <3>3
  <2>6. Good(n, g)
    BY <2>3, <2>4, <2>5
  <2> HIDE DEF Good, g
  <2> QED
    BY <2>3, <2>6
<1> HIDE DEF T
<1>3. N \in T
  BY <1>1, <1>2, Induction
<1> QED
  BY <1>3 DEF T, Runs

(***************************************************************************)
(* Positions and the order of the variants.                                *)
(***************************************************************************)
LEMMA PositionIs ==
    ASSUME NEW found \in SUBSET Nat, NEW fallback
    PROVE  /\ found = {} => Position(found, fallback) = fallback
           /\ found # {} => /\ Position(found, fallback) \in found
                            /\ \A i \in found : Position(found, fallback) <= i
<1>1. CASE found = {}
  BY <1>1 DEF Position
<1>2. CASE found # {}
  <2>1. \E i \in found : \A j \in found : i <= j
    BY <1>2, Least
  <2> QED
    BY <1>2, <2>1 DEF Position
<1> QED
  BY <1>1, <1>2

\* The order of the ranks is a weak order.
LEMMA ComparingIsAnOrder ==
    ASSUME NEW N \in Nat, NEW l \in [1..N -> Int], NEW m \in [1..N -> Int],
           NEW r \in [1..N -> Int]
    PROVE  /\ CompareVariants(l, r) => CompareVariants(l, m) \/ CompareVariants(m, r)
           /\ CompareVariants(l, m) /\ CompareVariants(m, r) => CompareVariants(l, r)
<1>1. ASSUME CompareVariants(l, r) PROVE CompareVariants(l, m) \/ CompareVariants(m, r)
  <2>1. PICK p \in 1..N : l[p] < r[p] /\ \A j \in 1..(p - 1) : l[j] = r[j]
    BY <1>1 DEF CompareVariants
  <2> DEFINE Apart == {q \in 1..(p - 1) : l[q] # m[q]}
  <2>2. CASE Apart = {}
    <3>1. \A q \in 1..(p - 1) : l[q] = m[q] /\ m[q] = r[q]
      BY <2>1, <2>2
    <3>2. l[p] < m[p] \/ m[p] < r[p]
      BY <2>1
    <3> QED
      BY <2>1, <3>1, <3>2 DEF CompareVariants
  <2>3. CASE Apart # {}
    <3>1. PICK q \in Apart : \A j \in Apart : q <= j
      <4>1. Apart \in SUBSET Nat
        OBVIOUS
      <4> HIDE DEF Apart
      <4> QED
        BY <2>3, <4>1, Least
    <3>2. q \in 1..N /\ l[q] # m[q] /\ l[q] = r[q]
      BY <2>1, <3>1
    <3>3. \A j \in 1..(q - 1) : l[j] = m[j] /\ m[j] = r[j]
      <4> SUFFICES ASSUME NEW j \in 1..(q - 1) PROVE l[j] = m[j] /\ m[j] = r[j]
        OBVIOUS
      <4>1. j \in 1..(p - 1) /\ ~(q <= j)
        BY <2>1, <3>1
      <4>2. j \notin Apart
        BY <3>1, <4>1
      <4> QED
        BY <2>1, <4>1, <4>2
    <3>4. l[q] < m[q] \/ m[q] < r[q]
      BY <3>2
    <3> QED
      BY <3>2, <3>3, <3>4 DEF CompareVariants
  <2> QED
    BY <2>2, <2>3
<1>2. ASSUME CompareVariants(l, m), CompareVariants(m, r) PROVE CompareVariants(l, r)
  <2>1. PICK p \in 1..N : l[p] < m[p] /\ \A j \in 1..(p - 1) : l[j] = m[j]
    BY <1>2 DEF CompareVariants
  <2>2. PICK q \in 1..N : m[q] < r[q] /\ \A j \in 1..(q - 1) : m[j] = r[j]
    BY <1>2 DEF CompareVariants
  <2>3. PICK i \in {p, q} : i <= p /\ i <= q
    BY <2>1, <2>2
  <2>4. l[i] < r[i] /\ \A j \in 1..(i - 1) : l[j] = r[j]
    BY <2>1, <2>2, <2>3
  <2> QED
    BY <2>3, <2>4 DEF CompareVariants
<1> QED
  BY <1>1, <1>2

\* Among the candidates there is a first one.
LEMMA FirstIsOne ==
    ASSUME NEW N \in Nat, NEW M \in Nat, NEW candidates \in SUBSET (1..M), candidates # {},
           NEW ranks \in [candidates -> [1..N -> Int]]
    PROVE  FirstOf(candidates, ranks) \in candidates
<1> DEFINE Before(i, j) == \/ CompareVariants(ranks[i], ranks[j])
                           \/ i < j /\ ~CompareVariants(ranks[j], ranks[i])
           HasFirst(k) == \A some \in SUBSET (candidates \cap (1..k)) :
                             some # {} => \E i \in some : \A j \in some \ {i} : Before(i, j)
           T == {k \in 0..M : HasFirst(k)}
<1>1. 0 \in T
  <2>1. candidates \cap (1..0) = {} /\ 0 \in 0..M
    OBVIOUS
  <2> QED
    BY <2>1
<1>2. ASSUME NEW k \in 1..M, k - 1 \in T PROVE k \in T
  <2> SUFFICES ASSUME NEW some \in SUBSET (candidates \cap (1..k)), some # {}
               PROVE  \E i \in some : \A j \in some \ {i} : Before(i, j)
    OBVIOUS
  <2> DEFINE rest == some \ {k}
  <2>1. rest \in SUBSET (candidates \cap (1..(k - 1)))
    OBVIOUS
  <2>2. CASE k \notin some
    <3>1. rest = some
      BY <2>2
    <3> QED
      BY <1>2, <2>1, <3>1
  <2>3. CASE rest = {}
    <3>1. some = {k}
      BY <2>3
    <3> QED
      BY <3>1
  <2>4. CASE k \in some /\ rest # {}
    <3>1. PICK i \in rest : \A j \in rest \ {i} : Before(i, j)
      BY <1>2, <2>1, <2>4
    <3> HIDE DEF HasFirst, T
    <3>2. \A j \in rest : j \in candidates /\ j \in Nat /\ j < k
      OBVIOUS
    <3>3. \A j \in some : ranks[j] \in [1..N -> Int]
      OBVIOUS
    <3>4. CASE CompareVariants(ranks[k], ranks[i])
      <4>1. ASSUME NEW j \in rest PROVE CompareVariants(ranks[k], ranks[j])
        <5>1. CASE j = i
          BY <3>4, <5>1
        <5>2. CASE j # i
          <6>1. Before(i, j)
            BY <3>1, <5>2
          <6>2. \/ CompareVariants(ranks[k], ranks[j])
                \/ CompareVariants(ranks[j], ranks[i])
            BY <2>4, <3>1, <3>3, <3>4, ComparingIsAnOrder
          <6>3. CompareVariants(ranks[i], ranks[j]) => CompareVariants(ranks[k], ranks[j])
            BY <2>4, <3>1, <3>3, <3>4, ComparingIsAnOrder
          <6> QED
            BY <6>1, <6>2, <6>3
        <5> QED
          BY <5>1, <5>2
      <4>2. \A j \in some \ {k} : Before(k, j)
        BY <4>1
      <4> QED
        BY <2>4, <4>2
    <3>5. CASE ~CompareVariants(ranks[k], ranks[i])
      <4>1. Before(i, k)
        BY <3>1, <3>2, <3>5
      <4>2. \A j \in some \ {i} : Before(i, j)
        BY <3>1, <4>1
      <4> QED
        BY <3>1, <4>2
    <3> QED
      BY <3>4, <3>5
  <2> QED
    BY <2>2, <2>3, <2>4
<1>3. M \in T
  <2> HIDE DEF T
  <2>1. 0..M \subseteq T
    BY <1>1, <1>2, Induction
  <2>2. M \in 0..M
    OBVIOUS
  <2> QED
    BY <2>1, <2>2
<1>4. candidates \in SUBSET (candidates \cap (1..M))
  OBVIOUS
<1>5. \E i \in candidates : \A j \in candidates \ {i} : Before(i, j)
  BY <1>3, <1>4
<1> QED
  BY <1>5 DEF FirstOf

(***************************************************************************)
(* PackPlanning.  Preferences as they are used: those that were given,     *)
(* migrated and valid.                                                     *)
(***************************************************************************)
LEMMA MigratedIs ==
    ASSUME NEW p, p \in Preferences(DOMAIN p.policies)
    PROVE  LET used == MigrateLegacy(p) IN
           /\ used \in Preferences(DOMAIN used.policies)
           /\ used.policies = p.policies
           /\ p.legacyOrder = <<>> => used.tiers = p.tiers /\ used.cutoff = p.cutoff
           /\ p.legacyOrder # <<>> =>
                /\ used.tiers = [i \in DOMAIN p.legacyOrder |-> {p.legacyOrder[i]}]
                /\ used.cutoff = Position({i \in DOMAIN p.legacyOrder :
                                             p.legacyOrder[i] = p.legacyMinimum}, 2)
<1> DEFINE tiers == [i \in DOMAIN p.legacyOrder |-> {p.legacyOrder[i]}]
           found == {i \in DOMAIN p.legacyOrder : p.legacyOrder[i] = p.legacyMinimum}
           lowest == Position(found, 2)
           quality == IF p.legacyOrder = <<>> THEN p
                      ELSE [p EXCEPT !.tiers = tiers, !.cutoff = lowest,
                                     !.legacyOrder = <<>>, !.legacyMinimum = ""]
<1>1. /\ p.tiers \in Seq(SUBSET STRING) /\ p.cutoff \in Nat
      /\ p.mediaTiers \in Seq(SUBSET (STRING \cup Media)) /\ p.mediaCutoff \in Nat
      /\ p.legacyOrder \in Seq(STRING)
  BY DEF Preferences
<1>2. tiers \in Seq(SUBSET STRING)
  <2>1. \A i \in 1..Len(p.legacyOrder) : p.legacyOrder[i] \in STRING
    BY <1>1
  <2>2. tiers \in [1..Len(p.legacyOrder) -> SUBSET STRING] /\ Len(p.legacyOrder) \in Nat
    BY <1>1, <2>1
  <2> QED
    BY <2>2
<1>3. lowest \in Nat
  <2>1. found \in SUBSET Nat
    BY <1>1
  <2> QED
    BY <2>1, PositionIs
<1>4. DefaultMedia \in Seq(SUBSET (STRING \cup Media))
  <2>1. \A a, b, c, d, e \in SUBSET (STRING \cup Media) :
           <<a, b, c, d, e>> \in Seq(SUBSET (STRING \cup Media))
    OBVIOUS
  <2>2. /\ {"WEB", "CD"} \in SUBSET Media /\ {"SACD", "DVD", "Blu-ray"} \in SUBSET Media
        /\ {"Vinyl"} \in SUBSET Media /\ {"Cassette"} \in SUBSET Media
        /\ {"Other"} \in SUBSET Media
    BY DEF Media
  <2> QED
    BY <2>1, <2>2 DEF DefaultMedia
<1>5. Len(p.mediaTiers) \in Nat
  BY <1>1
<1> HIDE DEF tiers, lowest, found
<1>6. /\ quality \in Preferences(DOMAIN p.policies) /\ quality.policies = p.policies
      /\ p.legacyOrder = <<>> => quality.tiers = p.tiers /\ quality.cutoff = p.cutoff
      /\ p.legacyOrder # <<>> => quality.tiers = tiers /\ quality.cutoff = lowest
  <2>1. CASE p.legacyOrder = <<>>
    BY <2>1
  <2>2. CASE p.legacyOrder # <<>>
    <3>1. <<>> \in Seq(STRING)
      OBVIOUS
    <3> QED
      BY <1>2, <1>3, <2>2, <3>1 DEF Preferences
  <2> QED
    BY <2>1, <2>2
<1>7. \/ MigrateLegacy(p) = quality
      \/ MigrateLegacy(p) = [quality EXCEPT !.mediaTiers = DefaultMedia, !.mediaCutoff = 2]
      \/ MigrateLegacy(p) = [quality EXCEPT !.mediaCutoff = Len(p.mediaTiers)]
  BY DEF MigrateLegacy, quality, lowest, found, tiers
<1> HIDE DEF quality
<1> DEFINE Same(q) == /\ q \in Preferences(DOMAIN p.policies) /\ q.policies = p.policies
                      /\ q.tiers = quality.tiers /\ q.cutoff = quality.cutoff
<1>8. ASSUME NEW cutoff \in Nat PROVE Same([quality EXCEPT !.mediaCutoff = cutoff])
  BY <1>6 DEF Preferences
<1>9. ASSUME NEW cutoff \in Nat, NEW media \in Seq(SUBSET (STRING \cup Media))
      PROVE  Same([quality EXCEPT !.mediaTiers = media, !.mediaCutoff = cutoff])
  BY <1>6 DEF Preferences
<1>10. Same(MigrateLegacy(p))
  <2>1. CASE MigrateLegacy(p) = quality
    BY <1>6, <2>1
  <2>2. CASE MigrateLegacy(p) = [quality EXCEPT !.mediaTiers = DefaultMedia, !.mediaCutoff = 2]
    <3>1. Same([quality EXCEPT !.mediaTiers = DefaultMedia, !.mediaCutoff = 2])
      <4> HIDE DEF Same
      <4> QED
        BY <1>4, <1>9
    <3> QED
      BY <2>2, <3>1
  <2>3. CASE MigrateLegacy(p) = [quality EXCEPT !.mediaCutoff = Len(p.mediaTiers)]
    <3>1. Same([quality EXCEPT !.mediaCutoff = Len(p.mediaTiers)])
      <4> HIDE DEF Same
      <4> QED
        BY <1>5, <1>8
    <3> QED
      BY <2>3, <3>1
  <2> QED
    BY <1>7, <2>1, <2>2, <2>3
<1> QED
  BY <1>6, <1>10 DEF tiers, lowest, found

\* A rank is a number; one within the cutoff is that of a tier of the class.
LEMMA RankIsNumber ==
    ASSUME NEW p, p \in Preferences(DOMAIN p.policies), NEW v
    PROVE  /\ QualityRank(v, p) \in Nat /\ MediaRank(v, p) \in Nat /\ TrackerRank(v, p) \in Nat
           /\ QualityRank(v, p) <= Len(p.tiers) =>
                /\ QualityRank(v, p) \in DOMAIN p.tiers
                /\ QualityClass(v) \in p.tiers[QualityRank(v, p)]
<1>1. /\ p.tiers \in Seq(SUBSET STRING) /\ p.mediaTiers \in Seq(SUBSET (STRING \cup Media))
      /\ p.trackers \in Seq(STRING)
  BY DEF Preferences
<1>2. /\ DOMAIN p.tiers = 1..Len(p.tiers) /\ Len(p.tiers) \in Nat
      /\ DOMAIN p.mediaTiers = 1..Len(p.mediaTiers) /\ Len(p.mediaTiers) \in Nat
      /\ DOMAIN p.trackers = 1..Len(p.trackers) /\ Len(p.trackers) \in Nat
  BY <1>1
<1>3. ASSUME NEW found \in SUBSET Nat, NEW fallback \in Nat PROVE Position(found, fallback) \in Nat
  BY <1>3, PositionIs
<1>4. QualityRank(v, p) \in Nat
  <2> DEFINE found == {i \in DOMAIN p.tiers : QualityClass(v) \in p.tiers[i]}
  <2>1. found \in SUBSET Nat /\ Len(p.tiers) + 1 \in Nat
    BY <1>2
  <2> HIDE DEF found
  <2>2. Position(found, Len(p.tiers) + 1) \in Nat
    BY <1>3, <2>1
  <2> QED
    BY <2>2 DEF QualityRank, found
<1>5. MediaRank(v, p) \in Nat
  <2> DEFINE found(media) == {i \in DOMAIN p.mediaTiers : media \in p.mediaTiers[i]}
  <2>1. (\A media : found(media) \in SUBSET Nat) /\ Len(p.mediaTiers) + 1 \in Nat
    BY <1>2
  <2> HIDE DEF found
  <2>2. Position(found("Other"), Len(p.mediaTiers) + 1) \in Nat
    BY <1>3, <2>1
  <2>3. Position(found(v.media), Position(found("Other"), Len(p.mediaTiers) + 1)) \in Nat
    BY <1>3, <2>1, <2>2
  <2> QED
    BY <2>3 DEF MediaRank, found
<1>6. TrackerRank(v, p) \in Nat
  <2> DEFINE found == {i \in DOMAIN p.trackers : p.trackers[i] = v.tracker}
  <2>1. found \in SUBSET Nat /\ Len(p.trackers) + 1 \in Nat
    BY <1>2
  <2> HIDE DEF found
  <2>2. Position(found, Len(p.trackers) + 1) \in Nat
    BY <1>3, <2>1
  <2> QED
    BY <2>2 DEF TrackerRank, found
<1>7. ASSUME QualityRank(v, p) <= Len(p.tiers)
      PROVE  /\ QualityRank(v, p) \in DOMAIN p.tiers
             /\ QualityClass(v) \in p.tiers[QualityRank(v, p)]
  <2> DEFINE found == {i \in DOMAIN p.tiers : QualityClass(v) \in p.tiers[i]}
  <2>1. found \in SUBSET Nat
    BY <1>2
  <2>2. QualityRank(v, p) = Position(found, Len(p.tiers) + 1)
    BY DEF QualityRank
  <2> HIDE DEF found
  <2>3. found # {}
    <3> SUFFICES ASSUME found = {} PROVE FALSE
      OBVIOUS
    <3>1. QualityRank(v, p) = Len(p.tiers) + 1
      BY <2>1, <2>2, PositionIs
    <3> QED
      BY <1>2, <1>7, <3>1
  <2>4. Position(found, Len(p.tiers) + 1) \in found
    BY <2>1, <2>3, PositionIs
  <2> QED
    BY <2>2, <2>4 DEF found
<1> QED
  BY <1>4, <1>5, <1>6, <1>7

LEMMA RanksAre ==
    ASSUME NEW p, p \in Preferences(DOMAIN p.policies), NEW v \in Variant, NEW requested
    PROVE  Ranks(v, p, requested) \in [1..(Len(p.order) + 2) -> Int]
<1> DEFINE criteria == [i \in DOMAIN p.order |->
        CASE p.order[i] = "quality" -> QualityRank(v, p)
          [] p.order[i] = "tracker" -> TrackerRank(v, p)
          [] p.order[i] = "media"   -> MediaRank(v, p)
          [] OTHER                  -> EditionRank(v, requested)]
<1>0. p.order \in Seq(STRING)
  BY DEF Preferences
<1>1. DOMAIN p.order = 1..Len(p.order) /\ Len(p.order) \in Nat
  BY <1>0
<1>2. EditionRank(v, requested) \in Int
  BY DEF EditionRank
<1>3. QualityRank(v, p) \in Int /\ TrackerRank(v, p) \in Int /\ MediaRank(v, p) \in Int
  BY RankIsNumber
<1>4. criteria \in Seq(Int) /\ Len(criteria) = Len(p.order)
  <2>1. criteria \in [1..Len(p.order) -> Int]
    BY <1>1, <1>2, <1>3
  <2> HIDE DEF criteria
  <2> QED
    BY <1>1, <2>1
<1>5. <<-v.seeders, v.id>> \in Seq(Int) /\ Len(<<-v.seeders, v.id>>) = 2
  BY DEF Variant
<1> HIDE DEF criteria
<1>6. /\ criteria \o <<-v.seeders, v.id>> \in Seq(Int)
      /\ Len(criteria \o <<-v.seeders, v.id>>) = Len(p.order) + 2
  BY <1>1, <1>4, <1>5
<1> DEFINE ranks == criteria \o <<-v.seeders, v.id>>
<1>7. Ranks(v, p, requested) = ranks
  BY DEF Ranks, criteria
<1>8. ranks \in Seq(Int) /\ Len(ranks) = Len(p.order) + 2
  BY <1>6
<1> HIDE DEF ranks
<1>9. ranks \in [1..Len(ranks) -> Int]
  BY <1>8
<1> QED
  BY <1>7, <1>8, <1>9

(***************************************************************************)
(* Plans.  A result either is blocked or has a plan for a variant that the *)
(* preferences allow.                                                      *)
(***************************************************************************)
Matches(plan, v, p) ==
    /\ plan.tracker = v.tracker /\ plan.id = v.id /\ plan.size = v.size
    /\ plan.profile = Policy(v.tracker, p).profile
    /\ Eligibility(v, p).eligible
    /\ plan.useToken = Eligibility(v, p).requiresToken
    /\ plan.useToken => Policy(v.tracker, p).autoTokens /\ plan.cost = Eligibility(v, p).cost

Sound(plan, variants, p) == plan \in Plan /\ \E v \in ToSet(variants) : Matches(plan, v, p)

PlanStates ==
    {"executable", "duplicate", "no_profile", "capacity_blocked", "token_budget_exceeded",
     "policy_blocked", "cleanup_ready", "already_downloading", "already_owned"}

Result(x, variants, p) ==
    /\ x.state \in PlanStates
    /\ IF x.state = "executable" THEN Sound(x.plan, variants, p) ELSE x.plan = None

LEMMA EligibilityIs ==
    ASSUME NEW v \in Variant, NEW p
    PROVE  /\ Eligibility(v, p).requiresToken \in BOOLEAN /\ Eligibility(v, p).cost \in Nat
           /\ Eligibility(v, p).eligible =>
                /\ Wanted(v, p) /\ Policy(v.tracker, p).mode # "disabled"
                /\ Policy(v.tracker, p).mode = "freeleech_only" => v.free
                /\ Policy(v.tracker, p).mode = "freeleech_or_token" /\ ~v.free =>
                     Eligibility(v, p).requiresToken /\ Eligibility(v, p).cost = TokenCost(v)
<1> DEFINE mode     == Policy(v.tracker, p).mode
           canToken == v.canToken \/ ~v.known
           cost     == IF v.free THEN 0 ELSE IF canToken THEN TokenCost(v) ELSE None
           token    == mode = "freeleech_or_token" /\ ~v.free /\ Wanted(v, p)
<1>1. Eligibility(v, p) = Eligible(v, mode, canToken, cost, Wanted(v, p), token)
  BY DEF Eligibility
<1>2. TokenCost(v) = None \/ TokenCost(v) \in Nat
  BY DEF TokenCost, Variant
<1>3. token \in BOOLEAN /\ v.free \in BOOLEAN /\ Wanted(v, p) \in BOOLEAN
  BY DEF Variant, Wanted
<1>4. (IF cost = None THEN 0 ELSE cost) \in Nat
  BY <1>2
<1>5. /\ Eligibility(v, p).requiresToken = token
      /\ Eligibility(v, p).cost = IF cost = None THEN 0 ELSE cost
      /\ Eligibility(v, p).eligible <=> /\ Wanted(v, p) /\ mode # "disabled"
                                        /\ mode = "freeleech_only" => v.free
                                        /\ token => canToken /\ cost # None
  BY <1>1 DEF Eligible
<1> QED
  BY <1>3, <1>4, <1>5

LEMMA PlannedIs ==
    ASSUME NEW p, NEW variants \in Seq(Variant), NEW v \in ToSet(variants),
           Eligibility(v, p).eligible,
           Eligibility(v, p).requiresToken => Policy(v.tracker, p).autoTokens
    PROVE  Result(Planned(v, p, Profiles), variants, p)
<1>0. v \in Variant
  BY DEF ToSet
<1>1. CASE Policy(v.tracker, p).profile \notin DOMAIN Profiles
  BY <1>1 DEF Planned, PlanOf, Blocked, Result, PlanStates
<1>2. CASE Policy(v.tracker, p).profile \in DOMAIN Profiles
  <2> DEFINE token == Eligibility(v, p).requiresToken
             cost == IF token THEN Eligibility(v, p).cost ELSE 0
             plan == [tracker |-> v.tracker, id |-> v.id, profile |-> Policy(v.tracker, p).profile,
                      useToken |-> token, cost |-> cost, size |-> v.size]
  <2>1. Planned(v, p, Profiles) = [state |-> "executable", plan |-> plan]
    BY <1>2 DEF Planned, PlanOf
  <2>2. token \in BOOLEAN /\ cost \in Nat
    BY <1>0, EligibilityIs
  <2>3. plan \in Plan
    BY <1>0, <1>2, <2>2 DEF Plan, Variant
  <2>4. Matches(plan, v, p)
    BY DEF Matches
  <2> HIDE DEF plan
  <2> QED
    BY <2>1, <2>3, <2>4 DEF Result, PlanStates, Sound
<1> QED
  BY <1>1, <1>2

LEMMA PreferredIs ==
    ASSUME NEW p, p \in Preferences(DOMAIN p.policies), NEW variants \in Seq(Variant),
           NEW requested, NEW candidates \in SUBSET (DOMAIN variants)
    PROVE  LET v == Preferred(candidates, variants, p, requested) IN
           \/ v = None
           \/ \E i \in candidates : v = variants[i]
<1>1. CASE candidates = {}
  BY <1>1 DEF Preferred
<1>2. CASE candidates # {}
  <2> DEFINE ranks == [i \in candidates |-> Ranks(variants[i], p, requested)]
             N == Len(p.order) + 2
             M == Len(variants)
  <2>1. M \in Nat /\ candidates \in SUBSET (1..M)
    OBVIOUS
  <2>2. N \in Nat
    <3>1. p.order \in Seq(STRING)
      BY DEF Preferences
    <3> QED
      BY <3>1
  <2>3. \A i \in candidates : variants[i] \in Variant
    BY <2>1
  <2>4. ranks \in [candidates -> [1..N -> Int]]
    BY <2>3, RanksAre
  <2> HIDE DEF ranks, N, M
  <2>5. FirstOf(candidates, ranks) \in candidates
    BY <1>2, <2>1, <2>2, <2>4, FirstIsOne
  <2> QED
    BY <1>2, <2>5 DEF Preferred, First, ranks
<1> QED
  BY <1>1, <1>2

LEMMA PlanVariantIs ==
    ASSUME NEW p, p \in Preferences(DOMAIN p.policies), NEW variants \in Seq(Variant),
           NEW requested, NEW budget
    PROVE  Result(PlanVariant(variants, p, Profiles, budget, requested), variants, p)
<1> DEFINE candidates == {i \in DOMAIN variants : LET v == variants[i] IN
                            Allowed(Eligibility(v, p), Policy(v.tracker, p), budget)}
           chosen == Preferred(candidates, variants, p, requested)
<1>1. PlanVariant(variants, p, Profiles, budget, requested) =
         IF chosen = None THEN Blocked("policy_blocked") ELSE Planned(chosen, p, Profiles)
  BY DEF PlanVariant
<1>2. candidates \in SUBSET (DOMAIN variants)
  OBVIOUS
<1>3. CASE chosen = None
  BY <1>1, <1>3 DEF Blocked, Result, PlanStates
<1>4. CASE chosen # None
  <2>1. PICK i \in candidates : chosen = variants[i]
    <3> HIDE DEF candidates
    <3> QED
      BY <1>2, <1>4, PreferredIs
  <2>2. chosen \in ToSet(variants)
    BY <2>1 DEF ToSet
  <2>3. /\ Eligibility(chosen, p).eligible
        /\ Eligibility(chosen, p).requiresToken => Policy(chosen.tracker, p).autoTokens
    BY <2>1 DEF Allowed
  <2> HIDE DEF chosen
  <2>4. Result(Planned(chosen, p, Profiles), variants, p)
    BY <2>2, <2>3, PlannedIs
  <2> QED
    BY <1>1, <1>4, <2>4
<1> QED
  BY <1>3, <1>4

(***************************************************************************)
(* Items.  What is resolved from a recommendation.                         *)
(***************************************************************************)
Entry == [release : {r.release : r \in Recommendations},
          requested : {r.requested : r \in Recommendations}, variants : Seq(Variant),
          aim : {None} \cup [variant : STRING \X Nat, complete : BOOLEAN],
          replacement : BOOLEAN, state : PlanStates, plan : {None} \cup Plan]

ItemOK(item, p) ==
    item \in Entry /\ (item.state = "executable" => Sound(item.plan, item.variants, p))

LEMMA OfTrackerIs ==
    ASSUME NEW variants \in Seq(Variant), NEW tracker
    PROVE  OfTracker(variants, tracker) \in Seq(Variant)
<1> DEFINE N == Len(variants)
           Row(n, before) == CASE n = 0 -> <<>>
                               [] n > 0 /\ variants[n].tracker = tracker ->
                                     Append(before, variants[n])
                               [] OTHER -> before
           P(f)  == f = [n \in 0..N |-> Row(n, f[n - 1])]
           kept == CHOOSE f : f = [n \in 0..N |->
                      CASE n = 0 -> <<>>
                        [] n > 0 /\ variants[n].tracker = tracker -> Append(f[n - 1], variants[n])
                        [] OTHER -> f[n - 1]]
           next == [x \in (1..N) \X Seq(Variant) |-> Row(x[1], x[2])]
<1>0. N \in Nat /\ \A n \in 1..N : variants[n] \in Variant
  OBVIOUS
<1>1. next \in [(1..N) \X Seq(Variant) -> Seq(Variant)]
  BY <1>0
<1>2. <<>> \in Seq(Variant)
  OBVIOUS
<1>3. PICK f \in [0..N -> Seq(Variant)] : Runs(f, <<>>, N, next)
  <2> HIDE DEF next, N
  <2> QED
    BY <1>0, <1>1, <1>2, Recursion
<1>4. P(f)
  <2>1. ASSUME NEW n \in 0..N PROVE f[n] = Row(n, f[n - 1])
    <3>1. CASE n = 0
      BY <1>3, <3>1 DEF Runs
    <3>2. CASE n # 0
      <4>1. n \in 1..N /\ n - 1 \in 0..N
        BY <1>0, <3>2
      <4> QED
        BY <1>3, <4>1 DEF Runs
    <3> QED
      BY <3>1, <3>2
  <2> QED
    BY <1>3, <2>1
<1>5. P(kept)
  <2>1. P(CHOOSE g : P(g))
    <3> HIDE DEF P
    <3> QED
      BY <1>4
  <2> QED
    BY <2>1
<1>6. OfTracker(variants, tracker) = kept[N]
  BY DEF OfTracker
<1> HIDE DEF kept
<1>7. N \in {n \in 0..N : kept[n] \in Seq(Variant)}
  <2> DEFINE T == {n \in 0..N : kept[n] \in Seq(Variant)}
  <2>1. 0 \in T
    BY <1>0, <1>2, <1>5
  <2>2. ASSUME NEW n \in 1..N, n - 1 \in T PROVE n \in T
    <3>1. n \in 0..N /\ n # 0 /\ kept[n - 1] \in Seq(Variant) /\ variants[n] \in Variant
      BY <1>0, <2>2
    <3>2. kept[n] = Row(n, kept[n - 1])
      BY <1>5, <3>1
    <3> QED
      BY <3>1, <3>2
  <2>3. N \in 0..N
    BY <1>0
  <2> HIDE DEF T, N
  <2>4. 0..N \subseteq T
    BY <1>0, <2>1, <2>2, Induction
  <2> QED
    BY <2>3, <2>4 DEF T
<1> QED
  BY <1>6, <1>7

LEMMA ResolvedIs ==
    ASSUME NEW p, p \in Preferences(DOMAIN p.policies), NEW r \in Recommendations,
           NEW result, result = ResolveRelease(r, p, Profiles, Unlimited)
    PROVE  ItemOK([release |-> r.release, requested |-> r.requested,
                   variants |-> result.variants, aim |-> result.aim,
                   replacement |-> result.aim # None,
                   state |-> result.planned.state, plan |-> result.planned.plan], p)
<1> DEFINE own == OfTracker(r.variants, r.origin)
           preferred == PreferredEligibleVariant(own, p, r.requested)
<1>1. r.variants \in Seq(Variant) /\ own \in Seq(Variant)
  BY PlanningAssumption, OfTrackerIs
<1>2. \/ preferred = None
      \/ preferred \in ToSet(own) /\ Eligibility(preferred, p).eligible
  <2> DEFINE candidates == {i \in DOMAIN own : Eligibility(own[i], p).eligible}
  <2> HIDE DEF own
  <2>1. candidates \in SUBSET (DOMAIN own)
    OBVIOUS
  <2>2. preferred = Preferred(candidates, own, p, r.requested)
    BY DEF PreferredEligibleVariant
  <2> HIDE DEF preferred
  <2>3. preferred = None \/ \E i \in candidates : preferred = own[i]
    <3> HIDE DEF candidates
    <3> QED
      BY <1>1, <2>1, <2>2, PreferredIs
  <2>4. \A i \in candidates : own[i] \in ToSet(own) /\ Eligibility(own[i], p).eligible
    BY DEF ToSet
  <2>5. CASE preferred # None
    <3>1. PICK i \in candidates : preferred = own[i]
      BY <2>3, <2>5
    <3> QED
      BY <2>4, <3>1
  <2> QED
    BY <2>5
<1>3. result = ResolveWith(r, own, preferred, p, Profiles, Unlimited)
  BY DEF ResolveRelease
<1> HIDE DEF own, preferred
<1>4. preferred # None => preferred \in Variant
  BY <1>1, <1>2 DEF ToSet
<1>5. /\ result.variants \in Seq(Variant)
      /\ result.aim \in {None} \cup [variant : STRING \X Nat, complete : BOOLEAN]
      /\ Result(result.planned, result.variants, p)
  <2>1. CASE r.origin = None
    <3>1. result.aim = None /\ result.variants = r.variants
      BY <1>3, <2>1 DEF ResolveWith
    <3>2. \/ result.planned = Blocked("already_owned")
          \/ result.planned = Blocked("already_downloading")
          \/ result.planned = PlanVariant(r.variants, p, Profiles, Unlimited, r.requested)
      BY <1>3, <2>1 DEF ResolveWith
    <3>3. Result(PlanVariant(r.variants, p, Profiles, Unlimited, r.requested), r.variants, p)
      BY <1>1, PlanVariantIs
    <3> QED
      BY <1>1, <3>1, <3>2, <3>3 DEF Blocked, Result, PlanStates
  <2>2. CASE r.origin # None /\ preferred = None
    <3>1. /\ result.aim = None /\ result.variants = own
          /\ result.planned = Blocked("policy_blocked")
      BY <1>3, <2>2 DEF ResolveWith
    <3> QED
      BY <1>1, <3>1 DEF Blocked, Result, PlanStates
  <2>3. CASE r.origin # None /\ preferred # None
    <3>1. /\ result.variants = own
          /\ result.aim = [variant |-> <<preferred.tracker, preferred.id>>,
                           complete |-> r.targets[preferred.id] = "complete"]
      BY <1>3, <2>3 DEF ResolveWith
    <3>2. result.aim \in [variant : STRING \X Nat, complete : BOOLEAN]
      BY <1>4, <2>3, <3>1 DEF Variant
    <3>3. \/ result.planned = Blocked("cleanup_ready")
          \/ result.planned = Blocked("already_downloading")
          \/ result.planned = PlanExactVariant(preferred, p, Profiles)
      BY <1>3, <2>3 DEF ResolveWith
    <3>4. Result(PlanExactVariant(preferred, p, Profiles), own, p)
      <4>1. CASE Eligibility(preferred, p).requiresToken
                   /\ ~Policy(preferred.tracker, p).autoTokens
        BY <4>1 DEF PlanExactVariant, Blocked, Result, PlanStates
      <4>2. CASE ~(Eligibility(preferred, p).requiresToken
                     /\ ~Policy(preferred.tracker, p).autoTokens)
        <5>1. Result(Planned(preferred, p, Profiles), own, p)
          BY <1>1, <1>2, <2>3, <4>2, PlannedIs
        <5> QED
          BY <4>2, <5>1 DEF PlanExactVariant
      <4> QED
        BY <4>1, <4>2
    <3> QED
      BY <1>1, <3>1, <3>2, <3>3, <3>4 DEF Blocked, Result, PlanStates
  <2> QED
    BY <2>1, <2>2, <2>3
<1>6. /\ result.planned.state \in PlanStates /\ result.planned.plan \in {None} \cup Plan
      /\ result.planned.state = "executable" =>
            Sound(result.planned.plan, result.variants, p)
  BY <1>5 DEF Result, Sound
<1>7. r.release \in {q.release : q \in Recommendations}
      /\ r.requested \in {q.requested : q \in Recommendations}
  OBVIOUS
<1> QED
  BY <1>5, <1>6, <1>7 DEF ItemOK, Entry

(***************************************************************************)
(* What the plans of a list ask of a client: the shares of its items.      *)
(***************************************************************************)
HasPlans(list) ==
    /\ list \in Seq(Entry)
    /\ \A i \in DOMAIN list : list[i].state = "executable" => list[i].plan \in Plan

Share(item, client) ==
    IF item.state = "executable" /\ Profiles[item.plan.profile] = client THEN item.plan.size ELSE 0

LEMMA AskedIs ==
    ASSUME NEW list, HasPlans(list), NEW client
    PROVE  \E f \in [0..Len(list) -> Int] :
              /\ f[0] = 0 /\ \A n \in 1..Len(list) : f[n] = f[n - 1] + Share(list[n], client)
              /\ Asked(list, client) = f[Len(list)]
<1> DEFINE N == Len(list)
           asked == CHOOSE f : f = [n \in 0..N |->
               CASE n = 0 -> 0
                 [] n > 0 /\ list[n].state = "executable"
                    /\ Profiles[list[n].plan.profile] = client -> f[n - 1] + list[n].plan.size
                 [] OTHER -> f[n - 1]]
           P(f) == f = [n \in 0..N |->
               CASE n = 0 -> 0
                 [] n > 0 /\ list[n].state = "executable"
                    /\ Profiles[list[n].plan.profile] = client -> f[n - 1] + list[n].plan.size
                 [] OTHER -> f[n - 1]]
           next == [p \in (1..N) \X Int |-> p[2] + Share(list[p[1]], client)]
<1>0. N \in Nat /\ DOMAIN list = 1..N
  BY DEF HasPlans
<1>1. \A n \in 1..N : Share(list[n], client) \in Int
  BY <1>0 DEF HasPlans, Share, Plan
<1>2. next \in [(1..N) \X Int -> Int]
  BY <1>1
<1>3. PICK f \in [0..N -> Int] : f[0] = 0 /\ \A n \in 1..N : f[n] = next[<<n, f[n - 1]>>]
  <2> DEFINE I == Int
             z == 0
  <2> HIDE DEF next
  <2>1. N \in Nat /\ z \in I /\ next \in [(1..N) \X I -> I]
    BY <1>0, <1>2
  <2> HIDE DEF N, I, z
  <2>2. \E f \in [0..N -> I] : Runs(f, z, N, next)
    BY <2>1, Recursion
  <2> QED
    BY <2>2 DEF I, z, Runs
<1>4. \A n \in 1..N : f[n - 1] \in Int /\ f[n] = f[n - 1] + Share(list[n], client)
  <2> SUFFICES ASSUME NEW n \in 1..N
               PROVE  f[n - 1] \in Int /\ f[n] = f[n - 1] + Share(list[n], client)
    OBVIOUS
  <2>1. n - 1 \in 0..N
    BY <1>0
  <2> QED
    BY <1>0, <1>3, <2>1
<1>5. P(f)
  <2>1. ASSUME NEW n \in 0..N
        PROVE  f[n] = CASE n = 0 -> 0
                        [] n > 0 /\ list[n].state = "executable"
                           /\ Profiles[list[n].plan.profile] = client ->
                              f[n - 1] + list[n].plan.size
                        [] OTHER -> f[n - 1]
    <3>1. CASE n = 0
      BY <1>3, <3>1
    <3>2. CASE n # 0
      <4>1. n \in 1..N /\ n > 0
        BY <1>0, <3>2
      <4> QED
        BY <1>4, <4>1, <3>2 DEF Share
    <3> QED
      BY <3>1, <3>2
  <2> QED
    BY <1>3, <2>1
<1>6. P(asked)
  <2>1. \E g : P(g)
    BY <1>5
  <2>2. P(CHOOSE g : P(g))
    <3> HIDE DEF P
    <3> QED
      BY <2>1
  <2> QED
    BY <2>2
<1>7. Asked(list, client) = asked[N]
  BY DEF Asked
<1> HIDE DEF asked
<1>8. asked = f
  <2> DEFINE T == {n \in 0..N : asked[n] = f[n]}
  <2>0. \A n \in 1..N : n - 1 \in 0..N /\ n \in 0..N /\ n # 0
    BY <1>0
  <2>1. 0 \in T
    BY <1>0, <1>3, <1>6
  <2>2. ASSUME NEW n \in 1..N, n - 1 \in T PROVE n \in T
    BY <1>5, <1>6, <2>0, <2>2
  <2>3. 0..N \subseteq T
    <3> HIDE DEF T, N
    <3> QED
      BY <1>0, <2>1, <2>2, Induction
  <2>4. \A n \in 0..N : asked[n] = f[n]
    BY <2>3
  <2> QED
    BY <1>5, <1>6, <2>4
<1>9. Asked(list, client) = f[N]
  BY <1>7, <1>8
<1> QED
  BY <1>3, <1>4, <1>9

LEMMA AskedOfNothing == \A client : Asked(<<>>, client) = 0
<1>1. HasPlans(<<>>) /\ Len(<<>>) = 0
  BY DEF HasPlans
<1> QED
  BY <1>1, AskedIs

LEMMA AskedOfOneMore ==
    ASSUME NEW list, HasPlans(list), NEW item, HasPlans(Append(list, item)), NEW client
    PROVE  /\ Asked(list, client) \in Int /\ Share(item, client) \in Int
           /\ Asked(Append(list, item), client) = Asked(list, client) + Share(item, client)
<1> DEFINE N == Len(list)
           longer == Append(list, item)
<1>0. N \in Nat /\ DOMAIN list = 1..N
  BY DEF HasPlans
<1>1. /\ Len(longer) = N + 1 /\ longer[N + 1] = item
      /\ \A n \in 1..N : longer[n] = list[n]
  <2>1. list \in Seq(Entry)
    BY DEF HasPlans
  <2> QED
    BY <2>1
<1>2. PICK f \in [0..N -> Int] :
         /\ f[0] = 0 /\ \A n \in 1..N : f[n] = f[n - 1] + Share(list[n], client)
         /\ Asked(list, client) = f[N]
  BY AskedIs
<1> HIDE DEF longer
<1>3. PICK g \in [0..(N + 1) -> Int] :
         /\ g[0] = 0 /\ \A n \in 1..(N + 1) : g[n] = g[n - 1] + Share(longer[n], client)
         /\ Asked(longer, client) = g[N + 1]
  <2>1. HasPlans(longer)
    BY DEF longer
  <2>2. PICK g \in [0..Len(longer) -> Int] :
           /\ g[0] = 0 /\ \A n \in 1..Len(longer) : g[n] = g[n - 1] + Share(longer[n], client)
           /\ Asked(longer, client) = g[Len(longer)]
    BY <2>1, AskedIs
  <2> QED
    BY <1>1, <2>2
<1>4. g[N] = f[N]
  <2> DEFINE T == {n \in 0..N : g[n] = f[n]}
  <2>1. 0 \in T
    BY <1>0, <1>2, <1>3
  <2>2. ASSUME NEW n \in 1..N, n - 1 \in T PROVE n \in T
    <3>1. n \in 1..(N + 1) /\ n \in 0..N /\ longer[n] = list[n] /\ g[n - 1] = f[n - 1]
      BY <1>0, <1>1, <2>2
    <3>2. f[n] = f[n - 1] + Share(list[n], client) /\ g[n] = g[n - 1] + Share(longer[n], client)
      BY <1>2, <1>3, <3>1
    <3> QED
      BY <3>1, <3>2
  <2>3. N \in 0..N
    BY <1>0
  <2> HIDE DEF T, N
  <2>4. 0..N \subseteq T
    BY <1>0, <2>1, <2>2, Induction
  <2> QED
    BY <2>3, <2>4 DEF T
<1>5. N + 1 \in 1..(N + 1) /\ (N + 1) - 1 = N /\ N \in 0..N
  BY <1>0
<1>6. g[N + 1] = g[N] + Share(item, client)
  BY <1>1, <1>3, <1>5
<1>7. Share(item, client) \in Int
  <2>1. item.state = "executable" => item.plan \in Plan
    <3>1. N + 1 \in DOMAIN longer
      <4>1. longer \in Seq(Entry)
        BY DEF HasPlans, longer
      <4> QED
        BY <1>0, <1>1, <4>1
    <3> QED
      BY <1>1, <3>1 DEF HasPlans, longer
  <2> QED
    BY <2>1 DEF Share, Plan
<1> QED
  BY <1>2, <1>3, <1>4, <1>5, <1>6, <1>7 DEF longer

(***************************************************************************)
(* The loop of apply_pack_constraints.  Held is what it keeps: every item  *)
(* that is still planned has left its release and its torrent behind, no   *)
(* two of them share either, and what they ask of a client and what is     *)
(* left of its space are within what the client reported.                  *)
(***************************************************************************)
Tokens == UNION {[D -> Nat] : D \in SUBSET STRING}

ReleaseSets  == SUBSET {r.release : r \in Recommendations}
TorrentSets  == SUBSET (STRING \X Nat \X DOMAIN Profiles)
Spaces(free) == [DOMAIN free -> Nat]

Acc(free) == [items : Seq(Entry), releases : ReleaseSets, torrents : TorrentSets,
              tokens : Tokens, room : Spaces(free)]

Chosen(list) == {i \in DOMAIN list : list[i].state = "executable"}

Apart(list) ==
    \A i, j \in Chosen(list) : i # j =>
        /\ list[i].release # list[j].release
        /\ \/ list[i].plan.tracker # list[j].plan.tracker
           \/ list[i].plan.id # list[j].plan.id

Held(acc, p, free) ==
    /\ acc \in Acc(free)
    /\ \A i \in DOMAIN acc.items : ItemOK(acc.items[i], p)
    /\ \A i \in Chosen(acc.items) :
          /\ acc.items[i].release \in acc.releases
          /\ Torrent(acc.items[i], acc.items[i].plan) \in acc.torrents
    /\ Apart(acc.items)
    /\ \A client \in DOMAIN free : Asked(acc.items, client) + acc.room[client] <= free[client]

LEMMA TokensIncrease ==
    ASSUME NEW tokens \in Tokens, NEW tracker \in STRING, NEW cost \in Nat
    PROVE  Increased(tokens, tracker, cost) \in Tokens
<1>1. PICK D \in SUBSET STRING : tokens \in [D -> Nat]
  BY DEF Tokens
<1>2. Increased(tokens, tracker, cost) \in [D \cup {tracker} -> Nat]
  <2>1. ASSUME NEW k \in D \cup {tracker}
        PROVE  Used(tokens, k) + (IF k = tracker THEN cost ELSE 0) \in Nat
    <3>1. Used(tokens, k) \in Nat
      BY <1>1 DEF Used
    <3>2. (IF k = tracker THEN cost ELSE 0) \in Nat
      <4>1. CASE k = tracker
        BY <4>1
      <4>2. CASE k # tracker
        BY <4>2
      <4> QED
        BY <4>1, <4>2
    <3>3. \A a, b \in Nat : a + b \in Nat
      OBVIOUS
    <3> QED
      BY <3>1, <3>2, <3>3, Zenon
  <2>2. Increased(tokens, tracker, cost) =
          [k \in D \cup {tracker} |-> Used(tokens, k) + IF k = tracker THEN cost ELSE 0]
    BY <1>1 DEF Increased
  <2> QED
    BY <2>1, <2>2
<1>3. D \cup {tracker} \in SUBSET STRING
  OBVIOUS
<1> QED
  BY <1>2, <1>3 DEF Tokens

LEMMA ItemsHavePlans ==
    ASSUME NEW list \in Seq(Entry), NEW p, \A i \in DOMAIN list : ItemOK(list[i], p)
    PROVE  HasPlans(list)
BY DEF HasPlans, ItemOK, Sound

\* An item with the outcome x.
PutAs(item, x) == [item EXCEPT !.state = x.state, !.plan = x.plan]

LEMMA OutcomeIs ==
    ASSUME NEW p, NEW item, ItemOK(item, p), NEW x, Result(x, item.variants, p)
    PROVE  /\ ItemOK(PutAs(item, x), p)
           /\ PutAs(item, x).state = x.state /\ PutAs(item, x).plan = x.plan
           /\ PutAs(item, x).release = item.release
<1>1. item \in Entry /\ x.state \in PlanStates /\ x.plan \in {None} \cup Plan
  BY DEF ItemOK, Result, Sound
<1>2. /\ PutAs(item, x).state = x.state /\ PutAs(item, x).plan = x.plan
      /\ PutAs(item, x).release = item.release
      /\ PutAs(item, x).variants = item.variants /\ PutAs(item, x) \in Entry
  BY <1>1 DEF Entry, PutAs
<1> QED
  BY <1>2 DEF ItemOK, Result

\* What is known with one more item, in the ways the loop writes it.
Grows(after, acc, item, releases, torrents, tokens, space) ==
    \/ after = [acc EXCEPT !.items = Append(@, item), !.releases = releases,
                          !.torrents = torrents, !.tokens = tokens, !.room = space]
    \/ /\ after = [acc EXCEPT !.items = Append(@, item), !.releases = releases,
                             !.torrents = torrents]
       /\ tokens = acc.tokens /\ space = acc.room
    \/ /\ after = [acc EXCEPT !.items = Append(@, item), !.releases = releases]
       /\ torrents = acc.torrents /\ tokens = acc.tokens /\ space = acc.room
    \/ /\ after = [acc EXCEPT !.items = Append(@, item)]
       /\ releases = acc.releases /\ torrents = acc.torrents
       /\ tokens = acc.tokens /\ space = acc.room

LEMMA RecordGrows ==
    ASSUME NEW I, NEW Rs, NEW Ts, NEW Ks, NEW Ss,
           NEW acc \in [items : Seq(I), releases : Rs, torrents : Ts, tokens : Ks, room : Ss],
           NEW item \in I, NEW releases \in Rs, NEW torrents \in Ts, NEW tokens \in Ks,
           NEW space \in Ss, NEW after,
           Grows(after, acc, item, releases, torrents, tokens, space)
    PROVE  /\ after \in [items : Seq(I), releases : Rs, torrents : Ts, tokens : Ks, room : Ss]
           /\ after.items = Append(acc.items, item)
           /\ after.releases = releases /\ after.torrents = torrents /\ after.room = space
<1>1. Append(acc.items, item) \in Seq(I)
  OBVIOUS
<1>2. CASE after = [acc EXCEPT !.items = Append(@, item), !.releases = releases,
                              !.torrents = torrents, !.tokens = tokens, !.room = space]
  BY <1>1, <1>2
<1>3. CASE /\ after = [acc EXCEPT !.items = Append(@, item), !.releases = releases,
                                 !.torrents = torrents]
           /\ tokens = acc.tokens /\ space = acc.room
  BY <1>1, <1>3
<1>4. CASE /\ after = [acc EXCEPT !.items = Append(@, item), !.releases = releases]
           /\ torrents = acc.torrents /\ tokens = acc.tokens /\ space = acc.room
  BY <1>1, <1>4
<1>5. CASE /\ after = [acc EXCEPT !.items = Append(@, item)]
           /\ releases = acc.releases /\ torrents = acc.torrents
           /\ tokens = acc.tokens /\ space = acc.room
  BY <1>1, <1>5
<1> QED
  BY <1>2, <1>3, <1>4, <1>5 DEF Grows

LEMMA GrownIs ==
    ASSUME NEW free, NEW acc \in Acc(free), NEW item \in Entry,
           NEW releases \in ReleaseSets, NEW torrents \in TorrentSets,
           NEW tokens \in Tokens, NEW space \in Spaces(free), NEW after,
           Grows(after, acc, item, releases, torrents, tokens, space)
    PROVE  /\ after \in Acc(free)
           /\ after.items = Append(acc.items, item)
           /\ after.releases = releases /\ after.torrents = torrents /\ after.room = space
BY RecordGrows DEF Acc

LEMMA BlockedIs ==
    ASSUME NEW state \in PlanStates \ {"executable"}, NEW variants, NEW p
    PROVE  /\ Result(Blocked(state), variants, p)
           /\ Blocked(state).state = state /\ Blocked(state).plan = None
BY DEF Result, Blocked

\* One more item keeps what is held.
LEMMA OneMoreIsHeld ==
    ASSUME NEW p, NEW free, free \in [DOMAIN free -> Nat], NEW acc, Held(acc, p, free),
           NEW item, ItemOK(item, p),
           NEW after \in Acc(free), after.items = Append(acc.items, item),
           acc.releases \subseteq after.releases, acc.torrents \subseteq after.torrents,
           item.state = "executable" =>
              /\ item.release \in after.releases \ acc.releases
              /\ Torrent(item, item.plan) \in after.torrents \ acc.torrents,
           \A client \in DOMAIN free :
              Share(item, client) + after.room[client] <= acc.room[client]
    PROVE  Held(after, p, free)
<1> DEFINE list == acc.items
           N == Len(list)
<1>0. list \in Seq(Entry) /\ item \in Entry /\ N \in Nat /\ DOMAIN list = 1..N
  BY DEF Held, Acc, ItemOK
<1>1. /\ DOMAIN after.items = 1..(N + 1) /\ after.items[N + 1] = item
      /\ \A i \in 1..N : after.items[i] = list[i]
  BY <1>0
<1>2. /\ N + 1 \notin 1..N
      /\ \A i \in 1..(N + 1) : i \in 1..N \/ i = N + 1
  BY <1>0
<1>3. \A i \in DOMAIN after.items : ItemOK(after.items[i], p)
  BY <1>0, <1>1, <1>2 DEF Held
<1>4. \A i \in Chosen(after.items) :
         \/ i \in Chosen(list) /\ after.items[i] = list[i]
         \/ i = N + 1 /\ item.state = "executable" /\ after.items[i] = item
  BY <1>0, <1>1, <1>2 DEF Chosen
<1>5. \A i \in Chosen(after.items) :
         /\ after.items[i].release \in after.releases
         /\ Torrent(after.items[i], after.items[i].plan) \in after.torrents
  BY <1>4 DEF Held
<1>6. \A i \in Chosen(list) : item.state = "executable" =>
         /\ list[i].release # item.release
         /\ list[i].plan.tracker # item.plan.tracker \/ list[i].plan.id # item.plan.id
  <2> SUFFICES ASSUME NEW i \in Chosen(list), item.state = "executable"
               PROVE  /\ list[i].release # item.release
                      /\ \/ list[i].plan.tracker # item.plan.tracker
                         \/ list[i].plan.id # item.plan.id
    OBVIOUS
  <2>1. list[i].release \in acc.releases /\ Torrent(list[i], list[i].plan) \in acc.torrents
    BY DEF Held
  <2>2. /\ list[i].plan.profile = Policy(list[i].plan.tracker, p).profile
        /\ item.plan.profile = Policy(item.plan.tracker, p).profile
    BY DEF Held, Chosen, ItemOK, Sound, Matches
  <2> QED
    BY <2>1, <2>2 DEF Torrent
<1>7. Apart(after.items)
  <2> SUFFICES ASSUME NEW i \in Chosen(after.items), NEW j \in Chosen(after.items), i # j
               PROVE  /\ after.items[i].release # after.items[j].release
                      /\ \/ after.items[i].plan.tracker # after.items[j].plan.tracker
                         \/ after.items[i].plan.id # after.items[j].plan.id
    BY DEF Apart
  <2>1. CASE i \in Chosen(list) /\ j \in Chosen(list)
    BY <1>0, <1>1, <2>1 DEF Held, Apart, Chosen
  <2>2. CASE i \notin Chosen(list) \/ j \notin Chosen(list)
    BY <1>4, <1>6, <2>2
  <2> QED
    BY <2>1, <2>2
<1>8. ASSUME NEW client \in DOMAIN free
      PROVE  Asked(after.items, client) + after.room[client] <= free[client]
  <2>1. HasPlans(list) /\ HasPlans(after.items)
    <3>1. after.items \in Seq(Entry)
      BY DEF Acc
    <3> QED
      BY <1>0, <1>3, <3>1, ItemsHavePlans DEF Held
  <2>2. /\ Asked(list, client) \in Int /\ Share(item, client) \in Int
        /\ Asked(after.items, client) = Asked(list, client) + Share(item, client)
    BY <2>1, AskedOfOneMore
  <2>3. /\ free[client] \in Int /\ acc.room[client] \in Int /\ after.room[client] \in Int
        /\ Asked(list, client) + acc.room[client] <= free[client]
    BY DEF Held, Acc, Spaces
  <2>4. Share(item, client) + after.room[client] <= acc.room[client]
    OBVIOUS
  <2> HIDE DEF list
  <2> QED
    BY <2>2, <2>3, <2>4
<1> QED
  BY <1>3, <1>5, <1>7, <1>8 DEF Held

\* What is planned within the tokens is still allowed.
LEMMA WithinTokensIs ==
    ASSUME NEW p, p \in Preferences(DOMAIN p.policies), NEW item, ItemOK(item, p),
           item.state = "executable", NEW tokens
    PROVE  Result(WithinTokens(item, tokens, p, Profiles), item.variants, p)
<1> DEFINE limit == Policy(item.plan.tracker, p).limit
           used == Used(tokens, item.plan.tracker)
           again == PlanVariant(item.variants, p, Profiles,
                                IF used > limit THEN 0 ELSE limit - used, item.requested)
           fit == WithinTokens(item, tokens, p, Profiles)
<1>1. item.variants \in Seq(Variant) /\ Sound(item.plan, item.variants, p)
  BY DEF ItemOK, Entry
<1>2. Result(again, item.variants, p)
  BY <1>1, PlanVariantIs
<1> HIDE DEF again
<1>3. \/ fit = [state |-> item.state, plan |-> item.plan]
      \/ fit = Blocked("token_budget_exceeded")
      \/ fit = again
  BY DEF WithinTokens, Within, again
<1> HIDE DEF fit
<1>4. Result([state |-> item.state, plan |-> item.plan], item.variants, p)
  BY <1>1 DEF Result, PlanStates
<1>5. Result(Blocked("token_budget_exceeded"), item.variants, p)
  BY DEF Result, Blocked, PlanStates
<1> QED
  BY <1>2, <1>3, <1>4, <1>5 DEF fit

\* Whatever becomes of an item, what is held stays held.
LEMMA PlacedIsHeld ==
    ASSUME NEW p, NEW free, free \in [DOMAIN free -> Nat], NEW acc, Held(acc, p, free),
           NEW item, ItemOK(item, p), item.release \notin acc.releases,
           NEW fit, Result(fit, item.variants, p)
    PROVE  Held(Placed(acc, item, fit, fit.plan, Profiles), p, free)
<1> DEFINE plan == fit.plan
           torrent == Torrent(item, plan)
           client == Profiles[plan.profile]
           counted == client \in DOMAIN acc.room /\ plan.size > 0
           after == Placed(acc, item, fit, fit.plan, Profiles)
           releases == acc.releases \cup {item.release}
           torrents == acc.torrents \cup {torrent}
<1>0. /\ acc \in Acc(free) /\ item \in Entry /\ item.release \in {r.release : r \in Recommendations}
      /\ releases \in ReleaseSets
  BY DEF Held, ItemOK, Entry, Acc, ReleaseSets
<1>1. ASSUME NEW x, Result(x, item.variants, p), x.state # "executable",
             after = [acc EXCEPT !.items = Append(@, PutAs(item, x)), !.releases = releases]
      PROVE  Held(after, p, free)
  <2>1. ItemOK(PutAs(item, x), p) /\ PutAs(item, x).state # "executable"
    BY <1>1, OutcomeIs
  <2>2. Grows(after, acc, PutAs(item, x), releases, acc.torrents, acc.tokens, acc.room)
    BY <1>1 DEF Grows
  <2>3. /\ PutAs(item, x) \in Entry /\ acc.tokens \in Tokens /\ acc.room \in Spaces(free)
        /\ acc.torrents \in TorrentSets
    BY <1>0, <2>1 DEF Acc, ItemOK
  <2> HIDE DEF after, releases
  <2>4. /\ after.items = Append(acc.items, PutAs(item, x)) /\ after.releases = releases
        /\ after.torrents = acc.torrents /\ after.room = acc.room /\ after \in Acc(free)
    BY <1>0, <2>2, <2>3, GrownIs
  <2>5. \A c \in DOMAIN free : Share(PutAs(item, x), c) + after.room[c] <= acc.room[c]
    BY <2>1, <2>3, <2>4 DEF Share, Spaces
  <2>6. acc.releases \subseteq after.releases
    BY <2>4 DEF releases
  <2> QED
    BY <2>1, <2>4, <2>5, <2>6, OneMoreIsHeld
<1>2. ASSUME NEW x, Result(x, item.variants, p), x.state # "executable", plan \in Plan,
             after = [acc EXCEPT !.items = Append(@, PutAs(item, x)), !.releases = releases,
                                 !.torrents = torrents]
      PROVE  Held(after, p, free)
  <2>1. ItemOK(PutAs(item, x), p) /\ PutAs(item, x).state # "executable"
    BY <1>2, OutcomeIs
  <2>2. Grows(after, acc, PutAs(item, x), releases, torrents, acc.tokens, acc.room)
    BY <1>2 DEF Grows
  <2>3. /\ PutAs(item, x) \in Entry /\ acc.tokens \in Tokens /\ acc.room \in Spaces(free)
        /\ torrents \in TorrentSets
    BY <1>0, <1>2, <2>1 DEF Acc, ItemOK, Torrent, Plan, TorrentSets
  <2> HIDE DEF after, releases, torrents
  <2>4. /\ after.items = Append(acc.items, PutAs(item, x)) /\ after.releases = releases
        /\ after.torrents = torrents /\ after.room = acc.room /\ after \in Acc(free)
    BY <1>0, <2>2, <2>3, GrownIs
  <2>5. \A c \in DOMAIN free : Share(PutAs(item, x), c) + after.room[c] <= acc.room[c]
    BY <2>1, <2>3, <2>4 DEF Share, Spaces
  <2>6. acc.releases \subseteq after.releases /\ acc.torrents \subseteq after.torrents
    BY <2>4 DEF releases, torrents
  <2> QED
    BY <2>1, <2>4, <2>5, <2>6, OneMoreIsHeld
<1>3. CASE plan = None
  <2>1. fit.state # "executable"
    BY <1>3, PlanningAssumption DEF Result, Sound
  <2>2. after = [acc EXCEPT !.items = Append(@, PutAs(item, fit)), !.releases = releases]
    BY <1>0, <1>3 DEF Placed, Acc, PutAs
  <2> QED
    BY <1>1, <2>1, <2>2
<1>4. CASE plan # None
  <2>1. fit.state = "executable" /\ plan \in Plan /\ Sound(plan, item.variants, p)
    BY <1>4 DEF Result, Sound
  <2>2. CASE torrent \in acc.torrents
    <3>1. after = [acc EXCEPT !.items = Append(@, PutAs(item, Blocked("duplicate"))),
                              !.releases = releases]
      BY <1>0, <1>4, <2>2 DEF Placed, Acc, PutAs, Blocked
    <3>2. Result(Blocked("duplicate"), item.variants, p)
          /\ Blocked("duplicate").state # "executable"
      BY BlockedIs DEF PlanStates
    <3> QED
      BY <1>1, <3>1, <3>2
  <2>3. CASE torrent \notin acc.torrents /\ counted /\ plan.size > Used(acc.room, client)
    <3>1. after = [acc EXCEPT !.items = Append(@, PutAs(item, Blocked("capacity_blocked"))),
                              !.releases = releases, !.torrents = torrents]
      BY <1>0, <1>4, <2>1, <2>3 DEF Placed, Acc, PutAs, Blocked, Plan
    <3>2. Result(Blocked("capacity_blocked"), item.variants, p)
          /\ Blocked("capacity_blocked").state # "executable"
      BY BlockedIs DEF PlanStates
    <3> QED
      BY <1>2, <2>1, <3>1, <3>2
  <2>4. CASE torrent \notin acc.torrents /\ ~(counted /\ plan.size > Used(acc.room, client))
    <3> DEFINE left == IF counted THEN Reserve(acc.room, client, plan.size) ELSE acc.room
               spent == IF plan.useToken THEN Increased(acc.tokens, plan.tracker, plan.cost)
                        ELSE acc.tokens
    <3>1. after = [acc EXCEPT !.items = Append(@, PutAs(item, fit)), !.releases = releases,
                              !.torrents = torrents, !.room = left, !.tokens = spent]
      BY <1>0, <1>4, <2>1, <2>4 DEF Placed, Acc, PutAs, Plan
    <3>2. /\ ItemOK(PutAs(item, fit), p) /\ PutAs(item, fit).state = "executable"
          /\ PutAs(item, fit).plan = plan
          /\ PutAs(item, fit).release = item.release
      BY <2>1, OutcomeIs
    <3>3. spent \in Tokens
      <4>1. acc.tokens \in Tokens /\ plan.tracker \in STRING /\ plan.cost \in Nat
        BY <1>0, <2>1 DEF Acc, Plan, Spaces
      <4> QED
        BY <4>1, TokensIncrease
    <3>4. torrents \in TorrentSets
      BY <1>0, <2>1 DEF Acc, Torrent, Plan, TorrentSets
    <3>5. /\ left \in Spaces(free)
          /\ \A c \in DOMAIN free : left[c] =
                acc.room[c] - IF c = client /\ plan.size > 0 THEN plan.size ELSE 0
      <4>1. acc.room \in Spaces(free) /\ plan.size \in Nat
        BY <1>0, <2>1 DEF Acc, Plan, Spaces
      <4>2. CASE ~counted
        BY <4>1, <4>2 DEF Spaces
      <4>3. CASE counted
        <5>1. client \in DOMAIN free /\ plan.size <= acc.room[client] /\ acc.room[client] \in Nat
          BY <2>4, <4>1, <4>3 DEF Used, Spaces
        <5>2. left = [k \in DOMAIN free |->
                        acc.room[k] + IF k = client THEN -plan.size ELSE 0]
          BY <4>1, <4>3, <5>1 DEF Spaces, Reserve, Increased, Used
        <5> HIDE DEF left
        <5>3. ASSUME NEW c \in DOMAIN free
              PROVE  /\ left[c] \in Nat
                     /\ left[c] = acc.room[c]
                                    - IF c = client /\ plan.size > 0 THEN plan.size ELSE 0
          <6>0. acc.room[c] \in Nat
            BY <4>1 DEF Spaces
          <6>1. CASE c = client
            BY <4>1, <4>3, <5>1, <5>2, <6>0, <6>1
          <6>2. CASE c # client
            BY <4>1, <5>2, <6>0, <6>2
          <6> QED
            BY <6>1, <6>2
        <5> QED
          BY <5>2, <5>3 DEF Spaces
      <4> QED
        BY <4>2, <4>3
    <3>6. \A c \in DOMAIN free : Share(PutAs(item, fit), c) =
             IF c = client THEN plan.size ELSE 0
      BY <3>2 DEF Share
    <3> HIDE DEF left, spent
    <3> DEFINE new == PutAs(item, fit)
    <3>7. Grows(after, acc, new, releases, torrents, spent, left)
      BY <3>1 DEF Grows
    <3> HIDE DEF after, releases, torrents, new
    <3>8. /\ after.items = Append(acc.items, new) /\ after.releases = releases
          /\ after.torrents = torrents /\ after.room = left /\ after \in Acc(free)
      <4>1. new \in Entry
        BY <3>2 DEF new, ItemOK
      <4> QED
        BY <1>0, <3>7, <3>3, <3>4, <3>5, <4>1, GrownIs
    <3>9. \A c \in DOMAIN free : Share(new, c) + after.room[c] <= acc.room[c]
      <4> SUFFICES ASSUME NEW c \in DOMAIN free
                   PROVE  Share(new, c) + after.room[c] <= acc.room[c]
        OBVIOUS
      <4>1. acc.room[c] \in Nat /\ plan.size \in Nat
        BY <1>0, <2>1 DEF Acc, Plan, Spaces
      <4> QED
        BY <3>5, <3>6, <3>8, <4>1 DEF new
    <3>10. /\ new.release \in after.releases \ acc.releases
          /\ Torrent(new, new.plan) \in after.torrents \ acc.torrents
      BY <2>4, <3>2, <3>8 DEF new, releases, torrents, Torrent
    <3>11. ItemOK(new, p) /\ acc.releases \subseteq after.releases
          /\ acc.torrents \subseteq after.torrents
      BY <3>2, <3>8 DEF new, releases, torrents
    <3>12. Held(after, p, free)
      BY <3>11, <3>8, <3>9, <3>10, OneMoreIsHeld
    <3> QED
      BY <3>12 DEF after
  <2> QED
    BY <2>2, <2>3, <2>4
<1> QED
  BY <1>3, <1>4

LEMMA ConstrainedIsHeld ==
    ASSUME NEW p, p \in Preferences(DOMAIN p.policies),
           NEW free, free \in [DOMAIN free -> Nat], NEW acc, Held(acc, p, free),
           NEW item, ItemOK(item, p)
    PROVE  Held(Constrain(acc, item, p, Profiles), p, free)
<1> DEFINE after == Constrain(acc, item, p, Profiles)
           copy == PutAs(item, Blocked("duplicate"))
<1>0. acc \in Acc(free) /\ item \in Entry
  BY DEF Held, ItemOK
<1>1. ASSUME NEW put, ItemOK(put, p), put.state # "executable",
             after = [acc EXCEPT !.items = Append(@, put)]
      PROVE  Held(after, p, free)
  <2>1. Grows(after, acc, put, acc.releases, acc.torrents, acc.tokens, acc.room)
    BY <1>1 DEF Grows
  <2>2. /\ put \in Entry /\ acc.tokens \in Tokens /\ acc.room \in Spaces(free)
        /\ acc.torrents \in TorrentSets
        /\ acc.releases \in ReleaseSets
    BY <1>0, <1>1 DEF Acc, ItemOK
  <2> HIDE DEF after
  <2>3. /\ after.items = Append(acc.items, put) /\ after.releases = acc.releases
        /\ after.torrents = acc.torrents /\ after.room = acc.room /\ after \in Acc(free)
    BY <1>0, <2>1, <2>2, GrownIs
  <2>4. \A c \in DOMAIN free : Share(put, c) + after.room[c] <= acc.room[c]
    BY <1>1, <2>2, <2>3 DEF Share, Spaces
  <2> QED
    BY <1>1, <2>3, <2>4, OneMoreIsHeld
<1>2. CASE item.state # "executable"
  <2>1. after = [acc EXCEPT !.items = Append(@, item)]
    BY <1>2 DEF Constrain
  <2> QED
    BY <1>1, <1>2, <2>1
<1>3. CASE item.state = "executable" /\ item.release \in acc.releases
  <2>1. after = [acc EXCEPT !.items = Append(@, copy)]
    BY <1>3 DEF Constrain, PutAs, Blocked
  <2>2. /\ Result(Blocked("duplicate"), item.variants, p)
        /\ Blocked("duplicate").state = "duplicate" /\ Blocked("duplicate").plan = None
    <3>1. "duplicate" \in PlanStates \ {"executable"}
      BY DEF PlanStates
    <3> QED
      BY <3>1, BlockedIs
  <2>3. ItemOK(copy, p) /\ copy.state # "executable"
    BY <2>2, OutcomeIs
  <2> QED
    BY <1>1, <2>1, <2>3
<1>4. CASE item.state = "executable" /\ item.release \notin acc.releases
  <2> DEFINE fit == WithinTokens(item, acc.tokens, p, Profiles)
  <2>1. Result(fit, item.variants, p)
    BY <1>4, WithinTokensIs
  <2>2. after = Placed(acc, item, fit, fit.plan, Profiles)
    BY <1>4 DEF Constrain
  <2> HIDE DEF fit
  <2>3. Held(Placed(acc, item, fit, fit.plan, Profiles), p, free)
    BY <1>4, <2>1, PlacedIsHeld
  <2> QED
    BY <2>2, <2>3
<1> QED
  BY <1>2, <1>3, <1>4

\* What the loop returns.
LEMMA FittedIs ==
    ASSUME NEW p, p \in Preferences(DOMAIN p.policies),
           NEW free, free \in [DOMAIN free -> Nat], NEW list \in Seq(Entry),
           \A i \in DOMAIN list : ItemOK(list[i], p),
           NEW out, out = ApplyPackConstraints(list, p, Profiles, free)
    PROVE  /\ out \in Seq(Entry) /\ \A i \in DOMAIN out : ItemOK(out[i], p)
           /\ Apart(out) /\ \A client \in DOMAIN free : Asked(out, client) <= free[client]
<1> DEFINE N == Len(list)
           S == {acc \in Acc(free) : Held(acc, p, free)}
           base == [items |-> <<>>, releases |-> {}, torrents |-> {}, tokens |-> <<>>,
                    room |-> free]
           P(f) == f = [n \in 0..N |-> IF n = 0 THEN base
                                       ELSE Constrain(f[n - 1], list[n], p, Profiles)]
           fitted == CHOOSE f : f = [n \in 0..N |->
                        IF n = 0
                        THEN [items |-> <<>>, releases |-> {}, torrents |-> {},
                              tokens |-> <<>>, room |-> free]
                        ELSE Constrain(f[n - 1], list[n], p, Profiles)]
           next == [x \in (1..N) \X S |-> Constrain(x[2], list[x[1]], p, Profiles)]
<1>0. N \in Nat /\ DOMAIN list = 1..N
  OBVIOUS
<1>1. ASSUME NEW n \in 1..N, NEW acc \in S PROVE Constrain(acc, list[n], p, Profiles) \in S
  <2>1. Held(Constrain(acc, list[n], p, Profiles), p, free)
    BY <1>0, ConstrainedIsHeld
  <2> QED
    BY <2>1 DEF Held
<1>2. base \in S
  <2>1. <<>> \in Tokens
    <3>1. <<>> \in [{} -> Nat]
      OBVIOUS
    <3>2. {} \in SUBSET STRING
      OBVIOUS
    <3> QED
      BY <3>1, <3>2 DEF Tokens
  <2>2. base \in Acc(free)
    BY <2>1 DEF Acc, ReleaseSets, TorrentSets, Spaces
  <2>3. DOMAIN base.items = {} /\ base.items = <<>> /\ base.room = free
    OBVIOUS
  <2>4. \A client \in DOMAIN free : Asked(base.items, client) + base.room[client] <= free[client]
    <3> SUFFICES ASSUME NEW client \in DOMAIN free
                 PROVE  Asked(base.items, client) + base.room[client] <= free[client]
      OBVIOUS
    <3>1. free[client] \in Nat /\ Asked(<<>>, client) = 0
      BY AskedOfNothing
    <3> QED
      BY <2>3, <3>1
  <2> HIDE DEF base
  <2>5. Held(base, p, free)
    BY <2>2, <2>3, <2>4 DEF Held, Chosen, Apart
  <2> QED
    BY <2>2, <2>5
<1> HIDE DEF base, S
<1>3. next \in [(1..N) \X S -> S]
  BY <1>1
<1>4. PICK f \in [0..N -> S] : Runs(f, base, N, next)
  <2> HIDE DEF next, N
  <2> QED
    BY <1>0, <1>2, <1>3, Recursion
<1>5. P(f)
  <2>1. ASSUME NEW n \in 0..N
        PROVE  f[n] = IF n = 0 THEN base ELSE Constrain(f[n - 1], list[n], p, Profiles)
    <3>1. CASE n = 0
      BY <1>4, <3>1 DEF Runs
    <3>2. CASE n # 0
      <4>1. n \in 1..N /\ n - 1 \in 0..N
        BY <1>0, <3>2
      <4>2. <<n, f[n - 1]>> \in (1..N) \X S
        BY <4>1
      <4>3. f[n] = next[<<n, f[n - 1]>>]
        BY <1>4, <4>1 DEF Runs
      <4> QED
        BY <3>2, <4>2, <4>3
    <3> QED
      BY <3>1, <3>2
  <2> QED
    BY <1>4, <2>1
<1>6. P(fitted)
  <2>1. P(CHOOSE g : P(g))
    <3> HIDE DEF P
    <3> QED
      BY <1>5
  <2> QED
    BY <2>1 DEF base
<1>7. out = fitted[N].items
  BY DEF ApplyPackConstraints
<1> HIDE DEF fitted
<1>8. fitted[N] \in S
  <2> DEFINE T == {n \in 0..N : fitted[n] \in S}
  <2>1. 0 \in T
    BY <1>0, <1>2, <1>6
  <2>2. ASSUME NEW n \in 1..N, n - 1 \in T PROVE n \in T
    <3>1. n \in 0..N /\ n # 0 /\ fitted[n - 1] \in S
      BY <1>0, <2>2
    <3>2. fitted[n] = Constrain(fitted[n - 1], list[n], p, Profiles)
      BY <1>6, <3>1
    <3> QED
      BY <1>1, <3>1, <3>2
  <2>3. N \in 0..N
    BY <1>0
  <2> HIDE DEF T, N
  <2>4. 0..N \subseteq T
    BY <1>0, <2>1, <2>2, Induction
  <2> QED
    BY <2>3, <2>4 DEF T
<1>9. PICK acc \in Acc(free) : Held(acc, p, free) /\ out = acc.items
  BY <1>7, <1>8 DEF S
<1>10. out \in Seq(Entry) /\ (\A i \in DOMAIN out : ItemOK(out[i], p)) /\ Apart(out)
  BY <1>9 DEF Held, Acc
<1>11. ASSUME NEW client \in DOMAIN free PROVE Asked(out, client) <= free[client]
  <2>1. HasPlans(out)
    BY <1>10, ItemsHavePlans
  <2>2. Asked(out, client) \in Int
    <3>1. PICK g \in [0..Len(out) -> Int] : Asked(out, client) = g[Len(out)]
      BY <2>1, AskedIs
    <3>2. Len(out) \in 0..Len(out)
      BY <1>10
    <3> QED
      BY <3>1, <3>2
  <2>3. acc.room[client] \in Nat /\ free[client] \in Nat
        /\ Asked(out, client) + acc.room[client] <= free[client]
    BY <1>9 DEF Held, Acc, Spaces
  <2> QED
    BY <2>2, <2>3
<1> QED
  BY <1>10, <1>11

(***************************************************************************)
(* The invariant of a pack: what is used are the given settings, migrated, *)
(* every item that is planned is planned as they allow, and what has been  *)
(* fitted fits.                                                            *)
(***************************************************************************)
PlansInv ==
    /\ settings \in Settings /\ room \in Rooms
    /\ stage \in {"given", "refused", "resolving", "fitted", "shown"}
    /\ stage \in {"resolving", "fitted", "shown"} =>
          prefs = MigrateLegacy(settings) /\ ValidPreferences(prefs)
    /\ stage \in {"given", "refused"} => items = <<>>
    /\ items \in Seq(Entry) /\ \A i \in DOMAIN items : ItemOK(items[i], prefs)
    /\ Fitted => /\ Apart(items)
                 /\ \A client \in DOMAIN room : Asked(items, client) <= room[client]

LEMMA PlansInitially == PlansInit => PlansInv
BY DEF PlansInit, PlansInv, Fitted

LEMMA PlansStep == PlansInv /\ [PlansNext]_plans => PlansInv'
<1> SUFFICES ASSUME PlansInv, [PlansNext]_plans PROVE PlansInv'
  OBVIOUS
<1>1. CASE Save
  <2>1. items = <<>> /\ items' = <<>> /\ stage' \in {"resolving", "refused"}
    BY <1>1 DEF Save, PlansInv
  <2>2. stage' = "resolving" => prefs' = MigrateLegacy(settings) /\ ValidPreferences(prefs')
    BY <1>1 DEF Save
  <2> QED
    BY <1>1, <2>1, <2>2 DEF Save, PlansInv, Fitted, ValidPreferences
<1>2. ASSUME NEW r \in Recommendations, Resolve(r) PROVE PlansInv'
  <2> DEFINE result == ResolveRelease(r, prefs, Profiles, Unlimited)
             item == [release |-> r.release, requested |-> r.requested,
                      variants |-> result.variants, aim |-> result.aim,
                      replacement |-> result.aim # None,
                      state |-> result.planned.state, plan |-> result.planned.plan]
  <2>1. prefs \in Preferences(DOMAIN prefs.policies)
    BY <1>2, PlanningAssumption, MigratedIs DEF Resolve, PlansInv
  <2>2. ItemOK(item, prefs)
    BY <2>1, ResolvedIs
  <2>3. items' = Append(items, item) /\ UNCHANGED <<settings, prefs, room, stage>>
        /\ stage = "resolving"
    BY <1>2 DEF Resolve
  <2> HIDE DEF item
  <2>4. items' \in Seq(Entry) /\ \A i \in DOMAIN items' : ItemOK(items'[i], prefs)
    <3>1. items \in Seq(Entry) /\ item \in Entry
      BY <2>2 DEF PlansInv, ItemOK
    <3> QED
      BY <2>2, <2>3, <3>1 DEF PlansInv
  <2> QED
    BY <2>3, <2>4 DEF PlansInv, Fitted, ValidPreferences
<1>3. CASE Fit
  <2>1. prefs \in Preferences(DOMAIN prefs.policies) /\ room \in [DOMAIN room -> Nat]
    BY <1>3, PlanningAssumption, MigratedIs DEF Fit, PlansInv
  <2>2. items' = ApplyPackConstraints(items, prefs, Profiles, room)
    BY <1>3 DEF Fit
  <2>3. /\ items' \in Seq(Entry) /\ \A i \in DOMAIN items' : ItemOK(items'[i], prefs)
        /\ Apart(items')
        /\ \A client \in DOMAIN room : Asked(items', client) <= room[client]
    BY <2>1, <2>2, FittedIs DEF PlansInv
  <2>4. UNCHANGED <<settings, prefs, room>> /\ stage = "resolving" /\ stage' = "fitted"
    BY <1>3 DEF Fit
  <2> QED
    BY <2>3, <2>4 DEF PlansInv, Fitted, ValidPreferences, Apart, Chosen, Asked
<1>4. ASSUME NEW work \in Jobs, NEW rows \in Imports, NEW progress \in Progresses,
             NEW torrent \in TorrentsOf(Last(items)),
             Show(Last(items), torrent, work, rows, progress)
      PROVE  PlansInv'
  <2>1. UNCHANGED <<settings, prefs, room, items>> /\ stage = "fitted" /\ stage' = "shown"
    BY <1>4 DEF Show
  <2> QED
    BY <2>1 DEF PlansInv, Fitted, ValidPreferences, Apart, Chosen, Asked
<1>5. CASE UNCHANGED plans
  BY <1>5 DEF plans, PlansInv, Fitted, ValidPreferences, Apart, Chosen, Asked
<1> QED
  BY <1>1, <1>2, <1>3, <1>4, <1>5 DEF PlansNext

LEMMA PlansStay == PlansSpec => []PlansInv
BY PlansInitially, PlansStep, PTL DEF PlansSpec

\* The plans of a fitted pack never ask a client for more space than it
\* reported (apply_pack_constraints).
THEOREM SpaceIsKept == PlansSpec => []SpaceFits
<1>1. PlansInv => SpaceFits
  BY DEF PlansInv, SpaceFits
<1> QED
  BY <1>1, PlansStay, PTL

\* A fitted pack downloads no release and no torrent twice.
THEOREM NothingIsDownloadedTwice == PlansSpec => []NothingTwice
<1>1. PlansInv => NothingTwice
  BY DEF PlansInv, NothingTwice, Apart, Chosen, Executable
<1> QED
  BY <1>1, PlansStay, PTL

\* A quality within the cutoff of the migrated settings is one that the
\* settings admit as they were given.
LEMMA AdmittedIs ==
    ASSUME PlansInv, stage \in {"fitted", "shown"}, NEW v, QualityRank(v, prefs) <= prefs.cutoff
    PROVE  QualityClass(v) \in Admitted
<1> DEFINE r == QualityRank(v, prefs)
           order == settings.legacyOrder
           found == {i \in DOMAIN order : order[i] = settings.legacyMinimum}
<1>1. /\ settings \in Preferences(DOMAIN settings.policies)
      /\ prefs = MigrateLegacy(settings) /\ prefs.cutoff <= Len(prefs.tiers)
  BY PlanningAssumption DEF PlansInv, ValidPreferences
<1>2. /\ prefs \in Preferences(DOMAIN prefs.policies)
      /\ order = <<>> => prefs.tiers = settings.tiers /\ prefs.cutoff = settings.cutoff
      /\ order # <<>> => /\ prefs.tiers = [i \in DOMAIN order |-> {order[i]}]
                         /\ prefs.cutoff = Position(found, 2)
  BY <1>1, MigratedIs
<1>3. r \in Nat /\ prefs.cutoff \in Nat /\ Len(prefs.tiers) \in Nat /\ r <= prefs.cutoff
  <2>1. r \in Nat
    BY <1>2, RankIsNumber
  <2>2. prefs.cutoff \in Nat
    BY <1>2 DEF Preferences
  <2>3. prefs.tiers \in Seq(SUBSET STRING)
    BY <1>2 DEF Preferences
  <2> QED
    BY <2>1, <2>2, <2>3
<1>4. r \in DOMAIN prefs.tiers /\ QualityClass(v) \in prefs.tiers[r]
  <2>1. r <= Len(prefs.tiers)
    BY <1>1, <1>3
  <2> QED
    BY <1>2, <2>1, RankIsNumber
<1> HIDE DEF r
<1>5. CASE order = <<>>
  BY <1>2, <1>3, <1>4, <1>5 DEF Admitted
<1>6. CASE order # <<>>
  <2>1. r \in DOMAIN order /\ QualityClass(v) = order[r]
    BY <1>2, <1>4, <1>6
  <2>2. order \in Seq(STRING) /\ found \in SUBSET Nat
    <3>1. order \in Seq(STRING)
      BY <1>1 DEF Preferences
    <3> HIDE DEF order
    <3>2. \A i \in DOMAIN order : i \in Nat
      BY <3>1
    <3> QED
      BY <3>1, <3>2
  <2>3. CASE found # {}
    <3>1. prefs.cutoff \in found
      <4>1. prefs.cutoff = Position(found, 2)
        BY <1>2, <1>6
      <4>2. Position(found, 2) \in found
        <5>1. found \in SUBSET Nat /\ found # {}
          BY <2>2, <2>3
        <5> HIDE DEF found
        <5> QED
          BY <5>1, PositionIs
      <4> QED
        BY <4>1, <4>2
    <3>2. /\ prefs.cutoff \in r..Len(order) /\ order[prefs.cutoff] = settings.legacyMinimum
          /\ settings.legacyMinimum \in ToSet(order)
      BY <1>3, <2>1, <2>2, <3>1 DEF ToSet
    <3> QED
      BY <1>6, <2>1, <3>2 DEF Admitted
  <2>4. CASE found = {}
    <3>1. prefs.cutoff = 2 /\ settings.legacyMinimum \notin ToSet(order)
      BY <1>2, <1>6, <2>2, <2>4, PositionIs DEF ToSet
    <3> QED
      BY <1>3, <1>6, <2>1, <3>1 DEF Admitted
  <2> QED
    BY <2>3, <2>4
<1> QED
  BY <1>5, <1>6

\* What is planned is a torrent of the release that the settings allow, whatever
\* was fitted and planned again (plan_variant, apply_pack_constraints).
THEOREM PlannedIsAllowed == PlansSpec => []PlansAreAllowed
<1>1. ASSUME PlansInv PROVE PlansAreAllowed
  <2> SUFFICES ASSUME Fitted, NEW i \in Executable
               PROVE  \E v \in ToSet(items[i].variants) :
                         LET plan == items[i].plan
                             policy == Policy(v.tracker, settings) IN
                         /\ plan.tracker = v.tracker /\ plan.id = v.id /\ plan.size = v.size
                         /\ QualityClass(v) \in Admitted
                         /\ policy.mode # "disabled"
                         /\ \/ v.free
                            \/ policy.mode = "any"
                            \/ plan.useToken /\ policy.autoTokens /\ plan.cost = TokenCost(v)
    BY DEF PlansAreAllowed
  <2>1. stage \in {"fitted", "shown"} /\ settings \in Preferences(DOMAIN settings.policies)
    BY <1>1, PlanningAssumption DEF Fitted, PlansInv
  <2>2. prefs = MigrateLegacy(settings)
    BY <1>1, <2>1 DEF PlansInv
  <2>3. prefs.policies = settings.policies
    BY <2>1, <2>2, MigratedIs
  <2>4. ItemOK(items[i], prefs) /\ items[i].state = "executable"
    BY <1>1 DEF PlansInv, Executable
  <2>5. PICK v \in ToSet(items[i].variants) : Matches(items[i].plan, v, prefs)
    BY <2>4 DEF ItemOK, Sound
  <2>6. v \in Variant
    BY <2>4 DEF ItemOK, Entry, ToSet
  <2>7. Policy(v.tracker, settings) = Policy(v.tracker, prefs)
    BY <2>3 DEF Policy
  <2> DEFINE policy == Policy(v.tracker, prefs)
  <2>8. policy.mode \in Mode
    <3>1. settings.policies \in [DOMAIN settings.policies ->
             [mode : Mode, autoTokens : BOOLEAN, profile : {None} \cup STRING, limit : Nat]]
      BY <2>1 DEF Preferences
    <3>2. CASE v.tracker \in DOMAIN settings.policies
      BY <2>7, <3>1, <3>2 DEF Policy
    <3>3. CASE v.tracker \notin DOMAIN settings.policies
      BY <2>7, <3>3 DEF Policy, Mode
    <3> QED
      BY <3>2, <3>3
  <2>9. /\ Wanted(v, prefs) /\ policy.mode # "disabled"
        /\ policy.mode = "freeleech_only" => v.free
        /\ policy.mode = "freeleech_or_token" /\ ~v.free =>
             Eligibility(v, prefs).requiresToken /\ Eligibility(v, prefs).cost = TokenCost(v)
    BY <2>5, <2>6, EligibilityIs DEF Matches
  <2>10. QualityClass(v) \in Admitted
    BY <1>1, <2>1, <2>9, AdmittedIs DEF Wanted
  <2>11. \/ v.free
         \/ policy.mode = "any"
         \/ /\ items[i].plan.useToken /\ policy.autoTokens
            /\ items[i].plan.cost = TokenCost(v)
    BY <2>5, <2>8, <2>9 DEF Matches, Mode
  <2> QED
    BY <2>5, <2>7, <2>9, <2>10, <2>11 DEF Matches
<1> QED
  BY <1>1, PlansStay, PTL
==============================================================================
