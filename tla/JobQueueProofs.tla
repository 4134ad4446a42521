--------------------------- MODULE JobQueueProofs ---------------------------
(***************************************************************************)
(* Theorems about JobQueue for every set of keys, workers and providers:   *)
(* type correctness, the exclusive use of a provider, the attempt budget   *)
(* and the refinement of JobContract.                                      *)
(***************************************************************************)
EXTENDS JobQueue, TLAPS

USE NamesAssumption, KeysAssumption

(***************************************************************************)
(* Rows stay rows.                                                         *)
(***************************************************************************)
\* Every row operator of the queue returns a row when it is given one.
LEMMA RowOperators ==
    ASSUME NEW k \in Keys, NEW r \in Row
    PROVE  /\ Absent(k) \in Row /\ Fresh(k) \in Row
           /\ Restarted(r) \in Row /\ Reopened(r) \in Row
           /\ Unleased(r) \in Row /\ Enqueued(k, r) \in Row
           /\ \A force \in BOOLEAN : Rearmed(k, force, r) \in Row
           /\ Recovered(k, r) \in Row /\ Released(r) \in Row
           /\ Orphaned(r) \in Row
<1>1. Absent(k) \in Row /\ Fresh(k) \in Row /\ Restarted(r) \in Row
        /\ Reopened(r) \in Row /\ Unleased(r) \in Row
  BY DEF Absent, Fresh, Restarted, Reopened, Unleased, Row, Owners, States, Active, Queued, Terminal
<1>2. Enqueued(k, r) \in Row
  BY <1>1 DEF Enqueued, Row
<1>3. \A force \in BOOLEAN : Rearmed(k, force, r) \in Row
  BY <1>1, <1>2 DEF Rearmed, Row
<1>4. Recovered(k, r) \in Row
  <2> DEFINE n == Bump(k, r.attempts)
             s == IF n >= MaxAttempts[k] THEN "failed" ELSE "retrying"
             u == [r EXCEPT !.state = s, !.attempts = n, !.due = TRUE]
  <2>1. n \in Nat /\ s \in States
    BY DEF Bump, Row, States, Active, Queued, Terminal
  <2>2. Recovered(k, r) = IF r.state = "running" /\ ~r.live THEN Unleased(u) ELSE r
    BY DEF Recovered
  <2> HIDE DEF n, s
  <2>3. u \in Row
    BY <2>1 DEF Row
  <2> QED
    BY <2>2, <2>3 DEF Unleased, Row, Owners
<1>5. Released(r) \in Row
  BY DEF Released, Unleased, Row, Owners, States, Active, Queued, Terminal
<1>6. Orphaned(r) \in Row
  BY DEF Orphaned, Row, Owners
<1> QED
  BY <1>1, <1>2, <1>3, <1>4, <1>5, <1>6

\* A wake-up only changes the state, the deadline and nothing else.
LEMMA ResumedRow ==
    ASSUME NEW r \in Row
    PROVE  /\ Resumed(r) \in Row
           /\ Resumed(r).state = IF r.state = "waiting" THEN "pending" ELSE r.state
           /\ Resumed(r).attempts = r.attempts /\ Resumed(r).owner = r.owner
           /\ Resumed(r).provider = r.provider
<1> DEFINE u == [r EXCEPT !.state = "pending", !.due = TRUE]
<1>1. /\ u \in Row /\ u.state = "pending" /\ u.attempts = r.attempts
      /\ u.owner = r.owner /\ u.provider = r.provider
  BY DEF Row, States, Active, Queued
<1>2. Resumed(r) = IF r.state = "waiting" THEN u ELSE r
  BY DEF Resumed
<1> HIDE DEF u
<1> QED
  BY <1>1, <1>2

\* The rows the first process finds.
LEMMA FirstRows ==
    ASSUME NEW k \in Keys, NEW cancelled
    PROVE  /\ FirstRow(k, cancelled) \in Row
           /\ FirstRow(k, cancelled).state \in {"absent", "pending", "cancelled"}
           /\ FirstRow(k, cancelled).attempts = 0
           /\ FirstRow(k, cancelled).provider = Home[k]
<1> DEFINE c == [Absent(k) EXCEPT !.state = "cancelled"]
<1>1. /\ Absent(k) \in Row /\ Absent(k).attempts = 0 /\ Absent(k).provider = Home[k]
      /\ Fresh(k).attempts = 0 /\ Fresh(k).provider = Home[k]
      /\ Absent(k).state = "absent" /\ Fresh(k).state = "pending"
  BY DEF Absent, Fresh, Row, States, Active, Queued, Owners
<1>2. Fresh(k) \in Row
  BY DEF Fresh, Absent, Row, States, Active, Queued, Owners
<1>3. c \in Row /\ c.state = "cancelled" /\ c.attempts = 0 /\ c.provider = Home[k]
  BY <1>1 DEF Row, States, Terminal
<1>4. FirstRow(k, cancelled) = IF k \in cancelled THEN c
                                ELSE IF k \in BootKeys THEN Fresh(k) ELSE Absent(k)
  BY DEF FirstRow
<1> HIDE DEF c
<1> QED
  BY <1>1, <1>2, <1>3, <1>4

\* Updates of single columns.
LEMMA RowColumns ==
    ASSUME NEW r \in Row
    PROVE  /\ \A b \in BOOLEAN : [r EXCEPT !.live = b] \in Row /\ [r EXCEPT !.due = b] \in Row
           /\ \A p \in Providers : [r EXCEPT !.provider = p] \in Row
           /\ \A w \in Workers :
                 [r EXCEPT !.state = "running", !.owner = w, !.live = TRUE] \in Row
           /\ [r EXCEPT !.state = "pending", !.due = TRUE] \in Row
<1>1. {"running", "pending"} \subseteq States
  BY DEF States, Active, Queued
<1> QED
  BY <1>1 DEF Row, Owners

\* The same for the updates of an HTTP handler and of a settling worker.
LEMMA SettledRows ==
    ASSUME NEW k \in Keys, NEW r \in Row
    PROVE  /\ \A op \in {"cancel", "retry", "retryByKey", "revisit"} :
                 HandlerWrites(op, r) \in Row
           /\ \A job \in Job : job.outcome # "none" => Settled(k, job, r) \in Row
<1>1. ASSUME NEW op \in {"cancel", "retry", "retryByKey", "revisit"}
      PROVE  HandlerWrites(op, r) \in Row
  BY RowOperators DEF HandlerWrites, Unleased, Row, Owners, States, Active, Terminal
<1>2. ASSUME NEW job \in Job, job.outcome # "none"
      PROVE  Settled(k, job, r) \in Row
  <2>1. job.outcome \in {"complete", "fail", "retry", "defer", "wait"}
    BY <1>2 DEF Job, Outcomes
  <2>2. SettledState(k, job) \in States
    BY <2>1 DEF SettledState, States, Active, Queued, Terminal
  <2>3. SettledAttempts(k, job, r) \in Nat
    BY <2>1 DEF SettledAttempts, Bump, Job, Row
  <2>4. (SettledState(k, job) \notin Queued) \in BOOLEAN
    OBVIOUS
  <2> QED
    BY <2>2, <2>3, <2>4, RowOperators DEF Settled, Row
<1> QED
  BY <1>1, <1>2

-----------------------------------------------------------------------------
\* A worker that settles has an outcome; without it Settled has no value.
OutcomeOK ==
    \A w \in Workers :
        worker[w].phase \in {"settling", "committing"} => worker[w].outcome # "none"

TypeInv == TypeOK /\ OutcomeOK

\* The row table is the only variable of TypeInv a transaction changes.
LEMMA TypeRows ==
    ASSUME TypeInv, row' \in [Keys -> Row], UNCHANGED <<worker, claimLock, circuit, mode>>,
           handlers' \subseteq Handler
    PROVE  TypeInv'
BY DEF TypeInv, TypeOK, OutcomeOK

LEMMA JobColumns ==
    ASSUME NEW job \in Job, NEW phase \in Phases
    PROVE  /\ \A outcome \in Outcomes :
                 [job EXCEPT !.phase = phase, !.outcome = outcome] \in Job
           /\ \A n \in Nat : [job EXCEPT !.phase = phase, !.attempts = n] \in Job
BY DEF Job

\* And so for the record of one worker.
LEMMA TypeWorker ==
    ASSUME TypeInv, NEW w \in Workers, NEW job \in Job,
           job.key = NoKey <=> job.phase \in {"idle", "asking", "claiming", "gone"},
           job.phase \in {"settling", "committing"} => job.outcome # "none",
           worker' = [worker EXCEPT ![w] = job], row' \in [Keys -> Row],
           claimLock' \in Workers \cup {Nobody}, UNCHANGED <<circuit, handlers, mode>>
    PROVE  TypeInv'
BY DEF TypeInv, TypeOK, OutcomeOK

LEMMA TypeRequest ==
    ASSUME TypeInv, NEW k \in Keys, Request(k)
    PROVE  TypeInv'
<1> USE DEF TypeInv, TypeOK
<1>1. CASE Enqueue(k)
  <2>1. Fresh(k) \in Row /\ Enqueued(k, row[k]) \in Row
    BY RowOperators
  <2>2. \A due \in BOOLEAN : [Fresh(k) EXCEPT !.due = due] \in Row
    BY <2>1 DEF Row
  <2> QED
    BY <1>1, <2>1, <2>2, TypeRows DEF Enqueue
<1>2. CASE Reactivate(k)
  <2>1. Enqueued(k, Reopened(row[k])) \in Row /\ Enqueued(k, row[k]) \in Row
    BY RowOperators
  <2> QED
    BY <1>2, <2>1, TypeRows DEF Reactivate
<1>3. CASE Rearm(k)
  <2>1. \A force \in BOOLEAN : Rearmed(k, force, row[k]) \in Row
    BY RowOperators
  <2>2. PICK force \in BOOLEAN : row' = [row EXCEPT ![k] = Rearmed(k, force, @)]
    BY <1>3 DEF Rearm
  <2>3. row' \in [Keys -> Row]
    BY <2>1, <2>2
  <2> QED
    BY <1>3, <2>3, TypeRows DEF Rearm
<1>4. ASSUME NEW op \in {"cancel", "retry", "retryByKey", "revisit"}, HandlerRead(op, k)
      PROVE  TypeInv'
  <2>1. [op |-> op, on |-> k] \in Handler
    BY DEF Handler
  <2> QED
    BY <1>4, <2>1, TypeRows DEF HandlerRead
<1>5. ASSUME NEW op \in {"cancel", "retry", "retryByKey", "revisit"}, HandlerWrite(op, k)
      PROVE  TypeInv'
  BY <1>5, SettledRows, TypeRows DEF HandlerWrite
<1>6. CASE Wake(k)
  BY <1>6, ResumedRow, TypeRows DEF Wake
<1> QED
  BY <1>1, <1>2, <1>3, <1>4, <1>5, <1>6 DEF Request

LEMMA TypeProvider ==
    ASSUME TypeInv, NEW p \in Providers, Provider(p)
    PROVE  TypeInv'
<1> USE DEF TypeInv, TypeOK
<1>1. CASE ResumeProvider(p)
  <2>1. [op |-> "resume", on |-> p] \in Handler
    BY DEF Handler
  <2> QED
    BY <1>1, <2>1 DEF ResumeProvider, OutcomeOK
<1>2. CASE ResumeWaitingJobs(p)
  <2>1. \A k \in Keys : Resumed(row[k]) \in Row
    BY ResumedRow
  <2> QED
    BY <1>2, <2>1, TypeRows DEF ResumeWaitingJobs
<1>3. CASE ProviderTrips(p)
  BY <1>3 DEF ProviderTrips, OutcomeOK
<1>4. CASE CooldownEnds(p)
  BY <1>4 DEF CooldownEnds, OutcomeOK
<1> QED
  BY <1>1, <1>2, <1>3, <1>4 DEF Provider

LEMMA TypeClaiming ==
    ASSUME TypeInv, NEW w \in Workers, Claiming(w)
    PROVE  TypeInv'
<1> USE DEF TypeInv, TypeOK, OutcomeOK, Job, Phases, At
<1>1. CASE StartRound(w)
  BY <1>1 DEF StartRound
<1>2. CASE RecoverExpired(w)
  BY <1>2, RowOperators DEF RecoverExpired
<1>3. CASE NothingToClaim(w)
  BY <1>3 DEF NothingToClaim, Idle, Outcomes
<1>4. ASSUME NEW k \in Keys, SelectJob(w, k)
      PROVE  TypeInv'
  BY <1>4 DEF SelectJob
<1>5. CASE ClaimJob(w)
  <2>1. worker[w].key \in Keys
    BY <1>5 DEF ClaimJob
  <2>2. row' \in [Keys -> Row]
    <3> DEFINE k == worker[w].key
               r == [row[k] EXCEPT !.state = "running", !.owner = w, !.live = TRUE]
    <3>1. r \in Row
      BY <2>1, RowColumns
    <3>2. row' = [row EXCEPT ![k] = r]
      BY <1>5 DEF ClaimJob
    <3> HIDE DEF r
    <3> QED
      BY <2>1, <3>1, <3>2
  <2> QED
    BY <1>5, <2>2 DEF ClaimJob
<1>6. CASE LoseClaim(w)
  BY <1>6 DEF LoseClaim
<1> QED
  BY <1>1, <1>2, <1>3, <1>4, <1>5, <1>6 DEF Claiming

LEMMA TypeExecuting ==
    ASSUME TypeInv, NEW w \in Workers, Executing(w)
    PROVE  TypeInv'
<1> USE DEF TypeInv, TypeOK, OutcomeOK, Job, Phases, At
<1>0. At(w, "running") => worker[w].key \in Keys
  OBVIOUS
<1>1. CASE Heartbeat(w)
  <2>1. row' \in [Keys -> Row]
    <3> DEFINE k == worker[w].key
    <3>1. [row[k] EXCEPT !.live = TRUE] \in Row
      BY <1>0, <1>1, RowColumns DEF Heartbeat
    <3>2. row' = [row EXCEPT ![k] = [@ EXCEPT !.live = TRUE]]
      BY <1>1 DEF Heartbeat
    <3> QED
      BY <3>1, <3>2
  <2> QED
    BY <1>1, <2>1 DEF Heartbeat
<1>2. CASE Disowned(w)
  BY <1>2 DEF Disowned, Idle, Outcomes
<1>3. ASSUME NEW outcome \in Outcomes, OperationEnds(w, outcome)
      PROVE  TypeInv'
  <2> DEFINE job == [worker[w] EXCEPT !.phase = "settling", !.outcome = outcome]
  <2>1. job \in Job /\ job.key # NoKey /\ job.phase = "settling" /\ job.outcome # "none"
    <3>0. worker[w] \in Job /\ "settling" \in Phases
      OBVIOUS
    <3>1. job \in Job
      <4> HIDE DEF Job, Phases
      <4> QED
        BY <3>0, JobColumns
    <3>2. worker[w] \in Job /\ worker[w].key # NoKey /\ outcome # "none"
      BY <1>3, NamesAssumption DEF OperationEnds
    <3>3. job.key = worker[w].key /\ job.phase = "settling" /\ job.outcome = outcome
      BY <3>2
    <3> QED
      BY <3>1, <3>2, <3>3
  <2>2. worker' = [worker EXCEPT ![w] = job]
    BY <1>3 DEF OperationEnds
  <2> HIDE DEF job
  <2> QED
    BY <1>3, <2>1, <2>2, TypeWorker DEF OperationEnds
<1>4. ASSUME NEW outcome \in Outcomes, NEW p \in Providers, ProviderError(w, p, outcome)
      PROVE  TypeInv'
  <2>1. row' \in [Keys -> Row]
    <3> DEFINE k == worker[w].key
    <3>1. [row[k] EXCEPT !.provider = p] \in Row
      BY <1>0, <1>4, RowColumns DEF ProviderError
    <3>2. row' = [row EXCEPT ![k] = IF @.state = "running"
                                    THEN [@ EXCEPT !.provider = p] ELSE @]
      BY <1>4 DEF ProviderError
    <3> QED
      BY <3>1, <3>2
  <2> DEFINE job == [worker[w] EXCEPT !.phase = "settling", !.outcome = outcome]
  <2>2. job \in Job /\ job.key # NoKey /\ job.phase = "settling" /\ job.outcome # "none"
    <3>0. worker[w] \in Job /\ "settling" \in Phases
      OBVIOUS
    <3>1. job \in Job
      <4> HIDE DEF Job, Phases
      <4> QED
        BY <3>0, JobColumns
    <3>2. worker[w] \in Job /\ worker[w].key # NoKey /\ outcome # "none"
      BY <1>4, NamesAssumption DEF ProviderError
    <3>3. job.key = worker[w].key /\ job.phase = "settling" /\ job.outcome = outcome
      BY <3>2
    <3> QED
      BY <3>1, <3>2, <3>3
  <2>3. worker' = [worker EXCEPT ![w] = job]
    BY <1>4 DEF ProviderError
  <2> HIDE DEF job
  <2> QED
    BY <1>4, <2>1, <2>2, <2>3, TypeWorker DEF ProviderError
<1> QED
  BY <1>1, <1>2, <1>3, <1>4 DEF Executing

LEMMA TypeSettling ==
    ASSUME TypeInv, NEW w \in Workers, Settling(w)
    PROVE  TypeInv'
<1> USE DEF TypeInv, TypeOK, OutcomeOK, Job, Phases, At
<1>0. worker[w].phase \in {"settling", "committing"} =>
        worker[w].key \in Keys /\ worker[w].outcome # "none"
  OBVIOUS
<1>1. CASE SettleRead(w)
  <2>1. row[worker[w].key].attempts \in Nat
    BY <1>0, <1>1 DEF SettleRead, Row
  <2> DEFINE job == [worker[w] EXCEPT !.phase = "committing",
                                      !.attempts = row[worker[w].key].attempts]
  <2>2. job \in Job /\ job.key # NoKey /\ job.phase = "committing" /\ job.outcome # "none"
    <3>0. worker[w] \in Job /\ "committing" \in Phases
      OBVIOUS
    <3>1. job \in Job
      <4> HIDE DEF Job, Phases
      <4> QED
        BY <2>1, <3>0, JobColumns
    <3>2. worker[w] \in Job /\ worker[w].key # NoKey /\ worker[w].outcome # "none"
      BY <1>1, NamesAssumption DEF SettleRead
    <3>3. job.key = worker[w].key /\ job.phase = "committing"
            /\ job.outcome = worker[w].outcome
      BY <3>2
    <3> QED
      BY <3>1, <3>2, <3>3
  <2>3. worker' = [worker EXCEPT ![w] = job]
    BY <1>1 DEF SettleRead
  <2> HIDE DEF job
  <2> QED
    BY <1>1, <2>2, <2>3, TypeWorker DEF SettleRead
<1>2. CASE SettleIgnored(w)
  BY <1>2 DEF SettleIgnored, Idle, Outcomes
<1>3. CASE SettleWrite(w)
  <2>1. Settled(worker[w].key, worker[w], row[worker[w].key]) \in Row
    BY <1>0, <1>3, SettledRows DEF SettleWrite
  <2> QED
    BY <1>3, <2>1 DEF SettleWrite, Idle, Outcomes
<1>4. CASE SettleError(w)
  BY <1>4 DEF SettleError, Idle, Outcomes
<1> QED
  BY <1>1, <1>2, <1>3, <1>4 DEF Settling

LEMMA TypeProcess ==
    ASSUME TypeInv, Process
    PROVE  TypeInv'
<1> USE DEF TypeInv, TypeOK, OutcomeOK, Job, Phases, At
<1>1. CASE StopSignal
  BY <1>1 DEF StopSignal
<1>2. ASSUME NEW w \in Workers, WorkerStops(w)
      PROVE  TypeInv'
  BY <1>2 DEF WorkerStops, Gone, Idle, Outcomes
<1>3. ASSUME NEW table \in [Keys -> Row], Exit(table)
      PROVE  TypeInv'
  BY <1>3, RowOperators DEF Exit, Gone, Idle, Outcomes
<1>4. CASE ShutdownInTime
  <2>1. [k \in Keys |-> Released(row[k])] \in [Keys -> Row]
    BY RowOperators
  <2> QED
    BY <1>3, <1>4, <2>1 DEF ShutdownInTime
<1>5. CASE ShutdownTimesOut \/ Crash
  BY <1>3, <1>5 DEF ShutdownTimesOut, Crash
<1>6. CASE Start
  <2>1. ASSUME NEW pruned, NEW k \in Keys
        PROVE  Booted(k, pruned) \in Row
    <3> DEFINE r == IF k \in pruned THEN Absent(k) ELSE Recovered(k, row[k])
               b == IF k \in BootKeys THEN Enqueued(k, r) ELSE r
    <3>1. r \in Row
      BY RowOperators
    <3>2. Booted(k, pruned) = IF k \in Parking THEN Resumed(b) ELSE b
      BY DEF Booted
    <3> HIDE DEF r
    <3>3. b \in Row
      BY <3>1, RowOperators
    <3> HIDE DEF b
    <3> QED
      BY <3>2, <3>3, ResumedRow
  <2> QED
    BY <1>6, <2>1 DEF Start, Idle, Outcomes
<1> QED
  BY <1>1, <1>2, <1>4, <1>5, <1>6 DEF Process

LEMMA TypeInit == Init => TypeInv
<1> SUFFICES ASSUME Init PROVE TypeInv
  OBVIOUS
<1>1. row \in [Keys -> Row]
  <2>1. \A cancelled : \A k \in Keys : FirstRow(k, cancelled) \in Row
    BY FirstRows
  <2> QED
    BY <2>1 DEF Init
<1>2. Idle \in Job /\ Idle.key = NoKey /\ Idle.phase = "idle"
  BY DEF Idle, Job, Phases, Outcomes
<1> QED
  BY <1>1, <1>2 DEF Init, TypeInv, TypeOK, OutcomeOK

LEMMA TypeNext == TypeInv /\ [Next]_vars => TypeInv'
<1> SUFFICES ASSUME TypeInv, [Next]_vars PROVE TypeInv'
  OBVIOUS
<1>1. ASSUME NEW k \in Keys, LeaseExpires(k) \/ BecomesDue(k)
      PROVE  TypeInv'
  <2>1. row' \in [Keys -> Row]
    <3>1. [row[k] EXCEPT !.live = FALSE] \in Row /\ [row[k] EXCEPT !.due = TRUE] \in Row
      BY RowColumns DEF TypeInv, TypeOK
    <3>2. \/ row' = [row EXCEPT ![k] = [@ EXCEPT !.live = FALSE]]
          \/ row' = [row EXCEPT ![k] = [@ EXCEPT !.due = TRUE]]
      BY <1>1 DEF LeaseExpires, BecomesDue
    <3>3. row \in [Keys -> Row]
      BY DEF TypeInv, TypeOK
    <3> QED
      BY <3>1, <3>2, <3>3
  <2> QED
    BY <1>1, <2>1, TypeRows DEF LeaseExpires, BecomesDue, TypeInv, TypeOK
<1>2. CASE UNCHANGED vars
  BY <1>2 DEF TypeInv, TypeOK, OutcomeOK, vars
<1> QED
  BY <1>1, <1>2, TypeRequest, TypeProvider, TypeClaiming, TypeExecuting,
     TypeSettling, TypeProcess DEF Next

\* Every reachable state of the queue has its type, and every worker that
\* settles has an outcome to write.
THEOREM TypeCorrect == Spec => []TypeOK
<1>1. TypeInv => TypeOK
  BY DEF TypeInv
<1> QED
  BY <1>1, TypeInit, TypeNext, PTL DEF Spec

-----------------------------------------------------------------------------
(***************************************************************************)
(* The exclusive use of a provider.  What makes it inductive: a loyal row  *)
(* keeps its provider, the claim mutex is held from the candidate query to *)
(* the conditional update, and in between no row starts to run.            *)
(***************************************************************************)
SelectedAlone ==
    \A w \in Workers, j \in Keys :
        /\ worker[w].phase = "selected" /\ Loyal(worker[w].key)
        /\ Loyal(j) /\ Home[j] = Home[worker[w].key]
        => row[j].state # "running"

ClaimsUnderLock ==
    \A w \in Workers : worker[w].phase \in {"claiming", "selected"} => claimLock = w

LoyalRows == \A k \in Keys : Loyal(k) => row[k].provider = Home[k]

ExclusiveInv == ProviderExclusive /\ SelectedAlone /\ ClaimsUnderLock /\ LoyalRows

\* Nothing starts to run, nobody is newly selected.
Calm ==
    /\ \A k \in Keys : row'[k].state = "running" => row[k].state = "running"
    /\ \A w \in Workers : worker'[w].phase = "selected" => worker'[w] = worker[w]
    /\ \A w \in Workers :
          worker'[w].phase \in {"claiming", "selected"} => claimLock' = w
    /\ LoyalRows'

LEMMA CalmSteps ==
    ASSUME ExclusiveInv, Calm
    PROVE  ExclusiveInv'
<1> USE DEF ExclusiveInv, Calm
<1>1. ProviderExclusive'
  BY DEF ProviderExclusive, Loyal
<1>2. SelectedAlone'
  BY DEF SelectedAlone, Loyal
<1>3. ClaimsUnderLock'
  BY DEF ClaimsUnderLock
<1> QED
  BY <1>1, <1>2, <1>3

\* The row operators neither start a row nor move it to a foreign provider.
LEMMA QuietRows ==
    ASSUME NEW k \in Keys, NEW r \in Row, Loyal(k) => r.provider = Home[k]
    PROVE  /\ Absent(k).state # "running" /\ Fresh(k).state # "running"
           /\ Absent(k).provider = Home[k] /\ Fresh(k).provider = Home[k]
           /\ Reopened(r).state # "running" /\ Reopened(r).provider = r.provider
           /\ Enqueued(k, r).state = "running" => r.state = "running"
           /\ Enqueued(k, r).provider = Home[k]
           /\ \A force : Rearmed(k, force, r).state = "running" => r.state = "running"
           /\ \A force : Rearmed(k, force, r).provider = Home[k]
           /\ Recovered(k, r).state = "running" => r.state = "running"
           /\ Recovered(k, r).provider = r.provider
           /\ Released(r).state = "running" => r.state = "running"
           /\ Released(r).provider = r.provider
           /\ Orphaned(r).state = r.state /\ Orphaned(r).provider = r.provider
<1>1. /\ Absent(k).state # "running" /\ Fresh(k).state # "running"
      /\ Absent(k).provider = Home[k] /\ Fresh(k).provider = Home[k]
      /\ Reopened(r).state # "running" /\ Reopened(r).provider = r.provider
      /\ Restarted(r).state # "running" /\ Restarted(r) \in Row
  BY RowOperators DEF Absent, Fresh, Reopened, Restarted, Row
<1>2. /\ Enqueued(k, r).state = "running" => r.state = "running"
      /\ Enqueued(k, r).provider = Home[k]
  BY <1>1 DEF Enqueued, Row
<1>3. ASSUME NEW force
      PROVE  /\ Rearmed(k, force, r).state = "running" => r.state = "running"
             /\ Rearmed(k, force, r).provider = Home[k]
  BY <1>1, <1>2 DEF Rearmed, Row
<1>4. /\ Recovered(k, r).state = "running" => r.state = "running"
      /\ Recovered(k, r).provider = r.provider
  BY DEF Recovered, Unleased, Row
<1>5. /\ Released(r).state = "running" => r.state = "running"
      /\ Released(r).provider = r.provider
  BY DEF Released, Unleased, Row
<1>6. Orphaned(r).state = r.state /\ Orphaned(r).provider = r.provider
  BY DEF Orphaned, Row
<1> QED
  BY <1>1, <1>2, <1>3, <1>4, <1>5, <1>6

LEMMA QuietWrites ==
    ASSUME NEW k \in Keys, NEW r \in Row
    PROVE  /\ \A op \in {"cancel", "retry", "retryByKey", "revisit"} :
                 /\ HandlerWrites(op, r).state # "running"
                 /\ HandlerWrites(op, r).provider = r.provider
           /\ \A job \in Job : job.outcome # "none" =>
                 /\ Settled(k, job, r).state # "running"
                 /\ Settled(k, job, r).provider = r.provider
<1>1. ASSUME NEW op \in {"cancel", "retry", "retryByKey", "revisit"}
      PROVE  /\ HandlerWrites(op, r).state # "running"
             /\ HandlerWrites(op, r).provider = r.provider
  BY DEF HandlerWrites, Restarted, Reopened, Unleased, Row
<1>2. ASSUME NEW job \in Job, job.outcome # "none"
      PROVE  /\ Settled(k, job, r).state # "running"
             /\ Settled(k, job, r).provider = r.provider
  <2>1. SettledState(k, job) # "running"
    BY <1>2 DEF SettledState, Job, Outcomes
  <2>2. Unleased(r) \in Row /\ Unleased(r).provider = r.provider
    BY RowOperators DEF Unleased, Row
  <2> QED
    BY <2>1, <2>2 DEF Settled, Row
<1> QED
  BY <1>1, <1>2

LEMMA CalmRequest ==
    ASSUME TypeInv, ExclusiveInv, NEW k \in Keys, Request(k)
    PROVE  Calm
<1> USE DEF Calm, ExclusiveInv, ClaimsUnderLock, LoyalRows
<1> row[k] \in Row /\ row \in [Keys -> Row]
  BY DEF TypeInv, TypeOK
<1>1. CASE Enqueue(k)
  <2>1. PICK due \in BOOLEAN :
           row' = [row EXCEPT ![k] = IF @.state = "absent"
                                     THEN [Fresh(k) EXCEPT !.due = due]
                                     ELSE Enqueued(k, @)]
    BY <1>1 DEF Enqueue
  <2>2. Fresh(k) \in Row
    BY RowOperators
  <2>3. /\ row'[k].state = "running" => row[k].state = "running"
        /\ Loyal(k) => row'[k].provider = Home[k]
    BY <2>1, <2>2, QuietRows DEF Row
  <2> QED
    BY <1>1, <2>1, <2>3 DEF Enqueue, Loyal
<1>2. CASE Reactivate(k)
  <2> DEFINE r == IF row[k].state = "completed" THEN Reopened(row[k]) ELSE row[k]
  <2>1. r \in Row /\ (r.state = "running" => row[k].state = "running")
          /\ r.provider = row[k].provider
    BY RowOperators, QuietRows
  <2>2. row' = [row EXCEPT ![k] = Enqueued(k, r)]
    BY <1>2 DEF Reactivate
  <2> HIDE DEF r
  <2>3. /\ row'[k].state = "running" => row[k].state = "running"
        /\ Loyal(k) => row'[k].provider = Home[k]
    BY <2>1, <2>2, QuietRows
  <2> QED
    BY <1>2, <2>2, <2>3 DEF Reactivate, Loyal
<1>3. CASE Rearm(k)
  <2>1. PICK force \in BOOLEAN : row' = [row EXCEPT ![k] = Rearmed(k, force, @)]
    BY <1>3 DEF Rearm
  <2>2. /\ row'[k].state = "running" => row[k].state = "running"
        /\ Loyal(k) => row'[k].provider = Home[k]
    BY <2>1, QuietRows
  <2> QED
    BY <1>3, <2>1, <2>2 DEF Rearm, Loyal
<1>4. ASSUME NEW op \in {"cancel", "retry", "retryByKey", "revisit"}, HandlerRead(op, k)
      PROVE  Calm
  BY <1>4 DEF HandlerRead, Loyal
<1>5. ASSUME NEW op \in {"cancel", "retry", "retryByKey", "revisit"}, HandlerWrite(op, k)
      PROVE  Calm
  <2>1. row' = [row EXCEPT ![k] = HandlerWrites(op, @)]
    BY <1>5 DEF HandlerWrite
  <2>2. /\ row'[k].state # "running"
        /\ Loyal(k) => row'[k].provider = Home[k]
    BY <2>1, QuietWrites
  <2> QED
    BY <1>5, <2>1, <2>2 DEF HandlerWrite, Loyal
<1>6. CASE Wake(k)
  <2>1. row' = [row EXCEPT ![k] = Resumed(row[k])]
    BY <1>6 DEF Wake
  <2>2. /\ row'[k].state = "running" => row[k].state = "running"
        /\ Loyal(k) => row'[k].provider = Home[k]
    BY <2>1, ResumedRow
  <2> QED
    BY <1>6, <2>1, <2>2 DEF Wake, Loyal
<1> QED
  BY <1>1, <1>2, <1>3, <1>4, <1>5, <1>6 DEF Request

LEMMA CalmProvider ==
    ASSUME TypeInv, ExclusiveInv, NEW p \in Providers, Provider(p)
    PROVE  Calm
<1> USE DEF Calm, ExclusiveInv, ClaimsUnderLock, LoyalRows
<1>1. CASE ResumeWaitingJobs(p)
  <2>1. \A k \in Keys : /\ row'[k].state = "running" => row[k].state = "running"
                        /\ row'[k].provider = row[k].provider
    <3>1. \A k \in Keys : /\ Resumed(row[k]).state = "running" => row[k].state = "running"
                          /\ Resumed(row[k]).provider = row[k].provider
      BY ResumedRow DEF TypeInv, TypeOK
    <3> QED
      BY <1>1, <3>1 DEF ResumeWaitingJobs
  <2> QED
    BY <1>1, <2>1 DEF ResumeWaitingJobs, Loyal
<1>2. CASE ResumeProvider(p) \/ ProviderTrips(p) \/ CooldownEnds(p)
  BY <1>2 DEF ResumeProvider, ProviderTrips, CooldownEnds, Loyal
<1> QED
  BY <1>1, <1>2 DEF Provider

LEMMA CalmSettling ==
    ASSUME TypeInv, ExclusiveInv, NEW w \in Workers, Settling(w)
    PROVE  Calm
<1> USE DEF Calm, ExclusiveInv, ClaimsUnderLock, LoyalRows
<1>1. CASE SettleWrite(w)
  <2> DEFINE k == worker[w].key
  <2>1. k \in Keys /\ worker[w] \in Job /\ worker[w].outcome # "none" /\ row[k] \in Row
    BY <1>1 DEF SettleWrite, At, TypeInv, TypeOK, OutcomeOK, Job
  <2>2. row' = [row EXCEPT ![k] = Settled(k, worker[w], @)]
    BY <1>1 DEF SettleWrite
  <2>3. row'[k].state # "running" /\ row'[k].provider = row[k].provider
    BY <2>1, <2>2, QuietWrites DEF TypeInv, TypeOK
  <2>4. \A v \in Workers : worker'[v].phase \in {"claiming", "selected"}
                              => worker'[v] = worker[v]
    BY <1>1 DEF SettleWrite, Idle, TypeInv, TypeOK
  <2> HIDE DEF k
  <2> QED
    BY <1>1, <2>1, <2>2, <2>3, <2>4 DEF SettleWrite, Loyal, TypeInv, TypeOK
<1>2. CASE SettleRead(w) \/ SettleIgnored(w) \/ SettleError(w)
  <2>1. \A v \in Workers : worker'[v].phase \in {"claiming", "selected"}
                              => worker'[v] = worker[v]
    <3>1. \A v \in Workers \ {w} : worker'[v] = worker[v]
      BY <1>2 DEF SettleRead, SettleIgnored, SettleError, TypeInv, TypeOK
    <3>2. worker'[w].phase \in {"committing", "idle"}
      BY <1>2 DEF SettleRead, SettleIgnored, SettleError, Idle, TypeInv, TypeOK, Job
    <3> QED
      BY <3>1, <3>2
  <2>2. UNCHANGED <<row, claimLock>>
    BY <1>2 DEF SettleRead, SettleIgnored, SettleError
  <2> QED
    BY <2>1, <2>2 DEF Loyal
<1> QED
  BY <1>1, <1>2 DEF Settling

LEMMA CalmExecuting ==
    ASSUME TypeInv, ExclusiveInv, NEW w \in Workers, Executing(w)
    PROVE  Calm
<1> USE DEF Calm, ExclusiveInv, ClaimsUnderLock, LoyalRows
<1>1. \A v \in Workers : worker'[v].phase \in {"claiming", "selected"}
                            => worker'[v] = worker[v]
  <2>1. \A v \in Workers \ {w} : worker'[v] = worker[v]
    BY DEF Executing, Heartbeat, Disowned, OperationEnds, ProviderError, TypeInv, TypeOK
  <2>2. CASE Heartbeat(w) \/ Disowned(w)
    BY <2>1, <2>2 DEF Heartbeat, Disowned, Idle, TypeInv, TypeOK
  <2>3. ASSUME NEW outcome, OperationEnds(w, outcome)
        PROVE  worker'[w].phase = "settling"
    BY <2>3 DEF OperationEnds, TypeInv, TypeOK, Job
  <2>4. ASSUME NEW outcome, NEW p, ProviderError(w, p, outcome)
        PROVE  worker'[w].phase = "settling"
    BY <2>4 DEF ProviderError, TypeInv, TypeOK, Job
  <2> QED
    BY <2>1, <2>2, <2>3, <2>4 DEF Executing
<1>2. claimLock' = claimLock
  BY DEF Executing, Heartbeat, Disowned, OperationEnds, ProviderError
<1>3. CASE Heartbeat(w)
  <2>1. \A k \in Keys : row'[k].state = row[k].state /\ row'[k].provider = row[k].provider
    BY <1>3 DEF Heartbeat, TypeInv, TypeOK, Row
  <2> QED
    BY <1>1, <1>2, <2>1 DEF Loyal
<1>4. CASE Disowned(w) \/ \E outcome \in Outcomes : OperationEnds(w, outcome)
  BY <1>1, <1>2, <1>4 DEF Disowned, OperationEnds, Loyal
<1>5. ASSUME NEW outcome \in Outcomes, NEW p \in Providers, ProviderError(w, p, outcome)
      PROVE  Calm
  <2> DEFINE k == worker[w].key
  <2>1. k \in Keys /\ row[k] \in Row /\ p \in Talks[k]
    BY <1>5 DEF ProviderError, At, TypeInv, TypeOK, Job
  <2>2. row' = [row EXCEPT ![k] = IF @.state = "running"
                                  THEN [@ EXCEPT !.provider = p] ELSE @]
    BY <1>5 DEF ProviderError
  <2> HIDE DEF k
  <2>3. \A j \in Keys : row'[j].state = row[j].state
    BY <2>1, <2>2 DEF TypeInv, TypeOK, Row
  <2>4. Loyal(k) => p = Home[k]
    BY <2>1 DEF Loyal
  <2>5. \A j \in Keys : Loyal(j) => row'[j].provider = Home[j]
    BY <2>1, <2>2, <2>4 DEF TypeInv, TypeOK, Row
  <2> QED
    BY <1>1, <1>2, <2>3, <2>5 DEF Loyal
<1> QED
  BY <1>3, <1>4, <1>5 DEF Executing

LEMMA CalmProcess ==
    ASSUME TypeInv, ExclusiveInv, Process
    PROVE  Calm
<1> USE DEF Calm, ExclusiveInv, ClaimsUnderLock, LoyalRows
<1> \A k \in Keys : row[k] \in Row
  BY DEF TypeInv, TypeOK
<1>1. CASE StopSignal \/ \E w \in Workers : WorkerStops(w)
  <2>1. \A v \in Workers : worker'[v].phase \in {"claiming", "selected"}
                              => worker'[v] = worker[v]
    BY <1>1 DEF StopSignal, WorkerStops, Gone, Idle, TypeInv, TypeOK
  <2>2. UNCHANGED <<row, claimLock>>
    BY <1>1 DEF StopSignal, WorkerStops
  <2> QED
    BY <2>1, <2>2 DEF Loyal
<1>2. ASSUME NEW table \in [Keys -> Row], Exit(table),
             \A k \in Keys : /\ table[k].state = "running" => row[k].state = "running"
                             /\ table[k].provider = row[k].provider
      PROVE  Calm
  <2>1. \A k \in Keys : /\ row'[k].state = "running" => row[k].state = "running"
                        /\ row'[k].provider = row[k].provider
    BY <1>2 DEF Exit, Orphaned, Row
  <2>2. \A v \in Workers : worker'[v].phase = "gone"
    BY <1>2 DEF Exit, Gone, Idle
  <2> QED
    BY <2>1, <2>2 DEF Loyal
<1>3. CASE ShutdownInTime
  <2>1. [k \in Keys |-> Released(row[k])] \in [Keys -> Row]
    BY RowOperators
  <2>2. \A k \in Keys : /\ Released(row[k]).state = "running" => row[k].state = "running"
                        /\ Released(row[k]).provider = row[k].provider
    BY QuietRows
  <2> QED
    BY <1>2, <1>3, <2>1, <2>2 DEF ShutdownInTime
<1>4. CASE ShutdownTimesOut \/ Crash
  BY <1>2, <1>4 DEF ShutdownTimesOut, Crash, TypeInv, TypeOK
<1>5. CASE Start
  <2>1. PICK pruned : row' = [k \in Keys |-> Booted(k, pruned)]
    BY <1>5 DEF Start
  <2>2. ASSUME NEW k \in Keys
        PROVE  /\ Booted(k, pruned).state = "running" => row[k].state = "running"
               /\ Loyal(k) => Booted(k, pruned).provider = Home[k]
    <3> DEFINE r == IF k \in pruned THEN Absent(k) ELSE Recovered(k, row[k])
    <3>1. r \in Row /\ (r.state = "running" => row[k].state = "running")
            /\ (Loyal(k) => r.provider = Home[k])
      <4>1. Absent(k) \in Row /\ Recovered(k, row[k]) \in Row
        BY RowOperators
      <4>2. /\ Absent(k).state # "running" /\ Absent(k).provider = Home[k]
            /\ Recovered(k, row[k]).state = "running" => row[k].state = "running"
            /\ Recovered(k, row[k]).provider = row[k].provider
        BY QuietRows
      <4> QED
        BY <4>1, <4>2
    <3> DEFINE b == IF k \in BootKeys THEN Enqueued(k, r) ELSE r
    <3>2. Booted(k, pruned) = IF k \in Parking THEN Resumed(b) ELSE b
      BY DEF Booted
    <3> HIDE DEF r
    <3>3. b \in Row /\ (b.state = "running" => row[k].state = "running")
            /\ (Loyal(k) => b.provider = Home[k])
      BY <3>1, QuietRows, RowOperators
    <3> HIDE DEF b
    <3> QED
      BY <3>2, <3>3, ResumedRow
  <2>3. \A v \in Workers : worker'[v].phase = "idle"
    BY <1>5 DEF Start, Idle
  <2> QED
    BY <2>1, <2>2, <2>3 DEF Loyal
<1> QED
  BY <1>1, <1>3, <1>4, <1>5 DEF Process

LEMMA ExclusiveClaiming ==
    ASSUME TypeInv, ExclusiveInv, NEW w \in Workers, Claiming(w)
    PROVE  ExclusiveInv'
<1> USE DEF ExclusiveInv, ClaimsUnderLock, LoyalRows
<1>0. /\ worker \in [Workers -> Job] /\ worker[w] \in Job /\ Nobody \notin Workers
      /\ \A k \in Keys : row[k] \in Row
  BY NamesAssumption DEF TypeInv, TypeOK
<1>1. CASE StartRound(w)
  <2>1. Calm
    BY <1>0, <1>1 DEF Calm, StartRound, Loyal, Job
  <2> QED
    BY <2>1, CalmSteps
<1>2. CASE RecoverExpired(w)
  <2>1. \A k \in Keys : /\ row'[k].state = "running" => row[k].state = "running"
                        /\ row'[k].provider = row[k].provider
    BY <1>0, <1>2, QuietRows DEF RecoverExpired
  <2>2. Calm
    BY <1>0, <1>2, <2>1 DEF Calm, RecoverExpired, Loyal, Job
  <2> QED
    BY <2>2, CalmSteps
<1>3. CASE NothingToClaim(w) \/ LoseClaim(w)
  <2>1. \A v \in Workers \ {w} : worker'[v] = worker[v]
    BY <1>0, <1>3 DEF NothingToClaim, LoseClaim
  <2>2. /\ NothingToClaim(w) => worker'[w].phase = "idle"
        /\ LoseClaim(w) => worker'[w].phase = "claiming" /\ claimLock' = claimLock
    BY <1>0 DEF NothingToClaim, LoseClaim, Idle, Job
  <2>3. worker[w].phase \in {"claiming", "selected"} /\ UNCHANGED row
    BY <1>3 DEF NothingToClaim, LoseClaim, At
  <2>4. Calm
    BY <1>3, <2>1, <2>2, <2>3 DEF Calm, Loyal
  <2> QED
    BY <2>4, CalmSteps
<1>4. ASSUME NEW k \in Keys, SelectJob(w, k)
      PROVE  ExclusiveInv'
  <2>1. /\ \A v \in Workers \ {w} : worker'[v] = worker[v]
        /\ worker'[w].phase = "selected" /\ worker'[w].key = k
    BY <1>0, <1>4 DEF SelectJob, Job
  <2>2. ASSUME NEW j \in Keys, Loyal(k), Loyal(j), Home[j] = Home[k]
        PROVE  row[j].state # "running"
    <3>1. row[k].provider = Home[k] /\ row[j].provider = Home[k] /\ Home[k] # NoProvider
      BY <2>2 DEF Loyal
    <3> QED
      BY <1>4, <3>1 DEF SelectJob, Claimable, ProviderIsDue
  <2>3. UNCHANGED <<row, claimLock>> /\ claimLock = w
    BY <1>4 DEF SelectJob, At
  <2>4. SelectedAlone'
    BY <2>1, <2>2, <2>3 DEF SelectedAlone, Loyal
  <2>5. ProviderExclusive' /\ LoyalRows'
    BY <2>3 DEF ProviderExclusive, Loyal
  <2> QED
    BY <2>1, <2>3, <2>4, <2>5
<1>5. CASE ClaimJob(w)
  <2> DEFINE k == worker[w].key
  <2>1. k \in Keys /\ claimLock = w /\ worker[w].phase = "selected"
    BY <1>5 DEF ClaimJob, At, TypeInv, TypeOK, Job
  <2>2. /\ \A j \in Keys \ {k} : row'[j] = row[j]
        /\ row'[k].provider = row[k].provider
    BY <1>0, <1>5, <2>1 DEF ClaimJob, TypeInv, TypeOK, Row
  <2>3. /\ \A v \in Workers \ {w} : worker'[v] = worker[v]
        /\ worker'[w].phase = "running"
    BY <1>0, <1>5 DEF ClaimJob, Job
  <2>4. \A v \in Workers : worker'[v].phase \notin {"claiming", "selected"}
    BY <2>1, <2>3
  <2> HIDE DEF k
  <2>5. LoyalRows'
    BY <2>2 DEF Loyal
  <2>6. ASSUME NEW j \in Keys \ {k}, Loyal(j), Loyal(k), Home[j] = Home[k]
        PROVE  row[j].state # "running"
    BY <2>1, <2>6 DEF SelectedAlone, k
  <2>7. ProviderExclusive'
    BY <2>2, <2>6 DEF ProviderExclusive, Loyal
  <2>8. SelectedAlone'
    BY <2>4 DEF SelectedAlone
  <2> QED
    BY <2>4, <2>5, <2>7, <2>8
<1> QED
  BY <1>1, <1>2, <1>3, <1>4, <1>5 DEF Claiming

LEMMA ExclusiveInit == Init => ExclusiveInv
<1> SUFFICES ASSUME Init PROVE ExclusiveInv
  OBVIOUS
<1>1. \A w \in Workers : worker[w].phase = "idle"
  BY DEF Init, Idle
<1>2. ASSUME NEW k \in Keys
      PROVE  row[k].state # "running" /\ row[k].provider = Home[k]
  BY FirstRows DEF Init
<1> QED
  BY <1>1, <1>2 DEF ExclusiveInv, ProviderExclusive, SelectedAlone, ClaimsUnderLock, LoyalRows

LEMMA ExclusiveNext == TypeInv /\ ExclusiveInv /\ [Next]_vars => ExclusiveInv'
<1> SUFFICES ASSUME TypeInv, ExclusiveInv, [Next]_vars PROVE ExclusiveInv'
  OBVIOUS
<1>1. ASSUME NEW k \in Keys, LeaseExpires(k) \/ BecomesDue(k)
      PROVE  Calm
  <2>1. \A j \in Keys : row'[j].state = row[j].state /\ row'[j].provider = row[j].provider
    <3>1. row[k] \in Row /\ row \in [Keys -> Row]
      BY DEF TypeInv, TypeOK
    <3>2. CASE LeaseExpires(k)
      <4>1. row' = [row EXCEPT ![k] = [@ EXCEPT !.live = FALSE]]
        BY <3>2 DEF LeaseExpires
      <4> QED
        BY <3>1, <4>1 DEF Row
    <3>3. CASE BecomesDue(k)
      <4>1. row' = [row EXCEPT ![k] = [@ EXCEPT !.due = TRUE]]
        BY <3>3 DEF BecomesDue
      <4> QED
        BY <3>1, <4>1 DEF Row
    <3> QED
      BY <1>1, <3>2, <3>3
  <2>2. UNCHANGED <<worker, claimLock>>
    BY <1>1 DEF LeaseExpires, BecomesDue
  <2> QED
    BY <2>1, <2>2 DEF Calm, ExclusiveInv, ClaimsUnderLock, LoyalRows, Loyal
<1>2. CASE UNCHANGED vars
  BY <1>2 DEF vars, ExclusiveInv, ProviderExclusive, SelectedAlone, ClaimsUnderLock,
              LoyalRows, Loyal
<1> QED
  BY <1>1, <1>2, CalmSteps, CalmRequest, CalmProvider, CalmSettling, CalmExecuting,
     CalmProcess, ExclusiveClaiming DEF Next

\* Two jobs that only use one and the same provider are never both running:
\* claim_background_job honours the provider's running job although it reads
\* and claims in separate statements.
THEOREM ProviderIsExclusive == Spec => []ProviderExclusive
<1>1. ExclusiveInv => ProviderExclusive
  BY DEF ExclusiveInv
<1> QED
  BY <1>1, TypeInit, TypeNext, ExclusiveInit, ExclusiveNext, PTL DEF Spec

-----------------------------------------------------------------------------
(***************************************************************************)
(* Bounded attempts.  Late writes of a disowned worker may hit a row in    *)
(* any state, so the invariant also bounds what such a worker has read and *)
(* what every owned row counts.                                            *)
(***************************************************************************)
RowBudget(k, r) ==
    r.state \in Active \/ r.owner # Nobody => r.attempts < MaxAttempts[k]

JobBudget(job) ==
    /\ job.phase \in {"settling", "committing"} => job.outcome # "wait"
    /\ job.phase = "committing" => job.attempts < MaxAttempts[job.key]

BudgetInv ==
    /\ \A k \in Keys : Local(k) => RowBudget(k, row[k])
    /\ \A w \in Workers : worker[w].key \in Keys /\ Local(worker[w].key)
                             => JobBudget(worker[w])

\* No row operator spends more than the budget.
LEMMA BudgetRows ==
    ASSUME NEW k \in Keys, NEW r \in Row, RowBudget(k, r)
    PROVE  /\ RowBudget(k, Absent(k)) /\ RowBudget(k, Fresh(k))
           /\ RowBudget(k, Restarted(r)) /\ RowBudget(k, Reopened(r))
           /\ RowBudget(k, Enqueued(k, r))
           /\ \A force : RowBudget(k, Rearmed(k, force, r))
           /\ RowBudget(k, Recovered(k, r)) /\ RowBudget(k, Released(r))
           /\ RowBudget(k, Orphaned(r))
<1> 0 < MaxAttempts[k] /\ MaxAttempts[k] \in Nat
  BY KeysAssumption
<1>1. /\ RowBudget(k, Absent(k)) /\ RowBudget(k, Fresh(k))
      /\ RowBudget(k, Restarted(r)) /\ RowBudget(k, Reopened(r))
      /\ Restarted(r) \in Row
  BY RowOperators DEF RowBudget, Absent, Fresh, Restarted, Reopened, Row
<1>2. RowBudget(k, Enqueued(k, r))
  BY <1>1 DEF Enqueued, RowBudget, Row
<1>3. ASSUME NEW force PROVE RowBudget(k, Rearmed(k, force, r))
  BY <1>1, <1>2 DEF Rearmed, RowBudget, Row
<1>4. RowBudget(k, Recovered(k, r))
  <2> DEFINE n == Bump(k, r.attempts)
             s == IF n >= MaxAttempts[k] THEN "failed" ELSE "retrying"
             u == [r EXCEPT !.state = s, !.attempts = n, !.due = TRUE]
  <2>1. n \in Nat /\ (s = "failed" \/ n < MaxAttempts[k])
    BY DEF Bump, Row
  <2>2. Recovered(k, r) = IF r.state = "running" /\ ~r.live THEN Unleased(u) ELSE r
    BY DEF Recovered
  <2> HIDE DEF n, s
  <2>3. Unleased(u).state = s /\ Unleased(u).attempts = n /\ Unleased(u).owner = Nobody
    BY DEF Unleased, Row
  <2> QED
    BY <2>1, <2>2, <2>3 DEF RowBudget, Active, Queued
<1>5. RowBudget(k, Released(r))
  <2> DEFINE u == Unleased([r EXCEPT !.state = "retrying", !.due = TRUE])
  <2>1. u.attempts = r.attempts /\ u.owner = Nobody
    BY DEF Unleased, Row
  <2>2. Released(r) = IF r.state = "running" /\ r.owner \in Workers THEN u ELSE r
    BY DEF Released
  <2> HIDE DEF u
  <2> QED
    BY <2>1, <2>2 DEF RowBudget, Active
<1>6. RowBudget(k, Orphaned(r))
  BY DEF Orphaned, RowBudget, Row
<1> QED
  BY <1>1, <1>2, <1>3, <1>4, <1>5, <1>6

\* Neither does the update of a handler, or of a worker settling a local job.
LEMMA BudgetWrites ==
    ASSUME NEW k \in Keys, NEW r \in Row, RowBudget(k, r)
    PROVE  /\ \A op \in {"cancel", "retry", "retryByKey", "revisit"} :
                 RowBudget(k, HandlerWrites(op, r))
           /\ \A job \in Job :
                 /\ job.outcome \notin {"none", "wait"} /\ job.attempts < MaxAttempts[k]
                 => RowBudget(k, Settled(k, job, r))
<1> 0 < MaxAttempts[k] /\ MaxAttempts[k] \in Nat
  BY KeysAssumption
<1>1. ASSUME NEW op \in {"cancel", "retry", "retryByKey", "revisit"}
      PROVE  RowBudget(k, HandlerWrites(op, r))
  <2>1. CASE op = "cancel"
    <3>1. /\ HandlerWrites(op, r).state = "cancelled"
          /\ HandlerWrites(op, r).owner = Nobody
      BY <2>1 DEF HandlerWrites, Unleased, Row
    <3> QED
      BY <3>1 DEF RowBudget, Active, Queued
  <2>2. CASE op # "cancel"
    BY <2>2, BudgetRows DEF HandlerWrites
  <2> QED
    BY <2>1, <2>2
<1>2. ASSUME NEW job \in Job, job.outcome \notin {"none", "wait"},
             job.attempts < MaxAttempts[k]
      PROVE  RowBudget(k, Settled(k, job, r))
  <2>1. Unleased(r) \in Row /\ Unleased(r).owner = Nobody
    BY RowOperators DEF Unleased, Row
  <2>2. /\ Settled(k, job, r).state = SettledState(k, job)
        /\ Settled(k, job, r).attempts = SettledAttempts(k, job, r)
        /\ Settled(k, job, r).owner = Nobody
    BY <2>1 DEF Settled, Row
  <2>3. job.outcome \in {"complete", "fail", "retry", "defer"} /\ job.attempts \in Nat
    BY <1>2 DEF Job, Outcomes
  <2>4. SettledState(k, job) \in Active => SettledAttempts(k, job, r) < MaxAttempts[k]
    BY <1>2, <2>3 DEF SettledState, SettledAttempts, Exhausted, Bump, Active, Queued
  <2> QED
    BY <2>2, <2>4 DEF RowBudget
<1> QED
  BY <1>1, <1>2

\* A step that keeps the rows within budget and starts no settling.
LEMMA BudgetFrame ==
    ASSUME BudgetInv,
           \A k \in Keys : Local(k) => RowBudget(k, row'[k]),
           \A w \in Workers : \/ worker'[w] = worker[w]
                              \/ worker'[w].phase \notin {"settling", "committing"}
    PROVE  BudgetInv'
BY DEF BudgetInv, JobBudget, RowBudget, Local

LEMMA BudgetRequest ==
    ASSUME TypeInv, BudgetInv, NEW k \in Keys, Request(k)
    PROVE  BudgetInv'
<1> row[k] \in Row /\ row \in [Keys -> Row]
  BY DEF TypeInv, TypeOK
<1>0. Local(k) => RowBudget(k, row[k])
  BY DEF BudgetInv
<1>a. ASSUME UNCHANGED worker, NEW r, row' = [row EXCEPT ![k] = r],
             Local(k) => RowBudget(k, r)
      PROVE  BudgetInv'
  BY <1>a, BudgetFrame DEF BudgetInv
<1>1. CASE Enqueue(k)
  <2>1. PICK due \in BOOLEAN :
           row' = [row EXCEPT ![k] = IF @.state = "absent"
                                     THEN [Fresh(k) EXCEPT !.due = due]
                                     ELSE Enqueued(k, @)]
    BY <1>1 DEF Enqueue
  <2> DEFINE f == [Fresh(k) EXCEPT !.due = due]
  <2>2. Fresh(k) \in Row /\ f.attempts = Fresh(k).attempts /\ Fresh(k).attempts = 0
    BY RowOperators DEF Fresh, Absent, Row
  <2>3. RowBudget(k, f)
    BY <2>2, KeysAssumption DEF RowBudget
  <2> HIDE DEF f
  <2> QED
    BY <1>0, <1>1, <1>a, <2>1, <2>3, BudgetRows DEF Enqueue, f
<1>2. CASE Reactivate(k)
  <2> DEFINE r == IF row[k].state = "completed" THEN Reopened(row[k]) ELSE row[k]
  <2>1. r \in Row /\ (Local(k) => RowBudget(k, r))
    BY <1>0, RowOperators, BudgetRows
  <2>2. row' = [row EXCEPT ![k] = Enqueued(k, r)]
    BY <1>2 DEF Reactivate
  <2> HIDE DEF r
  <2> QED
    BY <1>2, <1>a, <2>1, <2>2, BudgetRows DEF Reactivate
<1>3. CASE Rearm(k)
  <2>1. PICK force \in BOOLEAN : row' = [row EXCEPT ![k] = Rearmed(k, force, @)]
    BY <1>3 DEF Rearm
  <2> QED
    BY <1>0, <1>3, <1>a, <2>1, BudgetRows DEF Rearm
<1>4. ASSUME NEW op \in {"cancel", "retry", "retryByKey", "revisit"}, HandlerRead(op, k)
      PROVE  BudgetInv'
  BY <1>4, BudgetFrame DEF HandlerRead, BudgetInv
<1>5. ASSUME NEW op \in {"cancel", "retry", "retryByKey", "revisit"}, HandlerWrite(op, k)
      PROVE  BudgetInv'
  BY <1>0, <1>5, <1>a, BudgetWrites DEF HandlerWrite
<1>6. CASE Wake(k)
  <2>1. Local(k) => RowBudget(k, Resumed(row[k]))
    BY <1>0, ResumedRow DEF RowBudget, Active, Queued
  <2> QED
    BY <1>6, <1>a, <2>1 DEF Wake
<1> QED
  BY <1>1, <1>2, <1>3, <1>4, <1>5, <1>6 DEF Request

LEMMA BudgetProvider ==
    ASSUME TypeInv, BudgetInv, NEW p \in Providers, Provider(p)
    PROVE  BudgetInv'
<1>1. CASE ResumeWaitingJobs(p)
  <2>1. ASSUME NEW k \in Keys, RowBudget(k, row[k])
        PROVE  RowBudget(k, Resumed(row[k]))
    <3>1. row[k] \in Row
      BY DEF TypeInv, TypeOK
    <3> QED
      BY <2>1, <3>1, ResumedRow DEF RowBudget, Active, Queued
  <2> QED
    BY <1>1, <2>1, BudgetFrame DEF ResumeWaitingJobs, BudgetInv
<1>2. CASE ResumeProvider(p) \/ ProviderTrips(p) \/ CooldownEnds(p)
  BY <1>2, BudgetFrame DEF ResumeProvider, ProviderTrips, CooldownEnds, BudgetInv
<1> QED
  BY <1>1, <1>2 DEF Provider

LEMMA BudgetClaiming ==
    ASSUME TypeInv, BudgetInv, NEW w \in Workers, Claiming(w)
    PROVE  BudgetInv'
<1>0. /\ worker \in [Workers -> Job] /\ worker[w] \in Job
      /\ row \in [Keys -> Row] /\ \A k \in Keys : row[k] \in Row
  BY DEF TypeInv, TypeOK
<1>1. /\ \A v \in Workers \ {w} : worker'[v] = worker[v]
      /\ worker'[w].phase \notin {"settling", "committing"}
  BY <1>0 DEF Claiming, StartRound, RecoverExpired, NothingToClaim, SelectJob, ClaimJob,
              LoseClaim, Idle, Job
<1>2. CASE RecoverExpired(w)
  BY <1>0, <1>1, <1>2, BudgetRows, BudgetFrame DEF RecoverExpired, BudgetInv
<1>3. CASE ClaimJob(w)
  <2> DEFINE k == worker[w].key
             r == [row[k] EXCEPT !.state = "running", !.owner = w, !.live = TRUE]
  <2>1. k \in Keys
    BY <1>3 DEF ClaimJob, At, TypeInv, TypeOK, Job
  <2>2. Local(k) => row[k].attempts < MaxAttempts[k]
    BY <1>3, <2>1 DEF BudgetInv, RowBudget, ClaimJob, Active
  <2>3. r.attempts = row[k].attempts
    BY <1>0, <2>1 DEF Row
  <2>4. row' = [row EXCEPT ![k] = r]
    BY <1>3 DEF ClaimJob
  <2> HIDE DEF k, r
  <2>5. Local(k) => RowBudget(k, r)
    BY <2>2, <2>3 DEF RowBudget
  <2> QED
    BY <1>0, <1>1, <2>1, <2>4, <2>5, BudgetFrame DEF BudgetInv
<1>4. CASE UNCHANGED row
  BY <1>1, <1>4, BudgetFrame DEF BudgetInv
<1> QED
  BY <1>2, <1>3, <1>4 DEF Claiming, StartRound, NothingToClaim, SelectJob, LoseClaim

LEMMA BudgetExecuting ==
    ASSUME TypeInv, BudgetInv, NEW w \in Workers, Executing(w)
    PROVE  BudgetInv'
<1>0. /\ worker \in [Workers -> Job] /\ worker[w] \in Job
      /\ row \in [Keys -> Row] /\ \A k \in Keys : row[k] \in Row
      /\ At(w, "running") => worker[w].key \in Keys
  BY DEF TypeInv, TypeOK, At, Job
<1>1. CASE Heartbeat(w)
  <2> DEFINE k == worker[w].key
  <2>1. k \in Keys /\ row' = [row EXCEPT ![k] = [@ EXCEPT !.live = TRUE]]
    BY <1>0, <1>1 DEF Heartbeat
  <2> HIDE DEF k
  <2>2. RowBudget(k, row[k]) => RowBudget(k, row'[k])
    BY <1>0, <2>1 DEF RowBudget, Row
  <2> QED
    BY <1>0, <1>1, <2>1, <2>2, BudgetFrame DEF BudgetInv, Heartbeat
<1>2. CASE Disowned(w)
  BY <1>0, <1>2, BudgetFrame DEF BudgetInv, Disowned, Idle
<1>3. ASSUME NEW outcome \in Outcomes, OperationEnds(w, outcome)
      PROVE  BudgetInv'
  <2>1. /\ worker'[w].phase = "settling" /\ worker'[w].key = worker[w].key
        /\ Local(worker[w].key) => worker'[w].outcome # "wait"
        /\ \A v \in Workers \ {w} : worker'[v] = worker[v]
    BY <1>0, <1>3 DEF OperationEnds, Job, Local
  <2>2. UNCHANGED row
    BY <1>3 DEF OperationEnds
  <2> QED
    BY <2>1, <2>2 DEF BudgetInv, JobBudget, RowBudget, Local
<1>4. ASSUME NEW outcome \in Outcomes, NEW p \in Providers, ProviderError(w, p, outcome)
      PROVE  BudgetInv'
  <2> DEFINE k == worker[w].key
  <2>1. k \in Keys /\ ~Local(k)
    BY <1>0, <1>4 DEF ProviderError, Local
  <2>2. /\ worker'[w].key = k
        /\ \A v \in Workers \ {w} : worker'[v] = worker[v]
        /\ \A j \in Keys \ {k} : row'[j] = row[j]
    BY <1>0, <1>4 DEF ProviderError, Job
  <2> HIDE DEF k
  <2> QED
    BY <2>1, <2>2 DEF BudgetInv, JobBudget, RowBudget, Local
<1> QED
  BY <1>1, <1>2, <1>3, <1>4 DEF Executing

LEMMA BudgetSettling ==
    ASSUME TypeInv, BudgetInv, NEW w \in Workers, Settling(w)
    PROVE  BudgetInv'
<1>0. /\ worker \in [Workers -> Job] /\ worker[w] \in Job
      /\ row \in [Keys -> Row] /\ \A k \in Keys : row[k] \in Row
      /\ worker[w].phase \in {"settling", "committing"} =>
           worker[w].key \in Keys /\ worker[w].outcome # "none"
  BY DEF TypeInv, TypeOK, OutcomeOK, Job
<1>1. CASE SettleRead(w)
  <2> DEFINE k == worker[w].key
  <2>1. k \in Keys /\ row[k].owner # Nobody /\ worker[w].phase = "settling"
    BY <1>0, <1>1, NamesAssumption DEF SettleRead, At
  <2>2. /\ worker'[w].attempts = row[k].attempts /\ worker'[w].phase = "committing"
        /\ worker'[w].key = k /\ worker'[w].outcome = worker[w].outcome
        /\ \A v \in Workers \ {w} : worker'[v] = worker[v]
        /\ UNCHANGED row
    BY <1>0, <1>1 DEF SettleRead, Job
  <2> HIDE DEF k
  <2>3. Local(k) => row[k].attempts < MaxAttempts[k] /\ worker[w].outcome # "wait"
    BY <2>1 DEF BudgetInv, RowBudget, JobBudget, k
  <2> QED
    BY <2>2, <2>3 DEF BudgetInv, JobBudget, RowBudget, Local
<1>2. CASE SettleIgnored(w) \/ SettleError(w)
  BY <1>0, <1>2, BudgetFrame DEF BudgetInv, SettleIgnored, SettleError, Idle
<1>3. CASE SettleWrite(w)
  <2> DEFINE k == worker[w].key
  <2>1. k \in Keys /\ worker[w].phase = "committing" /\ worker[w].outcome # "none"
    BY <1>0, <1>3 DEF SettleWrite, At
  <2>2. row' = [row EXCEPT ![k] = Settled(k, worker[w], @)]
    BY <1>3 DEF SettleWrite
  <2>3. Local(k) => /\ RowBudget(k, row[k]) /\ worker[w].outcome # "wait"
                    /\ worker[w].attempts < MaxAttempts[k]
    BY <2>1 DEF BudgetInv, JobBudget
  <2>4. Local(k) => RowBudget(k, row'[k])
    BY <1>0, <2>1, <2>2, <2>3, BudgetWrites
  <2>5. worker' = [worker EXCEPT ![w] = Idle] /\ Idle.phase = "idle"
    BY <1>3 DEF SettleWrite, Idle
  <2> HIDE DEF k
  <2> QED
    BY <1>0, <2>1, <2>2, <2>4, <2>5, BudgetFrame DEF BudgetInv
<1> QED
  BY <1>1, <1>2, <1>3 DEF Settling

LEMMA BudgetProcess ==
    ASSUME TypeInv, BudgetInv, Process
    PROVE  BudgetInv'
<1>0. /\ worker \in [Workers -> Job]
      /\ row \in [Keys -> Row] /\ \A k \in Keys : row[k] \in Row
  BY DEF TypeInv, TypeOK
<1>1. CASE StopSignal \/ \E w \in Workers : WorkerStops(w)
  <2>1. \A v \in Workers : \/ worker'[v] = worker[v]
                           \/ worker'[v].phase \notin {"settling", "committing"}
    BY <1>0, <1>1 DEF StopSignal, WorkerStops, Gone, Idle
  <2>2. UNCHANGED row
    BY <1>1 DEF StopSignal, WorkerStops
  <2> QED
    BY <2>1, <2>2, BudgetFrame DEF BudgetInv
<1>2. ASSUME NEW table \in [Keys -> Row], Exit(table),
             \A k \in Keys : Local(k) => RowBudget(k, table[k])
      PROVE  BudgetInv'
  <2>1. \A v \in Workers : worker'[v].phase = "gone"
    BY <1>2 DEF Exit, Gone, Idle
  <2>2. \A k \in Keys : Local(k) => RowBudget(k, row'[k])
    BY <1>2, BudgetRows DEF Exit
  <2> QED
    BY <2>1, <2>2, BudgetFrame
<1>3. CASE ShutdownInTime
  <2>1. [k \in Keys |-> Released(row[k])] \in [Keys -> Row]
    BY <1>0, RowOperators
  <2>2. \A k \in Keys : Local(k) => RowBudget(k, Released(row[k]))
    BY <1>0, BudgetRows DEF BudgetInv
  <2> QED
    BY <1>2, <1>3, <2>1, <2>2 DEF ShutdownInTime
<1>4. CASE ShutdownTimesOut \/ Crash
  BY <1>0, <1>2, <1>4 DEF ShutdownTimesOut, Crash, BudgetInv
<1>5. CASE Start
  <2>1. PICK pruned : row' = [k \in Keys |-> Booted(k, pruned)]
    BY <1>5 DEF Start
  <2>2. ASSUME NEW k \in Keys, Local(k)
        PROVE  RowBudget(k, Booted(k, pruned))
    <3> DEFINE r == IF k \in pruned THEN Absent(k) ELSE Recovered(k, row[k])
    <3>1. r \in Row
      BY <1>0, RowOperators
    <3>2. RowBudget(k, r)
      BY <1>0, <2>2, BudgetRows DEF BudgetInv
    <3>3. Booted(k, pruned) = IF k \in BootKeys THEN Enqueued(k, r) ELSE r
      BY <2>2 DEF Booted, Local
    <3> HIDE DEF r
    <3> QED
      BY <3>1, <3>2, <3>3, BudgetRows
  <2>3. \A v \in Workers : worker'[v].phase = "idle"
    BY <1>5 DEF Start, Idle
  <2> QED
    BY <2>1, <2>2, <2>3, BudgetFrame
<1> QED
  BY <1>1, <1>3, <1>4, <1>5 DEF Process

LEMMA BudgetInit == Init => BudgetInv
<1> SUFFICES ASSUME Init PROVE BudgetInv
  OBVIOUS
<1>1. \A w \in Workers : worker[w].phase = "idle"
  BY DEF Init, Idle
<1>2. ASSUME NEW k \in Keys PROVE row[k].attempts = 0
  BY FirstRows DEF Init
<1> QED
  BY <1>1, <1>2, KeysAssumption DEF BudgetInv, RowBudget, JobBudget

LEMMA BudgetNext == TypeInv /\ BudgetInv /\ [Next]_vars => BudgetInv'
<1> SUFFICES ASSUME TypeInv, BudgetInv, [Next]_vars PROVE BudgetInv'
  OBVIOUS
<1>1. ASSUME NEW k \in Keys, LeaseExpires(k) \/ BecomesDue(k)
      PROVE  BudgetInv'
  <2>1. row[k] \in Row /\ row \in [Keys -> Row]
    BY DEF TypeInv, TypeOK
  <2>2. PICK r : /\ row' = [row EXCEPT ![k] = r]
                 /\ r.state = row[k].state /\ r.owner = row[k].owner
                 /\ r.attempts = row[k].attempts
    <3>1. CASE LeaseExpires(k)
      <4> WITNESS [row[k] EXCEPT !.live = FALSE]
      <4> QED
        BY <2>1, <3>1 DEF LeaseExpires, Row
    <3>2. CASE BecomesDue(k)
      <4> WITNESS [row[k] EXCEPT !.due = TRUE]
      <4> QED
        BY <2>1, <3>2 DEF BecomesDue, Row
    <3> QED
      BY <1>1, <3>1, <3>2
  <2>3. UNCHANGED worker
    BY <1>1 DEF LeaseExpires, BecomesDue
  <2> QED
    BY <2>1, <2>2, <2>3, BudgetFrame DEF BudgetInv, RowBudget
<1>2. CASE UNCHANGED vars
  BY <1>2, BudgetFrame DEF vars, BudgetInv
<1> QED
  BY <1>1, <1>2, BudgetRequest, BudgetProvider, BudgetClaiming, BudgetExecuting,
     BudgetSettling, BudgetProcess DEF Next

\* A job that never waits is not executed more than max_attempts times between
\* two user requests, whatever late writes, expired leases, crashes and
\* restarts do to its row.
THEOREM AttemptsAreBounded == Spec => []AttemptBudget
<1>1. BudgetInv => AttemptBudget
  BY DEF BudgetInv, RowBudget, AttemptBudget
<1> QED
  BY <1>1, TypeInit, TypeNext, BudgetInit, BudgetNext, PTL DEF Spec
-----------------------------------------------------------------------------
(***************************************************************************)
(* The refinement of JobContract.  Besides its type, the queue has to      *)
(* remember that a process that ended left no worker behind: a start is a  *)
(* Boot of the contract only when nobody owes a report.                    *)
(***************************************************************************)
DownIsEmpty == mode = "down" => \A w \in Workers : worker[w].phase = "gone"

\* Only Exit, which leaves every worker gone, brings the process down, and no
\* worker moves before the next start.
LEMMA DownNext == TypeInv /\ DownIsEmpty /\ [Next]_vars => DownIsEmpty'
<1> SUFFICES ASSUME TypeInv, DownIsEmpty, [Next]_vars PROVE DownIsEmpty'
  OBVIOUS
<1>0. worker \in [Workers -> Job]
  BY DEF TypeInv, TypeOK
<1>1. ASSUME NEW table, Exit(table)
      PROVE  DownIsEmpty'
  <2>1. \A w \in Workers : worker'[w] = Gone
    BY <1>1 DEF Exit
  <2> QED
    BY <2>1 DEF DownIsEmpty, Gone, Idle
<1>2. CASE ShutdownInTime \/ ShutdownTimesOut \/ Crash
  BY <1>1, <1>2 DEF ShutdownInTime, ShutdownTimesOut, Crash
<1>3. CASE Start \/ StopSignal
  BY <1>3 DEF Start, StopSignal, DownIsEmpty
<1>4. CASE \E w \in Workers : WorkerStops(w)
  BY <1>4 DEF WorkerStops, DownIsEmpty
<1>5. ASSUME NEW k \in Keys, Request(k) \/ LeaseExpires(k) \/ BecomesDue(k)
      PROVE  DownIsEmpty'
  <2>1. UNCHANGED <<worker, mode>>
    BY <1>5 DEF Request, Enqueue, Reactivate, Rearm, Wake, HandlerRead, HandlerWrite,
                LeaseExpires, BecomesDue
  <2> QED
    BY <2>1 DEF DownIsEmpty
<1>6. ASSUME NEW w \in Workers, Claiming(w) \/ Executing(w) \/ Settling(w)
      PROVE  DownIsEmpty'
  <2>1. mode # "down" /\ UNCHANGED mode
    <3>1. CASE Claiming(w)
      BY <3>1 DEF Claiming, StartRound, RecoverExpired, NothingToClaim, SelectJob,
                  ClaimJob, LoseClaim
    <3>2. CASE Executing(w)
      BY <3>2 DEF Executing, Heartbeat, Disowned, OperationEnds, ProviderError
    <3>3. CASE Settling(w)
      BY <3>3 DEF Settling, SettleRead, SettleIgnored, SettleWrite, SettleError
    <3> QED
      BY <1>6, <3>1, <3>2, <3>3
  <2> QED
    BY <2>1 DEF DownIsEmpty
<1>7. ASSUME NEW p \in Providers, Provider(p)
      PROVE  DownIsEmpty'
  <2>1. UNCHANGED <<worker, mode>>
    BY <1>7 DEF Provider, ResumeProvider, ResumeWaitingJobs, ProviderTrips, CooldownEnds
  <2> QED
    BY <2>1 DEF DownIsEmpty
<1>8. CASE UNCHANGED vars
  BY <1>8 DEF DownIsEmpty, vars
<1> QED
  BY <1>2, <1>3, <1>4, <1>5, <1>6, <1>7, <1>8 DEF Next, Process

\* The two halves of the refinement mapping.
LEMMA StatusValues ==
    ASSUME NEW r
    PROVE  /\ r.state = "absent" => StatusOf(r) = "none"
           /\ r.state \in Queued => StatusOf(r) = "queued"
           /\ r.state = "running" => StatusOf(r) = "held"
           /\ r.state = "waiting" => StatusOf(r) = "parked"
           /\ r.state \in Terminal => StatusOf(r) = "closed"
           /\ r \in Row => StatusOf(r) \in Contract!Statuses
<1>1. r \in Row => r.state \in States
  BY DEF Row
<1> QED
  BY <1>1 DEF StatusOf, Queued, Terminal, States, Active, Contract!Statuses

LEMMA OwedValues ==
    ASSUME NEW job
    PROVE  /\ job.phase \in {"running", "settling", "committing"} => Owed(job) = job.key
           /\ job.phase \notin {"running", "settling", "committing"} => Owed(job) = NoKey
           /\ Owed(Idle) = NoKey /\ Owed(Gone) = NoKey
BY DEF Owed, Idle, Gone

\* Both sides of the contract, as functions.
StatusTable == [k \in Keys |-> StatusOf(row[k])]
ClaimTable == [w \in Workers |-> Owed(worker[w])]

\* A step that moves one row moves one status, and so for the workers.
LEMMA OneStatus ==
    ASSUME row \in [Keys -> Row], NEW k \in Keys, NEW r, row' = [row EXCEPT ![k] = r]
    PROVE  StatusTable' = [StatusTable EXCEPT ![k] = StatusOf(r)]
<1>1. row'[k] = r /\ \A j \in Keys \ {k} : row'[j] = row[j]
  OBVIOUS
<1>2. StatusTable' = [j \in Keys |-> StatusOf(row'[j])]
  BY DEF StatusTable
<1>3. \A j \in Keys : StatusOf(row'[j]) = IF j = k THEN StatusOf(r) ELSE StatusOf(row[j])
  BY <1>1
<1> QED
  BY <1>2, <1>3 DEF StatusTable

LEMMA OneClaim ==
    ASSUME worker \in [Workers -> Job], NEW w \in Workers, NEW job,
           worker' = [worker EXCEPT ![w] = job]
    PROVE  ClaimTable' = [ClaimTable EXCEPT ![w] = Owed(job)]
<1>1. worker'[w] = job /\ \A v \in Workers \ {w} : worker'[v] = worker[v]
  OBVIOUS
<1>2. ClaimTable' = [v \in Workers |-> Owed(worker'[v])]
  BY DEF ClaimTable
<1>3. \A v \in Workers : Owed(worker'[v]) = IF v = w THEN Owed(job) ELSE Owed(worker[v])
  BY <1>1
<1> QED
  BY <1>2, <1>3 DEF ClaimTable

LEMMA Stutter ==
    ASSUME \A k \in Keys : StatusOf(row'[k]) = StatusOf(row[k]),
           \A w \in Workers : Owed(worker'[w]) = Owed(worker[w])
    PROVE  UNCHANGED Contract!contractVars
BY DEF Contract!contractVars

\* What another component or the user does to one row is a Submit, a Close, a
\* Reopen, or nothing the contract sees.
LEMMA OneRow ==
    ASSUME TypeInv, NEW k \in Keys, NEW r,
           row' = [row EXCEPT ![k] = r], UNCHANGED worker,
           \/ StatusOf(r) = StatusOf(row[k])
           \/ row[k].state = "absent" /\ StatusOf(r) = "queued"
           \/ row[k].state # "absent" /\ StatusOf(r) \in {"queued", "closed"}
    PROVE  [Contract!Next]_(Contract!contractVars)
<1>1. row \in [Keys -> Row] /\ row[k].state \in States
  BY DEF TypeInv, TypeOK, Row
<1>2. row'[k] = r /\ \A j \in Keys \ {k} : row'[j] = row[j]
  BY <1>1
<1>3. StatusOf(row[k]) = "none" <=> row[k].state = "absent"
  BY <1>1 DEF StatusOf, Queued, Terminal, States, Active
<1>0. StatusTable' = [StatusTable EXCEPT ![k] = StatusOf(r)] /\ ClaimTable' = ClaimTable
  BY <1>1, OneStatus DEF ClaimTable
<1>4. CASE StatusOf(r) = StatusOf(row[k])
  BY <1>2, <1>4, Stutter
<1>5. CASE row[k].state = "absent" /\ StatusOf(r) = "queued"
  <2>1. Contract!Submit(k)
    BY <1>0, <1>3, <1>5 DEF Contract!Submit, StatusTable, ClaimTable
  <2> QED
    BY <2>1 DEF Contract!Next
<1>6. CASE row[k].state # "absent" /\ StatusOf(r) = "queued"
  <2>1. Contract!Reopen(k)
    BY <1>0, <1>3, <1>6 DEF Contract!Reopen, StatusTable, ClaimTable
  <2> QED
    BY <2>1 DEF Contract!Next
<1>7. CASE row[k].state # "absent" /\ StatusOf(r) = "closed"
  <2>1. Contract!Close(k)
    BY <1>0, <1>3, <1>7 DEF Contract!Close, StatusTable, ClaimTable
  <2> QED
    BY <2>1 DEF Contract!Next
<1> QED
  BY <1>4, <1>5, <1>6, <1>7

\* States the row operators leave.
LEMMA StatesLeft ==
    ASSUME NEW k \in Keys, NEW r \in Row
    PROVE  /\ Absent(k).state = "absent" /\ Fresh(k).state = "pending"
           /\ Restarted(r).state = "pending" /\ Reopened(r).state = "pending"
           /\ Unleased(r).state = r.state /\ Orphaned(r).state = r.state
           /\ r.state = "absent" => Enqueued(k, r).state = "pending"
           /\ r.state # "absent" => Enqueued(k, r).state = r.state
           /\ \/ Recovered(k, r) = r
              \/ r.state = "running" /\ Recovered(k, r).state \in {"failed", "retrying"}
           /\ \/ Released(r) = r
              \/ r.state = "running" /\ Released(r).state = "retrying"
<1>1. Absent(k).state = "absent" /\ Fresh(k).state = "pending"
        /\ Restarted(r).state = "pending" /\ Reopened(r).state = "pending"
        /\ Unleased(r).state = r.state /\ Orphaned(r).state = r.state
  BY DEF Absent, Fresh, Restarted, Reopened, Unleased, Orphaned, Row
<1>2. /\ r.state = "absent" => Enqueued(k, r).state = "pending"
      /\ r.state # "absent" => Enqueued(k, r).state = r.state
  BY <1>1 DEF Enqueued, Row
<1>3. \/ Recovered(k, r) = r
      \/ r.state = "running" /\ Recovered(k, r).state \in {"failed", "retrying"}
  <2> DEFINE n == Bump(k, r.attempts)
             s == IF n >= MaxAttempts[k] THEN "failed" ELSE "retrying"
             u == [r EXCEPT !.state = s, !.attempts = n, !.due = TRUE]
  <2>1. Recovered(k, r) = IF r.state = "running" /\ ~r.live THEN Unleased(u) ELSE r
    BY DEF Recovered
  <2>2. s \in {"failed", "retrying"}
    OBVIOUS
  <2> HIDE DEF n, s
  <2>3. Unleased(u).state = s
    BY DEF Unleased, Row
  <2> QED
    BY <2>1, <2>2, <2>3
<1>4. \/ Released(r) = r
      \/ r.state = "running" /\ Released(r).state = "retrying"
  BY DEF Released, Unleased, Row
<1> QED
  BY <1>1, <1>2, <1>3, <1>4

\* A request is one row's update, or only a handler's read.
LEMMA ContractRequest ==
    ASSUME TypeInv, NEW k \in Keys, Request(k)
    PROVE  [Contract!Next]_(Contract!contractVars)
<1>0. row[k] \in Row /\ row[k].state \in States
  BY DEF TypeInv, TypeOK, Row
<1>a. StatusOf(Enqueued(k, row[k])) =
        IF row[k].state = "absent" THEN "queued" ELSE StatusOf(row[k])
  <2>1. CASE row[k].state = "absent"
    BY <1>0, <2>1, StatesLeft, StatusValues DEF Queued
  <2>2. CASE row[k].state # "absent"
    <3>1. Enqueued(k, row[k]).state = row[k].state
      BY <1>0, <2>2, StatesLeft
    <3>2. \A r, s : r.state = s.state => StatusOf(r) = StatusOf(s)
      BY DEF StatusOf
    <3> QED
      BY <2>2, <3>1, <3>2
  <2> QED
    BY <2>1, <2>2
<1>1. CASE Enqueue(k)
  <2>1. PICK due \in BOOLEAN :
           row' = [row EXCEPT ![k] = IF row[k].state = "absent"
                                     THEN [Fresh(k) EXCEPT !.due = due]
                                     ELSE Enqueued(k, row[k])]
    BY <1>1 DEF Enqueue
  <2> DEFINE f == [Fresh(k) EXCEPT !.due = due]
  <2>2. Fresh(k) \in Row /\ Fresh(k).state = "pending"
    BY <1>0, RowOperators, StatesLeft
  <2>3. f.state = "pending"
    BY <2>2 DEF Row
  <2> HIDE DEF f
  <2>4. StatusOf(f) = "queued"
    BY <2>3, StatusValues DEF Queued
  <2>5. UNCHANGED worker
    BY <1>1 DEF Enqueue
  <2>6. CASE row[k].state = "absent"
    BY <2>1, <2>4, <2>5, <2>6, OneRow DEF f
  <2>7. CASE row[k].state # "absent"
    BY <1>a, <2>1, <2>5, <2>7, OneRow
  <2> QED
    BY <2>6, <2>7
<1>2. CASE Reactivate(k)
  <2> DEFINE r == IF row[k].state = "completed" THEN Reopened(row[k]) ELSE row[k]
  <2>1. row' = [row EXCEPT ![k] = Enqueued(k, r)] /\ UNCHANGED worker
    BY <1>2 DEF Reactivate
  <2>2. CASE row[k].state = "completed"
    <3>1. r \in Row /\ r.state = "pending"
      BY <1>0, <2>2, RowOperators, StatesLeft
    <3>2. StatusOf(Enqueued(k, r)) = "queued"
      BY <3>1, StatesLeft, StatusValues DEF Queued
    <3> HIDE DEF r
    <3> QED
      BY <2>1, <2>2, <3>2, OneRow
  <2>3. CASE row[k].state # "completed"
    <3>1. r = row[k]
      BY <2>3
    <3> HIDE DEF r
    <3> QED
      BY <1>a, <2>1, <3>1, OneRow
  <2> QED
    BY <2>2, <2>3
<1>3. CASE Rearm(k)
  <2>1. PICK force \in BOOLEAN : row' = [row EXCEPT ![k] = Rearmed(k, force, row[k])]
    BY <1>3 DEF Rearm
  <2>2. UNCHANGED worker
    BY <1>3 DEF Rearm
  <2>3. CASE row[k].state # "absent" /\ (force \/ row[k].state \in Terminal)
    <3> DEFINE r == [Restarted(row[k]) EXCEPT !.provider = Home[k]]
    <3>1. Restarted(row[k]) \in Row /\ Restarted(row[k]).state = "pending"
      BY <1>0, RowOperators, StatesLeft
    <3>2. r.state = "pending"
      BY <3>1 DEF Row
    <3>3. row' = [row EXCEPT ![k] = r]
      BY <2>1, <2>3 DEF Rearmed
    <3> HIDE DEF r
    <3>4. StatusOf(r) = "queued"
      BY <3>2, StatusValues DEF Queued
    <3> QED
      BY <2>2, <2>3, <3>3, <3>4, OneRow
  <2>4. CASE ~(row[k].state # "absent" /\ (force \/ row[k].state \in Terminal))
    <3>1. row' = [row EXCEPT ![k] = Enqueued(k, row[k])]
      BY <2>1, <2>4 DEF Rearmed
    <3> QED
      BY <1>a, <2>2, <3>1, OneRow
  <2> QED
    BY <2>3, <2>4
<1>4. ASSUME NEW op \in {"cancel", "retry", "retryByKey", "revisit"}, HandlerRead(op, k)
      PROVE  [Contract!Next]_(Contract!contractVars)
  BY <1>4, Stutter DEF HandlerRead
<1>5. ASSUME NEW op \in {"cancel", "retry", "retryByKey", "revisit"}, HandlerWrite(op, k)
      PROVE  [Contract!Next]_(Contract!contractVars)
  <2> DEFINE r == HandlerWrites(op, row[k])
  <2>1. row[k].state # "absent" /\ row' = [row EXCEPT ![k] = r] /\ UNCHANGED worker
    BY <1>5 DEF HandlerWrite
  <2>2. r.state \in {"cancelled", "pending"}
    <3>1. CASE op = "cancel"
      <4> DEFINE c == [row[k] EXCEPT !.state = "cancelled"]
      <4>1. r = Unleased(c)
        BY <3>1 DEF HandlerWrites
      <4>2. c \in Row /\ c.state = "cancelled"
        BY <1>0 DEF Row, States, Terminal
      <4> HIDE DEF c
      <4> QED
        BY <4>1, <4>2, StatesLeft
    <3>2. CASE op # "cancel"
      BY <1>0, <3>2, StatesLeft DEF HandlerWrites
    <3> QED
      BY <3>1, <3>2
  <2> HIDE DEF r
  <2>3. StatusOf(r) \in {"queued", "closed"}
    BY <2>2, StatusValues DEF Queued, Terminal
  <2> QED
    BY <2>1, <2>3, OneRow
<1>6. CASE Wake(k)
  <2>1. /\ row' = [row EXCEPT ![k] = Resumed(row[k])] /\ UNCHANGED worker
        /\ row[k].state = "waiting"
    BY <1>6 DEF Wake
  <2>2. StatusOf(Resumed(row[k])) = "queued"
    BY <1>0, <2>1, ResumedRow, StatusValues DEF Queued
  <2> QED
    BY <2>1, <2>2, OneRow
<1> QED
  BY <1>1, <1>2, <1>3, <1>4, <1>5, <1>6 DEF Request

\* Resuming a provider unparks its jobs; nothing else about a provider is
\* visible.
LEMMA ContractProvider ==
    ASSUME TypeInv, NEW p \in Providers, Provider(p)
    PROVE  [Contract!Next]_(Contract!contractVars)
<1>1. CASE ResumeWaitingJobs(p)
  <2>1. \A k \in Keys :
           \/ StatusOf(row'[k]) = StatusOf(row[k])
           \/ StatusOf(row[k]) = "parked" /\ StatusOf(row'[k]) = "queued"
    <3> SUFFICES ASSUME NEW k \in Keys
                 PROVE  \/ StatusOf(row'[k]) = StatusOf(row[k])
                        \/ StatusOf(row[k]) = "parked" /\ StatusOf(row'[k]) = "queued"
      OBVIOUS
    <3>1. row[k] \in Row
      BY DEF TypeInv, TypeOK
    <3>2. \/ row'[k] = row[k]
          \/ row[k].state = "waiting" /\ row'[k].state = "pending"
      BY <1>1, <3>1, ResumedRow DEF ResumeWaitingJobs, Resumed
    <3> QED
      BY <3>2, StatusValues DEF Queued
  <2>2. \A k \in Keys : row[k] \in Row
    BY DEF TypeInv, TypeOK
  <2>3. \A k \in Keys : StatusOf(row'[k]) \in Contract!Statuses
    BY <2>1, <2>2, StatusValues DEF Contract!Statuses
  <2>4. UNCHANGED worker
    BY <1>1 DEF ResumeWaitingJobs
  <2>5. Contract!Unpark
    BY <2>1, <2>3, <2>4 DEF Contract!Unpark
  <2> QED
    BY <2>5 DEF Contract!Next
<1>2. CASE ResumeProvider(p) \/ ProviderTrips(p) \/ CooldownEnds(p)
  BY <1>2, Stutter DEF ResumeProvider, ProviderTrips, CooldownEnds
<1> QED
  BY <1>1, <1>2 DEF Provider

\* Claiming is Reclaim, then Grant; the steps between them are internal.
LEMMA ContractClaiming ==
    ASSUME TypeInv, NEW w \in Workers, Claiming(w)
    PROVE  [Contract!Next]_(Contract!contractVars)
<1>0. /\ worker \in [Workers -> Job] /\ row \in [Keys -> Row]
      /\ \A k \in Keys : row[k] \in Row
      /\ worker[w].phase = "selected" => worker[w].key \in Keys
  BY DEF TypeInv, TypeOK, Job
<1>1. ASSUME UNCHANGED row, worker[w].phase \notin {"running", "settling", "committing"},
             worker'[w].phase \notin {"running", "settling", "committing"},
             \A v \in Workers \ {w} : worker'[v] = worker[v]
      PROVE  [Contract!Next]_(Contract!contractVars)
  <2>1. Owed(worker[w]) = NoKey /\ Owed(worker'[w]) = NoKey
    BY <1>1 DEF Owed
  <2>2. \A v \in Workers : Owed(worker'[v]) = Owed(worker[v])
    BY <1>1, <2>1
  <2> QED
    BY <1>1, <2>2, Stutter
<1>2. CASE StartRound(w) \/ NothingToClaim(w) \/ (\E k \in Keys : SelectJob(w, k)) \/ LoseClaim(w)
  <2>1. \A v \in Workers \ {w} : worker'[v] = worker[v]
    BY <1>0, <1>2 DEF StartRound, NothingToClaim, SelectJob, LoseClaim
  <2>2. worker[w].phase \in {"idle", "claiming", "selected"} /\ UNCHANGED row
    BY <1>2 DEF StartRound, NothingToClaim, SelectJob, LoseClaim, At
  <2>3. worker'[w].phase \in {"asking", "idle", "selected", "claiming"}
    BY <1>0, <1>2 DEF StartRound, NothingToClaim, SelectJob, LoseClaim, Idle, Job
  <2> QED
    BY <1>1, <2>1, <2>2, <2>3
<1>3. CASE RecoverExpired(w)
  <2>1. \A k \in Keys :
           \/ StatusOf(row'[k]) = StatusOf(row[k])
           \/ StatusOf(row[k]) = "held" /\ StatusOf(row'[k]) \in {"queued", "closed"}
    <3> SUFFICES ASSUME NEW k \in Keys
                 PROVE  \/ StatusOf(row'[k]) = StatusOf(row[k])
                        \/ /\ StatusOf(row[k]) = "held"
                           /\ StatusOf(row'[k]) \in {"queued", "closed"}
      OBVIOUS
    <3>1. row'[k] = Recovered(k, row[k])
      BY <1>3 DEF RecoverExpired
    <3>2. \/ row'[k] = row[k]
          \/ row[k].state = "running" /\ row'[k].state \in {"failed", "retrying"}
      BY <1>0, <3>1, StatesLeft
    <3> QED
      BY <3>2, StatusValues DEF Queued, Terminal
  <2>2. \A k \in Keys : StatusOf(row'[k]) \in Contract!Statuses
    BY <1>0, <2>1, StatusValues DEF Contract!Statuses
  <2>3. worker[w].phase = "asking" /\ worker'[w].phase = "claiming"
          /\ \A v \in Workers \ {w} : worker'[v] = worker[v]
    BY <1>0, <1>3 DEF RecoverExpired, At, Job
  <2>4. \A v \in Workers : Owed(worker'[v]) = Owed(worker[v])
    BY <2>3 DEF Owed
  <2>5. ClaimTable' = ClaimTable
    BY <2>4 DEF ClaimTable
  <2>6. Contract!Reclaim
    BY <2>1, <2>2, <2>5 DEF Contract!Reclaim, ClaimTable
  <2> QED
    BY <2>6 DEF Contract!Next
<1>4. CASE ClaimJob(w)
  <2> DEFINE k == worker[w].key
             r == [row[k] EXCEPT !.state = "running", !.owner = w, !.live = TRUE]
             job == [worker[w] EXCEPT !.phase = "running"]
  <2>1. k \in Keys /\ worker[w].phase = "selected" /\ row[k].state \in Queued
    BY <1>0, <1>4 DEF ClaimJob, At
  <2>2. row' = [row EXCEPT ![k] = r] /\ worker' = [worker EXCEPT ![w] = job]
    BY <1>4 DEF ClaimJob
  <2>3. r.state = "running"
    BY <1>0, <2>1 DEF Row
  <2>4. job.phase = "running" /\ job.key = k
    BY <1>0 DEF Job
  <2> HIDE DEF k, r, job
  <2>5. StatusOf(row[k]) = "queued" /\ StatusOf(r) = "held"
    BY <2>1, <2>3, StatusValues
  <2>6. Owed(worker[w]) = NoKey /\ Owed(job) = k
    BY <2>1, <2>4 DEF Owed
  <2>7. StatusTable' = [StatusTable EXCEPT ![k] = StatusOf(r)]
    BY <1>0, <2>1, <2>2, OneStatus
  <2>8. ClaimTable' = [ClaimTable EXCEPT ![w] = Owed(job)]
    BY <1>0, <2>2, OneClaim
  <2>9. Contract!Grant(w, k)
    BY <2>1, <2>5, <2>6, <2>7, <2>8 DEF Contract!Grant, StatusTable, ClaimTable
  <2> QED
    BY <2>1, <2>9 DEF Contract!Next
<1> QED
  BY <1>2, <1>3, <1>4 DEF Claiming

\* Executing is invisible until it ends in an Abandon.
LEMMA ContractExecuting ==
    ASSUME TypeInv, NEW w \in Workers, Executing(w)
    PROVE  [Contract!Next]_(Contract!contractVars)
<1>0. /\ worker \in [Workers -> Job] /\ row \in [Keys -> Row]
      /\ \A k \in Keys : row[k] \in Row
      /\ worker[w].phase = "running" => worker[w].key \in Keys
  BY DEF TypeInv, TypeOK, Job
<1>a. ASSUME NEW outcome, worker[w].phase = "running",
             worker' = [worker EXCEPT ![w].phase = "settling", ![w].outcome = outcome]
      PROVE  \A v \in Workers : Owed(worker'[v]) = Owed(worker[v])
  <2>1. /\ worker'[w].phase = "settling" /\ worker'[w].key = worker[w].key
        /\ \A v \in Workers \ {w} : worker'[v] = worker[v]
    BY <1>0, <1>a DEF Job
  <2>2. Owed(worker'[w]) = worker'[w].key /\ Owed(worker[w]) = worker[w].key
    BY <1>a, <2>1, OwedValues
  <2> QED
    BY <2>1, <2>2
<1>1. CASE Heartbeat(w)
  <2> DEFINE k == worker[w].key
             r == [row[k] EXCEPT !.live = TRUE]
  <2>1. k \in Keys /\ row' = [row EXCEPT ![k] = r] /\ UNCHANGED worker
    BY <1>0, <1>1 DEF Heartbeat, At
  <2>2. r.state = row[k].state
    BY <1>0, <2>1 DEF Row
  <2> HIDE DEF k, r
  <2>3. StatusOf(r) = StatusOf(row[k])
    BY <2>2 DEF StatusOf
  <2> QED
    BY <2>1, <2>3, OneRow
<1>2. CASE Disowned(w)
  <2>1. worker' = [worker EXCEPT ![w] = Idle] /\ UNCHANGED row
    BY <1>2 DEF Disowned
  <2>2. Owed(worker[w]) # NoKey /\ Owed(Idle) = NoKey
    BY <1>0, <1>2, NamesAssumption DEF Disowned, At, Owed, Idle
  <2>3. ClaimTable' = [ClaimTable EXCEPT ![w] = Owed(Idle)]
    BY <1>0, <2>1, OneClaim
  <2>4. Contract!Abandon(w)
    BY <2>1, <2>2, <2>3 DEF Contract!Abandon, ClaimTable
  <2> QED
    BY <2>4 DEF Contract!Next
<1>3. ASSUME NEW outcome \in Outcomes, OperationEnds(w, outcome)
      PROVE  [Contract!Next]_(Contract!contractVars)
  <2>1. UNCHANGED row /\ worker[w].phase = "running"
          /\ worker' = [worker EXCEPT ![w].phase = "settling", ![w].outcome = outcome]
    BY <1>3 DEF OperationEnds, At
  <2> QED
    BY <1>a, <2>1, Stutter
<1>4. ASSUME NEW outcome \in Outcomes, NEW p \in Providers, ProviderError(w, p, outcome)
      PROVE  [Contract!Next]_(Contract!contractVars)
  <2> DEFINE k == worker[w].key
  <2>1. /\ worker[w].phase = "running" /\ k \in Keys
        /\ worker' = [worker EXCEPT ![w].phase = "settling", ![w].outcome = outcome]
        /\ row' = [row EXCEPT ![k] = IF row[k].state = "running"
                                     THEN [row[k] EXCEPT !.provider = p] ELSE row[k]]
    BY <1>0, <1>4 DEF ProviderError, At
  <2> HIDE DEF k
  <2>2. \A j \in Keys : row'[j].state = row[j].state
    BY <1>0, <2>1 DEF Row
  <2>3. \A j \in Keys : StatusOf(row'[j]) = StatusOf(row[j])
    BY <2>2 DEF StatusOf
  <2>4. \A v \in Workers : Owed(worker'[v]) = Owed(worker[v])
    BY <1>a, <2>1
  <2> QED
    BY <2>3, <2>4, Stutter
<1> QED
  BY <1>1, <1>2, <1>3, <1>4 DEF Executing

\* Settling ends in a Report, or in an Abandon.
LEMMA ContractSettling ==
    ASSUME TypeInv, NEW w \in Workers, Settling(w)
    PROVE  [Contract!Next]_(Contract!contractVars)
<1>0. /\ worker \in [Workers -> Job] /\ row \in [Keys -> Row]
      /\ \A k \in Keys : row[k] \in Row
      /\ worker[w].phase \in {"settling", "committing"} =>
           worker[w].key \in Keys /\ worker[w].outcome # "none"
  BY DEF TypeInv, TypeOK, OutcomeOK, Job
<1>1. CASE SettleRead(w)
  <2>1. /\ worker[w].phase = "settling" /\ worker'[w].phase = "committing"
        /\ worker'[w].key = worker[w].key /\ UNCHANGED row
        /\ \A v \in Workers \ {w} : worker'[v] = worker[v]
    BY <1>0, <1>1 DEF SettleRead, At, Job
  <2>2. \A v \in Workers : Owed(worker'[v]) = Owed(worker[v])
    BY <2>1 DEF Owed
  <2> QED
    BY <2>1, <2>2, Stutter
<1>2. CASE SettleIgnored(w) \/ SettleError(w)
  <2>1. worker' = [worker EXCEPT ![w] = Idle] /\ UNCHANGED row
    BY <1>2 DEF SettleIgnored, SettleError
  <2>2. Owed(worker[w]) # NoKey /\ Owed(Idle) = NoKey
    BY <1>0, <1>2, NamesAssumption DEF SettleIgnored, SettleError, At, Owed, Idle
  <2>3. ClaimTable' = [ClaimTable EXCEPT ![w] = Owed(Idle)]
    BY <1>0, <2>1, OneClaim
  <2>4. Contract!Abandon(w)
    BY <2>1, <2>2, <2>3 DEF Contract!Abandon, ClaimTable
  <2> QED
    BY <2>4 DEF Contract!Next
<1>3. CASE SettleWrite(w)
  <2> DEFINE k == worker[w].key
             r == Settled(k, worker[w], row[k])
  <2>1. /\ worker[w].phase = "committing" /\ k \in Keys /\ row[k].state # "absent"
        /\ row' = [row EXCEPT ![k] = r] /\ worker' = [worker EXCEPT ![w] = Idle]
    BY <1>0, <1>3 DEF SettleWrite, At
  <2>2. r.state \in {"pending", "retrying", "completed", "failed", "waiting"}
    <3>1. worker[w].outcome \in {"complete", "fail", "retry", "defer", "wait"}
      BY <1>0, <2>1 DEF Job, Outcomes
    <3>2. SettledState(k, worker[w]) \in
             {"pending", "retrying", "completed", "failed", "waiting"}
      BY <3>1 DEF SettledState
    <3>3. Unleased(row[k]) \in Row
      BY <1>0, <2>1, RowOperators
    <3>4. r.state = SettledState(k, worker[w])
      BY <3>3 DEF Settled, Row
    <3> QED
      BY <3>2, <3>4
  <2>3. StatusOf(row[k]) # "none"
    BY <1>0, <2>1 DEF StatusOf, Row, Queued, Terminal, States, Active
  <2>4. Owed(worker[w]) = k /\ Owed(Idle) = NoKey /\ k # NoKey
    BY <2>1, NamesAssumption DEF Owed, Idle
  <2> HIDE DEF k, r
  <2>5. StatusOf(r) \in {"queued", "parked", "closed"}
    BY <2>2, StatusValues DEF Queued, Terminal
  <2>6. StatusTable' = [StatusTable EXCEPT ![k] = StatusOf(r)]
    BY <1>0, <2>1, OneStatus
  <2>7. ClaimTable' = [ClaimTable EXCEPT ![w] = NoKey]
    BY <1>0, <2>1, <2>4, OneClaim
  <2>8. Contract!Report(w)
    BY <2>1, <2>3, <2>4, <2>5, <2>6, <2>7 DEF Contract!Report, StatusTable, ClaimTable
  <2> QED
    BY <2>8 DEF Contract!Next
<1> QED
  BY <1>1, <1>2, <1>3 DEF Settling

\* The process ends in a Halt and starts with a Boot.
LEMMA ContractProcess ==
    ASSUME TypeInv, DownIsEmpty, Process
    PROVE  [Contract!Next]_(Contract!contractVars)
<1>0. /\ worker \in [Workers -> Job] /\ row \in [Keys -> Row]
      /\ \A k \in Keys : row[k] \in Row
  BY DEF TypeInv, TypeOK
<1>1. CASE StopSignal
  BY <1>1, Stutter DEF StopSignal
<1>2. ASSUME NEW w \in Workers, WorkerStops(w)
      PROVE  [Contract!Next]_(Contract!contractVars)
  <2>1. \A v \in Workers : Owed(worker'[v]) = Owed(worker[v])
    BY <1>0, <1>2 DEF WorkerStops, At, Owed, Gone, Idle
  <2> QED
    BY <1>2, <2>1, Stutter DEF WorkerStops
<1>3. ASSUME NEW table, Exit(table),
             \A k \in Keys : \/ table[k] = row[k]
                             \/ row[k].state = "running" /\ table[k].state = "retrying",
             \A k \in Keys : table[k] \in Row
      PROVE  [Contract!Next]_(Contract!contractVars)
  <2>1. \A k \in Keys :
           \/ StatusOf(row'[k]) = StatusOf(row[k])
           \/ StatusOf(row[k]) = "held" /\ StatusOf(row'[k]) = "queued"
    <3> SUFFICES ASSUME NEW k \in Keys
                 PROVE  \/ StatusOf(row'[k]) = StatusOf(row[k])
                        \/ StatusOf(row[k]) = "held" /\ StatusOf(row'[k]) = "queued"
      OBVIOUS
    <3>1. row'[k] = Orphaned(table[k])
      BY <1>3 DEF Exit
    <3>2. row'[k].state = table[k].state
      BY <1>3, <3>1, StatesLeft
    <3>3. StatusOf(row'[k]) = StatusOf(table[k])
      BY <3>2 DEF StatusOf
    <3> QED
      BY <1>3, <3>3, StatusValues DEF Queued
  <2>2. \A k \in Keys : StatusOf(row'[k]) \in Contract!Statuses
    BY <1>0, <2>1, StatusValues DEF Contract!Statuses
  <2>3. \A w \in Workers : Owed(worker'[w]) = NoKey
    BY <1>3, OwedValues DEF Exit
  <2>4. Contract!Halt
    BY <2>1, <2>2, <2>3 DEF Contract!Halt
  <2> QED
    BY <2>4 DEF Contract!Next
<1>4. CASE ShutdownInTime
  <2> DEFINE table == [k \in Keys |-> Released(row[k])]
  <2>1. \A k \in Keys : \/ table[k] = row[k]
                        \/ row[k].state = "running" /\ table[k].state = "retrying"
    BY <1>0, StatesLeft
  <2>2. \A k \in Keys : table[k] \in Row
    BY <1>0, RowOperators
  <2>3. Exit(table)
    BY <1>4 DEF ShutdownInTime
  <2> HIDE DEF table
  <2> QED
    BY <1>3, <2>1, <2>2, <2>3
<1>5. CASE ShutdownTimesOut \/ Crash
  BY <1>0, <1>3, <1>5 DEF ShutdownTimesOut, Crash
<1>6. CASE Start
  <2>1. PICK pruned \in SUBSET {k \in Keys : row[k].state \in {"completed", "cancelled"}} :
           row' = [k \in Keys |-> Booted(k, pruned)]
    BY <1>6 DEF Start
  <2>2. ASSUME NEW k \in Keys
        PROVE  \/ StatusOf(row'[k]) = StatusOf(row[k])
               \/ StatusOf(row[k]) = "held" /\ StatusOf(row'[k]) \in {"queued", "closed"}
               \/ StatusOf(row[k]) = "parked" /\ StatusOf(row'[k]) = "queued"
               \/ StatusOf(row[k]) = "closed" /\ StatusOf(row'[k]) \in {"none", "queued"}
               \/ StatusOf(row[k]) = "none" /\ StatusOf(row'[k]) = "queued"
    <3> DEFINE r == IF k \in pruned THEN Absent(k) ELSE Recovered(k, row[k])
    <3> DEFINE b == IF k \in BootKeys THEN Enqueued(k, r) ELSE r
    <3>1. row'[k] = IF k \in Parking THEN Resumed(b) ELSE b
      BY <2>1 DEF Booted
    <3>2. r \in Row
      BY <1>0, RowOperators
    <3>3. \/ r = row[k]
          \/ row[k].state = "running" /\ r.state \in {"failed", "retrying"}
          \/ row[k].state \in {"completed", "cancelled"} /\ r.state = "absent"
      BY <1>0, <2>1, StatesLeft
    <3> HIDE DEF r
    <3>a. b \in Row /\ (b.state = r.state \/ (r.state = "absent" /\ b.state = "pending"))
      BY <3>2, StatesLeft, RowOperators
    <3> HIDE DEF b
    <3>4. \/ row'[k].state = b.state
          \/ b.state = "waiting" /\ row'[k].state = "pending"
      BY <3>1, <3>a, ResumedRow
    <3>5. \/ row'[k].state = row[k].state
          \/ row[k].state = "running" /\ row'[k].state \in {"failed", "retrying"}
          \/ row[k].state = "waiting" /\ row'[k].state = "pending"
          \/ /\ row[k].state \in {"completed", "cancelled"}
             /\ row'[k].state \in {"absent", "pending"}
          \/ row[k].state = "absent" /\ row'[k].state = "pending"
      BY <3>3, <3>4, <3>a
    <3>6. CASE row'[k].state = row[k].state
      BY <3>6 DEF StatusOf
    <3>7. CASE row[k].state = "running" /\ row'[k].state \in {"failed", "retrying"}
      BY <3>7, StatusValues DEF Queued, Terminal
    <3>8. CASE /\ row[k].state \in {"completed", "cancelled"}
               /\ row'[k].state \in {"absent", "pending"}
      BY <3>8, StatusValues DEF Queued, Terminal
    <3>9. CASE row[k].state = "absent" /\ row'[k].state = "pending"
      BY <3>9, StatusValues DEF Queued
    <3>10. CASE row[k].state = "waiting" /\ row'[k].state = "pending"
      BY <3>10, StatusValues DEF Queued
    <3> QED
      BY <3>5, <3>6, <3>7, <3>8, <3>9, <3>10
  <2>3. \A k \in Keys : StatusOf(row'[k]) \in Contract!Statuses
    <3>1. \A k \in Keys : StatusOf(row[k]) \in Contract!Statuses
      BY <1>0, StatusValues
    <3> QED
      BY <2>2, <3>1 DEF Contract!Statuses
  <2>4. \A w \in Workers : Owed(worker[w]) = NoKey /\ Owed(worker'[w]) = NoKey
    <3>1. \A w \in Workers : worker[w].phase = "gone" /\ worker'[w] = Idle
      BY <1>6 DEF Start, DownIsEmpty
    <3> QED
      BY <3>1, OwedValues
  <2>5. Contract!Boot
    BY <2>2, <2>3, <2>4 DEF Contract!Boot
  <2> QED
    BY <2>5 DEF Contract!Next
<1> QED
  BY <1>1, <1>2, <1>4, <1>5, <1>6 DEF Process

LEMMA ContractInit == Init => Contract!Init
<1> SUFFICES ASSUME Init PROVE Contract!Init
  OBVIOUS
<1>1. ASSUME NEW k \in Keys
      PROVE  StatusOf(row[k]) \in {"none", "queued", "closed"}
  <2>1. row[k].state \in {"absent", "pending", "cancelled"}
    BY FirstRows DEF Init
  <2> QED
    BY <2>1, StatusValues DEF Queued, Terminal
<1>2. \A w \in Workers : Owed(worker[w]) = NoKey
  BY OwedValues DEF Init
<1> QED
  BY <1>1, <1>2 DEF Contract!Init

LEMMA ContractNext ==
    TypeInv /\ DownIsEmpty /\ [Next]_vars => [Contract!Next]_(Contract!contractVars)
<1> SUFFICES ASSUME TypeInv, DownIsEmpty, [Next]_vars
             PROVE  [Contract!Next]_(Contract!contractVars)
  OBVIOUS
<1>1. ASSUME NEW k \in Keys, LeaseExpires(k) \/ BecomesDue(k)
      PROVE  [Contract!Next]_(Contract!contractVars)
  <2>1. row[k] \in Row
    BY DEF TypeInv, TypeOK
  <2>2. PICK r : row' = [row EXCEPT ![k] = r] /\ r.state = row[k].state
    <3>1. CASE LeaseExpires(k)
      <4> WITNESS [row[k] EXCEPT !.live = FALSE]
      <4> QED
        BY <2>1, <3>1 DEF LeaseExpires, Row
    <3>2. CASE BecomesDue(k)
      <4> WITNESS [row[k] EXCEPT !.due = TRUE]
      <4> QED
        BY <2>1, <3>2 DEF BecomesDue, Row
    <3> QED
      BY <1>1, <3>1, <3>2
  <2>3. StatusOf(r) = StatusOf(row[k])
    BY <2>2 DEF StatusOf
  <2>4. UNCHANGED worker
    BY <1>1 DEF LeaseExpires, BecomesDue
  <2> QED
    BY <2>2, <2>3, <2>4, OneRow
<1>2. CASE UNCHANGED vars
  BY <1>2, Stutter DEF vars
<1> QED
  BY <1>1, <1>2, ContractRequest, ContractProvider, ContractClaiming, ContractExecuting,
     ContractSettling, ContractProcess DEF Next

\* The queue implements JobContract: whatever its statements interleave with,
\* a job is granted only out of the queue, which it leaves with the grant,
\* only a report parks it, each grant yields at most one report, and a stop
\* or a crash voids the grants but never loses a job.
THEOREM QueueKeepsItsContract == Spec => ContractHolds
<1>1. Init => DownIsEmpty
  BY DEF Init, DownIsEmpty
<1> QED
  BY <1>1, TypeInit, TypeNext, DownNext, ContractInit, ContractNext, PTL
     DEF Spec, ContractHolds, Contract!Spec
=============================================================================
