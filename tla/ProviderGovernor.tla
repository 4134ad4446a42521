-------------------------- MODULE ProviderGovernor --------------------------
(***************************************************************************)
(* The actor that governs one external provider (src/src/provider.rs): it  *)
(* owns the circuit breaker, five priority queues of waiting requests, the *)
(* spacing between requests and the number of requests in flight.          *)
(*                                                                         *)
(* The actor handles one command at a time; what its callers do meanwhile  *)
(* (time out, be cancelled, finish) interleaves with its awaits.  Wall     *)
(* clock deadlines are the set `past` of those that have passed.  Every    *)
(* change of the circuit is persisted before the command is answered, so   *)
(* the circuit, its failures and the deadlines survive a restart.          *)
(***************************************************************************)
EXTENDS Naturals, Sequences, FiniteSets

CONSTANTS
    Clients,      \* tasks that make requests to this provider
    Uses,         \* Uses[c]: the request classes of what c does
    LimitOf,      \* LimitOf[c]: max_requests of its endpoint window, 0 for none
    SafeMax,      \* safe_max_concurrency of the provider
    MaxDepth      \* MAX_QUEUE_DEPTH

Interactive == 0
Scheduled   == 3
Background  == 4
Classes     == 0..4
Bulk        == {Scheduled, Background}

ASSUME ClientsAssumption ==
    /\ IsFiniteSet(Clients)
    /\ Uses \in [Clients -> SUBSET Classes] /\ LimitOf \in [Clients -> Nat]
ASSUME BoundsAssumption == SafeMax \in Nat \ {0} /\ MaxDepth \in Nat \ {0}

VARIABLES
    circuit,    \* ProviderCircuitState
    failures,   \* consecutive_failures, saturating at 3
    past,       \* the deadlines that have passed
    used,       \* requests granted in the open endpoint window
    queue,      \* queue[class]: the waiters of a class, oldest first
    active,     \* the permits the actor believes to be in use
    allowed,    \* max_concurrency after preferences
    actor,      \* where the actor is in its loop
    timer,      \* whether it waits with a timer, or for commands alone
    client,     \* where each request is
    dropped     \* Abandoned commands in the mailbox

vars == <<circuit, failures, past, used, queue, active, allowed,
          actor, timer, client, dropped>>

Circuits  == {"available", "cooldown", "half_open", "blocked", "paused"}
Deadlines == {"retry", "interval", "bulkInterval", "window"}
Kinds     == {"ok", "limited", "hard", "transient", "permanent"}
Phases    == {"idle", "asking", "queued", "picked", "granted", "working", "reporting"}

Request == [phase : Phases, class : Classes, open : BOOLEAN, outcome : Kinds \cup {"none"}]
NoRequest == [phase |-> "idle", class |-> Interactive, open |-> FALSE, outcome |-> "none"]
In(c, phase) == client[c].phase = phase

TypeOK ==
    /\ circuit \in Circuits /\ failures \in 0..3
    /\ past \subseteq Deadlines /\ used \in Nat
    /\ queue \in [Classes -> Seq(Clients)]
    /\ active \in 0..SafeMax /\ allowed \in 1..SafeMax
    /\ actor \in {"waiting", "advancing", "granting", "persisting"}
    /\ timer \in BOOLEAN
    /\ client \in [Clients -> Request]
    /\ dropped \in Nat
    /\ \A c \in Clients : In(c, "reporting") => client[c].outcome # "none"

Init ==
    /\ circuit = "available" /\ failures = 0
    /\ past = Deadlines /\ used = 0
    /\ queue = [class \in Classes |-> <<>>]
    /\ active = 0 /\ allowed = SafeMax
    /\ actor = "advancing" /\ timer = FALSE
    /\ client = [c \in Clients |-> NoRequest]
    /\ dropped = 0

-----------------------------------------------------------------------------
(***************************************************************************)
(* What the actor asks about its own state.                                *)
(***************************************************************************)
Unavailable ==
    circuit \in {"blocked", "paused"} \/ (circuit = "cooldown" /\ "retry" \notin past)

WindowFull(c) == LimitOf[c] > 0 /\ "window" \notin past /\ used >= LimitOf[c]

Eligible(class, c) ==
    /\ "interval" \in past
    /\ class \in Bulk => "bulkInterval" \in past
    /\ ~WindowFull(c)

Ready(class) == queue[class] # <<>> /\ Eligible(class, Head(queue[class]))

\* best_ready_queue: the first class whose oldest waiter is eligible.
BestReady(class) == Ready(class) /\ \A d \in Classes : d < class => ~Ready(d)

Empty == \A class \in Classes : queue[class] = <<>>

Depth == Len(queue[0]) + Len(queue[1]) + Len(queue[2]) + Len(queue[3]) + Len(queue[4])

Probing == circuit = "half_open" /\ active > 0

MayGrant == active < allowed /\ ~Empty /\ ~Unavailable /\ ~Probing

\* Mutant: a half-open circuit waits for commands only.
NextWaitUnlessProbing ==
    /\ ~Empty /\ active < allowed /\ circuit # "half_open"
    /\ IF circuit = "cooldown" THEN "retry" \notin past
                               ELSE \A class \in Classes : ~Ready(class)

\* next_wait: a timer is set for the earliest of the heads, unless one of them
\* is eligible already and only a command can make the grant possible.
NextWait ==
    /\ ~Empty /\ active < allowed
    /\ IF circuit = "cooldown" THEN "retry" \notin past
                               ELSE \A class \in Classes : ~Ready(class)

Sleep == actor' = "waiting" /\ timer' = NextWait'
GrantAgain == actor' = "advancing" /\ timer' = FALSE

-----------------------------------------------------------------------------
(***************************************************************************)
(* The tasks that make requests.                                           *)
(***************************************************************************)
Ask(c, class) ==
    /\ In(c, "idle") /\ class \in Uses[c]
    /\ client' = [client EXCEPT ![c] = [NoRequest EXCEPT !.phase = "asking",
                                                        !.class = class, !.open = TRUE]]
    /\ UNCHANGED <<circuit, failures, past, used, queue, active, allowed, actor, timer, dropped>>

\* A foreground request times out, or the task is cancelled: the receiver is
\* gone.  A grant that was already sent is dropped with it.
GiveUp(c) ==
    /\ client[c].open /\ client[c].phase \in {"asking", "queued", "picked", "granted"}
    /\ client' = [client EXCEPT ![c] = IF In(c, "granted") THEN NoRequest
                                       ELSE [@ EXCEPT !.open = FALSE]]
    /\ UNCHANGED <<circuit, failures, past, used, queue, active, allowed, actor, timer, dropped>>

Receive(c) ==
    /\ In(c, "granted")
    /\ client' = [client EXCEPT ![c].phase = "working"]
    /\ UNCHANGED <<circuit, failures, past, used, queue, active, allowed, actor, timer, dropped>>

\* Mutant: a completed permit is still returned when it is dropped.
FinishAndDrop(c, kind) ==
    /\ In(c, "working")
    /\ client' = [client EXCEPT ![c].phase = "reporting", ![c].outcome = kind]
    /\ dropped' = dropped + 1
    /\ UNCHANGED <<circuit, failures, past, used, queue, active, allowed, actor, timer>>

Finish(c, kind) ==
    /\ In(c, "working")
    /\ client' = [client EXCEPT ![c].phase = "reporting", ![c].outcome = kind]
    /\ UNCHANGED <<circuit, failures, past, used, queue, active, allowed, actor, timer, dropped>>

\* The permit is dropped unused or in the middle of the operation.
DropPermit(c) ==
    /\ In(c, "working")
    /\ client' = [client EXCEPT ![c] = NoRequest]
    /\ dropped' = dropped + 1
    /\ UNCHANGED <<circuit, failures, past, used, queue, active, allowed, actor, timer>>

-----------------------------------------------------------------------------
(***************************************************************************)
(* The commands of the actor.                                              *)
(***************************************************************************)
BackgroundDefer(c) ==
    \/ active >= allowed
    \/ \E class \in Classes \ {Background} : queue[class] # <<>>
    \/ ~Eligible(Background, c)

Refused(c) ==
    \/ Unavailable
    \/ Depth >= MaxDepth
    \/ client[c].class = Background /\ BackgroundDefer(c)
    \/ client[c].class = Scheduled /\ WindowFull(c)

Acquire(c) ==
    /\ actor = "waiting" /\ In(c, "asking")
    /\ IF Refused(c)
       THEN /\ client' = [client EXCEPT ![c] = NoRequest]
            /\ UNCHANGED queue
       ELSE /\ client' = [client EXCEPT ![c].phase = "queued"]
            /\ queue' = [queue EXCEPT ![client[c].class] = Append(@, c)]
    /\ GrantAgain
    /\ UNCHANGED <<circuit, failures, past, used, active, allowed, dropped>>

SaturatingDec(n) == IF n = 0 THEN 0 ELSE n - 1
Bump(n) == IF n = 3 THEN 3 ELSE n + 1

\* record_outcome on a circuit that is neither blocked nor paused: the circuit,
\* failures and passed deadlines it can leave behind.
Outcome(kind) ==
    CASE kind = "ok" ->
            {IF circuit = "cooldown" THEN <<circuit, failures, past>>
                                     ELSE <<"available", 0, past>>}
      [] kind = "limited" ->
            {<<"cooldown", Bump(failures), past \ {"retry"}>>,
             <<"cooldown", Bump(failures), past \cup {"retry"}>>}
      [] kind = "hard" -> {<<"blocked", Bump(failures), past>>}
      [] kind = "transient" ->
            {IF circuit = "half_open" \/ Bump(failures) >= 3
             THEN <<"cooldown", Bump(failures), past \ {"retry"}>>
             ELSE <<circuit, Bump(failures), past>>}
      [] kind = "permanent" ->
            {<<IF circuit = "half_open" THEN "available" ELSE circuit, 0, past>>}

\* Mutant: an outcome is applied whatever the circuit is.
RecordOutcomeAlways(kind) ==
    \E o \in Outcome(kind) :
        circuit' = o[1] /\ failures' = o[2] /\ past' = o[3]

RecordOutcome(kind) ==
    IF circuit \in {"blocked", "paused"}
    THEN /\ failures' = IF kind = "ok" THEN failures ELSE Bump(failures)
         /\ UNCHANGED <<circuit, past>>
    ELSE \E o \in Outcome(kind) :
            circuit' = o[1] /\ failures' = o[2] /\ past' = o[3]

\* reject_waiters: everybody in a queue is answered, if the circuit is closed
\* to requests once the outcome is recorded.
RejectWaiters(leaving) ==
    IF Unavailable'
    THEN /\ queue' = [class \in Classes |-> <<>>]
         /\ client' = [c \in Clients |->
                         IF c = leaving \/ In(c, "queued") THEN NoRequest ELSE client[c]]
    ELSE /\ client' = [c \in Clients |-> IF c = leaving THEN NoRequest ELSE client[c]]
         /\ UNCHANGED queue

Complete(c) ==
    /\ actor = "waiting" /\ In(c, "reporting")
    /\ active' = SaturatingDec(active)
    /\ RecordOutcome(client[c].outcome)
    /\ RejectWaiters(c)
    /\ GrantAgain
    /\ UNCHANGED <<used, allowed, dropped>>

Abandoned ==
    /\ actor = "waiting" /\ dropped > 0
    /\ dropped' = dropped - 1 /\ active' = SaturatingDec(active)
    /\ GrantAgain
    /\ UNCHANGED <<circuit, failures, past, used, queue, allowed, client>>

Pause ==
    /\ actor = "waiting" /\ circuit \in {"available", "half_open"}
    /\ circuit' = "paused"
    /\ queue' = [class \in Classes |-> <<>>]
    /\ client' = [c \in Clients |-> IF In(c, "queued") THEN NoRequest ELSE client[c]]
    /\ GrantAgain
    /\ UNCHANGED <<failures, past, used, active, allowed, dropped>>

\* Mutant: a resumed circuit starts to count permits anew.
ResumeAfresh ==
    /\ actor = "waiting" /\ circuit \in {"blocked", "paused"}
    /\ circuit' = "half_open" /\ active' = 0
    /\ GrantAgain
    /\ UNCHANGED <<failures, past, used, queue, allowed, client, dropped>>

Resume ==
    /\ actor = "waiting" /\ circuit \in {"blocked", "paused"}
    /\ circuit' = "half_open"
    /\ GrantAgain
    /\ UNCHANGED <<failures, past, used, queue, active, allowed, client, dropped>>

\* New preferences.  Only the concurrency shows here: other intervals move the
\* deadlines, which pass at no particular time anyway.
Policy ==
    /\ actor = "waiting"
    /\ allowed' \in 1..SafeMax
    /\ GrantAgain
    /\ UNCHANGED <<circuit, failures, past, used, queue, active, client, dropped>>

-----------------------------------------------------------------------------
(***************************************************************************)
(* The actor between two commands.                                         *)
(***************************************************************************)
AdvanceCooldown ==
    /\ actor = "advancing"
    /\ circuit' = IF circuit = "cooldown" /\ "retry" \in past THEN "half_open" ELSE circuit
    /\ actor' = "granting" /\ timer' = FALSE
    /\ UNCHANGED <<failures, past, used, queue, active, allowed, client, dropped>>

\* A waiter whose receiver is gone is skipped.
SkipClosed ==
    /\ actor = "granting" /\ MayGrant
    /\ \E class \in Classes :
         LET c == Head(queue[class])
         IN  /\ BestReady(class) /\ ~client[c].open
             /\ queue' = [queue EXCEPT ![class] = Tail(@)]
             /\ client' = [client EXCEPT ![c] = NoRequest]
    /\ UNCHANGED <<circuit, failures, past, used, active, allowed, actor, timer, dropped>>

Restarting(class, c) ==
    {"interval"} \cup (IF class \in Bulk THEN {"bulkInterval"} ELSE {})
                 \cup (IF LimitOf[c] > 0 THEN {"window"} ELSE {})

\* record_request_limit, last_request_at, and the permit is being persisted.
Pick ==
    /\ actor = "granting" /\ MayGrant
    /\ \E class \in Classes :
         LET c == Head(queue[class])
         IN  /\ BestReady(class) /\ client[c].open
             /\ queue' = [queue EXCEPT ![class] = Tail(@)]
             /\ client' = [client EXCEPT ![c].phase = "picked"]
             /\ past' = past \ Restarting(class, c)
             /\ used' = IF LimitOf[c] = 0 THEN used
                        ELSE IF "window" \in past THEN 1 ELSE used + 1
    /\ active' = active + 1
    /\ actor' = "persisting"
    /\ UNCHANGED <<circuit, failures, allowed, timer, dropped>>

\* The grant is sent; nobody counts a permit whose receiver is gone by then.
Deliver ==
    /\ actor = "persisting"
    /\ client' = [c \in Clients |->
                    IF ~In(c, "picked") THEN client[c]
                    ELSE IF client[c].open THEN [client[c] EXCEPT !.phase = "granted"]
                    ELSE NoRequest]
    /\ UNCHANGED <<circuit, failures, past, used, queue, active, allowed, dropped>>
    /\ Sleep

PersistFails ==
    /\ actor = "persisting"
    /\ active' = SaturatingDec(active)
    /\ client' = [c \in Clients |-> IF In(c, "picked") THEN NoRequest ELSE client[c]]
    /\ UNCHANGED <<circuit, failures, past, used, queue, allowed, dropped>>
    /\ Sleep

NothingToGrant ==
    /\ actor = "granting"
    /\ ~MayGrant \/ \A class \in Classes : ~Ready(class)
    /\ UNCHANGED <<circuit, failures, past, used, queue, active, allowed, client, dropped>>
    /\ Sleep

\* The timer fires when its deadline has passed.
Wake ==
    /\ actor = "waiting" /\ timer
    /\ \/ circuit = "cooldown" /\ "retry" \in past
       \/ \E class \in Classes : Ready(class)
    /\ GrantAgain
    /\ UNCHANGED <<circuit, failures, past, used, queue, active, allowed, client, dropped>>

TimePasses(deadline) ==
    /\ deadline \notin past
    /\ past' = past \cup {deadline}
    /\ UNCHANGED <<circuit, failures, used, queue, active, allowed, actor, timer, client, dropped>>

\* The process ends and the next one reads the persisted circuit.
Restart ==
    /\ queue' = [class \in Classes |-> <<>>]
    /\ active' = 0 /\ dropped' = 0
    /\ past' = past \cup {"window"} /\ used' = 0
    /\ client' = [c \in Clients |-> NoRequest]
    /\ GrantAgain
    /\ UNCHANGED <<circuit, failures, allowed>>

-----------------------------------------------------------------------------
Caller(c) ==
    \/ \E class \in Classes : Ask(c, class)
    \/ GiveUp(c) \/ Receive(c) \/ DropPermit(c)
    \/ \E kind \in Kinds : Finish(c, kind)

Command ==
    \/ \E c \in Clients : Acquire(c) \/ Complete(c)
    \/ Abandoned \/ Pause \/ Resume \/ Policy

Granting ==
    AdvanceCooldown \/ SkipClosed \/ Pick \/ Deliver \/ PersistFails \/ NothingToGrant \/ Wake

Next ==
    \/ \E c \in Clients : Caller(c)
    \/ Command \/ Granting
    \/ \E deadline \in Deadlines : TimePasses(deadline)
    \/ Restart

Spec == Init /\ [][Next]_vars

(***************************************************************************)
(* Fairness: the actor keeps running and its mailbox is first in first     *)
(* out, so each command is handled (strong fairness stands for the order); *)
(* granted tasks are polled, operations end, time passes.  Nobody has to   *)
(* ask, give up, pause, resume or restart.                                 *)
(***************************************************************************)
Fairness ==
    /\ WF_vars(AdvanceCooldown) /\ WF_vars(SkipClosed \/ Pick \/ NothingToGrant)
    /\ WF_vars(Deliver) /\ WF_vars(Wake) /\ SF_vars(Abandoned)
    /\ \A c \in Clients :
         /\ SF_vars(Acquire(c)) /\ SF_vars(Complete(c))
         /\ WF_vars(Receive(c)) /\ WF_vars(\E kind \in Kinds : Finish(c, kind))
    /\ \A deadline \in Deadlines : WF_vars(TimePasses(deadline))

FairSpec == Spec /\ Fairness

-----------------------------------------------------------------------------
(***************************************************************************)
(* Properties.                                                             *)
(***************************************************************************)
Holding == {c \in Clients : client[c].phase \in {"picked", "granted", "working", "reporting"}}

\* The limit is enforced across all classes: the requests at the provider never
\* exceed its safe concurrency, because every permit in use, and every returned
\* one the actor has not heard of, is counted until it is settled exactly once.
PermitsAreCounted ==
    /\ Cardinality(Holding) + dropped <= active
    /\ Cardinality({c \in Clients : In(c, "working")}) <= SafeMax

\* A half-open circuit lets one request probe the provider: it is granted while
\* no other request of any class holds a permit, also none from before.
ProbeIsAlone ==
    [][\A c \in Clients :
         (circuit = "half_open" /\ ~In(c, "picked") /\ client'[c].phase = "picked")
            => Holding = {}]_vars

\* Hard blocks and pauses require an explicit resume: no late outcome, elapsed
\* cooldown or restart reopens the circuit.
BlockHolds ==
    [][(circuit \in {"blocked", "paused"}) => circuit' = circuit \/ Resume]_vars

Unanswered(c) == client[c].phase \in {"asking", "queued"}

\* An interactive request is always answered, unless a grant was lost to a
\* cancelled task: the timer is set whenever only time is missing.
RequestsAreAnswered ==
    [](Cardinality(Holding) + dropped = active)
      => \A c \in Clients :
            (Unanswered(c) /\ client[c].class = Interactive) ~> ~Unanswered(c)

\* An expired cooldown allows one half-open probe: a request that waits on a
\* half-open circuit becomes the probe or sees the circuit change.
ProbeIsAllowed ==
    \A c \in Clients :
        (circuit = "half_open" /\ In(c, "queued"))
            ~> (circuit # "half_open" \/ ~In(c, "queued"))
=============================================================================
