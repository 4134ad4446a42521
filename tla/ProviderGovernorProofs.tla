----------------------- MODULE ProviderGovernorProofs -----------------------
(***************************************************************************)
(* Theorems about ProviderGovernor for every finite set of clients, every  *)
(* endpoint limit, queue depth and concurrency: type correctness, that a   *)
(* block ends by a resume only, that permits are counted, and that a probe *)
(* is alone.                                                               *)
(***************************************************************************)
EXTENDS ProviderGovernor, FiniteSetTheorems, TLAPS

USE ClientsAssumption, BoundsAssumption

(***************************************************************************)
(* Blocks.  No invariant is needed: the guard of each action that moves    *)
(* the circuit settles it.                                                 *)
(***************************************************************************)
\* A hard block or a pause ends by an explicit resume only: no outcome that
\* arrives late, no elapsed cooldown and no restart reopens the circuit.
THEOREM BlocksHold == Spec => BlockHolds
<1>1. ASSUME [Next]_vars, circuit \in {"blocked", "paused"}
      PROVE  circuit' = circuit \/ Resume
  <2>1. CASE UNCHANGED vars
    BY <2>1 DEF vars
  <2>2. CASE \E c \in Clients : Caller(c)
    BY <2>2 DEF Caller, Ask, GiveUp, Receive, DropPermit, Finish
  <2>3. CASE \E c \in Clients : Acquire(c)
    BY <2>3 DEF Acquire
  <2>4. CASE \E c \in Clients : Complete(c)
    BY <2>4, <1>1 DEF Complete, RecordOutcome
  <2>5. CASE Abandoned \/ Policy \/ SkipClosed \/ Pick \/ NothingToGrant \/ Wake \/ Restart
    BY <2>5 DEF Abandoned, Policy, SkipClosed, Pick, NothingToGrant, Wake, Restart
  <2>6. CASE Deliver \/ PersistFails
    BY <2>6 DEF Deliver, PersistFails
  <2>7. CASE Pause
    BY <2>7, <1>1 DEF Pause
  <2>8. CASE Resume
    BY <2>8
  <2>9. CASE AdvanceCooldown
    BY <2>9, <1>1 DEF AdvanceCooldown
  <2>10. CASE \E deadline \in Deadlines : TimePasses(deadline)
    BY <2>10 DEF TimePasses
  <2> QED
    BY <1>1, <2>1, <2>2, <2>3, <2>4, <2>5, <2>6, <2>7, <2>8, <2>9, <2>10
    DEF Next, Command, Granting
<1>2. [Next]_vars => [(circuit \in {"blocked", "paused"}) => circuit' = circuit \/ Resume]_vars
  BY <1>1
<1> QED
  BY <1>2, PTL DEF Spec, BlockHolds

-----------------------------------------------------------------------------
(***************************************************************************)
(* Types.                                                                  *)
(***************************************************************************)
LEMMA Fresh ==
    /\ NoRequest \in Request /\ ~NoRequest.open /\ NoRequest.phase = "idle"
    /\ \A class \in Classes :
          LET r == [NoRequest EXCEPT !.phase = "asking", !.class = class, !.open = TRUE]
          IN  r \in Request /\ r.phase = "asking"
<1>1. NoRequest = [phase |-> "idle", class |-> 0, open |-> FALSE, outcome |-> "none"]
  BY DEF NoRequest, Interactive
<1>2. NoRequest \in Request
  BY <1>1 DEF Request, Phases, Classes
<1>3. ASSUME NEW class \in Classes
      PROVE  LET r == [NoRequest EXCEPT !.phase = "asking", !.class = class, !.open = TRUE]
             IN  r \in Request /\ r.phase = "asking"
  BY <1>2 DEF Request, Phases
<1> QED
  BY <1>1, <1>2, <1>3

LEMMA Updates ==
    ASSUME NEW r \in Request
    PROVE  /\ \A phase \in Phases :
                 /\ [r EXCEPT !.phase = phase] \in Request
                 /\ [r EXCEPT !.phase = phase].phase = phase
                 /\ [r EXCEPT !.phase = phase].class = r.class
           /\ [r EXCEPT !.open = FALSE] \in Request
           /\ [r EXCEPT !.open = FALSE].phase = r.phase
           /\ [r EXCEPT !.open = FALSE].class = r.class
           /\ [r EXCEPT !.open = FALSE].outcome = r.outcome
           /\ \A kind \in Kinds :
                 LET reported == [r EXCEPT !.phase = "reporting", !.outcome = kind]
                 IN  reported \in Request /\ reported.phase = "reporting" /\ reported.outcome = kind
<1>1. ASSUME NEW phase \in Phases
      PROVE  /\ [r EXCEPT !.phase = phase] \in Request
             /\ [r EXCEPT !.phase = phase].phase = phase
             /\ [r EXCEPT !.phase = phase].class = r.class
  BY DEF Request
<1>2. /\ [r EXCEPT !.open = FALSE] \in Request
      /\ [r EXCEPT !.open = FALSE].phase = r.phase
      /\ [r EXCEPT !.open = FALSE].class = r.class
      /\ [r EXCEPT !.open = FALSE].outcome = r.outcome
  BY DEF Request
<1>3. ASSUME NEW kind \in Kinds
      PROVE  LET reported == [r EXCEPT !.phase = "reporting", !.outcome = kind]
             IN  reported \in Request /\ reported.phase = "reporting" /\ reported.outcome = kind
  BY DEF Request, Phases
<1> QED
  BY <1>1, <1>2, <1>3

\* An outcome leaves a circuit, a count of failures and a set of deadlines.
LEMMA Outcomes ==
    ASSUME TypeOK, NEW kind \in Kinds, RecordOutcome(kind)
    PROVE  circuit' \in Circuits /\ failures' \in 0..3 /\ past' \subseteq Deadlines
<1>1. Bump(failures) \in 0..3
  BY DEF Bump, TypeOK
<1>2. CASE circuit \in {"blocked", "paused"}
  BY <1>1, <1>2 DEF RecordOutcome, TypeOK
<1>3. CASE circuit \notin {"blocked", "paused"}
  <2>1. PICK o \in Outcome(kind) : circuit' = o[1] /\ failures' = o[2] /\ past' = o[3]
    BY <1>3 DEF RecordOutcome
  <2>2. o[1] \in Circuits /\ o[2] \in 0..3 /\ o[3] \subseteq Deadlines
    <3>1. CASE kind = "ok"
      BY <3>1, <2>1 DEF Outcome, TypeOK, Circuits
    <3>2. CASE kind = "limited"
      BY <3>2, <2>1, <1>1 DEF Outcome, TypeOK, Circuits, Deadlines
    <3>3. CASE kind = "hard"
      BY <3>3, <2>1, <1>1 DEF Outcome, TypeOK, Circuits
    <3>4. CASE kind = "transient"
      BY <3>4, <2>1, <1>1 DEF Outcome, TypeOK, Circuits
    <3>5. CASE kind = "permanent"
      BY <3>5, <2>1 DEF Outcome, TypeOK, Circuits
    <3> QED
      BY <3>1, <3>2, <3>3, <3>4, <3>5 DEF Kinds
  <2> QED
    BY <2>1, <2>2
<1> QED
  BY <1>2, <1>3

\* A step of one caller: its record changes, and maybe the Abandoned commands.
LEMMA TypeClient ==
    ASSUME TypeOK, NEW c \in Clients, NEW r \in Request,
           r.phase = "reporting" => r.outcome # "none",
           client' = [client EXCEPT ![c] = r], dropped' \in Nat,
           UNCHANGED <<circuit, failures, past, used, queue, active, allowed, actor, timer>>
    PROVE  TypeOK'
<1>1. client' \in [Clients -> Request]
  BY DEF TypeOK
<1>2. \A d \in Clients : client'[d] = IF d = c THEN r ELSE client[d]
  BY DEF TypeOK
<1> QED
  BY <1>1, <1>2 DEF TypeOK, In

LEMMA TypeCaller ==
    ASSUME TypeOK, NEW c \in Clients, Caller(c)
    PROVE  TypeOK'
<1> DEFINE Frame == UNCHANGED <<circuit, failures, past, used, queue, active, allowed, actor, timer>>
<1>0. client[c] \in Request /\ dropped \in Nat
  BY DEF TypeOK
<1>1. CASE \E class \in Classes : Ask(c, class)
  <2>1. PICK class \in Classes : Ask(c, class)
    BY <1>1
  <2> QED
    BY <2>1, <1>0, Fresh, TypeClient DEF Ask
<1>2. CASE GiveUp(c)
  <2>1. Frame /\ dropped' \in Nat
    BY <1>2, <1>0 DEF GiveUp
  <2>2. CASE In(c, "granted")
    <3>1. client' = [client EXCEPT ![c] = NoRequest]
      BY <2>2, <1>2 DEF GiveUp
    <3> QED
      BY <3>1, <2>1, Fresh, TypeClient
  <2>3. CASE ~In(c, "granted")
    <3> DEFINE r == [client[c] EXCEPT !.open = FALSE]
    <3>1. client' = [client EXCEPT ![c] = r]
      BY <2>3, <1>2 DEF GiveUp, TypeOK
    <3>2. r \in Request /\ r.phase # "reporting"
      BY <1>2, <1>0, Updates DEF GiveUp
    <3> HIDE DEF r
    <3> QED
      BY <3>1, <3>2, <2>1, TypeClient
  <2> QED
    BY <2>2, <2>3
<1>3. CASE Receive(c)
  <2> DEFINE r == [client[c] EXCEPT !.phase = "working"]
  <2>1. client' = [client EXCEPT ![c] = r]
    BY <1>3 DEF Receive, TypeOK
  <2>2. r \in Request /\ r.phase = "working"
    BY <1>0, Updates DEF Phases
  <2>3. Frame /\ dropped' \in Nat
    BY <1>3, <1>0 DEF Receive
  <2> HIDE DEF r
  <2> QED
    BY <2>1, <2>2, <2>3, TypeClient
<1>4. CASE DropPermit(c)
  <2>1. Frame /\ dropped' \in Nat /\ client' = [client EXCEPT ![c] = NoRequest]
    BY <1>4, <1>0 DEF DropPermit
  <2> QED
    BY <2>1, Fresh, TypeClient
<1>5. CASE \E kind \in Kinds : Finish(c, kind)
  <2>1. PICK kind \in Kinds : Finish(c, kind)
    BY <1>5
  <2> DEFINE r == [client[c] EXCEPT !.phase = "reporting", !.outcome = kind]
  <2>2. client' = [client EXCEPT ![c] = r]
    BY <2>1 DEF Finish, TypeOK
  <2>3. r \in Request /\ r.outcome # "none"
    BY <1>0, Updates DEF Kinds
  <2>4. Frame /\ dropped' \in Nat
    BY <2>1, <1>0 DEF Finish
  <2> HIDE DEF r
  <2> QED
    BY <2>2, <2>3, <2>4, TypeClient
<1> QED
  BY <1>1, <1>2, <1>3, <1>4, <1>5 DEF Caller

\* Requests that are answered, and those that move to another phase.
LEMMA TypeAnswers ==
    ASSUME TypeOK, client' \in [Clients -> Request],
           \A c \in Clients : \/ client'[c] = NoRequest
                              \/ client'[c] = client[c]
                              \/ client'[c].phase \in {"queued", "picked", "granted"}
    PROVE  \A c \in Clients : In(c, "reporting")' => client'[c].outcome # "none"
BY Fresh DEF TypeOK, In

LEMMA TypeCommand ==
    ASSUME TypeOK, Command
    PROVE  TypeOK'
<1>1. CASE \E c \in Clients : Acquire(c)
  <2>1. PICK c \in Clients : Acquire(c)
    BY <1>1
  <2>2. client[c] \in Request /\ client[c].class \in Classes
    BY DEF TypeOK, Request
  <2>3. CASE Refused(c)
    <3>1. client' = [client EXCEPT ![c] = NoRequest] /\ queue' = queue
      BY <2>1, <2>3 DEF Acquire
    <3>2. client' \in [Clients -> Request]
      BY <3>1, Fresh DEF TypeOK
    <3>3. \A d \in Clients : In(d, "reporting")' => client'[d].outcome # "none"
      BY <3>1, <3>2, TypeAnswers DEF TypeOK
    <3> QED
      BY <2>1, <3>1, <3>2, <3>3 DEF Acquire, GrantAgain, TypeOK
  <2>4. CASE ~Refused(c)
    <3> DEFINE r == [client[c] EXCEPT !.phase = "queued"]
    <3>1. client' = [client EXCEPT ![c] = r]
      BY <2>1, <2>4 DEF Acquire, TypeOK
    <3>2. r \in Request /\ r.phase = "queued"
      BY <2>2, Updates DEF Phases
    <3>3. queue' \in [Classes -> Seq(Clients)]
      <4>1. queue' = [queue EXCEPT ![client[c].class] = Append(queue[client[c].class], c)]
        BY <2>1, <2>4, <2>2 DEF Acquire, TypeOK
      <4>2. Append(queue[client[c].class], c) \in Seq(Clients)
        BY <2>2 DEF TypeOK
      <4> QED
        BY <4>1, <4>2 DEF TypeOK
    <3> HIDE DEF r
    <3>4. client' \in [Clients -> Request]
      BY <3>1, <3>2 DEF TypeOK
    <3>5. \A d \in Clients : In(d, "reporting")' => client'[d].outcome # "none"
      BY <3>1, <3>2, <3>4, TypeAnswers DEF TypeOK
    <3>6. UNCHANGED <<circuit, failures, past, used, active, allowed, dropped>>
            /\ actor' = "advancing" /\ timer' = FALSE
      BY <2>1 DEF Acquire, GrantAgain
    <3> QED
      BY <3>3, <3>4, <3>5, <3>6 DEF TypeOK
  <2> QED
    BY <2>3, <2>4
<1>2. CASE \E c \in Clients : Complete(c)
  <2>1. PICK c \in Clients : Complete(c)
    BY <1>2
  <2>2. client[c].outcome \in Kinds
    BY <2>1 DEF Complete, TypeOK, Request, In
  <2>3. circuit' \in Circuits /\ failures' \in 0..3 /\ past' \subseteq Deadlines
    BY <2>1, <2>2, Outcomes DEF Complete
  <2>4. active' \in 0..SafeMax /\ used' = used /\ allowed' = allowed /\ dropped' = dropped
          /\ actor' = "advancing" /\ timer' = FALSE
    BY <2>1 DEF Complete, SaturatingDec, GrantAgain, TypeOK
  <2>5. queue' \in [Classes -> Seq(Clients)]
    <3>1. queue' = queue \/ queue' = [class \in Classes |-> <<>>]
      BY <2>1 DEF Complete, RejectWaiters
    <3>2. queue \in [Classes -> Seq(Clients)]
      BY DEF TypeOK
    <3>3. [class \in Classes |-> <<>>] \in [Classes -> Seq(Clients)]
      OBVIOUS
    <3> QED
      BY <3>1, <3>2, <3>3
  <2>6. client' \in [Clients -> Request]
    BY <2>1, Fresh DEF Complete, RejectWaiters, TypeOK
  <2>7. \A d \in Clients : client'[d] = NoRequest \/ client'[d] = client[d]
    BY <2>1 DEF Complete, RejectWaiters
  <2>8. \A d \in Clients : In(d, "reporting")' => client'[d].outcome # "none"
    BY <2>6, <2>7, TypeAnswers
  <2> QED
    BY <2>3, <2>4, <2>5, <2>6, <2>8 DEF TypeOK
<1>3. CASE Abandoned
  <2>1. dropped' \in Nat /\ active' \in 0..SafeMax /\ actor' = "advancing" /\ timer' = FALSE
          /\ UNCHANGED <<circuit, failures, past, used, queue, allowed, client>>
    BY <1>3 DEF Abandoned, SaturatingDec, GrantAgain, TypeOK
  <2> QED
    BY <2>1 DEF TypeOK, In
<1>4. CASE Pause
  <2>1. client' \in [Clients -> Request]
    BY <1>4, Fresh DEF Pause, TypeOK
  <2>2. \A d \in Clients : client'[d] = NoRequest \/ client'[d] = client[d]
    BY <1>4 DEF Pause
  <2>3. \A d \in Clients : In(d, "reporting")' => client'[d].outcome # "none"
    BY <2>1, <2>2, TypeAnswers
  <2>4. queue' \in [Classes -> Seq(Clients)] /\ circuit' \in Circuits
    BY <1>4 DEF Pause, Circuits
  <2> QED
    BY <1>4, <2>1, <2>3, <2>4 DEF Pause, GrantAgain, TypeOK
<1>5. CASE Resume
  BY <1>5 DEF Resume, GrantAgain, TypeOK, Circuits, In
<1>6. CASE Policy
  BY <1>6 DEF Policy, GrantAgain, TypeOK, In
<1> QED
  BY <1>1, <1>2, <1>3, <1>4, <1>5, <1>6 DEF Command

\* The oldest waiter of a class that is ready, and the queue without it.
LEMMA Oldest ==
    ASSUME TypeOK, NEW class \in Classes, BestReady(class)
    PROVE  /\ queue[class] # <<>> /\ queue[class] \in Seq(Clients)
           /\ Head(queue[class]) \in Clients /\ Tail(queue[class]) \in Seq(Clients)
<1>1. queue[class] # <<>> /\ queue[class] \in Seq(Clients)
  BY DEF BestReady, Ready, TypeOK
<1> QED
  BY <1>1

LEMMA TypeGranting ==
    ASSUME TypeOK, Granting
    PROVE  TypeOK'
<1>0. NextWait' \in BOOLEAN
  BY DEF NextWait
<1>1. CASE AdvanceCooldown
  BY <1>1 DEF AdvanceCooldown, TypeOK, Circuits, In
<1>2. CASE SkipClosed
  <2>1. PICK class \in Classes :
          /\ BestReady(class)
          /\ queue' = [queue EXCEPT ![class] = Tail(@)]
          /\ client' = [client EXCEPT ![Head(queue[class])] = NoRequest]
    BY <1>2 DEF SkipClosed
  <2>2. queue' \in [Classes -> Seq(Clients)] /\ client' \in [Clients -> Request]
    BY <2>1, Oldest, Fresh DEF TypeOK
  <2>3. \A d \in Clients : In(d, "reporting")' => client'[d].outcome # "none"
    BY <2>1, <2>2, TypeAnswers DEF TypeOK
  <2> QED
    BY <1>2, <2>2, <2>3 DEF SkipClosed, TypeOK
<1>3. CASE Pick
  <2>1. PICK class \in Classes :
          /\ BestReady(class)
          /\ queue' = [queue EXCEPT ![class] = Tail(@)]
          /\ client' = [client EXCEPT ![Head(queue[class])].phase = "picked"]
          /\ past' = past \ Restarting(class, Head(queue[class]))
          /\ used' = IF LimitOf[Head(queue[class])] = 0 THEN used
                     ELSE IF "window" \in past THEN 1 ELSE used + 1
    BY <1>3 DEF Pick
  <2> DEFINE c == Head(queue[class])
             r == [client[c] EXCEPT !.phase = "picked"]
  <2>2. c \in Clients /\ client[c] \in Request
    BY <2>1, Oldest DEF TypeOK
  <2>3. r \in Request /\ r.phase = "picked"
    BY <2>2, Updates DEF Phases
  <2>4. client' = [client EXCEPT ![c] = r]
    BY <2>1, <2>2 DEF TypeOK
  <2>5. queue' \in [Classes -> Seq(Clients)]
    BY <2>1, Oldest DEF TypeOK
  <2>6. used' \in Nat /\ past' \subseteq Deadlines
    BY <2>1, <2>2 DEF TypeOK
  <2> HIDE DEF r, c
  <2>7. client' \in [Clients -> Request]
    BY <2>2, <2>3, <2>4 DEF TypeOK
  <2>8. \A d \in Clients : In(d, "reporting")' => client'[d].outcome # "none"
    BY <2>2, <2>3, <2>4, <2>7, TypeAnswers DEF TypeOK
  <2>9. active < allowed /\ active' = active + 1 /\ actor' = "persisting"
          /\ UNCHANGED <<circuit, failures, allowed, timer, dropped>>
    BY <1>3 DEF Pick, MayGrant
  <2> QED
    BY <2>5, <2>6, <2>7, <2>8, <2>9 DEF TypeOK
<1>4. CASE Deliver
  <2>1. \A c \in Clients : client'[c] = NoRequest \/ client'[c] = client[c]
                            \/ client'[c] = [client[c] EXCEPT !.phase = "granted"]
    BY <1>4 DEF Deliver
  <2>2. client' \in [Clients -> Request]
    <3>1. \A c \in Clients : client[c] \in Request
                              /\ [client[c] EXCEPT !.phase = "granted"] \in Request
      BY Updates DEF TypeOK, Phases
    <3>2. client' = [c \in Clients |-> client'[c]]
      BY <1>4 DEF Deliver
    <3>3. \A c \in Clients : client'[c] \in Request
      BY <2>1, <3>1, Fresh
    <3> QED
      BY <3>2, <3>3
  <2>3. \A c \in Clients : \/ client'[c] = NoRequest \/ client'[c] = client[c]
                            \/ client'[c].phase \in {"queued", "picked", "granted"}
    <3>1. \A c \in Clients : [client[c] EXCEPT !.phase = "granted"].phase = "granted"
      <4> TAKE c \in Clients
      <4>1. client[c] \in Request /\ "granted" \in Phases
        BY DEF TypeOK, Phases
      <4> QED
        BY <4>1 DEF Request
    <3> QED
      BY <2>1, <3>1
  <2>4. \A d \in Clients : In(d, "reporting")' => client'[d].outcome # "none"
    BY <2>2, <2>3, TypeAnswers
  <2>5. UNCHANGED <<circuit, failures, past, used, queue, active, allowed, dropped>>
          /\ actor' = "waiting" /\ timer' \in BOOLEAN
    BY <1>4, <1>0 DEF Deliver, Sleep
  <2> QED
    BY <2>2, <2>4, <2>5 DEF TypeOK
<1>5. CASE PersistFails
  <2>1. client' \in [Clients -> Request]
    BY <1>5, Fresh DEF PersistFails, TypeOK
  <2>2. \A d \in Clients : client'[d] = NoRequest \/ client'[d] = client[d]
    BY <1>5 DEF PersistFails
  <2>3. \A d \in Clients : In(d, "reporting")' => client'[d].outcome # "none"
    BY <2>1, <2>2, TypeAnswers
  <2>4. active' \in 0..SafeMax
    BY <1>5 DEF PersistFails, SaturatingDec, TypeOK
  <2>5. UNCHANGED <<circuit, failures, past, used, queue, allowed, dropped>>
          /\ actor' = "waiting" /\ timer' \in BOOLEAN
    BY <1>5, <1>0 DEF PersistFails, Sleep
  <2> QED
    BY <2>1, <2>3, <2>4, <2>5 DEF TypeOK
<1>6. CASE NothingToGrant
  BY <1>6, <1>0 DEF NothingToGrant, Sleep, TypeOK, In
<1>7. CASE Wake
  BY <1>7 DEF Wake, GrantAgain, TypeOK, In
<1> QED
  BY <1>1, <1>2, <1>3, <1>4, <1>5, <1>6, <1>7 DEF Granting

LEMMA TypeInit == Init => TypeOK
<1> SUFFICES ASSUME Init PROVE TypeOK
  OBVIOUS
<1>1. client \in [Clients -> Request] /\ \A c \in Clients : client[c].phase = "idle"
  BY Fresh DEF Init
<1>2. queue \in [Classes -> Seq(Clients)]
  BY DEF Init
<1>3. circuit \in Circuits /\ failures = 0 /\ past = Deadlines /\ used = 0 /\ active = 0
        /\ allowed = SafeMax /\ actor = "advancing" /\ timer = FALSE /\ dropped = 0
  BY DEF Init, Circuits
<1>4. \A c \in Clients : In(c, "reporting") => client[c].outcome # "none"
  BY <1>1 DEF In
<1>5. failures \in 0..3 /\ used \in Nat /\ dropped \in Nat
        /\ active \in 0..SafeMax /\ allowed \in 1..SafeMax
  BY <1>3
<1> QED
  BY <1>1, <1>2, <1>3, <1>4, <1>5 DEF TypeOK

LEMMA TypeNext == TypeOK /\ [Next]_vars => TypeOK'
<1> SUFFICES ASSUME TypeOK, [Next]_vars PROVE TypeOK'
  OBVIOUS
<1>1. CASE \E c \in Clients : Caller(c)
  BY <1>1, TypeCaller
<1>2. CASE Command
  BY <1>2, TypeCommand
<1>3. CASE Granting
  BY <1>3, TypeGranting
<1>4. CASE \E deadline \in Deadlines : TimePasses(deadline)
  BY <1>4 DEF TimePasses, TypeOK, In
<1>5. CASE Restart
  <2>1. client' \in [Clients -> Request] /\ \A c \in Clients : client'[c].phase = "idle"
    BY <1>5, Fresh DEF Restart
  <2>2. queue' \in [Classes -> Seq(Clients)]
    BY <1>5 DEF Restart
  <2>3. past' \subseteq Deadlines /\ used' = 0 /\ active' = 0 /\ dropped' = 0
          /\ actor' = "advancing" /\ timer' = FALSE /\ UNCHANGED <<circuit, failures, allowed>>
    BY <1>5 DEF Restart, GrantAgain, TypeOK, Deadlines
  <2>4. \A c \in Clients : In(c, "reporting")' => client'[c].outcome # "none"
    BY <2>1 DEF In
  <2>5. circuit' \in Circuits /\ failures' \in 0..3 /\ used' \in Nat /\ dropped' \in Nat
          /\ active' \in 0..SafeMax /\ allowed' \in 1..SafeMax
    BY <2>3 DEF TypeOK
  <2> QED
    BY <2>1, <2>2, <2>3, <2>4, <2>5 DEF TypeOK
<1>6. CASE UNCHANGED vars
  BY <1>6 DEF vars, TypeOK, In
<1> QED
  BY <1>1, <1>2, <1>3, <1>4, <1>5, <1>6 DEF Next

\* Types are kept for every set of clients: the permits in use never exceed the
\* provider's safe concurrency, and only a finished request has an outcome.
THEOREM TypeCorrect == Spec => []TypeOK
<1> QED
  BY TypeInit, TypeNext, PTL DEF Spec

-----------------------------------------------------------------------------
(***************************************************************************)
(* Counting permits.  The inductive invariant says where waiters are: a    *)
(* queue holds each of its waiters once, every waiter in a queue has asked *)
(* for its class and holds nothing yet; and the permit the actor is        *)
(* persisting belongs to somebody.                                         *)
(***************************************************************************)
WaitersOK ==
    \A class \in Classes : \A i \in 1..Len(queue[class]) :
        In(queue[class][i], "queued") /\ client[queue[class][i]].class = class
OnceOK ==
    \A class \in Classes : \A i, j \in 1..Len(queue[class]) :
        queue[class][i] = queue[class][j] => i = j
PickedOK == actor = "persisting" => \E c \in Clients : In(c, "picked")
CountOK  == Cardinality(Holding) + dropped <= active

CountInv == TypeOK /\ WaitersOK /\ OnceOK /\ PickedOK /\ CountOK

\* What one more or one less holder does to their number.
LEMMA Holders ==
    ASSUME NEW S \in SUBSET Clients, NEW T \in SUBSET Clients
    PROVE  /\ Cardinality(S) \in Nat
           /\ S \subseteq T => Cardinality(S) <= Cardinality(T)
           /\ \A c \in T : S \subseteq T \ {c} => Cardinality(S) + 1 <= Cardinality(T)
           /\ \A c : S \subseteq T \cup {c} => Cardinality(S) <= Cardinality(T) + 1
<1>1. IsFiniteSet(S) /\ IsFiniteSet(T)
  BY FS_Subset
<1>2. Cardinality(S) \in Nat /\ Cardinality(T) \in Nat
  BY <1>1, FS_CardinalityType
<1>3. S \subseteq T => Cardinality(S) <= Cardinality(T)
  BY <1>1, FS_Subset
<1>4. ASSUME NEW c \in T, S \subseteq T \ {c}
      PROVE  Cardinality(S) + 1 <= Cardinality(T)
  <2>1. IsFiniteSet(T \ {c}) /\ Cardinality(T \ {c}) = Cardinality(T) - 1
    BY <1>1, FS_RemoveElement
  <2>2. Cardinality(S) <= Cardinality(T \ {c})
    BY <1>4, <2>1, FS_Subset
  <2> QED
    BY <2>1, <2>2, <1>2
<1>5. ASSUME NEW c, S \subseteq T \cup {c}
      PROVE  Cardinality(S) <= Cardinality(T) + 1
  <2>1. IsFiniteSet(T \cup {c}) /\ Cardinality(T \cup {c}) <= Cardinality(T) + 1
    <3>1. IsFiniteSet(T \cup {c})
            /\ Cardinality(T \cup {c}) = IF c \in T THEN Cardinality(T) ELSE Cardinality(T) + 1
      BY <1>1, FS_AddElement
    <3>2. CASE c \in T
      BY <3>1, <3>2, <1>2
    <3>3. CASE c \notin T
      BY <3>1, <3>3, <1>2
    <3> QED
      BY <3>2, <3>3
  <2>2. Cardinality(S) <= Cardinality(T \cup {c}) /\ Cardinality(T \cup {c}) \in Nat
    BY <1>5, <2>1, FS_Subset, FS_CardinalityType
  <2> QED
    BY <2>1, <2>2, <1>2
<1> QED
  BY <1>2, <1>3, <1>4, <1>5

\* A step that leaves the queues alone and takes no waiter out of its phase.
LEMMA SameQueues ==
    ASSUME TypeOK, WaitersOK, OnceOK, queue' = queue,
           \A c \in Clients : In(c, "queued") =>
               client'[c].phase = "queued" /\ client'[c].class = client[c].class
    PROVE  WaitersOK' /\ OnceOK'
<1>1. \A class \in Classes : \A i \in 1..Len(queue[class]) : queue[class][i] \in Clients
  BY DEF TypeOK
<1>2. WaitersOK'
  BY <1>1 DEF WaitersOK, In
<1>3. OnceOK'
  BY DEF OnceOK
<1> QED
  BY <1>2, <1>3

LEMMA NoQueues ==
    ASSUME queue' = [class \in Classes |-> <<>>]
    PROVE  WaitersOK' /\ OnceOK'
<1>1. \A class \in Classes : Len(queue'[class]) = 0
  OBVIOUS
<1> QED
  BY <1>1 DEF WaitersOK, OnceOK

\* Taking the oldest waiter c of a class out of its queue.
LEMMA ShorterQueue ==
    ASSUME TypeOK, WaitersOK, OnceOK, NEW class \in Classes, BestReady(class),
           queue' = [queue EXCEPT ![class] = Tail(@)],
           \A d \in Clients \ {Head(queue[class])} : client'[d] = client[d]
    PROVE  WaitersOK' /\ OnceOK'
<1> DEFINE c == Head(queue[class])
           q == queue[class]
<1>1. q # <<>> /\ q \in Seq(Clients) /\ c = q[1] /\ Len(q) \in Nat \ {0}
  BY Oldest
<1>2. /\ Tail(q) \in Seq(Clients) /\ Len(Tail(q)) = Len(q) - 1
      /\ \A i \in 1..Len(Tail(q)) : Tail(q)[i] = q[i + 1] /\ i + 1 \in 1..Len(q)
  BY <1>1
<1>3. queue'[class] = Tail(q) /\ \A other \in Classes \ {class} : queue'[other] = queue[other]
  BY DEF TypeOK
<1>4. ASSUME NEW other \in Classes, NEW i \in 1..Len(queue'[other])
      PROVE  client'[queue'[other][i]].phase = "queued" /\ client'[queue'[other][i]].class = other
  <2>1. CASE other = class
    <3>0. i \in 1..Len(Tail(q)) /\ queue'[other] = Tail(q)
      BY <2>1, <1>3
    <3>1. queue'[other][i] = q[i + 1] /\ i + 1 \in 1..Len(q) /\ i + 1 # 1
      <4>1. i \in Nat /\ i > 0
        BY <3>0, <1>1, <1>2
      <4>2. Tail(q)[i] = q[i + 1] /\ i + 1 \in 1..Len(q)
        BY <3>0, <1>2
      <4>3. i + 1 # 1
        BY <4>1
      <4>4. queue'[other][i] = Tail(q)[i]
        BY <3>0
      <4> QED
        BY <4>2, <4>3, <4>4
    <3>2. q[i + 1] # c /\ q[i + 1] \in Clients
      BY <3>1, <1>1 DEF OnceOK
    <3>3. client'[q[i + 1]] = client[q[i + 1]]
      BY <3>2
    <3> QED
      BY <3>1, <3>3, <2>1 DEF WaitersOK, In
  <2>2. CASE other # class
    <3>1. queue'[other] = queue[other] /\ queue[other] \in Seq(Clients)
      BY <2>2, <1>3 DEF TypeOK
    <3>2. client[queue[other][i]].class = other /\ In(queue[other][i], "queued")
            /\ queue[other][i] \in Clients
      BY <3>1, <1>4 DEF WaitersOK
    <3>3. client[c].class = class
      BY <1>1 DEF WaitersOK
    <3>4. client'[queue[other][i]] = client[queue[other][i]]
      BY <3>2, <3>3, <2>2
    <3> QED
      BY <3>1, <3>2, <3>4 DEF In
  <2> QED
    BY <2>1, <2>2
<1>5. ASSUME NEW other \in Classes, NEW i \in 1..Len(queue'[other]), NEW j \in 1..Len(queue'[other]),
             queue'[other][i] = queue'[other][j]
      PROVE  i = j
  <2>1. CASE other = class
    <3>1. q[i + 1] = q[j + 1] /\ i + 1 \in 1..Len(q) /\ j + 1 \in 1..Len(q)
      BY <2>1, <1>2, <1>3, <1>5
    <3>2. i + 1 = j + 1
      BY <3>1 DEF OnceOK
    <3> QED
      BY <3>2
  <2>2. CASE other # class
    BY <2>2, <1>3, <1>5 DEF OnceOK
  <2> QED
    BY <2>1, <2>2
<1> QED
  BY <1>4, <1>5 DEF WaitersOK, OnceOK, In

\* Fewer holders, with the same permits in use.
LEMMA FewerHolders ==
    ASSUME CountOK, TypeOK, TypeOK', Holding' \subseteq Holding,
           active' = active, dropped' = dropped
    PROVE  CountOK'
<1>1. Holding \in SUBSET Clients /\ Holding' \in SUBSET Clients
  BY DEF Holding
<1>2. Cardinality(Holding') <= Cardinality(Holding)
        /\ Cardinality(Holding') \in Nat /\ Cardinality(Holding) \in Nat
  BY <1>1, Holders
<1> QED
  BY <1>2 DEF CountOK, TypeOK

\* One holder less, with one permit less in use or one more on its way back.
LEMMA OneHolderLess ==
    ASSUME CountOK, TypeOK, TypeOK', NEW c \in Holding, Holding' \subseteq Holding \ {c},
           \/ active' = SaturatingDec(active) /\ dropped' = dropped
           \/ active' = active /\ dropped' = dropped + 1
    PROVE  CountOK'
<1>1. Holding \in SUBSET Clients /\ Holding' \in SUBSET Clients
  BY DEF Holding
<1>2. Cardinality(Holding') + 1 <= Cardinality(Holding)
        /\ Cardinality(Holding') \in Nat /\ Cardinality(Holding) \in Nat
  BY <1>1, Holders
<1>3. active \in Nat /\ dropped \in Nat
  BY DEF TypeOK
<1>4. Cardinality(Holding) + dropped <= active
  BY DEF CountOK
<1>5. active # 0
  BY <1>2, <1>3, <1>4
<1>6. Cardinality(Holding') + dropped' <= active'
  BY <1>2, <1>3, <1>4, <1>5 DEF SaturatingDec
<1> QED
  BY <1>6 DEF CountOK

LEMMA CountCaller ==
    ASSUME CountInv, TypeOK', NEW c \in Clients, Caller(c)
    PROVE  CountInv'
<1> DEFINE Keeps(d) == /\ In(d, "queued") => client'[d].phase = "queued"
                                               /\ client'[d].class = client[d].class
                       /\ In(d, "picked") => client'[d].phase = "picked"
<1>1. queue' = queue /\ actor' = actor /\ active' = active
  BY DEF Caller, Ask, GiveUp, Receive, DropPermit, Finish
<1>2. \A d \in Clients \ {c} : client'[d] = client[d]
  BY DEF Caller, Ask, GiveUp, Receive, DropPermit, Finish, CountInv, TypeOK
<1>3. Keeps(c) /\ (\/ Holding' \subseteq Holding /\ dropped' = dropped
                   \/ c \in Holding /\ Holding' \subseteq Holding \ {c} /\ dropped' = dropped + 1)
  <2>1. client[c] \in Request /\ client \in [Clients -> Request]
    BY DEF CountInv, TypeOK
  <2>2. CASE \E class \in Classes : Ask(c, class)
    <3>1. PICK class \in Classes : Ask(c, class)
      BY <2>2
    <3>2. client'[c].phase = "asking" /\ client[c].phase = "idle" /\ dropped' = dropped
      BY <3>1, <2>1, Fresh DEF Ask, In
    <3> QED
      BY <3>2, <1>2 DEF Holding, In
  <2>3. CASE GiveUp(c)
    <3>1. dropped' = dropped
      BY <2>3 DEF GiveUp
    <3>2. CASE In(c, "granted")
      <4>1. client'[c] = NoRequest
        BY <3>2, <2>3, <2>1 DEF GiveUp
      <4> QED
        BY <4>1, <3>1, <3>2, <1>2, Fresh DEF Holding, In
    <3>3. CASE ~In(c, "granted")
      <4>1. client' = [client EXCEPT ![c] = [client[c] EXCEPT !.open = FALSE]]
        BY <3>3, <2>3, <2>1 DEF GiveUp
      <4>2. client'[c] = [client[c] EXCEPT !.open = FALSE]
        BY <4>1, <2>1
      <4>3. client'[c].phase = client[c].phase /\ client'[c].class = client[c].class
        BY <4>2, <2>1, Updates
      <4> QED
        BY <4>3, <3>1, <1>2 DEF Holding, In
    <3> QED
      BY <3>2, <3>3
  <2>4. CASE Receive(c)
    <3>1. client'[c].phase = "working" /\ client[c].phase = "granted" /\ dropped' = dropped
      BY <2>4, <2>1 DEF Receive, In, Request
    <3> QED
      BY <3>1, <1>2 DEF Holding, In
  <2>5. CASE DropPermit(c)
    <3>1. client'[c] = NoRequest /\ client[c].phase = "working" /\ dropped' = dropped + 1
      BY <2>5, <2>1 DEF DropPermit, In
    <3> QED
      BY <3>1, <1>2, Fresh DEF Holding, In
  <2>6. CASE \E kind \in Kinds : Finish(c, kind)
    <3>1. PICK kind \in Kinds : Finish(c, kind)
      BY <2>6
    <3>2. client'[c].phase = "reporting" /\ client[c].phase = "working" /\ dropped' = dropped
      BY <3>1, <2>1 DEF Finish, In, Request
    <3> QED
      BY <3>2, <1>2 DEF Holding, In
  <2> QED
    BY <2>2, <2>3, <2>4, <2>5, <2>6 DEF Caller
<1>4. WaitersOK' /\ OnceOK'
  <2>1. \A d \in Clients : Keeps(d)
    BY <1>2, <1>3 DEF In
  <2>2. \A d \in Clients : In(d, "queued") =>
            client'[d].phase = "queued" /\ client'[d].class = client[d].class
    BY <2>1
  <2> HIDE DEF Keeps
  <2> QED
    BY <1>1, <2>2, SameQueues DEF CountInv
<1>5. PickedOK'
  BY <1>1, <1>2, <1>3 DEF CountInv, PickedOK, In
<1>6. CountOK'
  BY <1>1, <1>3, FewerHolders, OneHolderLess DEF CountInv
<1> QED
  BY <1>4, <1>5, <1>6 DEF CountInv

LEMMA CountCommand ==
    ASSUME CountInv, TypeOK', Command
    PROVE  CountInv'
<1>0. TypeOK /\ WaitersOK /\ OnceOK /\ CountOK /\ client \in [Clients -> Request]
  BY DEF CountInv, TypeOK
<1>1. actor' = "advancing"
  BY DEF Command, Acquire, Complete, Abandoned, Pause, Resume, Policy, GrantAgain
<1>2. PickedOK'
  BY <1>1 DEF PickedOK
<1>3. CASE \E c \in Clients : Acquire(c)
  <2>1. PICK c \in Clients : Acquire(c)
    BY <1>3
  <2>2. active' = active /\ dropped' = dropped /\ client[c].phase = "asking"
          /\ client[c].class \in Classes /\ client[c] \in Request
    BY <2>1, <1>0 DEF Acquire, In, Request
  <2>3. CASE Refused(c)
    <3>1. client' = [client EXCEPT ![c] = NoRequest] /\ queue' = queue
      BY <2>1, <2>3 DEF Acquire
    <3>2. client'[c] = NoRequest /\ \A d \in Clients \ {c} : client'[d] = client[d]
      BY <3>1, <1>0
    <3>3. Holding' \subseteq Holding
      BY <3>2, Fresh DEF Holding
    <3>4. \A d \in Clients : In(d, "queued") =>
              client'[d].phase = "queued" /\ client'[d].class = client[d].class
      BY <3>2, <2>2 DEF In
    <3>5. WaitersOK' /\ OnceOK'
      BY <3>1, <3>4, <1>0, SameQueues
    <3>6. CountOK'
      BY <3>3, <2>2, <1>0, FewerHolders
    <3> QED
      BY <3>5, <3>6, <1>2 DEF CountInv
  <2>4. CASE ~Refused(c)
    <3> DEFINE class == client[c].class
               q == queue[class]
    <3>1. client' = [client EXCEPT ![c] = [client[c] EXCEPT !.phase = "queued"]]
            /\ queue' = [queue EXCEPT ![class] = Append(q, c)]
      BY <2>1, <2>4, <1>0 DEF Acquire, TypeOK
    <3>2. client'[c].phase = "queued" /\ client'[c].class = class
            /\ \A d \in Clients \ {c} : client'[d] = client[d]
      BY <3>1, <2>2, <1>0 DEF Request
    <3>3. Holding' \subseteq Holding
      BY <3>2 DEF Holding
    <3>4. queue'[class] = Append(q, c)
            /\ \A other \in Classes \ {class} : queue'[other] = queue[other]
      BY <3>1, <2>2, <1>0 DEF TypeOK
    <3>5. q \in Seq(Clients)
      BY <2>2, <1>0 DEF TypeOK
    <3>6. /\ Len(Append(q, c)) = Len(q) + 1 /\ Append(q, c)[Len(q) + 1] = c
          /\ \A i \in 1..Len(q) : Append(q, c)[i] = q[i]
          /\ Len(q) \in Nat
      BY <3>5
    <3>7. \A other \in Classes : \A i \in 1..Len(queue[other]) :
              queue[other][i] \in Clients /\ queue[other][i] # c
      BY <2>2, <1>0 DEF TypeOK, WaitersOK, In
    <3> HIDE DEF class, q
    <3>8. class \in Classes
      BY <2>2 DEF class
    <3>9. ASSUME NEW other \in Classes, NEW i \in 1..Len(queue'[other])
          PROVE  client'[queue'[other][i]].phase = "queued"
                   /\ client'[queue'[other][i]].class = other
      <4>1. CASE other # class
        <5>1. queue'[other] = queue[other]
          BY <4>1, <3>4
        <5>2. queue[other][i] \in Clients \ {c} /\ client[queue[other][i]].phase = "queued"
                /\ client[queue[other][i]].class = other
          BY <5>1, <3>7, <3>9, <1>0 DEF WaitersOK, In
        <5> QED
          BY <5>1, <5>2, <3>2
      <4>2. CASE other = class /\ i = Len(q) + 1
        BY <4>2, <3>4, <3>6, <3>2
      <4>3. CASE other = class /\ i # Len(q) + 1
        <5>1. i \in 1..Len(q)
          BY <4>3, <3>4, <3>6
        <5>2. queue'[other][i] = q[i]
          BY <5>1, <4>3, <3>4, <3>6
        <5>3. q[i] \in Clients \ {c} /\ client[q[i]].phase = "queued" /\ client[q[i]].class = class
          BY <5>1, <3>7, <3>8, <1>0 DEF WaitersOK, In, q
        <5> QED
          BY <5>2, <5>3, <4>3, <3>2
      <4> QED
        BY <4>1, <4>2, <4>3
    <3>10. ASSUME NEW other \in Classes,
                  NEW i \in 1..Len(queue'[other]), NEW j \in 1..Len(queue'[other]),
                  queue'[other][i] = queue'[other][j]
           PROVE  i = j
      <4>1. CASE other # class
        BY <4>1, <3>4, <3>10, <1>0 DEF OnceOK
      <4>2. CASE other = class
        <5>1. i \in 1..(Len(q) + 1) /\ j \in 1..(Len(q) + 1)
          BY <4>2, <3>4, <3>6
        <5>2. \A k \in 1..Len(q) : Append(q, c)[k] = q[k] /\ q[k] # c
          BY <3>6, <3>7, <3>8 DEF q
        <5>3. Append(q, c)[i] = Append(q, c)[j]
          BY <4>2, <3>4, <3>10
        <5>4. CASE i \in 1..Len(q) /\ j \in 1..Len(q)
          BY <5>2, <5>3, <5>4, <3>8, <1>0 DEF OnceOK, q
        <5>5. CASE i = Len(q) + 1 \/ j = Len(q) + 1
          BY <5>1, <5>2, <5>3, <5>5, <3>6
        <5> QED
          BY <5>1, <5>4, <5>5, <3>6
      <4> QED
        BY <4>1, <4>2
    <3>11. WaitersOK' /\ OnceOK'
      BY <3>9, <3>10 DEF WaitersOK, OnceOK, In
    <3>12. CountOK'
      BY <3>3, <2>2, <1>0, FewerHolders
    <3> QED
      BY <3>11, <3>12, <1>2 DEF CountInv
  <2> QED
    BY <2>3, <2>4
<1>4. CASE \E c \in Clients : Complete(c)
  <2>1. PICK c \in Clients : Complete(c)
    BY <1>4
  <2>2. c \in Holding /\ client[c].phase = "reporting"
          /\ active' = SaturatingDec(active) /\ dropped' = dropped
    BY <2>1 DEF Complete, Holding, In
  <2>3. client'[c] = NoRequest
          /\ \A d \in Clients : client'[d] = NoRequest \/ client'[d] = client[d]
    BY <2>1 DEF Complete, RejectWaiters
  <2>4. Holding' \subseteq Holding \ {c}
    BY <2>3, Fresh DEF Holding
  <2>5. WaitersOK' /\ OnceOK'
    <3>1. CASE Unavailable'
      BY <2>1, <3>1, NoQueues DEF Complete, RejectWaiters
    <3>2. CASE ~Unavailable'
      <4>1. queue' = queue /\ \A d \in Clients \ {c} : client'[d] = client[d]
        BY <2>1, <3>2 DEF Complete, RejectWaiters
      <4>2. \A d \in Clients : In(d, "queued") =>
                client'[d].phase = "queued" /\ client'[d].class = client[d].class
        BY <4>1, <2>2 DEF In
      <4> QED
        BY <4>1, <4>2, <1>0, SameQueues
    <3> QED
      BY <3>1, <3>2
  <2>6. CountOK'
    BY <2>2, <2>4, <1>0, OneHolderLess
  <2> QED
    BY <2>5, <2>6, <1>2, <1>0 DEF CountInv
<1>5. CASE Abandoned
  <2>1. dropped > 0 /\ dropped' = dropped - 1 /\ active' = SaturatingDec(active)
          /\ client' = client /\ queue' = queue
    BY <1>5 DEF Abandoned
  <2>2. Holding' = Holding /\ Cardinality(Holding) \in Nat
    <3>1. Holding \in SUBSET Clients
      BY DEF Holding
    <3> QED
      BY <2>1, <3>1, Holders DEF Holding
  <2>3. CountOK'
    <3>1. active \in Nat /\ dropped \in Nat /\ Cardinality(Holding) + dropped <= active
      BY <1>0 DEF TypeOK, CountOK
    <3>2. active # 0
      BY <3>1, <2>1, <2>2
    <3>3. Cardinality(Holding) + (dropped - 1) <= active - 1
      BY <3>1, <2>2
    <3>4. active' = active - 1
      BY <3>2, <2>1 DEF SaturatingDec
    <3>5. Cardinality(Holding') + dropped' <= active'
      BY <3>3, <3>4, <2>1, <2>2
    <3> QED
      BY <3>5 DEF CountOK
  <2>4. WaitersOK' /\ OnceOK'
    BY <2>1, <1>0, SameQueues DEF In
  <2> QED
    BY <2>3, <2>4, <1>2 DEF CountInv
<1>6. CASE Pause
  <2>1. active' = active /\ dropped' = dropped /\ queue' = [class \in Classes |-> <<>>]
          /\ \A d \in Clients : client'[d] = NoRequest \/ client'[d] = client[d]
    BY <1>6 DEF Pause
  <2>2. Holding' \subseteq Holding
    BY <2>1, Fresh DEF Holding
  <2>3. WaitersOK' /\ OnceOK'
    BY <2>1, NoQueues
  <2>4. CountOK'
    BY <2>1, <2>2, <1>0, FewerHolders
  <2> QED
    BY <2>3, <2>4, <1>2 DEF CountInv
<1>7. CASE Resume \/ Policy
  <2>1. active' = active /\ dropped' = dropped /\ queue' = queue /\ client' = client
    BY <1>7 DEF Resume, Policy
  <2>2. Holding' \subseteq Holding
    BY <2>1 DEF Holding
  <2>3. WaitersOK' /\ OnceOK'
    BY <2>1, <1>0, SameQueues DEF In
  <2>4. CountOK'
    BY <2>1, <2>2, <1>0, FewerHolders
  <2> QED
    BY <2>3, <2>4, <1>2 DEF CountInv
<1> QED
  BY <1>3, <1>4, <1>5, <1>6, <1>7 DEF Command

LEMMA CountGranting ==
    ASSUME CountInv, TypeOK', Granting
    PROVE  CountInv'
<1>0. TypeOK /\ WaitersOK /\ OnceOK /\ CountOK /\ client \in [Clients -> Request]
  BY DEF CountInv, TypeOK
<1>1. CASE AdvanceCooldown \/ NothingToGrant \/ Wake
  <2>1. active' = active /\ dropped' = dropped /\ queue' = queue /\ client' = client
          /\ actor' # "persisting"
    BY <1>1 DEF AdvanceCooldown, NothingToGrant, Wake, Sleep, GrantAgain
  <2>2. Holding' \subseteq Holding
    BY <2>1 DEF Holding
  <2>3. WaitersOK' /\ OnceOK'
    BY <2>1, <1>0, SameQueues DEF In
  <2>4. CountOK'
    BY <2>1, <2>2, <1>0, FewerHolders
  <2> QED
    BY <2>1, <2>3, <2>4 DEF CountInv, PickedOK
<1>2. CASE SkipClosed
  <2>1. PICK class \in Classes :
          /\ BestReady(class)
          /\ queue' = [queue EXCEPT ![class] = Tail(@)]
          /\ client' = [client EXCEPT ![Head(queue[class])] = NoRequest]
    BY <1>2 DEF SkipClosed
  <2> DEFINE c == Head(queue[class])
  <2>2. c \in Clients
    BY <2>1, <1>0, Oldest
  <2>3. client'[c] = NoRequest /\ \A d \in Clients \ {c} : client'[d] = client[d]
    BY <2>1, <2>2, <1>0
  <2>4. Holding' \subseteq Holding
    BY <2>3, Fresh DEF Holding
  <2>5. WaitersOK' /\ OnceOK'
    BY <2>1, <2>3, <1>0, ShorterQueue
  <2>6. active' = active /\ dropped' = dropped /\ actor' = "granting"
    BY <1>2 DEF SkipClosed
  <2>7. CountOK'
    BY <2>4, <2>6, <1>0, FewerHolders
  <2> QED
    BY <2>5, <2>6, <2>7 DEF CountInv, PickedOK
<1>3. CASE Pick
  <2>1. PICK class \in Classes :
          /\ BestReady(class)
          /\ queue' = [queue EXCEPT ![class] = Tail(@)]
          /\ client' = [client EXCEPT ![Head(queue[class])].phase = "picked"]
    BY <1>3 DEF Pick
  <2> DEFINE c == Head(queue[class])
  <2>2. c \in Clients /\ client[c] \in Request
    BY <2>1, <1>0, Oldest
  <2>3. client'[c].phase = "picked" /\ \A d \in Clients \ {c} : client'[d] = client[d]
    BY <2>1, <2>2, <1>0 DEF Request
  <2>4. Holding' \subseteq Holding \cup {c}
    BY <2>3 DEF Holding
  <2>5. WaitersOK' /\ OnceOK'
    BY <2>1, <2>3, <1>0, ShorterQueue
  <2>6. PickedOK'
    BY <2>2, <2>3 DEF PickedOK, In
  <2>7. active' = active + 1 /\ dropped' = dropped
    BY <1>3 DEF Pick
  <2>8. CountOK'
    <3>1. Holding \in SUBSET Clients /\ Holding' \in SUBSET Clients
      BY DEF Holding
    <3> HIDE DEF c
    <3>2. Cardinality(Holding') <= Cardinality(Holding) + 1
            /\ Cardinality(Holding') \in Nat /\ Cardinality(Holding) \in Nat
      BY <2>4, <3>1, Holders
    <3>3. active \in Nat /\ dropped \in Nat /\ Cardinality(Holding) + dropped <= active
      BY <1>0 DEF TypeOK, CountOK
    <3>4. Cardinality(Holding') + dropped' <= active'
      BY <3>2, <3>3, <2>7
    <3> QED
      BY <3>4 DEF CountOK
  <2> QED
    BY <2>5, <2>6, <2>8 DEF CountInv
<1>4. CASE Deliver
  <2>1. active' = active /\ dropped' = dropped /\ queue' = queue /\ actor' = "waiting"
    BY <1>4 DEF Deliver, Sleep
  <2>2. \A d \in Clients : ~In(d, "picked") => client'[d] = client[d]
    BY <1>4 DEF Deliver
  <2>3. Holding' \subseteq Holding
    BY <2>2 DEF Holding, In
  <2>4. \A d \in Clients : In(d, "queued") =>
            client'[d].phase = "queued" /\ client'[d].class = client[d].class
    BY <2>2 DEF In
  <2>5. WaitersOK' /\ OnceOK'
    BY <2>1, <2>4, <1>0, SameQueues
  <2>6. CountOK'
    BY <2>1, <2>3, <1>0, FewerHolders
  <2> QED
    BY <2>1, <2>5, <2>6 DEF CountInv, PickedOK
<1>5. CASE PersistFails
  <2>1. active' = SaturatingDec(active) /\ dropped' = dropped /\ queue' = queue
          /\ actor' = "waiting"
    BY <1>5 DEF PersistFails, Sleep
  <2>2. PICK c \in Clients : In(c, "picked")
    BY <1>5 DEF PersistFails, CountInv, PickedOK
  <2>3. \A d \in Clients : client'[d] = IF In(d, "picked") THEN NoRequest ELSE client[d]
    BY <1>5 DEF PersistFails
  <2>4. c \in Holding /\ Holding' \subseteq Holding \ {c}
    BY <2>2, <2>3, Fresh DEF Holding, In
  <2>5. \A d \in Clients : In(d, "queued") =>
            client'[d].phase = "queued" /\ client'[d].class = client[d].class
    BY <2>3 DEF In
  <2>6. WaitersOK' /\ OnceOK'
    BY <2>1, <2>5, <1>0, SameQueues
  <2>7. CountOK'
    BY <2>1, <2>4, <1>0, OneHolderLess
  <2> QED
    BY <2>1, <2>6, <2>7 DEF CountInv, PickedOK
<1> QED
  BY <1>1, <1>2, <1>3, <1>4, <1>5 DEF Granting

\* Before the first request and after a restart nothing is held or waiting.
LEMMA Nothing ==
    ASSUME \A c \in Clients : client[c] = NoRequest
    PROVE  Cardinality(Holding) = 0
<1>1. Holding = {}
  BY Fresh DEF Holding
<1> QED
  BY <1>1, FS_EmptySet

LEMMA CountInit == Init => CountInv
<1> SUFFICES ASSUME Init PROVE CountInv
  OBVIOUS
<1>1. \A class \in Classes : Len(queue[class]) = 0
  BY DEF Init
<1>2. WaitersOK /\ OnceOK
  BY <1>1 DEF WaitersOK, OnceOK
<1>3. PickedOK
  BY DEF Init, PickedOK
<1>4. \A c \in Clients : client[c] = NoRequest
  BY DEF Init
<1>5. CountOK
  BY <1>4, Nothing DEF Init, CountOK
<1> QED
  BY <1>2, <1>3, <1>5, TypeInit DEF CountInv

LEMMA CountNext == CountInv /\ [Next]_vars => CountInv'
<1> SUFFICES ASSUME CountInv, [Next]_vars PROVE CountInv'
  OBVIOUS
<1>0. TypeOK /\ WaitersOK /\ OnceOK /\ CountOK /\ TypeOK'
  BY TypeNext DEF CountInv
<1>1. CASE \E c \in Clients : Caller(c)
  BY <1>1, <1>0, CountCaller
<1>2. CASE Command
  BY <1>2, <1>0, CountCommand
<1>3. CASE Granting
  BY <1>3, <1>0, CountGranting
<1>4. CASE UNCHANGED vars \/ \E deadline \in Deadlines : TimePasses(deadline)
  <2>1. active' = active /\ dropped' = dropped /\ queue' = queue /\ client' = client
          /\ actor' = actor
    BY <1>4 DEF TimePasses, vars
  <2>2. Holding' \subseteq Holding
    BY <2>1 DEF Holding
  <2>3. WaitersOK' /\ OnceOK'
    BY <2>1, <1>0, SameQueues DEF In
  <2>4. CountOK'
    BY <2>1, <2>2, <1>0, FewerHolders
  <2>5. PickedOK'
    BY <2>1 DEF CountInv, PickedOK, In
  <2> QED
    BY <1>0, <2>3, <2>4, <2>5 DEF CountInv
<1>5. CASE Restart
  <2>1. WaitersOK' /\ OnceOK'
    BY <1>5, NoQueues DEF Restart
  <2>2. PickedOK'
    BY <1>5 DEF Restart, GrantAgain, PickedOK
  <2>3. Holding' = {}
    BY <1>5, Fresh DEF Restart, Holding
  <2>4. CountOK'
    BY <1>5, <2>3, FS_EmptySet DEF Restart, CountOK
  <2> QED
    BY <1>0, <2>1, <2>2, <2>4 DEF CountInv
<1> QED
  BY <1>1, <1>2, <1>3, <1>4, <1>5 DEF Next

\* However callers time out, are cancelled or finish between the actor's awaits,
\* a permit in use is counted until it is settled once, so the requests at the
\* provider never exceed its safe concurrency.
THEOREM PermitsCounted == Spec => []PermitsAreCounted
<1>1. CountInv => PermitsAreCounted
  <2> SUFFICES ASSUME CountInv PROVE PermitsAreCounted
    OBVIOUS
  <2> DEFINE Working == {c \in Clients : In(c, "working")}
  <2>1. Working \in SUBSET Clients /\ Holding \in SUBSET Clients /\ Working \subseteq Holding
    BY DEF Holding, In
  <2>2. Cardinality(Working) <= Cardinality(Holding)
          /\ Cardinality(Working) \in Nat /\ Cardinality(Holding) \in Nat
    BY <2>1, Holders
  <2>3. active \in 0..SafeMax /\ dropped \in Nat /\ Cardinality(Holding) + dropped <= active
    BY DEF CountInv, CountOK, TypeOK
  <2>4. Cardinality(Working) <= SafeMax
    BY <2>2, <2>3
  <2> QED
    BY <2>3, <2>4 DEF PermitsAreCounted
<1> QED
  BY <1>1, CountInit, CountNext, PTL DEF Spec

\* A half-open circuit grants its probe only while no request of any class, from
\* before the cooldown either, still holds a permit.
THEOREM ProbesAlone == Spec => ProbeIsAlone
<1> DEFINE Alone == \A c \in Clients :
                      (circuit = "half_open" /\ ~In(c, "picked") /\ client'[c].phase = "picked")
                         => Holding = {}
<1>1. ASSUME CountInv, [Next]_vars
      PROVE  Alone
  <2>0. client \in [Clients -> Request] /\ TypeOK
    BY <1>1 DEF CountInv, TypeOK
  <2>1. CASE Pick
    <3> SUFFICES ASSUME circuit = "half_open" PROVE Holding = {}
      OBVIOUS
    <3>1. active = 0
      BY <2>1, <2>0 DEF Pick, MayGrant, Probing, TypeOK
    <3>2. Holding \in SUBSET Clients
      BY DEF Holding
    <3>3. Cardinality(Holding) = 0 /\ IsFiniteSet(Holding)
      <4>1. Cardinality(Holding) \in Nat /\ IsFiniteSet(Holding)
        BY <3>2, Holders, FS_Subset
      <4>2. Cardinality(Holding) + dropped <= active /\ dropped \in Nat
        BY <1>1 DEF CountInv, CountOK, TypeOK
      <4> QED
        BY <4>1, <4>2, <3>1
    <3> QED
      BY <3>3, FS_EmptySet
  <2>2. CASE \A c \in Clients : client'[c].phase = "picked" => In(c, "picked")
    BY <2>2
  <2>3. CASE \E c \in Clients : Caller(c)
    <3>1. PICK c \in Clients : Caller(c)
      BY <2>3
    <3>2. \A d \in Clients \ {c} : client'[d] = client[d]
      BY <3>1, <2>0 DEF Caller, Ask, GiveUp, Receive, DropPermit, Finish
    <3>3. client'[c].phase = "picked" => In(c, "picked")
      <4>1. CASE \E class \in Classes : Ask(c, class)
        BY <4>1, <2>0, Fresh DEF Ask, In
      <4>2. CASE GiveUp(c) /\ In(c, "granted")
        <5>1. client'[c] = NoRequest
          BY <4>2, <2>0 DEF GiveUp
        <5> QED
          BY <5>1, Fresh
      <4>3. CASE GiveUp(c) /\ ~In(c, "granted")
        <5>1. client' = [client EXCEPT ![c] = [client[c] EXCEPT !.open = FALSE]]
          BY <4>3, <2>0 DEF GiveUp
        <5>2. client'[c] = [client[c] EXCEPT !.open = FALSE] /\ client[c] \in Request
          BY <5>1, <2>0
        <5>3. client'[c].phase = client[c].phase
          BY <5>2, Updates
        <5> QED
          BY <5>3 DEF In
      <4>4. CASE Receive(c)
        BY <4>4, <2>0 DEF Receive, Request
      <4>5. CASE DropPermit(c)
        BY <4>5, <2>0, Fresh DEF DropPermit
      <4>6. CASE \E kind \in Kinds : Finish(c, kind)
        BY <4>6, <2>0 DEF Finish, Request
      <4> QED
        BY <3>1, <4>1, <4>2, <4>3, <4>4, <4>5, <4>6 DEF Caller
    <3> QED
      BY <3>2, <3>3 DEF In
  <2>4. CASE Command
    <3>1. ASSUME NEW c \in Clients, Acquire(c)
          PROVE  \A d \in Clients : client'[d].phase = "picked" => In(d, "picked")
      <4>1. client[c] \in Request
        BY <2>0
      <4>2. CASE Refused(c)
        <5>1. client' = [client EXCEPT ![c] = NoRequest]
          BY <3>1, <4>2 DEF Acquire
        <5> QED
          BY <5>1, <2>0, Fresh DEF In
      <4>3. CASE ~Refused(c)
        <5> DEFINE r == [client[c] EXCEPT !.phase = "queued"]
        <5>1. client' = [client EXCEPT ![c] = r]
          BY <3>1, <4>3, <2>0 DEF Acquire
        <5>2. r.phase = "queued"
          BY <4>1, Updates DEF Phases
        <5> HIDE DEF r
        <5> QED
          BY <5>1, <5>2, <2>0 DEF In
      <4> QED
        BY <4>2, <4>3
    <3>2. CASE \E c \in Clients : Complete(c)
      BY <3>2, Fresh DEF Complete, RejectWaiters, In
    <3>3. CASE Abandoned \/ Resume \/ Policy
      BY <3>3 DEF Abandoned, Resume, Policy, In
    <3>4. CASE Pause
      BY <3>4, Fresh DEF Pause, In
    <3> QED
      BY <2>4, <3>1, <3>2, <3>3, <3>4 DEF Command, In
  <2>5. CASE AdvanceCooldown \/ NothingToGrant \/ Wake \/ UNCHANGED vars
               \/ \E deadline \in Deadlines : TimePasses(deadline)
    BY <2>5 DEF AdvanceCooldown, NothingToGrant, Wake, vars, TimePasses, In
  <2>6. CASE SkipClosed
    <3>1. \E c : client' = [client EXCEPT ![c] = NoRequest]
      BY <2>6 DEF SkipClosed
    <3> QED
      BY <3>1, <2>0, Fresh DEF In
  <2>7. CASE Deliver
    <3>1. \A c \in Clients : client'[c].phase = "picked" => In(c, "picked")
      BY <2>7, Fresh DEF Deliver, In
    <3> QED
      BY <3>1
  <2>8. CASE PersistFails \/ Restart
    BY <2>8, Fresh DEF PersistFails, Restart, In
  <2> QED
    BY <1>1, <2>1, <2>3, <2>4, <2>5, <2>6, <2>7, <2>8 DEF Next, Granting
<1>2. CountInv /\ [Next]_vars => [Alone]_vars
  BY <1>1
<1> QED
  BY <1>2, CountInit, CountNext, PTL DEF Spec, ProbeIsAlone
=============================================================================
