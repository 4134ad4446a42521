---------------------------- MODULE JobContract -----------------------------
(***************************************************************************)
(* What the durable queue promises the rest of wotbox, without leases,     *)
(* owners, deadlines or SQL: a job is granted out of the queue, which it   *)
(* leaves with the grant; only a report parks it; every grant yields at    *)
(* most one report; a claimant that is stopped loses its grant, not the    *)
(* job.                                                                    *)
(* JobQueue implements it (property ContractHolds there).                  *)
(***************************************************************************)
CONSTANTS Jobs, Claimants, NoJob

VARIABLES
    status,  \* where each job stands
    claims   \* the job each claimant owes a report on, or NoJob

contractVars == <<status, claims>>

Statuses == {"none", "queued", "held", "parked", "closed"}

ContractTypeOK ==
    /\ status \in [Jobs -> Statuses]
    /\ claims \in [Claimants -> Jobs \cup {NoJob}]

Init ==
    /\ status \in [Jobs -> {"none", "queued", "closed"}]
    /\ claims = [c \in Claimants |-> NoJob]

Submit(j) ==
    /\ status[j] = "none"
    /\ status' = [status EXCEPT ![j] = "queued"]
    /\ UNCHANGED claims

\* The only way into "held".
Grant(c, j) ==
    /\ status[j] = "queued" /\ claims[c] = NoJob
    /\ status' = [status EXCEPT ![j] = "held"]
    /\ claims' = [claims EXCEPT ![c] = j]

\* The only way into "parked"; a late report may hit any status, but the job
\* it is about still exists.
Report(c) ==
    /\ claims[c] # NoJob /\ status[claims[c]] # "none"
    /\ \E s \in {"queued", "parked", "closed"} :
          status' = [status EXCEPT ![claims[c]] = s]
    /\ claims' = [claims EXCEPT ![c] = NoJob]

Abandon(c) ==
    /\ claims[c] # NoJob
    /\ claims' = [claims EXCEPT ![c] = NoJob]
    /\ UNCHANGED status

\* The user, or a component whose input changed.
Close(j) ==
    /\ status[j] # "none"
    /\ status' = [status EXCEPT ![j] = "closed"]
    /\ UNCHANGED claims

Reopen(j) ==
    /\ status[j] # "none"
    /\ status' = [status EXCEPT ![j] = "queued"]
    /\ UNCHANGED claims

\* Expired leases: held jobs go back to the queue, or are given up.
Reclaim ==
    /\ status' \in [Jobs -> Statuses]
    /\ \A j \in Jobs : \/ status'[j] = status[j]
                       \/ status[j] = "held" /\ status'[j] \in {"queued", "closed"}
    /\ UNCHANGED claims

Unpark ==
    /\ status' \in [Jobs -> Statuses]
    /\ \A j \in Jobs : \/ status'[j] = status[j]
                       \/ status[j] = "parked" /\ status'[j] = "queued"
    /\ UNCHANGED claims

\* The process ends: every grant is void, held jobs are handed back or not.
Halt ==
    /\ status' \in [Jobs -> Statuses]
    /\ \A j \in Jobs : \/ status'[j] = status[j]
                       \/ status[j] = "held" /\ status'[j] = "queued"
    /\ claims' = [c \in Claimants |-> NoJob]

\* The next process starts, with no grant outstanding.
Boot ==
    /\ claims = [c \in Claimants |-> NoJob]
    /\ status' \in [Jobs -> Statuses]
    /\ \A j \in Jobs :
          \/ status'[j] = status[j]
          \/ status[j] = "held"   /\ status'[j] \in {"queued", "closed"}
          \/ status[j] = "parked" /\ status'[j] = "queued"
          \/ status[j] = "closed" /\ status'[j] \in {"none", "queued"}
          \/ status[j] = "none"   /\ status'[j] = "queued"
    /\ UNCHANGED claims

Next ==
    \/ \E j \in Jobs : Submit(j) \/ Close(j) \/ Reopen(j)
    \/ \E c \in Claimants : Report(c) \/ Abandon(c) \/ \E j \in Jobs : Grant(c, j)
    \/ Reclaim \/ Unpark \/ Halt \/ Boot

Spec == Init /\ [][Next]_contractVars
=============================================================================
