---------------------------- MODULE MCLocalJobs -----------------------------
(***************************************************************************)
(* Jobs that speak to no provider, one at a time, for TLC.                 *)
(***************************************************************************)
EXTENDS MCJobQueue

\* A recurring maintenance job that every start enqueues, with every operation
\* but the wake-up on it, and the computation of a coverage, which waits for
\* tracklists, with what is called on it.
LocalKeys     == {scan, coverage}
ScanOnly      == {scan}
CoverageOnly  == {coverage}
LocalHome     == [k \in LocalKeys |-> NoProvider]
LocalTalks    == [k \in LocalKeys |-> {}]
LocalBudget   == scan :> 2 @@ coverage :> 1
LocalRequests == scan :> Operations \ {"wake"}
                   @@ coverage :> {"enqueue", "wake", "cancel"}

-----------------------------------------------------------------------------
(***************************************************************************)
(* Bound of the local jobs: a behaviour is about one of them, and the row  *)
(* of the other one, absent or cancelled before it began, is left alone.   *)
(***************************************************************************)
VARIABLE subject

Alone == \A k \in Keys \ {subject} : row'[k] = row[k]

OneInit == Init /\ subject \in Keys
             /\ \A k \in Keys \ {subject} : row[k].state \in {"absent", "cancelled"}
OneNext ==
    \/ Request(subject) /\ UNCHANGED subject
    \/ LeaseExpires(subject) /\ UNCHANGED subject
    \/ BecomesDue(subject) /\ UNCHANGED subject
    \/ \E w \in Workers : Claiming(w) /\ Alone /\ UNCHANGED subject
    \/ \E w \in Workers : Executing(w) /\ UNCHANGED subject
    \/ \E w \in Workers : Settling(w) /\ UNCHANGED subject
    \/ Process /\ Alone /\ UNCHANGED subject
OneFairSpec == OneInit /\ [][OneNext]_<<vars, subject>> /\ Fairness
=============================================================================
