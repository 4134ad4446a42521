--------------------------- MODULE MCTrackerJobs ---------------------------
(***************************************************************************)
(* Two jobs of one tracker, for TLC.                                       *)
(***************************************************************************)
EXTENDS MCJobQueue

\* A hash resolution, whose provider may fail, and a track index, with what
\* their components and an operator call on them.
OneTracker      == {tracker}
TrackerKeys     == {hash, index}
TrackerHome     == hash :> tracker @@ index :> tracker
TrackerTalks    == hash :> {tracker} @@ index :> {}
TrackerBudget   == hash :> 1 @@ index :> 1
TrackerRequests == hash :> {"rearm", "cancel", "retry"} @@ index :> {"cancel"}
IndexOnly       == {index}

-----------------------------------------------------------------------------
(***************************************************************************)
(* Bound: an operator acts once.                                           *)
(***************************************************************************)
VARIABLE clicks

Clicks == {h \in handlers' : h.op # "resume"} \ handlers
OneClick == clicks' = clicks + Cardinality(Clicks) /\ clicks' <= 1

TrackerInit == Init /\ clicks = 0
TrackerNext ==
    \/ \E k \in Keys : (Request(k) \/ LeaseExpires(k) \/ BecomesDue(k)) /\ OneClick
    \/ \E w \in Workers : (Claiming(w) \/ Executing(w) \/ Settling(w)) /\ UNCHANGED clicks
    \/ \E p \in Providers : Provider(p) /\ OneClick
    \/ Process /\ UNCHANGED clicks
TrackerSpec == TrackerInit /\ [][TrackerNext]_<<vars, clicks>>
=============================================================================
