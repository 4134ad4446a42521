------------------------------ MODULE MCUpkeep ------------------------------
(***************************************************************************)
(* What the process does over and over again, for TLC.  A behaviour is     *)
(* about one of two parts, and what the other one keeps stays as it        *)
(* begins:                                                                 *)
(*   runs    the runs of the channel of a Last.fm user, enabled and with   *)
(*           the key at first (disabled, in the other part);               *)
(*   assets  the artwork of one release and its artist, and two addresses  *)
(*           of the same image; the release is held at first, and the      *)
(*           address of its cover is s1.                                   *)
(***************************************************************************)
EXTENDS ChannelRuns, LibraryAssets, TLC

CONSTANTS r1, a1, s1, s2

Both    == r1 :> {r1, a1}
SameJpg == s1 :> "jpg" @@ s2 :> "jpg"

VARIABLE part

mcvars == <<part, vars, assets>>

MCInit ==
    /\ part \in {"runs", "assets"}
    /\ Init /\ keyed /\ channel.kind = "lastfm" /\ channel.name # Blank
    /\ channel.enabled <=> part = "runs"
    /\ AssetsInit /\ held = {r1} /\ artwork = r1 :> s1 @@ a1 :> None

\* Bound: either the request to refresh the channel or the one to change it is
\* made, while the scheduler always runs.
BoundedRuns ==
    \/ Tick \/ CheckActive
    \/ (\E c \in Callers : Request(c)) /\ (\A e \in Editors : editor[e].at = "idle")
    \/ \E s \in Starters : StarterSteps(s) \/ StartFails(s)
    \/ \E r \in Runs : TaskSteps(r)
    \/ \E e \in Editors : Update(e)
    \/ (\E e \in Editors : ReadForUpdate(e)) /\ (\A c \in Callers : starter[c].at = "idle")
    \/ Clock \/ Crash \/ Recovery

\* Bound: at most two of the things that happen to the artworks from outside; the
\* clicks are on the job of the first one and while the library stays as it is.
BoundedAssets ==
    /\ AssetsNext
    /\ lost' + clicks' + changes' <= 2
    /\ job'[s2].state # "cancelled"
    /\ clicks' = 0 \/ changes' = 0

MCNext ==
    \/ part = "runs" /\ BoundedRuns /\ UNCHANGED <<part, assets>>
    \/ part = "assets" /\ BoundedAssets /\ UNCHANGED <<part, vars>>

\* The fairness of ChannelRuns and of LibraryAssets, each for the behaviours
\* about it.
MCFairness ==
    /\ WF_vars(part = "runs" /\ Tick) /\ WF_vars(part = "runs" /\ CheckActive)
    /\ WF_vars(part = "runs" /\ Clock) /\ WF_vars(part = "runs" /\ Recovery)
    /\ \A s \in Starters : WF_vars(part = "runs" /\ StarterSteps(s))
    /\ \A r \in Runs : WF_vars(part = "runs" /\ TaskSteps(r))
    /\ WF_assets(part = "assets" /\ Reconcile)
    /\ \A s \in Sources : WF_assets(part = "assets" /\ Work(s))

MCSpec == MCInit /\ [][MCNext]_mcvars /\ MCFairness
=============================================================================
