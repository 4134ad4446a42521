------------------------------ MODULE MCPacks ------------------------------
(***************************************************************************)
(* The packs of a channel for TLC, from what is planned to what is         *)
(* downloaded.  A behaviour is about one of three parts, and what the      *)
(* others keep stays as it begins:                                         *)
(*   packs       the decision about a pack of two items, of which the      *)
(*               second replaces a trumped download;                       *)
(*   plans       packs of up to three recommendations of a small           *)
(*               catalogue;                                                *)
(*   submission  a download that is requested under two keys and executed  *)
(*               by two workers.                                           *)
(***************************************************************************)
EXTENDS DownloadSubmission, ChannelPacks, PackPlanning

VARIABLE part

Second == {2}
MCReleaseImports == {{}, {"downloading"}, {"needs_review"}, {"failed"}}

Catalogue == INSTANCE PlanningCatalogue
MCSettings        == Catalogue!SomeSettings
MCProfiles        == Catalogue!SomeProfiles
MCRooms           == Catalogue!SomeRooms
MCRecommendations == Catalogue!SomeRecommendations
MCImports         == Catalogue!SomeImports

ASSUME SubmissionFits == ConstantsFit

mcvars == <<part, vars, packs, plans>>

\* The torrents are also the keys of the submission, and the accepts its workers:
\* an old request is repeated, or a failed download is asked for under the other
\* key.
Interchangeable ==
    Permutations(Torrents) \cup Permutations(Accepts)

NoPacks == pack.items = [o \in Ordinals |-> NoItem]

NoPlans ==
    /\ settings = None /\ prefs = None /\ room = None
    /\ items = None /\ shown = None /\ stage = None

MCInit ==
    /\ Init /\ PacksInit
    /\ \/ part = "packs" /\ NoPlans
       \/ part = "plans" /\ NoPacks /\ PlansInit
       \/ part = "submission" /\ NoPacks /\ NoPlans

\* Bounds of the packs: of requests that overlap there are two, and a download
\* goes on where some request is about to read its state.
FewOverlap ==
    overlapped => Cardinality({r \in PackRequests : request[r].at # "idle"}) <= 2

JobsAreRead ==
    jobs' # jobs =>
        \/ \E r \in Accepts : request'[r] # request[r]
        \/ \E r \in PackRequests : request[r].at \in {"project", "enqueue"}
        \/ \A r \in PackRequests : ~Busy(r)

\* Bounds of the plans: packs of one item are looked at, and those of three are
\* fitted to a client that reports its space.
LookedAt == stage' = "shown" => Len(items) = 1
Spacious == Len(items') = 3 => DOMAIN room # {}

\* Bound of the submission: while a download is astray no request, lease or
\* resume moves its job before the next start; the executions it has go on.
BoundedSubmission ==
    \/ \E w \in Workers : Execution(w)
    \/ \E d \in Downloads : Observe(d)
    \/ astray = {} /\ Requests
    \/ Restart

MCNext ==
    \/ /\ part = "packs" /\ PacksNext /\ FewOverlap' /\ JobsAreRead
       /\ UNCHANGED <<part, vars, plans>>
    \/ /\ part = "plans" /\ PlansNext /\ LookedAt /\ Spacious
       /\ UNCHANGED <<part, vars, packs>>
    \/ part = "submission" /\ BoundedSubmission /\ UNCHANGED <<part, packs, plans>>

MCSpec == MCInit /\ [][MCNext]_mcvars
=============================================================================
