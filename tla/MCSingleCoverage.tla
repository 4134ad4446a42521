-------------------------- MODULE MCSingleCoverage --------------------------
(***************************************************************************)
(* Small instances of SingleCoverage for TLC.                              *)
(***************************************************************************)
EXTENDS SingleCoverage, TLC

CONSTANTS s1, b1

WithAlbum == {{s1}, {s1, b1}}

Symmetric == Permutations(Tracklists)

\* Bounds: pages store the tracklists of albums only (the indexing job stores
\* any); while an invalidation or wake-up of a single is lost, or an execution
\* goes on without its lease, nothing is asked for before the coverage runs
\* again; and a lease is lost or a job cancelled while nothing is lost yet and
\* no page is storing.  The storers, the jobs and restarts go on.
Asked ==
    \/ \E g \in Groups : EnsureIndex(g)
    \/ \E s \in Singles : SeedSingle(s)
    \/ \E w \in Pages, g \in Albums : ViewGroup(w, g)
    \/ \E w \in Pages, a \in Artists, listing \in Listings : ReplaceCatalog(w, a, listing)

NoStray == \A s \in Singles, x \in Strays : stray[s][x] = NoRun

BoundedNext ==
    \/ IndexSteps \/ \E s \in Singles : CoverageSteps(s)
    \/ missed = {} /\ NoStray /\ Asked
    \/ (\E w \in Pages : PageLeaves(w)) \/ Restart
    \/ \E s \in Singles :
          \/ /\ missed = {} /\ \A w \in Pages : storer[w].at = "idle"
             /\ LeaseLost(s) \/ CancelCoverage(s)
          \/ RetryCoverage(s)
          \/ \E x \in Strays :
                StrayReads(s, x) \/ StrayPut(s, x) \/ StrayCommit(s, x) \/ StrayEnds(s, x)
=============================================================================
