------------------------------ MODULE MCPages ------------------------------
(***************************************************************************)
(* What a page shows that was derived or fetched before, for TLC.  A       *)
(* behaviour is about one of two parts, and what the other one keeps stays *)
(* as it begins:                                                           *)
(*   coverage  the coverage of one single (see MCSingleCoverage);          *)
(*   feed      the events of publishers and the pages that hear of them.   *)
(***************************************************************************)
EXTENDS MCSingleCoverage, ChangeFeed

CONSTANT MaxEvents   \* bound on the number of changes of the feed

VARIABLE part

ASSUME FeedFits == ConstantsFit

mcvars == <<part, vars, feed>>

Interchangeable ==
    Permutations(Tracklists) \cup Permutations(Kinds) \cup Permutations(Publishers)

Changing == Cardinality({u \in Publishers : publisher[u].at = "changed"})

MCInit == Init /\ FeedInit /\ part \in {"coverage", "feed"}

MCNext ==
    \/ part = "coverage" /\ BoundedNext /\ UNCHANGED <<part, feed>>
    \/ /\ part = "feed" /\ FeedNext /\ Len(log') + Changing' <= MaxEvents
       /\ UNCHANGED <<part, vars>>

MCSpec == MCInit /\ [][MCNext]_mcvars
=============================================================================
