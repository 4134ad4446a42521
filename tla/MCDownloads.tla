---------------------------- MODULE MCDownloads ----------------------------
(***************************************************************************)
(* What follows a download, for TLC.  A behaviour is about one of two      *)
(* parts, and what the other one keeps stays as it begins:                 *)
(*   index    what is observed of one torrent of the client, and what its  *)
(*            lookups find;                                                *)
(*   imports  the replacement of two trumped torrents, whose downloads     *)
(*            cleanup removes.                                             *)
(***************************************************************************)
EXTENDS ReplacementImports, DownloadIndex

VARIABLE part

ASSUME ImportsFit == ConstantsFit

mcvars == <<part, vars, index>>

MCInit ==
    /\ Init /\ IndexInit
    /\ \/ part = "index" /\ registered = {} /\ download = "none"
       \/ part = "imports" /\ InClient = {}

\* Bound of the imports: an execution goes astray that is to remove something, where
\* nothing else has changed, and while it goes on nobody asks for anything more.
FewStrays ==
    /\ worker'["stray"].at # "idle" => worker'["stray"].mode # "keep" /\ changes' = 0
    /\ worker["stray"].at # "idle" => clicks' = clicks

MCNext ==
    \/ part = "index" /\ IndexNext /\ UNCHANGED <<part, vars>>
    \/ part = "imports" /\ Next /\ FewStrays /\ UNCHANGED <<part, index>>

\* The fairness of DownloadIndex and of ReplacementImports, each for the
\* behaviours about it.
MCFairness ==
    /\ WF_index(part = "index" /\ Sync(TRUE))
    /\ WF_index(part = "index" /\ MarkRemoved)
    /\ WF_index(part = "index" /\ CompleteScan)
    /\ WF_index(part = "index" /\ Finish)
    /\ \A t \in Torrents :
          /\ WF_index(part = "index" /\ Resolving(t))
          /\ WF_index(part = "index" /\ Answer(t))
          /\ WF_index(part = "index" /\ Commit(t))
          /\ SF_index(part = "index" /\ Waited(t))
    /\ WF_vars(part = "imports" /\ Start)
    /\ WF_vars(part = "imports" /\ Process("holder"))
    /\ WF_vars(part = "imports" /\ Submitted)
    /\ WF_vars(part = "imports" /\ Downloaded)

MCSpec == MCInit /\ [][MCNext]_mcvars /\ MCFairness
=============================================================================
