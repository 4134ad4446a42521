------------------------- MODULE MCProviderGovernor -------------------------
(***************************************************************************)
(* Small instances of ProviderGovernor for TLC.                            *)
(***************************************************************************)
EXTENDS ProviderGovernor, TLC

CONSTANTS page, sync

\* A page that the user opens or the scheduler refreshes, and a background job
\* that may be started by hand, on an endpoint with a request window.
AllUses   == page :> {Interactive, Scheduled} @@ sync :> {Background}
AllLimits == page :> 0 @@ sync :> 1

\* A page and a scheduled refresh that share one request per window on a
\* provider that takes one request at a time.
PageUses  == page :> {Interactive} @@ sync :> {Scheduled}
OneEach   == page :> 1 @@ sync :> 1
=============================================================================
