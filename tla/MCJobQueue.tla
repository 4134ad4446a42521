----------------------------- MODULE MCJobQueue -----------------------------
(***************************************************************************)
(* Small instances of JobQueue for TLC.                                    *)
(***************************************************************************)
EXTENDS JobQueue, TLC

CONSTANTS w1, w2, hash, index, coverage, asset, scan, tracker

TwoWorkers == Permutations({w1, w2})

\* One local job (an asset, an import) that is enqueued.
AssetOnly   == {asset}
AssetHome   == asset :> NoProvider
AssetTalks  == asset :> {}
AssetBudget == asset :> 2
AssetQueued == asset :> {"enqueue"}

Nothing == {}
=============================================================================
