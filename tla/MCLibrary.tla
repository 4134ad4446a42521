------------------------------ MODULE MCLibrary ------------------------------
(***************************************************************************)
(* A small Library for TLC: two groups of two trackers.  The initial state *)
(* decides what a behaviour is about: the projection, with few changes of  *)
(* the rows and the observer reading between their statements; or the rows *)
(* alone, with more operations and cuts after each other.                  *)
(***************************************************************************)
EXTENDS LibraryProjection, TLC

CONSTANTS g1, g2, w1, MaxAlone

VARIABLE alone
allVars == <<vars, alone>>

Rows == INSTANCE ReleaseIdentity WITH MaxEvents <- MaxAlone

Alike    == {g1, g2} :> "auto"
Trackers == Permutations(Groups)

MCInit == /\ Init /\ alone \in BOOLEAN /\ (alone \/ issued # {})
          /\ alone => \A g \in Groups : held[g] <=> link[g] # 0

MCNext == /\ alone' = alone
          /\ \/ ~alone /\ Next
             \/ alone /\ Rows!IdentityStep /\ UNCHANGED projectionVars

MCSpec == MCInit /\ [][MCNext]_allVars

\* RejectedStayApart needs the rows alone.
RowsInit == Init /\ alone = TRUE
RowsSpec == RowsInit /\ [][MCNext]_allVars
=============================================================================
