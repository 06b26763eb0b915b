----------------------------- MODULE MCRecovery -----------------------------
(***************************************************************************)
(* Recovery of two independent work items, and of a chain of two.          *)
(***************************************************************************)
EXTENDS Recovery, TLC

CONSTANTS w1, w2, n1, n2

NodePerWork == w1 :> n1 @@ w2 :> n2
NoEdges == {}
Chain == {<<n1, n2>>}

\* Bound: the states of the run that recovery maps to three different controls.
RunBound == run.state \in {"running", "pausing", "paused", "cancelling"}

=============================================================================
