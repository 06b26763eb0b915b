---------------------------- MODULE MCScheduler ----------------------------
(***************************************************************************)
(* The scheduler on small plans.  Triangle: a chain of three nodes whose   *)
(* last also waits for the first, so that a barrier waits for several      *)
(* nodes and has an ancestor behind its predecessor.  Pair: one edge.      *)
(***************************************************************************)
EXTENDS Scheduler, TLC

CONSTANTS n1, n2, n3, w1, w2, w3

TriangleEdges == {<<n1, n2>>, <<n2, n3>>, <<n1, n3>>}
TriangleNodeOf == w1 :> n1 @@ w2 :> n2 @@ w3 :> n3

PairEdges == {<<n1, n2>>}
PairNodeOf == w1 :> n1 @@ w2 :> n2

=============================================================================
