------------------------------ MODULE MCEngine ------------------------------
(***************************************************************************)
(* The engine on small plans.  Chain: one node behind another.  Pair: two  *)
(* partitions of one node, for two workers and channels of one slot.       *)
(***************************************************************************)
EXTENDS Engine, TLC

CONSTANTS n1, n2, w1, w2, k1, k2

ChainEdges == {<<n1, n2>>}
ChainNodeOf == w1 :> n1 @@ w2 :> n2
PairNodeOf == w1 :> n1 @@ w2 :> n1

=============================================================================
