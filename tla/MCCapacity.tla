---------------------------- MODULE MCCapacity ------------------------------
(***************************************************************************)
(* Owners that share two nodes, two global permits and one subordinate.    *)
(***************************************************************************)
EXTENDS Capacity, TLC

CONSTANTS o1, o2, o3, n1, n2

\* Bound: subordinate waits last until the end of time or until the limiter is
\* closed, and the limiters are not both closed.
WaitBound == Cardinality(closed) <= 1 /\ \A o \in Owners : subUntil[o] \in {None, MaxInstant}

Symmetry == Permutations({o1, o2, o3}) \cup Permutations({n1, n2})

=============================================================================
