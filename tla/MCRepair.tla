------------------------------ MODULE MCRepair ------------------------------
(* One instance of Repair: three calls, each of one of several kinds, so that *)
(* preparations, decisions and applications meet each other.                  *)
EXTENDS Repair

CONSTANTS k1, k2, k3

MCKind == [c \in Calls |-> CASE c = k1 -> {"persist", "approve"}
                             [] c = k2 -> {"create", "reject", "apply"}
                             [] c = k3 -> {"create", "apply", "verify"}]

\* The third call is the second one sent again, or a request of its own.
MCStamps == [c \in Calls |-> IF c = k3 THEN {"s1", "s2"} ELSE {"s1"}]
=============================================================================
