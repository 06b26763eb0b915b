---------------------------- MODULE MCSequential ----------------------------
(***************************************************************************)
(* A plan of one node with work and one without, in a chain.               *)
(***************************************************************************)
EXTENDS Sequential

MCOrder == <<"n1", "n2">>
MCDeps == [n1 |-> {}, n2 |-> {"n1"}]
MCNodeOf == [w1 |-> "n1"]

=============================================================================
