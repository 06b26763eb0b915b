------------------------------ MODULE MCWriter ------------------------------
(***************************************************************************)
(* The writer with three commands, two of them submitted asynchronously.   *)
(* Liveness is checked in the same run, so there is no symmetry reduction. *)
(***************************************************************************)
EXTENDS Writer

CONSTANTS c1, c2, c3

=============================================================================
