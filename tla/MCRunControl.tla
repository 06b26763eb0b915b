---------------------------- MODULE MCRunControl ----------------------------
(***************************************************************************)
(* A pause and its retry under one key, a resume and a cancellation, while *)
(* the engine runs, the runtime shuts down and the process crashes.        *)
(***************************************************************************)
EXTENDS RunControl, TLC

CONSTANTS r1, r2, r3, k1

MCActionsOf == [r \in Requests |-> IF r = r3 THEN {"resume", "cancel"} ELSE {"pause"}]
MCKeyOf == [r \in Requests |-> IF r = r3 THEN NoKey ELSE k1]
MCBodyOf == [r \in Requests |-> "run"]

=============================================================================
