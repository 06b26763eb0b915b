------------------------------ MODULE MCLedger ------------------------------
(***************************************************************************)
(* Two work items of one node, which may also end without any.             *)
(***************************************************************************)
EXTENDS Ledger, TLC

CONSTANTS w1, w2, n1

TwoInOne == [w \in {w1, w2} |-> n1]

\* Bounds: the run only starts and is cancelled, at the first instant, as its state
\* gates creation and claims and nothing else; and the last instant is explored with
\* one work item.  A claim, its renewal and the end of the renewed lease take all
\* four instants.
RunBound ==
    /\ run.state \in {"queued", "running", "cancelling"} /\ run.since = 0
    /\ now = MaxInstant => \E w \in Work : row[w].state = "absent"

Symmetry == Permutations({w1, w2})

=============================================================================
