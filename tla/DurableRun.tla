----------------------------- MODULE DurableRun -----------------------------
(***************************************************************************)
(* What the durable rows of one run promise to whoever reads them, without *)
(* the engine that writes them: the lifecycle arrows of runs.state and the *)
(* claim and completion of work_items.state.                               *)
(***************************************************************************)
CONSTANTS Edges, Work, NodeOf

VARIABLES runState, workState

rows == <<runState, workState>>

FinalStates == {"succeeded", "quarantined", "failed", "cancelled"}

Init ==
    /\ runState = "running"
    /\ workState = [w \in Work |-> "pending"]

\* Work is claimed only in a running run, and only when the work of every
\* predecessor node has durably succeeded.
Claim(w) ==
    /\ runState = "running"
    /\ workState[w] \in {"pending", "retry_wait"}
    /\ \A v \in Work : <<NodeOf[v], NodeOf[w]>> \in Edges => workState[v] = "succeeded"
    /\ workState' = [workState EXCEPT ![w] = "running"]
    /\ UNCHANGED runState

\* Claimed work gets one outcome, in a run that still owns it.
Complete(w) ==
    /\ runState \in {"running", "cancelling"}
    /\ workState[w] = "running"
    /\ \E outcome \in FinalStates \cup {"retry_wait"} :
          workState' = [workState EXCEPT ![w] = outcome]
    /\ UNCHANGED runState

\* A run pauses, in one or two arrows, only around quiet work.
Pause ==
    /\ \A w \in Work : workState[w] # "running"
    /\ \/ runState = "running" /\ runState' \in {"pausing", "paused"}
       \/ runState = "pausing" /\ runState' = "paused"
    /\ UNCHANGED workState

Resume ==
    /\ \/ runState = "paused" /\ runState' \in {"resuming", "running"}
       \/ runState = "resuming" /\ runState' = "running"
    /\ UNCHANGED workState

Cancel ==
    /\ \/ runState = "running" /\ runState' = "cancelling"
       \/ runState = "cancelling" /\ runState' = "cancelled"
    /\ UNCHANGED workState

Next ==
    \/ \E w \in Work : Claim(w) \/ Complete(w)
    \/ Pause \/ Resume \/ Cancel

Spec == Init /\ [][Next]_rows

=============================================================================
