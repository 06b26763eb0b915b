------------------------------ MODULE Frontier ------------------------------
(***************************************************************************)
(* The concurrency frontier of one run: ConcurrentScheduler of             *)
(* application/execution/concurrent_scheduler.py.  Work is partitioned by  *)
(* plan node; a node's work is blocked until every predecessor node        *)
(* succeeded in full.  The frontier keeps, beside the state of each work   *)
(* item, the lease fence of in-flight work, the eligibility instant of     *)
(* work waiting for a retry, the control state and its generation.         *)
(*                                                                         *)
(* Every action is one public method of the class; a method that raises    *)
(* leaves the frontier unchanged, so a raise is simply a disabled action.  *)
(***************************************************************************)
EXTENDS Integers, FiniteSets

CONSTANTS
    Nodes,        \* node identities of the plan
    Edges,        \* dependency edges <<source, target>>
    Work,         \* work identities (node, partition)
    NodeOf,       \* the node of a work identity
    MaxFence,     \* _MAX_FRONTIER_LEASE_FENCE, shared by fences and generations
    MaxInstant    \* bound on the injected clock, _MAX_FRONTIER_RETRY_ELIGIBILITY_MICROS

ASSUME PlanAssumption ==
    /\ Edges \subseteq Nodes \X Nodes
    /\ \A n \in Nodes : <<n, n>> \notin Edges
    /\ NodeOf \in [Work -> Nodes]
    /\ \A n \in Nodes : \E w \in Work : NodeOf[w] = n
    /\ MaxFence \in Nat \ {0}
    /\ MaxInstant \in Nat

\* _edges_contain_cycle: the scheduler refuses a plan with a cycle, so every set
\* of nodes has one that depends on none of them.
ASSUME AcyclicAssumption ==
    \A S \in SUBSET Nodes : S # {} => \E n \in S : \A m \in S : <<m, n>> \notin Edges

VARIABLES
    state,        \* _states
    fence,        \* _fences; 0 where no fence is held
    retryAt,      \* _retry_waits; NoWait where there is none
    control,      \* _control_state
    generation,   \* _control_generation
    reason        \* _recovery_reason is set

frontier == <<state, fence, retryAt, control, generation, reason>>

InFlightStates == {"admitted", "awaiting_commit"}
TerminalStates == {"succeeded", "quarantined", "failed", "cancelled"}
WorkStates == {"blocked", "ready", "retry_wait"} \cup InFlightStates \cup TerminalStates
ControlStates == {"running", "quiescing", "paused", "cancelling", "recovery_required"}

NoWait == -1
Fences == 1..MaxFence
Instants == 0..MaxInstant

Predecessors(n) == {m \in Nodes : <<m, n>> \in Edges}
WorkOf(n) == {w \in Work : NodeOf[w] = n}

\* Mutant: a complete node permits continuation whatever its outcomes.
MutPermitsComplete(st, n) == \A w \in WorkOf(n) : st[w] \in TerminalStates

\* FrontierNodeAggregate.permits_continuation of node n when work is in st.
PermitsContinuation(st, n) == \A w \in WorkOf(n) : st[w] = "succeeded"

\* Every predecessor of n permits continuation.
BarrierOpen(st, n) == \A m \in Predecessors(n) : PermitsContinuation(st, m)

\* Mutant: successors are never released.
MutReleaseNever(st, n) == st

\* _release_successors after a work item of node n became terminal.
ReleaseSuccessors(st, n) ==
    [w \in Work |->
        IF /\ <<n, NodeOf[w]>> \in Edges
           /\ BarrierOpen(st, NodeOf[w])
           /\ st[w] = "blocked"
        THEN "ready" ELSE st[w]]

\* The frontier property: an immutable snapshot, serialized by to_mapping.
Snapshot == [state |-> state, fence |-> fence, retryAt |-> retryAt,
             control |-> control, generation |-> generation, reason |-> reason]

\* _validate_frontier_dependency_barriers: a node with predecessors is blocked
\* as a whole exactly while some predecessor has not succeeded as a whole.
BarriersValid(st) ==
    \A w \in Work :
        Predecessors(NodeOf[w]) # {} => (st[w] # "blocked" <=> BarrierOpen(st, NodeOf[w]))

\* The cross-field checks of SchedulerFrontierV2.__post_init__.
CrossFieldsValid(f) ==
    /\ \A w \in Work : f.state[w] \in InFlightStates <=> f.fence[w] # 0
    /\ \A w \in Work : f.state[w] = "retry_wait" <=> f.retryAt[w] # NoWait
    /\ f.control = "recovery_required" <=> f.reason
    /\ BarriersValid(f.state)

InitialStates ==
    [w \in Work |-> IF Predecessors(NodeOf[w]) = {} THEN "ready" ELSE "blocked"]

FrontierInit ==
    /\ state = InitialStates
    /\ fence = [w \in Work |-> 0]
    /\ retryAt = [w \in Work |-> NoWait]
    /\ control = "running"
    /\ generation = 1
    /\ reason = FALSE

------------------------------------------------------------------------------
RegisterAdmission(w, f) ==
    /\ state[w] = "ready"
    /\ control = "running"
    /\ state' = [state EXCEPT ![w] = "admitted"]
    /\ fence' = [fence EXCEPT ![w] = f]
    /\ UNCHANGED <<retryAt, control, generation, reason>>

MarkResultReceived(w) ==
    /\ state[w] = "admitted"
    /\ state' = [state EXCEPT ![w] = "awaiting_commit"]
    /\ UNCHANGED <<fence, retryAt, control, generation, reason>>

CommitResult(w, outcome) ==
    /\ state[w] \in InFlightStates
    /\ state' = ReleaseSuccessors([state EXCEPT ![w] = outcome], NodeOf[w])
    /\ fence' = [fence EXCEPT ![w] = 0]
    /\ UNCHANGED <<retryAt, control, generation, reason>>

ScheduleRetry(w, at) ==
    /\ state[w] \in InFlightStates
    /\ state' = [state EXCEPT ![w] = "retry_wait"]
    /\ fence' = [fence EXCEPT ![w] = 0]
    /\ retryAt' = [retryAt EXCEPT ![w] = at]
    /\ UNCHANGED <<control, generation, reason>>

\* The retry waits that retry_eligible(now) releases.
Due(now) == {w \in Work : retryAt[w] # NoWait /\ retryAt[w] <= now}

\* Allowed in every control state: eligible work becomes ready even while the
\* scheduler quiesces, and is admitted once it runs again.
RetryEligible(now) ==
    /\ Due(now) # {}
    /\ state' = [w \in Work |-> IF w \in Due(now) THEN "ready" ELSE state[w]]
    /\ retryAt' = [w \in Work |-> IF w \in Due(now) THEN NoWait ELSE retryAt[w]]
    /\ UNCHANGED <<fence, control, generation, reason>>

\* _require_control and _next_generation: leave `from` for `to` under a new
\* generation, unless the generation space is exhausted.
Regenerate(from, to) ==
    /\ control = from
    /\ generation + 1 <= MaxFence
    /\ control' = to
    /\ generation' = generation + 1
    /\ UNCHANGED <<state, fence, retryAt, reason>>

RequestPause == Regenerate("running", "quiescing")
AbortPause == Regenerate("quiescing", "running")
Resume == Regenerate("paused", "running")

MarkPaused ==
    /\ control = "quiescing"
    /\ control' = "paused"
    /\ UNCHANGED <<state, fence, retryAt, generation, reason>>

RequestCancel ==
    /\ control = "running"
    /\ control' = "cancelling"
    /\ UNCHANGED <<state, fence, retryAt, generation, reason>>

\* Mutant: the reason is not recorded.
MutMarkRecoveryNoReason ==
    /\ control # "recovery_required"
    /\ control' = "recovery_required"
    /\ UNCHANGED <<state, fence, retryAt, generation, reason>>

MarkRecoveryRequired ==
    /\ control # "recovery_required"
    /\ control' = "recovery_required"
    /\ reason' = TRUE
    /\ UNCHANGED <<state, fence, retryAt, generation>>

FrontierNext ==
    \/ \E w \in Work :
          \/ \E f \in Fences : RegisterAdmission(w, f)
          \/ MarkResultReceived(w)
          \/ \E outcome \in TerminalStates : CommitResult(w, outcome)
          \/ \E at \in Instants : ScheduleRetry(w, at)
    \/ \E now \in Instants : RetryEligible(now)
    \/ RequestPause
    \/ MarkPaused
    \/ AbortPause
    \/ Resume
    \/ RequestCancel
    \/ MarkRecoveryRequired

FrontierSpec == FrontierInit /\ [][FrontierNext]_frontier

------------------------------------------------------------------------------
FrontierType ==
    [state : [Work -> WorkStates], fence : [Work -> 0..MaxFence],
     retryAt : [Work -> Instants \cup {NoWait}], control : ControlStates,
     generation : Fences, reason : BOOLEAN]

\* The frontier property never raises SchedulerFrontierCorruptError: in every
\* state some sequence of public calls reaches, exactly the in-flight work holds
\* a fence, exactly the waiting work has an eligibility instant, a reason is set
\* exactly when recovery is required, and no node ran ahead of its barrier or
\* was left behind it.
FrontierWellFormed == CrossFieldsValid(Snapshot)

\* A node's ancestors, through any number of edges.
Ancestors(n) ==
    LET Closed(S) == \A e \in Edges : e[2] \in S \cup {n} => e[1] \in S
    IN  {m \in Nodes : \A S \in SUBSET Nodes : Closed(S) => m \in S}

\* Work leaves "blocked" only after every work item of every ancestor node, not
\* just of the direct predecessors, was committed as succeeded.
AncestorsSucceeded ==
    \A w \in Work : state[w] # "blocked" =>
        \A v \in Work : NodeOf[v] \in Ancestors(NodeOf[w]) => state[v] = "succeeded"

=============================================================================
