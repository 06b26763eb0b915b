------------------------------ MODULE Recovery ------------------------------
(***************************************************************************)
(* Recovery of a concurrent run after its process stopped                  *)
(* (application/execution/concurrent_recovery.py).  A live engine claims   *)
(* and completes work rows (WorkRows) in dependency order until the        *)
(* process stops; the recovery service then reads the rows, resolves every *)
(* expired lease with a command of its own, reads the rows again and       *)
(* rebuilds the scheduler frontier, which SchedulerFrontierV2 checks.  It  *)
(* may be interrupted between any two commands, or lose the receipt of one *)
(* that was committed, and be run again.  Exclusive process ownership      *)
(* keeps everybody else from the rows meanwhile.                           *)
(***************************************************************************)
EXTENDS WorkRows

CONSTANTS
    Edges,      \* the plan's edges
    MaxFence,   \* bound on lease fences
    Policies    \* NonExpiredLeasePolicy values callers pass

ASSUME RecoveryAssumption == Policies \subseteq {"remain_recovery_required", "wait_for_expiry"}

VARIABLES
    phase,         \* "live", "down", "resolving", "done" or "corrupt"
    policy,        \* the policy of the latest recovery
    scanned,       \* the instant at which it classified the leases
    evidence,      \* the rows as it first read them
    todo,          \* expired leases not resolved yet
    frontier       \* the rebuilt frontier

recovery == <<phase, policy, scanned, evidence, todo, frontier>>
recoveryVars == <<rows, now, recovery>>

\* The scheduler's view of the rebuilt frontier.
View == INSTANCE Frontier WITH state <- frontier.state, fence <- frontier.fence,
        retryAt <- frontier.retryAt, control <- frontier.control,
        generation <- frontier.generation, reason <- frontier.reason

StatesOf(r) == [w \in Work |-> r[w].state]

\* A run whose work was bootstrapped and that has started.
RecoveryInit ==
    /\ run = [state |-> "running", since |-> 0]
    /\ row = [w \in Work |-> [Absent EXCEPT !.state = "pending", !.version = 1, !.updated = 0]]
    /\ attempts = [w \in Work |-> <<>>]
    /\ issued = {}
    /\ now = 0
    /\ phase = "live"
    /\ policy = "remain_recovery_required"
    /\ scanned = 0
    /\ evidence = row
    /\ todo = {}
    /\ frontier = [state |-> View!InitialStates, fence |-> [w \in Work |-> 0],
                   retryAt |-> [w \in Work |-> None], control |-> "running",
                   generation |-> 1, reason |-> FALSE]

\* The live engine: a node's work is claimed once its predecessors succeeded.
LiveStep ==
    \/ \E w \in Work, t \in Past, expires \in Instants :
          View!BarrierOpen(StatesOf(row), NodeOf[w]) /\ Claim(w, t, expires)
    \/ \E c \in issued, t \in Past :
          \/ \E expires \in Instants : RenewClaim(c, t, expires)
          \/ \E target \in RowStates, retryAt \in Times : CompleteClaim(c, t, target, retryAt)
          \/ CompleteWithCheckpoint(c, t, t)
    \/ \E target \in RunStates, t \in Past : TransitionRun(target, t)

Live ==
    /\ phase = "live"
    /\ LiveStep
    /\ UNCHANGED recovery

\* The process, or a recovery that lost a receipt, stops.
Stop ==
    /\ phase \in {"live", "resolving"}
    /\ phase' = "down"
    /\ todo' = {}
    /\ UNCHANGED <<rows, now, policy, scanned, evidence, frontier>>

\* Mutant: a lease that expires at this instant is neither expired nor not.
MutExpired(r, t) == {w \in Work : r[w].state = "running" /\ r[w].expires < t}

\* _classify_leases at instant t.
Expired(r, t) == {w \in Work : r[w].state = "running" /\ r[w].expires <= t}
NonExpired(r, t) == {w \in Work : r[w].state = "running" /\ r[w].expires > t}

RecoveryRunStates == {"running", "pausing", "paused", "resuming", "cancelling"}

\* recover, up to its first command.
Scan(p) ==
    /\ phase \in {"down", "done"}
    /\ run.state \in RecoveryRunStates
    /\ p = "remain_recovery_required" => NonExpired(row, now) = {}
    /\ phase' = "resolving"
    /\ policy' = p
    /\ scanned' = now
    /\ evidence' = row
    /\ todo' = Expired(row, now)
    /\ UNCHANGED <<rows, now, frontier>>

\* _resolve_expired, on the row version and attempt that were read.
ResolveExpired(w, retryAt) ==
    /\ phase = "resolving"
    /\ w \in todo
    /\ row[w].version = evidence[w].version /\ row[w].attempt = evidence[w].attempt
    /\ RecoverExpiredClaim(w, now, retryAt)
    /\ todo' = todo \ {w}
    /\ UNCHANGED <<phase, policy, scanned, evidence, frontier>>

\* _WORK_STATE_MAP: pending work is blocked, whatever _node_admission_states says.
WorkStateMap(s) ==
    CASE s = "pending" -> "blocked"
      [] s = "running" -> "admitted"
      [] s \notin {"pending", "running"} -> s

\* _rebuild_frontier from rows r.
Rebuilt(r) ==
    [state |-> [w \in Work |-> WorkStateMap(r[w].state)],
     fence |-> [w \in Work |-> IF r[w].state = "running" THEN r[w].version ELSE 0],
     retryAt |-> [w \in Work |-> IF r[w].state = "retry_wait" THEN r[w].retryAt ELSE None],
     control |-> IF run.state \in {"paused", "cancelling"} THEN run.state ELSE "running",
     generation |-> 1, reason |-> FALSE]

\* Mutant: the frontier is rebuilt from the rows read before the commands ran.
MutRebuild ==
    /\ phase = "resolving"
    /\ todo = {}
    /\ frontier' = Rebuilt(evidence)
    /\ phase' = IF View!CrossFieldsValid(Rebuilt(evidence)) THEN "done" ELSE "corrupt"
    /\ UNCHANGED <<rows, now, policy, scanned, evidence, todo>>

\* The end of recover: the rows are read again, and the constructor of the frontier
\* refuses one that breaks the dependency barriers.
Rebuild ==
    /\ phase = "resolving"
    /\ todo = {}
    /\ frontier' = Rebuilt(row)
    /\ phase' = IF View!CrossFieldsValid(Rebuilt(row)) THEN "done" ELSE "corrupt"
    /\ UNCHANGED <<rows, now, policy, scanned, evidence, todo>>

RecoveryNext ==
    \/ Live
    \/ Stop
    \/ \E p \in Policies : Scan(p)
    \/ \E w \in Work, retryAt \in Instants : ResolveExpired(w, retryAt)
    \/ Rebuild
    \/ Tick /\ UNCHANGED recovery

RecoverySpec == RecoveryInit /\ [][RecoveryNext]_recoveryVars

------------------------------------------------------------------------------
\* A recovered run has in flight, in its rows and in its frontier, only work whose
\* lease had not expired when the leases were classified, and only if the caller
\* chose to wait for those: through interruptions and repeated recoveries every
\* other lease of the dead process was resolved, also one that expired at the very
\* instant of the scan.
OnlyLiveLeasesInFlight ==
    phase = "done" =>
        \A w \in Work : row[w].state = "running" \/ frontier.state[w] \in View!InFlightStates =>
            /\ row[w].state = "running"
            /\ frontier.state[w] = "admitted"
            /\ policy = "wait_for_expiry" /\ row[w].expires > scanned

\* The rebuilt frontier tells what the rows tell after the commands: an attempt the
\* recovery closed waits for the retry the row names, ended work is ended the same
\* way, and the cancellation or pause of the run is kept.
FrontierTellsRows ==
    phase = "done" =>
        /\ \A w \in Work : row[w].state \in TerminalTargets \cup {"retry_wait"} =>
              frontier.state[w] = row[w].state /\ frontier.retryAt[w] = row[w].retryAt
        /\ \A w \in Work : frontier.state[w] \in TerminalTargets \cup {"retry_wait"} =>
              row[w].state = frontier.state[w]
        /\ run.state \in {"paused", "cancelling"} => frontier.control = run.state

\* Startup recovery reconstructs the frontier from intact durable rows.
FrontierReconstructed == phase # "corrupt"

=============================================================================
