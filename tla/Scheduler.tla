----------------------------- MODULE Scheduler -----------------------------
(***************************************************************************)
(* The scheduler together with its serialized frontier: to_mapping hands   *)
(* out a snapshot at any point of the run, and after a restart a new       *)
(* scheduler of the same plan decodes and restores the last one.           *)
(***************************************************************************)
EXTENDS Frontier

CONSTANT MaxRestarts   \* bound on process restarts

ASSUME RestartAssumption == MaxRestarts \in Nat

VARIABLES
    saved,        \* the last frontier handed out, in its serialized form
    epoch         \* the process incarnation that owns the scheduler

schedulerVars == <<state, fence, retryAt, control, generation, reason, saved, epoch>>

\* from_mapping decodes rows with one shared integer bound before it builds the
\* frontier: a retry eligibility above the fence bound does not decode.
Decodable(f) ==
    /\ \A w \in Work : f.fence[w] # 0 => f.fence[w] \in Fences
    /\ \A w \in Work : f.retryAt[w] # NoWait => f.retryAt[w] \in 0..MaxFence
    /\ CrossFieldsValid(f)

SchedulerInit ==
    /\ FrontierInit
    /\ saved = Snapshot
    /\ epoch = 0

\* Only a frontier that a later incarnation may restore matters.
SaveFrontier ==
    /\ epoch < MaxRestarts
    /\ saved' = Snapshot
    /\ UNCHANGED <<frontier, epoch>>

\* The process dies; a new scheduler of the same plan decodes and restores the
\* last frontier it finds.
Restore ==
    /\ epoch < MaxRestarts
    /\ Decodable(saved)
    /\ state' = saved.state
    /\ fence' = saved.fence
    /\ retryAt' = saved.retryAt
    /\ control' = saved.control
    /\ generation' = saved.generation
    /\ reason' = saved.reason
    /\ epoch' = epoch + 1
    /\ UNCHANGED saved

SchedulerNext ==
    \/ FrontierNext /\ UNCHANGED <<saved, epoch>>
    \/ SaveFrontier
    \/ Restore

SchedulerSpec == SchedulerInit /\ [][SchedulerNext]_schedulerVars

------------------------------------------------------------------------------
\* Type invariant: the fields of the scheduler and of its serialized frontier.
SchedulerTypeOK ==
    /\ Snapshot \in FrontierType
    /\ saved \in FrontierType
    /\ epoch \in 0..MaxRestarts

\* What the documentation promises of the serialized frontier: whatever the
\* scheduler did before it was handed out, from_mapping and restore accept it.
\* The code does not keep this, since a retry instant may exceed the fence bound
\* that from_mapping applies to it as well.
SavedFrontierRestorable == Decodable(saved)

\* What the code keeps: whatever calls and restarts came before, a frontier the
\* scheduler handed out is refused by from_mapping exactly when some work item
\* waits for a retry later than the fence bound; no crossing of calls makes its
\* fields disagree.
RefusedOnlyForLateRetry ==
    SavedFrontierRestorable <=> \A w \in Work : saved.retryAt[w] <= MaxFence

\* Within one process a committed outcome is final: no later call re-admits,
\* retries or relabels the work item.
TerminalIsFinal ==
    [][epoch' = epoch =>
        \A w \in Work : state[w] \in TerminalStates => state'[w] = state[w]]_schedulerVars

=============================================================================
