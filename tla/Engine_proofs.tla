--------------------------- MODULE Engine_proofs ----------------------------
(***************************************************************************)
(* Proofs about the scheduler and the engine for every plan: any number of *)
(* nodes, edges, partitions, generations and instants, every worker pool,  *)
(* channel capacity and retry bound, under every interleaving, failure and *)
(* restart of the models.  Lemmas about the scheduler's calls come first,  *)
(* with the theorems about its serialized frontier; the engine, which      *)
(* makes these calls, follows.                                             *)
(***************************************************************************)
EXTENDS Engine, Scheduler, TLAPS, FiniteSetTheorems, SequenceTheorems

USE DEF InFlightStates, TerminalStates, WorkStates, ControlStates, NoWait, Fences, Instants

------------------------------------------------------------------------------
(* The scheduler.                                                          *)

\* Calls that change neither which work is blocked nor which has succeeded
\* leave every barrier as it was.
LEMMA SameBarriers ==
    ASSUME NEW st \in [Work -> WorkStates], NEW st2 \in [Work -> WorkStates],
           \A w \in Work : st[w] = "blocked" <=> st2[w] = "blocked",
           \A w \in Work : st[w] = "succeeded" <=> st2[w] = "succeeded",
           BarriersValid(st)
    PROVE  BarriersValid(st2)
  <1>1. \A n \in Nodes : BarrierOpen(st, n) <=> BarrierOpen(st2, n)
    BY DEF BarrierOpen, PermitsContinuation, WorkOf, Predecessors
  <1> QED
    BY <1>1, PlanAssumption DEF BarriersValid

\* Releasing successors changes only blocked work, and only to ready.
LEMMA ReleaseType ==
    ASSUME NEW st \in [Work -> WorkStates], NEW n \in Nodes
    PROVE  /\ ReleaseSuccessors(st, n) \in [Work -> WorkStates]
           /\ \A w \in Work : ReleaseSuccessors(st, n)[w] # st[w] =>
                 st[w] = "blocked" /\ ReleaseSuccessors(st, n)[w] = "ready"
  BY DEF ReleaseSuccessors

\* The heart of the scheduler: commit_result followed by _release_successors
\* opens exactly the barriers the commit completes.
LEMMA CommitKeepsBarriers ==
    ASSUME NEW st \in [Work -> WorkStates], NEW w \in Work, NEW outcome \in TerminalStates,
           st[w] \in InFlightStates,
           BarriersValid(st)
    PROVE  BarriersValid(ReleaseSuccessors([st EXCEPT ![w] = outcome], NodeOf[w]))
  <1> DEFINE st1 == [st EXCEPT ![w] = outcome]
             st2 == ReleaseSuccessors(st1, NodeOf[w])
  <1>0. NodeOf[w] \in Nodes /\ st1 \in [Work -> WorkStates] /\ st2 \in [Work -> WorkStates]
    BY PlanAssumption, ReleaseType
  <1>1. \A n \in Nodes : BarrierOpen(st2, n) <=> BarrierOpen(st1, n)
    <2>1. \A u \in Work : st2[u] = "succeeded" <=> st1[u] = "succeeded"
      BY <1>0, ReleaseType
    <2> QED BY <2>1 DEF BarrierOpen, PermitsContinuation, WorkOf, Predecessors
  <1>2. SUFFICES ASSUME NEW u \in Work, Predecessors(NodeOf[u]) # {}
                 PROVE  st2[u] # "blocked" <=> BarrierOpen(st1, NodeOf[u])
    BY <1>1, PlanAssumption DEF BarriersValid
  <1>3. st[u] # "blocked" <=> BarrierOpen(st, NodeOf[u])
    BY <1>2 DEF BarriersValid
  <1>4. CASE <<NodeOf[w], NodeOf[u]>> \in Edges
    <2>1. u # w
      BY <1>4, PlanAssumption
    <2>2. ~ BarrierOpen(st, NodeOf[u])
      BY <1>4, PlanAssumption DEF BarrierOpen, PermitsContinuation, WorkOf, Predecessors
    <2>3. st1[u] = "blocked"
      BY <2>1, <2>2, <1>3
    <2> QED BY <2>3, <1>4 DEF ReleaseSuccessors
  <1>5. CASE <<NodeOf[w], NodeOf[u]>> \notin Edges
    <2>1. BarrierOpen(st, NodeOf[u]) <=> BarrierOpen(st1, NodeOf[u])
      BY <1>5 DEF BarrierOpen, PermitsContinuation, WorkOf, Predecessors
    <2>2. st2[u] = st1[u]
      BY <1>5 DEF ReleaseSuccessors
    <2>3. st1[u] # "blocked" <=> st[u] # "blocked"
      OBVIOUS
    <2> QED BY <2>1, <2>2, <2>3, <1>3
  <1> QED BY <1>4, <1>5

------------------------------------------------------------------------------
\* The fields of the current frontier and their cross-field validity, without
\* the record that Snapshot wraps them in.
WorkFieldsOK ==
    /\ state \in [Work -> WorkStates]
    /\ fence \in [Work -> 0..MaxFence]
    /\ retryAt \in [Work -> Instants \cup {NoWait}]
    /\ \A w \in Work : state[w] \in InFlightStates <=> fence[w] # 0
    /\ \A w \in Work : state[w] = "retry_wait" <=> retryAt[w] # NoWait
    /\ BarriersValid(state)

ControlFieldsOK ==
    /\ control \in ControlStates
    /\ generation \in Fences
    /\ reason \in BOOLEAN
    /\ control = "recovery_required" <=> reason

FieldsOK == WorkFieldsOK /\ ControlFieldsOK

\* The invariant of the fields is the validation of the snapshot that shows them.
LEMMA FieldsAreSnapshot ==
    FieldsOK <=> Snapshot \in FrontierType /\ CrossFieldsValid(Snapshot)
  BY DEF FieldsOK, WorkFieldsOK, ControlFieldsOK, Snapshot, FrontierType, CrossFieldsValid

\* Steps that leave the work, or the control, fields alone.
LEMMA SameWork ==
    ASSUME WorkFieldsOK, UNCHANGED <<state, fence, retryAt>> PROVE WorkFieldsOK'
  BY DEF WorkFieldsOK, BarriersValid, BarrierOpen, PermitsContinuation, WorkOf, Predecessors

\* The same of the control fields.
LEMMA SameControl ==
    ASSUME ControlFieldsOK, UNCHANGED <<control, generation, reason>> PROVE ControlFieldsOK'
  BY DEF ControlFieldsOK

\* A new scheduler is well formed.
LEMMA InitFields == FrontierInit => FieldsOK
  <1> SUFFICES ASSUME FrontierInit PROVE FieldsOK
    OBVIOUS
  <1>1. state \in [Work -> WorkStates]
    BY DEF FrontierInit, InitialStates
  <1>2. \A w \in Work : /\ state[w] \in {"ready", "blocked"}
                        /\ state[w] = "ready" <=> Predecessors(NodeOf[w]) = {}
    BY DEF FrontierInit, InitialStates
  <1>3. BarriersValid(state)
    <2> SUFFICES ASSUME NEW w \in Work, Predecessors(NodeOf[w]) # {}
                 PROVE  state[w] # "blocked" <=> BarrierOpen(state, NodeOf[w])
      BY DEF BarriersValid
    <2>1. PICK m \in Nodes : m \in Predecessors(NodeOf[w])
      BY DEF Predecessors
    <2>2. PICK v \in Work : NodeOf[v] = m
      BY PlanAssumption
    <2>3. state[v] # "succeeded"
      BY <1>2
    <2>4. ~ BarrierOpen(state, NodeOf[w])
      BY <2>1, <2>2, <2>3 DEF BarrierOpen, PermitsContinuation, WorkOf
    <2> QED BY <2>4, <1>2
  <1>4. WorkFieldsOK
    BY <1>1, <1>2, <1>3, PlanAssumption DEF FrontierInit, WorkFieldsOK
  <1>5. ControlFieldsOK
    <2>1. control \in ControlStates /\ generation \in Fences
      BY PlanAssumption DEF FrontierInit
    <2>2. reason \in BOOLEAN /\ (control = "recovery_required" <=> reason)
      BY DEF FrontierInit
    <2> QED BY <2>1, <2>2 DEF ControlFieldsOK
  <1> QED BY <1>4, <1>5 DEF FieldsOK

\* Every call of the scheduler keeps its frontier well formed.
LEMMA NextFields == FieldsOK /\ [FrontierNext]_frontier => FieldsOK'
  <1> SUFFICES ASSUME FieldsOK, [FrontierNext]_frontier PROVE FieldsOK'
    OBVIOUS
  <1> USE PlanAssumption
  <1>0. WorkFieldsOK /\ ControlFieldsOK
    BY DEF FieldsOK
  <1>b. ASSUME WorkFieldsOK', UNCHANGED <<control, generation, reason>> PROVE FieldsOK'
    BY <1>0, <1>b, SameControl DEF FieldsOK
  <1>c. ASSUME ControlFieldsOK', UNCHANGED <<state, fence, retryAt>> PROVE FieldsOK'
    BY <1>0, <1>c, SameWork DEF FieldsOK
  <1>1. ASSUME NEW w \in Work, NEW f \in Fences, RegisterAdmission(w, f) PROVE FieldsOK'
    <2>1. state' \in [Work -> WorkStates]
      BY <1>0, <1>1 DEF RegisterAdmission, WorkFieldsOK
    <2>2. BarriersValid(state')
      BY <1>0, <1>1, <2>1, SameBarriers DEF RegisterAdmission, WorkFieldsOK
    <2>3. WorkFieldsOK'
      BY <1>0, <1>1, <2>2 DEF RegisterAdmission, WorkFieldsOK
    <2> QED BY <2>3, <1>b, <1>1 DEF RegisterAdmission
  <1>2. ASSUME NEW w \in Work, MarkResultReceived(w) PROVE FieldsOK'
    <2>1. state' \in [Work -> WorkStates]
      BY <1>0, <1>2 DEF MarkResultReceived, WorkFieldsOK
    <2>2. BarriersValid(state')
      BY <1>0, <1>2, <2>1, SameBarriers DEF MarkResultReceived, WorkFieldsOK
    <2>3. WorkFieldsOK'
      BY <1>0, <1>2, <2>2 DEF MarkResultReceived, WorkFieldsOK
    <2> QED BY <2>3, <1>b, <1>2 DEF MarkResultReceived
  <1>3. ASSUME NEW w \in Work, NEW outcome \in TerminalStates, CommitResult(w, outcome) PROVE FieldsOK'
    <2> DEFINE st1 == [state EXCEPT ![w] = outcome]
    <2>0. state \in [Work -> WorkStates] /\ state[w] \in InFlightStates /\ BarriersValid(state)
      BY <1>0, <1>3 DEF WorkFieldsOK, CommitResult
    <2>1. NodeOf[w] \in Nodes /\ st1 \in [Work -> WorkStates]
      BY <2>0
    <2>2. state' = ReleaseSuccessors(st1, NodeOf[w])
      BY <1>3 DEF CommitResult
    <2>3. BarriersValid(ReleaseSuccessors(st1, NodeOf[w]))
      BY <2>0, CommitKeepsBarriers
    <2>4. \A u \in Work : st1[u] = IF u = w THEN outcome ELSE state[u]
      BY <2>0
    <2> HIDE DEF st1
    <2>5. /\ state' \in [Work -> WorkStates]
          /\ \A u \in Work : state'[u] # st1[u] => st1[u] = "blocked" /\ state'[u] = "ready"
      BY <2>1, <2>2, ReleaseType
    <2>6. \A u \in Work : u # w => (state'[u] \in InFlightStates <=> state[u] \in InFlightStates)
                                   /\ (state'[u] = "retry_wait" <=> state[u] = "retry_wait")
      BY <2>4, <2>5
    <2>7. state'[w] = outcome
      BY <2>4, <2>5
    <2>8. BarriersValid(state')
      BY <2>2, <2>3
    <2>9. /\ fence' \in [Work -> 0..MaxFence] /\ retryAt' = retryAt
          /\ \A u \in Work : fence'[u] = IF u = w THEN 0 ELSE fence[u]
      BY <1>0, <1>3 DEF CommitResult, WorkFieldsOK
    <2>10. \A u \in Work : state'[u] \in InFlightStates <=> fence'[u] # 0
      BY <1>0, <2>6, <2>7, <2>9 DEF WorkFieldsOK
    <2>11. \A u \in Work : state'[u] = "retry_wait" <=> retryAt'[u] # NoWait
      BY <1>0, <2>0, <2>6, <2>7, <2>9 DEF WorkFieldsOK
    <2>12. WorkFieldsOK'
      BY <1>0, <2>5, <2>8, <2>9, <2>10, <2>11 DEF WorkFieldsOK
    <2> QED BY <2>12, <1>b, <1>3 DEF CommitResult
  <1>4. ASSUME NEW w \in Work, NEW at \in Instants, ScheduleRetry(w, at) PROVE FieldsOK'
    <2>1. state' \in [Work -> WorkStates]
      BY <1>0, <1>4 DEF ScheduleRetry, WorkFieldsOK
    <2>2. BarriersValid(state')
      BY <1>0, <1>4, <2>1, SameBarriers DEF ScheduleRetry, WorkFieldsOK
    <2>3. WorkFieldsOK'
      BY <1>0, <1>4, <2>2 DEF ScheduleRetry, WorkFieldsOK
    <2> QED BY <2>3, <1>b, <1>4 DEF ScheduleRetry
  <1>5. ASSUME NEW at \in Instants, RetryEligible(at) PROVE FieldsOK'
    <2>1. \A w \in Due(at) : state[w] = "retry_wait"
      BY <1>0 DEF WorkFieldsOK, Due
    <2>2. state' \in [Work -> WorkStates]
      BY <1>0, <1>5 DEF RetryEligible, WorkFieldsOK
    <2>3. \A w \in Work : /\ state[w] = "blocked" <=> state'[w] = "blocked"
                          /\ state[w] = "succeeded" <=> state'[w] = "succeeded"
      BY <1>0, <1>5, <2>1 DEF RetryEligible, WorkFieldsOK
    <2>4. BarriersValid(state')
      BY <1>0, <2>2, <2>3, SameBarriers DEF WorkFieldsOK
    <2>5. WorkFieldsOK'
      BY <1>0, <1>5, <2>1, <2>2, <2>4 DEF RetryEligible, WorkFieldsOK
    <2> QED BY <2>5, <1>b, <1>5 DEF RetryEligible
  <1>6. ASSUME NEW from \in {"running", "quiescing", "paused"}, NEW to \in {"running", "quiescing"},
               Regenerate(from, to) PROVE FieldsOK'
    <2>1. generation' \in Fences /\ control' \in ControlStates /\ reason' = reason
      BY <1>0, <1>6 DEF Regenerate, ControlFieldsOK
    <2>2. control # "recovery_required" /\ control' # "recovery_required"
      BY <1>6 DEF Regenerate
    <2>3. ControlFieldsOK'
      BY <1>0, <2>1, <2>2 DEF ControlFieldsOK
    <2> QED BY <2>3, <1>c, <1>6 DEF Regenerate
  <1>7. CASE MarkPaused \/ RequestCancel
    <2>1. generation' = generation /\ control' \in ControlStates /\ reason' = reason
      BY <1>7 DEF MarkPaused, RequestCancel
    <2>2. control # "recovery_required" /\ control' # "recovery_required"
      BY <1>7 DEF MarkPaused, RequestCancel
    <2>3. ControlFieldsOK'
      BY <1>0, <2>1, <2>2 DEF ControlFieldsOK
    <2> QED BY <2>3, <1>c, <1>7 DEF MarkPaused, RequestCancel
  <1>8. CASE MarkRecoveryRequired
    <2>1. generation' \in Fences /\ control' \in ControlStates
      BY <1>0, <1>8 DEF MarkRecoveryRequired, ControlFieldsOK
    <2>2. reason' \in BOOLEAN /\ (control' = "recovery_required" <=> reason')
      BY <1>8 DEF MarkRecoveryRequired
    <2>3. ControlFieldsOK'
      BY <2>1, <2>2 DEF ControlFieldsOK
    <2> QED BY <2>3, <1>c, <1>8 DEF MarkRecoveryRequired
  <1>9. CASE UNCHANGED frontier
    BY <1>0, <1>9, <1>b, SameWork DEF frontier
  <1> QED
    BY <1>1, <1>2, <1>3, <1>4, <1>5, <1>6, <1>7, <1>8, <1>9
    DEF FrontierNext, RequestPause, AbortPause, Resume

\* Work is released only when all of its ancestors, at any distance, have
\* succeeded: the set of nodes that succeeded is closed under predecessors, and
\* Ancestors is the least such set.
LEMMA FieldsAncestors == FieldsOK => AncestorsSucceeded
  <1> SUFFICES ASSUME FieldsOK, NEW w \in Work, state[w] # "blocked",
                      NEW u \in Work, NodeOf[u] \in Ancestors(NodeOf[w])
               PROVE  state[u] = "succeeded"
    BY DEF AncestorsSucceeded
  <1> DEFINE S == {n \in Nodes : PermitsContinuation(state, n)}
  <1>0. BarriersValid(state)
    BY DEF FieldsOK, WorkFieldsOK
  <1>1. ASSUME NEW e \in Edges, e[2] \in S \cup {NodeOf[w]} PROVE e[1] \in S
    <2>1. e[1] \in Nodes /\ e[2] \in Nodes /\ e = <<e[1], e[2]>>
      BY PlanAssumption
    <2>2. PICK v \in Work : NodeOf[v] = e[2] /\ state[v] # "blocked"
      BY <1>1, <2>1, PlanAssumption DEF PermitsContinuation, WorkOf
    <2>3. e[1] \in Predecessors(e[2])
      BY <2>1 DEF Predecessors
    <2>4. BarrierOpen(state, e[2])
      BY <1>0, <2>2, <2>3 DEF BarriersValid
    <2> QED BY <2>1, <2>3, <2>4 DEF BarrierOpen
  <1>2. S \in SUBSET Nodes
    OBVIOUS
  <1>3. NodeOf[u] \in S
    BY <1>1, <1>2 DEF Ancestors
  <1> QED BY <1>3 DEF PermitsContinuation, WorkOf

\* No call of the scheduler changes a committed outcome.
LEMMA CallsKeepOutcomes ==
    ASSUME FieldsOK, FrontierNext, NEW u \in Work, state[u] \in TerminalStates
    PROVE  state'[u] = state[u]
  <1> USE PlanAssumption
  <1>0. WorkFieldsOK
    BY DEF FieldsOK
  <1>1. ASSUME NEW w \in Work, NEW outcome \in TerminalStates, CommitResult(w, outcome)
        PROVE  state'[u] = state[u]
    BY <1>0, <1>1 DEF CommitResult, ReleaseSuccessors, WorkFieldsOK
  <1>2. ASSUME NEW at \in Instants, RetryEligible(at) PROVE state'[u] = state[u]
    BY <1>0, <1>2 DEF RetryEligible, Due, WorkFieldsOK
  <1>3. ASSUME NEW w \in Work,
               \/ \E f \in Fences : RegisterAdmission(w, f)
               \/ MarkResultReceived(w)
               \/ \E at \in Instants : ScheduleRetry(w, at)
        PROVE  state'[u] = state[u]
    BY <1>0, <1>3 DEF RegisterAdmission, MarkResultReceived, ScheduleRetry, WorkFieldsOK
  <1>4. CASE RequestPause \/ MarkPaused \/ AbortPause \/ Resume \/ RequestCancel
             \/ MarkRecoveryRequired
    BY <1>4 DEF RequestPause, MarkPaused, AbortPause, Resume, Regenerate, RequestCancel,
                MarkRecoveryRequired
  <1> QED BY <1>1, <1>2, <1>3, <1>4 DEF FrontierNext

------------------------------------------------------------------------------
\* The inductive invariant: the current frontier is well formed, and so is the
\* one a restart may bring back.
SchedulerInv ==
    /\ FieldsOK
    /\ saved \in FrontierType
    /\ CrossFieldsValid(saved)
    /\ epoch \in 0..MaxRestarts

\* The frontier a new scheduler hands out is its own.
LEMMA InitSchedulerInv == SchedulerInit => SchedulerInv
  <1> SUFFICES ASSUME SchedulerInit PROVE SchedulerInv
    OBVIOUS
  <1>1. FieldsOK
    BY InitFields DEF SchedulerInit
  <1>2. saved = Snapshot /\ epoch = 0
    BY DEF SchedulerInit
  <1> QED BY <1>1, <1>2, FieldsAreSnapshot, RestartAssumption DEF SchedulerInv

\* Calls, snapshots and restarts all keep the invariant.
LEMMA NextSchedulerInv == SchedulerInv /\ [SchedulerNext]_schedulerVars => SchedulerInv'
  <1> SUFFICES ASSUME SchedulerInv, [SchedulerNext]_schedulerVars PROVE SchedulerInv'
    OBVIOUS
  <1> USE RestartAssumption
  <1>0. /\ FieldsOK /\ WorkFieldsOK /\ ControlFieldsOK
        /\ saved \in FrontierType /\ CrossFieldsValid(saved) /\ epoch \in 0..MaxRestarts
    BY DEF SchedulerInv, FieldsOK
  <1>1. CASE [FrontierNext]_frontier /\ UNCHANGED <<saved, epoch>>
    <2>1. FieldsOK'
      BY <1>0, <1>1, NextFields
    <2> QED BY <1>0, <1>1, <2>1 DEF SchedulerInv, CrossFieldsValid
  <1>2. CASE SaveFrontier
    <2>1. FieldsOK' /\ saved' = Snapshot /\ epoch' = epoch
      BY <1>0, <1>2, NextFields DEF SaveFrontier
    <2>2. saved' \in FrontierType /\ CrossFieldsValid(saved')
      BY <1>0, <2>1, FieldsAreSnapshot
    <2> QED BY <1>0, <2>1, <2>2 DEF SchedulerInv
  <1>3. CASE Restore
    <2>1. WorkFieldsOK'
      BY <1>0, <1>3 DEF Restore, WorkFieldsOK, FrontierType, CrossFieldsValid
    <2>2. ControlFieldsOK'
      BY <1>0, <1>3 DEF Restore, ControlFieldsOK, FrontierType, CrossFieldsValid
    <2> QED BY <1>0, <1>3, <2>1, <2>2 DEF Restore, SchedulerInv, FieldsOK, CrossFieldsValid
  <1>4. CASE UNCHANGED schedulerVars
    BY <1>1, <1>4 DEF schedulerVars, frontier
  <1> QED BY <1>1, <1>2, <1>3, <1>4 DEF SchedulerNext

\* The invariant holds throughout.
LEMMA AlwaysSchedulerInv == SchedulerSpec => []SchedulerInv
  BY InitSchedulerInv, NextSchedulerInv, PTL DEF SchedulerSpec

------------------------------------------------------------------------------
\* The scheduler's fields keep their types under every sequence of calls.
THEOREM SchedulerTyped == SchedulerSpec => []SchedulerTypeOK
  <1>1. SchedulerInv => SchedulerTypeOK
    BY FieldsAreSnapshot DEF SchedulerInv, SchedulerTypeOK
  <1> QED BY <1>1, AlwaysSchedulerInv, PTL

\* For every plan, the frontier property never raises: fences, retry waits,
\* recovery reason and dependency barriers always agree with the work states.
THEOREM FrontierAlwaysWellFormed == SchedulerSpec => []FrontierWellFormed
  <1>1. SchedulerInv => FrontierWellFormed
    BY FieldsAreSnapshot DEF SchedulerInv, FrontierWellFormed
  <1> QED BY <1>1, AlwaysSchedulerInv, PTL

\* For every plan, work is released only when all of its ancestors, at any
\* distance, have succeeded.
THEOREM ReleasedAfterAncestors == SchedulerSpec => []AncestorsSucceeded
  <1>1. SchedulerInv => AncestorsSucceeded
    BY FieldsAncestors DEF SchedulerInv
  <1> QED BY <1>1, AlwaysSchedulerInv, PTL

\* For every plan and every bound on retry instants: a frontier that was handed
\* out decodes and restores unless, and only unless, it holds a retry instant
\* above the decoder's bound.
THEOREM FrontierRefusedOnlyForLateRetry == SchedulerSpec => []RefusedOnlyForLateRetry
  <1>1. SchedulerInv => RefusedOnlyForLateRetry
    BY PlanAssumption
    DEF SchedulerInv, RefusedOnlyForLateRetry, SavedFrontierRestorable, Decodable, FrontierType
  <1> QED BY <1>1, AlwaysSchedulerInv, PTL

\* No call of the scheduler changes a committed outcome.
THEOREM OutcomesAreFinal == SchedulerSpec => TerminalIsFinal
  <1> DEFINE A == epoch' = epoch =>
                    \A w \in Work : state[w] \in TerminalStates => state'[w] = state[w]
  <1>1. ASSUME SchedulerInv, [SchedulerNext]_schedulerVars PROVE [A]_schedulerVars
    <2> SUFFICES ASSUME SchedulerNext, epoch' = epoch, NEW u \in Work, state[u] \in TerminalStates
                 PROVE  state'[u] = state[u]
      BY <1>1 DEF schedulerVars
    <2>1. CASE FrontierNext
      BY <1>1, <2>1, CallsKeepOutcomes DEF SchedulerInv
    <2>2. CASE SaveFrontier
      BY <2>2 DEF SaveFrontier, frontier
    <2>3. CASE Restore
      BY <1>1, <2>3 DEF Restore, SchedulerInv
    <2> QED BY <2>1, <2>2, <2>3 DEF SchedulerNext
  <1> QED BY <1>1, AlwaysSchedulerInv, PTL DEF SchedulerSpec, TerminalIsFinal

------------------------------------------------------------------------------
(* The engine.                                                             *)

\* Where the parent is in run() determines the control state, the durable run
\* state and what _cancel_flow has left to do.
ParentOK ==
    /\ pc # "stopped" => status = "none"
    /\ pc = "stopped" /\ status = "paused" => control = "paused"
    /\ pc \in {"plan", "admit"} => control = "running"
    /\ pc \in {"quiesce", "acknowledge", "pause"} => control = "quiescing"
    /\ pc \in {"top", "check", "cancel"} => control \in {"running", "quiescing", "recovery_required"}
    /\ pc \in {"begin", "cancelDrain", "synthesize"} => control \in {"cancelling", "recovery_required"}
    /\ pc \in {"drain", "receive", "commit"} =>
          control \in IF drainTo \in {"cancelDrain", "synthesize"}
                      THEN {"cancelling", "recovery_required"}
                      ELSE {"running", "quiescing", "recovery_required"}
    /\ pc \in {"acknowledge", "pause"} => inFlight = {}
    /\ pc = "drain" => drainTo # "synthesize"
    /\ toCancel # {} => /\ pc \in {"synthesize", "receive", "commit", "stopped"}
                        /\ drainTo = "synthesize"
                        /\ status # "paused"

RunOK ==
    /\ pc \in {"top", "check", "plan", "admit", "quiesce", "acknowledge", "pause", "cancel", "begin"}
          => runState = "running"
    /\ pc \in {"cancelDrain", "synthesize"} => runState = "cancelling"
    /\ pc \in {"drain", "receive", "commit"} =>
          runState = IF drainTo \in {"cancelDrain", "synthesize"} THEN "cancelling" ELSE "running"

\* Row versions stay within the attempts the retry policy grants.
VersionOK ==
    /\ \A w \in Work :
          /\ workState[w] \in {"pending", "retry_wait"} => rowVersion[w] < 2 * MaxAttempts
          /\ workState[w] = "running" => rowVersion[w] <= 2 * MaxAttempts
    /\ \A i \in DOMAIN resultQ :
          resultQ[i].outcome = "retry_wait" => resultQ[i].fence + 2 <= 2 * MaxAttempts
    /\ pc \in {"receive", "commit"} /\ current.outcome = "retry_wait" =>
          current.fence + 2 <= 2 * MaxAttempts

\* The envelope being committed is a real one and its lease is reserved; tracked
\* work is registered.
LeaseOK ==
    /\ pc \in {"receive", "commit"} => /\ current \in Envelopes
                                       /\ lease[current.work] = "completing"
                                       /\ current.work \notin toCancel
    /\ \A w \in inFlight \cup toCancel : registered[w] # 0

\* Durably running work is tracked, unless the pass died on its claim.
RunningTracked ==
    \A w \in Work : workState[w] = "running" => w \in inFlight \/ status = "raised"

\* The inductive invariant.
IInv ==
    /\ FieldsOK
    /\ ParentType /\ TrackingType /\ ChannelType /\ RequestType /\ DurableType
    /\ ParentOK /\ RunOK /\ VersionOK /\ LeaseOK /\ RunningTracked
    /\ FrontierFollowsStore
    /\ CapacityHeldUntilAcknowledged
    /\ PauseGateNotLeaked

\* The numbers of EngineAssumption, one by one.
LEMMA Numbers ==
    /\ Permits \in Nat \ {0} /\ AssignBound \in Nat \ {0} /\ ResultBound \in Nat \ {0}
    /\ MaxAttempts \in Nat \ {0} /\ MaxRedispatch \in Nat /\ MaxWriterRetries \in Nat
    /\ MaxPauses \in Nat /\ MaxFence \in Nat \ {0} /\ MaxInstant \in Nat
    /\ 2 * MaxAttempts + 1 <= MaxFence
  BY EngineAssumption, PlanAssumption

\* A claim advances the row version to a fence within the attempts granted.
LEMMA ClaimVersion ==
    ASSUME DurableType, VersionOK, NEW w \in Work, Claimable(w), ClaimRow(w)
    PROVE  /\ rowVersion' \in [Work -> Fences]
           /\ rowVersion'[w] \in Fences /\ rowVersion'[w] <= 2 * MaxAttempts
           /\ workState' \in [Work -> {"pending", "running"} \cup Outcomes]
  <1>1. rowVersion \in [Work -> Fences] /\ rowVersion[w] < 2 * MaxAttempts
    BY DEF DurableType, VersionOK, Claimable
  <1>2. rowVersion[w] + 1 \in Fences /\ rowVersion[w] + 1 <= 2 * MaxAttempts
    BY <1>1, Numbers
  <1> QED BY <1>1, <1>2 DEF ClaimRow, DurableType

\* A completion of the envelope m takes its row to m's outcome, within bounds.
LEMMA CompleteVersion ==
    ASSUME DurableType, VersionOK, NEW m \in Envelopes, CompleteRow(m),
           m.outcome = "retry_wait" => m.fence + 2 <= 2 * MaxAttempts
    PROVE  /\ rowVersion' \in [Work -> Fences]
           /\ m.outcome = "retry_wait" => rowVersion'[m.work] < 2 * MaxAttempts
           /\ workState' = [workState EXCEPT ![m.work] = m.outcome]
           /\ workState' \in [Work -> {"pending", "running"} \cup Outcomes]
  <1>1. m.work \in Work /\ m.outcome \in Outcomes /\ m.fence \in Fences
    BY DEF Envelopes
  <1>2. rowVersion \in [Work -> Fences] /\ rowVersion[m.work] <= 2 * MaxAttempts
        /\ rowVersion[m.work] = m.fence
    BY <1>1 DEF DurableType, VersionOK, CompleteRow
  <1>3. rowVersion[m.work] + 1 \in Fences
    BY <1>1, <1>2, Numbers
  <1>4. rowVersion' = [rowVersion EXCEPT ![m.work] = rowVersion[m.work] + 1]
    BY DEF CompleteRow
  <1>5. m.outcome = "retry_wait" => rowVersion'[m.work] < 2 * MaxAttempts
    BY <1>1, <1>2, <1>4, Numbers
  <1> QED BY <1>1, <1>2, <1>3, <1>4, <1>5 DEF CompleteRow, DurableType

\* An envelope synthesized for tracked work is a well-typed one.
LEMMA SynthesizedEnvelope ==
    ASSUME TrackingType, NEW w \in Work, registered[w] # 0
    PROVE  Envelope(w, registered[w], "cancelled", TRUE) \in Envelopes
  <1>1. registered[w] \in Fences
    BY Numbers DEF TrackingType
  <1> QED BY <1>1 DEF Envelope, Envelopes, Outcomes

\* What receiving from a channel leaves in it.
LEMMA ReceiveFromChannel ==
    ASSUME NEW S, NEW q \in Seq(S), q # <<>>
    PROVE  /\ Head(q) \in S /\ Tail(q) \in Seq(S) /\ Len(Tail(q)) = Len(q) - 1
           /\ \A i \in DOMAIN Tail(q) : i + 1 \in DOMAIN q /\ Tail(q)[i] = q[i + 1]
           /\ Head(q) = q[1] /\ 1 \in DOMAIN q
  BY HeadTailProperties

------------------------------------------------------------------------------
(* Types.                                                                  *)

\* The parent stays at a known place with well-typed locals.
LEMMA ParentTypeStep ==
    ASSUME ParentType, TrackingType, ChannelType, RequestType, LeaseOK, Next
    PROVE  ParentType'
  <1>1. ASSUME Top PROVE ParentType'
    BY <1>1 DEF Top, Goto, DrainThen, frontier, tracking, channels, requests, durable,
        ParentType
  <1>2. ASSUME ReportRecovery PROVE ParentType'
    BY <1>2 DEF ReportRecovery, Report, frontier, tracking, channels, requests, durable,
        ParentType
  <1>3. ASSUME InstallPause PROVE ParentType'
    BY <1>3 DEF InstallPause, RequestPause, Regenerate, Goto, tracking, channels, requests,
        durable, ParentType
  <1>4. ASSUME StillQuiescing PROVE ParentType'
    BY <1>4 DEF StillQuiescing, Goto, frontier, tracking, channels, requests, durable,
        ParentType
  <1>5. ASSUME ReleaseRetries PROVE ParentType'
    BY <1>5 DEF ReleaseRetries, RetryEligible, Goto, frontier, tracking, channels, requests,
        durable, ParentType
  <1>6. ASSUME Plan PROVE ParentType'
    BY <1>6 DEF Plan, Report, frontier, tracking, channels, requests, durable, ParentType
  <1>7. ASSUME NEW w \in Work, AdmitOne(w) PROVE ParentType'
    BY <1>7 DEF AdmitOne, MayAdmit, Ready, Claimable, ClaimRow, RegisterAdmission, Assignment,
        requests, ParentType
  <1>8. ASSUME NEW w \in Work, AdmitFails(w) PROVE ParentType'
    BY <1>8 DEF AdmitFails, MayAdmit, Ready, ClaimRow, Claimable, Raise, frontier, channels,
        requests, durable, ParentType
  <1>9. ASSUME AdmissionDone PROVE ParentType'
    BY <1>9 DEF AdmissionDone, MayAdmit, Ready, Goto, DrainThen, Report, frontier, tracking,
        channels, requests, durable, ParentType
  <1>10. ASSUME DrainEmpty PROVE ParentType'
    BY <1>10 DEF DrainEmpty, Goto, frontier, tracking, channels, requests, durable, ParentType
  <1>11. ASSUME DrainOne PROVE ParentType'
    BY <1>11 DEF DrainOne, frontier, requests, durable, ChannelType, ParentType
  <1>12. ASSUME Receive PROVE ParentType'
    BY <1>12 DEF Receive, MarkResultReceived, Goto, frontier, tracking, channels, requests,
        durable, ParentType
  <1>13. ASSUME RejectResult PROVE ParentType'
    BY <1>13 DEF RejectResult, RetainLease, MayRedispatch, CountRedispatch, Assignment,
        EndCommit, Raise, MarkRecoveryOrRaise, MarkRecoveryRequired, frontier, requests,
        durable, ParentType
  <1>14. ASSUME StaleResult PROVE ParentType'
    BY <1>14 DEF StaleResult, MarkRecoveryOrRaise, MarkRecoveryRequired, EndCommit, Raise,
        frontier, tracking, channels, requests, durable, ParentType
  <1>15. ASSUME CommitRolledBack PROVE ParentType'
    BY <1>15 DEF CommitRolledBack, RetainLease, EndCommit, MarkRecoveryOrRaise,
        MarkRecoveryRequired, Raise, frontier, requests, durable, ParentType
  <1>16. ASSUME CommitUnknown PROVE ParentType'
    BY <1>16 DEF CommitUnknown, CompleteRow, MarkRecoveryRequired, Raise, frontier, channels,
        requests, durable, ParentType
  <1>17. ASSUME CommitAcknowledged PROVE ParentType'
    BY <1>17 DEF CommitAcknowledged, CompleteRow, ScheduleRetry, CommitResult, ReleasePermits,
        EndCommit, channels, requests, ParentType
  <1>18. ASSUME Quiesce PROVE ParentType'
    BY <1>18 DEF Quiesce, Quiescent, DrainThen, AbortPause, Regenerate, ReleaseGate, Goto,
        frontier, tracking, channels, requests, durable, RequestType, ParentType
  <1>19. ASSUME Acknowledge PROVE ParentType'
    BY <1>19 DEF Acknowledge, Goto, AbortPause, Regenerate, ReleaseGate, frontier, tracking,
        channels, durable, ParentType
  <1>20. ASSUME CompletePause PROVE ParentType'
    BY <1>20 DEF CompletePause, TransitionRun, MarkPaused, tracking, channels, requests,
        ParentType
  <1>21. ASSUME PauseFails PROVE ParentType'
    BY <1>21 DEF PauseFails, TransitionRun, MarkRecoveryRequired, Report, tracking, channels,
        requests, ParentType
  <1>22. ASSUME StopAdmission PROVE ParentType'
    BY <1>22 DEF StopAdmission, RequestCancel, Goto, frontier, tracking, channels, requests,
        durable, ParentType
  <1>23. ASSUME BeginCancellation PROVE ParentType'
    BY <1>23 DEF BeginCancellation, TransitionRun, frontier, tracking, requests, ParentType
  <1>24. ASSUME CancelDrain PROVE ParentType'
    BY <1>24 DEF CancelDrain, DrainThen, frontier, tracking, channels, requests, durable,
        TrackingType, ParentType
  <1>25. ASSUME Synthesize PROVE ParentType'
    <2>1. PICK w \in toCancel :
             \/ /\ current' = Envelope(w, registered[w], "cancelled", TRUE)
                /\ toCancel' = toCancel \ {w} /\ pc' = "receive" /\ status' = status
             \/ current' = current /\ toCancel' = toCancel /\ pc' = "stopped" /\ status' = "raised"
      BY <1>25 DEF Synthesize, Raise
    <2>2. /\ drainTo' = drainTo /\ drained' = drained /\ admitted' = admitted
          /\ pauseGen' = pauseGen
      BY <1>25 DEF Synthesize, Raise
    <2>3. w \in Work /\ registered[w] # 0
      BY DEF ParentType, LeaseOK
    <2>4. Envelope(w, registered[w], "cancelled", TRUE) \in Envelopes
      BY <2>3, SynthesizedEnvelope
    <2> QED BY <2>1, <2>2, <2>4 DEF ParentType
  <1>26. ASSUME FinishCancellation PROVE ParentType'
    BY <1>26 DEF FinishCancellation, TransitionRun, Report, frontier, tracking, channels,
        requests, ParentType
  <1>27. ASSUME CancelArrowFails PROVE ParentType'
    BY <1>27 DEF CancelArrowFails, TransitionRun, Raise, frontier, tracking, channels, requests,
        ParentType
  <1>28. ASSUME ResumeRun PROVE ParentType'
    BY <1>28 DEF ResumeRun, TransitionRun, Resume, Regenerate, ReleaseGate, tracking, channels,
        ParentType
  <1>29. CASE CancelAbortsPause \/ ResumeFails \/ (\E k \in Workers : WorkerTake(k)) \/ (\E k
      \in Workers : WorkerFinish(k)) \/ PauseRequest \/ PauseAbort \/ CancelRequest
    BY <1>29 DEF CancelAbortsPause, AbortPause, Regenerate, ReleaseGate, ResumeFails,
        TransitionRun, WorkerTake, WorkerFinish, Envelope, PauseRequest, PauseAbort,
        CancelRequest, parent, tracking, channels, durable, frontier, requests, ParentType
  <1>30. CASE Tick
    BY <1>30 DEF Tick, frontier, parent, tracking, channels, requests, durable, ParentType
  <1> QED BY <1>1, <1>2, <1>3, <1>4, <1>5, <1>6, <1>7, <1>8, <1>9, <1>10, <1>11, <1>12, <1>13,
      <1>14, <1>15, <1>16, <1>17, <1>18, <1>19, <1>20, <1>21, <1>22, <1>23, <1>24, <1>25, <1>26,
      <1>27, <1>28, <1>29, <1>30 DEF Next, ParentStep, WorkerStep

\* Tracking, permits and leases keep their types and bounds.
LEMMA TrackingTypeStep ==
    ASSUME TrackingType, ParentType, DurableType, VersionOK, LeaseOK, Next
    PROVE  TrackingType'
  <1>1. ASSUME ReportRecovery PROVE TrackingType'
    BY <1>1 DEF ReportRecovery, Report, frontier, tracking, channels, requests, durable,
        TrackingType
  <1>2. ASSUME InstallPause PROVE TrackingType'
    BY <1>2 DEF InstallPause, RequestPause, Regenerate, Goto, tracking, channels, requests,
        durable, TrackingType
  <1>3. ASSUME Plan PROVE TrackingType'
    BY <1>3 DEF Plan, Report, frontier, tracking, channels, requests, durable, TrackingType
  <1>4. ASSUME NEW w \in Work, AdmitOne(w) PROVE TrackingType'
    <2>1. rowVersion'[w] \in Fences
      BY <1>4, ClaimVersion DEF AdmitOne
    <2> QED BY <1>4, <2>1, Numbers DEF AdmitOne, requests, LeaseStates, TrackingType
  <1>5. ASSUME NEW w \in Work, AdmitFails(w) PROVE TrackingType'
    BY <1>5 DEF AdmitFails, MayAdmit, Ready, ClaimRow, Claimable, Raise, frontier, channels,
        requests, durable, LeaseStates, TrackingType
  <1>6. ASSUME AdmissionDone PROVE TrackingType'
    BY <1>6 DEF AdmissionDone, MayAdmit, Ready, Goto, DrainThen, Report, frontier, tracking,
        channels, requests, durable, TrackingType
  <1>7. ASSUME DrainOne PROVE TrackingType'
    BY <1>7 DEF DrainOne, frontier, requests, durable, LeaseStates, TrackingType
  <1>8. ASSUME RejectResult PROVE TrackingType'
    <2>1. lease' \in [Work -> LeaseStates]
      BY <1>8 DEF RejectResult, RetainLease, LeaseStates, TrackingType
    <2>2. redispatches' \in [Work -> 0..MaxRedispatch]
      <3>1. CASE MayRedispatch(current.work)
        <4>1. current.work \in Work
          BY <1>8 DEF RejectResult, LeaseOK, Envelopes
        <4>2. redispatches[current.work] + 1 \in 0..MaxRedispatch
          BY <3>1, <4>1, Numbers DEF MayRedispatch, TrackingType
        <4> QED BY <1>8, <3>1, <4>2 DEF RejectResult, CountRedispatch, TrackingType
      <3>2. CASE ~ MayRedispatch(current.work)
        BY <1>8, <3>2 DEF RejectResult, TrackingType
      <3> QED BY <3>1, <3>2
    <2> QED BY <1>8, <2>1, <2>2 DEF RejectResult, TrackingType
  <1>9. ASSUME CommitRolledBack PROVE TrackingType'
    BY <1>9, Numbers DEF CommitRolledBack, RetainLease, EndCommit, MarkRecoveryOrRaise,
        MarkRecoveryRequired, Raise, frontier, requests, durable, LeaseStates, LeaseOK,
        Envelopes, TrackingType
  <1>10. ASSUME CommitUnknown PROVE TrackingType'
    BY <1>10 DEF CommitUnknown, CompleteRow, MarkRecoveryRequired, Raise, frontier, channels,
        requests, durable, LeaseStates, LeaseOK, Envelopes, TrackingType
  <1>11. ASSUME CommitAcknowledged PROVE TrackingType'
    BY <1>11, Numbers DEF CommitAcknowledged, CompleteRow, ScheduleRetry, CommitResult,
        ReleasePermits, EndCommit, channels, requests, LeaseStates, LeaseOK, Envelopes,
        TrackingType
  <1>12. ASSUME Quiesce PROVE TrackingType'
    BY <1>12 DEF Quiesce, Quiescent, DrainThen, AbortPause, Regenerate, ReleaseGate, Goto,
        frontier, tracking, channels, requests, durable, TrackingType
  <1>13. ASSUME Acknowledge PROVE TrackingType'
    BY <1>13 DEF Acknowledge, Goto, AbortPause, Regenerate, ReleaseGate, frontier, tracking,
        channels, durable, TrackingType
  <1>14. ASSUME PauseFails PROVE TrackingType'
    BY <1>14 DEF PauseFails, TransitionRun, MarkRecoveryRequired, Report, tracking, channels,
        requests, TrackingType
  <1>15. ASSUME CancelAbortsPause PROVE TrackingType'
    BY <1>15 DEF CancelAbortsPause, AbortPause, Regenerate, ReleaseGate, parent, tracking,
        channels, durable, TrackingType
  <1>16. ASSUME Synthesize PROVE TrackingType'
    BY <1>16 DEF Synthesize, Envelope, Raise, frontier, channels, requests, durable,
        LeaseStates, LeaseOK, Envelopes, TrackingType
  <1>17. ASSUME FinishCancellation PROVE TrackingType'
    BY <1>17 DEF FinishCancellation, TransitionRun, Report, frontier, tracking, channels,
        requests, TrackingType
  <1>18. ASSUME ResumeRun PROVE TrackingType'
    BY <1>18 DEF ResumeRun, TransitionRun, Resume, Regenerate, ReleaseGate, tracking, channels,
        TrackingType
  <1>19. CASE Top \/ StillQuiescing \/ ReleaseRetries \/ DrainEmpty \/ Receive \/ StaleResult \/
      CompletePause
    BY <1>19 DEF Top, Goto, DrainThen, StillQuiescing, ReleaseRetries, RetryEligible,
        DrainEmpty, Receive, MarkResultReceived, StaleResult, MarkRecoveryOrRaise,
        MarkRecoveryRequired, EndCommit, Raise, CompletePause, TransitionRun, MarkPaused,
        frontier, tracking, channels, requests, durable, TrackingType
  <1>20. CASE StopAdmission \/ BeginCancellation \/ CancelDrain \/ CancelArrowFails \/
      ResumeFails \/ (\E k \in Workers : WorkerTake(k)) \/ (\E k \in Workers : WorkerFinish(k))
    BY <1>20 DEF StopAdmission, RequestCancel, Goto, BeginCancellation, TransitionRun,
        CancelDrain, DrainThen, CancelArrowFails, Raise, ResumeFails, WorkerTake, WorkerFinish,
        Envelope, frontier, tracking, channels, requests, durable, parent, TrackingType
  <1>21. CASE PauseRequest \/ PauseAbort \/ CancelRequest \/ Tick
    BY <1>21 DEF PauseRequest, PauseAbort, CancelRequest, Tick, frontier, parent, tracking,
        channels, durable, requests, TrackingType
  <1> QED BY <1>1, <1>2, <1>3, <1>4, <1>5, <1>6, <1>7, <1>8, <1>9, <1>10, <1>11, <1>12, <1>13,
      <1>14, <1>15, <1>16, <1>17, <1>18, <1>19, <1>20, <1>21 DEF Next, ParentStep, WorkerStep

\* The channels hold typed messages within their capacities.
LEMMA ChannelTypeStep ==
    ASSUME ChannelType, LeaseOK, DurableType, VersionOK, Next
    PROVE  ChannelType'
  <1>1. ASSUME NEW w \in Work, AdmitOne(w) PROVE ChannelType'
    <2>1. Assignment(w, rowVersion'[w]) \in Assignments
      BY <1>1, ClaimVersion DEF AdmitOne, Assignment, Assignments
    <2>2. assignQ' = Append(assignQ, Assignment(w, rowVersion'[w])) /\ Len(assignQ) < AssignBound
      BY <1>1 DEF AdmitOne, MayAdmit
    <2> QED BY <1>1, <2>1, <2>2, Numbers DEF AdmitOne, ChannelType
  <1>2. ASSUME DrainOne PROVE ChannelType'
    BY <1>2, ReceiveFromChannel, Numbers DEF DrainOne, ChannelType
  <1>3. ASSUME RejectResult PROVE ChannelType'
    <2>1. Assignment(current.work, current.fence) \in Assignments
      BY <1>3 DEF RejectResult, LeaseOK, Envelopes, Assignment, Assignments
    <2>2. \/ assignQ' = assignQ
          \/ /\ assignQ' = Append(assignQ, Assignment(current.work, current.fence))
             /\ ~(Len(assignQ) >= AssignBound)
      BY <1>3 DEF RejectResult
    <2>3. assignQ' \in Seq(Assignments) /\ Len(assignQ') <= AssignBound
      BY <2>1, <2>2, Numbers, SMTT(40) DEF ChannelType
    <2> QED BY <1>3, <2>3 DEF RejectResult, ChannelType
  <1>4. ASSUME CommitRolledBack PROVE ChannelType'
    <2>1. current \in Envelopes
      BY <1>4 DEF CommitRolledBack, LeaseOK
    <2>2. \/ resultQ' = resultQ
          \/ resultQ' = Append(resultQ, current) /\ Len(resultQ) < ResultBound
      BY <1>4 DEF CommitRolledBack
    <2>3. resultQ' \in Seq(Envelopes) /\ Len(resultQ') <= ResultBound
      BY <2>1, <2>2, Numbers DEF ChannelType
    <2> QED BY <1>4, <2>3 DEF CommitRolledBack, ChannelType
  <1>5. ASSUME BeginCancellation PROVE ChannelType'
    BY <1>5 DEF BeginCancellation, TransitionRun, frontier, tracking, requests, ChannelType
  <1>6. ASSUME NEW k \in Workers, WorkerTake(k) PROVE ChannelType'
    <2>1. /\ Head(assignQ) \in Assignments /\ Tail(assignQ) \in Seq(Assignments)
          /\ Len(Tail(assignQ)) = Len(assignQ) - 1
      BY <1>6, ReceiveFromChannel DEF WorkerTake, ChannelType
    <2>2. assignQ' \in Seq(Assignments) /\ Len(assignQ') <= AssignBound
      BY <1>6, <2>1, Numbers DEF WorkerTake, ChannelType
    <2>3. worker' \in [Workers -> Assignments \cup {Idle}]
      BY <1>6, <2>1 DEF WorkerTake, ChannelType
    <2> QED BY <1>6, <2>2, <2>3 DEF WorkerTake, ChannelType
  <1>7. ASSUME NEW k \in Workers, WorkerFinish(k) PROVE ChannelType'
    <2>1. worker[k] \in Assignments
      BY <1>7 DEF WorkerFinish, ChannelType
    <2>2. PICK o \in Outcomes, v \in BOOLEAN :
             resultQ' = Append(resultQ, Envelope(worker[k].work, worker[k].fence, o, v))
      BY <1>7 DEF WorkerFinish
    <2>3. Envelope(worker[k].work, worker[k].fence, o, v) \in Envelopes
      BY <2>1 DEF Envelope, Envelopes, Assignments
    <2>4. resultQ' \in Seq(Envelopes) /\ Len(resultQ') <= ResultBound
      BY <1>7, <2>2, <2>3, Numbers DEF WorkerFinish, ChannelType
    <2>5. worker' \in [Workers -> Assignments \cup {Idle}]
      BY <1>7 DEF WorkerFinish, ChannelType
    <2> QED BY <1>7, <2>4, <2>5 DEF WorkerFinish, ChannelType
  <1>8. CASE Top \/ ReportRecovery \/ InstallPause \/ StillQuiescing \/ ReleaseRetries \/ Plan
      \/ (\E w \in Work : AdmitFails(w))
    BY <1>8 DEF Top, Goto, DrainThen, ReportRecovery, Report, InstallPause, RequestPause,
        Regenerate, StillQuiescing, ReleaseRetries, RetryEligible, Plan, AdmitFails, MayAdmit,
        Ready, ClaimRow, Claimable, Raise, frontier, tracking, channels, requests, durable,
        ChannelType
  <1>9. CASE AdmissionDone \/ DrainEmpty \/ Receive \/ StaleResult \/ CommitUnknown \/
      CommitAcknowledged \/ Quiesce
    BY <1>9 DEF AdmissionDone, MayAdmit, Ready, Goto, DrainThen, Report, DrainEmpty, Receive,
        MarkResultReceived, StaleResult, MarkRecoveryOrRaise, MarkRecoveryRequired, EndCommit,
        Raise, CommitUnknown, CompleteRow, CommitAcknowledged, ScheduleRetry, CommitResult,
        ReleasePermits, Quiesce, Quiescent, AbortPause, Regenerate, ReleaseGate, frontier,
        tracking, channels, requests, durable, ChannelType
  <1>10. CASE Acknowledge \/ CompletePause \/ PauseFails \/ CancelAbortsPause \/ StopAdmission
      \/ CancelDrain \/ Synthesize
    BY <1>10 DEF Acknowledge, Goto, AbortPause, Regenerate, ReleaseGate, CompletePause,
        TransitionRun, MarkPaused, PauseFails, MarkRecoveryRequired, Report, CancelAbortsPause,
        StopAdmission, RequestCancel, CancelDrain, DrainThen, Synthesize, Envelope, Raise,
        frontier, tracking, channels, durable, requests, parent, ChannelType
  <1>11. CASE FinishCancellation \/ CancelArrowFails \/ ResumeRun \/ ResumeFails \/ PauseRequest
      \/ PauseAbort \/ CancelRequest
    BY <1>11 DEF FinishCancellation, TransitionRun, Report, CancelArrowFails, Raise, ResumeRun,
        Resume, Regenerate, ReleaseGate, ResumeFails, PauseRequest, PauseAbort, CancelRequest,
        frontier, tracking, channels, requests, parent, durable, ChannelType
  <1>12. CASE Tick
    BY <1>12 DEF Tick, frontier, parent, tracking, channels, requests, durable, ChannelType
  <1> QED BY <1>1, <1>2, <1>3, <1>4, <1>5, <1>6, <1>7, <1>8, <1>9, <1>10, <1>11, <1>12 DEF Next,
      ParentStep, WorkerStep

\* Requests and the clock keep their types.
LEMMA RequestTypeStep ==
    ASSUME RequestType, FieldsOK, Next
    PROVE  RequestType'
  <1>1. ASSUME Acknowledge PROVE RequestType'
    BY <1>1 DEF Acknowledge, Goto, AbortPause, Regenerate, ReleaseGate, frontier, tracking,
        channels, durable, RequestType
  <1>2. ASSUME CancelAbortsPause PROVE RequestType'
    BY <1>2, Numbers DEF CancelAbortsPause, AbortPause, Regenerate, ReleaseGate, parent,
        tracking, channels, durable, RequestType
  <1>3. ASSUME ResumeRun PROVE RequestType'
    BY <1>3, Numbers DEF ResumeRun, TransitionRun, Resume, Regenerate, ReleaseGate, tracking,
        channels, RequestType
  <1>4. ASSUME PauseRequest PROVE RequestType'
    BY <1>4, Numbers DEF PauseRequest, frontier, parent, tracking, channels, durable, FieldsOK,
        ControlFieldsOK, RequestType
  <1>5. ASSUME PauseAbort PROVE RequestType'
    BY <1>5, Numbers DEF PauseAbort, frontier, parent, tracking, channels, durable, RequestType
  <1>6. ASSUME CancelRequest PROVE RequestType'
    BY <1>6 DEF CancelRequest, frontier, parent, tracking, channels, durable, RequestType
  <1>7. ASSUME Tick PROVE RequestType'
    BY <1>7, Numbers DEF Tick, frontier, parent, tracking, channels, requests, durable,
        RequestType
  <1>8. ASSUME NEW w \in Work, AdmitOne(w) PROVE RequestType'
    BY <1>8 DEF AdmitOne, RegisterAdmission, ClaimRow, requests, RequestType
  <1>9. CASE Top \/ ReportRecovery \/ InstallPause \/ StillQuiescing \/ ReleaseRetries \/ Plan
      \/ (\E w \in Work : AdmitFails(w))
    BY <1>9 DEF Top, Goto, DrainThen, ReportRecovery, Report, InstallPause, RequestPause,
        Regenerate, StillQuiescing, ReleaseRetries, RetryEligible, Plan, AdmitFails, MayAdmit,
        Ready, ClaimRow, Claimable, Raise, frontier, tracking, channels, requests, durable,
        RequestType
  <1>10. CASE AdmissionDone \/ DrainEmpty \/ DrainOne \/ Receive \/ RejectResult \/ StaleResult
      \/ CommitRolledBack
    BY <1>10 DEF AdmissionDone, MayAdmit, Ready, Goto, DrainThen, Report, DrainEmpty, DrainOne,
        Receive, MarkResultReceived, RejectResult, RetainLease, MayRedispatch, CountRedispatch,
        Assignment, EndCommit, Raise, MarkRecoveryOrRaise, MarkRecoveryRequired, StaleResult,
        CommitRolledBack, frontier, tracking, channels, requests, durable, RequestType
  <1>11. CASE CommitUnknown \/ CommitAcknowledged \/ Quiesce \/ CompletePause \/ PauseFails \/
      StopAdmission \/ BeginCancellation
    BY <1>11 DEF CommitUnknown, CompleteRow, MarkRecoveryRequired, Raise, CommitAcknowledged,
        ScheduleRetry, CommitResult, ReleasePermits, EndCommit, Quiesce, Quiescent, DrainThen,
        AbortPause, Regenerate, ReleaseGate, Goto, CompletePause, TransitionRun, MarkPaused,
        PauseFails, Report, StopAdmission, RequestCancel, BeginCancellation, frontier, channels,
        requests, durable, tracking, RequestType
  <1>12. CASE CancelDrain \/ Synthesize \/ FinishCancellation \/ CancelArrowFails \/ ResumeFails
      \/ (\E k \in Workers : WorkerTake(k)) \/ (\E k \in Workers : WorkerFinish(k))
    BY <1>12 DEF CancelDrain, DrainThen, Synthesize, Envelope, Raise, FinishCancellation,
        TransitionRun, Report, CancelArrowFails, ResumeFails, WorkerTake, WorkerFinish,
        frontier, tracking, channels, requests, durable, parent, RequestType
  <1> QED BY <1>1, <1>2, <1>3, <1>4, <1>5, <1>6, <1>7, <1>8, <1>9, <1>10, <1>11, <1>12 DEF Next,
      ParentStep, WorkerStep

\* The durable rows keep their types, and row versions their bound.
LEMMA DurableTypeStep ==
    ASSUME DurableType, VersionOK, LeaseOK, Next
    PROVE  DurableType'
  <1>1. ASSUME NEW w \in Work, AdmitOne(w) PROVE DurableType'
    BY <1>1, ClaimVersion DEF AdmitOne, ClaimRow, DurableType
  <1>2. ASSUME NEW w \in Work, AdmitFails(w) PROVE DurableType'
    <2>1. CASE Claimable(w) /\ ClaimRow(w)
      BY <2>1, ClaimVersion DEF ClaimRow, DurableType
    <2> QED BY <1>2, <2>1 DEF AdmitFails, durable, DurableType
  <1>3. ASSUME CommitUnknown PROVE DurableType'
    <2>1. CASE CompleteRow(current)
      BY <1>3, <2>1, CompleteVersion DEF CommitUnknown, LeaseOK, VersionOK, CompleteRow, DurableType
    <2> QED BY <1>3, <2>1 DEF CommitUnknown, durable, DurableType
  <1>4. ASSUME CommitAcknowledged PROVE DurableType'
    BY <1>4, CompleteVersion
    DEF CommitAcknowledged, LeaseOK, VersionOK, CompleteRow, DurableType
  <1>5. ASSUME CompletePause PROVE DurableType'
    BY <1>5 DEF CompletePause, TransitionRun, MarkPaused, tracking, channels, requests,
        DurableType, RunStates
  <1>6. ASSUME PauseFails PROVE DurableType'
    BY <1>6 DEF PauseFails, TransitionRun, MarkRecoveryRequired, Report, tracking, channels,
        requests, DurableType, RunStates
  <1>7. ASSUME BeginCancellation PROVE DurableType'
    BY <1>7 DEF BeginCancellation, TransitionRun, frontier, tracking, requests, DurableType,
        RunStates
  <1>8. ASSUME FinishCancellation PROVE DurableType'
    BY <1>8 DEF FinishCancellation, TransitionRun, Report, frontier, tracking, channels,
        requests, DurableType, RunStates
  <1>9. ASSUME CancelArrowFails PROVE DurableType'
    BY <1>9 DEF CancelArrowFails, TransitionRun, Raise, frontier, tracking, channels, requests,
        DurableType, RunStates
  <1>10. ASSUME ResumeRun PROVE DurableType'
    BY <1>10 DEF ResumeRun, TransitionRun, Resume, Regenerate, ReleaseGate, tracking, channels,
        DurableType, RunStates
  <1>11. ASSUME ResumeFails PROVE DurableType'
    BY <1>11 DEF ResumeFails, TransitionRun, frontier, parent, tracking, channels, requests,
        DurableType, RunStates
  <1>12. CASE Top \/ ReportRecovery \/ InstallPause \/ StillQuiescing \/ ReleaseRetries \/ Plan
      \/ AdmissionDone
    BY <1>12 DEF Top, Goto, DrainThen, ReportRecovery, Report, InstallPause, RequestPause,
        Regenerate, StillQuiescing, ReleaseRetries, RetryEligible, Plan, AdmissionDone,
        MayAdmit, Ready, frontier, tracking, channels, requests, durable, DurableType, RunStates
  <1>13. CASE DrainEmpty \/ DrainOne \/ Receive \/ RejectResult \/ StaleResult \/
      CommitRolledBack \/ Quiesce
    BY <1>13 DEF DrainEmpty, Goto, DrainOne, Receive, MarkResultReceived, RejectResult,
        RetainLease, MayRedispatch, CountRedispatch, Assignment, EndCommit, Raise,
        MarkRecoveryOrRaise, MarkRecoveryRequired, StaleResult, CommitRolledBack, Quiesce,
        Quiescent, DrainThen, AbortPause, Regenerate, ReleaseGate, frontier, tracking, channels,
        requests, durable, DurableType, RunStates
  <1>14. CASE Acknowledge \/ CancelAbortsPause \/ StopAdmission \/ CancelDrain \/ Synthesize \/
      (\E k \in Workers : WorkerTake(k)) \/ (\E k \in Workers : WorkerFinish(k))
    BY <1>14 DEF Acknowledge, Goto, AbortPause, Regenerate, ReleaseGate, CancelAbortsPause,
        StopAdmission, RequestCancel, CancelDrain, DrainThen, Synthesize, Envelope, Raise,
        WorkerTake, WorkerFinish, frontier, tracking, channels, durable, parent, requests,
        DurableType, RunStates
  <1>15. CASE PauseRequest \/ PauseAbort \/ CancelRequest \/ Tick
    BY <1>15 DEF PauseRequest, PauseAbort, CancelRequest, Tick, frontier, parent, tracking,
        channels, durable, requests, DurableType, RunStates
  <1> QED BY <1>1, <1>2, <1>3, <1>4, <1>5, <1>6, <1>7, <1>8, <1>9, <1>10, <1>11, <1>12, <1>13,
      <1>14, <1>15 DEF Next, ParentStep, WorkerStep

------------------------------------------------------------------------------
(* The scheduler, the parent and the durable run.                          *)

\* Every step makes at most one scheduler call, with arguments the scheduler
\* accepts.
LEMMA CallsAreLegal ==
    ASSUME ParentType, RequestType, DurableType, VersionOK, LeaseOK, Next
    PROVE  [FrontierNext]_frontier
  <1>1. ASSUME InstallPause PROVE [FrontierNext]_frontier
    BY <1>1 DEF InstallPause, FrontierNext
  <1>2. ASSUME ReleaseRetries PROVE [FrontierNext]_frontier
    BY <1>2 DEF ReleaseRetries, FrontierNext, RequestType
  <1>3. ASSUME NEW w \in Work, AdmitOne(w) PROVE [FrontierNext]_frontier
    <2>1. RegisterAdmission(w, rowVersion'[w]) /\ rowVersion'[w] \in Fences
      BY <1>3, ClaimVersion DEF AdmitOne
    <2> QED BY <2>1 DEF FrontierNext
  <1>4. ASSUME Receive PROVE [FrontierNext]_frontier
    BY <1>4 DEF Receive, FrontierNext, LeaseOK, Envelopes
  <1>5. ASSUME RejectResult PROVE [FrontierNext]_frontier
    BY <1>5 DEF RejectResult, MarkRecoveryOrRaise, FrontierNext
  <1>6. ASSUME StaleResult PROVE [FrontierNext]_frontier
    BY <1>6 DEF StaleResult, MarkRecoveryOrRaise, FrontierNext
  <1>7. ASSUME CommitRolledBack PROVE [FrontierNext]_frontier
    BY <1>7 DEF CommitRolledBack, MarkRecoveryOrRaise, FrontierNext
  <1>8. ASSUME CommitUnknown PROVE [FrontierNext]_frontier
    BY <1>8 DEF CommitUnknown, FrontierNext
  <1>9. ASSUME CommitAcknowledged PROVE [FrontierNext]_frontier
    <2>1. current.work \in Work /\ current.outcome \in Outcomes
      BY <1>9 DEF CommitAcknowledged, LeaseOK, Envelopes
    <2>2. \/ \E at \in now..MaxInstant : ScheduleRetry(current.work, at)
          \/ current.outcome # "retry_wait" /\ CommitResult(current.work, current.outcome)
      BY <1>9 DEF CommitAcknowledged
    <2>3. now..MaxInstant \subseteq Instants
      BY Numbers DEF RequestType
    <2> QED BY <2>1, <2>2, <2>3 DEF FrontierNext, Outcomes
  <1>10. ASSUME Quiesce PROVE [FrontierNext]_frontier
    BY <1>10 DEF Quiesce, FrontierNext
  <1>11. ASSUME Acknowledge PROVE [FrontierNext]_frontier
    BY <1>11 DEF Acknowledge, FrontierNext
  <1>12. ASSUME CompletePause PROVE [FrontierNext]_frontier
    BY <1>12 DEF CompletePause, FrontierNext
  <1>13. ASSUME PauseFails PROVE [FrontierNext]_frontier
    BY <1>13 DEF PauseFails, FrontierNext
  <1>14. ASSUME CancelAbortsPause PROVE [FrontierNext]_frontier
    BY <1>14 DEF CancelAbortsPause, FrontierNext
  <1>15. ASSUME StopAdmission PROVE [FrontierNext]_frontier
    BY <1>15 DEF StopAdmission, FrontierNext
  <1>16. ASSUME ResumeRun PROVE [FrontierNext]_frontier
    BY <1>16 DEF ResumeRun, FrontierNext
  <1>17. CASE Top \/ ReportRecovery \/ StillQuiescing \/ Plan \/ (\E w \in Work : AdmitFails(w))
      \/ AdmissionDone \/ DrainEmpty
    BY <1>17 DEF Top, Goto, DrainThen, ReportRecovery, Report, StillQuiescing, Plan, AdmitFails,
        MayAdmit, Ready, ClaimRow, Claimable, Raise, AdmissionDone, DrainEmpty, frontier,
        tracking, channels, requests, durable, frontier
  <1>18. CASE DrainOne \/ BeginCancellation \/ CancelDrain \/ Synthesize \/ FinishCancellation
      \/ CancelArrowFails \/ ResumeFails
    BY <1>18 DEF DrainOne, BeginCancellation, TransitionRun, CancelDrain, DrainThen, Synthesize,
        Envelope, Raise, FinishCancellation, Report, CancelArrowFails, ResumeFails, frontier,
        requests, durable, tracking, channels, parent, frontier
  <1>19. CASE (\E k \in Workers : WorkerTake(k)) \/ (\E k \in Workers : WorkerFinish(k)) \/
      PauseRequest \/ PauseAbort \/ CancelRequest \/ Tick
    BY <1>19 DEF WorkerTake, WorkerFinish, Envelope, PauseRequest, PauseAbort, CancelRequest,
        Tick, frontier, parent, tracking, requests, durable, channels, frontier
  <1> QED BY <1>1, <1>2, <1>3, <1>4, <1>5, <1>6, <1>7, <1>8, <1>9, <1>10, <1>11, <1>12, <1>13,
      <1>14, <1>15, <1>16, <1>17, <1>18, <1>19 DEF Next, ParentStep, WorkerStep

\* The place of the parent keeps determining the control state.
LEMMA ParentOKStep ==
    ASSUME FieldsOK, ParentType, TrackingType, ParentOK, LeaseOK, Next
    PROVE  ParentOK'
  <1>1. ASSUME Top PROVE ParentOK'
    BY <1>1 DEF Top, Goto, DrainThen, frontier, tracking, channels, requests, durable, ParentOK,
        ParentType
  <1>2. ASSUME ReportRecovery PROVE ParentOK'
    BY <1>2 DEF ReportRecovery, Report, frontier, tracking, channels, requests, durable,
        ParentOK, ParentType
  <1>3. ASSUME InstallPause PROVE ParentOK'
    BY <1>3 DEF InstallPause, RequestPause, Regenerate, Goto, tracking, channels, requests,
        durable, ParentOK, ParentType
  <1>4. ASSUME StillQuiescing PROVE ParentOK'
    BY <1>4 DEF StillQuiescing, Goto, frontier, tracking, channels, requests, durable, ParentOK,
        ParentType
  <1>5. ASSUME ReleaseRetries PROVE ParentOK'
    BY <1>5 DEF ReleaseRetries, RetryEligible, Goto, frontier, tracking, channels, requests,
        durable, ParentOK, ParentType
  <1>6. ASSUME Plan PROVE ParentOK'
    BY <1>6 DEF Plan, Report, frontier, tracking, channels, requests, durable, ParentOK,
        ParentType
  <1>7. ASSUME NEW w \in Work, AdmitOne(w) PROVE ParentOK'
    BY <1>7 DEF AdmitOne, MayAdmit, Ready, Claimable, ClaimRow, RegisterAdmission, Assignment,
        requests, ParentOK, ParentType
  <1>8. ASSUME NEW w \in Work, AdmitFails(w) PROVE ParentOK'
    BY <1>8 DEF AdmitFails, MayAdmit, Ready, ClaimRow, Claimable, Raise, frontier, channels,
        requests, durable, ParentOK, ParentType
  <1>9. ASSUME AdmissionDone PROVE ParentOK'
    BY <1>9 DEF AdmissionDone, MayAdmit, Ready, Goto, DrainThen, Report, frontier, tracking,
        channels, requests, durable, ParentOK, ParentType
  <1>10. ASSUME DrainEmpty PROVE ParentOK'
    BY <1>10 DEF DrainEmpty, Goto, frontier, tracking, channels, requests, durable, ParentOK,
        ParentType
  <1>11. ASSUME DrainOne PROVE ParentOK'
    BY <1>11 DEF DrainOne, frontier, requests, durable, ParentOK, ParentType
  <1>12. ASSUME Receive PROVE ParentOK'
    BY <1>12 DEF Receive, MarkResultReceived, Goto, frontier, tracking, channels, requests,
        durable, ParentOK, ParentType
  <1>13. ASSUME RejectResult PROVE ParentOK'
    BY <1>13 DEF RejectResult, RetainLease, MayRedispatch, CountRedispatch, Assignment,
        EndCommit, Raise, MarkRecoveryOrRaise, MarkRecoveryRequired, frontier, requests,
        durable, ParentOK, ParentType
  <1>14. ASSUME StaleResult PROVE ParentOK'
    BY <1>14 DEF StaleResult, MarkRecoveryOrRaise, MarkRecoveryRequired, EndCommit, Raise,
        frontier, tracking, channels, requests, durable, ParentOK, ParentType
  <1>15. ASSUME CommitRolledBack PROVE ParentOK'
    BY <1>15 DEF CommitRolledBack, RetainLease, EndCommit, MarkRecoveryOrRaise,
        MarkRecoveryRequired, Raise, frontier, requests, durable, ParentOK, ParentType
  <1>16. ASSUME CommitUnknown PROVE ParentOK'
    BY <1>16 DEF CommitUnknown, CompleteRow, MarkRecoveryRequired, Raise, frontier, channels,
        requests, durable, ParentOK, ParentType
  <1>17. ASSUME CommitAcknowledged PROVE ParentOK'
    BY <1>17 DEF CommitAcknowledged, CompleteRow, ScheduleRetry, CommitResult, ReleasePermits,
        EndCommit, channels, requests, ParentOK, ParentType
  <1>18. ASSUME Quiesce PROVE ParentOK'
    BY <1>18 DEF Quiesce, Quiescent, DrainThen, AbortPause, Regenerate, ReleaseGate, Goto,
        frontier, tracking, channels, requests, durable, ParentOK, ParentType
  <1>19. ASSUME Acknowledge PROVE ParentOK'
    BY <1>19 DEF Acknowledge, Goto, AbortPause, Regenerate, ReleaseGate, frontier, tracking,
        channels, durable, ParentOK, ParentType
  <1>20. ASSUME CompletePause PROVE ParentOK'
    BY <1>20 DEF CompletePause, TransitionRun, MarkPaused, tracking, channels, requests,
        ParentOK, ParentType
  <1>21. ASSUME PauseFails PROVE ParentOK'
    BY <1>21 DEF PauseFails, TransitionRun, MarkRecoveryRequired, Report, tracking, channels,
        requests, ParentOK, ParentType
  <1>22. ASSUME CancelAbortsPause PROVE ParentOK'
    BY <1>22 DEF CancelAbortsPause, AbortPause, Regenerate, ReleaseGate, parent, tracking,
        channels, durable, ParentOK, ParentType
  <1>23. ASSUME StopAdmission PROVE ParentOK'
    BY <1>23 DEF StopAdmission, RequestCancel, Goto, frontier, tracking, channels, requests,
        durable, ParentOK, ParentType
  <1>24. ASSUME BeginCancellation PROVE ParentOK'
    BY <1>24 DEF BeginCancellation, TransitionRun, frontier, tracking, requests, ParentOK,
        ParentType
  <1>25. ASSUME CancelDrain PROVE ParentOK'
    BY <1>25 DEF CancelDrain, DrainThen, frontier, tracking, channels, requests, durable,
        ParentOK, ParentType
  <1>26. ASSUME Synthesize PROVE ParentOK'
    BY <1>26 DEF Synthesize, Envelope, Raise, frontier, channels, requests, durable, ParentOK,
        ParentType
  <1>27. ASSUME FinishCancellation PROVE ParentOK'
    BY <1>27 DEF FinishCancellation, TransitionRun, Report, frontier, tracking, channels,
        requests, ParentOK, ParentType
  <1>28. ASSUME CancelArrowFails PROVE ParentOK'
    BY <1>28 DEF CancelArrowFails, TransitionRun, Raise, frontier, tracking, channels, requests,
        ParentOK, ParentType
  <1>29. ASSUME ResumeRun PROVE ParentOK'
    BY <1>29 DEF ResumeRun, TransitionRun, Resume, Regenerate, ReleaseGate, tracking, channels,
        ParentOK, ParentType
  <1>30. CASE ResumeFails \/ (\E k \in Workers : WorkerTake(k)) \/ (\E k \in Workers :
      WorkerFinish(k))
    BY <1>30 DEF ResumeFails, TransitionRun, WorkerTake, WorkerFinish, Envelope, frontier,
        parent, tracking, channels, requests, durable, ParentOK, ParentType
  <1>31. CASE PauseRequest \/ PauseAbort \/ CancelRequest
    BY <1>31 DEF PauseRequest, PauseAbort, CancelRequest, frontier, parent, tracking, channels,
        durable, ParentOK, ParentType
  <1>32. CASE Tick
    BY <1>32 DEF Tick, frontier, parent, tracking, channels, requests, durable, ParentOK,
        ParentType
  <1> QED BY <1>1, <1>2, <1>3, <1>4, <1>5, <1>6, <1>7, <1>8, <1>9, <1>10, <1>11, <1>12, <1>13,
      <1>14, <1>15, <1>16, <1>17, <1>18, <1>19, <1>20, <1>21, <1>22, <1>23, <1>24, <1>25, <1>26,
      <1>27, <1>28, <1>29, <1>30, <1>31, <1>32 DEF Next, ParentStep, WorkerStep

\* The place of the parent keeps determining the durable run state.
LEMMA RunOKStep ==
    ASSUME ParentType, ParentOK, RunOK, Next
    PROVE  RunOK'
  <1>1. ASSUME Top PROVE RunOK'
    BY <1>1 DEF Top, Goto, DrainThen, frontier, tracking, channels, requests, durable, RunOK,
        ParentType, ParentOK
  <1>2. ASSUME ReportRecovery PROVE RunOK'
    BY <1>2 DEF ReportRecovery, Report, frontier, tracking, channels, requests, durable, RunOK,
        ParentType, ParentOK
  <1>3. ASSUME InstallPause PROVE RunOK'
    BY <1>3 DEF InstallPause, RequestPause, Regenerate, Goto, tracking, channels, requests,
        durable, RunOK, ParentType, ParentOK
  <1>4. ASSUME StillQuiescing PROVE RunOK'
    BY <1>4 DEF StillQuiescing, Goto, frontier, tracking, channels, requests, durable, RunOK,
        ParentType, ParentOK
  <1>5. ASSUME ReleaseRetries PROVE RunOK'
    BY <1>5 DEF ReleaseRetries, RetryEligible, Goto, frontier, tracking, channels, requests,
        durable, RunOK, ParentType, ParentOK
  <1>6. ASSUME Plan PROVE RunOK'
    BY <1>6 DEF Plan, Report, frontier, tracking, channels, requests, durable, RunOK,
        ParentType, ParentOK
  <1>7. ASSUME NEW w \in Work, AdmitFails(w) PROVE RunOK'
    BY <1>7 DEF AdmitFails, MayAdmit, Ready, ClaimRow, Claimable, Raise, frontier, channels,
        requests, durable, RunOK, ParentType, ParentOK
  <1>8. ASSUME AdmissionDone PROVE RunOK'
    BY <1>8 DEF AdmissionDone, MayAdmit, Ready, Goto, DrainThen, Report, frontier, tracking,
        channels, requests, durable, RunOK, ParentType, ParentOK
  <1>9. ASSUME DrainEmpty PROVE RunOK'
    BY <1>9 DEF DrainEmpty, Goto, frontier, tracking, channels, requests, durable, RunOK,
        ParentType, ParentOK
  <1>10. ASSUME DrainOne PROVE RunOK'
    BY <1>10 DEF DrainOne, frontier, requests, durable, RunOK, ParentType, ParentOK
  <1>11. ASSUME Receive PROVE RunOK'
    BY <1>11 DEF Receive, MarkResultReceived, Goto, frontier, tracking, channels, requests,
        durable, RunOK, ParentType, ParentOK
  <1>12. ASSUME RejectResult PROVE RunOK'
    BY <1>12 DEF RejectResult, RetainLease, MayRedispatch, CountRedispatch, Assignment,
        EndCommit, Raise, MarkRecoveryOrRaise, MarkRecoveryRequired, frontier, requests,
        durable, RunOK, ParentType, ParentOK
  <1>13. ASSUME StaleResult PROVE RunOK'
    BY <1>13 DEF StaleResult, MarkRecoveryOrRaise, MarkRecoveryRequired, EndCommit, Raise,
        frontier, tracking, channels, requests, durable, RunOK, ParentType, ParentOK
  <1>14. ASSUME CommitRolledBack PROVE RunOK'
    BY <1>14 DEF CommitRolledBack, RetainLease, EndCommit, MarkRecoveryOrRaise,
        MarkRecoveryRequired, Raise, frontier, requests, durable, RunOK, ParentType, ParentOK
  <1>15. ASSUME CommitUnknown PROVE RunOK'
    BY <1>15 DEF CommitUnknown, CompleteRow, MarkRecoveryRequired, Raise, frontier, channels,
        requests, durable, RunOK, ParentType, ParentOK
  <1>16. ASSUME CommitAcknowledged PROVE RunOK'
    BY <1>16 DEF CommitAcknowledged, CompleteRow, ScheduleRetry, CommitResult, ReleasePermits,
        EndCommit, channels, requests, RunOK, ParentType, ParentOK
  <1>17. ASSUME Quiesce PROVE RunOK'
    BY <1>17 DEF Quiesce, Quiescent, DrainThen, AbortPause, Regenerate, ReleaseGate, Goto,
        frontier, tracking, channels, requests, durable, RunOK, ParentType, ParentOK
  <1>18. ASSUME Acknowledge PROVE RunOK'
    BY <1>18 DEF Acknowledge, Goto, AbortPause, Regenerate, ReleaseGate, frontier, tracking,
        channels, durable, RunOK, ParentType, ParentOK
  <1>19. ASSUME CompletePause PROVE RunOK'
    BY <1>19 DEF CompletePause, TransitionRun, MarkPaused, tracking, channels, requests, RunOK,
        ParentType, ParentOK
  <1>20. ASSUME PauseFails PROVE RunOK'
    BY <1>20 DEF PauseFails, TransitionRun, MarkRecoveryRequired, Report, tracking, channels,
        requests, RunOK, ParentType, ParentOK
  <1>21. ASSUME StopAdmission PROVE RunOK'
    BY <1>21 DEF StopAdmission, RequestCancel, Goto, frontier, tracking, channels, requests,
        durable, RunOK, ParentType, ParentOK
  <1>22. ASSUME BeginCancellation PROVE RunOK'
    BY <1>22 DEF BeginCancellation, TransitionRun, frontier, tracking, requests, RunOK,
        ParentType, ParentOK
  <1>23. ASSUME CancelDrain PROVE RunOK'
    BY <1>23 DEF CancelDrain, DrainThen, frontier, tracking, channels, requests, durable, RunOK,
        ParentType, ParentOK
  <1>24. ASSUME Synthesize PROVE RunOK'
    BY <1>24 DEF Synthesize, Envelope, Raise, frontier, channels, requests, durable, RunOK,
        ParentType, ParentOK
  <1>25. ASSUME FinishCancellation PROVE RunOK'
    BY <1>25 DEF FinishCancellation, TransitionRun, Report, frontier, tracking, channels,
        requests, RunOK, ParentType, ParentOK
  <1>26. ASSUME CancelArrowFails PROVE RunOK'
    BY <1>26 DEF CancelArrowFails, TransitionRun, Raise, frontier, tracking, channels, requests,
        RunOK, ParentType, ParentOK
  <1>27. ASSUME ResumeRun PROVE RunOK'
    BY <1>27 DEF ResumeRun, TransitionRun, Resume, Regenerate, ReleaseGate, tracking, channels,
        RunOK, ParentType, ParentOK
  <1>28. ASSUME ResumeFails PROVE RunOK'
    BY <1>28 DEF ResumeFails, TransitionRun, frontier, parent, tracking, channels, requests,
        RunOK, ParentType, ParentOK
  <1>29. ASSUME NEW w \in Work, AdmitOne(w) PROVE RunOK'
    BY <1>29 DEF AdmitOne, RegisterAdmission, ClaimRow, requests, RunOK, ParentType, ParentOK
  <1>30. CASE CancelAbortsPause \/ (\E k \in Workers : WorkerTake(k)) \/ (\E k \in Workers :
      WorkerFinish(k)) \/ PauseRequest \/ PauseAbort \/ CancelRequest \/ Tick
    BY <1>30 DEF CancelAbortsPause, AbortPause, Regenerate, ReleaseGate, WorkerTake,
        WorkerFinish, Envelope, PauseRequest, PauseAbort, CancelRequest, Tick, parent, tracking,
        channels, durable, frontier, requests, RunOK, ParentType, ParentOK
  <1> QED BY <1>1, <1>2, <1>3, <1>4, <1>5, <1>6, <1>7, <1>8, <1>9, <1>10, <1>11, <1>12, <1>13,
      <1>14, <1>15, <1>16, <1>17, <1>18, <1>19, <1>20, <1>21, <1>22, <1>23, <1>24, <1>25, <1>26,
      <1>27, <1>28, <1>29, <1>30 DEF Next, ParentStep, WorkerStep

\* The envelope being committed keeps its completion reservation.
LEMMA LeaseOKStep ==
    ASSUME ParentType, TrackingType, ChannelType, DurableType, VersionOK, ParentOK, LeaseOK, Next
    PROVE  LeaseOK'
  <1>1. ASSUME Top PROVE LeaseOK'
    BY <1>1 DEF Top, Goto, DrainThen, frontier, tracking, channels, requests, durable, LeaseOK
  <1>2. ASSUME ReportRecovery PROVE LeaseOK'
    BY <1>2 DEF ReportRecovery, Report, frontier, tracking, channels, requests, durable, LeaseOK
  <1>3. ASSUME InstallPause PROVE LeaseOK'
    BY <1>3 DEF InstallPause, RequestPause, Regenerate, Goto, tracking, channels, requests,
        durable, LeaseOK
  <1>4. ASSUME StillQuiescing PROVE LeaseOK'
    BY <1>4 DEF StillQuiescing, Goto, frontier, tracking, channels, requests, durable, LeaseOK
  <1>5. ASSUME ReleaseRetries PROVE LeaseOK'
    BY <1>5 DEF ReleaseRetries, RetryEligible, Goto, frontier, tracking, channels, requests,
        durable, LeaseOK
  <1>6. ASSUME Plan PROVE LeaseOK'
    BY <1>6 DEF Plan, Report, frontier, tracking, channels, requests, durable, LeaseOK
  <1>7. ASSUME NEW w \in Work, AdmitOne(w) PROVE LeaseOK'
    <2>1. rowVersion'[w] # 0
      BY <1>7, ClaimVersion DEF AdmitOne
    <2>2. /\ pc = "admit" /\ pc' = pc /\ toCancel' = toCancel /\ inFlight' = inFlight \cup {w}
          /\ registered' = [registered EXCEPT ![w] = rowVersion'[w]]
      BY <1>7 DEF AdmitOne
    <2> QED BY <2>1, <2>2 DEF LeaseOK, TrackingType, ParentType
  <1>8. ASSUME NEW w \in Work, AdmitFails(w) PROVE LeaseOK'
    BY <1>8 DEF AdmitFails, MayAdmit, Ready, ClaimRow, Claimable, Raise, frontier, channels,
        requests, durable, LeaseOK
  <1>9. ASSUME AdmissionDone PROVE LeaseOK'
    BY <1>9 DEF AdmissionDone, MayAdmit, Ready, Goto, DrainThen, Report, frontier, tracking,
        channels, requests, durable, LeaseOK
  <1>10. ASSUME DrainEmpty PROVE LeaseOK'
    BY <1>10 DEF DrainEmpty, Goto, frontier, tracking, channels, requests, durable, ParentType,
        LeaseOK
  <1>11. ASSUME DrainOne PROVE LeaseOK'
    <2>0. Head(resultQ) \in Envelopes
      BY <1>11, ReceiveFromChannel DEF DrainOne, ChannelType
    <2>1. current' \in Envelopes /\ lease'[current'.work] = "completing"
      BY <1>11, <2>0 DEF DrainOne, TrackingType, Envelopes
    <2>2. toCancel' = {} /\ toCancel = {}
      BY <1>11 DEF DrainOne, ParentOK
    <2> QED BY <1>11, <2>1, <2>2 DEF DrainOne, LeaseOK
  <1>12. ASSUME Receive PROVE LeaseOK'
    BY <1>12 DEF Receive, MarkResultReceived, Goto, frontier, tracking, channels, requests,
        durable, LeaseOK
  <1>13. ASSUME RejectResult PROVE LeaseOK'
    BY <1>13 DEF RejectResult, RetainLease, MayRedispatch, CountRedispatch, Assignment,
        EndCommit, Raise, MarkRecoveryOrRaise, MarkRecoveryRequired, frontier, requests,
        durable, ParentType, LeaseOK
  <1>14. ASSUME StaleResult PROVE LeaseOK'
    BY <1>14 DEF StaleResult, MarkRecoveryOrRaise, MarkRecoveryRequired, EndCommit, Raise,
        frontier, tracking, channels, requests, durable, ParentType, LeaseOK
  <1>15. ASSUME CommitRolledBack PROVE LeaseOK'
    BY <1>15 DEF CommitRolledBack, RetainLease, EndCommit, MarkRecoveryOrRaise,
        MarkRecoveryRequired, Raise, frontier, requests, durable, ParentType, LeaseOK
  <1>16. ASSUME CommitUnknown PROVE LeaseOK'
    BY <1>16 DEF CommitUnknown, CompleteRow, MarkRecoveryRequired, Raise, frontier, channels,
        requests, durable, LeaseOK
  <1>17. ASSUME CommitAcknowledged PROVE LeaseOK'
    <2>1. /\ current.work \in Work /\ current.work \notin toCancel
          /\ pc' \notin {"receive", "commit"}
      BY <1>17 DEF CommitAcknowledged, EndCommit, LeaseOK, Envelopes, ParentType
    <2>2. /\ registered' = [registered EXCEPT ![current.work] = 0]
          /\ inFlight' = inFlight \ {current.work} /\ toCancel' = toCancel
      BY <1>17 DEF CommitAcknowledged, EndCommit
    <2> QED BY <2>1, <2>2 DEF LeaseOK, TrackingType, ParentType
  <1>18. ASSUME Quiesce PROVE LeaseOK'
    BY <1>18 DEF Quiesce, Quiescent, DrainThen, AbortPause, Regenerate, ReleaseGate, Goto,
        frontier, tracking, channels, requests, durable, LeaseOK
  <1>19. ASSUME Acknowledge PROVE LeaseOK'
    BY <1>19 DEF Acknowledge, Goto, AbortPause, Regenerate, ReleaseGate, frontier, tracking,
        channels, durable, LeaseOK
  <1>20. ASSUME CompletePause PROVE LeaseOK'
    BY <1>20 DEF CompletePause, TransitionRun, MarkPaused, tracking, channels, requests, LeaseOK
  <1>21. ASSUME PauseFails PROVE LeaseOK'
    BY <1>21 DEF PauseFails, TransitionRun, MarkRecoveryRequired, Report, tracking, channels,
        requests, LeaseOK
  <1>22. ASSUME StopAdmission PROVE LeaseOK'
    BY <1>22 DEF StopAdmission, RequestCancel, Goto, frontier, tracking, channels, requests,
        durable, LeaseOK
  <1>23. ASSUME BeginCancellation PROVE LeaseOK'
    BY <1>23 DEF BeginCancellation, TransitionRun, frontier, tracking, requests, LeaseOK
  <1>24. ASSUME CancelDrain PROVE LeaseOK'
    BY <1>24 DEF CancelDrain, DrainThen, frontier, tracking, channels, requests, durable,
        LeaseOK
  <1>25. ASSUME Synthesize PROVE LeaseOK'
    <2>1. PICK w \in toCancel :
             \/ /\ current' = Envelope(w, registered[w], "cancelled", TRUE)
                /\ lease' = [lease EXCEPT ![w] = "completing"]
                /\ toCancel' = toCancel \ {w}
             \/ toCancel' = toCancel /\ pc' = "stopped"
      BY <1>25 DEF Synthesize, Raise
    <2>2. w \in Work /\ registered[w] # 0
      BY DEF ParentType, LeaseOK
    <2>3. /\ Envelope(w, registered[w], "cancelled", TRUE) \in Envelopes
          /\ Envelope(w, registered[w], "cancelled", TRUE).work = w
      BY <2>2, SynthesizedEnvelope DEF Envelope
    <2>4. inFlight' = inFlight /\ registered' = registered /\ toCancel' \subseteq toCancel
      BY <1>25, <2>1 DEF Synthesize
    <2> QED BY <2>1, <2>2, <2>3, <2>4 DEF LeaseOK, TrackingType
  <1>26. ASSUME FinishCancellation PROVE LeaseOK'
    BY <1>26 DEF FinishCancellation, TransitionRun, Report, frontier, tracking, channels,
        requests, LeaseOK
  <1>27. ASSUME CancelArrowFails PROVE LeaseOK'
    BY <1>27 DEF CancelArrowFails, TransitionRun, Raise, frontier, tracking, channels, requests,
        LeaseOK
  <1>28. ASSUME ResumeRun PROVE LeaseOK'
    BY <1>28 DEF ResumeRun, TransitionRun, Resume, Regenerate, ReleaseGate, tracking, channels,
        LeaseOK
  <1>29. CASE CancelAbortsPause \/ ResumeFails \/ (\E k \in Workers : WorkerTake(k)) \/ (\E k
      \in Workers : WorkerFinish(k)) \/ PauseRequest \/ PauseAbort \/ CancelRequest
    BY <1>29 DEF CancelAbortsPause, AbortPause, Regenerate, ReleaseGate, ResumeFails,
        TransitionRun, WorkerTake, WorkerFinish, Envelope, PauseRequest, PauseAbort,
        CancelRequest, parent, tracking, channels, durable, frontier, requests, LeaseOK
  <1>30. CASE Tick
    BY <1>30 DEF Tick, frontier, parent, tracking, channels, requests, durable, LeaseOK
  <1> QED BY <1>1, <1>2, <1>3, <1>4, <1>5, <1>6, <1>7, <1>8, <1>9, <1>10, <1>11, <1>12, <1>13,
      <1>14, <1>15, <1>16, <1>17, <1>18, <1>19, <1>20, <1>21, <1>22, <1>23, <1>24, <1>25, <1>26,
      <1>27, <1>28, <1>29, <1>30 DEF Next, ParentStep, WorkerStep

\* Durably running work stays tracked.
LEMMA RunningTrackedStep ==
    ASSUME ParentType, TrackingType, DurableType, ParentOK, LeaseOK, RunningTracked, Next
    PROVE  RunningTracked'
  <1>1. ASSUME ReportRecovery PROVE RunningTracked'
    BY <1>1 DEF ReportRecovery, Report, frontier, tracking, channels, requests, durable,
        RunningTracked, ParentOK
  <1>2. ASSUME Plan PROVE RunningTracked'
    BY <1>2 DEF Plan, Report, frontier, tracking, channels, requests, durable, RunningTracked,
        ParentOK
  <1>3. ASSUME NEW w \in Work, AdmitOne(w) PROVE RunningTracked'
    BY <1>3 DEF AdmitOne, MayAdmit, Ready, Claimable, ClaimRow, RegisterAdmission, Assignment,
        requests, RunningTracked, ParentOK
  <1>4. ASSUME NEW w \in Work, AdmitFails(w) PROVE RunningTracked'
    BY <1>4 DEF AdmitFails, MayAdmit, Ready, ClaimRow, Claimable, Raise, frontier, channels,
        requests, durable, RunningTracked, ParentOK
  <1>5. ASSUME AdmissionDone PROVE RunningTracked'
    BY <1>5 DEF AdmissionDone, MayAdmit, Ready, Goto, DrainThen, Report, frontier, tracking,
        channels, requests, durable, RunningTracked, ParentOK
  <1>6. ASSUME RejectResult PROVE RunningTracked'
    BY <1>6 DEF RejectResult, RetainLease, MayRedispatch, CountRedispatch, Assignment,
        EndCommit, Raise, MarkRecoveryOrRaise, MarkRecoveryRequired, frontier, requests,
        durable, RunningTracked, ParentOK
  <1>7. ASSUME StaleResult PROVE RunningTracked'
    BY <1>7 DEF StaleResult, MarkRecoveryOrRaise, MarkRecoveryRequired, EndCommit, Raise,
        frontier, tracking, channels, requests, durable, RunningTracked, ParentOK
  <1>8. ASSUME CommitRolledBack PROVE RunningTracked'
    BY <1>8 DEF CommitRolledBack, RetainLease, EndCommit, MarkRecoveryOrRaise,
        MarkRecoveryRequired, Raise, frontier, requests, durable, RunningTracked, ParentOK
  <1>9. ASSUME CommitUnknown PROVE RunningTracked'
    BY <1>9 DEF CommitUnknown, CompleteRow, MarkRecoveryRequired, Raise, frontier, channels,
        requests, durable, RunningTracked, ParentOK
  <1>10. ASSUME CommitAcknowledged PROVE RunningTracked'
    <2>1. current.work \in Work /\ current.outcome # "running"
      BY <1>10 DEF CommitAcknowledged, LeaseOK, Envelopes, Outcomes
    <2>2. /\ inFlight' = inFlight \ {current.work} /\ status' = status
          /\ workState' = [workState EXCEPT ![current.work] = current.outcome]
      BY <1>10 DEF CommitAcknowledged, CompleteRow, EndCommit
    <2> QED BY <2>1, <2>2 DEF RunningTracked, DurableType
  <1>11. ASSUME CompletePause PROVE RunningTracked'
    BY <1>11 DEF CompletePause, TransitionRun, MarkPaused, tracking, channels, requests,
        RunningTracked, ParentOK
  <1>12. ASSUME PauseFails PROVE RunningTracked'
    BY <1>12 DEF PauseFails, TransitionRun, MarkRecoveryRequired, Report, tracking, channels,
        requests, RunningTracked, ParentOK
  <1>13. ASSUME Synthesize PROVE RunningTracked'
    BY <1>13 DEF Synthesize, Envelope, Raise, frontier, channels, requests, durable,
        RunningTracked, ParentOK
  <1>14. ASSUME FinishCancellation PROVE RunningTracked'
    BY <1>14 DEF FinishCancellation, TransitionRun, Report, frontier, tracking, channels,
        requests, RunningTracked, ParentOK
  <1>15. ASSUME CancelArrowFails PROVE RunningTracked'
    BY <1>15 DEF CancelArrowFails, TransitionRun, Raise, frontier, tracking, channels, requests,
        RunningTracked, ParentOK
  <1>16. ASSUME ResumeRun PROVE RunningTracked'
    BY <1>16 DEF ResumeRun, TransitionRun, Resume, Regenerate, ReleaseGate, tracking, channels,
        RunningTracked, ParentOK
  <1>17. CASE Top \/ InstallPause \/ StillQuiescing \/ ReleaseRetries \/ DrainEmpty \/ DrainOne
      \/ Receive
    BY <1>17 DEF Top, Goto, DrainThen, InstallPause, RequestPause, Regenerate, StillQuiescing,
        ReleaseRetries, RetryEligible, DrainEmpty, DrainOne, Receive, MarkResultReceived,
        frontier, tracking, channels, requests, durable, RunningTracked, ParentOK
  <1>18. CASE Quiesce \/ Acknowledge \/ CancelAbortsPause \/ StopAdmission \/ BeginCancellation
      \/ CancelDrain \/ ResumeFails
    BY <1>18 DEF Quiesce, Quiescent, DrainThen, AbortPause, Regenerate, ReleaseGate, Goto,
        Acknowledge, CancelAbortsPause, StopAdmission, RequestCancel, BeginCancellation,
        TransitionRun, CancelDrain, ResumeFails, frontier, tracking, channels, requests,
        durable, parent, RunningTracked, ParentOK
  <1>19. CASE (\E k \in Workers : WorkerTake(k)) \/ (\E k \in Workers : WorkerFinish(k)) \/
      PauseRequest \/ PauseAbort \/ CancelRequest \/ Tick
    BY <1>19 DEF WorkerTake, WorkerFinish, Envelope, PauseRequest, PauseAbort, CancelRequest,
        Tick, frontier, parent, tracking, requests, durable, channels, RunningTracked, ParentOK
  <1> QED BY <1>1, <1>2, <1>3, <1>4, <1>5, <1>6, <1>7, <1>8, <1>9, <1>10, <1>11, <1>12, <1>13,
      <1>14, <1>15, <1>16, <1>17, <1>18, <1>19 DEF Next, ParentStep, WorkerStep

\* The pause gate is held exactly around a pause.
LEMMA GateStep ==
    ASSUME FieldsOK, ParentType, TrackingType, ParentOK, PauseGateNotLeaked, Next
    PROVE  PauseGateNotLeaked'
  <1>1. ASSUME ReportRecovery PROVE PauseGateNotLeaked'
    BY <1>1 DEF ReportRecovery, Report, frontier, tracking, channels, requests, durable,
        PauseGateNotLeaked, ParentOK, IsShutDown
  <1>2. ASSUME InstallPause PROVE PauseGateNotLeaked'
    BY <1>2 DEF InstallPause, RequestPause, Regenerate, Goto, tracking, channels, requests,
        durable, PauseGateNotLeaked, ParentOK, IsShutDown
  <1>3. ASSUME Plan PROVE PauseGateNotLeaked'
    BY <1>3 DEF Plan, Report, frontier, tracking, channels, requests, durable,
        PauseGateNotLeaked, ParentOK, IsShutDown
  <1>4. ASSUME NEW w \in Work, AdmitFails(w) PROVE PauseGateNotLeaked'
    BY <1>4 DEF AdmitFails, MayAdmit, Ready, ClaimRow, Claimable, Raise, frontier, channels,
        requests, durable, PauseGateNotLeaked, ParentOK, IsShutDown
  <1>5. ASSUME AdmissionDone PROVE PauseGateNotLeaked'
    BY <1>5 DEF AdmissionDone, MayAdmit, Ready, Goto, DrainThen, Report, frontier, tracking,
        channels, requests, durable, PauseGateNotLeaked, ParentOK, IsShutDown
  <1>6. ASSUME RejectResult PROVE PauseGateNotLeaked'
    BY <1>6 DEF RejectResult, RetainLease, MayRedispatch, CountRedispatch, Assignment,
        EndCommit, Raise, MarkRecoveryOrRaise, MarkRecoveryRequired, frontier, requests,
        durable, PauseGateNotLeaked, ParentOK, IsShutDown
  <1>7. ASSUME StaleResult PROVE PauseGateNotLeaked'
    BY <1>7 DEF StaleResult, MarkRecoveryOrRaise, MarkRecoveryRequired, EndCommit, Raise,
        frontier, tracking, channels, requests, durable, PauseGateNotLeaked, ParentOK,
        IsShutDown
  <1>8. ASSUME CommitRolledBack PROVE PauseGateNotLeaked'
    BY <1>8 DEF CommitRolledBack, RetainLease, EndCommit, MarkRecoveryOrRaise,
        MarkRecoveryRequired, Raise, frontier, requests, durable, PauseGateNotLeaked, ParentOK,
        IsShutDown
  <1>9. ASSUME CommitUnknown PROVE PauseGateNotLeaked'
    BY <1>9 DEF CommitUnknown, CompleteRow, MarkRecoveryRequired, Raise, frontier, channels,
        requests, durable, PauseGateNotLeaked, ParentOK, IsShutDown
  <1>10. ASSUME CommitAcknowledged PROVE PauseGateNotLeaked'
    BY <1>10 DEF CommitAcknowledged, CompleteRow, ScheduleRetry, CommitResult, ReleasePermits,
        EndCommit, channels, requests, PauseGateNotLeaked, ParentOK, IsShutDown
  <1>11. ASSUME Quiesce PROVE PauseGateNotLeaked'
    BY <1>11 DEF Quiesce, Quiescent, DrainThen, AbortPause, Regenerate, ReleaseGate, Goto,
        frontier, tracking, channels, requests, durable, PauseGateNotLeaked, ParentOK,
        IsShutDown
  <1>12. ASSUME Acknowledge PROVE PauseGateNotLeaked'
    BY <1>12 DEF Acknowledge, Goto, AbortPause, Regenerate, ReleaseGate, frontier, tracking,
        channels, durable, PauseGateNotLeaked, ParentOK, IsShutDown
  <1>13. ASSUME CompletePause PROVE PauseGateNotLeaked'
    BY <1>13 DEF CompletePause, TransitionRun, MarkPaused, tracking, channels, requests,
        PauseGateNotLeaked, ParentOK, IsShutDown
  <1>14. ASSUME PauseFails PROVE PauseGateNotLeaked'
    BY <1>14 DEF PauseFails, TransitionRun, MarkRecoveryRequired, Report, tracking, channels,
        requests, PauseGateNotLeaked, ParentOK, IsShutDown
  <1>15. ASSUME CancelAbortsPause PROVE PauseGateNotLeaked'
    BY <1>15 DEF CancelAbortsPause, AbortPause, Regenerate, ReleaseGate, parent, tracking,
        channels, durable, PauseGateNotLeaked, ParentOK, IsShutDown
  <1>16. ASSUME StopAdmission PROVE PauseGateNotLeaked'
    BY <1>16 DEF StopAdmission, RequestCancel, Goto, frontier, tracking, channels, requests,
        durable, PauseGateNotLeaked, ParentOK, IsShutDown
  <1>17. ASSUME Synthesize PROVE PauseGateNotLeaked'
    BY <1>17 DEF Synthesize, Envelope, Raise, frontier, channels, requests, durable,
        PauseGateNotLeaked, ParentOK, IsShutDown
  <1>18. ASSUME FinishCancellation PROVE PauseGateNotLeaked'
    BY <1>18 DEF FinishCancellation, TransitionRun, Report, frontier, tracking, channels,
        requests, PauseGateNotLeaked, ParentOK, IsShutDown
  <1>19. ASSUME CancelArrowFails PROVE PauseGateNotLeaked'
    BY <1>19 DEF CancelArrowFails, TransitionRun, Raise, frontier, tracking, channels, requests,
        PauseGateNotLeaked, ParentOK, IsShutDown
  <1>20. ASSUME ResumeRun PROVE PauseGateNotLeaked'
    BY <1>20 DEF ResumeRun, TransitionRun, Resume, Regenerate, ReleaseGate, tracking, channels,
        PauseGateNotLeaked, ParentOK, IsShutDown
  <1>21. ASSUME NEW w \in Work, AdmitOne(w) PROVE PauseGateNotLeaked'
    BY <1>21 DEF AdmitOne, RegisterAdmission, ClaimRow, requests, PauseGateNotLeaked, ParentOK,
        IsShutDown
  <1>22. CASE Top \/ StillQuiescing \/ ReleaseRetries
    BY <1>22 DEF Top, Goto, DrainThen, StillQuiescing, ReleaseRetries, RetryEligible, frontier,
        tracking, channels, requests, durable, PauseGateNotLeaked, ParentOK, IsShutDown
  <1>23. CASE DrainEmpty \/ DrainOne \/ Receive
    BY <1>23 DEF DrainEmpty, Goto, DrainOne, Receive, MarkResultReceived, frontier, tracking,
        channels, requests, durable, PauseGateNotLeaked, ParentOK, IsShutDown
  <1>24. CASE BeginCancellation \/ CancelDrain \/ ResumeFails
    BY <1>24 DEF BeginCancellation, TransitionRun, CancelDrain, DrainThen, ResumeFails,
        frontier, tracking, requests, channels, durable, parent, PauseGateNotLeaked, ParentOK,
        IsShutDown
  <1>25. CASE (\E k \in Workers : WorkerTake(k)) \/ (\E k \in Workers : WorkerFinish(k)) \/
      PauseRequest
    BY <1>25 DEF WorkerTake, WorkerFinish, Envelope, PauseRequest, frontier, parent, tracking,
        requests, durable, channels, PauseGateNotLeaked, ParentOK, IsShutDown
  <1>26. CASE PauseAbort \/ CancelRequest \/ Tick
    BY <1>26 DEF PauseAbort, CancelRequest, Tick, frontier, parent, tracking, channels, durable,
        requests, PauseGateNotLeaked, ParentOK, IsShutDown
  <1> QED BY <1>1, <1>2, <1>3, <1>4, <1>5, <1>6, <1>7, <1>8, <1>9, <1>10, <1>11, <1>12, <1>13,
      <1>14, <1>15, <1>16, <1>17, <1>18, <1>19, <1>20, <1>21, <1>22, <1>23, <1>24, <1>25, <1>26
      DEF Next, ParentStep, WorkerStep

------------------------------------------------------------------------------
(* Versions, the store and capacity.                                       *)

\* Row versions and retry envelopes stay within the attempts granted.
LEMMA VersionOKStep ==
    ASSUME ParentType, ChannelType, DurableType, ParentOK, LeaseOK, VersionOK, Next
    PROVE  VersionOK'
  <1>1. ASSUME Top PROVE VersionOK'
    BY <1>1 DEF Top, Goto, DrainThen, frontier, tracking, channels, requests, durable, VersionOK
  <1>2. ASSUME ReportRecovery PROVE VersionOK'
    BY <1>2 DEF ReportRecovery, Report, frontier, tracking, channels, requests, durable,
        VersionOK
  <1>3. ASSUME InstallPause PROVE VersionOK'
    BY <1>3 DEF InstallPause, RequestPause, Regenerate, Goto, tracking, channels, requests,
        durable, VersionOK
  <1>4. ASSUME StillQuiescing PROVE VersionOK'
    BY <1>4 DEF StillQuiescing, Goto, frontier, tracking, channels, requests, durable, VersionOK
  <1>5. ASSUME ReleaseRetries PROVE VersionOK'
    BY <1>5 DEF ReleaseRetries, RetryEligible, Goto, frontier, tracking, channels, requests,
        durable, VersionOK
  <1>6. ASSUME Plan PROVE VersionOK'
    BY <1>6 DEF Plan, Report, frontier, tracking, channels, requests, durable, VersionOK
  <1>7. ASSUME NEW w \in Work, AdmitOne(w) PROVE VersionOK'
    <2>1. rowVersion'[w] <= 2 * MaxAttempts /\ workState'[w] = "running"
      BY <1>7, ClaimVersion DEF AdmitOne, ClaimRow, DurableType
    <2>2. \A v \in Work : v # w => rowVersion'[v] = rowVersion[v] /\ workState'[v] = workState[v]
      BY <1>7 DEF AdmitOne, ClaimRow, DurableType
    <2>3. UNCHANGED <<pc, resultQ, current>>
      BY <1>7 DEF AdmitOne
    <2> QED BY <2>1, <2>2, <2>3 DEF VersionOK
  <1>8. ASSUME NEW w \in Work, AdmitFails(w) PROVE VersionOK'
    <2>1. CASE Claimable(w) /\ ClaimRow(w)
      <3>1. rowVersion'[w] <= 2 * MaxAttempts /\ workState'[w] = "running"
        BY <2>1, ClaimVersion DEF ClaimRow, DurableType
      <3>2. \A v \in Work : v # w => rowVersion'[v] = rowVersion[v] /\ workState'[v] = workState[v]
        BY <2>1 DEF ClaimRow, DurableType
      <3>3. pc' = "stopped" /\ resultQ' = resultQ
        BY <1>8 DEF AdmitFails, Raise, channels
      <3> QED BY <3>1, <3>2, <3>3 DEF VersionOK
    <2>2. CASE UNCHANGED durable
      BY <1>8, <2>2 DEF AdmitFails, Raise, channels, durable, VersionOK
    <2> QED BY <1>8, <2>1, <2>2 DEF AdmitFails
  <1>9. ASSUME AdmissionDone PROVE VersionOK'
    BY <1>9 DEF AdmissionDone, MayAdmit, Ready, Goto, DrainThen, Report, frontier, tracking,
        channels, requests, durable, VersionOK
  <1>10. ASSUME DrainEmpty PROVE VersionOK'
    BY <1>10 DEF DrainEmpty, Goto, frontier, tracking, channels, requests, durable, ParentType,
        VersionOK
  <1>11. ASSUME DrainOne PROVE VersionOK'
    <2>1. /\ Head(resultQ) = resultQ[1] /\ 1 \in DOMAIN resultQ
          /\ \A i \in DOMAIN Tail(resultQ) : i + 1 \in DOMAIN resultQ /\ Tail(resultQ)[i] = resultQ[i + 1]
      BY <1>11, ReceiveFromChannel DEF DrainOne, ChannelType
    <2> QED BY <1>11, <2>1 DEF DrainOne, durable, VersionOK
  <1>12. ASSUME Receive PROVE VersionOK'
    BY <1>12 DEF Receive, MarkResultReceived, Goto, frontier, tracking, channels, requests,
        durable, VersionOK
  <1>13. ASSUME RejectResult PROVE VersionOK'
    BY <1>13 DEF RejectResult, RetainLease, MayRedispatch, CountRedispatch, Assignment,
        EndCommit, Raise, MarkRecoveryOrRaise, MarkRecoveryRequired, frontier, requests,
        durable, ParentType, VersionOK
  <1>14. ASSUME StaleResult PROVE VersionOK'
    BY <1>14 DEF StaleResult, MarkRecoveryOrRaise, MarkRecoveryRequired, EndCommit, Raise,
        frontier, tracking, channels, requests, durable, ParentType, VersionOK
  <1>15. ASSUME CommitRolledBack PROVE VersionOK'
    <2>1. /\ resultQ \in Seq(Envelopes) /\ current \in Envelopes
          /\ current.outcome = "retry_wait" => current.fence + 2 <= 2 * MaxAttempts
      BY <1>15 DEF CommitRolledBack, LeaseOK, ChannelType, VersionOK
    <2>2. resultQ' = resultQ \/ resultQ' = Append(resultQ, current)
      BY <1>15 DEF CommitRolledBack
    <2>3. \A i \in DOMAIN resultQ' :
             resultQ'[i].outcome = "retry_wait" => resultQ'[i].fence + 2 <= 2 * MaxAttempts
      BY <2>1, <2>2 DEF VersionOK
    <2>4. pc' \notin {"receive", "commit"}
      BY <1>15 DEF CommitRolledBack, MarkRecoveryOrRaise, EndCommit, Raise, ParentType
    <2> QED BY <1>15, <2>3, <2>4 DEF CommitRolledBack, durable, VersionOK
  <1>16. ASSUME CommitUnknown PROVE VersionOK'
    <2>1. pc' = "stopped" /\ resultQ' = resultQ
      BY <1>16 DEF CommitUnknown, Raise, channels
    <2>2. CASE CompleteRow(current)
      <3>1. current \in Envelopes /\ current.work \in Work /\ current.outcome # "running"
        BY <1>16 DEF CommitUnknown, LeaseOK, Envelopes, Outcomes
      <3>2. /\ current.outcome = "retry_wait" => rowVersion'[current.work] < 2 * MaxAttempts
            /\ current.outcome # "pending"
        BY <1>16, <2>2, <3>1, CompleteVersion DEF CommitUnknown, VersionOK, Envelopes, Outcomes
      <3>3. /\ workState'[current.work] = current.outcome
            /\ \A v \in Work : v # current.work =>
                  rowVersion'[v] = rowVersion[v] /\ workState'[v] = workState[v]
        BY <2>2, <3>1 DEF CompleteRow, DurableType
      <3> QED BY <2>1, <3>1, <3>2, <3>3 DEF VersionOK
    <2>3. CASE UNCHANGED durable
      BY <2>1, <2>3 DEF durable, VersionOK
    <2> QED BY <1>16, <2>2, <2>3 DEF CommitUnknown
  <1>17. ASSUME CommitAcknowledged PROVE VersionOK'
    <2>1. pc' \notin {"receive", "commit"} /\ resultQ' = resultQ /\ CompleteRow(current)
      BY <1>17 DEF CommitAcknowledged, EndCommit, channels, ParentType
    <2>2. current \in Envelopes /\ current.work \in Work /\ current.outcome \notin {"running", "pending"}
      BY <1>17 DEF CommitAcknowledged, LeaseOK, Envelopes, Outcomes
    <2>3. current.outcome = "retry_wait" => rowVersion'[current.work] < 2 * MaxAttempts
      BY <1>17, <2>1, <2>2, CompleteVersion DEF CommitAcknowledged, VersionOK
    <2>4. /\ workState'[current.work] = current.outcome
          /\ \A v \in Work : v # current.work =>
                rowVersion'[v] = rowVersion[v] /\ workState'[v] = workState[v]
      BY <2>1, <2>2 DEF CompleteRow, DurableType
    <2> QED BY <2>1, <2>2, <2>3, <2>4 DEF VersionOK
  <1>18. ASSUME Quiesce PROVE VersionOK'
    BY <1>18 DEF Quiesce, Quiescent, DrainThen, AbortPause, Regenerate, ReleaseGate, Goto,
        frontier, tracking, channels, requests, durable, VersionOK
  <1>19. ASSUME Acknowledge PROVE VersionOK'
    BY <1>19 DEF Acknowledge, Goto, AbortPause, Regenerate, ReleaseGate, frontier, tracking,
        channels, durable, VersionOK
  <1>20. ASSUME CompletePause PROVE VersionOK'
    BY <1>20 DEF CompletePause, TransitionRun, MarkPaused, tracking, channels, requests,
        VersionOK
  <1>21. ASSUME PauseFails PROVE VersionOK'
    BY <1>21 DEF PauseFails, TransitionRun, MarkRecoveryRequired, Report, tracking, channels,
        requests, VersionOK
  <1>22. ASSUME StopAdmission PROVE VersionOK'
    BY <1>22 DEF StopAdmission, RequestCancel, Goto, frontier, tracking, channels, requests,
        durable, VersionOK
  <1>23. ASSUME BeginCancellation PROVE VersionOK'
    BY <1>23 DEF BeginCancellation, TransitionRun, frontier, tracking, requests, VersionOK
  <1>24. ASSUME CancelDrain PROVE VersionOK'
    BY <1>24 DEF CancelDrain, DrainThen, frontier, tracking, channels, requests, durable,
        VersionOK
  <1>25. ASSUME Synthesize PROVE VersionOK'
    <2>1. pc' \in {"receive", "commit"} => current'.outcome = "cancelled"
      BY <1>25 DEF Synthesize, Envelope, Raise
    <2> QED BY <1>25, <2>1 DEF Synthesize, channels, durable, VersionOK
  <1>26. ASSUME FinishCancellation PROVE VersionOK'
    BY <1>26 DEF FinishCancellation, TransitionRun, Report, frontier, tracking, channels,
        requests, VersionOK
  <1>27. ASSUME CancelArrowFails PROVE VersionOK'
    BY <1>27 DEF CancelArrowFails, TransitionRun, Raise, frontier, tracking, channels, requests,
        VersionOK
  <1>28. ASSUME ResumeRun PROVE VersionOK'
    BY <1>28 DEF ResumeRun, TransitionRun, Resume, Regenerate, ReleaseGate, tracking, channels,
        VersionOK
  <1>29. ASSUME NEW k \in Workers, WorkerFinish(k) PROVE VersionOK'
    <2>1. PICK o \in Outcomes, v \in BOOLEAN :
             /\ resultQ' = Append(resultQ, Envelope(worker[k].work, worker[k].fence, o, v))
             /\ o = "retry_wait" => worker[k].fence + 2 <= 2 * MaxAttempts
      BY <1>29 DEF WorkerFinish
    <2> DEFINE e == Envelope(worker[k].work, worker[k].fence, o, v)
    <2>2. e.outcome = "retry_wait" => e.fence + 2 <= 2 * MaxAttempts
      BY <2>1 DEF Envelope
    <2> HIDE DEF e
    <2>3. \A i \in DOMAIN resultQ' :
             resultQ'[i].outcome = "retry_wait" => resultQ'[i].fence + 2 <= 2 * MaxAttempts
      BY <2>1, <2>2 DEF ChannelType, VersionOK, e
    <2> QED BY <1>29, <2>3 DEF WorkerFinish, parent, durable, VersionOK
  <1>30. CASE CancelAbortsPause \/ ResumeFails \/ (\E k \in Workers : WorkerTake(k)) \/
      PauseRequest
    BY <1>30 DEF CancelAbortsPause, AbortPause, Regenerate, ReleaseGate, ResumeFails,
        TransitionRun, WorkerTake, PauseRequest, parent, tracking, channels, durable, frontier,
        requests, VersionOK
  <1>31. CASE PauseAbort \/ CancelRequest \/ Tick
    BY <1>31 DEF PauseAbort, CancelRequest, Tick, frontier, parent, tracking, channels, durable,
        requests, VersionOK
  <1> QED BY <1>1, <1>2, <1>3, <1>4, <1>5, <1>6, <1>7, <1>8, <1>9, <1>10, <1>11, <1>12, <1>13,
      <1>14, <1>15, <1>16, <1>17, <1>18, <1>19, <1>20, <1>21, <1>22, <1>23, <1>24, <1>25, <1>26,
      <1>27, <1>28, <1>29, <1>30, <1>31 DEF Next, ParentStep, WorkerStep

\* A step that only moves leases, none of them out of "unknown", keeps the
\* frontier behind the store.
LEMMA LeasesMove ==
    ASSUME FrontierFollowsStore, UNCHANGED <<state, fence, ambiguous, workState, rowVersion>>,
           \A w \in Work : lease[w] = "unknown" => lease'[w] = "unknown"
    PROVE  FrontierFollowsStore'
  BY DEF FrontierFollowsStore

\* A commit changes the committed item and releases blocked work; nothing else.
LEMMA CommitEffect ==
    ASSUME FieldsOK, NEW w \in Work, NEW outcome \in Outcomes,
           \/ outcome # "retry_wait" /\ CommitResult(w, outcome)
           \/ outcome = "retry_wait" /\ \E at \in Instants : ScheduleRetry(w, at)
    PROVE  /\ state[w] \in InFlightStates /\ state'[w] = outcome
           /\ \A v \in Work : v # w =>
                 /\ fence'[v] = fence[v]
                 /\ state'[v] = state[v] \/ (state[v] = "blocked" /\ state'[v] = "ready")
  <1>0. /\ state \in [Work -> WorkStates] /\ fence \in [Work -> 0..MaxFence] /\ NodeOf[w] \in Nodes
    BY PlanAssumption DEF FieldsOK, WorkFieldsOK
  <1>1. CASE outcome # "retry_wait" /\ CommitResult(w, outcome)
    <2> DEFINE st1 == [state EXCEPT ![w] = outcome]
    <2>1. st1 \in [Work -> WorkStates]
      BY <1>0 DEF Outcomes
    <2>2. state' = ReleaseSuccessors(st1, NodeOf[w]) /\ fence' = [fence EXCEPT ![w] = 0]
          /\ state[w] \in InFlightStates
      BY <1>1 DEF CommitResult
    <2>3. \A v \in Work : st1[v] = IF v = w THEN outcome ELSE state[v]
      BY <1>0
    <2> HIDE DEF st1
    <2>4. \A v \in Work : state'[v] # st1[v] => st1[v] = "blocked" /\ state'[v] = "ready"
      BY <1>0, <2>1, <2>2, ReleaseType
    <2>5. outcome # "blocked"
      BY DEF Outcomes
    <2> QED BY <1>0, <2>2, <2>3, <2>4, <2>5
  <1>2. CASE outcome = "retry_wait" /\ \E at \in Instants : ScheduleRetry(w, at)
    BY <1>0, <1>2 DEF ScheduleRetry
  <1> QED BY <1>1, <1>2

\* What the engine's acknowledged commit does to the frontier.
LEMMA AcknowledgedEffect ==
    ASSUME FieldsOK, RequestType, LeaseOK, CommitAcknowledged
    PROVE  /\ current.work \in Work /\ current.outcome \in Outcomes
           /\ state[current.work] \in InFlightStates
           /\ state'[current.work] = current.outcome
           /\ \A v \in Work : v # current.work =>
                 /\ fence'[v] = fence[v]
                 /\ state'[v] = state[v] \/ (state[v] = "blocked" /\ state'[v] = "ready")
  <1>1. current.work \in Work /\ current.outcome \in Outcomes
    BY DEF CommitAcknowledged, LeaseOK, Envelopes
  <1>2. now..MaxInstant \subseteq Instants
    BY Numbers DEF RequestType
  <1>3. \/ current.outcome # "retry_wait" /\ CommitResult(current.work, current.outcome)
        \/ /\ current.outcome = "retry_wait"
           /\ \E at \in Instants : ScheduleRetry(current.work, at)
    BY <1>2 DEF CommitAcknowledged
  <1> QED BY <1>1, <1>3, CommitEffect

\* Releasing due retries only makes waiting work ready.
LEMMA RetriesEffect ==
    ASSUME FieldsOK, ReleaseRetries
    PROVE  /\ fence' = fence
           /\ \A v \in Work :
                 state'[v] = state[v] \/ (state[v] = "retry_wait" /\ state'[v] = "ready")
  <1>1. \A v \in Due(now) : state[v] = "retry_wait"
    BY DEF FieldsOK, WorkFieldsOK, Due
  <1> QED BY <1>1 DEF ReleaseRetries, RetryEligible, frontier, FieldsOK, WorkFieldsOK

\* The frontier keeps following the durable rows.
LEMMA StoreStep ==
    ASSUME FieldsOK, TrackingType, ChannelType, RequestType, DurableType, LeaseOK, FrontierFollowsStore, Next
    PROVE  FrontierFollowsStore'
  <1>1. ASSUME ReleaseRetries PROVE FrontierFollowsStore'
    <2>1. UNCHANGED <<ambiguous, workState, rowVersion, lease>>
      BY <1>1 DEF ReleaseRetries, tracking, durable
    <2> QED BY <1>1, <2>1, RetriesEffect DEF FrontierFollowsStore, Outcomes
  <1>2. ASSUME NEW w \in Work, AdmitOne(w) PROVE FrontierFollowsStore'
    <2>1. /\ state' = [state EXCEPT ![w] = "admitted"]
          /\ fence' = [fence EXCEPT ![w] = rowVersion'[w]]
          /\ workState' = [workState EXCEPT ![w] = "running"]
          /\ rowVersion' = [rowVersion EXCEPT ![w] = rowVersion[w] + 1]
          /\ lease' = [lease EXCEPT ![w] = "active"] /\ ambiguous' = ambiguous
      BY <1>2 DEF AdmitOne, ClaimRow, RegisterAdmission
    <2>2. /\ state'[w] = "admitted" /\ fence'[w] = rowVersion'[w] /\ workState'[w] = "running"
          /\ \A v \in Work : v # w => /\ state'[v] = state[v] /\ fence'[v] = fence[v]
                                      /\ workState'[v] = workState[v]
                                      /\ rowVersion'[v] = rowVersion[v] /\ lease'[v] = lease[v]
      BY <2>1 DEF FieldsOK, WorkFieldsOK, DurableType, TrackingType
    <2> QED BY <2>1, <2>2 DEF FrontierFollowsStore, Outcomes
  <1>3. ASSUME NEW w \in Work, AdmitFails(w) PROVE FrontierFollowsStore'
    <2>0. state[w] = "ready" /\ UNCHANGED <<state, fence, ambiguous>>
      BY <1>3 DEF AdmitFails, Ready, frontier
    <2>1. CASE ClaimRow(w) /\ lease' = [lease EXCEPT ![w] = "unknown"]
      <3>1. /\ lease'[w] = "unknown"
            /\ \A v \in Work : v # w => /\ workState'[v] = workState[v]
                                        /\ rowVersion'[v] = rowVersion[v] /\ lease'[v] = lease[v]
        BY <2>1 DEF ClaimRow, DurableType, TrackingType
      <3> QED BY <2>0, <3>1 DEF FrontierFollowsStore, Outcomes
    <2>2. CASE UNCHANGED <<durable, lease>>
      BY <2>0, <2>2, LeasesMove DEF durable
    <2> QED BY <1>3, <2>1, <2>2 DEF AdmitFails
  <1>4. ASSUME DrainOne PROVE FrontierFollowsStore'
    <2>1. \A w \in Work : lease[w] = "unknown" => lease'[w] = "unknown"
      BY <1>4 DEF DrainOne, TrackingType
    <2> QED BY <1>4, <2>1, LeasesMove DEF DrainOne, frontier, durable
  <1>5. ASSUME Receive PROVE FrontierFollowsStore'
    <2>1. UNCHANGED <<fence, ambiguous, workState, rowVersion, lease>>
      BY <1>5 DEF Receive, MarkResultReceived, frontier, tracking, durable
    <2>2. \A v \in Work : \/ state'[v] = state[v]
                          \/ state[v] = "admitted" /\ state'[v] = "awaiting_commit"
      BY <1>5 DEF Receive, MarkResultReceived, frontier, FieldsOK, WorkFieldsOK
    <2> QED BY <2>1, <2>2 DEF FrontierFollowsStore, Outcomes
  <1>6. ASSUME RejectResult PROVE FrontierFollowsStore'
    <2>1. \A w \in Work : lease[w] = "unknown" => lease'[w] = "unknown"
      BY <1>6 DEF RejectResult, RetainLease, LeaseOK, TrackingType
    <2> QED BY <1>6, <2>1, LeasesMove DEF RejectResult, MarkRecoveryOrRaise, MarkRecoveryRequired,
        frontier, durable
  <1>7. ASSUME CommitRolledBack PROVE FrontierFollowsStore'
    <2>1. \A w \in Work : lease[w] = "unknown" => lease'[w] = "unknown"
      BY <1>7 DEF CommitRolledBack, RetainLease, LeaseOK, TrackingType
    <2> QED BY <1>7, <2>1, LeasesMove DEF CommitRolledBack, MarkRecoveryOrRaise, MarkRecoveryRequired,
        frontier, durable
  <1>8. ASSUME CommitUnknown PROVE FrontierFollowsStore'
    <2>0. /\ UNCHANGED <<state, fence, lease>> /\ current.work \in Work
          /\ ambiguous' = ambiguous \cup {current.work}
      BY <1>8 DEF CommitUnknown, MarkRecoveryRequired, frontier, LeaseOK, Envelopes
    <2>1. CASE CompleteRow(current)
      <3>1. /\ workState[current.work] = "running"
            /\ \A v \in Work : v # current.work =>
                  workState'[v] = workState[v] /\ rowVersion'[v] = rowVersion[v]
        BY <2>0, <2>1 DEF CompleteRow, DurableType
      <3>2. state[current.work] \in InFlightStates \/ lease[current.work] = "unknown"
        BY <2>0, <3>1 DEF FrontierFollowsStore, Outcomes
      <3>3. lease[current.work] # "unknown"
        BY <1>8 DEF CommitUnknown, LeaseOK
      <3> QED BY <2>0, <3>1, <3>2, <3>3 DEF FrontierFollowsStore, Outcomes
    <2>2. CASE UNCHANGED durable
      BY <2>0, <2>2 DEF FrontierFollowsStore, durable
    <2> QED BY <1>8, <2>1, <2>2 DEF CommitUnknown
  <1>9. ASSUME CommitAcknowledged PROVE FrontierFollowsStore'
    <2>1. /\ current.work \in Work /\ current.outcome \in Outcomes
          /\ state'[current.work] = current.outcome
          /\ \A v \in Work : v # current.work =>
                /\ fence'[v] = fence[v]
                /\ state'[v] = state[v] \/ (state[v] = "blocked" /\ state'[v] = "ready")
      BY <1>9, AcknowledgedEffect
    <2>2. /\ workState' = [workState EXCEPT ![current.work] = current.outcome]
          /\ rowVersion' = [rowVersion EXCEPT ![current.work] = rowVersion[current.work] + 1]
          /\ lease' = [lease EXCEPT ![current.work] = "absent"]
          /\ ambiguous' = ambiguous
      BY <1>9 DEF CommitAcknowledged, CompleteRow
    <2>3. /\ workState'[current.work] = current.outcome
          /\ \A v \in Work : v # current.work => /\ workState'[v] = workState[v]
                                                 /\ rowVersion'[v] = rowVersion[v]
                                                 /\ lease'[v] = lease[v]
      BY <2>1, <2>2 DEF DurableType, TrackingType
    <2> QED BY <2>1, <2>2, <2>3 DEF FrontierFollowsStore, Outcomes
  <1>10. ASSUME Synthesize PROVE FrontierFollowsStore'
    <2>1. \A w \in Work : lease[w] = "unknown" => lease'[w] = "unknown"
      BY <1>10 DEF Synthesize, TrackingType
    <2> QED BY <1>10, <2>1, LeasesMove DEF Synthesize, frontier, durable
  <1>11. CASE Top \/ ReportRecovery \/ InstallPause \/ StillQuiescing
    BY <1>11 DEF Top, Goto, DrainThen, ReportRecovery, Report, InstallPause, RequestPause,
        Regenerate, StillQuiescing, frontier, tracking, channels, requests, durable,
        FrontierFollowsStore
  <1>12. CASE Plan \/ AdmissionDone \/ DrainEmpty \/ StaleResult
    BY <1>12 DEF Plan, Report, AdmissionDone, MayAdmit, Ready, Goto, DrainThen, DrainEmpty,
        StaleResult, MarkRecoveryOrRaise, MarkRecoveryRequired, EndCommit, Raise, frontier,
        tracking, channels, requests, durable, FrontierFollowsStore
  <1>13. CASE Quiesce \/ Acknowledge \/ CompletePause \/ PauseFails
    BY <1>13 DEF Quiesce, Quiescent, DrainThen, AbortPause, Regenerate, ReleaseGate, Goto,
        Acknowledge, CompletePause, TransitionRun, MarkPaused, PauseFails, MarkRecoveryRequired,
        Report, frontier, tracking, channels, requests, durable, FrontierFollowsStore
  <1>14. CASE CancelAbortsPause \/ StopAdmission \/ BeginCancellation \/ CancelDrain
    BY <1>14 DEF CancelAbortsPause, AbortPause, Regenerate, ReleaseGate, StopAdmission,
        RequestCancel, Goto, BeginCancellation, TransitionRun, CancelDrain, DrainThen, parent,
        tracking, channels, durable, frontier, requests, FrontierFollowsStore
  <1>15. CASE FinishCancellation \/ CancelArrowFails \/ ResumeRun \/ ResumeFails
    BY <1>15 DEF FinishCancellation, TransitionRun, Report, CancelArrowFails, Raise, ResumeRun,
        Resume, Regenerate, ReleaseGate, ResumeFails, frontier, tracking, channels, requests,
        parent, FrontierFollowsStore
  <1>16. CASE (\E k \in Workers : WorkerTake(k)) \/ (\E k \in Workers : WorkerFinish(k)) \/
      PauseRequest \/ PauseAbort
    BY <1>16 DEF WorkerTake, WorkerFinish, Envelope, PauseRequest, PauseAbort, frontier, parent,
        tracking, requests, durable, channels, FrontierFollowsStore
  <1>17. CASE CancelRequest \/ Tick
    BY <1>17 DEF CancelRequest, Tick, frontier, parent, tracking, channels, durable, requests,
        FrontierFollowsStore
  <1> QED BY <1>1, <1>2, <1>3, <1>4, <1>5, <1>6, <1>7, <1>8, <1>9, <1>10, <1>11, <1>12, <1>13,
      <1>14, <1>15, <1>16, <1>17 DEF Next, ParentStep, WorkerStep

\* Exactly the in-flight work keeps holding permits, within capacity.
LEMMA CapacityStep ==
    ASSUME FieldsOK, TrackingType, RequestType, LeaseOK, CapacityHeldUntilAcknowledged, Next
    PROVE  CapacityHeldUntilAcknowledged'
  <1>1. ASSUME ReleaseRetries PROVE CapacityHeldUntilAcknowledged'
    <2>1. permits' = permits
      BY <1>1 DEF ReleaseRetries, tracking
    <2> QED BY <1>1, <2>1, RetriesEffect DEF CapacityHeldUntilAcknowledged
  <1>2. ASSUME NEW w \in Work, AdmitOne(w) PROVE CapacityHeldUntilAcknowledged'
    <2>1. /\ state[w] = "ready" /\ state' = [state EXCEPT ![w] = "admitted"]
          /\ permits' = permits \cup {w} /\ Cardinality(permits) < Permits
      BY <1>2 DEF AdmitOne, MayAdmit, RegisterAdmission
    <2>2. \A v \in Work : v \in permits' <=> state'[v] \in InFlightStates
      BY <2>1 DEF CapacityHeldUntilAcknowledged, FieldsOK, WorkFieldsOK
    <2>3. IsFiniteSet(permits) /\ w \notin permits
      BY <2>1, EngineAssumption, FS_Subset DEF CapacityHeldUntilAcknowledged, TrackingType
    <2>4. Cardinality(permits') = Cardinality(permits) + 1 /\ Cardinality(permits) \in Nat
      BY <2>1, <2>3, FS_AddElement, FS_CardinalityType
    <2> QED BY <2>1, <2>2, <2>4, Numbers DEF CapacityHeldUntilAcknowledged
  <1>3. ASSUME Receive PROVE CapacityHeldUntilAcknowledged'
    <2>1. permits' = permits
      BY <1>3 DEF Receive, tracking
    <2>2. \A v \in Work : \/ state'[v] = state[v]
                          \/ state[v] = "admitted" /\ state'[v] = "awaiting_commit"
      BY <1>3 DEF Receive, MarkResultReceived, frontier, FieldsOK, WorkFieldsOK
    <2> QED BY <2>1, <2>2 DEF CapacityHeldUntilAcknowledged
  <1>4. ASSUME CommitAcknowledged PROVE CapacityHeldUntilAcknowledged'
    <2>1. permits' = permits \ {current.work}
      BY <1>4 DEF CommitAcknowledged, ReleasePermits
    <2>2. \A v \in Work : v \in permits' <=> state'[v] \in InFlightStates
      BY <1>4, <2>1, AcknowledgedEffect DEF CapacityHeldUntilAcknowledged, Outcomes
    <2>3. IsFiniteSet(permits)
      BY EngineAssumption, FS_Subset DEF TrackingType
    <2>4. /\ Cardinality(permits) \in Nat
          /\ Cardinality(permits') \in {Cardinality(permits), Cardinality(permits) - 1}
      <3>1. Cardinality(permits) \in Nat
        BY <2>3, FS_CardinalityType
      <3>2. Cardinality(permits \ {current.work}) =
               IF current.work \in permits THEN Cardinality(permits) - 1 ELSE Cardinality(permits)
        BY <2>3, FS_RemoveElement
      <3> QED BY <2>1, <3>1, <3>2
    <2>5. Cardinality(permits) <= Permits
      BY DEF CapacityHeldUntilAcknowledged
    <2>6. Cardinality(permits') <= Permits
      BY <2>4, <2>5, Numbers
    <2> QED BY <2>2, <2>6 DEF CapacityHeldUntilAcknowledged
  <1>5. CASE Top \/ ReportRecovery \/ InstallPause \/ StillQuiescing
    BY <1>5 DEF Top, Goto, DrainThen, ReportRecovery, Report, InstallPause, RequestPause,
        Regenerate, StillQuiescing, frontier, tracking, channels, requests, durable,
        CapacityHeldUntilAcknowledged
  <1>6. CASE Plan \/ (\E w \in Work : AdmitFails(w)) \/ AdmissionDone \/ DrainEmpty
    BY <1>6 DEF Plan, Report, AdmitFails, MayAdmit, Ready, ClaimRow, Claimable, Raise,
        AdmissionDone, Goto, DrainThen, DrainEmpty, frontier, tracking, channels, requests,
        durable, CapacityHeldUntilAcknowledged
  <1>7. CASE DrainOne \/ RejectResult \/ StaleResult \/ CommitRolledBack
    BY <1>7 DEF DrainOne, RejectResult, RetainLease, MayRedispatch, CountRedispatch, Assignment,
        EndCommit, Raise, MarkRecoveryOrRaise, MarkRecoveryRequired, StaleResult,
        CommitRolledBack, frontier, requests, durable, tracking, channels,
        CapacityHeldUntilAcknowledged
  <1>8. CASE CommitUnknown \/ Quiesce \/ Acknowledge \/ CompletePause
    BY <1>8 DEF CommitUnknown, CompleteRow, MarkRecoveryRequired, Raise, Quiesce, Quiescent,
        DrainThen, AbortPause, Regenerate, ReleaseGate, Goto, Acknowledge, CompletePause,
        TransitionRun, MarkPaused, frontier, channels, requests, durable, tracking,
        CapacityHeldUntilAcknowledged
  <1>9. CASE PauseFails \/ CancelAbortsPause \/ StopAdmission \/ BeginCancellation
    BY <1>9 DEF PauseFails, TransitionRun, MarkRecoveryRequired, Report, CancelAbortsPause,
        AbortPause, Regenerate, ReleaseGate, StopAdmission, RequestCancel, Goto,
        BeginCancellation, tracking, channels, requests, parent, durable, frontier,
        CapacityHeldUntilAcknowledged
  <1>10. CASE CancelDrain \/ Synthesize \/ FinishCancellation \/ CancelArrowFails
    BY <1>10 DEF CancelDrain, DrainThen, Synthesize, Envelope, Raise, FinishCancellation,
        TransitionRun, Report, CancelArrowFails, frontier, tracking, channels, requests,
        durable, CapacityHeldUntilAcknowledged
  <1>11. CASE ResumeRun \/ ResumeFails \/ (\E k \in Workers : WorkerTake(k)) \/ (\E k \in
      Workers : WorkerFinish(k))
    BY <1>11 DEF ResumeRun, TransitionRun, Resume, Regenerate, ReleaseGate, ResumeFails,
        WorkerTake, WorkerFinish, Envelope, tracking, channels, frontier, parent, requests,
        durable, CapacityHeldUntilAcknowledged
  <1>12. CASE PauseRequest \/ PauseAbort \/ CancelRequest \/ Tick
    BY <1>12 DEF PauseRequest, PauseAbort, CancelRequest, Tick, frontier, parent, tracking,
        channels, durable, requests, CapacityHeldUntilAcknowledged
  <1> QED BY <1>1, <1>2, <1>3, <1>4, <1>5, <1>6, <1>7, <1>8, <1>9, <1>10, <1>11, <1>12 DEF Next,
      ParentStep, WorkerStep

------------------------------------------------------------------------------
(* The inductive invariant and what follows from it.                       *)

\* A new engine satisfies the invariant.
LEMMA InitIInv == Init => IInv
  <1> SUFFICES ASSUME Init PROVE IInv
    OBVIOUS
  <1>1. FieldsOK
    BY InitFields DEF Init
  <1>2. ParentType /\ RequestType
    <2>1. 0 \in 0..MaxFence /\ 0 \in Instants /\ 0 \in 0..MaxPauses
      BY Numbers
    <2> QED BY <2>1 DEF Init, ParentType, RequestType
  <1>3. TrackingType /\ DurableType
    <2>1. /\ 0 \in 0..MaxFence /\ 0 \in 0..MaxRedispatch /\ 0 \in 0..MaxWriterRetries
          /\ 1 \in Fences
      BY Numbers
    <2>2. TrackingType
      BY <2>1 DEF Init, TrackingType, LeaseStates
    <2>3. DurableType
      BY <2>1 DEF Init, DurableType, RunStates
    <2> QED BY <2>2, <2>3
  <1>4. ChannelType
    <2>1. assignQ \in Seq(Assignments) /\ Len(assignQ) = 0 /\ resultQ \in Seq(Envelopes)
          /\ Len(resultQ) = 0
      BY EmptySeq DEF Init
    <2>2. worker \in [Workers -> Assignments \cup {Idle}] /\ assignClosed \in BOOLEAN
      BY DEF Init
    <2> QED BY <2>1, <2>2, Numbers DEF ChannelType
  <1>5. ParentOK /\ RunOK /\ LeaseOK /\ RunningTracked
    BY DEF Init, FrontierInit, ParentOK, RunOK, LeaseOK, RunningTracked
  <1>6. VersionOK
    BY Numbers DEF Init, VersionOK
  <1>7. \A w \in Work : state[w] \in {"ready", "blocked"}
    BY DEF Init, FrontierInit, InitialStates
  <1>8. FrontierFollowsStore
    BY <1>7 DEF Init, FrontierFollowsStore, Outcomes
  <1>9. CapacityHeldUntilAcknowledged
    BY <1>7, FS_EmptySet, Numbers DEF Init, CapacityHeldUntilAcknowledged
  <1>10. PauseGateNotLeaked
    BY DEF Init, FrontierInit, PauseGateNotLeaked
  <1> QED BY <1>1, <1>2, <1>3, <1>4, <1>5, <1>6, <1>8, <1>9, <1>10 DEF IInv

\* Every step of the engine and its environment keeps it.
LEMMA NextIInv == IInv /\ [Next]_vars => IInv'
  <1> SUFFICES ASSUME IInv, [Next]_vars PROVE IInv'
    OBVIOUS
  <1>1. CASE Next
    <2>1. FieldsOK'
      BY <1>1, CallsAreLegal, NextFields DEF IInv
    <2>2. ParentType' /\ TrackingType' /\ ChannelType' /\ RequestType' /\ DurableType'
      BY <1>1, ParentTypeStep, TrackingTypeStep, ChannelTypeStep, RequestTypeStep,
         DurableTypeStep DEF IInv
    <2>3. ParentOK' /\ RunOK' /\ VersionOK' /\ LeaseOK' /\ RunningTracked'
      BY <1>1, ParentOKStep, RunOKStep, VersionOKStep, LeaseOKStep, RunningTrackedStep DEF IInv
    <2>4. FrontierFollowsStore' /\ CapacityHeldUntilAcknowledged' /\ PauseGateNotLeaked'
      BY <1>1, StoreStep, CapacityStep, GateStep DEF IInv
    <2> QED BY <2>1, <2>2, <2>3, <2>4 DEF IInv
  <1>2. CASE UNCHANGED vars
    <2>1. FieldsOK'
      BY <1>2, NextFields DEF vars, IInv
    <2>2. ParentType' /\ TrackingType' /\ ChannelType' /\ RequestType' /\ DurableType'
      BY <1>2 DEF vars, parent, tracking, channels, requests, durable, IInv, ParentType,
                  TrackingType, ChannelType, RequestType, DurableType
    <2>3. ParentOK' /\ RunOK' /\ VersionOK' /\ LeaseOK' /\ RunningTracked'
      BY <1>2 DEF vars, frontier, parent, tracking, channels, durable, IInv, ParentOK, RunOK,
                  VersionOK, LeaseOK, RunningTracked
    <2>4. FrontierFollowsStore' /\ CapacityHeldUntilAcknowledged' /\ PauseGateNotLeaked'
      BY <1>2 DEF vars, frontier, parent, tracking, durable, IInv, FrontierFollowsStore,
                  CapacityHeldUntilAcknowledged, PauseGateNotLeaked, IsShutDown
    <2> QED BY <2>1, <2>2, <2>3, <2>4 DEF IInv
  <1> QED BY <1>1, <1>2

\* The invariant holds throughout.
LEMMA Inductive == Spec => []IInv
  BY InitIInv, NextIInv, PTL DEF Spec

\* For every plan and pool, the engine's state keeps its types and bounds: no
\* channel overflows, no retry counter or fence leaves its range.
THEOREM TypeCorrect == Spec => []TypeOK
  <1>1. IInv => TypeOK
    BY FieldsAreSnapshot DEF IInv, TypeOK
  <1> QED BY <1>1, Inductive, PTL

\* Dependencies are released only after commit: the frontier never runs ahead of
\* the durable rows, whatever fails.
THEOREM FrontierNeverAhead == Spec => []FrontierFollowsStore
  <1>1. IInv => FrontierFollowsStore
    BY DEF IInv
  <1> QED BY <1>1, Inductive, PTL

\* Capacity is held from admission until durable acknowledgement and is neither
\* lost nor exceeded.
THEOREM CapacityConserved == Spec => []CapacityHeldUntilAcknowledged
  <1>1. IInv => CapacityHeldUntilAcknowledged
    BY DEF IInv
  <1> QED BY <1>1, Inductive, PTL

\* The lease service's pause gate is held around every pause and never leaked.
THEOREM PauseGateReleased == Spec => []PauseGateNotLeaked
  <1>1. IInv => PauseGateNotLeaked
    BY DEF IInv
  <1> QED BY <1>1, Inductive, PTL

\* Work the scheduler calls ready has durably succeeded predecessors.
LEMMA ReadyBehindSuccess ==
    ASSUME IInv, NEW w \in Work, state[w] = "ready",
           NEW v \in Work, <<NodeOf[v], NodeOf[w]>> \in Edges
    PROVE  workState[v] = "succeeded"
  <1>1. NodeOf[v] \in Predecessors(NodeOf[w])
    BY PlanAssumption DEF Predecessors
  <1>2. BarrierOpen(state, NodeOf[w])
    BY <1>1 DEF IInv, FieldsOK, WorkFieldsOK, BarriersValid
  <1>3. state[v] = "succeeded"
    BY <1>1, <1>2 DEF BarrierOpen, PermitsContinuation, WorkOf
  <1> QED BY <1>3 DEF IInv, FrontierFollowsStore, Outcomes

\* A claim by the engine is one DurableRun allows.
LEMMA ClaimAllowed ==
    ASSUME IInv, NEW w \in Work, state[w] = "ready", Claimable(w), ClaimRow(w)
    PROVE  Durable!Claim(w)
  BY ReadyBehindSuccess DEF Claimable, ClaimRow, Durable!Claim

\* So is a completion by the engine.
LEMMA CompletionAllowed ==
    ASSUME IInv, pc = "commit", CompleteRow(current)
    PROVE  \E w \in Work : Durable!Complete(w)
  <1>1. current.work \in Work /\ current.outcome \in Outcomes
    BY DEF IInv, LeaseOK, Envelopes
  <1>2. runState \in {"running", "cancelling"}
    BY DEF IInv, RunOK
  <1> QED BY <1>1, <1>2 DEF CompleteRow, Durable!Complete, Durable!FinalStates, Outcomes

\* At the acknowledged boundary no work is durably running.
LEMMA QuietAtBoundary ==
    ASSUME IInv, pc = "pause"
    PROVE  runState = "running" /\ \A w \in Work : workState[w] # "running"
  BY DEF IInv, ParentOK, RunOK, RunningTracked

\* Every step is one that DurableRun allows or leaves the rows alone.
LEMMA DurableStep ==
    ASSUME IInv, Next
    PROVE  [Durable!Next]_(Durable!rows)
  <1>1. ASSUME NEW w \in Work, AdmitOne(w) PROVE [Durable!Next]_(Durable!rows)
    BY <1>1, ClaimAllowed DEF AdmitOne, RegisterAdmission, Durable!Next
  <1>2. ASSUME NEW w \in Work, AdmitFails(w) PROVE [Durable!Next]_(Durable!rows)
    <2>1. state[w] = "ready"
      BY <1>2 DEF AdmitFails, Ready
    <2> QED BY <1>2, <2>1, ClaimAllowed DEF AdmitFails, durable, Durable!Next, Durable!rows
  <1>3. ASSUME CommitUnknown PROVE [Durable!Next]_(Durable!rows)
    BY <1>3, CompletionAllowed DEF CommitUnknown, durable, Durable!Next, Durable!rows
  <1>4. ASSUME CommitAcknowledged PROVE [Durable!Next]_(Durable!rows)
    BY <1>4, CompletionAllowed DEF CommitAcknowledged, Durable!Next
  <1>5. ASSUME CompletePause PROVE [Durable!Next]_(Durable!rows)
    BY <1>5, QuietAtBoundary DEF CompletePause, TransitionRun, Durable!Next, Durable!Pause
  <1>6. ASSUME PauseFails PROVE [Durable!Next]_(Durable!rows)
    BY <1>6, QuietAtBoundary
    DEF PauseFails, TransitionRun, Durable!Next, Durable!Pause, Durable!rows
  <1>7. ASSUME BeginCancellation PROVE [Durable!Next]_(Durable!rows)
    BY <1>7 DEF BeginCancellation, TransitionRun, Durable!Next, Durable!Cancel
  <1>8. ASSUME FinishCancellation PROVE [Durable!Next]_(Durable!rows)
    BY <1>8 DEF FinishCancellation, TransitionRun, IInv, RunOK, Durable!Next, Durable!Cancel
  <1>9. ASSUME CancelArrowFails PROVE [Durable!Next]_(Durable!rows)
    BY <1>9 DEF CancelArrowFails, TransitionRun, IInv, RunOK, Durable!Next, Durable!Cancel,
              Durable!rows
  <1>10. ASSUME ResumeRun PROVE [Durable!Next]_(Durable!rows)
    BY <1>10 DEF ResumeRun, TransitionRun, Durable!Next, Durable!Resume
  <1>11. ASSUME ResumeFails PROVE [Durable!Next]_(Durable!rows)
    BY <1>11 DEF ResumeFails, TransitionRun, Durable!Next, Durable!Resume
  <1>12. CASE Top \/ ReportRecovery \/ InstallPause \/ StillQuiescing \/ ReleaseRetries
    BY <1>12 DEF Top, Goto, DrainThen, ReportRecovery, Report, InstallPause, RequestPause,
        Regenerate, StillQuiescing, ReleaseRetries, RetryEligible, frontier, tracking, channels,
        requests, durable, Durable!rows
  <1>13. CASE Plan \/ AdmissionDone \/ DrainEmpty \/ DrainOne \/ Receive
    BY <1>13 DEF Plan, Report, AdmissionDone, MayAdmit, Ready, Goto, DrainThen, DrainEmpty,
        DrainOne, Receive, MarkResultReceived, frontier, tracking, channels, requests, durable,
        Durable!rows
  <1>14. CASE RejectResult \/ StaleResult \/ CommitRolledBack \/ Quiesce \/ Acknowledge
    BY <1>14 DEF RejectResult, RetainLease, MayRedispatch, CountRedispatch, Assignment,
        EndCommit, Raise, MarkRecoveryOrRaise, MarkRecoveryRequired, StaleResult,
        CommitRolledBack, Quiesce, Quiescent, DrainThen, AbortPause, Regenerate, ReleaseGate,
        Goto, Acknowledge, frontier, requests, durable, tracking, channels, Durable!rows
  <1>15. CASE CancelAbortsPause \/ StopAdmission \/ CancelDrain \/ Synthesize \/ (\E k \in
      Workers : WorkerTake(k))
    BY <1>15 DEF CancelAbortsPause, AbortPause, Regenerate, ReleaseGate, StopAdmission,
        RequestCancel, Goto, CancelDrain, DrainThen, Synthesize, Envelope, Raise, WorkerTake,
        parent, tracking, channels, durable, frontier, requests, Durable!rows
  <1>16. CASE (\E k \in Workers : WorkerFinish(k)) \/ PauseRequest \/ PauseAbort \/
      CancelRequest \/ Tick
    BY <1>16 DEF WorkerFinish, Envelope, PauseRequest, PauseAbort, CancelRequest, Tick,
        frontier, parent, tracking, requests, durable, channels, Durable!rows
  <1> QED BY <1>1, <1>2, <1>3, <1>4, <1>5, <1>6, <1>7, <1>8, <1>9, <1>10, <1>11, <1>12, <1>13,
      <1>14, <1>15, <1>16 DEF Next, ParentStep, WorkerStep

\* For every plan, pool and failure, the rows of the run change only as
\* DurableRun promises.
THEOREM RowsImplementDurableRun == Spec => ImplementsDurableRun
  <1>1. Init => Durable!Init
    BY DEF Init, Durable!Init
  <1>2. IInv /\ [Next]_vars => [Durable!Next]_(Durable!rows)
    BY DurableStep DEF IInv, vars, durable, Durable!rows
  <1> QED BY <1>1, <1>2, Inductive, PTL DEF Spec, Durable!Spec, ImplementsDurableRun

------------------------------------------------------------------------------
(* Where assignments and results are.                                      *)

\* The messages in a channel, and that no two of them are for the same work.
In(q) == {q[i] : i \in DOMAIN q}
Once(q) == \A i, j \in DOMAIN q : q[i].work = q[j].work => i = j

Assigned == In(assignQ)
Answered == In(resultQ)
Busy == {k \in Workers : worker[k] # Idle}
Executed == {worker[k] : k \in Busy}
Messages == Assigned \cup Executed \cup Answered
Committing(w) == pc \in {"receive", "commit"} /\ current.work = w
Apart(M, N) == \A m \in M, n \in N : m.work # n.work

\* The pass delivers results as long as it has neither ended nor begun to
\* synthesize them.
Delivering == status \in {"none", "paused"} /\ drainTo # "synthesize"

\* A message for tracked work, under its registered fence and a usable lease.
Tracked(m) == m.work \in inFlight /\ lease[m.work] = "active" /\ m.fence = registered[m.work]

\* No two messages are for the same work, all of them are for tracked work, and
\* unless the run needs recovery all tracked work has one or is being committed.
TokensOK == Delivering =>
    /\ Once(assignQ) /\ Once(resultQ)
    /\ \A k, l \in Busy : worker[k].work = worker[l].work => k = l
    /\ Apart(Assigned, Executed) /\ Apart(Assigned, Answered) /\ Apart(Executed, Answered)
    /\ \A m \in Messages : Tracked(m)
    /\ control # "recovery_required" =>
          \A w \in inFlight : (\E m \in Messages : m.work = w) \/ Committing(w)

\* The envelope being committed is for tracked work under its fence; what
\* cancellation has left to synthesize is tracked; tracked work holds permits.
CurrentOK ==
    /\ pc \in {"receive", "commit"} =>
          current.work \in inFlight /\ registered[current.work] = current.fence
    /\ toCancel \subseteq inFlight
    /\ inFlight = permits
    /\ pc = "synthesize" => drainTo = "synthesize"
    /\ drainTo = "synthesize" =>
          pc \in {"synthesize", "receive", "commit", "stopped"} /\ status # "paused"

\* An acknowledged signal stays so until the run resumes, and at a durable pause
\* nothing is tracked, queued or executed.
BoundaryOK ==
    /\ signal # "idle" => signalGen # 0
    /\ pc = "pause" \/ runState \in {"pausing", "paused"} =>
          signal = "acknowledged" /\ signalGen = pauseGen
    /\ runState \in {"pausing", "paused", "resuming"} =>
          /\ pc = "stopped" /\ status # "none"
          /\ inFlight = {} /\ Busy = {} /\ assignQ = <<>> /\ resultQ = <<>>
          /\ \A w \in Work : workState[w] # "running"

\* A node without predecessors is never blocked, and a pass that admitted nothing
\* yet has work left.
SourcesOK ==
    /\ \A w \in Work : state[w] = "blocked" => Predecessors(NodeOf[w]) # {}
    /\ pc = "admit" /\ ~admitted => ~IsFinished

\* Work that is not tracked is neither registered nor leased, the coordinator
\* registers what the scheduler admitted, under the same fence, and an unknown
\* claim or commit has ended the pass.
RetiredOK ==
    /\ registered = fence
    /\ ambiguous # {} => status = "raised"
    /\ \A w \in Work : lease[w] = "unknown" => status = "raised"
    /\ \A w \in Work \ inFlight : registered[w] = 0 /\ lease[w] \in {"absent", "unknown"}

\* What sending to a channel does to its messages.
LEMMA SendToChannel ==
    ASSUME NEW S, NEW q \in Seq(S), NEW m \in S
    PROVE  /\ In(Append(q, m)) = In(q) \cup {m}
           /\ Once(q) /\ (\A n \in In(q) : n.work # m.work) => Once(Append(q, m))
  <1>1. /\ DOMAIN Append(q, m) = 1 .. Len(q) + 1 /\ DOMAIN q = 1 .. Len(q) /\ Len(q) \in Nat
        /\ \A i \in 1 .. Len(q) : Append(q, m)[i] = q[i]
        /\ Append(q, m)[Len(q) + 1] = m
    OBVIOUS
  <1> DEFINE r == Append(q, m)
  <1>2. In(r) = In(q) \cup {m}
    <2>1. In(r) \subseteq In(q) \cup {m}
      BY <1>1 DEF In
    <2>2. \A n \in In(q) : n \in In(r)
      BY <1>1 DEF In
    <2>3. m \in In(r)
      BY <1>1 DEF In
    <2> QED BY <2>1, <2>2, <2>3
  <1>3. ASSUME Once(q), \A n \in In(q) : n.work # m.work
        PROVE  Once(r)
    <2>1. \A i \in 1 .. Len(q) : q[i].work # m.work
      BY <1>1, <1>3 DEF In
    <2> SUFFICES ASSUME NEW i \in 1 .. Len(q) + 1, NEW j \in 1 .. Len(q) + 1, r[i].work = r[j].work
                 PROVE  i = j
      BY <1>1 DEF Once
    <2> HIDE DEF r
    <2>2. CASE i \in 1 .. Len(q) /\ j \in 1 .. Len(q)
      BY <1>1, <1>3, <2>2 DEF Once, r
    <2>3. CASE i = Len(q) + 1 \/ j = Len(q) + 1
      BY <1>1, <2>1, <2>3 DEF r
    <2> QED BY <1>1, <2>2, <2>3
  <1> QED BY <1>2, <1>3

\* What receiving from a channel does to its messages.
LEMMA TakeFromChannel ==
    ASSUME NEW S, NEW q \in Seq(S), q # <<>>
    PROVE  /\ In(q) = {Head(q)} \cup In(Tail(q)) /\ Head(q) \in In(q)
           /\ Once(q) => /\ Once(Tail(q))
                         /\ \A m \in In(Tail(q)) : m.work # Head(q).work
  <1> DEFINE r == Tail(q)
  <1>1. /\ DOMAIN q = 1 .. Len(q) /\ Len(q) \in Nat \ {0} /\ Head(q) = q[1]
        /\ DOMAIN r = 1 .. Len(q) - 1
        /\ \A i \in 1 .. Len(q) - 1 : i + 1 \in 1 .. Len(q) /\ r[i] = q[i + 1]
    BY HeadTailProperties
  <1> HIDE DEF r
  <1>2. In(q) = {Head(q)} \cup In(r) /\ Head(q) \in In(q)
    <2>1. In(q) \subseteq {Head(q)} \cup In(r)
      <3> SUFFICES ASSUME NEW i \in 1 .. Len(q), i # 1 PROVE q[i] \in In(r)
        BY <1>1 DEF In
      <3>1. i - 1 \in 1 .. Len(q) - 1 /\ q[i] = r[i - 1]
        BY <1>1
      <3> QED BY <1>1, <3>1 DEF In
    <2>2. In(r) \subseteq In(q)
      BY <1>1 DEF In
    <2>3. Head(q) \in In(q)
      BY <1>1 DEF In
    <2> QED BY <2>1, <2>2, <2>3
  <1>3. ASSUME Once(q) PROVE Once(r) /\ \A m \in In(r) : m.work # Head(q).work
    <2>1. ASSUME NEW i \in 1 .. Len(q) - 1, NEW j \in 1 .. Len(q) - 1, r[i].work = r[j].work
          PROVE  i = j
      <3>1. i + 1 = j + 1
        BY <1>1, <1>3, <2>1 DEF Once
      <3> QED BY <3>1
    <2>2. ASSUME NEW i \in 1 .. Len(q) - 1 PROVE r[i].work # Head(q).work
      <3>1. i + 1 # 1
        OBVIOUS
      <3> QED BY <1>1, <1>3, <3>1 DEF Once
    <2> QED BY <1>1, <2>1, <2>2 DEF Once, In
  <1> QED BY <1>2, <1>3 DEF r

------------------------------------------------------------------------------
\* A step that moves neither messages, leases nor tracked work leaves each message
\* where it was.
LEMMA MessagesRest ==
    ASSUME TokensOK, UNCHANGED <<assignQ, resultQ, worker, inFlight, registered, lease>>,
           Delivering' => Delivering,
           control' # "recovery_required" => control # "recovery_required",
           control' # "recovery_required" => \A w \in inFlight : Committing(w) => Committing(w)'
    PROVE  TokensOK'
  <1>1. /\ Assigned' = Assigned /\ Answered' = Answered /\ Executed' = Executed /\ Busy' = Busy
        /\ Messages' = Messages
    BY DEF Assigned, Answered, Executed, Busy, Messages, In
  <1>2. \A m : Tracked(m) => Tracked(m)'
    BY DEF Tracked
  <1> SUFFICES ASSUME Delivering'
      PROVE  /\ Once(assignQ)' /\ Once(resultQ)'
             /\ (\A k, l \in Busy : worker[k].work = worker[l].work => k = l)'
             /\ Apart(Assigned, Executed)' /\ Apart(Assigned, Answered)' /\ Apart(Executed, Answered)'
             /\ (\A m \in Messages : Tracked(m))'
             /\ (control # "recovery_required" =>
                    \A w \in inFlight : (\E m \in Messages : m.work = w) \/ Committing(w))'
    BY DEF TokensOK
  <1>3. /\ Once(assignQ) /\ Once(resultQ)
        /\ \A k, l \in Busy : worker[k].work = worker[l].work => k = l
        /\ Apart(Assigned, Executed) /\ Apart(Assigned, Answered) /\ Apart(Executed, Answered)
        /\ \A m \in Messages : Tracked(m)
        /\ control # "recovery_required" =>
              \A w \in inFlight : (\E m \in Messages : m.work = w) \/ Committing(w)
    BY DEF TokensOK
  <1>4. Once(assignQ)' /\ Once(resultQ)'
    BY <1>3 DEF Once
  <1>5. Apart(Assigned, Executed)' /\ Apart(Assigned, Answered)' /\ Apart(Executed, Answered)'
    BY <1>1, <1>3 DEF Apart
  <1>6. (\A k, l \in Busy : worker[k].work = worker[l].work => k = l)'
    BY <1>1, <1>3
  <1>7. (\A m \in Messages : Tracked(m))'
    BY <1>1, <1>2, <1>3
  <1>8. (control # "recovery_required" =>
            \A w \in inFlight : (\E m \in Messages : m.work = w) \/ Committing(w))'
    BY <1>1, <1>3
  <1> QED BY <1>4, <1>5, <1>6, <1>7, <1>8

\* An admission queues the one message of work that had none.
LEMMA AdmitMessages ==
    ASSUME ParentType, TrackingType, ChannelType, DurableType, VersionOK, CapacityHeldUntilAcknowledged,
           TokensOK, NEW w \in Work, AdmitOne(w)
    PROVE  TokensOK'
  <1> DEFINE a == Assignment(w, rowVersion'[w])
  <1>1. /\ assignQ' = Append(assignQ, a) /\ resultQ' = resultQ /\ worker' = worker
        /\ inFlight' = inFlight \cup {w} /\ lease[w] = "absent"
        /\ UNCHANGED <<pc, status, drainTo, current, control>> /\ pc = "admit"
    BY DEF AdmitOne, RegisterAdmission
  <1>2. /\ lease'[w] = "active" /\ registered'[w] = rowVersion'[w]
        /\ \A v \in Work : v # w => lease'[v] = lease[v] /\ registered'[v] = registered[v]
    BY DEF AdmitOne, TrackingType
  <1>3. a \in Assignments /\ a.work = w /\ a.fence = rowVersion'[w]
    BY ClaimVersion DEF AdmitOne, Assignment, Assignments
  <1> HIDE DEF a
  <1> SUFFICES ASSUME Delivering' PROVE TokensOK'
    BY DEF TokensOK
  <1>4. /\ Once(assignQ) /\ Once(resultQ)
        /\ \A k, l \in Busy : worker[k].work = worker[l].work => k = l
        /\ Apart(Assigned, Executed) /\ Apart(Assigned, Answered) /\ Apart(Executed, Answered)
        /\ \A m \in Messages : Tracked(m)
        /\ control # "recovery_required" =>
              \A v \in inFlight : (\E m \in Messages : m.work = v) \/ Committing(v)
    BY <1>1 DEF TokensOK, Delivering
  <1>5. \A m \in Messages : m.work \in Work /\ m.work # w
    BY <1>1, <1>4 DEF Tracked, TrackingType
  <1>6. Assigned' = Assigned \cup {a} /\ Once(assignQ)'
    <2>1. \A n \in In(assignQ) : n.work # a.work
      BY <1>3, <1>5 DEF Messages, Assigned
    <2> QED BY <1>1, <1>3, <1>4, <2>1, SendToChannel DEF ChannelType, Assigned
  <1>7. Answered' = Answered /\ Busy' = Busy /\ Executed' = Executed /\ Once(resultQ)'
    BY <1>1, <1>4 DEF Answered, Busy, Executed
  <1>8. Messages' = Messages \cup {a}
    BY <1>6, <1>7 DEF Messages
  <1>9. \A m \in Messages' : Tracked(m)'
    BY <1>1, <1>2, <1>3, <1>4, <1>5, <1>8 DEF Tracked
  <1>10. Apart(Assigned, Executed)' /\ Apart(Assigned, Answered)' /\ Apart(Executed, Answered)'
    BY <1>3, <1>4, <1>5, <1>6, <1>7 DEF Apart, Messages
  <1>11. control' # "recovery_required" =>
            \A v \in inFlight' : (\E m \in Messages' : m.work = v) \/ Committing(v)'
    BY <1>1, <1>3, <1>4, <1>8 DEF Committing
  <1> QED BY <1>1, <1>4, <1>6, <1>7, <1>9, <1>10, <1>11 DEF TokensOK

\* A worker takes the first assignment.
LEMMA TakeMessages ==
    ASSUME ParentType, ChannelType, TokensOK, NEW k \in Workers, WorkerTake(k)
    PROVE  TokensOK'
  <1> DEFINE h == Head(assignQ)
  <1>1. /\ worker[k] = Idle /\ assignQ # <<>> /\ worker' = [worker EXCEPT ![k] = h]
        /\ assignQ' = Tail(assignQ) /\ resultQ' = resultQ
        /\ UNCHANGED <<pc, status, drainTo, current, control, inFlight, registered, lease>>
    BY DEF WorkerTake, frontier, parent, tracking
  <1>2. /\ In(assignQ) = {h} \cup In(Tail(assignQ)) /\ h \in In(assignQ)
        /\ Once(assignQ) => Once(Tail(assignQ)) /\ \A m \in In(Tail(assignQ)) : m.work # h.work
    BY <1>1, TakeFromChannel DEF ChannelType
  <1>3. h \in Assignments /\ h # Idle
    <2>1. h \in Assignments
      BY <1>1, ReceiveFromChannel DEF ChannelType
    <2> QED BY <2>1 DEF Assignments, Idle
  <1> HIDE DEF h
  <1> SUFFICES ASSUME Delivering' PROVE TokensOK'
    BY DEF TokensOK
  <1>4. /\ Once(assignQ) /\ Once(resultQ)
        /\ \A i, j \in Busy : worker[i].work = worker[j].work => i = j
        /\ Apart(Assigned, Executed) /\ Apart(Assigned, Answered) /\ Apart(Executed, Answered)
        /\ \A m \in Messages : Tracked(m)
        /\ control # "recovery_required" =>
              \A v \in inFlight : (\E m \in Messages : m.work = v) \/ Committing(v)
    BY <1>1 DEF TokensOK, Delivering
  <1>5. Assigned = {h} \cup Assigned' /\ Once(assignQ)' /\ \A m \in Assigned' : m.work # h.work
    BY <1>1, <1>2, <1>4 DEF Assigned
  <1>6. Answered' = Answered /\ Once(resultQ)'
    BY <1>1, <1>4 DEF Answered
  <1>7. Busy' = Busy \cup {k} /\ k \notin Busy /\ \A l \in Busy : worker'[l] = worker[l]
    BY <1>1, <1>3 DEF Busy, ChannelType
  <1>8. worker'[k] = h
    BY <1>1 DEF ChannelType
  <1>9. Executed' = Executed \cup {h}
    BY <1>7, <1>8 DEF Executed
  <1>10. Messages' = Messages
    BY <1>5, <1>6, <1>9 DEF Messages
  <1>11. \A i, j \in Busy' : worker'[i].work = worker'[j].work => i = j
    <2>1. \A l \in Busy : worker[l].work # h.work
      BY <1>4, <1>5 DEF Apart, Executed
    <2> QED BY <1>4, <1>7, <1>8, <2>1
  <1>12. Apart(Assigned, Executed)' /\ Apart(Assigned, Answered)' /\ Apart(Executed, Answered)'
    BY <1>4, <1>5, <1>6, <1>9 DEF Apart
  <1>13. \A m \in Messages' : Tracked(m)'
    BY <1>1, <1>4, <1>10 DEF Tracked
  <1>14. control' # "recovery_required" =>
            \A v \in inFlight' : (\E m \in Messages' : m.work = v) \/ Committing(v)'
    BY <1>1, <1>4, <1>10 DEF Committing
  <1> QED BY <1>5, <1>6, <1>11, <1>12, <1>13, <1>14 DEF TokensOK

\* A worker answers the assignment it executes, and no other.
LEMMA FinishMessages ==
    ASSUME ParentType, ChannelType, TokensOK, NEW k \in Workers, WorkerFinish(k)
    PROVE  TokensOK'
  <1>1. /\ worker[k] # Idle /\ worker' = [worker EXCEPT ![k] = Idle] /\ assignQ' = assignQ
        /\ UNCHANGED <<pc, status, drainTo, current, control, inFlight, registered, lease>>
    BY DEF WorkerFinish, frontier, parent, tracking
  <1>2. PICK o \in Outcomes, b \in BOOLEAN :
           resultQ' = Append(resultQ, Envelope(worker[k].work, worker[k].fence, o, b))
    BY DEF WorkerFinish
  <1> DEFINE e == Envelope(worker[k].work, worker[k].fence, o, b)
  <1>3. e \in Envelopes /\ e.work = worker[k].work /\ e.fence = worker[k].fence
    BY <1>1 DEF Envelope, Envelopes, Assignments, ChannelType
  <1>3a. resultQ' = Append(resultQ, e)
    BY <1>2
  <1> HIDE DEF e
  <1> SUFFICES ASSUME Delivering' PROVE TokensOK'
    BY DEF TokensOK
  <1>4. /\ Once(assignQ) /\ Once(resultQ)
        /\ \A i, j \in Busy : worker[i].work = worker[j].work => i = j
        /\ Apart(Assigned, Executed) /\ Apart(Assigned, Answered) /\ Apart(Executed, Answered)
        /\ \A m \in Messages : Tracked(m)
        /\ control # "recovery_required" =>
              \A v \in inFlight : (\E m \in Messages : m.work = v) \/ Committing(v)
    BY <1>1 DEF TokensOK, Delivering
  <1>5. k \in Busy /\ worker[k] \in Executed
    BY <1>1 DEF Busy, Executed
  <1>6. Assigned' = Assigned /\ Once(assignQ)'
    BY <1>1, <1>4 DEF Assigned
  <1>7. Answered' = Answered \cup {e} /\ Once(resultQ)'
    <2>1. \A n \in In(resultQ) : n.work # e.work
      BY <1>3, <1>4, <1>5 DEF Apart, Answered
    <2> QED BY <1>3, <1>3a, <1>4, <2>1, SendToChannel DEF ChannelType, Answered
  <1>8. Busy' = Busy \ {k} /\ \A l \in Busy' : worker'[l] = worker[l]
    BY <1>1 DEF Busy, ChannelType
  <1>9. Executed' \subseteq Executed /\ Executed = {worker[k]} \cup Executed'
        /\ \A m \in Executed' : m.work # worker[k].work
    BY <1>4, <1>5, <1>8 DEF Executed
  <1>10. \A i, j \in Busy' : worker'[i].work = worker'[j].work => i = j
    BY <1>4, <1>8
  <1>11. Apart(Assigned, Executed)' /\ Apart(Assigned, Answered)' /\ Apart(Executed, Answered)'
    BY <1>3, <1>4, <1>5, <1>6, <1>7, <1>9 DEF Apart
  <1>12. /\ Messages' \subseteq Messages \cup {e} /\ worker[k] \in Messages
         /\ \A m \in Messages : m = worker[k] \/ m \in Messages'
         /\ e \in Messages'
    BY <1>5, <1>6, <1>7, <1>9 DEF Messages
  <1>13. \A m \in Messages' : Tracked(m)'
    BY <1>1, <1>3, <1>4, <1>12 DEF Tracked
  <1>14. control' # "recovery_required" =>
            \A v \in inFlight' : (\E m \in Messages' : m.work = v) \/ Committing(v)'
    BY <1>1, <1>3, <1>4, <1>12 DEF Committing
  <1> QED BY <1>6, <1>7, <1>10, <1>11, <1>13, <1>14 DEF TokensOK

\* The parent pulls the first result and reserves its lease; the messages left are
\* for other work.
LEMMA DrainMessages ==
    ASSUME ParentType, TrackingType, ChannelType, TokensOK, DrainOne
    PROVE  TokensOK'
  <1> DEFINE h == Head(resultQ)
  <1>1. /\ resultQ # <<>> /\ current' = h /\ resultQ' = Tail(resultQ) /\ pc = "drain" /\ pc' = "receive"
        /\ lease' = [lease EXCEPT ![h.work] = "completing"]
        /\ UNCHANGED <<assignQ, worker, status, drainTo, control, inFlight, registered>>
    BY DEF DrainOne, frontier
  <1>2. /\ In(resultQ) = {h} \cup In(Tail(resultQ)) /\ h \in In(resultQ)
        /\ Once(resultQ) => Once(Tail(resultQ)) /\ \A m \in In(Tail(resultQ)) : m.work # h.work
    BY <1>1, TakeFromChannel DEF ChannelType
  <1> HIDE DEF h
  <1> SUFFICES ASSUME Delivering' PROVE TokensOK'
    BY DEF TokensOK
  <1>4. /\ Once(assignQ) /\ Once(resultQ)
        /\ \A i, j \in Busy : worker[i].work = worker[j].work => i = j
        /\ Apart(Assigned, Executed) /\ Apart(Assigned, Answered) /\ Apart(Executed, Answered)
        /\ \A m \in Messages : Tracked(m)
        /\ control # "recovery_required" =>
              \A v \in inFlight : (\E m \in Messages : m.work = v) \/ Committing(v)
    BY <1>1 DEF TokensOK, Delivering
  <1>5. Answered = {h} \cup Answered' /\ Once(resultQ)' /\ \A m \in Answered' : m.work # h.work
    BY <1>1, <1>2, <1>4 DEF Answered
  <1>6. /\ Assigned' = Assigned /\ Once(assignQ)' /\ Busy' = Busy /\ Executed' = Executed
        /\ \A i, j \in Busy' : worker'[i].work = worker'[j].work => i = j
    BY <1>1, <1>4 DEF Assigned, Busy, Executed
  <1>7. /\ \A m \in Messages' : m \in Messages /\ m.work # h.work
        /\ \A m \in Messages : m = h \/ m \in Messages'
    BY <1>4, <1>5, <1>6 DEF Apart, Messages
  <1>8. \A m \in Messages' : Tracked(m)'
    BY <1>1, <1>4, <1>7 DEF Tracked, TrackingType
  <1>9. Apart(Assigned, Executed)' /\ Apart(Assigned, Answered)' /\ Apart(Executed, Answered)'
    BY <1>4, <1>5, <1>6 DEF Apart
  <1>10. control' # "recovery_required" =>
            \A v \in inFlight' : (\E m \in Messages' : m.work = v) \/ Committing(v)'
    BY <1>1, <1>4, <1>7 DEF Committing
  <1> QED BY <1>5, <1>6, <1>8, <1>9, <1>10 DEF TokensOK

\* A rejected result goes back to the assignment channel, or its work is left to
\* recovery.
LEMMA RejectMessages ==
    ASSUME ParentType, TrackingType, ChannelType, ParentOK, LeaseOK, CurrentOK, TokensOK, RejectResult
    PROVE  TokensOK'
  <1> DEFINE a == Assignment(current.work, current.fence)
  <1>1. /\ pc \in {"receive", "commit"} /\ pc' \notin {"receive", "commit"}
        /\ lease' = [lease EXCEPT ![current.work] = "active"]
        /\ UNCHANGED <<resultQ, worker, inFlight, registered, drainTo>>
    BY DEF RejectResult, RetainLease, MarkRecoveryOrRaise, EndCommit, Raise, ParentType
  <1>2. /\ current \in Envelopes /\ lease[current.work] = "completing" /\ current.work \in inFlight
        /\ registered[current.work] = current.fence /\ current.work \in Work
    BY <1>1 DEF LeaseOK, CurrentOK, Envelopes
  <1>3. \/ status' = "raised"
        \/ assignQ' = Append(assignQ, a) /\ control' = control /\ status' = status
        \/ assignQ' = assignQ /\ control' = "recovery_required" /\ status' = status
    BY DEF RejectResult, MarkRecoveryOrRaise, MarkRecoveryRequired, EndCommit, Raise, frontier
  <1>4. a \in Assignments /\ a.work = current.work /\ a.fence = current.fence
    BY <1>2 DEF Assignment, Assignments, Envelopes
  <1> HIDE DEF a
  <1> SUFFICES ASSUME Delivering' PROVE TokensOK'
    BY DEF TokensOK
  <1>5. status' = status /\ status' # "raised" /\ Delivering
    BY <1>1, <1>3 DEF Delivering
  <1>6. /\ Once(assignQ) /\ Once(resultQ)
        /\ \A i, j \in Busy : worker[i].work = worker[j].work => i = j
        /\ Apart(Assigned, Executed) /\ Apart(Assigned, Answered) /\ Apart(Executed, Answered)
        /\ \A m \in Messages : Tracked(m)
        /\ control # "recovery_required" =>
              \A v \in inFlight : (\E m \in Messages : m.work = v) \/ Committing(v)
    BY <1>5 DEF TokensOK
  <1>7. \A m \in Messages : m.work # current.work
    BY <1>2, <1>6 DEF Tracked
  <1>8. /\ Answered' = Answered /\ Once(resultQ)' /\ Busy' = Busy /\ Executed' = Executed
        /\ \A i, j \in Busy' : worker'[i].work = worker'[j].work => i = j
    BY <1>1, <1>6 DEF Answered, Busy, Executed
  <1>9. \A m : Tracked(m) => Tracked(m)'
    BY <1>1, <1>2 DEF Tracked, TrackingType
  <1>10. a.work \in inFlight' /\ lease'[a.work] = "active" /\ a.fence = registered'[a.work]
    BY <1>1, <1>2, <1>4 DEF Tracked, TrackingType
  <1>11. CASE assignQ' = Append(assignQ, a) /\ control' = control
    <2>1. Assigned' = Assigned \cup {a} /\ Once(assignQ)'
      <3>1. \A n \in In(assignQ) : n.work # a.work
        BY <1>4, <1>7 DEF Messages, Assigned
      <3> QED BY <1>4, <1>6, <1>11, <3>1, SendToChannel DEF ChannelType, Assigned
    <2>2. Messages' = Messages \cup {a}
      BY <1>8, <2>1 DEF Messages
    <2>3. Apart(Assigned, Executed)' /\ Apart(Assigned, Answered)' /\ Apart(Executed, Answered)'
      BY <1>4, <1>6, <1>7, <1>8, <2>1 DEF Apart, Messages
    <2>4. \A m \in Messages' : Tracked(m)'
      BY <1>6, <1>9, <1>10, <2>2 DEF Tracked
    <2>5. control' # "recovery_required" =>
             \A v \in inFlight' : (\E m \in Messages' : m.work = v) \/ Committing(v)'
      BY <1>1, <1>4, <1>6, <1>11, <2>2 DEF Committing
    <2> QED BY <1>8, <2>1, <2>3, <2>4, <2>5 DEF TokensOK
  <1>12. CASE assignQ' = assignQ /\ control' = "recovery_required"
    <2>1. Assigned' = Assigned /\ Once(assignQ)'
      BY <1>6, <1>12 DEF Assigned
    <2>2. Messages' = Messages
      BY <1>8, <2>1 DEF Messages
    <2>3. Apart(Assigned, Executed)' /\ Apart(Assigned, Answered)' /\ Apart(Executed, Answered)'
      BY <1>6, <1>8, <2>1 DEF Apart
    <2>4. \A m \in Messages' : Tracked(m)'
      BY <1>6, <1>9, <2>2
    <2> QED BY <1>8, <1>12, <2>1, <2>3, <2>4 DEF TokensOK
  <1> QED BY <1>3, <1>5, <1>11, <1>12

\* A result whose commit was rolled back goes back to the result channel, or its
\* work is left to recovery.
LEMMA RollBackMessages ==
    ASSUME ParentType, TrackingType, ChannelType, ParentOK, LeaseOK, CurrentOK, TokensOK,
           CommitRolledBack
    PROVE  TokensOK'
  <1>1. /\ pc = "commit" /\ pc' \notin {"receive", "commit"}
        /\ lease' = [lease EXCEPT ![current.work] = "active"]
        /\ UNCHANGED <<assignQ, worker, inFlight, registered, drainTo>>
    BY DEF CommitRolledBack, RetainLease, MarkRecoveryOrRaise, EndCommit, Raise, ParentType
  <1>2. /\ current \in Envelopes /\ lease[current.work] = "completing" /\ current.work \in inFlight
        /\ registered[current.work] = current.fence /\ current.work \in Work
    BY <1>1 DEF LeaseOK, CurrentOK, Envelopes
  <1>3. \/ status' = "raised"
        \/ resultQ' = Append(resultQ, current) /\ control' = control /\ status' = status
        \/ resultQ' = resultQ /\ control' = "recovery_required" /\ status' = status
    BY DEF CommitRolledBack, MarkRecoveryOrRaise, MarkRecoveryRequired, EndCommit, Raise, frontier
  <1> SUFFICES ASSUME Delivering' PROVE TokensOK'
    BY DEF TokensOK
  <1>5. status' = status /\ status' # "raised" /\ Delivering
    BY <1>1, <1>3 DEF Delivering
  <1>6. /\ Once(assignQ) /\ Once(resultQ)
        /\ \A i, j \in Busy : worker[i].work = worker[j].work => i = j
        /\ Apart(Assigned, Executed) /\ Apart(Assigned, Answered) /\ Apart(Executed, Answered)
        /\ \A m \in Messages : Tracked(m)
        /\ control # "recovery_required" =>
              \A v \in inFlight : (\E m \in Messages : m.work = v) \/ Committing(v)
    BY <1>5 DEF TokensOK
  <1>7. \A m \in Messages : m.work # current.work
    BY <1>2, <1>6 DEF Tracked
  <1>8. /\ Assigned' = Assigned /\ Once(assignQ)' /\ Busy' = Busy /\ Executed' = Executed
        /\ \A i, j \in Busy' : worker'[i].work = worker'[j].work => i = j
    BY <1>1, <1>6 DEF Assigned, Busy, Executed
  <1>9. \A m : Tracked(m) => Tracked(m)'
    BY <1>1, <1>2 DEF Tracked, TrackingType
  <1>10. /\ current.work \in inFlight' /\ lease'[current.work] = "active"
         /\ current.fence = registered'[current.work]
    BY <1>1, <1>2 DEF TrackingType
  <1>11. CASE resultQ' = Append(resultQ, current) /\ control' = control
    <2>1. Answered' = Answered \cup {current} /\ Once(resultQ)'
      <3>1. \A n \in In(resultQ) : n.work # current.work
        BY <1>7 DEF Messages, Answered
      <3> QED BY <1>2, <1>6, <1>11, <3>1, SendToChannel DEF ChannelType, Answered
    <2>2. Messages' = Messages \cup {current}
      BY <1>8, <2>1 DEF Messages
    <2>3. Apart(Assigned, Executed)' /\ Apart(Assigned, Answered)' /\ Apart(Executed, Answered)'
      BY <1>6, <1>7, <1>8, <2>1 DEF Apart, Messages
    <2>4. \A m \in Messages' : Tracked(m)'
      BY <1>6, <1>9, <1>10, <2>2 DEF Tracked
    <2>5. control' # "recovery_required" =>
             \A v \in inFlight' : (\E m \in Messages' : m.work = v) \/ Committing(v)'
      BY <1>1, <1>6, <1>11, <2>2 DEF Committing
    <2> QED BY <1>8, <2>1, <2>3, <2>4, <2>5 DEF TokensOK
  <1>12. CASE resultQ' = resultQ /\ control' = "recovery_required"
    <2>1. Answered' = Answered /\ Once(resultQ)'
      BY <1>6, <1>12 DEF Answered
    <2>2. Messages' = Messages
      BY <1>8, <2>1 DEF Messages
    <2>3. Apart(Assigned, Executed)' /\ Apart(Assigned, Answered)' /\ Apart(Executed, Answered)'
      BY <1>6, <1>8, <2>1 DEF Apart
    <2>4. \A m \in Messages' : Tracked(m)'
      BY <1>6, <1>9, <2>2
    <2> QED BY <1>8, <1>12, <2>1, <2>3, <2>4 DEF TokensOK
  <1> QED BY <1>3, <1>5, <1>11, <1>12

\* A commit ends the tracking of work that has no message left.
LEMMA CommitMessages ==
    ASSUME ParentType, TrackingType, LeaseOK, CurrentOK, TokensOK, CommitAcknowledged
    PROVE  TokensOK'
  <1> DEFINE w == current.work
  <1>1. /\ pc = "commit" /\ pc' \notin {"receive", "commit"}
        /\ lease' = [lease EXCEPT ![w] = "absent"] /\ registered' = [registered EXCEPT ![w] = 0]
        /\ inFlight' = inFlight \ {w}
        /\ UNCHANGED <<assignQ, resultQ, worker, drainTo, status, control>>
    BY DEF CommitAcknowledged, EndCommit, ScheduleRetry, CommitResult, channels, ParentType
  <1>2. lease[w] = "completing" /\ w \in Work
    BY <1>1 DEF LeaseOK, Envelopes
  <1> HIDE DEF w
  <1> SUFFICES ASSUME Delivering' PROVE TokensOK'
    BY DEF TokensOK
  <1>3. /\ Once(assignQ) /\ Once(resultQ)
        /\ \A i, j \in Busy : worker[i].work = worker[j].work => i = j
        /\ Apart(Assigned, Executed) /\ Apart(Assigned, Answered) /\ Apart(Executed, Answered)
        /\ \A m \in Messages : Tracked(m)
        /\ control # "recovery_required" =>
              \A v \in inFlight : (\E m \in Messages : m.work = v) \/ Committing(v)
    BY <1>1 DEF TokensOK, Delivering
  <1>4. /\ Assigned' = Assigned /\ Answered' = Answered /\ Busy' = Busy /\ Executed' = Executed
        /\ Messages' = Messages /\ Once(assignQ)' /\ Once(resultQ)'
        /\ \A i, j \in Busy' : worker'[i].work = worker'[j].work => i = j
    BY <1>1, <1>3 DEF Assigned, Answered, Busy, Executed, Messages
  <1>5. \A m \in Messages : m.work # w /\ m.work \in Work
    BY <1>2, <1>3 DEF Tracked, TrackingType
  <1>6. \A m \in Messages' : Tracked(m)'
    BY <1>1, <1>3, <1>4, <1>5 DEF Tracked, TrackingType
  <1>7. Apart(Assigned, Executed)' /\ Apart(Assigned, Answered)' /\ Apart(Executed, Answered)'
    BY <1>3, <1>4 DEF Apart
  <1>8. control' # "recovery_required" =>
           \A v \in inFlight' : (\E m \in Messages' : m.work = v) \/ Committing(v)'
    BY <1>1, <1>3, <1>4 DEF Committing, w
  <1> QED BY <1>4, <1>6, <1>7, <1>8 DEF TokensOK

\* Nothing loses, duplicates or misdirects an assignment or a result.
LEMMA TokensStep ==
    ASSUME ParentType, TrackingType, ChannelType, RequestType, DurableType, VersionOK, ParentOK,
           LeaseOK, CapacityHeldUntilAcknowledged, CurrentOK, TokensOK, Next
    PROVE  TokensOK'
  <1>1. ASSUME NEW w \in Work, AdmitOne(w) PROVE TokensOK'
    BY <1>1, AdmitMessages
  <1>2. ASSUME NEW k \in Workers, WorkerTake(k) PROVE TokensOK'
    BY <1>2, TakeMessages
  <1>3. ASSUME NEW k \in Workers, WorkerFinish(k) PROVE TokensOK'
    BY <1>3, FinishMessages
  <1>4. ASSUME DrainOne PROVE TokensOK'
    BY <1>4, DrainMessages
  <1>5. ASSUME RejectResult PROVE TokensOK'
    BY <1>5, RejectMessages
  <1>6. ASSUME CommitRolledBack PROVE TokensOK'
    BY <1>6, RollBackMessages
  <1>7. ASSUME CommitAcknowledged PROVE TokensOK'
    BY <1>7, CommitMessages
  <1>8. ASSUME NEW w \in Work, AdmitFails(w) PROVE TokensOK'
    BY <1>8 DEF AdmitFails, Raise, Delivering, TokensOK
  <1>9. ASSUME CommitUnknown PROVE TokensOK'
    BY <1>9 DEF CommitUnknown, Raise, Delivering, TokensOK
  <1>10. ASSUME Synthesize PROVE TokensOK'
    BY <1>10 DEF Synthesize, Raise, CurrentOK, Delivering, TokensOK
  <1>11. ASSUME CancelArrowFails PROVE TokensOK'
    BY <1>11 DEF CancelArrowFails, Raise, Delivering, TokensOK
  <1>12. ASSUME ReportRecovery \/ PauseFails \/ FinishCancellation PROVE TokensOK'
    BY <1>12 DEF ReportRecovery, PauseFails, FinishCancellation, Report, Delivering, TokensOK
  <1>13. ASSUME StaleResult PROVE TokensOK'
    <2>1. CASE status' = "raised"
      BY <2>1 DEF Delivering, TokensOK
    <2>2. CASE status' # "raised"
      <3>1. /\ control' = "recovery_required"
            /\ UNCHANGED <<assignQ, resultQ, worker, inFlight, registered, lease, status, drainTo>>
        BY <1>13, <2>2 DEF StaleResult, MarkRecoveryOrRaise, MarkRecoveryRequired, EndCommit, Raise,
            tracking, channels
      <3> QED BY <3>1, MessagesRest DEF Delivering
    <2> QED BY <2>1, <2>2
  <1>14. ASSUME Receive PROVE TokensOK'
    BY <1>14, MessagesRest DEF Receive, MarkResultReceived, Goto, frontier, tracking, channels,
        Delivering, Committing
  <1>15. ASSUME CompletePause PROVE TokensOK'
    BY <1>15, MessagesRest DEF CompletePause, MarkPaused, tracking, channels, Delivering,
        Committing, ParentOK
  <1>16. ASSUME ResumeRun PROVE TokensOK'
    BY <1>16, MessagesRest DEF ResumeRun, Resume, Regenerate, tracking, channels, Delivering,
        Committing
  <1>17. CASE Top \/ InstallPause \/ StillQuiescing \/ ReleaseRetries \/ DrainEmpty
    <2>1. /\ UNCHANGED <<assignQ, resultQ, worker, inFlight, registered, lease, status>>
          /\ pc \notin {"receive", "commit"}
          /\ control' # "recovery_required" => control # "recovery_required"
      BY <1>17 DEF Top, InstallPause, RequestPause, Regenerate, StillQuiescing, ReleaseRetries,
          RetryEligible, DrainEmpty, Goto, DrainThen, frontier, tracking, channels
    <2>2. Delivering' => Delivering
      BY <1>17, <2>1 DEF Top, InstallPause, StillQuiescing, ReleaseRetries, DrainEmpty, Goto,
          DrainThen, Delivering, CurrentOK
    <2> QED BY <2>1, <2>2, MessagesRest DEF Committing
  <1>18. CASE Plan \/ AdmissionDone
    <2>1. /\ UNCHANGED <<assignQ, resultQ, worker, inFlight, registered, lease, control>>
          /\ pc \notin {"receive", "commit"}
      BY <1>18 DEF Plan, AdmissionDone, frontier, tracking, channels
    <2>2. Delivering' => Delivering
      BY <1>18 DEF Plan, AdmissionDone, Report, Goto, DrainThen, Delivering, CurrentOK, ParentOK
    <2> QED BY <2>1, <2>2, MessagesRest DEF Committing
  <1>19. CASE Quiesce \/ Acknowledge \/ CancelAbortsPause \/ StopAdmission
    <2>1. /\ UNCHANGED <<assignQ, resultQ, worker, inFlight, registered, lease, status>>
          /\ pc \notin {"receive", "commit"}
          /\ control' # "recovery_required" => control # "recovery_required"
      BY <1>19 DEF Quiesce, Acknowledge, CancelAbortsPause, StopAdmission, AbortPause, Regenerate,
          RequestCancel, Goto, DrainThen, frontier, tracking, channels, parent
    <2>2. Delivering' => Delivering
      BY <1>19, <2>1 DEF Quiesce, Acknowledge, CancelAbortsPause, StopAdmission, Goto, DrainThen,
          Delivering, CurrentOK, parent
    <2> QED BY <2>1, <2>2, MessagesRest DEF Committing
  <1>20. CASE BeginCancellation \/ CancelDrain
    <2>1. /\ UNCHANGED <<assignQ, resultQ, worker, inFlight, registered, lease, status, control>>
          /\ pc \notin {"receive", "commit"}
      BY <1>20 DEF BeginCancellation, CancelDrain, DrainThen, frontier, tracking, channels
    <2>2. Delivering' => Delivering
      BY <1>20, <2>1 DEF BeginCancellation, CancelDrain, DrainThen, Delivering, CurrentOK
    <2> QED BY <2>1, <2>2, MessagesRest DEF Committing
  <1>21. CASE ResumeFails \/ PauseRequest \/ PauseAbort \/ CancelRequest \/ Tick
    <2>1. UNCHANGED <<assignQ, resultQ, worker, inFlight, registered, lease, control, pc, current,
                      status, drainTo>>
      BY <1>21 DEF ResumeFails, PauseRequest, PauseAbort, CancelRequest, Tick, frontier, parent,
          tracking, channels
    <2> QED BY <2>1, MessagesRest DEF Committing, Delivering
  <1> QED BY <1>1, <1>2, <1>3, <1>4, <1>5, <1>6, <1>7, <1>8, <1>9, <1>10, <1>11, <1>12, <1>13,
      <1>14, <1>15, <1>16, <1>17, <1>18, <1>19, <1>20, <1>21 DEF Next, ParentStep, WorkerStep

\* Tracked work keeps its permits, and what is committed or left to synthesize
\* stays tracked.
LEMMA CurrentStep ==
    ASSUME ParentType, TrackingType, ChannelType, DurableType, VersionOK, ParentOK, LeaseOK, TokensOK,
           CurrentOK, Next
    PROVE  CurrentOK'
  <1>1. ASSUME NEW w \in Work, AdmitOne(w) PROVE CurrentOK'
    BY <1>1 DEF AdmitOne, CurrentOK
  <1>2. ASSUME NEW w \in Work, AdmitFails(w) PROVE CurrentOK'
    BY <1>2 DEF AdmitFails, Raise, CurrentOK
  <1>3. ASSUME DrainOne PROVE CurrentOK'
    <2>1. /\ resultQ # <<>> /\ current' = Head(resultQ) /\ pc = "drain" /\ pc' = "receive"
          /\ UNCHANGED <<status, drainTo, toCancel, inFlight, permits, registered>>
      BY <1>3 DEF DrainOne
    <2>2. status = "none" /\ drainTo # "synthesize"
      BY <2>1 DEF ParentOK
    <2>3. Head(resultQ) \in Messages
      BY <2>1, TakeFromChannel DEF ChannelType, Answered, Messages
    <2>4. Head(resultQ).work \in inFlight /\ registered[Head(resultQ).work] = Head(resultQ).fence
      BY <2>2, <2>3 DEF TokensOK, Delivering, Tracked
    <2> QED BY <2>1, <2>2, <2>4 DEF CurrentOK
  <1>4. ASSUME Receive PROVE CurrentOK'
    BY <1>4 DEF Receive, Goto, tracking, CurrentOK
  <1>5. ASSUME RejectResult PROVE CurrentOK'
    BY <1>5 DEF RejectResult, MarkRecoveryOrRaise, EndCommit, Raise, ParentType, CurrentOK
  <1>6. ASSUME StaleResult PROVE CurrentOK'
    BY <1>6 DEF StaleResult, MarkRecoveryOrRaise, EndCommit, Raise, tracking, ParentType, CurrentOK
  <1>7. ASSUME CommitRolledBack PROVE CurrentOK'
    BY <1>7 DEF CommitRolledBack, MarkRecoveryOrRaise, EndCommit, Raise, ParentType, CurrentOK
  <1>8. ASSUME CommitUnknown PROVE CurrentOK'
    BY <1>8 DEF CommitUnknown, Raise, CurrentOK
  <1>9. ASSUME CommitAcknowledged PROVE CurrentOK'
    <2>1. /\ pc = "commit" /\ permits' = permits \ {current.work}
          /\ inFlight' = inFlight \ {current.work}
          /\ UNCHANGED <<drainTo, status, toCancel>>
          /\ pc' \in {drainTo, "drain"} /\ (drainTo = "synthesize" => pc' = "synthesize")
      BY <1>9 DEF CommitAcknowledged, ReleasePermits, EndCommit
    <2>2. current.work \notin toCancel
      BY <2>1 DEF LeaseOK
    <2> QED BY <2>1, <2>2 DEF CurrentOK, ParentType
  <1>10. ASSUME Synthesize PROVE CurrentOK'
    <2>1. PICK w \in toCancel :
             \/ /\ current' = Envelope(w, registered[w], "cancelled", TRUE)
                /\ toCancel' = toCancel \ {w} /\ pc' = "receive" /\ status' = status
             \/ toCancel' = toCancel /\ pc' = "stopped" /\ status' = "raised"
      BY <1>10 DEF Synthesize, Raise
    <2>2. UNCHANGED <<drainTo, inFlight, permits, registered>>
      BY <1>10 DEF Synthesize, Raise
    <2> QED BY <2>1, <2>2 DEF Envelope, CurrentOK
  <1>11. ASSUME CancelDrain PROVE CurrentOK'
    BY <1>11 DEF CancelDrain, DrainThen, tracking, ParentOK, CurrentOK
  <1>12. CASE Top \/ InstallPause \/ StillQuiescing \/ ReleaseRetries \/ DrainEmpty
    BY <1>12 DEF Top, InstallPause, StillQuiescing, ReleaseRetries, DrainEmpty, Goto, DrainThen,
        tracking, ParentType, ParentOK, CurrentOK
  <1>13. CASE ReportRecovery \/ Plan \/ AdmissionDone
    BY <1>13 DEF ReportRecovery, Plan, AdmissionDone, Report, Goto, DrainThen, tracking, CurrentOK
  <1>14. CASE Quiesce \/ Acknowledge \/ CompletePause \/ PauseFails
    BY <1>14 DEF Quiesce, Acknowledge, CompletePause, PauseFails, Report, Goto, DrainThen, tracking,
        CurrentOK
  <1>15. CASE CancelAbortsPause \/ StopAdmission \/ BeginCancellation \/ FinishCancellation
              \/ CancelArrowFails
    BY <1>15 DEF CancelAbortsPause, StopAdmission, BeginCancellation, FinishCancellation,
        CancelArrowFails, Report, Raise, Goto, tracking, parent, CurrentOK
  <1>16. CASE ResumeRun \/ ResumeFails
    BY <1>16 DEF ResumeRun, ResumeFails, parent, tracking, CurrentOK
  <1>17. CASE (\E k \in Workers : WorkerStep(k)) \/ PauseRequest \/ PauseAbort \/ CancelRequest \/ Tick
    BY <1>17 DEF WorkerStep, WorkerTake, WorkerFinish, PauseRequest, PauseAbort, CancelRequest, Tick,
        parent, tracking, CurrentOK
  <1> QED BY <1>1, <1>2, <1>3, <1>4, <1>5, <1>6, <1>7, <1>8, <1>9, <1>10, <1>11, <1>12, <1>13,
      <1>14, <1>15, <1>16, <1>17 DEF Next, ParentStep

\* Whatever is committed is retired in full, and only a raising pass leaves an
\* unknown claim or commit behind.
LEMMA RetiredStep ==
    ASSUME ParentType, TrackingType, ParentOK, LeaseOK, TokensOK, CurrentOK, RetiredOK, ChannelType, Next
    PROVE  RetiredOK'
  <1>1. ASSUME NEW w \in Work, AdmitOne(w) PROVE RetiredOK'
    BY <1>1 DEF AdmitOne, RegisterAdmission, RetiredOK, TrackingType
  <1>2. ASSUME NEW w \in Work, AdmitFails(w) PROVE RetiredOK'
    <2>1. /\ status' = "raised" /\ UNCHANGED <<inFlight, registered, fence>>
          /\ lease' = [lease EXCEPT ![w] = "unknown"] \/ lease' = lease
      BY <1>2 DEF AdmitFails, Raise, frontier
    <2> QED BY <2>1 DEF RetiredOK, TrackingType
  <1>3. ASSUME DrainOne PROVE RetiredOK'
    <2>1. /\ resultQ # <<>> /\ pc = "drain"
          /\ lease' = [lease EXCEPT ![Head(resultQ).work] = "completing"]
          /\ UNCHANGED <<status, inFlight, registered, ambiguous, fence>>
      BY <1>3 DEF DrainOne, frontier
    <2>2. status = "none" /\ drainTo # "synthesize"
      BY <2>1 DEF ParentOK
    <2>3. Head(resultQ) \in Messages
      BY <2>1, TakeFromChannel DEF ChannelType, Answered, Messages
    <2>4. Head(resultQ).work \in inFlight
      BY <2>2, <2>3 DEF TokensOK, Delivering, Tracked
    <2> QED BY <2>1, <2>2, <2>4 DEF RetiredOK, TrackingType
  <1>4. ASSUME Receive PROVE RetiredOK'
    BY <1>4 DEF Receive, MarkResultReceived, frontier, Goto, tracking, RetiredOK
  <1>5. ASSUME RejectResult \/ CommitRolledBack PROVE RetiredOK'
    <2>1. /\ pc \in {"receive", "commit"} /\ lease' = [lease EXCEPT ![current.work] = "active"]
          /\ UNCHANGED <<inFlight, registered, ambiguous, fence>>
      BY <1>5 DEF RejectResult, CommitRolledBack, RetainLease, MarkRecoveryOrRaise,
          MarkRecoveryRequired, frontier
    <2>2. status = "none" /\ current.work \in inFlight
      BY <2>1 DEF ParentOK, CurrentOK
    <2> QED BY <2>1, <2>2 DEF RetiredOK, TrackingType
  <1>6. ASSUME StaleResult PROVE RetiredOK'
    <2>1. pc = "commit" /\ UNCHANGED <<inFlight, registered, ambiguous, lease, fence>>
      BY <1>6 DEF StaleResult, MarkRecoveryOrRaise, MarkRecoveryRequired, frontier, tracking
    <2>2. status = "none"
      BY <2>1 DEF ParentOK
    <2> QED BY <2>1, <2>2 DEF RetiredOK
  <1>7. ASSUME CommitUnknown PROVE RetiredOK'
    BY <1>7 DEF CommitUnknown, MarkRecoveryRequired, frontier, Raise, RetiredOK
  <1>8. ASSUME CommitAcknowledged PROVE RetiredOK'
    <2>1. /\ pc = "commit" /\ inFlight' = inFlight \ {current.work}
          /\ lease' = [lease EXCEPT ![current.work] = "absent"]
          /\ registered' = [registered EXCEPT ![current.work] = 0]
          /\ fence' = [fence EXCEPT ![current.work] = 0]
          /\ UNCHANGED <<status, ambiguous>>
      BY <1>8 DEF CommitAcknowledged, EndCommit, ScheduleRetry, CommitResult
    <2>2. status = "none" /\ current.work \in inFlight
      BY <2>1 DEF ParentOK, CurrentOK
    <2> QED BY <2>1, <2>2 DEF RetiredOK, TrackingType
  <1>9. ASSUME Synthesize PROVE RetiredOK'
    <2>1. PICK w \in toCancel :
             \/ lease' = [lease EXCEPT ![w] = "completing"] /\ status' = status
             \/ lease' = lease /\ status' = "raised"
      BY <1>9 DEF Synthesize, Raise
    <2>2. UNCHANGED <<inFlight, registered, ambiguous, fence>>
      BY <1>9 DEF Synthesize, frontier
    <2> QED BY <2>1, <2>2 DEF CurrentOK, RetiredOK, TrackingType
  <1>10. CASE Top \/ InstallPause \/ StillQuiescing \/ ReleaseRetries \/ DrainEmpty \/ CancelDrain
    BY <1>10 DEF frontier, RequestPause, Regenerate, RetryEligible, Top, InstallPause, StillQuiescing, ReleaseRetries, DrainEmpty, CancelDrain, Goto,
        DrainThen, tracking, RetiredOK
  <1>11. CASE ReportRecovery \/ Plan \/ AdmissionDone \/ PauseFails \/ CompletePause \/ FinishCancellation
    <2>1. pc # "stopped" /\ UNCHANGED <<inFlight, registered, ambiguous, lease, fence>>
      BY <1>11 DEF frontier, MarkRecoveryRequired, MarkPaused, ReportRecovery, Plan, AdmissionDone, PauseFails, CompletePause, FinishCancellation,
          tracking
    <2>2. status = "none"
      BY <2>1 DEF ParentOK
    <2> QED BY <2>1, <2>2 DEF RetiredOK
  <1>12. CASE Quiesce \/ Acknowledge
    BY <1>12 DEF frontier, AbortPause, Regenerate, Quiesce, Acknowledge, Goto, DrainThen, tracking, RetiredOK
  <1>13. CASE CancelAbortsPause \/ StopAdmission \/ BeginCancellation \/ CancelArrowFails
    BY <1>13 DEF frontier, AbortPause, Regenerate, RequestCancel, CancelAbortsPause, StopAdmission, BeginCancellation, CancelArrowFails, Raise, Goto,
        tracking, parent, RetiredOK
  <1>14. CASE ResumeRun \/ ResumeFails
    BY <1>14 DEF frontier, Resume, Regenerate, ResumeRun, ResumeFails, parent, tracking, RetiredOK
  <1>15. CASE (\E k \in Workers : WorkerStep(k)) \/ PauseRequest \/ PauseAbort \/ CancelRequest \/ Tick
    BY <1>15 DEF frontier, WorkerStep, WorkerTake, WorkerFinish, PauseRequest, PauseAbort, CancelRequest, Tick,
        parent, tracking, RetiredOK
  <1> QED BY <1>1, <1>2, <1>3, <1>4, <1>5, <1>6, <1>7, <1>8, <1>9, <1>10, <1>11, <1>12, <1>13,
      <1>14, <1>15 DEF Next, ParentStep

\* No call blocks work again, and a pass goes to admit only with work left.
LEMMA SourcesStep ==
    ASSUME FieldsOK, ParentType, RequestType, LeaseOK, SourcesOK, Next
    PROVE  SourcesOK'
  <1>0. ASSUME \A w \in Work : state'[w] = "blocked" => state[w] = "blocked",
               pc' = "admit" => admitted'
        PROVE  SourcesOK'
    BY <1>0 DEF SourcesOK, Predecessors
  <1>1. ASSUME NEW w \in Work, AdmitOne(w) PROVE SourcesOK'
    BY <1>0, <1>1 DEF AdmitOne, RegisterAdmission, FieldsOK, WorkFieldsOK
  <1>2. ASSUME Receive PROVE SourcesOK'
    BY <1>0, <1>2 DEF Receive, MarkResultReceived, Goto, frontier, FieldsOK, WorkFieldsOK
  <1>3. ASSUME CommitAcknowledged PROVE SourcesOK'
    <2>1. pc' # "admit"
      BY <1>3 DEF CommitAcknowledged, EndCommit, ParentType
    <2>2. /\ current.work \in Work /\ current.outcome \in Outcomes
          /\ state'[current.work] = current.outcome
          /\ \A v \in Work : v # current.work =>
                state'[v] = state[v] \/ (state[v] = "blocked" /\ state'[v] = "ready")
      BY <1>3, AcknowledgedEffect
    <2>3. state'[current.work] # "blocked"
      BY <2>2 DEF Outcomes
    <2>4. \A w \in Work : state'[w] = "blocked" => state[w] = "blocked"
      BY <2>2, <2>3
    <2> QED BY <1>0, <2>1, <2>4
  <1>4. ASSUME ReleaseRetries PROVE SourcesOK'
    <2>1. pc' # "admit"
      BY <1>4 DEF ReleaseRetries, Goto
    <2> QED BY <1>0, <1>4, <2>1, RetriesEffect
  <1>5. ASSUME Plan PROVE SourcesOK'
    BY <1>5 DEF Plan, Report, frontier, SourcesOK, IsFinished
  <1>6. ASSUME state' = state, \/ UNCHANGED <<pc, admitted>>
                               \/ pc' # "admit"
        PROVE  SourcesOK'
    BY <1>6 DEF SourcesOK, IsFinished, Predecessors
  <1>7. CASE Top \/ ReportRecovery \/ InstallPause \/ StillQuiescing \/ (\E w \in Work : AdmitFails(w))
             \/ AdmissionDone
    <2>1. state' = state /\ pc' # "admit"
      BY <1>7 DEF Top, ReportRecovery, InstallPause, RequestPause, Regenerate, StillQuiescing,
          AdmitFails, AdmissionDone, Report, Raise, Goto, DrainThen, frontier
    <2> QED BY <1>6, <2>1
  <1>8. CASE DrainEmpty \/ DrainOne \/ RejectResult \/ StaleResult \/ CommitRolledBack \/ CommitUnknown
    <2>1. state' = state /\ pc' # "admit"
      BY <1>8 DEF DrainEmpty, DrainOne, RejectResult, StaleResult, CommitRolledBack, CommitUnknown,
          MarkRecoveryOrRaise, MarkRecoveryRequired, EndCommit, Raise, Goto, frontier, ParentType
    <2> QED BY <1>6, <2>1
  <1>9. CASE Quiesce \/ Acknowledge \/ CompletePause \/ PauseFails \/ ResumeRun
    <2>1. state' = state /\ pc' # "admit"
      BY <1>9 DEF Quiesce, Acknowledge, CompletePause, PauseFails, ResumeRun, AbortPause, Resume,
          Regenerate, MarkPaused, MarkRecoveryRequired, Report, Goto, DrainThen, frontier
    <2> QED BY <1>6, <2>1
  <1>10. CASE CancelAbortsPause \/ StopAdmission \/ BeginCancellation \/ CancelDrain \/ Synthesize
              \/ FinishCancellation \/ CancelArrowFails
    <2>1. state' = state /\ pc' # "admit"
      BY <1>10 DEF CancelAbortsPause, StopAdmission, BeginCancellation, CancelDrain, Synthesize,
          FinishCancellation, CancelArrowFails, AbortPause, Regenerate, RequestCancel, Report, Raise,
          Goto, DrainThen, frontier, parent
    <2> QED BY <1>6, <2>1
  <1>11. CASE ResumeFails \/ (\E k \in Workers : WorkerStep(k)) \/ PauseRequest \/ PauseAbort
              \/ CancelRequest \/ Tick
    <2>1. UNCHANGED <<state, pc, admitted>>
      BY <1>11 DEF ResumeFails, WorkerStep, WorkerTake, WorkerFinish, PauseRequest, PauseAbort,
          CancelRequest, Tick, frontier, parent
    <2> QED BY <1>6, <2>1
  <1> QED BY <1>1, <1>2, <1>3, <1>4, <1>5, <1>7, <1>8, <1>9, <1>10, <1>11 DEF Next, ParentStep

\* The durable pause stays quiet, under the generation that was requested.
LEMMA BoundaryStep ==
    ASSUME FieldsOK, ParentType, TrackingType, ChannelType, RequestType, DurableType, ParentOK, RunOK,
           LeaseOK, RunningTracked, CurrentOK, TokensOK, BoundaryOK, Next
    PROVE  BoundaryOK'
  <1>0. ASSUME pc' # "pause", runState' \notin {"pausing", "paused", "resuming"},
               signal' # "idle" => signalGen' # 0
        PROVE  BoundaryOK'
    BY <1>0 DEF BoundaryOK
  <1>a. pc # "stopped" => runState \in {"running", "cancelling"}
    BY DEF RunOK, ParentType
  <1>1. CASE Top \/ ReportRecovery \/ InstallPause \/ StillQuiescing \/ ReleaseRetries \/ Plan
    <2>1. /\ pc' # "pause" /\ UNCHANGED <<runState, signal, signalGen>> /\ pc # "stopped"
      BY <1>1 DEF Top, ReportRecovery, InstallPause, StillQuiescing, ReleaseRetries, Plan, Report,
          Goto, DrainThen, requests, durable
    <2> QED BY <1>0, <1>a, <2>1 DEF BoundaryOK
  <1>2. CASE (\E w \in Work : AdmitOne(w) \/ AdmitFails(w)) \/ AdmissionDone
    <2>1. /\ pc' # "pause" /\ UNCHANGED <<runState, signal, signalGen>> /\ pc # "stopped"
      BY <1>2 DEF AdmitOne, AdmitFails, AdmissionDone, ClaimRow, Report, Raise, Goto, DrainThen,
          requests, durable
    <2> QED BY <1>0, <1>a, <2>1 DEF BoundaryOK
  <1>3. CASE DrainEmpty \/ DrainOne \/ Receive \/ RejectResult \/ StaleResult
    <2>1. /\ pc' # "pause" /\ UNCHANGED <<runState, signal, signalGen>> /\ pc # "stopped"
      BY <1>3 DEF DrainEmpty, DrainOne, Receive, RejectResult, StaleResult, MarkRecoveryOrRaise,
          EndCommit, Raise, Goto, requests, durable, ParentType
    <2> QED BY <1>0, <1>a, <2>1 DEF BoundaryOK
  <1>4. CASE CommitRolledBack \/ CommitUnknown \/ CommitAcknowledged
    <2>1. /\ pc' # "pause" /\ UNCHANGED <<runState, signal, signalGen>> /\ pc # "stopped"
      BY <1>4 DEF CommitRolledBack, CommitUnknown, CommitAcknowledged, CompleteRow,
          MarkRecoveryOrRaise, EndCommit, Raise, requests, durable, ParentType
    <2> QED BY <1>0, <1>a, <2>1 DEF BoundaryOK
  <1>5. ASSUME Quiesce PROVE BoundaryOK'
    <2>1. /\ pc' # "pause" /\ UNCHANGED <<runState, signal, signalGen>> /\ pc # "stopped"
      BY <1>5 DEF Quiesce, Goto, DrainThen, requests, durable
    <2> QED BY <1>0, <1>a, <2>1 DEF BoundaryOK
  <1>6. ASSUME Acknowledge PROVE BoundaryOK'
    <2>1. runState' = runState /\ signalGen' = signalGen /\ pauseGen' = pauseGen /\ pc # "stopped"
      BY <1>6 DEF Acknowledge, Goto, durable
    <2>2. \/ /\ signal = "requested" /\ signalGen = pauseGen /\ signal' = "acknowledged"
             /\ pc' = "pause"
          \/ signal' = signal /\ pc' = "top"
      BY <1>6 DEF Acknowledge, AcknowledgementWins, Goto
    <2> QED BY <1>a, <2>1, <2>2 DEF BoundaryOK
  <1>7. ASSUME pc = "pause" PROVE /\ inFlight = {} /\ Busy = {} /\ assignQ = <<>> /\ resultQ = <<>>
                                  /\ \A w \in Work : workState[w] # "running"
    <2>1. inFlight = {} /\ Delivering
      BY <1>7 DEF ParentOK, CurrentOK, Delivering
    <2>2. \A m \in Messages : FALSE
      BY <2>1 DEF TokensOK, Tracked
    <2>3. Busy = {}
      BY <2>2 DEF Messages, Executed
    <2>4. assignQ = <<>> /\ resultQ = <<>>
      <3>1. assignQ # <<>> => Head(assignQ) \in Messages
        BY TakeFromChannel DEF ChannelType, Messages, Assigned
      <3>2. resultQ # <<>> => Head(resultQ) \in Messages
        BY TakeFromChannel DEF ChannelType, Messages, Answered
      <3> QED BY <2>2, <3>1, <3>2
    <2>5. \A w \in Work : workState[w] # "running"
      BY <1>7, <2>1 DEF RunningTracked, ParentOK
    <2> QED BY <2>1, <2>3, <2>4, <2>5
  <1>8. CASE CompletePause \/ PauseFails
    <2>1. /\ pc = "pause" /\ pc' = "stopped" /\ status' # "none"
          /\ UNCHANGED <<inFlight, worker, assignQ, resultQ, workState, signal, signalGen, pauseGen>>
      BY <1>8 DEF CompletePause, PauseFails, TransitionRun, Report, tracking, channels, requests
    <2>2. Busy' = {}
      BY <1>7, <2>1 DEF Busy
    <2> QED BY <1>7, <2>1, <2>2 DEF BoundaryOK
  <1>9. ASSUME ResumeRun PROVE BoundaryOK'
    <2>1. pc' = "top" /\ runState' = "running" /\ signal' = "idle"
      BY <1>9 DEF ResumeRun, TransitionRun
    <2> QED BY <1>0, <2>1
  <1>10. ASSUME ResumeFails PROVE BoundaryOK'
    <2>1. /\ runState = "paused" /\ runState' \in {"resuming", "running"} /\ pc = "stopped"
          /\ UNCHANGED <<pc, status, inFlight, worker, assignQ, resultQ, workState, signal, signalGen,
                         pauseGen>>
      BY <1>10 DEF ResumeFails, TransitionRun, parent, tracking, channels, requests
    <2>2. Busy' = Busy
      BY <2>1 DEF Busy
    <2> QED BY <2>1, <2>2 DEF BoundaryOK
  <1>11. CASE CancelAbortsPause \/ StopAdmission \/ BeginCancellation \/ CancelDrain \/ Synthesize
    <2>1. /\ pc' # "pause" /\ runState' \in {runState, "cancelling"} /\ pc # "stopped"
          /\ UNCHANGED <<signal, signalGen>> \/ signal' = "idle"
      BY <1>11 DEF CancelAbortsPause, StopAdmission, BeginCancellation, CancelDrain, Synthesize,
          TransitionRun, Raise, Goto, DrainThen, requests, durable, parent
    <2> QED BY <1>0, <1>a, <2>1 DEF BoundaryOK
  <1>12. CASE FinishCancellation \/ CancelArrowFails
    <2>1. /\ pc' # "pause" /\ runState' \in {"running", "cancelling", "cancelled"}
          /\ UNCHANGED <<signal, signalGen>>
      BY <1>12 DEF FinishCancellation, CancelArrowFails, TransitionRun, Report, Raise, requests
    <2> QED BY <1>0, <2>1 DEF BoundaryOK
  <1>13. ASSUME NEW k \in Workers, WorkerTake(k) \/ WorkerFinish(k) PROVE BoundaryOK'
    <2>1. UNCHANGED <<pc, status, runState, signal, signalGen, pauseGen>>
      BY <1>13 DEF WorkerTake, WorkerFinish, parent, requests, durable
    <2>2. assignQ # <<>> \/ Busy # {}
      BY <1>13 DEF WorkerTake, WorkerFinish, Busy
    <2>3. runState \notin {"pausing", "paused", "resuming"}
      BY <2>2 DEF BoundaryOK
    <2> QED BY <2>1, <2>3 DEF BoundaryOK
  <1>14. ASSUME PauseRequest PROVE BoundaryOK'
    <2>1. signal = "idle" /\ signalGen' # 0
      BY <1>14, Numbers DEF PauseRequest, FieldsOK, ControlFieldsOK
    <2>2. /\ UNCHANGED <<pc, status, runState, pauseGen, inFlight, worker, assignQ, resultQ, workState>>
      BY <1>14 DEF PauseRequest, parent, tracking, channels, durable
    <2>3. Busy' = Busy
      BY <2>2 DEF Busy
    <2> QED BY <2>1, <2>2, <2>3 DEF BoundaryOK
  <1>15. CASE PauseAbort \/ CancelRequest \/ Tick
    <2>1. /\ UNCHANGED <<pc, status, runState, pauseGen, inFlight, worker, assignQ, resultQ, workState>>
          /\ UNCHANGED <<signal, signalGen>> \/ (signal = "requested" /\ signal' = "idle")
      BY <1>15 DEF PauseAbort, CancelRequest, Tick, parent, tracking, channels, durable, requests
    <2>2. Busy' = Busy
      BY <2>1 DEF Busy
    <2> QED BY <2>1, <2>2 DEF BoundaryOK
  <1> QED BY <1>1, <1>2, <1>3, <1>4, <1>5, <1>6, <1>8, <1>9, <1>10, <1>11, <1>12, <1>13, <1>14,
      <1>15 DEF Next, ParentStep, WorkerStep

\* The invariant of the messages beside that of the engine.
MInv == TokensOK /\ CurrentOK /\ RetiredOK /\ SourcesOK /\ BoundaryOK

\* A new engine satisfies it.
LEMMA InitMInv == Init => MInv
  <1> SUFFICES ASSUME Init PROVE MInv
    OBVIOUS
  <1>1. Assigned = {} /\ Answered = {} /\ Busy = {} /\ Executed = {} /\ Messages = {}
        /\ Once(assignQ) /\ Once(resultQ)
    BY EmptySeq DEF Init, Assigned, Answered, Busy, Executed, Messages, In, Once
  <1>2. TokensOK
    BY <1>1 DEF Init, TokensOK, Apart
  <1>3. SourcesOK
    BY DEF Init, FrontierInit, InitialStates, SourcesOK
  <1> QED BY <1>2, <1>3 DEF Init, FrontierInit, MInv, CurrentOK, RetiredOK, BoundaryOK

\* Every step keeps it.
LEMMA NextMInv == IInv /\ MInv /\ [Next]_vars => MInv'
  <1> SUFFICES ASSUME IInv, MInv, [Next]_vars PROVE MInv'
    OBVIOUS
  <1>1. CASE Next
    BY <1>1, TokensStep, CurrentStep, RetiredStep, SourcesStep, BoundaryStep DEF IInv, MInv
  <1>2. CASE UNCHANGED vars
    <2>1. TokensOK'
      BY <1>2, MessagesRest DEF vars, frontier, parent, tracking, channels, Committing, Delivering, MInv
    <2>2. CurrentOK' /\ RetiredOK' /\ SourcesOK'
      BY <1>2 DEF vars, frontier, parent, tracking, MInv, CurrentOK, RetiredOK, SourcesOK,
                  Predecessors, IsFinished
    <2>3. BoundaryOK'
      BY <1>2 DEF vars, parent, tracking, channels, requests, durable, MInv, BoundaryOK, Busy
    <2> QED BY <2>1, <2>2, <2>3 DEF MInv
  <1> QED BY <1>1, <1>2

\* Both invariants hold throughout.
LEMMA MessagesInductive == Spec => [](IInv /\ MInv)
  BY InitIInv, NextIInv, InitMInv, NextMInv, PTL DEF Spec

\* The one message of w is its one token, and w has none without a message.
LEMMA TokensAreMessages ==
    ASSUME IInv, MInv, Delivering, NEW w \in Work
    PROVE  /\ \A t, u \in Tokens(w) : t = u
           /\ w \notin inFlight => Tokens(w) = {}
           /\ w \in inFlight /\ control # "recovery_required" => Tokens(w) # {}
  <1> DEFINE A == {<<"assignQ", i>> : i \in {j \in DOMAIN assignQ : assignQ[j].work = w}}
             R == {<<"resultQ", i>> : i \in {j \in DOMAIN resultQ : resultQ[j].work = w}}
             K == {<<"worker", k>> : k \in {l \in Workers : worker[l] # Idle /\ worker[l].work = w}}
             P == IF pc \in {"receive", "commit"} /\ current.work = w THEN {<<"parent", 0>>} ELSE {}
  <1>1. Tokens(w) = A \cup R \cup K \cup P
    BY DEF Tokens
  <1>2. /\ Once(assignQ) /\ Once(resultQ)
        /\ \A k, l \in Busy : worker[k].work = worker[l].work => k = l
        /\ Apart(Assigned, Executed) /\ Apart(Assigned, Answered) /\ Apart(Executed, Answered)
        /\ \A m \in Messages : Tracked(m)
        /\ control # "recovery_required" =>
              \A v \in inFlight : (\E m \in Messages : m.work = v) \/ Committing(v)
    BY DEF MInv, TokensOK
  <1>3. Committing(w) => lease[w] = "completing" /\ w \in inFlight
    BY DEF Committing, IInv, LeaseOK, MInv, CurrentOK
  <1>4. /\ A # {} <=> \E m \in Assigned : m.work = w
        /\ R # {} <=> \E m \in Answered : m.work = w
        /\ K # {} <=> \E m \in Executed : m.work = w
        /\ P # {} <=> Committing(w)
    BY DEF Assigned, Answered, Executed, Busy, In, Committing
  <1>5. /\ \A t, u \in A : t = u
        /\ \A t, u \in R : t = u
        /\ \A t, u \in K : t = u
        /\ \A t, u \in P : t = u
    BY <1>2 DEF Once, Busy
  <1> HIDE DEF A, R, K, P
  <1>6. /\ A # {} => R = {} /\ K = {} /\ P = {}
        /\ R # {} => K = {} /\ P = {}
        /\ K # {} => P = {}
    BY <1>2, <1>3, <1>4 DEF Apart, Messages, Tracked
  <1>7. \A t, u \in Tokens(w) : t = u
    BY <1>1, <1>5, <1>6
  <1>8. w \notin inFlight => Tokens(w) = {}
    BY <1>1, <1>2, <1>3, <1>4 DEF Messages, Tracked
  <1>9. w \in inFlight /\ control # "recovery_required" => Tokens(w) # {}
    BY <1>1, <1>2, <1>4 DEF Messages
  <1> QED BY <1>7, <1>8, <1>9

\* For every plan, pool and channel capacity, every admitted work item is in
\* exactly one place until the pass ends, gives up or synthesizes: no assignment is
\* lost or executed twice.
THEOREM EveryAssignmentOnce == Spec => []OnePlacePerWork
  <1>1. IInv /\ MInv => OnePlacePerWork
    <2> SUFFICES ASSUME IInv, MInv, Delivering, control # "recovery_required", NEW w \in Work
                 PROVE  Cardinality(Tokens(w)) = IF w \in inFlight THEN 1 ELSE 0
      BY DEF OnePlacePerWork, Delivering
    <2>1. CASE w \notin inFlight
      BY <2>1, TokensAreMessages, FS_EmptySet
    <2>2. CASE w \in inFlight
      <3>1. PICK t : t \in Tokens(w)
        BY <2>2, TokensAreMessages
      <3>2. Tokens(w) = {t}
        BY <3>1, TokensAreMessages
      <3> QED BY <2>2, <3>2, FS_Singleton
    <2> QED BY <2>1, <2>2
  <1> QED BY <1>1, MessagesInductive, PTL

\* Every result the parent pulls is for tracked work under its current fence, with
\* a lease to reserve: the branches of _commit_envelope that refuse a stale or
\* untracked result are never taken.
THEOREM ResultsStayCurrent == Spec => []ResultsAreCurrent
  <1>1. IInv /\ MInv => ResultsAreCurrent
    <2> SUFFICES ASSUME IInv, MInv PROVE ResultsAreCurrent
      OBVIOUS
    <2>1. ASSUME pc = "drain", resultQ # <<>>
          PROVE  Head(resultQ).work \in inFlight /\ lease[Head(resultQ).work] = "active"
      <3>1. Head(resultQ) \in Messages
        BY <2>1, TakeFromChannel DEF IInv, ChannelType, Answered, Messages
      <3>2. Delivering
        BY <2>1 DEF IInv, ParentOK, Delivering
      <3> QED BY <3>1, <3>2 DEF MInv, TokensOK, Tracked
    <2> QED BY <2>1 DEF MInv, CurrentOK, ResultsAreCurrent
  <1> QED BY <1>1, MessagesInductive, PTL

\* For every plan, pool and failure: a step that the engine spreads over the lease
\* service, the repository, the coordinator and the scheduler is refused by none of
\* them, so it is never left half done by a check of a later one.
THEOREM StepsNeverHalfAccepted == Spec => []NoStepHalfAccepted
  <1>1. IInv /\ MInv => NoStepHalfAccepted
    <2> SUFFICES ASSUME IInv, MInv PROVE NoStepHalfAccepted
      OBVIOUS
    <2>1. ASSUME pc = "admit"
          PROVE  /\ control = "running" /\ ~gate
                 /\ \A w \in Ready : registered[w] = 0 /\ lease[w] = "absent" /\ Claimable(w)
      <3>1. control = "running" /\ runState = "running" /\ status = "none" /\ ~gate
        BY <2>1 DEF IInv, ParentOK, RunOK, PauseGateNotLeaked
      <3>2. ASSUME NEW w \in Ready
            PROVE  registered[w] = 0 /\ lease[w] = "absent" /\ Claimable(w)
        <4>1. w \in Work /\ state[w] = "ready"
          BY DEF Ready
        <4>2. w \notin inFlight
          BY <4>1 DEF IInv, CapacityHeldUntilAcknowledged, MInv, CurrentOK
        <4>3. registered[w] = 0 /\ lease[w] = "absent"
          BY <3>1, <4>1, <4>2 DEF MInv, RetiredOK
        <4>4. workState[w] \in {"pending", "retry_wait"}
          BY <4>1, <4>3 DEF IInv, FrontierFollowsStore, Outcomes
        <4> QED BY <3>1, <4>3, <4>4 DEF Claimable
      <3> QED BY <3>1, <3>2
    <2>2. ASSUME pc \in {"receive", "commit"}
          PROVE  /\ state[current.work] \in InFlightStates
                 /\ workState[current.work] = "running" /\ rowVersion[current.work] = current.fence
      <3>1. current.work \in inFlight /\ current.work \in Work
            /\ registered[current.work] = current.fence
        BY <2>2 DEF IInv, LeaseOK, Envelopes, MInv, CurrentOK
      <3>2. state[current.work] \in InFlightStates
        BY <3>1 DEF IInv, CapacityHeldUntilAcknowledged, MInv, CurrentOK
      <3>3. ambiguous = {}
        BY <2>2 DEF IInv, ParentOK, MInv, RetiredOK
      <3>4. workState[current.work] = "running" /\ rowVersion[current.work] = fence[current.work]
        BY <3>1, <3>2, <3>3 DEF IInv, FrontierFollowsStore, Outcomes
      <3>5. registered[current.work] = fence[current.work]
        BY DEF MInv, RetiredOK
      <3> QED BY <3>1, <3>2, <3>4, <3>5
    <2>3. pc \in {"acknowledge", "pause"} => control = "quiescing"
      BY DEF IInv, ParentOK
    <2>4. status = "paused" /\ runState = "paused" => control = "paused"
      BY DEF IInv, ParentOK
    <2> QED BY <2>1, <2>2, <2>3, <2>4 DEF NoStepHalfAccepted
  <1> QED BY <1>1, MessagesInductive, PTL

\* While the run is durably pausing, paused or resuming no work is running, tracked
\* or queued, and it paused under the generation that was requested, whatever
\* abort, failed arrow or failed resume came between.
THEOREM PauseIsQuiet == Spec => []PausedIsQuiet
  <1>1. IInv /\ MInv => PausedIsQuiet
    <2> SUFFICES ASSUME IInv, MInv, runState \in {"pausing", "paused", "resuming"}
                 PROVE  /\ inFlight = {}
                        /\ \A w \in Work : workState[w] # "running" /\ Tokens(w) = {}
                        /\ runState \in {"pausing", "paused"} =>
                              signal = "acknowledged" /\ signalGen = pauseGen /\ signalGen # 0
      BY DEF PausedIsQuiet
    <2>1. /\ pc = "stopped" /\ inFlight = {} /\ Busy = {} /\ assignQ = <<>> /\ resultQ = <<>>
          /\ \A w \in Work : workState[w] # "running"
          /\ runState \in {"pausing", "paused"} =>
                signal = "acknowledged" /\ signalGen = pauseGen /\ signalGen # 0
      BY DEF MInv, BoundaryOK
    <2>2. DOMAIN assignQ = {} /\ DOMAIN resultQ = {}
      BY <2>1
    <2>3. \A w \in Work : Tokens(w) = {}
      BY <2>1, <2>2 DEF Tokens, Busy
    <2> QED BY <2>1, <2>3
  <1> QED BY <1>1, MessagesInductive, PTL

\* In a plan without cycles some unfinished work is ready, waiting or in flight
\* unless a node failed: run() never raises that the engine stalled.
THEOREM NeverStalled == Spec => []NeverStalls
  <1>1. IInv /\ MInv => NeverStalls
    <2> SUFFICES ASSUME IInv, MInv, Stalled PROVE FALSE
      BY DEF NeverStalls
    <2>1. \A w \in Work : state[w] \in {"blocked", "succeeded"}
      <3> SUFFICES ASSUME NEW w \in Work PROVE state[w] \in {"blocked", "succeeded"}
        OBVIOUS
      <3>1. state[w] \in WorkStates /\ (state[w] = "retry_wait" <=> retryAt[w] # NoWait)
        BY DEF IInv, FieldsOK, WorkFieldsOK
      <3>2. state[w] # "admitted" /\ state[w] # "awaiting_commit"
        BY DEF Stalled, IInv, CapacityHeldUntilAcknowledged, MInv, CurrentOK
      <3>3. state[w] # "retry_wait" /\ state[w] # "ready"
        BY <3>1 DEF Stalled, NoWaits, Ready
      <3>4. state[w] # "quarantined" /\ state[w] # "failed" /\ state[w] # "cancelled"
        BY DEF Stalled, HasFailedNode
      <3> QED BY <3>1, <3>2, <3>3, <3>4
    <2> DEFINE S == {n \in Nodes : ~ PermitsContinuation(state, n)}
    <2>2. S # {}
      <3>1. PICK w \in Work : state[w] # "succeeded"
        BY DEF Stalled, MInv, SourcesOK, IsFinished
      <3>2. NodeOf[w] \in Nodes /\ w \in WorkOf(NodeOf[w])
        BY PlanAssumption DEF WorkOf
      <3>3. NodeOf[w] \in S
        BY <3>1, <3>2 DEF PermitsContinuation
      <3> QED BY <3>3
    <2>3. PICK n \in S : \A m \in S : <<m, n>> \notin Edges
      <3>1. S \in SUBSET Nodes
        OBVIOUS
      <3> HIDE DEF S
      <3> QED BY <2>2, <3>1, AcyclicAssumption
    <2>4. PICK w \in Work : NodeOf[w] = n /\ state[w] = "blocked"
      BY <2>1 DEF PermitsContinuation, WorkOf
    <2>5. Predecessors(NodeOf[w]) # {}
      BY <2>4 DEF MInv, SourcesOK
    <2>6. BarrierOpen(state, NodeOf[w])
      BY <2>3, <2>4 DEF BarrierOpen, Predecessors
    <2> QED BY <2>4, <2>5, <2>6 DEF IInv, FieldsOK, WorkFieldsOK, BarriersValid
  <1> QED BY <1>1, MessagesInductive, PTL

=============================================================================
