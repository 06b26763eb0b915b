------------------------------- MODULE Engine -------------------------------
(***************************************************************************)
(* The concurrent run engine: ConcurrentRunEngine.run of                   *)
(* application/execution/concurrent_engine.py with the components it owns  *)
(* (scheduler frontier, result coordinator, lease service, capacity,       *)
(* bounded channels, pause signal, lifecycle coordinator), the pooled      *)
(* workers behind its channels, and the durable run and work rows that the *)
(* transactional writer changes.                                           *)
(*                                                                         *)
(* One parent thread drives the loop; pc is its place in run().  Workers,  *)
(* pause and cancel requests and the clock interleave with it.  Every      *)
(* scheduler call is an action of Frontier, so a parent step makes at most *)
(* one of them.  Disruptions names what the environment may do.            *)
(***************************************************************************)
EXTENDS Frontier, Sequences

CONSTANTS
    Workers,            \* worker threads or tasks of the strategy
    Permits,            \* scheduled-work capacity
    AssignBound,        \* capacity of the assignment channel
    ResultBound,        \* capacity of the result channel
    MaxRedispatch,      \* MAX_ENGINE_REDISPATCH
    MaxWriterRetries,   \* MAX_ENGINE_WRITER_RETRIES
    MaxAttempts,        \* attempts the retry policy grants one work item
    MaxPauses,          \* bound on the number of pause requests
    Disruptions         \* the failures and requests that may happen

DisruptionKinds == {"reject", "rollback", "unknown", "expire", "claim", "lifecycle", "cancel"}

ASSUME EngineAssumption ==
    /\ Workers # {} /\ IsFiniteSet(Workers) /\ IsFiniteSet(Work)
    /\ {Permits, AssignBound, ResultBound, MaxAttempts} \subseteq Nat \ {0}
    /\ {MaxRedispatch, MaxWriterRetries, MaxPauses} \subseteq Nat
    /\ 2 * MaxAttempts + 1 <= MaxFence
    /\ 2 * MaxPauses + 2 <= MaxFence
    /\ Disruptions \subseteq DisruptionKinds

VARIABLES
    pc,            \* where the parent is in run()
    status,        \* the report of the last pass, "raised" if it raised
    drainTo,       \* where _drain_results returns to
    drained,       \* the current _drain_results committed something
    admitted,      \* _admit_until_limited admitted something
    current,       \* the envelope _commit_envelope works on
    toCancel,      \* identities _cancel_flow has yet to synthesize for
    pauseGen,      \* the generation _quiesce_step read from the signal
    inFlight,      \* keys of _in_flight
    redispatches,  \* _InFlight.redispatches
    tries,         \* _writer_retries
    registered,    \* lease fence of a registered assignment, 0 if there is none
    ambiguous,     \* _ambiguous of the coordinator
    permits,       \* work whose owner key holds scheduled-work permits
    lease,         \* the lease service's view of each lease
    gate,          \* the engine holds the lease service's pause reservation
    assignQ,       \* the assignment channel's buffer
    assignClosed,  \* the assignment channel is closed
    resultQ,       \* the result channel's buffer
    worker,        \* the assignment each worker executes
    signal,        \* _SignalState of the pause signal
    signalGen,     \* its generation
    pauses,        \* pause requests so far
    cancel,        \* the cancellation token is set
    now,           \* the injected clock
    runState,      \* durable: runs.state
    workState,     \* durable: work_items.state
    rowVersion     \* durable: work_items.row_version

parent == <<pc, status, drainTo, drained, admitted, current, toCancel, pauseGen>>
tracking == <<inFlight, redispatches, tries, registered, ambiguous, permits, lease>>
channels == <<assignQ, assignClosed, resultQ, worker>>
requests == <<signal, signalGen, pauses, cancel>>
durable == <<runState, workState, rowVersion>>
vars == <<frontier, parent, tracking, gate, channels, requests, now, durable>>

Idle == [work |-> "none"]
Assignment(w, f) == [work |-> w, fence |-> f]
Envelope(w, f, o, v) == [work |-> w, fence |-> f, outcome |-> o, valid |-> v]
Outcomes == TerminalStates \cup {"retry_wait"}
RunStates == {"running", "pausing", "paused", "resuming", "cancelling", "cancelled"}

Init ==
    /\ FrontierInit
    /\ pc = "top" /\ status = "none" /\ drainTo = "check"
    /\ drained = FALSE /\ admitted = FALSE
    /\ current = Idle /\ toCancel = {} /\ pauseGen = 0
    /\ inFlight = {} /\ ambiguous = {} /\ permits = {}
    /\ redispatches = [w \in Work |-> 0]
    /\ tries = [w \in Work |-> 0]
    /\ registered = [w \in Work |-> 0]
    /\ lease = [w \in Work |-> "absent"]
    /\ gate = FALSE
    /\ assignQ = <<>> /\ assignClosed = FALSE /\ resultQ = <<>>
    /\ worker = [k \in Workers |-> Idle]
    /\ signal = "idle" /\ signalGen = 0 /\ pauses = 0 /\ cancel = FALSE
    /\ now = 0
    /\ runState = "running"
    /\ workState = [w \in Work |-> "pending"]
    /\ rowVersion = [w \in Work |-> 1]

------------------------------------------------------------------------------
(* How a pass of run() ends.                                               *)

\* Mutant: the reservation is forgotten, not released.
MutKeepGate == gate' = gate

\* _release_pause_reservation.
ReleaseGate == gate' = FALSE

\* _terminal_report: every owned resource is shut down, the gate included.
Report(s) ==
    /\ pc' = "stopped"
    /\ status' = s
    /\ gate' = FALSE
    /\ UNCHANGED <<drainTo, drained, admitted, current, toCancel, pauseGen>>

\* An exception leaves run() without the shutdown of _terminal_report.
Raise ==
    /\ pc' = "stopped"
    /\ status' = "raised"
    /\ UNCHANGED <<drainTo, drained, admitted, current, toCancel, pauseGen>>

Goto(p) ==
    /\ pc' = p
    /\ UNCHANGED <<status, drainTo, drained, admitted, current, toCancel, pauseGen>>

DrainThen(p) ==
    /\ pc' = "drain" /\ drainTo' = p /\ drained' = FALSE
    /\ UNCHANGED <<status, admitted, current, toCancel, pauseGen>>

\* _commit_envelope returns: the drain loop goes on unless recovery is required.
EndCommit ==
    /\ pc' = IF drainTo = "synthesize" \/ control' = "recovery_required" THEN drainTo ELSE "drain"
    /\ drained' = TRUE
    /\ current' = Idle
    /\ UNCHANGED <<status, drainTo, admitted, toCancel, pauseGen>>

\* The engine marks the run recovery-required and goes on; the scheduler raises
\* when it is so marked already.
MarkRecoveryOrRaise ==
    \/ MarkRecoveryRequired /\ EndCommit
    \/ control = "recovery_required" /\ Raise /\ UNCHANGED frontier

------------------------------------------------------------------------------
(* The durable rows, changed only by a committed writer command.           *)

\* ClaimWork: the repository's guard, then the row of a claimed work item.
Claimable(w) == runState = "running" /\ workState[w] \in {"pending", "retry_wait"}

ClaimRow(w) ==
    /\ workState' = [workState EXCEPT ![w] = "running"]
    /\ rowVersion' = [rowVersion EXCEPT ![w] = @ + 1]
    /\ UNCHANGED runState

\* Mutant: the command is acknowledged before the transaction ran.
MutCompleteNothing(m) == UNCHANGED <<runState, workState, rowVersion>>

\* CommitWorkAttempt and CommitWorkWithCheckpoint, fenced by the row version.
CompleteRow(m) ==
    /\ workState[m.work] = "running"
    /\ rowVersion[m.work] = m.fence
    /\ workState' = [workState EXCEPT ![m.work] = m.outcome]
    /\ rowVersion' = [rowVersion EXCEPT ![m.work] = @ + 1]
    /\ UNCHANGED runState

TransitionRun(s) ==
    /\ runState' = s
    /\ UNCHANGED <<workState, rowVersion>>

------------------------------------------------------------------------------
(* The top of the loop.                                                    *)

Top ==
    /\ pc = "top"
    /\ IF cancel THEN Goto("cancel") ELSE DrainThen("check")
    /\ UNCHANGED <<frontier, tracking, gate, channels, requests, now, durable>>

ReportRecovery ==
    /\ pc = "check" /\ control = "recovery_required"
    /\ Report("recovery_required")
    /\ UNCHANGED <<frontier, tracking, channels, requests, now, durable>>

\* _install_pause_if_requested.
InstallPause ==
    /\ pc = "check" /\ control = "running" /\ signal = "requested"
    /\ RequestPause
    /\ gate' = TRUE
    /\ Goto("quiesce")
    /\ UNCHANGED <<tracking, channels, requests, now, durable>>

StillQuiescing ==
    /\ pc = "check" /\ control = "quiescing"
    /\ Goto("quiesce")
    /\ UNCHANGED <<frontier, tracking, gate, channels, requests, now, durable>>

\* Mutant: the loop goes on to admission after a quiesce step that did not end it.
MutReleaseRetries ==
    /\ pc = "check" /\ control \in {"running", "quiescing"} /\ signal # "requested"
    /\ IF Due(now) # {} THEN RetryEligible(now) ELSE UNCHANGED frontier
    /\ Goto("plan")
    /\ UNCHANGED <<tracking, gate, channels, requests, now, durable>>

ReleaseRetries ==
    /\ pc = "check" /\ control = "running" /\ signal # "requested"
    /\ IF Due(now) # {} THEN RetryEligible(now) ELSE UNCHANGED frontier
    /\ Goto("plan")
    /\ UNCHANGED <<tracking, gate, channels, requests, now, durable>>

IsFinished == \A w \in Work : state[w] \in TerminalStates
Ready == {w \in Work : state[w] = "ready"}
HasFailedNode == \E w \in Work : state[w] \in TerminalStates \ {"succeeded"}

Plan ==
    /\ pc = "plan"
    /\ \/ IsFinished /\ Report("completed")
       \/ ~IsFinished /\ pc' = "admit" /\ admitted' = FALSE
          /\ UNCHANGED <<status, drainTo, drained, current, toCancel, pauseGen, gate>>
    /\ UNCHANGED <<frontier, tracking, channels, requests, now, durable>>

------------------------------------------------------------------------------
(* Admission.                                                              *)

\* The guard of _admit_until_limited and of the capacity acquisition.
MayAdmit == Len(assignQ) < AssignBound /\ Cardinality(permits) < Permits /\ Ready # {}

\* _admit_one: capacity, then the durable lease, then the scheduler, the
\* coordinator and the assignment channel.
AdmitOne(w) ==
    /\ pc = "admit" /\ MayAdmit /\ w \in Ready
    /\ ~gate /\ lease[w] = "absent" /\ Claimable(w)
    /\ ClaimRow(w)
    /\ RegisterAdmission(w, rowVersion'[w])
    /\ permits' = permits \cup {w}
    /\ lease' = [lease EXCEPT ![w] = "active"]
    /\ registered' = [registered EXCEPT ![w] = rowVersion'[w]]
    /\ inFlight' = inFlight \cup {w}
    /\ redispatches' = [redispatches EXCEPT ![w] = 0]
    /\ assignQ' = Append(assignQ, Assignment(w, rowVersion'[w]))
    /\ admitted' = TRUE
    /\ UNCHANGED <<pc, status, drainTo, drained, current, toCancel, pauseGen, tries, ambiguous,
                   gate, assignClosed, resultQ, worker, requests, now>>

\* The claim fails, or its outcome stays unknown: the permits are returned and
\* run() raises.
AdmitFails(w) ==
    /\ pc = "admit" /\ MayAdmit /\ w \in Ready /\ "claim" \in Disruptions
    /\ \/ ClaimRow(w) /\ Claimable(w) /\ lease' = [lease EXCEPT ![w] = "unknown"]
       \/ UNCHANGED <<durable, lease>>
    /\ Raise
    /\ UNCHANGED <<frontier, inFlight, redispatches, tries, registered, ambiguous, permits,
                   gate, channels, requests, now>>

NoWaits == \A w \in Work : retryAt[w] = NoWait

\* Nothing more can be admitted: loop, drain, wait for a retry, or finish behind
\* a failed node.
AdmissionDone ==
    /\ pc = "admit" /\ ~MayAdmit
    /\ \/ admitted /\ Goto("top") /\ UNCHANGED gate
       \/ /\ ~admitted /\ (inFlight # {} \/ (NoWaits /\ Ready # {}))
          /\ DrainThen("top") /\ UNCHANGED gate
       \/ ~admitted /\ inFlight = {} /\ ~NoWaits /\ Goto("top") /\ UNCHANGED gate
       \/ ~admitted /\ inFlight = {} /\ NoWaits /\ Ready = {} /\ HasFailedNode /\ Report("completed")
    /\ UNCHANGED <<frontier, tracking, channels, requests, now, durable>>

\* Nothing ready, waiting, in flight or failed, and yet not finished.
Stalled ==
    /\ pc = "admit" /\ ~admitted /\ inFlight = {} /\ Ready = {}
    /\ NoWaits /\ ~HasFailedNode

------------------------------------------------------------------------------
(* Results: _drain_results, _commit_envelope and the coordinator.  A       *)
(* blocking drain differs from a polling one only in how long it waits.    *)

DrainEmpty ==
    /\ pc = "drain" /\ resultQ = <<>>
    /\ Goto(drainTo)
    /\ UNCHANGED <<frontier, tracking, gate, channels, requests, now, durable>>

\* One envelope is pulled and its lease reserved for completion.
DrainOne ==
    /\ pc = "drain" /\ resultQ # <<>>
    /\ lease[Head(resultQ).work] = "active"
    /\ current' = Head(resultQ) /\ resultQ' = Tail(resultQ)
    /\ lease' = [lease EXCEPT ![Head(resultQ).work] = "completing"]
    /\ pc' = "receive"
    /\ UNCHANGED <<frontier, status, drainTo, drained, admitted, toCancel, pauseGen, inFlight,
                   redispatches, tries, registered, ambiguous, permits, gate, assignQ,
                   assignClosed, worker, requests, now, durable>>

\* _pre_admission_checks passed: mark_result_received.
Receive ==
    /\ pc = "receive"
    /\ registered[current.work] = current.fence
    /\ IF state[current.work] = "admitted" THEN MarkResultReceived(current.work)
                                           ELSE UNCHANGED frontier
    /\ Goto("commit")
    /\ UNCHANGED <<tracking, gate, channels, requests, now, durable>>

\* Mutant: the completion reservation is not finalized.
MutRetainNothing == UNCHANGED lease

\* finalize_completion(RETAIN_ACTIVE): the lease stays usable.
RetainLease == lease' = [lease EXCEPT ![current.work] = "active"]

\* Mutant: the redispatch is not counted.
MutCountNothing(w) == redispatches' = redispatches

MayRedispatch(w) == redispatches[w] < MaxRedispatch

CountRedispatch(w) == redispatches' = [redispatches EXCEPT ![w] = @ + 1]

\* A validation or forged-reference rejection, before or after the result was
\* marked received: one corrected resubmission, else recovery.
RejectResult ==
    LET w == current.work
        full == Len(assignQ) >= AssignBound
    IN  /\ pc \in {"receive", "commit"} /\ ~current.valid
        /\ RetainLease
        /\ IF MayRedispatch(w) THEN CountRedispatch(w) ELSE UNCHANGED redispatches
        /\ \/ /\ MayRedispatch(w) /\ ~assignClosed /\ ~full
              /\ assignQ' = Append(assignQ, Assignment(w, current.fence))
              /\ UNCHANGED frontier /\ EndCommit
           \/ /\ MayRedispatch(w) /\ assignClosed
              /\ Raise /\ UNCHANGED <<frontier, assignQ>>
           \/ /\ ~MayRedispatch(w) \/ (~assignClosed /\ full)
              /\ MarkRecoveryOrRaise /\ UNCHANGED assignQ
        /\ UNCHANGED <<inFlight, tries, registered, ambiguous, permits, gate, assignClosed,
                       resultQ, worker, requests, now, durable>>

\* The rebased evidence shows the lease expired: recovery, and the completion
\* reservation of the lease is never finalized.
StaleResult ==
    /\ pc = "commit" /\ "expire" \in Disruptions
    /\ MarkRecoveryOrRaise
    /\ UNCHANGED <<tracking, gate, channels, requests, now, durable>>

\* The writer proved that nothing was committed: the envelope goes back to the
\* result channel, boundedly often.
CommitRolledBack ==
    LET w == current.work
        retry == tries[w] < MaxWriterRetries
    IN  /\ pc = "commit" /\ current.valid /\ "rollback" \in Disruptions
        /\ RetainLease
        /\ tries' = [tries EXCEPT ![w] = IF retry THEN @ + 1 ELSE @]
        /\ \/ /\ retry /\ Len(resultQ) < ResultBound
              /\ resultQ' = Append(resultQ, current)
              /\ UNCHANGED frontier /\ EndCommit
           \/ /\ ~retry \/ Len(resultQ) >= ResultBound
              /\ MarkRecoveryOrRaise /\ UNCHANGED resultQ
        /\ UNCHANGED <<inFlight, redispatches, registered, ambiguous, permits, gate, assignQ,
                       assignClosed, worker, requests, now, durable>>

\* The commit's outcome is unknown: the coordinator enters its unknown path and
\* marks the scheduler; the engine then marks it a second time, which raises.
CommitUnknown ==
    /\ pc = "commit" /\ current.valid /\ "unknown" \in Disruptions
    /\ \/ CompleteRow(current)
       \/ UNCHANGED durable
    /\ ambiguous' = ambiguous \cup {current.work}
    /\ IF control # "recovery_required" THEN MarkRecoveryRequired ELSE UNCHANGED frontier
    /\ Raise
    /\ UNCHANGED <<inFlight, redispatches, tries, registered, permits, lease, gate, channels,
                   requests, now>>

\* Mutant: the permits of committed work are not returned.
MutKeepPermits(w) == UNCHANGED permits

\* capacity.release of the work item's owner key.
ReleasePermits(w) == permits' = permits \ {w}

\* The durable acknowledgement: the coordinator completes the commit, the engine
\* retires the lease.
CommitAcknowledged ==
    LET w == current.work
    IN  /\ pc = "commit" /\ current.valid
        /\ CompleteRow(current)
        /\ IF current.outcome = "retry_wait"
           THEN \E at \in now..MaxInstant : ScheduleRetry(w, at)
           ELSE CommitResult(w, current.outcome)
        /\ registered' = [registered EXCEPT ![w] = 0]
        /\ ReleasePermits(w)
        /\ lease' = [lease EXCEPT ![w] = "absent"]
        /\ tries' = [tries EXCEPT ![w] = 0]
        /\ inFlight' = inFlight \ {w}
        /\ EndCommit
        /\ UNCHANGED <<redispatches, ambiguous, gate, channels, requests, now>>

------------------------------------------------------------------------------
(* Pause.                                                                  *)

\* Mutant: quiescence is judged by the result channel alone.
MutQuiescentByChannel == resultQ = <<>>

\* No result is outstanding.
Quiescent == inFlight = {}

\* _quiesce_step up to the read of the requested generation.
Quiesce ==
    /\ pc = "quiesce"
    /\ \/ ~Quiescent /\ DrainThen("top") /\ UNCHANGED <<frontier, gate>>
       \/ Quiescent /\ signal # "requested" /\ AbortPause /\ ReleaseGate /\ Goto("top")
       \/ /\ Quiescent /\ signal = "requested"
          /\ pauseGen' = signalGen /\ pc' = "acknowledge"
          /\ UNCHANGED <<frontier, gate, status, drainTo, drained, admitted, current, toCancel>>
    /\ UNCHANGED <<tracking, channels, requests, now, durable>>

\* The compare of try_acknowledge.
AcknowledgementWins == signal = "requested" /\ signalGen = pauseGen

\* try_acknowledge: lost to an abort, admission resumes.
Acknowledge ==
    /\ pc = "acknowledge"
    /\ \/ /\ AcknowledgementWins
          /\ signal' = "acknowledged" /\ Goto("pause") /\ UNCHANGED <<frontier, gate>>
       \/ /\ ~AcknowledgementWins
          /\ AbortPause /\ ReleaseGate /\ Goto("top") /\ UNCHANGED signal
    /\ UNCHANGED <<tracking, channels, signalGen, pauses, cancel, now, durable>>

\* complete_pause writes RUNNING, PAUSING, PAUSED; the reservation is kept.
CompletePause ==
    /\ pc = "pause"
    /\ TransitionRun("paused")
    /\ MarkPaused
    /\ pc' = "stopped" /\ status' = "paused"
    /\ UNCHANGED <<drainTo, drained, admitted, current, toCancel, pauseGen>>
    /\ UNCHANGED <<tracking, gate, channels, requests, now>>

\* One of the two arrows ends with an unknown outcome.
PauseFails ==
    /\ pc = "pause" /\ "lifecycle" \in Disruptions
    /\ \E s \in {"running", "pausing", "paused"} : TransitionRun(s)
    /\ MarkRecoveryRequired
    /\ Report("recovery_required")
    /\ UNCHANGED <<tracking, channels, requests, now>>

\* engine.resume with the proof, then the next pass of run().
ResumeRun ==
    /\ pc = "stopped" /\ status = "paused" /\ runState = "paused"
    /\ TransitionRun("running")
    /\ Resume
    /\ ReleaseGate
    /\ signal' = "idle" /\ signalGen' = 0
    /\ pc' = "top" /\ status' = "none"
    /\ UNCHANGED <<drainTo, drained, admitted, current, toCancel, pauseGen, tracking, channels,
                   pauses, cancel, now>>

ResumeFails ==
    /\ pc = "stopped" /\ status = "paused" /\ runState = "paused" /\ "lifecycle" \in Disruptions
    /\ \E s \in {"resuming", "running"} : TransitionRun(s)
    /\ UNCHANGED <<frontier, parent, tracking, gate, channels, requests, now>>

------------------------------------------------------------------------------
(* Cancellation.                                                           *)

\* _cancel_flow aborts a pending pause first.
CancelAbortsPause ==
    /\ pc = "cancel" /\ control = "quiescing"
    /\ AbortPause
    /\ ReleaseGate
    /\ IF signal = "requested" THEN signal' = "idle" /\ signalGen' = 0
                               ELSE UNCHANGED <<signal, signalGen>>
    /\ UNCHANGED <<parent, tracking, channels, pauses, cancel, now, durable>>

StopAdmission ==
    /\ pc = "cancel" /\ control # "quiescing"
    /\ IF control = "running" THEN RequestCancel ELSE UNCHANGED frontier
    /\ Goto("begin")
    /\ UNCHANGED <<tracking, gate, channels, requests, now, durable>>

\* begin_cancellation, then the assignment channel closes.
BeginCancellation ==
    /\ pc = "begin" /\ runState = "running"
    /\ TransitionRun("cancelling")
    /\ assignClosed' = TRUE
    /\ pc' = "cancelDrain" /\ drained' = TRUE
    /\ UNCHANGED <<frontier, status, drainTo, admitted, current, toCancel, pauseGen, tracking,
                   gate, assignQ, resultQ, worker, requests, now>>

\* while in_flight and drained_any.
CancelDrain ==
    /\ pc = "cancelDrain"
    /\ \/ inFlight # {} /\ drained /\ DrainThen("cancelDrain")
       \/ /\ inFlight = {} \/ ~drained
          /\ pc' = "synthesize" /\ toCancel' = inFlight /\ drainTo' = "synthesize"
          /\ UNCHANGED <<status, drained, admitted, current, pauseGen>>
    /\ UNCHANGED <<frontier, tracking, gate, channels, requests, now, durable>>

\* A synthesized cancelled envelope goes through _commit_envelope.  A lease whose
\* completion was left reserved refuses a second reservation.
Synthesize ==
    /\ pc = "synthesize" /\ toCancel # {}
    /\ \E w \in toCancel :
          \/ /\ lease[w] = "active"
             /\ lease' = [lease EXCEPT ![w] = "completing"]
             /\ current' = Envelope(w, registered[w], "cancelled", TRUE)
             /\ toCancel' = toCancel \ {w}
             /\ pc' = "receive"
             /\ UNCHANGED <<status, drainTo, drained, admitted, pauseGen>>
          \/ lease[w] # "active" /\ Raise /\ UNCHANGED lease
    /\ UNCHANGED <<frontier, inFlight, redispatches, tries, registered, ambiguous, permits,
                   gate, channels, requests, now, durable>>

FinishCancellation ==
    /\ pc = "synthesize" /\ toCancel = {}
    /\ TransitionRun("cancelled")
    /\ Report("cancelled")
    /\ UNCHANGED <<frontier, tracking, channels, requests, now>>

\* The writer outcome of either cancellation arrow is unknown.
CancelArrowFails ==
    /\ "lifecycle" \in Disruptions
    /\ \/ pc = "begin" /\ \E s \in {"running", "cancelling"} : TransitionRun(s)
       \/ /\ pc = "synthesize" /\ toCancel = {}
          /\ \E s \in {"cancelling", "cancelled"} : TransitionRun(s)
    /\ Raise
    /\ UNCHANGED <<frontier, tracking, gate, channels, requests, now>>

------------------------------------------------------------------------------
(* Workers, requests from other threads, and the clock.                    *)

\* Mutant: receiving leaves the assignment in the channel.
MutTakeKeepsMessage(k) ==
    /\ worker[k] = Idle /\ assignQ # <<>>
    /\ worker' = [worker EXCEPT ![k] = Head(assignQ)]
    /\ UNCHANGED <<frontier, parent, tracking, gate, assignQ, assignClosed, resultQ, requests,
                   now, durable>>

WorkerTake(k) ==
    /\ worker[k] = Idle /\ assignQ # <<>>
    /\ worker' = [worker EXCEPT ![k] = Head(assignQ)]
    /\ assignQ' = Tail(assignQ)
    /\ UNCHANGED <<frontier, parent, tracking, gate, assignClosed, resultQ, requests, now, durable>>

\* execute_one_assignment: the facts are recorded and the envelope is sent.  The
\* retry policy grants MaxAttempts attempts; a claim and a completion each
\* advance the row version.
WorkerFinish(k) ==
    /\ worker[k] # Idle /\ Len(resultQ) < ResultBound
    /\ \E o \in Outcomes \ {"cancelled"}, v \in BOOLEAN :
          /\ o = "retry_wait" => worker[k].fence + 2 <= 2 * MaxAttempts
          /\ v \/ "reject" \in Disruptions
          /\ resultQ' = Append(resultQ, Envelope(worker[k].work, worker[k].fence, o, v))
    /\ worker' = [worker EXCEPT ![k] = Idle]
    /\ UNCHANGED <<frontier, parent, tracking, gate, assignQ, assignClosed, requests, now, durable>>

IsShutDown == status \in {"completed", "cancelled", "recovery_required"}

PauseRequest ==
    /\ ~IsShutDown /\ signal = "idle" /\ pauses < MaxPauses
    /\ signal' = "requested" /\ signalGen' = generation /\ pauses' = pauses + 1
    /\ UNCHANGED <<frontier, parent, tracking, gate, channels, cancel, now, durable>>

PauseAbort ==
    /\ signal = "requested"
    /\ signal' = "idle" /\ signalGen' = 0
    /\ UNCHANGED <<frontier, parent, tracking, gate, channels, pauses, cancel, now, durable>>

CancelRequest ==
    /\ ~IsShutDown /\ ~cancel /\ "cancel" \in Disruptions
    /\ cancel' = TRUE
    /\ UNCHANGED <<frontier, parent, tracking, gate, channels, signal, signalGen, pauses, now,
                   durable>>

Tick ==
    /\ now < MaxInstant
    /\ now' = now + 1
    /\ UNCHANGED <<frontier, parent, tracking, gate, channels, requests, durable>>

ParentStep ==
    \/ Top \/ ReportRecovery \/ InstallPause \/ StillQuiescing \/ ReleaseRetries \/ Plan
    \/ \E w \in Work : AdmitOne(w) \/ AdmitFails(w)
    \/ AdmissionDone
    \/ DrainEmpty \/ DrainOne \/ Receive
    \/ RejectResult \/ StaleResult \/ CommitRolledBack \/ CommitUnknown \/ CommitAcknowledged
    \/ Quiesce \/ Acknowledge \/ CompletePause \/ PauseFails
    \/ CancelAbortsPause \/ StopAdmission \/ BeginCancellation \/ CancelDrain \/ Synthesize
    \/ FinishCancellation \/ CancelArrowFails

WorkerStep(k) == WorkerTake(k) \/ WorkerFinish(k)

Next ==
    \/ ParentStep
    \/ ResumeRun \/ ResumeFails
    \/ \E k \in Workers : WorkerStep(k)
    \/ PauseRequest \/ PauseAbort \/ CancelRequest
    \/ Tick

\* The parent thread and every worker keep running, time passes; nobody has to
\* ask for a pause, an abort, a resume or a cancellation.
Fairness ==
    /\ WF_vars(ParentStep)
    /\ \A k \in Workers : WF_vars(WorkerStep(k))
    /\ WF_vars(Tick)

Spec == Init /\ [][Next]_vars
FairSpec == Spec /\ Fairness

------------------------------------------------------------------------------
LeaseStates == {"absent", "active", "completing", "unknown"}
Assignments == [work : Work, fence : Fences]
Envelopes == [work : Work, fence : Fences, outcome : Outcomes, valid : BOOLEAN]

ParentType ==
    /\ pc \in {"top", "drain", "check", "plan", "admit", "receive", "commit", "quiesce",
               "acknowledge", "pause", "cancel", "begin", "cancelDrain", "synthesize", "stopped"}
    /\ status \in {"none", "paused", "completed", "cancelled", "recovery_required", "raised"}
    /\ drainTo \in {"check", "top", "cancelDrain", "synthesize"}
    /\ drained \in BOOLEAN /\ admitted \in BOOLEAN
    /\ current \in Envelopes \cup {Idle}
    /\ toCancel \subseteq Work
    /\ pauseGen \in 0..MaxFence

TrackingType ==
    /\ inFlight \subseteq Work /\ ambiguous \subseteq Work /\ permits \subseteq Work
    /\ redispatches \in [Work -> 0..MaxRedispatch]
    /\ tries \in [Work -> 0..MaxWriterRetries]
    /\ registered \in [Work -> 0..MaxFence]
    /\ lease \in [Work -> LeaseStates]
    /\ gate \in BOOLEAN

ChannelType ==
    /\ assignQ \in Seq(Assignments) /\ Len(assignQ) <= AssignBound
    /\ assignClosed \in BOOLEAN
    /\ resultQ \in Seq(Envelopes) /\ Len(resultQ) <= ResultBound
    /\ worker \in [Workers -> Assignments \cup {Idle}]

RequestType ==
    /\ signal \in {"idle", "requested", "acknowledged"}
    /\ signalGen \in 0..MaxFence
    /\ pauses \in 0..MaxPauses
    /\ cancel \in BOOLEAN
    /\ now \in Instants

DurableType ==
    /\ runState \in RunStates
    /\ workState \in [Work -> {"pending", "running"} \cup Outcomes]
    /\ rowVersion \in [Work -> Fences]

\* Type invariant of the engine, its components and the durable rows.
TypeOK ==
    /\ Snapshot \in FrontierType
    /\ ParentType /\ TrackingType /\ ChannelType /\ RequestType /\ DurableType

\* "Capacity is held from admission until durable acknowledgement": exactly the
\* work the scheduler counts as in flight holds scheduled-work permits, through
\* rejections, rollbacks, unknown outcomes, pauses and cancellation.
CapacityHeldUntilAcknowledged ==
    /\ \A w \in Work : w \in permits <=> state[w] \in InFlightStates
    /\ Cardinality(permits) <= Permits

\* "Dependencies are released only after commit": the frontier never runs ahead
\* of the durable rows.  A terminal or waiting item is so durably, in-flight work
\* is durably running under exactly its fence unless its commit is ambiguous, and
\* ready or blocked work is unclaimed unless its claim is.
FrontierFollowsStore ==
    \A w \in Work :
        CASE state[w] \in Outcomes -> workState[w] = state[w]
          [] state[w] \in InFlightStates ->
                w \in ambiguous \/ (workState[w] = "running" /\ rowVersion[w] = fence[w])
          [] OTHER -> lease[w] = "unknown" \/ workState[w] \in {"pending", "retry_wait"}

\* The places where the assignment or the result of w is.
Tokens(w) ==
    {<<"assignQ", i>> : i \in {j \in DOMAIN assignQ : assignQ[j].work = w}}
    \cup {<<"resultQ", i>> : i \in {j \in DOMAIN resultQ : resultQ[j].work = w}}
    \cup {<<"worker", k>> : k \in {l \in Workers : worker[l] # Idle /\ worker[l].work = w}}
    \cup IF pc \in {"receive", "commit"} /\ current.work = w THEN {<<"parent", 0>>} ELSE {}

\* While the engine neither synthesizes cancellations nor gave up, every admitted
\* work item is in exactly one place (a channel, a worker, the parent), so no
\* assignment is lost or executed twice and no result arrives untracked.
OnePlacePerWork ==
    (drainTo # "synthesize" /\ status \in {"none", "paused"} /\ control # "recovery_required") =>
        \A w \in Work : Cardinality(Tokens(w)) = IF w \in inFlight THEN 1 ELSE 0

\* A result the parent pulls belongs to tracked work under its current fence and
\* its lease can be reserved: the untracked, stale-fence and double-reservation
\* branches of _commit_envelope are never taken.
ResultsAreCurrent ==
    /\ (pc = "drain" /\ resultQ # <<>>) =>
          /\ Head(resultQ).work \in inFlight
          /\ lease[Head(resultQ).work] = "active"
    /\ pc = "receive" =>
          registered[current.work] = current.fence /\ current.work \in inFlight

\* "Pause quiesces at a stable durable boundary": while the run is durably
\* pausing, paused or resuming no work is running, tracked or queued anywhere.
\* "With a single compare-and-set winner": it becomes paused only on the
\* generation that was requested and not aborted, however late the abort.
PausedIsQuiet ==
    /\ runState \in {"pausing", "paused", "resuming"} =>
          /\ inFlight = {}
          /\ \A w \in Work : workState[w] # "running" /\ Tokens(w) = {}
    /\ runState \in {"pausing", "paused"} =>
          signal = "acknowledged" /\ signalGen = pauseGen /\ signalGen # 0

\* The lease service's pause gate is held while the scheduler quiesces or is
\* paused and is never leaked: no running, cancelling or reported engine holds it,
\* whichever abort, lost acknowledgement or cancellation ended the pause.
PauseGateNotLeaked ==
    /\ control \in {"quiescing", "paused"} => gate
    /\ gate => control \notin {"running", "cancelling"} /\ ~IsShutDown

Durable == INSTANCE DurableRun

\* The engine writes the rows of a run only as DurableRun promises: claims behind
\* durably succeeded predecessors and in a running run, one outcome per claim, a
\* pause only around quiet work, and no change after a pause, an end or a crash of
\* the pass.
ImplementsDurableRun == Durable!Spec

\* The lease service, the repository, the coordinator and the scheduler each check
\* a step on their own, one after another, and a refusal by a later one would
\* leave what an earlier one wrote.  None of them ever refuses.  Where the engine
\* admits, ready work has no registration, no lease and a claimable row, and the
\* scheduler admits; a result under commit is in flight for the scheduler and
\* running under the same fence in the store; a pause that is acknowledged or
\* written finds the scheduler quiescing, a resume finds it paused.
NoStepHalfAccepted ==
    /\ pc = "admit" =>
          /\ control = "running" /\ ~gate
          /\ \A w \in Ready : registered[w] = 0 /\ lease[w] = "absent" /\ Claimable(w)
    /\ pc \in {"receive", "commit"} =>
          /\ state[current.work] \in InFlightStates
          /\ workState[current.work] = "running" /\ rowVersion[current.work] = current.fence
    /\ pc \in {"acknowledge", "pause"} => control = "quiescing"
    /\ status = "paused" /\ runState = "paused" => control = "paused"

\* run() never raises "the engine stalled with no ready, in-flight, or finished
\* work".
NeverStalls == ~Stalled

\* Every pass of run() ends, in a report or an exception, however results are
\* rejected, rolled back or retried and whoever asks for a pause meanwhile.
PassEnds == pc = "top" ~> pc = "stopped"

\* "An unknown outcome stops admission and marks the run recovery-required": the
\* pass that met it ends with the recovery-required report and its shutdown.
UnknownOutcomeReported ==
    ambiguous # {} /\ pc = "stopped" => status = "recovery_required"

\* "Write the terminal cancelled arrow after owned work drained": a durably
\* cancelled run has no work item still durably running.
CancelledRunIsDrained ==
    runState = "cancelled" => \A w \in Work : workState[w] # "running"

=============================================================================
