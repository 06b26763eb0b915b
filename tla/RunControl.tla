----------------------------- MODULE RunControl -----------------------------
(***************************************************************************)
(* Pause, resume and cancel requests on one run, from the HTTP boundary to *)
(* the engine that executes it: RunLifecycleService of                     *)
(* application/services/runs.py under the idempotency boundary, the        *)
(* RuntimeActiveRunControlRegistry of runtime/run_controls.py and the      *)
(* RuntimeConcurrentRunOwner of runtime/execution_owners.py.               *)
(*                                                                         *)
(* Request threads, the engine's pass, the thread that retires a terminal  *)
(* owner and the shutdown of the runtime interleave.  The engine is reduced*)
(* to the durable arrows of DurableRun and the reports of run(); a bounded *)
(* wait may give up whenever Deadlines allows it.                          *)
(***************************************************************************)
EXTENDS Idempotency

CONSTANTS
    ActionsOf,    \* what each request may ask for
    MaxCrashes,   \* bound: crashes of the process
    Deadlines,    \* a bounded wait may reach its deadline
    Faults        \* an engine pass or a cleanup may fail

Actions == {"pause", "resume", "cancel"}
Closers == {"retire", "shutdown"}
Nobody == "nobody"

ASSUME ControlAssumption ==
    /\ Requests \cap (Closers \cup {Nobody}) = {}
    /\ ActionsOf \in [Requests -> SUBSET Actions]
    /\ MaxCrashes \in Nat
    /\ {Deadlines, Faults} \subseteq BOOLEAN

VARIABLES
    action,      \* what each request asks for, fixed when it is sent
    runState,    \* durable: runs.state
    slot,        \* "none", "registered" or "retired"
    regClosed,   \* _closed of the registry
    gate,        \* who holds the gate of the slot
    closer,      \* where the retiring and the closing thread are
    phase,       \* _phase of the owner
    ownerClosed, \* _closed of the owner
    report,      \* what the last pass told the owner
    lifecycle,   \* last_lifecycle_report of the engine
    thread,      \* the pass: "none", "running" or what run() returned
    asked,       \* controls the engine was asked for and did not carry out
    engineOpen,  \* the engine is not shut down
    crashes

registry == <<slot, regClosed, gate, closer>>
owner == <<phase, ownerClosed, report>>
engine == <<lifecycle, thread, asked, engineOpen>>
fixed == <<action, crashes>>
vars == <<boundary, runState, registry, owner, engine, fixed>>

Completed == [pause |-> "paused", resume |-> "running", cancel |-> "cancelled"]
Done == [pause |-> "paused", resume |-> "resumed", cancel |-> "cancelled"]
FinalStates == {"cancelled", "succeeded"}
Reports == {"paused", "cancelled", "completed", "raised"}

FreshRuntime ==
    /\ slot' = "none" /\ regClosed' = FALSE /\ gate' = Nobody
    /\ closer' = [c \in Closers |-> "idle"]
    /\ phase' = "new" /\ ownerClosed' = FALSE /\ report' = "none"
    /\ lifecycle' = "none" /\ thread' = "none" /\ asked' = {} /\ engineOpen' = TRUE

Init ==
    /\ BoundaryInit
    /\ action \in {a \in [Requests -> Actions] : \A r \in Requests : a[r] \in ActionsOf[r]}
    /\ runState = "queued"
    /\ slot = "none" /\ regClosed = FALSE /\ gate = Nobody
    /\ closer = [c \in Closers |-> "idle"]
    /\ phase = "new" /\ ownerClosed = FALSE /\ report = "none"
    /\ lifecycle = "none" /\ thread = "none" /\ asked = {} /\ engineOpen = TRUE
    /\ crashes = 0

------------------------------------------------------------------------------
(* The start of a run.                                                     *)

\* The launcher moves the run to running before it hands over its engine.
Launch ==
    /\ runState = "queued"
    /\ runState' = "running"
    /\ UNCHANGED <<boundary, registry, owner, engine, fixed>>

\* start_concurrent and start: the owner is registered, then its thread starts; a
\* thread that has yet to run is a pass that has yet to take a step.
StartOwner ==
    /\ phase = "new" /\ ~ownerClosed
    /\ runState = "running"
    /\ ~regClosed /\ slot = "none"
    /\ slot' = "registered" /\ phase' = "running" /\ thread' = "running"
    /\ UNCHANGED <<boundary, runState, regClosed, gate, closer, ownerClosed, report,
                   lifecycle, asked, engineOpen, fixed>>

------------------------------------------------------------------------------
(* The engine's pass: its durable arrows, and what run() returns.          *)

Returns(s) == thread' = s /\ engineOpen' = (engineOpen /\ s \in {"paused", "raised"})

Arrow(from, to) ==
    /\ runState = from /\ runState' = to
    /\ UNCHANGED <<lifecycle, thread, engineOpen>>

\* Pause at a quiet boundary; a cancellation is preferred at the top of the loop.
PassPauses ==
    \/ "cancel" \notin asked /\ "pause" \in asked /\ Arrow("running", "pausing")
    \/ /\ runState = "pausing"
       /\ runState' = "paused" /\ lifecycle' = "paused"
       /\ Returns("paused")

PassCancels ==
    \/ "cancel" \in asked /\ Arrow("running", "cancelling")
    \/ /\ runState = "cancelling"
       /\ runState' = "cancelled" /\ lifecycle' = "cancelled"
       /\ Returns("cancelled")

\* The work is over, or the frontier requires recovery, whatever was asked: the
\* finalizer or the recovery decides the rest.
PassCompletes ==
    /\ runState = "running" /\ "cancel" \notin asked
    /\ Returns("completed")
    /\ UNCHANGED <<runState, lifecycle>>

\* An arrow is refused, the engine stalls, an unexpected error.
PassRaises ==
    /\ Faults
    /\ Returns("raised")
    /\ UNCHANGED <<runState, lifecycle>>

Pass ==
    /\ thread = "running"
    /\ PassPauses \/ PassCancels \/ PassCompletes \/ PassRaises
    /\ UNCHANGED <<boundary, registry, owner, asked, fixed>>

\* Mutant: the except branch of _run_pass keeps the error and not the phase.
MutPhaseAfter(s) == CASE s = "paused" -> "paused" [] s = "raised" -> "running" [] OTHER -> "terminal"

PhaseAfter(s) == IF s = "paused" THEN "paused" ELSE "terminal"

\* The end of _run_pass: publish the report, then retire a terminal owner on a
\* thread of its own.
Publish ==
    /\ thread \in Reports
    /\ report' = thread /\ thread' = "none"
    /\ phase' = PhaseAfter(thread)
    /\ closer' = [closer EXCEPT !["retire"] = IF thread = "paused" THEN @ ELSE "called"]
    /\ UNCHANGED <<boundary, runState, slot, regClosed, gate, ownerClosed,
                   lifecycle, asked, engineOpen, fixed>>

\* RunFinalizer, outside this module, ends a run whose work is over.
Finalize ==
    /\ report = "completed" /\ runState = "running"
    /\ runState' = "succeeded"
    /\ UNCHANGED <<boundary, registry, owner, engine, fixed>>

------------------------------------------------------------------------------
(* RunLifecycleService: _attempt, _delegate_active_control.                *)

Target(r) == Completed[action[r]]

Attempt(r) ==
    /\ place[r] = "attempt"
    /\ IF runState = Target(r) THEN Decide(r, converge[r])
       ELSE IF runState \in FinalStates THEN Decide(r, FALSE)
       ELSE IF runState # "queued" THEN Goto(r, "dispatch")
       ELSE IF action[r] = "cancel" THEN Goto(r, "transition") ELSE Decide(r, FALSE)
    /\ UNCHANGED <<runState, registry, owner, engine, fixed>>

\* TransitionRun on a queued run: the compare-and-set holds, or _converge reads
\* again.  A queued run is left once, so the bound on attempts is not reached.
Transition(r) ==
    /\ place[r] = "transition"
    /\ IF runState = "queued"
       THEN runState' = "cancelled" /\ Decide(r, TRUE)
       ELSE UNCHANGED runState /\ Goto(r, "attempt")
    /\ UNCHANGED <<registry, owner, engine, fixed>>

\* The writer refuses the command or loses its outcome.
TransitionFails(r) ==
    /\ place[r] = "transition" /\ Faults
    /\ runState' \in {runState} \cup (IF runState = "queued" THEN {"cancelled"} ELSE {})
    /\ Unavailable(r)
    /\ UNCHANGED <<registry, owner, engine, fixed>>

\* The evidence is read again before it is believed.
Verify(r) ==
    /\ place[r] = "verify"
    /\ IF runState = Target(r) THEN Decide(r, TRUE) ELSE Unavailable(r)
    /\ UNCHANGED <<runState, registry, owner, engine, fixed>>

------------------------------------------------------------------------------
(* RuntimeActiveRunControlRegistry.dispatch.                               *)

\* The slot is captured under the lock of the registry, the gate is waited for
\* outside it.
Dispatch(r) ==
    /\ place[r] = "dispatch"
    /\ IF slot = "registered" /\ ~regClosed THEN Goto(r, "gate") ELSE Unavailable(r)
    /\ UNCHANGED <<runState, registry, owner, engine, fixed>>

StillOwned == slot = "registered"

\* The slot was retired while the request waited for its gate.
DispatchRefused(r) ==
    /\ place[r] = "gate" /\ gate = Nobody /\ ~StillOwned
    /\ Unavailable(r)
    /\ UNCHANGED <<runState, registry, owner, engine, fixed>>

\* Leave the gate with an error.
Refuse(r) ==
    /\ Unavailable(r)
    /\ gate' = IF gate = r THEN Nobody ELSE gate
    /\ UNCHANGED <<slot, regClosed, closer, fixed>>

\* A deadline passes: while waiting for the gate or for the pass, or at one of
\* the checks of the remaining time before and after the operation of the owner.
GiveUp(r) ==
    /\ Deadlines
    /\ place[r] \in {"gate", "wait", "restart", "evidence"}
    /\ Refuse(r)
    /\ UNCHANGED <<runState, owner, engine>>

------------------------------------------------------------------------------
(* RuntimeConcurrentRunOwner: pause, resume, cancel.                       *)

\* _require_phase and the engine's own refusals.
Accepts(a) ==
    /\ ~ownerClosed /\ engineOpen
    /\ CASE a = "pause" -> phase = "running" /\ "pause" \notin asked
         [] a = "cancel" -> phase = "running"
         [] a = "resume" -> phase = "paused" /\ "pause" \in asked /\ runState = "paused"

\* The request takes the gate and calls the owner.
Operate(r) ==
    /\ place[r] = "gate" /\ gate = Nobody /\ StillOwned /\ Accepts(action[r])
    /\ gate' = r
    /\ IF action[r] = "resume"
       THEN runState' = "resuming" /\ UNCHANGED asked /\ Goto(r, "resume")
       ELSE UNCHANGED runState /\ asked' = asked \cup {action[r]} /\ Goto(r, "wait")
    /\ UNCHANGED <<slot, regClosed, closer, owner, lifecycle, thread, engineOpen, fixed>>

OperateRefused(r) ==
    /\ place[r] = "gate" /\ gate = Nobody /\ StillOwned /\ ~Accepts(action[r])
    /\ Refuse(r)
    /\ UNCHANGED <<runState, owner, engine>>

\* The second arrow of the resume; the reservation of the pause is given back.
Resume(r) ==
    /\ place[r] = "resume"
    /\ runState' = "running" /\ lifecycle' = "resumed" /\ asked' = asked \ {"pause"}
    /\ Goto(r, "restart")
    /\ UNCHANGED <<registry, owner, thread, engineOpen, fixed>>

ResumeFails(r) ==
    /\ place[r] = "resume" /\ Faults
    /\ Refuse(r)
    /\ UNCHANGED <<runState, owner, engine>>

\* The deadline is looked at between the durable resume and the new pass.
Restart(r) ==
    /\ place[r] = "restart"
    /\ phase' = "running" /\ report' = "none" /\ thread' = "running"
    /\ Goto(r, "evidence")
    /\ UNCHANGED <<runState, registry, ownerClosed, lifecycle, asked, engineOpen, fixed>>

\* _wait_for_pass returns.
Boundary(r) ==
    /\ place[r] = "wait" /\ phase # "running"
    /\ IF report = Target(r)
       THEN Goto(r, "evidence") /\ UNCHANGED <<registry, fixed>>
       ELSE Refuse(r)
    /\ UNCHANGED <<runState, owner, engine>>

\* _evidence, and dispatch gives the gate back.
Evidence(r) ==
    /\ place[r] = "evidence"
    /\ IF lifecycle = Done[action[r]] /\ runState = Target(r)
       THEN Goto(r, "verify") /\ gate' = Nobody
            /\ UNCHANGED <<slot, regClosed, closer, fixed>>
       ELSE Refuse(r)
    /\ UNCHANGED <<runState, owner, engine>>

------------------------------------------------------------------------------
(* unregister, the registry's close, and close of the owner.               *)

\* The slot is retired and removed before its gate is waited for.
Retired(c) ==
    /\ slot' = IF slot = "registered" THEN "retired" ELSE slot
    /\ closer' = [closer EXCEPT ![c] = IF slot = "registered" THEN "gate" ELSE "done"]

Unregister ==
    /\ closer["retire"] = "called"
    /\ Retired("retire")
    /\ UNCHANGED <<boundary, runState, regClosed, gate, owner, engine, fixed>>

RegistryClose ==
    /\ ~regClosed
    /\ regClosed' = TRUE
    /\ Retired("shutdown")
    /\ UNCHANGED <<boundary, runState, gate, owner, engine, fixed>>

Ends(c, how) ==
    /\ closer' = [closer EXCEPT ![c] = how]
    /\ gate' = IF gate = c THEN Nobody ELSE gate
    /\ UNCHANGED <<boundary, runState, slot, regClosed, fixed>>

\* Mutant: close asks the engine to stop and does not wait for its pass.
MutCloseWaits == FALSE

CloseWaits == phase = "running"

\* _close_slot enters close of the owner.
CloseOwner(c) ==
    /\ closer[c] = "gate" /\ gate = Nobody /\ ~ownerClosed
    /\ gate' = c
    /\ ownerClosed' = TRUE
    /\ closer' = [closer EXCEPT ![c] = IF CloseWaits THEN "wait" ELSE "cleanup"]
    /\ phase' = IF phase = "running" THEN phase ELSE "closed"
    /\ asked' = IF phase = "running" THEN asked \cup {"cancel"} ELSE asked
    /\ UNCHANGED <<boundary, runState, slot, regClosed, report, lifecycle, thread, engineOpen,
                   fixed>>

\* The pass ended; an error of the engine leaves close before the cleanup.
CloseWaited(c) ==
    /\ closer[c] = "wait" /\ phase # "running"
    /\ IF report = "raised" THEN Ends(c, "failed")
       ELSE closer' = [closer EXCEPT ![c] = "cleanup"]
            /\ UNCHANGED <<boundary, runState, slot, regClosed, gate, fixed>>
    /\ UNCHANGED <<owner, engine>>

CloseCleansUp(c) ==
    /\ closer[c] = "cleanup"
    /\ engineOpen' = FALSE
    /\ Ends(c, "done")
    /\ UNCHANGED <<owner, lifecycle, thread, asked>>

CloseGivesUp(c) ==
    /\ Deadlines /\ closer[c] \in {"gate", "wait"}
    /\ Ends(c, "failed")
    /\ UNCHANGED <<owner, engine>>

\* The process dies: requests and threads are lost, rows stay.  Where it has
\* no handler of a key to lose it could as well have started afresh.
Crash ==
    /\ crashes < MaxCrashes /\ \E r \in Handling : KeyOf[r] # NoKey
    /\ crashes' = crashes + 1
    /\ Forget(Handling, "lost")
    /\ FreshRuntime
    /\ UNCHANGED <<record, answer, runState, action>>

------------------------------------------------------------------------------
Enter(r) == Admit(r) /\ UNCHANGED <<runState, registry, owner, engine, fixed>>
Leave(r) == Terminalize(r) /\ UNCHANGED <<runState, registry, owner, engine, fixed>>

RequestStep(r) ==
    \/ Attempt(r) \/ Transition(r) \/ TransitionFails(r) \/ Verify(r) \/ Dispatch(r)
    \/ DispatchRefused(r) \/ Operate(r) \/ OperateRefused(r) \/ Resume(r) \/ ResumeFails(r)
    \/ Restart(r) \/ Boundary(r) \/ Evidence(r) \/ Leave(r)

CloserStep(c) ==
    \/ c = "retire" /\ Unregister
    \/ CloseOwner(c) \/ CloseWaited(c) \/ CloseCleansUp(c)

PassStep == Pass \/ Publish

Next ==
    \/ \E r \in Requests : Enter(r) \/ RequestStep(r) \/ GiveUp(r)
    \/ \E c \in Closers : CloserStep(c) \/ CloseGivesUp(c)
    \/ Launch \/ StartOwner \/ PassStep \/ Finalize
    \/ RegistryClose \/ Crash

\* Threads that can run do run.  Nothing is assumed of deadlines, of new
\* requests, or of the shutdown.
Fairness ==
    /\ \A r \in Requests : WF_vars(RequestStep(r))
    /\ \A c \in Closers : WF_vars(CloserStep(c))
    /\ WF_vars(PassStep)

Spec == Init /\ [][Next]_vars
FairSpec == Spec /\ Fairness

------------------------------------------------------------------------------
\* Every request that entered the boundary is answered, and the owner of a pass
\* that is over leaves the registry, although no deadline ever passes: the gate,
\* the wait for the pass and the thread that retires a terminal owner never wait
\* for each other (dispatch, _wait_for_pass, _retire_terminal_owner).
RequestsAnsweredOwnersRetired ==
    <>[](Handling = {} /\ (phase = "terminal" => slot # "registered"))

\* When the registry closed without an error no pass is left running and none
\* can start: close asks, waits, and shuts the owner for later controls.
CleanShutdownLeavesNoPass ==
    closer["shutdown"] = "done" =>
       /\ thread # "running"
       /\ \A r \in Requests : place[r] \notin {"resume", "restart"}

\* The message of a refused control says that the durable run was not changed:
\* a request that is refused while it holds the gate leaves the run where its
\* control found it (503 of _delegate_active_control).
UnavailableMeansUnchanged ==
    [][\A r \in Requests :
          gate = r /\ answer'[r] = Error("unavailable") => runState' # Target(r)]_vars

=============================================================================
