------------------------------ MODULE Sequential ------------------------------
(***************************************************************************)
(* The sequential reference runner and the services around it: the         *)
(* dependency tracker and the runner loop, the work-lease service with its *)
(* admission gate, the pause and cancellation coordinators, the run        *)
(* finalizer and the startup recovery scanner.  They are separate threads  *)
(* that share one durable run through the transactional writer, whose      *)
(* answers may be refused, lost or late, and the process may die between   *)
(* any two steps.                                                          *)
(*                                                                         *)
(* One run.  The row version, the event sequence and the event counter     *)
(* advance together in every command and are the one number store.ver.    *)
(* PENDING and RETRY_WAIT are both "pending": either may be claimed.       *)
(***************************************************************************)
EXTENDS Integers, Sequences, FiniteSets

CONSTANTS
    Order,        \* the nodes of the plan, in plan order
    Deps,         \* node |-> the nodes it depends on
    Works,        \* the work items
    NodeOf,       \* work item |-> its node
    Results,      \* what an attempt may end in
    MaxSequence,  \* the largest row version (MAX_CONSISTENCY_SEQUENCE)
    MaxRequests,  \* bound: pause generations of one process
    MaxFaults     \* bound: refused and lost answers, crashes

None == "none"

Nodes == {Order[i] : i \in DOMAIN Order}
EmptyNodes == Nodes \ {NodeOf[w] : w \in Works}
TerminalWork == {"succeeded", "quarantined", "failed", "cancelled"}

\* A plan, and what RUNNING work may become: WORK_ITEM_TRANSITIONS ends it or lets it be
\* claimed again.
ASSUME PlanAssumption ==
    /\ Works # {} /\ Works \cap Nodes = {} /\ None \notin Works \cup Nodes
    /\ NodeOf \in [Works -> Nodes]
    /\ \A i \in DOMAIN Order : Deps[Order[i]] \subseteq {Order[j] : j \in 1 .. i - 1}
    /\ Results \subseteq TerminalWork \cup {"pending"}

PauseBound == {"pausing", "paused", "resuming"}
Finished == {"succeeded", "partially", "failed", "cancelled"}
\* RUN_TRANSITIONS: the arrows of the durable run.
Arrows ==
    [s \in {"queued", "running", "cancelling"} \cup PauseBound \cup Finished |->
        CASE s = "queued"     -> {"running", "cancelled"}
          [] s = "running"    -> {"pausing", "cancelling", "succeeded", "partially", "failed"}
          [] s = "pausing"    -> {"paused"}
          [] s = "paused"     -> {"resuming"}
          [] s = "resuming"   -> {"running"}
          [] s = "cancelling" -> {"cancelled"}
          [] OTHER            -> {}]

VARIABLES
    store,      \* the durable rows: run, work items, finalized empty nodes, fingerprint
    slot,       \* caller |-> its command at the writer and the answer
    late,       \* commands whose callers gave up: they may still commit
    gate,       \* _pause_gates: who closed acquisition admission
    lease,      \* work item |-> lease state and the run version in the lease
    runner,     \* the invocation of run() and its dependency tracker
    token,      \* PauseToken
    cancelled,  \* CancellationToken.is_requested
    client,     \* the acknowledgement the caller holds, the pauses acknowledged and aborted
    pauser, canceller, finalizer, scanner,
    faults

vars == <<store, slot, late, gate, lease, runner, token, cancelled, client,
          pauser, canceller, finalizer, scanner, faults>>

Callers == {"work", "pause", "cancel", "final", "scan"}

NoCmd == [kind |-> None, ver |-> 0, on |-> None, to |-> None, print |-> {}]
NoSlot == [cmd |-> NoCmd, ans |-> None]
NoLease == [st |-> None, ver |-> 0]

Fresh == [n \in Nodes |-> IF Deps[n] = {} THEN "ready" ELSE "blocked"]

NewSlots == [a \in Callers |-> NoSlot]
NewLeases == [w \in Works |-> NoLease]
NewRunner == [pc |-> "idle", st |-> Fresh]
NewToken == [gen |-> 0, req |-> FALSE, ack |-> 0]
NewClient == [proof |-> 0, acked |-> {}, aborted |-> {}]
NewPauser == [pc |-> "idle", res |-> FALSE, gen |-> 0, mid |-> FALSE, unc |-> FALSE,
              paused |-> FALSE, ver |-> 0]
NewCanceller == [pc |-> "idle", res |-> FALSE, done |-> FALSE, mid |-> FALSE, unc |-> FALSE,
                 on |-> None]
NewFinalizer == [pc |-> "idle", unc |-> FALSE, todo |-> {}, to |-> None, print |-> {}]
NewScanner == [pc |-> "idle", unc |-> FALSE, todo |-> {}]

Init ==
    /\ \E s \in {"queued", "running"} :
          store = [state |-> s, ver |-> 1, work |-> [w \in Works |-> "pending"],
                   done |-> {}, print |-> {}]
    /\ slot = NewSlots /\ late = {} /\ gate = None /\ lease = NewLeases
    /\ runner = NewRunner /\ token = NewToken /\ cancelled = FALSE /\ client = NewClient
    /\ pauser = NewPauser /\ canceller = NewCanceller /\ finalizer = NewFinalizer
    /\ scanner = NewScanner
    /\ faults = 0

(***************************************************************************)
(* The durable rows.  Every command carries the run version it was built   *)
(* from and is refused when another command has committed since.           *)
(***************************************************************************)
InState(w, s) == store.work[w] = s
RunningWork == {w \in Works : InState(w, "running")}

MutCurrent(c) == c.ver <= store.ver /\ store.ver < MaxSequence
Current(c) == c.ver = store.ver /\ store.ver < MaxSequence

Applies(c) ==
    /\ Current(c)
    /\ CASE c.kind = "claim" -> store.state = "running" /\ InState(c.on, "pending")
         [] c.kind \in {"renew", "result", "recover"} -> InState(c.on, "running")
         [] c.kind = "arrow" -> c.to \in Arrows[store.state]
         [] c.kind = "empty" -> c.on \notin store.done

ClaimEffect(c)  == [store EXCEPT !.ver = @ + 1, !.work[c.on] = "running"]
ResultEffect(c) == [store EXCEPT !.ver = @ + 1, !.work[c.on] = c.to]
RenewEffect(c)  == [store EXCEPT !.ver = @ + 1]
ArrowEffect(c)  == [store EXCEPT !.ver = @ + 1, !.state = c.to, !.print = c.print]
EmptyEffect(c)  == [store EXCEPT !.ver = @ + 1, !.done = @ \cup {c.on}]

Effect(c) ==
    CASE c.kind = "claim" -> ClaimEffect(c)
      [] c.kind \in {"result", "recover"} -> ResultEffect(c)
      [] c.kind = "renew" -> RenewEffect(c)
      [] c.kind = "arrow" -> ArrowEffect(c)
      [] c.kind = "empty" -> EmptyEffect(c)

Cmd(kind, ver, on, to) == [kind |-> kind, ver |-> ver, on |-> on, to |-> to, print |-> {}]
Arrow(ver, to) == Cmd("arrow", ver, None, to)

Put(a, c) == slot' = [slot EXCEPT ![a] = [cmd |-> c, ans |-> None]]
Take(a) == slot' = [slot EXCEPT ![a] = NoSlot]
Vacant(a) == slot[a] = NoSlot
Asked(a, kind) == slot[a].cmd.kind = kind /\ slot[a].ans # None
Ok(a) == slot[a].ans = "ok"
NotExecuted(a) == slot[a].ans \in {"refused", "rejected"}
Unknown(a) == slot[a].ans = "lost"

(***************************************************************************)
(* The transactional writer and its faults.                                *)
(***************************************************************************)
volatile == <<gate, lease, runner, token, cancelled, client, pauser, canceller, finalizer, scanner>>

Execute(a) ==
    /\ slot[a].cmd.kind # None /\ slot[a].ans = None
    /\ IF Applies(slot[a].cmd)
         THEN store' = Effect(slot[a].cmd) /\ slot' = [slot EXCEPT ![a].ans = "ok"]
         ELSE slot' = [slot EXCEPT ![a].ans = "rejected"] /\ UNCHANGED store
    /\ UNCHANGED <<late, faults, volatile>>

\* Not admitted, or proven not to have been executed.
Refuse(a) ==
    /\ faults < MaxFaults /\ faults' = faults + 1
    /\ slot[a].cmd.kind # None /\ slot[a].ans = None
    /\ slot' = [slot EXCEPT ![a].ans = "refused"]
    /\ UNCHANGED <<store, late, volatile>>

\* The wait for the answer times out, before or after the commit.
Lose(a) ==
    /\ faults < MaxFaults /\ faults' = faults + 1
    /\ slot[a].cmd.kind # None /\ slot[a].ans \in {None, "ok"}
    /\ slot' = [slot EXCEPT ![a].ans = "lost"]
    /\ late' = IF Ok(a) THEN late ELSE late \cup {slot[a].cmd}
    /\ UNCHANGED <<store, volatile>>

Late(c) ==
    /\ late' = late \ {c}
    /\ store' = IF Applies(c) THEN Effect(c) ELSE store
    /\ UNCHANGED <<slot, faults, volatile>>

\* The caller of the library starts the queued run.
StartRun ==
    /\ store.state = "queued"
    /\ store' = [store EXCEPT !.state = "running", !.ver = @ + 1]
    /\ UNCHANGED <<slot, late, faults, volatile>>

\* The process dies: everything but the rows is gone.
Crash ==
    /\ faults < MaxFaults /\ faults' = faults + 1
    /\ UNCHANGED store
    /\ slot' = NewSlots /\ late' = {} /\ gate' = None /\ lease' = NewLeases
    /\ runner' = NewRunner /\ token' = NewToken /\ cancelled' = FALSE
    /\ client' = NewClient /\ pauser' = NewPauser /\ canceller' = NewCanceller
    /\ finalizer' = NewFinalizer /\ scanner' = NewScanner

(***************************************************************************)
(* The work-lease service.  "claiming", "renewing" and "ending" are the    *)
(* identities in flight; a lease of unknown outcome is never given back.   *)
(***************************************************************************)
InFlight(w) == lease[w].st \in {"claiming", "renewing", "ending"}
Held(w) == lease[w].st = "active"

\* snapshot_pause counts nothing: no lease is active, unknown or in flight.
Drained == \A w \in Works : lease[w].st = None
MutDurablyDrained == Drained
DurablyDrained == RunningWork = {}

ActiveNode == {n \in Nodes : runner.st[n] = "running"}
Settled(w) == [lease EXCEPT ![w] = NoLease]
Doubtful(w) == [lease EXCEPT ![w].st = "unknown"]
Retained(w) == [lease EXCEPT ![w].st = "active"]

calm == <<store, late, faults, token, cancelled, client>>
services == <<pauser, canceller, finalizer, scanner>>

\* The executor of the active node works on one item at a time.
Acquire(w) ==
    /\ runner.pc = "exec" /\ NodeOf[w] \in ActiveNode /\ InState(w, "pending")
    /\ \A x \in Works : ~Held(x) /\ ~InFlight(x)
    /\ gate = None /\ lease[w].st = None
    /\ Vacant("work") /\ Put("work", Cmd("claim", store.ver, w, "running"))
    /\ lease' = [lease EXCEPT ![w].st = "claiming"]
    /\ UNCHANGED <<gate, runner, calm, services>>

Acquired(w) ==
    /\ Asked("work", "claim") /\ slot["work"].cmd.on = w /\ Take("work")
    /\ lease' = CASE Ok("work") -> [lease EXCEPT ![w] = [st |-> "active",
                                                        ver |-> slot["work"].cmd.ver + 1]]
                  [] NotExecuted("work") -> Settled(w)
                  [] Unknown("work") -> Doubtful(w)
    /\ UNCHANGED <<gate, runner, calm, services>>

Renew(w) ==
    /\ runner.pc = "exec" /\ Held(w)
    /\ Vacant("work") /\ Put("work", Cmd("renew", store.ver, w, "running"))
    /\ lease' = [lease EXCEPT ![w].st = "renewing"]
    /\ UNCHANGED <<gate, runner, calm, services>>

Renewed(w) ==
    /\ Asked("work", "renew") /\ slot["work"].cmd.on = w /\ Take("work")
    /\ lease' = CASE Ok("work") -> [lease EXCEPT ![w] = [st |-> "active",
                                                        ver |-> slot["work"].cmd.ver + 1]]
                  [] NotExecuted("work") -> Retained(w)
                  [] Unknown("work") -> Doubtful(w)
    /\ UNCHANGED <<gate, runner, calm, services>>

\* submit_work_result: reserve the lease across the blocking call; the command
\* is built from the rows in the lease, not from the rows now.
Submit(a, w, result) ==
    /\ Held(w) /\ Vacant(a)
    /\ Put(a, Cmd("result", lease[w].ver, w, result))
    /\ lease' = [lease EXCEPT ![w].st = "ending"]

CompletionDisposition(a, w) ==
    CASE Ok(a) -> Settled(w)
      [] slot[a].ans = "refused" -> Retained(w)
      [] OTHER -> Doubtful(w)

Complete(w) ==
    /\ runner.pc = "exec"
    /\ \E r \in Results : Submit("work", w, r)
    /\ UNCHANGED <<gate, runner, calm, services>>

Completed(w) ==
    /\ Asked("work", "result") /\ slot["work"].cmd.on = w /\ Take("work")
    /\ lease' = CompletionDisposition("work", w)
    /\ UNCHANGED <<gate, runner, calm, services>>

(***************************************************************************)
(* The runner loop and its dependency tracker.                             *)
(***************************************************************************)
\* The statuses after node n took status s: a node is ready when nothing it
\* depends on is left.
Replaced(st, n, s) ==
    LET now == [st EXCEPT ![n] = s] IN
    [m \in Nodes |->
        IF now[m] \in {"blocked", "ready"}
          THEN IF \A d \in Deps[m] : now[d] = "succeeded" THEN "ready" ELSE "blocked"
          ELSE now[m]]

NextReady == LET i == CHOOSE i \in DOMAIN Order :
                        /\ runner.st[Order[i]] = "ready"
                        /\ \A j \in 1 .. i - 1 : runner.st[Order[j]] # "ready"
             IN Order[i]

\* The status of the scheduler state: failed, succeeded or active.
Active(st) == ~(\E n \in Nodes : st[n] = "failed") /\ \E n \in Nodes : st[n] # "succeeded"

StartNode == runner' = [pc |-> "exec", st |-> Replaced(runner.st, NextReady, "running")]
Report == runner' = [runner EXCEPT !.pc = "idle"]
lonely == <<store, late, faults, slot, gate, lease, cancelled, services>>

\* run(plan, state): from the beginning or from a reported frontier without an
\* active node.  A terminal frontier is reported as it is.
Invoke(st) ==
    /\ runner.pc = "idle"
    /\ st \in {Fresh, runner.st}
    /\ \A n \in Nodes : st[n] # "running"
    /\ Active(st)
    /\ runner' = [pc |-> "loop", st |-> st]
    /\ UNCHANGED <<lonely, token, client>>

Loop ==
    /\ runner.pc = "loop"
    /\ IF cancelled THEN Report
       ELSE IF token.req THEN runner' = [runner EXCEPT !.pc = "ack"]
       ELSE StartNode
    /\ UNCHANGED <<lonely, token, client>>

\* PauseToken._acknowledge_for_runner: claim the generation still requested.
Claimed ==
    /\ token' = [token EXCEPT !.ack = token.gen]
    /\ client' = [client EXCEPT !.proof = token.gen, !.acked = @ \cup {token.gen}]

\* The signal was seen; an abort may have cleared it before the claim.
Acknowledge ==
    /\ runner.pc = "ack"
    /\ IF token.req THEN Claimed /\ Report
                    ELSE StartNode /\ UNCHANGED <<token, client>>
    /\ UNCHANGED lonely

NodeWorks == {w \in Works : NodeOf[w] \in ActiveNode}
Ends(pc, s) ==
    \E n \in ActiveNode : runner' = [pc |-> pc, st |-> Replaced(runner.st, n, s)]
Returns == runner.pc = "exec" /\ Vacant("work") /\ UNCHANGED <<lonely, token, client>>

NodeSucceeded ==
    /\ Returns
    /\ \A w \in NodeWorks : store.work[w] \in TerminalWork \ {"failed"}
    /\ Ends(IF \A n \in Nodes \ ActiveNode : runner.st[n] = "succeeded" THEN "idle" ELSE "loop",
            "succeeded")

NodeFailed ==
    /\ Returns /\ \E w \in NodeWorks : store.work[w] = "failed"
    /\ Ends("idle", "failed")

\* A cancelled node stays active in the reported frontier.
NodeCancelled == Returns /\ cancelled /\ Report

\* The executor saw the pause at a checkpoint boundary; the signal may be gone.
NodePaused ==
    /\ Returns /\ token.gen > 0 /\ \A w \in NodeWorks : ~Held(w) /\ ~InFlight(w)
    /\ Ends(IF token.req THEN "yield" ELSE "idle", "ready")

Yield ==
    /\ runner.pc = "yield"
    /\ Report
    /\ IF token.req THEN Claimed ELSE UNCHANGED <<token, client>>
    /\ UNCHANGED lonely

\* The executor raised, or broke its contract: run() raises, the node stays active.
NodeRaised == Returns /\ Report

CloseRunner ==
    /\ runner.pc = "idle" /\ runner' = [runner EXCEPT !.pc = "closed"]
    /\ UNCHANGED <<lonely, token, client>>

(***************************************************************************)
(* The pause coordinator: two arrows each way, each with its own answer.   *)
(***************************************************************************)
quiet == <<store, late, faults, runner, cancelled>>
others == <<canceller, finalizer, scanner>>
Headroom(n) == store.ver <= MaxSequence - n
Pauses(pc) == pauser' = [pauser EXCEPT !.pc = pc]

RequestPause ==
    /\ pauser.pc = "idle" /\ ~pauser.res /\ gate = None
    /\ token.gen < MaxRequests
    /\ gate' = "pause"
    /\ token' = [gen |-> token.gen + 1, req |-> TRUE, ack |-> 0]
    /\ pauser' = [pauser EXCEPT !.res = TRUE, !.gen = token.gen + 1]
    /\ UNCHANGED <<quiet, slot, lease, client, others>>

\* snapshot_acknowledgement: the proof is the runner's, of this generation.
MutProofCurrent == token.req /\ token.gen = pauser.gen
ProofCurrent == token.req /\ token.gen = pauser.gen /\ token.ack = client.proof
                /\ client.proof = pauser.gen

BeginPause ==
    /\ pauser.pc = "idle" /\ pauser.res
    /\ ~pauser.paused /\ ~pauser.unc /\ ~pauser.mid
    /\ ProofCurrent /\ Drained /\ DurablyDrained
    /\ store.state = "running" /\ Headroom(2)
    /\ Pauses("pausing") /\ Put("pause", Arrow(store.ver, "pausing"))
    /\ UNCHANGED <<quiet, gate, lease, token, client, others>>

BeginResume ==
    /\ pauser.pc = "idle" /\ pauser.res
    /\ pauser.paused /\ ~pauser.unc /\ ~pauser.mid
    /\ Drained /\ DurablyDrained
    /\ store.state = "paused" /\ store.ver = pauser.ver /\ Headroom(2)
    /\ Pauses("resuming") /\ Put("pause", Arrow(store.ver, "resuming"))
    /\ UNCHANGED <<quiet, gate, lease, token, client, others>>

MutFirstArrow ==
    /\ pauser.pc \in {"pausing", "resuming"} /\ Asked("pause", "arrow")
    /\ IF Ok("pause")
         THEN /\ pauser' = [pauser EXCEPT !.mid = TRUE,
                                          !.pc = IF @ = "pausing" THEN "paused" ELSE "running"]
              /\ Put("pause", Arrow(slot["pause"].cmd.ver + 1,
                                    IF pauser.pc = "pausing" THEN "paused" ELSE "running"))
         ELSE pauser' = [pauser EXCEPT !.pc = "idle"] /\ Take("pause")
    /\ UNCHANGED <<quiet, gate, lease, token, client, others>>
\* The answer to the first arrow: the second one follows at once.
FirstArrow ==
    /\ pauser.pc \in {"pausing", "resuming"} /\ Asked("pause", "arrow")
    /\ IF Ok("pause")
         THEN /\ pauser' = [pauser EXCEPT !.mid = TRUE,
                                          !.pc = IF @ = "pausing" THEN "paused" ELSE "running"]
              /\ Put("pause", Arrow(slot["pause"].cmd.ver + 1,
                                    IF pauser.pc = "pausing" THEN "paused" ELSE "running"))
         ELSE /\ pauser' = [pauser EXCEPT !.pc = "idle", !.unc = Unknown("pause")]
              /\ Take("pause")
    /\ UNCHANGED <<quiet, gate, lease, token, client, others>>

SecondArrow ==
    /\ pauser.pc \in {"paused", "running"} /\ Asked("pause", "arrow") /\ Take("pause")
    /\ pauser' =
         CASE Ok("pause") /\ pauser.pc = "paused" ->
                [pauser EXCEPT !.pc = "idle", !.mid = FALSE, !.paused = TRUE,
                               !.ver = slot["pause"].cmd.ver + 1]
           [] Ok("pause") /\ pauser.pc = "running" -> [pauser EXCEPT !.pc = "clear"]
           [] OTHER -> [pauser EXCEPT !.pc = "idle", !.unc = Unknown("pause")]
    /\ UNCHANGED <<quiet, gate, lease, token, client, others>>

Unsignalled == [token EXCEPT !.req = FALSE, !.ack = 0]

\* clear_for_coordinator, after both arrows of the resume are durable.
ClearSignal ==
    /\ pauser.pc = "clear" /\ token.gen = pauser.gen
    /\ token' = Unsignalled
    /\ Pauses("open")
    /\ UNCHANGED <<quiet, slot, gate, lease, client, others>>

MutAbortPause ==
    /\ pauser.pc = "idle" /\ pauser.res
    /\ ~pauser.paused /\ ~pauser.mid /\ ~pauser.unc
    /\ token.gen = pauser.gen
    /\ token' = Unsignalled
    /\ client' = [client EXCEPT !.aborted = @ \cup {token.gen}]
    /\ Pauses("open")
    /\ UNCHANGED <<quiet, slot, gate, lease, others>>
\* abort_for_coordinator: only while the generation is not acknowledged.
AbortPause ==
    /\ pauser.pc = "idle" /\ pauser.res
    /\ ~pauser.paused /\ ~pauser.mid /\ ~pauser.unc
    /\ token.gen = pauser.gen /\ token.ack = 0
    /\ token' = Unsignalled
    /\ client' = [client EXCEPT !.aborted = @ \cup {token.gen}]
    /\ Pauses("open")
    /\ UNCHANGED <<quiet, slot, gate, lease, others>>

\* release_pause, then the coordinator forgets the request.
OpenGate ==
    /\ pauser.pc = "open" /\ gate = "pause"
    /\ gate' = None
    /\ pauser' = [pauser EXCEPT !.pc = "idle", !.res = FALSE, !.gen = 0, !.mid = FALSE,
                                !.unc = FALSE, !.paused = FALSE, !.ver = 0]
    /\ UNCHANGED <<quiet, slot, lease, token, client, others>>

(***************************************************************************)
(* The cancellation coordinator.                                           *)
(***************************************************************************)
still == <<store, late, faults, runner, token, client>>
bystanders == <<pauser, finalizer, scanner>>
Ready == canceller.pc = "idle" /\ canceller.res /\ ~canceller.unc /\ ~canceller.mid

RequestCancellation ==
    /\ canceller.pc = "idle" /\ ~canceller.done /\ ~canceller.res /\ gate = None
    /\ gate' = "cancel" /\ cancelled' = TRUE
    /\ canceller' = [canceller EXCEPT !.res = TRUE]
    /\ UNCHANGED <<still, slot, lease, bystanders>>

\* Commit the claim of an owned lease as cancelled.
CancelWork(w) ==
    /\ Ready /\ ~canceller.done
    /\ Submit("cancel", w, "cancelled")
    /\ canceller' = [canceller EXCEPT !.pc = "work", !.on = w]
    /\ UNCHANGED <<still, gate, cancelled, bystanders>>

WorkCancelled ==
    /\ canceller.pc = "work" /\ Asked("cancel", "result") /\ Take("cancel")
    /\ lease' = CompletionDisposition("cancel", canceller.on)
    /\ canceller' = [canceller EXCEPT !.pc = "idle", !.on = None]
    /\ UNCHANGED <<still, gate, cancelled, bystanders>>

\* release_pause; the registered resources are closed.
Released == /\ gate' = None
            /\ canceller' = [canceller EXCEPT !.pc = "idle", !.res = FALSE, !.mid = FALSE]

AlreadyCancelled ==
    /\ Ready /\ (canceller.done \/ store.state = "cancelled")
    /\ Released
    /\ UNCHANGED <<still, slot, lease, cancelled, bystanders>>

Cancel ==
    /\ Ready /\ ~canceller.done
    /\ store.state \in {"queued", "running", "cancelling"}
    /\ Drained /\ DurablyDrained
    /\ LET to == IF store.state = "running" THEN "cancelling" ELSE "cancelled" IN
          /\ Headroom(IF store.state = "running" THEN 2 ELSE 1)
          /\ canceller' = [canceller EXCEPT !.pc = to]
          /\ Put("cancel", Arrow(store.ver, to))
    /\ UNCHANGED <<still, gate, lease, cancelled, bystanders>>

CancelFails == canceller' = [canceller EXCEPT !.pc = "idle", !.unc = Unknown("cancel")]

Cancelling ==
    /\ canceller.pc = "cancelling" /\ Asked("cancel", "arrow")
    /\ IF Ok("cancel")
         THEN /\ canceller' = [canceller EXCEPT !.pc = "cancelled", !.mid = TRUE]
              /\ Put("cancel", Arrow(slot["cancel"].cmd.ver + 1, "cancelled"))
         ELSE CancelFails /\ Take("cancel")
    /\ UNCHANGED <<still, gate, lease, cancelled, bystanders>>

Cancelled ==
    /\ canceller.pc = "cancelled" /\ Asked("cancel", "arrow") /\ Take("cancel")
    /\ IF Ok("cancel")
         THEN canceller' = [canceller EXCEPT !.pc = "release", !.done = TRUE, !.mid = FALSE]
         ELSE CancelFails
    /\ UNCHANGED <<still, gate, lease, cancelled, bystanders>>

FinishTerminal ==
    /\ canceller.pc = "release" /\ Released
    /\ UNCHANGED <<still, slot, lease, cancelled, bystanders>>

(***************************************************************************)
(* The finalizer: derive the outcome from the rows it read, finalize the   *)
(* nodes without work one by one, then move the run.                       *)
(***************************************************************************)
passive == <<store, late, faults, gate, lease, runner, token, cancelled, client,
             pauser, canceller, scanner>>

MutWorkTerminal == DurablyDrained
WorkTerminal == \A w \in Works : store.work[w] \in TerminalWork
EmptyPending == EmptyNodes \ store.done

\* The execution-evidence fingerprint covers the work states.
Fingerprint == {<<w, store.work[w]>> : w \in Works}

DeriveOutcome ==
    IF \E w \in Works : InState(w, "failed") THEN "failed"
    ELSE IF \A w \in Works : InState(w, "succeeded") THEN "succeeded"
    ELSE "partially"

NextEmpty(todo) == CHOOSE n \in todo : TRUE

\* The next command of a finalization that has the empty nodes todo left.
Onward(todo, ver, to, print) ==
    IF todo = {} THEN [Arrow(ver, to) EXCEPT !.print = print]
                 ELSE Cmd("empty", ver, NextEmpty(todo), "succeeded")

FinalizeRunning ==
    /\ finalizer.pc = "idle" /\ ~finalizer.unc
    /\ store.state = "running" /\ WorkTerminal
    /\ Headroom(1 + Cardinality(EmptyPending))
    /\ LET print == IF DeriveOutcome = "failed" THEN {} ELSE Fingerprint IN
          /\ finalizer' = [pc |-> "wait", unc |-> FALSE, todo |-> EmptyPending,
                           to |-> DeriveOutcome, print |-> print]
          /\ Put("final", Onward(EmptyPending, store.ver, DeriveOutcome, print))
    /\ UNCHANGED passive

FinalizeStops == finalizer' = [NewFinalizer EXCEPT !.unc = Unknown("final")]

EmptyFinalized ==
    /\ Asked("final", "empty")
    /\ LET rest == finalizer.todo \ {slot["final"].cmd.on} IN
       IF Ok("final")
         THEN /\ finalizer' = [finalizer EXCEPT !.todo = rest]
              /\ Put("final", Onward(rest, slot["final"].cmd.ver + 1, finalizer.to,
                                     finalizer.print))
         ELSE FinalizeStops /\ Take("final")
    /\ UNCHANGED passive

RunFinalized ==
    /\ Asked("final", "arrow") /\ Take("final")
    /\ FinalizeStops
    /\ UNCHANGED passive

\* A finished run is replayed read-only: the evidence must still agree.
ReplaySuccess == IF store.print = Fingerprint THEN "already" ELSE "conflict"
ReplayFailure == IF DeriveOutcome = "failed" /\ store.print = {} THEN "already" ELSE "conflict"
ReplayCancelled == IF store.print = {} THEN "already" ELSE "conflict"

Replay ==
    IF ~WorkTerminal \/ (store.state # "cancelled" /\ EmptyPending # {}) THEN "unready"
    ELSE CASE store.state \in {"succeeded", "partially"} -> ReplaySuccess
           [] store.state = "failed" -> ReplayFailure
           [] store.state = "cancelled" -> ReplayCancelled

(***************************************************************************)
(* The startup recovery scanner: expired claims go back to RETRY_WAIT.     *)
(***************************************************************************)
audience == <<store, late, faults, gate, lease, runner, token, cancelled, client,
              pauser, canceller, finalizer>>
Reclaim(todo, ver) == LET w == CHOOSE w \in todo : TRUE IN Cmd("recover", ver, w, "pending")

\* A finished run with a surviving claim is ambiguous and is left alone.
Ambiguous == store.state \in Finished /\ RunningWork # {}

Recover(expired) ==
    /\ scanner.pc = "idle" /\ ~scanner.unc
    /\ expired # {} /\ ~Ambiguous /\ Headroom(Cardinality(expired))
    /\ scanner' = [scanner EXCEPT !.pc = "wait", !.todo = expired]
    /\ Put("scan", Reclaim(expired, store.ver))
    /\ UNCHANGED audience

Recovered ==
    /\ Asked("scan", "recover")
    /\ LET rest == scanner.todo \ {slot["scan"].cmd.on} IN
       IF Ok("scan") /\ rest # {}
         THEN /\ scanner' = [scanner EXCEPT !.todo = rest]
              /\ Put("scan", Reclaim(rest, slot["scan"].cmd.ver + 1))
         ELSE /\ scanner' = [pc |-> "idle", unc |-> Unknown("scan"), todo |-> {}]
              /\ Take("scan")
    /\ UNCHANGED audience

(***************************************************************************)
(* The specification.                                                      *)
(***************************************************************************)
Writing == \E a \in Callers : Execute(a)
Failing == \/ \E a \in Callers : Refuse(a) \/ Lose(a)
           \/ Crash

Leasing == \E w \in Works : \/ Acquire(w) \/ Acquired(w) \/ Renew(w) \/ Renewed(w)
                            \/ Complete(w) \/ Completed(w)

Stepping == Loop \/ Acknowledge \/ Yield
Returning == NodeSucceeded \/ NodeFailed \/ NodeCancelled \/ NodePaused \/ NodeRaised

Running == (\E st \in {Fresh, runner.st} : Invoke(st)) \/ Stepping \/ Returning \/ CloseRunner

Pausing == RequestPause \/ BeginPause \/ BeginResume \/ FirstArrow \/ SecondArrow
           \/ ClearSignal \/ AbortPause \/ OpenGate

Cancellation == \/ RequestCancellation \/ WorkCancelled \/ AlreadyCancelled
                \/ Cancel \/ Cancelling \/ Cancelled \/ FinishTerminal
                \/ \E w \in Works : CancelWork(w)

Finalization == FinalizeRunning \/ EmptyFinalized \/ RunFinalized

Scanning == Recovered \/ \E expired \in SUBSET RunningWork : Recover(expired)

Next == \/ Writing \/ Failing \/ StartRun
        \/ \E c \in late : Late(c)
        \/ Leasing \/ Running \/ Pausing \/ Cancellation \/ Finalization \/ Scanning

Spec == Init /\ [][Next]_vars

(***************************************************************************)
(* Properties.                                                             *)
(***************************************************************************)

\* The durable boundary of PauseCoordinator.pause, CancellationCoordinator.cancel
\* and RunFinalizer.finalize: once the run has left RUNNING, no work item is
\* claimed, whatever claims were in flight, lost or left by a dead process.
StoppedIsQuiet ==
    store.state \in PauseBound \cup Finished \cup {"cancelling"} => RunningWork = {}

\* While the coordinator that paused the run has not made its resume durable
\* (or does not know whether an arrow committed), no node of the runner is
\* active, however often run() is called: the signal outlives the pause.  And
\* the compare-and-set of PauseToken has one winner: a pause generation is
\* acknowledged by the runner or aborted by the coordinator, never both.
PausedRunnerIsIdle ==
    /\ (pauser.mid \/ pauser.paused \/ pauser.unc) /\ store.state \in PauseBound
          => ActiveNode = {}
    /\ client.acked \cap client.aborted = {}

\* What the coordinators keep in memory is durable: a paused-run proof names a
\* PAUSED run at its version, a completed cancellation names a CANCELLED run.
MemoryTellsTruth ==
    /\ pauser.paused /\ pauser.pc = "idle" /\ ~pauser.mid /\ ~pauser.unc
          => store.state = "paused" /\ store.ver = pauser.ver
    /\ canceller.done => store.state = "cancelled"

\* The outcome RunFinalizer derived from the rows it read is the outcome of
\* the rows it committed over, empty nodes included, and a replay agrees.
OutcomeTellsWork ==
    /\ store.state \in {"succeeded", "partially", "failed"} =>
          /\ \A w \in Works : store.work[w] \in TerminalWork
          /\ store.done = EmptyNodes
          /\ store.state = "failed" <=> \E w \in Works : InState(w, "failed")
          /\ store.state = "succeeded" <=> \A w \in Works : InState(w, "succeeded")
          /\ store.print = IF store.state = "failed" THEN {} ELSE Fingerprint
    /\ store.state \in Finished => Replay # "conflict"

\* Nothing changes the rows of a finished run: no command of another thread,
\* and none whose caller gave up on it.
FinishedIsFinal == [][store.state \in Finished => UNCHANGED store]_vars

=============================================================================
