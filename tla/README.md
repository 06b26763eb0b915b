# ParityGrid: TLA+ models and proofs

ParityGrid is a local data-reconciliation product. A planner turns a pipeline
specification into an execution plan; an execution engine runs the plan's
partitioned work through leases, attempts and checkpoints kept in SQLite; a
reconciliation core compares record streams; a repair workflow changes the
target; an HTTP API and a web client drive and observe all of it.

This directory models the parts whose correctness depends on the order of
events, checks them with TLC on small instances and proves the central facts
with TLAPS for every instance. Paths below are relative to
`src/src/paritygrid` unless they begin with `src/`.

## 1. The system

### 1.1 Parts, state, operations

| Part | Source | State it keeps | Operations | Correct when |
| --- | --- | --- | --- | --- |
| Scheduler frontier | `application/execution/concurrent_scheduler.py` | state, fence and retry instant of each work item, control state and generation, recovery reason | admission, result received, commit, retry, pause, resume, cancel, recovery, save, restore | work is released exactly behind its ancestors; what is saved can be restored; outcomes are final |
| Concurrent engine | `application/execution/concurrent_engine.py` | place in the parent loop, in-flight work, redispatch and retry counts | `run`, `resume`, `request_pause`, `abort_pause`, `request_cancellation` | it never runs ahead of the durable rows, ends every pass, loses nothing |
| Result coordinator | `application/execution/result_coordinator.py` | registered assignments, ambiguous work, admission stopped | register, submit a result | one durable outcome per claim; unknown outcomes stop the run |
| Lifecycle | `application/execution/concurrent_lifecycle.py` | pause signal (compare-and-set), last report | pause, resume, cancellation arrows | abort and acknowledgement have one winner; a pause is quiet |
| Lease service | `application/execution/leasing.py` | active, pending, unknown leases; pause gates | acquire, renew, complete, close and open admission | one owner per lease; unknown leases are not reused |
| Capacity | `application/execution/capacity.py` | per level: holders, free slots, FIFO of waiters; registered subordinates | acquire, release, by level or at once; subordinate acquire, release; close | slots are conserved; levels nest; nobody waits behind a caller that left |
| Channels | `application/execution/channels.py` | bounded buffers, closed flags | send, receive, close, blocking and asynchronous | accepted messages are delivered once |
| Worker strategies | `application/execution/*_strategy.py`, `adapters/runners` | worker threads, tasks, processes, interpreters | take an assignment, execute, send the result | every assignment yields one result |
| Transactional writer | `adapters/persistence/writer/core.py`, `notifications.py` | queue, waiters, active command, tickets, counters, notification buffer | submit, submit_async, execute, close | an answer tells the truth about the store; everybody is answered |
| Dispatch and repositories | `adapters/persistence/writer/dispatch.py`, `adapters/persistence/repositories` | run, node, work item, attempt and checkpoint rows | one transaction per command | histories contiguous and disjoint, leases honoured, node aggregates agree with their rows |
| Concurrent recovery | `application/execution/concurrent_recovery.py` | none beyond the rows and an ownership counter | scan, resolve expired leases, rebuild the frontier | only live leases stay in flight; the frontier tells the rows |
| Sequential runner | `application/execution/runner.py`, `scheduler.py` | dependency tracker, one invocation at a time, a continuation | run one node at a time to an outcome, a pause or a failure | memory never claims more than the rows; one node at a time |
| Sequential pause and cancellation | `application/execution/pause.py`, `cancellation.py` | tokens, coordinators, intermediate arrows | pause, abort, resume, cancel, each two durable arrows | a durably stopped run is quiet |
| Finalization | `application/execution/finalization.py` | none beyond the rows | derive the outcome, close empty nodes, finish, replay | the outcome tells the work; finished is final |
| Startup recovery | `application/execution/recovery.py` | none beyond the rows | classify, then requeue expired claims or fail closed | no effect is repeated and no evidence is overwritten |
| Run owners and controls | `runtime/execution_owners.py`, `runtime/run_controls.py` | phase, thread, gate, registry | start, pause, resume, cancel, close | one owner per run, bounded shutdown, nobody waits in a circle |
| Idempotency | `application/services/idempotency.py` | reservation rows | reserve, reclaim, complete, fail, replay | one stored response per key |
| Repair | `application/repair`, `application/services/repair.py` | summary, plan, action and verification rows, companion facts; the target's effect keys | persist, propose, approve, reject, apply, verify | each effect reaches the target once, only if approved, and is recorded as what happened |
| Reconciliation core | `domain/reconciliation`, `application/repair/planning.py`, `payloads.py`, `verification.py` | none: values | normalize, match, classify, show differences, plan, render, expect, verify | all these views of one record agree |
| Artifacts | `adapters/artifacts` | files, staging files, manifests | stage, sync, link, register, scan, stream | a manifest's bytes survive any power failure; a complete stream is the committed bytes |
| Events and streams | `adapters/persistence/repositories/execution_events.py`, `api/routers/stream.py`, `live.py` | per-run sequence | append, page, stream | no gap and no duplicate |
| Planner, policies, domain values, connectors, analytics, API, demo, web | as named | values and pure functions, or I/O | | |

`PROJECT.json` lists all of them with what is modelled of each.

### 1.2 Interactions

The engine's parent thread is the only caller of the scheduler, the lease
service and the coordinator. It admits work (claim through the writer, permits
from capacity, assignment into a bounded channel); workers take assignments and
send envelopes into a second bounded channel; the parent drains it and commits
each envelope through the coordinator, which asks the writer and, only on its
acknowledgement, tells the scheduler and returns the permits. Pause, abort and
cancellation are requested from other threads: the first two meet the parent in
a compare-and-set signal, the last in a token. The writer is one thread behind a
bounded queue; each command is one SQLite transaction over several repositories.
After a crash, recovery reads the rows, submits recovery commands for expired
leases and rebuilds a frontier.

The sequential path shares the lease service and the writer but not the
frontier: the runner asks the dependency tracker for the next node and calls an
executor, which claims, renews and completes through the lease service, while a
pause coordinator, a cancellation coordinator and, when all is over, the
finalizer submit their own commands.

From the outside, an HTTP request enters the idempotent boundary, which reserves
a key, calls the run service, and stores one response. The run service asks the
registry for the owner of the run under the gate of its slot; the owner talks to
the engine and waits for its pass with a deadline. Another thread retires the
owner of a terminal run, and the shutdown of the runtime closes all of them.

A completed run is reconciled; a repair plan is proposed from the outcomes,
approved by a person, applied against the target with idempotent upserts, and
verified against the inventory the plan promises.

### 1.3 What is hard

* results, rejections, rollbacks and lost answers arriving in any order;
* a pause, an abort, a resume or a cancellation between any two parent steps;
* full channels when something has to be requeued;
* deadlines of asynchronous submits racing the admission by the writer thread;
* a commit that raises after it became durable;
* commands that carry instants older than the rows they meet, and claims that
  come back after their attempt was recovered;
* an interrupted recovery that runs again;
* limiter calls that span two locks;
* a request that runs past the lease of its key and is repeated meanwhile;
* control requests, retirement and shutdown taking the same gate;
* transitions of two arrows with a crash or a lost answer between them;
* a target request that arrives after its sender gave up, and another system
  that writes to the target;
* a power failure between any two steps of a publication, another attempt that
  names the same path, a file edited while it is streamed;
* five places that must read one record in the same way.

The `hazards` of `PROJECT.json` give the lines and the properties for each.

## 2. Modules

| Module | Models | Variables and actions |
| --- | --- | --- |
| `Frontier` | `ConcurrentScheduler` | one variable per field, one action per public method; a method that raises changes nothing and is a disabled action |
| `Scheduler` | the same with `to_mapping`, `from_mapping`, `restore` | `saved`, `epoch`; `SaveFrontier`, `Restore` |
| `Engine` | `ConcurrentRunEngine.run` with coordinator, leases, permits, channels, workers, pause signal, lifecycle, durable rows | `pc` is the parent's place in `run()`; each parent action ends at the next call that other threads can interleave with or that can fail; `Disruptions` names what may go wrong |
| `DurableRun` | abstract specification: what the rows of a run promise | claim, complete, pause, resume, cancel |
| `Writer` | `SQLiteTransactionalWriter` and its notification buffer | every action is one critical section of the condition or one step of the open transaction; the database's outcome is a choice |
| `WorkRows` | `SqlAlchemyWorkItemRepository`, checkpoints, run transitions | rows, attempts, `issued` (every claim ever handed out, usable at any time) |
| `Ledger` | writer dispatch plus `run_node_aggregates.py` | each command changes work rows and the node aggregate in one step; a node whose recomputation disagrees with its rows joins `corrupt` |
| `Recovery` | `ConcurrentRecoveryService` over `WorkRows` and `Frontier`'s validity checks | live steps until the process stops; `Scan`, `ResolveExpired`, `Rebuild`, interruption anywhere |
| `Capacity` | `ScheduledWorkLimiters` and one `SubordinateCallLimiter` | a ledger per level; a call that waits is asleep or awake; calls that span the two locks take two steps |
| `Idempotency` | `IdempotentCommandService.execute` over the reservation rows | one place per request; `Reclaim`, `Replay`, `Store`, `Terminalize` are one transaction each; the handler between them is supplied by the module that extends it |
| `RunControl` | run lifecycle service, control registry, run owner, under `Idempotency` | the registry's slot and gate, the owner's phase, the engine's pass and reports, the retiring and the closing thread; a bounded wait may give up when `Deadlines` |
| `Sequential` | runner, tracker, lease service, pause, cancellation, finalizer, recovery scanner on one run | `store` holds the rows, `slot` one pending command per caller, `late` those whose caller gave up; each caller is a state machine of its own |
| `Repair` | repair services, their commands at the writer, the rows and companion facts, the warehouse target | `call` is one service call each, `wire` the requests on their way, `facts` every commit in order |
| `RepairPromise` | abstract specification: what the workflow promises about one plan | propose, decide, begin, try, land, record |
| `Artifacts` | artifact writer, manifests, verified streams, integrity scan, recovery's classification of what it finds | `at` is the attempt's thread, `data`/`entry`/`staging` the bytes and names with what is on disk, `made` the directories, `manifest` the committed rows |
| `Reconcile` | normalization, matching, classification, differences, planning, rendering, preconditions, verification | no variables: pure definitions, the subject of the second half of `Repair_proofs` |

`MC*` modules name the small plans, the symmetry sets and the bounds;
`*_proofs` modules hold the theorems. `Engine` and `Scheduler` extend `Frontier`,
`Ledger` and `Recovery` extend `WorkRows`, `RunControl` extends `Idempotency`.
`Engine` instantiates `DurableRun` and `Repair` instantiates `RepairPromise`; each is
a refinement that TLC checks on an instance and that is proved step by step.
`Engine` and `RunControl` are built from the actions of `Frontier` and
`Idempotency`, so that they keep to them is no property; what the engine has to
get right is stated as `NoStepHalfAccepted`.

Abstractions used throughout. Identities, fingerprints, payloads, wording and
telemetry are left out. A command built on a stale row version is refused
without effect and so is no step, except where the refusal itself has
consequences for its caller (`Sequential`, `Repair`). Integers that the code
bounds keep their bound as a constant (`MaxFence`, `MaxInteger`, `MaxSubmission`,
`MaxSequence`). Instants come from an injected clock that only moves forward and
stops at `MaxInstant`; where only the order of instants matters they are
generations (`Idempotency`) or stamps (`Repair`).

Choices that are particular to one module:

* `RunControl` has the engine as the arrows of `DurableRun` plus what `run()` may
  return; a pass can raise, report a failure or end quietly at any point. Several
  runs at a time share only the registry's lock, so one is modelled.
* `Sequential` lets the executor return anything its contract allows, or raise,
  at any point; the run's row version, event sequence and event counter advance
  together and are one number.
* `Repair` lets the writer take the commands of different calls in any order,
  which includes the order of the queue. A target request of a caller that timed
  out stays on the wire and may arrive at any later time.
* `Artifacts` takes the paths from the callers: nothing in the code keeps two
  callers from naming the same one, so the instance lets them. `Way` gives the
  directories down to a path. `_prepare_parent` makes the missing ones, which are
  `"new"` until something syncs their names; `_sync_directory` syncs the names in the
  immediate parent only, so a power failure may take a new directory with all in it.
  An edit that keeps size, inode and modification time is out of the model, as no check
  could see it. The integrity scan is one step, since startup owns the store.
* `Reconcile` writes a text as its canonical value with a mark for any other
  spelling of it; connector identities, secondary evidence and fingerprints take
  no part in any of the comparisons.

## 3. What the runs check

| Run | Instance | Shows |
| --- | --- | --- |
| `Scheduler_restart` | three nodes, a join with an ancestor behind its predecessor, fences and generations to 3, retry instants to 4, two restarts | work leaves `blocked` only behind all its ancestors; a saved frontier is refused for a retry instant beyond the fence bound and for nothing else |
| `Engine_chain` | one node behind another, one worker, all seven disruptions, one pause | capacity, frontier, gate and pause invariants; no stall; no step of the parent is accepted by one component and refused by another; the rows implement `DurableRun`; every pass ends |
| `Engine_pair` | two partitions, two workers, channels of one slot | no assignment or result is lost, duplicated or untracked; a pulled result is always current |
| `Writer_clients` | three clients, two asynchronous, queue 1, one waiter, two notifications, contention twice, identities run out after 2 | `snapshot()` never raises; answers tell the truth and refused commands never run; notifications follow the commits in order; a stopped writer leaves nobody; everybody is answered |
| `Ledger_nodes` | two work items of one node, instants 0 to 3, versions to 4 | drift is reported of no node but one that ended empty before; nodes span their work; histories disjoint; leases honoured |
| `Recovery_interrupted` | two independent work items, both lease policies | after any interruptions only live leases are in flight and the rebuilt frontier tells the rows |
| `Capacity_waits` | three owners, two nodes, limits 2, 2, 1, 1 | slots conserved, queues agree on their order, subordinate slots backed by a reservation and registered |
| `Control_requests` | a pause, its retry under the same key, a resume or cancellation; one crash | one answer per key; a clean shutdown leaves no pass; every request is answered and a terminal owner leaves |
| `Repair_workflow` | two actions, three calls of two or three kinds each, two faults | one effect and one record per key; verified parity was true at one moment; the workflow keeps `RepairPromise` |
| `Sequential_run` | a node with work and a node without behind it, two pause generations, one fault, versions to 8 | a durably stopped run is quiet; a paused runner is idle; memory and outcome agree with the rows; finished is final |
| `Artifacts_publish` | two work items on one path in a directory made for it, two attempts each, two failing calls (of the publication, its cleanup, the registration or the recovery), two power failures, one damaged file | manifests keep their bytes, or their directory is lost and nothing runs; work handed out again left nothing behind; a stream read to its end gave the committed bytes |
| `Recovery_ready_work` | two work items in a chain | refuted, see section 6 |

`Engine_chain`, `Ledger_nodes`, `Control_requests`, `Repair_workflow`,
`Sequential_run` and `Artifacts_publish` take between one and three minutes with two
workers, the others less.

### Bounds and why they are enough

Two work items and two nodes give a barrier, a concurrent pair and a finished
one beside a running one; three nodes give a join and a transitive ancestor. One
redispatch, one writer retry and two attempts each reach both the granted and
the exhausted branch. Channels of one slot are full as soon as one message waits;
channels of two let requeues succeed. Instants 0 to 3 give before, at and after a
lease's expiry, and a renewal of a lease that recovery may judge by then. Row versions to 4 and identities to 2 reach their limits. One
pause is enough for an abort, a lost acknowledgement, a durable pause, a failed
and a successful resume; generations of several pauses are covered by the proofs.

* *Writer*: a queue of one is full while a command runs, so the third client
  waits or is refused; two identities make the third submission meet the limit.
* *Control*: two requests under one key give a replay, a concurrent retry and a
  takeover after a crash; the third, without a key, is the opposite control. Keys
  do not interact, conflicting bodies are covered by the proof.
* *Repair*: three calls meet as two appliers, as an applier and a verifier, or as
  two decisions; the third call is the second one sent again or one of its own.
  Two faults pair a lost answer with a crash, a late request with a foreign write.
* *Sequential*: a node with work and an empty one behind it need the tracker, the
  barrier and the closing of empty nodes. `MaxSequence` 8 lets a full run with a
  pause and a resume finish and also meets the limit of the sequence, where the
  headroom checks act.
* *Artifacts*: two work items under one name are each other's orphan; two power
  failures let the recovery itself be interrupted. One directory is enough to be made,
  synced or lost; that syncing a parent keeps the directories in it matters for nested
  ones only, which the proof covers.

Constraints. `RunBound` leaves out run states that gate nothing more than the
ones kept; in `Capacity_waits`, `WaitBound` keeps subordinate waits to the
latest deadline and lets one limiter close, the proofs cover the rest. Deadlock
checking is off because all these systems may stop: a run reaches its end, a
writer closes, a bounded clock runs out, a crash or fault budget is used up with
expired claims left, and an ambiguous recovery waits for an operator.

Symmetry is used only in runs without liveness properties and over values no
definition distinguishes.

Inline execution (`StrategyMode` without workers) takes the same parent steps
with a worker step at one fixed place, so its behaviours are among the pooled
ones. The branch of `_commit_envelope` for untracked results is not modelled as
an action: `ResultsAreCurrent` shows it is never taken. Likewise the branches of
`applier._begin` that replay an applied or failed plan and the "unchanged" answer
of the target have no action that reaches them.

### Fairness

`Engine!FairSpec`: the parent thread, each worker and the clock are weakly fair.
The parent is a thread in a loop of bounded waits, a worker's operation is
assumed to return (the strategies bound it by the assignment's deadline), time
passes. No request and no failure is fair. `Writer!FairSpec`: the writer thread
and clients that were woken are weakly fair; neither a deadline, a start nor a
close is assumed ever to happen, so liveness does not rest on timeouts.
`RunControl!FairSpec`: the threads of requests, of retirement and of shutdown and
the engine's pass are weakly fair, since each is a thread of its own; that a wait
reaches its deadline (`GiveUp`, `CloseGivesUp`) is not assumed, so
`RequestsAnsweredOwnersRetired` says that nobody waits in a circle even if no
deadline ever passes.

`Sequential` and `Artifacts` state no liveness: an executor may always raise and
a claim may always expire, and the code promises no more. For `Repair`, progress
would hold only because the fault budget ends, so it is not stated.

## 4. What is proved

All theorems hold for every value of the constants that satisfies the named
assumptions. These are what the code establishes before the modelled calls run:

* a plan (`PlanAssumption` of `Frontier`): edges join plan nodes, no self-loop, a
  work item per node, a positive fence bound. `AcyclicAssumption`: the scheduler
  refuses a cyclic plan (`concurrent_scheduler.py:1038`). Only `NeverStalled` needs it;
* a finite pool and a fence range with room for the attempts and the pauses
  (`EngineAssumption`), any persisted-integer bound (`RowsAssumption`), finitely many
  work items, each of one node (`LedgerAssumption`, `NodeAssumption`), the two recovery
  policies of the code (`RecoveryAssumption`), any positive limits
  (`CapacityAssumption`, `WriterAssumption`), attempts that write under any names
  (`ArtifactAssumption`);
* requests with any keys (`IdempotencyAssumption`), told apart from the threads that
  close owners (`ControlAssumption`);
* any calls, actions and positive attempt bounds of a repair, with `None` a sentinel
  that is neither a number nor an analysis (`RepairAssumption`);
* a sequential plan whose order is topological, and executors whose results end the
  work item or leave it to be claimed again, as the transitions out of `running`
  allow (`states.py:104`; `PlanAssumption` of `Sequential`).

By component:

* **Scheduler** (`Engine_proofs`, first part). The invariant is the
  code's own validation of a frontier: fences exactly on in-flight work, waits
  exactly on waiting work, a reason exactly in recovery, and a barrier open
  exactly when every predecessor succeeded. The step that matters is
  `CommitKeepsBarriers`: a commit can open barriers and no other call may, so
  release after a commit must find exactly the nodes the commit completed.
  `AncestorsSucceeded` follows without an induction over paths: ancestors are
  the least set closed under predecessors, and the nodes whose work all
  succeeded are such a set once the barriers hold. So the fields
  never disagree, and `FrontierRefusedOnlyForLateRetry` says exactly when a saved
  frontier is refused: when work waits for a retry later than the fence bound, which
  real instants are (section 6).
* **Engine** (`Engine_proofs`, second part). Two inductive invariants, the second over the first.
  `IInv` ties the views of a work item together (scheduler state, registration,
  lease, durable row) with the two ways they may differ, an ambiguous commit and an
  unknown claim; it also says which control state and which run state each place of
  the parent loop implies (`ParentOK`, `RunOK`) and that row versions leave room for
  the attempts still granted (`VersionOK`). Registry,
  leases and scheduler hold the same work under the same fences, but for an unknown
  claim or commit, which has ended the pass (`RetiredOK`). It gives the
  types, permits, gate, the refinement, and `StepsNeverHalfAccepted`: the parent
  writes to scheduler, registry, leases and store one after another, and none of
  them refuses what an earlier one took. `RowsImplementDurableRun` follows because admission checks the
  frontier, the frontier follows the store, and a quiet frontier at a pause means
  no running row.
  `MInv` follows the messages. While the pass delivers, every tracked work item has
  one message, in the assignment channel, at a worker, in the result channel or in
  the parent's hand, and no other work has any (`TokensOK`); what the parent commits
  is tracked under its fence (`CurrentOK`); at a durable pause nothing is tracked,
  queued or executed (`BoundaryOK`); and work of a node without predecessors is never
  blocked (`SourcesOK`). Hence `OnePlacePerWork`, `ResultsAreCurrent` and
  `PausedIsQuiet`. `NeverStalls` takes a minimal node of the plan that has not
  succeeded: its barrier is open, so it is ready, waiting, in flight or final.
* **Rows and aggregates** (`Ledger_proofs`). Of the rows neither contiguity nor
  disjointness is inductive alone: the invariant says what a row in each state knows
  of its history (`HistoryOK`), and what every claim ever issued still implies
  (`ClaimOK`: a claim that matches its row is the current one, an expired
  attempt's claims have run out). Of the aggregates `LedgerInv` says that a
  node's counters are the sums over its rows, its status the one they imply, its start
  the earliest of their attempts and its finish no earlier than any of them (`NodeOK`),
  so that the checks of the prior never fail but on a node that ended empty
  (`DriftReportedOnlyOfEndedEmpty`; section 6). The proof needs sums and least
  and greatest elements over finite sets of rows, one row of which changes.
  `LedgerKeepsRows` shows that `Ledger` is `WorkRows` with aggregates, so what is
  proved of the rows alone holds of both.
* **Recovery** (the end of `Ledger_proofs`). Every step of `Recovery`, of the process
  that stopped as of the one that recovers, is a step of `WorkRows` or leaves the rows
  alone (`RecoveryRows`), so what is proved of the rows holds through interrupted and
  repeated recoveries (`RecoveryKeepsRows`). `RecoveryInv` adds that only waiting rows
  carry a retry instant (`RetryOK`), that a row still running after the classification
  is to be resolved or has a lease beyond the scan (`Excused`), and that a frontier, once
  built, is the one these rows give. Hence `OnlyLiveLeases` and `FrontierAsRows`.
* **Artifacts** (`Artifacts_proofs`). The invariant follows a file through its
  publication: bytes on the disk before the name, the name before the manifest
  (`FilesOK`), no thread without running work (`ThreadsOK`), nothing left of an attempt
  whose work was handed out again (`RequeuedOK`), and a file that differs from the one
  a reader opened shows it (`StreamOK`). `DirsOK` says that the
  directories on the way to a file, published or being staged, exist, so that a loss
  shows as a missing directory. `ManifestsAreHonoured` then
  holds without a hypothesis: the bytes are there, or a directory is lost and the
  process is down or refuses to start.
* **Writer** (`Writer_proofs`). Identities are given in the order of admission, so the
  invariant places every command by its identity: the queue holds the last ones without a
  gap, the active command has the one before, everything in the log and in the
  notification buffer an earlier one (`QueueOK`, `LogOK`, `NoticesOK`). That makes a
  command commit once and in order, and it tells a queued command, which the failure path
  may answer with `not_executed`, from a committed one. What clients know agrees with
  their place in the line (`ClientsOK`); `AdmissionAgrees` shows that letting waiters in
  keeps this, for a client that enters the line and for the thread that frees a place
  alike, also when identities run out. All four invariants of `Writer_clients` follow.
* **Capacity** (`Capacity_proofs`). A grant is safe only for an owner without a
  slot, so the accounting (`Books`) is strengthened by what a caller in
  progress holds: it is queued at the three levels of its reservation and holds
  nothing (`Waiting`), reservations nest (`Nested`), and a subordinate call
  between its two locks holds its slot and is not registered (`SubOK`). The
  waiters' queues are lists, so removing a waiter has a lemma of its own.
  `OneOrder`: two callers that meet in two queues stand in the same order in both,
  so no two of them wait for each other.
* **Idempotency and run controls** (`RunControl_proofs`). `OneAnswer`: all clients
  that get a logical response for a key get the same one, also when a handler
  outlives its lease, the key is taken over and both finish. Inductive with it: a
  response that was given is the one the row keeps (`AnswersStored`), and the
  handlers of one key hold different generations, none newer than the row
  (`LeasesOrdered`), so that storing compares against the generation of one handler
  only. This is about `BoundarySpec`, whose handler is arbitrary;
  that the control service is such a handler is a lemma on its steps
  (`ControlsAreHandlers`), hence `ControlsAnswerOnce`. `ShutdownIsClean` rests on what the gate, the owner's
  phase, the slot of the registry and the places of the closing threads say of each
  other (`ControlInv`).
* **Repair** (`Repair_proofs`, first half). `RepairInv` says that what
  each call remembers and what its pending command asserts is true of the target and
  of what was tried (`CallsTrue`), that an effect was tried before it landed, a trial
  belongs to a begun plan and the rows tell what landed (`PromiseInv`), that the
  version in which a record was repaired is the one its idempotency key names
  (`KeysTell`), that a verified inventory was the target's at one moment (`ParityInv`),
  and that the committed facts count what the rows went through (`FactsTell`). It gives `OneEffect` and `ParityIsTrue`. Each step of the workflow
  is a step of `RepairPromise` or a stutter (`RepairImplementsPromise`), so the
  promises of the abstract workflow, no effect without an approved and begun plan and
  records that are true, hold of the real one with its writer, target and crashes
  (`Authorised`, `TrueRecords`).
* **Reconciliation** (`Repair_proofs`, second half), about values rather than
  behaviours, for any contracts of the fields. `AcceptedSound` characterises the
  observations that normalization accepts by their fields, in spite of the order in
  which the code looks for quarantine markers. From it: the differences shown for two
  records are empty exactly when the classification finds no mismatch
  (`DifferencesTellMismatch`); what a repair writes is accepted when it is read
  back and has the same content (`RenderedAccepted`), and the target's
  precondition holds for a record in the program's own spelling
  (`CanonicalRendered`), so the writes of a plan are all taken and lead to the
  inventory the verifier expects (`RepairReachesExpected`); and when the verifier
  finds parity, however the target got there, a second reconciliation finds
  nothing to repair (`ParityMeansMatch`). The hypotheses are in the statements: a
  strict order of attribute keys, a target that keeps one record per SKU,
  `RepairKey` mapping every SKU to a valid key (`repair:` and at most 64 ASCII
  characters, within the 128 that a key may have). `Reconcile` has no behaviour and so no
  run; its definitions were evaluated on small sets of values, and section 6 says
  what the theorems need their hypotheses for.
* **Sequential path** (`Sequential_proofs`). Commands sit at the writer while their
  callers wait, give up or die, so the invariant `SInv` is about them first: every
  command that may still commit, in a slot or late, was right for the row version it
  names (`Shaped`, `Timely`), and since versions only grow a stale one cannot commit.
  Around that: what a stopped run's rows look like (`RowsClosed`), which caller
  can have which command at the writer (`OwnedOK`), which signal and acknowledgement the pause coordinator holds at
  each place (`PauserOK`, `TokenOK`), what the coordinators remember (`PausedOK`,
  `CancelOK`), and that a finalization that can still commit derived the outcome of
  the present rows (`FinalOK`). All five properties of `Sequential_run` follow, for
  any plan, any number of pauses, faults and restarts.

Some listed theorems state facts that no run repeats (types, contiguous
histories, terminal rows, nested reservations, subordinates under their parents,
one owner per lease, final outcomes): the proof covers all instances.

Three places of the models were changed because a proof failed there. In `Repair` the
last disposition of a call, `failed`, was also the name of the place where the command
`failed` is submitted; it is now `reported`. `OnePlacePerWork` counted the last message
of an idle worker. `Sequential` let an executor return any result, where the transition
table allows only those of `PlanAssumption`. A client of `Writer` now leaves the line by
removing the first of its entries, as `deque.remove` does, where the model removed all:
the invariant shows that there is only one.

## 5. What is only model-checked

Liveness (`PassEnds`, `EveryoneIsAnswered`, `RequestsAnsweredOwnersRetired`) is out
of the prover's reach, as is everything about `ENABLED`; these properties are checked
under the fairness of section 3. Every safety property of a passing run has its
theorem.

## 6. What was found

A run that TLC refutes, stating a sentence of the repository:
`Recovery_ready_work`. Recovery maps pending work to blocked whatever its
predecessors did, so the frontier of a run that stopped between a node's success
and the next claim is refused as corrupt (`concurrent_recovery.py:684`).

Other statements of the repository that its code refutes. They are definitions of
the modules named, or a part of one taken away, and TLC finds the counterexample
when they are added to the run mentioned:

* `Scheduler!SavedFrontierRestorable` in `Scheduler_restart`: the decoder of a saved
  frontier bounds retry instants by the fence bound, 2^31-1
  (`concurrent_scheduler.py:1269`), where the scheduler accepts them to 2^53-1, so a
  retry wait at a real epoch microsecond is handed out and cannot be decoded. The
  documents promise "exact serialization round trips" (`src/docs/PHASE_STATUS.md:136`)
  and a frontier that round-trips its retry waits (`src/docs/WORK_PACKAGES.md:179`).
  `RefusedOnlyForLateRetry` is what does hold.
* `Ledger!NeverCorrupt` in `Ledger_nodes`: `finalize_empty` validates the prior before
  it looks at the node's status (`run_node_aggregates.py:246`). No work implies
  pending to that check, which a node that ended empty is no longer, so repeating
  the command with the current row version reports the sound row as corrupt, and a
  corruption report stops the writer. `DriftOnlyOfEndedEmpty` is what does hold.
* `Engine!UnknownOutcomeReported` in `Engine_chain`: the coordinator already marked
  the scheduler recovery-required when the engine marks it again; the second call
  raises out of `run()`, so no report is returned and nothing is shut down
  (`concurrent_engine.py:838`).
* `Engine!CancelledRunIsDrained` in `Engine_chain`: a synthesized cancelled result
  whose commit rolls back is requeued, nothing drains the channel again, and the
  run is durably cancelled around a running work item (`concurrent_engine.py:871`,
  against the promises at line 18 and at `concurrent_lifecycle.py:467`).
* `RunControl!UnavailableMeansUnchanged` in `Control_requests`: a control answered
  with "the durable run was not changed" (`application/services/runs.py:383`) may
  have changed it, as when a wait gives up after the engine's arrow was durable.
* `Repair!LostReceiptsRecover` in `Repair_workflow`: attempts of one action under
  one correlation leave audit entries that `match_exact` cannot tell apart, so the
  replay of a retry whose receipt was lost is reported as corruption of the audit.
* `Repair!FailedHasNoEffect` in `Repair_workflow`: ambiguous replies and retryable
  failures share one attempt counter, so an effect that reached the target, or
  still will, is recorded as failed (`applier.py:441`).
* `ManifestsHonoured` of `Artifacts_publish` without its disjunct `Lost(w)`:
  `_prepare_parent` (`writer.py:136`) makes directories and only the immediate parent
  of the file is synced (`writer.py:84`), so a power failure can take a new directory,
  such as that of a new partition, with the bytes of a committed manifest in it.
  What holds is that nothing runs on such a store: recovery stays ambiguous.
* `Reconcile`: the precondition of an update is a digest of the stored payload as
  it is spelled (`ports/connectors.py:949`, "portable business state") compared
  with one of the re-rendered record. For an equal record in another spelling,
  such as an offset instead of UTC, every update is refused. Hence the hypothesis `Canonical` of
  `RepairReachesExpected`.
* `Reconcile`: a target record that is quarantined is classified as missing from
  the target, and the creation planned for it is always refused because the key
  is not absent. Hence the hypothesis that the target's records are accepted.
* `Reconcile!Raises`: a quantity outside 64 bits raises while it is projected and
  fails the whole batch, where `normalization.py:7` says that quarantined
  observations "never block valid work". A negative price is quarantined under the
  field `record`.

Behaviours the models have and that are worth knowing:

* Cancellation closes the assignment channel before the last results are
  drained; redispatching a rejected one then raises out of `run()` and the run
  stays `cancelling` (`concurrent_engine.py:858`).
* Under the policy to wait for expiry, recovery neither waits nor resolves the
  live lease; the frontier is rebuilt around it (`concurrent_recovery.py:415`).
* A waiter that wakes and is not first in line sleeps again; when the one ahead
  is granted or leaves nobody is notified, so it may sleep over free capacity
  until its deadline (`capacity.py:422`).
* A result observed exactly at its lease's expiry passes the coordinator and is
  refused by the repository (`result_coordinator.py:937`).
* A paused run cannot be cancelled through its owner: it answers that it is busy
  (503), although no pass runs.
* When the engine raises while its owner is closed, its cleanup is skipped for
  good; the comment that shutdown "retries every closer" (`execution_owners.py:339`)
  does not hold, since the owner already counts as closed.
* After a crash nothing takes a run out of `pausing`, `paused` or `resuming` on
  the sequential path. A second arrow that fails leaves `_intermediate` set, so the
  same coordinator never tries again; an acknowledged pause that can no longer
  complete can neither be completed nor aborted and its gate stays closed.
* Results are fenced with the run version captured at the claim, so any other
  commit of the run in between refuses the result and leaves its lease unknown.
* Finalization of a cancelled run with untouched pending work raises
  `FinalizationNotReady`, although `cancellation.py:281` calls such rows normal.
* An attempt that fails after publishing leaves its path taken: later attempts of
  the same process always meet `ArtifactAlreadyExistsError`. An orphan or a left
  staging file makes the startup recovery of every run ambiguous until an
  operator acts, as the recovery fails closed for the whole store.
* `verification.py:166` says that parity compares exact observed records; the
  encoding that is compared leaves the provenance key out.

## 7. Not modelled, and the plan

Partly modelled, and what is missing:

* *Engine*: closing its resources in order (`cleanup.py`); `RunControl` has it as a
  step that may fail. *Channels and strategies*: the asyncio worker that gives up
  sending its result after eight yields (`asyncio_strategy.py:244`), the process
  and interpreter pools.
* *Sequential pause and cancellation*: registered resources and their clean-up,
  and interrupts (`BaseException`) between two statements. *Finalization*: the
  analytics projection and the consistency checks of the evidence it reads.
  *Startup recovery*: the checks of event and checkpoint frontiers, of node
  aggregates and of idempotency rows.
* *Reconciliation*: run summaries, secondary evidence, groups of duplicates, key
  collisions and fingerprints.
* *Repair*: the analytical summary and the read services.

Next, most exposed first: `EventStream` (pages read in separate transactions while
events are appended, and their cursors across a restart); the lease service with
several executors; the asynchronous channel; `Ledger` as the store behind
`Engine`'s rows, shown to implement `DurableRun`.

Left out for good: SQL text and migrations (a transaction is atomic in the
models), connectors to external sources and analytics (I/O and rebuildable read
models), retry, clock and rate policies (arithmetic over one attempt; the models
choose the instant freely), domain values and byte encodings, planner graph
functions (the models take any plan), API schemas and composition. The demo, its
scenarios and the quality and performance harnesses are about a quarter of the
source by lines; they drive the parts above and hold no state of their own that
outlives a call. Together with port definitions, dataclasses and the validation of
their fields they are the larger part of the code, and no statement about their
order of events is there to be modelled.
