------------------------------- MODULE Ledger -------------------------------
(***************************************************************************)
(* The durable commands of a run as the writer dispatches them: each one   *)
(* mutates a work row (WorkRows) and, in the same transaction, the         *)
(* aggregate of the node that owns the work                                *)
(* (adapters/persistence/repositories/run_node_aggregates.py).             *)
(*                                                                         *)
(* The aggregate repository recomputes a snapshot of the node from all its *)
(* rows after the mutation, undoes the command on it, and insists that the *)
(* result is what the aggregate stored: a difference is reported as        *)
(* corruption, which the writer does not survive.  The model records which *)
(* node was reported in corrupt and stops there.  The revisions of the node, of the   *)
(* run and of the event counter only refuse commands built on an earlier   *)
(* state, and are left out like such commands.                             *)
(***************************************************************************)
EXTENDS WorkRows, FiniteSetsExt

ASSUME LedgerAssumption == IsFiniteSet(Work)

VARIABLES
    node,          \* run_nodes
    corrupt        \* the nodes for which a command raised ExecutionCorruptionError

vars == <<rows, now, node, corrupt>>

Buckets == {"pending", "running", "succeeded", "quarantined", "failed", "cancelled"}
Statuses == {"pending", "running", "succeeded", "partially_succeeded", "failed", "cancelled"}
TerminalStatuses == Statuses \ {"pending", "running"}
Retries == {"retry_wait", "lease_expired"}

\* _bucket_name.
Bucket(state) == IF state = "retry_wait" THEN "pending" ELSE state

NoWork == [total |-> 0, bucket |-> [b \in Buckets |-> 0], retries |-> 0, duration |-> 0]

\* The work rows of node n among r, the attempts recorded for them in a, and the
\* instants at which their attempts started and ended.
WorksOf(n, r) == {w \in Work : NodeOf[w] = n /\ r[w].state # "absent"}
EndedOf(n, r, a) == UNION {{<<w, i>> : i \in DOMAIN a[w]} : w \in WorksOf(n, r)}
StartsOf(n, r, a) ==
    {a[x[1]][x[2]].started : x \in EndedOf(n, r, a)} \cup
    {r[w].started : w \in {v \in WorksOf(n, r) : r[v].state = "running"}}
FinishesOf(n, r, a) == {a[x[1]][x[2]].finished : x \in EndedOf(n, r, a)}

\* _snapshot of node n over work rows r and histories a.
Snapshot(n, r, a) ==
    LET works == WorksOf(n, r)
        ended == EndedOf(n, r, a)
        starts == StartsOf(n, r, a)
        finishes == FinishesOf(n, r, a)
    IN  [work |-> [total |-> Cardinality(works),
                   bucket |-> [b \in Buckets |-> Cardinality({w \in works : Bucket(r[w].state) = b})],
                   retries |-> Cardinality({x \in ended : a[x[1]][x[2]].outcome \in Retries}),
                   duration |-> SumFunction([x \in ended |->
                                   a[x[1]][x[2]].finished - a[x[1]][x[2]].started])],
         earliest |-> IF starts = {} THEN None ELSE Min(starts),
         latest |-> IF finishes = {} THEN None ELSE Max(finishes)]

\* _status_for.
StatusFor(s, started) ==
    LET b == s.bucket IN
    CASE s.total = 0 -> "pending"
      [] s.total > 0 /\ b["pending"] + b["running"] > 0 ->
            IF started THEN "running" ELSE "pending"
      [] s.total > 0 /\ b["pending"] + b["running"] = 0 ->
            CASE b["failed"] > 0 -> "failed"
              [] b["failed"] = 0 /\ b["cancelled"] = s.total -> "cancelled"
              [] b["failed"] = 0 /\ b["cancelled"] # s.total ->
                    IF b["quarantined"] + b["cancelled"] > 0
                    THEN "partially_succeeded" ELSE "succeeded"

\* reverse_registration, reverse_claim and reverse_attempt, in that order.
UndoRegistration(s) == [s EXCEPT !.total = @ - 1, !.bucket["pending"] = @ - 1]
UndoClaim(s) == [s EXCEPT !.bucket["pending"] = @ + 1, !.bucket["running"] = @ - 1]
UndoAttempt(s, attempt, state) ==
    [s EXCEPT !.bucket[Bucket(state)] = @ - 1, !.bucket["running"] = @ + 1,
              !.retries = @ - (IF attempt.outcome \in Retries THEN 1 ELSE 0),
              !.duration = @ - (attempt.finished - attempt.started)]

\* _validate_prior: what the node stores is what it must have been before the command.
ValidPrior(n, prior, earliest) ==
    /\ node[n].work = prior
    /\ node[n].status = StatusFor(prior, node[n].started # None)
    /\ (node[n].started # None /\ earliest # None) => node[n].started = earliest

Init ==
    /\ RowsInit
    /\ node = [n \in Nodes |-> [status |-> "pending", work |-> NoWork, started |-> None,
                                finished |-> None]]
    /\ corrupt = {}

\* _validate_prior of the work the node had before, which reports drift whatever the
\* command's own check of the node's status would say; then that check (allowed),
\* which refuses the command; then _validate_terminal_finish and _update_node.
UpdateNode(n, snapshot, prior, allowed, status, started, finished) ==
    LET valid == ValidPrior(n, prior, snapshot.earliest)
    IN  /\ corrupt = {}
        /\ valid => allowed
        /\ IF valid /\ (status \in TerminalStatuses => started <= finished)
           THEN /\ node' = [node EXCEPT ![n] = [status |-> status, work |-> snapshot.work,
                                                started |-> started, finished |-> finished]]
                /\ UNCHANGED corrupt
           ELSE corrupt' = {n} /\ UNCHANGED node

\* register_work.
RegisterWork(n) ==
    LET snapshot == Snapshot(n, row', attempts')
    IN  /\ node[n].status \in {"pending", "running"}
        /\ UpdateNode(n, snapshot, UndoRegistration(snapshot.work), TRUE, node[n].status,
                      node[n].started, None)

\* Mutant: a claim may precede the start of its node.
MutApplyClaim(n, t) ==
    LET snapshot == Snapshot(n, row', attempts')
    IN  UpdateNode(n, snapshot, UndoClaim(snapshot.work), TRUE, "running",
                   IF node[n].started = None THEN t ELSE node[n].started, None)

\* apply_claim of a claim that starts at t.
ApplyClaim(n, t) ==
    LET snapshot == Snapshot(n, row', attempts')
    IN  /\ node[n].started = None \/ t >= node[n].started
        /\ UpdateNode(n, snapshot, UndoClaim(snapshot.work), TRUE, "running",
                      IF node[n].started = None THEN t ELSE node[n].started, None)

\* "run node is not running" refuses a completion or a recovery otherwise.
HasStarted(n) == node[n].status = "running" /\ node[n].started # None

\* The attempt a step recorded for work w.
NewAttempt(w) == attempts'[w][Len(attempts'[w])]

\* Mutant: the node finishes with the attempt that happened to be recorded last.
MutApplyCompletion(n, w) ==
    LET snapshot == Snapshot(n, row', attempts')
        status == StatusFor(snapshot.work, TRUE)
    IN  UpdateNode(n, snapshot, UndoAttempt(snapshot.work, NewAttempt(w), row'[w].state),
                   HasStarted(n), status, node[n].started,
                   IF status = "running" THEN None ELSE NewAttempt(w).finished)

\* apply_completion.
ApplyCompletion(n, w) ==
    LET snapshot == Snapshot(n, row', attempts')
        status == StatusFor(snapshot.work, TRUE)
    IN  UpdateNode(n, snapshot, UndoAttempt(snapshot.work, NewAttempt(w), row'[w].state),
                   HasStarted(n), status, node[n].started,
                   IF status = "running" THEN None ELSE snapshot.latest)

\* apply_recovery.
ApplyRecovery(n, w) ==
    LET snapshot == Snapshot(n, row', attempts')
    IN  UpdateNode(n, snapshot, UndoAttempt(snapshot.work, NewAttempt(w), row'[w].state),
                   HasStarted(n), "running", node[n].started, None)

\* finalize_empty at instant t.  On a node that has ended empty already the check of
\* the prior comes first: no work means pending to it, which the node is no longer.
FinalizeEmpty(n, t) ==
    LET snapshot == Snapshot(n, row, attempts)
    IN  /\ UpdateNode(n, snapshot, snapshot.work,
                      snapshot.work.total = 0 /\ node[n].status = "pending", "succeeded", t, t)
        /\ UNCHANGED <<rows, now>>

Keep == corrupt = {} /\ UNCHANGED <<node, corrupt>>

\* dispatch_command: one transaction for each kind of command.
BootstrapWork(w, t) == Create(w, t) /\ RegisterWork(NodeOf[w])
ClaimWork(w, t, expires) == Claim(w, t, expires) /\ ApplyClaim(NodeOf[w], t)
RenewWorkClaim(c, t, expires) == RenewClaim(c, t, expires) /\ Keep
CommitWorkAttempt(c, t, target, retryAt) ==
    CompleteClaim(c, t, target, retryAt) /\ ApplyCompletion(NodeOf[c.work], c.work)
CommitWorkWithCheckpoint(c, t, committed) ==
    CompleteWithCheckpoint(c, t, committed) /\ ApplyCompletion(NodeOf[c.work], c.work)
RecoverExpiredWork(w, t, retryAt) ==
    RecoverExpiredClaim(w, t, retryAt) /\ ApplyRecovery(NodeOf[w], w)

Next ==
    \/ \E target \in RunStates, t \in Past : TransitionRun(target, t) /\ Keep
    \/ \E n \in Nodes, t \in Past : FinalizeEmpty(n, t)
    \/ \E w \in Work, t \in Past :
          \/ BootstrapWork(w, t)
          \/ \E expires \in Instants : ClaimWork(w, t, expires)
          \/ \E retryAt \in Instants : RecoverExpiredWork(w, t, retryAt)
    \/ \E c \in issued, t \in Past :
          \/ \E expires \in Instants : RenewWorkClaim(c, t, expires)
          \/ \E target \in RowStates, retryAt \in Times :
                CommitWorkAttempt(c, t, target, retryAt)
          \/ \E committed \in Past : CommitWorkWithCheckpoint(c, t, committed)
    \/ Tick /\ Keep

Spec == Init /\ [][Next]_vars

------------------------------------------------------------------------------
\* What the repository means a corruption report to be: something no command of any
\* interleaving causes.  The code does not keep this (see FinalizeEmpty).
NeverCorrupt == corrupt = {}

\* What it keeps: the aggregate never drifts from its rows, with whatever stale
\* instants commands come in whatever order; the one node the repository takes for
\* corrupt, and stops the writer for, is a node without work that ended before.
DriftOnlyOfEndedEmpty ==
    \A n \in corrupt : node[n].status = "succeeded" /\ WorksOf(n, row) = {}

\* What a node reports covers its work: it started no later than any attempt of its
\* work, and once ended, it did so no earlier than the last of them and leaves none
\* of it unfinished.
NodeSpansWork ==
    \A w \in Work : LET n == node[NodeOf[w]] IN
        /\ \A i \in DOMAIN attempts[w] :
              /\ n.started # None /\ n.started <= attempts[w][i].started
              /\ n.status \in TerminalStatuses => attempts[w][i].finished <= n.finished
        /\ n.status \in TerminalStatuses => row[w].state \in TerminalTargets \cup {"absent"}

=============================================================================
