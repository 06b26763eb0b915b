------------------------------ MODULE WorkRows ------------------------------
(***************************************************************************)
(* The durable work items and their attempt history: the mutations of      *)
(* SqlAlchemyWorkItemRepository (adapters/persistence/repositories/        *)
(* work_items.py), each run by the writer in a transaction of its own.     *)
(*                                                                         *)
(* A command carries the instant its client observed when it built it, and *)
(* runs later: an observed instant is any instant that has passed.  A      *)
(* claim, once issued, may come back at any time, from a worker that       *)
(* stalled or from a process that is gone.  A command built on a stale row *)
(* version is refused and changes nothing, so it is a disabled action.     *)
(* One run owns the work items; its state decides whether work may be      *)
(* created and claimed, never whether it may be completed.                 *)
(***************************************************************************)
EXTENDS Integers, Sequences

CONSTANTS
    Work,          \* work items
    Nodes, NodeOf, \* the run's nodes, and the node whose work an item is
    MaxInstant,    \* bound on the clock
    MaxInteger     \* MAX_PERSISTED_INTEGER, the largest row version

ASSUME RowsAssumption == MaxInstant \in Nat /\ MaxInteger \in Nat \ {0}
ASSUME NodeAssumption == NodeOf \in [Work -> Nodes]

VARIABLES
    run,           \* the run row: its state and the last instant its chronology keeps
    row,           \* work_items
    attempts,      \* work_attempts of each work item, by attempt number
    issued,        \* every claim handed out
    now            \* the clock

rows == <<run, row, attempts, issued>>

None == -1
Instants == 0..MaxInstant
Times == Instants \cup {None}
Versions == 0..MaxInteger
TerminalTargets == {"succeeded", "quarantined", "failed", "cancelled"}
RowStates == {"absent", "pending", "running", "retry_wait"} \cup TerminalTargets

\* RUN_TRANSITIONS.
RunTransitions == [
    queued |-> {"running", "cancelled"},
    running |-> {"pausing", "succeeded", "partially_succeeded", "failed", "cancelling"},
    pausing |-> {"paused"}, paused |-> {"resuming"}, resuming |-> {"running"},
    succeeded |-> {}, partially_succeeded |-> {}, failed |-> {},
    cancelling |-> {"cancelled"}, cancelled |-> {}]
RunStates == DOMAIN RunTransitions

Row == [state : RowStates, version : Versions, completed : Versions, checkpoint : Versions,
        retryAt : Times, attempt : Versions, started : Times, expires : Times, updated : Times]
Claims == [work : Work, version : Versions, attempt : Versions, started : Instants,
           expires : Instants]

\* The row before the work is created.
Absent == [state |-> "absent", version |-> 0, completed |-> 0, checkpoint |-> 0, retryAt |-> None,
           attempt |-> 0, started |-> None, expires |-> None, updated |-> None]

\* _claim_from_record.
ClaimOf(w, r) == [work |-> w, version |-> r.version, attempt |-> r.attempt,
                  started |-> r.started, expires |-> r.expires]

\* _claim_matches on a running row.
Holds(c) == row[c.work].state = "running" /\ ClaimOf(c.work, row[c.work]) = c

\* The row once claimed at instant t until expires.
Claimed(r, t, expires) ==
    [r EXCEPT !.state = "running", !.version = r.version + 1, !.retryAt = None,
              !.attempt = r.completed + 1, !.started = t, !.expires = expires, !.updated = t]

\* The row once its lease is renewed at instant t.
Renewed(r, t, expires) ==
    [r EXCEPT !.version = r.version + 1, !.expires = expires, !.updated = t]

\* The row after its attempt ended at t in a state.
Ended(r, state, t, retryAt) ==
    [r EXCEPT !.state = state, !.version = r.version + 1, !.completed = r.completed + 1,
              !.retryAt = retryAt, !.attempt = 0, !.started = None, !.expires = None,
              !.updated = t]

\* The checkpoint append: it touches the row once more.
Checkpointed(r, committed) ==
    [r EXCEPT !.version = r.version + 1, !.checkpoint = r.checkpoint + 1, !.updated = committed]

\* The record of the active attempt of row r.
AttemptOf(r, outcome, t, retryAt) ==
    [number |-> r.attempt, outcome |-> outcome, started |-> r.started, finished |-> t,
     retryAt |-> retryAt]

Past == {t \in Instants : t <= now}

RowsInit ==
    /\ run = [state |-> "queued", since |-> 0]
    /\ row = [w \in Work |-> Absent]
    /\ attempts = [w \in Work |-> <<>>]
    /\ issued = {}
    /\ now = 0

\* transition and _transition_values: the instant may not precede the ones the
\* row keeps (start, cancellation request).
TransitionRun(target, t) ==
    /\ target \in RunTransitions[run.state]
    /\ t >= run.since
    /\ run' = [state |-> target,
               since |-> IF run.state = "queued" \/ target = "cancelling" THEN t ELSE run.since]
    /\ UNCHANGED <<row, attempts, issued, now>>

Create(w, t) ==
    /\ run.state \in {"queued", "running"}
    /\ row[w].state = "absent"
    /\ row' = [row EXCEPT ![w] = [Absent EXCEPT !.state = "pending", !.version = 1, !.updated = t]]
    /\ UNCHANGED <<run, attempts, issued, now>>

\* Mutant: a retry may start before it is available.
MutClaim(w, t, expires) ==
    /\ run.state = "running"
    /\ row[w].state \in {"pending", "retry_wait"}
    /\ t >= row[w].updated
    /\ expires > t
    /\ row[w].version < MaxInteger /\ row[w].completed < MaxInteger
    /\ row' = [row EXCEPT ![w] = Claimed(@, t, expires)]
    /\ issued' = issued \cup {ClaimOf(w, row'[w])}
    /\ UNCHANGED <<run, attempts, now>>

\* claim, leased at instant t until expires.
Claim(w, t, expires) ==
    /\ run.state = "running"
    /\ row[w].state \in {"pending", "retry_wait"}
    /\ t >= row[w].retryAt /\ t >= row[w].updated
    /\ expires > t
    /\ row[w].version < MaxInteger /\ row[w].completed < MaxInteger
    /\ row' = [row EXCEPT ![w] = Claimed(@, t, expires)]
    /\ issued' = issued \cup {ClaimOf(w, row'[w])}
    /\ UNCHANGED <<run, attempts, now>>

\* _require_claim: the claim is current and not expired at the observed instant.
RequireClaim(c, t) ==
    /\ Holds(c)
    /\ t >= row[c.work].updated
    /\ row[c.work].expires > t
    /\ row[c.work].version < MaxInteger

RenewClaim(c, t, expires) ==
    /\ RequireClaim(c, t)
    /\ t > row[c.work].updated
    /\ expires > row[c.work].expires
    /\ row' = [row EXCEPT ![c.work] = Renewed(@, t, expires)]
    /\ issued' = issued \cup {ClaimOf(c.work, row'[c.work])}
    /\ UNCHANGED <<run, attempts, now>>

\* _insert_attempt for the active attempt of row r.
Record(w, r, outcome, t, retryAt) ==
    attempts' = [attempts EXCEPT ![w] = Append(@, AttemptOf(r, outcome, t, retryAt))]

\* complete_claim of a command without a checkpoint: everything but success.
CompleteClaim(c, t, target, retryAt) ==
    /\ RequireClaim(c, t)
    /\ target \in {"retry_wait", "quarantined", "failed", "cancelled"}
    /\ IF target = "retry_wait" THEN retryAt >= t ELSE retryAt = None
    /\ row' = [row EXCEPT ![c.work] = Ended(@, target, t, retryAt)]
    /\ Record(c.work, row[c.work], target, t, retryAt)
    /\ UNCHANGED <<run, issued, now>>

\* complete_claim followed by the checkpoint append of the same command, committed
\* at an instant of its own: success.
CompleteWithCheckpoint(c, t, committed) ==
    /\ RequireClaim(c, t)
    /\ row[c.work].version + 1 < MaxInteger
    /\ committed >= t
    /\ row' = [row EXCEPT ![c.work] =
                  Checkpointed(Ended(@, "succeeded", t, None), committed)]
    /\ Record(c.work, row[c.work], "succeeded", t, None)
    /\ UNCHANGED <<run, issued, now>>

\* Mutant: the expiry is the one recovery scanned, before the holder renewed.
MutRecoverExpiredClaim(w, t, retryAt) ==
    /\ row[w].state = "running"
    /\ \E c \in issued : c.work = w /\ c.attempt = row[w].attempt /\ c.expires <= t
    /\ retryAt >= t
    /\ row[w].version < MaxInteger
    /\ row' = [row EXCEPT ![w] = Ended(@, "retry_wait", t, retryAt)]
    /\ Record(w, row[w], "lease_expired", t, retryAt)
    /\ UNCHANGED <<run, issued, now>>

RecoverExpiredClaim(w, t, retryAt) ==
    /\ row[w].state = "running"
    /\ row[w].expires <= t
    /\ retryAt >= t
    /\ row[w].version < MaxInteger
    /\ row' = [row EXCEPT ![w] = Ended(@, "retry_wait", t, retryAt)]
    /\ Record(w, row[w], "lease_expired", t, retryAt)
    /\ UNCHANGED <<run, issued, now>>

Tick ==
    /\ now < MaxInstant
    /\ now' = now + 1
    /\ UNCHANGED rows

RowsNext ==
    \/ \E target \in RunStates, t \in Past : TransitionRun(target, t)
    \/ \E w \in Work, t \in Past :
          \/ Create(w, t)
          \/ \E expires \in Instants : Claim(w, t, expires)
          \/ \E retryAt \in Instants : RecoverExpiredClaim(w, t, retryAt)
    \/ \E c \in issued, t \in Past :
          \/ \E expires \in Instants : RenewClaim(c, t, expires)
          \/ \E target \in RowStates, retryAt \in Times : CompleteClaim(c, t, target, retryAt)
          \/ \E committed \in Past : CompleteWithCheckpoint(c, t, committed)
    \/ Tick

RowsSpec == RowsInit /\ [][RowsNext]_<<rows, now>>

------------------------------------------------------------------------------
AttemptRecords == [number : Versions,
                   outcome : TerminalTargets \cup {"retry_wait", "lease_expired"},
                   started : Instants, finished : Instants, retryAt : Times]

\* Type invariant of the rows.
RowsTypeOK ==
    /\ run \in [state : RunStates, since : Instants]
    /\ row \in [Work -> Row]
    /\ attempts \in [Work -> Seq(AttemptRecords)]
    /\ issued \subseteq Claims
    /\ now \in Instants

\* _verify_work_records never finds a corrupt history: through retries, renewals
\* and recoveries the attempts of a work item are numbered from one without a gap,
\* and the running attempt is the next one.
AttemptsContiguous ==
    \A w \in Work :
        /\ Len(attempts[w]) = row[w].completed
        /\ \A i \in DOMAIN attempts[w] : attempts[w][i].number = i
        /\ row[w].state = "running" => row[w].attempt = row[w].completed + 1

\* Attempts of one work item follow each other in time, whatever stale instants
\* their commands carry, and a retry never starts before it was available.
AttemptsDisjoint ==
    \A w \in Work :
        /\ \A i \in DOMAIN attempts[w] : attempts[w][i].started <= attempts[w][i].finished
        /\ \A i, j \in DOMAIN attempts[w] : j = i + 1 =>
              /\ attempts[w][i].finished <= attempts[w][j].started
              /\ attempts[w][i].retryAt <= attempts[w][j].started
        /\ row[w].state = "running" => \A i \in DOMAIN attempts[w] :
              i = Len(attempts[w]) => /\ attempts[w][i].finished <= row[w].started
                                      /\ attempts[w][i].retryAt <= row[w].started

\* A lease is honoured until the expiry its holder was told: an attempt is declared
\* expired only at an instant no claim issued for it reaches past.
LeaseHonoured ==
    \A c \in issued : \A i \in DOMAIN attempts[c.work] :
        c.attempt = i /\ attempts[c.work][i].outcome = "lease_expired" =>
            c.expires <= attempts[c.work][i].finished

\* A terminal work item is never claimed, recovered or relabelled again.
TerminalRowsFinal ==
    [][\A w \in Work : row[w].state \in TerminalTargets => row'[w] = row[w]]_row

=============================================================================
