------------------------------- MODULE Writer -------------------------------
(***************************************************************************)
(* The transactional writer: SQLiteTransactionalWriter of                  *)
(* adapters/persistence/writer/core.py.  One thread executes accepted      *)
(* commands, one transaction each; clients on other threads and event      *)
(* loops are admitted through a bounded FIFO of waiters into a bounded     *)
(* FIFO of commands, and read the outcome from a ticket.                   *)
(*                                                                         *)
(* Every action is one critical section of the writer's condition, or one  *)
(* step of the transaction the thread has open.                            *)
(***************************************************************************)
EXTENDS Integers, Sequences, SequencesExt, FiniteSetsExt

CONSTANTS
    Commands,               \* commands, each submitted by a client of its own
    Async,                  \* those submitted with submit_async
    QueueCapacity, WaiterCapacity, NotificationCapacity,    \* WriterSettings
    MaxContention,          \* max_contention_attempts
    MaxSubmission,          \* MAX_WRITER_SUBMISSION_ID
    None                    \* no command

ASSUME WriterAssumption ==
    /\ Async \subseteq Commands /\ None \notin Commands
    /\ {QueueCapacity, WaiterCapacity, NotificationCapacity, MaxContention, MaxSubmission}
          \subseteq Nat \ {0}

VARIABLES
    writer,          \* WriterState
    thread,          \* where the writer thread is
    admissions,      \* _admissions
    queue,           \* _queue
    active,          \* _active, whose presence is _in_flight
    attempts,        \* contention attempts of the active command
    mutated,         \* the committed transaction changed rows
    waiter,          \* _AdmissionWaiter of each command
    client,          \* what the submit call told its client
    submission,      \* submission identity of each command, 0 if there is none
    answer,          \* what the ticket of each command holds
    log,             \* durable: commands whose changes are committed, in order
    notifications,   \* the notification buffer
    nextSubmission, accepted, completed,    \* counters
    maxQueue, maxWaiters, maxResident       \* high-water marks

counters == <<nextSubmission, accepted, completed, maxQueue, maxWaiters, maxResident>>
clients == <<waiter, client, submission>>
vars == <<writer, thread, admissions, queue, active, attempts, mutated, clients, answer, log,
          notifications, counters>>

Answers == {"none", "receipt", "replay", "domain_error", "failed", "unknown", "lifecycle",
            "not_executed"}

InFlight == IF active = None THEN 0 ELSE 1

Init ==
    /\ writer = "new" /\ thread = "none"
    /\ admissions = <<>> /\ queue = <<>> /\ active = None /\ attempts = 0 /\ mutated = FALSE
    /\ waiter = [c \in Commands |-> "none"]
    /\ client = [c \in Commands |-> "idle"]
    /\ submission = [c \in Commands |-> 0]
    /\ answer = [c \in Commands |-> "none"]
    /\ log = <<>> /\ notifications = <<>>
    /\ nextSubmission = 1 /\ accepted = 0 /\ completed = 0
    /\ maxQueue = 0 /\ maxWaiters = 0 /\ maxResident = 0

------------------------------------------------------------------------------
(* Admission.                                                              *)

\* _update_high_waters, with the given waiters and commands in flight.
UpdateHighWaters(waiting, inFlight) ==
    /\ maxQueue' = Max({maxQueue, Len(queue')})
    /\ maxWaiters' = Max({maxWaiters, waiting})
    /\ maxResident' = Max({maxResident, Len(queue') + inFlight})

\* _admit_waiters on the waiters adm and the queue q: admit in order while there
\* is room; when identities run out, close and reject the rest.
AdmitWaiters(adm, q, w) ==
    LET room == QueueCapacity - Len(q)
        n == Min({Len(adm), room, MaxSubmission - nextSubmission + 1})
        exhausted == n < Len(adm) /\ n < room
        entered == SubSeq(adm, 1, n)
        left == SubSeq(adm, n + 1, Len(adm))
    IN  /\ queue' = q \o entered
        /\ admissions' = IF exhausted THEN <<>> ELSE left
        /\ writer' = IF exhausted THEN "closing" ELSE writer
        /\ waiter' = [c \in Commands |-> IF c \in ToSet(entered) THEN "ticket"
                                         ELSE IF exhausted /\ c \in ToSet(left) THEN "error"
                                         ELSE w[c]]
        /\ submission' = [c \in Commands |->
                             IF c \in ToSet(entered)
                             THEN nextSubmission - 1 + CHOOSE i \in 1..n : entered[i] = c
                             ELSE submission[c]]
        /\ nextSubmission' = nextSubmission + n
        /\ accepted' = accepted + n

\* submit and submit_async up to the wait.
Submit(c) ==
    /\ client[c] = "idle" /\ writer = "running" /\ Len(admissions) < WaiterCapacity
    /\ client' = [client EXCEPT ![c] = "submitting"]
    /\ AdmitWaiters(Append(admissions, c), queue, [waiter EXCEPT ![c] = "waiting"])
    /\ UpdateHighWaters(Len(admissions) + 1, InFlight)
    /\ UNCHANGED <<thread, active, attempts, mutated, answer, log, notifications, completed>>

\* _require_admission_open and _require_waiter_capacity.
SubmitRefused(c) ==
    /\ client[c] = "idle"
    /\ \/ writer # "running" /\ client' = [client EXCEPT ![c] = "refused"]
       \/ /\ writer = "running" /\ Len(admissions) >= WaiterCapacity
          /\ client' = [client EXCEPT ![c] = "timed_out"]
    /\ UNCHANGED <<writer, thread, admissions, queue, active, attempts, mutated, waiter, submission,
                   answer, log, notifications, counters>>

\* The wait ends with a ticket or an error.
SubmitReturns(c) ==
    /\ client[c] = "submitting" /\ waiter[c] \in {"ticket", "error"}
    /\ client' = [client EXCEPT ![c] = IF waiter[c] = "ticket" THEN "accepted" ELSE "refused"]
    /\ UNCHANGED <<writer, thread, admissions, queue, active, attempts, mutated, waiter, submission,
                   answer, log, notifications, counters>>

\* The deadline passes under the lock of submit, or in the event loop, where an
\* admission may come in between.
SubmitDeadline(c) ==
    /\ client[c] = "submitting"
    /\ \/ /\ c \notin Async /\ waiter[c] = "waiting"
          /\ client' = [client EXCEPT ![c] = "timed_out"]
          /\ waiter' = [waiter EXCEPT ![c] = "none"]
          /\ admissions' = RemoveFirst(admissions, c)
       \/ /\ c \in Async
          /\ client' = [client EXCEPT ![c] = "withdrawing"]
          /\ UNCHANGED <<waiter, admissions>>
    /\ UNCHANGED <<writer, thread, queue, active, attempts, mutated, submission, answer, log,
                   notifications, counters>>

\* _withdraw_admission after the timeout or the cancellation of submit_async.
WithdrawAdmission(c) ==
    /\ client[c] = "withdrawing"
    /\ IF waiter[c] = "ticket"
       THEN client' = [client EXCEPT ![c] = "accepted"] /\ UNCHANGED <<admissions, waiter>>
       ELSE /\ client' = [client EXCEPT ![c] = "timed_out"]
            /\ admissions' = RemoveFirst(admissions, c)
            /\ waiter' = [waiter EXCEPT ![c] = "none"]
    /\ UNCHANGED <<writer, thread, queue, active, attempts, mutated, submission, answer, log,
                   notifications, counters>>

------------------------------------------------------------------------------
(* Lifecycle.                                                              *)

\* start; the thread may fail to start.
Start ==
    /\ writer = "new"
    /\ \/ writer' = "running" /\ thread' = "wait"
       \/ writer' = "failed" /\ UNCHANGED thread
    /\ UNCHANGED <<admissions, queue, active, attempts, mutated, clients, answer, log,
                   notifications, counters>>

\* _reject_admissions.
RejectAdmissions ==
    /\ waiter' = [c \in Commands |-> IF c \in ToSet(admissions) THEN "error" ELSE waiter[c]]
    /\ admissions' = <<>>

\* close up to the join, which only waits for the thread to end.
Close ==
    /\ writer \in {"new", "running"}
    /\ writer' = IF writer = "new" THEN "closed" ELSE "closing"
    /\ RejectAdmissions
    /\ UNCHANGED <<thread, queue, active, attempts, mutated, client, submission, answer, log,
                   notifications, counters>>

------------------------------------------------------------------------------
(* The thread.                                                             *)

Take ==
    /\ thread = "wait" /\ queue # <<>>
    /\ thread' = "execute" /\ active' = Head(queue) /\ attempts' = 0
    /\ AdmitWaiters(admissions, Tail(queue), waiter)
    /\ UpdateHighWaters(0, 1)
    /\ UNCHANGED <<mutated, client, answer, log, notifications, completed>>

\* The drained queue of a closing writer ends the thread.
Drained ==
    /\ thread = "wait" /\ queue = <<>> /\ writer = "closing"
    /\ writer' = "closed" /\ thread' = "done"
    /\ UNCHANGED <<admissions, queue, active, attempts, mutated, clients, answer, log,
                   notifications, counters>>

\* _WriterTicket._resolve: the first outcome stays.
Resolve(outcome) ==
    answer' = IF answer[active] = "none" THEN [answer EXCEPT ![active] = outcome] ELSE answer

\* _execute returned; a fatal outcome is handled by Finish.
Executed(fatal) == thread' = IF fatal THEN "fatal" ELSE "finish"

\* Mutant: the retry limit is not enforced.
MutContendForever ==
    /\ thread = "execute"
    /\ attempts' = (attempts + 1) % MaxContention
    /\ UNCHANGED <<writer, thread, admissions, queue, active, mutated, clients, answer, log,
                   notifications, counters>>

\* The database is busy: rolled back and tried again, boundedly often, unless the
\* cleanup fails.
Contend ==
    /\ thread = "execute"
    /\ attempts' = attempts + 1
    /\ \/ attempts' < MaxContention /\ UNCHANGED <<thread, answer>>
       \/ Resolve("failed") /\ Executed(TRUE)
    /\ UNCHANGED <<writer, admissions, queue, active, mutated, clients, log, notifications,
                   counters>>

\* The command is refused by a repository and rolled back, or fails otherwise.
ExecuteFails ==
    /\ thread = "execute"
    /\ \/ Resolve("domain_error") /\ Executed(FALSE)
       \/ Resolve("failed") /\ Executed(TRUE)
    /\ UNCHANGED <<writer, admissions, queue, active, attempts, mutated, clients, log,
                   notifications, counters>>

\* The transaction commits; an idempotent replay changes no row.
Commit ==
    /\ thread = "execute"
    /\ mutated' \in BOOLEAN
    /\ log' = IF mutated' THEN Append(log, active) ELSE log
    /\ thread' = "resolve"
    /\ UNCHANGED <<writer, admissions, queue, active, attempts, clients, answer, notifications,
                   counters>>

\* Mutant: a raised commit is reported as a plain rollback.
MutCommitRaises ==
    /\ thread = "execute"
    /\ log' \in {log, Append(log, active)}
    /\ Resolve("domain_error") /\ Executed(TRUE)
    /\ UNCHANGED <<writer, admissions, queue, active, attempts, mutated, clients, notifications,
                   counters>>

\* The commit raises, with or without having taken effect.
CommitRaises ==
    /\ thread = "execute"
    /\ log' \in {log, Append(log, active)}
    /\ Resolve("unknown") /\ Executed(TRUE)
    /\ UNCHANGED <<writer, admissions, queue, active, attempts, mutated, clients, notifications,
                   counters>>

\* BoundedCommittedNotificationBuffer.offer: full buffers drop.
Offer(c) ==
    notifications' = IF Len(notifications) < NotificationCapacity THEN Append(notifications, c)
                                                                 ELSE notifications

\* Mutant: replays are notified as changes.
MutResolveReceipt ==
    /\ thread = "resolve"
    /\ Resolve(IF mutated THEN "receipt" ELSE "replay")
    /\ Executed(FALSE) /\ Offer(active)
    /\ UNCHANGED <<writer, admissions, queue, active, attempts, mutated, clients, log, counters>>

\* The receipt is handed out; a session that fails to close after it is fatal and
\* suppresses the notification.
ResolveReceipt ==
    /\ thread = "resolve"
    /\ Resolve(IF mutated THEN "receipt" ELSE "replay")
    /\ \/ Executed(TRUE) /\ UNCHANGED notifications
       \/ Executed(FALSE) /\ IF mutated THEN Offer(active) ELSE UNCHANGED notifications
    /\ UNCHANGED <<writer, admissions, queue, active, attempts, mutated, clients, log, counters>>

\* take of the notification buffer.
TakeNotification ==
    /\ notifications # <<>>
    /\ notifications' = Tail(notifications)
    /\ UNCHANGED <<writer, thread, admissions, queue, active, attempts, mutated, clients, answer,
                   log, counters>>

\* Mutant: the completion is not counted.
MutFinish ==
    /\ thread = "finish"
    /\ thread' = "wait" /\ active' = None
    /\ UNCHANGED <<writer, admissions, queue, attempts, mutated, clients, answer, log,
                   notifications, counters>>

\* The lock is taken again and the command counted.
Finish ==
    /\ thread = "finish"
    /\ thread' = "wait" /\ active' = None /\ completed' = completed + 1
    /\ UNCHANGED <<writer, admissions, queue, attempts, mutated, clients, answer, log,
                   notifications, nextSubmission, accepted, maxQueue, maxWaiters, maxResident>>

\* Mutant: queued commands are dropped without an outcome.
MutFailQueued(outcomes) == answer' = outcomes

\* _fail_queued, over the outcomes there are.
FailQueued(outcomes) ==
    answer' = [c \in Commands |-> IF c \in ToSet(queue) THEN "not_executed" ELSE outcomes[c]]

\* The end of a fatal execution, and of a failure of the loop itself, which
\* resolves the active ticket first if nobody did.
FinishFatal ==
    /\ \/ thread = "fatal" /\ FailQueued(answer)
       \/ thread = "resolve" /\ FailQueued([answer EXCEPT ![active] = "lifecycle"])
    /\ thread' = "done" /\ writer' = "failed" /\ active' = None
    /\ completed' = completed + 1 + Len(queue)
    /\ queue' = <<>>
    /\ RejectAdmissions
    /\ UNCHANGED <<attempts, mutated, client, submission, log, notifications, nextSubmission,
                   accepted, maxQueue, maxWaiters, maxResident>>

ThreadStep ==
    \/ Take \/ Drained \/ Contend \/ ExecuteFails \/ Commit \/ CommitRaises \/ ResolveReceipt
    \/ Finish \/ FinishFatal

ClientStep(c) == SubmitReturns(c) \/ WithdrawAdmission(c)

Next ==
    \/ \E c \in Commands : Submit(c) \/ SubmitRefused(c) \/ SubmitDeadline(c) \/ ClientStep(c)
    \/ Start \/ Close \/ TakeNotification
    \/ ThreadStep

\* The thread keeps running and woken clients return; no deadline, start or close
\* is assumed to come.
Fairness == WF_vars(ThreadStep) /\ \A c \in Commands : WF_vars(ClientStep(c))

Spec == Init /\ [][Next]_vars
FairSpec == Spec /\ Fairness

------------------------------------------------------------------------------
\* snapshot() never raises: the accounting and the high-water marks that
\* WriterDiagnostics validates agree in every state the lock can be taken in.
DiagnosticsCoherent ==
    /\ accepted = completed + Len(queue) + InFlight
    /\ Len(queue) <= maxQueue /\ maxQueue <= QueueCapacity
    /\ Len(admissions) <= maxWaiters /\ maxWaiters <= WaiterCapacity
    /\ Len(queue) + InFlight <= maxResident /\ maxResident <= QueueCapacity + 1
    /\ maxQueue <= maxResident

\* "Queue admission timed out before the command received an identity": a command
\* whose client was refused or timed out is not queued, executed or committed, and
\* never will be, however the deadline races the admission.
RefusedNeverRuns ==
    \A c \in Commands : client[c] \in {"idle", "refused", "timed_out"} =>
        /\ c \notin ToSet(queue) \cup ToSet(admissions) \cup ToSet(log) /\ active # c
        /\ answer[c] = "none" /\ submission[c] = 0

\* A receipt is given only for committed changes, an answer that promises nothing
\* happened only when nothing did, and a refusal only when nothing ever will.
AnswersTellTruth ==
    /\ RefusedNeverRuns
    /\ \A c \in Commands :
        /\ answer[c] = "receipt" => c \in ToSet(log)
        /\ answer[c] \in {"domain_error", "failed", "not_executed", "replay"} => c \notin ToSet(log)

\* Commands commit at most once and in the order of their submission identities;
\* notifications are of committed and acknowledged commands, in that order too,
\* and never more than the buffer holds.
NotificationsFollowCommits ==
    /\ \A i, j \in DOMAIN log : i < j => submission[log[i]] < submission[log[j]]
    /\ Len(notifications) <= NotificationCapacity
    /\ \A i \in DOMAIN notifications : answer[notifications[i]] = "receipt"
    /\ \A i, j \in DOMAIN notifications :
          i < j => submission[notifications[i]] < submission[notifications[j]]

\* When the thread is gone, after a drain or a failure, nobody is left waiting:
\* every admitted command has its answer and every waiter its error.
StoppedLeavesNobody ==
    thread = "done" =>
        /\ queue = <<>> /\ admissions = <<>> /\ accepted = completed
        /\ \A c \in Commands : /\ waiter[c] # "waiting"
                               /\ waiter[c] = "ticket" => answer[c] # "none"

\* Every admitted command is answered and every submit call returns, even
\* without its deadline, through contention, failure, exhaustion and close.
EveryoneIsAnswered ==
    \A c \in Commands :
        /\ waiter[c] = "ticket" ~> answer[c] # "none"
        /\ client[c] = "submitting" ~> client[c] \in {"accepted", "refused", "timed_out"}

=============================================================================
