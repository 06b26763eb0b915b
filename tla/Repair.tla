------------------------------- MODULE Repair -------------------------------
(***************************************************************************)
(* The repair workflow of one completed run: the services that persist a   *)
(* reconciliation, plan, approve or reject, apply and verify repairs (one  *)
(* call each, any number at once), the writer they submit their commands   *)
(* to, the durable rows with the companion facts every command commits,    *)
(* and the target the effects go to.  Replies of the writer and of the     *)
(* target can be late or lost, requests can arrive after their sender gave *)
(* up, the process can crash, and another system writes to the target.     *)
(***************************************************************************)
EXTENDS Naturals, Sequences, FiniteSets, FiniteSetsExt

CONSTANTS Calls,         \* the calls made on the services
          Kind,          \* what each call may be: [Calls -> SUBSET Kinds]
          Stamps,        \* correlation and clock readings each call may have
          Analyses,      \* reconciliation fingerprints
          NumActions,    \* actions of the plan, in canonical-key order
          MaxAttempts,   \* max_attempts_per_action
          MaxAmbiguous,  \* max_ambiguous_replays
          MaxReplays,    \* max_writer_replays
          MaxFaults,     \* bound: lost or late replies, failures, crashes, foreign writes
          None

Kinds == {"persist", "create", "approve", "reject", "apply", "verify"}
Actions == 1 .. NumActions

ASSUME RepairAssumption ==
    /\ Kind \in [Calls -> SUBSET Kinds]
    /\ DOMAIN Stamps = Calls
    /\ NumActions \in Nat \ {0}
    /\ {MaxAttempts, MaxReplays} \subseteq Nat \ {0}
    /\ {MaxAmbiguous, MaxFaults} \subseteq Nat
    /\ None \notin Nat \cup Analyses

VARIABLES rows,      \* the durable rows: summary, plan, acts, verified
          facts,     \* audit, event and run revision of every commit, in order
          target,    \* the warehouse: its contents by version, and its keys
          wire,      \* requests of callers that gave up, still on their way
          call,      \* the calls in progress
          faults     \* how much went wrong so far

store == <<rows, facts>>
vars == <<rows, facts, target, wire, call, faults>>

summary == rows.summary    \* the run's one reconciliation snapshot, or None
plan == rows.plan          \* the plan row
acts == rows.acts          \* the action rows
verified == rows.verified  \* the target-verification rows

Final == {"done", "refused", "corrupt", "unresolved", "interrupted", "reported", "lost"}

Fault == faults < MaxFaults /\ faults' = faults + 1

Nothing == [a \in Actions |-> None]
NoCmd == [op |-> None, exp |-> 0, ver |-> 0, act |-> 0, res |-> None, by |-> None]
Idle == [pc |-> "idle", by |-> None, cmd |-> NoCmd, fly |-> 0, tries |-> 0,
         claim |-> 0, did |-> {}, att |-> 0, amb |-> 0, res |-> None,
         seen |-> Nothing]

Old == [a \in Actions |-> "old"]
Repaired == [a \in Actions |-> "new"]

NoRows == [summary |-> None, verified |-> {},
           plan |-> [status |-> "none", ver |-> 0, end |-> None],
           acts |-> [a \in Actions |-> [status |-> "pending", by |-> None]]]

\* Rows and companion facts of a run: just completed, or with its snapshot
\* and its plan in place.
Prepared(x) ==
    /\ rows = [NoRows EXCEPT !.summary = x, !.plan.status = "proposed", !.plan.ver = 1]
    /\ facts = [i \in 1 .. 2 |-> [op |-> <<"persist", "create">>[i], act |-> 0, res |-> x,
                                  by |-> None]]
Unprepared == rows = NoRows /\ facts = <<>>

Init == /\ Unprepared \/ \E x \in Analyses : Prepared(x)
        /\ target = [log |-> <<Old>>, keys |-> Nothing]
        /\ wire = [a \in Actions |-> 0]
        /\ call = [c \in Calls |-> Idle]
        /\ faults = 0

(***************************************************************************)
(* The durable side: one transaction per command.                          *)
(***************************************************************************)

\* The audit entry and the event of a command; what it was decided from
\* (plan version) is not part of them.
Fact(cmd) == [op |-> IF cmd.op = "resolved" THEN "attempt" ELSE cmd.op,
              act |-> cmd.act, res |-> cmd.res, by |-> cmd.by]

\* append_event and advance_run compare and set: nobody committed since the
\* frontier was read.
Companions(cmd) == cmd.exp = Len(facts)

\* AuditRepository.match_exact looks a fact up by correlation, operation and
\* object, and takes more than one hit for corruption.
ObjectOf(f) == IF f.op = "verify" THEN f.res.id ELSE f.act
Hits(cmd) == {i \in DOMAIN facts : /\ facts[i].by = cmd.by
                                   /\ facts[i].op = Fact(cmd).op
                                   /\ ObjectOf(facts[i]) = ObjectOf(Fact(cmd))}

Ambiguous(cmd) == Cardinality(Hits(cmd)) > 1

\* _verify_repair_replay: this very command was the last to commit.
Replayed(cmd) == /\ Len(facts) = cmd.exp + 1
                 /\ facts[Len(facts)] = Fact(cmd)

\* The row a repository operation finds when the command has run before.
Repeats(cmd) ==
    CASE cmd.op = "persist"  -> summary = cmd.res
      [] cmd.op = "create"   -> plan.status # "none"
      [] cmd.op = "approve"  -> plan.status = "approved"
      [] cmd.op = "reject"   -> plan.status = "rejected" /\ plan.ver = cmd.ver + 1
      [] cmd.op = "begin"    -> plan.status \in {"applying", "applied", "failed"}
      [] cmd.op \in {"attempt", "resolved"} ->
            /\ plan.status = "applying" /\ plan.ver = cmd.ver
            /\ acts[cmd.act].status = "pending" /\ ~Companions(cmd)
      [] cmd.op = "applied"  -> plan.ver = cmd.ver + 1
                                /\ acts[cmd.act] = [status |-> "applied", by |-> <<cmd.by, cmd.res>>]
      [] cmd.op = "failed"   -> plan.status = "failed" /\ plan.ver = cmd.ver + 1
                                /\ acts[cmd.act] = [status |-> "failed", by |-> <<cmd.by, cmd.res>>]
      [] cmd.op = "complete" -> plan.status = "applied" /\ plan.ver = cmd.ver + 1
                                /\ plan.end = cmd.by
      [] cmd.op = "verify"   -> cmd.res \in verified

At(status, ver) == plan.status = status /\ plan.ver = ver

\* _require_claim_frontier, and the row still pending.
ClaimHolds(cmd) == At("applying", cmd.ver) /\ acts[cmd.act].status = "pending"

\* The operations of the repositories, as the set of the rows they leave: one
\* outcome where the operation applies for the first time, none elsewhere.
Guarded(guard, outcome) == IF guard THEN {outcome} ELSE {}

\* _advance_plan.
Advance(status) == [rows EXCEPT !.plan.status = status, !.plan.ver = @ + 1]

\* The rows after an action has its outcome.
MarkedAs(cmd, status) ==
    [Advance(status) EXCEPT !.acts[cmd.act] = [status |-> cmd.op, by |-> <<cmd.by, cmd.res>>]]

Persist(cmd) == Guarded(summary = None, [rows EXCEPT !.summary = cmd.res])
CreatePlan(cmd) == Guarded(plan.status = "none" /\ summary = cmd.res, Advance("proposed"))
ApprovePlan(cmd) == Guarded(At("proposed", cmd.ver), Advance("approved"))
RejectPlan(cmd) == Guarded(At("proposed", cmd.ver), Advance("rejected"))
BeginApplication(cmd) == Guarded(At("approved", cmd.ver), Advance("applying"))
RecordAttempt(cmd) == Guarded(ClaimHolds(cmd), rows)
RecordApplied(cmd) == Guarded(ClaimHolds(cmd), MarkedAs(cmd, "applying"))
RecordFailed(cmd) == Guarded(ClaimHolds(cmd), MarkedAs(cmd, "failed"))
CompleteApplication(cmd) ==
    Guarded(At("applying", cmd.ver) /\ \A a \in Actions : acts[a].status = "applied",
            [Advance("applied") EXCEPT !.plan.end = cmd.by])
RecordVerification(cmd) ==
    Guarded(\A v \in verified : v.id # cmd.res.id, [rows EXCEPT !.verified = @ \union {cmd.res}])

\* _dispatch_repair, _persist_reconciliation, _record_target_verification.
Dispatch(cmd) ==
    CASE cmd.op = "persist"  -> Persist(cmd)
      [] cmd.op = "create"   -> CreatePlan(cmd)
      [] cmd.op = "approve"  -> ApprovePlan(cmd)
      [] cmd.op = "reject"   -> RejectPlan(cmd)
      [] cmd.op = "begin"    -> BeginApplication(cmd)
      [] cmd.op \in {"attempt", "resolved"} -> RecordAttempt(cmd)
      [] cmd.op = "applied"  -> RecordApplied(cmd)
      [] cmd.op = "failed"   -> RecordFailed(cmd)
      [] cmd.op = "complete" -> CompleteApplication(cmd)
      [] cmd.op = "verify"   -> RecordVerification(cmd)

\* The row change and its companions commit together or not at all.
Admitted(cmd) == Companions(cmd) /\ Dispatch(cmd) # {}
Commit(cmd) == rows' \in Dispatch(cmd) /\ facts' = Append(facts, Fact(cmd))

\* What the writer answers: committed, an exact replay, a corrupt audit, or
\* a refusal that leaves the store as it was.
Answer(cmd) == CASE Admitted(cmd) -> "ok"
                 [] ~Admitted(cmd) /\ Repeats(cmd) /\ Ambiguous(cmd) -> "corrupt"
                 [] ~Admitted(cmd) /\ Repeats(cmd) /\ ~Ambiguous(cmd) /\ Replayed(cmd) -> "ok"
                 [] OTHER -> "refused"

(***************************************************************************)
(* The callers.                                                            *)
(***************************************************************************)

Set(c, r) == call' = [call EXCEPT ![c] = r]

\* A call that has returned or raised keeps only the copies of its last
\* command the writer still has to run.
Ended(c, how, fly) == [Idle EXCEPT !.pc = how, !.fly = fly,
                                   !.cmd = IF fly > 0 THEN call[c].cmd ELSE NoCmd]
Finish(c, how) == Set(c, Ended(c, how, call[c].fly))

\* The first action of the plan the call has not seen applied.
Act(r) == Min(Actions \ r.did)

\* Mutant: the target is called before the attempt is durable.
MutOnward(r) == [r EXCEPT !.pc = IF r.did = Actions THEN "complete" ELSE "target",
                          !.att = 0, !.amb = 0]

\* On to the next action of the plan as it was read, or to the end.
Onward(r) == IF r.did = Actions
               THEN [r EXCEPT !.pc = "complete", !.att = 0, !.amb = 0]
               ELSE [r EXCEPT !.pc = "attempt", !.att = 0, !.amb = 0]

\* Submit a command built from the rows as they are read now.
Sent(r, op) ==
    [r EXCEPT !.pc = "wait", !.fly = 1, !.tries = 1,
              !.cmd = [op |-> op, exp |-> Len(facts), ver |-> r.claim, res |-> r.res, by |-> r.by,
                       act |-> IF op \in {"attempt", "resolved", "applied", "failed"}
                                 THEN Act(r) ELSE 0]]

Go(c, op, s, res) ==
    Set(c, Sent([Idle EXCEPT !.by = s, !.claim = plan.ver, !.res = res], op))

\* Persist one analysis: the snapshot of a run is immutable.
StartPersist(c, s) ==
    /\ "persist" \in Kind[c]
    /\ \E x \in Analyses :
          IF summary = None THEN Go(c, "persist", s, x)
          ELSE Finish(c, IF summary = x THEN "done" ELSE "refused")

\* Create the plan of the persisted analysis, or find it.
StartCreate(c, s) ==
    /\ "create" \in Kind[c]
    /\ \E x \in Analyses :
          IF summary # x THEN Finish(c, "refused")
          ELSE IF plan.status # "none" THEN Finish(c, "done")
          ELSE Go(c, "create", s, x)

\* Approve or reject a proposed plan; the same decision again is confirmed.
ApprovedBy(s) == \E i \in DOMAIN facts : facts[i].op = "approve" /\ facts[i].by = s

StartApprove(c, s) ==
    /\ "approve" \in Kind[c]
    /\ IF plan.status = "proposed" THEN Go(c, "approve", s, None)
       ELSE Finish(c, IF ApprovedBy(s) THEN "done" ELSE "refused")

StartReject(c, s) ==
    /\ "reject" \in Kind[c]
    /\ IF plan.status = "proposed" THEN Go(c, "reject", s, None)
       ELSE Finish(c, IF plan.status = "rejected" THEN "done" ELSE "refused")

\* Apply: begin an approved plan, resume an applying one from the row as it
\* is now, report an applied one, refuse the rest.
StartApply(c, s) ==
    /\ "apply" \in Kind[c]
    /\ CASE plan.status = "approved" ->
               Set(c, [Idle EXCEPT !.pc = "begin", !.by = s, !.claim = plan.ver])
         [] plan.status = "applying" ->
               Set(c, Onward([Idle EXCEPT !.by = s, !.claim = plan.ver,
                              !.did = {a \in Actions : acts[a].status = "applied"}]))
         [] plan.status = "applied" -> Finish(c, "done")
         [] OTHER -> Finish(c, "refused")

\* Verify: the opening snapshot of the target.
StartVerify(c, s) ==
    /\ "verify" \in Kind[c]
    /\ Set(c, [Idle EXCEPT !.pc = "watch", !.by = s, !.claim = Len(target.log),
                           !.seen = Nothing])

Start(c) ==
    /\ call[c].pc = "idle"
    /\ \E s \in Stamps[c] : \/ StartPersist(c, s) \/ StartCreate(c, s) \/ StartApprove(c, s)
                            \/ StartReject(c, s) \/ StartApply(c, s) \/ StartVerify(c, s)
    /\ UNCHANGED <<store, target, wire, faults>>

\* Apply reads the frontier anew for each of its commands.  An attempt is
\* counted when the loop is entered.
Submit(c) ==
    /\ call[c].pc \in {"begin", "attempt", "resolved", "applied", "failed", "complete"}
    /\ LET r == call[c]
       IN Set(c, Sent([r EXCEPT !.att = IF r.pc = "attempt" THEN @ + 1 ELSE @], r.pc))
    /\ UNCHANGED <<store, target, wire, faults>>

\* What a call does once its command is known to have run.
Continue(c) ==
    LET r == [call[c] EXCEPT !.fly = 0, !.tries = 0, !.cmd = NoCmd, !.res = None]
        op == call[c].cmd.op
    IN CASE op = "begin"    -> Onward([r EXCEPT !.claim = plan'.ver])
         [] op = "attempt"  -> [r EXCEPT !.pc = "target"]
         [] op = "resolved" -> [r EXCEPT !.pc = "applied", !.res = call[c].res]
         [] op = "applied"  -> Onward([r EXCEPT !.did = @ \union {Act(r)}, !.claim = plan'.ver])
         [] op = "failed"   -> Ended(c, "reported", 0)
         [] OTHER           -> Ended(c, "done", 0)

\* The writer runs the oldest copy of a call's command; the answer reaches
\* the caller only if it still waits for this copy, and may be lost.
Run(c) ==
    /\ call[c].fly > 0
    /\ LET cmd == call[c].cmd
           answer == Answer(cmd)
           heard == call[c].pc = "wait" /\ call[c].fly = 1
       IN /\ IF Admitted(cmd) THEN Commit(cmd) ELSE UNCHANGED store
          /\ \/ /\ heard
                /\ Set(c, IF answer = "ok" THEN Continue(c) ELSE Ended(c, answer, 0))
                /\ UNCHANGED faults
             \/ /\ IF heard THEN Fault ELSE UNCHANGED faults
                /\ Set(c, IF call[c].pc = "wait" THEN [call[c] EXCEPT !.fly = @ - 1]
                          ELSE Ended(c, call[c].pc, call[c].fly - 1))
    /\ UNCHANGED <<target, wire>>

\* The writer fails a command without running it, and says so or does not
\* know.
Fail(c) ==
    /\ call[c].pc = "wait" /\ call[c].fly > 0
    /\ \/ call[c].fly = 1 /\ Set(c, Ended(c, "refused", 0))
       \/ Set(c, [call[c] EXCEPT !.fly = @ - 1])
    /\ Fault
    /\ UNCHANGED <<store, target, wire>>

Replays(op) == IF op \in {"approve", "reject", "verify"} THEN 1 ELSE MaxReplays

\* The outcome is unknown to the caller: submit the identical command again,
\* or give up.
GiveUp(c) ==
    /\ call[c].pc = "wait"
    /\ LET r == call[c]
       IN IF r.tries < Replays(r.cmd.op)
            THEN Set(c, [r EXCEPT !.fly = @ + 1, !.tries = @ + 1])
            ELSE Finish(c, IF r.cmd.op \in {"attempt", "resolved", "applied", "failed"}
                             THEN "unresolved" ELSE "refused")
    /\ IF call[c].fly > 0 THEN Fault ELSE UNCHANGED faults
    /\ UNCHANGED <<store, target, wire>>

(***************************************************************************)
(* The target.                                                             *)
(***************************************************************************)
Contents == target.log[Len(target.log)]

\* Mutant: a retry is recognised by the record's contents, not by its key.
MutUpsert(a) == IF Contents[a] = "new" THEN "replayed" ELSE "applied"

\* Idempotency key first, precondition second, both in the turn of the write.
Upsert(a) == IF target.keys[a] # None THEN "replayed"
             ELSE IF Contents[a] = "old" THEN "applied" ELSE "conflict"

Write(a) ==
    target' = IF Upsert(a) = "applied"
                THEN [log |-> Append(target.log, [Contents EXCEPT ![a] = "new"]),
                      keys |-> [target.keys EXCEPT ![a] = Len(target.log) + 1]]
                ELSE target

Failing(r) == [r EXCEPT !.pc = "failed", !.res = [out |-> "failed", att |-> r.att]]

\* The request is handled and its answer arrives.
Handled(c) ==
    /\ call[c].pc = "target"
    /\ LET r == call[c]
           a == Act(r)
           out == Upsert(a)
       IN /\ Write(a)
          /\ Set(c, IF out = "conflict" THEN Failing(r)
                    ELSE [r EXCEPT !.pc = IF r.amb > 0 THEN "resolved" ELSE "applied",
                                   !.res = [out |-> out, att |-> r.att]])
    /\ UNCHANGED <<store, wire, faults>>

\* The request ends in an error: refused for good, before it had an effect; or worth a
\* retry while attempts are left, or of a kind the applier does not know.  The latter two
\* (a timeout, a failing server) leave open whether it has an effect.
Rejected(c) ==
    /\ call[c].pc = "target"
    /\ \/ Set(c, Failing(call[c])) /\ UNCHANGED wire
       \/ /\ \/ Set(c, IF call[c].att >= MaxAttempts THEN Failing(call[c])
                       ELSE [call[c] EXCEPT !.pc = "attempt"])
             \/ Finish(c, "unresolved")
          /\ wire' \in {wire, [wire EXCEPT ![Act(call[c])] = @ + 1]}
    /\ Fault
    /\ UNCHANGED <<store, target>>

\* The request was sent and nothing came back: it may still arrive, or have
\* arrived, or never will.
Unanswered(c) ==
    /\ call[c].pc = "target"
    /\ wire' = [wire EXCEPT ![Act(call[c])] = @ + 1]
    /\ LET r == [call[c] EXCEPT !.amb = @ + 1]
       IN IF r.amb > MaxAmbiguous THEN Finish(c, "unresolved")
          ELSE Set(c, [r EXCEPT !.pc = "attempt"])
    /\ Fault
    /\ UNCHANGED <<store, target>>

\* A request without a waiting sender reaches the target.
Arrive(a) ==
    /\ wire[a] > 0
    /\ wire' = [wire EXCEPT ![a] = @ - 1]
    /\ Write(a)
    /\ UNCHANGED <<store, call, faults>>

\* The caller cancels: before the next attempt, or while the target answers.
Cancel(c) ==
    /\ call[c].pc \in {"attempt", "target"}
    /\ \/ call[c].pc = "attempt" /\ UNCHANGED wire
       \/ call[c].pc = "target" /\ wire' = [wire EXCEPT ![Act(call[c])] = @ + 1]
    /\ Finish(c, "interrupted")
    /\ Fault
    /\ UNCHANGED <<store, target>>

\* Another system writes to the target.
Outside(a) ==
    /\ Contents[a] # "other"
    /\ target' = [target EXCEPT !.log = Append(@, [Contents EXCEPT ![a] = "other"])]
    /\ Fault
    /\ UNCHANGED <<store, wire, call>>

(***************************************************************************)
(* Verification: opening snapshot, one page after another, closing         *)
(* snapshot, then the record.                                              *)
(***************************************************************************)
Page(c) ==
    /\ call[c].pc = "watch"
    /\ \E a \in Actions :
          /\ call[c].seen[a] = None
          /\ \A b \in Actions : b < a => call[c].seen[b] # None
          /\ Set(c, [call[c] EXCEPT !.seen[a] = Contents[a]])
    /\ UNCHANGED <<store, target, wire, faults>>

\* Mutant: the closing snapshot is not compared with the opening one.
MutCoherent(c) == TRUE

\* The observation counts only if the target did not change meanwhile.
Coherent(c) == call[c].claim = Len(target.log)

Unobserved == [id |-> Nothing, verdict |-> "observation_failed", ver |-> 0]

Verdict(c) ==
    IF ~Coherent(c) THEN Unobserved
    ELSE [id |-> call[c].seen, ver |-> Len(target.log),
          verdict |-> IF call[c].seen = Repaired THEN "holding" ELSE "divergent"]

Close(c) ==
    /\ call[c].pc = "watch"
    /\ \A a \in Actions : call[c].seen[a] # None
    /\ Set(c, [call[c] EXCEPT !.pc = "record", !.seen = Nothing, !.claim = 0, !.res = Verdict(c)])
    /\ UNCHANGED <<store, target, wire, faults>>

\* A call to the target fails.
Blind(c) ==
    /\ call[c].pc = "watch"
    /\ Set(c, [call[c] EXCEPT !.pc = "record", !.seen = Nothing, !.claim = 0, !.res = Unobserved])
    /\ Fault
    /\ UNCHANGED <<store, target, wire>>

\* A plan that is not applied is not verified; a fact recorded before is
\* returned.
Record(c) ==
    /\ call[c].pc = "record"
    /\ LET same == {v \in verified : v.id = call[c].res.id}
       IN CASE plan.status # "applied" -> Finish(c, "refused")
            [] plan.status = "applied" /\ same # {} ->
                  Finish(c, IF call[c].res \in same THEN "done" ELSE "refused")
            [] OTHER -> Set(c, Sent(call[c], "verify"))
    /\ UNCHANGED <<store, target, wire, faults>>

\* The process dies: the calls and the commands the writer had not run are
\* gone, the rows and what is on its way to the target stay.
Crash ==
    /\ Fault
    /\ call' = [c \in Calls |-> IF call[c].pc \in Final \union {"idle"}
                                  THEN [Idle EXCEPT !.pc = call[c].pc]
                                  ELSE [Idle EXCEPT !.pc = "lost"]]
    /\ UNCHANGED <<store, target, wire>>

Step(c) == \/ Submit(c) \/ Run(c) \/ Fail(c) \/ GiveUp(c)
           \/ Handled(c) \/ Rejected(c) \/ Unanswered(c) \/ Cancel(c)
           \/ Page(c) \/ Close(c) \/ Blind(c) \/ Record(c)

Next == \/ \E c \in Calls : Start(c) \/ Step(c)
        \/ \E a \in Actions : Arrive(a) \/ Outside(a)
        \/ Crash

Spec == Init /\ [][Next]_vars

(***************************************************************************)
(* Properties.                                                             *)
(***************************************************************************)

\* The workflow keeps the promise of RepairPromise: authorisation before
\* effects, intention durable before dispatch, records that are true.
Promise == INSTANCE RepairPromise
             WITH status <- plan.status,
                  record <- [a \in Actions |-> acts[a].status],
                  tried <- {facts[i].act : i \in {j \in DOMAIN facts : facts[j].op = "attempt"}},
                  landed <- {a \in Actions : target.keys[a] # None}

ImplementsPromise == Promise!Spec

\* The target takes the repaired contents once per action.
WrittenOnce ==
    \A a \in Actions :
        Cardinality({i \in 2 .. Len(target.log) :
            target.log[i][a] = "new" /\ target.log[i - 1][a] # "new"}) <= 1

\* Concurrent callers and replays never record a decision twice: the plan's
\* row version is the number of plan-changing facts, each decision appears
\* once, and every action row has exactly the fact of its outcome.
Count(P(_)) == Cardinality({i \in DOMAIN facts : P(facts[i])})
RecordedOnce ==
    /\ plan.ver = Count(LAMBDA f : f.op \notin {"persist", "attempt", "verify"})
    /\ \A op \in {"persist", "create", "begin", "complete", "failed"} :
          Count(LAMBDA f : f.op = op) <= 1
    /\ Count(LAMBDA f : f.op \in {"approve", "reject"}) <= 1
    /\ \A a \in Actions :
          Count(LAMBDA f : f.op \in {"applied", "failed"} /\ f.act = a)
            = IF acts[a].status = "pending" THEN 0 ELSE 1

\* Replayed, delayed and concurrent requests for one idempotency key make one
\* effect, in the target and in the records.
OneEffectPerKey == WrittenOnce /\ RecordedOnce

\* A recorded parity was true of the whole target at one instant, the one
\* the record names, whatever was written while it was observed.
ParityWasTrue ==
    \A v \in verified : v.verdict = "holding" => target.log[v.ver] = Repaired

\* A command whose receipt was lost is replayed exactly and never reported
\* as corruption of the audit trail.
LostReceiptsRecover == \A c \in Calls : call[c].pc # "corrupt"

\* An effect that is recorded as failed does not reach the target.
FailedHasNoEffect ==
    \A a \in Actions : acts[a].status = "failed" => target.keys[a] = None
=============================================================================
