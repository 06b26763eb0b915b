---------------------------- MODULE Repair_proofs ----------------------------
(***************************************************************************)
(* Proofs about the repair workflow, for any set of calls, any number of   *)
(* actions and any bound on what goes wrong: it implements RepairPromise,  *)
(* whose promises hold; one idempotency key makes one effect, in the target*)
(* and in the records; a recorded parity was true of the whole target.     *)
(*                                                                         *)
(* And about the reconciliation core that says what to repair, for all     *)
(* contracts, keys and sides: the differences shown to a reader agree with *)
(* the classification, a plan applied to a target at rest reaches parity,  *)
(* and parity means that a second reconciliation finds nothing left.       *)
(***************************************************************************)
EXTENDS Repair, Reconcile, TLAPS, NaturalsInduction, FiniteSetTheorems, SequenceTheorems

\* A sequence of whatever elements.
IsSeq(s) == Len(s) \in Nat /\ s = [i \in 1 .. Len(s) |-> s[i]]

ActionOps == {"attempt", "resolved", "applied", "failed"}
Ops == {"persist", "create", "approve", "reject", "begin", "complete", "verify"} \cup ActionOps
Whole == Actions \cup {0}
Versions == [Actions -> {"old", "new", "other"}]

\* Records, by their fields.
IsRows(x) == DOMAIN x = {"summary", "verified", "plan", "acts"}
IsPlan(x) == DOMAIN x = {"status", "ver", "end"}
IsCall(x) == DOMAIN x = {"pc", "by", "cmd", "fly", "tries", "claim", "did", "att", "amb", "res", "seen"}

\* The rows, the facts and the target have their shapes.
StoreTyped ==
    /\ IsRows(rows) /\ IsPlan(plan)
    /\ plan.status \in Promise!Statuses /\ plan.ver \in Nat
    /\ acts = [a \in Actions |-> acts[a]]
    /\ \A a \in Actions : acts[a].status \in {"pending", "applied", "failed"}
    /\ IsSeq(facts)
TargetTyped ==
    /\ DOMAIN target = {"log", "keys"}
    /\ target.log \in Seq(Versions) /\ target.log # <<>>
    /\ target.keys \in [Actions -> Nat \cup {None}]
\* What the promise is about: the actions with an attempt on record, and those whose
\* effect the target has.
Tried == {facts[i].act : i \in {j \in DOMAIN facts : facts[j].op = "attempt"}}
Landed == {a \in Actions : target.keys[a] # None}

\* A verdict of parity names a version of the target that had it.
Observed(v, log) == v.verdict = "holding" => v.ver \in 1 .. Len(log) /\ log[v.ver] = Repaired

\* While the target stands still, what a verification has seen is what it holds.
Watching(r, log) ==
    /\ r.claim \in Nat /\ r.claim <= Len(log)
    /\ r.seen = [a \in Actions |-> r.seen[a]]
    /\ r.claim = Len(log) => \A a \in Actions : r.seen[a] # None => r.seen[a] = log[Len(log)][a]

\* A command the writer has yet to run, or may have to run again, says nothing false.
CommandTrue(cmd, tried, landed, log) ==
    /\ cmd.op \in Ops /\ cmd.act \in Whole /\ cmd.exp \in Nat
    /\ cmd.op = "persist" => cmd.res \in Analyses
    /\ cmd.op \in ActionOps => cmd.act \in Actions
    /\ cmd.op \in {"resolved", "applied"} => cmd.act \in landed
    /\ cmd.op = "failed" => cmd.act \in tried
    /\ cmd.op = "verify" => Observed(cmd.res, log)

\* Where a call is tells what it may believe of the action it is at.
PlaceTrue(r, tried, landed, log) ==
    /\ r.pc \in ActionOps \cup {"target"} => r.did # Actions
    /\ r.pc \in {"target", "failed"} => Act(r) \in tried
    /\ r.pc \in {"resolved", "applied"} => Act(r) \in landed
    /\ r.pc = "wait" /\ r.cmd.op \in ActionOps => r.did # Actions /\ r.cmd.act = Act(r)
    /\ r.pc = "watch" => Watching(r, log)
    /\ r.pc = "record" => Observed(r.res, log)

CallTrue(r, tried, landed, log) ==
    /\ IsCall(r) /\ r.fly \in Nat /\ r.did \subseteq Actions
    /\ r.fly > 0 => r.pc = "wait" \/ r.pc \in Final
    /\ r.pc = "wait" \/ r.fly > 0 => CommandTrue(r.cmd, tried, landed, log)
    /\ PlaceTrue(r, tried, landed, log)

CallsTrue ==
    /\ call = [c \in Calls |-> call[c]]
    /\ \A c \in Calls : CallTrue(call[c], Tried, Landed, target.log)

\* An effect was tried before it landed, a trial belongs to a plan that was begun, and
\* the rows tell what happened.
Begun == {"applying", "applied", "failed"}
PromiseInv ==
    /\ Landed \subseteq Tried
    /\ Tried # {} => plan.status \in Begun
    /\ wire \in [Actions -> Nat] /\ \A a \in Actions : wire[a] > 0 => a \in Tried
    /\ \A a \in Actions : acts[a].status = "applied" => a \in Landed
    /\ \A a \in Actions : acts[a].status = "failed" => plan.status = "failed"
    /\ plan.status = "applied" => \A a \in Actions : acts[a].status = "applied"

\* The version that repaired an action is the one its key names.
KeysTell ==
    \A a \in Actions : \A i \in 2 .. Len(target.log) :
        target.log[i][a] = "new" /\ target.log[i - 1][a] # "new" => target.keys[a] = i

ParityInv == \A v \in verified : Observed(v, target.log)

\* The facts with one of some operations, about one of some actions (0: about the plan).
Of(f, ops, as) == f.op \in ops /\ f.act \in as
Among(ops, as) == {i \in DOMAIN facts : Of(facts[i], ops, as)}
HowMany(ops, as) == Cardinality(Among(ops, as))
Was(b) == IF b THEN 1 ELSE 0

\* The operations the promise counts.
One(op) == {op}
Decisions == {"approve", "reject"}
Outcomes == {"applied", "failed"}
PlanOps == Ops \ {"persist", "attempt", "verify"}

\* The facts count what the rows went through.
FactsTell ==
    /\ \A i \in DOMAIN facts : facts[i].op \in Ops /\ facts[i].act \in Whole
    /\ plan.ver = HowMany(PlanOps, Whole)
    /\ HowMany(One("persist"), Whole) = Was(summary # None)
    /\ HowMany(One("create"), Whole) = Was(plan.status # "none")
    /\ HowMany(Decisions, Whole) = Was(plan.status \notin {"none", "proposed"})
    /\ HowMany(One("begin"), Whole) = Was(plan.status \in Begun)
    /\ HowMany(One("complete"), Whole) = Was(plan.status = "applied")
    /\ HowMany(One("failed"), Whole) = Was(plan.status = "failed")
    /\ \A a \in Actions : HowMany(Outcomes, One(a)) = Was(acts[a].status # "pending")

RepairInv ==
    /\ StoreTyped /\ TargetTyped /\ CallsTrue
    /\ PromiseInv /\ KeysTell /\ ParityInv /\ FactsTell

\* Any sequence grows at its end, whatever its elements are.
LEMMA Appended ==
    ASSUME NEW s, IsSeq(s), NEW x
    PROVE  /\ IsSeq(Append(s, x)) /\ Len(Append(s, x)) = Len(s) + 1
           /\ \A i \in 1 .. Len(s) : Append(s, x)[i] = s[i]
           /\ Append(s, x)[Len(s) + 1] = x
           /\ DOMAIN s = 1 .. Len(s) /\ DOMAIN Append(s, x) = 1 .. (Len(s) + 1)
  <1> DEFINE S == {s[i] : i \in 1 .. Len(s)} \cup {x}
  <1>1. s \in [1 .. Len(s) -> S]
    BY DEF IsSeq
  <1>2. s \in Seq(S) /\ x \in S /\ Len(s) \in Nat
    BY <1>1 DEF IsSeq
  <1> HIDE DEF S
  <1>3. /\ Append(s, x) \in Seq(S) /\ Len(Append(s, x)) = Len(s) + 1
        /\ \A i \in 1 .. Len(s) : Append(s, x)[i] = s[i]
        /\ Append(s, x)[Len(s) + 1] = x
    BY <1>2, AppendProperties
  <1>4. DOMAIN s = 1 .. Len(s) /\ Append(s, x) = [i \in 1 .. Len(Append(s, x)) |-> Append(s, x)[i]]
    BY <1>2, <1>3, LenProperties
  <1>5. Len(Append(s, x)) \in Nat /\ DOMAIN Append(s, x) = 1 .. (Len(s) + 1)
    BY <1>2, <1>3, <1>4
  <1> QED
    BY <1>3, <1>4, <1>5 DEF IsSeq

\* A set of numbers that is not empty has a least element, the one Min chooses.
LEMMA LeastNatural ==
    ASSUME NEW T, T \subseteq Nat, T # {}
    PROVE  Min(T) \in T
  <1>1. PICK n \in T : \A m \in T : ~ <<m, n>> \in OpToRel(<, Nat)
    BY NatLessThanWellFounded, WFMin
  <1>2. ASSUME NEW m \in T, m < n
        PROVE  <<m, n>> \in OpToRel(<, Nat)
    BY <1>2, Zenon DEF OpToRel
  <1>3. \A m \in T : ~ (m < n)
    BY <1>1, <1>2
  <1>4. \E x \in T : \A y \in T : x <= y
    BY <1>3
  <1> QED
    BY <1>4, Zenon DEF Min

\* The next action of a call that is not through with the plan is one of the plan.
LEMMA ActInPlan ==
    ASSUME NEW r, r.did \subseteq Actions, r.did # Actions
    PROVE  Act(r) \in Actions /\ Act(r) \notin r.did
  <1>1. Actions \subseteq Nat
    BY DEF Actions
  <1>2. Actions \ r.did # {} /\ Actions \ r.did \subseteq Nat
    BY <1>1
  <1> QED
    BY <1>2, LeastNatural DEF Act

\* The log of the target only grows.
Grown(g, h) == h = g \/ \E v \in Versions : h = Append(g, v)
Log(g) == g \in Seq(Versions) /\ g # <<>>

\* What a longer log keeps of a shorter one.
LEMMA LogGrown ==
    ASSUME NEW g, Log(g), NEW h, Grown(g, h)
    PROVE  /\ Log(h) /\ Len(g) \in Nat \ {0} /\ Len(h) \in {Len(g), Len(g) + 1}
           /\ \A i \in 1 .. Len(g) : h[i] = g[i] /\ g[i] \in Versions
           /\ Len(h) = Len(g) => h = g
  <1>1. CASE h = g
    BY <1>1 DEF Log
  <1>2. ASSUME NEW v \in Versions, h = Append(g, v)
        PROVE  /\ Log(h) /\ Len(g) \in Nat \ {0} /\ Len(h) = Len(g) + 1
               /\ \A i \in 1 .. Len(g) : h[i] = g[i] /\ g[i] \in Versions
    BY <1>2 DEF Log
  <1> QED
    BY <1>1, <1>2 DEF Grown

\* What is true of a call stays true while attempts are recorded, effects land and
\* the log grows.
LEMMA ObservedGrows ==
    ASSUME NEW g, Log(g), NEW h, Grown(g, h), NEW v, Observed(v, g)
    PROVE  Observed(v, h)
  BY LogGrown DEF Observed

\* A true command stays true when trials, effects and versions are added.
LEMMA CommandGrows ==
    ASSUME NEW g, Log(g), NEW h, Grown(g, h), NEW t, NEW u, t \subseteq u,
           NEW k, NEW l, k \subseteq l, NEW cmd, CommandTrue(cmd, t, k, g)
    PROVE  CommandTrue(cmd, u, l, h)
  BY ObservedGrows DEF CommandTrue

\* What a verification has seen of an older version claims nothing of a newer one.
LEMMA WatchingGrows ==
    ASSUME NEW g, Log(g), NEW h, Grown(g, h), NEW r, Watching(r, g)
    PROVE  Watching(r, h)
  BY LogGrown DEF Watching

\* A call that says nothing false says nothing false later.
LEMMA CallGrows ==
    ASSUME NEW g, Log(g), NEW h, Grown(g, h), NEW t, NEW u, t \subseteq u,
           NEW k, NEW l, k \subseteq l, NEW r, CallTrue(r, t, k, g)
    PROVE  CallTrue(r, u, l, h)
  <1>1. r.pc = "wait" \/ r.fly > 0 => CommandTrue(r.cmd, u, l, h)
    BY CommandGrows DEF CallTrue
  <1>2. PlaceTrue(r, u, l, h)
    BY ObservedGrows, WatchingGrows DEF CallTrue, PlaceTrue
  <1> QED
    BY <1>1, <1>2 DEF CallTrue

\* A step of one call, which leaves it somewhere true.
StoreGrows ==
    /\ Tried \subseteq Tried' /\ Landed \subseteq Landed'
    /\ Log(target.log) /\ Grown(target.log, target.log')

\* One call moves to a place it may be at, while rows and target only grow.
LEMMA OthersKept ==
    ASSUME CallsTrue, StoreGrows, NEW c \in Calls, NEW r, call' = [call EXCEPT ![c] = r],
           CallTrue(r, Tried', Landed', target.log')
    PROVE  CallsTrue'
  <1>1. \A d \in Calls : CallTrue(call[d], Tried', Landed', target.log')
    BY CallGrows DEF CallsTrue, StoreGrows
  <1>2. call' = [d \in Calls |-> call'[d]] /\ call'[c] = r /\ \A d \in Calls : d # c => call'[d] = call[d]
    BY DEF CallsTrue
  <1> QED
    BY <1>1, <1>2 DEF CallsTrue

\* No call moves, while rows and target only grow.
LEMMA NoneMoved ==
    ASSUME CallsTrue, StoreGrows, call' = call
    PROVE  CallsTrue'
  BY CallGrows DEF CallsTrue, StoreGrows

\* Where the steps of a call leave it: returned, at its next action, waiting for the
\* writer.
LEMMA EndedTrue ==
    ASSUME NEW c \in Calls, NEW how \in Final, NEW n \in Nat, NEW t, NEW k, NEW g,
           n > 0 => CommandTrue(call[c].cmd, t, k, g)
    PROVE  CallTrue(Ended(c, how, n), t, k, g)
  <1> DEFINE r == Ended(c, how, n)
  <1>1. /\ IsCall(r) /\ r.pc = how /\ r.fly = n /\ r.did = {}
        /\ n > 0 => r.cmd = call[c].cmd
    BY DEF Ended, Idle, IsCall
  <1>2. PlaceTrue(r, t, k, g)
    BY <1>1 DEF PlaceTrue, Final, ActionOps
  <1> HIDE DEF r
  <1>3. CallTrue(r, t, k, g)
    BY <1>1, <1>2 DEF CallTrue, Final
  <1> QED
    BY <1>3 DEF r

\* The next place of a call with no command under way asks for nothing it does not know.
LEMMA OnwardTrue ==
    ASSUME NEW r, IsCall(r), r.fly = 0, r.did \subseteq Actions, NEW t, NEW k, NEW g
    PROVE  CallTrue(Onward(r), t, k, g)
  <1> DEFINE q == Onward(r)
  <1>1. /\ IsCall(q) /\ q.fly = 0 /\ q.did = r.did
        /\ \/ q.pc = "complete"
           \/ q.pc = "attempt" /\ r.did # Actions
    BY DEF Onward, IsCall
  <1> HIDE DEF q
  <1>2. CallTrue(q, t, k, g)
    BY <1>1 DEF CallTrue, PlaceTrue, ActionOps, Final
  <1> QED
    BY <1>2 DEF q

\* A command built from what its call knows says nothing false.
LEMMA SentTrue ==
    ASSUME RepairInv, NEW r, IsCall(r), r.did \subseteq Actions, NEW op \in Ops, NEW t, NEW k, NEW g,
           op = "persist" => r.res \in Analyses,
           op \in ActionOps => r.did # Actions,
           op \in {"resolved", "applied"} => Act(r) \in k,
           op = "failed" => Act(r) \in t,
           op = "verify" => Observed(r.res, g)
    PROVE  CallTrue(Sent(r, op), t, k, g)
  <1> DEFINE q == Sent(r, op)
  <1>1. /\ IsCall(q) /\ q.fly = 1 /\ q.did = r.did /\ q.pc = "wait"
        /\ q.cmd.op = op /\ q.cmd.res = r.res /\ q.cmd.exp = Len(facts) /\ Len(facts) \in Nat
        /\ q.cmd.act = IF op \in ActionOps THEN Act(r) ELSE 0
    BY DEF Sent, IsCall, ActionOps, RepairInv, StoreTyped, IsSeq
  <1>2. Act(q) = Act(r)
    BY <1>1 DEF Act
  <1>3. op \in ActionOps => Act(r) \in Actions
    BY ActInPlan
  <1> HIDE DEF q
  <1>4. CommandTrue(q.cmd, t, k, g)
    BY <1>1, <1>3 DEF CommandTrue, Whole, ActionOps
  <1>5. PlaceTrue(q, t, k, g)
    BY <1>1, <1>2 DEF PlaceTrue, ActionOps
  <1>6. CallTrue(q, t, k, g)
    BY <1>1, <1>4, <1>5 DEF CallTrue
  <1> QED
    BY <1>6 DEF q

\* What the steps of a call that leave the store and the target alone need.
LEMMA StoreStands ==
    ASSUME TargetTyped, UNCHANGED <<store, target>>
    PROVE  StoreGrows /\ Tried' = Tried /\ Landed' = Landed
  BY DEF StoreGrows, TargetTyped, Log, Grown, Tried, Landed, store

\* One call moves and neither rows nor target change.
LEMMA StoodCall ==
    ASSUME RepairInv, UNCHANGED <<store, target>>, NEW c \in Calls, NEW r, Set(c, r),
           CallTrue(r, Tried, Landed, target.log)
    PROVE  CallsTrue'
  BY StoreStands, OthersKept DEF RepairInv, Set

\* A call ends.
LEMMA FinishTrue ==
    ASSUME RepairInv, UNCHANGED <<store, target>>, NEW c \in Calls, NEW how \in Final,
           Finish(c, how)
    PROVE  CallsTrue'
  <1>1. call[c].fly \in Nat /\ CallTrue(call[c], Tried, Landed, target.log)
    BY DEF RepairInv, CallsTrue, CallTrue
  <1>2. CallTrue(Ended(c, how, call[c].fly), Tried, Landed, target.log)
    BY <1>1, EndedTrue DEF CallTrue
  <1> QED
    BY <1>2, StoodCall DEF Finish

\* A call submits the command of its service.
LEMMA GoTrue ==
    ASSUME RepairInv, UNCHANGED <<store, target>>, NEW c \in Calls, NEW op \in Ops \ ActionOps,
           NEW s, NEW x, op # "verify", op = "persist" => x \in Analyses, Go(c, op, s, x)
    PROVE  CallsTrue'
  <1> DEFINE r == [Idle EXCEPT !.by = s, !.claim = plan.ver, !.res = x]
  <1>1. IsCall(r) /\ r.did = {} /\ r.res = x
    BY DEF Idle, IsCall
  <1> HIDE DEF r
  <1>2. CallTrue(Sent(r, op), Tried, Landed, target.log)
    BY <1>1, SentTrue DEF ActionOps
  <1>3. Set(c, Sent(r, op))
    BY DEF Go, r
  <1> QED
    BY <1>2, <1>3, StoodCall

\* A service call begins.
LEMMA StartTrue ==
    ASSUME RepairInv, NEW c \in Calls, Start(c)
    PROVE  CallsTrue'
  <1>1. PICK s \in Stamps[c] : \/ StartPersist(c, s) \/ StartCreate(c, s) \/ StartApprove(c, s)
                               \/ StartReject(c, s) \/ StartApply(c, s) \/ StartVerify(c, s)
    BY DEF Start
  <1>2. UNCHANGED <<store, target>>
    BY DEF Start
  <1>3. {"done", "refused"} \subseteq Final /\ {"persist", "create", "approve", "reject"} \subseteq Ops \ ActionOps
    BY DEF Final, Ops, ActionOps
  <1>4. CASE StartPersist(c, s)
    BY <1>2, <1>3, <1>4, GoTrue, FinishTrue DEF StartPersist
  <1>5. CASE StartCreate(c, s)
    BY <1>2, <1>3, <1>5, GoTrue, FinishTrue DEF StartCreate
  <1>6. CASE StartApprove(c, s)
    BY <1>2, <1>3, <1>6, GoTrue, FinishTrue DEF StartApprove
  <1>7. CASE StartReject(c, s)
    BY <1>2, <1>3, <1>7, GoTrue, FinishTrue DEF StartReject
  <1>8. CASE StartApply(c, s)
    <2>1. CASE plan.status = "approved"
      <3> DEFINE r == [Idle EXCEPT !.pc = "begin", !.by = s, !.claim = plan.ver]
      <3>1. Set(c, r)
        BY <1>8, <2>1 DEF StartApply
      <3>2. CallTrue(r, Tried, Landed, target.log)
        BY DEF CallTrue, PlaceTrue, ActionOps, Idle, IsCall
      <3> HIDE DEF r
      <3> QED
        BY <1>2, <3>1, <3>2, StoodCall
    <2>2. CASE plan.status = "applying"
      <3> DEFINE r == [Idle EXCEPT !.by = s, !.claim = plan.ver,
                                   !.did = {a \in Actions : acts[a].status = "applied"}]
      <3>1. Set(c, Onward(r))
        BY <1>8, <2>2 DEF StartApply
      <3>2. IsCall(r) /\ r.fly = 0 /\ r.did \subseteq Actions
        BY DEF IsCall, Idle
      <3> HIDE DEF r
      <3> QED
        BY <1>2, <3>1, <3>2, OnwardTrue, StoodCall
    <2>3. CASE plan.status \notin {"approved", "applying"}
      BY <1>2, <1>3, <1>8, <2>3, FinishTrue DEF StartApply
    <2> QED
      BY <2>1, <2>2, <2>3
  <1>9. CASE StartVerify(c, s)
    <2> DEFINE r == [Idle EXCEPT !.pc = "watch", !.by = s, !.claim = Len(target.log), !.seen = Nothing]
    <2>1. Set(c, r)
      BY <1>9 DEF StartVerify
    <2>2. IsCall(r) /\ r.pc = "watch" /\ r.fly = 0 /\ r.did = {} /\ Watching(r, target.log)
      <3>1. Len(target.log) \in Nat
        BY DEF RepairInv, TargetTyped
      <3> QED
        BY <3>1 DEF IsCall, Idle, Watching, Nothing
    <2> HIDE DEF r
    <2>3. CallTrue(r, Tried, Landed, target.log)
      BY <2>2 DEF CallTrue, PlaceTrue, ActionOps, Final
    <2> QED
      BY <1>2, <2>1, <2>3, StoodCall
  <1> QED
    BY <1>1, <1>4, <1>5, <1>6, <1>7, <1>8, <1>9

\* What the invariant says of one call.
LEMMA CallNow ==
    ASSUME RepairInv, NEW c \in Calls
    PROVE  /\ CallTrue(call[c], Tried, Landed, target.log)
           /\ IsCall(call[c]) /\ call[c].fly \in Nat /\ call[c].did \subseteq Actions
           /\ PlaceTrue(call[c], Tried, Landed, target.log)
           /\ call[c].pc = "wait" \/ call[c].fly > 0 =>
                CommandTrue(call[c].cmd, Tried, Landed, target.log)
  BY DEF RepairInv, CallsTrue, CallTrue

\* The applier submits the next command of the plan or of the action it is at.
LEMMA SubmitTrue ==
    ASSUME RepairInv, NEW c \in Calls, Submit(c)
    PROVE  CallsTrue'
  <1> DEFINE r == [call[c] EXCEPT !.att = IF call[c].pc = "attempt" THEN call[c].att + 1 ELSE @]
  <1>1. Set(c, Sent(r, call[c].pc)) /\ UNCHANGED <<store, target>>
    BY DEF Submit
  <1>2. IsCall(r) /\ r.did = call[c].did /\ Act(r) = Act(call[c]) /\ r.res = call[c].res
    BY CallNow DEF IsCall, Act
  <1>3. call[c].pc \in Ops \ {"persist", "verify"}
    BY DEF Submit, Ops, ActionOps
  <1> HIDE DEF r
  <1>4. CallTrue(Sent(r, call[c].pc), Tried, Landed, target.log)
    BY <1>2, <1>3, CallNow, SentTrue DEF PlaceTrue
  <1> QED
    BY <1>1, <1>4, StoodCall

\* A call that waits on, with a copy of its command more or less.
LEMMA StillWaits ==
    ASSUME NEW r, NEW q, NEW t, NEW k, NEW g, CallTrue(r, t, k, g), r.pc = "wait",
           IsCall(q), q.pc = "wait", q.cmd = r.cmd, q.did = r.did, q.fly \in Nat
    PROVE  CallTrue(q, t, k, g)
  <1>1. Act(q) = Act(r)
    BY DEF Act
  <1>2. PlaceTrue(q, t, k, g)
    BY <1>1 DEF CallTrue, PlaceTrue, ActionOps, Final
  <1> QED
    BY <1>2 DEF CallTrue

\* The writer fails a command, and says so or does not know.
LEMMA FailTrue ==
    ASSUME RepairInv, NEW c \in Calls, Fail(c)
    PROVE  CallsTrue'
  <1>1. UNCHANGED <<store, target>> /\ call[c].pc = "wait" /\ call[c].fly \in Nat /\ call[c].fly > 0
    BY CallNow DEF Fail
  <1>2. CASE Set(c, Ended(c, "refused", 0))
    <2>1. CallTrue(Ended(c, "refused", 0), Tried, Landed, target.log)
      BY EndedTrue DEF Final
    <2> QED
      BY <1>1, <1>2, <2>1, StoodCall
  <1>3. CASE Set(c, [call[c] EXCEPT !.fly = call[c].fly - 1])
    <2> DEFINE q == [call[c] EXCEPT !.fly = call[c].fly - 1]
    <2>1. IsCall(q) /\ q.pc = "wait" /\ q.cmd = call[c].cmd /\ q.did = call[c].did /\ q.fly \in Nat
      BY <1>1, CallNow DEF IsCall
    <2> HIDE DEF q
    <2>2. CallTrue(q, Tried, Landed, target.log)
      BY <1>1, <2>1, CallNow, StillWaits
    <2> QED
      BY <1>1, <1>3, <2>2, StoodCall DEF q
  <1> QED
    BY <1>2, <1>3 DEF Fail

\* The outcome is unknown: the identical command is submitted again, or the call ends.
LEMMA GiveUpTrue ==
    ASSUME RepairInv, NEW c \in Calls, GiveUp(c)
    PROVE  CallsTrue'
  <1> DEFINE r == call[c]
             q == [r EXCEPT !.fly = r.fly + 1, !.tries = r.tries + 1]
  <1>1. UNCHANGED <<store, target>> /\ r.pc = "wait" /\ r.fly \in Nat
    BY CallNow DEF GiveUp
  <1>2. CASE Set(c, q)
    <2>1. IsCall(q) /\ q.pc = "wait" /\ q.cmd = r.cmd /\ q.did = r.did /\ q.fly \in Nat
      BY <1>1, CallNow DEF IsCall
    <2> HIDE DEF q
    <2>2. CallTrue(q, Tried, Landed, target.log)
      BY <1>1, <2>1, CallNow, StillWaits
    <2> QED
      BY <1>1, <1>2, <2>2, StoodCall
  <1>3. CASE \E how \in Final : Finish(c, how)
    BY <1>1, <1>3, FinishTrue
  <1>4. Set(c, q) \/ Finish(c, "unresolved") \/ Finish(c, "refused")
    BY DEF GiveUp
  <1> QED
    BY <1>2, <1>3, <1>4 DEF Final

\* A request to the target that failed, or whose answer did not come.
LEMMA ToAttempt ==
    ASSUME NEW r, NEW t, NEW k, NEW g, CallTrue(r, t, k, g), r.pc = "target"
    PROVE  CallTrue([r EXCEPT !.pc = "attempt"], t, k, g)
  <1> DEFINE q == [r EXCEPT !.pc = "attempt"]
  <1>1. IsCall(q) /\ q.pc = "attempt" /\ q.cmd = r.cmd /\ q.did = r.did /\ q.fly = r.fly
    BY DEF IsCall, CallTrue
  <1> HIDE DEF q
  <1>2. CallTrue(q, t, k, g)
    BY <1>1 DEF CallTrue, PlaceTrue, ActionOps, Final
  <1> QED
    BY <1>2 DEF q

\* A target that refuses leaves an action that was tried.
LEMMA FailingTrue ==
    ASSUME NEW r, NEW t, NEW k, NEW g, CallTrue(r, t, k, g), r.pc = "target"
    PROVE  CallTrue(Failing(r), t, k, g)
  <1> DEFINE q == Failing(r)
  <1>1. IsCall(q) /\ q.pc = "failed" /\ q.cmd = r.cmd /\ q.did = r.did /\ q.fly = r.fly
    BY DEF IsCall, CallTrue, Failing
  <1>2. Act(q) = Act(r)
    BY <1>1 DEF Act
  <1> HIDE DEF q
  <1>3. CallTrue(q, t, k, g)
    BY <1>1, <1>2 DEF CallTrue, PlaceTrue, ActionOps, Final
  <1> QED
    BY <1>3 DEF q

\* The request ends in an error.
LEMMA RejectedTrue ==
    ASSUME RepairInv, NEW c \in Calls, Rejected(c)
    PROVE  CallsTrue'
  <1>1. UNCHANGED <<store, target>> /\ call[c].pc = "target"
    BY DEF Rejected
  <1>2. call[c].did # Actions
    BY <1>1, CallNow DEF PlaceTrue
  <1>3. /\ CallTrue(Failing(call[c]), Tried, Landed, target.log)
        /\ CallTrue([call[c] EXCEPT !.pc = "attempt"], Tried, Landed, target.log)
    BY <1>1, <1>2, CallNow, FailingTrue, ToAttempt
  <1>4. \/ Set(c, Failing(call[c])) \/ Set(c, [call[c] EXCEPT !.pc = "attempt"])
        \/ Finish(c, "unresolved")
    BY DEF Rejected
  <1> QED
    BY <1>1, <1>3, <1>4, StoodCall, FinishTrue DEF Final

\* No answer comes from the target.
LEMMA UnansweredTrue ==
    ASSUME RepairInv, NEW c \in Calls, Unanswered(c)
    PROVE  CallsTrue'
  <1> DEFINE r == [call[c] EXCEPT !.amb = call[c].amb + 1]
  <1>1. UNCHANGED <<store, target>> /\ call[c].pc = "target"
    BY DEF Unanswered
  <1>2. /\ IsCall(r) /\ r.pc = "target" /\ r.cmd = call[c].cmd /\ r.did = call[c].did
        /\ r.fly = call[c].fly /\ Act(r) = Act(call[c])
    BY <1>1, CallNow DEF IsCall, Act
  <1>3. Finish(c, "unresolved") \/ Set(c, [r EXCEPT !.pc = "attempt"])
    BY DEF Unanswered
  <1> HIDE DEF r
  <1>4. CallTrue(r, Tried, Landed, target.log)
    BY <1>1, <1>2, CallNow DEF CallTrue, PlaceTrue, ActionOps, Final
  <1>5. CallTrue([r EXCEPT !.pc = "attempt"], Tried, Landed, target.log)
    BY <1>2, <1>4, ToAttempt DEF CallTrue, PlaceTrue
  <1> QED
    BY <1>1, <1>3, <1>5, StoodCall, FinishTrue DEF Final

\* A call is cancelled before the next attempt or while the target answers.
LEMMA CancelTrue ==
    ASSUME RepairInv, NEW c \in Calls, Cancel(c)
    PROVE  CallsTrue'
  BY FinishTrue DEF Cancel, Final

\* The steps of a verification, and the crash.
LEMMA PageTrue ==
    ASSUME RepairInv, NEW c \in Calls, Page(c)
    PROVE  CallsTrue'
  <1>1. UNCHANGED <<store, target>> /\ call[c].pc = "watch"
    BY DEF Page
  <1>2. PICK a \in Actions : Set(c, [call[c] EXCEPT !.seen[a] = Contents[a]])
    BY DEF Page
  <1> DEFINE q == [call[c] EXCEPT !.seen[a] = Contents[a]]
  <1>3. Watching(call[c], target.log)
    BY <1>1, CallNow DEF PlaceTrue
  <1>4. /\ IsCall(q) /\ q.pc = "watch" /\ q.cmd = call[c].cmd /\ q.did = call[c].did
        /\ q.fly = call[c].fly /\ q.claim = call[c].claim
        /\ q.seen = [call[c].seen EXCEPT ![a] = target.log[Len(target.log)][a]]
    BY <1>1, CallNow DEF IsCall, Contents
  <1> HIDE DEF q
  <1>5. Watching(q, target.log)
    BY <1>3, <1>4 DEF Watching
  <1>6. CallTrue(q, Tried, Landed, target.log)
    BY <1>1, <1>4, <1>5, CallNow DEF CallTrue, PlaceTrue, ActionOps, Final
  <1> QED
    BY <1>1, <1>2, <1>6, StoodCall DEF q

\* A verification comes to record what it found.
LEMMA ToRecord ==
    ASSUME RepairInv, NEW c \in Calls, call[c].pc = "watch", UNCHANGED <<store, target>>,
           NEW v, Observed(v, target.log),
           Set(c, [call[c] EXCEPT !.pc = "record", !.seen = Nothing, !.claim = 0, !.res = v])
    PROVE  CallsTrue'
  <1> DEFINE q == [call[c] EXCEPT !.pc = "record", !.seen = Nothing, !.claim = 0, !.res = v]
  <1>1. /\ IsCall(q) /\ q.pc = "record" /\ q.cmd = call[c].cmd /\ q.did = call[c].did
        /\ q.fly = call[c].fly /\ q.res = v
    BY CallNow DEF IsCall
  <1>2. Set(c, q)
    OBVIOUS
  <1> HIDE DEF q
  <1>3. CallTrue(q, Tried, Landed, target.log)
    BY <1>1, CallNow DEF CallTrue, PlaceTrue, ActionOps, Final
  <1> QED
    BY <1>2, <1>3, StoodCall

\* The verifier has read all pages.
LEMMA CloseTrue ==
    ASSUME RepairInv, NEW c \in Calls, Close(c)
    PROVE  CallsTrue'
  <1>1. UNCHANGED <<store, target>> /\ call[c].pc = "watch" /\ \A a \in Actions : call[c].seen[a] # None
    BY DEF Close
  <1>2. Watching(call[c], target.log)
    BY <1>1, CallNow DEF PlaceTrue
  <1>3. Observed(Verdict(c), target.log)
    <2>1. CASE Coherent(c) /\ call[c].seen = Repaired
      <3>1. Len(target.log) \in Nat \ {0}
        BY DEF RepairInv, TargetTyped
      <3>2. Contents \in Versions
        BY <3>1 DEF Contents, RepairInv, TargetTyped
      <3>3. \A a \in Actions : Contents[a] = Repaired[a]
        BY <1>1, <1>2, <2>1 DEF Watching, Coherent, Contents
      <3>4. Contents = Repaired
        BY <3>2, <3>3 DEF Versions, Repaired
      <3> QED
        BY <2>1, <3>1, <3>4 DEF Observed, Verdict, Contents
    <2>2. CASE ~(Coherent(c) /\ call[c].seen = Repaired)
      BY <2>2 DEF Observed, Verdict, Unobserved
    <2> QED
      BY <2>1, <2>2
  <1>4. Set(c, [call[c] EXCEPT !.pc = "record", !.seen = Nothing, !.claim = 0, !.res = Verdict(c)])
    BY DEF Close
  <1> QED
    BY <1>1, <1>3, <1>4, ToRecord

\* A call of the verifier to the target fails.
LEMMA BlindTrue ==
    ASSUME RepairInv, NEW c \in Calls, Blind(c)
    PROVE  CallsTrue'
  <1>1. Observed(Unobserved, target.log)
    BY DEF Observed, Unobserved
  <1> QED
    BY <1>1, ToRecord DEF Blind

\* The verifier submits what it found.
LEMMA RecordTrue ==
    ASSUME RepairInv, NEW c \in Calls, Record(c)
    PROVE  CallsTrue'
  <1>1. UNCHANGED <<store, target>> /\ call[c].pc = "record"
    BY DEF Record
  <1>2. Observed(call[c].res, target.log)
    BY <1>1, CallNow DEF PlaceTrue
  <1>3. CallTrue(Sent(call[c], "verify"), Tried, Landed, target.log)
    BY <1>2, CallNow, SentTrue DEF ActionOps, Ops
  <1>4. Set(c, Sent(call[c], "verify")) \/ Finish(c, "refused") \/ Finish(c, "done")
    BY DEF Record
  <1> QED
    BY <1>1, <1>3, <1>4, StoodCall, FinishTrue DEF Final

\* The process dies: no call and no request of this process is left waiting.
LEMMA CrashTrue ==
    ASSUME RepairInv, Crash
    PROVE  CallsTrue'
  <1> DEFINE Rests == Final \cup {"idle"}
  <1>1. \A c \in Calls : \E how \in Rests : call'[c] = [Idle EXCEPT !.pc = how]
    BY DEF Crash, Final
  <1>2. ASSUME NEW how \in Rests, NEW t, NEW k, NEW g
        PROVE  CallTrue([Idle EXCEPT !.pc = how], t, k, g)
    <2> DEFINE q == [Idle EXCEPT !.pc = how]
    <2>1. IsCall(q) /\ q.pc = how /\ q.fly = 0 /\ q.did = {}
      BY DEF Idle, IsCall
    <2> HIDE DEF q
    <2>2. CallTrue(q, t, k, g)
      BY <2>1 DEF CallTrue, PlaceTrue, ActionOps, Final
    <2> QED
      BY <2>2 DEF q
  <1> HIDE DEF Rests
  <1>3. ASSUME NEW c \in Calls PROVE CallTrue(call'[c], Tried', Landed', target.log')
    <2>1. PICK how \in Rests : call'[c] = [Idle EXCEPT !.pc = how]
      BY <1>1
    <2> QED
      BY <1>2, <2>1
  <1>4. call' = [c \in Calls |-> call'[c]]
    BY DEF Crash
  <1> QED
    BY <1>3, <1>4 DEF CallsTrue

\* The target takes one more version, which differs from the one before at one action:
\* repaired under its key, or changed by another system.
Versioned(a, v) ==
    /\ v \in Versions /\ \A b \in Actions \ {a} : v[b] = Contents[b]
    /\ DOMAIN target' = {"log", "keys"} /\ target'.log = Append(target.log, v)
    /\ \/ v[a] # "new" /\ target'.keys = target.keys
       \/ target.keys[a] = None /\ target'.keys = [target.keys EXCEPT ![a] = Len(target.log) + 1]

\* One record of the target is written, its key keeps naming its first repair.
LEMMA VersionedTells ==
    ASSUME TargetTyped, KeysTell, NEW a \in Actions, NEW v, Versioned(a, v)
    PROVE  TargetTyped' /\ KeysTell' /\ Grown(target.log, target'.log) /\ Landed \subseteq Landed'
  <1> DEFINE n == Len(target.log)
  <1>1. /\ n \in Nat \ {0} /\ Len(target'.log) = n + 1 /\ target'.log[n + 1] = v
        /\ \A i \in 1 .. n : target'.log[i] = target.log[i]
        /\ target'.log \in Seq(Versions) /\ target'.log # <<>>
    BY DEF Versioned, TargetTyped
  <1> HIDE DEF n
  <1>2. TargetTyped'
    BY <1>1 DEF Versioned, TargetTyped, n
  <1>3. ASSUME NEW b \in Actions, NEW i \in 2 .. Len(target'.log),
               target'.log[i][b] = "new", target'.log[i - 1][b] # "new"
        PROVE  target'.keys[b] = i
    <2>1. CASE i \in 2 .. n
      <3>1. target'.log[i] = target.log[i] /\ target'.log[i - 1] = target.log[i - 1]
        BY <1>1, <2>1
      <3>2. i \in 2 .. Len(target.log)
        BY <2>1 DEF n
      <3>3. target.keys[b] = i
        BY <1>3, <3>1, <3>2 DEF KeysTell
      <3>4. i # None
        BY <1>1, <2>1, RepairAssumption
      <3> QED
        BY <3>3, <3>4 DEF Versioned, TargetTyped
    <2>2. CASE i = n + 1
      <3>1. v[b] = "new" /\ Contents[b] # "new"
        BY <1>1, <1>3, <2>2 DEF Contents, n
      <3>2. b = a
        BY <3>1 DEF Versioned
      <3> QED
        BY <2>2, <3>1, <3>2 DEF Versioned, TargetTyped, n
    <2> QED
      BY <1>1, <1>3, <2>1, <2>2
  <1>4. KeysTell'
    BY <1>3 DEF KeysTell
  <1>5. Grown(target.log, target'.log)
    BY DEF Versioned, Grown
  <1>6. Landed \subseteq Landed'
    BY <1>1, RepairAssumption DEF Versioned, TargetTyped, Landed, n
  <1> QED
    BY <1>2, <1>4, <1>5, <1>6

\* A request that reaches the target: its key is known, or its record is not what the
\* request expects, or it is repaired now.
LEMMA WriteEffect ==
    ASSUME TargetTyped, NEW a \in Actions, Write(a)
    PROVE  \/ target' = target /\ Upsert(a) \in {"replayed", "conflict"}
              /\ (Upsert(a) = "replayed" => a \in Landed)
           \/ /\ Upsert(a) = "applied" /\ a \notin Landed /\ Landed' = Landed \cup {a}
              /\ Versioned(a, [Contents EXCEPT ![a] = "new"])
  <1>1. CASE Upsert(a) = "applied"
    <2>1. target.keys[a] = None
      BY <1>1 DEF Upsert
    <2>2. Len(target.log) \in Nat \ {0} /\ Contents \in Versions
      BY DEF TargetTyped, Contents
    <2>3. /\ target' = [log |-> Append(target.log, [Contents EXCEPT ![a] = "new"]),
                        keys |-> [target.keys EXCEPT ![a] = Len(target.log) + 1]]
      BY <1>1 DEF Write
    <2>4. [Contents EXCEPT ![a] = "new"] \in Versions
          /\ \A b \in Actions \ {a} : [Contents EXCEPT ![a] = "new"][b] = Contents[b]
      BY <2>2 DEF Versions
    <2>5. Versioned(a, [Contents EXCEPT ![a] = "new"])
      BY <2>1, <2>3, <2>4 DEF Versioned
    <2>6. Landed' = Landed \cup {a} /\ a \notin Landed
      BY <2>1, <2>2, <2>3, RepairAssumption DEF Landed, TargetTyped
    <2> QED
      BY <1>1, <2>5, <2>6
  <1>2. CASE Upsert(a) # "applied"
    BY <1>2 DEF Write, Upsert, Landed
  <1> QED
    BY <1>1, <1>2

\* A step that leaves the rows and the facts as they are keeps what is said of them.
LEMMA StoreSame ==
    ASSUME RepairInv, UNCHANGED store
    PROVE  StoreTyped' /\ FactsTell' /\ Tried' = Tried /\ plan' = plan /\ acts' = acts
  <1>1. UNCHANGED <<rows, facts>>
    BY DEF store
  <1>2. /\ \A ops, as : HowMany(ops, as)' = HowMany(ops, as)
    BY <1>1 DEF HowMany, Among
  <1>3. StoreTyped' /\ Tried' = Tried /\ plan' = plan /\ acts' = acts
    BY <1>1 DEF RepairInv, StoreTyped, Tried, plan, acts
  <1>4. FactsTell'
    BY <1>1 DEF RepairInv, FactsTell, HowMany, Among, plan, acts, summary
  <1> QED
    BY <1>3, <1>4

\* What the target makes of a write leaves all that is said of store and target true.
LEMMA TargetStep ==
    ASSUME RepairInv, UNCHANGED store, NEW a \in Actions, NEW v, Versioned(a, v),
           wire' \in [Actions -> Nat], \A b \in Actions : wire'[b] > 0 => b \in Tried,
           Landed' \subseteq Tried
    PROVE  /\ StoreTyped' /\ TargetTyped' /\ PromiseInv' /\ KeysTell' /\ ParityInv' /\ FactsTell'
           /\ StoreGrows
  <1>1. /\ TargetTyped' /\ KeysTell' /\ Grown(target.log, target'.log) /\ Landed \subseteq Landed'
    BY VersionedTells DEF RepairInv
  <1>2. StoreTyped' /\ FactsTell' /\ Tried' = Tried /\ plan' = plan /\ acts' = acts
    BY StoreSame
  <1>3. Log(target.log)
    BY DEF Log, RepairInv, TargetTyped
  <1>4. ParityInv'
    BY <1>1, <1>3, ObservedGrows DEF ParityInv, RepairInv, verified, store
  <1>5. PromiseInv'
    BY <1>1, <1>2 DEF RepairInv, PromiseInv
  <1> QED
    BY <1>1, <1>2, <1>3, <1>4, <1>5 DEF StoreGrows

\* A step that leaves rows and target alone keeps what is said about them.
LEMMA TargetStands ==
    ASSUME RepairInv, UNCHANGED <<store, target>>,
           wire' \in [Actions -> Nat], \A b \in Actions : wire'[b] > 0 => b \in Tried
    PROVE  /\ StoreTyped' /\ TargetTyped' /\ PromiseInv' /\ KeysTell' /\ ParityInv' /\ FactsTell'
           /\ StoreGrows
  <1>1. StoreTyped' /\ FactsTell' /\ Tried' = Tried /\ plan' = plan /\ acts' = acts
    BY StoreSame
  <1>2. Landed' = Landed /\ TargetTyped' /\ KeysTell' /\ ParityInv'
    BY DEF RepairInv, Landed, TargetTyped, KeysTell, ParityInv, verified, store
  <1>3. PromiseInv'
    BY <1>1, <1>2 DEF RepairInv, PromiseInv
  <1> QED
    BY <1>1, <1>2, <1>3, StoreStands DEF RepairInv

\* A request on its way is one that was recorded.
LEMMA OnTheWire ==
    ASSUME RepairInv, NEW c \in Calls, call[c].pc = "target"
    PROVE  Act(call[c]) \in Actions /\ Act(call[c]) \in Tried
  BY CallNow, ActInPlan DEF PlaceTrue

\* The steps of a call by itself change neither rows nor target.
LEMMA StandingSteps ==
    ASSUME RepairInv, NEW c \in Calls,
           Start(c) \/ Submit(c) \/ Fail(c) \/ GiveUp(c) \/ Rejected(c) \/ Unanswered(c)
           \/ Cancel(c) \/ Page(c) \/ Close(c) \/ Blind(c) \/ Record(c)
    PROVE  RepairInv' /\ UNCHANGED <<store, target>>
  <1>1. UNCHANGED <<store, target>>
    BY DEF Start, Submit, Fail, GiveUp, Rejected, Unanswered, Cancel, Page, Close, Blind, Record
  <1>2. \/ wire' = wire
        \/ call[c].pc = "target" /\ wire' = [wire EXCEPT ![Act(call[c])] = wire[Act(call[c])] + 1]
    BY DEF Start, Submit, Fail, GiveUp, Rejected, Unanswered, Cancel, Page, Close, Blind, Record
  <1>3. wire' \in [Actions -> Nat] /\ \A b \in Actions : wire'[b] > 0 => b \in Tried
    BY <1>2, OnTheWire DEF RepairInv, PromiseInv
  <1>4. CallsTrue'
    BY StartTrue, SubmitTrue, FailTrue, GiveUpTrue, RejectedTrue, UnansweredTrue, CancelTrue, PageTrue,
       CloseTrue, BlindTrue, RecordTrue
  <1> QED
    BY <1>1, <1>3, <1>4, TargetStands DEF RepairInv

\* A crash changes neither rows nor target.
LEMMA CrashStep ==
    ASSUME RepairInv, Crash
    PROVE  RepairInv' /\ UNCHANGED <<store, target>>
  <1>1. UNCHANGED <<store, target>> /\ wire' = wire
    BY DEF Crash
  <1>2. wire' \in [Actions -> Nat] /\ \A b \in Actions : wire'[b] > 0 => b \in Tried
    BY <1>1 DEF RepairInv, PromiseInv
  <1> QED
    BY <1>1, <1>2, CrashTrue, TargetStands DEF RepairInv

\* Another system writes to the target.
LEMMA OutsideStep ==
    ASSUME RepairInv, NEW a \in Actions, Outside(a)
    PROVE  RepairInv' /\ UNCHANGED store /\ Landed' = Landed
  <1> DEFINE v == [Contents EXCEPT ![a] = "other"]
  <1>1. /\ UNCHANGED <<store, wire, call>>
        /\ target' = [target EXCEPT !.log = Append(target.log, v)]
    BY DEF Outside
  <1>2. Len(target.log) \in Nat \ {0} /\ Contents \in Versions
    BY DEF RepairInv, TargetTyped, Contents
  <1>3. v \in Versions /\ v[a] = "other" /\ \A b \in Actions \ {a} : v[b] = Contents[b]
    BY <1>2 DEF Versions
  <1> HIDE DEF v
  <1>4. DOMAIN target' = {"log", "keys"} /\ target'.log = Append(target.log, v) /\ target'.keys = target.keys
    BY <1>1 DEF RepairInv, TargetTyped
  <1>5. Versioned(a, v)
    BY <1>3, <1>4 DEF Versioned
  <1>6. Landed' = Landed /\ Landed' \subseteq Tried
    BY <1>4 DEF Landed, RepairInv, PromiseInv
  <1>7. wire' \in [Actions -> Nat] /\ \A b \in Actions : wire'[b] > 0 => b \in Tried
    BY <1>1 DEF RepairInv, PromiseInv
  <1>8. /\ StoreTyped' /\ TargetTyped' /\ PromiseInv' /\ KeysTell' /\ ParityInv' /\ FactsTell'
        /\ StoreGrows
    BY <1>1, <1>5, <1>6, <1>7, TargetStep
  <1>9. CallsTrue'
    BY <1>1, <1>8, NoneMoved DEF RepairInv
  <1> QED
    BY <1>1, <1>6, <1>8, <1>9 DEF RepairInv

\* A request of the plan reaches the target, awaited or not: nothing changes, or its
\* effect lands.
Lands(a) == a \in Tried /\ a \notin Landed /\ Landed' = Landed \cup {a}

\* The keyed upsert of the target: it lands once, later it is a replay or a conflict.
LEMMA WriteStep ==
    ASSUME RepairInv, UNCHANGED store, NEW a \in Actions, Write(a), a \in Tried,
           wire' \in [Actions -> Nat], \A b \in Actions : wire'[b] > 0 => b \in Tried
    PROVE  /\ StoreTyped' /\ TargetTyped' /\ PromiseInv' /\ KeysTell' /\ ParityInv' /\ FactsTell'
           /\ StoreGrows
           /\ target' = target \/ Lands(a)
           /\ Upsert(a) # "conflict" => a \in Landed'
  <1>1. CASE target' = target /\ Upsert(a) \in {"replayed", "conflict"}
              /\ (Upsert(a) = "replayed" => a \in Landed)
    <2>1. Landed' = Landed
      BY <1>1 DEF Landed
    <2> QED
      BY <1>1, <2>1, TargetStands
  <1>2. CASE /\ Upsert(a) = "applied" /\ a \notin Landed /\ Landed' = Landed \cup {a}
             /\ Versioned(a, [Contents EXCEPT ![a] = "new"])
    <2>1. Landed' \subseteq Tried
      BY <1>2 DEF RepairInv, PromiseInv
    <2> DEFINE v == [Contents EXCEPT ![a] = "new"]
    <2>2. Versioned(a, v)
      BY <1>2
    <2> HIDE DEF v
    <2>3. /\ StoreTyped' /\ TargetTyped' /\ PromiseInv' /\ KeysTell' /\ ParityInv' /\ FactsTell'
          /\ StoreGrows
      BY <2>1, <2>2, TargetStep
    <2> QED
      BY <1>2, <2>3 DEF Lands
  <1> QED
    BY <1>1, <1>2, WriteEffect DEF RepairInv

\* A request whose caller stopped waiting reaches the target.
LEMMA ArriveStep ==
    ASSUME RepairInv, NEW a \in Actions, Arrive(a)
    PROVE  RepairInv' /\ UNCHANGED store /\ (target' = target \/ Lands(a))
  <1>1. /\ UNCHANGED store /\ call' = call /\ Write(a) /\ wire[a] > 0
        /\ wire' = [wire EXCEPT ![a] = wire[a] - 1]
    BY DEF Arrive
  <1>2. wire' \in [Actions -> Nat] /\ (\A b \in Actions : wire'[b] > 0 => b \in Tried) /\ a \in Tried
    BY <1>1 DEF RepairInv, PromiseInv
  <1>3. /\ StoreTyped' /\ TargetTyped' /\ PromiseInv' /\ KeysTell' /\ ParityInv' /\ FactsTell'
        /\ StoreGrows /\ (target' = target \/ Lands(a))
    BY <1>1, <1>2, WriteStep
  <1>4. CallsTrue'
    BY <1>1, <1>3, NoneMoved DEF RepairInv
  <1> QED
    BY <1>1, <1>3, <1>4 DEF RepairInv

\* A request is handled and its answer arrives.
LEMMA HandledStep ==
    ASSUME RepairInv, NEW c \in Calls, Handled(c)
    PROVE  RepairInv' /\ UNCHANGED store /\ (target' = target \/ \E a \in Actions : Lands(a))
  <1> DEFINE r == call[c]
             a == Act(r)
             out == Upsert(a)
             q == [r EXCEPT !.pc = IF r.amb > 0 THEN "resolved" ELSE "applied",
                            !.res = [out |-> out, att |-> r.att]]
  <1>1. /\ UNCHANGED store /\ wire' = wire /\ Write(a) /\ r.pc = "target"
        /\ Set(c, IF out = "conflict" THEN Failing(r) ELSE q)
    BY DEF Handled
  <1>2. a \in Actions /\ a \in Tried
    BY <1>1, OnTheWire
  <1>3. wire' \in [Actions -> Nat] /\ \A b \in Actions : wire'[b] > 0 => b \in Tried
    BY <1>1 DEF RepairInv, PromiseInv
  <1>4. /\ StoreTyped' /\ TargetTyped' /\ PromiseInv' /\ KeysTell' /\ ParityInv' /\ FactsTell'
        /\ StoreGrows /\ (target' = target \/ Lands(a)) /\ (out # "conflict" => a \in Landed')
    BY <1>1, <1>2, <1>3, WriteStep
  <1>5. CallTrue(r, Tried', Landed', target.log')
    BY <1>4, CallNow, CallGrows DEF StoreGrows
  <1>6. CallTrue(Failing(r), Tried', Landed', target.log')
    BY <1>1, <1>5, FailingTrue
  <1>7. out # "conflict" => CallTrue(q, Tried', Landed', target.log')
    <2>1. /\ IsCall(q) /\ q.pc \in {"resolved", "applied"} /\ q.cmd = r.cmd /\ q.did = r.did
          /\ q.fly = r.fly
      BY CallNow DEF IsCall
    <2>2. Act(q) = a
      BY <2>1 DEF Act
    <2> HIDE DEF q
    <2> QED
      BY <1>1, <1>4, <1>5, <2>1, <2>2 DEF CallTrue, PlaceTrue, ActionOps, Final
  <1>8. CallsTrue'
    BY <1>1, <1>4, <1>6, <1>7, OthersKept DEF RepairInv, Set
  <1> QED
    BY <1>1, <1>2, <1>4, <1>8 DEF RepairInv

\* A set with one more element.
With(S, x) == S \cup {x}

\* A finite set with one element more.
LEMMA OneMore ==
    ASSUME NEW S, IsFiniteSet(S), NEW x, x \notin S
    PROVE  Cardinality(S) \in Nat /\ Cardinality(With(S, x)) = Cardinality(S) + 1
  BY FS_AddElement, FS_CardinalityType DEF With

\* One more fact is one more of the facts it is among.
LEMMA FactCounted ==
    ASSUME IsSeq(facts), NEW f, facts' = Append(facts, f), NEW ops, NEW as
    PROVE  /\ HowMany(ops, as) \in Nat
           /\ HowMany(ops, as)' = HowMany(ops, as) + Was(Of(f, ops, as))
  <1> DEFINE n == Len(facts)
             m == n + 1
             S == Among(ops, as)
             T == Among(ops, as)'
  <1>1. /\ n \in Nat /\ m \in Nat /\ DOMAIN facts = 1 .. n /\ DOMAIN facts' = 1 .. m
        /\ facts'[m] = f /\ \A i \in 1 .. n : facts'[i] = facts[i]
    BY Appended DEF IsSeq
  <1>2. HowMany(ops, as) = Cardinality(S) /\ HowMany(ops, as)' = Cardinality(T)
    BY DEF HowMany
  <1>3. m \notin 1 .. n /\ \A i : i \in 1 .. m <=> i \in 1 .. n \/ i = m
    BY <1>1
  <1> HIDE DEF m
  <1>4. S \subseteq 1 .. n
    BY <1>1 DEF Among
  <1>5. \A i : i \in S <=> i \in 1 .. n /\ Of(facts[i], ops, as)
    BY <1>1 DEF Among
  <1>6. \A i : i \in T <=> i \in 1 .. m /\ Of(facts'[i], ops, as)
    BY <1>1 DEF Among
  <1> HIDE DEF n, S, T
  <1>7. IsFiniteSet(S) /\ Cardinality(S) \in Nat /\ m \notin S
    <2>1. IsFiniteSet(1 .. n)
      BY <1>1, FS_Interval
    <2>2. IsFiniteSet(S)
      BY <1>4, <2>1, FS_Subset
    <2> QED
      BY <1>3, <1>4, <2>2, FS_CardinalityType
  <1>8. T = IF Of(f, ops, as) THEN With(S, m) ELSE S
    <2>1. \A i : i \in T <=> (i \in S \/ (i = m /\ Of(f, ops, as)))
      BY <1>1, <1>3, <1>5, <1>6
    <2> QED
      BY <2>1 DEF With
  <1>9. Cardinality(With(S, m)) = Cardinality(S) + 1
    BY <1>7, OneMore
  <1>10. CASE Of(f, ops, as)
    BY <1>2, <1>7, <1>8, <1>9, <1>10 DEF Was
  <1>11. CASE ~Of(f, ops, as)
    BY <1>2, <1>7, <1>8, <1>11 DEF Was
  <1> QED
    BY <1>10, <1>11

\* The rows a command leaves, one line for each operation of the repositories.
Moved(from, to) ==
    /\ plan.status = from /\ plan'.status = to /\ plan'.ver = plan.ver + 1
    /\ summary' = summary /\ verified' = verified

Outcome(a, how) ==
    /\ acts[a].status = "pending"
    /\ acts'[a].status = how /\ \A b \in Actions \ {a} : acts'[b] = acts[b]

CommandEffect(cmd) ==
    /\ cmd.op = "persist" => /\ summary = None /\ summary' = cmd.res
                             /\ plan' = plan /\ acts' = acts /\ verified' = verified
    /\ cmd.op = "create" => Moved("none", "proposed") /\ acts' = acts
    /\ cmd.op = "approve" => Moved("proposed", "approved") /\ acts' = acts
    /\ cmd.op = "reject" => Moved("proposed", "rejected") /\ acts' = acts
    /\ cmd.op = "begin" => Moved("approved", "applying") /\ acts' = acts
    /\ cmd.op \in {"attempt", "resolved"} =>
          /\ plan.status = "applying" /\ acts[cmd.act].status = "pending"
          /\ plan' = plan /\ acts' = acts /\ verified' = verified /\ summary' = summary
    /\ cmd.op = "applied" => Moved("applying", "applying") /\ Outcome(cmd.act, "applied")
    /\ cmd.op = "failed" => Moved("applying", "failed") /\ Outcome(cmd.act, "failed")
    /\ cmd.op = "complete" => /\ Moved("applying", "applied") /\ acts' = acts
                              /\ \A a \in Actions : acts[a].status = "applied"
    /\ cmd.op = "verify" => /\ verified' = verified \cup {cmd.res}
                            /\ plan' = plan /\ acts' = acts /\ summary' = summary

RowsKept == IsRows(rows') /\ IsPlan(plan') /\ acts' = [a \in Actions |-> acts'[a]]

\* The plan moves to its next status.
LEMMA Advanced ==
    ASSUME StoreTyped, NEW to, rows' = Advance(to)
    PROVE  /\ RowsKept /\ acts' = acts
           /\ plan'.status = to /\ plan'.ver = plan.ver + 1
           /\ summary' = summary /\ verified' = verified
  BY DEF StoreTyped, Advance, RowsKept, IsRows, IsPlan, plan, acts, summary, verified

\* An action and its plan are marked together.
LEMMA MarkedRows ==
    ASSUME StoreTyped, NEW cmd, cmd.op \in Outcomes, cmd.act \in Actions, NEW to,
           rows' = MarkedAs(cmd, to)
    PROVE  /\ RowsKept /\ acts'[cmd.act].status = cmd.op
           /\ \A b \in Actions \ {cmd.act} : acts'[b] = acts[b]
           /\ plan'.status = to /\ plan'.ver = plan.ver + 1
           /\ summary' = summary /\ verified' = verified
  BY DEF StoreTyped, Advance, MarkedAs, RowsKept, IsRows, IsPlan, plan, acts, summary, verified

\* Every command changes the rows as its row of the promise says.
LEMMA RowsAfter ==
    ASSUME StoreTyped, NEW cmd, cmd.op \in Ops, cmd.op \in ActionOps => cmd.act \in Actions,
           rows' \in Dispatch(cmd)
    PROVE  CommandEffect(cmd) /\ RowsKept
  <1> USE DEF Guarded, At, ClaimHolds
  <1>1. CASE cmd.op = "persist"
    <2>1. summary = None /\ rows' = [rows EXCEPT !.summary = cmd.res]
      BY <1>1 DEF Dispatch, Persist
    <2> QED
      BY <1>1, <2>1 DEF CommandEffect, RowsKept, StoreTyped, IsRows, IsPlan, plan, acts, summary, verified
  <1>2. CASE cmd.op = "create"
    <2>1. plan.status = "none" /\ rows' = Advance("proposed")
      BY <1>2 DEF Dispatch, CreatePlan
    <2> QED
      BY <1>2, <2>1, Advanced DEF CommandEffect, Moved
  <1>3. CASE cmd.op = "approve"
    <2>1. plan.status = "proposed" /\ rows' = Advance("approved")
      BY <1>3 DEF Dispatch, ApprovePlan
    <2> QED
      BY <1>3, <2>1, Advanced DEF CommandEffect, Moved
  <1>4. CASE cmd.op = "reject"
    <2>1. plan.status = "proposed" /\ rows' = Advance("rejected")
      BY <1>4 DEF Dispatch, RejectPlan
    <2> QED
      BY <1>4, <2>1, Advanced DEF CommandEffect, Moved
  <1>5. CASE cmd.op = "begin"
    <2>1. plan.status = "approved" /\ rows' = Advance("applying")
      BY <1>5 DEF Dispatch, BeginApplication
    <2> QED
      BY <1>5, <2>1, Advanced DEF CommandEffect, Moved
  <1>6. CASE cmd.op \in {"attempt", "resolved"}
    <2>1. plan.status = "applying" /\ acts[cmd.act].status = "pending" /\ rows' = rows
      BY <1>6 DEF Dispatch, RecordAttempt
    <2> QED
      BY <1>6, <2>1 DEF CommandEffect, RowsKept, StoreTyped, plan, acts, summary, verified
  <1>7. CASE cmd.op = "applied"
    <2>1. plan.status = "applying" /\ acts[cmd.act].status = "pending" /\ rows' = MarkedAs(cmd, "applying")
      BY <1>7 DEF Dispatch, RecordApplied
    <2>2. cmd.op \in Outcomes /\ cmd.act \in Actions
      BY <1>7 DEF Outcomes, ActionOps
    <2> QED
      BY <1>7, <2>1, <2>2, MarkedRows DEF CommandEffect, Moved, Outcome
  <1>8. CASE cmd.op = "failed"
    <2>1. plan.status = "applying" /\ acts[cmd.act].status = "pending" /\ rows' = MarkedAs(cmd, "failed")
      BY <1>8 DEF Dispatch, RecordFailed
    <2>2. cmd.op \in Outcomes /\ cmd.act \in Actions
      BY <1>8 DEF Outcomes, ActionOps
    <2> QED
      BY <1>8, <2>1, <2>2, MarkedRows DEF CommandEffect, Moved, Outcome
  <1>9. CASE cmd.op = "complete"
    <2>1. /\ plan.status = "applying" /\ \A a \in Actions : acts[a].status = "applied"
          /\ rows' = [Advance("applied") EXCEPT !.plan.end = cmd.by]
      BY <1>9 DEF Dispatch, CompleteApplication
    <2> QED
      BY <1>9, <2>1 DEF CommandEffect, Moved, RowsKept, Advance, StoreTyped, IsRows, IsPlan, plan, acts,
         summary, verified
  <1>10. CASE cmd.op = "verify"
    <2>1. rows' = [rows EXCEPT !.verified = verified \cup {cmd.res}]
      BY <1>10 DEF Dispatch, RecordVerification, verified
    <2> QED
      BY <1>10, <2>1 DEF CommandEffect, RowsKept, StoreTyped, IsRows, IsPlan, plan, acts, summary, verified
  <1> QED
    BY <1>1, <1>2, <1>3, <1>4, <1>5, <1>6, <1>7, <1>8, <1>9, <1>10 DEF Ops, ActionOps

\* A command that commits, whatever call it is of.
Committed(cmd) ==
    /\ CommandTrue(cmd, Tried, Landed, target.log)
    /\ Commit(cmd) /\ target' = target /\ wire' = wire

\* A committed command leaves the rows it describes and one fact.
LEMMA CommitRows ==
    ASSUME RepairInv, NEW cmd, Committed(cmd)
    PROVE  /\ CommandEffect(cmd) /\ RowsKept
           /\ IsSeq(facts') /\ facts' = Append(facts, Fact(cmd))
           /\ cmd.op \in Ops /\ cmd.act \in Whole /\ (cmd.op \in ActionOps => cmd.act \in Actions)
  BY RowsAfter, Appended DEF RepairInv, StoreTyped, Committed, CommandTrue, Commit

\* The attempts on record are those before, and the one this command records.
LEMMA TriedAfter ==
    ASSUME RepairInv, NEW cmd, Committed(cmd)
    PROVE  /\ cmd.op \in {"attempt", "resolved"} => Tried' = With(Tried, cmd.act)
           /\ cmd.op \notin {"attempt", "resolved"} => Tried' = Tried
           /\ Tried \subseteq Tried'
  <1> DEFINE n == Len(facts)
             m == n + 1
  <1>1. /\ DOMAIN facts = 1 .. n /\ DOMAIN facts' = 1 .. m
        /\ facts'[m] = Fact(cmd) /\ \A i \in 1 .. n : facts'[i] = facts[i]
        /\ n \in Nat
    BY CommitRows, Appended DEF RepairInv, StoreTyped, IsSeq
  <1>2. \A i : i \in 1 .. m <=> i \in 1 .. n \/ i = m
    BY <1>1
  <1>3. /\ Fact(cmd).act = cmd.act
        /\ Fact(cmd).op = "attempt" <=> cmd.op \in {"attempt", "resolved"}
    BY CommitRows DEF Fact, Ops, ActionOps
  <1> HIDE DEF n, m
  <1>4. \A a : a \in Tried <=> \E i \in 1 .. n : facts[i].op = "attempt" /\ facts[i].act = a
    BY <1>1 DEF Tried
  <1>5. \A a : a \in Tried' <=> \E i \in 1 .. m : facts'[i].op = "attempt" /\ facts'[i].act = a
    BY <1>1 DEF Tried
  <1>6. \A a : a \in Tried' <=> a \in Tried \/ (Fact(cmd).op = "attempt" /\ cmd.act = a)
    BY <1>1, <1>2, <1>3, <1>4, <1>5
  <1> QED
    BY <1>3, <1>6 DEF With

\* Every operation, seen from the rows, keeps what is said of them.
LEMMA CommitTyped ==
    ASSUME RepairInv, NEW cmd, Committed(cmd)
    PROVE  StoreTyped' /\ TargetTyped' /\ KeysTell' /\ StoreGrows /\ Landed' = Landed
  <1>1. plan'.status \in Promise!Statuses /\ plan'.ver \in Nat
    BY CommitRows DEF RepairInv, StoreTyped, CommandEffect, Moved, Promise!Statuses, Ops, ActionOps
  <1>2. \A a \in Actions : acts'[a].status \in {"pending", "applied", "failed"}
    BY CommitRows DEF RepairInv, StoreTyped, CommandEffect, Outcome, Ops, ActionOps
  <1>3. StoreTyped'
    BY <1>1, <1>2, CommitRows DEF StoreTyped, RowsKept, plan
  <1>4. target' = target /\ Landed' = Landed
    BY DEF Committed, Landed
  <1>5. TargetTyped' /\ KeysTell' /\ Log(target.log) /\ Grown(target.log, target'.log)
    BY <1>4 DEF RepairInv, TargetTyped, KeysTell, Log, Grown
  <1> QED
    BY <1>3, <1>4, <1>5, TriedAfter DEF StoreGrows

\* Only a true verdict is recorded.
LEMMA CommitParity ==
    ASSUME RepairInv, NEW cmd, Committed(cmd)
    PROVE  ParityInv'
  <1>1. target' = target
    BY DEF Committed
  <1>2. CASE cmd.op = "verify"
    <2>1. verified' = verified \cup {cmd.res} /\ Observed(cmd.res, target.log)
      BY <1>2, CommitRows DEF CommandEffect, Committed, CommandTrue
    <2> QED
      BY <1>1, <2>1 DEF RepairInv, ParityInv
  <1>3. CASE cmd.op # "verify"
    <2>1. verified' = verified
      BY <1>3, CommitRows DEF CommandEffect, Moved, Ops, ActionOps
    <2> QED
      BY <1>1, <2>1 DEF RepairInv, ParityInv
  <1> QED
    BY <1>2, <1>3

\* A committed command keeps trials, effects and records in order.
LEMMA CommitPromise ==
    ASSUME RepairInv, NEW cmd, Committed(cmd)
    PROVE  PromiseInv'
  <1>1. /\ CommandEffect(cmd) /\ cmd.op \in Ops /\ (cmd.op \in ActionOps => cmd.act \in Actions)
        /\ CommandTrue(cmd, Tried, Landed, target.log) /\ wire' = wire /\ PromiseInv /\ StoreTyped
    BY CommitRows DEF Committed, RepairInv
  <1>2. Landed' = Landed
    BY CommitTyped
  <1> USE DEF PromiseInv, CommandEffect, Begun
  <1>3. CASE cmd.op \in {"persist", "verify"}
    <2>1. Tried' = Tried
      BY <1>3, TriedAfter
    <2> QED
      BY <1>1, <1>2, <1>3, <2>1
  <1>4. CASE cmd.op \in {"create", "approve", "reject", "begin"}
    <2>1. Tried' = Tried
      BY <1>4, TriedAfter
    <2> QED
      BY <1>1, <1>2, <1>4, <2>1 DEF Moved
  <1>5. CASE cmd.op \in {"attempt", "resolved"}
    <2>1. Tried' = With(Tried, cmd.act) /\ Tried \subseteq Tried'
      BY <1>5, TriedAfter
    <2> QED
      BY <1>1, <1>2, <1>5, <2>1
  <1>6. CASE cmd.op = "complete"
    <2>1. Tried' = Tried
      BY <1>6, TriedAfter
    <2> QED
      BY <1>1, <1>2, <1>6, <2>1 DEF Moved
  <1>7. CASE cmd.op = "applied"
    <2>1. Tried' = Tried /\ cmd.act \in Actions /\ cmd.act \in Landed
      BY <1>1, <1>7, TriedAfter DEF CommandTrue, ActionOps
    <2> QED
      BY <1>1, <1>2, <1>7, <2>1 DEF Moved, Outcome
  <1>8. CASE cmd.op = "failed"
    <2>1. Tried' = Tried /\ cmd.act \in Actions
      BY <1>1, <1>8, TriedAfter DEF CommandTrue, ActionOps
    <2> QED
      BY <1>1, <1>2, <1>8, <2>1 DEF Moved, Outcome
  <1> QED
    BY <1>1, <1>3, <1>4, <1>5, <1>6, <1>7, <1>8 DEF Ops, ActionOps

\* The count of a kind of facts follows the command.
LEMMA CommitCounted ==
    ASSUME RepairInv, NEW cmd, Committed(cmd), NEW ops, NEW as
    PROVE  /\ HowMany(ops, as) \in Nat
           /\ HowMany(ops, as)' = HowMany(ops, as) + Was(Of(Fact(cmd), ops, as))
  BY CommitRows, FactCounted DEF RepairInv, StoreTyped

\* What kinds of facts a command adds to.
LEMMA FactOf ==
    ASSUME RepairInv, NEW cmd, Committed(cmd)
    PROVE  /\ Of(Fact(cmd), PlanOps, Whole) <=> cmd.op \notin {"persist", "attempt", "resolved", "verify"}
           /\ Of(Fact(cmd), One("persist"), Whole) <=> cmd.op = "persist"
           /\ Of(Fact(cmd), One("create"), Whole) <=> cmd.op = "create"
           /\ Of(Fact(cmd), Decisions, Whole) <=> cmd.op \in {"approve", "reject"}
           /\ Of(Fact(cmd), One("begin"), Whole) <=> cmd.op = "begin"
           /\ Of(Fact(cmd), One("complete"), Whole) <=> cmd.op = "complete"
           /\ Of(Fact(cmd), One("failed"), Whole) <=> cmd.op = "failed"
           /\ \A a \in Actions : Of(Fact(cmd), Outcomes, One(a)) <=>
                                   cmd.op \in {"applied", "failed"} /\ cmd.act = a
  BY CommitRows DEF Of, Fact, PlanOps, One, Decisions, Outcomes, Ops, ActionOps

\* A committed command keeps the counts of the facts equal to what the rows say.
LEMMA CommitTells ==
    ASSUME RepairInv, NEW cmd, Committed(cmd)
    PROVE  FactsTell'
  <1>1. /\ CommandEffect(cmd) /\ cmd.op \in Ops /\ (cmd.op \in ActionOps => cmd.act \in Actions)
        /\ FactsTell /\ StoreTyped
    BY CommitRows DEF RepairInv
  <1>2. \A i \in DOMAIN facts' : facts'[i].op \in Ops /\ facts'[i].act \in Whole
    <2>1. Fact(cmd).op \in Ops /\ Fact(cmd).act \in Whole
      BY CommitRows DEF Fact, Ops, ActionOps
    <2>2. /\ DOMAIN facts = 1 .. Len(facts) /\ DOMAIN facts' = 1 .. (Len(facts) + 1) /\ Len(facts) \in Nat
          /\ facts'[Len(facts) + 1] = Fact(cmd) /\ \A i \in 1 .. Len(facts) : facts'[i] = facts[i]
      BY CommitRows, Appended DEF RepairInv, StoreTyped, IsSeq
    <2>3. \A i \in DOMAIN facts' : i \in 1 .. Len(facts) \/ i = Len(facts) + 1
      BY <2>2
    <2> QED
      BY <1>1, <2>1, <2>2, <2>3 DEF FactsTell
  <1>3. plan'.ver = HowMany(PlanOps, Whole)'
    BY <1>1, CommitCounted, FactOf DEF FactsTell, CommandEffect, Moved, Was, Ops, ActionOps, StoreTyped
  <1>4. HowMany(One("persist"), Whole)' = Was(summary' # None)
    <2>1. cmd.op = "persist" => cmd.res # None
      BY RepairAssumption DEF Committed, CommandTrue
    <2> QED
      BY <1>1, <2>1, CommitCounted, FactOf DEF FactsTell, CommandEffect, Moved, Was, Ops, ActionOps
  <1>5. HowMany(One("create"), Whole)' = Was(plan'.status # "none")
    BY <1>1, CommitCounted, FactOf DEF FactsTell, CommandEffect, Moved, Was, Ops, ActionOps
  <1>6. HowMany(Decisions, Whole)' = Was(plan'.status \notin {"none", "proposed"})
    BY <1>1, CommitCounted, FactOf DEF FactsTell, CommandEffect, Moved, Was, Ops, ActionOps
  <1>7. HowMany(One("begin"), Whole)' = Was(plan'.status \in Begun)
    BY <1>1, CommitCounted, FactOf DEF FactsTell, CommandEffect, Moved, Was, Ops, ActionOps, Begun
  <1>8. HowMany(One("complete"), Whole)' = Was(plan'.status = "applied")
    BY <1>1, CommitCounted, FactOf DEF FactsTell, CommandEffect, Moved, Was, Ops, ActionOps
  <1>9. HowMany(One("failed"), Whole)' = Was(plan'.status = "failed")
    BY <1>1, CommitCounted, FactOf DEF FactsTell, CommandEffect, Moved, Was, Ops, ActionOps
  <1>10. ASSUME NEW a \in Actions
         PROVE  HowMany(Outcomes, One(a))' = Was(acts'[a].status # "pending")
    BY <1>1, CommitCounted, FactOf DEF FactsTell, CommandEffect, Outcome, Was, Ops, ActionOps
  <1> QED
    BY <1>2, <1>3, <1>4, <1>5, <1>6, <1>7, <1>8, <1>9, <1>10 DEF FactsTell

\* Where the answer of the writer leaves a call.
LEMMA Resumed ==
    ASSUME RepairInv, NEW c \in Calls, call[c].pc = "wait", NEW t, NEW k, NEW g,
           CallTrue(call[c], t, k, g), call[c].cmd.op = "attempt" => call[c].cmd.act \in t
    PROVE  CallTrue(Continue(c), t, k, g)
  <1> DEFINE r == [call[c] EXCEPT !.fly = 0, !.tries = 0, !.cmd = NoCmd, !.res = None]
             op == call[c].cmd.op
  <1>1. /\ IsCall(r) /\ r.fly = 0 /\ r.did = call[c].did /\ Act(r) = Act(call[c])
        /\ r.did \subseteq Actions
    BY DEF CallTrue, IsCall, Act
  <1>2. /\ op \in Ops
        /\ op \in ActionOps => r.did # Actions /\ call[c].cmd.act = Act(r)
        /\ op = "resolved" => Act(r) \in k
    BY <1>1 DEF CallTrue, CommandTrue, PlaceTrue, ActionOps
  <1>3. CASE op = "begin"
    <2> DEFINE q == [r EXCEPT !.claim = plan'.ver]
    <2>1. Continue(c) = Onward(q)
      BY <1>3 DEF Continue
    <2>2. IsCall(q) /\ q.fly = 0 /\ q.did \subseteq Actions
      BY <1>1 DEF IsCall
    <2> HIDE DEF q
    <2> QED
      BY <2>1, <2>2, OnwardTrue
  <1>4. CASE op = "attempt"
    <2> DEFINE q == [r EXCEPT !.pc = "target"]
    <2>1. Continue(c) = q
      BY <1>4 DEF Continue
    <2>2. IsCall(q) /\ q.fly = 0 /\ q.did = r.did /\ q.pc = "target" /\ Act(q) = Act(r)
      BY <1>1 DEF IsCall, Act
    <2> HIDE DEF q, r
    <2>3. Act(q) \in t /\ q.did # Actions
      BY <1>2, <1>4, <2>2 DEF ActionOps
    <2> QED
      BY <1>1, <2>1, <2>2, <2>3 DEF CallTrue, PlaceTrue, ActionOps
  <1>5. CASE op = "resolved"
    <2> DEFINE q == [r EXCEPT !.pc = "applied", !.res = call[c].res]
    <2>1. Continue(c) = q
      BY <1>5 DEF Continue
    <2>2. IsCall(q) /\ q.fly = 0 /\ q.did = r.did /\ q.pc = "applied" /\ Act(q) = Act(r)
      BY <1>1 DEF IsCall, Act
    <2> HIDE DEF q, r
    <2>3. Act(q) \in k /\ q.did # Actions
      BY <1>2, <1>5, <2>2 DEF ActionOps
    <2> QED
      BY <1>1, <2>1, <2>2, <2>3 DEF CallTrue, PlaceTrue, ActionOps
  <1>6. CASE op = "applied"
    <2> DEFINE q == [r EXCEPT !.did = With(r.did, Act(r)), !.claim = plan'.ver]
    <2>1. Continue(c) = Onward(q)
      BY <1>6 DEF Continue, With
    <2>2. Act(r) \in Actions
      BY <1>1, <1>2, <1>6, ActInPlan DEF ActionOps
    <2>3. IsCall(q) /\ q.fly = 0 /\ q.did \subseteq Actions
      BY <1>1, <2>2 DEF IsCall, With
    <2> HIDE DEF q
    <2> QED
      BY <2>1, <2>3, OnwardTrue
  <1>7. CASE op \notin {"begin", "attempt", "resolved", "applied"}
    <2>1. Continue(c) = Ended(c, "reported", 0) \/ Continue(c) = Ended(c, "done", 0)
      BY <1>7 DEF Continue
    <2> QED
      BY <2>1, EndedTrue DEF Final
  <1> QED
    BY <1>3, <1>4, <1>5, <1>6, <1>7

\* The writer runs a command of a call.
LEMMA RunStore ==
    ASSUME RepairInv, NEW c \in Calls, Run(c)
    PROVE  /\ Committed(call[c].cmd) \/ (UNCHANGED store /\ target' = target /\ wire' = wire)
           /\ StoreTyped' /\ TargetTyped' /\ PromiseInv' /\ KeysTell' /\ ParityInv' /\ FactsTell'
           /\ StoreGrows /\ Landed' = Landed
           /\ Answer(call[c].cmd) = "ok" /\ call[c].cmd.op = "attempt" => call[c].cmd.act \in Tried'
  <1> DEFINE cmd == call[c].cmd
  <1>1. /\ target' = target /\ wire' = wire /\ call[c].fly > 0
        /\ IF Admitted(cmd) THEN Commit(cmd) ELSE UNCHANGED store
    BY DEF Run
  <1>2. CommandTrue(cmd, Tried, Landed, target.log)
    BY <1>1, CallNow
  <1> HIDE DEF cmd
  <1>3. CASE Admitted(cmd)
    <2>1. Committed(cmd)
      BY <1>1, <1>2, <1>3 DEF Committed
    <2>2. cmd.op = "attempt" => cmd.act \in Tried'
      BY <2>1, TriedAfter DEF With
    <2> QED
      BY <2>1, <2>2, CommitTyped, CommitPromise, CommitParity, CommitTells DEF cmd
  <1>4. CASE ~Admitted(cmd)
    <2>1. UNCHANGED store /\ target' = target /\ wire' = wire
      BY <1>1, <1>4
    <2>2. /\ StoreTyped' /\ TargetTyped' /\ PromiseInv' /\ KeysTell' /\ ParityInv' /\ FactsTell'
          /\ StoreGrows
      <3>1. wire' \in [Actions -> Nat] /\ \A b \in Actions : wire'[b] > 0 => b \in Tried
        BY <2>1 DEF RepairInv, PromiseInv
      <3> QED
        BY <2>1, <3>1, TargetStands
    <2>3. Tried' = Tried /\ Landed' = Landed
      BY <2>1 DEF Tried, Landed, store
    <2>4. Answer(cmd) = "ok" => Replayed(cmd)
      BY <1>4 DEF Answer
    <2>5. ASSUME Replayed(cmd), cmd.op = "attempt" PROVE cmd.act \in Tried
      <3>1. /\ facts[Len(facts)] = Fact(cmd) /\ Len(facts) = cmd.exp + 1
        BY <2>5 DEF Replayed
      <3>2. Len(facts) \in Nat \ {0} /\ DOMAIN facts = 1 .. Len(facts)
        BY <1>2, <3>1 DEF CommandTrue, RepairInv, StoreTyped, IsSeq
      <3> QED
        BY <2>5, <3>1, <3>2 DEF Tried, Fact
    <2> QED
      BY <2>1, <2>2, <2>3, <2>4, <2>5 DEF cmd
  <1> QED
    BY <1>3, <1>4

\* The writer runs the command of a call, or refuses or replays it.
LEMMA RunStep ==
    ASSUME RepairInv, NEW c \in Calls, Run(c)
    PROVE  RepairInv'
  <1> DEFINE r == call[c]
             t == Tried'
             k == Landed'
             g == target.log'
  <1>1. r.fly > 0 /\ r.fly \in Nat
    BY CallNow DEF Run
  <1>2. CallTrue(r, t, k, g) /\ CommandTrue(r.cmd, t, k, g)
    <2>1. CallTrue(r, t, k, g)
      BY RunStore, CallNow, CallGrows DEF StoreGrows
    <2> QED
      BY <1>1, <2>1 DEF CallTrue
  <1>3. CASE r.pc = "wait" /\ r.fly = 1 /\ Answer(r.cmd) = "ok" /\ Set(c, Continue(c))
    <2>1. CallTrue(Continue(c), t, k, g)
      BY <1>2, <1>3, RunStore, Resumed
    <2> QED
      BY <1>3, <2>1, RunStore, OthersKept DEF RepairInv, Set
  <1>4. CASE Answer(r.cmd) # "ok" /\ Set(c, Ended(c, Answer(r.cmd), 0))
    <2>1. Answer(r.cmd) \in Final
      BY <1>4 DEF Answer, Final
    <2>2. CallTrue(Ended(c, Answer(r.cmd), 0), t, k, g)
      BY <2>1, EndedTrue
    <2> QED
      BY <1>4, <2>2, RunStore, OthersKept DEF RepairInv, Set
  <1>5. CASE r.pc = "wait" /\ Set(c, [r EXCEPT !.fly = r.fly - 1])
    <2> DEFINE q == [r EXCEPT !.fly = r.fly - 1]
    <2>1. IsCall(q) /\ q.pc = "wait" /\ q.cmd = r.cmd /\ q.did = r.did /\ q.fly \in Nat
      BY <1>1, <1>5, CallNow DEF IsCall
    <2>2. Set(c, q)
      BY <1>5
    <2> HIDE DEF q
    <2>3. CallTrue(q, t, k, g)
      BY <1>2, <1>5, <2>1, StillWaits
    <2> QED
      BY <2>2, <2>3, RunStore, OthersKept DEF RepairInv, Set
  <1>6. CASE r.pc # "wait" /\ Set(c, Ended(c, r.pc, r.fly - 1))
    <2>1. r.pc \in Final /\ r.fly - 1 \in Nat
      BY <1>1, <1>2, <1>6 DEF CallTrue
    <2> DEFINE n == r.fly - 1
    <2> HIDE DEF n
    <2>2. CallTrue(Ended(c, r.pc, n), t, k, g)
      BY <1>2, <2>1, EndedTrue DEF n
    <2> QED
      BY <1>6, <2>2, RunStore, OthersKept DEF RepairInv, Set, n
  <1> QED
    BY <1>3, <1>4, <1>5, <1>6 DEF Run

\* The rows and facts of a run that just completed, or whose plan was proposed.
FirstFacts ==
    \/ plan.status = "none" /\ plan.ver = 0 /\ summary = None /\ facts = <<>>
    \/ /\ plan.status = "proposed" /\ plan.ver = 1 /\ summary \in Analyses
       /\ DOMAIN facts = 1 .. 2 /\ IsSeq(facts)
       /\ facts[1].op = "persist" /\ facts[2].op = "create"
       /\ facts[1].act = 0 /\ facts[2].act = 0

FirstRows ==
    /\ IsRows(rows) /\ IsPlan(plan) /\ verified = {}
    /\ acts = [a \in Actions |-> acts[a]] /\ \A a \in Actions : acts[a].status = "pending"
    /\ FirstFacts

\* The rows a plan starts with.
LEMMA InitRows == Init => FirstRows
  <1>1. CASE Unprepared
    <2>1. rows = NoRows /\ facts = <<>>
      BY <1>1 DEF Unprepared
    <2> QED
      BY <2>1 DEF FirstRows, FirstFacts, NoRows, IsRows, IsPlan, plan, acts, summary, verified
  <1>2. ASSUME NEW x \in Analyses, Prepared(x) PROVE FirstRows
    <2>1. /\ rows = [NoRows EXCEPT !.summary = x, !.plan.status = "proposed", !.plan.ver = 1]
          /\ facts = [i \in 1 .. 2 |-> [op |-> <<"persist", "create">>[i], act |-> 0, res |-> x,
                                      by |-> None]]
      BY <1>2 DEF Prepared
    <2>2. /\ facts[1].op = "persist" /\ facts[2].op = "create" /\ DOMAIN facts = 1 .. 2
          /\ facts[1].act = 0 /\ facts[2].act = 0
      BY <2>1
    <2>3. Len(facts) = 2
      <3>1. facts \in Seq({facts[1], facts[2]})
        BY <2>1
      <3> QED
        BY <2>2, <3>1, LenProperties
    <2>4. IsSeq(facts)
      BY <2>1, <2>3 DEF IsSeq
    <2>5. /\ IsRows(rows) /\ IsPlan(plan) /\ verified = {} /\ summary = x
          /\ plan.status = "proposed" /\ plan.ver = 1
          /\ acts = [a \in Actions |-> acts[a]] /\ \A a \in Actions : acts[a].status = "pending"
      BY <2>1 DEF NoRows, IsRows, IsPlan, plan, acts, summary, verified
    <2> QED
      BY <2>2, <2>4, <2>5 DEF FirstRows, FirstFacts
  <1> QED
    BY <1>1, <1>2 DEF Init

\* Nothing happened yet.
LEMMA NoFacts ==
    ASSUME facts = <<>>, NEW ops, NEW as
    PROVE  HowMany(ops, as) = 0
  <1>1. Among(ops, as) = {}
    BY DEF Among
  <1> QED
    BY <1>1, FS_EmptySet DEF HowMany

\* Two things happened, an analysis and the plan proposed from it.
LEMMA TwoFacts ==
    ASSUME DOMAIN facts = 1 .. 2, NEW ops, NEW as
    PROVE  HowMany(ops, as) = Was(Of(facts[1], ops, as)) + Was(Of(facts[2], ops, as))
  <1> DEFINE S == Among(ops, as)
  <1>1. \A i : i \in S <=> (i = 1 /\ Of(facts[1], ops, as)) \/ (i = 2 /\ Of(facts[2], ops, as))
    <2>1. \A i : i \in 1 .. 2 <=> i = 1 \/ i = 2
      OBVIOUS
    <2>2. \A i : i \in S <=> i \in 1 .. 2 /\ Of(facts[i], ops, as)
      BY DEF Among
    <2> HIDE DEF S
    <2>3. 1 \in S <=> Of(facts[1], ops, as)
      BY <2>1, <2>2
    <2>4. 2 \in S <=> Of(facts[2], ops, as)
      BY <2>1, <2>2
    <2>5. \A i : i \in S => i = 1 \/ i = 2
      BY <2>1, <2>2
    <2> QED
      BY <2>3, <2>4, <2>5
  <1>2. /\ Cardinality({}) = 0 /\ IsFiniteSet({})
        /\ Cardinality(With({}, 1)) = 1 /\ Cardinality(With({}, 2)) = 1
    BY OneMore, FS_EmptySet
  <1>3. Cardinality(With(With({}, 1), 2)) = 2
    <2>1. IsFiniteSet(With({}, 1))
      BY FS_EmptySet, FS_AddElement DEF With
    <2>2. 2 \notin With({}, 1)
      BY DEF With
    <2> QED
      BY <1>2, <2>1, <2>2, OneMore
  <1>4. HowMany(ops, as) = Cardinality(S)
    BY DEF HowMany
  <1> HIDE DEF S
  <1>5. CASE Of(facts[1], ops, as) /\ Of(facts[2], ops, as)
    <2>1. S = With(With({}, 1), 2)
      BY <1>1, <1>5 DEF With
    <2> QED
      BY <1>3, <1>4, <1>5, <2>1 DEF Was
  <1>6. CASE Of(facts[1], ops, as) /\ ~Of(facts[2], ops, as)
    <2>1. S = With({}, 1)
      <3>1. \A i : i \in S <=> i = 1
        BY <1>1, <1>6
      <3>2. S = {1}
        BY <3>1
      <3> QED
        BY <3>2 DEF With
    <2> QED
      BY <1>2, <1>4, <1>6, <2>1 DEF Was
  <1>7. CASE ~Of(facts[1], ops, as) /\ Of(facts[2], ops, as)
    <2>1. S = With({}, 2)
      <3>1. \A i : i \in S <=> i = 2
        BY <1>1, <1>7
      <3>2. S = {2}
        BY <3>1
      <3> QED
        BY <3>2 DEF With
    <2> QED
      BY <1>2, <1>4, <1>7, <2>1 DEF Was
  <1>8. CASE ~Of(facts[1], ops, as) /\ ~Of(facts[2], ops, as)
    <2>1. S = {}
      BY <1>1, <1>8
    <2> QED
      BY <1>2, <1>4, <1>8, <2>1 DEF Was
  <1> QED
    BY <1>5, <1>6, <1>7, <1>8

\* The first facts are counted right, whichever of the first rows there are.
LEMMA InitTells == FirstRows => FactsTell
  <1> SUFFICES ASSUME FirstRows PROVE FactsTell
    OBVIOUS
  <1>1. CASE plan.status = "none" /\ plan.ver = 0 /\ summary = None /\ facts = <<>>
    BY <1>1, NoFacts DEF FactsTell, Was, Begun, FirstRows
  <1>2. CASE /\ plan.status = "proposed" /\ plan.ver = 1 /\ summary \in Analyses
             /\ DOMAIN facts = 1 .. 2
             /\ facts[1].op = "persist" /\ facts[2].op = "create"
             /\ facts[1].act = 0 /\ facts[2].act = 0
    <2>1. summary # None
      BY <1>2, RepairAssumption
    <2>2. \A i \in 1 .. 2 : facts[i].op \in Ops /\ facts[i].act \in Whole
      BY <1>2 DEF Ops, Whole
    <2>3. /\ ~Of(facts[1], PlanOps, Whole) /\ Of(facts[2], PlanOps, Whole)
          /\ Of(facts[1], One("persist"), Whole) /\ ~Of(facts[2], One("persist"), Whole)
          /\ ~Of(facts[1], One("create"), Whole) /\ Of(facts[2], One("create"), Whole)
          /\ ~Of(facts[1], Decisions, Whole) /\ ~Of(facts[2], Decisions, Whole)
          /\ ~Of(facts[1], One("begin"), Whole) /\ ~Of(facts[2], One("begin"), Whole)
          /\ ~Of(facts[1], One("complete"), Whole) /\ ~Of(facts[2], One("complete"), Whole)
          /\ ~Of(facts[1], One("failed"), Whole) /\ ~Of(facts[2], One("failed"), Whole)
          /\ \A a : ~Of(facts[1], Outcomes, One(a)) /\ ~Of(facts[2], Outcomes, One(a))
      BY <1>2 DEF Of, PlanOps, One, Decisions, Outcomes, Whole, Ops
    <2>4. \A ops, as : HowMany(ops, as) = Was(Of(facts[1], ops, as)) + Was(Of(facts[2], ops, as))
      BY <1>2, TwoFacts
    <2>5. \A i \in DOMAIN facts : facts[i].op \in Ops /\ facts[i].act \in Whole
      BY <1>2, <2>2
    <2> QED
      BY <1>2, <2>1, <2>3, <2>4, <2>5 DEF FactsTell, Was, Begun, FirstRows
  <1> QED
    BY <1>1, <1>2 DEF FirstRows, FirstFacts

\* The invariant of the repair workflow holds at the start and is kept by every step.
LEMMA StartInv == Init => RepairInv
  <1> SUFFICES ASSUME Init PROVE RepairInv
    OBVIOUS
  <1>1. target.log = <<Old>> /\ target.keys = Nothing /\ DOMAIN target = {"log", "keys"}
    BY DEF Init
  <1>2. TargetTyped /\ KeysTell
    <2>1. Old \in Versions
      BY DEF Old, Versions
    <2> QED
      BY <1>1, <2>1 DEF TargetTyped, KeysTell, Nothing
  <1>3. Landed = {}
    BY <1>1 DEF Landed, Nothing
  <1>4. CallsTrue
    <2>1. CallTrue(Idle, Tried, Landed, target.log)
      BY DEF CallTrue, PlaceTrue, ActionOps, Final, Idle, IsCall
    <2> QED
      BY <2>1 DEF CallsTrue, Init
  <1>5. FirstRows
    BY InitRows
  <1>6. StoreTyped
    <2>1. IsSeq(<<>>)
      BY DEF IsSeq
    <2>2. IsSeq(facts) /\ plan.ver \in Nat /\ plan.status \in Promise!Statuses
      BY <1>5, <2>1 DEF FirstRows, FirstFacts, Promise!Statuses
    <2> QED
      BY <1>5, <2>2 DEF FirstRows, StoreTyped
  <1>7. Tried = {}
    BY <1>5 DEF FirstRows, FirstFacts, Tried
  <1>8. plan.status \in {"none", "proposed"}
    BY <1>5 DEF FirstRows, FirstFacts
  <1>9. PromiseInv
    BY <1>3, <1>5, <1>7, <1>8 DEF PromiseInv, Init, FirstRows
  <1>10. ParityInv
    BY <1>5 DEF ParityInv, FirstRows
  <1> QED
    BY <1>2, <1>4, <1>5, <1>6, <1>9, <1>10, InitTells DEF RepairInv

\* Every step keeps the invariant.
LEMMA StepInv == RepairInv /\ [Next]_vars => RepairInv'
  <1> SUFFICES ASSUME RepairInv, [Next]_vars PROVE RepairInv'
    OBVIOUS
  <1>1. ASSUME NEW c \in Calls, Start(c) \/ Step(c) PROVE RepairInv'
    BY <1>1, StandingSteps, RunStep, HandledStep DEF Step
  <1>2. ASSUME NEW a \in Actions, Arrive(a) \/ Outside(a) PROVE RepairInv'
    BY <1>2, ArriveStep, OutsideStep
  <1>3. CASE Crash
    BY <1>3, CrashStep
  <1>4. CASE UNCHANGED vars
    <2>1. /\ UNCHANGED <<store, target>> /\ call' = call /\ wire' = wire
      BY <1>4 DEF vars, store
    <2>2. wire' \in [Actions -> Nat] /\ \A b \in Actions : wire'[b] > 0 => b \in Tried
      BY <2>1 DEF RepairInv, PromiseInv
    <2>3. /\ StoreTyped' /\ TargetTyped' /\ PromiseInv' /\ KeysTell' /\ ParityInv' /\ FactsTell'
          /\ StoreGrows
      BY <2>1, <2>2, TargetStands
    <2> QED
      BY <2>1, <2>3, NoneMoved DEF RepairInv
  <1> QED
    BY <1>1, <1>2, <1>3, <1>4 DEF Next

\* Whatever calls overlap, are lost or sent again, no call and no command under way
\* claims more of the target and of the rows than is true, and the facts add up.
THEOREM RepairInvariant == Spec => []RepairInv
  BY StartInv, StepInv, PTL DEF Spec

\* The version that made an action new is the one its key names, so there is one.
LEMMA OnceWritten == TargetTyped /\ KeysTell => WrittenOnce
  <1> SUFFICES ASSUME TargetTyped, KeysTell, NEW a \in Actions
               PROVE  Cardinality({i \in 2 .. Len(target.log) :
                         target.log[i][a] = "new" /\ target.log[i - 1][a] # "new"}) <= 1
    BY DEF WrittenOnce
  <1> DEFINE S == {i \in 2 .. Len(target.log) :
                     target.log[i][a] = "new" /\ target.log[i - 1][a] # "new"}
             k == target.keys[a]
  <1>1. S \subseteq {k}
    BY DEF KeysTell
  <1>2. S = {} \/ S = {k}
    BY <1>1
  <1> HIDE DEF S, k
  <1>3. Cardinality({k}) = 1 /\ Cardinality({}) = 0
    BY FS_Singleton, FS_EmptySet
  <1>4. Cardinality(S) <= 1
    BY <1>2, <1>3
  <1> QED
    BY <1>4 DEF S

\* The counts of the invariant are those of the property.
LEMMA OnceRecorded == StoreTyped /\ FactsTell => RecordedOnce
  <1> SUFFICES ASSUME StoreTyped, FactsTell PROVE RecordedOnce
    OBVIOUS
  <1>1. \A i \in DOMAIN facts : facts[i].op \in Ops /\ facts[i].act \in Whole
    BY DEF FactsTell
  <1>2. plan.ver = Count(LAMBDA f : f.op \notin {"persist", "attempt", "verify"})
    <2>1. {i \in DOMAIN facts : facts[i].op \notin {"persist", "attempt", "verify"}}
            = Among(PlanOps, Whole)
      BY <1>1 DEF Among, Of, PlanOps
    <2> QED
      BY <2>1 DEF Count, FactsTell, HowMany
  <1>3. ASSUME NEW op \in {"persist", "create", "begin", "complete", "failed"}
        PROVE  Count(LAMBDA f : f.op = op) <= 1
    <2>1. {i \in DOMAIN facts : facts[i].op = op} = Among(One(op), Whole)
      BY <1>1 DEF Among, Of, One
    <2>2. HowMany(One(op), Whole) <= 1
      BY <1>3 DEF FactsTell, Was
    <2> QED
      BY <2>1, <2>2 DEF Count, HowMany
  <1>4. Count(LAMBDA f : f.op \in {"approve", "reject"}) <= 1
    <2>1. {i \in DOMAIN facts : facts[i].op \in {"approve", "reject"}} = Among(Decisions, Whole)
      BY <1>1 DEF Among, Of, Decisions
    <2>2. HowMany(Decisions, Whole) <= 1
      BY DEF FactsTell, Was
    <2> QED
      BY <2>1, <2>2 DEF Count, HowMany
  <1>5. ASSUME NEW a \in Actions
        PROVE  Count(LAMBDA f : f.op \in {"applied", "failed"} /\ f.act = a)
                 = IF acts[a].status = "pending" THEN 0 ELSE 1
    <2>1. {i \in DOMAIN facts : facts[i].op \in {"applied", "failed"} /\ facts[i].act = a}
            = Among(Outcomes, One(a))
      BY <1>1 DEF Among, Of, Outcomes, One
    <2>2. HowMany(Outcomes, One(a)) = Was(acts[a].status # "pending")
      BY DEF FactsTell
    <2> QED
      BY <2>1, <2>2 DEF Count, HowMany, Was
  <1> QED
    BY <1>2, <1>3, <1>4, <1>5 DEF RecordedOnce

\* An action of the plan is repaired in the target at most once, and the records of the
\* decisions agree with the rows: replayed, delayed and concurrent requests for one
\* idempotency key make one effect (the keyed upsert of the target, match_exact and
\* the compare-and-set of the repositories).
THEOREM OneEffect == Spec => []OneEffectPerKey
  <1>1. RepairInv => OneEffectPerKey
    BY OnceWritten, OnceRecorded DEF RepairInv, OneEffectPerKey
  <1> QED
    BY <1>1, RepairInvariant, PTL

\* A recorded parity was the state of the whole target at the version it names,
\* although the pages of the observation were read one by one while others wrote.
THEOREM ParityIsTrue == Spec => []ParityWasTrue
  <1>1. RepairInv => ParityWasTrue
    BY DEF RepairInv, ParityInv, Observed, ParityWasTrue
  <1> QED
    BY <1>1, RepairInvariant, PTL

\* What the promise sees of a state.
Records == [a \in Actions |-> acts[a].status]

\* Rows, trials and effects that stay are a stutter of the promise.
LEMMA PromiseStands ==
    ASSUME UNCHANGED <<plan, acts, Tried, Landed>>
    PROVE  UNCHANGED Promise!vars
  BY DEF Promise!vars, Tried, Landed

\* A change of the status alone is a move of the promise.
LEMMA PromiseMoves ==
    ASSUME NEW from, NEW to, plan.status = from, plan'.status = to,
           UNCHANGED <<Records, Tried, Landed>>
    PROVE  Promise!Move(from, to)
  BY DEF Promise!Move, Records, Tried, Landed

\* Every command that commits is a step of the promise, or one it does not see.
LEMMA CommitIsPromised ==
    ASSUME RepairInv, NEW cmd, Committed(cmd)
    PROVE  Promise!Next \/ UNCHANGED Promise!vars
  <1>1. /\ CommandEffect(cmd) /\ cmd.op \in Ops /\ (cmd.op \in ActionOps => cmd.act \in Actions)
        /\ CommandTrue(cmd, Tried, Landed, target.log) /\ StoreTyped
    BY CommitRows DEF Committed, RepairInv
  <1>2. Landed' = Landed
    BY CommitTyped
  <1> USE DEF CommandEffect
  <1>3. CASE cmd.op \in {"persist", "verify"}
    <2>1. UNCHANGED <<plan, acts, Tried, Landed>>
      BY <1>1, <1>2, <1>3, TriedAfter
    <2> QED
      BY <2>1, PromiseStands
  <1>4. CASE cmd.op \in {"create", "approve", "reject", "begin", "complete"}
    <2>1. Tried' = Tried /\ Records' = Records
      BY <1>1, <1>4, TriedAfter DEF Records
    <2>2. CASE cmd.op = "create"
      <3>1. Promise!Move("none", "proposed")
        BY <1>1, <1>2, <2>1, <2>2, PromiseMoves DEF Moved
      <3> QED
        BY <3>1 DEF Promise!Next, Promise!Propose
    <2>3. CASE cmd.op = "approve"
      <3>1. Promise!Move("proposed", "approved")
        BY <1>1, <1>2, <2>1, <2>3, PromiseMoves DEF Moved
      <3> QED
        BY <3>1 DEF Promise!Next, Promise!Approve
    <2>4. CASE cmd.op = "reject"
      <3>1. Promise!Move("proposed", "rejected")
        BY <1>1, <1>2, <2>1, <2>4, PromiseMoves DEF Moved
      <3> QED
        BY <3>1 DEF Promise!Next, Promise!Reject
    <2>5. CASE cmd.op = "begin"
      <3>1. Promise!Move("approved", "applying")
        BY <1>1, <1>2, <2>1, <2>5, PromiseMoves DEF Moved
      <3> QED
        BY <3>1 DEF Promise!Next, Promise!Begin
    <2>6. CASE cmd.op = "complete"
      <3>1. Promise!Move("applying", "applied")
        BY <1>1, <1>2, <2>1, <2>6, PromiseMoves DEF Moved
      <3>2. \A a \in Actions : Records[a] = "applied"
        BY <1>1, <2>6 DEF Records
      <3> QED
        BY <3>1, <3>2 DEF Promise!Next, Promise!Complete, Records
    <2> QED
      BY <1>4, <2>2, <2>3, <2>4, <2>5, <2>6
  <1>5. CASE cmd.op \in {"attempt", "resolved"}
    <2>1. Tried' = Tried \cup {cmd.act} /\ cmd.act \in Actions /\ plan' = plan /\ acts' = acts
      BY <1>1, <1>5, TriedAfter DEF With, ActionOps
    <2>2. Promise!Try(cmd.act)
      BY <1>1, <1>2, <1>5, <2>1 DEF Promise!Try, Tried, Landed
    <2> QED
      BY <2>1, <2>2 DEF Promise!Next
  <1>6. CASE cmd.op = "applied"
    <2>1. Tried' = Tried /\ cmd.act \in Actions /\ cmd.act \in Landed /\ Moved("applying", "applying")
      BY <1>1, <1>6, TriedAfter DEF CommandTrue, ActionOps
    <2>2. Records' = [Records EXCEPT ![cmd.act] = "applied"] /\ acts[cmd.act].status = "pending"
      BY <1>1, <1>6, <2>1 DEF Records, Outcome
    <2>3. Promise!RecordApplied(cmd.act)
      BY <1>2, <2>1, <2>2 DEF Promise!RecordApplied, Moved, Records, Tried, Landed
    <2> QED
      BY <2>1, <2>3 DEF Promise!Next
  <1>7. CASE cmd.op = "failed"
    <2>1. Tried' = Tried /\ cmd.act \in Actions /\ cmd.act \in Tried /\ Moved("applying", "failed")
      BY <1>1, <1>7, TriedAfter DEF CommandTrue, ActionOps
    <2>2. Records' = [Records EXCEPT ![cmd.act] = "failed"] /\ acts[cmd.act].status = "pending"
      BY <1>1, <1>7, <2>1 DEF Records, Outcome
    <2>3. Promise!RecordFailed(cmd.act)
      BY <1>2, <2>1, <2>2 DEF Promise!RecordFailed, Moved, Records, Tried, Landed
    <2> QED
      BY <2>1, <2>3 DEF Promise!Next
  <1> QED
    BY <1>1, <1>3, <1>4, <1>5, <1>6, <1>7 DEF Ops, ActionOps

\* So is every effect the target commits.
LEMMA LandIsPromised ==
    ASSUME RepairInv, UNCHANGED store, NEW a \in Actions, target' = target \/ Lands(a)
    PROVE  Promise!Next \/ UNCHANGED Promise!vars
  <1>1. Tried' = Tried /\ plan' = plan /\ acts' = acts
    BY StoreSame
  <1>2. CASE target' = target
    <2>1. Landed' = Landed
      BY <1>2 DEF Landed
    <2> QED
      BY <1>1, <2>1, PromiseStands
  <1>3. CASE Lands(a)
    <2>1. Promise!Land(a)
      BY <1>1, <1>3 DEF Lands, Promise!Land, Tried, Landed
    <2> QED
      BY <2>1 DEF Promise!Next
  <1> QED
    BY <1>2, <1>3

\* Every step of the workflow is a step of the promise or a stutter.
LEMMA PromiseStep ==
    ASSUME RepairInv, [Next]_vars
    PROVE  [Promise!Next]_(Promise!vars)
  <1>1. ASSUME UNCHANGED store, Landed' = Landed PROVE UNCHANGED Promise!vars
    BY <1>1, StoreSame, PromiseStands
  <1>2. ASSUME NEW c \in Calls, Run(c) PROVE Promise!Next \/ UNCHANGED Promise!vars
    BY <1>1, <1>2, RunStore, CommitIsPromised
  <1>3. ASSUME UNCHANGED <<store, target>> PROVE UNCHANGED Promise!vars
    BY <1>1, <1>3 DEF Landed
  <1>4. ASSUME NEW c \in Calls, Start(c) \/ Step(c) PROVE Promise!Next \/ UNCHANGED Promise!vars
    <2>1. CASE Handled(c)
      <3>1. UNCHANGED store /\ (target' = target \/ \E a \in Actions : Lands(a))
        BY <2>1, HandledStep
      <3>2. CASE target' = target
        BY <1>3, <3>1, <3>2
      <3> QED
        BY <3>1, <3>2, LandIsPromised
    <2> QED
      BY <1>2, <1>3, <1>4, <2>1, StandingSteps DEF Step
  <1>5. ASSUME NEW a \in Actions, Arrive(a) \/ Outside(a) PROVE Promise!Next \/ UNCHANGED Promise!vars
    BY <1>1, <1>5, ArriveStep, OutsideStep, LandIsPromised
  <1>6. CASE Crash
    BY <1>3, <1>6, CrashStep
  <1>7. CASE UNCHANGED vars
    BY <1>3, <1>7 DEF vars, store
  <1> QED
    BY <1>4, <1>5, <1>6, <1>7 DEF Next

\* The workflow starts where the promise starts.
LEMMA PromiseInit == Init => Promise!Init
  <1> SUFFICES ASSUME Init PROVE Promise!Init
    OBVIOUS
  <1>1. FirstRows
    BY InitRows
  <1>2. Landed = {}
    BY DEF Init, Landed, Nothing
  <1>3. Tried = {} /\ plan.status \in {"none", "proposed"}
    BY <1>1 DEF FirstRows, FirstFacts, Tried
  <1>4. Records = [a \in Actions |-> "pending"]
    BY <1>1 DEF FirstRows, Records
  <1> QED
    BY <1>2, <1>3, <1>4 DEF Promise!Init, Records, Tried, Landed

\* Any number of callers, a writer that loses receipts, requests that arrive late, a
\* process that crashes: the workflow is the plan of RepairPromise all the same.
THEOREM RepairImplementsPromise == Spec => ImplementsPromise
  <1>1. Init => Promise!Init
    BY PromiseInit
  <1>2. RepairInv /\ [Next]_vars => [Promise!Next]_(Promise!vars)
    BY PromiseStep
  <1> QED
    BY <1>1, <1>2, RepairInvariant, PTL DEF Spec, ImplementsPromise, Promise!Spec

\* No effect reaches the target for a plan that was not approved and begun, the order
\* the approval and application services enforce.
THEOREM Authorised == Spec => []Promise!EffectsAreAuthorised
  <1>1. RepairInv => Promise!EffectsAreAuthorised
    BY DEF RepairInv, PromiseInv, Promise!EffectsAreAuthorised, Begun, Landed, Tried
  <1> QED
    BY <1>1, RepairInvariant, PTL

\* An action recorded as applied has landed, and a plan recorded as applied has landed
\* whole.
THEOREM TrueRecords == Spec => []Promise!RecordsAreTrue
  <1>1. RepairInv => Promise!RecordsAreTrue
    BY DEF RepairInv, PromiseInv, Promise!RecordsAreTrue, Landed
  <1> QED
    BY <1>1, RepairInvariant, PTL

(***************************************************************************)
(* The reconciliation core: values, no behaviour.                          *)
(***************************************************************************)

\* What the constants stand for: canonical keys are keys, and any set of them has a first one.
KeysOrdered ==
    /\ AttributeKeys \subseteq AttributeNames
    /\ \A S \in SUBSET AttributeKeys : S # {} => \E k \in S : \A j \in S \ {k} : Before(k, j)

\* An observation that no check of the normalizer objects to.
Sound(o) ==
    /\ ~o.malformed /\ ~o.oversized
    /\ o.sku.is = "text" /\ o.sku.v \in Skus /\ ~o.sku.variant
    /\ o.key.is = "text" /\ o.key.v \in Keys
    /\ o.name.is = "text" /\ o.name.v \in Names
    /\ o.quantity.is = "int" /\ o.quantity.v \in Quantities /\ o.quantity.v \notin Huge
    /\ o.updated.is = "text" /\ o.updated.v \in Instants
    /\ o.price.is \in {"absent", "object"}
    /\ o.currency.is = "text" /\ o.currency.v \in Currencies
    /\ o.amount.is = "text" /\ o.amount.v \in Amounts /\ o.amount.v \notin Negative
    /\ <<o.currency.v, o.amount.v>> \in Monies
    /\ o.attributes.is \in {"absent", "object"}
    /\ \A k \in AttributeNames \ AttributeKeys : o.items[k] = Absent
    /\ \A k \in AttributeKeys : o.items[k].is \in {"absent", "text"}
    /\ AttributesOf(o) \in Attributes

----------------------------------------------------------------------------
(* Normalization *)

\* A marker is found exactly at a null or a value of another type.
LEMMA MarkerEmpty ==
    ASSUME NEW leaf, NEW field
    PROVE  Marker(leaf, field) = {} <=> ~Marked(leaf)
  BY DEF Marker, When

\* The order in which reasons are looked for does not decide whether there is one.
LEMMA ElseEmpty ==
    ASSUME NEW R, NEW S
    PROVE  Else(R, S) = {} <=> R = {} /\ S = {}
  BY DEF Else

\* A value is marked exactly when it is there and has another type.
LEMMA LeafMarked ==
    ASSUME NEW raw, NEW type \in {"text", "int", "object"},
           NEW kind \in {"text", "integer", "missing", "attribute_text"}
    PROVE  /\ Marked(Leaf(raw, type, kind)) <=> raw.is \notin {"absent", type}
           /\ raw.is = type => Leaf(raw, type, kind) = [kind |-> kind, value |-> raw.v]
           /\ raw.is = "absent" => Leaf(raw, type, kind) = [kind |-> "missing", value |-> NoValue]
  BY DEF Marked, Leaf

\* No attribute is marked when the first one that would be is not.
LEMMA ItemMarkerEmpty ==
    ASSUME KeysOrdered, NEW o
    PROVE  ItemMarker(o) = {} <=> \A k \in AttributeKeys : o.items[k].is \in {"absent", "text"}
<1>1. MarkedItems(o) = {} <=> \A k \in AttributeKeys : o.items[k].is \in {"absent", "text"}
  <2>1. \A k \in AttributeKeys : Marked(ItemLeaf(o, k)) <=> o.items[k].is \notin {"absent", "text"}
    BY LeafMarked DEF ItemLeaf
  <2> QED BY <2>1 DEF MarkedItems
<1>2. ASSUME MarkedItems(o) # {} PROVE ItemMarker(o) # {}
  <2>1. FirstItem(o) \in MarkedItems(o)
    BY <1>2 DEF FirstItem, MarkedItems, KeysOrdered
  <2> QED BY <1>2, <2>1, MarkerEmpty DEF ItemMarker, MarkedItems
<1> QED BY <1>1, <1>2 DEF ItemMarker

\* There is no marker exactly when every part is absent or has its type.
LEMMA MarkersEmpty ==
    ASSUME KeysOrdered, NEW o
    PROVE  Markers(o) = {} <=>
             /\ o.attributes.is \in {"absent", "object"} /\ o.price.is \in {"absent", "object"}
             /\ o.name.is \in {"absent", "text"} /\ o.quantity.is \in {"absent", "int"}
             /\ o.amount.is \in {"absent", "text"} /\ o.currency.is \in {"absent", "text"}
             /\ o.updated.is \in {"absent", "text"}
             /\ \A k \in AttributeKeys : o.items[k].is \in {"absent", "text"}
<1>1. Markers(o) = {} <=>
        /\ ~Marked(AttributesLeaf(o)) /\ ItemMarker(o) = {} /\ ~Marked(NameLeaf(o))
        /\ ~Marked(QuantityLeaf(o)) /\ ~Marked(PriceLeaf(o)) /\ ~Marked(AmountLeaf(o))
        /\ ~Marked(CurrencyLeaf(o)) /\ ~Marked(UpdatedLeaf(o))
  BY MarkerEmpty, ElseEmpty DEF Markers
<1>2. /\ Marked(AttributesLeaf(o)) <=> o.attributes.is \notin {"absent", "object"}
      /\ Marked(PriceLeaf(o)) <=> o.price.is \notin {"absent", "object"}
      /\ Marked(NameLeaf(o)) <=> o.name.is \notin {"absent", "text"}
      /\ Marked(QuantityLeaf(o)) <=> o.quantity.is \notin {"absent", "int"}
      /\ Marked(AmountLeaf(o)) <=> o.amount.is \notin {"absent", "text"}
      /\ Marked(CurrencyLeaf(o)) <=> o.currency.is \notin {"absent", "text"}
      /\ Marked(UpdatedLeaf(o)) <=> o.updated.is \notin {"absent", "text"}
  BY LeafMarked
     DEF AttributesLeaf, PriceLeaf, NameLeaf, QuantityLeaf, AmountLeaf, CurrencyLeaf, UpdatedLeaf
<1> QED BY <1>1, <1>2, ItemMarkerEmpty

\* Nothing required is missing exactly when all of it is there.
LEMMA RequiredEmpty ==
    ASSUME NEW o,
           o.name.is \in {"absent", "text"}, o.quantity.is \in {"absent", "int"},
           o.amount.is \in {"absent", "text"}, o.currency.is \in {"absent", "text"},
           o.updated.is \in {"absent", "text"}
    PROVE  Required(o) = {} <=>
             /\ o.name.is = "text" /\ o.quantity.is = "int" /\ o.updated.is = "text"
             /\ o.currency.is = "text" /\ o.amount.is = "text"
<1>1. Required(o) = {} <=>
        /\ NameLeaf(o).kind # "missing" /\ QuantityLeaf(o).kind # "missing"
        /\ UpdatedLeaf(o).kind # "missing" /\ CurrencyLeaf(o).kind # "missing"
        /\ AmountLeaf(o).kind # "missing"
  BY ElseEmpty DEF Required, Missing, When
<1>2. /\ NameLeaf(o).kind = "missing" <=> o.name.is = "absent"
      /\ QuantityLeaf(o).kind = "missing" <=> o.quantity.is = "absent"
      /\ UpdatedLeaf(o).kind = "missing" <=> o.updated.is = "absent"
      /\ CurrencyLeaf(o).kind = "missing" <=> o.currency.is = "absent"
      /\ AmountLeaf(o).kind = "missing" <=> o.amount.is = "absent"
  BY LeafMarked DEF NameLeaf, QuantityLeaf, UpdatedLeaf, CurrencyLeaf, AmountLeaf
<1> QED BY <1>1, <1>2

\* The provenance is in order exactly when it is a text.
LEMMA ProvenanceEmpty ==
    ASSUME NEW raw, NEW field
    PROVE  Provenance(raw, field) = {} <=> raw.is = "text"
  BY DEF Provenance

\* Normalization accepts exactly the sound observations: nothing that any of its checks would
\* refuse gets past the checks before it.
LEMMA AcceptedSound ==
    ASSUME KeysOrdered, NEW o
    PROVE  Accepted(o) <=> Sound(o)
<1>1. Quarantine(o) = {} <=>
        /\ ~o.malformed /\ ~o.oversized
        /\ \A k \in AttributeNames \ AttributeKeys : o.items[k] = Absent
        /\ o.sku.is = "text" /\ o.key.is = "text"
        /\ Markers(o) = {} /\ Required(o) = {} /\ Parsed(o) = {} /\ Contract(o) = {}
  BY ElseEmpty, ProvenanceEmpty DEF Quarantine, When
<1>2. Parsed(o) = {} <=>
        /\ o.currency.v \in Currencies /\ o.amount.v \in Amounts
        /\ <<o.currency.v, o.amount.v>> \in Monies /\ o.updated.v \in Instants
  BY ElseEmpty DEF Parsed, When
<1>3. Contract(o) = {} <=>
        /\ o.sku.v \in Skus /\ ~o.sku.variant /\ o.name.v \in Names
        /\ o.quantity.v \in Quantities /\ o.key.v \in Keys
        /\ AttributesOf(o) \in Attributes /\ o.amount.v \notin Negative
  BY ElseEmpty DEF Contract, When
<1>4. Markers(o) = {} /\ Required(o) = {} <=>
        /\ o.attributes.is \in {"absent", "object"} /\ o.price.is \in {"absent", "object"}
        /\ o.name.is = "text" /\ o.quantity.is = "int" /\ o.updated.is = "text"
        /\ o.currency.is = "text" /\ o.amount.is = "text"
        /\ \A k \in AttributeKeys : o.items[k].is \in {"absent", "text"}
  BY MarkersEmpty, RequiredEmpty
<1> HIDE DEF Quarantine, Markers, Required, Parsed, Contract
<1> QED BY <1>1, <1>2, <1>3, <1>4 DEF Accepted, Sound, Raises

----------------------------------------------------------------------------
(* The two comparisons *)

\* The leaf of an accepted attribute tells whether it is there, and with which value.
LEMMA ItemLeafOf ==
    ASSUME NEW o, Sound(o), NEW k \in AttributeKeys
    PROVE  /\ k \in DOMAIN AttributesOf(o) <=> o.items[k].is = "text"
           /\ o.items[k].is = "text" =>
                /\ AttributesOf(o)[k] = o.items[k].v
                /\ ItemLeaf(o, k) = [kind |-> "attribute_text", value |-> o.items[k].v]
           /\ o.items[k].is # "text" => ItemLeaf(o, k) = [kind |-> "missing", value |-> NoValue]
<1>1. o.items[k].is \in {"absent", "text"}
  BY DEF Sound
<1>2. /\ o.items[k].is = "text" =>
           ItemLeaf(o, k) = [kind |-> "attribute_text", value |-> o.items[k].v]
      /\ o.items[k].is = "absent" => ItemLeaf(o, k) = [kind |-> "missing", value |-> NoValue]
  BY LeafMarked DEF ItemLeaf
<1>3. ItemLeaf(o, k).kind = "attribute_text" <=> o.items[k].is = "text"
  BY <1>1, <1>2
<1> QED BY <1>1, <1>2, <1>3 DEF AttributesOf

\* Two accepted observations have the same attributes when they have the same leaves.
LEMMA SameAttributes ==
    ASSUME NEW o, NEW p, Sound(o), Sound(p)
    PROVE  AttributesOf(o) = AttributesOf(p) <=>
             \A k \in AttributeKeys : ItemLeaf(o, k) = ItemLeaf(p, k)
<1>1. ASSUME AttributesOf(o) = AttributesOf(p), NEW k \in AttributeKeys
      PROVE  ItemLeaf(o, k) = ItemLeaf(p, k)
  BY <1>1, ItemLeafOf
<1>2. ASSUME \A k \in AttributeKeys : ItemLeaf(o, k) = ItemLeaf(p, k)
      PROVE  AttributesOf(o) = AttributesOf(p)
  <2> DEFINE D(q) == {j \in AttributeKeys : ItemLeaf(q, j).kind = "attribute_text"}
  <2>1. D(o) = D(p)
    BY <1>2
  <2>2. ASSUME NEW k \in D(o) PROVE o.items[k].v = p.items[k].v
    <3>1. k \in AttributeKeys /\ ItemLeaf(o, k).kind = "attribute_text"
      OBVIOUS
    <3>2. o.items[k].is = "text" /\ p.items[k].is = "text"
      BY <3>1, <1>2, ItemLeafOf
    <3> QED BY <3>1, <3>2, <1>2, ItemLeafOf
  <2> HIDE DEF D
  <2>3. [k \in D(o) |-> o.items[k].v] = [k \in D(p) |-> p.items[k].v]
    BY <2>1, <2>2
  <2> QED BY <2>3 DEF AttributesOf, D
<1> QED BY <1>1, <1>2

\* The differences shown for a pair of records agree with its classification: differences_between
\* compares the normalized records, build_field_differences the projected documents, and for
\* accepted observations neither finds a difference without the other.
THEOREM DifferencesTellMismatch ==
    ASSUME KeysOrdered, NEW o, NEW p, Accepted(o), Accepted(p)
    PROVE  Mismatches(RecordOf(o), RecordOf(p)) = {} <=>
             Differences(DocumentOf(o), DocumentOf(p)) = {}
<1>1. Sound(o) /\ Sound(p)
  BY AcceptedSound
<1>2. Mismatches(RecordOf(o), RecordOf(p)) = {} <=>
        /\ o.name.v = p.name.v /\ o.quantity.v = p.quantity.v /\ o.updated.v = p.updated.v
        /\ o.currency.v = p.currency.v /\ o.amount.v = p.amount.v
        /\ AttributesOf(o) = AttributesOf(p)
  <2> DEFINE r == RecordOf(o)
             s == RecordOf(p)
  <2>1. Mismatches(r, s) = {} <=>
          /\ r.name = s.name /\ r.quantity = s.quantity /\ r.price = s.price
          /\ r.updated = s.updated /\ r.attributes = s.attributes
    <3> HIDE DEF r, s
    <3> QED BY DEF Mismatches, Fields
  <2> QED BY <2>1 DEF RecordOf
<1>3. Differences(DocumentOf(o), DocumentOf(p)) = {} <=>
        /\ NameLeaf(o) = NameLeaf(p) /\ QuantityLeaf(o) = QuantityLeaf(p)
        /\ CurrencyLeaf(o) = CurrencyLeaf(p) /\ o.updated.v = p.updated.v
        /\ o.currency.v = p.currency.v /\ o.amount.v = p.amount.v
        /\ \A k \in AttributeKeys : ItemLeaf(o, k) = ItemLeaf(p, k)
  <2> DEFINE d == DocumentOf(o)
             e == DocumentOf(p)
  <2>1. Differences(d, e) = {} <=>
          /\ d.name = e.name /\ d.quantity = e.quantity /\ d.currency = e.currency
          /\ d.amount = e.amount /\ d.updated = e.updated
          /\ \A k \in AttributeKeys : d.items[k] = e.items[k]
    <3> HIDE DEF d, e
    <3> QED BY DEF Differences
  <2>2. d.amount = e.amount <=> o.currency.v = p.currency.v /\ o.amount.v = p.amount.v
    BY DEF DocumentOf
  <2>3. d.updated = e.updated <=> o.updated.v = p.updated.v
    BY DEF DocumentOf
  <2>4. /\ d.name = NameLeaf(o) /\ d.quantity = QuantityLeaf(o) /\ d.currency = CurrencyLeaf(o)
        /\ e.name = NameLeaf(p) /\ e.quantity = QuantityLeaf(p) /\ e.currency = CurrencyLeaf(p)
        /\ \A k \in AttributeKeys : d.items[k] = ItemLeaf(o, k) /\ e.items[k] = ItemLeaf(p, k)
    BY DEF DocumentOf
  <2> HIDE DEF d, e
  <2>5. Differences(d, e) = {} <=>
        /\ NameLeaf(o) = NameLeaf(p) /\ QuantityLeaf(o) = QuantityLeaf(p)
        /\ CurrencyLeaf(o) = CurrencyLeaf(p) /\ o.updated.v = p.updated.v
        /\ o.currency.v = p.currency.v /\ o.amount.v = p.amount.v
        /\ \A k \in AttributeKeys : ItemLeaf(o, k) = ItemLeaf(p, k)
    BY <2>1, <2>2, <2>3, <2>4
  <2> QED BY <2>5 DEF d, e
<1>4. /\ NameLeaf(o) = NameLeaf(p) <=> o.name.v = p.name.v
      /\ QuantityLeaf(o) = QuantityLeaf(p) <=> o.quantity.v = p.quantity.v
      /\ CurrencyLeaf(o) = CurrencyLeaf(p) <=> o.currency.v = p.currency.v
  <2>1. /\ o.name.is = "text" /\ p.name.is = "text"
        /\ o.quantity.is = "int" /\ p.quantity.is = "int"
        /\ o.currency.is = "text" /\ p.currency.is = "text"
    BY <1>1 DEF Sound
  <2>2. /\ NameLeaf(o) = [kind |-> "text", value |-> o.name.v]
        /\ NameLeaf(p) = [kind |-> "text", value |-> p.name.v]
    BY <2>1, LeafMarked DEF NameLeaf
  <2>3. /\ QuantityLeaf(o) = [kind |-> "integer", value |-> o.quantity.v]
        /\ QuantityLeaf(p) = [kind |-> "integer", value |-> p.quantity.v]
    BY <2>1, LeafMarked DEF QuantityLeaf
  <2>4. /\ CurrencyLeaf(o) = [kind |-> "text", value |-> o.currency.v]
        /\ CurrencyLeaf(p) = [kind |-> "text", value |-> p.currency.v]
    BY <2>1, LeafMarked DEF CurrencyLeaf
  <2>5. ASSUME NEW kind, NEW a, NEW b
        PROVE  [kind |-> kind, value |-> a] = [kind |-> kind, value |-> b] <=> a = b
    OBVIOUS
  <2> QED BY <2>2, <2>3, <2>4, <2>5
<1> QED BY <1>1, <1>2, <1>3, <1>4, SameAttributes

----------------------------------------------------------------------------
(* What a repair writes *)

\* A repair writes a payload that normalization accepts again, as the same record with the
\* provenance of a repair.
LEMMA RenderedAccepted ==
    ASSUME KeysOrdered, NEW o, Accepted(o), RepairKey(RecordOf(o).sku) \in Keys
    PROVE  /\ Accepted(RenderEffect(RecordOf(o)))
           /\ Content(RecordOf(RenderEffect(RecordOf(o)))) = Content(RecordOf(o))
<1> DEFINE r == RecordOf(o)
           e == RenderEffect(r)
<1>1. Sound(o)
  BY AcceptedSound
<1>2. /\ r.sku = o.sku.v /\ r.name = o.name.v /\ r.quantity = o.quantity.v
      /\ r.price = <<o.currency.v, o.amount.v>> /\ r.updated = o.updated.v
      /\ r.attributes = AttributesOf(o)
  BY DEF RecordOf
<1>3. /\ ~e.malformed /\ ~e.oversized /\ e.sku = Text(r.sku) /\ e.key = Text(RepairKey(r.sku))
      /\ e.name = Text(r.name) /\ e.quantity = Integer(r.quantity) /\ e.updated = Text(r.updated)
      /\ e.price = Object /\ e.currency = Text(r.price[1]) /\ e.amount = Text(r.price[2])
      /\ e.attributes = Object
      /\ \A k \in AttributeNames :
           e.items[k] = IF k \in DOMAIN r.attributes THEN Text(r.attributes[k]) ELSE Absent
  BY DEF RenderEffect
<1>4. DOMAIN AttributesOf(o) = {j \in AttributeKeys : ItemLeaf(o, j).kind = "attribute_text"}
  BY DEF AttributesOf
<1> HIDE DEF r, e
<1>5. \A k \in AttributeKeys : ItemLeaf(e, k) = ItemLeaf(o, k) /\ e.items[k].is \in {"absent", "text"}
  <2> TAKE k \in AttributeKeys
  <2>1. k \in AttributeNames
    BY DEF KeysOrdered
  <2>2. CASE o.items[k].is = "text"
    <3>1. e.items[k] = Text(o.items[k].v)
      BY <2>1, <2>2, <1>1, <1>2, <1>3, ItemLeafOf
    <3>2. e.items[k].is = "text" /\ e.items[k].v = o.items[k].v
      BY <3>1 DEF Text
    <3> QED BY <3>2, <2>2, LeafMarked DEF ItemLeaf
  <2>3. CASE o.items[k].is # "text"
    <3>1. e.items[k] = Absent
      BY <2>1, <2>3, <1>1, <1>2, <1>3, ItemLeafOf
    <3>2. o.items[k].is = "absent" /\ e.items[k].is = "absent"
      BY <3>1, <2>3, <1>1 DEF Absent, Sound
    <3> QED BY <3>2, LeafMarked DEF ItemLeaf
  <2> QED BY <2>2, <2>3
<1>6. AttributesOf(e) = AttributesOf(o)
  <2> DEFINE D(q) == {j \in AttributeKeys : ItemLeaf(q, j).kind = "attribute_text"}
  <2>1. D(e) = D(o)
    BY <1>5
  <2>2. \A k \in D(o) : e.items[k].v = o.items[k].v
    <3> TAKE k \in D(o)
    <3>1. k \in AttributeKeys /\ k \in AttributeNames /\ k \in DOMAIN AttributesOf(o)
      BY <1>4 DEF KeysOrdered
    <3>2. AttributesOf(o)[k] = o.items[k].v
      BY <3>1, <1>1, ItemLeafOf
    <3>3. e.items[k] = Text(o.items[k].v)
      BY <3>1, <3>2, <1>2, <1>3
    <3> QED BY <3>3 DEF Text
  <2> HIDE DEF D
  <2>3. [k \in D(e) |-> e.items[k].v] = [k \in D(o) |-> o.items[k].v]
    BY <2>1, <2>2
  <2> QED BY <2>3 DEF AttributesOf, D
<1>7. /\ e.sku.is = "text" /\ e.sku.v = o.sku.v /\ ~e.sku.variant
      /\ e.key.is = "text" /\ e.key.v = RepairKey(r.sku)
      /\ e.name.is = "text" /\ e.name.v = o.name.v
      /\ e.quantity.is = "int" /\ e.quantity.v = o.quantity.v
      /\ e.updated.is = "text" /\ e.updated.v = o.updated.v
      /\ e.price.is = "object" /\ e.attributes.is = "object"
      /\ e.currency.is = "text" /\ e.currency.v = o.currency.v
      /\ e.amount.is = "text" /\ e.amount.v = o.amount.v
  BY <1>2, <1>3 DEF Text, Integer, Object
<1>8. \A k \in AttributeNames \ AttributeKeys : e.items[k] = Absent
  BY <1>2, <1>3, <1>4
<1>9. Sound(e)
  <2>1. RepairKey(r.sku) \in Keys
    BY DEF r
  <2> QED BY <2>1, <1>1, <1>3, <1>5, <1>6, <1>7, <1>8 DEF Sound
<1>10. Content(RecordOf(e)) = Content(RecordOf(o))
  BY <1>6, <1>7 DEF Content, RecordOf
<1>11. Accepted(e)
  BY <1>9, AcceptedSound
<1> QED BY <1>10, <1>11 DEF r, e

\* A record spelled as the program spells it is, but for its provenance, the payload that a
\* repair of its normalized form would write: the digest of the precondition is the target's.
LEMMA CanonicalRendered ==
    ASSUME KeysOrdered, NEW o \in Observations, Accepted(o), Canonical(o)
    PROVE  Portable(o) = Portable(RenderEffect(RecordOf(o)))
<1> DEFINE r == RecordOf(o)
           e == RenderEffect(r)
<1>1. Sound(o)
  BY AcceptedSound
<1>2. o \in Shapes
  BY DEF Observations
<1>3. /\ o.sku \in Raws /\ o.name \in Raws /\ o.quantity \in Raws /\ o.updated \in Raws
      /\ o.currency \in Raws /\ o.amount \in Raws /\ o.items \in [AttributeNames -> Raws]
      /\ o.malformed \in BOOLEAN /\ o.oversized \in BOOLEAN
  BY <1>2 DEF Shapes
<1>4. ASSUME NEW raw \in Raws, ~raw.variant
      PROVE  /\ raw.is = "text" => raw = Text(raw.v)
             /\ raw.is = "int" => raw = Integer(raw.v)
             /\ raw.is = "absent" => raw = Absent
  <2>1. CASE raw \in {Absent, Null, Object, Other}
    BY <2>1 DEF Absent, Null, Object, Other
  <2>2. CASE raw \in [is : {"text"}, v : Values, variant : BOOLEAN]
    <3>1. raw = [is |-> "text", v |-> raw.v, variant |-> FALSE]
      BY <2>2, <1>4
    <3>2. raw.is = "text"
      BY <2>2
    <3> QED BY <3>1, <3>2 DEF Text
  <2>3. CASE raw \in [is : {"int"}, v : Values, variant : {FALSE}]
    <3>1. raw = [is |-> "int", v |-> raw.v, variant |-> FALSE]
      BY <2>3
    <3>2. raw.is = "int"
      BY <2>3
    <3> QED BY <3>1, <3>2 DEF Integer
  <2> QED BY <2>1, <2>2, <2>3 DEF Raws
<1>5. /\ ~o.sku.variant /\ ~o.name.variant /\ ~o.quantity.variant /\ ~o.updated.variant
      /\ ~o.currency.variant /\ ~o.amount.variant
      /\ \A k \in AttributeNames : ~o.items[k].variant
      /\ o.price = Object /\ o.attributes = Object /\ o.extras = {}
  BY DEF Canonical
<1>6. /\ o.sku.is = "text" /\ o.name.is = "text" /\ o.quantity.is = "int" /\ o.updated.is = "text"
      /\ o.currency.is = "text" /\ o.amount.is = "text"
      /\ o.malformed = FALSE /\ o.oversized = FALSE
  BY <1>1, <1>3 DEF Sound
<1>7. /\ o.sku = Text(o.sku.v) /\ o.name = Text(o.name.v) /\ o.quantity = Integer(o.quantity.v)
      /\ o.updated = Text(o.updated.v) /\ o.currency = Text(o.currency.v)
      /\ o.amount = Text(o.amount.v)
  BY <1>3, <1>4, <1>5, <1>6
<1>8. /\ r.sku = o.sku.v /\ r.name = o.name.v /\ r.quantity = o.quantity.v
      /\ r.price[1] = o.currency.v /\ r.price[2] = o.amount.v /\ r.updated = o.updated.v
      /\ r.attributes = AttributesOf(o)
  BY DEF RecordOf
<1> HIDE DEF r
<1>9. \A k \in AttributeNames :
        o.items[k] = IF k \in DOMAIN r.attributes THEN Text(r.attributes[k]) ELSE Absent
  <2> TAKE k \in AttributeNames
  <2>1. CASE k \in AttributeKeys
    <3>1. o.items[k].is \in {"absent", "text"} /\ o.items[k] \in Raws /\ ~o.items[k].variant
      BY <2>1, <1>1, <1>3, <1>5 DEF Sound
    <3>2. o.items[k] = IF o.items[k].is = "text" THEN Text(o.items[k].v) ELSE Absent
      BY <3>1, <1>4
    <3>3. /\ k \in DOMAIN r.attributes <=> o.items[k].is = "text"
          /\ o.items[k].is = "text" => r.attributes[k] = o.items[k].v
      BY <2>1, <1>1, <1>8, ItemLeafOf
    <3> QED BY <3>2, <3>3
  <2>2. CASE k \notin AttributeKeys
    <3>1. o.items[k] = Absent
      BY <2>2, <1>1 DEF Sound
    <3>2. k \notin DOMAIN r.attributes
      BY <2>2, <1>8 DEF AttributesOf
    <3> QED BY <3>1, <3>2
  <2> QED BY <2>1, <2>2
<1>10. o.items = [k \in AttributeNames |->
                    IF k \in DOMAIN r.attributes THEN Text(r.attributes[k]) ELSE Absent]
  BY <1>3, <1>9
<1>11. /\ o.malformed = e.malformed /\ o.oversized = e.oversized /\ o.sku = e.sku
       /\ o.name = e.name /\ o.quantity = e.quantity /\ o.updated = e.updated
       /\ o.price = e.price /\ o.currency = e.currency /\ o.amount = e.amount
       /\ o.attributes = e.attributes /\ o.items = e.items /\ o.extras = e.extras
  BY <1>5, <1>6, <1>7, <1>8, <1>10 DEF RenderEffect
<1>12. /\ DOMAIN o = {"malformed", "oversized", "sku", "key", "name", "quantity", "updated",
                      "price", "currency", "amount", "attributes", "items", "extras"}
       /\ DOMAIN e = DOMAIN o
  BY <1>2 DEF Shapes, RenderEffect
<1> HIDE DEF e
<1>13. \A f \in DOMAIN o \ {"key"} : o[f] = e[f]
  BY <1>11, <1>12
<1>14. Portable(o) = Portable(e)
  BY <1>12, <1>13 DEF Portable
<1> QED BY <1>14 DEF e, r

----------------------------------------------------------------------------
(* Stores, plans and parity *)

\* A record of a store has the key it is stored under.
LEMMA StoreKey ==
    ASSUME NEW stock, IsStore(stock), NEW k \in DOMAIN stock
    PROVE  RecordOf(stock[k]).sku = k
<1>1. stock[k].sku = Text(k)
  BY DEF IsStore
<1>2. stock[k].sku.v = k
  BY <1>1 DEF Text
<1> QED BY <1>2 DEF RecordOf

\* A store shows at most one record per key: its own.
LEMMA StoreMembers ==
    ASSUME NEW stock, IsStore(stock), NEW sku
    PROVE  /\ Members(stock, sku) =
                IF sku \in DOMAIN stock /\ Accepted(stock[sku]) THEN {sku} ELSE {}
           /\ ~Many(Members(stock, sku))
           /\ Members(stock, sku) # {} => Only(stock, sku) = RecordOf(stock[sku])
<1>1. \A k \in DOMAIN stock : RecordOf(stock[k]).sku = k
  BY StoreKey
<1>2. Members(stock, sku) =
        IF sku \in DOMAIN stock /\ Accepted(stock[sku]) THEN {sku} ELSE {}
  BY <1>1 DEF Members
<1> QED BY <1>2 DEF Many, Only

\* What a classification says about the two sides it was made from.
LEMMA ClassificationTells ==
    ASSUME NEW source, NEW held, NEW sku
    PROVE  LET S == Members(source, sku)
               T == Members(held, sku)
               c == Classification(source, held, sku)
           IN /\ c \in Repairable => S # {} /\ ~Many(S)
              /\ c = "missing_from_target" => T = {}
              /\ c = "field_mismatch" => T # {}
              /\ S # {} /\ ~Many(S) /\ T # {} /\ ~Many(T)
                 /\ Mismatches(Only(source, sku), Only(held, sku)) = {} => c = "match"
  BY DEF Classification, Repairable

\* The content of two records is the same exactly when no field of one differs in the other.
LEMMA SameContent ==
    ASSUME NEW r, NEW s, r.sku = s.sku
    PROVE  Content(r) = Content(s) <=> Mismatches(r, s) = {}
<1>1. Content(r) = Content(s) <=>
        /\ r.name = s.name /\ r.quantity = s.quantity /\ r.price = s.price
        /\ r.updated = s.updated /\ r.attributes = s.attributes
  <2> DEFINE c == Content(r)
             d == Content(s)
  <2>1. /\ c.name = r.name /\ c.quantity = r.quantity /\ c.price = r.price
        /\ c.updated = r.updated /\ c.attributes = r.attributes
        /\ d.name = s.name /\ d.quantity = s.quantity /\ d.price = s.price
        /\ d.updated = s.updated /\ d.attributes = s.attributes
    BY DEF Content
  <2>2. ASSUME r.name = s.name, r.quantity = s.quantity, r.price = s.price,
               r.updated = s.updated, r.attributes = s.attributes
        PROVE  c = d
    BY <2>2 DEF Content
  <2> QED BY <2>1, <2>2
<1> QED BY <1>1 DEF Mismatches, Fields

\* The keys of a store whose records are all accepted, and what is expected of it.
LEMMA ExpectedDomain ==
    ASSUME NEW source, NEW stock, IsStore(stock)
    PROVE  /\ DOMAIN Expected(source, stock) = ExpectedKeys(source, stock)
           /\ (\A sku \in DOMAIN stock : Accepted(stock[sku])) =>
                ExpectedKeys(source, stock) = DOMAIN stock \cup PlannedKeys(source, stock)
<1>1. DOMAIN Expected(source, stock) = ExpectedKeys(source, stock)
  BY DEF Expected
<1>2. ASSUME \A sku \in DOMAIN stock : Accepted(stock[sku])
      PROVE  ExpectedKeys(source, stock) = DOMAIN stock \cup PlannedKeys(source, stock)
  <2>1. \A k \in DOMAIN stock : RecordOf(stock[k]).sku = k
    BY StoreKey
  <2>2. DOMAIN stock \subseteq KeysOf(source, stock)
    BY <2>1, <1>2 DEF KeysOf
  <2>3. \A sku : Members(stock, sku) # {} <=> sku \in DOMAIN stock
    BY <1>2, StoreMembers
  <2> QED BY <2>2, <2>3 DEF ExpectedKeys, PlannedKeys
<1> QED BY <1>1, <1>2

\* The single source record behind a planned repair.
LEMMA PlannedSource ==
    ASSUME NEW source, NEW held, NEW sku \in PlannedKeys(source, held)
    PROVE  \E i \in DOMAIN source : /\ Accepted(source[i])
                                    /\ RecordOf(source[i]).sku = sku
                                    /\ Only(source, sku) = RecordOf(source[i])
<1>1. Members(source, sku) # {}
  BY ClassificationTells DEF PlannedKeys
<1>2. PICK i \in Members(source, sku) : Only(source, sku) = RecordOf(source[i])
  BY <1>1 DEF Only
<1> QED BY <1>2 DEF Members

\* The same for a store.
LEMMA AppliedStore ==
    ASSUME NEW source, NEW stock, NEW sku \in DOMAIN AfterPlan(stock, Plan(source, stock))
    PROVE  /\ DOMAIN AfterPlan(stock, Plan(source, stock)) =
                DOMAIN stock \cup PlannedKeys(source, stock)
           /\ sku \in PlannedKeys(source, stock) =>
                AfterPlan(stock, Plan(source, stock))[sku] = RenderEffect(Only(source, sku))
           /\ sku \notin PlannedKeys(source, stock) =>
                AfterPlan(stock, Plan(source, stock))[sku] = stock[sku]
<1>1. /\ DOMAIN Plan(source, stock) = PlannedKeys(source, stock)
      /\ \A k \in PlannedKeys(source, stock) : Plan(source, stock)[k].proposed = Only(source, k)
  BY DEF Plan
<1> QED BY <1>1 DEF AfterPlan

\* On a target at rest every planned write finds its precondition true: a create finds no record,
\* and the digest of an update is the one the target computes of the record it stores.
LEMMA PlanApplies ==
    ASSUME KeysOrdered, NEW source, NEW stock, IsStore(stock),
           \A sku \in DOMAIN stock :
              stock[sku] \in Observations /\ Accepted(stock[sku]) /\ Canonical(stock[sku]),
           NEW sku \in PlannedKeys(source, stock)
    PROVE  PreconditionHolds(stock, sku, Plan(source, stock)[sku])
<1> DEFINE action == Plan(source, stock)[sku]
<1>1. action.expected = IF Classification(source, stock, sku) = "field_mismatch"
                        THEN {Only(stock, sku)} ELSE {}
  BY DEF Plan
<1>2. Members(stock, sku) # {} <=> sku \in DOMAIN stock
  BY StoreMembers
<1>3. CASE Classification(source, stock, sku) = "field_mismatch"
  <2>1. Members(stock, sku) # {}
    BY <1>3, ClassificationTells
  <2>2. sku \in DOMAIN stock /\ Only(stock, sku) = RecordOf(stock[sku])
    BY <2>1, <1>2, StoreMembers
  <2>3. Portable(stock[sku]) = Portable(RenderEffect(RecordOf(stock[sku])))
    BY <2>2, CanonicalRendered
  <2> QED BY <1>1, <1>3, <2>2, <2>3 DEF PreconditionHolds
<1>4. CASE Classification(source, stock, sku) # "field_mismatch"
  <2>1. Classification(source, stock, sku) = "missing_from_target"
    BY <1>4 DEF PlannedKeys, Repairable
  <2>2. sku \notin DOMAIN stock
    BY <2>1, <1>2, ClassificationTells
  <2> QED BY <1>1, <1>4, <2>2 DEF PreconditionHolds
<1> QED BY <1>3, <1>4

\* Every write of a plan is taken and the plan reaches the inventory the verifier expects:
\* generate_repair_plan, render_effect_payload, the target's preconditions and
\* build_expected_inventory agree, for every pair of sides whose target is a store of accepted
\* records in the program's own spelling.
THEOREM RepairReachesExpected ==
    ASSUME KeysOrdered, NEW source, NEW stock, IsStore(stock),
           \A sku \in DOMAIN stock :
              stock[sku] \in Observations /\ Accepted(stock[sku]) /\ Canonical(stock[sku]),
           \A sku \in Skus : RepairKey(sku) \in Keys
    PROVE  /\ \A sku \in PlannedKeys(source, stock) :
                PreconditionHolds(stock, sku, Plan(source, stock)[sku])
           /\ ParityHolding(source, stock, AfterPlan(stock, Plan(source, stock)))
<1> DEFINE after == AfterPlan(stock, Plan(source, stock))
           planned == PlannedKeys(source, stock)
<1>1. /\ DOMAIN Expected(source, stock) = DOMAIN stock \cup planned
      /\ ExpectedKeys(source, stock) = DOMAIN stock \cup planned
  BY ExpectedDomain
<1>2. DOMAIN after = DOMAIN stock \cup planned
  BY DEF AfterPlan, Plan
<1>3. ASSUME NEW sku \in DOMAIN after
      PROVE  /\ Accepted(after[sku])
             /\ Content(RecordOf(after[sku])) = Content(Expected(source, stock)[sku])
  <2>1. CASE sku \in planned
    <3>1. PICK i \in DOMAIN source : /\ Accepted(source[i])
                                     /\ RecordOf(source[i]).sku = sku
                                     /\ Only(source, sku) = RecordOf(source[i])
      BY <2>1, PlannedSource
    <3>3. after[sku] = RenderEffect(RecordOf(source[i]))
      <4>1. after[sku] = RenderEffect(Only(source, sku))
        BY <2>1, AppliedStore
      <4> QED BY <3>1, <4>1
    <3>4. RepairKey(sku) \in Keys
      <4>1. sku \in Skus
        BY <3>1, AcceptedSound DEF Sound, RecordOf
      <4> QED BY <4>1
    <3>5. /\ Accepted(RenderEffect(RecordOf(source[i])))
          /\ Content(RecordOf(RenderEffect(RecordOf(source[i])))) = Content(RecordOf(source[i]))
      BY <3>1, <3>4, RenderedAccepted
    <3>6. Expected(source, stock)[sku] = [Only(source, sku) EXCEPT !.key = RepairKey(sku)]
      BY <1>1, <2>1 DEF Expected, Plan
    <3>7. Content(Expected(source, stock)[sku]) = Content(RecordOf(source[i]))
      BY <3>1, <3>6 DEF Content, RecordOf
    <3> QED BY <3>3, <3>5, <3>7
  <2>2. CASE sku \notin planned
    <3>1. sku \in DOMAIN stock
      BY <1>2, <2>2
    <3>2. after[sku] = stock[sku]
      BY <2>2, AppliedStore
    <3>3. Members(stock, sku) # {}
      BY <3>1, StoreMembers
    <3>4. Expected(source, stock)[sku] = RecordOf(stock[sku])
      BY <1>1, <2>2, <3>1, <3>3, StoreMembers DEF Expected
    <3> QED BY <3>1, <3>2, <3>4
  <2> QED BY <2>1, <2>2
<1> HIDE DEF after, planned
<1>4. ParityHolding(source, stock, after)
  BY <1>1, <1>2, <1>3 DEF ParityHolding
<1> QED BY <1>4, PlanApplies DEF after

\* When the verifier has found parity there is nothing left to repair: reconciling the same source
\* with the target it observed finds every planned key matching and every other key classified as
\* before.  Nothing is assumed of how the target got there.
THEOREM ParityMeansMatch ==
    ASSUME NEW source, NEW stock, IsStore(stock), NEW observed, IsStore(observed),
           ParityHolding(source, stock, observed),
           NEW sku \in KeysOf(source, stock)
    PROVE  Classification(source, observed, sku) =
             IF sku \in PlannedKeys(source, stock) THEN "match"
             ELSE Classification(source, stock, sku)
<1>1. /\ \A k \in DOMAIN observed : Accepted(observed[k])
      /\ DOMAIN observed = ExpectedKeys(source, stock)
      /\ \A k \in DOMAIN observed :
           Content(RecordOf(observed[k])) = Content(Expected(source, stock)[k])
  BY ExpectedDomain DEF ParityHolding
<1>2. \A k \in DOMAIN observed : RecordOf(observed[k]).sku = k
  BY StoreKey
<1>3. /\ Members(observed, sku) # {} <=> sku \in ExpectedKeys(source, stock)
      /\ ~Many(Members(observed, sku))
      /\ Members(observed, sku) # {} => Only(observed, sku) = RecordOf(observed[sku])
  BY <1>1, StoreMembers
<1>4. CASE sku \in PlannedKeys(source, stock)
  <2>1. sku \in ExpectedKeys(source, stock)
    BY <1>4 DEF ExpectedKeys
  <2>2. PICK i \in DOMAIN source : /\ Accepted(source[i])
                                   /\ RecordOf(source[i]).sku = sku
                                   /\ Only(source, sku) = RecordOf(source[i])
    BY <1>4, PlannedSource
  <2>3. Expected(source, stock)[sku] = [Only(source, sku) EXCEPT !.key = RepairKey(sku)]
    BY <1>4, <2>1 DEF Expected, Plan
  <2>4. Content(Expected(source, stock)[sku]) = Content(Only(source, sku))
    BY <2>2, <2>3 DEF Content, RecordOf
  <2>5. Content(Only(source, sku)) = Content(Only(observed, sku))
    BY <1>1, <1>3, <2>1, <2>4
  <2>6. Mismatches(Only(source, sku), Only(observed, sku)) = {}
    BY <1>1, <1>2, <1>3, <2>1, <2>2, <2>5, SameContent
  <2>7. Members(source, sku) # {} /\ ~Many(Members(source, sku))
    BY <1>4, ClassificationTells DEF PlannedKeys
  <2> QED BY <1>3, <1>4, <2>1, <2>6, <2>7, ClassificationTells
<1>5. CASE sku \notin PlannedKeys(source, stock)
  <2>1. sku \in ExpectedKeys(source, stock) <=> Members(stock, sku) # {}
    BY <1>5 DEF ExpectedKeys
  <2>2. ~Many(Members(stock, sku))
    BY StoreMembers
  <2>3. Members(observed, sku) = {} <=> Members(stock, sku) = {}
    BY <1>3, <2>1
  <2>4. ASSUME Members(stock, sku) # {}
        PROVE  Mismatches(Only(source, sku), Only(observed, sku)) =
                 Mismatches(Only(source, sku), Only(stock, sku))
    <3>1. Expected(source, stock)[sku] = Only(stock, sku)
      BY <1>5, <2>1, <2>4 DEF Expected
    <3>2. Content(Only(observed, sku)) = Content(Only(stock, sku))
      BY <1>1, <1>3, <2>1, <2>4, <3>1
    <3>3. \A f \in Fields : Only(observed, sku)[f] = Only(stock, sku)[f]
      BY <3>2 DEF Content, Fields
    <3> QED BY <3>3 DEF Mismatches
  <2> QED BY <1>3, <1>5, <2>2, <2>3, <2>4 DEF Classification
<1> QED BY <1>4, <1>5
=============================================================================
