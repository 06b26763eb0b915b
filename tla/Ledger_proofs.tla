--------------------------- MODULE Ledger_proofs ----------------------------
(***************************************************************************)
(* The durable work rows keep a well-numbered, well-ordered history and    *)
(* honour every lease, and the node aggregates never drift from them, for  *)
(* any number of work items and nodes and any bounds.                      *)
(*                                                                         *)
(* None of the properties is inductive alone.  The next attempt is ordered *)
(* after the last one because a row waiting for a retry remembers when its *)
(* last attempt ended (HistoryOK), and a lease outlives the claims issued  *)
(* for it because a renewal only extends it (ClaimsOK).  A node's metrics  *)
(* are counts and a sum over the rows of its work, so each command has one *)
(* lemma on how it changes them; that the status, the start and the finish *)
(* of the node follow from them is the invariant NodeOK.                   *)
(*                                                                         *)
(* Recovery works on the same rows: the last part shows what it leaves in  *)
(* flight and that the frontier it builds tells the rows.                  *)
(***************************************************************************)
EXTENDS Ledger, Recovery, FiniteSetTheorems, SequenceTheorems, TLAPS

\* What one row says by itself.
RowOK(r) ==
    /\ r.state # "absent" => r.updated \in Instants
    /\ r.state \in {"absent", "pending"} => r.completed = 0
    /\ r.state # "succeeded" => r.checkpoint = 0
    /\ r.state = "running" =>
          /\ r.attempt = r.completed + 1 /\ r.completed < MaxInteger
          /\ r.started \in Instants /\ r.expires \in Instants
          /\ r.started <= r.updated /\ r.updated < r.expires

\* A row against the history of its attempts.
HistoryOK(r, h) ==
    /\ Len(h) = r.completed
    /\ \A i \in 1..Len(h) : h[i].number = i /\ h[i].started <= h[i].finished
    /\ \A i, j \in 1..Len(h) : j = i + 1 =>
          h[i].finished <= h[j].started /\ h[i].retryAt <= h[j].started
    /\ \A i \in 1..Len(h) : i = Len(h) =>
          /\ r.state = "running" => h[i].finished <= r.started /\ h[i].retryAt <= r.started
          /\ r.state = "retry_wait" => h[i].finished <= r.updated /\ h[i].retryAt = r.retryAt

\* A claim against its row: it names an attempt that ended, or the one that runs
\* and whose lease lasts at least as long; a lease that expired did so no earlier.
ClaimOK(c, r, h) ==
    /\ c.attempt <= r.completed + 1
    /\ c.attempt = r.completed + 1 => r.state = "running" /\ c.expires <= r.expires
    /\ \A i \in 1..Len(h) :
          c.attempt = i /\ h[i].outcome = "lease_expired" => c.expires <= h[i].finished

\* The inductive invariant.
RowsInv ==
    /\ RowsTypeOK
    /\ \A w \in Work : RowOK(row[w]) /\ HistoryOK(row[w], attempts[w])
    /\ \A c \in issued : ClaimOK(c, row[c.work], attempts[c.work])

------------------------------------------------------------------------------
\* A claimed row is well formed, and its attempt follows the earlier ones.
LEMMA ClaimedOK ==
    ASSUME NEW r \in Row, NEW h \in Seq(AttemptRecords), NEW t \in Instants,
           NEW expires \in Instants, RowOK(r), HistoryOK(r, h),
           r.state \in {"pending", "retry_wait"}, t >= r.retryAt, t >= r.updated, expires > t,
           r.version < MaxInteger, r.completed < MaxInteger
    PROVE  /\ Claimed(r, t, expires) \in Row
           /\ RowOK(Claimed(r, t, expires))
           /\ HistoryOK(Claimed(r, t, expires), h)
<1> DEFINE r2 == Claimed(r, t, expires)
<1>1. r2 \in Row
  <2>1. r.version + 1 \in Versions /\ Instants \cup {None} \subseteq Times
    BY RowsAssumption DEF Row, Versions, Times
  <2>2. r.completed + 1 \in Versions /\ "running" \in RowStates
    BY RowsAssumption DEF Row, Versions, RowStates
  <2> QED
    BY <2>1, <2>2 DEF Row, Claimed
<1>2. RowOK(r2)
  BY RowsAssumption DEF Claimed, Row, Versions, Times, Instants, RowOK
<1>3. HistoryOK(r2, h)
  <2>1. /\ r2.completed = r.completed /\ r2.state = "running" /\ r2.started = t
        /\ r.completed \in Nat
    BY DEF Claimed, Row, Versions
  <2>2. ASSUME NEW i \in 1..Len(h), i = Len(h)
        PROVE  h[i].finished <= t /\ h[i].retryAt <= t
    <3>1. h[i] \in AttemptRecords
      BY <2>2
    <3>2. r.state = "retry_wait"
      BY <2>2 DEF RowOK, HistoryOK
    <3> QED
      BY <2>2, <3>1, <3>2 DEF HistoryOK, AttemptRecords, Row, Times, Instants, None
  <2> QED
    BY <2>1, <2>2 DEF HistoryOK
<1> QED
  BY <1>1, <1>2, <1>3

\* A renewed row is well formed, and its history is unchanged.
LEMMA RenewedOK ==
    ASSUME NEW r \in Row, NEW h \in Seq(AttemptRecords), NEW t \in Instants,
           NEW expires \in Instants, RowOK(r), HistoryOK(r, h),
           r.state = "running", t >= r.updated, r.expires > t, expires > r.expires,
           r.version < MaxInteger
    PROVE  /\ Renewed(r, t, expires) \in Row
           /\ RowOK(Renewed(r, t, expires))
           /\ HistoryOK(Renewed(r, t, expires), h)
<1> DEFINE r2 == Renewed(r, t, expires)
<1>1. r2 \in Row
  <2>1. r.version + 1 \in Versions /\ Instants \cup {None} \subseteq Times
    BY RowsAssumption DEF Row, Versions, Times
  <2>2. expires \in Times
    BY DEF Times
  <2> QED
    BY <2>1, <2>2 DEF Row, Renewed
<1>2. RowOK(r2)
  BY RowsAssumption DEF Renewed, Row, Versions, Times, Instants, RowOK
<1>3. HistoryOK(r2, h)
  BY DEF Renewed, Row, HistoryOK
<1> QED
  BY <1>1, <1>2, <1>3

\* Ending an attempt keeps the row well formed and extends its history in order.
LEMMA EndedOK ==
    ASSUME NEW r \in Row, NEW h \in Seq(AttemptRecords), NEW t \in Instants,
           NEW state \in TerminalTargets \cup {"retry_wait"},
           NEW outcome \in TerminalTargets \cup {"retry_wait", "lease_expired"},
           NEW retryAt \in Times, RowOK(r), HistoryOK(r, h),
           r.state = "running", t >= r.updated, r.version < MaxInteger
    PROVE  /\ Ended(r, state, t, retryAt) \in Row
           /\ RowOK(Ended(r, state, t, retryAt))
           /\ AttemptOf(r, outcome, t, retryAt) \in AttemptRecords
           /\ HistoryOK(Ended(r, state, t, retryAt),
                        Append(h, AttemptOf(r, outcome, t, retryAt)))
<1> DEFINE r2 == Ended(r, state, t, retryAt)
           a == AttemptOf(r, outcome, t, retryAt)
           h2 == Append(h, a)
<1>1. r2 \in Row
  <2>1. r.version + 1 \in Versions /\ Instants \cup {None} \subseteq Times
    BY RowsAssumption DEF Row, Versions, Times
  <2>2. r.completed + 1 \in Versions /\ 0 \in Versions /\ state \in RowStates
    BY RowsAssumption DEF Row, RowOK, Versions, RowStates
  <2> QED
    BY <2>1, <2>2 DEF Row, Ended
<1>2. RowOK(r2)
  BY RowsAssumption
  DEF Ended, Row, Versions, Times, Instants, RowOK, TerminalTargets
<1>3. a \in AttemptRecords
  BY DEF AttemptOf, AttemptRecords, RowOK, Row
<1>4. /\ Len(h2) = Len(h) + 1
      /\ \A i \in 1..Len(h) : h2[i] = h[i]
      /\ h2[Len(h) + 1] = a
      /\ Len(h) \in Nat
  BY <1>3, AppendProperties
<1>5. /\ a.number = Len(h) + 1 /\ a.started <= a.finished
      /\ a.started = r.started /\ a.finished = t /\ a.retryAt = retryAt
  BY DEF AttemptOf, RowOK, HistoryOK, Row, Times, Instants, None
<1>6. Len(h2) = r2.completed
  BY <1>4 DEF HistoryOK, Ended, Row
<1>7. \A i \in 1..Len(h2) : h2[i].number = i /\ h2[i].started <= h2[i].finished
  BY <1>4, <1>5 DEF HistoryOK
<1>8. \A i, j \in 1..Len(h2) : j = i + 1 =>
          h2[i].finished <= h2[j].started /\ h2[i].retryAt <= h2[j].started
  BY <1>4, <1>5 DEF HistoryOK
<1>9. \A i \in 1..Len(h2) : i = Len(h2) =>
          /\ r2.state = "running" => h2[i].finished <= r2.started /\ h2[i].retryAt <= r2.started
          /\ r2.state = "retry_wait" => h2[i].finished <= r2.updated /\ h2[i].retryAt = r2.retryAt
  BY <1>4, <1>5 DEF Ended, Row, TerminalTargets, Instants
<1> QED
  BY <1>1, <1>2, <1>3, <1>6, <1>7, <1>8, <1>9 DEF HistoryOK

\* The checkpoint touches neither the attempts nor what orders them.
LEMMA CheckpointedOK ==
    ASSUME NEW r \in Row, NEW h \in Seq(AttemptRecords), NEW t \in Instants,
           RowOK(r), HistoryOK(r, h), r.state = "succeeded",
           r.checkpoint = 0, r.version < MaxInteger
    PROVE  /\ Checkpointed(r, t) \in Row
           /\ RowOK(Checkpointed(r, t))
           /\ HistoryOK(Checkpointed(r, t), h)
<1> DEFINE r2 == Checkpointed(r, t)
<1>1. r2 \in Row
  <2>1. r.version + 1 \in Versions /\ Instants \cup {None} \subseteq Times
    BY RowsAssumption DEF Row, Versions, Times
  <2>2. r.checkpoint + 1 \in Versions
    BY RowsAssumption DEF Versions
  <2> QED
    BY <2>1, <2>2 DEF Row, Checkpointed
<1>2. RowOK(r2)
  BY DEF Checkpointed, Row, RowOK
<1>3. HistoryOK(r2, h)
  BY DEF Checkpointed, Row, HistoryOK
<1> QED
  BY <1>1, <1>2, <1>3

\* An ended attempt settles every claim issued for it.
LEMMA EndedClaimOK ==
    ASSUME NEW r \in Row, NEW h \in Seq(AttemptRecords), NEW t \in Instants,
           NEW outcome \in TerminalTargets \cup {"retry_wait", "lease_expired"},
           NEW retryAt \in Times, NEW r2 \in Row, NEW c \in Claims,
           RowOK(r), HistoryOK(r, h), ClaimOK(c, r, h), r.state = "running",
           AttemptOf(r, outcome, t, retryAt) \in AttemptRecords,
           outcome = "lease_expired" => r.expires <= t,
           r2.completed = r.completed + 1
    PROVE  ClaimOK(c, r2, Append(h, AttemptOf(r, outcome, t, retryAt)))
<1> DEFINE a == AttemptOf(r, outcome, t, retryAt)
           h2 == Append(h, a)
<1>1. /\ Len(h2) = Len(h) + 1
      /\ \A i \in 1..Len(h) : h2[i] = h[i]
      /\ h2[Len(h) + 1] = a
      /\ Len(h) \in Nat
  BY AppendProperties
<1>2. /\ Len(h) = r.completed /\ a.finished = t /\ a.outcome = outcome
      /\ r.completed \in Nat /\ c.attempt \in Nat
  BY DEF HistoryOK, AttemptOf, Row, Claims, Versions
<1>3. c.attempt <= r2.completed + 1 /\ c.attempt # r2.completed + 1
  BY <1>2 DEF ClaimOK
<1>4. ASSUME NEW i \in 1..Len(h2), c.attempt = i, h2[i].outcome = "lease_expired"
      PROVE  c.expires <= h2[i].finished
  <2>1. CASE i \in 1..Len(h)
    BY <1>1, <1>4, <2>1 DEF ClaimOK
  <2>2. CASE i = Len(h) + 1
    <3>1. c.expires <= r.expires /\ r.expires <= t
      BY <1>1, <1>2, <1>4, <2>2 DEF ClaimOK
    <3> QED
      BY SMTT(40), <1>1, <1>2, <2>2, <3>1 DEF RowOK, Claims, Instants
  <2> QED
    BY <1>1, <2>1, <2>2
<1> QED
  BY <1>3, <1>4 DEF ClaimOK

------------------------------------------------------------------------------
\* A step that replaces one row, its history and some claims keeps the invariant
\* when what it installs agrees.
LEMMA ReplaceRow ==
    ASSUME RowsInv, NEW w \in Work, NEW r \in Row, NEW h \in Seq(AttemptRecords),
           row' = [row EXCEPT ![w] = r], attempts' = [attempts EXCEPT ![w] = h],
           RowOK(r), HistoryOK(r, h), issued' \subseteq Claims, now' = now, run' = run,
           \A c \in issued' : c.work # w => c \in issued,
           \A c \in issued' : c.work = w => ClaimOK(c, r, h)
    PROVE  RowsInv'
<1>1. /\ row' \in [Work -> Row] /\ attempts' \in [Work -> Seq(AttemptRecords)]
      /\ row'[w] = r /\ attempts'[w] = h
      /\ \A v \in Work \ {w} : row'[v] = row[v] /\ attempts'[v] = attempts[v]
  BY DEF RowsInv, RowsTypeOK
<1>2. RowsTypeOK'
  BY <1>1 DEF RowsInv, RowsTypeOK
<1>3. ASSUME NEW v \in Work
      PROVE  RowOK(row'[v]) /\ HistoryOK(row'[v], attempts'[v])
  BY <1>1 DEF RowsInv
<1>4. ASSUME NEW c \in issued'
      PROVE  ClaimOK(c, row'[c.work], attempts'[c.work])
  <2>1. c.work \in Work
    BY DEF Claims
  <2> QED
    BY <1>1, <2>1 DEF RowsInv
<1> QED
  BY <1>2, <1>3, <1>4 DEF RowsInv

\* The claim of a well-formed running row, new in its history.
LEMMA OwnClaimOK ==
    ASSUME NEW w \in Work, NEW r \in Row, NEW h \in Seq(AttemptRecords),
           RowOK(r), HistoryOK(r, h), r.state = "running"
    PROVE  ClaimOf(w, r) \in Claims /\ ClaimOK(ClaimOf(w, r), r, h)
<1>1. ClaimOf(w, r) \in Claims
  BY DEF ClaimOf, Claims, RowOK, Row
<1>2. /\ ClaimOf(w, r).attempt = r.completed + 1 /\ ClaimOf(w, r).expires = r.expires
      /\ r.expires \in Int /\ Len(h) = r.completed
  BY DEF ClaimOf, RowOK, HistoryOK, Instants
<1> QED
  BY <1>1, <1>2 DEF ClaimOK, Row, Versions

\* Initially no row exists.
LEMMA RowsInitInv == RowsInit => RowsInv
<1> SUFFICES ASSUME RowsInit PROVE RowsInv
  OBVIOUS
<1>1. Absent \in Row
  BY RowsAssumption DEF Absent, Row, RowStates, Versions, Times, Instants, None
<1>2. RowsTypeOK
  <2>1. run \in [state : RunStates, since : Instants]
    BY RowsAssumption DEF RowsInit, RunStates, RunTransitions, Instants
  <2> QED
    BY <1>1, <2>1, RowsAssumption DEF RowsInit, RowsTypeOK, Instants
<1>3. RowOK(Absent) /\ HistoryOK(Absent, << >>)
  BY DEF RowOK, HistoryOK, Absent
<1> QED
  BY <1>2, <1>3 DEF RowsInit, RowsInv

\* Every step keeps the invariant.
LEMMA RowsNextInv == RowsInv /\ [RowsNext]_<<rows, now>> => RowsInv'
<1> SUFFICES ASSUME RowsInv, [RowsNext]_<<rows, now>> PROVE RowsInv'
  OBVIOUS
<1>typed. /\ row \in [Work -> Row] /\ attempts \in [Work -> Seq(AttemptRecords)]
          /\ issued \subseteq Claims /\ Past \subseteq Instants
  BY DEF RowsInv, RowsTypeOK, Past
<1>held. ASSUME NEW c \in issued
         PROVE  /\ c \in Claims /\ c.work \in Work /\ row[c.work] \in Row
                /\ attempts[c.work] \in Seq(AttemptRecords)
                /\ RowOK(row[c.work]) /\ HistoryOK(row[c.work], attempts[c.work])
  BY <1>typed DEF RowsInv, Claims
<1>kept. /\ \A w \in Work : RowOK(row[w]) /\ HistoryOK(row[w], attempts[w])
         /\ \A c \in issued : ClaimOK(c, row[c.work], attempts[c.work])
  BY DEF RowsInv
<1>1. ASSUME NEW target \in RunStates, NEW t \in Past, TransitionRun(target, t)
      PROVE  RowsInv'
  <2>1. run' \in [state : RunStates, since : Instants]
    BY <1>1, <1>typed DEF TransitionRun, RowsInv, RowsTypeOK
  <2> QED
    BY <1>1, <2>1 DEF TransitionRun, RowsInv, RowsTypeOK
<1>2. ASSUME NEW w \in Work, NEW t \in Past, Create(w, t)
      PROVE  RowsInv'
  <2> DEFINE r == [Absent EXCEPT !.state = "pending", !.version = 1, !.updated = t]
  <2>1. t \in Instants
    BY <1>typed
  <2>2. r \in Row
    <3>1. Absent \in Row
      BY RowsAssumption DEF Absent, Row, RowStates, Versions, Times, Instants, None
    <3>2. "pending" \in RowStates /\ 1 \in Versions /\ t \in Times
      BY <2>1, RowsAssumption DEF RowStates, Versions, Times
    <3> QED
      BY <3>1, <3>2 DEF Row
  <2>3. RowOK(r)
    BY <2>1 DEF Absent, RowOK
  <2>4. /\ row[w].state = "absent" /\ RowOK(row[w]) /\ HistoryOK(row[w], attempts[w])
        /\ attempts[w] \in Seq(AttemptRecords) /\ row[w].completed = 0
    BY <1>2, <1>typed, <1>kept DEF Create, RowOK
  <2>5. HistoryOK(r, attempts[w])
    BY <2>4 DEF HistoryOK, Absent
  <2>6. ASSUME NEW c \in issued, c.work = w
        PROVE  ClaimOK(c, r, attempts[w])
    <3>1. ClaimOK(c, row[w], attempts[w])
      BY <2>6, <1>kept
    <3> QED
      BY <2>4, <3>1 DEF ClaimOK, Absent
  <2>7. /\ row' = [row EXCEPT ![w] = r] /\ attempts' = [attempts EXCEPT ![w] = attempts[w]]
        /\ issued' = issued /\ now' = now /\ run' = run
    BY <1>2, <1>typed DEF Create
  <2>8. /\ issued' \subseteq Claims
        /\ \A c1 \in issued' : c1.work # w => c1 \in issued
        /\ \A c1 \in issued' : c1.work = w => ClaimOK(c1, r, attempts[w])
    BY <1>typed, <2>2, <2>3, <2>4, <2>5, <2>6, <2>7
  <2> HIDE DEF r
  <2> QED
    BY <1>typed, <2>2, <2>3, <2>4, <2>5, <2>6, <2>7, <2>8, ReplaceRow
<1>3. ASSUME NEW w \in Work, NEW t \in Past, NEW expires \in Instants, Claim(w, t, expires)
      PROVE  RowsInv'
  <2> DEFINE r == Claimed(row[w], t, expires)
  <2>1. t \in Instants /\ row[w] \in Row /\ attempts[w] \in Seq(AttemptRecords)
    BY <1>typed
  <2>2. r \in Row /\ RowOK(r) /\ HistoryOK(r, attempts[w])
    BY <1>3, <1>kept, <2>1, ClaimedOK DEF Claim
  <2>3. /\ r.state = "running" /\ r.completed = row[w].completed /\ row[w].state # "running"
    BY <1>3, <2>1 DEF Claim, Claimed, Row
  <2>4. ClaimOf(w, r) \in Claims /\ ClaimOK(ClaimOf(w, r), r, attempts[w])
    BY <2>1, <2>2, <2>3, OwnClaimOK
  <2>5. ASSUME NEW c \in issued, c.work = w
        PROVE  ClaimOK(c, r, attempts[w])
    <3>1. ClaimOK(c, row[w], attempts[w])
      BY <2>5, <1>kept
    <3> QED
      BY <2>3, <3>1 DEF ClaimOK
  <2>6. /\ row' = [row EXCEPT ![w] = r] /\ attempts' = [attempts EXCEPT ![w] = attempts[w]]
        /\ issued' = issued \cup {ClaimOf(w, r)} /\ now' = now /\ run' = run
    BY <1>3, <1>typed DEF Claim
  <2>7. ClaimOf(w, r).work = w
    BY DEF ClaimOf
  <2>8. /\ issued' \subseteq Claims
        /\ \A c1 \in issued' : c1.work # w => c1 \in issued
        /\ \A c1 \in issued' : c1.work = w => ClaimOK(c1, r, attempts[w])
    BY <1>typed, <2>1, <2>2, <2>4, <2>5, <2>6, <2>7
  <2> HIDE DEF r
  <2> QED
    BY <1>typed, <2>1, <2>2, <2>4, <2>5, <2>6, <2>7, <2>8, ReplaceRow
<1>4. ASSUME NEW w \in Work, NEW t \in Past, NEW retryAt \in Instants,
             RecoverExpiredClaim(w, t, retryAt)
      PROVE  RowsInv'
  <2> DEFINE r == Ended(row[w], "retry_wait", t, retryAt)
             a == AttemptOf(row[w], "lease_expired", t, retryAt)
  <2>1. /\ t \in Instants /\ row[w] \in Row /\ attempts[w] \in Seq(AttemptRecords)
        /\ retryAt \in Times
    BY <1>typed DEF Times
  <2>2. row[w].state = "running" /\ row[w].expires <= t /\ row[w].version < MaxInteger
    BY <1>4 DEF RecoverExpiredClaim
  <2>3. t >= row[w].updated
    BY <1>kept, <2>1, <2>2, RowsAssumption DEF RowOK, Instants
  <2>4. /\ r \in Row /\ RowOK(r) /\ a \in AttemptRecords
        /\ HistoryOK(r, Append(attempts[w], a))
    BY <1>kept, <2>1, <2>2, <2>3, EndedOK
  <2>5. r.completed = row[w].completed + 1
    BY <2>1 DEF Ended, Row
  <2>6. ASSUME NEW c \in issued, c.work = w
        PROVE  ClaimOK(c, r, Append(attempts[w], a))
    BY <1>held, <1>kept, <2>1, <2>2, <2>4, <2>5, <2>6, EndedClaimOK
  <2>7. /\ row' = [row EXCEPT ![w] = r] /\ attempts' = [attempts EXCEPT ![w] = Append(@, a)]
        /\ issued' = issued /\ now' = now /\ run' = run
    BY <1>4 DEF RecoverExpiredClaim, Record
  <2>8. /\ issued' \subseteq Claims /\ Append(attempts[w], a) \in Seq(AttemptRecords)
        /\ \A c1 \in issued' : c1.work # w => c1 \in issued
        /\ \A c1 \in issued' : c1.work = w => ClaimOK(c1, r, Append(attempts[w], a))
    BY <1>typed, <2>1, <2>4, <2>6, <2>7, AppendProperties
  <2> HIDE DEF r, a
  <2> QED
    BY <1>typed, <2>1, <2>4, <2>6, <2>7, <2>8, ReplaceRow
<1>5. ASSUME NEW c \in issued, NEW t \in Past, NEW expires \in Instants,
             RenewClaim(c, t, expires)
      PROVE  RowsInv'
  <2> DEFINE w == c.work
             r == Renewed(row[w], t, expires)
  <2>1. /\ t \in Instants /\ w \in Work /\ row[w] \in Row
        /\ attempts[w] \in Seq(AttemptRecords)
    BY <1>typed, <1>held
  <2>2. /\ row[w].state = "running" /\ t >= row[w].updated /\ row[w].expires > t
        /\ row[w].version < MaxInteger /\ expires > row[w].expires
    BY <1>5 DEF RenewClaim, RequireClaim, Holds
  <2>3. r \in Row /\ RowOK(r) /\ HistoryOK(r, attempts[w])
    BY <1>held, <2>1, <2>2, RenewedOK
  <2>4. /\ r.state = "running" /\ r.completed = row[w].completed /\ r.expires = expires
    BY <2>1, <2>2 DEF Renewed, Row
  <2>5. ClaimOf(w, r) \in Claims /\ ClaimOK(ClaimOf(w, r), r, attempts[w])
    BY <2>1, <2>3, <2>4, OwnClaimOK
  <2>6. ASSUME NEW d \in issued, d.work = w
        PROVE  ClaimOK(d, r, attempts[w])
    <3>1. ClaimOK(d, row[w], attempts[w]) /\ d \in Claims
      BY <2>6, <1>held, <1>kept
    <3> QED
      BY <1>held, <2>1, <2>2, <2>4, <3>1 DEF ClaimOK, Claims, Instants, RowOK
  <2>7. /\ row' = [row EXCEPT ![w] = r] /\ attempts' = [attempts EXCEPT ![w] = attempts[w]]
        /\ issued' = issued \cup {ClaimOf(w, r)} /\ now' = now /\ run' = run
    BY <1>5, <1>typed, <2>1 DEF RenewClaim
  <2>8. ClaimOf(w, r).work = w
    BY DEF ClaimOf
  <2>9. /\ issued' \subseteq Claims
        /\ \A c1 \in issued' : c1.work # w => c1 \in issued
        /\ \A c1 \in issued' : c1.work = w => ClaimOK(c1, r, attempts[w])
    BY <1>typed, <2>1, <2>3, <2>5, <2>6, <2>7, <2>8
  <2> HIDE DEF r
  <2> QED
    BY <1>typed, <2>1, <2>3, <2>5, <2>6, <2>7, <2>8, <2>9, ReplaceRow
<1>6. ASSUME NEW c \in issued, NEW t \in Past, NEW target \in RowStates,
             NEW retryAt \in Times, CompleteClaim(c, t, target, retryAt)
      PROVE  RowsInv'
  <2> DEFINE w == c.work
             r == Ended(row[w], target, t, retryAt)
             a == AttemptOf(row[w], target, t, retryAt)
  <2>1. /\ t \in Instants /\ w \in Work /\ row[w] \in Row
        /\ attempts[w] \in Seq(AttemptRecords)
    BY <1>typed, <1>held
  <2>2. /\ row[w].state = "running" /\ t >= row[w].updated /\ row[w].version < MaxInteger
        /\ target \in TerminalTargets \cup {"retry_wait"} /\ target # "lease_expired"
        /\ RowOK(row[w]) /\ HistoryOK(row[w], attempts[w])
    BY <1>6, <1>held DEF CompleteClaim, RequireClaim, Holds, TerminalTargets
  <2>3. /\ r \in Row /\ RowOK(r) /\ a \in AttemptRecords
        /\ HistoryOK(r, Append(attempts[w], a))
    BY <2>1, <2>2, EndedOK
  <2>4. r.completed = row[w].completed + 1
    BY <2>1 DEF Ended, Row
  <2>5. ASSUME NEW d \in issued, d.work = w
        PROVE  ClaimOK(d, r, Append(attempts[w], a))
    BY <1>held, <1>kept, <2>1, <2>2, <2>3, <2>4, <2>5, EndedClaimOK
  <2>6. /\ row' = [row EXCEPT ![w] = r] /\ attempts' = [attempts EXCEPT ![w] = Append(attempts[w], a)]
        /\ issued' = issued /\ now' = now /\ run' = run
    BY <1>6 DEF CompleteClaim, Record
  <2>7. /\ issued' \subseteq Claims /\ Append(attempts[w], a) \in Seq(AttemptRecords)
        /\ \A c1 \in issued' : c1.work # w => c1 \in issued
        /\ \A c1 \in issued' : c1.work = w => ClaimOK(c1, r, Append(attempts[w], a))
    BY <1>typed, <2>1, <2>3, <2>5, <2>6, AppendProperties
  <2> HIDE DEF r, a
  <2> QED
    BY <1>typed, <2>1, <2>3, <2>5, <2>6, <2>7, ReplaceRow
<1>7. ASSUME NEW c \in issued, NEW t \in Past, NEW committed \in Past,
             CompleteWithCheckpoint(c, t, committed)
      PROVE  RowsInv'
  <2> DEFINE w == c.work
             e == Ended(row[w], "succeeded", t, None)
             r == Checkpointed(e, committed)
             a == AttemptOf(row[w], "succeeded", t, None)
  <2>1. /\ t \in Instants /\ committed \in Instants /\ w \in Work /\ row[w] \in Row
        /\ attempts[w] \in Seq(AttemptRecords) /\ None \in Times
    BY <1>typed, <1>held DEF Times
  <2>2. /\ row[w].state = "running" /\ t >= row[w].updated /\ row[w].version < MaxInteger
        /\ row[w].version + 1 < MaxInteger
        /\ RowOK(row[w]) /\ HistoryOK(row[w], attempts[w])
    BY <1>7, <1>held DEF CompleteWithCheckpoint, RequireClaim, Holds
  <2>3. /\ e \in Row /\ RowOK(e) /\ a \in AttemptRecords
        /\ HistoryOK(e, Append(attempts[w], a))
    BY <2>1, <2>2, EndedOK DEF TerminalTargets
  <2>4. /\ e.completed = row[w].completed + 1 /\ e.state = "succeeded" /\ e.checkpoint = 0
        /\ e.version < MaxInteger
    BY <2>1, <2>2 DEF Ended, Row, RowOK
  <2>5. Append(attempts[w], a) \in Seq(AttemptRecords)
    BY <2>1, <2>3, AppendProperties
  <2>6. r \in Row /\ RowOK(r) /\ HistoryOK(r, Append(attempts[w], a))
    BY <2>1, <2>3, <2>4, <2>5, CheckpointedOK
  <2>7. r.completed = row[w].completed + 1
    BY <2>3, <2>4 DEF Checkpointed, Row
  <2>8. ASSUME NEW d \in issued, d.work = w
        PROVE  ClaimOK(d, r, Append(attempts[w], a))
    BY <1>held, <1>kept, <2>1, <2>2, <2>3, <2>6, <2>7, <2>8, EndedClaimOK DEF TerminalTargets
  <2>9. /\ row' = [row EXCEPT ![w] = r] /\ attempts' = [attempts EXCEPT ![w] = Append(attempts[w], a)]
        /\ issued' = issued /\ now' = now /\ run' = run
    BY <1>7 DEF CompleteWithCheckpoint, Record
  <2>10. /\ issued' \subseteq Claims /\ Append(attempts[w], a) \in Seq(AttemptRecords)
         /\ \A c1 \in issued' : c1.work # w => c1 \in issued
         /\ \A c1 \in issued' : c1.work = w => ClaimOK(c1, r, Append(attempts[w], a))
    BY <1>typed, <2>1, <2>5, <2>6, <2>8, <2>9, AppendProperties
  <2> HIDE DEF r, a
  <2> QED
    BY <1>typed, <2>1, <2>5, <2>6, <2>8, <2>9, <2>10, ReplaceRow
<1>8. CASE Tick
  <2>1. now' \in Instants
    BY <1>8, RowsAssumption DEF Tick, RowsInv, RowsTypeOK, Instants
  <2> QED
    BY <1>8, <2>1 DEF Tick, rows, RowsInv, RowsTypeOK
<1>9. CASE UNCHANGED <<rows, now>>
  BY <1>9 DEF rows, RowsInv, RowsTypeOK
<1> QED
  BY <1>1, <1>2, <1>3, <1>4, <1>5, <1>6, <1>7, <1>8, <1>9 DEF RowsNext

\* The invariant holds throughout.
THEOREM RowsInvariant == RowsSpec => []RowsInv
  BY RowsInitInv, RowsNextInv, PTL DEF RowsSpec

\* Row versions, attempt counts and checkpoint versions stay within the integers
\* the store can hold, whatever sequence of commands runs.
THEOREM RowsTyped == RowsSpec => []RowsTypeOK
<1>1. RowsInv => RowsTypeOK
  BY DEF RowsInv
<1> QED
  BY <1>1, RowsInvariant, PTL

\* The history check of _verify_work_records never fails.
THEOREM HistoryContiguous == RowsSpec => []AttemptsContiguous
<1>1. RowsInv => AttemptsContiguous
  <2>1. ASSUME RowsInv, NEW w \in Work
        PROVE  /\ DOMAIN attempts[w] = 1..Len(attempts[w]) /\ Len(attempts[w]) \in Nat
               /\ RowOK(row[w]) /\ HistoryOK(row[w], attempts[w])
    BY <2>1 DEF RowsInv, RowsTypeOK
  <2> QED
    BY <2>1 DEF AttemptsContiguous, RowOK, HistoryOK
<1> QED
  BY <1>1, RowsInvariant, PTL

\* Ordered neighbours are disjoint attempts.
LEMMA RowsDisjoint == RowsInv => AttemptsDisjoint
<1>1. ASSUME RowsInv, NEW w \in Work
      PROVE  /\ DOMAIN attempts[w] = 1..Len(attempts[w]) /\ Len(attempts[w]) \in Nat
             /\ RowOK(row[w]) /\ HistoryOK(row[w], attempts[w])
  BY <1>1 DEF RowsInv, RowsTypeOK
<1> QED
  BY ZenonT(40), <1>1 DEF AttemptsDisjoint, RowOK, HistoryOK

\* Attempts of a work item never overlap, however stale the instants of the
\* commands are.
THEOREM HistoryDisjoint == RowsSpec => []AttemptsDisjoint
BY RowsDisjoint, RowsInvariant, PTL

\* Claims of expired attempts have run out.
LEMMA RowsHonoured == RowsInv => LeaseHonoured
<1> SUFFICES ASSUME RowsInv, NEW c \in issued, NEW i \in DOMAIN attempts[c.work],
                    c.attempt = i, attempts[c.work][i].outcome = "lease_expired"
             PROVE  c.expires <= attempts[c.work][i].finished
  BY DEF LeaseHonoured
<1>1. c.work \in Work /\ ClaimOK(c, row[c.work], attempts[c.work])
  BY DEF RowsInv, RowsTypeOK, Claims
<1>2. i \in 1..Len(attempts[c.work])
  BY <1>1 DEF RowsInv, RowsTypeOK
<1> QED
  BY <1>1, <1>2 DEF ClaimOK

\* No claim outlives the declared expiry of its attempt: recovery takes a work
\* item from a holder only after every lease it was granted has run out.
THEOREM LeasesHonoured == RowsSpec => []LeaseHonoured
BY RowsHonoured, RowsInvariant, PTL

\* Commands leave terminal rows alone.
LEMMA TerminalStep == RowsInv /\ [RowsNext]_<<rows, now>> =>
         [\A w \in Work : row[w].state \in TerminalTargets => row'[w] = row[w]]_row
<1> SUFFICES ASSUME RowsInv, RowsNext, NEW w \in Work, row[w].state \in TerminalTargets
             PROVE  row'[w] = row[w]
  BY DEF rows
<1>1. row \in [Work -> Row] /\ row[w].state \notin {"absent", "pending", "running", "retry_wait"}
  BY DEF RowsInv, RowsTypeOK, TerminalTargets
<1>2. ASSUME NEW c \in issued, row[c.work].state = "running"
      PROVE  c.work \in Work \ {w}
  BY <1>1, <1>2 DEF RowsInv, RowsTypeOK, Claims
<1>3. ASSUME NEW v \in Work, NEW t \in Past, Create(v, t)
      PROVE  row'[w] = row[w]
  BY <1>1, <1>3 DEF Create
<1>4. ASSUME NEW v \in Work, NEW t \in Past, NEW expires \in Instants, Claim(v, t, expires)
      PROVE  row'[w] = row[w]
  BY <1>1, <1>4 DEF Claim
<1>5. ASSUME NEW v \in Work, NEW t \in Past, NEW retryAt \in Instants,
             RecoverExpiredClaim(v, t, retryAt)
      PROVE  row'[w] = row[w]
  BY <1>1, <1>5 DEF RecoverExpiredClaim
<1>6. ASSUME NEW c \in issued, NEW t \in Past, NEW expires \in Instants,
             RenewClaim(c, t, expires)
      PROVE  row'[w] = row[w]
  BY <1>1, <1>2, <1>6 DEF RenewClaim, RequireClaim, Holds
<1>7. ASSUME NEW c \in issued, NEW t \in Past, NEW target \in RowStates,
             NEW retryAt \in Times, CompleteClaim(c, t, target, retryAt)
      PROVE  row'[w] = row[w]
  BY <1>1, <1>2, <1>7 DEF CompleteClaim, RequireClaim, Holds
<1>8. ASSUME NEW c \in issued, NEW t \in Past, NEW committed \in Past,
             CompleteWithCheckpoint(c, t, committed)
      PROVE  row'[w] = row[w]
  BY <1>1, <1>2, <1>8 DEF CompleteWithCheckpoint, RequireClaim, Holds
<1>9. ASSUME NEW target \in RunStates, NEW t \in Past, TransitionRun(target, t)
       PROVE  row'[w] = row[w]
  BY <1>9 DEF TransitionRun
<1>10. CASE Tick
  BY <1>10 DEF Tick, rows
<1> QED
  BY <1>3, <1>4, <1>5, <1>6, <1>7, <1>8, <1>9, <1>10 DEF RowsNext

\* A terminal row never changes: no claim that names it is current, and nothing
\* claims or recovers it.
THEOREM TerminalRowsKept == RowsSpec => TerminalRowsFinal
<1> QED
  BY TerminalStep, RowsInvariant, PTL DEF RowsSpec, TerminalRowsFinal

------------------------------------------------------------------------------
\* SumFunctionOnSet folds over a set by taking out one chosen element after another.
Pick(s) == CHOOSE y \in s : TRUE
Summed(F, s, g) == IF s = {} THEN 0 ELSE F[Pick(s)] + g[s \ {Pick(s)}]

\* g gives the sum over every subset of S.
Sums(F, S, g) == g = [s \in SUBSET S |-> Summed(F, s, g)]

\* A set of numbers has a least one: what an induction over finite sets needs.
LEMMA LeastNatural ==
    ASSUME NEW T, T \subseteq Nat, T # {}
    PROVE  \E n \in T : \A m \in T : n <= m
<1>1. PICK n \in T : \A m \in T : ~ <<m, n>> \in OpToRel(<, Nat)
  BY NatLessThanWellFounded, WFMin
<1>2. ASSUME NEW m \in T, m < n
      PROVE  <<m, n>> \in OpToRel(<, Nat)
  BY <1>2, Zenon DEF OpToRel
<1>3. \A m \in T : ~ (m < n)
  BY <1>1, <1>2
<1> QED
  BY <1>3

\* Taking out the chosen element leaves a smaller set.
LEMMA PickRemoved ==
    ASSUME NEW s, IsFiniteSet(s), s # {}
    PROVE  /\ Pick(s) \in s
           /\ IsFiniteSet(s \ {Pick(s)}) /\ Cardinality(s) \in Nat
           /\ Cardinality(s \ {Pick(s)}) \in Nat
           /\ Cardinality(s \ {Pick(s)}) = Cardinality(s) - 1
<1>1. Pick(s) \in s
  BY DEF Pick
<1> QED
  BY <1>1, FS_RemoveElement, FS_CardinalityType

\* The sums over the subsets of a finite set exist: a smallest set without one would
\* get its sum from the set without the chosen element.
LEMMA SumExists ==
    ASSUME NEW F, NEW S, IsFiniteSet(S)
    PROVE  \E g : Sums(F, S, g)
<1> DEFINE D(n) == {s \in SUBSET S : Cardinality(s) <= n}
           Bad == {n \in Nat : ~ \E g : g = [s \in D(n) |-> Summed(F, s, g)]}
<1>1. \A s \in SUBSET S : IsFiniteSet(s) /\ Cardinality(s) \in Nat /\ Cardinality(s) <= Cardinality(S)
  BY FS_Subset, FS_CardinalityType
<1>2. Bad = {}
  <2> SUFFICES ASSUME Bad # {} PROVE FALSE
    OBVIOUS
  <2>1. PICK n \in Bad : \A m \in Bad : n <= m
    BY LeastNatural
  <2>2. CASE n = 0
    <3> DEFINE g == [s \in D(n) |-> 0]
    <3>1. \A s \in D(n) : s = {}
      BY <1>1, <2>2, FS_EmptySet
    <3>2. g = [s \in D(n) |-> Summed(F, s, g)]
      BY <3>1 DEF Summed
    <3> QED BY <3>2, <2>1
  <2>3. CASE n # 0
    <3>1. n - 1 \in Nat /\ n - 1 \notin Bad
      <4>1. n \in Nat
        OBVIOUS
      <4> HIDE DEF Bad
      <4> QED BY <4>1, <2>1, <2>3
    <3>2. PICK g : g = [s \in D(n - 1) |-> Summed(F, s, g)]
      BY <3>1
    <3> DEFINE h == [s \in D(n) |-> Summed(F, s, g)]
    <3>3. \A s \in D(n - 1) : s \in D(n) /\ h[s] = g[s]
      BY <1>1, <3>1, <3>2
    <3>4. ASSUME NEW s \in D(n) PROVE Summed(F, s, g) = Summed(F, s, h)
      <4>1. CASE s = {}
        BY <4>1 DEF Summed
      <4>2. CASE s # {}
        <5>1. s \ {Pick(s)} \in D(n - 1)
          BY <1>1, <2>1, <4>2, PickRemoved
        <5> HIDE DEF h
        <5> QED BY <4>2, <5>1, <3>3 DEF Summed
      <4> QED BY <4>1, <4>2
    <3>5. h = [s \in D(n) |-> Summed(F, s, h)]
      BY <3>4
    <3> QED BY <3>5, <2>1
  <2> QED BY <2>2, <2>3
<1>3. Cardinality(S) \in Nat /\ D(Cardinality(S)) = SUBSET S
  BY <1>1
<1>4. \E g : g = [s \in D(Cardinality(S)) |-> Summed(F, s, g)]
  BY <1>2, <1>3
<1> QED
  BY <1>3, <1>4 DEF Sums

\* The sums do not depend on the set they are tabulated for.
LEMMA SumUnique ==
    ASSUME NEW F, NEW S, IsFiniteSet(S), NEW g, Sums(F, S, g),
           NEW T \in SUBSET S, NEW h, Sums(F, T, h)
    PROVE  h[T] = g[T]
<1> DEFINE Bad == {n \in Nat : \E s \in SUBSET T : Cardinality(s) = n /\ h[s] # g[s]}
<1>1. \A s \in SUBSET T : IsFiniteSet(s) /\ Cardinality(s) \in Nat /\ s \in SUBSET S
  BY FS_Subset, FS_CardinalityType
<1>2. Bad = {}
  <2> SUFFICES ASSUME Bad # {} PROVE FALSE
    OBVIOUS
  <2>1. PICK n \in Bad : \A m \in Bad : n <= m
    BY LeastNatural
  <2>2. PICK s \in SUBSET T : Cardinality(s) = n /\ h[s] # g[s]
    OBVIOUS
  <2>3. s \in SUBSET S /\ h[s] = Summed(F, s, h) /\ g[s] = Summed(F, s, g)
    BY <1>1 DEF Sums
  <2>4. s # {}
    BY <2>2, <2>3 DEF Summed
  <2>5. /\ s \ {Pick(s)} \in SUBSET T /\ Cardinality(s \ {Pick(s)}) \in Nat
        /\ Cardinality(s \ {Pick(s)}) = n - 1
    BY <1>1, <2>2, <2>4, PickRemoved
  <2>6. h[s \ {Pick(s)}] = g[s \ {Pick(s)}]
    BY <2>1, <2>5
  <2> QED BY <2>2, <2>3, <2>4, <2>6 DEF Summed
<1> QED BY <1>1, <1>2

\* One step of the fold.
LEMMA SumUnfold ==
    ASSUME NEW F, NEW S, IsFiniteSet(S)
    PROVE  SumFunctionOnSet(F, S) =
             IF S = {} THEN 0 ELSE F[Pick(S)] + SumFunctionOnSet(F, S \ {Pick(S)})
<1> DEFINE G(T) == CHOOSE g : Sums(F, T, g)
<1>1. \A T : SumFunctionOnSet(F, T) = G(T)[T]
  BY DEF SumFunctionOnSet, FoldFunctionOnSet, MapThenFoldSet, Sums, Summed, Pick
<1>2. ASSUME NEW T \in SUBSET S
      PROVE  Sums(F, T, G(T))
  BY SumExists, FS_Subset
<1>3. S \in SUBSET S /\ S \ {Pick(S)} \in SUBSET S
  OBVIOUS
<1> HIDE DEF G
<1>4. ASSUME NEW T \in SUBSET S
      PROVE  G(T)[T] = G(S)[T]
  BY <1>2, <1>3, SumUnique
<1>5. G(S)[S] = Summed(F, S, G(S))
  BY <1>2, <1>3 DEF Sums
<1> QED
  BY <1>1, <1>3, <1>4, <1>5 DEF Summed

\* A sum changes by the value of the element that is taken out, and is an integer.
LEMMA SumRemove ==
    ASSUME NEW F, NEW S, IsFiniteSet(S), \A x \in S : F[x] \in Int
    PROVE  /\ SumFunctionOnSet(F, S) \in Int
           /\ \A x \in S : SumFunctionOnSet(F, S) = SumFunctionOnSet(F, S \ {x}) + F[x]
<1> DEFINE Sum(s) == SumFunctionOnSet(F, s)
           Ok(s) == Sum(s) \in Int /\ \A x \in s : Sum(s) = Sum(s \ {x}) + F[x]
           Bad == {n \in Nat : \E s \in SUBSET S : Cardinality(s) = n /\ ~Ok(s)}
<1>1. \A s \in SUBSET S : IsFiniteSet(s) /\ Cardinality(s) \in Nat
  BY FS_Subset, FS_CardinalityType
<1>2. \A s \in SUBSET S : Sum(s) = IF s = {} THEN 0 ELSE F[Pick(s)] + Sum(s \ {Pick(s)})
  BY <1>1, SumUnfold
<1>3. Bad = {}
  <2> SUFFICES ASSUME Bad # {} PROVE FALSE
    OBVIOUS
  <2> HIDE DEF Ok
  <2>1. PICK n \in Bad : \A m \in Bad : n <= m
    BY LeastNatural
  <2>2. PICK s \in SUBSET S : Cardinality(s) = n /\ ~Ok(s)
    OBVIOUS
  <2>3. s # {}
    <3> SUFFICES ASSUME s = {} PROVE Ok(s)
      BY <2>2
    <3>1. Sum(s) = 0
      BY <1>2
    <3> QED BY <3>1 DEF Ok
  <2> DEFINE p == Pick(s)
  <2>4. ASSUME NEW x \in s
        PROVE  s \ {x} \in SUBSET S /\ Ok(s \ {x})
    <3>1. Cardinality(s \ {x}) = n - 1 /\ Cardinality(s \ {x}) \in Nat /\ n - 1 \notin Bad
      BY <1>1, <2>1, <2>2, FS_RemoveElement
    <3> QED BY <3>1
  <2>5. p \in s /\ Sum(s) = F[p] + Sum(s \ {p}) /\ F[p] \in Int
    BY <1>1, <1>2, <2>3, PickRemoved
  <2>6. Sum(s) \in Int
    BY <2>4, <2>5 DEF Ok
  <2> HIDE DEF Sum, p
  <2>7. ASSUME NEW x \in s
        PROVE  Sum(s) = Sum(s \ {x}) + F[x]
    <3>0. F[x] \in Int
      OBVIOUS
    <3>1. CASE x = p
      BY <2>4, <2>5, <3>0, <3>1 DEF Ok
    <3>2. CASE x # p
      <4>1. Sum(s \ {p}) = Sum((s \ {p}) \ {x}) + F[x] /\ Sum(s \ {p}) \in Int
        BY <2>4, <2>5, <3>2 DEF Ok
      <4>2. Sum(s \ {x}) = Sum((s \ {x}) \ {p}) + F[p] /\ Sum(s \ {x}) \in Int
        BY <2>4, <2>5, <3>2 DEF Ok
      <4>3. (s \ {x}) \ {p} = (s \ {p}) \ {x} 
        OBVIOUS
      <4>4. CASE Sum((s \ {p}) \ {x}) \in Int
        <5> DEFINE u == Sum((s \ {p}) \ {x})
        <5>1. Sum(s) = F[p] + (u + F[x]) /\ Sum(s \ {x}) = u + F[p]
          BY <2>5, <4>1, <4>2, <4>3
        <5> HIDE DEF u
        <5> QED BY <5>1, <4>4, <2>5, <3>0 DEF u
      <4>5. Sum((s \ {p}) \ {x}) \in Int
        <5> DEFINE t == s \ {p}
        <5>1. /\ t \in SUBSET S /\ IsFiniteSet(t) /\ x \in t
              /\ Cardinality(t) = n - 1 /\ t \ {x} \in SUBSET S
          BY <1>1, <2>1, <2>2, <2>5, <3>2, FS_RemoveElement
        <5>2. Cardinality(t \ {x}) \in Nat /\ Cardinality(t \ {x}) < n
          BY <5>1, <1>1, FS_RemoveElement
        <5>3. Cardinality(t \ {x}) \notin Bad
          <6>1. n \in Nat
            OBVIOUS
          <6> HIDE DEF Bad
          <6> QED BY <6>1, <2>1, <5>2
        <5> QED BY <5>1, <5>2, <5>3 DEF Ok
      <4> QED BY <4>4, <4>5
    <3> QED BY <3>1, <3>2
  <2> QED BY <2>2, <2>6, <2>7 DEF Ok
<1> QED
  BY <1>1, <1>3

\* A sum depends on nothing but the values of the elements.
LEMMA SumSame ==
    ASSUME NEW F, NEW G, NEW S, IsFiniteSet(S), \A x \in S : F[x] = G[x]
    PROVE  SumFunctionOnSet(F, S) = SumFunctionOnSet(G, S)
<1> DEFINE Bad == {n \in Nat : \E s \in SUBSET S :
                     Cardinality(s) = n /\ SumFunctionOnSet(F, s) # SumFunctionOnSet(G, s)}
<1>1. \A s \in SUBSET S : IsFiniteSet(s) /\ Cardinality(s) \in Nat
  BY FS_Subset, FS_CardinalityType
<1>2. Bad = {}
  <2> SUFFICES ASSUME Bad # {} PROVE FALSE
    OBVIOUS
  <2>1. PICK n \in Bad : \A m \in Bad : n <= m
    BY LeastNatural
  <2>2. PICK s \in SUBSET S : Cardinality(s) = n /\ SumFunctionOnSet(F, s) # SumFunctionOnSet(G, s)
    OBVIOUS
  <2>3. s # {}
    BY <1>1, <2>2, SumUnfold
  <2>4. /\ s \ {Pick(s)} \in SUBSET S /\ Cardinality(s \ {Pick(s)}) = n - 1 /\ n - 1 \in Nat
        /\ n \in Nat /\ Pick(s) \in S
    BY <1>1, <2>2, <2>3, PickRemoved
  <2>6. n - 1 \notin Bad
    <3> HIDE DEF Bad
    <3> QED BY <2>1, <2>4
  <2>5. SumFunctionOnSet(F, s \ {Pick(s)}) = SumFunctionOnSet(G, s \ {Pick(s)})
    BY <2>4, <2>6
  <2> QED BY <1>1, <2>2, <2>3, <2>4, <2>5, SumUnfold
<1> QED BY <1>1, <1>2

------------------------------------------------------------------------------
\* How many of the works S are in bucket b of the rows r.
InBucket(S, r, b) == {w \in S : Bucket(r[w].state) = b}

\* The states a claim takes work from and the ones an attempt leaves it in, and a set
\* with one element more.
Waiting == {"pending", "retry_wait"}
EndStates == TerminalTargets \cup {"retry_wait"}
With(S, x) == S \cup {x}

\* The rows and the histories once work w has row q, or attempt e more.
WithRow(r, w, q) == [r EXCEPT ![w] = q]
WithAttempt(a, w, e) == [a EXCEPT ![w] = Append(@, e)]

\* Counting one element more or less.
LEMMA CountMoved ==
    ASSUME NEW A, IsFiniteSet(A), NEW w
    PROVE  /\ Cardinality(A) \in Nat
           /\ w \notin A => Cardinality(A \cup {w}) = Cardinality(A) + 1
           /\ w \in A => Cardinality(A \ {w}) = Cardinality(A) - 1
BY FS_CardinalityType, FS_AddElement, FS_RemoveElement

\* A bucket counts something exactly when some work is in it.
LEMMA BucketFilled ==
    ASSUME NEW S, IsFiniteSet(S), NEW r, NEW b
    PROVE  /\ Cardinality(InBucket(S, r, b)) \in Nat
           /\ Cardinality(InBucket(S, r, b)) > 0 <=> \E w \in S : Bucket(r[w].state) = b
<1>1. IsFiniteSet(InBucket(S, r, b))
  BY FS_Subset DEF InBucket
<1>2. /\ Cardinality(InBucket(S, r, b)) \in Nat
      /\ Cardinality(InBucket(S, r, b)) = 0 <=> InBucket(S, r, b) = {}
  BY <1>1, FS_CardinalityType, FS_EmptySet
<1>3. InBucket(S, r, b) = {} <=> ~ \E w \in S : Bucket(r[w].state) = b
  BY DEF InBucket
<1> QED
  BY <1>2, <1>3

\* The works of a node and their attempts are finitely many.
LEMMA NodeFinite ==
    ASSUME NEW n, NEW r \in [Work -> Row], NEW a \in [Work -> Seq(AttemptRecords)],
           \A w \in Work : HistoryOK(r[w], a[w])
    PROVE  /\ IsFiniteSet(WorksOf(n, r)) /\ IsFiniteSet(EndedOf(n, r, a))
           /\ \A x \in EndedOf(n, r, a) :
                 /\ x[1] \in WorksOf(n, r) /\ x[1] \in Work /\ x[2] \in 1..Len(a[x[1]])
                 /\ x = <<x[1], x[2]>> /\ a[x[1]][x[2]] \in AttemptRecords
           /\ \A w \in WorksOf(n, r) : \A i \in 1..Len(a[w]) : <<w, i>> \in EndedOf(n, r, a)
<1>1. IsFiniteSet(WorksOf(n, r))
  BY FS_Subset, NodeAssumption, LedgerAssumption DEF WorksOf
<1>2. \A w \in Work : DOMAIN a[w] = 1..Len(a[w]) /\ Len(a[w]) \in Versions
  <2>1. ASSUME NEW w \in Work PROVE DOMAIN a[w] = 1..Len(a[w]) /\ Len(a[w]) \in Versions
    <3>1. a[w] \in Seq(AttemptRecords) /\ r[w].completed \in Versions
      BY DEF Row
    <3> QED
      BY <3>1, LenProperties DEF HistoryOK
  <2> QED
    BY <2>1
<1>3. ASSUME NEW x \in EndedOf(n, r, a)
      PROVE  /\ x[1] \in WorksOf(n, r) /\ x[1] \in Work /\ x[2] \in 1..Len(a[x[1]])
             /\ x = <<x[1], x[2]>> /\ a[x[1]][x[2]] \in AttemptRecords
  <2>1. PICK w \in WorksOf(n, r) : x \in {<<w, i>> : i \in DOMAIN a[w]}
    BY DEF EndedOf
  <2>2. w \in Work /\ x[1] = w /\ x[2] \in DOMAIN a[w] /\ x = <<x[1], x[2]>>
    BY <2>1 DEF WorksOf
  <2> QED
    BY <1>2, <2>1, <2>2
<1>4. EndedOf(n, r, a) \subseteq Work \X Versions
  <2>1. ASSUME NEW x \in EndedOf(n, r, a) PROVE x \in Work \X Versions
    <3>1. x[1] \in Work /\ x[2] \in 1..Len(a[x[1]]) /\ x = <<x[1], x[2]>> /\ Len(a[x[1]]) \in Versions
      BY <1>2, <1>3
    <3>2. x[2] \in Versions
      <4> DEFINE k == Len(a[x[1]])
      <4>1. x[2] \in 1..k /\ k \in Versions
        BY <3>1
      <4> HIDE DEF k
      <4> QED
        BY <4>1, RowsAssumption DEF Versions
    <3> QED
      BY <3>1, <3>2
  <2> QED
    BY <2>1
<1>5. IsFiniteSet(Work \X Versions)
  <2>1. IsFiniteSet(Versions)
    BY RowsAssumption, FS_Interval DEF Versions
  <2> QED
    BY <2>1, NodeAssumption, LedgerAssumption, FS_Product
<1>6. IsFiniteSet(EndedOf(n, r, a))
  BY <1>4, <1>5, FS_Subset
<1>7. \A w \in WorksOf(n, r) : \A i \in 1..Len(a[w]) : <<w, i>> \in EndedOf(n, r, a)
  BY <1>2 DEF EndedOf, WorksOf
<1> QED
  BY <1>1, <1>3, <1>6, <1>7

\* What a snapshot holds.
Lasting(n, r, a) == [x \in EndedOf(n, r, a) |-> a[x[1]][x[2]].finished - a[x[1]][x[2]].started]
Retried(n, r, a) == {x \in EndedOf(n, r, a) : a[x[1]][x[2]].outcome \in Retries}
Metrics(n, r, a) ==
    [total |-> Cardinality(WorksOf(n, r)),
     bucket |-> [b \in Buckets |-> Cardinality(InBucket(WorksOf(n, r), r, b))],
     retries |-> Cardinality(Retried(n, r, a)),
     duration |-> SumFunctionOnSet(Lasting(n, r, a), EndedOf(n, r, a))]

\* The parts of a snapshot by name.
LEMMA SnapshotIs ==
    ASSUME NEW n, NEW r, NEW a
    PROVE  /\ Snapshot(n, r, a).work = Metrics(n, r, a)
           /\ Snapshot(n, r, a).earliest = IF StartsOf(n, r, a) = {} THEN None
                                           ELSE Min(StartsOf(n, r, a))
           /\ Snapshot(n, r, a).latest = IF FinishesOf(n, r, a) = {} THEN None
                                         ELSE Max(FinishesOf(n, r, a))
<1>1. DOMAIN Lasting(n, r, a) = EndedOf(n, r, a)
  BY DEF Lasting
<1> QED
  BY <1>1 DEF Snapshot, Metrics, Lasting, Retried, InBucket, SumFunction

\* A node whose rows keep their states, their starts and their histories keeps its
\* snapshot.
LEMMA SnapshotSame ==
    ASSUME NEW n, NEW r \in [Work -> Row], NEW a \in [Work -> Seq(AttemptRecords)],
           NEW r2 \in [Work -> Row], NEW a2 \in [Work -> Seq(AttemptRecords)],
           \A w \in Work : NodeOf[w] = n =>
              r2[w].state = r[w].state /\ r2[w].started = r[w].started /\ a2[w] = a[w]
    PROVE  /\ WorksOf(n, r2) = WorksOf(n, r)
           /\ StartsOf(n, r2, a2) = StartsOf(n, r, a)
           /\ FinishesOf(n, r2, a2) = FinishesOf(n, r, a)
           /\ Metrics(n, r2, a2) = Metrics(n, r, a)
<1>1. WorksOf(n, r2) = WorksOf(n, r) /\ \A w \in WorksOf(n, r) : w \in Work /\ NodeOf[w] = n
  BY DEF WorksOf
<1>2. EndedOf(n, r2, a2) = EndedOf(n, r, a)
  BY <1>1 DEF EndedOf
<1>3. ASSUME NEW x \in EndedOf(n, r, a)
      PROVE  a2[x[1]] = a[x[1]]
  BY <1>1 DEF EndedOf
<1>4. StartsOf(n, r2, a2) = StartsOf(n, r, a)
  <2>1. {a2[x[1]][x[2]].started : x \in EndedOf(n, r2, a2)} =
        {a[x[1]][x[2]].started : x \in EndedOf(n, r, a)}
    BY <1>2, <1>3
  <2>2. {r2[w].started : w \in {v \in WorksOf(n, r2) : r2[v].state = "running"}} =
        {r[w].started : w \in {v \in WorksOf(n, r) : r[v].state = "running"}}
    <3>1. {v \in WorksOf(n, r2) : r2[v].state = "running"} =
          {v \in WorksOf(n, r) : r[v].state = "running"}
      BY <1>1
    <3>2. \A w \in WorksOf(n, r) : r2[w].started = r[w].started
      BY <1>1
    <3> QED
      BY <3>1, <3>2
  <2> QED
    BY <2>1, <2>2 DEF StartsOf
<1>5. FinishesOf(n, r2, a2) = FinishesOf(n, r, a)
  BY <1>2, <1>3 DEF FinishesOf
<1>6. \A b \in Buckets : InBucket(WorksOf(n, r2), r2, b) = InBucket(WorksOf(n, r), r, b)
  BY <1>1 DEF InBucket
<1>7. Lasting(n, r2, a2) = Lasting(n, r, a)
  BY <1>2, <1>3 DEF Lasting
<1>8. Retried(n, r2, a2) = Retried(n, r, a)
  BY <1>2, <1>3 DEF Retried
<1> QED
  BY <1>1, <1>2, <1>4, <1>5, <1>6, <1>7, <1>8 DEF Metrics

\* The instants of a node, one by one.
LEMMA InstantsOf ==
    ASSUME NEW n, NEW r, NEW a, NEW s
    PROVE  /\ s \in StartsOf(n, r, a) <=>
                 \/ \E w \in WorksOf(n, r) : \E i \in DOMAIN a[w] : s = a[w][i].started
                 \/ \E w \in WorksOf(n, r) : r[w].state = "running" /\ s = r[w].started
           /\ s \in FinishesOf(n, r, a) <=>
                 \E w \in WorksOf(n, r) : \E i \in DOMAIN a[w] : s = a[w][i].finished
<1>1. ASSUME NEW w \in WorksOf(n, r), NEW i \in DOMAIN a[w]
      PROVE  <<w, i>> \in EndedOf(n, r, a)
  BY DEF EndedOf
<1>2. ASSUME NEW x \in EndedOf(n, r, a)
      PROVE  \E w \in WorksOf(n, r) : \E i \in DOMAIN a[w] : x = <<w, i>>
  BY DEF EndedOf
<1>3. s \in {a[x[1]][x[2]].started : x \in EndedOf(n, r, a)} <=>
      \E w \in WorksOf(n, r) : \E i \in DOMAIN a[w] : s = a[w][i].started
  <2>1. ASSUME NEW w \in WorksOf(n, r), NEW i \in DOMAIN a[w], s = a[w][i].started
        PROVE  s \in {a[x[1]][x[2]].started : x \in EndedOf(n, r, a)}
    <3>1. <<w, i>> \in EndedOf(n, r, a) /\ <<w, i>>[1] = w /\ <<w, i>>[2] = i
      BY <1>1
    <3> QED
      BY <2>1, <3>1
  <2>2. ASSUME NEW x \in EndedOf(n, r, a), s = a[x[1]][x[2]].started
        PROVE  \E w \in WorksOf(n, r) : \E i \in DOMAIN a[w] : s = a[w][i].started
    <3>1. PICK w \in WorksOf(n, r) : \E i \in DOMAIN a[w] : x = <<w, i>>
      BY <1>2
    <3>2. PICK i \in DOMAIN a[w] : x = <<w, i>>
      BY <3>1
    <3> QED
      BY <2>2, <3>2
  <2> QED
    BY <2>1, <2>2
<1>4. s \in {a[x[1]][x[2]].finished : x \in EndedOf(n, r, a)} <=>
      \E w \in WorksOf(n, r) : \E i \in DOMAIN a[w] : s = a[w][i].finished
  <2>1. ASSUME NEW w \in WorksOf(n, r), NEW i \in DOMAIN a[w], s = a[w][i].finished
        PROVE  s \in {a[x[1]][x[2]].finished : x \in EndedOf(n, r, a)}
    <3>1. <<w, i>> \in EndedOf(n, r, a) /\ <<w, i>>[1] = w /\ <<w, i>>[2] = i
      BY <1>1
    <3> QED
      BY <2>1, <3>1
  <2>2. ASSUME NEW x \in EndedOf(n, r, a), s = a[x[1]][x[2]].finished
        PROVE  \E w \in WorksOf(n, r) : \E i \in DOMAIN a[w] : s = a[w][i].finished
    <3>1. PICK w \in WorksOf(n, r) : \E i \in DOMAIN a[w] : x = <<w, i>>
      BY <1>2
    <3>2. PICK i \in DOMAIN a[w] : x = <<w, i>>
      BY <3>1
    <3> QED
      BY <2>2, <3>2
  <2> QED
    BY <2>1, <2>2
<1> QED
  BY <1>3, <1>4 DEF StartsOf, FinishesOf

\* What undoing a command leaves of the metrics.
LEMMA UndoneRegistration ==
    ASSUME NEW n, NEW r, NEW a, NEW n2, NEW r2, NEW a2,
           Metrics(n2, r2, a2).total = Metrics(n, r, a).total - 1,
           Metrics(n2, r2, a2).bucket = [Metrics(n, r, a).bucket EXCEPT !["pending"] = @ - 1],
           Metrics(n2, r2, a2).retries = Metrics(n, r, a).retries,
           Metrics(n2, r2, a2).duration = Metrics(n, r, a).duration
    PROVE  UndoRegistration(Metrics(n, r, a)) = Metrics(n2, r2, a2)
BY DEF Metrics, UndoRegistration

\* A claim undone.
LEMMA UndoneClaim ==
    ASSUME NEW n, NEW r, NEW a, NEW n2, NEW r2, NEW a2,
           Metrics(n2, r2, a2).total = Metrics(n, r, a).total,
           Metrics(n2, r2, a2).bucket =
              [Metrics(n, r, a).bucket EXCEPT !["pending"] = @ + 1, !["running"] = @ - 1],
           Metrics(n2, r2, a2).retries = Metrics(n, r, a).retries,
           Metrics(n2, r2, a2).duration = Metrics(n, r, a).duration
    PROVE  UndoClaim(Metrics(n, r, a)) = Metrics(n2, r2, a2)
BY DEF Metrics, UndoClaim

\* The end of an attempt undone.
LEMMA UndoneAttempt ==
    ASSUME NEW n, NEW r, NEW a, NEW n2, NEW r2, NEW a2, NEW e, NEW state,
           Metrics(n2, r2, a2).total = Metrics(n, r, a).total,
           Metrics(n2, r2, a2).bucket =
              [Metrics(n, r, a).bucket EXCEPT ![Bucket(state)] = @ - 1, !["running"] = @ + 1],
           Metrics(n2, r2, a2).retries =
              Metrics(n, r, a).retries - (IF e.outcome \in Retries THEN 1 ELSE 0),
           Metrics(n2, r2, a2).duration = Metrics(n, r, a).duration - (e.finished - e.started)
    PROVE  UndoAttempt(Metrics(n, r, a), e, state) = Metrics(n2, r2, a2)
<1> DEFINE k == IF e.outcome \in Retries THEN 1 ELSE 0
           d == e.finished - e.started
           b == Bucket(state)
           m == Metrics(n, r, a)
<1>1. UndoAttempt(m, e, state) =
         [m EXCEPT !.bucket[b] = @ - 1, !.bucket["running"] = @ + 1, !.retries = @ - k, !.duration = @ - d]
  BY DEF UndoAttempt
<1>2. m = [total |-> m.total, bucket |-> m.bucket, retries |-> m.retries, duration |-> m.duration]
  BY DEF Metrics
<1>3. Metrics(n2, r2, a2) =
         [total |-> m.total, bucket |-> [m.bucket EXCEPT ![b] = @ - 1, !["running"] = @ + 1],
          retries |-> m.retries - k, duration |-> m.duration - d]
  BY DEF Metrics
<1> HIDE DEF k, d, b, m
<1>4. UndoAttempt(m, e, state) =
         [total |-> m.total, bucket |-> [m.bucket EXCEPT ![b] = @ - 1, !["running"] = @ + 1],
          retries |-> m.retries - k, duration |-> m.duration - d]
  BY <1>1, <1>2
<1> QED
  BY <1>3, <1>4 DEF m

\* Registering a work item adds one pending row to its node and nothing else.
LEMMA MetricsCreated ==
    ASSUME NEW w \in Work, NEW r \in [Work -> Row], NEW a \in [Work -> Seq(AttemptRecords)],
           NEW q, r[w].state = "absent", q.state = "pending",
           \A v \in Work : HistoryOK(r[v], a[v]), r[w].completed = 0
    PROVE  LET n == NodeOf[w]
               r2 == [r EXCEPT ![w] = q]
           IN  /\ w \in WorksOf(n, r2)
               /\ StartsOf(n, r2, a) = StartsOf(n, r, a)
               /\ FinishesOf(n, r2, a) = FinishesOf(n, r, a)
               /\ UndoRegistration(Metrics(n, r2, a)) = Metrics(n, r, a)
<1> DEFINE n == NodeOf[w]
           r2 == [r EXCEPT ![w] = q]
           W == WorksOf(n, r)
<1>1. /\ r2[w] = q /\ \A v \in Work \ {w} : r2[v] = r[v]
      /\ WorksOf(n, r2) = W \cup {w} /\ w \notin W /\ W \subseteq Work
  BY DEF WorksOf
<1>2. DOMAIN a[w] = {}
  <2>1. Len(a[w]) = 0 /\ a[w] \in Seq(AttemptRecords)
    BY DEF HistoryOK
  <2> QED
    BY <2>1
<1>3. IsFiniteSet(W)
  BY NodeFinite
<1> HIDE DEF r2, W, n
<1>4. EndedOf(n, r2, a) = EndedOf(n, r, a)
  <2>1. ASSUME NEW x \in EndedOf(n, r2, a) PROVE x \in EndedOf(n, r, a)
    BY <1>1, <1>2 DEF EndedOf, W
  <2>2. ASSUME NEW x \in EndedOf(n, r, a) PROVE x \in EndedOf(n, r2, a)
    BY <1>1 DEF EndedOf, W
  <2> QED
    BY <2>1, <2>2
<1>5. StartsOf(n, r2, a) = StartsOf(n, r, a)
  <2>1. ASSUME NEW s PROVE s \in StartsOf(n, r2, a) <=> s \in StartsOf(n, r, a)
    <3>1. WorksOf(n, r2) = WorksOf(n, r) \cup {w} /\ r2[w].state # "running"
      BY <1>1 DEF W
    <3>2. \A v \in WorksOf(n, r) : r2[v] = r[v]
      BY <1>1 DEF W
    <3>3. s \in StartsOf(n, r2, a) <=>
             \/ \E v \in WorksOf(n, r2) : \E i \in DOMAIN a[v] : s = a[v][i].started
             \/ \E v \in WorksOf(n, r2) : r2[v].state = "running" /\ s = r2[v].started
      BY InstantsOf
    <3>4. s \in StartsOf(n, r, a) <=>
             \/ \E v \in WorksOf(n, r) : \E i \in DOMAIN a[v] : s = a[v][i].started
             \/ \E v \in WorksOf(n, r) : r[v].state = "running" /\ s = r[v].started
      BY InstantsOf
    <3> QED
      BY <1>2, <3>1, <3>2, <3>3, <3>4
  <2> QED
    BY <2>1
<1>6. FinishesOf(n, r2, a) = FinishesOf(n, r, a)
  BY <1>4 DEF FinishesOf
<1>7. Cardinality(WorksOf(n, r2)) = Cardinality(W) + 1 /\ Cardinality(W) \in Nat
  BY <1>1, <1>3, FS_AddElement, FS_CardinalityType
<1>8. ASSUME NEW b \in Buckets
      PROVE  /\ Cardinality(InBucket(W, r, b)) \in Nat
             /\ Cardinality(InBucket(WorksOf(n, r2), r2, b)) =
                   Cardinality(InBucket(W, r, b)) + (IF b = "pending" THEN 1 ELSE 0)
  <2>1. InBucket(WorksOf(n, r2), r2, b) =
           IF b = "pending" THEN InBucket(W, r, b) \cup {w} ELSE InBucket(W, r, b)
    BY <1>1 DEF InBucket, Bucket
  <2>2. w \notin InBucket(W, r, b) /\ IsFiniteSet(InBucket(W, r, b))
    BY <1>1, <1>3, FS_Subset DEF InBucket
  <2> DEFINE B == InBucket(W, r, b)
  <2>3. Cardinality(B) \in Nat /\ Cardinality(B \cup {w}) = Cardinality(B) + 1
    BY <2>2, FS_AddElement, FS_CardinalityType
  <2> QED
    BY <2>1, <2>3
<1>9. Retried(n, r2, a) = Retried(n, r, a) /\ Lasting(n, r2, a) = Lasting(n, r, a)
  BY <1>4 DEF Retried, Lasting
<1>10. UndoRegistration(Metrics(n, r2, a)) = Metrics(n, r, a)
  <2> DEFINE B == [b \in Buckets |-> Cardinality(InBucket(WorksOf(n, r2), r2, b))]
             C == [b \in Buckets |-> Cardinality(InBucket(W, r, b))]
  <2>1. [B EXCEPT !["pending"] = @ - 1] = C
    <3>1. ASSUME NEW b \in Buckets
          PROVE  [B EXCEPT !["pending"] = @ - 1][b] = C[b]
      BY <1>8
    <3> QED
      BY <3>1
  <2>2. Cardinality(WorksOf(n, r2)) - 1 = Cardinality(W)
    BY <1>7
  <2> HIDE DEF B, C
  <2>3. Metrics(n, r2, a).bucket = B /\ Metrics(n, r, a).bucket = C
    BY DEF Metrics, B, C, W
  <2>4. /\ Metrics(n, r2, a).total = Cardinality(WorksOf(n, r2))
        /\ Metrics(n, r, a).total = Cardinality(W)
        /\ Metrics(n, r2, a).retries = Metrics(n, r, a).retries
        /\ Metrics(n, r2, a).duration = Metrics(n, r, a).duration
    BY <1>4, <1>9 DEF Metrics, W
  <2> QED
    BY <2>1, <2>2, <2>3, <2>4, UndoneRegistration
<1> QED
  BY <1>1, <1>5, <1>6, <1>10 DEF n, r2

\* A claim moves one row of its node from pending to running, and its instant is one
\* more start.
LEMMA MetricsClaimed ==
    ASSUME NEW w \in Work, NEW r \in [Work -> Row], NEW a \in [Work -> Seq(AttemptRecords)],
           NEW q, r[w].state \in Waiting, q.state = "running",
           \A v \in Work : HistoryOK(r[v], a[v])
    PROVE  LET n == NodeOf[w]
               r2 == [r EXCEPT ![w] = q]
           IN  /\ w \in WorksOf(n, r) /\ WorksOf(n, r2) = WorksOf(n, r)
               /\ StartsOf(n, r2, a) = With(StartsOf(n, r, a), q.started)
               /\ FinishesOf(n, r2, a) = FinishesOf(n, r, a)
               /\ UndoClaim(Metrics(n, r2, a)) = Metrics(n, r, a)
<1> DEFINE n == NodeOf[w]
           r2 == [r EXCEPT ![w] = q]
           W == WorksOf(n, r)
<1>1. /\ r2[w] = q /\ \A v \in Work \ {w} : r2[v] = r[v]
      /\ WorksOf(n, r2) = W /\ w \in W /\ W \subseteq Work
  BY DEF WorksOf, Waiting
<1>2. IsFiniteSet(W)
  BY NodeFinite
<1> HIDE DEF r2, W, n
<1>3. EndedOf(n, r2, a) = EndedOf(n, r, a)
  BY <1>1 DEF EndedOf, W
<1>4. StartsOf(n, r2, a) = With(StartsOf(n, r, a), q.started)
  <2>1. ASSUME NEW s PROVE s \in StartsOf(n, r2, a) <=> s \in StartsOf(n, r, a) \/ s = q.started
    <3>1. s \in StartsOf(n, r2, a) <=>
             \/ \E v \in W : \E i \in DOMAIN a[v] : s = a[v][i].started
             \/ \E v \in W : r2[v].state = "running" /\ s = r2[v].started
      BY <1>1, InstantsOf
    <3>2. s \in StartsOf(n, r, a) <=>
             \/ \E v \in W : \E i \in DOMAIN a[v] : s = a[v][i].started
             \/ \E v \in W : r[v].state = "running" /\ s = r[v].started
      BY InstantsOf DEF W
    <3>3. (\E v \in W : r2[v].state = "running" /\ s = r2[v].started) <=>
          (\E v \in W : r[v].state = "running" /\ s = r[v].started) \/ s = q.started
      BY <1>1 DEF Waiting
    <3> QED
      BY <3>1, <3>2, <3>3
  <2> QED
    BY <2>1 DEF With
<1>5. FinishesOf(n, r2, a) = FinishesOf(n, r, a)
  BY <1>3 DEF FinishesOf
<1>6. ASSUME NEW b \in Buckets
      PROVE  /\ Cardinality(InBucket(W, r, b)) \in Nat
             /\ Cardinality(InBucket(W, r2, b)) =
                   Cardinality(InBucket(W, r, b)) +
                      (IF b = "running" THEN 1 ELSE IF b = "pending" THEN -1 ELSE 0)
  <2>1. /\ Bucket(r[w].state) = "pending" /\ Bucket(r2[w].state) = "running"
        /\ \A v \in W \ {w} : r2[v].state = r[v].state
    BY <1>1 DEF Bucket, Waiting
  <2>2. w \in W /\ IsFiniteSet(W) /\ Bucket(r2[w].state) # Bucket(r[w].state)
    BY <1>1, <1>2, <2>1
  <2> DEFINE A == InBucket(W, r, b)
             B == InBucket(W, r2, b)
  <2>3. IsFiniteSet(A)
    BY <2>2, FS_Subset DEF InBucket
  <2>4. /\ b = Bucket(r2[w].state) => w \notin A /\ B = A \cup {w}
        /\ b = Bucket(r[w].state) => w \in A /\ B = A \ {w}
        /\ b \notin {Bucket(r[w].state), Bucket(r2[w].state)} => B = A
    BY <2>1, <2>2 DEF InBucket
  <2> HIDE DEF A, B
  <2>5. Cardinality(A) \in Nat /\ (b = Bucket(r2[w].state) => Cardinality(B) = Cardinality(A) + 1)
    BY <2>3, <2>4, CountMoved
  <2>6. b = Bucket(r[w].state) => Cardinality(B) = Cardinality(A) - 1
    BY <2>3, <2>4, CountMoved
  <2> QED
    BY <2>1, <2>4, <2>5, <2>6 DEF A, B
<1>7. Retried(n, r2, a) = Retried(n, r, a) /\ Lasting(n, r2, a) = Lasting(n, r, a)
  BY <1>3 DEF Retried, Lasting
<1>8. UndoClaim(Metrics(n, r2, a)) = Metrics(n, r, a)
  <2> DEFINE B == [b \in Buckets |-> Cardinality(InBucket(W, r2, b))]
             C == [b \in Buckets |-> Cardinality(InBucket(W, r, b))]
  <2>1. [B EXCEPT !["pending"] = @ + 1, !["running"] = @ - 1] = C
    <3>1. ASSUME NEW b \in Buckets
          PROVE  [B EXCEPT !["pending"] = @ + 1, !["running"] = @ - 1][b] = C[b]
      BY <1>6
    <3> QED
      BY <3>1
  <2> HIDE DEF B, C
  <2>2. Metrics(n, r2, a).bucket = B /\ Metrics(n, r, a).bucket = C
    BY <1>1 DEF Metrics, B, C, W
  <2>3. /\ Metrics(n, r2, a).total = Metrics(n, r, a).total
        /\ Metrics(n, r2, a).retries = Metrics(n, r, a).retries
        /\ Metrics(n, r2, a).duration = Metrics(n, r, a).duration
    BY <1>1, <1>3, <1>7 DEF Metrics, W
  <2> QED
    BY <2>1, <2>2, <2>3, UndoneClaim
<1> QED
  BY <1>1, <1>4, <1>5, <1>8 DEF n, r2, W

\* The end of an attempt moves its row out of running and adds the attempt to the
\* history of the node: its duration, its finish and perhaps a retry, while its start
\* was counted when it was claimed.
LEMMA MetricsEnded ==
    ASSUME NEW w \in Work, NEW r \in [Work -> Row], NEW a \in [Work -> Seq(AttemptRecords)],
           NEW q, r[w].state = "running", q.state \in EndStates,
           \A v \in Work : HistoryOK(r[v], a[v]),
           NEW e \in AttemptRecords, e.started = r[w].started
    PROVE  LET n == NodeOf[w]
               r2 == WithRow(r, w, q)
               a2 == WithAttempt(a, w, e)
           IN  /\ w \in WorksOf(n, r) /\ WorksOf(n, r2) = WorksOf(n, r)
               /\ StartsOf(n, r2, a2) = StartsOf(n, r, a) /\ e.started \in StartsOf(n, r, a)
               /\ FinishesOf(n, r2, a2) = With(FinishesOf(n, r, a), e.finished)
               /\ UndoAttempt(Metrics(n, r2, a2), e, q.state) = Metrics(n, r, a)
<1> DEFINE n == NodeOf[w]
           r2 == WithRow(r, w, q)
           a2 == WithAttempt(a, w, e)
           W == WorksOf(n, r)
           k == Len(a[w]) + 1
           p == <<w, k>>
           E == EndedOf(n, r, a)
           E2 == EndedOf(n, r2, a2)
<1>1. /\ r2[w] = q /\ \A v \in Work \ {w} : r2[v] = r[v]
      /\ WorksOf(n, r2) = W /\ w \in W /\ W \subseteq Work
      /\ q.state # "running" /\ Bucket(q.state) # "running" /\ Bucket(q.state) \in Buckets
  BY DEF WithRow, WorksOf, EndStates, TerminalTargets, Bucket, Buckets
<1>2. /\ a2[w] = Append(a[w], e) /\ \A v \in Work \ {w} : a2[v] = a[v]
      /\ a[w] \in Seq(AttemptRecords) /\ a2[w] \in Seq(AttemptRecords)
      /\ a2 \in [Work -> Seq(AttemptRecords)]
  BY DEF WithAttempt
<1>3. /\ k \in Nat /\ k > 0 /\ a2[w][k] = e /\ \A i \in 1..Len(a[w]) : a2[w][i] = a[w][i]
      /\ DOMAIN a[w] = 1..Len(a[w]) /\ DOMAIN a2[w] = 1..k /\ 1..k = 1..Len(a[w]) \cup {k}
      /\ k \notin DOMAIN a[w]
  BY <1>2, AppendProperties, LenProperties
<1>4. /\ IsFiniteSet(W) /\ IsFiniteSet(E)
      /\ \A x \in E : /\ x[1] \in W /\ x[1] \in Work /\ x[2] \in 1..Len(a[x[1]])
                      /\ x = <<x[1], x[2]>> /\ a[x[1]][x[2]] \in AttemptRecords
  BY NodeFinite
<1> HIDE DEF r2, a2, W, k, n
<1>5. E2 = E \cup {p} /\ p \notin E
  <2>1. ASSUME NEW x \in E2 PROVE x \in E \cup {p}
    <3>1. PICK v \in W : x \in {<<v, i>> : i \in DOMAIN a2[v]}
      BY <1>1 DEF EndedOf
    <3>2. PICK i \in DOMAIN a2[v] : x = <<v, i>>
      BY <3>1
    <3>3. CASE v = w /\ i = k
      BY <3>2, <3>3
    <3>4. CASE ~(v = w /\ i = k)
      <4>1. i \in DOMAIN a[v]
        BY <1>1, <1>2, <1>3, <3>1, <3>2, <3>4
      <4> QED
        BY <3>1, <3>2, <4>1 DEF EndedOf, W
    <3> QED
      BY <3>3, <3>4
  <2>2. ASSUME NEW x \in E PROVE x \in E2
    <3>1. PICK v \in W : x \in {<<v, i>> : i \in DOMAIN a[v]}
      BY DEF EndedOf, W
    <3>2. PICK i \in DOMAIN a[v] : x = <<v, i>>
      BY <3>1
    <3>3. i \in DOMAIN a2[v]
      BY <1>1, <1>2, <1>3, <3>1, <3>2
    <3> QED
      BY <1>1, <3>1, <3>2, <3>3 DEF EndedOf
  <2>3. p \in E2
    BY <1>1, <1>3 DEF EndedOf
  <2>4. p \notin E
    <3> SUFFICES ASSUME p \in E PROVE FALSE
      OBVIOUS
    <3>1. p[1] = w /\ p[2] = k /\ p[2] \in 1..Len(a[p[1]])
      BY <1>4
    <3> QED
      BY <1>3, <3>1
  <2> QED
    BY <2>1, <2>2, <2>3, <2>4
<1>6. ASSUME NEW x \in E PROVE a2[x[1]][x[2]] = a[x[1]][x[2]]
  <2>1. x[1] \in Work /\ x[2] \in 1..Len(a[x[1]])
    BY <1>4
  <2>2. CASE x[1] = w
    BY <1>3, <2>1, <2>2
  <2>3. CASE x[1] # w
    BY <1>2, <2>1, <2>3
  <2> QED
    BY <2>2, <2>3
<1>7. a2[p[1]][p[2]] = e
  BY <1>3
<1> HIDE DEF E, E2, p
<1>8. StartsOf(n, r2, a2) = StartsOf(n, r, a) /\ e.started \in StartsOf(n, r, a)
  <2>1. {a2[x[1]][x[2]].started : x \in E2} = {a[x[1]][x[2]].started : x \in E} \cup {e.started}
    BY <1>5, <1>6, <1>7
  <2> DEFINE R == {v \in W : r[v].state = "running"}
             R2 == {v \in W : r2[v].state = "running"}
  <2>2. R = R2 \cup {w} /\ w \notin R2 /\ \A v \in R2 : r2[v].started = r[v].started
    BY <1>1
  <2>3. {r[v].started : v \in R} = {r2[v].started : v \in R2} \cup {e.started}
    <3>1. e.started = r[w].started
      OBVIOUS
    <3> HIDE DEF R, R2
    <3> QED
      BY <2>2, <3>1
  <2>4. StartsOf(n, r, a) = {a[x[1]][x[2]].started : x \in E} \cup {r[v].started : v \in R}
    BY DEF StartsOf, E, W
  <2>5. StartsOf(n, r2, a2) = {a2[x[1]][x[2]].started : x \in E2} \cup {r2[v].started : v \in R2}
    BY <1>1 DEF StartsOf, E2
  <2> HIDE DEF R, R2
  <2> QED
    BY <2>1, <2>3, <2>4, <2>5
<1>9. FinishesOf(n, r2, a2) = With(FinishesOf(n, r, a), e.finished)
  BY <1>5, <1>6, <1>7 DEF FinishesOf, E, E2, With
<1>10. ASSUME NEW b \in Buckets
       PROVE  /\ Cardinality(InBucket(W, r, b)) \in Nat
              /\ Cardinality(InBucket(W, r2, b)) =
                    Cardinality(InBucket(W, r, b)) +
                       (IF b = Bucket(q.state) THEN 1 ELSE IF b = "running" THEN -1 ELSE 0)
  <2>1. /\ Bucket(r[w].state) = "running" /\ Bucket(r2[w].state) = Bucket(q.state)
        /\ \A v \in W \ {w} : r2[v].state = r[v].state
    BY <1>1 DEF Bucket, Waiting
  <2>2. w \in W /\ IsFiniteSet(W) /\ Bucket(r2[w].state) # Bucket(r[w].state)
    BY <1>1, <1>4, <2>1
  <2> DEFINE A == InBucket(W, r, b)
             B == InBucket(W, r2, b)
  <2>3. IsFiniteSet(A)
    BY <2>2, FS_Subset DEF InBucket
  <2>4. /\ b = Bucket(r2[w].state) => w \notin A /\ B = A \cup {w}
        /\ b = Bucket(r[w].state) => w \in A /\ B = A \ {w}
        /\ b \notin {Bucket(r[w].state), Bucket(r2[w].state)} => B = A
    BY <2>1, <2>2 DEF InBucket
  <2> HIDE DEF A, B
  <2>5. Cardinality(A) \in Nat /\ (b = Bucket(r2[w].state) => Cardinality(B) = Cardinality(A) + 1)
    BY <2>3, <2>4, CountMoved
  <2>6. b = Bucket(r[w].state) => Cardinality(B) = Cardinality(A) - 1
    BY <2>3, <2>4, CountMoved
  <2> QED
    BY <2>1, <2>4, <2>5, <2>6 DEF A, B
<1>11. Metrics(n, r2, a2).retries - (IF e.outcome \in Retries THEN 1 ELSE 0) = Metrics(n, r, a).retries
  <2>1. Retried(n, r2, a2) = IF e.outcome \in Retries THEN Retried(n, r, a) \cup {p} ELSE Retried(n, r, a)
    BY <1>5, <1>6, <1>7 DEF Retried, E, E2
  <2>2. p \notin Retried(n, r, a) /\ IsFiniteSet(Retried(n, r, a))
    BY <1>4, <1>5, FS_Subset DEF Retried, E
  <2> DEFINE Q == Retried(n, r, a)
  <2>3. Cardinality(Q) \in Nat /\ Cardinality(Q \cup {p}) = Cardinality(Q) + 1
    BY <2>2, CountMoved
  <2>4. /\ Metrics(n, r2, a2).retries = Cardinality(Retried(n, r2, a2))
        /\ Metrics(n, r, a).retries = Cardinality(Q)
    BY DEF Metrics
  <2>5. CASE e.outcome \in Retries
    BY <2>1, <2>3, <2>4, <2>5
  <2>6. CASE e.outcome \notin Retries
    BY <2>1, <2>3, <2>4, <2>6
  <2> QED
    BY <2>5, <2>6
<1>12. Metrics(n, r2, a2).duration - (e.finished - e.started) = Metrics(n, r, a).duration
  <2> DEFINE F == Lasting(n, r, a)
             G == Lasting(n, r2, a2)
             d == e.finished - e.started
  <2>1. \A x \in E : F[x] \in Int /\ G[x] = F[x]
    <3>1. ASSUME NEW x \in E PROVE F[x] \in Int /\ G[x] = F[x]
      <4>1. F[x] = a[x[1]][x[2]].finished - a[x[1]][x[2]].started
        BY DEF Lasting, E
      <4>2. G[x] = a2[x[1]][x[2]].finished - a2[x[1]][x[2]].started
        BY <1>5 DEF Lasting, E2
      <4>3. a[x[1]][x[2]].finished \in Int /\ a[x[1]][x[2]].started \in Int
        BY <1>4, RowsAssumption DEF AttemptRecords, Instants
      <4> QED
        BY <1>6, <4>1, <4>2, <4>3
    <3> QED
      BY <3>1
  <2>2. G[p] = d /\ d \in Int
    <3>1. G[p] = a2[p[1]][p[2]].finished - a2[p[1]][p[2]].started
      BY <1>5 DEF Lasting, E2
    <3> QED
      BY <1>7, <3>1, RowsAssumption DEF AttemptRecords, Instants
  <2>3. IsFiniteSet(E2) /\ E2 \ {p} = E
    BY <1>4, <1>5, FS_AddElement
  <2> HIDE DEF F, G, d
  <2>4. \A x \in E2 : G[x] \in Int
    BY <1>5, <2>1, <2>2
  <2>5. SumFunctionOnSet(G, E2) = SumFunctionOnSet(G, E) + G[p]
    BY <1>5, <2>3, <2>4, SumRemove
  <2>6. SumFunctionOnSet(G, E) = SumFunctionOnSet(F, E) /\ SumFunctionOnSet(F, E) \in Int
    BY <1>4, <2>1, SumSame, SumRemove
  <2>7. /\ Metrics(n, r2, a2).duration = SumFunctionOnSet(G, E2)
        /\ Metrics(n, r, a).duration = SumFunctionOnSet(F, E)
    BY DEF Metrics, F, G, E, E2
  <2>8. Metrics(n, r2, a2).duration - d = Metrics(n, r, a).duration
    BY <2>2, <2>5, <2>6, <2>7
  <2> QED
    BY <2>8 DEF d
<1>13. UndoAttempt(Metrics(n, r2, a2), e, q.state) = Metrics(n, r, a)
  <2> DEFINE B == [b \in Buckets |-> Cardinality(InBucket(W, r2, b))]
             C == [b \in Buckets |-> Cardinality(InBucket(W, r, b))]
             z == Bucket(q.state)
  <2>1. [B EXCEPT ![z] = @ - 1, !["running"] = @ + 1] = C
    <3>1. ASSUME NEW b \in Buckets
          PROVE  [B EXCEPT ![z] = @ - 1, !["running"] = @ + 1][b] = C[b]
      BY <1>1, <1>10
    <3> QED
      BY <3>1
  <2> HIDE DEF B, C
  <2>2. Metrics(n, r2, a2).bucket = B /\ Metrics(n, r, a).bucket = C
    BY <1>1 DEF Metrics, B, C, W
  <2>3. Metrics(n, r2, a2).total = Metrics(n, r, a).total
    BY <1>1 DEF Metrics, W
  <2> QED
    BY <1>11, <1>12, <2>1, <2>2, <2>3, UndoneAttempt
<1> QED
  BY <1>1, <1>8, <1>9, <1>13 DEF n, r2, a2, W

------------------------------------------------------------------------------
\* What node n stores, as record d, over rows r and histories a: the metrics of its
\* work, the status they imply, its earliest start, and a finish that no attempt
\* exceeds.  A node without work is pending, or was finished as empty.
NodeOK(n, r, a, d) ==
    /\ d.work = Metrics(n, r, a)
    /\ d.started \in Times /\ d.finished \in Times
    /\ WorksOf(n, r) = {} => \/ d.status = "pending" /\ d.started = None
                             \/ d.status = "succeeded" /\ d.started # None
    /\ WorksOf(n, r) # {} =>
          /\ d.status = StatusFor(d.work, d.started # None)
          /\ d.started = None <=> StartsOf(n, r, a) = {}
    /\ StartsOf(n, r, a) # {} =>
          d.started \in StartsOf(n, r, a) /\ \A s \in StartsOf(n, r, a) : d.started <= s
    /\ d.status \in TerminalStatuses => \A f \in FinishesOf(n, r, a) : f <= d.finished

\* The inductive invariant of the ledger.
LedgerInv ==
    /\ RowsInv
    /\ DriftOnlyOfEndedEmpty /\ corrupt \subseteq Nodes
    /\ node = [n \in Nodes |-> node[n]]
    /\ \A n \in Nodes : NodeOK(n, row, attempts, node[n])

\* Some work of the node is still to be done.
Active(n, r) == \E w \in WorksOf(n, r) : Bucket(r[w].state) \in {"pending", "running"}

\* The status of a node with work tells whether some of it is still to be done.
LEMMA StatusIs ==
    ASSUME NEW n, NEW r, NEW a, NEW started \in BOOLEAN, WorksOf(n, r) # {}
    PROVE  LET status == StatusFor(Metrics(n, r, a), started)
           IN  /\ Active(n, r) => status = IF started THEN "running" ELSE "pending"
               /\ ~Active(n, r) => status \in TerminalStatuses
<1> DEFINE m == Metrics(n, r, a)
<1>1. IsFiniteSet(WorksOf(n, r))
  BY FS_Subset, NodeAssumption, LedgerAssumption DEF WorksOf
<1>2. m.total \in Nat /\ m.total > 0
  BY <1>1, FS_CardinalityType, FS_EmptySet DEF Metrics
<1>3. ASSUME NEW b \in Buckets
      PROVE  /\ m.bucket[b] \in Nat
             /\ m.bucket[b] > 0 <=> \E w \in WorksOf(n, r) : Bucket(r[w].state) = b
  BY <1>1, BucketFilled DEF Metrics
<1>4. /\ m.bucket["pending"] \in Nat /\ m.bucket["running"] \in Nat
      /\ m.bucket["pending"] + m.bucket["running"] > 0 <=> Active(n, r)
      /\ m.bucket["pending"] + m.bucket["running"] \in Nat
  <2>1. "pending" \in Buckets /\ "running" \in Buckets
    BY DEF Buckets
  <2>2. m.bucket["pending"] \in Nat /\ m.bucket["running"] \in Nat
    BY <1>3, <2>1
  <2>3. m.bucket["pending"] > 0 <=> \E w \in WorksOf(n, r) : Bucket(r[w].state) = "pending"
    BY <1>3, <2>1
  <2>4. m.bucket["running"] > 0 <=> \E w \in WorksOf(n, r) : Bucket(r[w].state) = "running"
    BY <1>3, <2>1
  <2> HIDE DEF m
  <2> QED
    BY <2>2, <2>3, <2>4 DEF Active
<1> HIDE DEF m
<1>5. CASE Active(n, r)
  BY <1>2, <1>4, <1>5 DEF StatusFor, m
<1>6. CASE ~Active(n, r)
  <2>1. m.total > 0 /\ m.total # 0 /\ m.bucket["pending"] + m.bucket["running"] = 0
    BY <1>2, <1>4, <1>6
  <2>2. m.bucket["failed"] \in Nat
    BY <1>3 DEF Buckets
  <2>3. m.bucket["failed"] > 0 \/ m.bucket["failed"] = 0
    BY <2>2
  <2>4. StatusFor(m, started) \in {"failed", "cancelled", "partially_succeeded", "succeeded"}
    BY <1>2, <2>1, <2>3 DEF StatusFor
  <2> QED
    BY <1>6, <2>4 DEF m, TerminalStatuses, Statuses
<1> QED
  BY <1>5, <1>6

\* The latest of some instants.
LEMMA MaxOf ==
    ASSUME NEW S \in SUBSET Instants, S # {}
    PROVE  Max(S) \in S /\ \A s \in S : s <= Max(S)
<1> DEFINE T == {MaxInstant - s : s \in S}
<1>1. MaxInstant \in Nat /\ \A s \in S : s \in 0..MaxInstant
  BY RowsAssumption DEF Instants
<1>t. \A s \in S : MaxInstant - s \in Nat
  BY <1>1
<1>n. T \subseteq Nat /\ T # {}
  BY <1>t
<1>2. PICK n \in T : \A m \in T : n <= m
  BY <1>n, LeastNatural
<1>3. PICK x \in S : n = MaxInstant - x
  BY <1>2
<1>4. \A s \in S : s <= x
  <2>1. ASSUME NEW s \in S PROVE s <= x
    <3>1. MaxInstant - x <= MaxInstant - s
      BY <1>2, <1>3
    <3>2. s \in Int /\ x \in Int /\ MaxInstant \in Int
      BY RowsAssumption DEF Instants
    <3> QED
      BY <3>1, <3>2
  <2> QED
    BY <2>1
<1>5. \A s \in S : s \in Int
  BY RowsAssumption DEF Instants
<1>6. \E y \in S : \A s \in S : y >= s
  BY <1>3, <1>4, <1>5
<1>7. Max(S) \in S /\ \A s \in S : Max(S) >= s
  BY <1>6 DEF Max
<1> QED
  BY <1>5, <1>7

\* The least of some instants is the one that none of them precedes.
LEMMA MinIs ==
    ASSUME NEW S \in SUBSET Instants, NEW s \in S, \A x \in S : s <= x
    PROVE  Min(S) = s
<1>1. \A x \in S : x \in Int
  BY RowsAssumption DEF Instants
<1>2. Min(S) \in S /\ \A x \in S : Min(S) <= x
  BY DEF Min
<1>3. Min(S) <= s /\ s <= Min(S) /\ Min(S) \in Int /\ s \in Int
  BY <1>1, <1>2
<1> QED
  BY <1>3

\* Starts and finishes are instants, and an attempt ends no earlier than it starts.
LEMMA InstantsTyped ==
    ASSUME NEW n, NEW r \in [Work -> Row], NEW a \in [Work -> Seq(AttemptRecords)],
           \A v \in Work : RowOK(r[v]) /\ HistoryOK(r[v], a[v])
    PROVE  StartsOf(n, r, a) \subseteq Instants /\ FinishesOf(n, r, a) \subseteq Instants
<1>1. ASSUME NEW w \in WorksOf(n, r), NEW i \in DOMAIN a[w]
      PROVE  a[w][i].started \in Instants /\ a[w][i].finished \in Instants
  <2>1. a[w] \in Seq(AttemptRecords)
    BY DEF WorksOf
  <2>2. a[w][i] \in AttemptRecords
    BY <2>1
  <2> QED
    BY <2>2 DEF AttemptRecords
<1>2. ASSUME NEW w \in WorksOf(n, r), r[w].state = "running"
      PROVE  r[w].started \in Instants
  BY <1>2 DEF WorksOf, RowOK
<1>3. ASSUME NEW s \in StartsOf(n, r, a) PROVE s \in Instants
  <2>1. \/ \E w \in WorksOf(n, r) : \E i \in DOMAIN a[w] : s = a[w][i].started
        \/ \E w \in WorksOf(n, r) : r[w].state = "running" /\ s = r[w].started
    BY InstantsOf
  <2> QED
    BY <1>1, <1>2, <2>1
<1>4. ASSUME NEW s \in FinishesOf(n, r, a) PROVE s \in Instants
  <2>1. \E w \in WorksOf(n, r) : \E i \in DOMAIN a[w] : s = a[w][i].finished
    BY InstantsOf
  <2> QED
    BY <1>1, <2>1
<1> QED
  BY <1>3, <1>4

\* ValidPrior of a stored node d.
Prior(d, prior, earliest) ==
    /\ d.work = prior
    /\ d.status = StatusFor(prior, d.started # None)
    /\ d.started # None /\ earliest # None => d.started = earliest

\* A stored start is the earliest start, while no command moves that.
LEMMA StartIsEarliest ==
    ASSUME NEW n, NEW r, NEW a, NEW r2, NEW a2, NEW d, NodeOK(n, r, a, d),
           StartsOf(n, r, a) \subseteq Instants, StartsOf(n, r2, a2) = StartsOf(n, r, a)
    PROVE  Snapshot(n, r2, a2).earliest # None => d.started = Snapshot(n, r2, a2).earliest
<1>1. CASE StartsOf(n, r, a) = {}
  BY <1>1, SnapshotIs
<1>2. CASE StartsOf(n, r, a) # {}
  <2>1. d.started \in StartsOf(n, r, a) /\ \A s \in StartsOf(n, r, a) : d.started <= s
    BY <1>2 DEF NodeOK
  <2>2. Min(StartsOf(n, r, a)) = d.started
    BY <2>1, MinIs
  <2> QED
    BY <1>2, <2>2, SnapshotIs
<1> QED
  BY <1>1, <1>2

\* A node without work has nothing to count.
LEMMA EmptyNode ==
    ASSUME NEW n, NEW r, NEW a, WorksOf(n, r) = {}
    PROVE  /\ EndedOf(n, r, a) = {} /\ StartsOf(n, r, a) = {} /\ FinishesOf(n, r, a) = {}
           /\ Metrics(n, r, a) = NoWork
           /\ \A started \in BOOLEAN : StatusFor(Metrics(n, r, a), started) = "pending"
<1>1. EndedOf(n, r, a) = {}
  BY DEF EndedOf
<1>2. StartsOf(n, r, a) = {} /\ FinishesOf(n, r, a) = {}
  BY <1>1, InstantsOf
<1>3. Cardinality({}) = 0 /\ IsFiniteSet({})
  BY FS_EmptySet
<1>4. \A b \in Buckets : InBucket(WorksOf(n, r), r, b) = {}
  BY DEF InBucket
<1>5. Retried(n, r, a) = {}
  BY <1>1 DEF Retried
<1>6. SumFunctionOnSet(Lasting(n, r, a), {}) = 0
  BY <1>3, SumUnfold
<1>7. Metrics(n, r, a) = NoWork
  BY <1>1, <1>3, <1>4, <1>5, <1>6 DEF Metrics, NoWork
<1>8. \A started \in BOOLEAN : StatusFor(Metrics(n, r, a), started) = "pending"
  BY <1>7 DEF StatusFor, NoWork
<1> QED
  BY <1>1, <1>2, <1>7, <1>8

\* Registering a work item keeps its node in step.
LEMMA NodeRegistered ==
    ASSUME NEW w \in Work, NEW r \in [Work -> Row], NEW a \in [Work -> Seq(AttemptRecords)],
           NEW q, r[w].state = "absent", q.state = "pending",
           \A v \in Work : RowOK(r[v]) /\ HistoryOK(r[v], a[v]),
           NEW d, NodeOK(NodeOf[w], r, a, d), d.status \in {"pending", "running"}
    PROVE  LET n == NodeOf[w]
               r2 == [r EXCEPT ![w] = q]
               s == Snapshot(n, r2, a)
           IN  /\ Prior(d, UndoRegistration(s.work), s.earliest)
               /\ NodeOK(n, r2, a, [status |-> d.status, work |-> s.work,
                                    started |-> d.started, finished |-> None])
<1> DEFINE n == NodeOf[w]
           r2 == [r EXCEPT ![w] = q]
           s == Snapshot(n, r2, a)
           d2 == [status |-> d.status, work |-> s.work, started |-> d.started, finished |-> None]
           st == d.started # None
<1>1. /\ w \in WorksOf(n, r2) /\ StartsOf(n, r2, a) = StartsOf(n, r, a)
      /\ FinishesOf(n, r2, a) = FinishesOf(n, r, a)
      /\ UndoRegistration(Metrics(n, r2, a)) = Metrics(n, r, a)
      /\ r2[w].state = "pending"
  <2>1. r[w].completed = 0
    BY DEF RowOK
  <2> QED
    BY <2>1, MetricsCreated
<1>2. s.work = Metrics(n, r2, a)
  BY SnapshotIs
<1>3. /\ NodeOK(n, r, a, d) /\ StartsOf(n, r, a) \subseteq Instants /\ st \in BOOLEAN
  BY InstantsTyped
<1> HIDE DEF n, r2
<1>4. Active(n, r2)
  BY <1>1 DEF Active, Bucket
<1>5. StatusFor(s.work, st) = IF st THEN "running" ELSE "pending"
  BY <1>1, <1>2, <1>3, <1>4, StatusIs
<1>6. d.status = StatusFor(Metrics(n, r, a), st) /\ d.status = IF st THEN "running" ELSE "pending"
  <2>1. CASE WorksOf(n, r) = {}
    <3>1. d.status = "pending" /\ d.started = None
      BY <1>3, <2>1 DEF NodeOK
    <3> QED
      BY <1>3, <2>1, <3>1, EmptyNode
  <2>2. CASE WorksOf(n, r) # {}
    <3>1. d.status = StatusFor(Metrics(n, r, a), st)
      BY <1>3, <2>2 DEF NodeOK
    <3>2. /\ Active(n, r) => d.status = IF st THEN "running" ELSE "pending"
          /\ ~Active(n, r) => d.status \in TerminalStatuses
      BY <1>3, <2>2, <3>1, StatusIs
    <3> QED
      BY <3>1, <3>2 DEF TerminalStatuses
  <2> QED
    BY <2>1, <2>2
<1>7. Prior(d, UndoRegistration(s.work), s.earliest)
  <2>1. d.work = Metrics(n, r, a)
    BY <1>3 DEF NodeOK
  <2>2. s.earliest # None => d.started = s.earliest
    BY <1>1, <1>3, StartIsEarliest
  <2> HIDE DEF s
  <2> QED
    BY <1>1, <1>2, <1>6, <2>1, <2>2 DEF Prior
<1>8. NodeOK(n, r2, a, d2)
  <2>1. d2.status \notin TerminalStatuses
    BY DEF TerminalStatuses
  <2>2. d.started = None <=> StartsOf(n, r, a) = {}
    <3>1. WorksOf(n, r) = {} => StartsOf(n, r, a) = {} /\ d.started = None
      BY <1>3, EmptyNode DEF NodeOK
    <3> QED
      BY <1>3, <3>1 DEF NodeOK
  <2>3. WorksOf(n, r2) # {} /\ d2.status = StatusFor(d2.work, d2.started # None)
    BY <1>1, <1>5, <1>6
  <2>4. d2.work = Metrics(n, r2, a) /\ d2.started = d.started /\ d.started \in Times
        /\ d2.finished \in Times
    BY <1>2, <1>3 DEF NodeOK, Times
  <2>5. StartsOf(n, r, a) # {} =>
           d.started \in StartsOf(n, r, a) /\ \A x \in StartsOf(n, r, a) : d.started <= x
    BY <1>3 DEF NodeOK
  <2> HIDE DEF d2
  <2> QED
    BY <1>1, <2>1, <2>2, <2>3, <2>4, <2>5 DEF NodeOK
<1> QED
  BY <1>7, <1>8 DEF n, r2

\* Claiming a work item keeps its node in step, if it does not precede its start.
LEMMA NodeClaimed ==
    ASSUME NEW w \in Work, NEW r \in [Work -> Row], NEW a \in [Work -> Seq(AttemptRecords)],
           NEW q, r[w].state \in Waiting, q.state = "running",
           q.started \in Instants,
           \A v \in Work : RowOK(r[v]) /\ HistoryOK(r[v], a[v]),
           NEW d, NodeOK(NodeOf[w], r, a, d), d.started = None \/ q.started >= d.started
    PROVE  LET n == NodeOf[w]
               r2 == [r EXCEPT ![w] = q]
               s == Snapshot(n, r2, a)
           IN  /\ Prior(d, UndoClaim(s.work), s.earliest)
               /\ NodeOK(n, r2, a, [status |-> "running", work |-> s.work,
                                    started |-> IF d.started = None THEN q.started
                                                ELSE d.started,
                                    finished |-> None])
<1> DEFINE n == NodeOf[w]
           r2 == [r EXCEPT ![w] = q]
           s == Snapshot(n, r2, a)
           t == q.started
           start == IF d.started = None THEN t ELSE d.started
           d2 == [status |-> "running", work |-> s.work, started |-> start, finished |-> None]
           S == StartsOf(n, r, a)
<1>1. /\ w \in WorksOf(n, r) /\ WorksOf(n, r2) = WorksOf(n, r)
      /\ StartsOf(n, r2, a) = With(S, t)
      /\ FinishesOf(n, r2, a) = FinishesOf(n, r, a)
      /\ UndoClaim(Metrics(n, r2, a)) = Metrics(n, r, a)
      /\ r2[w].state = "running"
  <2>1. r2[w] = q /\ \A v \in Work : HistoryOK(r[v], a[v])
    OBVIOUS
  <2> QED
    BY <2>1, MetricsClaimed
<1>2. s.work = Metrics(n, r2, a)
  BY SnapshotIs
<1>3. NodeOK(n, r, a, d) /\ S \subseteq Instants
  BY InstantsTyped
<1>t. t \in Instants /\ (d.started = None \/ t >= d.started)
  OBVIOUS
<1> HIDE DEF n, r2, S, t
<1>4. /\ d.status = StatusFor(d.work, d.started # None) /\ d.work = Metrics(n, r, a)
      /\ d.started = None <=> S = {}
      /\ S # {} => d.started \in S /\ \A x \in S : d.started <= x
      /\ d.started \in Times
  BY <1>1, <1>3 DEF NodeOK, S
<1>5. start \in S \cup {t} /\ start # None /\ start \in Times /\ \A x \in S \cup {t} : start <= x
  <2>1. CASE d.started = None
    BY <1>t, <1>4, <2>1, RowsAssumption DEF Times, Instants, None
  <2>2. CASE d.started # None
    <3>1. d.started <= t
      BY <1>t, <1>4, <2>2, RowsAssumption DEF Times, Instants, None
    <3> QED
      BY <1>4, <2>2, <3>1
  <2> QED
    BY <2>1, <2>2
<1>6. s.earliest = start
  <2>1. Min(S \cup {t}) = start
    BY <1>t, <1>3, <1>5, MinIs
  <2>2. s.earliest = Min(StartsOf(n, r2, a))
    BY <1>1, SnapshotIs DEF With
  <2> QED
    BY <1>1, <2>1, <2>2 DEF With
<1> HIDE DEF s
<1>7. Prior(d, UndoClaim(s.work), s.earliest)
  BY <1>1, <1>2, <1>4, <1>6 DEF Prior
<1>8. StatusFor(s.work, start # None) = "running"
  <2>1. Active(n, r2)
    BY <1>1 DEF Active, Bucket
  <2>2. StatusFor(Metrics(n, r2, a), TRUE) = "running"
    BY <1>1, <2>1, StatusIs
  <2>3. (start # None) = TRUE
    BY <1>5
  <2> QED
    BY <1>2, <2>2, <2>3
<1> HIDE DEF start
<1>9. NodeOK(n, r2, a, d2)
  <2>1. d2.status \notin TerminalStatuses /\ d2.status = StatusFor(d2.work, d2.started # None)
    BY <1>8 DEF TerminalStatuses
  <2>2. WorksOf(n, r2) # {} /\ d2.work = Metrics(n, r2, a) /\ d2.started = start
        /\ d2.finished \in Times
    BY <1>1, <1>2 DEF Times
  <2> HIDE DEF d2
  <2> QED
    BY <1>1, <1>5, <2>1, <2>2 DEF NodeOK, With
<1> QED
  BY <1>7, <1>9 DEF n, r2, s, start, t

\* The end of an attempt keeps its node in step: it goes on, or it ends with the last
\* of its attempts.
LEMMA NodeEnded ==
    ASSUME NEW w \in Work, NEW r \in [Work -> Row], NEW a \in [Work -> Seq(AttemptRecords)],
           NEW q, r[w].state = "running", q.state \in EndStates,
           \A v \in Work : RowOK(r[v]) /\ HistoryOK(r[v], a[v]),
           NEW e \in AttemptRecords, e.started = r[w].started, e.started <= e.finished,
           NEW d, NodeOK(NodeOf[w], r, a, d)
    PROVE  LET n == NodeOf[w]
               r2 == WithRow(r, w, q)
               a2 == WithAttempt(a, w, e)
               s == Snapshot(n, r2, a2)
               status == StatusFor(s.work, TRUE)
               finished == IF status = "running" THEN None ELSE s.latest
           IN  /\ Prior(d, UndoAttempt(s.work, e, q.state), s.earliest)
               /\ NodeOK(n, r2, a2, [status |-> status, work |-> s.work,
                                     started |-> d.started, finished |-> finished])
               /\ status \in TerminalStatuses => d.started <= finished
               /\ q.state = "retry_wait" => status = "running"
<1> DEFINE n == NodeOf[w]
           r2 == WithRow(r, w, q)
           a2 == WithAttempt(a, w, e)
           s == Snapshot(n, r2, a2)
           status == StatusFor(s.work, TRUE)
           finished == IF status = "running" THEN None ELSE s.latest
           d2 == [status |-> status, work |-> s.work, started |-> d.started,
                  finished |-> finished]
           S == StartsOf(n, r, a)
           F == FinishesOf(n, r2, a2)
<1>1. /\ w \in WorksOf(n, r) /\ WorksOf(n, r2) = WorksOf(n, r)
      /\ StartsOf(n, r2, a2) = S /\ e.started \in S
      /\ F = With(FinishesOf(n, r, a), e.finished)
      /\ UndoAttempt(Metrics(n, r2, a2), e, q.state) = Metrics(n, r, a)
  <2>1. \A v \in Work : HistoryOK(r[v], a[v])
    OBVIOUS
  <2> QED
    BY <2>1, MetricsEnded
<1>2. s.work = Metrics(n, r2, a2) /\ (F # {} => s.latest = Max(F)) /\ r2[w] = q
  <2>1. r2[w] = q
    BY DEF WithRow
  <2>2. s.work = Metrics(n, r2, a2)
    BY SnapshotIs
  <2>3. s.latest = IF F = {} THEN None ELSE Max(F)
    BY SnapshotIs
  <2> QED
    BY <2>1, <2>2, <2>3
<1>3. NodeOK(n, r, a, d) /\ S \subseteq Instants /\ FinishesOf(n, r, a) \subseteq Instants
  BY InstantsTyped
<1> HIDE DEF n, r2, a2, S, F
<1>4. /\ d.status = StatusFor(d.work, d.started # None) /\ d.work = Metrics(n, r, a)
      /\ d.started \in S /\ \A x \in S : d.started <= x
      /\ d.started \in Instants /\ d.started # None
  <2>1. d.started \in S /\ \A x \in S : d.started <= x
    BY <1>1, <1>3 DEF NodeOK, S
  <2>2. d.status = StatusFor(d.work, d.started # None) /\ d.work = Metrics(n, r, a)
    BY <1>1, <1>3 DEF NodeOK
  <2>3. d.started \in Instants
    BY <1>3, <2>1
  <2> QED
    BY <2>1, <2>2, <2>3, RowsAssumption DEF Instants, None
<1>5. e.started \in Instants /\ e.finished \in Instants /\ F \subseteq Instants
  BY <1>1, <1>3 DEF AttemptRecords, With
<1>6. F # {} /\ Max(F) \in F /\ \A x \in F : x <= Max(F)
  BY <1>1, <1>5, MaxOf DEF With
<1>7. s.latest = Max(F) /\ s.latest \in Instants
  BY <1>2, <1>5, <1>6
<1>8. s.earliest # None => d.started = s.earliest
  BY <1>1, <1>3, StartIsEarliest DEF S
<1> HIDE DEF s
<1>9. Prior(d, UndoAttempt(s.work, e, q.state), s.earliest)
  BY <1>1, <1>2, <1>4, <1>8 DEF Prior
<1>10. /\ Active(n, r2) => status = "running"
       /\ ~Active(n, r2) => status \in TerminalStatuses
  <2>1. WorksOf(n, r2) # {}
    BY <1>1
  <2> QED
    BY <1>2, <2>1, StatusIs
<1>11. q.state = "retry_wait" => status = "running"
  <2>1. ASSUME q.state = "retry_wait" PROVE Active(n, r2)
    BY <1>1, <1>2, <2>1 DEF Active, Bucket
  <2> QED
    BY <1>10, <2>1
<1>12. status \in TerminalStatuses => finished = Max(F)
  BY <1>7 DEF TerminalStatuses
<1>13. finished \in Times
  BY <1>7 DEF Times
<1>14. status = StatusFor(s.work, d.started # None)
  <2>1. (d.started # None) = TRUE
    BY <1>4
  <2> QED
    BY <2>1
<1> HIDE DEF status, finished
<1>15. status \in TerminalStatuses => d.started <= finished
  <2>1. e.finished \in F /\ e.finished <= Max(F) /\ Max(F) \in Instants
    BY <1>1, <1>5, <1>6 DEF With
  <2>2. d.started <= e.started
    BY <1>1, <1>4
  <2>3. d.started \in Int /\ e.started \in Int /\ e.finished \in Int /\ Max(F) \in Int
    BY <1>4, <1>5, <2>1, RowsAssumption DEF Instants
  <2> QED
    BY <1>12, <2>1, <2>2, <2>3
<1>16. NodeOK(n, r2, a2, d2)
  <2>1. /\ d2.status = StatusFor(d2.work, d2.started # None)
        /\ d2.work = Metrics(n, r2, a2) /\ d2.started = d.started /\ d2.finished = finished
        /\ d2.status = status
    BY <1>2, <1>14
  <2>2. d.started \in Times
    BY <1>4 DEF Times
  <2>3. WorksOf(n, r2) # {} /\ StartsOf(n, r2, a2) = S /\ S # {}
    BY <1>1
  <2>4. status \in TerminalStatuses => \A x \in F : x <= finished
    BY <1>6, <1>12
  <2> HIDE DEF d2
  <2> QED
    BY <1>4, <1>13, <2>1, <2>2, <2>3, <2>4 DEF NodeOK, F
<1> QED
  BY <1>9, <1>11, <1>15, <1>16 DEF n, r2, a2, s, status, finished

\* A command that leaves the rows of a node keeps what it stores in step.
LEMMA NodeKept ==
    ASSUME NEW n, NEW r \in [Work -> Row], NEW a \in [Work -> Seq(AttemptRecords)],
           NEW r2 \in [Work -> Row], NEW a2 \in [Work -> Seq(AttemptRecords)],
           \A w \in Work : NodeOf[w] = n =>
              r2[w].state = r[w].state /\ r2[w].started = r[w].started /\ a2[w] = a[w],
           NEW d, NodeOK(n, r, a, d)
    PROVE  NodeOK(n, r2, a2, d)
<1>1. /\ WorksOf(n, r2) = WorksOf(n, r)
      /\ StartsOf(n, r2, a2) = StartsOf(n, r, a)
      /\ FinishesOf(n, r2, a2) = FinishesOf(n, r, a)
      /\ Metrics(n, r2, a2) = Metrics(n, r, a)
  BY SnapshotSame
<1> QED
  BY <1>1 DEF NodeOK

\* A command that passes the check of its node and leaves the other nodes alone keeps
\* the ledger in step.
LEMMA NodeStep ==
    ASSUME LedgerInv, RowsInv', NEW n \in Nodes, NEW snapshot, NEW prior, NEW allowed,
           NEW status, NEW started, NEW finished,
           UpdateNode(n, snapshot, prior, allowed, status, started, finished),
           Prior(node[n], prior, snapshot.earliest),
           NodeOK(n, row', attempts', [status |-> status, work |-> snapshot.work,
                                       started |-> started, finished |-> finished]),
           status \in TerminalStatuses => started <= finished,
           \A v \in Work : NodeOf[v] # n => row'[v] = row[v] /\ attempts'[v] = attempts[v]
    PROVE  LedgerInv'
<1> DEFINE d2 == [status |-> status, work |-> snapshot.work, started |-> started,
                  finished |-> finished]
<1>1. /\ row \in [Work -> Row] /\ attempts \in [Work -> Seq(AttemptRecords)]
      /\ row' \in [Work -> Row] /\ attempts' \in [Work -> Seq(AttemptRecords)]
  BY DEF LedgerInv, RowsInv, RowsTypeOK
<1>2. node = [m \in Nodes |-> node[m]] /\ \A m \in Nodes : NodeOK(m, row, attempts, node[m])
  BY DEF LedgerInv
<1>v. ValidPrior(n, prior, snapshot.earliest)
  BY DEF ValidPrior, Prior
<1>3. corrupt' = {}
  BY <1>v DEF UpdateNode
<1>4. node' = [node EXCEPT ![n] = d2]
  BY <1>v DEF UpdateNode
<1> HIDE DEF d2
<1>5. /\ node' = [m \in Nodes |-> node'[m]] /\ node'[n] = d2
      /\ \A m \in Nodes \ {n} : node'[m] = node[m]
  BY <1>2, <1>4
<1>6. ASSUME NEW m \in Nodes PROVE NodeOK(m, row', attempts', node'[m])
  <2>1. CASE m = n
    BY <1>5, <2>1 DEF d2
  <2>2. CASE m # n
    <3>1. \A v \in Work : NodeOf[v] = m =>
             row'[v].state = row[v].state /\ row'[v].started = row[v].started
             /\ attempts'[v] = attempts[v]
      BY <2>2
    <3>2. NodeOK(m, row, attempts, node[m])
      BY <1>2
    <3>3. NodeOK(m, row', attempts', node[m])
      BY <1>1, <3>1, <3>2, NodeKept
    <3> QED
      BY <1>5, <2>2, <3>3
  <2> QED
    BY <2>1, <2>2
<1> QED
  BY <1>3, <1>5, <1>6 DEF LedgerInv, DriftOnlyOfEndedEmpty

\* The end of an attempt keeps the ledger in step.
LEMMA EndStep ==
    ASSUME LedgerInv, RowsInv', NEW w \in Work, NEW q, NEW e \in AttemptRecords,
           row[w].state = "running", q.state \in EndStates,
           e.started = row[w].started, e.started <= e.finished,
           row' = WithRow(row, w, q), attempts' = WithAttempt(attempts, w, e),
           ApplyCompletion(NodeOf[w], w) \/ (q.state = "retry_wait" /\ ApplyRecovery(NodeOf[w], w))
    PROVE  LedgerInv'
<1> DEFINE n == NodeOf[w]
           s == Snapshot(n, row', attempts')
           status == StatusFor(s.work, TRUE)
           finished == IF status = "running" THEN None ELSE s.latest
           prior == UndoAttempt(s.work, e, q.state)
<1>1. /\ row \in [Work -> Row] /\ attempts \in [Work -> Seq(AttemptRecords)]
      /\ \A v \in Work : RowOK(row[v]) /\ HistoryOK(row[v], attempts[v])
      /\ n \in Nodes /\ NodeOK(n, row, attempts, node[n])
  BY NodeAssumption, LedgerAssumption DEF LedgerInv, RowsInv, RowsTypeOK
<1>2. NewAttempt(w) = e /\ row'[w] = q
  <2>1. attempts'[w] = Append(attempts[w], e) /\ attempts[w] \in Seq(AttemptRecords)
    BY <1>1 DEF WithAttempt
  <2>2. attempts'[w][Len(attempts'[w])] = e
    BY <2>1, AppendProperties
  <2> QED
    BY <1>1, <2>2 DEF NewAttempt, WithRow
<1>4. /\ Prior(node[n], prior, s.earliest)
      /\ NodeOK(n, row', attempts', [status |-> status, work |-> s.work,
                                     started |-> node[n].started, finished |-> finished])
      /\ status \in TerminalStatuses => node[n].started <= finished
      /\ q.state = "retry_wait" => status = "running"
  BY <1>1, NodeEnded
<1>5. UpdateNode(n, s, prior, HasStarted(n), status, node[n].started, finished)
  <2>1. CASE ApplyCompletion(n, w)
    BY <1>2, <2>1 DEF ApplyCompletion
  <2>2. CASE q.state = "retry_wait" /\ ApplyRecovery(n, w)
    <3>1. status = "running" /\ finished = None
      BY <1>4, <2>2
    <3>2. UpdateNode(n, s, prior, HasStarted(n), "running", node[n].started, None)
      BY <1>2, <2>2 DEF ApplyRecovery
    <3> HIDE DEF status, finished
    <3> QED
      BY <3>1, <3>2
  <2> QED
    BY <2>1, <2>2
<1>6. \A v \in Work : NodeOf[v] # n => row'[v] = row[v] /\ attempts'[v] = attempts[v]
  BY <1>1 DEF WithRow, WithAttempt
<1> HIDE DEF n, s, status, finished, prior
<1> QED
  BY <1>1, <1>4, <1>5, <1>6, NodeStep

\* Every step of the ledger is a step of its rows, or leaves them.
LEMMA LedgerRowsStep == [Next]_vars => [RowsNext]_<<rows, now>>
<1> SUFFICES ASSUME Next PROVE RowsNext \/ UNCHANGED <<rows, now>>
  BY DEF vars
<1>1. CASE \E target \in RunStates, t \in Past : TransitionRun(target, t) /\ Keep
  BY <1>1 DEF RowsNext
<1>2. CASE \E n \in Nodes, t \in Past : FinalizeEmpty(n, t)
  BY <1>2 DEF FinalizeEmpty
<1>3. CASE \E w \in Work, t \in Past :
             \/ BootstrapWork(w, t)
             \/ \E expires \in Instants : ClaimWork(w, t, expires)
             \/ \E retryAt \in Instants : RecoverExpiredWork(w, t, retryAt)
  BY <1>3 DEF RowsNext, BootstrapWork, ClaimWork, RecoverExpiredWork
<1>4. CASE \E c \in issued, t \in Past :
             \/ \E expires \in Instants : RenewWorkClaim(c, t, expires)
             \/ \E target \in RowStates, retryAt \in Times :
                   CommitWorkAttempt(c, t, target, retryAt)
             \/ \E committed \in Past : CommitWorkWithCheckpoint(c, t, committed)
  BY <1>4 DEF RowsNext, RenewWorkClaim, CommitWorkAttempt, CommitWorkWithCheckpoint
<1>5. CASE Tick /\ Keep
  BY <1>5 DEF RowsNext
<1> QED
  BY <1>1, <1>2, <1>3, <1>4, <1>5 DEF Next

\* Nodes start without work.
LEMMA LedgerInitInv == Init => LedgerInv
<1> SUFFICES ASSUME Init PROVE LedgerInv
  OBVIOUS
<1>1. RowsInv /\ row = [w \in Work |-> Absent]
  BY RowsInitInv DEF Init, RowsInit
<1>2. ASSUME NEW n \in Nodes PROVE NodeOK(n, row, attempts, node[n])
  <2>1. WorksOf(n, row) = {}
    BY <1>1 DEF WorksOf, Absent
  <2>2. node[n] = [status |-> "pending", work |-> NoWork, started |-> None, finished |-> None]
    BY DEF Init
  <2>3. /\ StartsOf(n, row, attempts) = {} /\ FinishesOf(n, row, attempts) = {}
        /\ Metrics(n, row, attempts) = NoWork
    BY <2>1, EmptyNode
  <2> QED
    BY <2>1, <2>2, <2>3 DEF NodeOK, Times
<1>3. node = [n \in Nodes |-> node[n]] /\ corrupt = {}
  BY DEF Init
<1> QED
  BY <1>1, <1>2, <1>3 DEF LedgerInv, DriftOnlyOfEndedEmpty

\* Every command keeps the ledger in step.
LEMMA LedgerNextInv == LedgerInv /\ [Next]_vars => LedgerInv'
<1> SUFFICES ASSUME LedgerInv, [Next]_vars PROVE LedgerInv'
  OBVIOUS
<1>rows. RowsInv'
  BY LedgerRowsStep, RowsNextInv DEF LedgerInv
<1>typed. /\ row \in [Work -> Row] /\ attempts \in [Work -> Seq(AttemptRecords)]
          /\ issued \subseteq Claims /\ Past \subseteq Instants
          /\ \A w \in Work : /\ RowOK(row[w]) /\ HistoryOK(row[w], attempts[w])
                             /\ NodeOf[w] \in Nodes
          /\ \A n \in Nodes : NodeOK(n, row, attempts, node[n])
          /\ node = [n \in Nodes |-> node[n]]
  BY NodeAssumption, LedgerAssumption DEF LedgerInv, RowsInv, RowsTypeOK, Past
<1>typed2. row' \in [Work -> Row] /\ attempts' \in [Work -> Seq(AttemptRecords)]
  BY <1>rows DEF RowsInv, RowsTypeOK
<1>kept. ASSUME Keep, attempts' = attempts,
                \A w \in Work : row'[w].state = row[w].state /\ row'[w].started = row[w].started
         PROVE  LedgerInv'
  <2>1. node' = node /\ corrupt' = {}
    BY <1>kept DEF Keep
  <2>2. ASSUME NEW n \in Nodes PROVE NodeOK(n, row', attempts', node[n])
    BY <1>kept, <1>typed, <1>typed2, NodeKept
  <2> QED
    BY <1>rows, <1>typed, <2>1, <2>2 DEF LedgerInv, DriftOnlyOfEndedEmpty
<1>1. ASSUME NEW target \in RunStates, NEW t \in Past, TransitionRun(target, t), Keep
      PROVE  LedgerInv'
  BY <1>1, <1>kept DEF TransitionRun
<1>2. ASSUME NEW n \in Nodes, NEW t \in Past, FinalizeEmpty(n, t)
      PROVE  LedgerInv'
  <2> DEFINE s == Snapshot(n, row, attempts)
             d2 == [status |-> "succeeded", work |-> s.work, started |-> t, finished |-> t]
             allowed == s.work.total = 0 /\ node[n].status = "pending"
  <2>1. /\ row' = row /\ attempts' = attempts
        /\ UpdateNode(n, s, s.work, allowed, "succeeded", t, t)
    BY <1>2 DEF FinalizeEmpty, rows
  <2>2. s.work = Metrics(n, row, attempts)
    BY SnapshotIs
  <2>3. /\ NodeOK(n, row, attempts, node[n]) /\ node[n].work = s.work
        /\ StartsOf(n, row, attempts) \subseteq Instants
    BY <1>typed, <2>2, InstantsTyped DEF NodeOK
  <2>4. CASE WorksOf(n, row) # {}
    <3>1. s.work.total # 0
      <4>1. IsFiniteSet(WorksOf(n, row))
        BY FS_Subset, NodeAssumption, LedgerAssumption DEF WorksOf
      <4>2. Cardinality(WorksOf(n, row)) # 0
        BY <2>4, <4>1, FS_EmptySet
      <4> QED
        BY <2>2, <4>2 DEF Metrics
    <3>2. s.earliest # None => node[n].started = s.earliest
      BY <2>3, StartIsEarliest
    <3>3. node[n].status = StatusFor(s.work, node[n].started # None)
      BY <2>3, <2>4 DEF NodeOK
    <3> HIDE DEF s
    <3>4. ValidPrior(n, s.work, s.earliest)
      BY <2>3, <3>2, <3>3 DEF ValidPrior
    <3> QED
      BY <2>1, <3>1, <3>4 DEF UpdateNode
  <2>5. CASE WorksOf(n, row) = {}
    <3>1. /\ StartsOf(n, row, attempts) = {} /\ FinishesOf(n, row, attempts) = {}
          /\ \A started \in BOOLEAN : StatusFor(s.work, started) = "pending"
      BY <2>2, <2>5, EmptyNode
    <3>2. s.earliest = None
      BY <3>1, SnapshotIs
    <3> HIDE DEF s
    <3>3. CASE node[n].status = "pending"
      <4>1. node[n].started = None
        BY <2>3, <2>5, <3>3 DEF NodeOK
      <4>2. Prior(node[n], s.work, s.earliest)
        BY <2>3, <3>1, <3>2, <3>3, <4>1 DEF Prior
      <4>3. t \in Instants /\ t # None /\ t \in Times
        BY <1>typed, RowsAssumption DEF Instants, None, Times
      <4>4. NodeOK(n, row', attempts', d2)
        BY <2>1, <2>2, <2>5, <3>1, <4>3 DEF NodeOK
      <4>5. t <= t
        BY <4>3, RowsAssumption DEF Instants
      <4> HIDE DEF allowed
      <4> QED
        BY <1>rows, <2>1, <4>2, <4>4, <4>5, NodeStep
    <3>4. CASE node[n].status # "pending"
      <4>1. node[n].status = "succeeded"
        BY <2>3, <2>5, <3>4 DEF NodeOK
      <4>2. ~ValidPrior(n, s.work, s.earliest)
        BY <3>1, <4>1 DEF ValidPrior
      <4>3. corrupt' = {n} /\ node' = node
        BY <2>1, <4>2 DEF UpdateNode
      <4>4. DriftOnlyOfEndedEmpty'
        BY <2>1, <2>5, <4>1, <4>3 DEF DriftOnlyOfEndedEmpty, WorksOf
      <4> QED
        BY <1>rows, <1>typed, <2>1, <4>3, <4>4 DEF LedgerInv
    <3> QED
      BY <3>3, <3>4
  <2> QED
    BY <2>4, <2>5
<1>3. ASSUME NEW w \in Work, NEW t \in Past, BootstrapWork(w, t)
      PROVE  LedgerInv'
  <2> DEFINE n == NodeOf[w]
             q == [Absent EXCEPT !.state = "pending", !.version = 1, !.updated = t]
             s == Snapshot(n, row', attempts')
             d == node[n]
             d2 == [status |-> d.status, work |-> s.work, started |-> d.started,
                    finished |-> None]
  <2>1. /\ row[w].state = "absent" /\ row' = [row EXCEPT ![w] = q] /\ attempts' = attempts
        /\ d.status \in {"pending", "running"}
        /\ UpdateNode(n, s, UndoRegistration(s.work), TRUE, d.status, d.started, None)
    BY <1>3 DEF BootstrapWork, Create, RegisterWork
  <2>2. q.state = "pending" /\ n \in Nodes /\ NodeOK(n, row, attempts, d)
    BY <1>typed DEF Absent
  <2> HIDE DEF q
  <2>3. Prior(d, UndoRegistration(s.work), s.earliest) /\ NodeOK(n, row', attempts', d2)
    BY <1>typed, <2>1, <2>2, NodeRegistered
  <2>4. \A v \in Work : NodeOf[v] # n => row'[v] = row[v] /\ attempts'[v] = attempts[v]
    BY <1>typed, <2>1
  <2>5. d.status \notin TerminalStatuses
    BY <2>1 DEF TerminalStatuses
  <2> HIDE DEF n, s
  <2> QED
    BY <1>rows, <2>1, <2>2, <2>3, <2>4, <2>5, NodeStep
<1>4. ASSUME NEW w \in Work, NEW t \in Past, NEW expires \in Instants, ClaimWork(w, t, expires)
      PROVE  LedgerInv'
  <2> DEFINE n == NodeOf[w]
             q == Claimed(row[w], t, expires)
             s == Snapshot(n, row', attempts')
             d == node[n]
             start == IF d.started = None THEN t ELSE d.started
             d2 == [status |-> "running", work |-> s.work, started |-> start,
                    finished |-> None]
  <2>1. /\ row[w].state \in Waiting /\ row' = [row EXCEPT ![w] = q] /\ attempts' = attempts
        /\ d.started = None \/ t >= d.started
        /\ UpdateNode(n, s, UndoClaim(s.work), TRUE, "running", start, None)
    BY <1>4 DEF ClaimWork, Claim, ApplyClaim, Waiting
  <2>2. /\ q.state = "running" /\ q.started = t /\ t \in Instants
        /\ n \in Nodes /\ NodeOK(n, row, attempts, d)
    BY <1>typed DEF Claimed, Row
  <2> HIDE DEF q
  <2>3. Prior(d, UndoClaim(s.work), s.earliest) /\ NodeOK(n, row', attempts', d2)
    BY <1>typed, <2>1, <2>2, NodeClaimed
  <2>4. \A v \in Work : NodeOf[v] # n => row'[v] = row[v] /\ attempts'[v] = attempts[v]
    BY <1>typed, <2>1
  <2>5. "running" \notin TerminalStatuses
    BY DEF TerminalStatuses
  <2> HIDE DEF n, s, start
  <2> QED
    BY <1>rows, <2>1, <2>2, <2>3, <2>4, <2>5, NodeStep
<1>5. ASSUME NEW w \in Work, NEW t \in Past, NEW retryAt \in Instants,
             RecoverExpiredWork(w, t, retryAt)
      PROVE  LedgerInv'
  <2> DEFINE q == Ended(row[w], "retry_wait", t, retryAt)
             e == AttemptOf(row[w], "lease_expired", t, retryAt)
  <2>1. /\ row[w].state = "running" /\ row[w].expires <= t /\ row[w].version < MaxInteger
        /\ row' = WithRow(row, w, q) /\ attempts' = WithAttempt(attempts, w, e)
        /\ ApplyRecovery(NodeOf[w], w)
    BY <1>5 DEF RecoverExpiredWork, RecoverExpiredClaim, Record, WithRow, WithAttempt
  <2>2. /\ row[w] \in Row /\ RowOK(row[w]) /\ t \in Instants
        /\ attempts[w] \in Seq(AttemptRecords) /\ HistoryOK(row[w], attempts[w])
    BY <1>typed
  <2>3. /\ row[w].started \in Int /\ row[w].updated \in Int /\ row[w].expires \in Int /\ t \in Int
        /\ row[w].started <= row[w].updated /\ row[w].updated < row[w].expires
    BY <2>1, <2>2, RowsAssumption DEF RowOK, Row, Times, Instants, None
  <2>4. t >= row[w].updated /\ row[w].started <= t
    BY <2>1, <2>3
  <2>5. e \in AttemptRecords
    BY <2>1, <2>2, <2>4, EndedOK DEF Times
  <2>6. e.started = row[w].started /\ e.finished = t /\ q.state = "retry_wait"
    BY <2>2 DEF AttemptOf, Ended, Row
  <2>7. q.state \in EndStates
    BY <2>6 DEF EndStates
  <2> HIDE DEF q, e
  <2> QED
    BY <1>rows, <2>1, <2>4, <2>5, <2>6, <2>7, EndStep
<1>held. ASSUME NEW c \in issued, NEW t \in Past, RequireClaim(c, t)
         PROVE  /\ c.work \in Work /\ row[c.work].state = "running"
                /\ row[c.work] \in Row /\ RowOK(row[c.work])
                /\ attempts[c.work] \in Seq(AttemptRecords)
                /\ HistoryOK(row[c.work], attempts[c.work])
                /\ row[c.work].version < MaxInteger /\ t \in Instants
                /\ t >= row[c.work].updated /\ row[c.work].started <= t
  <2>1. c.work \in Work /\ t \in Instants
    BY <1>typed DEF Claims
  <2>2. row[c.work].state = "running" /\ t >= row[c.work].updated /\ row[c.work].version < MaxInteger
    BY <1>held DEF RequireClaim, Holds
  <2>3. /\ row[c.work] \in Row /\ RowOK(row[c.work]) /\ attempts[c.work] \in Seq(AttemptRecords)
        /\ HistoryOK(row[c.work], attempts[c.work])
    BY <1>typed, <2>1
  <2>4. /\ row[c.work].started \in Int /\ row[c.work].updated \in Int /\ t \in Int
        /\ row[c.work].started <= row[c.work].updated
    BY <2>1, <2>2, <2>3, RowsAssumption DEF RowOK, Row, Times, Instants, None
  <2> QED
    BY <2>1, <2>2, <2>3, <2>4
<1>6. ASSUME NEW c \in issued, NEW t \in Past, NEW expires \in Instants,
             RenewWorkClaim(c, t, expires)
      PROVE  LedgerInv'
  <2>1. /\ Keep /\ attempts' = attempts /\ c.work \in Work
        /\ row' = [row EXCEPT ![c.work] = Renewed(@, t, expires)]
    BY <1>6, <1>typed DEF RenewWorkClaim, RenewClaim, Claims
  <2>2. ASSUME NEW w \in Work
        PROVE  row'[w].state = row[w].state /\ row'[w].started = row[w].started
    <3>1. row[w] \in Row
      BY <1>typed
    <3>2. CASE w = c.work
      BY <1>typed, <2>1, <3>1, <3>2 DEF Renewed, Row
    <3>3. CASE w # c.work
      BY <1>typed, <2>1, <3>3
    <3> QED
      BY <3>2, <3>3
  <2> QED
    BY <1>kept, <2>1, <2>2
<1>7. ASSUME NEW c \in issued, NEW t \in Past, NEW target \in RowStates, NEW retryAt \in Times,
             CommitWorkAttempt(c, t, target, retryAt)
      PROVE  LedgerInv'
  <2> DEFINE w == c.work
             q == Ended(row[w], target, t, retryAt)
             e == AttemptOf(row[w], target, t, retryAt)
  <2>1. /\ RequireClaim(c, t) /\ target \in {"retry_wait", "quarantined", "failed", "cancelled"}
        /\ row' = WithRow(row, w, q) /\ attempts' = WithAttempt(attempts, w, e)
        /\ ApplyCompletion(NodeOf[w], w)
    BY <1>7 DEF CommitWorkAttempt, CompleteClaim, Record, WithRow, WithAttempt
  <2>2. /\ w \in Work /\ row[w].state = "running"
        /\ row[w] \in Row /\ RowOK(row[w])
        /\ attempts[w] \in Seq(AttemptRecords) /\ HistoryOK(row[w], attempts[w])
        /\ row[w].version < MaxInteger /\ t \in Instants
        /\ t >= row[w].updated /\ row[w].started <= t
    BY <1>held, <2>1
  <2>3. target \in TerminalTargets \cup {"retry_wait"}
        /\ target \in TerminalTargets \cup {"retry_wait", "lease_expired"}
    BY <2>1 DEF TerminalTargets
  <2>4. e \in AttemptRecords
    BY <2>2, <2>3, EndedOK
  <2>5. e.started = row[w].started /\ e.finished = t /\ q.state = target
    BY <2>2 DEF AttemptOf, Ended, Row
  <2>6. q.state \in EndStates
    BY <2>3, <2>5 DEF EndStates
  <2> HIDE DEF w, q, e
  <2> QED
    BY <1>rows, <2>1, <2>2, <2>4, <2>5, <2>6, EndStep
<1>8. ASSUME NEW c \in issued, NEW t \in Past, NEW committed \in Past,
             CommitWorkWithCheckpoint(c, t, committed)
      PROVE  LedgerInv'
  <2> DEFINE w == c.work
             q == Checkpointed(Ended(row[w], "succeeded", t, None), committed)
             e == AttemptOf(row[w], "succeeded", t, None)
  <2>1. /\ RequireClaim(c, t)
        /\ row' = WithRow(row, w, q) /\ attempts' = WithAttempt(attempts, w, e)
        /\ ApplyCompletion(NodeOf[w], w)
    BY <1>8 DEF CommitWorkWithCheckpoint, CompleteWithCheckpoint, Record, WithRow, WithAttempt
  <2>2. /\ w \in Work /\ row[w].state = "running"
        /\ row[w] \in Row /\ RowOK(row[w])
        /\ attempts[w] \in Seq(AttemptRecords) /\ HistoryOK(row[w], attempts[w])
        /\ row[w].version < MaxInteger /\ t \in Instants
        /\ t >= row[w].updated /\ row[w].started <= t
    BY <1>held, <2>1
  <2>3. "succeeded" \in TerminalTargets \cup {"retry_wait"} /\ None \in Times
        /\ "succeeded" \in TerminalTargets \cup {"retry_wait", "lease_expired"}
    BY DEF TerminalTargets, Times
  <2>4. e \in AttemptRecords
    BY <2>2, <2>3, EndedOK
  <2>5. e.started = row[w].started /\ e.finished = t /\ q.state = "succeeded"
    BY <2>2 DEF AttemptOf, Ended, Row, Checkpointed
  <2>6. q.state \in EndStates
    BY <2>3, <2>5 DEF EndStates
  <2> HIDE DEF w, q, e
  <2> QED
    BY <1>rows, <2>1, <2>2, <2>4, <2>5, <2>6, EndStep
<1>9. CASE Tick /\ Keep
  BY <1>9, <1>kept DEF Tick, rows
<1>10. CASE UNCHANGED vars
  <2>1. node' = node /\ corrupt' = corrupt /\ row' = row /\ attempts' = attempts
    BY <1>10 DEF vars, rows
  <2>2. DriftOnlyOfEndedEmpty'
    BY <2>1 DEF LedgerInv, DriftOnlyOfEndedEmpty, WorksOf
  <2> QED
    BY <1>rows, <1>typed, <2>1, <2>2 DEF LedgerInv
<1> QED
  BY <1>1, <1>2, <1>3, <1>4, <1>5, <1>6, <1>7, <1>8, <1>9, <1>10 DEF Next

\* The ledger stays in step, from which the theorems below follow.
THEOREM LedgerInvariant == Spec => []LedgerInv
<1> QED
  BY LedgerInitInv, LedgerNextInv, PTL DEF Spec

\* The node aggregates never drift from the rows: whatever stale instants and claims a
\* command is built on, the repository takes no node for corrupt but one that a repeated
\* finalization finds ended without work (run_node_aggregates.py, finalize_empty).
THEOREM DriftReportedOnlyOfEndedEmpty == Spec => []DriftOnlyOfEndedEmpty
<1>1. LedgerInv => DriftOnlyOfEndedEmpty
  BY DEF LedgerInv
<1> QED
  BY <1>1, LedgerInvariant, PTL

\* A node starts no later than any attempt of its work, ends no earlier than the last
\* of them, and never before all of it has ended.
THEOREM NodesSpanTheirWork == Spec => []NodeSpansWork
<1>1. LedgerInv => NodeSpansWork
  <2> SUFFICES ASSUME LedgerInv, NEW w \in Work
               PROVE  LET n == node[NodeOf[w]] IN
                        /\ \A i \in DOMAIN attempts[w] :
                              /\ n.started # None /\ n.started <= attempts[w][i].started
                              /\ n.status \in TerminalStatuses =>
                                    attempts[w][i].finished <= n.finished
                        /\ n.status \in TerminalStatuses =>
                              row[w].state \in TerminalTargets \cup {"absent"}
    BY DEF NodeSpansWork
  <2> DEFINE m == NodeOf[w]
             d == node[m]
  <2>1. /\ NodeOK(m, row, attempts, d) /\ row[w] \in Row /\ RowOK(row[w])
        /\ HistoryOK(row[w], attempts[w]) /\ attempts[w] \in Seq(AttemptRecords)
        /\ row \in [Work -> Row]
    BY NodeAssumption, LedgerAssumption DEF LedgerInv, RowsInv, RowsTypeOK
  <2>2. CASE row[w].state = "absent"
    <3>1. Len(attempts[w]) = 0
      BY <2>1, <2>2 DEF RowOK, HistoryOK
    <3>2. DOMAIN attempts[w] = {}
      BY <2>1, <3>1, LenProperties
    <3> QED
      BY <2>2, <3>2
  <2>3. CASE row[w].state # "absent"
    <3>1. w \in WorksOf(m, row)
      BY <2>3 DEF WorksOf
    <3>2. /\ d.status = StatusFor(Metrics(m, row, attempts), d.started # None)
          /\ d.started = None <=> StartsOf(m, row, attempts) = {}
          /\ \A s \in StartsOf(m, row, attempts) : d.started <= s
          /\ d.status \in TerminalStatuses => \A f \in FinishesOf(m, row, attempts) : f <= d.finished
      BY <2>1, <3>1 DEF NodeOK
    <3>3. ASSUME NEW i \in DOMAIN attempts[w]
          PROVE  /\ attempts[w][i].started \in StartsOf(m, row, attempts)
                 /\ attempts[w][i].finished \in FinishesOf(m, row, attempts)
      BY <3>1, InstantsOf
    <3>4. ASSUME d.status \in TerminalStatuses PROVE row[w].state \in TerminalTargets
      <4>1. ~Active(m, row)
        <5> DEFINE st == d.started # None
        <5>1. WorksOf(m, row) # {} /\ st \in BOOLEAN
          BY <3>1
        <5>2. d.status = StatusFor(Metrics(m, row, attempts), st)
          BY <3>2
        <5> HIDE DEF st, d, m
        <5>3. Active(m, row) => d.status = IF st THEN "running" ELSE "pending"
          BY <5>1, <5>2, StatusIs
        <5> QED
          BY <3>4, <5>3 DEF TerminalStatuses
      <4>2. Bucket(row[w].state) \notin {"pending", "running"}
        BY <3>1, <4>1 DEF Active
      <4> QED
        BY <2>1, <2>3, <4>2 DEF Bucket, Row, RowStates
    <3> HIDE DEF d, m
    <3> QED
      BY <3>2, <3>3, <3>4 DEF d, m
  <2> QED
    BY <2>2, <2>3
<1> QED
  BY <1>1, LedgerInvariant, PTL

\* The ledger implements the work rows: with the aggregates hidden, its commands are
\* the mutations of WorkRows, so that what is proved of the rows holds of the ledger.
THEOREM LedgerKeepsRows == Spec => RowsSpec
<1>1. Init => RowsInit
  BY DEF Init
<1> QED
  BY <1>1, LedgerRowsStep, PTL DEF Spec, RowsSpec

\* Attempts of one work item follow each other in time in the ledger.
THEOREM LedgerAttemptsDisjoint == Spec => []AttemptsDisjoint
<1> QED
  BY LedgerKeepsRows, HistoryDisjoint, PTL

\* The ledger takes no work item from a holder before its lease has run out.
THEOREM LedgerLeasesHonoured == Spec => []LeaseHonoured
<1> QED
  BY LedgerKeepsRows, LeasesHonoured, PTL

(***************************************************************************)
(* Recovery of a concurrent run.                                           *)
(***************************************************************************)
\* Only a row that waits for its retry says when.
RetryOK == \A w \in Work : row[w].state # "retry_wait" => row[w].retryAt = None

\* Work that is running once its leases were classified is still to be resolved, or its lease
\* outlives the scan and the caller chose to wait for it.
Excused(w) ==
    \/ phase = "resolving" /\ w \in todo
    \/ policy = "wait_for_expiry" /\ row[w].expires > scanned

RecoveryInv ==
    /\ RowsInv /\ RetryOK
    /\ phase \in {"resolving", "done"} => \A w \in Work : row[w].state = "running" => Excused(w)
    /\ phase = "done" => frontier = Rebuilt(row)

\* Commands keep it that only waiting rows have a retry instant.
LEMMA RetryStep == RowsInv /\ RetryOK /\ [RowsNext]_<<rows, now>> => RetryOK'
<1> SUFFICES ASSUME RowsInv, RetryOK, [RowsNext]_<<rows, now>> PROVE RetryOK'
  OBVIOUS
<1>typed. row \in [Work -> Row] /\ \A c \in issued : c.work \in Work
  BY DEF RowsInv, RowsTypeOK, Claims
<1>fields. \A w \in Work : DOMAIN row[w] = {"state", "version", "completed", "checkpoint", "retryAt",
                                            "attempt", "started", "expires", "updated"}
  BY <1>typed DEF Row
<1>1. ASSUME UNCHANGED row PROVE RetryOK'
  BY <1>1 DEF RetryOK
<1>2. ASSUME NEW w \in Work, NEW r, row' = [row EXCEPT ![w] = r], r.state # "retry_wait" => r.retryAt = None
      PROVE  RetryOK'
  BY <1>typed, <1>2 DEF RetryOK
<1>3. ASSUME NEW w \in Work, NEW t,
             Create(w, t) \/ (\E expires \in Instants : Claim(w, t, expires))
               \/ \E retryAt \in Instants : RecoverExpiredClaim(w, t, retryAt)
      PROVE  RetryOK'
  <2>1. CASE Create(w, t)
    <3> DEFINE r == [Absent EXCEPT !.state = "pending", !.version = 1, !.updated = t]
    <3>1. row' = [row EXCEPT ![w] = r] /\ r.retryAt = None
      BY <2>1 DEF Create, Absent
    <3> QED
      BY <1>2, <3>1
  <2>2. ASSUME NEW expires \in Instants, Claim(w, t, expires) PROVE RetryOK'
    <3> DEFINE r == Claimed(row[w], t, expires)
    <3>1. row' = [row EXCEPT ![w] = r] /\ r.retryAt = None
      BY <1>fields, <2>2 DEF Claim, Claimed
    <3> QED
      BY <1>2, <3>1
  <2>3. ASSUME NEW retryAt \in Instants, RecoverExpiredClaim(w, t, retryAt) PROVE RetryOK'
    <3> DEFINE r == Ended(row[w], "retry_wait", t, retryAt)
    <3>1. row' = [row EXCEPT ![w] = r] /\ r.state = "retry_wait"
      BY <1>fields, <2>3 DEF RecoverExpiredClaim, Ended
    <3> QED
      BY <1>2, <3>1
  <2> QED
    BY <1>3, <2>1, <2>2, <2>3
<1>4. ASSUME NEW c \in issued, NEW t, NEW expires, RenewClaim(c, t, expires) PROVE RetryOK'
  <2> DEFINE r == Renewed(row[c.work], t, expires)
  <2>1. row[c.work].state = "running" /\ row[c.work].retryAt = None
    BY <1>typed, <1>4 DEF RenewClaim, RequireClaim, Holds, RetryOK
  <2>2. row' = [row EXCEPT ![c.work] = r] /\ r.retryAt = None
    BY <1>typed, <1>fields, <1>4, <2>1 DEF RenewClaim, Renewed
  <2> QED
    BY <1>typed, <1>2, <2>2
<1>5. ASSUME NEW c \in issued, NEW t, NEW target, NEW retryAt, CompleteClaim(c, t, target, retryAt)
      PROVE  RetryOK'
  <2> DEFINE r == Ended(row[c.work], target, t, retryAt)
  <2>1. row' = [row EXCEPT ![c.work] = r] /\ r.state = target /\ r.retryAt = retryAt
    BY <1>typed, <1>fields, <1>5 DEF CompleteClaim, Ended
  <2>2. target # "retry_wait" => retryAt = None
    BY <1>5 DEF CompleteClaim
  <2> QED
    BY <1>typed, <1>2, <2>1, <2>2
<1>6. ASSUME NEW c \in issued, NEW t, NEW committed, CompleteWithCheckpoint(c, t, committed)
      PROVE  RetryOK'
  <2> DEFINE r == Checkpointed(Ended(row[c.work], "succeeded", t, None), committed)
  <2>1. row' = [row EXCEPT ![c.work] = r] /\ r.retryAt = None
    BY <1>typed, <1>fields, <1>6 DEF CompleteWithCheckpoint, Checkpointed, Ended
  <2> QED
    BY <1>typed, <1>2, <2>1
<1>7. ASSUME (\E target \in RunStates, t \in Past : TransitionRun(target, t)) \/ Tick \/ UNCHANGED <<rows, now>>
      PROVE  RetryOK'
  BY <1>1, <1>7 DEF TransitionRun, Tick, rows
<1> QED
  BY <1>3, <1>4, <1>5, <1>6, <1>7 DEF RowsNext

\* Whatever the engine and the recovery do to the rows, the repositories' commands do.
LEMMA RecoveryRows == RowsInv /\ [RecoveryNext]_recoveryVars => [RowsNext]_<<rows, now>>
<1> SUFFICES ASSUME RowsInv, RecoveryNext PROVE [RowsNext]_<<rows, now>>
  BY DEF recoveryVars
<1>1. now \in Past
  BY DEF RowsInv, RowsTypeOK, Past, Instants
<1>2. CASE Live
  <2>1. LiveStep
    BY <1>2 DEF Live
  <2> QED
    BY <2>1 DEF LiveStep, RowsNext
<1>3. ASSUME NEW w \in Work, NEW retryAt \in Instants, ResolveExpired(w, retryAt) PROVE RowsNext
  BY <1>1, <1>3 DEF ResolveExpired, RowsNext
<1>4. CASE Stop \/ (\E p \in Policies : Scan(p)) \/ Rebuild
  BY <1>4 DEF Stop, Scan, Rebuild
<1>5. CASE Tick
  BY <1>5 DEF RowsNext
<1> QED
  BY <1>2, <1>3, <1>4, <1>5 DEF RecoveryNext

\* The bootstrapped rows satisfy the invariant.
LEMMA RecoveryInitInv == RecoveryInit => RecoveryInv
<1> SUFFICES ASSUME RecoveryInit PROVE RecoveryInv
  OBVIOUS
<1> DEFINE r == [Absent EXCEPT !.state = "pending", !.version = 1, !.updated = 0]
<1>1. /\ row = [w \in Work |-> r] /\ attempts = [w \in Work |-> <<>>] /\ issued = {} /\ now = 0
      /\ run = [state |-> "running", since |-> 0] /\ phase = "live"
  BY DEF RecoveryInit
<1>2. 0 \in Instants /\ 1 \in Versions
  BY RowsAssumption DEF Instants, Versions
<1>3. Absent \in Row
  BY RowsAssumption DEF Absent, Row, RowStates, Versions, Times, Instants, None
<1>4. r \in Row /\ r.state = "pending"
  BY <1>3, <1>2 DEF Row, RowStates, Times
<1>5. r.retryAt = None /\ r.completed = 0 /\ r.checkpoint = 0 /\ r.updated = 0
  BY DEF Absent
<1> HIDE DEF r
<1>6. RowsTypeOK
  BY <1>1, <1>2, <1>4 DEF RowsTypeOK, RunStates, RunTransitions
<1>7. RowOK(r) /\ HistoryOK(r, <<>>)
  BY <1>2, <1>4, <1>5 DEF RowOK, HistoryOK
<1> QED
  BY <1>1, <1>4, <1>6, <1>7, <1>5 DEF RecoveryInv, RowsInv, RetryOK

\* Every step keeps it.
LEMMA RecoveryNextInv == RecoveryInv /\ [RecoveryNext]_recoveryVars => RecoveryInv'
<1> SUFFICES ASSUME RecoveryInv, [RecoveryNext]_recoveryVars PROVE RecoveryInv'
  OBVIOUS
<1>1. RowsInv' /\ RetryOK'
  BY RecoveryRows, RowsNextInv, RetryStep DEF RecoveryInv
<1>2. CASE Live \/ Stop
  BY <1>1, <1>2 DEF Live, Stop, recovery, RecoveryInv
<1>3. ASSUME NEW p \in Policies, Scan(p) PROVE RecoveryInv'
  <2>1. /\ phase' = "resolving" /\ policy' = p /\ scanned' = now /\ todo' = Expired(row, now)
        /\ row' = row /\ now \in Int
        /\ p = "remain_recovery_required" => NonExpired(row, now) = {}
    BY <1>3, RowsAssumption DEF Scan, rows, RecoveryInv, RowsInv, RowsTypeOK, Instants
  <2>2. ASSUME NEW w \in Work, row[w].state = "running" PROVE Excused(w)'
    <3>1. row[w].expires \in Int
      BY <2>2, RowsAssumption DEF RecoveryInv, RowsInv, RowOK, Instants
    <3>2. CASE row[w].expires <= now
      BY <2>1, <2>2, <3>2 DEF Expired, Excused
    <3>3. CASE row[w].expires > now
      BY <2>1, <2>2, <3>3, RecoveryAssumption DEF NonExpired, Excused
    <3> QED
      BY <2>1, <3>1, <3>2, <3>3
  <2> QED
    BY <1>1, <2>1, <2>2 DEF RecoveryInv
<1>4. ASSUME NEW w \in Work, NEW retryAt \in Instants, ResolveExpired(w, retryAt) PROVE RecoveryInv'
  <2>1. /\ phase = "resolving" /\ phase' = phase /\ policy' = policy /\ scanned' = scanned
        /\ todo' = todo \ {w} /\ row' = [row EXCEPT ![w] = Ended(@, "retry_wait", now, retryAt)]
    BY <1>4 DEF ResolveExpired, RecoverExpiredClaim
  <2>2. /\ row'[w].state = "retry_wait"
        /\ \A v \in Work \ {w} : row'[v] = row[v]
    BY <2>1 DEF RecoveryInv, RowsInv, RowsTypeOK, Row, Ended
  <2>3. ASSUME NEW v \in Work, row'[v].state = "running" PROVE Excused(v)'
    BY <2>1, <2>2, <2>3 DEF RecoveryInv, Excused
  <2> QED
    BY <1>1, <2>1, <2>3 DEF RecoveryInv
<1>5. CASE Rebuild
  <2>1. /\ phase = "resolving" /\ todo = {} /\ frontier' = Rebuilt(row) /\ phase' \in {"done", "corrupt"}
        /\ row' = row /\ run' = run /\ policy' = policy /\ scanned' = scanned
    BY <1>5 DEF Rebuild, rows
  <2>2. Rebuilt(row)' = Rebuilt(row)
    BY <2>1 DEF Rebuilt
  <2>3. \A v \in Work : row[v].state = "running" => Excused(v)'
    BY <2>1 DEF RecoveryInv, Excused
  <2> QED
    BY <1>1, <2>1, <2>2, <2>3 DEF RecoveryInv
<1>6. CASE (Tick /\ UNCHANGED recovery) \/ UNCHANGED recoveryVars
  <2>1. /\ UNCHANGED recovery /\ row' = row /\ run' = run
    BY <1>6 DEF Tick, recoveryVars, rows
  <2>2. Rebuilt(row)' = Rebuilt(row) /\ \A v : Excused(v)' <=> Excused(v)
    BY <2>1 DEF Rebuilt, Excused, recovery
  <2> QED
    BY <1>1, <2>1, <2>2 DEF RecoveryInv, recovery
<1> QED
  BY <1>2, <1>3, <1>4, <1>5, <1>6 DEF RecoveryNext

\* The invariant holds through any interruptions and repetitions of the recovery.
THEOREM RecoveryInvariant == RecoverySpec => []RecoveryInv
  BY RecoveryInitInv, RecoveryNextInv, PTL DEF RecoverySpec

\* After a recovery only work with a lease that was live at the scan is in flight, in the rows and
\* in the frontier, and only if the caller chose to wait for it.
THEOREM OnlyLiveLeases == RecoverySpec => []OnlyLiveLeasesInFlight
<1>1. RecoveryInv => OnlyLiveLeasesInFlight
  <2> SUFFICES ASSUME RecoveryInv, phase = "done", NEW w \in Work,
                      row[w].state = "running" \/ frontier.state[w] \in View!InFlightStates
               PROVE  /\ row[w].state = "running" /\ frontier.state[w] = "admitted"
                      /\ policy = "wait_for_expiry" /\ row[w].expires > scanned
    BY DEF OnlyLiveLeasesInFlight
  <2>1. frontier.state[w] = WorkStateMap(row[w].state)
    BY DEF RecoveryInv, Rebuilt
  <2>2. row[w].state \in RowStates
    BY DEF RecoveryInv, RowsInv, RowsTypeOK, Row
  <2>3. row[w].state = "running" /\ frontier.state[w] = "admitted"
    BY <2>1, <2>2 DEF WorkStateMap, RowStates, TerminalTargets, View!InFlightStates
  <2> QED
    BY <2>3 DEF RecoveryInv, Excused
<1> QED
  BY <1>1, RecoveryInvariant, PTL

\* The frontier that recovery built tells what the rows tell after its commands.
THEOREM FrontierAsRows == RecoverySpec => []FrontierTellsRows
<1>1. RecoveryInv => FrontierTellsRows
  <2> SUFFICES ASSUME RecoveryInv, phase = "done" PROVE FrontierTellsRows
    BY DEF FrontierTellsRows
  <2>1. /\ \A w \in Work : /\ frontier.state[w] = WorkStateMap(row[w].state)
                           /\ frontier.retryAt[w] =
                                 IF row[w].state = "retry_wait" THEN row[w].retryAt ELSE None
        /\ run.state \in {"paused", "cancelling"} => frontier.control = run.state
    BY DEF RecoveryInv, Rebuilt
  <2>2. \A w \in Work : row[w].state \in RowStates /\ (row[w].state # "retry_wait" => row[w].retryAt = None)
    BY DEF RecoveryInv, RowsInv, RowsTypeOK, Row, RetryOK
  <2> QED
    BY <2>1, <2>2 DEF FrontierTellsRows, WorkStateMap, RowStates, TerminalTargets
<1> QED
  BY <1>1, RecoveryInvariant, PTL

\* Interrupted and repeated recoveries keep the attempts disjoint, take work only from holders
\* whose leases have run out, and never touch ended work.
THEOREM RecoveryKeepsRows == RecoverySpec => [](AttemptsDisjoint /\ LeaseHonoured) /\ TerminalRowsFinal
<1>1. RecoveryInv /\ [RecoveryNext]_recoveryVars =>
         [\A w \in Work : row[w].state \in TerminalTargets => row'[w] = row[w]]_row
  BY RecoveryRows, TerminalStep DEF RecoveryInv
<1>2. RecoveryInv => AttemptsDisjoint /\ LeaseHonoured
  BY RowsDisjoint, RowsHonoured DEF RecoveryInv
<1> QED
  BY <1>1, <1>2, RecoveryInvariant, PTL DEF RecoverySpec, TerminalRowsFinal
=============================================================================
