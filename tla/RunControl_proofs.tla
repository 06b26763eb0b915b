------------------------- MODULE RunControl_proofs --------------------------
(***************************************************************************)
(* Proofs about the idempotency boundary, for any set of requests and keys *)
(* and any handler, and about the run controls behind it: they are such    *)
(* handlers, and a registry that closed without an error leaves no pass.   *)
(***************************************************************************)
EXTENDS RunControl, TLAPS

Rows == [status : {"absent", "in_progress", "completed", "failed"},
         body : {BodyOf[r] : r \in Requests} \cup {"none"},
         generation : Nat,
         response : [ok : BOOLEAN, by : Requests \cup {"none"}] \cup {"none"}]

\* The rows, the reservations and the outcomes have their types.
BoundaryType ==
    /\ record \in [Keys -> Rows]
    /\ DOMAIN place = Requests
    /\ reservation \in [Requests -> Nat]
    /\ converge \in [Requests -> BOOLEAN]
    /\ outcome \in [Requests -> [ok : BOOLEAN, by : Requests \cup {"none"}]]
    /\ DOMAIN answer = Requests

Keyed == {r \in Requests : KeyOf[r] # NoKey}

\* A response that was given for a key is the one its row keeps.
AnswersStored ==
    \A r \in Keyed :
       answer[r].kind = "response" =>
          /\ Row(r).status \in {"completed", "failed"}
          /\ answer[r] = Said(Row(r).response)

\* The handlers of a key hold different generations of its row, none of them newer
\* than the row.
LeasesOrdered ==
    /\ \A r \in Keyed \cap Handling :
          Row(r).status # "absent" /\ reservation[r] <= Row(r).generation
    /\ \A p, q \in Keyed \cap Handling :
          p # q /\ KeyOf[p] = KeyOf[q] => reservation[p] # reservation[q]

IInv == BoundaryType /\ AnswersStored /\ LeasesOrdered

USE DEF Row, Keyed

\* A request with a key has one of the keys.
LEMMA KeyedKey == ASSUME NEW r \in Keyed PROVE r \in Requests /\ KeyOf[r] \in Keys
  BY IdempotencyAssumption

\* Before the first request.
LEMMA InitInv == BoundaryInit => IInv
  BY KeyedKey DEF BoundaryInit, IInv, BoundaryType, AnswersStored, LeasesOrdered, Rows, NoRow,
     NoOutcome, Silent, Handling

\* What a step may do to the boundary, as far as the invariant is concerned: to
\* forget some requests, telling one of them something.
LEMMA ForgetHandling ==
    ASSUME BoundaryType, NEW rs \in SUBSET Requests, NEW p \in {"answered", "lost"},
           Forget(rs, p)
    PROVE  /\ DOMAIN place' = Requests
           /\ reservation' \in [Requests -> Nat]
           /\ converge' \in [Requests -> BOOLEAN]
           /\ outcome' \in [Requests -> [ok : BOOLEAN, by : Requests \cup {"none"}]]
           /\ Handling' \subseteq Handling
           /\ \A r \in Handling' : reservation'[r] = reservation[r]
  BY DEF Forget, BoundaryType, Handling, NoOutcome

\* A handler that ends leaves the others in order.
LEMMA ForgetLeases ==
    ASSUME IInv, NEW rs \in SUBSET Requests, NEW p \in {"answered", "lost"}, Forget(rs, p),
           UNCHANGED record
    PROVE  LeasesOrdered'
  BY ForgetHandling DEF IInv, LeasesOrdered, BoundaryType

\* A request gets the response that is stored.
LEMMA AnsweredInv ==
    ASSUME IInv, NEW r \in Requests, NEW a, Answered(r, a),
           r \in Keyed /\ a.kind = "response" =>
              Row(r).status \in {"completed", "failed"} /\ a = Said(Row(r).response)
    PROVE  IInv'
  <1>1. Forget({r}, "answered") /\ UNCHANGED record /\ answer' = [answer EXCEPT ![r] = a]
    BY DEF Answered, Tell
  <1>2. BoundaryType'
    BY <1>1, ForgetHandling DEF IInv, BoundaryType
  <1>3. AnswersStored'
    BY <1>1, <1>2, KeyedKey DEF IInv, AnswersStored, BoundaryType
  <1>4. LeasesOrdered'
    BY <1>1, ForgetLeases
  <1>5. QED
    BY <1>2, <1>3, <1>4 DEF IInv

\* What admission does to the rows: terminal rows stay, generations grow, and the
\* row of r is at the new generation g.
Grows(r, g) ==
    /\ record' \in [Keys -> Rows]
    /\ \A k \in Keys : record[k].status \in {"completed", "failed"} => record'[k] = record[k]
    /\ \A k \in Keys : record[k].status # "absent" =>
          record'[k].status # "absent" /\ record[k].generation <= record'[k].generation
    /\ r \in Keyed =>
          /\ record'[KeyOf[r]].status # "absent" /\ record'[KeyOf[r]].generation = g
          /\ record[KeyOf[r]].status = "absent" \/ record[KeyOf[r]].generation < g

\* A request reserves a key, or takes it over under a new generation, and is handled.
LEMMA HandleInv ==
    ASSUME IInv, NEW r \in Requests, NEW g \in Nat, NEW b \in BOOLEAN,
           place[r] = "unsent", Handle(r, g, b), Grows(r, g)
    PROVE  IInv'
  <1> USE DEF Grows
  <1>1. BoundaryType'
    BY DEF Handle, IInv, BoundaryType
  <1>2. AnswersStored'
    BY KeyedKey DEF Handle, IInv, AnswersStored
  <1>3. Handling' = Handling \cup {r} /\ r \notin Handling
    BY <1>1 DEF Handling, Handle, IInv, BoundaryType
  <1>4. \A q \in Requests : q # r => reservation'[q] = reservation[q]
    BY DEF Handle, IInv, BoundaryType
  <1>5. reservation'[r] = g
    BY DEF Handle, IInv, BoundaryType
  <1>6. \A q \in Keyed \cap Handling :
           record'[KeyOf[q]].status # "absent" /\ reservation[q] <= record'[KeyOf[q]].generation
    <2> SUFFICES ASSUME NEW q \in Keyed \cap Handling
                 PROVE  record'[KeyOf[q]].status # "absent"
                        /\ reservation[q] <= record'[KeyOf[q]].generation
      OBVIOUS
    <2>1. KeyOf[q] \in Keys
      BY KeyedKey
    <2>2. record[KeyOf[q]].status # "absent" /\ reservation[q] <= record[KeyOf[q]].generation
      BY DEF IInv, LeasesOrdered
    <2>3. /\ reservation[q] \in Nat /\ record[KeyOf[q]].generation \in Nat
          /\ record'[KeyOf[q]].generation \in Nat
      BY <2>1 DEF IInv, BoundaryType, Rows
    <2> QED
      BY <2>1, <2>2, <2>3
  <1>7. ASSUME r \in Keyed, NEW q \in Keyed \cap Handling, KeyOf[q] = KeyOf[r]
        PROVE  reservation[q] # g
    <2>1. KeyOf[q] \in Keys
      BY KeyedKey
    <2>2. record[KeyOf[q]].status # "absent" /\ reservation[q] <= record[KeyOf[q]].generation
      BY DEF IInv, LeasesOrdered
    <2>3. reservation[q] \in Nat /\ record[KeyOf[q]].generation \in Nat
      BY <2>1 DEF IInv, BoundaryType, Rows
    <2> QED
      BY <1>7, <2>2, <2>3
  <1>8. LeasesOrdered'
    <2>1. \A q \in Keyed \cap Handling' :
             record'[KeyOf[q]].status # "absent" /\ reservation'[q] <= record'[KeyOf[q]].generation
      BY <1>3, <1>4, <1>5, <1>6
    <2>2. ASSUME NEW p \in Keyed \cap Handling', NEW q \in Keyed \cap Handling',
                 p # q, KeyOf[p] = KeyOf[q]
          PROVE  reservation'[p] # reservation'[q]
      <3>1. CASE p # r /\ q # r
        BY <1>3, <1>4, <2>2, <3>1 DEF IInv, LeasesOrdered
      <3>2. CASE p = r \/ q = r
        BY <1>3, <1>4, <1>5, <1>7, <2>2, <3>2
      <3> QED
        BY <3>1, <3>2
    <2> QED
      BY <2>1, <2>2 DEF LeasesOrdered
  <1> QED
    BY <1>1, <1>2, <1>8 DEF IInv

\* A request arrives at the boundary.
LEMMA AdmitInv == ASSUME IInv, NEW r \in Requests, Admit(r) PROVE IInv'
  <1>1. CASE Unkeyed(r)
    <2>1. record' = record /\ r \notin Keyed
      BY <1>1 DEF Unkeyed
    <2>2. record \in [Keys -> Rows] /\ \A k \in Keys : record[k].generation \in Nat
      BY DEF IInv, BoundaryType, Rows
    <2>3. Grows(r, 0)
      BY <2>1, <2>2 DEF Grows
    <2>4. Handle(r, 0, FALSE) /\ place[r] = "unsent"
      BY <1>1 DEF Unkeyed
    <2> QED
      BY <2>3, <2>4, HandleInv
  <1>2. CASE Start(r)
    <2> DEFINE new == [status |-> "in_progress", body |-> BodyOf[r], generation |-> 1,
                       response |-> "none"]
    <2>1. KeyOf[r] \in Keys
      BY <1>2, KeyedKey DEF Start
    <2>2. new \in Rows
      BY DEF Rows
    <2>3. record' = [record EXCEPT ![KeyOf[r]] = new] /\ record[KeyOf[r]].status = "absent"
      BY <1>2 DEF Start
    <2>4. record' \in [Keys -> Rows]
      BY <2>1, <2>2, <2>3 DEF IInv, BoundaryType
    <2>5. \A k \in Keys : k # KeyOf[r] => record'[k] = record[k]
      BY <2>1, <2>3 DEF IInv, BoundaryType
    <2>6. record'[KeyOf[r]] = new
      BY <2>1, <2>3 DEF IInv, BoundaryType
    <2>7. \A k \in Keys : record[k].generation \in Nat
      BY DEF IInv, BoundaryType, Rows
    <2>8. Handle(r, 1, FALSE) /\ place[r] = "unsent"
      BY <1>2 DEF Start
    <2>9. Grows(r, 1)
      BY <2>1, <2>3, <2>4, <2>5, <2>6, <2>7 DEF Grows
    <2> QED
      BY <2>8, <2>9, HandleInv
  <1>3. CASE Reclaim(r)
    <2>1. KeyOf[r] \in Keys
      BY <1>3, KeyedKey DEF Reclaim
    <2>2. /\ record' = [record EXCEPT ![KeyOf[r]].generation = @ + 1]
          /\ record[KeyOf[r]].status = "in_progress"
      BY <1>3 DEF Reclaim, TakeOver
    <2>3. /\ record[KeyOf[r]] \in Rows
          /\ record[KeyOf[r]].generation \in Nat
          /\ \A k \in Keys : record[k].generation \in Nat
      BY <2>1 DEF IInv, BoundaryType, Rows
    <2>4. /\ \A k \in Keys : k # KeyOf[r] => record'[k] = record[k]
          /\ record'[KeyOf[r]] = [record[KeyOf[r]] EXCEPT !.generation = @ + 1]
          /\ DOMAIN record' = Keys /\ record' = [k \in Keys |-> record'[k]]
      BY <2>1, <2>2 DEF IInv, BoundaryType
    <2>5. /\ record'[KeyOf[r]].status = "in_progress"
          /\ record'[KeyOf[r]].generation = record[KeyOf[r]].generation + 1
          /\ record'[KeyOf[r]] \in Rows
      BY <2>2, <2>3, <2>4 DEF Rows
    <2>6. record' \in [Keys -> Rows]
      BY <2>1, <2>4, <2>5 DEF IInv, BoundaryType
    <2>7. Handle(r, record'[KeyOf[r]].generation, TRUE) /\ place[r] = "unsent"
      BY <1>3 DEF Reclaim
    <2>8. Grows(r, record'[KeyOf[r]].generation) /\ record'[KeyOf[r]].generation \in Nat
      BY <2>1, <2>2, <2>3, <2>4, <2>5, <2>6 DEF Grows
    <2> QED
      BY <2>7, <2>8, HandleInv
  <1>4. CASE Replay(r)
    <2>1. KeyOf[r] \in Keys
      BY <1>4, KeyedKey DEF Replay
    <2>2. CASE ~SameRequest(r)
      BY <1>4, <2>2, AnsweredInv DEF Replay, Error
    <2>3. CASE SameRequest(r) /\ Row(r).status # "in_progress"
      <3>1. Answered(r, Said(Row(r).response)) /\ Row(r).status \in {"completed", "failed"}
        BY <1>4, <2>1, <2>3 DEF Replay, IInv, BoundaryType, Rows
      <3> QED
        BY <3>1, AnsweredInv
    <2>4. CASE SameRequest(r) /\ Row(r).status = "in_progress"
      BY <1>4, <2>4, AnsweredInv DEF Replay, Error
    <2> QED
      BY <2>2, <2>3, <2>4
  <1> QED
    BY <1>1, <1>2, <1>3, <1>4 DEF Admit

\* Only the generation the row names stores a response, and only once.
LEMMA StoreInv ==
    ASSUME IInv, NEW r \in Keyed, place[r] = "terminalize", Row(r).status = "in_progress", Store(r)
    PROVE  IInv'
  <1> DEFINE k == KeyOf[r]
  <1>1. k \in Keys /\ r \in Requests
    BY KeyedKey
  <1>2. /\ record[k] \in Rows /\ outcome[r] \in [ok : BOOLEAN, by : Requests \cup {"none"}]
    BY <1>1 DEF IInv, BoundaryType
  <1>3. record' = [record EXCEPT ![k] =
                     [record[k] EXCEPT !.status = StatusOf(outcome[r]), !.response = outcome[r]]]
    BY <1>1 DEF Store, IInv, BoundaryType
  <1>4. StatusOf(outcome[r]) \in {"completed", "failed"}
    BY DEF StatusOf
  <1>5. /\ record'[k] = [record[k] EXCEPT !.status = StatusOf(outcome[r]), !.response = outcome[r]]
        /\ \A j \in Keys : j # k => record'[j] = record[j]
    BY <1>1, <1>3 DEF IInv, BoundaryType
  <1>6. /\ record'[k] \in Rows /\ record'[k].status = StatusOf(outcome[r])
        /\ record'[k].response = outcome[r] /\ record'[k].generation = record[k].generation
    BY <1>2, <1>4, <1>5 DEF Rows
  <1>7. /\ Forget({r}, "answered") /\ answer' = [answer EXCEPT ![r] = Said(outcome[r])]
    BY DEF Store, Tell
  <1>8. BoundaryType'
    <2>1. record' \in [Keys -> Rows]
      BY <1>1, <1>3, <1>5, <1>6 DEF IInv, BoundaryType
    <2> QED
      BY <1>1, <1>7, <2>1, ForgetHandling DEF IInv, BoundaryType
  <1>9. AnswersStored'
    <2> SUFFICES ASSUME NEW q \in Keyed, answer'[q].kind = "response"
                 PROVE  /\ record'[KeyOf[q]].status \in {"completed", "failed"}
                        /\ answer'[q] = Said(record'[KeyOf[q]].response)
      BY DEF AnswersStored
    <2>1. CASE q = r
      BY <1>1, <1>4, <1>6, <1>7, <2>1 DEF IInv, BoundaryType
    <2>2. CASE q # r
      <3>1. answer'[q] = answer[q] /\ q \in Requests
        BY <1>7, <2>2, KeyedKey DEF IInv, BoundaryType
      <3>2. record[KeyOf[q]].status \in {"completed", "failed"}
            /\ answer[q] = Said(record[KeyOf[q]].response)
        BY <3>1 DEF IInv, AnswersStored
      <3>3. KeyOf[q] # k /\ KeyOf[q] \in Keys
        BY <3>2, KeyedKey
      <3> QED
        BY <1>5, <3>1, <3>2, <3>3
    <2> QED
      BY <2>1, <2>2
  <1>10. LeasesOrdered'
    <2>1. /\ Handling' \subseteq Handling
          /\ \A q \in Handling' : reservation'[q] = reservation[q]
      BY <1>1, <1>7, ForgetHandling DEF IInv
    <2>2. \A q \in Keyed : /\ record'[KeyOf[q]].generation = record[KeyOf[q]].generation
                           /\ record[KeyOf[q]].status # "absent" => record'[KeyOf[q]].status # "absent"
      BY <1>4, <1>5, <1>6, KeyedKey
    <2> QED
      BY <2>1, <2>2 DEF IInv, LeasesOrdered
  <1> QED
    BY <1>8, <1>9, <1>10 DEF IInv

\* A response is stored by the owner of the generation.
LEMMA TerminalizeInv == ASSUME IInv, NEW r \in Requests, Terminalize(r) PROVE IInv'
  <1>1. CASE KeyOf[r] = NoKey
    <2>1. Answered(r, Said(outcome[r])) /\ r \notin Keyed
      BY <1>1 DEF Terminalize
    <2> QED
      BY <2>1, AnsweredInv
  <1>2. CASE KeyOf[r] # NoKey /\ Row(r).status # "in_progress"
    <2>1. r \in Keyed /\ LosesTo(r)
      BY <1>2 DEF Terminalize
    <2>2. StatusOf(outcome[r]) \in {"completed", "failed"}
      BY DEF StatusOf
    <2>3. CASE Row(r).status = StatusOf(outcome[r])
      <3>1. Answered(r, Said(Row(r).response))
        BY <2>1, <2>3 DEF LosesTo
      <3> QED
        BY <2>2, <2>3, <3>1, AnsweredInv
    <2>4. CASE Row(r).status # StatusOf(outcome[r])
      <3>1. Answered(r, Error("replay_conflict"))
        BY <2>1, <2>4 DEF LosesTo
      <3> QED
        BY <3>1, AnsweredInv DEF Error
    <2> QED
      BY <2>3, <2>4
  <1>3. CASE KeyOf[r] # NoKey /\ Row(r).status = "in_progress" /\ Row(r).generation = reservation[r]
    <2>1. r \in Keyed /\ Store(r) /\ place[r] = "terminalize"
      BY <1>3 DEF Terminalize
    <2> QED
      BY <1>3, <2>1, StoreInv
  <1>4. CASE KeyOf[r] # NoKey /\ Row(r).status = "in_progress" /\ Row(r).generation # reservation[r]
    <2>1. Answered(r, Error("stale"))
      BY <1>4 DEF Terminalize
    <2> QED
      BY <2>1, AnsweredInv DEF Error
  <1> QED
    BY <1>1, <1>2, <1>3, <1>4

\* The handler does something of its own.
LEMMA HandlerInv == ASSUME IInv, NEW r \in Busy, HandlerStep(r) PROVE IInv'
  <1>1. r \in Requests /\ r \in Handling
    BY DEF Busy, Handling
  <1>2. ASSUME NEW p, p \notin {"unsent", "answered", "lost"}, place' = [place EXCEPT ![r] = p],
               UNCHANGED <<record, reservation, converge, answer>>,
               outcome' \in [Requests -> [ok : BOOLEAN, by : Requests \cup {"none"}]]
        PROVE  IInv'
    <2>1. BoundaryType'
      BY <1>1, <1>2 DEF IInv, BoundaryType
    <2>2. Handling' = Handling
      BY <1>1, <1>2, <2>1 DEF Handling, IInv, BoundaryType
    <2>3. AnswersStored' /\ LeasesOrdered'
      BY <1>2, <2>2 DEF IInv, AnswersStored, LeasesOrdered
    <2> QED
      BY <2>1, <2>3 DEF IInv
  <1>3. CASE \E p : Goto(r, p) /\ p \notin {"unsent", "answered", "lost"}
    BY <1>2, <1>3 DEF Goto, IInv, BoundaryType
  <1>4. CASE \E success \in BOOLEAN : Decide(r, success)
    <2>1. PICK success \in BOOLEAN : Decide(r, success)
      BY <1>4
    <2>2. outcome' \in [Requests -> [ok : BOOLEAN, by : Requests \cup {"none"}]]
      BY <1>1, <2>1 DEF Decide, Response, IInv, BoundaryType
    <2> QED
      BY <1>2, <2>1, <2>2 DEF Decide
  <1>5. CASE Unavailable(r)
    BY <1>1, <1>5, AnsweredInv DEF Unavailable, Error
  <1> QED
    BY <1>3, <1>4, <1>5 DEF HandlerStep

\* The process dies and the leases it held run out.
LEMMA LoseInv == ASSUME IInv, Lose PROVE IInv'
  <1>1. Handling \in SUBSET Requests /\ Forget(Handling, "lost") /\ UNCHANGED <<record, answer>>
    BY DEF Lose, Handling
  <1>2. BoundaryType'
    BY <1>1, ForgetHandling DEF IInv, BoundaryType
  <1>3. AnswersStored'
    BY <1>1 DEF IInv, AnswersStored
  <1>4. LeasesOrdered'
    BY <1>1, ForgetLeases
  <1> QED
    BY <1>2, <1>3, <1>4 DEF IInv

\* Every step of the boundary keeps the invariant.
LEMMA StepInv == IInv /\ [BoundaryNext]_boundary => IInv'
  <1> SUFFICES ASSUME IInv, [BoundaryNext]_boundary PROVE IInv'
    OBVIOUS
  <1>1. CASE UNCHANGED boundary
    BY <1>1 DEF boundary, IInv, BoundaryType, AnswersStored, LeasesOrdered, Handling
  <1>2. CASE \E r \in Requests : Admit(r) \/ Terminalize(r)
    BY <1>2, AdmitInv, TerminalizeInv
  <1>3. CASE \E r \in Busy : HandlerStep(r)
    BY <1>3, HandlerInv
  <1>4. CASE Lose
    BY <1>4, LoseInv
  <1> QED
    BY <1>1, <1>2, <1>3, <1>4 DEF BoundaryNext

\* The rows, the reservations and the outcomes keep their types and order.
THEOREM BoundaryInvariant == BoundarySpec => []IInv
  BY InitInv, StepInv, PTL DEF BoundarySpec

\* However many identical requests race, retry, are lost and take over from each
\* other, all that get a logical response for a key get the same one.
THEOREM OneAnswer == BoundarySpec => []OneAnswerPerKey
  <1>1. IInv => OneAnswerPerKey
    BY IdempotencyAssumption DEF IInv, AnswersStored, OneAnswerPerKey
  <1> QED
    BY <1>1, BoundaryInvariant, PTL

\* A lease generation of a key never has two running handlers.
THEOREM OneOwner == BoundarySpec => []OneOwnerPerLease
  <1>1. IInv => OneOwnerPerLease
    <2> SUFFICES ASSUME IInv, NEW p \in Handling, NEW q \in Handling,
                        KeyOf[p] = KeyOf[q], KeyOf[p] # NoKey, p # q,
                        reservation[p] = Row(p).generation
                 PROVE  reservation[q] # Row(q).generation
      BY DEF OneOwnerPerLease
    <2>1. p \in Keyed /\ q \in Keyed
      BY DEF Handling
    <2> QED
      BY <2>1 DEF IInv, LeasesOrdered
  <1> QED
    BY <1>1, BoundaryInvariant, PTL

------------------------------------------------------------------------------
(* The run controls.                                                       *)

\* A step of a control is a step of its handler, of its admission or of its end, a
\* crash loses every handler, and nothing else touches the boundary.
LEMMA ControlIsBoundary == ASSUME IInv, [Next]_vars PROVE [BoundaryNext]_boundary
  <1>1. DOMAIN place = Requests
    BY DEF IInv, BoundaryType
  <1>2. ASSUME NEW r \in Requests, place[r] \notin {"unsent", "answered", "lost", "terminalize"}
        PROVE  r \in Busy
    BY <1>2 DEF Busy, Handling
  <1>3. ASSUME NEW r \in Requests, NEW p, Goto(r, p),
               place[r] \notin {"unsent", "answered", "lost", "terminalize"},
               p \notin {"unsent", "answered", "lost", "terminalize"}
        PROVE  BoundaryNext
    <2>1. place'[r] = p
      BY <1>1, <1>3 DEF Goto
    <2>2. HandlerStep(r)
      BY <1>3, <2>1 DEF HandlerStep
    <2> QED
      BY <1>2, <1>3, <2>2 DEF BoundaryNext
  <1>4. ASSUME NEW r \in Requests,
               place[r] \notin {"unsent", "answered", "lost", "terminalize"},
               Unavailable(r) \/ \E success \in BOOLEAN : Decide(r, success)
        PROVE  BoundaryNext
    BY <1>2, <1>4 DEF BoundaryNext, HandlerStep
  <1>5. ASSUME NEW r \in Requests, Enter(r) \/ Leave(r) PROVE BoundaryNext
    BY <1>5 DEF Enter, Leave, BoundaryNext
  <1>6. ASSUME NEW r \in Requests, Attempt(r) PROVE BoundaryNext
    <2>1. converge[r] \in BOOLEAN
      BY DEF IInv, BoundaryType
    <2>2. place[r] = "attempt"
      BY <1>6 DEF Attempt
    <2>3. \/ \E success \in BOOLEAN : Decide(r, success)
          \/ Goto(r, "dispatch") \/ Goto(r, "transition")
      BY <1>6, <2>1 DEF Attempt
    <2> QED
      BY <1>3, <1>4, <2>2, <2>3
  <1>7. ASSUME NEW r \in Requests, Transition(r) \/ TransitionFails(r) \/ Verify(r)
        PROVE  BoundaryNext
    <2>1. place[r] \in {"transition", "verify"}
      BY <1>7 DEF Transition, TransitionFails, Verify
    <2>2. Goto(r, "attempt") \/ Unavailable(r) \/ \E success \in BOOLEAN : Decide(r, success)
      BY <1>7 DEF Transition, TransitionFails, Verify
    <2> QED
      BY <1>3, <1>4, <2>1, <2>2
  <1>8. ASSUME NEW r \in Requests,
               Dispatch(r) \/ DispatchRefused(r) \/ GiveUp(r) \/ OperateRefused(r) \/ ResumeFails(r)
        PROVE  BoundaryNext
    <2>1. place[r] \in {"dispatch", "gate", "wait", "resume", "restart", "evidence"}
      BY <1>8 DEF Dispatch, DispatchRefused, GiveUp, OperateRefused, ResumeFails
    <2>2. Goto(r, "gate") \/ Unavailable(r)
      BY <1>8 DEF Dispatch, DispatchRefused, GiveUp, OperateRefused, ResumeFails, Refuse
    <2> QED
      BY <1>3, <1>4, <2>1, <2>2
  <1>9. ASSUME NEW r \in Requests,
               Operate(r) \/ Resume(r) \/ Restart(r) \/ Boundary(r) \/ Evidence(r)
        PROVE  BoundaryNext
    <2>1. place[r] \in {"gate", "wait", "resume", "restart", "evidence"}
      BY <1>9 DEF Operate, Resume, Restart, Boundary, Evidence
    <2>2. \/ Goto(r, "resume") \/ Goto(r, "wait") \/ Goto(r, "restart") \/ Goto(r, "evidence")
          \/ Goto(r, "verify") \/ Unavailable(r)
      BY <1>9 DEF Operate, Resume, Restart, Boundary, Evidence, Refuse
    <2> QED
      BY <1>3, <1>4, <2>1, <2>2
  <1>10. ASSUME NEW c \in Closers, CloserStep(c) \/ CloseGivesUp(c) PROVE UNCHANGED boundary
    BY <1>10 DEF CloserStep, CloseGivesUp, Unregister, CloseOwner, CloseWaited, CloseCleansUp, Ends
  <1>11. CASE Launch \/ StartOwner \/ PassStep \/ Finalize \/ RegistryClose
    BY <1>11 DEF Launch, StartOwner, PassStep, Pass, Publish, Finalize, RegistryClose
  <1>12. CASE Crash
    BY <1>12 DEF Crash, Lose, BoundaryNext
  <1>13. CASE UNCHANGED vars
    BY <1>13 DEF vars
  <1> QED
    BY <1>5, <1>6, <1>7, <1>8, <1>9, <1>10, <1>11, <1>12, <1>13 DEF Next, RequestStep

\* The boundary keeps its order under the run controls.
LEMMA ControlBoundary == Spec => []IInv
  <1>1. Init => IInv
    BY InitInv DEF Init
  <1>2. IInv /\ [Next]_vars => IInv'
    BY ControlIsBoundary, StepInv
  <1> QED
    BY <1>1, <1>2, PTL DEF Spec

\* Seen from the keys, the control service is one of the handlers that OneAnswer
\* quantifies over, and everything else leaves the boundary alone.
LEMMA ControlsAreHandlers == Spec => BoundarySpec
  <1>1. Init => BoundaryInit
    BY DEF Init
  <1>2. IInv /\ [Next]_vars => [BoundaryNext]_boundary
    BY ControlIsBoundary
  <1> QED
    BY <1>1, <1>2, ControlBoundary, PTL DEF Spec, BoundarySpec

\* Clients of the run controls that get a logical response for a key get the same one.
THEOREM ControlsAnswerOnce == Spec => []OneAnswerPerKey
  BY ControlsAreHandlers, OneAnswer, PTL

\* The inductive invariant: a request past the gate holds it, a resumed pass has an
\* open owner whose last pass is over, an owner that leaves the registry is terminal
\* or the registry is closed, and a closer that finished left nothing that could start.
ControlInv ==
    /\ slot \in {"none", "registered", "retired"} /\ closer = [c \in Closers |-> closer[c]]
    /\ \A r \in Requests :
          /\ place[r] \in {"wait", "resume", "restart", "evidence"} => gate = r
          /\ place[r] \in {"resume", "restart"} => phase = "paused" /\ ~ownerClosed
    /\ thread # "none" <=> phase = "running"
    /\ \A c \in Closers :
          /\ closer[c] \in {"wait", "cleanup"} => ownerClosed
          /\ closer[c] = "cleanup" => phase # "running"
          /\ closer[c] \in {"gate", "wait", "cleanup"} => slot # "none"
    /\ closer["retire"] # "idle" => phase \in {"terminal", "closed"}
    /\ slot = "none" => phase = "new"
    /\ slot = "retired" => regClosed \/ phase \in {"terminal", "closed"}
    /\ closer["shutdown"] # "idle" => regClosed
    /\ closer["shutdown"] = "done" =>
          phase # "running" /\ (ownerClosed \/ slot = "none" \/ phase \in {"terminal", "closed"})

\* Where a request goes with one step of its handler.
LEMMA PlaceMoved ==
    ASSUME DOMAIN place = Requests, NEW r \in Requests
    PROVE  /\ \A p : Goto(r, p) => place' = [q \in Requests |-> IF q = r THEN p ELSE place[q]]
           /\ Unavailable(r) =>
                place' = [q \in Requests |-> IF q = r THEN "answered" ELSE place[q]]
           /\ \A success : Decide(r, success) =>
                place' = [q \in Requests |-> IF q = r THEN "terminalize" ELSE place[q]]
  BY DEF Goto, Unavailable, Answered, Tell, Forget, Decide

\* A step of a handler that has not reached the gate, or that leaves it behind.
LEMMA OutsideGate ==
    ASSUME ControlInv, NEW r \in Requests, NEW p,
           p \notin {"wait", "resume", "restart", "evidence"},
           place' = [q \in Requests |-> IF q = r THEN p ELSE place[q]],
           gate' = IF gate = r THEN Nobody ELSE gate,
           UNCHANGED <<slot, regClosed, closer, phase, ownerClosed, thread>>
    PROVE  ControlInv'
  BY DEF ControlInv

\* At the start nothing is registered, held or on its way.
LEMMA ControlInitInv == Init => ControlInv
  <1> SUFFICES ASSUME Init PROVE ControlInv
    OBVIOUS
  <1>1. \A r \in Requests : place[r] = "unsent"
    BY DEF Init, BoundaryInit
  <1>2. \A c \in Closers : closer[c] = "idle"
    BY DEF Init
  <1>3. closer["retire"] = "idle" /\ closer["shutdown"] = "idle"
    BY <1>2 DEF Closers
  <1>4. closer = [c \in Closers |-> closer[c]]
    BY DEF Init
  <1>5. /\ slot = "none" /\ phase = "new" /\ thread = "none"
    BY DEF Init
  <1> QED
    BY <1>1, <1>2, <1>3, <1>4, <1>5 DEF ControlInv

\* Every step keeps the invariant of the controls.
LEMMA ControlStepInv == IInv /\ ControlInv /\ [Next]_vars => ControlInv'
  <1> SUFFICES ASSUME IInv, ControlInv, [Next]_vars PROVE ControlInv'
    OBVIOUS
  <1>1. DOMAIN place = Requests
    BY DEF IInv, BoundaryType
  <1>2. \A r \in Requests : r # Nobody /\ r \notin Closers
    BY ControlAssumption
  <1>3. ASSUME NEW r \in Requests,
               place[r] \notin {"wait", "resume", "restart", "evidence"}, NEW p,
               p \notin {"wait", "resume", "restart", "evidence"},
               place' = [q \in Requests |-> IF q = r THEN p ELSE place[q]],
               UNCHANGED <<slot, regClosed, gate, closer, phase, ownerClosed, thread>>
        PROVE  ControlInv'
    BY <1>3 DEF ControlInv
  <1>4. ASSUME NEW r \in Requests, Enter(r) PROVE ControlInv'
    <2>1. place[r] = "unsent" /\ UNCHANGED <<registry, owner, engine>>
      BY <1>4 DEF Enter, Admit, Unkeyed, Start, Reclaim, Replay
    <2>2. \/ place' = [q \in Requests |-> IF q = r THEN "attempt" ELSE place[q]]
          \/ place' = [q \in Requests |-> IF q = r THEN "answered" ELSE place[q]]
      BY <1>1, <1>4 DEF Enter, Admit, Unkeyed, Start, Reclaim, Replay, Handle, Answered, Tell, Forget
    <2> QED
      BY <1>3, <2>1, <2>2 DEF registry, owner, engine
  <1>5. ASSUME NEW r \in Requests, Leave(r) PROVE ControlInv'
    <2>1. place[r] = "terminalize" /\ UNCHANGED <<registry, owner, engine>>
      BY <1>5 DEF Leave, Terminalize
    <2>2. place' = [q \in Requests |-> IF q = r THEN "answered" ELSE place[q]]
      BY <1>1, <1>5 DEF Leave, Terminalize, Store, LosesTo, Answered, Tell, Forget
    <2> QED
      BY <1>3, <2>1, <2>2 DEF registry, owner, engine
  <1>6. ASSUME NEW r \in Requests,
               Attempt(r) \/ Transition(r) \/ TransitionFails(r) \/ Verify(r) \/ Dispatch(r)
               \/ DispatchRefused(r)
        PROVE  ControlInv'
    <2>1. /\ place[r] \in {"attempt", "transition", "verify", "dispatch", "gate"}
          /\ UNCHANGED <<registry, owner, engine>>
      BY <1>6 DEF Attempt, Transition, TransitionFails, Verify, Dispatch, DispatchRefused
    <2>2. \/ Goto(r, "dispatch") \/ Goto(r, "transition") \/ Goto(r, "attempt") \/ Goto(r, "gate")
          \/ Unavailable(r) \/ \E success : Decide(r, success)
      BY <1>6 DEF Attempt, Transition, TransitionFails, Verify, Dispatch, DispatchRefused
    <2>3. \E p : /\ p \notin {"wait", "resume", "restart", "evidence"}
                 /\ place' = [q \in Requests |-> IF q = r THEN p ELSE place[q]]
      BY <1>1, <2>2, PlaceMoved
    <2> QED
      BY <1>3, <2>1, <2>3 DEF registry, owner, engine
  <1>7. ASSUME NEW r \in Requests, Refuse(r), UNCHANGED <<owner, engine>> PROVE ControlInv'
    <2>1. place' = [q \in Requests |-> IF q = r THEN "answered" ELSE place[q]]
      BY <1>1, <1>7, PlaceMoved DEF Refuse
    <2> QED
      BY <1>7, <2>1, OutsideGate DEF Refuse, owner, engine
  <1>8. ASSUME NEW r \in Requests, GiveUp(r) \/ OperateRefused(r) \/ ResumeFails(r)
        PROVE  ControlInv'
    BY <1>7, <1>8 DEF GiveUp, OperateRefused, ResumeFails
  <1>9. ASSUME NEW r \in Requests, Operate(r) PROVE ControlInv'
    <2>1. CASE action[r] = "resume"
      <3>1. place' = [q \in Requests |-> IF q = r THEN "resume" ELSE place[q]]
        BY <1>1, <1>9, <2>1, PlaceMoved DEF Operate
      <3>2. phase = "paused" /\ ~ownerClosed
        BY <1>9, <2>1 DEF Operate, Accepts
      <3> QED
        BY <1>2, <1>9, <3>1, <3>2 DEF ControlInv, Operate, owner
    <2>2. CASE action[r] # "resume"
      <3>1. place' = [q \in Requests |-> IF q = r THEN "wait" ELSE place[q]]
        BY <1>1, <1>9, <2>2, PlaceMoved DEF Operate
      <3> QED
        BY <1>2, <1>9, <3>1 DEF ControlInv, Operate, owner
    <2> QED
      BY <2>1, <2>2
  <1>10. ASSUME NEW r \in Requests, Resume(r) PROVE ControlInv'
    <2>1. place' = [q \in Requests |-> IF q = r THEN "restart" ELSE place[q]]
      BY <1>1, <1>10, PlaceMoved DEF Resume
    <2> QED
      BY <1>10, <2>1 DEF ControlInv, Resume, owner, registry
  <1>11. ASSUME NEW r \in Requests, Restart(r) PROVE ControlInv'
    <2>1. place' = [q \in Requests |-> IF q = r THEN "evidence" ELSE place[q]]
      BY <1>1, <1>11, PlaceMoved DEF Restart
    <2>2. /\ place[r] = "restart" /\ gate = r /\ phase = "paused" /\ ~ownerClosed
          /\ closer["shutdown"] # "done" /\ closer["retire"] = "idle"
          /\ slot # "none" /\ ~(slot = "retired" /\ ~regClosed)
          /\ \A c \in Closers : closer[c] \notin {"wait", "cleanup"}
      BY <1>11 DEF ControlInv, Restart, Closers
    <2>3. \A q \in Requests : q # r => place[q] \notin {"wait", "resume", "restart", "evidence"}
      BY <2>2 DEF ControlInv
    <2> QED
      BY <1>11, <2>1, <2>2, <2>3 DEF ControlInv, Restart, registry
  <1>12. ASSUME NEW r \in Requests, Boundary(r) PROVE ControlInv'
    <2>1. CASE report = Target(r)
      <3>1. place' = [q \in Requests |-> IF q = r THEN "evidence" ELSE place[q]]
        BY <1>1, <1>12, <2>1, PlaceMoved DEF Boundary
      <3> QED
        BY <1>12, <2>1, <3>1 DEF ControlInv, Boundary, registry, owner, engine
    <2>2. CASE report # Target(r)
      BY <1>7, <1>12, <2>2 DEF Boundary
    <2> QED
      BY <2>1, <2>2
  <1>13. ASSUME NEW r \in Requests, Evidence(r) PROVE ControlInv'
    <2>1. CASE lifecycle = Done[action[r]] /\ runState = Target(r)
      <3>1. place' = [q \in Requests |-> IF q = r THEN "verify" ELSE place[q]]
        BY <1>1, <1>13, <2>1, PlaceMoved DEF Evidence
      <3>2. gate = r
        BY <1>13 DEF ControlInv, Evidence
      <3> QED
        BY <1>13, <2>1, <3>1, <3>2, OutsideGate DEF Evidence, owner, engine
    <2>2. CASE ~(lifecycle = Done[action[r]] /\ runState = Target(r))
      BY <1>7, <1>13, <2>2 DEF Evidence
    <2> QED
      BY <2>1, <2>2
  <1>14. CASE StartOwner
    <2>1. \A r \in Requests : place[r] \notin {"resume", "restart"}
      BY <1>14 DEF StartOwner, ControlInv
    <2> QED
      BY <1>14, <2>1 DEF StartOwner, ControlInv, boundary, Closers
  <1>15. CASE Launch \/ Finalize
    BY <1>15 DEF Launch, Finalize, ControlInv, boundary, registry, owner, engine
  <1>16. CASE Pass
    <2>1. thread = "running" /\ thread' # "none"
      BY <1>16 DEF Pass, PassPauses, PassCancels, PassCompletes, PassRaises, Arrow, Returns
    <2> QED
      BY <1>16, <2>1 DEF Pass, ControlInv, boundary, registry, owner
  <1>17. CASE Publish
    <2>1. /\ phase = "running" /\ thread' = "none" /\ phase' \in {"paused", "terminal"}
          /\ closer["retire"] = "idle" /\ slot # "none"
          /\ phase' = "paused" => closer' = closer
          /\ closer' = closer \/ closer' = [closer EXCEPT !["retire"] = "called"]
          /\ UNCHANGED <<boundary, slot, regClosed, gate, ownerClosed>>
      BY <1>17 DEF Publish, PhaseAfter, Reports, ControlInv
    <2>2. \A c \in Closers : closer'[c] \in {closer[c], "called"}
      BY <2>1 DEF ControlInv
    <2>3. closer'["shutdown"] = closer["shutdown"]
      BY <2>1 DEF ControlInv, Closers
    <2>4. closer' = [c \in Closers |-> closer'[c]]
      BY <2>1 DEF ControlInv
    <2>5. \A r \in Requests : place[r] \notin {"resume", "restart"}
      BY <2>1 DEF ControlInv
    <2> QED
      BY <2>1, <2>2, <2>3, <2>4, <2>5 DEF ControlInv, boundary
  <1>18. ASSUME NEW c \in Closers, CloserStep(c) \/ CloseGivesUp(c) \/ (c = "shutdown" /\ RegistryClose)
         PROVE  ControlInv'
    <2>1. CASE c = "retire" /\ Unregister
      BY <2>1 DEF Unregister, Retired, ControlInv, boundary, owner, engine, Closers
    <2>2. CASE c = "shutdown" /\ RegistryClose
      <3>1. /\ ~regClosed /\ regClosed' /\ UNCHANGED <<place, gate, phase, ownerClosed, thread>>
            /\ slot' = IF slot = "registered" THEN "retired" ELSE slot
            /\ closer' = [closer EXCEPT !["shutdown"] = IF slot = "registered" THEN "gate" ELSE "done"]
        BY <2>2 DEF RegistryClose, Retired, boundary, owner, engine
      <3>2. closer' = [d \in Closers |-> closer'[d]]
        BY <3>1 DEF ControlInv
      <3>3. /\ closer'["retire"] = closer["retire"]
            /\ closer'["shutdown"] = IF slot = "registered" THEN "gate" ELSE "done"
        BY <3>1 DEF ControlInv, Closers
      <3>4. slot # "registered" =>
              phase # "running" /\ (slot = "none" \/ phase \in {"terminal", "closed"})
        BY <3>1 DEF ControlInv
      <3>5. \A d \in Closers :
              /\ closer'[d] \in {"wait", "cleanup"} => ownerClosed'
              /\ closer'[d] = "cleanup" => phase' # "running"
              /\ closer'[d] \in {"gate", "wait", "cleanup"} => slot' # "none"
        BY <3>1, <3>3 DEF ControlInv, Closers
      <3> QED
        BY <3>1, <3>2, <3>3, <3>4, <3>5 DEF ControlInv
    <2>3. CASE CloseOwner(c)
      <3>1. \A r \in Requests : place[r] \notin {"wait", "resume", "restart", "evidence"}
        BY <1>2, <2>3 DEF CloseOwner, ControlInv
      <3>2. closer[c] = "gate" /\ slot # "none" /\ (phase' # "new" \/ phase' = phase)
        BY <2>3 DEF CloseOwner, ControlInv
      <3> QED
        BY <2>3, <3>1, <3>2 DEF CloseOwner, CloseWaits, ControlInv, boundary, Closers
    <2>4. CASE CloseWaited(c)
      BY <1>2, <2>4 DEF CloseWaited, Ends, ControlInv, boundary, owner, engine, Closers
    <2>5. CASE CloseCleansUp(c)
      BY <1>2, <2>5 DEF CloseCleansUp, Ends, ControlInv, boundary, owner, Closers
    <2>6. CASE CloseGivesUp(c)
      BY <1>2, <2>6 DEF CloseGivesUp, Ends, ControlInv, boundary, owner, engine, Closers
    <2> QED
      BY <1>18, <2>1, <2>2, <2>3, <2>4, <2>5, <2>6 DEF CloserStep
  <1>19. CASE Crash
    <2>1. \A r \in Requests : place'[r] \in {"unsent", "answered", "lost"}
      BY <1>19 DEF Crash, Forget, Handling
    <2> QED
      BY <1>19, <2>1 DEF Crash, FreshRuntime, ControlInv, Closers
  <1>20. CASE UNCHANGED vars
    BY <1>20 DEF vars, ControlInv, boundary, registry, owner, engine
  <1> QED
    BY <1>4, <1>5, <1>6, <1>8, <1>9, <1>10, <1>11, <1>12, <1>13, <1>14, <1>15, <1>16, <1>17, <1>18,
       <1>19, <1>20 DEF Next, RequestStep, PassStep, Closers

\* A shutdown that closed the registry without an error leaves no pass running, and no
\* control on its way to start one: the gate, the phase of the owner and its closed
\* mark shut every way back.
THEOREM ShutdownIsClean == Spec => []CleanShutdownLeavesNoPass
  <1>1. Init => ControlInv
    BY ControlInitInv
  <1>2. ControlInv => CleanShutdownLeavesNoPass
    BY DEF ControlInv, CleanShutdownLeavesNoPass
  <1>3. Spec => []ControlInv
    BY <1>1, ControlBoundary, ControlStepInv, PTL DEF Spec
  <1> QED
    BY <1>2, <1>3, PTL

=============================================================================
