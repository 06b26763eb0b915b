----------------------------- MODULE Idempotency ----------------------------
(***************************************************************************)
(* The durable boundary around a mutating HTTP command:                    *)
(* IdempotentCommandService.execute of application/services/idempotency.py *)
(* over the rows of SqliteIdempotencyRepository.  A key is reserved, its   *)
(* handler runs, its response is stored once; a retry replays the response *)
(* or, when the lease of the reservation is over, takes the key over.      *)
(*                                                                         *)
(* A lease generation is the instant updated_at of the row.  A reclaim     *)
(* needs an age of at least the lease, which is positive, so it always     *)
(* moves to a later one: numbering generations keeps what they tell apart, *)
(* and any time may have passed since the row was written.                 *)
(*                                                                         *)
(* The handler itself is whatever runs between Reclaim and Terminalize;    *)
(* the module that extends this one supplies it.                           *)
(***************************************************************************)
EXTENDS Naturals

CONSTANTS
    Requests,      \* HTTP requests, each sent once
    Keys,          \* idempotency keys, within their scopes
    KeyOf,         \* the key of each request, NoKey when it has none
    BodyOf,        \* what the digest of each canonical request tells apart
    NoKey

ASSUME IdempotencyAssumption ==
    /\ KeyOf \in [Requests -> Keys \cup {NoKey}] /\ NoKey \notin Keys

VARIABLES
    record,       \* durable: the idempotency row of each key
    place,        \* where the thread of each request is
    reservation,  \* the lease generation its reservation names
    converge,     \* the handler selected for it is the reclaimed one
    outcome,      \* the CommandOutcome its handler returned
    answer        \* what the client was told

boundary == <<record, place, reservation, converge, outcome, answer>>

NoRow == [status |-> "absent", body |-> "none", generation |-> 0, response |-> "none"]
NoOutcome == [ok |-> FALSE, by |-> "none"]
Silent == [kind |-> "none"]

\* The response of a handler names its request: bodies carry the instant of
\* observation or the correlation identity.
Response(r, success) == [ok |-> success, by |-> r]
Said(o) == [kind |-> "response", response |-> o]
Error(k) == [kind |-> k]

BoundaryInit ==
    /\ record = [k \in Keys |-> NoRow]
    /\ place = [r \in Requests |-> "unsent"]
    /\ reservation = [r \in Requests |-> 0]
    /\ converge = [r \in Requests |-> FALSE]
    /\ outcome = [r \in Requests |-> NoOutcome]
    /\ answer = [r \in Requests |-> Silent]

------------------------------------------------------------------------------
(* Admission: execute up to the call of the handler.                       *)

\* The thread of a request and its locals go away.
Forget(rs, p) ==
    /\ place' = [r \in Requests |-> IF r \in rs THEN p ELSE place[r]]
    /\ reservation' = [r \in Requests |-> IF r \in rs THEN 0 ELSE reservation[r]]
    /\ converge' = [r \in Requests |-> IF r \in rs THEN FALSE ELSE converge[r]]
    /\ outcome' = [r \in Requests |-> IF r \in rs THEN NoOutcome ELSE outcome[r]]

Tell(r, a) ==
    /\ answer' = [answer EXCEPT ![r] = a]
    /\ Forget({r}, "answered")

Answered(r, a) == Tell(r, a) /\ UNCHANGED record

\* The handler of r starts under lease generation g of its row.
Handle(r, g, reclaimed) ==
    /\ place' = [place EXCEPT ![r] = "attempt"]
    /\ converge' = [converge EXCEPT ![r] = reclaimed]
    /\ reservation' = [reservation EXCEPT ![r] = g]
    /\ UNCHANGED <<outcome, answer>>

Row(r) == record[KeyOf[r]]
SameRequest(r) == Row(r).body = BodyOf[r]

\* A request without a key runs its handler outside the boundary.
Unkeyed(r) ==
    /\ place[r] = "unsent" /\ KeyOf[r] = NoKey
    /\ Handle(r, 0, FALSE)
    /\ UNCHANGED record

\* _start_or_replay inserts the row.
Start(r) ==
    /\ place[r] = "unsent" /\ KeyOf[r] # NoKey
    /\ Row(r).status = "absent"
    /\ record' = [record EXCEPT ![KeyOf[r]] =
          [status |-> "in_progress", body |-> BodyOf[r], generation |-> 1, response |-> "none"]]
    /\ Handle(r, 1, FALSE)

\* The compare-and-set of reclaim moves the row to a new generation.
TakeOver(r) == record' = [record EXCEPT ![KeyOf[r]].generation = @ + 1]

\* The lease is over.
Reclaim(r) ==
    /\ place[r] = "unsent" /\ KeyOf[r] # NoKey
    /\ Row(r).status = "in_progress" /\ SameRequest(r)
    /\ TakeOver(r)
    /\ Handle(r, record'[KeyOf[r]].generation, TRUE)

\* A retry inside the lease, one with another request, and one that comes
\* after the end: _stored_outcome.
Replay(r) ==
    /\ place[r] = "unsent" /\ KeyOf[r] # NoKey
    /\ Row(r).status # "absent"
    /\ IF ~SameRequest(r) THEN Answered(r, Error("key_conflict"))
       ELSE IF Row(r).status # "in_progress" THEN Answered(r, Said(Row(r).response))
       ELSE Answered(r, Error("in_progress"))

Admit(r) == Unkeyed(r) \/ Start(r) \/ Reclaim(r) \/ Replay(r)

------------------------------------------------------------------------------
(* The end of a handler.                                                   *)

\* wrapped of execute_command: a success and a problem below 500 are outcomes
\* to store; anything else leaves the reservation in progress.
Decide(r, success) ==
    /\ outcome' = [outcome EXCEPT ![r] = Response(r, success)]
    /\ place' = [place EXCEPT ![r] = "terminalize"]
    /\ UNCHANGED <<record, reservation, converge, answer>>

\* The handler goes from one of its steps to another.
Goto(r, p) ==
    /\ place' = [place EXCEPT ![r] = p]
    /\ UNCHANGED <<record, reservation, converge, outcome, answer>>

Unavailable(r) == Answered(r, Error("unavailable"))

StatusOf(o) == IF o.ok THEN "completed" ELSE "failed"

Store(r) ==
    /\ record' = [record EXCEPT ![KeyOf[r]] =
          [@ EXCEPT !.status = StatusOf(outcome[r]), !.response = outcome[r]]]
    /\ Tell(r, Said(outcome[r]))

\* Mutant: the loser of the race answers with its own outcome.
MutLosesTo(r) == Answered(r, Said(outcome[r]))

\* A competing owner stored its response first: accept it when it ended alike.
LosesTo(r) ==
    IF Row(r).status = StatusOf(outcome[r])
    THEN Answered(r, Said(Row(r).response))
    ELSE Answered(r, Error("replay_conflict"))

Terminalize(r) ==
    /\ place[r] = "terminalize"
    /\ IF KeyOf[r] = NoKey THEN Answered(r, Said(outcome[r]))
       ELSE IF Row(r).status # "in_progress" THEN LosesTo(r)
       ELSE IF Row(r).generation = reservation[r] THEN Store(r)
       ELSE Answered(r, Error("stale"))

\* Requests whose handler runs, and requests that have yet to be answered.
Handling == {r \in Requests : place[r] \notin {"unsent", "answered", "lost"}}
Busy == {r \in Handling : place[r] # "terminalize"}

------------------------------------------------------------------------------
(* The boundary around any handler.                                        *)

\* A handler goes on, decides, or fails; a crash loses every handler.
HandlerStep(r) ==
    \/ Goto(r, place'[r]) /\ place'[r] \notin {"unsent", "answered", "lost", "terminalize"}
    \/ \E success \in BOOLEAN : Decide(r, success)
    \/ Unavailable(r)

Lose == Forget(Handling, "lost") /\ UNCHANGED <<record, answer>>

BoundaryNext ==
    \/ \E r \in Requests : Admit(r) \/ Terminalize(r)
    \/ \E r \in Busy : HandlerStep(r)
    \/ Lose

BoundarySpec == BoundaryInit /\ [][BoundaryNext]_boundary

------------------------------------------------------------------------------
\* Every client that got a logical response for a key got the same one, however
\* many retries, reclaimers and late owners there were (_terminalize and the
\* replays of execute).
OneAnswerPerKey ==
    \A p, q \in Requests :
       /\ KeyOf[p] = KeyOf[q] /\ KeyOf[p] # NoKey
       /\ answer[p].kind = "response" /\ answer[q].kind = "response"
       => answer[p] = answer[q]

\* A lease generation has one owner: of the handlers running for a key, at most
\* one holds the reservation its row names (the compare-and-set of reclaim).
OneOwnerPerLease ==
    \A p, q \in Handling :
       /\ KeyOf[p] = KeyOf[q] /\ KeyOf[p] # NoKey /\ p # q
       /\ reservation[p] = Row(p).generation
       => reservation[q] # Row(q).generation

=============================================================================
