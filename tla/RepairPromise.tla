--------------------------- MODULE RepairPromise ---------------------------
(***************************************************************************)
(* What the repair workflow promises about one plan, whoever applies it    *)
(* and however often: effects reach the target only for a plan that was    *)
(* approved and begun, only after the intention was made durable, and an   *)
(* action is recorded as applied only when its effect has landed.          *)
(* Module Repair (services, writer, target, crashes) implements it.        *)
(***************************************************************************)

CONSTANT Actions

VARIABLES status,   \* the plan's lifecycle
          record,   \* what the store says of each action
          tried,    \* the actions with a durable attempt record
          landed    \* the actions whose effect the target committed

vars == <<status, record, tried, landed>>

Statuses == {"none", "proposed", "approved", "rejected", "applying", "applied", "failed"}

TypeOK == /\ status \in Statuses
          /\ record \in [Actions -> {"pending", "applied", "failed"}]
          /\ tried \subseteq Actions
          /\ landed \subseteq Actions

Init == /\ status \in {"none", "proposed"}
        /\ record = [a \in Actions |-> "pending"]
        /\ tried = {}
        /\ landed = {}

Move(from, to) == /\ status = from
                  /\ status' = to
                  /\ UNCHANGED <<record, tried, landed>>

Propose == Move("none", "proposed")
Approve == Move("proposed", "approved")
Reject == Move("proposed", "rejected")
Begin == Move("approved", "applying")

Try(a) == /\ status = "applying"
          /\ record[a] = "pending"
          /\ tried' = tried \union {a}
          /\ UNCHANGED <<status, record, landed>>

\* The target commits an effect: at any time after the attempt, the end of
\* the application included (a delayed request).
Land(a) == /\ a \in tried \ landed
           /\ landed' = landed \union {a}
           /\ UNCHANGED <<status, record, tried>>

RecordApplied(a) == /\ status = "applying"
                    /\ record[a] = "pending"
                    /\ a \in landed
                    /\ record' = [record EXCEPT ![a] = "applied"]
                    /\ UNCHANGED <<status, tried, landed>>

RecordFailed(a) == /\ status = "applying"
                   /\ record[a] = "pending"
                   /\ a \in tried
                   /\ record' = [record EXCEPT ![a] = "failed"]
                   /\ status' = "failed"
                   /\ UNCHANGED <<tried, landed>>

Complete == /\ \A a \in Actions : record[a] = "applied"
            /\ Move("applying", "applied")

Next == \/ Propose \/ Approve \/ Reject \/ Begin \/ Complete
        \/ \E a \in Actions : Try(a) \/ Land(a) \/ RecordApplied(a) \/ RecordFailed(a)

Spec == Init /\ [][Next]_vars

\* An effect in the target belongs to a plan that was approved and begun.
EffectsAreAuthorised ==
    landed # {} => status \in {"applying", "applied", "failed"}

\* What the store records as applied has landed, and an applied plan has
\* landed whole; a failed action belongs to a failed plan.
RecordsAreTrue ==
    /\ \A a \in Actions : record[a] = "applied" => a \in landed
    /\ status = "applied" => landed = Actions
    /\ \A a \in Actions : record[a] = "failed" => status = "failed"
=============================================================================
