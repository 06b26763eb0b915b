--------------------------- MODULE Sequential_proofs ---------------------------
(***************************************************************************)
(* Proofs about the sequential runner and the services around it, for any  *)
(* plan, any number of faults and any bound on versions and pauses: what   *)
(* has left RUNNING is quiet and stays what its work made it, whoever's    *)
(* command comes late; a paused runner is idle; what the coordinators      *)
(* remember is durable.                                                    *)
(***************************************************************************)
EXTENDS Sequential, TLAPS

RunStates == {"queued", "running", "cancelling"} \cup PauseBound \cup Finished
Stopped == PauseBound \cup Finished \cup {"cancelling"}
Outcomes == {"succeeded", "partially", "failed"}
Moving == {"pausing", "paused", "resuming", "running"}
WorkStates == {"pending", "running"} \cup TerminalWork
Kinds == {"claim", "renew", "result", "recover", "arrow", "empty"}

(***************************************************************************)
(* Of the rows s.                                                          *)
(***************************************************************************)
Quiet(s) == \A w \in Works : s.work[w] # "running"
Ended(s) == \A w \in Works : s.work[w] \in TerminalWork
OutcomeOf(s) ==
    IF \E w \in Works : s.work[w] = "failed" THEN "failed"
    ELSE IF \A w \in Works : s.work[w] = "succeeded" THEN "succeeded"
    ELSE "partially"
PrintOf(s) == IF OutcomeOf(s) = "failed" THEN {} ELSE {<<w, s.work[w]>> : w \in Works}
EmptyLeft(s) == EmptyNodes \ s.done

\* The rows have their shape.
RowsTyped(s) ==
    /\ DOMAIN s = {"state", "ver", "work", "done", "print"}
    /\ s.state \in RunStates /\ s.ver \in Nat
    /\ s.work \in [Works -> WorkStates]
    /\ s.done \subseteq EmptyNodes

\* A run that left RUNNING has no claimed work, and an outcome is that of its rows.
RowsClosed(s) ==
    /\ s.state \in Stopped => Quiet(s)
    /\ s.state \in Outcomes =>
          /\ Ended(s) /\ s.done = EmptyNodes
          /\ s.state = OutcomeOf(s) /\ s.print = PrintOf(s)
    /\ s.state \notin {"succeeded", "partially"} => s.print = {}

(***************************************************************************)
(* Of a command c that somebody built against rows that have become s.     *)
(***************************************************************************)
Shaped(c, s) ==
    /\ c.ver \in Nat /\ c.ver <= s.ver
    /\ c.kind \in Kinds
    /\ c.kind \in {"claim", "renew", "result", "recover"} => c.on \in Works
    /\ c.kind \in {"result", "recover"} => c.to \in WorkStates \ {"running"}
    /\ c.kind = "empty" => c.on \in EmptyNodes
    /\ c.kind = "arrow" => /\ c.to \in RunStates
                           /\ c.to \notin {"succeeded", "partially"} => c.print = {}

\* What its caller checked still holds if nothing was committed since.
Timely(c, s) ==
    c.ver = s.ver =>
        /\ c.kind = "arrow" /\ c.to \in Stopped => Quiet(s)
        /\ c.kind = "arrow" /\ c.to \in Outcomes =>
              /\ Ended(s) /\ s.done = EmptyNodes
              /\ c.to = OutcomeOf(s) /\ c.print = PrintOf(s)
        /\ c.kind = "empty" => s.state = "running" /\ Ended(s)

\* The rows t follow from the rows s by the command c.
Follows(c, s, t) ==
    /\ c.ver = s.ver /\ t.ver = s.ver + 1
    /\ s.state \notin Finished
    /\ c.kind # "arrow" => t.state = s.state
    /\ c.kind = "arrow" => t.state = c.to /\ t.work = s.work /\ t.done = s.done
    /\ c.kind = "empty" => t.work = s.work /\ t.done = s.done \cup {c.on}
    /\ s.state = "paused" => c.kind = "arrow" /\ c.to = "resuming"
    /\ t.state \in PauseBound /\ s.state \notin PauseBound =>
          c.kind = "arrow" /\ c.to = "pausing"

\* What the definitions of the model say of its rows.
LEMMA RowsSeen ==
    /\ RunningWork = {} <=> Quiet(store)
    /\ DurablyDrained <=> Quiet(store)
    /\ WorkTerminal <=> Ended(store)
    /\ DeriveOutcome = OutcomeOf(store)
    /\ EmptyPending = EmptyLeft(store)
    /\ (IF DeriveOutcome = "failed" THEN {} ELSE Fingerprint) = PrintOf(store)
BY DEF RunningWork, DurablyDrained, WorkTerminal, DeriveOutcome, EmptyPending, Fingerprint, InState,
       Quiet, Ended, OutcomeOf, EmptyLeft, PrintOf

\* Work that has ended is not running.
LEMMA EndedIsQuiet == ASSUME NEW s, Ended(s) PROVE Quiet(s)
BY DEF Ended, Quiet, TerminalWork

\* RUN_TRANSITIONS.
LEMMA ArrowsFrom ==
    /\ \A s \in Finished : Arrows[s] = {}
    /\ Arrows["paused"] = {"resuming"}
    /\ \A s \in RunStates : \A t \in Arrows[s] :
          /\ t \in RunStates
          /\ t \in PauseBound /\ s \notin PauseBound => t = "pausing"
<1>1. \A s \in RunStates : Arrows[s] =
            CASE s = "queued"     -> {"running", "cancelled"}
              [] s = "running"    -> {"pausing", "cancelling", "succeeded", "partially", "failed"}
              [] s = "pausing"    -> {"paused"}
              [] s = "paused"     -> {"resuming"}
              [] s = "resuming"   -> {"running"}
              [] s = "cancelling" -> {"cancelled"}
              [] OTHER            -> {}
  BY DEF Arrows, RunStates
<1>2. \A s \in Finished : Arrows[s] = {}
  BY <1>1 DEF Finished, RunStates
<1>3. Arrows["paused"] = {"resuming"}
  BY <1>1 DEF RunStates, PauseBound
<1>4. ASSUME NEW s \in RunStates, NEW t \in Arrows[s]
      PROVE  t \in RunStates /\ (t \in PauseBound /\ s \notin PauseBound => t = "pausing")
  BY <1>1, <1>4 DEF RunStates, PauseBound, Finished
<1> QED
  BY <1>2, <1>3, <1>4

\* A command that applies leads from rows in order to rows in order.
LEMMA CommitRows ==
    ASSUME NEW c, RowsTyped(store), RowsClosed(store), Shaped(c, store), Timely(c, store),
           Applies(c), store' = Effect(c)
    PROVE  RowsTyped(store') /\ RowsClosed(store') /\ Follows(c, store, store')
<1> DEFINE s == store
           t == store'
<1>1. c.ver = s.ver /\ s.ver \in Nat
  BY DEF Applies, Current, RowsTyped
<1>2. CASE c.kind = "claim"
  <2>1. s.state = "running" /\ c.on \in Works /\ t = [s EXCEPT !.ver = @ + 1, !.work[c.on] = "running"]
    BY <1>2 DEF Applies, Effect, ClaimEffect, Shaped, Kinds
  <2>2. t.state = s.state /\ t.ver = s.ver + 1 /\ t.done = s.done /\ t.print = s.print
        /\ DOMAIN t = DOMAIN s /\ t.work = [s.work EXCEPT ![c.on] = "running"]
    BY <2>1 DEF RowsTyped
  <2>3. t.work \in [Works -> WorkStates]
    BY <2>1, <2>2 DEF RowsTyped, WorkStates
  <2>4. RowsTyped(t)
    BY <1>1, <2>2, <2>3 DEF RowsTyped
  <2>5. RowsClosed(t)
    BY <2>1, <2>2 DEF RowsClosed, Stopped, Outcomes, PauseBound, Finished
  <2> QED
    BY <1>1, <1>2, <2>1, <2>2, <2>4, <2>5 DEF Follows, PauseBound, Finished
<1>3. CASE c.kind \in {"result", "recover"}
  <2>1. /\ s.work[c.on] = "running" /\ c.on \in Works /\ c.to \in WorkStates \ {"running"}
        /\ t = [s EXCEPT !.ver = @ + 1, !.work[c.on] = c.to]
    BY <1>3 DEF Applies, Effect, ResultEffect, Shaped, InState
  <2>2. t.state = s.state /\ t.ver = s.ver + 1 /\ t.done = s.done /\ t.print = s.print
        /\ DOMAIN t = DOMAIN s /\ t.work = [s.work EXCEPT ![c.on] = c.to]
    BY <2>1 DEF RowsTyped
  <2>3. ~Quiet(s) /\ s.state \notin Stopped
    BY <2>1 DEF RowsClosed, Quiet
  <2>4. RowsTyped(t)
    <3>1. t.work \in [Works -> WorkStates]
      BY <2>1, <2>2 DEF RowsTyped
    <3> QED
      BY <1>1, <2>2, <3>1 DEF RowsTyped
  <2>5. RowsClosed(t)
    BY <2>2, <2>3 DEF RowsClosed, Stopped, Outcomes, PauseBound, Finished
  <2> QED
    BY <1>1, <1>3, <2>2, <2>3, <2>4, <2>5 DEF Follows, Stopped, PauseBound
<1>4. CASE c.kind = "renew"
  <2>1. s.work[c.on] = "running" /\ c.on \in Works /\ t = [s EXCEPT !.ver = @ + 1]
    BY <1>4 DEF Applies, Effect, RenewEffect, Shaped, InState
  <2>2. t.state = s.state /\ t.ver = s.ver + 1 /\ t.done = s.done /\ t.print = s.print
        /\ DOMAIN t = DOMAIN s /\ t.work = s.work
    BY <2>1 DEF RowsTyped
  <2>3. ~Quiet(s) /\ s.state \notin Stopped
    BY <2>1 DEF RowsClosed, Quiet
  <2>4. RowsTyped(t)
    BY <1>1, <2>2 DEF RowsTyped
  <2>5. RowsClosed(t)
    BY <2>2, <2>3 DEF RowsClosed, Stopped, Outcomes, PauseBound, Finished
  <2> QED
    BY <1>1, <1>4, <2>2, <2>3, <2>4, <2>5 DEF Follows, Stopped, PauseBound
<1>5. CASE c.kind = "arrow"
  <2>1. c.to \in Arrows[s.state] /\ t = [s EXCEPT !.ver = @ + 1, !.state = c.to, !.print = c.print]
    BY <1>5 DEF Applies, Effect, ArrowEffect
  <2>2. t.state = c.to /\ t.ver = s.ver + 1 /\ t.done = s.done /\ t.print = c.print
        /\ DOMAIN t = DOMAIN s /\ t.work = s.work
    BY <2>1 DEF RowsTyped
  <2>3. c.to \in RunStates /\ s.state \in RunStates /\ s.state \notin Finished
        /\ (s.state = "paused" => c.to = "resuming")
        /\ (c.to \in PauseBound /\ s.state \notin PauseBound => c.to = "pausing")
    BY <2>1, ArrowsFrom DEF RowsTyped
  <2>4. RowsTyped(t)
    BY <1>1, <2>2, <2>3 DEF RowsTyped
  <2>5. Quiet(t) <=> Quiet(s)
    BY <2>2 DEF Quiet
  <2>6. (Ended(t) <=> Ended(s)) /\ OutcomeOf(t) = OutcomeOf(s) /\ PrintOf(t) = PrintOf(s)
    BY <2>2 DEF Ended, OutcomeOf, PrintOf
  <2>7. RowsClosed(t)
    BY <1>1, <1>5, <2>2, <2>5, <2>6 DEF RowsClosed, Timely, Shaped
  <2> QED
    BY <1>1, <1>5, <2>2, <2>3, <2>4, <2>7 DEF Follows
<1>6. CASE c.kind = "empty"
  <2>1. c.on \in EmptyNodes /\ s.state = "running"
        /\ t = [s EXCEPT !.ver = @ + 1, !.done = @ \cup {c.on}]
    BY <1>1, <1>6 DEF Applies, Effect, EmptyEffect, Shaped, Timely
  <2>2. t.state = s.state /\ t.ver = s.ver + 1 /\ t.done = s.done \cup {c.on} /\ t.print = s.print
        /\ DOMAIN t = DOMAIN s /\ t.work = s.work
    BY <2>1 DEF RowsTyped
  <2>3. RowsTyped(t)
    BY <1>1, <2>1, <2>2 DEF RowsTyped
  <2>4. RowsClosed(t)
    BY <2>1, <2>2 DEF RowsClosed, Stopped, Outcomes, PauseBound, Finished
  <2> QED
    BY <1>1, <1>6, <2>1, <2>2, <2>3, <2>4 DEF Follows, PauseBound, Finished
<1> QED
  BY <1>2, <1>3, <1>4, <1>5, <1>6 DEF Shaped, Kinds

(***************************************************************************)
(* The inductive invariant.                                                *)
(***************************************************************************)
\* The rows, the commands and the records of the participants have their shapes.
SlotsTyped ==
    /\ slot = [a \in Callers |-> slot[a]]
    /\ \A a \in Callers : /\ DOMAIN slot[a] = {"cmd", "ans"}
                          /\ slot[a].ans \in {None, "ok", "refused", "rejected", "lost"}
LeasesTyped ==
    /\ lease = [w \in Works |-> lease[w]]
    /\ \A w \in Works : /\ DOMAIN lease[w] = {"st", "ver"}
                        /\ lease[w].ver \in Nat /\ lease[w].ver <= store.ver
ThreadsTyped ==
    /\ DOMAIN runner = {"pc", "st"} /\ DOMAIN runner.st = Nodes
    /\ DOMAIN token = {"gen", "req", "ack"} /\ token.gen \in Nat
    /\ DOMAIN client = {"proof", "acked", "aborted"}
    /\ DOMAIN pauser = {"pc", "res", "gen", "mid", "unc", "paused", "ver"}
    /\ DOMAIN canceller = {"pc", "res", "done", "mid", "unc", "on"}
    /\ DOMAIN finalizer = {"pc", "unc", "todo", "to", "print"}
    /\ DOMAIN scanner = {"pc", "unc", "todo"}

RowsOK == RowsTyped(store) /\ RowsClosed(store)

\* Every command that may still commit was right when it was built.
CommandsOK ==
    /\ \A c \in late : Shaped(c, store) /\ Timely(c, store)
    /\ \A a \in Callers : slot[a].cmd.kind # None =>
          /\ Shaped(slot[a].cmd, store) /\ Timely(slot[a].cmd, store)
          /\ slot[a].ans = "ok" => slot[a].cmd.ver < store.ver

\* An arrow that committed last is where the run stands.
AnsweredOK ==
    \A a \in Callers :
        slot[a].cmd.kind = "arrow" /\ slot[a].ans = "ok" /\ store.ver = slot[a].cmd.ver + 1
            => store.state = slot[a].cmd.to

\* Which commands each caller has at the writer.
OwnedOK ==
    /\ slot["work"].cmd.kind \in {None, "claim", "renew", "result"}
    /\ slot["pause"].cmd.kind \in {None, "arrow"}
    /\ slot["cancel"].cmd.kind \in {None, "arrow", "result"}
    /\ slot["final"].cmd.kind \in {None, "arrow", "empty"}
    /\ slot["scan"].cmd.kind \in {None, "recover"}
    /\ slot["pause"].cmd.kind = "arrow" => pauser.pc = slot["pause"].cmd.to /\ pauser.pc \in Moving
    /\ slot["cancel"].cmd.kind = "arrow" => /\ canceller.pc = slot["cancel"].cmd.to
                                            /\ canceller.pc \in {"cancelling", "cancelled"}
    /\ canceller.pc = "work" => canceller.on \in Works
    /\ slot["final"].cmd.kind = "arrow" => slot["final"].cmd.to \in Outcomes
    /\ scanner.todo \subseteq Works

\* An arrow of the pause coordinator that commits late has left it uncertain.
LateOK ==
    \A c \in late : c.kind = "arrow" /\ c.to \in Moving =>
        pauser.unc \/ (slot["pause"].ans = "lost" /\ pauser.pc \in Moving)

\* The stages of the pause coordinator, and the signal it holds meanwhile.
PauserOK ==
    /\ pauser.pc \in Moving \cup {"idle", "clear", "open"}
    /\ ~pauser.res => pauser.pc = "idle" /\ ~pauser.mid /\ ~pauser.paused /\ ~pauser.unc
    /\ pauser.pc # "idle" => ~pauser.unc
    /\ pauser.pc \in {"paused", "running", "clear"} => pauser.mid
    /\ pauser.pc = "open" /\ pauser.paused => pauser.mid
    /\ pauser.pc = "pausing" => ~pauser.paused
    /\ pauser.res /\ pauser.pc # "open" =>
          token.req /\ token.gen = pauser.gen /\ pauser.gen # 0
    /\ pauser.pc \in Moving \cup {"clear"}
          \/ (pauser.pc = "idle" /\ (pauser.mid \/ pauser.paused \/ pauser.unc)) => token.ack # 0

\* Where the run stands when the pause coordinator knows.
Untouched == pauser.pc = "resuming" /\ slot["pause"].ans \in {None, "refused", "rejected"}
PausedOK ==
    /\ pauser.paused /\ ~pauser.mid /\ ~pauser.unc /\ (pauser.pc = "idle" \/ Untouched) =>
          store.state = "paused" /\ store.ver = pauser.ver
    /\ pauser.pc = "paused" /\ slot["pause"].ans = "ok" =>
          store.state = "paused" /\ store.ver = slot["pause"].cmd.ver + 1
    /\ (\/ pauser.pc = "running" /\ slot["pause"].ans = "ok"
        \/ pauser.pc = "clear"
        \/ pauser.pc = "open" /\ pauser.mid) => store.state \notin PauseBound

\* Where it stands when the cancellation coordinator knows.
CancelOK ==
    /\ canceller.done => store.state = "cancelled"
    /\ slot["cancel"].cmd.kind = "arrow" /\ slot["cancel"].cmd.to = "cancelled"
          /\ slot["cancel"].ans = "ok" => store.state = "cancelled"

\* A finalization whose next command can still commit has derived the outcome of the rows there
\* are, and knows which empty nodes are left.
Pursued ==
    \/ slot["final"].ans # "ok" /\ slot["final"].cmd.ver = store.ver
    \/ /\ slot["final"].ans = "ok" /\ slot["final"].cmd.kind = "empty"
       /\ slot["final"].cmd.ver + 1 = store.ver
FinalOK ==
    /\ finalizer.todo \subseteq EmptyNodes
    /\ slot["final"].cmd.kind # None =>
          /\ finalizer.to \in Outcomes
          /\ finalizer.to = "failed" => finalizer.print = {}
          /\ Pursued =>
                /\ store.state = "running" /\ Ended(store)
                /\ finalizer.to = OutcomeOf(store) /\ finalizer.print = PrintOf(store)
                /\ EmptyLeft(store) = IF slot["final"].ans = "ok"
                                      THEN finalizer.todo \ {slot["final"].cmd.on}
                                      ELSE finalizer.todo

\* At most one node is active, and none while an acknowledged signal is held.
RunnerOK ==
    /\ runner.pc \in {"loop", "ack", "yield"} => ActiveNode = {}
    /\ \A m, n \in ActiveNode : m = n
    /\ token.req /\ token.ack # 0 => ActiveNode = {}

\* The generations acknowledged and aborted.
TokenOK ==
    /\ \A g \in client.acked \cup client.aborted : g \in Nat /\ g <= token.gen
    /\ client.acked \cap client.aborted = {}
    /\ token.req => /\ token.gen # 0
                    /\ token.gen \notin client.aborted
                    /\ token.ack = 0 => token.gen \notin client.acked

SInv ==
    /\ SlotsTyped /\ LeasesTyped /\ ThreadsTyped
    /\ RowsOK /\ CommandsOK /\ AnsweredOK /\ OwnedOK /\ LateOK
    /\ PauserOK /\ PausedOK /\ CancelOK /\ FinalOK
    /\ RunnerOK /\ TokenOK

(***************************************************************************)
(* Commits.                                                                *)
(***************************************************************************)
\* A command is in time only until the next one commits.
LEMMA ShapedLater ==
    ASSUME NEW c, NEW s, NEW t, Shaped(c, s), s.ver \in Nat, t.ver = s.ver + 1
    PROVE  Shaped(c, t) /\ Timely(c, t) /\ c.ver < t.ver /\ c.ver \in Nat
BY DEF Shaped, Timely

\* Whatever commits, the commands at the writer keep their shape.
LEMMA CommandsLater ==
    ASSUME SInv, store'.ver = store.ver + 1, late' \subseteq late,
           \A a \in Callers : slot'[a].cmd = slot[a].cmd
    PROVE  CommandsOK'
<1>1. store.ver \in Nat
  BY DEF SInv, RowsOK, RowsTyped
<1>2. ASSUME NEW c \in late'
      PROVE  Shaped(c, store') /\ Timely(c, store')
  <2>1. Shaped(c, store)
    BY <1>2 DEF SInv, CommandsOK
  <2> QED
    BY <1>1, <2>1, ShapedLater
<1>3. ASSUME NEW a \in Callers, slot'[a].cmd.kind # None
      PROVE  /\ Shaped(slot'[a].cmd, store') /\ Timely(slot'[a].cmd, store')
             /\ slot'[a].cmd.ver < store'.ver
  <2>1. Shaped(slot[a].cmd, store)
    BY <1>3 DEF SInv, CommandsOK
  <2> QED
    BY <1>1, <2>1, ShapedLater
<1> QED
  BY <1>2, <1>3 DEF CommandsOK

\* Leases never name a version the rows have not reached.
LEMMA LeasesLater ==
    ASSUME SInv, store'.ver = store.ver + 1, lease' = lease
    PROVE  LeasesTyped'
BY DEF SInv, LeasesTyped, RowsOK, RowsTyped

\* A finalization is overtaken by any commit that is not its own.
LEMMA FinalOvertaken ==
    ASSUME SInv, store'.ver = store.ver + 1, slot'["final"] = slot["final"],
           finalizer' = finalizer
    PROVE  FinalOK'
<1>1. slot["final"].cmd.kind # None =>
         /\ slot["final"].cmd.ver \in Nat /\ slot["final"].cmd.ver <= store.ver
         /\ slot["final"].ans = "ok" => slot["final"].cmd.ver < store.ver
  BY DEF SInv, CommandsOK, Shaped, Callers
<1>2. store.ver \in Nat
  BY DEF SInv, RowsOK, RowsTyped
<1>3. slot["final"].cmd.kind # None => ~Pursued'
  BY <1>1, <1>2 DEF Pursued
<1>4. finalizer.todo \subseteq EmptyNodes
      /\ (slot["final"].cmd.kind # None =>
            finalizer.to \in Outcomes /\ (finalizer.to = "failed" => finalizer.print = {}))
  BY DEF SInv, FinalOK
<1> QED
  BY <1>3, <1>4 DEF FinalOK

\* What the coordinators know survives the commits of everybody else.
Foreign(c) ==
    c.kind = "arrow" /\ c.to \in Moving =>
        pauser.unc \/ (slot["pause"].ans = "lost" /\ pauser.pc \in Moving)

\* What the pause coordinator knows survives a commit that is not its own.
LEMMA PausedKept ==
    ASSUME SInv, NEW c, Foreign(c), Follows(c, store, store'), pauser' = pauser,
           slot'["pause"] = slot["pause"]
    PROVE  PausedOK'
<1>1. PausedOK /\ PauserOK
  BY DEF SInv
<1>2. store.state = "paused" => c.kind = "arrow" /\ c.to \in Moving
  BY DEF Follows, Moving
<1>3. store'.state \in PauseBound /\ store.state \notin PauseBound =>
         c.kind = "arrow" /\ c.to \in Moving
  BY DEF Follows, Moving
<1>4. (c.kind = "arrow" /\ c.to \in Moving) => pauser.unc \/ (slot["pause"].ans = "lost" /\ pauser.pc \in Moving)
  BY DEF Foreign
<1>5. ~(pauser.paused /\ ~pauser.mid /\ ~pauser.unc /\ (pauser.pc = "idle" \/ Untouched))
  BY <1>1, <1>2, <1>4 DEF PausedOK, Untouched, Moving, None
<1>6. ~(pauser.pc = "paused" /\ slot["pause"].ans = "ok")
  BY <1>1, <1>2, <1>4 DEF PausedOK, PauserOK
<1>7. (\/ pauser.pc = "running" /\ slot["pause"].ans = "ok"
       \/ pauser.pc = "clear"
       \/ pauser.pc = "open" /\ pauser.mid) => store'.state \notin PauseBound
  BY <1>1, <1>3, <1>4 DEF PausedOK, PauserOK, Moving
<1> QED
  BY <1>5, <1>6, <1>7 DEF PausedOK, Untouched

\* A cancelled run is in a final state: nothing commits after it.
LEMMA CancelKept ==
    ASSUME SInv, store.state \notin Finished, canceller' = canceller,
           slot'["cancel"] = slot["cancel"]
    PROVE  CancelOK'
BY DEF SInv, CancelOK, Finished

\* Steps of the others leave the participants as they are.
Participants == <<runner, token, client, pauser, canceller, finalizer, scanner>>
\* A step of nobody but the writer leaves the participants as they are.
LEMMA ThreadsKept ==
    ASSUME SInv, UNCHANGED Participants
    PROVE  ThreadsTyped' /\ PauserOK' /\ RunnerOK' /\ TokenOK'
BY DEF SInv, Participants, ThreadsTyped, PauserOK, RunnerOK, TokenOK, ActiveNode

\* A command given up by its caller commits.
LEMMA LateStep ==
    ASSUME SInv, NEW c \in late, Late(c)
    PROVE  SInv' /\ (store' = store \/ store.state \notin Finished)
<1>1. late' \subseteq late /\ slot' = slot /\ UNCHANGED Participants /\ lease' = lease
  BY DEF Late, volatile, Participants
<1>2. SlotsTyped' /\ ThreadsTyped' /\ OwnedOK' /\ LateOK' /\ PauserOK' /\ RunnerOK' /\ TokenOK'
  <2>1. SlotsTyped'
    BY <1>1 DEF SInv, SlotsTyped
  <2>2. OwnedOK'
    BY <1>1 DEF SInv, OwnedOK, Participants
  <2>3. LateOK'
    BY <1>1 DEF SInv, LateOK, Participants
  <2> QED
    BY <1>1, <2>1, <2>2, <2>3, ThreadsKept
<1>3. CASE Applies(c)
  <2>1. Shaped(c, store) /\ Timely(c, store) /\ RowsTyped(store) /\ RowsClosed(store)
    BY DEF SInv, CommandsOK, RowsOK
  <2>2. store' = Effect(c)
    BY <1>3 DEF Late
  <2>3. RowsTyped(store') /\ RowsClosed(store') /\ Follows(c, store, store')
    BY <1>3, <2>1, <2>2, CommitRows
  <2>4. store'.ver = store.ver + 1 /\ store.state \notin Finished
    BY <2>3 DEF Follows
  <2>5. RowsOK'
    BY <2>3 DEF RowsOK
  <2>6. \A a \in Callers : slot[a].ans = "ok" /\ slot[a].cmd.kind = "arrow" => slot[a].cmd.ver < store.ver
    BY DEF SInv, CommandsOK, None
  <2>7. CommandsOK'
    <3>1. \A a \in Callers : slot'[a].cmd.kind # None =>
            Shaped(slot'[a].cmd, store') /\ Timely(slot'[a].cmd, store') /\ slot'[a].cmd.ver < store'.ver
      <4> TAKE a \in Callers
      <4> HAVE slot'[a].cmd.kind # None
      <4>1. Shaped(slot[a].cmd, store)
        BY <1>1 DEF SInv, CommandsOK
      <4> QED
        BY <1>1, <2>1, <2>4, <4>1, ShapedLater DEF RowsTyped
    <3>2. \A d \in late' : Shaped(d, store') /\ Timely(d, store')
      <4> TAKE d \in late'
      <4>1. Shaped(d, store)
        BY <1>1 DEF SInv, CommandsOK
      <4> QED
        BY <2>1, <2>4, <4>1, ShapedLater DEF RowsTyped
    <3> QED
      BY <3>1, <3>2 DEF CommandsOK
  <2>8. AnsweredOK'
    <3>1. \A a \in Callers : slot[a].cmd.kind = "arrow" => slot[a].cmd.ver \in Nat
      BY DEF SInv, CommandsOK, Shaped, None
    <3> QED
      BY <1>1, <2>1, <2>4, <2>6, <3>1 DEF AnsweredOK, RowsTyped
  <2>9. Foreign(c)
    BY DEF SInv, LateOK, Foreign
  <2>10. PausedOK'
    BY <1>1, <2>3, <2>9, PausedKept DEF Participants
  <2>11. CancelOK' /\ FinalOK' /\ LeasesTyped'
    BY <1>1, <2>4, CancelKept, FinalOvertaken, LeasesLater DEF Participants
  <2> QED
    BY <1>2, <2>4, <2>5, <2>7, <2>8, <2>10, <2>11 DEF SInv
<1>4. CASE ~Applies(c)
  <2>1. store' = store
    BY <1>4 DEF Late
  <2>2. RowsOK' /\ CommandsOK' /\ AnsweredOK' /\ LeasesTyped'
    BY <1>1, <2>1 DEF SInv, RowsOK, CommandsOK, AnsweredOK, LeasesTyped
  <2>3. PausedOK' /\ CancelOK' /\ FinalOK'
    BY <1>1, <2>1 DEF SInv, PausedOK, Untouched, CancelOK, FinalOK, Pursued, Participants
  <2> QED
    BY <1>2, <2>1, <2>2, <2>3 DEF SInv
<1> QED
  BY <1>3, <1>4

\* Other callers move no run into, within or out of a pause.
LEMMA OnlyPauserMoves ==
    ASSUME SInv, NEW a \in Callers, a # "pause"
    PROVE  Foreign(slot[a].cmd)
<1>1. slot[a].cmd.kind = "arrow" => a \in {"cancel", "final"}
  BY DEF SInv, OwnedOK, Callers, None
<1>2. slot[a].cmd.kind = "arrow" => slot[a].cmd.to \notin Moving
  BY <1>1 DEF SInv, OwnedOK, Moving, Outcomes
<1> QED
  BY <1>2 DEF Foreign

\* The writer answers.
LEMMA AnswerSlots ==
    ASSUME SInv, NEW a \in Callers, NEW v \in {"ok", "refused", "rejected", "lost"},
           slot' = [slot EXCEPT ![a].ans = v]
    PROVE  /\ SlotsTyped'
           /\ \A x \in Callers : slot'[x].cmd = slot[x].cmd
           /\ slot'[a].ans = v
           /\ \A x \in Callers \ {a} : slot'[x] = slot[x]
BY DEF SInv, SlotsTyped

\* Nor does it change whose commands are whose.
LEMMA OwnedKept ==
    ASSUME SInv, UNCHANGED Participants, \A x \in Callers : slot'[x].cmd = slot[x].cmd
    PROVE  OwnedOK'
BY DEF SInv, OwnedOK, Participants, Callers

\* A command that does not commit is answered without effect.
LEMMA NotExecutedStep ==
    ASSUME SInv, NEW a \in Callers, NEW v \in {"refused", "rejected"},
           slot[a].cmd.kind # None, slot[a].ans = None,
           slot' = [slot EXCEPT ![a].ans = v],
           store' = store, late' = late, lease' = lease, UNCHANGED Participants
    PROVE  SInv'
<1>1. /\ SlotsTyped'
      /\ \A x \in Callers : slot'[x].cmd = slot[x].cmd
      /\ slot'[a].ans = v
      /\ \A x \in Callers \ {a} : slot'[x] = slot[x]
  BY AnswerSlots
<1>2. \A x \in Callers : slot'[x].ans = "ok" <=> slot[x].ans = "ok"
  BY <1>1 DEF None
<1>3. ThreadsTyped' /\ PauserOK' /\ RunnerOK' /\ TokenOK' /\ OwnedOK'
  BY <1>1, ThreadsKept, OwnedKept
<1>4. RowsOK' /\ LeasesTyped'
  BY DEF SInv, RowsOK, LeasesTyped
<1>5. CommandsOK'
  BY <1>1, <1>2 DEF SInv, CommandsOK
<1>6. AnsweredOK'
  BY <1>1, <1>2 DEF SInv, AnsweredOK
<1>7. slot["pause"].ans = "lost" => slot'["pause"] = slot["pause"]
  BY <1>1 DEF None, Callers
<1>8. LateOK'
  BY <1>7 DEF SInv, LateOK, Participants
<1>9. PausedOK'
  <2>1. slot'["pause"].ans \in {None, "refused", "rejected"} =>
           slot["pause"].ans \in {None, "refused", "rejected"}
    BY <1>1 DEF Callers
  <2>2. slot'["pause"].cmd = slot["pause"].cmd /\ (slot'["pause"].ans = "ok" <=> slot["pause"].ans = "ok")
    BY <1>1, <1>2 DEF Callers
  <2> QED
    BY <2>1, <2>2 DEF SInv, PausedOK, Untouched, Participants
<1>10. slot'["cancel"].cmd = slot["cancel"].cmd /\ slot'["final"].cmd = slot["final"].cmd
       /\ (slot'["cancel"].ans = "ok" <=> slot["cancel"].ans = "ok")
       /\ (slot'["final"].ans = "ok" <=> slot["final"].ans = "ok")
  BY <1>1, <1>2 DEF Callers
<1>11. CancelOK' /\ FinalOK'
  BY <1>10 DEF SInv, CancelOK, FinalOK, Pursued, Participants
<1> QED
  BY <1>1, <1>3, <1>4, <1>5, <1>6, <1>8, <1>9, <1>11 DEF SInv

\* The writer executes a caller's command: it commits, or it is refused.
LEMMA ExecuteStep ==
    ASSUME SInv, NEW a \in Callers, Execute(a)
    PROVE  SInv' /\ (store' = store \/ store.state \notin Finished)
<1> DEFINE c == slot[a].cmd
<1>1. late' = late /\ UNCHANGED Participants /\ lease' = lease /\ c.kind # None /\ slot[a].ans = None
  BY DEF Execute, volatile, Participants
<1>2. ThreadsTyped' /\ PauserOK' /\ RunnerOK' /\ TokenOK'
  BY <1>1, ThreadsKept
<1>3. Shaped(c, store) /\ Timely(c, store) /\ RowsTyped(store) /\ RowsClosed(store)
  BY <1>1 DEF SInv, CommandsOK, RowsOK
<1>4. CASE Applies(c)
  <2>1. store' = Effect(c) /\ slot' = [slot EXCEPT ![a].ans = "ok"]
    BY <1>4 DEF Execute
  <2>2. /\ SlotsTyped'
        /\ \A x \in Callers : slot'[x].cmd = slot[x].cmd
        /\ slot'[a].ans = "ok"
        /\ \A x \in Callers \ {a} : slot'[x] = slot[x]
    BY <2>1, AnswerSlots
  <2>3. RowsTyped(store') /\ RowsClosed(store') /\ Follows(c, store, store')
    BY <1>3, <1>4, <2>1, CommitRows
  <2>4. store'.ver = store.ver + 1 /\ store.state \notin Finished /\ c.ver = store.ver
    BY <2>3 DEF Follows
  <2>5. RowsOK'
    BY <2>3 DEF RowsOK
  <2>6. CommandsOK' /\ LeasesTyped'
    BY <1>1, <2>2, <2>4, CommandsLater, LeasesLater
  <2>7. OwnedOK'
    BY <1>1, <2>2, OwnedKept
  <2>8. AnsweredOK'
    <3> SUFFICES ASSUME NEW x \in Callers, slot'[x].cmd.kind = "arrow", slot'[x].ans = "ok",
                        store'.ver = slot'[x].cmd.ver + 1
                 PROVE  store'.state = slot'[x].cmd.to
      BY DEF AnsweredOK
    <3>1. CASE x = a
      BY <2>2, <2>3, <3>1 DEF Follows
    <3>2. CASE x # a
      <4>1. slot[x].cmd.ver \in Nat /\ slot[x].cmd.ver < store.ver
        BY <2>2, <3>2 DEF SInv, CommandsOK, Shaped, None
      <4> QED
        BY <1>3, <2>2, <2>4, <4>1 DEF RowsTyped
    <3> QED
      BY <3>1, <3>2
  <2>9. LateOK'
    BY <1>1, <2>2 DEF SInv, LateOK, Participants, None, Callers
  <2>10. PausedOK'
    <3>1. CASE a # "pause"
      <4>1. slot'["pause"] = slot["pause"]
        BY <2>2, <3>1 DEF Callers
      <4> QED
        BY <1>1, <2>3, <3>1, <4>1, OnlyPauserMoves, PausedKept DEF Participants
    <3>2. CASE a = "pause"
      <4>1. c.kind = "arrow" /\ pauser.pc = c.to /\ pauser.pc \in Moving
        BY <1>1, <3>2 DEF SInv, OwnedOK
      <4>2. store'.state = pauser.pc
        BY <2>3, <4>1 DEF Follows
      <4>3. slot'["pause"].ans = "ok" /\ slot'["pause"].cmd.ver = c.ver /\ pauser' = pauser
        BY <1>1, <2>2, <3>2 DEF Participants
      <4>4. pauser.pc \notin {"idle", "clear", "open"}
        BY <4>1 DEF Moving
      <4>5. pauser.pc = "running" => pauser.pc \notin PauseBound
        BY DEF PauseBound
      <4> QED
        BY <2>4, <4>2, <4>3, <4>4, <4>5 DEF PausedOK, Untouched, None
    <3> QED
      BY <3>1, <3>2
  <2>11. CancelOK'
    <3>1. CASE a # "cancel"
      BY <1>1, <2>2, <2>4, <3>1, CancelKept DEF Participants, Callers
    <3>2. CASE a = "cancel"
      BY <1>1, <2>2, <2>3, <2>4, <3>2 DEF SInv, CancelOK, Finished, Participants, Follows
    <3> QED
      BY <3>1, <3>2
  <2>12. FinalOK'
    <3>1. CASE a # "final"
      BY <1>1, <2>2, <2>4, <3>1, FinalOvertaken DEF Participants, Callers
    <3>2. CASE a = "final"
      <4>1. finalizer.todo \subseteq EmptyNodes /\ finalizer.to \in Outcomes
            /\ (finalizer.to = "failed" => finalizer.print = {})
        BY <1>1, <3>2 DEF SInv, FinalOK
      <4>2. finalizer' = finalizer /\ slot'["final"].ans = "ok" /\ slot'["final"].cmd = c
        BY <1>1, <2>2, <3>2 DEF Participants
      <4>3. ASSUME Pursued'
            PROVE  /\ store'.state = "running" /\ Ended(store')
                   /\ finalizer.to = OutcomeOf(store') /\ finalizer.print = PrintOf(store')
                   /\ EmptyLeft(store') = finalizer.todo \ {c.on}
        <5>1. c.kind = "empty"
          BY <4>2, <4>3 DEF Pursued
        <5>2. slot["final"].ans # "ok" /\ slot["final"].cmd.ver = store.ver
          BY <1>1, <2>4, <3>2 DEF None
        <5>3. /\ store.state = "running" /\ Ended(store)
              /\ finalizer.to = OutcomeOf(store) /\ finalizer.print = PrintOf(store)
              /\ EmptyLeft(store) = finalizer.todo
          BY <1>1, <3>2, <5>2 DEF SInv, FinalOK, Pursued
        <5>4. store'.state = store.state /\ store'.work = store.work
              /\ store'.done = store.done \cup {c.on}
          BY <2>3, <5>1 DEF Follows
        <5>5. (Ended(store') <=> Ended(store)) /\ OutcomeOf(store') = OutcomeOf(store)
              /\ PrintOf(store') = PrintOf(store)
          BY <5>4 DEF Ended, OutcomeOf, PrintOf
        <5>6. EmptyLeft(store') = EmptyLeft(store) \ {c.on}
          BY <5>4 DEF EmptyLeft
        <5> QED
          BY <5>3, <5>4, <5>5, <5>6
      <4> QED
        BY <4>1, <4>2, <4>3 DEF FinalOK
    <3> QED
      BY <3>1, <3>2
  <2> QED
    BY <1>2, <2>2, <2>4, <2>5, <2>6, <2>7, <2>8, <2>9, <2>10, <2>11, <2>12 DEF SInv
<1>5. CASE ~Applies(c)
  <2>1. store' = store /\ slot' = [slot EXCEPT ![a].ans = "rejected"]
    BY <1>5 DEF Execute
  <2> QED
    BY <1>1, <2>1, NotExecutedStep
<1> QED
  BY <1>4, <1>5

\* The writer's queue refuses a command it did not take.
LEMMA RefuseStep == ASSUME SInv, NEW a \in Callers, Refuse(a) PROVE SInv' /\ store' = store
<1>1. /\ slot[a].cmd.kind # None /\ slot[a].ans = None
      /\ slot' = [slot EXCEPT ![a].ans = "refused"]
      /\ store' = store /\ late' = late /\ lease' = lease /\ UNCHANGED Participants
  BY DEF Refuse, volatile, Participants
<1> QED
  BY <1>1, NotExecutedStep

\* A caller gives up waiting; its command may still commit.
LEMMA LoseStep == ASSUME SInv, NEW a \in Callers, Lose(a) PROVE SInv' /\ store' = store
<1> DEFINE c == slot[a].cmd
<1>1. /\ c.kind # None /\ slot[a].ans \in {None, "ok"}
      /\ slot' = [slot EXCEPT ![a].ans = "lost"]
      /\ late' = late \/ late' = late \cup {c}
      /\ store' = store /\ lease' = lease /\ UNCHANGED Participants
  BY DEF Lose, volatile, Participants
<1>2. /\ SlotsTyped'
      /\ \A x \in Callers : slot'[x].cmd = slot[x].cmd
      /\ slot'[a].ans = "lost"
      /\ \A x \in Callers \ {a} : slot'[x] = slot[x]
  BY <1>1, AnswerSlots
<1>3. \A x \in Callers : slot'[x].ans = "ok" => slot[x].ans = "ok"
  BY <1>2
<1>4. ThreadsTyped' /\ PauserOK' /\ RunnerOK' /\ TokenOK' /\ OwnedOK'
  BY <1>1, <1>2, ThreadsKept, OwnedKept
<1>5. RowsOK' /\ LeasesTyped'
  BY <1>1 DEF SInv, RowsOK, LeasesTyped
<1>6. CommandsOK'
  BY <1>1, <1>2, <1>3 DEF SInv, CommandsOK
<1>7. AnsweredOK'
  BY <1>1, <1>2, <1>3 DEF SInv, AnsweredOK
<1>8. LateOK'
  <2>1. slot["pause"].ans = "lost" => slot'["pause"] = slot["pause"]
    BY <1>1, <1>2 DEF None, Callers
  <2>2. ASSUME NEW d \in late, d.kind = "arrow", d.to \in Moving
        PROVE  pauser.unc \/ (slot'["pause"].ans = "lost" /\ pauser.pc \in Moving)
    BY <2>1, <2>2 DEF SInv, LateOK
  <2>3. ASSUME c.kind = "arrow", c.to \in Moving
        PROVE  pauser.unc \/ (slot'["pause"].ans = "lost" /\ pauser.pc \in Moving)
    <3>1. CASE a = "pause"
      BY <1>2, <2>3, <3>1 DEF SInv, OwnedOK
    <3>2. CASE a # "pause"
      BY <2>1, <2>3, <3>2, OnlyPauserMoves DEF Foreign
    <3> QED
      BY <3>1, <3>2
  <2> QED
    BY <1>1, <2>2, <2>3 DEF LateOK, Participants
<1>9. PausedOK'
  <2>1. slot'["pause"].ans \in {None, "refused", "rejected"} => slot'["pause"] = slot["pause"]
    BY <1>2 DEF Callers, None
  <2>2. slot'["pause"].cmd = slot["pause"].cmd /\ (slot'["pause"].ans = "ok" => slot["pause"].ans = "ok")
    BY <1>2, <1>3 DEF Callers
  <2> QED
    BY <1>1, <2>1, <2>2 DEF SInv, PausedOK, Untouched, Participants
<1>10. slot'["cancel"].cmd = slot["cancel"].cmd /\ slot'["final"].cmd = slot["final"].cmd
       /\ (slot'["cancel"].ans = "ok" => slot["cancel"].ans = "ok")
       /\ (slot'["final"].ans = "ok" => slot["final"].ans = "ok")
  BY <1>2, <1>3 DEF Callers
<1>11. CancelOK'
  BY <1>1, <1>10 DEF SInv, CancelOK, Participants
<1>12. FinalOK'
  <2>1. slot["final"].cmd.kind # None /\ slot["final"].ans = "ok" =>
           slot["final"].cmd.ver \in Nat /\ slot["final"].cmd.ver < store.ver
    BY DEF SInv, CommandsOK, Shaped, Callers
  <2>2. store.ver \in Nat
    BY DEF SInv, RowsOK, RowsTyped
  <2>3. slot["final"].cmd.kind # None /\ Pursued' => Pursued /\ (slot'["final"].ans = "ok" <=> slot["final"].ans = "ok")
    BY <1>1, <1>10, <2>1, <2>2 DEF Pursued
  <2> QED
    BY <1>1, <1>10, <2>3 DEF SInv, FinalOK, Participants
<1> QED
  BY <1>1, <1>2, <1>4, <1>5, <1>6, <1>7, <1>8, <1>9, <1>11, <1>12 DEF SInv

\* The caller of the library starts the queued run.
LEMMA StartStep == ASSUME SInv, StartRun PROVE SInv' /\ store.state \notin Finished
<1>1. /\ store.state = "queued" /\ store' = [store EXCEPT !.state = "running", !.ver = @ + 1]
      /\ slot' = slot /\ late' = late /\ lease' = lease /\ UNCHANGED Participants
  BY DEF StartRun, volatile, Participants
<1>2. /\ store'.state = "running" /\ store'.ver = store.ver + 1 /\ store'.done = store.done
      /\ store'.print = store.print /\ store'.work = store.work /\ DOMAIN store' = DOMAIN store
      /\ store.ver \in Nat
  BY <1>1 DEF SInv, RowsOK, RowsTyped
<1>3. RowsOK'
  BY <1>1, <1>2 DEF SInv, RowsOK, RowsTyped, RowsClosed, RunStates, Stopped, Outcomes, PauseBound, Finished
<1>4. ThreadsTyped' /\ PauserOK' /\ RunnerOK' /\ TokenOK' /\ OwnedOK'
  BY <1>1, ThreadsKept, OwnedKept
<1>5. SlotsTyped'
  BY <1>1 DEF SInv, SlotsTyped
<1>6. CommandsOK' /\ LeasesTyped' /\ FinalOK'
  <2>1. \A a \in Callers : slot'[a].ans = "ok" => slot[a].cmd.kind # None \/ slot[a].cmd.kind = None
    OBVIOUS
  <2>2. CommandsOK'
    <3>1. \A a \in Callers : slot'[a].cmd.kind # None =>
            Shaped(slot'[a].cmd, store') /\ Timely(slot'[a].cmd, store') /\ slot'[a].cmd.ver < store'.ver
      <4> TAKE a \in Callers
      <4> HAVE slot'[a].cmd.kind # None
      <4>1. Shaped(slot[a].cmd, store)
        BY <1>1 DEF SInv, CommandsOK
      <4> QED
        BY <1>1, <1>2, <4>1, ShapedLater
    <3>2. \A d \in late' : Shaped(d, store') /\ Timely(d, store')
      <4> TAKE d \in late'
      <4>1. Shaped(d, store)
        BY <1>1 DEF SInv, CommandsOK
      <4> QED
        BY <1>2, <4>1, ShapedLater
    <3> QED
      BY <3>1, <3>2 DEF CommandsOK
  <2> QED
    BY <1>1, <1>2, <2>2, LeasesLater, FinalOvertaken DEF Participants
<1>7. AnsweredOK'
  <2>1. \A a \in Callers : slot[a].cmd.kind = "arrow" /\ slot[a].ans = "ok" =>
            slot[a].cmd.ver \in Nat /\ slot[a].cmd.ver < store.ver
    BY DEF SInv, CommandsOK, Shaped, None
  <2> QED
    BY <1>1, <1>2, <2>1 DEF AnsweredOK
<1>8. LateOK'
  BY <1>1 DEF SInv, LateOK, Participants
<1>9. PausedOK'
  BY <1>1, <1>2 DEF SInv, PausedOK, Untouched, PauseBound, Participants
<1>10. CancelOK'
  BY <1>1, CancelKept DEF Finished, Participants
<1> QED
  BY <1>1, <1>3, <1>4, <1>5, <1>6, <1>7, <1>8, <1>9, <1>10 DEF SInv, Finished

\* The process is lost: the rows and the commands nobody waits for stay.
LEMMA CrashStep == ASSUME SInv, Crash PROVE SInv' /\ store' = store
<1>1. /\ store' = store /\ slot' = NewSlots /\ late' = {} /\ lease' = NewLeases
      /\ runner' = NewRunner /\ token' = NewToken /\ client' = NewClient /\ pauser' = NewPauser
      /\ canceller' = NewCanceller /\ finalizer' = NewFinalizer /\ scanner' = NewScanner
  BY DEF Crash
<1>2. \A a \in Callers : slot'[a] = [cmd |-> NoCmd, ans |-> None]
  BY <1>1 DEF NewSlots, NoSlot
<1>3. \A a \in Callers : slot'[a].cmd.kind = None /\ slot'[a].ans = None /\ DOMAIN slot'[a] = {"cmd", "ans"}
  BY <1>2 DEF NoCmd
<1>4. SlotsTyped'
  BY <1>1, <1>3 DEF SlotsTyped, NewSlots
<1>5. LeasesTyped' /\ RowsOK'
  BY <1>1 DEF LeasesTyped, NewLeases, NoLease, SInv, RowsOK, RowsTyped
<1>6. ThreadsTyped'
  BY <1>1 DEF ThreadsTyped, NewRunner, NewToken, NewClient, NewPauser, NewCanceller, NewFinalizer,
              NewScanner, Fresh
<1>7. CommandsOK' /\ AnsweredOK' /\ LateOK'
  BY <1>1, <1>3 DEF CommandsOK, AnsweredOK, LateOK, None
<1>8. OwnedOK'
  BY <1>1, <1>3 DEF OwnedOK, NewScanner, NewCanceller, Callers, None
<1>9. PauserOK' /\ PausedOK' /\ CancelOK'
  BY <1>1, <1>3 DEF PauserOK, PausedOK, CancelOK, NewPauser, NewCanceller, Callers, None, Moving, Untouched
<1>10. FinalOK'
  BY <1>1, <1>3 DEF FinalOK, NewFinalizer, Callers
<1>11. RunnerOK'
  BY <1>1 DEF RunnerOK, NewRunner, NewToken, Fresh, ActiveNode
<1>12. TokenOK'
  BY <1>1 DEF TokenOK, NewToken, NewClient
<1> QED
  BY <1>1, <1>4, <1>5, <1>6, <1>7, <1>8, <1>9, <1>10, <1>11, <1>12 DEF SInv

\* The initial states are in order.
LEMMA InitSInv == Init => SInv
<1> SUFFICES ASSUME Init PROVE SInv
  OBVIOUS
<1>1. /\ slot = NewSlots /\ late = {} /\ lease = NewLeases
      /\ runner = NewRunner /\ token = NewToken /\ client = NewClient /\ pauser = NewPauser
      /\ canceller = NewCanceller /\ finalizer = NewFinalizer /\ scanner = NewScanner
  BY DEF Init
<1>2. /\ store.state \in {"queued", "running"} /\ store.ver = 1 /\ store.done = {} /\ store.print = {}
      /\ store.work = [w \in Works |-> "pending"]
      /\ DOMAIN store = {"state", "ver", "work", "done", "print"}
  BY DEF Init
<1>3. \A a \in Callers : slot[a].cmd.kind = None /\ slot[a].ans = None /\ DOMAIN slot[a] = {"cmd", "ans"}
  BY <1>1 DEF NewSlots, NoSlot, NoCmd
<1>4. SlotsTyped
  BY <1>1, <1>3 DEF SlotsTyped, NewSlots
<1>5. RowsOK
  <2>1. RowsTyped(store)
    BY <1>2 DEF RowsTyped, RunStates, WorkStates
  <2>2. RowsClosed(store)
    BY <1>2 DEF RowsClosed, Stopped, Outcomes, PauseBound, Finished
  <2> QED
    BY <2>1, <2>2 DEF RowsOK
<1>6. LeasesTyped
  BY <1>1, <1>2 DEF LeasesTyped, NewLeases, NoLease
<1>7. ThreadsTyped
  BY <1>1 DEF ThreadsTyped, NewRunner, NewToken, NewClient, NewPauser, NewCanceller, NewFinalizer,
              NewScanner, Fresh
<1>8. CommandsOK /\ AnsweredOK /\ LateOK
  BY <1>1, <1>3 DEF CommandsOK, AnsweredOK, LateOK, None
<1>9. OwnedOK
  BY <1>1, <1>3 DEF OwnedOK, NewScanner, NewCanceller, Callers, None
<1>10. PauserOK /\ PausedOK /\ CancelOK
  BY <1>1, <1>3 DEF PauserOK, PausedOK, CancelOK, NewPauser, NewCanceller, Callers, None, Moving, Untouched
<1>11. FinalOK
  BY <1>1, <1>3 DEF FinalOK, NewFinalizer, Callers
<1>12. RunnerOK
  BY <1>1 DEF RunnerOK, NewRunner, NewToken, Fresh, ActiveNode
<1>13. TokenOK
  BY <1>1 DEF TokenOK, NewToken, NewClient
<1> QED
  BY <1>4, <1>5, <1>6, <1>7, <1>8, <1>9, <1>10, <1>11, <1>12, <1>13 DEF SInv

(***************************************************************************)
(* Steps of the callers.                                                   *)
(***************************************************************************)
\* A caller has command e.cmd at the writer from now on, or none.
LEMMA CallerStep ==
    ASSUME SInv, NEW a \in Callers, NEW e, slot' = [slot EXCEPT ![a] = e],
           DOMAIN e = {"cmd", "ans"}, e.ans = None,
           e.cmd.kind # None => Shaped(e.cmd, store) /\ Timely(e.cmd, store),
           store' = store, late' = late
    PROVE  /\ SlotsTyped' /\ RowsOK' /\ CommandsOK' /\ AnsweredOK'
           /\ slot'[a] = e
           /\ \A x \in Callers \ {a} : slot'[x] = slot[x]
<1>1. slot'[a] = e /\ \A x \in Callers \ {a} : slot'[x] = slot[x]
  BY DEF SInv, SlotsTyped
<1>2. SlotsTyped'
  BY <1>1 DEF SInv, SlotsTyped
<1>3. CommandsOK'
  BY <1>1 DEF SInv, CommandsOK, None
<1>4. AnsweredOK'
  BY <1>1 DEF SInv, AnsweredOK, None
<1> QED
  BY <1>1, <1>2, <1>3, <1>4 DEF SInv, RowsOK

\* A caller's place holds the command it puts there, with no answer yet.
LEMMA PutEntry ==
    ASSUME NEW a, NEW c, Put(a, c)
    PROVE  slot' = [slot EXCEPT ![a] = [cmd |-> c, ans |-> None]]
BY DEF Put

\* A caller that takes its answer leaves its place empty.
LEMMA TakeEntry ==
    ASSUME NEW a, Take(a)
    PROVE  slot' = [slot EXCEPT ![a] = [cmd |-> NoCmd, ans |-> None]]
BY DEF Take, NoSlot

\* What is known of a command that was answered.
LEMMA AnswerKnown ==
    ASSUME SInv, NEW a \in Callers, slot[a].cmd.kind # None, slot[a].ans # None
    PROVE  /\ slot[a].ans \in {"ok", "refused", "rejected", "lost"}
           /\ slot[a].cmd.ver \in Nat
           /\ slot[a].ans = "ok" => slot[a].cmd.ver + 1 \in Nat /\ slot[a].cmd.ver + 1 <= store.ver
           /\ store.ver \in Nat
BY DEF SInv, SlotsTyped, CommandsOK, Shaped, RowsOK, RowsTyped

(***************************************************************************)
(* The lease service.                                                      *)
(***************************************************************************)
LEMMA LeaseState ==
    ASSUME SInv, NEW w \in Works, NEW s, lease' = [lease EXCEPT ![w].st = s], store' = store
    PROVE  LeasesTyped'
BY DEF SInv, LeasesTyped

\* A lease follows the rows when its claim commits.
LEMMA LeaseGranted ==
    ASSUME SInv, NEW w \in Works, NEW s, NEW v \in Nat, v <= store.ver,
           lease' = [lease EXCEPT ![w] = [st |-> s, ver |-> v]], store' = store
    PROVE  LeasesTyped'
BY DEF SInv, LeasesTyped

\* A settled lease is empty.
LEMMA LeaseSettled ==
    ASSUME SInv, NEW w \in Works, lease' = Settled(w), store' = store
    PROVE  LeasesTyped'
<1>1. store.ver \in Nat
  BY DEF SInv, RowsOK, RowsTyped
<1> QED
  BY <1>1 DEF SInv, LeasesTyped, Settled, NoLease

\* The answer to a claim or a renewal.
LEMMA LeaseAnswered ==
    ASSUME SInv, NEW w \in Works, NEW a \in Callers,
           slot[a].cmd.kind # None, slot[a].ans # None, store' = store,
           \/ Ok(a) /\ lease' = [lease EXCEPT ![w] = [st |-> "active", ver |-> slot[a].cmd.ver + 1]]
           \/ lease' \in {Settled(w), Retained(w), Doubtful(w)}
    PROVE  LeasesTyped'
<1>1. CASE Ok(a) /\ lease' = [lease EXCEPT ![w] = [st |-> "active", ver |-> slot[a].cmd.ver + 1]]
  <2>1. slot[a].cmd.ver + 1 \in Nat /\ slot[a].cmd.ver + 1 <= store.ver
    BY <1>1, AnswerKnown DEF Ok
  <2> QED
    BY <1>1, <2>1, LeaseGranted
<1>2. CASE lease' = Settled(w)
  BY <1>2, LeaseSettled
<1>3. CASE lease' \in {Retained(w), Doubtful(w)}
  BY <1>3, LeaseState DEF Retained, Doubtful
<1> QED
  BY <1>1, <1>2, <1>3

\* A step of the executor's thread.
LeaseKinds == {"claim", "renew", "result"}
\* A step of the executor's thread leaves the invariant as it was.
LEMMA WorkStep ==
    ASSUME SInv, NEW c, slot' = [slot EXCEPT !["work"] = [cmd |-> c, ans |-> None]],
           c.kind = None \/ (c.kind \in LeaseKinds /\ Shaped(c, store) /\ Timely(c, store)),
           store' = store, late' = late, UNCHANGED Participants, LeasesTyped'
    PROVE  SInv'
<1> DEFINE e == [cmd |-> c, ans |-> None]
<1>0. DOMAIN e = {"cmd", "ans"} /\ e.ans = None /\ e.cmd = c /\ slot' = [slot EXCEPT !["work"] = e]
  OBVIOUS
<1> HIDE DEF e
<1>1. "work" \in Callers
  BY DEF Callers
<1>2. /\ SlotsTyped' /\ RowsOK' /\ CommandsOK' /\ AnsweredOK'
      /\ slot'["work"] = e
      /\ \A x \in Callers \ {"work"} : slot'[x] = slot[x]
  BY <1>0, <1>1, CallerStep
<1>3. /\ slot'["pause"] = slot["pause"] /\ slot'["cancel"] = slot["cancel"]
      /\ slot'["final"] = slot["final"] /\ slot'["scan"] = slot["scan"]
  BY <1>2 DEF Callers
<1>4. ThreadsTyped' /\ PauserOK' /\ RunnerOK' /\ TokenOK'
  BY ThreadsKept
<1>5. OwnedOK'
  BY <1>0, <1>2, <1>3 DEF SInv, OwnedOK, Participants, LeaseKinds
<1>6. LateOK' /\ PausedOK' /\ CancelOK' /\ FinalOK'
  BY <1>3 DEF SInv, LateOK, PausedOK, Untouched, CancelOK, FinalOK, Pursued, Participants
<1> QED
  BY <1>2, <1>4, <1>5, <1>6 DEF SInv

\* Commands on one work item.
LEMMA WorkCommand ==
    ASSUME SInv, NEW w \in Works, NEW k \in LeaseKinds, NEW v \in Nat,
           v <= store.ver, NEW t, k = "result" => t \in WorkStates \ {"running"}
    PROVE  /\ Shaped(Cmd(k, v, w, t), store) /\ Timely(Cmd(k, v, w, t), store)
           /\ Cmd(k, v, w, t).kind = k
BY DEF Cmd, Shaped, Timely, Kinds, LeaseKinds

\* An empty place has no command.
LEMMA NoCommand == NoCmd.kind = None
BY DEF NoCmd

\* A result that is submitted under the lease that was held.
LEMMA SubmitKnown ==
    ASSUME SInv, NEW a, NEW w \in Works, NEW r \in WorkStates \ {"running"}, Submit(a, w, r),
           store' = store
    PROVE  /\ LeasesTyped'
           /\ slot' = [slot EXCEPT ![a] = [cmd |-> Cmd("result", lease[w].ver, w, r), ans |-> None]]
           /\ Shaped(Cmd("result", lease[w].ver, w, r), store)
           /\ Timely(Cmd("result", lease[w].ver, w, r), store)
           /\ Cmd("result", lease[w].ver, w, r).kind = "result"
<1>1. lease[w].ver \in Nat /\ lease[w].ver <= store.ver
  BY DEF SInv, LeasesTyped
<1>2. LeasesTyped'
  BY LeaseState DEF Submit
<1> QED
  <2>1. "result" \in LeaseKinds
    BY DEF LeaseKinds
  <2> QED
    BY <1>1, <1>2, <2>1, WorkCommand, PutEntry DEF Submit

\* What becomes of a lease when its result was answered.
LEMMA Dispositions ==
    ASSUME SInv, NEW a \in Callers, NEW w \in Works, slot[a].cmd.kind # None, slot[a].ans # None,
           lease' = CompletionDisposition(a, w), store' = store
    PROVE  LeasesTyped'
<1>1. lease' \in {Settled(w), Retained(w), Doubtful(w)}
  BY DEF CompletionDisposition
<1> QED
  BY <1>1, LeaseAnswered

\* The lease service, by action.
LEMMA LeasingStep == ASSUME SInv, Leasing PROVE SInv' /\ store' = store
<1> PICK w \in Works : \/ Acquire(w) \/ Acquired(w) \/ Renew(w) \/ Renewed(w)
                       \/ Complete(w) \/ Completed(w)
  BY DEF Leasing
<1>1. store' = store /\ late' = late /\ UNCHANGED Participants
  BY DEF Acquire, Acquired, Renew, Renewed, Complete, Completed, calm, services, Participants
<1>2. store.ver \in Nat /\ "work" \in Callers
  BY DEF SInv, RowsOK, RowsTyped, Callers
<1>3. CASE Acquire(w)
  <2>1. slot' = [slot EXCEPT !["work"] = [cmd |-> Cmd("claim", store.ver, w, "running"), ans |-> None]]
    BY <1>3, PutEntry DEF Acquire
  <2>2. LeasesTyped'
    BY <1>1, <1>3, LeaseState DEF Acquire
  <2>3. "claim" \in LeaseKinds /\ ("claim" = "result" => "running" \in WorkStates \ {"running"})
    BY DEF LeaseKinds
  <2>4. LET c == Cmd("claim", store.ver, w, "running")
        IN  c.kind \in LeaseKinds /\ Shaped(c, store) /\ Timely(c, store)
    BY <1>2, <2>3, WorkCommand
  <2> QED
    BY <1>1, <2>1, <2>2, <2>4, WorkStep
<1>4. CASE Renew(w)
  <2>1. slot' = [slot EXCEPT !["work"] = [cmd |-> Cmd("renew", store.ver, w, "running"), ans |-> None]]
    BY <1>4, PutEntry DEF Renew
  <2>2. LeasesTyped'
    BY <1>1, <1>4, LeaseState DEF Renew
  <2>3. "renew" \in LeaseKinds /\ ("renew" = "result" => "running" \in WorkStates \ {"running"})
    BY DEF LeaseKinds
  <2>4. LET c == Cmd("renew", store.ver, w, "running")
        IN  c.kind \in LeaseKinds /\ Shaped(c, store) /\ Timely(c, store)
    BY <1>2, <2>3, WorkCommand
  <2> QED
    BY <1>1, <2>1, <2>2, <2>4, WorkStep
<1>5. CASE Complete(w)
  <2>1. PICK r \in Results : Submit("work", w, r)
    BY <1>5 DEF Complete
  <2>2. r \in WorkStates \ {"running"}
    BY PlanAssumption DEF WorkStates, TerminalWork
  <2>3. /\ LeasesTyped'
        /\ slot' = [slot EXCEPT !["work"] = [cmd |-> Cmd("result", lease[w].ver, w, r), ans |-> None]]
        /\ Shaped(Cmd("result", lease[w].ver, w, r), store)
        /\ Timely(Cmd("result", lease[w].ver, w, r), store)
        /\ Cmd("result", lease[w].ver, w, r).kind = "result"
    BY <1>1, <2>1, <2>2, SubmitKnown
  <2>4. "result" \in LeaseKinds
    BY DEF LeaseKinds
  <2> QED
    BY <1>1, <2>3, <2>4, WorkStep
<1>6. ASSUME Acquired(w) \/ Renewed(w) \/ Completed(w)
      PROVE  SInv'
  <2>1. slot["work"].cmd.kind # None /\ slot["work"].ans # None /\ Take("work")
    BY <1>6 DEF Acquired, Renewed, Completed, Asked, None
  <2>2. slot["work"].ans \in {"ok", "refused", "rejected", "lost"}
    BY <1>2, <2>1, AnswerKnown
  <2>3. \/ Ok("work") /\ lease' = [lease EXCEPT ![w] = [st |-> "active",
                                                     ver |-> slot["work"].cmd.ver + 1]]
        \/ lease' \in {Settled(w), Retained(w), Doubtful(w)}
    <3>1. Ok("work") \/ NotExecuted("work") \/ Unknown("work")
      BY <2>2 DEF Ok, NotExecuted, Unknown
    <3>2. CASE Acquired(w)
      BY <3>1, <3>2 DEF Acquired
    <3>3. CASE Renewed(w)
      BY <3>1, <3>3 DEF Renewed
    <3>4. CASE Completed(w)
      BY <3>4 DEF Completed, CompletionDisposition
    <3> QED
      BY <1>6, <3>2, <3>3, <3>4
  <2>4. LeasesTyped'
    BY <1>1, <1>2, <2>1, <2>3, LeaseAnswered
  <2>5. slot' = [slot EXCEPT !["work"] = [cmd |-> NoCmd, ans |-> None]]
    BY <2>1, TakeEntry
  <2> QED
    BY <1>1, <2>4, <2>5, NoCommand, WorkStep
<1> QED
  BY <1>1, <1>3, <1>4, <1>5, <1>6

(***************************************************************************)
(* The runner.                                                             *)
(***************************************************************************)
\* A node that is active after a status was replaced was active before, or has become so.
LEMMA ReplacedActive ==
    ASSUME NEW st, DOMAIN st = Nodes, NEW n, NEW s
    PROVE  /\ DOMAIN Replaced(st, n, s) = Nodes
           /\ \A m \in Nodes : Replaced(st, n, s)[m] = "running" =>
                 IF m = n THEN s = "running" ELSE st[m] = "running"
<1> DEFINE now == [st EXCEPT ![n] = s]
<1>1. \A m \in Nodes : now[m] = IF m = n THEN s ELSE st[m]
  OBVIOUS
<1>2. Replaced(st, n, s) =
        [m \in Nodes |-> IF now[m] \in {"blocked", "ready"}
                         THEN IF \A d \in Deps[m] : now[d] = "succeeded" THEN "ready" ELSE "blocked"
                         ELSE now[m]]
  BY DEF Replaced
<1> HIDE DEF now
<1>3. DOMAIN Replaced(st, n, s) = Nodes
  BY <1>2
<1>4. \A m \in Nodes : Replaced(st, n, s)[m] = "running" => now[m] = "running"
  BY <1>2
<1> QED
  BY <1>1, <1>3, <1>4

\* run() starts a node when none is active and no pause is requested.
LEMMA Starts ==
    ASSUME SInv, ActiveNode = {}, StartNode, ~token.req, token' = token
    PROVE  DOMAIN runner' = {"pc", "st"} /\ DOMAIN runner'.st = Nodes /\ RunnerOK'
<1> DEFINE st == Replaced(runner.st, NextReady, "running")
<1>1. runner' = [pc |-> "exec", st |-> st]
  BY DEF StartNode
<1>2. DOMAIN runner.st = Nodes
  BY DEF SInv, ThreadsTyped
<1>3. DOMAIN st = Nodes /\ \A m \in Nodes : st[m] = "running" => m = NextReady \/ runner.st[m] = "running"
  BY <1>2, ReplacedActive
<1>4. \A m \in Nodes : st[m] = "running" => m = NextReady
  BY <1>3 DEF ActiveNode
<1>5. ActiveNode' = {m \in Nodes : st[m] = "running"}
  BY <1>1 DEF ActiveNode
<1> HIDE DEF st
<1> QED
  BY <1>1, <1>3, <1>4, <1>5 DEF RunnerOK

\* The executor ends its node.
LEMMA EndsNode ==
    ASSUME SInv, NEW pc, NEW s, s # "running", Ends(pc, s)
    PROVE  DOMAIN runner' = {"pc", "st"} /\ DOMAIN runner'.st = Nodes /\ RunnerOK' /\ ActiveNode' = {}
<1> PICK n \in ActiveNode : runner' = [pc |-> pc, st |-> Replaced(runner.st, n, s)]
  BY DEF Ends
<1> DEFINE st == Replaced(runner.st, n, s)
<1>1. DOMAIN runner.st = Nodes
  BY DEF SInv, ThreadsTyped
<1>2. DOMAIN st = Nodes /\ \A m \in Nodes : st[m] = "running" => m # n /\ runner.st[m] = "running"
  BY <1>1, ReplacedActive
<1>3. \A m \in ActiveNode : m = n
  BY DEF SInv, RunnerOK
<1>4. \A m \in Nodes : st[m] # "running"
  BY <1>2, <1>3 DEF ActiveNode
<1>5. runner' = [pc |-> pc, st |-> st] /\ ActiveNode' = {m \in Nodes : st[m] = "running"}
  BY DEF ActiveNode
<1> HIDE DEF st
<1>6. ActiveNode' = {}
  BY <1>4, <1>5
<1> QED
  BY <1>2, <1>5, <1>6 DEF RunnerOK

\* The runner claims the requested generation.
LEMMA ClaimToken ==
    ASSUME SInv, token.req, Claimed, UNCHANGED pauser
    PROVE  /\ PauserOK' /\ TokenOK'
           /\ DOMAIN token' = {"gen", "req", "ack"} /\ token'.gen \in Nat
           /\ DOMAIN client' = {"proof", "acked", "aborted"}
<1>1. /\ token'.gen = token.gen /\ token'.req = token.req /\ token'.ack = token.gen
      /\ DOMAIN token' = {"gen", "req", "ack"}
  BY DEF SInv, ThreadsTyped, Claimed
<1>2. /\ client'.acked = client.acked \cup {token.gen} /\ client'.aborted = client.aborted
      /\ DOMAIN client' = {"proof", "acked", "aborted"}
  BY DEF SInv, ThreadsTyped, Claimed
<1>3. token.gen \in Nat /\ token.gen # 0 /\ token.gen \notin client.aborted
  BY DEF SInv, ThreadsTyped, TokenOK
<1>4. PauserOK'
  BY <1>1, <1>3 DEF SInv, PauserOK
<1>5. TokenOK'
  BY <1>1, <1>2, <1>3 DEF SInv, TokenOK
<1> QED
  BY <1>1, <1>2, <1>3, <1>4, <1>5

\* What the runner does not touch.
LEMMA RunnerFrame ==
    ASSUME SInv, UNCHANGED lonely
    PROVE  /\ SlotsTyped' /\ LeasesTyped' /\ RowsOK' /\ CommandsOK' /\ AnsweredOK' /\ OwnedOK'
           /\ LateOK' /\ PausedOK' /\ CancelOK' /\ FinalOK'
           /\ UNCHANGED <<store, pauser, canceller, finalizer, scanner>>
<1>1. UNCHANGED <<store, late, slot, lease, pauser, canceller, finalizer, scanner>>
  BY DEF lonely, services
<1>2. SlotsTyped' /\ LeasesTyped' /\ RowsOK' /\ CommandsOK' /\ AnsweredOK'
  BY <1>1 DEF SInv, SlotsTyped, LeasesTyped, RowsOK, CommandsOK, AnsweredOK
<1>3. OwnedOK' /\ LateOK' /\ PausedOK' /\ CancelOK' /\ FinalOK'
  BY <1>1 DEF SInv, OwnedOK, LateOK, PausedOK, Untouched, CancelOK, FinalOK, Pursued
<1> QED
  BY <1>1, <1>2, <1>3

\* A step of the runner: only its own nodes and the signal change.
LEMMA RunnerStep ==
    ASSUME SInv, UNCHANGED lonely,
           DOMAIN runner' = {"pc", "st"} /\ DOMAIN runner'.st = Nodes /\ RunnerOK',
           \/ UNCHANGED <<token, client>>
           \/ token.req /\ Claimed
    PROVE  SInv' /\ store' = store
<1>1. /\ SlotsTyped' /\ LeasesTyped' /\ RowsOK' /\ CommandsOK' /\ AnsweredOK' /\ OwnedOK'
      /\ LateOK' /\ PausedOK' /\ CancelOK' /\ FinalOK'
      /\ UNCHANGED <<store, pauser, canceller, finalizer, scanner>>
  BY RunnerFrame
<1>2. CASE UNCHANGED <<token, client>>
  <2>1. ThreadsTyped' /\ PauserOK' /\ TokenOK'
    BY <1>1, <1>2 DEF SInv, ThreadsTyped, PauserOK, TokenOK
  <2> QED
    BY <1>1, <2>1 DEF SInv
<1>3. CASE token.req /\ Claimed
  <2>1. /\ PauserOK' /\ TokenOK'
        /\ DOMAIN token' = {"gen", "req", "ack"} /\ token'.gen \in Nat
        /\ DOMAIN client' = {"proof", "acked", "aborted"}
    BY <1>1, <1>3, ClaimToken
  <2>2. ThreadsTyped'
    BY <1>1, <2>1 DEF SInv, ThreadsTyped
  <2> QED
    BY <1>1, <2>1, <2>2 DEF SInv
<1> QED
  BY <1>2, <1>3

\* A step of the runner that starts and ends no node.
LEMMA Reports ==
    ASSUME SInv, NEW pc, pc \notin {"loop", "ack", "yield"}, runner' = [runner EXCEPT !.pc = pc],
           token' = token \/ ActiveNode = {}
    PROVE  /\ DOMAIN runner' = {"pc", "st"} /\ DOMAIN runner'.st = Nodes /\ RunnerOK'
<1>1. runner'.pc = pc /\ runner'.st = runner.st /\ DOMAIN runner' = {"pc", "st"} /\ DOMAIN runner.st = Nodes
  BY DEF SInv, ThreadsTyped
<1>2. ActiveNode' = ActiveNode
  BY <1>1 DEF ActiveNode
<1> QED
  BY <1>1, <1>2 DEF SInv, RunnerOK

\* The runner, by action.
LEMMA RunningStep == ASSUME SInv, Running PROVE SInv' /\ store' = store
<1>0. RunnerOK /\ ThreadsTyped
  BY DEF SInv
<1>1. ASSUME NEW st \in {Fresh, runner.st}, Invoke(st)
      PROVE  SInv' /\ store' = store
  <2>1. runner' = [pc |-> "loop", st |-> st] /\ UNCHANGED lonely /\ UNCHANGED <<token, client>>
        /\ \A n \in Nodes : st[n] # "running"
    BY <1>1 DEF Invoke
  <2>2. DOMAIN st = Nodes
    BY <1>0 DEF Fresh, ThreadsTyped
  <2>3. ActiveNode' = {}
    BY <2>1 DEF ActiveNode
  <2>4. RunnerOK'
    BY <2>3 DEF RunnerOK
  <2> QED
    BY <2>1, <2>2, <2>4, RunnerStep
<1>2. CASE Loop
  <2>1. runner.pc = "loop" /\ ActiveNode = {} /\ UNCHANGED lonely /\ UNCHANGED <<token, client>>
    BY <1>0, <1>2 DEF Loop, RunnerOK
  <2>2. CASE Report
    BY <2>1, <2>2, Reports, RunnerStep DEF Report
  <2>3. CASE runner' = [runner EXCEPT !.pc = "ack"]
    <3>1. DOMAIN runner' = {"pc", "st"} /\ DOMAIN runner'.st = Nodes /\ runner'.st = runner.st
      BY <1>0, <2>3 DEF ThreadsTyped
    <3>2. ActiveNode' = {}
      BY <2>1, <3>1 DEF ActiveNode
    <3>3. RunnerOK'
      BY <3>2 DEF RunnerOK
    <3> QED
      BY <2>1, <3>1, <3>3, RunnerStep
  <2>4. CASE ~token.req /\ StartNode
    BY <2>1, <2>4, Starts, RunnerStep
  <2> QED
    BY <1>2, <2>2, <2>3, <2>4 DEF Loop
<1>3. CASE Acknowledge
  <2>1. runner.pc = "ack" /\ ActiveNode = {} /\ UNCHANGED lonely
    BY <1>0, <1>3 DEF Acknowledge, RunnerOK
  <2>2. CASE token.req /\ Claimed /\ Report
    BY <2>1, <2>2, Reports, RunnerStep DEF Report
  <2>3. CASE ~token.req /\ StartNode /\ UNCHANGED <<token, client>>
    BY <2>1, <2>3, Starts, RunnerStep
  <2> QED
    BY <1>3, <2>2, <2>3 DEF Acknowledge
<1>4. CASE Yield
  <2>1. runner.pc = "yield" /\ ActiveNode = {} /\ UNCHANGED lonely /\ Report
    BY <1>0, <1>4 DEF Yield, RunnerOK
  <2>2. \/ UNCHANGED <<token, client>>
        \/ token.req /\ Claimed
    BY <1>4 DEF Yield
  <2> QED
    BY <2>1, <2>2, Reports, RunnerStep DEF Report
<1>5. ASSUME Returning
      PROVE  SInv' /\ store' = store
  <2>1. UNCHANGED lonely /\ UNCHANGED <<token, client>>
    BY <1>5 DEF Returning, NodeSucceeded, NodeFailed, NodeCancelled, NodePaused, NodeRaised, Returns
  <2>2. (\E pc, s : s # "running" /\ Ends(pc, s)) \/ Report
    BY <1>5 DEF Returning, NodeSucceeded, NodeFailed, NodeCancelled, NodePaused, NodeRaised
  <2>3. CASE Report
    BY <2>1, <2>3, Reports, RunnerStep DEF Report
  <2>4. ASSUME NEW pc, NEW s, s # "running", Ends(pc, s)
        PROVE  SInv' /\ store' = store
    BY <2>1, <2>4, EndsNode, RunnerStep
  <2> QED
    BY <2>2, <2>3, <2>4
<1>6. CASE CloseRunner
  BY <1>6, Reports, RunnerStep DEF CloseRunner
<1> QED
  BY <1>1, <1>2, <1>3, <1>4, <1>5, <1>6 DEF Running, Stepping

(***************************************************************************)
(* The pause coordinator.                                                  *)
(***************************************************************************)
LEMMA PauseStep ==
    ASSUME SInv, UNCHANGED <<store, late, runner, lease, canceller, finalizer, scanner>>,
           \A x \in Callers \ {"pause"} : slot'[x] = slot[x],
           slot'["pause"].cmd.kind \in {None, "arrow"},
           slot'["pause"].cmd.kind = "arrow" =>
               pauser'.pc = slot'["pause"].cmd.to /\ pauser'.pc \in Moving,
           SlotsTyped', CommandsOK', AnsweredOK', LateOK', ThreadsTyped', PauserOK', PausedOK',
           RunnerOK', TokenOK'
    PROVE  SInv' /\ store' = store
<1>1. /\ slot'["work"] = slot["work"] /\ slot'["cancel"] = slot["cancel"]
      /\ slot'["final"] = slot["final"] /\ slot'["scan"] = slot["scan"]
  BY DEF Callers
<1>2. LeasesTyped' /\ RowsOK' /\ CancelOK' /\ FinalOK'
  BY <1>1 DEF SInv, LeasesTyped, RowsOK, CancelOK, FinalOK, Pursued
<1>3. OwnedOK'
  BY <1>1 DEF SInv, OwnedOK
<1> QED
  BY <1>2, <1>3 DEF SInv

\* An arrow that stops no work, or that a quiet run allows.
LEMMA ArrowCommand ==
    ASSUME SInv, NEW v \in Nat, v <= store.ver, NEW t \in Moving \cup {"cancelling", "cancelled"},
           v = store.ver /\ t # "running" => Quiet(store)
    PROVE  /\ Shaped(Arrow(v, t), store) /\ Timely(Arrow(v, t), store)
           /\ Arrow(v, t).kind = "arrow" /\ Arrow(v, t).to = t /\ Arrow(v, t).ver = v
BY DEF Arrow, Cmd, Shaped, Timely, Kinds, Moving, RunStates, Stopped, Outcomes, PauseBound, Finished

\* An arrow of the coordinator of which it knows nothing yet, or nothing more.
LEMMA NoneLate ==
    ASSUME SInv, pauser.pc # "idle", slot["pause"].ans # "lost" \/ pauser.pc \notin Moving
    PROVE  \A c \in late : ~(c.kind = "arrow" /\ c.to \in Moving)
BY DEF SInv, LateOK, PauserOK

\* Between its requests the pause coordinator has nothing at the writer.
LEMMA IdleSlot == ASSUME SInv, pauser.pc \in {"idle", "clear", "open"}
                  PROVE  slot["pause"].cmd.kind = None
BY DEF SInv, OwnedOK, Moving

\* The fields of its record.
LEMMA PauserFields ==
    SInv => /\ DOMAIN pauser = {"pc", "res", "gen", "mid", "unc", "paused", "ver"}
            /\ DOMAIN token = {"gen", "req", "ack"} /\ token.gen \in Nat
            /\ DOMAIN client = {"proof", "acked", "aborted"}
            /\ store.ver \in Nat
BY DEF SInv, ThreadsTyped, RowsOK, RowsTyped

\* Steps that leave the writer alone.
LEMMA SilentPause ==
    ASSUME SInv, UNCHANGED <<store, late, runner, lease, canceller, finalizer, scanner, slot>>,
           pauser.pc \in {"idle", "clear", "open"}, pauser'.pc \notin Moving,
           ThreadsTyped', PauserOK', PausedOK', LateOK', RunnerOK', TokenOK'
    PROVE  SInv' /\ store' = store
<1>1. slot'["pause"].cmd.kind = None
  BY IdleSlot
<1>2. SlotsTyped' /\ CommandsOK' /\ AnsweredOK'
  BY DEF SInv, SlotsTyped, CommandsOK, AnsweredOK
<1> QED
  BY <1>1, <1>2, PauseStep DEF None

\* request_pause reserves the signal.
LEMMA RequestPauseStep == ASSUME SInv, RequestPause PROVE SInv' /\ store' = store
<1>1. /\ pauser.pc = "idle" /\ ~pauser.res
      /\ token' = [gen |-> token.gen + 1, req |-> TRUE, ack |-> 0]
      /\ pauser' = [pauser EXCEPT !.res = TRUE, !.gen = token.gen + 1]
      /\ UNCHANGED <<store, late, runner, lease, canceller, finalizer, scanner, slot, client>>
  BY DEF RequestPause, quiet, others
<1>2. ~pauser.mid /\ ~pauser.paused /\ ~pauser.unc
  BY <1>1 DEF SInv, PauserOK
<1>3. /\ pauser'.pc = "idle" /\ pauser'.res /\ pauser'.gen = token.gen + 1
      /\ pauser'.mid = pauser.mid /\ pauser'.paused = pauser.paused /\ pauser'.unc = pauser.unc
      /\ DOMAIN pauser' = DOMAIN pauser
  BY <1>1, PauserFields
<1>4. ThreadsTyped'
  BY <1>1, <1>3, PauserFields DEF SInv, ThreadsTyped
<1>5. PauserOK' /\ PausedOK'
  BY <1>1, <1>2, <1>3, PauserFields DEF PauserOK, PausedOK, Moving
<1>6. LateOK'
  BY <1>1, <1>3 DEF SInv, LateOK
<1>7. RunnerOK'
  BY <1>1 DEF SInv, RunnerOK, ActiveNode
<1>8. TokenOK'
  BY <1>1, PauserFields DEF SInv, TokenOK
<1> QED
  BY <1>1, <1>3, <1>4, <1>5, <1>6, <1>7, <1>8, SilentPause DEF Moving

\* A step of the coordinator that sends an arrow.
LEMMA SendsArrow ==
    ASSUME SInv, UNCHANGED <<store, late, runner, lease, canceller, finalizer, scanner, token, client>>,
           NEW v \in Nat, v <= store.ver, NEW t \in Moving, Put("pause", Arrow(v, t)),
           v = store.ver /\ t # "running" => Quiet(store),
           DOMAIN pauser' = DOMAIN pauser, pauser'.pc = t, ~pauser'.unc, PauserOK',
           pauser'.mid \/ ~pauser'.paused
             \/ (t = "resuming" /\ store.state = "paused" /\ store.ver = pauser'.ver),
           \A c \in late : ~(c.kind = "arrow" /\ c.to \in Moving)
    PROVE  SInv' /\ store' = store
<1> DEFINE e == [cmd |-> Arrow(v, t), ans |-> None]
<1>1. /\ Shaped(Arrow(v, t), store) /\ Timely(Arrow(v, t), store)
      /\ Arrow(v, t).kind = "arrow" /\ Arrow(v, t).to = t /\ Arrow(v, t).ver = v
  BY ArrowCommand
<1>2. slot' = [slot EXCEPT !["pause"] = e]
  BY PutEntry
<1>3. DOMAIN e = {"cmd", "ans"} /\ e.cmd = Arrow(v, t) /\ e.ans = None /\ "pause" \in Callers
  BY DEF Callers
<1> HIDE DEF e
<1>4. /\ SlotsTyped' /\ RowsOK' /\ CommandsOK' /\ AnsweredOK'
      /\ slot'["pause"] = e
      /\ \A x \in Callers \ {"pause"} : slot'[x] = slot[x]
  BY <1>1, <1>2, <1>3, CallerStep
<1>5. LateOK'
  BY DEF LateOK
<1>6. PausedOK'
  BY <1>3, <1>4 DEF PausedOK, Untouched, Moving, None
<1>7. ThreadsTyped' /\ RunnerOK' /\ TokenOK'
  BY DEF SInv, ThreadsTyped, RunnerOK, TokenOK, ActiveNode
<1> QED
  BY <1>1, <1>3, <1>4, <1>5, <1>6, <1>7, PauseStep

\* The first arrow of a pause, sent when the runner has acknowledged.
LEMMA BeginPauseStep == ASSUME SInv, BeginPause PROVE SInv' /\ store' = store
<1>1. /\ pauser.pc = "idle" /\ pauser.res /\ ~pauser.paused /\ ~pauser.unc /\ ~pauser.mid
      /\ ProofCurrent /\ DurablyDrained /\ pauser' = [pauser EXCEPT !.pc = "pausing"]
      /\ Put("pause", Arrow(store.ver, "pausing"))
      /\ UNCHANGED <<store, late, runner, lease, canceller, finalizer, scanner, token, client>>
  BY DEF BeginPause, quiet, others, Pauses
<1>2. Quiet(store)
  BY <1>1, RowsSeen
<1>3. /\ pauser'.pc = "pausing" /\ pauser'.res = pauser.res /\ pauser'.gen = pauser.gen
      /\ pauser'.mid = pauser.mid /\ pauser'.paused = pauser.paused /\ pauser'.unc = pauser.unc
      /\ DOMAIN pauser' = DOMAIN pauser
  BY <1>1, PauserFields
<1>4. token.req /\ token.gen = pauser.gen /\ pauser.gen # 0 /\ token.ack = pauser.gen
  BY <1>1 DEF SInv, PauserOK, ProofCurrent
<1>5. PauserOK'
  BY <1>1, <1>3, <1>4 DEF PauserOK, Moving
<1>6. slot["pause"].cmd.kind = None
  BY <1>1, IdleSlot
<1>7. \A c \in late : ~(c.kind = "arrow" /\ c.to \in Moving)
  BY <1>1 DEF SInv, LateOK, Moving
<1> QED
  BY <1>1, <1>2, <1>3, <1>5, <1>7, PauserFields, SendsArrow DEF Moving

\* The first arrow of a resume.
LEMMA BeginResumeStep == ASSUME SInv, BeginResume PROVE SInv' /\ store' = store
<1>1. /\ pauser.pc = "idle" /\ pauser.res /\ pauser.paused /\ ~pauser.unc /\ ~pauser.mid
      /\ DurablyDrained /\ pauser' = [pauser EXCEPT !.pc = "resuming"]
      /\ store.state = "paused" /\ store.ver = pauser.ver
      /\ Put("pause", Arrow(store.ver, "resuming"))
      /\ UNCHANGED <<store, late, runner, lease, canceller, finalizer, scanner, token, client>>
  BY DEF BeginResume, quiet, others, Pauses
<1>2. Quiet(store)
  BY <1>1, RowsSeen
<1>3. /\ pauser'.pc = "resuming" /\ pauser'.res = pauser.res /\ pauser'.gen = pauser.gen
      /\ pauser'.mid = pauser.mid /\ pauser'.paused = pauser.paused /\ pauser'.unc = pauser.unc
      /\ pauser'.ver = pauser.ver /\ DOMAIN pauser' = DOMAIN pauser
  BY <1>1, PauserFields
<1>4. token.req /\ token.gen = pauser.gen /\ pauser.gen # 0 /\ token.ack # 0
  BY <1>1 DEF SInv, PauserOK
<1>5. PauserOK'
  BY <1>1, <1>3, <1>4 DEF PauserOK, Moving
<1>6. \A c \in late : ~(c.kind = "arrow" /\ c.to \in Moving)
  BY <1>1 DEF SInv, LateOK, Moving
<1> QED
  BY <1>1, <1>2, <1>3, <1>5, <1>6, PauserFields, SendsArrow DEF Moving

\* The coordinator takes an answer and sends nothing.
LEMMA TakesAnswer ==
    ASSUME SInv, UNCHANGED <<store, late, runner, lease, canceller, finalizer, scanner, token, client>>,
           Take("pause"), DOMAIN pauser' = DOMAIN pauser,
           pauser'.pc \in {"idle", "clear"}, PauserOK',
           pauser'.unc \/ \A c \in late : ~(c.kind = "arrow" /\ c.to \in Moving),
           pauser'.paused /\ ~pauser'.mid /\ ~pauser'.unc /\ pauser'.pc = "idle" =>
               store.state = "paused" /\ store.ver = pauser'.ver,
           pauser'.pc = "clear" => store.state \notin PauseBound
    PROVE  SInv' /\ store' = store
<1> DEFINE e == [cmd |-> NoCmd, ans |-> None]
<1>1. slot' = [slot EXCEPT !["pause"] = e]
  BY TakeEntry
<1>2. DOMAIN e = {"cmd", "ans"} /\ e.cmd.kind = None /\ e.ans = None /\ "pause" \in Callers
  BY NoCommand DEF Callers
<1> HIDE DEF e
<1>3. /\ SlotsTyped' /\ RowsOK' /\ CommandsOK' /\ AnsweredOK'
      /\ slot'["pause"] = e
      /\ \A x \in Callers \ {"pause"} : slot'[x] = slot[x]
  BY <1>1, <1>2, CallerStep
<1>4. LateOK'
  BY DEF LateOK
<1>5. PausedOK'
  BY <1>2, <1>3 DEF PausedOK, Untouched, Moving, None
<1>6. ThreadsTyped' /\ RunnerOK' /\ TokenOK'
  BY DEF SInv, ThreadsTyped, RunnerOK, TokenOK, ActiveNode
<1> QED
  BY <1>2, <1>3, <1>4, <1>5, <1>6, PauseStep DEF None

\* The answer to a first arrow.
LEMMA FirstArrowStep == ASSUME SInv, FirstArrow PROVE SInv' /\ store' = store
<1> DEFINE c == slot["pause"].cmd
           second == IF pauser.pc = "pausing" THEN "paused" ELSE "running"
<1>1. /\ pauser.pc \in {"pausing", "resuming"} /\ c.kind = "arrow" /\ slot["pause"].ans # None
      /\ UNCHANGED <<store, late, runner, lease, canceller, finalizer, scanner, token, client>>
  BY DEF FirstArrow, quiet, others, Asked
<1>2. c.to = pauser.pc /\ ~pauser.unc /\ pauser.res /\ token.req /\ token.gen = pauser.gen
      /\ pauser.gen # 0 /\ token.ack # 0 /\ (pauser.pc = "pausing" => ~pauser.paused)
  BY <1>1 DEF SInv, OwnedOK, PauserOK, Moving
<1>3. /\ slot["pause"].ans \in {"ok", "refused", "rejected", "lost"} /\ c.ver \in Nat
      /\ slot["pause"].ans = "ok" => c.ver + 1 \in Nat /\ c.ver + 1 <= store.ver
  BY <1>1, AnswerKnown DEF Callers, None
<1>4. CASE Ok("pause")
  <2>1. /\ pauser' = [pauser EXCEPT !.mid = TRUE,
                                    !.pc = IF @ = "pausing" THEN "paused" ELSE "running"]
        /\ Put("pause", Arrow(c.ver + 1, second))
    BY <1>4 DEF FirstArrow
  <2>2. /\ pauser'.pc = second /\ pauser'.mid /\ pauser'.res = pauser.res /\ pauser'.gen = pauser.gen
        /\ pauser'.paused = pauser.paused /\ pauser'.unc = pauser.unc
        /\ DOMAIN pauser' = DOMAIN pauser
    BY <2>1, PauserFields
  <2>3. second \in {"paused", "running"}
    OBVIOUS
  <2>4. c.ver + 1 = store.ver => Quiet(store)
    <3>1. c.ver + 1 = store.ver => store.state = c.to
      BY <1>1, <1>4 DEF SInv, AnsweredOK, Ok, Callers
    <3>2. store.state \in PauseBound => Quiet(store)
      BY DEF SInv, RowsOK, RowsClosed, Stopped
    <3> QED
      BY <1>1, <1>2, <3>1, <3>2 DEF PauseBound
  <2>5. c.ver + 1 \in Nat /\ c.ver + 1 <= store.ver
    BY <1>3, <1>4 DEF Ok
  <2>6. \A d \in late : ~(d.kind = "arrow" /\ d.to \in Moving)
    BY <1>1, <1>4, NoneLate DEF Ok
  <2> HIDE DEF second, c
  <2>7. PauserOK'
    BY <1>1, <1>2, <2>2, <2>3 DEF PauserOK, Moving
  <2>8. second \in Moving
    BY <2>3 DEF Moving
  <2>9. \A v \in Nat : \A t \in Moving :
          v <= store.ver /\ Put("pause", Arrow(v, t)) /\ (v = store.ver => Quiet(store)) /\ pauser'.pc = t
             => SInv' /\ store' = store
    BY <1>1, <1>2, <2>2, <2>6, <2>7, SendsArrow
  <2> QED
    BY <2>1, <2>2, <2>4, <2>5, <2>8, <2>9
<1>5. CASE ~Ok("pause")
  <2>1. /\ pauser' = [pauser EXCEPT !.pc = "idle", !.unc = Unknown("pause")]
        /\ Take("pause")
    BY <1>5 DEF FirstArrow
  <2>2. /\ pauser'.pc = "idle" /\ pauser'.mid = pauser.mid /\ pauser'.res = pauser.res
        /\ pauser'.gen = pauser.gen /\ pauser'.paused = pauser.paused /\ pauser'.ver = pauser.ver
        /\ pauser'.unc = Unknown("pause") /\ DOMAIN pauser' = DOMAIN pauser
    BY <2>1, PauserFields
  <2>3. PauserOK'
    BY <1>1, <1>2, <2>2 DEF PauserOK, Moving
  <2>4. pauser'.unc \/ slot["pause"].ans # "lost"
    BY <2>2 DEF Unknown
  <2>5. slot["pause"].ans # "lost" => \A d \in late : ~(d.kind = "arrow" /\ d.to \in Moving)
    BY <1>1, NoneLate
  <2>6. pauser'.paused /\ ~pauser'.mid /\ ~pauser'.unc => store.state = "paused" /\ store.ver = pauser'.ver
    <3>1. ASSUME pauser'.paused, ~pauser'.mid, ~pauser'.unc
          PROVE  store.state = "paused" /\ store.ver = pauser'.ver
      <4>1. slot["pause"].ans \in {"refused", "rejected"}
        BY <1>3, <1>5, <2>4, <3>1 DEF Ok
      <4>2. pauser.pc = "resuming" /\ pauser.paused /\ ~pauser.mid
        BY <1>1, <1>2, <2>2, <3>1
      <4> QED
        BY <1>2, <2>2, <4>1, <4>2 DEF SInv, PausedOK, Untouched
    <3> QED
      BY <3>1
  <2> QED
    BY <1>1, <2>1, <2>2, <2>3, <2>4, <2>5, <2>6, TakesAnswer
<1> QED
  BY <1>4, <1>5

\* The answer to a second arrow.
LEMMA SecondArrowStep == ASSUME SInv, SecondArrow PROVE SInv' /\ store' = store
<1> DEFINE c == slot["pause"].cmd
<1>1. /\ pauser.pc \in {"paused", "running"} /\ c.kind = "arrow" /\ slot["pause"].ans # None
      /\ Take("pause")
      /\ UNCHANGED <<store, late, runner, lease, canceller, finalizer, scanner, token, client>>
  BY DEF SecondArrow, quiet, others, Asked
<1>2. c.to = pauser.pc /\ ~pauser.unc /\ pauser.res /\ token.req /\ token.gen = pauser.gen
      /\ pauser.gen # 0 /\ token.ack # 0 /\ pauser.mid
  BY <1>1 DEF SInv, OwnedOK, PauserOK, Moving
<1>3. slot["pause"].ans # "lost" => \A d \in late : ~(d.kind = "arrow" /\ d.to \in Moving)
  BY <1>1, NoneLate
<1>4. CASE Ok("pause") /\ pauser.pc = "paused"
  <2>1. pauser' = [pauser EXCEPT !.pc = "idle", !.mid = FALSE, !.paused = TRUE, !.ver = c.ver + 1]
    BY <1>4 DEF SecondArrow
  <2>2. /\ pauser'.pc = "idle" /\ pauser'.mid = FALSE /\ pauser'.res = pauser.res
        /\ pauser'.gen = pauser.gen /\ pauser'.paused = TRUE /\ pauser'.ver = c.ver + 1
        /\ pauser'.unc = pauser.unc /\ DOMAIN pauser' = DOMAIN pauser
    BY <2>1, PauserFields
  <2>3. PauserOK'
    BY <1>1, <1>2, <2>2 DEF PauserOK, Moving
  <2>4. store.state = "paused" /\ store.ver = c.ver + 1
    BY <1>4 DEF SInv, PausedOK, Ok
  <2> QED
    BY <1>1, <1>3, <1>4, <2>2, <2>3, <2>4, TakesAnswer DEF Ok
<1>5. CASE Ok("pause") /\ pauser.pc = "running"
  <2>1. pauser' = [pauser EXCEPT !.pc = "clear"]
    BY <1>5 DEF SecondArrow
  <2>2. /\ pauser'.pc = "clear" /\ pauser'.mid = pauser.mid /\ pauser'.res = pauser.res
        /\ pauser'.gen = pauser.gen /\ pauser'.paused = pauser.paused
        /\ pauser'.unc = pauser.unc /\ DOMAIN pauser' = DOMAIN pauser
    BY <2>1, PauserFields
  <2>3. PauserOK'
    BY <1>1, <1>2, <2>2 DEF PauserOK, Moving
  <2>4. store.state \notin PauseBound
    BY <1>5 DEF SInv, PausedOK, Ok
  <2> QED
    BY <1>1, <1>3, <1>5, <2>2, <2>3, <2>4, TakesAnswer DEF Ok
<1>6. CASE ~Ok("pause")
  <2>1. pauser' = [pauser EXCEPT !.pc = "idle", !.unc = Unknown("pause")]
    BY <1>6 DEF SecondArrow
  <2>2. /\ pauser'.pc = "idle" /\ pauser'.mid = pauser.mid /\ pauser'.res = pauser.res
        /\ pauser'.gen = pauser.gen /\ pauser'.paused = pauser.paused
        /\ pauser'.unc = Unknown("pause") /\ DOMAIN pauser' = DOMAIN pauser
    BY <2>1, PauserFields
  <2>3. PauserOK'
    BY <1>1, <1>2, <2>2 DEF PauserOK, Moving
  <2>4. pauser'.unc \/ slot["pause"].ans # "lost"
    BY <2>2 DEF Unknown
  <2> QED
    BY <1>1, <1>2, <1>3, <2>2, <2>3, <2>4, TakesAnswer
<1> QED
  BY <1>1, <1>4, <1>5, <1>6

\* A resume that committed clears the signal.
LEMMA ClearSignalStep == ASSUME SInv, ClearSignal PROVE SInv' /\ store' = store
<1>1. /\ pauser.pc = "clear" /\ token' = [token EXCEPT !.req = FALSE, !.ack = 0]
      /\ pauser' = [pauser EXCEPT !.pc = "open"]
      /\ UNCHANGED <<store, late, runner, lease, canceller, finalizer, scanner, slot, client>>
  BY DEF ClearSignal, quiet, others, Pauses, Unsignalled
<1>2. pauser.mid /\ ~pauser.unc /\ pauser.res /\ store.state \notin PauseBound
  BY <1>1 DEF SInv, PauserOK, PausedOK
<1>3. /\ pauser'.pc = "open" /\ pauser'.res = pauser.res /\ pauser'.mid = pauser.mid
      /\ pauser'.paused = pauser.paused /\ pauser'.unc = pauser.unc
      /\ DOMAIN pauser' = DOMAIN pauser /\ DOMAIN token' = DOMAIN token
      /\ token'.gen = token.gen /\ token'.req = FALSE
  BY <1>1, PauserFields
<1>4. ThreadsTyped'
  BY <1>1, <1>3, PauserFields DEF SInv, ThreadsTyped
<1>5. PauserOK' /\ PausedOK'
  BY <1>1, <1>2, <1>3 DEF PauserOK, PausedOK, Untouched, Moving
<1>6. LateOK'
  BY <1>1, <1>2, NoneLate DEF LateOK, Moving
<1>7. RunnerOK' /\ TokenOK'
  BY <1>1, <1>3 DEF SInv, RunnerOK, ActiveNode, TokenOK
<1> QED
  BY <1>1, <1>3, <1>4, <1>5, <1>6, <1>7, SilentPause DEF Moving

\* A pause nobody acknowledged is aborted.
LEMMA AbortPauseStep == ASSUME SInv, AbortPause PROVE SInv' /\ store' = store
<1>1. /\ pauser.pc = "idle" /\ pauser.res /\ ~pauser.paused /\ ~pauser.mid /\ ~pauser.unc
      /\ token.gen = pauser.gen /\ token.ack = 0
      /\ token' = [token EXCEPT !.req = FALSE, !.ack = 0]
      /\ client' = [client EXCEPT !.aborted = @ \cup {token.gen}]
      /\ pauser' = [pauser EXCEPT !.pc = "open"]
      /\ UNCHANGED <<store, late, runner, lease, canceller, finalizer, scanner, slot>>
  BY DEF AbortPause, quiet, others, Pauses, Unsignalled
<1>2. token.req /\ token.gen \notin client.acked
  BY <1>1 DEF SInv, PauserOK, TokenOK
<1>3. /\ pauser'.pc = "open" /\ pauser'.res = pauser.res /\ pauser'.mid = pauser.mid
      /\ pauser'.paused = pauser.paused /\ pauser'.unc = pauser.unc
      /\ DOMAIN pauser' = DOMAIN pauser /\ DOMAIN token' = DOMAIN token
      /\ token'.gen = token.gen /\ token'.req = FALSE
      /\ client'.acked = client.acked /\ client'.aborted = client.aborted \cup {token.gen}
      /\ DOMAIN client' = DOMAIN client
  BY <1>1, PauserFields
<1>4. ThreadsTyped'
  BY <1>1, <1>3, PauserFields DEF SInv, ThreadsTyped
<1>5. PauserOK' /\ PausedOK'
  BY <1>1, <1>3 DEF PauserOK, PausedOK, Untouched, Moving
<1>6. LateOK'
  BY <1>1, <1>3 DEF SInv, LateOK, Moving
<1>7. RunnerOK' /\ TokenOK'
  BY <1>1, <1>2, <1>3, PauserFields DEF SInv, RunnerOK, ActiveNode, TokenOK
<1> QED
  BY <1>1, <1>3, <1>4, <1>5, <1>6, <1>7, SilentPause DEF Moving

\* The gate opens again.
LEMMA OpenGateStep == ASSUME SInv, OpenGate PROVE SInv' /\ store' = store
<1>1. /\ pauser.pc = "open"
      /\ pauser' = [pauser EXCEPT !.pc = "idle", !.res = FALSE, !.gen = 0, !.mid = FALSE,
                                  !.unc = FALSE, !.paused = FALSE, !.ver = 0]
      /\ UNCHANGED <<store, late, runner, lease, canceller, finalizer, scanner, slot, token, client>>
  BY DEF OpenGate, quiet, others
<1>2. /\ pauser'.pc = "idle" /\ pauser'.res = FALSE /\ pauser'.mid = FALSE
      /\ pauser'.paused = FALSE /\ pauser'.unc = FALSE /\ DOMAIN pauser' = DOMAIN pauser
  BY <1>1, PauserFields
<1>3. ThreadsTyped' /\ RunnerOK' /\ TokenOK'
  BY <1>1, <1>2 DEF SInv, ThreadsTyped, RunnerOK, TokenOK, ActiveNode
<1>4. PauserOK' /\ PausedOK'
  BY <1>2 DEF PauserOK, PausedOK, Untouched, Moving
<1>5. LateOK'
  BY <1>1, NoneLate DEF LateOK, Moving
<1> QED
  BY <1>1, <1>2, <1>3, <1>4, <1>5, SilentPause DEF Moving

\* The pause coordinator, by action.
LEMMA PausingStep == ASSUME SInv, Pausing PROVE SInv' /\ store' = store
BY RequestPauseStep, BeginPauseStep, BeginResumeStep, FirstArrowStep, SecondArrowStep,
   ClearSignalStep, AbortPauseStep, OpenGateStep DEF Pausing

(***************************************************************************)
(* The cancellation coordinator.                                           *)
(***************************************************************************)
LEMMA CancelStep ==
    ASSUME SInv, UNCHANGED <<store, late, runner, token, client, pauser, finalizer, scanner>>,
           \A x \in Callers \ {"cancel"} : slot'[x] = slot[x],
           slot'["cancel"].cmd.kind \in {None, "arrow", "result"},
           slot'["cancel"].cmd.kind = "arrow" =>
               /\ canceller'.pc = slot'["cancel"].cmd.to
               /\ canceller'.pc \in {"cancelling", "cancelled"},
           canceller'.pc = "work" => canceller'.on \in Works,
           DOMAIN canceller' = DOMAIN canceller,
           SlotsTyped', CommandsOK', AnsweredOK', LeasesTyped', CancelOK'
    PROVE  SInv' /\ store' = store
<1>1. /\ slot'["work"] = slot["work"] /\ slot'["pause"] = slot["pause"]
      /\ slot'["final"] = slot["final"] /\ slot'["scan"] = slot["scan"]
  BY DEF Callers
<1>2. RowsOK' /\ LateOK' /\ PauserOK' /\ PausedOK' /\ FinalOK'
  BY <1>1 DEF SInv, RowsOK, LateOK, PauserOK, PausedOK, Untouched, FinalOK, Pursued
<1>3. ThreadsTyped' /\ RunnerOK' /\ TokenOK'
  BY DEF SInv, ThreadsTyped, RunnerOK, ActiveNode, TokenOK
<1>4. OwnedOK'
  BY <1>1 DEF SInv, OwnedOK
<1> QED
  BY <1>2, <1>3, <1>4 DEF SInv

\* The fields of the cancellation coordinator's record.
LEMMA CancellerFields ==
    SInv => /\ DOMAIN canceller = {"pc", "res", "done", "mid", "unc", "on"}
            /\ store.ver \in Nat /\ "cancel" \in Callers
BY DEF SInv, ThreadsTyped, RowsOK, RowsTyped, Callers

\* It leaves the writer alone.
LEMMA SilentCancel ==
    ASSUME SInv, UNCHANGED <<store, late, runner, token, client, pauser, finalizer, scanner, slot, lease>>,
           canceller.pc \in {"idle", "release"}, canceller'.pc = "idle",
           canceller'.done = canceller.done, DOMAIN canceller' = DOMAIN canceller
    PROVE  SInv' /\ store' = store
<1>1. slot["cancel"].cmd.kind \in {None, "result"}
  BY DEF SInv, OwnedOK
<1>2. SlotsTyped' /\ CommandsOK' /\ AnsweredOK' /\ LeasesTyped' /\ CancelOK'
  BY DEF SInv, SlotsTyped, CommandsOK, AnsweredOK, LeasesTyped, CancelOK
<1> QED
  BY <1>1, <1>2, CancelStep DEF None

\* It sends or takes a command.
LEMMA CancelSends ==
    ASSUME SInv, UNCHANGED <<store, late, runner, token, client, pauser, finalizer, scanner>>,
           NEW c, slot' = [slot EXCEPT !["cancel"] = [cmd |-> c, ans |-> None]],
           c.kind \in {None, "arrow", "result"},
           c.kind # None => Shaped(c, store) /\ Timely(c, store),
           c.kind = "arrow" => canceller'.pc = c.to /\ c.to \in {"cancelling", "cancelled"},
           canceller'.pc = "work" => canceller'.on \in Works,
           canceller'.done => canceller.done \/ store.state = "cancelled",
           DOMAIN canceller' = DOMAIN canceller, LeasesTyped'
    PROVE  SInv' /\ store' = store
<1> DEFINE e == [cmd |-> c, ans |-> None]
<1>1. DOMAIN e = {"cmd", "ans"} /\ e.cmd = c /\ e.ans = None /\ "cancel" \in Callers
  BY DEF Callers
<1>2. slot' = [slot EXCEPT !["cancel"] = e]
  OBVIOUS
<1> HIDE DEF e
<1>3. /\ SlotsTyped' /\ RowsOK' /\ CommandsOK' /\ AnsweredOK'
      /\ slot'["cancel"] = e
      /\ \A x \in Callers \ {"cancel"} : slot'[x] = slot[x]
  BY <1>1, <1>2, CallerStep
<1>4. CancelOK'
  BY <1>1, <1>3 DEF SInv, CancelOK, None
<1> QED
  BY <1>1, <1>3, <1>4, CancelStep

\* The cancellation coordinator, by action.
LEMMA CancellationStep == ASSUME SInv, Cancellation PROVE SInv' /\ store' = store
<1>0. UNCHANGED <<store, late, runner, token, client, pauser, finalizer, scanner>>
  BY DEF Cancellation, RequestCancellation, WorkCancelled, AlreadyCancelled, Cancel, Cancelling,
         Cancelled, FinishTerminal, CancelWork, still, bystanders
<1>1. CASE RequestCancellation \/ AlreadyCancelled \/ FinishTerminal
  <2>1. /\ canceller.pc \in {"idle", "release"} /\ slot' = slot /\ lease' = lease
        /\ \/ canceller' = [canceller EXCEPT !.res = TRUE] /\ canceller.pc = "idle"
           \/ canceller' = [canceller EXCEPT !.pc = "idle", !.res = FALSE, !.mid = FALSE]
    BY <1>1 DEF RequestCancellation, AlreadyCancelled, FinishTerminal, Released, Ready
  <2>2. canceller'.pc = "idle" /\ canceller'.done = canceller.done /\ DOMAIN canceller' = DOMAIN canceller
    BY <2>1, CancellerFields
  <2> QED
    BY <1>0, <2>1, <2>2, SilentCancel
<1>2. ASSUME NEW w \in Works, CancelWork(w)
      PROVE  SInv' /\ store' = store
  <2>1. Submit("cancel", w, "cancelled") /\ canceller' = [canceller EXCEPT !.pc = "work", !.on = w]
    BY <1>2 DEF CancelWork
  <2>2. canceller'.on = w /\ canceller'.done = canceller.done /\ DOMAIN canceller' = DOMAIN canceller
    BY <2>1, CancellerFields
  <2>3. "cancelled" \in WorkStates \ {"running"}
    BY DEF WorkStates, TerminalWork
  <2> DEFINE c == Cmd("result", lease[w].ver, w, "cancelled")
  <2>4. /\ LeasesTyped'
        /\ slot' = [slot EXCEPT !["cancel"] = [cmd |-> c, ans |-> None]]
        /\ Shaped(c, store) /\ Timely(c, store) /\ c.kind = "result"
    BY <1>0, <2>1, <2>3, SubmitKnown
  <2> HIDE DEF c
  <2> QED
    BY <1>0, <2>2, <2>4, CancelSends
<1>3. CASE WorkCancelled
  <2>1. /\ canceller.pc = "work" /\ slot["cancel"].cmd.kind = "result" /\ slot["cancel"].ans # None
        /\ Take("cancel") /\ lease' = CompletionDisposition("cancel", canceller.on)
        /\ canceller' = [canceller EXCEPT !.pc = "idle", !.on = None]
    BY <1>3 DEF WorkCancelled, Asked
  <2>2. canceller'.pc = "idle" /\ canceller'.done = canceller.done /\ DOMAIN canceller' = DOMAIN canceller
    BY <2>1, CancellerFields
  <2>3. canceller.on \in Works
    BY <2>1 DEF SInv, OwnedOK
  <2>4. LeasesTyped'
    BY <1>0, <2>1, <2>3, CancellerFields, Dispositions DEF None
  <2>5. slot' = [slot EXCEPT !["cancel"] = [cmd |-> NoCmd, ans |-> None]]
    BY <2>1, TakeEntry
  <2> QED
    BY <1>0, <2>2, <2>4, <2>5, NoCommand, CancelSends DEF None
<1>4. CASE Cancel
  <2> DEFINE to == IF store.state = "running" THEN "cancelling" ELSE "cancelled"
  <2>1. /\ DurablyDrained /\ canceller' = [canceller EXCEPT !.pc = to]
        /\ Put("cancel", Arrow(store.ver, to)) /\ lease' = lease
    BY <1>4 DEF Cancel
  <2>2. Quiet(store) /\ to \in {"cancelling", "cancelled"}
    BY <2>1, RowsSeen
  <2>3. canceller'.pc = to /\ canceller'.done = canceller.done /\ DOMAIN canceller' = DOMAIN canceller
    BY <2>1, CancellerFields
  <2> HIDE DEF to
  <2>4. LeasesTyped'
    BY <1>0, <2>1 DEF SInv, LeasesTyped
  <2> DEFINE c == Arrow(store.ver, to)
  <2>5. Shaped(c, store) /\ Timely(c, store) /\ c.kind = "arrow" /\ c.to = to
    BY <2>2, CancellerFields, ArrowCommand
  <2>6. slot' = [slot EXCEPT !["cancel"] = [cmd |-> c, ans |-> None]]
    BY <2>1, PutEntry
  <2> HIDE DEF c
  <2> QED
    BY <1>0, <2>2, <2>3, <2>4, <2>5, <2>6, CancelSends
<1>5. CASE Cancelling
  <2>1. /\ canceller.pc = "cancelling" /\ slot["cancel"].cmd.kind = "arrow"
        /\ slot["cancel"].ans # None /\ lease' = lease
    BY <1>5 DEF Cancelling, Asked
  <2>2. slot["cancel"].cmd.to = "cancelling"
    BY <2>1 DEF SInv, OwnedOK
  <2>3. LeasesTyped'
    BY <1>0, <2>1 DEF SInv, LeasesTyped
  <2>4. CASE Ok("cancel")
    <3> DEFINE v == slot["cancel"].cmd.ver + 1
               c == Arrow(v, "cancelled")
    <3>1. /\ canceller' = [canceller EXCEPT !.pc = "cancelled", !.mid = TRUE]
          /\ Put("cancel", c)
      BY <1>5, <2>4 DEF Cancelling
    <3>2. canceller'.pc = "cancelled" /\ canceller'.done = canceller.done /\ DOMAIN canceller' = DOMAIN canceller
      BY <3>1, CancellerFields
    <3>3. v \in Nat /\ v <= store.ver
      BY <2>1, <2>4, CancellerFields, AnswerKnown DEF Ok, None
    <3>4. v = store.ver => Quiet(store)
      <4>1. v = store.ver => store.state = "cancelling"
        BY <2>1, <2>2, <2>4, CancellerFields DEF SInv, AnsweredOK, Ok
      <4> QED
        BY <4>1 DEF SInv, RowsOK, RowsClosed, Stopped
    <3> HIDE DEF v
    <3>5. Shaped(c, store) /\ Timely(c, store) /\ c.kind = "arrow" /\ c.to = "cancelled"
      BY <3>3, <3>4, ArrowCommand
    <3>6. slot' = [slot EXCEPT !["cancel"] = [cmd |-> c, ans |-> None]]
      BY <3>1, PutEntry
    <3> HIDE DEF c
    <3> QED
      BY <1>0, <2>3, <3>2, <3>5, <3>6, CancelSends
  <2>5. CASE ~Ok("cancel")
    <3>1. CancelFails /\ Take("cancel")
      BY <1>5, <2>5 DEF Cancelling
    <3>2. canceller'.pc = "idle" /\ canceller'.done = canceller.done /\ DOMAIN canceller' = DOMAIN canceller
      BY <3>1, CancellerFields DEF CancelFails
    <3>3. slot' = [slot EXCEPT !["cancel"] = [cmd |-> NoCmd, ans |-> None]]
      BY <3>1, TakeEntry
    <3> QED
      BY <1>0, <2>3, <3>2, <3>3, NoCommand, CancelSends DEF None
  <2> QED
    BY <2>4, <2>5
<1>6. CASE Cancelled
  <2>1. /\ canceller.pc = "cancelled" /\ slot["cancel"].cmd.kind = "arrow"
        /\ slot["cancel"].ans # None /\ Take("cancel") /\ lease' = lease
    BY <1>6 DEF Cancelled, Asked
  <2>2. LeasesTyped'
    BY <1>0, <2>1 DEF SInv, LeasesTyped
  <2>3. slot' = [slot EXCEPT !["cancel"] = [cmd |-> NoCmd, ans |-> None]]
    BY <2>1, TakeEntry
  <2>4. /\ DOMAIN canceller' = DOMAIN canceller /\ canceller'.pc \in {"idle", "release"}
        /\ canceller'.done => canceller.done \/ store.state = "cancelled"
    <3>1. CASE Ok("cancel")
      <4>1. canceller' = [canceller EXCEPT !.pc = "release", !.done = TRUE, !.mid = FALSE]
        BY <1>6, <3>1 DEF Cancelled
      <4>2. store.state = "cancelled"
        BY <2>1, <3>1 DEF SInv, OwnedOK, CancelOK, Ok
      <4> QED
        BY <4>1, <4>2, CancellerFields
    <3>2. CASE ~Ok("cancel")
      BY <1>6, <3>2, CancellerFields DEF Cancelled, CancelFails
    <3> QED
      BY <3>1, <3>2
  <2> QED
    BY <1>0, <2>2, <2>3, <2>4, NoCommand, CancelSends DEF None
<1> QED
  BY <1>1, <1>2, <1>3, <1>4, <1>5, <1>6 DEF Cancellation

(***************************************************************************)
(* The finalizer and the recovery scanner.                                 *)
(***************************************************************************)
LEMMA FinalStep ==
    ASSUME SInv, UNCHANGED <<store, late, lease, runner, token, client, pauser, canceller, scanner>>,
           NEW c, slot' = [slot EXCEPT !["final"] = [cmd |-> c, ans |-> None]],
           c.kind \in {None, "arrow", "empty"},
           c.kind # None => Shaped(c, store) /\ Timely(c, store),
           c.kind = "arrow" => c.to \in Outcomes,
           DOMAIN finalizer' = DOMAIN finalizer, finalizer'.todo \subseteq EmptyNodes,
           c.kind # None =>
              /\ finalizer'.to \in Outcomes
              /\ finalizer'.to = "failed" => finalizer'.print = {}
              /\ c.ver = store.ver =>
                    /\ store.state = "running" /\ Ended(store)
                    /\ finalizer'.to = OutcomeOf(store) /\ finalizer'.print = PrintOf(store)
                    /\ EmptyLeft(store) = finalizer'.todo
    PROVE  SInv' /\ store' = store
<1> DEFINE e == [cmd |-> c, ans |-> None]
<1>1. DOMAIN e = {"cmd", "ans"} /\ e.cmd = c /\ e.ans = None /\ "final" \in Callers
  BY DEF Callers
<1>2. slot' = [slot EXCEPT !["final"] = e]
  OBVIOUS
<1> HIDE DEF e
<1>3. /\ SlotsTyped' /\ RowsOK' /\ CommandsOK' /\ AnsweredOK'
      /\ slot'["final"] = e
      /\ \A x \in Callers \ {"final"} : slot'[x] = slot[x]
  BY <1>1, <1>2, CallerStep
<1>4. /\ slot'["work"] = slot["work"] /\ slot'["pause"] = slot["pause"]
      /\ slot'["cancel"] = slot["cancel"] /\ slot'["scan"] = slot["scan"]
  BY <1>3 DEF Callers
<1>5. LeasesTyped' /\ LateOK' /\ PauserOK' /\ PausedOK' /\ CancelOK'
  BY <1>4 DEF SInv, LeasesTyped, LateOK, PauserOK, PausedOK, Untouched, CancelOK
<1>6. ThreadsTyped' /\ RunnerOK' /\ TokenOK'
  BY DEF SInv, ThreadsTyped, RunnerOK, ActiveNode, TokenOK
<1>7. OwnedOK'
  BY <1>1, <1>3, <1>4 DEF SInv, OwnedOK
<1>8. FinalOK'
  BY <1>1, <1>3 DEF FinalOK, Pursued, None
<1> QED
  BY <1>3, <1>5, <1>6, <1>7, <1>8 DEF SInv

\* The next command of a finalization that still knows the rows, or is overtaken.
LEMMA OnwardCommand ==
    ASSUME SInv, NEW todo \in SUBSET EmptyNodes, NEW v \in Nat, v <= store.ver,
           NEW to \in Outcomes, NEW print, to = "failed" => print = {},
           v = store.ver =>
              /\ store.state = "running" /\ Ended(store)
              /\ to = OutcomeOf(store) /\ print = PrintOf(store)
              /\ EmptyLeft(store) = todo
    PROVE  /\ Onward(todo, v, to, print).kind \in {"arrow", "empty"}
           /\ Onward(todo, v, to, print).ver = v
           /\ Onward(todo, v, to, print).kind = "arrow" => Onward(todo, v, to, print).to = to
           /\ Shaped(Onward(todo, v, to, print), store)
           /\ Timely(Onward(todo, v, to, print), store)
<1>1. CASE todo = {}
  <2> DEFINE c == [Arrow(v, to) EXCEPT !.print = print]
  <2>1. Onward(todo, v, to, print) = c
    BY <1>1 DEF Onward
  <2>2. c.kind = "arrow" /\ c.ver = v /\ c.to = to /\ c.print = print
    BY DEF Arrow, Cmd
  <2> HIDE DEF c
  <2>3. v = store.ver => store.done = EmptyNodes /\ Quiet(store)
    BY <1>1, EndedIsQuiet DEF EmptyLeft, SInv, RowsOK, RowsTyped
  <2>4. to \in RunStates /\ (to \notin {"succeeded", "partially"} => print = {})
    BY DEF Outcomes, RunStates, Finished
  <2>5. Shaped(c, store)
    BY <2>2, <2>4 DEF Shaped, Kinds
  <2>6. Timely(c, store)
    BY <2>2, <2>3 DEF Timely
  <2> QED
    BY <2>1, <2>2, <2>5, <2>6
<1>2. CASE todo # {}
  <2> DEFINE c == Cmd("empty", v, NextEmpty(todo), "succeeded")
  <2>1. Onward(todo, v, to, print) = c
    BY <1>2 DEF Onward
  <2>2. c.kind = "empty" /\ c.ver = v /\ c.on = NextEmpty(todo)
    BY DEF Cmd
  <2>3. NextEmpty(todo) \in EmptyNodes
    BY <1>2 DEF NextEmpty
  <2> HIDE DEF c
  <2>4. Shaped(c, store)
    BY <2>2, <2>3 DEF Shaped, Kinds
  <2>5. Timely(c, store)
    BY <2>2 DEF Timely
  <2> QED
    BY <2>1, <2>2, <2>4, <2>5
<1> QED
  BY <1>1, <1>2

\* What the rows make of a run is an outcome, and a failed one has no fingerprint.
LEMMA OutcomeFacts ==
    /\ OutcomeOf(store) \in Outcomes
    /\ OutcomeOf(store) = "failed" => PrintOf(store) = {}
    /\ EmptyLeft(store) \subseteq EmptyNodes
BY DEF OutcomeOf, Outcomes, PrintOf, EmptyLeft

\* The finalizer, by action.
LEMMA FinalizationStep == ASSUME SInv, Finalization PROVE SInv' /\ store' = store
<1>0. UNCHANGED <<store, late, lease, runner, token, client, pauser, canceller, scanner>>
  BY DEF Finalization, FinalizeRunning, EmptyFinalized, RunFinalized, passive
<1>1. store.ver \in Nat /\ "final" \in Callers
      /\ DOMAIN finalizer = {"pc", "unc", "todo", "to", "print"} /\ finalizer.todo \subseteq EmptyNodes
  BY DEF SInv, RowsOK, RowsTyped, ThreadsTyped, FinalOK, Callers
<1>2. CASE FinalizeRunning
  <2> DEFINE todo == EmptyLeft(store)
             to == OutcomeOf(store)
             print == PrintOf(store)
             c == Onward(todo, store.ver, to, print)
  <2>1. /\ store.state = "running" /\ Ended(store)
        /\ finalizer' = [pc |-> "wait", unc |-> FALSE, todo |-> todo, to |-> to, print |-> print]
        /\ Put("final", c)
    BY <1>2, RowsSeen DEF FinalizeRunning
  <2>2. todo \in SUBSET EmptyNodes /\ to \in Outcomes /\ (to = "failed" => print = {})
    BY OutcomeFacts
  <2>3. /\ finalizer'.todo = todo /\ finalizer'.to = to /\ finalizer'.print = print
        /\ DOMAIN finalizer' = DOMAIN finalizer
    BY <1>1, <2>1
  <2>4. todo = EmptyLeft(store) /\ to = OutcomeOf(store) /\ print = PrintOf(store)
    OBVIOUS
  <2> HIDE DEF todo, to, print
  <2>5. /\ c.kind \in {"arrow", "empty"} /\ (c.kind = "arrow" => c.to = to)
        /\ Shaped(c, store) /\ Timely(c, store)
    BY <1>1, <2>1, <2>2, <2>4, OnwardCommand
  <2>6. slot' = [slot EXCEPT !["final"] = [cmd |-> c, ans |-> None]]
    BY <2>1, PutEntry
  <2> HIDE DEF c
  <2> QED
    BY <1>0, <2>1, <2>2, <2>3, <2>4, <2>5, <2>6, FinalStep
<1>3. ASSUME FinalizeStops, Take("final")
      PROVE  SInv' /\ store' = store
  <2>1. DOMAIN finalizer' = DOMAIN finalizer /\ finalizer'.todo = {}
    BY <1>1, <1>3 DEF FinalizeStops, NewFinalizer
  <2>2. slot' = [slot EXCEPT !["final"] = [cmd |-> NoCmd, ans |-> None]]
    BY <1>3, TakeEntry
  <2> QED
    BY <1>0, <2>1, <2>2, NoCommand, FinalStep DEF None
<1>4. CASE EmptyFinalized /\ Ok("final")
  <2> DEFINE d == slot["final"].cmd
             rest == finalizer.todo \ {d.on}
             v == d.ver + 1
             c == Onward(rest, v, finalizer.to, finalizer.print)
  <2>1. /\ d.kind = "empty" /\ slot["final"].ans = "ok"
        /\ finalizer' = [finalizer EXCEPT !.todo = rest] /\ Put("final", c)
    BY <1>4 DEF EmptyFinalized, Asked, Ok
  <2>2. v \in Nat /\ v <= store.ver
    BY <1>1, <2>1, AnswerKnown DEF None
  <2>3. /\ finalizer'.todo = rest /\ finalizer'.to = finalizer.to
        /\ finalizer'.print = finalizer.print /\ DOMAIN finalizer' = DOMAIN finalizer
    BY <1>1, <2>1
  <2>4. finalizer.to \in Outcomes /\ (finalizer.to = "failed" => finalizer.print = {})
    BY <2>1 DEF SInv, FinalOK, None
  <2>5. v = store.ver =>
           /\ store.state = "running" /\ Ended(store)
           /\ finalizer.to = OutcomeOf(store) /\ finalizer.print = PrintOf(store)
           /\ EmptyLeft(store) = rest
    BY <2>1 DEF SInv, FinalOK, Pursued, None
  <2>6. rest \in SUBSET EmptyNodes
    BY <1>1
  <2> HIDE DEF rest, v
  <2>7. /\ c.kind \in {"arrow", "empty"} /\ c.ver = v /\ (c.kind = "arrow" => c.to = finalizer.to)
        /\ Shaped(c, store) /\ Timely(c, store)
    BY <2>2, <2>4, <2>5, <2>6, OnwardCommand
  <2>8. slot' = [slot EXCEPT !["final"] = [cmd |-> c, ans |-> None]]
    BY <2>1, PutEntry
  <2> HIDE DEF c
  <2> QED
    BY <1>0, <2>3, <2>4, <2>5, <2>6, <2>7, <2>8, FinalStep
<1> QED
  BY <1>2, <1>3, <1>4 DEF Finalization, EmptyFinalized, RunFinalized

\* A step of the recovery scan.
LEMMA ScanStep ==
    ASSUME SInv, UNCHANGED <<store, late, lease, runner, token, client, pauser, canceller, finalizer>>,
           NEW c, slot' = [slot EXCEPT !["scan"] = [cmd |-> c, ans |-> None]],
           c.kind \in {None, "recover"},
           c.kind # None => Shaped(c, store) /\ Timely(c, store),
           DOMAIN scanner' = DOMAIN scanner, scanner'.todo \subseteq Works
    PROVE  SInv' /\ store' = store
<1> DEFINE e == [cmd |-> c, ans |-> None]
<1>1. DOMAIN e = {"cmd", "ans"} /\ e.cmd = c /\ e.ans = None /\ "scan" \in Callers
  BY DEF Callers
<1>2. slot' = [slot EXCEPT !["scan"] = e]
  OBVIOUS
<1> HIDE DEF e
<1>3. /\ SlotsTyped' /\ RowsOK' /\ CommandsOK' /\ AnsweredOK'
      /\ slot'["scan"] = e
      /\ \A x \in Callers \ {"scan"} : slot'[x] = slot[x]
  BY <1>1, <1>2, CallerStep
<1>4. /\ slot'["work"] = slot["work"] /\ slot'["pause"] = slot["pause"]
      /\ slot'["cancel"] = slot["cancel"] /\ slot'["final"] = slot["final"]
  BY <1>3 DEF Callers
<1>5. LeasesTyped' /\ LateOK' /\ PauserOK' /\ PausedOK' /\ CancelOK' /\ FinalOK'
  BY <1>4 DEF SInv, LeasesTyped, LateOK, PauserOK, PausedOK, Untouched, CancelOK, FinalOK, Pursued
<1>6. ThreadsTyped' /\ RunnerOK' /\ TokenOK'
  BY DEF SInv, ThreadsTyped, RunnerOK, ActiveNode, TokenOK
<1>7. OwnedOK'
  BY <1>1, <1>3, <1>4 DEF SInv, OwnedOK
<1> QED
  BY <1>3, <1>5, <1>6, <1>7 DEF SInv

\* The scan's command takes a claimed item back.
LEMMA ReclaimCommand ==
    ASSUME SInv, NEW todo \in SUBSET Works, todo # {}, NEW v \in Nat, v <= store.ver
    PROVE  /\ Reclaim(todo, v).kind = "recover"
           /\ Shaped(Reclaim(todo, v), store) /\ Timely(Reclaim(todo, v), store)
<1> DEFINE w == CHOOSE w \in todo : TRUE
<1>1. w \in Works
  OBVIOUS
<1>2. Reclaim(todo, v) = Cmd("recover", v, w, "pending")
  BY DEF Reclaim
<1> HIDE DEF w
<1>3. "pending" \in WorkStates \ {"running"}
  BY DEF WorkStates
<1> QED
  BY <1>1, <1>2, <1>3 DEF Cmd, Shaped, Timely, Kinds

\* The recovery scan, by action.
LEMMA ScanningStep == ASSUME SInv, Scanning PROVE SInv' /\ store' = store
<1>0. UNCHANGED <<store, late, lease, runner, token, client, pauser, canceller, finalizer>>
  BY DEF Scanning, Recover, Recovered, audience
<1>1. store.ver \in Nat /\ "scan" \in Callers
      /\ DOMAIN scanner = {"pc", "unc", "todo"} /\ scanner.todo \subseteq Works
  BY DEF SInv, RowsOK, RowsTyped, ThreadsTyped, OwnedOK, Callers
<1>2. ASSUME NEW expired \in SUBSET RunningWork, Recover(expired)
      PROVE  SInv' /\ store' = store
  <2> DEFINE c == Reclaim(expired, store.ver)
  <2>1. /\ expired # {} /\ scanner' = [scanner EXCEPT !.pc = "wait", !.todo = expired]
        /\ Put("scan", c)
    BY <1>2 DEF Recover
  <2>2. expired \in SUBSET Works
    BY DEF RunningWork
  <2>3. scanner'.todo = expired /\ DOMAIN scanner' = DOMAIN scanner
    BY <1>1, <2>1
  <2>4. c.kind = "recover" /\ Shaped(c, store) /\ Timely(c, store)
    BY <1>1, <2>1, <2>2, ReclaimCommand
  <2>5. slot' = [slot EXCEPT !["scan"] = [cmd |-> c, ans |-> None]]
    BY <2>1, PutEntry
  <2> HIDE DEF c
  <2> QED
    BY <1>0, <2>2, <2>3, <2>4, <2>5, ScanStep
<1>3. CASE Recovered
  <2> DEFINE rest == scanner.todo \ {slot["scan"].cmd.on}
             v == slot["scan"].cmd.ver + 1
             c == Reclaim(rest, v)
  <2>1. slot["scan"].cmd.kind = "recover" /\ slot["scan"].ans # None
    BY <1>3 DEF Recovered, Asked
  <2>2. rest \in SUBSET Works
    BY <1>1
  <2>3. CASE Ok("scan") /\ rest # {}
    <3>1. scanner' = [scanner EXCEPT !.todo = rest] /\ Put("scan", c)
      BY <1>3, <2>3 DEF Recovered
    <3>2. scanner'.todo = rest /\ DOMAIN scanner' = DOMAIN scanner
      BY <1>1, <3>1
    <3>3. v \in Nat /\ v <= store.ver
      BY <1>1, <2>1, <2>3, AnswerKnown DEF Ok, None
    <3> HIDE DEF v, rest
    <3>4. c.kind = "recover" /\ Shaped(c, store) /\ Timely(c, store)
      BY <2>2, <2>3, <3>3, ReclaimCommand
    <3>5. slot' = [slot EXCEPT !["scan"] = [cmd |-> c, ans |-> None]]
      BY <3>1, PutEntry
    <3> HIDE DEF c
    <3> QED
      BY <1>0, <2>2, <3>2, <3>4, <3>5, ScanStep
  <2>4. CASE ~(Ok("scan") /\ rest # {})
    <3>1. /\ scanner' = [pc |-> "idle", unc |-> Unknown("scan"), todo |-> {}]
          /\ Take("scan")
      BY <1>3, <2>4 DEF Recovered
    <3>2. scanner'.todo = {} /\ DOMAIN scanner' = DOMAIN scanner
      BY <1>1, <3>1
    <3>3. slot' = [slot EXCEPT !["scan"] = [cmd |-> NoCmd, ans |-> None]]
      BY <3>1, TakeEntry
    <3> QED
      BY <1>0, <3>2, <3>3, NoCommand, ScanStep DEF None
  <2> QED
    BY <2>3, <2>4
<1> QED
  BY <1>2, <1>3 DEF Scanning

(***************************************************************************)
(* The theorems.                                                           *)
(***************************************************************************)
\* Every step keeps the invariant, and none changes the rows of a finished run.
LEMMA NextSInv == SInv /\ [Next]_vars => SInv' /\ (store' = store \/ store.state \notin Finished)
<1> SUFFICES ASSUME SInv, [Next]_vars
             PROVE  SInv' /\ (store' = store \/ store.state \notin Finished)
  OBVIOUS
<1>1. CASE Writing
  BY <1>1, ExecuteStep DEF Writing
<1>2. CASE Failing
  BY <1>2, RefuseStep, LoseStep, CrashStep DEF Failing
<1>3. CASE StartRun
  BY <1>3, StartStep
<1>4. CASE \E c \in late : Late(c)
  BY <1>4, LateStep
<1>5. CASE Leasing
  BY <1>5, LeasingStep
<1>6. CASE Running
  BY <1>6, RunningStep
<1>7. CASE Pausing
  BY <1>7, PausingStep
<1>8. CASE Cancellation
  BY <1>8, CancellationStep
<1>9. CASE Finalization
  BY <1>9, FinalizationStep
<1>10. CASE Scanning
  BY <1>10, ScanningStep
<1>11. CASE UNCHANGED vars
  <2>1. UNCHANGED <<store, slot, late, lease, runner, token, client, pauser, canceller, finalizer, scanner>>
    BY <1>11 DEF vars
  <2>2. SlotsTyped' /\ LeasesTyped' /\ ThreadsTyped' /\ RowsOK' /\ CommandsOK' /\ AnsweredOK'
    BY <2>1 DEF SInv, SlotsTyped, LeasesTyped, ThreadsTyped, RowsOK, CommandsOK, AnsweredOK
  <2>3. OwnedOK' /\ LateOK' /\ PauserOK' /\ PausedOK' /\ CancelOK' /\ FinalOK'
    BY <2>1 DEF SInv, OwnedOK, LateOK, PauserOK, PausedOK, Untouched, CancelOK, FinalOK, Pursued
  <2>4. RunnerOK' /\ TokenOK'
    BY <2>1 DEF SInv, RunnerOK, ActiveNode, TokenOK
  <2> QED
    BY <2>1, <2>2, <2>3, <2>4 DEF SInv
<1> QED
  BY <1>1, <1>2, <1>3, <1>4, <1>5, <1>6, <1>7, <1>8, <1>9, <1>10, <1>11 DEF Next

\* The invariant holds throughout, for any plan and any number of faults.
THEOREM SequentialInvariant == Spec => []SInv
<1>1. Init => SInv
  BY InitSInv
<1>2. SInv /\ [Next]_vars => SInv'
  BY NextSInv
<1> QED
  BY <1>1, <1>2, PTL DEF Spec

\* Once the run has left RUNNING no work item is claimed, whatever claims were in flight, lost or
\* left by a dead process.
THEOREM StoppedStaysQuiet == Spec => []StoppedIsQuiet
<1>1. SInv => StoppedIsQuiet
  BY RowsSeen DEF SInv, RowsOK, RowsClosed, StoppedIsQuiet, Stopped
<1> QED
  BY <1>1, SequentialInvariant, PTL

\* No node is active while the coordinator holds the run, and no pause generation is both
\* acknowledged and aborted.
THEOREM PausedStaysIdle == Spec => []PausedRunnerIsIdle
<1>1. SInv => PausedRunnerIsIdle
  <2> SUFFICES ASSUME SInv PROVE PausedRunnerIsIdle
    OBVIOUS
  <2>1. ASSUME pauser.mid \/ pauser.paused \/ pauser.unc, store.state \in PauseBound
        PROVE  ActiveNode = {}
    <3>1. pauser.res /\ pauser.pc \in Moving \cup {"idle", "clear", "open"}
      BY <2>1 DEF SInv, PauserOK
    <3>2. pauser.pc # "open"
      BY <2>1 DEF SInv, PauserOK, PausedOK
    <3>3. token.req /\ token.ack # 0
      BY <2>1, <3>1, <3>2 DEF SInv, PauserOK
    <3> QED
      BY <3>3 DEF SInv, RunnerOK
  <2> QED
    BY <2>1 DEF PausedRunnerIsIdle, SInv, TokenOK
<1> QED
  BY <1>1, SequentialInvariant, PTL

\* What the pause and cancellation coordinators remember of the run is durable.
THEOREM MemoryIsTrue == Spec => []MemoryTellsTruth
<1>1. SInv => MemoryTellsTruth
  BY DEF SInv, PausedOK, CancelOK, MemoryTellsTruth
<1> QED
  BY <1>1, SequentialInvariant, PTL

\* The outcome that RunFinalizer derived is that of the rows it committed over, and a replay of
\* the finalization agrees.
THEOREM OutcomeIsTrue == Spec => []OutcomeTellsWork
<1>1. SInv => OutcomeTellsWork
  <2> SUFFICES ASSUME SInv PROVE OutcomeTellsWork
    OBVIOUS
  <2>1. RowsClosed(store) /\ RowsTyped(store)
    BY DEF SInv, RowsOK
  <2>2. ASSUME store.state \in Outcomes
        PROVE  /\ \A w \in Works : store.work[w] \in TerminalWork
               /\ store.done = EmptyNodes
               /\ store.state = DeriveOutcome
               /\ store.print = IF store.state = "failed" THEN {} ELSE Fingerprint
    BY <2>1, <2>2, RowsSeen DEF RowsClosed, Ended
  <2>3. store.state \in Outcomes =>
          /\ store.state = "failed" <=> \E w \in Works : InState(w, "failed")
          /\ store.state = "succeeded" <=> \A w \in Works : InState(w, "succeeded")
    BY <2>2, PlanAssumption DEF DeriveOutcome, InState
  <2>4. store.state \in Finished => Replay # "conflict"
    <3> SUFFICES ASSUME store.state \in Finished PROVE Replay # "conflict"
      OBVIOUS
    <3>1. CASE store.state \in Outcomes
      <4>1. store.print = IF store.state = "failed" THEN {} ELSE Fingerprint
        BY <2>2, <3>1
      <4>2. CASE store.state = "failed"
        BY <2>2, <3>1, <4>1, <4>2 DEF Replay, ReplayFailure
      <4>3. CASE store.state \in {"succeeded", "partially"}
        BY <4>1, <4>3 DEF Replay, ReplaySuccess
      <4> QED
        BY <3>1, <4>2, <4>3 DEF Outcomes
    <3>2. CASE store.state = "cancelled"
      <4>1. store.print = {}
        BY <2>1, <3>2 DEF RowsClosed
      <4> QED
        BY <3>2, <4>1 DEF Replay, ReplayCancelled
    <3> QED
      BY <3>1, <3>2 DEF Finished, Outcomes
  <2> QED
    BY <2>2, <2>3, <2>4 DEF OutcomeTellsWork, Outcomes
<1> QED
  BY <1>1, SequentialInvariant, PTL

\* No command changes the rows of a finished run, whoever sent it and however late.
THEOREM FinishedStays == Spec => FinishedIsFinal
<1>1. SInv /\ [Next]_vars => [store.state \in Finished => UNCHANGED store]_vars
  BY NextSInv
<1> QED
  BY <1>1, SequentialInvariant, PTL DEF Spec, FinishedIsFinal
=============================================================================
