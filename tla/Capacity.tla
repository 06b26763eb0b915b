------------------------------ MODULE Capacity ------------------------------
(***************************************************************************)
(* The capacity ledgers (application/execution/capacity.py): the three     *)
(* levels of scheduled-work permits of ScheduledWorkLimiters and one       *)
(* subordinate limiter (connector or CPU pool) under it.  Owners are       *)
(* threads or assignments that share the limiters.  Everything a limiter   *)
(* does under its condition lock up to a wait is one step; the subordinate *)
(* limiter calls its parent under its own lock, so such calls take two     *)
(* steps, between which the parent's other users run.  Slots are numbered  *)
(* as in the code; the high-water marks and snapshots are left out, and    *)
(* the token bucket is a nondeterministic refusal.                         *)
(***************************************************************************)
EXTENDS Integers, Sequences, FiniteSetsExt

CONSTANTS
    Owners,                      \* owner keys
    Nodes,                       \* the plan's nodes
    GlobalLimit, StrategyLimit, NodeLimit, SubLimit,
    MaxInstant,                  \* bound on the policy clock
    None                         \* no deadline, no node

ASSUME CapacityAssumption ==
    /\ {GlobalLimit, StrategyLimit, NodeLimit, SubLimit} \subseteq Nat \ {0}
    /\ MaxInstant \in Nat
    /\ Nodes \cap {"global", "strategy", "sub"} = {}

VARIABLES
    ledger,     \* per level: its holders, free slots and waiters
    call,       \* per owner: the acquire call in progress
    subPc,      \* per owner: the call of the subordinate limiter in progress
    subUntil,   \* per owner: the deadline of that call
    children,   \* owners whose subordinate permit is registered (_subordinates)
    closed,     \* the limiters that were closed
    now

vars == <<ledger, call, subPc, subUntil, children, closed, now>>

Levels == {"global", "strategy", "sub"} \cup Nodes
Scheduled == Levels \ {"sub"}
Limit(l) == CASE l = "global" -> GlobalLimit [] l = "strategy" -> StrategyLimit
              [] l = "sub" -> SubLimit [] l \in Nodes -> NodeLimit
Instants == 0..MaxInstant
Idle == [pc |-> "idle", node |-> None, until |-> None]

------------------------------------------------------------------------------
\* _Ledger: held maps an owner to its slot, 0 if it has none.
EmptyLedger(l) == [held |-> [o \in Owners |-> 0], free |-> 1..Limit(l), waiters |-> <<>>]
Holds(g, o) == g.held[o] # 0
HasWaiter(g, o) == \E i \in DOMAIN g.waiters : g.waiters[i] = o
MayGrant(g, o) == g.free # {} /\ (g.waiters # <<>> => g.waiters[1] = o)
Enqueue(g, o) == [g EXCEPT !.waiters = Append(@, o)]
Dequeue(g, o) ==
    LET i == Min({j \in DOMAIN g.waiters : g.waiters[j] = o})
    IN  IF HasWaiter(g, o)
        THEN [g EXCEPT !.waiters = SubSeq(@, 1, i - 1) \o SubSeq(@, i + 1, Len(@))]
        ELSE g
Grant(g, o) ==
    Dequeue([g EXCEPT !.held[o] = Min(g.free), !.free = @ \ {Min(g.free)}], o)

\* Mutant: the slot of a refused grant is not returned.
MutUngrant(g, o) == [g EXCEPT !.held[o] = 0]

\* ungrant, and release, whose dequeue finds nothing: a holder never waits.
Ungrant(g, o) == [g EXCEPT !.held[o] = 0, !.free = @ \cup {g.held[o]}]

------------------------------------------------------------------------------
HeldLevels(o) == {l \in Scheduled : Holds(ledger[l], o)}
HoldsAll(o) == {"global", "strategy"} \subseteq HeldLevels(o) /\ HeldLevels(o) \cap Nodes # {}
IsPending(o) == \E l \in {"global", "strategy"} : HasWaiter(ledger[l], o)
IsPendingOrHolding(o) ==
    \E l \in {"global", "strategy"} : HasWaiter(ledger[l], o) \/ Holds(ledger[l], o)
Reservation(n) == {"global", "strategy", n}

\* notify_all of the scheduled-work condition.
NotifyAll(c) == [o \in Owners |-> IF c[o].pc = "asleep" THEN [c[o] EXCEPT !.pc = "awake"] ELSE c[o]]

\* One turn of acquire's loop over the ledgers g: the three levels at once, or none.
CanTake(g, o, n) == \A l \in Reservation(n) : MayGrant(g[l], o)
TakeAll(g, o, n) == [l \in Levels |-> IF l \in Reservation(n) THEN Grant(g[l], o) ELSE g[l]]

\* Mutant: a caller that gives up stays in its node's queue.
MutLeave(o, n) ==
    [l \in Levels |-> IF l \in {"global", "strategy"} THEN Dequeue(ledger[l], o) ELSE ledger[l]]

\* The finally clause of acquire.
Leave(o, n) ==
    [l \in Levels |-> IF l \in Reservation(n) THEN Dequeue(ledger[l], o) ELSE ledger[l]]

\* acquire, up to its return or its first wait; every refusal leaves no trace.
Acquire(o, n, until) ==
    LET queued == [l \in Levels |-> IF l \in Reservation(n) THEN Enqueue(ledger[l], o) ELSE ledger[l]]
    IN  /\ "work" \notin closed /\ ~IsPendingOrHolding(o)
        /\ until # None => now < until
        /\ \/ /\ CanTake(queued, o, n)
              /\ ledger' = TakeAll(queued, o, n)
              /\ UNCHANGED call
           \/ /\ ~CanTake(queued, o, n) /\ until # None
              /\ ledger' = queued
              /\ call' = [call EXCEPT ![o] = [pc |-> "asleep", node |-> n, until |-> until]]
        /\ UNCHANGED <<subPc, subUntil, children, closed, now>>

\* The timed wait ends.
WaitTimesOut(o) ==
    /\ call[o].pc = "asleep" /\ now >= call[o].until
    /\ call' = [call EXCEPT ![o].pc = "awake"]
    /\ UNCHANGED <<ledger, subPc, subUntil, children, closed, now>>

\* The next turn of the loop after a wait.
Recheck(o) ==
    /\ call[o].pc = "awake"
    /\ \/ /\ "work" \in closed \/ now >= call[o].until
          /\ ledger' = Leave(o, call[o].node)
          /\ call' = [call EXCEPT ![o] = Idle]
       \/ /\ "work" \notin closed /\ now < call[o].until /\ CanTake(ledger, o, call[o].node)
          /\ ledger' = TakeAll(ledger, o, call[o].node)
          /\ call' = [call EXCEPT ![o] = Idle]
       \/ /\ "work" \notin closed /\ now < call[o].until /\ ~CanTake(ledger, o, call[o].node)
          /\ call' = [call EXCEPT ![o].pc = "asleep"]
          /\ UNCHANGED ledger
    /\ UNCHANGED <<subPc, subUntil, children, closed, now>>

\* release and release_reservation.
Release(o, n) ==
    /\ \A l \in Reservation(n) : Holds(ledger[l], o)
    /\ o \notin children
    /\ ledger' = [l \in Levels |-> IF l \in Reservation(n) THEN Ungrant(ledger[l], o) ELSE ledger[l]]
    /\ call' = NotifyAll(call)
    /\ UNCHANGED <<subPc, subUntil, children, closed, now>>

\* The scheduled levels in their stable order.
Before(l) == CASE l = "global" -> {} [] l = "strategy" -> {"global"}
               [] l \in Nodes -> {"global", "strategy"}
After(l) == CASE l = "global" -> Scheduled \ {"global"} [] l = "strategy" -> Nodes
              [] l \in Nodes -> {}

\* acquire_level never waits.
AcquireLevel(l, o) ==
    /\ l \in Scheduled /\ "work" \notin closed
    /\ HeldLevels(o) = Before(l) /\ ~IsPending(o)
    /\ MayGrant(ledger[l], o)
    /\ ledger' = [ledger EXCEPT ![l] = Grant(@, o)]
    /\ UNCHANGED <<call, subPc, subUntil, children, closed, now>>

ReleaseLevel(l, o) ==
    /\ l \in Scheduled
    /\ HeldLevels(o) \cap After(l) = {}
    /\ Holds(ledger[l], o)
    /\ o \notin children
    /\ ledger' = [ledger EXCEPT ![l] = Ungrant(@, o)]
    /\ call' = NotifyAll(call)
    /\ UNCHANGED <<subPc, subUntil, children, closed, now>>

Close ==
    /\ closed' = closed \cup {"work"}
    /\ call' = NotifyAll(call)
    /\ UNCHANGED <<ledger, subPc, subUntil, children, now>>

------------------------------------------------------------------------------
\* The lock of the subordinate limiter is held between the two steps of a call.
SubLocked == \E o \in Owners : subPc[o] \in {"granted", "unregistered"}
SubNotifyAll(pc) == [o \in Owners |-> IF pc[o] = "asleep" THEN "awake" ELSE pc[o]]

\* acquire and try_acquire of the subordinate limiter, up to the first wait: the
\* parent is asked before the ledger.
SubAcquire(o, until) ==
    LET queued == Enqueue(ledger["sub"], o)
    IN  /\ ~SubLocked /\ "sub" \notin closed
        /\ HoldsAll(o)
        /\ ~Holds(ledger["sub"], o) /\ ~HasWaiter(ledger["sub"], o)
        /\ until # None => now < until
        /\ \/ /\ MayGrant(queued, o)
              /\ ledger' = [ledger EXCEPT !["sub"] = Grant(queued, o)]
              /\ subPc' = [subPc EXCEPT ![o] = "granted"]
              /\ UNCHANGED subUntil
           \/ /\ ~MayGrant(queued, o) /\ until # None
              /\ ledger' = [ledger EXCEPT !["sub"] = queued]
              /\ subPc' = [subPc EXCEPT ![o] = "asleep"]
              /\ subUntil' = [subUntil EXCEPT ![o] = until]
        /\ UNCHANGED <<call, children, closed, now>>

SubWaitTimesOut(o) ==
    /\ subPc[o] = "asleep" /\ now >= subUntil[o]
    /\ subPc' = [subPc EXCEPT ![o] = "awake"]
    /\ UNCHANGED <<ledger, call, subUntil, children, closed, now>>

\* The next turn of the loop, which does not ask the parent again.
SubRecheck(o) ==
    /\ ~SubLocked /\ subPc[o] = "awake"
    /\ \/ /\ "sub" \in closed \/ now >= subUntil[o]
          /\ ledger' = [ledger EXCEPT !["sub"] = Dequeue(@, o)]
          /\ subPc' = [subPc EXCEPT ![o] = "idle"]
          /\ subUntil' = [subUntil EXCEPT ![o] = None]
       \/ /\ "sub" \notin closed /\ now < subUntil[o] /\ MayGrant(ledger["sub"], o)
          /\ ledger' = [ledger EXCEPT !["sub"] = Grant(@, o)]
          /\ subPc' = [subPc EXCEPT ![o] = "granted"]
          /\ subUntil' = [subUntil EXCEPT ![o] = None]
       \/ /\ "sub" \notin closed /\ now < subUntil[o] /\ ~MayGrant(ledger["sub"], o)
          /\ subPc' = [subPc EXCEPT ![o] = "asleep"]
          /\ UNCHANGED <<ledger, subUntil>>
    /\ UNCHANGED <<call, children, closed, now>>

\* register_subordinate accepts only under the full reservation.
Register(o) ==
    /\ subPc[o] = "granted"
    /\ HoldsAll(o)
    /\ children' = children \cup {o}
    /\ subPc' = [subPc EXCEPT ![o] = "idle"]
    /\ UNCHANGED <<ledger, call, subUntil, closed, now>>

\* Mutant: the refused call forgets to return its slot.
MutRefuse(o) ==
    /\ subPc[o] = "granted"
    /\ subPc' = SubNotifyAll([subPc EXCEPT ![o] = "idle"])
    /\ UNCHANGED <<ledger, call, subUntil, children, closed, now>>

\* The rate policy refuses, or the reservation is gone: the slot goes back.
Refuse(o) ==
    /\ subPc[o] = "granted"
    /\ ledger' = [ledger EXCEPT !["sub"] = Ungrant(@, o)]
    /\ subPc' = SubNotifyAll([subPc EXCEPT ![o] = "idle"])
    /\ UNCHANGED <<call, subUntil, children, closed, now>>

\* release of the subordinate limiter: unregister_subordinate, then the ledger.
SubRelease(o) ==
    /\ ~SubLocked /\ Holds(ledger["sub"], o)
    /\ o \in children
    /\ children' = children \ {o}
    /\ subPc' = [subPc EXCEPT ![o] = "unregistered"]
    /\ UNCHANGED <<ledger, call, subUntil, closed, now>>

SubReleased(o) ==
    /\ subPc[o] = "unregistered"
    /\ ledger' = [ledger EXCEPT !["sub"] = Ungrant(@, o)]
    /\ subPc' = SubNotifyAll([subPc EXCEPT ![o] = "idle"])
    /\ UNCHANGED <<call, subUntil, children, closed, now>>

SubClose ==
    /\ ~SubLocked
    /\ closed' = closed \cup {"sub"}
    /\ subPc' = SubNotifyAll(subPc)
    /\ UNCHANGED <<ledger, call, subUntil, children, now>>

------------------------------------------------------------------------------
Init ==
    /\ ledger = [l \in Levels |-> EmptyLedger(l)]
    /\ call = [o \in Owners |-> Idle]
    /\ subPc = [o \in Owners |-> "idle"]
    /\ subUntil = [o \in Owners |-> None]
    /\ children = {}
    /\ closed = {}
    /\ now = 0

Tick ==
    /\ now < MaxInstant
    /\ now' = now + 1
    /\ UNCHANGED <<ledger, call, subPc, subUntil, children, closed>>

OwnerStep(o) ==
    \/ \E n \in Nodes : Release(o, n) \/ \E until \in Instants \cup {None} : Acquire(o, n, until)
    \/ WaitTimesOut(o) \/ Recheck(o)
    \/ \E l \in Scheduled : AcquireLevel(l, o) \/ ReleaseLevel(l, o)
    \/ \E until \in Instants \cup {None} : SubAcquire(o, until)
    \/ SubWaitTimesOut(o) \/ SubRecheck(o) \/ Register(o) \/ Refuse(o)
    \/ SubRelease(o) \/ SubReleased(o)

Next ==
    \/ \E o \in Owners : OwnerStep(o)
    \/ Close \/ SubClose
    \/ Tick

Spec == Init /\ [][Next]_vars

------------------------------------------------------------------------------
\* Type invariant of the limiters.
TypeOK ==
    /\ ledger \in [Levels -> [held : [Owners -> Nat], free : SUBSET Nat, waiters : Seq(Owners)]]
    /\ \A l \in Levels : ledger[l].held \in [Owners -> 0..Limit(l)] /\ ledger[l].free \subseteq 1..Limit(l)
    /\ call \in [Owners -> [pc : {"idle", "asleep", "awake"}, node : Nodes \cup {None},
                            until : Instants \cup {None}]]
    /\ subPc \in [Owners -> {"idle", "asleep", "awake", "granted", "unregistered"}]
    /\ subUntil \in [Owners -> Instants \cup {None}]
    /\ children \subseteq Owners /\ closed \subseteq {"work", "sub"} /\ now \in Instants

\* No permit is lost or handed out twice: at every level each slot is free or has
\* exactly one holder, through grants that are undone and calls that give up.
SlotsAccounted ==
    \A l \in Levels :
        /\ \A s \in 1..Limit(l) : s \in ledger[l].free \/ \E o \in Owners : ledger[l].held[o] = s
        /\ \A o \in Owners : ledger[l].held[o] \notin ledger[l].free
        /\ \A o, p \in Owners : ledger[l].held[o] = ledger[l].held[p] /\ Holds(ledger[l], o) => o = p

\* An owner holds the levels from the global one down, and at most one node.
LevelsNested ==
    \A o \in Owners :
        /\ \A l \in HeldLevels(o) : Before(l) \subseteq HeldLevels(o)
        /\ \A m, n \in HeldLevels(o) \cap Nodes : m = n

\* Subordinate permits never outlive their reservation: whatever the parent's
\* other users do between the two locks, a permit that was handed out is
\* registered, a registered one is backed by all three levels, and none is both
\* held and forgotten.
SubordinateUnderParent ==
    /\ \A o \in children : HoldsAll(o) /\ Holds(ledger["sub"], o)
    /\ \A o \in Owners : Holds(ledger["sub"], o) =>
          o \in children \/ subPc[o] \in {"granted", "unregistered"}

\* The waiter o is in line before the waiter p.
Ahead(g, o, p) == \E i, j \in DOMAIN g.waiters : i < j /\ g.waiters[i] = o /\ g.waiters[j] = p

\* The queues of the three levels never disagree: they hold exactly the callers
\* in progress, each once and in one order, so that whoever is first for the
\* global level is first for the others and no two callers wait for each other.
QueuesAgree ==
    /\ ledger["strategy"].waiters = ledger["global"].waiters
    /\ \A o \in Owners :
          /\ HasWaiter(ledger["global"], o) <=> call[o].pc # "idle"
          /\ ~Ahead(ledger["global"], o, o)
    /\ \A n \in Nodes : \A o, p \in Owners :
          /\ HasWaiter(ledger[n], o) <=> call[o].pc # "idle" /\ call[o].node = n
          /\ Ahead(ledger[n], o, p) <=>
                Ahead(ledger["global"], o, p) /\ call[o].node = n /\ call[p].node = n

=============================================================================
