-------------------------- MODULE Capacity_proofs ---------------------------
(***************************************************************************)
(* Proofs about the capacity ledgers, for any number of owners, nodes and  *)
(* permits.  A grant is safe only for an owner that holds nothing at the   *)
(* level, so the inductive invariant adds to the accounting of slots that  *)
(* a caller in progress is queued and holds nothing.  On top of it the     *)
(* queues of the three levels keep one order.                              *)
(***************************************************************************)
EXTENDS Capacity, TLAPS, WellFoundedInduction, SequenceTheorems

Ledgers == [held : [Owners -> Nat], free : SUBSET Nat, waiters : Seq(Owners)]

Accounted(g, k) ==
    /\ g.held \in [Owners -> 0..k]
    /\ g.free \subseteq 1..k
    /\ \A s \in 1..k : s \in g.free \/ \E o \in Owners : g.held[o] = s
    /\ \A o \in Owners : g.held[o] \notin g.free
    /\ \A o, p \in Owners : g.held[o] = g.held[p] /\ g.held[o] # 0 => o = p

------------------------------------------------------------------------------
\* _Ledger.grant takes a slot that is free: a non-empty set of slots has a least one.
LEMMA MinInSet ==
  ASSUME NEW S \in SUBSET Nat, S # {}
  PROVE  Min(S) \in S
<1>1. PICK x \in S : \A y \in S : ~ (<<y, x>> \in OpToRel(<, Nat))
  BY NatLessThanWellFounded, WFMin
<1>2. ASSUME NEW y \in S, y < x
      PROVE  <<y, x>> \in OpToRel(<, Nat)
  BY <1>2, Zenon DEF OpToRel
<1>3. \A y \in S : ~ (y < x)
  BY <1>1, <1>2
<1>4. \A y \in S : x <= y
  BY <1>3
<1> QED
  BY <1>4 DEF Min

\* A queue without the member at one place.
Without(w, i) == SubSeq(w, 1, i - 1) \o SubSeq(w, i + 1, Len(w))
\* The members that stay, in their order.
LEMMA RemovedMembers ==
  ASSUME NEW O, NEW w \in Seq(O), NEW i \in 1..Len(w)
  PROVE  /\ Without(w, i) \in Seq(O)
         /\ DOMAIN Without(w, i) = 1..(Len(w) - 1)
         /\ \A k \in 1..(Len(w) - 1) : Without(w, i)[k] = w[IF k < i THEN k ELSE k + 1]
<1> DEFINE n == Len(w)
           a == SubSeq(w, 1, i - 1)
           b == SubSeq(w, i + 1, n)
<1>1. n \in Nat /\ i \in Nat /\ 1 <= i /\ i <= n
  OBVIOUS
<1>2. a \in Seq(O) /\ Len(a) = i - 1 /\ \A k \in 1..(i - 1) : a[k] = w[k]
  BY <1>1
<1>3. b \in Seq(O) /\ Len(b) = n - i /\ \A k \in 1..(n - i) : b[k] = w[i + k]
  BY <1>1
<1>0. Without(w, i) = a \o b
  BY DEF Without
<1> HIDE DEF a, b, n
<1>4. a \o b \in Seq(O) /\ DOMAIN (a \o b) = 1..(n - 1)
  <2>1. a \o b \in Seq(O) /\ Len(a \o b) = Len(a) + Len(b)
    BY <1>2, <1>3, ConcatProperties
  <2>2. (i - 1) + (n - i) = n - 1
    BY <1>1
  <2>3. Len(a \o b) = n - 1
    BY <2>1, <2>2, <1>2, <1>3
  <2> QED  BY <2>1, <2>3
<1>5. ASSUME NEW k \in 1..(n - 1), k < i
      PROVE  (a \o b)[k] = w[k]
  <2>1. k \in 1..(i - 1) /\ (a \o b)[k] = a[k]
    BY <1>1, <1>2, <1>3, <1>5
  <2> QED  BY <2>1, <1>2
<1>6. ASSUME NEW k \in 1..(n - 1), ~(k < i)
      PROVE  (a \o b)[k] = w[k + 1]
  <2>1. k - (i - 1) \in 1..(n - i) /\ (a \o b)[k] = b[k - (i - 1)]
    BY <1>1, <1>2, <1>3, <1>6
  <2>2. i + (k - (i - 1)) = k + 1
    BY <1>1
  <2> QED  BY <2>1, <2>2, <1>3
<1> QED  BY <1>0, <1>4, <1>5, <1>6 DEF n

\* Removing one element of a queue keeps the others.
LEMMA RemovedKeepsOthers ==
  ASSUME NEW O, NEW w \in Seq(O), NEW i \in 1..Len(w), NEW j \in 1..Len(w), j # i
  PROVE  \E k \in DOMAIN Without(w, i) : Without(w, i)[k] = w[j]
<1> DEFINE n == Len(w)
           v == Without(w, i)
<1>1. n \in Nat /\ i \in 1..n /\ j \in 1..n
  OBVIOUS
<1>2. DOMAIN v = 1..(n - 1) /\ \A k \in 1..(n - 1) : v[k] = w[IF k < i THEN k ELSE k + 1]
  BY RemovedMembers
<1> HIDE DEF n, v
<1>3. CASE j < i
  <2>1. j \in 1..(n - 1)
    BY <1>1, <1>3
  <2> QED  BY <2>1, <1>2, <1>3 DEF v
<1>4. CASE ~(j < i)
  <2>1. j - 1 \in 1..(n - 1) /\ ~(j - 1 < i) /\ (j - 1) + 1 = j
    BY <1>1, <1>4
  <2>2. v[j - 1] = w[j]
    BY <2>1, <1>2
  <2> QED  BY <2>1, <2>2, <1>2 DEF v
<1> QED  BY <1>3, <1>4

\* _Ledger.dequeue keeps holders, slots and every other waiter.
LEMMA DequeueKeeps ==
  ASSUME NEW g \in Ledgers, NEW o \in Owners
  PROVE  /\ Dequeue(g, o) \in Ledgers
         /\ Dequeue(g, o).held = g.held /\ Dequeue(g, o).free = g.free
         /\ \A p \in Owners \ {o} : HasWaiter(g, p) => HasWaiter(Dequeue(g, o), p)
<1>1. CASE ~HasWaiter(g, o)
  BY <1>1 DEF Dequeue
<1>2. CASE HasWaiter(g, o)
  <2> DEFINE w == g.waiters
             i == Min({j \in DOMAIN w : w[j] = o})
             v == Without(w, i)
  <2>1. w \in Seq(Owners) /\ DOMAIN w = 1..Len(w) /\ Len(w) \in Nat
    BY DEF Ledgers
  <2>2. i \in 1..Len(w) /\ w[i] = o
    <3> DEFINE S == {j \in DOMAIN w : w[j] = o}
    <3>1. S \in SUBSET Nat /\ S # {}
      BY <1>2, <2>1 DEF HasWaiter
    <3>2. Min(S) \in S
      BY <3>1, MinInSet
    <3> QED  BY <3>2, <2>1
  <2>3. Dequeue(g, o) = [g EXCEPT !.waiters = v]
    BY <1>2 DEF Dequeue, Without
  <2> HIDE DEF i
  <2>4. v \in Seq(Owners)
    BY <2>1, <2>2, RemovedMembers
  <2>5. Dequeue(g, o) \in Ledgers /\ Dequeue(g, o).held = g.held
        /\ Dequeue(g, o).free = g.free /\ Dequeue(g, o).waiters = v
    BY <2>3, <2>4 DEF Ledgers
  <2>6. ASSUME NEW p \in Owners \ {o}, NEW j \in DOMAIN w, w[j] = p
        PROVE  \E k \in DOMAIN v : v[k] = p
    <3>1. j \in 1..Len(w) /\ j # i
      BY <2>1, <2>2, <2>6
    <3> HIDE DEF w
    <3>2. \E k \in DOMAIN v : v[k] = w[j]
      BY <2>1, <2>2, <3>1, RemovedKeepsOthers, Zenon
    <3> QED
      BY <2>6, <3>2
  <2> QED
    BY <2>5, <2>6 DEF HasWaiter
<1> QED  BY <1>1, <1>2

\* _Ledger.enqueue keeps holders, slots and waiters.
LEMMA EnqueueKeeps ==
  ASSUME NEW g \in Ledgers, NEW o \in Owners
  PROVE  /\ Enqueue(g, o) \in Ledgers
         /\ Enqueue(g, o).held = g.held /\ Enqueue(g, o).free = g.free
         /\ HasWaiter(Enqueue(g, o), o)
         /\ \A p \in Owners : HasWaiter(g, p) => HasWaiter(Enqueue(g, o), p)
<1> DEFINE v == Append(g.waiters, o)
<1>1. g.waiters \in Seq(Owners)
  BY DEF Ledgers
<1>2. v \in Seq(Owners) /\ Len(v) = Len(g.waiters) + 1 /\ v[Len(v)] = o
      /\ \A j \in DOMAIN g.waiters : j \in DOMAIN v /\ v[j] = g.waiters[j]
  BY <1>1
<1>3. Len(v) \in DOMAIN v
  BY <1>1, <1>2
<1>4. Enqueue(g, o) \in Ledgers /\ Enqueue(g, o).held = g.held
      /\ Enqueue(g, o).free = g.free /\ Enqueue(g, o).waiters = v
  BY <1>2 DEF Enqueue, Ledgers
<1> QED
  BY <1>2, <1>3, <1>4 DEF HasWaiter

\* _Ledger.grant to an owner without a slot.
LEMMA GrantAccounted ==
  ASSUME NEW g \in Ledgers, NEW k \in Nat, NEW o \in Owners,
         Accounted(g, k), g.held[o] = 0, g.free # {}
  PROVE  /\ Grant(g, o) \in Ledgers
         /\ Accounted(Grant(g, o), k)
         /\ Grant(g, o).held[o] # 0
         /\ \A p \in Owners \ {o} : Grant(g, o).held[p] = g.held[p]
         /\ \A p \in Owners \ {o} : HasWaiter(g, p) => HasWaiter(Grant(g, o), p)
<1> DEFINE s == Min(g.free)
           h == [g EXCEPT !.held[o] = s, !.free = @ \ {s}]
<1>1. s \in g.free
  BY MinInSet DEF Ledgers
<1>2. s \in 1..k /\ s \in Nat
  BY <1>1 DEF Accounted
<1> HIDE DEF s
<1>3. h \in Ledgers /\ h.waiters = g.waiters /\ h.free = g.free \ {s}
      /\ h.held = [g.held EXCEPT ![o] = s]
  BY <1>2 DEF Ledgers
<1>4. Accounted(h, k)
  <2>1. h.held \in [Owners -> 0..k] /\ h.free \subseteq 1..k
    BY <1>2, <1>3 DEF Accounted
  <2>2. \A t \in 1..k : t \in h.free \/ \E p \in Owners : h.held[p] = t
    <3> TAKE t \in 1..k
    <3>1. CASE t = s
      BY <3>1, <1>3 DEF Accounted
    <3>2. CASE t # s /\ t \in g.free
      BY <3>2, <1>3
    <3>3. CASE t # s /\ t \notin g.free
      <4>1. PICK p \in Owners : g.held[p] = t
        BY <3>3 DEF Accounted
      <4>2. p # o
        BY <4>1
      <4> QED
        BY <4>1, <4>2, <1>3 DEF Accounted
    <3> QED  BY <3>1, <3>2, <3>3
  <2>3. \A p \in Owners : h.held[p] \notin h.free
    BY <1>1, <1>3 DEF Accounted
  <2>4. \A p, q \in Owners : h.held[p] = h.held[q] /\ h.held[p] # 0 => p = q
    BY <1>1, <1>3 DEF Accounted
  <2> QED  BY <2>1, <2>2, <2>3, <2>4 DEF Accounted
<1>5. h.held[o] # 0 /\ \A p \in Owners \ {o} : h.held[p] = g.held[p]
  BY <1>2, <1>3 DEF Accounted
<1>6. Grant(g, o) = Dequeue(h, o)
  BY DEF Grant, s
<1> HIDE DEF h
<1>7. /\ Grant(g, o) \in Ledgers
      /\ Grant(g, o).held = h.held /\ Grant(g, o).free = h.free
      /\ \A p \in Owners \ {o} : HasWaiter(h, p) => HasWaiter(Grant(g, o), p)
  BY <1>3, <1>6, DequeueKeeps
<1>8. \A p \in Owners : HasWaiter(g, p) => HasWaiter(h, p)
  BY <1>3 DEF HasWaiter
<1>9. Accounted(Grant(g, o), k)
  BY <1>4, <1>7 DEF Accounted
<1> QED
  BY <1>5, <1>7, <1>8, <1>9

\* _Ledger.ungrant and release of an owner with a slot.
LEMMA UngrantAccounted ==
  ASSUME NEW g \in Ledgers, NEW k \in Nat, NEW o \in Owners,
         Accounted(g, k), g.held[o] # 0
  PROVE  /\ Ungrant(g, o) \in Ledgers
         /\ Accounted(Ungrant(g, o), k)
         /\ Ungrant(g, o).held[o] = 0
         /\ \A p \in Owners \ {o} : Ungrant(g, o).held[p] = g.held[p]
         /\ \A p \in Owners : HasWaiter(g, p) => HasWaiter(Ungrant(g, o), p)
<1> DEFINE s == g.held[o]
           h == Ungrant(g, o)
<1>1. s \in 1..k /\ s \in Nat
  BY DEF Accounted
<1>2. h \in Ledgers /\ h.waiters = g.waiters /\ h.free = g.free \cup {s}
      /\ h.held = [g.held EXCEPT ![o] = 0]
  BY <1>1 DEF Ledgers, Ungrant
<1> HIDE DEF h
<1>3. h.held \in [Owners -> 0..k] /\ h.free \subseteq 1..k
  BY <1>1, <1>2 DEF Accounted
<1>4. \A t \in 1..k : t \in h.free \/ \E p \in Owners : h.held[p] = t
  <2> TAKE t \in 1..k
  <2>1. CASE t = s \/ t \in g.free
    BY <2>1, <1>2
  <2>2. CASE t # s /\ t \notin g.free
    <3>1. PICK p \in Owners : g.held[p] = t
      BY <2>2 DEF Accounted
    <3> QED
      BY <3>1, <2>2, <1>2 DEF Accounted
  <2> QED  BY <2>1, <2>2
<1>5. \A p \in Owners : h.held[p] \notin h.free
  BY <1>1, <1>2 DEF Accounted
<1>6. \A p, q \in Owners : h.held[p] = h.held[q] /\ h.held[p] # 0 => p = q
  BY <1>2 DEF Accounted
<1>7. h.held[o] = 0 /\ \A p \in Owners \ {o} : h.held[p] = g.held[p]
  BY <1>2 DEF Accounted
<1>8. \A p \in Owners : HasWaiter(g, p) => HasWaiter(h, p)
  BY <1>2 DEF HasWaiter
<1> QED
  BY <1>2, <1>3, <1>4, <1>5, <1>6, <1>7, <1>8 DEF h, Accounted

------------------------------------------------------------------------------
\* All the ledgers of a coordinator and its subordinate limiter.
Books(g) ==
    /\ g \in [Levels -> Ledgers]
    /\ \A l \in Levels : Accounted(g[l], Limit(l))

\* Nothing changed for owner p in the ledgers, except that it may have been queued.
SameIn(g, h, p) ==
    \A l \in Levels : h[l].held[p] = g[l].held[p] /\ (HasWaiter(g[l], p) => HasWaiter(h[l], p))

\* The ledgers g after one operation of owner o at every level of S.
EnqueueAt(g, o, S) == [l \in Levels |-> IF l \in S THEN Enqueue(g[l], o) ELSE g[l]]
DequeueAt(g, o, S) == [l \in Levels |-> IF l \in S THEN Dequeue(g[l], o) ELSE g[l]]
UngrantAt(g, o, S) == [l \in Levels |-> IF l \in S THEN Ungrant(g[l], o) ELSE g[l]]

\* Every level has a limit.
LEMMA LimitsArePositive == \A l \in Levels : Limit(l) \in Nat
BY CapacityAssumption DEF Levels, Limit

\* What may be assumed of the ledger of a level and of who waits there.
LEMMA LevelFacts ==
  /\ "global" \in Levels /\ "strategy" \in Levels /\ "sub" \in Levels
  /\ "global" \in Scheduled /\ "strategy" \in Scheduled /\ "sub" \notin Scheduled
  /\ Nodes \subseteq Levels /\ Nodes \subseteq Scheduled /\ Scheduled \subseteq Levels
  /\ \A l \in Scheduled : l = "global" \/ l = "strategy" \/ l \in Nodes
  /\ \A n \in Nodes : Reservation(n) \subseteq Scheduled
  /\ "global" \notin Nodes /\ "strategy" \notin Nodes /\ "sub" \notin Nodes
BY CapacityAssumption DEF Levels, Scheduled, Reservation

\* The three permits of a reservation are granted together.
LEMMA TakeAllBooks ==
  ASSUME NEW g, Books(g), NEW o \in Owners, NEW n \in Nodes, CanTake(g, o, n),
         \A l \in Reservation(n) : g[l].held[o] = 0
  PROVE  /\ Books(TakeAll(g, o, n))
         /\ \A l \in Reservation(n) : TakeAll(g, o, n)[l].held[o] # 0
         /\ \A l \in Levels \ Reservation(n) : TakeAll(g, o, n)[l] = g[l]
         /\ \A p \in Owners \ {o} : SameIn(g, TakeAll(g, o, n), p)
<1> DEFINE h == TakeAll(g, o, n)
<1>1. h = [l \in Levels |-> IF l \in Reservation(n) THEN Grant(g[l], o) ELSE g[l]]
  BY DEF TakeAll
<1> HIDE DEF h
<1>2. ASSUME NEW l \in Levels, l \in Reservation(n)
      PROVE  /\ h[l] \in Ledgers /\ Accounted(h[l], Limit(l)) /\ h[l].held[o] # 0
             /\ \A p \in Owners \ {o} : h[l].held[p] = g[l].held[p]
             /\ \A p \in Owners \ {o} : HasWaiter(g[l], p) => HasWaiter(h[l], p)
  <2>1. g[l] \in Ledgers /\ Accounted(g[l], Limit(l)) /\ g[l].held[o] = 0 /\ g[l].free # {}
    BY <1>2 DEF Books, CanTake, MayGrant
  <2>2. h[l] = Grant(g[l], o)
    BY <1>1, <1>2
  <2> QED
    BY <2>1, <2>2, LimitsArePositive, GrantAccounted
<1>3. ASSUME NEW l \in Levels, l \notin Reservation(n)
      PROVE  h[l] = g[l] /\ h[l] \in Ledgers /\ Accounted(h[l], Limit(l))
  BY <1>1, <1>3 DEF Books
<1>4. Books(h)
  BY <1>1, <1>2, <1>3 DEF Books
<1>5. Reservation(n) \subseteq Levels
  BY LevelFacts
<1>6. \A p \in Owners \ {o} : SameIn(g, h, p)
  BY <1>2, <1>3 DEF SameIn
<1> QED
  BY <1>2, <1>3, <1>4, <1>5, <1>6 DEF h

\* Queueing, leaving and releasing keep the books.
LEMMA EnqueueBooks ==
  ASSUME NEW g, Books(g), NEW o \in Owners, NEW S \in SUBSET Levels
  PROVE  /\ Books(EnqueueAt(g, o, S))
         /\ \A p \in Owners : SameIn(g, EnqueueAt(g, o, S), p)
         /\ \A l \in S : HasWaiter(EnqueueAt(g, o, S)[l], o)
<1> DEFINE h == EnqueueAt(g, o, S)
<1>0. \A l \in Levels : h[l] = IF l \in S THEN Enqueue(g[l], o) ELSE g[l]
  BY DEF EnqueueAt
<1>9. h = [l \in Levels |-> h[l]]
  BY DEF EnqueueAt
<1> HIDE DEF h
<1>1. ASSUME NEW l \in Levels
      PROVE  /\ h[l] \in Ledgers /\ h[l].held = g[l].held /\ h[l].free = g[l].free
             /\ \A p \in Owners : HasWaiter(g[l], p) => HasWaiter(h[l], p)
             /\ l \in S => HasWaiter(h[l], o)
  <2>1. g[l] \in Ledgers
    BY DEF Books
  <2>2. CASE l \in S
    BY <2>1, <2>2, <1>0, EnqueueKeeps
  <2>3. CASE l \notin S
    BY <2>1, <2>3, <1>0
  <2> QED  BY <2>2, <2>3
<1>2. Books(h)
  BY <1>1, <1>9 DEF Books, Accounted
<1> QED
  BY <1>0, <1>1, <1>2 DEF SameIn, h

\* A waiter that leaves keeps the accounts.
LEMMA DequeueBooks ==
  ASSUME NEW g, Books(g), NEW o \in Owners, NEW S \in SUBSET Levels
  PROVE  /\ Books(DequeueAt(g, o, S))
         /\ \A l \in Levels : DequeueAt(g, o, S)[l].held = g[l].held
         /\ \A l \in Levels \ S : DequeueAt(g, o, S)[l] = g[l]
         /\ \A p \in Owners \ {o} : SameIn(g, DequeueAt(g, o, S), p)
<1> DEFINE h == DequeueAt(g, o, S)
<1>0. \A l \in Levels : h[l] = IF l \in S THEN Dequeue(g[l], o) ELSE g[l]
  BY DEF DequeueAt
<1>9. h = [l \in Levels |-> h[l]]
  BY DEF DequeueAt
<1> HIDE DEF h
<1>1. ASSUME NEW l \in Levels
      PROVE  /\ h[l] \in Ledgers /\ h[l].held = g[l].held /\ h[l].free = g[l].free
             /\ \A p \in Owners \ {o} : HasWaiter(g[l], p) => HasWaiter(h[l], p)
  <2>1. g[l] \in Ledgers
    BY DEF Books
  <2>2. CASE l \in S
    BY <2>1, <2>2, <1>0, DequeueKeeps
  <2>3. CASE l \notin S
    BY <2>1, <2>3, <1>0
  <2> QED  BY <2>2, <2>3
<1>2. Books(h)
  BY <1>1, <1>9 DEF Books, Accounted
<1> QED
  BY <1>0, <1>1, <1>2 DEF SameIn, h

\* A slot given back keeps the accounts.
LEMMA UngrantBooks ==
  ASSUME NEW g, Books(g), NEW o \in Owners, NEW S \in SUBSET Levels,
         \A l \in S : g[l].held[o] # 0
  PROVE  /\ Books(UngrantAt(g, o, S))
         /\ \A l \in S : UngrantAt(g, o, S)[l].held[o] = 0
         /\ \A l \in Levels \ S : UngrantAt(g, o, S)[l] = g[l]
         /\ \A p \in Owners \ {o} : SameIn(g, UngrantAt(g, o, S), p)
<1> DEFINE h == UngrantAt(g, o, S)
<1>0. \A l \in Levels : h[l] = IF l \in S THEN Ungrant(g[l], o) ELSE g[l]
  BY DEF UngrantAt
<1>9. h = [l \in Levels |-> h[l]]
  BY DEF UngrantAt
<1> HIDE DEF h
<1>1. ASSUME NEW l \in Levels, l \in S
      PROVE  /\ h[l] \in Ledgers /\ Accounted(h[l], Limit(l)) /\ h[l].held[o] = 0
             /\ \A p \in Owners \ {o} : h[l].held[p] = g[l].held[p]
             /\ \A p \in Owners : HasWaiter(g[l], p) => HasWaiter(h[l], p)
  <2>1. g[l] \in Ledgers /\ Accounted(g[l], Limit(l)) /\ g[l].held[o] # 0
    BY <1>1 DEF Books
  <2>2. h[l] = Ungrant(g[l], o)
    BY <1>0, <1>1
  <2> QED
    BY <2>1, <2>2, LimitsArePositive, UngrantAccounted
<1>2. ASSUME NEW l \in Levels, l \notin S
      PROVE  h[l] = g[l] /\ h[l] \in Ledgers /\ Accounted(h[l], Limit(l))
  BY <1>0, <1>2 DEF Books
<1>3. Books(h)
  BY <1>1, <1>2, <1>9 DEF Books
<1>4. \A p \in Owners \ {o} : SameIn(g, h, p)
  BY <1>1, <1>2 DEF SameIn
<1> QED
  BY <1>1, <1>2, <1>3, <1>4 DEF h

\* A single level is granted.
LEMMA GrantBooks ==
  ASSUME NEW g, Books(g), NEW o \in Owners, NEW k \in Levels,
         NEW e \in Ledgers, Accounted(e, Limit(k)), e.held = g[k].held,
         \A p \in Owners : HasWaiter(g[k], p) => HasWaiter(e, p),
         e.held[o] = 0, MayGrant(e, o)
  PROVE  /\ Books([g EXCEPT ![k] = Grant(e, o)])
         /\ Grant(e, o).held[o] # 0
         /\ \A p \in Owners \ {o} : SameIn(g, [g EXCEPT ![k] = Grant(e, o)], p)
<1>1. /\ Grant(e, o) \in Ledgers /\ Accounted(Grant(e, o), Limit(k)) /\ Grant(e, o).held[o] # 0
      /\ \A p \in Owners \ {o} : Grant(e, o).held[p] = e.held[p]
      /\ \A p \in Owners \ {o} : HasWaiter(e, p) => HasWaiter(Grant(e, o), p)
  BY LimitsArePositive, GrantAccounted DEF MayGrant
<1>2. Books([g EXCEPT ![k] = Grant(e, o)])
  BY <1>1 DEF Books
<1> QED
  BY <1>1, <1>2 DEF SameIn, Books

------------------------------------------------------------------------------
SubPcs == {"idle", "asleep", "awake", "granted", "unregistered"}

Fields ==
    /\ call \in [Owners -> [pc : {"idle", "asleep", "awake"}, node : Nodes \cup {None},
                            until : Instants \cup {None}]]
    /\ subPc \in [Owners -> SubPcs]
    /\ subUntil \in [Owners -> Instants \cup {None}]
    /\ children \subseteq Owners /\ closed \subseteq {"work", "sub"} /\ now \in Instants

\* A caller of acquire in progress is queued and holds nothing.
Waiting(p) ==
    call[p].pc # "idle" =>
        /\ call[p].node \in Nodes
        /\ HasWaiter(ledger["global"], p)
        /\ \A l \in Scheduled : ledger[l].held[p] = 0

\* The levels are held from the top, and at one node.
Nested(p) ==
    /\ ledger["strategy"].held[p] # 0 => ledger["global"].held[p] # 0
    /\ \A n \in Nodes : ledger[n].held[p] # 0 =>
          ledger["strategy"].held[p] # 0 /\ ledger["global"].held[p] # 0
    /\ \A m, n \in Nodes : ledger[m].held[p] # 0 /\ ledger[n].held[p] # 0 => m = n

\* Where the call of the subordinate limiter stands tells what its owner holds.
SubOK(p) ==
    /\ subPc[p] \in {"asleep", "awake"} =>
          ledger["sub"].held[p] = 0 /\ HasWaiter(ledger["sub"], p)
    /\ subPc[p] \in {"granted", "unregistered"} =>
          ledger["sub"].held[p] # 0 /\ p \notin children
    /\ subPc[p] = "idle" /\ ledger["sub"].held[p] # 0 => p \in children
    /\ p \in children =>
          /\ ledger["sub"].held[p] # 0 /\ ledger["global"].held[p] # 0
          /\ ledger["strategy"].held[p] # 0 /\ \E n \in Nodes : ledger[n].held[p] # 0

OwnerOK(p) == Waiting(p) /\ Nested(p) /\ SubOK(p)

Inv == Books(ledger) /\ Fields /\ \A p \in Owners : OwnerOK(p)

\* The operators of the model in terms of the slots.
LEMMA HeldFacts ==
  ASSUME NEW o \in Owners
  PROVE  /\ \A l \in Levels : l \in HeldLevels(o) <=> l \in Scheduled /\ ledger[l].held[o] # 0
         /\ HoldsAll(o) <=> /\ ledger["global"].held[o] # 0 /\ ledger["strategy"].held[o] # 0
                            /\ \E n \in Nodes : ledger[n].held[o] # 0
BY LevelFacts DEF HeldLevels, HoldsAll, Holds

\* An owner that a step does not concern, except that it may be woken.
Kept(p) ==
    /\ SameIn(ledger, ledger', p)
    /\ call'[p].node = call[p].node /\ (call'[p].pc # "idle" => call[p].pc # "idle")
    /\ p \in children' <=> p \in children
    /\ subPc'[p] = subPc[p] \/ (subPc[p] = "asleep" /\ subPc'[p] = "awake")

\* A caller whose call and ledgers stay is where it was.
LEMMA KeptOwner ==
  ASSUME NEW p \in Owners, OwnerOK(p), Kept(p)
  PROVE  OwnerOK(p)'
<1>1. \A l \in Levels : ledger'[l].held[p] = ledger[l].held[p]
                        /\ (HasWaiter(ledger[l], p) => HasWaiter(ledger'[l], p))
  BY DEF Kept, SameIn
<1>2. Waiting(p)'
  BY <1>1, LevelFacts DEF OwnerOK, Waiting, Kept
<1>3. Nested(p)'
  BY <1>1, LevelFacts DEF OwnerOK, Nested
<1>4. SubOK(p)'
  <2>1. \A n \in Nodes : ledger'[n].held[p] = ledger[n].held[p]
    BY <1>1, LevelFacts
  <2>2. /\ ledger'["sub"].held[p] = ledger["sub"].held[p]
        /\ ledger'["global"].held[p] = ledger["global"].held[p]
        /\ ledger'["strategy"].held[p] = ledger["strategy"].held[p]
        /\ HasWaiter(ledger["sub"], p) => HasWaiter(ledger'["sub"], p)
    BY <1>1, LevelFacts
  <2> QED
    BY <2>1, <2>2 DEF OwnerOK, SubOK, Kept
<1> QED
  BY <1>2, <1>3, <1>4 DEF OwnerOK

\* An owner whose ledgers did not change keeps everything.
LEMMA SameLedger ==
  ASSUME UNCHANGED ledger
  PROVE  /\ Books(ledger) => Books(ledger')
         /\ \A p \in Owners : SameIn(ledger, ledger', p)
BY DEF SameIn

\* notify_all wakes callers and does nothing else.
LEMMA Notified ==
  ASSUME Fields, call' = NotifyAll(call)
  PROVE  /\ call' \in [Owners -> [pc : {"idle", "asleep", "awake"}, node : Nodes \cup {None},
                                  until : Instants \cup {None}]]
         /\ \A p \in Owners : call'[p].node = call[p].node
                              /\ (call'[p].pc # "idle" <=> call[p].pc # "idle")
BY DEF Fields, NotifyAll

\* Waking the subordinate waiters moves none of them in or out of a call.
LEMMA SubNotified ==
  ASSUME NEW pc \in [Owners -> SubPcs], subPc' = SubNotifyAll(pc)
  PROVE  /\ subPc' \in [Owners -> SubPcs]
         /\ \A p \in Owners : subPc'[p] = pc[p] \/ (pc[p] = "asleep" /\ subPc'[p] = "awake")
BY DEF SubNotifyAll, SubPcs

\* Before the first call.
LEMMA InitInv == Init => Inv
<1> SUFFICES ASSUME Init PROVE Inv
  OBVIOUS
<1>1. \A l \in Levels : EmptyLedger(l) \in Ledgers /\ Accounted(EmptyLedger(l), Limit(l))
      /\ \A p \in Owners : EmptyLedger(l).held[p] = 0
  BY LimitsArePositive DEF EmptyLedger, Ledgers, Accounted
<1>2. Books(ledger) /\ \A l \in Levels, p \in Owners : ledger[l].held[p] = 0
  BY <1>1 DEF Books, Init
<1>3. Fields
  BY CapacityAssumption DEF Fields, Init, Idle, Instants, SubPcs
<1>4. ASSUME NEW p \in Owners PROVE OwnerOK(p)
  <2>1. Waiting(p)
    BY DEF Waiting, Init, Idle
  <2>2. Nested(p)
    BY <1>2, LevelFacts DEF Nested
  <2>3. SubOK(p)
    BY <1>2, LevelFacts DEF SubOK, Init
  <2> QED  BY <2>1, <2>2, <2>3 DEF OwnerOK
<1> QED
  BY <1>2, <1>3, <1>4 DEF Inv

------------------------------------------------------------------------------
\* acquire keeps the invariant: it refuses an owner that is queued or holds.
LEMMA AcquireInv ==
  ASSUME Inv, NEW o \in Owners, NEW n \in Nodes, NEW until \in Instants \cup {None},
         Acquire(o, n, until)
  PROVE  Inv'
<1> DEFINE queued == [l \in Levels |-> IF l \in Reservation(n) THEN Enqueue(ledger[l], o) ELSE ledger[l]]
<1>1. /\ ~IsPendingOrHolding(o)
      /\ \/ CanTake(queued, o, n) /\ ledger' = TakeAll(queued, o, n) /\ call' = call
         \/ /\ until # None /\ ledger' = queued
            /\ call' = [call EXCEPT ![o] = [pc |-> "asleep", node |-> n, until |-> until]]
      /\ UNCHANGED <<subPc, subUntil, children, closed, now>>
  BY DEF Acquire
<1>2. /\ Books(queued)
      /\ \A p \in Owners : SameIn(ledger, queued, p)
      /\ \A l \in Reservation(n) : HasWaiter(queued[l], o)
  <2>1. queued = EnqueueAt(ledger, o, Reservation(n))
    BY DEF EnqueueAt
  <2> HIDE DEF queued
  <2> QED
    BY <2>1, EnqueueBooks, LevelFacts DEF Inv
<1> HIDE DEF queued
<1>3. /\ ledger["global"].held[o] = 0 /\ ledger["strategy"].held[o] = 0
      /\ ~HasWaiter(ledger["global"], o) /\ OwnerOK(o)
  BY <1>1 DEF IsPendingOrHolding, Holds, Inv
<1>4. call[o].pc = "idle" /\ o \notin children /\ \A l \in Scheduled : ledger[l].held[o] = 0
  BY <1>3, LevelFacts DEF OwnerOK, Waiting, Nested, SubOK
<1>5. \A l \in Scheduled : queued[l].held[o] = 0
  BY <1>2, <1>4, LevelFacts DEF SameIn
<1>6. CASE CanTake(queued, o, n) /\ ledger' = TakeAll(queued, o, n) /\ call' = call
  <2>1. /\ Books(ledger')
        /\ \A l \in Reservation(n) : ledger'[l].held[o] # 0
        /\ \A l \in Levels \ Reservation(n) : ledger'[l] = queued[l]
        /\ \A p \in Owners \ {o} : SameIn(queued, ledger', p)
    BY <1>2, <1>5, <1>6, LevelFacts, TakeAllBooks
  <2>2. \A p \in Owners \ {o} : SameIn(ledger, ledger', p)
    BY <1>2, <2>1 DEF SameIn
  <2>3. \A p \in Owners \ {o} : OwnerOK(p)'
    BY <1>1, <1>6, <2>2, KeptOwner DEF Kept, Inv
  <2>4. /\ ledger'["global"].held[o] # 0 /\ ledger'["strategy"].held[o] # 0 /\ ledger'[n].held[o] # 0
        /\ \A m \in Nodes \ {n} : ledger'[m].held[o] = 0
        /\ ledger'["sub"].held[o] = ledger["sub"].held[o]
        /\ HasWaiter(ledger["sub"], o) => HasWaiter(ledger'["sub"], o)
    BY <2>1, <1>2, <1>5, LevelFacts DEF Reservation, SameIn
  <2>5. Waiting(o)'
    BY <1>4, <1>6 DEF Waiting
  <2>6. Nested(o)'
    BY <2>4, LevelFacts DEF Nested
  <2>7. SubOK(o)'
    BY <1>1, <1>3, <1>4, <2>4 DEF OwnerOK, SubOK
  <2>8. Fields'
    BY <1>1, <1>6 DEF Inv, Fields
  <2> QED
    BY <2>1, <2>3, <2>5, <2>6, <2>7, <2>8 DEF Inv, OwnerOK
<1>7. CASE /\ until # None /\ ledger' = queued
           /\ call' = [call EXCEPT ![o] = [pc |-> "asleep", node |-> n, until |-> until]]
  <2>1. \A p \in Owners \ {o} : call'[p] = call[p]
    BY <1>7 DEF Inv, Fields
  <2>2. \A p \in Owners \ {o} : OwnerOK(p)'
    BY <1>1, <1>2, <1>7, <2>1, KeptOwner DEF Kept, Inv
  <2>3. call'[o].node = n /\ Fields'
    BY <1>1, <1>7 DEF Inv, Fields
  <2>4. Waiting(o)'
    BY <1>2, <1>5, <1>7, <2>3 DEF Waiting, Reservation
  <2>5. Nested(o)'
    BY <1>5, <1>7, LevelFacts DEF Nested
  <2>6. SubOK(o)'
    BY <1>1, <1>2, <1>3, <1>4, <1>7, LevelFacts DEF OwnerOK, SubOK, SameIn
  <2> QED
    BY <1>2, <1>7, <2>2, <2>3, <2>4, <2>5, <2>6 DEF Inv, OwnerOK
<1> QED  BY <1>1, <1>6, <1>7

\* Waking up changes no ledger.
LEMMA WaitTimesOutInv ==
  ASSUME Inv, NEW o \in Owners, WaitTimesOut(o)
  PROVE  Inv'
<1>1. /\ call[o].pc = "asleep" /\ call' = [call EXCEPT ![o].pc = "awake"]
      /\ UNCHANGED <<ledger, subPc, subUntil, children, closed, now>>
  BY DEF WaitTimesOut
<1>2. Fields' /\ \A p \in Owners : call'[p].node = call[p].node
                                   /\ (call'[p].pc # "idle" => call[p].pc # "idle")
  BY <1>1 DEF Inv, Fields
<1>3. \A p \in Owners : Kept(p)
  BY <1>1, <1>2, SameLedger DEF Kept
<1> QED
  BY <1>1, <1>2, <1>3, KeptOwner DEF Inv

\* A waiter that was woken leaves, takes its permits or sleeps again.
LEMMA RecheckInv ==
  ASSUME Inv, NEW o \in Owners, Recheck(o)
  PROVE  Inv'
<1> DEFINE n == call[o].node
<1>1. /\ call[o].pc = "awake"
      /\ \/ ledger' = Leave(o, n) /\ call' = [call EXCEPT ![o] = Idle]
         \/ /\ CanTake(ledger, o, n) /\ ledger' = TakeAll(ledger, o, n)
            /\ call' = [call EXCEPT ![o] = Idle]
         \/ call' = [call EXCEPT ![o].pc = "asleep"] /\ ledger' = ledger
      /\ UNCHANGED <<subPc, subUntil, children, closed, now>>
  BY DEF Recheck
<1>2. OwnerOK(o) /\ n \in Nodes /\ \A l \in Scheduled : ledger[l].held[o] = 0
  BY <1>1 DEF Inv, OwnerOK, Waiting
<1>3. o \notin children
  BY <1>2, LevelFacts DEF OwnerOK, SubOK
<1> HIDE DEF n
<1>4. CASE ledger' = Leave(o, n) /\ call' = [call EXCEPT ![o] = Idle]
  <2>1. /\ Books(ledger') /\ \A l \in Levels : ledger'[l].held = ledger[l].held
        /\ \A p \in Owners \ {o} : SameIn(ledger, ledger', p)
    <3>1. Books(ledger) /\ Reservation(n) \in SUBSET Levels
      BY <1>2, LevelFacts DEF Inv
    <3>2. ledger' = DequeueAt(ledger, o, Reservation(n))
      BY <1>4 DEF Leave, DequeueAt
    <3> QED
      BY <3>1, <3>2, DequeueBooks
  <2>2. \A p \in Owners \ {o} : call'[p] = call[p]
    BY <1>4 DEF Inv, Fields
  <2>3. \A p \in Owners \ {o} : OwnerOK(p)'
    BY <1>1, <2>1, <2>2, KeptOwner DEF Kept, Inv
  <2>4. call'[o].pc = "idle" /\ Fields'
    BY <1>1, <1>4 DEF Inv, Fields, Idle
  <2>5. ledger'["sub"] = ledger["sub"]
    BY <1>2, <1>4, LevelFacts DEF Leave
  <2>6. Nested(o)'
    BY <1>2, <2>1, LevelFacts DEF Nested
  <2>7. SubOK(o)'
    BY <1>1, <1>2, <1>3, <2>5 DEF OwnerOK, SubOK
  <2> QED
    BY <2>1, <2>3, <2>4, <2>6, <2>7 DEF Inv, OwnerOK, Waiting
<1>5. CASE /\ CanTake(ledger, o, n) /\ ledger' = TakeAll(ledger, o, n)
           /\ call' = [call EXCEPT ![o] = Idle]
  <2>1. /\ Books(ledger')
        /\ \A l \in Reservation(n) : ledger'[l].held[o] # 0
        /\ \A l \in Levels \ Reservation(n) : ledger'[l] = ledger[l]
        /\ \A p \in Owners \ {o} : SameIn(ledger, ledger', p)
    BY <1>2, <1>5, LevelFacts, TakeAllBooks DEF Inv
  <2>2. \A p \in Owners \ {o} : call'[p] = call[p]
    BY <1>5 DEF Inv, Fields
  <2>3. \A p \in Owners \ {o} : OwnerOK(p)'
    BY <1>1, <2>1, <2>2, KeptOwner DEF Kept, Inv
  <2>4. call'[o].pc = "idle" /\ Fields'
    BY <1>1, <1>5 DEF Inv, Fields, Idle
  <2>5. /\ ledger'["global"].held[o] # 0 /\ ledger'["strategy"].held[o] # 0 /\ ledger'[n].held[o] # 0
        /\ \A m \in Nodes \ {n} : ledger'[m].held[o] = 0
        /\ ledger'["sub"] = ledger["sub"]
    BY <2>1, <1>2, LevelFacts DEF Reservation
  <2>6. Nested(o)'
    BY <2>5, LevelFacts DEF Nested
  <2>7. SubOK(o)'
    BY <1>1, <1>2, <1>3, <2>5 DEF OwnerOK, SubOK
  <2> QED
    BY <2>1, <2>3, <2>4, <2>6, <2>7 DEF Inv, OwnerOK, Waiting
<1>6. CASE call' = [call EXCEPT ![o].pc = "asleep"] /\ ledger' = ledger
  <2>1. Fields' /\ \A p \in Owners : call'[p].node = call[p].node
                                     /\ (call'[p].pc # "idle" => call[p].pc # "idle")
    BY <1>1, <1>6 DEF Inv, Fields
  <2>2. \A p \in Owners : Kept(p)
    BY <1>1, <1>6, <2>1, SameLedger DEF Kept
  <2> QED
    BY <1>6, <2>1, <2>2, KeptOwner DEF Inv
<1> QED  BY <1>1, <1>4, <1>5, <1>6

\* release gives back all three permits of an owner without subordinates.
LEMMA ReleaseInv ==
  ASSUME Inv, NEW o \in Owners, NEW n \in Nodes, Release(o, n)
  PROVE  Inv'
<1>1. /\ \A l \in Reservation(n) : ledger[l].held[o] # 0
      /\ o \notin children /\ call' = NotifyAll(call)
      /\ ledger' = [l \in Levels |-> IF l \in Reservation(n) THEN Ungrant(ledger[l], o) ELSE ledger[l]]
      /\ UNCHANGED <<subPc, subUntil, children, closed, now>>
  BY DEF Release, Holds
<1>2. Books(ledger) /\ Reservation(n) \in SUBSET Levels /\ OwnerOK(o) /\ Fields
  BY LevelFacts DEF Inv
<1>3. /\ Books(ledger')
      /\ \A l \in Reservation(n) : ledger'[l].held[o] = 0
      /\ \A l \in Levels \ Reservation(n) : ledger'[l] = ledger[l]
      /\ \A p \in Owners \ {o} : SameIn(ledger, ledger', p)
  <2>1. ledger' = UngrantAt(ledger, o, Reservation(n))
    BY <1>1 DEF UngrantAt
  <2> QED
    BY <1>1, <1>2, <2>1, UngrantBooks
<1>4. Fields' /\ \A p \in Owners : call'[p].node = call[p].node
                                   /\ (call'[p].pc # "idle" <=> call[p].pc # "idle")
  BY <1>1, <1>2, Notified DEF Fields
<1>5. \A p \in Owners \ {o} : OwnerOK(p)'
  BY <1>1, <1>3, <1>4, KeptOwner DEF Kept, Inv
<1>6. call[o].pc = "idle"
  BY <1>1, <1>2, LevelFacts DEF OwnerOK, Waiting, Reservation
<1>7. \A m \in Nodes : ledger'[m].held[o] = 0
  <2>1. \A m \in Nodes \ {n} : ledger[m].held[o] = 0
    BY <1>1, <1>2 DEF OwnerOK, Nested, Reservation
  <2> QED
    BY <2>1, <1>3, LevelFacts DEF Reservation
<1>8. ledger'["strategy"].held[o] = 0 /\ ledger'["sub"] = ledger["sub"]
  BY <1>3, LevelFacts DEF Reservation
<1>9. Waiting(o)' /\ Nested(o)'
  BY <1>4, <1>6, <1>7, <1>8 DEF Waiting, Nested
<1>10. SubOK(o)'
  BY <1>1, <1>2, <1>8 DEF OwnerOK, SubOK
<1> QED
  BY <1>3, <1>4, <1>5, <1>9, <1>10 DEF Inv, OwnerOK

\* acquire_level grants the next level of the order.
LEMMA AcquireLevelInv ==
  ASSUME Inv, NEW o \in Owners, NEW k \in Scheduled, AcquireLevel(k, o)
  PROVE  Inv'
<1>1. /\ HeldLevels(o) = Before(k) /\ ~IsPending(o) /\ MayGrant(ledger[k], o)
      /\ ledger' = [ledger EXCEPT ![k] = Grant(ledger[k], o)]
      /\ UNCHANGED <<call, subPc, subUntil, children, closed, now>>
  BY DEF AcquireLevel
<1>2. /\ Books(ledger) /\ OwnerOK(o) /\ Fields /\ k \in Levels
      /\ ledger[k] \in Ledgers /\ Accounted(ledger[k], Limit(k))
  BY LevelFacts DEF Inv, Books
<1>3. k \notin Before(k)
  BY LevelFacts DEF Before
<1>4. ledger[k].held[o] = 0 /\ \A l \in Scheduled : ledger[l].held[o] # 0 <=> l \in Before(k)
  BY <1>1, <1>3, HeldFacts, LevelFacts
<1>5. /\ Books(ledger')
      /\ Grant(ledger[k], o).held[o] # 0
      /\ \A p \in Owners \ {o} : SameIn(ledger, ledger', p)
  BY <1>1, <1>2, <1>4, GrantBooks
<1>6. \A p \in Owners \ {o} : OwnerOK(p)'
  BY <1>1, <1>5, KeptOwner DEF Kept, Inv
<1>7. /\ ledger'[k].held[o] # 0 /\ \A l \in Levels \ {k} : ledger'[l] = ledger[l]
      /\ ledger'["sub"] = ledger["sub"]
  BY <1>1, <1>2, <1>5, LevelFacts DEF Books
<1>8. Waiting(o)'
  BY <1>1, <1>2 DEF OwnerOK, Waiting, IsPending
<1>9. Nested(o)'
  <2>1. CASE k = "global"
    <3>1. \A l \in Scheduled : ledger[l].held[o] = 0
      BY <1>4, <2>1 DEF Before
    <3> QED
      BY <3>1, <2>1, <1>7, LevelFacts DEF Nested
  <2>2. CASE k = "strategy"
    <3>1. Before(k) = {"global"}
      BY <2>2, LevelFacts DEF Before
    <3>2. ledger[k].held[o] = 0 /\ ledger["global"].held[o] # 0 /\ \A m \in Nodes : ledger[m].held[o] = 0
      BY <1>4, <3>1, LevelFacts
    <3> QED
      BY <3>2, <2>2, <1>7, LevelFacts DEF Nested
  <2>3. CASE k \in Nodes
    <3>1. Before(k) = {"global", "strategy"}
      BY <2>3, LevelFacts DEF Before
    <3>2. /\ ledger["global"].held[o] # 0 /\ ledger["strategy"].held[o] # 0
          /\ \A m \in Nodes : ledger[m].held[o] = 0
      BY <1>4, <3>1, LevelFacts
    <3> QED
      BY <3>2, <2>3, <1>7, LevelFacts DEF Nested
  <2> QED  BY <2>1, <2>2, <2>3, LevelFacts
<1>10. o \notin children
  <2>1. ASSUME o \in children PROVE FALSE
    <3>1. PICK m \in Nodes : ledger[m].held[o] # 0
      BY <1>2, <2>1 DEF OwnerOK, SubOK
    <3>2. m \in Before(k) /\ "strategy" \in Before(k)
      BY <3>1, <1>2, <1>4, <2>1, LevelFacts DEF OwnerOK, SubOK
    <3> QED
      BY <3>2, LevelFacts DEF Before
  <2> QED  BY <2>1
<1>11. SubOK(o)'
  BY <1>1, <1>2, <1>7, <1>10 DEF OwnerOK, SubOK
<1>12. Fields'
  BY <1>1, <1>2 DEF Fields
<1> QED
  BY <1>5, <1>6, <1>8, <1>9, <1>11, <1>12 DEF Inv, OwnerOK

\* release_level gives back the last level of the order.
LEMMA ReleaseLevelInv ==
  ASSUME Inv, NEW o \in Owners, NEW k \in Scheduled, ReleaseLevel(k, o)
  PROVE  Inv'
<1>1. /\ HeldLevels(o) \cap After(k) = {} /\ ledger[k].held[o] # 0 /\ o \notin children
      /\ ledger' = [ledger EXCEPT ![k] = Ungrant(ledger[k], o)]
      /\ call' = NotifyAll(call)
      /\ UNCHANGED <<subPc, subUntil, children, closed, now>>
  BY DEF ReleaseLevel, Holds
<1>2. /\ Books(ledger) /\ OwnerOK(o) /\ Fields /\ k \in Levels
      /\ {k} \in SUBSET Levels /\ \A l \in {k} : ledger[l].held[o] # 0
  BY <1>1, LevelFacts DEF Inv
<1>3. ledger' = UngrantAt(ledger, o, {k})
  BY <1>1, <1>2 DEF Books, UngrantAt
<1>4. /\ Books(ledger') /\ ledger'[k].held[o] = 0
      /\ \A l \in Levels \ {k} : ledger'[l] = ledger[l]
      /\ \A p \in Owners \ {o} : SameIn(ledger, ledger', p)
  BY <1>2, <1>3, UngrantBooks
<1>5. Fields' /\ \A p \in Owners : call'[p].node = call[p].node
                                   /\ (call'[p].pc # "idle" <=> call[p].pc # "idle")
  BY <1>1, <1>2, Notified DEF Fields
<1>6. \A p \in Owners \ {o} : OwnerOK(p)'
  BY <1>1, <1>4, <1>5, KeptOwner DEF Kept, Inv
<1>7. call[o].pc = "idle" /\ ledger'["sub"] = ledger["sub"]
  BY <1>1, <1>2, <1>4, LevelFacts DEF OwnerOK, Waiting
<1>8. \A l \in After(k) : ledger[l].held[o] = 0
  BY <1>1, HeldFacts, LevelFacts DEF After, Scheduled
<1>9. Nested(o)'
  <2>1. CASE k = "global"
    <3>1. \A l \in Scheduled : ledger'[l].held[o] = 0
      BY <1>4, <1>8, <2>1, LevelFacts DEF After
    <3> QED  BY <3>1, LevelFacts DEF Nested
  <2>2. CASE k = "strategy"
    <3>1. \A m \in Nodes : ledger'[m].held[o] = 0
      BY <1>4, <1>8, <2>2, LevelFacts DEF After
    <3> QED  BY <3>1, <2>2, <1>4, LevelFacts DEF Nested
  <2>3. CASE k \in Nodes
    <3>1. /\ ledger'["global"] = ledger["global"] /\ ledger'["strategy"] = ledger["strategy"]
          /\ \A m \in Nodes : ledger'[m].held[o] # 0 => ledger[m].held[o] # 0
      BY <1>4, <2>3, LevelFacts
    <3> QED  BY <3>1, <1>2 DEF OwnerOK, Nested
  <2> QED  BY <2>1, <2>2, <2>3, LevelFacts
<1>10. SubOK(o)'
  BY <1>1, <1>2, <1>7 DEF OwnerOK, SubOK
<1> QED
  BY <1>4, <1>5, <1>6, <1>7, <1>9, <1>10 DEF Inv, OwnerOK, Waiting

\* close wakes every waiter.
LEMMA CloseInv ==
  ASSUME Inv, Close
  PROVE  Inv'
<1>1. /\ call' = NotifyAll(call) /\ closed' = closed \cup {"work"}
      /\ UNCHANGED <<ledger, subPc, subUntil, children, now>>
  BY DEF Close
<1>2. Fields' /\ \A p \in Owners : call'[p].node = call[p].node
                                   /\ (call'[p].pc # "idle" <=> call[p].pc # "idle")
  BY <1>1, Notified DEF Fields, Inv
<1>3. \A p \in Owners : Kept(p)
  BY <1>1, <1>2, SameLedger DEF Kept
<1> QED
  BY <1>1, <1>2, <1>3, KeptOwner DEF Inv

\* A change of the subordinate ledger alone leaves the scheduled levels as they are.
LEMMA SubLedgerOnly ==
  ASSUME Inv, NEW e, ledger' = [ledger EXCEPT !["sub"] = e]
  PROVE  /\ ledger'["sub"] = e
         /\ ledger'["global"] = ledger["global"] /\ ledger'["strategy"] = ledger["strategy"]
         /\ \A l \in Scheduled : ledger'[l] = ledger[l]
         /\ \A n \in Nodes : ledger'[n] = ledger[n]
BY LevelFacts DEF Inv, Books

\* The subordinate ledger grants a slot, to a new caller or to a waiter.
LEMMA SubGrantInv ==
  ASSUME Inv, NEW o \in Owners, NEW e \in Ledgers,
         e.held = ledger["sub"].held, e.free = ledger["sub"].free,
         \A p \in Owners : HasWaiter(ledger["sub"], p) => HasWaiter(e, p),
         e.held[o] = 0, MayGrant(e, o), o \notin children,
         ledger' = [ledger EXCEPT !["sub"] = Grant(e, o)],
         subPc' = [subPc EXCEPT ![o] = "granted"],
         subUntil' \in [Owners -> Instants \cup {None}],
         UNCHANGED <<call, children, closed, now>>
  PROVE  Inv'
<1>1. Books(ledger) /\ OwnerOK(o) /\ Fields /\ "sub" \in Levels
  BY LevelFacts DEF Inv
<1>2. Accounted(e, Limit("sub"))
  BY <1>1 DEF Books, Accounted
<1>3. /\ Books(ledger') /\ Grant(e, o).held[o] # 0
      /\ \A p \in Owners \ {o} : SameIn(ledger, ledger', p)
  BY <1>1, <1>2, GrantBooks
<1>4. Fields' /\ subPc'[o] = "granted" /\ \A p \in Owners \ {o} : subPc'[p] = subPc[p]
  BY <1>1 DEF Fields, SubPcs
<1>5. \A p \in Owners \ {o} : OwnerOK(p)'
  BY <1>3, <1>4, KeptOwner DEF Kept, Inv
<1>6. /\ ledger'["sub"].held[o] # 0
      /\ ledger'["global"] = ledger["global"] /\ ledger'["strategy"] = ledger["strategy"]
      /\ \A l \in Scheduled : ledger'[l] = ledger[l]
      /\ \A n \in Nodes : ledger'[n] = ledger[n]
  BY <1>3, SubLedgerOnly
<1>7. Waiting(o)' /\ Nested(o)'
  BY <1>1, <1>6 DEF OwnerOK, Waiting, Nested
<1>8. SubOK(o)'
  BY <1>4, <1>6 DEF SubOK
<1> QED
  BY <1>3, <1>4, <1>5, <1>7, <1>8 DEF Inv, OwnerOK

\* acquire of the subordinate limiter.
LEMMA SubAcquireInv ==
  ASSUME Inv, NEW o \in Owners, NEW until \in Instants \cup {None}, SubAcquire(o, until)
  PROVE  Inv'
<1> DEFINE e == Enqueue(ledger["sub"], o)
<1>1. /\ ~SubLocked /\ ledger["sub"].held[o] = 0 /\ ~HasWaiter(ledger["sub"], o)
      /\ \/ /\ MayGrant(e, o) /\ ledger' = [ledger EXCEPT !["sub"] = Grant(e, o)]
            /\ subPc' = [subPc EXCEPT ![o] = "granted"] /\ subUntil' = subUntil
         \/ /\ ledger' = [ledger EXCEPT !["sub"] = e]
            /\ subPc' = [subPc EXCEPT ![o] = "asleep"]
            /\ subUntil' = [subUntil EXCEPT ![o] = until]
      /\ UNCHANGED <<call, children, closed, now>>
  BY DEF SubAcquire, Holds
<1>2. Books(ledger) /\ OwnerOK(o) /\ Fields /\ ledger["sub"] \in Ledgers
  BY LevelFacts DEF Inv, Books
<1>3. /\ e \in Ledgers /\ e.held = ledger["sub"].held /\ e.free = ledger["sub"].free
      /\ HasWaiter(e, o) /\ \A p \in Owners : HasWaiter(ledger["sub"], p) => HasWaiter(e, p)
  BY <1>2, EnqueueKeeps
<1>4. o \notin children
  BY <1>1, <1>2 DEF OwnerOK, SubOK
<1> HIDE DEF e
<1>5. CASE /\ MayGrant(e, o) /\ ledger' = [ledger EXCEPT !["sub"] = Grant(e, o)]
           /\ subPc' = [subPc EXCEPT ![o] = "granted"] /\ subUntil' = subUntil
  <2>1. e.held[o] = 0 /\ subUntil' \in [Owners -> Instants \cup {None}]
    BY <1>1, <1>2, <1>3, <1>5 DEF Fields
  <2> QED
    BY <1>1, <1>3, <1>4, <1>5, <2>1, SubGrantInv
<1>6. CASE /\ ledger' = [ledger EXCEPT !["sub"] = e]
           /\ subPc' = [subPc EXCEPT ![o] = "asleep"]
           /\ subUntil' = [subUntil EXCEPT ![o] = until]
  <2>1. /\ ledger'["sub"] = e
        /\ ledger'["global"] = ledger["global"] /\ ledger'["strategy"] = ledger["strategy"]
        /\ \A l \in Scheduled : ledger'[l] = ledger[l]
        /\ \A n \in Nodes : ledger'[n] = ledger[n]
    BY <1>6, SubLedgerOnly
  <2>2. Books(ledger')
    <3>1. Accounted(e, Limit("sub"))
      BY <1>2, <1>3, LevelFacts DEF Books, Accounted
    <3> QED
      BY <1>2, <1>3, <1>6, <3>1 DEF Books
  <2>3. \A p \in Owners : SameIn(ledger, ledger', p)
    <3>1. \A l \in Levels : l = "sub" \/ l \in Scheduled
      BY DEF Scheduled
    <3> QED
      BY <1>3, <2>1, <3>1 DEF SameIn
  <2>4. Fields' /\ subPc'[o] = "asleep" /\ \A p \in Owners \ {o} : subPc'[p] = subPc[p]
    BY <1>1, <1>2, <1>6 DEF Fields, SubPcs
  <2>5. \A p \in Owners \ {o} : OwnerOK(p)'
    BY <1>1, <2>3, <2>4, KeptOwner DEF Kept, Inv
  <2>6. Waiting(o)' /\ Nested(o)'
    BY <1>1, <1>2, <2>1 DEF OwnerOK, Waiting, Nested
  <2>7. SubOK(o)'
    BY <1>1, <1>3, <1>4, <2>1, <2>4 DEF SubOK
  <2> QED
    BY <2>2, <2>4, <2>5, <2>6, <2>7 DEF Inv, OwnerOK
<1> QED  BY <1>1, <1>5, <1>6

\* Only the place of one subordinate call changes.
LEMMA SubWakeInv ==
  ASSUME Inv, NEW o \in Owners, subPc[o] \in {"asleep", "awake"},
         NEW pc \in {"asleep", "awake"}, subPc' = [subPc EXCEPT ![o] = pc],
         UNCHANGED <<ledger, call, subUntil, children, closed, now>>
  PROVE  Inv'
<1>1. Fields' /\ subPc'[o] = pc /\ \A p \in Owners \ {o} : subPc'[p] = subPc[p]
  BY DEF Inv, Fields, SubPcs
<1>2. \A p \in Owners \ {o} : OwnerOK(p)'
  BY <1>1, SameLedger, KeptOwner DEF Kept, Inv
<1>3. Waiting(o)' /\ Nested(o)'
  BY DEF Inv, OwnerOK, Waiting, Nested
<1>4. SubOK(o)'
  BY <1>1 DEF Inv, OwnerOK, SubOK
<1> QED
  BY <1>1, <1>2, <1>3, <1>4 DEF Inv, OwnerOK

\* A subordinate waiter leaves, is granted or sleeps again.
LEMMA SubRecheckInv ==
  ASSUME Inv, NEW o \in Owners, SubRecheck(o)
  PROVE  Inv'
<1>1. /\ subPc[o] = "awake"
      /\ \/ /\ ledger' = [ledger EXCEPT !["sub"] = Dequeue(ledger["sub"], o)]
            /\ subPc' = [subPc EXCEPT ![o] = "idle"]
            /\ subUntil' = [subUntil EXCEPT ![o] = None]
         \/ /\ MayGrant(ledger["sub"], o)
            /\ ledger' = [ledger EXCEPT !["sub"] = Grant(ledger["sub"], o)]
            /\ subPc' = [subPc EXCEPT ![o] = "granted"]
            /\ subUntil' = [subUntil EXCEPT ![o] = None]
         \/ /\ subPc' = [subPc EXCEPT ![o] = "asleep"]
            /\ UNCHANGED <<ledger, subUntil>>
      /\ UNCHANGED <<call, children, closed, now>>
  BY DEF SubRecheck
<1>2. /\ Books(ledger) /\ OwnerOK(o) /\ Fields /\ ledger["sub"] \in Ledgers
      /\ ledger["sub"].held[o] = 0 /\ o \notin children
  BY <1>1, LevelFacts DEF Inv, Books, OwnerOK, SubOK
<1>3. CASE /\ ledger' = [ledger EXCEPT !["sub"] = Dequeue(ledger["sub"], o)]
           /\ subPc' = [subPc EXCEPT ![o] = "idle"]
           /\ subUntil' = [subUntil EXCEPT ![o] = None]
  <2>1. ledger' = DequeueAt(ledger, o, {"sub"})
    BY <1>2, <1>3 DEF DequeueAt, Books
  <2>2. /\ Books(ledger') /\ \A l \in Levels : ledger'[l].held = ledger[l].held
        /\ \A l \in Levels \ {"sub"} : ledger'[l] = ledger[l]
        /\ \A p \in Owners \ {o} : SameIn(ledger, ledger', p)
    BY <1>2, <2>1, DequeueBooks, LevelFacts
  <2>3. Fields' /\ subPc'[o] = "idle" /\ \A p \in Owners \ {o} : subPc'[p] = subPc[p]
    BY <1>1, <1>2, <1>3 DEF Fields, SubPcs
  <2>4. \A p \in Owners \ {o} : OwnerOK(p)'
    BY <1>1, <2>2, <2>3, KeptOwner DEF Kept, Inv
  <2>5. /\ ledger'["global"] = ledger["global"] /\ ledger'["strategy"] = ledger["strategy"]
        /\ \A l \in Scheduled : ledger'[l] = ledger[l]
        /\ \A n \in Nodes : ledger'[n] = ledger[n]
    BY <1>3, SubLedgerOnly
  <2>6. Waiting(o)' /\ Nested(o)'
    BY <1>1, <1>2, <2>5 DEF OwnerOK, Waiting, Nested
  <2>7. SubOK(o)'
    BY <1>1, <1>2, <2>2, <2>3, LevelFacts DEF SubOK
  <2> QED
    BY <2>2, <2>3, <2>4, <2>6, <2>7 DEF Inv, OwnerOK
<1>4. CASE /\ MayGrant(ledger["sub"], o)
           /\ ledger' = [ledger EXCEPT !["sub"] = Grant(ledger["sub"], o)]
           /\ subPc' = [subPc EXCEPT ![o] = "granted"]
           /\ subUntil' = [subUntil EXCEPT ![o] = None]
  <2>1. subUntil' \in [Owners -> Instants \cup {None}]
    BY <1>2, <1>4 DEF Fields
  <2> QED
    BY <1>1, <1>2, <1>4, <2>1, SubGrantInv
<1>5. CASE /\ subPc' = [subPc EXCEPT ![o] = "asleep"]
           /\ UNCHANGED <<ledger, subUntil>>
  BY <1>1, <1>5, SubWakeInv
<1> QED  BY <1>1, <1>3, <1>4, <1>5

\* A granted slot that is refused, or unregistered, goes back and its waiters wake.
LEMMA SubReturnInv ==
  ASSUME Inv, NEW o \in Owners, subPc[o] \in {"granted", "unregistered"},
         ledger' = [ledger EXCEPT !["sub"] = Ungrant(ledger["sub"], o)],
         subPc' = SubNotifyAll([subPc EXCEPT ![o] = "idle"]),
         UNCHANGED <<call, subUntil, children, closed, now>>
  PROVE  Inv'
<1>1. /\ Books(ledger) /\ OwnerOK(o) /\ Fields
      /\ ledger["sub"].held[o] # 0 /\ o \notin children
  BY DEF Inv, OwnerOK, SubOK
<1>2. ledger' = UngrantAt(ledger, o, {"sub"})
  BY <1>1 DEF UngrantAt, Books
<1>3. /\ Books(ledger') /\ ledger'["sub"].held[o] = 0
      /\ \A p \in Owners \ {o} : SameIn(ledger, ledger', p)
  <2>1. {"sub"} \in SUBSET Levels /\ \A l \in {"sub"} : ledger[l].held[o] # 0
    BY <1>1, LevelFacts
  <2>2. /\ Books(ledger') /\ \A l \in {"sub"} : ledger'[l].held[o] = 0
        /\ \A p \in Owners \ {o} : SameIn(ledger, ledger', p)
    <3>1. /\ Books(UngrantAt(ledger, o, {"sub"}))
          /\ \A l \in {"sub"} : UngrantAt(ledger, o, {"sub"})[l].held[o] = 0
          /\ \A p \in Owners \ {o} : SameIn(ledger, UngrantAt(ledger, o, {"sub"}), p)
      BY <1>1, <2>1, UngrantBooks
    <3> QED  BY <3>1, <1>2
  <2> QED  BY <2>2
<1>4. [subPc EXCEPT ![o] = "idle"] \in [Owners -> SubPcs]
  BY <1>1 DEF Fields, SubPcs
<1>5. /\ subPc' \in [Owners -> SubPcs] /\ subPc'[o] = "idle"
      /\ \A p \in Owners \ {o} : subPc'[p] = subPc[p] \/ (subPc[p] = "asleep" /\ subPc'[p] = "awake")
  BY <1>1, <1>4, SubNotified DEF Fields
<1>6. Fields'
  BY <1>1, <1>5 DEF Fields
<1>7. \A p \in Owners \ {o} : OwnerOK(p)'
  BY <1>3, <1>5, KeptOwner DEF Kept, Inv
<1>8. /\ ledger'["global"] = ledger["global"] /\ ledger'["strategy"] = ledger["strategy"]
      /\ \A l \in Scheduled : ledger'[l] = ledger[l]
      /\ \A n \in Nodes : ledger'[n] = ledger[n]
  BY SubLedgerOnly
<1>9. Waiting(o)' /\ Nested(o)'
  BY <1>1, <1>8 DEF OwnerOK, Waiting, Nested
<1>10. SubOK(o)'
  BY <1>1, <1>3, <1>5 DEF SubOK
<1> QED
  BY <1>3, <1>6, <1>7, <1>9, <1>10 DEF Inv, OwnerOK

\* register_subordinate and unregister_subordinate.
LEMMA RegisterInv ==
  ASSUME Inv, NEW o \in Owners, Register(o) \/ SubRelease(o)
  PROVE  Inv'
<1>1. UNCHANGED <<ledger, call, subUntil, closed, now>> /\ Books(ledger) /\ Fields /\ OwnerOK(o)
  BY DEF Register, SubRelease, Inv
<1>2. CASE Register(o)
  <2>1. /\ subPc[o] = "granted" /\ HoldsAll(o) /\ children' = children \cup {o}
        /\ subPc' = [subPc EXCEPT ![o] = "idle"]
    BY <1>2 DEF Register
  <2>2. Fields' /\ subPc'[o] = "idle" /\ \A p \in Owners \ {o} : subPc'[p] = subPc[p]
    BY <1>1, <2>1 DEF Fields, SubPcs
  <2>3. \A p \in Owners \ {o} : OwnerOK(p)'
    BY <1>1, <2>1, <2>2, SameLedger, KeptOwner DEF Kept, Inv
  <2>4. SubOK(o)'
    BY <1>1, <2>1, <2>2, HeldFacts DEF OwnerOK, SubOK
  <2>5. Waiting(o)' /\ Nested(o)'
    BY <1>1 DEF OwnerOK, Waiting, Nested
  <2> QED
    BY <1>1, <2>2, <2>3, <2>4, <2>5 DEF Inv, OwnerOK
<1>3. CASE SubRelease(o)
  <2>1. /\ ledger["sub"].held[o] # 0 /\ children' = children \ {o}
        /\ subPc' = [subPc EXCEPT ![o] = "unregistered"]
    BY <1>3 DEF SubRelease, Holds
  <2>2. Fields' /\ subPc'[o] = "unregistered" /\ \A p \in Owners \ {o} : subPc'[p] = subPc[p]
    BY <1>1, <2>1 DEF Fields, SubPcs
  <2>3. \A p \in Owners \ {o} : OwnerOK(p)'
    BY <1>1, <2>1, <2>2, SameLedger, KeptOwner DEF Kept, Inv
  <2>4. SubOK(o)'
    BY <1>1, <2>1, <2>2 DEF SubOK
  <2>5. Waiting(o)' /\ Nested(o)'
    BY <1>1 DEF OwnerOK, Waiting, Nested
  <2> QED
    BY <1>1, <2>2, <2>3, <2>4, <2>5 DEF Inv, OwnerOK
<1> QED  BY <1>2, <1>3

\* The subordinate limiter closes and wakes its waiters.
LEMMA SubCloseInv ==
  ASSUME Inv, SubClose
  PROVE  Inv'
<1>1. /\ subPc' = SubNotifyAll(subPc) /\ closed' = closed \cup {"sub"}
      /\ UNCHANGED <<ledger, call, subUntil, children, now>>
  BY DEF SubClose
<1>2. /\ subPc' \in [Owners -> SubPcs]
      /\ \A p \in Owners : subPc'[p] = subPc[p] \/ (subPc[p] = "asleep" /\ subPc'[p] = "awake")
  BY <1>1, SubNotified DEF Inv, Fields
<1>3. Fields'
  BY <1>1, <1>2 DEF Inv, Fields
<1>4. \A p \in Owners : Kept(p)
  BY <1>1, <1>2, SameLedger DEF Kept
<1> QED
  BY <1>1, <1>3, <1>4, KeptOwner DEF Inv

\* Time passes.
LEMMA TickInv ==
  ASSUME Inv, Tick \/ UNCHANGED vars
  PROVE  Inv'
<1>1. UNCHANGED <<ledger, call, subPc, subUntil, children, closed>>
  BY DEF Tick, vars
<1>2. Fields'
  <2>1. now' \in Instants
    BY CapacityAssumption DEF Inv, Fields, Tick, vars, Instants
  <2> QED  BY <1>1, <2>1 DEF Inv, Fields
<1>3. \A p \in Owners : Kept(p)
  BY <1>1, SameLedger DEF Kept
<1> QED
  BY <1>1, <1>2, <1>3, KeptOwner DEF Inv

------------------------------------------------------------------------------
\* Every operation of the two limiters keeps the invariant.
LEMMA StepInv == Inv /\ [Next]_vars => Inv'
<1> SUFFICES ASSUME Inv, [Next]_vars PROVE Inv'
  OBVIOUS
<1>1. ASSUME NEW o \in Owners, OwnerStep(o) PROVE Inv'
  <2>1. ASSUME NEW n \in Nodes, Release(o, n) PROVE Inv'
    BY <2>1, ReleaseInv
  <2>2. ASSUME NEW n \in Nodes, NEW until \in Instants \cup {None}, Acquire(o, n, until)
        PROVE  Inv'
    BY <2>2, AcquireInv
  <2>3. CASE WaitTimesOut(o)
    BY <2>3, WaitTimesOutInv
  <2>4. CASE Recheck(o)
    BY <2>4, RecheckInv
  <2>5. ASSUME NEW l \in Scheduled, AcquireLevel(l, o) PROVE Inv'
    BY <2>5, AcquireLevelInv
  <2>6. ASSUME NEW l \in Scheduled, ReleaseLevel(l, o) PROVE Inv'
    BY <2>6, ReleaseLevelInv
  <2>7. ASSUME NEW until \in Instants \cup {None}, SubAcquire(o, until) PROVE Inv'
    BY <2>7, SubAcquireInv
  <2>8. CASE SubWaitTimesOut(o)
    BY <2>8, SubWakeInv DEF SubWaitTimesOut
  <2>9. CASE SubRecheck(o)
    BY <2>9, SubRecheckInv
  <2>10. CASE Register(o) \/ SubRelease(o)
    BY <2>10, RegisterInv
  <2>11. CASE Refuse(o) \/ SubReleased(o)
    BY <2>11, SubReturnInv DEF Refuse, SubReleased
  <2> QED
    BY <1>1, <2>1, <2>2, <2>3, <2>4, <2>5, <2>6, <2>7, <2>8, <2>9, <2>10, <2>11 DEF OwnerStep
<1>2. CASE Close
  BY <1>2, CloseInv
<1>3. CASE SubClose
  BY <1>3, SubCloseInv
<1>4. CASE Tick \/ UNCHANGED vars
  BY <1>4, TickInv
<1> QED
  BY <1>1, <1>2, <1>3, <1>4 DEF Next

\* What a reader of the ledgers may rely on follows from the invariant.
LEMMA InvImplies == Inv => TypeOK /\ SlotsAccounted /\ LevelsNested /\ SubordinateUnderParent
<1> SUFFICES ASSUME Inv PROVE TypeOK /\ SlotsAccounted /\ LevelsNested /\ SubordinateUnderParent
  OBVIOUS
<1>1. TypeOK
  BY DEF Inv, Books, Ledgers, Accounted, Fields, SubPcs, TypeOK
<1>2. SlotsAccounted
  BY DEF Inv, Books, Accounted, SlotsAccounted, Holds
<1>3. LevelsNested
  <2> SUFFICES ASSUME NEW o \in Owners
               PROVE  /\ \A l \in HeldLevels(o) : Before(l) \subseteq HeldLevels(o)
                      /\ \A m, n \in HeldLevels(o) \cap Nodes : m = n
    BY DEF LevelsNested
  <2>1. Nested(o)
    BY DEF Inv, OwnerOK
  <2>2. \A l \in HeldLevels(o) : l \in Scheduled /\ ledger[l].held[o] # 0
    BY DEF HeldLevels, Holds
  <2>3. ASSUME NEW l \in HeldLevels(o) PROVE Before(l) \subseteq HeldLevels(o)
    <3>1. CASE l = "global"
      <4>1. Before(l) = {}
        BY <3>1, LevelFacts DEF Before
      <4> QED  BY <4>1
    <3>2. CASE l = "strategy"
      <4>1. Before(l) = {"global"}
        BY <3>2, LevelFacts DEF Before
      <4> QED
        BY <4>1, <3>2, <2>1, <2>2, HeldFacts, LevelFacts DEF Nested
    <3>3. CASE l \in Nodes
      <4>1. Before(l) = {"global", "strategy"}
        BY <3>3, LevelFacts DEF Before
      <4> QED
        BY <4>1, <3>3, <2>1, <2>2, HeldFacts, LevelFacts DEF Nested
    <3> QED  BY <3>1, <3>2, <3>3, <2>2, LevelFacts
  <2>4. \A m, n \in HeldLevels(o) \cap Nodes : m = n
    BY <2>1, <2>2 DEF Nested
  <2> QED  BY <2>3, <2>4
<1>4. SubordinateUnderParent
  <2>1. ASSUME NEW o \in children PROVE HoldsAll(o) /\ Holds(ledger["sub"], o)
    <3>1. o \in Owners /\ SubOK(o)
      BY DEF Inv, Fields, OwnerOK
    <3> QED
      BY <3>1, HeldFacts DEF SubOK, Holds
  <2>2. ASSUME NEW o \in Owners, Holds(ledger["sub"], o)
        PROVE  o \in children \/ subPc[o] \in {"granted", "unregistered"}
    <3>1. SubOK(o) /\ subPc[o] \in SubPcs
      BY DEF Inv, Fields, OwnerOK
    <3> QED
      BY <3>1, <2>2 DEF SubOK, SubPcs, Holds
  <2> QED
    BY <2>1, <2>2 DEF SubordinateUnderParent
<1> QED  BY <1>1, <1>2, <1>3, <1>4

------------------------------------------------------------------------------
\* The order of a queue, by the places of its members.
In(w, o) == \E i \in DOMAIN w : w[i] = o
Precedes(w, o, p) == \E i, j \in DOMAIN w : i < j /\ w[i] = o /\ w[j] = p
Once(w) == \A o \in Owners : ~Precedes(w, o, o)

\* The waiters of a ledger in terms of its queue.
LEMMA QueueFacts ==
  /\ \A g, o : HasWaiter(g, o) <=> In(g.waiters, o)
  /\ \A g, o, p : Ahead(g, o, p) <=> Precedes(g.waiters, o, p)
BY DEF HasWaiter, Ahead, In, Precedes

\* A caller that joins a queue is behind everybody in it.
LEMMA AppendedOrder ==
  ASSUME NEW w \in Seq(Owners), NEW o \in Owners
  PROVE  /\ Append(w, o) \in Seq(Owners)
         /\ \A p : In(Append(w, o), p) <=> In(w, p) \/ p = o
         /\ \A p, q : Precedes(Append(w, o), p, q) <=> Precedes(w, p, q) \/ (In(w, p) /\ q = o)
<1> DEFINE n == Len(w)
           v == Append(w, o)
           m == n + 1
<1>1. n \in Nat /\ m \in Nat /\ DOMAIN w = 1..n
  OBVIOUS
<1>2. v \in Seq(Owners) /\ DOMAIN v = 1..m /\ v[m] = o /\ \A i \in 1..n : v[i] = w[i]
  OBVIOUS
<1>3. \A i \in Nat : i \in 1..m <=> i \in 1..n \/ i = m
  BY <1>1
<1>4. /\ m \notin 1..n /\ 1..n \subseteq Nat /\ 1..m \subseteq Nat
      /\ \A i \in 1..n : i < m
      /\ \A i \in 1..m : ~(m < i)
  BY <1>1
<1> HIDE DEF n, m, v
<1>5. ASSUME NEW p PROVE In(v, p) <=> In(w, p) \/ p = o
  BY <1>1, <1>2, <1>3, <1>4 DEF In
<1>6. ASSUME NEW p, NEW q
      PROVE  Precedes(v, p, q) <=> Precedes(w, p, q) \/ (In(w, p) /\ q = o)
  <2>1. ASSUME Precedes(v, p, q) PROVE Precedes(w, p, q) \/ (In(w, p) /\ q = o)
    <3>1. PICK i, j \in 1..m : i < j /\ v[i] = p /\ v[j] = q
      BY <2>1, <1>2 DEF Precedes
    <3>2. i # m /\ i \in 1..n
      BY <3>1, <1>3, <1>4
    <3>3. CASE j = m
      BY <3>1, <3>2, <3>3, <1>1, <1>2 DEF In
    <3>4. CASE j \in 1..n
      BY <3>1, <3>2, <3>4, <1>1, <1>2 DEF Precedes
    <3> QED  BY <3>3, <3>4, <1>3, <1>4
  <2>2. ASSUME Precedes(w, p, q) PROVE Precedes(v, p, q)
    <3>1. PICK i, j \in 1..n : i < j /\ w[i] = p /\ w[j] = q
      BY <2>2, <1>1 DEF Precedes
    <3> QED  BY <3>1, <1>2, <1>3, <1>4 DEF Precedes
  <2>3. ASSUME In(w, p), q = o PROVE Precedes(v, p, q)
    <3>1. PICK i \in 1..n : w[i] = p
      BY <2>3, <1>1 DEF In
    <3>2. i \in 1..m /\ m \in 1..m /\ i < m /\ v[i] = p /\ v[m] = q
      BY <3>1, <2>3, <1>1, <1>2, <1>3, <1>4
    <3> QED  BY <3>2, <1>2 DEF Precedes
  <2> QED  BY <2>1, <2>2, <2>3
<1> QED  BY <1>2, <1>5, <1>6 DEF v

\* A member that leaves a queue in which it stands once leaves the order of the others.
LEMMA RemovedOrder ==
  ASSUME NEW w \in Seq(Owners), Once(w), NEW i \in 1..Len(w)
  PROVE  /\ \A p : In(Without(w, i), p) <=> In(w, p) /\ p # w[i]
         /\ \A p, q : Precedes(Without(w, i), p, q) <=> Precedes(w, p, q) /\ p # w[i] /\ q # w[i]
<1> DEFINE n == Len(w)
           m == n - 1
           v == Without(w, i)
           Up(k) == IF k < i THEN k ELSE k + 1
           Down(j) == IF j < i THEN j ELSE j - 1
<1>1. n \in Nat /\ i \in Nat /\ i \in 1..n /\ DOMAIN w = 1..n
  OBVIOUS
<1>5. DOMAIN v = 1..m /\ \A k \in 1..m : v[k] = w[Up(k)]
  BY RemovedMembers
<1> HIDE DEF v, n
<1>7. \A k \in 1..m : Up(k) \in 1..n /\ Up(k) # i
  BY <1>1
<1>8. \A j, k \in 1..m : j < k => Up(j) < Up(k)
  BY <1>1
<1>9. \A j \in 1..n : j # i => Down(j) \in 1..m /\ Up(Down(j)) = j
  BY <1>1
<1>10. \A j, k \in 1..n : j # i /\ k # i /\ j < k => Down(j) < Down(k)
  BY <1>1
<1> HIDE DEF m, Up, Down
<1>11. \A j \in 1..n : w[j] = w[i] => j = i
  <2> SUFFICES ASSUME NEW j \in 1..n, w[j] = w[i], j # i PROVE FALSE
    OBVIOUS
  <2>1. w[i] \in Owners /\ i \in 1..n
    BY <1>1 DEF n
  <2>2. i < j \/ j < i
    BY <1>1
  <2>3. Precedes(w, w[i], w[i])
    BY <2>1, <2>2, <1>1 DEF Precedes
  <2> QED  BY <2>1, <2>3 DEF Once
<1>12. ASSUME NEW p PROVE In(v, p) <=> In(w, p) /\ p # w[i]
  <2>1. ASSUME In(v, p) PROVE In(w, p) /\ p # w[i]
    <3>1. PICK k \in 1..m : v[k] = p
      BY <2>1, <1>5 DEF In
    <3> QED  BY <3>1, <1>1, <1>5, <1>7, <1>11 DEF In
  <2>2. ASSUME In(w, p), p # w[i] PROVE In(v, p)
    <3>1. PICK j \in 1..n : w[j] = p
      BY <2>2, <1>1 DEF In
    <3>2. Down(j) \in 1..m /\ v[Down(j)] = p
      BY <3>1, <2>2, <1>5, <1>9
    <3> QED  BY <3>2, <1>5 DEF In
  <2> QED  BY <2>1, <2>2
<1>13. ASSUME NEW p, NEW q
       PROVE  Precedes(v, p, q) <=> Precedes(w, p, q) /\ p # w[i] /\ q # w[i]
  <2>1. ASSUME Precedes(v, p, q) PROVE Precedes(w, p, q) /\ p # w[i] /\ q # w[i]
    <3>1. PICK j, k \in 1..m : j < k /\ v[j] = p /\ v[k] = q
      BY <2>1, <1>5 DEF Precedes
    <3>2. /\ Up(j) \in 1..n /\ Up(k) \in 1..n /\ Up(j) < Up(k)
          /\ w[Up(j)] = p /\ w[Up(k)] = q /\ Up(j) # i /\ Up(k) # i
      BY <3>1, <1>5, <1>7, <1>8
    <3> QED  BY <3>2, <1>1, <1>11 DEF Precedes
  <2>2. ASSUME Precedes(w, p, q), p # w[i], q # w[i] PROVE Precedes(v, p, q)
    <3>1. PICK j, k \in 1..n : j < k /\ w[j] = p /\ w[k] = q
      BY <2>2, <1>1 DEF Precedes
    <3>2. /\ Down(j) \in 1..m /\ Down(k) \in 1..m /\ Down(j) < Down(k)
          /\ v[Down(j)] = p /\ v[Down(k)] = q
      BY <3>1, <2>2, <1>5, <1>9, <1>10
    <3> QED  BY <3>2, <1>5 DEF Precedes
  <2> QED  BY <2>1, <2>2
<1> QED  BY <1>12, <1>13 DEF v

\* A waiter ahead of another is queued, and so is the other.
LEMMA AheadWaits ==
  ASSUME NEW g, NEW p, NEW q, Ahead(g, p, q)
  PROVE  HasWaiter(g, p) /\ HasWaiter(g, q)
BY DEF Ahead, HasWaiter

\* _Ledger.enqueue of a caller that may have others before it.
LEMMA EnqueueOrder ==
  ASSUME NEW g \in Ledgers, NEW o \in Owners
  PROVE  /\ Enqueue(g, o).waiters = Append(g.waiters, o)
         /\ \A p : HasWaiter(Enqueue(g, o), p) <=> HasWaiter(g, p) \/ p = o
         /\ \A p, q : Ahead(Enqueue(g, o), p, q) <=> Ahead(g, p, q) \/ (HasWaiter(g, p) /\ q = o)
<1>1. g.waiters \in Seq(Owners)
  BY DEF Ledgers
<1>2. Enqueue(g, o).waiters = Append(g.waiters, o)
  BY DEF Enqueue, Ledgers
<1> DEFINE w == g.waiters
           e == Enqueue(g, o)
<1>3. /\ \A p : In(e.waiters, p) <=> In(w, p) \/ p = o
      /\ \A p, q : Precedes(e.waiters, p, q) <=> Precedes(w, p, q) \/ (In(w, p) /\ q = o)
  BY <1>1, <1>2, AppendedOrder
<1> HIDE DEF e
<1>4. /\ \A p : HasWaiter(e, p) <=> HasWaiter(g, p) \/ p = o
      /\ \A p, q : Ahead(e, p, q) <=> Ahead(g, p, q) \/ (HasWaiter(g, p) /\ q = o)
  BY <1>3, QueueFacts
<1> QED
  BY <1>2, <1>4 DEF e

\* _Ledger.dequeue of a caller that stands in the queue at most once.
LEMMA DequeueOrder ==
  ASSUME NEW g \in Ledgers, NEW o \in Owners, \A p \in Owners : ~Ahead(g, p, p)
  PROVE  /\ \A p : HasWaiter(Dequeue(g, o), p) <=> HasWaiter(g, p) /\ p # o
         /\ \A p, q : Ahead(Dequeue(g, o), p, q) <=> Ahead(g, p, q) /\ p # o /\ q # o
<1> DEFINE w == g.waiters
<1>1. w \in Seq(Owners) /\ DOMAIN w = 1..Len(w) /\ Once(w)
  BY QueueFacts DEF Ledgers, Once
<1>2. CASE ~HasWaiter(g, o)
  <2>1. Dequeue(g, o) = g
    BY <1>2 DEF Dequeue
  <2> QED
    BY <2>1, <1>2, AheadWaits
<1>3. CASE HasWaiter(g, o)
  <2> DEFINE S == {j \in DOMAIN w : w[j] = o}
             i == Min(S)
  <2>1. i \in 1..Len(w) /\ w[i] = o
    <3>1. S \in SUBSET Nat /\ S # {}
      BY <1>1, <1>3 DEF HasWaiter
    <3>2. Min(S) \in S
      BY <3>1, MinInSet
    <3> QED  BY <3>2, <1>1
  <2>2. Dequeue(g, o).waiters = Without(w, i)
    BY <1>3 DEF Dequeue, Without, Ledgers
  <2> HIDE DEF i, w
  <2>3. /\ \A p : In(Without(w, i), p) <=> In(w, p) /\ p # o
        /\ \A p, q : Precedes(Without(w, i), p, q) <=> Precedes(w, p, q) /\ p # o /\ q # o
    BY <1>1, <2>1, RemovedOrder
  <2> QED
    BY <2>2, <2>3, QueueFacts DEF w
<1> QED  BY <1>2, <1>3

\* What a queue becomes depends on the queue alone; a grant is a dequeue.
LEMMA SameQueue ==
  ASSUME NEW g \in Ledgers, NEW h \in Ledgers, g.waiters = h.waiters, NEW o \in Owners
  PROVE  Dequeue(g, o).waiters = Dequeue(h, o).waiters
<1>1. HasWaiter(g, o) <=> HasWaiter(h, o)
  BY DEF HasWaiter
<1>2. CASE ~HasWaiter(g, o)
  BY <1>1, <1>2 DEF Dequeue
<1>3. CASE HasWaiter(g, o)
  <2> DEFINE i == Min({j \in DOMAIN g.waiters : g.waiters[j] = o})
  <2>1. /\ Dequeue(g, o) = [g EXCEPT !.waiters = Without(@, i)]
        /\ Dequeue(h, o) = [h EXCEPT !.waiters = Without(@, i)]
    BY <1>1, <1>3 DEF Dequeue, Without
  <2> HIDE DEF i
  <2> QED  BY <2>1 DEF Ledgers
<1> QED  BY <1>2, <1>3

\* A granted caller leaves the queue.
LEMMA GrantQueue ==
  ASSUME NEW g \in Ledgers, NEW o \in Owners, g.free # {}
  PROVE  Grant(g, o).waiters = Dequeue(g, o).waiters
<1> DEFINE s == Min(g.free)
           h == [g EXCEPT !.held[o] = s, !.free = @ \ {s}]
<1>1. s \in Nat
  BY MinInSet DEF Ledgers
<1>2. Grant(g, o) = Dequeue(h, o)
  BY DEF Grant
<1> HIDE DEF s
<1>3. h \in Ledgers /\ h.waiters = g.waiters
  BY <1>1 DEF Ledgers
<1> HIDE DEF h
<1> QED
  BY <1>2, <1>3, SameQueue

\* A change of the holders alone leaves the queue.
LEMMA SameWaiters ==
  ASSUME NEW g, NEW h, g.waiters = h.waiters
  PROVE  /\ \A p : HasWaiter(g, p) <=> HasWaiter(h, p)
         /\ \A p, q : Ahead(g, p, q) <=> Ahead(h, p, q)
BY DEF HasWaiter, Ahead

------------------------------------------------------------------------------
\* QueuesAgree, of ledgers g and calls c.
Agree(g, c) ==
    /\ g["strategy"].waiters = g["global"].waiters
    /\ \A o \in Owners : (HasWaiter(g["global"], o) <=> c[o].pc # "idle") /\ ~Ahead(g["global"], o, o)
    /\ \A n \in Nodes : \A o, p \in Owners :
          /\ HasWaiter(g[n], o) <=> c[o].pc # "idle" /\ c[o].node = n
          /\ Ahead(g[n], o, p) <=> Ahead(g["global"], o, p) /\ c[o].node = n /\ c[p].node = n

\* o joins, or leaves, the three queues of the node n.
Joined(g, h, o, n) ==
    /\ h["strategy"].waiters = h["global"].waiters
    /\ \A l \in {"global", n} :
          /\ \A p : HasWaiter(h[l], p) <=> HasWaiter(g[l], p) \/ p = o
          /\ \A p, q : Ahead(h[l], p, q) <=> Ahead(g[l], p, q) \/ (HasWaiter(g[l], p) /\ q = o)
    /\ \A m \in Nodes \ {n} : h[m].waiters = g[m].waiters
Left(g, h, o, n) ==
    /\ h["strategy"].waiters = h["global"].waiters
    /\ \A l \in {"global", n} :
          /\ \A p : HasWaiter(h[l], p) <=> HasWaiter(g[l], p) /\ p # o
          /\ \A p, q : Ahead(h[l], p, q) <=> Ahead(g[l], p, q) /\ p # o /\ q # o
    /\ \A m \in Nodes \ {n} : h[m].waiters = g[m].waiters

\* The queues stay and nobody's call begins or ends.
LEMMA KeptAgree ==
  ASSUME NEW g, NEW c, Agree(g, c), NEW h, NEW d,
         \A l \in Scheduled : h[l].waiters = g[l].waiters,
         \A p \in Owners : d[p].node = c[p].node /\ (d[p].pc # "idle" <=> c[p].pc # "idle")
  PROVE  Agree(h, d)
<1>1. /\ h["global"].waiters = g["global"].waiters /\ h["strategy"].waiters = g["strategy"].waiters
      /\ \A m \in Nodes : h[m].waiters = g[m].waiters
  BY LevelFacts
<1>2. /\ \A p : HasWaiter(h["global"], p) <=> HasWaiter(g["global"], p)
      /\ \A p, q : Ahead(h["global"], p, q) <=> Ahead(g["global"], p, q)
  BY <1>1, SameWaiters
<1>3. ASSUME NEW m \in Nodes
      PROVE  /\ \A p : HasWaiter(h[m], p) <=> HasWaiter(g[m], p)
             /\ \A p, q : Ahead(h[m], p, q) <=> Ahead(g[m], p, q)
  BY <1>1, SameWaiters
<1> QED
  BY <1>1, <1>2, <1>3 DEF Agree

\* A caller that was in no queue stands behind everybody in the queues of its node.
LEMMA JoinedAgree ==
  ASSUME NEW g, NEW c, Agree(g, c), NEW h, NEW d, NEW o \in Owners, NEW n \in Nodes,
         Joined(g, h, o, n), ~HasWaiter(g["global"], o),
         d[o].pc # "idle", d[o].node = n, \A p \in Owners \ {o} : d[p] = c[p]
  PROVE  Agree(h, d)
<1>1. c[o].pc = "idle"
  BY DEF Agree
<1>2. /\ \A p : HasWaiter(h["global"], p) <=> HasWaiter(g["global"], p) \/ p = o
      /\ \A p, q : Ahead(h["global"], p, q)
                     <=> Ahead(g["global"], p, q) \/ (HasWaiter(g["global"], p) /\ q = o)
      /\ \A p : HasWaiter(h[n], p) <=> HasWaiter(g[n], p) \/ p = o
      /\ \A p, q : Ahead(h[n], p, q) <=> Ahead(g[n], p, q) \/ (HasWaiter(g[n], p) /\ q = o)
  BY DEF Joined
<1>3. \A p \in Owners : Ahead(g["global"], p, o) = FALSE /\ Ahead(g["global"], o, p) = FALSE
  BY AheadWaits DEF Ahead
<1>4. ASSUME NEW p \in Owners
      PROVE  (HasWaiter(h["global"], p) <=> d[p].pc # "idle") /\ ~Ahead(h["global"], p, p)
  BY <1>2, <1>3 DEF Agree
<1>5. ASSUME NEW p \in Owners, NEW q \in Owners
      PROVE  /\ HasWaiter(h[n], p) <=> d[p].pc # "idle" /\ d[p].node = n
             /\ Ahead(h[n], p, q) <=> Ahead(h["global"], p, q) /\ d[p].node = n /\ d[q].node = n
  <2>1. /\ HasWaiter(g[n], p) <=> c[p].pc # "idle" /\ c[p].node = n
        /\ Ahead(g[n], p, q) <=> Ahead(g["global"], p, q) /\ c[p].node = n /\ c[q].node = n
        /\ HasWaiter(g["global"], p) <=> c[p].pc # "idle"
    BY DEF Agree
  <2>2. CASE p = o
    BY <2>1, <2>2, <1>1, <1>2, <1>3
  <2>3. CASE p # o /\ q = o
    BY <2>1, <2>3, <1>1, <1>2, <1>3
  <2>4. CASE p # o /\ q # o
    BY <2>1, <2>4, <1>2
  <2> QED  BY <2>2, <2>3, <2>4
<1>6. ASSUME NEW m \in Nodes \ {n}, NEW p \in Owners, NEW q \in Owners
      PROVE  /\ HasWaiter(h[m], p) <=> d[p].pc # "idle" /\ d[p].node = m
             /\ Ahead(h[m], p, q) <=> Ahead(h["global"], p, q) /\ d[p].node = m /\ d[q].node = m
  <2>1. /\ HasWaiter(g[m], p) <=> c[p].pc # "idle" /\ c[p].node = m
        /\ Ahead(g[m], p, q) <=> Ahead(g["global"], p, q) /\ c[p].node = m /\ c[q].node = m
    BY DEF Agree
  <2>2. (HasWaiter(h[m], p) <=> HasWaiter(g[m], p)) /\ (Ahead(h[m], p, q) <=> Ahead(g[m], p, q))
    BY SameWaiters DEF Joined
  <2>3. CASE p = o \/ q = o
    BY <2>1, <2>2, <2>3, <1>1, <1>2, <1>3
  <2>4. CASE p # o /\ q # o
    BY <2>1, <2>2, <2>4, <1>2
  <2> QED  BY <2>3, <2>4
<1> QED
  BY <1>4, <1>5, <1>6 DEF Agree, Joined

\* A caller that leaves the queues of its node leaves the others in order.
LEMMA LeftAgree ==
  ASSUME NEW g, NEW c, Agree(g, c), NEW h, NEW d, NEW o \in Owners, NEW n \in Nodes,
         Left(g, h, o, n), c[o].pc # "idle", c[o].node = n,
         d[o].pc = "idle", \A p \in Owners \ {o} : d[p] = c[p]
  PROVE  Agree(h, d)
<1>2. /\ \A p : HasWaiter(h["global"], p) <=> HasWaiter(g["global"], p) /\ p # o
      /\ \A p, q : Ahead(h["global"], p, q) <=> Ahead(g["global"], p, q) /\ p # o /\ q # o
      /\ \A p : HasWaiter(h[n], p) <=> HasWaiter(g[n], p) /\ p # o
      /\ \A p, q : Ahead(h[n], p, q) <=> Ahead(g[n], p, q) /\ p # o /\ q # o
  BY DEF Left
<1>4. ASSUME NEW p \in Owners
      PROVE  (HasWaiter(h["global"], p) <=> d[p].pc # "idle") /\ ~Ahead(h["global"], p, p)
  BY <1>2 DEF Agree
<1>5. ASSUME NEW p \in Owners, NEW q \in Owners
      PROVE  /\ HasWaiter(h[n], p) <=> d[p].pc # "idle" /\ d[p].node = n
             /\ Ahead(h[n], p, q) <=> Ahead(h["global"], p, q) /\ d[p].node = n /\ d[q].node = n
  <2>1. /\ HasWaiter(g[n], p) <=> c[p].pc # "idle" /\ c[p].node = n
        /\ Ahead(g[n], p, q) <=> Ahead(g["global"], p, q) /\ c[p].node = n /\ c[q].node = n
    BY DEF Agree
  <2>2. CASE p = o \/ q = o
    BY <2>1, <2>2, <1>2
  <2>3. CASE p # o /\ q # o
    BY <2>1, <2>3, <1>2
  <2> QED  BY <2>2, <2>3
<1>6. ASSUME NEW m \in Nodes \ {n}, NEW p \in Owners, NEW q \in Owners
      PROVE  /\ HasWaiter(h[m], p) <=> d[p].pc # "idle" /\ d[p].node = m
             /\ Ahead(h[m], p, q) <=> Ahead(h["global"], p, q) /\ d[p].node = m /\ d[q].node = m
  <2>1. /\ HasWaiter(g[m], p) <=> c[p].pc # "idle" /\ c[p].node = m
        /\ Ahead(g[m], p, q) <=> Ahead(g["global"], p, q) /\ c[p].node = m /\ c[q].node = m
    BY DEF Agree
  <2>2. (HasWaiter(h[m], p) <=> HasWaiter(g[m], p)) /\ (Ahead(h[m], p, q) <=> Ahead(g[m], p, q))
    BY SameWaiters DEF Left
  <2>3. CASE p = o \/ q = o
    BY <2>1, <2>2, <2>3, <1>2
  <2>4. CASE p # o /\ q # o
    BY <2>1, <2>2, <2>4, <1>2
  <2> QED  BY <2>3, <2>4
<1> QED
  BY <1>4, <1>5, <1>6 DEF Agree, Left

------------------------------------------------------------------------------
\* The property is the agreement of the current ledgers and calls.
LEMMA AgreeIs == QueuesAgree <=> Agree(ledger, call)
BY DEF QueuesAgree, Agree

\* The levels of a reservation.
LEMMA ReservedLevels ==
  ASSUME NEW n \in Nodes
  PROVE  /\ {"global", "strategy", n} \subseteq Levels
         /\ \A l \in {"global", n} : l \in Reservation(n) /\ l \in Levels
         /\ "strategy" \in Reservation(n)
         /\ \A m \in Nodes \ {n} : m \in Levels /\ m \notin Reservation(n)
BY LevelFacts DEF Reservation

\* A caller takes its place in three queues.
LEMMA EnqueueJoins ==
  ASSUME NEW g, Books(g), NEW c, Agree(g, c), NEW o \in Owners, NEW n \in Nodes, NEW h,
         h = [l \in Levels |-> IF l \in Reservation(n) THEN Enqueue(g[l], o) ELSE g[l]]
  PROVE  Joined(g, h, o, n)
<1>1. \A l \in Levels : g[l] \in Ledgers
  BY DEF Books
<1>2. h["global"] = Enqueue(g["global"], o) /\ h["strategy"] = Enqueue(g["strategy"], o)
  BY ReservedLevels, LevelFacts
<1>3. h["strategy"].waiters = h["global"].waiters
  <2>1. /\ Enqueue(g["global"], o).waiters = Append(g["global"].waiters, o)
        /\ Enqueue(g["strategy"], o).waiters = Append(g["strategy"].waiters, o)
    BY <1>1, LevelFacts, EnqueueOrder
  <2> QED  BY <1>2, <2>1 DEF Agree
<1>4. ASSUME NEW l \in {"global", n}
      PROVE  /\ \A p : HasWaiter(h[l], p) <=> HasWaiter(g[l], p) \/ p = o
             /\ \A p, q : Ahead(h[l], p, q) <=> Ahead(g[l], p, q) \/ (HasWaiter(g[l], p) /\ q = o)
  <2>1. h[l] = Enqueue(g[l], o) /\ g[l] \in Ledgers
    BY <1>1, ReservedLevels
  <2> QED  BY <2>1, EnqueueOrder
<1>5. \A m \in Nodes \ {n} : h[m].waiters = g[m].waiters
  BY ReservedLevels
<1> QED  BY <1>3, <1>4, <1>5 DEF Joined

\* What a dequeue at the three levels of a reservation does.
LEMMA DequeueLeaves ==
  ASSUME NEW g, Books(g), NEW c, Agree(g, c), NEW o \in Owners, NEW n \in Nodes, NEW h,
         \A l \in Reservation(n) : h[l].waiters = Dequeue(g[l], o).waiters,
         \A l \in Levels \ Reservation(n) : h[l].waiters = g[l].waiters
  PROVE  Left(g, h, o, n)
<1>1. \A l \in Levels : g[l] \in Ledgers
  BY DEF Books
<1>2. h["strategy"].waiters = h["global"].waiters
  <2>1. g["strategy"] \in Ledgers /\ g["global"] \in Ledgers
    BY <1>1, LevelFacts
  <2>2. Dequeue(g["strategy"], o).waiters = Dequeue(g["global"], o).waiters
    BY <2>1, SameQueue DEF Agree
  <2> QED  BY <2>2, ReservedLevels
<1>3. ASSUME NEW l \in {"global", n}
      PROVE  /\ \A p : HasWaiter(h[l], p) <=> HasWaiter(g[l], p) /\ p # o
             /\ \A p, q : Ahead(h[l], p, q) <=> Ahead(g[l], p, q) /\ p # o /\ q # o
  <2>1. h[l].waiters = Dequeue(g[l], o).waiters /\ g[l] \in Ledgers
    BY <1>1, ReservedLevels
  <2>2. \A p \in Owners : ~Ahead(g[l], p, p)
    BY DEF Agree
  <2>3. /\ \A p : HasWaiter(Dequeue(g[l], o), p) <=> HasWaiter(g[l], p) /\ p # o
        /\ \A p, q : Ahead(Dequeue(g[l], o), p, q) <=> Ahead(g[l], p, q) /\ p # o /\ q # o
    BY <2>1, <2>2, DequeueOrder
  <2> QED  BY <2>1, <2>3, SameWaiters
<1>4. \A m \in Nodes \ {n} : h[m].waiters = g[m].waiters
  BY ReservedLevels
<1> QED  BY <1>2, <1>3, <1>4 DEF Left

\* The permits of a reservation are taken by a caller that then leaves its queues.
LEMMA TakeAllLeaves ==
  ASSUME NEW g, Books(g), NEW c, Agree(g, c), NEW o \in Owners, NEW n \in Nodes, CanTake(g, o, n)
  PROVE  Left(g, TakeAll(g, o, n), o, n)
<1> DEFINE h == TakeAll(g, o, n)
<1>1. ASSUME NEW l \in Reservation(n) PROVE h[l].waiters = Dequeue(g[l], o).waiters
  <2>1. g[l] \in Ledgers /\ g[l].free # {} /\ l \in Levels
    BY LevelFacts DEF Books, CanTake, MayGrant
  <2>2. h[l] = Grant(g[l], o)
    BY <2>1 DEF TakeAll
  <2> QED  BY <2>1, <2>2, GrantQueue
<1>2. \A l \in Levels \ Reservation(n) : h[l].waiters = g[l].waiters
  BY DEF TakeAll
<1> HIDE DEF h
<1>3. Left(g, h, o, n)
  BY <1>1, <1>2, DequeueLeaves
<1> QED  BY <1>3 DEF h

\* A slot that is given back does not touch a queue.
LEMMA UngrantQueue ==
  ASSUME NEW g \in Ledgers, NEW o \in Owners
  PROVE  Ungrant(g, o).waiters = g.waiters
BY DEF Ungrant, Ledgers

\* Every other operation leaves the queues and who waits as they are.
LEMMA KeepsAgree ==
  ASSUME QueuesAgree, \A l \in Scheduled : ledger'[l].waiters = ledger[l].waiters,
         \A p \in Owners : call'[p].node = call[p].node /\ (call'[p].pc # "idle" <=> call[p].pc # "idle")
  PROVE  QueuesAgree'
<1>1. Agree(ledger', call')
  BY KeptAgree, AgreeIs
<1> QED
  BY <1>1 DEF QueuesAgree, Agree

\* acquire: the caller joins the queues and, if it is first in all of them, leaves them.
LEMMA AcquireAgrees ==
  ASSUME Inv, QueuesAgree, NEW o \in Owners, NEW n \in Nodes, NEW until \in Instants \cup {None},
         Acquire(o, n, until)
  PROVE  QueuesAgree'
<1> DEFINE queued == [l \in Levels |-> IF l \in Reservation(n) THEN Enqueue(ledger[l], o) ELSE ledger[l]]
           d == [call EXCEPT ![o] = [pc |-> "asleep", node |-> n, until |-> until]]
<1>1. /\ ~IsPendingOrHolding(o)
      /\ \/ CanTake(queued, o, n) /\ ledger' = TakeAll(queued, o, n) /\ call' = call
         \/ ledger' = queued /\ call' = d
  BY DEF Acquire
<1>2. ~HasWaiter(ledger["global"], o)
  BY <1>1 DEF IsPendingOrHolding
<1>3. Books(queued)
  <2>1. queued = EnqueueAt(ledger, o, Reservation(n))
    BY DEF EnqueueAt
  <2> HIDE DEF queued
  <2> QED
    BY <2>1, EnqueueBooks, LevelFacts DEF Inv
<1>4. d[o].pc = "asleep" /\ d[o].node = n /\ \A p \in Owners \ {o} : d[p] = call[p]
  BY DEF Inv, Fields
<1>5. Joined(ledger, queued, o, n)
  BY EnqueueJoins, AgreeIs DEF Inv
<1> HIDE DEF queued, d
<1>6. Agree(queued, d)
  BY <1>2, <1>4, <1>5, JoinedAgree, AgreeIs
<1>7. Agree(ledger', call')
  <2>1. CASE CanTake(queued, o, n) /\ ledger' = TakeAll(queued, o, n) /\ call' = call
    <3>1. Left(queued, ledger', o, n)
      BY <1>3, <1>6, <2>1, TakeAllLeaves
    <3>2. call'[o].pc = "idle" /\ d[o].pc # "idle" /\ \A p \in Owners \ {o} : call'[p] = d[p]
      BY <1>2, <1>4, <2>1, AgreeIs DEF Agree
    <3> QED
      BY <1>4, <1>6, <3>1, <3>2, LeftAgree
  <2>2. CASE ledger' = queued /\ call' = d
    BY <1>6, <2>2
  <2> QED  BY <1>1, <2>1, <2>2
<1> QED
  BY <1>7 DEF QueuesAgree, Agree

\* A waiter that was woken leaves all the queues at once, or none.
LEMMA RecheckAgrees ==
  ASSUME Inv, QueuesAgree, NEW o \in Owners, Recheck(o)
  PROVE  QueuesAgree'
<1> DEFINE n == call[o].node
           Freed == call' = [call EXCEPT ![o] = Idle]
           Slept == call' = [call EXCEPT ![o].pc = "asleep"] /\ ledger' = ledger
<1>1. /\ call[o].pc = "awake"
      /\ \/ ledger' = Leave(o, n) /\ Freed
         \/ CanTake(ledger, o, n) /\ ledger' = TakeAll(ledger, o, n) /\ Freed
         \/ Slept
  BY DEF Recheck
<1>2. n \in Nodes /\ Books(ledger) /\ Agree(ledger, call) /\ call[o].pc # "idle"
  BY <1>1, AgreeIs DEF Inv, OwnerOK, Waiting
<1>3. call[o].node = n
  OBVIOUS
<1>4. Freed => call'[o].pc = "idle" /\ \A p \in Owners \ {o} : call'[p] = call[p]
  BY DEF Inv, Fields, Idle
<1>5. ASSUME Slept PROVE QueuesAgree'
  <2>1. \A p \in Owners : call'[p].node = call[p].node /\ (call'[p].pc # "idle" <=> call[p].pc # "idle")
    BY <1>1, <1>5 DEF Inv, Fields
  <2>2. \A l \in Scheduled : ledger'[l].waiters = ledger[l].waiters
    BY <1>5
  <2> QED  BY <2>1, <2>2, KeepsAgree
<1>6. ledger' = Leave(o, n) =>
        /\ \A l \in Reservation(n) : ledger'[l].waiters = Dequeue(ledger[l], o).waiters
        /\ \A l \in Levels \ Reservation(n) : ledger'[l].waiters = ledger[l].waiters
  <2>1. Reservation(n) \subseteq Levels
    BY <1>2, LevelFacts
  <2> HIDE DEF n
  <2> QED  BY <2>1 DEF Leave
<1> HIDE DEF n, Freed, Slept
<1>7. ASSUME ledger' = Leave(o, n), Freed PROVE Agree(ledger', call')
  <2>1. Left(ledger, ledger', o, n)
    BY <1>2, <1>6, <1>7, DequeueLeaves
  <2>2. Agree(ledger', call')
    BY <1>2, <1>3, <1>4, <1>7, <2>1, LeftAgree
  <2> QED  BY <2>2
<1>8. ASSUME CanTake(ledger, o, n), ledger' = TakeAll(ledger, o, n), Freed
      PROVE  Agree(ledger', call')
  <2>1. Left(ledger, ledger', o, n)
    BY <1>2, <1>8, TakeAllLeaves
  <2>2. Agree(ledger', call')
    BY <1>2, <1>3, <1>4, <1>8, <2>1, LeftAgree
  <2> QED  BY <2>2
<1>9. (Agree(ledger', call')) => QueuesAgree'
  BY DEF QueuesAgree, Agree
<1> QED
  BY <1>1, <1>5, <1>7, <1>8, <1>9

\* acquire_level does not wait: its caller is in no queue, and in none afterwards.
LEMMA AcquireLevelAgrees ==
  ASSUME Inv, QueuesAgree, NEW o \in Owners, NEW k \in Scheduled, AcquireLevel(k, o)
  PROVE  QueuesAgree'
<1>1. /\ ~IsPending(o) /\ MayGrant(ledger[k], o)
      /\ ledger' = [ledger EXCEPT ![k] = Grant(ledger[k], o)] /\ call' = call
  BY DEF AcquireLevel
<1>2. ledger[k] \in Ledgers /\ k \in Levels /\ ledger \in [Levels -> Ledgers]
  BY LevelFacts DEF Inv, Books
<1>3. ~HasWaiter(ledger["global"], o) /\ ~HasWaiter(ledger["strategy"], o)
  BY <1>1 DEF IsPending
<1>4. ~HasWaiter(ledger[k], o)
  BY <1>3, LevelFacts DEF QueuesAgree
<1>5. Grant(ledger[k], o).waiters = ledger[k].waiters
  BY <1>1, <1>2, <1>4, GrantQueue DEF Dequeue, MayGrant
<1> QED
  BY <1>1, <1>2, <1>5, KeepsAgree, LevelFacts

\* release and release_level leave the queues alone and wake their waiters.
LEMMA ReleaseAgrees ==
  ASSUME Inv, QueuesAgree, NEW o \in Owners,
         (\E n \in Nodes : Release(o, n)) \/ (\E l \in Scheduled : ReleaseLevel(l, o))
  PROVE  QueuesAgree'
<1>1. call' = NotifyAll(call)
  BY DEF Release, ReleaseLevel
<1>2. \A p \in Owners : call'[p].node = call[p].node /\ (call'[p].pc # "idle" <=> call[p].pc # "idle")
  BY <1>1, Notified DEF Inv
<1>3. \A l \in Levels : ledger[l] \in Ledgers
  BY DEF Inv, Books
<1>4. \A l \in Levels : ledger'[l] = ledger[l] \/ ledger'[l] = Ungrant(ledger[l], o)
  BY DEF Release, ReleaseLevel, Inv, Books
<1>5. \A l \in Scheduled : ledger'[l].waiters = ledger[l].waiters
  BY <1>3, <1>4, UngrantQueue, LevelFacts
<1> QED
  BY <1>2, <1>5, KeepsAgree

\* The subordinate limiter has its own queue.
LEMMA SubAgrees ==
  ASSUME Inv, QueuesAgree, call' = call,
         ledger' = ledger \/ \E e : ledger' = [ledger EXCEPT !["sub"] = e]
  PROVE  QueuesAgree'
<1>1. \A l \in Scheduled : ledger'[l] = ledger[l]
  BY SubLedgerOnly
<1> QED
  BY <1>1, KeepsAgree

\* Every step keeps the queues in agreement.
LEMMA StepAgrees == Inv /\ QueuesAgree /\ [Next]_vars => QueuesAgree'
<1> SUFFICES ASSUME Inv, QueuesAgree, [Next]_vars PROVE QueuesAgree'
  OBVIOUS
<1>1. ASSUME NEW o \in Owners, OwnerStep(o) PROVE QueuesAgree'
  <2>1. ASSUME NEW n \in Nodes, NEW until \in Instants \cup {None}, Acquire(o, n, until)
        PROVE  QueuesAgree'
    BY <2>1, AcquireAgrees
  <2>2. CASE (\E n \in Nodes : Release(o, n)) \/ (\E l \in Scheduled : ReleaseLevel(l, o))
    BY <2>2, ReleaseAgrees
  <2>3. CASE WaitTimesOut(o)
    <3>1. \A p \in Owners : call'[p].node = call[p].node
                            /\ (call'[p].pc # "idle" <=> call[p].pc # "idle")
      BY <2>3 DEF WaitTimesOut, Inv, Fields
    <3> QED  BY <2>3, <3>1, KeepsAgree DEF WaitTimesOut
  <2>4. CASE Recheck(o)
    BY <2>4, RecheckAgrees
  <2>5. ASSUME NEW l \in Scheduled, AcquireLevel(l, o) PROVE QueuesAgree'
    BY <2>5, AcquireLevelAgrees
  <2>6. CASE \/ \E until \in Instants \cup {None} : SubAcquire(o, until)
             \/ SubWaitTimesOut(o) \/ SubRecheck(o) \/ Register(o) \/ Refuse(o)
             \/ SubRelease(o) \/ SubReleased(o)
    <3>1. call' = call /\ (ledger' = ledger \/ \E e : ledger' = [ledger EXCEPT !["sub"] = e])
      BY <2>6 DEF SubAcquire, SubWaitTimesOut, SubRecheck, Register, Refuse, SubRelease, SubReleased
    <3> QED  BY <3>1, SubAgrees
  <2> QED
    BY <1>1, <2>1, <2>2, <2>3, <2>4, <2>5, <2>6 DEF OwnerStep
<1>2. CASE Close
  <2>1. \A p \in Owners : call'[p].node = call[p].node
                          /\ (call'[p].pc # "idle" <=> call[p].pc # "idle")
    BY <1>2, Notified DEF Close, Inv
  <2> QED  BY <1>2, <2>1, KeepsAgree DEF Close
<1>3. CASE SubClose \/ Tick \/ UNCHANGED vars
  BY <1>3, SubAgrees DEF SubClose, Tick, vars
<1> QED
  BY <1>1, <1>2, <1>3 DEF Next

\* Nobody waits before the first call.
LEMMA InitAgrees == Init => QueuesAgree
<1> SUFFICES ASSUME Init PROVE QueuesAgree
  OBVIOUS
<1>1. \A l \in Levels : ledger[l].waiters = <<>>
  BY DEF Init, EmptyLedger
<1>2. \A l \in Levels : \A p, q : ~HasWaiter(ledger[l], p) /\ ~Ahead(ledger[l], p, q)
  BY <1>1 DEF HasWaiter, Ahead
<1>3. \A p \in Owners : call[p].pc = "idle"
  BY DEF Init, Idle
<1> QED
  BY <1>1, <1>2, <1>3, LevelFacts DEF QueuesAgree

\* The invariant holds in every reachable state.
LEMMA AlwaysInv == Spec => []Inv
BY InitInv, StepInv, PTL DEF Spec

\* The fields of both limiters keep their types.
THEOREM LimitersTyped == Spec => []TypeOK
BY AlwaysInv, InvImplies, PTL

\* ScheduledWorkLimiters and SubordinateCallLimiter never lose a slot and never
\* give one to two owners, for any limits and any number of owners.
THEOREM NoSlotLost == Spec => []SlotsAccounted
BY AlwaysInv, InvImplies, PTL

\* Owners hold the global, strategy and node levels from the top down, one node each.
THEOREM ReservationsNested == Spec => []LevelsNested
BY AlwaysInv, InvImplies, PTL

\* A subordinate permit in use is always backed by a complete reservation, however
\* the calls that span the two locks interleave with the parent's other users.
THEOREM SubordinatesBacked == Spec => []SubordinateUnderParent
BY AlwaysInv, InvImplies, PTL

\* The queues of the three levels hold the callers in progress in one order, whatever
\* deadlines pass, calls give up, limiters close or levels are acquired one by one: the
\* acquire of all three levels enqueues, grants and dequeues under one lock.
THEOREM OneOrder == Spec => []QueuesAgree
<1>1. Inv /\ QueuesAgree /\ [Next]_vars => (Inv /\ QueuesAgree)'
  BY StepInv, StepAgrees
<1>2. Init => Inv /\ QueuesAgree
  BY InitInv, InitAgrees
<1> QED
  BY <1>1, <1>2, PTL DEF Spec

=============================================================================
