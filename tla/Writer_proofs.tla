--------------------------- MODULE Writer_proofs ----------------------------
(***************************************************************************)
(* Proofs about the writer, for any clients, capacities and bounds: its    *)
(* accounting never contradicts itself, answers tell the truth, commands   *)
(* commit in the order of their identities, and a thread that ends leaves  *)
(* nobody waiting.                                                         *)
(***************************************************************************)
EXTENDS Writer, TLAPS, SequenceTheorems

\* Identities are given in the order of admission, so the command at the head of the queue, or
\* the one that would be put there, has this one, and the command being executed the one before.
First == nextSubmission - Len(queue)

(***************************************************************************)
(* The inductive invariant.                                                *)
(***************************************************************************)
Typed ==
    /\ admissions \in Seq(Commands) /\ queue \in Seq(Commands)
    /\ log \in Seq(Commands) /\ notifications \in Seq(Commands)
    /\ active \in Commands \cup {None} /\ mutated \in BOOLEAN
    /\ DOMAIN waiter = Commands /\ DOMAIN client = Commands /\ DOMAIN answer = Commands
    /\ submission \in [Commands -> Nat]
    /\ nextSubmission \in 1..(MaxSubmission + 1)

\* The thread lives while the writer runs or drains, and nobody waits unless it runs.
LifeOK ==
    /\ thread \in {"none", "wait", "execute", "resolve", "finish", "fatal", "done"}
    /\ writer = "new" => thread = "none"
    /\ thread = "done" => writer \in {"closed", "failed"} /\ queue = <<>>
    /\ writer # "running" => admissions = <<>>
    /\ active # None <=> thread \in {"execute", "resolve", "finish", "fatal"}

\* The counters count the identities that were given and those whose command has ended; the
\* high-water marks are above what there is and below what there can be.
CountersOK ==
    /\ accepted = nextSubmission - 1
    /\ completed \in Nat /\ completed = accepted - Len(queue) - InFlight
    /\ {maxQueue, maxWaiters, maxResident} \subseteq Nat
    /\ Len(queue) <= maxQueue /\ maxQueue <= QueueCapacity /\ maxQueue <= maxResident
    /\ Len(admissions) <= maxWaiters /\ maxWaiters <= WaiterCapacity
    /\ Len(queue) + InFlight <= maxResident /\ maxResident <= QueueCapacity + 1

\* What a client knows agrees with its place in the line; each waits in it at most once.
ClientsOK ==
    /\ \A c \in Commands :
          /\ client[c] \in {"idle", "timed_out"} => waiter[c] = "none"
          /\ client[c] = "refused" => waiter[c] \in {"none", "error"}
          /\ waiter[c] # "ticket" => submission[c] = 0 /\ answer[c] = "none"
          /\ waiter[c] = "waiting" <=> \E i \in DOMAIN admissions : admissions[i] = c
    /\ \A i, j \in DOMAIN admissions : admissions[i] = admissions[j] => i = j

\* The queue holds, without a gap, the last identities given; its commands have no answer.
QueueOK ==
    /\ \A i \in DOMAIN queue : /\ submission[queue[i]] = First + i - 1
                               /\ waiter[queue[i]] = "ticket" /\ answer[queue[i]] = "none"
    /\ active # None => submission[active] = First - 1 /\ waiter[active] = "ticket"
    /\ thread \in {"execute", "resolve"} => answer[active] = "none"
    /\ thread \in {"finish", "fatal"} => answer[active] # "none"
    /\ \A c \in Commands :
          waiter[c] = "ticket" => \/ answer[c] # "none" \/ c = active
                                  \/ \E i \in DOMAIN queue : queue[i] = c

\* Is the active command, whose answer is still to come, after all elements of s?
After(s) == \A i \in DOMAIN s : submission[s[i]] < submission[active]
Rising(s) == \A i, j \in DOMAIN s : i < j => submission[s[i]] < submission[s[j]]
\* Commands commit in the order of their identities, and what a command was told agrees
\* with the log.
LogOK ==
    /\ Rising(log)
    /\ \A i \in DOMAIN log : submission[log[i]] \in 1..(First - 1)
    /\ thread = "execute" => After(log)
    /\ thread = "resolve" => (mutated <=> \E i \in DOMAIN log : log[i] = active)
    /\ \A c \in Commands : answer[c] = "receipt" => \E i \in DOMAIN log : log[i] = c
    /\ \A i \in DOMAIN log : answer[log[i]] \notin {"domain_error", "failed", "not_executed", "replay"}

NoticesOK ==
    /\ Rising(notifications) /\ Len(notifications) <= NotificationCapacity
    /\ \A i \in DOMAIN notifications : /\ answer[notifications[i]] = "receipt"
                                       /\ submission[notifications[i]] \in 1..(First - 1)
    /\ thread \in {"execute", "resolve"} => After(notifications)

WriterInv == Typed /\ LifeOK /\ CountersOK /\ ClientsOK /\ QueueOK /\ LogOK /\ NoticesOK

------------------------------------------------------------------------------
(* Lines of clients.                                                       *)

\* The least of three numbers.
LEMMA MinOfThree ==
  ASSUME NEW i \in Int, NEW j \in Int, NEW k \in Int
  PROVE  LET m == Min({i, j, k}) IN m \in {i, j, k} /\ m <= i /\ m <= j /\ m <= k
<1>1. \E x \in {i, j, k} : \A y \in {i, j, k} : x <= y
  <2>1. CASE i <= j /\ i <= k
    BY <2>1
  <2>2. CASE j <= i /\ j <= k
    BY <2>2
  <2>3. CASE k <= i /\ k <= j
    BY <2>3
  <2> QED
    BY <2>1, <2>2, <2>3
<1> QED
  BY <1>1 DEF Min

\* The greater of two numbers.
LEMMA MaxOfTwo ==
  ASSUME NEW i \in Nat, NEW j \in Nat
  PROVE  LET m == Max({i, j}) IN m \in {i, j} /\ m >= i /\ m >= j
<1>1. \E x \in {i, j} : \A y \in {i, j} : x >= y
  <2>1. CASE i >= j
    BY <2>1
  <2>2. CASE j >= i
    BY <2>2
  <2> QED
    BY <2>1, <2>2
<1> QED
  BY <1>1 DEF Max

\* A part of a sequence.
LEMMA Slice ==
  ASSUME NEW S, NEW s \in Seq(S), NEW m \in Nat \ {0}, NEW k \in Nat, m <= k + 1, k <= Len(s)
  PROVE  LET b == SubSeq(s, m, k)
         IN  /\ b \in Seq(S) /\ Len(b) = k - m + 1 /\ DOMAIN b = 1..(k - m + 1)
             /\ \A i \in 1..(k - m + 1) : b[i] = s[m + i - 1]
<1>1. Len(s) \in Nat /\ \A i \in 1..Len(s) : s[i] \in S
  BY LenProperties
<1>2. \A i \in m..k : s[i] \in S
  BY <1>1
<1>3. m \in Int /\ k \in Int
  OBVIOUS
<1>4. /\ SubSeq(s, m, k) \in Seq(S)
      /\ Len(SubSeq(s, m, k)) = IF m <= k THEN k - m + 1 ELSE 0
      /\ \A i \in 1..(k - m + 1) : SubSeq(s, m, k)[i] = s[m + i - 1]
  BY <1>2, <1>3, SubSeqProperties
<1>5. Len(SubSeq(s, m, k)) = k - m + 1
  BY <1>4
<1> QED
  BY <1>4, <1>5, LenProperties

\* What is left of a sequence after its first n elements.
LEMMA Rest ==
  ASSUME NEW S, NEW s \in Seq(S), NEW n \in Nat, n <= Len(s)
  PROVE  LET b == SubSeq(s, n + 1, Len(s))
         IN  /\ b \in Seq(S) /\ Len(b) = Len(s) - n /\ DOMAIN b = 1..(Len(s) - n)
             /\ \A i \in 1..(Len(s) - n) : b[i] = s[n + i]
<1> DEFINE m == n + 1
           k == Len(s)
           b == SubSeq(s, m, k)
<1>1. k \in Nat
  BY LenProperties
<1>2. m \in Nat \ {0} /\ m <= k + 1 /\ k <= Len(s) /\ k - m + 1 = k - n
  BY <1>1
<1>3. \A i \in 1..(k - n) : m + i - 1 = n + i
  BY <1>1
<1> HIDE DEF m, k
<1>4. /\ b \in Seq(S) /\ Len(b) = k - m + 1 /\ DOMAIN b = 1..(k - m + 1)
      /\ \A i \in 1..(k - m + 1) : b[i] = s[m + i - 1]
  BY <1>1, <1>2, Slice
<1> HIDE DEF b
<1>5. /\ b \in Seq(S) /\ Len(b) = k - n /\ DOMAIN b = 1..(k - n)
      /\ \A i \in 1..(k - n) : b[i] = s[n + i]
  BY <1>2, <1>3, <1>4
<1> QED
  BY <1>5 DEF b, m, k

\* A client that leaves the line leaves the others as they were.
LEMMA Removed ==
  ASSUME NEW s \in Seq(Commands), NEW c,
         \A i, j \in DOMAIN s : s[i] = s[j] => i = j
  PROVE  LET r == RemoveFirst(s, c)
         IN  /\ r \in Seq(Commands) /\ Len(r) <= Len(s)
             /\ \A d : (\E i \in DOMAIN r : r[i] = d) <=> d # c /\ \E i \in DOMAIN s : s[i] = d
             /\ \A i, j \in DOMAIN r : r[i] = r[j] => i = j
<1> DEFINE r == RemoveFirst(s, c)
           n == Len(s)
<1>1. n \in Nat /\ DOMAIN s = 1..n /\ \A i \in 1..n : s[i] \in Commands
  BY LenProperties
<1>2. CASE ~\E i \in 1..n : s[i] = c
  <2>1. r = s
    BY <1>2 DEF RemoveFirst
  <2> QED
    BY <2>1, <1>1, <1>2
<1>3. ASSUME NEW k \in 1..n, s[k] = c
      PROVE  /\ r \in Seq(Commands) /\ Len(r) <= Len(s)
             /\ \A d : (\E i \in DOMAIN r : r[i] = d) <=> d # c /\ \E i \in DOMAIN s : s[i] = d
             /\ \A i, j \in DOMAIN r : r[i] = r[j] => i = j
  <2> DEFINE a == SubSeq(s, 1, k - 1)
             b == SubSeq(s, k + 1, n)
  <2>1. {i \in 1..n : s[i] = c} = {k}
    BY <1>1, <1>3
  <2>2. Min({k}) = k
    BY <1>1 DEF Min
  <2>3. r = a \o b
    BY <1>3, <2>1, <2>2 DEF RemoveFirst, RemoveAt, SelectInSeq
  <2>4. a \in Seq(Commands) /\ Len(a) = k - 1 /\ \A i \in 1..(k - 1) : a[i] = s[i]
    <3>1. 1 \in Nat \ {0} /\ k - 1 \in Nat /\ 1 <= (k - 1) + 1 /\ k - 1 <= n
      BY <1>1
    <3>2. \A i \in 1..(k - 1) : 1 + i - 1 = i
      OBVIOUS
    <3> QED
      BY <3>1, <3>2, Slice
  <2>5. b \in Seq(Commands) /\ Len(b) = n - k /\ \A i \in 1..(n - k) : b[i] = s[k + i]
    <3>1. k \in Nat /\ k <= Len(s)
      BY <1>1
    <3> QED
      BY <3>1, Rest
  <2> HIDE DEF r, a, b
  <2>6. r \in Seq(Commands) /\ Len(r) = n - 1
    <3>1. r \in Seq(Commands) /\ Len(r) = Len(a) + Len(b)
      BY <2>3, <2>4, <2>5, ConcatProperties
    <3>2. (k - 1) + (n - k) = n - 1
      BY <1>1
    <3> QED
      BY <3>1, <3>2, <2>4, <2>5
  <2>7. DOMAIN r = 1..(n - 1)
    BY <2>6, LenProperties
  <2>8. \A i \in 1..(n - 1) : r[i] = s[IF i < k THEN i ELSE i + 1]
    BY <2>3, <2>4, <2>5, <1>1, ConcatProperties
  <2>9. ASSUME NEW i \in 1..n, s[i] # c
        PROVE  \E j \in DOMAIN r : r[j] = s[i]
    <3>1. CASE i < k
      BY <3>1, <1>1, <2>7, <2>8
    <3>2. CASE i > k
      <4>1. i - 1 \in 1..(n - 1) /\ ~(i - 1 < k) /\ (i - 1) + 1 = i
        BY <3>2, <1>1
      <4> QED
        BY <4>1, <2>7, <2>8
    <3> QED
      BY <3>1, <3>2, <1>1, <1>3, <2>9
  <2>10. ASSUME NEW i \in DOMAIN r
         PROVE  r[i] # c /\ \E j \in DOMAIN s : s[j] = r[i]
    <3> DEFINE j == IF i < k THEN i ELSE i + 1
    <3>1. j \in 1..n /\ j # k /\ r[i] = s[j]
      BY <2>7, <2>8, <1>1
    <3> HIDE DEF j
    <3> QED
      BY <3>1, <1>1, <1>3
  <2>11. \A i, j \in DOMAIN r : r[i] = r[j] => i = j
    BY <2>7, <2>8, <1>1
  <2> QED
    BY <2>6, <2>9, <2>10, <2>11, <1>1
<1> QED
  BY <1>2, <1>3

\* _admit_waiters moves the first n waiters into the queue and numbers them.
AdmitsFirst(adm, q, w, n) ==
    /\ nextSubmission' = nextSubmission + n /\ nextSubmission' <= MaxSubmission + 1
    /\ accepted' = accepted + n
    /\ queue' \in Seq(Commands) /\ Len(queue') = Len(q) + n /\ Len(queue') <= QueueCapacity
    /\ \A i \in 1..Len(q) : queue'[i] = q[i]
    /\ \A i \in 1..n : queue'[Len(q) + i] = adm[i]
    /\ submission' \in [Commands -> Nat]
    /\ \A i \in 1..n : submission'[adm[i]] = nextSubmission - 1 + i
    /\ \A c \in Commands : (\A i \in 1..n : adm[i] # c) => submission'[c] = submission[c]
    /\ DOMAIN waiter' = Commands
    /\ \A i \in 1..n : waiter'[adm[i]] = "ticket"
    /\ \A c \in Commands : (\A i \in DOMAIN adm : adm[i] # c) => waiter'[c] = w[c]
    /\ admissions' \in Seq(Commands)
    /\ \/ /\ admissions' = <<>> /\ writer' = "closing"
          /\ \A i \in (n + 1)..Len(adm) : waiter'[adm[i]] = "error"
       \/ /\ writer' = writer /\ Len(admissions') = Len(adm) - n
          /\ \A i \in 1..(Len(adm) - n) : admissions'[i] = adm[n + i]
          /\ \A i \in (n + 1)..Len(adm) : waiter'[adm[i]] = w[adm[i]]

\* Whom _admit_waiters lets in is a prefix of the line.
LEMMA Admitted ==
  ASSUME NEW adm \in Seq(Commands), NEW q \in Seq(Commands), NEW w,
         \A i, j \in DOMAIN adm : adm[i] = adm[j] => i = j,
         Len(q) <= QueueCapacity, nextSubmission \in 1..(MaxSubmission + 1),
         submission \in [Commands -> Nat],
         AdmitWaiters(adm, q, w)
  PROVE  \E n \in 0..Len(adm) : AdmitsFirst(adm, q, w, n)
<1> DEFINE room == QueueCapacity - Len(q)
           n == Min({Len(adm), room, MaxSubmission - nextSubmission + 1})
           exhausted == n < Len(adm) /\ n < room
           entered == SubSeq(adm, 1, n)
           left == SubSeq(adm, n + 1, Len(adm))
<1>1. /\ Len(adm) \in Nat /\ Len(q) \in Nat /\ QueueCapacity \in Nat /\ MaxSubmission \in Nat
      /\ DOMAIN adm = 1..Len(adm) /\ \A i \in 1..Len(adm) : adm[i] \in Commands
  BY LenProperties, WriterAssumption
<1>2. n \in Nat /\ n <= Len(adm) /\ n <= room /\ nextSubmission + n <= MaxSubmission + 1
  <2>1. n \in {Len(adm), room, MaxSubmission - nextSubmission + 1} /\ n <= Len(adm) /\ n <= room
           /\ n <= MaxSubmission - nextSubmission + 1
    <3>1. /\ Len(adm) \in Int /\ room \in Int /\ MaxSubmission - nextSubmission + 1 \in Int
      BY <1>1
    <3> HIDE DEF room
    <3> QED
      BY <3>1, MinOfThree
  <2> HIDE DEF n
  <2> QED
    BY <2>1, <1>1
<1>3. /\ queue' = q \o entered
      /\ admissions' = IF exhausted THEN <<>> ELSE left
      /\ writer' = IF exhausted THEN "closing" ELSE writer
      /\ waiter' = [c \in Commands |-> IF c \in ToSet(entered) THEN "ticket"
                                       ELSE IF exhausted /\ c \in ToSet(left) THEN "error"
                                       ELSE w[c]]
      /\ submission' = [c \in Commands |->
                           IF c \in ToSet(entered)
                           THEN nextSubmission - 1 + CHOOSE i \in 1..n : entered[i] = c
                           ELSE submission[c]]
      /\ nextSubmission' = nextSubmission + n
      /\ accepted' = accepted + n
  BY DEF AdmitWaiters
<1> HIDE DEF n
<1>4. /\ entered \in Seq(Commands) /\ Len(entered) = n /\ DOMAIN entered = 1..n
      /\ \A i \in 1..n : entered[i] = adm[i]
  <2> DEFINE m == 1
  <2>1. m \in Nat \ {0} /\ n \in Nat /\ m <= n + 1 /\ n <= Len(adm) /\ n - m + 1 = n
    BY <1>2
  <2>2. \A i \in 1..n : m + i - 1 = i
    BY <1>2
  <2> HIDE DEF m
  <2> DEFINE e == SubSeq(adm, m, n)
  <2>3. /\ e \in Seq(Commands) /\ Len(e) = n - m + 1 /\ DOMAIN e = 1..(n - m + 1)
        /\ \A i \in 1..(n - m + 1) : e[i] = adm[m + i - 1]
    BY <2>1, Slice
  <2> HIDE DEF e
  <2>4. /\ e \in Seq(Commands) /\ Len(e) = n /\ DOMAIN e = 1..n
        /\ \A i \in 1..n : e[i] = adm[i]
    BY <2>1, <2>2, <2>3
  <2> QED
    BY <2>4 DEF e, m
<1>5. /\ left \in Seq(Commands) /\ Len(left) = Len(adm) - n /\ DOMAIN left = 1..(Len(adm) - n)
      /\ \A i \in 1..(Len(adm) - n) : left[i] = adm[n + i]
  <2>1. n \in Nat /\ n <= Len(adm)
    BY <1>2
  <2>2. /\ SubSeq(adm, n + 1, Len(adm)) \in Seq(Commands)
        /\ Len(SubSeq(adm, n + 1, Len(adm))) = Len(adm) - n
        /\ DOMAIN SubSeq(adm, n + 1, Len(adm)) = 1..(Len(adm) - n)
        /\ \A i \in 1..(Len(adm) - n) : SubSeq(adm, n + 1, Len(adm))[i] = adm[n + i]
    BY <2>1, Rest
  <2> QED
    BY <2>2
<1> HIDE DEF entered, left
<1>6. /\ ToSet(entered) = {adm[i] : i \in 1..n}
      /\ ToSet(left) = {adm[i] : i \in (n + 1)..Len(adm)}
  <2>1. ToSet(entered) = {adm[i] : i \in 1..n}
    BY <1>4 DEF ToSet
  <2>2. ASSUME NEW i \in 1..(Len(adm) - n)
        PROVE  n + i \in (n + 1)..Len(adm) /\ left[i] = adm[n + i]
    <3>1. n + i \in (n + 1)..Len(adm)
      BY <1>1, <1>2
    <3>2. left[i] = adm[n + i]
      BY <1>5
    <3> QED
      BY <3>1, <3>2
  <2>3. ASSUME NEW j \in (n + 1)..Len(adm)
        PROVE  j - n \in 1..(Len(adm) - n) /\ left[j - n] = adm[j]
    <3>1. j - n \in 1..(Len(adm) - n) /\ n + (j - n) = j
      BY <1>1, <1>2
    <3>2. left[j - n] = adm[n + (j - n)]
      BY <3>1, <1>5
    <3> QED
      BY <3>1, <3>2
  <2>4. ToSet(left) \subseteq {adm[i] : i \in (n + 1)..Len(adm)}
    BY <2>2, <1>5 DEF ToSet
  <2>5. ASSUME NEW j \in (n + 1)..Len(adm)
        PROVE  adm[j] \in ToSet(left)
    BY <2>3, <1>5 DEF ToSet
  <2> QED
    BY <2>1, <2>4, <2>5
<1>7. /\ queue' \in Seq(Commands) /\ Len(queue') = Len(q) + n /\ Len(queue') <= QueueCapacity
      /\ \A i \in 1..Len(q) : queue'[i] = q[i]
      /\ \A i \in 1..n : queue'[Len(q) + i] = adm[i]
  <2>1. queue' \in Seq(Commands) /\ Len(queue') = Len(q) + n
    BY <1>3, <1>4, ConcatProperties
  <2>2. \A i \in 1..(Len(q) + n) : queue'[i] = IF i <= Len(q) THEN q[i] ELSE entered[i - Len(q)]
    BY <1>3, <1>4, ConcatProperties
  <2>3. \A i \in 1..Len(q) : queue'[i] = q[i]
    BY <2>2, <1>1, <1>2
  <2>4. ASSUME NEW i \in 1..n
        PROVE  queue'[Len(q) + i] = adm[i]
    <3>1. Len(q) + i \in 1..(Len(q) + n) /\ ~(Len(q) + i <= Len(q)) /\ (Len(q) + i) - Len(q) = i
      BY <1>1, <1>2
    <3> QED
      BY <3>1, <2>2, <1>4
  <2>5. Len(queue') <= QueueCapacity
    BY <2>1, <1>1, <1>2
  <2> QED
    BY <2>1, <2>3, <2>4, <2>5
<1>8. ASSUME NEW i \in 1..n
      PROVE  submission'[adm[i]] = nextSubmission - 1 + i /\ waiter'[adm[i]] = "ticket"
  <2>1. adm[i] \in Commands /\ adm[i] \in ToSet(entered)
    BY <1>1, <1>2, <1>6
  <2>2. (CHOOSE k \in 1..n : entered[k] = adm[i]) = i
    BY <1>1, <1>2, <1>4
  <2> QED
    BY <2>1, <2>2, <1>3
<1>9. ASSUME NEW c \in Commands, \A i \in 1..n : adm[i] # c
      PROVE  submission'[c] = submission[c]
  BY <1>3, <1>6, <1>9
<1>10. submission' \in [Commands -> Nat]
  <2>1. \A c \in Commands : submission'[c] \in Nat
    BY <1>1, <1>2, <1>8, <1>9
  <2> QED
    BY <2>1, <1>3
<1>11. ASSUME NEW c \in Commands, \A i \in DOMAIN adm : adm[i] # c
       PROVE  waiter'[c] = w[c]
  <2>1. \A i \in (n + 1)..Len(adm) : i \in DOMAIN adm
    BY <1>1, <1>2
  <2>2. \A i \in 1..n : i \in DOMAIN adm
    BY <1>1, <1>2
  <2>3. c \notin ToSet(entered) /\ c \notin ToSet(left)
    BY <2>1, <2>2, <1>6, <1>11
  <2> QED
    BY <2>3, <1>3
<1>12. ASSUME NEW i \in (n + 1)..Len(adm)
       PROVE  waiter'[adm[i]] = IF exhausted THEN "error" ELSE w[adm[i]]
  <2>1. i \in DOMAIN adm /\ \A j \in 1..n : j \in DOMAIN adm /\ j # i
    BY <1>1, <1>2
  <2>2. adm[i] \in Commands /\ adm[i] \in ToSet(left) /\ adm[i] \notin ToSet(entered)
    BY <2>1, <1>1, <1>6
  <2> QED
    BY <2>2, <1>3
<1>13. admissions' \in Seq(Commands)
  BY <1>3, <1>5
<1>14. \/ /\ admissions' = <<>> /\ writer' = "closing"
          /\ \A i \in (n + 1)..Len(adm) : waiter'[adm[i]] = "error"
       \/ /\ writer' = writer /\ Len(admissions') = Len(adm) - n
          /\ \A i \in 1..(Len(adm) - n) : admissions'[i] = adm[n + i]
          /\ \A i \in (n + 1)..Len(adm) : waiter'[adm[i]] = w[adm[i]]
  BY <1>3, <1>5, <1>12
<1>15. n \in 0..Len(adm)
  BY <1>1, <1>2
<1>16. DOMAIN waiter' = Commands
  BY <1>3
<1> QED
  BY <1>2, <1>3, <1>7, <1>8, <1>9, <1>10, <1>11, <1>13, <1>14, <1>15, <1>16 DEF AdmitsFirst

\* The line adm, the queue q and the waiters w agree, with a as the command taken from the queue.
Agree(adm, q, w, a) ==
    /\ \A i, j \in DOMAIN adm : adm[i] = adm[j] => i = j
    /\ \A c \in Commands : w[c] = "waiting" <=> \E i \in DOMAIN adm : adm[i] = c
    /\ \A c \in Commands : w[c] # "ticket" => submission[c] = 0 /\ answer[c] = "none"
    /\ \A i \in DOMAIN q : /\ submission[q[i]] = nextSubmission - Len(q) + i - 1
                          /\ w[q[i]] = "ticket" /\ answer[q[i]] = "none"
    /\ \A c \in Commands : w[c] = "ticket" => \/ answer[c] # "none" \/ c = a
                                               \/ \E i \in DOMAIN q : q[i] = c

\* Admission keeps the agreement, and changes nothing about commands with an identity.
LEMMA AdmissionAgrees ==
  ASSUME NEW adm \in Seq(Commands), NEW q \in Seq(Commands), NEW w, NEW a, NEW n \in 0..Len(adm),
         Agree(adm, q, w, a), AdmitsFirst(adm, q, w, n), answer' = answer,
         nextSubmission \in Nat \ {0}, Len(q) < nextSubmission
  PROVE  /\ First' = nextSubmission - Len(q)
         /\ \A i, j \in DOMAIN admissions' : admissions'[i] = admissions'[j] => i = j
         /\ \A c \in Commands : waiter'[c] = "waiting" <=> \E i \in DOMAIN admissions' : admissions'[i] = c
         /\ \A c \in Commands : waiter'[c] # "ticket" => submission'[c] = 0 /\ answer'[c] = "none"
         /\ \A i \in DOMAIN queue' : /\ submission'[queue'[i]] = First' + i - 1
                                    /\ waiter'[queue'[i]] = "ticket" /\ answer'[queue'[i]] = "none"
         /\ \A c \in Commands : waiter'[c] = "ticket" => \/ answer'[c] # "none" \/ c = a
                                                          \/ \E i \in DOMAIN queue' : queue'[i] = c
         /\ \A c \in Commands : w[c] # "waiting" => submission'[c] = submission[c] /\ waiter'[c] = w[c]
         /\ \A c \in Commands : submission[c] # 0 => submission'[c] = submission[c] /\ waiter'[c] = w[c]
         /\ Len(admissions') <= Len(adm) /\ (adm = <<>> => admissions' = <<>> /\ writer' \in {writer, "closing"})
<1>1. /\ Len(adm) \in Nat /\ Len(q) \in Nat /\ n \in Nat /\ n <= Len(adm)
      /\ DOMAIN adm = 1..Len(adm) /\ \A i \in 1..Len(adm) : adm[i] \in Commands
      /\ DOMAIN q = 1..Len(q) /\ \A i \in 1..Len(q) : q[i] \in Commands
  BY LenProperties
<1>2. /\ admissions' \in Seq(Commands) /\ queue' \in Seq(Commands)
      /\ DOMAIN queue' = 1..(Len(q) + n) /\ Len(queue') = Len(q) + n
      /\ Len(admissions') \in Nat /\ DOMAIN admissions' = 1..Len(admissions')
  BY LenProperties DEF AdmitsFirst
<1>3. First' = nextSubmission - Len(q)
  <2>1. nextSubmission' = nextSubmission + n
    BY DEF AdmitsFirst
  <2>2. First' = (nextSubmission + n) - (Len(q) + n)
    BY <2>1, <1>2 DEF First
  <2> QED
    BY <2>2, <1>1
<1>4. \A i \in DOMAIN adm : i \in 1..n \/ i \in (n + 1)..Len(adm)
  BY <1>1
<1>0. /\ \A i \in 1..n : i \in DOMAIN adm /\ waiter'[adm[i]] = "ticket"
                          /\ submission'[adm[i]] = nextSubmission - 1 + i
                          /\ Len(q) + i \in DOMAIN queue' /\ queue'[Len(q) + i] = adm[i]
      /\ \A i \in DOMAIN q : i \in DOMAIN queue' /\ queue'[i] = q[i]
      /\ \A k \in (n + 1)..Len(adm) : k \in DOMAIN adm /\ \A i \in 1..n : i # k
  <2>1. \A i \in 1..n : i \in DOMAIN adm /\ Len(q) + i \in DOMAIN queue'
    BY <1>1, <1>2
  <2>2. \A i \in 1..n : /\ waiter'[adm[i]] = "ticket" /\ queue'[Len(q) + i] = adm[i]
                        /\ submission'[adm[i]] = nextSubmission - 1 + i
    BY DEF AdmitsFirst
  <2>3. \A i \in DOMAIN q : i \in DOMAIN queue'
    BY <1>1, <1>2
  <2>4. \A i \in DOMAIN q : queue'[i] = q[i]
    BY <1>1 DEF AdmitsFirst
  <2>5. \A k \in (n + 1)..Len(adm) : k \in DOMAIN adm /\ \A i \in 1..n : i # k
    BY <1>1
  <2> QED
    BY <2>1, <2>2, <2>3, <2>4, <2>5
<1> DEFINE Rejected == admissions' = <<>> /\ \A k \in (n + 1)..Len(adm) : waiter'[adm[k]] = "error"
           Kept == /\ \A i \in DOMAIN admissions' : /\ n + i \in (n + 1)..Len(adm)
                                                     /\ admissions'[i] = adm[n + i]
                   /\ \A k \in (n + 1)..Len(adm) : /\ waiter'[adm[k]] = w[adm[k]]
                                                    /\ k - n \in DOMAIN admissions'
                                                    /\ admissions'[k - n] = adm[k]
<1>12. Rejected \/ Kept
  <2>1. CASE /\ Len(admissions') = Len(adm) - n
             /\ \A i \in 1..(Len(adm) - n) : admissions'[i] = adm[n + i]
             /\ \A i \in (n + 1)..Len(adm) : waiter'[adm[i]] = w[adm[i]]
    <3>1. \A i \in DOMAIN admissions' : n + i \in (n + 1)..Len(adm) /\ admissions'[i] = adm[n + i]
      BY <2>1, <1>1, <1>2
    <3>2. ASSUME NEW k \in (n + 1)..Len(adm)
          PROVE  k - n \in DOMAIN admissions' /\ admissions'[k - n] = adm[k]
      <4>1. k - n \in 1..(Len(adm) - n) /\ n + (k - n) = k
        BY <1>1
      <4> QED
        BY <4>1, <2>1, <1>2
    <3> QED
      BY <3>1, <3>2, <2>1
  <2> QED
    BY <2>1 DEF AdmitsFirst
<1>5. ASSUME NEW c \in Commands, w[c] # "waiting"
      PROVE  submission'[c] = submission[c] /\ waiter'[c] = w[c]
  <2>1. \A i \in DOMAIN adm : adm[i] # c
    BY <1>5 DEF Agree
  <2>2. \A i \in 1..n : adm[i] # c
    BY <2>1, <1>1
  <2> QED
    BY <2>1, <2>2 DEF AdmitsFirst
<1>6. ASSUME NEW c \in Commands, submission[c] # 0
      PROVE  submission'[c] = submission[c] /\ waiter'[c] = w[c]
  BY <1>5, <1>6 DEF Agree
<1>7. \A i, j \in DOMAIN admissions' : admissions'[i] = admissions'[j] => i = j
  <2>1. CASE Rejected
    BY <2>1, <1>2
  <2>2. CASE Kept
    <3>1. ASSUME NEW i \in DOMAIN admissions', NEW j \in DOMAIN admissions', admissions'[i] = admissions'[j]
          PROVE  n + i = n + j
      BY <3>1, <2>2, <1>0 DEF Agree
    <3> QED
      BY <3>1, <1>1, <1>2
  <2> QED
    BY <2>1, <2>2, <1>12
<1>8. ASSUME NEW c \in Commands
      PROVE  /\ waiter'[c] = "waiting" <=> \E i \in DOMAIN admissions' : admissions'[i] = c
             /\ waiter'[c] # "ticket" => submission'[c] = 0 /\ answer'[c] = "none"
             /\ waiter'[c] = "ticket" => \/ answer'[c] # "none" \/ c = a
                                        \/ \E i \in DOMAIN queue' : queue'[i] = c
  <2>1. CASE \A i \in DOMAIN adm : adm[i] # c
    <3>1. waiter'[c] = w[c] /\ w[c] # "waiting" /\ submission'[c] = submission[c]
      BY <2>1, <1>5 DEF Agree
    <3>2. \A i \in DOMAIN admissions' : admissions'[i] # c
      BY <2>1, <1>0, <1>2, <1>12
    <3> QED
      BY <3>1, <3>2, <1>0 DEF Agree
  <2>2. ASSUME NEW k \in 1..n, adm[k] = c
        PROVE  /\ waiter'[c] = "ticket" /\ \E i \in DOMAIN queue' : queue'[i] = c
               /\ ~\E i \in DOMAIN admissions' : admissions'[i] = c
    <3>1. \A i \in (n + 1)..Len(adm) : adm[i] # c
      BY <2>2, <1>0 DEF Agree
    <3>2. \A i \in DOMAIN admissions' : admissions'[i] # c
      BY <3>1, <1>2, <1>12
    <3> QED
      BY <3>2, <2>2, <1>0
  <2>3. ASSUME NEW k \in (n + 1)..Len(adm), adm[k] = c
        PROVE  /\ waiter'[c] = "waiting" <=> \E i \in DOMAIN admissions' : admissions'[i] = c
               /\ waiter'[c] # "ticket" /\ submission'[c] = 0 /\ answer'[c] = "none"
    <3>1. k \in DOMAIN adm /\ \A i \in 1..n : i \in DOMAIN adm /\ i # k
      BY <1>0
    <3>2. \A i \in 1..n : adm[i] # c
      BY <3>1, <2>3 DEF Agree
    <3>3. w[c] = "waiting" /\ submission[c] = 0 /\ answer[c] = "none"
      BY <3>1, <2>3 DEF Agree
    <3>4. submission'[c] = submission[c]
      BY <3>2 DEF AdmitsFirst
    <3>5. waiter'[c] = "waiting" <=> \E i \in DOMAIN admissions' : admissions'[i] = c
      <4>1. CASE Rejected
        BY <4>1, <2>3, <1>2
      <4>2. CASE Kept
        <5>1. k - n \in DOMAIN admissions' /\ admissions'[k - n] = c /\ waiter'[c] = w[c]
          BY <4>2, <2>3
        <5> QED
          BY <5>1, <3>3
      <4> QED
        BY <4>1, <4>2, <1>12
    <3>6. waiter'[c] # "ticket"
      BY <3>3, <2>3, <1>12
    <3> QED
      BY <3>3, <3>4, <3>5, <3>6
  <2>4. (\A i \in DOMAIN adm : adm[i] # c) \/ (\E k \in 1..n : adm[k] = c)
           \/ \E k \in (n + 1)..Len(adm) : adm[k] = c
    BY <1>4
  <2> QED
    BY <2>1, <2>2, <2>3, <2>4
<1>9. ASSUME NEW i \in DOMAIN queue'
      PROVE  /\ submission'[queue'[i]] = First' + i - 1
             /\ waiter'[queue'[i]] = "ticket" /\ answer'[queue'[i]] = "none"
  <2>1. CASE i \in DOMAIN q
    <3>1. queue'[i] = q[i] /\ q[i] \in Commands
      BY <2>1, <1>0, <1>1
    <3>2. submission[q[i]] = nextSubmission - Len(q) + i - 1 /\ w[q[i]] = "ticket" /\ answer[q[i]] = "none"
      BY <2>1 DEF Agree
    <3>3. submission'[q[i]] = submission[q[i]] /\ waiter'[q[i]] = w[q[i]]
      BY <3>1, <3>2, <1>5
    <3> QED
      BY <3>1, <3>2, <3>3, <1>3
  <2>2. ASSUME NEW k \in 1..n, i = Len(q) + k
        PROVE  /\ submission'[queue'[i]] = First' + i - 1
               /\ waiter'[queue'[i]] = "ticket" /\ answer'[queue'[i]] = "none"
    <3>1. k \in DOMAIN adm /\ queue'[i] = adm[k] /\ submission'[adm[k]] = nextSubmission - 1 + k
             /\ waiter'[adm[k]] = "ticket"
      BY <2>2, <1>0
    <3>2. adm[k] \in Commands /\ answer[adm[k]] = "none"
      BY <3>1, <1>1 DEF Agree
    <3>3. nextSubmission - 1 + k = (nextSubmission - Len(q)) + i - 1
      BY <2>2, <1>1
    <3> QED
      BY <3>1, <3>2, <3>3, <1>3
  <2>3. i \in DOMAIN q \/ \E k \in 1..n : i = Len(q) + k
    <3>1. CASE i <= Len(q)
      BY <3>1, <1>1, <1>2
    <3>2. CASE i > Len(q)
      <4>1. i - Len(q) \in 1..n /\ i = Len(q) + (i - Len(q))
        BY <3>2, <1>1, <1>2
      <4> QED
        BY <4>1
    <3> QED
      BY <3>1, <3>2, <1>1, <1>2
  <2> QED
    BY <2>1, <2>2, <2>3
<1>10. Len(admissions') <= Len(adm)
  <2>1. CASE admissions' = <<>>
    BY <2>1, <1>1, EmptySeq
  <2>2. CASE Len(admissions') = Len(adm) - n
    BY <2>2, <1>1
  <2> QED
    BY <2>1, <2>2 DEF AdmitsFirst
<1>11. adm = <<>> => admissions' = <<>> /\ writer' \in {writer, "closing"}
  <2>1. ASSUME adm = <<>> PROVE admissions' = <<>> /\ writer' \in {writer, "closing"}
    <3>1. Len(adm) = 0 /\ Len(admissions') = 0
      BY <2>1, <1>1, <1>2, <1>10, EmptySeq
    <3> QED
      BY <3>1, <1>2, EmptySeq DEF AdmitsFirst
  <2> QED
    BY <2>1
<1> QED
  BY <1>3, <1>5, <1>6, <1>7, <1>8, <1>9, <1>10, <1>11

------------------------------------------------------------------------------
(* The steps.                                                              *)

\* What the invariant says of lengths and identities.
LEMMA Lengths ==
  ASSUME WriterInv
  PROVE  /\ Len(queue) \in Nat /\ Len(admissions) \in Nat /\ Len(log) \in Nat /\ Len(notifications) \in Nat
         /\ DOMAIN queue = 1..Len(queue) /\ DOMAIN admissions = 1..Len(admissions)
         /\ DOMAIN log = 1..Len(log) /\ DOMAIN notifications = 1..Len(notifications)
         /\ \A i \in DOMAIN queue : queue[i] \in Commands
         /\ \A i \in DOMAIN admissions : admissions[i] \in Commands
         /\ \A i \in DOMAIN log : log[i] \in Commands
         /\ \A i \in DOMAIN notifications : notifications[i] \in Commands
         /\ {QueueCapacity, WaiterCapacity, NotificationCapacity, MaxContention, MaxSubmission} \subseteq Nat \ {0}
         /\ InFlight \in 0..1 /\ First \in Nat /\ First >= InFlight + 1
         /\ active # None => active \in Commands /\ submission[active] # 0
<1>1. /\ Len(queue) \in Nat /\ Len(admissions) \in Nat /\ Len(log) \in Nat /\ Len(notifications) \in Nat
      /\ DOMAIN queue = 1..Len(queue) /\ DOMAIN admissions = 1..Len(admissions)
      /\ DOMAIN log = 1..Len(log) /\ DOMAIN notifications = 1..Len(notifications)
  BY LenProperties DEF WriterInv, Typed
<1>2. /\ \A i \in DOMAIN queue : queue[i] \in Commands
      /\ \A i \in DOMAIN admissions : admissions[i] \in Commands
      /\ \A i \in DOMAIN log : log[i] \in Commands
      /\ \A i \in DOMAIN notifications : notifications[i] \in Commands
  BY <1>1, ElementOfSeq DEF WriterInv, Typed
<1>3. {QueueCapacity, WaiterCapacity, NotificationCapacity, MaxContention, MaxSubmission} \subseteq Nat \ {0}
  BY WriterAssumption
<1>4. InFlight \in 0..1 /\ (active # None => InFlight = 1)
  BY DEF InFlight
<1>5. First \in Nat /\ First >= InFlight + 1
  <2>1. completed \in Nat /\ completed = (nextSubmission - 1) - Len(queue) - InFlight /\ nextSubmission \in Nat
    BY <1>3 DEF WriterInv, CountersOK, Typed
  <2> QED
    BY <2>1, <1>1, <1>4 DEF First
<1>6. active # None => active \in Commands /\ submission[active] # 0
  BY <1>4, <1>5 DEF WriterInv, Typed, QueueOK
<1> QED
  BY <1>1, <1>2, <1>3, <1>4, <1>5, <1>6

\* At the start nothing is submitted.
LEMMA InitInv == Init => WriterInv
<1> SUFFICES ASSUME Init PROVE WriterInv
  OBVIOUS
<1>1. <<>> \in Seq(Commands) /\ Len(<<>>) = 0 /\ DOMAIN <<>> = {}
  BY EmptySeq
<1>2. 1 \in 1..(MaxSubmission + 1) /\ {QueueCapacity, WaiterCapacity, NotificationCapacity} \subseteq Nat
  BY WriterAssumption
<1>3. Typed
  BY <1>1, <1>2 DEF Init, Typed
<1>4. LifeOK
  BY DEF Init, LifeOK
<1>5. CountersOK
  <2>1. Len(queue) = 0 /\ Len(admissions) = 0 /\ InFlight = 0
    BY <1>1 DEF Init, InFlight
  <2>2. {maxQueue, maxWaiters, maxResident} \subseteq Nat
    BY DEF Init
  <2>3. 0 <= QueueCapacity /\ 0 <= WaiterCapacity /\ 0 <= QueueCapacity + 1
    BY <1>2
  <2>4. /\ nextSubmission = 1 /\ accepted = 0 /\ completed = 0
        /\ maxQueue = 0 /\ maxWaiters = 0 /\ maxResident = 0
    BY DEF Init
  <2> QED
    BY <2>1, <2>2, <2>3, <2>4 DEF CountersOK
<1>6. ClientsOK /\ QueueOK
  BY <1>1 DEF Init, ClientsOK, QueueOK
<1>7. LogOK /\ NoticesOK
  BY <1>1, <1>2 DEF Init, LogOK, NoticesOK, Rising, After
<1> QED
  BY <1>3, <1>4, <1>5, <1>6, <1>7 DEF WriterInv

\* A step that only gives identities to commands without one keeps what log and notifications tell.
LEMMA HistoryFrame ==
  ASSUME WriterInv, First' = First, answer' = answer,
         UNCHANGED <<thread, active, mutated, log, notifications>>,
         \A c \in Commands : submission[c] # 0 => submission'[c] = submission[c]
  PROVE  LogOK' /\ NoticesOK'
<1>1. /\ \A i \in DOMAIN log : log[i] \in Commands /\ submission[log[i]] # 0
      /\ \A i \in DOMAIN notifications : notifications[i] \in Commands /\ submission[notifications[i]] # 0
  BY Lengths DEF WriterInv, LogOK, NoticesOK
<1>2. thread \in {"execute", "resolve"} => active \in Commands /\ submission[active] # 0
  BY Lengths DEF WriterInv, LifeOK
<1>3. LogOK'
  BY <1>1, <1>2 DEF WriterInv, LogOK, Rising, After
<1>4. NoticesOK'
  BY <1>1, <1>2 DEF WriterInv, NoticesOK, Rising, After
<1> QED
  BY <1>3, <1>4

\* A submit call enters the line, which may let it and others into the queue.
LEMMA SubmitInv ==
  ASSUME WriterInv, NEW c \in Commands, Submit(c)
  PROVE  WriterInv'
<1> DEFINE adm == Append(admissions, c)
           w == [waiter EXCEPT ![c] = "waiting"]
           k == Len(admissions)
<1>0. /\ k \in Nat /\ DOMAIN admissions = 1..k /\ Len(queue) \in Nat /\ DOMAIN queue = 1..Len(queue)
      /\ \A i \in DOMAIN queue : queue[i] \in Commands
      /\ \A i \in DOMAIN admissions : admissions[i] \in Commands
      /\ {QueueCapacity, WaiterCapacity, NotificationCapacity, MaxContention, MaxSubmission} \subseteq Nat \ {0}
      /\ InFlight \in 0..1 /\ First \in Nat /\ First >= InFlight + 1
  BY Lengths
<1>1. /\ waiter[c] = "none" /\ submission[c] = 0 /\ answer[c] = "none"
      /\ \A i \in DOMAIN admissions : admissions[i] # c
  BY DEF WriterInv, ClientsOK, Submit
<1>2. /\ adm \in Seq(Commands) /\ Len(adm) = k + 1 /\ DOMAIN adm = 1..(k + 1)
      /\ adm[k + 1] = c /\ \A i \in 1..k : adm[i] = admissions[i]
  BY DEF WriterInv, Typed
<1>line. k + 1 \in 1..(k + 1) /\ \A i \in 1..(k + 1) : (i \in DOMAIN admissions /\ i \in 1..k) \/ i = k + 1
  BY <1>0
<1> HIDE DEF adm
<1>3. Agree(adm, queue, w, active)
  <2>1. \A i, j \in DOMAIN adm : adm[i] = adm[j] => i = j
    <3>1. \A i \in DOMAIN adm : \/ i \in DOMAIN admissions /\ adm[i] = admissions[i]
                                \/ i = k + 1 /\ adm[i] = c
      <4>1. ASSUME NEW i \in DOMAIN adm
            PROVE  (i \in 1..k /\ i \in DOMAIN admissions) \/ i = k + 1
        BY <1>2, <1>line
      <4> QED
        BY <4>1, <1>2
    <3> QED
      BY <3>1, <1>1 DEF WriterInv, ClientsOK
  <2>2. ASSUME NEW d \in Commands
        PROVE  w[d] = "waiting" <=> \E i \in DOMAIN adm : adm[i] = d
    <3>1. CASE d = c
      BY <3>1, <1>2, <1>line DEF WriterInv, Typed
    <3>2. CASE d # c
      <4>1. w[d] = waiter[d]
        BY <3>2
      <4>2. (\E i \in DOMAIN adm : adm[i] = d) <=> \E i \in DOMAIN admissions : admissions[i] = d
        BY <3>2, <1>2, <1>line
      <4> QED
        BY <4>1, <4>2 DEF WriterInv, ClientsOK
    <3> QED
      BY <3>1, <3>2
  <2>3. \A d \in Commands : w[d] # "ticket" => submission[d] = 0 /\ answer[d] = "none"
    BY <1>1 DEF WriterInv, ClientsOK
  <2>4. \A i \in DOMAIN queue : /\ submission[queue[i]] = nextSubmission - Len(queue) + i - 1
                               /\ w[queue[i]] = "ticket" /\ answer[queue[i]] = "none"
    BY <1>1 DEF WriterInv, QueueOK, First, Typed
  <2>5. \A d \in Commands : w[d] = "ticket" => \/ answer[d] # "none" \/ d = active
                                               \/ \E i \in DOMAIN queue : queue[i] = d
    BY <1>1 DEF WriterInv, QueueOK, Typed
  <2> QED
    BY <2>1, <2>2, <2>3, <2>4, <2>5 DEF Agree
<1>others. DOMAIN w = Commands /\ \A d \in Commands : d # c => w[d] = waiter[d]
  BY DEF WriterInv, Typed
<1>4. /\ nextSubmission \in 1..(MaxSubmission + 1) /\ nextSubmission \in Nat \ {0}
      /\ Len(queue) < nextSubmission /\ Len(queue) <= QueueCapacity
      /\ queue \in Seq(Commands) /\ submission \in [Commands -> Nat] /\ DOMAIN w = Commands
  <2>1. nextSubmission \in 1..(MaxSubmission + 1) /\ queue \in Seq(Commands) /\ submission \in [Commands -> Nat]
           /\ DOMAIN w = Commands
    BY DEF WriterInv, Typed
  <2>2. Len(queue) < nextSubmission
    BY <2>1, <1>0 DEF First
  <2>3. Len(queue) <= QueueCapacity
    BY <1>0 DEF WriterInv, CountersOK
  <2> QED
    BY <2>1, <2>2, <2>3, <1>0
<1>5. AdmitWaiters(adm, queue, w)
  BY DEF Submit, adm
<1> HIDE DEF w
<1>6. PICK n \in 0..Len(adm) : AdmitsFirst(adm, queue, w, n)
  <2>1. \A i, j \in DOMAIN adm : adm[i] = adm[j] => i = j
    BY <1>3 DEF Agree
  <2> QED
    BY <2>1, <1>2, <1>4, <1>5, Admitted
<1>7. answer' = answer /\ UNCHANGED <<thread, active, attempts, mutated, log, notifications, completed>>
  BY DEF Submit
<1>8. /\ First' = First
      /\ \A i, j \in DOMAIN admissions' : admissions'[i] = admissions'[j] => i = j
      /\ \A d \in Commands : waiter'[d] = "waiting" <=> \E i \in DOMAIN admissions' : admissions'[i] = d
      /\ \A d \in Commands : waiter'[d] # "ticket" => submission'[d] = 0 /\ answer'[d] = "none"
      /\ \A i \in DOMAIN queue' : /\ submission'[queue'[i]] = First' + i - 1
                                 /\ waiter'[queue'[i]] = "ticket" /\ answer'[queue'[i]] = "none"
      /\ \A d \in Commands : waiter'[d] = "ticket" => \/ answer'[d] # "none" \/ d = active
                                                       \/ \E i \in DOMAIN queue' : queue'[i] = d
      /\ \A d \in Commands : w[d] # "waiting" => submission'[d] = submission[d] /\ waiter'[d] = w[d]
      /\ \A d \in Commands : submission[d] # 0 => submission'[d] = submission[d] /\ waiter'[d] = w[d]
      /\ Len(admissions') <= Len(adm)
  BY <1>2, <1>3, <1>4, <1>6, <1>7, AdmissionAgrees DEF First
<1>9. Typed'
  <2>1. nextSubmission' \in 1..(MaxSubmission + 1)
    BY <1>0, <1>4, <1>6 DEF AdmitsFirst
  <2>2. DOMAIN client' = Commands
    BY DEF WriterInv, Typed, Submit
  <2>3. /\ admissions' \in Seq(Commands) /\ queue' \in Seq(Commands) /\ submission' \in [Commands -> Nat]
        /\ DOMAIN waiter' = Commands
    BY <1>6 DEF AdmitsFirst
  <2> QED
    BY <2>1, <2>2, <2>3, <1>7 DEF WriterInv, Typed
<1>10. LifeOK'
  <2>1. writer = "running" /\ thread # "done"
    BY DEF WriterInv, LifeOK, Submit
  <2>2. writer' = writer \/ (writer' = "closing" /\ admissions' = <<>>)
    BY <1>6 DEF AdmitsFirst
  <2> QED
    BY <2>1, <2>2, <1>7 DEF WriterInv, LifeOK
<1>11. CountersOK'
  <2>0. /\ Len(queue) \in Nat /\ InFlight \in 0..1 /\ nextSubmission \in Nat /\ k \in Nat
        /\ QueueCapacity \in Nat /\ WaiterCapacity \in Nat
    BY <1>0, <1>4
  <2>1. /\ nextSubmission' = nextSubmission + n /\ accepted' = accepted + n
        /\ Len(queue') = Len(queue) + n /\ Len(queue') <= QueueCapacity /\ n \in Nat
    BY <1>2, <1>0, <1>6 DEF AdmitsFirst
  <2>2. InFlight' = InFlight
    BY <1>7 DEF InFlight
  <2>3. /\ maxQueue' = Max({maxQueue, Len(queue')})
        /\ maxWaiters' = Max({maxWaiters, k + 1})
        /\ maxResident' = Max({maxResident, Len(queue') + InFlight})
    BY DEF Submit, UpdateHighWaters
  <2>4. maxQueue \in Nat /\ maxWaiters \in Nat /\ maxResident \in Nat
    BY DEF WriterInv, CountersOK
  <2>5. Len(queue') \in Nat /\ Len(queue') + InFlight \in Nat /\ k + 1 \in Nat
    BY <2>1, <1>0
  <2>6. /\ maxQueue' \in {maxQueue, Len(queue')} /\ maxQueue' >= maxQueue /\ maxQueue' >= Len(queue')
        /\ maxWaiters' \in {maxWaiters, k + 1} /\ maxWaiters' >= maxWaiters /\ maxWaiters' >= k + 1
        /\ maxResident' \in {maxResident, Len(queue') + InFlight} /\ maxResident' >= maxResident
        /\ maxResident' >= Len(queue') + InFlight
    BY <2>3, <2>4, <2>5, MaxOfTwo
  <2>7. k + 1 <= WaiterCapacity
    BY <1>0 DEF Submit
  <2>8. Len(admissions') <= k + 1 /\ Len(admissions') \in Nat
    BY <1>2, <1>6, <1>8, LenProperties DEF AdmitsFirst
  <2>9. /\ accepted = nextSubmission - 1 /\ completed \in Nat /\ completed = accepted - Len(queue) - InFlight
        /\ maxQueue <= QueueCapacity /\ maxQueue <= maxResident /\ maxResident <= QueueCapacity + 1
        /\ maxWaiters <= WaiterCapacity
    BY DEF WriterInv, CountersOK
  <2>10. accepted' = nextSubmission' - 1 /\ completed' = accepted' - Len(queue') - InFlight'
    BY <2>0, <2>1, <2>2, <2>9, <1>7
  <2>11. /\ Len(queue') <= maxQueue' /\ maxQueue' <= QueueCapacity /\ maxQueue' <= maxResident'
         /\ Len(queue') + InFlight' <= maxResident' /\ maxResident' <= QueueCapacity + 1
    BY <2>0, <2>1, <2>2, <2>4, <2>5, <2>6, <2>9
  <2>12. Len(admissions') <= maxWaiters' /\ maxWaiters' <= WaiterCapacity
    BY <2>0, <2>4, <2>6, <2>7, <2>8, <2>9
  <2>13. {maxQueue', maxWaiters', maxResident'} \subseteq Nat
    BY <2>4, <2>5, <2>6
  <2> QED
    BY <2>9, <2>10, <2>11, <2>12, <2>13, <1>7 DEF CountersOK
<1>12. ClientsOK'
  <2>1. client' = [client EXCEPT ![c] = "submitting"]
    BY DEF Submit
  <2>2. ASSUME NEW d \in Commands, client'[d] \in {"idle", "timed_out", "refused"}
        PROVE  waiter'[d] = waiter[d] /\ client'[d] = client[d]
    <3>1. d # c /\ client[d] = client'[d]
      BY <2>1, <2>2 DEF WriterInv, Typed
    <3>2. w[d] = waiter[d] /\ waiter[d] # "waiting"
      BY <3>1, <2>2, <1>others DEF WriterInv, ClientsOK
    <3> QED
      BY <3>1, <3>2, <1>8
  <2> QED
    BY <2>2, <1>8 DEF WriterInv, ClientsOK
<1>13. QueueOK'
  <2>1. active # None => submission'[active] = submission[active] /\ waiter'[active] = "ticket"
    <3>1. ASSUME active # None PROVE active \in Commands /\ submission[active] # 0 /\ active # c
      BY <3>1, <1>1, Lengths
    <3> QED
      BY <3>1, <1>8, <1>others DEF WriterInv, QueueOK
  <2> QED
    BY <2>1, <1>7, <1>8 DEF WriterInv, QueueOK
<1>14. LogOK' /\ NoticesOK'
  BY <1>7, <1>8, HistoryFrame
<1> QED
  BY <1>9, <1>10, <1>11, <1>12, <1>13, <1>14 DEF WriterInv

\* A step of a client or of the lifecycle keeps the invariant when it leaves the queue and the
\* tickets alone, lets nobody into the line, and agrees with what clients know.
LEMMA LineFrame ==
  ASSUME WriterInv,
         UNCHANGED <<queue, active, attempts, mutated, submission, answer, log, notifications, counters>>,
         thread' = thread \/ (active = None /\ thread' \in {"wait", "done"}),
         admissions' \in Seq(Commands), Len(admissions') <= Len(admissions),
         DOMAIN waiter' = Commands, DOMAIN client' = Commands,
         \A c \in Commands : waiter'[c] = "ticket" <=> waiter[c] = "ticket",
         ClientsOK', LifeOK'
  PROVE  WriterInv'
<1>1. Typed'
  BY DEF WriterInv, Typed, counters
<1>2. First' = First /\ InFlight' = InFlight
  BY DEF First, InFlight, counters
<1>3. CountersOK'
  <2>1. Len(admissions') \in Nat /\ Len(admissions) \in Nat /\ maxWaiters \in Nat
    BY LenProperties DEF WriterInv, Typed, CountersOK
  <2>2. Len(admissions') <= maxWaiters
    BY <2>1 DEF WriterInv, CountersOK
  <2> QED
    BY <1>2, <2>2 DEF WriterInv, CountersOK, counters
<1>4. thread' \in {"execute", "resolve", "finish", "fatal"} => thread' = thread
  OBVIOUS
<1>5. QueueOK'
  <2>1. \A i \in DOMAIN queue : queue[i] \in Commands
    BY Lengths
  <2>2. active # None => active \in Commands
    BY Lengths
  <2> QED
    BY <1>2, <1>4, <2>1, <2>2 DEF WriterInv, QueueOK
<1>6. LogOK' /\ NoticesOK'
  BY <1>2, <1>4 DEF WriterInv, LogOK, NoticesOK, Rising, After
<1> QED
  BY <1>1, <1>3, <1>5, <1>6 DEF WriterInv

\* What a submit call does after its entry.
LEMMA ClientInv ==
  ASSUME WriterInv, NEW c \in Commands,
         SubmitRefused(c) \/ SubmitDeadline(c) \/ ClientStep(c)
  PROVE  WriterInv'
<1>0. /\ DOMAIN waiter = Commands /\ DOMAIN client = Commands /\ admissions \in Seq(Commands)
      /\ Len(admissions) \in Nat
      /\ \A i, j \in DOMAIN admissions : admissions[i] = admissions[j] => i = j
  BY LenProperties DEF WriterInv, Typed, ClientsOK
<1>1. ASSUME UNCHANGED <<admissions, waiter, writer, thread>>,
             UNCHANGED <<queue, active, attempts, mutated, submission, answer, log, notifications, counters>>,
             NEW to, client' = [client EXCEPT ![c] = to],
             to \in {"idle", "timed_out"} => waiter[c] = "none",
             to = "refused" => waiter[c] \in {"none", "error"}
      PROVE  WriterInv'
  <2>1. ClientsOK'
    BY <1>0, <1>1 DEF WriterInv, ClientsOK
  <2>2. LifeOK'
    BY <1>1 DEF WriterInv, LifeOK
  <2> QED
    BY <1>0, <1>1, <2>1, <2>2, LineFrame
<1>2. ASSUME UNCHANGED <<writer, thread>>,
             UNCHANGED <<queue, active, attempts, mutated, submission, answer, log, notifications, counters>>,
             client' = [client EXCEPT ![c] = "timed_out"],
             admissions' = RemoveFirst(admissions, c), waiter' = [waiter EXCEPT ![c] = "none"],
             waiter[c] # "ticket"
      PROVE  WriterInv'
  <2>1. /\ admissions' \in Seq(Commands) /\ Len(admissions') <= Len(admissions)
        /\ \A d : (\E i \in DOMAIN admissions' : admissions'[i] = d)
                  <=> d # c /\ \E i \in DOMAIN admissions : admissions[i] = d
        /\ \A i, j \in DOMAIN admissions' : admissions'[i] = admissions'[j] => i = j
    <3> DEFINE q == RemoveFirst(admissions, c)
    <3>1. /\ q \in Seq(Commands) /\ Len(q) <= Len(admissions)
          /\ \A d : (\E i \in DOMAIN q : q[i] = d) <=> d # c /\ \E i \in DOMAIN admissions : admissions[i] = d
          /\ \A i, j \in DOMAIN q : q[i] = q[j] => i = j
      BY <1>0, Removed
    <3>2. admissions' = q
      BY <1>2
    <3> HIDE DEF q
    <3> QED
      BY <3>1, <3>2
  <2>2. /\ waiter'[c] = "none" /\ client'[c] = "timed_out"
        /\ \A d \in Commands : d # c => waiter'[d] = waiter[d] /\ client'[d] = client[d]
    BY <1>0, <1>2
  <2>3. ClientsOK'
    <3>1. ASSUME NEW d \in Commands
          PROVE  /\ client'[d] \in {"idle", "timed_out"} => waiter'[d] = "none"
                 /\ client'[d] = "refused" => waiter'[d] \in {"none", "error"}
                 /\ waiter'[d] # "ticket" => submission'[d] = 0 /\ answer'[d] = "none"
                 /\ waiter'[d] = "waiting" <=> \E i \in DOMAIN admissions' : admissions'[i] = d
      <4>1. CASE d = c
        BY <4>1, <1>2, <2>1, <2>2 DEF WriterInv, ClientsOK
      <4>2. CASE d # c
        <5>1. waiter'[d] = waiter[d] /\ client'[d] = client[d]
          BY <4>2, <2>2
        <5>2. (\E i \in DOMAIN admissions' : admissions'[i] = d)
                 <=> \E i \in DOMAIN admissions : admissions[i] = d
          BY <4>2, <2>1
        <5> QED
          BY <5>1, <5>2, <1>2 DEF WriterInv, ClientsOK
      <4> QED
        BY <4>1, <4>2
    <3> QED
      BY <3>1, <2>1 DEF ClientsOK
  <2>4. admissions = <<>> => admissions' = <<>>
    <3>1. ASSUME admissions = <<>> PROVE Len(admissions') = 0
      BY <3>1, <2>1, EmptySeq, LenProperties
    <3> QED
      BY <3>1, <2>1, EmptySeq
  <2>5. LifeOK'
    BY <1>2, <2>4 DEF WriterInv, LifeOK
  <2>6. \A d \in Commands : waiter'[d] = "ticket" <=> waiter[d] = "ticket"
    BY <1>2, <2>2
  <2>7. DOMAIN waiter' = Commands /\ DOMAIN client' = Commands
    BY <1>0, <1>2
  <2> QED
    BY <1>2, <2>1, <2>3, <2>5, <2>6, <2>7, LineFrame
<1>3. CASE SubmitRefused(c)
  <2>1. waiter[c] = "none"
    BY <1>3 DEF SubmitRefused, WriterInv, ClientsOK
  <2>2. PICK to \in {"refused", "timed_out"} : client' = [client EXCEPT ![c] = to]
    BY <1>3 DEF SubmitRefused
  <2> QED
    BY <1>1, <1>3, <2>1, <2>2 DEF SubmitRefused
<1>4. CASE SubmitReturns(c)
  BY <1>1, <1>4 DEF SubmitReturns
<1>5. CASE SubmitDeadline(c)
  <2>1. CASE client' = [client EXCEPT ![c] = "withdrawing"] /\ UNCHANGED <<waiter, admissions>>
    BY <1>1, <1>5, <2>1 DEF SubmitDeadline
  <2>2. CASE /\ waiter[c] = "waiting" /\ client' = [client EXCEPT ![c] = "timed_out"]
             /\ waiter' = [waiter EXCEPT ![c] = "none"] /\ admissions' = RemoveFirst(admissions, c)
    BY <1>2, <1>5, <2>2 DEF SubmitDeadline
  <2> QED
    BY <1>5, <2>1, <2>2 DEF SubmitDeadline
<1>6. CASE WithdrawAdmission(c)
  <2>1. CASE waiter[c] = "ticket"
    BY <1>1, <1>6, <2>1 DEF WithdrawAdmission
  <2>2. CASE waiter[c] # "ticket"
    BY <1>2, <1>6, <2>2 DEF WithdrawAdmission
  <2> QED
    BY <2>1, <2>2
<1> QED
  BY <1>3, <1>4, <1>5, <1>6 DEF ClientStep

\* Rejecting the line sends everybody in it away.
LEMMA Rejects ==
  ASSUME WriterInv, RejectAdmissions, UNCHANGED <<client, submission>>,
         \A c \in Commands : waiter[c] # "ticket" => answer'[c] = answer[c]
  PROVE  /\ ClientsOK' /\ admissions' = <<>> /\ admissions' \in Seq(Commands) /\ Len(admissions') = 0
         /\ DOMAIN waiter' = Commands
         /\ \A c \in Commands : waiter'[c] = "ticket" <=> waiter[c] = "ticket"
<1>1. admissions' = <<>> /\ <<>> \in Seq(Commands) /\ Len(<<>>) = 0 /\ DOMAIN <<>> = {}
  BY EmptySeq DEF RejectAdmissions
<1>2. ASSUME NEW c \in Commands
      PROVE  waiter'[c] = IF waiter[c] = "waiting" THEN "error" ELSE waiter[c]
  BY DEF RejectAdmissions, ToSet, WriterInv, ClientsOK
<1>3. ClientsOK'
  BY <1>1, <1>2 DEF WriterInv, ClientsOK
<1> QED
  BY <1>1, <1>2, <1>3 DEF RejectAdmissions

\* Starting, closing and the end of the drained thread.
LEMMA LifecycleInv ==
  ASSUME WriterInv, Start \/ Close \/ Drained \/ TakeNotification
  PROVE  WriterInv'
<1>0. DOMAIN waiter = Commands /\ DOMAIN client = Commands /\ admissions \in Seq(Commands) /\ Len(admissions) \in Nat
  BY LenProperties DEF WriterInv, Typed
<1>1. CASE Start
  <2>1. LifeOK' /\ active = None
    BY <1>1 DEF Start, WriterInv, LifeOK
  <2>2. ClientsOK'
    BY <1>1 DEF Start, WriterInv, ClientsOK, clients
  <2> QED
    BY <1>0, <1>1, <2>1, <2>2, LineFrame DEF Start, clients
<1>2. CASE Close
  <2>1. /\ ClientsOK' /\ admissions' = <<>> /\ admissions' \in Seq(Commands) /\ Len(admissions') = 0
        /\ DOMAIN waiter' = Commands
        /\ \A c \in Commands : waiter'[c] = "ticket" <=> waiter[c] = "ticket"
    BY <1>2, Rejects DEF Close
  <2>2. LifeOK'
    BY <1>2, <2>1 DEF Close, WriterInv, LifeOK
  <2> QED
    BY <1>0, <1>2, <2>1, <2>2, LineFrame DEF Close
<1>3. CASE Drained
  <2>1. LifeOK' /\ active = None
    BY <1>3 DEF Drained, WriterInv, LifeOK
  <2>2. ClientsOK'
    BY <1>3 DEF Drained, WriterInv, ClientsOK, clients
  <2> QED
    BY <1>0, <1>3, <2>1, <2>2, LineFrame DEF Drained, clients
<1>4. CASE TakeNotification
  <2> DEFINE n == Len(notifications)
  <2>1. /\ notifications' \in Seq(Commands) /\ Len(notifications') = n - 1 /\ n \in Nat
        /\ DOMAIN notifications' = 1..(n - 1) /\ DOMAIN notifications = 1..n
        /\ \A i \in 1..(n - 1) : notifications'[i] = notifications[i + 1]
    BY <1>4, HeadTailProperties, LenProperties DEF TakeNotification, WriterInv, Typed
  <2>2. First' = First /\ InFlight' = InFlight
    BY <1>4 DEF TakeNotification, First, InFlight, counters
  <2>3. Typed' /\ LifeOK' /\ CountersOK' /\ ClientsOK'
    BY <1>4, <2>1, <2>2 DEF TakeNotification, WriterInv, Typed, LifeOK, CountersOK, ClientsOK, clients, counters
  <2>4. QueueOK' /\ LogOK'
    BY <1>4, <2>2 DEF TakeNotification, WriterInv, QueueOK, LogOK, Rising, After, clients
  <2>5. NoticesOK'
    <3>1. n \in Nat /\ \A i \in 1..(n - 1) : i + 1 \in 1..n
      BY <2>1
    <3>2. Rising(notifications)'
      BY <1>4, <2>1, <3>1 DEF TakeNotification, WriterInv, NoticesOK, Rising, clients
    <3>3. n - 1 <= NotificationCapacity
      BY <3>1, Lengths DEF WriterInv, NoticesOK
    <3>4. thread \in {"execute", "resolve"} => After(notifications)'
      BY <1>4, <2>1, <3>1 DEF TakeNotification, WriterInv, NoticesOK, After, clients
    <3>5. \A i \in DOMAIN notifications' : /\ answer[notifications'[i]] = "receipt"
                                           /\ submission[notifications'[i]] \in 1..(First - 1)
      BY <2>1, <3>1 DEF WriterInv, NoticesOK
    <3> QED
      BY <1>4, <2>1, <2>2, <3>2, <3>3, <3>4, <3>5 DEF TakeNotification, NoticesOK, clients
  <2> QED
    BY <2>3, <2>4, <2>5 DEF WriterInv
<1> QED
  BY <1>1, <1>2, <1>3, <1>4

\* The thread takes the head of the queue, and the freed place admits a waiter.
LEMMA TakeInv ==
  ASSUME WriterInv, Take
  PROVE  WriterInv'
<1> DEFINE q == Tail(queue)
           m == Len(queue)
           h == Head(queue)
<1>0. /\ m \in Nat /\ DOMAIN queue = 1..m /\ Len(admissions) \in Nat
      /\ \A i \in DOMAIN queue : queue[i] \in Commands
      /\ {QueueCapacity, WaiterCapacity, NotificationCapacity, MaxContention, MaxSubmission} \subseteq Nat \ {0}
      /\ First \in Nat
  BY Lengths
<1>1. thread = "wait" /\ active = None /\ InFlight = 0 /\ queue # <<>> /\ queue \in Seq(Commands)
  BY DEF Take, WriterInv, LifeOK, Typed, InFlight
<1>2. /\ m >= 1 /\ h \in Commands /\ h = queue[1]
      /\ q \in Seq(Commands) /\ Len(q) = m - 1 /\ DOMAIN q = 1..(m - 1)
      /\ \A i \in 1..(m - 1) : q[i] = queue[i + 1]
  BY <1>1, HeadTailProperties, EmptySeq, LenProperties
<1>3. /\ thread' = "execute" /\ active' = h /\ answer' = answer
      /\ UNCHANGED <<mutated, client, log, notifications, completed>>
      /\ AdmitWaiters(admissions, q, waiter)
  BY DEF Take
<1> HIDE DEF q, h
<1>4. /\ nextSubmission \in 1..(MaxSubmission + 1) /\ nextSubmission \in Nat \ {0}
      /\ submission \in [Commands -> Nat] /\ admissions \in Seq(Commands)
      /\ Len(q) <= QueueCapacity /\ Len(q) < nextSubmission
      /\ \A i, j \in DOMAIN admissions : admissions[i] = admissions[j] => i = j
  <2>1. nextSubmission \in 1..(MaxSubmission + 1) /\ submission \in [Commands -> Nat] /\ admissions \in Seq(Commands)
    BY DEF WriterInv, Typed
  <2>2. nextSubmission \in Nat \ {0} /\ m <= nextSubmission
    BY <2>1, <1>0 DEF First
  <2>3. m <= QueueCapacity
    BY <1>0 DEF WriterInv, CountersOK
  <2>4. Len(q) <= QueueCapacity /\ Len(q) < nextSubmission
    BY <2>2, <2>3, <1>0, <1>2
  <2> QED
    BY <2>1, <2>2, <2>4 DEF WriterInv, ClientsOK
<1>5. /\ submission[h] = First /\ waiter[h] = "ticket" /\ answer[h] = "none"
      /\ \A i \in DOMAIN q : /\ submission[q[i]] = nextSubmission - Len(q) + i - 1
                            /\ waiter[q[i]] = "ticket" /\ answer[q[i]] = "none"
  <2>1. \A i \in DOMAIN queue : /\ submission[queue[i]] = First + i - 1
                               /\ waiter[queue[i]] = "ticket" /\ answer[queue[i]] = "none"
    BY DEF WriterInv, QueueOK
  <2>2. 1 \in DOMAIN queue /\ First + 1 - 1 = First
    BY <1>0, <1>2
  <2>3. ASSUME NEW i \in DOMAIN q
        PROVE  i + 1 \in DOMAIN queue /\ First + (i + 1) - 1 = nextSubmission - Len(q) + i - 1
    <3>1. i \in Nat /\ i + 1 \in DOMAIN queue
      BY <1>0, <1>2
    <3>2. First = nextSubmission - m /\ Len(q) = m - 1 /\ nextSubmission \in Nat
      BY <1>2, <1>4 DEF First
    <3> QED
      BY <3>1, <3>2, <1>0
  <2> QED
    BY <2>1, <2>2, <2>3, <1>2
<1>6. Agree(admissions, q, waiter, h)
  <2>1. ASSUME NEW d \in Commands, waiter[d] = "ticket"
        PROVE  answer[d] # "none" \/ d = h \/ \E i \in DOMAIN q : q[i] = d
    <3>1. answer[d] # "none" \/ \E i \in DOMAIN queue : queue[i] = d
      BY <2>1, <1>1, WriterAssumption DEF WriterInv, QueueOK
    <3>2. ASSUME NEW i \in DOMAIN queue, i # 1
          PROVE  i - 1 \in DOMAIN q /\ q[i - 1] = queue[i]
      BY <3>2, <1>0, <1>2
    <3> QED
      BY <3>1, <3>2, <1>2
  <2> QED
    BY <2>1, <1>4, <1>5 DEF WriterInv, ClientsOK, Agree
<1>7. PICK n \in 0..Len(admissions) : AdmitsFirst(admissions, q, waiter, n)
  BY <1>2, <1>3, <1>4, Admitted
<1>8. /\ First' = nextSubmission - Len(q)
      /\ \A i, j \in DOMAIN admissions' : admissions'[i] = admissions'[j] => i = j
      /\ \A d \in Commands : waiter'[d] = "waiting" <=> \E i \in DOMAIN admissions' : admissions'[i] = d
      /\ \A d \in Commands : waiter'[d] # "ticket" => submission'[d] = 0 /\ answer'[d] = "none"
      /\ \A i \in DOMAIN queue' : /\ submission'[queue'[i]] = First' + i - 1
                                 /\ waiter'[queue'[i]] = "ticket" /\ answer'[queue'[i]] = "none"
      /\ \A d \in Commands : waiter'[d] = "ticket" => \/ answer'[d] # "none" \/ d = h
                                                       \/ \E i \in DOMAIN queue' : queue'[i] = d
      /\ \A d \in Commands : waiter[d] # "waiting" => submission'[d] = submission[d] /\ waiter'[d] = waiter[d]
      /\ \A d \in Commands : submission[d] # 0 => submission'[d] = submission[d] /\ waiter'[d] = waiter[d]
      /\ Len(admissions') <= Len(admissions)
      /\ admissions = <<>> => admissions' = <<>> /\ writer' \in {writer, "closing"}
  <2>1. /\ q \in Seq(Commands) /\ admissions \in Seq(Commands) /\ answer' = answer
        /\ nextSubmission \in Nat \ {0} /\ Len(q) < nextSubmission
    BY <1>2, <1>3, <1>4
  <2> DEFINE adm == admissions
             w == waiter
  <2>2. /\ n \in 0..Len(adm) /\ Agree(adm, q, w, h) /\ AdmitsFirst(adm, q, w, n)
        /\ adm \in Seq(Commands)
    BY <2>1, <1>6, <1>7
  <2>3. adm = admissions /\ w = waiter
    OBVIOUS
  <2> HIDE DEF adm, w
  <2>4. /\ First' = nextSubmission - Len(q)
        /\ \A i, j \in DOMAIN admissions' : admissions'[i] = admissions'[j] => i = j
        /\ \A d \in Commands : waiter'[d] = "waiting" <=> \E i \in DOMAIN admissions' : admissions'[i] = d
        /\ \A d \in Commands : waiter'[d] # "ticket" => submission'[d] = 0 /\ answer'[d] = "none"
        /\ \A i \in DOMAIN queue' : /\ submission'[queue'[i]] = First' + i - 1
                                   /\ waiter'[queue'[i]] = "ticket" /\ answer'[queue'[i]] = "none"
        /\ \A d \in Commands : waiter'[d] = "ticket" => \/ answer'[d] # "none" \/ d = h
                                                         \/ \E i \in DOMAIN queue' : queue'[i] = d
        /\ \A d \in Commands : w[d] # "waiting" => submission'[d] = submission[d] /\ waiter'[d] = w[d]
        /\ \A d \in Commands : submission[d] # 0 => submission'[d] = submission[d] /\ waiter'[d] = w[d]
        /\ Len(admissions') <= Len(adm)
        /\ adm = <<>> => admissions' = <<>> /\ writer' \in {writer, "closing"}
    BY <2>1, <2>2, AdmissionAgrees
  <2> QED
    BY <2>3, <2>4
<1>9. First' = First + 1
  BY <1>0, <1>2, <1>4, <1>8 DEF First
<1>10. Typed'
  <2>1. nextSubmission' \in 1..(MaxSubmission + 1)
    BY <1>0, <1>4, <1>7 DEF AdmitsFirst
  <2>2. /\ admissions' \in Seq(Commands) /\ queue' \in Seq(Commands) /\ submission' \in [Commands -> Nat]
        /\ DOMAIN waiter' = Commands
    BY <1>7 DEF AdmitsFirst
  <2> QED
    BY <2>1, <2>2, <1>2, <1>3 DEF WriterInv, Typed
<1>11. LifeOK'
  <2>1. writer' = writer \/ (writer' = "closing" /\ admissions' = <<>>)
    BY <1>7 DEF AdmitsFirst
  <2>2. writer # "running" => admissions' = <<>>
    BY <1>8 DEF WriterInv, LifeOK
  <2>3. active' # None
    BY <1>2, <1>3, WriterAssumption
  <2> QED
    BY <2>1, <2>2, <2>3, <1>1, <1>3 DEF WriterInv, LifeOK
<1>12. CountersOK'
  <2>0. m \in Nat /\ m >= 1 /\ nextSubmission \in Nat /\ QueueCapacity \in Nat /\ WaiterCapacity \in Nat /\ n \in Nat
    BY <1>0, <1>2, <1>4
  <2>1. /\ nextSubmission' = nextSubmission + n /\ accepted' = accepted + n
        /\ Len(queue') = m - 1 + n /\ Len(queue') <= QueueCapacity
    BY <1>2, <1>7 DEF AdmitsFirst
  <2>2. InFlight' = 1
    BY <1>2, <1>3, WriterAssumption DEF InFlight
  <2>3. /\ maxQueue' = Max({maxQueue, Len(queue')})
        /\ maxWaiters' = Max({maxWaiters, 0})
        /\ maxResident' = Max({maxResident, Len(queue') + 1})
    BY DEF Take, UpdateHighWaters
  <2>4. maxQueue \in Nat /\ maxWaiters \in Nat /\ maxResident \in Nat
    BY DEF WriterInv, CountersOK
  <2>5. Len(queue') \in Nat /\ Len(queue') + 1 \in Nat
    BY <2>0, <2>1
  <2>6. /\ maxQueue' \in {maxQueue, Len(queue')} /\ maxQueue' >= maxQueue /\ maxQueue' >= Len(queue')
        /\ maxWaiters' \in {maxWaiters, 0} /\ maxWaiters' >= maxWaiters
        /\ maxResident' \in {maxResident, Len(queue') + 1} /\ maxResident' >= maxResident
        /\ maxResident' >= Len(queue') + 1
    BY <2>3, <2>4, <2>5, MaxOfTwo
  <2>7. Len(admissions') <= Len(admissions) /\ Len(admissions') \in Nat /\ Len(admissions) \in Nat
    BY <1>0, <1>7, <1>8, LenProperties DEF AdmitsFirst
  <2>8. /\ accepted = nextSubmission - 1 /\ completed \in Nat /\ completed = accepted - m
        /\ maxQueue <= QueueCapacity /\ maxQueue <= maxResident /\ maxResident <= QueueCapacity + 1
        /\ Len(admissions) <= maxWaiters /\ maxWaiters <= WaiterCapacity
    BY <1>0, <1>1, <1>4 DEF WriterInv, CountersOK
  <2>9. accepted' = nextSubmission' - 1 /\ completed' = accepted' - Len(queue') - InFlight'
    BY <2>0, <2>1, <2>2, <2>8, <1>3
  <2>10. /\ Len(queue') <= maxQueue' /\ maxQueue' <= QueueCapacity /\ maxQueue' <= maxResident'
         /\ Len(queue') + InFlight' <= maxResident' /\ maxResident' <= QueueCapacity + 1
    BY <2>0, <2>1, <2>2, <2>4, <2>5, <2>6, <2>8
  <2>11. Len(admissions') <= maxWaiters' /\ maxWaiters' <= WaiterCapacity
    BY <2>0, <2>4, <2>6, <2>7, <2>8
  <2>12. {maxQueue', maxWaiters', maxResident'} \subseteq Nat
    BY <2>4, <2>5, <2>6
  <2> QED
    BY <2>8, <2>9, <2>10, <2>11, <2>12, <1>3 DEF CountersOK
<1>13. ClientsOK'
  <2>1. ASSUME NEW d \in Commands, client'[d] \in {"idle", "timed_out", "refused"}
        PROVE  waiter'[d] = waiter[d] /\ client'[d] = client[d]
    BY <2>1, <1>3, <1>8 DEF WriterInv, ClientsOK
  <2> QED
    BY <2>1, <1>8 DEF WriterInv, ClientsOK
<1>14. First >= 1 /\ submission'[h] = First /\ waiter'[h] = "ticket"
  BY <1>0, <1>2, <1>5, <1>8, Lengths
<1>15. QueueOK'
  <2>1. First' - 1 = First
    BY <1>0, <1>9
  <2>2. submission'[active'] = First' - 1 /\ waiter'[active'] = "ticket" /\ answer'[active'] = "none"
    BY <2>1, <1>3, <1>5, <1>14
  <2> QED
    BY <2>2, <1>3, <1>8 DEF QueueOK
<1>16. \A c \in Commands : submission[c] # 0 => submission'[c] = submission[c]
  BY <1>8
<1>17. /\ \A i \in DOMAIN log : submission'[log[i]] = submission[log[i]] /\ submission[log[i]] \in 1..(First - 1)
       /\ \A i \in DOMAIN notifications : /\ submission'[notifications[i]] = submission[notifications[i]]
                                          /\ submission[notifications[i]] \in 1..(First - 1)
  <2>1. /\ \A i \in DOMAIN log : log[i] \in Commands /\ submission[log[i]] \in 1..(First - 1)
        /\ \A i \in DOMAIN notifications : notifications[i] \in Commands /\ submission[notifications[i]] \in 1..(First - 1)
    BY Lengths DEF WriterInv, LogOK, NoticesOK
  <2> QED
    BY <2>1, <1>16
<1>18. \A k \in 1..(First - 1) : k < First /\ k \in 1..(First' - 1)
  BY <1>0, <1>9
<1>19. LogOK'
  BY <1>3, <1>14, <1>17, <1>18 DEF WriterInv, LogOK, Rising, After
<1>20. NoticesOK'
  BY <1>3, <1>14, <1>17, <1>18 DEF WriterInv, NoticesOK, Rising, After
<1> QED
  BY <1>10, <1>11, <1>12, <1>13, <1>15, <1>19, <1>20 DEF WriterInv

\* A sequence in the order of identities stays so when the command after all of it is appended.
LEMMA RisingAppend ==
  ASSUME NEW s \in Seq(Commands), active \in Commands, submission \in [Commands -> Nat],
         Rising(s), After(s)
  PROVE  LET r == Append(s, active)
         IN  /\ r \in Seq(Commands) /\ Len(r) = Len(s) + 1 /\ Rising(r)
             /\ \A i \in DOMAIN r : r[i] = active \/ \E j \in DOMAIN s : r[i] = s[j]
             /\ \A j \in DOMAIN s : \E i \in DOMAIN r : r[i] = s[j]
             /\ \E i \in DOMAIN r : r[i] = active
<1> DEFINE r == Append(s, active)
           n == Len(s)
<1>1. n \in Nat /\ DOMAIN s = 1..n
  BY LenProperties
<1>2. /\ r \in Seq(Commands) /\ Len(r) = n + 1 /\ DOMAIN r = 1..(n + 1)
      /\ r[n + 1] = active /\ \A i \in 1..n : r[i] = s[i]
  OBVIOUS
<1> HIDE DEF r
<1>3. \A i \in 1..(n + 1) : i \in 1..n \/ i = n + 1
  BY <1>1
<1>4. n + 1 \in 1..(n + 1) /\ \A i \in 1..n : i \in 1..(n + 1)
  BY <1>1
<1>5. ASSUME NEW i \in DOMAIN r, NEW j \in DOMAIN r, i < j
      PROVE  submission[r[i]] < submission[r[j]]
  <2>1. i \in 1..n /\ (j \in 1..n \/ j = n + 1)
    BY <1>1, <1>2, <1>3, <1>5
  <2> QED
    BY <2>1, <1>1, <1>2, <1>5 DEF Rising, After
<1>6. \A i \in DOMAIN r : r[i] = active \/ \E j \in DOMAIN s : r[i] = s[j]
  BY <1>1, <1>2, <1>3
<1>7. \A j \in DOMAIN s : \E i \in DOMAIN r : r[i] = s[j]
  BY <1>1, <1>2, <1>4
<1>8. \E i \in DOMAIN r : r[i] = active
  BY <1>2, <1>4
<1> QED
  BY <1>2, <1>5, <1>6, <1>7, <1>8 DEF Rising, r

\* A step of a transaction answers at most the active command.
LEMMA TransactionFrame ==
  ASSUME WriterInv, thread \in {"execute", "resolve"}, thread' \in {"execute", "resolve", "finish", "fatal"},
         UNCHANGED <<writer, admissions, queue, active, clients, counters>>,
         NEW o, answer' = IF thread' \in {"finish", "fatal"} THEN [answer EXCEPT ![active] = o] ELSE answer,
         o # "none", log' \in Seq(Commands), notifications' \in Seq(Commands), mutated' \in BOOLEAN
  PROVE  Typed' /\ LifeOK' /\ CountersOK' /\ ClientsOK' /\ QueueOK'
<1>1. /\ active # None /\ active \in Commands /\ submission[active] = First - 1 /\ First \in Nat
      /\ waiter[active] = "ticket" /\ DOMAIN answer = Commands
      /\ \A i \in DOMAIN queue : queue[i] \in Commands
  BY Lengths DEF WriterInv, LifeOK, QueueOK, Typed
<1>2. /\ \A c \in Commands : c # active => answer'[c] = answer[c]
      /\ answer'[active] = IF thread' \in {"finish", "fatal"} THEN o ELSE answer[active]
      /\ DOMAIN answer' = Commands
  BY <1>1
<1>3. First' = First /\ InFlight' = InFlight
  BY DEF First, InFlight, counters
<1>4. Typed' /\ LifeOK'
  BY <1>1, <1>2 DEF WriterInv, Typed, LifeOK, clients, counters
<1>5. CountersOK'
  BY <1>3 DEF WriterInv, CountersOK, clients, counters
<1>6. ClientsOK'
  BY <1>1, <1>2 DEF WriterInv, ClientsOK, clients
<1>7. \A i \in DOMAIN queue : queue[i] # active
  <2>1. \A i \in DOMAIN queue : i \in Nat \ {0} /\ submission[queue[i]] = First + i - 1
    BY Lengths DEF WriterInv, QueueOK
  <2> QED
    BY <2>1, <1>1
<1>8. answer[active] = "none"
  BY DEF WriterInv, QueueOK
<1>9. QueueOK'
  BY <1>1, <1>2, <1>3, <1>7, <1>8 DEF WriterInv, QueueOK, clients
<1> QED
  BY <1>4, <1>5, <1>6, <1>9

\* Commands are executed, and what is answered agrees with what was committed.
LEMMA TransactionInv ==
  ASSUME WriterInv, Contend \/ ExecuteFails \/ Commit \/ CommitRaises \/ ResolveReceipt
  PROVE  WriterInv'
<1>0. thread \in {"execute", "resolve"} /\ UNCHANGED <<writer, admissions, queue, active, clients, counters>>
  BY DEF Contend, ExecuteFails, Commit, CommitRaises, ResolveReceipt
<1>1. /\ active # None /\ active \in Commands /\ submission[active] = First - 1 /\ submission[active] # 0
      /\ First \in Nat /\ answer[active] = "none" /\ DOMAIN answer = Commands
      /\ submission \in [Commands -> Nat]
      /\ log \in Seq(Commands) /\ notifications \in Seq(Commands) /\ mutated \in BOOLEAN
      /\ First - 1 \in 1..(First - 1)
  <2>1. /\ active # None /\ active \in Commands /\ submission[active] = First - 1
        /\ answer[active] = "none" /\ DOMAIN answer = Commands /\ submission \in [Commands -> Nat]
        /\ log \in Seq(Commands) /\ notifications \in Seq(Commands) /\ mutated \in BOOLEAN
    BY <1>0, Lengths DEF WriterInv, LifeOK, QueueOK, Typed
  <2>2. First \in Nat /\ submission[active] # 0
    BY <2>1, Lengths
  <2>3. First - 1 \in Nat /\ First - 1 # 0
    BY <2>1, <2>2
  <2>4. First - 1 \in 1..(First - 1)
    BY <2>2, <2>3
  <2> QED
    BY <2>1, <2>2, <2>4
<1>2. \A i \in DOMAIN log : log[i] \in Commands
  BY Lengths
<1>3. UNCHANGED <<submission, nextSubmission>> /\ First' = First
  BY <1>0 DEF clients, counters, First
<1>4. thread = "execute" => \A i \in DOMAIN log : log[i] # active
  BY <1>1, <1>2 DEF WriterInv, LogOK, After
<1>5. /\ \A i \in DOMAIN notifications : notifications[i] # active
      /\ \A i \in DOMAIN notifications : notifications[i] \in Commands
  BY <1>1, Lengths DEF WriterInv, NoticesOK
\* What notifications tell when none is added.
<1>6. ASSUME UNCHANGED notifications, \A c \in Commands : c # active => answer'[c] = answer[c]
      PROVE  NoticesOK'
  BY <1>0, <1>1, <1>3, <1>5, <1>6 DEF WriterInv, NoticesOK, Rising, After, clients
\* What the log tells when the answer o is given.
<1>7. ASSUME UNCHANGED log, NEW o, answer' = [answer EXCEPT ![active] = o], thread' \in {"finish", "fatal"},
             o = "receipt" => \E i \in DOMAIN log : log[i] = active,
             o \in {"domain_error", "failed", "not_executed", "replay"} => \A i \in DOMAIN log : log[i] # active
      PROVE  LogOK'
  <2>1. answer'[active] = o /\ \A c \in Commands : c # active => answer'[c] = answer[c]
    BY <1>1, <1>7
  <2>2. Rising(log)' /\ \A i \in DOMAIN log : submission'[log[i]] \in 1..(First' - 1)
    BY <1>3, <1>7 DEF WriterInv, LogOK, Rising
  <2>3. \A c \in Commands : answer'[c] = "receipt" => \E i \in DOMAIN log : log[i] = c
    BY <1>7, <2>1 DEF WriterInv, LogOK
  <2>4. \A i \in DOMAIN log : answer'[log[i]] \notin {"domain_error", "failed", "not_executed", "replay"}
    BY <1>2, <1>7, <2>1 DEF WriterInv, LogOK
  <2> QED
    BY <1>7, <2>2, <2>3, <2>4 DEF LogOK
\* What the log tells when the active command has been committed.
<1>8. ASSUME thread = "execute", log' = Append(log, active), thread' \in {"resolve", "fatal"},
             thread' = "resolve" => mutated',
             answer'[active] \in {"none", "unknown"}, \A c \in Commands : c # active => answer'[c] = answer[c]
      PROVE  LogOK' /\ log' \in Seq(Commands)
  <2>1. Rising(log) /\ After(log)
    BY <1>8 DEF WriterInv, LogOK
  <2>2. /\ log' \in Seq(Commands)
        /\ \A i, j \in DOMAIN log' : i < j => submission[log'[i]] < submission[log'[j]]
        /\ \A i \in DOMAIN log' : log'[i] = active \/ \E j \in DOMAIN log : log'[i] = log[j]
        /\ \A j \in DOMAIN log : \E i \in DOMAIN log' : log'[i] = log[j]
        /\ \E i \in DOMAIN log' : log'[i] = active
    <3> DEFINE r == Append(log, active)
    <3>1. /\ r \in Seq(Commands) /\ Rising(r)
          /\ \A i \in DOMAIN r : r[i] = active \/ \E j \in DOMAIN log : r[i] = log[j]
          /\ \A j \in DOMAIN log : \E i \in DOMAIN r : r[i] = log[j]
          /\ \E i \in DOMAIN r : r[i] = active
      BY <2>1, <1>1, RisingAppend
    <3>2. log' = r
      BY <1>8
    <3> HIDE DEF r
    <3> QED
      BY <3>1, <3>2 DEF Rising
  <2>3. Rising(log)'
    BY <2>2, <1>3 DEF Rising
  <2>4. \A i \in DOMAIN log' : submission'[log'[i]] \in 1..(First' - 1)
    BY <2>2, <1>1, <1>3 DEF WriterInv, LogOK
  <2>5. \A c \in Commands : answer'[c] = "receipt" => \E i \in DOMAIN log' : log'[i] = c
    BY <2>2, <1>8 DEF WriterInv, LogOK
  <2>6. \A i \in DOMAIN log' : answer'[log'[i]] \notin {"domain_error", "failed", "not_executed", "replay"}
    <3> SUFFICES ASSUME NEW i \in DOMAIN log'
                 PROVE  answer'[log'[i]] \notin {"domain_error", "failed", "not_executed", "replay"}
      OBVIOUS
    <3>1. CASE log'[i] = active
      BY <3>1, <1>8
    <3>2. CASE log'[i] # active
      <4>1. PICK j \in DOMAIN log : log'[i] = log[j]
        BY <3>2, <2>2
      <4> QED
        BY <4>1, <3>2, <1>2, <1>8 DEF WriterInv, LogOK
    <3> QED
      BY <3>1, <3>2
  <2>7. thread' = "resolve" => (mutated' <=> \E i \in DOMAIN log' : log'[i] = active')
    BY <2>2, <1>0, <1>8
  <2> QED
    BY <2>2, <2>3, <2>4, <2>5, <2>6, <2>7, <1>8 DEF LogOK
<1>9. CASE Contend
  <2>1. CASE UNCHANGED <<thread, answer>>
    <3>1. Typed' /\ LifeOK' /\ CountersOK' /\ ClientsOK' /\ QueueOK'
      BY <2>1, <1>0, <1>1, <1>9, TransactionFrame DEF Contend
    <3>2. LogOK'
      BY <2>1, <1>0, <1>3, <1>9 DEF Contend, WriterInv, LogOK, Rising, After
    <3> QED
      BY <2>1, <3>1, <3>2, <1>6, <1>9 DEF Contend, WriterInv
  <2>2. CASE Resolve("failed") /\ Executed(TRUE)
    <3>1. answer' = [answer EXCEPT ![active] = "failed"] /\ thread' = "fatal" /\ thread = "execute"
          /\ UNCHANGED <<log, notifications, mutated>>
      BY <2>2, <1>1, <1>9 DEF Resolve, Executed, Contend
    <3>2. Typed' /\ LifeOK' /\ CountersOK' /\ ClientsOK' /\ QueueOK'
      BY <3>1, <1>0, <1>1, TransactionFrame
    <3> QED
      BY <3>1, <3>2, <1>1, <1>4, <1>6, <1>7 DEF WriterInv
  <2> QED
    BY <1>9, <2>1, <2>2 DEF Contend
<1>10. CASE ExecuteFails
  <2>1. PICK o \in {"domain_error", "failed"} : answer' = [answer EXCEPT ![active] = o]
    BY <1>1, <1>10 DEF ExecuteFails, Resolve
  <2>2. thread' \in {"finish", "fatal"} /\ thread = "execute" /\ UNCHANGED <<log, notifications, mutated>>
    BY <1>10 DEF ExecuteFails, Executed
  <2>3. Typed' /\ LifeOK' /\ CountersOK' /\ ClientsOK' /\ QueueOK'
    BY <2>1, <2>2, <1>0, <1>1, TransactionFrame
  <2> QED
    BY <2>1, <2>2, <2>3, <1>1, <1>4, <1>6, <1>7 DEF WriterInv
<1>11. CASE Commit
  <2>1. thread = "execute" /\ thread' = "resolve" /\ UNCHANGED <<answer, notifications>> /\ mutated' \in BOOLEAN
    BY <1>11 DEF Commit
  <2>2. LogOK' /\ log' \in Seq(Commands)
    <3>1. CASE mutated'
      BY <3>1, <2>1, <1>1, <1>8, <1>11 DEF Commit
    <3>2. CASE ~mutated'
      BY <3>2, <2>1, <1>0, <1>1, <1>3, <1>4, <1>11 DEF Commit, WriterInv, LogOK, Rising
    <3> QED
      BY <3>1, <3>2
  <2>3. Typed' /\ LifeOK' /\ CountersOK' /\ ClientsOK' /\ QueueOK'
    BY <2>1, <2>2, <1>0, <1>1, TransactionFrame
  <2> QED
    BY <2>1, <2>2, <2>3, <1>6 DEF WriterInv
<1>12. CASE CommitRaises
  <2>1. /\ answer' = [answer EXCEPT ![active] = "unknown"] /\ thread' = "fatal" /\ thread = "execute"
        /\ UNCHANGED <<notifications, mutated>>
    BY <1>1, <1>12 DEF CommitRaises, Resolve, Executed
  <2>2. LogOK' /\ log' \in Seq(Commands)
    <3>1. CASE log' = log
      BY <3>1, <2>1, <1>1, <1>7
    <3>2. CASE log' = Append(log, active)
      BY <3>2, <2>1, <1>1, <1>8
    <3> QED
      BY <3>1, <3>2, <1>12 DEF CommitRaises
  <2>3. Typed' /\ LifeOK' /\ CountersOK' /\ ClientsOK' /\ QueueOK'
    BY <2>1, <2>2, <1>0, <1>1, TransactionFrame
  <2> QED
    BY <2>1, <2>2, <2>3, <1>1, <1>6 DEF WriterInv
<1>13. CASE ResolveReceipt
  <2> DEFINE o == IF mutated THEN "receipt" ELSE "replay"
  <2>1. /\ answer' = [answer EXCEPT ![active] = o] /\ thread' \in {"finish", "fatal"} /\ thread = "resolve"
        /\ UNCHANGED <<log, mutated>>
    BY <1>1, <1>13 DEF ResolveReceipt, Resolve, Executed
  <2>2. LogOK'
    BY <2>1, <1>7 DEF WriterInv, LogOK
  <2>3. answer'[active] = o /\ \A c \in Commands : c # active => answer'[c] = answer[c]
    BY <2>1, <1>1
  <2>4. NoticesOK' /\ notifications' \in Seq(Commands)
    <3>1. CASE UNCHANGED notifications
      BY <3>1, <2>3, <1>1, <1>6
    <3>2. CASE mutated /\ Len(notifications) < NotificationCapacity /\ notifications' = Append(notifications, active)
      <4> DEFINE r == Append(notifications, active)
      <4>1. Rising(notifications) /\ After(notifications) /\ Len(notifications) \in Nat /\ NotificationCapacity \in Nat
        BY <2>1, Lengths DEF WriterInv, NoticesOK
      <4>2. /\ r \in Seq(Commands) /\ Rising(r) /\ Len(r) = Len(notifications) + 1
            /\ \A i \in DOMAIN r : r[i] = active \/ \E j \in DOMAIN notifications : r[i] = notifications[j]
        BY <4>1, <1>1, RisingAppend
      <4>3. notifications' = r
        BY <3>2
      <4> HIDE DEF r
      <4>4. Rising(notifications)' /\ Len(notifications') <= NotificationCapacity
        BY <3>2, <4>1, <4>2, <4>3, <1>3 DEF Rising
      <4>5. ASSUME NEW i \in DOMAIN r
            PROVE  answer'[r[i]] = "receipt" /\ submission'[r[i]] \in 1..(First' - 1)
        <5>1. CASE r[i] = active
          BY <5>1, <3>2, <2>3, <1>1, <1>3
        <5>2. ASSUME NEW j \in DOMAIN notifications, r[i] = notifications[j]
              PROVE  answer'[r[i]] = "receipt" /\ submission'[r[i]] \in 1..(First' - 1)
          BY <5>2, <2>3, <1>3, <1>5 DEF WriterInv, NoticesOK
        <5> QED
          BY <5>1, <5>2, <4>2
      <4> QED
        BY <4>2, <4>3, <4>4, <4>5, <2>1 DEF NoticesOK
    <3> QED
      BY <3>1, <3>2, <1>13 DEF ResolveReceipt, Offer
  <2>5. Typed' /\ LifeOK' /\ CountersOK' /\ ClientsOK' /\ QueueOK'
    BY <2>1, <2>4, <1>0, <1>1, TransactionFrame
  <2> QED
    BY <2>2, <2>4, <2>5 DEF WriterInv
<1> QED
  BY <1>9, <1>10, <1>11, <1>12, <1>13

\* The outcome is counted and the thread is free again.
LEMMA FinishInv ==
  ASSUME WriterInv, Finish
  PROVE  WriterInv'
<1>1. /\ thread = "finish" /\ thread' = "wait" /\ active' = None /\ completed' = completed + 1
      /\ UNCHANGED <<writer, admissions, queue, mutated, waiter, client, submission, answer, log, notifications,
                     nextSubmission, accepted, maxQueue, maxWaiters, maxResident>>
  BY DEF Finish, clients
<1>2. active # None /\ answer[active] # "none" /\ First' = First
  BY <1>1 DEF WriterInv, LifeOK, QueueOK, First
<1>3. Typed' /\ LifeOK' /\ ClientsOK'
  BY <1>1 DEF WriterInv, Typed, LifeOK, ClientsOK
<1>4. CountersOK'
  <2>1. InFlight = 1 /\ InFlight' = 0
    BY <1>1, <1>2 DEF InFlight
  <2>2. /\ accepted \in Int /\ completed \in Nat /\ Len(queue) \in Nat /\ maxResident \in Nat
        /\ completed = accepted - Len(queue) - 1 /\ Len(queue) + 1 <= maxResident
    <3>1. nextSubmission \in Int
      BY WriterAssumption DEF WriterInv, Typed
    <3> QED
      BY <2>1, <3>1, Lengths DEF WriterInv, CountersOK
  <2>3. completed' \in Nat /\ completed' = accepted - Len(queue) - 0 /\ Len(queue) + 0 <= maxResident
    BY <1>1, <2>2
  <2> QED
    BY <1>1, <2>1, <2>3 DEF WriterInv, CountersOK
<1>5. QueueOK'
  BY <1>1, <1>2 DEF WriterInv, QueueOK
<1>6. LogOK' /\ NoticesOK'
  BY <1>1, <1>2 DEF WriterInv, LogOK, NoticesOK, Rising
<1> QED
  BY <1>3, <1>4, <1>5, <1>6 DEF WriterInv

\* After a fatal execution, or a failure of the loop, everybody is told.
LEMMA FinishFatalInv ==
  ASSUME WriterInv, FinishFatal
  PROVE  WriterInv'
<1> DEFINE InQueue(c) == \E i \in DOMAIN queue : queue[i] = c
<1>1. /\ thread \in {"fatal", "resolve"} /\ thread' = "done" /\ writer' = "failed" /\ active' = None
      /\ completed' = completed + 1 + Len(queue) /\ queue' = <<>> /\ RejectAdmissions
      /\ UNCHANGED <<mutated, client, submission, log, notifications, nextSubmission, accepted,
                     maxQueue, maxWaiters, maxResident>>
  BY DEF FinishFatal
<1>2. /\ active # None /\ active \in Commands /\ First \in Nat /\ Len(queue) \in Nat
      /\ waiter[active] = "ticket" /\ DOMAIN answer = Commands
      /\ \A i \in DOMAIN queue : queue[i] \in Commands /\ i \in Nat /\ i >= 1
      /\ nextSubmission \in Nat /\ First = nextSubmission - Len(queue)
  <2>1. /\ active # None /\ active \in Commands /\ First \in Nat /\ Len(queue) \in Nat
        /\ \A i \in DOMAIN queue : queue[i] \in Commands /\ i \in Nat /\ i >= 1
        /\ MaxSubmission \in Nat
    BY <1>1, Lengths DEF WriterInv, LifeOK
  <2>2. waiter[active] = "ticket" /\ DOMAIN answer = Commands
    BY <2>1 DEF WriterInv, QueueOK, Typed
  <2>3. nextSubmission \in Nat /\ First = nextSubmission - Len(queue)
    BY <2>1 DEF WriterInv, Typed, First
  <2> QED
    BY <2>1, <2>2, <2>3
<1>3. /\ DOMAIN answer' = Commands
      /\ \A c \in Commands : InQueue(c) => answer'[c] = "not_executed"
      /\ \A c \in Commands : ~InQueue(c) /\ c # active => answer'[c] = answer[c]
      /\ ~InQueue(active) => answer'[active] = IF thread = "fatal" THEN answer[active] ELSE "lifecycle"
  <2>1. \A c \in Commands : c \in ToSet(queue) <=> InQueue(c)
    BY DEF ToSet
  <2>2. CASE thread = "fatal" /\ FailQueued(answer)
    BY <2>1, <2>2, <1>2 DEF FailQueued
  <2>3. CASE thread = "resolve" /\ FailQueued([answer EXCEPT ![active] = "lifecycle"])
    BY <2>1, <2>3, <1>2 DEF FailQueued
  <2> QED
    BY <2>2, <2>3 DEF FinishFatal
<1>4. \A c \in Commands : InQueue(c) => waiter[c] = "ticket" /\ answer[c] = "none" /\ submission[c] >= First
  <2>1. ASSUME NEW i \in DOMAIN queue
        PROVE  /\ waiter[queue[i]] = "ticket" /\ answer[queue[i]] = "none"
               /\ submission[queue[i]] = First + i - 1
    BY DEF WriterInv, QueueOK
  <2>2. \A i \in DOMAIN queue : First + i - 1 >= First
    BY <1>2
  <2> QED
    BY <2>1, <2>2
<1>5. ~InQueue(active)
  <2>1. submission[active] = First - 1 /\ ~(First - 1 >= First)
    BY <1>2 DEF WriterInv, QueueOK
  <2> QED
    BY <2>1, <1>2, <1>4
<1>6. \A c \in Commands : waiter[c] # "ticket" => answer'[c] = answer[c]
  BY <1>2, <1>3, <1>4
<1>7. /\ ClientsOK' /\ admissions' = <<>> /\ admissions' \in Seq(Commands) /\ Len(admissions') = 0
      /\ DOMAIN waiter' = Commands
      /\ \A c \in Commands : waiter'[c] = "ticket" <=> waiter[c] = "ticket"
  BY <1>1, <1>6, Rejects
<1>8. /\ queue' \in Seq(Commands) /\ Len(queue') = 0 /\ DOMAIN queue' = {} /\ First' = nextSubmission
  <2>1. queue' \in Seq(Commands) /\ Len(queue') = 0 /\ DOMAIN queue' = {}
    BY <1>1, EmptySeq
  <2> QED
    BY <2>1, <1>1, <1>2 DEF First
<1>9. Typed' /\ LifeOK'
  BY <1>1, <1>3, <1>7, <1>8 DEF WriterInv, Typed, LifeOK
<1>10. CountersOK'
  <2>1. InFlight = 1 /\ InFlight' = 0
    BY <1>1, <1>2 DEF InFlight
  <2>2. /\ accepted = nextSubmission - 1 /\ completed \in Nat /\ completed = accepted - Len(queue) - 1
        /\ maxQueue \in Nat /\ maxWaiters \in Nat /\ maxResident \in Nat
    BY <2>1 DEF WriterInv, CountersOK
  <2>3. /\ completed' \in Nat /\ completed' = accepted - 0 - 0
        /\ 0 <= maxQueue /\ 0 <= maxWaiters /\ 0 + 0 <= maxResident
    BY <2>2, <1>1, <1>2
  <2> QED
    BY <2>1, <2>2, <2>3, <1>1, <1>7, <1>8 DEF WriterInv, CountersOK
<1>11. QueueOK'
  <2>1. ASSUME NEW c \in Commands, waiter'[c] = "ticket"
        PROVE  answer'[c] # "none"
    <3>1. CASE InQueue(c)
      BY <3>1, <1>3
    <3>2. CASE c = active
      BY <3>2, <1>1, <1>3, <1>5 DEF WriterInv, QueueOK
    <3>3. CASE ~InQueue(c) /\ c # active
      BY <3>3, <2>1, <1>3, <1>7 DEF WriterInv, QueueOK
    <3> QED
      BY <3>1, <3>2, <3>3
  <2> QED
    BY <2>1, <1>1, <1>8 DEF QueueOK
<1>12. \A k \in 1..(First - 1) : k \in 1..(First' - 1) /\ ~(k >= First)
  BY <1>2, <1>8
<1>13. \A i \in DOMAIN log : log[i] \in Commands /\ submission[log[i]] \in 1..(First - 1) /\ ~InQueue(log[i])
  <2>1. \A i \in DOMAIN log : log[i] \in Commands /\ submission[log[i]] \in 1..(First - 1)
    BY Lengths DEF WriterInv, LogOK
  <2> QED
    BY <2>1, <1>4, <1>12
<1>14. LogOK'
  <2>1. \A c \in Commands : answer'[c] = "receipt" => answer[c] = "receipt"
    BY <1>1, <1>3, <1>5
  <2>2. \A i \in DOMAIN log : answer'[log[i]] \in {answer[log[i]], "lifecycle"}
    BY <1>3, <1>13
  <2>3. \A i \in DOMAIN log : answer'[log[i]] \notin {"domain_error", "failed", "not_executed", "replay"}
    BY <2>2 DEF WriterInv, LogOK
  <2> QED
    BY <2>1, <2>3, <1>1, <1>12, <1>13 DEF WriterInv, LogOK, Rising
<1>15. NoticesOK'
  <2>1. \A i \in DOMAIN notifications : /\ notifications[i] \in Commands /\ answer[notifications[i]] = "receipt"
                                        /\ submission[notifications[i]] \in 1..(First - 1)
    BY Lengths DEF WriterInv, NoticesOK
  <2>2. thread = "resolve" => answer[active] = "none"
    BY DEF WriterInv, QueueOK
  <2>3. \A i \in DOMAIN notifications : answer'[notifications[i]] = "receipt"
    <3> SUFFICES ASSUME NEW i \in DOMAIN notifications PROVE answer'[notifications[i]] = "receipt"
      OBVIOUS
    <3>1. ~InQueue(notifications[i])
      BY <2>1, <1>4
    <3>2. CASE notifications[i] = active
      BY <3>2, <2>1, <2>2, <1>1, <1>3, <1>5
    <3>3. CASE notifications[i] # active
      BY <3>1, <3>3, <2>1, <1>3
    <3> QED
      BY <3>2, <3>3
  <2> QED
    BY <2>1, <2>3, <1>1, <1>12 DEF WriterInv, NoticesOK, Rising
<1> QED
  BY <1>7, <1>9, <1>10, <1>11, <1>14, <1>15 DEF WriterInv

\* Nothing changes in a stuttering step.
LEMMA StutterInv == WriterInv /\ UNCHANGED vars => WriterInv'
  BY DEF vars, clients, counters, WriterInv, Typed, LifeOK, CountersOK, ClientsOK, QueueOK, LogOK, NoticesOK,
         Rising, After, First, InFlight

\* Every step keeps the invariant.
LEMMA NextInv == WriterInv /\ [Next]_vars => WriterInv'
<1> SUFFICES ASSUME WriterInv, [Next]_vars PROVE WriterInv'
  OBVIOUS
<1>1. CASE UNCHANGED vars
  BY <1>1, StutterInv
<1>2. ASSUME NEW c \in Commands, Submit(c) \/ SubmitRefused(c) \/ SubmitDeadline(c) \/ ClientStep(c)
      PROVE  WriterInv'
  BY <1>2, SubmitInv, ClientInv
<1>3. CASE Start \/ Close \/ TakeNotification
  BY <1>3, LifecycleInv
<1>4. CASE ThreadStep
  BY <1>4, TakeInv, LifecycleInv, TransactionInv, FinishInv, FinishFatalInv DEF ThreadStep
<1> QED
  BY <1>1, <1>2, <1>3, <1>4 DEF Next

------------------------------------------------------------------------------
(* The theorems.                                                           *)

\* The writer's line, queue, tickets, counters and log agree in every state its lock can be
\* taken in.
THEOREM WriterInvariant == Spec => []WriterInv
  BY InitInv, NextInv, PTL DEF Spec

\* snapshot never raises: the accounting and the high-water marks that its diagnostics
\* validate agree, for any capacities.
THEOREM DiagnosticsAlwaysCoherent == Spec => []DiagnosticsCoherent
<1>1. WriterInv => DiagnosticsCoherent
  <2> SUFFICES ASSUME WriterInv PROVE DiagnosticsCoherent
    OBVIOUS
  <2>1. accepted = completed + Len(queue) + InFlight
    <3>1. nextSubmission \in Int /\ Len(queue) \in Nat /\ InFlight \in 0..1
      BY Lengths DEF WriterInv, Typed
    <3> QED
      BY <3>1 DEF WriterInv, CountersOK
  <2> QED
    BY <2>1 DEF WriterInv, CountersOK, DiagnosticsCoherent
<1> QED
  BY <1>1, WriterInvariant, PTL

\* Answers tell the truth: a command refused or timed out never runs, a receipt means committed
\* changes, and an answer that promises that nothing happened means that nothing did.
THEOREM AnswersAreTrue == Spec => []AnswersTellTruth
<1>1. WriterInv => AnswersTellTruth
  <2> SUFFICES ASSUME WriterInv PROVE AnswersTellTruth
    OBVIOUS
  <2>1. RefusedNeverRuns
    <3> SUFFICES ASSUME NEW c \in Commands, client[c] \in {"idle", "refused", "timed_out"}
                 PROVE  /\ c \notin ToSet(queue) \cup ToSet(admissions) \cup ToSet(log) /\ active # c
                        /\ answer[c] = "none" /\ submission[c] = 0
      BY DEF RefusedNeverRuns
    <3>1. waiter[c] \in {"none", "error"} /\ answer[c] = "none" /\ submission[c] = 0
      BY DEF WriterInv, ClientsOK
    <3>2. c \notin ToSet(queue) /\ active # c
      BY <3>1, WriterAssumption DEF WriterInv, QueueOK, ToSet
    <3>3. c \notin ToSet(admissions)
      BY <3>1 DEF WriterInv, ClientsOK, ToSet
    <3>4. c \notin ToSet(log)
      BY <3>1, Lengths DEF WriterInv, LogOK, ToSet
    <3> QED
      BY <3>1, <3>2, <3>3, <3>4
  <2>2. \A c \in Commands : c \in ToSet(log) <=> \E i \in DOMAIN log : log[i] = c
    BY DEF ToSet
  <2> QED
    BY <2>1, <2>2 DEF WriterInv, LogOK, AnswersTellTruth
<1> QED
  BY <1>1, WriterInvariant, PTL

\* Commands commit at most once and in the order of their identities; notifications are of
\* acknowledged commits, in the same order, and within the buffer's capacity.
THEOREM NotificationsTellCommits == Spec => []NotificationsFollowCommits
<1>1. WriterInv => NotificationsFollowCommits
  BY DEF WriterInv, LogOK, NoticesOK, Rising, NotificationsFollowCommits
<1> QED
  BY <1>1, WriterInvariant, PTL

\* A thread that ended, after a drain or a failure, left nobody waiting: every admitted command
\* has its answer and every waiter its error.
THEOREM NobodyIsLeft == Spec => []StoppedLeavesNobody
<1>1. WriterInv => StoppedLeavesNobody
  <2> SUFFICES ASSUME WriterInv, thread = "done" PROVE StoppedLeavesNobody
    BY DEF StoppedLeavesNobody
  <2>1. queue = <<>> /\ admissions = <<>> /\ active = None
    BY DEF WriterInv, LifeOK
  <2>2. Len(queue) = 0 /\ DOMAIN queue = {} /\ DOMAIN admissions = {}
    BY <2>1
  <2>3. accepted = completed
    <3>1. nextSubmission \in Int /\ InFlight = 0
      BY <2>1 DEF WriterInv, Typed, InFlight
    <3> QED
      BY <2>2, <3>1 DEF WriterInv, CountersOK
  <2>4. \A c \in Commands : waiter[c] # "waiting" /\ (waiter[c] = "ticket" => answer[c] # "none")
    BY <2>1, <2>2, WriterAssumption DEF WriterInv, ClientsOK, QueueOK
  <2> QED
    BY <2>1, <2>3, <2>4 DEF StoppedLeavesNobody
<1> QED
  BY <1>1, WriterInvariant, PTL
=============================================================================
