---------------------------- MODULE ServerProofs -----------------------------
(***************************************************************************)
(* Proofs about the two state machines of the MCP server: QueryPool, for   *)
(* any finite set of worker handles, any number of calls and any sizes and *)
(* budgets; and ProjectLifecycle with WriterLock, for any set of           *)
(* processes, any of them daemons, and any number of leases and faults.    *)
(***************************************************************************)
EXTENDS ProjectLifecycle, QueryPool, FiniteSetTheorems, SequenceTheorems, TLAPS

-----------------------------------------------------------------------------
(* The query pool.  The books are stated for a pool p beside the mail m,   *)
(* when n calls were made, but for the calls js about to be settled.       *)

GoodPool(p, m, n, js) ==
    p \in PoolRecord /\ Cardinality(p.workers) <= MaxSize /\ BooksAgree(p, m, n, js)

\* Calls are only answered from p to q, and only open ones.
OnlyAnswers(p, q) ==
    \A j \in Job : q.answers[j] # p.answers[j] => p.answers[j] = 0 /\ q.answers[j] = 1

\* The handles that count as fresh have no mail in m.
FreshIsEmpty(m) == \A w \in Worker : mail[w] = << >> => m[w] = << >>

\* Min() of two and of three integers.
LEMMA MinOfTwo ==
    ASSUME NEW a \in Int, NEW b \in Int
    PROVE  /\ Min({a, b}) \in {a, b} /\ Min({a, b}) <= a /\ Min({a, b}) <= b
<1>1. \E x \in {a, b} : \A y \in {a, b} : x <= y
  OBVIOUS
<1> QED
  BY <1>1 DEF Min

LEMMA MinOfThree ==
    ASSUME NEW a \in Int, NEW b \in Int, NEW c \in Int
    PROVE  /\ Min({a, b, c}) \in {a, b, c} /\ Min({a, b, c}) <= a
           /\ Min({a, b, c}) <= b /\ Min({a, b, c}) <= c
<1>1. \E x \in {a, b, c} : \A y \in {a, b, c} : x <= y
  OBVIOUS
<1> QED
  BY <1>1 DEF Min

\* What the constants are.
LEMMA PoolSizes ==
    /\ MaxJobs \in Nat /\ WarmFloor \in Nat /\ CrashBudget \in Nat /\ MaxRetries \in Nat
    /\ MaxSize \in Nat \ {0} /\ ColdSpawn \in Nat \ {0} /\ WarmSpawn \in Nat \ {0}
    /\ WarmFloor <= MaxSize /\ \A j \in Job : j \in Nat /\ j # NoCall
  BY SizeAssumption DEF Job, NoCall

\* Spawning new workers ws keeps the books.
LEMMA SpawnedKeeps ==
    ASSUME NEW p, NEW m, NEW n, NEW js, NEW ws, NEW f \in Nat, GoodPool(p, m, n, js),
           FreshIsEmpty(m), ws \subseteq Fresh(p),
           Cardinality(p.workers) + Cardinality(ws) <= MaxSize
    PROVE  /\ GoodPool(Spawned(p, ws, f), m, n, js)
           /\ Spawned(p, ws, f).queue = p.queue /\ Spawned(p, ws, f).idle = p.idle
           /\ Spawned(p, ws, f).answers = p.answers
<1> DEFINE q == Spawned(p, ws, f)
           newThread == [w \in Worker |-> IF w \in ws THEN "starting" ELSE p.thread[w]]
<1>1. p \in PoolRecord /\ ws \subseteq Worker
  BY DEF GoodPool, Fresh
<1>2. /\ p.workers \cup ws \in SUBSET Worker /\ p.pending \cup ws \in SUBSET Worker
      /\ p.starts \cup ws \in SUBSET Worker /\ p.crashes + f \in Nat
      /\ newThread \in [Worker -> Thread]
  BY <1>1 DEF PoolRecord, Thread
<1>3. \A w \in Worker : newThread[w] = IF w \in ws THEN "starting" ELSE p.thread[w]
  OBVIOUS
<1>4. q = [p EXCEPT !.workers = p.workers \cup ws, !.pending = p.pending \cup ws,
                    !.starts = p.starts \cup ws, !.crashes = p.crashes + f,
                    !.thread = newThread]
  BY DEF Spawned
<1> HIDE DEF q, newThread
<1>5. /\ q \in PoolRecord /\ q.idle = p.idle /\ q.queue = p.queue /\ q.inflight = p.inflight
      /\ q.workers = p.workers \cup ws /\ q.pending = p.pending \cup ws
      /\ q.answers = p.answers /\ q.thread = newThread
  BY <1>1, <1>2, <1>4 DEF PoolRecord
<1>6. Cardinality(q.workers) <= MaxSize
  <2>1. IsFiniteSet(p.workers) /\ IsFiniteSet(ws)
    BY <1>1, WorkerAssumption, FS_Subset DEF PoolRecord
  <2>2. IsFiniteSet(p.workers \cap ws)
    BY <2>1, FS_Subset
  <2>3. /\ Cardinality(p.workers) \in Nat /\ Cardinality(ws) \in Nat
        /\ Cardinality(p.workers \cap ws) \in Nat
    BY <2>1, <2>2, FS_CardinalityType
  <2>4. Cardinality(p.workers \cup ws) =
          Cardinality(p.workers) + Cardinality(ws) - Cardinality(p.workers \cap ws)
    BY <2>1, FS_Union
  <2> QED
    BY <1>5, <2>3, <2>4, PoolSizes
<1>7. \A w \in ws : w \notin p.workers /\ m[w] = << >>
  BY <1>1 DEF Fresh, FreshIsEmpty
<1>8. IdleIsFree(q) /\ BusyIsOwned(q) /\ NoneIsLost(q)
  BY <1>5, <1>7 DEF GoodPool, BooksAgree, IdleIsFree, BusyIsOwned, NoneIsLost
<1>9. QueueWaits(q) /\ CallsAreHeld(q, n, js)
  BY <1>5 DEF GoodPool, BooksAgree, QueueWaits, CallsAreHeld, Held, Settled
<1>10. ResultIsAwaited(q, m)
  <2>1. \A w \in ws : DOMAIN m[w] = {} /\ newThread[w] = "starting"
    BY <1>1, <1>3, <1>7
  <2> QED
    BY <1>1, <1>3, <1>5, <2>1 DEF GoodPool, BooksAgree, ResultIsAwaited, PoolRecord
<1> QED
  BY <1>5, <1>6, <1>8, <1>9, <1>10 DEF GoodPool, BooksAgree, q

\* Take() gives fresh handles.
LEMMA TakeFacts ==
    ASSUME NEW p, NEW n, NEW ws \in Take(p, n)
    PROVE  ws \subseteq Fresh(p) /\ Cardinality(ws) = n
<1>1. kSubset(n, Fresh(p)) # {} /\ ws \in kSubset(n, Fresh(p))
  BY DEF Take
<1> QED
  BY <1>1 DEF kSubset

\* n more workers at most, where there is room for them.
LEMMA GrownKeeps ==
    ASSUME NEW p, NEW m, NEW n, NEW js, NEW x \in Int, GoodPool(p, m, n, js),
           FreshIsEmpty(m), Cardinality(p.workers) + x <= MaxSize, NEW q \in Grown(p, x)
    PROVE  /\ GoodPool(q, m, n, js) /\ q.queue = p.queue /\ q.idle = p.idle
           /\ q.answers = p.answers
<1>1. CASE q = p
  BY <1>1
<1>2. ASSUME q # p
      PROVE  \E f \in Nat, k \in Nat, ws \in SUBSET Fresh(p) :
                q = Spawned(p, ws, f) /\ Cardinality(ws) = k /\ k <= x
  <2>1. Healthy(p) /\ x > 0
    BY <1>2 DEF Grown
  <2> DEFINE spare == CrashBudget - p.crashes
  <2>2. spare \in Nat
    BY <2>1, PoolSizes DEF Healthy, GoodPool, PoolRecord
  <2>3. \/ \E ws \in Take(p, x), f \in 0..(spare - 1) : q = Spawned(p, ws, f)
        \/ \E k \in 0..(x - 1) : \E ws \in Take(p, k) : q = Spawned(p, ws, spare)
    BY <1>2, <2>1 DEF Grown
  <2> HIDE DEF spare
  <2>4. CASE \E ws \in Take(p, x), f \in 0..(spare - 1) : q = Spawned(p, ws, f)
    BY <2>1, <2>2, <2>4, TakeFacts
  <2>5. CASE \E k \in 0..(x - 1) : \E ws \in Take(p, k) : q = Spawned(p, ws, spare)
    BY <2>1, <2>2, <2>5, TakeFacts
  <2> QED
    BY <2>3, <2>4, <2>5
<1>3. CASE q # p
  <2>1. PICK f \in Nat, k \in Nat, ws \in SUBSET Fresh(p) :
           q = Spawned(p, ws, f) /\ Cardinality(ws) = k /\ k <= x
    BY <1>2, <1>3
  <2>2. Cardinality(p.workers) \in Nat
    BY WorkerAssumption, FS_Subset, FS_CardinalityType DEF GoodPool, PoolRecord
  <2>3. Cardinality(p.workers) + Cardinality(ws) <= MaxSize
    BY <2>1, <2>2, PoolSizes
  <2> QED
    BY <2>1, <2>3, SpawnedKeeps
<1> QED
  BY <1>1, <1>3

\* A replacement, where there is room for it.
LEMMA ReplacedKeeps ==
    ASSUME NEW p, NEW m, NEW n, NEW js, GoodPool(p, m, n, js), FreshIsEmpty(m),
           Cardinality(p.workers) + 1 <= MaxSize, NEW q \in Replaced(p)
    PROVE  /\ GoodPool(q, m, n, js) /\ q.queue = p.queue /\ q.idle = p.idle
           /\ q.answers = p.answers
<1>1. CASE q = p
  BY <1>1
<1>2. CASE \E ws \in Take(p, 1) : q = Spawned(p, ws, 0)
  <2>1. PICK ws \in Take(p, 1) : q = Spawned(p, ws, 0)
    BY <1>2
  <2>2. ws \subseteq Fresh(p) /\ Cardinality(ws) = 1 /\ 0 \in Nat
    BY TakeFacts
  <2> QED
    BY <2>1, <2>2, SpawnedKeeps
<1>3. CASE q = Spawned(p, {}, 1)
  <2>1. Cardinality(p.workers) \in Nat
    BY WorkerAssumption, FS_Subset, FS_CardinalityType DEF GoodPool, PoolRecord
  <2>2. Cardinality({}) = 0 /\ {} \subseteq Fresh(p) /\ 1 \in Nat
    BY FS_EmptySet
  <2> DEFINE ws == {}
  <2>3. Cardinality(p.workers) + Cardinality(ws) <= MaxSize
    BY <2>1, <2>2, PoolSizes
  <2>4. ws \subseteq Fresh(p) /\ q = Spawned(p, ws, 1)
    BY <1>3
  <2> HIDE DEF ws
  <2> QED
    BY <2>2, <2>3, <2>4, SpawnedKeeps
<1> QED
  BY <1>1, <1>2, <1>3 DEF Replaced

\* An answer takes the call off the books; it may have been given before.
LEMMA SettleKeeps ==
    ASSUME NEW p, NEW m, NEW n, NEW js, NEW j \in Job, j <= n,
           js = {j} \/ js = {}, GoodPool(p, m, n, js)
    PROVE  /\ GoodPool(Settle(p, j), m, n, {}) /\ OnlyAnswers(p, Settle(p, j))
           /\ Settle(p, j).idle = p.idle /\ Settle(p, j).queue = p.queue
<1> DEFINE q == Settle(p, j)
<1>1. p \in PoolRecord /\ p.answers \in [Job -> 0..2]
  BY DEF GoodPool, PoolRecord
<1>2. CASE Settled(p, j)
  <2>1. q = p
    BY <1>2 DEF Settle
  <2>2. CallsAreHeld(p, n, {})
    BY <1>2 DEF GoodPool, BooksAgree, CallsAreHeld
  <2> QED
    BY <2>1, <2>2 DEF GoodPool, BooksAgree, OnlyAnswers
<1>3. CASE ~Settled(p, j)
  <2>0. /\ [p.answers EXCEPT ![j] = 1] \in [Job -> 0..2]
        /\ q = [p EXCEPT !.answers = [p.answers EXCEPT ![j] = 1]]
    BY <1>1, <1>3 DEF Settle, PoolRecord
  <2>1. /\ q \in PoolRecord /\ q.idle = p.idle /\ q.queue = p.queue
        /\ q.inflight = p.inflight /\ q.workers = p.workers /\ q.pending = p.pending
        /\ q.thread = p.thread /\ q.answers = [p.answers EXCEPT ![j] = 1]
    BY <1>1, <2>0 DEF PoolRecord
  <2>2. p.answers[j] = 0
    BY <1>1, <1>3 DEF Settled
  <2> HIDE DEF q
  <2>3. IdleIsFree(q) /\ BusyIsOwned(q) /\ NoneIsLost(q) /\ QueueWaits(q)
        /\ ResultIsAwaited(q, m)
    BY <2>1 DEF GoodPool, BooksAgree, IdleIsFree, BusyIsOwned, NoneIsLost, QueueWaits,
                ResultIsAwaited
  <2>4. \A i \in Job : Held(q, i) <=> Held(p, i)
    BY <2>1 DEF Held
  <2>5. CallsAreHeld(q, n, {})
    BY <1>1, <2>1, <2>2, <2>4 DEF GoodPool, BooksAgree, CallsAreHeld, Settled
  <2>6. OnlyAnswers(p, q)
    BY <1>1, <2>1, <2>2 DEF OnlyAnswers
  <2> QED
    BY <2>1, <2>3, <2>5, <2>6 DEF GoodPool, BooksAgree, q
<1> QED
  BY <1>2, <1>3

\* A worker that is idle once is not idle any more.
LEMMA RemoveFirstFacts ==
    ASSUME NEW S, NEW s \in Seq(S), NEW e,
           \A i, k \in DOMAIN s : s[i] = s[k] => i = k
    PROVE  /\ RemoveFirst(s, e) \in Seq(S)
           /\ \A i \in DOMAIN RemoveFirst(s, e) :
                 /\ RemoveFirst(s, e)[i] # e
                 /\ \E k \in DOMAIN s : s[k] = RemoveFirst(s, e)[i]
                 /\ \A k \in DOMAIN RemoveFirst(s, e) :
                       RemoveFirst(s, e)[i] = RemoveFirst(s, e)[k] => i = k
           /\ \A k \in DOMAIN s : s[k] # e =>
                 \E i \in DOMAIN RemoveFirst(s, e) : RemoveFirst(s, e)[i] = s[k]
<1> DEFINE r == RemoveFirst(s, e)
<1>1. CASE ~\E i \in 1..Len(s) : s[i] = e
  BY <1>1 DEF RemoveFirst
<1>2. ASSUME NEW m \in 1..Len(s), s[m] = e
      PROVE  /\ r \in Seq(S)
             /\ \A i \in DOMAIN r :
                   /\ r[i] # e /\ \E k \in DOMAIN s : s[k] = r[i]
                   /\ \A k \in DOMAIN r : r[i] = r[k] => i = k
             /\ \A k \in DOMAIN s : s[k] # e => \E i \in DOMAIN r : r[i] = s[k]
  <2>1. {i \in 1..Len(s) : s[i] = e} = {m}
    BY <1>2
  <2>2. Min({m}) = m
    BY DEF Min
  <2>3. r = SubSeq(s, 1, m - 1) \o SubSeq(s, m + 1, Len(s))
    <3>1. SelectInSeq(s, LAMBDA v : v = e) = m
      BY <2>1, <2>2 DEF SelectInSeq
    <3>2. RemoveFirst(s, e) = RemoveAt(s, SelectInSeq(s, LAMBDA v : v = e))
      BY <1>2 DEF RemoveFirst
    <3> QED
      BY <3>1, <3>2 DEF RemoveAt
  <2> HIDE DEF r
  <2> DEFINE a == SubSeq(s, 1, m - 1)
             b == SubSeq(s, m + 1, Len(s))
  <2>a. a \in Seq(S) /\ Len(a) = m - 1 /\ \A i \in 1..(m - 1) : a[i] = s[i]
    BY <1>2
  <2>b. b \in Seq(S) /\ Len(b) = Len(s) - m /\ \A i \in 1..(Len(s) - m) : b[i] = s[i + m]
    BY <1>2
  <2> HIDE DEF a, b
  <2>4. /\ r \in Seq(S) /\ Len(r) = Len(s) - 1
        /\ \A i \in 1..Len(r) : r[i] = IF i < m THEN s[i] ELSE s[i + 1]
    <3>1. r = a \o b
      BY <2>3 DEF a, b
    <3>2. Len(r) = Len(a) + Len(b) /\ r \in Seq(S)
      BY <2>a, <2>b, <3>1, ConcatProperties
    <3>3. Len(s) \in Nat
      OBVIOUS
    <3>4. ASSUME NEW i \in 1..Len(r)
          PROVE  r[i] = IF i < m THEN s[i] ELSE s[i + 1]
      <4>1. r[i] = IF i <= Len(a) THEN a[i] ELSE b[i - Len(a)]
        BY <2>a, <2>b, <3>1, <3>2, <3>4
      <4>2. CASE i < m
        BY <2>a, <4>1, <4>2, <3>3, <3>4
      <4>3. CASE ~(i < m)
        <5>1. i - (m - 1) \in 1..(Len(s) - m) /\ i - (m - 1) + m = i + 1
          BY <2>a, <2>b, <3>2, <3>3, <3>4, <4>3
        <5>2. r[i] = b[i - (m - 1)]
          BY <2>a, <4>1, <4>3, <3>3, <3>4
        <5> QED
          BY <2>b, <4>3, <5>1, <5>2
      <4> QED
        BY <4>2, <4>3
    <3> QED
      BY <2>a, <2>b, <3>2, <3>3, <3>4
  <2>5. Len(s) \in Nat /\ DOMAIN s = 1..Len(s) /\ DOMAIN r = 1..Len(r)
    BY <2>4
  <2> DEFINE K(i) == IF i < m THEN i ELSE i + 1
  <2>6. \A i \in DOMAIN r : K(i) \in DOMAIN s /\ K(i) # m /\ r[i] = s[K(i)]
    BY <2>4, <2>5
  <2>7. \A i, k \in DOMAIN r : K(i) = K(k) => i = k
    BY <2>4, <2>5
  <2>8. ASSUME NEW k \in DOMAIN s, s[k] # e
        PROVE  \E i \in DOMAIN r : r[i] = s[k]
    <3> DEFINE i == IF k < m THEN k ELSE k - 1
    <3>1. k # m
      BY <1>2, <2>8
    <3>2. i \in DOMAIN r /\ K(i) = k
      BY <2>4, <2>5, <3>1
    <3> QED
      BY <2>6, <3>2
  <2> HIDE DEF K
  <2> QED
    BY <1>2, <2>4, <2>5, <2>6, <2>7, <2>8
<1> QED
  BY <1>1, <1>2

\* A worker that is lost leaves the call it had to be retried or answered,
\* and room for another worker.
LEMMA LostKeeps ==
    ASSUME NEW p, NEW m, NEW n, GoodPool(p, m, n, {}), NEW w \in p.workers
    PROVE  /\ p.inflight[w] \in Job \cup {NoCall}
           /\ GoodPool(Lost(p, w), m, n, {p.inflight[w]} \ {NoCall})
           /\ Cardinality(Lost(p, w).workers) + 1 <= MaxSize
           /\ Lost(p, w).answers = p.answers
<1> DEFINE q == Lost(p, w)
           j == p.inflight[w]
           rest == RemoveFirst(p.idle, w)
<1>1. p \in PoolRecord /\ w \in Worker
  BY DEF GoodPool, PoolRecord
<1>2. /\ p.idle \in Seq(Worker) /\ p.inflight \in [Worker -> Job \cup {NoCall}]
      /\ p.workers \subseteq Worker /\ p.thread \in [Worker -> Thread]
      /\ p.queue \in Seq(Job) /\ p.crashes \in Nat
  BY <1>1 DEF PoolRecord
<1>0. \A i, k \in DOMAIN p.idle : p.idle[i] = p.idle[k] => i = k
  BY DEF GoodPool, BooksAgree, IdleIsFree
<1>3. /\ rest \in Seq(Worker)
      /\ \A i \in DOMAIN rest :
            /\ rest[i] # w /\ \E k \in DOMAIN p.idle : p.idle[k] = rest[i]
            /\ \A k \in DOMAIN rest : rest[i] = rest[k] => i = k
      /\ \A k \in DOMAIN p.idle : p.idle[k] # w => \E i \in DOMAIN rest : rest[i] = p.idle[k]
  <2> DEFINE s == p.idle
  <2>1. s \in Seq(Worker) /\ \A i, k \in DOMAIN s : s[i] = s[k] => i = k
    BY <1>0, <1>2
  <2>2. rest = RemoveFirst(s, w)
    OBVIOUS
  <2> HIDE DEF s, rest
  <2>3. /\ rest \in Seq(Worker)
        /\ \A i \in DOMAIN rest :
              /\ rest[i] # w /\ \E k \in DOMAIN s : s[k] = rest[i]
              /\ \A k \in DOMAIN rest : rest[i] = rest[k] => i = k
        /\ \A k \in DOMAIN s : s[k] # w => \E i \in DOMAIN rest : rest[i] = s[k]
    BY <2>1, <2>2, RemoveFirstFacts
  <2> QED
    BY <2>3 DEF s
<1>4. q = [p EXCEPT !.workers = p.workers \ {w}, !.pending = p.pending \ {w},
                    !.idle = rest, !.crashes = p.crashes + 1,
                    !.inflight = [p.inflight EXCEPT ![w] = NoCall],
                    !.thread = [p.thread EXCEPT ![w] = "gone"]]
  BY <1>1 DEF Lost, PoolRecord
<1> HIDE DEF q, rest
<1>5. /\ [p.inflight EXCEPT ![w] = NoCall] \in [Worker -> Job \cup {NoCall}]
      /\ [p.thread EXCEPT ![w] = "gone"] \in [Worker -> Thread]
      /\ p.crashes + 1 \in Nat /\ p.workers \ {w} \in SUBSET Worker
      /\ p.pending \ {w} \in SUBSET Worker
  BY <1>1, <1>2 DEF PoolRecord, Thread
<1>6. /\ q \in PoolRecord /\ q.idle = rest /\ q.queue = p.queue
      /\ q.inflight = [p.inflight EXCEPT ![w] = NoCall]
      /\ q.workers = p.workers \ {w} /\ q.pending = p.pending \ {w}
      /\ q.answers = p.answers /\ q.thread = [p.thread EXCEPT ![w] = "gone"]
  BY <1>1, <1>3, <1>4, <1>5 DEF PoolRecord
<1>7. Cardinality(q.workers) + 1 <= MaxSize /\ Cardinality(q.workers) <= MaxSize
  <2>1. IsFiniteSet(p.workers)
    BY <1>2, WorkerAssumption, FS_Subset
  <2>2. Cardinality(p.workers \ {w}) = Cardinality(p.workers) - 1
    BY <2>1, FS_RemoveElement
  <2>3. Cardinality(p.workers) \in Nat /\ Cardinality(p.workers) <= MaxSize
    BY <2>1, FS_CardinalityType DEF GoodPool
  <2> QED
    BY <1>6, <2>2, <2>3, PoolSizes
<1>8. IdleIsFree(q)
  <2>1. \A i \in DOMAIN rest : rest[i] \in p.workers \ p.pending /\ p.inflight[rest[i]] = NoCall
    BY <1>3 DEF GoodPool, BooksAgree, IdleIsFree
  <2>2. \A i \in DOMAIN rest : q.inflight[rest[i]] = NoCall
    BY <1>2, <1>3, <1>6, <2>1
  <2> QED
    BY <1>3, <1>6, <2>1, <2>2 DEF IdleIsFree
<1>9. BusyIsOwned(q) /\ QueueWaits(q)
  BY <1>2, <1>6, PoolSizes DEF GoodPool, BooksAgree, BusyIsOwned, QueueWaits
<1>10. NoneIsLost(q)
  <2>1. \A v : Contains(p.idle, v) /\ v # w => Contains(rest, v)
    BY <1>2, <1>3 DEF Contains
  <2> QED
    BY <1>2, <1>6, <2>1 DEF GoodPool, BooksAgree, NoneIsLost
<1>11. CallsAreHeld(q, n, {j} \ {NoCall})
  <2>1. \A i \in Job : Held(p, i) <=> Held(q, i) \/ i = j
    BY <1>1, <1>2, <1>6, PoolSizes DEF Held
  <2>2. j # NoCall => ~Held(q, j)
    BY <1>1, <1>2, <1>6 DEF GoodPool, BooksAgree, BusyIsOwned, QueueWaits, Held, Contains
  <2> QED
    BY <1>2, <1>6, <2>1, <2>2, PoolSizes DEF GoodPool, BooksAgree, CallsAreHeld, Settled
<1>12. ResultIsAwaited(q, m)
  BY <1>2, <1>6 DEF GoodPool, BooksAgree, ResultIsAwaited
<1>13. j \in Job \cup {NoCall}
  BY <1>1, <1>2
<1> QED
  BY <1>6, <1>7, <1>8, <1>9, <1>10, <1>11, <1>12, <1>13 DEF GoodPool, BooksAgree, q

\* The call of a lost worker waits again or is answered.
LEMMA RetriedKeeps ==
    ASSUME NEW p, NEW m, NEW n, NEW j \in Job \cup {NoCall},
           GoodPool(p, m, n, {j} \ {NoCall})
    PROVE  GoodPool(Retried(p, j), m, n, {}) /\ OnlyAnswers(p, Retried(p, j))
<1>1. CASE j = NoCall
  <2>1. {j} \ {NoCall} = {}
    BY <1>1
  <2> QED
    BY <1>1, <2>1 DEF Retried, OnlyAnswers
<1>2. ASSUME j # NoCall, p.retries[j] < MaxRetries, Healthy(p)
      PROVE  GoodPool(Retried(p, j), m, n, {}) /\ OnlyAnswers(p, Retried(p, j))
  <2> DEFINE q == Retried(p, j)
             line == <<j>> \o p.queue
  <2>1. /\ p \in PoolRecord /\ p.queue \in Seq(Job) /\ j \in Job
        /\ p.retries \in [Job -> 0..MaxRetries] /\ {j} \ {NoCall} = {j}
    BY <1>2 DEF GoodPool, PoolRecord
  <2>2. [p.retries EXCEPT ![j] = p.retries[j] + 1] \in [Job -> 0..MaxRetries]
    BY <1>2, <2>1, PoolSizes
  <2>3. /\ line \in Seq(Job) /\ Len(line) = Len(p.queue) + 1 /\ line[1] = j
        /\ \A i \in 1..Len(p.queue) : line[i + 1] = p.queue[i]
        /\ Len(p.queue) \in Nat /\ DOMAIN p.queue = 1..Len(p.queue)
        /\ DOMAIN line = 1..(Len(p.queue) + 1)
    BY <2>1
  <2>4. q = [p EXCEPT !.retries = [p.retries EXCEPT ![j] = p.retries[j] + 1], !.queue = line]
    BY <1>2, <2>1 DEF Retried, PoolRecord
  <2> HIDE DEF q, line
  <2>5. /\ q \in PoolRecord /\ q.idle = p.idle /\ q.queue = line
        /\ q.inflight = p.inflight /\ q.workers = p.workers /\ q.pending = p.pending
        /\ q.answers = p.answers /\ q.thread = p.thread
    BY <2>1, <2>2, <2>3, <2>4 DEF PoolRecord
  <2>6. IdleIsFree(q) /\ BusyIsOwned(q) /\ NoneIsLost(q) /\ ResultIsAwaited(q, m)
    BY <2>5 DEF GoodPool, BooksAgree, IdleIsFree, BusyIsOwned, NoneIsLost, ResultIsAwaited
  <2>7. ~Held(p, j) /\ CallsAreHeld(p, n, {j})
    BY <2>1 DEF GoodPool, BooksAgree, CallsAreHeld
  <2>8. \A i \in 1..(Len(p.queue) + 1) :
           i = 1 \/ (i - 1 \in 1..Len(p.queue) /\ line[i] = p.queue[i - 1])
    <3> TAKE i \in 1..(Len(p.queue) + 1)
    <3>1. i = 1 \/ (i - 1 \in 1..Len(p.queue) /\ (i - 1) + 1 = i)
      BY <2>3
    <3> QED
      BY <2>3, <3>1
  <2>9. QueueWaits(q)
    <3> SUFFICES ASSUME NEW i \in 1..(Len(p.queue) + 1)
                 PROVE  /\ \A k \in 1..(Len(p.queue) + 1) : line[k] = line[i] => k = i
                        /\ \A w \in Worker : p.inflight[w] # line[i]
      BY <2>3, <2>5 DEF QueueWaits
    <3>1. \A k \in 1..Len(p.queue) : p.queue[k] # j
      BY <2>3, <2>7 DEF Held, Contains
    <3>2. \A k, l \in 1..Len(p.queue) : p.queue[k] = p.queue[l] => k = l
      BY <2>3 DEF GoodPool, BooksAgree, QueueWaits
    <3>3. ASSUME NEW k \in 1..(Len(p.queue) + 1), line[k] = line[i]
          PROVE  k = i
      <4>1. CASE i = 1 \/ k = 1
        BY <2>3, <2>8, <3>1, <3>3, <4>1
      <4>2. CASE i # 1 /\ k # 1
        <5>1. i - 1 = k - 1
          BY <2>8, <3>2, <3>3, <4>2
        <5> QED
          BY <2>3, <5>1
      <4> QED
        BY <4>1, <4>2
    <3>4. \A w \in Worker : p.inflight[w] # line[i]
      <4>1. \A w \in Worker : p.inflight[w] # j
        BY <2>7 DEF Held
      <4>2. \A k \in 1..Len(p.queue), w \in Worker : p.inflight[w] # p.queue[k]
        BY <2>3 DEF GoodPool, BooksAgree, QueueWaits
      <4> QED
        BY <2>3, <2>8, <4>1, <4>2
    <3> QED
      BY <3>3, <3>4
  <2>10. \A i \in Job : Held(q, i) <=> Held(p, i) \/ i = j
    <3>1. \A x : Contains(line, x) <=> Contains(p.queue, x) \/ x = j
      <4> TAKE x
      <4>1. ASSUME Contains(p.queue, x)
            PROVE  Contains(line, x)
        <5>1. PICK i \in 1..Len(p.queue) : p.queue[i] = x
          BY <2>3, <4>1 DEF Contains
        <5>2. i + 1 \in 1..Len(line) /\ line[i + 1] = x
          BY <2>3, <5>1
        <5> QED
          BY <5>2 DEF Contains
      <4>2. ASSUME Contains(line, x)
            PROVE  Contains(p.queue, x) \/ x = j
        BY <2>3, <2>8, <4>2 DEF Contains
      <4>3. Contains(line, j)
        <5>1. 1 \in 1..Len(line)
          BY <2>3
        <5> QED
          BY <2>3, <5>1 DEF Contains
      <4> QED
        BY <4>1, <4>2, <4>3
    <3> QED
      BY <2>5, <3>1 DEF Held
  <2>11. CallsAreHeld(q, n, {})
    BY <2>5, <2>7, <2>10 DEF CallsAreHeld, Settled
  <2> QED
    BY <2>5, <2>6, <2>9, <2>11 DEF GoodPool, BooksAgree, OnlyAnswers, q
<1>3. ASSUME j # NoCall, ~(p.retries[j] < MaxRetries /\ Healthy(p))
      PROVE  GoodPool(Retried(p, j), m, n, {}) /\ OnlyAnswers(p, Retried(p, j))
  <2>1. Retried(p, j) = Settle(p, j)
    BY <1>3 DEF Retried
  <2>2. j \in Job /\ {j} \ {NoCall} = {j}
    BY <1>3
  <2>3. j <= n
    BY <2>2 DEF GoodPool, BooksAgree, CallsAreHeld
  <2> QED
    BY <2>1, <2>2, <2>3, SettleKeeps
<1> QED
  BY <1>1, <1>2, <1>3

\* The idle stack takes the calls at the positions it picks, one each; what
\* else leaves the queue was answered, and it goes on as long as there are
\* both idle workers and calls.
LEMMA ServedKeeps ==
    ASSUME NEW p, NEW m, NEW n, GoodPool(p, m, n, {}), NEW at \in Picks(p)
    PROVE  /\ GoodPool(Served(p, at), m, n, {}) /\ AllDispatched(Served(p, at))
           /\ Served(p, at).answers = p.answers
<1> DEFINE L  == Len(p.idle)
           M  == Len(p.queue)
           N  == Len(at)
           cut == IF N < L THEN M ELSE IF N = 0 THEN 0 ELSE at[N]
           Nth(w) == CHOOSE k \in 1..N : p.idle[L + 1 - k] = w
           ws == {p.idle[L + 1 - k] : k \in 1..N}
           q  == Served(p, at)
<1>1. p \in PoolRecord
  BY DEF GoodPool
<1>2. /\ p.idle \in Seq(Worker) /\ p.queue \in Seq(Job)
      /\ p.inflight \in [Worker -> Job \cup {NoCall}] /\ p.thread \in [Worker -> Thread]
  BY <1>1 DEF PoolRecord
<1>3. /\ L \in Nat /\ M \in Nat /\ DOMAIN p.idle = 1..L /\ DOMAIN p.queue = 1..M
      /\ \A i \in 1..L : p.idle[i] \in Worker
      /\ \A i \in 1..M : p.queue[i] \in Job
  BY <1>2
<1> DEFINE
    newIdle     == SubSeq(p.idle, 1, L - N)
    newQueue    == SubSeq(p.queue, cut + 1, M)
    newInflight == [w \in Worker |-> IF w \in ws THEN p.queue[at[Nth(w)]] ELSE p.inflight[w]]
    newThread   == [w \in Worker |-> IF w \in ws /\ p.thread[w] = "up"
                                     THEN "busy" ELSE p.thread[w]]
<1>5. q = [p EXCEPT !.idle = newIdle, !.queue = newQueue, !.inflight = newInflight,
                    !.thread = newThread]
  BY DEF Served
<1> HIDE DEF q
<1>4. /\ N \in Nat /\ N <= L /\ DOMAIN at = 1..N
      /\ \A k \in 1..N : at[k] \in 1..M /\ ~Settled(p, p.queue[at[k]])
      /\ \A k, l \in 1..N : at[k] = at[l] => k = l
      /\ cut \in 0..M /\ \A k \in 1..N : at[k] <= cut
      /\ \A i \in 1..M : i <= cut /\ ~Settled(p, p.queue[i]) => \E k \in 1..N : at[k] = i
  <2> DEFINE U == Unsettled(p)
  <2>1. /\ \A i \in U : i \in 1..M /\ ~Settled(p, p.queue[i])
        /\ \A i \in 1..M : ~Settled(p, p.queue[i]) => i \in U
    BY <1>3 DEF Unsettled
  <2>2. PICK x \in 0..L : at \in [1..x -> U]
    BY DEF Picks
  <2>3. /\ \A k, l \in DOMAIN at : k < l => at[k] < at[l]
        /\ \A i \in U : \/ \E k \in DOMAIN at : at[k] = i
                        \/ N = L /\ \A k \in DOMAIN at : at[k] < i
    BY DEF Picks
  <2> HIDE DEF U, L, M
  <2>4. x \in Nat /\ x <= L /\ DOMAIN at = 1..x /\ \A k \in 1..x : at[k] \in U
    BY <1>3, <2>2
  <2>5. N = x
    <3>1. at \in Seq(U)
      BY <2>2, <2>4, SeqDef
    <3> QED
      BY <2>4, <3>1, LenProperties
  <2> HIDE DEF N
  <2>6. N \in Nat /\ N <= L /\ DOMAIN at = 1..N
    BY <2>4, <2>5
  <2>7. \A k \in 1..N : at[k] \in U /\ at[k] \in 1..M /\ ~Settled(p, p.queue[at[k]])
    BY <2>1, <2>4, <2>5
  <2>8. \A k, l \in 1..N : k < l => at[k] < at[l]
    BY <2>3, <2>6
  <2>9. \A k, l \in 1..N : at[k] = at[l] => k = l
    BY <1>3, <2>6, <2>7, <2>8
  <2>10. CASE N < L
    <3>1. cut = M
      BY <2>10
    <3>2. \A i \in 1..M : ~Settled(p, p.queue[i]) => \E k \in 1..N : at[k] = i
      BY <1>3, <2>1, <2>3, <2>6, <2>10
    <3> HIDE DEF cut
    <3> QED
      BY <1>3, <2>6, <2>7, <2>9, <3>1, <3>2
  <2>11. CASE N = L /\ N = 0
    <3>1. cut = 0
      BY <1>3, <2>11
    <3> HIDE DEF cut
    <3> QED
      BY <1>3, <2>6, <2>7, <2>9, <2>11, <3>1
  <2>12. CASE N = L /\ N # 0
    <3>1. cut = at[N] /\ N \in 1..N
      BY <1>3, <2>6, <2>12
    <3>2. cut \in 0..M
      BY <1>3, <2>7, <3>1
    <3>3. \A k \in 1..N : at[k] <= cut
      BY <1>3, <2>6, <2>7, <2>8, <3>1
    <3>4. \A i \in 1..M : i <= cut /\ ~Settled(p, p.queue[i]) => \E k \in 1..N : at[k] = i
      <4> HIDE DEF cut
      <4> QED
        BY <1>3, <2>1, <2>3, <2>6, <2>7, <3>1, <3>2
    <3> HIDE DEF cut
    <3> QED
      BY <2>6, <2>7, <2>9, <3>2, <3>3, <3>4
  <2> QED
    BY <1>3, <2>6, <2>10, <2>11, <2>12
<1>5a. /\ N < L => cut = M
       /\ N <= L
  BY <1>4
<1> HIDE DEF N, cut
<1>6. \A w \in ws : Nth(w) \in 1..N /\ p.idle[L + 1 - Nth(w)] = w
  OBVIOUS
<1>7. \A k \in 1..N : p.idle[L + 1 - k] \in ws /\ L + 1 - k \in 1..L
  BY <1>3, <1>4
<1> HIDE DEF Nth
<1>8. \A w \in ws : w \in Worker /\ \E i \in 1..L : i > L - N /\ p.idle[i] = w
  BY <1>3, <1>4
<1>9. /\ \A i \in 1..L : p.idle[i] \in p.workers \ p.pending /\ p.inflight[p.idle[i]] = NoCall
      /\ \A i, k \in 1..L : p.idle[i] = p.idle[k] => i = k
  BY <1>3 DEF GoodPool, BooksAgree, IdleIsFree
<1>10. /\ \A i, k \in 1..M : p.queue[i] = p.queue[k] => i = k
       /\ \A i \in 1..M, w \in Worker : p.inflight[w] # p.queue[i]
  BY <1>3 DEF GoodPool, BooksAgree, QueueWaits
<1>11. /\ \A w \in ws : w \in p.workers \ p.pending /\ p.inflight[w] = NoCall
       /\ \A i \in 1..(L - N) : p.idle[i] \notin ws
       /\ \A k \in 1..N : Nth(p.idle[L + 1 - k]) = k
  <2>1. \A w \in ws : w \in p.workers \ p.pending /\ p.inflight[w] = NoCall
    BY <1>8, <1>9
  <2>2. ASSUME NEW i \in 1..(L - N), p.idle[i] \in ws
        PROVE  FALSE
    <3>1. PICK k \in 1..L : k > L - N /\ p.idle[k] = p.idle[i]
      BY <1>8, <2>2
    <3>2. i \in 1..L
      BY <1>3, <1>4
    <3>3. k = i
      BY <1>9, <3>1, <3>2
    <3> QED
      BY <1>3, <1>4, <3>1, <3>3
  <2>3. ASSUME NEW k \in 1..N
        PROVE  Nth(p.idle[L + 1 - k]) = k
    <3> DEFINE w == p.idle[L + 1 - k]
               a == Nth(w)
    <3>1. w \in ws
      BY <1>7
    <3>2. a \in 1..N /\ p.idle[L + 1 - a] = w
      BY <1>6, <3>1
    <3> HIDE DEF a
    <3>3. L + 1 - a \in 1..L /\ L + 1 - k \in 1..L
      BY <1>3, <1>4, <3>2
    <3>4. L + 1 - a = L + 1 - k
      BY <1>9, <3>2, <3>3
    <3>5. a = k
      BY <1>3, <1>4, <3>2, <3>4
    <3> QED
      BY <3>5 DEF a
  <2> QED
    BY <2>1, <2>2, <2>3
<1>12. /\ newIdle \in Seq(Worker) /\ Len(newIdle) = L - N
       /\ \A i \in 1..(L - N) : newIdle[i] = p.idle[i]
  BY <1>2, <1>3, <1>4
<1>13. /\ newQueue \in Seq(Job) /\ Len(newQueue) = M - cut
       /\ \A i \in 1..(M - cut) : newQueue[i] = p.queue[i + cut]
  BY <1>2, <1>3, <1>4
<1> HIDE DEF L, M, newIdle, newQueue, ws
<1>14. newInflight \in [Worker -> Job \cup {NoCall}] /\ newThread \in [Worker -> Thread]
  <2>1. \A w \in ws : at[Nth(w)] \in 1..M /\ p.queue[at[Nth(w)]] \in Job
    BY <1>3, <1>4, <1>6
  <2> QED
    BY <1>2, <2>1 DEF Thread
<1> HIDE DEF newInflight, newThread
<1>15. /\ q \in PoolRecord /\ q.idle = newIdle /\ q.queue = newQueue
       /\ q.inflight = newInflight /\ q.thread = newThread /\ q.workers = p.workers
       /\ q.pending = p.pending /\ q.answers = p.answers
  BY <1>1, <1>5, <1>12, <1>13, <1>14 DEF PoolRecord
<1>16. DOMAIN newIdle = 1..(L - N) /\ DOMAIN newQueue = 1..(M - cut)
  BY <1>12, <1>13
<1>17. IdleIsFree(q)
  <2>1. \A i \in 1..(L - N) : i \in 1..L
    BY <1>3, <1>4
  <2>2. \A i \in 1..(L - N) :
           /\ newIdle[i] = p.idle[i] /\ p.idle[i] \in Worker
           /\ newInflight[p.idle[i]] = p.inflight[p.idle[i]]
    BY <1>3, <1>11, <1>12, <2>1 DEF newInflight
  <2>3. \A i \in 1..(L - N) :
           /\ newIdle[i] \in p.workers \ p.pending /\ newInflight[newIdle[i]] = NoCall
           /\ \A k \in 1..(L - N) : newIdle[k] = newIdle[i] => k = i
    BY <1>9, <2>1, <2>2
  <2> QED
    BY <1>15, <1>16, <2>3 DEF IdleIsFree
<1>18. ASSUME NEW w \in Worker
       PROVE  \/ /\ w \in ws /\ Nth(w) \in 1..N /\ at[Nth(w)] \in 1..M
                 /\ at[Nth(w)] <= cut /\ newInflight[w] = p.queue[at[Nth(w)]]
                 /\ p.idle[L + 1 - Nth(w)] = w
              \/ w \notin ws /\ newInflight[w] = p.inflight[w]
  <2>1. CASE w \in ws
    <3>1. Nth(w) \in 1..N /\ p.idle[L + 1 - Nth(w)] = w
      BY <1>6, <2>1
    <3>2. newInflight[w] = p.queue[at[Nth(w)]]
      BY <2>1 DEF newInflight
    <3> QED
      BY <1>4, <2>1, <3>1, <3>2
  <2>2. CASE w \notin ws
    BY <2>2 DEF newInflight
  <2> QED
    BY <2>1, <2>2
<1>19. BusyIsOwned(q)
  <2> SUFFICES ASSUME NEW w \in Worker, newInflight[w] # NoCall
               PROVE  /\ w \in p.workers \ p.pending
                      /\ \A v \in Worker : newInflight[v] = newInflight[w] => v = w
    BY <1>15 DEF BusyIsOwned
  <2>2. CASE w \in ws
    <3>2. ASSUME NEW v \in Worker, newInflight[v] = newInflight[w]
          PROVE  v = w
      <4>1. at[Nth(w)] \in 1..M /\ newInflight[w] = p.queue[at[Nth(w)]] /\ Nth(w) \in 1..N
            /\ p.idle[L + 1 - Nth(w)] = w
        BY <1>18, <2>2
      <4>2. CASE v \in ws
        <5>1. at[Nth(v)] \in 1..M /\ newInflight[v] = p.queue[at[Nth(v)]] /\ Nth(v) \in 1..N
              /\ p.idle[L + 1 - Nth(v)] = v
          BY <1>18, <4>2
        <5>2. at[Nth(v)] = at[Nth(w)]
          BY <1>10, <3>2, <4>1, <5>1
        <5>3. Nth(v) = Nth(w)
          BY <1>4, <4>1, <5>1, <5>2
        <5> QED
          BY <4>1, <5>1, <5>3
      <4>3. CASE v \notin ws
        BY <1>10, <1>18, <3>2, <4>1, <4>3
      <4> QED
        BY <4>2, <4>3
    <3> QED
      BY <1>11, <2>2, <3>2
  <2>3. CASE w \notin ws
    <3>1. p.inflight[w] # NoCall /\ newInflight[w] = p.inflight[w]
      BY <1>18, <2>3
    <3>2. /\ w \in p.workers \ p.pending
          /\ \A v \in Worker : p.inflight[v] = p.inflight[w] => v = w
      BY <3>1 DEF GoodPool, BooksAgree, BusyIsOwned
    <3>3. ASSUME NEW v \in Worker, newInflight[v] = newInflight[w]
          PROVE  v = w
      BY <1>10, <1>18, <3>1, <3>2, <3>3
    <3> QED
      BY <3>2, <3>3
  <2> QED
    BY <2>2, <2>3
<1>20. NoneIsLost(q)
  <2> SUFFICES ASSUME NEW w \in p.workers
               PROVE  w \in p.pending \/ newInflight[w] # NoCall \/ Contains(newIdle, w)
    BY <1>15 DEF NoneIsLost, GoodPool, BooksAgree
  <2>1. w \in Worker /\ (w \in p.pending \/ p.inflight[w] # NoCall \/ Contains(p.idle, w))
    BY <1>1 DEF GoodPool, BooksAgree, NoneIsLost, PoolRecord
  <2>2. CASE w \in ws
    BY <1>3, <1>18, <2>1, <2>2, PoolSizes
  <2>3. CASE w \notin ws
    <3>1. newInflight[w] = p.inflight[w]
      BY <1>18, <2>1, <2>3
    <3>2. ASSUME NEW i \in 1..L, p.idle[i] = w
          PROVE  Contains(newIdle, w)
      <4>1. ~(i > L - N)
        <5>1. ASSUME i > L - N
              PROVE  FALSE
          <6>1. L + 1 - i \in 1..N /\ L + 1 - (L + 1 - i) = i
            BY <1>3, <1>4, <5>1
          <6>2. p.idle[i] \in ws
            BY <1>7, <6>1
          <6> QED
            BY <2>3, <3>2, <6>2
        <5> QED
          BY <5>1
      <4>2. i \in 1..(L - N)
        BY <1>3, <1>4, <4>1
      <4>3. newIdle[i] = w /\ i \in 1..Len(newIdle)
        BY <1>12, <3>2, <4>2
      <4> QED
        BY <4>3 DEF Contains
    <3> QED
      BY <2>1, <3>1, <3>2 DEF Contains, L
  <2> QED
    BY <2>2, <2>3
<1>21. QueueWaits(q)
  <2> SUFFICES ASSUME NEW i \in 1..(M - cut)
               PROVE  /\ \A k \in 1..(M - cut) : newQueue[k] = newQueue[i] => k = i
                      /\ \A w \in Worker : newInflight[w] # newQueue[i]
    BY <1>15, <1>16 DEF QueueWaits
  <2>1. \A k \in 1..(M - cut) : k + cut \in 1..M
    BY <1>3, <1>4
  <2>2. \A k \in 1..(M - cut) : newQueue[k] = newQueue[i] => k = i
    <3> TAKE k \in 1..(M - cut)
    <3> HAVE newQueue[k] = newQueue[i]
    <3>1. k + cut = i + cut
      BY <1>10, <1>13, <2>1
    <3> QED
      BY <1>3, <1>4, <3>1
  <2>3. ASSUME NEW w \in Worker
        PROVE  newInflight[w] # newQueue[i]
    <3>1. CASE w \in ws
      <4>1. at[Nth(w)] \in 1..M /\ i + cut \in 1..M /\ at[Nth(w)] # i + cut
        BY <1>3, <1>4, <1>18, <2>1, <3>1
      <4> QED
        BY <1>10, <1>13, <1>18, <3>1, <4>1
    <3>2. CASE w \notin ws
      BY <1>10, <1>13, <1>18, <2>1, <3>2
    <3> QED
      BY <3>1, <3>2
  <2> QED
    BY <2>2, <2>3
<1>22. ASSUME NEW j \in Job
       PROVE  (Held(q, j) => Held(p, j)) /\ (Held(p, j) => Held(q, j) \/ Settled(p, j))
  <2>1. ASSUME NEW i \in 1..M, p.queue[i] = j
        PROVE  Held(q, j) \/ Settled(p, j)
    <3>1. CASE i <= cut /\ ~Settled(p, j)
      <4>1. PICK k \in 1..N : at[k] = i
        BY <1>4, <2>1, <3>1
      <4>2. p.idle[L + 1 - k] \in ws /\ p.idle[L + 1 - k] \in Worker
            /\ Nth(p.idle[L + 1 - k]) = k
        BY <1>3, <1>7, <1>11 DEF ws
      <4>3. newInflight[p.idle[L + 1 - k]] = j
        BY <1>18, <2>1, <4>1, <4>2
      <4> QED
        BY <1>15, <4>2, <4>3 DEF Held
    <3>2. CASE i > cut
      <4>1. i - cut \in 1..(M - cut) /\ (i - cut) + cut = i
        BY <1>3, <1>4, <3>2
      <4>2. newQueue[i - cut] = j
        BY <1>13, <2>1, <4>1
      <4> QED
        BY <1>13, <1>15, <4>1, <4>2 DEF Held, Contains
    <3> QED
      BY <1>3, <1>4, <3>1, <3>2
  <2>2. ASSUME NEW w \in Worker, p.inflight[w] = j
        PROVE  Held(q, j)
    <3>1. w \notin ws
      BY <1>11, <2>2, PoolSizes
    <3> QED
      BY <1>15, <1>18, <2>2, <3>1 DEF Held
  <2>3. ASSUME NEW i \in 1..(M - cut), newQueue[i] = j
        PROVE  Held(p, j)
    <3>1. i + cut \in 1..M
      BY <1>3, <1>4
    <3> QED
      BY <1>13, <2>3, <3>1 DEF Held, Contains, M
  <2>4. ASSUME NEW w \in Worker, newInflight[w] = j
        PROVE  Held(p, j)
    <3>1. CASE w \in ws
      BY <1>18, <2>4, <3>1 DEF Held, Contains, M
    <3>2. CASE w \notin ws
      BY <1>18, <2>4, <3>2 DEF Held
    <3> QED
      BY <3>1, <3>2
  <2>5. Held(p, j) => Held(q, j) \/ Settled(p, j)
    BY <2>1, <2>2 DEF Held, Contains, M
  <2>6. Held(q, j) => Held(p, j)
    BY <1>13, <1>15, <2>3, <2>4 DEF Held, Contains
  <2> QED
    BY <2>5, <2>6
<1>23. CallsAreHeld(q, n, {})
  BY <1>15, <1>22 DEF GoodPool, BooksAgree, CallsAreHeld, Settled
<1>24. ResultIsAwaited(q, m)
  <2> SUFFICES ASSUME NEW w \in p.workers
               PROVE  /\ newThread[w] = "busy" =>
                           newInflight[w] # NoCall /\ \A i \in DOMAIN m[w] : m[w][i] # "result"
                      /\ \A i \in DOMAIN m[w] : m[w][i] = "result" =>
                           /\ newInflight[w] # NoCall
                           /\ \A k \in DOMAIN m[w] : m[w][k] = "result" => k = i
    BY <1>15 DEF ResultIsAwaited
  <2>1. w \in Worker
    BY <1>1 DEF PoolRecord
  <2>2. /\ p.thread[w] = "busy" =>
             p.inflight[w] # NoCall /\ \A i \in DOMAIN m[w] : m[w][i] # "result"
        /\ \A i \in DOMAIN m[w] : m[w][i] = "result" =>
             /\ p.inflight[w] # NoCall
             /\ \A k \in DOMAIN m[w] : m[w][k] = "result" => k = i
    BY DEF GoodPool, BooksAgree, ResultIsAwaited
  <2>3. CASE w \in ws
    <3>1. p.inflight[w] = NoCall /\ newInflight[w] # NoCall
      BY <1>3, <1>11, <1>18, <2>1, <2>3, PoolSizes
    <3> QED
      BY <2>2, <3>1
  <2>4. CASE w \notin ws
    <3>1. newInflight[w] = p.inflight[w] /\ newThread[w] = p.thread[w]
      BY <1>18, <2>1, <2>4 DEF newThread
    <3> QED
      BY <2>2, <3>1
  <2> QED
    BY <2>3, <2>4
<1>25. AllDispatched(q)
  <2>1. CASE N = L
    <3>1. Len(newIdle) = 0
      BY <1>3, <1>12, <2>1
    <3> QED
      BY <1>12, <1>15, <3>1, EmptySeq DEF AllDispatched
  <2>2. CASE N < L
    <3>1. Len(newQueue) = 0
      BY <1>3, <1>5a, <1>13, <2>2
    <3> QED
      BY <1>13, <1>15, <3>1, EmptySeq DEF AllDispatched
  <2> QED
    BY <1>3, <1>4, <2>1, <2>2
<1> QED
  BY <1>15, <1>17, <1>19, <1>20, <1>21, <1>23, <1>24, <1>25 DEF GoodPool, BooksAgree, q

\* Two spells in which calls are only answered make one.
LEMMA AnswersAdd ==
    ASSUME NEW p, NEW q, NEW r, OnlyAnswers(p, q), OnlyAnswers(q, r)
    PROVE  OnlyAnswers(p, r)
  BY DEF OnlyAnswers

\* warm() makes up the floor, which leaves room.
LEMMA WarmedKeeps ==
    ASSUME NEW p, NEW m, NEW n, NEW js, GoodPool(p, m, n, js), FreshIsEmpty(m),
           NEW q \in Warmed(p)
    PROVE  /\ GoodPool(q, m, n, js) /\ q.queue = p.queue /\ q.idle = p.idle
           /\ q.answers = p.answers
<1> DEFINE a == WarmFloor - Cardinality(p.workers)
           b == SpawnCap(p) - Cardinality(p.pending)
           x == Min({a, b})
<1>1. Cardinality(p.workers) \in Nat /\ Cardinality(p.pending) \in Nat
  BY WorkerAssumption, FS_Subset, FS_CardinalityType DEF GoodPool, PoolRecord
<1>2. a \in Int /\ b \in Int /\ Cardinality(p.workers) + a <= MaxSize
  BY <1>1, PoolSizes DEF SpawnCap
<1>3. q \in Grown(p, x)
  BY DEF Warmed
<1> HIDE DEF a, b
<1>4. x \in Int /\ x <= a
  BY <1>2, MinOfTwo
<1> HIDE DEF x
<1>5. Cardinality(p.workers) + x <= MaxSize
  BY <1>1, <1>2, <1>4, PoolSizes
<1> QED
  BY <1>3, <1>4, <1>5, GrownKeeps

\* So does the demand.
LEMMA DemandedKeeps ==
    ASSUME NEW p, NEW m, NEW n, NEW js, GoodPool(p, m, n, js), FreshIsEmpty(m),
           NEW q \in Demanded(p)
    PROVE  /\ GoodPool(q, m, n, js) /\ q.queue = p.queue /\ q.idle = p.idle
           /\ q.answers = p.answers
<1> DEFINE a == Len(p.queue) - Len(p.idle) - Cardinality(p.pending)
           b == MaxSize - Cardinality(p.workers)
           c == SpawnCap(p) - Cardinality(p.pending)
           x == Min({a, b, c})
<1>1. /\ Cardinality(p.workers) \in Nat /\ Cardinality(p.pending) \in Nat
      /\ Len(p.queue) \in Nat /\ Len(p.idle) \in Nat
  <2>1. Len(p.queue) \in Nat /\ Len(p.idle) \in Nat
    BY DEF GoodPool, PoolRecord
  <2> QED
    BY <2>1, WorkerAssumption, FS_Subset, FS_CardinalityType DEF GoodPool, PoolRecord
<1>2. /\ a \in Int /\ b \in Int /\ c \in Int /\ Cardinality(p.workers) + b <= MaxSize
  <2>0. \A i, k, l \in Nat : i - k - l \in Int
    OBVIOUS
  <2>1. a \in Int
    BY <1>1, <2>0, Zenon
  <2>2. b \in Int /\ Cardinality(p.workers) + b <= MaxSize
    BY <1>1, PoolSizes
  <2>3. c \in Int
    BY <1>1, PoolSizes DEF SpawnCap
  <2> QED
    BY <2>1, <2>2, <2>3
<1>3. q \in Grown(p, x)
  BY DEF Demanded
<1> HIDE DEF a, b, c
<1>4. x \in Int /\ x <= b
  BY <1>2, MinOfThree
<1> HIDE DEF x
<1>5. Cardinality(p.workers) + x <= MaxSize
  BY <1>1, <1>2, <1>4, PoolSizes
<1> QED
  BY <1>3, <1>4, <1>5, GrownKeeps

\* drain() restores that no call waits beside an idle worker.
LEMMA DrainedKeeps ==
    ASSUME NEW p, NEW m, NEW n, GoodPool(p, m, n, {}), FreshIsEmpty(m), NEW q \in Drained(p)
    PROVE  GoodPool(q, m, n, {}) /\ AllDispatched(q) /\ OnlyAnswers(p, q)
<1>1. PICK s \in Warmed(p) : \E r \in Demanded(s) : q \in Dispatched(r)
  BY DEF Drained
<1>2. PICK r \in Demanded(s) : q \in Dispatched(r)
  BY <1>1
<1>3. PICK at \in Picks(r) : q = Served(r, at)
  BY <1>2 DEF Dispatched
<1> DEFINE js == {}
<1>4. GoodPool(p, m, n, js)
  OBVIOUS
<1> HIDE DEF js
<1>5. GoodPool(s, m, n, js) /\ s.answers = p.answers
  BY <1>4, WarmedKeeps
<1>6. GoodPool(r, m, n, js) /\ r.answers = s.answers
  BY <1>5, DemandedKeeps
<1>7. GoodPool(r, m, n, {})
  BY <1>6 DEF js
<1>8. GoodPool(q, m, n, {}) /\ AllDispatched(q) /\ q.answers = r.answers
  BY <1>3, <1>7, ServedKeeps
<1> QED
  BY <1>5, <1>6, <1>8 DEF OnlyAnswers

\* What holds of the pool between handlers, beside the mail and the calls.
Rested(p, m, n) == GoodPool(p, m, n, {}) /\ AllDispatched(p)

\* onWorkerGone() of a worker of the pool.
LEMMA OnWorkerGoneKeeps ==
    ASSUME NEW p, NEW m, NEW n, GoodPool(p, m, n, {}), AllDispatched(p), FreshIsEmpty(m),
           NEW w, NEW q \in OnWorkerGone(p, w)
    PROVE  Rested(q, m, n) /\ OnlyAnswers(p, q)
<1>1. CASE w \notin p.workers
  BY <1>1 DEF OnWorkerGone, Rested, OnlyAnswers
<1>2. CASE w \in p.workers
  <2> DEFINE j  == p.inflight[w]
             l  == Lost(p, w)
             js == {j} \ {NoCall}
  <2>1. PICK s \in Replaced(l) : q \in Drained(Retried(s, j))
    BY <1>2 DEF OnWorkerGone
  <2>2. /\ j \in Job \cup {NoCall} /\ GoodPool(l, m, n, js)
        /\ Cardinality(l.workers) + 1 <= MaxSize /\ l.answers = p.answers
    BY <1>2, LostKeeps
  <2> HIDE DEF l, js, j
  <2>3. GoodPool(s, m, n, js) /\ s.answers = l.answers
    BY <2>1, <2>2, ReplacedKeeps
  <2>4. GoodPool(s, m, n, {j} \ {NoCall})
    BY <2>3 DEF js
  <2> DEFINE r == Retried(s, j)
  <2>5. GoodPool(r, m, n, {}) /\ OnlyAnswers(s, r)
    BY <2>2, <2>4, RetriedKeeps
  <2>6. OnlyAnswers(p, r)
    BY <2>2, <2>3, <2>5 DEF OnlyAnswers
  <2>7. q \in Drained(r)
    BY <2>1
  <2> HIDE DEF r
  <2>8. GoodPool(q, m, n, {}) /\ AllDispatched(q) /\ OnlyAnswers(r, q)
    BY <2>5, <2>7, DrainedKeeps
  <2> QED
    BY <2>6, <2>8, AnswersAdd DEF Rested
<1> QED
  BY <1>1, <1>2

\* A worker that has no place becomes idle.
LEMMA ParkKeeps ==
    ASSUME NEW p, NEW m, NEW n, NEW js, p \in PoolRecord, Cardinality(p.workers) <= MaxSize,
           NEW w \in p.workers, p.inflight[w] = NoCall, w \notin p.pending,
           \A i \in DOMAIN p.idle : p.idle[i] # w,
           IdleIsFree(p), BusyIsOwned(p), QueueWaits(p), CallsAreHeld(p, n, js),
           ResultIsAwaited(p, m), p.pending \subseteq p.workers,
           \A v \in p.workers \ {w} :
              v \in p.pending \/ p.inflight[v] # NoCall \/ Contains(p.idle, v)
    PROVE  GoodPool(Park(p, w), m, n, js) /\ Park(p, w).answers = p.answers
<1> DEFINE q == Park(p, w)
<1>1. p.idle \in Seq(Worker) /\ w \in Worker
  BY DEF PoolRecord
<1>2. /\ Append(p.idle, w) \in Seq(Worker) /\ Len(Append(p.idle, w)) = Len(p.idle) + 1
      /\ \A i \in 1..Len(p.idle) : Append(p.idle, w)[i] = p.idle[i]
      /\ Append(p.idle, w)[Len(p.idle) + 1] = w /\ Len(p.idle) \in Nat
  BY <1>1
<1>3. /\ q \in PoolRecord /\ q.idle = Append(p.idle, w) /\ q.queue = p.queue
      /\ q.inflight = p.inflight /\ q.workers = p.workers /\ q.pending = p.pending
      /\ q.answers = p.answers /\ q.thread = p.thread
  BY <1>2 DEF PoolRecord, Park
<1> HIDE DEF q
<1>4. IdleIsFree(q)
  BY <1>1, <1>2, <1>3 DEF IdleIsFree
<1>5. BusyIsOwned(q) /\ QueueWaits(q) /\ ResultIsAwaited(q, m)
  BY <1>3 DEF BusyIsOwned, QueueWaits, ResultIsAwaited
<1>6. CallsAreHeld(q, n, js)
  BY <1>3 DEF CallsAreHeld, Held, Settled
<1>7. NoneIsLost(q)
  <2>1. \A v : Contains(p.idle, v) \/ v = w => Contains(q.idle, v)
    BY <1>1, <1>2, <1>3 DEF Contains
  <2> QED
    BY <1>3, <2>1 DEF NoneIsLost
<1> QED
  BY <1>3, <1>4, <1>5, <1>6, <1>7 DEF GoodPool, BooksAgree, q

-----------------------------------------------------------------------------
(* The steps.                                                              *)

NoResult(s)  == \A i \in DOMAIN s : s[i] # "result"
OneResult(s) == \A i, k \in DOMAIN s : s[i] = "result" /\ s[k] = "result" => i = k

\* Which results are in the mail, after more was sent and after the head was
\* taken.
LEMMA MailFacts ==
    ASSUME NEW s \in Seq(Message), NEW t \in Seq(Message), NoResult(t)
    PROVE  /\ s \o t \in Seq(Message)
           /\ NoResult(s) => NoResult(s \o t) /\ OneResult(s \o <<"result">>)
           /\ OneResult(s) => OneResult(s \o t)
           /\ s # << >> =>
                 /\ Tail(s) \o t \in Seq(Message)
                 /\ NoResult(s) => NoResult(Tail(s) \o t)
                 /\ OneResult(s) => OneResult(Tail(s) \o t)
                 /\ OneResult(s) /\ Head(s) = "result" => NoResult(Tail(s) \o t)
<1>1. ASSUME NEW a \in Seq(Message)
      PROVE  /\ a \o t \in Seq(Message)
             /\ NoResult(a) => NoResult(a \o t)
             /\ OneResult(a) => OneResult(a \o t)
  <2>1. /\ a \o t \in Seq(Message) /\ Len(a \o t) = Len(a) + Len(t)
        /\ DOMAIN (a \o t) = 1..(Len(a) + Len(t)) /\ Len(a) \in Nat /\ Len(t) \in Nat
        /\ DOMAIN a = 1..Len(a) /\ DOMAIN t = 1..Len(t)
    BY ConcatProperties
  <2>2. ASSUME NEW i \in DOMAIN (a \o t), (a \o t)[i] = "result"
        PROVE  i \in DOMAIN a /\ a[i] = "result"
    <3>1. CASE i <= Len(a)
      BY <2>1, <2>2, <3>1
    <3>2. CASE i > Len(a)
      <4>1. i - Len(a) \in DOMAIN t /\ (a \o t)[i] = t[i - Len(a)]
        BY <2>1, <2>2, <3>2
      <4> QED
        BY <2>2, <4>1 DEF NoResult
    <3> QED
      BY <2>1, <3>1, <3>2
  <2>3. NoResult(a) => NoResult(a \o t)
    BY <2>2 DEF NoResult
  <2>4. OneResult(a) => OneResult(a \o t)
    BY <2>2 DEF OneResult
  <2> QED
    BY <2>1, <2>3, <2>4
<1>2. ASSUME NoResult(s)
      PROVE  OneResult(s \o <<"result">>)
  <2>1. /\ DOMAIN (s \o <<"result">>) = 1..(Len(s) + 1) /\ Len(s) \in Nat
        /\ \A i \in 1..Len(s) : (s \o <<"result">>)[i] = s[i]
    OBVIOUS
  <2>2. \A i \in DOMAIN (s \o <<"result">>) :
           (s \o <<"result">>)[i] = "result" => i = Len(s) + 1
    BY <1>2, <2>1 DEF NoResult
  <2> QED
    BY <2>2 DEF OneResult
<1>3. ASSUME s # << >>
      PROVE  /\ Tail(s) \in Seq(Message)
             /\ NoResult(s) => NoResult(Tail(s))
             /\ OneResult(s) => OneResult(Tail(s))
             /\ OneResult(s) /\ Head(s) = "result" => NoResult(Tail(s))
  <2>1. /\ Tail(s) \in Seq(Message) /\ Len(Tail(s)) = Len(s) - 1 /\ Len(s) \in Nat \ {0}
        /\ DOMAIN Tail(s) = 1..(Len(s) - 1) /\ DOMAIN s = 1..Len(s)
        /\ Head(s) = s[1]
        /\ \A i \in 1..(Len(s) - 1) : Tail(s)[i] = s[i + 1]
    BY <1>3, HeadTailProperties
  <2>2. \A i \in DOMAIN Tail(s) : i \in Nat /\ i + 1 \in DOMAIN s /\ i + 1 # 1
                                   /\ Tail(s)[i] = s[i + 1] /\ 1 \in DOMAIN s
    BY <2>1
  <2>3. NoResult(s) => NoResult(Tail(s))
    BY <2>2 DEF NoResult
  <2>4. ASSUME OneResult(s), NEW i \in DOMAIN Tail(s), NEW k \in DOMAIN Tail(s),
               Tail(s)[i] = "result", Tail(s)[k] = "result"
        PROVE  i = k
    <3>1. i + 1 = k + 1
      BY <2>2, <2>4 DEF OneResult
    <3> QED
      BY <2>2, <3>1
  <2>5. OneResult(s) /\ Head(s) = "result" => NoResult(Tail(s))
    BY <2>1, <2>2 DEF OneResult, NoResult
  <2> QED
    BY <2>1, <2>3, <2>4, <2>5 DEF OneResult
<1> QED
  BY <1>1, <1>2, <1>3

\* The results awaited, worker by worker.
LEMMA AwaitedFacts ==
    ASSUME NEW p, NEW m
    PROVE  ResultIsAwaited(p, m) <=>
              \A w \in p.workers :
                 /\ p.thread[w] = "busy" => p.inflight[w] # NoCall /\ NoResult(m[w])
                 /\ NoResult(m[w]) \/ p.inflight[w] # NoCall
                 /\ OneResult(m[w])
  BY DEF ResultIsAwaited, NoResult, OneResult

\* The books do not depend on the starts, the crashes, the threads and the
\* mail, but for the results awaited.
LEMMA SamePool ==
    ASSUME NEW p, NEW m, NEW n, NEW js, GoodPool(p, m, n, js), NEW q \in PoolRecord, NEW mm,
           ResultIsAwaited(q, mm),
           q.idle = p.idle, q.queue = p.queue, q.inflight = p.inflight,
           q.workers = p.workers, q.pending = p.pending, q.answers = p.answers
    PROVE  /\ GoodPool(q, mm, n, js) /\ OnlyAnswers(p, q)
           /\ AllDispatched(p) => AllDispatched(q)
<1>1. IdleIsFree(q) /\ BusyIsOwned(q) /\ NoneIsLost(q) /\ QueueWaits(q)
  BY DEF GoodPool, BooksAgree, IdleIsFree, BusyIsOwned, NoneIsLost, QueueWaits
<1>2. CallsAreHeld(q, n, js)
  BY DEF GoodPool, BooksAgree, CallsAreHeld, Held, Settled
<1> QED
  BY <1>1, <1>2 DEF GoodPool, BooksAgree, OnlyAnswers, AllDispatched

\* What holds between the steps.
AtRest == mail \in [Worker -> Seq(Message)] /\ Rested(pool, mail, asked)

\* A message that is no result leaves the books alone, whatever the thread
\* that sent it became but busy.
LEMMA SentKeeps ==
    ASSUME AtRest, NEW w \in Worker, NEW ms \in Seq(Message), NoResult(ms), Sent(w, ms),
           NEW state \in Thread \ {"busy"}, pool' = [pool EXCEPT !.thread[w] = state]
    PROVE  /\ mail' \in [Worker -> Seq(Message)] /\ Rested(pool', mail', asked)
           /\ OnlyAnswers(pool, pool')
<1> DEFINE m == [mail EXCEPT ![w] = mail[w] \o ms]
           th == [pool.thread EXCEPT ![w] = state]
<1>1. /\ mail \in [Worker -> Seq(Message)] /\ pool \in PoolRecord
      /\ GoodPool(pool, mail, asked, {}) /\ ResultIsAwaited(pool, mail)
      /\ pool.thread \in [Worker -> Thread] /\ pool.workers \subseteq Worker
  BY DEF AtRest, Rested, GoodPool, BooksAgree, PoolRecord
<1>2. mail' = m /\ mail[w] \in Seq(Message)
  BY <1>1 DEF Sent
<1>3. /\ mail[w] \o ms \in Seq(Message)
      /\ NoResult(mail[w]) => NoResult(mail[w] \o ms)
      /\ OneResult(mail[w]) => OneResult(mail[w] \o ms)
  BY <1>2, MailFacts
<1>4. m \in [Worker -> Seq(Message)] /\ th \in [Worker -> Thread]
  BY <1>1, <1>3
<1>5. /\ \A v \in Worker : m[v] = IF v = w THEN mail[w] \o ms ELSE mail[v]
      /\ \A v \in Worker : th[v] = IF v = w THEN state ELSE pool.thread[v]
  BY <1>1
<1>6. pool' = [pool EXCEPT !.thread = th]
  BY <1>1 DEF PoolRecord
<1> HIDE DEF m, th
<1>7. /\ pool' \in PoolRecord /\ pool'.idle = pool.idle /\ pool'.queue = pool.queue
      /\ pool'.inflight = pool.inflight /\ pool'.workers = pool.workers
      /\ pool'.pending = pool.pending /\ pool'.answers = pool.answers /\ pool'.thread = th
  BY <1>1, <1>4, <1>6 DEF PoolRecord
<1>8. ResultIsAwaited(pool', m)
  <2>1. \A v \in pool.workers :
           /\ pool.thread[v] = "busy" => pool.inflight[v] # NoCall /\ NoResult(mail[v])
           /\ NoResult(mail[v]) \/ pool.inflight[v] # NoCall
           /\ OneResult(mail[v])
    BY <1>1, AwaitedFacts
  <2>2. \A v \in pool'.workers :
           /\ pool'.thread[v] = "busy" => pool'.inflight[v] # NoCall /\ NoResult(m[v])
           /\ NoResult(m[v]) \/ pool'.inflight[v] # NoCall
           /\ OneResult(m[v])
    BY <1>1, <1>3, <1>5, <1>7, <2>1
  <2> QED
    BY <2>2, AwaitedFacts
<1>9. /\ GoodPool(pool', m, asked, {}) /\ OnlyAnswers(pool, pool')
      /\ AllDispatched(pool) => AllDispatched(pool')
  <2> DEFINE js == {}
  <2>1. GoodPool(pool, mail, asked, js)
    BY <1>1
  <2> HIDE DEF js
  <2>2. /\ GoodPool(pool', m, asked, js) /\ OnlyAnswers(pool, pool')
        /\ AllDispatched(pool) => AllDispatched(pool')
    BY <1>7, <1>8, <2>1, SamePool
  <2> QED
    BY <2>2 DEF js
<1> QED
  BY <1>2, <1>4, <1>9 DEF AtRest, Rested

\* What the threads send but for results.
LEMMA Notices ==
    \A ms \in {<<"ready">>, <<"bad">>, <<"exit0">>, <<"exit">>, <<"error", "exit">>, << >>} :
       ms \in Seq(Message) /\ NoResult(ms)
<1>1. ASSUME NEW x \in Message \ {"result"}
      PROVE  <<x>> \in Seq(Message) /\ NoResult(<<x>>)
  <2>1. DOMAIN <<x>> = {1} /\ <<x>>[1] = x
    OBVIOUS
  <2> QED
    BY <2>1 DEF NoResult
<1>2. <<"error", "exit">> \in Seq(Message) /\ NoResult(<<"error", "exit">>)
  <2>1. "error" \in Message /\ "exit" \in Message
    BY DEF Message
  <2> DEFINE s == <<"error", "exit">>
  <2>2. DOMAIN s = {1, 2} /\ s[1] = "error" /\ s[2] = "exit"
    OBVIOUS
  <2>3. NoResult(s)
    <3> HIDE DEF s
    <3> QED
      BY <2>2 DEF NoResult
  <2> QED
    BY <2>1, <2>3
<1>3. << >> \in Seq(Message) /\ NoResult(<< >>)
  BY EmptySeq DEF NoResult
<1>4. \A x \in {"ready", "bad", "exit0", "exit"} : x \in Message \ {"result"}
  BY DEF Message
<1> QED
  BY <1>1, <1>2, <1>3, <1>4

\* A thread that starts, fails to, closes, crashes or is terminated.
LEMMA ThreadStep ==
    ASSUME AtRest, NEW w \in Worker,
           ThreadStarts(w) \/ ThreadCloses(w) \/ ThreadCrashes(w)
              \/ RetireTimeout(w) \/ TerminateStarted(w)
    PROVE  /\ mail' \in [Worker -> Seq(Message)] /\ Rested(pool', mail', asked)
           /\ OnlyAnswers(pool, pool') /\ asked' = asked
<1>2. \A state \in {"up", "failed", "gone"} : state \in Thread \ {"busy"}
  BY DEF Thread
<1>3. \E ms \in {<<"ready">>, <<"bad">>, <<"exit0">>, <<"exit">>, <<"error", "exit">>, << >>},
         state \in {"up", "failed", "gone"} :
            Sent(w, ms) /\ pool' = [pool EXCEPT !.thread[w] = state]
  BY DEF ThreadStarts, ThreadCloses, ThreadCrashes, RetireTimeout, TerminateStarted
<1>4. asked' = asked
  BY DEF ThreadStarts, ThreadCloses, ThreadCrashes, RetireTimeout, TerminateStarted
<1> QED
  BY <1>2, <1>3, <1>4, Notices, SentKeeps

\* A thread that answers had a call and sent no other result.
LEMMA AnswerStep ==
    ASSUME AtRest, NEW w \in Worker, ThreadAnswers(w)
    PROVE  /\ mail' \in [Worker -> Seq(Message)] /\ Rested(pool', mail', asked)
           /\ OnlyAnswers(pool, pool') /\ asked' = asked
<1> DEFINE m == [mail EXCEPT ![w] = mail[w] \o <<"result">>]
           th == [pool.thread EXCEPT ![w] = "up"]
<1>1. /\ mail \in [Worker -> Seq(Message)] /\ pool \in PoolRecord
      /\ GoodPool(pool, mail, asked, {}) /\ ResultIsAwaited(pool, mail)
      /\ pool.thread \in [Worker -> Thread] /\ pool.workers \subseteq Worker
  BY DEF AtRest, Rested, GoodPool, BooksAgree, PoolRecord
<1>2. mail' = m /\ mail[w] \in Seq(Message) /\ pool.thread[w] = "busy" /\ asked' = asked
  BY <1>1 DEF ThreadAnswers, Sent
<1>3. /\ mail[w] \o <<"result">> \in Seq(Message)
      /\ NoResult(mail[w]) => OneResult(mail[w] \o <<"result">>)
  <2>1. <<"result">> \in Seq(Message) /\ << >> \in Seq(Message) /\ NoResult(<< >>)
    BY DEF Message, NoResult
  <2> QED
    BY <1>2, <2>1, MailFacts, ConcatProperties
<1>4. m \in [Worker -> Seq(Message)] /\ th \in [Worker -> Thread]
  BY <1>1, <1>3 DEF Thread
<1>5. /\ \A v \in Worker : m[v] = IF v = w THEN mail[w] \o <<"result">> ELSE mail[v]
      /\ \A v \in Worker : th[v] = IF v = w THEN "up" ELSE pool.thread[v]
  BY <1>1
<1>6. pool' = [pool EXCEPT !.thread = th]
  BY <1>1 DEF PoolRecord, ThreadAnswers
<1> HIDE DEF m, th
<1>7. /\ pool' \in PoolRecord /\ pool'.idle = pool.idle /\ pool'.queue = pool.queue
      /\ pool'.inflight = pool.inflight /\ pool'.workers = pool.workers
      /\ pool'.pending = pool.pending /\ pool'.answers = pool.answers /\ pool'.thread = th
  BY <1>1, <1>4, <1>6 DEF PoolRecord
<1>8. ResultIsAwaited(pool', m)
  <2>1. \A v \in pool.workers :
           /\ pool.thread[v] = "busy" => pool.inflight[v] # NoCall /\ NoResult(mail[v])
           /\ NoResult(mail[v]) \/ pool.inflight[v] # NoCall
           /\ OneResult(mail[v])
    BY <1>1, AwaitedFacts
  <2>2. \A v \in pool'.workers :
           /\ pool'.thread[v] = "busy" => pool'.inflight[v] # NoCall /\ NoResult(m[v])
           /\ NoResult(m[v]) \/ pool'.inflight[v] # NoCall
           /\ OneResult(m[v])
    BY <1>1, <1>2, <1>3, <1>5, <1>7, <2>1
  <2> QED
    BY <2>2, AwaitedFacts
<1>9. /\ GoodPool(pool', m, asked, {}) /\ OnlyAnswers(pool, pool')
      /\ AllDispatched(pool) => AllDispatched(pool')
  <2> DEFINE js == {}
  <2>1. GoodPool(pool, mail, asked, js)
    BY <1>1
  <2> HIDE DEF js
  <2>2. /\ GoodPool(pool', m, asked, js) /\ OnlyAnswers(pool, pool')
        /\ AllDispatched(pool) => AllDispatched(pool')
    BY <1>7, <1>8, <2>1, SamePool
  <2> QED
    BY <2>2 DEF js
<1> QED
  BY <1>2, <1>4, <1>9 DEF AtRest, Rested

\* A message that is taken leaves the books alone; a result taken from a
\* worker of the pool was the only one, and its thread is not busy.
LEMMA HandledKeeps ==
    ASSUME AtRest, NEW w \in Worker, NEW killed \in BOOLEAN, mail[w] # << >>,
           Handled(w, killed)
    PROVE  /\ mail' \in [Worker -> Seq(Message)] /\ FreshIsEmpty(mail')
           /\ Rested(pool, mail', asked)
           /\ Head(mail[w]) = "result" /\ w \in pool.workers =>
                 pool.inflight[w] # NoCall /\ pool.thread[w] # "busy" /\ NoResult(mail'[w])
<1> DEFINE t == IF killed THEN <<"exit">> ELSE << >>
           m == [mail EXCEPT ![w] = Tail(mail[w]) \o t]
<1>1. /\ mail \in [Worker -> Seq(Message)] /\ pool \in PoolRecord
      /\ GoodPool(pool, mail, asked, {}) /\ ResultIsAwaited(pool, mail)
      /\ pool.workers \subseteq Worker
  BY DEF AtRest, Rested, GoodPool, BooksAgree, PoolRecord
<1>2. mail' = m /\ mail[w] \in Seq(Message)
  BY <1>1 DEF Handled
<1>3. t \in Seq(Message) /\ NoResult(t)
  BY Notices
<1> HIDE DEF t
<1>4. /\ Tail(mail[w]) \o t \in Seq(Message)
      /\ NoResult(mail[w]) => NoResult(Tail(mail[w]) \o t)
      /\ OneResult(mail[w]) => OneResult(Tail(mail[w]) \o t)
      /\ OneResult(mail[w]) /\ Head(mail[w]) = "result" => NoResult(Tail(mail[w]) \o t)
  BY <1>2, <1>3, MailFacts
<1>5. m \in [Worker -> Seq(Message)]
  BY <1>1, <1>4
<1>6. \A v \in Worker : m[v] = IF v = w THEN Tail(mail[w]) \o t ELSE mail[v]
  BY <1>1
<1> HIDE DEF m
<1>7. FreshIsEmpty(m)
  BY <1>6 DEF FreshIsEmpty
<1>8. \A v \in pool.workers :
         /\ pool.thread[v] = "busy" => pool.inflight[v] # NoCall /\ NoResult(mail[v])
         /\ NoResult(mail[v]) \/ pool.inflight[v] # NoCall
         /\ OneResult(mail[v])
  BY <1>1, AwaitedFacts
<1>9. ResultIsAwaited(pool, m)
  <2>1. \A v \in pool.workers :
           /\ pool.thread[v] = "busy" => pool.inflight[v] # NoCall /\ NoResult(m[v])
           /\ NoResult(m[v]) \/ pool.inflight[v] # NoCall
           /\ OneResult(m[v])
    BY <1>1, <1>4, <1>6, <1>8
  <2> QED
    BY <2>1, AwaitedFacts
<1>10. Rested(pool, m, asked)
  BY <1>9 DEF AtRest, Rested, GoodPool, BooksAgree
<1>11. ASSUME Head(mail[w]) = "result", w \in pool.workers
       PROVE  pool.inflight[w] # NoCall /\ pool.thread[w] # "busy" /\ NoResult(m[w])
  <2>1. ~NoResult(mail[w])
    <3>1. 1 \in DOMAIN mail[w] /\ mail[w][1] = "result"
      BY <1>2, <1>11
    <3> QED
      BY <3>1 DEF NoResult
  <2> QED
    BY <1>4, <1>6, <1>8, <1>11, <2>1
<1> QED
  BY <1>2, <1>5, <1>7, <1>10, <1>11

\* A start that is settled is on no book.
LEMMA SettledStart ==
    ASSUME NEW m, NEW n, Rested(pool, m, n), NEW w
    PROVE  /\ Rested(StartSettled(w), m, n) /\ StartSettled(w).idle = pool.idle
           /\ StartSettled(w).inflight = pool.inflight
           /\ StartSettled(w).workers = pool.workers
           /\ StartSettled(w).pending = pool.pending
           /\ StartSettled(w).answers = pool.answers
<1> DEFINE q == StartSettled(w)
<1>1. /\ pool \in PoolRecord /\ ResultIsAwaited(pool, m) /\ GoodPool(pool, m, n, {})
      /\ AllDispatched(pool)
  BY DEF Rested, GoodPool, BooksAgree
<1>2. /\ q \in PoolRecord /\ q.idle = pool.idle /\ q.queue = pool.queue
      /\ q.inflight = pool.inflight /\ q.workers = pool.workers
      /\ q.pending = pool.pending /\ q.answers = pool.answers /\ q.thread = pool.thread
  BY <1>1 DEF PoolRecord, StartSettled
<1> HIDE DEF q
<1>3. ResultIsAwaited(q, m)
  BY <1>1, <1>2 DEF ResultIsAwaited
<1> DEFINE js == {}
<1>4. GoodPool(pool, m, n, js)
  BY <1>1
<1> HIDE DEF js
<1>5. GoodPool(q, m, n, js) /\ AllDispatched(q)
  BY <1>1, <1>2, <1>3, <1>4, SamePool
<1> QED
  BY <1>2, <1>5 DEF Rested, js, q

\* A handshake: the worker of the pool becomes idle, others are ignored.
LEMMA ReadyStep ==
    ASSUME AtRest, NEW w \in Worker, OnReady(w)
    PROVE  /\ mail' \in [Worker -> Seq(Message)] /\ Rested(pool', mail', asked)
           /\ OnlyAnswers(pool, pool') /\ asked' = asked
<1> DEFINE m == mail'
           n == asked
           s == StartSettled(w)
           f == [s EXCEPT !.pending = @ \ {w}, !.everReady = TRUE]
<1>1. /\ m \in [Worker -> Seq(Message)] /\ FreshIsEmpty(m) /\ Rested(pool, m, n)
      /\ asked' = asked
  <2>1. mail[w] # << >> /\ Handled(w, FALSE) /\ FALSE \in BOOLEAN /\ asked' = asked
    BY DEF OnReady, Head1
  <2> QED
    BY <2>1, HandledKeeps
<1> HIDE DEF m, n
<1>2. /\ Rested(s, m, n) /\ s.idle = pool.idle /\ s.inflight = pool.inflight
      /\ s.workers = pool.workers /\ s.pending = pool.pending /\ s.answers = pool.answers
  BY <1>1, SettledStart
<1>3. CASE w \notin pool.pending
  <2>1. pool' = s
    BY <1>3 DEF OnReady
  <2> QED
    BY <1>1, <1>2, <2>1 DEF OnlyAnswers, m, n
<1>4. CASE w \in pool.pending
  <2>1. pool' \in Drained(Park(f, w))
    BY <1>4 DEF OnReady
  <2> HIDE DEF s
  <2>2. /\ s \in PoolRecord /\ Cardinality(s.workers) <= MaxSize
        /\ IdleIsFree(s) /\ BusyIsOwned(s) /\ NoneIsLost(s) /\ QueueWaits(s)
        /\ CallsAreHeld(s, n, {}) /\ ResultIsAwaited(s, m)
    BY <1>2 DEF Rested, GoodPool, BooksAgree
  <2>3. /\ f \in PoolRecord /\ f.idle = s.idle /\ f.queue = s.queue
        /\ f.inflight = s.inflight /\ f.workers = s.workers /\ f.pending = s.pending \ {w}
        /\ f.answers = s.answers /\ f.thread = s.thread
    <3>1. TRUE \in BOOLEAN /\ s.pending \ {w} \in SUBSET Worker
      BY <2>2 DEF PoolRecord
    <3> QED
      BY <2>2, <3>1 DEF PoolRecord
  <2> HIDE DEF f
  <2>4. /\ w \in s.workers /\ s.inflight[w] = NoCall
        /\ \A i \in DOMAIN s.idle : s.idle[i] # w
    BY <1>2, <1>4, <2>2 DEF IdleIsFree, BusyIsOwned, NoneIsLost
  <2>5. IdleIsFree(f) /\ BusyIsOwned(f) /\ QueueWaits(f) /\ ResultIsAwaited(f, m)
    BY <2>2, <2>3 DEF IdleIsFree, BusyIsOwned, QueueWaits, ResultIsAwaited
  <2>6. CallsAreHeld(f, n, {})
    BY <2>2, <2>3 DEF CallsAreHeld, Held, Settled
  <2>7. /\ f.pending \subseteq f.workers /\ w \notin f.pending
        /\ \A v \in f.workers \ {w} :
              v \in f.pending \/ f.inflight[v] # NoCall \/ Contains(f.idle, v)
    BY <2>2, <2>3 DEF NoneIsLost
  <2> DEFINE js == {}
             r == Park(f, w)
  <2>8. GoodPool(r, m, n, js) /\ r.answers = f.answers
    <3>1. CallsAreHeld(f, n, js) /\ Cardinality(f.workers) <= MaxSize
      BY <2>2, <2>3, <2>6
    <3> HIDE DEF js
    <3> QED
      BY <2>3, <2>4, <2>5, <2>7, <3>1, ParkKeeps
  <2> HIDE DEF r
  <2>9. Rested(pool', m, n) /\ OnlyAnswers(r, pool')
    BY <1>1, <2>1, <2>8, DrainedKeeps DEF Rested, r
  <2> QED
    BY <1>1, <1>2, <2>3, <2>8, <2>9 DEF OnlyAnswers, m, n
<1> QED
  BY <1>3, <1>4

\* Failed starts, errors and exits.
LEMMA DeathStep ==
    ASSUME AtRest, NEW w \in Worker, OnBad(w) \/ OnError(w) \/ OnExit(w)
    PROVE  /\ mail' \in [Worker -> Seq(Message)] /\ Rested(pool', mail', asked)
           /\ OnlyAnswers(pool, pool') /\ asked' = asked
<1> DEFINE m == mail'
           n == asked
           s == StartSettled(w)
           killed == w \in pool.pending /\ pool.thread[w] # "gone"
<1>1. /\ mail[w] # << >> /\ asked' = asked
      /\ Handled(w, FALSE) \/ Handled(w, killed)
      /\ pool' \in OnWorkerGone(s, w) \/ pool' = s
  BY DEF OnBad, OnError, OnExit, Head1
<1>2. killed \in BOOLEAN /\ FALSE \in BOOLEAN
  OBVIOUS
<1> HIDE DEF killed
<1>3. m \in [Worker -> Seq(Message)] /\ FreshIsEmpty(m) /\ Rested(pool, m, n)
  BY <1>1, <1>2, HandledKeeps
<1> HIDE DEF m, n
<1>4. Rested(s, m, n) /\ s.answers = pool.answers
  BY <1>3, SettledStart
<1> HIDE DEF s
<1>5. CASE pool' = s
  BY <1>1, <1>3, <1>4, <1>5 DEF OnlyAnswers, m, n
<1>6. CASE pool' \in OnWorkerGone(s, w)
  <2>1. Rested(pool', m, n) /\ OnlyAnswers(s, pool')
    BY <1>3, <1>4, <1>6, OnWorkerGoneKeeps DEF Rested
  <2> QED
    BY <1>1, <1>3, <1>4, <2>1 DEF OnlyAnswers, m, n
<1> QED
  BY <1>1, <1>5, <1>6

\* A result: the worker parks and its call is answered if it was not.
LEMMA ResultStep ==
    ASSUME AtRest, NEW w \in Worker, OnResult(w)
    PROVE  /\ mail' \in [Worker -> Seq(Message)] /\ Rested(pool', mail', asked)
           /\ OnlyAnswers(pool, pool') /\ asked' = asked
<1> DEFINE m == mail'
           n == asked
           j == pool.inflight[w]
           f == [pool EXCEPT !.inflight[w] = NoCall]
           r == Park(f, w)
<1>1. /\ m \in [Worker -> Seq(Message)] /\ FreshIsEmpty(m) /\ Rested(pool, m, n)
      /\ asked' = asked
      /\ w \in pool.workers => j # NoCall /\ pool.thread[w] # "busy" /\ NoResult(m[w])
  <2>1. /\ mail[w] # << >> /\ Head(mail[w]) = "result" /\ Handled(w, FALSE)
        /\ FALSE \in BOOLEAN /\ asked' = asked
    BY DEF OnResult, Head1
  <2> QED
    BY <2>1, HandledKeeps
<1> HIDE DEF m, n
<1>2. CASE w \notin pool.workers
  <2>1. pool' = pool
    BY <1>2 DEF OnResult
  <2> QED
    BY <1>1, <2>1 DEF OnlyAnswers, m, n
<1>3. CASE w \in pool.workers
  <2>1. pool' \in Drained(Settle(r, j))
    BY <1>1, <1>3 DEF OnResult
  <2>2. /\ pool \in PoolRecord /\ Cardinality(pool.workers) <= MaxSize
        /\ IdleIsFree(pool) /\ BusyIsOwned(pool) /\ NoneIsLost(pool) /\ QueueWaits(pool)
        /\ CallsAreHeld(pool, n, {}) /\ ResultIsAwaited(pool, m)
    BY <1>1 DEF Rested, GoodPool, BooksAgree
  <2>3. pool.inflight \in [Worker -> Job \cup {NoCall}] /\ j \in Job /\ pool.queue \in Seq(Job)
    BY <1>1, <1>3, <2>2 DEF PoolRecord
  <2>4. /\ [pool.inflight EXCEPT ![w] = NoCall] \in [Worker -> Job \cup {NoCall}]
        /\ f = [pool EXCEPT !.inflight = [pool.inflight EXCEPT ![w] = NoCall]]
        /\ \A v \in Worker : [pool.inflight EXCEPT ![w] = NoCall][v] =
                                IF v = w THEN NoCall ELSE pool.inflight[v]
    BY <2>2, <2>3 DEF PoolRecord
  <2>5. /\ f \in PoolRecord /\ f.inflight = [pool.inflight EXCEPT ![w] = NoCall]
        /\ f.idle = pool.idle /\ f.queue = pool.queue /\ f.workers = pool.workers
        /\ f.pending = pool.pending /\ f.answers = pool.answers /\ f.thread = pool.thread
    BY <2>2, <2>4 DEF PoolRecord
  <2> HIDE DEF f
  <2>6. /\ w \notin pool.pending /\ (\A v \in Worker : pool.inflight[v] = j => v = w)
        /\ (\A i \in DOMAIN pool.queue : pool.queue[i] # j)
        /\ (\A i \in DOMAIN pool.idle : pool.idle[i] # w)
        /\ (\A v \in Worker : f.inflight[v] = IF v = w THEN NoCall ELSE pool.inflight[v])
    BY <1>1, <1>3, <2>2, <2>3, <2>4, <2>5 DEF IdleIsFree, BusyIsOwned, QueueWaits
  <2> HIDE DEF j
  <2>7. IdleIsFree(f) /\ BusyIsOwned(f)
    <3>1. \A i \in DOMAIN pool.idle : pool.idle[i] \in Worker
      BY <2>2 DEF IdleIsFree, PoolRecord
    <3> QED
      BY <2>2, <2>5, <2>6, <3>1 DEF IdleIsFree, BusyIsOwned
  <2>8. QueueWaits(f)
    <3>1. \A i \in DOMAIN pool.queue : pool.queue[i] # NoCall
      BY <2>3, PoolSizes
    <3> QED
      BY <2>2, <2>5, <2>6, <3>1 DEF QueueWaits
  <2>9. ResultIsAwaited(f, m)
    <3>1. \A v \in f.workers :
             /\ f.thread[v] = "busy" => f.inflight[v] # NoCall /\ NoResult(m[v])
             /\ NoResult(m[v]) \/ f.inflight[v] # NoCall
             /\ OneResult(m[v])
      <4>1. \A v \in pool.workers :
               /\ pool.thread[v] = "busy" => pool.inflight[v] # NoCall /\ NoResult(m[v])
               /\ NoResult(m[v]) \/ pool.inflight[v] # NoCall
               /\ OneResult(m[v])
        BY <2>2, AwaitedFacts
      <4>2. pool.workers \subseteq Worker
        BY <2>2 DEF PoolRecord
      <4> QED
        BY <1>1, <1>3, <2>5, <2>6, <4>1, <4>2
    <3> QED
      BY <3>1, AwaitedFacts
  <2>10. CallsAreHeld(f, n, {j})
    <3>0. pool.inflight[w] = j
      BY DEF j
    <3>1. ASSUME NEW i \in Job
          PROVE  Held(pool, i) <=> Held(f, i) \/ i = j
      <4>1. i # NoCall
        BY PoolSizes
      <4>2. (\E v \in Worker : pool.inflight[v] = i)
               <=> (\E v \in Worker : f.inflight[v] = i) \/ i = j
        BY <2>6, <3>0, <4>1
      <4> QED
        BY <2>5, <4>2 DEF Held
    <3>2. ~Held(f, j)
      BY <2>3, <2>5, <2>6, PoolSizes DEF Held, Contains
    <3> QED
      BY <2>2, <2>3, <2>5, <3>1, <3>2 DEF CallsAreHeld, Settled
  <2>11. \A v \in f.workers \ {w} :
            v \in f.pending \/ f.inflight[v] # NoCall \/ Contains(f.idle, v)
    <3>1. pool.workers \subseteq Worker
      BY <2>2 DEF PoolRecord
    <3> QED
      BY <2>2, <2>5, <2>6, <3>1 DEF NoneIsLost
  <2> DEFINE js == {j}
  <2>12. GoodPool(r, m, n, js) /\ r.answers = f.answers
    <3>1. CallsAreHeld(f, n, js) /\ Cardinality(f.workers) <= MaxSize
      BY <2>2, <2>5, <2>10
    <3>2. /\ w \in f.workers /\ f.inflight[w] = NoCall /\ w \notin f.pending
          /\ (\A i \in DOMAIN f.idle : f.idle[i] # w) /\ f.pending \subseteq f.workers
      BY <1>3, <2>2, <2>5, <2>6 DEF NoneIsLost
    <3>3. f \in PoolRecord
      BY <2>5
    <3> HIDE DEF js
    <3> QED
      BY <2>7, <2>8, <2>9, <2>11, <3>1, <3>2, <3>3, ParkKeeps
  <2> HIDE DEF r
  <2>13. j <= n
    BY <2>2, <2>3 DEF CallsAreHeld, Held, j
  <2>14. GoodPool(Settle(r, j), m, n, {}) /\ OnlyAnswers(r, Settle(r, j))
    BY <2>3, <2>12, <2>13, SettleKeeps
  <2> DEFINE u == Settle(r, j)
  <2>15. GoodPool(u, m, n, {}) /\ OnlyAnswers(pool, u) /\ pool' \in Drained(u)
    BY <2>1, <2>5, <2>12, <2>14 DEF OnlyAnswers
  <2> HIDE DEF u
  <2>16. Rested(pool', m, n) /\ OnlyAnswers(u, pool')
    BY <1>1, <2>15, DrainedKeeps DEF Rested
  <2> QED
    BY <1>1, <2>15, <2>16, AnswersAdd DEF m, n
<1> QED
  BY <1>2, <1>3

\* A call that is made waits; it is not answered before.
LEMMA RunStep ==
    ASSUME AtRest, asked \in Nat, Run
    PROVE  /\ mail' = mail /\ Rested(pool', mail, asked + 1) /\ asked' = asked + 1
           /\ asked + 1 \in Job /\ OnlyAnswers(pool, pool') /\ pool.answers[asked + 1] = 0
<1> DEFINE j == asked + 1
           line == Append(pool.queue, j)
           q == [pool EXCEPT !.queue = Append(@, j)]
<1>1. /\ mail' = mail /\ asked' = j /\ pool' \in Drained(q)
  BY DEF Run
<1>2. j \in Job /\ j \in Nat /\ ~(j <= asked) /\ \A i \in Job : i <= j <=> i <= asked \/ i = j
  BY PoolSizes DEF Run, Job
<1>3. /\ pool \in PoolRecord /\ Cardinality(pool.workers) <= MaxSize
      /\ IdleIsFree(pool) /\ BusyIsOwned(pool) /\ NoneIsLost(pool) /\ QueueWaits(pool)
      /\ CallsAreHeld(pool, asked, {}) /\ ResultIsAwaited(pool, mail)
  BY DEF AtRest, Rested, GoodPool, BooksAgree
<1>4. pool.queue \in Seq(Job) /\ pool.answers \in [Job -> 0..2]
  BY <1>3 DEF PoolRecord
<1> HIDE DEF j
<1>5. ~Held(pool, j) /\ pool.answers[j] = 0
  BY <1>2, <1>3, <1>4 DEF CallsAreHeld, Settled
<1>6. /\ line \in Seq(Job) /\ Len(line) = Len(pool.queue) + 1
      /\ \A i \in 1..Len(pool.queue) : line[i] = pool.queue[i]
      /\ line[Len(pool.queue) + 1] = j /\ Len(pool.queue) \in Nat
      /\ DOMAIN line = 1..(Len(pool.queue) + 1) /\ DOMAIN pool.queue = 1..Len(pool.queue)
  BY <1>2, <1>4
<1>7. /\ q \in PoolRecord /\ q.idle = pool.idle /\ q.queue = line
      /\ q.inflight = pool.inflight /\ q.workers = pool.workers
      /\ q.pending = pool.pending /\ q.answers = pool.answers /\ q.thread = pool.thread
  BY <1>3, <1>6 DEF PoolRecord
<1> HIDE DEF q, line
<1>8. IdleIsFree(q) /\ BusyIsOwned(q) /\ NoneIsLost(q) /\ ResultIsAwaited(q, mail)
  BY <1>3, <1>7 DEF IdleIsFree, BusyIsOwned, NoneIsLost, ResultIsAwaited
<1>9. QueueWaits(q)
  <2>1. /\ \A i \in 1..Len(pool.queue) : pool.queue[i] # j
        /\ \A v \in Worker : pool.inflight[v] # j
    BY <1>5, <1>6 DEF Held, Contains
  <2>2. \A i \in 1..(Len(pool.queue) + 1) : i \in 1..Len(pool.queue) \/ i = Len(pool.queue) + 1
    BY <1>6
  <2> QED
    BY <1>3, <1>6, <1>7, <2>1, <2>2 DEF QueueWaits
<1>10. \A i \in Job : Held(q, i) <=> Held(pool, i) \/ i = j
  <2>1. \A i : Contains(line, i) <=> Contains(pool.queue, i) \/ i = j
    BY <1>6 DEF Contains
  <2> QED
    BY <1>7, <2>1 DEF Held
<1>11. CallsAreHeld(q, j, {})
  BY <1>2, <1>3, <1>7, <1>10 DEF CallsAreHeld, Settled
<1>12. GoodPool(q, mail, j, {}) /\ FreshIsEmpty(mail)
  BY <1>3, <1>7, <1>8, <1>9, <1>11 DEF GoodPool, BooksAgree, FreshIsEmpty
<1>13. Rested(pool', mail, j) /\ OnlyAnswers(q, pool')
  BY <1>1, <1>12, DrainedKeeps DEF Rested
<1> QED
  BY <1>1, <1>2, <1>5, <1>7, <1>13 DEF OnlyAnswers, j

\* warm() spawns and dispatches nothing.
LEMMA WarmStep ==
    ASSUME AtRest, Warm
    PROVE  /\ mail' = mail /\ Rested(pool', mail, asked) /\ OnlyAnswers(pool, pool')
           /\ asked' = asked
<1> DEFINE js == {}
<1>1. /\ GoodPool(pool, mail, asked, js) /\ AllDispatched(pool) /\ FreshIsEmpty(mail)
      /\ pool' \in Warmed(pool) /\ mail' = mail /\ asked' = asked
  BY DEF AtRest, Rested, FreshIsEmpty, Warm
<1> HIDE DEF js
<1>2. /\ GoodPool(pool', mail, asked, js) /\ pool'.queue = pool.queue
      /\ pool'.idle = pool.idle /\ pool'.answers = pool.answers
  BY <1>1, WarmedKeeps
<1> QED
  BY <1>1, <1>2 DEF Rested, AllDispatched, OnlyAnswers, js

\* The backstop answers a call and leaves it where it is held.
LEMMA BackstopStep ==
    ASSUME AtRest, NEW j \in Job, SoftTimeout(j)
    PROVE  /\ mail' = mail /\ Rested(pool', mail, asked) /\ OnlyAnswers(pool, pool')
           /\ asked' = asked
<1> DEFINE js == {}
<1>1. /\ GoodPool(pool, mail, asked, js) /\ AllDispatched(pool) /\ (js = {j} \/ js = {})
      /\ pool' = Settle(pool, j) /\ mail' = mail /\ asked' = asked /\ j <= asked
  BY DEF AtRest, Rested, SoftTimeout
<1> HIDE DEF js
<1>2. /\ GoodPool(pool', mail, asked, {}) /\ OnlyAnswers(pool, pool')
      /\ pool'.idle = pool.idle /\ pool'.queue = pool.queue
  BY <1>1, SettleKeeps
<1> QED
  BY <1>1, <1>2 DEF Rested, AllDispatched

\* The idle workers that retire leave the stack and the pool together.
LEMMA RetireStep ==
    ASSUME AtRest, RetireIdle
    PROVE  /\ mail' = mail /\ Rested(pool', mail, asked) /\ OnlyAnswers(pool, pool')
           /\ asked' = asked
<1>1. /\ pool \in PoolRecord /\ Cardinality(pool.workers) <= MaxSize
      /\ IdleIsFree(pool) /\ BusyIsOwned(pool) /\ NoneIsLost(pool) /\ QueueWaits(pool)
      /\ CallsAreHeld(pool, asked, {}) /\ ResultIsAwaited(pool, mail) /\ AllDispatched(pool)
  BY DEF AtRest, Rested, GoodPool, BooksAgree
<1>2. PICK k \in 1..Len(pool.idle) :
         /\ LET ws   == {pool.idle[i] : i \in 1..k}
                left == pool.workers \ ws
            IN  pool' = [pool EXCEPT
                     !.workers = left,
                     !.idle = SubSeq(@, k + 1, Len(@)),
                     !.everReady = @ /\ left # {},
                     !.thread = [w \in Worker |-> IF w \in ws /\ @[w] = "up"
                                                  THEN "closing" ELSE @[w]]]
         /\ mail' = mail /\ asked' = asked
  BY DEF RetireIdle
<1> DEFINE L    == Len(pool.idle)
           ws   == {pool.idle[i] : i \in 1..k}
           left == pool.workers \ ws
           rest == SubSeq(pool.idle, k + 1, L)
           hot  == pool.everReady /\ left # {}
           th   == [w \in Worker |-> IF w \in ws /\ pool.thread[w] = "up"
                                     THEN "closing" ELSE pool.thread[w]]
<1>3. pool' = [pool EXCEPT !.workers = left, !.idle = rest, !.everReady = hot, !.thread = th]
  BY <1>2
<1>4. /\ pool.idle \in Seq(Worker) /\ L \in Nat /\ DOMAIN pool.idle = 1..L /\ k \in 1..L
      /\ pool.workers \subseteq Worker /\ pool.thread \in [Worker -> Thread]
  BY <1>1, <1>2 DEF PoolRecord
<1>5. /\ rest \in Seq(Worker) /\ Len(rest) = L - k
      /\ \A i \in 1..(L - k) : rest[i] = pool.idle[i + k]
  BY <1>4
<1>6. hot \in BOOLEAN
  OBVIOUS
<1>7. th \in [Worker -> Thread] /\ left \in SUBSET Worker
  BY <1>4 DEF Thread
<1>8. \A w \in Worker : th[w] = "busy" => pool.thread[w] = "busy"
  OBVIOUS
<1>9. /\ \A w \in ws : \E i \in 1..L : i <= k /\ pool.idle[i] = w
      /\ \A i \in 1..L : i <= k => pool.idle[i] \in ws
  BY <1>4
<1> HIDE DEF L, ws, rest, hot, th
<1>10. /\ pool' \in PoolRecord /\ pool'.idle = rest /\ pool'.queue = pool.queue
       /\ pool'.inflight = pool.inflight /\ pool'.workers = left
       /\ pool'.pending = pool.pending /\ pool'.answers = pool.answers /\ pool'.thread = th
  BY <1>1, <1>3, <1>5, <1>6, <1>7 DEF PoolRecord
<1>11. DOMAIN rest = 1..(L - k) /\ \A i \in 1..(L - k) : i + k \in 1..L /\ i + k > k
  BY <1>4, <1>5
<1>12. \A i \in 1..L : /\ pool.idle[i] \in pool.workers \ pool.pending
                       /\ pool.inflight[pool.idle[i]] = NoCall
                       /\ \A l \in 1..L : pool.idle[l] = pool.idle[i] => l = i
  BY <1>1, <1>4 DEF IdleIsFree
<1>13. \A w \in ws : w \in pool.workers \ pool.pending /\ pool.inflight[w] = NoCall
  BY <1>9, <1>12
<1>14. IdleIsFree(pool')
  <2>1. ASSUME NEW i \in 1..(L - k)
        PROVE  rest[i] \in left \ pool.pending /\ pool.inflight[rest[i]] = NoCall
    <3>1. rest[i] = pool.idle[i + k] /\ i + k \in 1..L /\ i + k > k
      BY <1>5, <1>11
    <3>2. ASSUME rest[i] \in ws
          PROVE  FALSE
      <4>1. PICK l \in 1..L : l <= k /\ pool.idle[l] = rest[i]
        BY <1>9, <3>2
      <4>2. l = i + k
        BY <1>12, <3>1, <4>1
      <4> QED
        BY <1>4, <3>1, <4>1, <4>2
    <3> QED
      BY <1>12, <3>1, <3>2
  <2>2. ASSUME NEW i \in 1..(L - k), NEW l \in 1..(L - k), rest[l] = rest[i]
        PROVE  l = i
    <3>1. l + k = i + k
      BY <1>5, <1>11, <1>12, <2>2
    <3> QED
      BY <1>4, <3>1
  <2> QED
    BY <1>10, <1>11, <2>1, <2>2 DEF IdleIsFree
<1>15. BusyIsOwned(pool')
  BY <1>1, <1>10, <1>13 DEF BusyIsOwned
<1>16. NoneIsLost(pool')
  <2>1. pool.pending \subseteq left
    BY <1>1, <1>13 DEF NoneIsLost
  <2>2. ASSUME NEW w \in left, Contains(pool.idle, w)
        PROVE  Contains(rest, w)
    <3>1. PICK i \in 1..L : pool.idle[i] = w
      BY <2>2 DEF Contains, L
    <3>2. ~(i <= k)
      BY <1>9, <2>2, <3>1
    <3>3. i - k \in 1..(L - k) /\ (i - k) + k = i
      BY <1>4, <3>2
    <3>4. rest[i - k] = w
      BY <1>5, <3>1, <3>3
    <3> QED
      BY <1>5, <3>3, <3>4 DEF Contains
  <2> QED
    BY <1>1, <1>10, <2>1, <2>2 DEF NoneIsLost
<1>17. QueueWaits(pool') /\ CallsAreHeld(pool', asked, {})
  BY <1>1, <1>10 DEF QueueWaits, CallsAreHeld, Held, Settled
<1>18. ResultIsAwaited(pool', mail)
  BY <1>1, <1>4, <1>8, <1>10 DEF ResultIsAwaited
<1>19. Cardinality(pool'.workers) <= MaxSize
  <2>1. IsFiniteSet(pool.workers)
    BY <1>4, WorkerAssumption, FS_Subset
  <2>2. Cardinality(left) <= Cardinality(pool.workers) /\ Cardinality(pool.workers) \in Nat
        /\ Cardinality(left) \in Nat
    BY <2>1, FS_Subset, FS_CardinalityType
  <2> QED
    BY <1>1, <1>10, <2>2, PoolSizes
<1>20. AllDispatched(pool')
  <2>1. pool.idle # << >>
    BY <1>4 DEF L
  <2> QED
    BY <1>1, <1>10, <2>1 DEF AllDispatched
<1> QED
  BY <1>2, <1>10, <1>14, <1>15, <1>16, <1>17, <1>18, <1>19, <1>20
     DEF Rested, GoodPool, BooksAgree, OnlyAnswers

\* Shutdown answers every call that is held and empties the books.
LEMMA DestroyStep ==
    ASSUME AtRest, Destroy
    PROVE  /\ mail' = mail /\ Rested(pool', mail, asked) /\ OnlyAnswers(pool, pool')
           /\ asked' = asked
<1> DEFINE out == {pool.inflight[w] : w \in Worker} \cup ToSet(pool.queue)
           new == [j \in Job |-> IF j \in out /\ pool.answers[j] = 0
                                 THEN 1 ELSE pool.answers[j]]
<1>1. /\ pool \in PoolRecord /\ CallsAreHeld(pool, asked, {})
  BY DEF AtRest, Rested, GoodPool, BooksAgree
<1>2. pool.answers \in [Job -> 0..2] /\ pool.queue \in Seq(Job)
  BY <1>1 DEF PoolRecord
<1>3. \A j \in Job : j \in out <=> Held(pool, j)
  BY <1>2 DEF ToSet, Held, Contains
<1> HIDE DEF out
<1>4. new \in [Job -> 0..2]
  BY <1>2
<1>5. \A j \in Job : new[j] = IF j \in out /\ pool.answers[j] = 0 THEN 1 ELSE pool.answers[j]
  OBVIOUS
<1>6. /\ mail' = mail /\ asked' = asked
      /\ pool' = [pool EXCEPT
            !.workers = {}, !.pending = {}, !.idle = << >>, !.queue = << >>,
            !.inflight = [w \in Worker |-> NoCall], !.answers = new]
  BY DEF Destroy, out
<1> HIDE DEF new
<1>7. /\ << >> \in Seq(Worker) /\ << >> \in Seq(Job)
      /\ [w \in Worker |-> NoCall] \in [Worker -> Job \cup {NoCall}]
  BY EmptySeq
<1>8. /\ pool' \in PoolRecord /\ pool'.idle = << >> /\ pool'.queue = << >>
      /\ pool'.inflight = [w \in Worker |-> NoCall] /\ pool'.workers = {}
      /\ pool'.pending = {} /\ pool'.answers = new
  BY <1>1, <1>4, <1>6, <1>7 DEF PoolRecord
<1>9. /\ IdleIsFree(pool') /\ BusyIsOwned(pool') /\ NoneIsLost(pool') /\ QueueWaits(pool')
      /\ ResultIsAwaited(pool', mail) /\ AllDispatched(pool')
  BY <1>8 DEF IdleIsFree, BusyIsOwned, NoneIsLost, QueueWaits, ResultIsAwaited, AllDispatched
<1>10. \A j \in Job : ~Held(pool', j)
  BY <1>8, PoolSizes DEF Held, Contains
<1>11. CallsAreHeld(pool', asked, {}) /\ OnlyAnswers(pool, pool')
  BY <1>1, <1>2, <1>3, <1>5, <1>8, <1>10 DEF CallsAreHeld, OnlyAnswers, Settled
<1>12. Cardinality(pool'.workers) <= MaxSize
  BY <1>8, FS_EmptySet, PoolSizes
<1> QED
  BY <1>6, <1>8, <1>9, <1>11, <1>12 DEF Rested, GoodPool, BooksAgree

\* The constructor.
LEMMA InitStep ==
    ASSUME PoolInit
    PROVE  AtRest /\ pool.answers = [j \in Job |-> 0]
<1> DEFINE none == [idle |-> << >>, queue |-> << >>,
                    inflight |-> [w \in Worker |-> NoCall],
                    workers |-> {}, pending |-> {}, starts |-> {},
                    crashes |-> 0, everReady |-> FALSE,
                    answers |-> [j \in Job |-> 0],
                    retries |-> [j \in Job |-> 0],
                    thread |-> [w \in Worker |-> "gone"]]
           js == {}
           zs == {}
<1>1. /\ mail = [w \in Worker |-> << >>] /\ asked = 0
      /\ \/ pool = none
         \/ \E ws \in Take(none, 1) : pool = Spawned(none, ws, 0)
         \/ pool = Spawned(none, zs, 1)
  BY DEF PoolInit
<1>2. /\ << >> \in Seq(Worker) /\ << >> \in Seq(Job) /\ << >> \in Seq(Message)
      /\ [w \in Worker |-> NoCall] \in [Worker -> Job \cup {NoCall}]
      /\ [j \in Job |-> 0] \in [Job -> 0..2] /\ [j \in Job |-> 0] \in [Job -> 0..MaxRetries]
      /\ [w \in Worker |-> "gone"] \in [Worker -> Thread]
  BY EmptySeq, PoolSizes DEF Thread
<1>3. mail \in [Worker -> Seq(Message)] /\ FreshIsEmpty(mail)
  BY <1>1, <1>2 DEF FreshIsEmpty
<1>4. none \in PoolRecord
  BY <1>2 DEF PoolRecord
<1>5. /\ IdleIsFree(none) /\ BusyIsOwned(none) /\ NoneIsLost(none) /\ QueueWaits(none)
      /\ ResultIsAwaited(none, mail) /\ AllDispatched(none)
  BY DEF IdleIsFree, BusyIsOwned, NoneIsLost, QueueWaits, ResultIsAwaited, AllDispatched
<1>6. CallsAreHeld(none, asked, js)
  <2>1. \A j \in Job : ~Held(none, j) /\ ~(j <= 0) /\ none.answers[j] = 0
    BY PoolSizes DEF Held, Contains, Job
  <2> HIDE DEF none
  <2> QED
    BY <1>1, <2>1 DEF CallsAreHeld, Settled
<1>7. /\ Cardinality(none.workers) = 0 /\ none.answers = [j \in Job |-> 0]
      /\ Cardinality(zs) = 0 /\ zs \subseteq Fresh(none)
  BY FS_EmptySet
<1> HIDE DEF none, js, zs
<1>8. GoodPool(none, mail, asked, js)
  BY <1>4, <1>5, <1>6, <1>7, PoolSizes DEF GoodPool, BooksAgree
<1>9. GoodPool(pool, mail, asked, js) /\ pool.queue = none.queue
      /\ pool.idle = none.idle /\ pool.answers = none.answers
  <2>1. CASE pool = none
    BY <1>8, <2>1
  <2>2. ASSUME NEW ws, NEW f \in Nat, pool = Spawned(none, ws, f), ws \subseteq Fresh(none),
               Cardinality(ws) \in {0, 1}
        PROVE  GoodPool(pool, mail, asked, js) /\ pool.queue = none.queue
               /\ pool.idle = none.idle /\ pool.answers = none.answers
    <3> DEFINE m == mail
               n == asked
               q == Spawned(none, ws, f)
    <3>1. GoodPool(none, m, n, js) /\ FreshIsEmpty(m)
      BY <1>3, <1>8
    <3>2. Cardinality(none.workers) + Cardinality(ws) <= MaxSize
      BY <1>7, <2>2, PoolSizes
    <3> HIDE DEF m, n
    <3>3. /\ GoodPool(q, m, n, js) /\ q.queue = none.queue /\ q.idle = none.idle
          /\ q.answers = none.answers
      BY <2>2, <3>1, <3>2, SpawnedKeeps
    <3> QED
      BY <2>2, <3>3 DEF m, n
  <2>3. \A ws \in Take(none, 1) : ws \subseteq Fresh(none) /\ Cardinality(ws) \in {0, 1}
    BY TakeFacts
  <2>4. 0 \in Nat /\ 1 \in Nat
    OBVIOUS
  <2>5. CASE \E ws \in Take(none, 1) : pool = Spawned(none, ws, 0)
    BY <2>2, <2>3, <2>4, <2>5
  <2>6. CASE pool = Spawned(none, zs, 1)
    BY <1>7, <2>2, <2>4, <2>6
  <2> QED
    BY <1>1, <2>1, <2>5, <2>6
<1> QED
  BY <1>3, <1>5, <1>7, <1>9 DEF AtRest, Rested, AllDispatched, js

-----------------------------------------------------------------------------
(* The theorems about the query pool.                                      *)

\* Places are counted as cardinalities.
LEMMA SmallSets ==
    \A S : /\ (S = {} => Cardinality(S) = 0)
           /\ (\E x : S = {x}) => Cardinality(S) = 1
  BY FS_EmptySet, FS_Singleton

\* Books that agree hold a call in one place, if it is not answered.
LEMMA CallsHeldOnce ==
    ASSUME AtRest, asked \in 0..MaxJobs
    PROVE  HeldOnce
<1>1. /\ pool \in PoolRecord /\ BusyIsOwned(pool) /\ QueueWaits(pool)
      /\ CallsAreHeld(pool, asked, {})
  BY DEF AtRest, Rested, GoodPool, BooksAgree
<1> SUFFICES ASSUME NEW j \in 1..asked
             PROVE  Places(j) <= 1 /\ (~Settled(pool, j) => Places(j) = 1)
  BY DEF HeldOnce
<1>2. j \in Job /\ j # NoCall /\ j <= asked
  BY PoolSizes DEF Job, NoCall
<1> DEFINE Q == {i \in DOMAIN pool.queue : pool.queue[i] = j}
           W == {w \in Worker : pool.inflight[w] = j}
<1>3. Places(j) = Cardinality(Q) + Cardinality(W)
  BY DEF Places
<1>4. ~Settled(pool, j) => Q # {} \/ W # {}
  <2>1. ~Settled(pool, j) => Held(pool, j)
    BY <1>1, <1>2 DEF CallsAreHeld
  <2>2. DOMAIN pool.queue = 1..Len(pool.queue)
    BY <1>1 DEF PoolRecord
  <2> QED
    BY <2>1, <2>2 DEF Held, Contains
<1>5. ASSUME Q # {}
      PROVE  \E i : Q = {i}
  <2>1. PICK i \in DOMAIN pool.queue : pool.queue[i] = j
    BY <1>5
  <2>2. \A k \in Q : k = i
    BY <1>1, <2>1 DEF QueueWaits
  <2>3. Q = {i}
    BY <2>1, <2>2
  <2> QED
    BY <2>3
<1>6. W = {} \/ \E w : W = {w}
  BY <1>1, <1>2 DEF BusyIsOwned
<1>7. Q = {} \/ W = {}
  BY <1>1 DEF QueueWaits
<1> HIDE DEF Q, W
<1>8. CASE Q = {} /\ W = {}
  BY <1>3, <1>4, <1>8, SmallSets
<1>9. CASE Q # {}
  <2>1. Cardinality(Q) = 1
    BY <1>5, <1>9, SmallSets
  <2>2. Cardinality(W) = 0
    BY <1>7, <1>9, SmallSets
  <2> QED
    BY <1>3, <2>1, <2>2
<1>10. CASE W # {}
  BY <1>3, <1>6, <1>7, <1>10, SmallSets
<1> QED
  BY <1>8, <1>9, <1>10

\* And every worker of the pool in one place.
LEMMA WorkersInPlace ==
    ASSUME AtRest
    PROVE  WorkerPlaces
<1>1. pool \in PoolRecord /\ BusyIsOwned(pool) /\ IdleIsFree(pool) /\ NoneIsLost(pool)
  BY DEF AtRest, Rested, GoodPool, BooksAgree
<1>2. DOMAIN pool.idle = 1..Len(pool.idle)
  BY <1>1 DEF PoolRecord
<1> SUFFICES ASSUME NEW w \in Worker
             PROVE  Cardinality({i \in DOMAIN pool.idle : pool.idle[i] = w})
                       + (IF w \in pool.pending THEN 1 ELSE 0)
                       + (IF pool.inflight[w] # NoCall THEN 1 ELSE 0)
                    = (IF w \in pool.workers THEN 1 ELSE 0)
  BY DEF WorkerPlaces
<1> DEFINE I == {i \in DOMAIN pool.idle : pool.idle[i] = w}
<1>3. I = {} \/ \E i : I = {i}
  BY <1>1 DEF IdleIsFree
<1>4. I # {} => w \in pool.workers \ pool.pending /\ pool.inflight[w] = NoCall
  BY <1>1 DEF IdleIsFree
<1>5. pool.inflight[w] # NoCall => w \in pool.workers \ pool.pending
  BY <1>1 DEF BusyIsOwned
<1>6. /\ w \in pool.pending => w \in pool.workers
      /\ w \in pool.workers => w \in pool.pending \/ pool.inflight[w] # NoCall \/ I # {}
  BY <1>1, <1>2 DEF NoneIsLost, Contains
<1> HIDE DEF I
<1>7. /\ I = {} => Cardinality(I) = 0
      /\ I # {} => Cardinality(I) = 1
  BY <1>3, SmallSets
<1> QED
  <2>1. Cardinality(I) + (IF w \in pool.pending THEN 1 ELSE 0)
           + (IF pool.inflight[w] # NoCall THEN 1 ELSE 0)
        = (IF w \in pool.workers THEN 1 ELSE 0)
    BY <1>4, <1>5, <1>6, <1>7
  <2> QED
    BY <2>1 DEF I

\* The inductive invariant: the types, and the books between the steps.
PoolRests ==
    /\ AtRest /\ asked \in 0..MaxJobs
    /\ retiring \subseteq Worker /\ doomed \subseteq Worker /\ destroyed \in BOOLEAN

\* Every step keeps it and answers open calls only; a call made is open.
LEMMA EveryPoolStep ==
    ASSUME PoolRests, [PoolNext]_poolVars
    PROVE  /\ PoolRests' /\ OnlyAnswers(pool, pool')
           /\ \/ asked' = asked
              \/ asked' = asked + 1 /\ asked' \in Job /\ pool.answers[asked'] = 0
<1> DEFINE Rest(n) == /\ mail' \in [Worker -> Seq(Message)] /\ Rested(pool', mail', n)
                      /\ OnlyAnswers(pool, pool') /\ asked' = n
           Rest0 == Rest(asked)
<1>0. /\ AtRest /\ asked \in Nat /\ asked \in 0..MaxJobs /\ retiring \subseteq Worker
      /\ doomed \subseteq Worker /\ destroyed \in BOOLEAN
      /\ mail \in [Worker -> Seq(Message)] /\ Rested(pool, mail, asked)
  BY PoolSizes DEF PoolRests, AtRest
<1>1. ASSUME Rest0, retiring' \subseteq Worker, doomed' \subseteq Worker,
             destroyed' \in BOOLEAN
      PROVE  PoolRests' /\ OnlyAnswers(pool, pool') /\ asked' = asked
  BY <1>0, <1>1, Zenon DEF PoolRests, AtRest
<1>2. /\ pool.workers \subseteq Worker
      /\ \A i \in 1..Len(pool.idle) : pool.idle[i] \in Worker
  <2>1. pool.idle \in Seq(Worker) /\ pool.workers \subseteq Worker
    BY <1>0 DEF Rested, GoodPool, PoolRecord
  <2> QED
    BY <2>1
<1>3. ASSUME NEW w \in Worker, ThreadWorks(w) \/ ThreadCrashes(w)
      PROVE  /\ Rest0 /\ retiring' \subseteq Worker /\ doomed' \subseteq Worker
             /\ destroyed' \in BOOLEAN
  <2>1. Rest0
    BY <1>0, <1>3, ThreadStep, AnswerStep DEF ThreadWorks
  <2>2. UNCHANGED <<retiring, doomed, destroyed>>
    BY <1>3 DEF ThreadWorks, ThreadStarts, ThreadAnswers, ThreadCloses, ThreadCrashes
  <2> QED
    BY <1>0, <2>1, <2>2
<1>4. ASSUME NEW w \in Worker, OnMail(w)
      PROVE  /\ Rest0 /\ retiring' \subseteq Worker /\ doomed' \subseteq Worker
             /\ destroyed' \in BOOLEAN
  <2>1. Rest0
    BY <1>0, <1>4, ReadyStep, DeathStep, ResultStep DEF OnMail
  <2>2. UNCHANGED <<doomed, destroyed>> /\ (retiring' = retiring \/ retiring' = retiring \ {w})
    BY <1>4 DEF OnMail, OnReady, OnBad, OnResult, OnError, OnExit
  <2> QED
    BY <1>0, <2>1, <2>2
<1>5. ASSUME NEW w \in Worker, RetireTimeout(w) \/ TerminateStarted(w)
      PROVE  /\ Rest0 /\ retiring' \subseteq Worker /\ doomed' \subseteq Worker
             /\ destroyed' \in BOOLEAN
  <2>1. Rest0
    BY <1>0, <1>5, ThreadStep
  <2>2. /\ destroyed' = destroyed
        /\ retiring' = retiring \/ retiring' = retiring \ {w}
        /\ doomed' = doomed \/ doomed' = doomed \ {w}
    BY <1>5 DEF RetireTimeout, TerminateStarted
  <2> QED
    BY <1>0, <2>1, <2>2
<1>6. ASSUME NEW j \in Job, SoftTimeout(j)
      PROVE  /\ Rest0 /\ retiring' \subseteq Worker /\ doomed' \subseteq Worker
             /\ destroyed' \in BOOLEAN
  <2>1. Rest0
    BY <1>0, <1>6, BackstopStep
  <2>2. UNCHANGED <<retiring, doomed, destroyed>>
    BY <1>6 DEF SoftTimeout
  <2> QED
    BY <1>0, <2>1, <2>2
<1>7. ASSUME Warm
      PROVE  /\ Rest0 /\ retiring' \subseteq Worker /\ doomed' \subseteq Worker
             /\ destroyed' \in BOOLEAN
  <2>1. Rest0
    BY <1>0, <1>7, WarmStep
  <2>2. UNCHANGED <<retiring, doomed, destroyed>>
    BY <1>7 DEF Warm
  <2> QED
    BY <1>0, <2>1, <2>2
<1>8. ASSUME RetireIdle
      PROVE  /\ Rest0 /\ retiring' \subseteq Worker /\ doomed' \subseteq Worker
             /\ destroyed' \in BOOLEAN
  <2>1. Rest0
    BY <1>0, <1>8, RetireStep
  <2>2. /\ UNCHANGED <<doomed, destroyed>>
        /\ \E k \in 1..Len(pool.idle) : retiring' = retiring \cup {pool.idle[i] : i \in 1..k}
    BY <1>8 DEF RetireIdle
  <2>3. \A k \in 1..Len(pool.idle) : \A i \in 1..k : i \in 1..Len(pool.idle)
    <3>1. Len(pool.idle) \in Nat
      BY <1>0 DEF Rested, GoodPool, PoolRecord
    <3> QED
      BY <3>1
  <2> QED
    BY <1>0, <1>2, <2>1, <2>2, <2>3
<1>9. ASSUME Destroy
      PROVE  /\ Rest0 /\ retiring' \subseteq Worker /\ doomed' \subseteq Worker
             /\ destroyed' \in BOOLEAN
  <2>1. Rest0
    BY <1>0, <1>9, DestroyStep
  <2>2. destroyed' = TRUE /\ retiring' = retiring /\ doomed' = pool.workers
    BY <1>9 DEF Destroy
  <2> QED
    BY <1>0, <1>2, <2>1, <2>2, Zenon
<1>10. CASE Run
  <2>1. /\ mail' = mail /\ Rested(pool', mail, asked + 1) /\ asked' = asked + 1
        /\ asked + 1 \in Job /\ OnlyAnswers(pool, pool') /\ pool.answers[asked + 1] = 0
    BY <1>0, <1>10, RunStep
  <2>2. UNCHANGED <<retiring, doomed, destroyed>>
    BY <1>10 DEF Run
  <2>3. asked' \in 0..MaxJobs
    BY <2>1, PoolSizes DEF Job
  <2>4. Rested(pool', mail', asked') /\ mail' \in [Worker -> Seq(Message)]
    BY <1>0, <2>1
  <2>5. retiring' \subseteq Worker /\ doomed' \subseteq Worker /\ destroyed' \in BOOLEAN
    BY <1>0, <2>2
  <2>6. PoolRests'
    BY <2>3, <2>4, <2>5, Zenon DEF PoolRests, AtRest
  <2> QED
    BY <2>1, <2>6
<1>11. CASE UNCHANGED poolVars
  BY <1>11 DEF PoolRests, AtRest, OnlyAnswers, poolVars
<1> HIDE DEF Rest0
<1> QED
  BY <1>1, <1>3, <1>4, <1>5, <1>6, <1>7, <1>8, <1>9, <1>10, <1>11, Zenon DEF PoolNext

\* So it always holds.
LEMMA PoolAlwaysRests == PoolSpec => []PoolRests
<1>1. PoolInit => PoolRests
  <2> HAVE PoolInit
  <2>1. AtRest
    BY InitStep
  <2>2. asked \in 0..MaxJobs
    BY PoolSizes DEF PoolInit
  <2>3. retiring = {} /\ doomed = {} /\ destroyed = FALSE
    BY DEF PoolInit
  <2> QED
    BY <2>1, <2>2, <2>3, Zenon DEF PoolRests
<1>2. PoolRests /\ [PoolNext]_poolVars => PoolRests'
  BY EveryPoolStep
<1> QED
  BY <1>1, <1>2, PTL DEF PoolSpec

\* PoolInv: the books of the query pool agree whenever no handler runs.  A
\* call without an answer is in the queue or with exactly one worker, every
\* worker of the pool is starting, idle once or with a call, a result comes
\* only from a worker that has a call, and no worker is idle while a call
\* waits; through crashes, replacements that throw, retries, late results
\* after the backstop, retirement and destroy().
THEOREM PoolInvariant == PoolSpec => []PoolInv
<1>1. PoolRests => PoolInv
  BY CallsHeldOnce, WorkersInPlace
     DEF PoolRests, AtRest, Rested, GoodPool, PoolInv, PoolTypeOK
<1> QED
  BY <1>1, PoolAlwaysRests, PTL

\* An answer of the query pool is final: no step of any handler, thread or
\* timer gives a call that has its answer another one (settle()).
THEOREM CallsAnsweredOnce == PoolSpec => [][OnlyAnswers(pool, pool')]_poolVars
<1>1. PoolRests /\ [PoolNext]_poolVars => [OnlyAnswers(pool, pool')]_poolVars
  BY EveryPoolStep
<1> QED
  BY <1>1, PoolAlwaysRests, PTL DEF PoolSpec

-----------------------------------------------------------------------------
(* Projects: who opens, writes and closes.                                 *)

USE FaultsAssumption, NoneAssumption, LifecycleAssumption

\* The inductive invariant: the entries, the timers and the slot agree.
SlotInv == LifecycleInv /\ WriterHasSlot /\ SlotIsNotLeaked

\* A fault, or none, keeps the count of faults in its range.
LEMMA FaultsKept ==
    ASSUME LockTypeOK, Fault \/ Fine
    PROVE  faults' \in 0..MaxFaults
BY DEF LockTypeOK, Fault, Fine

\* An entry that is not closed is of a live process.
LEMMA EntryIsAlive ==
    ASSUME TimersAgree, NEW p \in Proc, project[p] # Closed
    PROVE  Alive(p)
BY DEF TimersAgree

\* An entry that shows any activity is not the closed one.
LEMMA ActiveIsAlive ==
    ASSUME TimersAgree, NEW p \in Proc,
           \/ project[p].owner \/ project[p].refs # 0 \/ project[p].gate # "none"
           \/ project[p].retiring \/ project[p].syncing \/ project[p].listed
    PROVE  Alive(p)
BY EntryIsAlive DEF Closed

\* An entry of a live process that changes, its role apart, and stays sound,
\* keeps the invariant.
LEMMA BecomesKeeps ==
    ASSUME SlotInv, NEW p \in Proc, Alive(p), NEW e \in Project,
           EntryIsSound(e), e.owner = project[p].owner, Becomes(p, e),
           UNCHANGED <<lockVars, life>>, Fault \/ Fine,
           leases' \in 0..MaxLeases
    PROVE  SlotInv'
<1> USE DEF SlotInv, LifecycleInv, lockVars
<1>1. project' \in [Proc -> Project] /\ project'[p] = e
      /\ \A q \in Proc \ {p} : project'[q] = project[q]
  BY DEF TypeOK, Becomes
<1>2. TypeOK'
  BY <1>1, FaultsKept DEF TypeOK, LockTypeOK
<1>3. WorkIsOnOpenGraph'
  BY <1>1 DEF WorkIsOnOpenGraph
<1>4. TimersAgree'
  BY <1>1 DEF TimersAgree, Alive, HasSlot
<1>5. WriterHasSlot'
  BY <1>1 DEF WriterHasSlot, HasSlot
<1>6. SlotIsNotLeaked'
  BY <1>1 DEF SlotIsNotLeaked, HasSlot, Alive
<1> QED
  BY <1>2, <1>3, <1>4, <1>5, <1>6

-----------------------------------------------------------------------------
(* The activation.                                                         *)

\* A process that gets the slot, free or its own, becomes the writer; nobody
\* who was one loses it.
LEMMA OwnsKeeps ==
    ASSUME SlotInv, NEW p \in Proc, Alive(p), project[p].listed, Owns(p),
           UNCHANGED <<life, leases>>
    PROVE  SlotInv'
<1> DEFINE e == [project[p] EXCEPT !.owner = TRUE, !.gate = "sync", !.seen = slot']
<1> USE DEF SlotInv, LifecycleInv
<1>1. project[p] \in Project /\ EntryIsSound(project[p])
  BY DEF TypeOK, WorkIsOnOpenGraph
<1>2. /\ slot' \in Record /\ slot'.pid = p
      /\ releaseDue' = [releaseDue EXCEPT ![p] = FALSE]
      /\ readyDue' \in [Proc -> {0, 1, None}]
      /\ \A q \in Proc \ {p} : readyDue'[q] = readyDue[q]
      /\ kept' = [kept EXCEPT ![p] = "no"]
  <2>1. CASE AcquireFree(p, FALSE, "no")
    BY <2>1 DEF AcquireFree, Record, TypeOK, LockTypeOK
  <2>2. CASE AcquireOwn(p)
    BY <2>2 DEF AcquireOwn, HasSlot, TypeOK, LockTypeOK, Record
  <2> QED
    BY <2>1, <2>2 DEF Owns
<1>3. \A q \in Proc \ {p} : ~project[q].owner /\ kept[q] = "no"
  <2> SUFFICES ASSUME NEW q \in Proc \ {p}, project[q].owner \/ kept[q] # "no"
               PROVE  FALSE
    OBVIOUS
  <2>1. Alive(q) /\ HasSlot(q)
    BY ActiveIsAlive DEF WriterHasSlot, TimersAgree
  <2> QED
    BY <2>1 DEF Owns, AcquireFree, AcquireOwn, HasSlot
<1>4. e \in Project /\ e.owner /\ e.listed /\ e.gate = "sync" /\ e.seen = slot'
      /\ e.retiring = project[p].retiring /\ e.ticking = project[p].ticking
  BY <1>1, <1>2 DEF Project, Gate
<1>5. EntryIsSound(e)
  BY <1>1, <1>2, <1>4 DEF EntryIsSound
<1>6. project' \in [Proc -> Project] /\ project'[p] = e
      /\ \A q \in Proc \ {p} : project'[q] = project[q]
  BY <1>4 DEF TypeOK, Becomes, Owns
<1>7. TypeOK'
  <2>1. faults' \in 0..MaxFaults
    BY FaultsKept DEF Owns, AcquireFree, AcquireOwn, TypeOK
  <2> QED
    BY <1>2, <1>6, <2>1 DEF TypeOK, LockTypeOK, Reason
<1>8. WorkIsOnOpenGraph'
  BY <1>5, <1>6 DEF WorkIsOnOpenGraph
<1>9. TimersAgree'
  <2>1. /\ ~releaseDue'[p]
        /\ \A q \in Proc \ {p} : releaseDue'[q] = releaseDue[q]
        /\ \A q \in Proc : kept'[q] = "no"
    BY <1>2, <1>3 DEF TypeOK, LockTypeOK
  <2> QED
    BY <1>2, <1>6, <2>1 DEF TimersAgree, Alive, HasSlot
<1>10. WriterHasSlot'
  BY <1>2, <1>3, <1>6 DEF WriterHasSlot, HasSlot
<1>11. SlotIsNotLeaked'
  <2>1. project'[p].owner
    BY ONLY <1>4, <1>6
  <2>2. \A q \in Proc : HasSlot(q)' => q = p
    BY <1>2 DEF HasSlot
  <2> QED
    BY <2>1, <2>2 DEF SlotIsNotLeaked
<1> QED
  BY <1>7, <1>8, <1>9, <1>10, <1>11

\* An entry that waits for another writer's record, or no longer.
LEMMA WaitsIsSound ==
    ASSUME NEW e \in Project, EntryIsSound(e), NEW rec \in Record \cup {None},
           e.listed
    PROVE  /\ Waits(e, rec) \in Project /\ EntryIsSound(Waits(e, rec))
           /\ Waits(e, rec).owner = e.owner
           /\ Ends(e) \in Project /\ EntryIsSound(Ends(e))
           /\ Ends(e).owner = e.owner
BY DEF Waits, Ends, EntryIsSound, Project, Gate, Busy

\* Asking for the slot, whatever the answer, or putting it off until the
\* indexes are recovered.
LEMMA ActivateKeeps ==
    ASSUME SlotInv, NEW p \in Proc, Alive(p), project[p].listed,
           Activate(p) \/ Recovers(p), UNCHANGED <<life, leases>>
    PROVE  SlotInv'
<1>1. project[p] \in Project /\ EntryIsSound(project[p])
      /\ slot \in Record \cup {None} /\ leases \in 0..MaxLeases
  BY DEF SlotInv, LifecycleInv, TypeOK, LockTypeOK, WorkIsOnOpenGraph
<1>2. CASE Owns(p)
  BY <1>2, OwnsKeeps
<1>3. CASE Follows(p)
  <2>1. CASE slot # None /\ slot.daemon
    <3> DEFINE e == [project[p] EXCEPT !.gate = "connect", !.seen = slot]
    <3>1. e \in Project /\ EntryIsSound(e) /\ e.owner = project[p].owner
      BY <1>1 DEF EntryIsSound, Project, Gate, Busy
    <3> QED
      BY <1>1, <1>3, <2>1, <3>1, BecomesKeeps DEF Follows, AcquireTaken
  <2>2. CASE ~(slot # None /\ slot.daemon)
    BY <1>1, <1>3, <2>2, WaitsIsSound, BecomesKeeps DEF Follows, AcquireTaken
  <2> QED
    BY <2>1, <2>2
<1>4. CASE Recovers(p)
  <2> DEFINE e == [project[p] EXCEPT !.gate = "recover", !.seen = None]
  <2>1. e \in Project /\ EntryIsSound(e) /\ e.owner = project[p].owner
    BY <1>1 DEF EntryIsSound, Project, Gate, Busy
  <2> QED
    BY <1>1, <1>4, <2>1, BecomesKeeps DEF Recovers, KeepLock, lockVars, Fine
<1> QED
  BY <1>2, <1>3, <1>4 DEF Activate

\* ready() and the interval.
LEMMA ReadyKeeps ==
    ASSUME SlotInv, NEW p \in Proc, Ready(p)
    PROVE  SlotInv'
<1>1. project[p].listed
  BY DEF Ready, SlotInv, LifecycleInv, WorkIsOnOpenGraph, EntryIsSound
<1> QED
  BY <1>1, ActivateKeeps DEF Ready

\* An activation goes on, up to a session with a daemon or the end of a wait.
LEMMA WorksKeeps ==
    ASSUME SlotInv, NEW p \in Proc,
           Recovered(p) \/ Connected(p) \/ CaughtUpThere(p) \/ Polls(p)
    PROVE  SlotInv'
<1>1. /\ project[p] \in Project /\ EntryIsSound(project[p])
      /\ project[p].seen \in Record \cup {None} /\ project[p].listed
      /\ leases \in 0..MaxLeases
  <2>1. project[p].gate # "none"
    BY DEF Recovered, Connected, CaughtUpThere, Polls
  <2> QED
    BY <2>1 DEF SlotInv, LifecycleInv, TypeOK, WorkIsOnOpenGraph, EntryIsSound,
                Project, Busy
<1>2. Alive(p)
  BY <1>1, ActiveIsAlive DEF SlotInv, LifecycleInv
<1>3. /\ Ends(project[p]) \in Project /\ EntryIsSound(Ends(project[p]))
      /\ Ends(project[p]).owner = project[p].owner
  BY <1>1, WaitsIsSound
<1>4. CASE Recovered(p)
  <2>1. CASE Activate(p)
    BY <1>1, <1>2, <1>4, <2>1, ActivateKeeps DEF Recovered
  <2>2. CASE Fault /\ Becomes(p, Ends(project[p])) /\ UNCHANGED lockVars
    BY <1>1, <1>2, <1>3, <1>4, <2>2, BecomesKeeps DEF Recovered
  <2> QED
    BY <1>4, <2>1, <2>2 DEF Recovered
<1>5. CASE Connected(p)
  <2>1. ASSUME NEW d \in Daemon,
               Becomes(p, IF project[p].refs = 0 THEN Ends(project[p])
                  ELSE [project[p] EXCEPT !.gate = "asking", !.socket = d]),
               Fine
        PROVE  SlotInv'
    <3> DEFINE e == [project[p] EXCEPT !.gate = "asking", !.socket = d]
    <3>1. e \in Project /\ EntryIsSound(e) /\ e.owner = project[p].owner
      BY <1>1 DEF EntryIsSound, Project, Gate, Busy
    <3>2. CASE project[p].refs = 0
      BY <1>1, <1>2, <1>3, <1>5, <2>1, <3>2, BecomesKeeps DEF Connected
    <3>3. CASE project[p].refs # 0
      BY <1>1, <1>2, <1>5, <2>1, <3>1, <3>3, BecomesKeeps DEF Connected
    <3> QED
      BY <3>2, <3>3
  <2>2. CASE /\ Fault \/ Fine
             /\ Becomes(p, Waits(project[p], project[p].seen))
    BY <1>1, <1>2, <1>5, <2>2, WaitsIsSound, BecomesKeeps DEF Connected
  <2> QED
    BY <1>5, <2>1, <2>2 DEF Connected
<1>6. CASE CaughtUpThere(p)
  <2> DEFINE e == [Ends(project[p]) EXCEPT !.socket = None]
  <2>1. e \in Project /\ EntryIsSound(e) /\ e.owner = project[p].owner
    BY <1>1, <1>3 DEF EntryIsSound, Project, Gate, Busy, Ends
  <2>2. CASE Fine /\ Becomes(p, Ends(project[p]))
    BY <1>1, <1>2, <1>3, <1>6, <2>2, BecomesKeeps DEF CaughtUpThere
  <2>3. CASE (Fault \/ Fine) /\ Becomes(p, e)
    BY <1>1, <1>2, <1>6, <2>1, <2>3, BecomesKeeps DEF CaughtUpThere
  <2> QED
    BY <1>6, <2>2, <2>3 DEF CaughtUpThere
<1>7. CASE Polls(p)
  <2>1. CASE Activate(p) \/ Recovers(p)
    BY <1>1, <1>2, <1>7, <2>1, ActivateKeeps DEF Polls
  <2>2. CASE Becomes(p, Ends(project[p])) /\ KeepLock
    BY <1>1, <1>2, <1>3, <1>7, <2>2, BecomesKeeps
    DEF Polls, KeepLock, lockVars, Fine
  <2> QED
    BY <1>7, <2>1, <2>2 DEF Polls
<1> QED
  BY <1>4, <1>5, <1>6, <1>7

\* A stamp on the record, or a timer for it, moves the slot to nobody else.
LEMMA StampKeepsSlot ==
    ASSUME LockTypeOK, NEW p \in Proc, NEW e \in {0, 1}, MarkWriterReady(p, e)
    PROVE  /\ slot' \in Record \cup {None}
           /\ \A q \in Proc : HasSlot(q)' <=> HasSlot(q)
           /\ readyDue' \in [Proc -> {0, 1, None}]
           /\ \A q \in Proc \ {p} : readyDue'[q] = readyDue[q]
           /\ releaseDue' = releaseDue /\ kept' = kept /\ faults' \in 0..MaxFaults
<1>1. CASE /\ slot' = IF HasSlot(p) /\ slot.era = e
                      THEN [slot EXCEPT !.ready = TRUE] ELSE slot
           /\ readyDue' = [readyDue EXCEPT ![p] = None]
           /\ UNCHANGED <<releaseDue, kept>> /\ Fine
  <2>1. /\ slot' \in Record \cup {None} /\ (slot' = None <=> slot = None)
        /\ slot # None => slot'.pid = slot.pid
    BY <1>1 DEF LockTypeOK, HasSlot, Record
  <2> QED
    BY <1>1, <2>1, FaultsKept DEF LockTypeOK, HasSlot
<1>2. CASE /\ slot # None /\ Fault
           /\ readyDue' = [readyDue EXCEPT ![p] = IF @ = None THEN e ELSE @]
           /\ UNCHANGED <<slot, releaseDue, kept>>
  BY <1>2, FaultsKept DEF LockTypeOK, HasSlot
<1> QED
  BY <1>1, <1>2 DEF MarkWriterReady

\* The owner's catch-up ends.
LEMMA SyncEndsKeeps ==
    ASSUME SlotInv, NEW p \in Proc, SyncEnds(p)
    PROVE  SlotInv'
<1> USE DEF SlotInv, LifecycleInv
<1>1. /\ project[p] \in Project /\ EntryIsSound(project[p]) /\ project[p].listed
      /\ project[p].seen \in Record /\ leases \in 0..MaxLeases
  BY DEF SyncEnds, TypeOK, WorkIsOnOpenGraph, EntryIsSound, Project, Busy
<1>2. Alive(p)
  BY <1>1, ActiveIsAlive
<1>3. /\ Ends(project[p]) \in Project /\ EntryIsSound(Ends(project[p]))
      /\ Ends(project[p]).owner = project[p].owner
  BY <1>1, WaitsIsSound
<1>4. CASE Becomes(p, Ends(project[p])) /\ Fault /\ UNCHANGED lockVars
  BY <1>1, <1>2, <1>3, <1>4, BecomesKeeps DEF SyncEnds
<1>5. CASE /\ Becomes(p, [Ends(project[p]) EXCEPT !.caughtUp = TRUE])
           /\ MarkWriterReady(p, project[p].seen.era)
  <2> DEFINE e == [Ends(project[p]) EXCEPT !.caughtUp = TRUE]
  <2>1. e \in Project /\ EntryIsSound(e) /\ e.owner = project[p].owner
    BY <1>1, <1>3 DEF EntryIsSound, Project, Gate, Busy, Ends
  <2>2. project[p].seen.era \in {0, 1}
    BY <1>1 DEF Record
  <2>3. /\ slot' \in Record \cup {None}
        /\ \A q \in Proc : HasSlot(q)' <=> HasSlot(q)
        /\ readyDue' \in [Proc -> {0, 1, None}]
        /\ \A q \in Proc \ {p} : readyDue'[q] = readyDue[q]
        /\ releaseDue' = releaseDue /\ kept' = kept /\ faults' \in 0..MaxFaults
    BY <1>5, <2>2, StampKeepsSlot DEF TypeOK
  <2>4. project' \in [Proc -> Project] /\ project'[p] = e
        /\ \A q \in Proc \ {p} : project'[q] = project[q]
    BY <1>5, <2>1 DEF TypeOK, Becomes
  <2>5. life' = life /\ leases' = leases
    BY DEF SyncEnds
  <2>6. TypeOK'
    BY <2>3, <2>4, <2>5 DEF TypeOK, LockTypeOK
  <2>7. WorkIsOnOpenGraph'
    BY <2>1, <2>4 DEF WorkIsOnOpenGraph
  <2>8. TimersAgree'
    BY <1>2, <2>1, <2>3, <2>4, <2>5 DEF TimersAgree, Alive
  <2>9. WriterHasSlot'
    BY <2>1, <2>3, <2>4 DEF WriterHasSlot
  <2>10. SlotIsNotLeaked'
    BY <2>1, <2>3, <2>4, <2>5 DEF SlotIsNotLeaked, Alive
  <2> QED
    BY <2>6, <2>7, <2>8, <2>9, <2>10
<1> QED
  BY <1>4, <1>5 DEF SyncEnds

\* The syncs that the owner's watcher makes.
LEMMA WatcherKeeps ==
    ASSUME SlotInv, NEW p \in Proc, WatcherSyncs(p) \/ WatcherSyncEnds(p)
    PROVE  SlotInv'
<1>1. project[p] \in Project /\ EntryIsSound(project[p]) /\ project[p].listed
      /\ leases \in 0..MaxLeases
  BY DEF SlotInv, LifecycleInv, TypeOK, WorkIsOnOpenGraph, EntryIsSound,
         Project, Busy, WatcherSyncs, WatcherSyncEnds
<1>2. Alive(p)
  BY <1>1, ActiveIsAlive DEF SlotInv, LifecycleInv
<1>3. ASSUME NEW b \in BOOLEAN,
             Becomes(p, [project[p] EXCEPT !.syncing = b]), KeepLock,
             UNCHANGED <<life, leases>>
      PROVE  SlotInv'
  <2> DEFINE e == [project[p] EXCEPT !.syncing = b]
  <2>1. e \in Project /\ EntryIsSound(e) /\ e.owner = project[p].owner
    BY <1>1 DEF EntryIsSound, Project, Busy
  <2> QED
    BY <1>1, <1>2, <1>3, <2>1, BecomesKeeps DEF KeepLock, lockVars, Fine
<1> QED
  BY <1>3 DEF WatcherSyncs, WatcherSyncEnds

-----------------------------------------------------------------------------
(* Leases and retirement.                                                  *)

\* A lease is taken, on the entry that is there or on a new one.
LEMMA AcquireProjectKeeps ==
    ASSUME SlotInv, NEW p \in Proc, AcquireProject(p)
    PROVE  SlotInv'
<1>1. project[p] \in Project /\ EntryIsSound(project[p]) /\ Alive(p)
      /\ leases' \in 0..MaxLeases /\ project[p].refs \in 0..MaxRefs
      /\ project[p].refs < MaxRefs
  BY DEF SlotInv, LifecycleInv, TypeOK, WorkIsOnOpenGraph, AcquireProject, Project
<1>2. CASE project[p].listed
  <2> DEFINE e == [project[p] EXCEPT !.refs = @ + 1]
  <2>1. project[p].refs + 1 \in 0..MaxRefs
    BY <1>1
  <2>2. e \in Project /\ EntryIsSound(e) /\ e.owner = project[p].owner
    BY <1>1, <1>2, <2>1 DEF EntryIsSound, Project, Busy
  <2> QED
    BY <1>1, <1>2, <2>2, BecomesKeeps DEF AcquireProject, KeepLock, lockVars, Fine
<1>3. CASE ~project[p].listed
  <2> DEFINE e == [Closed EXCEPT !.refs = 1, !.listed = TRUE, !.ticking = TRUE]
  <2>1. 1 \in 0..MaxRefs
    BY <1>1
  <2>2. e \in Project /\ EntryIsSound(e) /\ ~e.owner /\ e.owner \in BOOLEAN
    BY <2>1 DEF EntryIsSound, Project, Busy, Closed, Gate
  <2>3. project[p].owner = e.owner
    BY <1>1, <1>3, <2>2 DEF EntryIsSound, Project
  <2> QED
    BY <1>1, <1>3, <2>2, <2>3, BecomesKeeps
    DEF AcquireProject, KeepLock, lockVars, Fine
<1> QED
  BY <1>2, <1>3

\* releaseWriterLock() of a process that has given up its role: the slot is
\* free, a timer will free it, the file could not be removed, or the slot was not
\* this process's.
LEMMA ReleaseWriterLockKeeps ==
    ASSUME SlotInv, NEW p \in Proc, Alive(p), ReleaseWriterLock(p),
           project' \in [Proc -> Project], ~project'[p].owner,
           EntryIsSound(project'[p]),
           \A q \in Proc \ {p} : project'[q] = project[q],
           UNCHANGED <<life, leases>>
    PROVE  SlotInv'
<1> USE DEF SlotInv, LifecycleInv
<1>1. /\ slot' = slot \/ (HasSlot(p) /\ slot' = None)
      /\ HasSlot(p)' => releaseDue'[p] \/ kept'[p] # "no"
      /\ kept'[p] # "no" => HasSlot(p)'
      /\ kept' \in [Proc -> Reason \cup {"no"}]
      /\ \A q \in Proc \ {p} : kept'[q] = kept[q]
      /\ releaseDue' \in [Proc -> BOOLEAN]
      /\ \A q \in Proc \ {p} : releaseDue'[q] = releaseDue[q]
      /\ readyDue' \in [Proc -> {0, 1, None}]
      /\ \A q \in Proc \ {p} : readyDue'[q] = readyDue[q]
      /\ Fault \/ Fine
  <2>1. kept[p] # "no" => HasSlot(p)
    BY DEF TimersAgree
  <2> QED
    BY <2>1 DEF ReleaseWriterLock, TypeOK, LockTypeOK, HasSlot, Reason
<1>2. TypeOK'
  BY <1>1, FaultsKept DEF TypeOK, LockTypeOK
<1>3. WorkIsOnOpenGraph'
  BY DEF WorkIsOnOpenGraph
<1>4. TimersAgree'
  BY <1>1 DEF TimersAgree, Alive, HasSlot
<1>5. \A q \in Proc \ {p} : HasSlot(q)' <=> HasSlot(q)
  BY <1>1 DEF HasSlot
<1>6. WriterHasSlot'
  BY <1>5 DEF WriterHasSlot
<1>7. SlotIsNotLeaked'
  BY <1>1, <1>5 DEF SlotIsNotLeaked, Alive
<1> QED
  BY <1>2, <1>3, <1>4, <1>6, <1>7

\* finish(), on an entry that retires.
LEMMA FinishKeeps ==
    ASSUME SlotInv, NEW p \in Proc, Alive(p), NEW e \in Project,
           EntryIsSound(e), e.listed, e.retiring, e.owner = project[p].owner,
           Finish(p, e), UNCHANGED <<life, leases>>
    PROVE  SlotInv'
<1>1. leases \in 0..MaxLeases
  BY DEF SlotInv, LifecycleInv, TypeOK
<1>2. CASE /\ e.refs > 0 /\ Becomes(p, [e EXCEPT !.retiring = FALSE, !.ticking = TRUE])
           /\ KeepLock
  <2> DEFINE g == [e EXCEPT !.retiring = FALSE, !.ticking = TRUE]
  <2>1. g \in Project /\ EntryIsSound(g) /\ g.owner = project[p].owner
    BY DEF EntryIsSound, Project, Busy
  <2> QED
    BY <1>1, <1>2, <2>1, BecomesKeeps DEF KeepLock, lockVars, Fine
<1>3. CASE e.refs = 0 /\ Busy(e) /\ Becomes(p, e) /\ KeepLock
  BY <1>1, <1>3, BecomesKeeps DEF KeepLock, lockVars, Fine
<1>4. CASE /\ e.refs = 0 /\ ~Busy(e) /\ Becomes(p, Shut(e))
           /\ IF e.owner THEN ReleaseWriterLock(p) ELSE KeepLock
  <2>1. Shut(e) \in Project /\ EntryIsSound(Shut(e)) /\ Shut(e).owner = FALSE
    BY <1>4 DEF EntryIsSound, Project, Busy, Shut, Closed, Gate
  <2>2. CASE e.owner
    <3>1. project' \in [Proc -> Project] /\ project'[p] = Shut(e)
          /\ \A q \in Proc \ {p} : project'[q] = project[q]
      BY <1>4, <2>1 DEF SlotInv, LifecycleInv, TypeOK, Becomes
    <3>2. ~project'[p].owner
      BY <2>1, <3>1
    <3> QED
      BY <1>4, <2>1, <2>2, <3>1, <3>2, ReleaseWriterLockKeeps
  <2>3. CASE ~e.owner
    <3>1. e.owner = FALSE
      BY <2>3 DEF Project
    <3> QED
      BY <1>1, <1>4, <2>1, <2>3, <3>1, BecomesKeeps DEF KeepLock, lockVars, Fine
  <2> QED
    BY <2>2, <2>3
<1> QED
  BY <1>2, <1>3, <1>4 DEF Finish

\* A lease is released, or the timer of a retirement fires.
LEMMA RetireKeeps ==
    ASSUME SlotInv, NEW p \in Proc, Release(p) \/ FinishTimer(p)
    PROVE  SlotInv'
<1>1. /\ project[p] \in Project /\ EntryIsSound(project[p])
      /\ project[p].listed /\ leases \in 0..MaxLeases
      /\ project[p].refs \in 0..MaxRefs /\ UNCHANGED <<life, leases>>
  BY DEF SlotInv, LifecycleInv, TypeOK, WorkIsOnOpenGraph, EntryIsSound,
         Project, Release, FinishTimer
<1>2. Alive(p)
  BY <1>1, ActiveIsAlive DEF SlotInv, LifecycleInv
<1>3. CASE FinishTimer(p)
  BY <1>1, <1>2, <1>3, FinishKeeps DEF FinishTimer
<1>4. CASE Release(p)
  <2> DEFINE e == [project[p] EXCEPT !.refs = @ - 1]
             g == [e EXCEPT !.retiring = TRUE, !.ticking = FALSE, !.socket = None]
  <2>1. project[p].refs > 0 /\ project[p].refs - 1 \in 0..MaxRefs
    BY <1>1, <1>4 DEF Release
  <2>2. e \in Project /\ EntryIsSound(e) /\ e.owner = project[p].owner /\ e.listed
    BY <1>1, <2>1 DEF EntryIsSound, Project, Busy
  <2>3. g \in Project /\ EntryIsSound(g) /\ g.owner = project[p].owner
        /\ g.listed /\ g.retiring
    BY <2>2 DEF EntryIsSound, Project, Busy
  <2>4. CASE Becomes(p, e) /\ KeepLock
    BY <1>1, <1>2, <2>2, <2>4, BecomesKeeps DEF KeepLock, lockVars, Fine
  <2>5. CASE Retire(p, e)
    BY <1>1, <1>2, <2>3, <2>5, FinishKeeps DEF Retire
  <2> QED
    BY <1>4, <2>4, <2>5 DEF Release
<1> QED
  BY <1>3, <1>4

-----------------------------------------------------------------------------
(* Processes and timers.                                                   *)

\* A process starts, and claims the slot, exits or does without.
LEMMA StartsKeeps ==
    ASSUME SlotInv, NEW p \in Proc, Starts(p)
    PROVE  SlotInv'
<1> USE DEF SlotInv, LifecycleInv
<1>1. /\ life[p] = "new" /\ project' = project /\ leases' = leases
      /\ life' \in [Proc -> {"new", "up", "dead"}]
      /\ life'[p] \in {"up", "dead"}
      /\ \A q \in Proc \ {p} : life'[q] = life[q]
  BY DEF Starts, Claims, TypeOK, LockTypeOK
<1>2. project[p] = Closed /\ ~releaseDue[p] /\ readyDue[p] = None
      /\ kept[p] = "no" /\ ~project[p].owner
  <2>1. ~Alive(p)
    BY <1>1 DEF Alive
  <2>2. project[p] = Closed /\ ~releaseDue[p] /\ readyDue[p] = None /\ kept[p] = "no"
    BY <2>1 DEF TimersAgree
  <2>3. ~Closed.owner
    BY DEF Closed
  <2> QED
    BY <2>2, <2>3
<1>3. Fault \/ Fine
  BY DEF Starts, Claims, KeepLock, AcquireFree, AcquireTaken, Fine
<1>4. WorkIsOnOpenGraph'
  BY <1>1 DEF WorkIsOnOpenGraph
<1>5. CASE UNCHANGED lockVars
  <2>1. slot' = slot /\ releaseDue' = releaseDue /\ readyDue' = readyDue /\ kept' = kept
    BY <1>5 DEF lockVars
  <2>2. TypeOK'
    BY <1>1, <1>3, <2>1, FaultsKept DEF TypeOK, LockTypeOK
  <2>3. ~HasSlot(p)
    BY <1>1 DEF TimersAgree
  <2>4. TimersAgree'
    BY <1>1, <1>2, <2>1 DEF TimersAgree, Alive, HasSlot
  <2>5. WriterHasSlot'
    BY <1>1, <2>1 DEF WriterHasSlot, HasSlot
  <2>6. SlotIsNotLeaked'
    BY <1>1, <2>1, <2>3 DEF SlotIsNotLeaked, HasSlot, Alive
  <2> QED
    BY <1>4, <2>2, <2>4, <2>5, <2>6
<1>6. CASE AcquireFree(p, p \in Daemon, "claim") /\ life'[p] = "up"
  <2>1. /\ slot' \in Record /\ slot'.pid = p
        /\ releaseDue' = [releaseDue EXCEPT ![p] = FALSE]
        /\ readyDue' = [readyDue EXCEPT ![p] = None]
        /\ kept' = [kept EXCEPT ![p] = "claim"]
    BY <1>6 DEF AcquireFree, Record
  <2>2. TypeOK'
    BY <1>1, <1>3, <2>1, FaultsKept DEF TypeOK, LockTypeOK, Reason
  <2>3. /\ releaseDue' = releaseDue /\ readyDue' = readyDue
        /\ kept'[p] = "claim" /\ \A q \in Proc \ {p} : kept'[q] = kept[q]
    BY <1>2, <2>1 DEF TypeOK, LockTypeOK
  <2>5. \A q \in Proc : ~project[q].owner /\ kept[q] = "no"
    <3> SUFFICES ASSUME NEW q \in Proc, project[q].owner \/ kept[q] # "no"
                 PROVE  FALSE
      OBVIOUS
    <3>1. Alive(q) /\ HasSlot(q)
      BY ActiveIsAlive DEF WriterHasSlot, TimersAgree
    <3> QED
      BY <1>6, <3>1 DEF AcquireFree, HasSlot
  <2>4. TimersAgree'
    BY <1>1, <1>2, <1>6, <2>1, <2>3, <2>5 DEF TimersAgree, Alive, HasSlot
  <2>6. WriterHasSlot'
    BY <1>1, <2>5 DEF WriterHasSlot
  <2>7. SlotIsNotLeaked'
    BY <2>1, <2>3 DEF SlotIsNotLeaked, HasSlot
  <2> QED
    BY <1>4, <2>2, <2>4, <2>6, <2>7
<1>7. \/ UNCHANGED lockVars
      \/ AcquireFree(p, p \in Daemon, "claim") /\ life'[p] = "up"
  BY DEF Starts, Claims, KeepLock, AcquireTaken, TypeOK, LockTypeOK
<1> QED
  BY <1>5, <1>6, <1>7

\* A process that is gone leaves the entries of the others as they were, but
\* for their sessions with it.
LEMMA LeavesKeeps ==
    ASSUME SlotInv, NEW p \in Proc, Alive(p), Leaves(p),
           slot' = slot \/ (HasSlot(p) /\ slot' = None),
           Fault \/ Fine, UNCHANGED leases
    PROVE  SlotInv'
<1> USE DEF SlotInv, LifecycleInv
<1>1. /\ life' \in [Proc -> {"new", "up", "dead"}] /\ life'[p] = "dead"
      /\ \A q \in Proc \ {p} : life'[q] = life[q]
      /\ releaseDue' \in [Proc -> BOOLEAN] /\ ~releaseDue'[p]
      /\ \A q \in Proc \ {p} : releaseDue'[q] = releaseDue[q]
      /\ readyDue' \in [Proc -> {0, 1, None}] /\ readyDue'[p] = None
      /\ \A q \in Proc \ {p} : readyDue'[q] = readyDue[q]
      /\ kept' \in [Proc -> Reason \cup {"no"}] /\ kept'[p] = "no"
      /\ \A q \in Proc \ {p} : kept'[q] = kept[q]
  BY DEF Leaves, TypeOK, LockTypeOK, Reason
<1>2. \A q \in Proc \ {p} : HasSlot(q)' <=> HasSlot(q)
  BY DEF HasSlot
<1>3. Closed \in Project /\ EntryIsSound(Closed) /\ ~Closed.owner
  BY DEF Closed, Project, EntryIsSound, Gate, Busy
<1>4. project'[p] = Closed
  BY DEF Leaves
<1>5. ASSUME NEW q \in Proc \ {p}
      PROVE  /\ project'[q] \in Project /\ EntryIsSound(project'[q])
             /\ project'[q].owner = project[q].owner
             /\ project[q] = Closed => project'[q] = Closed
  <2>1. project[q] \in Project /\ EntryIsSound(project[q])
    BY DEF TypeOK, WorkIsOnOpenGraph
  <2>2. project'[q] = [project[q] EXCEPT !.socket = IF @ = p THEN None ELSE @]
    BY DEF Leaves
  <2>3. project'[q] \in Project
    BY <2>1, <2>2 DEF Project
  <2>4. EntryIsSound(project'[q]) /\ project'[q].owner = project[q].owner
    BY <2>1, <2>2 DEF Project, EntryIsSound, Busy
  <2>5. ASSUME project[q] = Closed PROVE project'[q] = Closed
    <3>1. project[q].socket = None /\ p # None
      BY <2>5 DEF Closed
    <3>2. project'[q] = [Closed EXCEPT !.socket = None]
      BY <2>2, <2>5, <3>1
    <3> QED
      BY <3>2 DEF Closed
  <2> QED
    BY <2>3, <2>4, <2>5
<1>6. TypeOK'
  <2>1. project' \in [Proc -> Project]
    BY <1>3, <1>4, <1>5 DEF Leaves
  <2>2. slot' \in Record \cup {None}
    BY DEF TypeOK, LockTypeOK
  <2> QED
    BY <1>1, <2>1, <2>2, FaultsKept DEF TypeOK, LockTypeOK
<1>7. WorkIsOnOpenGraph'
  BY <1>3, <1>4, <1>5 DEF WorkIsOnOpenGraph
<1>8. TimersAgree'
  BY <1>1, <1>2, <1>3, <1>4, <1>5 DEF TimersAgree, Alive
<1>9. WriterHasSlot'
  BY <1>2, <1>3, <1>4, <1>5 DEF WriterHasSlot
<1>10. SlotIsNotLeaked'
  BY <1>1, <1>2, <1>5 DEF SlotIsNotLeaked, Alive
<1> QED
  BY <1>6, <1>7, <1>8, <1>9, <1>10

\* The writer lock's timers, which a live process may have after its entry is
\* closed.
LEMMA TimersKeep ==
    ASSUME SlotInv, NEW p \in Proc, Timers(p)
    PROVE  SlotInv'
<1> USE DEF SlotInv, LifecycleInv
<1>1. life' = life /\ project' = project /\ leases' = leases
  BY DEF Timers
<1>2. CASE ReadyTimer(p)
  <2>1. Alive(p) /\ readyDue[p] \in {0, 1} /\ MarkWriterReady(p, readyDue[p])
    BY <1>2 DEF ReadyTimer, TimersAgree, TypeOK, LockTypeOK
  <2>2. /\ slot' \in Record \cup {None}
        /\ \A q \in Proc : HasSlot(q)' <=> HasSlot(q)
        /\ readyDue' \in [Proc -> {0, 1, None}]
        /\ \A q \in Proc \ {p} : readyDue'[q] = readyDue[q]
        /\ releaseDue' = releaseDue /\ kept' = kept /\ faults' \in 0..MaxFaults
    BY <2>1, StampKeepsSlot DEF TypeOK
  <2>3. TypeOK'
    BY <1>1, <2>2 DEF TypeOK, LockTypeOK
  <2>4. WorkIsOnOpenGraph'
    BY <1>1 DEF WorkIsOnOpenGraph
  <2>5. TimersAgree'
    BY <1>1, <2>1, <2>2 DEF TimersAgree, Alive
  <2>6. WriterHasSlot' /\ SlotIsNotLeaked'
    BY <1>1, <2>2 DEF WriterHasSlot, SlotIsNotLeaked, Alive
  <2> QED
    BY <2>3, <2>4, <2>5, <2>6
<1>3. CASE ReleaseTimer(p)
  <2>1. releaseDue[p] /\ ReleaseWriterLock(p)
    BY <1>3 DEF ReleaseTimer
  <2>2. Alive(p) /\ ~project[p].owner
    BY <2>1 DEF TimersAgree
  <2>3. project \in [Proc -> Project] /\ EntryIsSound(project[p])
    BY DEF TypeOK, WorkIsOnOpenGraph
  <2> QED
    BY <1>1, <2>1, <2>2, <2>3, ReleaseWriterLockKeeps
<1> QED
  BY <1>2, <1>3 DEF Timers

-----------------------------------------------------------------------------

\* Every step keeps the entries, the timers and the slot in agreement.
LEMMA SlotStep == SlotInv /\ [Next]_vars => SlotInv'
<1> SUFFICES ASSUME SlotInv, [Next]_vars PROVE SlotInv'
  OBVIOUS
<1>1. CASE UNCHANGED vars
  BY <1>1
  DEF vars, lockVars, SlotInv, LifecycleInv, TypeOK, LockTypeOK,
      WorkIsOnOpenGraph, TimersAgree, WriterHasSlot, SlotIsNotLeaked, HasSlot,
      Alive
<1>2. ASSUME NEW p \in Proc, Starts(p) \/ AcquireProject(p) PROVE SlotInv'
  BY <1>2, StartsKeeps, AcquireProjectKeeps
<1>3. ASSUME NEW p \in Proc, Release(p) \/ FinishTimer(p) PROVE SlotInv'
  BY <1>3, RetireKeeps
<1>4. ASSUME NEW p \in Proc, Ready(p) \/ Tick(p) PROVE SlotInv'
  BY <1>4, ReadyKeeps DEF Tick
<1>5. ASSUME NEW p \in Proc, Works(p) PROVE SlotInv'
  BY <1>5, WorksKeeps, SyncEndsKeeps DEF Works
<1>6. ASSUME NEW p \in Proc, WatcherSyncs(p) \/ WatcherSyncEnds(p)
      PROVE  SlotInv'
  BY <1>6, WatcherKeeps
<1>7. ASSUME NEW p \in Proc, Timers(p) PROVE SlotInv'
  BY <1>7, TimersKeep
<1>8. ASSUME NEW p \in Proc, Stops(p) \/ Dies(p) PROVE SlotInv'
  <2>1. /\ Alive(p) /\ Leaves(p) /\ leases' = leases
        /\ slot' = slot \/ (HasSlot(p) /\ slot' = None)
        /\ Fault \/ Fine
    BY <1>8 DEF Stops, Dies, Fine
  <2> QED
    BY <2>1, LeavesKeeps
<1> QED
  BY <1>1, <1>2, <1>3, <1>4, <1>5, <1>6, <1>7, <1>8 DEF Next

\* Nothing has started, nobody has the slot.
LEMMA SlotInit == Init => SlotInv
<1> SUFFICES ASSUME Init PROVE SlotInv
  OBVIOUS
<1>1. Closed \in Project /\ EntryIsSound(Closed) /\ ~Closed.owner
  BY DEF Closed, Project, EntryIsSound, Gate, Busy
<1>2. TypeOK
  BY <1>1 DEF Init, LockInit, TypeOK, LockTypeOK
<1>3. WorkIsOnOpenGraph /\ TimersAgree /\ WriterHasSlot /\ SlotIsNotLeaked
  BY <1>1 DEF Init, LockInit, WorkIsOnOpenGraph, TimersAgree, WriterHasSlot,
              SlotIsNotLeaked, HasSlot
<1> QED
  BY <1>2, <1>3 DEF SlotInv, LifecycleInv

\* The entries of the lifecycle map agree with themselves, with the timers of
\* the writer lock and with the processes: no graph is closed under work.
THEOREM LifecycleInvariant == Spec => []LifecycleInv
<1>1. SlotInv => LifecycleInv
  BY DEF SlotInv
<1> QED
  BY <1>1, SlotInit, SlotStep, PTL DEF Spec

\* A process that watches and writes has the slot, through late releases,
\* deaths and take-overs.
THEOREM WritersHaveTheSlot == Spec => []WriterHasSlot
<1>1. SlotInv => WriterHasSlot
  BY DEF SlotInv
<1> QED
  BY <1>1, SlotInit, SlotStep, PTL DEF Spec

\* Two processes never watch and write at once.
THEOREM OneWriter ==
    Spec => [](\A p, q \in Proc : project[p].owner /\ project[q].owner => p = q)
<1>1. SlotInv => \A p, q \in Proc : project[p].owner /\ project[q].owner => p = q
  BY DEF SlotInv, WriterHasSlot, HasSlot
<1> QED
  BY <1>1, SlotInit, SlotStep, PTL DEF Spec

\* A live process that has the slot uses it, is about to give it back, has it
\* since its start, or could not remove the file: no release is forgotten.
THEOREM TheSlotIsNotLeaked == Spec => []SlotIsNotLeaked
<1>1. SlotInv => SlotIsNotLeaked
  BY DEF SlotInv
<1> QED
  BY <1>1, SlotInit, SlotStep, PTL DEF Spec
=============================================================================
