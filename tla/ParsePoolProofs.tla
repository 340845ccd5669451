--------------------------- MODULE ParsePoolProofs ---------------------------
(***************************************************************************)
(* Proofs about ParsePool, for any set of worker handles and jobs, any     *)
(* size, crash budget and recycle interval.                                *)
(***************************************************************************)
EXTENDS ParsePool, FiniteSetTheorems, SequenceTheorems, TLAPS

\* A pool whose books agree, but for the parses js that are about to be
\* answered.
GoodPool(p, js) ==
    p \in PoolType /\ Cardinality(p.workers) <= MaxSize /\ BooksAgree(p, js)

\* Parses are only answered from p to q, and only open ones.
OnlyAnswers(p, q) ==
    \A j \in Job : q.answer[j] # p.answer[j] =>
        p.answer[j] = "open" /\ q.answer[j] \in Rejection \cup {"ok"}

-----------------------------------------------------------------------------
(* The operators of the model.                                             *)

LEMMA MinOfTwo ==
    ASSUME NEW a \in Int, NEW b \in Int
    PROVE  /\ Min({a, b}) \in {a, b} /\ Min({a, b}) <= a /\ Min({a, b}) <= b
<1>1. \E x \in {a, b} : \A y \in {a, b} : x <= y
  OBVIOUS
<1> QED
  BY <1>1 DEF Min

LEMMA MinOfThree ==
    ASSUME NEW a \in Int, NEW b \in Int, NEW c \in Int
    PROVE  /\ Min({a, b, c}) \in {a, b, c} /\ Min({a, b, c}) <= a
           /\ Min({a, b, c}) <= b /\ Min({a, b, c}) <= c
<1>1. \E x \in {a, b, c} : \A y \in {a, b, c} : x <= y
  OBVIOUS
<1> QED
  BY <1>1 DEF Min

LEMMA Sizes ==
    /\ MaxSize \in Nat \ {0} /\ MaxSpawn \in Nat \ {0}
    /\ CrashBudget \in Nat \ {0} /\ RecycleInterval \in Nat \ {0}
  BY PoolAssumption

\* Counting crashes changes nothing else.
LEMMA CrashedFacts ==
    ASSUME NEW p \in PoolType, NEW f \in Nat
    PROVE  /\ Crashed(p, f) \in PoolType
           /\ Crashed(p, f).idle = p.idle /\ Crashed(p, f).queue = p.queue
           /\ Crashed(p, f).inflight = p.inflight /\ Crashed(p, f).workers = p.workers
           /\ Crashed(p, f).pending = p.pending /\ Crashed(p, f).loads = p.loads
           /\ Crashed(p, f).parses = p.parses /\ Crashed(p, f).timer = p.timer
           /\ Crashed(p, f).answer = p.answer /\ Crashed(p, f).thread = p.thread
           /\ Crashed(p, f).mail = p.mail
<1> DEFINE n == p.crashes + f
           m == Min({n, CrashBudget})
<1>1. p.crashes \in 0..CrashBudget
  BY DEF PoolType
<1>2. n \in Int /\ n \in Nat /\ CrashBudget \in Int /\ CrashBudget \in Nat
  BY <1>1, Sizes
<1>3. m \in 0..CrashBudget
  <2> HIDE DEF n
  <2>1. m \in {n, CrashBudget} /\ m <= CrashBudget
    BY <1>2, MinOfTwo, Zenon
  <2> HIDE DEF m
  <2> QED
    BY <1>2, <2>1
<1>4. Crashed(p, f) = [p EXCEPT !.crashes = m]
  BY DEF Crashed
<1> HIDE DEF m
<1> QED
  BY <1>3, <1>4 DEF PoolType

\* Spawning new workers ws keeps the books.
LEMMA SpawnedKeeps ==
    ASSUME NEW p, NEW js, NEW ws, NEW f \in Nat, GoodPool(p, js),
           ws \subseteq Fresh(p), Cardinality(p.workers) + Cardinality(ws) <= MaxSize
    PROVE  /\ GoodPool(Spawned(p, ws, f), js)
           /\ Spawned(p, ws, f).queue = p.queue /\ Spawned(p, ws, f).idle = p.idle
           /\ Spawned(p, ws, f).answer = p.answer
           /\ p.workers \subseteq Spawned(p, ws, f).workers
<1> DEFINE c == Crashed(p, f)
           q == Spawned(p, ws, f)
<1>0. p \in PoolType /\ ws \subseteq Worker
  BY DEF GoodPool, Fresh
<1>1. /\ c \in PoolType /\ c.idle = p.idle /\ c.queue = p.queue /\ c.inflight = p.inflight
      /\ c.workers = p.workers /\ c.pending = p.pending /\ c.loads = p.loads
      /\ c.parses = p.parses /\ c.timer = p.timer /\ c.answer = p.answer
      /\ c.thread = p.thread /\ c.mail = p.mail
  BY <1>0, CrashedFacts
<1> HIDE DEF c
<1>2. /\ q.idle = p.idle /\ q.queue = p.queue /\ q.inflight = p.inflight
      /\ q.workers = p.workers \cup ws /\ q.pending = p.pending \cup ws
      /\ q.timer = p.timer /\ q.answer = p.answer
      /\ q.parses = [w \in Worker |-> IF w \in ws THEN 0 ELSE p.parses[w]]
      /\ q.mail = [w \in Worker |-> IF w \in ws THEN << >> ELSE p.mail[w]]
      /\ q.thread = [w \in Worker |-> IF w \in ws THEN "loading" ELSE p.thread[w]]
  BY <1>1 DEF PoolType, Spawned, c
<1>3. q \in PoolType
  <2>1. /\ c.workers \cup ws \in SUBSET Worker /\ c.pending \cup ws \in SUBSET Worker
        /\ c.loads \cup ws \in SUBSET Worker
        /\ [w \in Worker |-> IF w \in ws THEN 0 ELSE c.parses[w]]
              \in [Worker -> 0..RecycleInterval]
        /\ [w \in Worker |-> IF w \in ws THEN << >> ELSE c.mail[w]]
              \in [Worker -> Seq({"loaded", "result", "error", "exit"})]
        /\ [w \in Worker |-> IF w \in ws THEN "loading" ELSE c.thread[w]]
              \in [Worker -> {"gone", "loading", "up", "busy"}]
    BY <1>0, <1>1, Sizes DEF PoolType
  <2> QED
    BY <1>1, <2>1 DEF Spawned, PoolType, c
<1> HIDE DEF q
<1>4. Cardinality(q.workers) <= MaxSize
  <2>1. IsFiniteSet(p.workers) /\ IsFiniteSet(ws)
    BY <1>0, WorkerAssumption, FS_Subset DEF PoolType
  <2>2. IsFiniteSet(p.workers \cap ws)
    BY <2>1, FS_Subset
  <2>3. /\ Cardinality(p.workers) \in Nat /\ Cardinality(ws) \in Nat
        /\ Cardinality(p.workers \cap ws) \in Nat
    BY <2>1, <2>2, FS_CardinalityType
  <2>4. Cardinality(p.workers \cup ws) =
          Cardinality(p.workers) + Cardinality(ws) - Cardinality(p.workers \cap ws)
    BY <2>1, FS_Union
  <2> QED
    BY <1>2, <2>3, <2>4, Sizes
<1>5. IdleIsFree(q)
  BY <1>2, <1>3 DEF GoodPool, BooksAgree, IdleIsFree, Fresh, PoolType
<1>6. BusyIsWatched(q)
  BY <1>2, <1>3 DEF GoodPool, BooksAgree, BusyIsWatched, Fresh, PoolType
<1>7. QueueWaits(q) /\ OpenIsHeld(q, js)
  BY <1>2 DEF GoodPool, BooksAgree, QueueWaits, OpenIsHeld, Held, Contains
<1>8. StartIsFirst(q)
  BY <1>2, <1>3 DEF GoodPool, BooksAgree, StartIsFirst, Fresh, PoolType
<1> QED
  BY <1>2, <1>3, <1>4, <1>5, <1>6, <1>7, <1>8 DEF GoodPool, BooksAgree, q

\* n more workers at most, where there is room for them.
LEMMA RespawnedKeeps ==
    ASSUME NEW p, NEW js, NEW n \in Int, GoodPool(p, js), Cardinality(p.workers) + n <= MaxSize,
           NEW q, (q \in Respawned(p, n) /\ n >= 0) \/ q \in Grown(p, n)
    PROVE  /\ GoodPool(q, js) /\ q.queue = p.queue /\ q.idle = p.idle
           /\ q.answer = p.answer /\ p.workers \subseteq q.workers
<1>1. CASE q = p
  BY <1>1
<1>2. ASSUME q # p
      PROVE  \E f \in Nat, ws \in SUBSET Fresh(p) :
                q = Spawned(p, ws, f) /\ Cardinality(ws) \in Nat /\ Cardinality(ws) <= n
  <2>1. Healthy(p) /\ (n > 0 \/ q \in Respawned(p, n))
    BY <1>2 DEF Grown, Respawned
  <2> DEFINE spare == CrashBudget - p.crashes
  <2>2. spare \in Nat
    BY <2>1, Sizes DEF Healthy, GoodPool, PoolType
  <2>3. CASE q \in Grown(p, n)
    BY <1>2, <2>2, <2>3 DEF Grown, kSubset
  <2>4. CASE q \in Respawned(p, n) /\ n >= 0
    BY <2>1, <2>4 DEF Respawned, kSubset
  <2> QED
    BY <2>3, <2>4
<1>3. CASE q # p
  <2>1. PICK f \in Nat, ws \in SUBSET Fresh(p) :
           q = Spawned(p, ws, f) /\ Cardinality(ws) \in Nat /\ Cardinality(ws) <= n
    BY <1>2, <1>3
  <2>2. Cardinality(p.workers) \in Nat
    BY WorkerAssumption, FS_Subset, FS_CardinalityType DEF GoodPool, PoolType
  <2>3. Cardinality(p.workers) + Cardinality(ws) <= MaxSize
    BY <2>1, <2>2, Sizes
  <2> QED
    BY <2>1, <2>3, SpawnedKeeps
<1> QED
  BY <1>1, <1>3

LEMMA SpawnOneKeeps ==
    ASSUME NEW p, NEW js, GoodPool(p, js), NEW q \in SpawnOne(p)
    PROVE  /\ GoodPool(q, js) /\ q.queue = p.queue /\ q.idle = p.idle
           /\ q.answer = p.answer
<1>1. Cardinality(p.workers) \in Nat
  BY WorkerAssumption, FS_Subset, FS_CardinalityType DEF GoodPool, PoolType
<1> QED
  BY <1>1, RespawnedKeeps, Sizes DEF SpawnOne

\* An answer takes the parse off the books.
LEMMA SettleKeeps ==
    ASSUME NEW p, NEW j \in Job, NEW a \in Rejection \cup {"ok"}, GoodPool(p, {j})
    PROVE  /\ GoodPool(Settle(p, j, a), {}) /\ OnlyAnswers(p, Settle(p, j, a))
           /\ Settle(p, j, a).idle = p.idle /\ Settle(p, j, a).queue = p.queue
<1> DEFINE q == Settle(p, j, a)
<1>1. p \in PoolType /\ p.answer[j] = "open" /\ ~Held(p, j)
  BY DEF GoodPool, BooksAgree, OpenIsHeld
<1>2. /\ q \in PoolType /\ q.idle = p.idle /\ q.queue = p.queue /\ q.inflight = p.inflight
      /\ q.workers = p.workers /\ q.pending = p.pending /\ q.parses = p.parses
      /\ q.thread = p.thread /\ q.mail = p.mail
      /\ q.answer = [p.answer EXCEPT ![j] = a] /\ q.timer = [p.timer EXCEPT ![j] = "off"]
  BY <1>1 DEF Settle, PoolType
<1>3. p.answer \in [Job -> {"new", "open", "ok"} \cup Rejection]
      /\ p.timer \in [Job -> {"off", "soft", "hard"}]
      /\ p.inflight \in [Worker -> Job \cup {None}]
  BY <1>1 DEF PoolType
<1> HIDE DEF q
<1>4. IdleIsFree(q) /\ QueueWaits(q) /\ StartIsFirst(q)
  BY <1>2 DEF GoodPool, BooksAgree, IdleIsFree, QueueWaits, StartIsFirst
<1>5. BusyIsWatched(q)
  BY <1>1, <1>2, <1>3 DEF GoodPool, BooksAgree, BusyIsWatched, Held
<1>6. OpenIsHeld(q, {})
  <2>1. \A i \in Job : Held(q, i) <=> Held(p, i)
    BY <1>2 DEF Held
  <2>2. a # "open"
    BY DEF Rejection
  <2> QED
    BY <1>1, <1>2, <1>3, <2>1, <2>2 DEF GoodPool, BooksAgree, OpenIsHeld
<1>7. OnlyAnswers(p, q)
  BY <1>1, <1>2, <1>3 DEF OnlyAnswers
<1> QED
  BY <1>2, <1>4, <1>5, <1>6, <1>7 DEF GoodPool, BooksAgree, q

\* A worker that is idle once is not idle any more.
LEMMA RemoveFirstFacts ==
    ASSUME NEW S, NEW s \in Seq(S), NEW e,
           \A i, k \in DOMAIN s : s[i] = s[k] => i = k
    PROVE  /\ RemoveFirst(s, e) \in Seq(S)
           /\ \A i \in DOMAIN RemoveFirst(s, e) :
                 /\ RemoveFirst(s, e)[i] # e
                 /\ \E k \in DOMAIN s : s[k] = RemoveFirst(s, e)[i]
                 /\ \A k \in DOMAIN RemoveFirst(s, e) :
                       RemoveFirst(s, e)[i] = RemoveFirst(s, e)[k] => i = k
<1> DEFINE r == RemoveFirst(s, e)
<1>1. CASE ~\E i \in 1..Len(s) : s[i] = e
  BY <1>1 DEF RemoveFirst
<1>2. ASSUME NEW m \in 1..Len(s), s[m] = e
      PROVE  /\ r \in Seq(S)
             /\ \A i \in DOMAIN r :
                   /\ r[i] # e /\ \E k \in DOMAIN s : s[k] = r[i]
                   /\ \A k \in DOMAIN r : r[i] = r[k] => i = k
  <2>1. {i \in 1..Len(s) : s[i] = e} = {m}
    BY <1>2
  <2>2. Min({m}) = m
    BY DEF Min
  <2>3. r = SubSeq(s, 1, m - 1) \o SubSeq(s, m + 1, Len(s))
    <3>1. SelectInSeq(s, LAMBDA v : v = e) = m
      BY <2>1, <2>2 DEF SelectInSeq
    <3>2. RemoveFirst(s, e) = RemoveAt(s, SelectInSeq(s, LAMBDA v : v = e))
      BY <1>2 DEF RemoveFirst
    <3> QED
      BY <3>1, <3>2 DEF RemoveAt
  <2> HIDE DEF r
  <2> DEFINE a == SubSeq(s, 1, m - 1)
             b == SubSeq(s, m + 1, Len(s))
  <2>a. a \in Seq(S) /\ Len(a) = m - 1 /\ \A i \in 1..(m - 1) : a[i] = s[i]
    BY <1>2
  <2>b. b \in Seq(S) /\ Len(b) = Len(s) - m /\ \A i \in 1..(Len(s) - m) : b[i] = s[i + m]
    BY <1>2
  <2> HIDE DEF a, b
  <2>4. /\ r \in Seq(S) /\ Len(r) = Len(s) - 1
        /\ \A i \in 1..Len(r) : r[i] = IF i < m THEN s[i] ELSE s[i + 1]
    <3>1. r = a \o b
      BY <2>3 DEF a, b
    <3>2. Len(r) = Len(a) + Len(b) /\ r \in Seq(S)
      BY <2>a, <2>b, <3>1, ConcatProperties
    <3>3. Len(s) \in Nat
      OBVIOUS
    <3>4. ASSUME NEW i \in 1..Len(r)
          PROVE  r[i] = IF i < m THEN s[i] ELSE s[i + 1]
      <4>1. r[i] = IF i <= Len(a) THEN a[i] ELSE b[i - Len(a)]
        BY <2>a, <2>b, <3>1, <3>2, <3>4
      <4>2. CASE i < m
        BY <2>a, <4>1, <4>2, <3>3, <3>4
      <4>3. CASE ~(i < m)
        <5>1. i - (m - 1) \in 1..(Len(s) - m) /\ i - (m - 1) + m = i + 1
          BY <2>a, <2>b, <3>2, <3>3, <3>4, <4>3
        <5>2. r[i] = b[i - (m - 1)]
          BY <2>a, <4>1, <4>3, <3>3, <3>4
        <5> QED
          BY <2>b, <4>3, <5>1, <5>2
      <4> QED
        BY <4>2, <4>3
    <3> QED
      BY <2>a, <2>b, <3>2, <3>3, <3>4
  <2>5. Len(s) \in Nat /\ DOMAIN s = 1..Len(s) /\ DOMAIN r = 1..Len(r)
    BY <2>4
  <2> DEFINE K(i) == IF i < m THEN i ELSE i + 1
  <2>6. \A i \in DOMAIN r : K(i) \in DOMAIN s /\ K(i) # m /\ r[i] = s[K(i)]
    BY <2>4, <2>5
  <2>7. \A i, k \in DOMAIN r : K(i) = K(k) => i = k
    BY <2>4, <2>5
  <2> HIDE DEF K
  <2> QED
    BY <1>2, <2>4, <2>5, <2>6, <2>7
<1> QED
  BY <1>1, <1>2

\* A worker that is removed leaves the parse it had to be answered.
LEMMA RemovedKeeps ==
    ASSUME NEW p, NEW js \in SUBSET Job, GoodPool(p, js), NEW w \in Worker
    PROVE  /\ p.inflight[w] \in Job \cup {None}
           /\ GoodPool(Removed(p, w), js \cup ({p.inflight[w]} \ {None}))
           /\ Cardinality(Removed(p, w).workers) <= Cardinality(p.workers)
           /\ Removed(p, w).queue = p.queue /\ Removed(p, w).answer = p.answer
<1> DEFINE q == Removed(p, w)
           j == p.inflight[w]
<1>1. p \in PoolType
  BY DEF GoodPool
<1>2. /\ p.idle \in Seq(Worker) /\ p.inflight \in [Worker -> Job \cup {None}]
      /\ p.parses \in [Worker -> 0..RecycleInterval] /\ p.workers \subseteq Worker
      /\ p.thread \in [Worker -> {"gone", "loading", "up", "busy"}] /\ p.queue \in Seq(Job)
  BY <1>1 DEF PoolType
<1>3. /\ RemoveFirst(p.idle, w) \in Seq(Worker)
      /\ \A i \in DOMAIN RemoveFirst(p.idle, w) :
            /\ RemoveFirst(p.idle, w)[i] # w
            /\ \E k \in DOMAIN p.idle : p.idle[k] = RemoveFirst(p.idle, w)[i]
            /\ \A k \in DOMAIN RemoveFirst(p.idle, w) :
                  RemoveFirst(p.idle, w)[i] = RemoveFirst(p.idle, w)[k] => i = k
  BY <1>2, RemoveFirstFacts DEF GoodPool, BooksAgree, IdleIsFree
<1>4. /\ q.idle = RemoveFirst(p.idle, w) /\ q.queue = p.queue
      /\ q.inflight = [p.inflight EXCEPT ![w] = None]
      /\ q.workers = p.workers \ {w} /\ q.pending = p.pending \ {w}
      /\ q.parses = [p.parses EXCEPT ![w] = 0] /\ q.timer = p.timer /\ q.answer = p.answer
      /\ q.thread = [p.thread EXCEPT ![w] = "gone"] /\ q.mail = p.mail
  BY <1>1 DEF Removed, PoolType
<1>5. q \in PoolType
  <2>1. /\ [p.inflight EXCEPT ![w] = None] \in [Worker -> Job \cup {None}]
        /\ [p.parses EXCEPT ![w] = 0] \in [Worker -> 0..RecycleInterval]
        /\ [p.thread EXCEPT ![w] = "gone"] \in [Worker -> {"gone", "loading", "up", "busy"}]
    BY <1>2, Sizes
  <2> QED
    BY <1>1, <1>3, <2>1 DEF Removed, PoolType
<1> HIDE DEF q
<1>6. Cardinality(q.workers) <= Cardinality(p.workers) /\ Cardinality(q.workers) <= MaxSize
  <2>1. IsFiniteSet(p.workers) /\ q.workers \in SUBSET p.workers
    BY <1>2, <1>4, WorkerAssumption, FS_Subset
  <2>2. Cardinality(q.workers) <= Cardinality(p.workers) /\ Cardinality(p.workers) \in Nat
        /\ Cardinality(q.workers) \in Nat
    BY <2>1, FS_Subset, FS_CardinalityType
  <2> QED
    BY <2>2, Sizes DEF GoodPool
<1>7. IdleIsFree(q)
  BY <1>2, <1>3, <1>4 DEF GoodPool, BooksAgree, IdleIsFree
<1>8. BusyIsWatched(q) /\ QueueWaits(q)
  BY <1>2, <1>4, JobAssumption DEF GoodPool, BooksAgree, BusyIsWatched, QueueWaits, None
<1>9. OpenIsHeld(q, js \cup ({j} \ {None}))
  <2>1. \A i \in Job : Held(p, i) <=> Held(q, i) \/ i = j
    BY <1>2, <1>4, JobAssumption DEF Held, None
  <2>2. j # None => ~Held(q, j)
    BY <1>2, <1>4 DEF GoodPool, BooksAgree, BusyIsWatched, QueueWaits, Held, Contains
  <2> QED
    BY <1>2, <1>4, <2>1, <2>2, JobAssumption DEF GoodPool, BooksAgree, OpenIsHeld, None
<1>10. StartIsFirst(q)
  BY <1>2, <1>4 DEF GoodPool, BooksAgree, StartIsFirst
<1> QED
  BY <1>2, <1>4, <1>5, <1>6, <1>7, <1>8, <1>9, <1>10 DEF GoodPool, BooksAgree, q

\* Dispatching hands the head of the queue to idle workers, one each, and goes
\* on as long as there are both.
LEMMA DispatchedKeeps ==
    ASSUME NEW p, GoodPool(p, {})
    PROVE  /\ GoodPool(Dispatched(p), {}) /\ AllDispatched(Dispatched(p))
           /\ Dispatched(p).answer = p.answer /\ Dispatched(p).workers = p.workers
<1> DEFINE L  == Len(p.idle)
           M  == Len(p.queue)
           n  == Min({L, M})
           At(w) == CHOOSE k \in 1..n : p.idle[L + 1 - k] = w
           ws == {p.idle[L + 1 - k] : k \in 1..n}
           js == {p.queue[k] : k \in 1..n}
           q  == Dispatched(p)
<1>1. p \in PoolType
  BY DEF GoodPool
<1>2. /\ p.idle \in Seq(Worker) /\ p.queue \in Seq(Job)
      /\ p.inflight \in [Worker -> Job \cup {None}]
      /\ p.parses \in [Worker -> 0..RecycleInterval]
      /\ p.timer \in [Job -> {"off", "soft", "hard"}]
      /\ p.thread \in [Worker -> {"gone", "loading", "up", "busy"}]
  BY <1>1 DEF PoolType
<1>3. /\ L \in Nat /\ M \in Nat /\ DOMAIN p.idle = 1..L /\ DOMAIN p.queue = 1..M
      /\ \A i \in 1..L : p.idle[i] \in Worker
      /\ \A i \in 1..M : p.queue[i] \in Job
  BY <1>2
<1>4. n \in Nat /\ n <= L /\ n <= M /\ n \in {L, M}
  <2> HIDE DEF L, M
  <2>1. L \in Int /\ M \in Int
    BY <1>3
  <2>2. n \in {L, M} /\ n <= L /\ n <= M
    BY <2>1, MinOfTwo, Zenon
  <2> HIDE DEF n
  <2> QED
    BY <1>3, <2>2
<1> DEFINE
    newIdle     == SubSeq(p.idle, 1, L - n)
    newQueue    == SubSeq(p.queue, n + 1, M)
    newInflight == [w \in Worker |-> IF w \in ws THEN p.queue[At(w)] ELSE p.inflight[w]]
    newParses   == [w \in Worker |-> IF w \in ws THEN p.parses[w] + 1 ELSE p.parses[w]]
    newTimer    == [j \in Job |-> IF j \in js THEN "soft" ELSE p.timer[j]]
    newThread   == [w \in Worker |-> IF w \in ws /\ p.thread[w] = "up"
                                     THEN "busy" ELSE p.thread[w]]
<1>5. q = [p EXCEPT !.idle = newIdle, !.queue = newQueue, !.inflight = newInflight,
                    !.parses = newParses, !.timer = newTimer, !.thread = newThread]
  BY DEF Dispatched
<1> HIDE DEF n, q
<1>6. \A w \in ws : At(w) \in 1..n /\ p.idle[L + 1 - At(w)] = w
  OBVIOUS
<1>7. \A k \in 1..n : p.idle[L + 1 - k] \in ws /\ L + 1 - k \in 1..L
  BY <1>3, <1>4
<1> HIDE DEF At
<1>8. \A w \in ws : w \in Worker /\ \E i \in 1..L : i > L - n /\ p.idle[i] = w
  BY <1>3, <1>4
<1>9. /\ \A i \in 1..L : /\ p.idle[i] \in p.workers \ p.pending /\ p.inflight[p.idle[i]] = None
                         /\ p.parses[p.idle[i]] < RecycleInterval
      /\ \A i, k \in 1..L : p.idle[i] = p.idle[k] => i = k
  BY <1>3 DEF GoodPool, BooksAgree, IdleIsFree
<1>10. /\ \A i, k \in 1..M : p.queue[i] = p.queue[k] => i = k
       /\ \A i \in 1..M, w \in Worker : p.inflight[w] # p.queue[i]
  BY <1>3 DEF GoodPool, BooksAgree, QueueWaits
<1>11. /\ \A w \in ws : /\ w \in p.workers \ p.pending /\ p.inflight[w] = None
                        /\ p.parses[w] < RecycleInterval
       /\ \A i \in 1..(L - n) : p.idle[i] \notin ws
       /\ \A k \in 1..n : At(p.idle[L + 1 - k]) = k
  <2>1. \A w \in ws : /\ w \in p.workers \ p.pending /\ p.inflight[w] = None
                      /\ p.parses[w] < RecycleInterval
    BY <1>8, <1>9
  <2>2. \A i \in 1..(L - n) : p.idle[i] \notin ws
    BY <1>3, <1>4, <1>8, <1>9
  <2>3. ASSUME NEW k \in 1..n
        PROVE  At(p.idle[L + 1 - k]) = k
    <3> DEFINE w == p.idle[L + 1 - k]
               a == At(w)
    <3>1. w \in ws
      BY <1>7
    <3>2. a \in 1..n /\ p.idle[L + 1 - a] = w
      BY <1>6, <3>1
    <3> HIDE DEF a
    <3>3. L + 1 - a \in 1..L /\ L + 1 - k \in 1..L
      BY <1>3, <1>4, <3>2
    <3>4. L + 1 - a = L + 1 - k
      BY <1>9, <3>2, <3>3
    <3>5. a = k
      BY <1>3, <1>4, <3>2, <3>4
    <3> QED
      BY <3>5 DEF a
  <2> QED
    BY <2>1, <2>2, <2>3
<1>12. /\ newIdle \in Seq(Worker) /\ Len(newIdle) = L - n
       /\ \A i \in 1..(L - n) : newIdle[i] = p.idle[i]
  BY <1>2, <1>3, <1>4
<1>13. /\ newQueue \in Seq(Job) /\ Len(newQueue) = M - n
       /\ \A i \in 1..(M - n) : newQueue[i] = p.queue[i + n]
  BY <1>2, <1>3, <1>4
<1> HIDE DEF L, M, newIdle, newQueue, ws
<1>14. /\ newInflight \in [Worker -> Job \cup {None}]
       /\ newParses \in [Worker -> 0..RecycleInterval]
       /\ newTimer \in [Job -> {"off", "soft", "hard"}]
       /\ newThread \in [Worker -> {"gone", "loading", "up", "busy"}]
  BY <1>2, <1>3, <1>4, <1>6, <1>11, Sizes
<1> HIDE DEF newInflight, newParses, newTimer, newThread
<1>15. /\ q \in PoolType /\ q.idle = newIdle /\ q.queue = newQueue
       /\ q.inflight = newInflight /\ q.parses = newParses /\ q.timer = newTimer
       /\ q.thread = newThread /\ q.workers = p.workers /\ q.pending = p.pending
       /\ q.answer = p.answer /\ q.mail = p.mail
  BY <1>1, <1>5, <1>12, <1>13, <1>14 DEF PoolType
<1>16. DOMAIN newIdle = 1..(L - n) /\ DOMAIN newQueue = 1..(M - n)
  BY <1>12, <1>13
<1>17. IdleIsFree(q)
  <2>1. \A i \in 1..(L - n) : i \in 1..L
    BY <1>3, <1>4
  <2>2. \A i \in 1..(L - n) :
           /\ newIdle[i] = p.idle[i] /\ p.idle[i] \in Worker
           /\ newInflight[p.idle[i]] = p.inflight[p.idle[i]]
           /\ newParses[p.idle[i]] = p.parses[p.idle[i]]
    BY <1>3, <1>11, <1>12, <2>1 DEF newInflight, newParses
  <2>3. \A i \in 1..(L - n) :
           /\ newIdle[i] \in p.workers \ p.pending /\ newInflight[newIdle[i]] = None
           /\ newParses[newIdle[i]] < RecycleInterval
           /\ \A k \in 1..(L - n) : newIdle[k] = newIdle[i] => k = i
    BY <1>9, <2>1, <2>2
  <2> QED
    BY <1>15, <1>16, <2>3 DEF IdleIsFree
<1>18. ASSUME NEW w \in Worker
       PROVE  \/ /\ w \in ws /\ At(w) \in 1..n /\ newInflight[w] = p.queue[At(w)]
                 /\ p.idle[L + 1 - At(w)] = w /\ newInflight[w] \in js
              \/ w \notin ws /\ newInflight[w] = p.inflight[w]
  BY <1>6 DEF newInflight
<1>19. BusyIsWatched(q)
  <2> SUFFICES ASSUME NEW w \in Worker, newInflight[w] # None
               PROVE  /\ w \in p.workers \ p.pending /\ newTimer[newInflight[w]] # "off"
                      /\ \A v \in Worker : newInflight[v] = newInflight[w] => v = w
    BY <1>15 DEF BusyIsWatched
  <2>1. /\ newInflight[w] \in Job /\ newTimer[newInflight[w]] =
             IF newInflight[w] \in js THEN "soft" ELSE p.timer[newInflight[w]]
    BY <1>14 DEF newTimer
  <2>2. CASE w \in ws
    <3>1. newTimer[newInflight[w]] # "off" /\ w \in p.workers \ p.pending
      BY <1>11, <1>18, <2>1, <2>2
    <3>2. ASSUME NEW v \in Worker, newInflight[v] = newInflight[w]
          PROVE  v = w
      <4>1. At(w) \in 1..M /\ newInflight[w] = p.queue[At(w)] /\ p.idle[L + 1 - At(w)] = w
        BY <1>3, <1>4, <1>18, <2>2
      <4>2. CASE v \in ws
        <5>1. At(v) \in 1..M /\ newInflight[v] = p.queue[At(v)] /\ p.idle[L + 1 - At(v)] = v
          BY <1>3, <1>4, <1>18, <4>2
        <5> QED
          BY <1>10, <3>2, <4>1, <5>1
      <4>3. CASE v \notin ws
        BY <1>10, <1>18, <3>2, <4>1, <4>3
      <4> QED
        BY <4>2, <4>3
    <3> QED
      BY <3>1, <3>2
  <2>3. CASE w \notin ws
    <3>1. p.inflight[w] # None /\ newInflight[w] = p.inflight[w]
      BY <1>18, <2>3
    <3>2. /\ w \in p.workers \ p.pending /\ p.timer[p.inflight[w]] # "off"
          /\ \A v \in Worker : p.inflight[v] = p.inflight[w] => v = w
      BY <3>1 DEF GoodPool, BooksAgree, BusyIsWatched
    <3>3. ASSUME NEW v \in Worker, newInflight[v] = newInflight[w]
          PROVE  v = w
      BY <1>3, <1>4, <1>10, <1>18, <3>1, <3>2, <3>3
    <3> QED
      BY <2>1, <3>1, <3>2, <3>3
  <2> QED
    BY <2>2, <2>3
<1>20. QueueWaits(q)
  <2> SUFFICES ASSUME NEW i \in 1..(M - n)
               PROVE  /\ \A k \in 1..(M - n) : newQueue[k] = newQueue[i] => k = i
                      /\ \A w \in Worker : newInflight[w] # newQueue[i]
    BY <1>15, <1>16 DEF QueueWaits
  <2>1. \A k \in 1..(M - n) : k + n \in 1..M
    BY <1>3, <1>4
  <2>2. \A k \in 1..(M - n) : newQueue[k] = newQueue[i] => k = i
    <3> TAKE k \in 1..(M - n)
    <3> HAVE newQueue[k] = newQueue[i]
    <3>1. k + n = i + n
      BY <1>10, <1>13, <2>1
    <3> QED
      BY <1>3, <1>4, <3>1
  <2>3. ASSUME NEW w \in Worker
        PROVE  newInflight[w] # newQueue[i]
    <3>1. CASE w \in ws
      <4>1. At(w) \in 1..M /\ i + n \in 1..M /\ At(w) # i + n
        BY <1>3, <1>4, <1>18, <2>1, <3>1
      <4> QED
        BY <1>10, <1>13, <1>18, <3>1, <4>1
    <3>2. CASE w \notin ws
      BY <1>10, <1>13, <1>18, <2>1, <3>2
    <3> QED
      BY <3>1, <3>2
  <2> QED
    BY <2>2, <2>3
<1>21. ASSUME NEW j \in Job
       PROVE  Held(q, j) <=> Held(p, j)
  <2>1. ASSUME NEW i \in 1..M, p.queue[i] = j
        PROVE  Held(q, j)
    <3>1. CASE i <= n
      <4>1. i \in 1..n
        BY <1>3, <1>4, <3>1
      <4>2. p.idle[L + 1 - i] \in ws /\ p.idle[L + 1 - i] \in Worker
            /\ At(p.idle[L + 1 - i]) = i
        BY <1>3, <1>7, <1>11, <4>1 DEF ws
      <4>3. newInflight[p.idle[L + 1 - i]] = j
        BY <1>18, <2>1, <4>2
      <4> QED
        BY <1>15, <4>2, <4>3 DEF Held
    <3>2. CASE i > n
      <4>1. i - n \in 1..(M - n) /\ (i - n) + n = i
        BY <1>3, <1>4, <3>2
      <4>2. newQueue[i - n] = j
        BY <1>13, <2>1, <4>1
      <4> QED
        BY <1>13, <1>15, <4>1, <4>2 DEF Held, Contains
    <3> QED
      BY <1>3, <1>4, <3>1, <3>2
  <2>2. ASSUME NEW w \in Worker, p.inflight[w] = j
        PROVE  Held(q, j)
    <3>1. w \notin ws
      BY <1>11, <2>2, JobAssumption DEF None
    <3> QED
      BY <1>15, <1>18, <2>2, <3>1 DEF Held
  <2>3. ASSUME NEW i \in 1..(M - n), newQueue[i] = j
        PROVE  Held(p, j)
    <3>1. i + n \in 1..M
      BY <1>3, <1>4
    <3> QED
      BY <1>13, <2>3, <3>1 DEF Held, Contains, M
  <2>4. ASSUME NEW w \in Worker, newInflight[w] = j
        PROVE  Held(p, j)
    <3>1. CASE w \in ws
      <4>1. At(w) \in 1..M
        BY <1>3, <1>4, <1>18, <3>1
      <4> QED
        BY <1>18, <2>4, <3>1, <4>1 DEF Held, Contains, M
    <3>2. CASE w \notin ws
      BY <1>18, <2>4, <3>2 DEF Held
    <3> QED
      BY <3>1, <3>2
  <2> QED
    BY <1>13, <1>15, <2>1, <2>2, <2>3, <2>4 DEF Held, Contains, M
<1>22. OpenIsHeld(q, {})
  BY <1>15, <1>21 DEF GoodPool, BooksAgree, OpenIsHeld
<1>23. StartIsFirst(q)
  BY <1>2, <1>11, <1>15 DEF GoodPool, BooksAgree, StartIsFirst, newParses, newThread
<1>24. AllDispatched(q)
  <2>1. CASE n = L
    <3>1. Len(newIdle) = 0
      BY <1>3, <1>12, <2>1
    <3> QED
      BY <1>12, <1>15, <3>1, EmptySeq DEF AllDispatched
  <2>2. CASE n = M
    <3>1. Len(newQueue) = 0
      BY <1>3, <1>13, <2>2
    <3> QED
      BY <1>13, <1>15, <3>1, EmptySeq DEF AllDispatched
  <2> QED
    BY <1>4, <2>1, <2>2
<1> QED
  BY <1>15, <1>17, <1>19, <1>20, <1>22, <1>23, <1>24 DEF GoodPool, BooksAgree, q

\* Without workers the queue is rejected, and only it.
LEMMA UnhungKeeps ==
    ASSUME NEW p, GoodPool(p, {}), AllDispatched(p)
    PROVE  /\ GoodPool(Unhung(p), {}) /\ AllDispatched(Unhung(p))
           /\ Unhung(p).queue # << >> => Unhung(p).workers # {}
           /\ OnlyAnswers(p, Unhung(p))
<1>1. CASE p.workers # {}
  BY <1>1 DEF Unhung, OnlyAnswers
<1>2. CASE p.workers = {}
  <2> DEFINE q == Unhung(p)
             newAnswer == [j \in Job |-> IF Contains(p.queue, j) THEN "refused"
                                                                 ELSE p.answer[j]]
  <2>1. p \in PoolType /\ p.answer \in [Job -> {"new", "open", "ok"} \cup Rejection]
    BY DEF GoodPool, PoolType
  <2>2. q = [p EXCEPT !.queue = << >>, !.answer = newAnswer]
    BY <1>2 DEF Unhung
  <2>3. newAnswer \in [Job -> {"new", "open", "ok"} \cup Rejection]
    BY <2>1 DEF Rejection
  <2>4. \A j \in Job : newAnswer[j] = IF Contains(p.queue, j) THEN "refused" ELSE p.answer[j]
    OBVIOUS
  <2> HIDE DEF q, newAnswer
  <2>5. /\ q \in PoolType /\ q.idle = p.idle /\ q.queue = << >> /\ q.inflight = p.inflight
        /\ q.workers = p.workers /\ q.pending = p.pending /\ q.parses = p.parses
        /\ q.timer = p.timer /\ q.thread = p.thread /\ q.mail = p.mail
        /\ q.answer = newAnswer
    <3>1. << >> \in Seq(Job)
      BY EmptySeq
    <3> QED
      BY <2>1, <2>2, <2>3, <3>1 DEF PoolType
  <2>6. IdleIsFree(q) /\ BusyIsWatched(q) /\ QueueWaits(q) /\ StartIsFirst(q)
    BY <2>5 DEF GoodPool, BooksAgree, IdleIsFree, BusyIsWatched, QueueWaits, StartIsFirst
  <2>7. \A j \in Job : ~Held(q, j) /\ (Held(p, j) <=> Contains(p.queue, j))
    BY <1>2, <2>5, JobAssumption
       DEF GoodPool, BooksAgree, BusyIsWatched, Held, Contains, None
  <2>8. OpenIsHeld(q, {}) /\ OnlyAnswers(p, q)
    BY <2>4, <2>5, <2>7
       DEF GoodPool, BooksAgree, OpenIsHeld, OnlyAnswers, Rejection
  <2> QED
    BY <2>5, <2>6, <2>8 DEF GoodPool, BooksAgree, AllDispatched, q
<1> QED
  BY <1>1, <1>2

\* drain() keeps the books, leaves no worker idle while a parse waits and no
\* parse waiting for nobody.
LEMMA DrainedKeeps ==
    ASSUME NEW p, GoodPool(p, {}), NEW q \in Drained(p)
    PROVE  /\ GoodPool(q, {}) /\ AllDispatched(q) /\ (q.queue # << >> => q.workers # {})
           /\ OnlyAnswers(p, q)
<1> DEFINE Room(n) == Min({Len(p.queue) - Len(p.idle) - Cardinality(p.pending),
                           n - Cardinality(p.workers), MaxSpawn - Cardinality(p.pending)})
<1>1. PICK n \in Wanted : \E r \in Grown(p, Room(n)) : q = Unhung(Dispatched(r))
  BY DEF Drained
<1>2. PICK r \in Grown(p, Room(n)) : q = Unhung(Dispatched(r))
  BY <1>1
<1>3. /\ Cardinality(p.workers) \in Nat /\ Cardinality(p.pending) \in Nat
      /\ Len(p.queue) \in Nat /\ Len(p.idle) \in Nat /\ MaxSpawn \in Nat /\ MaxSize \in Nat
      /\ n \in Nat /\ n <= MaxSize
  BY WorkerAssumption, FS_Subset, FS_CardinalityType, Sizes DEF GoodPool, PoolType, Wanted
<1>4. Room(n) \in Int /\ Cardinality(p.workers) + Room(n) <= MaxSize
  <2> DEFINE a == Len(p.queue) - Len(p.idle) - Cardinality(p.pending)
             b == n - Cardinality(p.workers)
             c == MaxSpawn - Cardinality(p.pending)
  <2>0. \A x, y, z \in Nat : x - y - z \in Int /\ x - y \in Int
    OBVIOUS
  <2>1. a \in Int /\ b \in Int /\ c \in Int
    BY <1>3, <2>0, Zenon
  <2>2. Room(n) = Min({a, b, c})
    OBVIOUS
  <2>3. Cardinality(p.workers) + b = n
    BY <1>3
  <2> HIDE DEF a, b, c, Room
  <2>4. Min({a, b, c}) \in {a, b, c} /\ Min({a, b, c}) <= b
    BY <2>1, MinOfThree, Zenon
  <2>5. Room(n) \in {a, b, c} /\ Room(n) <= b
    BY <2>2, <2>4, Zenon
  <2> QED
    BY <1>3, <2>1, <2>3, <2>5
<1> HIDE DEF Room
<1>5. GoodPool(r, {}) /\ r.answer = p.answer
  BY <1>2, <1>4, RespawnedKeeps
<1>6. /\ GoodPool(Dispatched(r), {}) /\ AllDispatched(Dispatched(r))
      /\ Dispatched(r).answer = p.answer
  BY <1>5, DispatchedKeeps
<1> QED
  BY <1>2, <1>6, UnhungKeeps DEF OnlyAnswers

\* OnlyAnswers composes.
LEMMA AnswersAdd ==
    ASSUME NEW p, NEW q, NEW r, OnlyAnswers(p, q), OnlyAnswers(q, r)
    PROVE  OnlyAnswers(p, r)
  BY DEF OnlyAnswers, Rejection

\* A worker that is lost takes its parse with it, and nothing else.
LEMMA LetGoKeeps ==
    ASSUME NEW p, GoodPool(p, {}), NEW w \in Worker, NEW q \in LetGo(p, w)
    PROVE  /\ GoodPool(q, {}) /\ AllDispatched(q) /\ (q.queue # << >> => q.workers # {})
           /\ OnlyAnswers(p, q)
<1> DEFINE j == p.inflight[w]
           g == Removed(p, w)
           s == IF j = None THEN g ELSE Settle(g, j, "lost")
<1>1. /\ j \in Job \cup {None} /\ GoodPool(g, {} \cup ({j} \ {None})) /\ g.answer = p.answer
  BY RemovedKeeps
<1>2. PICK r \in SpawnOne(s) : q \in Drained(r)
  BY DEF LetGo
<1> HIDE DEF g, j
<1>3. GoodPool(s, {}) /\ OnlyAnswers(p, s)
  <2>1. CASE j = None
    <3>1. {} \cup ({j} \ {None}) = {}
      BY <2>1
    <3> QED
      BY <1>1, <2>1, <3>1 DEF OnlyAnswers
  <2>2. CASE j # None
    <3>1. {} \cup ({j} \ {None}) = {j} /\ j \in Job /\ "lost" \in Rejection \cup {"ok"}
      BY <1>1, <2>2 DEF Rejection
    <3>2. GoodPool(Settle(g, j, "lost"), {}) /\ OnlyAnswers(g, Settle(g, j, "lost"))
      BY <1>1, <3>1, SettleKeeps
    <3> QED
      BY <1>1, <2>2, <3>2 DEF OnlyAnswers
  <2> QED
    BY <2>1, <2>2
<1> HIDE DEF s
<1>4. GoodPool(r, {}) /\ r.answer = s.answer
  BY <1>2, <1>3, SpawnOneKeeps
<1>5. OnlyAnswers(p, r)
  BY <1>3, <1>4 DEF OnlyAnswers
<1> QED
  BY <1>2, <1>4, <1>5, DrainedKeeps, AnswersAdd

-----------------------------------------------------------------------------
(* The steps.                                                              *)

\* The books do not depend on the threads, but for what is said of starts.
LEMMA SameBooks ==
    ASSUME NEW p, NEW js, GoodPool(p, js), NEW q \in PoolType, StartIsFirst(q),
           q.idle = p.idle, q.queue = p.queue, q.inflight = p.inflight,
           q.workers = p.workers, q.pending = p.pending, q.parses = p.parses,
           q.timer = p.timer, q.answer = p.answer
    PROVE  GoodPool(q, js) /\ OnlyAnswers(p, q)
  BY DEF GoodPool, BooksAgree, IdleIsFree, BusyIsWatched, QueueWaits, OpenIsHeld, Held,
         OnlyAnswers

\* What holds of the pool between handlers.
Rested(p) ==
    GoodPool(p, {}) /\ AllDispatched(p) /\ (p.queue # << >> => p.workers # {})

\* A thread that loads, parses or crashes leaves the books alone.
LEMMA ThreadStep ==
    ASSUME Rested(pool), NEW w \in Worker,
           ThreadLoads(w) \/ ThreadParses(w) \/ ThreadCrashes(w)
    PROVE  Rested(pool') /\ OnlyAnswers(pool, pool')
<1> DEFINE Told(state, ms) == [pool EXCEPT !.thread[w] = state, !.mail[w] = @ \o ms]
           Message == {"loaded", "result", "error", "exit"}
<1>1. pool \in PoolType /\ pool.mail \in [Worker -> Seq(Message)]
      /\ pool.thread \in [Worker -> {"gone", "loading", "up", "busy"}]
  BY DEF Rested, GoodPool, PoolType
<1>2. ASSUME NEW state \in {"gone", "up"}, NEW ms \in Seq(Message), pool' = Told(state, ms),
             (\A i \in DOMAIN ms : ms[i] # "loaded")
                \/ (ms = <<"loaded">> /\ pool.thread[w] = "loading")
      PROVE  Rested(pool') /\ OnlyAnswers(pool, pool')
  <2>1. pool.mail[w] \in Seq(Message) /\ pool.mail[w] \o ms \in Seq(Message)
    BY <1>1, ConcatProperties
  <2>2. /\ pool' \in PoolType /\ pool'.idle = pool.idle /\ pool'.queue = pool.queue
        /\ pool'.inflight = pool.inflight /\ pool'.workers = pool.workers
        /\ pool'.pending = pool.pending /\ pool'.parses = pool.parses
        /\ pool'.timer = pool.timer /\ pool'.answer = pool.answer
        /\ pool'.thread = [pool.thread EXCEPT ![w] = state]
        /\ pool'.mail = [pool.mail EXCEPT ![w] = pool.mail[w] \o ms]
    BY <1>1, <1>2, <2>1 DEF PoolType
  <2>3. StartIsFirst(pool)
    BY DEF Rested, GoodPool, BooksAgree
  <2>4. \A i \in DOMAIN (pool.mail[w] \o ms) : (pool.mail[w] \o ms)[i] = "loaded" =>
           i = 1 /\ (w \in pool.workers => w \in pool.pending)
    <3>1. CASE \A i \in DOMAIN ms : ms[i] # "loaded"
      BY <1>1, <1>2, <2>1, <2>3, <3>1 DEF StartIsFirst
    <3>2. CASE ms = <<"loaded">> /\ pool.thread[w] = "loading"
      BY <1>1, <1>2, <2>1, <2>3, <3>2 DEF StartIsFirst
    <3> QED
      BY <1>2, <3>1, <3>2
  <2>5. StartIsFirst(pool')
    BY <1>1, <1>2, <2>2, <2>3, <2>4 DEF StartIsFirst
  <2>6. GoodPool(pool', {}) /\ OnlyAnswers(pool, pool')
    BY <2>2, <2>5, SameBooks DEF Rested
  <2> QED
    BY <2>2, <2>6 DEF Rested, AllDispatched
<1>3. /\ <<"loaded">> \in Seq(Message) /\ <<"result">> \in Seq(Message)
      /\ <<"exit">> \in Seq(Message) /\ <<"error", "exit">> \in Seq(Message)
  OBVIOUS
<1>4. /\ \A i \in DOMAIN <<"result">> : <<"result">>[i] # "loaded"
      /\ \A i \in DOMAIN <<"exit">> : <<"exit">>[i] # "loaded"
      /\ \A i \in DOMAIN <<"error", "exit">> : <<"error", "exit">>[i] # "loaded"
  OBVIOUS
<1>5. \/ pool' = Told("up", <<"loaded">>) /\ pool.thread[w] = "loading"
      \/ pool' = Told("up", <<"result">>)
      \/ pool' = Told("gone", <<"error", "exit">>) \/ pool' = Told("gone", <<"exit">>)
  BY DEF ThreadLoads, ThreadParses, ThreadCrashes, Sends
<1> HIDE DEF Told, Message
<1> QED
  BY <1>2, <1>3, <1>4, <1>5

\* A message that is taken was the first one; the load of its sender may be
\* settled with it.
LEMMA TakenKeeps ==
    ASSUME Rested(pool), NEW w \in Worker, pool.mail[w] # << >>,
           NEW p \in {Taken(w), LoadSettled(Taken(w), w)}
    PROVE  /\ GoodPool(p, {}) /\ AllDispatched(p) /\ (p.queue # << >> => p.workers # {})
           /\ p.idle = pool.idle /\ p.queue = pool.queue /\ p.inflight = pool.inflight
           /\ p.workers = pool.workers /\ p.pending = pool.pending /\ p.parses = pool.parses
           /\ p.answer = pool.answer
           /\ \A i \in DOMAIN p.mail[w] : p.mail[w][i] # "loaded"
           /\ p.thread[w] # "loading"
           /\ OnlyAnswers(pool, p)
<1> DEFINE Message == {"loaded", "result", "error", "exit"}
           t == Taken(w)
<1>1. pool \in PoolType /\ pool.mail \in [Worker -> Seq(Message)] /\ StartIsFirst(pool)
  BY DEF Rested, GoodPool, PoolType, BooksAgree
<1>2. /\ pool.mail[w] \in Seq(Message) /\ Tail(pool.mail[w]) \in Seq(Message)
      /\ Len(Tail(pool.mail[w])) = Len(pool.mail[w]) - 1
      /\ \A i \in 1..Len(Tail(pool.mail[w])) : Tail(pool.mail[w])[i] = pool.mail[w][i + 1]
  <2>1. pool.mail[w] \in Seq(Message)
    BY <1>1
  <2> QED
    BY <2>1, HeadTailProperties
<1>3. /\ t \in PoolType /\ t.idle = pool.idle /\ t.queue = pool.queue
      /\ t.inflight = pool.inflight /\ t.workers = pool.workers
      /\ t.pending = pool.pending /\ t.parses = pool.parses
      /\ t.timer = pool.timer /\ t.answer = pool.answer /\ t.thread = pool.thread
      /\ t.mail = [pool.mail EXCEPT ![w] = Tail(pool.mail[w])]
  BY <1>1, <1>2 DEF PoolType, Taken
<1> HIDE DEF t
<1>4. /\ p \in PoolType /\ p.idle = t.idle /\ p.queue = t.queue
      /\ p.inflight = t.inflight /\ p.workers = t.workers
      /\ p.pending = t.pending /\ p.parses = t.parses
      /\ p.timer = t.timer /\ p.answer = t.answer /\ p.thread = t.thread /\ p.mail = t.mail
  <2>1. p = t \/ p = [t EXCEPT !.loads = @ \ {w}]
    BY DEF LoadSettled, t
  <2>2. CASE p = t
    BY <1>3, <2>2
  <2>3. CASE p = [t EXCEPT !.loads = @ \ {w}]
    BY <1>3, <2>3 DEF PoolType
  <2> QED
    BY <2>1, <2>2, <2>3
<1>5. \A i \in DOMAIN Tail(pool.mail[w]) : Tail(pool.mail[w])[i] # "loaded"
  <2>1. \A i \in DOMAIN Tail(pool.mail[w]) : i + 1 \in DOMAIN pool.mail[w] /\ i + 1 # 1
    BY <1>2
  <2> QED
    BY <1>1, <1>2, <2>1 DEF StartIsFirst
<1>6. pool.thread[w] # "loading"
  BY <1>1 DEF StartIsFirst
<1>7. StartIsFirst(p)
  BY <1>1, <1>3, <1>4, <1>5, <1>6 DEF StartIsFirst
<1>8. GoodPool(p, {}) /\ OnlyAnswers(pool, p)
  BY <1>3, <1>4, <1>7, SameBooks DEF Rested
<1> QED
  BY <1>1, <1>3, <1>4, <1>5, <1>6, <1>8 DEF Rested, AllDispatched

\* A loaded worker, or one whose parse was answered, becomes idle.
Parked(p, w) == [p EXCEPT !.pending = @ \ {w}, !.idle = Append(@, w)]

LEMMA IdleKeeps ==
    ASSUME NEW p, NEW js, GoodPool(p, js), NEW w \in p.workers, p.inflight[w] = None,
           \A i \in DOMAIN p.idle : p.idle[i] # w,
           p.parses[w] < RecycleInterval, p.thread[w] # "loading",
           \A i \in DOMAIN p.mail[w] : p.mail[w][i] # "loaded"
    PROVE  GoodPool(Parked(p, w), js) /\ Parked(p, w).answer = p.answer
<1> DEFINE q == Parked(p, w)
<1>1. p \in PoolType /\ p.idle \in Seq(Worker) /\ w \in Worker
  BY DEF GoodPool, PoolType
<1>2. /\ Append(p.idle, w) \in Seq(Worker) /\ Len(Append(p.idle, w)) = Len(p.idle) + 1
      /\ \A i \in 1..Len(p.idle) : Append(p.idle, w)[i] = p.idle[i]
      /\ Append(p.idle, w)[Len(p.idle) + 1] = w
  BY <1>1
<1>3. /\ q \in PoolType /\ q.idle = Append(p.idle, w) /\ q.queue = p.queue
      /\ q.inflight = p.inflight /\ q.workers = p.workers /\ q.pending = p.pending \ {w}
      /\ q.parses = p.parses /\ q.timer = p.timer /\ q.answer = p.answer
      /\ q.thread = p.thread /\ q.mail = p.mail
  BY <1>1, <1>2 DEF PoolType, Parked
<1> HIDE DEF q
<1>4. IdleIsFree(q)
  BY <1>1, <1>2, <1>3 DEF GoodPool, BooksAgree, IdleIsFree
<1>5. BusyIsWatched(q) /\ QueueWaits(q) /\ OpenIsHeld(q, js)
  BY <1>3 DEF GoodPool, BooksAgree, BusyIsWatched, QueueWaits, OpenIsHeld, Held
<1>6. StartIsFirst(q)
  BY <1>3 DEF GoodPool, BooksAgree, StartIsFirst
<1> QED
  BY <1>3, <1>4, <1>5, <1>6 DEF GoodPool, BooksAgree, q

LEMMA LoadedStep ==
    ASSUME Rested(pool), NEW w \in Worker, OnLoaded(w)
    PROVE  Rested(pool') /\ OnlyAnswers(pool, pool')
<1> DEFINE p == LoadSettled(Taken(w), w)
           r == Parked(p, w)
<1>1. pool.mail[w] # << >> /\ Head(pool.mail[w]) = "loaded"
  BY DEF OnLoaded, Arrives
<1>2. /\ GoodPool(p, {}) /\ AllDispatched(p) /\ (p.queue # << >> => p.workers # {})
      /\ p.idle = pool.idle /\ p.inflight = pool.inflight
      /\ p.workers = pool.workers /\ p.pending = pool.pending /\ p.parses = pool.parses
      /\ (\A i \in DOMAIN p.mail[w] : p.mail[w][i] # "loaded") /\ p.thread[w] # "loading"
      /\ OnlyAnswers(pool, p)
  BY <1>1, TakenKeeps
<1> HIDE DEF p
<1>3. CASE w \notin pool.workers
  <2>1. pool' = p
    BY <1>3 DEF OnLoaded, p
  <2> QED
    BY <1>2, <2>1 DEF Rested
<1>4. CASE w \in pool.workers
  <2>1. pool' \in Drained(r)
    BY <1>4 DEF OnLoaded, Parked, p
  <2>2. w \in pool.pending
    <3>1. pool.mail[w] \in Seq({"loaded", "result", "error", "exit"})
      BY DEF Rested, GoodPool, PoolType
    <3>2. 1 \in DOMAIN pool.mail[w] /\ pool.mail[w][1] = "loaded"
      BY <1>1, <3>1
    <3> QED
      BY <1>4, <3>2 DEF Rested, GoodPool, BooksAgree, StartIsFirst
  <2>3. pool.parses[w] = 0 /\ pool.inflight[w] = None
        /\ \A i \in DOMAIN pool.idle : pool.idle[i] # w
    BY <2>2 DEF Rested, GoodPool, BooksAgree, StartIsFirst, BusyIsWatched, IdleIsFree
  <2>4. GoodPool(r, {}) /\ r.answer = p.answer
    <3>1. /\ w \in p.workers /\ p.inflight[w] = None /\ p.parses[w] < RecycleInterval
          /\ \A i \in DOMAIN p.idle : p.idle[i] # w
      BY <1>2, <1>4, <2>3, Sizes
    <3> QED
      BY <1>2, <3>1, IdleKeeps
  <2>5. OnlyAnswers(pool, r)
    BY <1>2, <2>4 DEF OnlyAnswers
  <2> HIDE DEF r
  <2> QED
    BY <2>1, <2>4, <2>5, DrainedKeeps, AnswersAdd DEF Rested
<1> QED
  BY <1>3, <1>4

LEMMA ResultStep ==
    ASSUME Rested(pool), NEW w \in Worker, OnResult(w)
    PROVE  Rested(pool') /\ OnlyAnswers(pool, pool')
<1> DEFINE p == Taken(w)
           j == pool.inflight[w]
           f == [p EXCEPT !.inflight[w] = None]
<1>1. pool.mail[w] # << >>
  BY DEF OnResult, Arrives
<1>2. /\ GoodPool(p, {}) /\ AllDispatched(p) /\ (p.queue # << >> => p.workers # {})
      /\ p.idle = pool.idle /\ p.inflight = pool.inflight
      /\ p.workers = pool.workers /\ p.pending = pool.pending /\ p.parses = pool.parses
      /\ (\A i \in DOMAIN p.mail[w] : p.mail[w][i] # "loaded") /\ p.thread[w] # "loading"
      /\ OnlyAnswers(pool, p)
  BY <1>1, TakenKeeps
<1> HIDE DEF p
<1>3. CASE j = None
  <2>1. pool' = p
    BY <1>3 DEF OnResult, p
  <2> QED
    BY <1>2, <2>1 DEF Rested
<1>4. CASE j # None
  <2>1. PICK q \in Freed(f, w) : pool' \in Drained(Settle(q, j, "ok"))
    BY <1>4 DEF OnResult, p
  <2>2. /\ p \in PoolType /\ p.inflight \in [Worker -> Job \cup {None}] /\ j \in Job
        /\ p.inflight[w] = j
    BY <1>2, <1>4 DEF GoodPool, PoolType
  <2>3. /\ f \in PoolType /\ f.inflight = [p.inflight EXCEPT ![w] = None] /\ f.idle = p.idle
        /\ f.queue = p.queue /\ f.workers = p.workers /\ f.pending = p.pending
        /\ f.parses = p.parses /\ f.timer = p.timer /\ f.answer = p.answer
        /\ f.thread = p.thread /\ f.mail = p.mail
    BY <2>2 DEF PoolType
  <2> HIDE DEF f
  <2>4. /\ w \in p.workers \ p.pending /\ (\A v \in Worker : p.inflight[v] = j => v = w)
        /\ (\A i \in DOMAIN p.queue : p.queue[i] # j)
        /\ (\A i \in DOMAIN p.idle : p.idle[i] # w)
    BY <1>2, <1>4, <2>2 DEF GoodPool, BooksAgree, BusyIsWatched, QueueWaits, IdleIsFree
  <2>5. GoodPool(f, {j})
    <3>1. IdleIsFree(f) /\ StartIsFirst(f)
      BY <1>2, <2>2, <2>3, <2>4 DEF GoodPool, BooksAgree, IdleIsFree, StartIsFirst
    <3>2. BusyIsWatched(f) /\ QueueWaits(f)
      BY <1>2, <2>2, <2>3, <2>4, JobAssumption
         DEF GoodPool, BooksAgree, BusyIsWatched, QueueWaits, PoolType, None
    <3>3. \A i \in Job : Held(p, i) <=> Held(f, i) \/ i = j
      BY <2>2, <2>3, JobAssumption DEF Held, None
    <3>4. ~Held(f, j)
      BY <1>4, <2>2, <2>3, <2>4 DEF Held, Contains, PoolType
    <3>5. OpenIsHeld(f, {j})
      BY <1>2, <2>3, <3>3, <3>4 DEF GoodPool, BooksAgree, OpenIsHeld
    <3> QED
      BY <1>2, <2>3, <3>1, <3>2, <3>5 DEF GoodPool, BooksAgree
  <2>6. GoodPool(q, {j}) /\ q.answer = p.answer
    <3>1. CASE f.parses[w] >= RecycleInterval
      <4>1. q \in SpawnOne(Removed(f, w))
        BY <2>1, <3>1 DEF Freed, Recycled
      <4>2. f.inflight[w] = None /\ {j} \cup ({None} \ {None}) = {j}
        BY <2>2, <2>3
      <4>3. GoodPool(Removed(f, w), {j}) /\ Removed(f, w).answer = f.answer
        <5>1. {j} \in SUBSET Job
          BY <2>2
        <5> QED
          BY <2>5, <4>2, <5>1, RemovedKeeps
      <4> QED
        BY <2>3, <4>1, <4>3, SpawnOneKeeps
    <3>2. CASE ~(f.parses[w] >= RecycleInterval)
      <4>1. q = [f EXCEPT !.idle = Append(@, w)]
        BY <2>1, <3>2 DEF Freed
      <4>2. f.pending \ {w} = f.pending
        BY <2>3, <2>4
      <4>3. q = Parked(f, w)
        BY <2>3, <4>1, <4>2 DEF PoolType, Parked
      <4>4. f.parses[w] < RecycleInterval
        BY <2>3, <3>2, Sizes DEF PoolType
      <4>5. f.inflight[w] = None /\ w \in f.workers
        BY <2>2, <2>3, <2>4
      <4> QED
        <5>1. /\ (\A i \in DOMAIN f.idle : f.idle[i] # w) /\ f.thread[w] # "loading"
              /\ \A i \in DOMAIN f.mail[w] : f.mail[w][i] # "loaded"
          BY <1>2, <2>3, <2>4
        <5>2. GoodPool(q, {j}) /\ q.answer = f.answer
          BY <2>5, <4>3, <4>4, <4>5, <5>1, IdleKeeps
        <5> QED
          BY <2>3, <5>2
    <3> QED
      BY <3>1, <3>2
  <2>7. GoodPool(Settle(q, j, "ok"), {}) /\ OnlyAnswers(q, Settle(q, j, "ok"))
    BY <2>2, <2>6, SettleKeeps
  <2>8. OnlyAnswers(pool, Settle(q, j, "ok"))
    BY <1>2, <2>6, <2>7, AnswersAdd DEF OnlyAnswers
  <2> QED
    BY <2>1, <2>7, <2>8, DrainedKeeps, AnswersAdd DEF Rested
<1> QED
  BY <1>3, <1>4

LEMMA DeathStep ==
    ASSUME Rested(pool), NEW w \in Worker, OnDeath(w)
    PROVE  Rested(pool') /\ OnlyAnswers(pool, pool')
<1> DEFINE p == LoadSettled(Taken(w), w)
<1>1. pool.mail[w] # << >>
  BY DEF OnDeath, Arrives
<1>2. /\ GoodPool(p, {}) /\ AllDispatched(p) /\ (p.queue # << >> => p.workers # {})
      /\ OnlyAnswers(pool, p)
  BY <1>1, TakenKeeps
<1>3. pool' \in OnWorkerGone(p, w)
  BY DEF OnDeath
<1> HIDE DEF p
<1>4. CASE w \notin p.workers
  BY <1>2, <1>3, <1>4 DEF OnWorkerGone, Rested
<1>5. CASE w \in p.workers
  <2> DEFINE c == Crashed(p, 1)
  <2>1. pool' \in LetGo(c, w)
    BY <1>3, <1>5 DEF OnWorkerGone
  <2>2. /\ p \in PoolType /\ 1 \in Nat /\ StartIsFirst(p)
    BY <1>2 DEF GoodPool, BooksAgree
  <2>3. /\ c \in PoolType /\ c.idle = p.idle /\ c.queue = p.queue /\ c.inflight = p.inflight
        /\ c.workers = p.workers /\ c.pending = p.pending /\ c.parses = p.parses
        /\ c.timer = p.timer /\ c.answer = p.answer /\ c.thread = p.thread
        /\ c.mail = p.mail
    BY <2>2, CrashedFacts
  <2> HIDE DEF c
  <2>4. StartIsFirst(c)
    BY <2>2, <2>3 DEF StartIsFirst
  <2>5. GoodPool(c, {}) /\ OnlyAnswers(p, c)
    BY <1>2, <2>3, <2>4, SameBooks
  <2>6. OnlyAnswers(pool, c)
    BY <1>2, <2>5, AnswersAdd
  <2> QED
    BY <2>1, <2>5, <2>6, LetGoKeeps, AnswersAdd DEF Rested
<1> QED
  BY <1>4, <1>5

LEMMA TimerStep ==
    ASSUME Rested(pool), NEW w \in Worker, OnTimeout(w) \/ OnHardTimeout(w)
    PROVE  Rested(pool') /\ OnlyAnswers(pool, pool')
<1>1. CASE OnHardTimeout(w)
  BY <1>1, LetGoKeeps DEF OnHardTimeout, Rested
<1>2. CASE OnTimeout(w)
  <2> DEFINE j == pool.inflight[w]
  <2>1. pool \in PoolType /\ j \in Job /\ pool.timer \in [Job -> {"off", "soft", "hard"}]
    BY <1>2 DEF OnTimeout, Rested, GoodPool, PoolType
  <2>2. /\ pool' \in PoolType /\ pool'.idle = pool.idle /\ pool'.queue = pool.queue
        /\ pool'.inflight = pool.inflight /\ pool'.workers = pool.workers
        /\ pool'.pending = pool.pending /\ pool'.parses = pool.parses
        /\ pool'.timer = [pool.timer EXCEPT ![j] = "hard"] /\ pool'.answer = pool.answer
        /\ pool'.thread = pool.thread /\ pool'.mail = pool.mail
    BY <1>2, <2>1 DEF OnTimeout, PoolType
  <2> HIDE DEF j
  <2>3. BusyIsWatched(pool')
    BY <2>1, <2>2 DEF Rested, GoodPool, BooksAgree, BusyIsWatched
  <2>4. IdleIsFree(pool') /\ QueueWaits(pool') /\ OpenIsHeld(pool', {}) /\ StartIsFirst(pool')
    BY <2>2 DEF Rested, GoodPool, BooksAgree, IdleIsFree, QueueWaits, OpenIsHeld, Held,
                StartIsFirst
  <2> QED
    BY <2>2, <2>3, <2>4 DEF Rested, GoodPool, BooksAgree, AllDispatched, OnlyAnswers
<1> QED
  BY <1>1, <1>2

\* A request opens one parse; others are only answered.
LEMMA RequestStep ==
    ASSUME Rested(pool), NEW j \in Job, Request(j)
    PROVE  /\ Rested(pool')
           /\ \A i \in Job \ {j} : pool'.answer[i] # pool.answer[i] =>
                 pool.answer[i] = "open" /\ pool'.answer[i] \in Rejection \cup {"ok"}
           /\ pool.answer[j] # "open" /\ pool'.answer[j] # "new"
<1>1. /\ pool \in PoolType /\ pool.queue \in Seq(Job) /\ pool.answer[j] # "open"
      /\ pool.answer \in [Job -> {"new", "open", "ok"} \cup Rejection]
      /\ pool.inflight \in [Worker -> Job \cup {None}]
  BY DEF Request, Rested, GoodPool, PoolType
<1>2. ~Held(pool, j)
  BY <1>1 DEF Rested, GoodPool, BooksAgree, OpenIsHeld
<1>3. CASE destroyed
  <2>0. /\ [pool.answer EXCEPT ![j] = "refused"]
              \in [Job -> {"new", "open", "ok"} \cup Rejection]
        /\ pool' = [pool EXCEPT !.answer = [pool.answer EXCEPT ![j] = "refused"]]
    BY <1>1, <1>3 DEF Request, Rejection, PoolType
  <2>1. /\ pool' \in PoolType /\ pool'.idle = pool.idle /\ pool'.queue = pool.queue
        /\ pool'.inflight = pool.inflight /\ pool'.workers = pool.workers
        /\ pool'.pending = pool.pending /\ pool'.parses = pool.parses
        /\ pool'.timer = pool.timer /\ pool'.answer = [pool.answer EXCEPT ![j] = "refused"]
        /\ pool'.thread = pool.thread /\ pool'.mail = pool.mail
    BY <1>1, <2>0 DEF PoolType
  <2>2. IdleIsFree(pool') /\ BusyIsWatched(pool') /\ QueueWaits(pool') /\ StartIsFirst(pool')
    BY <2>1 DEF Rested, GoodPool, BooksAgree, IdleIsFree, BusyIsWatched, QueueWaits, StartIsFirst
  <2>3. \A i \in Job : Held(pool', i) <=> Held(pool, i)
    BY <2>1 DEF Held
  <2>4. OpenIsHeld(pool', {})
    BY <1>1, <1>2, <2>1, <2>3 DEF Rested, GoodPool, BooksAgree, OpenIsHeld
  <2> QED
    BY <1>1, <2>1, <2>2, <2>4 DEF Rested, GoodPool, BooksAgree, AllDispatched
<1>4. CASE ~destroyed
  <2> DEFINE q == [pool EXCEPT !.queue = Append(@, j), !.answer[j] = "open"]
  <2>1. pool' \in Drained(q)
    BY <1>4 DEF Request
  <2>2. /\ Append(pool.queue, j) \in Seq(Job) /\ Len(Append(pool.queue, j)) = Len(pool.queue) + 1
        /\ \A i \in 1..Len(pool.queue) : Append(pool.queue, j)[i] = pool.queue[i]
        /\ Append(pool.queue, j)[Len(pool.queue) + 1] = j /\ Len(pool.queue) \in Nat
    BY <1>1
  <2>3. /\ q \in PoolType /\ q.idle = pool.idle /\ q.queue = Append(pool.queue, j)
        /\ q.inflight = pool.inflight /\ q.workers = pool.workers
        /\ q.pending = pool.pending /\ q.parses = pool.parses
        /\ q.timer = pool.timer /\ q.answer = [pool.answer EXCEPT ![j] = "open"]
        /\ q.thread = pool.thread /\ q.mail = pool.mail
    BY <1>1, <2>2 DEF PoolType
  <2> HIDE DEF q
  <2>4. IdleIsFree(q) /\ BusyIsWatched(q) /\ StartIsFirst(q)
    BY <2>3 DEF Rested, GoodPool, BooksAgree, IdleIsFree, BusyIsWatched, StartIsFirst
  <2>5. QueueWaits(q)
    BY <1>1, <1>2, <2>2, <2>3
       DEF Rested, GoodPool, BooksAgree, QueueWaits, Held, Contains
  <2>6. \A i \in Job : Held(q, i) <=> Held(pool, i) \/ i = j
    <3>1. \A i : Contains(q.queue, i) <=> Contains(pool.queue, i) \/ i = j
      BY <2>2, <2>3 DEF Contains
    <3> QED
      BY <2>3, <3>1 DEF Held
  <2>7. OpenIsHeld(q, {})
    BY <1>1, <2>3, <2>6 DEF Rested, GoodPool, BooksAgree, OpenIsHeld
  <2>8. GoodPool(q, {})
    BY <2>3, <2>4, <2>5, <2>7 DEF Rested, GoodPool, BooksAgree
  <2>9. Rested(pool') /\ OnlyAnswers(q, pool')
    BY <2>1, <2>8, DrainedKeeps DEF Rested
  <2> QED
    BY <1>1, <2>3, <2>9 DEF OnlyAnswers, Rejection
<1> QED
  BY <1>3, <1>4

LEMMA DestroyStep ==
    ASSUME Rested(pool), Destroy
    PROVE  Rested(pool') /\ OnlyAnswers(pool, pool')
<1> DEFINE newAnswer == [j \in Job |-> IF Held(pool, j) THEN "refused" ELSE pool.answer[j]]
<1>1. pool \in PoolType /\ pool.answer \in [Job -> {"new", "open", "ok"} \cup Rejection]
  BY DEF Rested, GoodPool, PoolType
<1>2. newAnswer \in [Job -> {"new", "open", "ok"} \cup Rejection]
  BY <1>1 DEF Rejection
<1>3. \A j \in Job : newAnswer[j] = IF Held(pool, j) THEN "refused" ELSE pool.answer[j]
  OBVIOUS
<1>4. pool' = [pool EXCEPT
          !.workers = {}, !.pending = {}, !.idle = << >>, !.queue = << >>,
          !.inflight = [w \in Worker |-> None], !.parses = [w \in Worker |-> 0],
          !.timer = [j \in Job |-> "off"], !.answer = newAnswer]
  BY DEF Destroy, Held
<1> HIDE DEF newAnswer
<1>5. /\ << >> \in Seq(Worker) /\ << >> \in Seq(Job)
      /\ [w \in Worker |-> None] \in [Worker -> Job \cup {None}]
      /\ [w \in Worker |-> 0] \in [Worker -> 0..RecycleInterval]
      /\ [j \in Job |-> "off"] \in [Job -> {"off", "soft", "hard"}]
  BY EmptySeq, Sizes
<1>6. /\ pool' \in PoolType /\ pool'.idle = << >> /\ pool'.queue = << >>
      /\ pool'.inflight = [w \in Worker |-> None] /\ pool'.workers = {}
      /\ pool'.pending = {} /\ pool'.answer = newAnswer
      /\ pool'.thread = pool.thread /\ pool'.mail = pool.mail
  BY <1>1, <1>2, <1>4, <1>5 DEF PoolType
<1>7. IdleIsFree(pool') /\ BusyIsWatched(pool') /\ QueueWaits(pool') /\ AllDispatched(pool')
  BY <1>6 DEF IdleIsFree, BusyIsWatched, QueueWaits, AllDispatched
<1>8. StartIsFirst(pool')
  BY <1>6 DEF Rested, GoodPool, BooksAgree, StartIsFirst
<1>9. \A j \in Job : ~Held(pool', j)
  BY <1>6, JobAssumption DEF Held, Contains, None
<1>10. OpenIsHeld(pool', {}) /\ OnlyAnswers(pool, pool')
  BY <1>3, <1>6, <1>9
     DEF Rested, GoodPool, BooksAgree, OpenIsHeld, OnlyAnswers, Rejection
<1>11. Cardinality(pool'.workers) <= MaxSize
  BY <1>6, FS_EmptySet, Sizes
<1> QED
  BY <1>6, <1>7, <1>8, <1>10, <1>11 DEF Rested, GoodPool, BooksAgree

LEMMA TerminateStep ==
    ASSUME Rested(pool), NEW w \in Worker, TerminateSettled(w)
    PROVE  Rested(pool') /\ OnlyAnswers(pool, pool')
<1>1. pool \in PoolType /\ pool.thread \in [Worker -> {"gone", "loading", "up", "busy"}]
  BY DEF Rested, GoodPool, PoolType
<1>2. /\ pool' \in PoolType /\ pool'.idle = pool.idle /\ pool'.queue = pool.queue
      /\ pool'.inflight = pool.inflight /\ pool'.workers = pool.workers
      /\ pool'.pending = pool.pending /\ pool'.parses = pool.parses
      /\ pool'.timer = pool.timer /\ pool'.answer = pool.answer
      /\ pool'.thread = [pool.thread EXCEPT ![w] = "gone"] /\ pool'.mail = pool.mail
  BY <1>1 DEF TerminateSettled, PoolType
<1>3. StartIsFirst(pool')
  BY <1>1, <1>2 DEF Rested, GoodPool, BooksAgree, StartIsFirst
<1>4. GoodPool(pool', {}) /\ OnlyAnswers(pool, pool')
  BY <1>2, <1>3, SameBooks DEF Rested
<1> QED
  BY <1>2, <1>4 DEF Rested, AllDispatched

\* The idle workers are as many as their set.
LEMMA IdleCount ==
    ASSUME NEW p, p \in PoolType, IdleIsFree(p)
    PROVE  /\ ToSet(p.idle) \subseteq p.workers
           /\ Len(p.idle) \in Nat /\ Cardinality(ToSet(p.idle)) = Len(p.idle)
<1> DEFINE s == p.idle
<1>1. s \in Seq(Worker) /\ Len(s) \in Nat /\ DOMAIN s = 1..Len(s)
  BY DEF PoolType
<1>2. ToSet(s) = {s[i] : i \in DOMAIN s}
  BY DEF ToSet
<1>3. \A i, k \in DOMAIN s : s[k] = s[i] => k = i
  BY DEF IdleIsFree
<1>4. ToSet(s) \subseteq p.workers
  BY <1>2 DEF IdleIsFree
<1> HIDE DEF s
<1>5. s \in [1..Len(s) -> ToSet(s)]
  BY <1>1, <1>2
<1>6. s \in Injection(1..Len(s), ToSet(s))
  BY <1>1, <1>3, <1>5 DEF Injection, IsInjective
<1>7. s \in Surjection(1..Len(s), ToSet(s))
  BY <1>1, <1>2, <1>5 DEF Surjection
<1>8. ExistsBijection(1..Len(s), ToSet(s))
  BY <1>6, <1>7 DEF ExistsBijection, Bijection
<1>9. Cardinality(ToSet(s)) = Len(s)
  BY <1>1, <1>8, FS_CountingElements
<1> QED
  BY <1>1, <1>4, <1>9 DEF s

LEMMA RecycleAllStep ==
    ASSUME Rested(pool), RecycleAll
    PROVE  Rested(pool') /\ OnlyAnswers(pool, pool')
<1> DEFINE ws == ToSet(pool.idle)
           n  == Len(pool.idle)
           newParses == [w \in Worker |-> IF w \in ws THEN 0 ELSE pool.parses[w]]
           newThread == [w \in Worker |-> IF w \in ws THEN "gone" ELSE pool.thread[w]]
           b == [pool EXCEPT !.workers = pool.workers \ ws, !.idle = << >>,
                             !.parses = newParses, !.thread = newThread]
<1>1. /\ pool \in PoolType /\ IdleIsFree(pool) /\ BusyIsWatched(pool)
      /\ QueueWaits(pool) /\ OpenIsHeld(pool, {}) /\ StartIsFirst(pool)
  BY DEF Rested, GoodPool, BooksAgree
<1>2. ws \subseteq pool.workers /\ n \in Nat /\ Cardinality(ws) = n
  BY <1>1, IdleCount
<1>3. pool' \in Respawned(b, n)
  BY DEF RecycleAll
<1>4. \A w \in ws : w \notin pool.pending /\ pool.inflight[w] = None
  BY <1>1 DEF IdleIsFree, ToSet
<1>5. pool.idle = << >> => ws = {}
  BY DEF ToSet
<1> HIDE DEF ws, n
<1>6. /\ pool.workers \ ws \in SUBSET Worker /\ << >> \in Seq(Worker)
      /\ newParses \in [Worker -> 0..RecycleInterval]
      /\ newThread \in [Worker -> {"gone", "loading", "up", "busy"}]
  BY <1>1, Sizes, EmptySeq DEF PoolType
<1>7. \A w \in Worker : /\ newParses[w] = IF w \in ws THEN 0 ELSE pool.parses[w]
                        /\ newThread[w] = IF w \in ws THEN "gone" ELSE pool.thread[w]
  OBVIOUS
<1> HIDE DEF newParses, newThread
<1>8. /\ b \in PoolType /\ b.idle = << >> /\ b.queue = pool.queue
      /\ b.inflight = pool.inflight /\ b.workers = pool.workers \ ws
      /\ b.pending = pool.pending /\ b.parses = newParses
      /\ b.timer = pool.timer /\ b.answer = pool.answer
      /\ b.thread = newThread /\ b.mail = pool.mail
  BY <1>1, <1>6 DEF PoolType
<1> HIDE DEF b
<1>9. IdleIsFree(b) /\ QueueWaits(b) /\ OpenIsHeld(b, {})
  BY <1>1, <1>8 DEF IdleIsFree, QueueWaits, OpenIsHeld, Held
<1>10. BusyIsWatched(b)
  BY <1>1, <1>4, <1>8 DEF BusyIsWatched
<1>11. StartIsFirst(b)
  BY <1>1, <1>4, <1>7, <1>8 DEF StartIsFirst
<1>12. Cardinality(b.workers) \in Nat /\ Cardinality(b.workers) + n <= MaxSize
  <2>1. IsFiniteSet(pool.workers) /\ pool.workers \cap ws = ws
    BY <1>1, <1>2, WorkerAssumption, FS_Subset DEF PoolType
  <2>2. /\ IsFiniteSet(pool.workers \ ws)
        /\ Cardinality(pool.workers \ ws) = Cardinality(pool.workers) - Cardinality(pool.workers \cap ws)
    BY <2>1, FS_Difference
  <2>3. /\ Cardinality(pool.workers) \in Nat /\ Cardinality(pool.workers \ ws) \in Nat
        /\ Cardinality(pool.workers) <= MaxSize
    BY <2>1, <2>2, FS_CardinalityType DEF Rested, GoodPool
  <2>4. Cardinality(pool.workers \ ws) = Cardinality(pool.workers) - n
    BY <1>2, <2>1, <2>2, Zenon
  <2>5. Cardinality(b.workers) = Cardinality(pool.workers \ ws)
    BY <1>8
  <2> QED
    BY <1>2, <2>3, <2>4, <2>5, Sizes
<1>13. GoodPool(b, {})
  BY <1>2, <1>8, <1>9, <1>10, <1>11, <1>12, Sizes DEF GoodPool, BooksAgree
<1>14. /\ GoodPool(pool', {}) /\ pool'.queue = b.queue /\ pool'.idle = b.idle
       /\ pool'.answer = b.answer /\ b.workers \subseteq pool'.workers
  BY <1>2, <1>3, <1>12, <1>13, RespawnedKeeps
<1>15. pool.queue # << >> => pool'.workers # {}
  BY <1>5, <1>8, <1>14 DEF Rested, AllDispatched
<1> QED
  BY <1>8, <1>14, <1>15 DEF Rested, AllDispatched, OnlyAnswers

\* The constructor and prewarm().
LEMMA InitStep ==
    ASSUME Init
    PROVE  Rested(pool) /\ pool.answer = [j \in Job |-> "new"]
<1> DEFINE none == [idle |-> << >>, queue |-> << >>,
                    inflight |-> [w \in Worker |-> None],
                    workers |-> {}, pending |-> {}, loads |-> {}, crashes |-> 0,
                    parses |-> [w \in Worker |-> 0],
                    timer  |-> [j \in Job |-> "off"],
                    answer |-> [j \in Job |-> "new"],
                    thread |-> [w \in Worker |-> "gone"],
                    mail   |-> [w \in Worker |-> << >>]]
<1>1. PICK n \in Wanted, eager \in {0, 1} :
         \E ws \in UNION {kSubset(k, Worker) : k \in eager..n} :
            pool = Spawned(none, ws, (1 - eager) + (IF Cardinality(ws) < n THEN 1 ELSE 0))
  BY DEF Init
<1>2. PICK ws \in UNION {kSubset(k, Worker) : k \in eager..n} :
         pool = Spawned(none, ws, (1 - eager) + (IF Cardinality(ws) < n THEN 1 ELSE 0))
  BY <1>1
<1> DEFINE f == (1 - eager) + (IF Cardinality(ws) < n THEN 1 ELSE 0)
<1>3. /\ f \in Nat /\ ws \subseteq Worker /\ Cardinality(ws) \in Nat
      /\ Cardinality(ws) <= MaxSize
  BY <1>2, Sizes DEF kSubset, Wanted
<1>4. /\ << >> \in Seq(Worker) /\ << >> \in Seq(Job)
      /\ << >> \in Seq({"loaded", "result", "error", "exit"})
      /\ [w \in Worker |-> None] \in [Worker -> Job \cup {None}]
      /\ [w \in Worker |-> 0] \in [Worker -> 0..RecycleInterval]
      /\ [j \in Job |-> "off"] \in [Job -> {"off", "soft", "hard"}]
      /\ [j \in Job |-> "new"] \in [Job -> {"new", "open", "ok"} \cup Rejection]
      /\ [w \in Worker |-> "gone"] \in [Worker -> {"gone", "loading", "up", "busy"}]
  BY EmptySeq, Sizes
<1>5. [w \in Worker |-> << >>] \in [Worker -> Seq({"loaded", "result", "error", "exit"})]
  BY <1>4
<1>6. none \in PoolType
  BY <1>4, <1>5, Sizes DEF PoolType
<1>7. IdleIsFree(none) /\ BusyIsWatched(none) /\ QueueWaits(none) /\ StartIsFirst(none)
  BY DEF IdleIsFree, BusyIsWatched, QueueWaits, StartIsFirst
<1>8. OpenIsHeld(none, {})
  BY JobAssumption DEF OpenIsHeld, Held, Contains, None
<1>9. Cardinality(none.workers) = 0 /\ Fresh(none) = Worker
  BY FS_EmptySet DEF Fresh
<1>10. none.queue = << >> /\ none.idle = << >> /\ none.answer = [j \in Job |-> "new"]
  OBVIOUS
<1> HIDE DEF none, f
<1>11. GoodPool(none, {})
  BY <1>6, <1>7, <1>8, <1>9, Sizes DEF GoodPool, BooksAgree
<1>12. pool = Spawned(none, ws, f)
  BY <1>2 DEF f
<1>13. Cardinality(none.workers) + Cardinality(ws) <= MaxSize /\ ws \subseteq Fresh(none)
  BY <1>3, <1>9
<1> DEFINE q == Spawned(none, ws, f)
<1>14. /\ GoodPool(q, {}) /\ q.queue = none.queue /\ q.idle = none.idle
       /\ q.answer = none.answer
  <2>1. f \in Nat
    BY <1>3
  <2> QED
    BY <2>1, <1>11, <1>13, SpawnedKeeps
<1> QED
  BY <1>10, <1>12, <1>14 DEF Rested, AllDispatched

-----------------------------------------------------------------------------
(* The theorems.                                                           *)

\* Books that agree hold an open parse in one place.
LEMMA OnePlace ==
    ASSUME Rested(pool)
    PROVE  OpenIsWatched
<1>1. /\ pool \in PoolType /\ BusyIsWatched(pool) /\ QueueWaits(pool)
      /\ OpenIsHeld(pool, {})
  BY DEF Rested, GoodPool, BooksAgree
<1> SUFFICES ASSUME NEW j \in Job
             PROVE  /\ Places(j) = (IF pool.answer[j] = "open" THEN 1 ELSE 0)
                    /\ \A w \in Worker : pool.inflight[w] = j =>
                          w \in pool.workers /\ pool.timer[j] # "off"
  BY DEF OpenIsWatched
<1>2. j # None
  BY JobAssumption DEF None
<1> DEFINE Q == {i \in DOMAIN pool.queue : pool.queue[i] = j}
           W == {w \in Worker : pool.inflight[w] = j}
<1>3. Places(j) = Cardinality(Q) + Cardinality(W)
  BY DEF Places
<1>4. pool.answer[j] = "open" <=> Q # {} \/ W # {}
  BY <1>1 DEF OpenIsHeld, Held, Contains
<1>5. Q = {} \/ \E i : Q = {i}
  BY <1>1 DEF QueueWaits
<1>6. W = {} \/ \E w : W = {w}
  BY <1>1, <1>2 DEF BusyIsWatched
<1>7. Q = {} \/ W = {}
  BY <1>1 DEF QueueWaits
<1>8. \A w \in Worker : pool.inflight[w] = j => w \in pool.workers /\ pool.timer[j] # "off"
  BY <1>1, <1>2 DEF BusyIsWatched
<1> HIDE DEF Q, W
<1>9. \A S : /\ (S = {} => Cardinality(S) = 0)
             /\ (\E x : S = {x}) => Cardinality(S) = 1
  BY FS_EmptySet, FS_Singleton
<1>10. CASE Q = {} /\ W = {}
  BY <1>3, <1>4, <1>8, <1>9, <1>10
<1>11. CASE Q # {}
  BY <1>3, <1>4, <1>5, <1>7, <1>8, <1>9, <1>11
<1>12. CASE W # {}
  BY <1>3, <1>4, <1>6, <1>7, <1>8, <1>9, <1>12
<1> QED
  BY <1>10, <1>11, <1>12

\* What every step keeps.
PoolRests ==
    /\ Rested(pool) /\ doomed \subseteq Worker
    /\ destroyed \in BOOLEAN /\ turn \in {0, 1}

\* Every step is one of those above: it keeps the books and answers open
\* parses only, but for the request, which opens the parse it is for.
LEMMA EveryStep ==
    ASSUME PoolRests, [Next]_vars
    PROVE  /\ PoolRests'
           /\ (OnlyAnswers(pool, pool') /\ turn' = turn) \/ \E j \in Job : Request(j)
<1>1. ASSUME NEW w \in Worker,
             ThreadLoads(w) \/ ThreadParses(w) \/ ThreadCrashes(w)
      PROVE  PoolRests' /\ OnlyAnswers(pool, pool') /\ turn' = turn
  <2>1. Rested(pool') /\ OnlyAnswers(pool, pool')
    BY <1>1, ThreadStep DEF PoolRests
  <2>2. UNCHANGED <<doomed, destroyed, turn>>
    BY <1>1 DEF ThreadLoads, ThreadParses, ThreadCrashes, Sends
  <2> QED
    BY <2>1, <2>2 DEF PoolRests
<1>2. ASSUME NEW w \in Worker, OnMail(w)
      PROVE  PoolRests' /\ OnlyAnswers(pool, pool') /\ turn' = turn
  <2>1. Rested(pool') /\ OnlyAnswers(pool, pool')
    BY <1>2, LoadedStep, ResultStep, DeathStep DEF PoolRests, OnMail
  <2>2. UNCHANGED <<doomed, destroyed, turn>>
    BY <1>2 DEF OnMail, OnLoaded, OnResult, OnDeath
  <2> QED
    BY <2>1, <2>2 DEF PoolRests
<1>3. ASSUME NEW w \in Worker, OnTimer(w)
      PROVE  PoolRests' /\ OnlyAnswers(pool, pool') /\ turn' = turn
  <2>1. Rested(pool') /\ OnlyAnswers(pool, pool')
    BY <1>3, TimerStep DEF PoolRests, OnTimer
  <2>2. UNCHANGED <<doomed, destroyed, turn>>
    BY <1>3 DEF OnTimer, OnTimeout, OnHardTimeout
  <2> QED
    BY <2>1, <2>2 DEF PoolRests
<1>4. ASSUME NEW w \in Worker, TerminateSettled(w)
      PROVE  PoolRests' /\ OnlyAnswers(pool, pool') /\ turn' = turn
  BY <1>4, TerminateStep DEF PoolRests, TerminateSettled
<1>5. ASSUME NEW j \in Job, Request(j)
      PROVE  PoolRests'
  <2>1. Rested(pool')
    BY <1>5, RequestStep DEF PoolRests
  <2>2. UNCHANGED <<doomed, destroyed>> /\ turn' = 1 - turn
    BY <1>5 DEF Request
  <2> QED
    BY <2>1, <2>2 DEF PoolRests
<1>6. CASE RecycleAll
  BY <1>6, RecycleAllStep DEF PoolRests, RecycleAll
<1>7. CASE Destroy
  <2>1. Rested(pool') /\ OnlyAnswers(pool, pool')
    BY <1>7, DestroyStep DEF PoolRests
  <2>2. doomed' = pool.workers /\ destroyed' = TRUE /\ turn' = turn
    BY <1>7 DEF Destroy
  <2>3. pool.workers \subseteq Worker
    BY DEF PoolRests, Rested, GoodPool, PoolType
  <2> QED
    BY <2>1, <2>2, <2>3, Zenon DEF PoolRests
<1>8. CASE UNCHANGED vars
  BY <1>8 DEF PoolRests, OnlyAnswers, vars
<1> QED
  BY <1>1, <1>2, <1>3, <1>4, <1>5, <1>6, <1>7, <1>8, Zenon DEF Next

LEMMA AlwaysRests == Spec => []PoolRests
<1>1. Init => PoolRests
  BY InitStep DEF PoolRests, Init
<1>2. PoolRests /\ [Next]_vars => PoolRests'
  BY EveryStep
<1> QED
  BY <1>1, <1>2, PTL DEF Spec

\* ParseInv: the books of the pool agree whenever no handler runs.  Every
\* parse without an answer is in the queue or with exactly one worker, that
\* worker is owned, loaded and under a timer, no worker is handed out twice,
\* and none is idle while a parse waits; through crashes, hard limits, late
\* results, spawns that throw, recycleAll() and destroy().
THEOREM ParseInvariant == Spec => []ParseInv
<1>1. PoolRests => ParseInv
  BY OnePlace DEF PoolRests, Rested, GoodPool, ParseInv, TypeOK
<1> QED
  BY <1>1, AlwaysRests, PTL

\* QueuedHasWorker: drain()'s hang prevention covers every way to lose the
\* last worker, as no parse is left in the queue of a pool without workers.
THEOREM NobodyWaitsForNone == Spec => []QueuedHasWorker
<1>1. PoolRests => QueuedHasWorker
  BY DEF PoolRests, Rested, QueuedHasWorker
<1> QED
  BY <1>1, AlwaysRests, PTL

\* The pool implements AbstractCalls, but for its liveness: a parse that has
\* its answer gets another one in no step but its caller's next request; the
\* limits, a late result, a death and destroy() answer only what is open.
THEOREM AnsweredOnce == Spec => Calls!Spec
<1>1. Init => Calls!Init
  BY InitStep DEF Calls!Init, Init
<1>2. ASSUME PoolRests, PoolRests', [Next]_vars
      PROVE  [Calls!Next]_(<<pool.answer, turn>>)
  <2>1. pool'.answer \in [Job -> (Rejection \cup {"ok"}) \cup {"new", "open"}]
    BY <1>2 DEF PoolRests, Rested, GoodPool, PoolType
  <2>2. CASE OnlyAnswers(pool, pool') /\ turn' = turn
    BY <2>1, <2>2 DEF Calls!Next, Calls!Settle, Calls!Answered, OnlyAnswers
  <2>3. ASSUME NEW j \in Job, Request(j)
        PROVE  Calls!Next
    <3>1. /\ \A i \in Job \ {j} : pool'.answer[i] # pool.answer[i] =>
                pool.answer[i] = "open" /\ pool'.answer[i] \in Rejection \cup {"ok"}
          /\ pool.answer[j] # "open" /\ pool'.answer[j] # "new"
      BY <1>2, <2>3, RequestStep DEF PoolRests
    <3>3. turn' = 1 - turn
      BY <2>3 DEF Request
    <3>2. Calls!Ask(j)
      BY <2>1, <3>1, <3>3 DEF Calls!Ask, Calls!Answered
    <3> QED
      BY <3>2 DEF Calls!Next
  <2> QED
    BY <1>2, <2>2, <2>3, EveryStep
<1> QED
  BY <1>1, <1>2, AlwaysRests, PTL DEF Spec, Calls!Spec, Calls!vars
=============================================================================
