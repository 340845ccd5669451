------------------------------ MODULE ParsePool ------------------------------
(***************************************************************************)
(* src/src/extraction/parse-pool.ts, class ParseWorkerPool: files parsed   *)
(* on worker threads.  Each handler of the pool is one step of the main    *)
(* thread; the threads run beside it, may crash or hang in a parse, and    *)
(* what they send arrives later.  A parse that loses its worker is not     *)
(* tried again here: it is rejected, and IndexPipeline tries it again.     *)
(***************************************************************************)
EXTENDS Integers, Sequences, SequencesExt, FiniteSets, FiniteSetsExt

CONSTANTS
    Worker,             \* worker handles; one whose thread is gone is used again
    Job,                \* the files to parse; each has one parse out at a time
    MaxSize,            \* maxSize
    MaxSpawn,           \* MAX_CONCURRENT_SPAWN
    CrashBudget,        \* CRASH_BUDGET
    RecycleInterval     \* recycleInterval

ASSUME JobAssumption    == Job \subseteq Nat \ {0}
ASSUME WorkerAssumption == IsFiniteSet(Worker)
ASSUME PoolAssumption   ==
    {MaxSize, MaxSpawn, CrashBudget, RecycleInterval} \subseteq Nat \ {0}

None == 0

VARIABLES
    pool,       \* what the handlers work on, see TypeOK
    doomed,     \* workers destroy() is waiting to terminate
    destroyed,  \* destroyed
    turn        \* history: the parity of the number of requests made

vars == <<pool, doomed, destroyed, turn>>

\* A parse is rejected as retryable ("lost") or because the pool has ended.
Rejection == {"lost", "refused"}

PoolType ==
    [idle : Seq(Worker), queue : Seq(Job), inflight : [Worker -> Job \cup {None}],
     workers : SUBSET Worker, pending : SUBSET Worker,
     loads : SUBSET Worker,                   \* loads not yet settled
     parses : [Worker -> 0..RecycleInterval],
     crashes : 0..CrashBudget,                \* counted up to the budget
     timer : [Job -> {"off", "soft", "hard"}],
     answer : [Job -> {"new", "open", "ok"} \cup Rejection],
     thread : [Worker -> {"gone", "loading", "up", "busy"}],
     mail : [Worker -> Seq({"loaded", "result", "error", "exit"})]]

TypeOK ==
    /\ pool \in PoolType /\ Cardinality(pool.workers) <= MaxSize
    /\ doomed \subseteq Worker /\ destroyed \in BOOLEAN /\ turn \in {0, 1}

Healthy(p) == ~destroyed /\ p.crashes < CrashBudget

-----------------------------------------------------------------------------
(* The pool's helpers: each gives the pool that a handler leaves behind,   *)
(* or the set of pools where creating a worker may throw.                  *)

\* settle(): the first answer counts, and stops the timers.
Settle(p, j, a) ==
    IF p.answer[j] = "open"
    THEN [p EXCEPT !.answer[j] = a, !.timer[j] = "off"] ELSE p

\* Handles that may stand for a new worker.  What the thread of an old one
\* sent is lost then, and would change nothing.
Fresh(p) == {w \in Worker \ (p.workers \cup p.loads) : p.thread[w] = "gone"}

Crashed(p, n) == [p EXCEPT !.crashes = Min({@ + n, CrashBudget})]

\* spawnOne() that succeeds for each of ws and throws f times.
Spawned(p, ws, f) ==
    [Crashed(p, f) EXCEPT
        !.workers = @ \cup ws, !.pending = @ \cup ws, !.loads = @ \cup ws,
        !.parses = [w \in Worker |-> IF w \in ws THEN 0 ELSE @[w]],
        !.mail = [w \in Worker |-> IF w \in ws THEN << >> ELSE @[w]],
        !.thread = [w \in Worker |-> IF w \in ws THEN "loading" ELSE @[w]]]

\* n calls of spawnOne() below the size cap: k succeed, the others throw or
\* come after the crash budget is spent.
Respawned(p, n) ==
    IF ~Healthy(p) THEN {p}
    ELSE UNION {{Spawned(p, ws, n - k) : ws \in kSubset(k, Fresh(p))} : k \in 0..n}

SpawnOne(p) ==
    IF Cardinality(p.workers) >= MaxSize THEN {p} ELSE Respawned(p, 1)

\* drain()'s loop, which wants n more workers: it gets them, or the attempts
\* that throw use up the crash budget first.
Grown(p, n) ==
    IF n <= 0 \/ ~Healthy(p) THEN {p}
    ELSE LET spare == CrashBudget - p.crashes
         IN  {Spawned(p, ws, f) : ws \in kSubset(n, Fresh(p)), f \in 0..(spare - 1)}
             \cup UNION {{Spawned(p, ws, spare) : ws \in kSubset(k, Fresh(p))} :
                            k \in 0..(n - 1)}

\* wantedSize(), from what the parses measured so far took, is any size from
\* one worker up.
Wanted == 1..MaxSize

\* The idle stack takes the head of the queue; each parse gets its timer.
Dispatched(p) ==
    LET n     == Min({Len(p.idle), Len(p.queue)})
        At(w) == CHOOSE k \in 1..n : p.idle[Len(p.idle) + 1 - k] = w
        ws    == {p.idle[Len(p.idle) + 1 - k] : k \in 1..n}
        js    == {p.queue[k] : k \in 1..n}
    IN  [p EXCEPT
            !.idle = SubSeq(@, 1, Len(@) - n), !.queue = SubSeq(@, n + 1, Len(@)),
            !.inflight = [w \in Worker |-> IF w \in ws THEN p.queue[At(w)] ELSE @[w]],
            !.parses = [w \in Worker |-> IF w \in ws THEN @[w] + 1 ELSE @[w]],
            !.timer = [j \in Job |-> IF j \in js THEN "soft" ELSE @[j]],
            !.thread = [w \in Worker |-> IF w \in ws /\ @[w] = "up"
                                         THEN "busy" ELSE @[w]]]

\* Hang prevention: with no worker left the queue is rejected.
Unhung(p) ==
    IF p.workers # {} THEN p
    ELSE [p EXCEPT !.queue = << >>,
                   !.answer = [j \in Job |-> IF Contains(p.queue, j)
                                             THEN "refused" ELSE @[j]]]

\* drain() with no hang prevention.
DrainedHopeful(p) ==
    UNION {{Dispatched(q) :
               q \in Grown(p, Min({Len(p.queue) - Len(p.idle) - Cardinality(p.pending),
                                   n - Cardinality(p.workers),
                                   MaxSpawn - Cardinality(p.pending)}))} :
           n \in Wanted}

Drained(p) ==
    UNION {{Unhung(Dispatched(q)) :
               q \in Grown(p, Min({Len(p.queue) - Len(p.idle) - Cardinality(p.pending),
                                   n - Cardinality(p.workers),
                                   MaxSpawn - Cardinality(p.pending)}))} :
           n \in Wanted}

\* removeWorker(), and the end of its thread; a worker is idle once at most.
Removed(p, w) ==
    [p EXCEPT !.workers = @ \ {w}, !.pending = @ \ {w}, !.parses[w] = 0,
              !.idle = RemoveFirst(@, w),
              !.inflight[w] = None, !.thread[w] = "gone"]

\* A worker that is lost takes its parse with it; one attempt replaces it.
LetGo(p, w) ==
    LET j == p.inflight[w]
        q == Removed(p, w)
    IN  UNION {Drained(r) : r \in SpawnOne(IF j = None THEN q ELSE Settle(q, j, "lost"))}

\* The first of a worker's error and exit counts.
OnWorkerGone(p, w) ==
    IF w \in p.workers THEN LetGo(Crashed(p, 1), w) ELSE {p}

\* recycle(): a fresh worker instead of w, not counted as a crash.
Recycled(p, w) == SpawnOne(Removed(p, w))

-----------------------------------------------------------------------------
(* The threads.                                                            *)

Sends(w, state, ms) ==
    /\ pool' = [pool EXCEPT !.thread[w] = state, !.mail[w] = @ \o ms]
    /\ UNCHANGED <<doomed, destroyed, turn>>

ThreadLoads(w) == pool.thread[w] = "loading" /\ Sends(w, "up", <<"loaded">>)

\* A parse ends; it need not, a worker may hang in it.
ThreadParses(w) == pool.thread[w] = "busy" /\ Sends(w, "up", <<"result">>)

\* A crash is heard as an error and an exit, or as an exit alone.
ThreadCrashes(w) ==
    /\ pool.thread[w] # "gone"
    /\ Sends(w, "gone", <<"error", "exit">>) \/ Sends(w, "gone", <<"exit">>)

-----------------------------------------------------------------------------
(* The pool's handlers.                                                    *)

\* The pool that has taken the first message of w, and it is m.
Arrives(w, m) == pool.mail[w] # << >> /\ Head(pool.mail[w]) = m
Taken(w)      == [pool EXCEPT !.mail[w] = Tail(@)]

LoadSettled(p, w) == [p EXCEPT !.loads = @ \ {w}]

OnLoaded(w) ==
    /\ Arrives(w, "loaded")
    /\ LET p == LoadSettled(Taken(w), w)
       IN  IF w \in pool.workers
           THEN pool' \in Drained([p EXCEPT !.pending = @ \ {w},
                                            !.idle = Append(@, w)])
           ELSE pool' = p
    /\ UNCHANGED <<doomed, destroyed, turn>>

\* The worker is recycled when it has parsed enough, and idle otherwise.
Freed(p, w) ==
    IF p.parses[w] >= RecycleInterval THEN Recycled(p, w)
    ELSE {[p EXCEPT !.idle = Append(@, w)]}

\* A result counts as long as its parse is out, late or not.
OnResult(w) ==
    /\ Arrives(w, "result")
    /\ LET j == pool.inflight[w]
           p == Taken(w)
       IN  IF j = None THEN pool' = p
           ELSE pool' \in UNION {Drained(Settle(q, j, "ok")) :
                                    q \in Freed([p EXCEPT !.inflight[w] = None], w)}
    /\ UNCHANGED <<doomed, destroyed, turn>>

\* A death that leaves the load of the worker unsettled.
OnDeathKeepsLoad(w) ==
    /\ Arrives(w, "error") \/ Arrives(w, "exit")
    /\ pool' \in OnWorkerGone(Taken(w), w)
    /\ UNCHANGED <<doomed, destroyed, turn>>

OnDeath(w) ==
    /\ Arrives(w, "error") \/ Arrives(w, "exit")
    /\ pool' \in OnWorkerGone(LoadSettled(Taken(w), w), w)
    /\ UNCHANGED <<doomed, destroyed, turn>>

\* The base timer only marks the parse as late.
OnTimeoutForgets(w) ==
    /\ pool.inflight[w] # None /\ pool.timer[pool.inflight[w]] = "soft"
    /\ pool' = [pool EXCEPT !.timer[pool.inflight[w]] = "off"]
    /\ UNCHANGED <<doomed, destroyed, turn>>

\* The base timer marks the parse as late and arms the hard limit.
OnTimeout(w) ==
    /\ pool.inflight[w] # None /\ pool.timer[pool.inflight[w]] = "soft"
    /\ pool' = [pool EXCEPT !.timer[pool.inflight[w]] = "hard"]
    /\ UNCHANGED <<doomed, destroyed, turn>>

\* The hard limit ends the worker and rejects its parse; not a crash.
OnHardTimeout(w) ==
    /\ pool.inflight[w] # None /\ pool.timer[pool.inflight[w]] = "hard"
    /\ pool' \in LetGo(pool, w)
    /\ UNCHANGED <<doomed, destroyed, turn>>

-----------------------------------------------------------------------------
(* What the index asks of the pool.                                        *)

\* requestParse(): rejected at once after destroy().
Request(j) ==
    /\ pool.answer[j] # "open"
    /\ pool' \in IF destroyed THEN {[pool EXCEPT !.answer[j] = "refused"]}
                 ELSE Drained([pool EXCEPT !.queue = Append(@, j),
                                           !.answer[j] = "open"])
    /\ turn' = 1 - turn
    /\ UNCHANGED <<doomed, destroyed>>

\* recycleAll(): every idle worker is let go and replaced, one after the
\* other; which handles stand for the new workers makes no difference.
RecycleAll ==
    /\ LET ws == ToSet(pool.idle)
       IN  pool' \in Respawned(
              [pool EXCEPT
                 !.workers = @ \ ws, !.idle = << >>,
                 !.parses = [w \in Worker |-> IF w \in ws THEN 0 ELSE @[w]],
                 !.thread = [w \in Worker |-> IF w \in ws THEN "gone" ELSE @[w]]],
              Len(pool.idle))
    /\ UNCHANGED <<doomed, destroyed, turn>>

\* destroy() that rejects every parse that was requested.
DestroyRejectsAll ==
    /\ ~destroyed /\ destroyed' = TRUE
    /\ pool' = [pool EXCEPT
          !.workers = {}, !.pending = {}, !.idle = << >>, !.queue = << >>,
          !.inflight = [w \in Worker |-> None], !.parses = [w \in Worker |-> 0],
          !.timer = [j \in Job |-> "off"],
          !.answer = [j \in Job |-> IF pool.answer[j] # "new"
                                    THEN "refused" ELSE @[j]]]
    /\ doomed' = pool.workers
    /\ UNCHANGED turn

\* destroy(): every parse that is out is rejected at once.
Destroy ==
    /\ ~destroyed /\ destroyed' = TRUE
    /\ pool' = [pool EXCEPT
          !.workers = {}, !.pending = {}, !.idle = << >>, !.queue = << >>,
          !.inflight = [w \in Worker |-> None], !.parses = [w \in Worker |-> 0],
          !.timer = [j \in Job |-> "off"],
          !.answer = [j \in Job |-> IF Contains(pool.queue, j)
                                          \/ \E w \in Worker : pool.inflight[w] = j
                                    THEN "refused" ELSE @[j]]]
    /\ doomed' = pool.workers
    /\ UNCHANGED turn

\* terminateSettled(w): not while the worker loads.  The cap on that wait is
\* left out: the end must come without it.
TerminateSettled(w) ==
    /\ w \in doomed /\ w \notin pool.loads
    /\ doomed' = doomed \ {w}
    /\ pool' = [pool EXCEPT !.thread[w] = "gone"]
    /\ UNCHANGED <<destroyed, turn>>

-----------------------------------------------------------------------------

\* The constructor spawns one worker, prewarm() the rest it wants until a
\* spawn throws.
Init ==
    /\ doomed = {} /\ destroyed = FALSE /\ turn = 0
    /\ LET none == [idle |-> << >>, queue |-> << >>,
                    inflight |-> [w \in Worker |-> None],
                    workers |-> {}, pending |-> {}, loads |-> {}, crashes |-> 0,
                    parses |-> [w \in Worker |-> 0],
                    timer  |-> [j \in Job |-> "off"],
                    answer |-> [j \in Job |-> "new"],
                    thread |-> [w \in Worker |-> "gone"],
                    mail   |-> [w \in Worker |-> << >>]]
       IN  \E n \in Wanted, eager \in {0, 1} :
             \E ws \in UNION {kSubset(k, Worker) : k \in eager..n} :
                pool = Spawned(none, ws,
                               (1 - eager) + (IF Cardinality(ws) < n THEN 1 ELSE 0))

OnMail(w)  == OnLoaded(w) \/ OnResult(w) \/ OnDeath(w)
OnTimer(w) == OnTimeout(w) \/ OnHardTimeout(w)

Next ==
    \/ \E w \in Worker :
          \/ ThreadLoads(w) \/ ThreadParses(w) \/ ThreadCrashes(w)
          \/ OnMail(w) \/ OnTimer(w) \/ TerminateSettled(w)
    \/ \E j \in Job : Request(j)
    \/ RecycleAll \/ Destroy

\* Grammars load or the thread dies, messages and timers are delivered, and
\* terminate() ends a thread.  A parse need not end.
Spec ==
    /\ Init /\ [][Next]_vars
    /\ \A w \in Worker :
          /\ WF_vars(ThreadLoads(w)) /\ WF_vars(OnMail(w))
          /\ WF_vars(OnTimer(w)) /\ WF_vars(TerminateSettled(w))

-----------------------------------------------------------------------------
(* Properties.                                                             *)

\* How many places hold parse j: positions of the queue and workers.
Places(j) ==
    Cardinality({i \in DOMAIN pool.queue : pool.queue[i] = j})
      + Cardinality({w \in Worker : pool.inflight[w] = j})

\* An open parse is in exactly one place, and one that a worker has is on a
\* timer, with a worker the pool still owns: whatever becomes of the thread,
\* something is left that ends the parse.
OpenIsWatched ==
    \A j \in Job :
        /\ Places(j) = (IF pool.answer[j] = "open" THEN 1 ELSE 0)
        /\ \A w \in Worker : pool.inflight[w] = j =>
              w \in pool.workers /\ pool.timer[j] # "off"

\* An idle worker is loaded, has no parse and can take one more.
IdleIsFree(p) ==
    \A i \in DOMAIN p.idle :
        /\ p.idle[i] \in p.workers \ p.pending /\ p.inflight[p.idle[i]] = None
        /\ p.parses[p.idle[i]] < RecycleInterval
        /\ \A k \in DOMAIN p.idle : p.idle[k] = p.idle[i] => k = i

\* A worker that parses is loaded, owned and on a timer, alone with its parse.
BusyIsWatched(p) ==
    \A w \in Worker : p.inflight[w] # None =>
        /\ w \in p.workers \ p.pending /\ p.timer[p.inflight[w]] # "off"
        /\ \A v \in Worker : p.inflight[v] = p.inflight[w] => v = w

\* A parse waits once, and not while a worker has it.
QueueWaits(p) ==
    \A i \in DOMAIN p.queue :
        /\ \A k \in DOMAIN p.queue : p.queue[k] = p.queue[i] => k = i
        /\ \A w \in Worker : p.inflight[w] # p.queue[i]

Held(p, j) == Contains(p.queue, j) \/ \E w \in Worker : p.inflight[w] = j

\* The parses that are open, but for the ones in js, are those that are held.
OpenIsHeld(p, js) ==
    /\ \A j \in Job : p.answer[j] = "open" <=> Held(p, j) \/ j \in js
    /\ \A j \in js : ~Held(p, j)

\* A worker that loads has not parsed, and tells first of all that it loaded.
StartIsFirst(p) ==
    \A w \in Worker :
        /\ w \in p.pending => w \in p.workers /\ p.parses[w] = 0
        /\ p.thread[w] = "loading" =>
              p.mail[w] = << >> /\ (w \in p.workers => w \in p.pending)
        /\ \A i \in DOMAIN p.mail[w] : p.mail[w][i] = "loaded" =>
              i = 1 /\ (w \in p.workers => w \in p.pending)

\* No worker is idle while a parse waits.
AllDispatched(p) == p.idle = << >> \/ p.queue = << >>

BooksAgree(p, js) ==
    /\ IdleIsFree(p) /\ BusyIsWatched(p) /\ QueueWaits(p)
    /\ OpenIsHeld(p, js) /\ StartIsFirst(p)

\* The types, and workers and parses that are all accounted for.
ParseInv ==
    TypeOK /\ OpenIsWatched /\ BooksAgree(pool, {}) /\ AllDispatched(pool)

\* A parse that waits has a worker to wait for (hang prevention).
QueuedHasWorker == pool.queue # << >> => pool.workers # {}

\* The pool keeps the promise of AbstractCalls: each parse is answered, and
\* once, though workers hang, crash or cannot be made, and the limits, a late
\* result, the death of the worker and destroy() race for the answer.  Only
\* its caller's next request takes an answer back.
Calls == INSTANCE AbstractCalls WITH
    Call <- Job, Answer <- Rejection \cup {"ok"}, call <- pool.answer

ImplementsCalls == Calls!FairSpec

\* destroy() comes to its end, with workers that are still loading, and no
\* thread of the pool is left then.
DestroyEnds ==
    destroyed ~> doomed = {} /\ \A w \in Worker : pool.thread[w] = "gone"
=============================================================================
