------------------------------ MODULE QueryPool ------------------------------
(***************************************************************************)
(* src/src/mcp/query-pool.ts, class QueryPool: read-tool calls on a pool   *)
(* of worker threads.  The pool runs on one event loop, so each of its     *)
(* handlers is one step; the threads run beside it and their messages and  *)
(* exits arrive later, in the order they were sent.  Between the two lie   *)
(* the hazards: a call posted to a thread that has just died, a result     *)
(* after the backstop's answer, a worker retired while it crashes, a       *)
(* shutdown while workers start.                                           *)
(***************************************************************************)
EXTENDS Integers, Sequences, SequencesExt, FiniteSets, FiniteSetsExt

CONSTANTS
    Worker,         \* worker handles; one whose thread is gone is used again
    MaxJobs,        \* bound: calls made
    MaxSize,        \* maxSize
    WarmFloor,      \* warmFloor
    ColdSpawn,      \* MAX_CONCURRENT_SPAWN
    WarmSpawn,      \* MAX_WARM_SPAWN
    CrashBudget,    \* CRASH_BUDGET
    MaxRetries,     \* maxRetries
    HasRoot         \* root # null: one eager worker, one kept warm

ASSUME WorkerAssumption == IsFiniteSet(Worker)
ASSUME SizeAssumption   ==
    /\ {MaxJobs, WarmFloor, CrashBudget, MaxRetries} \subseteq Nat
    /\ {MaxSize, ColdSpawn, WarmSpawn} \subseteq Nat \ {0}
    /\ WarmFloor <= MaxSize /\ HasRoot \in BOOLEAN

Job == 1..MaxJobs
NoCall == 0

VARIABLES
    pool,       \* what the handlers work on, see PoolTypeOK
    mail,       \* mail[w]: what thread w has sent and the pool not handled
    asked,      \* calls made so far
    retiring,   \* retiring: workers asked to exit by themselves
    doomed,     \* workers destroy() is waiting to terminate
    destroyed   \* destroyed

poolVars == <<pool, mail, asked, retiring, doomed, destroyed>>

Message == {"ready", "bad", "result", "error", "exit", "exit0"}
Thread  == {"gone", "starting", "up", "failed", "busy", "closing"}

PoolRecord ==
    [idle : Seq(Worker), queue : Seq(Job), inflight : [Worker -> Job \cup {NoCall}],
     workers : SUBSET Worker, pending : SUBSET Worker,
     starts : SUBSET Worker,                  \* starts not yet settled
     crashes : Nat, everReady : BOOLEAN,
     answers : [Job -> 0..2],                 \* times resolve was called
     retries : [Job -> 0..MaxRetries],
     thread : [Worker -> Thread]]

PoolTypeOK ==
    /\ pool \in PoolRecord /\ Cardinality(pool.workers) <= MaxSize
    /\ mail \in [Worker -> Seq(Message)] /\ asked \in 0..MaxJobs
    /\ retiring \subseteq Worker /\ doomed \subseteq Worker
    /\ destroyed \in BOOLEAN

Settled(p, j) == p.answers[j] > 0

Healthy(p) == ~destroyed /\ p.crashes < CrashBudget

SpawnCap(p) == IF p.everReady THEN WarmSpawn ELSE ColdSpawn

Unsettled(p) == {i \in DOMAIN p.queue : ~Settled(p, p.queue[i])}

-----------------------------------------------------------------------------
(* The pool's helpers: each gives the pool that a handler leaves behind,   *)
(* or the set of pools where creating a worker may fail.                   *)

Settle(p, j) == IF Settled(p, j) THEN p ELSE [p EXCEPT !.answers[j] = 1]

Park(p, w) == [p EXCEPT !.idle = Append(@, w)]

\* Handles that may stand for a new worker, and n of them: which ones makes
\* no difference.
Fresh(p) ==
    {w \in Worker \ (p.workers \cup p.starts \cup retiring) :
        p.thread[w] = "gone" /\ mail[w] = << >>}

Take(p, n) == LET s == kSubset(n, Fresh(p)) IN IF s = {} THEN {} ELSE {CHOOSE ws \in s : TRUE}

\* spawnOne() that succeeds for each of ws and throws f times.
Spawned(p, ws, f) ==
    [p EXCEPT !.workers = @ \cup ws, !.pending = @ \cup ws, !.starts = @ \cup ws,
              !.crashes = @ + f,
              !.thread = [w \in Worker |-> IF w \in ws THEN "starting" ELSE @[w]]]

\* A loop of spawnOne() that wants n more workers: it gets them, or the
\* attempts that throw use up the crash budget first.
Grown(p, n) ==
    IF n <= 0 \/ ~Healthy(p) THEN {p}
    ELSE LET spare == CrashBudget - p.crashes
         IN  {Spawned(p, ws, f) : ws \in Take(p, n), f \in 0..(spare - 1)}
             \cup UNION {{Spawned(p, ws, spare) : ws \in Take(p, k)} :
                            k \in 0..(n - 1)}

Warmed(p) ==
    Grown(p, Min({WarmFloor - Cardinality(p.workers),
                  SpawnCap(p) - Cardinality(p.pending)}))

\* drain() grows the pool while more calls wait than workers are idle or on
\* their way up.
Demanded(p) ==
    Grown(p, Min({Len(p.queue) - Len(p.idle) - Cardinality(p.pending),
                  MaxSize - Cardinality(p.workers),
                  SpawnCap(p) - Cardinality(p.pending)}))

\* The calls that the idle stack takes, as positions of the queue: the first
\* ones not answered yet, as many as there are or as workers are idle.
Picks(p) ==
    {at \in UNION {[1..n -> Unsettled(p)] : n \in 0..Len(p.idle)} :
        /\ \A k, l \in DOMAIN at : k < l => at[k] < at[l]
        /\ \A i \in Unsettled(p) :
              \/ \E k \in DOMAIN at : at[k] = i
              \/ Len(at) = Len(p.idle) /\ \A k \in DOMAIN at : at[k] < i}

\* The stack's k-th worker from the top gets the call at at[k].  Answered
\* calls are skipped as long as a worker is idle.
Served(p, at) ==
    LET n      == Len(at)
        cut    == IF n < Len(p.idle) THEN Len(p.queue) ELSE IF n = 0 THEN 0 ELSE at[n]
        Top(k) == p.idle[Len(p.idle) + 1 - k]
        Nth(w) == CHOOSE k \in 1..n : Top(k) = w
        ws     == {Top(k) : k \in 1..n}
    IN  [p EXCEPT
            !.idle  = SubSeq(@, 1, Len(@) - n),
            !.queue = SubSeq(@, cut + 1, Len(@)),
            !.inflight = [w \in Worker |->
                            IF w \in ws THEN p.queue[at[Nth(w)]] ELSE @[w]],
            !.thread = [w \in Worker |-> IF w \in ws /\ @[w] = "up"
                                         THEN "busy" ELSE @[w]]]

Dispatched(p) == {Served(p, at) : at \in Picks(p)}

Drained(p) ==
    UNION {UNION {Dispatched(r) : r \in Demanded(q)} : q \in Warmed(p)}

\* The pool without worker w, whose thread is terminated; a worker is idle
\* once at most.
Lost(p, w) ==
    [p EXCEPT !.workers = @ \ {w}, !.pending = @ \ {w},
              !.idle = RemoveFirst(@, w),
              !.crashes = @ + 1, !.inflight[w] = NoCall, !.thread[w] = "gone"]

\* One attempt to make up for it.
Replaced(p) ==
    IF ~Healthy(p) THEN {p}
    ELSE {Spawned(p, ws, 0) : ws \in Take(p, 1)} \cup {Spawned(p, {}, 1)}

\* The call a dead worker had goes back to the head of the queue, or is
\* answered with an error.
Retried(p, j) ==
    IF j = NoCall THEN p
    ELSE IF p.retries[j] < MaxRetries /\ Healthy(p)
         THEN [p EXCEPT !.retries[j] = @ + 1, !.queue = <<j>> \o @]
         ELSE Settle(p, j)

\* onWorkerGone() that forgets the call.
OnWorkerGoneForgets(p, w) ==
    IF w \notin p.workers THEN {p}
    ELSE UNION {Drained(q) : q \in Replaced(Lost(p, w))}

\* A worker died: it is replaced and its call retried or given up.
OnWorkerGone(p, w) ==
    IF w \notin p.workers THEN {p}
    ELSE UNION {Drained(Retried(q, p.inflight[w])) : q \in Replaced(Lost(p, w))}

-----------------------------------------------------------------------------
(* The threads.                                                            *)

Sent(w, ms) == mail' = [mail EXCEPT ![w] = @ \o ms]

ThreadStarts(w) ==
    /\ pool.thread[w] = "starting"
    /\ \/ pool' = [pool EXCEPT !.thread[w] = "up"] /\ Sent(w, <<"ready">>)
       \/ pool' = [pool EXCEPT !.thread[w] = "failed"] /\ Sent(w, <<"bad">>)
    /\ UNCHANGED <<asked, retiring, doomed, destroyed>>

ThreadAnswers(w) ==
    /\ pool.thread[w] = "busy"
    /\ pool' = [pool EXCEPT !.thread[w] = "up"]
    /\ Sent(w, <<"result">>)
    /\ UNCHANGED <<asked, retiring, doomed, destroyed>>

ThreadCloses(w) ==
    /\ pool.thread[w] = "closing"
    /\ pool' = [pool EXCEPT !.thread[w] = "gone"]
    /\ Sent(w, <<"exit0">>)
    /\ UNCHANGED <<asked, retiring, doomed, destroyed>>

ThreadCrashes(w) ==
    /\ pool.thread[w] # "gone"
    /\ pool' = [pool EXCEPT !.thread[w] = "gone"]
    /\ \/ Sent(w, <<"error", "exit">>)
       \/ Sent(w, <<"exit">>)
    /\ UNCHANGED <<asked, retiring, doomed, destroyed>>

-----------------------------------------------------------------------------
(* The pool handles what a thread sent.                                    *)

\* Takes the head of w's mail; terminating a thread that still runs makes
\* it exit with a code other than zero.
Handled(w, killed) ==
    mail' = [mail EXCEPT ![w] = Tail(@) \o (IF killed THEN <<"exit">> ELSE << >>)]

Head1(w, m) == mail[w] # << >> /\ Head(mail[w]) = m

\* The start is settled; handshakes of workers let go of are ignored after.
StartSettled(w) == [pool EXCEPT !.starts = @ \ {w}]

\* A handshake that is ignored altogether from a worker let go of.
OnReadyOwnedOnly(w) ==
    /\ Head1(w, "ready")
    /\ IF w \in pool.pending
       THEN pool' \in Drained(Park([StartSettled(w) EXCEPT
                                      !.pending = @ \ {w}, !.everReady = TRUE], w))
       ELSE UNCHANGED pool
    /\ Handled(w, FALSE)
    /\ UNCHANGED <<asked, retiring, doomed, destroyed>>

\* A handshake that leaves the queue alone.
OnReadyNoDrain(w) ==
    /\ Head1(w, "ready")
    /\ pool' = IF w \in pool.pending
               THEN Park([StartSettled(w) EXCEPT
                            !.pending = @ \ {w}, !.everReady = TRUE], w)
               ELSE StartSettled(w)
    /\ Handled(w, FALSE)
    /\ UNCHANGED <<asked, retiring, doomed, destroyed>>

OnReady(w) ==
    /\ Head1(w, "ready")
    /\ IF w \in pool.pending
       THEN pool' \in Drained(Park([StartSettled(w) EXCEPT
                                      !.pending = @ \ {w}, !.everReady = TRUE], w))
       ELSE pool' = StartSettled(w)
    /\ Handled(w, FALSE)
    /\ UNCHANGED <<asked, retiring, doomed, destroyed>>

\* ready with ok: false, a start that failed: like a crash.
OnBad(w) ==
    /\ Head1(w, "bad")
    /\ pool' \in IF w \in pool.pending THEN OnWorkerGone(StartSettled(w), w)
                                       ELSE {StartSettled(w)}
    /\ Handled(w, w \in pool.pending /\ pool.thread[w] # "gone")
    /\ UNCHANGED <<asked, retiring, doomed, destroyed>>

\* The worker parks and its call is answered, unless the backstop did that.
OnResult(w) ==
    /\ Head1(w, "result")
    /\ IF w \in pool.workers
       THEN LET j    == pool.inflight[w]
                free == Park([pool EXCEPT !.inflight[w] = NoCall], w)
            IN  pool' \in Drained(IF j = NoCall THEN free ELSE Settle(free, j))
       ELSE UNCHANGED pool
    /\ Handled(w, FALSE)
    /\ UNCHANGED <<asked, retiring, doomed, destroyed>>

OnError(w) ==
    /\ Head1(w, "error")
    /\ pool' \in OnWorkerGone(StartSettled(w), w)
    /\ Handled(w, FALSE)
    /\ UNCHANGED <<asked, retiring, doomed, destroyed>>

\* An exit settles the start and a retirement; only a failing one is a crash.
OnExit(w) ==
    /\ \/ Head1(w, "exit") /\ pool' \in OnWorkerGone(StartSettled(w), w)
       \/ Head1(w, "exit0") /\ pool' = StartSettled(w)
    /\ retiring' = retiring \ {w}
    /\ Handled(w, FALSE)
    /\ UNCHANGED <<asked, doomed, destroyed>>

-----------------------------------------------------------------------------
(* Calls, timers and shutdown.                                             *)

\* run(): the call joins the queue.
Run ==
    /\ asked < MaxJobs /\ asked' = asked + 1
    /\ pool' \in Drained([pool EXCEPT !.queue = Append(@, asked + 1)])
    /\ UNCHANGED <<mail, retiring, doomed, destroyed>>

\* warm(), called as a call is dispatched.
Warm ==
    /\ pool' \in Warmed(pool) /\ pool' # pool
    /\ UNCHANGED <<mail, asked, retiring, doomed, destroyed>>

\* The busy backstop answers a call that waited too long.
SoftTimeout(j) ==
    /\ j <= asked /\ ~Settled(pool, j)
    /\ pool' = Settle(pool, j)
    /\ UNCHANGED <<mail, asked, retiring, doomed, destroyed>>

\* Workers idle for long, the first of the stack first, are asked to exit;
\* a pool that empties is cold again.
RetireIdle ==
    \E k \in 1..Len(pool.idle) :
        /\ ~destroyed
        /\ k <= Cardinality(pool.workers) - (IF HasRoot THEN 1 ELSE 0)
        /\ LET ws   == {pool.idle[i] : i \in 1..k}
               left == pool.workers \ ws
           IN  /\ pool' = [pool EXCEPT
                     !.workers = left,
                     !.idle = SubSeq(@, k + 1, Len(@)),
                     !.everReady = @ /\ left # {},
                     !.thread = [w \in Worker |-> IF w \in ws /\ @[w] = "up"
                                                  THEN "closing" ELSE @[w]]]
               /\ retiring' = retiring \cup ws
        /\ UNCHANGED <<mail, asked, doomed, destroyed>>

\* A retired worker that does not exit in time is terminated.
RetireTimeout(w) ==
    /\ w \in retiring /\ retiring' = retiring \ {w}
    /\ pool' = [pool EXCEPT !.thread[w] = "gone"]
    /\ Sent(w, IF pool.thread[w] = "gone" THEN << >> ELSE <<"exit">>)
    /\ UNCHANGED <<asked, doomed, destroyed>>

\* destroy(): every call that is out is answered at once.
Destroy ==
    /\ ~destroyed /\ destroyed' = TRUE
    /\ LET out == {pool.inflight[w] : w \in Worker} \cup ToSet(pool.queue)
       IN  pool' = [pool EXCEPT
              !.workers = {}, !.pending = {}, !.idle = << >>, !.queue = << >>,
              !.inflight = [w \in Worker |-> NoCall],
              !.answers = [j \in Job |-> IF j \in out /\ @[j] = 0
                                         THEN 1 ELSE @[j]]]
    /\ doomed' = pool.workers
    /\ UNCHANGED <<mail, asked, retiring>>

\* terminateStarted(w), which waits for the start to settle.  Its cap on
\* that wait is left out: the shutdown must end without it.
TerminateStarted(w) ==
    /\ w \in doomed /\ w \notin pool.starts
    /\ doomed' = doomed \ {w}
    /\ pool' = [pool EXCEPT !.thread[w] = "gone"]
    /\ Sent(w, IF pool.thread[w] = "gone" THEN << >> ELSE <<"exit">>)
    /\ UNCHANGED <<asked, retiring, destroyed>>

-----------------------------------------------------------------------------

\* The constructor: one eager worker if there is a default project.
PoolInit ==
    /\ mail = [w \in Worker |-> << >>] /\ asked = 0
    /\ retiring = {} /\ doomed = {} /\ destroyed = FALSE
    /\ LET none == [idle |-> << >>, queue |-> << >>,
                    inflight |-> [w \in Worker |-> NoCall],
                    workers |-> {}, pending |-> {}, starts |-> {},
                    crashes |-> 0, everReady |-> FALSE,
                    answers |-> [j \in Job |-> 0],
                    retries |-> [j \in Job |-> 0],
                    thread |-> [w \in Worker |-> "gone"]]
       IN  pool \in IF HasRoot
                    THEN {Spawned(none, ws, 0) : ws \in Take(none, 1)}
                         \cup {Spawned(none, {}, 1)}
                    ELSE {none}

ThreadWorks(w) == ThreadStarts(w) \/ ThreadAnswers(w) \/ ThreadCloses(w)

OnMail(w) ==
    OnReady(w) \/ OnBad(w) \/ OnResult(w) \/ OnError(w) \/ OnExit(w)

PoolNext ==
    \/ \E w \in Worker : \/ ThreadWorks(w) \/ ThreadCrashes(w) \/ OnMail(w)
                         \/ RetireTimeout(w) \/ TerminateStarted(w)
    \/ \E j \in Job : SoftTimeout(j)
    \/ Run \/ Warm \/ RetireIdle \/ Destroy

\* A thread gets on with its work and the event loop delivers what it sent;
\* the backstop, the crashes, retirement and shutdown are free to happen.
PoolSpec ==
    /\ PoolInit /\ [][PoolNext]_poolVars
    /\ \A w \in Worker : /\ WF_poolVars(ThreadWorks(w)) /\ WF_poolVars(OnMail(w))
                         /\ WF_poolVars(TerminateStarted(w))

-----------------------------------------------------------------------------
(* Properties.                                                             *)

\* How many places hold call j: positions of the queue and workers.
Places(j) ==
    Cardinality({i \in DOMAIN pool.queue : pool.queue[i] = j})
      + Cardinality({w \in Worker : pool.inflight[w] = j})

\* A call that is not answered is held in exactly one place, through
\* crashes, retries and retirement, and none is held in two.
HeldOnce ==
    \A j \in 1..asked : /\ Places(j) <= 1
                        /\ ~Settled(pool, j) => Places(j) = 1

\* Every worker of the pool is in one place: starting, idle once, or with a
\* call; and a worker let go of is in none.
WorkerPlaces ==
    \A w \in Worker :
        LET places == Cardinality({i \in DOMAIN pool.idle : pool.idle[i] = w})
                        + (IF w \in pool.pending THEN 1 ELSE 0)
                        + (IF pool.inflight[w] # NoCall THEN 1 ELSE 0)
        IN  places = (IF w \in pool.workers THEN 1 ELSE 0)

\* An idle worker has started, has no call and is in the stack once.
IdleIsFree(p) ==
    \A i \in DOMAIN p.idle :
        /\ p.idle[i] \in p.workers \ p.pending /\ p.inflight[p.idle[i]] = NoCall
        /\ \A k \in DOMAIN p.idle : p.idle[k] = p.idle[i] => k = i

\* A worker with a call has started, is owned and alone with the call.
BusyIsOwned(p) ==
    \A w \in Worker : p.inflight[w] # NoCall =>
        /\ w \in p.workers \ p.pending
        /\ \A v \in Worker : p.inflight[v] = p.inflight[w] => v = w

\* No worker of the pool is out of its sight.
NoneIsLost(p) ==
    /\ p.pending \subseteq p.workers
    /\ \A w \in p.workers :
          w \in p.pending \/ p.inflight[w] # NoCall \/ Contains(p.idle, w)

\* A call waits once, and not while a worker has it.
QueueWaits(p) ==
    \A i \in DOMAIN p.queue :
        /\ \A k \in DOMAIN p.queue : p.queue[k] = p.queue[i] => k = i
        /\ \A w \in Worker : p.inflight[w] # p.queue[i]

Held(p, j) == Contains(p.queue, j) \/ \E w \in Worker : p.inflight[w] = j

\* Of the n calls made, those not answered are held, but for the ones in js;
\* no other call is held or answered, and none is answered twice.
CallsAreHeld(p, n, js) ==
    /\ \A j \in Job : /\ p.answers[j] # 2
                      /\ Held(p, j) \/ j \in js \/ Settled(p, j) => j <= n
                      /\ j <= n => Held(p, j) \/ j \in js \/ Settled(p, j)
    /\ \A j \in js : ~Held(p, j)

\* A thread that works, or has sent a result into m, works on a call.
ResultIsAwaited(p, m) ==
    \A w \in p.workers :
        /\ p.thread[w] = "busy" =>
              p.inflight[w] # NoCall /\ \A i \in DOMAIN m[w] : m[w][i] # "result"
        /\ \A i \in DOMAIN m[w] : m[w][i] = "result" =>
              /\ p.inflight[w] # NoCall
              /\ \A k \in DOMAIN m[w] : m[w][k] = "result" => k = i

\* No worker is idle while a call waits.
AllDispatched(p) == p.idle = << >> \/ p.queue = << >>

BooksAgree(p, m, n, js) ==
    /\ IdleIsFree(p) /\ BusyIsOwned(p) /\ NoneIsLost(p) /\ QueueWaits(p)
    /\ CallsAreHeld(p, n, js) /\ ResultIsAwaited(p, m)

\* The pool's books agree: the types, where calls are held and where workers
\* are, after any sequence of crashes, retries, retirements and answers.
PoolInv ==
    /\ PoolTypeOK /\ HeldOnce /\ WorkerPlaces
    /\ BooksAgree(pool, mail, asked, {}) /\ AllDispatched(pool)

\* Without the backstop, every call is answered while the pool is healthy:
\* no wake-up is lost.
EveryCallIsServed ==
    \A j \in Job : (asked >= j) ~> (Settled(pool, j) \/ ~Healthy(pool))

\* Shutdown ends every thread, also those that were starting or retiring.
ShutdownEnds == destroyed ~> (\A w \in Worker : pool.thread[w] = "gone")
=============================================================================
