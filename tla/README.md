# A TLA+ verification of CodeGraph's freshness pipeline

CodeGraph indexes a project's source into a SQLite graph, keeps the index fresh
while files change, and answers queries about it to coding agents, often from
several processes at once. Most of its code is pure (parsing, name resolution,
formatting). The part that is hard to get right is what runs *around* that code:
who may write the database, which edits still have to reach it, which threads
answer which call. That part is modelled here.

Paths are relative to the directory that holds `src/` and `tla/`; the
TypeScript sources are under `src/src/`.

## 1. Inventory

| Component | State it keeps | Operations | Interacts with |
|---|---|---|---|
| `FileLock` (`utils.ts` 441-640) | lock file with a PID, `<lock>.break` files, `held` | `acquire`, `release`, `withLock` | every writer: CLI, daemon, direct server, git hooks; other processes through the file system |
| `Mutex` (`utils.ts` 683-720) | `locked`, `waitQueue` | `acquire`, `withLock` | index, sync and synthesis of one `CodeGraph` instance |
| `FileWatcher`, sync pipeline (`sync/watcher.ts`) | pending files, `needsFullScan`, debounce and tree timers, retry counters, degraded latches | event handlers, `flush`, `degrade`, `rearmAfterLockContention`, `stop` | `fs.watch`, `CodeGraph.sync`, the file lock, the MCP engine (stale marks) |
| `FileWatcher`, watch set (`sync/watcher.ts`) | `dirWatchers`, `watchedRealDirs`, `knownDirs`, gone checks, cap and limit flags | `handleDirEvent`, `refreshWatchTree`, `watchDirectory`, `unwatchDir`, `armGoneCheck` | the tree on disk, inotify or the recursive stream |
| `QueryPool` (`mcp/query-pool.ts`, `query-worker.ts`) | queue, idle stack, workers, in-flight calls, starts, retirements, crash count | `run`, `drain`, `warm`, `retireIdle`, `onWorkerGone`, `destroy` | worker threads through messages; the MCP engine |
| `CodeGraph` (`codegraph.ts`) | database handle, `pendingFullReconcile`, synthesis timers | `indexAll`, `sync`, `close`, rebuild detection, put-off synthesis | mutex, file lock, WAL valve, watcher |
| Writer lock (`mcp/writer-lock.ts`) | `writer.pid`, `rebuild.pid`, pending releases and readiness | acquire, `markWriterReady`, release | daemon, direct servers, rebuild |
| `ParseWorkerPool` (`extraction/parse-pool.ts`) | queue, workers, parse counts, two timers per parse | `requestParse`, recycle, soft and hard timeout, `destroy` | parse threads, the index |
| Full index (`extraction/index.ts`, `indexAll`; `store-writer.ts`) | parse window, commit cursor, flush chain, counts, bundles posted to the writer thread | feed, ordered commit, retry passes, abort | parse pool, store writer, database |
| WAL valve (`db/wal-valve.ts`) | baseline, pause, in-flight pass, give-ups | `check`, `backpressure`, `foldNow`, `drain` | the writer, the checkpoint thread, readers |
| Project lifecycle (`mcp/project-lifecycle.ts`) | leases, gate, retirement, owner, daemon socket | lease, `ready`, `activate`, `retire` | writer lock, watcher, daemon |
| Daemon, proxy, sessions, registry (`mcp/`) | sockets, clients, idle timers | start, hand-over, exit | other processes |
| Extraction, resolution, db queries, graph, search, context, sessions, UI, installer, telemetry, Rust kernel | mostly none | transformations and I/O | - |

What is hard in the first eleven rows:

* *processes* meet in the file system, between any two file operations, and die
  there (FileLock, writer lock);
* *callbacks* of one event loop interleave at every `await`: an event or timer
  during a sync, a newcomer before a woken waiter, a message from a thread that
  has been let go of;
* *the environment changes* between the moment it is looked at and the moment
  that is acted upon (directories, links, the database file);
* *limits and budgets*: retries, spawn caps, stream caps, break depth, parse and
  writer windows;
* *debts*: work that was put off (a stale edge, a release that met contention, a
  retry, a retirement) must be remembered until it is done, over failures and
  restarts;
* *give-up paths* must be visible to the user, because a stale index that claims
  to be fresh misleads the agent (`sync/watcher.ts` 1120).

`PROJECT.json` lists each of these at its line under `hazards`, with the
properties that would catch it.

## 2. Modules

### FileLock, AbstractLock

`FileLock` models `tryAcquire` with every file operation and every probe of a PID as
a step of its own: create (link, or an empty file when the link fails), write the PID,
read and then judge what was read, the same again under the break lock, unlink, and
the two steps of `release`. `readHolder` is thus two steps: it reads the file, and
later asks whether the PID it has read is alive or, if the file was empty, how old the
file is that is there by then. Level 0 is the lock and level l + 1 the break lock of
level l, up to `MaxBreakDepth`. As only the innermost call of the recursion runs, one
label and one depth per process stand for the call stack. A file is free, empty
(created, PID not written), junk (empty past the grace of `EMPTY_LOCK_GRACE_MS`, as
its creator has died) or holds a PID. No code writes anything else into a lock, so
contents that name no process are left out.

Processes crash between any two steps and see links refused (`LinksFail`). File
operations that fail, and PIDs that a new process gets, are counted by `MaxFaults`.

`SlowProbe` says whether a breaker may be held up between its read and its probe for so
long that the owner it has read releases the lock and ends. With `TRUE` two processes
can come to hold the lock: `filelock_slow_probe` below. With `FALSE` no process ends
between a breaker's read of its PID and the probe unless it leaves its lock behind, and
an empty file that has got a PID since it was read is not yet past the grace; processes
still release, die, take and break locks between any two other steps.

`AbstractLock` is what callers are promised: one owner at a time, freed by its
owner or by its owner's death. `ImplementsLock` says that FileLock implements it,
with the owner mapped to the process whose level-0 `held` is set.

### IndexMutex

`acquire`'s loop, the continuation of a woken waiter (a step of its own, as the
promise resolves later) and `release`. `MaxCalls` bounds calls per task; the
theorems hold for any bound. TLC checks the mutex inside Synthesis, with the tasks
that really use it.

### AbstractCalls

What a pool of workers promises its callers: a call that is asked is answered, and
once; a call may be asked again after its answer. `turn[c]` changes with every call
made, so that a second answer is not mistaken for a new call that was answered at once.
`Spec` is the safety part, `FairSpec` adds that every open call is answered. ParsePool
implements both. QueryPool makes each of its calls once and has a theorem of its own;
the parses of IndexPipeline end one way per request, which ParsePool justifies.

### FileWatcher

The pipeline from event to index. Content is abstracted to `stale`, the files the
index lags behind on, so edits are not bounded. Time is abstracted to what the
code compares: `pending[f]` is `"old"` or `"new"` against `syncStartedMs`, and
`sameMs` says that the clock still shows it. `CoarseClock` chooses whether an
event may arrive in the millisecond in which the running sync began.

`flush` is split at its `await`: `Flush` starts the sync and chooses its scope,
`SyncReads` reads one file, and `SyncSucceeds`, `SyncLocked` and `SyncFails` are
the three ways it ends, each including the clean-up and the `finally` block. A sync
that resolves may have reported files it could not extract; the watcher does not look at
that list and drops their pending entries. `skipped` is those files, until they change
again: they are what `StaleIsOwed` and `EditsReachIndex` except. A
timer that fires during a sync is used up (`TimerFiresEarly`). `degrade`, `stop`,
`unwatch`, re-arming after lock contention and its cool-down are actions too.
An event for a whole directory (`treeEvent`) stands for everything that leads to
a full scan; the details are WatchTree's.

### WatchTree

Which directories are watched while the tree changes. Paths lie in the project root or
in one another (`Above`); `entry[d]` is what path `d` is: a plain directory, a link's
target, or nothing. Links lead to directories that hold no other path, or outside. A
stream belongs to the directory it was opened on and dies with it. `recursive` is chosen
at the start from `Platforms`: on Linux each directory has a stream, elsewhere one
recursive stream covers the project and links have their own.

`refreshWatchTree` has three parts: the walk (`TreeTimerFires`), one `OpenStream` per
stream that is missing, parents first, and its end (`RefreshEnds`). No handler of the
watcher runs meanwhile, but the tree goes on changing: a directory made in a new one
after that was listed (`watcher.ts` 521) and before its stream is open (540, 573) is
seen by neither. `unheard` remembers that a path came or went there, and the properties
except what it hides; section 4 has the case. The walk itself is one step. A stream may
fail to open (cap, inotify limit, other errors); `missed` remembers that. The sync is one
step that succeeds, as FileWatcher has the rest. Ignore rules are left out.

`SameName = FALSE` keeps the tree from making a directory again under its name
before the watcher has let go of the one that was deleted. With `TRUE` the
code's promise fails: see `tree_recreated` below.

`WatchInv` is what the handlers keep between them: the bounds on the streams
(`StreamsBounded`, `TreeShape`, `StreamsAreKnown`) and, for each way in which the
watcher can be out of step with the tree, the trace that is left of it
(`MoveIsReported`, `UnwatchedIsNews`, `EditIsAhead`, `ScanIsAhead`).

### QueryPool

The pool's fields are one record, `pool`, since every handler calls `drain` and
the helpers (`Drained`, `Lost`, `Retried`, ...) map a pool to the pool, or the
set of pools, that the code's helper leaves behind; creating a worker may throw.
Threads run beside the pool, and what they send arrives in order, later (`mail`).
A terminated or crashed thread's exit is still to be handled. A handle in
`Worker` is used again once its thread is gone and its mail is handled: their
number bounds how many let-go workers can linger. If no handle is free, only the
failing outcomes of a spawn remain, which the code must survive anyway.

The loop at the end of `drain` is not written as a recursion but by its result: `Picks`
is the sequence of queue positions the idle stack takes, increasing and without a gap
among the calls not answered yet, and `Served` hands them out from the top of the
stack. There is one such sequence for every pool. `PoolSpec`, `PoolInit` and `PoolNext`
have their prefix because `ServerProofs` extends this module beside ProjectLifecycle.

### RebuildSync

A server that syncs while another process rebuilds the index with the same class
(`codegraph.ts`: `sync`, `reopenIfReplaced`, `recreate`, `indexAll`). It composes
the parts above by their promises: the write lock is `AbstractLock`, the watcher is
the set of files it has recorded, the mutex is that one sync runs at a time.

Databases are numbered; `atPath` is the one at the path and `handle` the one the server
has open, so a handle on an unlinked file is `handle # atPath`. What an index contains
is two sets of files per database: `lag` (content differs from disk) and `missing`
(never stored). `fresh` is the result of comparing the file's mtime with
`RECREATE_GRACE_MS`: `Age` lets the time pass, and a store may renew it, as the write
may reach the file or stay in the WAL. `marker` is `index_state`: an `indexAll` that
ends leaves it indexing, complete, partial or failed, and only a full sync completes one
that was killed. The full reconcile owed for a replaced database is settled by a full
sync, unless that found no source file to look at (`SettlesReconcile`).

`sync` has four steps: take the lock (`WatchSync`, `CatchUpSync`), follow the path
(`Follow`, `FollowFails`), decide (`Run`, `StepAside`), and work (`SyncFile` until
`SyncSucceeds` or `SyncThrows`). `Heal` is a tool call that finds the database
replaced. A rebuild dies at any step, after the unlink too, when only `init` can
make a database again.

`codegraph index` also stops the daemon and takes the writer slot; the class does
not, so embedders and other commands can meet as modelled. Files that cannot be
read or parsed are left out, and `CompleteIsWhole` says nothing of them.

### ParsePool

The pool that parses files, in the style of QueryPool: helpers map a pool to the set
of pools the code's helper may leave behind, threads run beside it and their mail
comes later. It differs where the code does: a lost parse is rejected and not tried
again, a parse has a soft limit that only marks it as late and a hard one that ends
the worker, workers are recycled after a number of parses, and with no worker left
the queue is rejected. A parse may hang for ever (`ThreadParses` is not fair).
`wantedSize()`, which estimates from measured times how many workers pay off, is any
size. A job may be asked again after its answer, so the run covers any number of
parses. `recycleAll` replaces its workers in one step, of which some succeed and
some throw (`Respawned`): the outcomes are those of the code's loop, but for which
handle stands for which new worker.

### IndexPipeline

The parse and store phase of `indexAll`. The loop over the files (`Feed`, `Room`,
`Oversize`, `PassOver`), the flush chain (`FlushBegins` .. `FlushFails`) and the store
writer's thread interleave at each `await`. `window` is the dispatched files that
the commit cursor has not passed, in order: it stands for `nextSeq - nextToStore`,
`inFlight` and `completed`. `row[f]` is what the database has of a file (nothing, a
marker with its error, symbols) and `tally[f]` how it was counted. The writer may be
there or not; a store may fail on either side, and the writer's thread may die with
what was posted to it. After the drain come the two retry passes, where a throw
leaves by the shortest way, as in the code. A parse that succeeds has symbols;
missing grammars and languages without symbols are left out. `PipelineInv` is the
inductive invariant: what each stage relies on, the line of files from the database to
the loop, and counts that agree with parses, rows and bundles under way.

### Synthesis

Synthesized edges are derived from the whole graph, so one changed file can make
many of them stale. The module follows that debt through one `CodeGraph` instance:
`sync` stores files and marks them dirty, sweeps orphaned references (which ends in
a synthesis), and pays, or puts the debt off to one of two timers;
`refreshSynthesis` rebuilds and reconciles. It extends IndexMutex: the sync and the
callbacks of the two timers are its tasks. Another process may have the file lock,
database statements fail, and the instance is closed, killed and opened again. A sync
that throws after it took the file lock and before the `try` that gives it back
(`codegraph.ts` 1196-1261) leaves it behind: with an instance whose `close` still gives
it back, or, if that was closed already, for good (`LeftBehind`).
Edges are whole, stale or dropped; which files are dirty is abstracted to whether
any is. `lapses` is a history variable that names the ways in which the code is known
to lose track of the debt (section 4), so that `DebtIsKnown` says there is no other.

### WriterLock, ProjectLifecycle

WriterLock has the steps on `writer.pid`. The code compares and changes the record
under an operating-system lock, so each is one step; not getting that lock is a
`Fault` that reports the record as taken or leaves a timer behind. A removal of the file
that fails is swallowed by the release and leaves the record with a process that has no
use for it; `kept` remembers that, and a claim made before anything is opened. The record
says whether its mode is `daemon`, and `era` stands for its start time, which tells two
records of a process apart.

ProjectLifecycle extends it with the processes: an entry per process with its leases,
the activation behind its gate (`gate` says at which `await` it is), ownership, a
session with a daemon, and the retirement that `finish` puts off while there is
work. A daemon claims the slot before anything else (`Claims`), and so may the engine of
a server that stands in for a daemon, in its constructor (`engine.ts` 145-153); it keeps
the claim if the graph cannot be opened. A process that acquires the slot again later
writes another mode, and is followed or not by what its record says. Processes stop of
their own accord (`Stops`), or die at any time and leave their record; a PID is not used
twice (FileLock covers that). What a sync does is left to RebuildSync, here it ends or
fails.

## 3. Runs

| Run | Bounds | Shows |
|---|---|---|
| `filelock` | 3 processes, depth 2, crashes, links that fail, 1 fault; no slow probe | exclusion, refinement of `AbstractLock`, the inductive invariant, a stale lock is replaced |
| `filelock_slow_probe` | 4 processes, depth 1, no faults, a slow probe | *violation*, finding 1 |
| `watcher` | 2 files, scoped limit 1, lock budget 1, failure budget 0 | no edit is lost, budgets, warnings (the inductive invariant), and the index catches up |
| `watcher_same_ms` | the same files, no retries, coarse clock | *violation*, finding 2 |
| `tree` | 3 paths, one inside another, 1 outside directory, cap 2, 3 changes after any indexed tree, both platforms | watched, current at rest, and catches up |
| `tree_recreated` | 1 path, 3 changes, Linux | *violation*, finding 3 |
| `pool` | 3 handles, size 2, 2 calls, crash budget 3, 1 retry | calls and workers in one place each; every call is served without the backstop; shutdown ends |
| `rebuild` | 2 files, 2 databases, 1 failing sync | a rebuild is let through and does not park the watcher; no edit is lost to it; a complete index is whole; the lock is given back |
| `parse_pool` | 2 workers, 2 jobs, spawn cap 1, crash budget 2, recycling after every parse | each parse answered, and once (refinement with liveness); whatever happens to a thread something ends its parse; `destroy` leaves no thread |
| `pipeline` | 4 files, windows of 2, with and without the store writer | commit in file order; bounded window; counts agree with the database; the index ends |
| `synthesis` | 3 tasks, 2 syncs that change wiring, 2 faults | stale edges are known, and paid once saves pause; the file lock is given back, but by a sync that throws before its `try`, and never written without; the mutex invariant with its real users |
| `lifecycle` | 2 servers, 1 daemon, 3 leases, 2 in a process at a time, 2 faults | the writer has the slot; the slot is not leaked; no graph is closed under work; a used project is served; retirements end |

Why the bounds are enough. FileLock: a takeover race has a winner, a loser and a dead
owner, which are three processes; depth 2 lets a process die with a break lock that
others then break in its turn, and with the deepest one, which the code leaves; links
may fail, so a file may stay empty; the proofs remove the bounds on processes, depth and
faults. The slow probe needs a fourth process, the owner that dies first. FileWatcher:
with two files and a scoped limit of one, scoped and full syncs, a file inside and one
outside the scope all occur; budgets of 0 and 1 put the last retry and the first degrade
next to each other, and the proofs cover every budget. WatchTree: two paths beside each
other are needed for one directory reached twice, a third inside the first for a
directory that appears in one that is still to be watched, one outside directory for a
link out; cap 2 is met by the third directory and by none of the smaller trees; the
initial tree is arbitrary, so three changes come on top of any tree; the proofs cover
any finite set of nested paths, every cap and number of changes. QueryPool: two workers
and two calls give a queue, an idle worker, a retry beside another call and a retirement
beside a crash; the crash budget of 3 is reached; the proofs cover every number of
handles and calls, every size and budget. ParsePool: two workers of which one may start
at a time give growth, a worker that loads while the other parses, and one replaced
while a parse waits; a crash budget of 2 is the least with a crash that is survived and
one that is not; recycling after every parse makes each result meet it; the proofs cover
every size, budget and interval. IndexPipeline: four files and windows of two let the
loop fill the window twice and a later parse overtake the one at the cursor. Synthesis:
two changes are a debt and one that comes while it is paid; two faults are a failure and
a failure of its clean-up, or a failure and a kill. ProjectLifecycle: an owner, one that
takes over and a daemon are the roles there are; three leases are a first one, one that
shares or revives its entry and one elsewhere; two faults are a contended or failing
release and a death. RebuildSync: with two files a scoped sync and a half-done one
exist; the second database is the replaced one, the first may have been left by a killed
index; one failure is enough for a retry.

Symmetry is used only in `filelock_slow_probe`, over interchangeable processes. Deadlock
is not checked where the model may come to rest: no more calls, leases or changes, an
index that has ended, or a watcher that was dropped.

### Fairness

* FileLock: a live process that has begun goes on, and keeps asking (the run has
  callers that retry, as the watcher does); the grace of an empty file passes. Crashes,
  faults and restarts are never forced.
* FileWatcher: events are delivered, timers fire, the clock moves, a sync ends
  somehow. It need not succeed; giving up is then visible as `degraded`.
* WatchTree: the watcher and the sync go on as long as there is anything for them to do;
  which event or timer comes first is open. Streams need not fail.
* QueryPool: a thread gets on with its work and its messages are handled. The
  backstop (`SoftTimeout`) is *not* fair, so `EveryCallIsServed` shows that it is
  not what saves a call; the cap on waiting for a start is left out so that
  `ShutdownEnds` shows the same of it.
* RebuildSync: the watcher keeps trying (strongly fair, since the lock comes and
  goes while its retries do not stop), a sync or rebuild that has begun goes on or is
  killed, time passes. Catch-ups and tool calls are not fair.
* ParsePool: grammars load or the thread dies, messages and timers are delivered,
  `terminate` ends a thread. Parses need not end and crashes are not forced. The cap
  on waiting for a load is left out, so that `DestroyEnds` holds without it.
* IndexPipeline: promise callbacks run, the writer works off its bundles, and the pool
  answers (which `parse_pool` shows). Aborting is not fair.
* Synthesis: the task that holds the mutex goes on, the other process gives the file
  lock back, and the timers fire; but each sync that defers clears and sets the debounced
  timer again (`codegraph.ts` 2442-2447), so that one is fair only while no sync pushes it
  back. Syncs are not fair. What users do is a condition of `DebtIsPaid` instead: if saves
  pause now and then (`SavesPause`) stale edges are refreshed or dropped, and if syncs also
  come in (`SyncsComeIn`), dropped ones are made again; the second is needed because the
  debounced timer does not try a failed refresh again by itself. A woken waiter is
  strongly fair in taking the mutex: its continuation runs in the turn of the loop in
  which it was woken, so newcomers cannot overtake it for ever.
* ProjectLifecycle: activations, intervals and timers go on. `FinishTimer` is strongly
  fair: the 25 ms check meets a pause between two syncs of the watcher, which are
  debounced. Leases, deaths and the end of a daemon are not fair. `LeaseIsServed` has
  the condition that no process keeps the slot back for ever: with a claim it makes no
  use of, or since it could not remove the file (`KeptBack`).

`StaleIsReplaced` has three exceptions. A process that died with the deepest break lock
leaves it for good, as the code breaks no lock at that depth. A break lock whose release
failed, or whose dead owner's PID was given to a new process, names a live process and is
not broken either (`Leaked`). And somebody has to be alive.

## 4. Findings

1. **A breaker may remove a live lock** (`utils.ts` 516-521). `readHolder` reads the PID
   (568) and then probes it (585). If its owner, alive at the read, releases the lock and
   exits before the probe while another process takes the lock, the breaker takes that
   lock for stale, unlinks it and creates its own: both hold it. The comment at 518
   ("so this unlinks the stale lock") says otherwise. `filelock_slow_probe` shows it; the
   other results on the lock are for breakers that are not held up there.
2. **An event in the millisecond in which a sync began is forgotten**
   (`watcher.ts` 1124). The clean-up keeps entries that are *later* than
   `syncStartedMs`; an event that arrives after the sync chose its files but in
   the same millisecond is dropped with the rest. If its debounce timer fires
   during the sync, nothing is left. `watcher_same_ms` shows it.
3. **A directory that is deleted and made again keeps its dead stream** (Linux,
   `watcher.ts` 537 and 630). It resolves to the same path, so neither the event
   handler nor the refresh replaces the stream, and later edits below it are not
   reported. `tree_recreated` shows it.

What the models also show of the code, without a run of its own (the models allow
for them, and their properties say where):

* Watcher. A directory that is made inside a new one between the listing of that one
  (`watcher.ts` 521) and the opening of its stream (540, 573) is unwatched, and nothing
  tells of it until something else leads to a refresh (`unheard`). A sync that resolves
  with files it could not extract clears their pending entries: they are tried again
  when they change or are scanned, and are not marked as stale meanwhile (`skipped`).
* Query pool: the replacement of a crashed worker is started past the spawn cap
  (`query-pool.ts` 471; 80 and 277 call it the most that may start at once).
* Full index: the pool is destroyed when a commit has failed (`index.ts` 2994), but not
  when the writer's drain rejects (3001-3008), when the store of an oversize file
  throws (2964) or that of a retry (3092): its threads outlive the failed index.
* Synthesis. A sync that defers leaves its debt in memory only: `close` or a kill before
  the timer loses it. `resynthesize` clears the mark before the edges are reconciled: a
  failure there loses the mark (the comment at `codegraph.ts` 2397 says the flag stays
  set), a kill the debt. The debounced timer looks at dirty files and not at the mark,
  and is not armed again after a failed refresh. A sync that throws after it has
  stored files leaves them dirty, and a sync without changes does not look at them.
  These are the `lapses` of the model and the conditions of `DebtIsPaid`. Saves that
  come more often than the debounce put the refresh off without end. "Readers see
  fewer synthesized edges, never wrong ones" (2296) does not hold between a sync and the
  refresh it puts off.
* A sync takes the file lock at `codegraph.ts` 1196, and the `finally` that gives it back
  belongs to the `try` at 1261. If something throws in between (the instance was closed
  while the sync waited for the mutex, or a pragma fails), the lock stays held: until
  `close`, or, if that is over, until the process ends, and a new instance in the same
  process is refused it as well.
* `resynthesize` ignores the promise of the WAL valve's pause (`resolution/index.ts`
  558), so a refresh from a timer is not held back, and a pause that rejects has no
  handler.
* Lifecycle: a record that its own process uses again keeps `ready: true` from before,
  although "false until the MCP owner has finished its initial catch-up"
  (`writer-lock.ts` 55). A session that comes about after `retire` looked for one
  (released and leased again while connecting, and released once more) is not
  destroyed. A daemon that meets contention on its own slot connects to itself until the
  time-out. An engine that claimed the slot in its constructor keeps it when the graph
  cannot be opened (`engine.ts` 452-457). The error of an unlink that fails in a release is
  swallowed, no timer is left, and the live process keeps the slot (`writer-lock.ts`
  382-384). A daemon that acquires the slot again through `activate` writes
  `mode: 'fallback'`, so that others do not connect to it.

## 5. Proofs

Eight modules hold theorems; TLAPS checks every leaf.

* `FileLockProofs`, for any set of processes, any break depth, any number of faults:
  `TypeCorrect`, and, assuming `~SlowProbe`, `LockInvariant`, `Exclusion` and
  `Implementation`; finding 1 refutes them without the assumption. Exclusion is not
  inductive: what keeps a second process out is the *file*. `FilesAgree` adds that a
  holder's PID is in its file (`HolderOnDisk`), that one process at most is about to
  write into an empty file (`OneWriter`), that a process from the recheck to the unlink
  holds the break lock (`BreakerHolds`), that what it is about to unlink is stale
  (`BreaksOnlyStale`), that a releaser removes only its own file (`ReleasesOwn`) and
  that the dead hold nothing (`DeadIsDone`). `BreaksOnlyStale` rests on what lies
  between the read and the probe: `ProbeIsCurrent` says that if what a breaker has read
  would now be judged stale, it is still what the file holds. There the assumption is
  needed, and for an empty file whose PID is written before its age is looked at: an
  owner that was alive at the read and dies before the probe dies with its lock in
  place, and nobody else removes it, as the breaker has the break lock
  (`DeadFileStays`). Lemmas treat the ways a call ends (`ReturnEffect`, `FinishEffect`,
  `RefusedInv`, `TakenInv`), then one step per action (`FilesStep`, `ProbeStep`).
  `Implementation` follows, as each step changes at most one process's `held`
  (`OneMover`).
* `FileWatcherProofs`, for any files and budgets: `TypeCorrect`, and, assuming
  `~CoarseClock`, `WatcherInvariant`, `NoEditIsLost` and `OwedIsScheduled`. The
  assumption is needed: finding 1 refutes them without it. `StaleIsOwed` alone is
  not inductive, since a sync that ends could wipe out a file that changed after it
  was read. `ChangeLeavesTrace` says that such a change left a mark that outlives
  the sync, `ScopeIsCovered` that a failing sync's files are still pending or the
  scan was full. Files a sync has reported as failed are excepted until they change.
* `WatchTreeProofs`, for any finite set of paths nested to any depth, any directories
  outside, any cap and number of changes, on all platforms: `WatchInvariant`, and,
  assuming `~SameName`, `NoDirectoryIsForgotten` and `RestIsCurrent`; finding 3 shows
  what happens without the assumption. The tree changes between the walk and each
  opening, and the promises except what was `unheard` there; the walk itself is one
  snapshot, and a link does not lead to a directory that holds other paths. Neither
  promise is inductive, as an event may be spent on a path for which it asks nothing.
  `UnwatchedIsNews` therefore says *whose* event is still to come: that of the path,
  which leads elsewhere than `knownDirs` says, or that of the directory itself, which is
  new; `DeadIsGone` makes the streams a refresh keeps live ones. `EditIsAhead` says
  under which path an edit is on its way, and that its event is not lost when that path
  moves: the move was reported (`MoveIsReported`), which leads to a refresh and a full
  scan. `ScanIsAhead` says which event asks for the scan if the walk changed; for a
  directory outside that is deleted it rests on `UnwatchedIsNews`, since only a live
  stream tells of it. Lemmas say what the walk returns (`WalkFacts`), what each change
  does to the paths (`PathsMove`) and what a walk still covers at each opening
  (`WalkCovers`).
* `RebuildSyncProofs`, for any files, databases and failures: `RebuildInvariant`,
  `CompleteIndexIsWhole`, `NoLagIsForgotten`, `RebuildGoesFirst`. `CompleteIsWhole`
  needs to know what a sync has still to do: `SyncKeepsTrack` says that a file of its
  scope that is not stored as it is on disk is still to come or was edited since.
  `LagIsOwed` counts what the running sync will do; if that throws, the debt has to be
  on record without it, which is `OwedWithoutSync`. `RebuildKeepsTrack` says the same of
  the rebuild, and that a server that followed it to an empty database owes that one a
  full reconcile: without it a sync could mark the database complete before `indexAll`.
* `IndexPipelineProofs`, for any number of files and both windows: `PipelineInvariant`,
  `CommitsInFileOrder`, `WindowIsBounded`, `NoFileIsMiscounted`. Order is a
  property of the whole line: `FilesAreInLine` says that what the database has comes
  before what the writer was sent, that before the file of the chain, then the window,
  then what the loop has not reached. Lemmas (`LineMoves`, `LinePosts`, `LineApplies`, ...)
  state what appending to and taking from each sequence does to the line. The counts are
  right at the end because they agree all the way (`CountsAgree`): a file the loop passed
  is counted, at the chain, in the window or given up; a bundle under way is what its
  parse calls for, and that parse does not change any more; a file counted as indexed is
  stored, sent, or the writer has failed. `WriterDrained` turns this into `AllAccounted`,
  which the retries keep.
* `ParsePoolProofs`, for any finite set of workers, any jobs, sizes, budgets and recycle
  interval: `ParseInvariant`, `NobodyWaitsForNone`, and `AnsweredOnce`, the safety part
  of the refinement of `AbstractCalls`: no answer changes but by the next call. That an
  open parse is in one place (`OpenIsWatched`) is not inductive: an idle worker that
  were also loading, at work or in the stack twice would be given a second parse.
  `BooksAgree` rules this out (`IdleIsFree`, `BusyIsWatched`, `QueueWaits`), relates
  answers to places (`OpenIsHeld`), and says that a worker's first message tells of its
  load (`StartIsFirst`), or a late one would make a busy worker idle. Inside a handler
  the books may be open for one parse, the one about to be settled; they are therefore a
  predicate of a pool and of the parses left out. One lemma per helper of the model
  (`SpawnedKeeps`, `RemovedKeeps`, `DispatchedKeeps`, `DrainedKeeps`, `LetGoKeeps`,
  ...), then one per handler, says that it keeps them and only answers open parses.
* `SynthesisProofs`. First the mutex by itself, for any tasks and number of calls:
  `MutexInvariant`, `OneHolderAtATime`, `NoLostWakeUp`; the flag, the queue and the
  callers' states only keep each other, and the three tasks of Synthesis are not used.
  Then, for any number of changes and faults: `SynthInvariant`, `MutexUnderTasks`,
  `DebtIsNotForgotten`, and the action property `EdgesWrittenUnderLock`. A task may
  write because it has the file lock at every stage of its work on an open database
  (`StagesAgree`); that it keeps the lock to itself rests on the mutex, whose invariant
  is proved again for the steps tasks really take. The file lock does not outlive the
  task that took it (`LockIsReturned`), with the one exception of a sync that throws
  before its `try`. Debt stays known because a refresh that has not succeeded has left
  its mark.
* `ServerProofs`, on the two state machines of the MCP server. QueryPool, for any finite
  set of worker handles, any calls, sizes, spawn caps and budgets: `PoolInvariant` and
  `CallsAnsweredOnce`, an action property: a step changes no answer but that of a call
  without one. That a call is held in one place (`HeldOnce`) is not inductive, since a
  worker that were idle twice, or idle and busy, would get a second call, and one whose
  result is not the answer to the call it has would settle that call and leave its own.
  `BooksAgree` excludes both: `IdleIsFree`, `BusyIsOwned`, `NoneIsLost` and `QueueWaits`
  say where workers and calls are, `CallsAreHeld` relates places, answers and the calls
  made, and `ResultIsAwaited` says that a thread of the pool sends one result per call,
  and only while it has the call. Answered calls may stay in the queue or with a worker
  (the backstop answers and leaves them there), so places follow from openness and not
  the other way round. As in ParsePool the books are a predicate of a pool, and of the
  calls left out while a handler has a lost worker's call in its hands; they also take
  the mail, as a handler runs between taking a message and the next one. Lemmas: one per
  helper (`SpawnedKeeps`, `LostKeeps`, `RetriedKeeps`, `ServedKeeps`, `DrainedKeeps`,
  `OnWorkerGoneKeeps`, ...), among them that a replacement finds room below `maxSize`,
  then one per handler. ProjectLifecycle with WriterLock, for any processes, daemons,
  leases and faults: `LifecycleInvariant`, `WritersHaveTheSlot`, `OneWriter`,
  `TheSlotIsNotLeaked`. `WriterHasSlot` fails as soon as a late release or stamp of an
  earlier retirement hits the record of a new ownership. `TimersAgree` excludes that: an
  owner has no release due, the dead have neither timers nor an entry, a process that
  was not started has no record, and one that keeps the slot without a use has it and is
  no owner. `SlotIsNotLeaked` says that a live process with the slot is its owner, has a
  release due, or is one of those (`kept`). The entry's own facts (`EntryIsSound`) tell
  that a catch-up is the owner's.

TLC checks every one of these inductive invariants, as an invariant of the component's
run, and `MutexInv` in `SynthSpec`, where the tasks are real; `MutexInvariant` is
about `IndexMutex!Spec`, where any task may call at any time.

Assumptions on constants are the named `ASSUME`s of each module, which TLC evaluates in
the runs. They say that counts are naturals, that bounds the code uses as sizes are not
zero, that the value for "none" is no process, record or directory, and that the
project has finitely many directories, a pool finitely many worker handles.

Only model-checked: all liveness (fairness and `ENABLED` are out of the prover's
reach): `EveryCallIsServed`, `ShutdownEnds`, the liveness half of `AbstractCalls`, and
that debts are paid, edits reach the index and lock requests are granted. No invariant
of a run is without a theorem.

## 6. Not modelled, and why

* Scanning, per-language extraction, resolution, search, formatting, telemetry, the
  installer, the UI and the Rust kernel transform data or do I/O and have no state
  that steps can reach in a surprising order.
* The C sources of the repository are tree-sitter parsers: some 2.3 million lines of
  generated tables under `codegraph-kernel/grammars`. They hold no logic of this
  program, so no definition maps to them; everything modelled is in the TypeScript
  sources.
* The WAL valve compares sizes of files with caps and repeats checkpoint passes whose
  results only SQLite determines. What its users meet, a pause or a rejection, is a
  failing step of theirs.
* The resolver pool has the shape of the two pools that are modelled, and its chunks
  are read-only.
* The daemon's sockets and hand-over, including `swapWriterLock` and
  `reserveWriterLock`, the registry's claims on it, `rebuild.pid`, and the watchdogs:
  they depend on real time, on versions of installed programs and on the operating
  system. A child that waits for a hand-over (`index.ts` 617-635) starts, in the model,
  when it has the slot.
* In modelled components: logging, wording and statistics, ignore rules, `awaitReady`
  (changes nothing), a `postMessage` that throws, `indexFiles`, policies that switch
  the watcher off.

`PROJECT.json` has a reason for each component.

## 7. Plan

Done, in the order of importance: who may write (FileLock, IndexMutex, WriterLock),
which edits reach the index (FileWatcher, WatchTree, RebuildSync), what a full index
does (ParsePool, IndexPipeline), what happens to debts (Synthesis, ProjectLifecycle) and
which calls get answers (QueryPool).

Proved for any value of the constants, as far as safety goes: FileLock, FileWatcher,
WatchTree, IndexMutex, RebuildSync, ParsePool, IndexPipeline, Synthesis, ProjectLifecycle
with WriterLock, and QueryPool.

What could be added: the resolver pool as a third implementation of `AbstractCalls`, and
the daemon's hand-over of the writer lock.
