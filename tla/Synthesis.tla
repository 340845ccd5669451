------------------------------ MODULE Synthesis ------------------------------
(***************************************************************************)
(* The synthesized edges of one CodeGraph instance (src/src/codegraph.ts,  *)
(* sync, refreshSynthesis and its two timers), on the index mutex of       *)
(* IndexMutex and beside another process that may have the file lock.  A   *)
(* sync that changes wiring makes the stored edges stale; the debt is kept *)
(* in memory (synthesisDirty) or in the database (synthesis_pending), and  *)
(* paid inside the sync, by a debounced timer or by a put-off one.  Which  *)
(* files are dirty is left out: only whether any is.                       *)
(***************************************************************************)
EXTENDS IndexMutex

CONSTANTS
    MaxEdits,   \* bound: syncs that find a change
    MaxFaults   \* bound: failures, lock contention, closing and being killed

\* The tasks that use the mutex: a sync, the debounced and the put-off refresh.
ASSUME SynthesisAssumption ==
    /\ Task = {"sync", "refresh", "deferred"}
    /\ {MaxEdits, MaxFaults} \subseteq Nat

VARIABLES
    edges,      \* synthesized edges: as a fresh index has them, or not
    dirty,      \* synthesisDirty is not empty
    pending,    \* synthesis_pending, in the database
    armed,      \* which of the two timers is set
    open,       \* the instance has its database open
    fileLock,   \* who has the file lock, see SynthTypeOK
    at,         \* where the task that holds the mutex is
    mode,       \* options of the running sync
    changed,    \* that sync changed or removed files
    saved,      \* the files of the running refresh are not empty
    edits, faults,
    lapses      \* history: what made the instance lose track of the debt

db     == <<edges, pending>>
memory == <<dirty, saved, changed, mode>>
bounds == <<edits, faults>>
mutex  == <<locked, waitQueue, pc, left>>
svars  == <<mutex, db, memory, armed, open, fileLock, at, bounds, lapses>>

Timer == {"refresh", "deferred"}
Stage == {"begin", "store", "sweep", "sweeping", "sweepReconcile", "decide",
          "refresh", "synthesize", "reconcile", "failed", "thrown", "end", "out"}

\* The file lock of a sync that threw between taking it and the try whose
\* finally gives it back: "left" with an instance whose close() still will,
\* "lost" with one that was closed before.  The process lives, so everybody,
\* a new instance in the same process too, is refused the lock meanwhile.
LeftBehind == {"left", "lost"}

\* The types; a task has the mutex exactly while it is at some stage, and a
\* closed instance is never left with the timer of a put-off refresh or with
\* a lock that its close() had to give back.
SynthTypeOK ==
    /\ edges \in {"whole", "stale", "dropped"}
    /\ dirty \in BOOLEAN /\ pending \in BOOLEAN /\ saved \in BOOLEAN
    /\ armed \subseteq Timer /\ open \in BOOLEAN /\ changed \in BOOLEAN
    /\ fileLock \in {"free", "ours", "other"} \cup LeftBehind /\ at \in Stage
    /\ mode \in {"inline", "defer", "complete"}
    /\ edits \in 0..MaxEdits /\ faults \in 0..MaxFaults
    /\ lapses \subseteq {"restart", "reconcile", "delete", "sync"}
    /\ locked <=> at # "out"
    /\ ~open => "deferred" \notin armed /\ fileLock # "left"

Debt == edges # "whole"

\* A failure, or something else that the environment does to the instance.
Fault == faults < MaxFaults /\ faults' = faults + 1

Runs(t, stage) == pc[t] = "holding" /\ at = stage /\ UNCHANGED mutex

\* A step of the task on its database, at a stage of its own.
Works(t, stage) ==
    /\ Runs(t, stage) /\ open
    /\ UNCHANGED <<open, fileLock>>

\* The mutex is asked for; who gets it begins.
Enters == at' = IF locked' /\ ~locked THEN "begin" ELSE at

-----------------------------------------------------------------------------
(* sync().                                                                 *)

SyncCalled(m) ==
    /\ open /\ pc["sync"] = "idle" /\ Try("sync") /\ Enters
    /\ mode' = m
    /\ UNCHANGED <<left, db, dirty, saved, changed, armed, open, fileLock,
                   bounds, lapses>>

\* The file lock, or LockUnavailableError.  Before the try that gives it back
\* lie pragmas: they throw on a closed database, and may on an open one.  A
\* closed one may be met later, when the WAL is not deferred.
SyncBegins ==
    /\ Runs("sync", "begin")
    /\ \/ /\ fileLock # "free" /\ at' = "end"
          /\ UNCHANGED <<fileLock, faults>>
       \/ /\ fileLock = "free" /\ at' = "store" /\ fileLock' = "ours"
          /\ UNCHANGED faults
       \/ /\ fileLock = "free" /\ at' = "end"
          /\ IF open THEN fileLock' = "left" /\ Fault
                     ELSE fileLock' = "lost" /\ UNCHANGED faults
    /\ UNCHANGED <<db, memory, armed, open, edits, lapses>>

\* A sync that forgets what workspace packages and module configs wire.
SyncStoresFilesOnly ==
    /\ Works("sync", "store") /\ at' = "sweep"
    /\ \/ /\ changed' \in BOOLEAN /\ UNCHANGED <<edges, dirty, edits>>
       \/ /\ edits < MaxEdits /\ edits' = edits + 1 /\ edges' = "stale"
          /\ changed' \in BOOLEAN /\ dirty' = (dirty \/ changed')
    /\ UNCHANGED <<pending, saved, mode, armed, faults, lapses>>

\* Files are stored.  One that carries wiring is dirty, a changed route also
\* pending; roots, module configs and workspace packages are pending only.
SyncStores ==
    /\ Works("sync", "store") /\ at' = "sweep"
    /\ \/ /\ changed' \in BOOLEAN /\ UNCHANGED <<edges, dirty, pending, edits>>
       \/ /\ edits < MaxEdits /\ edits' = edits + 1 /\ edges' = "stale"
          /\ \/ changed' = TRUE /\ dirty' = TRUE /\ pending' \in {pending, TRUE}
             \/ changed' \in BOOLEAN /\ pending' = TRUE /\ UNCHANGED dirty
    /\ UNCHANGED <<saved, mode, armed, faults, lapses>>

\* The sync throws before it came to the synthesized edges.
SyncThrows ==
    /\ Works("sync", "sweep") \/ Works("sync", "decide")
    /\ Fault /\ at' = "end"
    /\ lapses' = IF Debt THEN lapses \cup {"sync"} ELSE lapses
    /\ UNCHANGED <<db, memory, armed, edits>>

\* References that nobody has resolved are swept, which ends in a synthesis.
SyncSweeps ==
    /\ Works("sync", "sweep")
    /\ \/ at' = "decide" /\ UNCHANGED pending
       \/ at' = "sweeping" /\ pending' = (pending \/ dirty)
    /\ UNCHANGED <<edges, memory, armed, bounds, lapses>>

\* Its synthesis may fail, which is not the sweep's failure.
SweepSynthesizes ==
    /\ Works("sync", "sweeping")
    /\ \/ /\ at' = "sweepReconcile" /\ pending' = FALSE /\ UNCHANGED <<edges, faults>>
       \/ /\ Fault /\ at' = "decide" /\ UNCHANGED pending
          /\ edges' = IF dirty THEN "dropped" ELSE edges
    /\ UNCHANGED <<memory, armed, edits, lapses>>

SweepReconciles ==
    /\ Works("sync", "sweepReconcile")
    /\ \/ /\ edges' = "whole" /\ dirty' = FALSE /\ lapses' = {} /\ at' = "decide"
          /\ UNCHANGED faults
       \/ /\ Fault /\ at' = "end" /\ lapses' = lapses \cup {"reconcile"}
          /\ UNCHANGED <<edges, dirty>>
    /\ UNCHANGED <<pending, saved, changed, mode, armed, edits>>

\* What a sync has to pay for, and a sync that puts it off to the debounced
\* refresh, whose timer starts anew.
Due == (changed /\ dirty) \/ pending \/ (mode = "complete" /\ dirty)

PushesBack == pc["sync"] = "holding" /\ at = "decide" /\ mode = "defer" /\ Due

\* The debt is paid now, after the minimum interval, or once edits pause.
SyncDecides ==
    /\ Works("sync", "decide")
    /\ \/ ~Due /\ at' = "end" /\ UNCHANGED <<armed, pending>>
       \/ /\ PushesBack /\ at' = "end"
          /\ armed' = armed \cup {"refresh"} /\ UNCHANGED pending
       \/ /\ Due /\ mode # "defer" /\ at' = "end"
          /\ armed' = armed \cup {"deferred"} /\ pending' = TRUE
       \/ Due /\ mode # "defer" /\ at' = "refresh" /\ UNCHANGED <<armed, pending>>
    /\ UNCHANGED <<edges, memory, bounds, lapses>>

-----------------------------------------------------------------------------
(* refreshSynthesis(), by whichever task holds the mutex.                  *)

RefreshBegins(t) ==
    /\ Works(t, "refresh")
    /\ IF ~dirty /\ ~pending
       THEN at' = "end" /\ UNCHANGED <<dirty, saved, pending>>
       ELSE /\ at' = "synthesize" /\ saved' = dirty /\ dirty' = FALSE
            /\ pending' = TRUE
    /\ UNCHANGED <<edges, changed, mode, armed, bounds, lapses>>

\* resynthesize() adds the new edges and clears the mark.
RefreshSynthesizes(t) ==
    /\ Works(t, "synthesize")
    /\ \/ at' = "reconcile" /\ pending' = FALSE /\ UNCHANGED faults
       \/ Fault /\ at' = "failed" /\ UNCHANGED pending
    /\ UNCHANGED <<edges, memory, armed, edits, lapses>>

\* The edges that were not emitted again are pruned.
RefreshReconciles(t) ==
    /\ Works(t, "reconcile")
    /\ \/ /\ edges' = "whole" /\ saved' = FALSE /\ lapses' = {} /\ at' = "end"
          /\ UNCHANGED faults
       \/ /\ Fault /\ at' = "failed" /\ lapses' = lapses \cup {"reconcile"}
          /\ UNCHANGED <<edges, saved>>
    /\ UNCHANGED <<pending, dirty, changed, mode, armed, edits>>

\* The catch block: the edges are dropped and the files dirty again, unless
\* dropping them throws too.
RefreshFails(t) ==
    /\ Works(t, "failed") /\ saved' = FALSE
    /\ \/ /\ edges' = "dropped" /\ dirty' = (dirty \/ saved) /\ at' = "end"
          /\ UNCHANGED <<faults, lapses>>
       \/ /\ Fault /\ at' = "thrown" /\ lapses' = lapses \cup {"delete"}
          /\ UNCHANGED <<edges, dirty>>
    /\ UNCHANGED <<pending, changed, mode, armed, edits>>

-----------------------------------------------------------------------------
(* The timers.                                                             *)

\* A timer fires and its callback asks for the mutex.  One that is set again
\* meanwhile fires when that callback is done.
TimerFires(t) ==
    /\ t \in armed /\ armed' = armed \ {t}
    /\ pc[t] = "idle" /\ Try(t) /\ Enters
    /\ UNCHANGED <<left, db, memory, open, fileLock, bounds, lapses>>

\* The debounced refresh that gives up when the file lock is taken.
DebouncedBeginsOnce ==
    /\ Runs("refresh", "begin")
    /\ IF ~dirty \/ fileLock # "free" THEN at' = "end" /\ UNCHANGED fileLock
       ELSE at' = "refresh" /\ fileLock' = "ours"
    /\ UNCHANGED <<db, memory, armed, open, bounds, lapses>>

\* The debounced refresh knows dirty files only; contention arms it again.
DebouncedBegins ==
    /\ Runs("refresh", "begin")
    /\ \/ ~dirty /\ at' = "end" /\ UNCHANGED <<armed, fileLock>>
       \/ /\ dirty /\ fileLock # "free" /\ at' = "end"
          /\ armed' = armed \cup {"refresh"} /\ UNCHANGED fileLock
       \/ /\ dirty /\ fileLock = "free" /\ at' = "refresh"
          /\ fileLock' = "ours" /\ UNCHANGED armed
    /\ UNCHANGED <<db, memory, open, bounds, lapses>>

\* retryLater(), of the put-off refresh.
RetryLater == armed' = IF open THEN armed \cup {"deferred"} ELSE armed

DeferredBegins ==
    /\ Runs("deferred", "begin")
    /\ \/ ~(dirty \/ pending) /\ at' = "end" /\ UNCHANGED <<armed, fileLock>>
       \/ /\ (dirty \/ pending) /\ fileLock # "free" /\ at' = "end"
          /\ RetryLater /\ UNCHANGED fileLock
       \/ /\ (dirty \/ pending) /\ fileLock = "free" /\ at' = "refresh"
          /\ fileLock' = "ours" /\ UNCHANGED armed
    /\ UNCHANGED <<db, memory, open, bounds, lapses>>

-----------------------------------------------------------------------------
(* The end of a task, of the instance and of the process.                  *)

\* A task that leaves the file lock behind when it throws.
UnlocksUnlessThrown ==
    fileLock' = IF fileLock = "ours" /\ at # "thrown" THEN "free" ELSE fileLock

\* The finally blocks give the file lock back.
Unlocks == fileLock' = IF fileLock = "ours" THEN "free" ELSE fileLock

\* The put-off refresh looks whether it is still pending.  What a sync was
\* called with ends with it.
TaskEnds(t) ==
    /\ at = "end" \/ (at = "thrown" /\ t # "refresh")
    /\ Release(t) /\ at' = "out" /\ Unlocks /\ saved' = FALSE
    /\ IF t = "deferred" /\ (pending \/ at = "thrown") THEN RetryLater
                                                       ELSE UNCHANGED armed
    /\ IF t = "sync" THEN changed' = FALSE /\ mode' = "inline"
                     ELSE UNCHANGED <<changed, mode>>
    /\ UNCHANGED <<db, dirty, open, bounds, lapses>>

\* On a closed database every step throws.
TaskMeetsClosed(t) ==
    /\ Runs(t, at) /\ ~open /\ at \notin {"begin", "end", "thrown"}
    /\ at' = "end"
    /\ UNCHANGED <<db, memory, armed, open, fileLock, bounds, lapses>>

\* close() that leaves the database open.
CloseKeepsDatabase ==
    /\ open /\ Fault /\ armed' = {}
    /\ fileLock' = IF fileLock \in {"ours", "left"} THEN "free" ELSE fileLock
    /\ UNCHANGED <<mutex, db, memory, open, at, edits, lapses>>

\* close(): it releases the lock of its instance, and a task that runs meets
\* a closed database.
Close ==
    /\ open /\ Fault /\ open' = FALSE /\ armed' = {}
    /\ fileLock' = IF fileLock \in {"ours", "left"} THEN "free" ELSE fileLock
    /\ UNCHANGED <<mutex, db, memory, at, edits, lapses>>

\* The lock of a process that is gone is stale, and replaced by who asks next.
Gone ==
    /\ open' = FALSE /\ armed' = {} /\ at' = "out"
    /\ fileLock' = IF fileLock = "other" THEN "other" ELSE "free"
    /\ locked' = FALSE /\ waitQueue' = << >> /\ pc' = [t \in Task |-> "idle"]
    /\ lapses' = IF Debt /\ ~pending /\ at # "synthesize"
                 THEN lapses \cup {"restart"} ELSE lapses
    /\ dirty' = FALSE /\ saved' = FALSE /\ changed' = FALSE /\ mode' = "inline"
    /\ UNCHANGED <<left, db, edits>>

\* The process is killed, or ends over the rejection of the debounced
\* refresh, which nobody handles.
Killed == open /\ Fault /\ Gone
Dies   == pc["refresh"] = "holding" /\ at = "thrown" /\ Gone /\ UNCHANGED faults

\* A new instance on the database that the old one has left, in the same
\* process or in a new one, to which the lock of the old one is stale.
Reopens ==
    /\ ~open /\ open' = TRUE /\ \A t \in Task : pc[t] = "idle"
    /\ dirty' = FALSE /\ saved' = FALSE /\ armed' = {}
    /\ lapses' = IF Debt /\ ~pending THEN lapses \cup {"restart"} ELSE lapses
    /\ fileLock' \in {fileLock} \cup (IF fileLock = "lost" THEN {"free"} ELSE {})
    /\ UNCHANGED <<mutex, db, changed, mode, at, bounds>>

\* Another process takes the file lock and gives it back.
OtherLocks ==
    /\ fileLock = "free" /\ Fault /\ fileLock' = "other"
    /\ UNCHANGED <<mutex, db, memory, armed, open, at, edits, lapses>>

OtherUnlocks ==
    /\ fileLock = "other" /\ fileLock' = "free"
    /\ UNCHANGED <<mutex, db, memory, armed, open, at, bounds, lapses>>

-----------------------------------------------------------------------------

SynthInit ==
    /\ Init
    /\ edges = "whole" /\ dirty = FALSE /\ pending = FALSE /\ armed = {}
    /\ open = TRUE /\ fileLock = "free" /\ at = "out" /\ mode = "inline"
    /\ changed = FALSE /\ saved = FALSE /\ edits = 0 /\ faults = 0 /\ lapses = {}

\* A waiter that was woken looks at the mutex again.
Resumes(t) ==
    /\ Resume(t) /\ Enters
    /\ UNCHANGED <<db, memory, armed, open, fileLock, bounds, lapses>>

Refreshes(t) ==
    \/ RefreshBegins(t) \/ RefreshSynthesizes(t) \/ RefreshReconciles(t)
    \/ RefreshFails(t)

SyncSteps ==
    \/ SyncBegins \/ SyncStores \/ SyncThrows \/ SyncSweeps
    \/ SweepSynthesizes \/ SweepReconciles \/ SyncDecides

Runner ==
    \/ SyncSteps \/ DebouncedBegins \/ DeferredBegins \/ Dies
    \/ \E t \in Task : Refreshes(t) \/ TaskEnds(t) \/ TaskMeetsClosed(t)

Calls == \E m \in {"inline", "defer", "complete"} : SyncCalled(m)

SynthNext ==
    \/ Runner \/ Calls \/ Close \/ Killed \/ Reopens \/ OtherLocks \/ OtherUnlocks
    \/ \E t \in Task : Resumes(t)
    \/ \E t \in Timer : TimerFires(t)

\* Tasks go on, the other process gives the lock back, and newcomers do not
\* overtake a woken task for ever (it goes on in the same turn of the loop).
\* The timer of a put-off refresh fires; that of the debounced one does when
\* syncs cease to start it anew.
SynthSpec ==
    /\ SynthInit /\ [][SynthNext]_svars
    /\ WF_svars(Runner) /\ WF_svars(OtherUnlocks)
    /\ \A t \in Task : SF_svars(Resumes(t) /\ pc'[t] = "holding")
                      /\ WF_svars(Resumes(t))
    /\ WF_svars(TimerFires("deferred"))
    /\ WF_svars(TimerFires("refresh") /\ ~PushesBack)

-----------------------------------------------------------------------------
(* Properties.                                                             *)

\* While edges are not what a fresh index would hold, the instance knows of
\* it, through put-off and failed refreshes, kills inside a refresh and
\* restarts, until one is reconciled.  Known losses: an instance that ends
\* before its dirty files led to a refresh, or right after it cleared the
\* mark, and a database that fails while a refresh cleans up.
DebtIsKnown ==
    Debt /\ open /\ lapses \cap {"restart", "reconcile", "delete"} = {} =>
        dirty \/ pending \/ (saved /\ at \in {"synthesize", "reconcile", "failed"})
              \/ at \in {"sweepReconcile", "reconcile"}

\* Synthesized edges are written under the file lock only, also while close()
\* gives the lock back under a task that still runs.
WritesUnderLock ==
    [][edges' # edges => fileLock = "ours"]_svars

\* The file lock does not outlive the task that took it, but for the sync that
\* throws before its try (and that one not close(), see SynthTypeOK).
LockIsReturned ==
    fileLock = "ours" => \E t \in Task : pc[t] = "holding"

\* What a task may rely on where it is: at work on an open database it has the
\* file lock, and a refresh that has not cleared its mark, or whose
\* reconciliation did not fail, has it in the database.
Working == Stage \ {"begin", "thrown", "end", "out"}

StagesAgree ==
    /\ open /\ at \in Working => fileLock = "ours"
    /\ at = "synthesize" => pending
    /\ at = "failed" => pending \/ "reconcile" \in lapses

\* The types, a file lock that is not left behind, and what each stage of a
\* task relies on.
SynthInv == SynthTypeOK /\ LockIsReturned /\ StagesAgree

\* What ends the wait for a refresh: the instance is closed, lost track of the
\* debt, or cannot get the file lock that a sync of this process left behind.
Hopeless == ~open \/ lapses # {} \/ fileLock \in LeftBehind

\* The assumptions on those who save files.  They pause now and then: if syncs
\* push the refresh back again and again, it comes to fire in between.  And
\* they go on: syncs come in, of whatever kind.
SavesPause  == []<>PushesBack => []<><<TimerFires("refresh")>>_svars
SyncsComeIn == WF_svars(Calls)

\* Readers do not see outdated edges for ever: after a pause of the saves these
\* are refreshed or dropped, through lock contention and refreshes that fail;
\* and as long as syncs come in, dropped ones are made again.
DebtIsPaid ==
    SavesPause =>
        /\ (edges = "stale" /\ dirty) ~> (edges # "stale" \/ Hopeless)
        /\ SyncsComeIn => (Debt /\ dirty) ~> (~Debt \/ Hopeless)
=============================================================================
