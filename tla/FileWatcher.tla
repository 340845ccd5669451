---------------------------- MODULE FileWatcher -----------------------------
(***************************************************************************)
(* The auto-sync pipeline of src/src/sync/watcher.ts (class FileWatcher):  *)
(* file events are recorded as pending, a debounce timer turns them into a *)
(* sync, and the sync brings the index up to date, fails, or finds the     *)
(* database locked by another process.                                     *)
(*                                                                         *)
(* Contents are abstracted to whether the index lags behind the disk, so   *)
(* the number of edits is not bounded.  Time is abstracted to the order of *)
(* steps and to whether the millisecond clock has moved on since the       *)
(* running sync began, which is all the code compares.                     *)
(***************************************************************************)
EXTENDS Naturals, FiniteSets

CONSTANTS
    File,
    MaxLockRetries,         \* MAX_LOCK_RETRIES
    MaxSyncFailureRetries,  \* MAX_SYNC_FAILURE_RETRIES
    ScopedMax,              \* SCOPED_SYNC_MAX_PENDING
    CoarseClock             \* may an event land in the millisecond a sync began?

ASSUME BudgetAssumption ==
    /\ MaxLockRetries \in Nat
    /\ MaxSyncFailureRetries \in Nat
    /\ ScopedMax \in Nat

ASSUME ClockAssumption == CoarseClock \in BOOLEAN

VARIABLES
    \* the disk and the operating system
    stale,       \* files whose indexed content lags behind the disk
    skipped,     \* those of them that a sync reported as failed and that have
                 \* not changed since
    events,      \* files with an event not delivered yet
    treeEvent,   \* an undelivered event that names no source file
    quiet,       \* the user has stopped editing, for good
    \* the watcher
    mode,        \* "on": watching; "off": stopped; "dropped": unwatch()
    degraded,    \* degradedReason # null
    byLock,      \* degradedByLock
    recovering,  \* recoveringFromLock
    cooling,     \* within LOCK_REARM_COOLDOWN_MS of the last re-arm
    lockRetries, \* lockRetryCount
    failRetries, \* syncFailureRetryCount
    needsFull,   \* needsFullScan
    pending,     \* pendingFiles: "no", or lastSeenMs against syncStartedMs:
                 \* "old" (not later) or "new" (later)
    timer,       \* debounceTimer is armed
    treeTimer,   \* treeRefreshTimer is armed
    \* the sync in flight
    syncing,
    sameMs,      \* the clock still shows syncStartedMs
    full,        \* a full scan, not a scoped sync
    scope,       \* the files it looks at
    read,        \* those it has read
    fresh        \* those it has read that have not changed since

disk     == <<stale, skipped, events, treeEvent, quiet>>
latches  == <<mode, degraded, byLock, recovering, cooling>>
counters == <<lockRetries, failRetries>>
queue    == <<needsFull, pending, timer, treeTimer>>
job      == <<syncing, sameMs, full, scope, read, fresh>>
vars     == <<disk, latches, counters, queue, job>>

FlagTypes ==
    /\ treeEvent \in BOOLEAN /\ quiet \in BOOLEAN
    /\ degraded \in BOOLEAN /\ byLock \in BOOLEAN
    /\ recovering \in BOOLEAN /\ cooling \in BOOLEAN
    /\ needsFull \in BOOLEAN /\ timer \in BOOLEAN /\ treeTimer \in BOOLEAN
    /\ syncing \in BOOLEAN /\ sameMs \in BOOLEAN /\ full \in BOOLEAN

DataTypes ==
    /\ stale \subseteq File /\ skipped \subseteq stale /\ events \subseteq File
    /\ mode \in {"on", "off", "dropped"}
    /\ lockRetries \in Nat /\ failRetries \in Nat
    /\ pending \in [File -> {"no", "old", "new"}]
    /\ scope \subseteq File /\ read \subseteq scope /\ fresh \subseteq read

TypeOK == FlagTypes /\ DataTypes

NothingPending == [f \in File |-> "no"]

Pending == {f \in File : pending[f] # "no"}

\* start() has returned true and the index matches the disk.
Init ==
    /\ stale = {} /\ skipped = {} /\ events = {} /\ treeEvent = FALSE /\ quiet = FALSE
    /\ mode = "on"
    /\ degraded = FALSE /\ byLock = FALSE /\ recovering = FALSE
    /\ cooling = FALSE
    /\ lockRetries = 0 /\ failRetries = 0
    /\ needsFull = FALSE /\ pending = NothingPending
    /\ timer = FALSE /\ treeTimer = FALSE
    /\ syncing = FALSE /\ sameMs = FALSE /\ full = FALSE
    /\ scope = {} /\ read = {} /\ fresh = {}

-----------------------------------------------------------------------------
(* The disk.  Only a live watch turns a change into an event.              *)

\* A source file is created, modified or deleted.
Edit(f) ==
    /\ ~quiet
    /\ stale' = stale \cup {f} /\ skipped' = skipped \ {f}
    /\ fresh' = fresh \ {f}
    /\ events' = IF mode = "on" THEN events \cup {f} ELSE events
    /\ UNCHANGED <<treeEvent, quiet, latches, counters, queue,
                   syncing, sameMs, full, scope, read>>

\* Files change with no event of their own: a directory is removed or
\* created, a link is retargeted, an ignore rule or the configuration changes.
TreeEdit(f) ==
    /\ ~quiet
    /\ stale' = stale \cup {f} /\ skipped' = skipped \ {f}
    /\ fresh' = fresh \ {f}
    /\ treeEvent' = (treeEvent \/ mode = "on")
    /\ UNCHANGED <<events, quiet, latches, counters, queue,
                   syncing, sameMs, full, scope, read>>

GoQuiet ==
    /\ ~quiet /\ quiet' = TRUE
    /\ UNCHANGED <<stale, skipped, events, treeEvent, latches, counters, queue, job>>

ClockTicks ==
    /\ sameMs /\ sameMs' = FALSE
    /\ UNCHANGED <<disk, latches, counters, queue,
                   syncing, full, scope, read, fresh>>

-----------------------------------------------------------------------------
(* Events.                                                                 *)

\* handleChange of a source file: pending, and scheduleSync.
HandleChange(f) ==
    /\ mode = "on" /\ f \in events
    /\ sameMs => CoarseClock
    /\ events' = events \ {f}
    /\ pending' = [pending EXCEPT ![f] = IF sameMs THEN "old" ELSE "new"]
    /\ timer' = TRUE
    /\ UNCHANGED <<stale, skipped, treeEvent, quiet, latches, counters,
                   needsFull, treeTimer, job>>

\* A removed path that is no source file (maybeScheduleForRemovedDir), or a
\* scope file (refreshScope, which also refreshes the tree).
HandleRemovedDirOrScope ==
    /\ mode = "on" /\ treeEvent
    /\ treeEvent' = FALSE
    /\ needsFull' = TRUE /\ timer' = TRUE
    /\ treeTimer' \in {TRUE, treeTimer}
    /\ UNCHANGED <<stale, skipped, events, quiet, latches, counters, pending, job>>

\* A new or retargeted directory (scheduleTreeRefresh).
HandleNewDir ==
    /\ mode = "on" /\ treeEvent
    /\ treeEvent' = FALSE
    /\ treeTimer' = TRUE
    /\ UNCHANGED <<stale, skipped, events, quiet, latches, counters, needsFull,
                   pending, timer, job>>

TreeTimerFires ==
    /\ mode = "on" /\ treeTimer
    /\ treeTimer' = FALSE
    /\ needsFull' = TRUE /\ timer' = TRUE
    /\ UNCHANGED <<disk, latches, counters, pending, job>>

-----------------------------------------------------------------------------
(* flush().                                                                *)

\* A timer that fires during a sync does nothing: the end of the sync is to
\* schedule what is left.
TimerFiresEarly ==
    /\ timer /\ syncing
    /\ timer' = FALSE
    /\ UNCHANGED <<disk, latches, counters, needsFull, pending, treeTimer, job>>

\* The full-scan request is consumed before the first await.
Flush ==
    /\ timer /\ ~syncing /\ mode = "on"
    /\ timer' = FALSE
    /\ syncing' = TRUE /\ sameMs' = TRUE
    /\ full' = (needsFull \/ Pending = {} \/ Cardinality(Pending) > ScopedMax)
    /\ needsFull' = (needsFull /\ ~full')
    /\ scope' = IF full' THEN File ELSE Pending
    /\ read' = {} /\ fresh' = {}
    /\ pending' = [f \in File |-> IF f \in Pending THEN "old" ELSE "no"]
    /\ UNCHANGED <<disk, latches, counters, treeTimer>>

\* syncFn reads a file; what it read is stored when it succeeds.
SyncReads(f) ==
    /\ syncing /\ f \in scope \ read
    /\ read' = read \cup {f} /\ fresh' = fresh \cup {f}
    /\ UNCHANGED <<disk, latches, counters, queue, syncing, sameMs, full, scope>>

\* What stop() does to the watcher; an in-flight sync runs on.
StopEffect ==
    /\ events' = {} /\ treeEvent' = FALSE
    /\ timer' = FALSE /\ treeTimer' = FALSE
    /\ pending' = NothingPending
    /\ recovering' = FALSE
    /\ lockRetries' = 0 /\ failRetries' = 0

\* degrade(): latch the reason and stop; a latched watcher stays as it is.
DegradeEffect(lock) ==
    /\ mode' = "off"
    /\ degraded' = TRUE /\ byLock' = lock
    /\ StopEffect
    /\ UNCHANGED <<quiet, cooling>>

JobEnds ==
    /\ syncing' = FALSE /\ sameMs' = FALSE /\ full' = FALSE
    /\ scope' = {} /\ read' = {} /\ fresh' = {}

\* A finally block that looks at pending files only (#1964).
ReschedulePendingOnly ==
    timer' = (timer \/ (mode = "on" /\ pending' # NothingPending))

\* The finally block: what is still owed is scheduled, at once or with a
\* backoff.
Reschedule ==
    timer' = (timer \/ (mode = "on" /\ (needsFull' \/ pending' # NothingPending)))

\* What a sync that resolves has stored: what it read, but for the files it
\* reports in failedFilePaths.
SyncStores ==
    \E failed \in SUBSET (fresh \cap stale) :
        /\ stale' = stale \ (fresh \ failed)
        /\ skipped' = (skipped \ fresh) \cup failed

\* A success that forgets every pending file, mid-sync events included.
SyncSucceedsClearsAll ==
    /\ syncing /\ read = scope
    /\ SyncStores
    /\ lockRetries' = 0 /\ failRetries' = 0
    /\ pending' = NothingPending
    /\ degraded' = (degraded /\ ~(recovering /\ full /\ ~needsFull))
    /\ recovering' = (recovering /\ ~(full /\ ~needsFull))
    /\ JobEnds
    /\ UNCHANGED <<events, treeEvent, quiet, mode, byLock, cooling, needsFull,
                   treeTimer>>
    /\ Reschedule

\* syncFn resolves; the watcher does not look at failedFilePaths.
SyncSucceeds ==
    /\ syncing /\ read = scope
    /\ SyncStores
    /\ lockRetries' = 0 /\ failRetries' = 0
    /\ pending' = [f \in File |-> IF pending[f] = "old" THEN "no" ELSE pending[f]]
    /\ LET recovered == recovering /\ full /\ ~needsFull
       IN  /\ degraded' = (degraded /\ ~recovered)
           /\ recovering' = (recovering /\ ~recovered)
    /\ JobEnds
    /\ UNCHANGED <<events, treeEvent, quiet, mode, byLock, cooling, needsFull,
                   treeTimer>>
    /\ Reschedule

\* LockUnavailableError: another process holds the database.  The lock is
\* taken before anything is read.
SyncLocked ==
    /\ syncing /\ read = {}
    /\ needsFull' = (needsFull \/ full)
    /\ JobEnds
    /\ \/ /\ lockRetries >= MaxLockRetries
          /\ ~degraded \/ recovering
          /\ DegradeEffect(TRUE)
          /\ UNCHANGED <<stale, skipped>>
       \/ /\ lockRetries < MaxLockRetries \/ (degraded /\ ~recovering)
          /\ lockRetries' = lockRetries + 1
          /\ UNCHANGED <<disk, latches, failRetries, pending, treeTimer>>
          /\ Reschedule

\* A failure without the retry budget (#1127).
SyncFailsUnbounded ==
    /\ syncing
    /\ \E stored \in SUBSET fresh :
          stale' = stale \ stored /\ skipped' = skipped \ stored
    /\ needsFull' = (needsFull \/ full)
    /\ JobEnds
    /\ lockRetries' = 0
    /\ failRetries' = failRetries + 1
    /\ UNCHANGED <<events, treeEvent, quiet, latches, pending, treeTimer>>
    /\ Reschedule

\* Any other failure, with what was stored before it.
SyncFails ==
    /\ syncing
    /\ \E stored \in SUBSET fresh :
          stale' = stale \ stored /\ skipped' = skipped \ stored
    /\ needsFull' = (needsFull \/ full)
    /\ JobEnds
    /\ \/ /\ failRetries >= MaxSyncFailureRetries
          /\ ~degraded \/ recovering
          /\ DegradeEffect(FALSE)
       \/ /\ failRetries < MaxSyncFailureRetries \/ (degraded /\ ~recovering)
          /\ lockRetries' = 0
          /\ failRetries' = failRetries + 1
          /\ UNCHANGED <<events, treeEvent, quiet, latches, pending, treeTimer>>
          /\ Reschedule

-----------------------------------------------------------------------------
(* The host and the operating system.                                      *)

\* EMFILE from a watch, or the project folder is gone.
DegradeOnResource ==
    /\ mode = "on" /\ (~degraded \/ recovering)
    /\ DegradeEffect(FALSE)
    /\ UNCHANGED <<stale, skipped, needsFull, job>>

\* unwatch(): stop(), and the object is dropped.
Unwatch ==
    /\ mode # "dropped" /\ mode' = "dropped"
    /\ StopEffect
    /\ UNCHANGED <<stale, skipped, quiet, degraded, byLock, cooling, needsFull, job>>

\* rearmAfterLockContention() when start() succeeds: the reason stays until
\* a full scan has reconciled what was missed.
Rearm ==
    /\ byLock /\ mode = "off" /\ ~cooling
    /\ mode' = "on" /\ cooling' = TRUE /\ recovering' = TRUE
    /\ lockRetries' = 0 /\ failRetries' = 0
    /\ needsFull' = TRUE /\ timer' = TRUE
    /\ pending' = NothingPending
    /\ UNCHANGED <<disk, degraded, byLock, treeTimer, job>>

\* The same when start() fails: out of watches, or watching is disabled.
RearmFails ==
    /\ byLock /\ mode = "off" /\ ~cooling
    /\ cooling' = TRUE
    /\ byLock' \in BOOLEAN
    /\ needsFull' = FALSE
    /\ lockRetries' = 0 /\ failRetries' = 0
    /\ UNCHANGED <<disk, mode, degraded, recovering, pending, timer, treeTimer,
                   job>>

CooldownEnds ==
    /\ cooling /\ cooling' = FALSE
    /\ UNCHANGED <<disk, mode, degraded, byLock, recovering, counters, queue,
                   job>>

-----------------------------------------------------------------------------

Environment ==
    \/ \E f \in File : Edit(f) \/ TreeEdit(f)
    \/ GoQuiet \/ ClockTicks \/ DegradeOnResource \/ Unwatch

Delivers == HandleRemovedDirOrScope \/ HandleNewDir

SyncEnds == SyncSucceeds \/ SyncLocked \/ SyncFails

Next ==
    \/ Environment
    \/ \E f \in File : HandleChange(f) \/ SyncReads(f)
    \/ Delivers \/ TreeTimerFires
    \/ TimerFiresEarly \/ Flush \/ SyncEnds
    \/ Rearm \/ RearmFails \/ CooldownEnds

Spec == Init /\ [][Next]_vars

\* The operating system delivers events, timers fire, and a sync goes on and
\* ends one way or another.  Nobody has to re-arm a watcher.
FairSpec ==
    /\ Spec
    /\ \A f \in File : WF_vars(HandleChange(f)) /\ WF_vars(SyncReads(f))
    /\ WF_vars(Delivers) /\ WF_vars(TreeTimerFires) /\ WF_vars(ClockTicks)
    /\ WF_vars(TimerFiresEarly) /\ WF_vars(Flush) /\ WF_vars(SyncEnds)

-----------------------------------------------------------------------------
(* Properties.                                                             *)

\* What the watcher still has to do for a file: an event to come, a pending
\* entry, a full scan ahead, or a running sync that will store what it is now.
Owed(f) ==
    \/ f \in events \/ treeEvent
    \/ pending[f] # "no" \/ needsFull \/ treeTimer
    \/ syncing /\ f \in (scope \ read) \cup fresh

\* No edit is lost: while the watcher claims to be healthy, every file the
\* index lags behind on is owed a sync, whatever events, timers, failed
\* syncs and re-arms have interleaved, unless a sync has reported it as failed
\* and it has not changed since.
StaleIsOwed ==
    mode = "on" /\ ~degraded => \A f \in stale \ skipped : Owed(f)

\* Work that is recorded is also scheduled: a debounce timer is armed or the
\* running sync will arm it when it ends.
WorkIsScheduled ==
    mode = "on" /\ (needsFull \/ Pending # {}) => timer \/ syncing

\* getPendingFiles() reports a file as "indexing" only if the running sync
\* looks at that file.
IndexingIsTrue ==
    \A f \in File : syncing /\ mode = "on" /\ pending[f] = "old" => f \in scope

\* A live watcher shows the whole-index warning exactly while it recovers
\* from lock contention; a stopped one recovers from nothing.
RecoveringWarns == recovering = (mode = "on" /\ degraded)

\* A live watcher has retried no more often than its budgets allow, however
\* lock contention and other failures alternate.
BudgetsKept ==
    mode = "on" => /\ lockRetries <= MaxLockRetries
                   /\ failRetries <= MaxSyncFailureRetries

\* No sync of an earlier session is still in flight when a watcher that gave
\* up on the lock is started again: its success could not end a recovery
\* whose full scan it never made.
RearmIsClean == byLock /\ mode = "off" => degraded /\ ~syncing

\* A file that changed after the running sync read it has left a trace that
\* outlives the sync.
ChangeLeavesTrace ==
    mode = "on" => \A f \in read \ fresh :
        f \in events \/ treeEvent \/ pending[f] = "new" \/ needsFull \/ treeTimer

\* What the running sync looks at is the whole project, or pending: its
\* failure puts all of it back.
ScopeIsCovered ==
    syncing => IF full THEN scope = File
                       ELSE mode = "on" => scope \subseteq Pending

\* The inductive invariant behind StaleIsOwed.
WatcherInv ==
    /\ StaleIsOwed
    /\ WorkIsScheduled
    /\ IndexingIsTrue
    /\ RecoveringWarns
    /\ BudgetsKept
    /\ RearmIsClean
    /\ ChangeLeavesTrace
    /\ ScopeIsCovered
    /\ ~syncing => read = {}

\* Once the user stops editing, the index catches up but for files that a sync
\* has reported as failed, unless the watcher says it has given up or the host
\* has dropped it.
EditsReachIndex == quiet ~> (stale \subseteq skipped \/ degraded \/ mode = "dropped")
=============================================================================
