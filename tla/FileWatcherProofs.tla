------------------------- MODULE FileWatcherProofs --------------------------
(***************************************************************************)
(* Proofs about FileWatcher, for any set of files and any retry budgets,   *)
(* where no event lands in the very millisecond in which a sync began.     *)
(***************************************************************************)
EXTENDS FileWatcher, TLAPS

\* Every step keeps the sets, counters and functions in their ranges.
LEMMA DataStep == TypeOK /\ [Next]_vars => DataTypes'
<1> SUFFICES ASSUME DataTypes, [Next]_vars PROVE DataTypes'
  BY DEF TypeOK
<1> USE DEF DataTypes, disk, latches, counters, queue, job
<1>1. NothingPending \in [File -> {"no", "old", "new"}]
  BY DEF NothingPending
<1>2. CASE Environment
  <2>1. ASSUME NEW f \in File, Edit(f) \/ TreeEdit(f) PROVE DataTypes'
    BY <2>1 DEF Edit, TreeEdit
  <2>2. CASE GoQuiet \/ ClockTicks
    BY <2>2 DEF GoQuiet, ClockTicks
  <2>3. CASE DegradeOnResource
    BY <1>1, <2>3 DEF DegradeOnResource, DegradeEffect, StopEffect
  <2>4. CASE Unwatch
    BY <1>1, <2>4 DEF Unwatch, StopEffect
  <2> QED
    BY <1>2, <2>1, <2>2, <2>3, <2>4 DEF Environment
<1>3. ASSUME NEW f \in File, HandleChange(f) PROVE DataTypes'
  BY <1>3 DEF HandleChange
<1>4. ASSUME NEW f \in File, SyncReads(f) PROVE DataTypes'
  BY <1>4 DEF SyncReads
<1>5. CASE Delivers \/ TreeTimerFires \/ TimerFiresEarly
  BY <1>5 DEF Delivers, HandleRemovedDirOrScope, HandleNewDir, TreeTimerFires,
              TimerFiresEarly
<1>6. CASE Flush
  BY <1>6 DEF Flush, Pending
<1>7. CASE SyncSucceeds
  BY <1>7 DEF SyncSucceeds, SyncStores, JobEnds
<1>8. CASE SyncLocked
  BY <1>1, <1>8 DEF SyncLocked, JobEnds, DegradeEffect, StopEffect
<1>9. CASE SyncFails
  BY <1>1, <1>9 DEF SyncFails, JobEnds, DegradeEffect, StopEffect
<1>10. CASE Rearm \/ RearmFails \/ CooldownEnds
  BY <1>1, <1>10 DEF Rearm, RearmFails, CooldownEnds
<1>11. CASE UNCHANGED vars
  BY <1>11 DEF vars
<1> QED
  BY <1>2, <1>3, <1>4, <1>5, <1>6, <1>7, <1>8, <1>9, <1>10, <1>11
  DEF Next, SyncEnds

\* Every step keeps the latches, timers and flags Boolean.
LEMMA FlagStep == TypeOK /\ [Next]_vars => FlagTypes'
<1> SUFFICES ASSUME FlagTypes, [Next]_vars PROVE FlagTypes'
  BY DEF TypeOK
<1> USE DEF FlagTypes, disk, latches, counters, queue, job
<1>2. CASE Environment
  <2>1. ASSUME NEW f \in File, Edit(f) PROVE FlagTypes'
    BY <2>1, ZenonT(30) DEF Edit
  <2>2. ASSUME NEW f \in File, TreeEdit(f) PROVE FlagTypes'
    BY <2>2, ZenonT(30) DEF TreeEdit
  <2>3. CASE GoQuiet
    BY <2>3, ZenonT(30) DEF GoQuiet
  <2>4. CASE ClockTicks
    BY <2>4, ZenonT(30) DEF ClockTicks
  <2>5. CASE DegradeOnResource
    BY <2>5, ZenonT(30) DEF DegradeOnResource, DegradeEffect, StopEffect
  <2>6. CASE Unwatch
    BY <2>6, ZenonT(30) DEF Unwatch, StopEffect
  <2> QED
    BY <1>2, <2>1, <2>2, <2>3, <2>4, <2>5, <2>6 DEF Environment
<1>3. ASSUME NEW f \in File, HandleChange(f) \/ SyncReads(f) PROVE FlagTypes'
  BY <1>3, ZenonT(30) DEF HandleChange, SyncReads
<1>5. CASE Delivers \/ TreeTimerFires \/ TimerFiresEarly
  BY <1>5, ZenonT(30)
  DEF Delivers, HandleRemovedDirOrScope, HandleNewDir, TreeTimerFires,
      TimerFiresEarly
<1>6. CASE Flush
  BY <1>6, ZenonT(30) DEF Flush
<1>7. CASE SyncSucceeds
  BY <1>7, ZenonT(30) DEF SyncSucceeds, JobEnds, Reschedule
<1>8. CASE SyncLocked
  BY <1>8, ZenonT(30)
  DEF SyncLocked, JobEnds, Reschedule, DegradeEffect, StopEffect
<1>9. CASE SyncFails
  BY <1>9, ZenonT(30)
  DEF SyncFails, JobEnds, Reschedule, DegradeEffect, StopEffect
<1>10. CASE Rearm \/ RearmFails \/ CooldownEnds
  BY <1>10, ZenonT(30) DEF Rearm, RearmFails, CooldownEnds
<1>11. CASE UNCHANGED vars
  BY <1>11, Zenon DEF vars
<1> QED
  BY <1>2, <1>3, <1>5, <1>6, <1>7, <1>8, <1>9, <1>10, <1>11
  DEF Next, SyncEnds

\* Type correctness of the watcher.
THEOREM TypeCorrect == Spec => []TypeOK
<1>1. Init => DataTypes
  BY DEF Init, DataTypes, NothingPending
<1>2. Init => FlagTypes
  BY Zenon DEF Init, FlagTypes
<1>3. Init => TypeOK
  BY <1>1, <1>2 DEF TypeOK
<1>4. TypeOK /\ [Next]_vars => TypeOK'
  BY DataStep, FlagStep DEF TypeOK
<1> QED
  BY <1>3, <1>4, PTL DEF Spec

-----------------------------------------------------------------------------
(* No edit is lost.                                                        *)

\* The edits, events and timers of a running watcher, where the clock tells
\* events before a sync from events during it.
LEMMA EventStep ==
    ASSUME TypeOK, WatcherInv, ~CoarseClock,
           \/ Environment \/ Delivers \/ TreeTimerFires \/ TimerFiresEarly
           \/ \E f \in File : HandleChange(f) \/ SyncReads(f)
    PROVE  WatcherInv'
<1> USE DEF TypeOK, DataTypes, disk, latches, counters, queue, job
<1> USE DEF WatcherInv, StaleIsOwed, Owed, WorkIsScheduled, IndexingIsTrue,
            RecoveringWarns, BudgetsKept, RearmIsClean, ChangeLeavesTrace,
            ScopeIsCovered, Pending
<1>1. ASSUME NEW f \in File, Edit(f) PROVE WatcherInv'
  BY <1>1 DEF Edit
<1>2. ASSUME NEW f \in File, TreeEdit(f) PROVE WatcherInv'
  BY <1>2 DEF TreeEdit
<1>3. CASE GoQuiet \/ ClockTicks
  BY <1>3 DEF GoQuiet, ClockTicks
<1>4. CASE DegradeOnResource
  BY <1>4 DEF DegradeOnResource, DegradeEffect, StopEffect
<1>5. CASE Unwatch
  BY <1>5 DEF Unwatch, StopEffect
<1>6. CASE HandleRemovedDirOrScope
  BY <1>6 DEF HandleRemovedDirOrScope
<1>7. CASE HandleNewDir
  BY <1>7 DEF HandleNewDir
<1>8. CASE TreeTimerFires
  BY <1>8 DEF TreeTimerFires
<1>9. CASE TimerFiresEarly
  BY <1>9 DEF TimerFiresEarly
<1>10. ASSUME NEW f \in File, HandleChange(f) PROVE WatcherInv'
  BY <1>10 DEF HandleChange
<1>11. ASSUME NEW f \in File, SyncReads(f) PROVE WatcherInv'
  BY <1>11 DEF SyncReads
<1> QED
  BY <1>1, <1>2, <1>3, <1>4, <1>5, <1>6, <1>7, <1>8, <1>9, <1>10, <1>11
  DEF Environment, Delivers

\* A sync begins.
LEMMA FlushStep ==
    ASSUME TypeOK, WatcherInv, Flush
    PROVE  WatcherInv'
<1> USE DEF TypeOK, DataTypes, disk, latches, counters, queue, job
<1>1. /\ mode = "on" /\ mode' = "on" /\ ~syncing /\ syncing'
      /\ scope' = (IF full' THEN File ELSE Pending)
      /\ needsFull => full'
      /\ read' = {}
      /\ UNCHANGED <<disk, latches, counters, treeTimer>>
      /\ \A f \in File : pending'[f] = IF pending[f] = "no" THEN "no" ELSE "old"
  BY DEF Flush, Pending
<1>2. Pending' = Pending
  BY <1>1 DEF Pending
<1> USE <1>1, <1>2
<1>3. StaleIsOwed'
  BY DEF WatcherInv, StaleIsOwed, Owed
<1>4. WorkIsScheduled' /\ IndexingIsTrue'
  BY DEF WorkIsScheduled, IndexingIsTrue, Pending
<1>5. RecoveringWarns' /\ BudgetsKept' /\ RearmIsClean'
  BY DEF WatcherInv, RecoveringWarns, BudgetsKept, RearmIsClean
<1>6. ChangeLeavesTrace' /\ ScopeIsCovered'
  BY DEF ChangeLeavesTrace, ScopeIsCovered
<1> QED
  BY <1>3, <1>4, <1>5, <1>6 DEF WatcherInv

\* A sync ends: what it stored is no longer owed, and all else still is.
LEMMA SyncStep ==
    ASSUME TypeOK, WatcherInv, SyncEnds
    PROVE  WatcherInv'
<1> USE DEF TypeOK, DataTypes, disk, latches, counters, queue, job
<1>1. CASE SyncSucceeds
  <2>1. /\ syncing /\ read = scope /\ mode' = mode
        /\ stale' \ skipped' \subseteq (stale \ skipped) \ fresh
        /\ ~syncing' /\ read' = {}
        /\ UNCHANGED <<events, treeEvent, needsFull, treeTimer, byLock>>
        /\ \A f \in File : pending'[f] = IF pending[f] = "old" THEN "no"
                                                              ELSE pending[f]
        /\ lockRetries' = 0 /\ failRetries' = 0
    BY <1>1 DEF SyncSucceeds, SyncStores, JobEnds
  <2>2. /\ degraded' <=> degraded /\ ~(recovering /\ full /\ ~needsFull)
        /\ recovering' = (recovering /\ ~(recovering /\ full /\ ~needsFull))
    BY <1>1 DEF SyncSucceeds
  <2>3. StaleIsOwed'
    <3>1. ASSUME mode = "on", ~degraded', NEW f \in (stale \ skipped) \ fresh
          PROVE  Owed(f)'
      <4>1. CASE f \in read
        BY <2>1, <3>1, <4>1 DEF WatcherInv, ChangeLeavesTrace, Owed
      <4>2. CASE f \notin read
        <5>1. ~full /\ ~degraded
          BY <2>1, <2>2, <3>1, <4>2 DEF WatcherInv, ScopeIsCovered
        <5> QED
          BY <2>1, <3>1, <4>2, <5>1
          DEF WatcherInv, StaleIsOwed, Owed, IndexingIsTrue
      <4> QED
        BY <4>1, <4>2
    <3> QED
      BY <2>1, <3>1 DEF StaleIsOwed
  <2>4. WorkIsScheduled'
    BY <1>1, <2>1 DEF SyncSucceeds, Reschedule, WorkIsScheduled, Pending,
                      NothingPending
  <2>5. RecoveringWarns'
    BY <2>1, <2>2 DEF WatcherInv, RecoveringWarns
  <2>6. RearmIsClean'
    BY <2>1, <2>2 DEF WatcherInv, RearmIsClean
  <2>7. IndexingIsTrue' /\ BudgetsKept' /\ ChangeLeavesTrace' /\ ScopeIsCovered'
    BY <2>1, BudgetAssumption
    DEF IndexingIsTrue, BudgetsKept, ChangeLeavesTrace, ScopeIsCovered
  <2> QED
    BY <2>1, <2>3, <2>4, <2>5, <2>6, <2>7 DEF WatcherInv
<1>2. CASE SyncLocked \/ SyncFails
  <2>1. /\ syncing
        /\ stale' \ skipped' \subseteq stale \ skipped
        /\ needsFull' <=> needsFull \/ full
        /\ ~syncing' /\ read' = {}
    BY <1>2 DEF SyncLocked, SyncFails, JobEnds, DegradeEffect, StopEffect
  <2>2. CASE DegradeEffect(TRUE) \/ DegradeEffect(FALSE)
    BY <2>1, <2>2
    DEF DegradeEffect, StopEffect, WatcherInv, StaleIsOwed, WorkIsScheduled,
        IndexingIsTrue, RecoveringWarns, BudgetsKept, RearmIsClean,
        ChangeLeavesTrace, ScopeIsCovered
  <2>3. CASE /\ UNCHANGED <<events, treeEvent, latches, pending, treeTimer>>
             /\ \/ /\ lockRetries < MaxLockRetries \/ (degraded /\ ~recovering)
                   /\ lockRetries' = lockRetries + 1
                   /\ failRetries' = failRetries
                \/ /\ failRetries < MaxSyncFailureRetries
                        \/ (degraded /\ ~recovering)
                   /\ lockRetries' = 0
                   /\ failRetries' = failRetries + 1
             /\ Reschedule
    <3>1. StaleIsOwed'
      BY <2>1, <2>3
      DEF WatcherInv, StaleIsOwed, Owed, ScopeIsCovered, Pending
    <3>2. WorkIsScheduled'
      BY <2>1, <2>3 DEF Reschedule, WorkIsScheduled, Pending, NothingPending
    <3>3. RecoveringWarns' /\ RearmIsClean'
      BY <2>1, <2>3 DEF WatcherInv, RecoveringWarns, RearmIsClean
    <3>4. BudgetsKept'
      <4>1. mode = "on" => ~(degraded /\ ~recovering)
        BY DEF WatcherInv, RecoveringWarns
      <4>2. mode' = mode
        BY <2>3
      <4>3. BudgetsKept
        BY DEF WatcherInv
      <4> QED
        BY <2>3, <4>1, <4>2, <4>3, BudgetAssumption DEF BudgetsKept
    <3>5. IndexingIsTrue' /\ ChangeLeavesTrace' /\ ScopeIsCovered'
      BY <2>1 DEF IndexingIsTrue, ChangeLeavesTrace, ScopeIsCovered
    <3> QED
      BY <2>1, <3>1, <3>2, <3>3, <3>4, <3>5 DEF WatcherInv
  <2> QED
    BY <1>2, <2>2, <2>3 DEF SyncLocked, SyncFails
<1> QED
  BY <1>1, <1>2 DEF SyncEnds

\* The host re-arms the watcher, or fails to.
LEMMA RearmStep ==
    ASSUME TypeOK, WatcherInv, Rearm \/ RearmFails \/ CooldownEnds
    PROVE  WatcherInv'
<1> USE DEF TypeOK, DataTypes, disk, latches, counters, queue, job
<1> USE DEF WatcherInv, StaleIsOwed, Owed, WorkIsScheduled, IndexingIsTrue,
            RecoveringWarns, BudgetsKept, RearmIsClean, ChangeLeavesTrace,
            ScopeIsCovered, Pending
<1>1. CASE Rearm
  <2>1. degraded /\ ~syncing
    BY <1>1 DEF Rearm
  <2>2. /\ mode' = "on" /\ degraded' /\ recovering' /\ timer'
        /\ ~syncing' /\ read' = read /\ needsFull'
        /\ pending' = NothingPending
    BY <1>1, <2>1 DEF Rearm
  <2>3. recovering' = (mode' = "on" /\ degraded')
    BY <1>1, <2>1 DEF Rearm
  <2>4. BudgetsKept'
    BY <1>1, BudgetAssumption DEF Rearm
  <2> QED
    BY <2>1, <2>2, <2>3, <2>4 DEF NothingPending
<1>2. CASE RearmFails
  BY <1>2 DEF RearmFails
<1>3. CASE CooldownEnds
  BY <1>3 DEF CooldownEnds
<1> QED
  BY <1>1, <1>2, <1>3

\* Where the clock tells every event during a sync from the sync's start,
\* WatcherInv holds for any number of files and any retry budgets.
THEOREM WatcherInvariant == ASSUME ~CoarseClock PROVE Spec => []WatcherInv
<1>1. Init => WatcherInv
  <2> SUFFICES ASSUME Init PROVE WatcherInv
    OBVIOUS
  <2>1. BudgetsKept
    BY BudgetAssumption DEF Init, BudgetsKept
  <2>2. WorkIsScheduled /\ IndexingIsTrue
    BY DEF Init, WorkIsScheduled, IndexingIsTrue, Pending, NothingPending
  <2>3. RecoveringWarns /\ RearmIsClean
    BY DEF Init, RecoveringWarns, RearmIsClean
  <2>4. StaleIsOwed /\ ChangeLeavesTrace /\ ScopeIsCovered
    BY DEF Init, StaleIsOwed, ChangeLeavesTrace, ScopeIsCovered
  <2> QED
    BY <2>1, <2>2, <2>3, <2>4 DEF Init, WatcherInv
<1>2. TypeOK /\ WatcherInv /\ [Next]_vars => WatcherInv'
  <2> SUFFICES ASSUME TypeOK, WatcherInv, [Next]_vars PROVE WatcherInv'
    OBVIOUS
  <2>1. CASE UNCHANGED vars
    BY <2>1
    DEF vars, disk, latches, counters, queue, job, WatcherInv, StaleIsOwed,
        Owed, WorkIsScheduled, IndexingIsTrue, RecoveringWarns, BudgetsKept,
        RearmIsClean, ChangeLeavesTrace, ScopeIsCovered, Pending
  <2> QED
    BY <2>1, EventStep, FlushStep, SyncStep, RearmStep DEF Next
<1> QED
  BY <1>1, <1>2, TypeCorrect, PTL DEF Spec

\* A healthy watcher loses no edit: every file the index lags behind on is
\* owed a sync.
THEOREM NoEditIsLost == ASSUME ~CoarseClock PROVE Spec => []StaleIsOwed
<1>1. WatcherInv => StaleIsOwed
  BY DEF WatcherInv
<1> QED
  BY <1>1, WatcherInvariant, PTL

\* What a healthy watcher owes is scheduled.
THEOREM OwedIsScheduled == ASSUME ~CoarseClock PROVE Spec => []WorkIsScheduled
<1>1. WatcherInv => WorkIsScheduled
  BY DEF WatcherInv
<1> QED
  BY <1>1, WatcherInvariant, PTL
=============================================================================
