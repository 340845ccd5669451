--------------------------- MODULE SynthesisProofs ---------------------------
(***************************************************************************)
(* Proofs about IndexMutex, for any set of callers, and about Synthesis,   *)
(* for any number of edits and faults: the mutex under its three tasks,    *)
(* the file lock, and the debt.                                            *)
(***************************************************************************)
EXTENDS Synthesis, TLAPS

USE CallsAssumption

-----------------------------------------------------------------------------
(* The mutex by itself.  Nothing here is about the tasks of Synthesis.     *)

\* One turn of acquire()'s loop, by a caller outside the lock and the queue,
\* keeps the flag, the queue and the callers in agreement.
LEMMA TryKeeps ==
    ASSUME MutexInv, NEW t \in Task, pc[t] \in {"idle", "woken"},
           Try(t), left' \in [Task -> Nat]
    PROVE  MutexInv'
<1> USE DEF MutexInv, TypeOK, State
<1>1. CASE locked
  <2>1. /\ waitQueue' = Append(waitQueue, t)
        /\ pc' = [pc EXCEPT ![t] = "waiting"]
        /\ locked' = locked
    BY <1>1 DEF Try
  <2>2. TypeOK'
    BY <2>1
  <2>3. OneHolder' /\ LockedIsHeld'
    BY <2>1 DEF OneHolder, LockedIsHeld
  <2>4. /\ Len(waitQueue') = Len(waitQueue) + 1
        /\ DOMAIN waitQueue = 1..Len(waitQueue) /\ Len(waitQueue) \in Nat
        /\ DOMAIN waitQueue' = 1..(Len(waitQueue) + 1)
        /\ \A i \in 1..Len(waitQueue) : waitQueue'[i] = waitQueue[i]
        /\ waitQueue'[Len(waitQueue) + 1] = t
    BY <2>1
  <2>5. \A i \in DOMAIN waitQueue : waitQueue[i] # t
    BY DEF QueueIsWaiters
  <2>6. QueueIsWaiters'
    <3>1. \A i \in DOMAIN waitQueue' : pc'[waitQueue'[i]] = "waiting"
      BY <2>1, <2>4, <2>5 DEF QueueIsWaiters
    <3>2. \A i, k \in DOMAIN waitQueue' : waitQueue'[i] = waitQueue'[k] => i = k
      <4> TAKE i, k \in DOMAIN waitQueue'
      <4> HAVE waitQueue'[i] = waitQueue'[k]
      <4>1. CASE i \in 1..Len(waitQueue) /\ k \in 1..Len(waitQueue)
        BY <2>4, <4>1 DEF QueueIsWaiters
      <4>2. CASE i = Len(waitQueue) + 1 /\ k \in 1..Len(waitQueue)
        BY ONLY <2>4, <2>5, <4>2, waitQueue'[i] = waitQueue'[k]
      <4>3. CASE k = Len(waitQueue) + 1 /\ i \in 1..Len(waitQueue)
        BY ONLY <2>4, <2>5, <4>3, waitQueue'[i] = waitQueue'[k]
      <4>4. \A x \in DOMAIN waitQueue' :
               x \in 1..Len(waitQueue) \/ x = Len(waitQueue) + 1
        BY ONLY <2>4
      <4>5. QED
        BY <4>1, <4>2, <4>3, <4>4
    <3>3. \A u \in Task : pc'[u] = "waiting" =>
             \E i \in DOMAIN waitQueue' : waitQueue'[i] = u
      <4> TAKE u \in Task
      <4> HAVE pc'[u] = "waiting"
      <4>1. CASE u = t
        <5>1. Len(waitQueue) + 1 \in DOMAIN waitQueue'
          BY ONLY <2>4
        <5>2. QED
          BY ONLY <2>4, <4>1, <5>1
      <4>2. CASE u # t
        <5>1. pc[u] = "waiting"
          BY <2>1, <4>2
        <5>2. PICK i \in DOMAIN waitQueue : waitQueue[i] = u
          BY <5>1 DEF QueueIsWaiters
        <5>3. QED
          BY <2>4, <5>2
      <4>3. QED
        BY <4>1, <4>2
    <3>4. QED
      BY <3>1, <3>2, <3>3 DEF QueueIsWaiters
  <2>7. WaitersAreWoken'
    BY <1>1, <2>1 DEF WaitersAreWoken
  <2>8. QED
    BY <2>2, <2>3, <2>6, <2>7
<1>2. CASE ~locked
  <2>1. /\ locked' = TRUE /\ waitQueue' = waitQueue
        /\ pc' = [pc EXCEPT ![t] = "holding"]
    BY <1>2 DEF Try
  <2>2. TypeOK'
    BY <2>1
  <2>3. OneHolder' /\ LockedIsHeld'
    BY <1>2, <2>1 DEF OneHolder, LockedIsHeld
  <2>4. QueueIsWaiters'
    BY <2>1 DEF QueueIsWaiters
  <2>5. WaitersAreWoken'
    BY <2>1 DEF WaitersAreWoken
  <2>6. QED
    BY <2>2, <2>3, <2>4, <2>5
<1>3. QED
  BY <1>1, <1>2

\* A release by the holder keeps them in agreement, and the waiter it wakes
\* answers for the ones behind it.
LEMMA ReleaseKeeps ==
    ASSUME MutexInv, NEW t \in Task, Release(t)
    PROVE  MutexInv'
<1> USE DEF MutexInv, TypeOK, State
<1>1. locked' = FALSE /\ left' = left /\ pc[t] = "holding"
  BY DEF Release
<1>2. CASE waitQueue = << >>
  <2>1. pc' = [pc EXCEPT ![t] = "idle"] /\ waitQueue' = waitQueue
    BY <1>2 DEF Release
  <2>2. TypeOK'
    BY <1>1, <2>1
  <2>3. OneHolder' /\ LockedIsHeld'
    BY <1>1, <2>1 DEF OneHolder, LockedIsHeld
  <2>4. QueueIsWaiters' /\ WaitersAreWoken'
    BY <1>1, <1>2, <2>1 DEF QueueIsWaiters, WaitersAreWoken
  <2>5. QED
    BY <2>2, <2>3, <2>4
<1>3. CASE waitQueue # << >>
  <2> DEFINE h == Head(waitQueue)
  <2>1. /\ pc' = [pc EXCEPT ![t] = "idle", ![h] = "woken"]
        /\ waitQueue' = Tail(waitQueue)
    BY <1>3 DEF Release
  <2>2. /\ h \in Task /\ h = waitQueue[1] /\ 1 \in DOMAIN waitQueue
        /\ Len(waitQueue) >= 1
    BY <1>3
  <2>3. pc[h] = "waiting" /\ h # t
    BY <1>1, <2>2 DEF QueueIsWaiters
  <2>4. /\ waitQueue' \in Seq(Task) /\ Len(waitQueue') = Len(waitQueue) - 1
        /\ DOMAIN waitQueue' = 1..(Len(waitQueue) - 1)
        /\ \A i \in DOMAIN waitQueue' : /\ waitQueue'[i] = waitQueue[i + 1]
                                        /\ i + 1 \in DOMAIN waitQueue
    BY <1>3, <2>1, <2>2
  <2>5. /\ pc' \in [Task -> State] /\ pc'[h] = "woken" /\ pc'[t] = "idle"
        /\ \A u \in Task \ {h, t} : pc'[u] = pc[u]
    BY <2>1, <2>2, <2>3
  <2>6. TypeOK'
    BY <1>1, <2>4, <2>5
  <2>7. OneHolder' /\ LockedIsHeld'
    BY <1>1, <2>2, <2>5 DEF OneHolder, LockedIsHeld
  <2>8. QueueIsWaiters'
    <3>1. \A i \in DOMAIN waitQueue' : pc'[waitQueue'[i]] = "waiting"
      <4> TAKE i \in DOMAIN waitQueue'
      <4>1. waitQueue[i + 1] # h /\ waitQueue[i + 1] \in Task
        <5>1. /\ i + 1 # 1 /\ i + 1 \in DOMAIN waitQueue
              /\ waitQueue'[i] = waitQueue[i + 1]
          BY <2>2, <2>4
        <5>2. waitQueue[i + 1] # waitQueue[1]
          BY <2>2, <5>1 DEF QueueIsWaiters
        <5>3. QED
          BY <2>2, <5>1, <5>2
      <4>2. pc[waitQueue[i + 1]] = "waiting"
        BY <2>4 DEF QueueIsWaiters
      <4>3. QED
        BY <1>1, <2>4, <2>5, <4>1, <4>2
    <3>2. \A i, k \in DOMAIN waitQueue' : waitQueue'[i] = waitQueue'[k] => i = k
      BY <2>4 DEF QueueIsWaiters
    <3>3. \A u \in Task : pc'[u] = "waiting" =>
             \E i \in DOMAIN waitQueue' : waitQueue'[i] = u
      <4> TAKE u \in Task
      <4> HAVE pc'[u] = "waiting"
      <4>1. u \notin {h, t} /\ pc[u] = "waiting"
        BY <2>5
      <4>2. PICK i \in DOMAIN waitQueue : waitQueue[i] = u
        BY <4>1 DEF QueueIsWaiters
      <4>3. i # 1 /\ i \in 2..Len(waitQueue)
        BY <2>2, <4>1, <4>2
      <4>4. i - 1 \in DOMAIN waitQueue' /\ waitQueue'[i - 1] = u
        <5>1. i - 1 \in 1..(Len(waitQueue) - 1) /\ (i - 1) + 1 = i
          BY <2>2, <4>3
        <5>2. waitQueue'[i - 1] = waitQueue[(i - 1) + 1]
          BY ONLY <2>4, <5>1
        <5>3. QED
          BY ONLY <2>4, <4>2, <5>1, <5>2
      <4>5. QED
        BY <4>4
    <3>4. QED
      BY <3>1, <3>2, <3>3 DEF QueueIsWaiters
  <2>9. WaitersAreWoken'
    BY <2>2, <2>5 DEF WaitersAreWoken
  <2>10. QED
    BY <2>6, <2>7, <2>8, <2>9
<1>4. QED
  BY <1>2, <1>3

\* A mutex that nobody has used is free.
LEMMA MutexInitially == Init => MutexInv
<1> SUFFICES ASSUME Init PROVE MutexInv
  OBVIOUS
<1>1. TypeOK
  <2>1. locked \in BOOLEAN
    BY Zenon DEF Init
  <2>2. waitQueue \in Seq(Task)
    BY DEF Init
  <2>3. pc \in [Task -> State] /\ left \in [Task -> Nat]
    BY DEF Init, State
  <2>4. QED
    BY <2>1, <2>2, <2>3 DEF TypeOK
<1>2. OneHolder /\ LockedIsHeld
  BY DEF Init, OneHolder, LockedIsHeld
<1>3. DOMAIN waitQueue = {} /\ waitQueue = << >>
  BY DEF Init
<1>4. \A t \in Task : pc[t] # "waiting"
  BY DEF Init
<1>5. QueueIsWaiters /\ WaitersAreWoken
  BY <1>3, <1>4, Zenon DEF QueueIsWaiters, WaitersAreWoken
<1>6. QED
  BY <1>1, <1>2, <1>5 DEF MutexInv

\* The mutex keeps its flag, its queue and its callers in agreement.
THEOREM MutexInvariant == Spec => []MutexInv
<1>1. Init => MutexInv
  BY MutexInitially
<1>2. MutexInv /\ [Next]_vars => MutexInv'
  <2> SUFFICES ASSUME MutexInv, [Next]_vars PROVE MutexInv'
    OBVIOUS
  <2>1. CASE UNCHANGED vars
    BY <2>1 DEF vars, MutexInv, TypeOK, OneHolder, LockedIsHeld,
                QueueIsWaiters, WaitersAreWoken
  <2>2. ASSUME NEW t \in Task, Acquire(t) PROVE MutexInv'
    <3>1. left' \in [Task -> Nat]
      BY <2>2 DEF Acquire, MutexInv, TypeOK
    <3>2. QED
      BY <2>2, <3>1, TryKeeps DEF Acquire
  <2>3. ASSUME NEW t \in Task, Resume(t) PROVE MutexInv'
    <3>1. left' \in [Task -> Nat]
      BY <2>3 DEF Resume, MutexInv, TypeOK
    <3>2. QED
      BY <2>3, <3>1, TryKeeps DEF Resume
  <2>4. ASSUME NEW t \in Task, Release(t) PROVE MutexInv'
    BY <2>4, ReleaseKeeps
  <2>5. QED
    BY <2>1, <2>2, <2>3, <2>4 DEF Next
<1>3. QED
  BY <1>1, <1>2, PTL DEF Spec

\* Two tasks of an instance never index at once.
THEOREM OneHolderAtATime == Spec => []OneHolder
<1>1. MutexInv => OneHolder
  BY DEF MutexInv
<1>2. QED
  BY <1>1, MutexInvariant, PTL

\* A release never leaves the queue with nobody to wake it.
THEOREM NoLostWakeUp == Spec => []WaitersAreWoken
<1>1. MutexInv => WaitersAreWoken
  BY DEF MutexInv
<1>2. QED
  BY <1>1, MutexInvariant, PTL

-----------------------------------------------------------------------------
(* Synthesis.                                                              *)

USE SynthesisAssumption

\* The inductive invariant: the mutex, the stage and the debt agree.
DebtInv == MutexInv /\ SynthInv /\ DebtIsKnown

-----------------------------------------------------------------------------
(* The mutex under the tasks.                                              *)

\* A task that works on leaves the mutex alone.
LEMMA MutexUnchanged ==
    ASSUME MutexInv, UNCHANGED mutex
    PROVE  MutexInv'
BY DEF mutex, MutexInv, TypeOK, OneHolder, LockedIsHeld, QueueIsWaiters,
       WaitersAreWoken

\* A mutex that a new process has is free and nobody waits for it.
LEMMA MutexReset ==
    ASSUME MutexInv, locked' = FALSE, waitQueue' = << >>,
           pc' = [t \in Task |-> "idle"], left' = left
    PROVE  MutexInv'
<1>1. TypeOK'
  <2>1. locked' \in BOOLEAN
    BY Zenon
  <2>2. waitQueue' \in Seq(Task)
    OBVIOUS
  <2>3. pc' \in [Task -> State] /\ left' \in [Task -> Nat]
    BY DEF MutexInv, TypeOK, State
  <2> QED
    BY <2>1, <2>2, <2>3 DEF TypeOK
<1>2. OneHolder' /\ LockedIsHeld'
  BY DEF OneHolder, LockedIsHeld
<1>3. DOMAIN waitQueue' = {}
  OBVIOUS
<1>4. \A t \in Task : pc'[t] # "waiting"
  OBVIOUS
<1>5. QueueIsWaiters' /\ WaitersAreWoken'
  BY <1>3, <1>4, Zenon DEF QueueIsWaiters, WaitersAreWoken
<1> QED
  BY <1>1, <1>2, <1>5 DEF MutexInv

\* Who asks for the mutex begins if it was free, and waits otherwise; the
\* holder stays the holder.
LEMMA TryEnters ==
    ASSUME MutexInv, SynthTypeOK, NEW t \in Task, pc[t] \in {"idle", "woken"},
           Try(t), Enters, UNCHANGED left
    PROVE  /\ MutexInv'
           /\ (locked' <=> at' # "out") /\ at' \in Stage
           /\ at' = at \/ (at = "out" /\ at' = "begin")
           /\ \A u \in Task : pc[u] = "holding" => pc'[u] = "holding"
<1>1. MutexInv'
  BY TryKeeps DEF MutexInv, TypeOK
<1>2. \A u \in Task : pc[u] = "holding" => pc'[u] = "holding"
  BY DEF Try, MutexInv, TypeOK
<1>3. CASE locked
  BY <1>1, <1>2, <1>3 DEF Try, Enters, SynthTypeOK
<1>4. CASE ~locked
  BY <1>1, <1>2, <1>4 DEF Try, Enters, SynthTypeOK, Stage
<1> QED
  BY <1>3, <1>4

-----------------------------------------------------------------------------
(* The ways into a task.                                                   *)

\* A sync is called, a timer fires or a woken task looks again.
LEMMA EnterStep ==
    ASSUME DebtInv,
           \/ Calls
           \/ \E t \in Task : Resumes(t)
           \/ \E t \in Timer : TimerFires(t)
    PROVE  DebtInv'
<1>1. \E t \in Task : /\ pc[t] \in {"idle", "woken"} /\ Try(t) /\ Enters
                      /\ left' = left
  BY DEF Calls, SyncCalled, Resumes, Resume, TimerFires, Timer
<1>2. /\ MutexInv'
      /\ (locked' <=> at' # "out") /\ at' \in Stage
      /\ at' = at \/ (at = "out" /\ at' = "begin")
      /\ \A u \in Task : pc[u] = "holding" => pc'[u] = "holding"
  BY <1>1, TryEnters DEF DebtInv, SynthInv
<1>3. /\ UNCHANGED <<db, dirty, saved, changed, open, fileLock, bounds, lapses>>
      /\ armed' \subseteq armed
      /\ mode' = mode \/ mode' \in {"inline", "defer", "complete"}
  BY DEF Calls, SyncCalled, Resumes, TimerFires, memory
<1>4. SynthTypeOK'
  BY <1>2, <1>3 DEF DebtInv, SynthInv, SynthTypeOK, db, bounds
<1>5. LockIsReturned'
  BY <1>2, <1>3 DEF DebtInv, SynthInv, LockIsReturned
<1>6. StagesAgree'
  BY <1>2, <1>3 DEF DebtInv, SynthInv, StagesAgree, Working, db
<1>7. DebtIsKnown'
  BY <1>2, <1>3 DEF DebtInv, DebtIsKnown, Debt, db
<1> QED
  BY <1>2, <1>4, <1>5, <1>6, <1>7 DEF DebtInv, SynthInv

-----------------------------------------------------------------------------
(* A task at work.                                                         *)

\* A stage at which a task runs is one at which it holds the mutex.
LEMMA RunsHolds ==
    ASSUME MutexInv, SynthTypeOK, NEW t \in Task, NEW stage, Runs(t, stage)
    PROVE  /\ MutexInv' /\ at = stage /\ at # "out" /\ locked /\ locked'
           /\ pc' = pc /\ pc[t] = "holding"
<1>1. MutexInv' /\ pc' = pc /\ locked' = locked /\ at = stage
      /\ pc[t] = "holding"
  BY MutexUnchanged DEF Runs, mutex
<1>2. locked
  BY <1>1 DEF MutexInv, LockedIsHeld
<1> QED
  BY <1>1, <1>2 DEF SynthTypeOK

\* A step of the holder keeps the invariant if it keeps what it is to keep: the
\* types, the lock while it works, its mark and the debt.
LEMMA HolderStep ==
    ASSUME DebtInv, NEW t \in Task, Runs(t, at), SynthTypeOK', StagesAgree',
           DebtIsKnown'
    PROVE  DebtInv'
<1>1. MutexInv' /\ pc' = pc /\ pc[t] = "holding"
  BY RunsHolds DEF DebtInv, SynthInv
<1>2. LockIsReturned'
  BY <1>1 DEF LockIsReturned
<1> QED
  BY <1>1, <1>2 DEF DebtInv, SynthInv

\* The steps of a sync.
LEMMA SyncKeeps ==
    ASSUME DebtInv, SyncSteps
    PROVE  DebtInv'
<1>1. "sync" \in Task /\ Runs("sync", at) /\ at' \in Stage \ {"out"}
  BY DEF SyncSteps, SyncBegins, SyncStores, SyncThrows, SyncSweeps,
         SweepSynthesizes, SweepReconciles, SyncDecides, Works, Runs, Stage
<1>2. MutexInv /\ SynthTypeOK /\ StagesAgree /\ DebtIsKnown
  BY DEF DebtInv, SynthInv
<1>3. locked /\ locked'
  BY <1>1, <1>2, RunsHolds
<1> USE DEF db, memory, bounds, Works, Fault
<1>4. CASE SyncBegins
  <2>1. SynthTypeOK'
    BY <1>1, <1>2, <1>3, <1>4 DEF SyncBegins, SynthTypeOK, LeftBehind
  <2>2. StagesAgree' /\ DebtIsKnown'
    BY <1>2, <1>4 DEF SyncBegins, StagesAgree, DebtIsKnown, Debt, Working, Runs
  <2> QED
    BY <1>1, <2>1, <2>2, HolderStep
<1>5. CASE SyncStores
  <2>1. /\ changed' \in BOOLEAN /\ dirty' \in BOOLEAN /\ pending' \in BOOLEAN
        /\ dirty => dirty'
        /\ pending => pending'
        /\ edges' # edges => dirty' \/ pending'
    <3>1. dirty \in BOOLEAN /\ pending \in BOOLEAN
      BY <1>2 DEF SynthTypeOK
    <3>2. CASE changed' \in BOOLEAN /\ UNCHANGED <<edges, dirty, pending, edits>>
      BY <3>1, <3>2, Zenon
    <3>3. CASE changed' = TRUE /\ dirty' = TRUE /\ pending' \in {pending, TRUE}
      BY <3>1, <3>3, Zenon
    <3>4. CASE changed' \in BOOLEAN /\ pending' = TRUE /\ UNCHANGED dirty
      BY <3>1, <3>4, Zenon
    <3> QED
      BY <1>5, <3>2, <3>3, <3>4 DEF SyncStores
  <2>2. /\ edges' \in {edges, "stale"} /\ edits' \in 0..MaxEdits
        /\ at = "store" /\ at' = "sweep" /\ open /\ fileLock = "ours"
        /\ UNCHANGED <<saved, mode, armed, faults, lapses, open, fileLock>>
    <3>1. at = "store" /\ open /\ fileLock = "ours"
      BY <1>2, <1>5 DEF SyncStores, StagesAgree, Working, Stage, Runs
    <3>2. edges' \in {edges, "stale"} /\ edits' \in 0..MaxEdits
      <4>1. CASE UNCHANGED <<edges, edits>>
        BY <1>2, <4>1 DEF SynthTypeOK
      <4>2. CASE edits < MaxEdits /\ edits' = edits + 1 /\ edges' = "stale"
        BY <1>2, <4>2 DEF SynthTypeOK
      <4> QED
        BY <1>5, <4>1, <4>2 DEF SyncStores
    <3> QED
      BY <1>5, <3>1, <3>2 DEF SyncStores
  <2>3. SynthTypeOK'
    BY <1>1, <1>2, <1>3, <2>1, <2>2 DEF SynthTypeOK
  <2>4. StagesAgree' /\ DebtIsKnown'
    BY <1>2, <2>1, <2>2 DEF StagesAgree, DebtIsKnown, Debt
  <2> QED
    BY <1>1, <2>3, <2>4, HolderStep
<1>6. CASE SyncThrows
  <2>1. SynthTypeOK'
    BY <1>1, <1>2, <1>3, <1>6 DEF SyncThrows, SynthTypeOK
  <2>2. StagesAgree' /\ DebtIsKnown'
    BY <1>2, <1>6
    DEF SyncThrows, StagesAgree, DebtIsKnown, Debt, Working, Runs
  <2> QED
    BY <1>1, <2>1, <2>2, HolderStep
<1>7. CASE SyncSweeps
  <2>1. SynthTypeOK'
    BY <1>1, <1>2, <1>3, <1>7 DEF SyncSweeps, SynthTypeOK
  <2>2. pending => pending'
    BY <1>7, Zenon DEF SyncSweeps
  <2>3. /\ at = "sweep" /\ at' \in {"decide", "sweeping"}
        /\ UNCHANGED <<edges, memory, lapses, open, fileLock>>
        /\ open => fileLock = "ours"
    BY <1>2, <1>7 DEF SyncSweeps, StagesAgree, Working, Stage, Runs
  <2>4. StagesAgree' /\ DebtIsKnown'
    BY <1>2, <2>2, <2>3 DEF StagesAgree, DebtIsKnown, Debt
  <2> QED
    BY <1>1, <2>1, <2>4, HolderStep
<1>8. CASE SweepSynthesizes
  <2>1. SynthTypeOK'
    <3>1. pending' \in BOOLEAN
      BY <1>2, <1>8, Zenon DEF SweepSynthesizes, SynthTypeOK
    <3> QED
      BY <1>1, <1>2, <1>3, <1>8, <3>1 DEF SweepSynthesizes, SynthTypeOK
  <2>2. StagesAgree' /\ DebtIsKnown'
    BY <1>2, <1>8
    DEF SweepSynthesizes, StagesAgree, DebtIsKnown, Debt, Working, Stage, Runs
  <2> QED
    BY <1>1, <2>1, <2>2, HolderStep
<1>9. CASE SweepReconciles
  <2>1. SynthTypeOK'
    <3>1. dirty' \in BOOLEAN
      BY <1>2, <1>9, Zenon DEF SweepReconciles, SynthTypeOK
    <3>2. edges' \in {edges, "whole"} /\ lapses' \in {{}, lapses \cup {"reconcile"}}
          /\ faults' \in 0..MaxFaults
      BY <1>2, <1>9 DEF SweepReconciles, SynthTypeOK
    <3>3. UNCHANGED <<pending, saved, changed, mode, armed, edits, open, fileLock>>
      BY <1>9 DEF SweepReconciles
    <3> QED
      BY <1>1, <1>2, <1>3, <3>1, <3>2, <3>3 DEF SynthTypeOK
  <2>2. StagesAgree' /\ DebtIsKnown'
    BY <1>2, <1>9
    DEF SweepReconciles, StagesAgree, DebtIsKnown, Debt, Working, Stage, Runs
  <2> QED
    BY <1>1, <2>1, <2>2, HolderStep
<1>10. CASE SyncDecides
  <2>1. SynthTypeOK'
    BY <1>1, <1>2, <1>3, <1>10 DEF SyncDecides, SynthTypeOK, Timer
  <2>2. StagesAgree' /\ DebtIsKnown'
    BY <1>2, <1>10
    DEF SyncDecides, StagesAgree, DebtIsKnown, Debt, Working, Stage, Runs
  <2> QED
    BY <1>1, <2>1, <2>2, HolderStep
<1> QED
  BY <1>4, <1>5, <1>6, <1>7, <1>8, <1>9, <1>10 DEF SyncSteps

\* The steps of refreshSynthesis(), by any task.
LEMMA RefreshKeeps ==
    ASSUME DebtInv, NEW t \in Task, Refreshes(t)
    PROVE  DebtInv'
<1>1. Runs(t, at) /\ at' \in Stage \ {"out"} /\ open /\ at \in Working
      /\ UNCHANGED <<open, fileLock, edits, armed, mode, changed>>
  BY DEF Refreshes, RefreshBegins, RefreshSynthesizes, RefreshReconciles,
         RefreshFails, Works, Runs, Stage, Working, bounds, memory
<1>2. MutexInv /\ SynthTypeOK /\ StagesAgree /\ DebtIsKnown
  BY DEF DebtInv, SynthInv
<1>3. locked /\ locked' /\ fileLock = "ours"
  BY <1>1, <1>2, RunsHolds DEF StagesAgree
<1>4. dirty \in BOOLEAN /\ pending \in BOOLEAN /\ saved \in BOOLEAN
      /\ lapses \subseteq {"restart", "reconcile", "delete", "sync"}
      /\ edges \in {"whole", "stale", "dropped"}
  BY <1>2 DEF SynthTypeOK
<1>5. dirty' \in BOOLEAN /\ pending' \in BOOLEAN /\ saved' \in BOOLEAN
  <2>1. CASE RefreshBegins(t)
    BY <1>4, <2>1, Zenon DEF RefreshBegins
  <2>2. CASE RefreshSynthesizes(t)
    BY <1>4, <2>2, Zenon DEF RefreshSynthesizes, memory
  <2>3. CASE RefreshReconciles(t)
    BY <1>4, <2>3, Zenon DEF RefreshReconciles
  <2>4. CASE RefreshFails(t)
    BY <1>4, <2>4, Zenon DEF RefreshFails
  <2> QED
    BY <2>1, <2>2, <2>3, <2>4 DEF Refreshes
<1>6. /\ edges' \in {"whole", "stale", "dropped"} /\ faults' \in 0..MaxFaults
      /\ lapses' \subseteq {"restart", "reconcile", "delete", "sync"}
  <2>1. faults \in 0..MaxFaults /\ (Fault => faults' \in 0..MaxFaults)
    BY <1>2 DEF SynthTypeOK, Fault
  <2> QED
    BY <1>4, <2>1
    DEF Refreshes, RefreshBegins, RefreshSynthesizes, RefreshReconciles,
        RefreshFails, bounds
<1>7. SynthTypeOK'
  BY <1>1, <1>2, <1>3, <1>5, <1>6 DEF SynthTypeOK
<1>8. CASE RefreshBegins(t)
  <2>1. CASE ~dirty /\ ~pending
    <3>1. at = "refresh" /\ at' = "end" /\ UNCHANGED <<dirty, saved, pending>>
          /\ edges' = edges /\ lapses' = lapses
      BY <1>8, <2>1 DEF RefreshBegins, Works, Runs
    <3>2. StagesAgree' /\ DebtIsKnown'
      BY <1>1, <1>2, <2>1, <3>1 DEF StagesAgree, DebtIsKnown, Debt, Working
    <3> QED
      BY <1>1, <1>7, <3>2, HolderStep
  <2>2. CASE ~(~dirty /\ ~pending)
    <3>1. at' = "synthesize" /\ pending' = TRUE
      BY <1>8, <2>2 DEF RefreshBegins
    <3>2. pending'
      BY <3>1, Zenon
    <3>3. StagesAgree' /\ DebtIsKnown'
      BY <1>1, <1>3, <3>1, <3>2 DEF StagesAgree, DebtIsKnown
    <3> QED
      BY <1>1, <1>7, <3>3, HolderStep
  <2> QED
    BY <2>1, <2>2
<1>9. CASE RefreshSynthesizes(t)
  <2>1. CASE at' = "reconcile"
    <3>1. StagesAgree' /\ DebtIsKnown'
      BY <1>1, <1>3, <2>1 DEF StagesAgree, DebtIsKnown
    <3> QED
      BY <1>1, <1>7, <3>1, HolderStep
  <2>2. CASE at' = "failed" /\ UNCHANGED pending
    <3>1. pending /\ pending'
      BY <1>2, <1>9, <2>2 DEF RefreshSynthesizes, StagesAgree, Works, Runs
    <3>2. StagesAgree' /\ DebtIsKnown'
      BY <1>1, <1>3, <2>2, <3>1 DEF StagesAgree, DebtIsKnown
    <3> QED
      BY <1>1, <1>7, <3>2, HolderStep
  <2> QED
    BY <1>9, <2>1, <2>2 DEF RefreshSynthesizes
<1>10. CASE RefreshReconciles(t)
  <2>1. StagesAgree' /\ DebtIsKnown'
    BY <1>1, <1>3, <1>10
    DEF RefreshReconciles, StagesAgree, DebtIsKnown, Debt, Working
  <2> QED
    BY <1>1, <1>7, <2>1, HolderStep
<1>11. CASE RefreshFails(t)
  <2>1. at = "failed" /\ pending' = pending
    BY <1>11 DEF RefreshFails, Works, Runs
  <2>2. at' \in {"end", "thrown"}
        /\ (at' = "end" => lapses' = lapses)
        /\ (at' = "thrown" => "delete" \in lapses')
    BY <1>11 DEF RefreshFails
  <2>3. StagesAgree'
    BY <2>2 DEF StagesAgree, Working
  <2>4. DebtIsKnown'
    BY <1>2, <2>1, <2>2 DEF DebtIsKnown, StagesAgree
  <2> QED
    BY <1>1, <1>7, <2>3, <2>4, HolderStep
<1> QED
  BY <1>8, <1>9, <1>10, <1>11 DEF Refreshes

\* The first step of a timer's task, and a task that meets a closed database.
LEMMA TimerTaskKeeps ==
    ASSUME DebtInv,
           \/ DebouncedBegins \/ DeferredBegins
           \/ \E t \in Task : TaskMeetsClosed(t)
    PROVE  DebtInv'
<1> USE DEF db, memory, bounds
<1>1. PICK t \in Task : Runs(t, at)
  BY DEF DebouncedBegins, DeferredBegins, TaskMeetsClosed, Runs
<1>2. MutexInv /\ SynthTypeOK /\ StagesAgree /\ DebtIsKnown
  BY DEF DebtInv, SynthInv
<1>3. /\ at' \in {"end", "refresh"} /\ fileLock' \in {fileLock, "ours"}
      /\ (at' = "refresh" => fileLock' = "ours" /\ at = "begin")
      /\ (at = "begin" \/ ~open)
      /\ UNCHANGED <<edges, pending, dirty, saved, changed, mode, open, edits,
                     faults, lapses>>
  BY DEF DebouncedBegins, DeferredBegins, TaskMeetsClosed, Runs
<1>4. armed' \subseteq Timer /\ (~open => "deferred" \notin armed')
  BY <1>2
  DEF DebouncedBegins, DeferredBegins, TaskMeetsClosed, RetryLater, SynthTypeOK,
      Timer
<1>5. locked /\ locked'
  BY <1>1, <1>2, RunsHolds
<1>6. SynthTypeOK'
  BY <1>2, <1>3, <1>4, <1>5 DEF SynthTypeOK, Stage
<1>7. StagesAgree' /\ DebtIsKnown'
  BY <1>2, <1>3 DEF StagesAgree, DebtIsKnown, Debt, Working
<1> QED
  BY <1>1, <1>6, <1>7, HolderStep

-----------------------------------------------------------------------------
(* Ends: of a task, of the instance and of the process.                    *)

\* A task gives the mutex and the file lock back.
LEMMA TaskEndsKeeps ==
    ASSUME DebtInv, NEW t \in Task, TaskEnds(t)
    PROVE  DebtInv'
<1>1. MutexInv /\ SynthTypeOK /\ StagesAgree /\ DebtIsKnown
  BY DEF DebtInv, SynthInv
<1>2. MutexInv' /\ locked' = FALSE
  BY <1>1, ReleaseKeeps DEF TaskEnds, Release
<1>3. /\ at \in {"end", "thrown"} /\ at' = "out" /\ saved' = FALSE
      /\ fileLock' \in {"free", "other"} \cup LeftBehind
      /\ fileLock' = "left" => fileLock = "left"
      /\ UNCHANGED <<edges, pending, dirty, open, edits, faults, lapses>>
  BY <1>1 DEF TaskEnds, Unlocks, SynthTypeOK, LeftBehind, db, bounds
<1>4. armed' \subseteq Timer /\ (~open => "deferred" \notin armed')
  BY <1>1 DEF TaskEnds, RetryLater, SynthTypeOK, Timer
<1>5. mode' \in {"inline", "defer", "complete"}
  BY <1>1 DEF TaskEnds, SynthTypeOK
<1>6. changed' \in BOOLEAN /\ saved' \in BOOLEAN
  BY <1>1, Zenon DEF TaskEnds, SynthTypeOK
<1>7. ~locked'
  BY <1>2, Zenon
<1>8. SynthTypeOK'
  BY <1>1, <1>3, <1>4, <1>5, <1>6, <1>7 DEF SynthTypeOK, Stage
<1>9. LockIsReturned'
  BY <1>3 DEF LockIsReturned, LeftBehind
<1>10. StagesAgree' /\ DebtIsKnown'
  BY <1>1, <1>3 DEF StagesAgree, DebtIsKnown, Debt, Working
<1> QED
  BY <1>2, <1>8, <1>9, <1>10 DEF DebtInv, SynthInv

\* The process is gone: nothing of it is left but what the database has.
LEMMA GoneKeeps ==
    ASSUME DebtInv, Gone, faults' \in 0..MaxFaults
    PROVE  DebtInv'
<1>1. MutexInv /\ SynthTypeOK
  BY DEF DebtInv, SynthInv
<1>2. MutexInv' /\ locked' = FALSE /\ open' = FALSE
  BY <1>1, MutexReset DEF Gone
<1>3. /\ at' = "out" /\ armed' = {} /\ fileLock' \in {"free", "other"}
      /\ lapses' \subseteq {"restart", "reconcile", "delete", "sync"}
      /\ mode' = "inline" /\ UNCHANGED <<edges, pending, edits>>
  BY <1>1 DEF Gone, SynthTypeOK, db
<1>4. /\ dirty' \in BOOLEAN /\ saved' \in BOOLEAN /\ changed' \in BOOLEAN
      /\ open' \in BOOLEAN /\ ~open' /\ ~locked'
  BY <1>2, Zenon DEF Gone
<1>5. SynthTypeOK'
  BY <1>1, <1>3, <1>4 DEF SynthTypeOK, Stage
<1>6. LockIsReturned' /\ StagesAgree' /\ DebtIsKnown'
  BY <1>3, <1>4 DEF LockIsReturned, StagesAgree, DebtIsKnown
<1> QED
  BY <1>2, <1>5, <1>6 DEF DebtInv, SynthInv

\* close(), a new instance, and the other process's lock.
LEMMA InstanceKeeps ==
    ASSUME DebtInv, Close \/ Reopens \/ OtherLocks \/ OtherUnlocks
    PROVE  DebtInv'
<1> USE DEF db, memory, bounds
<1>1. MutexInv /\ SynthTypeOK /\ LockIsReturned /\ StagesAgree /\ DebtIsKnown
  BY DEF DebtInv, SynthInv
<1>2. MutexInv' /\ pc' = pc /\ locked' = locked
  BY <1>1, MutexUnchanged DEF Close, Reopens, OtherLocks, OtherUnlocks, mutex
<1>3. CASE Close
  <2>1. /\ armed' = {} /\ fileLock' \in {"free", "other", "lost"}
        /\ UNCHANGED <<edges, pending, dirty, saved, changed, mode, at, edits,
                       lapses>>
        /\ faults' \in 0..MaxFaults
    BY <1>1, <1>3 DEF Close, Fault, SynthTypeOK, LeftBehind
  <2>2. open' \in BOOLEAN /\ ~open'
    BY <1>3, Zenon DEF Close
  <2>3. SynthTypeOK'
    BY <1>1, <1>2, <2>1, <2>2 DEF SynthTypeOK, LeftBehind
  <2>4. LockIsReturned' /\ StagesAgree' /\ DebtIsKnown'
    BY <1>1, <2>1, <2>2 DEF LockIsReturned, StagesAgree, DebtIsKnown
  <2> QED
    BY <1>2, <2>3, <2>4 DEF DebtInv, SynthInv
<1>4. CASE Reopens
  <2>1. at = "out"
    BY <1>1, <1>4 DEF Reopens, MutexInv, LockedIsHeld, SynthTypeOK
  <2>2. /\ armed' = {}
        /\ lapses' = (IF Debt /\ ~pending THEN lapses \cup {"restart"} ELSE lapses)
        /\ UNCHANGED <<edges, pending, changed, mode, at, edits, faults>>
        /\ fileLock' = fileLock \/ fileLock' = "free"
    BY <1>4 DEF Reopens
  <2>3. dirty' \in BOOLEAN /\ saved' \in BOOLEAN /\ open' \in BOOLEAN /\ open'
    BY <1>4, Zenon DEF Reopens
  <2>4. SynthTypeOK'
    BY <1>1, <1>2, <2>2, <2>3 DEF SynthTypeOK, LeftBehind
  <2>5. LockIsReturned' /\ StagesAgree' /\ DebtIsKnown'
    BY <1>1, <1>2, <2>1, <2>2
    DEF LockIsReturned, StagesAgree, DebtIsKnown, Debt, Working
  <2> QED
    BY <1>2, <2>4, <2>5 DEF DebtInv, SynthInv
<1>5. CASE OtherLocks \/ OtherUnlocks
  <2>1. /\ UNCHANGED <<edges, pending, dirty, saved, changed, mode, armed, open,
                       at, edits, lapses>>
        /\ fileLock # "ours" /\ fileLock' \in {"free", "other"}
        /\ faults' \in 0..MaxFaults
    BY <1>1, <1>5 DEF OtherLocks, OtherUnlocks, Fault, SynthTypeOK
  <2>2. SynthTypeOK'
    BY <1>1, <1>2, <2>1 DEF SynthTypeOK
  <2>3. LockIsReturned' /\ StagesAgree' /\ DebtIsKnown'
    BY <1>1, <2>1 DEF LockIsReturned, StagesAgree, DebtIsKnown, Debt
  <2> QED
    BY <1>2, <2>2, <2>3 DEF DebtInv, SynthInv
<1> QED
  BY <1>3, <1>4, <1>5

-----------------------------------------------------------------------------

\* Every step keeps the invariant.
LEMMA DebtStep == DebtInv /\ [SynthNext]_svars => DebtInv'
<1> SUFFICES ASSUME DebtInv, [SynthNext]_svars PROVE DebtInv'
  OBVIOUS
<1>1. CASE SyncSteps
  BY <1>1, SyncKeeps
<1>2. CASE DebouncedBegins \/ DeferredBegins \/ \E t \in Task : TaskMeetsClosed(t)
  BY <1>2, TimerTaskKeeps
<1>3. CASE Dies \/ Killed
  <2>1. Gone /\ faults' \in 0..MaxFaults
    BY <1>3 DEF Dies, Killed, Fault, DebtInv, SynthInv, SynthTypeOK
  <2> QED
    BY <2>1, GoneKeeps
<1>4. ASSUME NEW t \in Task, Refreshes(t) \/ TaskEnds(t) PROVE DebtInv'
  BY <1>4, RefreshKeeps, TaskEndsKeeps
<1>5. CASE Close \/ Reopens \/ OtherLocks \/ OtherUnlocks
  BY <1>5, InstanceKeeps
<1>6. CASE \/ Calls \/ \E t \in Task : Resumes(t)
           \/ \E t \in Timer : TimerFires(t)
  BY <1>6, EnterStep
<1>7. CASE UNCHANGED svars
  <2>1. MutexInv'
    BY <1>7, MutexUnchanged DEF svars, DebtInv
  <2>2. SynthInv' /\ DebtIsKnown'
    BY <1>7
    DEF svars, mutex, db, memory, bounds, DebtInv, SynthInv, SynthTypeOK,
        LockIsReturned, StagesAgree, DebtIsKnown, Debt
  <2> QED
    BY <2>1, <2>2 DEF DebtInv
<1> QED
  BY <1>1, <1>2, <1>3, <1>4, <1>5, <1>6, <1>7 DEF SynthNext, Runner

\* Nothing runs and nothing is owed.
LEMMA DebtInit == SynthInit => DebtInv
<1> SUFFICES ASSUME SynthInit PROVE DebtInv
  OBVIOUS
<1>1. MutexInv
  BY MutexInitially DEF SynthInit
<1>2. ~locked /\ locked \in BOOLEAN
  BY Zenon DEF SynthInit, Init
<1>3. /\ dirty \in BOOLEAN /\ pending \in BOOLEAN /\ saved \in BOOLEAN
      /\ open \in BOOLEAN /\ changed \in BOOLEAN
  BY Zenon DEF SynthInit
<1>4. SynthTypeOK
  BY <1>2, <1>3 DEF SynthInit, SynthTypeOK, Stage
<1>5. LockIsReturned /\ StagesAgree /\ DebtIsKnown
  BY DEF SynthInit, LockIsReturned, StagesAgree, DebtIsKnown, Debt, Working
<1> QED
  BY <1>1, <1>4, <1>5 DEF DebtInv, SynthInv

\* The mutex serialises the sync and the two refreshes, through closing,
\* killing and reopening.
THEOREM MutexUnderTasks == SynthSpec => []MutexInv
<1>1. DebtInv => MutexInv
  BY DEF DebtInv
<1> QED
  BY <1>1, DebtInit, DebtStep, PTL DEF SynthSpec

\* The file lock does not outlive its task, unless that is a sync that throws
\* before its try; and a task at work on an open database has it.
THEOREM SynthInvariant == SynthSpec => []SynthInv
<1>1. DebtInv => SynthInv
  BY DEF DebtInv
<1> QED
  BY <1>1, DebtInit, DebtStep, PTL DEF SynthSpec

\* An instance knows of edges that are not what a fresh index would hold.
THEOREM DebtIsNotForgotten == SynthSpec => []DebtIsKnown
<1>1. DebtInv => DebtIsKnown
  BY DEF DebtInv
<1> QED
  BY <1>1, DebtInit, DebtStep, PTL DEF SynthSpec

\* Synthesized edges are written under the file lock only, also while close()
\* gives the lock back under a task that still runs.
THEOREM EdgesWrittenUnderLock == SynthSpec => WritesUnderLock
<1>1. DebtInv /\ [SynthNext]_svars => [edges' # edges => fileLock = "ours"]_svars
  <2> SUFFICES ASSUME DebtInv, SynthNext, edges' # edges PROVE fileLock = "ours"
    BY DEF svars, db
  <2>1. CASE \/ SyncStores \/ SweepSynthesizes \/ SweepReconciles
             \/ \E t \in Task : RefreshReconciles(t) \/ RefreshFails(t)
    BY <2>1
    DEF SyncStores, SweepSynthesizes, SweepReconciles, RefreshReconciles,
        RefreshFails, Works, Runs, DebtInv, SynthInv, StagesAgree, Working, Stage
  <2>2. CASE \/ SyncBegins \/ SyncThrows \/ SyncSweeps \/ SyncDecides
             \/ DebouncedBegins \/ DeferredBegins \/ Dies \/ Killed \/ Calls
             \/ Close \/ Reopens \/ OtherLocks \/ OtherUnlocks
             \/ \E t \in Timer : TimerFires(t)
    BY <2>2
    DEF SyncBegins, SyncThrows, SyncSweeps, SyncDecides, DebouncedBegins,
        DeferredBegins, Dies, Killed, Gone, Calls, SyncCalled, Close, Reopens,
        OtherLocks, OtherUnlocks, TimerFires, db
  <2>3. CASE \E t \in Task : \/ RefreshBegins(t) \/ RefreshSynthesizes(t)
                            \/ TaskEnds(t) \/ TaskMeetsClosed(t) \/ Resumes(t)
    BY <2>3
    DEF RefreshBegins, RefreshSynthesizes, TaskEnds, TaskMeetsClosed, Resumes, db
  <2> QED
    BY <2>1, <2>2, <2>3 DEF SynthNext, Runner, SyncSteps, Refreshes
<1> QED
  BY <1>1, DebtInit, DebtStep, PTL DEF SynthSpec, WritesUnderLock
=============================================================================
