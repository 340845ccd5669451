----------------------------- MODULE IndexMutex ------------------------------
(***************************************************************************)
(* src/src/utils.ts, class Mutex: the in-process lock that serialises the  *)
(* tasks of one CodeGraph instance (indexAll, sync, put-off synthesis).    *)
(* A released lock wakes the first waiter but is not handed to it: until   *)
(* the waiter's continuation runs, a newcomer may take the lock, and the   *)
(* waiter goes to the back of the queue.                                   *)
(***************************************************************************)
EXTENDS Naturals, Sequences

CONSTANTS
    Task,       \* calls of withLock, by caller
    MaxCalls    \* bound: calls each caller makes

ASSUME CallsAssumption == MaxCalls \in Nat

VARIABLES
    locked,     \* locked
    waitQueue,  \* waitQueue
    pc,         \* pc[t]: where t is in acquire
    left        \* left[t]: calls t still makes

vars == <<locked, waitQueue, pc, left>>

State == {"idle", "waiting", "woken", "holding"}

TypeOK ==
    /\ locked \in BOOLEAN
    /\ waitQueue \in Seq(Task)
    /\ pc \in [Task -> State]
    /\ left \in [Task -> Nat]

Init ==
    /\ locked = FALSE /\ waitQueue = << >>
    /\ pc = [t \in Task |-> "idle"]
    /\ left = [t \in Task |-> MaxCalls]

\* The loop's test that forgets to look again.
TryOnce(t) ==
    IF locked /\ pc[t] = "idle"
    THEN /\ waitQueue' = Append(waitQueue, t)
         /\ pc' = [pc EXCEPT ![t] = "waiting"]
         /\ UNCHANGED locked
    ELSE /\ locked' = TRUE
         /\ pc' = [pc EXCEPT ![t] = "holding"]
         /\ UNCHANGED waitQueue

\* One turn of acquire()'s loop.
Try(t) ==
    IF locked
    THEN /\ waitQueue' = Append(waitQueue, t)
         /\ pc' = [pc EXCEPT ![t] = "waiting"]
         /\ UNCHANGED locked
    ELSE /\ locked' = TRUE
         /\ pc' = [pc EXCEPT ![t] = "holding"]
         /\ UNCHANGED waitQueue

Acquire(t) ==
    /\ pc[t] = "idle" /\ left[t] > 0
    /\ left' = [left EXCEPT ![t] = @ - 1]
    /\ Try(t)

\* The continuation of a waiter that was woken.
Resume(t) ==
    /\ pc[t] = "woken"
    /\ Try(t)
    /\ UNCHANGED left

\* withLock's finally: the lock is free and the first waiter is woken.
Release(t) ==
    /\ pc[t] = "holding"
    /\ locked' = FALSE
    /\ IF waitQueue = << >>
       THEN /\ pc' = [pc EXCEPT ![t] = "idle"]
            /\ UNCHANGED waitQueue
       ELSE /\ pc' = [pc EXCEPT ![t] = "idle", ![Head(waitQueue)] = "woken"]
            /\ waitQueue' = Tail(waitQueue)
    /\ UNCHANGED left

Next == \E t \in Task : Acquire(t) \/ Resume(t) \/ Release(t)

\* Continuations run and the work under the lock ends; nobody has to call.
Spec ==
    /\ Init /\ [][Next]_vars
    /\ \A t \in Task : WF_vars(Resume(t)) /\ WF_vars(Release(t))

-----------------------------------------------------------------------------
(* Properties.                                                             *)

\* At most one task is past acquire (indexing never runs beside a sync).
OneHolder ==
    \A t, u \in Task : pc[t] = "holding" /\ pc[u] = "holding" => t = u

\* The flag is set exactly while a task holds the lock.
LockedIsHeld == locked <=> \E t \in Task : pc[t] = "holding"

\* The queue holds the tasks that wait, each once.
QueueIsWaiters ==
    /\ \A i \in DOMAIN waitQueue : pc[waitQueue[i]] = "waiting"
    /\ \A i, k \in DOMAIN waitQueue : waitQueue[i] = waitQueue[k] => i = k
    /\ \A t \in Task : pc[t] = "waiting" =>
          \E i \in DOMAIN waitQueue : waitQueue[i] = t

\* No wake-up is lost: while a task waits, the lock is held or a woken task
\* is about to take it (and its release wakes the next).
WaitersAreWoken ==
    waitQueue # << >> =>
        \/ locked
        \/ \E t \in Task : pc[t] = "woken"

\* The inductive invariant: the flag, the queue and the callers agree, which
\* no single part of it keeps by itself.
MutexInv ==
    /\ TypeOK
    /\ OneHolder /\ LockedIsHeld /\ QueueIsWaiters /\ WaitersAreWoken
=============================================================================
