----------------------------- MODULE WriterLock ------------------------------
(***************************************************************************)
(* src/src/mcp/writer-lock.ts: writer.pid, the record of the one process   *)
(* that keeps a project's index in step with its files.  Every comparison  *)
(* and change of the record is made under an operating-system lock, so it  *)
(* is one step here; a process that does not get that lock within its wait *)
(* leaves a timer behind (release, readiness) or reports the record as     *)
(* taken.  The actions are the steps a process takes on the record; the    *)
(* processes that take them are in ProjectLifecycle.                       *)
(***************************************************************************)
EXTENDS Naturals

CONSTANTS
    Proc,       \* processes, by PID; a PID is not used twice
    None,
    MaxFaults   \* bound: contention, failures and deaths

ASSUME FaultsAssumption == MaxFaults \in Nat

VARIABLES
    slot,           \* the record in writer.pid, or None
    releaseDue,     \* pendingReleases has a timer of p
    readyDue,       \* the record pendingReadiness is to stamp, or None
    kept,           \* why p has the record without a use for it, or "no"
    life,           \* "new", "up" or "dead"
    faults

lockVars == <<slot, releaseDue, readyDue, kept>>

\* daemon: whether mode is 'daemon'; era: startedAt, which tells the records of
\* a process apart.
Record == [pid : Proc, daemon : BOOLEAN, era : 0..1, ready : BOOLEAN]

\* A claim that is made before anything is opened; a release that failed.
Reason == {"claim", "failed"}

ASSUME NoneAssumption == None \notin Proc \cup Record

LockTypeOK ==
    /\ slot \in Record \cup {None}
    /\ releaseDue \in [Proc -> BOOLEAN]
    /\ readyDue \in [Proc -> {0, 1, None}]
    /\ kept \in [Proc -> Reason \cup {"no"}]
    /\ life \in [Proc -> {"new", "up", "dead"}]
    /\ faults \in 0..MaxFaults

LockInit ==
    /\ slot = None /\ releaseDue = [p \in Proc |-> FALSE]
    /\ readyDue = [p \in Proc |-> None] /\ kept = [p \in Proc |-> "no"]
    /\ life = [p \in Proc |-> "new"] /\ faults = 0

\* Something goes wrong; here, mostly, that the mutation lock is not to be had.
Fault == faults < MaxFaults /\ faults' = faults + 1
Fine  == UNCHANGED faults

\* isProcessAlive
Alive(p) == life[p] = "up"

HasSlot(p) == slot # None /\ slot.pid = p

-----------------------------------------------------------------------------
(* tryAcquireWriterLock(): one of the next three.                          *)

\* The slot is free, or its record is of a dead process and cleared first.
\* The new record is not one that a timer still wants to stamp.
AcquireFree(p, daemon, why) ==
    /\ slot # None => ~Alive(slot.pid)
    /\ slot' = [pid |-> p, daemon |-> daemon,
                era |-> IF readyDue[p] = 0 THEN 1 ELSE 0, ready |-> FALSE]
    /\ releaseDue' = [releaseDue EXCEPT ![p] = FALSE]
    /\ readyDue' = [readyDue EXCEPT ![p] = None]
    /\ kept' = [kept EXCEPT ![p] = why]
    /\ Fine

\* A reuse that lets an earlier release run its course.
AcquireOwnDue(p) ==
    /\ HasSlot(p) /\ Alive(p)
    /\ kept' = [kept EXCEPT ![p] = "no"]
    /\ UNCHANGED <<slot, releaseDue, readyDue>> /\ Fine

\* The record is this process's own: it is used again as it is, and not released.
AcquireOwn(p) ==
    /\ HasSlot(p) /\ Alive(p)
    /\ releaseDue' = [releaseDue EXCEPT ![p] = FALSE]
    /\ kept' = [kept EXCEPT ![p] = "no"]
    /\ UNCHANGED <<slot, readyDue>> /\ Fine

\* Another live process has it, or the mutation lock was not to be had.
AcquireTaken(p) ==
    /\ \/ slot # None /\ slot.pid # p /\ Alive(slot.pid) /\ Fine
       \/ Fault
    /\ UNCHANGED lockVars

-----------------------------------------------------------------------------
(* markWriterReady() and releaseWriterLock(), and their timers.            *)

\* The record of generation e gets its stamp, if it is still there.
MarkWriterReady(p, e) ==
    \/ /\ slot' = IF HasSlot(p) /\ slot.era = e THEN [slot EXCEPT !.ready = TRUE]
                                               ELSE slot
       /\ readyDue' = [readyDue EXCEPT ![p] = None]
       /\ UNCHANGED <<releaseDue, kept>> /\ Fine
    \/ /\ slot # None /\ Fault
       /\ readyDue' = [readyDue EXCEPT ![p] = IF @ = None THEN e ELSE @]
       /\ UNCHANGED <<slot, releaseDue, kept>>

\* A release that gives up when the mutation lock is not to be had.
ReleaseWriterLockOnce(p) ==
    /\ readyDue' = [readyDue EXCEPT ![p] = None]
    /\ releaseDue' = [releaseDue EXCEPT ![p] = FALSE]
    /\ \/ /\ slot' = IF HasSlot(p) THEN None ELSE slot
          /\ kept' = [kept EXCEPT ![p] = "no"] /\ Fine
       \/ UNCHANGED <<slot, kept>> /\ Fault

\* The record goes if it is p's; the mutation lock is not to be had, and a timer
\* tries again; or the file cannot be read or removed, and nothing does.
ReleaseWriterLock(p) ==
    /\ readyDue' = [readyDue EXCEPT ![p] = None]
    /\ \/ /\ slot' = IF HasSlot(p) THEN None ELSE slot
          /\ releaseDue' = [releaseDue EXCEPT ![p] = FALSE]
          /\ kept' = [kept EXCEPT ![p] = "no"] /\ Fine
       \/ /\ releaseDue' = [releaseDue EXCEPT ![p] = TRUE]
          /\ UNCHANGED <<slot, kept>> /\ Fault
       \/ /\ HasSlot(p) /\ Fault
          /\ releaseDue' = [releaseDue EXCEPT ![p] = FALSE]
          /\ kept' = [kept EXCEPT ![p] = "failed"]
          /\ UNCHANGED slot

ReadyTimer(p)   == readyDue[p] # None /\ MarkWriterReady(p, readyDue[p])
ReleaseTimer(p) == releaseDue[p] /\ ReleaseWriterLock(p)
=============================================================================
