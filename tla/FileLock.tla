------------------------------ MODULE FileLock ------------------------------
(***************************************************************************)
(* The cross-process lock of src/src/utils.ts (class FileLock), which      *)
(* guards every write to the CodeGraph database.                           *)
(*                                                                         *)
(* A lock is a file holding the PID of its owner.  A file whose PID is     *)
(* dead (or that names no process) is stale, and is replaced only by a     *)
(* process that holds the break lock of that file, "<lock>.break", which   *)
(* is itself a FileLock: level 0 is the lock, level l + 1 the break lock   *)
(* of level l.  tryAcquire(depth) works on level depth; while a call at    *)
(* depth d runs, the calls at depths below d wait inside it, so one        *)
(* program counter and one depth describe the whole call stack.            *)
(*                                                                         *)
(* Every operation on a lock file and every probe of a PID is a step of    *)
(* its own: processes interleave between any two of them, and a process    *)
(* may die between any two of them.  In particular readHolder first reads  *)
(* the file and then judges what it read, by kill(pid, 0) or, if it was    *)
(* empty, by the age of the file that is there by then.                    *)
(***************************************************************************)
EXTENDS Naturals

CONSTANTS
    Proc,            \* the PIDs
    MaxBreakDepth,   \* MAX_LOCK_BREAK_DEPTH
    LinksFail,       \* may linking the private file fail?
    MaxFaults,       \* bound: file operations that fail for reasons of their
                     \* own, and dead PIDs given to a new process
    SlowProbe        \* may a breaker be held up between reading a lock and
                     \* judging it for so long that the lock changes hands?

Free  == "free"      \* no such file
Empty == "empty"     \* created by the fallback, PID not yet written
Junk  == "junk"      \* empty past the grace: its creator has died

ASSUME ProcAssumption  == {Free, Empty, Junk} \cap Proc = {}
ASSUME DepthAssumption == MaxBreakDepth \in Nat
ASSUME BoundAssumption == MaxFaults \in Nat
ASSUME FlagAssumption  == {LinksFail, SlowProbe} \subseteq BOOLEAN

Level == 0 .. MaxBreakDepth

VARIABLES
    file,     \* file[l]: content of the level-l lock file
    alive,    \* the PIDs process.kill(pid, 0) finds
    pc,       \* pc[p]: the next file operation of p
    depth,    \* depth[p]: depth of p's innermost tryAcquire
    held,     \* held[p]: levels whose FileLock object of p has held = true
    seen,     \* seen[p]: what a running readHolder of p read (content)
    faults    \* faults still to come

vars == <<file, alive, pc, depth, held, seen, faults>>

Label == {"idle", "create", "read", "judge", "create2", "read2", "judge2",
          "recheck", "rejudge", "unlink", "create3", "write", "critical",
          "relRead", "relUnlink", "dead"}

TypeOK ==
    /\ file \in [Level -> {Free, Empty, Junk} \cup Proc]
    /\ alive \subseteq Proc
    /\ pc \in [Proc -> Label]
    /\ depth \in [Proc -> Level]
    /\ held \in [Proc -> SUBSET Level]
    /\ seen \in [Proc -> {Free, Empty} \cup Proc]
    /\ faults \in 0..MaxFaults

Init ==
    /\ file = [l \in Level |-> Free]
    /\ alive = Proc
    /\ pc = [p \in Proc |-> "idle"]
    /\ depth = [p \in Proc |-> 0]
    /\ held = [p \in Proc |-> {}]
    /\ seen = [p \in Proc |-> Free]
    /\ faults = MaxFaults

-----------------------------------------------------------------------------
(* readHolder, after its read: what p makes of seen[p] now.                *)

At(p, label) == p \in alive /\ pc[p] = label

Goto(p, label) == pc' = [pc EXCEPT ![p] = label]

Fault == faults > 0 /\ faults' = faults - 1

\* A file with a PID in it by now was written after the read that found none,
\* so it is old only if the reader was held up past the grace.
JudgesStale(p) ==
    \/ seen[p] \in Proc \ alive
    \/ /\ seen[p] = Empty
       /\ file[depth[p]] \in {Junk} \cup (IF SlowProbe THEN Proc ELSE {})

JudgesHeld(p) ==
    \/ seen[p] \in alive
    \/ seen[p] = Empty /\ file[depth[p]] \in {Empty} \cup Proc

\* statSync fails, for whatever reason.
JudgesFree(p) ==
    /\ seen[p] = Empty
    /\ (file[depth[p]] = Free /\ UNCHANGED faults) \/ Fault

-----------------------------------------------------------------------------
(* Control: how one tryAcquire ends and where its caller goes on.          *)

\* tryAcquire at depth[p] returns, holding no break lock of its own.  A
\* refusal makes every waiting caller return it; a success lets the caller
\* one level up go on as the breaker of its lock, or ends acquire().
Return(p, ok) ==
    \/ /\ ~ok
       /\ Goto(p, "idle")
       /\ depth' = [depth EXCEPT ![p] = 0]
    \/ /\ ok /\ depth[p] = 0
       /\ Goto(p, "critical")
       /\ UNCHANGED depth
    \/ /\ ok /\ depth[p] > 0
       /\ Goto(p, "recheck")
       /\ depth' = [depth EXCEPT ![p] = @ - 1]

\* The same, through the finally block when a break lock is held.
Finish(p, ok) ==
    \/ /\ depth[p] + 1 \in held[p]
       /\ Goto(p, "relRead")
       /\ UNCHANGED depth
    \/ depth[p] + 1 \notin held[p] /\ Return(p, ok)

\* taken(): the lock is ours.
Taken(p) ==
    /\ held' = [held EXCEPT ![p] = @ \cup {depth[p]}]
    /\ Finish(p, TRUE)

\* The content that was read is no longer needed.
Forget(p) == seen' = [seen EXCEPT ![p] = Free]

Refused(p) == Finish(p, FALSE) /\ Forget(p) /\ UNCHANGED <<file, alive, held>>

\* On to the next file operation of the same tryAcquire.
GoOn(p, label) ==
    Goto(p, label) /\ Forget(p) /\ UNCHANGED <<file, alive, depth, held>>

-----------------------------------------------------------------------------
(* Operations.                                                             *)

Acquire(p) == At(p, "idle") /\ GoOn(p, "create") /\ UNCHANGED faults

\* create(): the private file is linked, and appears with its PID in it.
LinkInPlace(p) ==
    /\ file' = [file EXCEPT ![depth[p]] = p]
    /\ Taken(p)
    /\ UNCHANGED <<alive, seen, faults>>

\* create() when that fails: an exclusive create, the PID follows.
CreateEmpty(p) ==
    /\ LinksFail
    /\ file' = [file EXCEPT ![depth[p]] = Empty]
    /\ Goto(p, "write")
    /\ UNCHANGED <<alive, depth, held, seen, faults>>

\* The first create() of tryAcquire, and the one after a lock that was
\* released in between: on EEXIST the next step reads the holder.
Create(p, label, next) ==
    /\ At(p, label)
    /\ \/ file[depth[p]] = Free /\ (LinkInPlace(p) \/ CreateEmpty(p))
       \/ file[depth[p]] # Free /\ GoOn(p, next) /\ UNCHANGED faults
       \/ Fault /\ Refused(p)

\* The last one, under the break lock: whoever has the lock now keeps it.
CreateUnderBreak(p) ==
    /\ At(p, "create3")
    /\ \/ file[depth[p]] = Free /\ (LinkInPlace(p) \/ CreateEmpty(p))
       \/ file[depth[p]] # Free /\ Refused(p) /\ UNCHANGED faults
       \/ Fault /\ Refused(p)

WritePid(p) ==
    /\ At(p, "write")
    /\ \/ /\ file' = [file EXCEPT ![depth[p]] = p]
          /\ Taken(p)
          /\ UNCHANGED <<alive, seen, faults>>
       \/ Fault /\ Refused(p)

\* readHolder: the read.  There is nothing to judge if the file is free; if
\* it cannot be read the lock counts as held.
Read(p, label, judge, IfFree) ==
    /\ At(p, label)
    /\ \/ file[depth[p]] = Free /\ IfFree /\ UNCHANGED faults
       \/ /\ file[depth[p]] # Free
          /\ seen' = [seen EXCEPT ![p] =
                         IF file[depth[p]] = Junk THEN Empty ELSE file[depth[p]]]
          /\ Goto(p, judge)
          /\ UNCHANGED <<file, alive, depth, held, faults>>
       \/ Fault /\ Refused(p)

\* A stale lock is broken under its break lock, if a level is left for one.
BreakStale(p) ==
    /\ JudgesStale(p)
    /\ IF depth[p] >= MaxBreakDepth
       THEN Refused(p)
       ELSE /\ Goto(p, "create") /\ Forget(p)
            /\ depth' = [depth EXCEPT ![p] = @ + 1]
            /\ UNCHANGED <<file, alive, held>>
    /\ UNCHANGED faults

\* A reader that takes every file for a held lock.
JudgeAgeBlind(p) ==
    /\ At(p, "judge")
    /\ Refused(p) /\ UNCHANGED faults

\* The first readHolder: released in between, create once more.
Judge(p) ==
    /\ At(p, "judge")
    /\ \/ JudgesFree(p) /\ GoOn(p, "create2")
       \/ JudgesHeld(p) /\ Refused(p) /\ UNCHANGED faults
       \/ BreakStale(p)

\* The second: a lock released again is reported, not taken.
JudgeAgain(p) ==
    /\ At(p, "judge2")
    /\ \/ JudgesFree(p) /\ Refused(p)
       \/ JudgesHeld(p) /\ Refused(p) /\ UNCHANGED faults
       \/ BreakStale(p)

\* A breaker that trusts what it read before it held the break lock (#2979).
RejudgeTrustsFirstRead(p) ==
    /\ At(p, "rejudge")
    /\ GoOn(p, "unlink") /\ UNCHANGED faults

\* Under the break lock: what was read before may be out of date.
Rejudge(p) ==
    /\ At(p, "rejudge")
    /\ \/ JudgesFree(p) /\ GoOn(p, "create3")
       \/ JudgesHeld(p) /\ Refused(p) /\ UNCHANGED faults
       \/ JudgesStale(p) /\ GoOn(p, "unlink") /\ UNCHANGED faults

Unlink(p) ==
    /\ At(p, "unlink")
    /\ \/ file' = [file EXCEPT ![depth[p]] = Free] /\ UNCHANGED faults
       \/ Fault /\ UNCHANGED file
    /\ Goto(p, "create3")
    /\ UNCHANGED <<alive, depth, held, seen>>

Release(p) == At(p, "critical") /\ GoOn(p, "relRead") /\ UNCHANGED faults

\* The lock a release() works on: the break lock of the running tryAcquire,
\* or the lock itself.
Releasing(p) == IF depth[p] + 1 \in held[p] THEN depth[p] + 1 ELSE depth[p]

\* held = false, and on to what follows the release: the return of a
\* tryAcquire that either took its lock or was refused, or the caller.
Released(p) ==
    /\ held' = [held EXCEPT ![p] = @ \ {Releasing(p)}]
    /\ Return(p, depth[p] \in held'[p])
    /\ UNCHANGED <<alive, seen>>

ReleaseRead(p) ==
    /\ At(p, "relRead")
    /\ \/ file[Releasing(p)] = p /\ GoOn(p, "relUnlink") /\ UNCHANGED faults
       \/ file[Releasing(p)] # p /\ Released(p) /\ UNCHANGED <<file, faults>>
       \/ Fault /\ Released(p) /\ UNCHANGED file

ReleaseUnlink(p) ==
    /\ At(p, "relUnlink")
    /\ \/ file' = [file EXCEPT ![Releasing(p)] = Free] /\ UNCHANGED faults
       \/ Fault /\ UNCHANGED file
    /\ Released(p)

-----------------------------------------------------------------------------
(* Environment.                                                            *)

\* Unless probes may be slow, no process ends between a breaker's read of its
\* PID and the probe of that PID, except while its lock is still there.
Crash(p) ==
    /\ p \in alive
    /\ \/ SlowProbe
       \/ \A q \in Proc :
             pc[q] = "rejudge" /\ seen[q] = p => file[depth[q]] = p
    /\ alive' = alive \ {p}
    /\ Goto(p, "dead") /\ Forget(p)
    /\ depth' = [depth EXCEPT ![p] = 0]
    /\ held' = [held EXCEPT ![p] = {}]
    /\ UNCHANGED <<file, faults>>

\* The system hands a dead PID to a new process.
Restart(p) ==
    /\ Fault
    /\ p \notin alive
    /\ alive' = alive \cup {p}
    /\ Goto(p, "idle")
    /\ UNCHANGED <<file, depth, held, seen>>

\* EMPTY_LOCK_GRACE_MS passes.  A live creator writes its PID well before.
GraceExpires(l) ==
    /\ file[l] = Empty
    /\ \A p \in alive : ~(pc[p] = "write" /\ depth[p] = l)
    /\ file' = [file EXCEPT ![l] = Junk]
    /\ UNCHANGED <<alive, pc, depth, held, seen, faults>>

Step(p) ==
    \/ Create(p, "create", "read") \/ Create(p, "create2", "read2")
    \/ CreateUnderBreak(p) \/ WritePid(p)
    \/ Read(p, "read", "judge", GoOn(p, "create2")) \/ Judge(p)
    \/ Read(p, "read2", "judge2", Refused(p)) \/ JudgeAgain(p)
    \/ Read(p, "recheck", "rejudge", GoOn(p, "create3")) \/ Rejudge(p)
    \/ Unlink(p) \/ Release(p) \/ ReleaseRead(p) \/ ReleaseUnlink(p)

Next ==
    \/ \E p \in Proc : Acquire(p) \/ Step(p) \/ Crash(p) \/ Restart(p)
    \/ \E l \in Level : GraceExpires(l)

Spec == Init /\ [][Next]_vars

\* A live process keeps running and its callers keep asking for the lock;
\* nothing makes a process crash.
FairSpec ==
    /\ Spec
    /\ \A p \in Proc : WF_vars(Step(p)) /\ WF_vars(Acquire(p))
    /\ \A l \in Level : WF_vars(GraceExpires(l))

-----------------------------------------------------------------------------
(* Properties.                                                             *)

\* No two live processes believe they hold the same lock or break lock,
\* whatever crashes and takeovers of stale locks came before.
MutualExclusion ==
    \A p, q \in Proc : p # q => held[p] \cap held[q] = {}

\* A held lock is on disk under its holder's PID: no takeover unlinked the
\* lock of a live process, and no release() removed another process's lock.
HolderOnDisk ==
    \A p \in Proc : \A l \in held[p] : file[l] = p

\* A process about to unlink a lock as stale still has something to unlink,
\* which no live process holds or is writing its PID into.
BreaksOnlyStale ==
    \A p \in Proc : pc[p] = "unlink" =>
        /\ file[depth[p]] # Free
        /\ \A q \in Proc : /\ depth[p] \notin held[q]
                           /\ ~(pc[q] = "write" /\ depth[q] = depth[p])

\* A process that works under a break lock holds it until its finally block.
BreakerHolds ==
    \A p \in Proc : pc[p] \in {"recheck", "rejudge", "unlink", "create3"} =>
        depth[p] + 1 \in held[p]

\* What a breaker read, a dead process's PID or nothing, still stands in the
\* file when it judges it, unless a live process answers for the lock now.
ProbeIsCurrent ==
    \A p \in Proc : pc[p] = "rejudge" /\ seen[p] \in Proc \ alive =>
        file[depth[p]] = seen[p]

\* A file without its PID has one writer, which is alive.
OneWriter ==
    \A p \in Proc : pc[p] = "write" =>
        /\ file[depth[p]] = Empty
        /\ \A q \in Proc : pc[q] = "write" /\ depth[q] = depth[p] => q = p

\* A release() works on a lock its process holds.
ReleasesOwn ==
    \A p \in Proc :
        /\ pc[p] \in {"relRead", "relUnlink"} => Releasing(p) \in held[p]
        /\ pc[p] = "critical" => depth[p] = 0 /\ 0 \in held[p]

\* A dead process runs nothing and holds nothing; only its files remain.
DeadIsDone == \A p \in Proc : p \notin alive => pc[p] = "dead" /\ held[p] = {}

FilesAgree ==
    /\ DeadIsDone
    /\ HolderOnDisk
    /\ OneWriter
    /\ BreakerHolds
    /\ BreaksOnlyStale
    /\ ReleasesOwn

\* The inductive invariant behind mutual exclusion: what a lock file says, who
\* may be writing it, what a breaker read in it and who may be about to unlink
\* it never contradict.
LockInv == FilesAgree /\ ProbeIsCurrent

\* The process that holds the lock, if any does.
Owner ==
    IF \E p \in Proc : 0 \in held[p]
    THEN CHOOSE p \in Proc : 0 \in held[p]
    ELSE Free

Abstract == INSTANCE AbstractLock WITH owner <- Owner, Nobody <- Free

\* The file protocol implements a lock with one owner at a time.
ImplementsLock == Abstract!Spec

Stale(l) == file[l] = Junk \/ file[l] \in Proc \ alive

\* A break lock that nobody holds names a live process: its release failed, or
\* the PID of a dead holder was given to a new process.
Leaked == \E l \in Level \ {0} : file[l] \in {p \in alive : l \notin held[p]}

\* A stale lock does not shut the project for good: while a live process
\* keeps trying, the lock is replaced, also when processes that were replacing
\* it died with break locks or before they wrote their PID.  Excepted are a
\* stale deepest break lock, which nobody breaks, and a leaked one.
StaleIsReplaced ==
    Stale(0) ~> (~Stale(0) \/ Stale(MaxBreakDepth) \/ Leaked \/ alive = {})
=============================================================================
