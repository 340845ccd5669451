-------------------------- MODULE ProjectLifecycle ---------------------------
(***************************************************************************)
(* src/src/mcp/project-lifecycle.ts in several MCP processes that serve    *)
(* one project: each opens the graph once for all its engines and counts   *)
(* their leases; the one that gets the writer slot (WriterLock) watches    *)
(* the files and catches up, the others follow it or take over when it     *)
(* goes.  The last lease closes the graph, but not under work on it.       *)
(* What a sync does is in RebuildSync, what the watcher does in FileWatcher.*)
(***************************************************************************)
EXTENDS WriterLock

CONSTANTS
    Daemon,     \* the processes that are daemons
    MaxRefs,    \* bound: leases of a process at a time
    MaxLeases   \* bound: leases that are taken

ASSUME LifecycleAssumption ==
    Daemon \subseteq Proc /\ {MaxRefs, MaxLeases} \subseteq Nat

VARIABLES
    project,    \* project[p]: the entry that p's map has or had
    leases

vars == <<lockVars, life, faults, project, leases>>

Gate == {"none", "recover", "connect", "asking", "poll", "sync"}

Project ==
    [listed : BOOLEAN,      \* it is in the map and its graph is open
     refs : 0..MaxRefs, owner : BOOLEAN, caughtUp : BOOLEAN,
     retiring : BOOLEAN,    \* retirement
     ticking : BOOLEAN,     \* timer
     gate : Gate,           \* where the activation is that gate stands for
     seen : Record \cup {None},     \* the record that activation found, or has
     socket : Daemon \cup {None},
     syncing : BOOLEAN]     \* a sync of its watcher runs

Closed ==
    [listed |-> FALSE, refs |-> 0, owner |-> FALSE, caughtUp |-> FALSE,
     retiring |-> FALSE, ticking |-> FALSE, gate |-> "none", seen |-> None,
     socket |-> None, syncing |-> FALSE]

\* An entry that is closed; whatever still worked on it would go on.
Shut(e) ==
    [Closed EXCEPT !.gate = e.gate, !.seen = e.seen, !.socket = e.socket,
                   !.syncing = e.syncing, !.ticking = e.ticking]

TypeOK ==
    /\ LockTypeOK
    /\ project \in [Proc -> Project] /\ leases \in 0..MaxLeases

Init ==
    /\ LockInit
    /\ project = [p \in Proc |-> Closed] /\ leases = 0

\* Entry p becomes e.
Becomes(p, e) == project' = [project EXCEPT ![p] = e]

KeepLock == UNCHANGED <<lockVars, faults>>

-----------------------------------------------------------------------------
(* activate(): the writer slot is asked for; the outcome decides.          *)

Ends(e) == [e EXCEPT !.gate = "none", !.seen = None]

\* This process is the writer: it watches and syncs.  Whatever it is, a record
\* that it writes here does not say 'daemon'.
Owns(p) ==
    /\ AcquireFree(p, FALSE, "no") \/ AcquireOwn(p)
    /\ Becomes(p, [project[p] EXCEPT !.owner = TRUE, !.gate = "sync", !.seen = slot'])

\* A record that is not ready is waited for; one that has no such flag or is
\* ready is not.
Waits(e, rec) ==
    IF rec # None /\ ~rec.ready THEN [e EXCEPT !.gate = "poll", !.seen = rec]
                                ELSE Ends(e)

\* Another process is: one whose record says 'daemon' is connected to.
Follows(p) ==
    /\ AcquireTaken(p)
    /\ Becomes(p, IF slot # None /\ slot.daemon
                  THEN [project[p] EXCEPT !.gate = "connect", !.seen = slot]
                  ELSE Waits(project[p], slot))

Activate(p) == Owns(p) \/ Follows(p)

\* The same after the indexes that an interrupted load dropped are rebuilt.
Recovers(p) ==
    Becomes(p, [project[p] EXCEPT !.gate = "recover", !.seen = None]) /\ KeepLock

\* ready(): nothing is to be done for an entry that nobody uses, that has
\* caught up as the owner, or that has a session with a daemon.
Ready(p) ==
    /\ Alive(p) /\ project[p].gate = "none" /\ project[p].refs > 0
    /\ ~(project[p].owner /\ project[p].caughtUp) /\ project[p].socket = None
    /\ Activate(p) \/ Recovers(p)
    /\ UNCHANGED <<life, leases>>

\* The interval calls it; so does a tool call, at any time.
Tick(p) == project[p].ticking /\ Ready(p)

Recovered(p) ==
    /\ project[p].gate = "recover"
    /\ \/ Activate(p)
       \/ Fault /\ Becomes(p, Ends(project[p])) /\ UNCHANGED lockVars
    /\ UNCHANGED <<life, leases>>

\* connectWithHello(): a session, unless the leases are gone meanwhile; or no
\* daemon that can be talked to.
Connected(p) ==
    /\ project[p].gate = "connect"
    /\ \/ /\ Fine /\ \E d \in Daemon : Alive(d) /\
                Becomes(p, IF project[p].refs = 0 THEN Ends(project[p])
                           ELSE [project[p] EXCEPT !.gate = "asking", !.socket = d])
       \/ /\ IF \E d \in Daemon : Alive(d) THEN Fault ELSE Fine
          /\ Becomes(p, Waits(project[p], project[p].seen))
    /\ UNCHANGED <<lockVars, life, leases>>

\* daemonCatchUp(): the daemon answers behind its own gate; the session may
\* have ended, or is ended after a while, as one with itself always is.
CaughtUpThere(p) ==
    /\ project[p].gate = "asking"
    /\ \/ /\ project[p].socket # None => project[project[p].socket].gate = "none"
          /\ Fine /\ Becomes(p, Ends(project[p]))
       \/ /\ IF project[p].socket = p THEN Fine ELSE Fault
          /\ Becomes(p, [Ends(project[p]) EXCEPT !.socket = None])
    /\ UNCHANGED <<lockVars, life, leases>>

\* A look at another owner's record: it is gone or its process dead (and the
\* slot is asked for again), ready, waited for too long, or for nobody.  The
\* deadline may come at any look; a look that changes nothing is no step.
Polls(p) ==
    /\ project[p].gate = "poll"
    /\ IF slot = None \/ slot.pid # project[p].seen.pid \/ (~slot.ready /\ ~Alive(slot.pid))
       THEN Activate(p) \/ Recovers(p)
       ELSE Becomes(p, Ends(project[p])) /\ KeepLock
    /\ UNCHANGED <<life, leases>>

\* The catch-up of the owner ends, or fails and is left to the next call.
SyncEnds(p) ==
    /\ project[p].gate = "sync"
    /\ \/ /\ Becomes(p, [Ends(project[p]) EXCEPT !.caughtUp = TRUE])
          /\ MarkWriterReady(p, project[p].seen.era)
       \/ Becomes(p, Ends(project[p])) /\ Fault /\ UNCHANGED lockVars
    /\ UNCHANGED <<life, leases>>

\* The watcher of an owner syncs on its own.
WatcherSyncs(p) ==
    /\ project[p].owner /\ ~project[p].syncing
    /\ Becomes(p, [project[p] EXCEPT !.syncing = TRUE])
    /\ KeepLock /\ UNCHANGED <<life, leases>>

WatcherSyncEnds(p) ==
    /\ project[p].syncing
    /\ Becomes(p, [project[p] EXCEPT !.syncing = FALSE])
    /\ KeepLock /\ UNCHANGED <<life, leases>>

-----------------------------------------------------------------------------
(* Leases and the retirement of an entry.                                  *)

\* acquireProject(): the entry that is there, also while it retires, or a new
\* one with its graph opened.
AcquireProject(p) ==
    /\ Alive(p) /\ leases < MaxLeases /\ leases' = leases + 1
    /\ project[p].refs < MaxRefs
    /\ Becomes(p, IF project[p].listed THEN [project[p] EXCEPT !.refs = @ + 1]
                  ELSE [Closed EXCEPT !.refs = 1, !.listed = TRUE, !.ticking = TRUE])
    /\ KeepLock /\ UNCHANGED life

\* Still at work on the database: a gate, or the index mutex is taken.
Busy(e) == e.gate # "none" \/ e.syncing

\* A retirement that a new lease does not end.
FinishUnrevived(p, e) ==
    \/ (e.refs > 0 \/ Busy(e)) /\ Becomes(p, e) /\ KeepLock
    \/ /\ e.refs = 0 /\ ~Busy(e) /\ Becomes(p, Shut(e))
       /\ IF e.owner THEN ReleaseWriterLock(p) ELSE KeepLock

\* A retirement that only waits for the gate.
FinishUnderSync(p, e) ==
    \/ /\ e.refs > 0 /\ Becomes(p, [e EXCEPT !.retiring = FALSE, !.ticking = TRUE])
       /\ KeepLock
    \/ e.refs = 0 /\ e.gate # "none" /\ Becomes(p, e) /\ KeepLock
    \/ /\ e.refs = 0 /\ e.gate = "none" /\ Becomes(p, Shut(e))
       /\ IF e.owner THEN ReleaseWriterLock(p) ELSE KeepLock

\* A revived entry whose interval stays cleared.
FinishWithoutTimer(p, e) ==
    \/ /\ e.refs > 0 /\ Becomes(p, [e EXCEPT !.retiring = FALSE]) /\ KeepLock
    \/ e.refs = 0 /\ Busy(e) /\ Becomes(p, e) /\ KeepLock
    \/ /\ e.refs = 0 /\ ~Busy(e) /\ Becomes(p, Shut(e))
       /\ IF e.owner THEN ReleaseWriterLock(p) ELSE KeepLock

\* finish(): revived by a new lease, put off while there is work, or closed.
Finish(p, e) ==
    \/ /\ e.refs > 0 /\ Becomes(p, [e EXCEPT !.retiring = FALSE, !.ticking = TRUE])
       /\ KeepLock
    \/ e.refs = 0 /\ Busy(e) /\ Becomes(p, e) /\ KeepLock
    \/ /\ e.refs = 0 /\ ~Busy(e) /\ Becomes(p, Shut(e))
       /\ IF e.owner THEN ReleaseWriterLock(p) ELSE KeepLock

\* retire(), for an entry that is not retiring.  A session that comes about
\* after this is not looked for again.
Retire(p, e) ==
    Finish(p, [e EXCEPT !.retiring = TRUE, !.ticking = FALSE, !.socket = None])

\* A lease is released; with the last one the entry retires, unless it is
\* retiring already.
Release(p) ==
    /\ project[p].refs > 0
    /\ LET e == [project[p] EXCEPT !.refs = @ - 1]
       IN  IF e.refs > 0 \/ e.retiring THEN Becomes(p, e) /\ KeepLock
                                       ELSE Retire(p, e)
    /\ UNCHANGED <<life, leases>>

FinishTimer(p) ==
    /\ project[p].retiring /\ Finish(p, project[p])
    /\ UNCHANGED <<life, leases>>

-----------------------------------------------------------------------------
(* Processes.                                                              *)

\* The slot is taken before anything is opened, and had whether or not the
\* project can be opened; a process that does not get it exits.
Claims(p) ==
    \/ AcquireFree(p, p \in Daemon, "claim") /\ life' = [life EXCEPT ![p] = "up"]
    \/ AcquireTaken(p) /\ life' = [life EXCEPT ![p] = "dead"]

\* A daemon claims the slot, and so does a server that has this as its default
\* project; one that comes to the project later does not.
Starts(p) ==
    /\ life[p] = "new" /\ UNCHANGED <<project, leases>>
    /\ \/ Claims(p)
       \/ p \notin Daemon /\ life' = [life EXCEPT ![p] = "up"] /\ KeepLock

\* What a process that is gone leaves: its record, and sessions that close.
Leaves(p) ==
    /\ life' = [life EXCEPT ![p] = "dead"]
    /\ releaseDue' = [releaseDue EXCEPT ![p] = FALSE]
    /\ readyDue' = [readyDue EXCEPT ![p] = None]
    /\ kept' = [kept EXCEPT ![p] = "no"]
    /\ project' = [q \in Proc |->
          IF q = p THEN Closed
          ELSE [project[q] EXCEPT !.socket = IF @ = p THEN None ELSE @]]

\* A process whose leases are released exits, and gives the slot back if it can
\* and if it has it from its start.
Stops(p) ==
    /\ Alive(p) /\ ~project[p].listed
    /\ Leaves(p)
    /\ (HasSlot(p) /\ slot' = None) \/ UNCHANGED slot
    /\ UNCHANGED <<faults, leases>>

Dies(p) ==
    /\ Alive(p) /\ Fault /\ Leaves(p)
    /\ UNCHANGED <<slot, leases>>

Timers(p) ==
    /\ ReadyTimer(p) \/ ReleaseTimer(p)
    /\ UNCHANGED <<life, project, leases>>

\* The activation goes on.
Works(p) ==
    Recovered(p) \/ Connected(p) \/ CaughtUpThere(p) \/ Polls(p) \/ SyncEnds(p)

Next ==
    \E p \in Proc :
       \/ Starts(p) \/ AcquireProject(p) \/ Release(p) \/ Ready(p) \/ Tick(p)
       \/ Works(p) \/ WatcherSyncs(p) \/ WatcherSyncEnds(p) \/ FinishTimer(p)
       \/ Timers(p) \/ Stops(p) \/ Dies(p)

\* What was begun ends and timers fire; syncs of a watcher leave a pause in
\* which a retirement finds the graph idle.
Spec ==
    /\ Init /\ [][Next]_vars
    /\ \A p \in Proc :
          /\ WF_vars(Works(p)) /\ WF_vars(Timers(p)) /\ WF_vars(Tick(p))
          /\ WF_vars(WatcherSyncEnds(p)) /\ SF_vars(FinishTimer(p))

-----------------------------------------------------------------------------
(* Properties.                                                             *)

\* An entry agrees with itself: one that left the map is at rest, a retiring one
\* has no interval, and a catch-up is made by the owner on a record it found.
EntryIsSound(e) ==
    /\ ~e.listed => e.refs = 0 /\ ~e.ticking /\ ~e.owner /\ ~e.retiring /\ ~Busy(e)
    /\ e.retiring => ~e.ticking
    /\ e.gate = "sync" => e.owner /\ e.seen # None

\* A process that watches and writes the index has the slot, so there is at
\* most one: its record is not released by an earlier retirement, cleared as
\* stale or overwritten while it does.
WriterHasSlot ==
    \A p \in Proc : project[p].owner => HasSlot(p)

\* The slot is not kept for nothing: a live process that has it is using it, is
\* about to give it back, has had it since its start and not come to use it, or
\* could not remove the file.
SlotIsNotLeaked ==
    \A p \in Proc :
        HasSlot(p) /\ Alive(p) => project[p].owner \/ releaseDue[p] \/ kept[p] # "no"

\* Nothing works on a graph that was closed: neither an activation that lost
\* its last lease half-way nor a sync of the watcher; and a closed entry has no
\* lease, interval or role left.
WorkIsOnOpenGraph ==
    \A p \in Proc : EntryIsSound(project[p])

\* The timers of the writer lock belong to live processes, nothing is kept of a
\* process that is gone, no release is under way for a record in use, a record
\* that is kept without a use is there and has none, and a process has no record
\* before it has started.
TimersAgree ==
    \A p \in Proc :
        /\ project[p].owner => ~releaseDue[p]
        /\ ~Alive(p) => /\ project[p] = Closed
                        /\ ~releaseDue[p] /\ readyDue[p] = None /\ kept[p] = "no"
        /\ kept[p] # "no" => HasSlot(p) /\ ~project[p].owner
        /\ life[p] = "new" => ~HasSlot(p)

\* The types, a graph that is not closed under work, and timers that agree with
\* the entries.
LifecycleInv == TypeOK /\ WorkIsOnOpenGraph /\ TimersAgree

\* A process that nobody can connect to has the slot and nothing to do with it.
KeptBack(p) == kept[p] # "no" /\ ~slot.daemon /\ project[p].refs = 0

\* A project that is in use comes to be kept up to date, by its own process or
\* another one, through deaths, retirements and revivals of entries, unless a
\* process keeps the slot back for ever.
LeaseIsServed ==
    []<>(\A q \in Proc : ~KeptBack(q)) => \A p \in Proc :
        project[p].refs > 0 ~>
            \/ project[p].refs = 0
            \/ project[p].socket # None
            \/ \E q \in Proc : project[q].owner /\ project[q].caughtUp

\* An entry does not retire for ever: it is closed or in use again.
RetirementEnds ==
    \A p \in Proc : project[p].retiring ~> ~project[p].retiring
=============================================================================
