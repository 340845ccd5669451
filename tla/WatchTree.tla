----------------------------- MODULE WatchTree ------------------------------
(***************************************************************************)
(* Which directories src/src/sync/watcher.ts (class FileWatcher) watches:  *)
(* how directory events, the delayed tree refresh and the open streams     *)
(* follow a tree that changes under them, and whether edits still reach    *)
(* the index.  On Linux every directory has a stream of its own; on macOS  *)
(* and Windows one recursive stream covers the project and only directory  *)
(* links have their own.                                                   *)
(*                                                                         *)
(* The paths Dir lie in the project root or in one another.  A path is a   *)
(* plain directory, or a link to one that holds no other path, or to a     *)
(* directory outside the project.  A stream watches the directory its path *)
(* led to when it was opened: deleting that directory kills the stream,    *)
(* even if one of the same name is made later.                             *)
(*                                                                         *)
(* A refresh first walks the tree and then opens the streams that are      *)
(* missing, one by one.  No handler runs meanwhile, but the tree goes on   *)
(* changing.  The sync is one step here that succeeds; FileWatcher has its *)
(* details.                                                                *)
(***************************************************************************)
EXTENDS Naturals, FiniteSets

CONSTANTS
    Dir,            \* paths below the project root that may be directories
    Above,          \* Above[d]: the paths between the root and d
    Outside,        \* directories outside the project that links may lead to
    Cap,            \* maxDirWatches(), less the root's own stream on Linux
    Platforms,      \* platforms considered: FALSE for Linux, TRUE for those
                    \* with a recursive stream (macOS and Windows)
    MaxChanges,     \* bound: changes made to the tree
    SameName        \* may a directory come back under its name before the
                    \* watcher has let go of the one that was removed?

Absent == "absent"

Target == Dir \cup Outside

\* The directory that holds d, unless that is the root.
Holder(d) == CHOOSE h \in Above[d] : Above[d] = Above[h] \cup {h}

ASSUME TargetAssumption == Absent \notin Target /\ Dir \cap Outside = {}
ASSUME TreeAssumption ==
    /\ Above \in [Dir -> SUBSET Dir]
    /\ \A d \in Dir : /\ d \notin Above[d]
                      /\ Above[d] # {} => Holder(d) \in Above[d]
                                          /\ Above[Holder(d)] \subseteq Above[d]
ASSUME DirAssumption    == IsFiniteSet(Dir)
ASSUME BoundAssumption  == Cap \in Nat /\ MaxChanges \in Nat
ASSUME FlagAssumption   == Platforms \cup {SameName} \subseteq BOOLEAN

VARIABLES
    recursive,  \* supportsRecursiveWatch()
    entry,      \* entry[d]: d for a plain directory, else a link's target
    there,      \* the directories outside that exist
    left,       \* changes still to be made to the tree
    seen,       \* seen[d]: the directory the index holds under d
    lag,        \* directories whose files changed since the index read them
    dirEvents,  \* undelivered events on the paths themselves
    selfEvents, \* undelivered last events of streams that died (Linux)
    fileEvents, \* undelivered events on files, by path
    known,      \* knownDirs
    watched,    \* watchedRealDirs, the keys of dirWatchers
    on,         \* on[d]: the directory d's stream is really on
    dead,       \* open streams whose directory was deleted
    goneChecks, \* goneChecks timers
    limited,    \* inotifyLimitWarned
    missed,     \* some directory could not be given its stream
    opening,    \* a refresh has walked the tree and opens streams
    plan,       \* the streams it has yet to open
    unheard,    \* since the walk, a path came or went in a directory whose
                \* stream was yet to be opened
    treeTimer,  \* treeRefreshTimer
    needsFull,  \* needsFullScan
    pending,    \* paths with pending files
    degraded    \* EMFILE/ENFILE: the watcher has stopped

tree     == <<recursive, entry, there, left>>
index    == <<seen, lag>>
inbox    == <<dirEvents, selfEvents, fileEvents>>
streams  == <<known, watched, on, dead, goneChecks, limited, missed>>
refresh  == <<opening, plan, unheard>>
schedule == <<treeTimer, needsFull, pending>>
vars     == <<tree, index, inbox, streams, refresh, schedule, degraded>>

TypeOK ==
    /\ recursive \in Platforms /\ entry \in [Dir -> Target \cup {Absent}]
    /\ there \subseteq Outside /\ left \in 0..MaxChanges
    /\ seen \in [Dir -> Target \cup {Absent}] /\ lag \subseteq Target
    /\ dirEvents \subseteq Dir /\ fileEvents \subseteq Dir
    /\ selfEvents \subseteq Dir /\ pending \subseteq Dir
    /\ known \in [Dir -> Target \cup {Absent}]
    /\ watched \in [Dir -> Target \cup {Absent}]
    /\ on \in [Dir -> Target \cup {Absent}] /\ plan \subseteq Dir
    /\ dead \cup goneChecks \subseteq {d \in Dir : on[d] # Absent}
    /\ {limited, missed, opening, unheard, treeTimer, needsFull, degraded}
          \subseteq BOOLEAN

-----------------------------------------------------------------------------
(* The tree as realpath and the walk see it.                               *)

Exists(t) == IF t \in Outside THEN t \in there ELSE entry[t] = t

\* realpathSync(d), for a path that is a directory.
RealPath(d) ==
    IF entry[d] # Absent /\ Exists(entry[d]) THEN entry[d] ELSE Absent

\* The walk takes each real directory once, under the first path to it
\* (visitedRealDirs); the indexer's walk does the same.
Visited(d) ==
    IF RealPath(d) # Absent /\ d = CHOOSE p \in Dir : RealPath(p) = RealPath(d)
    THEN RealPath(d) ELSE Absent

Walk == [d \in Dir |-> Visited(d)]

\* The paths that need a stream of their own.
Desired ==
    [d \in Dir |-> IF recursive /\ entry[d] = d THEN Absent ELSE Visited(d)]

\* The paths under which an edit in directory t is reported.
Reporting(t) ==
    {d \in Dir : on[d] = t /\ d \notin dead}
        \cup (IF recursive THEN {t} \cap Dir ELSE {})

\* A link leads to a directory that holds no other path.
Linkable(t) == \A d \in Dir : t \notin Above[d]

\* start() on a tree that is indexed.
Init ==
    /\ recursive \in Platforms /\ entry \in [Dir -> Target \cup {Absent}]
    /\ there \in SUBSET Outside /\ left = MaxChanges
    /\ \A d \in Dir : entry[d] # Absent =>
          /\ Exists(entry[d]) /\ (entry[d] = d \/ Linkable(entry[d]))
          /\ \A a \in Above[d] : entry[a] = a
    /\ Cardinality({d \in Dir : Desired[d] # Absent}) <= Cap
    /\ seen = Walk /\ lag = {}
    /\ dirEvents = {} /\ selfEvents = {} /\ fileEvents = {}
    /\ known = Walk /\ watched = Desired /\ on = Desired
    /\ dead = {} /\ goneChecks = {}
    /\ limited = FALSE /\ missed = FALSE /\ degraded = FALSE
    /\ opening = FALSE /\ plan = {} /\ unheard = FALSE
    /\ treeTimer = FALSE /\ needsFull = FALSE /\ pending = {}

-----------------------------------------------------------------------------
(* The tree changes; the stream of the directory that holds an entry       *)
(* reports it.  A watcher that has stopped sees no more of it.             *)

Change == ~degraded /\ left > 0 /\ left' = left - 1

Heard(d) == recursive \/ Above[d] = {} \/ Reporting(Holder(d)) # {}

Report(d) ==
    /\ dirEvents' = IF Heard(d) THEN dirEvents \cup {d} ELSE dirEvents
    /\ unheard' = (unheard \/ (~Heard(d) /\ Holder(d) \in plan))

\* Streams on t die, on Linux each with a last event of its own.
Kill(t) ==
    LET lost == {d \in Dir : on[d] = t /\ d \notin dead}
    IN  /\ dead' = dead \cup lost
        /\ selfEvents' = IF recursive THEN selfEvents ELSE selfEvents \cup lost

LetGo(t) == SameName \/ \A d \in dead : on[d] # t

\* A directory with files in it, or a link, is made at d.
MakeEntry(d, t) ==
    /\ Change /\ entry[d] = Absent /\ \A a \in Above[d] : entry[a] = a
    /\ SameName \/ known[d] # t
    /\ IF t = d THEN LetGo(d) /\ lag' = lag \cup {d}
                ELSE Linkable(t) /\ Exists(t) /\ lag' = lag
    /\ entry' = [entry EXCEPT ![d] = t]
    /\ Report(d)
    /\ UNCHANGED <<recursive, there, seen, selfEvents, fileEvents, streams,
                   opening, plan, schedule, degraded>>

\* The link or empty directory at d is removed.
RemoveEntry(d) ==
    /\ Change /\ entry[d] # Absent
    /\ \A c \in Dir : d \in Above[c] => entry[c] = Absent
    /\ entry' = [entry EXCEPT ![d] = Absent]
    /\ Report(d)
    /\ IF entry[d] = d THEN Kill(d) ELSE UNCHANGED <<dead, selfEvents>>
    /\ UNCHANGED <<recursive, there, index, fileEvents, known, watched, on,
                   goneChecks, limited, missed, opening, plan, schedule,
                   degraded>>

\* A directory outside appears.  A link that already names it is not
\* reported by any stream, so none may.
MakeOutside(t) ==
    /\ Change /\ t \notin there /\ LetGo(t)
    /\ \A d \in Dir : entry[d] # t
    /\ there' = there \cup {t} /\ lag' = lag \cup {t}
    /\ UNCHANGED <<recursive, entry, seen, inbox, streams, refresh, schedule,
                   degraded>>

\* A directory outside is deleted; only the streams on it tell.
RemoveOutside(t) ==
    /\ Change /\ t \in there
    /\ there' = there \ {t}
    /\ Kill(t)
    /\ UNCHANGED <<recursive, entry, index, dirEvents, fileEvents, known, watched,
                   on, goneChecks, limited, missed, refresh, schedule, degraded>>

\* A source file in directory t changes.
Edit(t) ==
    /\ Change /\ Exists(t)
    /\ lag' = lag \cup {t}
    /\ fileEvents' = fileEvents \cup Reporting(t)
    /\ UNCHANGED <<recursive, entry, there, seen, dirEvents, selfEvents, streams,
                   refresh, schedule, degraded>>

-----------------------------------------------------------------------------
(* handleDirEvent and armGoneCheck.  A handler runs while no refresh does.  *)

Idle == ~degraded /\ ~opening

\* An event without a file name: the whole tree is looked at again.
HandleNameless(d) ==
    /\ Idle /\ d \in dirEvents
    /\ dirEvents' = dirEvents \ {d}
    /\ treeTimer' = TRUE
    /\ UNCHANGED <<tree, index, selfEvents, fileEvents, streams, refresh,
                   needsFull, pending, degraded>>

\* An event that never asks for a refresh.
HandleDirEventBlind(d) ==
    /\ Idle /\ d \in dirEvents
    /\ dirEvents' = dirEvents \ {d}
    /\ needsFull' = (needsFull \/ RealPath(d) = Absent)
    /\ UNCHANGED <<tree, index, selfEvents, fileEvents, streams, refresh,
                   treeTimer, pending, degraded>>

\* An event on a directory path.  A directory that is new, or leads elsewhere,
\* asks for a tree refresh; one that is gone for a full scan, and for a
\* refresh if it was known.
HandleDirEvent(d) ==
    /\ Idle /\ d \in dirEvents
    /\ dirEvents' = dirEvents \ {d}
    /\ treeTimer' = (treeTimer \/ known[d] # RealPath(d))
    /\ needsFull' = (needsFull \/ RealPath(d) = Absent)
    /\ UNCHANGED <<tree, index, selfEvents, fileEvents, streams, refresh,
                   pending, degraded>>

\* Linux: the last event of a dead stream names a path below the directory
\* that is not there, which asks for a full scan.
HandleSelfEvent(d) ==
    /\ Idle /\ ~recursive /\ d \in selfEvents
    /\ selfEvents' = selfEvents \ {d}
    /\ needsFull' = TRUE
    /\ UNCHANGED <<tree, index, dirEvents, fileEvents, streams, refresh,
                   treeTimer, pending, degraded>>

\* Windows: it is the directory's absolute path, and comes again and again
\* until the stream is closed.  The first one arms a check.
ArmGoneCheck(d) ==
    /\ Idle /\ recursive /\ d \in dead \ goneChecks
    /\ goneChecks' = goneChecks \cup {d}
    /\ UNCHANGED <<tree, index, inbox, known, watched, on, dead, limited, missed,
                   refresh, schedule, degraded>>

\* unwatchDir(d).
UnwatchDir(d) ==
    /\ watched' = [watched EXCEPT ![d] = Absent]
    /\ on' = [on EXCEPT ![d] = Absent]
    /\ dead' = dead \ {d} /\ goneChecks' = goneChecks \ {d}
    /\ selfEvents' = selfEvents \ {d}

\* The check closes a stream whose directory is gone but asks for nothing.
GoneCheckFiresSilent(d) ==
    /\ Idle /\ d \in goneChecks
    /\ RealPath(d) # watched[d] /\ UnwatchDir(d)
    /\ UNCHANGED <<tree, index, dirEvents, fileEvents, known, limited, missed,
                   refresh, schedule, degraded>>

\* The check closes a stream whose path no longer leads where it did.
GoneCheckFires(d) ==
    /\ Idle /\ d \in goneChecks
    /\ IF RealPath(d) = watched[d]
       THEN /\ goneChecks' = goneChecks \ {d}
            /\ UNCHANGED <<watched, on, dead, selfEvents, treeTimer>>
       ELSE UnwatchDir(d) /\ treeTimer' = TRUE
    /\ UNCHANGED <<tree, index, dirEvents, fileEvents, known, limited, missed,
                   refresh, needsFull, pending, degraded>>

\* A file's event reaches handleChange.
HandleFileEvent(d) ==
    /\ Idle /\ d \in fileEvents
    /\ fileEvents' = fileEvents \ {d}
    /\ pending' = pending \cup {d}
    /\ UNCHANGED <<tree, index, dirEvents, selfEvents, streams, refresh,
                   treeTimer, needsFull, degraded>>

\* A stream reports an error that is not fatal and is closed.
StreamFails(d) ==
    /\ Idle /\ watched[d] # Absent
    /\ UnwatchDir(d)
    /\ missed' = TRUE /\ limited' \in {limited, TRUE}
    /\ UNCHANGED <<tree, index, dirEvents, fileEvents, known, refresh, schedule,
                   degraded>>

-----------------------------------------------------------------------------
(* scheduleTreeRefresh's timer, refreshWatchTree and watchDirectory.       *)

\* Streams whose path leads where it did stay; the others are closed.
Kept ==
    LET desired == Desired
    IN  {d \in Dir : watched[d] # Absent /\ watched[d] = desired[d]}

Wanted == {d \in Dir : Desired[d] # Absent} \ Kept

\* The timer fires and the tree is walked.
TreeTimerFires ==
    /\ Idle /\ treeTimer
    /\ treeTimer' = FALSE
    /\ known' = Walk
    /\ watched' = [d \in Dir |-> IF d \in Kept THEN watched[d] ELSE Absent]
    /\ on' = [d \in Dir |-> IF d \in Kept THEN on[d] ELSE Absent]
    /\ dead' = dead \cap Kept /\ goneChecks' = goneChecks \cap Kept
    /\ selfEvents' = selfEvents \cap Kept
    /\ opening' = TRUE /\ plan' = Wanted
    /\ unheard' = FALSE /\ missed' = FALSE
    /\ UNCHANGED <<tree, index, dirEvents, fileEvents, limited, needsFull,
                   pending, degraded>>

Streams == Cardinality({d \in Dir : watched[d] # Absent})

\* watchImpl(d) opens a stream on whatever d leads to by now.
Open(d) ==
    /\ RealPath(d) # Absent
    /\ watched' = [watched EXCEPT ![d] = known[d]]
    /\ on' = [on EXCEPT ![d] = RealPath(d)]
    /\ UNCHANGED <<limited, missed>>

\* watchDirectory without the test of the cap.
OpenStreamUncapped(d) ==
    /\ opening /\ d \in plan /\ Above[d] \cap plan = {}
    /\ plan' = plan \ {d}
    /\ ~limited /\ Open(d)
    /\ UNCHANGED <<tree, index, inbox, known, dead, goneChecks, opening, unheard,
                   schedule, degraded>>

\* watchDirectory(d), parents first: a stream is opened, unless the cap is
\* reached, the inotify limit was met, or this call meets it or fails.
OpenStream(d) ==
    /\ opening /\ d \in plan /\ Above[d] \cap plan = {}
    /\ plan' = plan \ {d}
    /\ \/ ~limited /\ Streams < Cap /\ Open(d)
       \/ /\ missed' = (missed \/ RealPath(d) # Absent)
          /\ limited' \in {limited, limited \/ RealPath(d) # Absent}
          /\ UNCHANGED <<watched, on>>
    /\ UNCHANGED <<tree, index, inbox, known, dead, goneChecks, opening, unheard,
                   schedule, degraded>>

\* A refresh that does not ask for the scan that must follow it.
RefreshEndsNoScan ==
    /\ opening /\ plan = {} /\ opening' = FALSE
    /\ UNCHANGED <<tree, index, inbox, streams, plan, unheard, schedule, degraded>>

\* The refresh is over and a full scan is asked for.
RefreshEnds ==
    /\ opening /\ plan = {} /\ opening' = FALSE
    /\ needsFull' = TRUE
    /\ UNCHANGED <<tree, index, inbox, streams, plan, unheard, treeTimer, pending,
                   degraded>>

\* EMFILE/ENFILE while a stream is opened or from one: degrade() and stop().
Exhausted ==
    /\ ~degraded /\ degraded' = TRUE
    /\ dirEvents' = {} /\ selfEvents' = {} /\ fileEvents' = {}
    /\ known' = [d \in Dir |-> Absent] /\ watched' = [d \in Dir |-> Absent]
    /\ on' = [d \in Dir |-> Absent]
    /\ dead' = {} /\ goneChecks' = {} /\ limited' = FALSE /\ missed' = FALSE
    /\ opening' = FALSE /\ plan' = {} /\ unheard' = FALSE
    /\ treeTimer' = FALSE /\ needsFull' = FALSE /\ pending' = {}
    /\ UNCHANGED <<tree, index>>

-----------------------------------------------------------------------------

\* A sync that succeeds: a full scan, or the pending files alone.
Sync ==
    /\ Idle /\ (needsFull \/ pending # {})
    /\ IF needsFull
       THEN seen' = Walk /\ lag' = {}
       ELSE seen' = seen /\ lag' = lag \ {RealPath(d) : d \in pending}
    /\ needsFull' = FALSE /\ pending' = {}
    /\ UNCHANGED <<tree, inbox, streams, refresh, treeTimer, degraded>>

ChangeTree ==
    \/ \E d \in Dir : RemoveEntry(d) \/ \E t \in Target : MakeEntry(d, t)
    \/ \E t \in Outside : MakeOutside(t) \/ RemoveOutside(t)
    \/ \E t \in Target : Edit(t)

Handle ==
    \E d \in Dir :
        \/ HandleNameless(d) \/ HandleDirEvent(d) \/ HandleFileEvent(d)
        \/ HandleSelfEvent(d) \/ ArmGoneCheck(d) \/ GoneCheckFires(d)

Refresh == RefreshEnds \/ \E d \in Dir : OpenStream(d)

Work == Handle \/ TreeTimerFires \/ Refresh \/ Sync

Next ==
    \/ ChangeTree \/ Work
    \/ Exhausted \/ \E d \in Dir : StreamFails(d)

\* While there are events, timers or syncs due, the event loop goes on with some
\* of them; nobody has to change the tree and no stream has to fail.
Spec == Init /\ [][Next]_vars /\ WF_vars(Work)

-----------------------------------------------------------------------------
(* Properties.                                                             *)

\* Some path is indexed under the wrong directory, or its files changed.
Behind == \E d \in Dir : seen[d] # Visited(d) \/ Visited(d) \in lag

\* What the watcher does not promise to see: a directory it could not give a
\* stream, and a path that comes or goes in one that was walked before its
\* stream was opened (until the next walk).
GivenUp == missed \/ degraded \/ unheard

\* Every directory of the walk has a stream that reports its edits, or an
\* event or refresh ahead that opens one (knownDirs, watchedRealDirs and
\* visitedRealDirs agree well enough with the tree).
EveryDirIsWatched ==
    \A d \in Dir : Visited(d) # Absent /\ Reporting(Visited(d)) = {} =>
        dirEvents # {} \/ treeTimer \/ plan # {} \/ GivenUp

\* At rest the index is right: with no event, timer or scan ahead, every path
\* is indexed under the directory it leads to and no change below it is
\* missing ("a full reconcile closes that race and removes old paths").
AtRestIsCurrent ==
    Behind =>
        \/ dirEvents \cup selfEvents \cup fileEvents \cup pending # {}
        \/ dead # {} /\ recursive
        \/ treeTimer \/ opening \/ needsFull \/ GivenUp

\* The open streams never exceed the cap, and no directory has two.
StreamsBounded ==
    /\ Streams <= Cap
    /\ \A t \in Target :
          Cardinality({d \in Dir : watched[d] = t /\ d \notin dead}) <= 1

\* Paths lie in plain directories, and links lead to directories that hold no
\* other path; the last walk saw it so too, and took each directory once.
TreeShape ==
    \A d \in Dir :
        /\ entry[d] # Absent => /\ entry[d] = d \/ Linkable(entry[d])
                                /\ \A a \in Above[d] : entry[a] = a
        /\ known[d] # Absent => /\ known[d] = d \/ Linkable(known[d])
                                /\ \A a \in Above[d] : known[a] = a
                                /\ \A e \in Dir : known[e] = known[d] => e = d

\* Streams are open, or about to be, where their paths were known to lead.
StreamsAreKnown ==
    /\ plan # {} => opening
    /\ \A d \in Dir : /\ watched[d] # Absent => known[d] = watched[d]
                      /\ (watched[d] = Absent) = (on[d] = Absent)
                      /\ d \in plan => known[d] # Absent /\ watched[d] = Absent

\* A stream that is not on the directory recorded for it was opened after its
\* path had moved, and the path has not moved back.
OnIsWatched ==
    \A d \in Dir : watched[d] # Absent /\ on[d] # watched[d] =>
        entry[d] # watched[d]

\* A dead stream is let go before its directory comes back.
DeadIsGone == \A d \in dead : ~Exists(on[d])

\* The tree will be walked again, or the watcher has given up.
WalkAhead ==
    \/ \E p \in dirEvents : known[p] # Absent /\ known[p] # entry[p]
    \/ treeTimer \/ GivenUp

\* A path that no longer leads where the last walk saw it lead was reported.
MoveIsReported ==
    (\E d \in Dir : known[d] # Absent /\ known[d] # entry[d]) => WalkAhead

\* Path d is a or lies in it.
Within(a, d) == a = d \/ a \in Above[d]

\* A path is new, or in a new directory, or leads to or into one, and the event
\* that tells so is still to come.
NewsOf(d) ==
    \E a \in dirEvents :
        /\ known[a] = Absent
        /\ Within(a, d) \/ (RealPath(d) \in Dir /\ Within(a, RealPath(d)))

\* A directory that can be reached and has no stream is news, or will get one.
UnwatchedIsNews ==
    \A d \in Dir : RealPath(d) # Absent /\ Reporting(RealPath(d)) = {} =>
        NewsOf(d) \/ WalkAhead \/ \E p \in plan : known[p] = RealPath(d)

\* An edit in a directory that can be reached is on its way to a sync: under a
\* path that leads there, or with a full scan.
EditIsAhead ==
    \A d \in Dir : RealPath(d) \in lag =>
        \/ \E p \in fileEvents \cup pending :
              entry[p] = RealPath(d) /\ (p = RealPath(d) \/ known[p] = RealPath(d))
        \/ NewsOf(d) \/ WalkAhead \/ opening \/ needsFull

\* A walk other than the indexed one comes with an event that leads to a full
\* scan: of a path that is gone or leads elsewhere, or of a stream that died.
ScanIsAhead ==
    seen # Walk =>
        \/ \E p \in dirEvents : entry[p] = Absent \/ entry[p] # known[p]
        \/ IF recursive THEN dead # {} ELSE selfEvents # {}
        \/ WalkAhead \/ opening \/ needsFull

\* The types, the bounds on what is open at any time and, where a directory
\* does not come back under its name too early, a trace of every change that
\* the index or the streams do not know of.
WatchInv ==
    /\ TypeOK /\ StreamsBounded /\ TreeShape /\ StreamsAreKnown
    /\ ~SameName => /\ OnIsWatched /\ DeadIsGone /\ MoveIsReported
                    /\ UnwatchedIsNews /\ EditIsAhead /\ ScanIsAhead

\* "New directories are picked up dynamically": once the tree is left alone
\* the index catches up with it and stays so.
TreeReachesIndex == <>[](~Behind \/ GivenUp)
=============================================================================
