----------------------------- MODULE RebuildSync -----------------------------
(***************************************************************************)
(* A server that keeps the index fresh (src/src/codegraph.ts, sync and     *)
(* reopenIfReplaced; src/src/mcp/engine.ts) while another process rebuilds *)
(* it with the same class (recreate, then indexAll).                       *)
(*                                                                         *)
(* A rebuild unlinks the database and creates a new file under its name    *)
(* before it takes the write lock, so the server's handle may be on a file *)
(* nobody else can see.  Databases are numbered in the order they are made.*)
(* Nothing in the class keeps the two apart but the write lock; the writer *)
(* slot `codegraph index` takes as well is not part of this module.        *)
(*                                                                         *)
(* The write lock is AbstractLock, which FileLock implements; one sync at  *)
(* a time holds the index mutex, which IndexMutex shows.  The watcher is   *)
(* reduced to the files it has recorded (FileWatcher).  Files that cannot  *)
(* be read or parsed, synthesized edges and close() are left out.          *)
(***************************************************************************)
EXTENDS Naturals

CONSTANTS
    File,       \* source files
    MaxDb,      \* bound: databases made
    MaxFails    \* bound: syncs of the server that throw

ASSUME FileAssumption  == File # {}
ASSUME BoundAssumption == MaxDb \in Nat \ {0} /\ MaxFails \in Nat

Absent == 0
Db == 1..MaxDb

\* index_state, and "none" where it is not set.
IndexState == {"none", "indexing", "complete", "partial", "failed"}

VARIABLES
    \* the database files
    atPath,     \* the one at the database path, or Absent
    made,       \* how many have been made
    lag,        \* lag[i]: files whose content in i is not what is on disk
    missing,    \* missing[i]: files that were never stored in i
    marker,     \* marker[i]: index_state
    fresh,      \* the one at the path was written within RECREATE_GRACE_MS
    owner,      \* who holds the write lock
    quiet,      \* the user has stopped editing, for good
    \* the server
    handle,     \* the database it has open
    pendingFullReconcile,
    caughtUp,   \* the sync of its start has succeeded
    catchUp,    \* a sync was called by the start or after a reopen
    pending,    \* files the watcher has recorded
    pc,         \* where its sync is
    byWatcher,  \* the sync was called by the watcher
    scope,      \* the files it looks at
    todo,       \* those still to come
    late,       \* files edited since it began
    fails,      \* syncs that threw
    \* the rebuild
    bpc,        \* where it is; its database is the last one made
    btodo       \* files it has still to index

files  == <<atPath, made, lag, missing, marker, fresh>>
server == <<handle, pendingFullReconcile, caughtUp, catchUp, pending, pc,
            byWatcher, scope, todo, late, fails>>
build  == <<bpc, btodo>>
vars   == <<files, owner, quiet, server, build>>

Lock == INSTANCE AbstractLock WITH Proc <- {"server", "build"},
                                   Nobody <- "nobody"

TypeOK ==
    /\ made \in Db /\ atPath \in {Absent, made}
    /\ lag \in [Db -> SUBSET File] /\ missing \in [Db -> SUBSET File]
    /\ \A i \in Db : missing[i] \subseteq lag[i]
    /\ marker \in [Db -> IndexState]
    /\ fresh \in BOOLEAN /\ (fresh => atPath # Absent)
    /\ owner \in {"nobody", "server", "build"} /\ quiet \in BOOLEAN
    /\ handle \in 1..made
    /\ pendingFullReconcile \in BOOLEAN
    /\ caughtUp \in BOOLEAN /\ catchUp \in BOOLEAN /\ byWatcher \in BOOLEAN
    /\ pc \in {"idle", "locked", "opened", "running"}
    /\ pending \subseteq File /\ late \subseteq pending
    /\ todo \subseteq scope /\ scope \subseteq File
    /\ fails \in 0..MaxFails
    /\ bpc \in {"idle", "removed", "created", "indexing"}
    /\ btodo \subseteq File

\* The server starts on an index that is complete or whose indexing was
\* killed, with any edits made while it was away.
Init ==
    /\ atPath = 1 /\ made = 1 /\ fresh = FALSE
    /\ marker \in [Db -> {"none", "indexing", "complete"}]
    /\ \A i \in Db \ {1} : marker[i] = "none"
    /\ missing \in [Db -> {{}, File}] /\ lag \in [Db -> SUBSET File]
    /\ \A i \in Db \ {1} : missing[i] = File /\ lag[i] = File
    /\ missing[1] \subseteq lag[1]
    /\ marker[1] = "complete" => missing[1] = {}
    /\ owner = "nobody" /\ quiet = FALSE
    /\ handle = 1 /\ pendingFullReconcile = FALSE
    /\ caughtUp = FALSE /\ catchUp = TRUE /\ pending = {}
    /\ pc = "idle" /\ byWatcher = FALSE /\ scope = {} /\ todo = {}
    /\ late = {} /\ fails = 0
    /\ bpc = "idle" /\ btodo = {}

-----------------------------------------------------------------------------
(* The environment.                                                        *)

\* A file changes and the watcher records it.
Edit(f) ==
    /\ ~quiet
    /\ lag' = [i \in Db |-> lag[i] \cup {f}]
    /\ pending' = pending \cup {f}
    /\ late' = IF pc = "idle" THEN {} ELSE late \cup {f}
    /\ UNCHANGED <<atPath, made, missing, marker, fresh, owner, quiet, handle,
                   pendingFullReconcile, caughtUp, catchUp, pc, byWatcher,
                   scope, todo, fails, build>>

GoQuiet == ~quiet /\ quiet' = TRUE /\ UNCHANGED <<files, owner, server, build>>

\* RECREATE_GRACE_MS pass.
Age ==
    /\ fresh /\ fresh' = FALSE
    /\ UNCHANGED <<atPath, made, lag, missing, marker, owner, quiet, server,
                   build>>

-----------------------------------------------------------------------------
(* The server's sync.  It keeps the mutex from its first step to its last. *)

\* sync() takes the write lock; scope is what it was asked to look at.
Begin(watcher, asked) ==
    /\ pc = "idle" /\ pc' = "locked"
    /\ Lock!Acquire("server")
    /\ byWatcher' = watcher /\ scope' = asked
    /\ UNCHANGED <<files, quiet, handle, pendingFullReconcile, caughtUp, pending,
                   todo, late, fails, build>>

\* The watcher syncs what it has recorded, or everything.  A lock that is
\* taken makes it try again.
WatchSync ==
    /\ pending # {}
    /\ \E asked \in {pending, File} : Begin(TRUE, asked)
    /\ UNCHANGED catchUp

CatchUpSync == catchUp /\ catchUp' = FALSE /\ Begin(FALSE, File)

\* A catch-up that finds the lock taken has failed: the lease calls it again
\* until the first success, after a reopen nobody does.
CatchUpRefused ==
    /\ catchUp /\ pc = "idle" /\ owner # "nobody"
    /\ caughtUp /\ catchUp' = FALSE
    /\ UNCHANGED <<files, owner, quiet, handle, pendingFullReconcile, caughtUp,
                   pending, pc, byWatcher, scope, todo, late, fails, build>>

\* What a sync knew is gone when it ends.
Forget == scope' = {} /\ late' = {} /\ byWatcher' = FALSE

\* The sync ends without success: the lock is free, the watcher keeps its
\* files, the start calls again.
Abandon ==
    /\ pc' = "idle" /\ Lock!Drop
    /\ catchUp' = (catchUp \/ (~byWatcher /\ ~caughtUp))
    /\ Forget /\ todo' = {}
    /\ UNCHANGED <<files, quiet, handle, caughtUp, pending, build>>

\* reopenReplacedDatabase(): follow the path to a file that is not the open one.
Reopen == handle' = atPath /\ pendingFullReconcile' = TRUE

Replaced == atPath \notin {Absent, handle}

Follow ==
    /\ pc = "locked" /\ pc' = "opened"
    /\ IF Replaced THEN Reopen ELSE UNCHANGED <<handle, pendingFullReconcile>>
    /\ UNCHANGED <<files, owner, quiet, caughtUp, catchUp, pending, byWatcher,
                   scope, todo, late, fails, build>>

\* The new file cannot be opened: reported as a lock that is taken.
FollowFails ==
    /\ pc = "locked" /\ Replaced
    /\ fails < MaxFails /\ fails' = fails + 1
    /\ Abandon /\ UNCHANGED pendingFullReconcile

\* A rebuild that died is waited for like one that is at work.
RebuildAheadForEver == marker[handle] = "none"

\* The open database has no index_state and the file at the path is fresh:
\* a rebuild has made it and not begun to index it.
RebuildAhead == marker[handle] = "none" /\ fresh

\* A sync that does not look out for a rebuild.
RunInGap ==
    /\ pc = "opened" /\ pc' = "running"
    /\ scope' = (IF pendingFullReconcile THEN File ELSE scope)
    /\ todo' = scope'
    /\ UNCHANGED <<files, owner, quiet, handle, pendingFullReconcile, caughtUp,
                   catchUp, pending, byWatcher, late, fails, build>>

\* The sync goes on, over the whole project if a full reconcile is owed.
Run ==
    /\ pc = "opened" /\ pc' = "running"
    /\ ~(pendingFullReconcile /\ RebuildAhead)
    /\ scope' = (IF pendingFullReconcile THEN File ELSE scope)
    /\ todo' = scope'
    /\ UNCHANGED <<files, owner, quiet, handle, pendingFullReconcile, caughtUp,
                   catchUp, pending, byWatcher, late, fails, build>>

\* The lock is forgotten on the way out.
StepAsideKeepsLock ==
    /\ pc = "opened" /\ pendingFullReconcile /\ RebuildAhead
    /\ pc' = "idle" /\ Forget /\ todo' = {}
    /\ catchUp' = (catchUp \/ (~byWatcher /\ ~caughtUp))
    /\ UNCHANGED <<files, owner, quiet, handle, pendingFullReconcile, caughtUp,
                   pending, fails, build>>

\* It steps aside for a rebuild that is about to index a file it has made.
StepAside ==
    /\ pc = "opened" /\ pendingFullReconcile /\ RebuildAhead
    /\ Abandon /\ UNCHANGED <<pendingFullReconcile, fails>>

\* A file is stored as it is on disk; the write may reach the database file
\* at once or stay in the WAL.
Store(i, f) ==
    /\ lag' = [lag EXCEPT ![i] = @ \ {f}]
    /\ missing' = [missing EXCEPT ![i] = @ \ {f}]
    /\ fresh' \in {fresh, fresh \/ i = atPath}
    /\ UNCHANGED <<atPath, made, marker>>

SyncFile(f) ==
    /\ pc = "running" /\ f \in todo
    /\ todo' = todo \ {f} /\ Store(handle, f)
    /\ UNCHANGED <<owner, quiet, handle, pendingFullReconcile, caughtUp, catchUp,
                   pending, pc, byWatcher, scope, late, fails, build>>

\* A full sync settles the full reconcile, unless there was no source file to
\* look at (filesChecked = 0).
SettlesReconcile ==
    pendingFullReconcile' \in {pendingFullReconcile, pendingFullReconcile /\ scope # File}

\* A scoped sync that closes the state of a killed index.
SyncSucceedsAnyScope ==
    /\ pc = "running" /\ todo = {}
    /\ pc' = "idle" /\ Lock!Drop /\ Forget
    /\ SettlesReconcile
    /\ marker' = IF marker[handle] = "indexing"
                 THEN [marker EXCEPT ![handle] = "complete"] ELSE marker
    /\ pending' = IF byWatcher THEN pending \cap late ELSE pending
    /\ caughtUp' = (caughtUp \/ ~byWatcher)
    /\ UNCHANGED <<atPath, made, lag, missing, fresh, quiet, handle, catchUp,
                   todo, fails, build>>

\* A full sync repairs the state of an index that was killed; the watcher forgets
\* what it had recorded before.
SyncSucceeds ==
    /\ pc = "running" /\ todo = {}
    /\ pc' = "idle" /\ Lock!Drop /\ Forget
    /\ SettlesReconcile
    /\ marker' = IF scope = File /\ marker[handle] = "indexing"
                 THEN [marker EXCEPT ![handle] = "complete"] ELSE marker
    /\ pending' = IF byWatcher THEN pending \cap late ELSE pending
    /\ caughtUp' = (caughtUp \/ ~byWatcher)
    /\ UNCHANGED <<atPath, made, lag, missing, fresh, quiet, handle, catchUp,
                   todo, fails, build>>

\* A full reconcile that fails counts as made.
SyncThrowsForgets ==
    /\ pc = "running"
    /\ fails < MaxFails /\ fails' = fails + 1
    /\ Abandon /\ pendingFullReconcile' = FALSE

SyncThrows ==
    /\ pc = "running"
    /\ fails < MaxFails /\ fails' = fails + 1
    /\ Abandon /\ UNCHANGED pendingFullReconcile

\* A tool call finds the database replaced (reopenIfReplaced), unless a sync
\* runs, and the engine calls a catch-up.
Heal ==
    /\ pc = "idle"
    /\ Replaced /\ Reopen
    /\ catchUp' = TRUE
    /\ UNCHANGED <<files, owner, quiet, caughtUp, pending, pc, byWatcher, scope,
                   todo, late, fails, build>>

-----------------------------------------------------------------------------
(* The rebuild: recreate(), then indexAll() on what it made.               *)

\* recreate() wants a database at the path, and unlinks it.
RemoveDatabaseFiles ==
    /\ bpc = "idle" /\ atPath # Absent /\ made < MaxDb
    /\ bpc' = "removed" /\ atPath' = Absent /\ fresh' = FALSE
    /\ UNCHANGED <<made, lag, missing, marker, owner, quiet, server, btodo>>

MakeDatabase ==
    /\ made' = made + 1 /\ atPath' = made + 1 /\ fresh' = TRUE
    /\ bpc' = "created"
    /\ UNCHANGED <<lag, missing, marker, owner, quiet, server, btodo>>

Initialize == bpc = "removed" /\ MakeDatabase

\* A rebuild that died after the unlink leaves a project to initialize anew.
InitAfterDeath ==
    bpc = "idle" /\ atPath = Absent /\ made < MaxDb /\ MakeDatabase

\* indexAll takes the write lock and marks the index as in flight.
IndexAll ==
    /\ bpc = "created" /\ bpc' = "indexing"
    /\ Lock!Acquire("build")
    /\ marker' = [marker EXCEPT ![made] = "indexing"]
    /\ btodo' = File
    /\ UNCHANGED <<atPath, made, lag, missing, fresh, quiet, server>>

\* The lock is taken: nothing is indexed.
IndexAllRefused ==
    /\ bpc = "created" /\ owner # "nobody"
    /\ bpc' = "idle"
    /\ UNCHANGED <<files, owner, quiet, server, btodo>>

IndexFile(f) ==
    /\ bpc = "indexing" /\ f \in btodo
    /\ btodo' = btodo \ {f} /\ Store(made, f)
    /\ UNCHANGED <<owner, quiet, server, bpc>>

\* indexAll ends: completely, short of files that it had found, in failure, or by
\* a throw that leaves the marker.
IndexAllEnds ==
    /\ bpc = "indexing" /\ bpc' = "idle" /\ btodo' = {}
    /\ Lock!Drop
    /\ \E s \in IndexState \ {"none"} :
          /\ s = "complete" => btodo = {}
          /\ marker' = [marker EXCEPT ![made] = s]
    /\ UNCHANGED <<atPath, made, lag, missing, fresh, quiet, server>>

\* The rebuilding process is killed; its lock is then stale.
BuildDies ==
    /\ bpc # "idle" /\ bpc' = "idle"
    /\ owner' = IF owner = "build" THEN "nobody" ELSE owner
    /\ btodo' = {} /\ UNCHANGED <<files, quiet, server>>

-----------------------------------------------------------------------------

SyncStep ==
    \/ Follow \/ Run \/ StepAside \/ SyncSucceeds
    \/ \E f \in File : SyncFile(f)

BuildStep ==
    \/ Initialize \/ IndexAll \/ IndexAllRefused \/ IndexAllEnds
    \/ \E f \in File : IndexFile(f)

Next ==
    \/ \E f \in File : Edit(f)
    \/ Age \/ GoQuiet \/ Heal
    \/ WatchSync \/ CatchUpSync \/ CatchUpRefused
    \/ SyncStep \/ FollowFails \/ SyncThrows
    \/ RemoveDatabaseFiles \/ InitAfterDeath \/ BuildStep \/ BuildDies

Spec == Init /\ [][Next]_vars

\* The watcher keeps trying, a sync that runs goes on, a rebuild that was
\* begun goes on or is killed, and time passes.
FairSpec ==
    /\ Spec
    /\ SF_vars(WatchSync) /\ WF_vars(SyncStep) /\ WF_vars(BuildStep)
    /\ WF_vars(Age)

-----------------------------------------------------------------------------
(* Properties.                                                             *)

\* No edit is lost to a rebuild: every file that the open database lags
\* behind on is recorded, in the running sync, or due to a full reconcile
\* or to the sync of the start.
LagIsOwed ==
    \A f \in lag[handle] :
        \/ f \in pending \cup todo
        \/ pendingFullReconcile \/ ~caughtUp

\* "A sync landing in that gap would otherwise [...] hold the lock the rebuild
\* is about to ask for": no sync runs on a database that is as a rebuild has
\* just made it and that the rebuild is about to index.
RebuildIsLetThrough ==
    bpc = "created" /\ fresh /\ missing[made] = File /\ pc = "running"
        => handle # made

\* An index that says it is complete has every file in it, also when a sync
\* repaired what a killed indexAll left.
CompleteIsWhole == \A i \in Db : marker[i] = "complete" => missing[i] = {}

\* The write lock is held exactly while its holder is at work: every way out
\* of a sync releases it.
LockIsInUse ==
    /\ owner = "server" <=> pc # "idle"
    /\ owner = "build" <=> bpc = "indexing"

\* What a sync knows while it runs: the watcher's files are in its scope or
\* were edited since; any other sync, and one that owes a full reconcile, looks
\* at everything; a file of its scope that is not stored as it is on disk is
\* still to come or was edited since.
SyncKeepsTrack ==
    /\ pc = "idle" => scope = {} /\ late = {}
    /\ pc # "running" => todo = {}
    /\ pc # "idle" => IF byWatcher THEN pending \subseteq scope \cup late
                                  ELSE scope = File
    /\ pc = "running" =>
          /\ pendingFullReconcile => scope = File
          /\ scope \cap missing[handle] \subseteq todo
          /\ scope \cap lag[handle] \subseteq todo \cup late

\* A sync that throws loses nothing: what its database lags behind on is owed
\* also without the files it had still to do.
OwedWithoutSync ==
    pendingFullReconcile \/ ~caughtUp \/ lag[handle] \subseteq pending

\* What a rebuild has made so far; a server that followed it to a database it
\* has not begun to index owes that one a full reconcile or has made it.
RebuildKeepsTrack ==
    /\ \A i \in Db : i > made => marker[i] = "none"
    /\ bpc = "removed" => atPath = Absent /\ made < MaxDb
    /\ bpc = "created" =>
          /\ marker[made] = "none"
          /\ handle = made => pendingFullReconcile \/ missing[made] = {}
    /\ bpc = "indexing" => missing[made] \subseteq btodo

\* The types, a lock that is not left behind, and what the sync and the
\* rebuild rely on at each of their steps.
RebuildInv ==
    /\ TypeOK /\ LockIsInUse
    /\ SyncKeepsTrack /\ OwedWithoutSync /\ RebuildKeepsTrack

\* "Bounded, so a rebuild that died before indexing does not park the watcher
\* forever": once the user stops editing, the recorded files are synced.
WatcherIsNotParked == quiet ~> pending = {}
=============================================================================
