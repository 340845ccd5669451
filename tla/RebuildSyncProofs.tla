-------------------------- MODULE RebuildSyncProofs --------------------------
(***************************************************************************)
(* Proofs about RebuildSync, for any set of files, any number of rebuilds  *)
(* and any number of syncs that throw.                                     *)
(***************************************************************************)
EXTENDS RebuildSync, TLAPS

\* The environment: edits, the end of the edits, and the passing of time.
LEMMA EnvironmentStep ==
    ASSUME RebuildInv, GoQuiet \/ Age \/ \E f \in File : Edit(f)
    PROVE  RebuildInv'
<1> USE DEF RebuildInv, TypeOK, LockIsInUse, SyncKeepsTrack, OwedWithoutSync,
            RebuildKeepsTrack, files, server, build
<1>1. CASE GoQuiet
  BY <1>1 DEF GoQuiet
<1>2. CASE Age
  BY <1>2 DEF Age
<1>3. ASSUME NEW f \in File, Edit(f) PROVE RebuildInv'
  <2>1. /\ lag' \in [Db -> SUBSET File]
        /\ \A i \in Db : lag'[i] = lag[i] \cup {f}
    BY <1>3 DEF Edit
  <2>2. TypeOK'
    BY <1>3, <2>1 DEF Edit
  <2>3. handle \in Db
    BY BoundAssumption DEF Db
  <2>4. SyncKeepsTrack'
    BY <1>3, <2>1, <2>3 DEF Edit
  <2>5. OwedWithoutSync'
    BY <1>3, <2>1, <2>3 DEF Edit
  <2> QED
    BY <1>3, <2>2, <2>4, <2>5 DEF Edit
<1> QED
  BY <1>1, <1>2, <1>3

\* The server: the ways into a sync, and the reopening by a tool call.
LEMMA BeginStep ==
    ASSUME RebuildInv, WatchSync \/ CatchUpSync \/ CatchUpRefused \/ Heal
    PROVE  RebuildInv'
<1> USE DEF RebuildInv, TypeOK, LockIsInUse, SyncKeepsTrack, OwedWithoutSync,
            RebuildKeepsTrack, files, server, build
<1>1. CASE WatchSync
  BY <1>1 DEF WatchSync, Begin, Lock!Acquire
<1>2. CASE CatchUpSync
  BY <1>2 DEF CatchUpSync, Begin, Lock!Acquire
<1>3. CASE CatchUpRefused
  BY <1>3 DEF CatchUpRefused
<1>4. CASE Heal
  BY <1>4, BoundAssumption DEF Heal, Reopen, Replaced, Absent, Db
<1> QED
  BY <1>1, <1>2, <1>3, <1>4

\* A sync that ends without success gives up the lock and what it knew, and
\* nothing is owed less.
LEMMA AbandonKeeps ==
    ASSUME RebuildInv, pc # "idle", Abandon, fails' \in 0..MaxFails,
           UNCHANGED pendingFullReconcile
    PROVE  RebuildInv'
BY DEF RebuildInv, TypeOK, LockIsInUse, SyncKeepsTrack, OwedWithoutSync,
       RebuildKeepsTrack, files, server, build, Abandon, Forget, Lock!Drop

\* The steps of a sync to its work, and the ways out without success.
LEMMA SyncWayStep ==
    ASSUME RebuildInv,
           Follow \/ FollowFails \/ Run \/ StepAside \/ SyncThrows
    PROVE  RebuildInv'
<1>1. CASE Follow
  <2> USE DEF Follow, RebuildInv, TypeOK, LockIsInUse, SyncKeepsTrack,
              OwedWithoutSync, RebuildKeepsTrack, files, build
  <2>1. CASE Replaced
    BY <1>1, <2>1, BoundAssumption DEF Reopen, Replaced, Absent, Db
  <2>2. CASE ~Replaced
    BY <1>1, <2>2
  <2> QED
    BY <2>1, <2>2
<1>2. CASE FollowFails \/ SyncThrows
  <2>1. fails' \in 0..MaxFails
    BY <1>2, BoundAssumption DEF FollowFails, SyncThrows, RebuildInv, TypeOK
  <2> QED
    BY <1>2, <2>1, AbandonKeeps DEF FollowFails, SyncThrows
<1>3. CASE Run
  BY <1>3
  DEF Run, RebuildInv, TypeOK, LockIsInUse, SyncKeepsTrack, OwedWithoutSync,
      RebuildKeepsTrack, files, build
<1>4. CASE StepAside
  <2>1. fails' \in 0..MaxFails
    BY <1>4 DEF StepAside, RebuildInv, TypeOK
  <2> QED
    BY <1>4, <2>1, AbandonKeeps DEF StepAside
<1> QED
  BY <1>1, <1>2, <1>3, <1>4

\* Storing a file takes it, and nothing else, off what a database lags behind
\* on or never had.
LEMMA StoreTakesOff ==
    ASSUME TypeOK, NEW i \in Db, NEW f \in File, Store(i, f)
    PROVE  /\ lag' \in [Db -> SUBSET File] /\ missing' \in [Db -> SUBSET File]
           /\ lag'[i] = lag[i] \ {f} /\ missing'[i] = missing[i] \ {f}
           /\ \A k \in Db \ {i} : lag'[k] = lag[k] /\ missing'[k] = missing[k]
           /\ \A k \in Db : /\ lag'[k] \subseteq lag[k]
                            /\ missing'[k] \subseteq missing[k]
                            /\ missing'[k] \subseteq lag'[k]
           /\ fresh' \in BOOLEAN /\ (fresh' => atPath # Absent)
           /\ UNCHANGED <<atPath, made, marker>>
<1>1. Absent \notin Db
  BY BoundAssumption DEF Absent, Db
<1> QED
  BY <1>1 DEF TypeOK, Store

\* A sync or a rebuild stores a file.
LEMMA FileStep ==
    ASSUME RebuildInv, NEW f \in File, SyncFile(f) \/ IndexFile(f)
    PROVE  RebuildInv'
<1> USE DEF RebuildInv, LockIsInUse, SyncKeepsTrack, OwedWithoutSync,
            RebuildKeepsTrack
<1>1. handle \in Db /\ made \in Db
  BY BoundAssumption DEF TypeOK, Db
<1>2. CASE SyncFile(f)
  <2>1. Store(handle, f)
    BY <1>2 DEF SyncFile
  <2>2. TypeOK'
    BY <1>1, <1>2, <2>1, StoreTakesOff DEF SyncFile, TypeOK, build
  <2> QED
    BY <1>1, <1>2, <2>1, <2>2, StoreTakesOff DEF SyncFile, build
<1>3. CASE IndexFile(f)
  <2>1. Store(made, f)
    BY <1>3 DEF IndexFile
  <2>2. TypeOK'
    BY <1>1, <1>3, <2>1, StoreTakesOff DEF IndexFile, TypeOK, server
  <2> QED
    BY <1>1, <1>3, <2>1, <2>2, StoreTakesOff DEF IndexFile, server
<1> QED
  BY <1>2, <1>3

\* A sync that succeeds: what its database still lags behind on was edited
\* while it ran, and the watcher keeps those files.
LEMMA SuccessStep ==
    ASSUME RebuildInv, CompleteIsWhole, SyncSucceeds
    PROVE  RebuildInv' /\ CompleteIsWhole'
<1> USE DEF RebuildInv, SyncSucceeds, SettlesReconcile, IndexState, Forget, Lock!Drop, build
<1>1. handle \in Db /\ made \in Db
  BY BoundAssumption DEF TypeOK, Db
<1>2. scope \cap lag[handle] \subseteq late /\ scope \cap missing[handle] = {}
  BY DEF SyncKeepsTrack
<1>3. TypeOK' /\ LockIsInUse'
  BY <1>1 DEF TypeOK, LockIsInUse
<1>4. SyncKeepsTrack'
  BY DEF SyncKeepsTrack
<1>5. OwedWithoutSync'
  <2>1. CASE scope = File
    BY <1>1, <1>2, <2>1 DEF OwedWithoutSync, TypeOK
  <2>2. CASE scope # File
    BY <1>1, <1>2, <2>2 DEF OwedWithoutSync, SyncKeepsTrack, TypeOK
  <2> QED
    BY <2>1, <2>2
<1>6. scope = File => missing[handle] = {}
  BY <1>1, <1>2 DEF TypeOK
<1>7. RebuildKeepsTrack'
  BY <1>1, <1>6 DEF RebuildKeepsTrack, TypeOK
<1>8. CompleteIsWhole'
  BY <1>1, <1>6 DEF CompleteIsWhole, TypeOK
<1> QED
  BY <1>3, <1>4, <1>5, <1>7, <1>8

\* The steps of a rebuild.
LEMMA BuildStepKeeps ==
    ASSUME RebuildInv,
           \/ RemoveDatabaseFiles \/ Initialize \/ InitAfterDeath \/ IndexAll
           \/ IndexAllRefused \/ IndexAllEnds \/ BuildDies
    PROVE  RebuildInv'
<1> USE DEF RebuildInv, TypeOK, LockIsInUse, SyncKeepsTrack, OwedWithoutSync,
            RebuildKeepsTrack, files, server
<1>1. CASE RemoveDatabaseFiles
  BY <1>1 DEF RemoveDatabaseFiles
<1>2. CASE Initialize \/ InitAfterDeath
  <2>1. made < MaxDb /\ MakeDatabase
    BY <1>2 DEF Initialize, InitAfterDeath
  <2>2. made + 1 \in Db /\ made + 1 # Absent /\ handle # made + 1
        /\ handle \in 1..(made + 1)
    BY <2>1, BoundAssumption DEF Db, Absent
  <2>3. TypeOK'
    BY <2>1, <2>2 DEF MakeDatabase
  <2>4. \A i \in Db : i > made + 1 => i > made
    BY DEF Db
  <2>5. made + 1 > made
    BY DEF Db
  <2>6. RebuildKeepsTrack'
    BY <2>1, <2>2, <2>4, <2>5 DEF MakeDatabase
  <2> QED
    BY <2>1, <2>3, <2>6, <1>2 DEF MakeDatabase, Initialize, InitAfterDeath
<1>3. CASE IndexAll
  <2>1. \A i \in Db : i > made => i # made
    BY DEF Db
  <2>2. /\ marker' \in [Db -> IndexState]
        /\ \A i \in Db \ {made} : marker'[i] = marker[i]
    BY <1>3 DEF IndexAll, IndexState
  <2>3. TypeOK' /\ LockIsInUse'
    BY <1>3, <2>2 DEF IndexAll, Lock!Acquire
  <2>4. SyncKeepsTrack' /\ OwedWithoutSync'
    BY <1>3 DEF IndexAll
  <2>5. RebuildKeepsTrack'
    BY <1>3, <2>1, <2>2 DEF IndexAll
  <2> QED
    BY <2>3, <2>4, <2>5
<1>4. CASE IndexAllRefused
  BY <1>4 DEF IndexAllRefused
<1>5. CASE IndexAllEnds
  <2>1. \A i \in Db : i > made => i # made
    BY DEF Db
  <2>2. /\ marker' \in [Db -> IndexState]
        /\ \A i \in Db \ {made} : marker'[i] = marker[i]
    BY <1>5 DEF IndexAllEnds, IndexState
  <2>3. TypeOK' /\ LockIsInUse'
    BY <1>5, <2>2 DEF IndexAllEnds, Lock!Drop
  <2>4. SyncKeepsTrack' /\ OwedWithoutSync'
    BY <1>5 DEF IndexAllEnds
  <2>5. RebuildKeepsTrack'
    BY <1>5, <2>1, <2>2 DEF IndexAllEnds
  <2> QED
    BY <2>3, <2>4, <2>5
<1>6. CASE BuildDies
  BY <1>6 DEF BuildDies
<1> QED
  BY <1>1, <1>2, <1>3, <1>4, <1>5, <1>6

\* Every step keeps the invariant and, from it, a complete index whole.
LEMMA RebuildStep ==
    ASSUME RebuildInv, CompleteIsWhole, [Next]_vars
    PROVE  RebuildInv' /\ CompleteIsWhole'
<1>1. CASE SyncSucceeds
  BY <1>1, SuccessStep
<1>2. ASSUME NEW f \in File, SyncFile(f) \/ IndexFile(f)
      PROVE  RebuildInv' /\ CompleteIsWhole'
  <2>1. handle \in Db /\ made \in Db
    BY BoundAssumption DEF RebuildInv, TypeOK, Db
  <2>2. Store(handle, f) \/ Store(made, f)
    BY <1>2 DEF SyncFile, IndexFile
  <2>3. CompleteIsWhole'
    BY <2>1, <2>2, StoreTakesOff DEF RebuildInv, CompleteIsWhole
  <2> QED
    BY <1>2, <2>3, FileStep
<1>3. CASE IndexAll \/ IndexAllEnds
  <2>1. CompleteIsWhole'
    BY <1>3 DEF IndexAll, IndexAllEnds, CompleteIsWhole, RebuildInv, TypeOK,
                RebuildKeepsTrack
  <2> QED
    BY <1>3, <2>1, BuildStepKeeps
<1>4. CASE GoQuiet \/ Age \/ \E f \in File : Edit(f)
  BY <1>4, EnvironmentStep
  DEF CompleteIsWhole, GoQuiet, Age, Edit, files
<1>5. CASE WatchSync \/ CatchUpSync \/ CatchUpRefused \/ Heal
  BY <1>5, BeginStep
  DEF CompleteIsWhole, WatchSync, CatchUpSync, CatchUpRefused, Heal, Begin, files
<1>6. CASE Follow \/ FollowFails \/ Run \/ StepAside \/ SyncThrows
  BY <1>6, SyncWayStep
  DEF CompleteIsWhole, Follow, FollowFails, Run, StepAside, SyncThrows, Abandon,
      files
<1>7. CASE \/ RemoveDatabaseFiles \/ Initialize \/ InitAfterDeath
           \/ IndexAllRefused \/ BuildDies
  BY <1>7, BuildStepKeeps
  DEF CompleteIsWhole, RemoveDatabaseFiles, Initialize, InitAfterDeath,
      MakeDatabase, IndexAllRefused, BuildDies, files
<1>8. CASE UNCHANGED vars
  BY <1>8
  DEF vars, files, server, build, RebuildInv, TypeOK, LockIsInUse,
      SyncKeepsTrack, OwedWithoutSync, RebuildKeepsTrack, CompleteIsWhole
<1> QED
  BY <1>1, <1>2, <1>3, <1>4, <1>5, <1>6, <1>7, <1>8
  DEF Next, SyncStep, BuildStep

\* Initially both hold: nothing runs, and the server owes the sync of its start.
LEMMA RebuildInit == Init => RebuildInv /\ CompleteIsWhole
<1> SUFFICES ASSUME Init PROVE RebuildInv /\ CompleteIsWhole
  OBVIOUS
<1>1. 1 \in Db /\ 1 # Absent /\ \A i \in Db : i > 1 => i \in Db \ {1}
  BY BoundAssumption DEF Db, Absent
<1>2. \A i \in Db \ {1} : missing[i] \subseteq lag[i] /\ marker[i] = "none"
  BY DEF Init
<1>3. TypeOK
  <2>1. made \in Db /\ handle \in 1..made /\ fails \in 0..MaxFails
    BY <1>1, BoundAssumption DEF Init
  <2>2. /\ marker \in [Db -> IndexState]
        /\ missing \in [Db -> SUBSET File]
    BY DEF Init, IndexState
  <2>3. \A i \in Db : missing[i] \subseteq lag[i]
    BY <1>2 DEF Init
  <2> QED
    BY <2>1, <2>2, <2>3 DEF Init, TypeOK
<1>4. LockIsInUse /\ SyncKeepsTrack /\ OwedWithoutSync /\ RebuildKeepsTrack
  BY <1>1, <1>2
  DEF Init, LockIsInUse, SyncKeepsTrack, OwedWithoutSync, RebuildKeepsTrack
<1>5. CompleteIsWhole
  BY <1>1, <1>2 DEF Init, CompleteIsWhole
<1> QED
  BY <1>3, <1>4, <1>5 DEF RebuildInv

-----------------------------------------------------------------------------

\* The types of the server and the rebuild, a write lock that is held exactly
\* while its holder works, and what both rely on between their steps.
THEOREM RebuildInvariant == Spec => []RebuildInv
<1>1. Init => RebuildInv /\ CompleteIsWhole
  BY RebuildInit
<1>2. RebuildInv /\ CompleteIsWhole /\ [Next]_vars
        => RebuildInv' /\ CompleteIsWhole'
  BY RebuildStep
<1> QED
  BY <1>1, <1>2, PTL DEF Spec

\* An index that says it is complete has every file, whether indexAll wrote it
\* or a sync repaired what a killed indexAll left.
THEOREM CompleteIndexIsWhole == Spec => []CompleteIsWhole
<1>1. Init => RebuildInv /\ CompleteIsWhole
  BY RebuildInit
<1>2. RebuildInv /\ CompleteIsWhole /\ [Next]_vars
        => RebuildInv' /\ CompleteIsWhole'
  BY RebuildStep
<1> QED
  BY <1>1, <1>2, PTL DEF Spec

\* No edit is lost to a rebuild: what the open database lags behind on is
\* recorded, in the running sync, or owed to a full reconcile or the start's
\* sync.
THEOREM NoLagIsForgotten == Spec => []LagIsOwed
<1>1. RebuildInv => LagIsOwed
  BY DEF RebuildInv, OwedWithoutSync, LagIsOwed
<1> QED
  BY <1>1, RebuildInvariant, PTL

\* A sync keeps off the database a rebuild has just made: it runs there only
\* after the grace period, or when the full reconcile it owed is made.
THEOREM RebuildGoesFirst == Spec => []RebuildIsLetThrough
<1>1. Init => RebuildIsLetThrough
  BY DEF Init, RebuildIsLetThrough
<1>2. RebuildInv /\ RebuildIsLetThrough /\ [Next]_vars => RebuildIsLetThrough'
  <2> SUFFICES ASSUME RebuildInv, RebuildIsLetThrough, [Next]_vars,
                      bpc' = "created", fresh', missing'[made'] = File,
                      pc' = "running", handle' = made'
               PROVE  FALSE
    BY DEF RebuildIsLetThrough
  <2> USE DEF RebuildInv, RebuildIsLetThrough
  <2>1. handle \in Db /\ made \in Db
    BY BoundAssumption DEF TypeOK, Db
  <2>2. CASE Run
    BY <2>1, <2>2, FileAssumption
    DEF Run, RebuildAhead, RebuildKeepsTrack, files, build, TypeOK
  <2>3. CASE \E f \in File : SyncFile(f)
    <3>1. PICK f \in File : SyncFile(f)
      BY <2>3
    <3>2. Store(handle, f) /\ UNCHANGED <<handle, made, pc, bpc>>
      BY <3>1 DEF SyncFile, Store, build
    <3>3. f \notin missing'[handle]
      BY <2>1, <3>2, StoreTakesOff
    <3> QED
      BY <3>2, <3>3
  <2>4. CASE Initialize \/ InitAfterDeath
    BY <2>4, BoundAssumption
    DEF Initialize, InitAfterDeath, MakeDatabase, server, TypeOK, Db
  <2>5. CASE \/ GoQuiet \/ Age \/ \E f \in File : Edit(f)
    BY <2>5 DEF GoQuiet, Age, Edit, files, server, build
  <2>6. CASE \/ Heal \/ WatchSync \/ CatchUpSync \/ CatchUpRefused \/ Follow
             \/ FollowFails \/ StepAside \/ SyncSucceeds \/ SyncThrows
    BY <2>6
    DEF Heal, WatchSync, CatchUpSync, Begin, CatchUpRefused, Follow, FollowFails,
        StepAside, SyncSucceeds, SyncThrows, Abandon
  <2>7. CASE \/ RemoveDatabaseFiles \/ IndexAll \/ IndexAllRefused
             \/ IndexAllEnds \/ BuildDies \/ \E f \in File : IndexFile(f)
    BY <2>7
    DEF RemoveDatabaseFiles, IndexAll, IndexAllRefused, IndexAllEnds, BuildDies,
        IndexFile
  <2>8. CASE UNCHANGED vars
    BY <2>8 DEF vars, files, server, build
  <2> QED
    BY <2>2, <2>3, <2>4, <2>5, <2>6, <2>7, <2>8 DEF Next, SyncStep, BuildStep
<1> QED
  BY <1>1, <1>2, RebuildInvariant, PTL DEF Spec
=============================================================================
