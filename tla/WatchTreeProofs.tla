--------------------------- MODULE WatchTreeProofs ---------------------------
(***************************************************************************)
(* Proofs about WatchTree: for paths that lie in one another to any depth, *)
(* every cap and any number of changes.                                    *)
(***************************************************************************)
EXTENDS WatchTree, FiniteSetTheorems, TLAPS

-----------------------------------------------------------------------------
(* What the walk sees.                                                     *)

\* Where a path leads, and that a directory which can be reached is walked
\* once, under one of the paths to it.
LEMMA WalkFacts ==
    ASSUME TypeOK
    PROVE  /\ \A d \in Dir : \/ RealPath(d) = Absent
                             \/ /\ RealPath(d) = entry[d] /\ entry[d] \in Target
                                /\ Exists(entry[d])
           /\ Walk \in [Dir -> Target \cup {Absent}]
           /\ Desired \in [Dir -> Target \cup {Absent}]
           /\ \A d \in Dir : Walk[d] = Visited(d)
           /\ \A d \in Dir : Visited(d) = Absent \/ Visited(d) = RealPath(d)
           /\ \A d \in Dir : Desired[d] = Absent \/ Desired[d] = Visited(d)
           /\ \A d \in Dir : ~(recursive /\ entry[d] = d) => Desired[d] = Visited(d)
           /\ \A d, e \in Dir : Visited(d) # Absent /\ Visited(e) = Visited(d) => e = d
           /\ \A d \in Dir : RealPath(d) # Absent =>
                 \E p \in Dir : RealPath(p) = RealPath(d) /\ Visited(p) = RealPath(d)
<1> DEFINE First(t) == CHOOSE p \in Dir : RealPath(p) = t
<1>1. \A d \in Dir : \/ RealPath(d) = Absent
                     \/ /\ RealPath(d) = entry[d] /\ entry[d] \in Target
                        /\ Exists(entry[d])
  BY DEF TypeOK, RealPath
<1>2. \A d \in Dir : Visited(d) = IF RealPath(d) # Absent /\ d = First(RealPath(d))
                                  THEN RealPath(d) ELSE Absent
  BY DEF Visited
<1>3. \A d \in Dir : Visited(d) \in Target \cup {Absent}
  <2> HIDE DEF First
  <2> QED
    BY <1>1, <1>2
<1>4. /\ Walk \in [Dir -> Target \cup {Absent}]
      /\ \A d \in Dir : Walk[d] = Visited(d)
  BY <1>3 DEF Walk
<1>5. /\ Desired \in [Dir -> Target \cup {Absent}]
      /\ \A d \in Dir : Desired[d] = IF recursive /\ entry[d] = d THEN Absent ELSE Visited(d)
  BY <1>3 DEF Desired
<1>6. \A d, e \in Dir : Visited(d) # Absent /\ Visited(e) = Visited(d) => e = d
  <2> HIDE DEF First
  <2> QED
    BY <1>2
<1>7. ASSUME NEW d \in Dir, RealPath(d) # Absent
      PROVE  \E p \in Dir : RealPath(p) = RealPath(d) /\ Visited(p) = RealPath(d)
  <2> DEFINE q == First(RealPath(d))
  <2>1. q \in Dir /\ RealPath(q) = RealPath(d)
    OBVIOUS
  <2> HIDE DEF First
  <2>2. Visited(q) = RealPath(d)
    BY <1>2, <1>7, <2>1
  <2> QED
    BY <2>1, <2>2
<1>8. \A d \in Dir : Visited(d) = Absent \/ Visited(d) = RealPath(d)
  <2> HIDE DEF First
  <2> QED
    BY <1>2
<1> QED
  BY <1>1, <1>3, <1>4, <1>5, <1>6, <1>7, <1>8

\* Paths of an unchanged tree lead where they did.
LEMMA PathsStay ==
    ASSUME UNCHANGED <<recursive, entry, there>>
    PROVE  /\ \A d : RealPath(d)' = RealPath(d)
           /\ Walk' = Walk
  BY DEF RealPath, Exists, Visited, Walk

\* A tree of plain directories and links to leaves is walked as one.
LEMMA WalkShape ==
    ASSUME TypeOK, TreeShape, NEW d \in Dir, Visited(d) # Absent
    PROVE  /\ Visited(d) = d \/ Linkable(Visited(d))
           /\ \A a \in Above[d] : Visited(a) = a
<1>1. Visited(d) = entry[d] /\ entry[d] # Absent
  BY WalkFacts, TargetAssumption
<1>2. ASSUME NEW a \in Above[d]
      PROVE  Visited(a) = a
  <2>1. a \in Dir /\ entry[a] = a
    BY <1>1, <1>2, TreeAssumption DEF TreeShape
  <2>2. a # Absent /\ a \notin Outside
    BY <2>1, TargetAssumption DEF Target
  <2>3. RealPath(a) = a
    BY <2>1, <2>2 DEF RealPath, Exists
  <2>4. PICK p \in Dir : RealPath(p) = a /\ Visited(p) = a
    BY <2>1, <2>2, <2>3, WalkFacts
  <2>5. entry[p] = a /\ entry[p] # Absent
    BY <2>2, <2>4, WalkFacts
  <2>6. p = a
    BY <1>2, <2>5 DEF TreeShape, Linkable
  <2> QED
    BY <2>4, <2>6
<1> QED
  BY <1>1, <1>2 DEF TreeShape

-----------------------------------------------------------------------------
(* Types.                                                                  *)

\* A step keeps the types.
LEMMA TypeStep ==
    ASSUME TypeOK, [Next]_vars
    PROVE  TypeOK'
<1> USE TargetAssumption, BoundAssumption, FlagAssumption
<1>0. CASE UNCHANGED vars
  BY <1>0 DEF TypeOK, vars, tree, index, inbox, streams, refresh, schedule
<1>1. ASSUME NEW d \in Dir, NEW t \in Target, MakeEntry(d, t)
      PROVE  TypeOK'
  <2>1. unheard' \in BOOLEAN
    BY <1>1, Zenon DEF MakeEntry, Report
  <2>2. dirEvents' \subseteq Dir
    BY <1>1 DEF TypeOK, MakeEntry, Report
  <2> QED
    BY <1>1, <2>1, <2>2 DEF TypeOK, MakeEntry, Change, Target, streams, schedule
<1>2. ASSUME NEW d \in Dir, RemoveEntry(d)
      PROVE  TypeOK'
  <2>1. unheard' \in BOOLEAN
    BY <1>2, Zenon DEF RemoveEntry, Report
  <2>2. dirEvents' \subseteq Dir
    BY <1>2 DEF TypeOK, RemoveEntry, Report
  <2>3. selfEvents' \subseteq Dir /\ dead' \subseteq {e \in Dir : on[e] # Absent}
    BY <1>2 DEF TypeOK, RemoveEntry, Kill, Target
  <2> QED
    BY <1>2, <2>1, <2>2, <2>3 DEF TypeOK, RemoveEntry, Change, Target, index, schedule
<1>3. ASSUME NEW t \in Outside, MakeOutside(t)
      PROVE  TypeOK'
  BY <1>3 DEF TypeOK, MakeOutside, Change, Target, inbox, streams, refresh, schedule
<1>4. ASSUME NEW t \in Outside, RemoveOutside(t)
      PROVE  TypeOK'
  BY <1>4 DEF TypeOK, RemoveOutside, Change, Kill, Target, index, refresh, schedule
<1>5. ASSUME NEW t \in Target, Edit(t)
      PROVE  TypeOK'
  BY <1>5 DEF TypeOK, Edit, Change, Reporting, streams, refresh, schedule
<1>6. ASSUME NEW d \in Dir, HandleNameless(d) \/ HandleDirEvent(d)
      PROVE  TypeOK'
  BY <1>6 DEF TypeOK, HandleNameless, HandleDirEvent, tree, index, streams, refresh
<1>7. ASSUME NEW d \in Dir, HandleFileEvent(d) \/ HandleSelfEvent(d)
      PROVE  TypeOK'
  BY <1>7 DEF TypeOK, HandleFileEvent, HandleSelfEvent, tree, index, streams, refresh
<1>8. ASSUME NEW d \in Dir, ArmGoneCheck(d)
      PROVE  TypeOK'
  BY <1>8 DEF TypeOK, ArmGoneCheck, tree, index, inbox, refresh, schedule
<1>9. ASSUME NEW d \in Dir, GoneCheckFires(d)
      PROVE  TypeOK'
  BY <1>9 DEF TypeOK, GoneCheckFires, UnwatchDir, tree, index, refresh
<1>10. ASSUME NEW d \in Dir, StreamFails(d)
       PROVE  TypeOK'
  BY <1>10 DEF TypeOK, StreamFails, UnwatchDir, tree, index, refresh, schedule
<1>11. CASE TreeTimerFires
  <2>1. /\ known' \in [Dir -> Target \cup {Absent}] /\ watched' \in [Dir -> Target \cup {Absent}]
        /\ on' \in [Dir -> Target \cup {Absent}]
    BY <1>11, WalkFacts DEF TreeTimerFires, TypeOK
  <2>2. dead' \cup goneChecks' \subseteq {d \in Dir : on'[d] # Absent}
    BY <1>11 DEF TreeTimerFires, Kept, TypeOK
  <2>3. {limited', missed', opening', unheard', treeTimer', needsFull', degraded'} \subseteq BOOLEAN
    BY <1>11 DEF TypeOK, TreeTimerFires
  <2> QED
    BY <1>11, <2>1, <2>2, <2>3 DEF TypeOK, TreeTimerFires, Wanted, Kept, tree, index
<1>12. CASE Exhausted
  BY <1>12 DEF TypeOK, Exhausted, tree, index
<1>13. CASE Sync
  BY <1>13, WalkFacts DEF TypeOK, Sync, tree, inbox, streams, refresh
<1>14. ASSUME NEW d \in Dir, OpenStream(d)
       PROVE  TypeOK'
  <2>1. RealPath(d) \in Target \cup {Absent}
    BY WalkFacts
  <2>2. CASE Open(d)
    <3>1. RealPath(d) # Absent
      BY <2>2 DEF Open
    <3>2. /\ watched' \in [Dir -> Target \cup {Absent}] /\ on' \in [Dir -> Target \cup {Absent}]
          /\ UNCHANGED <<limited, missed, dead, goneChecks>>
      BY <1>14, <2>1, <2>2 DEF Open, OpenStream, TypeOK
    <3>3. \A e \in Dir : on[e] # Absent => on'[e] # Absent
      BY <2>2, <3>1 DEF Open, TypeOK
    <3> QED
      BY <1>14, <3>2, <3>3 DEF TypeOK, OpenStream, Open, tree, index, inbox, schedule
  <2>3. CASE UNCHANGED <<watched, on>>
    BY <1>14, <2>3 DEF TypeOK, OpenStream, Open, tree, index, inbox, schedule
  <2> QED
    BY <1>14, <2>2, <2>3 DEF OpenStream
<1>15. CASE RefreshEnds
  BY <1>15 DEF TypeOK, RefreshEnds, tree, index, inbox, streams
<1> QED
  BY <1>0, <1>1, <1>2, <1>3, <1>4, <1>5, <1>6, <1>7, <1>8, <1>9, <1>10, <1>11,
     <1>12, <1>13, <1>14, <1>15 DEF Next, ChangeTree, Handle, Refresh, Work

-----------------------------------------------------------------------------
(* The tree and the streams.                                               *)

\* Only the two changes of an entry change the paths; only the walk and the
\* end of the watcher change what is known of them.
LEMMA Frames ==
    ASSUME [Next]_vars
    PROVE  /\ \/ UNCHANGED entry
              \/ \E d \in Dir : RemoveEntry(d) \/ \E t \in Target : MakeEntry(d, t)
           /\ UNCHANGED known \/ TreeTimerFires \/ Exhausted
<1>1. CASE UNCHANGED vars
  BY <1>1 DEF vars, tree, streams
<1>2. CASE ChangeTree
  BY <1>2 DEF ChangeTree, MakeEntry, RemoveEntry, MakeOutside, RemoveOutside, Edit, streams
<1>3. CASE Handle
  BY <1>3 DEF Handle, HandleNameless, HandleDirEvent, HandleFileEvent, HandleSelfEvent,
              ArmGoneCheck, GoneCheckFires, tree, streams
<1>4. CASE Refresh
  BY <1>4 DEF Refresh, OpenStream, RefreshEnds, tree, streams
<1>5. CASE Sync
  BY <1>5 DEF Sync, tree, streams
<1>6. CASE \E d \in Dir : StreamFails(d)
  BY <1>6 DEF StreamFails, tree
<1>7. CASE TreeTimerFires \/ Exhausted
  BY <1>7 DEF TreeTimerFires, Exhausted, tree
<1> QED
  BY <1>1, <1>2, <1>3, <1>4, <1>5, <1>6, <1>7 DEF Next, Work

\* A step keeps paths in plain directories and links to leaves.
LEMMA ShapeStep ==
    ASSUME TypeOK, TreeShape, [Next]_vars
    PROVE  TreeShape'
<1>0. \A d \in Dir : Above[d] \subseteq Dir /\ d \notin Above[d] /\ d # Absent
  BY TreeAssumption, TargetAssumption DEF Target
<1>1. ASSUME NEW e \in Dir, entry'[e] # Absent
      PROVE  /\ entry'[e] = e \/ Linkable(entry'[e])
             /\ \A a \in Above[e] : entry'[a] = a
  <2>1. CASE UNCHANGED entry
    BY <1>1, <2>1 DEF TreeShape
  <2>2. ASSUME NEW d \in Dir, NEW t \in Target, MakeEntry(d, t)
        PROVE  /\ entry'[e] = e \/ Linkable(entry'[e])
               /\ \A a \in Above[e] : entry'[a] = a
    <3>1. /\ entry[d] = Absent /\ \A a \in Above[d] : entry[a] = a
          /\ entry' = [entry EXCEPT ![d] = t] /\ (t = d \/ Linkable(t))
      BY <2>2 DEF MakeEntry
    <3>2. \A x \in Dir : entry'[x] = IF x = d THEN t ELSE entry[x]
      BY <3>1 DEF TypeOK
    <3>3. CASE e = d
      BY <1>0, <3>1, <3>2, <3>3
    <3>4. CASE e # d
      BY <1>0, <1>1, <3>1, <3>2, <3>4 DEF TreeShape
    <3> QED
      BY <3>3, <3>4
  <2>3. ASSUME NEW d \in Dir, RemoveEntry(d)
        PROVE  /\ entry'[e] = e \/ Linkable(entry'[e])
               /\ \A a \in Above[e] : entry'[a] = a
    <3>1. /\ \A c \in Dir : d \in Above[c] => entry[c] = Absent
          /\ \A x \in Dir : entry'[x] = IF x = d THEN Absent ELSE entry[x]
      BY <2>3 DEF RemoveEntry, TypeOK
    <3> QED
      BY <1>0, <1>1, <3>1 DEF TreeShape
  <2> QED
    BY <2>1, <2>2, <2>3, Frames
<1>2. ASSUME NEW e \in Dir, known'[e] # Absent
      PROVE  /\ known'[e] = e \/ Linkable(known'[e])
             /\ \A a \in Above[e] : known'[a] = a
             /\ \A f \in Dir : known'[f] = known'[e] => f = e
  <2>1. CASE UNCHANGED known
    BY <1>2, <2>1 DEF TreeShape
  <2>2. CASE TreeTimerFires
    <3>1. \A x \in Dir : known'[x] = Visited(x)
      BY <2>2, WalkFacts DEF TreeTimerFires
    <3> QED
      BY <1>0, <1>2, <3>1, WalkShape, WalkFacts
  <2>3. CASE Exhausted
    BY <1>2, <2>3 DEF Exhausted
  <2> QED
    BY <2>1, <2>2, <2>3, Frames
<1> QED
  BY <1>1, <1>2 DEF TreeShape, Linkable

\* Streams w that are open under one path each are one at most per directory.
LEMMA OneStreamEach ==
    ASSUME NEW w, NEW gone, NEW t \in Target,
           \A d, e \in Dir : w[d] # Absent /\ w[e] = w[d] => e = d
    PROVE  Cardinality({d \in Dir : w[d] = t /\ d \notin gone}) <= 1
<1> DEFINE S == {d \in Dir : w[d] = t /\ d \notin gone}
<1>1. CASE S = {}
  BY <1>1, FS_EmptySet
<1>2. ASSUME NEW d \in S
      PROVE  Cardinality(S) <= 1
  <2>1. S = {d}
    BY <1>2, TargetAssumption
  <2> QED
    BY <2>1, FS_Singleton
<1> QED
  BY <1>1, <1>2

\* Closing streams keeps their bound.
LEMMA FewerStreams ==
    ASSUME Streams <= Cap, \A d \in Dir : watched'[d] # Absent => watched[d] # Absent
    PROVE  Streams' <= Cap
<1> DEFINE S == {d \in Dir : watched[d] # Absent}
           T == {d \in Dir : watched'[d] # Absent}
<1>1. IsFiniteSet(S) /\ T \in SUBSET S
  BY DirAssumption, FS_Subset
<1>2. Cardinality(T) <= Cardinality(S) /\ Cardinality(S) \in Nat /\ Cardinality(T) \in Nat
  BY <1>1, FS_Subset, FS_CardinalityType
<1> QED
  BY <1>2, BoundAssumption DEF Streams

\* Steps other than those of a refresh open no stream.
LEMMA StreamsClose ==
    ASSUME TypeOK, StreamsAreKnown, [Next]_vars, ~TreeTimerFires, ~Exhausted,
           ~\E d \in Dir : OpenStream(d)
    PROVE  /\ \A d \in Dir : \/ watched'[d] = watched[d] /\ on'[d] = on[d]
                             \/ watched'[d] = Absent /\ on'[d] = Absent
           /\ UNCHANGED plan /\ (plan # {} => opening')
<1>1. CASE \E d \in Dir : GoneCheckFires(d) \/ StreamFails(d)
  <2>1. PICK d \in Dir : GoneCheckFires(d) \/ StreamFails(d)
    BY <1>1
  <2>2. plan = {} /\ UNCHANGED <<plan, opening>>
    BY <2>1 DEF GoneCheckFires, StreamFails, Idle, refresh, StreamsAreKnown
  <2>3. \A e \in Dir : \/ watched'[e] = watched[e] /\ on'[e] = on[e]
                       \/ watched'[e] = Absent /\ on'[e] = Absent
    BY <2>1 DEF GoneCheckFires, StreamFails, UnwatchDir, TypeOK
  <2> QED
    BY <2>2, <2>3
<1>2. CASE UNCHANGED vars
  BY <1>2 DEF vars, streams, refresh, StreamsAreKnown
<1>3. CASE ChangeTree
  BY <1>3 DEF ChangeTree, MakeEntry, RemoveEntry, MakeOutside, RemoveOutside,
              Edit, streams, refresh, StreamsAreKnown
<1>4. CASE Sync
  BY <1>4 DEF Sync, streams, refresh, StreamsAreKnown
<1>5. CASE \E d \in Dir : \/ HandleNameless(d) \/ HandleDirEvent(d) \/ HandleFileEvent(d)
                          \/ HandleSelfEvent(d) \/ ArmGoneCheck(d)
  BY <1>5 DEF HandleNameless, HandleDirEvent, HandleFileEvent, HandleSelfEvent,
              ArmGoneCheck, streams, refresh, StreamsAreKnown
<1>6. CASE RefreshEnds
  BY <1>6 DEF RefreshEnds, streams
<1> QED
  BY <1>1, <1>2, <1>3, <1>4, <1>5, <1>6 DEF Next, Work, Handle, Refresh

\* A step keeps the streams known.
LEMMA KnownStep ==
    ASSUME TypeOK, StreamsAreKnown, [Next]_vars
    PROVE  StreamsAreKnown'
<1>1. CASE TreeTimerFires
  <2>1. /\ \A d \in Dir : /\ known'[d] = Visited(d)
                          /\ watched'[d] = IF d \in Kept THEN watched[d] ELSE Absent
                          /\ on'[d] = IF d \in Kept THEN on[d] ELSE Absent
        /\ plan' = Wanted
    BY <1>1, WalkFacts DEF TreeTimerFires
  <2>2. opening'
    BY <1>1, Zenon DEF TreeTimerFires
  <2>3. \A d \in Kept : d \in Dir /\ watched[d] = Desired[d] /\ watched[d] # Absent
    BY DEF Kept
  <2>4. \A d \in Wanted : d \in Dir /\ d \notin Kept /\ Desired[d] # Absent
    BY DEF Wanted
  <2>5. \A d \in Dir : (watched'[d] = Absent) = (on'[d] = Absent)
    BY <2>1 DEF StreamsAreKnown
  <2> QED
    BY <2>1, <2>2, <2>3, <2>4, <2>5, WalkFacts DEF StreamsAreKnown
<1>2. CASE Exhausted
  BY <1>2 DEF Exhausted, StreamsAreKnown
<1>3. ASSUME NEW d \in Dir, OpenStream(d)
      PROVE  StreamsAreKnown'
  <2>1. d \in plan /\ plan' = plan \ {d} /\ UNCHANGED <<known, opening>> /\ known[d] # Absent
    BY <1>3 DEF OpenStream, StreamsAreKnown
  <2>2. opening
    BY <1>3, Zenon DEF OpenStream
  <2>3. CASE Open(d)
    <3>1. /\ \A e \in Dir : watched'[e] = IF e = d THEN known[d] ELSE watched[e]
          /\ \A e \in Dir : on'[e] = IF e = d THEN RealPath(d) ELSE on[e]
          /\ RealPath(d) # Absent
      BY <2>3 DEF Open, TypeOK
    <3> QED
      BY <2>1, <2>2, <3>1 DEF StreamsAreKnown
  <2>4. CASE UNCHANGED <<watched, on>>
    BY <2>1, <2>2, <2>4 DEF StreamsAreKnown
  <2> QED
    BY <1>3, <2>3, <2>4 DEF OpenStream
<1>4. CASE ~TreeTimerFires /\ ~Exhausted /\ ~\E d \in Dir : OpenStream(d)
  <2>1. UNCHANGED known
    BY <1>4, Frames
  <2>2. /\ \A d \in Dir : \/ watched'[d] = watched[d] /\ on'[d] = on[d]
                          \/ watched'[d] = Absent /\ on'[d] = Absent
        /\ UNCHANGED plan /\ (plan # {} => opening')
    BY <1>4, StreamsClose
  <2> QED
    BY <2>1, <2>2 DEF StreamsAreKnown
<1> QED
  BY <1>1, <1>2, <1>3, <1>4

\* A step keeps the bound of the streams.
LEMMA BoundStep ==
    ASSUME TypeOK, TypeOK', StreamsBounded, StreamsAreKnown, StreamsAreKnown', TreeShape',
           [Next]_vars
    PROVE  StreamsBounded'
<1>1. Streams' <= Cap
  <2>1. CASE TreeTimerFires \/ Exhausted
    <3>1. \A d \in Dir : watched'[d] # Absent => watched[d] # Absent
      BY <2>1 DEF TreeTimerFires, Exhausted
    <3> QED
      BY <3>1, FewerStreams DEF StreamsBounded
  <2>2. ASSUME NEW d \in Dir, OpenStream(d)
        PROVE  Streams' <= Cap
    <3>1. CASE Open(d) /\ Streams < Cap
      <4> DEFINE S == {e \in Dir : watched[e] # Absent}
      <4>1. watched[d] = Absent /\ known[d] # Absent
        BY <2>2 DEF OpenStream, StreamsAreKnown
      <4>2. \A e \in Dir : watched'[e] = IF e = d THEN known[d] ELSE watched[e]
        BY <3>1 DEF Open, TypeOK
      <4>3. {e \in Dir : watched'[e] # Absent} = S \cup {d}
        BY <4>1, <4>2
      <4>4. IsFiniteSet(S) /\ d \notin S
        BY <4>1, DirAssumption, FS_Subset
      <4>5. Cardinality(S \cup {d}) = Cardinality(S) + 1 /\ Cardinality(S) \in Nat
        BY <4>4, FS_AddElement, FS_CardinalityType
      <4>6. Cardinality(S) < Cap /\ Streams' = Cardinality(S \cup {d})
        BY <3>1, <4>3 DEF Streams
      <4> HIDE DEF S
      <4> QED
        BY <4>5, <4>6, BoundAssumption
    <3>2. CASE UNCHANGED <<watched, on>>
      BY <3>2 DEF Streams, StreamsBounded
    <3> QED
      BY <2>2, <3>1, <3>2 DEF OpenStream
  <2>3. CASE ~TreeTimerFires /\ ~Exhausted /\ ~\E d \in Dir : OpenStream(d)
    <3>1. \A d \in Dir : watched'[d] # Absent => watched[d] # Absent
      BY <2>3, StreamsClose
    <3> QED
      BY <3>1, FewerStreams DEF StreamsBounded
  <2> QED
    BY <2>1, <2>2, <2>3
<1>2. \A d, e \in Dir : watched'[d] # Absent /\ watched'[e] = watched'[d] => e = d
  BY DEF StreamsAreKnown, TreeShape
<1>3. \A t \in Target : Cardinality({d \in Dir : watched'[d] = t /\ d \notin dead'}) <= 1
  BY <1>2, OneStreamEach
<1> QED
  BY <1>1, <1>3 DEF StreamsBounded

\* A step moves no path back under a stream that was opened too late.
LEMMA OnStep ==
    ASSUME TypeOK, ~SameName, StreamsAreKnown, OnIsWatched, [Next]_vars
    PROVE  OnIsWatched'
<1> SUFFICES ASSUME NEW e \in Dir, watched'[e] # Absent, on'[e] # watched'[e]
             PROVE  entry'[e] # watched'[e]
  BY DEF OnIsWatched
<1>1. CASE TreeTimerFires
  <2>1. watched'[e] = watched[e] /\ on'[e] = on[e] /\ UNCHANGED entry
    BY <1>1 DEF TreeTimerFires, tree
  <2> QED
    BY <2>1 DEF OnIsWatched
<1>2. CASE Exhausted
  BY <1>2 DEF Exhausted
<1>3. ASSUME NEW d \in Dir, OpenStream(d)
      PROVE  entry'[e] # watched'[e]
  <2>0. UNCHANGED entry
    BY <1>3 DEF OpenStream, tree
  <2>1. CASE Open(d)
    <3>1. /\ \A x \in Dir : watched'[x] = IF x = d THEN known[d] ELSE watched[x]
          /\ \A x \in Dir : on'[x] = IF x = d THEN RealPath(d) ELSE on[x]
          /\ RealPath(d) # Absent
      BY <2>1 DEF Open, TypeOK
    <3>2. RealPath(d) = entry[d]
      BY <3>1, WalkFacts
    <3> QED
      BY <2>0, <3>1, <3>2 DEF OnIsWatched
  <2>2. CASE UNCHANGED <<watched, on>>
    BY <2>0, <2>2 DEF OnIsWatched
  <2> QED
    BY <1>3, <2>1, <2>2 DEF OpenStream
<1>4. CASE ~TreeTimerFires /\ ~Exhausted /\ ~\E d \in Dir : OpenStream(d)
  <2>1. watched'[e] = watched[e] /\ on'[e] = on[e] /\ known[e] = watched[e]
        /\ entry[e] # watched[e]
    BY <1>4, StreamsClose DEF StreamsAreKnown, OnIsWatched
  <2>2. CASE UNCHANGED entry
    BY <2>1, <2>2
  <2>3. ASSUME NEW d \in Dir, NEW t \in Target, MakeEntry(d, t)
        PROVE  entry'[e] # watched'[e]
    <3>1. known[d] # t /\ \A x \in Dir : entry'[x] = IF x = d THEN t ELSE entry[x]
      BY <2>3 DEF MakeEntry, TypeOK
    <3> QED
      BY <2>1, <3>1
  <2>4. ASSUME NEW d \in Dir, RemoveEntry(d)
        PROVE  entry'[e] # watched'[e]
    <3>1. \A x \in Dir : entry'[x] = IF x = d THEN Absent ELSE entry[x]
      BY <2>4 DEF RemoveEntry, TypeOK
    <3> QED
      BY <2>1, <3>1
  <2> QED
    BY <2>2, <2>3, <2>4, Frames
<1> QED
  BY <1>1, <1>2, <1>3, <1>4

\* A step does not bring back a directory that a dead stream is open on.
LEMMA DeadStep ==
    ASSUME TypeOK, ~SameName, StreamsAreKnown, DeadIsGone, [Next]_vars
    PROVE  DeadIsGone'
<1> USE TargetAssumption DEF DeadIsGone, Exists, Target
<1>0. CASE UNCHANGED vars
  BY <1>0 DEF vars, tree, streams
<1>1. ASSUME NEW d \in Dir, NEW t \in Target, MakeEntry(d, t)
      PROVE  DeadIsGone'
  BY <1>1 DEF TypeOK, MakeEntry, LetGo, streams
<1>2. ASSUME NEW d \in Dir, RemoveEntry(d)
      PROVE  DeadIsGone'
  BY <1>2 DEF TypeOK, RemoveEntry, Kill
<1>3. ASSUME NEW t \in Outside, MakeOutside(t)
      PROVE  DeadIsGone'
  BY <1>3 DEF TypeOK, MakeOutside, LetGo, streams
<1>4. ASSUME NEW t \in Outside, RemoveOutside(t)
      PROVE  DeadIsGone'
  BY <1>4 DEF TypeOK, RemoveOutside, Kill
<1>5. ASSUME NEW t \in Target, Edit(t)
      PROVE  DeadIsGone'
  BY <1>5 DEF Edit, streams
<1>6. ASSUME NEW d \in Dir, \/ HandleNameless(d) \/ HandleDirEvent(d) \/ HandleFileEvent(d)
                            \/ HandleSelfEvent(d) \/ ArmGoneCheck(d)
      PROVE  DeadIsGone'
  BY <1>6 DEF HandleNameless, HandleDirEvent, HandleFileEvent, HandleSelfEvent,
              ArmGoneCheck, tree, streams
<1>7. ASSUME NEW d \in Dir, GoneCheckFires(d) \/ StreamFails(d)
      PROVE  DeadIsGone'
  <2>1. UNCHANGED <<entry, there>>
    BY <1>7 DEF GoneCheckFires, StreamFails, tree
  <2>2. \A e \in dead' : e \in Dir /\ e \in dead /\ on'[e] = on[e]
    <3>1. CASE UNCHANGED <<dead, on>>
      BY <3>1 DEF TypeOK
    <3>2. CASE UnwatchDir(d)
      BY <3>2 DEF TypeOK, UnwatchDir
    <3> QED
      BY <1>7, <3>1, <3>2 DEF GoneCheckFires, StreamFails
  <2> QED
    BY <2>1, <2>2
<1>8. CASE TreeTimerFires
  <2>1. \A d \in dead' : d \in Dir /\ d \in dead /\ on'[d] = on[d]
    BY <1>8 DEF TreeTimerFires, Kept
  <2> QED
    BY <1>8, <2>1 DEF TreeTimerFires, tree
<1>9. CASE Exhausted
  BY <1>9 DEF Exhausted
<1>10. CASE Sync \/ RefreshEnds
  BY <1>10 DEF Sync, RefreshEnds, tree, streams
<1>11. ASSUME NEW d \in Dir, OpenStream(d)
       PROVE  DeadIsGone'
  <2>1. d \notin dead /\ UNCHANGED <<dead, entry, there>>
    BY <1>11 DEF OpenStream, StreamsAreKnown, TypeOK, tree
  <2>2. \A e \in dead : on'[e] = on[e]
    BY <1>11, <2>1 DEF OpenStream, Open, TypeOK
  <2> QED
    BY <2>1, <2>2
<1> QED
  BY <1>0, <1>1, <1>2, <1>3, <1>4, <1>5, <1>6, <1>7, <1>8, <1>9, <1>10, <1>11
     DEF Next, ChangeTree, Handle, Work, Refresh

-----------------------------------------------------------------------------
(* What is ahead of the watcher.                                           *)

\* The handlers leave the tree and the directories the index knows of as they
\* are, and take back nothing that is ahead.
LEMMA HandlersKeep ==
    ASSUME NEW d \in Dir,
           \/ HandleNameless(d) \/ HandleDirEvent(d) \/ HandleFileEvent(d)
           \/ HandleSelfEvent(d) \/ ArmGoneCheck(d) \/ GoneCheckFires(d)
           \/ StreamFails(d)
    PROVE  /\ UNCHANGED <<recursive, entry, there, known, seen, lag, degraded, opening,
                          plan, unheard>>
           /\ (treeTimer => treeTimer') /\ (needsFull => needsFull') /\ (missed => missed')
<1>1. UNCHANGED <<recursive, entry, there, known, seen, lag, degraded, opening, plan, unheard>>
  BY DEF HandleNameless, HandleDirEvent, HandleFileEvent, HandleSelfEvent,
         ArmGoneCheck, GoneCheckFires, StreamFails, tree, index, streams, refresh
<1>2. CASE HandleNameless(d)
  <2>1. treeTimer'
    BY <1>2, Zenon DEF HandleNameless
  <2>2. UNCHANGED <<needsFull, missed>>
    BY <1>2 DEF HandleNameless, streams
  <2> QED
    BY <1>1, <2>1, <2>2
<1>3. CASE HandleDirEvent(d)
  <2>1. (treeTimer => treeTimer') /\ (needsFull => needsFull')
    BY <1>3, Zenon DEF HandleDirEvent
  <2>2. UNCHANGED missed
    BY <1>3 DEF HandleDirEvent, streams
  <2> QED
    BY <1>1, <2>1, <2>2
<1>4. CASE HandleSelfEvent(d)
  <2>1. needsFull'
    BY <1>4, Zenon DEF HandleSelfEvent
  <2>2. UNCHANGED <<treeTimer, missed>>
    BY <1>4 DEF HandleSelfEvent, streams
  <2> QED
    BY <1>1, <2>1, <2>2
<1>5. CASE HandleFileEvent(d) \/ ArmGoneCheck(d)
  <2>1. UNCHANGED <<treeTimer, needsFull, missed>>
    BY <1>5 DEF HandleFileEvent, ArmGoneCheck, streams, schedule
  <2> QED
    BY <1>1, <2>1
<1>6. CASE GoneCheckFires(d)
  <2>1. treeTimer' = TRUE \/ UNCHANGED treeTimer
    BY <1>6 DEF GoneCheckFires
  <2>2. treeTimer => treeTimer'
    BY <2>1, Zenon
  <2>3. UNCHANGED <<needsFull, missed>>
    BY <1>6 DEF GoneCheckFires
  <2> QED
    BY <1>1, <2>2, <2>3
<1>7. CASE StreamFails(d)
  <2>1. missed'
    BY <1>7, Zenon DEF StreamFails
  <2>2. UNCHANGED <<treeTimer, needsFull>>
    BY <1>7 DEF StreamFails, schedule
  <2> QED
    BY <1>1, <2>1, <2>2
<1> QED
  BY <1>2, <1>3, <1>4, <1>5, <1>6, <1>7

\* An event on a path that leads elsewhere than it was known to, or nowhere,
\* asks for a refresh or a scan; the others stay.
LEMMA EventsAsk ==
    ASSUME NEW d \in Dir, HandleNameless(d) \/ HandleDirEvent(d)
    PROVE  /\ dirEvents' = dirEvents \ {d}
           /\ known[d] # RealPath(d) => treeTimer'
           /\ RealPath(d) = Absent => treeTimer' \/ needsFull'
           /\ UNCHANGED <<selfEvents, fileEvents, watched, on, dead, pending>>
<1>1. /\ dirEvents' = dirEvents \ {d}
      /\ UNCHANGED <<selfEvents, fileEvents, watched, on, dead, pending>>
  BY DEF HandleNameless, HandleDirEvent, streams
<1>2. CASE HandleNameless(d)
  <2>1. treeTimer'
    BY <1>2, Zenon DEF HandleNameless
  <2> QED
    BY <1>1, <2>1
<1>3. CASE HandleDirEvent(d)
  <2>1. (known[d] # RealPath(d) => treeTimer') /\ (RealPath(d) = Absent => needsFull')
    BY <1>3, Zenon DEF HandleDirEvent
  <2> QED
    BY <1>1, <2>1
<1> QED
  BY <1>2, <1>3

\* What a change of an entry does besides.
LEMMA EntryChange ==
    ASSUME TypeOK, ~SameName, TreeShape, NEW d \in Dir,
           RemoveEntry(d) \/ \E t \in Target : MakeEntry(d, t)
    PROVE  /\ UNCHANGED <<recursive, there, known, watched, on, opening, plan, treeTimer,
                          needsFull, pending, fileEvents, missed, degraded, seen>>
           /\ dirEvents \subseteq dirEvents' /\ (Heard(d) => d \in dirEvents')
           /\ unheard => unheard'
           /\ ~Heard(d) /\ Holder(d) \in plan => unheard'
           /\ \A a \in Above[d] : entry[a] = a
           /\ entry'[d] = Absent \/ entry'[d] # known[d]
           /\ \A e \in Dir \ {d} : entry'[e] = entry[e]
<1>1. CASE RemoveEntry(d)
  <2>1. entry[d] # Absent
    BY <1>1 DEF RemoveEntry
  <2>4. \A a \in Above[d] : entry[a] = a
    BY <2>1 DEF TreeShape
  <2>2. (unheard => unheard') /\ (~Heard(d) /\ Holder(d) \in plan => unheard')
    BY <1>1, Zenon DEF RemoveEntry, Report
  <2>3. \A e \in Dir : entry'[e] = IF e = d THEN Absent ELSE entry[e]
    BY <1>1 DEF RemoveEntry, TypeOK
  <2> QED
    BY <1>1, <2>2, <2>3, <2>4 DEF RemoveEntry, Report, index, schedule
<1>2. ASSUME NEW t \in Target, MakeEntry(d, t)
      PROVE  /\ UNCHANGED <<recursive, there, known, watched, on, opening, plan, treeTimer,
                            needsFull, pending, fileEvents, missed, degraded, seen>>
             /\ dirEvents \subseteq dirEvents' /\ (Heard(d) => d \in dirEvents')
             /\ unheard => unheard'
             /\ ~Heard(d) /\ Holder(d) \in plan => unheard'
             /\ \A a \in Above[d] : entry[a] = a
             /\ entry'[d] = Absent \/ entry'[d] # known[d]
             /\ \A e \in Dir \ {d} : entry'[e] = entry[e]
  <2>2. (unheard => unheard') /\ (~Heard(d) /\ Holder(d) \in plan => unheard')
    BY <1>2, Zenon DEF MakeEntry, Report
  <2>3. \A e \in Dir : entry'[e] = IF e = d THEN t ELSE entry[e]
    BY <1>2 DEF MakeEntry, TypeOK
  <2> QED
    BY <1>2, <2>2, <2>3 DEF MakeEntry, Report, streams, schedule
<1> QED
  BY <1>1, <1>2

\* A walk ahead stays ahead while what asks for it does.
LEMMA AheadKept ==
    ASSUME WalkAhead,
           \A p \in dirEvents : known[p] # Absent /\ known[p] # entry[p] =>
               \/ p \in dirEvents' /\ known'[p] # Absent /\ known'[p] # entry'[p]
               \/ treeTimer',
           treeTimer => treeTimer', missed => missed', degraded => degraded',
           unheard => unheard'
    PROVE  WalkAhead'
  BY DEF WalkAhead, GivenUp

\* A change of an entry takes back no walk that is ahead.
LEMMA AheadOfEntry ==
    ASSUME TypeOK, ~SameName, TreeShape, NEW d \in Dir,
           RemoveEntry(d) \/ \E t \in Target : MakeEntry(d, t), WalkAhead
    PROVE  WalkAhead'
<1>1. /\ UNCHANGED <<known, treeTimer, missed, degraded>> /\ (unheard => unheard')
      /\ dirEvents \subseteq dirEvents' /\ (entry'[d] = Absent \/ entry'[d] # known[d])
      /\ \A e \in Dir \ {d} : entry'[e] = entry[e]
  BY EntryChange
<1>2. dirEvents \subseteq Dir
  BY DEF TypeOK
<1> QED
  BY <1>1, <1>2, AheadKept

\* Only a walk takes back a walk that is ahead.
LEMMA AheadStays ==
    ASSUME TypeOK, ~SameName, TreeShape, [Next]_vars, ~TreeTimerFires, WalkAhead
    PROVE  WalkAhead'
<1>1. CASE \E d \in Dir : RemoveEntry(d) \/ \E t \in Target : MakeEntry(d, t)
  BY <1>1, AheadOfEntry
<1>2. CASE \E t \in Target : MakeOutside(t) \/ RemoveOutside(t) \/ Edit(t)
  <2>1. UNCHANGED <<entry, known, dirEvents, treeTimer, missed, degraded, unheard>>
    BY <1>2 DEF MakeOutside, RemoveOutside, Edit, inbox, streams, refresh, schedule
  <2> QED
    BY <2>1, AheadKept
<1>3. ASSUME NEW d \in Dir, HandleNameless(d) \/ HandleDirEvent(d)
      PROVE  WalkAhead'
  <2>1. /\ UNCHANGED <<entry, known, degraded, unheard>>
        /\ (treeTimer => treeTimer') /\ (missed => missed')
    BY <1>3, HandlersKeep
  <2>2. dirEvents' = dirEvents \ {d} /\ (known[d] # RealPath(d) => treeTimer')
    BY <1>3, EventsAsk
  <2>3. RealPath(d) = Absent \/ RealPath(d) = entry[d]
    BY WalkFacts
  <2>4. \A p \in dirEvents : known[p] # Absent /\ known[p] # entry[p] =>
            p \in dirEvents' \/ treeTimer'
    BY <2>2, <2>3
  <2> QED
    BY <2>1, <2>4, AheadKept
<1>4. ASSUME NEW d \in Dir, HandleFileEvent(d) \/ HandleSelfEvent(d) \/ ArmGoneCheck(d)
                            \/ GoneCheckFires(d) \/ StreamFails(d)
      PROVE  WalkAhead'
  <2>1. UNCHANGED dirEvents
    BY <1>4 DEF HandleFileEvent, HandleSelfEvent, ArmGoneCheck, GoneCheckFires, StreamFails, inbox
  <2>2. /\ UNCHANGED <<entry, known, degraded, unheard>>
        /\ (treeTimer => treeTimer') /\ (missed => missed')
    BY <1>4, HandlersKeep
  <2> QED
    BY <2>1, <2>2, AheadKept
<1>5. ASSUME NEW d \in Dir, OpenStream(d)
      PROVE  WalkAhead'
  <2>1. UNCHANGED <<entry, known, dirEvents, treeTimer, degraded, unheard>>
    BY <1>5 DEF OpenStream, tree, inbox, schedule
  <2>2. UNCHANGED missed \/ missed' = (missed \/ RealPath(d) # Absent)
    BY <1>5 DEF OpenStream, Open
  <2>3. missed => missed'
    BY <2>2, Zenon
  <2> QED
    BY <2>1, <2>3, AheadKept
<1>6. CASE RefreshEnds \/ Sync \/ UNCHANGED vars
  <2>1. UNCHANGED <<entry, known, dirEvents, treeTimer, missed, degraded, unheard>>
    BY <1>6 DEF RefreshEnds, Sync, vars, tree, inbox, streams, refresh, schedule
  <2> QED
    BY <2>1, AheadKept
<1>7. CASE Exhausted
  <2>1. degraded'
    BY <1>7, Zenon DEF Exhausted
  <2> QED
    BY <2>1 DEF WalkAhead, GivenUp
<1> QED
  BY <1>1, <1>2, <1>3, <1>4, <1>5, <1>6, <1>7
     DEF Next, ChangeTree, Handle, Work, Refresh, Target

\* A path that comes or goes is reported itself, or lies in a directory whose
\* own event is still to come.
LEMMA ReportTells ==
    ASSUME TypeOK, ~SameName, TreeShape, UnwatchedIsNews, NEW d \in Dir,
           RemoveEntry(d) \/ \E t \in Target : MakeEntry(d, t), ~WalkAhead'
    PROVE  \/ d \in dirEvents'
           \/ \E a \in dirEvents : known[a] = Absent /\ a \in Above[d]
<1>1. CASE Heard(d)
  BY <1>1, EntryChange
<1>2. CASE ~Heard(d)
  <2> DEFINE h == Holder(d)
  <2>1. h \in Above[d] /\ h \in Dir /\ Above[h] \subseteq Above[d] /\ Reporting(h) = {}
    BY <1>2, TreeAssumption DEF Heard
  <2> HIDE DEF h
  <2>2. entry[h] = h /\ h # Absent /\ h \notin Outside
    BY <2>1, EntryChange, TargetAssumption DEF Target
  <2>3. RealPath(h) = h
    BY <2>2 DEF RealPath, Exists
  <2>4. ~WalkAhead /\ ~unheard'
    BY AheadOfEntry DEF WalkAhead, GivenUp
  <2>5. h \notin plan
    BY <1>2, <2>4, EntryChange DEF h
  <2>6. \A p \in plan : known[p] # h
    <3>1. plan \subseteq Dir
      BY DEF TypeOK
    <3> QED
      BY <2>1, <2>2, <2>5, <3>1 DEF TreeShape, Linkable
  <2>7. NewsOf(h)
    BY <2>1, <2>2, <2>3, <2>4, <2>6 DEF UnwatchedIsNews
  <2> QED
    BY <2>1, <2>3, <2>7 DEF NewsOf, Within
<1> QED
  BY <1>1, <1>2

\* A step leaves a walk ahead for a path that has moved.
LEMMA MoveStep ==
    ASSUME TypeOK, ~SameName, TreeShape, UnwatchedIsNews, MoveIsReported, [Next]_vars
    PROVE  MoveIsReported'
<1> SUFFICES ASSUME NEW e \in Dir, known'[e] # Absent, known'[e] # entry'[e]
             PROVE  WalkAhead'
  BY DEF MoveIsReported
<1>1. CASE TreeTimerFires
  <2>1. known'[e] = Visited(e) /\ entry' = entry
    BY <1>1, WalkFacts DEF TreeTimerFires, tree
  <2> QED
    BY <2>1, WalkFacts
<1>2. CASE ~TreeTimerFires /\ known[e] # Absent /\ known[e] # entry[e]
  BY <1>2, AheadStays DEF MoveIsReported
<1>3. CASE Exhausted
  BY <1>3 DEF Exhausted
<1>4. CASE UNCHANGED known /\ known[e] = entry[e]
  <2>1. entry'[e] # entry[e]
    BY <1>4
  <2>2. PICK d \in Dir : RemoveEntry(d) \/ \E t \in Target : MakeEntry(d, t)
    BY <2>1, Frames
  <2>3. e = d
    BY <2>1, <2>2, EntryChange
  <2>4. \A a \in Above[d] : known[a] = a /\ a # Absent
    BY <1>4, <2>3, TreeAssumption, TargetAssumption DEF TreeShape, Target
  <2> SUFFICES ASSUME ~WalkAhead'
               PROVE  FALSE
    OBVIOUS
  <2>5. d \in dirEvents'
    BY <2>2, <2>4, ReportTells
  <2> QED
    BY <2>3, <2>5 DEF WalkAhead
<1> QED
  BY <1>1, <1>2, <1>3, <1>4, Frames

-----------------------------------------------------------------------------
(* Directories without a stream.                                           *)

\* What changes of the tree do to where paths lead.
LEMMA PathsMove ==
    ASSUME TypeOK
    PROVE  /\ \A d \in Dir, t \in Target : MakeEntry(d, t) => \A e \in Dir :
                 \/ RealPath(e)' = RealPath(e)
                 \/ e = d /\ RealPath(e)' \in {t, Absent}
                 \/ t = d /\ RealPath(e)' = d
           /\ \A d \in Dir : RemoveEntry(d) => \A e \in Dir :
                 RealPath(e)' # Absent => RealPath(e)' = RealPath(e) /\ e # d
                                          /\ (entry[d] = d => RealPath(e) # d)
           /\ \A t \in Outside : MakeOutside(t) => \A e \in Dir : RealPath(e)' = RealPath(e)
           /\ \A t \in Outside : RemoveOutside(t) => \A e \in Dir :
                 IF RealPath(e) = t THEN RealPath(e)' = Absent
                                    ELSE RealPath(e)' = RealPath(e)
<1> USE TargetAssumption DEF TypeOK, RealPath, Exists, Target
<1>1. ASSUME NEW d \in Dir, NEW t \in Target, MakeEntry(d, t), NEW e \in Dir
      PROVE  \/ RealPath(e)' = RealPath(e)
             \/ e = d /\ RealPath(e)' \in {t, Absent}
             \/ t = d /\ RealPath(e)' = d
  BY <1>1 DEF MakeEntry
<1>2. ASSUME NEW d \in Dir, RemoveEntry(d), NEW e \in Dir, RealPath(e)' # Absent
      PROVE  RealPath(e)' = RealPath(e) /\ e # d /\ (entry[d] = d => RealPath(e) # d)
  BY <1>2 DEF RemoveEntry
<1>3. ASSUME NEW t \in Outside, MakeOutside(t), NEW e \in Dir
      PROVE  RealPath(e)' = RealPath(e)
  BY <1>3 DEF MakeOutside
<1>4. ASSUME NEW t \in Outside, RemoveOutside(t), NEW e \in Dir
      PROVE  IF RealPath(e) = t THEN RealPath(e)' = Absent
                                ELSE RealPath(e)' = RealPath(e)
  BY <1>4 DEF RemoveOutside
<1> QED
  BY <1>1, <1>2, <1>3, <1>4

\* News of a path that leads somewhere is about a directory that is there.
LEMMA NewsLeads ==
    ASSUME TypeOK, TreeShape, NEW e \in Dir, RealPath(e) # Absent, NEW a \in Dir,
           Within(a, e) \/ (RealPath(e) \in Dir /\ Within(a, RealPath(e)))
    PROVE  RealPath(a) # Absent
<1>1. entry[e] # Absent /\ entry[e] = RealPath(e) /\ Exists(entry[e])
  BY WalkFacts
<1>2. CASE a = e
  BY <1>2
<1>3. ASSUME NEW b \in Dir, entry[b] = b
      PROVE  RealPath(b) = b /\ b # Absent
  BY <1>3, TargetAssumption DEF RealPath, Exists, Target
<1>4. CASE a \in Above[e]
  BY <1>1, <1>3, <1>4 DEF TreeShape
<1>5. CASE RealPath(e) \in Dir /\ Within(a, RealPath(e))
  <2> DEFINE r == entry[e]
  <2>1. r \in Dir /\ entry[r] = r /\ r # Absent
    BY <1>1, <1>5, TargetAssumption DEF Exists, Target
  <2>2. a = r \/ a \in Above[r]
    BY <1>1, <1>5 DEF Within
  <2> HIDE DEF r
  <2> QED
    BY <1>3, <2>1, <2>2 DEF TreeShape
<1> QED
  BY <1>2, <1>4, <1>5 DEF Within

\* A walk finds for every directory that can be reached a stream that is alive,
\* or plans one.
LEMMA WalkCovers ==
    ASSUME TypeOK, OnIsWatched, DeadIsGone, TreeTimerFires,
           NEW d \in Dir, RealPath(d) # Absent
    PROVE  Reporting(RealPath(d))' # {} \/ \E p \in plan' : known'[p] = RealPath(d)'
<1>1. PICK p \in Dir : RealPath(p) = RealPath(d) /\ Visited(p) = RealPath(d)
  BY WalkFacts
<1>2. recursive' = recursive /\ RealPath(d)' = RealPath(d)
  BY PathsStay DEF TreeTimerFires, tree
<1>3. CASE recursive /\ entry[p] = p
  BY <1>1, <1>2, <1>3, WalkFacts DEF Reporting
<1>4. ASSUME ~(recursive /\ entry[p] = p), p \in Kept
      PROVE  Reporting(RealPath(d))' # {}
  <2>1. watched[p] = RealPath(p) /\ watched[p] # Absent
    BY <1>1, <1>4, WalkFacts DEF Kept
  <2>2. on[p] = RealPath(p) /\ Exists(on[p])
    BY <1>1, <2>1, WalkFacts DEF OnIsWatched
  <2>3. p \notin dead'
    BY <2>2 DEF DeadIsGone, TreeTimerFires
  <2>4. on'[p] = on[p]
    BY <1>4 DEF TreeTimerFires
  <2> QED
    BY <1>1, <1>2, <2>2, <2>3, <2>4 DEF Reporting
<1>5. ASSUME ~(recursive /\ entry[p] = p), p \notin Kept
      PROVE  p \in plan' /\ known'[p] = RealPath(d)'
  <2>1. Desired[p] = RealPath(d)
    BY <1>1, <1>5, WalkFacts
  <2>2. p \in plan'
    BY <1>5, <2>1 DEF TreeTimerFires, Wanted
  <2>3. known'[p] = Visited(p)
    BY WalkFacts DEF TreeTimerFires
  <2> QED
    BY <1>1, <1>2, <2>2, <2>3
<1> QED
  BY <1>3, <1>4, <1>5

\* A path that is made is news, to itself and to links that lead to it.
LEMMA MadeIsNews ==
    ASSUME TypeOK, ~SameName, TreeShape, UnwatchedIsNews, NEW d \in Dir, NEW t \in Target,
           MakeEntry(d, t), ~WalkAhead', NEW e \in Dir, e = d \/ RealPath(e)' = d
    PROVE  NewsOf(e)'
<1>1. /\ UNCHANGED known /\ dirEvents \subseteq dirEvents'
      /\ entry'[d] = Absent \/ entry'[d] # known[d]
  BY EntryChange
<1>2. entry'[d] = t /\ t # Absent
  BY TargetAssumption DEF MakeEntry, TypeOK
<1>3. PICK a \in dirEvents' : known[a] = Absent /\ Within(a, d)
  <2>1. CASE d \in dirEvents'
    BY <1>1, <1>2, <2>1 DEF WalkAhead, Within
  <2>2. CASE \E a \in dirEvents : known[a] = Absent /\ a \in Above[d]
    BY <1>1, <2>2 DEF Within
  <2> QED
    BY <2>1, <2>2, ReportTells
<1> QED
  BY <1>1, <1>3 DEF NewsOf, Within

\* A step leaves news, a walk or an opening ahead for a directory without a
\* stream.
LEMMA UnwatchedStep ==
    ASSUME TypeOK, TypeOK', ~SameName, TreeShape, StreamsAreKnown, OnIsWatched, DeadIsGone,
           MoveIsReported, UnwatchedIsNews, [Next]_vars
    PROVE  UnwatchedIsNews'
<1> SUFFICES ASSUME NEW e \in Dir, RealPath(e)' # Absent, Reporting(RealPath(e))' = {},
                    ~WalkAhead', \A p \in plan' : known'[p] # RealPath(e)'
             PROVE  NewsOf(e)'
  BY DEF UnwatchedIsNews
<1>t. ~TreeTimerFires
  <2> SUFFICES ASSUME TreeTimerFires
               PROVE  FALSE
    OBVIOUS
  <2>1. RealPath(e)' = RealPath(e)
    BY PathsStay DEF TreeTimerFires, tree
  <2> QED
    BY <2>1, WalkCovers
<1>a. ~WalkAhead
  BY <1>t, AheadStays
<1>n. ASSUME RealPath(e) = RealPath(e)', Reporting(RealPath(e)) = {},
             \A p \in plan : known[p] # RealPath(e)
      PROVE  NewsOf(e)
  BY <1>a, <1>n DEF UnwatchedIsNews
<1>k. ASSUME RealPath(e) = RealPath(e)', NewsOf(e), dirEvents \subseteq dirEvents',
             UNCHANGED known
      PROVE  NewsOf(e)'
  BY <1>k DEF NewsOf, Within
<1>1. ASSUME NEW d \in Dir, NEW t \in Target, MakeEntry(d, t)
      PROVE  NewsOf(e)'
  <2>1. /\ UNCHANGED <<recursive, on, known, plan>> /\ dirEvents \subseteq dirEvents'
        /\ entry'[d] = Absent \/ entry'[d] # known[d]
    BY <1>1, EntryChange
  <2>2. UNCHANGED dead /\ entry'[d] = t /\ t # Absent
    BY <1>1, TargetAssumption DEF MakeEntry, streams, TypeOK
  <2>3. CASE RealPath(e)' = RealPath(e)
    <3>1. Reporting(RealPath(e))' = Reporting(RealPath(e))
      BY <2>1, <2>2, <2>3 DEF Reporting
    <3> QED
      BY <1>n, <1>k, <2>1, <2>3, <3>1
  <2>4. CASE e = d \/ RealPath(e)' = d
    BY <1>1, <2>4, MadeIsNews
  <2> QED
    BY <1>1, <2>3, <2>4, PathsMove
<1>2. ASSUME NEW d \in Dir, RemoveEntry(d)
      PROVE  NewsOf(e)'
  <2>1. UNCHANGED <<recursive, on, known, plan>> /\ dirEvents \subseteq dirEvents'
    BY <1>2, EntryChange
  <2>3. RealPath(e)' = RealPath(e) /\ e # d /\ (entry[d] = d => RealPath(e) # d)
    BY <1>2, PathsMove
  <2>4. Reporting(RealPath(e)) = {}
    BY <1>2, <2>1, <2>3 DEF RemoveEntry, Kill, Reporting
  <2> QED
    BY <1>n, <1>k, <2>1, <2>3, <2>4
<1>3. ASSUME NEW t \in Outside, MakeOutside(t) \/ RemoveOutside(t)
      PROVE  NewsOf(e)'
  <2>1. UNCHANGED <<recursive, on, known, plan, dirEvents>>
    BY <1>3 DEF MakeOutside, RemoveOutside, inbox, streams, refresh
  <2>2. RealPath(e)' = RealPath(e) /\ (RemoveOutside(t) => RealPath(e) # t)
    BY <1>3, PathsMove
  <2>3. Reporting(RealPath(e)) = {}
    BY <1>3, <2>1, <2>2 DEF MakeOutside, RemoveOutside, Kill, Reporting, streams
  <2> QED
    BY <1>n, <1>k, <2>1, <2>2, <2>3
<1>4. ASSUME UNCHANGED <<recursive, entry, there, on, dead, known, plan, dirEvents>>
      PROVE  NewsOf(e)'
  <2>1. RealPath(e)' = RealPath(e)
    BY <1>4, PathsStay
  <2>2. Reporting(RealPath(e))' = Reporting(RealPath(e))
    BY <1>4, <2>1 DEF Reporting
  <2> QED
    BY <1>4, <1>n, <1>k, <2>1, <2>2
<1>5. ASSUME NEW t \in Target, Edit(t)
      PROVE  NewsOf(e)'
  BY <1>4, <1>5 DEF Edit, streams, refresh
<1>6. ASSUME NEW d \in Dir, HandleNameless(d) \/ HandleDirEvent(d)
      PROVE  NewsOf(e)'
  <2>1. UNCHANGED <<recursive, entry, there, known, plan>>
    BY <1>6, HandlersKeep
  <2>2. /\ dirEvents' = dirEvents \ {d} /\ (known[d] # RealPath(d) => treeTimer')
        /\ UNCHANGED <<on, dead>>
    BY <1>6, EventsAsk
  <2>3. RealPath(e)' = RealPath(e)
    BY <2>1, PathsStay
  <2>4. Reporting(RealPath(e))' = Reporting(RealPath(e))
    BY <2>1, <2>2, <2>3 DEF Reporting
  <2>5. NewsOf(e)
    BY <1>n, <2>1, <2>3, <2>4
  <2>6. PICK a \in dirEvents : known[a] = Absent
           /\ (Within(a, e) \/ (RealPath(e) \in Dir /\ Within(a, RealPath(e))))
    BY <2>5 DEF NewsOf
  <2>7. RealPath(a) # Absent
    BY <2>3, <2>6, NewsLeads DEF TypeOK
  <2>8. a # d
    BY <2>2, <2>6, <2>7 DEF WalkAhead
  <2> QED
    BY <2>1, <2>2, <2>3, <2>6, <2>8 DEF NewsOf, Within
<1>7. ASSUME NEW d \in Dir, HandleFileEvent(d) \/ HandleSelfEvent(d) \/ ArmGoneCheck(d)
      PROVE  NewsOf(e)'
  <2>1. UNCHANGED <<recursive, entry, there, on, dead, known, plan, dirEvents>>
    BY <1>7 DEF HandleFileEvent, HandleSelfEvent, ArmGoneCheck, tree, streams, refresh, inbox
  <2> QED
    BY <1>4, <2>1
<1>8. ASSUME NEW d \in Dir, GoneCheckFires(d)
      PROVE  NewsOf(e)'
  <2>1. treeTimer' = TRUE \/ UNCHANGED <<on, dead>>
    BY <1>8 DEF GoneCheckFires
  <2>2. treeTimer' \/ UNCHANGED <<on, dead>>
    BY <2>1, Zenon
  <2>3. UNCHANGED <<recursive, entry, there, known, plan, dirEvents>>
    BY <1>8 DEF GoneCheckFires, tree, refresh
  <2> QED
    BY <1>4, <2>2, <2>3 DEF WalkAhead
<1>9. ASSUME NEW d \in Dir, StreamFails(d)
      PROVE  NewsOf(e)'
  <2>1. missed'
    BY <1>9, Zenon DEF StreamFails
  <2> QED
    BY <2>1 DEF WalkAhead, GivenUp
<1>10. ASSUME NEW d \in Dir, OpenStream(d)
       PROVE  NewsOf(e)'
  <2>1. /\ UNCHANGED <<recursive, entry, there, known, dead, dirEvents>>
        /\ plan' = plan \ {d} /\ d \in plan
    BY <1>10 DEF OpenStream, tree, inbox
  <2>2. RealPath(e)' = RealPath(e) /\ RealPath(d)' = RealPath(d)
    BY <2>1, PathsStay
  <2>3. watched[d] = Absent /\ on[d] = Absent /\ known[d] # Absent /\ d \notin dead
    BY <2>1 DEF StreamsAreKnown, TypeOK
  <2>4. \A x \in Dir \ {d} : on'[x] = on[x]
    BY <1>10 DEF OpenStream, Open, TypeOK
  <2>5. Reporting(RealPath(e)) = {}
    BY <2>1, <2>2, <2>3, <2>4 DEF Reporting
  <2>6. known[d] # RealPath(e)
    <3> SUFFICES ASSUME known[d] = RealPath(e)
                 PROVE  FALSE
      OBVIOUS
    <3>1. known[d] = entry[d]
      BY <1>a, <2>3 DEF MoveIsReported
    <3>2. RealPath(d) = RealPath(e)
      BY <2>2, <2>3, <3>1, WalkFacts DEF RealPath
    <3>3. CASE Open(d)
      <4>1. on'[d] = RealPath(d)
        BY <3>3 DEF Open, TypeOK
      <4> QED
        BY <2>1, <2>2, <2>3, <3>2, <4>1 DEF Reporting
    <3>4. CASE missed' = (missed \/ RealPath(d) # Absent)
      <4>1. RealPath(d) # Absent
        BY <2>2, <3>2
      <4>2. missed'
        BY <3>4, <4>1, Zenon
      <4> QED
        BY <4>2 DEF WalkAhead, GivenUp
    <3> QED
      BY <1>10, <3>3, <3>4 DEF OpenStream
  <2>7. \A p \in plan : known[p] # RealPath(e)
    BY <2>1, <2>2, <2>6
  <2> QED
    BY <1>n, <1>k, <2>1, <2>2, <2>5, <2>7
<1>11. CASE Exhausted
  <2>1. degraded'
    BY <1>11, Zenon DEF Exhausted
  <2> QED
    BY <2>1 DEF WalkAhead, GivenUp
<1>12. CASE Sync \/ RefreshEnds \/ UNCHANGED vars
  BY <1>4, <1>12 DEF Sync, RefreshEnds, vars, tree, inbox, streams, refresh
<1> QED
  BY <1>t, <1>1, <1>2, <1>3, <1>5, <1>6, <1>7, <1>8, <1>9, <1>10, <1>11, <1>12
     DEF Next, ChangeTree, Handle, Work, Refresh

-----------------------------------------------------------------------------
(* Edits and the index.                                                    *)

\* A step leaves ahead what brings an edit to a sync.
LEMMA EditStep ==
    ASSUME TypeOK, TypeOK', ~SameName, TreeShape, StreamsAreKnown, OnIsWatched,
           MoveIsReported, MoveIsReported', UnwatchedIsNews, EditIsAhead, [Next]_vars
    PROVE  EditIsAhead'
<1> DEFINE
    Told(e) == \E p \in fileEvents \cup pending :
                   entry[p] = RealPath(e) /\ (p = RealPath(e) \/ known[p] = RealPath(e))
<1> SUFFICES ASSUME NEW e \in Dir, RealPath(e)' \in lag', ~WalkAhead', ~opening', ~needsFull'
             PROVE  Told(e)' \/ NewsOf(e)'
  BY DEF EditIsAhead
<1>t. ~TreeTimerFires
  <2> SUFFICES ASSUME TreeTimerFires
               PROVE  opening'
    OBVIOUS
  <2> QED
    BY Zenon DEF TreeTimerFires
<1>w. ~WalkAhead
  BY <1>t, AheadStays
<1>n. ASSUME RealPath(e) \in lag, ~opening, ~needsFull
      PROVE  Told(e) \/ NewsOf(e)
  BY <1>n, <1>w DEF EditIsAhead
<1>k. ASSUME RealPath(e) = RealPath(e)', NewsOf(e), dirEvents \subseteq dirEvents',
             UNCHANGED known
      PROVE  NewsOf(e)'
  BY <1>k DEF NewsOf, Within
<1>a. RealPath(e)' # Absent
  BY TargetAssumption DEF TypeOK
<1>1. ASSUME NEW d \in Dir, NEW t \in Target, MakeEntry(d, t)
      PROVE  Told(e)' \/ NewsOf(e)'
  <2>1. /\ UNCHANGED <<fileEvents, pending, known, opening, needsFull>>
        /\ dirEvents \subseteq dirEvents' /\ \A x \in Dir \ {d} : entry'[x] = entry[x]
    BY <1>1, EntryChange
  <2>2. entry[d] = Absent /\ (lag' = lag \/ (t = d /\ lag' = lag \cup {d}))
    BY <1>1 DEF MakeEntry
  <2>3. CASE e = d \/ RealPath(e)' = d
    BY <1>1, <2>3, MadeIsNews
  <2>4. CASE RealPath(e)' = RealPath(e) /\ RealPath(e) \in lag
    <3>1. Told(e) \/ NewsOf(e)
      BY <1>n, <2>1, <2>4
    <3>2. fileEvents \cup pending \subseteq Dir
      BY DEF TypeOK
    <3>3. Told(e) => Told(e)'
      BY <1>a, <2>1, <2>2, <2>4, <3>2
    <3> HIDE DEF Told
    <3> QED
      BY <1>k, <2>1, <2>4, <3>1, <3>3
  <2> QED
    BY <1>1, <2>2, <2>3, <2>4, PathsMove
<1>2. ASSUME NEW d \in Dir, RemoveEntry(d)
      PROVE  Told(e)' \/ NewsOf(e)'
  <2>1. /\ UNCHANGED <<fileEvents, pending, known, opening, needsFull>>
        /\ dirEvents \subseteq dirEvents' /\ \A x \in Dir \ {d} : entry'[x] = entry[x]
    BY <1>2, EntryChange
  <2>2. UNCHANGED lag /\ entry'[d] = Absent
    BY <1>2 DEF RemoveEntry, index, TypeOK
  <2>3. RealPath(e)' = RealPath(e) /\ e # d /\ (entry[d] = d => RealPath(e) # d)
    BY <1>2, <1>a, PathsMove
  <2>4. Told(e) \/ NewsOf(e)
    BY <1>n, <2>1, <2>2, <2>3
  <2>5. known[d] = Absent
    BY <2>1, <2>2 DEF MoveIsReported
  <2>6. fileEvents \cup pending \subseteq Dir
    BY DEF TypeOK
  <2>7. Told(e) => Told(e)'
    BY <1>a, <2>1, <2>3, <2>5, <2>6
  <2> HIDE DEF Told
  <2> QED
    BY <1>k, <2>1, <2>3, <2>4, <2>7
<1>3. ASSUME NEW t \in Outside, MakeOutside(t) \/ RemoveOutside(t)
      PROVE  Told(e)' \/ NewsOf(e)'
  <2>1. UNCHANGED <<entry, known, dirEvents, fileEvents, pending, opening, needsFull>>
    BY <1>3 DEF MakeOutside, RemoveOutside, inbox, streams, refresh, schedule
  <2>2. RealPath(e)' = RealPath(e)
    BY <1>3, <1>a, PathsMove
  <2>3. RealPath(e) \in lag
    <3>1. CASE MakeOutside(t)
      <4>1. RealPath(e) # t
        BY <3>1, TargetAssumption DEF MakeOutside, RealPath, Target
      <4> QED
        BY <2>2, <3>1, <4>1 DEF MakeOutside
    <3>2. CASE RemoveOutside(t)
      BY <2>2, <3>2 DEF RemoveOutside, index
    <3> QED
      BY <1>3, <3>1, <3>2
  <2> QED
    BY <1>n, <1>k, <2>1, <2>2, <2>3
<1>4. ASSUME NEW t \in Target, Edit(t)
      PROVE  Told(e)' \/ NewsOf(e)'
  <2>1. /\ UNCHANGED <<recursive, entry, there, known, dirEvents, pending, opening, needsFull>>
        /\ lag' = lag \cup {t} /\ fileEvents' = fileEvents \cup Reporting(t)
    BY <1>4 DEF Edit, streams, refresh, schedule
  <2>3. RealPath(e)' = RealPath(e)
    BY <2>1, PathsStay
  <2>4. CASE RealPath(e) \in lag
    BY <1>n, <1>k, <2>1, <2>3, <2>4
  <2>5. CASE RealPath(e) = t /\ Reporting(t) = {}
    <3>1. plan = {}
      BY <2>1 DEF StreamsAreKnown
    <3>2. NewsOf(e)
      BY <1>a, <1>w, <2>3, <2>5, <3>1 DEF UnwatchedIsNews
    <3> QED
      BY <1>k, <2>1, <2>3, <3>2
  <2>6. ASSUME RealPath(e) = t, NEW p \in Reporting(t)
        PROVE  Told(e)'
    <3>1. CASE p = t /\ p \in Dir
      <4>1. Exists(t)
        BY <1>4 DEF Edit
      <4>2. entry[p] = t
        BY <3>1, <4>1, TargetAssumption DEF Exists, Target
      <4> QED
        BY <2>1, <2>3, <2>6, <3>1, <4>2
    <3>2. CASE p \in Dir /\ on[p] = t
      <4>1. watched[p] # Absent /\ known[p] = watched[p]
        BY <1>a, <2>3, <2>6, <3>2 DEF StreamsAreKnown
      <4>2. entry[p] = known[p]
        BY <1>w, <3>2, <4>1 DEF MoveIsReported
      <4>3. on[p] = watched[p]
        BY <3>2, <4>1, <4>2 DEF OnIsWatched
      <4> QED
        BY <2>1, <2>3, <2>6, <3>2, <4>1, <4>2, <4>3
    <3> QED
      BY <2>6, <3>1, <3>2 DEF Reporting
  <2> HIDE DEF Told
  <2> QED
    BY <2>1, <2>3, <2>4, <2>5, <2>6
<1>5. ASSUME NEW d \in Dir, HandleNameless(d) \/ HandleDirEvent(d)
      PROVE  Told(e)' \/ NewsOf(e)'
  <2>1. /\ UNCHANGED <<recursive, entry, there, known, lag, opening>>
        /\ (needsFull => needsFull')
    BY <1>5, HandlersKeep
  <2>2. /\ dirEvents' = dirEvents \ {d} /\ (known[d] # RealPath(d) => treeTimer')
        /\ UNCHANGED <<fileEvents, pending>>
    BY <1>5, EventsAsk
  <2>3. RealPath(e)' = RealPath(e)
    BY <2>1, PathsStay
  <2>4. Told(e) \/ NewsOf(e)
    BY <1>n, <2>1, <2>3
  <2>5. CASE Told(e)
    BY <2>1, <2>2, <2>3, <2>5
  <2>6. CASE NewsOf(e)
    <3>1. PICK a \in dirEvents : known[a] = Absent
             /\ (Within(a, e) \/ (RealPath(e) \in Dir /\ Within(a, RealPath(e))))
      BY <2>6 DEF NewsOf
    <3>2. RealPath(a) # Absent
      BY <1>a, <2>3, <3>1, NewsLeads DEF TypeOK
    <3>3. a # d
      BY <2>2, <3>1, <3>2 DEF WalkAhead
    <3>4. NewsOf(e)'
      BY <2>1, <2>2, <2>3, <3>1, <3>3 DEF NewsOf, Within
    <3> QED
      BY <3>4
  <2> QED
    BY <2>4, <2>5, <2>6
<1>6. ASSUME NEW d \in Dir, HandleFileEvent(d) \/ HandleSelfEvent(d) \/ ArmGoneCheck(d)
                            \/ GoneCheckFires(d) \/ StreamFails(d)
      PROVE  Told(e)' \/ NewsOf(e)'
  <2>1. /\ UNCHANGED <<recursive, entry, there, known, lag, opening>>
        /\ (needsFull => needsFull')
    BY <1>6, HandlersKeep
  <2>2. /\ UNCHANGED dirEvents
        /\ fileEvents \cup pending \subseteq fileEvents' \cup pending'
    BY <1>6 DEF HandleFileEvent, HandleSelfEvent, ArmGoneCheck, GoneCheckFires,
                StreamFails, schedule, inbox
  <2>3. RealPath(e)' = RealPath(e)
    BY <2>1, PathsStay
  <2> QED
    BY <1>n, <1>k, <2>1, <2>2, <2>3
<1>7. CASE RefreshEnds
  <2>1. needsFull'
    BY <1>7, Zenon DEF RefreshEnds
  <2> QED
    BY <2>1
<1>8. CASE Exhausted
  <2>1. degraded'
    BY <1>8, Zenon DEF Exhausted
  <2> QED
    BY <2>1 DEF WalkAhead, GivenUp
<1>9. CASE Sync
  <2>1. /\ UNCHANGED <<recursive, entry, there, known, dirEvents, fileEvents, opening>>
        /\ lag' = {} \/ (~needsFull /\ lag' = lag \ {RealPath(d) : d \in pending})
    BY <1>9 DEF Sync, tree, inbox, streams, refresh
  <2>2. RealPath(e)' = RealPath(e)
    BY <2>1, PathsStay
  <2>3. RealPath(e) \in lag /\ ~needsFull /\ \A p \in pending : RealPath(p) # RealPath(e)
    BY <2>1, <2>2
  <2>4. \A p \in pending : entry[p] # RealPath(e)
    BY <1>a, <2>2, <2>3, WalkFacts DEF RealPath
  <2>5. Told(e) \/ NewsOf(e)
    BY <1>n, <2>1, <2>3
  <2>6. Told(e) => Told(e)'
    BY <2>1, <2>2, <2>4
  <2> HIDE DEF Told
  <2> QED
    BY <1>k, <2>1, <2>2, <2>5, <2>6
<1>10. CASE UNCHANGED vars
  <2>1. UNCHANGED <<recursive, entry, there, known, lag, dirEvents, fileEvents, pending,
                    opening, needsFull>>
    BY <1>10 DEF vars, tree, index, inbox, streams, refresh, schedule
  <2> QED
    BY <1>n, <1>k, <2>1, PathsStay
<1>11. ASSUME NEW d \in Dir, OpenStream(d)
       PROVE  Told(e)' \/ NewsOf(e)'
  <2>1. opening /\ opening' = opening
    BY <1>11, Zenon DEF OpenStream
  <2> QED
    BY <2>1
<1> QED
  BY <1>t, <1>1, <1>2, <1>3, <1>4, <1>5, <1>6, <1>7, <1>8, <1>9, <1>10, <1>11
     DEF Next, ChangeTree, Handle, Work, Refresh

\* The walk follows the paths.
LEMMA WalkStays ==
    ASSUME \A d \in Dir : RealPath(d)' = RealPath(d)
    PROVE  Walk' = Walk
<1> DEFINE First(f, d) == CHOOSE p \in Dir : f[p] = f[d]
           R == [d \in Dir |-> RealPath(d)]
<1>1. R' = R
  OBVIOUS
<1>2. \A d \in Dir : (CHOOSE p \in Dir : RealPath(p) = RealPath(d)) = First(R, d)
  OBVIOUS
<1>3. \A d \in Dir : (CHOOSE p \in Dir : RealPath(p) = RealPath(d))' = First(R', d)
  OBVIOUS
<1> QED
  BY <1>1, <1>2, <1>3 DEF Walk, Visited

\* A step leaves a scan ahead when the walk is not the one the index saw.
LEMMA ScanStep ==
    ASSUME TypeOK, TypeOK', ~SameName, TreeShape, StreamsAreKnown, UnwatchedIsNews,
           ScanIsAhead, [Next]_vars
    PROVE  ScanIsAhead'
<1> DEFINE Asked == \E p \in dirEvents : entry[p] = Absent \/ entry[p] # known[p]
           Died  == IF recursive THEN dead # {} ELSE selfEvents # {}
<1> SUFFICES ASSUME seen' # Walk', ~WalkAhead', ~opening', ~needsFull'
             PROVE  Asked' \/ Died'
  BY DEF ScanIsAhead
<1>t. ~TreeTimerFires
  <2> SUFFICES ASSUME TreeTimerFires
               PROVE  opening'
    OBVIOUS
  <2> QED
    BY Zenon DEF TreeTimerFires
<1>w. ~WalkAhead
  BY <1>t, AheadStays
<1>n. ASSUME Walk' = Walk, seen' = seen, ~opening, ~needsFull
      PROVE  Asked \/ Died
  BY <1>n, <1>w DEF ScanIsAhead
<1>1. ASSUME NEW d \in Dir, RemoveEntry(d) \/ \E t \in Target : MakeEntry(d, t)
      PROVE  Asked'
  <2>1. /\ UNCHANGED known /\ dirEvents \subseteq dirEvents'
        /\ entry'[d] = Absent \/ entry'[d] # known[d]
    BY <1>1, EntryChange
  <2>2. d \in dirEvents' \/ \E a \in dirEvents : known[a] = Absent
    BY <1>1, ReportTells
  <2> QED
    BY <2>1, <2>2
<1>2. ASSUME NEW t \in Outside, MakeOutside(t)
      PROVE  Asked' \/ Died'
  <2>1. UNCHANGED <<recursive, entry, seen, known, dirEvents, selfEvents, dead, opening,
                    needsFull>>
    BY <1>2 DEF MakeOutside, inbox, streams, refresh, schedule
  <2>2. Walk' = Walk
    BY <1>2, PathsMove, WalkStays
  <2> QED
    BY <1>n, <2>1, <2>2
<1>3. ASSUME NEW t \in Outside, RemoveOutside(t)
      PROVE  Asked' \/ Died'
  <2>1. /\ UNCHANGED <<recursive, entry, seen, known, dirEvents, opening, needsFull>>
        /\ dead \subseteq dead' /\ selfEvents \subseteq selfEvents'
    BY <1>3 DEF RemoveOutside, Kill, index, refresh, schedule
  <2>2. CASE \A d \in Dir : RealPath(d) # t
    <3>1. Walk' = Walk
      BY <1>3, <2>2, PathsMove, WalkStays
    <3> QED
      BY <1>n, <2>1, <3>1
  <2>3. ASSUME NEW d \in Dir, RealPath(d) = t, Reporting(t) = {}
        PROVE  Asked' \/ Died'
    <3>1. t # Absent /\ plan = {}
      BY <2>1, TargetAssumption DEF Target, StreamsAreKnown
    <3>2. NewsOf(d)
      BY <1>w, <2>3, <3>1 DEF UnwatchedIsNews
    <3> QED
      BY <2>1, <3>2 DEF NewsOf
  <2>4. ASSUME NEW p \in Reporting(t)
        PROVE  Asked' \/ Died'
    <3>1. p \in Dir /\ on[p] = t /\ p \notin dead
      BY <2>4, TargetAssumption DEF Reporting
    <3>2. p \in dead' /\ (~recursive => p \in selfEvents')
      BY <1>3, <3>1 DEF RemoveOutside, Kill
    <3> QED
      BY <2>1, <3>2
  <2> QED
    BY <2>2, <2>3, <2>4
<1>4. ASSUME NEW t \in Target, Edit(t)
      PROVE  Asked' \/ Died'
  <2>1. UNCHANGED <<recursive, entry, there, seen, known, dirEvents, selfEvents, dead,
                    opening, needsFull>>
    BY <1>4 DEF Edit, streams, refresh, schedule
  <2> QED
    BY <1>n, <2>1, PathsStay
<1>5. ASSUME NEW d \in Dir, HandleNameless(d) \/ HandleDirEvent(d)
      PROVE  Asked' \/ Died'
  <2>1. /\ UNCHANGED <<recursive, entry, there, known, seen, opening>>
        /\ (needsFull => needsFull')
    BY <1>5, HandlersKeep
  <2>2. /\ dirEvents' = dirEvents \ {d} /\ (known[d] # RealPath(d) => treeTimer')
        /\ (RealPath(d) = Absent => treeTimer' \/ needsFull')
        /\ UNCHANGED <<selfEvents, dead>>
    BY <1>5, EventsAsk
  <2>3. RealPath(d) = known[d] /\ RealPath(d) # Absent /\ RealPath(d) = entry[d]
    BY <2>2, WalkFacts DEF WalkAhead
  <2>4. Asked \/ Died
    BY <1>n, <2>1, PathsStay
  <2>5. Asked => Asked'
    BY <2>1, <2>2, <2>3
  <2>6. Died => Died'
    BY <2>1, <2>2
  <2> QED
    BY <2>4, <2>5, <2>6
<1>6. ASSUME NEW d \in Dir, HandleFileEvent(d) \/ ArmGoneCheck(d)
      PROVE  Asked' \/ Died'
  <2>1. /\ UNCHANGED <<recursive, entry, there, known, seen, opening>>
        /\ (needsFull => needsFull')
    BY <1>6, HandlersKeep
  <2>2. UNCHANGED <<dirEvents, selfEvents, dead>>
    BY <1>6 DEF HandleFileEvent, ArmGoneCheck, streams, inbox
  <2> QED
    BY <1>n, <2>1, <2>2, PathsStay
<1>7. ASSUME NEW d \in Dir, HandleSelfEvent(d)
      PROVE  Asked' \/ Died'
  <2>1. needsFull'
    BY <1>7, Zenon DEF HandleSelfEvent
  <2> QED
    BY <2>1
<1>8. ASSUME NEW d \in Dir, GoneCheckFires(d)
      PROVE  Asked' \/ Died'
  <2>1. /\ UNCHANGED <<recursive, entry, there, known, seen, opening>>
        /\ (needsFull => needsFull')
    BY <1>8, HandlersKeep
  <2>2. treeTimer' = TRUE \/ UNCHANGED <<dead, selfEvents>>
    BY <1>8 DEF GoneCheckFires
  <2>3. treeTimer' \/ UNCHANGED <<dead, selfEvents>>
    BY <2>2, Zenon
  <2>4. UNCHANGED dirEvents
    BY <1>8 DEF GoneCheckFires
  <2> QED
    BY <1>n, <2>1, <2>3, <2>4, PathsStay DEF WalkAhead
<1>9. ASSUME NEW d \in Dir, StreamFails(d)
      PROVE  Asked' \/ Died'
  <2>1. missed'
    BY <1>9, Zenon DEF StreamFails
  <2> QED
    BY <2>1 DEF WalkAhead, GivenUp
<1>10. CASE RefreshEnds
  <2>1. needsFull'
    BY <1>10, Zenon DEF RefreshEnds
  <2> QED
    BY <2>1
<1>11. CASE Exhausted
  <2>1. degraded'
    BY <1>11, Zenon DEF Exhausted
  <2> QED
    BY <2>1 DEF WalkAhead, GivenUp
<1>12. CASE Sync
  <2>1. /\ UNCHANGED <<recursive, entry, there, known, dirEvents, selfEvents, dead, opening>>
        /\ seen' = Walk \/ (~needsFull /\ seen' = seen)
    BY <1>12 DEF Sync, tree, inbox, streams, refresh
  <2> QED
    BY <1>n, <2>1, PathsStay
<1>13. CASE UNCHANGED vars
  <2>1. UNCHANGED <<recursive, entry, there, seen, known, dirEvents, selfEvents, dead,
                    opening, needsFull>>
    BY <1>13 DEF vars, tree, index, inbox, streams, refresh, schedule
  <2> QED
    BY <1>n, <2>1, PathsStay
<1>14. ASSUME NEW d \in Dir, OpenStream(d)
       PROVE  Asked' \/ Died'
  <2>1. opening /\ opening' = opening
    BY <1>14, Zenon DEF OpenStream
  <2> QED
    BY <2>1
<1> QED
  BY <1>t, <1>1, <1>2, <1>3, <1>4, <1>5, <1>6, <1>7, <1>8, <1>9, <1>10, <1>11, <1>12,
     <1>13, <1>14 DEF Next, ChangeTree, Handle, Work, Refresh

-----------------------------------------------------------------------------
(* The invariant and what follows from it.                                 *)

\* start() opens a stream for every directory of an indexed tree.
LEMMA WatchInit ==
    ASSUME Init
    PROVE  WatchInv
<1>1. TypeOK
  <2>1. \A d \in Dir : RealPath(d) \in Target \cup {Absent}
    BY DEF Init, RealPath
  <2>2. \A d \in Dir : Visited(d) \in Target \cup {Absent}
    BY <2>1 DEF Visited
  <2>3. /\ Walk \in [Dir -> Target \cup {Absent}]
        /\ Desired \in [Dir -> Target \cup {Absent}]
    BY <2>2 DEF Walk, Desired
  <2>4. {limited, missed, opening, unheard, treeTimer, needsFull, degraded} \subseteq BOOLEAN
    BY DEF Init
  <2> QED
    BY <2>3, <2>4, BoundAssumption DEF TypeOK, Init
<1>2. known = Walk /\ watched = Desired /\ on = Desired /\ dead = {} /\ plan = {} /\ seen = Walk
      /\ lag = {}
  BY DEF Init
<1>3. TreeShape
  <2>1. \A d \in Dir : entry[d] # Absent => /\ entry[d] = d \/ Linkable(entry[d])
                                            /\ \A a \in Above[d] : entry[a] = a
    BY DEF Init
  <2>2. ASSUME NEW d \in Dir, Visited(d) # Absent
        PROVE  /\ Visited(d) = d \/ Linkable(Visited(d))
               /\ \A a \in Above[d] : a \in Dir /\ Visited(a) = a
    <3>1. Visited(d) = entry[d] /\ entry[d] # Absent
      BY <1>1, <2>2, WalkFacts, TargetAssumption
    <3>2. ASSUME NEW a \in Above[d]
          PROVE  a \in Dir /\ Visited(a) = a
      <4>1. a \in Dir /\ entry[a] = a
        BY <2>1, <3>1, <3>2, TreeAssumption
      <4>2. a # Absent /\ a \notin Outside
        BY <4>1, TargetAssumption DEF Target
      <4>3. RealPath(a) = a
        BY <4>1, <4>2 DEF RealPath, Exists
      <4>4. PICK p \in Dir : RealPath(p) = a /\ Visited(p) = a
        BY <1>1, <4>1, <4>2, <4>3, WalkFacts
      <4>5. entry[p] = a
        BY <1>1, <4>2, <4>4, WalkFacts
      <4>6. p = a
        BY <2>1, <3>2, <4>2, <4>5 DEF Linkable
      <4> QED
        BY <4>1, <4>4, <4>6
    <3> QED
      BY <2>1, <3>1, <3>2
  <2> QED
    BY <1>1, <1>2, <2>1, <2>2, WalkFacts DEF TreeShape
<1>4. StreamsAreKnown
  BY <1>1, <1>2, WalkFacts DEF StreamsAreKnown
<1>5. StreamsBounded
  <2>1. \A d, e \in Dir : watched[d] # Absent /\ watched[e] = watched[d] => e = d
    BY <1>3, <1>4 DEF StreamsAreKnown, TreeShape
  <2>2. \A t \in Target : Cardinality({d \in Dir : watched[d] = t /\ d \notin dead}) <= 1
    BY <2>1, OneStreamEach
  <2>3. Streams <= Cap
    BY DEF Init, Streams
  <2> QED
    BY <2>2, <2>3 DEF StreamsBounded
<1>6. OnIsWatched /\ DeadIsGone
  BY <1>2 DEF OnIsWatched, DeadIsGone
<1>7. MoveIsReported
  BY <1>1, <1>2, WalkFacts DEF MoveIsReported
<1>8. UnwatchedIsNews
  <2> SUFFICES ASSUME NEW d \in Dir, RealPath(d) # Absent
               PROVE  Reporting(RealPath(d)) # {}
    BY DEF UnwatchedIsNews
  <2>1. PICK p \in Dir : RealPath(p) = RealPath(d) /\ Visited(p) = RealPath(d)
    BY <1>1, WalkFacts
  <2>2. CASE recursive /\ entry[p] = p
    BY <1>1, <2>1, <2>2, WalkFacts DEF Reporting
  <2>3. CASE ~(recursive /\ entry[p] = p)
    <3>1. on[p] = RealPath(d)
      BY <1>1, <1>2, <2>1, <2>3, WalkFacts
    <3> QED
      BY <1>2, <3>1 DEF Reporting
  <2> QED
    BY <2>2, <2>3
<1>9. EditIsAhead /\ ScanIsAhead
  BY <1>2 DEF EditIsAhead, ScanIsAhead
<1> QED
  BY <1>1, <1>3, <1>4, <1>5, <1>6, <1>7, <1>8, <1>9 DEF WatchInv

\* Every step keeps the invariant.
LEMMA WatchStep ==
    ASSUME WatchInv, [Next]_vars
    PROVE  WatchInv'
<1>1. TypeOK /\ StreamsBounded /\ TreeShape /\ StreamsAreKnown
  BY DEF WatchInv
<1>2. TypeOK' /\ TreeShape' /\ StreamsAreKnown'
  BY <1>1, TypeStep, ShapeStep, KnownStep
<1>3. StreamsBounded'
  BY <1>1, <1>2, BoundStep
<1>4. ASSUME ~SameName
      PROVE  /\ OnIsWatched' /\ DeadIsGone' /\ MoveIsReported' /\ UnwatchedIsNews'
             /\ EditIsAhead' /\ ScanIsAhead'
  <2>1. /\ OnIsWatched /\ DeadIsGone /\ MoveIsReported /\ UnwatchedIsNews
        /\ EditIsAhead /\ ScanIsAhead
    BY <1>4 DEF WatchInv
  <2>2. OnIsWatched' /\ DeadIsGone' /\ MoveIsReported'
    BY <1>1, <1>4, <2>1, OnStep, DeadStep, MoveStep
  <2>3. UnwatchedIsNews'
    BY <1>1, <1>2, <1>4, <2>1, UnwatchedStep
  <2>4. EditIsAhead'
    BY <1>1, <1>2, <1>4, <2>1, <2>2, EditStep
  <2>5. ScanIsAhead'
    BY <1>1, <1>2, <1>4, <2>1, ScanStep
  <2> QED
    BY <2>2, <2>3, <2>4, <2>5
<1> QED
  BY <1>1, <1>2, <1>3, <1>4 DEF WatchInv

\* The streams that refreshWatchTree, watchDirectory and the gone checks open
\* and close stay within maxDirWatches(), one per directory and under a path
\* that knownDirs holds, however the tree changes between the walk and the
\* opening of each; and unless a directory comes back under its name too early,
\* or a path comes or goes in a directory that was walked and not yet watched,
\* every change that the streams or the index do not know of has left an
\* event, a timer, a stream to open or a scan behind.
THEOREM WatchInvariant == Spec => []WatchInv
<1>1. Init => WatchInv
  BY WatchInit
<1>2. WatchInv /\ [Next]_vars => WatchInv'
  BY WatchStep
<1> QED
  BY <1>1, <1>2, PTL DEF Spec

\* Every directory that the walk finds has a live stream, or an event, a tree
\* refresh or an opening ahead that gives it one, at any depth of the tree and
\* on Linux, macOS and Windows alike; unless a stream failed or was refused, a
\* path came or went unheard between a walk and an opening, or a directory
\* comes back under its name too early.
THEOREM NoDirectoryIsForgotten ==
    ASSUME ~SameName
    PROVE  Spec => []EveryDirIsWatched
<1>1. WatchInv => EveryDirIsWatched
  <2> SUFFICES ASSUME WatchInv, NEW d \in Dir, Visited(d) # Absent, Reporting(Visited(d)) = {}
               PROVE  dirEvents # {} \/ treeTimer \/ plan # {} \/ GivenUp
    BY DEF EveryDirIsWatched
  <2>1. Visited(d) = RealPath(d)
    BY WalkFacts DEF WatchInv
  <2>2. NewsOf(d) \/ WalkAhead \/ plan # {}
    BY <2>1 DEF WatchInv, UnwatchedIsNews
  <2> QED
    BY <2>2 DEF NewsOf, WalkAhead
<1> QED
  BY <1>1, WatchInvariant, PTL

\* When no event, timer, refresh or scan is ahead the index agrees with the
\* tree: every path is indexed under the directory it leads to, and no edit is
\* missing; under the same conditions.
THEOREM RestIsCurrent ==
    ASSUME ~SameName
    PROVE  Spec => []AtRestIsCurrent
<1>1. WatchInv => AtRestIsCurrent
  <2> SUFFICES ASSUME WatchInv, NEW d \in Dir, seen[d] # Visited(d) \/ Visited(d) \in lag
               PROVE  \/ dirEvents \cup selfEvents \cup fileEvents \cup pending # {}
                      \/ dead # {} /\ recursive
                      \/ treeTimer \/ opening \/ needsFull \/ GivenUp
    BY DEF AtRestIsCurrent, Behind
  <2>1. TypeOK /\ EditIsAhead /\ ScanIsAhead
    BY DEF WatchInv
  <2>2. CASE seen[d] # Visited(d)
    <3>1. seen # Walk
      BY <2>1, <2>2, WalkFacts
    <3> QED
      BY <2>1, <3>1 DEF ScanIsAhead, WalkAhead
  <2>3. CASE Visited(d) \in lag
    <3>1. Visited(d) = RealPath(d)
      BY <2>1, <2>3, WalkFacts, TargetAssumption DEF TypeOK
    <3> QED
      BY <2>1, <2>3, <3>1 DEF EditIsAhead, NewsOf, WalkAhead
  <2> QED
    BY <2>2, <2>3
<1> QED
  BY <1>1, WatchInvariant, PTL
=============================================================================
