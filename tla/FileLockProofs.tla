--------------------------- MODULE FileLockProofs ---------------------------
(***************************************************************************)
(* Proofs about FileLock, for any set of processes, any break depth, with  *)
(* and without hard links, and any number of I/O faults and reused PIDs.   *)
(* Exclusion is proved for breakers that are not held up between reading a *)
(* lock and judging it (~SlowProbe); without that it does not hold.        *)
(***************************************************************************)
EXTENDS FileLock, TLAPS

-----------------------------------------------------------------------------
(* How a tryAcquire ends.                                                  *)

\* The end of a tryAcquire moves one process: to its caller's idle state, to
\* its critical section, or to the waiting call one level up.
LEMMA ReturnEffect ==
    ASSUME TypeOK, NEW p \in Proc, NEW ok, Return(p, ok)
    PROVE  /\ pc' \in [Proc -> Label]
           /\ depth' \in [Proc -> Level]
           /\ \A q \in Proc \ {p} : pc'[q] = pc[q] /\ depth'[q] = depth[q]
           /\ \/ pc'[p] = "idle"
              \/ ok /\ pc'[p] = "critical" /\ depth[p] = 0 /\ depth'[p] = 0
              \/ ok /\ pc'[p] = "recheck" /\ depth'[p] + 1 = depth[p]
<1>1. CASE Goto(p, "idle") /\ depth' = [depth EXCEPT ![p] = 0]
  BY <1>1, DepthAssumption DEF TypeOK, Goto, Label, Level
<1>2. CASE /\ ok /\ depth[p] = 0
           /\ Goto(p, "critical")
           /\ UNCHANGED depth
  BY <1>2, DepthAssumption DEF TypeOK, Goto, Label, Level
<1>3. CASE /\ ok /\ depth[p] > 0
           /\ Goto(p, "recheck")
           /\ depth' = [depth EXCEPT ![p] = depth[p] - 1]
  BY <1>3, DepthAssumption DEF TypeOK, Goto, Label, Level
<1> QED
  BY <1>1, <1>2, <1>3, Zenon DEF Return

\* The same through the finally block.
LEMMA FinishEffect ==
    ASSUME TypeOK, NEW p \in Proc, NEW ok, Finish(p, ok)
    PROVE  /\ pc' \in [Proc -> Label]
           /\ depth' \in [Proc -> Level]
           /\ \A q \in Proc \ {p} : pc'[q] = pc[q] /\ depth'[q] = depth[q]
           /\ \/ /\ pc'[p] = "relRead"
                 /\ depth'[p] = depth[p]
                 /\ depth[p] + 1 \in held[p]
              \/ pc'[p] = "idle"
              \/ ok /\ pc'[p] = "critical" /\ depth[p] = 0 /\ depth'[p] = 0
              \/ ok /\ pc'[p] = "recheck" /\ depth'[p] + 1 = depth[p]
<1>1. CASE /\ depth[p] + 1 \in held[p]
           /\ Goto(p, "relRead")
           /\ UNCHANGED depth
  BY <1>1 DEF TypeOK, Goto, Label
<1>2. CASE Return(p, ok)
  BY <1>2, ReturnEffect, Zenon
<1> QED
  BY <1>1, <1>2, Zenon DEF Finish

-----------------------------------------------------------------------------
(* Type correctness.                                                       *)

\* No operation of FileLock leaves the declared ranges; in particular no
\* takeover climbs past MAX_LOCK_BREAK_DEPTH break locks.
LEMMA TypeStep == TypeOK /\ [Next]_vars => TypeOK'
<1> SUFFICES ASSUME TypeOK, [Next]_vars PROVE TypeOK'
  OBVIOUS
<1> DEFINE Counts == faults' \in 0..MaxFaults
           Places == /\ file' \in [Level -> {Free, Empty, Junk} \cup Proc]
                     /\ alive' \subseteq Proc
                     /\ pc' \in [Proc -> Label]
                     /\ depth' \in [Proc -> Level]
                     /\ held' \in [Proc -> SUBSET Level]
                     /\ seen' \in [Proc -> {Free, Empty} \cup Proc]
<1>c. ASSUME UNCHANGED faults \/ Fault PROVE Counts
  BY <1>c, BoundAssumption DEF TypeOK, Fault
<1>s. ASSUME Places, UNCHANGED faults \/ Fault PROVE TypeOK'
  BY <1>c, <1>s DEF TypeOK
<1> HIDE DEF Counts
<1>1. ASSUME NEW p \in Proc, Refused(p) PROVE Places
  BY <1>1, FinishEffect DEF TypeOK, Refused, Forget
<1>2. ASSUME NEW p \in Proc, Taken(p)
      PROVE  /\ held' \in [Proc -> SUBSET Level]
             /\ pc' \in [Proc -> Label]
             /\ depth' \in [Proc -> Level]
  BY <1>2, FinishEffect DEF TypeOK, Taken
<1>3. ASSUME NEW p \in Proc, LinkInPlace(p) PROVE Places
  BY <1>2, <1>3 DEF TypeOK, LinkInPlace
<1>4. ASSUME NEW p \in Proc, CreateEmpty(p) PROVE Places
  BY <1>4 DEF TypeOK, CreateEmpty, Goto, Label
<1>g. ASSUME NEW p \in Proc, NEW l \in Label, GoOn(p, l) PROVE Places
  BY <1>g DEF TypeOK, GoOn, Goto, Forget
<1> HIDE DEF Places
<1>5. ASSUME NEW p \in Proc, NEW l \in Label, NEW n \in Label, Create(p, l, n)
      PROVE  TypeOK'
  <2>1. Places
    BY <1>1, <1>3, <1>4, <1>5, <1>g DEF Create
  <2>2. UNCHANGED faults \/ Fault
    BY <1>5 DEF Create, LinkInPlace, CreateEmpty
  <2> QED
    BY <1>s, <2>1, <2>2
<1>6. ASSUME NEW p \in Proc, CreateUnderBreak(p) PROVE TypeOK'
  <2>1. Places
    BY <1>1, <1>3, <1>4, <1>6 DEF CreateUnderBreak
  <2>2. UNCHANGED faults \/ Fault
    BY <1>6 DEF CreateUnderBreak, LinkInPlace, CreateEmpty
  <2> QED
    BY <1>s, <2>1, <2>2
<1>7. ASSUME NEW p \in Proc, WritePid(p) PROVE TypeOK'
  <2>1. Places
    BY <1>1, <1>2, <1>7 DEF TypeOK, WritePid, Places
  <2>2. UNCHANGED faults \/ Fault
    BY <1>7 DEF WritePid
  <2> QED
    BY <1>s, <2>1, <2>2
<1>8. ASSUME NEW p \in Proc, BreakStale(p) PROVE Places /\ UNCHANGED faults
  <2>1. CASE depth[p] < MaxBreakDepth
    <3>1. /\ pc' = [pc EXCEPT ![p] = "create"]
          /\ seen' = [seen EXCEPT ![p] = Free]
          /\ depth' = [depth EXCEPT ![p] = depth[p] + 1]
          /\ UNCHANGED <<file, alive, held, faults>>
      BY <1>8, <2>1, DepthAssumption
      DEF TypeOK, BreakStale, Goto, Forget, Level
    <3>2. depth[p] + 1 \in Level /\ "create" \in Label
      BY <2>1, DepthAssumption DEF TypeOK, Level, Label
    <3> QED
      BY <3>1, <3>2 DEF TypeOK, Places
  <2>2. CASE depth[p] >= MaxBreakDepth
    BY <1>8, <1>1, <2>2 DEF BreakStale
  <2> QED
    BY <2>1, <2>2, DepthAssumption DEF TypeOK, Level
<1>9. ASSUME NEW p \in Proc, NEW l \in Label, NEW j \in Label, NEW IfFree,
             Read(p, l, j, IfFree), IfFree => Places
      PROVE  TypeOK'
  <2>1. CASE Refused(p) \/ IfFree
    <3>1. Places
      BY <1>1, <1>9, <2>1
    <3>2. UNCHANGED faults \/ Fault
      BY <1>9 DEF Read
    <3> QED
      BY <1>s, <3>1, <3>2
  <2>2. CASE /\ seen' = [seen EXCEPT ![p] =
                           IF file[depth[p]] = Junk THEN Empty
                                                    ELSE file[depth[p]]]
             /\ file[depth[p]] # Free
             /\ Goto(p, j)
             /\ UNCHANGED <<file, alive, depth, held, faults>>
    <3>1. Places
      BY <2>2 DEF TypeOK, Goto, Places
    <3> QED
      BY <1>s, <2>2, <3>1
  <2> QED
    BY <1>9, <2>1, <2>2 DEF Read
<1>10. ASSUME NEW p \in Proc, Judge(p) \/ JudgeAgain(p) \/ Rejudge(p)
       PROVE  TypeOK'
  <2>1. Places
    BY <1>1, <1>8, <1>10, <1>g DEF Judge, JudgeAgain, Rejudge, Label
  <2>2. UNCHANGED faults \/ Fault
    BY <1>8, <1>10 DEF Judge, JudgeAgain, Rejudge, JudgesFree
  <2> QED
    BY <1>s, <2>1, <2>2
<1>11. ASSUME NEW p \in Proc, Unlink(p) PROVE TypeOK'
  <2>1. Places
    BY <1>11 DEF TypeOK, Unlink, Goto, Label, Places
  <2>2. UNCHANGED faults \/ Fault
    BY <1>11 DEF Unlink
  <2> QED
    BY <1>s, <2>1, <2>2
<1>12. ASSUME NEW p \in Proc, Released(p)
       PROVE  /\ held' \in [Proc -> SUBSET Level]
              /\ alive' = alive
              /\ seen' = seen
              /\ pc' \in [Proc -> Label]
              /\ depth' \in [Proc -> Level]
  BY <1>12, ReturnEffect DEF TypeOK, Released
<1>13. ASSUME NEW p \in Proc, Acquire(p) \/ Release(p) PROVE TypeOK'
  <2>1. Places /\ UNCHANGED faults
    BY <1>13, <1>g DEF Acquire, Release, Label
  <2> QED
    BY <1>s, <2>1
<1>14. ASSUME NEW p \in Proc, ReleaseRead(p) PROVE TypeOK'
  <2>1. CASE GoOn(p, "relUnlink") /\ UNCHANGED faults
    BY <1>s, <1>g, <2>1 DEF Label
  <2>2. CASE Released(p) /\ UNCHANGED file /\ (UNCHANGED faults \/ Fault)
    <3>1. Places
      BY <1>12, <2>2 DEF TypeOK, Places
    <3> QED
      BY <1>s, <2>2, <3>1
  <2> QED
    BY <1>14, <2>1, <2>2 DEF ReleaseRead
<1>15. ASSUME NEW p \in Proc, ReleaseUnlink(p) PROVE TypeOK'
  <2>1. file' \in [Level -> {Free, Empty, Junk} \cup Proc]
    BY <1>15 DEF TypeOK, ReleaseUnlink
  <2>2. Released(p) /\ (UNCHANGED faults \/ Fault)
    BY <1>15 DEF ReleaseUnlink
  <2>3. Places
    BY <1>12, <2>1, <2>2 DEF TypeOK, Places
  <2> QED
    BY <1>s, <2>2, <2>3
<1>16. ASSUME NEW p \in Proc, Crash(p) \/ Restart(p) PROVE TypeOK'
  <2>1. CASE Crash(p)
    <3>1. Places
      BY <2>1, DepthAssumption
      DEF TypeOK, Crash, Goto, Forget, Label, Level, Places
    <3> QED
      BY <1>s, <2>1, <3>1 DEF Crash
  <2>2. CASE Restart(p)
    <3>1. Places
      BY <2>2 DEF TypeOK, Restart, Goto, Label, Places
    <3> QED
      BY <1>s, <2>2, <3>1 DEF Restart
  <2> QED
    BY <1>16, <2>1, <2>2
<1>17. ASSUME NEW l \in Level, GraceExpires(l) PROVE TypeOK'
  BY <1>17 DEF TypeOK, GraceExpires
<1>18. CASE UNCHANGED vars
  BY <1>18 DEF TypeOK, vars
<1>19. ASSUME NEW p \in Proc, Step(p) PROVE TypeOK'
  <2>1. CASE Create(p, "create", "read") \/ Create(p, "create2", "read2")
    BY <1>5, <2>1 DEF Label
  <2>2. CASE Read(p, "read", "judge", GoOn(p, "create2"))
    <3>1. GoOn(p, "create2") => Places
      BY <1>g DEF Label
    <3> QED
      BY <1>9, <2>2, <3>1 DEF Label
  <2>3. CASE Read(p, "read2", "judge2", Refused(p))
    <3>1. Refused(p) => Places
      BY <1>1
    <3> QED
      BY <1>9, <2>3, <3>1 DEF Label
  <2>4. CASE Read(p, "recheck", "rejudge", GoOn(p, "create3"))
    <3>1. GoOn(p, "create3") => Places
      BY <1>g DEF Label
    <3> QED
      BY <1>9, <2>4, <3>1 DEF Label
  <2> QED
    BY <1>6, <1>7, <1>10, <1>11, <1>13, <1>14, <1>15, <1>19,
       <2>1, <2>2, <2>3, <2>4 DEF Step
<1> QED
  BY <1>13, <1>16, <1>17, <1>18, <1>19 DEF Next

\* Type correctness of FileLock, for every number of processes and levels.
THEOREM TypeCorrect == Spec => []TypeOK
<1>1. Init => TypeOK
  BY DepthAssumption, BoundAssumption DEF Init, TypeOK, Label, Level
<1> QED
  BY <1>1, TypeStep, PTL DEF Spec

-----------------------------------------------------------------------------
(* Mutual exclusion.                                                       *)

\* A refusal, or a fault, changes no file and no lock: it only moves one
\* process out of its tryAcquire.
LEMMA RefusedInv ==
    ASSUME TypeOK, FilesAgree, NEW p \in Proc, p \in alive, Refused(p)
    PROVE  FilesAgree'
<1>1. UNCHANGED <<file, alive, held>>
  BY DEF Refused
<1>2. /\ \A q \in Proc \ {p} : pc'[q] = pc[q] /\ depth'[q] = depth[q]
      /\ pc' \in [Proc -> Label]
      /\ depth' \in [Proc -> Level]
      /\ \/ /\ pc'[p] = "relRead"
            /\ depth'[p] = depth[p]
            /\ depth[p] + 1 \in held[p]
         \/ pc'[p] = "idle"
  BY FinishEffect DEF Refused
<1>3. DeadIsDone' /\ HolderOnDisk'
  BY <1>1, <1>2 DEF FilesAgree, DeadIsDone, HolderOnDisk
<1>4. OneWriter'
  BY <1>1, <1>2 DEF FilesAgree, OneWriter
<1>5. BreakerHolds'
  BY <1>1, <1>2 DEF FilesAgree, BreakerHolds
<1>6. BreaksOnlyStale'
  BY <1>1, <1>2 DEF FilesAgree, BreaksOnlyStale
<1>7. ReleasesOwn'
  BY <1>1, <1>2 DEF FilesAgree, ReleasesOwn, Releasing
<1> QED
  BY <1>3, <1>4, <1>5, <1>6, <1>7 DEF FilesAgree

\* A step that only moves one process to a label of which FilesAgree says
\* nothing at its depth.
LEMMA MoveInv ==
    ASSUME TypeOK, FilesAgree, NEW p \in Proc, p \in alive,
           NEW l \in {"create", "read", "judge", "create2", "read2", "judge2"},
           pc' = [pc EXCEPT ![p] = l],
           NEW d \in Level, depth' = [depth EXCEPT ![p] = d],
           UNCHANGED <<file, alive, held>>
    PROVE  FilesAgree'
<1>1. DeadIsDone' /\ HolderOnDisk'
  BY DEF TypeOK, FilesAgree, DeadIsDone, HolderOnDisk
<1>2. OneWriter'
  BY DEF TypeOK, FilesAgree, OneWriter
<1>3. BreakerHolds'
  BY DEF TypeOK, FilesAgree, BreakerHolds
<1>4. BreaksOnlyStale'
  BY DEF TypeOK, FilesAgree, BreaksOnlyStale
<1>5. ReleasesOwn'
  BY DEF TypeOK, FilesAgree, ReleasesOwn, Releasing
<1> QED
  BY <1>1, <1>2, <1>3, <1>4, <1>5 DEF FilesAgree

\* taken(): a process whose PID has just come to stand in a file that nobody
\* held, nobody else was writing and nobody was about to unlink.
LEMMA TakenInv ==
    ASSUME TypeOK, FilesAgree, NEW p \in Proc, p \in alive, Taken(p),
           file' = [file EXCEPT ![depth[p]] = p],
           UNCHANGED alive,
           \A q \in Proc : depth[p] \notin held[q],
           \A q \in Proc \ {p} :
               ~(pc[q] \in {"write", "unlink"} /\ depth[q] = depth[p])
    PROVE  FilesAgree'
<1> USE DepthAssumption
<1>1. /\ \A q \in Proc \ {p} : held'[q] = held[q]
      /\ held'[p] = held[p] \cup {depth[p]}
      /\ \A l \in Level \ {depth[p]} : file'[l] = file[l]
      /\ file'[depth[p]] = p
      /\ depth[p] \in Level
  BY DEF TypeOK, Taken
<1>2. /\ \A q \in Proc \ {p} : pc'[q] = pc[q] /\ depth'[q] = depth[q]
      /\ pc' \in [Proc -> Label]
      /\ depth' \in [Proc -> Level]
      /\ \/ /\ pc'[p] = "relRead"
            /\ depth'[p] = depth[p]
            /\ depth[p] + 1 \in held[p]
         \/ pc'[p] = "idle"
         \/ pc'[p] = "critical" /\ depth[p] = 0 /\ depth'[p] = 0
         \/ pc'[p] = "recheck" /\ depth'[p] + 1 = depth[p]
  BY FinishEffect DEF Taken
<1>3. DeadIsDone'
  BY <1>1, <1>2 DEF TypeOK, FilesAgree, DeadIsDone
<1>4. HolderOnDisk'
  <2> SUFFICES ASSUME NEW q \in Proc, NEW l \in held'[q] PROVE file'[l] = q
    BY DEF HolderOnDisk
  <2>1. CASE l = depth[p]
    BY <1>1, <2>1
  <2>2. CASE l # depth[p]
    BY <1>1, <2>2 DEF TypeOK, FilesAgree, HolderOnDisk
  <2> QED
    BY <2>1, <2>2
<1>5. OneWriter'
  BY <1>1, <1>2 DEF TypeOK, FilesAgree, OneWriter
<1>6. BreakerHolds'
  BY <1>1, <1>2 DEF TypeOK, FilesAgree, BreakerHolds
<1>7. BreaksOnlyStale'
  BY <1>1, <1>2 DEF TypeOK, FilesAgree, BreaksOnlyStale
<1>8. ReleasesOwn'
  BY <1>1, <1>2 DEF TypeOK, FilesAgree, ReleasesOwn, Releasing
<1> QED
  BY <1>3, <1>4, <1>5, <1>6, <1>7, <1>8 DEF FilesAgree

\* A breaker's work that changes no file, up to the point where it has judged
\* the lock stale: then nobody has it or is about to.
LEMMA BreakerInv ==
    ASSUME TypeOK, FilesAgree, NEW p \in Proc, p \in alive,
           pc[p] \in {"recheck", "rejudge"},
           NEW l \in {"rejudge", "unlink", "create3"},
           pc' = [pc EXCEPT ![p] = l],
           UNCHANGED <<file, alive, depth, held>>,
           l = "unlink" => /\ file[depth[p]] # Free
                           /\ \A q \in Proc : depth[p] \notin held[q]
                           /\ \A q \in Proc :
                                 ~(pc[q] = "write" /\ depth[q] = depth[p])
    PROVE  FilesAgree'
<1>1. DeadIsDone' /\ HolderOnDisk'
  BY DEF TypeOK, FilesAgree, DeadIsDone, HolderOnDisk
<1>2. OneWriter'
  BY DEF TypeOK, FilesAgree, OneWriter
<1>3. BreakerHolds'
  BY DEF TypeOK, FilesAgree, BreakerHolds
<1>4. BreaksOnlyStale'
  BY DEF TypeOK, FilesAgree, BreaksOnlyStale
<1>5. ReleasesOwn'
  BY DEF TypeOK, FilesAgree, ReleasesOwn, Releasing
<1> QED
  BY <1>1, <1>2, <1>3, <1>4, <1>5 DEF FilesAgree

\* Every step of every process keeps the files in agreement with what the
\* processes do, if breakers judge what they read in time.
LEMMA FilesStep ==
    ASSUME TypeOK, LockInv, ~SlowProbe, [Next]_vars
    PROVE  FilesAgree'
<1> USE DEF LockInv
<1> USE DepthAssumption
<1>f. Free \notin Proc /\ Empty \notin Proc /\ Free # Empty /\ Junk # Empty
      /\ Junk # Free
  BY ProcAssumption DEF Free, Empty, Junk
<1>m. ASSUME NEW p \in Proc, p \in alive,
             NEW l \in {"create", "read", "judge", "create2", "read2", "judge2"},
             Goto(p, l), UNCHANGED <<file, alive, depth, held>>
      PROVE  FilesAgree'
  <2>1. /\ depth' = [depth EXCEPT ![p] = depth[p]] /\ depth[p] \in Level
        /\ pc' = [pc EXCEPT ![p] = l]
    BY <1>m DEF TypeOK, Goto
  <2> QED
    BY <1>m, <2>1, MoveInv
<1>g. ASSUME NEW p \in Proc, p \in alive,
             NEW l \in {"create", "read", "create2", "read2"}, GoOn(p, l)
      PROVE  FilesAgree'
  BY <1>g, <1>m DEF GoOn
<1>1. ASSUME NEW p \in Proc, p \in alive, file[depth[p]] = Free, LinkInPlace(p)
      PROVE  FilesAgree'
  <2>1. /\ \A q \in Proc : depth[p] \notin held[q]
        /\ \A q \in Proc \ {p} :
               ~(pc[q] \in {"write", "unlink"} /\ depth[q] = depth[p])
    BY <1>1, <1>f DEF FilesAgree, HolderOnDisk, OneWriter, BreaksOnlyStale
  <2> QED
    BY <1>1, <2>1, TakenInv DEF LinkInPlace
<1>2. ASSUME NEW p \in Proc, p \in alive, file[depth[p]] = Free, CreateEmpty(p)
      PROVE  FilesAgree'
  <2>1. /\ UNCHANGED <<alive, depth, held>>
        /\ pc' = [pc EXCEPT ![p] = "write"]
        /\ file' = [file EXCEPT ![depth[p]] = Empty]
    BY <1>2 DEF CreateEmpty, Goto
  <2>2. /\ \A q \in Proc : depth[p] \notin held[q]
        /\ \A q \in Proc :
               ~(pc[q] \in {"write", "unlink"} /\ depth[q] = depth[p])
    BY <1>2, <1>f DEF FilesAgree, HolderOnDisk, OneWriter, BreaksOnlyStale
  <2>3. DeadIsDone'
    BY <1>2, <2>1 DEF TypeOK, FilesAgree, DeadIsDone
  <2>4. HolderOnDisk'
    BY <2>1, <2>2 DEF TypeOK, FilesAgree, HolderOnDisk
  <2>5. OneWriter'
    BY <2>1, <2>2 DEF TypeOK, FilesAgree, OneWriter
  <2>6. BreakerHolds'
    BY <2>1 DEF TypeOK, FilesAgree, BreakerHolds
  <2>7. BreaksOnlyStale'
    BY <2>1, <2>2 DEF TypeOK, FilesAgree, BreaksOnlyStale
  <2>8. ReleasesOwn'
    BY <2>1 DEF TypeOK, FilesAgree, ReleasesOwn, Releasing
  <2> QED
    BY <2>3, <2>4, <2>5, <2>6, <2>7, <2>8 DEF FilesAgree
<1>3. ASSUME NEW p \in Proc, NEW l \in Label,
             NEW n \in {"read", "read2"}, Create(p, l, n)
      PROVE  FilesAgree'
  <2>1. p \in alive /\ depth[p] \in Level
    BY <1>3 DEF Create, At, TypeOK
  <2>2. CASE GoOn(p, n)
    BY <1>g, <2>1, <2>2
  <2> QED
    BY <1>1, <1>2, <1>3, <2>1, <2>2, RefusedInv DEF Create
<1>4. ASSUME NEW p \in Proc, CreateUnderBreak(p) PROVE FilesAgree'
  BY <1>1, <1>2, <1>4, RefusedInv DEF CreateUnderBreak, At
<1>5. ASSUME NEW p \in Proc, WritePid(p) PROVE FilesAgree'
  <2>1. /\ \A q \in Proc : depth[p] \notin held[q]
        /\ \A q \in Proc \ {p} :
               ~(pc[q] \in {"write", "unlink"} /\ depth[q] = depth[p])
    BY <1>5, <1>f
    DEF WritePid, At, FilesAgree, HolderOnDisk, OneWriter, BreaksOnlyStale
  <2> QED
    BY <1>5, <2>1, TakenInv, RefusedInv DEF WritePid, At
<1>6. ASSUME NEW p \in Proc, p \in alive, BreakStale(p) PROVE FilesAgree'
  <2>1. CASE depth[p] < MaxBreakDepth
    <3>1. /\ pc' = [pc EXCEPT ![p] = "create"]
          /\ depth' = [depth EXCEPT ![p] = depth[p] + 1]
          /\ UNCHANGED <<file, alive, held>>
          /\ depth[p] + 1 \in Level
      BY <1>6, <2>1 DEF BreakStale, Goto, TypeOK, Level
    <3> QED
      BY <1>6, <3>1, MoveInv
  <2>2. CASE depth[p] >= MaxBreakDepth
    BY <1>6, <2>2, RefusedInv DEF BreakStale
  <2> QED
    BY <2>1, <2>2 DEF TypeOK, Level
<1>7. ASSUME NEW p \in Proc, NEW l, NEW j \in {"judge", "judge2"}, NEW IfFree,
             Read(p, l, j, IfFree), IfFree => FilesAgree'
      PROVE  FilesAgree'
  <2>1. p \in alive
    BY <1>7 DEF Read, At
  <2>2. CASE Goto(p, j) /\ UNCHANGED <<file, alive, depth, held>>
    BY <1>m, <2>1, <2>2
  <2> QED
    BY <1>7, <2>1, <2>2, RefusedInv DEF Read
<1>r. ASSUME NEW p \in Proc, Read(p, "recheck", "rejudge", GoOn(p, "create3"))
      PROVE  FilesAgree'
  <2>1. p \in alive /\ pc[p] = "recheck"
    BY <1>r DEF Read, At
  <2>2. CASE /\ pc' = [pc EXCEPT ![p] = "rejudge"]
             /\ UNCHANGED <<file, alive, depth, held>>
    BY <2>1, <2>2, BreakerInv
  <2>3. CASE GoOn(p, "create3")
    BY <2>1, <2>3, BreakerInv DEF GoOn, Goto
  <2> QED
    BY <1>r, <2>1, <2>2, <2>3, RefusedInv DEF Read, Goto
<1>j. ASSUME NEW p \in Proc, Judge(p) \/ JudgeAgain(p) PROVE FilesAgree'
  <2>1. p \in alive
    BY <1>j DEF Judge, JudgeAgain, At
  <2> QED
    BY <1>6, <1>g, <1>j, <2>1, RefusedInv DEF Judge, JudgeAgain
<1>8. ASSUME NEW p \in Proc, Rejudge(p) PROVE FilesAgree'
  <2>1. p \in alive /\ pc[p] = "rejudge"
    BY <1>8 DEF Rejudge, At
  <2>2. CASE GoOn(p, "create3")
    BY <2>1, <2>2, BreakerInv DEF GoOn, Goto
  <2>3. CASE JudgesStale(p) /\ GoOn(p, "unlink")
    <3>1. file[depth[p]] \in {Junk} \cup (Proc \ alive)
      <4>1. CASE seen[p] \in Proc \ alive
        BY <2>1, <4>1 DEF ProbeIsCurrent
      <4>2. CASE file[depth[p]] \in {Junk} \cup (IF SlowProbe THEN Proc ELSE {})
        BY <4>2
      <4> QED
        BY <2>3, <4>1, <4>2 DEF JudgesStale
    <3>2. /\ file[depth[p]] # Free
          /\ \A q \in Proc : depth[p] \notin held[q]
          /\ \A q \in Proc : ~(pc[q] = "write" /\ depth[q] = depth[p])
      BY <3>1, <1>f, ProcAssumption
      DEF FilesAgree, HolderOnDisk, OneWriter, DeadIsDone, Junk
    <3>3. pc' = [pc EXCEPT ![p] = "unlink"] /\ UNCHANGED <<file, alive, depth, held>>
      BY <2>3 DEF GoOn, Goto
    <3> QED
      BY <2>1, <3>2, <3>3, BreakerInv
  <2> QED
    BY <1>8, <2>1, <2>2, <2>3, RefusedInv DEF Rejudge
<1>9. ASSUME NEW p \in Proc, Unlink(p) PROVE FilesAgree'
  <2>1. /\ p \in alive
        /\ pc[p] = "unlink"
        /\ pc' = [pc EXCEPT ![p] = "create3"]
        /\ file' = [file EXCEPT ![depth[p]] = Free] \/ file' = file
        /\ UNCHANGED <<alive, depth, held>>
    BY <1>9 DEF Unlink, At, Goto
  <2>2. /\ \A q \in Proc : /\ depth[p] \notin held[q]
                           /\ ~(pc[q] = "write" /\ depth[q] = depth[p])
        /\ depth[p] + 1 \in held[p]
    BY <2>1 DEF FilesAgree, BreaksOnlyStale, BreakerHolds
  <2>3. \A q \in Proc : pc[q] = "unlink" /\ depth[q] = depth[p] => q = p
    BY <2>2 DEF FilesAgree, BreakerHolds, HolderOnDisk
  <2>4. DeadIsDone'
    BY <2>1 DEF TypeOK, FilesAgree, DeadIsDone
  <2>5. HolderOnDisk'
    BY <2>1, <2>2 DEF TypeOK, FilesAgree, HolderOnDisk
  <2>6. OneWriter'
    BY <2>1, <2>2 DEF TypeOK, FilesAgree, OneWriter
  <2>7. BreakerHolds'
    BY <2>1 DEF TypeOK, FilesAgree, BreakerHolds
  <2>8. BreaksOnlyStale'
    BY <2>1, <2>3 DEF TypeOK, FilesAgree, BreaksOnlyStale
  <2>9. ReleasesOwn'
    BY <2>1 DEF TypeOK, FilesAgree, ReleasesOwn, Releasing
  <2> QED
    BY <2>4, <2>5, <2>6, <2>7, <2>8, <2>9 DEF FilesAgree
<1>10. ASSUME NEW p \in Proc,
              \/ Acquire(p)
              \/ Release(p)
              \/ ReleaseRead(p) /\ UNCHANGED held
       PROVE  FilesAgree'
  <2>1. CASE Acquire(p)
    BY <1>g, <2>1 DEF Acquire, At
  <2>2. CASE /\ p \in alive
             /\ Releasing(p) \in held[p]
             /\ \/ pc' = [pc EXCEPT ![p] = "relRead"]
                \/ pc' = [pc EXCEPT ![p] = "relUnlink"]
             /\ UNCHANGED <<file, alive, depth, held>>
    <3>1. DeadIsDone' /\ HolderOnDisk'
      BY <2>2 DEF TypeOK, FilesAgree, DeadIsDone, HolderOnDisk
    <3>2. OneWriter'
      BY <2>2 DEF TypeOK, FilesAgree, OneWriter
    <3>3. BreakerHolds'
      BY <2>2 DEF TypeOK, FilesAgree, BreakerHolds
    <3>4. BreaksOnlyStale'
      BY <2>2 DEF TypeOK, FilesAgree, BreaksOnlyStale
    <3>5. ReleasesOwn'
      BY <2>2 DEF TypeOK, FilesAgree, ReleasesOwn, Releasing
    <3> QED
      BY <3>1, <3>2, <3>3, <3>4, <3>5 DEF FilesAgree
  <2>3. CASE Release(p)
    BY <2>2, <2>3 DEF Release, At, GoOn, Goto, FilesAgree, ReleasesOwn, Releasing
  <2>4. CASE ReleaseRead(p) /\ UNCHANGED held
    <3>1. At(p, "relRead") /\ Releasing(p) \in held[p]
      BY <2>4 DEF ReleaseRead, At, FilesAgree, ReleasesOwn
    <3>2. ~Released(p)
      BY <2>4, <3>1 DEF Released, TypeOK
    <3> QED
      BY <2>2, <2>4, <3>1, <3>2 DEF ReleaseRead, At, GoOn, Goto
  <2> QED
    BY <1>10, <2>1, <2>3, <2>4
<1>11. ASSUME NEW p \in Proc, p \in alive, Released(p),
              pc[p] \in {"relRead", "relUnlink"},
              \/ UNCHANGED file
              \/ file' = [file EXCEPT ![Releasing(p)] = Free]
       PROVE  FilesAgree'
  <2>1. Releasing(p) \in held[p] /\ Releasing(p) \in Level
    BY <1>11 DEF TypeOK, FilesAgree, ReleasesOwn
  <2>2. /\ held'[p] = held[p] \ {Releasing(p)}
        /\ \A q \in Proc \ {p} : held'[q] = held[q]
        /\ UNCHANGED alive
        /\ \A l \in Level : l # Releasing(p) => file'[l] = file[l]
    BY <1>11 DEF TypeOK, Released
  <2>3. /\ pc' \in [Proc -> Label]
        /\ depth' \in [Proc -> Level]
        /\ \A q \in Proc \ {p} : pc'[q] = pc[q] /\ depth'[q] = depth[q]
        /\ \/ pc'[p] = "idle"
           \/ /\ depth[p] \in held'[p]
              /\ pc'[p] = "critical" /\ depth[p] = 0 /\ depth'[p] = 0
           \/ /\ depth[p] \in held'[p]
              /\ pc'[p] = "recheck" /\ depth'[p] + 1 = depth[p]
    <3>1. CASE depth[p] \in held'[p]
      <4>1. Return(p, TRUE)
        BY <1>11, <3>1 DEF Released, Return
      <4> QED
        BY <3>1, <4>1, ReturnEffect, Zenon
    <3>2. CASE depth[p] \notin held'[p]
      <4>1. Return(p, FALSE)
        BY <1>11, <3>2 DEF Released, Return
      <4> QED
        BY <4>1, ReturnEffect, Zenon
    <3> QED
      BY <3>1, <3>2, Zenon
  <2>4. file[Releasing(p)] = p
    BY <2>1 DEF FilesAgree, HolderOnDisk
  <2>5. /\ \A q \in Proc \ {p} : Releasing(p) \notin held[q]
        /\ \A q \in Proc : ~(pc[q] = "write" /\ depth[q] = Releasing(p))
        /\ \A q \in Proc : ~(pc[q] = "unlink" /\ depth[q] = Releasing(p))
    BY <2>1, <2>4, <1>f
    DEF FilesAgree, HolderOnDisk, OneWriter, BreaksOnlyStale
  <2>6. DeadIsDone'
    BY <1>11, <2>2, <2>3 DEF TypeOK, FilesAgree, DeadIsDone
  <2>7. HolderOnDisk'
    BY <2>2, <2>5 DEF TypeOK, FilesAgree, HolderOnDisk
  <2>8. OneWriter'
    BY <2>2, <2>3, <2>5 DEF TypeOK, FilesAgree, OneWriter
  <2>9. BreakerHolds'
    BY <2>2, <2>3 DEF TypeOK, FilesAgree, BreakerHolds
  <2>10. BreaksOnlyStale'
    BY <2>2, <2>3, <2>5 DEF TypeOK, FilesAgree, BreaksOnlyStale
  <2>11. ReleasesOwn'
    BY <2>2, <2>3 DEF TypeOK, FilesAgree, ReleasesOwn, Releasing
  <2> QED
    BY <2>6, <2>7, <2>8, <2>9, <2>10, <2>11 DEF FilesAgree
<1>12. ASSUME NEW p \in Proc, ReleaseRead(p) PROVE FilesAgree'
  <2>1. CASE GoOn(p, "relUnlink")
    BY <1>10, <1>12, <2>1 DEF GoOn
  <2> QED
    BY <1>11, <1>12, <2>1 DEF ReleaseRead, At
<1>13. ASSUME NEW p \in Proc, ReleaseUnlink(p) PROVE FilesAgree'
  BY <1>11, <1>13 DEF ReleaseUnlink, At
<1>14. ASSUME NEW p \in Proc, Crash(p) \/ Restart(p) PROVE FilesAgree'
  <2>1. /\ \/ pc' = [pc EXCEPT ![p] = "dead"]
           \/ pc' = [pc EXCEPT ![p] = "idle"] /\ alive' = alive \cup {p}
        /\ \A q \in Proc : held'[q] \subseteq held[q]
        /\ alive' = alive \/ alive' = alive \cup {p}
           \/ (alive' = alive \ {p} /\ held'[p] = {} /\ pc'[p] = "dead")
        /\ \A q \in Proc \ {p} : /\ depth'[q] = depth[q]
                                 /\ held'[q] = held[q]
        /\ UNCHANGED file
    BY <1>14 DEF TypeOK, Crash, Restart, Goto
  <2>2. DeadIsDone'
    BY <2>1 DEF TypeOK, FilesAgree, DeadIsDone
  <2>3. HolderOnDisk'
    BY <2>1 DEF TypeOK, FilesAgree, HolderOnDisk
  <2>4. OneWriter'
    BY <2>1 DEF TypeOK, FilesAgree, OneWriter
  <2>5. BreakerHolds'
    BY <2>1 DEF TypeOK, FilesAgree, BreakerHolds
  <2>6. BreaksOnlyStale'
    BY <2>1 DEF TypeOK, FilesAgree, BreaksOnlyStale
  <2>7. ReleasesOwn'
    BY <2>1 DEF TypeOK, FilesAgree, ReleasesOwn, Releasing
  <2> QED
    BY <2>2, <2>3, <2>4, <2>5, <2>6, <2>7 DEF FilesAgree
<1>15. ASSUME NEW l \in Level, GraceExpires(l) PROVE FilesAgree'
  <2>1. /\ file' = [file EXCEPT ![l] = Junk]
        /\ file[l] = Empty
        /\ UNCHANGED <<alive, pc, depth, held>>
        /\ \A p \in Proc : ~(pc[p] = "write" /\ depth[p] = l)
    BY <1>15 DEF GraceExpires, FilesAgree, DeadIsDone
  <2>2. DeadIsDone' /\ BreakerHolds' /\ ReleasesOwn'
    BY <2>1 DEF FilesAgree, DeadIsDone, BreakerHolds, ReleasesOwn, Releasing
  <2>3. HolderOnDisk'
    BY <2>1, <1>f DEF TypeOK, FilesAgree, HolderOnDisk
  <2>4. OneWriter'
    BY <2>1 DEF TypeOK, FilesAgree, OneWriter
  <2>5. BreaksOnlyStale'
    BY <2>1, <1>f DEF TypeOK, FilesAgree, BreaksOnlyStale
  <2> QED
    BY <2>2, <2>3, <2>4, <2>5 DEF FilesAgree
<1>16. CASE UNCHANGED vars
  BY <1>16 DEF vars, FilesAgree, DeadIsDone, HolderOnDisk, OneWriter,
               BreakerHolds, BreaksOnlyStale, ReleasesOwn, Releasing
<1>17. ASSUME NEW p \in Proc, Step(p) PROVE FilesAgree'
  <2>1. CASE Create(p, "create", "read") \/ Create(p, "create2", "read2")
    BY <1>3, <2>1 DEF Label
  <2>2. CASE Read(p, "read", "judge", GoOn(p, "create2"))
    <3>1. GoOn(p, "create2") => FilesAgree'
      BY <1>g, <2>2 DEF Read, At
    <3> QED
      BY <1>7, <2>2, <3>1
  <2>3. CASE Read(p, "read2", "judge2", Refused(p))
    <3>1. Refused(p) => FilesAgree'
      BY <2>3, RefusedInv DEF Read, At
    <3> QED
      BY <1>7, <2>3, <3>1
  <2> QED
    BY <1>4, <1>5, <1>8, <1>9, <1>10, <1>12, <1>13, <1>17, <1>j, <1>r,
       <2>1, <2>2, <2>3 DEF Step
<1> QED
  BY <1>10, <1>14, <1>15, <1>16, <1>17 DEF Next

\* A file that names a dead process is changed by a breaker of that lock only.
LEMMA DeadFileStays ==
    ASSUME TypeOK, FilesAgree, [Next]_vars, NEW l \in Level,
           file[l] \in Proc \ alive, file'[l] # file[l]
    PROVE  \E q \in Proc :
              pc[q] = "unlink" /\ depth[q] = l /\ pc'[q] = "create3"
<1>f. Free \notin Proc /\ Empty \notin Proc
  BY ProcAssumption DEF Free, Empty
<1>1. ASSUME NEW p \in Proc, ReleaseUnlink(p) PROVE FALSE
  <2>1. file[Releasing(p)] = p /\ p \in alive
    BY <1>1 DEF ReleaseUnlink, At, FilesAgree, ReleasesOwn, HolderOnDisk
  <2> QED
    BY <1>1, <2>1 DEF ReleaseUnlink, TypeOK
<1>2. ASSUME NEW p \in Proc, WritePid(p) PROVE FALSE
  BY <1>2, <1>f DEF WritePid, At, Refused, TypeOK, FilesAgree, OneWriter
<1>3. ASSUME NEW p \in Proc, file[depth[p]] = Free, LinkInPlace(p) \/ CreateEmpty(p)
      PROVE  FALSE
  BY <1>3, <1>f DEF LinkInPlace, CreateEmpty, TypeOK
<1>4. ASSUME NEW p \in Proc, Unlink(p)
      PROVE  pc[p] = "unlink" /\ depth[p] = l /\ pc'[p] = "create3"
  BY <1>4 DEF Unlink, At, Goto, TypeOK
<1>5. ASSUME NEW p \in Proc, Step(p), UNCHANGED file PROVE FALSE
  BY <1>5
<1>6. ASSUME NEW p \in Proc, Step(p)
      PROVE  \/ UNCHANGED file \/ ReleaseUnlink(p) \/ WritePid(p) \/ Unlink(p)
             \/ file[depth[p]] = Free /\ (LinkInPlace(p) \/ CreateEmpty(p))
  BY <1>6
  DEF Step, Create, CreateUnderBreak, Read, Judge, JudgeAgain, Rejudge, Release,
      ReleaseRead, GoOn, Refused, BreakStale
<1>7. ASSUME NEW p \in Proc, Acquire(p) \/ Crash(p) \/ Restart(p) PROVE FALSE
  BY <1>7 DEF Acquire, GoOn, Crash, Restart
<1>8. ASSUME NEW k \in Level, GraceExpires(k) PROVE FALSE
  BY <1>8, <1>f DEF GraceExpires, TypeOK
<1>9. \E p \in Proc : Step(p)
  BY <1>7, <1>8 DEF Next, vars
<1> QED
  BY <1>1, <1>2, <1>3, <1>4, <1>6, <1>9

\* A breaker that is about to judge was so before and keeps what it read, or
\* has just read it.
LEMMA JudgeMoves ==
    ASSUME TypeOK, [Next]_vars, NEW r \in Proc, pc'[r] = "rejudge"
    PROVE  /\ depth'[r] = depth[r]
           /\ \/ pc[r] = "rejudge" /\ seen'[r] = seen[r]
              \/ /\ seen'[r] \in {Empty, file[depth[r]]}
                 /\ UNCHANGED <<file, alive>>
<1>1. ASSUME NEW p \in Proc, Refused(p) \/ Taken(p) \/ Released(p)
      PROVE  /\ pc'[p] # "rejudge"
             /\ \A q \in Proc \ {p} : pc'[q] = pc[q] /\ depth'[q] = depth[q]
             /\ \A q \in Proc \ {p} :
                   Forget(p) \/ UNCHANGED seen => seen'[q] = seen[q]
  <2>1. CASE Refused(p) \/ Taken(p)
    <3>1. PICK ok \in BOOLEAN : Finish(p, ok)
      BY <2>1 DEF Refused, Taken
    <3> QED
      BY <3>1, FinishEffect DEF Forget, TypeOK
  <2>2. CASE Released(p)
    <3>1. PICK ok : Return(p, ok)
      BY <2>2 DEF Released
    <3> QED
      BY <3>1, ReturnEffect DEF Forget, TypeOK
  <2> QED
    BY <1>1, <2>1, <2>2
<1>2. ASSUME NEW p \in Proc, NEW l \in Label \ {"rejudge"}, Goto(p, l),
             Forget(p) \/ UNCHANGED seen,
             \A q \in Proc \ {p} : depth'[q] = depth[q]
      PROVE  r # p /\ pc[r] = "rejudge" /\ seen'[r] = seen[r]
             /\ depth'[r] = depth[r]
  BY <1>2 DEF Goto, Forget, TypeOK
<1>3. ASSUME NEW p \in Proc, Forget(p) \/ UNCHANGED seen,
             Refused(p) \/ Taken(p) \/ Released(p)
      PROVE  r # p /\ pc[r] = "rejudge" /\ seen'[r] = seen[r]
             /\ depth'[r] = depth[r]
  BY <1>1, <1>3
<1>g. ASSUME NEW p \in Proc, NEW l \in Label \ {"rejudge"}, GoOn(p, l)
      PROVE  r # p /\ pc[r] = "rejudge" /\ seen'[r] = seen[r]
             /\ depth'[r] = depth[r]
  BY <1>g, <1>2 DEF GoOn
<1>4. ASSUME NEW p \in Proc, NEW l, NEW j \in Label, NEW IfFree,
             Read(p, l, j, IfFree), ~IfFree, ~Refused(p)
      PROVE  /\ depth'[r] = depth[r]
             /\ UNCHANGED <<file, alive>>
             /\ \/ r # p /\ pc[r] = "rejudge" /\ seen'[r] = seen[r]
                \/ seen'[r] \in {Empty, file[depth[r]]}
  BY <1>4 DEF Read, Goto, TypeOK
<1>5. ASSUME NEW p \in Proc, LinkInPlace(p) \/ CreateEmpty(p) \/ WritePid(p)
      PROVE  r # p /\ pc[r] = "rejudge" /\ seen'[r] = seen[r]
             /\ depth'[r] = depth[r]
  <2>1. CASE LinkInPlace(p) \/ WritePid(p)
    <3>1. \/ Taken(p) /\ UNCHANGED seen
          \/ Refused(p) /\ Forget(p)
      BY <2>1 DEF LinkInPlace, WritePid, Refused
    <3> QED
      BY <1>3, <3>1, Zenon
  <2>2. CASE CreateEmpty(p)
    BY <1>2, <2>2 DEF CreateEmpty, Label
  <2> QED
    BY <1>5, <2>1, <2>2
<1>6. ASSUME NEW p \in Proc, Refused(p)
      PROVE  r # p /\ pc[r] = "rejudge" /\ seen'[r] = seen[r]
             /\ depth'[r] = depth[r]
  BY <1>3, <1>6 DEF Refused
<1>7. ASSUME NEW p \in Proc, BreakStale(p)
      PROVE  r # p /\ pc[r] = "rejudge" /\ seen'[r] = seen[r]
             /\ depth'[r] = depth[r]
  <2>1. CASE Refused(p)
    BY <1>6, <2>1
  <2>2. CASE /\ Goto(p, "create") /\ Forget(p)
             /\ depth' = [depth EXCEPT ![p] = depth[p] + 1]
    BY <1>2, <2>2 DEF Label, TypeOK
  <2> QED
    BY <1>7, <2>1, <2>2 DEF BreakStale
<1>8. ASSUME NEW p \in Proc,
             Judge(p) \/ JudgeAgain(p) \/ Rejudge(p) \/ Acquire(p) \/ Release(p)
      PROVE  r # p /\ pc[r] = "rejudge" /\ seen'[r] = seen[r]
             /\ depth'[r] = depth[r]
  BY <1>6, <1>7, <1>8, <1>g
  DEF Judge, JudgeAgain, Rejudge, Acquire, Release, Label
<1>9. ASSUME NEW p \in Proc,
             \/ Create(p, "create", "read") \/ Create(p, "create2", "read2")
             \/ CreateUnderBreak(p)
      PROVE  r # p /\ pc[r] = "rejudge" /\ seen'[r] = seen[r]
             /\ depth'[r] = depth[r]
  BY <1>5, <1>6, <1>9, <1>g DEF Create, CreateUnderBreak, Label
<1>10. ASSUME NEW p \in Proc, Unlink(p) \/ Crash(p) \/ Restart(p)
       PROVE  r # p /\ pc[r] = "rejudge" /\ seen'[r] = seen[r]
              /\ depth'[r] = depth[r]
  <2>1. CASE Unlink(p)
    BY <1>2, <2>1 DEF Unlink, Label
  <2>2. CASE Crash(p)
    BY <1>2, <2>2 DEF Crash, Label, TypeOK
  <2>3. CASE Restart(p)
    BY <1>2, <2>3 DEF Restart, Label
  <2> QED
    BY <1>10, <2>1, <2>2, <2>3
<1>11. ASSUME NEW p \in Proc, ReleaseRead(p) \/ ReleaseUnlink(p)
       PROVE  r # p /\ pc[r] = "rejudge" /\ seen'[r] = seen[r]
              /\ depth'[r] = depth[r]
  <2>1. GoOn(p, "relUnlink") \/ (Released(p) /\ UNCHANGED seen)
    BY <1>11 DEF ReleaseRead, ReleaseUnlink, Released
  <2> QED
    BY <1>3, <1>g, <2>1 DEF Label
<1>12. CASE (\E l \in Level : GraceExpires(l)) \/ UNCHANGED vars
  BY <1>12 DEF GraceExpires, vars
<1>13. ASSUME NEW p \in Proc, Step(p)
       PROVE  /\ depth'[r] = depth[r]
              /\ \/ pc[r] = "rejudge" /\ seen'[r] = seen[r]
                 \/ /\ seen'[r] \in {Empty, file[depth[r]]}
                    /\ UNCHANGED <<file, alive>>
  <2>1. CASE Read(p, "read", "judge", GoOn(p, "create2"))
    BY <1>4, <1>6, <1>g, <2>1 DEF Label
  <2>2. CASE Read(p, "read2", "judge2", Refused(p))
    BY <1>4, <1>6, <2>2 DEF Label
  <2>3. CASE Read(p, "recheck", "rejudge", GoOn(p, "create3"))
    BY <1>4, <1>6, <1>g, <2>3 DEF Label
  <2> QED
    BY <1>5, <1>8, <1>9, <1>10, <1>11, <1>13, <2>1, <2>2, <2>3 DEF Step
<1> QED
  BY <1>8, <1>10, <1>12, <1>13 DEF Next

\* What a breaker read of a dead process is still there when it judges it.
LEMMA ProbeStep ==
    ASSUME TypeOK, LockInv, ~SlowProbe, [Next]_vars
    PROVE  ProbeIsCurrent'
<1> SUFFICES ASSUME NEW r \in Proc, pc'[r] = "rejudge",
                    seen'[r] \in Proc \ alive'
             PROVE  file'[depth'[r]] = seen'[r]
  BY DEF ProbeIsCurrent
<1>1. /\ depth'[r] = depth[r] /\ depth[r] \in Level
      /\ \/ pc[r] = "rejudge" /\ seen'[r] = seen[r]
         \/ /\ seen'[r] \in {Empty, file[depth[r]]}
            /\ UNCHANGED <<file, alive>>
  BY JudgeMoves DEF TypeOK
<1>2. CASE seen'[r] \in {Empty, file[depth[r]]} /\ UNCHANGED <<file, alive>>
  BY <1>1, <1>2, ProcAssumption
<1>3. CASE pc[r] = "rejudge" /\ seen'[r] = seen[r] /\ seen[r] \notin alive
  <2>1. file[depth[r]] = seen[r] /\ seen[r] \in Proc \ alive
    BY <1>3 DEF LockInv, ProbeIsCurrent
  <2>2. ASSUME file'[depth[r]] # file[depth[r]] PROVE FALSE
    <3>1. PICK q \in Proc :
             pc[q] = "unlink" /\ depth[q] = depth[r] /\ pc'[q] = "create3"
      BY <1>1, <2>1, <2>2, DeadFileStays DEF LockInv
    <3>2. depth[r] + 1 \in held[q] /\ depth[r] + 1 \in held[r]
      BY <1>3, <3>1 DEF LockInv, FilesAgree, BreakerHolds
    <3>3. q = r
      BY <3>2 DEF LockInv, FilesAgree, HolderOnDisk
    <3> QED
      BY <3>1, <3>3
  <2> QED
    BY <1>1, <1>3, <2>1, <2>2
<1>4. CASE pc[r] = "rejudge" /\ seen'[r] = seen[r] /\ seen[r] \in alive
  <2>1. alive' # alive /\ seen[r] \notin alive' /\ seen[r] \in Proc
    BY <1>4
  <2>2. ASSUME NEW p \in Proc, Step(p) PROVE FALSE
    BY <2>1, <2>2
    DEF Step, Create, CreateUnderBreak, WritePid, LinkInPlace, CreateEmpty, Read,
        Judge, JudgeAgain, Rejudge, Unlink, Release, ReleaseRead, ReleaseUnlink,
        Released, GoOn, Refused, BreakStale
  <2>3. PICK p \in Proc : Crash(p)
    <3>1. ASSUME NEW p \in Proc, Acquire(p) \/ Restart(p) PROVE FALSE
      BY <2>1, <3>1, <1>4 DEF Acquire, GoOn, Restart
    <3>2. ASSUME NEW l \in Level, GraceExpires(l) PROVE FALSE
      BY <2>1, <3>2 DEF GraceExpires
    <3>3. ~UNCHANGED vars
      BY <2>1 DEF vars
    <3> QED
      BY <2>2, <3>1, <3>2, <3>3, Zenon DEF Next
  <2>4. p = seen[r]
    BY <2>1, <2>3, <1>4 DEF Crash
  <2> QED
    BY <1>1, <1>4, <2>3, <2>4 DEF Crash
<1> QED
  BY <1>1, <1>2, <1>3, <1>4

\* The lock files, the processes writing them, what breakers read in them and
\* the processes about to unlink them always agree, if no breaker is held up
\* between its read of a lock and its probe.
THEOREM LockInvariant == ASSUME ~SlowProbe PROVE Spec => []LockInv
<1>1. Init => LockInv
  BY DEF Init, LockInv, FilesAgree, DeadIsDone, HolderOnDisk, OneWriter,
         BreakerHolds, BreaksOnlyStale, ReleasesOwn, ProbeIsCurrent
<1>2. TypeOK /\ LockInv /\ [Next]_vars => LockInv'
  BY FilesStep, ProbeStep DEF LockInv
<1> QED
  BY <1>1, <1>2, TypeCorrect, PTL DEF Spec

\* No two live processes ever hold the same lock or break lock, on the same
\* condition; the finding on line 521 of utils.ts shows that it is needed.
THEOREM Exclusion == ASSUME ~SlowProbe PROVE Spec => []MutualExclusion
<1>1. LockInv => MutualExclusion
  BY DEF LockInv, FilesAgree, HolderOnDisk, MutualExclusion
<1> QED
  BY <1>1, LockInvariant, PTL

-----------------------------------------------------------------------------
(* The files implement a lock.                                             *)

\* One step changes what at most one process holds.
LEMMA OneMover ==
    ASSUME TypeOK, [Next]_vars,
           NEW p \in Proc, NEW q \in Proc, held'[p] # held[p], held'[q] # held[q]
    PROVE  p = q
<1>1. ASSUME NEW r \in Proc, Taken(r) \/ Released(r) \/ Crash(r)
      PROVE  \A s \in Proc \ {r} : held'[s] = held[s]
  BY <1>1 DEF TypeOK, Taken, Released, Crash
<1>2. ASSUME NEW r \in Proc, Acquire(r) \/ Step(r) \/ Restart(r)
      PROVE  UNCHANGED held \/ Taken(r) \/ Released(r)
  BY <1>2
  DEF Acquire, Step, Restart, Create, CreateUnderBreak, WritePid, Read, Judge,
      JudgeAgain, Rejudge, Unlink, Release, ReleaseRead, ReleaseUnlink,
      LinkInPlace, CreateEmpty, BreakStale, Refused, GoOn
<1>3. ASSUME NEW l \in Level, GraceExpires(l) PROVE UNCHANGED held
  BY <1>3 DEF GraceExpires
<1>4. UNCHANGED held
      \/ \E r \in Proc : Taken(r) \/ Released(r) \/ Crash(r)
  BY <1>2, <1>3 DEF Next, vars
<1> QED
  BY <1>1, <1>4

\* The owner is the process that holds the lock, if there is one.
OwnerInv ==
    /\ Owner \in Proc \cup {Free}
    /\ \A p \in Proc : Owner = p <=> 0 \in held[p]

\* OwnerInv follows from mutual exclusion.
LEMMA OwnerIs == MutualExclusion => OwnerInv
<1> SUFFICES ASSUME MutualExclusion PROVE OwnerInv
  OBVIOUS
<1> USE DEF OwnerInv
<1>1. CASE \E p \in Proc : 0 \in held[p]
  <2>1. Owner \in Proc /\ 0 \in held[Owner]
    BY <1>1 DEF Owner
  <2> QED
    BY <2>1 DEF MutualExclusion
<1>2. CASE ~\E p \in Proc : 0 \in held[p]
  BY <1>2, ProcAssumption DEF Owner
<1> QED
  BY <1>1, <1>2

\* FileLock implements AbstractLock: through crashes and takeovers its
\* callers see one owner at a time, who leaves before the next one comes, if
\* no breaker is held up between its read of a lock and its probe.
THEOREM Implementation == ASSUME ~SlowProbe PROVE Spec => ImplementsLock
<1>1. Init => Abstract!Init
  BY DEF Init, Abstract!Init, Owner
<1>2. TypeOK /\ OwnerInv /\ OwnerInv' /\ [Next]_vars => [Abstract!Next]_Owner
  <2> SUFFICES ASSUME TypeOK, OwnerInv, OwnerInv', [Next]_vars
               PROVE  [Abstract!Next]_Owner
    OBVIOUS
  <2>1. /\ Owner \in Proc \cup {Free}
        /\ \A p \in Proc : Owner = p <=> 0 \in held[p]
    BY DEF OwnerInv
  <2>2. /\ Owner' \in Proc \cup {Free}
        /\ \A p \in Proc : Owner' = p <=> 0 \in held'[p]
    BY DEF OwnerInv
  <2>3. CASE Owner \in Proc /\ Owner' \in Proc
    <3>1. PICK a \in Proc, b \in Proc : Owner = a /\ Owner' = b
      BY <2>3
    <3>2. CASE a # b
      <4>1. held'[a] # held[a] /\ held'[b] # held[b]
        BY <2>1, <2>2, <3>1, <3>2
      <4> QED
        BY <3>2, <4>1, OneMover
    <3> QED
      BY <3>1, <3>2
  <2> QED
    BY <2>1, <2>2, <2>3
    DEF Abstract!Next, Abstract!Drop, Abstract!Acquire
<1> QED
  BY <1>1, <1>2, TypeCorrect, Exclusion, OwnerIs, PTL
  DEF Spec, ImplementsLock, Abstract!Spec
=============================================================================
