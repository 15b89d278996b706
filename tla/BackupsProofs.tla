---------------------------- MODULE BackupsProofs ----------------------------
(***************************************************************************)
(* Proofs about Backups, for every value of its constants.                 *)
(*                                                                         *)
(* NewestArchivesKept is not inductive: it says nothing of the lists that  *)
(* the retentions under way still hold, nor of the runs that are about to  *)
(* succeed.  IInv adds that everything on such a list, and everything      *)
(* already rotated, has enough newer successes, and that an archive is in  *)
(* its bucket from its upload on.  Successes are never unlogged, so what   *)
(* was rotatable stays rotatable however long a retention takes.           *)
(*                                                                         *)
(* Two more inductive invariants rest on it: SchedInv for what the         *)
(* scheduler starts, RestoreInv for what a restoration finds.              *)
(***************************************************************************)
EXTENDS Backups, FiniteSetTheorems, WellFoundedInduction, TLAPS

Succeeded(r) == log[r] \in {"success", "rotated"}

\* Some retentionCount allows r to be rotated.
Rotatable(r) ==
  /\ Succeeded(r)
  /\ \E k \in Retentions : ~(Cardinality(NewerArchives(r)) < k)

\* What the log may say of a run whose outcome is not logged.
LogFollowsPhase ==
  \A r \in RunIds :
    /\ phase[r] \in {"none", "starting"} => log[r] = "absent"
    /\ phase[r] \in {"inspecting", "archiving", "uploading", "committing", "failing"}
       => ~Succeeded(r)
    /\ phase[r] = "committing" => <<run[r].dest, r>> \in objects

TodoRotatable == \A q \in RunIds : \A v \in todo[q] : Rotatable(v)
RotatedRotatable == \A r \in RunIds : log[r] = "rotated" => Rotatable(r)
SucceededStored ==
  \A r \in RunIds : Succeeded(r) => Rotatable(r) \/ <<run[r].dest, r>> \in objects

IInv ==
  /\ LogFollowsPhase
  /\ TodoRotatable
  /\ RotatedRotatable
  /\ SucceededStored

-----------------------------------------------------------------------------

LEMMA RunSets ==
  ASSUME NEW S, S \subseteq RunIds
  PROVE  IsFiniteSet(S) /\ Cardinality(S) \in Nat
<1>1. IsFiniteSet(RunIds)
  BY BoundsAssumption, FS_Interval, 1 \in Int, MaxRuns \in Int DEF RunIds
<1>2. IsFiniteSet(S)
  BY <1>1, FS_Subset
<1> QED
  BY <1>2, FS_CardinalityType

\* A larger set of runs has at least as many runs.
LEMMA MoreRuns ==
  ASSUME NEW S, NEW T, S \subseteq T, T \subseteq RunIds
  PROVE  Cardinality(S) <= Cardinality(T)
  BY RunSets, FS_Subset

\* A part of the state that a step leaves alone keeps its type.
LEMMA Untouched ==
  /\ UNCHANGED <<clock, requestVars>> /\ RequestsTyped => RequestsTyped'
  /\ UNCHANGED runVars /\ RunsTyped => RunsTyped'
  /\ UNCHANGED <<storageVars, faults>> /\ StorageTyped => StorageTyped'
  /\ UNCHANGED cycle /\ CycleTyped => CycleTyped'
  /\ UNCHANGED <<restore, crashes>> /\ RestoreTyped => RestoreTyped'
<1>1. UNCHANGED <<clock, requestVars>> /\ RequestsTyped => RequestsTyped'
  BY DEF RequestsTyped, requestVars
<1>2. UNCHANGED <<runVars>> /\ RunsTyped => RunsTyped'
  BY DEF RunsTyped, runVars
<1>3. UNCHANGED <<storageVars, faults>> /\ StorageTyped => StorageTyped'
  BY DEF StorageTyped, storageVars
<1>4. UNCHANGED <<cycle>> /\ CycleTyped => CycleTyped'
  BY DEF CycleTyped
<1>5. UNCHANGED <<restore, crashes>> /\ RestoreTyped => RestoreTyped'
  BY DEF RestoreTyped
<1> QED
  BY <1>1, <1>2, <1>3, <1>4, <1>5

\* What the launch of a run and an append to the log do to the types.
LEMMA LaunchTyped ==
  ASSUME RequestsTyped, RunsTyped, NEW d \in Definitions,
         NEW trigger \in {"manual", "scheduled"}, Launch(d, trigger)
  PROVE  created + 1 \in RunIds /\ RunsTyped'
<1>1. created + 1 \in RunIds
  BY BoundsAssumption DEF RunsTyped, Launch, RunIds
<1>2. run' \in [RunIds -> [def : Definitions, dest : Destinations, keep : Retentions,
                          trigger : {"manual", "scheduled"}, start : Nat]]
  BY <1>1 DEF RequestsTyped, RunsTyped, Launch
<1>3. phase' \in [RunIds -> Phases] /\ todo' \in [RunIds -> SUBSET RunIds]
  BY <1>1 DEF RunsTyped, Launch, Phases
<1>4. created' \in 0 .. MaxRuns
  BY BoundsAssumption DEF RunsTyped, Launch
<1>5. \A r \in RunIds : phase'[r] = "none" <=> r > created'
  BY <1>1 DEF RunsTyped, Launch, RunIds
<1> QED
  BY <1>1, <1>2, <1>3, <1>4, <1>5 DEF RunsTyped

LEMMA AppendTyped ==
  ASSUME StorageTyped, NEW r \in RunIds, NEW event \in Events, AppendEvent(r, event)
  PROVE  log' \in [RunIds -> Events] /\ torn' \in BOOLEAN /\ faults' \in Nat
<1>1. log' \in [RunIds -> Events]
  BY DEF StorageTyped, AppendEvent
<1>2. torn' \in BOOLEAN
  BY DEF StorageTyped, AppendEvent
<1>3. faults' \in Nat
  BY DEF StorageTyped, AppendEvent
<1> QED
  BY <1>1, <1>2, <1>3

\* Every variable keeps its type: each action of the routes, of runBackupNow,
\* performBackup, applyRetention, of the cycle, a restoration and a crash.
THEOREM TypeCorrect == Spec => []TypeOK
<1> USE DEF RunIds, NoRun, requestVars, runVars, storageVars
<1>1. Init => TypeOK
  <2> SUFFICES ASSUME Init PROVE TypeOK
    OBVIOUS
  <2>1. RequestsTyped
    BY BoundsAssumption DEF Init, RequestsTyped, Unborn, AnyOf
  <2>2. RunsTyped
    BY BoundsAssumption DEF Init, RunsTyped, Unused, AnyOf, Phases
  <2>3. StorageTyped
    BY DEF Init, StorageTyped, Events
  <2>4. CycleTyped
    BY DEF Init, CycleTyped
  <2>5. RestoreTyped
    BY BoundsAssumption DEF Init, RestoreTyped, Idle, AnyOf
  <2> QED
    BY <2>1, <2>2, <2>3, <2>4, <2>5 DEF TypeOK
<1>2. TypeOK /\ [Next]_vars => TypeOK'
  <2> SUFFICES ASSUME TypeOK, [Next]_vars PROVE TypeOK'
    OBVIOUS
  <2>0. RequestsTyped /\ RunsTyped /\ StorageTyped /\ CycleTyped /\ RestoreTyped
    BY DEF TypeOK
  <2>1. ASSUME NEW d \in Definitions, NEW b \in Destinations,
               NEW s \in Schedules, NEW k \in Retentions, CreateDefinition(d, b, s, k) PROVE TypeOK'
    <3>1. RequestsTyped'
      BY <2>0, <2>1 DEF CreateDefinition, RequestsTyped
    <3> QED
      BY <2>0, <2>1, <3>1, Untouched
      DEF TypeOK, CreateDefinition
  <2>2. ASSUME NEW d \in Definitions, NEW b \in Destinations, NEW s \in Schedules,
               NEW k \in Retentions, NEW on \in BOOLEAN, UpdateDefinition(d, b, s, k, on) PROVE TypeOK'
    <3>1. RequestsTyped'
      BY <2>0, <2>2 DEF UpdateDefinition, RequestsTyped, Live
    <3> QED
      BY <2>0, <2>2, <3>1, Untouched
      DEF TypeOK, UpdateDefinition
  <2>3. ASSUME NEW d \in Definitions, DeleteDefinition(d) PROVE TypeOK'
    <3>1. RequestsTyped'
      BY <2>0, <2>3 DEF DeleteDefinition, RequestsTyped, Live
    <3> QED
      BY <2>0, <2>3, <3>1, Untouched
      DEF TypeOK, DeleteDefinition
  <2>4. ASSUME NEW d \in Definitions, RunNow(d) PROVE TypeOK'
    <3>1. RunsTyped'
      BY <2>0, <2>4, LaunchTyped DEF RunNow
    <3> QED
      BY <2>0, <2>4, <3>1, Untouched
      DEF TypeOK, RunNow, Launch
  <2>5. ASSUME NEW r \in RunIds, LogRunning(r) PROVE TypeOK'
    <3>1. RunsTyped'
      BY <2>0, <2>5 DEF LogRunning, RunsTyped, Advance, Phases, FirstWait
    <3>2. StorageTyped'
      BY <2>0, <2>5, AppendTyped DEF LogRunning, StorageTyped, Events
    <3>3. CycleTyped'
      BY <2>0, <2>5 DEF LogRunning, CycleTyped, Advance
    <3> QED
      BY <2>0, <2>5, <3>1, <3>2, <3>3, Untouched
      DEF TypeOK, LogRunning, Advance, AppendEvent
  <2>6. ASSUME NEW r \in RunIds, TmpDirFails(r) PROVE TypeOK'
    <3>1. RunsTyped'
      BY <2>0, <2>6 DEF TmpDirFails, RunsTyped, Advance, Phases
    <3>2. StorageTyped'
      BY <2>0, <2>6 DEF TmpDirFails, StorageTyped
    <3> QED
      BY <2>0, <2>6, <3>1, <3>2, Untouched
      DEF TypeOK, TmpDirFails, Advance
  <2>7. ASSUME NEW r \in RunIds, ArchiveDone(r) PROVE TypeOK'
    <3>1. RunsTyped'
      BY <2>0, <2>7 DEF ArchiveDone, RunsTyped, Advance, Phases
    <3> QED
      BY <2>0, <2>7, <3>1, Untouched
      DEF TypeOK, ArchiveDone, Advance
  <2>8. ASSUME NEW r \in RunIds, WorkFails(r) \/ Inspected(r) \/ InspectionFails(r)
        PROVE  TypeOK'
    <3>1. RunsTyped'
      BY <2>0, <2>8 DEF WorkFails, Inspected, InspectionFails, RunsTyped, Advance, Phases
    <3> QED
      BY <2>0, <2>8, <3>1, Untouched
      DEF TypeOK, WorkFails, Inspected, InspectionFails, Advance
  <2>9. ASSUME NEW r \in RunIds, UploadDone(r) PROVE TypeOK'
    <3>1. RunsTyped'
      BY <2>0, <2>9 DEF UploadDone, RunsTyped, Advance, Phases
    <3>2. StorageTyped'
      BY <2>0, <2>9 DEF UploadDone, StorageTyped, RunsTyped
    <3> QED
      BY <2>0, <2>9, <3>1, <3>2, Untouched
      DEF TypeOK, UploadDone, Advance
  <2>10. ASSUME NEW r \in RunIds, UploadTimesOut(r) PROVE TypeOK'
    <3>1. RunsTyped'
      BY <2>0, <2>10 DEF UploadTimesOut, RunsTyped, Advance, Phases
    <3>2. StorageTyped'
      BY <2>0, <2>10 DEF UploadTimesOut, StorageTyped
    <3> QED
      BY <2>0, <2>10, <3>1, <3>2, Untouched
      DEF TypeOK, UploadTimesOut, Advance
  <2>11. ASSUME NEW r \in RunIds, LateUpload(r) PROVE TypeOK'
    <3>1. StorageTyped'
      BY <2>0, <2>11 DEF LateUpload, StorageTyped, RunsTyped
    <3> QED
      BY <2>0, <2>11, <3>1, Untouched
      DEF TypeOK, LateUpload
  <2>12. ASSUME NEW r \in RunIds, LogFailed(r) PROVE TypeOK'
    <3>1. RunsTyped'
      BY <2>0, <2>12 DEF LogFailed, RunsTyped, Advance, Phases
    <3>2. StorageTyped'
      BY <2>0, <2>12, AppendTyped DEF LogFailed, StorageTyped, Events
    <3> QED
      BY <2>0, <2>12, <3>1, <3>2, Untouched
      DEF TypeOK, LogFailed, Advance, AppendEvent
  <2>13. ASSUME NEW r \in RunIds, LogSuccess(r) PROVE TypeOK'
    <3>1. RunsTyped'
      BY <2>0, <2>13 DEF LogSuccess, RunsTyped, Advance, Phases
    <3>2. StorageTyped'
      BY <2>0, <2>13, AppendTyped DEF LogSuccess, StorageTyped, Events
    <3> QED
      BY <2>0, <2>13, <3>1, <3>2, Untouched
      DEF TypeOK, LogSuccess, Advance, AppendEvent
  <2>14. ASSUME NEW r \in RunIds, ListRuns(r) PROVE TypeOK'
    <3>1. RunsTyped'
      BY <2>0, <2>14 DEF ListRuns, RunsTyped, Continue, Phases, RunsToRotate, LoggedRuns
    <3> QED
      BY <2>0, <2>14, <3>1, Untouched
      DEF TypeOK, ListRuns, Continue
  <2>28. ASSUME NEW r \in RunIds, ListUnread(r) PROVE TypeOK'
    <3>1. RunsTyped'
      BY <2>0, <2>28 DEF ListUnread, RunsTyped, Continue, Phases
    <3>2. StorageTyped'
      BY <2>0, <2>28 DEF ListUnread, StorageTyped
    <3> QED
      BY <2>0, <2>28, <3>1, <3>2, Untouched
      DEF TypeOK, ListUnread, Continue
  <2>15. ASSUME NEW r \in RunIds, DeleteArchive(r) PROVE TypeOK'
    <3>1. RunsTyped'
      BY <2>0, <2>15 DEF DeleteArchive, RunsTyped, Advance, Phases
    <3>2. StorageTyped'
      BY <2>0, <2>15 DEF DeleteArchive, StorageTyped
    <3> QED
      BY <2>0, <2>15, <3>1, <3>2, Untouched
      DEF TypeOK, DeleteArchive, Advance
  <2>16. ASSUME NEW r \in RunIds, DeleteFails(r) PROVE TypeOK'
    <3>1. RunsTyped'
      BY <2>0, <2>16 DEF DeleteFails, RunsTyped, Continue, Phases
    <3>2. StorageTyped'
      BY <2>0, <2>16 DEF DeleteFails, StorageTyped
    <3> QED
      BY <2>0, <2>16, <3>1, <3>2, Untouched
      DEF TypeOK, DeleteFails, Continue
  <2>17. ASSUME NEW r \in RunIds, LogRotated(r) PROVE TypeOK'
    <3>1. RunsTyped'
      BY <2>0, <2>17 DEF LogRotated, RunsTyped, Continue, Phases
    <3>2. StorageTyped'
      BY <2>0, <2>17, AppendTyped DEF LogRotated, StorageTyped, Events, IsNext, RunsTyped
    <3> QED
      BY <2>0, <2>17, <3>1, <3>2, Untouched
      DEF TypeOK, LogRotated, AppendEvent, Continue
  <2>18. ASSUME CycleBegin PROVE TypeOK'
    <3>1. CycleTyped'
      BY <2>0, <2>18 DEF CycleBegin, CycleTyped, RequestsTyped
    <3> QED
      BY <2>0, <2>18, <3>1, Untouched
      DEF TypeOK, CycleBegin
  <2>19. ASSUME CycleSkip PROVE TypeOK'
    <3>1. CycleTyped'
      BY <2>0, <2>19 DEF CycleSkip, CycleTyped
    <3> QED
      BY <2>0, <2>19, <3>1, Untouched
      DEF TypeOK, CycleSkip
  <2>20. ASSUME CycleLaunch PROVE TypeOK'
    <3>1. PICK p \in cycle.todo :
            /\ Launch(p[1], "scheduled")
            /\ cycle' = [cycle EXCEPT !.pc = "launch", !.run = created + 1, !.todo = @ \ {p}]
      BY <2>20 DEF CycleLaunch
    <3>2. p[1] \in Definitions
      BY <2>0, <3>1 DEF CycleTyped
    <3>3. created + 1 \in RunIds /\ RunsTyped'
      BY <2>0, <3>1, <3>2, LaunchTyped
    <3>4. CycleTyped'
      <4>1. cycle' \in [pc : {"idle", "visit", "launch"}, now : Nat, run : RunIds \cup {NoRun},
                       todo : SUBSET (Definitions \X Schedules)]
        BY <2>0, <3>1, <3>3 DEF CycleTyped
      <4>2. cycle'.pc = "launch" /\ cycle'.run # NoRun
        BY <2>0, <3>1, <3>3 DEF CycleTyped
      <4> QED
        BY <2>0, <2>20, <4>1, <4>2 DEF CycleLaunch, CycleTyped
    <3>5. StorageTyped'
      BY <2>0, <2>20 DEF CycleLaunch, FoundDue, StorageTyped
    <3> QED
      BY <2>0, <2>20, <3>3, <3>4, <3>5, Untouched DEF TypeOK, CycleLaunch
  <2>21. ASSUME CycleAbort PROVE TypeOK'
    <3>1. CycleTyped'
      BY <2>0, <2>21 DEF CycleAbort, CycleTyped
    <3>2. StorageTyped'
      BY <2>0, <2>21 DEF CycleAbort, FoundDue, StorageTyped
    <3> QED
      BY <2>0, <2>21, <3>1, <3>2, Untouched DEF TypeOK, CycleAbort
  <2>22. ASSUME CycleEnd PROVE TypeOK'
    <3>1. CycleTyped'
      BY <2>0, <2>22 DEF CycleEnd, CycleTyped
    <3> QED
      BY <2>0, <2>22, <3>1, Untouched
      DEF TypeOK, CycleEnd
  <2>23. ASSUME NEW r \in RunIds, RestoreBegin(r) PROVE TypeOK'
    <3>1. RestoreTyped'
      BY <2>0, <2>23 DEF RestoreBegin, RestoreTyped, RequestsTyped, RunsTyped
    <3> QED
      BY <2>0, <2>23, <3>1, Untouched
      DEF TypeOK, RestoreBegin
  <2>24. ASSUME RestoreEnd PROVE TypeOK'
    <3>1. RestoreTyped'
      BY BoundsAssumption, <2>0, <2>24 DEF RestoreEnd, RestoreTyped, Idle, AnyOf
    <3> QED
      BY <2>0, <2>24, <3>1, Untouched
      DEF TypeOK, RestoreEnd
  <2>25. ASSUME MinutePasses PROVE TypeOK'
    <3>1. RequestsTyped'
      BY <2>0, <2>25 DEF MinutePasses, RequestsTyped
    <3> QED
      BY <2>0, <2>25, <3>1, Untouched
      DEF TypeOK, MinutePasses
  <2>26. ASSUME Crash PROVE TypeOK'
    <3>1. RunsTyped'
      BY <2>0, <2>26 DEF Crash, RunsTyped, Phases
    <3>2. StorageTyped'
      BY <2>0, <2>26 DEF Crash, StorageTyped
    <3>3. CycleTyped'
      BY <2>0, <2>26 DEF Crash, CycleTyped
    <3>4. RestoreTyped'
      BY BoundsAssumption, <2>0, <2>26 DEF Crash, RestoreTyped, Idle, AnyOf
    <3> QED
      BY <2>0, <2>26, <3>1, <3>2, <3>3, <3>4, Untouched
      DEF TypeOK, Crash
  <2>27. CASE UNCHANGED vars
    BY <2>0, <2>27, Untouched DEF vars, TypeOK
  <2> QED
    BY <2>1, <2>2, <2>3, <2>4, <2>5, <2>6, <2>7, <2>8, <2>9, <2>10, <2>11, <2>12,
       <2>13, <2>14, <2>15, <2>16, <2>17, <2>18, <2>19, <2>20, <2>21, <2>22, <2>23, <2>24,
       <2>25, <2>26, <2>27, <2>28
    DEF Next, Request, Perform, Work, Unbounded, Cycle, Restore
<1> QED
  BY <1>1, <1>2, PTL DEF Spec

-----------------------------------------------------------------------------

\* A success stays in the log, and the run it belongs to does not change.
SuccessesPersist ==
  \A q \in RunIds : Succeeded(q) => Succeeded(q)' /\ run'[q] = run[q]

LEMMA StillRotatable ==
  ASSUME TypeOK, TypeOK', SuccessesPersist, NEW r \in RunIds, Rotatable(r)
  PROVE  Rotatable(r)'
<1>1. NewerArchives(r) \subseteq NewerArchives(r)'
  BY DEF NewerArchives, SuccessesPersist, Succeeded, Rotatable
<1>2. NewerArchives(r)' \subseteq RunIds /\ NewerArchives(r) \subseteq RunIds
  BY DEF NewerArchives
<1>3. Cardinality(NewerArchives(r)) <= Cardinality(NewerArchives(r)')
  BY <1>1, <1>2, MoreRuns
<1>4. Cardinality(NewerArchives(r)) \in Nat /\ Cardinality(NewerArchives(r)') \in Nat
  BY <1>2, RunSets
<1>5. PICK k \in Retentions : ~(Cardinality(NewerArchives(r)) < k)
  BY DEF Rotatable
<1>6. ~(Cardinality(NewerArchives(r)') < k)
  BY <1>3, <1>4, <1>5, RetentionsAssumption
<1>7. Succeeded(r)'
  BY DEF Rotatable, SuccessesPersist
<1> QED
  BY <1>6, <1>7 DEF Rotatable

\* What a step has to respect for the invariant to survive it.
LEMMA StepKeepsIInv ==
  ASSUME TypeOK, TypeOK', IInv, SuccessesPersist, LogFollowsPhase',
         \A q \in RunIds : \A v \in todo'[q] : v \in todo[q] \/ Rotatable(v),
         \A r \in RunIds : log'[r] = "rotated" => log[r] = "rotated" \/ Rotatable(r),
         \A r \in RunIds : Succeeded(r)' => Rotatable(r) \/ <<run'[r].dest, r>> \in objects'
  PROVE  IInv'
<1>1. \A q \in RunIds : todo'[q] \subseteq RunIds
  BY DEF TypeOK, RunsTyped
<1>2. TodoRotatable'
  BY <1>1, StillRotatable DEF IInv, TodoRotatable
<1>3. RotatedRotatable'
  BY StillRotatable DEF IInv, RotatedRotatable
<1>4. SucceededStored'
  BY StillRotatable DEF SucceededStored
<1> QED
  BY <1>2, <1>3, <1>4 DEF IInv

\* A step that logs nothing, deletes no archive and lists none for rotation.
LEMMA QuietStep ==
  ASSUME TypeOK, TypeOK', IInv, LogFollowsPhase', log' = log, objects \subseteq objects',
         \A q \in RunIds : todo'[q] \subseteq todo[q],
         \A q \in RunIds : Succeeded(q) => run'[q] = run[q]
  PROVE  IInv'
<1>1. \A q \in RunIds : Succeeded(q)' <=> Succeeded(q)
  BY DEF Succeeded
<1>2. SuccessesPersist
  BY <1>1 DEF SuccessesPersist
<1>3. \A r \in RunIds : Succeeded(r)' => Rotatable(r) \/ <<run'[r].dest, r>> \in objects'
  BY <1>1 DEF IInv, SucceededStored
<1> QED
  BY <1>2, <1>3, StepKeepsIInv

\* A launch takes a run whose phase is "none", hence absent from the log.
LEMMA LaunchQuiet ==
  ASSUME TypeOK, TypeOK', IInv, NEW d \in Definitions, NEW trigger \in {"manual", "scheduled"},
         Launch(d, trigger), log' = log, objects' = objects
  PROVE  IInv'
<1>1. created + 1 \in RunIds
  BY LaunchTyped DEF TypeOK
<1>2. phase[created + 1] = "none"
  BY <1>1 DEF TypeOK, RunsTyped, RunIds
<1>3. log[created + 1] = "absent"
  BY <1>1, <1>2 DEF IInv, LogFollowsPhase
<1>4. \A q \in RunIds : q # created + 1 => run'[q] = run[q] /\ phase'[q] = phase[q]
  BY <1>1 DEF Launch, TypeOK, RunsTyped
<1>5. phase'[created + 1] = "starting"
  BY <1>1 DEF Launch, TypeOK, RunsTyped
<1>6. LogFollowsPhase'
  BY <1>1, <1>3, <1>4, <1>5 DEF IInv, LogFollowsPhase, Succeeded
<1>7. \A q \in RunIds : Succeeded(q) => run'[q] = run[q]
  BY <1>3, <1>4 DEF Succeeded
<1>8. todo' = todo
  BY DEF Launch
<1> QED
  BY <1>6, <1>7, <1>8, QuietStep

LEMMA AppendEffect ==
  ASSUME TypeOK, NEW r \in RunIds, NEW event \in Events, AppendEvent(r, event)
  PROVE  /\ \A q \in RunIds \ {r} : log'[q] = log[q]
         /\ log'[r] = log[r] \/ log'[r] = event
  BY DEF AppendEvent, TypeOK, StorageTyped

\* computeRunsToRotate only selects runs that some retentionCount lets go.
LEMMA SelectedRotatable ==
  ASSUME TypeOK, NEW d \in Definitions, NEW k \in Retentions, NEW v \in RunsToRotate(d, k)
  PROVE  Rotatable(v)
<1> DEFINE eligible == {r \in LoggedRuns(d) : log[r] = "success"}
           newer == {q \in eligible : q > v}
<1>1. v \in RunIds /\ run[v].def = d /\ log[v] = "success" /\ Cardinality(newer) >= k
  BY DEF RunsToRotate, LoggedRuns
<1>2. newer \subseteq NewerArchives(v)
  BY <1>1 DEF NewerArchives, LoggedRuns
<1>3. NewerArchives(v) \subseteq RunIds
  BY DEF NewerArchives
<1>4. newer \subseteq RunIds
  BY <1>2, <1>3
<1> HIDE DEF newer
<1>5. Cardinality(newer) <= Cardinality(NewerArchives(v))
  BY <1>2, <1>3, MoreRuns
<1>6. Cardinality(newer) \in Nat /\ Cardinality(NewerArchives(v)) \in Nat
  BY <1>3, <1>4, RunSets
<1>7. ~(Cardinality(NewerArchives(v)) < k)
  BY <1>1, <1>5, <1>6, RetentionsAssumption
<1> QED
  BY <1>1, <1>7 DEF Rotatable, Succeeded

-----------------------------------------------------------------------------

\* The inductive step, one action at a time.
LEMMA IInvStep == TypeOK /\ TypeOK' /\ IInv /\ [Next]_vars => IInv'
<1> SUFFICES ASSUME TypeOK, TypeOK', IInv, [Next]_vars PROVE IInv'
  OBVIOUS
<1> USE DEF requestVars, runVars, storageVars
<1>0. RunsTyped /\ StorageTyped /\ CycleTyped /\ LogFollowsPhase
  BY DEF TypeOK, IInv
<1>1. CASE UNCHANGED <<runVars, log, objects>>
  <2>1. LogFollowsPhase'
    BY <1>0, <1>1 DEF LogFollowsPhase, Succeeded
  <2> QED
    BY <1>1, <2>1, QuietStep
<1>2. ASSUME NEW d \in Definitions, RunNow(d) PROVE IInv'
  BY <1>2, LaunchQuiet DEF RunNow
<1>3. ASSUME CycleLaunch PROVE IInv'
  <2>1. PICK p \in cycle.todo : Launch(p[1], "scheduled")
    BY <1>3 DEF CycleLaunch
  <2>2. p[1] \in Definitions
    BY <1>0, <2>1 DEF CycleTyped
  <2> QED
    BY <1>3, <2>1, <2>2, LaunchQuiet DEF CycleLaunch
<1>4. ASSUME NEW r \in RunIds, LogRunning(r) PROVE IInv'
  <2>1. PICK first \in {"inspecting", "archiving"} :
          log[r] = "absent" /\ phase' = [phase EXCEPT ![r] = first] /\ phase[r] = "starting"
    BY <1>0, <1>4 DEF LogRunning, Advance, LogFollowsPhase, FirstWait
  <2>2. /\ \A q \in RunIds \ {r} : log'[q] = log[q]
        /\ log'[r] = "absent" \/ log'[r] = "running"
    BY <1>4, <2>1, AppendEffect DEF LogRunning, Events
  <2>3. run' = run /\ todo' = todo /\ objects' = objects
    BY <1>4 DEF LogRunning, Advance
  <2>4. LogFollowsPhase'
    BY <1>0, <2>1, <2>2, <2>3 DEF LogFollowsPhase, RunsTyped, Succeeded
  <2>5. \A q \in RunIds : Succeeded(q)' <=> Succeeded(q)
    BY <2>1, <2>2 DEF Succeeded
  <2>6. SuccessesPersist
    BY <2>3, <2>5 DEF SuccessesPersist
  <2>7. \A q \in RunIds : log'[q] = "rotated" => log[q] = "rotated"
    BY <2>2
  <2> QED
    BY <2>3, <2>4, <2>5, <2>6, <2>7, StepKeepsIInv DEF IInv, SucceededStored
<1>5. ASSUME NEW r \in RunIds, TmpDirFails(r) PROVE IInv'
  <2>1. LogFollowsPhase'
    BY <1>0, <1>5 DEF TmpDirFails, Advance, LogFollowsPhase, RunsTyped, Succeeded
  <2> QED
    BY <1>5, <2>1, QuietStep DEF TmpDirFails, Advance
<1>6. ASSUME NEW r \in RunIds, ArchiveDone(r) PROVE IInv'
  <2>1. LogFollowsPhase'
    BY <1>0, <1>6 DEF ArchiveDone, Advance, LogFollowsPhase, RunsTyped, Succeeded
  <2> QED
    BY <1>6, <2>1, QuietStep DEF ArchiveDone, Advance
<1>7. ASSUME NEW r \in RunIds, WorkFails(r) \/ Inspected(r) \/ InspectionFails(r) PROVE IInv'
  <2>1. LogFollowsPhase'
    BY <1>0, <1>7
    DEF WorkFails, Inspected, InspectionFails, Advance, LogFollowsPhase, RunsTyped, Succeeded
  <2> QED
    BY <1>7, <2>1, QuietStep DEF WorkFails, Inspected, InspectionFails, Advance
<1>8. ASSUME NEW r \in RunIds, UploadTimesOut(r) PROVE IInv'
  <2>1. LogFollowsPhase'
    BY <1>0, <1>8 DEF UploadTimesOut, Advance, LogFollowsPhase, RunsTyped, Succeeded
  <2> QED
    BY <1>8, <2>1, QuietStep DEF UploadTimesOut, Advance
<1>9. ASSUME NEW r \in RunIds, UploadDone(r) PROVE IInv'
  <2>1. LogFollowsPhase'
    BY <1>0, <1>9 DEF UploadDone, Advance, LogFollowsPhase, RunsTyped, Succeeded
  <2> QED
    BY <1>9, <2>1, QuietStep DEF UploadDone, Advance
<1>10. ASSUME NEW r \in RunIds, LateUpload(r) PROVE IInv'
  <2>1. LogFollowsPhase'
    BY <1>0, <1>10 DEF LateUpload, LogFollowsPhase, Succeeded
  <2> QED
    BY <1>10, <2>1, QuietStep DEF LateUpload
<1>11. ASSUME NEW r \in RunIds, LogFailed(r) PROVE IInv'
  <2>1. ~Succeeded(r) /\ phase' = [phase EXCEPT ![r] = "over"] /\ phase[r] = "failing"
    BY <1>0, <1>11 DEF LogFailed, Advance, LogFollowsPhase
  <2>2. /\ \A q \in RunIds \ {r} : log'[q] = log[q]
        /\ log'[r] = log[r] \/ log'[r] = "failed"
    BY <1>11, AppendEffect DEF LogFailed, Events
  <2>3. run' = run /\ todo' = todo /\ objects' = objects
    BY <1>11 DEF LogFailed, Advance
  <2>4. LogFollowsPhase'
    BY <1>0, <2>1, <2>2, <2>3 DEF LogFollowsPhase, RunsTyped, Succeeded
  <2>5. \A q \in RunIds : Succeeded(q)' <=> Succeeded(q)
    BY <2>1, <2>2 DEF Succeeded
  <2>6. SuccessesPersist
    BY <2>3, <2>5 DEF SuccessesPersist
  <2>7. \A q \in RunIds : log'[q] = "rotated" => log[q] = "rotated"
    BY <2>1, <2>2 DEF Succeeded
  <2> QED
    BY <2>3, <2>4, <2>5, <2>6, <2>7, StepKeepsIInv DEF IInv, SucceededStored
<1>12. ASSUME NEW r \in RunIds, LogSuccess(r) PROVE IInv'
  <2>1. /\ ~Succeeded(r) /\ phase' = [phase EXCEPT ![r] = "listing"]
        /\ phase[r] = "committing" /\ <<run[r].dest, r>> \in objects
    BY <1>0, <1>12 DEF LogSuccess, Advance, LogFollowsPhase
  <2>2. /\ \A q \in RunIds \ {r} : log'[q] = log[q]
        /\ log'[r] = log[r] \/ log'[r] = "success"
    BY <1>12, AppendEffect DEF LogSuccess, Events
  <2>3. run' = run /\ todo' = todo /\ objects' = objects
    BY <1>12 DEF LogSuccess, Advance
  <2>4. LogFollowsPhase'
    BY <1>0, <2>1, <2>2, <2>3 DEF LogFollowsPhase, RunsTyped, Succeeded
  <2>5. SuccessesPersist
    BY <2>1, <2>2, <2>3 DEF SuccessesPersist, Succeeded
  <2>6. \A q \in RunIds : log'[q] = "rotated" => log[q] = "rotated"
    BY <2>1, <2>2 DEF Succeeded
  <2>7. \A q \in RunIds : Succeeded(q)' => Rotatable(q) \/ <<run'[q].dest, q>> \in objects'
    BY <2>1, <2>2, <2>3 DEF Succeeded, IInv, SucceededStored
  <2> QED
    BY <2>3, <2>4, <2>5, <2>6, <2>7, StepKeepsIInv
<1>13. ASSUME NEW r \in RunIds, ListRuns(r) PROVE IInv'
  <2>1. log' = log /\ run' = run /\ objects' = objects
    BY <1>13 DEF ListRuns, Continue
  <2>2. run[r].def \in Definitions /\ run[r].keep \in Retentions
    BY <1>0 DEF RunsTyped
  <2>3. \A q \in RunIds : \A v \in todo'[q] : v \in todo[q] \/ Rotatable(v)
    BY <1>0, <1>13, <2>2, SelectedRotatable DEF ListRuns, Continue, RunsTyped
  <2>4. LogFollowsPhase'
    BY <1>0, <1>13, <2>1 DEF ListRuns, Continue, LogFollowsPhase, RunsTyped, Succeeded
  <2>5. \A q \in RunIds : Succeeded(q)' <=> Succeeded(q)
    BY <2>1 DEF Succeeded
  <2>6. SuccessesPersist
    BY <2>1, <2>5 DEF SuccessesPersist
  <2> QED
    BY <2>1, <2>3, <2>4, <2>5, <2>6, StepKeepsIInv DEF IInv, SucceededStored
<1>14. ASSUME NEW r \in RunIds, DeleteArchive(r) PROVE IInv'
  <2>1. PICK v \in todo[r] : objects' = objects \ {<<run[r].dest, v>>}
    BY <1>14 DEF DeleteArchive
  <2>2. v \in RunIds /\ Rotatable(v) /\ Succeeded(v)
    BY <1>0, <2>1 DEF RunsTyped, IInv, TodoRotatable, Rotatable
  <2>3. log' = log /\ run' = run /\ todo' = todo
    BY <1>14 DEF DeleteArchive, Advance
  <2>4. LogFollowsPhase'
    BY <1>0, <1>14, <2>1, <2>2, <2>3
    DEF DeleteArchive, Advance, LogFollowsPhase, RunsTyped, Succeeded
  <2>5. \A q \in RunIds : Succeeded(q)' <=> Succeeded(q)
    BY <2>3 DEF Succeeded
  <2>6. SuccessesPersist
    BY <2>3, <2>5 DEF SuccessesPersist
  <2>7. \A q \in RunIds : Succeeded(q)' => Rotatable(q) \/ <<run'[q].dest, q>> \in objects'
    BY <2>1, <2>2, <2>3, <2>5 DEF IInv, SucceededStored
  <2> QED
    BY <2>3, <2>4, <2>6, <2>7, StepKeepsIInv
<1>15. ASSUME NEW r \in RunIds, DeleteFails(r) PROVE IInv'
  <2>1. LogFollowsPhase'
    BY <1>0, <1>15 DEF DeleteFails, Continue, LogFollowsPhase, RunsTyped, Succeeded
  <2>2. \A q \in RunIds : todo'[q] \subseteq todo[q]
    BY <1>0, <1>15 DEF DeleteFails, Continue, RunsTyped
  <2> QED
    BY <1>15, <2>1, <2>2, QuietStep DEF DeleteFails, Continue
<1>16. ASSUME NEW r \in RunIds, LogRotated(r) PROVE IInv'
  <2>1. PICK v \in todo[r] : AppendEvent(v, "rotated") /\ Continue(r, todo[r] \ {v})
    BY <1>16 DEF LogRotated
  <2>2. v \in RunIds /\ Rotatable(v) /\ Succeeded(v)
    BY <1>0, <2>1 DEF RunsTyped, IInv, TodoRotatable, Rotatable
  <2>3. /\ \A q \in RunIds \ {v} : log'[q] = log[q]
        /\ log'[v] = log[v] \/ log'[v] = "rotated"
    BY <2>1, <2>2, AppendEffect DEF Events
  <2>4. run' = run /\ objects' = objects /\ phase[r] = "marking"
    BY <1>16, <2>1 DEF LogRotated, Continue
  <2>5. \A q \in RunIds : todo'[q] \subseteq todo[q]
    BY <1>0, <2>1 DEF Continue, RunsTyped
  <2>6. \A q \in RunIds : Succeeded(q)' <=> Succeeded(q)
    BY <2>2, <2>3 DEF Succeeded
  <2>7. SuccessesPersist
    BY <2>4, <2>6 DEF SuccessesPersist
  <2>8. LogFollowsPhase'
    <3>1. phase[v] \notin {"none", "starting", "inspecting", "archiving", "uploading", "committing", "failing"}
      BY <1>0, <2>2 DEF LogFollowsPhase, Succeeded
    <3>2. phase' = [phase EXCEPT ![r] = "over"] \/ phase' = [phase EXCEPT ![r] = "rotating"]
      BY <2>1 DEF Continue
    <3> QED
      BY <1>0, <2>3, <2>4, <2>6, <3>1, <3>2 DEF LogFollowsPhase, RunsTyped
  <2>9. \A q \in RunIds : log'[q] = "rotated" => log[q] = "rotated" \/ Rotatable(q)
    BY <2>2, <2>3
  <2> QED
    BY <2>4, <2>5, <2>6, <2>7, <2>8, <2>9, StepKeepsIInv DEF IInv, SucceededStored
<1>18. ASSUME NEW r \in RunIds, ListUnread(r) PROVE IInv'
  <2>1. LogFollowsPhase'
    BY <1>0, <1>18 DEF ListUnread, Continue, LogFollowsPhase, RunsTyped, Succeeded
  <2>2. \A q \in RunIds : todo'[q] \subseteq todo[q]
    BY <1>0, <1>18 DEF ListUnread, Continue, RunsTyped
  <2> QED
    BY <1>18, <2>1, <2>2, QuietStep DEF ListUnread, Continue
<1>17. ASSUME Crash PROVE IInv'
  <2>1. LogFollowsPhase'
    BY <1>0, <1>17 DEF Crash, LogFollowsPhase, Succeeded
  <2> QED
    BY <1>17, <2>1, QuietStep DEF Crash
<1> QED
  BY <1>1, <1>2, <1>3, <1>4, <1>5, <1>6, <1>7, <1>8, <1>9, <1>10, <1>11, <1>12, <1>13,
     <1>14, <1>15, <1>16, <1>17, <1>18
  DEF Next, Request, Perform, Work, Unbounded, Cycle, Restore, vars, CreateDefinition,
      UpdateDefinition,
      DeleteDefinition, CycleBegin, CycleSkip, CycleAbort, CycleEnd, RestoreBegin, RestoreEnd,
      MinutePasses

\* The newest archives of every definition survive every rotation: for any
\* number of definitions, buckets, runs, patches, faults and crashes, a
\* success with fewer newer successes than each retentionCount in use is not
\* rotated and its archive is in the bucket it went to.
THEOREM RetentionKeepsNewest == Spec => []NewestArchivesKept
<1>1. Init => IInv
  BY DEF Init, IInv, LogFollowsPhase, TodoRotatable, RotatedRotatable, SucceededStored, Succeeded
<1>2. TypeOK /\ IInv => NewestArchivesKept
  BY DEF IInv, RotatedRotatable, SucceededStored, NewestArchivesKept, Rotatable, Succeeded
<1> QED
  BY <1>1, <1>2, IInvStep, TypeCorrect, PTL DEF Spec
-----------------------------------------------------------------------------
(* What the scheduler starts.                                              *)
(*                                                                         *)
(* Neither OncePerMinute nor ScheduledOverlapBehindManual is inductive:    *)
(* isBackupDue compares the last logged run with the minute its cycle      *)
(* began, while a run carries the minute of its own launch.  SchedInv adds *)
(* that runs start in order, that a cycle visits a definition once and     *)
(* that no earlier cycle started it after this one began, that the cycle   *)
(* waits for its run to be announced, and what the log says of a run whose *)
(* work goes on when nothing was lost.                                     *)

Scheduled(r) == r \in 1 .. created /\ run[r].trigger = "scheduled"

StartsInOrder ==
  /\ \A r \in 1 .. created : run[r].start <= clock
  /\ \A q, r \in 1 .. created : q < r => run[q].start <= run[r].start

\* The cycle waits for the run it launched to be announced.
CycleWaits ==
  \A r \in RunIds : Scheduled(r) /\ phase[r] = "starting" => cycle.run = r

\* What the cycle still has to visit: each definition once, and not started
\* by the scheduler since the cycle began.
VisitsOnce ==
  /\ cycle.now <= clock
  /\ \A p, o \in cycle.todo : p[1] = o[1] => p = o
  /\ \A p \in cycle.todo, r \in RunIds :
       Scheduled(r) /\ run[r].def = p[1] => run[r].start <= cycle.now

AtWork == {"inspecting", "archiving", "uploading", "committing", "failing"}

\* With nothing lost, a run at work is "running" in the log, a run that is
\* past its announcement is in the log.
Announced ==
  faults = 0 =>
    \A r \in RunIds :
      /\ phase[r] \in AtWork => log[r] = "running"
      /\ Active(r) /\ phase[r] # "starting" => log[r] # "absent"

\* q died before it was announced.
DiedUnannounced(q) == log[q] = "absent" /\ phase[q] = "over"

StartedOnce ==
  faults = 0 =>
    \A q, r \in RunIds :
      /\ q < r
      /\ run[q].def = run[r].def /\ run[q].start = run[r].start
      /\ Scheduled(q) /\ Scheduled(r)
      => DiedUnannounced(q)

ManualBetween ==
  faults = 0 =>
    \A q, r \in RunIds :
      /\ q < r
      /\ run[q].def = run[r].def
      /\ Scheduled(q) /\ Scheduled(r)
      /\ Pending(q)
      => \E m \in RunIds :
           q < m /\ m < r /\ run[m].def = run[q].def /\ run[m].trigger = "manual"

SchedInv ==
  /\ StartsInOrder
  /\ CycleWaits
  /\ VisitsOnce
  /\ Announced
  /\ StartedOnce
  /\ ManualBetween

-----------------------------------------------------------------------------

\* A set of runs that is not empty has a last one: the first run of a list
\* sorted from the newest to the oldest.
LEMMA LastOne ==
  ASSUME NEW S, S \subseteq RunIds, S # {}
  PROVE  \E l \in S : \A q \in S : q <= l
<1> DEFINE T == {MaxRuns - q : q \in S}
<1>1. T \subseteq Nat /\ T # {}
  <2>1. \A q \in S : MaxRuns - q \in Nat
    BY BoundsAssumption DEF RunIds
  <2> QED
    BY <2>1
<1>2. PICK x \in T : \A y \in T : ~(<<y, x>> \in OpToRel(<, Nat))
  <2> HIDE DEF T
  <2> QED
    BY <1>1, NatLessThanWellFounded, WFMin
<1>3. \A y \in T : ~(y < x)
  <2> HIDE DEF T
  <2> QED
    BY <1>1, <1>2 DEF OpToRel
<1>4. PICK l \in S : x = MaxRuns - l
  OBVIOUS
<1>5. ASSUME NEW q \in S PROVE q <= l
  <2>1. ~(MaxRuns - q < MaxRuns - l)
    BY <1>3, <1>4
  <2> QED
    BY <2>1, BoundsAssumption DEF RunIds
<1> QED
  BY <1>5

\* A launch gives birth to one run and leaves the others alone.
LEMMA LaunchEffect ==
  ASSUME TypeOK, NEW d \in Definitions, NEW trigger \in {"manual", "scheduled"},
         Launch(d, trigger)
  PROVE  /\ created + 1 \in RunIds /\ created' = created + 1 /\ created \in Nat
         /\ phase[created + 1] = "none" /\ phase'[created + 1] = "starting"
         /\ run'[created + 1].def = d /\ run'[created + 1].trigger = trigger
         /\ run'[created + 1].start = clock
         /\ \A q \in RunIds \ {created + 1} : run'[q] = run[q] /\ phase'[q] = phase[q]
<1>1. created + 1 \in RunIds /\ created \in Nat
  BY LaunchTyped, BoundsAssumption DEF TypeOK, RunsTyped
<1>2. phase[created + 1] = "none"
  BY <1>1 DEF TypeOK, RunsTyped, RunIds
<1> QED
  BY <1>1, <1>2 DEF Launch, TypeOK, RunsTyped

\* What a step that launches nothing has to respect.
LEMMA MovesOn ==
  ASSUME TypeOK, TypeOK', SchedInv, UNCHANGED <<created, run>>, clock <= clock',
         faults' = 0 => faults = 0, CycleWaits', VisitsOnce', Announced',
         \A q \in RunIds : Pending(q)' => Pending(q),
         \A q \in RunIds : DiedUnannounced(q) => DiedUnannounced(q)'
  PROVE  SchedInv'
<1>1. \A q \in RunIds : Scheduled(q)' <=> Scheduled(q)
  BY DEF Scheduled
<1>2. StartsInOrder'
  <2>1. \A r \in 1 .. created : run[r].start \in Nat
    BY BoundsAssumption DEF TypeOK, RunsTyped, RunIds
  <2>2. clock \in Nat /\ clock' \in Nat
    BY DEF TypeOK, RequestsTyped
  <2> QED
    BY <2>1, <2>2 DEF SchedInv, StartsInOrder
<1>3. StartedOnce'
  BY <1>1 DEF SchedInv, StartedOnce
<1>4. ManualBetween'
  BY <1>1 DEF SchedInv, ManualBetween
<1> QED
  BY <1>2, <1>3, <1>4 DEF SchedInv

\* What a launch has to respect: the scheduler launches a definition neither
\* twice in a minute nor beside its own previous run.
LEMMA LaunchKeeps ==
  ASSUME TypeOK, TypeOK', IInv, SchedInv,
         NEW d \in Definitions, NEW trigger \in {"manual", "scheduled"}, Launch(d, trigger),
         UNCHANGED <<clock, log>>, faults' = 0 => faults = 0, CycleWaits', VisitsOnce',
         trigger = "scheduled" /\ faults' = 0 =>
           \A q \in RunIds :
             Scheduled(q) /\ run[q].def = d =>
               /\ run[q].start = clock => DiedUnannounced(q)
               /\ Pending(q) => \E m \in RunIds : q < m /\ m <= created /\ run[m].def = d
                                                  /\ run[m].trigger = "manual"
  PROVE  SchedInv'
<1> DEFINE n == created + 1
<1>1. /\ n \in RunIds /\ created' = n /\ created \in Nat
      /\ phase[n] = "none" /\ phase'[n] = "starting"
      /\ run'[n].def = d /\ run'[n].trigger = trigger /\ run'[n].start = clock
      /\ \A q \in RunIds \ {n} : run'[q] = run[q] /\ phase'[q] = phase[q]
  BY LaunchEffect
<1>2. \A q \in RunIds : q <= created => q # n
  BY <1>1 DEF RunIds
<1>3. \A q \in RunIds : q # n => (Scheduled(q)' <=> Scheduled(q))
  BY <1>1 DEF Scheduled, RunIds
<1>4. \A q, r \in RunIds : q < r /\ Scheduled(r)' => q # n /\ q <= created
  BY <1>1 DEF Scheduled, RunIds
<1>5. StartsInOrder'
  <2>1. \A r \in 1 .. n : r # n => r \in 1 .. created /\ r \in RunIds \ {n}
    BY <1>1, BoundsAssumption DEF RunIds
  <2>2. clock \in Nat
    BY DEF TypeOK, RequestsTyped
  <2>3. \A r \in 1 .. n : run'[r].start <= clock
    BY <1>1, <2>1, <2>2 DEF SchedInv, StartsInOrder
  <2>4. ASSUME NEW q \in 1 .. n, NEW r \in 1 .. n, q < r PROVE run'[q].start <= run'[r].start
    <3>1. q # n
      BY <1>1, <2>4
    <3>2. CASE r = n
      BY <1>1, <2>3, <3>2
    <3>3. CASE r # n
      <4>1. run[q].start <= run[r].start
        BY <2>1, <2>4, <3>1, <3>3 DEF SchedInv, StartsInOrder
      <4> QED
        BY <1>1, <2>1, <3>1, <3>3, <4>1
    <3> QED
      BY <3>2, <3>3
  <2> QED
    BY <1>1, <2>3, <2>4 DEF StartsInOrder
<1>6. Announced'
  <2>1. log[n] = "absent"
    BY <1>1 DEF IInv, LogFollowsPhase
  <2> QED
    BY <1>1, <2>1 DEF SchedInv, Announced, Active, AtWork
<1>7. StartedOnce'
  <2> SUFFICES ASSUME faults' = 0, faults = 0, NEW q \in RunIds, NEW r \in RunIds, q < r,
                      run'[q].def = run'[r].def, run'[q].start = run'[r].start,
                      Scheduled(q)', Scheduled(r)'
               PROVE  DiedUnannounced(q)'
    BY DEF StartedOnce
  <2>1. q # n /\ Scheduled(q)
    BY <1>3, <1>4
  <2>2. DiedUnannounced(q) => DiedUnannounced(q)'
    BY <1>1, <2>1 DEF DiedUnannounced
  <2>3. CASE r # n
    BY <1>1, <1>3, <2>1, <2>2, <2>3 DEF SchedInv, StartedOnce
  <2>4. CASE r = n
    BY <1>1, <2>1, <2>2, <2>4 DEF Scheduled
  <2> QED
    BY <2>3, <2>4
<1>8. ManualBetween'
  <2> SUFFICES ASSUME faults' = 0, faults = 0, NEW q \in RunIds, NEW r \in RunIds, q < r,
                      run'[q].def = run'[r].def, Scheduled(q)', Scheduled(r)', Pending(q)'
               PROVE  \E m \in RunIds : q < m /\ m < r /\ run'[m].def = run'[q].def
                                        /\ run'[m].trigger = "manual"
    BY DEF ManualBetween
  <2>1. q # n /\ Scheduled(q)
    BY <1>3, <1>4
  <2>2. Pending(q) /\ run'[q] = run[q]
    BY <1>1, <2>1 DEF Pending
  <2>3. CASE r # n
    <3>1. PICK m \in RunIds : q < m /\ m < r /\ run[m].def = run[q].def
                              /\ run[m].trigger = "manual"
      BY <1>1, <1>3, <2>1, <2>2, <2>3 DEF SchedInv, ManualBetween
    <3>2. m # n
      BY <1>4, <3>1
    <3> QED
      BY <1>1, <2>2, <3>1, <3>2
  <2>4. CASE r = n
    <3>1. run[q].def = d /\ trigger = "scheduled"
      BY <1>1, <2>2, <2>4 DEF Scheduled
    <3>2. PICK m \in RunIds : q < m /\ m <= created /\ run[m].def = d
                              /\ run[m].trigger = "manual"
      BY <2>1, <2>2, <3>1
    <3>3. m < n
      BY <1>1, <3>2 DEF RunIds
    <3> QED
      BY <1>1, <1>2, <2>2, <2>4, <3>1, <3>2, <3>3
  <2> QED
    BY <2>3, <2>4
<1> QED
  BY <1>5, <1>6, <1>7, <1>8 DEF SchedInv

\* A step of the work of a run r, past its announcement, that keeps the cycle.
LEMMA WorkKeeps ==
  ASSUME TypeOK, TypeOK', SchedInv, NEW r \in RunIds,
         UNCHANGED <<created, run, clock, cycle>>, faults' = 0 => faults = 0,
         \A q \in RunIds \ {r} : phase'[q] = phase[q],
         phase[r] \notin {"none", "starting", "over"}, phase'[r] \notin {"none", "starting"},
         phase'[r] \in AtWork => phase[r] \in AtWork,
         \A q \in RunIds : log[q] = "absent" /\ q # r => log'[q] = "absent",
         \A q \in RunIds : log'[q] = "absent" => log[q] = "absent",
         faults' = 0 => \A q \in RunIds : log'[q] # log[q] => phase'[q] \notin AtWork
  PROVE  SchedInv'
<1>1. \A q \in RunIds : Scheduled(q)' <=> Scheduled(q)
  BY DEF Scheduled
<1>2. CycleWaits'
  BY <1>1 DEF SchedInv, CycleWaits
<1>3. VisitsOnce'
  BY <1>1 DEF SchedInv, VisitsOnce
<1>4. Announced'
  <2> SUFFICES ASSUME faults' = 0, NEW q \in RunIds
               PROVE  /\ phase'[q] \in AtWork => log'[q] = "running"
                      /\ Active(q)' /\ phase'[q] # "starting" => log'[q] # "absent"
    BY DEF Announced
  <2>1. /\ phase[q] \in AtWork => log[q] = "running"
        /\ Active(q) /\ phase[q] # "starting" => log[q] # "absent"
    BY DEF SchedInv, Announced
  <2>2. phase'[q] \in AtWork => phase[q] \in AtWork
    OBVIOUS
  <2>3. Active(q)' /\ phase'[q] # "starting" => Active(q) /\ phase[q] # "starting"
    BY DEF Active
  <2> QED
    BY <2>1, <2>2, <2>3
<1>5. \A q \in RunIds : Pending(q)' => Pending(q)
  BY DEF Pending, AtWork
<1>6. \A q \in RunIds : DiedUnannounced(q) => DiedUnannounced(q)'
  BY DEF DiedUnannounced
<1>7. clock <= clock'
  BY DEF TypeOK, RequestsTyped
<1> QED
  BY <1>2, <1>3, <1>4, <1>5, <1>6, <1>7, MovesOn

\* The log after an append, when nothing was lost.
LEMMA AppendLogs ==
  ASSUME TypeOK, NEW r \in RunIds, NEW event \in Events, AppendEvent(r, event)
  PROVE  /\ faults' \in Nat /\ (faults' = 0 => faults = 0 /\ log'[r] = event)
         /\ \A q \in RunIds \ {r} : log'[q] = log[q]
         /\ log'[r] = log[r] \/ log'[r] = event
  BY DEF AppendEvent, TypeOK, StorageTyped

\* What the cycle found due it does not start twice in a minute, nor beside
\* its own previous run.
LEMMA DueAlone ==
  ASSUME TypeOK, IInv, SchedInv, faults = 0, NEW p \in cycle.todo, cycle.pc = "visit",
         IsDue(p[1], p[2], cycle.now),
         NEW q \in RunIds, Scheduled(q), run[q].def = p[1]
  PROVE  /\ run[q].start = clock => DiedUnannounced(q)
         /\ Pending(q) => \E m \in RunIds : q < m /\ m <= created /\ run[m].def = p[1]
                                            /\ run[m].trigger = "manual"
<1>1. /\ created \in Nat /\ clock \in Nat /\ cycle.now \in Nat /\ cycle.run = NoRun
      /\ \A r \in RunIds : run[r].start \in Nat
      /\ \A r \in RunIds : r <= created <=> phase[r] # "none"
      /\ \A r \in RunIds : run[r].trigger \in {"manual", "scheduled"}
  BY BoundsAssumption DEF TypeOK, RequestsTyped, RunsTyped, CycleTyped, RunIds
<1>2. phase[q] # "starting" /\ phase[q] # "none"
  <2>1. q # NoRun
    BY DEF RunIds, NoRun
  <2>2. q <= created
    BY DEF Scheduled
  <2> QED
    BY <1>1, <2>1, <2>2 DEF SchedInv, CycleWaits
<1>3. ASSUME log[q] # "absent"
      PROVE  \E l \in RunIds : q <= l /\ l <= created /\ run[l].def = p[1]
                               /\ log[l] # "running" /\ run[l].start # cycle.now
  <2>1. LoggedRuns(p[1]) \subseteq RunIds /\ q \in LoggedRuns(p[1])
    BY <1>3 DEF LoggedRuns
  <2>2. PICK l \in LoggedRuns(p[1]) : \A r \in LoggedRuns(p[1]) : r <= l
    BY <2>1, LastOne
  <2>3. IsLastRun(l, p[1])
    BY <2>2 DEF IsLastRun
  <2>4. l \in RunIds /\ log[l] # "absent" /\ run[l].def = p[1]
    BY DEF LoggedRuns
  <2>5. phase[l] # "none"
    BY <2>4 DEF IInv, LogFollowsPhase
  <2> QED
    BY <1>1, <2>1, <2>2, <2>3, <2>4, <2>5 DEF IsDue
<1>4. ASSUME run[q].start = clock PROVE DiedUnannounced(q)
  <2>1. cycle.now = clock
    <3>1. run[q].start <= cycle.now /\ cycle.now <= clock
      BY DEF SchedInv, VisitsOnce
    <3> QED
      BY <1>1, <1>4, <3>1
  <2>2. ASSUME log[q] # "absent" PROVE FALSE
    <3>1. PICK l \in RunIds : q <= l /\ l <= created /\ run[l].start # cycle.now
      BY <1>3, <2>2
    <3>2. run[q].start <= run[l].start /\ run[l].start <= clock
      BY <1>1, <3>1 DEF SchedInv, StartsInOrder, RunIds
    <3> QED
      BY <1>1, <1>4, <2>1, <3>1, <3>2
  <2>3. phase[q] = "over"
    BY <1>2, <2>2 DEF SchedInv, Announced, Active
  <2> QED
    BY <2>2, <2>3 DEF DiedUnannounced
<1>5. ASSUME Pending(q)
      PROVE  \E m \in RunIds : q < m /\ m <= created /\ run[m].def = p[1]
                               /\ run[m].trigger = "manual"
  <2>1. log[q] = "running"
    BY <1>2, <1>5 DEF SchedInv, Announced, Pending, AtWork
  <2>2. PICK l \in RunIds : q <= l /\ l <= created /\ run[l].def = p[1] /\ log[l] # "running"
    BY <1>3, <2>1
  <2>3. q < l
    BY <2>1, <2>2 DEF RunIds
  <2>4. CASE run[l].trigger = "manual"
    BY <2>2, <2>3, <2>4
  <2>5. CASE run[l].trigger = "scheduled"
    <3>1. Scheduled(l)
      BY <1>1, <2>2, <2>5 DEF Scheduled, RunIds
    <3>2. PICK m \in RunIds : q < m /\ m < l /\ run[m].def = run[q].def
                              /\ run[m].trigger = "manual"
      BY <1>5, <2>2, <2>3, <3>1 DEF SchedInv, ManualBetween
    <3>3. m <= created
      BY <1>1, <2>2, <3>2 DEF RunIds
    <3> QED
      BY <3>2, <3>3
  <2> QED
    BY <1>1, <2>4, <2>5
<1> QED
  BY <1>4, <1>5

-----------------------------------------------------------------------------

\* SchedInv is inductive, given IInv: one action at a time.
LEMMA SchedStep == TypeOK /\ TypeOK' /\ IInv /\ SchedInv /\ [Next]_vars => SchedInv'
<1> SUFFICES ASSUME TypeOK, TypeOK', IInv, SchedInv, [Next]_vars PROVE SchedInv'
  OBVIOUS
<1> USE DEF requestVars, runVars, storageVars
<1>0. /\ RequestsTyped /\ RunsTyped /\ StorageTyped /\ CycleTyped
      /\ CycleWaits /\ VisitsOnce /\ Announced
  BY DEF TypeOK, SchedInv
<1>00. clock \in Nat /\ cycle.now \in Nat /\ faults \in Nat
  BY <1>0 DEF RequestsTyped, CycleTyped, StorageTyped
<1>1. ASSUME UNCHANGED <<created, run, phase, log, cycle>>, clock <= clock', clock' \in Nat,
             faults' = 0 => faults = 0
      PROVE  SchedInv'
  <2>1. CycleWaits'
    BY <1>0, <1>1 DEF CycleWaits, Scheduled
  <2>2. VisitsOnce'
    BY <1>0, <1>00, <1>1 DEF VisitsOnce, Scheduled
  <2>3. Announced'
    BY <1>0, <1>1 DEF Announced, Active
  <2> QED
    BY <1>1, <2>1, <2>2, <2>3, MovesOn DEF Pending, DiedUnannounced
<1>2. ASSUME UNCHANGED <<created, run, phase, log, clock>>, faults' = 0 => faults = 0,
             cycle'.run = cycle.run, cycle'.now = cycle.now, cycle'.todo \subseteq cycle.todo
      PROVE  SchedInv'
  <2>1. CycleWaits'
    BY <1>0, <1>2 DEF CycleWaits, Scheduled
  <2>2. VisitsOnce'
    BY <1>0, <1>2 DEF VisitsOnce, Scheduled
  <2>3. Announced'
    BY <1>0, <1>2 DEF Announced, Active
  <2> QED
    BY <1>00, <1>2, <2>1, <2>2, <2>3, MovesOn DEF Pending, DiedUnannounced
<1>3. ASSUME NEW d \in Definitions, RunNow(d) PROVE SchedInv'
  <2>1. /\ created + 1 \in RunIds /\ created' = created + 1 /\ created \in Nat
        /\ run'[created + 1].trigger = "manual"
        /\ \A q \in RunIds \ {created + 1} : run'[q] = run[q] /\ phase'[q] = phase[q]
    BY <1>3, LaunchEffect DEF RunNow
  <2>2. \A q \in RunIds : Scheduled(q)' => Scheduled(q) /\ q # created + 1
    BY <2>1 DEF Scheduled, RunIds
  <2>3. CycleWaits' /\ VisitsOnce'
    BY <1>0, <1>3, <2>1, <2>2 DEF RunNow, CycleWaits, VisitsOnce
  <2> QED
    BY <1>3, <2>3, LaunchKeeps DEF RunNow
<1>4. ASSUME CycleLaunch PROVE SchedInv'
  <2>1. PICK p \in cycle.todo :
          /\ FoundDue(p)
          /\ Launch(p[1], "scheduled")
          /\ cycle' = [cycle EXCEPT !.pc = "launch", !.run = created + 1, !.todo = @ \ {p}]
    BY <1>4 DEF CycleLaunch
  <2>8. /\ faults' \in Nat
        /\ faults' = 0 => faults = 0 /\ IsDue(p[1], p[2], cycle.now)
    BY <1>00, <2>1 DEF FoundDue
  <2>2. p[1] \in Definitions /\ cycle.pc = "visit" /\ cycle.run = NoRun
    BY <1>0, <1>4, <2>1 DEF CycleTyped, CycleLaunch
  <2>3. /\ created + 1 \in RunIds /\ created' = created + 1 /\ created \in Nat
        /\ run'[created + 1].def = p[1]
        /\ \A q \in RunIds \ {created + 1} : run'[q] = run[q] /\ phase'[q] = phase[q]
    BY <2>1, <2>2, LaunchEffect
  <2>4. \A q \in RunIds : Scheduled(q)' /\ q # created + 1 => Scheduled(q)
    BY <2>3 DEF Scheduled, RunIds
  <2>5. cycle'.run = created + 1 /\ cycle'.now = cycle.now /\ cycle'.todo = cycle.todo \ {p}
    BY <1>0, <2>1 DEF CycleTyped
  <2>6. CycleWaits'
    BY <1>0, <2>2, <2>3, <2>4, <2>5 DEF CycleWaits, NoRun, RunIds
  <2>7. VisitsOnce'
    <3>1. \A o \in cycle'.todo : o[1] # p[1]
      BY <1>0, <2>1, <2>5 DEF VisitsOnce
    <3> QED
      BY <1>0, <1>4, <2>3, <2>4, <2>5, <3>1 DEF VisitsOnce, CycleLaunch
  <2> QED
    BY <1>4, <2>1, <2>2, <2>6, <2>7, <2>8, DueAlone, LaunchKeeps DEF CycleLaunch
<1>5. ASSUME NEW r \in RunIds, LogRunning(r) PROVE SchedInv'
  <2>1. PICK first \in {"inspecting", "archiving"} :
          /\ phase[r] = "starting" /\ phase' = [phase EXCEPT ![r] = first]
          /\ log[r] = "absent" /\ UNCHANGED <<created, run, clock>>
    BY <1>5 DEF LogRunning, Advance, IInv, LogFollowsPhase, FirstWait
  <2>2. /\ faults' = 0 => faults = 0 /\ log'[r] = "running"
        /\ \A q \in RunIds \ {r} : log'[q] = log[q]
    BY <1>5, AppendLogs DEF LogRunning, Events
  <2>3. /\ cycle.run = r => cycle'.run = NoRun
        /\ cycle.run # r => cycle'.run = cycle.run
        /\ cycle'.now = cycle.now /\ cycle'.todo = cycle.todo
    BY <1>0, <1>5 DEF LogRunning, CycleTyped
  <2>4. phase'[r] = first /\ \A q \in RunIds \ {r} : phase'[q] = phase[q]
    BY <1>0, <2>1 DEF RunsTyped
  <2>5. CycleWaits'
    BY <1>0, <2>1, <2>3, <2>4 DEF CycleWaits, Scheduled
  <2>6. VisitsOnce'
    BY <1>0, <2>1, <2>3 DEF VisitsOnce, Scheduled
  <2>7. Announced'
    BY <1>0, <2>2, <2>4 DEF Announced, Active, AtWork
  <2>8. \A q \in RunIds : Pending(q)' => Pending(q)
    BY <2>1, <2>4 DEF Pending
  <2>9. \A q \in RunIds : DiedUnannounced(q) => DiedUnannounced(q)'
    BY <2>1, <2>2, <2>4 DEF DiedUnannounced
  <2> QED
    BY <1>00, <2>1, <2>2, <2>5, <2>6, <2>7, <2>8, <2>9, MovesOn
<1>6. ASSUME NEW r \in RunIds, TmpDirFails(r) PROVE SchedInv'
  <2>1. /\ UNCHANGED <<created, run, clock, cycle, log>> /\ faults' = faults + 1
        /\ phase[r] \in {"inspecting", "archiving"} /\ phase' = [phase EXCEPT ![r] = "over"]
    BY <1>6 DEF TmpDirFails, Advance
  <2> QED
    BY <1>0, <1>00, <2>1, WorkKeeps DEF RunsTyped, AtWork
<1>7. ASSUME NEW r \in RunIds,
             UNCHANGED <<created, run, clock, cycle, log, faults>>,
             \/ phase[r] = "inspecting" /\ phase' = [phase EXCEPT ![r] = "archiving"]
             \/ phase[r] = "inspecting" /\ phase' = [phase EXCEPT ![r] = "failing"]
             \/ phase[r] = "archiving" /\ phase' = [phase EXCEPT ![r] = "uploading"]
             \/ phase[r] = "archiving" /\ phase' = [phase EXCEPT ![r] = "failing"]
             \/ phase[r] = "uploading" /\ phase' = [phase EXCEPT ![r] = "failing"]
             \/ phase[r] = "uploading" /\ phase' = [phase EXCEPT ![r] = "committing"]
             \/ phase[r] = "listing" /\ phase' = [phase EXCEPT ![r] = "over"]
             \/ phase[r] = "listing" /\ phase' = [phase EXCEPT ![r] = "rotating"]
             \/ phase[r] = "rotating" /\ phase' = [phase EXCEPT ![r] = "marking"]
      PROVE  SchedInv'
  BY <1>0, <1>7, WorkKeeps DEF RunsTyped, AtWork
<1>8. ASSUME NEW r \in RunIds,
             \/ Inspected(r) \/ InspectionFails(r) \/ ArchiveDone(r) \/ WorkFails(r)
             \/ UploadDone(r) \/ UploadTimesOut(r)
      PROVE  SchedInv'
  BY <1>7, <1>8
  DEF Inspected, InspectionFails, ArchiveDone, WorkFails, UploadDone, UploadTimesOut, Advance
<1>9. ASSUME NEW r \in RunIds, ListRuns(r) \/ DeleteArchive(r) PROVE SchedInv'
  BY <1>7, <1>9 DEF ListRuns, DeleteArchive, Advance, Continue
<1>10. ASSUME NEW r \in RunIds, LogFailed(r) \/ LogSuccess(r) PROVE SchedInv'
  <2>1. /\ UNCHANGED <<created, run, clock, cycle>>
        /\ \/ phase[r] = "failing" /\ phase' = [phase EXCEPT ![r] = "over"]
           \/ phase[r] = "committing" /\ phase' = [phase EXCEPT ![r] = "listing"]
        /\ AppendEvent(r, "failed") \/ AppendEvent(r, "success")
    BY <1>10 DEF LogFailed, LogSuccess, Advance
  <2>2. /\ faults' = 0 => faults = 0
        /\ \A q \in RunIds \ {r} : log'[q] = log[q]
        /\ log'[r] = log[r] \/ log'[r] \in {"failed", "success"}
    BY <2>1, AppendLogs DEF Events
  <2>3. phase'[r] \in {"over", "listing"} /\ \A q \in RunIds \ {r} : phase'[q] = phase[q]
    BY <1>0, <2>1 DEF RunsTyped
  <2> QED
    BY <2>1, <2>2, <2>3, WorkKeeps DEF AtWork
<1>11. ASSUME NEW r \in RunIds, DeleteFails(r) \/ ListUnread(r) PROVE SchedInv'
  <2>1. /\ UNCHANGED <<created, run, clock, cycle, log>> /\ faults' = faults + 1
        /\ phase[r] \in {"rotating", "listing"}
        /\ phase' = [phase EXCEPT ![r] = "over"] \/ phase' = [phase EXCEPT ![r] = "rotating"]
    BY <1>11 DEF DeleteFails, ListUnread, Continue
  <2> QED
    BY <1>0, <1>00, <2>1, WorkKeeps DEF RunsTyped, AtWork
<1>12. ASSUME NEW r \in RunIds, LogRotated(r) PROVE SchedInv'
  <2>1. PICK v \in todo[r] : AppendEvent(v, "rotated") /\ Continue(r, todo[r] \ {v})
    BY <1>12 DEF LogRotated
  <2>2. v \in RunIds /\ Succeeded(v)
    BY <1>0, <2>1 DEF RunsTyped, IInv, TodoRotatable, Rotatable
  <2>3. phase[v] \notin AtWork
    BY <2>2 DEF IInv, LogFollowsPhase, AtWork
  <2>4. /\ faults' = 0 => faults = 0
        /\ \A q \in RunIds \ {v} : log'[q] = log[q]
        /\ log'[v] = log[v] \/ log'[v] = "rotated"
    BY <2>1, <2>2, AppendLogs DEF Events
  <2>5. /\ UNCHANGED <<created, run, clock, cycle>> /\ phase[r] = "marking"
        /\ phase' = [phase EXCEPT ![r] = "over"] \/ phase' = [phase EXCEPT ![r] = "rotating"]
    BY <1>12, <2>1 DEF LogRotated, Continue
  <2>6. phase'[r] \in {"over", "rotating"} /\ \A q \in RunIds \ {r} : phase'[q] = phase[q]
    BY <1>0, <2>5 DEF RunsTyped
  <2>7. \A q \in RunIds : log'[q] # log[q] => phase'[q] \notin AtWork
    BY <2>3, <2>4, <2>6 DEF AtWork
  <2>8. log[v] # "absent"
    BY <2>2 DEF Succeeded
  <2> QED
    BY <2>2, <2>4, <2>5, <2>6, <2>7, <2>8, WorkKeeps DEF AtWork
<1>13. ASSUME CycleBegin PROVE SchedInv'
  <2>1. /\ UNCHANGED <<created, run, phase, log, faults, clock>>
        /\ cycle.run = NoRun /\ cycle'.run = NoRun /\ cycle'.now = clock
        /\ \A p, o \in cycle'.todo : p[1] = o[1] => p = o
    BY <1>0, <1>13 DEF CycleBegin, CycleTyped
  <2>2. CycleWaits'
    BY <1>0, <2>1 DEF CycleWaits, Scheduled
  <2>3. VisitsOnce'
    <3>1. \A q \in RunIds : Scheduled(q) => run[q].start <= clock
      BY DEF SchedInv, StartsInOrder, Scheduled
    <3> QED
      BY <1>00, <2>1, <3>1 DEF VisitsOnce, Scheduled
  <2>4. Announced'
    BY <1>0, <2>1 DEF Announced, Active
  <2> QED
    BY <1>00, <2>1, <2>2, <2>3, <2>4, MovesOn DEF Pending, DiedUnannounced
<1>14. ASSUME CycleSkip \/ CycleAbort \/ CycleEnd PROVE SchedInv'
  <2>1. /\ UNCHANGED <<created, run, phase, log, clock>>
        /\ faults' \in Nat /\ (faults' = 0 => faults = 0)
    BY <1>00, <1>14 DEF CycleSkip, CycleAbort, CycleEnd, FoundDue
  <2>2. /\ cycle'.run = cycle.run /\ cycle'.now = cycle.now
        /\ cycle'.todo \subseteq cycle.todo
    BY <1>0, <1>14 DEF CycleSkip, CycleAbort, CycleEnd, CycleTyped
  <2> QED
    BY <1>2, <2>1, <2>2
<1>15. ASSUME Crash PROVE SchedInv'
  <2>1. /\ UNCHANGED <<created, run, log, faults, clock>>
        /\ \A q \in RunIds : phase'[q] = "none" \/ phase'[q] = "over"
        /\ \A q \in RunIds : phase[q] = "over" => phase'[q] = "over"
        /\ cycle'.now = cycle.now /\ cycle'.todo = {}
    BY <1>0, <1>15 DEF Crash, CycleTyped
  <2>2. CycleWaits'
    BY <2>1 DEF CycleWaits
  <2>3. VisitsOnce'
    BY <1>0, <2>1 DEF VisitsOnce
  <2>4. Announced'
    BY <2>1 DEF Announced, Active, AtWork
  <2>5. \A q \in RunIds : Pending(q)' => Pending(q)
    BY <2>1 DEF Pending
  <2>6. \A q \in RunIds : DiedUnannounced(q) => DiedUnannounced(q)'
    BY <2>1 DEF DiedUnannounced
  <2> QED
    BY <1>00, <2>1, <2>2, <2>3, <2>4, <2>5, <2>6, MovesOn
<1>16. CASE UNCHANGED <<created, run, phase, log, cycle, faults, clock>>
  BY <1>00, <1>1, <1>16
<1>17. ASSUME MinutePasses PROVE SchedInv'
  BY <1>00, <1>1, <1>17 DEF MinutePasses
<1> QED
  BY <1>3, <1>4, <1>5, <1>6, <1>8, <1>9, <1>10, <1>11, <1>12, <1>13, <1>14, <1>15, <1>16, <1>17
  DEF Next, Request, Perform, Work, Unbounded, Cycle, Restore, vars, CreateDefinition,
      UpdateDefinition,
      DeleteDefinition, LateUpload, RestoreBegin, RestoreEnd

LEMMA SchedInit == Init => SchedInv
  BY DEF Init, SchedInv, StartsInOrder, CycleWaits, VisitsOnce, Announced, StartedOnce,
         ManualBetween, Scheduled, Active, AtWork

LEMMA SchedHolds == Spec => [](TypeOK /\ IInv /\ SchedInv)
<1>1. Init => IInv
  BY DEF Init, IInv, LogFollowsPhase, TodoRotatable, RotatedRotatable, SucceededStored, Succeeded
<1> QED
  BY <1>1, IInvStep, SchedInit, SchedStep, TypeCorrect, PTL DEF Spec

\* isBackupDue keeps its promise for any definitions, schedules, clocks and
\* crashes, however late a cycle: the scheduler starts a definition at most
\* once per minute, unless a run died before it was announced.
THEOREM OncePerMinuteHolds == Spec => []OncePerMinute
<1>1. TypeOK /\ SchedInv => OncePerMinute
  <2> SUFFICES ASSUME TypeOK, SchedInv, faults = 0, NEW q \in 1 .. created, NEW r \in 1 .. created,
                      q < r, run[q].def = run[r].def, run[q].start = run[r].start,
                      run[q].trigger = "scheduled", run[r].trigger = "scheduled"
               PROVE  log[q] = "absent"
    BY DEF OncePerMinute
  <2>1. q \in RunIds /\ r \in RunIds /\ Scheduled(q) /\ Scheduled(r)
    BY BoundsAssumption DEF TypeOK, RunsTyped, RunIds, Scheduled
  <2> QED
    BY <2>1 DEF SchedInv, StartedOnce, DiedUnannounced
<1> QED
  BY <1>1, SchedHolds, PTL

\* For any number of runs, manual or scheduled, and any crashes, the scheduler
\* only ever runs a definition beside its own previous run behind a manual run.
THEOREM OverlapBehindManual == Spec => []ScheduledOverlapBehindManual
<1>1. TypeOK /\ SchedInv => ScheduledOverlapBehindManual
  <2> SUFFICES ASSUME TypeOK, SchedInv, faults = 0, NEW q \in RunIds, NEW r \in RunIds,
                      q < r, run[q].def = run[r].def, run[q].trigger = "scheduled",
                      run[r].trigger = "scheduled", Pending(q), Pending(r)
               PROVE  \E m \in RunIds : q < m /\ m < r /\ run[m].def = run[q].def
                                        /\ run[m].trigger = "manual"
    BY DEF ScheduledOverlapBehindManual
  <2>1. Scheduled(q) /\ Scheduled(r)
    BY BoundsAssumption DEF TypeOK, RunsTyped, RunIds, Scheduled, Pending
  <2> QED
    BY <2>1 DEF SchedInv, ManualBetween
<1> QED
  BY <1>1, SchedHolds, PTL

-----------------------------------------------------------------------------
(* What a restoration finds.                                               *)
(*                                                                         *)
(* RestoreMissesOnlyRotated speaks of the run being restored; whether its  *)
(* archive is there depends on the retentions of other runs.  RestoreInv   *)
(* says of every run, when nothing failed or died, that a success is       *)
(* stored, or a retention stands between its deletion and its "rotated"    *)
(* event: the deletion enters that window, and only the event leaves it.   *)

StoredOrRotating ==
  faults = 0 /\ crashes = 0 =>
    \A v \in RunIds :
      log[v] = "success" => <<run[v].dest, v>> \in objects \/ BeingRotated(v)

RestoresSuccess ==
  restore.pc = "download" => restore.run \in RunIds /\ Succeeded(restore.run)

RestoreInv == StoredOrRotating /\ RestoresSuccess

\* A step that ends no rotation, deletes nothing and logs no success.
LEMMA StaysStored ==
  ASSUME StoredOrRotating, faults' = 0 /\ crashes' = 0 => faults = 0 /\ crashes = 0,
         objects \subseteq objects',
         \A v \in RunIds : log'[v] = "success" => log[v] = "success" /\ run'[v] = run[v],
         \A r \in RunIds : phase[r] = "marking" => phase'[r] = "marking" /\ todo'[r] = todo[r]
  PROVE  StoredOrRotating'
<1>1. \A v \in RunIds : BeingRotated(v) => BeingRotated(v)'
  BY DEF BeingRotated, IsNext
<1> QED
  BY <1>1 DEF StoredOrRotating

\* Any step but a rotation, a success or a crash.
LEMMA OtherStored ==
  ASSUME TypeOK, IInv, RestoreInv,
         Request \/ Cycle \/ Restore \/ MinutePasses
           \/ \E r \in RunIds : \/ LogRunning(r) \/ ArchiveDone(r) \/ WorkFails(r) \/ UploadDone(r)
                                \/ UploadTimesOut(r) \/ LogFailed(r) \/ ListRuns(r)
                                \/ TmpDirFails(r) \/ DeleteFails(r) \/ LateUpload(r)
                                \/ Inspected(r) \/ InspectionFails(r) \/ ListUnread(r)
  PROVE  StoredOrRotating'
<1> USE DEF requestVars, runVars, storageVars
<1>0. RunsTyped /\ StorageTyped /\ StoredOrRotating /\ faults \in Nat
  BY DEF TypeOK, StorageTyped, RestoreInv
<1>1. CASE UNCHANGED <<run, phase, todo, log, objects, faults, crashes>>
  BY <1>0, <1>1, StaysStored
<1>2. ASSUME NEW d \in Definitions, NEW trigger \in {"manual", "scheduled"}, Launch(d, trigger),
             UNCHANGED <<log, objects, crashes>>, faults' = 0 => faults = 0
      PROVE  StoredOrRotating'
  <2>1. /\ created + 1 \in RunIds /\ phase[created + 1] = "none"
        /\ \A q \in RunIds \ {created + 1} : run'[q] = run[q] /\ phase'[q] = phase[q]
    BY <1>2, LaunchEffect
  <2>2. log[created + 1] = "absent"
    BY <2>1 DEF IInv, LogFollowsPhase
  <2>3. todo' = todo
    BY <1>2 DEF Launch
  <2> QED
    BY <1>0, <1>2, <2>1, <2>2, <2>3, StaysStored
<1>3. ASSUME NEW d \in Definitions, RunNow(d) PROVE StoredOrRotating'
  BY <1>2, <1>3 DEF RunNow
<1>4. ASSUME CycleLaunch PROVE StoredOrRotating'
  <2>1. PICK p \in cycle.todo : Launch(p[1], "scheduled")
    BY <1>4 DEF CycleLaunch
  <2>2. p[1] \in Definitions
    BY <2>1 DEF TypeOK, CycleTyped
  <2>3. faults' = 0 => faults = 0
    BY <1>0, <1>4 DEF CycleLaunch, FoundDue
  <2> QED
    BY <1>2, <1>4, <2>1, <2>2, <2>3 DEF CycleLaunch
<1>5. ASSUME NEW r \in RunIds, LogRunning(r) \/ LogFailed(r) PROVE StoredOrRotating'
  <2>1. /\ UNCHANGED <<run, todo, objects, crashes>>
        /\ \/ phase[r] = "starting" /\ \E w \in Phases : phase' = [phase EXCEPT ![r] = w]
           \/ phase[r] = "failing" /\ phase' = [phase EXCEPT ![r] = "over"]
        /\ AppendEvent(r, "running") \/ AppendEvent(r, "failed")
    BY <1>5 DEF LogRunning, LogFailed, Advance, FirstWait, Phases
  <2>2. /\ faults' = 0 => faults = 0
        /\ \A q \in RunIds : log'[q] = "success" => log[q] = "success"
    BY <2>1, AppendLogs DEF Events
  <2> QED
    BY <1>0, <2>1, <2>2, StaysStored DEF RunsTyped
<1>6. ASSUME NEW r \in RunIds,
             \/ ArchiveDone(r) \/ WorkFails(r) \/ UploadDone(r) \/ UploadTimesOut(r)
             \/ TmpDirFails(r) \/ ListRuns(r) \/ DeleteFails(r)
             \/ Inspected(r) \/ InspectionFails(r) \/ ListUnread(r)
      PROVE  StoredOrRotating'
  <2>1. /\ UNCHANGED <<run, log, crashes>> /\ objects \subseteq objects'
        /\ faults' = faults \/ faults' = faults + 1
        /\ phase[r] # "marking"
        /\ \A q \in RunIds \ {r} : phase'[q] = phase[q] /\ todo'[q] = todo[q]
    BY <1>0, <1>6 DEF ArchiveDone, WorkFails, UploadDone, UploadTimesOut, TmpDirFails,
                      ListRuns, DeleteFails, Inspected, InspectionFails, ListUnread, Advance,
                      Continue, RunsTyped
  <2> QED
    BY <1>0, <2>1, StaysStored
<1>7. ASSUME NEW r \in RunIds, LateUpload(r) PROVE StoredOrRotating'
  BY <1>0, <1>7, StaysStored DEF LateUpload
<1>8. ASSUME CycleAbort PROVE StoredOrRotating'
  BY <1>0, <1>8, StaysStored DEF CycleAbort, FoundDue
<1> QED
  BY <1>1, <1>3, <1>4, <1>5, <1>6, <1>7, <1>8
  DEF Request, Cycle, Restore, CreateDefinition, UpdateDefinition, DeleteDefinition, CycleBegin,
      CycleSkip, CycleEnd, RestoreBegin, RestoreEnd, MinutePasses

\* LogSuccess, DeleteArchive, LogRotated and a crash: RestoreInv is inductive.
LEMMA StoredStep == TypeOK /\ TypeOK' /\ IInv /\ RestoreInv /\ [Next]_vars => StoredOrRotating'
<1> SUFFICES ASSUME TypeOK, TypeOK', IInv, RestoreInv, [Next]_vars PROVE StoredOrRotating'
  OBVIOUS
<1> USE DEF requestVars, runVars, storageVars
<1>0. RunsTyped /\ StorageTyped /\ StoredOrRotating /\ faults \in Nat /\ crashes \in Nat
  BY DEF TypeOK, StorageTyped, RestoreTyped, RestoreInv
<1>1. ASSUME NEW r \in RunIds, LogSuccess(r) PROVE StoredOrRotating'
  <2>1. /\ UNCHANGED <<run, todo, objects, crashes>> /\ phase[r] = "committing"
        /\ phase' = [phase EXCEPT ![r] = "listing"] /\ <<run[r].dest, r>> \in objects
    BY <1>1 DEF LogSuccess, Advance, IInv, LogFollowsPhase
  <2>2. (faults' = 0 => faults = 0) /\ \A q \in RunIds \ {r} : log'[q] = log[q]
    BY <1>1, AppendLogs DEF LogSuccess, Events
  <2>3. \A v \in RunIds : BeingRotated(v) => BeingRotated(v)'
    BY <1>0, <2>1 DEF BeingRotated, IsNext, RunsTyped
  <2> QED
    BY <1>0, <2>1, <2>2, <2>3 DEF StoredOrRotating
<1>2. ASSUME NEW r \in RunIds, DeleteArchive(r) PROVE StoredOrRotating'
  <2>1. PICK v \in todo[r] : IsNext(v, r) /\ objects' = objects \ {<<run[r].dest, v>>}
    BY <1>2 DEF DeleteArchive
  <2>2. /\ UNCHANGED <<run, todo, log, faults, crashes>>
        /\ phase[r] = "rotating" /\ phase' = [phase EXCEPT ![r] = "marking"]
    BY <1>2 DEF DeleteArchive, Advance
  <2>3. BeingRotated(v)'
    BY <1>0, <2>1, <2>2 DEF BeingRotated, IsNext, RunsTyped
  <2>4. \A w \in RunIds : BeingRotated(w) => BeingRotated(w)'
    BY <1>0, <2>2 DEF BeingRotated, IsNext, RunsTyped
  <2> QED
    BY <1>0, <2>1, <2>2, <2>3, <2>4 DEF StoredOrRotating
<1>3. ASSUME NEW r \in RunIds, LogRotated(r) PROVE StoredOrRotating'
  <2>1. PICK v \in todo[r] : IsNext(v, r) /\ AppendEvent(v, "rotated") /\ Continue(r, todo[r] \ {v})
    BY <1>3 DEF LogRotated
  <2>2. v \in RunIds /\ todo[r] \subseteq RunIds
    BY <1>0, <2>1 DEF RunsTyped
  <2>3. /\ faults' = 0 => faults = 0 /\ log'[v] = "rotated"
        /\ \A q \in RunIds \ {v} : log'[q] = log[q]
    BY <2>1, <2>2, AppendLogs DEF Events
  <2>4. /\ UNCHANGED <<run, objects, crashes>>
        /\ \A q \in RunIds \ {r} : phase'[q] = phase[q] /\ todo'[q] = todo[q]
    BY <1>0, <1>3, <2>1 DEF LogRotated, Continue, RunsTyped
  <2>5. \A w \in todo[r] : IsNext(w, r) => w = v
    BY <2>1, <2>2 DEF IsNext, RunIds
  <2>6. \A w \in RunIds \ {v} : BeingRotated(w) => BeingRotated(w)'
    BY <2>4, <2>5 DEF BeingRotated, IsNext
  <2> QED
    BY <1>0, <2>3, <2>4, <2>6 DEF StoredOrRotating
<1>4. ASSUME Crash PROVE StoredOrRotating'
  BY <1>0, <1>4 DEF Crash, StoredOrRotating
<1>5. CASE UNCHANGED vars
  BY <1>0, <1>5, StaysStored DEF vars
<1> QED
  BY <1>1, <1>2, <1>3, <1>4, <1>5, OtherStored DEF Next, Perform, Work, Unbounded

\* Whatever a step does, a success stays one.
LEMMA SuccessStays ==
  ASSUME TypeOK, IInv, [Next]_vars, NEW q \in RunIds, Succeeded(q)
  PROVE  Succeeded(q)'
<1> USE DEF requestVars, runVars, storageVars
<1>1. \A r \in RunIds, event \in {"success", "rotated"} : AppendEvent(r, event) => Succeeded(q)'
  BY AppendEffect DEF Succeeded, Events
<1>2. \A r \in RunIds, event \in Events : AppendEvent(r, event) /\ r # q => Succeeded(q)'
  BY AppendEffect DEF Succeeded
<1>3. phase[q] \notin {"starting", "failing"}
  BY DEF IInv, LogFollowsPhase, Succeeded
<1>4. ASSUME NEW r \in RunIds, LogRunning(r) \/ LogFailed(r) \/ LogSuccess(r) PROVE Succeeded(q)'
  BY <1>1, <1>2, <1>3, <1>4 DEF LogRunning, LogFailed, LogSuccess, Advance, Events
<1>5. ASSUME NEW r \in RunIds, LogRotated(r) PROVE Succeeded(q)'
  BY <1>1, <1>5 DEF LogRotated, TypeOK, RunsTyped
<1>6. CASE log' = log
  BY <1>6 DEF Succeeded
<1> QED
  BY <1>4, <1>5, <1>6
  DEF Next, Request, Perform, Work, Unbounded, Cycle, Restore, vars, CreateDefinition,
      UpdateDefinition,
      DeleteDefinition, RunNow, TmpDirFails, ArchiveDone, WorkFails, UploadDone, UploadTimesOut,
      LateUpload, Inspected, InspectionFails, ListUnread, ListRuns, DeleteArchive, DeleteFails,
      CycleBegin, CycleSkip, CycleLaunch,
      CycleAbort, CycleEnd, RestoreBegin, RestoreEnd, MinutePasses, Crash

LEMMA RestoreStep == TypeOK /\ TypeOK' /\ IInv /\ RestoreInv /\ [Next]_vars => RestoreInv'
<1> SUFFICES ASSUME TypeOK, TypeOK', IInv, RestoreInv, [Next]_vars PROVE RestoresSuccess'
  BY StoredStep DEF RestoreInv
<1>1. CASE \E r \in RunIds : RestoreBegin(r)
  BY <1>1 DEF RestoreBegin, RestoresSuccess, Succeeded, storageVars
<1>2. CASE restore' = Idle
  BY <1>2 DEF RestoresSuccess, Idle
<1>3. CASE restore' = restore
  BY <1>3, SuccessStays DEF RestoreInv, RestoresSuccess
<1> QED
  BY <1>1, <1>2, <1>3
  DEF Next, Request, Perform, Work, Unbounded, Cycle, Restore, vars, CreateDefinition,
      UpdateDefinition,
      DeleteDefinition, RunNow, LogRunning, TmpDirFails, ArchiveDone, WorkFails, UploadDone,
      UploadTimesOut, LateUpload, Inspected, InspectionFails, ListUnread, LogFailed,
      LogSuccess, ListRuns, DeleteArchive, DeleteFails,
      LogRotated, CycleBegin, CycleSkip, CycleLaunch, CycleAbort, CycleEnd, RestoreEnd,
      MinutePasses, Crash

\* For any number of runs finishing and rotating at the same time, a
\* restoration that was accepted finds its archive unless the rotation of that
\* very run overtook it or the bucket of the definition changed.
THEOREM RestoreFinds == Spec => []RestoreMissesOnlyRotated
<1>1. Init => IInv /\ RestoreInv
  BY DEF Init, IInv, LogFollowsPhase, TodoRotatable, RotatedRotatable, SucceededStored, Succeeded,
         RestoreInv, StoredOrRotating, RestoresSuccess, Idle
<1>2. RestoreInv => RestoreMissesOnlyRotated
  BY DEF RestoreInv, StoredOrRotating, RestoresSuccess, RestoreMissesOnlyRotated, Succeeded
<1> QED
  BY <1>1, <1>2, IInvStep, RestoreStep, TypeCorrect, PTL DEF Spec
=============================================================================
