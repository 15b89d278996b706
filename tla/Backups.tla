------------------------------- MODULE Backups -------------------------------
(***************************************************************************)
(* Automatic backups: backupScheduler.ts, backupsStore.ts and the routes   *)
(* of routes/backups.ts.                                                   *)
(*                                                                         *)
(* A definition names what to save, the S3 bucket that receives it, a cron *)
(* schedule and how many archives to keep.  A run saves one definition     *)
(* once: it is announced in an append-only log, archives the target,       *)
(* uploads the archive, logs its outcome, then rotates the old archives.   *)
(* Runs go on in the background, so the scheduler's cycle, the manual      *)
(* trigger, the retention of several runs, a restoration and the edition   *)
(* of the definitions interleave at every await.                           *)
(*                                                                         *)
(* A run is identified by its rank in order of startedAt, so that "newer"  *)
(* is ">".  The log keeps, as readAllBackupRuns does, the last line of     *)
(* each run only.  Time is counted in minutes, the resolution of cron.     *)
(***************************************************************************)
EXTENDS Naturals, FiniteSets

CONSTANTS
  Definitions,   \* identifiers of backup definitions; one is never reused
  Destinations,  \* S3 buckets
  Schedules,     \* cron expressions, each one the set of minutes it matches
  Retentions,    \* the values retentionCount may take
  Unreadable,    \* definitions whose S3 credentials no longer decrypt
  Targets,       \* what a definition may name, and a PATCH change: "volume", "database"
  UserActions,   \* what users ask for besides definitions: "run", "restore"
  MaxRuns,       \* bound: runs started
  MaxMinute,     \* bound: minutes that pass
  MaxPatches,    \* bound: PATCH requests
  MaxFaults,     \* bound: failures of the local disk (writes and reads) or of a S3 deletion
  MaxCrashes     \* bound: crashes of the API process

ASSUME BoundsAssumption ==
  /\ Definitions # {} /\ Destinations # {} /\ Schedules # {} /\ Retentions # {}
  /\ MaxRuns \in Nat
  /\ MaxMinute \in Nat
  /\ MaxPatches \in Nat
  /\ MaxFaults \in Nat
  /\ MaxCrashes \in Nat
  /\ UserActions \subseteq {"run", "restore"}
  /\ Targets \subseteq {"volume", "database"}

\* createBackupDefinition and updateBackupDefinition refuse a retention below 1.
ASSUME RetentionsAssumption == Retentions \subseteq Nat \ {0}

ASSUME SchedulesAssumption ==
  /\ \A s \in Schedules : s \subseteq Nat
  /\ Unreadable \subseteq Definitions

VARIABLES
  clock,     \* the current minute
  defs,      \* the stored definitions, [state, dest, schedule, keep, enabled]
  created,   \* how many runs were started
  run,       \* what a run carries from its start: [def, dest, keep, trigger, start]
  phase,     \* where the background work of a run stands
  todo,      \* runs that the retention of a run still has to rotate
  log,       \* backup-runs.jsonl: the last event logged for each run
  torn,      \* TRUE when the log ends in an unterminated line
  objects,   \* S3: pairs <<bucket, run>>
  late,      \* runs whose upload timed out and still goes on
  cycle,     \* the scheduler's cycle: [pc, now, todo, run]
  restore,   \* the restoration in progress: [pc, run, dest]
  patches,   \* PATCH requests so far
  faults,    \* events lost, reads of the log, deletions and mkdirs failed so far
  crashes    \* crashes so far

requestVars == <<defs, patches>>
runVars == <<created, run, phase, todo>>
storageVars == <<log, torn, objects, late>>
vars == <<clock, requestVars, runVars, storageVars, cycle, restore, faults, crashes>>

RunIds == 1 .. MaxRuns
NoRun == 0

AnyOf(S) == CHOOSE x \in S : TRUE  \* the value of a field nobody reads yet

Idle == [pc |-> "idle", run |-> NoRun, dest |-> AnyOf(Destinations)]
Unborn == [state |-> "unborn", dest |-> AnyOf(Destinations), schedule |-> AnyOf(Schedules),
           keep |-> AnyOf(Retentions), enabled |-> FALSE]
Unused == [def |-> AnyOf(Definitions), dest |-> AnyOf(Destinations), keep |-> AnyOf(Retentions),
           trigger |-> "manual", start |-> 0]
Phases == {"none", "starting", "inspecting", "archiving", "uploading", "committing", "listing",
           "rotating", "marking", "failing", "over"}
Events == {"absent", "running", "failed", "success", "rotated"}

Live(d) == defs[d].state = "live"

\* A run whose background work has begun and is not finished.
Active(r) == phase[r] \notin {"none", "over"}

\* A run whose outcome is not logged yet.
Pending(r) == phase[r] \in {"starting", "inspecting", "archiving", "uploading", "committing", "failing"}

-----------------------------------------------------------------------------
(* The log of runs.                                                        *)

\* readAllBackupRuns and listBackupRuns: what the log says of a definition.
LoggedRuns(d) == {r \in RunIds : log[r] # "absent" /\ run[r].def = d}

\* runs[0] of listBackupRuns: the run that started last.
IsLastRun(r, d) ==
  /\ r \in LoggedRuns(d)
  /\ \A q \in LoggedRuns(d) : q <= r

\* Mistaken variant: the list sorted from the oldest run to the newest.
RunsToRotateOldestFirst(d, keep) ==
  LET eligible == {r \in LoggedRuns(d) : log[r] = "success"}
  IN  {r \in eligible : Cardinality({q \in eligible : q < r}) >= keep}

\* computeRunsToRotate: the archives beyond the `keep` newest ones.
RunsToRotate(d, keep) ==
  LET eligible == {r \in LoggedRuns(d) : log[r] = "success"}
  IN  {r \in eligible : Cardinality({q \in eligible : q > r}) >= keep}

\* appendBackupRunEvent: the event reaches the log, or is swallowed by an
\* error of the disk, or is glued to the unterminated line a crash left.
AppendEvent(r, event) ==
  \/ /\ ~torn
     /\ log' = [log EXCEPT ![r] = event]
     /\ UNCHANGED <<torn, faults>>
  \/ /\ torn
     /\ torn' = FALSE
     /\ faults' = faults + 1
     /\ UNCHANGED log
  \/ /\ faults < MaxFaults
     /\ faults' = faults + 1
     /\ UNCHANGED <<log, torn>>

-----------------------------------------------------------------------------
(* The definitions: POST, PATCH and DELETE of /api/backups.                *)

CreateDefinition(d, b, s, k) ==
  /\ defs[d].state = "unborn"
  /\ defs' = [defs EXCEPT ![d] = [state |-> "live", dest |-> b, schedule |-> s,
                                  keep |-> k, enabled |-> TRUE]]
  /\ UNCHANGED <<clock, patches, runVars, storageVars, cycle, restore, faults, crashes>>

UpdateDefinition(d, b, s, k, on) ==
  /\ Live(d)
  /\ patches < MaxPatches
  /\ patches' = patches + 1
  /\ defs' = [defs EXCEPT ![d] = [state |-> "live", dest |-> b, schedule |-> s,
                                  keep |-> k, enabled |-> on]]
  /\ UNCHANGED <<clock, runVars, storageVars, cycle, restore, faults, crashes>>

\* The history and the archives of the definition stay.
DeleteDefinition(d) ==
  /\ Live(d)
  /\ patches < MaxPatches
  /\ patches' = patches + 1
  /\ defs' = [defs EXCEPT ![d].state = "deleted"]
  /\ UNCHANGED <<clock, runVars, storageVars, cycle, restore, faults, crashes>>

-----------------------------------------------------------------------------
(* A run, from runBackupNow to the end of performBackup.                   *)

\* runBackupNow up to its first disk access: the run takes a copy of the
\* definition and of the decrypted destination.
Launch(d, trigger) ==
  /\ Live(d)
  /\ d \notin Unreadable
  /\ created < MaxRuns
  /\ created' = created + 1
  /\ run' = [run EXCEPT ![created + 1] =
               [def |-> d, dest |-> defs[d].dest, keep |-> defs[d].keep,
                trigger |-> trigger, start |-> clock]]
  /\ phase' = [phase EXCEPT ![created + 1] = "starting"]
  /\ UNCHANGED todo

\* POST /api/backups/:id/run: nothing checks that a run is under way.
RunNow(d) ==
  /\ "run" \in UserActions
  /\ Launch(d, "manual")
  /\ UNCHANGED <<clock, requestVars, storageVars, cycle, restore, faults, crashes>>

\* The work of a run moves on and touches neither log nor storage.
Advance(r, from, to) ==
  /\ phase[r] = from
  /\ phase' = [phase EXCEPT ![r] = to]
  /\ UNCHANGED <<created, run>>

\* What performBackup waits for first: a database is dumped in its container,
\* which is inspected before (requireRunningContainer).
FirstWait(t) == IF t = "database" THEN "inspecting" ELSE "archiving"

\* Mistaken variant: the cycle goes on but still holds the run it waited for.
LogRunningHeld(r) ==
  /\ \E t \in Targets : Advance(r, "starting", FirstWait(t))
  /\ AppendEvent(r, "running")
  /\ cycle' = IF cycle.run = r THEN [cycle EXCEPT !.pc = "visit"] ELSE cycle
  /\ UNCHANGED <<clock, requestVars, todo, objects, late, restore, crashes>>

\* The "running" event; runBackupNow then returns, to the cycle if it called.
\* The target is the one of the definition at the launch: any, after patches.
LogRunning(r) ==
  /\ \E t \in Targets : Advance(r, "starting", FirstWait(t))
  /\ AppendEvent(r, "running")
  /\ cycle' = IF cycle.run = r THEN [cycle EXCEPT !.pc = "visit", !.run = NoRun] ELSE cycle
  /\ UNCHANGED <<clock, requestVars, todo, objects, late, restore, crashes>>

\* ensureTmpDir is outside performBackup's try: nothing more is logged.
TmpDirFails(r) ==
  /\ faults < MaxFaults
  /\ Advance(r, "inspecting", "over") \/ Advance(r, "archiving", "over")
  /\ faults' = faults + 1
  /\ UNCHANGED <<clock, requestVars, todo, storageVars, cycle, restore, crashes>>

\* Docker answers that the container runs.  This wait has no time limit.
Inspected(r) ==
  /\ Advance(r, "inspecting", "archiving")
  /\ UNCHANGED <<clock, requestVars, todo, storageVars, cycle, restore, faults, crashes>>

\* Docker unreachable, container gone or stopped, unknown engine.
InspectionFails(r) ==
  /\ Advance(r, "inspecting", "failing")
  /\ UNCHANGED <<clock, requestVars, todo, storageVars, cycle, restore, faults, crashes>>

ArchiveDone(r) ==
  /\ Advance(r, "archiving", "uploading")
  /\ UNCHANGED <<clock, requestVars, todo, storageVars, cycle, restore, faults, crashes>>

\* Docker unreachable, failed or timed out archive; or a refused upload.
WorkFails(r) ==
  /\ \/ Advance(r, "archiving", "failing")
     \/ Advance(r, "uploading", "failing")
  /\ UNCHANGED <<clock, requestVars, todo, storageVars, cycle, restore, faults, crashes>>

UploadDone(r) ==
  /\ Advance(r, "uploading", "committing")
  /\ objects' = objects \cup {<<run[r].dest, r>>}
  /\ UNCHANGED <<clock, requestVars, todo, log, torn, late, cycle, restore, faults, crashes>>

\* Mistaken variant: the end of the wait is taken for the end of the upload.
UploadTimesOutAsDone(r) ==
  /\ Advance(r, "uploading", "committing")
  /\ late' = late \cup {r}
  /\ UNCHANGED <<clock, requestVars, todo, log, torn, objects, cycle, restore, faults, crashes>>

\* withTimeout stops waiting for the upload, it does not stop the upload.
UploadTimesOut(r) ==
  /\ Advance(r, "uploading", "failing")
  /\ late' = late \cup {r}
  /\ UNCHANGED <<clock, requestVars, todo, log, torn, objects, cycle, restore, faults, crashes>>

LateUpload(r) ==
  /\ r \in late
  /\ late' = late \ {r}
  /\ objects' = objects \cup {<<run[r].dest, r>>}
  /\ UNCHANGED <<clock, requestVars, runVars, log, torn, cycle, restore, faults, crashes>>

\* Mistaken variant: the failure is only reported on the console.
LogFailedNowhere(r) ==
  /\ Advance(r, "failing", "over")
  /\ UNCHANGED <<clock, requestVars, todo, storageVars, cycle, restore, faults, crashes>>

LogFailed(r) ==
  /\ Advance(r, "failing", "over")
  /\ AppendEvent(r, "failed")
  /\ UNCHANGED <<clock, requestVars, todo, objects, late, cycle, restore, crashes>>

LogSuccess(r) ==
  /\ Advance(r, "committing", "listing")
  /\ AppendEvent(r, "success")
  /\ UNCHANGED <<clock, requestVars, todo, objects, late, cycle, restore, crashes>>

-----------------------------------------------------------------------------
(* applyRetention, at the end of a successful run.                         *)

\* One more run is dealt with; `rest` are those still to rotate.
Continue(r, rest) ==
  /\ todo' = [todo EXCEPT ![r] = rest]
  /\ phase' = [phase EXCEPT ![r] = IF rest = {} THEN "over" ELSE "rotating"]
  /\ UNCHANGED <<created, run>>

ListRuns(r) ==
  /\ phase[r] = "listing"
  /\ Continue(r, RunsToRotate(run[r].def, run[r].keep))
  /\ UNCHANGED <<clock, requestVars, storageVars, cycle, restore, faults, crashes>>

\* readAllBackupRuns takes any error for an empty log: nothing to rotate.
ListUnread(r) ==
  /\ faults < MaxFaults
  /\ phase[r] = "listing"
  /\ Continue(r, {})
  /\ faults' = faults + 1
  /\ UNCHANGED <<clock, requestVars, storageVars, cycle, restore, crashes>>

\* The list goes from the newest run to the oldest.
IsNext(v, r) == v \in todo[r] /\ \A w \in todo[r] : w <= v

\* The archive is looked for in the bucket the finishing run started with.
DeleteArchive(r) ==
  /\ Advance(r, "rotating", "marking")
  /\ \E v \in todo[r] :
       /\ IsNext(v, r)
       /\ objects' = objects \ {<<run[r].dest, v>>}
  /\ UNCHANGED <<clock, requestVars, todo, log, torn, late, cycle, restore, faults, crashes>>

\* A failed deletion is reported on the console and left for a later run.
DeleteFails(r) ==
  /\ faults < MaxFaults
  /\ phase[r] = "rotating"
  /\ \E v \in todo[r] : IsNext(v, r) /\ Continue(r, todo[r] \ {v})
  /\ faults' = faults + 1
  /\ UNCHANGED <<clock, requestVars, storageVars, cycle, restore, crashes>>

LogRotated(r) ==
  /\ phase[r] = "marking"
  /\ \E v \in todo[r] :
       /\ IsNext(v, r)
       /\ AppendEvent(v, "rotated")
       /\ Continue(r, todo[r] \ {v})
  /\ UNCHANGED <<clock, requestVars, objects, late, cycle, restore, crashes>>

-----------------------------------------------------------------------------
(* runBackupSchedulerCycle.                                                *)

\* A tick that finds a cycle in flight is ignored.  The definitions and the
\* time the cycle uses are those of its beginning; a cycle in which nothing is
\* due changes nothing and is left out.
CycleBegin ==
  /\ cycle.pc = "idle"
  /\ \E d \in Definitions : Live(d) /\ defs[d].enabled /\ clock \in defs[d].schedule
  /\ cycle' = [pc |-> "visit", now |-> clock, run |-> NoRun,
               todo |-> {<<d, defs[d].schedule>> : d \in {e \in Definitions : Live(e) /\ defs[e].enabled}}]
  /\ UNCHANGED <<clock, requestVars, runVars, storageVars, restore, faults, crashes>>

\* Mistaken variants: without the check of the minute, of the last run.
IsDueAgain(d, schedule, now) ==
  /\ now \in schedule
  /\ \A r \in LoggedRuns(d) : IsLastRun(r, d) => log[r] # "running"

IsDueAnyway(d, schedule, now) ==
  /\ now \in schedule
  /\ \A r \in LoggedRuns(d) : IsLastRun(r, d) => run[r].start # now

\* isBackupDue, after the check that the last run is not "running".
IsDue(d, schedule, now) ==
  /\ now \in schedule
  /\ \A r \in LoggedRuns(d) :
       IsLastRun(r, d) => log[r] # "running" /\ run[r].start # now

\* What the visit of p finds: what the log says, or, as an error of the read
\* is taken for an empty log, that nothing has ever run.
FoundDue(p) ==
  \/ IsDue(p[1], p[2], cycle.now) /\ UNCHANGED faults
  \/ cycle.now \in p[2] /\ faults < MaxFaults /\ faults' = faults + 1

\* One definition is visited: nothing to do.
CycleSkip ==
  /\ cycle.pc = "visit"
  /\ \E p \in cycle.todo :
       /\ ~IsDue(p[1], p[2], cycle.now)
       /\ cycle' = [cycle EXCEPT !.todo = @ \ {p}]
  /\ UNCHANGED <<clock, requestVars, runVars, storageVars, restore, faults, crashes>>

\* One definition is visited: it is due, its run is launched and the cycle
\* waits for the "running" event to be logged.
CycleLaunch ==
  /\ cycle.pc = "visit"
  /\ \E p \in cycle.todo :
       /\ FoundDue(p)
       /\ Launch(p[1], "scheduled")
       /\ cycle' = [cycle EXCEPT !.pc = "launch", !.run = created + 1, !.todo = @ \ {p}]
  /\ UNCHANGED <<clock, requestVars, storageVars, restore, crashes>>

\* runBackupNow throws (definition deleted since the beginning of the cycle,
\* credentials that do not decrypt): the rest of the cycle is abandoned.
CycleAbort ==
  /\ cycle.pc = "visit"
  /\ \E p \in cycle.todo :
       /\ FoundDue(p)
       /\ ~Live(p[1]) \/ p[1] \in Unreadable
  /\ cycle' = [cycle EXCEPT !.pc = "idle", !.todo = {}]
  /\ UNCHANGED <<clock, requestVars, runVars, storageVars, restore, crashes>>

CycleEnd ==
  /\ cycle.pc = "visit"
  /\ cycle.todo = {}
  /\ cycle' = [cycle EXCEPT !.pc = "idle"]
  /\ UNCHANGED <<clock, requestVars, runVars, storageVars, restore, faults, crashes>>

-----------------------------------------------------------------------------
(* restoreBackup.                                                          *)

\* The run is checked against the log, the bucket is the definition's own.
RestoreBegin(r) ==
  /\ "restore" \in UserActions
  /\ restore.pc = "idle"
  /\ log[r] = "success"
  /\ Live(run[r].def)
  /\ run[r].def \notin Unreadable
  /\ restore' = [pc |-> "download", run |-> r, dest |-> defs[run[r].def].dest]
  /\ UNCHANGED <<clock, requestVars, runVars, storageVars, cycle, faults, crashes>>

\* Downloaded and applied, or refused by S3, by Docker or by the timeout.
RestoreEnd ==
  /\ restore.pc = "download"
  /\ restore' = Idle
  /\ UNCHANGED <<clock, requestVars, runVars, storageVars, cycle, faults, crashes>>

-----------------------------------------------------------------------------
(* Time, and the death of the process.                                     *)

MinutePasses ==
  /\ clock < MaxMinute
  /\ clock' = clock + 1
  /\ UNCHANGED <<requestVars, runVars, storageVars, cycle, restore, faults, crashes>>

\* Everything in memory is gone; the line being appended may be cut short.
Crash ==
  /\ crashes < MaxCrashes
  /\ crashes' = crashes + 1
  /\ phase' = [r \in RunIds |-> IF phase[r] = "none" THEN "none" ELSE "over"]
  /\ todo' = [r \in RunIds |-> {}]
  /\ late' = {}
  /\ cycle' = [cycle EXCEPT !.pc = "idle", !.todo = {}, !.run = NoRun]
  /\ restore' = Idle
  /\ torn' \in {torn, torn \/ \E r \in RunIds :
                                phase[r] \in {"starting", "committing", "failing", "marking"}}
  /\ UNCHANGED <<clock, requestVars, created, run, log, objects, faults>>

-----------------------------------------------------------------------------

Init ==
  /\ clock = 0
  /\ defs = [d \in Definitions |-> Unborn]
  /\ created = 0
  /\ run = [r \in RunIds |-> Unused]
  /\ phase = [r \in RunIds |-> "none"]
  /\ todo = [r \in RunIds |-> {}]
  /\ log = [r \in RunIds |-> "absent"]
  /\ torn = FALSE
  /\ objects = {}
  /\ late = {}
  /\ cycle = [pc |-> "idle", now |-> 0, todo |-> {}, run |-> NoRun]
  /\ restore = Idle
  /\ patches = 0
  /\ faults = 0
  /\ crashes = 0

Request ==
  \E d \in Definitions :
    \/ \E b \in Destinations, s \in Schedules, k \in Retentions :
         \/ CreateDefinition(d, b, s, k)
         \/ \E on \in BOOLEAN : UpdateDefinition(d, b, s, k, on)
    \/ DeleteDefinition(d)
    \/ RunNow(d)

\* The steps of a run that withTimeout brings to an end, and its writes and
\* reads of the local disk.
Work(r) ==
  \/ LogRunning(r) \/ ArchiveDone(r) \/ WorkFails(r) \/ UploadDone(r) \/ UploadTimesOut(r)
  \/ LogFailed(r) \/ LogSuccess(r) \/ ListRuns(r) \/ LogRotated(r)

\* The answers that nothing bounds, of Docker to inspect and of S3 to a
\* deletion, and the faults.
Unbounded(r) ==
  \/ Inspected(r) \/ InspectionFails(r) \/ DeleteArchive(r) \/ LateUpload(r)
  \/ TmpDirFails(r) \/ ListUnread(r) \/ DeleteFails(r)

Perform == \E r \in RunIds : Work(r) \/ Unbounded(r)

Cycle == CycleBegin \/ CycleSkip \/ CycleLaunch \/ CycleAbort \/ CycleEnd

Restore == RestoreEnd \/ \E r \in RunIds : RestoreBegin(r)

Next == Request \/ Perform \/ Cycle \/ Restore \/ MinutePasses \/ Crash

Spec == Init /\ [][Next]_vars

\* The archive, the dump and the upload are each awaited for runTimeoutMs at
\* most (utils/async.ts), and a call to the local disk answers.  Nothing bounds
\* the inspection of a database's container (backupScheduler.ts:480, 313) nor a
\* deletion in S3 (446), so that nothing here says they answer.
FairSpec == Spec /\ \A r \in RunIds : WF_vars(Work(r))
-----------------------------------------------------------------------------
(* Properties.                                                             *)

RequestsTyped ==
  /\ clock \in Nat
  /\ defs \in [Definitions -> [state : {"unborn", "live", "deleted"}, dest : Destinations,
                               schedule : Schedules, keep : Retentions, enabled : BOOLEAN]]
  /\ patches \in Nat

RunsTyped ==
  /\ created \in 0 .. MaxRuns
  /\ run \in [RunIds -> [def : Definitions, dest : Destinations, keep : Retentions,
                         trigger : {"manual", "scheduled"}, start : Nat]]
  /\ phase \in [RunIds -> Phases]
  /\ todo \in [RunIds -> SUBSET RunIds]
  /\ \A r \in RunIds : phase[r] = "none" <=> r > created

StorageTyped ==
  /\ log \in [RunIds -> Events]
  /\ torn \in BOOLEAN
  /\ objects \subseteq Destinations \X RunIds
  /\ late \subseteq RunIds
  /\ faults \in Nat

CycleTyped ==
  /\ cycle \in [pc : {"idle", "visit", "launch"}, now : Nat, run : RunIds \cup {NoRun},
                todo : SUBSET (Definitions \X Schedules)]
  /\ cycle.pc = "launch" <=> cycle.run # NoRun

RestoreTyped ==
  /\ restore \in [pc : {"idle", "download"}, run : RunIds \cup {NoRun}, dest : Destinations]
  /\ crashes \in Nat

\* Every variable has its type; the runs in existence are the first `created`
\* ones, and the cycle holds a run exactly while it waits for its launch.
TypeOK == RequestsTyped /\ RunsTyped /\ StorageTyped /\ CycleTyped /\ RestoreTyped

\* Runs of the definition of r that the log says succeeded, after r.
NewerArchives(r) ==
  {q \in RunIds : q > r /\ run[q].def = run[r].def /\ log[q] \in {"success", "rotated"}}

\* Retention keeps the archives it promises to keep: a successful run with
\* fewer newer successes than any retentionCount in use is never rotated and
\* its archive is in the bucket it was uploaded to, whatever runs finish at
\* the same time, whatever is patched, lost or killed (applyRetention works
\* on a list read before its awaits).
NewestArchivesKept ==
  \A r \in RunIds :
    /\ log[r] \in {"success", "rotated"}
    /\ \A k \in Retentions : Cardinality(NewerArchives(r)) < k
    => log[r] = "success" /\ <<run[r].dest, r>> \in objects

\* The rotation of v by the finishing run r stands between the deletion of
\* the archive and the event that says so.
BeingRotated(v) == \E r \in RunIds : phase[r] = "marking" /\ IsNext(v, r)

\* A restoration that was accepted finds its archive unless the rotation of
\* that very run overtook it (restoreBackup checks before it downloads), or
\* the bucket of the definition changed since that run.
RestoreMissesOnlyRotated ==
  faults = 0 /\ crashes = 0 /\ restore.pc = "download" =>
    \/ <<restore.dest, restore.run>> \in objects
    \/ log[restore.run] = "rotated"
    \/ restore.dest # run[restore.run].dest
    \/ BeingRotated(restore.run)

\* isBackupDue: the scheduler starts a definition at most once per minute,
\* late cycles, manual runs and restarts included; the one exception is a
\* run that died before it was announced.
OncePerMinute ==
  faults = 0 =>
    \A q, r \in 1 .. created :
      /\ q < r
      /\ run[q].def = run[r].def /\ run[q].start = run[r].start
      /\ run[q].trigger = "scheduled" /\ run[r].trigger = "scheduled"
      => log[q] = "absent"

\* backupScheduler.ts:604-606 and 625: the scheduler does not launch a
\* definition beside its own previous run.  It looks at the run that started
\* last only, so there is one exception: a manual run started in between.
ScheduledOverlapBehindManual ==
  faults = 0 =>
    \A q, r \in RunIds :
      /\ q < r
      /\ run[q].def = run[r].def
      /\ run[q].trigger = "scheduled" /\ run[r].trigger = "scheduled"
      /\ Pending(q) /\ Pending(r)
      => \E m \in RunIds :
           q < m /\ m < r /\ run[m].def = run[q].def /\ run[m].trigger = "manual"

\* backupsStore.ts:17: a run goes from "running" to "success" or "failed",
\* unless the process dies or the disk refuses the line.  This holds from the
\* point where its waits are bounded: a run whose database container Docker
\* never finishes to inspect stays "running" (see RunEndsEvenIfDockerFreezes).
RunEnds ==
  \A r \in RunIds :
    log[r] = "running" /\ phase[r] # "inspecting"
      ~> log[r] # "running" \/ crashes > 0 \/ faults > 0

\* backupScheduler.ts:459-460: "withTimeout abandonne l'attente [...] et marque
\* le run failed"; no wait is excepted.  It is violated: the inspection that
\* precedes a dump (480) is not under withTimeout, and a Docker daemon that
\* answers the ping and then nothing leaves the run "running", so that the
\* scheduler (624) does not launch the definition again.
RunEndsEvenIfDockerFreezes ==
  \A r \in RunIds :
    log[r] = "running" ~> log[r] # "running" \/ crashes > 0 \/ faults > 0

\* backupScheduler.ts:533-534: performBackup "capture déjà ses propres erreurs":
\* a run that is over has its outcome in the log, unless the process died.  It
\* is violated: ensureTmpDir (467) is awaited before the try.
EndsAreLogged ==
  crashes = 0 => \A r \in RunIds : phase[r] = "over" => log[r] # "running"
=============================================================================
