-------------------------------- MODULE Scans --------------------------------
(***************************************************************************)
(* Vulnerability scans: scan.ts, scanScheduler.ts and routes/scan.ts.      *)
(*                                                                         *)
(* A scan is announced in a log, its scanner process is started, and what  *)
(* the process finds is appended to the log when it ends; the last line of *)
(* a scan is its status.  Users start scans at will.  The scheduler starts *)
(* those of the deployed images that are due, a few at a time, and follows *)
(* each in the log until it ends or ten minutes have passed.               *)
(*                                                                         *)
(* Scans are numbered in the order they start.  The variables below the    *)
(* line in VARIABLES only record history.                                  *)
(***************************************************************************)
EXTENDS Naturals, FiniteSets

CONSTANTS
  Images,      \* images, deployed or not
  Scanners,    \* "grype" and "osv-scanner" in the code
  Limit,       \* MAX_CONCURRENT_SCANS
  MaxScans,    \* bound: scans ever started
  MaxManual,   \* bound: those started by users
  MaxChanges,  \* bound: deployments and removals
  MaxFailures  \* bound: appends and reads of the log and calls to Docker that
               \* fail, and crashes of the API process

ASSUME BoundsAssumption ==
  /\ Limit \in Nat \ {0}
  /\ MaxScans \in Nat /\ MaxManual \in Nat /\ MaxChanges \in Nat
  /\ MaxFailures \in Nat

VARIABLES
  deployed,   \* images of the running containers
  logged,     \* scan -> its last status in the log
  phase,      \* scan -> where its execution stands
  target,     \* scan -> its image and scanner
  automatic,  \* scans started by the scheduler
  fresh,      \* scans started less than STALE_AFTER_MS ago
  cycle,      \* the scheduler: "idle", or what its cycle does (cycleInFlight)
  images,     \* images the cycle found deployed
  due,        \* pairs the cycle has still to scan
  awaited,    \* scans the cycle follows, one per worker of the pool
  notified,   \* scans whose critical vulnerabilities were notified
  \* ------------------------------------------------------------------------
  read,       \* scans the cycle found in the log when it decided what is due
  saw,        \* automatic scan -> what its cycle had found in the log
  givenUp,    \* scans the cycle stopped to follow before it knew their end
  unheard,    \* scans whose notification was refused by the disk
  used, manual, changes, faults, crashes

scanVars == <<logged, phase, target, automatic, fresh, saw, used>>
cycleVars == <<cycle, images, due, awaited, read>>
outputVars == <<notified, givenUp, unheard>>
boundVars == <<manual, changes, faults, crashes>>
vars == <<deployed, scanVars, cycleVars, outputVars, boundVars>>

Ids == 1 .. MaxScans
Pairs == Images \X Scanners
Successes == {"clean", "critical"}
Outcomes == Successes \cup {"failed"}
NoPair == <<>>

\* The scanner process is at work, or about to be.
Started(s) == phase[s] = "appending"
Live(s) == phase[s] = "scanning"

\* An append, a read of the log or a call to Docker fails.
Fault ==
  /\ faults + crashes < MaxFailures
  /\ faults' = faults + 1

-----------------------------------------------------------------------------
(* A scan: startScan.                                                      *)

\* The next scan; its first append starts.
Begin(p) ==
  /\ used < MaxScans
  /\ used' = used + 1
  /\ phase' = [phase EXCEPT ![used + 1] = "appending"]
  /\ target' = [target EXCEPT ![used + 1] = p]
  /\ fresh' = fresh \cup {used + 1}
  /\ UNCHANGED logged

\* POST /api/images/:id/scan looks at no other scan.
StartManual(p) ==
  /\ manual < MaxManual
  /\ manual' = manual + 1
  /\ Begin(p)
  /\ UNCHANGED <<deployed, automatic, saw, cycleVars, outputVars, changes, faults, crashes>>

\* The scan is in the log, and its process starts.
Launch(s) ==
  /\ Started(s)
  /\ phase' = [phase EXCEPT ![s] = "scanning"]
  /\ logged' = [logged EXCEPT ![s] = "running"]
  /\ UNCHANGED <<deployed, target, automatic, fresh, saw, used, cycleVars, outputVars, boundVars>>

\* The append fails, which only leaves a warning: the process starts unlogged.
LaunchUnlogged(s) ==
  /\ Started(s)
  /\ Fault
  /\ phase' = [phase EXCEPT ![s] = "scanning"]
  /\ UNCHANGED <<deployed, logged, target, automatic, fresh, saw, used, cycleVars, outputVars,
                 manual, changes, crashes>>

\* The process ends, by itself or killed by its timeout; the append of the
\* outcome starts, and nobody waits for it.
Exit(s, outcome) ==
  /\ Live(s)
  /\ phase' = [phase EXCEPT ![s] = outcome]
  /\ UNCHANGED <<deployed, logged, target, automatic, fresh, saw, used, cycleVars, outputVars, boundVars>>

\* Mistaken variant: the scan still counts as ended and not recorded.
RecordAgain(s) ==
  /\ phase[s] \in Outcomes
  /\ logged' = [logged EXCEPT ![s] = phase[s]]
  /\ UNCHANGED <<deployed, phase, target, automatic, fresh, saw, used, cycleVars, outputVars, boundVars>>

\* The last line of the scan is in the log.
Record(s) ==
  /\ phase[s] \in Outcomes
  /\ phase' = [phase EXCEPT ![s] = "done"]
  /\ logged' = [logged EXCEPT ![s] = phase[s]]
  /\ UNCHANGED <<deployed, target, automatic, fresh, saw, used, cycleVars, outputVars, boundVars>>

\* This append fails too: the log says "running" for ever.
RecordFails(s) ==
  /\ phase[s] \in Outcomes
  /\ Fault
  /\ phase' = [phase EXCEPT ![s] = "done"]
  /\ UNCHANGED <<deployed, logged, target, automatic, fresh, saw, used, cycleVars, outputVars,
                 manual, changes, crashes>>

-----------------------------------------------------------------------------
(* A cycle: runScanSchedulerCycle.                                         *)

\* Mistaken variant: a running scan is not looked for.
IsDueThoughRunning(p) ==
  ~ \E s \in Ids : target[s] = p /\ logged[s] \in Successes /\ s \in fresh

\* isScanDue: no scan of the pair runs, and its last success, if any, is stale.
IsDue(p) ==
  /\ ~ \E s \in Ids : target[s] = p /\ logged[s] = "running"
  /\ ~ \E s \in Ids : target[s] = p /\ logged[s] \in Successes /\ s \in fresh

CycleStarts ==
  /\ cycle = "idle"
  /\ cycle' = "listing"
  /\ UNCHANGED <<deployed, scanVars, images, due, awaited, read, outputVars, boundVars>>

\* listDeployedImages; with no image deployed the cycle ends.
ListImages ==
  /\ cycle = "listing"
  /\ cycle' = IF deployed = {} THEN "idle" ELSE "reading"
  /\ images' = deployed
  /\ UNCHANGED <<deployed, scanVars, due, awaited, read, outputVars, boundVars>>

\* Docker does not answer, which ends the cycle too.
ListFails ==
  /\ cycle = "listing"
  /\ Fault
  /\ cycle' = "idle"
  /\ UNCHANGED <<deployed, scanVars, images, due, awaited, read, outputVars, manual, changes, crashes>>

\* What is due is decided once, for the whole cycle.
ReadLog ==
  /\ cycle = "reading"
  /\ due' = {p \in images \X Scanners : IsDue(p)}
  /\ read' = {s \in Ids : logged[s] # "none"}
  /\ cycle' = IF due' = {} THEN "idle" ELSE "scanning"
  /\ images' = {}
  /\ UNCHANGED <<deployed, scanVars, awaited, outputVars, boundVars>>

\* A log that cannot be read is an empty log: everything is due.
ReadFails ==
  /\ cycle = "reading"
  /\ Fault
  /\ due' = images \X Scanners
  /\ read' = {}
  /\ cycle' = IF due' = {} THEN "idle" ELSE "scanning"
  /\ images' = {}
  /\ UNCHANGED <<deployed, scanVars, awaited, outputVars, manual, changes, crashes>>

\* Mistaken variant: the workers of the pool are not counted.
TakeUnbounded(p) ==
  /\ cycle = "scanning"
  /\ p \in due
  /\ due' = due \ {p}
  /\ Begin(p)
  /\ automatic' = automatic \cup {used + 1}
  /\ saw' = [saw EXCEPT ![used + 1] = read]
  /\ awaited' = awaited \cup {used + 1}
  /\ UNCHANGED <<deployed, cycle, images, read, outputVars, boundVars>>

\* A free worker of runWithConcurrencyLimit takes a pair and starts its scan.
Take(p) ==
  /\ cycle = "scanning"
  /\ p \in due
  /\ Cardinality(awaited) < Limit
  /\ due' = due \ {p}
  /\ Begin(p)
  /\ automatic' = automatic \cup {used + 1}
  /\ saw' = [saw EXCEPT ![used + 1] = read]
  /\ awaited' = awaited \cup {used + 1}
  /\ UNCHANGED <<deployed, cycle, images, read, outputVars, boundVars>>

\* startScan has returned.
Launched(s) == phase[s] \notin {"unused", "appending"}

\* Mistaken variant: the scan is looked at once, as it starts.
PollOnce(s) ==
  /\ s \in awaited
  /\ Launched(s)
  /\ awaited' = awaited \ {s}
  /\ notified' = IF logged[s] = "critical" THEN notified \cup {s} ELSE notified
  /\ UNCHANGED <<deployed, scanVars, cycle, images, due, read, givenUp, unheard, boundVars>>

\* waitForScanCompletion: the log no longer says "running", or never did, in
\* which case the scan goes on unattended.
Poll(s) ==
  /\ s \in awaited
  /\ Launched(s)
  /\ logged[s] # "running"
  /\ awaited' = awaited \ {s}
  /\ notified' = IF logged[s] = "critical" THEN notified \cup {s} ELSE notified
  /\ givenUp' = IF logged[s] = "none" THEN givenUp \cup {s} ELSE givenUp
  /\ UNCHANGED <<deployed, scanVars, cycle, images, due, read, unheard, boundVars>>

\* recordNotificationEvent swallows a failed append: nothing is notified.
NotifyFails(s) ==
  /\ s \in awaited
  /\ logged[s] = "critical"
  /\ Fault
  /\ awaited' = awaited \ {s}
  /\ unheard' = unheard \cup {s}
  /\ UNCHANGED <<deployed, scanVars, cycle, images, due, read, notified, givenUp,
                 manual, changes, crashes>>

\* Mistaken variant: the wait has no deadline.
GiveUpNever(s) == s \in awaited /\ FALSE

\* MAX_WAIT_MS have passed, or the log could not be read and the scan is taken
\* for one that was never logged.
GiveUp(s) ==
  /\ s \in awaited
  /\ Launched(s)
  /\ \/ logged[s] = "running" /\ UNCHANGED faults
     \/ Fault
  /\ awaited' = awaited \ {s}
  /\ givenUp' = givenUp \cup {s}
  /\ UNCHANGED <<deployed, scanVars, cycle, images, due, read, notified, unheard,
                 manual, changes, crashes>>

CycleEnds ==
  /\ cycle = "scanning"
  /\ due = {} /\ awaited = {}
  /\ cycle' = "idle"
  /\ read' = {}
  /\ UNCHANGED <<deployed, scanVars, images, due, awaited, outputVars, boundVars>>

-----------------------------------------------------------------------------
(* The world, and the death of the process.                                *)

DeploymentChanges(i) ==
  /\ changes < MaxChanges
  /\ changes' = changes + 1
  /\ deployed' = IF i \in deployed THEN deployed \ {i} ELSE deployed \cup {i}
  /\ UNCHANGED <<scanVars, cycleVars, outputVars, manual, faults, crashes>>

\* A day after its start, a scan is stale; its process has long ended.
Age(s) ==
  /\ s \in fresh
  /\ phase[s] = "done"
  /\ \A r \in fresh : s <= r
  /\ fresh' = fresh \ {s}
  /\ UNCHANGED <<deployed, logged, phase, target, automatic, saw, used, cycleVars, outputVars, boundVars>>

\* The scanner processes go with the API; an append under way may have reached
\* the log.
Crash ==
  /\ faults + crashes < MaxFailures
  /\ crashes' = crashes + 1
  /\ \E written \in SUBSET {s \in Ids : phase[s] \in {"appending"} \cup Outcomes} :
       logged' = [s \in Ids |-> IF s \notin written THEN logged[s]
                                ELSE IF Started(s) THEN "running" ELSE phase[s]]
  /\ phase' = [s \in Ids |-> IF phase[s] = "unused" THEN "unused" ELSE "done"]
  /\ cycle' = "idle"
  /\ images' = {} /\ due' = {} /\ awaited' = {} /\ read' = {}
  /\ UNCHANGED <<deployed, target, automatic, fresh, saw, used, outputVars, manual, changes, faults>>

-----------------------------------------------------------------------------

Init ==
  /\ deployed \in SUBSET Images
  /\ logged = [s \in Ids |-> "none"]
  /\ phase = [s \in Ids |-> "unused"]
  /\ target = [s \in Ids |-> NoPair]
  /\ automatic = {} /\ fresh = {}
  /\ cycle = "idle"
  /\ images = {} /\ due = {} /\ awaited = {} /\ read = {}
  /\ notified = {} /\ givenUp = {} /\ unheard = {}
  /\ saw = [s \in Ids |-> {}]
  /\ used = 0 /\ manual = 0 /\ changes = 0 /\ faults = 0 /\ crashes = 0

Scan(s) ==
  \/ Launch(s) \/ LaunchUnlogged(s)
  \/ \E outcome \in Outcomes : Exit(s, outcome)
  \/ Record(s) \/ RecordFails(s) \/ Age(s)

Scheduler ==
  \/ CycleStarts \/ ListImages \/ ListFails \/ ReadLog \/ ReadFails \/ CycleEnds
  \/ \E p \in Pairs : Take(p)
  \/ \E s \in Ids : Poll(s) \/ NotifyFails(s) \/ GiveUp(s)

Next ==
  \/ Scheduler
  \/ \E s \in Ids : Scan(s)
  \/ \E p \in Pairs : StartManual(p)
  \/ \E i \in Images : DeploymentChanges(i)
  \/ Crash

Spec == Init /\ [][Next]_vars

\* The timer keeps starting cycles, Docker and the disk answer, a scanner ends
\* or is killed by its timeout, and the wait for it has a deadline.
FairSpec ==
  /\ Spec
  /\ WF_vars(CycleStarts) /\ WF_vars(ListImages) /\ WF_vars(ReadLog) /\ WF_vars(CycleEnds)
  /\ WF_vars(\E p \in Pairs : Take(p))
  /\ \A s \in Ids :
       /\ WF_vars(Launch(s)) /\ WF_vars(\E outcome \in Outcomes : Exit(s, outcome))
       /\ WF_vars(Record(s)) /\ WF_vars(Poll(s) \/ GiveUp(s))

-----------------------------------------------------------------------------
(* Properties.                                                             *)

ScansTyped ==
  /\ logged \in [Ids -> {"none", "running"} \cup Outcomes]
  /\ phase \in [Ids -> {"unused", "appending", "scanning", "done"} \cup Outcomes]
  /\ target \in [Ids -> Pairs \cup {NoPair}]
  /\ automatic \subseteq 1 .. used /\ fresh \subseteq Ids
  /\ saw \in [Ids -> SUBSET Ids]
  /\ used \in 0 .. MaxScans

CycleTyped ==
  /\ cycle \in {"idle", "listing", "reading", "scanning"}
  /\ images \subseteq Images /\ due \subseteq Pairs
  /\ awaited \subseteq automatic /\ read \subseteq Ids

RestTyped ==
  /\ deployed \subseteq Images
  /\ notified \subseteq automatic /\ givenUp \subseteq automatic /\ unheard \subseteq automatic
  /\ manual \in 0 .. MaxManual /\ changes \in 0 .. MaxChanges
  /\ faults \in Nat /\ crashes \in Nat /\ faults + crashes <= MaxFailures

\* What the log may say of a scan, from where its execution stands.
LogFollows ==
  \A s \in Ids :
    /\ phase[s] = "unused" <=> s > used
    /\ phase[s] \in {"unused", "appending"} => logged[s] = "none"
    /\ phase[s] \in {"scanning"} \cup Outcomes => logged[s] \in {"none", "running"}

\* The type invariant, with what the log may say of a scan in progress.
TypeOK == ScansTyped /\ CycleTyped /\ RestTyped /\ LogFollows

\* scanScheduler.ts:36-38: a scan of the scheduler never runs beside another
\* of the same image and scanner, except one that was not in the log when the
\* cycle decided what is due: started since, by a user, or never logged.
OverlapUnseen ==
  \A r, s \in Ids :
    s \in automatic /\ r # s /\ target[r] = target[s] /\ r \in saw[s] => ~Live(r)

\* scanScheduler.ts:29-34: no more than Limit scans of the scheduler are in
\* progress together, those it gave up excepted.
PoolBounded ==
  Cardinality({s \in automatic : (Started(s) \/ Live(s)) /\ s \notin givenUp}) <= Limit

\* isScanDue and the guard of the cycles: what is due ends up scanned, or no
\* longer due, whatever failures and restarts happen meanwhile.
DueGetsScanned ==
  \A p \in Pairs :
    IsDue(p) /\ p[1] \in deployed
      ~> \/ \E s \in Ids : target[s] = p /\ (Started(s) \/ Live(s))
         \/ ~IsDue(p) \/ p[1] \notin deployed \/ used = MaxScans

\* scanScheduler.ts:40-45: critical vulnerabilities found by a scan of the
\* scheduler are notified, unless it gave up the scan or died, or the disk
\* refused the notification.
CriticalNotified ==
  \A s \in Ids :
    s \in automatic /\ logged[s] = "critical"
      ~> s \in notified \cup givenUp \cup unheard \/ crashes > 0

-----------------------------------------------------------------------------
(* What scanScheduler.ts says of itself and the code does not keep.        *)

\* scanScheduler.ts:21, that a restart loses nothing of use: what the log
\* says is running is running, or about to write its end.  It is not after a
\* restart, or the append of an end that failed; such a pair is never due again.
RunningRuns ==
  \A s \in Ids : logged[s] = "running" => phase[s] \in {"scanning"} \cup Outcomes

\* scanScheduler.ts:36-38, never two scans at once of one image and scanner:
\* the scheduler never starts one beside another that runs.
NeverTwoScans ==
  \A r, s \in Ids : s \in automatic /\ r < s /\ target[r] = target[s] => ~(Live(r) /\ Live(s))

\* scanScheduler.ts:29, no more than MAX_CONCURRENT_SCANS scans in parallel.
NeverMoreThanLimit == Cardinality({s \in automatic : Live(s)}) <= Limit
=============================================================================
