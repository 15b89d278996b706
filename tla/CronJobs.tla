------------------------------ MODULE CronJobs ------------------------------
(***************************************************************************)
(* Cron jobs: cronJobsScheduler.ts, cronJobsStore.ts, routes/cronJobs.ts.  *)
(*                                                                         *)
(* A job is a shell command executed in an existing container by           *)
(* `docker exec`, each minute its schedule matches or when a user asks.    *)
(* Two memories keep a job from running twice: executingJobIds, the jobs   *)
(* that hold a run, and lastFiredMinuteKey, the last minute treated for    *)
(* each job.  Both die with the process; the history on disk and the       *)
(* commands already started in the containers do not.                      *)
(*                                                                         *)
(* A tick treats all the jobs without any await, so it is one action; the  *)
(* run of a job goes on in the background, one action per await.           *)
(***************************************************************************)
EXTENDS Naturals

CONSTANTS
  Jobs,        \* identifiers of jobs; one is never reused
  Schedules,   \* cron expressions, each one the set of minutes it matches
  MaxRuns,     \* bound: runs of one job
  MaxMinute,   \* bound: minutes that pass
  MaxPatches,  \* bound: PATCH and DELETE requests
  MaxFaults,   \* bound: lines the history loses
  MaxCrashes   \* bound: crashes of the API process

ASSUME JobsAssumption ==
  /\ Jobs # {} /\ Schedules # {}
  /\ \A s \in Schedules : s \subseteq Nat

ASSUME CountsAssumption ==
  MaxRuns \in Nat /\ MaxMinute \in Nat /\ MaxPatches \in Nat /\ MaxFaults \in Nat /\ MaxCrashes \in Nat

VARIABLES
  clock,       \* the current minute
  jobs,        \* the stored definitions, [state, schedule, enabled]
  patches,     \* PATCH and DELETE requests so far
  executing,   \* executingJobIds
  treated,     \* lastFiredMinuteKey: a minute, or Never
  started,     \* how many runs of each job were started
  run,         \* what is known of a run at its start: [trigger, minute, life]
  phase,       \* where the background work of a run stands
  outcome,     \* how the work of a run ended
  commands,    \* runs whose command is alive in its container
  announcing,  \* runs whose "running" event is still on its way to the disk
  history,     \* cron-jobs-history.jsonl: the last event of each run
  skipped,     \* history: triples <<job, minute, life>> skipped for an overlap
  faults,      \* events lost so far
  life         \* how many times the process was restarted

requestVars == <<clock, jobs, patches>>
guardVars == <<executing, treated>>
runVars == <<started, run, phase, outcome>>
outsideVars == <<commands, announcing, history, faults>>
vars == <<requestVars, guardVars, runVars, outsideVars, skipped, life>>

Ranks == 1 .. MaxRuns
Runs == Jobs \X Ranks
Never == MaxMinute + 1

AnyOf(S) == CHOOSE x \in S : TRUE  \* the value of a field nobody reads yet

Live(j) == jobs[j].state = "live"

\* How a run may end while its command lives: the timer fired, the exit code
\* could not be read, the answer to exec.start was lost.
GivenUp == {"timeout", "unknown", "lost"}

\* A run that still holds its job in executingJobIds.
Active(r) == phase[r] \notin {"none", "over"}

-----------------------------------------------------------------------------
(* The definitions: POST, PATCH and DELETE of /api/cron-jobs.              *)

CreateJob(j, s) ==
  /\ jobs[j].state = "unborn"
  /\ jobs' = [jobs EXCEPT ![j] = [state |-> "live", schedule |-> s, enabled |-> TRUE]]
  /\ UNCHANGED <<clock, patches, guardVars, runVars, outsideVars, skipped, life>>

UpdateJob(j, s, on) ==
  /\ Live(j)
  /\ patches < MaxPatches
  /\ patches' = patches + 1
  /\ jobs' = [jobs EXCEPT ![j] = [state |-> "live", schedule |-> s, enabled |-> on]]
  /\ UNCHANGED <<clock, guardVars, runVars, outsideVars, skipped, life>>

\* A run of the job that is under way goes on, its history stays.
DeleteJob(j) ==
  /\ Live(j)
  /\ patches < MaxPatches
  /\ patches' = patches + 1
  /\ jobs' = [jobs EXCEPT ![j].state = "deleted"]
  /\ UNCHANGED <<clock, guardVars, runVars, outsideVars, skipped, life>>

-----------------------------------------------------------------------------
(* The two ways a run starts.                                              *)

\* Mistaken variant: the run is not counted, the next one takes its rank.
StartUncounted(J, trigger) ==
  LET new == {<<j, started[j] + 1>> : j \in J}
  IN  /\ \A j \in J : started[j] < MaxRuns
      /\ executing' = executing \cup J
      /\ run' = [r \in Runs |-> IF r \in new
                                THEN [trigger |-> trigger, minute |-> clock, life |-> life]
                                ELSE run[r]]
      /\ phase' = [r \in Runs |-> IF r \in new THEN "connecting" ELSE phase[r]]
      /\ announcing' = announcing \cup new
      /\ UNCHANGED <<started, outcome>>

\* startCronJobRun for the jobs of J, up to its first suspension.
Start(J, trigger) ==
  LET new == {<<j, started[j] + 1>> : j \in J}
  IN  /\ \A j \in J : started[j] < MaxRuns
      /\ executing' = executing \cup J
      /\ started' = [j \in Jobs |-> IF j \in J THEN started[j] + 1 ELSE started[j]]
      /\ run' = [r \in Runs |-> IF r \in new
                                THEN [trigger |-> trigger, minute |-> clock, life |-> life]
                                ELSE run[r]]
      /\ phase' = [r \in Runs |-> IF r \in new THEN "connecting" ELSE phase[r]]
      /\ announcing' = announcing \cup new
      /\ UNCHANGED outcome

\* Mistaken variant: a manual run does not look at the guard.
TriggerAnyway(j) ==
  /\ Live(j)
  /\ Start({j}, "manual")
  /\ UNCHANGED <<requestVars, treated, commands, history, faults, skipped, life>>

\* POST /api/cron-jobs/:id/trigger, refused while a run holds the job.
Trigger(j) ==
  /\ Live(j)
  /\ j \notin executing
  /\ Start({j}, "manual")
  /\ UNCHANGED <<requestVars, treated, commands, history, faults, skipped, life>>

\* decideCronJobTick, apart from the guard against overlaps.
IsDue(j) ==
  /\ Live(j)
  /\ jobs[j].enabled
  /\ treated[j] # clock
  /\ clock \in jobs[j].schedule

\* Mistaken variant: a job skipped for an overlap stays due in its minute.
TickRetrying ==
  LET due == {j \in Jobs : IsDue(j)}
      fire == due \ executing
  IN  /\ due # {}
      /\ Start(fire, "scheduled")
      /\ treated' = [j \in Jobs |-> IF j \in fire THEN clock ELSE treated[j]]
      /\ skipped' = skipped \cup {<<j, clock, life>> : j \in due \ fire}
      /\ UNCHANGED <<requestVars, commands, history, faults, life>>

\* runCronJobsSchedulerCycle: a due job is fired or skipped, and treated for
\* this minute either way.
Tick ==
  LET due == {j \in Jobs : IsDue(j)}
      fire == due \ executing
  IN  /\ due # {}
      /\ Start(fire, "scheduled")
      /\ treated' = [j \in Jobs |-> IF j \in due THEN clock ELSE treated[j]]
      /\ skipped' = skipped \cup {<<j, clock, life>> : j \in due \ fire}
      /\ UNCHANGED <<requestVars, commands, history, faults, life>>

-----------------------------------------------------------------------------
(* The background work of a run.                                           *)

\* appendRunEvent: the line reaches the history, or the error is swallowed.
AppendEvent(r, event) ==
  \/ /\ history' = [history EXCEPT ![r] = event]
     /\ UNCHANGED faults
  \/ /\ faults < MaxFaults
     /\ faults' = faults + 1
     /\ UNCHANGED history

\* Nobody waits for the "running" event to be written.
Announced(r) ==
  /\ r \in announcing
  /\ announcing' = announcing \ {r}
  /\ AppendEvent(r, "running")
  /\ UNCHANGED <<requestVars, guardVars, runVars, commands, skipped, life>>

\* The work of a run moves on.
Advance(r, from, to) ==
  /\ phase[r] = from
  /\ phase' = [phase EXCEPT ![r] = to]
  /\ UNCHANGED <<requestVars, guardVars, started, run, announcing, history, faults, skipped, life>>

\* Docker answered, the container runs, the command is started in it.
Connected(r) ==
  /\ Advance(r, "connecting", "racing")
  /\ commands' = commands \cup {r}
  /\ UNCHANGED outcome

\* Docker unreachable, container stopped or unknown, exec refused; or the
\* answer to exec.start is lost, the command having been started.
ConnectFails(r) ==
  /\ Advance(r, "connecting", "logging")
  /\ \/ outcome' = [outcome EXCEPT ![r] = "failed"] /\ UNCHANGED commands
     \/ outcome' = [outcome EXCEPT ![r] = "lost"] /\ commands' = commands \cup {r}

\* The command, the process Docker follows in the container, ends by itself or
\* with its container.
CommandEnds(r) ==
  /\ r \in commands
  /\ commands' = commands \ {r}
  /\ UNCHANGED <<requestVars, guardVars, runVars, announcing, history, faults, skipped, life>>

\* The output stream ends before the timer does: the command is over, or it
\* has closed its outputs, or the connection to Docker was cut.
StreamEnds(r) ==
  /\ Advance(r, "racing", "inspecting")
  /\ UNCHANGED <<outcome, commands>>

\* Mistaken variant: a missing exit code is taken for 0.
InspectedAsZero(r, result) ==
  /\ Advance(r, "inspecting", "logging")
  /\ outcome' = [outcome EXCEPT ![r] = IF result = "unknown" THEN "success" ELSE result]
  /\ UNCHANGED commands

\* The exit code is read and tells, if the command is over; it is null while
\* the command lives, and it may be impossible to read.
Inspected(r, result) ==
  /\ r \in commands => result = "unknown"
  /\ Advance(r, "inspecting", "logging")
  /\ outcome' = [outcome EXCEPT ![r] = result]
  /\ UNCHANGED commands

\* The timer wins: the command is left to itself.
TimesOut(r) ==
  /\ Advance(r, "racing", "logging")
  /\ outcome' = [outcome EXCEPT ![r] = "timeout"]
  /\ UNCHANGED commands

\* Mistaken variant: the job is freed only when all went well.
LogOutcomeHolding(r) ==
  /\ phase[r] = "logging"
  /\ phase' = [phase EXCEPT ![r] = "over"]
  /\ AppendEvent(r, IF outcome[r] = "success" THEN "success" ELSE "failed")
  /\ executing' = IF outcome[r] = "timeout" THEN executing ELSE executing \ {r[1]}
  /\ UNCHANGED <<requestVars, treated, started, run, outcome, commands, announcing, skipped, life>>

\* The outcome is appended, then the `finally` frees the job.
LogOutcome(r) ==
  /\ phase[r] = "logging"
  /\ phase' = [phase EXCEPT ![r] = "over"]
  /\ AppendEvent(r, IF outcome[r] = "success" THEN "success" ELSE "failed")
  /\ executing' = executing \ {r[1]}
  /\ UNCHANGED <<requestVars, treated, started, run, outcome, commands, announcing, skipped, life>>

-----------------------------------------------------------------------------
(* Time, and the death of the process.                                     *)

MinutePasses ==
  /\ clock < MaxMinute
  /\ clock' = clock + 1
  /\ UNCHANGED <<jobs, patches, guardVars, runVars, outsideVars, skipped, life>>

\* The two memories are lost, the commands go on in their containers.
Crash ==
  /\ life < MaxCrashes
  /\ life' = life + 1
  /\ executing' = {}
  /\ treated' = [j \in Jobs |-> Never]
  /\ phase' = [r \in Runs |-> IF phase[r] = "none" THEN "none" ELSE "over"]
  /\ announcing' = {}
  /\ UNCHANGED <<requestVars, started, run, outcome, commands, history, faults, skipped>>

-----------------------------------------------------------------------------

Init ==
  /\ clock = 0
  /\ jobs = [j \in Jobs |-> [state |-> "unborn", schedule |-> AnyOf(Schedules), enabled |-> FALSE]]
  /\ patches = 0
  /\ executing = {}
  /\ treated = [j \in Jobs |-> Never]
  /\ started = [j \in Jobs |-> 0]
  /\ run = [r \in Runs |-> [trigger |-> "manual", minute |-> 0, life |-> 0]]
  /\ phase = [r \in Runs |-> "none"]
  /\ outcome = [r \in Runs |-> "none"]
  /\ commands = {}
  /\ announcing = {}
  /\ history = [r \in Runs |-> "absent"]
  /\ skipped = {}
  /\ faults = 0
  /\ life = 0

Request ==
  \E j \in Jobs :
    \/ \E s \in Schedules : CreateJob(j, s) \/ \E on \in BOOLEAN : UpdateJob(j, s, on)
    \/ DeleteJob(j)
    \/ Trigger(j)

\* What a started command leads to, whether or not it ends.
Finish(r) == StreamEnds(r) \/ TimesOut(r) \/ LogOutcome(r)

Perform ==
  \E r \in Runs :
    \/ Announced(r) \/ Connected(r) \/ ConnectFails(r) \/ CommandEnds(r) \/ Finish(r)
    \/ \E result \in {"success", "failed", "unknown"} : Inspected(r, result)

Next == Request \/ Tick \/ Perform \/ MinutePasses \/ Crash

Spec == Init /\ [][Next]_vars

\* The timer of a run fires and the disk answers.  Nothing is assumed of the
\* commands, nor of Docker: no answer of it is awaited under a time limit, be
\* it before the race (cronJobsScheduler.ts:187-199) or after it (229).
FairSpec == Spec /\ \A r \in Runs : WF_vars(Finish(r))

-----------------------------------------------------------------------------
(* Properties.                                                             *)

RequestsTyped ==
  /\ clock \in 0 .. MaxMinute
  /\ jobs \in [Jobs -> [state : {"unborn", "live", "deleted"}, schedule : Schedules, enabled : BOOLEAN]]
  /\ patches \in Nat

GuardTyped ==
  /\ executing \subseteq Jobs
  /\ treated \in [Jobs -> 0 .. Never]

RunsTyped ==
  /\ started \in [Jobs -> 0 .. MaxRuns]
  /\ run \in [Runs -> [trigger : {"manual", "scheduled"}, minute : Nat, life : Nat]]
  /\ phase \in [Runs -> {"none", "connecting", "racing", "inspecting", "logging", "over"}]
  /\ outcome \in [Runs -> {"none", "success", "failed", "unknown", "lost", "timeout"}]

OutsideTyped ==
  /\ commands \subseteq Runs
  /\ announcing \subseteq Runs
  /\ history \in [Runs -> {"absent", "running", "success", "failed"}]
  /\ faults \in Nat

HistoryTyped ==
  /\ skipped \subseteq Jobs \X Nat \X Nat
  /\ life \in Nat

RunsCounted == \A r \in Runs : phase[r] = "none" <=> r[2] > started[r[1]]

\* Every variable has its type; the runs in existence are the first ones.
TypeOK ==
  RequestsTyped /\ GuardTyped /\ RunsTyped /\ OutsideTyped /\ HistoryTyped /\ RunsCounted

\* cronJobsScheduler.ts:21-28: a job never has two unfinished runs, and it is
\* held exactly while it has one, whether the runs come from ticks or from
\* users and even if the job is deleted meanwhile.
OneRunPerJob ==
  /\ \A q, r \in Runs : q[1] = r[1] /\ Active(q) /\ Active(r) => q = r
  /\ \A j \in Jobs : j \in executing <=> \E r \in Runs : r[1] = j /\ Active(r)

\* The commands themselves overlap only when the older one was given up: by
\* the death of the process, by its timer, or without its exit code, because
\* its output or its connection to Docker ended before it did.  A command given up is
\* never in the history as a success (cronJobsScheduler.ts:229-230, 312).
OverlapOnlyWhenAbandoned ==
  \A q, r \in commands :
    q[1] = r[1] /\ q[2] < r[2] =>
      /\ outcome[q] \in GivenUp \/ run[q].life < life
      /\ history[q] # "success"

\* cronJobsScheduler.ts:21: the next run is skipped "si le précédent tourne
\* encore"; config.ts:579-582 gives a command up when its timer fires.  Death
\* of the process and a start whose answer was lost set apart, it is violated:
\* the end of the output (209) is taken for the end of the command, the job is
\* freed (328), and the next run starts a second command beside the first.
SkippedWhileCommandRuns ==
  \A q, r \in commands :
    q[1] = r[1] /\ q[2] < r[2] => outcome[q] \in {"timeout", "lost"} \/ run[q].life < life

\* cronJobsScheduler.ts:33-36: in one life of the process, a minute of a job
\* is treated once: fired once by the scheduler, or skipped and never caught
\* up, however many ticks fall in it.
TreatedOncePerMinute ==
  \A r \in Runs :
    phase[r] # "none" /\ run[r].trigger = "scheduled" =>
      /\ <<r[1], run[r].minute, run[r].life>> \notin skipped
      /\ \A q \in Runs :
           /\ q[1] = r[1] /\ q # r
           /\ phase[q] # "none" /\ run[q].trigger = "scheduled"
           => run[q].minute # run[r].minute \/ run[q].life # run[r].life

\* config.ts:580-582: a command that never ends does not hold its job for
\* ever; the timer frees it.  The one wait excepted is the read of the exit
\* code once the output has ended, which Docker may never answer.
SlotFreed ==
  \A r \in Runs :
    phase[r] \in {"racing", "logging"} ~> r[1] \notin executing \/ phase[r] = "inspecting"

\* config.ts:580-582: nothing may "bloquer le slot d'anti-chevauchement du job
\* pour toujours".  It is violated: the time limit covers the race alone, and a
\* Docker daemon that stops answering before or after it holds the job until
\* the process is restarted; every later minute is skipped.
SlotFreedEvenIfDockerFreezes == \A r \in Runs : Active(r) ~> r[1] \notin executing
=============================================================================
