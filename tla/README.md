# TLA+ models of QUAI (container-management)

QUAI is a self-hosted console for Docker, Swarm, Kubernetes and the services
around them.  `apps/api` is a Fastify server in one Node.js process;
`apps/web` is a React client; `packages/plugin-contract` is the contract of the
plug-ins; `packages/wasm-core` (Rust) computes manifest differences; `deploy`
holds what an operator installs.  These modules are about `apps/api`: that is
where the state is kept, where the background work runs and where the
difficult behaviours are.

All of it runs in a single thread.  A handler or a background cycle runs alone
until its next `await`; there, anything else may run.  The modules therefore
have one action per stretch of code between two awaits that matter, and the
concurrency they explore is that of the awaits, of the outside world (Docker,
S3, the scanners, Caddy, the disk) and of the death of the process.

Contents: [inventory](#inventory), [method](#method), one section per module
([Backups](#backups), [CronJobs](#cronjobs), [Automation](#automation),
[Scans](#scans), [ReverseProxy](#reverseproxy), [Secrets and
Lineage](#secrets-and-lineage), [Announcements](#announcements),
[Certificates](#certificates), [Plugins](#plugins)), [proofs](#proofs), [what
disagrees with the comments](#where-the-code-and-its-comments-disagree), [not
modelled](#not-modelled), [plan](#plan).

## Inventory

`index.ts` (`main`, lines 156-250) starts ten background services beside the
HTTP routes: watchdog, GitOps reconciler, reverse-proxy reconciler, certificate
reconciler, CRL refresher, scan scheduler, metrics collector, cron jobs, backups
and automation.  Each is a `setInterval` whose cycle is asynchronous; most have
a "cycle in flight" flag, some do not.  Services keep their state in JSON files
(a cached read-modify-write) or in JSON Lines logs (append only, the last line
of an identifier is its state).  There is no database and no lock.

| Component (`apps/api/src`) | State | Operations | What is hard | What makes it correct |
|---|---|---|---|---|
| **Backups**: `services/backupScheduler.ts`, `backupsStore.ts`, `routes/backups.ts` | definitions, run log, S3 objects, in-flight flag | cycle every minute, manual run, background run, retention, restoration, create/patch/delete | runs of one definition finish in any order; a list read before awaits is acted on after; uploads outlive their time-out; the process dies | what retention promises to keep is kept; log and bucket agree; one scheduled run per minute; every run gets an outcome |
| **Cron jobs**: `services/cronJobsScheduler.ts`, `cronJobsStore.ts`, `routes/cronJobs.ts` | jobs, jobs being executed, last minute treated, history | tick every 20 s, manual trigger, execution, time-out, create/patch/delete | two ticks per minute, ticks beside triggers, commands that outlive their time-out or the process | one run per job, one treatment per minute, a job is always freed |
| **Automation**: `services/automationEngine.ts`, `automationStore.ts`, `automationRunLog.ts`, `routes/automation.ts` | nodes, edges, last status of triggers, run log | cycle, evaluation of a trigger, firing of a chain, create/delete of nodes and edges | cycles without a guard; store contents computed before another's write and written after it | no edge without its nodes; a failure fires, and once |
| **Image scans**: `services/scanScheduler.ts`, `scan.ts`, `routes/scan.ts` | scan log, in-flight flag, pool of workers | cycle, manual scan, scanner process, polling, notification | what is due is decided long before it is started; appends whose failure is swallowed; restarts in mid-scan | bounded pool; no avoidable duplicate; what is due gets scanned; critical results are notified |
| **Reverse proxy**: `services/reverseProxy.ts`, `reverseProxyReconciler.ts`, `routes/reverseProxy.ts` | routes, configuration served by Caddy, reconciliation status | create, delete, DNS resynchronisation, push, periodic and start-up reconciliation | routes read before an await and written after; full pushes that overtake each other; Caddy loses its configuration at each restart | no route lost or duplicated; Caddy ends up serving the stored routes |
| **Notifications**: `services/notificationsStore.ts`, `notificationDispatch.ts`, `notificationChannelsStore.ts` | event log, read cursor, channels | record, dispatch to channels, mark read, poll | stamps are taken before two awaits and the line appended after; dispatch is not waited for | an event that enters the log is above every cursor, so that it is still to be read; the log says what was last saved |
| **Watchdog**: `services/watchdog.ts` | last known state of images and integrations | periodic cycle with a guard | events recorded before the state is saved | what the log last said is what was last saved; the file ends up true |
| **GitOps**: `services/gitops.ts`, `gitopsReconciler.ts` | clone, drifting files | list, synchronise, periodic cycle without a guard | overlapping cycles | the same, except when cycles overlap |
| **Certificates**: `services/certificates.ts`, `certificatesReconciler.ts` | certificates and keys, renewal errors | enrol, renew, forget, push to Caddy | long enrolment between decision and write; forget meanwhile; a cache filled late | only its own renewal or removal replaces a certificate; Caddy presents the list; routes end up covered |
| **Plug-in lifecycle**: `plugins/installed.ts`, `loader.ts`, `activation.ts`, `registry.ts`, `guard.ts`, `configStore.ts`, `origin.ts`, `routes/plugins.ts` | packages on disk, registry, activation | install, remove, restore, load, pause | directory replaced in two steps; passes that read it beside requests that write it; a memory of removals without a lock | a paused plug-in is not in the graph; a removal survives restarts; the code in service is that of the disk |
| Plug-in packages: `plugins/package.ts`, `crl.ts`, `services/crlRefresher.ts` | revocation lists | verification, refresh | byte formats | out of scope |
| Infrastructure as code: `services/iac/*` | workspaces, index of runs, logs | run, list, read log | index of runs rewritten by overlapping runs | every run keeps its entry |
| GitHub: `services/github*.ts`, `routes/githubWebhook.ts` | repositories, deployments, overrides | browse, deploy, webhook | long deployments | one deployment does not hide another |
| **Secrets**: `services/secretsStore.ts`, `routes/secrets.ts`, `utils/secureFile.ts`, parts of `routes/containers.ts` | the list of secrets, its cache and file; the values given to containers | create, change, rotate, delete, resolve, record and move usages, purge | read-modify-write around awaits; a file written in place; usages recorded after Docker answered | names stay unique, versions go up by one; a usage that is registered is kept |
| JSON stores: `registriesStore.ts`, `remoteDockerStore.ts`, `lxcStore.ts`, `templatesStore.ts`, `serviceBindingsStore.ts`, `topology*Store.ts` | one file and its cache each | get, set, delete | read-modify-write around an await | that of `Lineage` |
| Setup: `services/setupStore.ts`, `crypto.ts` | `config.json` | wizard, reset | almost none: sequential | the wizard closes for good |
| Sessions and directory: `services/session.ts`, `ldap.ts`, `kerberosSession.ts`, `plugins/auth.ts`, `audit.ts` | Kerberos ticket caches, audit log | login, logout, verification | logout beside a ticket renewal | a ticket goes with its session |
| Docker, Kubernetes, LXC: `services/docker.ts`, `kubernetes.ts`, `lxc.ts`, `sshTunnel.ts` ... | clients, SSH pool | container operations, console, logs | outside systems | seen as calls that succeed, fail or hang |
| Topology, metrics: `services/topology.ts`, `metricsCollector.ts` | samples in memory | build the graph, sample | none of state | bounded memory |
| Integrations, templates | remote | requests, file generation | parsing | out of scope |
| `apps/web`, `packages/*` | client state, none | screens, pure functions | out of scope | out of scope |

`PROJECT.json` lists the same components with their files and status, and the
hazards: every place found so far where something can go wrong that a test
would hardly reach, with the property that would catch it.

## Method

* One module per component, with the constants' assumptions in it.  `MCx`
  gives values that a cfg cannot write; the cfgs give the others.
* An identifier, a bucket, an image is a model value.  A cron expression is the
  set of minutes it matches (which set, `CronExpressions` says).  A
  remote answer is one of the outcomes the code tells apart.
* A JSON Lines log is a function from identifiers to their last event, which is
  how the code reads it.
* Bounds are constants whose names begin with `Max`; they only stop runs,
  requests, faults and crashes from being counted without end.  At a bound the
  model stops although the program would not, hence `CHECK_DEADLOCK FALSE`
  everywhere: a state without successor is one where all bounds are spent.
  What must eventually happen is stated as a liveness property instead.
* Definitions whose comment begins with "Mistaken variant" are plausible bugs of
  the definition below them.  They are used nowhere; put in its place, each one
  breaks a property, which shows that the property depends on that code.
* Fairness is weak, and given only to what the runtime or a time-out in the
  code brings about: never to users, to failures, to crashes, to a command
  that runs in a container, nor to an answer of Docker that the code waits for
  without a limit, except where a section says that it is assumed.
* At the end of most modules stand statements that a comment of the code makes and
  the code does not keep, without the exceptions of the checked properties.  TLC
  refutes each of them, and each counterexample is the reason of an exception.
  They are listed [below](#where-the-code-and-its-comments-disagree) with what
  refutes them; one is a run of its own.

## Backups

`Backups.tla` models `backupScheduler.ts`, `backupsStore.ts` and the routes.

| State | Code |
|---|---|
| `defs` | `backups.json` and its cache |
| `run`, `phase`, `todo` | the closure of `performBackup`: copy of the definition and of the destination, where it stands, runs left to rotate |
| `log`, `torn` | `backup-runs.jsonl`: last event of a run; an unterminated last line after a crash |
| `objects`, `late` | the buckets; uploads whose waiter has given up |
| `cycle` | `cycleInFlight` and the local variables of the cycle |
| `restore` | one restoration |

`Launch` is `runBackupNow` up to its first disk access; `LogRunning` to
`LogRotated` are `performBackup` and `applyRetention`, one action per await
(`Inspected` when the target is a database, whose container is inspected first);
`CycleBegin` to `CycleEnd` are `runBackupSchedulerCycle`; `RestoreBegin` and
`RestoreEnd` are `restoreBackup`; `AppendEvent` is `appendBackupRunEvent`, whose
errors are swallowed.

Runs of the checker:

* `backups_storage`: three runs of one definition, two buckets, retention of
  one, one edition, one fault, one crash, restorations.  Three runs are the
  least for two retentions that work on each other's results (the two newer
  ones rotate the oldest, or each other).  It checks `NewestArchivesKept` and
  `RestoreMissesOnlyRotated`.  The second is about behaviours without faults, as
  a failed deletion or a lost line is exactly what makes the log and the bucket
  differ.
* `backups_schedule`: the same with a schedule that matches two successive
  minutes, a cycle that may be late, manual runs and a crash that may cut the
  line being appended: `OncePerMinute`, `ScheduledOverlapBehindManual`.
* `backups_runs_end`: `RunEnds` under `FairSpec`.  Fairness (`Work`) is that of
  the waits `withTimeout` bounds (archive, dump, upload) and of the calls to the
  local disk.  Two waits have no limit and no fairness (`Unbounded`): the
  inspection of the container of a database (`backupScheduler.ts:480`, 313),
  from which `RunEnds` promises nothing, and the deletions in S3, which come
  after the outcome.
* `RunEndsEvenIfDockerFreezes` and `EndsAreLogged`, refuted, are what `RunEnds`
  excepts: the daemon that answers `ping` and not the inspection leaves the run
  "running" for ever;
  a temporary directory that cannot be made ends the run without a line.

`readAllBackupRuns` takes any error for an empty log: `ListUnread` and `FoundDue`
are the two readers that matter, and cost a fault.

Abstracted: the contents of archives, the temporary files (two restorations at
the same time are not modelled: they write the same `restore-<runId>` file,
`backupScheduler.ts:568`), what a target is besides a volume or a database.  The definitions'
store is written in one step here; `Secrets` has the races of that
read-modify-write.  A cycle in which nothing is due is left out: it
changes nothing.

## CronJobs

`CronJobs.tla` models `cronJobsScheduler.ts`, `cronJobsStore.ts` and the routes.

| State | Code |
|---|---|
| `jobs` | `cron-jobs.json` |
| `executing`, `treated` | `executingJobIds`, `lastFiredMinuteKey`, both lost by a crash |
| `started`, `run`, `phase`, `outcome` | the runs and the closure of each |
| `commands` | the commands alive in containers, which outlive time-out and process |
| `announcing`, `history` | appends of "running" under way; `cron-jobs-history.jsonl` |
| `skipped`, `life` | history variables: what was skipped for an overlap, restarts |

`Tick` is a whole pass over the jobs, atomic because the loop of
`runCronJobsSchedulerCycle` has no await; the timer (20 s by default) is a tick that may fall
several times in a minute.  `Start` is `startCronJobRun` up to its suspension;
`Connected` to `LogOutcome` are the execution, with the race of the output stream against
the timer.  The "running" line is not waited for by the code, so `Announced` is
an action of its own and may come after the outcome.

The end of the output is not the end of the command: a command may close or
redirect its outputs, or its connection to Docker be cut, and `StreamEnds` needs
nothing of it.  The exit code is then missing, which `Inspected` reads as
"unknown" and the code logs as failed.  An `exec.start` whose answer is lost
leaves a command too ("lost").  `GivenUp` names the three outcomes that leave one.

* `cronjobs`: one job, two runs, two minutes, an edition or deletion, a restart.
  One job is enough: jobs share no state but the clock, and the tick treats
  each on its own.  `OneRunPerJob` relates the set to the runs it stands for;
  `OverlapOnlyWhenAbandoned` says when two commands may really run side by
  side: the older one was given up, and the history does not call it a success;
  `TreatedOncePerMinute` holds for fired and skipped minutes alike;
  `SlotFreed` is liveness.  Fairness is given to the timer of a run and to the
  disk; not to the commands, which may never end, nor to any answer of Docker,
  since the time limit covers the race only: `SlotFreed` starts from the race and
  excepts the read of the exit code that follows it.
* `SkippedWhileCommandRuns`, `SlotFreedEvenIfDockerFreezes`, refuted: an output ends
  before its command, and a second command starts beside it; the daemon stops
  answering before or after the race, and the job is held.

Lost history lines are possible in the module (`MaxFaults`); the runs have none,
because no property reads the history of a job whose lines are lost.  Theorems
hold for all values.

### CronExpressions

Jobs and backups have each their own reader of cron expressions.
`CronExpressions.tla` has both as operators over the parts of the fields:
`JobMatches` and `isValidCronExpression` (`parseField`, `parseCronExpression`),
`cronMatches` (`matchesCronPart`, `matchesCronField`).  The grammar of a part is the
same in `FIELD_PATTERN` and in `CRON_FIELD` (`backupsStore.ts:152`), so the module has
it whole; the readings differ.  `MCCronJobs` takes the schedule of its job from
`JobMatches`, and has assumptions that TLC evaluates before the run `cronjobs`:

* `ReadsItsLoop`: the values a part is read as are those the loop of
  `parseField` adds, for every part over a field of five values;
* `PlainAgrees`: two readers, the same minutes, over the sampled texts and moments,
  when the text is `Plain`; `OthersDiffer`: each form that `Plain` excludes makes a
  difference, so the exception is not larger than it must be;
* `OnlyBackupsTake`: backups take "7" for Sunday, which jobs refuse, and values out of
  range, which never match.

## Automation

`Automation.tla` models `automationEngine.ts`, `automationStore.ts` and the
routes.

| State | Code |
|---|---|
| `cache` | the cache of `automationStore.ts`: nodes, edges and the last status of triggers |
| `writing`, `next` | writes under way and the content each carries |
| `torn` | the file was emptied by a refused write and holds no JSON |
| `phase`, `snapshot`, `seen`, `todo`, `current`, `acts` | a cycle: the nodes and edges it read, the topology it loaded, where it is |
| `world` | what a probe or the topology would tell of each trigger's resource |
| `fires`, `stale`, `gone`, `born`, `clobbered`, `overlapped` | history variables |

Every operation of the store reads the cache, computes a whole new content,
awaits the disk, and then sets the cache: `Write` and `Commit`.  A content
computed before another's commit is `stale`; committing it undoes the other
change.  The reads of a warm cache are awaits that resolve at once, so the
checks of `CreateEdge` and the computation of its content are one step.
`Evaluate`, `Saved`, `Fire`, `Act` follow `evaluateTrigger`, with the two writes
(`lastStatus`, then `lastFired` on a transition) before the chain.

* `automation`: one trigger, one condition, one action, one cycle at a time,
  one user with two requests, one change of the world, one refused write,
  failed topology or crash; every initial graph over these nodes.  One node of
  each kind gives every path of `fireActionChain`; one user beside one cycle is
  enough for a stale content.  Properties: `EdgesWired`, `FiresOncePerFailure`,
  `DeletedStaysDeleted`, `FailureFires`.  Fairness: the timer keeps firing and
  the calls a cycle waits for answer (probes and writes are bounded; Docker is
  assumed to).  A torn file is read back after two incidents only, a refused write
  and a restart, one more than this run has: the proofs have any number.
* `NeverFiresTwice`, refuted: with two cycles, one failure fires twice.
  `TransitionFires`, refuted: a refused write of `lastFired` loses the actions of a failure
  that is saved as seen.

Abstracted or assumed: the first two readers of a cold cache may both load it
(not modelled); two writes under way reach the disk in the order they are
committed, which only a restart could tell; parallel edges between the same
nodes are one; what a route trigger observes is taken at its evaluation; the
kinds of action are one action that is executed and journaled.

## Scans

`Scans.tla` models `scan.ts`, `scanScheduler.ts` and the routes.

| State | Code |
|---|---|
| `logged` | `scans.jsonl`: last status of a scan |
| `phase`, `target`, `automatic`, `fresh` | the executions of `startScan`; `fresh` are those started less than 24 hours ago |
| `cycle`, `images`, `due`, `awaited` | `cycleInFlight` and the local variables of the cycle; one awaited scan per busy worker |
| `notified`, `unheard`, `givenUp`, `read`, `saw` | events recorded, events the disk refused; history variables |

`Begin`, `Launch`, `Exit`, `Record` are `startScan` and its un-awaited second
half, with the two appends whose failure only warns.  `ReadLog` decides what is
due for the whole cycle; `Take`, `Poll` and `GiveUp` are the workers.

* `scans`: one image, two scanners (two pairs), a pool of one, two scans, one of
  them possibly by a user, one deployment, one failure or restart.  Two pairs
  for one worker is the least for a queue; two scans is the least for an
  overlap.  `OverlapUnseen`, `PoolBounded`, `DueGetsScanned`,
  `CriticalNotified`.  Fairness: the timer, Docker, the disk, the scanner
  processes (`execFile` kills them at their time-out) and the wait of ten minutes.

Assumed: scanner processes die with the API, since they run in its container.
The queue of due pairs is a set: no property depends on its order.  `GiveUp`
stands for the deadline and for a failed read of the log, which makes any scan
look like one that was never logged.  `NotifyFails` is the append of a
notification whose failure only warns: `CriticalNotified` excepts it.

What the exceptions leave out, each refuted: `RunningRuns` (what the log calls
running is not, after a restart), `NeverTwoScans` (a user's scan started after the
decision of the cycle, or a log that cannot be read) and `NeverMoreThanLimit` (a
scan that was given up goes on beside the next of its worker).

## ReverseProxy

`ReverseProxy.tla` models `reverseProxy.ts`, `reverseProxyReconciler.ts` and the
routes.

| State | Code |
|---|---|
| `cache`, `disk` | the cache of `reverseProxy.ts`; what its file would give to the next process, nothing when it is no JSON |
| `dns` | records of the routes in the Active Directory DNS |
| `pc`, `op`, `target`, `list` | the requests in progress: where each waits, the list it read at its first line and the one it will write |
| `shared` | writes of the file that met another, and may leave either list or a mixture |
| `plan`, `config` | pushes in progress, those of the reconciler included: routes whose address is still to be read, configuration built so far |
| `served` | what Caddy answered to the reconciler |
| `caddy`, `late` | what Caddy serves, in memory only; configurations whose sender gave up |
| `address` | where each container is, or `Gone` |
| `behind`, `overlapped`, `blemished` | history variables: stale lists, requests that overlapped, a write of the file that went wrong |

`CreateBegins`, `ResyncBegins` and `DeleteBegins` run up to the first suspension,
with the checks made on the list just read.  `Named` is the answer of the DNS
(with the port detection before it), after which the list is computed and its
write begins; `CreateWritten`, `ResyncWritten`, `DeleteWritten` end the write and
set the cache; `Unnamed` is the removal of the record.  `Resolve` reads the
address of one container, in any order, since each is read alone and the order
of the routes does not matter to Caddy; `Load`, `LoadFails` and `LoadTimesOut`
are the three ends of `POST /load`.  `CycleStarts`, `Fetched` and `InSync` are the
reconciler, whose start-up retries are cycles like the others.

* `reverseproxy`: one subdomain, one old route or none, two requests of any
  kind, a container that moves, one fault.  Two requests are the least for a
  stale list and for a push that overtakes another, and with one subdomain they
  always compete for the same one.  It checks `SubdomainsUnique`, `DnsFollows`,
  `RouteFate` and `Converges`; the first and the third are also proved for any
  number of everything, see below.
* `reverseproxy_upstream`: see
  [below](#where-the-code-and-its-comments-disagree).

Why `SubdomainsUnique` holds is worth a remark: nothing prevents two creations
of one subdomain from both passing the check.  The later to write simply writes
the list it had checked, so it drops the other route instead of doubling it;
`RouteFate` states that loss exactly.  A careful-looking repair that reads the
list again before writing would break the first (the variant
`RenewedFromCache`).

`DnsFollows` speaks of requests that come one at a time: otherwise a deletion may
remove the record of a route created again meanwhile.  `Converges` excepts the
empty store, for which the reconciler does nothing by design: a route whose
last push failed stays served after its deletion.

Fairness: each handler, each push and the reconciler goes on.  Every call they
wait for is bounded by the code (Caddy by `requestTimeoutMs`, the DNS by a
process that is killed) or goes to the local disk or to Docker, which is assumed
to answer; the timer is `setInterval`.  `LateLoad` is never fair.

Abstracted or assumed: each route has a container of its own (a host given by
name is a container that never moves); certificates and TLS are not in the
configuration, and their renewal is only a push; at the start the file, the
cache and the DNS agree, and Caddy has its bootstrap file; the file is loaded
by the restart itself, not by the first request after it; the DNS takes nothing
once `nsupdate` is killed.

## Secrets and Lineage

`Secrets.tla` models `secretsStore.ts`, `routes/secrets.ts`, the write in place
of `utils/secureFile.ts`, and the part of `routes/containers.ts` that gives
values to containers and keeps `usedBy`.

| State | Code |
|---|---|
| `cache`, `disk` | `cache` of the store, `None` before its first read; `secrets.json`, which may be truncated or a mixture |
| `req` | the requests in flight: the list each computed, the containers each listed |
| `docker`, `injected` | the containers, and the values each was started with |
| `minted`, `past`, `kept` | identifiers given; history of the lists written, and of the usages registered by a request that was alone |
| `exposed` | history: the usages of `kept` when `GET /api/secrets` could not list the containers |

A request asks for the list, which comes from the cache at once or from the disk
later (`AskCached`, `AskDisk`, `ReadFromDisk`, `FillCache`); it computes its list, opens and
writes the file (`OpenFile`, `WriteFile`) and only then sets the cache (`Publish`).
Creating a container with secrets resolves them, asks Docker, and records the
usages afterwards.

`Lineage.tla` is the abstract specification: every list ever written is one edit
away from *some* list written before, and readers are served one of these
lists.  It is what such a store can promise without a lock, and it is enough
for everything a single edit preserves: names stay unique (every edit is checked
against the list it was computed from), an identifier keeps its version or
moves it by one.  It says that an atomic store is *not* what is implemented:
the edit may be of an old list, which undoes the edits since.  The refinement
maps `current` to the cache, or to the blank list before the first read; it is
checked as the property `KeepsLineage`, and proved.

* `secrets`: two secrets, two names, three containers, two requests at a time
  and four in all, one refused write or failure of Docker, one restart;
  identifiers, names and containers are symmetric.  Two requests are the least for a
  lost change, four the least to launch a container, overlap two changes and
  look at what is left.  `UsageKept` is the promise that users of
  `GET /api/containers/:id` depend on, as the masks on the variables come from
  `usedBy`: it holds for usages recorded by a request that was alone, and
  survives all that comes later, but for one event: `GET /api/secrets` when Docker
  cannot be listed purges every usage there is (`exposed`), and nothing is
  promised of these any more (`Protected`).
* `PurgeSparesTheLiving` and `InjectedTracked`, refuted, show how a live
  container loses its usage or never has one: the purge when Docker does not answer,
  the purge whose list of containers is older than the container, the
  creation whose start fails.

No fairness: nothing here is promised to happen.  A blank store is one of the
lists `Lineage` allows at a restart, so that the loss of a file cut in its write
(`secureFile.ts:41`) is in the module and refuted by nothing: `readFromDisk` accepts
it, and no comment promises otherwise.

## Announcements

`Announcements.tla` models `watchdog.ts`, `gitopsReconciler.ts`, the log they
write (`notificationsStore.ts`) and the client that polls it.  A behaviour is of
one watcher, chosen in `Init`: they meet in the log only.

| State | Code |
|---|---|
| `truth`, `configured` | what images, integrations and the GitOps clone would answer |
| `file` | `watchdog-state.json` or `gitops-reconciler-state.json`, written in place |
| `cycleInFlight`, `cycle` | the guard of the watchdog; the local variables of the cycles |
| `log`, `glued`, `stamp` | `notifications-log.jsonl`, its last line cut short, the last stamp given |
| `click`, `cursor`, `since` | read-all about to be written, the cursor of the file, the highest stamp the client has |
| `now`, `told`, `blurred` | history |

`Start`, `LoadState`, the looks and probes, one `Stamp` and append for each
difference, then the save of what was seen.  The watchdog skips a tick while
its cycle is in flight (`StartWatchdog`); the reconciler does not (`StartGitops`).

* `announcements`: one image, two integrations, one of them Docker (the images are
  listed from it), one GitOps file, two cycles, two changes of the world, one
  error, restart, click or poll.  Two cycles are the least for an overlap; two
  changes the least for a difference that comes and goes while it is announced.
  `NothingEntersBelow`: an event that enters the log is above every cursor,
  except beside another event being recorded; it says nothing of what a click
  makes of the events already there.  `LogTellsState`: what the log last said
  of a thing is what the file holds, except what a cycle in flight has just told,
  and after a lost save or, for the reconciler, the save of a cycle that
  overlapped another.  `CaughtUp`: the file ends up true once the world
  rests.  Fairness: the timer, and the steps of a cycle, whose probes have time
  limits; `listImages` has none, and `CaughtUp` excepts a cycle that hangs there:
  no comment promises an end to that wait, and no run is made of it.
* `VisibleMarkedRead`, refuted: "mark all read" puts the cursor on the newest line of the
  file, so that an event appended since the last poll is read without having been
  shown.  `SaidOnce`, refuted twice: two cycles of the reconciler announce
  one change twice, and so does a cycle interrupted between its events and its save.

## Certificates

`Certificates.tla` models `certificates.ts`, `certificatesReconciler.ts`,
`routes/certificates.ts` and what a push gives Caddy (`reverseProxy.ts`).

| State | Code |
|---|---|
| `cache`, `disk` | the list of certificates, its file written in place |
| `job` | the renewal cycle and the requests: issuance after the creation of a route, renewal, removal, pushes |
| `issued`, `due`, `expired` | the certificates the authority gave, those in their renewal window, those beyond their term |
| `routed`, `caddy` | the subdomains with a route; the certificate Caddy serves to each |
| `missed` | history: Caddy may present something else than what the list and the routes say |
| `behind`, in a job | history: another job changed the list or the file under what this one holds |

An issuance asks the authority first and reads the list afterwards (`Decided`,
`Issued`), so it is the write that may be stale, not the decision.  A refusal is
recorded beside the certificate in use (`Marked`).  A push reads the routes
(`Ask`), then the list (`Decided`), then loads what it built (`LoadConfig`): the
requests may change either in between.  `missed` becomes true when the list or the
routes change, when a load fails, and when a restart drops a list that was not in
the file; a load makes it false again if what it sends was built from the list and
the routes as they still are.

* `certificates`: two subdomains, one with a route and a certificate, one
  request beside the cycle, one certificate that comes to its term, one refusal,
  error or restart (1.5 million states).  The type invariant is proved; it and the
  safety properties were also explored once, without liveness and without error,
  on instances with two requests at the same time: one subdomain, no certificate
  at first, and either an ageing (5.6 million states) or an incident (1.9 million).
  `CaddyTold`: Caddy presents to each route its certificate of the list and
  nothing to the other subdomains, unless `missed`.  `InPlaceKept`: only the
  renewal or the removal of a subject replaces its certificate, or a list that was
  stale when it was written.  `Covered`: every route ends up with a
  certificate that is not due, and served, unless a push was lost.  Fairness:
  the timer, the authority and Caddy, whose requests have time limits, and the
  disk.
* `FailureSparesInPlace`, refuted: the record of a refused renewal writes a whole list that
  is stale, and puts back the certificate a request had replaced.
  `RenewedIsPushed`, refuted: when that record is refused in its turn the cycle ends
  before its push, and what it renewed is due no more.

## Plugins

`Plugins.tla` models `plugins/installed.ts`, `origin.ts`, `loader.ts`,
`registry.ts`, `activation.ts`, `routes/plugins.ts`, the pass before the server
listens (`index.ts:85`) and the one that precedes each graph
(`topology.ts:434`).

| State | Code |
|---|---|
| `disk`, `installs`, `bad` | the directory of each module: an installation, absent or partial; those whose code does not load |
| `registry`, `loaded` | the `Map` of `registry.ts`; the modules Node holds, one for each URL, which names the installation |
| `paused` | `enabled: false` in the stored configuration |
| `removed` | `.quai-origin.json`, the memory of the removals, which may be truncated |
| `job`, `pass` | the requests and the graph; the one whose pass is going (`serialize`) |
| `dropped`, `blurred`, `stale` | history |

A pass lists the directories, reads them one after the other (`Scan`), takes out
of the registry what is refused (`Sift`), then for each entry reads the pause,
and imports what is missing (`Load`, `Import`).  Requests write beside it: the
directory is emptied, removed, and the new one renamed into place (`Clear`, `Rm`,
`Rename`); `Leave` unregisters; `ReadState`, `OpenState`, `WriteState` are the
memory.  `Resolve` and the pass for the administration bring back a module on
pause for the time of a request.  `GET /api/plugins` is `List`: it reads the
directories outside any pass (`ListDirs`, `Browse`), then takes one turn for each
module to load, with the entries it read (`StartListed`).  A memory that cannot be
read is taken for an empty one by the start and by a request (`BootUnread`,
`StateUnread`).

* `plugins`: one module of the image, one installed, two requests beside the graph,
  one failure of the disk or restart.  Two requests are the least for two that
  write one directory, and for a pass that reads what another request is
  writing.  `RemovalHolds`: what an administrator removed is not installed again by
  a start, unless two writes of the memory overlapped, one was cut, or it could not
  be read.  It speaks of the removals that reached the memory: one that a crash cut
  before that is among the initial states instead, as modules on pause that the
  start installs again (the crash counts as the failure).
  `PausedStaysOut`: whoever loads a module on pause for the administration, the
  pass that precedes a graph takes it out.  `Settles`: the registry ends up with
  the code of the disk, three strays excepted, until the next start: a pass, or a
  listing, that read the directory before the module left, and a directory that
  went while the module stayed.  Fairness: the graph is
  read again and again (each cycle of the automation does it, each open screen
  too), and what passes and requests wait for is the local disk and imports of
  local files.
* `RemovedLeaves`, `ListingLoadsInstalled`, refuted: the first two strays.
  `RemovalsKept`, refuted: of two removals at once, the second to write forgets the first.

## Proofs

TLAPS proves the following for every value of the constants that satisfies the
named assumptions of each module (bounds are naturals, retention counts are
positive, kinds of nodes are disjoint, the modules of the image are finitely
many, Docker is among the integrations, and so on).  The proofs are in
`BackupsProofs`, `CronJobsProofs`, `AutomationProofs`, `ScansProofs`,
`ReverseProxyProofs`, `SecretsProofs`, `PluginsProofs` and `AnnouncementsProofs`;
those about `CronExpressions` are the last part of `CronJobsProofs`.  Every
inductive invariant was checked by TLC as an invariant of the run of its module
before it was proved.

* `TypeCorrect` in each: the type invariant.  It is split in named parts
  (requests, runs, storage, ...), and each action is shown to keep the parts it
  disturbs.  In `Plugins` it needs to know where each request may stand
  (`Stands`) and that there is a URL for every installation (`Counted`): the bound
  on installations is on the requests and starts still to come.  In
  `Announcements` it needs `Ordered`: a cycle looks at each thing once, and tells
  all it found before it looks at the next.
* `BackupsProofs!RetentionKeepsNewest`: `NewestArchivesKept`, for any number of
  runs, definitions, buckets and retentions, with faults and crashes.  It is
  not inductive: when a deletion happens, the list it comes from is old.
  `IInv` adds that every run on such a list, and every run already rotated, has
  enough newer successes (`TodoRotatable`, `RotatedRotatable`), that a success
  has its archive unless it is rotatable (`SucceededStored`), and what the log
  may say at each phase (`LogFollowsPhase`).  Successes are never unlogged, so
  what was rotatable stays so however late it is acted upon (`StillRotatable`).
* `BackupsProofs!OncePerMinuteHolds`, `OverlapBehindManual`: `OncePerMinute` and
  `ScheduledOverlapBehindManual`.  Neither is inductive, as the cycle decides on
  a definition long after it listed it.  `SchedInv` adds that runs start in the
  order of the clock (`StartsInOrder`), that the cycle has each definition to visit
  once, and none the schedule started since (`VisitsOnce`), that it waits for the
  announcement of the run it launched (`CycleWaits`), and that, with nothing lost, the
  log follows the runs (`Announced`).
* `BackupsProofs!RestoreFinds`: `RestoreMissesOnlyRotated`, which speaks of one
  restoration; `StoredOrRotating` says of every success that it is stored or that a
  retention stands between its deletion and its event, which only the event ends.
* `CronJobsProofs!GuardHolds`: `OneRunPerJob`, from `LastActive` (only the last
  run of a job may be unfinished) and `Held` (the set holds exactly the jobs
  with an unfinished run).
* `CronJobsProofs!OverlapIsAbandoned`: `OverlapOnlyWhenAbandoned`, from these
  and `CommandsTracked`: a command that is neither given up nor of an earlier life
  belongs to a run that still waits for it.  Nothing is assumed of when an output
  ends.
* `CronJobsProofs!MinutesTreatedOnce`: `TreatedOncePerMinute`, from
  `TreatedRemembered`: the last minute treated is at least every minute this life
  fired or skipped, although only one minute per job is remembered.
* `AutomationProofs!EdgesStayWired`: `EdgesWired`, inductive because it also
  speaks of the contents on their way to the cache.  Every step is first shown
  to be a `StoreStep`: a write computed from the cache, a commit, a refused
  write or a crash.
* `AutomationProofs!DeletedStaysDeletedHolds`: `DeletedStaysDeleted`, an action
  property, from `GoneInv` (a content that is not stale brings no deleted node
  back) and `BornInv` (nothing is deleted or written before it is created).
* `AutomationProofs!FiresOnce`: `FiresOncePerFailure`, from `OnceInv`: a trigger that
  fired is known to fail in the store, in every content that counts, and in what the
  cycle read of it (`Settled`), or it is gone for good (`Lost`); what a cycle has yet
  to evaluate is one or the other (`Pending`).
* `ScansProofs!PoolHolds`: `PoolBounded`, from the fact that a scan in progress
  that was not given up is awaited by a worker.
* `ScansProofs!OverlapsAreUnseen`: `OverlapUnseen`, from the fact that a scan a
  cycle read in the log was launched by then, and is over if its pair is due
  (`ReadInv`, `SawInv`), which no later step undoes.
* `ReverseProxyProofs!UniqueHolds`: `SubdomainsUnique`, for any subdomains,
  requests, failures and restarts.  Alone it says nothing of the lists in
  flight; `Intact` adds that each of them is unambiguous together with the route
  it will receive, and `Known` that identifiers are never ahead of the requests,
  so that a new one is new.  `StepKinds` first groups the actions into those that
  touch the routes and those that do not (`Aside`).
* `ReverseProxyProofs!RouteFateHolds`: `RouteFate`, an action property, from
  `Fresh` (the list of a request nobody overtook is the cache, plus or minus its
  own route) and `SavedInv` (after a clean write the file is the cache).
* `ReverseProxyProofs!DnsFollowsHolds`: `DnsFollows`, from `AloneInv`: the only
  request at work holds a list whose names are in the DNS, and when it removes a
  name no list has it any more.
* `SecretsProofs!Refines`: `Secrets` implements `Lineage` (`KeepsLineage`), for any
  secrets, requests, failures and restarts.  `Traced` says that each list served, read or
  in the file was written before, and that each list computed is an edit of one
  of these; a creation is an edit only if its identifier is in no list, which
  is `Fresh`: identifiers of lists are given, and a creation that waits has one
  that no list and no other creation has.  `WriteFile` is then a `Record`, and
  every other step a `Show` or a stutter.
* `SecretsProofs!NamesStayUnique`: from the refinement, no list served or in the
  file has a name twice: each edit preserves it, and a lineage is made of edits.
* `SecretsProofs!VersionsFollow`: from the refinement too.  A rotation adds one to the
  version in the list it was computed from, which may not be the last any more; but
  an edit of a list written before goes up by one at most, so by induction along
  the lineage (`PastWrittenStep`) every version below one that is served, or in
  the file, was written once: none is skipped.
* `SecretsProofs!UsageKeptHolds`: `UsageKept`, from `UInv`.  The usages that are protected
  are in every list a request holds (`Tracked`), no request in flight can untie one
  of them (`Harmless`: what it removes is of a container that is gone), and a request
  that was alone since it resolved a name still finds it (`StillNamed`) and registers
  what it says (`Registers`).
* `ReverseProxyProofs!CertificatesTyped`, `InPlaceKeptHolds`, `CaddyToldHolds`: the
  invariants and the action property of `Certificates`.  They stand with the
  proofs about the routes those certificates are for, as an instance of
  `Certificates` whose constants and variables are any; `Assumed` repeats its two
  ASSUMEs, which an instance does not bring and TLC evaluates in its run.
  Three invariants, each resting on the one before:
    * `JobsInv`: the types, and what a job has when it needs it (`Equipped`): a subject
      when it asks the authority, a serial when it stores, a purpose when it reads.
    * `ListInv`: a job that is not behind read what is in the file, and will publish
      nothing but its own change of the list in use (`Abreast`, `OwnChange`).
      `JobStep` says once what a job becomes and who falls behind (`Outdated`), and
      `OthersAbreast` that the others then keep the invariant.
    * `ToldInv`: what Caddy presents says what the list in use does, unless missed,
      and a configuration on its way that is not behind does for the routes it
      read.  When the cache is filled the list in use stays the same (`ListInUse`).
* `PluginsProofs!RemovalLasts`: `RemovalHolds`, an action property, from `Told`: as long
  as no two writes overlapped, one request at most is in the memory of the removals
  (`OneWriter`), what it will write is what was decided (`WritesIntended`), and
  otherwise the file says what was decided (`FileTells`); and from `StartsAlone`: no
  request is under way while the process starts.
* `PluginsProofs!PausedStay`: `PausedStaysOut`, from what the pass of a graph keeps while
  others write beside it: it is the only pass (`OnePass`), what was on pause when it
  began is on pause or was taken off it (`QuietPaused`), what it imports was not
  (`ImportsUnpaused`), and what it has dealt with is out of the registry or about to be
  (`OutOrRefused`).  Registry and imports are told apart by installation, hence
  `OneOwner`: an installation is that of one module.
* `AnnouncementsProofs!EventsEnterAbove`: `NothingEntersBelow`, an action property, from
  `Solo`: while an event is recorded alone nothing is stamped after it, so that the
  log, and every cursor taken from it, is below; and `Bounded`: what is read was
  stamped, or is a reading of the clock.
* `AnnouncementsProofs!LogAgreesWithFile`: `LogTellsState`.  What counts is a cycle that
  knows of no other.  `Overlap` makes it the only one in flight, for the watchdog by
  its guard (`Guarded`), for the reconciler because a cycle that starts beside
  others marks them.  Of such a cycle, what it found saved was in the log (`Known`),
  what it told is what it will save (`Heard`), and what it saw differ it has told,
  or still has to, or is in doubt (`Owed`).  Its save then makes the file agree
  with the log.
* `CronJobsProofs!SameMinutes`: for every expression the cron jobs accept and
  every moment, the two readers agree if the expression is `Plain`.
  `BackupsFireLess`: where they do not, the backup fires less often, unless "*/S"
  counts days or months.  `AcceptedJobFires`: no accepted text is dead.  The lemmas
  go from a part to a field to an expression; the day of the week has its own, as
  7 exists for one reader only.

Only model-checked: the liveness properties (`RunEnds`, `SlotFreed`,
`FailureFires`, `DueGetsScanned`, `CriticalNotified`, `Converges`, `CaughtUp`, `Covered`,
`Settles`), as the prover handles neither fairness nor ENABLED.  Every invariant and every
safety action property of a passing run is proved.

The proofs also corrected the models.  Two choices of `Plugins` (what an import
answers, where the memory of the removals sends a request) were CASE expressions
whose guards overlap: TLC takes the first that holds, but TLA+ leaves the value
open, and the type invariant could not be proved; both are now explicit.  The
proof of `CaddyTold` found `missed` wrong: a push built before a route was deleted
and loaded after made it false, while Caddy presented the certificate of a route
that was gone (TLC then showed it with two requests); a load now compares the
routes it was built from with those there are.  The
proof of `LogTellsState` never needed the exception the property made for every
cycle that overlaps another: it is gone, what such a cycle saves being already in
`blurred`.

## Where the code and its comments disagree

Each statement of this table is what a comment says, with no exception, and has a
counterexample.  What holds instead is a property of a passing run.

`UpstreamFollows` is the run `reverseproxy_upstream`.  For the others, put the
statement in the place of the properties of the run named with it and make the
change given, if any: invariants are `RunEndsEvenIfDockerFreezes`,
`SlotFreedEvenIfDockerFreezes`, `TransitionFires`, `FailureSparesInPlace`,
`RenewedIsPushed` and `ListingLoadsInstalled` excepted, which are temporal.

| Statement, and what refutes it | Comment | What happens | What holds |
|---|---|---|---|
| `RunEndsEvenIfDockerFreezes` in `backups_runs_end` | `backupScheduler.ts:459-460`: a wait is abandoned after `runTimeoutMs` and the run is "failed" | the inspection of a database's container (480, 313) is outside `withTimeout`: a daemon that freezes there leaves the run "running", and 624 skips the definition | `RunEnds`, from there on |
| `EndsAreLogged` in `backups_runs_end` | `backupScheduler.ts:534`: `performBackup` captures its own errors | `ensureTmpDir` is awaited before the `try` (467): no outcome is logged | `RunEnds`, without faults |
| `SkippedWhileCommandRuns` in `cronjobs` | `cronJobsScheduler.ts:21`: the next cycle is skipped while the previous one still runs | the end of the output (209) frees the job whatever the command does | `OverlapOnlyWhenAbandoned` |
| `SlotFreedEvenIfDockerFreezes` in `cronjobs` | `config.ts:581-582`: nothing holds the slot of a job for ever | the limit covers the race (212) only; four other calls to Docker have none | `SlotFreed` |
| `NeverFiresTwice` in `automation`, with `Cycles = {c1, c2}` | `automationEngine.ts:19-20`: fired on the transition, never again while it lasts | cycles have no guard (284); two that overlap see the same transition | `FiresOncePerFailure`, for cycles that do not overlap |
| `TransitionFires` in `automation` | `automationEngine.ts:22-25`: on a transition, the actions reached are executed | the status is saved first (229); when the second write (234) is refused no cycle sees the transition again | `FailureFires`, refused writes excepted |
| `RunningRuns` in `scans` | `scanScheduler.ts:21`: a restart loses nothing useful | a scan it cut is "running" in the log for ever; `isScanDue` (91) never finds its pair due again | `DueGetsScanned`, about pairs that are due |
| `NeverTwoScans` in `scans`, with `MaxFailures = 0` | `scanScheduler.ts:36-38`: never two scans at once of one image and scanner | decided once for the whole cycle (186), before a user's scan started | `OverlapUnseen` |
| `NeverTwoScans` in `scans`, with `MaxScans = 3` and `MaxManual = 0` | the same | a log that cannot be read (`scan.ts:74-76`) is an empty one | `OverlapUnseen` |
| `NeverMoreThanLimit` in `scans` | `scanScheduler.ts:29`: two scans at most in parallel | a wait that ends before its scan (116) frees the worker | `PoolBounded`, scans given up excepted |
| `UpstreamFollows` | `reverseProxy.ts:22-24`: addresses are read at each push, so that a container that restarts with another never breaks its route | nothing pushes when a container restarts, and the reconciler (87) compares subdomains and listeners only | `Converges`, about subdomains |
| `PurgeSparesTheLiving` in `secrets`, with `Requests = {r1}` | `secretsStore.ts:28-30`: `usedBy` is purged of containers that disappeared otherwise than through QUAI | when Docker does not answer (`docker.ts:737-740`, 772-775) no container is listed and every usage goes; the values are then answered unmasked (`containers.ts:274`) | `UsageKept`, these usages excepted |
| `PurgeSparesTheLiving` in `secrets`, with `MaxFaults = 0` | the same | the containers are listed (`routes/secrets.ts:73`) before the purge (75): one created in between loses its usage | `UsageKept`, for usages recorded by a request that was alone |
| `InjectedTracked` in `secrets` | `containers.ts:262-274`: a value injected is never answered, which `usedBy` tells | a container created that fails to start (`docker.ts:344`) has the value and no usage | the same |
| `VisibleMarkedRead` in `announcements`, with `MaxIncidents = 2` | `notificationsStore.ts:12-14`: the button marks what is visible as read | the cursor goes to the newest line of the file (120-121), given to the client or not | `NothingEntersBelow`, about what enters later |
| `SaidOnce` in `announcements`, with `MaxIncidents = 0` | `gitopsReconciler.ts:12-13`: an event for a real change only | cycles have no guard (131); two that overlap announce the same change | `LogTellsState` |
| `SaidOnce` in `announcements`, with `Cycles = {c1}` | `watchdog.ts:11-13`, `gitopsReconciler.ts:12-14`: and a restart repeats none | events go first, the state after (198) | `LogTellsState` |
| `FailureSparesInPlace` in `certificates` | `certificates.ts:760`: a failure is recorded without touching the certificate in place | the whole list is written as it was read (763-771): a certificate stored in between is undone | `InPlaceKept`, stale lists excepted |
| `RenewedIsPushed` in `certificates`, with `MaxIncidents = 2` | `certificatesReconciler.ts:152-153`: the configuration is published for Caddy to serve what was renewed | the record of a failure may throw (145) and end the cycle before its push | `Covered`, lost pushes excepted |
| `RemovedLeaves` in `plugins` | `routes/plugins.ts:266-267`: the module leaves, nothing calls it any more | a pass that read the directory before (`loader.ts:136`) registers it after 283, and no later pass takes it out | `Settles`, `stale` excepted |
| `ListingLoadsInstalled` in `plugins`, with `MaxArrivals = 3` | `loader.ts:109-111`: read again at each pass; what is no longer valid is taken out | `GET /api/plugins` (202-204) loads what it read outside the passes (`loader.ts:189`) | `Settles`, `stale` excepted |
| `RemovalsKept` in `plugins`, with `Modules = {o1, o2}` and `Origins = {o1, o2}` | `origin.ts:206-207`: the trace keeps a removal from being undone by the next start | of two removals that overlap, the second write (212-214) forgets the first | `RemovalHolds`, overlaps excepted |

Others are consequences of the modules, told here without a run; where a property
states the exact exception it is named.

| Comment | What happens | What holds |
|---|---|---|
| `backupsStore.ts:20-21`: a run is marked rotated once its object is really deleted | after the destination is edited, retention deletes the key in the new bucket; S3 accepts the deletion of a missing key; the archive stays in the old one | `NewestArchivesKept` |
| `backupScheduler.ts:8-12`: a real cron scheduler, with standard cron semantics | "N/S" is N alone; "*/2" is the even days and months, not 1, 3, 5...; two restricted fields for the day must both match; a value out of range is accepted and never fires.  The cron jobs beside it follow Vixie cron | `SameMinutes`, `BackupsFireLess` |
| `secretsStore.ts:20-22`: names are unique | they are, but by the check against a list that may be stale: of two requests that overlap one undoes the other, a rotation by the record of a usage for instance, and a deleted secret may come back | `KeepsLineage` |
| `notificationsStore.ts:15-20`: stamps grow, so no event is missed | two events recorded together may be appended in the other order, and the cursor may be moved between the two | `NothingEntersBelow` |
| `certificates.ts:774-775`: the list is published as a whole | a removal does not push; a failed push (155) is not tried again until something is renewed; a certificate forgotten during its renewal comes back (739), and an older issuance may replace a newer one; a push that reads the list before and arrives after takes the new certificate out of Caddy | `InPlaceKept`, `CaddyTold` |
| `installed.ts:296`: written atomically | the former directory is removed before the rename: a crash or a refusal in between leaves no version | `Settles`, about the code in service |
| `routes/plugins.ts:252`: a module that does not load is removed, nothing was installed | when it replaced a former version, that one is gone as well | the same |
| `origin.ts:12-13`: what was removed is never installed again | a crash in the write of `.quai-origin.json`, or a read of it that fails, forgets them all; a crash between the removal and its memory forgets that one | `RemovalHolds` |

Three more, without a property: deleting a secret drops its usages while the values
stay in the containers; the un-awaited append of "running" may reach the
history of cron jobs after the outcome of the same run, which then shows as
running for ever (`cronJobsScheduler.ts:307`); an archive whose rotation is not
logged stays in the history without its object (`backupScheduler.ts:446`).

The hazards of `PROJECT.json` that no property catches are those the code has: the
note of each names the property that excepts it and the statement that is refuted.
One more has neither: the store left blank by a write that a stop cuts
(`secureFile.ts:41`), which the code accepts.

## Not modelled

* `Plug-in packages`, `Setup`, `Sessions`: formats, cryptography, one request at a
  time; no state that two actors share but files written as in `Secrets`.
* The other JSON stores: the pattern of `Secrets`, without usages.  `Lineage` says
  what each may promise; a module for each would be the same module.
* `Infrastructure as code`: its index of runs is read, changed and written by runs
  that overlap, as the files of `Automation` and `ReverseProxy` are.
* `GitHub`, Docker, Kubernetes and LXC access, integrations, templates: one
  request each, remote calls and text; the modules see such a call as one that
  succeeds, fails or never answers.
* `Topology and metrics`: built anew for each reader, or bounded samples.
* `apps/web` and `packages/*`: screens and pure functions; the polling client of
  the notifications is the one piece in `Announcements`.

Inside the modelled components: the channels of notifications, the settings of
the authority, the contents of plug-in configurations and the time limits of
`guard.ts`, the differences GitOps computes.  The map covers a small share of
the repository for that reason: most of its lines are screens, clients of remote
APIs and types.

## Plan

Done: the five components whose failures an operator would feel first
(archives, commands, actions, scans, routes), with proofs; then the store
pattern with its abstract specification and the refinement proof, the watchers
and their log, certificates, the life of plug-ins, and cron expressions.

Next:

1. The composition of `Certificates` with the routes of `ReverseProxy`, whose
   creations and deletions are single steps there.
2. The pool of SSH sessions of `services/sshTunnel.ts`: a session opened by a
   client built before its environment was changed, an older session whose
   failure takes a newer one out of the pool, and the sweep of idle sessions.

Runs are kept few, and each asks a question of its own.
