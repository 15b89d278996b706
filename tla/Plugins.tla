------------------------------- MODULE Plugins -------------------------------
(***************************************************************************)
(* The life of the plug-in modules: the packages on the disk               *)
(* (plugins/installed.ts), those the image ships and the memory of their   *)
(* removal (plugins/origin.ts), the passes that load and unload their code *)
(* (plugins/loader.ts, registry.ts), and the requests of                   *)
(* routes/plugins.ts that an administrator sends.                          *)
(*                                                                         *)
(* A pass reads the directories, then imports what it read; passes come    *)
(* one at a time, but the requests write the directories and unregister    *)
(* modules beside them, and the listing of the modules brings to its turns *)
(* what it read before them.                                               *)
(*                                                                         *)
(* Abstracted: signatures (a directory holds a verified package, or it is  *)
(* incomplete and refused), configurations (only the pause is kept, its    *)
(* file being written at once), the staging directory nobody reads.        *)
(***************************************************************************)
EXTENDS Naturals, FiniteSets

CONSTANTS
  Modules,         \* identifiers of modules
  Origins,         \* those the image ships, which nobody else may install
  Requests,        \* requests in flight together, beside the graph
  Nobody,          \* no pass is going
  Gone, Partial,   \* a directory that is absent, or incomplete
  Torn,            \* the file of the removals truncated
  MaxArrivals,     \* bound: requests received
  MaxIncidents     \* bound: failures of the disk and restarts

VARIABLES
  disk,            \* the directory of each module: an installation, Gone or Partial
  installs,        \* installations begun so far: 1 .. installs
  bad,             \* those whose code does not load
  loaded,          \* the code Node holds under the URL of each, 0 none
  registry,        \* the installation whose code is registered, 0 none
  paused,          \* modules put on pause
  removed,         \* the file of the removals, or Torn
  job,             \* the requests, and the graph (at first, the start)
  pass,            \* the job whose pass is going
  dropped,         \* history: removals written, not restored since
  blurred,         \* history: two writes of that file overlapped, or one was cut
  stale,           \* history: modules whose registration lost sight of the disk
  arrivals, incidents

packages == <<disk, installs, bad>>
memory == <<loaded, registry>>
removals == <<removed, dropped, blurred>>
bounds == <<arrivals, incidents>>
vars == <<packages, memory, paused, removals, job, pass, stale, bounds>>

Jobs == Requests \cup {"graph"}

ASSUME ModulesAssumption ==
  Modules # {} /\ Origins \subseteq Modules /\ IsFiniteSet(Origins)

ASSUME BoundsAssumption == MaxArrivals \in Nat /\ MaxIncidents \in Nat

ASSUME Distinct ==
  /\ Gone \notin Nat /\ Partial \notin Nat /\ Gone # Partial
  /\ \A S \in SUBSET Origins : Torn # S
  /\ "graph" \notin Requests /\ Nobody \notin Jobs

Unread == [m \in Modules |-> 0]

Idle == [pc |-> "idle", kind |-> "none", mod |-> CHOOSE m \in Modules : TRUE, serial |-> 0,
         task |-> "none", todo |-> {}, entries |-> Unread, refused |-> {}, seen |-> {},
         at |-> 0, failed |-> FALSE, next |-> {}, quiet |-> {}]

Is(m) == disk[m] \notin {Gone, Partial}

\* readOriginState: a file that does not parse holds nothing.  Neither does one
\* that cannot be read: see BootUnread and StateUnread.
Remembered == IF removed = Torn THEN {} ELSE removed

Goes(j, q) == job' = [job EXCEPT ![j] = q]

Incident ==
  /\ incidents < MaxIncidents
  /\ incidents' = incidents + 1
  /\ UNCHANGED arrivals

\* serialize: q waits for its turn.
Queued(q, task, scope) ==
  [q EXCEPT !.pc = "queued", !.task = task, !.todo = scope, !.entries = Unread,
            !.refused = {}, !.seen = {}, !.failed = FALSE]

-----------------------------------------------------------------------------
(* The start of the process, before it listens.                            *)

Starting == [Idle EXCEPT !.pc = "boot", !.kind = "start", !.todo = Origins]

\* Mistaken variant: the memory of the removals is not consulted.
BootstrapAnyway(m) ==
  /\ job["graph"].pc = "boot"
  /\ m \in job["graph"].todo
  /\ Goes("graph", [job["graph"] EXCEPT !.todo = @ \ {m}])
  /\ IF Is(m)
     THEN UNCHANGED packages
     ELSE /\ installs' = installs + 1
          /\ disk' = [disk EXCEPT ![m] = installs']
          /\ UNCHANGED bad
  /\ UNCHANGED <<memory, paused, removals, pass, stale, bounds>>

\* bootstrapOriginPlugins: what was removed on purpose stays so; what is not
\* there, or damaged, is installed from the image.
Bootstrap(m) ==
  /\ job["graph"].pc = "boot"
  /\ m \in job["graph"].todo
  /\ Goes("graph", [job["graph"] EXCEPT !.todo = @ \ {m}])
  /\ IF (m \in Remembered /\ ~job["graph"].failed) \/ Is(m)
     THEN UNCHANGED packages
     ELSE /\ installs' = installs + 1
          /\ disk' = [disk EXCEPT ![m] = installs']
          /\ UNCHANGED bad
  /\ UNCHANGED <<memory, paused, removals, pass, stale, bounds>>

\* The file of the removals, which the start reads once, cannot be read: no
\* removal is known.
BootUnread ==
  /\ job["graph"].pc = "boot"
  /\ job["graph"].todo = Origins
  /\ Incident
  /\ Goes("graph", [job["graph"] EXCEPT !.failed = TRUE])
  /\ blurred' = TRUE
  /\ UNCHANGED <<packages, memory, paused, removed, dropped, pass, stale>>

\* A package that cannot be written is reported, and the start goes on.
BootstrapFails(m) ==
  /\ job["graph"].pc = "boot"
  /\ m \in job["graph"].todo
  /\ m \notin Remembered \/ job["graph"].failed
  /\ ~Is(m)
  /\ Incident
  /\ Goes("graph", [job["graph"] EXCEPT !.todo = @ \ {m}])
  /\ disk' = [disk EXCEPT ![m] = Gone]
  /\ UNCHANGED <<installs, bad, memory, paused, removals, pass, stale>>

Booted ==
  /\ job["graph"].pc = "boot"
  /\ job["graph"].todo = {}
  /\ Goes("graph", Queued(job["graph"], "sync", Modules))
  /\ UNCHANGED <<packages, memory, paused, removals, pass, stale, bounds>>

\* collectPluginGraphParts: every reading of the graph begins with a pass.
Graph ==
  /\ job["graph"].pc = "idle"
  /\ Goes("graph", Queued([Idle EXCEPT !.kind = "graph"], "sync", Modules))
  /\ UNCHANGED <<packages, memory, paused, removals, pass, stale, bounds>>

-----------------------------------------------------------------------------
(* Requests, once the server listens.                                      *)

Arrive(r, q) ==
  /\ job["graph"].kind # "start"
  /\ job[r].pc = "idle"
  /\ arrivals < MaxArrivals
  /\ arrivals' = arrivals + 1
  /\ Goes(r, q)
  /\ UNCHANGED <<disk, memory, paused, removals, pass, stale, incidents>>

\* POST /api/plugins/installed: a package that is verified may still not load.
Install(r, m) ==
  /\ m \notin Origins
  /\ installs' = installs + 1
  /\ bad' \in {bad, bad \cup {installs'}}
  /\ Arrive(r, [Idle EXCEPT !.pc = "clear", !.kind = "install", !.mod = m, !.serial = installs'])

\* POST /api/plugins/installed/:id/restore.
Restore(r, m) ==
  /\ m \in Origins
  /\ installs' = installs + 1
  /\ Arrive(r, [Idle EXCEPT !.pc = "clear", !.kind = "restore", !.mod = m, !.serial = installs'])
  /\ UNCHANGED bad

\* DELETE /api/plugins/installed/:id; PUT /api/plugins/:id/enabled;
\* DELETE /api/plugins/:id/config; and those that only look the module up.
Ask(r, m, kind) ==
  /\ kind \in {"uninstall", "enable", "disable", "clear", "consult"}
  /\ Arrive(r, [Idle EXCEPT !.pc = "resolve", !.kind = kind, !.mod = m])
  /\ UNCHANGED <<installs, bad>>

\* GET /api/plugins: what is registered is known from here.
List(r) ==
  /\ Arrive(r, [Idle EXCEPT !.pc = "list", !.kind = "list", !.task = "list",
                            !.todo = {m \in Modules : registry[m] = 0}])
  /\ UNCHANGED <<installs, bad>>

\* The listing waits for its next turn, as long as it has something to load.
Listed(q) == IF q.entries = Unread THEN Idle ELSE [q EXCEPT !.pc = "queued"]

\* readPluginCatalog, beside the passes: the directories are listed, then read
\* one after the other; what is refused is left out.
Browsing(q) == IF q.todo = {} THEN Listed(q) ELSE [q EXCEPT !.pc = "browse"]

ListDirs(j) ==
  /\ job[j].pc = "list"
  /\ Goes(j, Browsing([job[j] EXCEPT !.todo = {m \in @ : disk[m] # Gone}]))
  /\ UNCHANGED <<packages, memory, paused, removals, pass, stale, bounds>>

Browse(j, m) ==
  LET q == [job[j] EXCEPT !.todo = @ \ {m}] IN
  /\ job[j].pc = "browse"
  /\ m \in job[j].todo
  /\ Goes(j, Browsing(IF Is(m) THEN [q EXCEPT !.entries[m] = disk[m]] ELSE q))
  /\ UNCHANGED <<packages, memory, paused, removals, pass, stale, bounds>>

\* resolvePlugin: a module that is not registered is loaded for the occasion.
Resolve(j) ==
  LET q == job[j] IN
  /\ q.pc = "resolve"
  /\ Goes(j, IF registry[q.mod] # 0 THEN [q EXCEPT !.pc = "act"]
             ELSE Queued(q, "admin", {q.mod}))
  /\ UNCHANGED <<packages, memory, paused, removals, pass, stale, bounds>>

\* The others forget that the module was on pause.
Unpaused(m) == [j \in Jobs |-> [job[j] EXCEPT !.quiet = @ \ {m}]]

Act(j) ==
  LET q == job[j] IN
  /\ q.pc = "act"
  /\ CASE q.kind = "uninstall" ->
            /\ Goes(j, IF disk[q.mod] = Gone THEN Idle ELSE [q EXCEPT !.pc = "clear"])
            /\ UNCHANGED paused
       [] q.kind = "enable" ->
            /\ paused' = paused \ {q.mod}
            /\ job' = [Unpaused(q.mod) EXCEPT ![j] = Queued(q, "sync", {q.mod})]
       [] q.kind = "disable" ->
            /\ paused' = paused \cup {q.mod}
            /\ Goes(j, Queued(q, "sync", {q.mod}))
       [] q.kind = "clear" ->
            /\ paused' = paused \ {q.mod}
            /\ job' = [Unpaused(q.mod) EXCEPT
                         ![j] = IF q.mod \in paused THEN [q EXCEPT !.pc = "repause"] ELSE Idle]
       [] q.kind = "consult" -> Goes(j, Idle) /\ UNCHANGED paused
  /\ UNCHANGED <<packages, memory, removals, pass, stale, bounds>>

\* The pause outlives the configuration that carried it.
Repause(j) ==
  /\ job[j].pc = "repause"
  /\ paused' = paused \cup {job[j].mod}
  /\ Goes(j, Idle)
  /\ UNCHANGED <<packages, memory, removals, pass, stale, bounds>>

-----------------------------------------------------------------------------
(* A pass of the loader.                                                   *)

\* loadPluginForAdmin first looks whether somebody registered the module.  The
\* others list the directories.
StartPass(j) ==
  LET q == job[j] IN
  /\ q.pc = "queued" /\ q.task # "list"
  /\ pass = Nobody
  /\ IF q.task = "admin" /\ registry[q.mod] # 0
     THEN Goes(j, [q EXCEPT !.pc = "act", !.todo = {}]) /\ UNCHANGED pass
     ELSE /\ Goes(j, [q EXCEPT !.pc = "scan", !.quiet = paused,
                               !.todo = {m \in @ : disk[m] # Gone}])
          /\ pass' = j
  /\ UNCHANGED <<packages, memory, paused, removals, stale, bounds>>

\* loadPluginForAdmin with the entries of the listing: one module for each turn,
\* and nothing is read of the directories again.
StartListed(j, m) ==
  LET q == job[j] IN
  /\ q.pc = "queued" /\ q.task = "list"
  /\ q.entries[m] # 0
  /\ pass = Nobody
  /\ IF registry[m] # 0
     THEN Goes(j, Listed([q EXCEPT !.entries[m] = 0])) /\ UNCHANGED pass
     ELSE Goes(j, [q EXCEPT !.pc = "load", !.at = q.entries[m]]) /\ pass' = j
  /\ UNCHANGED <<packages, memory, paused, removals, stale, bounds>>

\* scanInstalled reads them one after the other, whatever became of each.
Scan(j, m) ==
  LET q == [job[j] EXCEPT !.todo = @ \ {m}] IN
  /\ job[j].pc = "scan"
  /\ m \in job[j].todo
  /\ Goes(j, IF Is(m) THEN [q EXCEPT !.entries[m] = disk[m], !.seen = @ \cup {m}]
             ELSE [q EXCEPT !.refused = @ \cup {m}, !.seen = @ \cup {m}])
  /\ UNCHANGED <<packages, memory, paused, removals, pass, stale, bounds>>

\* Mistaken variant: what is refused is only reported.
SiftReported(j) ==
  LET q == job[j] IN
  /\ q.pc = "scan"
  /\ q.todo = {}
  /\ Goes(j, [q EXCEPT !.pc = "load", !.failed = q.mod \in q.refused, !.refused = {}])
  /\ UNCHANGED <<packages, memory, paused, removals, pass, stale, bounds>>

\* resolveEntries: what is refused leaves the registry.
Sift(j) ==
  LET q == job[j] IN
  /\ q.pc = "scan"
  /\ q.todo = {}
  /\ registry' = [m \in Modules |->
                    IF q.task = "sync" /\ m \in q.refused THEN 0 ELSE registry[m]]
  /\ Goes(j, [q EXCEPT !.pc = "load", !.failed = q.mod \in q.refused, !.refused = {}])
  /\ UNCHANGED <<packages, loaded, paused, removals, pass, stale, bounds>>

\* Mistaken variant: what is registered is left alone before the pause is read.
LoadRegisteredFirst(j, m) ==
  LET q == job[j] done == [q EXCEPT !.entries[m] = 0] IN
  /\ q.pc = "load" /\ q.at = 0 /\ q.task # "list"
  /\ q.entries[m] # 0
  /\ IF registry[m] # 0
     THEN Goes(j, done) /\ UNCHANGED registry
     ELSE IF q.task = "sync" /\ m \in paused
          THEN Goes(j, done) /\ registry' = [registry EXCEPT ![m] = 0]
          ELSE Goes(j, [q EXCEPT !.at = q.entries[m]]) /\ UNCHANGED registry
  /\ UNCHANGED <<packages, loaded, paused, removals, pass, stale, bounds>>

\* loadEntry, up to the import.
Load(j, m) ==
  LET q == job[j] done == [q EXCEPT !.entries[m] = 0] IN
  /\ q.pc = "load" /\ q.at = 0 /\ q.task # "list"
  /\ q.entries[m] # 0
  /\ IF q.task = "sync" /\ m \in paused
     THEN Goes(j, done) /\ registry' = [registry EXCEPT ![m] = 0]
     ELSE IF registry[m] # 0
          THEN Goes(j, done) /\ UNCHANGED registry
          ELSE Goes(j, [q EXCEPT !.at = q.entries[m]]) /\ UNCHANGED registry
  /\ UNCHANGED <<packages, loaded, paused, removals, pass, stale, bounds>>

\* registerPlugin: the contract refuses what is absent or malformed.
LoadsAnything(code) == code # 0   \* mistaken variant: nothing is validated
Loads(code) == code \notin bad \cup {0}

\* import(), then registerPlugin.  Node reads the directory once for each URL,
\* which the installation that was read names.
Import(j, m) ==
  LET q == job[j]
      code == IF loaded[q.at] # 0 THEN loaded[q.at] ELSE IF Is(m) THEN disk[m] ELSE 0
      done == [q EXCEPT !.entries[m] = 0, !.at = 0] IN
  /\ q.at # 0
  /\ q.entries[m] = q.at
  /\ loaded' = [loaded EXCEPT ![q.at] = code]
  /\ IF Loads(code)
     THEN registry' = [registry EXCEPT ![m] = code] /\ Goes(j, done)
     ELSE Goes(j, [done EXCEPT !.failed = q.failed \/ m = q.mod]) /\ UNCHANGED registry
  /\ UNCHANGED <<packages, paused, removals, pass, stale, bounds>>

\* What follows the pass of q: an installation that did not load is undone.
AfterPass(q) ==
  CASE q.task = "admin" ->
         IF registry[q.mod] = 0 /\ q.kind # "uninstall" THEN Idle ELSE [q EXCEPT !.pc = "act"]
    [] q.task = "sync" /\ q.kind = "install" /\ q.failed ->
         [q EXCEPT !.pc = "clear", !.kind = "purge"]
    [] q.task = "list" -> Listed(q)
    [] OTHER -> Idle

EndPass(j) ==
  /\ job[j].pc = "load" /\ job[j].at = 0
  /\ job[j].entries = Unread \/ job[j].task = "list"
  /\ pass' = Nobody
  /\ Goes(j, AfterPass([job[j] EXCEPT !.seen = {}, !.quiet = {}]))
  /\ UNCHANGED <<packages, memory, paused, removals, stale, bounds>>

-----------------------------------------------------------------------------
(* writeInstalledPackage and uninstallPlugin: the directory is emptied,    *)
(* then the new one is renamed into its place.                             *)

Clear(j) ==
  LET q == job[j] IN
  /\ q.pc = "clear"
  /\ disk' = [disk EXCEPT ![q.mod] = IF @ = Gone THEN Gone ELSE Partial]
  /\ Goes(j, [q EXCEPT !.pc = "rm"])
  /\ UNCHANGED <<installs, bad, memory, paused, removals, pass, stale, bounds>>

\* The pass that is going, or a listing, read m before and will register it.
Held(m) == \E j \in Jobs : /\ j = pass \/ job[j].task = "list"
                           /\ job[j].entries[m] \notin {0, disk'[m]}

\* m is left with a registration that the disk no longer answers for.
Strays(m) ==
  stale' = IF registry'[m] # 0 \/ Held(m) THEN stale \cup {m} ELSE stale \ {m}

Rm(j) ==
  LET q == job[j] IN
  /\ q.pc = "rm"
  /\ disk' = [disk EXCEPT ![q.mod] = Gone]
  /\ Goes(j, CASE q.kind = "purge" -> Idle
               [] q.kind = "uninstall" -> [q EXCEPT !.pc = "leave"]
               [] OTHER -> [q EXCEPT !.pc = "rename"])
  /\ UNCHANGED <<installs, bad, memory, paused, removals, pass, bounds>>
  /\ IF q.kind = "purge" THEN Strays(q.mod) ELSE UNCHANGED stale

Rename(j) ==
  LET q == job[j] IN
  /\ q.pc = "rename"
  /\ disk[q.mod] = Gone
  /\ disk' = [disk EXCEPT ![q.mod] = q.serial]
  /\ Goes(j, [q EXCEPT !.pc = IF q.kind = "restore" THEN "state" ELSE "leave"])
  /\ UNCHANGED <<installs, bad, memory, paused, removals, pass, stale, bounds>>

\* Somebody else put a directory there, or the disk refuses: error 500.
RenameFails(j) ==
  LET q == job[j] IN
  /\ q.pc = "rename"
  /\ IF disk[q.mod] = Gone THEN Incident ELSE UNCHANGED bounds
  /\ Goes(j, Idle)
  /\ UNCHANGED <<packages, memory, paused, removals, pass>>
  /\ Strays(q.mod)

RmFails(j) ==
  /\ job[j].pc = "rm"
  /\ Incident
  /\ Goes(j, Idle)
  /\ UNCHANGED <<packages, memory, paused, removals, pass, stale>>

\* unregisterPlugin, then the refresh, or the rest of the removal.
Leave(j) ==
  LET q == job[j] IN
  /\ q.pc = "leave"
  /\ registry' = [registry EXCEPT ![q.mod] = 0]
  /\ Goes(j, IF q.kind # "uninstall" THEN Queued(q, "sync", {q.mod})
             ELSE [q EXCEPT !.pc = IF q.mod \in Origins THEN "state" ELSE "config"])
  /\ UNCHANGED <<packages, loaded, paused, removals, pass, bounds>>
  /\ Strays(q.mod)

-----------------------------------------------------------------------------
(* .quai-origin.json: rememberOriginRemoval and forgetOriginRemoval.       *)

InWrite(j) == job[j].pc \in {"open", "write"}

\* rememberOriginRemoval and forgetOriginRemoval begin with a reading.
ReadState(j) ==
  LET q == job[j] now == Remembered IN
  /\ q.pc = "state"
  /\ blurred' = (blurred \/ \E k \in Jobs \ {j} : InWrite(k))
  /\ Goes(j, IF q.kind = "uninstall" THEN [q EXCEPT !.pc = "open", !.next = now \cup {q.mod}]
             ELSE IF q.mod \in now THEN [q EXCEPT !.pc = "open", !.next = now \ {q.mod}]
             ELSE [q EXCEPT !.pc = "leave"])
  /\ UNCHANGED <<packages, memory, paused, removed, dropped, pass, stale, bounds>>

\* The file cannot be read: what it held is forgotten.
StateUnread(j) ==
  LET q == job[j] IN
  /\ q.pc = "state"
  /\ Incident
  /\ blurred' = TRUE
  /\ Goes(j, IF q.kind = "uninstall" THEN [q EXCEPT !.pc = "open", !.next = {q.mod}]
             ELSE [q EXCEPT !.pc = "leave"])
  /\ UNCHANGED <<packages, memory, paused, removed, dropped, pass, stale>>

OpenState(j) ==
  /\ job[j].pc = "open"
  /\ removed' = Torn
  /\ Goes(j, [job[j] EXCEPT !.pc = "write"])
  /\ UNCHANGED <<packages, memory, paused, dropped, blurred, pass, stale, bounds>>

WriteState(j) ==
  LET q == job[j] IN
  /\ q.pc = "write"
  /\ removed' = q.next
  /\ dropped' = IF q.kind = "uninstall" THEN dropped \cup {q.mod} ELSE dropped \ {q.mod}
  /\ Goes(j, [q EXCEPT !.pc = IF q.kind = "uninstall" THEN "config" ELSE "leave", !.next = {}])
  /\ UNCHANGED <<packages, memory, paused, blurred, pass, stale, bounds>>

\* A removal is then neither remembered nor followed by its configuration;
\* a restored module is neither unregistered nor loaded.
StateFails(j) ==
  /\ InWrite(j)
  /\ Incident
  /\ blurred' = (blurred \/ job[j].pc = "write")
  /\ Goes(j, Idle)
  /\ UNCHANGED <<packages, memory, paused, removed, dropped, pass>>
  /\ Strays(job[j].mod)

\* configStoreOf(plugin).remove(): the pause goes with the configuration.
ClearConfig(j) ==
  LET m == job[j].mod IN
  /\ job[j].pc = "config"
  /\ paused' = paused \ {m}
  /\ job' = [Unpaused(m) EXCEPT ![j] = Idle]
  /\ UNCHANGED <<packages, memory, removals, pass, stale, bounds>>

Restart ==
  /\ Incident
  /\ loaded' = [n \in DOMAIN loaded |-> 0]
  /\ registry' = Unread
  /\ job' = [j \in Jobs |-> IF j = "graph" THEN Starting ELSE Idle]
  /\ pass' = Nobody
  /\ blurred' = (blurred \/ \E j \in Jobs : job[j].pc = "write")
  /\ stale' = {}
  /\ UNCHANGED <<packages, paused, removed, dropped>>

-----------------------------------------------------------------------------

\* The volume has no module: the first start of the image, or one after a removal
\* that a crash cut before it was remembered, which leaves the pause.  The crash
\* is one of the incidents.
Init ==
  /\ disk = [m \in Modules |-> Gone]
  /\ installs = 0
  /\ bad = {}
  /\ loaded = [n \in 1 .. Cardinality(Origins) * (MaxIncidents + 1) + MaxArrivals |-> 0]
  /\ registry = Unread
  /\ paused \in SUBSET Origins
  /\ removed = {}
  /\ job = [j \in Jobs |-> IF j = "graph" THEN Starting ELSE Idle]
  /\ pass = Nobody
  /\ dropped = {}
  /\ blurred = FALSE
  /\ stale = {}
  /\ arrivals = 0
  /\ incidents = IF paused = {} THEN 0 ELSE 1
  /\ incidents <= MaxIncidents

Admin ==
  \E r \in Requests :
    \/ List(r)
    \/ \E m \in Modules :
         \/ Install(r, m) \/ Restore(r, m)
         \/ \E kind \in {"uninstall", "enable", "disable", "clear", "consult"} : Ask(r, m, kind)

ListStep(j) ==
  \/ ListDirs(j)
  \/ \E m \in Modules : Browse(j, m) \/ StartListed(j, m)

PassStep(j) ==
  \/ StartPass(j) \/ Sift(j) \/ EndPass(j)
  \/ \E m \in Modules : Scan(j, m) \/ Load(j, m) \/ Import(j, m)

DiskStep(j) ==
  \/ Clear(j) \/ Rm(j) \/ Rename(j) \/ Leave(j)
  \/ ReadState(j) \/ OpenState(j) \/ WriteState(j)

Step(j) ==
  \/ Resolve(j) \/ Act(j) \/ Repause(j) \/ ClearConfig(j)
  \/ ListStep(j)
  \/ PassStep(j)
  \/ DiskStep(j)

Fault(j) == RmFails(j) \/ RenameFails(j) \/ StateUnread(j) \/ StateFails(j)

Next ==
  \/ \E m \in Origins : Bootstrap(m) \/ BootstrapFails(m)
  \/ BootUnread
  \/ Booted
  \/ Graph
  \/ Admin
  \/ \E j \in Jobs : Step(j) \/ Fault(j)
  \/ Restart

\* The graph is read at each cycle of the automation and by every open screen;
\* what a pass awaits, files and imports, ends.
Fairness ==
  /\ WF_vars(Booted) /\ WF_vars(Graph)
  /\ \A m \in Origins : WF_vars(Bootstrap(m))
  /\ \A j \in Jobs : WF_vars(Step(j) \/ RenameFails(j))

Spec == Init /\ [][Next]_vars /\ Fairness
-----------------------------------------------------------------------------
(* Properties.                                                             *)

Serials == 1 .. installs

Steps == {"idle", "boot", "list", "browse", "resolve", "act", "repause", "queued", "scan", "load",
          "clear", "rm", "rename", "leave", "state", "open", "write", "config"}

Kinds == {"none", "start", "graph", "list", "install", "restore", "purge", "uninstall", "enable",
          "disable", "clear", "consult"}

Records ==
  [pc : Steps, kind : Kinds, mod : Modules, serial : Nat, task : {"none", "list", "sync", "admin"},
   todo : SUBSET Modules, entries : [Modules -> Nat], refused : SUBSET Modules,
   seen : SUBSET Modules, at : Nat, failed : BOOLEAN, next : SUBSET Origins,
   quiet : SUBSET Modules]

JobsTyped == job \in [Jobs -> Records]

DataTyped ==
  /\ disk \in [Modules -> Serials \cup {Gone, Partial}]
  /\ bad \subseteq Serials
  /\ loaded \in [DOMAIN loaded -> Serials \cup {0}]
  /\ registry \in [Modules -> (Serials \ bad) \cup {0}]
  /\ paused \subseteq Modules
  /\ removed = Torn \/ removed \subseteq Origins
  /\ pass \in Jobs \cup {Nobody}
  /\ dropped \subseteq Origins /\ blurred \in BOOLEAN /\ stale \subseteq Modules

\* Every variable has its type, and the code that is registered loads.
TypeOK == DataTyped /\ JobsTyped

\* origin.ts:12-13: the start never installs again a module of the image that
\* an administrator removed, unless two removals or restorations wrote the
\* file together, a crash or an error cut one of these writes, or the file once
\* could not be read.  It speaks of the removals that reached the file: one that
\* a crash or a refused write stopped before is done again by the next start.
RemovalHolds ==
  [][job["graph"].pc = "boot" =>
       \A m \in dropped : disk'[m] = disk[m] \/ blurred]_vars

\* loader.ts:182-184: what a graph collects never holds a module that was on
\* pause since before its pass, whoever loads modules for the administration
\* meanwhile, as long as the pass finds its directory.
PausedStaysOut ==
  [][\A j \in Jobs :
       /\ job[j].pc = "load" /\ job[j].kind = "graph" /\ job'[j].pc = "idle"
       /\ pass' # pass
       => \A m \in job[j].quiet \cap job[j].seen : registry[m] = 0]_vars

\* loader.ts:13-16, and routes/plugins.ts: once requests and incidents leave
\* it alone, the code in service is that of the directories, modules on pause
\* excepted.  A registration may stray in three ways, until the next start: a
\* pass read the directory before the request unregistered the module; a listing
\* did, and loads in a later turn what it read (routes/plugins.ts:202-204); or
\* the directory went (a rename or a write refused, an installation undone) and
\* nobody unregistered.
Settles ==
  <>[](\A m \in Modules \ stale :
         registry[m] = IF Is(m) /\ disk[m] \notin bad /\ m \notin paused THEN disk[m] ELSE 0)

\* routes/plugins.ts:266-267: a module that is uninstalled leaves the registry.
\* The code does not keep it: a pass that read its directory before registers it
\* after, and no later pass knows of it.
RemovedLeaves ==
  (\A r \in Requests : job[r].pc = "idle") =>
    \A m \in Modules : disk[m] = Gone => registry[m] = 0

\* loader.ts:109-111: what a pass may load was read of the disk by that pass.
\* The code does not keep it: a turn of the listing registers a module whose
\* directory was removed, or is being replaced, since the listing read it.
ListingLoadsInstalled ==
  [][pass # Nobody /\ job[pass].task = "list" =>
       \A m \in Modules : registry'[m] \notin {0, registry[m]} => disk[m] # Gone]_vars

\* origin.ts:206-209: an uninstallation that was written down is known to the
\* next start.  The code does not keep it: two requests read, change and write
\* the whole file.
RemovalsKept ==
  (\A j \in Jobs : ~InWrite(j)) => dropped \subseteq Remembered
=============================================================================
