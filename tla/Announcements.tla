--------------------------- MODULE Announcements ---------------------------
(***************************************************************************)
(* The watchers that tell users what changes by itself (watchdog.ts,       *)
(* gitopsReconciler.ts), the log of events they write                      *)
(* (notificationsStore.ts), and a web client that polls it                 *)
(* (notificationsSlice.ts, routes/notifications.ts).                       *)
(*                                                                         *)
(* A cycle of a watcher loads what the last one saved, looks at the world, *)
(* records one event for each difference, and saves what it saw.  The log  *)
(* is marked read up to a timestamp, and polled from a timestamp.          *)
(*                                                                         *)
(* Abstracted: messages, levels of events, identifiers, the dispatch to    *)
(* outside channels (nobody waits for it), the limits of 300 events to an  *)
(* answer and 200 in the client (not reached).  The clock of the host does *)
(* not go back across a restart.  The two watchers meet in the log only:   *)
(* a behaviour is of one of them, chosen in Init.                          *)
(***************************************************************************)
EXTENDS Naturals, Sequences, FiniteSets

CONSTANTS
  Images,          \* images followed: an update is available or not
  Integrations,    \* keys of reachability: reachable or not
  Docker,          \* the one the images are listed from
  Paths,           \* GitOps files: in drift or not
  Cycles,          \* cycles that may be in flight together
  Empty, Torn,     \* a file that is missing or truncated, or a mixture
  MaxChanges,      \* bound: changes of the world
  MaxIncidents     \* bound: errors, restarts of the process, clicks and polls

ASSUME Distinct ==
  /\ Docker \in Integrations
  /\ Images \cap Integrations = {} /\ Images \cap Paths = {} /\ Integrations \cap Paths = {}

Things == Images \cup Integrations \cup Paths

VARIABLES
  watcher,         \* "watchdog" or "gitops"
  truth,           \* what the world is: "alert" or "quiet" for each thing
  configured,      \* integrations that are configured
  file,            \* the state file of the watcher
  cycleInFlight,   \* the guard of the watchdog
  cycle,           \* the cycles
  log,             \* the lines of notifications-log.jsonl that parse
  glued,           \* its last line was cut short
  stamp,           \* the last timestamp given
  click,           \* the cursor POST read-all is about to write, 0 without one
  cursor,          \* the cursor of the file, 0 without one
  since,           \* the highest timestamp the client was given
  now,             \* history: the highest cursor taken from the clock
  told,            \* history: what the log last said of each thing
  blurred,         \* history: things the log may be wrong about
  changes, incidents

world == <<watcher, truth, configured, changes>>
watch == <<file, cycleInFlight, cycle>>
lines == <<log, glued, stamp, told>>
reader == <<click, cursor, since, now>>
vars == <<world, watch, lines, reader, blurred, incidents>>

Unknown == [t \in Things |-> "unknown"]

NoCycle == [pc |-> "idle", listed |-> TRUE, prev |-> Unknown, next |-> Unknown, todo |-> {},
            tell |-> {}, on |-> Docker, said |-> {}, ts |-> 0, beside |-> FALSE,
            crowded |-> FALSE]

InFlight == {c \in Cycles : cycle[c].pc # "idle"}

Watched == IF watcher = "watchdog" THEN Images \cup Integrations ELSE Paths

\* The events being recorded: stamped, and not in the log yet.
Recording == {c \in Cycles : cycle[c].pc = "append"}

-----------------------------------------------------------------------------
(* The world.                                                              *)

Other(s) == IF s = "alert" THEN "quiet" ELSE "alert"

ThingChanges(t) ==
  /\ t \in Watched
  /\ changes < MaxChanges
  /\ changes' = changes + 1
  /\ truth' = [truth EXCEPT ![t] = Other(@)]
  /\ UNCHANGED <<watcher, configured, watch, lines, reader, blurred, incidents>>

\* The setup adds or drops an integration; Docker is always watched.
Configure(i) ==
  /\ watcher = "watchdog"
  /\ i # Docker
  /\ changes < MaxChanges
  /\ changes' = changes + 1
  /\ configured' = IF i \in configured THEN configured \ {i} ELSE configured \cup {i}
  /\ UNCHANGED <<watcher, truth, watch, lines, reader, blurred, incidents>>

\* getImages lists what the Docker of the host has: the images it cannot list
\* are not known to be out of date.
Sight(t) == IF t \in Images /\ truth[Docker] = "alert" THEN "quiet" ELSE truth[t]

-----------------------------------------------------------------------------
(* A cycle: runWatchdogCycle, runGitopsReconcilerCycle.                    *)

Incident ==
  /\ incidents < MaxIncidents
  /\ incidents' = incidents + 1

Goes(c, q) == cycle' = [cycle EXCEPT ![c] = q]

\* Mistaken variant: the tick does not look at the guard.
StartWatchdogUnguarded(c) ==
  /\ watcher = "watchdog"
  /\ cycle[c].pc = "idle"
  /\ Goes(c, [NoCycle EXCEPT !.pc = "load", !.listed = FALSE])
  /\ cycleInFlight' = TRUE
  /\ UNCHANGED <<world, file, lines, reader, blurred, incidents>>

\* The timer, every 75 s; the guard drops the tick of a cycle still going.
StartWatchdog(c) ==
  /\ watcher = "watchdog"
  /\ cycle[c].pc = "idle"
  /\ ~cycleInFlight
  /\ Goes(c, [NoCycle EXCEPT !.pc = "load", !.listed = FALSE])
  /\ cycleInFlight' = TRUE
  /\ UNCHANGED <<world, file, lines, reader, blurred, incidents>>

\* The timer, every 90 s, whether or not a cycle is still going.
StartGitops(c) ==
  /\ watcher = "gitops"
  /\ cycle[c].pc = "idle"
  /\ cycle' = [d \in Cycles |->
       IF d = c THEN [NoCycle EXCEPT !.pc = "load", !.crowded = InFlight # {}]
       ELSE IF d \in InFlight THEN [cycle[d] EXCEPT !.crowded = TRUE]
       ELSE cycle[d]]
  /\ UNCHANGED <<world, file, cycleInFlight, lines, reader, blurred, incidents>>

\* Mistaken variant: a file that does not parse is not taken for a first run.
LoadStateUncaught(c) ==
  /\ cycle[c].pc = "load"
  /\ Goes(c, [cycle[c] EXCEPT !.pc = "look", !.prev = file])
  /\ UNCHANGED <<world, file, cycleInFlight, lines, reader, blurred, incidents>>

\* loadState: without a file that parses this is a first run, in which
\* nothing has a former status.
LoadState(c) ==
  LET prev == IF file \in {Empty, Torn} THEN Unknown ELSE file IN
  /\ cycle[c].pc = "load"
  /\ Goes(c, [cycle[c] EXCEPT !.pc = "look", !.prev = prev,
                !.next = [t \in Things |-> IF t \in Integrations THEN prev[t] ELSE "unknown"]])
  /\ UNCHANGED <<world, file, cycleInFlight, lines, reader, blurred, incidents>>

\* detectNewlyUpdatedImages, detectReachabilityTransition, detectDriftTransitions.
Differs(prev, t, s) ==
  /\ prev[t] # "unknown"
  /\ prev[t] # s
  /\ t \in Images => s = "alert"

\* Once what was found is told: the integrations one by one, then the file.
Onward(q) ==
  [q EXCEPT !.pc = IF q.tell # {} THEN "tell"
                   ELSE IF ~q.listed THEN "checks"
                   ELSE IF q.todo # {} THEN "probe" ELSE "open"]

\* What the cycle sees of the things in ts, and has to tell.
Sees(q, ts) ==
  Onward([q EXCEPT !.next = [t \in Things |-> IF t \in ts THEN Sight(t) ELSE @[t]],
                   !.tell = {t \in ts : Differs(q.prev, t, Sight(t))}])

\* getImages("update"), or listGitOpsFiles.
Look(c) ==
  /\ cycle[c].pc = "look"
  /\ Goes(c, Sees(cycle[c], IF watcher = "watchdog" THEN Images ELSE Paths))
  /\ UNCHANGED <<world, file, cycleInFlight, lines, reader, blurred, incidents>>

\* docker.listImages has no time limit, and keeps the guard.
Hang(c) ==
  /\ cycle[c].pc = "look"
  /\ watcher = "watchdog"
  /\ Incident
  /\ Goes(c, [cycle[c] EXCEPT !.pc = "hung"])
  /\ UNCHANGED <<world, file, cycleInFlight, lines, reader, blurred>>

\* buildReachabilityChecks: only what is configured now.
BuildChecks(c) ==
  /\ cycle[c].pc = "checks"
  /\ Goes(c, Onward([cycle[c] EXCEPT !.listed = TRUE, !.todo = configured]))
  /\ UNCHANGED <<world, file, cycleInFlight, lines, reader, blurred, incidents>>

Probe(c, i) ==
  /\ cycle[c].pc = "probe"
  /\ i \in cycle[c].todo
  /\ Goes(c, Sees([cycle[c] EXCEPT !.todo = @ \ {i}], {i}))
  /\ UNCHANGED <<world, file, cycleInFlight, lines, reader, blurred, incidents>>

-----------------------------------------------------------------------------
(* recordNotificationEvent.                                                *)

\* Mistaken variant: the timestamp is the millisecond of the clock, in which
\* another event may have been stamped.
StampSameMillisecond(c) ==
  /\ cycle[c].pc = "tell"
  /\ \E t \in cycle[c].tell, s \in {stamp, stamp + 1} :
       /\ s > 0
       /\ stamp' = s
       /\ cycle' = [d \in Cycles |->
            IF d = c THEN [cycle[c] EXCEPT !.pc = "append", !.on = t, !.tell = @ \ {t},
                             !.ts = s, !.beside = Recording # {}]
            ELSE IF d \in Recording THEN [cycle[d] EXCEPT !.beside = TRUE]
            ELSE cycle[d]]
  /\ UNCHANGED <<world, file, cycleInFlight, log, glued, told, reader, blurred, incidents>>

\* nextTimestamp: above every timestamp given before.
Stamp(c) ==
  /\ cycle[c].pc = "tell"
  /\ stamp' = stamp + 1
  /\ \E t \in cycle[c].tell :
       cycle' = [d \in Cycles |->
         IF d = c THEN [cycle[c] EXCEPT !.pc = "append", !.on = t, !.tell = @ \ {t},
                          !.ts = stamp', !.beside = Recording # {}]
         ELSE IF d \in Recording THEN [cycle[d] EXCEPT !.beside = TRUE]
         ELSE cycle[d]]
  /\ UNCHANGED <<world, file, cycleInFlight, log, glued, told, reader, blurred, incidents>>

Recorded(c) == Onward([cycle[c] EXCEPT !.ts = 0, !.on = Docker, !.beside = FALSE])

\* A line appended to one that was cut short is lost with it.
AppendEvent(c) ==
  LET q == cycle[c] IN
  /\ q.pc = "append"
  /\ glued' = FALSE
  /\ IF glued
     THEN /\ blurred' = blurred \cup {q.on}
          /\ Goes(c, Recorded(c))
          /\ UNCHANGED <<log, told>>
     ELSE /\ log' = Append(log, q.ts)
          /\ told' = [told EXCEPT ![q.on] = q.next[q.on]]
          /\ Goes(c, [Recorded(c) EXCEPT !.said = @ \cup {q.on}])
          /\ UNCHANGED blurred
  /\ UNCHANGED <<world, file, cycleInFlight, stamp, reader, incidents>>

\* The error is written to the console and the cycle goes on; the line may be
\* cut short.
AppendFails(c) ==
  /\ cycle[c].pc = "append"
  /\ Incident
  /\ Goes(c, Recorded(c))
  /\ glued' \in {glued, TRUE}
  /\ blurred' = blurred \cup {cycle[c].on}
  /\ UNCHANGED <<world, file, cycleInFlight, log, stamp, told, reader>>

-----------------------------------------------------------------------------
(* saveState, and the end of the cycle.                                    *)

Ends(c) ==
  /\ Goes(c, NoCycle)
  /\ cycleInFlight' = FALSE

OpenState(c) ==
  /\ cycle[c].pc = "open"
  /\ file' = Empty
  /\ Goes(c, [cycle[c] EXCEPT !.pc = "write"])
  /\ UNCHANGED <<world, cycleInFlight, lines, reader, blurred, incidents>>

\* A thing without a former status is told of from now on.
ToldAfter(c) ==
  [t \in Things |->
     LET s == cycle[c].next[t] IN
     IF s = "unknown" THEN told[t]
     ELSE IF told[t] = "unknown" \/ (t \in Images /\ s = "quiet") THEN s ELSE told[t]]

\* What this save makes of the doubts: a cycle that overlapped another is not
\* to be trusted, nor one that found no former status after all was told.
BlurredAfter(c) ==
  LET q == cycle[c]
      mine == {t \in Things : q.next[t] # "unknown"}
      new == {t \in mine : q.prev[t] = "unknown" /\ ToldAfter(c)[t] # q.next[t]} IN
  IF q.crowded THEN blurred \cup mine ELSE (blurred \ q.said) \cup new

WriteState(c) ==
  /\ cycle[c].pc = "write"
  /\ file' \in {cycle[c].next} \cup (IF file \in {Empty, cycle[c].next} THEN {} ELSE {Torn})
  /\ told' = ToldAfter(c)
  /\ blurred' = BlurredAfter(c)
  /\ Ends(c)
  /\ UNCHANGED <<world, log, glued, stamp, reader, incidents>>

\* saveState keeps the error to itself; the file stays as it is.
SaveFails(c) ==
  /\ cycle[c].pc \in {"open", "write"}
  /\ Incident
  /\ blurred' = blurred \cup cycle[c].said
  /\ Ends(c)
  /\ UNCHANGED <<world, file, lines, reader>>

\* Mistaken variant: the guard is not released by the error.
AbandonGuarded(c) ==
  /\ cycle[c].pc \in {"look", "checks"}
  /\ Incident
  /\ blurred' = blurred \cup cycle[c].said
  /\ Goes(c, NoCycle)
  /\ UNCHANGED <<world, file, cycleInFlight, lines, reader>>

\* getImages, listGitOpsFiles or the reading of the setup throws: nothing is
\* saved, and what was told is found again by the next cycle.
Abandon(c) ==
  /\ cycle[c].pc \in {"look", "checks"}
  /\ Incident
  /\ blurred' = blurred \cup cycle[c].said
  /\ Ends(c)
  /\ UNCHANGED <<world, file, lines, reader>>

\* The process ends and starts again; a line may be cut short.
Restart ==
  /\ Incident
  /\ cycle' = [c \in Cycles |-> NoCycle]
  /\ cycleInFlight' = FALSE
  /\ click' = 0
  /\ glued' \in {glued} \cup (IF Recording = {} THEN {} ELSE {TRUE})
  /\ blurred' = blurred \cup UNION {cycle[c].said : c \in Cycles}
  /\ UNCHANGED <<world, file, log, stamp, told, cursor, since, now>>

-----------------------------------------------------------------------------
(* The readers.                                                            *)

Stamps == {log[i] : i \in DOMAIN log}

\* GET /api/notifications?since=, merged into what the client has.
Poll ==
  /\ Incident
  /\ \E s \in Stamps : s > since /\ (\A u \in Stamps : u <= s) /\ since' = s
  /\ UNCHANGED <<world, watch, lines, click, cursor, now, blurred>>

Clicks == click = 0 /\ Incident

\* markAllNotificationsRead: the cursor is the timestamp of the last line.
MarkAllRead ==
  /\ Clicks
  /\ log # <<>>
  /\ click' = log[Len(log)]
  /\ UNCHANGED <<world, watch, lines, cursor, since, now, blurred>>

\* With no event, or with a log that cannot be read, the cursor is the time,
\* which an event stamped in the same millisecond does not exceed.
MarkAllReadNow ==
  /\ Clicks
  /\ click' \in {stamp, stamp + 1} \ {0}
  /\ now' = IF click' > now THEN click' ELSE now
  /\ UNCHANGED <<world, watch, lines, cursor, since, blurred>>

\* The new cursor is in the file.
SaveCursor ==
  /\ click # 0
  /\ cursor' = click
  /\ click' = 0
  /\ UNCHANGED <<world, watch, lines, since, now, blurred, incidents>>

-----------------------------------------------------------------------------

Init ==
  /\ watcher \in {"watchdog", "gitops"}
  /\ truth = [t \in Things |-> "quiet"]
  /\ configured = {Docker}
  /\ file = Empty
  /\ cycleInFlight = FALSE
  /\ cycle = [c \in Cycles |-> NoCycle]
  /\ log = <<>>
  /\ glued = FALSE
  /\ stamp = 0
  /\ click = 0
  /\ cursor = 0
  /\ since = 0
  /\ now = 0
  /\ told = Unknown
  /\ blurred = {}
  /\ changes = 0
  /\ incidents = 0

Start == \E c \in Cycles : StartWatchdog(c) \/ StartGitops(c)

Step(c) ==
  \/ LoadState(c) \/ Look(c) \/ BuildChecks(c) \/ \E i \in Integrations : Probe(c, i)
  \/ Stamp(c) \/ AppendEvent(c) \/ OpenState(c) \/ WriteState(c)

Fault(c) == Hang(c) \/ AppendFails(c) \/ SaveFails(c) \/ Abandon(c)

World ==
  \/ \E t \in Things : ThingChanges(t)
  \/ \E i \in Integrations : Configure(i)

Reader == Poll \/ MarkAllRead \/ MarkAllReadNow \/ SaveCursor

Next ==
  \/ World
  \/ Start
  \/ \E c \in Cycles : Step(c) \/ Fault(c)
  \/ Restart
  \/ Reader

\* setInterval starts the cycles; every call a cycle waits for ends, but the
\* one Hang stands for.
Fairness ==
  /\ WF_vars(Start)
  /\ \A c \in Cycles : WF_vars(Step(c))

Spec == Init /\ [][Next]_vars /\ Fairness
-----------------------------------------------------------------------------
(* Properties.                                                             *)

Statuses == {"unknown", "quiet", "alert"}

CycleRecords ==
  [pc : {"idle", "load", "look", "hung", "checks", "probe", "tell", "append", "open", "write"},
   listed : BOOLEAN, prev : [Things -> Statuses], next : [Things -> Statuses],
   todo : SUBSET Integrations, tell : SUBSET Things, on : Things, said : SUBSET Things,
   ts : Nat, beside : BOOLEAN, crowded : BOOLEAN]

CyclesTyped == cycle \in [Cycles -> CycleRecords]

LogTyped ==
  /\ log \in Seq(Nat \ {0})
  /\ stamp \in Nat /\ click \in Nat /\ cursor \in Nat /\ since \in Nat /\ now \in Nat
  /\ glued \in BOOLEAN

WatchTyped ==
  /\ truth \in [Things -> {"quiet", "alert"}]
  /\ configured \subseteq Integrations
  /\ watcher \in {"watchdog", "gitops"}
  /\ file \in [Things -> Statuses] \cup {Empty, Torn}
  /\ cycleInFlight \in BOOLEAN
  /\ told \in [Things -> Statuses]
  /\ blurred \subseteq Things

\* Every variable has its type.
TypeOK == CyclesTyped /\ LogTyped /\ WatchTyped

\* notificationsStore.ts:15-20: an event recorded around a click or a poll is
\* not taken for one that was there before.  When it enters the log its timestamp
\* is above the read cursor (the one in the file, and the one a click is about to
\* write) and above the `since` of the client, except when it was being recorded
\* together with another event, or the cursor was taken from the clock.  What a
\* click makes of the events already in the log is VisibleMarkedRead's matter.
NothingEntersBelow ==
  [][\A c \in Cycles : log' # log /\ cycle[c].pc = "append" /\ cycle'[c].pc # "append" =>
       \/ cycle[c].ts > cursor /\ cycle[c].ts > click /\ cycle[c].ts > since
       \/ cycle[c].beside
       \/ cycle[c].ts <= now]_vars

\* watchdog.ts:11-13, gitopsReconciler.ts:12-14: an event tells a change from
\* the last state saved.  What the log last said of a thing is what its
\* watcher saved, whatever fails or restarts, but for what a cycle in flight has
\* just told; until the cycle that told it is known to have lost its save or its
\* event, or a cycle of the reconciler that overlapped another saved it; the
\* guard spares the watchdog the latter.
LogTellsState ==
  file \notin {Empty, Torn} =>
    \A t \in Things :
      \/ file[t] \in {"unknown", told[t]}
      \/ t \in blurred
      \/ \E c \in InFlight : t \in cycle[c].said

\* notificationsStore.ts:12-14: the button marks as read what is visible now.
\* Of a client that polled, no event is read that it was not given.  Violated:
\* the cursor is the newest line of the file (118-121), not what was polled.
VisibleMarkedRead ==
  since # 0 => \A s \in Stamps : s <= cursor => s <= since

\* watchdog.ts:11-13, gitopsReconciler.ts:12-14: an event is recorded for a change
\* of state only, a restart included.  It never says again what the log last said
\* of the thing.  Violated: by two cycles of the reconciler that overlap
\* (gitopsReconciler.ts:131 has no guard), and by a cycle that dies or fails
\* between its events and saveState.
SaidOnce ==
  \A c \in Recording :
    LET t == cycle[c].on IN told[t] # "unknown" => cycle[c].next[t] # told[t]

\* Once the world is at rest, the watcher ends up with a file that says what
\* there is to see, unless the listing of the images hangs.
CaughtUp ==
  \/ <>[](\E c \in Cycles : cycle[c].pc = "hung")
  \/ /\ []<>(file \notin {Empty, Torn})
     /\ <>[](file \notin {Empty, Torn} =>
               \A t \in (IF watcher = "gitops" THEN Paths ELSE Images \cup configured) :
                 file[t] = Sight(t))
=============================================================================
