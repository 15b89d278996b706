----------------------------- MODULE Automation -----------------------------
(***************************************************************************)
(* The automation engine: automationEngine.ts, automationStore.ts and      *)
(* routes/automation.ts.                                                   *)
(*                                                                         *)
(* Triggers watch a resource; when one is seen failing and was not the     *)
(* last time, the actions wired to it, directly or through a condition,    *)
(* are executed.  A cycle works on the nodes and edges it read at its      *)
(* start, and nothing keeps the timer from starting a cycle beside one     *)
(* that is still at work.                                                  *)
(*                                                                         *)
(* Every change of the store, by a user or by a cycle, is computed from    *)
(* the cache, then written to the disk, and only then becomes the cache:   *)
(* two changes under way at once are both computed from the old content.   *)
(* The variables below the line in VARIABLES only record history.          *)
(***************************************************************************)
EXTENDS Naturals, FiniteSets

CONSTANTS
  Triggers,      \* nodes of kind automation-trigger
  RouteTriggers, \* those that watch a reverse-proxy route; others, the topology
  Conditions,    \* nodes of kind automation-condition
  Inverted,      \* those with conditionInvert
  Actions,       \* nodes of kind automation-action
  Cycles,        \* engine cycles that may be under way together
  Users,         \* store requests that may be under way together
  MaxChanges,    \* bound: changes of the watched resources
  MaxRequests,   \* bound: creations and deletions by users
  MaxFaults      \* bound: writes the disk refuses, topologies that fail and
                 \* crashes of the API process

ASSUME KindsAssumption ==
  /\ RouteTriggers \subseteq Triggers /\ Inverted \subseteq Conditions
  /\ Triggers \cap Conditions = {} /\ Triggers \cap Actions = {} /\ Conditions \cap Actions = {}
  /\ Triggers # {} /\ Cycles \cap Users = {}

ASSUME CountsAssumption ==
  MaxChanges \in Nat /\ MaxRequests \in Nat /\ MaxFaults \in Nat

VARIABLES
  world,       \* what a look at the resource of each trigger would tell
  cache,       \* the store in memory: [nodes, edges, status]
  writing,     \* the writers with a write under way
  next,        \* the content each of them writes
  torn,        \* the file holds no whole content: a refused write cut it
  phase,       \* where each cycle stands
  snapshot,    \* the store each cycle works on
  seen,        \* the state of the topology triggers each cycle loaded
  todo,        \* triggers each cycle has still to evaluate
  current,     \* the trigger each cycle evaluates, with what it observed
  acts,        \* actions each cycle has still to execute
  \* ------------------------------------------------------------------------
  fires,       \* chains fired since the trigger was last seen not failing
  stale,       \* writers whose content was computed before a later change
  gone,        \* nodes whose deletion was requested
  born,        \* nodes ever created; an id is never reused
  clobbered,   \* a stale content was written
  overlapped,  \* two cycles were at work together
  changes, requests, faults

engineVars == <<phase, snapshot, seen, todo, current, acts>>
storeVars == <<cache, writing, next, torn, stale, clobbered>>
boundVars == <<changes, requests, faults>>
vars == <<world, storeVars, engineVars, fires, gone, born, overlapped, boundVars>>

Nodes == Triggers \cup Conditions \cup Actions
Writers == Cycles \cup Users
Status == {"ok", "failing", "unknown"}

\* isValidConnection: the edges the routes accept.
Connections ==
  (Triggers \X Conditions) \cup (Triggers \X Actions) \cup (Conditions \X Actions)

Stores == [nodes : SUBSET Nodes, edges : SUBSET Connections, status : [Triggers -> Status]]
Empty == [nodes |-> {}, edges |-> {}, status |-> [t \in Triggers |-> "unknown"]]

NoTrigger == [trigger |-> CHOOSE t \in Triggers : TRUE, observed |-> "unknown"]

-----------------------------------------------------------------------------
(* The store.                                                              *)

\* A change is computed from the cache and its write starts.
Write(w, content) ==
  /\ w \notin writing
  /\ writing' = writing \cup {w}
  /\ next' = [next EXCEPT ![w] = content]
  /\ stale' = stale \ {w}
  /\ UNCHANGED <<cache, torn, clobbered>>

\* The write ends and its content becomes the cache; the same writer may go on
\* at once with another write, computed from that content.
Commit(w, more) ==
  /\ w \in writing
  /\ writing' = IF more THEN writing ELSE writing \ {w}
  /\ cache' = next[w]
  /\ torn' = FALSE
  /\ next' = IF more THEN next ELSE [next EXCEPT ![w] = Empty]
  /\ stale' = (stale \cup writing) \ {w}
  /\ clobbered' = (clobbered \/ w \in stale)

\* The disk refuses the write, perhaps once the file is emptied: the caller
\* gets an exception, and the cache stays.
WriteFails(w) ==
  /\ w \in writing
  /\ faults < MaxFaults
  /\ faults' = faults + 1
  /\ writing' = writing \ {w}
  /\ next' = [next EXCEPT ![w] = Empty]
  /\ torn' \in {torn, TRUE}
  /\ stale' = stale \ {w}
  /\ UNCHANGED <<cache, clobbered>>

-----------------------------------------------------------------------------
(* The routes.                                                             *)

Request(u, content) ==
  /\ requests < MaxRequests
  /\ requests' = requests + 1
  /\ Write(u, content)
  /\ UNCHANGED <<world, engineVars, fires, overlapped, changes, faults>>

CreateNode(u, n) ==
  /\ n \notin born
  /\ Request(u, [cache EXCEPT !.nodes = @ \cup {n}])
  /\ born' = born \cup {n}
  /\ UNCHANGED gone

\* Mistaken variant: the edges of the node are kept.
DeleteNodeOnly(u, n) ==
  /\ n \in cache.nodes
  /\ Request(u, [cache EXCEPT !.nodes = @ \ {n}])
  /\ gone' = gone \cup {n}
  /\ UNCHANGED born

\* The node goes, and the edges that touch it.
DeleteNode(u, n) ==
  /\ n \in cache.nodes
  /\ Request(u, [cache EXCEPT !.nodes = @ \ {n}, !.edges = {e \in @ : e[1] # n /\ e[2] # n}])
  /\ gone' = gone \cup {n}
  /\ UNCHANGED born

CreateEdge(u, e) ==
  /\ e[1] \in cache.nodes /\ e[2] \in cache.nodes
  /\ Request(u, [cache EXCEPT !.edges = @ \cup {e}])
  /\ UNCHANGED <<gone, born>>

DeleteEdge(u, e) ==
  /\ e \in cache.edges
  /\ Request(u, [cache EXCEPT !.edges = @ \ {e}])
  /\ UNCHANGED <<gone, born>>

Answer(u) ==
  /\ Commit(u, FALSE)
  /\ UNCHANGED <<world, engineVars, fires, gone, born, overlapped, boundVars>>

Refuse(u) ==
  /\ WriteFails(u)
  /\ UNCHANGED <<world, engineVars, fires, gone, born, overlapped, changes, requests>>

-----------------------------------------------------------------------------
(* A cycle: runAutomationEngineCycle and evaluateTrigger.                  *)

At(c, from) ==
  /\ phase[c] = from
  /\ UNCHANGED <<world, gone, born, changes, requests>>

\* The timer fires, whatever other cycles do.
CycleStarts(c) ==
  /\ At(c, "idle")
  /\ cache.nodes \cap Triggers # {}
  /\ phase' = [phase EXCEPT ![c] = "loading"]
  /\ snapshot' = [snapshot EXCEPT ![c] = cache]
  /\ todo' = [todo EXCEPT ![c] = cache.nodes \cap Triggers]
  /\ overlapped' = (overlapped \/ \E d \in Cycles : phase[d] # "idle")
  /\ UNCHANGED <<storeVars, seen, current, acts, fires, faults>>

\* getTopology answers: one picture for all the topology triggers.
TopologyLoads(c) ==
  /\ At(c, "loading")
  /\ phase' = [phase EXCEPT ![c] = "evaluating"]
  /\ seen' = [seen EXCEPT ![c] = [t \in Triggers |-> IF t \in RouteTriggers THEN "unknown" ELSE world[t]]]
  /\ UNCHANGED <<storeVars, snapshot, todo, current, acts, fires, overlapped, faults>>

\* It fails: the state of every topology trigger is unknown in this cycle.
TopologyFails(c) ==
  /\ At(c, "loading")
  /\ faults < MaxFaults
  /\ faults' = faults + 1
  /\ phase' = [phase EXCEPT ![c] = "evaluating"]
  /\ seen' = [seen EXCEPT ![c] = Empty.status]
  /\ UNCHANGED <<storeVars, snapshot, todo, current, acts, fires, overlapped>>

\* Mistaken variant: lastStatus is set in the nodes the cycle read, not in
\* the cache.
EvaluateOnSnapshot(c, t) ==
  LET observed == IF t \in RouteTriggers THEN world[t] ELSE seen[c][t]
  IN  /\ At(c, "evaluating")
      /\ t \in todo[c]
      /\ todo' = [todo EXCEPT ![c] = @ \ {t}]
      /\ current' = [current EXCEPT ![c] = [trigger |-> t, observed |-> observed]]
      /\ phase' = [phase EXCEPT ![c] = "saving"]
      /\ Write(c, [snapshot[c] EXCEPT !.status[t] = observed])
      /\ fires' = IF observed = "failing" THEN fires ELSE [fires EXCEPT ![t] = 0]
      /\ UNCHANGED <<snapshot, seen, acts, overlapped, faults>>

\* One trigger: its state is found, and its lastStatus starts to be written,
\* unless the trigger was deleted meanwhile.
Evaluate(c, t) ==
  LET observed == IF t \in RouteTriggers THEN world[t] ELSE seen[c][t]
  IN  /\ At(c, "evaluating")
      /\ t \in todo[c]
      /\ todo' = [todo EXCEPT ![c] = @ \ {t}]
      /\ current' = [current EXCEPT ![c] = [trigger |-> t, observed |-> observed]]
      /\ phase' = [phase EXCEPT ![c] = "saving"]
      /\ IF t \in cache.nodes THEN Write(c, [cache EXCEPT !.status[t] = observed])
                              ELSE UNCHANGED storeVars
      /\ fires' = IF observed = "failing" THEN fires ELSE [fires EXCEPT ![t] = 0]
      /\ UNCHANGED <<snapshot, seen, acts, overlapped, faults>>

\* Mistaken variant: any failing state fires, without looking at the last one.
TransitionAlways(c) == current[c].observed = "failing"

\* Mistaken variant: the last state is read after it was overwritten.
TransitionLate(c) ==
  /\ current[c].observed = "failing"
  /\ c \notin writing
  /\ cache.status[current[c].trigger] # "failing"

\* Failing now, and not when the cycle read its nodes.
Transition(c) ==
  /\ current[c].observed = "failing"
  /\ snapshot[c].status[current[c].trigger] # "failing"

\* The lastStatus is written; on a transition, the write of lastFired follows,
\* if the trigger is still there.  It is a time nobody reads here, so that the
\* content stays the same.
Saved(c) ==
  /\ At(c, "saving")
  /\ \/ Commit(c, Transition(c))
     \/ /\ c \notin writing
        /\ IF Transition(c) /\ current[c].trigger \in cache.nodes
             THEN Write(c, cache) ELSE UNCHANGED storeVars
  /\ phase' = [phase EXCEPT ![c] = IF Transition(c) THEN "stamping" ELSE "evaluating"]
  /\ UNCHANGED <<snapshot, seen, todo, current, acts, fires, overlapped, faults>>

\* fireActionChain: the actions wired to a trigger, directly or through a
\* condition that is not inverted.
Reached(s, t) ==
  {a \in Actions \cap s.nodes :
     \/ <<t, a>> \in s.edges
     \/ \E k \in (Conditions \ Inverted) \cap s.nodes : <<t, k>> \in s.edges /\ <<k, a>> \in s.edges}

\* Mistaken variant: the write of lastFired is not waited for.
FireWithoutWaiting(c) ==
  LET t == current[c].trigger
  IN  /\ At(c, "stamping")
      /\ phase' = [phase EXCEPT ![c] = "acting"]
      /\ acts' = [acts EXCEPT ![c] = Reached(snapshot[c], t)]
      /\ fires' = [fires EXCEPT ![t] = IF @ = 2 THEN 2 ELSE @ + 1]
      /\ UNCHANGED <<storeVars, snapshot, seen, todo, current, overlapped, faults>>

\* The chain fires on the nodes and edges read at the start of the cycle.
Fire(c) ==
  LET t == current[c].trigger
  IN  /\ At(c, "stamping")
      /\ IF c \in writing THEN Commit(c, FALSE) ELSE UNCHANGED storeVars
      /\ phase' = [phase EXCEPT ![c] = "acting"]
      /\ acts' = [acts EXCEPT ![c] = Reached(snapshot[c], t)]
      /\ fires' = [fires EXCEPT ![t] = IF @ = 2 THEN 2 ELSE @ + 1]
      /\ UNCHANGED <<snapshot, seen, todo, current, overlapped, faults>>

\* A failed write of lastStatus or of lastFired abandons the trigger.
TriggerFails(c) ==
  /\ phase[c] \in {"saving", "stamping"}
  /\ WriteFails(c)
  /\ phase' = [phase EXCEPT ![c] = "evaluating"]
  /\ UNCHANGED <<world, snapshot, seen, todo, current, acts, fires, gone, born, overlapped,
                 changes, requests>>

\* One action is executed and journaled, whether it succeeds or not.
Act(c, a) ==
  /\ At(c, "acting")
  /\ a \in acts[c]
  /\ acts' = [acts EXCEPT ![c] = @ \ {a}]
  /\ UNCHANGED <<storeVars, phase, snapshot, seen, todo, current, fires, overlapped, faults>>

ChainEnds(c) ==
  /\ At(c, "acting")
  /\ acts[c] = {}
  /\ phase' = [phase EXCEPT ![c] = "evaluating"]
  /\ UNCHANGED <<storeVars, snapshot, seen, todo, current, acts, fires, overlapped, faults>>

\* What the cycle held goes with it.
CycleEnds(c) ==
  /\ At(c, "evaluating")
  /\ todo[c] = {}
  /\ phase' = [phase EXCEPT ![c] = "idle"]
  /\ snapshot' = [snapshot EXCEPT ![c] = Empty]
  /\ seen' = [seen EXCEPT ![c] = Empty.status]
  /\ current' = [current EXCEPT ![c] = NoTrigger]
  /\ UNCHANGED <<storeVars, todo, acts, fires, overlapped, faults>>

-----------------------------------------------------------------------------
(* The world, and the death of the process.                                *)

\* A resource starts or stops failing, or cannot be told (deleted, topology
\* unavailable).
WorldChanges(t, state) ==
  /\ world[t] # state
  /\ changes < MaxChanges
  /\ changes' = changes + 1
  /\ world' = [world EXCEPT ![t] = state]
  /\ UNCHANGED <<storeVars, engineVars, fires, gone, born, overlapped, requests, faults>>

\* The store is read back from the disk: as it was, as a write under way was
\* to leave it, or empty if that write, or one before it, was cut short.
Crash ==
  /\ faults < MaxFaults
  /\ faults' = faults + 1
  /\ \/ cache' = (IF torn THEN Empty ELSE cache) /\ UNCHANGED torn
     \/ \E w \in writing : cache' = next[w] /\ torn' = FALSE
     \/ writing # {} /\ cache' = Empty /\ torn' = TRUE
  /\ clobbered' = (clobbered \/ stale \cap writing # {})
  /\ writing' = {}
  /\ stale' = {}
  /\ next' = [w \in Writers |-> Empty]
  /\ phase' = [c \in Cycles |-> "idle"]
  /\ snapshot' = [c \in Cycles |-> Empty]
  /\ seen' = [c \in Cycles |-> Empty.status]
  /\ current' = [c \in Cycles |-> NoTrigger]
  /\ todo' = [c \in Cycles |-> {}]
  /\ acts' = [c \in Cycles |-> {}]
  /\ UNCHANGED <<world, fires, gone, born, overlapped, changes, requests>>

-----------------------------------------------------------------------------

\* The store holds what users created and wired before this start of the API.
Init ==
  /\ world \in [Triggers -> {"ok", "failing"}]
  /\ \E N \in SUBSET Nodes : \E E \in SUBSET {e \in Connections : e[1] \in N /\ e[2] \in N} :
       /\ cache = [Empty EXCEPT !.nodes = N, !.edges = E]
       /\ born = N
  /\ writing = {}
  /\ torn = FALSE
  /\ next = [w \in Writers |-> Empty]
  /\ phase = [c \in Cycles |-> "idle"]
  /\ snapshot = [c \in Cycles |-> Empty]
  /\ seen = [c \in Cycles |-> Empty.status]
  /\ todo = [c \in Cycles |-> {}]
  /\ current = [c \in Cycles |-> NoTrigger]
  /\ acts = [c \in Cycles |-> {}]
  /\ fires = [t \in Triggers |-> 0]
  /\ stale = {}
  /\ gone = {}
  /\ clobbered = FALSE
  /\ overlapped = FALSE
  /\ changes = 0 /\ requests = 0 /\ faults = 0

Ask ==
  \E u \in Users :
    \/ \E n \in Nodes : CreateNode(u, n) \/ DeleteNode(u, n)
    \/ \E e \in Connections : CreateEdge(u, e) \/ DeleteEdge(u, e)
    \/ Answer(u) \/ Refuse(u)

\* What a cycle does once started.
Work(c) ==
  \/ TopologyLoads(c) \/ Saved(c) \/ Fire(c) \/ ChainEnds(c) \/ CycleEnds(c)
  \/ \E t \in Triggers : Evaluate(c, t)
  \/ \E a \in Actions : Act(c, a)

Engine == \E c \in Cycles : CycleStarts(c) \/ Work(c) \/ TriggerFails(c) \/ TopologyFails(c)

Next == Ask \/ Engine \/ (\E t \in Triggers, s \in Status : WorldChanges(t, s)) \/ Crash

Spec == Init /\ [][Next]_vars

\* The timer keeps starting cycles, and every call a cycle or a request waits
\* for answers: probes and writes are bounded, Docker is assumed to answer.
FairSpec ==
  /\ Spec
  /\ \A c \in Cycles : WF_vars(CycleStarts(c)) /\ WF_vars(Work(c))
  /\ \A u \in Users : WF_vars(Answer(u))

-----------------------------------------------------------------------------
(* Properties.                                                             *)

\* Every edge has both its ends.
Wired(s) == \A e \in s.edges : e[1] \in s.nodes /\ e[2] \in s.nodes

StoreTyped ==
  /\ cache \in Stores
  /\ writing \subseteq Writers
  /\ next \in [Writers -> Stores]
  /\ torn \in BOOLEAN
  /\ stale \subseteq Writers
  /\ clobbered \in BOOLEAN

CyclesTyped ==
  /\ phase \in [Cycles -> {"idle", "loading", "evaluating", "saving", "stamping", "acting"}]
  /\ snapshot \in [Cycles -> Stores]
  /\ seen \in [Cycles -> [Triggers -> Status]]
  /\ todo \in [Cycles -> SUBSET Triggers]
  /\ current \in [Cycles -> [trigger : Triggers, observed : Status]]
  /\ acts \in [Cycles -> SUBSET Actions]

HistoryTyped ==
  /\ world \in [Triggers -> Status]
  /\ fires \in [Triggers -> 0 .. 2]
  /\ gone \subseteq Nodes /\ born \subseteq Nodes
  /\ overlapped \in BOOLEAN
  /\ changes \in 0 .. MaxChanges /\ requests \in 0 .. MaxRequests /\ faults \in 0 .. MaxFaults

\* A cycle only has a write under way where it waits for one.
CyclesAwaitWrites == \A c \in Cycles : c \in writing => phase[c] \in {"saving", "stamping"}

\* The type invariant; a cycle never works on while its write is under way
\* (automationEngine.ts:229-234 awaits both).
TypeOK == StoreTyped /\ CyclesTyped /\ HistoryTyped /\ CyclesAwaitWrites

\* automationStore.ts:130-131: no edge is ever left without its two nodes, in
\* the cache or in a content on its way to it, however requests and cycles
\* interleave: the routes check the nodes and compute the content with no
\* disk access in between.
EdgesWired == Wired(cache) /\ \A w \in writing : Wired(next[w])

\* automationEngine.ts:17-20: a trigger that stays failing fires once, never
\* in a loop, restarts included.  Two exceptions: cycles that overlap, and a
\* lastStatus overwritten by a content computed before it.
FiresOncePerFailure ==
  ~overlapped /\ ~clobbered => \A t \in Triggers : fires[t] <= 1

\* A deleted node only comes back with a content computed before its deletion.
DeletedStaysDeleted ==
  [][ \A n \in gone :
        n \notin cache.nodes /\ n \in cache'.nodes => \E w \in stale : w \in writing /\ w \notin stale' ]_vars

\* A trigger whose resource keeps failing fires, unless it recovers, cannot
\* be told, is deleted, or the store lost the trace of it.
FailureFires ==
  \A t \in Triggers :
    world[t] = "failing" /\ t \in cache.nodes
      ~> \/ fires[t] > 0
         \/ world[t] # "failing" \/ t \notin cache.nodes
         \/ clobbered \/ faults > 0

-----------------------------------------------------------------------------
(* What automationEngine.ts says of itself and the code does not keep.     *)

\* automationEngine.ts:19-20, never in a loop while it keeps failing, with no
\* exception for cycles that overlap.
NeverFiresTwice == ~clobbered => \A t \in Triggers : fires[t] <= 1

\* automationEngine.ts:22-25, the actions reached are really executed at the
\* transition: a cycle that leaves a transition without them leaves it to the
\* next one to see, the saved status of the trigger not being "failing".
TransitionFires ==
  [][ \A c \in Cycles :
        LET t == current[c].trigger IN
        phase[c] = "stamping" /\ phase'[c] = "evaluating" /\ t \in cache'.nodes
          => cache'.status[t] # "failing" ]_vars
=============================================================================
