-------------------------- MODULE AutomationProofs --------------------------
(***************************************************************************)
(* Proofs about Automation, for every value of its constants: the type     *)
(* invariant, that no edge ever loses one of its nodes, that a deleted     *)
(* node only comes back by a content older than its deletion, and that a   *)
(* trigger fires once for each failure, however requests, cycles, refused  *)
(* writes and crashes interleave.                                          *)
(*                                                                         *)
(* All rest on what Write, Commit and WriteFails do to the store; the      *)
(* actions are then a matter of the content they write.                    *)
(***************************************************************************)
EXTENDS Automation, TLAPS

-----------------------------------------------------------------------------
(* The store.                                                              *)

LEMMA EmptyTyped == Empty \in Stores
  BY DEF Empty, Stores, Status

\* A content of the right type leaves the store well typed once written.
LEMMA WriteTyped ==
  ASSUME StoreTyped, NEW w \in Writers, NEW content \in Stores, Write(w, content)
  PROVE  StoreTyped'
  BY DEF StoreTyped, Write

LEMMA CommitTyped ==
  ASSUME StoreTyped, NEW w \in Writers, NEW more \in BOOLEAN, Commit(w, more)
  PROVE  StoreTyped'
<1>1. cache' \in Stores BY DEF StoreTyped, Commit
<1>2. next' \in [Writers -> Stores] BY EmptyTyped DEF StoreTyped, Commit
<1>3. writing' \subseteq Writers /\ stale' \subseteq Writers BY DEF StoreTyped, Commit
<1>4. clobbered' \in BOOLEAN BY Zenon DEF StoreTyped, Commit
<1>5. torn' \in BOOLEAN BY DEF Commit
<1>6. QED BY <1>1, <1>2, <1>3, <1>4, <1>5 DEF StoreTyped

LEMMA WriteFailsTyped ==
  ASSUME StoreTyped, NEW w \in Writers, WriteFails(w)
  PROVE  StoreTyped'
<1>1. next' \in [Writers -> Stores] BY EmptyTyped DEF StoreTyped, WriteFails
<1>2. QED BY <1>1 DEF StoreTyped, WriteFails

\* The contents the routes and the cycles compute.
LEMMA ContentsTyped ==
  ASSUME NEW s \in Stores
  PROVE  /\ \A n \in Nodes : [s EXCEPT !.nodes = @ \cup {n}] \in Stores
         /\ \A n \in Nodes : [s EXCEPT !.nodes = @ \ {n}, !.edges = {e \in @ : e[1] # n /\ e[2] # n}] \in Stores
         /\ \A e \in Connections : [s EXCEPT !.edges = @ \cup {e}] \in Stores
         /\ \A e \in Connections : [s EXCEPT !.edges = @ \ {e}] \in Stores
         /\ \A t \in Triggers, v \in Status : [s EXCEPT !.status[t] = v] \in Stores
  BY DEF Stores

-----------------------------------------------------------------------------
(* The edges of a store.                                                   *)

LEMMA WriteWired ==
  ASSUME StoreTyped, EdgesWired, NEW w \in Writers, NEW content \in Stores, Wired(content),
         Write(w, content)
  PROVE  EdgesWired'
  BY DEF StoreTyped, EdgesWired, Wired, Write

LEMMA CommitWired ==
  ASSUME StoreTyped, EdgesWired, NEW w \in Writers, NEW more, Commit(w, more)
  PROVE  EdgesWired'
  BY DEF StoreTyped, EdgesWired, Wired, Commit

LEMMA WriteFailsWired ==
  ASSUME StoreTyped, EdgesWired, NEW w \in Writers, WriteFails(w)
  PROVE  EdgesWired'
  BY DEF StoreTyped, EdgesWired, Wired, WriteFails

\* Every content computed from a wired store is wired: a node is created
\* without edges, deleted with its edges, and an edge is created between nodes
\* that are there.
LEMMA ContentsWired ==
  ASSUME NEW s \in Stores, Wired(s)
  PROVE  /\ \A n \in Nodes : Wired([s EXCEPT !.nodes = @ \cup {n}])
         /\ \A n \in Nodes :
              Wired([s EXCEPT !.nodes = @ \ {n}, !.edges = {e \in @ : e[1] # n /\ e[2] # n}])
         /\ \A e \in Connections :
              e[1] \in s.nodes /\ e[2] \in s.nodes => Wired([s EXCEPT !.edges = @ \cup {e}])
         /\ \A e \in Connections : Wired([s EXCEPT !.edges = @ \ {e}])
         /\ \A t \in Triggers, v \in Status : Wired([s EXCEPT !.status[t] = v])
  BY DEF Stores, Wired

\* What any step does to the store.
StoreStep ==
  \/ UNCHANGED storeVars
  \/ \E w \in Writers, content \in Stores : Write(w, content) /\ (Wired(cache) => Wired(content))
  \/ \E w \in Writers, more \in BOOLEAN : Commit(w, more)
  \/ \E w \in Writers : WriteFails(w)
  \/ Crash

LEMMA NextIsStoreStep ==
  ASSUME TypeOK, Next
  PROVE  StoreStep
<1>1. cache \in Stores BY DEF TypeOK, StoreTyped
<1>2. Users \subseteq Writers /\ Cycles \subseteq Writers BY DEF Writers
<1>3. ASSUME NEW u \in Users, NEW n \in Nodes, CreateNode(u, n) PROVE StoreStep
  BY <1>1, <1>2, <1>3, ContentsTyped, ContentsWired DEF StoreStep, CreateNode, Request
<1>4. ASSUME NEW u \in Users, NEW n \in Nodes, DeleteNode(u, n) PROVE StoreStep
  BY <1>1, <1>2, <1>4, ContentsTyped, ContentsWired DEF StoreStep, DeleteNode, Request
<1>5. ASSUME NEW u \in Users, NEW e \in Connections, CreateEdge(u, e) PROVE StoreStep
  BY <1>1, <1>2, <1>5, ContentsTyped, ContentsWired DEF StoreStep, CreateEdge, Request
<1>6. ASSUME NEW u \in Users, NEW e \in Connections, DeleteEdge(u, e) PROVE StoreStep
  BY <1>1, <1>2, <1>6, ContentsTyped, ContentsWired DEF StoreStep, DeleteEdge, Request
<1>7. ASSUME NEW u \in Users, Answer(u) \/ Refuse(u) PROVE StoreStep
  BY <1>2, <1>7 DEF StoreStep, Answer, Refuse
<1>8. ASSUME NEW c \in Cycles, NEW t \in Triggers, Evaluate(c, t) PROVE StoreStep
  <2>1. (IF t \in RouteTriggers THEN world[t] ELSE seen[c][t]) \in Status
    BY DEF TypeOK, HistoryTyped, CyclesTyped
  <2>2. QED BY <1>1, <1>2, <1>8, <2>1, ContentsTyped, ContentsWired DEF StoreStep, Evaluate
<1>9. ASSUME NEW c \in Cycles, Saved(c) PROVE StoreStep
  <2>1. Transition(c) \in BOOLEAN BY DEF Transition
  <2>2. QED BY <1>1, <1>2, <1>9, <2>1 DEF StoreStep, Saved
<1>10. ASSUME NEW c \in Cycles, Fire(c) PROVE StoreStep
  BY <1>2, <1>10 DEF StoreStep, Fire
<1>11. ASSUME NEW c \in Cycles, TriggerFails(c) PROVE StoreStep
  BY <1>2, <1>11 DEF StoreStep, TriggerFails
<1>12. ASSUME NEW c \in Cycles, NEW a \in Actions, Act(c, a) PROVE StoreStep
  BY <1>12 DEF StoreStep, Act
<1>13. ASSUME NEW c \in Cycles, ChainEnds(c) \/ CycleEnds(c) PROVE StoreStep
  BY <1>13 DEF StoreStep, ChainEnds, CycleEnds
<1>14. ASSUME NEW c \in Cycles, CycleStarts(c) \/ TopologyLoads(c) \/ TopologyFails(c) PROVE StoreStep
  BY <1>14 DEF StoreStep, CycleStarts, TopologyLoads, TopologyFails
<1>15. ASSUME NEW t \in Triggers, NEW v \in Status, WorldChanges(t, v) PROVE StoreStep
  BY <1>15 DEF StoreStep, WorldChanges
<1>16. ASSUME Crash PROVE StoreStep BY <1>16 DEF StoreStep
<1>17. QED
  BY <1>3, <1>4, <1>5, <1>6, <1>7, <1>8, <1>9, <1>10, <1>11, <1>12, <1>13, <1>14, <1>15, <1>16
  DEF Next, Ask, Engine, Work

\* A crash leaves a content the store held, or was about to hold, or nothing.
LEMMA CrashTyped ==
  ASSUME StoreTyped, Crash
  PROVE  StoreTyped'
<1>1. cache' \in Stores BY EmptyTyped DEF StoreTyped, Crash
<1>2. next' \in [Writers -> Stores] BY EmptyTyped DEF Crash
<1>3. clobbered' \in BOOLEAN /\ torn' \in BOOLEAN BY Zenon DEF StoreTyped, Crash
<1>4. QED BY <1>1, <1>2, <1>3 DEF StoreTyped, Crash

LEMMA StoreStaysTyped ==
  ASSUME TypeOK, Next
  PROVE  StoreTyped'
<1>1. StoreTyped BY DEF TypeOK
<1>2. StoreStep BY NextIsStoreStep
<1>3. CASE UNCHANGED storeVars BY <1>1, <1>3 DEF StoreTyped, storeVars
<1>4. QED
  BY <1>1, <1>2, <1>3, WriteTyped, CommitTyped, WriteFailsTyped, CrashTyped DEF StoreStep

-----------------------------------------------------------------------------
(* The cycles.                                                             *)

LEMMA CyclesStayTyped ==
  ASSUME TypeOK, Next
  PROVE  CyclesTyped'
<1>1. CyclesTyped /\ StoreTyped /\ HistoryTyped BY DEF TypeOK
<1>2. CASE UNCHANGED engineVars BY <1>1, <1>2 DEF CyclesTyped, engineVars
<1>3. ASSUME NEW c \in Cycles, CycleStarts(c) PROVE CyclesTyped'
  BY <1>1, <1>3 DEF CyclesTyped, CycleStarts, StoreTyped
<1>4. ASSUME NEW c \in Cycles, TopologyLoads(c) PROVE CyclesTyped'
  <2>1. [t \in Triggers |-> IF t \in RouteTriggers THEN "unknown" ELSE world[t]] \in [Triggers -> Status]
    BY <1>1 DEF HistoryTyped, Status
  <2>2. QED BY <1>1, <1>4, <2>1 DEF CyclesTyped, TopologyLoads
<1>5. ASSUME NEW c \in Cycles, TopologyFails(c) PROVE CyclesTyped'
  BY <1>1, <1>5, EmptyTyped DEF CyclesTyped, TopologyFails, Stores
<1>6. ASSUME NEW c \in Cycles, NEW t \in Triggers, Evaluate(c, t) PROVE CyclesTyped'
  <2>1. (IF t \in RouteTriggers THEN world[t] ELSE seen[c][t]) \in Status
    BY <1>1 DEF HistoryTyped, CyclesTyped
  <2>2. QED BY <1>1, <1>6, <2>1 DEF CyclesTyped, Evaluate
<1>7. ASSUME NEW c \in Cycles, Saved(c) PROVE CyclesTyped'
  BY <1>1, <1>7 DEF CyclesTyped, Saved
<1>8. ASSUME NEW c \in Cycles, Fire(c) PROVE CyclesTyped'
  BY <1>1, <1>8 DEF CyclesTyped, Fire, Reached
<1>9. ASSUME NEW c \in Cycles, TriggerFails(c) PROVE CyclesTyped'
  BY <1>1, <1>9 DEF CyclesTyped, TriggerFails
<1>10. ASSUME NEW c \in Cycles, NEW a \in Actions, Act(c, a) PROVE CyclesTyped'
  BY <1>1, <1>10 DEF CyclesTyped, Act
<1>11. ASSUME NEW c \in Cycles, ChainEnds(c) PROVE CyclesTyped'
  BY <1>1, <1>11 DEF CyclesTyped, ChainEnds
<1>12. NoTrigger \in [trigger : Triggers, observed : Status]
  BY KindsAssumption DEF NoTrigger, Status
<1>13. ASSUME NEW c \in Cycles, CycleEnds(c) PROVE CyclesTyped'
  BY <1>1, <1>12, <1>13, EmptyTyped DEF CyclesTyped, CycleEnds, Stores
<1>14. CASE Crash
  BY <1>12, <1>14, EmptyTyped DEF CyclesTyped, Crash, Stores
<1>15. Ask => UNCHANGED engineVars
  BY DEF Ask, CreateNode, DeleteNode, CreateEdge, DeleteEdge, Request, Answer, Refuse
<1>16. (\E t \in Triggers, v \in Status : WorldChanges(t, v)) => UNCHANGED engineVars
  BY DEF WorldChanges
<1>17. QED
  BY <1>2, <1>3, <1>4, <1>5, <1>6, <1>7, <1>8, <1>9, <1>10, <1>11, <1>13, <1>14, <1>15, <1>16
  DEF Next, Engine, Work

\* The writes of the others never put a cycle among the writers.
LEMMA CyclesStillAwait ==
  ASSUME TypeOK, Next
  PROVE  CyclesAwaitWrites'
<1>1. CyclesAwaitWrites /\ CyclesTyped BY DEF TypeOK
<1>2. ASSUME NEW u \in Users, NEW content, Write(u, content), UNCHANGED phase
      PROVE  CyclesAwaitWrites'
  BY <1>1, <1>2, KindsAssumption DEF CyclesAwaitWrites, Write
<1>3. ASSUME NEW u \in Users, NEW n \in Nodes, CreateNode(u, n) \/ DeleteNode(u, n)
      PROVE  CyclesAwaitWrites'
  BY <1>2, <1>3 DEF CreateNode, DeleteNode, Request, engineVars
<1>4. ASSUME NEW u \in Users, NEW e \in Connections, CreateEdge(u, e) \/ DeleteEdge(u, e)
      PROVE  CyclesAwaitWrites'
  BY <1>2, <1>4 DEF CreateEdge, DeleteEdge, Request, engineVars
<1>5. ASSUME NEW u \in Users, Answer(u) \/ Refuse(u) PROVE CyclesAwaitWrites'
  BY <1>1, <1>5 DEF CyclesAwaitWrites, Answer, Refuse, Commit, WriteFails, engineVars
<1>6. ASSUME NEW c \in Cycles, NEW t \in Triggers, Evaluate(c, t) PROVE CyclesAwaitWrites'
  BY <1>1, <1>6 DEF CyclesAwaitWrites, CyclesTyped, Evaluate, Write, storeVars
<1>7. ASSUME NEW c \in Cycles, Saved(c) PROVE CyclesAwaitWrites'
  BY <1>1, <1>7 DEF CyclesAwaitWrites, CyclesTyped, Saved, Write, Commit, storeVars
<1>8. ASSUME NEW c \in Cycles, Fire(c) PROVE CyclesAwaitWrites'
  BY <1>1, <1>8 DEF CyclesAwaitWrites, CyclesTyped, Fire, Commit, storeVars
<1>9. ASSUME NEW c \in Cycles, TriggerFails(c) PROVE CyclesAwaitWrites'
  BY <1>1, <1>9 DEF CyclesAwaitWrites, CyclesTyped, TriggerFails, WriteFails
<1>10. ASSUME NEW c \in Cycles, CycleStarts(c) \/ TopologyLoads(c) \/ TopologyFails(c)
       PROVE  CyclesAwaitWrites'
  BY <1>1, <1>10 DEF CyclesAwaitWrites, CyclesTyped, CycleStarts, TopologyLoads, TopologyFails, At,
                     storeVars
<1>11. ASSUME NEW c \in Cycles, NEW a \in Actions, Act(c, a) PROVE CyclesAwaitWrites'
  BY <1>1, <1>11 DEF CyclesAwaitWrites, CyclesTyped, Act, storeVars
<1>12. ASSUME NEW c \in Cycles, ChainEnds(c) \/ CycleEnds(c) PROVE CyclesAwaitWrites'
  BY <1>1, <1>12 DEF CyclesAwaitWrites, CyclesTyped, ChainEnds, CycleEnds, At, storeVars
<1>13. ASSUME NEW t \in Triggers, NEW v \in Status, WorldChanges(t, v) PROVE CyclesAwaitWrites'
  BY <1>1, <1>13 DEF CyclesAwaitWrites, WorldChanges, storeVars, engineVars
<1>14. CASE Crash BY <1>14 DEF CyclesAwaitWrites, Crash
<1>15. QED
  BY <1>3, <1>4, <1>5, <1>6, <1>7, <1>8, <1>9, <1>10, <1>11, <1>12, <1>13, <1>14
  DEF Next, Ask, Engine, Work

-----------------------------------------------------------------------------
(* The world and the history.                                              *)

LEMMA HistoryStaysTyped ==
  ASSUME TypeOK, Next
  PROVE  HistoryTyped'
<1>1. HistoryTyped /\ CyclesTyped /\ cache \in Stores BY DEF TypeOK, StoreTyped
<1>2. ASSUME NEW u \in Users, NEW n \in Nodes, CreateNode(u, n) \/ DeleteNode(u, n)
      PROVE  HistoryTyped'
  BY <1>1, <1>2, CountsAssumption DEF HistoryTyped, CreateNode, DeleteNode, Request
<1>3. ASSUME NEW u \in Users, NEW e \in Connections, CreateEdge(u, e) \/ DeleteEdge(u, e)
      PROVE  HistoryTyped'
  BY <1>1, <1>3, CountsAssumption DEF HistoryTyped, CreateEdge, DeleteEdge, Request
<1>4. ASSUME NEW u \in Users, Answer(u) \/ Refuse(u) PROVE HistoryTyped'
  <2>1. changes' = changes /\ requests' = requests
    BY <1>4 DEF Answer, Refuse, boundVars
  <2>2. faults' = faults \/ (faults' = faults + 1 /\ faults < MaxFaults)
    BY <1>4 DEF Answer, Refuse, WriteFails, boundVars
  <2>3. faults' \in 0 .. MaxFaults
    BY <1>1, <2>2, CountsAssumption DEF HistoryTyped
  <2>4. UNCHANGED <<world, fires, gone, born, overlapped>> BY <1>4 DEF Answer, Refuse
  <2>5. QED BY <1>1, <2>1, <2>4, <2>3 DEF HistoryTyped
<1>5. ASSUME NEW c \in Cycles, CycleStarts(c) \/ TopologyLoads(c) \/ ChainEnds(c) \/ CycleEnds(c)
      PROVE  HistoryTyped'
  <2>1. overlapped' \in BOOLEAN
    BY Zenon, <1>1, <1>5 DEF HistoryTyped, CycleStarts, TopologyLoads, ChainEnds, CycleEnds
  <2>2. QED
    BY <1>1, <1>5, <2>1 DEF HistoryTyped, CycleStarts, TopologyLoads, ChainEnds, CycleEnds, At
<1>6. ASSUME NEW c \in Cycles, TopologyFails(c) PROVE HistoryTyped'
  BY <1>1, <1>6, CountsAssumption DEF HistoryTyped, TopologyFails, At
<1>7. ASSUME NEW c \in Cycles, NEW t \in Triggers, Evaluate(c, t) PROVE HistoryTyped'
  BY <1>1, <1>7 DEF HistoryTyped, Evaluate, At
<1>8. ASSUME NEW c \in Cycles, Saved(c) PROVE HistoryTyped'
  BY <1>1, <1>8 DEF HistoryTyped, Saved, At
<1>9. ASSUME NEW c \in Cycles, Fire(c) PROVE HistoryTyped'
  <2>1. current[c].trigger \in Triggers BY <1>1 DEF CyclesTyped
  <2>2. QED BY <1>1, <1>9, <2>1 DEF HistoryTyped, Fire, At
<1>10. ASSUME NEW c \in Cycles, TriggerFails(c) PROVE HistoryTyped'
  BY <1>1, <1>10, CountsAssumption DEF HistoryTyped, TriggerFails, WriteFails
<1>11. ASSUME NEW c \in Cycles, NEW a \in Actions, Act(c, a) PROVE HistoryTyped'
  BY <1>1, <1>11 DEF HistoryTyped, Act, At
<1>12. ASSUME NEW t \in Triggers, NEW v \in Status, WorldChanges(t, v) PROVE HistoryTyped'
  BY <1>1, <1>12, CountsAssumption DEF HistoryTyped, WorldChanges
<1>13. CASE Crash BY <1>1, <1>13, CountsAssumption DEF HistoryTyped, Crash
<1>14. QED
  BY <1>2, <1>3, <1>4, <1>5, <1>6, <1>7, <1>8, <1>9, <1>10, <1>11, <1>12, <1>13
  DEF Next, Ask, Engine, Work

-----------------------------------------------------------------------------

\* The type invariant of the specification.
THEOREM TypeCorrect == Spec => []TypeOK
<1>1. Init => TypeOK
  <2>1. SUFFICES ASSUME Init PROVE TypeOK OBVIOUS
  <2>2. StoreTyped /\ CyclesAwaitWrites
    BY <2>1, EmptyTyped DEF Init, StoreTyped, CyclesAwaitWrites, Stores
  <2>3. CyclesTyped
    BY <2>1, EmptyTyped, KindsAssumption DEF Init, CyclesTyped, NoTrigger, Stores, Status
  <2>4. HistoryTyped
    <3>1. world \in [Triggers -> Status] BY <2>1 DEF Init, Status
    <3>2. gone \subseteq Nodes /\ born \subseteq Nodes BY <2>1 DEF Init
    <3>3. fires \in [Triggers -> 0 .. 2] BY <2>1 DEF Init
    <3>4. overlapped \in BOOLEAN BY <2>1, Zenon DEF Init
    <3>5. changes = 0 /\ requests = 0 /\ faults = 0 BY <2>1 DEF Init
    <3>6. QED BY <3>1, <3>2, <3>3, <3>4, <3>5, CountsAssumption DEF HistoryTyped
  <2>5. QED BY <2>2, <2>3, <2>4 DEF TypeOK
<1>2. TypeOK /\ [Next]_vars => TypeOK'
  <2>1. ASSUME TypeOK, Next PROVE TypeOK'
    BY <2>1, StoreStaysTyped, CyclesStayTyped, CyclesStillAwait, HistoryStaysTyped DEF TypeOK
  <2>2. ASSUME TypeOK, UNCHANGED vars PROVE TypeOK'
    BY <2>2 DEF TypeOK, StoreTyped, CyclesTyped, HistoryTyped, CyclesAwaitWrites,
                vars, storeVars, engineVars, boundVars
  <2>3. QED BY <2>1, <2>2
<1>3. QED BY <1>1, <1>2, PTL DEF Spec

\* automationStore.ts:130-131: no edge is left without its nodes, whatever
\* requests, cycles, refused writes and crashes do.  EdgesWired is inductive
\* because it also speaks of the contents on their way to the cache.
THEOREM EdgesStayWired == Spec => []EdgesWired
<1>1. Init => EdgesWired
  BY DEF Init, EdgesWired, Wired
<1>2. ASSUME TypeOK, EdgesWired, [Next]_vars PROVE EdgesWired'
  <2>1. StoreTyped /\ Wired(cache) BY <1>2 DEF TypeOK, EdgesWired
  <2>2. CASE UNCHANGED storeVars
    BY <1>2, <2>2 DEF EdgesWired, Wired, storeVars
  <2>3. CASE Crash
    BY <1>2, <2>3 DEF Crash, EdgesWired, Wired, Empty
  <2>4. CASE Next
    BY <1>2, <2>1, <2>2, <2>3, <2>4, NextIsStoreStep, WriteWired, CommitWired, WriteFailsWired
    DEF StoreStep
  <2>5. QED BY <1>2, <2>2, <2>4 DEF vars
<1>3. QED BY <1>1, <1>2, TypeCorrect, PTL DEF Spec

-----------------------------------------------------------------------------
(* What comes back.                                                        *)

\* The writers whose content was computed from the cache as it is.
Current == writing \ stale

\* No node is deleted, kept or written before it is created.
BornInv ==
  /\ gone \subseteq born /\ cache.nodes \subseteq born
  /\ \A w \in writing : next[w].nodes \subseteq born

\* A content that is not stale brings no deleted node back.
GoneInv == \A w \in Current : next[w].nodes \cap gone \subseteq cache.nodes

\* A content has the nodes of the cache, perhaps a new one, and the status of
\* the cache but for a trigger that is evaluated.
Derived(content) ==
  /\ content.nodes \subseteq cache.nodes \cup (born' \ born)
  /\ \A t \in Triggers :
       \/ content.status[t] = cache.status[t]
       \/ \E c \in Cycles : Evaluate(c, t) /\ content.status[t] = current'[c].observed

\* What any step does to the store and to the nodes that come and go.
SourcedStep ==
  \/ UNCHANGED <<storeVars, born, gone>>
  \/ /\ \E w \in Writers, content \in Stores : Write(w, content) /\ Derived(content)
     /\ born \subseteq born' /\ gone \subseteq gone' /\ gone' \subseteq gone \cup cache.nodes
  \/ (\E w \in Writers, more \in BOOLEAN : Commit(w, more)) /\ UNCHANGED <<born, gone>>
  \/ (\E w \in Writers : WriteFails(w)) /\ UNCHANGED <<born, gone>>
  \/ Crash

LEMMA NextIsSourced ==
  ASSUME TypeOK, Next
  PROVE  SourcedStep
<1>1. cache \in Stores BY DEF TypeOK, StoreTyped
<1>2. Users \subseteq Writers /\ Cycles \subseteq Writers BY DEF Writers
<1>3. ASSUME NEW u \in Users, NEW n \in Nodes, CreateNode(u, n) PROVE SourcedStep
  <2> DEFINE content == [cache EXCEPT !.nodes = @ \cup {n}]
  <2>1. content \in Stores /\ Write(u, content)
    BY <1>1, <1>3, ContentsTyped DEF CreateNode, Request
  <2>2. Derived(content) BY <1>1, <1>3 DEF Derived, CreateNode, Stores
  <2>3. QED BY <1>2, <1>3, <2>1, <2>2 DEF SourcedStep, CreateNode
<1>4. ASSUME NEW u \in Users, NEW n \in Nodes, DeleteNode(u, n) PROVE SourcedStep
  <2> DEFINE content == [cache EXCEPT !.nodes = @ \ {n}, !.edges = {e \in @ : e[1] # n /\ e[2] # n}]
  <2>1. content \in Stores /\ Write(u, content)
    BY <1>1, <1>4, ContentsTyped DEF DeleteNode, Request
  <2>2. Derived(content) BY <1>1 DEF Derived, Stores
  <2>3. QED BY <1>2, <1>4, <2>1, <2>2 DEF SourcedStep, DeleteNode
<1>5. ASSUME NEW u \in Users, NEW e \in Connections, CreateEdge(u, e) \/ DeleteEdge(u, e)
      PROVE  SourcedStep
  <2>1. PICK content \in {[cache EXCEPT !.edges = @ \cup {e}], [cache EXCEPT !.edges = @ \ {e}]} :
          Write(u, content)
    BY <1>5 DEF CreateEdge, DeleteEdge, Request
  <2>2. content \in Stores BY <1>1, ContentsTyped
  <2>3. Derived(content) BY <1>1 DEF Derived, Stores
  <2>4. QED BY <1>2, <1>5, <2>1, <2>2, <2>3 DEF SourcedStep, CreateEdge, DeleteEdge
<1>6. ASSUME NEW u \in Users, Answer(u) \/ Refuse(u) PROVE SourcedStep
  BY <1>2, <1>6 DEF SourcedStep, Answer, Refuse
<1>7. ASSUME NEW c \in Cycles, NEW t \in Triggers, Evaluate(c, t) PROVE SourcedStep
  <2> DEFINE observed == IF t \in RouteTriggers THEN world[t] ELSE seen[c][t]
             content == [cache EXCEPT !.status[t] = observed]
  <2>1. observed \in Status BY DEF TypeOK, HistoryTyped, CyclesTyped
  <2>2. content \in Stores BY <1>1, <2>1, ContentsTyped
  <2>3. current'[c].observed = observed BY <1>7 DEF Evaluate, TypeOK, CyclesTyped
  <2> HIDE DEF observed
  <2>4. Derived(content) BY <1>1, <1>7, <2>3 DEF Derived, Stores
  <2>5. born' = born /\ gone' = gone /\ (UNCHANGED storeVars \/ Write(c, content))
    BY <1>7 DEF Evaluate, At, observed
  <2>6. QED BY <1>2, <2>2, <2>4, <2>5 DEF SourcedStep
<1>8. ASSUME NEW c \in Cycles, Saved(c) PROVE SourcedStep
  <2>1. Transition(c) \in BOOLEAN BY DEF Transition
  <2>2. Derived(cache) BY DEF Derived
  <2>3. born' = born /\ gone' = gone BY <1>8 DEF Saved, At
  <2>4. QED BY <1>1, <1>2, <1>8, <2>1, <2>2, <2>3 DEF SourcedStep, Saved
<1>9. ASSUME NEW c \in Cycles, Fire(c) PROVE SourcedStep
  BY <1>2, <1>9 DEF SourcedStep, Fire, At
<1>10. ASSUME NEW c \in Cycles, TriggerFails(c) PROVE SourcedStep
  BY <1>2, <1>10 DEF SourcedStep, TriggerFails
<1>11. ASSUME NEW c \in Cycles, NEW a \in Actions, Act(c, a) PROVE SourcedStep
  BY <1>11 DEF SourcedStep, Act, At
<1>12. ASSUME NEW c \in Cycles, ChainEnds(c) \/ CycleEnds(c) PROVE SourcedStep
  BY <1>12 DEF SourcedStep, ChainEnds, CycleEnds, At
<1>13. ASSUME NEW c \in Cycles, CycleStarts(c) \/ TopologyLoads(c) \/ TopologyFails(c)
       PROVE  SourcedStep
  BY <1>13 DEF SourcedStep, CycleStarts, TopologyLoads, TopologyFails, At
<1>14. ASSUME NEW t \in Triggers, NEW v \in Status, WorldChanges(t, v) PROVE SourcedStep
  BY <1>14 DEF SourcedStep, WorldChanges
<1>15. ASSUME Crash PROVE SourcedStep BY <1>15 DEF SourcedStep
<1>16. QED
  BY <1>3, <1>4, <1>5, <1>6, <1>7, <1>8, <1>9, <1>10, <1>11, <1>12, <1>13, <1>14, <1>15
  DEF Next, Ask, Engine, Work

LEMMA BornStep ==
  ASSUME TypeOK, BornInv, Next
  PROVE  BornInv'
<1>1. SourcedStep BY NextIsSourced
<1>2. StoreTyped BY DEF TypeOK
<1>3. CASE UNCHANGED <<storeVars, born, gone>> BY <1>3 DEF BornInv, storeVars
<1>4. ASSUME NEW w \in Writers, NEW content \in Stores, Write(w, content), Derived(content),
             born \subseteq born', gone \subseteq gone', gone' \subseteq gone \cup cache.nodes
      PROVE  BornInv'
  <2>1. \A v \in writing' : next'[v] = IF v = w THEN content ELSE next[v]
    BY <1>2, <1>4 DEF Write, StoreTyped
  <2>2. content.nodes \subseteq born' BY <1>4 DEF Derived, BornInv
  <2>3. QED BY <1>4, <2>1, <2>2 DEF BornInv, Write
<1>5. ASSUME NEW w \in Writers, NEW more \in BOOLEAN, Commit(w, more), UNCHANGED <<born, gone>>
      PROVE  BornInv'
  <2>1. \A v \in writing' : v \in writing /\ next'[v] = next[v]
    BY <1>2, <1>5 DEF Commit, StoreTyped
  <2>2. QED BY <1>5, <2>1 DEF BornInv, Commit
<1>6. ASSUME NEW w \in Writers, WriteFails(w), UNCHANGED <<born, gone>> PROVE BornInv'
  <2>1. \A v \in writing' : v \in writing /\ next'[v] = next[v]
    BY <1>2, <1>6 DEF WriteFails, StoreTyped
  <2>2. QED BY <1>6, <2>1 DEF BornInv, WriteFails
<1>7. CASE Crash
  <2>1. cache'.nodes \subseteq born BY <1>7 DEF Crash, BornInv, Empty
  <2>2. QED BY <1>7, <2>1 DEF Crash, BornInv
<1>8. QED BY <1>1, <1>3, <1>4, <1>5, <1>6, <1>7 DEF SourcedStep

\* A node comes back by the content of w.
Revives(w) == w \in stale /\ w \in writing /\ w \notin stale'

LEMMA GoneStep ==
  ASSUME TypeOK, BornInv, GoneInv, Next
  PROVE  /\ GoneInv'
         /\ \A n \in gone : n \notin cache.nodes /\ n \in cache'.nodes => \E w \in stale : Revives(w)
<1> DEFINE Back == \A n \in gone : n \notin cache.nodes /\ n \in cache'.nodes
                                     => \E w \in stale : Revives(w)
<1> SUFFICES GoneInv' /\ Back OBVIOUS
<1>1. SourcedStep BY NextIsSourced
<1>2. StoreTyped BY DEF TypeOK
<1>3. CASE UNCHANGED <<storeVars, born, gone>> BY <1>3 DEF GoneInv, Current, storeVars
<1>4. ASSUME NEW w \in Writers, NEW content \in Stores, Write(w, content), Derived(content),
             born \subseteq born', gone \subseteq gone', gone' \subseteq gone \cup cache.nodes
      PROVE  GoneInv' /\ Back
  <2>1. /\ \A v \in writing' : next'[v] = IF v = w THEN content ELSE next[v]
        /\ cache' = cache /\ Current' \subseteq Current \cup {w}
    BY <1>2, <1>4 DEF Write, StoreTyped, Current
  <2>2. content.nodes \cap gone' \subseteq cache.nodes BY <1>4 DEF Derived, BornInv
  <2>3. QED BY <1>4, <2>1, <2>2 DEF GoneInv, Current
<1>5. ASSUME NEW w \in Writers, NEW more \in BOOLEAN, Commit(w, more), UNCHANGED <<born, gone>>
      PROVE  GoneInv' /\ Back
  <2>1. cache' = next[w] /\ Current' \subseteq {w} /\ w \in writing /\ w \notin stale'
        /\ (w \in writing' => next'[w] = next[w])
    BY <1>2, <1>5 DEF Commit, StoreTyped, Current
  <2>2. GoneInv' BY <2>1 DEF GoneInv, Current
  <2>3. Back BY <2>1 DEF GoneInv, Current, Revives
  <2>4. QED BY <2>2, <2>3
<1>6. ASSUME NEW w \in Writers, WriteFails(w), UNCHANGED <<born, gone>> PROVE GoneInv' /\ Back
  <2>1. cache' = cache /\ Current' \subseteq Current /\ \A v \in Current' : next'[v] = next[v]
    BY <1>2, <1>6 DEF WriteFails, StoreTyped, Current
  <2>2. QED BY <1>6, <2>1 DEF GoneInv
<1>7. CASE Crash
  <2>1. GoneInv' BY <1>7 DEF Crash, GoneInv, Current
  <2>2. ASSUME NEW n \in gone, n \notin cache.nodes, n \in cache'.nodes
        PROVE  \E w \in stale : Revives(w)
    <3>1. PICK w \in writing : n \in next[w].nodes BY <1>7, <2>2 DEF Crash, Empty
    <3>2. w \in stale BY <2>2, <3>1 DEF GoneInv, Current
    <3>3. QED BY <1>7, <3>1, <3>2 DEF Crash, Revives
  <2>3. QED BY <2>1, <2>2
<1>8. QED BY <1>1, <1>3, <1>4, <1>5, <1>6, <1>7 DEF SourcedStep

LEMMA BornInit == Init => BornInv /\ GoneInv
BY DEF Init, BornInv, GoneInv, Current, Empty

\* automationStore.ts: for any requests, cycles, refused writes and crashes, a
\* deleted node only comes back with a content computed before its deletion.
THEOREM DeletedStaysDeletedHolds == Spec => DeletedStaysDeleted
<1>1. TypeOK /\ BornInv /\ GoneInv /\ [Next]_vars => (BornInv /\ GoneInv)'
  <2>1. ASSUME BornInv, GoneInv, UNCHANGED vars PROVE (BornInv /\ GoneInv)'
    BY <2>1 DEF BornInv, GoneInv, Current, vars, storeVars
  <2>2. QED BY <2>1, BornStep, GoneStep
<1>2. TypeOK /\ BornInv /\ GoneInv /\ [Next]_vars
        => [\A n \in gone : n \notin cache.nodes /\ n \in cache'.nodes
                             => \E w \in stale : w \in writing /\ w \notin stale']_vars
  BY GoneStep DEF Revives
<1>3. QED BY <1>1, <1>2, BornInit, TypeCorrect, PTL DEF Spec, DeletedStaysDeleted

-----------------------------------------------------------------------------
(* What fires twice.                                                       *)

\* t is no longer in the store, and nothing that counts brings it back.
Lost(t) ==
  t \in born /\ t \notin cache.nodes /\ \A w \in Current : t \notin next[w].nodes

\* As long as t is in the store, it is known to fail.
Settled(t) ==
  /\ t \in born
  /\ t \in cache.nodes => cache.status[t] = "failing"
  /\ \A w \in Current :
       t \in next[w].nodes => t \in cache.nodes /\ next[w].status[t] = "failing"

\* The trigger a cycle is at.
On(c) == current[c].trigger

\* A trigger a cycle has still to evaluate is in the store, or gone for good,
\* and the cycle read that it fails if it already fired.
Pending(c, t) ==
  /\ t \in cache.nodes \/ Lost(t)
  /\ fires[t] = 1 => snapshot[c].status[t] = "failing"

\* What the write of lastStatus will leave.
SavingInv(c) ==
  phase[c] = "saving" =>
    /\ On(c) \notin todo[c]
    /\ current[c].observed = "failing" /\ fires[On(c)] = 1
         => snapshot[c].status[On(c)] = "failing"
    /\ c \notin writing => Lost(On(c))
    /\ c \in Current => On(c) \in next[c].nodes /\ next[c].status[On(c)] = current[c].observed

StampingInv(c) ==
  phase[c] = "stamping" =>
    On(c) \notin todo[c] /\ fires[On(c)] = 0 /\ Settled(On(c))

CycleInv(c) ==
  /\ phase[c] = "idle" => todo[c] = {}
  /\ \A t \in todo[c] : Pending(c, t)
  /\ SavingInv(c) /\ StampingInv(c)

FiredInv == \A t \in Triggers : fires[t] <= 1 /\ (fires[t] = 1 => Settled(t))

\* Cycles come one at a time, and a trigger that fired is known to fail, in the
\* store and in what the cycle read of it.
OnceInv ==
  /\ \A c, d \in Cycles : phase[c] # "idle" /\ phase[d] # "idle" => c = d
  /\ FiredInv
  /\ \A c \in Cycles : CycleInv(c)

OnceAlone == ~overlapped /\ ~clobbered => OnceInv

\* A stale content is never forgotten to have been written.
LEMMA StaysUnclobbered ==
  ASSUME TypeOK, Next, ~clobbered'
  PROVE  ~clobbered
<1>1. SourcedStep BY NextIsSourced
<1>2. QED BY <1>1 DEF SourcedStep, Write, Commit, WriteFails, Crash, storeVars

\* Every step keeps a trigger that is gone for good so.
LEMMA LostStays ==
  ASSUME TypeOK, BornInv, Next, ~clobbered', NEW t \in Triggers, Lost(t)
  PROVE  Lost(t)'
<1>1. SourcedStep BY NextIsSourced
<1>2. StoreTyped BY DEF TypeOK
<1>3. CASE UNCHANGED <<storeVars, born, gone>> BY <1>3 DEF Lost, Current, storeVars
<1>4. ASSUME NEW w \in Writers, NEW content \in Stores, Write(w, content), Derived(content),
             born \subseteq born'
      PROVE  Lost(t)'
  <2>1. /\ \A v \in writing' : next'[v] = IF v = w THEN content ELSE next[v]
        /\ cache' = cache /\ Current' \subseteq Current \cup {w} /\ Current' \subseteq writing'
    BY <1>2, <1>4 DEF Write, StoreTyped, Current
  <2>2. t \notin content.nodes BY <1>4 DEF Derived, Lost
  <2>3. QED BY <1>4, <2>1, <2>2 DEF Lost
<1>5. ASSUME NEW w \in Writers, NEW more \in BOOLEAN, Commit(w, more), born' = born
      PROVE  Lost(t)'
  <2>1. cache' = next[w] /\ Current' \subseteq {w} /\ w \in Current
        /\ (w \in Current' => next'[w] = next[w])
    BY <1>2, <1>5 DEF Commit, StoreTyped, Current
  <2>2. QED BY <1>5, <2>1 DEF Lost
<1>6. ASSUME NEW w \in Writers, WriteFails(w), born' = born PROVE Lost(t)'
  <2>1. cache' = cache /\ Current' \subseteq Current /\ \A v \in Current' : next'[v] = next[v]
    BY <1>2, <1>6 DEF WriteFails, StoreTyped, Current
  <2>2. QED BY <1>6, <2>1 DEF Lost
<1>7. CASE Crash
  <2>1. writing \cap stale = {} BY <1>7 DEF Crash
  <2>2. t \notin cache'.nodes BY <1>7, <2>1 DEF Crash, Lost, Current, Empty
  <2>3. QED BY <1>7, <2>2 DEF Crash, Lost, Current
<1>8. QED BY <1>1, <1>3, <1>4, <1>5, <1>6, <1>7 DEF SourcedStep

\* A trigger leaves the store for good.
LEMMA StaysOrLost ==
  ASSUME TypeOK, BornInv, Next, ~clobbered', NEW t \in Triggers, t \in cache.nodes
  PROVE  t \in cache'.nodes \/ Lost(t)'
<1>1. SourcedStep BY NextIsSourced
<1>2. StoreTyped /\ t \in born BY DEF TypeOK, BornInv
<1>3. CASE UNCHANGED cache BY <1>3
<1>4. ASSUME NEW w \in Writers, NEW more \in BOOLEAN, Commit(w, more), born' = born
      PROVE  t \in cache'.nodes \/ Lost(t)'
  <2>1. cache' = next[w] /\ Current' \subseteq {w} /\ (w \in Current' => next'[w] = next[w])
    BY <1>2, <1>4 DEF Commit, StoreTyped, Current
  <2>2. QED BY <1>2, <1>4, <2>1 DEF Lost
<1>5. CASE Crash BY <1>2, <1>5 DEF Crash, Lost, Current
<1>6. QED BY <1>1, <1>3, <1>4, <1>5 DEF SourcedStep, Write, WriteFails, storeVars

\* A trigger known to fail stays so until it is seen otherwise.
LEMMA SettledStays ==
  ASSUME TypeOK, BornInv, Next, ~clobbered', NEW t \in Triggers, Settled(t),
         \A c \in Cycles : Evaluate(c, t) => current'[c].observed = "failing"
  PROVE  Settled(t)'
<1>1. SourcedStep BY NextIsSourced
<1>2. StoreTyped BY DEF TypeOK
<1>3. CASE UNCHANGED <<storeVars, born, gone>> BY <1>3 DEF Settled, Current, storeVars
<1>4. ASSUME NEW w \in Writers, NEW content \in Stores, Write(w, content), Derived(content),
             born \subseteq born'
      PROVE  Settled(t)'
  <2>1. /\ \A v \in writing' : next'[v] = IF v = w THEN content ELSE next[v]
        /\ cache' = cache /\ Current' \subseteq Current \cup {w} /\ Current' \subseteq writing'
    BY <1>2, <1>4 DEF Write, StoreTyped, Current
  <2>2. t \in content.nodes => t \in cache.nodes /\ content.status[t] = "failing"
    BY <1>4 DEF Derived, Settled
  <2>3. QED BY <1>4, <2>1, <2>2 DEF Settled
<1>5. ASSUME NEW w \in Writers, NEW more \in BOOLEAN, Commit(w, more), born' = born
      PROVE  Settled(t)'
  <2>1. cache' = next[w] /\ Current' \subseteq {w} /\ w \in Current
        /\ (w \in Current' => next'[w] = next[w])
    BY <1>2, <1>5 DEF Commit, StoreTyped, Current
  <2>2. QED BY <1>5, <2>1 DEF Settled
<1>6. ASSUME NEW w \in Writers, WriteFails(w), born' = born PROVE Settled(t)'
  <2>1. cache' = cache /\ Current' \subseteq Current /\ \A v \in Current' : next'[v] = next[v]
    BY <1>2, <1>6 DEF WriteFails, StoreTyped, Current
  <2>2. QED BY <1>6, <2>1 DEF Settled
<1>7. CASE Crash
  <2>1. writing \cap stale = {} BY <1>7 DEF Crash
  <2>2. t \in cache'.nodes => cache'.status[t] = "failing"
    BY <1>7, <2>1 DEF Crash, Settled, Current, Empty
  <2>3. QED BY <1>7, <2>2 DEF Crash, Settled, Current
<1>8. QED BY <1>1, <1>3, <1>4, <1>5, <1>6, <1>7 DEF SourcedStep

\* A step that takes t out of no list of triggers evaluates another.
LEMMA NotEvaluated ==
  ASSUME CyclesTyped, NEW t \in Triggers, \A c \in Cycles : t \in todo[c] => t \in todo'[c]
  PROVE  \A c \in Cycles : ~Evaluate(c, t)
BY DEF Evaluate, CyclesTyped

\* Triggers that fired stay known to fail when none fires or is evaluated.
LEMMA FiredStays ==
  ASSUME TypeOK, BornInv, Next, ~clobbered', FiredInv, fires' = fires,
         \A c \in Cycles : \A t \in todo[c] : t \in todo'[c]
  PROVE  FiredInv'
<1>1. \A t \in Triggers : \A c \in Cycles : ~Evaluate(c, t)
  BY NotEvaluated DEF TypeOK
<1>2. QED BY <1>1, SettledStays DEF FiredInv

\* A trigger still to be evaluated stays so.
LEMMA PendingStays ==
  ASSUME TypeOK, BornInv, Next, ~clobbered', NEW c \in Cycles, NEW t \in Triggers,
         Pending(c, t), fires'[t] = fires[t] \/ fires'[t] = 0, snapshot'[c] = snapshot[c]
  PROVE  Pending(c, t)'
BY LostStays, StaysOrLost DEF Pending

\* A cycle at rest.
LEMMA RestingCycle ==
  ASSUME NEW c \in Cycles, phase'[c] = "idle", todo'[c] = {}
  PROVE  CycleInv(c)'
BY DEF CycleInv, SavingInv, StampingInv

\* A step beside the cycles: a request, or the world.
LEMMA BesideCycles ==
  ASSUME TypeOK, BornInv, Next, ~clobbered', OnceInv, UNCHANGED <<engineVars, fires>>,
         \A c \in Cycles : (c \in writing <=> c \in writing') /\ (c \in writing => next'[c] = next[c]),
         \A c \in Cycles : c \in Current' => c \in Current
  PROVE  OnceInv'
<1>1. CyclesTyped BY DEF TypeOK
<1>2. FiredInv' BY FiredStays DEF OnceInv, engineVars
<1>3. ASSUME NEW c \in Cycles PROVE CycleInv(c)'
  <2>1. CycleInv(c) BY DEF OnceInv
  <2>2. \A t \in Triggers : ~Evaluate(c, t) /\ \A d \in Cycles : ~Evaluate(d, t)
    BY <1>1, NotEvaluated DEF engineVars
  <2>3. On(c) \in Triggers /\ todo[c] \subseteq Triggers BY <1>1 DEF CyclesTyped, On
  <2>4. \A t \in todo[c] : Pending(c, t)'
    BY <2>1, <2>3, PendingStays DEF CycleInv, engineVars
  <2>5. SavingInv(c)'
    BY <2>1, <2>3, LostStays DEF CycleInv, SavingInv, engineVars, On, Current
  <2>6. StampingInv(c)'
    BY <2>1, <2>2, <2>3, SettledStays DEF CycleInv, StampingInv, engineVars, On
  <2>7. QED BY <2>1, <2>4, <2>5, <2>6 DEF CycleInv, engineVars
<1>4. QED BY <1>2, <1>3 DEF OnceInv, engineVars

\* A step of the cycle c: the others are at rest.
LEMMA OneCycle ==
  ASSUME CyclesTyped, OnceInv, NEW c \in Cycles, phase[c] # "idle",
         \A d \in Cycles \ {c} : phase'[d] = phase[d] /\ todo'[d] = todo[d],
         FiredInv', CycleInv(c)'
  PROVE  OnceInv'
<1>1. \A d \in Cycles \ {c} : phase[d] = "idle" /\ todo[d] = {} BY DEF OnceInv, CycleInv
<1>2. \A d \in Cycles \ {c} : CycleInv(d)' BY <1>1, RestingCycle
<1>3. QED BY <1>1, <1>2 DEF OnceInv

LEMMA UsersOnce ==
  ASSUME TypeOK, BornInv, Next, ~clobbered', OnceInv, Ask
  PROVE  OnceInv'
<1>1. Cycles \cap Users = {} BY KindsAssumption
<1>2. next \in [Writers -> Stores] BY DEF TypeOK, StoreTyped
<1>3. ASSUME NEW u \in Users, NEW content, Write(u, content), UNCHANGED <<engineVars, fires>>
      PROVE  OnceInv'
  <2>1. \A c \in Cycles : /\ (c \in writing <=> c \in writing') /\ next'[c] = next[c]
                          /\ (c \in Current' => c \in Current)
    BY <1>1, <1>2, <1>3 DEF Write, Current, Writers
  <2>2. QED BY <1>3, <2>1, BesideCycles
<1>4. ASSUME NEW u \in Users, Commit(u, FALSE) \/ WriteFails(u), UNCHANGED <<engineVars, fires>>
      PROVE  OnceInv'
  <2>1. \A c \in Cycles : /\ (c \in writing <=> c \in writing') /\ next'[c] = next[c]
                          /\ (c \in Current' => c \in Current)
    BY <1>1, <1>2, <1>4 DEF Commit, WriteFails, Current, Writers
  <2>2. QED BY <1>4, <2>1, BesideCycles
<1>5. QED
  BY <1>3, <1>4 DEF Ask, CreateNode, DeleteNode, CreateEdge, DeleteEdge, Request, Answer, Refuse

\* A cycle starts alone, on the store as it is.
LEMMA StartOnce ==
  ASSUME TypeOK, BornInv, Next, ~overlapped', ~clobbered', OnceInv, NEW c \in Cycles, CycleStarts(c)
  PROVE  OnceInv'
<1>1. CyclesTyped /\ StoreTyped BY DEF TypeOK
<1>2. \A d \in Cycles : phase[d] = "idle" /\ todo[d] = {}
  BY DEF CycleStarts, OnceInv, CycleInv
<1>3. UNCHANGED <<storeVars, fires, born, gone>> BY DEF CycleStarts, At
<1>4. FiredInv' BY <1>2, <1>3, FiredStays DEF OnceInv
<1>5. /\ phase'[c] = "loading" /\ snapshot'[c] = cache /\ todo'[c] = cache.nodes \cap Triggers
      /\ \A d \in Cycles \ {c} : phase'[d] = "idle" /\ todo'[d] = {}
  BY <1>1, <1>2 DEF CycleStarts, CyclesTyped
<1>6. \A t \in todo'[c] : Pending(c, t)'
  BY <1>3, <1>5 DEF Pending, OnceInv, FiredInv, Settled, storeVars
<1>7. CycleInv(c)' BY <1>5, <1>6 DEF CycleInv, SavingInv, StampingInv
<1>8. QED BY <1>4, <1>5, <1>7, RestingCycle DEF OnceInv

\* The steps of a cycle that neither write nor fire.
LEMMA QuietOnce ==
  ASSUME TypeOK, BornInv, Next, ~clobbered', OnceInv, NEW c \in Cycles, phase[c] # "idle",
         NEW to \in {"idle", "evaluating", "acting"}, phase' = [phase EXCEPT ![c] = to],
         todo' = todo, to = "idle" => todo[c] = {}, to = "idle" \/ snapshot' = snapshot,
         fires' = fires
  PROVE  OnceInv'
<1>1. CyclesTyped BY DEF TypeOK
<1>2. FiredInv' BY FiredStays DEF OnceInv
<1>3. phase'[c] = to /\ \A d \in Cycles \ {c} : phase'[d] = phase[d] BY <1>1 DEF CyclesTyped
<1>4. todo[c] \subseteq Triggers BY <1>1 DEF CyclesTyped
<1>5. \A t \in todo[c] : Pending(c, t)' BY <1>4, PendingStays DEF OnceInv, CycleInv
<1>6. CycleInv(c)' BY <1>3, <1>5 DEF CycleInv, SavingInv, StampingInv
<1>7. QED BY <1>1, <1>2, <1>3, <1>6, OneCycle

LEMMA EvaluateOnce ==
  ASSUME TypeOK, BornInv, Next, ~clobbered', OnceInv, NEW c \in Cycles, NEW t \in Triggers,
         Evaluate(c, t)
  PROVE  OnceInv'
<1>1. CyclesTyped /\ StoreTyped /\ CyclesAwaitWrites /\ HistoryTyped BY DEF TypeOK
<1>2. c \in Writers BY DEF Writers
<1>3. /\ phase[c] = "evaluating" /\ t \in todo[c] /\ snapshot' = snapshot /\ born' = born
      /\ phase'[c] = "saving" /\ todo'[c] = todo[c] \ {t} /\ On(c)' = t
      /\ \A d \in Cycles \ {c} : phase'[d] = phase[d] /\ todo'[d] = todo[d]
  BY <1>1 DEF Evaluate, At, CyclesTyped, On
<1>4. fires' = IF current'[c].observed = "failing" THEN fires ELSE [fires EXCEPT ![t] = 0]
  BY <1>1 DEF Evaluate, CyclesTyped
<1>5. Pending(c, t) /\ \A u \in todo[c] : Pending(c, u) BY <1>3 DEF OnceInv, CycleInv
<1>6. \A u \in Triggers : fires'[u] = fires[u] \/ fires'[u] = 0
  BY <1>1, <1>4 DEF HistoryTyped
<1>7. FiredInv'
  <2>1. SUFFICES ASSUME NEW u \in Triggers, fires'[u] = 1 PROVE Settled(u)'
    BY <1>6 DEF FiredInv, OnceInv
  <2>2. fires[u] = 1 /\ Settled(u) BY <1>6, <2>1 DEF FiredInv, OnceInv
  <2>3. CASE u = t
    <3>1. current'[c].observed = "failing" BY <1>1, <1>4, <2>1, <2>3 DEF HistoryTyped
    <3>2. ASSUME NEW d \in Cycles, Evaluate(d, u) PROVE current'[d].observed = "failing"
      <4>1. d = c BY <1>1, <1>3, <3>2, <2>3 DEF Evaluate, CyclesTyped
      <4>2. QED BY <3>1, <4>1
    <3>3. QED BY <2>2, <3>2, SettledStays
  <2>4. CASE u # t
    <3>1. \A d \in Cycles : u \in todo[d] => u \in todo'[d] BY <1>3, <2>4
    <3>2. \A d \in Cycles : ~Evaluate(d, u) BY <1>1, <3>1, NotEvaluated
    <3>3. QED BY <2>2, <3>2, SettledStays
  <2>5. QED BY <2>3, <2>4
<1>8. ASSUME NEW u \in todo'[c] PROVE Pending(c, u)'
  <2>1. u \in todo[c] /\ u \in Triggers BY <1>1, <1>3, <1>8 DEF CyclesTyped
  <2>2. QED BY <1>3, <1>5, <1>6, <2>1, PendingStays
<1>9. c \notin writing BY <1>1, <1>3 DEF CyclesAwaitWrites
<1>10. SavingInv(c)'
  <2>1. current'[c].observed = "failing" /\ fires'[t] = 1 => snapshot'[c].status[t] = "failing"
    BY <1>3, <1>4, <1>5 DEF Pending
  <2>2. CASE t \in cache.nodes
    <3>1. Write(c, [cache EXCEPT !.status[t] = current'[c].observed])
      BY <1>1, <2>2 DEF Evaluate, CyclesTyped
    <3>2. c \in writing' /\ next'[c] = [cache EXCEPT !.status[t] = current'[c].observed]
      BY <1>1, <1>2, <3>1 DEF Write, StoreTyped
    <3>3. t \in next'[c].nodes /\ next'[c].status[t] = current'[c].observed
      BY <1>1, <2>2, <3>2 DEF StoreTyped, Stores
    <3>4. QED BY <1>3, <2>1, <3>2, <3>3 DEF SavingInv
  <2>3. CASE t \notin cache.nodes
    <3>1. Lost(t) /\ UNCHANGED storeVars BY <1>5, <2>3 DEF Pending, Evaluate
    <3>2. Lost(t)' BY <3>1, LostStays
    <3>3. c \notin Current' BY <1>9, <3>1 DEF Current, storeVars
    <3>4. QED BY <1>3, <2>1, <3>2, <3>3 DEF SavingInv
  <2>4. QED BY <2>2, <2>3
<1>11. CycleInv(c)' BY <1>3, <1>8, <1>10 DEF CycleInv, StampingInv
<1>12. QED BY <1>1, <1>3, <1>7, <1>11, OneCycle

LEMMA SavedOnce ==
  ASSUME TypeOK, BornInv, Next, ~clobbered', OnceInv, NEW c \in Cycles, Saved(c)
  PROVE  OnceInv'
<1>1. CyclesTyped /\ StoreTyped /\ HistoryTyped BY DEF TypeOK
<1>2. c \in Writers BY DEF Writers
<1>3. /\ phase[c] = "saving" /\ UNCHANGED <<snapshot, todo, current, fires, born>>
      /\ phase'[c] = (IF Transition(c) THEN "stamping" ELSE "evaluating")
      /\ \A d \in Cycles \ {c} : phase'[d] = phase[d]
  BY <1>1 DEF Saved, At, CyclesTyped
<1>4. FiredInv' BY <1>3, FiredStays DEF OnceInv
<1>5. On(c) \in Triggers /\ todo[c] \subseteq Triggers /\ On(c)' = On(c)
  BY <1>1, <1>3 DEF CyclesTyped, On
<1>6. \A t \in todo[c] : Pending(c, t)' BY <1>3, <1>5, PendingStays DEF OnceInv, CycleInv
<1>7. SavingInv(c) BY DEF OnceInv, CycleInv
<1>8. StampingInv(c)'
  <2>1. SUFFICES ASSUME Transition(c) PROVE StampingInv(c)' BY <1>3 DEF StampingInv
  <2>2. current[c].observed = "failing" /\ snapshot[c].status[On(c)] # "failing"
    BY <2>1 DEF Transition, On
  <2>3. fires[On(c)] = 0
    <3>1. fires[On(c)] \in 0 .. 2 /\ fires[On(c)] <= 1
      BY <1>1, <1>5 DEF HistoryTyped, OnceInv, FiredInv
    <3>2. fires[On(c)] # 1 BY <1>3, <1>7, <2>2 DEF SavingInv
    <3>3. QED BY <3>1, <3>2
  <2>4. Settled(On(c))'
    <3>1. CASE c \notin writing
      <4>1. Lost(On(c))' BY <1>3, <1>5, <1>7, <3>1, LostStays DEF SavingInv
      <4>2. QED BY <1>5, <4>1 DEF Lost, Settled
    <3>2. CASE c \in writing
      <4>1. Commit(c, Transition(c)) BY <3>2 DEF Saved
      <4>2. c \in Current BY <3>2, <4>1 DEF Commit, Current
      <4>3. On(c) \in next[c].nodes /\ next[c].status[On(c)] = "failing"
        BY <1>3, <1>7, <2>2, <4>2 DEF SavingInv
      <4>4. cache' = next[c] /\ Current' \subseteq {c} /\ next' = next
        BY <2>1, <4>1 DEF Commit, Current
      <4>5. On(c) \in born' BY <1>3, <3>2, <4>3 DEF BornInv
      <4>6. QED BY <1>5, <4>3, <4>4, <4>5 DEF Settled
    <3>3. QED BY <3>1, <3>2
  <2>5. QED BY <1>3, <1>5, <1>7, <2>3, <2>4 DEF SavingInv, StampingInv
<1>9. CycleInv(c)' BY <1>3, <1>6, <1>8 DEF CycleInv, SavingInv
<1>10. QED BY <1>1, <1>3, <1>4, <1>9, OneCycle

LEMMA FireOnce ==
  ASSUME TypeOK, BornInv, Next, ~clobbered', OnceInv, NEW c \in Cycles, Fire(c)
  PROVE  OnceInv'
<1>1. CyclesTyped /\ HistoryTyped BY DEF TypeOK
<1>2. /\ phase[c] = "stamping" /\ UNCHANGED <<snapshot, todo, current, born>>
      /\ phase'[c] = "acting" /\ \A d \in Cycles \ {c} : phase'[d] = phase[d]
  BY <1>1 DEF Fire, At, CyclesTyped
<1>3. StampingInv(c) BY DEF OnceInv, CycleInv
<1>4. On(c) \in Triggers /\ todo[c] \subseteq Triggers BY <1>1 DEF CyclesTyped, On
<1>5. fires' = [fires EXCEPT ![On(c)] = 1]
  <2>1. fires[On(c)] = 0 BY <1>2, <1>3 DEF StampingInv
  <2>2. fires' = [fires EXCEPT ![On(c)] = IF @ = 2 THEN 2 ELSE @ + 1] BY DEF Fire, On
  <2>3. fires[On(c)] # 2 /\ fires[On(c)] + 1 = 1 BY <2>1
  <2>4. QED BY <2>2, <2>3
<1>6. \A t \in Triggers : \A d \in Cycles : ~Evaluate(d, t)
  BY <1>1, <1>2, NotEvaluated
<1>7. FiredInv'
  <2>1. SUFFICES ASSUME NEW t \in Triggers PROVE fires'[t] <= 1 /\ (fires'[t] = 1 => Settled(t)')
    BY DEF FiredInv
  <2>2. (fires'[t] = 1 /\ t = On(c)) \/ fires'[t] = fires[t] BY <1>1, <1>5 DEF HistoryTyped
  <2>3. fires'[t] <= 1 BY <2>2 DEF OnceInv, FiredInv
  <2>4. fires'[t] = 1 => Settled(t) BY <1>2, <1>3, <2>2 DEF OnceInv, FiredInv, StampingInv
  <2>5. QED BY <1>6, <2>3, <2>4, SettledStays
<1>8. ASSUME NEW t \in todo[c] PROVE Pending(c, t)'
  <2>1. t \in Triggers /\ t # On(c) BY <1>2, <1>3, <1>4, <1>8 DEF StampingInv
  <2>2. fires'[t] = fires[t] BY <1>1, <1>5, <2>1 DEF HistoryTyped
  <2>3. QED BY <1>2, <1>8, <2>1, <2>2, PendingStays DEF OnceInv, CycleInv
<1>9. CycleInv(c)' BY <1>2, <1>8 DEF CycleInv, SavingInv, StampingInv
<1>10. QED BY <1>1, <1>2, <1>7, <1>9, OneCycle

LEMMA CrashOnce ==
  ASSUME TypeOK, BornInv, Next, ~clobbered', OnceInv, Crash
  PROVE  OnceInv'
<1>1. \A c \in Cycles : phase'[c] = "idle" /\ todo'[c] = {} BY DEF Crash
<1>2. \A t \in Triggers : \A c \in Cycles : ~Evaluate(c, t)
  BY <1>1 DEF Evaluate, TypeOK, CyclesTyped
<1>3. FiredInv' BY <1>2, SettledStays DEF OnceInv, FiredInv, Crash
<1>4. QED BY <1>1, <1>3, RestingCycle DEF OnceInv

LEMMA OnceStep ==
  ASSUME TypeOK, BornInv, OnceAlone, Next
  PROVE  OnceAlone'
<1>1. SUFFICES ASSUME ~overlapped', ~clobbered' PROVE OnceInv' BY DEF OnceAlone
<1>2. ~overlapped
  BY <1>1 DEF Next, Ask, Engine, Work, CreateNode, DeleteNode, CreateEdge, DeleteEdge, Request,
     Answer, Refuse, CycleStarts, TopologyLoads, TopologyFails, Evaluate, Saved, Fire, TriggerFails,
     Act, ChainEnds, CycleEnds, WorldChanges, Crash
<1>3. OnceInv BY <1>1, <1>2, StaysUnclobbered DEF OnceAlone
<1>4. CyclesTyped BY DEF TypeOK
<1>5. CASE Ask BY <1>1, <1>3, <1>5, UsersOnce
<1>6. ASSUME NEW t \in Triggers, NEW v \in Status, WorldChanges(t, v) PROVE OnceInv'
  BY <1>1, <1>3, <1>6, BesideCycles DEF WorldChanges, storeVars, Current
<1>7. CASE Crash BY <1>1, <1>3, <1>7, CrashOnce
<1>8. ASSUME NEW c \in Cycles, CycleStarts(c) PROVE OnceInv'
  BY <1>1, <1>3, <1>8, StartOnce
<1>9. ASSUME NEW c \in Cycles, TopologyLoads(c) \/ TopologyFails(c) \/ TriggerFails(c) \/ ChainEnds(c)
      PROVE  OnceInv'
  <2>1. /\ phase[c] # "idle" /\ phase' = [phase EXCEPT ![c] = "evaluating"]
        /\ UNCHANGED <<todo, snapshot, fires>>
    BY <1>9 DEF TopologyLoads, TopologyFails, TriggerFails, ChainEnds, At
  <2>2. QED BY <1>1, <1>3, <2>1, QuietOnce
<1>10. ASSUME NEW c \in Cycles, CycleEnds(c) PROVE OnceInv'
  BY <1>1, <1>3, <1>10, QuietOnce DEF CycleEnds, At
<1>11. ASSUME NEW c \in Cycles, NEW a \in Actions, Act(c, a) PROVE OnceInv'
  <2>1. /\ phase[c] = "acting" /\ phase' = [phase EXCEPT ![c] = "acting"]
        /\ UNCHANGED <<todo, snapshot, fires>>
    BY <1>4, <1>11 DEF Act, At, CyclesTyped
  <2>2. QED BY <1>1, <1>3, <2>1, QuietOnce
<1>12. ASSUME NEW c \in Cycles, NEW t \in Triggers, Evaluate(c, t) PROVE OnceInv'
  BY <1>1, <1>3, <1>12, EvaluateOnce
<1>13. ASSUME NEW c \in Cycles, Saved(c) \/ Fire(c) PROVE OnceInv'
  BY <1>1, <1>3, <1>13, SavedOnce, FireOnce
<1>14. QED
  BY <1>5, <1>6, <1>7, <1>8, <1>9, <1>10, <1>11, <1>12, <1>13 DEF Next, Engine, Work

\* automationEngine.ts:17-20: for any triggers, requests, refused writes and
\* restarts, as long as cycles do not overlap and no list overwrites a newer
\* one, a trigger that stays failing fires once.
THEOREM FiresOnce == Spec => []FiresOncePerFailure
<1>1. Init => BornInv /\ OnceAlone
  <2>1. SUFFICES ASSUME Init PROVE OnceInv BY BornInit DEF OnceAlone
  <2>2. \A c \in Cycles : phase[c] = "idle" /\ todo[c] = {} BY <2>1 DEF Init
  <2>3. \A t \in Triggers : fires[t] = 0 BY <2>1 DEF Init
  <2>4. QED BY <2>2, <2>3 DEF OnceInv, FiredInv, CycleInv, SavingInv, StampingInv
<1>2. TypeOK /\ BornInv /\ OnceAlone /\ [Next]_vars => (BornInv /\ OnceAlone)'
  <2>1. ASSUME BornInv, OnceAlone, UNCHANGED vars PROVE (BornInv /\ OnceAlone)'
    BY <2>1 DEF BornInv, OnceAlone, OnceInv, FiredInv, CycleInv, Pending, SavingInv, StampingInv,
       Lost, Settled, On, Current, vars, storeVars, engineVars
  <2>2. QED BY <2>1, BornStep, OnceStep
<1>3. OnceAlone => FiresOncePerFailure BY DEF OnceAlone, OnceInv, FiredInv, FiresOncePerFailure
<1>4. QED BY <1>1, <1>2, <1>3, TypeCorrect, PTL DEF Spec
=============================================================================
