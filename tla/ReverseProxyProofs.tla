-------------------------- MODULE ReverseProxyProofs --------------------------
(***************************************************************************)
(* Proofs about ReverseProxy, for every value of its constants: the type   *)
(* invariant, that two routes never share a subdomain, what makes a route  *)
(* come and go, and that the DNS has the records the routes claim.  At the *)
(* end, of Certificates: its types, that nothing but its own renewal or    *)
(* removal replaces a certificate, and what Caddy presents for the routes. *)
(*                                                                         *)
(* The safety results follow a request from the list it reads to the list  *)
(* it writes.  The first holds because what is written is unambiguous by   *)
(* itself, whatever the cache became; the second because, unless another   *)
(* wrote meanwhile, what is written is the cache but for one route; the    *)
(* third because a request alone names before it writes, and takes a name  *)
(* away after it wrote.                                                    *)
(***************************************************************************)
EXTENDS ReverseProxy, FiniteSetTheorems, TLAPS

\* No route is numbered beyond the requests made.
Known(routes) == \A r \in routes : r.id <= MaxOld + requests

\* What a request holds is unambiguous, and is still with its change.
Intact(h) ==
  /\ Unambiguous(list[h]) /\ Known(list[h])
  /\ Working(h) => target[h].id <= MaxOld + requests
  /\ pc[h] = "naming" /\ op[h] = "create" =>
       /\ target[h].subdomain \notin SubdomainsOf(list[h])
       /\ target[h].id \notin IdsOf(list[h])
  /\ pc[h] = "naming" /\ op[h] = "resync" => target[h] \in list[h]

UniqueInv ==
  /\ SubdomainsUnique /\ Known(cache) /\ Known(disk)
  /\ \A h \in Handlers : Intact(h)

\* Unless another wrote since, the list of a request is the cache, or differs
\* from it by the route it adds or removes.
Fresh(h) ==
  /\ pc[h] = "naming" => list[h] = cache /\ (op[h] = "resync" => target[h] \in cache)
  /\ pc[h] = "writing" =>
       IdsOf(list[h]) = IF op[h] = "create" THEN IdsOf(cache) \cup {target[h].id}
                        ELSE IF op[h] = "delete" THEN IdsOf(cache) \ {target[h].id}
                        ELSE IdsOf(cache)

\* After a clean write the file holds what the cache holds.
SavedInv == ~blemished => disk = cache

FateInv == SavedInv /\ \A h \in Handlers \ behind : Fresh(h)

-----------------------------------------------------------------------------
(* Types.                                                                  *)

\* A push or a cycle goes on.
Turns(p, to) ==
  /\ pc[p] \in {"idle", "pushing", "fetching"}
  /\ to \in {"idle", "pushing"} \/ (to = "fetching" /\ p = Reconciler)
  /\ pc' = [pc EXCEPT ![p] = to]

\* The steps that leave the routes, and what requests do with them, alone.
Aside ==
  /\ UNCHANGED <<cache, disk, shared, behind, blemished, dns, op, target, list, overlapped,
                 crashes>>
  /\ UNCHANGED pc \/ \E p \in Pushers, to \in {"idle", "pushing", "fetching"} : Turns(p, to)
  /\ requests' = requests \/ (requests < MaxRequests /\ requests' = requests + 1)

LEMMA PushBeginsAside ==
  ASSUME NEW h \in Handlers, PushBegins(h)
  PROVE  Aside
<1>1. Turns(h, "pushing") /\ h \in Pushers BY DEF PushBegins, StartPush, Turns, Pushers
<1>2. QED BY <1>1 DEF PushBegins, Aside, listVars, requestVars

LEMMA PushAside ==
  ASSUME NEW p \in Pushers, Push(p)
  PROVE  Aside
<1> USE DEF listVars, requestVars, boundVars, Aside
<1>1. ASSUME NEW r \in plan[p], Resolve(p, r) \/ ResolveFails(p, r) PROVE Aside
  BY <1>1 DEF Resolve, ResolveFails
<1>2. CASE Load(p) \/ LoadFails(p) \/ LoadTimesOut(p)
  <2>1. Turns(p, "idle") BY <1>2 DEF Load, LoadFails, LoadTimesOut, Sends, EndPush, Turns
  <2>2. QED BY <1>2, <2>1 DEF Load, LoadFails, LoadTimesOut
<1>3. QED BY <1>1, <1>2 DEF Push

LEMMA ReconcileAside ==
  ASSUME Reconcile
  PROVE  Aside
<1>1. \E to \in {"idle", "pushing", "fetching"} : Turns(Reconciler, to)
  BY DEF Reconcile, CycleStarts, Fetched, FetchFails, InSync, StartPush, EndPush, Turns
<1>2. Reconciler \in Pushers BY DEF Pushers
<1>3. QED
  BY <1>1, <1>2 DEF Reconcile, CycleStarts, Fetched, FetchFails, InSync, Aside, listVars,
                    requestVars, boundVars

LEMMA WorldAside ==
  ASSUME World, ~Crash
  PROVE  Aside
BY DEF World, LateLoad, ContainerMoves, CaddyRestarts, Aside, listVars, requestVars, boundVars

\* Requests begin, go on and end; the process dies; the rest is aside.
LEMMA StepKinds ==
  ASSUME Next
  PROVE  \/ \E h \in Handlers : (\E s \in Subdomains : CreateBegins(h, s))
                                \/ (\E r \in cache : ResyncBegins(h, r) \/ DeleteBegins(h, r))
         \/ \E h \in Handlers : Handle(h)
         \/ Crash
         \/ Aside
BY PushBeginsAside, PushAside, ReconcileAside, WorldAside DEF Next, Asked

\* The first request for route r by h, when there is room for it.
LEMMA NewIsRoute ==
  ASSUME BoundsHold, NEW s \in Subdomains, requests < MaxRequests
  PROVE  [id |-> MaxOld + requests + 1, subdomain |-> s, synced |-> FALSE] \in Routes
<1>1. MaxOld + requests + 1 \in Ids BY BoundsAssumption DEF BoundsHold, Ids
<1>2. QED BY <1>1 DEF Routes

LEMMA RenewedIsTyped ==
  ASSUME ListsTyped, NEW h \in Handlers, target[h] \in Routes, NEW synced \in BOOLEAN
  PROVE  Renewed(h, synced) \subseteq Routes
<1>1. [target[h] EXCEPT !.synced = synced] \in Routes BY DEF Routes
<1>2. list[h] \subseteq Routes BY DEF ListsTyped
<1>3. QED BY <1>1, <1>2 DEF Renewed

LEMMA ListsStayTyped ==
  ASSUME TypeOK, Next
  PROVE  ListsTyped'
<1>1. ListsTyped /\ RequestsTyped /\ BoundsHold BY DEF TypeOK
<1> USE DEF listVars, requestVars, boundVars
<1>2. ASSUME NEW h \in Handlers, NEW s \in Subdomains, CreateBegins(h, s) PROVE ListsTyped'
  BY <1>1, <1>2 DEF CreateBegins, Request, ListsTyped
<1>3. ASSUME NEW h \in Handlers, NEW r \in cache, ResyncBegins(h, r) PROVE ListsTyped'
  BY <1>1, <1>3 DEF ResyncBegins, Request, ListsTyped
<1>4. ASSUME NEW h \in Handlers, NEW r \in cache, DeleteBegins(h, r) PROVE ListsTyped'
  BY <1>1, <1>4 DEF DeleteBegins, Request, StartWrite, ListsTyped
<1>5. ASSUME NEW h \in Handlers, Named(h) PROVE ListsTyped'
  <2>1. target[h] \in Routes BY <1>1, <1>5 DEF Named, RequestsTyped, Working
  <2>2. PICK synced \in BOOLEAN, present \in BOOLEAN :
          /\ dns' = IF present THEN dns \cup {target[h].subdomain} ELSE dns
          /\ StartWrite(h, Renewed(h, synced))
    BY <1>5 DEF Named
  <2>3. dns' \subseteq Subdomains BY <1>1, <2>1, <2>2 DEF ListsTyped, Routes
  <2>4. Renewed(h, synced) \subseteq Routes BY <1>1, <2>1, RenewedIsTyped
  <2>5. list' \in [Handlers -> SUBSET Routes] /\ shared' \subseteq Handlers
    BY <1>1, <2>2, <2>4 DEF StartWrite, ListsTyped
  <2>6. QED BY <1>1, <1>5, <2>3, <2>5 DEF Named, ListsTyped
<1>6. ASSUME NEW h \in Handlers, GivesUp(h) PROVE ListsTyped'
  BY <1>1, <1>6 DEF GivesUp, Release, ListsTyped
<1>7. ASSUME NEW h \in Handlers, Written(h), list' = [list EXCEPT ![h] = {}] PROVE ListsTyped'
  <2>1. disk' \subseteq Routes BY <1>1, <1>7 DEF Written, Landed, ListsTyped
  <2>2. behind' \subseteq Handlers /\ shared' \subseteq Handlers
    BY <1>1, <1>7 DEF Written, ListsTyped
  <2>3. QED BY <1>1, <1>7, <2>1, <2>2 DEF Written, ListsTyped
<1>8. ASSUME NEW h \in Handlers, CreateWritten(h) \/ ResyncWritten(h) \/ DeleteWritten(h)
      PROVE  ListsTyped'
  BY <1>7, <1>8 DEF CreateWritten, ResyncWritten, DeleteWritten, Release
<1>9. ASSUME NEW h \in Handlers, Unnamed(h) PROVE ListsTyped'
  BY <1>1, <1>9 DEF Unnamed, Release, ListsTyped
<1>10. ASSUME NEW h \in Handlers, WriteFails(h) PROVE ListsTyped'
  BY <1>1, <1>10 DEF WriteFails, Release, ListsTyped
<1>11. CASE Crash
  <2>1. cache' \subseteq Routes /\ disk' \subseteq Routes BY <1>1, <1>11 DEF Crash, ListsTyped
  <2>2. \A h \in Handlers : pc[h] = "naming" => target[h].subdomain \in Subdomains
    BY <1>1 DEF RequestsTyped, Working, Routes
  <2>3. dns' \subseteq Subdomains BY <1>1, <1>11, <2>2 DEF Crash, NamesAt, ListsTyped
  <2>4. QED BY <1>1, <1>11, <2>1, <2>3 DEF Crash, ListsTyped
<1>12. ASSUME Aside PROVE ListsTyped'
  BY <1>1, <1>12 DEF Aside, ListsTyped
<1>13. QED
  BY <1>2, <1>3, <1>4, <1>5, <1>6, <1>8, <1>9, <1>10, <1>11, <1>12, StepKinds DEF Handle

\* Where a request may stand.
Stands(h) ==
  /\ pc[h] # "fetching"
  /\ Working(h) => target[h] \in Routes /\ op[h] # "none"
  /\ pc[h] = "naming" => op[h] # "delete"
  /\ pc[h] = "unnaming" => op[h] = "delete"
  /\ h \in shared => pc[h] = "writing"
  /\ h \in behind => Editing(h)

\* Pushes and the reconciler never touch a request that works on the routes.
LEMMA AsideKeepsRequests ==
  ASSUME RequestsTyped, Aside
  PROVE  RequestsTyped'
<1>1. ASSUME NEW p \in Pushers, NEW to \in {"idle", "pushing", "fetching"}, Turns(p, to)
      PROVE  RequestsTyped'
  <2>1. pc' \in [Pushers -> {"idle", "naming", "writing", "unnaming", "fetching", "pushing"}]
    BY <1>1 DEF RequestsTyped, Turns
  <2>2. pc'[Reconciler] \in {"idle", "fetching", "pushing"}
    BY <1>1 DEF RequestsTyped, Turns, Pushers
  <2>3. ASSUME NEW h \in Handlers PROVE Stands(h)'
    BY <2>3, <1>1, ProcessAssumption
       DEF RequestsTyped, Aside, Turns, Stands, Working, Editing, Pushers
  <2>4. QED BY <2>1, <2>2, <2>3 DEF RequestsTyped, Aside, Stands
<1>2. CASE UNCHANGED pc
  BY <1>2 DEF RequestsTyped, Aside, Working, Editing
<1>3. QED BY <1>1, <1>2 DEF Aside

\* A step of h that leaves the other requests where they are.
LEMMA OneMoves ==
  ASSUME RequestsTyped, NEW h \in Handlers,
         NEW to \in {"idle", "naming", "writing", "unnaming", "pushing"},
         pc' = [pc EXCEPT ![h] = to],
         op' \in [Handlers -> {"none", "create", "resync", "delete"}],
         target' \in [Handlers -> Routes \cup {NoRoute}],
         \A g \in Handlers \ {h} :
           /\ op'[g] = op[g] /\ target'[g] = target[g]
           /\ g \in shared' => g \in shared \/ pc[g] = "writing"
           /\ g \in behind' => g \in behind \/ Editing(g),
         Stands(h)'
  PROVE  RequestsTyped'
<1>1. pc' \in [Pushers -> {"idle", "naming", "writing", "unnaming", "fetching", "pushing"}]
  BY DEF RequestsTyped
<1>2. pc'[Reconciler] \in {"idle", "fetching", "pushing"}
  BY ProcessAssumption DEF RequestsTyped, Pushers
<1>3. ASSUME NEW g \in Handlers \ {h} PROVE Stands(g)'
  BY <1>3 DEF RequestsTyped, Stands, Working, Editing, Pushers
<1>4. QED BY <1>1, <1>2, <1>3 DEF RequestsTyped, Stands

LEMMA RequestsStayTyped ==
  ASSUME TypeOK, Next
  PROVE  RequestsTyped'
<1>1. ListsTyped /\ RequestsTyped /\ BoundsHold BY DEF TypeOK
<1> USE DEF listVars, requestVars, boundVars
<1>2. ASSUME NEW h \in Handlers, NEW o \in {"create", "resync", "delete"}, NEW r \in Routes,
             Request(h, o, r)
      PROVE  /\ op' \in [Handlers -> {"none", "create", "resync", "delete"}]
             /\ target' \in [Handlers -> Routes \cup {NoRoute}]
             /\ op'[h] = o /\ target'[h] = r /\ pc[h] = "idle"
             /\ \A g \in Handlers \ {h} : op'[g] = op[g] /\ target'[g] = target[g]
             /\ behind' = behind /\ h \notin behind /\ h \notin shared
  BY <1>1, <1>2 DEF Request, RequestsTyped, Editing
<1>3. ASSUME NEW h \in Handlers, NEW s \in Subdomains, CreateBegins(h, s) PROVE RequestsTyped'
  <2> DEFINE r == [id |-> MaxOld + requests + 1, subdomain |-> s, synced |-> FALSE]
  <2>1. Request(h, "create", r) /\ pc' = [pc EXCEPT ![h] = "naming"] /\ shared' = shared
    BY <1>3 DEF CreateBegins
  <2>2. r \in Routes BY <1>1, <2>1, NewIsRoute DEF Request
  <2> HIDE DEF r
  <2>3. pc'[h] = "naming" BY <1>1, <2>1 DEF RequestsTyped, Pushers
  <2>4. Stands(h)' BY <2>1, <2>2, <2>3, <1>2 DEF Stands, Working, Editing
  <2>5. QED BY <1>1, <1>2, <2>1, <2>2, <2>4, OneMoves
<1>4. ASSUME NEW h \in Handlers, NEW r \in cache, ResyncBegins(h, r) PROVE RequestsTyped'
  <2>1. Request(h, "resync", r) /\ pc' = [pc EXCEPT ![h] = "naming"] /\ shared' = shared
    BY <1>4 DEF ResyncBegins
  <2>2. r \in Routes BY <1>1 DEF ListsTyped
  <2>3. pc'[h] = "naming" BY <1>1, <2>1 DEF RequestsTyped, Pushers
  <2>4. Stands(h)' BY <2>1, <2>2, <2>3, <1>2 DEF Stands, Working, Editing
  <2>5. QED BY <1>1, <1>2, <2>1, <2>2, <2>4, OneMoves
<1>5. ASSUME NEW h \in Handlers, NEW r \in cache, DeleteBegins(h, r) PROVE RequestsTyped'
  <2>1. Request(h, "delete", r) /\ pc' = [pc EXCEPT ![h] = "writing"] BY <1>5 DEF DeleteBegins, StartWrite
  <2>2. r \in Routes BY <1>1 DEF ListsTyped
  <2>3. pc'[h] = "writing" BY <1>1, <2>1 DEF RequestsTyped, Pushers
  <2>4. Stands(h)' BY <2>1, <2>2, <2>3, <1>2 DEF Stands, Working, Editing
  <2>5. \A g \in Handlers \ {h} : g \in shared' => g \in shared \/ pc[g] = "writing"
    BY <1>5 DEF DeleteBegins, StartWrite
  <2>6. QED BY <1>1, <1>2, <2>1, <2>2, <2>4, <2>5, OneMoves
<1>6. ASSUME NEW h \in Handlers, Named(h) PROVE RequestsTyped'
  <2>1. pc[h] = "naming" /\ pc' = [pc EXCEPT ![h] = "writing"] /\ op' = op /\ target' = target
        /\ behind' = behind
    BY <1>6 DEF Named, StartWrite
  <2>2. pc'[h] = "writing" BY <1>1, <2>1 DEF RequestsTyped, Pushers
  <2>3. Stands(h)' BY <1>1, <2>1, <2>2 DEF RequestsTyped, Stands, Working, Editing
  <2>4. \A g \in Handlers \ {h} : g \in shared' => g \in shared \/ pc[g] = "writing"
    BY <1>6 DEF Named, StartWrite
  <2>5. QED BY <1>1, <2>1, <2>3, <2>4, OneMoves DEF RequestsTyped
<1>7. ASSUME NEW h \in Handlers, NEW to \in {"idle", "pushing"}, Release(h),
             pc' = [pc EXCEPT ![h] = to], h \notin shared', h \notin behind',
             \A g \in Handlers \ {h} :
               /\ g \in shared' => g \in shared
               /\ g \in behind' => g \in behind \/ Editing(g)
      PROVE  RequestsTyped'
  <2>1. /\ op' \in [Handlers -> {"none", "create", "resync", "delete"}]
        /\ target' \in [Handlers -> Routes \cup {NoRoute}]
        /\ \A g \in Handlers \ {h} : op'[g] = op[g] /\ target'[g] = target[g]
    BY <1>1, <1>7 DEF RequestsTyped, Release
  <2>2. pc'[h] = to BY <1>1, <1>7 DEF RequestsTyped, Pushers
  <2>3. Stands(h)' BY <1>7, <2>2 DEF Stands, Working, Editing
  <2>4. QED BY <1>1, <1>7, <2>1, <2>3, OneMoves
<1>8. ASSUME NEW h \in Handlers, GivesUp(h) \/ WriteFails(h) PROVE RequestsTyped'
  <2>1. h \notin shared' /\ h \notin behind' /\ Release(h) /\ pc' = [pc EXCEPT ![h] = "idle"]
        /\ shared' \subseteq shared /\ behind' \subseteq behind
    BY <1>1, <1>8 DEF GivesUp, WriteFails, RequestsTyped
  <2>2. QED BY <1>7, <2>1
<1>9. ASSUME NEW h \in Handlers, CreateWritten(h) \/ ResyncWritten(h) PROVE RequestsTyped'
  <2>1. Release(h) /\ Written(h) /\ \E to \in {"idle", "pushing"} : pc' = [pc EXCEPT ![h] = to]
    BY <1>9 DEF CreateWritten, ResyncWritten, StartPush
  <2>2. h \notin shared' /\ h \notin behind' /\ shared' \subseteq shared
        /\ \A g \in Handlers \ {h} : g \in behind' => g \in behind \/ Editing(g)
    BY <2>1 DEF Written
  <2>3. QED BY <1>7, <2>1, <2>2
<1>10. ASSUME NEW h \in Handlers, DeleteWritten(h) PROVE RequestsTyped'
  <2>1. pc[h] = "writing" /\ pc' = [pc EXCEPT ![h] = "unnaming"] /\ op' = op /\ target' = target
        /\ op[h] = "delete" /\ h \notin shared' /\ h \notin behind' /\ shared' \subseteq shared
        /\ \A g \in Handlers \ {h} : g \in behind' => g \in behind \/ Editing(g)
    BY <1>10 DEF DeleteWritten, Written
  <2>2. pc'[h] = "unnaming" BY <1>1, <2>1 DEF RequestsTyped, Pushers
  <2>3. Stands(h)' BY <1>1, <2>1, <2>2 DEF RequestsTyped, Stands, Working, Editing
  <2>4. QED BY <1>1, <2>1, <2>3, OneMoves DEF RequestsTyped
<1>11. ASSUME NEW h \in Handlers, Unnamed(h) PROVE RequestsTyped'
  <2>1. pc[h] = "unnaming" /\ Release(h) /\ pc' = [pc EXCEPT ![h] = "pushing"]
        /\ shared' = shared /\ behind' = behind
    BY <1>11 DEF Unnamed, StartPush
  <2>2. h \notin shared /\ h \notin behind BY <1>1, <2>1 DEF RequestsTyped, Editing
  <2>3. QED BY <1>7, <2>1, <2>2
<1>12. CASE Crash
  <2>1. \A h \in Handlers : pc'[h] = "idle" BY <1>12 DEF Crash, Pushers
  <2>2. \A h \in Handlers : Stands(h)' BY <1>12, <2>1 DEF Crash, Stands, Working, Editing
  <2>3. QED BY <1>12, <2>2 DEF Crash, RequestsTyped, Stands, Pushers
<1>13. QED
  BY <1>1, <1>3, <1>4, <1>5, <1>6, <1>8, <1>9, <1>10, <1>11, <1>12, AsideKeepsRequests,
     StepKinds DEF Handle

\* What pushes and Caddy hold.
LEMMA PushesStayTyped ==
  ASSUME TypeOK, Next
  PROVE  PushesTyped'
<1>1. ListsTyped /\ RequestsTyped /\ PushesTyped BY DEF TypeOK
<1>2. Nothing \in Configs /\ Bootstrap \in Configs
      /\ Unknown \in [hosts : SUBSET Subdomains, ready : BOOLEAN]
  BY DEF Nothing, Bootstrap, Unknown, Configs
<1>3. ASSUME NEW p \in Pushers, NEW routes \in SUBSET Routes, StartPush(p, routes),
             UNCHANGED <<address, caddyVars>>,
             served' \in [hosts : SUBSET Subdomains, ready : BOOLEAN]
      PROVE  PushesTyped'
  BY <1>1, <1>2, <1>3 DEF StartPush, PushesTyped, RequestsTyped, caddyVars
<1>4. ASSUME NEW h \in Handlers, NEW to \in {"idle", "naming", "writing", "unnaming"},
             pc[h] # "pushing", pc' = [pc EXCEPT ![h] = to],
             UNCHANGED <<pushVars, address, served, caddyVars>>
      PROVE  PushesTyped'
  BY <1>1, <1>4 DEF PushesTyped, RequestsTyped, caddyVars, pushVars, Pushers
<1> USE DEF listVars, requestVars, boundVars
<1>5. ASSUME NEW h \in Handlers, Asked(h) PROVE PushesTyped'
  <2>1. ASSUME NEW s \in Subdomains, CreateBegins(h, s) PROVE PushesTyped'
    BY <1>4, <2>1 DEF CreateBegins, Request
  <2>2. ASSUME NEW r \in cache, ResyncBegins(h, r) PROVE PushesTyped'
    BY <1>4, <2>2 DEF ResyncBegins, Request
  <2>3. ASSUME NEW r \in cache, DeleteBegins(h, r) PROVE PushesTyped'
    BY <1>4, <2>3 DEF DeleteBegins, Request, StartWrite
  <2>4. CASE PushBegins(h)
    <3>1. StartPush(h, cache) /\ UNCHANGED <<address, served, caddyVars>> BY <2>4 DEF PushBegins
    <3>2. QED BY <1>1, <1>3, <3>1 DEF ListsTyped, PushesTyped, Pushers
  <2>5. QED BY <1>5, <2>1, <2>2, <2>3, <2>4 DEF Asked
<1>6. ASSUME NEW h \in Handlers, Handle(h) PROVE PushesTyped'
  <2>1. CASE Named(h) BY <1>4, <2>1 DEF Named, StartWrite
  <2>2. CASE GivesUp(h) BY <1>4, <2>2 DEF GivesUp
  <2>3. CASE Unnamed(h)
    BY <1>1, <1>3, <2>3 DEF Unnamed, ListsTyped, PushesTyped, Pushers
  <2>4. CASE CreateWritten(h)
    BY <1>1, <1>3, <2>4 DEF CreateWritten, Written, ListsTyped, PushesTyped, Pushers
  <2>5. CASE ResyncWritten(h) BY <1>4, <2>5 DEF ResyncWritten, Written
  <2>6. CASE DeleteWritten(h) BY <1>4, <2>6 DEF DeleteWritten, Written
  <2>7. CASE WriteFails(h) BY <1>4, <2>7 DEF WriteFails
  <2>8. QED BY <1>6, <2>1, <2>2, <2>3, <2>4, <2>5, <2>6, <2>7 DEF Handle
<1>7. ASSUME NEW p \in Pushers, Push(p) PROVE PushesTyped'
  <2>1. ASSUME NEW r \in plan[p], Resolve(p, r) PROVE PushesTyped'
    <3>1. r \in Routes /\ r.id \in Ids /\ r.subdomain \in Subdomains
      BY <1>1, <2>1 DEF PushesTyped, Routes
    <3>2. config' \in [Pushers -> Configs]
      <4>1. CASE address[r.id] = Gone BY <1>1, <2>1, <4>1 DEF Resolve, PushesTyped
      <4>2. CASE address[r.id] # Gone
        <5>1. <<r.subdomain, address[r.id]>> \in Subdomains \X Addresses
          BY <1>1, <3>1, <4>2 DEF PushesTyped
        <5>2. [config[p] EXCEPT !.routes = @ \cup {<<r.subdomain, address[r.id]>>}] \in Configs
          BY <1>1, <5>1 DEF PushesTyped, Configs
        <5>3. config' = [config EXCEPT ![p] =
                          [config[p] EXCEPT !.routes = @ \cup {<<r.subdomain, address[r.id]>>}]]
          BY <1>1, <2>1, <4>2 DEF Resolve, PushesTyped
        <5>4. QED BY <1>1, <5>2, <5>3 DEF PushesTyped
      <4>3. QED BY <4>1, <4>2
    <3>3. plan' \in [Pushers -> SUBSET Routes] BY <1>1, <2>1 DEF Resolve, PushesTyped
    <3>4. \A q \in Pushers : pc'[q] # "pushing" => plan'[q] = {} /\ config'[q] = Nothing
      BY <1>1, <2>1 DEF Resolve, PushesTyped
    <3>5. QED BY <1>1, <2>1, <3>2, <3>3, <3>4 DEF Resolve, PushesTyped, caddyVars
  <2>2. ASSUME NEW r \in plan[p], ResolveFails(p, r) PROVE PushesTyped'
    BY <1>1, <2>2 DEF ResolveFails, PushesTyped, caddyVars
  <2>3. CASE Load(p) \/ LoadFails(p) \/ LoadTimesOut(p)
    <3>1. EndPush(p) /\ address' = address BY <2>3 DEF Load, LoadFails, LoadTimesOut
    <3>2. caddy' \in Configs /\ late' \subseteq Configs
      BY <1>1, <2>3 DEF Load, LoadFails, LoadTimesOut, PushesTyped, caddyVars
    <3>3. QED BY <1>1, <1>2, <3>1, <3>2 DEF EndPush, PushesTyped, RequestsTyped
  <2>4. QED BY <1>7, <2>1, <2>2, <2>3 DEF Push
<1>8. CASE Reconcile
  <2>1. CASE CycleStarts \/ FetchFails
    BY <1>1, <2>1 DEF CycleStarts, FetchFails, PushesTyped, RequestsTyped, caddyVars, pushVars
  <2>2. CASE Fetched
    <3>1. Hosts(caddy) \subseteq Subdomains /\ caddy.ready \in BOOLEAN
      BY <1>1 DEF PushesTyped, Configs, Hosts
    <3>2. served' \in [hosts : SUBSET Subdomains, ready : BOOLEAN] BY <2>2, <3>1 DEF Fetched
    <3>3. QED BY <1>1, <1>3, <2>2, <3>2 DEF Fetched, ListsTyped, Pushers
  <2>3. CASE InSync
    BY <1>1, <1>2, <2>3 DEF InSync, EndPush, PushesTyped, RequestsTyped, caddyVars, Pushers
  <2>4. QED BY <1>8, <2>1, <2>2, <2>3 DEF Reconcile
<1>9. CASE World
  <2>1. ASSUME NEW c \in late, LateLoad(c) PROVE PushesTyped'
    BY <1>1, <2>1 DEF LateLoad, PushesTyped, pushVars
  <2>2. ASSUME NEW i \in Ids, ContainerMoves(i) PROVE PushesTyped'
    BY <1>1, <2>2 DEF ContainerMoves, PushesTyped, pushVars, caddyVars
  <2>3. CASE CaddyRestarts BY <1>1, <1>2, <2>3 DEF CaddyRestarts, PushesTyped, pushVars
  <2>4. CASE Crash
    <3>1. late' \subseteq Configs BY <1>1, <2>4 DEF Crash, PushesTyped
    <3>2. QED BY <1>1, <1>2, <2>4, <3>1 DEF Crash, PushesTyped
  <2>5. QED BY <1>9, <2>1, <2>2, <2>3, <2>4 DEF World
<1>10. QED BY <1>5, <1>6, <1>7, <1>8, <1>9 DEF Next

LEMMA BoundsStay ==
  ASSUME TypeOK, Next
  PROVE  BoundsHold'
<1>1. BoundsHold BY DEF TypeOK
<1> USE DEF boundVars
<1>2. CASE UNCHANGED boundVars BY <1>1, <1>2 DEF BoundsHold
<1>3. CASE UNCHANGED <<moves, faults, crashes>> /\ requests < MaxRequests
           /\ requests' = requests + 1
  BY <1>1, <1>3, BoundsAssumption DEF BoundsHold
<1>4. CASE UNCHANGED <<requests, moves, crashes>> /\ Fault
  BY <1>1, <1>4, BoundsAssumption DEF BoundsHold, Fault
<1>5. CASE UNCHANGED <<requests, moves, faults>> /\ Crash
  BY <1>1, <1>5, BoundsAssumption DEF BoundsHold, Crash
<1>6. CASE UNCHANGED <<requests, faults, crashes>> /\ moves < MaxMoves /\ moves' = moves + 1
  BY <1>1, <1>6, BoundsAssumption DEF BoundsHold
<1>7. ASSUME NEW h \in Handlers, Asked(h) PROVE BoundsHold'
  BY <1>3, <1>7 DEF Asked, CreateBegins, ResyncBegins, DeleteBegins, PushBegins, Request
<1>8. ASSUME NEW h \in Handlers, Handle(h) PROVE BoundsHold'
  BY <1>2, <1>4, <1>8 DEF Handle, Named, GivesUp, Unnamed, CreateWritten, ResyncWritten,
     DeleteWritten, Written, WriteFails
<1>9. ASSUME NEW p \in Pushers, Push(p) PROVE BoundsHold'
  BY <1>2, <1>4, <1>9 DEF Push, Resolve, ResolveFails, Load, LoadFails, LoadTimesOut
<1>10. CASE Reconcile
  BY <1>2, <1>4, <1>10 DEF Reconcile, CycleStarts, Fetched, FetchFails, InSync
<1>11. CASE World
  BY <1>2, <1>4, <1>5, <1>6, <1>11 DEF World, LateLoad, ContainerMoves, CaddyRestarts, Crash
<1>12. QED BY <1>7, <1>8, <1>9, <1>10, <1>11 DEF Next

LEMMA InitTyped ==
  ASSUME Init
  PROVE  TypeOK
<1>1. ListsTyped
  <2>1. cache \subseteq Routes /\ disk = cache BY DEF Init
  <2>2. dns \subseteq Subdomains BY <2>1 DEF Init, SubdomainsOf, Routes
  <2>3. QED BY <2>1, <2>2 DEF Init, ListsTyped
<1>2. RequestsTyped
  BY ProcessAssumption DEF Init, RequestsTyped, Pushers, Working, Editing
<1>3. PushesTyped
  <2>1. Nothing \in Configs /\ Bootstrap \in Configs BY DEF Nothing, Bootstrap, Configs
  <2>2. QED BY <2>1 DEF Init, PushesTyped, Unknown
<1>4. BoundsHold BY BoundsAssumption DEF Init, BoundsHold
<1>5. QED BY <1>1, <1>2, <1>3, <1>4 DEF TypeOK

LEMMA StutterTyped ==
  ASSUME TypeOK, UNCHANGED vars
  PROVE  TypeOK'
BY DEF TypeOK, ListsTyped, RequestsTyped, PushesTyped, BoundsHold, Working, Editing, vars,
       listVars, requestVars, pushVars, caddyVars, boundVars

\* Every reachable state is well typed (reverseProxy.ts, reverseProxyReconciler.ts),
\* a request holding its route as long as it works on it.
THEOREM TypeCorrect == Spec => []TypeOK
<1>1. Init => TypeOK BY InitTyped
<1>2. TypeOK /\ [Next]_vars => TypeOK'
  <2>1. ASSUME TypeOK, Next PROVE TypeOK'
    BY <2>1, ListsStayTyped, RequestsStayTyped, PushesStayTyped, BoundsStay DEF TypeOK
  <2>2. QED BY <2>1, StutterTyped
<1>3. QED BY <1>1, <1>2, PTL DEF Spec

-----------------------------------------------------------------------------
(* Subdomains.                                                             *)

\* Changing the list that was checked keeps it unambiguous.
LEMMA RenewedUnambiguous ==
  ASSUME TypeOK, NEW h \in Handlers, Intact(h), pc[h] = "naming", NEW synced \in BOOLEAN
  PROVE  Unambiguous(Renewed(h, synced)) /\ Known(Renewed(h, synced))
<1> DEFINE u == [target[h] EXCEPT !.synced = synced]
<1>1. target[h] \in Routes /\ op[h] \in {"create", "resync"}
  BY DEF TypeOK, RequestsTyped, Working
<1>2. u.id = target[h].id /\ u.subdomain = target[h].subdomain BY <1>1 DEF Routes
<1>3. ASSUME NEW q \in list[h], q.id # target[h].id PROVE q.subdomain # u.subdomain
  <2>1. CASE op[h] = "create" BY <1>2, <2>1, <1>3 DEF Intact, SubdomainsOf
  <2>2. CASE op[h] = "resync" BY <1>2, <2>2, <1>3 DEF Intact, Unambiguous
  <2>3. QED BY <1>1, <2>1, <2>2
<1>4. Renewed(h, synced) = {r \in list[h] : r.id # target[h].id} \cup {u} BY DEF Renewed
<1>5. u.id <= MaxOld + requests BY <1>2 DEF Intact, Working
<1> HIDE DEF u
<1>6. Unambiguous(Renewed(h, synced)) BY <1>2, <1>3, <1>4 DEF Unambiguous, Intact
<1>7. Known(Renewed(h, synced)) BY <1>4, <1>5 DEF Known, Intact
<1>8. QED BY <1>6, <1>7

\* Later requests take later numbers.
LEMMA KnownLater ==
  ASSUME BoundsHold, requests' \in {requests, requests + 1}
  PROVE  \A routes \in SUBSET Routes :
           Known(routes) => \A r \in routes : r.id <= MaxOld + requests'
<1>1. \A routes \in SUBSET Routes : \A r \in routes : r.id \in Nat BY DEF Routes, Ids
<1>2. QED BY <1>1, BoundsAssumption DEF Known, BoundsHold

\* A request stays as it was when others move.
LEMMA HeldStays ==
  ASSUME TypeOK, requests' \in {requests, requests + 1}, NEW h \in Handlers, Intact(h),
         pc'[h] = pc[h] \/ pc'[h] \notin {"naming", "writing", "unnaming"},
         op'[h] = op[h], target'[h] = target[h], list'[h] = list[h]
  PROVE  Intact(h)'
<1>1. requests \in Nat /\ MaxOld \in Nat /\ requests' >= requests
  BY BoundsAssumption DEF TypeOK, BoundsHold
<1>2. \A r \in list[h] : r.id \in Nat BY DEF TypeOK, ListsTyped, Routes, Ids
<1>3. Known(list[h])' BY <1>1, <1>2 DEF Intact, Known
<1>4. Working(h)' => target'[h].id <= MaxOld + requests'
  <2>1. Working(h)' => Working(h) BY DEF Working
  <2>2. Working(h) => target[h].id \in Nat BY DEF TypeOK, RequestsTyped, Routes, Ids
  <2>3. QED BY <1>1, <2>1, <2>2 DEF Intact
<1>5. QED BY <1>3, <1>4 DEF Intact

\* The lists of the API and of the file, in a step that keeps them.
LEMMA ListsStay ==
  ASSUME TypeOK, UniqueInv, UNCHANGED <<cache, disk>>, requests' \in {requests, requests + 1}
  PROVE  SubdomainsUnique' /\ Known(cache)' /\ Known(disk)'
<1>1. cache \in SUBSET Routes /\ disk \in SUBSET Routes BY DEF TypeOK, ListsTyped
<1>2. BoundsHold BY DEF TypeOK
<1>3. \A r \in cache \cup disk : r.id <= MaxOld + requests'
  BY <1>1, <1>2, KnownLater DEF UniqueInv
<1>4. QED BY <1>3 DEF UniqueInv, SubdomainsUnique, Known

LEMMA UniqueStep ==
  ASSUME TypeOK, UniqueInv, Next
  PROVE  UniqueInv'
<1>1. ListsTyped /\ RequestsTyped /\ BoundsHold BY DEF TypeOK
<1>2. requests \in Nat /\ MaxOld \in Nat BY <1>1, BoundsAssumption DEF BoundsHold
<1> USE DEF listVars, requestVars, boundVars
<1>3. ASSUME NEW h \in Handlers, NEW o, NEW r \in Routes, Request(h, o, r),
             NEW routes \in SUBSET Routes,
             pc' = [pc EXCEPT ![h] = "naming"], list' = [list EXCEPT ![h] = routes],
             Unambiguous(routes), Known(routes), r.id <= MaxOld + requests + 1,
             o = "create" =>
               r.subdomain \notin SubdomainsOf(routes) /\ r.id \notin IdsOf(routes),
             o = "resync" => r \in routes
      PROVE  UniqueInv'
  <2>1. requests' = requests + 1 /\ UNCHANGED <<cache, disk>> BY <1>3 DEF Request
  <2>2. /\ pc'[h] = "naming" /\ list'[h] = routes /\ op'[h] = o /\ target'[h] = r
        /\ \A g \in Handlers \ {h} : /\ pc'[g] = pc[g] /\ list'[g] = list[g]
                                     /\ op'[g] = op[g] /\ target'[g] = target[g]
    BY <1>1, <1>3 DEF Request, RequestsTyped, ListsTyped, Pushers
  <2>3. Known(routes)' BY <1>1, <1>3, <2>1, KnownLater DEF Known
  <2>4. Intact(h)' BY <1>2, <1>3, <2>1, <2>2, <2>3 DEF Intact
  <2>5. \A g \in Handlers \ {h} : Intact(g)' BY <2>1, <2>2, HeldStays DEF UniqueInv
  <2>6. QED BY <2>1, <2>4, <2>5, ListsStay DEF UniqueInv
<1>4. ASSUME NEW h \in Handlers, NEW s \in Subdomains, CreateBegins(h, s) PROVE UniqueInv'
  <2> DEFINE r == [id |-> MaxOld + requests + 1, subdomain |-> s, synced |-> FALSE]
  <2>1. Request(h, "create", r) /\ s \notin SubdomainsOf(cache)
        /\ pc' = [pc EXCEPT ![h] = "naming"] /\ list' = [list EXCEPT ![h] = cache]
    BY <1>4 DEF CreateBegins
  <2>2. r \in Routes /\ r.subdomain = s /\ r.id = MaxOld + requests + 1
    BY <1>1, <2>1, NewIsRoute DEF Request
  <2>3. cache \in SUBSET Routes /\ Unambiguous(cache) /\ Known(cache)
    BY <1>1 DEF ListsTyped, UniqueInv, SubdomainsUnique
  <2> HIDE DEF r
  <2>4. r.id \notin IdsOf(cache)
    <3>1. \A q \in cache : q.id \in Nat /\ q.id <= MaxOld + requests
      BY <2>3 DEF Routes, Ids, Known
    <3>2. QED BY <1>2, <2>2, <3>1 DEF IdsOf
  <2>5. r.id <= MaxOld + requests + 1 BY <1>2, <2>2
  <2>6. "create" = "create" =>
          r.subdomain \notin SubdomainsOf(cache) /\ r.id \notin IdsOf(cache)
    BY <2>1, <2>2, <2>4
  <2>7. "create" # "resync" OBVIOUS
  <2>8. QED BY <1>3, <2>1, <2>2, <2>3, <2>5, <2>6, <2>7
<1>5. ASSUME NEW h \in Handlers, NEW r \in cache, ResyncBegins(h, r) \/ DeleteBegins(h, r)
      PROVE  UniqueInv'
  <2>1. cache \in SUBSET Routes /\ Unambiguous(cache) /\ Known(cache)
    BY <1>1 DEF ListsTyped, UniqueInv, SubdomainsUnique
  <2>2. r \in Routes /\ r.id <= MaxOld + requests + 1
    <3>1. r \in Routes /\ r.id \in Nat /\ r.id <= MaxOld + requests
      BY <2>1 DEF Routes, Ids, Known
    <3>2. QED BY <1>2, <3>1
  <2>3. CASE ResyncBegins(h, r)
    <3>1. Request(h, "resync", r) /\ pc' = [pc EXCEPT ![h] = "naming"]
          /\ list' = [list EXCEPT ![h] = cache]
      BY <2>3 DEF ResyncBegins
    <3>2. "resync" # "create" OBVIOUS
    <3>3. QED BY <1>3, <2>1, <2>2, <3>1, <3>2
  <2>4. CASE DeleteBegins(h, r)
    <3> DEFINE rest == {q \in cache : q.id # r.id}
    <3>1. rest \in SUBSET Routes /\ Unambiguous(rest) /\ Known(rest)
      BY <2>1 DEF Unambiguous, Known
    <3>2. Request(h, "delete", r) /\ pc' = [pc EXCEPT ![h] = "writing"]
          /\ list' = [list EXCEPT ![h] = rest]
      BY <2>4 DEF DeleteBegins, StartWrite
    <3> HIDE DEF rest
    <3>3. requests' = requests + 1 /\ UNCHANGED <<cache, disk>> BY <3>2 DEF Request
    <3>4. /\ pc'[h] = "writing" /\ list'[h] = rest /\ op'[h] = "delete" /\ target'[h] = r
          /\ \A g \in Handlers \ {h} : /\ pc'[g] = pc[g] /\ list'[g] = list[g]
                                       /\ op'[g] = op[g] /\ target'[g] = target[g]
      BY <1>1, <3>1, <3>2 DEF Request, RequestsTyped, ListsTyped, Pushers
    <3>5. \A q \in rest : q.id <= MaxOld + requests' BY <1>1, <3>1, <3>3, KnownLater
    <3>6. Intact(h)' BY <1>2, <2>2, <3>1, <3>3, <3>4, <3>5 DEF Intact, Known
    <3>7. \A g \in Handlers \ {h} : Intact(g)' BY <3>3, <3>4, HeldStays DEF UniqueInv
    <3>8. QED BY <3>3, <3>6, <3>7, ListsStay DEF UniqueInv
  <2>5. QED BY <1>5, <2>3, <2>4
<1>6. ASSUME NEW h \in Handlers, requests' = requests,
             NEW to \in {"idle", "writing", "unnaming", "pushing"}, NEW routes \in SUBSET Routes,
             pc' = [pc EXCEPT ![h] = to], list' = [list EXCEPT ![h] = routes],
             Unambiguous(routes), Known(routes),
             to \in {"writing", "unnaming"} => Working(h) /\ target'[h] = target[h],
             \A g \in Handlers \ {h} : op'[g] = op[g] /\ target'[g] = target[g]
      PROVE  \A g \in Handlers : Intact(g)'
  <2>1. /\ pc'[h] = to /\ list'[h] = routes
        /\ \A g \in Handlers \ {h} : pc'[g] = pc[g] /\ list'[g] = list[g]
    BY <1>1, <1>6 DEF RequestsTyped, ListsTyped, Pushers
  <2>2. Known(routes)' BY <1>6 DEF Known
  <2>3. Intact(h)' BY <1>6, <2>1, <2>2 DEF Intact, Working, UniqueInv
  <2>4. \A g \in Handlers \ {h} : Intact(g)' BY <1>6, <2>1, HeldStays DEF UniqueInv
  <2>5. QED BY <2>3, <2>4
<1>7. Unambiguous({}) /\ Known({}) /\ {} \in SUBSET Routes BY DEF Unambiguous, Known
<1>8. ASSUME NEW h \in Handlers, Release(h), requests' = requests,
             NEW to \in {"idle", "pushing"}, pc' = [pc EXCEPT ![h] = to]
      PROVE  \A g \in Handlers : Intact(g)'
  <2>1. list' = [list EXCEPT ![h] = {}]
        /\ \A g \in Handlers \ {h} : op'[g] = op[g] /\ target'[g] = target[g]
    BY <1>1, <1>8 DEF Release, RequestsTyped
  <2>2. QED BY <1>6, <1>7, <1>8, <2>1
<1>9. ASSUME NEW h \in Handlers, Named(h) PROVE UniqueInv'
  <2>1. PICK synced \in BOOLEAN : StartWrite(h, Renewed(h, synced)) BY <1>9 DEF Named
  <2>2. pc[h] = "naming" /\ requests' = requests
        /\ UNCHANGED <<cache, disk, op, target>>
    BY <1>9 DEF Named
  <2>3. Unambiguous(Renewed(h, synced)) /\ Known(Renewed(h, synced))
    BY <2>2, RenewedUnambiguous DEF UniqueInv
  <2>4. Renewed(h, synced) \in SUBSET Routes
    BY <1>1, <2>2, RenewedIsTyped DEF RequestsTyped, Working
  <2>5. pc' = [pc EXCEPT ![h] = "writing"] /\ list' = [list EXCEPT ![h] = Renewed(h, synced)]
    BY <2>1 DEF StartWrite
  <2>6. \A g \in Handlers : Intact(g)' BY <1>6, <2>2, <2>3, <2>4, <2>5 DEF Working
  <2>7. QED BY <2>2, <2>6, ListsStay DEF UniqueInv
<1>10. ASSUME NEW h \in Handlers, GivesUp(h) \/ Unnamed(h) PROVE UniqueInv'
  <2>1. Release(h) /\ requests' = requests /\ UNCHANGED <<cache, disk>>
        /\ \E to \in {"idle", "pushing"} : pc' = [pc EXCEPT ![h] = to]
    BY <1>10 DEF GivesUp, Unnamed, StartPush
  <2>2. QED BY <1>8, <2>1, ListsStay DEF UniqueInv
<1>11. ASSUME NEW h \in Handlers, Written(h), \A g \in Handlers : Intact(g)' PROVE UniqueInv'
  <2>1. Unambiguous(list[h]) /\ Known(list[h]) BY DEF UniqueInv, Intact
  <2>2. cache' = list[h] /\ disk' \in {list[h], {}, disk} /\ requests' = requests
    BY <1>11 DEF Written, Landed
  <2>3. Unambiguous(cache') /\ Unambiguous(disk') BY <1>7, <2>1, <2>2 DEF UniqueInv, SubdomainsUnique
  <2>4. Known(cache)' /\ Known(disk)'
    BY <2>1, <2>2 DEF UniqueInv, Known
  <2>5. QED BY <1>11, <2>3, <2>4 DEF UniqueInv, SubdomainsUnique
<1>12. ASSUME NEW h \in Handlers, CreateWritten(h) \/ ResyncWritten(h) PROVE UniqueInv'
  <2>1. Release(h) /\ Written(h) /\ requests' = requests
        /\ \E to \in {"idle", "pushing"} : pc' = [pc EXCEPT ![h] = to]
    BY <1>12 DEF CreateWritten, ResyncWritten, Written, StartPush
  <2>2. QED BY <1>8, <1>11, <2>1
<1>13. ASSUME NEW h \in Handlers, DeleteWritten(h) PROVE UniqueInv'
  <2>1. Written(h) /\ requests' = requests /\ pc[h] = "writing"
        /\ pc' = [pc EXCEPT ![h] = "unnaming"] /\ list' = [list EXCEPT ![h] = {}]
        /\ UNCHANGED <<op, target>>
    BY <1>13 DEF DeleteWritten, Written
  <2>2. \A g \in Handlers : Intact(g)' BY <1>6, <1>7, <2>1 DEF Working
  <2>3. QED BY <1>11, <2>1, <2>2
<1>14. ASSUME NEW h \in Handlers, WriteFails(h) PROVE UniqueInv'
  <2>1. Release(h) /\ requests' = requests /\ cache' = cache /\ disk' \in {disk, {}}
        /\ pc' = [pc EXCEPT ![h] = "idle"]
    BY <1>14 DEF WriteFails
  <2>2. \A g \in Handlers : Intact(g)' BY <1>8, <2>1
  <2>3. Unambiguous(cache') /\ Unambiguous(disk') BY <1>7, <2>1 DEF UniqueInv, SubdomainsUnique
  <2>4. Known(cache)' /\ Known(disk)' BY <2>1 DEF UniqueInv, Known
  <2>5. QED BY <2>2, <2>3, <2>4 DEF UniqueInv, SubdomainsUnique
<1>15. CASE Crash
  <2>1. PICK found \in {disk} \cup UNION {{{}, list[h]} : h \in {g \in Handlers : pc[g] = "writing"}} :
          disk' = found /\ cache' = found
    BY <1>15 DEF Crash
  <2>2. Unambiguous(found) /\ Known(found)
    BY <1>7 DEF UniqueInv, SubdomainsUnique, Intact
  <2>3. requests' = requests BY <1>15 DEF Crash
  <2>4. \A h \in Handlers : list'[h] = {} /\ pc'[h] = "idle" BY <1>15 DEF Crash, Pushers
  <2>5. \A h \in Handlers : Intact(h)'
    BY <2>4 DEF Intact, Working, Unambiguous, Known
  <2>6. Known(cache)' /\ Known(disk)' BY <2>1, <2>2, <2>3 DEF Known
  <2>7. QED BY <2>1, <2>2, <2>5, <2>6 DEF UniqueInv, SubdomainsUnique
<1>16. CASE Aside
  <2>1. requests' \in {requests, requests + 1} /\ UNCHANGED <<cache, disk, op, target, list>>
    BY <1>16 DEF Aside
  <2>2. ASSUME NEW h \in Handlers PROVE pc'[h] = pc[h] \/ pc'[h] \notin {"naming", "writing", "unnaming"}
    BY <1>1, <1>16 DEF Aside, Turns, RequestsTyped, Pushers
  <2>3. \A h \in Handlers : Intact(h)' BY <2>1, <2>2, HeldStays DEF UniqueInv
  <2>4. QED BY <2>1, <2>3, ListsStay DEF UniqueInv
<1>17. QED
  BY <1>4, <1>5, <1>9, <1>10, <1>12, <1>13, <1>14, <1>15, <1>16, StepKinds DEF Handle

LEMMA InitUnique ==
  ASSUME Init
  PROVE  UniqueInv
<1>1. Unambiguous(cache) /\ \A r \in cache : r.id <= MaxOld BY DEF Init
<1>2. Known(cache) BY <1>1, BoundsAssumption DEF Init, Known
<1>3. \A h \in Handlers : Intact(h)
  BY DEF Init, Intact, Working, Unambiguous, Known, Pushers
<1>4. QED BY <1>1, <1>2, <1>3 DEF Init, UniqueInv, SubdomainsUnique

LEMMA UniqueStays == TypeOK /\ UniqueInv /\ [Next]_vars => UniqueInv'
<1>1. ASSUME UniqueInv, UNCHANGED vars PROVE UniqueInv'
  BY <1>1 DEF UniqueInv, SubdomainsUnique, Known, Intact, Working, vars, listVars, requestVars,
             boundVars
<1>2. QED BY <1>1, UniqueStep

\* Whatever requests overlap, fail or are cut short, two routes never share a
\* subdomain (reverseProxy.ts:377, checked long before the write of line 413).
THEOREM UniqueHolds == Spec => []SubdomainsUnique
<1>1. TypeOK /\ UniqueInv /\ [Next]_vars => UniqueInv' BY UniqueStays
<1>2. UniqueInv => SubdomainsUnique BY DEF UniqueInv
<1>3. QED BY <1>1, <1>2, InitUnique, TypeCorrect, PTL DEF Spec

-----------------------------------------------------------------------------
(* What makes routes come and go.                                          *)

\* A request is as fresh as it was when neither it nor the cache moved.
LEMMA FreshStays ==
  ASSUME NEW h \in Handlers, Fresh(h), cache' = cache,
         pc'[h] = pc[h] \/ pc'[h] \notin {"naming", "writing"},
         op'[h] = op[h], target'[h] = target[h], list'[h] = list[h]
  PROVE  Fresh(h)'
BY DEF Fresh

LEMMA FateStep ==
  ASSUME TypeOK, FateInv, Next
  PROVE  FateInv'
<1>1. ListsTyped /\ RequestsTyped BY DEF TypeOK
<1> USE DEF listVars, requestVars, boundVars
<1>2. ASSUME NEW h \in Handlers, NEW to \in {"idle", "naming", "writing", "unnaming", "pushing"},
             cache' = cache, pc' = [pc EXCEPT ![h] = to], behind \ {h} \subseteq behind',
             \A g \in Handlers \ {h} : /\ op'[g] = op[g] /\ target'[g] = target[g]
                                       /\ list'[g] = list[g]
      PROVE  \A g \in Handlers \ {h} : g \notin behind' => Fresh(g)'
  <2>1. \A g \in Handlers \ {h} : pc'[g] = pc[g] BY <1>1, <1>2 DEF RequestsTyped, Pushers
  <2>2. QED BY <1>2, <2>1, FreshStays DEF FateInv
<1>3. ASSUME NEW h \in Handlers, NEW o, NEW r, Request(h, o, r)
      PROVE  /\ cache' = cache /\ disk' = disk /\ blemished' = blemished /\ behind' = behind
             /\ op'[h] = o /\ target'[h] = r
             /\ \A g \in Handlers \ {h} : op'[g] = op[g] /\ target'[g] = target[g]
  BY <1>1, <1>3 DEF Request, RequestsTyped
<1>4. ASSUME NEW h \in Handlers, NEW s \in Subdomains, CreateBegins(h, s) PROVE FateInv'
  <2> DEFINE r == [id |-> MaxOld + requests + 1, subdomain |-> s, synced |-> FALSE]
  <2>1. Request(h, "create", r) /\ pc' = [pc EXCEPT ![h] = "naming"]
        /\ list' = [list EXCEPT ![h] = cache]
    BY <1>4 DEF CreateBegins
  <2> HIDE DEF r
  <2>2. pc'[h] = "naming" /\ list'[h] = cache /\ \A g \in Handlers \ {h} : list'[g] = list[g]
    BY <1>1, <2>1 DEF RequestsTyped, ListsTyped, Pushers
  <2>3. Fresh(h)' BY <1>3, <2>1, <2>2 DEF Fresh
  <2>4. QED BY <1>2, <1>3, <2>1, <2>2, <2>3 DEF FateInv, SavedInv
<1>5. ASSUME NEW h \in Handlers, NEW r \in cache, ResyncBegins(h, r) PROVE FateInv'
  <2>1. Request(h, "resync", r) /\ pc' = [pc EXCEPT ![h] = "naming"]
        /\ list' = [list EXCEPT ![h] = cache]
    BY <1>5 DEF ResyncBegins
  <2>2. pc'[h] = "naming" /\ list'[h] = cache /\ \A g \in Handlers \ {h} : list'[g] = list[g]
    BY <1>1, <2>1 DEF RequestsTyped, ListsTyped, Pushers
  <2>3. Fresh(h)' BY <1>3, <2>1, <2>2 DEF Fresh
  <2>4. QED BY <1>2, <1>3, <2>1, <2>2, <2>3 DEF FateInv, SavedInv
<1>6. ASSUME NEW h \in Handlers, NEW r \in cache, DeleteBegins(h, r) PROVE FateInv'
  <2>1. Request(h, "delete", r) /\ pc' = [pc EXCEPT ![h] = "writing"]
        /\ list' = [list EXCEPT ![h] = {q \in cache : q.id # r.id}]
    BY <1>6 DEF DeleteBegins, StartWrite
  <2>2. {q \in cache : q.id # r.id} \in SUBSET Routes BY <1>1 DEF ListsTyped
  <2>3. pc'[h] = "writing" /\ list'[h] = {q \in cache : q.id # r.id}
        /\ \A g \in Handlers \ {h} : list'[g] = list[g]
    BY <1>1, <2>1, <2>2 DEF RequestsTyped, ListsTyped, Pushers
  <2>4. IdsOf({q \in cache : q.id # r.id}) = IdsOf(cache) \ {r.id} BY DEF IdsOf
  <2>5. /\ cache' = cache /\ disk' = disk /\ blemished' = blemished /\ behind' = behind
        /\ op'[h] = "delete" /\ target'[h] = r
        /\ \A g \in Handlers \ {h} : op'[g] = op[g] /\ target'[g] = target[g]
    BY <1>3, <2>1
  <2>6. IdsOf(list'[h]) = IdsOf(cache') \ {target'[h].id} BY <2>3, <2>4, <2>5
  <2>7. Fresh(h)' BY <2>3, <2>5, <2>6 DEF Fresh
  <2>8. \A g \in Handlers \ {h} : g \notin behind' => Fresh(g)'
    <3>1. pc' = [pc EXCEPT ![h] = "writing"] BY <2>1
    <3>2. "writing" \in {"idle", "naming", "writing", "unnaming", "pushing"} OBVIOUS
    <3>3. \A g \in Handlers \ {h} : /\ op'[g] = op[g] /\ target'[g] = target[g]
                                    /\ list'[g] = list[g]
      BY <2>3, <2>5
    <3>4. QED BY <1>2, <2>5, <3>1, <3>2, <3>3
  <2>9. QED BY <2>5, <2>7, <2>8 DEF FateInv, SavedInv
<1>7. ASSUME NEW h \in Handlers, Named(h) PROVE FateInv'
  <2>1. PICK synced \in BOOLEAN : StartWrite(h, Renewed(h, synced)) BY <1>7 DEF Named
  <2>2. pc[h] = "naming" /\ UNCHANGED <<cache, disk, blemished, behind, op, target>>
    BY <1>7 DEF Named
  <2>3. target[h] \in Routes /\ op[h] \in {"create", "resync"}
    BY <1>1, <2>2 DEF RequestsTyped, Working
  <2>4. pc' = [pc EXCEPT ![h] = "writing"] /\ pc'[h] = "writing" /\ list'[h] = Renewed(h, synced)
        /\ \A g \in Handlers \ {h} : list'[g] = list[g]
    BY <1>1, <2>1 DEF StartWrite, RequestsTyped, ListsTyped, Pushers
  <2>5. ASSUME h \notin behind PROVE Fresh(h)'
    <3>1. list[h] = cache /\ (op[h] = "resync" => target[h] \in cache)
      BY <2>2, <2>5 DEF FateInv, Fresh
    <3>2. [target[h] EXCEPT !.synced = synced].id = target[h].id BY <2>3 DEF Routes
    <3>3. IdsOf(Renewed(h, synced)) = IdsOf(cache) \cup {target[h].id}
      BY <3>1, <3>2 DEF Renewed, IdsOf
    <3>4. op[h] = "resync" => IdsOf(cache) \cup {target[h].id} = IdsOf(cache)
      BY <3>1 DEF IdsOf
    <3>5. QED BY <2>2, <2>3, <2>4, <3>3, <3>4 DEF Fresh
  <2>6. QED BY <1>2, <2>2, <2>4, <2>5 DEF FateInv, SavedInv
<1>8. ASSUME NEW h \in Handlers, GivesUp(h) \/ Unnamed(h) \/ WriteFails(h) PROVE FateInv'
  <2>1. /\ cache' = cache /\ Release(h) /\ behind \ {h} \subseteq behind'
        /\ \E to \in {"idle", "pushing"} : pc' = [pc EXCEPT ![h] = to]
    BY <1>8 DEF GivesUp, Unnamed, WriteFails, StartPush
  <2>2. \A g \in Handlers \ {h} : /\ op'[g] = op[g] /\ target'[g] = target[g]
                                  /\ list'[g] = list[g]
    BY <1>1, <2>1 DEF Release, RequestsTyped, ListsTyped
  <2>3. pc'[h] \in {"idle", "pushing"} BY <1>1, <2>1 DEF RequestsTyped, Pushers
  <2>4. Fresh(h)' BY <2>3 DEF Fresh
  <2>5. SavedInv' BY <1>8 DEF GivesUp, Unnamed, WriteFails, FateInv, SavedInv
  <2>6. QED BY <1>2, <2>1, <2>2, <2>4, <2>5 DEF FateInv
<1>9. ASSUME NEW h \in Handlers, CreateWritten(h) \/ ResyncWritten(h) \/ DeleteWritten(h)
      PROVE  FateInv'
  <2>1. Written(h) /\ \E to \in {"idle", "unnaming", "pushing"} : pc' = [pc EXCEPT ![h] = to]
    BY <1>9 DEF CreateWritten, ResyncWritten, DeleteWritten, StartPush
  <2>2. pc'[h] \in {"idle", "unnaming", "pushing"} /\ \A g \in Handlers \ {h} : pc'[g] = pc[g]
    BY <1>1, <2>1 DEF RequestsTyped, Pushers
  <2>3. Fresh(h)' BY <2>2 DEF Fresh
  <2>4. \A g \in Handlers \ {h} : g \notin behind' => Fresh(g)'
    BY <2>1, <2>2 DEF Written, Editing, Fresh
  <2>5. SavedInv' BY <2>1 DEF Written, Landed, SavedInv
  <2>6. QED BY <2>3, <2>4, <2>5 DEF FateInv
<1>10. CASE Crash
  <2>1. \A h \in Handlers : pc'[h] = "idle" BY <1>10 DEF Crash, Pushers
  <2>2. cache' = disk' BY <1>10 DEF Crash
  <2>3. QED BY <2>1, <2>2 DEF FateInv, Fresh, SavedInv
<1>11. CASE Aside
  <2>1. \A h \in Handlers : pc'[h] = pc[h] \/ pc'[h] \notin {"naming", "writing"}
    BY <1>1, <1>11 DEF Aside, Turns, RequestsTyped, Pushers
  <2>2. QED BY <1>11, <2>1, FreshStays DEF Aside, FateInv, SavedInv
<1>12. QED
  BY <1>4, <1>5, <1>6, <1>7, <1>8, <1>9, <1>10, <1>11, StepKinds DEF Handle

LEMMA MoveStep ==
  ASSUME TypeOK, FateInv, Next
  PROVE  RoutesMove
<1>1. RequestsTyped BY DEF TypeOK
<1> USE DEF listVars, requestVars, boundVars
<1>2. CASE cache' = cache BY <1>2 DEF RoutesMove
<1>3. ASSUME NEW h \in Handlers, CreateWritten(h) \/ ResyncWritten(h) \/ DeleteWritten(h)
      PROVE  RoutesMove
  <2>1. Written(h) /\ \E to \in {"idle", "unnaming", "pushing"} : pc' = [pc EXCEPT ![h] = to]
    BY <1>3 DEF CreateWritten, ResyncWritten, DeleteWritten, StartPush
  <2>2. pc'[h] # "writing" BY <1>1, <2>1 DEF RequestsTyped, Pushers
  <2>3. Writes(h) BY <2>1, <2>2 DEF Written, Writes
  <2>4. CASE h \in behind BY <2>3, <2>4 DEF RoutesMove
  <2>5. CASE h \notin behind
    <3>1. IdsOf(cache') = IF op[h] = "create" THEN IdsOf(cache) \cup {target[h].id}
                          ELSE IF op[h] = "delete" THEN IdsOf(cache) \ {target[h].id}
                          ELSE IdsOf(cache)
      BY <2>3, <2>5 DEF Writes, FateInv, Fresh
    <3>2. QED BY <2>3, <3>1 DEF RoutesMove
  <2>6. QED BY <2>4, <2>5
<1>4. CASE Crash
  <2>1. crashes' # crashes BY <1>4 DEF Crash, TypeOK, BoundsHold
  <2>2. CASE DiesUnclean BY <2>2 DEF RoutesMove
  <2>3. CASE ~DiesUnclean
    <3>1. ~blemished /\ \A h \in Handlers : pc[h] # "writing" BY <2>1, <2>3 DEF DiesUnclean
    <3>2. cache' = disk /\ disk = cache BY <1>4, <3>1 DEF Crash, FateInv, SavedInv
    <3>3. QED BY <1>2, <3>2
  <2>4. QED BY <2>2, <2>3
<1>5. ASSUME NEW h \in Handlers, Named(h) \/ GivesUp(h) \/ Unnamed(h) \/ WriteFails(h)
      PROVE  cache' = cache
  BY <1>5 DEF Named, GivesUp, Unnamed, WriteFails
<1>6. ASSUME NEW h \in Handlers,
             \/ \E s \in Subdomains : CreateBegins(h, s)
             \/ \E r \in cache : ResyncBegins(h, r) \/ DeleteBegins(h, r)
      PROVE  cache' = cache
  BY <1>6 DEF CreateBegins, ResyncBegins, DeleteBegins, Request
<1>7. Aside => cache' = cache BY DEF Aside
<1>8. QED BY <1>2, <1>3, <1>4, <1>5, <1>6, <1>7, StepKinds DEF Handle

\* For any requests, failures and restarts, a route only comes or goes by its
\* own request, by a list that another had changed since it was read, or by a
\* restart that finds a file not in order (reverseProxy.ts:412-414, 433-435).
THEOREM RouteFateHolds == Spec => RouteFate
<1>1. Init => FateInv
  BY DEF Init, FateInv, SavedInv, Fresh, Pushers
<1>2. TypeOK /\ FateInv /\ [Next]_vars => FateInv'
  <2>1. ASSUME FateInv, UNCHANGED vars PROVE FateInv'
    BY <2>1 DEF FateInv, SavedInv, Fresh, vars, listVars, requestVars
  <2>2. QED BY <2>1, FateStep
<1>3. TypeOK /\ FateInv /\ [Next]_vars => [RoutesMove]_vars BY MoveStep
<1>4. QED BY <1>1, <1>2, <1>3, TypeCorrect, PTL DEF Spec, RouteFate

-----------------------------------------------------------------------------
(* The names of the routes.                                                *)

\* Every route of the list that says so has its record.
Backed(routes) == \A r \in routes : r.synced => r.subdomain \in dns

\* The only request that works on the routes holds a list whose names are in
\* the DNS; what it deletes is in no list any more when its name is removed.
AloneInv ==
  /\ \A g, h \in Handlers : Working(g) /\ Working(h) => g = h
  /\ shared = {}
  /\ disk \in {cache, {}}
  /\ Backed(cache)
  /\ \A h \in Handlers : Editing(h) => Backed(list[h])
  /\ \A h \in Handlers : pc[h] = "writing" /\ op[h] = "delete"
                           => target[h].subdomain \notin SubdomainsOf(list[h])
  /\ \A h \in Handlers : pc[h] = "unnaming" => target[h].subdomain \notin SubdomainsOf(cache)

DnsInv == ~overlapped => AloneInv

\* A step that takes no record away, and leaves the routes and the requests but
\* h where they are, keeps AloneInv if h itself is in order.
LEMMA AloneStays ==
  ASSUME RequestsTyped, AloneInv, NEW h \in Handlers,
         NEW to \in {"idle", "naming", "writing", "unnaming", "pushing"},
         pc' = [pc EXCEPT ![h] = to],
         to \in {"idle", "pushing"} \/ (\A g \in Handlers : Working(g) => g = h),
         \A g \in Handlers \ {h} : /\ op'[g] = op[g] /\ target'[g] = target[g]
                                   /\ list'[g] = list[g],
         cache' = cache, disk' \in {disk, {}}, shared' = {}, dns \subseteq dns',
         to \in {"naming", "writing"} => Backed(list[h])',
         to = "writing" /\ op'[h] = "delete" => target'[h].subdomain \notin SubdomainsOf(list'[h]),
         to # "unnaming"
  PROVE  AloneInv'
<1>1. pc'[h] = to /\ \A g \in Handlers \ {h} : pc'[g] = pc[g]
  BY DEF RequestsTyped, Pushers
<1>2. \A f, g \in Handlers : Working(f)' /\ Working(g)' => f = g
  BY <1>1 DEF AloneInv, Working
<1>3. ASSUME NEW routes, Backed(routes) PROVE Backed(routes)'
  BY <1>3 DEF Backed
<1>4. Backed(cache)'
  BY <1>3 DEF AloneInv, Backed
<1>5. ASSUME NEW g \in Handlers, Editing(g)' PROVE Backed(list[g])'
  <2>1. CASE g = h BY <1>1, <1>5, <2>1 DEF Editing
  <2>2. CASE g # h BY <1>1, <1>5, <2>2 DEF AloneInv, Backed, Editing
  <2>3. QED BY <2>1, <2>2
<1>6. QED BY <1>1, <1>2, <1>4, <1>5 DEF AloneInv

LEMMA DnsStep ==
  ASSUME TypeOK, UniqueInv, DnsInv, Next
  PROVE  DnsInv'
<1>1. ListsTyped /\ RequestsTyped BY DEF TypeOK
<1> SUFFICES ASSUME ~overlapped' PROVE AloneInv'
  BY DEF DnsInv
<1> USE DEF listVars, requestVars, boundVars
<1>2. ASSUME NEW h \in Handlers, NEW o, NEW r, Request(h, o, r), ~overlapped'
      PROVE  /\ ~overlapped /\ \A g \in Handlers : ~Working(g)
             /\ cache' = cache /\ disk' = disk /\ op'[h] = o /\ target'[h] = r
             /\ \A g \in Handlers \ {h} : op'[g] = op[g] /\ target'[g] = target[g]
  BY <1>1, <1>2 DEF Request, RequestsTyped
<1>3. ASSUME NEW h \in Handlers, (\E s \in Subdomains : CreateBegins(h, s))
                                 \/ (\E r \in cache : ResyncBegins(h, r))
      PROVE  AloneInv'
  <2>1. /\ \E o, r : Request(h, o, r)
        /\ pc' = [pc EXCEPT ![h] = "naming"] /\ list' = [list EXCEPT ![h] = cache]
        /\ dns' = dns /\ shared' = shared
    BY <1>3 DEF CreateBegins, ResyncBegins
  <2>2. AloneInv /\ (\A g \in Handlers : ~Working(g)) /\ cache' = cache /\ disk' = disk
        /\ \A g \in Handlers \ {h} : op'[g] = op[g] /\ target'[g] = target[g]
    BY <1>2, <2>1 DEF DnsInv
  <2>3. list'[h] = cache /\ \A g \in Handlers \ {h} : list'[g] = list[g]
    BY <1>1, <2>1 DEF ListsTyped
  <2>4. Backed(list[h])' BY <2>1, <2>2, <2>3 DEF AloneInv, Backed
  <2>5. QED BY <1>1, <2>1, <2>2, <2>3, <2>4, AloneStays DEF AloneInv
<1>4. ASSUME NEW h \in Handlers, NEW r \in cache, DeleteBegins(h, r) PROVE AloneInv'
  <2> DEFINE rest == {q \in cache : q.id # r.id}
  <2>1. Request(h, "delete", r) /\ StartWrite(h, rest) /\ dns' = dns
    BY <1>4 DEF DeleteBegins
  <2>2. /\ AloneInv /\ (\A g \in Handlers : ~Working(g)) /\ cache' = cache /\ disk' = disk
        /\ op'[h] = "delete" /\ target'[h] = r
        /\ \A g \in Handlers \ {h} : op'[g] = op[g] /\ target'[g] = target[g]
    BY <1>2, <2>1 DEF DnsInv
  <2>3. shared' = shared /\ pc' = [pc EXCEPT ![h] = "writing"] /\ list' = [list EXCEPT ![h] = rest]
    BY <2>1, <2>2 DEF StartWrite, Working
  <2>4. list'[h] = rest /\ \A g \in Handlers \ {h} : list'[g] = list[g]
    BY <1>1, <2>3 DEF ListsTyped
  <2>5. Backed(list[h])' BY <2>1, <2>2, <2>4 DEF AloneInv, Backed
  <2>6. r.subdomain \notin SubdomainsOf(rest)
    BY DEF UniqueInv, SubdomainsUnique, Unambiguous, SubdomainsOf
  <2>7. QED BY <1>1, <2>1, <2>2, <2>3, <2>4, <2>5, <2>6, AloneStays DEF AloneInv
<1>5. ASSUME NEW h \in Handlers, Named(h) PROVE AloneInv'
  <2>1. PICK synced \in BOOLEAN, present \in BOOLEAN :
          /\ synced => present
          /\ dns' = IF present THEN dns \cup {target[h].subdomain} ELSE dns
          /\ StartWrite(h, Renewed(h, synced))
    BY <1>5 DEF Named
  <2>2. pc[h] = "naming" /\ UNCHANGED <<cache, disk, op, target, overlapped>>
    BY <1>5 DEF Named
  <2>3. AloneInv BY <2>2 DEF DnsInv
  <2>4. Working(h) /\ \A g \in Handlers : Working(g) => g = h
    BY <2>2, <2>3 DEF AloneInv, Working
  <2>5. target[h] \in Routes /\ op[h] # "delete" BY <1>1, <2>2, <2>4 DEF RequestsTyped
  <2>6. /\ shared' = shared /\ pc' = [pc EXCEPT ![h] = "writing"]
        /\ list' = [list EXCEPT ![h] = Renewed(h, synced)]
    BY <2>1, <2>4 DEF StartWrite, Working
  <2>7. list'[h] = Renewed(h, synced) /\ \A g \in Handlers \ {h} : list'[g] = list[g]
    BY <1>1, <2>6 DEF ListsTyped
  <2>8. Backed(list[h]) BY <2>2, <2>3 DEF AloneInv, Editing
  <2>9. /\ [target[h] EXCEPT !.synced = synced].synced = synced
        /\ [target[h] EXCEPT !.synced = synced].subdomain = target[h].subdomain
    BY <2>5 DEF Routes
  <2>10. Backed(list[h])' BY <2>1, <2>7, <2>8, <2>9 DEF Backed, Renewed
  <2>11. QED BY <1>1, <2>1, <2>2, <2>3, <2>4, <2>5, <2>6, <2>7, <2>10, AloneStays DEF AloneInv
<1>6. ASSUME NEW h \in Handlers, GivesUp(h) \/ WriteFails(h) PROVE AloneInv'
  <2>1. /\ Release(h) /\ pc' = [pc EXCEPT ![h] = "idle"] /\ disk' \in {disk, {}}
        /\ UNCHANGED <<cache, dns, overlapped>> /\ shared' \subseteq shared
    BY <1>6 DEF GivesUp, WriteFails
  <2>2. AloneInv /\ shared' = {} BY <2>1 DEF DnsInv, AloneInv
  <2>3. \A g \in Handlers \ {h} : op'[g] = op[g] /\ target'[g] = target[g] /\ list'[g] = list[g]
    BY <1>1, <2>1 DEF Release, RequestsTyped, ListsTyped
  <2>4. QED BY <1>1, <2>1, <2>2, <2>3, AloneStays
<1>7. ASSUME NEW h \in Handlers, CreateWritten(h) \/ ResyncWritten(h) \/ DeleteWritten(h)
      PROVE  AloneInv'
  <2>1. /\ Written(h) /\ pc[h] = "writing" /\ UNCHANGED <<dns, overlapped>> /\ cache' = list[h]
        /\ disk' \in Landed(h) /\ shared' = shared \ {h}
        /\ \E to \in {"idle", "pushing", "unnaming"} : pc' = [pc EXCEPT ![h] = to]
    BY <1>7 DEF CreateWritten, ResyncWritten, DeleteWritten, Written, StartPush
  <2>2. AloneInv BY <2>1 DEF DnsInv
  <2>3. \A g \in Handlers \ {h} : ~Working(g) /\ pc'[g] = pc[g]
    BY <1>1, <2>1, <2>2 DEF AloneInv, Working, RequestsTyped, Pushers
  <2>4. pc'[h] \in {"idle", "pushing", "unnaming"} BY <1>1, <2>1 DEF RequestsTyped, Pushers
  <2>5. disk' = cache' /\ shared' = {} BY <2>1, <2>2 DEF Landed, AloneInv
  <2>6. Backed(cache)' BY <2>1, <2>2 DEF AloneInv, Editing, Backed
  <2>7. \A g \in Handlers : pc'[g] # "naming" /\ pc'[g] # "writing"
    BY <2>3, <2>4 DEF Working
  <2>8. ASSUME NEW g \in Handlers, pc'[g] = "unnaming"
        PROVE  target'[g].subdomain \notin SubdomainsOf(cache')
    <3>1. g = h BY <2>3, <2>8 DEF Working
    <3>2. op[h] = "delete" /\ target' = target
      BY <1>1, <1>7, <2>8, <3>1 DEF CreateWritten, ResyncWritten, DeleteWritten, StartPush,
                                    RequestsTyped, Pushers
    <3>3. QED BY <2>1, <2>2, <3>1, <3>2 DEF AloneInv
  <2>9. \A f, g \in Handlers : Working(f)' /\ Working(g)' => f = g
    BY <2>3 DEF Working
  <2>10. QED BY <2>5, <2>6, <2>7, <2>8, <2>9 DEF AloneInv, Editing
<1>8. ASSUME NEW h \in Handlers, Unnamed(h) PROVE AloneInv'
  <2>1. /\ pc[h] = "unnaming" /\ pc' = [pc EXCEPT ![h] = "pushing"]
        /\ dns' \in {dns, dns \ {target[h].subdomain}}
        /\ UNCHANGED <<cache, disk, shared, overlapped>>
    BY <1>8 DEF Unnamed, StartPush
  <2>2. AloneInv BY <2>1 DEF DnsInv
  <2>3. \A g \in Handlers : pc'[g] \notin {"naming", "writing", "unnaming"}
    BY <1>1, <2>1, <2>2 DEF AloneInv, Working, RequestsTyped, Pushers
  <2>4. Backed(cache)' BY <2>1, <2>2 DEF AloneInv, Backed, SubdomainsOf
  <2>5. QED BY <2>1, <2>2, <2>3, <2>4 DEF AloneInv, Working, Editing
<1>9. CASE Crash
  <2>1. AloneInv BY <1>9 DEF Crash, DnsInv
  <2>2. PICK found \in {disk} \cup UNION {{{}, list[h]} : h \in {g \in Handlers : pc[g] = "writing"}} :
          disk' = found /\ cache' = found
    BY <1>9 DEF Crash
  <2>3. PICK added \in SUBSET NamesAt("naming"), removed \in SUBSET NamesAt("unnaming") :
          dns' = (dns \cup added) \ removed
    BY <1>9 DEF Crash
  <2>4. \A h \in Handlers : pc'[h] = "idle" BY <1>9 DEF Crash, Pushers
  <2>5. Backed(found)
    BY <2>1, <2>2 DEF AloneInv, Backed, Editing
  <2>6. \A s \in removed : s \notin SubdomainsOf(found)
    <3>1. SUFFICES ASSUME NEW h \in Handlers, pc[h] = "unnaming"
                   PROVE  target[h].subdomain \notin SubdomainsOf(found)
      BY <2>3 DEF NamesAt
    <3>2. \A g \in Handlers : pc[g] # "writing" BY <2>1, <3>1 DEF AloneInv, Working
    <3>3. found \in {cache, {}} BY <2>1, <2>2, <3>2 DEF AloneInv
    <3>4. QED BY <2>1, <3>1, <3>3 DEF AloneInv, SubdomainsOf
  <2>7. Backed(cache)' BY <2>2, <2>3, <2>5, <2>6 DEF Backed, SubdomainsOf
  <2>8. shared' = {} BY <1>9 DEF Crash
  <2>9. QED BY <2>2, <2>4, <2>7, <2>8 DEF AloneInv, Working, Editing
<1>10. CASE Aside
  <2>1. AloneInv BY <1>10 DEF Aside, DnsInv
  <2>2. \A h \in Handlers : pc'[h] = pc[h] \/ pc'[h] \notin {"naming", "writing", "unnaming"}
    BY <1>1, <1>10 DEF Aside, Turns, RequestsTyped, Pushers
  <2>3. Backed(cache)' BY <1>10, <2>1 DEF Aside, AloneInv, Backed
  <2>4. ASSUME NEW h \in Handlers, Editing(h)' PROVE Backed(list[h])'
    BY <1>10, <2>1, <2>2, <2>4 DEF Aside, AloneInv, Backed, Editing
  <2>5. QED BY <1>10, <2>1, <2>2, <2>3, <2>4 DEF Aside, AloneInv, Working
<1>11. QED
  BY <1>3, <1>4, <1>5, <1>6, <1>7, <1>8, <1>9, <1>10, StepKinds DEF Handle

\* reverseProxy.ts:34-36: for any requests that come one at a time, whatever the
\* DNS answers, whatever write fails and whenever the process dies, a route that
\* says its record is in the DNS has one.
THEOREM DnsFollowsHolds == Spec => []DnsFollows
<1>1. Init => DnsInv
  BY DEF Init, DnsInv, AloneInv, Backed, SubdomainsOf, Working, Editing, Pushers
<1>2. TypeOK /\ UniqueInv /\ DnsInv /\ [Next]_vars => DnsInv'
  <2>1. ASSUME DnsInv, UNCHANGED vars PROVE DnsInv'
    BY <2>1 DEF DnsInv, AloneInv, Backed, Working, Editing, vars, listVars, requestVars
  <2>2. QED BY <2>1, DnsStep
<1>3. DnsInv => DnsFollows BY DEF DnsInv, AloneInv, Backed, DnsFollows
<1>4. TypeOK /\ UniqueInv /\ [Next]_vars => UniqueInv' BY UniqueStays
<1>5. QED BY <1>1, <1>2, <1>3, <1>4, InitUnique, TypeCorrect, PTL DEF Spec

-----------------------------------------------------------------------------
(* Certificates: what Caddy presents for the routes.  The types of          *)
(* Certificates need what its jobs are equipped with when they use it; that *)
(* a certificate in place is kept needs to know what a job holds of the     *)
(* list, until another job changes the list or the file under it; what      *)
(* Caddy presents is right because a configuration on its way that is not   *)
(* behind still says what the list and the routes do.                       *)

CONSTANTS Subjects, Certified, Requests, None, Empty, Torn, Absent, NoSubject,
          MaxArrivals, MaxAgings, MaxIncidents

VARIABLES certsFile, certs, job, issued, due, expired, routed, presented, missed,
          arrivals, agings, incidents

\* The certificates, with names that the routes do not use.
C == INSTANCE Certificates WITH
       Held <- Certified, disk <- certsFile, cache <- certs, caddy <- presented

\* The assumptions Certificates makes of its constants.
Assumed == C!Distinct /\ C!HeldIsFinite

Writing == {"opening", "writing", "publishing"}

\* What a job must have when it is about to use it.
Equipped(q) ==
  /\ q.kind = "ondemand" => q.subject \in Subjects
  /\ q.pc = "authority" \/ q.for \in {"check", "store", "record", "drop"} => q.subject \in Subjects
  /\ q.pc # "authority" /\ q.for = "store" => q.serial # 0
  /\ q.pc \in {"ask", "loading", "loaded"} => q.for # "none"
  /\ q.pc \in Writing => q.for \in {"store", "record", "drop"}
  /\ q.pc = "ask" => ~q.behind

JobsInv == C!TypeOK /\ \A j \in C!Jobs : Equipped(job[j])

\* q is to publish nothing but its own change of the list.
OwnChange(q, entries) ==
  \A s \in C!Known(entries) : q.next[s] # entries[s] =>
    /\ q.subject = s
    /\ \/ q.for \in {"store", "drop"}
       \/ q.for = "record" /\ q.next[s] = [entries[s] EXCEPT !.failed = TRUE]

\* What a job that is not behind holds is what is in the file, or in use.
Abreast(q) ==
  /\ certs = None => q.pc \notin Writing \cup {"load"}
  /\ q.pc \in C!Reading /\ q.behind => certs # None
  /\ q.pc \in C!Reading /\ ~q.behind => certs \in {None, C!Parsed}
  /\ q.pc = "loaded" /\ ~q.behind => q.next = C!Parsed
  /\ q.pc \in Writing /\ ~q.behind => OwnChange(q, certs)

ListInv == \A j \in C!Jobs : Abreast(job[j])

\* j becomes p; the others that are in holders fall behind.
Becomes(j, p, holders) ==
  \/ C!Goes(j, p) /\ holders = {}
  \/ job' = [C!Overtaken(j, holders) EXCEPT ![j] = p]

\* What is given to Caddy says what the list and the routes do, as in Told, when
\* the certificates of over came to their term.  What it presents does unless
\* missed, and so does what a job that is not behind is about to give it, for
\* the routes that it read.
Says(given, entries, routes, over) ==
  \A s \in Subjects :
    IF s \in routes \cap C!Known(entries)
    THEN given[s] = entries[s].serial \/ (given[s] = 0 /\ entries[s].serial \in over)
    ELSE given[s] = 0

ToldInv ==
  /\ ~missed => Says(presented, C!InUse, routed, expired)
  /\ \A j \in C!Jobs :
       job[j].pc = "load" /\ ~job[j].behind =>
         Says(job[j].config, C!InUse, job[j].routes, expired)

\* Who falls behind when j changes the file or the list.
Outdated(j, holders) ==
  /\ certsFile' # certsFile =>
       certs' = certs /\ job[j].pc \in Writing /\ C!Reading \subseteq holders
  /\ certs' # certs =>
       /\ certsFile' = certsFile /\ certs' \in C!Lists
       /\ holders = C!Holding \/ (certs = None /\ job[j].pc = "loaded" /\ certs' = job[j].next)
  /\ holders = {} \/ certs # None \/ job[j].pc \in Writing

-----------------------------------------------------------------------------

\* A request that is over, and the cycle at its next tick.
LEMMA IdleJob ==
  ASSUME Assumed
  PROVE  /\ C!Idle \in C!Job /\ Equipped(C!Idle) /\ C!Idle.pc = "idle"
         /\ C!Tick \in C!Job /\ Equipped(C!Tick) /\ C!Tick.pc = "ask"
<1>1. C!Blank \in C!Lists /\ [s \in Subjects |-> 0] \in [Subjects -> Nat]
  BY DEF C!Blank, C!Lists
<1>2. C!Idle \in C!Job
  BY <1>1 DEF C!Idle, C!Job
<1>3. /\ C!Idle.pc = "idle" /\ C!Idle.kind = "none" /\ C!Idle.for = "none"
      /\ C!Idle.serial = 0 /\ C!Idle.behind = FALSE
  BY DEF C!Idle
<1>4. C!Tick \in C!Job
  BY <1>2 DEF C!Tick, C!Job
<1>5. C!Tick.pc = "ask" /\ C!Tick.kind = "cycle" /\ C!Tick.for = "plan" /\ ~C!Tick.behind
  BY <1>2, <1>3 DEF C!Tick, C!Job
<1> QED BY <1>2, <1>3, <1>4, <1>5 DEF Equipped, Writing

\* A job that asks for the list.
LEMMA AskJob ==
  ASSUME NEW x \in C!Job, NEW for \in {"check", "store", "record", "drop", "push"},
         NEW routes \in SUBSET Subjects
  PROVE  LET z == C!Ask(x, for, routes) IN
         /\ z \in C!Job /\ z.pc = "ask" /\ ~z.behind
         /\ z.for = for /\ z.kind = x.kind /\ z.subject = x.subject /\ z.serial = x.serial
BY DEF C!Ask, C!Job

\* What a job becomes when its subject is dealt with.
LEMMA AfterJob ==
  ASSUME Assumed, routed \subseteq Subjects,
         NEW q \in C!Job, q.subject \in Subjects, ~q.behind,
         NEW stored \in BOOLEAN, NEW p \in C!After(q, stored)
  PROVE  p \in C!Job /\ Equipped(p) /\ p.pc \in {"idle", "ask", "authority"}
<1> DEFINE Emptied == [q EXCEPT !.plan = {}, !.subject = NoSubject]
<1>1. ASSUME NEW x \in C!Job, x.kind = "ondemand" => x.subject \in Subjects
      PROVE  LET z == C!Ask(x, "push", routed) IN z \in C!Job /\ Equipped(z) /\ z.pc = "ask"
  <2> HIDE DEF C!Ask
  <2> QED BY <1>1, AskJob DEF Equipped, Writing
<1>5. Emptied \in C!Job /\ Emptied.kind = q.kind
  BY DEF C!Job
<1> HIDE DEF Emptied
<1>2. C!Ended(q) \in C!Job /\ Equipped(C!Ended(q)) /\ C!Ended(q).pc \in {"idle", "ask"}
  BY IdleJob DEF C!Ended
<1>3. CASE q.kind # "cycle"
  BY <1>1, <1>2, <1>3 DEF C!After
<1>4. CASE q.kind = "cycle"
  <2>1. CASE q.plan \ {q.subject} = {}
    BY <1>1, <1>2, <1>4, <1>5, <2>1 DEF C!After, Emptied
  <2>2. CASE q.plan \ {q.subject} # {}
    <3>1. PICK s \in q.plan \ {q.subject}, renewed \in BOOLEAN :
            p = [q EXCEPT !.pc = "authority", !.plan = q.plan \ {q.subject}, !.subject = s,
                          !.renewed = renewed]
      BY <1>4, <2>2 DEF C!After, C!Job
    <3> QED BY <1>4, <3>1 DEF C!Job, Equipped, Writing
  <2> QED BY <2>1, <2>2
<1> QED BY <1>3, <1>4

\* What a list with one certificate replaced, marked or removed is.
LEMMA ChangedLists ==
  ASSUME Assumed, NEW entries \in C!Lists, NEW q \in C!Job, q.subject \in Subjects
  PROVE  /\ \A c \in C!Cert \cup {Absent} : [entries EXCEPT ![q.subject] = c] \in C!Lists
         /\ entries[q.subject] # Absent =>
              /\ C!Marked(q, entries) \in C!Lists
              /\ C!Marked(q, entries)[q.subject] = [entries[q.subject] EXCEPT !.failed = TRUE]
              /\ \A s \in Subjects \ {q.subject} : C!Marked(q, entries)[s] = entries[s]
<1>1. \A c \in C!Cert \cup {Absent} : [entries EXCEPT ![q.subject] = c] \in C!Lists
  BY DEF C!Lists
<1>2. ASSUME entries[q.subject] # Absent
      PROVE  /\ C!Marked(q, entries) \in C!Lists
             /\ C!Marked(q, entries)[q.subject] = [entries[q.subject] EXCEPT !.failed = TRUE]
             /\ \A s \in Subjects \ {q.subject} : C!Marked(q, entries)[s] = entries[s]
  <2>1. entries[q.subject] \in C!Cert
    BY <1>2 DEF C!Lists
  <2>2. [entries[q.subject] EXCEPT !.failed = TRUE] \in C!Cert
    BY <2>1 DEF C!Cert
  <2>3. C!Marked(q, entries) = [entries EXCEPT ![q.subject] = [entries[q.subject] EXCEPT !.failed = TRUE]]
    BY DEF C!Marked
  <2> QED BY <1>1, <2>2, <2>3 DEF C!Lists
<1> QED BY <1>1, <1>2

\* What a job becomes when it has the list it asked for.
LEMMA DecidedJob ==
  ASSUME Assumed, routed \subseteq Subjects, NEW q \in C!Job, Equipped(q),
         q.pc \in {"ask", "loaded"}, ~q.behind, NEW entries \in C!Lists,
         NEW p \in C!Decided(q, entries)
  PROVE  /\ p \in C!Job /\ Equipped(p)
         /\ p.pc \in {"idle", "ask", "authority", "opening", "load"}
         /\ p.pc = "opening" => ~p.behind /\ OwnChange(p, entries)
         /\ p.pc = "load" => p.config = C!Served(entries, p.routes)
<1>1. CASE q.for = "plan"
  <2>1. C!Planned(entries) \in SUBSET Subjects
    BY DEF C!Planned, C!DueOf, C!Known
  <2>2. CASE p = C!Tick
    BY <2>2, IdleJob
  <2>3. CASE p # C!Tick
    <3>1. PICK s \in C!Planned(entries) :
            p = [q EXCEPT !.pc = "authority", !.plan = C!Planned(entries), !.subject = s]
      BY <1>1, <2>3 DEF C!Decided
    <3> HIDE DEF C!Planned
    <3> QED BY <1>1, <2>1, <3>1 DEF C!Job, Equipped, Writing
  <2> QED BY <2>2, <2>3
<1>2. CASE q.for = "check"
  <2>1. p = C!Idle \/ p = [q EXCEPT !.pc = "authority"]
    BY <1>2 DEF C!Decided
  <2> QED BY <1>2, <2>1, IdleJob DEF C!Job, Equipped, Writing
<1>3. CASE q.for = "store"
  <2> DEFINE new == [serial |-> q.serial, failed |-> FALSE]
             next == [entries EXCEPT ![q.subject] = new]
  <2>1. p = [q EXCEPT !.pc = "opening", !.next = next]
    BY <1>3 DEF C!Decided, C!Write
  <2>2. new \in C!Cert
    BY <1>3 DEF C!Cert, Equipped, Writing, C!Job
  <2>3. q.subject \in Subjects
    BY <1>3 DEF Equipped, Writing
  <2>4. next \in C!Lists /\ \A s \in Subjects \ {q.subject} : next[s] = entries[s]
    BY <2>2, <2>3, ChangedLists DEF C!Lists
  <2> HIDE DEF next
  <2>5. p \in C!Job
    BY <2>1, <2>4 DEF C!Job
  <2>6. /\ p.pc = "opening" /\ p.for = "store" /\ p.subject = q.subject /\ p.serial = q.serial
        /\ p.next = next /\ p.behind = q.behind
    BY <1>3, <2>1 DEF C!Job
  <2> QED BY <1>3, <2>3, <2>4, <2>5, <2>6 DEF Equipped, Writing, OwnChange, C!Known
<1>4. CASE q.for = "record"
  <2>1. q.subject \in Subjects
    BY <1>4 DEF Equipped, Writing
  <2>2. CASE entries[q.subject] = Absent
    <3>1. p \in C!After(q, FALSE)
      BY <1>4, <2>2 DEF C!Decided
    <3> QED BY <2>1, <3>1, AfterJob
  <2>3. CASE entries[q.subject] # Absent
    <3> DEFINE next == C!Marked(q, entries)
    <3>1. p = [q EXCEPT !.pc = "opening", !.next = next]
      BY <1>4, <2>3 DEF C!Decided, C!Write
    <3>2. /\ next \in C!Lists
          /\ next[q.subject] = [entries[q.subject] EXCEPT !.failed = TRUE]
          /\ \A s \in Subjects \ {q.subject} : next[s] = entries[s]
      BY <2>1, <2>3, ChangedLists
    <3> HIDE DEF next
    <3>3. p \in C!Job
      BY <3>1, <3>2 DEF C!Job
    <3>4. /\ p.pc = "opening" /\ p.for = "record" /\ p.subject = q.subject
          /\ p.next = next /\ p.behind = q.behind
      BY <1>4, <3>1 DEF C!Job
    <3> QED BY <2>1, <3>2, <3>3, <3>4 DEF Equipped, Writing, OwnChange, C!Known
  <2> QED BY <2>2, <2>3
<1>5. CASE q.for = "drop"
  <2> DEFINE next == [entries EXCEPT ![q.subject] = Absent]
  <2>1. p = C!Idle \/ p = [q EXCEPT !.pc = "opening", !.next = next]
    BY <1>5 DEF C!Decided, C!Write
  <2>2. q.subject \in Subjects
    BY <1>5 DEF Equipped, Writing
  <2>3. next \in C!Lists /\ \A s \in Subjects \ {q.subject} : next[s] = entries[s]
    BY <2>2, ChangedLists DEF C!Lists
  <2> HIDE DEF next
  <2>4. CASE p = C!Idle
    BY <2>4, IdleJob
  <2>5. CASE p = [q EXCEPT !.pc = "opening", !.next = next]
    <3>1. p \in C!Job
      BY <2>3, <2>5 DEF C!Job
    <3>2. /\ p.pc = "opening" /\ p.for = "drop" /\ p.subject = q.subject
          /\ p.next = next /\ p.behind = q.behind
      BY <1>5, <2>5 DEF C!Job
    <3> QED BY <2>2, <2>3, <3>1, <3>2 DEF Equipped, Writing, OwnChange, C!Known
  <2> QED BY <2>1, <2>4, <2>5
<1>6. CASE q.for = "push"
  <2>1. p = [q EXCEPT !.pc = "load", !.config = C!Served(entries, q.routes)]
    BY <1>6 DEF C!Decided
  <2>2. C!Served(entries, q.routes) \in [Subjects -> Nat]
    BY DEF C!Served, C!Known, C!Lists, C!Cert
  <2> HIDE DEF C!Served
  <2> QED BY <1>6, <2>1, <2>2 DEF C!Job, Equipped, Writing
<1>7. q.for \in {"plan", "check", "store", "record", "drop", "push"}
  BY DEF Equipped, Writing, C!Job
<1> QED BY <1>1, <1>2, <1>3, <1>4, <1>5, <1>6, <1>7

\* A step of one job: it becomes p, the others fall behind or stay.
LEMMA JobMoves ==
  ASSUME JobsInv, NEW j \in C!Jobs, NEW p \in C!Job, Equipped(p),
         NEW holders \in SUBSET C!Holding,
         Becomes(j, p, holders)
  PROVE  /\ job' \in [C!Jobs -> C!Job] /\ job'[j] = p
         /\ \A k \in C!Jobs \ {j} :
              job'[k] = IF job[k].pc \in holders THEN [job[k] EXCEPT !.behind = TRUE] ELSE job[k]
         /\ \A k \in C!Jobs : Equipped(job'[k])
<1> DEFINE Old(q) == [q EXCEPT !.behind = TRUE]
<1>0. job \in [C!Jobs -> C!Job] /\ \A k \in C!Jobs : Equipped(job[k])
  BY DEF JobsInv, C!TypeOK
<1>1. ASSUME NEW q \in C!Job, Equipped(q), q.pc \in holders PROVE Old(q) \in C!Job /\ Equipped(Old(q))
  <2>1. Old(q) \in C!Job
    BY DEF C!Job
  <2>2. /\ Old(q).pc = q.pc /\ Old(q).kind = q.kind /\ Old(q).for = q.for
        /\ Old(q).subject = q.subject /\ Old(q).serial = q.serial /\ q.pc # "ask"
    BY <1>1 DEF C!Job, C!Holding, C!Reading
  <2> QED BY <1>1, <2>1, <2>2 DEF Equipped, Writing
<1> HIDE DEF Old
<1>2. job' = [k \in C!Jobs |-> IF k = j THEN p ELSE IF job[k].pc \in holders THEN Old(job[k]) ELSE job[k]]
  <2>1. CASE C!Goes(j, p) /\ holders = {}
    BY <1>0, <2>1 DEF C!Goes
  <2>2. CASE job' = [C!Overtaken(j, holders) EXCEPT ![j] = p]
    BY <1>0, <2>2 DEF C!Overtaken, Old
  <2> QED BY <2>1, <2>2 DEF Becomes
<1>3. \A k \in C!Jobs : job'[k] \in C!Job /\ Equipped(job'[k])
  BY <1>0, <1>1, <1>2
<1> QED BY <1>2, <1>3 DEF Old

\* What a request that arrives is at first.
LEMMA Arrivals ==
  ASSUME Assumed, routed \subseteq Subjects, C!User
  PROVE  /\ \E r \in Requests, p \in C!Job :
              C!Goes(r, p) /\ Equipped(p) /\ p.pc \in {"ask", "authority"}
         /\ routed' \subseteq Subjects
         /\ UNCHANGED <<routed, missed>> \/ missed' = TRUE
         /\ UNCHANGED <<certsFile, certs, issued, due, expired, presented>>
<1> DEFINE Fits(p) == p \in C!Job /\ Equipped(p) /\ p.pc \in {"ask", "authority"}
<1>1. ASSUME NEW s \in Subjects, NEW routes \in SUBSET Subjects
      PROVE  /\ Fits(C!Ask([C!Idle EXCEPT !.kind = "ondemand", !.subject = s], "push", routes))
             /\ Fits([C!Idle EXCEPT !.pc = "authority", !.kind = "renew", !.subject = s])
             /\ Fits(C!Ask([C!Idle EXCEPT !.kind = "forget", !.subject = s], "drop", {}))
  <2>1. C!Idle \in C!Job
    BY IdleJob
  <2>2. Fits(C!Ask([C!Idle EXCEPT !.kind = "ondemand", !.subject = s], "push", routes))
    <3>1. PICK x : x = [C!Idle EXCEPT !.kind = "ondemand", !.subject = s]
      OBVIOUS
    <3>2. x \in C!Job /\ x.subject = s
      BY <2>1, <3>1 DEF C!Job
    <3>3. PICK z : z = C!Ask(x, "push", routes)
      OBVIOUS
    <3>4. z \in C!Job /\ z.pc = "ask" /\ ~z.behind /\ z.for = "push" /\ z.subject = s
      BY <3>2, <3>3, AskJob
    <3> QED BY <3>1, <3>3, <3>4 DEF Equipped, Writing
  <2>3. Fits([C!Idle EXCEPT !.pc = "authority", !.kind = "renew", !.subject = s])
    BY <2>1 DEF C!Job, C!Idle, Equipped, Writing
  <2>4. Fits(C!Ask([C!Idle EXCEPT !.kind = "forget", !.subject = s], "drop", {}))
    <3>1. PICK x : x = [C!Idle EXCEPT !.kind = "forget", !.subject = s]
      OBVIOUS
    <3>2. x \in C!Job /\ x.subject = s /\ x.kind = "forget"
      BY <2>1, <3>1 DEF C!Job
    <3>3. PICK z : z = C!Ask(x, "drop", {})
      OBVIOUS
    <3>4. z \in C!Job /\ z.pc = "ask" /\ ~z.behind /\ z.for = "drop" /\ z.subject = s /\ z.kind = "forget"
      BY <3>2, <3>3, AskJob
    <3> QED BY <3>1, <3>3, <3>4 DEF Equipped, Writing
  <2> QED BY <2>2, <2>3, <2>4
<1>2. ASSUME NEW routes \in SUBSET Subjects
      PROVE  Fits(C!Ask([C!Idle EXCEPT !.kind = "push"], "push", routes))
  <2>1. PICK x : x = [C!Idle EXCEPT !.kind = "push"]
    OBVIOUS
  <2>2. x \in C!Job /\ x.kind = "push"
    BY <2>1, IdleJob DEF C!Job
  <2>3. PICK z : z = C!Ask(x, "push", routes)
    OBVIOUS
  <2>4. z \in C!Job /\ z.pc = "ask" /\ ~z.behind /\ z.for = "push" /\ z.kind = "push"
    BY <2>2, <2>3, AskJob
  <2> QED BY <2>1, <2>3, <2>4 DEF Equipped, Writing
<1> HIDE DEF Fits
<1>3. PICK r \in Requests : \/ C!PushAgain(r)
                            \/ \E s \in Subjects : \/ C!CreateRoute(r, s) \/ C!DeleteRoute(r, s)
                                                   \/ C!Renew(r, s) \/ C!Forget(r, s)
  BY DEF C!User
<1>4. /\ \E p : C!Arrive(r, p) /\ Fits(p)
      /\ routed' \subseteq Subjects
      /\ UNCHANGED <<routed, missed>> \/ missed' = TRUE
  <2>1. CASE C!PushAgain(r)
    BY <1>2, <2>1 DEF C!PushAgain
  <2>2. ASSUME NEW s \in Subjects, C!CreateRoute(r, s) PROVE <1>4!:
    BY <1>1, <2>2 DEF C!CreateRoute
  <2>3. ASSUME NEW s \in Subjects, C!DeleteRoute(r, s) PROVE <1>4!:
    BY <1>2, <2>3 DEF C!DeleteRoute
  <2>4. ASSUME NEW s \in Subjects, C!Renew(r, s) PROVE <1>4!:
    BY <1>1, <2>4 DEF C!Renew
  <2>5. ASSUME NEW s \in Subjects, C!Forget(r, s) PROVE <1>4!:
    BY <1>1, <2>5 DEF C!Forget
  <2> QED BY <1>3, <2>1, <2>2, <2>3, <2>4, <2>5
<1> QED BY <1>4 DEF Fits, C!Arrive, C!storeVars

\* The types, the file's, the list's and the jobs', as a step leaves them.
LEMMA TypesMove ==
  ASSUME Assumed, JobsInv, NEW j \in C!Jobs, NEW p \in C!Job, Equipped(p),
         NEW holders \in SUBSET C!Holding,
         Becomes(j, p, holders),
         certsFile' \in C!Lists \cup {Empty, Torn}, certs' \in C!Lists \cup {None},
         issued' \in {issued, issued + 1}, presented' \in [Subjects -> Nat], missed' \in BOOLEAN,
         UNCHANGED <<due, expired>>, routed' \subseteq Subjects
  PROVE  JobsInv'
<1>1. job' \in [C!Jobs -> C!Job] /\ \A k \in C!Jobs : Equipped(job'[k])
  BY JobMoves
<1>2. issued' \in Nat /\ due' \subseteq 1 .. issued' /\ expired' \subseteq due'
  BY DEF JobsInv, C!TypeOK
<1> QED BY <1>1, <1>2 DEF JobsInv, C!TypeOK, Equipped, Writing

\* What a job is once it has published, or failed to.
LEMMA Relieved ==
  ASSUME NEW q \in C!Job, Assumed
  PROVE  LET z == [q EXCEPT !.next = C!Blank, !.serial = 0, !.behind = FALSE] IN
         /\ z \in C!Job /\ z.kind = q.kind /\ z.for = q.for /\ z.subject = q.subject
         /\ ~z.behind
<1>1. C!Blank \in C!Lists
  BY DEF C!Blank, C!Lists
<1> QED BY <1>1 DEF C!Job

\* What a failure of the authority, or to store what it gave, leads to.
LEMMA FailedJob ==
  ASSUME Assumed, NEW q \in C!Job, q.subject \in Subjects
  PROVE  /\ C!Failed(q) \in C!Job /\ Equipped(C!Failed(q)) /\ C!Failed(q).pc \in {"idle", "ask"}
         /\ C!Ended(q) \in C!Job /\ Equipped(C!Ended(q)) /\ C!Ended(q).pc \in {"idle", "ask"}
<1>1. LET z == C!Ask(q, "record", {}) IN z \in C!Job /\ Equipped(z) /\ z.pc = "ask"
  BY AskJob DEF Equipped, Writing
<1> QED BY <1>1, IdleJob DEF C!Failed, C!Ended

\* What a job is after its push.
LEMMA PushedJob ==
  ASSUME Assumed, NEW q \in C!Job, Equipped(q)
  PROVE  C!Pushed(q) \in C!Job /\ Equipped(C!Pushed(q)) /\ C!Pushed(q).pc \in {"idle", "ask"}
<1>1. C!Ended(q) \in C!Job /\ Equipped(C!Ended(q)) /\ C!Ended(q).pc \in {"idle", "ask"}
  BY IdleJob DEF C!Ended
<1>2. ASSUME q.kind = "ondemand"
      PROVE  LET z == C!Ask([q EXCEPT !.renewed = TRUE, !.config = C!Idle.config], "check", {}) IN
             z \in C!Job /\ Equipped(z) /\ z.pc = "ask"
  <2> DEFINE x == [q EXCEPT !.renewed = TRUE, !.config = C!Idle.config]
  <2>1. C!Idle.config \in [Subjects -> Nat]
    BY DEF C!Idle
  <2>2. x \in C!Job /\ x.kind = q.kind /\ x.subject = q.subject
    BY <2>1 DEF C!Job
  <2> HIDE DEF x
  <2>3. LET z == C!Ask(x, "check", {}) IN z \in C!Job /\ Equipped(z) /\ z.pc = "ask"
    BY <1>2, <2>2, AskJob DEF Equipped, Writing
  <2> QED BY <2>3 DEF x
<1> QED BY <1>1, <1>2 DEF C!Pushed

\* What the next step of a job, or its failure, makes of it.
LEMMA JobStep ==
  ASSUME Assumed, JobsInv, NEW j \in C!Jobs, C!Step(j) \/ C!Fault(j)
  PROVE  \E p \in C!Job, holders \in SUBSET C!Holding :
           /\ Becomes(j, p, holders) /\ Equipped(p)
           /\ Outdated(j, holders)
           /\ job[j].pc \in {"loaded", "publishing"} => p.pc # job[j].pc
           /\ p.pc = "load" => certs' \in C!Lists /\ p.config = C!Served(certs', p.routes)
           /\ ListInv => Abreast(p)'
<1> DEFINE q == job[j]
<1>0. /\ q \in C!Job /\ Equipped(q) /\ job \in [C!Jobs -> C!Job]
      /\ certsFile \in C!Lists \cup {Empty, Torn} /\ certs \in C!Lists \cup {None}
      /\ routed \subseteq Subjects /\ issued \in Nat
      /\ None \notin C!Lists
  BY DEF JobsInv, C!TypeOK, Assumed, C!Distinct
<1> SUFFICES ASSUME TRUE
             PROVE  \E p \in C!Job, holders \in SUBSET C!Holding :
                      /\ Becomes(j, p, holders) /\ Equipped(p) /\ Outdated(j, holders)
                      /\ q.pc \in {"loaded", "publishing"} => p.pc # q.pc
                      /\ p.pc = "load" => certs' \in C!Lists /\ p.config = C!Served(certs', p.routes)
                      /\ Abreast(q) => Abreast(p)'
  BY DEF ListInv
<1>a. ASSUME NEW p \in C!Job, p.pc \in {"idle", "ask", "authority"} PROVE Abreast(p)'
  BY <1>a DEF Abreast, Writing, C!Reading
<1>1. CASE C!AskCached(j)
  <2>1. /\ q.pc = "ask" /\ ~q.behind /\ q.for # "none" /\ certs \in C!Lists
        /\ UNCHANGED <<certsFile, certs>>
    BY <1>0, <1>1 DEF C!AskCached, Equipped, Writing, C!storeVars
  <2>2. PICK p \in C!Decided(q, certs) : C!Goes(j, p)
    BY <1>1 DEF C!AskCached
  <2>3. /\ p \in C!Job /\ Equipped(p)
        /\ p.pc \in {"idle", "ask", "authority", "opening", "load"}
        /\ p.pc = "opening" => OwnChange(p, certs)
        /\ p.pc = "load" => p.config = C!Served(certs, p.routes)
    BY <1>0, <2>1, DecidedJob
  <2>4. Abreast(p)'
    BY <1>0, <2>1, <2>3 DEF Abreast, Writing, C!Reading
  <2>5. Becomes(j, p, {}) /\ Outdated(j, {})
    BY <2>1, <2>2 DEF Becomes, Outdated
  <2> QED BY <2>1, <2>3, <2>4, <2>5
<1>2. CASE C!AskDisk(j)
  <2>0. PICK p : p = [q EXCEPT !.pc = "loading"]
    OBVIOUS
  <2>1. /\ q.pc = "ask" /\ C!Goes(j, p) /\ UNCHANGED <<certsFile, certs>> /\ certs = None
        /\ ~q.behind
    BY <1>0, <1>2, <2>0 DEF C!AskDisk, C!storeVars, Equipped, Writing
  <2>2. p \in C!Job /\ p.pc = "loading" /\ p.behind = q.behind
    BY <1>0, <2>0 DEF C!Job
  <2>3. Equipped(p)
    BY <1>0, <2>0, <2>1 DEF C!Job, Equipped, Writing
  <2>4. Abreast(p)'
    BY <2>1, <2>2 DEF Abreast, Writing, C!Reading
  <2>5. Becomes(j, p, {}) /\ Outdated(j, {})
    BY <2>1 DEF Becomes, Outdated
  <2> QED BY <2>1, <2>2, <2>3, <2>4, <2>5
<1>3. CASE C!ReadFromDisk(j)
  <2>0. PICK p : p = [q EXCEPT !.pc = "loaded", !.next = C!Parsed]
    OBVIOUS
  <2>1. q.pc = "loading" /\ C!Goes(j, p) /\ UNCHANGED <<certsFile, certs>>
    BY <1>3, <2>0 DEF C!ReadFromDisk, C!storeVars
  <2>2. C!Parsed \in C!Lists /\ C!Parsed' = C!Parsed
    BY <1>0, <2>1 DEF C!Parsed, C!Blank, C!Lists
  <2>3. p \in C!Job /\ p.pc = "loaded" /\ p.next = C!Parsed /\ p.behind = q.behind
    BY <1>0, <2>0, <2>2 DEF C!Job
  <2>4. Equipped(p)
    BY <1>0, <2>0, <2>1 DEF C!Job, Equipped, Writing
  <2>5. Abreast(q) => Abreast(p)'
    BY <2>1, <2>2, <2>3 DEF Abreast, Writing, C!Reading
  <2>6. Becomes(j, p, {}) /\ Outdated(j, {})
    BY <2>1 DEF Becomes, Outdated
  <2> QED BY <2>1, <2>3, <2>4, <2>5, <2>6
<1>4. CASE C!FillCache(j)
  <2> DEFINE z == [q EXCEPT !.next = C!Blank, !.behind = FALSE]
  <2>1. q.pc = "loaded" /\ certs' = q.next /\ certsFile' = certsFile
    BY <1>4 DEF C!FillCache
  <2>2. z \in C!Job /\ Equipped(z) /\ z.pc = "loaded" /\ ~z.behind
    <3>1. C!Blank \in C!Lists
      BY DEF C!Blank, C!Lists
    <3>2. /\ z \in C!Job /\ z.pc = q.pc /\ ~z.behind /\ z.kind = q.kind /\ z.for = q.for
          /\ z.subject = q.subject /\ z.serial = q.serial
      BY <1>0, <3>1 DEF C!Job
    <3> QED BY <1>0, <2>1, <3>2 DEF Equipped, Writing
  <2>3. PICK p \in C!Decided(z, q.next) :
          job' = [(IF certs \in {None, certs'} THEN job ELSE C!Overtaken(j, C!Holding)) EXCEPT ![j] = p]
    BY <1>4 DEF C!FillCache
  <2>4. q.next \in C!Lists
    BY <1>0 DEF C!Job
  <2> HIDE DEF z
  <2>5. /\ p \in C!Job /\ Equipped(p)
        /\ p.pc \in {"idle", "ask", "authority", "opening", "load"}
        /\ p.pc = "opening" => OwnChange(p, q.next)
        /\ p.pc = "load" => p.config = C!Served(q.next, p.routes)
    BY <1>0, <2>2, <2>4, DecidedJob
  <2>9. p.pc = "load" => certs' \in C!Lists /\ p.config = C!Served(certs', p.routes)
    BY <2>1, <2>4, <2>5
  <2>6. Abreast(p)'
    BY <1>0, <2>1, <2>4, <2>5 DEF Abreast, Writing, C!Reading
  <2>7. CASE certs \in {None, certs'}
    <3>1. Becomes(j, p, {}) /\ Outdated(j, {})
      BY <2>1, <2>3, <2>4, <2>7 DEF Becomes, Outdated, C!Goes
    <3> QED BY <2>1, <2>5, <2>6, <2>9, <3>1
  <2>8. CASE certs \notin {None, certs'}
    <3>1. Becomes(j, p, C!Holding) /\ Outdated(j, C!Holding)
      BY <2>1, <2>3, <2>4, <2>8 DEF Becomes, Outdated
    <3> QED BY <2>1, <2>5, <2>6, <2>9, <3>1
  <2> QED BY <2>7, <2>8
<1>5. CASE C!Issued(j)
  <2> DEFINE p == C!Ask([q EXCEPT !.serial = issued'], "store", {})
  <2>1. /\ q.pc = "authority" /\ issued' = issued + 1 /\ C!Goes(j, p)
        /\ UNCHANGED <<certsFile, certs>>
    BY <1>5 DEF C!Issued, C!storeVars
  <2>2. issued' \in Nat \ {0}
    BY <1>0, <2>1
  <2>3. p \in C!Job /\ Equipped(p) /\ p.pc = "ask"
    BY <1>0, <2>1, <2>2 DEF C!Ask, C!Job, Equipped, Writing
  <2>4. Becomes(j, p, {}) /\ Outdated(j, {})
    BY <2>1 DEF Becomes, Outdated
  <2> HIDE DEF p
  <2> QED BY <1>a, <2>1, <2>3, <2>4
<1>6. CASE C!OpenFile(j) \/ C!WriteFile(j)
  <2>1. PICK at \in {"writing", "publishing"} :
          /\ job' = [C!Overtaken(j, C!Reading) EXCEPT ![j].pc = at]
          /\ q.pc \in {"opening", "writing"} /\ certs' = certs
    BY <1>6 DEF C!OpenFile, C!WriteFile
  <2>0. PICK p : p = [q EXCEPT !.pc = at]
    OBVIOUS
  <2>2. /\ p \in C!Job /\ Equipped(p) /\ p.pc = at /\ p.behind = q.behind
        /\ p.for = q.for /\ p.subject = q.subject /\ p.next = q.next
    BY <1>0, <2>0, <2>1 DEF C!Job, Equipped, Writing
  <2>3. job' = [C!Overtaken(j, C!Reading) EXCEPT ![j] = p]
    BY <1>0, <2>0, <2>1 DEF C!Overtaken
  <2>4. Abreast(q) => Abreast(p)'
    BY <2>1, <2>2 DEF Abreast, Writing, C!Reading, OwnChange
  <2>5. Becomes(j, p, C!Reading) /\ Outdated(j, C!Reading) /\ C!Reading \in SUBSET C!Holding
    BY <2>1, <2>3 DEF Becomes, Outdated, C!Holding, Writing
  <2> QED BY <2>1, <2>2, <2>4, <2>5
<1>8. CASE C!Publish(j)
  <2> DEFINE z == [q EXCEPT !.next = C!Blank, !.serial = 0, !.behind = FALSE]
  <2>1. q.pc = "publishing" /\ certsFile' = certsFile /\ certs' \in C!Lists
    BY <1>0, <1>8 DEF C!Publish, C!Job
  <2>2. z \in C!Job /\ z.subject \in Subjects /\ ~z.behind
    BY <1>0, <2>1, Relieved DEF Equipped, Writing
  <2>3. PICK p \in (IF z.for = "drop" THEN {C!Idle} ELSE C!After(z, z.for = "store")) :
          job' = [C!Overtaken(j, C!Holding) EXCEPT ![j] = p]
    BY <1>8 DEF C!Publish
  <2> HIDE DEF z
  <2>4. p \in C!Job /\ Equipped(p) /\ p.pc \in {"idle", "ask", "authority"}
    <3>1. CASE p = C!Idle
      BY <3>1, IdleJob
    <3>2. CASE p \in C!After(z, z.for = "store")
      BY <1>0, <2>2, <3>2, AfterJob
    <3> QED BY <2>3, <3>1, <3>2
  <2>5. Becomes(j, p, C!Holding) /\ Outdated(j, C!Holding)
    BY <2>1, <2>3 DEF Becomes, Outdated, Writing
  <2> QED BY <1>a, <2>1, <2>4, <2>5
<1>9. CASE C!LoadConfig(j)
  <2>1. q.pc = "load" /\ C!Goes(j, C!Pushed(q)) /\ UNCHANGED <<certsFile, certs>>
    BY <1>9 DEF C!LoadConfig, C!storeVars
  <2>2. C!Pushed(q) \in C!Job /\ Equipped(C!Pushed(q)) /\ C!Pushed(q).pc \in {"idle", "ask"}
    BY <1>0, PushedJob
  <2>3. Becomes(j, C!Pushed(q), {}) /\ Outdated(j, {})
    BY <2>1 DEF Becomes, Outdated
  <2> QED BY <1>a, <2>1, <2>2, <2>3
<1>10. CASE C!Fault(j)
  <2> DEFINE z == [q EXCEPT !.next = C!Blank, !.serial = 0, !.behind = FALSE]
  <2>1. \E p \in C!Job : C!Goes(j, p) /\ Equipped(p) /\ p.pc \in {"idle", "ask"}
    <3>1. CASE C!Refused(j)
      <4>1. C!Goes(j, C!Failed(q)) /\ q.subject \in Subjects
        BY <1>0, <3>1 DEF C!Refused, Equipped, Writing
      <4> QED BY <1>0, <4>1, FailedJob
    <3>2. CASE C!WriteFails(j)
      <4>1. z \in C!Job /\ z.subject \in Subjects
        BY <1>0, <3>2, Relieved DEF Equipped, Writing, C!WriteFails
      <4>2. C!Goes(j, IF z.for = "store" THEN C!Failed(z) ELSE C!Ended(z))
        BY <3>2 DEF C!WriteFails
      <4> HIDE DEF z
      <4> QED BY <4>1, <4>2, FailedJob
    <3>3. CASE C!PushFails(j)
      <4>1. C!Goes(j, C!Pushed(q))
        BY <3>3 DEF C!PushFails
      <4> QED BY <1>0, <4>1, PushedJob
    <3> QED BY <1>10, <3>1, <3>2, <3>3 DEF C!Fault
  <2>2. UNCHANGED <<certsFile, certs>>
    BY <1>10 DEF C!Fault, C!Refused, C!WriteFails, C!PushFails, C!storeVars
  <2>3. \A p : C!Goes(j, p) => Becomes(j, p, {}) /\ Outdated(j, {})
    BY <2>2 DEF Becomes, Outdated
  <2> QED BY <1>a, <2>1, <2>3
<1> QED BY <1>1, <1>2, <1>3, <1>4, <1>5, <1>6, <1>8, <1>9, <1>10 DEF C!Step

\* The other variables, as a step of a job leaves them.
LEMMA RestMoves ==
  ASSUME Assumed, JobsInv, NEW j \in C!Jobs, C!Step(j) \/ C!Fault(j)
  PROVE  /\ certsFile' \in C!Lists \cup {Empty, Torn} /\ certs' \in C!Lists \cup {None}
         /\ issued' \in {issued, issued + 1} /\ UNCHANGED <<due, expired, routed>>
         /\ presented' \in [Subjects -> Nat] /\ missed' \in BOOLEAN
<1>0. /\ certsFile \in C!Lists \cup {Empty, Torn} /\ certs \in C!Lists \cup {None}
      /\ presented \in [Subjects -> Nat] /\ missed \in BOOLEAN
      /\ job[j].next \in C!Lists /\ job[j].config \in [Subjects -> Nat] /\ job[j].behind \in BOOLEAN
  BY DEF JobsInv, C!TypeOK, C!Job
<1>1. CASE C!AskCached(j) \/ C!AskDisk(j) \/ C!ReadFromDisk(j)
  BY <1>0, <1>1 DEF C!AskCached, C!AskDisk, C!ReadFromDisk, C!storeVars, C!outside
<1>2. CASE C!FillCache(j) \/ C!Issued(j) \/ C!OpenFile(j) \/ C!WriteFile(j) \/ C!Publish(j)
  BY <1>0, <1>2 DEF C!FillCache, C!Issued, C!OpenFile, C!WriteFile, C!Publish, C!storeVars, C!outside
<1>3. CASE C!LoadConfig(j) \/ C!Fault(j)
  BY <1>0, <1>3 DEF C!LoadConfig, C!Fault, C!Refused, C!WriteFails, C!PushFails, C!storeVars, C!outside
<1> QED BY <1>1, <1>2, <1>3 DEF C!Step

LEMMA JobsInvStep == Assumed /\ JobsInv /\ [C!Next]_(C!vars) => JobsInv'
<1> SUFFICES ASSUME Assumed, JobsInv, [C!Next]_(C!vars) PROVE JobsInv'
  OBVIOUS
<1>0. job \in [C!Jobs -> C!Job] /\ routed \subseteq Subjects /\ issued \in Nat
  BY DEF JobsInv, C!TypeOK
<1>1. CASE C!User
  <2>1. PICK r \in Requests, p \in C!Job : C!Goes(r, p) /\ Equipped(p)
    BY <1>0, <1>1, Arrivals
  <2>2. Becomes(r, p, {}) /\ r \in C!Jobs /\ {} \in SUBSET C!Holding
    BY <2>1 DEF Becomes, C!Jobs
  <2>3. /\ certsFile' \in C!Lists \cup {Empty, Torn} /\ certs' \in C!Lists \cup {None}
        /\ presented' \in [Subjects -> Nat] /\ missed' \in BOOLEAN
    BY <1>1, Arrivals DEF JobsInv, C!TypeOK
  <2>4. UNCHANGED <<issued, due, expired>> /\ routed' \subseteq Subjects
    BY <1>0, <1>1, Arrivals
  <2> QED BY <2>1, <2>2, <2>3, <2>4, TypesMove
<1>2. ASSUME NEW j \in C!Jobs, C!Step(j) \/ C!Fault(j) PROVE JobsInv'
  <2>1. PICK p \in C!Job, holders \in SUBSET C!Holding : Becomes(j, p, holders) /\ Equipped(p)
    BY <1>2, JobStep
  <2> QED BY <1>0, <1>2, <2>1, RestMoves, TypesMove
<1>3. ASSUME NEW c \in 1 .. issued, C!Age(c) PROVE JobsInv'
  <2>1. /\ due' = due \cup {c} /\ expired' \in {expired, expired \cup {c}}
        /\ UNCHANGED <<certsFile, certs, job, issued, routed, presented, missed>>
    BY <1>3 DEF C!Age, C!storeVars
  <2> QED BY <2>1 DEF JobsInv, C!TypeOK, Equipped, Writing
<1>4. CASE C!Restart
  <2>1. /\ \A j \in C!Jobs : job'[j] \in {C!Tick, C!Idle}
        /\ DOMAIN job' = C!Jobs /\ job' = [j \in C!Jobs |-> job'[j]]
    BY <1>4 DEF C!Restart, C!AtRest
  <2>2. job' \in [C!Jobs -> C!Job] /\ \A j \in C!Jobs : Equipped(job'[j])
    BY <2>1, IdleJob
  <2>3. /\ certs' = None /\ missed' \in BOOLEAN
        /\ UNCHANGED <<certsFile, issued, due, expired, routed, presented>>
    BY <1>4 DEF C!Restart, C!outside
  <2> QED BY <2>2, <2>3 DEF JobsInv, C!TypeOK, Equipped, Writing
<1>5. CASE UNCHANGED C!vars
  BY <1>5 DEF C!vars, C!storeVars, C!outside, JobsInv, C!TypeOK, Equipped, Writing
<1> QED BY <1>1, <1>2, <1>3, <1>4, <1>5 DEF C!Next

LEMMA JobsInvInit == Assumed /\ C!Init => JobsInv
<1> SUFFICES ASSUME Assumed, C!Init PROVE JobsInv
  OBVIOUS
<1> DEFINE N == C!Cardinality(Certified)
<1>1. N \in Nat /\ Certified \subseteq Subjects
  <2>1. N = Cardinality(Certified) /\ (C!IsFiniteSet(Certified) <=> IsFiniteSet(Certified))
    BY DEF C!Cardinality, Cardinality, C!IsFiniteSet, IsFiniteSet
  <2>2. IsFiniteSet(Certified) /\ Certified \subseteq Subjects
    BY <2>1 DEF Assumed, C!HeldIsFinite
  <2> QED BY <2>1, <2>2, FS_CardinalityType
<1>2. PICK serial \in [Certified -> 1 .. N] :
        certsFile = [s \in Subjects |->
                       IF s \in Certified THEN [serial |-> serial[s], failed |-> FALSE] ELSE Absent]
  BY DEF C!Init, C!Fn!Bijection, C!Fn!Injection
<1>3. certsFile \in C!Lists
  BY <1>1, <1>2 DEF C!Lists, C!Cert
<1>4. /\ \A j \in C!Jobs : job[j] \in {C!Tick, C!Idle}
      /\ job = [j \in C!Jobs |-> job[j]]
  BY DEF C!Init, C!AtRest
<1>5. job \in [C!Jobs -> C!Job] /\ \A j \in C!Jobs : Equipped(job[j])
  BY <1>4, IdleJob
<1> QED BY <1>1, <1>3, <1>5 DEF C!Init, JobsInv, C!TypeOK

\* A job stays abreast of what another does, or falls behind.
LEMMA OthersAbreast ==
  ASSUME Assumed, JobsInv, ListInv, NEW j \in C!Jobs, NEW k \in C!Jobs,
         NEW holders \in SUBSET C!Holding, Outdated(j, holders),
         job'[k] = IF job[k].pc \in holders THEN [job[k] EXCEPT !.behind = TRUE] ELSE job[k]
  PROVE  Abreast(job[k])'
<1>0. /\ job[k] \in C!Job /\ Abreast(job[k]) /\ Abreast(job[j]) /\ None \notin C!Lists
      /\ job[j].pc \in Writing => certs # None
  BY DEF JobsInv, ListInv, C!TypeOK, Assumed, C!Distinct, Abreast
<1>1. CASE job[k].pc \in holders
  <2>1. job'[k].pc = job[k].pc /\ job'[k].behind
    BY <1>0, <1>1 DEF C!Job
  <2>2. certs' = None => job[k].pc \notin Writing \cup {"load"} \cup C!Reading
    <3>1. certs' = None => certs = None /\ holders \subseteq {"load"}
      BY <1>0 DEF Outdated
    <3> QED BY <1>0, <1>1, <3>1 DEF Abreast, C!Reading
  <2> QED BY <2>1, <2>2 DEF Abreast
<1>2. CASE job[k].pc \notin holders
  <2>1. job'[k] = job[k]
    BY <1>2
  <2>2. CASE UNCHANGED <<certsFile, certs>>
    <3>1. C!Parsed' = C!Parsed /\ certs' = certs
      BY <2>2 DEF C!Parsed
    <3>2. OwnChange(job[k], certs) => OwnChange(job[k], certs)'
      BY <2>1, <3>1 DEF OwnChange
    <3> QED BY <1>0, <2>1, <3>1, <3>2 DEF Abreast
  <2>3. CASE certsFile' # certsFile
    <3>1. certs' = certs /\ certs # None /\ job[k].pc \notin C!Reading
      BY <1>0, <1>2, <2>3 DEF Outdated
    <3> QED BY <1>0, <2>1, <3>1 DEF Abreast, OwnChange, C!Reading, Writing
  <2>4. CASE certs' # certs /\ holders = C!Holding
    BY <1>2, <2>1, <2>4 DEF Abreast, C!Holding, C!Reading, Writing
  <2>5. CASE certs' # certs /\ certs = None /\ job[j].pc = "loaded" /\ certs' = job[j].next
    <3>1. certsFile' = certsFile /\ C!Parsed' = C!Parsed
      BY <2>5 DEF Outdated, C!Parsed
    <3>2. certs' = C!Parsed /\ certs' # None
      BY <1>0, <2>5 DEF Abreast, C!Reading
    <3> QED BY <1>0, <2>1, <2>5, <3>1, <3>2 DEF Abreast, C!Reading
  <2> QED BY <2>2, <2>3, <2>4, <2>5 DEF Outdated
<1> QED BY <1>1, <1>2

LEMMA ListInvStep == Assumed /\ JobsInv /\ ListInv /\ [C!Next]_(C!vars) => ListInv'
<1> SUFFICES ASSUME Assumed, JobsInv, ListInv, [C!Next]_(C!vars) PROVE ListInv'
  OBVIOUS
<1>0. routed \subseteq Subjects
  BY DEF JobsInv, C!TypeOK
<1>1. CASE C!User
  <2>1. PICK r \in Requests, p \in C!Job :
          C!Goes(r, p) /\ Equipped(p) /\ p.pc \in {"ask", "authority"}
    BY <1>0, <1>1, Arrivals
  <2>2. UNCHANGED <<certsFile, certs>> /\ r \in C!Jobs
    BY <1>0, <1>1, Arrivals DEF C!Jobs
  <2>3. job'[r] = p /\ \A k \in C!Jobs \ {r} : job'[k] = job[k]
    BY <2>1, <2>2 DEF C!Goes, JobsInv, C!TypeOK
  <2> QED BY <2>1, <2>2, <2>3 DEF ListInv, Abreast, C!Parsed, OwnChange, C!Reading, Writing
<1>2. ASSUME NEW j \in C!Jobs, C!Step(j) \/ C!Fault(j) PROVE ListInv'
  <2>1. PICK p \in C!Job, holders \in SUBSET C!Holding :
          Becomes(j, p, holders) /\ Equipped(p) /\ Outdated(j, holders) /\ Abreast(p)'
    BY <1>2, JobStep
  <2>2. /\ job'[j] = p
        /\ \A k \in C!Jobs \ {j} :
             job'[k] = IF job[k].pc \in holders THEN [job[k] EXCEPT !.behind = TRUE] ELSE job[k]
    BY <2>1, JobMoves
  <2>3. \A k \in C!Jobs \ {j} : Abreast(job[k])'
    BY <2>1, <2>2, OthersAbreast
  <2>4. Abreast(job[j])'
    BY <2>1, <2>2 DEF Abreast, OwnChange
  <2> QED BY <2>3, <2>4 DEF ListInv, C!Jobs
<1>3. ASSUME NEW c \in 1 .. issued, C!Age(c) PROVE ListInv'
  BY <1>3 DEF C!Age, C!storeVars, ListInv, Abreast, C!Parsed, OwnChange
<1>4. CASE C!Restart
  <2>1. \A j \in C!Jobs : job'[j] \in {C!Tick, C!Idle}
    BY <1>4 DEF C!Restart, C!AtRest
  <2>2. \A j \in C!Jobs : job'[j].pc \in {"idle", "ask"}
    BY <2>1, IdleJob
  <2> QED BY <2>2 DEF ListInv, Abreast, C!Reading, Writing, C!Jobs
<1>5. CASE UNCHANGED C!vars
  BY <1>5 DEF C!vars, C!storeVars, ListInv, Abreast, C!Parsed, OwnChange
<1> QED BY <1>1, <1>2, <1>3, <1>4, <1>5 DEF C!Next

\* What may have replaced the certificate of s, or taken it away.
Accounted(s) ==
  \E j \in C!Jobs :
    /\ job[j].pc \in {"loaded", "publishing"} /\ job'[j].pc # job[j].pc
    /\ \/ job[j].behind
       \/ job[j].subject = s /\ job[j].for \in {"store", "drop"}
       \/ /\ job[j].subject = s /\ job[j].for = "record"
          /\ certs'[s] = [certs[s] EXCEPT !.failed = TRUE]

LEMMA ReplacementAccounted ==
  ASSUME Assumed, JobsInv, ListInv, [C!Next]_(C!vars), certs # None, certs' # None,
         NEW s \in Subjects, certs[s] # Absent, certs'[s] # certs[s]
  PROVE  Accounted(s)
<1>0. /\ \A k \in C!Jobs : job[k] \in C!Job /\ Equipped(job[k]) /\ Abreast(job[k])
      /\ certs \in C!Lists /\ s \in C!Known(certs)
  BY DEF JobsInv, ListInv, C!TypeOK, C!Known
<1>1. PICK j \in C!Jobs : C!FillCache(j) \/ C!Publish(j)
  BY DEF C!Next, C!User, C!PushAgain, C!CreateRoute, C!DeleteRoute, C!Renew, C!Forget, C!Arrive,
     C!Age, C!Restart, C!Step, C!Fault, C!AskCached, C!AskDisk, C!ReadFromDisk, C!Issued,
     C!OpenFile, C!WriteFile, C!LoadConfig, C!Refused, C!WriteFails, C!PushFails, C!vars, C!storeVars
<1>2. PICK p \in C!Job, holders \in SUBSET C!Holding :
        Becomes(j, p, holders) /\ Equipped(p) /\
        (job[j].pc \in {"loaded", "publishing"} => p.pc # job[j].pc)
  BY <1>1, JobStep DEF C!Step
<1>3. job'[j] = p
  BY <1>2, JobMoves
<1>4. /\ job[j].pc \in {"loaded", "publishing"} /\ certs' = job[j].next
      /\ C!FillCache(j) => job[j].pc = "loaded"
      /\ C!Publish(j) => job[j].pc = "publishing"
  BY <1>1 DEF C!FillCache, C!Publish
<1>5. CASE job[j].behind
  BY <1>2, <1>3, <1>4, <1>5 DEF Accounted
<1>6. CASE ~job[j].behind /\ job[j].pc = "loaded"
  BY <1>0, <1>4, <1>6 DEF Abreast, C!Reading
<1>7. CASE ~job[j].behind /\ job[j].pc = "publishing"
  <2>1. OwnChange(job[j], certs)
    BY <1>0, <1>7 DEF Abreast, Writing
  <2> QED BY <1>0, <1>2, <1>3, <1>4, <1>7, <2>1 DEF Accounted, OwnChange
<1> QED BY <1>4, <1>5, <1>6, <1>7

\* The list in use stays what it is, or all who hold something of it fall behind.
LEMMA ListInUse ==
  ASSUME Assumed, JobsInv, ListInv, NEW j \in C!Jobs, NEW holders, Outdated(j, holders),
         holders # C!Holding
  PROVE  C!InUse' = C!InUse
<1>0. /\ job[j] \in C!Job /\ Abreast(job[j]) /\ None \notin C!Lists
  BY DEF JobsInv, ListInv, C!TypeOK, Assumed, C!Distinct
<1>1. CASE UNCHANGED <<certsFile, certs>>
  BY <1>1 DEF C!InUse, C!Parsed
<1>2. CASE certsFile' # certsFile
  BY <1>0, <1>2 DEF Outdated, Abreast, C!InUse
<1>3. CASE certs' # certs
  <2>1. certs = None /\ job[j].pc = "loaded" /\ certs' = job[j].next /\ certs' \in C!Lists
    BY <1>3 DEF Outdated
  <2>2. certs' = C!Parsed
    BY <1>0, <2>1 DEF Abreast, C!Reading
  <2> QED BY <1>0, <2>1, <2>2 DEF C!InUse
<1> QED BY <1>1, <1>2, <1>3

\* Nothing but the list and the routes counts; more may come to its term.
LEMMA StillSays ==
  ASSUME NEW given, NEW entries, NEW routes, NEW over, NEW more, over \subseteq more,
         Says(given, entries, routes, over)
  PROVE  Says(given, entries, routes, more)
BY DEF Says

\* A configuration that is built says what the list and the routes do.
LEMMA ServedSays ==
  ASSUME NEW entries
  PROVE  \A routes : Says(C!Served(entries, routes), entries, routes, expired)
BY DEF Says, C!Served

\* What a step of a job makes of what Caddy presents.
LEMMA CaddyMoves ==
  ASSUME Assumed, JobsInv, NEW j \in C!Jobs, C!Step(j) \/ C!Fault(j)
  PROVE  /\ UNCHANGED <<expired, routed>>
         /\ \/ missed' = TRUE
            \/ UNCHANGED <<presented, missed>> /\ certs \in {None, certs'}
            \/ /\ job[j].pc = "load" /\ presented' = job[j].config
               /\ missed' = (job[j].behind \/ job[j].routes # routed)
               /\ UNCHANGED <<certsFile, certs>>
<1>0. missed \in BOOLEAN
  BY DEF JobsInv, C!TypeOK
<1>1. CASE C!AskCached(j) \/ C!AskDisk(j) \/ C!ReadFromDisk(j)
  BY <1>1 DEF C!AskCached, C!AskDisk, C!ReadFromDisk, C!storeVars, C!outside
<1>2. CASE C!FillCache(j)
  BY <1>0, <1>2 DEF C!FillCache, C!outside
<1>3. CASE C!Issued(j) \/ C!OpenFile(j) \/ C!WriteFile(j) \/ C!Publish(j)
  BY <1>3 DEF C!Issued, C!OpenFile, C!WriteFile, C!Publish, C!storeVars, C!outside
<1>4. CASE C!LoadConfig(j) \/ C!Fault(j)
  BY <1>4 DEF C!LoadConfig, C!Fault, C!Refused, C!WriteFails, C!PushFails, C!storeVars, C!outside
<1> QED BY <1>1, <1>2, <1>3, <1>4 DEF C!Step

LEMMA ToldInvStep ==
  Assumed /\ JobsInv /\ ListInv /\ ToldInv /\ [C!Next]_(C!vars) => ToldInv'
<1> SUFFICES ASSUME Assumed, JobsInv, ListInv, ToldInv, [C!Next]_(C!vars) PROVE ToldInv'
  OBVIOUS
<1>0. /\ job \in [C!Jobs -> C!Job] /\ routed \subseteq Subjects
      /\ missed \in BOOLEAN /\ None \notin C!Lists
  BY DEF JobsInv, C!TypeOK, Assumed, C!Distinct
<1>1. CASE C!User
  <2>1. PICK r \in Requests, p \in C!Job : C!Goes(r, p) /\ p.pc \in {"ask", "authority"}
    BY <1>0, <1>1, Arrivals
  <2>2. /\ UNCHANGED <<certsFile, certs, expired, presented>>
        /\ UNCHANGED <<routed, missed>> \/ missed' = TRUE
    BY <1>0, <1>1, Arrivals
  <2>3. C!InUse' = C!InUse
    BY <2>2 DEF C!InUse, C!Parsed
  <2>4. job'[r] = p /\ \A k \in C!Jobs \ {r} : job'[k] = job[k]
    BY <1>0, <2>1 DEF C!Goes, C!Jobs
  <2> QED BY <2>1, <2>2, <2>3, <2>4 DEF ToldInv, C!Jobs
<1>2. ASSUME NEW j \in C!Jobs, C!Step(j) \/ C!Fault(j) PROVE ToldInv'
  <2>1. PICK p \in C!Job, holders \in SUBSET C!Holding :
          /\ Becomes(j, p, holders) /\ Equipped(p) /\ Outdated(j, holders)
          /\ p.pc = "load" => certs' \in C!Lists /\ p.config = C!Served(certs', p.routes)
    BY <1>2, JobStep
  <2>2. /\ job'[j] = p
        /\ \A k \in C!Jobs \ {j} :
             job'[k] = IF job[k].pc \in holders THEN [job[k] EXCEPT !.behind = TRUE] ELSE job[k]
    BY <2>1, JobMoves
  <2>3. UNCHANGED <<expired, routed>>
    BY <1>2, CaddyMoves
  <2>4. ~missed' => Says(presented', C!InUse', routed', expired')
    <3>1. CASE UNCHANGED <<presented, missed>> /\ certs \in {None, certs'}
      <4>1. CASE holders # C!Holding
        BY <2>1, <2>3, <3>1, <4>1, ListInUse DEF ToldInv
      <4>2. CASE holders = C!Holding
        <5>1. certs # None \/ job[j].pc \in Writing
          BY <2>1, <4>2 DEF Outdated, C!Holding
        <5>2. certs # None
          BY <5>1 DEF ListInv, Abreast
        <5>3. C!InUse' = C!InUse
          BY <3>1, <5>2 DEF C!InUse
        <5> QED BY <2>3, <3>1, <5>3 DEF ToldInv
      <4> QED BY <4>1, <4>2
    <3>2. CASE /\ job[j].pc = "load" /\ presented' = job[j].config
               /\ missed' = (job[j].behind \/ job[j].routes # routed)
               /\ UNCHANGED <<certsFile, certs>>
      BY <2>3, <3>2 DEF ToldInv, C!InUse, C!Parsed
    <3> QED BY <1>2, <3>1, <3>2, CaddyMoves
  <2>5. ASSUME NEW k \in C!Jobs \ {j}, job'[k].pc = "load", ~job'[k].behind
        PROVE  Says(job'[k].config, C!InUse', job'[k].routes, expired')
    <3>0. job[k] \in C!Job
      BY <1>0
    <3>1. job[k].pc \notin holders /\ job'[k] = job[k]
      BY <2>2, <2>5, <3>0 DEF C!Job
    <3>2. holders # C!Holding
      BY <2>5, <3>1 DEF C!Holding
    <3> QED BY <2>1, <2>3, <2>5, <3>1, <3>2, ListInUse DEF ToldInv
  <2>6. ASSUME p.pc = "load" PROVE Says(p.config, C!InUse', p.routes, expired')
    <3>1. C!InUse' = certs' /\ p.config = C!Served(certs', p.routes)
      BY <1>0, <2>1, <2>6 DEF C!InUse
    <3> QED BY <2>3, <3>1, ServedSays
  <2> QED BY <2>2, <2>4, <2>5, <2>6 DEF ToldInv, C!Jobs
<1>3. ASSUME NEW c \in 1 .. issued, C!Age(c) PROVE ToldInv'
  <2>1. UNCHANGED <<certsFile, certs, job, routed, presented, missed>> /\ expired \subseteq expired'
    BY <1>3 DEF C!Age, C!storeVars
  <2>2. C!InUse' = C!InUse
    BY <2>1 DEF C!InUse, C!Parsed
  <2> QED BY <2>1, <2>2, StillSays DEF ToldInv, C!Jobs
<1>4. CASE C!Restart
  <2>1. \A j \in C!Jobs : job'[j] \in {C!Tick, C!Idle}
    BY <1>4 DEF C!Restart, C!AtRest
  <2>2. \A j \in C!Jobs : job'[j].pc \in {"idle", "ask"}
    BY <2>1, IdleJob
  <2>3. ASSUME ~missed' PROVE Says(presented', C!InUse', routed', expired')
    <3>1. /\ ~missed /\ certsFile = certs /\ certs' = None
          /\ UNCHANGED <<certsFile, routed, expired, presented>>
      BY <1>4, <2>3 DEF C!Restart, C!outside
    <3>2. C!InUse' = C!InUse
      BY <3>1 DEF C!InUse, C!Parsed, JobsInv, C!TypeOK, Assumed, C!Distinct
    <3> QED BY <3>1, <3>2 DEF ToldInv
  <2> QED BY <2>2, <2>3 DEF ToldInv, C!Jobs
<1>5. CASE UNCHANGED C!vars
  <2>1. UNCHANGED <<certsFile, certs, job, routed, presented, missed, expired>>
    BY <1>5 DEF C!vars, C!storeVars, C!outside
  <2>2. C!InUse' = C!InUse
    BY <2>1 DEF C!InUse, C!Parsed
  <2> QED BY <2>1, <2>2 DEF ToldInv, C!Jobs
<1> QED BY <1>1, <1>2, <1>3, <1>4, <1>5 DEF C!Next

LEMMA ListInvInit == Assumed /\ C!Init => ListInv /\ ToldInv
<1> SUFFICES ASSUME Assumed, C!Init PROVE ListInv /\ ToldInv
  OBVIOUS
<1>1. \A j \in C!Jobs : job[j] \in {C!Tick, C!Idle}
  BY DEF C!Init, C!AtRest
<1>2. \A j \in C!Jobs : job[j].pc \in {"idle", "ask"}
  BY <1>1, IdleJob
<1> QED BY <1>2 DEF C!Init, ListInv, Abreast, C!Reading, Writing, ToldInv

\* certificates.ts:543-587: the file, the list in memory and what every job
\* holds keep their types, for any subjects, requests, failures and restarts.
THEOREM CertificatesTyped == Assumed => (C!Spec => []C!TypeOK)
<1> SUFFICES ASSUME Assumed PROVE C!Spec => []C!TypeOK
  OBVIOUS
<1>1. C!Init => JobsInv BY JobsInvInit
<1>2. JobsInv /\ [C!Next]_(C!vars) => JobsInv' BY JobsInvStep
<1>3. JobsInv => C!TypeOK BY DEF JobsInv
<1> QED BY <1>1, <1>2, <1>3, PTL DEF C!Spec

\* certificates.ts:703-708: a certificate in place is replaced by one that was
\* obtained for the same subject, or forgotten; a failure only marks its own
\* subject.  The one exception is a list that was changed under the request, by
\* another, between the moment it was read and the moment it is used.
THEOREM InPlaceKeptHolds == Assumed => (C!Spec => C!InPlaceKept)
<1> SUFFICES ASSUME Assumed PROVE C!Spec => C!InPlaceKept
  OBVIOUS
<1>1. C!Init => JobsInv /\ ListInv
  BY JobsInvInit, ListInvInit
<1>2. JobsInv /\ ListInv /\ [C!Next]_(C!vars) => JobsInv' /\ ListInv'
  BY JobsInvStep, ListInvStep
<1>3. JobsInv /\ ListInv /\ [C!Next]_(C!vars) =>
        [certs # None /\ certs' # None =>
           \A s \in Subjects : certs[s] # Absent /\ certs'[s] # certs[s] => Accounted(s)]_(C!vars)
  BY ReplacementAccounted
<1> QED BY <1>1, <1>2, <1>3, PTL DEF C!Spec, C!InPlaceKept, Accounted

\* reverseProxy.ts:593-620, 686-688: Caddy presents to each route its certificate
\* of the list, and to the others nothing, unless the last push failed, was
\* overtaken by a change of the list or of the routes, or was not made.
THEOREM CaddyToldHolds == Assumed => (C!Spec => []C!CaddyTold)
<1> SUFFICES ASSUME Assumed PROVE C!Spec => []C!CaddyTold
  OBVIOUS
<1>1. C!Init => JobsInv /\ ListInv /\ ToldInv
  BY JobsInvInit, ListInvInit
<1>2. JobsInv /\ ListInv /\ ToldInv /\ [C!Next]_(C!vars) => JobsInv' /\ ListInv' /\ ToldInv'
  BY JobsInvStep, ListInvStep, ToldInvStep
<1>3. ToldInv => C!CaddyTold
  BY DEF ToldInv, Says, C!CaddyTold, C!Told
<1> QED BY <1>1, <1>2, <1>3, PTL DEF C!Spec
=============================================================================
