----------------------------- MODULE ReverseProxy -----------------------------
(***************************************************************************)
(* The reverse proxy: reverseProxy.ts, reverseProxyReconciler.ts and       *)
(* routes/reverseProxy.ts.                                                 *)
(*                                                                         *)
(* QUAI keeps a list of routes, from a subdomain to a container, in a file *)
(* and in a cache.  A request that changes the list reads it, waits for    *)
(* the DNS or for nothing, and writes the list it read with its change.    *)
(* Then it pushes to Caddy a configuration built from the whole list, with *)
(* the addresses the containers have at that time.  Caddy keeps what it    *)
(* serves in memory only; a reconciler compares it from time to time with  *)
(* what it should be and pushes again.                                     *)
(*                                                                         *)
(* Routes are numbered by the requests that create them, and every route   *)
(* has a container of its own.  The variables below the line in VARIABLES  *)
(* only record history.                                                    *)
(***************************************************************************)
EXTENDS Naturals, FiniteSets

CONSTANTS
  Subdomains,  \* names of routes
  Addresses,   \* addresses a container may have on the Docker network
  Handlers,    \* requests that may be in progress together
  Reconciler,  \* the reconciler
  Gone,        \* no address: the container is stopped or removed
  NoRoute,
  MaxOld,      \* bound: routes the file holds at the start
  MaxRequests, \* bound: requests ever made
  MaxMoves,    \* bound: containers stopped, started or restarted
  MaxFaults    \* bound: failures of the disk, Docker and Caddy, restarts

ASSUME ProcessAssumption == Reconciler \notin Handlers
ASSUME AddressAssumption == Gone \notin Addresses
ASSUME BoundsAssumption ==
  MaxOld \in Nat /\ MaxRequests \in Nat /\ MaxMoves \in Nat /\ MaxFaults \in Nat

VARIABLES
  cache,    \* the routes, as the API knows them
  disk,     \* what the file would give to the next process; {} if unreadable
  dns,      \* subdomains with a record in the Active Directory DNS
  address,  \* route -> address of its container
  pc,       \* handler or reconciler -> what it waits for
  op,       \* handler -> the request it serves
  target,   \* handler -> the route its request is about
  list,     \* handler -> the list it read; then the list it writes
  shared,   \* handlers whose write of the file meets another
  plan,     \* pusher -> routes whose address it has still to read
  config,   \* pusher -> what it will have Caddy serve
  served,   \* reconciler: subdomains and listening Caddy answered
  caddy,    \* what Caddy serves
  late,     \* configurations sent by pushers that no longer wait for them
  \* ------------------------------------------------------------------------
  behind,     \* handlers whose list another wrote since they read it
  overlapped, \* two requests once worked on the routes together
  blemished,  \* the last write of the file failed, or met another
  requests, moves, faults, crashes

listVars == <<cache, disk, shared, behind, blemished>>
requestVars == <<op, target, list>>
pushVars == <<plan, config>>
caddyVars == <<caddy, late>>
boundVars == <<requests, moves, faults, crashes>>
vars == <<listVars, dns, address, pc, requestVars, pushVars, served, caddyVars,
          overlapped, boundVars>>

Ids == 1 .. (MaxOld + MaxRequests)
Routes == [id : Ids, subdomain : Subdomains, synced : BOOLEAN]
Pushers == Handlers \cup {Reconciler}

\* A configuration of Caddy: subdomains with their upstream, and whether the
\* listeners of QUAI are there.
Configs == [routes : SUBSET (Subdomains \X Addresses), ready : BOOLEAN]
Nothing == [routes |-> {}, ready |-> TRUE]
Bootstrap == [routes |-> {}, ready |-> FALSE]
Unknown == [hosts |-> {}, ready |-> FALSE]

IdsOf(routes) == {r.id : r \in routes}
SubdomainsOf(routes) == {r.subdomain : r \in routes}
Unambiguous(routes) ==
  \A q, r \in routes : q.id = r.id \/ q.subdomain = r.subdomain => q = r
Hosts(c) == {u[1] : u \in c.routes}

ASSUME NoRouteAssumption == NoRoute \notin Routes

\* The request holds a list it read, and has not written it yet.
Editing(h) == pc[h] \in {"naming", "writing"}

\* The request works on the routes or on their names.
Working(h) == pc[h] \in {"naming", "writing", "unnaming"}

\* A failure, or a restart of Caddy.
Fault ==
  /\ faults + crashes < MaxFaults
  /\ faults' = faults + 1

-----------------------------------------------------------------------------
(* Requests that change the routes.                                        *)

\* A request about route r begins.
Request(h, o, r) ==
  /\ pc[h] = "idle"
  /\ requests < MaxRequests
  /\ requests' = requests + 1
  /\ op' = [op EXCEPT ![h] = o]
  /\ target' = [target EXCEPT ![h] = r]
  /\ overlapped' = (overlapped \/ \E g \in Handlers : Working(g))
  /\ UNCHANGED <<cache, disk, behind, blemished, address, pushVars, served, caddyVars, moves,
                 faults, crashes>>

\* h starts to write the file, perhaps beside others.
StartWrite(h, routes) ==
  LET others == {g \in Handlers \ {h} : pc[g] = "writing"} IN
  /\ pc' = [pc EXCEPT ![h] = "writing"]
  /\ list' = [list EXCEPT ![h] = routes]
  /\ shared' = IF others = {} THEN shared ELSE shared \cup others \cup {h}

\* The work of h on the routes is over.
Release(h) ==
  /\ op' = [op EXCEPT ![h] = "none"]
  /\ target' = [target EXCEPT ![h] = NoRoute]
  /\ list' = [list EXCEPT ![h] = {}]

\* Mistaken variant: a route of the same subdomain is replaced.
CreateBeginsReplacing(h, s) ==
  /\ Request(h, "create", [id |-> MaxOld + requests + 1, subdomain |-> s, synced |-> FALSE])
  /\ pc' = [pc EXCEPT ![h] = "naming"]
  /\ list' = [list EXCEPT ![h] = {r \in cache : r.subdomain # s}]
  /\ UNCHANGED <<dns, shared>>

\* createRoute refuses a subdomain of the list it read, then asks Docker for
\* the port and the DNS for a record.
CreateBegins(h, s) ==
  /\ s \notin SubdomainsOf(cache)
  /\ Request(h, "create", [id |-> MaxOld + requests + 1, subdomain |-> s, synced |-> FALSE])
  /\ pc' = [pc EXCEPT ![h] = "naming"]
  /\ list' = [list EXCEPT ![h] = cache]
  /\ UNCHANGED <<dns, shared>>

\* detectContainerTargetPort finds no port, or the DNS is not configured when
\* resyncDns asks: nothing was done.
GivesUp(h) ==
  /\ pc[h] = "naming"
  /\ pc' = [pc EXCEPT ![h] = "idle"]
  /\ Release(h)
  /\ behind' = behind \ {h}
  /\ UNCHANGED <<cache, disk, shared, blemished, dns, address, pushVars, served, caddyVars,
                 overlapped, boundVars>>

\* resyncDns asks the DNS again for the record of a route.
ResyncBegins(h, r) ==
  /\ Request(h, "resync", r)
  /\ pc' = [pc EXCEPT ![h] = "naming"]
  /\ list' = [list EXCEPT ![h] = cache]
  /\ UNCHANGED <<dns, shared>>

\* Mistaken variant: the list is read again to be changed.
RenewedFromCache(h, synced) ==
  {r \in cache : r.id # target[h].id} \cup {[target[h] EXCEPT !.synced = synced]}

\* The list to write once the DNS has answered.
Renewed(h, synced) ==
  {r \in list[h] : r.id # target[h].id} \cup {[target[h] EXCEPT !.synced = synced]}

\* tryPushDns has answered: the record is there, or not for all QUAI knows.
Named(h) ==
  /\ pc[h] = "naming"
  /\ \E synced \in BOOLEAN, present \in BOOLEAN :
       /\ synced => present
       /\ dns' = IF present THEN dns \cup {target[h].subdomain} ELSE dns
       /\ StartWrite(h, Renewed(h, synced))
  /\ UNCHANGED <<cache, disk, behind, blemished, address, op, target, pushVars, served,
                 caddyVars, overlapped, boundVars>>

\* Mistaken variant: the record is removed before the route is.
DeleteBeginsUnnaming(h, r) ==
  /\ Request(h, "delete", r)
  /\ StartWrite(h, {q \in cache : q.id # r.id})
  /\ dns' \in {dns, dns \ {r.subdomain}}

\* deleteRoute writes the list without the route.
DeleteBegins(h, r) ==
  /\ Request(h, "delete", r)
  /\ StartWrite(h, {q \in cache : q.id # r.id})
  /\ UNCHANGED dns

\* Where the file may stand once the write of h has ended: writes that met each
\* other may leave either list, or a mixture that is no JSON.
Landed(h) ==
  {list[h]} \cup (IF h \in shared THEN {{}} ELSE {})
            \cup (IF h \in shared /\ \A g \in Handlers \ {h} : pc[g] # "writing"
                    THEN {disk} ELSE {})

\* p starts to build a configuration from the routes.
StartPush(p, routes) ==
  /\ pc' = [pc EXCEPT ![p] = "pushing"]
  /\ plan' = [plan EXCEPT ![p] = routes]
  /\ config' = [config EXCEPT ![p] = Nothing]

\* The write of h has ended, and the list is the one the API knows.
Written(h) ==
  /\ pc[h] = "writing"
  /\ cache' = list[h]
  /\ disk' \in Landed(h)
  /\ shared' = shared \ {h}
  /\ blemished' = (h \in shared)
  /\ behind' = (behind \cup {g \in Handlers : Editing(g)}) \ {h}
  /\ UNCHANGED <<dns, address, served, caddyVars, overlapped, boundVars>>

\* The end of a creation is a push, that of a resynchronisation an answer; a
\* deletion has still to remove the record.
CreateWritten(h) ==
  /\ op[h] = "create"
  /\ Written(h)
  /\ Release(h)
  /\ StartPush(h, list[h])

ResyncWritten(h) ==
  /\ op[h] = "resync"
  /\ Written(h)
  /\ Release(h)
  /\ pc' = [pc EXCEPT ![h] = "idle"]
  /\ UNCHANGED pushVars

DeleteWritten(h) ==
  /\ op[h] = "delete"
  /\ Written(h)
  /\ pc' = [pc EXCEPT ![h] = "unnaming"]
  /\ list' = [list EXCEPT ![h] = {}]
  /\ UNCHANGED <<op, target, pushVars>>

\* tryRemoveDns has answered; whether the record is gone changes nothing.
Unnamed(h) ==
  /\ pc[h] = "unnaming"
  /\ dns' \in {dns, dns \ {target[h].subdomain}}
  /\ Release(h)
  /\ StartPush(h, cache)
  /\ UNCHANGED <<listVars, address, served, caddyVars, overlapped, boundVars>>

\* The write fails, before or after it emptied the file; the cache stays.
WriteFails(h) ==
  /\ pc[h] = "writing"
  /\ Fault
  /\ disk' \in {disk, {}}
  /\ shared' = shared \ {h}
  /\ blemished' = TRUE
  /\ behind' = behind \ {h}
  /\ pc' = [pc EXCEPT ![h] = "idle"]
  /\ Release(h)
  /\ UNCHANGED <<cache, dns, address, pushVars, served, caddyVars, overlapped, requests, moves,
                 crashes>>

-----------------------------------------------------------------------------
(* Pushes: pushConfigToCaddy.                                              *)

\* POST /api/reverse-proxy/push, or certificates to serve.
PushBegins(h) ==
  /\ pc[h] = "idle"
  /\ requests < MaxRequests
  /\ requests' = requests + 1
  /\ StartPush(h, cache)
  /\ UNCHANGED <<listVars, dns, address, requestVars, served, caddyVars, overlapped, moves,
                 faults, crashes>>

\* resolveUpstream reads the address of a container; a route without one is
\* left out.
Resolve(p, r) ==
  /\ pc[p] = "pushing"
  /\ plan' = [plan EXCEPT ![p] = @ \ {r}]
  /\ config' = IF address[r.id] = Gone THEN config
               ELSE [config EXCEPT ![p].routes = @ \cup {<<r.subdomain, address[r.id]>>}]
  /\ UNCHANGED <<listVars, dns, address, pc, requestVars, served, caddyVars, overlapped,
                 boundVars>>

\* Docker does not answer, which is taken for a container without address.
ResolveFails(p, r) ==
  /\ pc[p] = "pushing"
  /\ Fault
  /\ plan' = [plan EXCEPT ![p] = @ \ {r}]
  /\ UNCHANGED <<listVars, dns, address, pc, requestVars, config, served, caddyVars,
                 overlapped, requests, moves, crashes>>

\* Mistaken variant: subdomains served beyond those expected are no drift.
DriftOfMissing ==
  \/ Hosts(config[Reconciler]) \ served.hosts # {}
  \/ ~served.ready

\* detectReverseProxyDrift: the subdomains differ, or a listener is missing.
Drift ==
  \/ Hosts(config[Reconciler]) # served.hosts
  \/ ~served.ready

\* The configuration is whole, and p sends it: the reconciler only if it
\* differs from what Caddy had answered.
Sends(p) ==
  /\ pc[p] = "pushing" /\ plan[p] = {}
  /\ p = Reconciler => Drift

\* The push of p is over.
EndPush(p) ==
  /\ pc' = [pc EXCEPT ![p] = "idle"]
  /\ config' = [config EXCEPT ![p] = Nothing]
  /\ plan' = [plan EXCEPT ![p] = {}]
  /\ served' = IF p = Reconciler THEN Unknown ELSE served

\* POST /load replaces the whole configuration.
Load(p) ==
  /\ Sends(p)
  /\ caddy' = config[p]
  /\ EndPush(p)
  /\ UNCHANGED <<listVars, dns, address, requestVars, late, overlapped, boundVars>>

\* Caddy refuses, or cannot be reached.
LoadFails(p) ==
  /\ Sends(p)
  /\ Fault
  /\ EndPush(p)
  /\ UNCHANGED <<listVars, dns, address, requestVars, caddyVars, overlapped, requests, moves,
                 crashes>>

\* The wait for Caddy times out; Caddy may still take the configuration.
LoadTimesOut(p) ==
  /\ Sends(p)
  /\ Fault
  /\ late' = late \cup {config[p]}
  /\ EndPush(p)
  /\ UNCHANGED <<listVars, dns, address, requestVars, caddy, overlapped, requests, moves,
                 crashes>>

LateLoad(c) ==
  /\ caddy' = c
  /\ late' = late \ {c}
  /\ UNCHANGED <<listVars, dns, address, pc, requestVars, pushVars, served, overlapped,
                 boundVars>>

-----------------------------------------------------------------------------
(* The reconciler: runReverseProxyReconcileCycle.                          *)

\* Mistaken variant: nothing tells that a cycle is in progress.
CycleStartsAgain ==
  /\ cache # {}
  /\ pc' = [pc EXCEPT ![Reconciler] = "fetching"]
  /\ UNCHANGED <<listVars, dns, address, requestVars, pushVars, served, caddyVars, overlapped,
                 boundVars>>

\* A timer starts a cycle; without routes it does nothing.
CycleStarts ==
  /\ pc[Reconciler] = "idle"
  /\ cache # {}
  /\ pc' = [pc EXCEPT ![Reconciler] = "fetching"]
  /\ UNCHANGED <<listVars, dns, address, requestVars, pushVars, served, caddyVars, overlapped,
                 boundVars>>

\* fetchServedCaddyState has answered, and the configuration is built.
Fetched ==
  /\ pc[Reconciler] = "fetching"
  /\ served' = [hosts |-> Hosts(caddy), ready |-> caddy.ready]
  /\ StartPush(Reconciler, cache)
  /\ UNCHANGED <<listVars, dns, address, requestVars, caddyVars, overlapped, boundVars>>

FetchFails ==
  /\ pc[Reconciler] = "fetching"
  /\ Fault
  /\ pc' = [pc EXCEPT ![Reconciler] = "idle"]
  /\ UNCHANGED <<listVars, dns, address, requestVars, pushVars, served, caddyVars, overlapped,
                 requests, moves, crashes>>

\* Nothing to correct: Caddy is not loaded for nothing.
InSync ==
  /\ pc[Reconciler] = "pushing" /\ plan[Reconciler] = {}
  /\ ~Drift
  /\ EndPush(Reconciler)
  /\ UNCHANGED <<listVars, dns, address, requestVars, caddyVars, overlapped, boundVars>>

-----------------------------------------------------------------------------
(* The world, and the death of the process.                                *)

\* A container stops, starts, or starts again with another address.
ContainerMoves(i) ==
  /\ moves < MaxMoves
  /\ moves' = moves + 1
  /\ \E a \in (Addresses \cup {Gone}) \ {address[i]} : address' = [address EXCEPT ![i] = a]
  /\ UNCHANGED <<listVars, dns, pc, requestVars, pushVars, served, caddyVars, overlapped,
                 requests, faults, crashes>>

\* Caddy comes back with the configuration of its bootstrap file.
CaddyRestarts ==
  /\ Fault
  /\ caddy' = Bootstrap
  /\ late' = {}
  /\ UNCHANGED <<listVars, dns, address, pc, requestVars, pushVars, served, overlapped,
                 requests, moves, crashes>>

\* Subdomains of the routes for which a request stands at state.
NamesAt(state) == {target[h].subdomain : h \in {g \in Handlers : pc[g] = state}}

\* The API dies and starts again from the file, which a write under way may
\* have emptied or filled.  What the DNS was asked, and a configuration already
\* sent, may still be taken.
Crash ==
  /\ faults + crashes < MaxFaults
  /\ crashes' = crashes + 1
  /\ \E found \in {disk} \cup UNION {{{}, list[h]} : h \in {g \in Handlers : pc[g] = "writing"}} :
       /\ disk' = found
       /\ cache' = found
  /\ \E added \in SUBSET NamesAt("naming"), removed \in SUBSET NamesAt("unnaming") :
       dns' = (dns \cup added) \ removed
  /\ \E sent \in SUBSET {config[p] : p \in {q \in Pushers : Sends(q)}} : late' = late \cup sent
  /\ shared' = {} /\ behind' = {} /\ blemished' = FALSE
  /\ pc' = [p \in Pushers |-> "idle"]
  /\ op' = [h \in Handlers |-> "none"]
  /\ target' = [h \in Handlers |-> NoRoute]
  /\ list' = [h \in Handlers |-> {}]
  /\ plan' = [p \in Pushers |-> {}]
  /\ config' = [p \in Pushers |-> Nothing]
  /\ served' = Unknown
  /\ UNCHANGED <<address, caddy, overlapped, requests, moves, faults>>

-----------------------------------------------------------------------------

Init ==
  /\ cache \in {routes \in SUBSET {r \in Routes : r.id <= MaxOld} : Unambiguous(routes)}
  /\ disk = cache
  /\ dns = SubdomainsOf({r \in cache : r.synced})
  /\ address \in [Ids -> Addresses]
  /\ pc = [p \in Pushers |-> "idle"]
  /\ op = [h \in Handlers |-> "none"]
  /\ target = [h \in Handlers |-> NoRoute]
  /\ list = [h \in Handlers |-> {}]
  /\ plan = [p \in Pushers |-> {}]
  /\ config = [p \in Pushers |-> Nothing]
  /\ served = Unknown
  /\ caddy = Bootstrap
  /\ shared = {} /\ late = {} /\ behind = {}
  /\ overlapped = FALSE /\ blemished = FALSE
  /\ requests = 0 /\ moves = 0 /\ faults = 0 /\ crashes = 0

\* What users ask for.
Asked(h) ==
  \/ \E s \in Subdomains : CreateBegins(h, s)
  \/ \E r \in cache : ResyncBegins(h, r) \/ DeleteBegins(h, r)
  \/ PushBegins(h)

\* What a request then does.
Handle(h) ==
  \/ Named(h) \/ GivesUp(h) \/ Unnamed(h)
  \/ CreateWritten(h) \/ ResyncWritten(h) \/ DeleteWritten(h) \/ WriteFails(h)

Push(p) ==
  \/ \E r \in plan[p] : Resolve(p, r) \/ ResolveFails(p, r)
  \/ Load(p) \/ LoadFails(p) \/ LoadTimesOut(p)

Reconcile == CycleStarts \/ Fetched \/ FetchFails \/ InSync

World ==
  \/ \E c \in late : LateLoad(c)
  \/ \E i \in Ids : ContainerMoves(i)
  \/ CaddyRestarts \/ Crash

Next ==
  \/ \E h \in Handlers : Asked(h) \/ Handle(h)
  \/ \E p \in Pushers : Push(p)
  \/ Reconcile
  \/ World

Spec == Init /\ [][Next]_vars

\* What was asked of the disk, the DNS, Docker and Caddy is answered, with a
\* failure or without, and the timer keeps starting cycles.
FairSpec ==
  /\ Spec
  /\ \A h \in Handlers : WF_vars(Handle(h))
  /\ \A p \in Pushers : WF_vars(Push(p))
  /\ WF_vars(Reconcile)

-----------------------------------------------------------------------------
(* Properties.                                                             *)

ListsTyped ==
  /\ cache \subseteq Routes /\ disk \subseteq Routes /\ dns \subseteq Subdomains
  /\ list \in [Handlers -> SUBSET Routes]
  /\ shared \subseteq Handlers /\ behind \subseteq Handlers
  /\ overlapped \in BOOLEAN /\ blemished \in BOOLEAN

RequestsTyped ==
  /\ pc \in [Pushers -> {"idle", "naming", "writing", "unnaming", "fetching", "pushing"}]
  /\ pc[Reconciler] \in {"idle", "fetching", "pushing"}
  /\ op \in [Handlers -> {"none", "create", "resync", "delete"}]
  /\ target \in [Handlers -> Routes \cup {NoRoute}]
  /\ \A h \in Handlers :
       /\ pc[h] # "fetching"
       /\ Working(h) => target[h] \in Routes /\ op[h] # "none"
       /\ pc[h] = "naming" => op[h] # "delete"
       /\ pc[h] = "unnaming" => op[h] = "delete"
       /\ h \in shared => pc[h] = "writing"
       /\ h \in behind => Editing(h)

PushesTyped ==
  /\ address \in [Ids -> Addresses \cup {Gone}]
  /\ plan \in [Pushers -> SUBSET Routes]
  /\ config \in [Pushers -> Configs]
  /\ served \in [hosts : SUBSET Subdomains, ready : BOOLEAN]
  /\ caddy \in Configs /\ late \subseteq Configs
  /\ \A p \in Pushers : pc[p] # "pushing" => plan[p] = {} /\ config[p] = Nothing

BoundsHold ==
  /\ requests \in 0 .. MaxRequests /\ moves \in 0 .. MaxMoves
  /\ faults \in Nat /\ crashes \in Nat /\ faults + crashes <= MaxFaults

\* The type invariant, with where a request and a push may stand.
TypeOK == ListsTyped /\ RequestsTyped /\ PushesTyped /\ BoundsHold

\* createRoute (reverseProxy.ts:377) checks a subdomain long before it writes:
\* two routes never share one all the same, in memory or after a restart,
\* since what it writes is the list it checked.
SubdomainsUnique == Unambiguous(cache) /\ Unambiguous(disk)

\* The write of h ends in this step.
Writes(h) == pc[h] = "writing" /\ cache' = list[h] /\ pc'[h] # "writing"

\* The process dies in this step while the file is not in order.
DiesUnclean ==
  /\ crashes' # crashes
  /\ blemished \/ \E h \in Handlers : pc[h] = "writing"

\* Routes come with the requests that create them and go with those that delete
\* them, or else because of a stale list or of an unclean end of the process.
RoutesMove ==
  \A i \in Ids :
    /\ i \in IdsOf(cache) /\ i \notin IdsOf(cache')
         => \/ \E h \in Handlers :
                 Writes(h) /\ (h \in behind \/ (op[h] = "delete" /\ target[h].id = i))
            \/ DiesUnclean
    /\ i \notin IdsOf(cache) /\ i \in IdsOf(cache')
         => \/ \E h \in Handlers :
                 Writes(h) /\ (h \in behind \/ (op[h] = "create" /\ target[h].id = i))
            \/ DiesUnclean

\* A list written after another request changed it (reverseProxy.ts:412-414) may
\* lose a route or bring one back, and so may a restart when a write was cut
\* short, failed or met another.  Nothing else does: neither failures of the
\* DNS, of Docker or of Caddy, nor a restart at any other time.
RouteFate == [][RoutesMove]_vars

\* reverseProxy.ts:34-36: as long as requests come one at a time, a route that
\* says its record is in the DNS has one, whatever fails and whenever the
\* process dies.
DnsFollows ==
  ~overlapped => \A r \in cache : r.synced => r.subdomain \in dns

\* The reconciler (reverseProxyReconciler.ts:1-8) repairs lost, late and
\* overtaken pushes: unless no route is left, Caddy ends up listening where it
\* should and serving exactly the subdomains whose container has an address.
Converges ==
  <>[](cache # {} =>
         /\ caddy.ready
         /\ Hosts(caddy) = {r.subdomain : r \in {q \in cache : address[q.id] # Gone}})

\* reverseProxy.ts:22-26: addresses are read at each push so that a route is
\* never broken when its container comes back with another one; what is served
\* ends up where the containers are.
UpstreamFollows ==
  <>[](cache # {} =>
         \A r \in cache : address[r.id] # Gone
           => <<r.subdomain, address[r.id]>> \in caddy.routes)
=============================================================================
