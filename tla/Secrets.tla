------------------------------ MODULE Secrets ------------------------------
(***************************************************************************)
(* The named secrets (secretsStore.ts), the routes that create, change and *)
(* delete them (routes/secrets.ts), and the part of routes/containers.ts   *)
(* that injects their values and keeps `usedBy`, from which                *)
(* GET /api/containers/:id knows which variables hold a secret.            *)
(*                                                                         *)
(* The file is read once into `cache` and rewritten whole by each change.  *)
(* A request computes its list from the cache at one moment and publishes  *)
(* it several awaits later, so requests that overlap undo each other.      *)
(*                                                                         *)
(* Abstracted: values, dates, descriptions and names of containers; the    *)
(* history kept with a secret is a function of its version.  A container   *)
(* takes a secret under one variable.                                      *)
(***************************************************************************)
EXTENDS Naturals, FiniteSets

CONSTANTS
  Ids,            \* identifiers of secrets (randomUUID: each given once)
  Names,          \* names of secrets
  Containers,     \* Docker identifiers (each given once)
  Requests,       \* the requests that may be in flight together
  Kinds,          \* the requests users send
  NoId, NoName, NoContainer,
  None,           \* the cache before the first read
  Empty, Torn,    \* the file truncated, or a mixture of two lists
  Absent,         \* no secret under this identifier
  MaxArrivals,    \* bound: requests received
  MaxFaults,      \* bound: refused writes, failures of Docker
  MaxCrashes      \* bound: restarts of the process

VARIABLES
  disk,           \* the file: a list, Empty or Torn
  cache,          \* the list of the process, None before the first read
  req,            \* the requests in flight
  docker,         \* the state of each container
  injected,       \* the secrets whose value each container was given
  minted,         \* identifiers of secrets already given
  past,           \* history: the lists written so far, and the blank one
  kept,           \* history: usages registered while nothing else was in flight
  exposed,        \* history: those of kept that a purge treated blindly
  arrivals, faults, crashes

storeVars == <<disk, cache, past>>
dockerVars == <<docker, injected>>
vars == <<storeVars, req, dockerVars, minted, kept, exposed, arrivals, faults, crashes>>

-----------------------------------------------------------------------------
(* Lists of secrets.                                                       *)

Secret == [name : Names, version : Nat \ {0}, usedBy : SUBSET Containers]

Lists == [Ids -> Secret \cup {Absent}]

Blank == [i \in Ids |-> Absent]

ASSUME Distinct ==
  /\ NoId \notin Ids
  /\ NoName \notin Names
  /\ NoContainer \notin Containers
  /\ Absent \notin Secret
  /\ {None, Empty, Torn} \cap Lists = {}
  /\ Empty # Torn

Present(list) == {i \in Ids : list[i] # Absent}

Named(list, n) == {i \in Present(list) : list[i].name = n}

\* A request that is not in flight.
NoRequest ==
  [pc |-> "idle", kind |-> "none", id |-> NoId, name |-> NoName, rotate |-> FALSE,
   from |-> NoContainer, to |-> NoContainer, live |-> {}, next |-> Blank, crowded |-> FALSE]

-----------------------------------------------------------------------------
(* The changes of secretsStore.ts: whether one is made of the list that    *)
(* was read, and what it makes of it.                                      *)

\* Mistaken variant: the check is left to the form that sends the request.
NameTakenUnchecked(list, n, mine) == FALSE

\* SecretNameConflictError: another secret of the list that was read has it.
NameTaken(list, n, mine) == ~(Named(list, n) \subseteq mine)

\* Otherwise the function throws or returns without writing.
Applies(q, list) ==
  \/ q.kind = "create" /\ ~NameTaken(list, q.name, {})
  \/ q.kind = "update" /\ q.id \in Present(list) /\ ~NameTaken(list, q.name, {q.id})
  \/ q.kind = "delete" /\ q.id \in Present(list)
  \/ q.kind = "record" /\ Named(list, q.name) # {}
  \/ q.kind \in {"reassign", "unuse", "relabel"}
     /\ \E i \in Present(list) : q.from \in list[i].usedBy
  \/ q.kind = "purge" /\ \E i \in Present(list) : ~(list[i].usedBy \subseteq q.live)

\* Mistaken variant: the usages do not follow a container made again.
UsageAfterStuck(q, s) ==
  CASE q.kind = "record" /\ s.name = q.name -> s.usedBy \cup {q.to}
    [] q.kind = "unuse" -> s.usedBy \ {q.from}
    [] q.kind = "purge" -> s.usedBy \cap q.live
    [] OTHER -> s.usedBy

\* The usages that recordSecretUsage, reassignSecretUsagesToContainer,
\* removeSecretUsagesForContainer and purgeStaleSecretUsages leave to s.
UsageAfter(q, s) ==
  CASE q.kind = "record" /\ s.name = q.name -> s.usedBy \cup {q.to}
    [] q.kind = "reassign" /\ q.from \in s.usedBy -> (s.usedBy \ {q.from}) \cup {q.to}
    [] q.kind = "unuse" -> s.usedBy \ {q.from}
    [] q.kind = "purge" -> s.usedBy \cap q.live
    [] OTHER -> s.usedBy

Change(q, list) ==
  CASE q.kind = "create" ->
         [list EXCEPT ![q.id] = [name |-> q.name, version |-> 1, usedBy |-> {}]]
    [] q.kind = "update" ->
         [list EXCEPT ![q.id].name = q.name,
                      ![q.id].version = IF q.rotate THEN @ + 1 ELSE @]
    [] q.kind = "delete" -> [list EXCEPT ![q.id] = Absent]
    [] OTHER ->
         [i \in Ids |-> IF list[i] = Absent THEN Absent
                        ELSE [list[i] EXCEPT !.usedBy = UsageAfter(q, list[i])]]

-----------------------------------------------------------------------------
(* Requests.                                                               *)

InFlight == {r \in Requests : req[r].pc # "idle"}

\* A request is received: from now on it and those in flight overlap.
Arrive(r, q) ==
  /\ req[r].pc = "idle"
  /\ arrivals < MaxArrivals
  /\ arrivals' = arrivals + 1
  /\ req' = [p \in Requests |->
               IF p = r THEN [q EXCEPT !.crowded = InFlight # {}]
               ELSE IF p \in InFlight THEN [req[p] EXCEPT !.crowded = TRUE]
               ELSE req[p]]
  /\ UNCHANGED <<storeVars, dockerVars, kept, exposed, faults, crashes>>

\* POST, PATCH and DELETE /api/secrets.
CreateSecret(r, n) ==
  /\ "secrets" \in Kinds
  /\ \E i \in Ids \ minted :
       /\ minted' = minted \cup {i}
       /\ Arrive(r, [NoRequest EXCEPT !.pc = "ask", !.kind = "create", !.id = i, !.name = n])

UpdateSecret(r, i, n, rotate) ==
  /\ "secrets" \in Kinds
  /\ i \in minted
  /\ Arrive(r, [NoRequest EXCEPT !.pc = "ask", !.kind = "update", !.id = i, !.name = n,
                                 !.rotate = rotate])
  /\ UNCHANGED minted

DeleteSecret(r, i) ==
  /\ "secrets" \in Kinds
  /\ i \in minted
  /\ Arrive(r, [NoRequest EXCEPT !.pc = "ask", !.kind = "delete", !.id = i])
  /\ UNCHANGED minted

\* GET /api/secrets: the containers are listed first, then the usages purged.
ListSecrets(r) ==
  /\ "list" \in Kinds
  /\ Arrive(r, [NoRequest EXCEPT !.pc = "docker", !.kind = "purge"])
  /\ UNCHANGED minted

\* POST /api/containers with one secretEnv entry.
Launch(r, n) ==
  /\ "launch" \in Kinds
  /\ Arrive(r, [NoRequest EXCEPT !.pc = "ask", !.kind = "resolve", !.name = n])
  /\ UNCHANGED minted

\* POST /api/containers/:id/mounts, and /env with one secret (n) or none.
Recreate(r, c, n) ==
  /\ "recreate" \in Kinds
  /\ docker[c] = "live"
  /\ Arrive(r, [NoRequest EXCEPT !.pc = IF n = NoName THEN "docker" ELSE "ask",
                                 !.kind = IF n = NoName THEN "reassign" ELSE "resolve",
                                 !.name = n, !.from = c])
  /\ UNCHANGED minted

\* DELETE /api/containers/:id, POST /api/containers/:id/rename.
RemoveContainer(r, c) ==
  /\ "remove" \in Kinds
  /\ docker[c] = "live"
  /\ Arrive(r, [NoRequest EXCEPT !.pc = "docker", !.kind = "unuse", !.from = c])
  /\ UNCHANGED minted

RenameContainer(r, c) ==
  /\ "relabel" \in Kinds
  /\ docker[c] = "live"
  /\ Arrive(r, [NoRequest EXCEPT !.pc = "docker", !.kind = "relabel", !.from = c])
  /\ UNCHANGED minted

-----------------------------------------------------------------------------
(* getAll, and what follows it without an await.                           *)

\* The store function of r is over: the route goes on to record the secret
\* it added to the container it made again, or answers.
Leave(r) ==
  req' = [req EXCEPT ![r] =
            IF @.kind = "reassign" /\ @.name # NoName
            THEN [@ EXCEPT !.pc = "ask", !.kind = "record"]
            ELSE NoRequest]

\* r has the list: it answers, goes on to Docker, or starts writing.
Decide(r, list) ==
  LET q == req[r] IN
  \/ /\ q.kind = "resolve"
     /\ IF Named(list, q.name) = {} THEN req' = [req EXCEPT ![r] = NoRequest]
        ELSE \E i \in Named(list, q.name) :
               req' = [req EXCEPT ![r] =
                         [q EXCEPT !.pc = "docker", !.id = i, !.next = Blank,
                            !.kind = IF q.from = NoContainer THEN "record" ELSE "reassign"]]
  \/ /\ q.kind # "resolve"
     /\ IF Applies(q, list)
        THEN req' = [req EXCEPT ![r] = [q EXCEPT !.pc = "opening", !.next = Change(q, list)]]
        ELSE Leave(r)

AskCached(r) ==
  /\ req[r].pc = "ask"
  /\ cache # None
  /\ Decide(r, cache)
  /\ UNCHANGED <<storeVars, dockerVars, minted, kept, exposed, arrivals, faults, crashes>>

AskDisk(r) ==
  /\ req[r].pc = "ask"
  /\ cache = None
  /\ req' = [req EXCEPT ![r].pc = "loading"]
  /\ UNCHANGED <<storeVars, dockerVars, minted, kept, exposed, arrivals, faults, crashes>>

\* Mistaken variant: the error of a file that does not parse is not caught,
\* and what was read goes into the cache.
ReadFromDiskUncaught(r) ==
  /\ req[r].pc = "loading"
  /\ req' = [req EXCEPT ![r].pc = "loaded", ![r].next = disk]
  /\ UNCHANGED <<storeVars, dockerVars, minted, kept, exposed, arrivals, faults, crashes>>

\* readFromDisk: what does not parse counts as a store without a file.
ReadFromDisk(r) ==
  /\ req[r].pc = "loading"
  /\ req' = [req EXCEPT ![r].pc = "loaded",
                        ![r].next = IF disk \in {Empty, Torn} THEN Blank ELSE disk]
  /\ UNCHANGED <<storeVars, dockerVars, minted, kept, exposed, arrivals, faults, crashes>>

\* The cache takes what was read, even when another request filled it since.
FillCache(r) ==
  /\ req[r].pc = "loaded"
  /\ cache' = req[r].next
  /\ Decide(r, req[r].next)
  /\ UNCHANGED <<disk, past, dockerVars, minted, kept, exposed, arrivals, faults, crashes>>

-----------------------------------------------------------------------------
(* writeToDisk, then `cache = next`.  The file is truncated when it is     *)
(* opened and written in place.                                            *)

OpenFile(r) ==
  /\ req[r].pc = "opening"
  /\ disk' = Empty
  /\ req' = [req EXCEPT ![r].pc = "writing"]
  /\ UNCHANGED <<cache, past, dockerVars, minted, kept, exposed, arrivals, faults, crashes>>

\* Over a list written since the file was opened, the end of the longer one
\* may remain.
WriteFile(r) ==
  /\ req[r].pc = "writing"
  /\ disk' \in {req[r].next} \cup (IF disk = Empty THEN {} ELSE {Torn})
  /\ past' = past \cup {req[r].next}
  /\ req' = [req EXCEPT ![r].pc = "publishing"]
  /\ UNCHANGED <<cache, dockerVars, minted, kept, exposed, arrivals, faults, crashes>>

\* The usages registered alone and never treated blindly.
Protected == kept \ exposed

\* What r registered of the usages while nothing else was in flight.
Registered(q) ==
  IF q.crowded THEN {}
  ELSE IF q.kind = "record" THEN {<<q.to, q.id>>}
  ELSE IF q.kind = "reassign" THEN {<<q.to, u[2]>> : u \in {v \in Protected : v[1] = q.from}}
  ELSE {}

Publish(r) ==
  /\ req[r].pc = "publishing"
  /\ cache' = req[r].next
  /\ kept' = kept \cup Registered(req[r])
  /\ Leave(r)
  /\ UNCHANGED <<disk, past, dockerVars, minted, exposed, arrivals, faults, crashes>>

\* mkdir, writeFile or chmod throws: the request fails, the file stays as it
\* is at that point.
WriteFails(r) ==
  /\ req[r].pc \in {"opening", "writing", "publishing"}
  /\ faults < MaxFaults
  /\ faults' = faults + 1
  /\ req' = [req EXCEPT ![r] = NoRequest]
  /\ UNCHANGED <<storeVars, dockerVars, minted, kept, exposed, arrivals, crashes>>

-----------------------------------------------------------------------------
(* Docker, as routes/containers.ts uses it.                                *)

Alive == {c \in Containers : docker[c] = "live"}

\* The next store function of r, with the fields of its request changed.
AskNext(r, q) == req' = [req EXCEPT ![r] = [q EXCEPT !.pc = "ask"]]

ListContainers(r) ==
  /\ req[r].pc = "docker"
  /\ req[r].kind = "purge"
  /\ AskNext(r, [req[r] EXCEPT !.live = Alive])
  /\ UNCHANGED <<storeVars, dockerVars, minted, kept, exposed, arrivals, faults, crashes>>

\* getDockerContainers answers with none of the real containers (an empty list,
\* or those of the demonstration): the purge that follows knows none of them.
ListUnreachable(r) ==
  /\ req[r].pc = "docker"
  /\ req[r].kind = "purge"
  /\ faults < MaxFaults
  /\ faults' = faults + 1
  /\ AskNext(r, [req[r] EXCEPT !.live = {}])
  /\ exposed' = kept
  /\ UNCHANGED <<storeVars, dockerVars, minted, kept, arrivals, crashes>>

\* createAndStartContainer.
ContainerCreated(r) ==
  /\ req[r].pc = "docker"
  /\ req[r].kind = "record"
  /\ \E c \in Containers :
       /\ docker[c] = "unborn"
       /\ docker' = [docker EXCEPT ![c] = "live"]
       /\ injected' = [injected EXCEPT ![c] = {req[r].id}]
       /\ AskNext(r, [req[r] EXCEPT !.to = c])
  /\ UNCHANGED <<storeVars, minted, kept, exposed, arrivals, faults, crashes>>

\* recreateContainerWith: the new container has the environment of the old.
ContainerRecreated(r) ==
  /\ req[r].pc = "docker"
  /\ req[r].kind = "reassign"
  /\ docker[req[r].from] = "live"
  /\ \E c \in Containers :
       /\ docker[c] = "unborn"
       /\ docker' = [docker EXCEPT ![c] = "live", ![req[r].from] = "gone"]
       /\ injected' = [injected EXCEPT ![c] = injected[req[r].from] \cup ({req[r].id} \ {NoId})]
       /\ AskNext(r, [req[r] EXCEPT !.to = c])
  /\ UNCHANGED <<storeVars, minted, kept, exposed, arrivals, faults, crashes>>

\* The container exists but start, or the removal of the old one, threw.
CreatedHalfway(r) ==
  /\ req[r].pc = "docker"
  /\ req[r].kind \in {"record", "reassign"}
  /\ faults < MaxFaults
  /\ faults' = faults + 1
  /\ \E c \in Containers :
       /\ docker[c] = "unborn"
       /\ docker' = [docker EXCEPT ![c] = "live"]
       /\ injected' = [injected EXCEPT ![c] =
            ({req[r].id} \ {NoId}) \cup
            (IF req[r].from = NoContainer THEN {} ELSE injected[req[r].from])]
  /\ req' = [req EXCEPT ![r] = NoRequest]
  /\ UNCHANGED <<storeVars, minted, kept, exposed, arrivals, crashes>>

ContainerRemoved(r) ==
  /\ req[r].pc = "docker"
  /\ req[r].kind = "unuse"
  /\ docker[req[r].from] = "live"
  /\ docker' = [docker EXCEPT ![req[r].from] = "gone"]
  /\ AskNext(r, req[r])
  /\ UNCHANGED <<storeVars, injected, minted, kept, exposed, arrivals, faults, crashes>>

ContainerRenamed(r) ==
  /\ req[r].pc = "docker"
  /\ req[r].kind = "relabel"
  /\ docker[req[r].from] = "live"
  /\ AskNext(r, req[r])
  /\ UNCHANGED <<storeVars, dockerVars, minted, kept, exposed, arrivals, faults, crashes>>

\* The container of the request is no longer there, or Docker refuses.
DockerRefuses(r) ==
  /\ req[r].pc = "docker"
  /\ req[r].kind # "purge"
  /\ req' = [req EXCEPT ![r] = NoRequest]
  /\ UNCHANGED <<storeVars, dockerVars, minted, kept, exposed, arrivals, faults, crashes>>

\* `docker rm` on the host.
Vanish(c) ==
  /\ "vanish" \in Kinds
  /\ docker[c] = "live"
  /\ docker' = [docker EXCEPT ![c] = "gone"]
  /\ UNCHANGED <<storeVars, req, injected, minted, kept, exposed, arrivals, faults, crashes>>

Restart ==
  /\ crashes < MaxCrashes
  /\ crashes' = crashes + 1
  /\ cache' = None
  /\ req' = [r \in Requests |-> NoRequest]
  /\ UNCHANGED <<disk, past, dockerVars, minted, kept, exposed, arrivals, faults>>

-----------------------------------------------------------------------------

Init ==
  /\ disk = Blank
  /\ cache = None
  /\ req = [r \in Requests |-> NoRequest]
  /\ docker = [c \in Containers |-> "unborn"]
  /\ injected = [c \in Containers |-> {}]
  /\ minted = {}
  /\ past = {Blank}
  /\ kept = {}
  /\ exposed = {}
  /\ arrivals = 0
  /\ faults = 0
  /\ crashes = 0

User(r) ==
  \/ \E n \in Names : CreateSecret(r, n) \/ Launch(r, n)
  \/ \E i \in Ids : DeleteSecret(r, i)
                    \/ \E n \in Names, rotate \in BOOLEAN : UpdateSecret(r, i, n, rotate)
  \/ \E c \in Containers : \/ RemoveContainer(r, c) \/ RenameContainer(r, c)
                           \/ \E n \in Names \cup {NoName} : Recreate(r, c, n)
  \/ ListSecrets(r)

Store(r) ==
  \/ AskCached(r) \/ AskDisk(r) \/ ReadFromDisk(r) \/ FillCache(r)
  \/ OpenFile(r) \/ WriteFile(r) \/ Publish(r) \/ WriteFails(r)

Engine(r) ==
  \/ ListContainers(r) \/ ListUnreachable(r) \/ ContainerCreated(r) \/ ContainerRecreated(r)
  \/ CreatedHalfway(r) \/ ContainerRemoved(r) \/ ContainerRenamed(r) \/ DockerRefuses(r)

Next ==
  \/ \E r \in Requests : User(r) \/ Store(r) \/ Engine(r)
  \/ \E c \in Containers : Vanish(c)
  \/ Restart

Spec == Init /\ [][Next]_vars
-----------------------------------------------------------------------------
(* Properties.                                                             *)

StoreTyped ==
  /\ disk \in Lists \cup {Empty, Torn}
  /\ cache \in Lists \cup {None}
  /\ past \subseteq Lists

Request ==
  [pc : {"idle", "ask", "loading", "loaded", "docker", "opening", "writing", "publishing"},
   kind : {"none", "create", "update", "delete", "resolve", "record", "reassign", "unuse",
           "relabel", "purge"},
   id : Ids \cup {NoId}, name : Names \cup {NoName}, rotate : BOOLEAN,
   from : Containers \cup {NoContainer}, to : Containers \cup {NoContainer},
   live : SUBSET Containers, next : Lists, crowded : BOOLEAN]

RequestsTyped == req \in [Requests -> Request]

DockerTyped ==
  /\ docker \in [Containers -> {"unborn", "live", "gone"}]
  /\ injected \in [Containers -> SUBSET Ids]
  /\ minted \subseteq Ids
  /\ kept \subseteq Containers \X Ids
  /\ exposed \subseteq kept

\* Every variable has its type.
TypeOK == StoreTyped /\ RequestsTyped /\ DockerTyped

NamesUnique(list) == \A i, j \in Present(list) : list[i].name = list[j].name => i = j

\* One request edits one secret, or the usages of the others, never both: a
\* secret appears with version 1 and no usage, keeps its identifier, its
\* version grows by one at most, and two secrets never share a name.
Edit(old, new) ==
  /\ NamesUnique(old) => NamesUnique(new)
  /\ \/ \E i \in Ids :
          /\ \A j \in Ids \ {i} : new[j] = old[j]
          /\ \/ new[i] = Absent
             \/ old[i] = Absent /\ new[i].version = 1 /\ new[i].usedBy = {}
             \/ /\ i \in Present(old) /\ i \in Present(new)
                /\ new[i].version \in {old[i].version, old[i].version + 1}
                /\ new[i].usedBy = old[i].usedBy
     \/ \A i \in Ids :
          /\ old[i] = Absent <=> new[i] = Absent
          /\ i \in Present(old) =>
               new[i].name = old[i].name /\ new[i].version = old[i].version

\* The store implements the lineage of Lineage.tla, whatever overlaps, fails
\* or restarts: secretsStore.ts:20-22 promises unique names and checks them
\* against a list that may be stale when the answer is written.
L == INSTANCE Lineage WITH current <- IF cache = None THEN Blank ELSE cache
KeepsLineage == L!Spec

Tracks(list, u) == list[u[2]] = Absent \/ u[1] \in list[u[2]].usedBy

\* containers.ts:259-276: the variables that hold a secret are found through
\* usedBy.  A usage registered while nothing else was in flight stays in the
\* secret as long as both exist, in the list served and in the file, whatever
\* overlaps, fails or restarts afterwards, with one exception: the usages
\* there when GET /api/secrets could not list the containers, which it purges.
UsageKept ==
  \A u \in Protected : docker[u[1]] = "live" =>
    /\ cache # None => Tracks(cache, u)
    /\ disk \notin {Empty, Torn} => Tracks(disk, u)

\* secretsStore.ts:28-30: the purge is for the containers that disappeared
\* otherwise than through QUAI.  What it is about to publish still has each
\* usage of a live container that the list served has.  Violated when Docker
\* does not answer (docker.ts:737-740: none of the containers is listed), and
\* by a container created between the list and the purge (secrets.ts:73-75).
PurgeSparesTheLiving ==
  \A r \in Requests : req[r].kind = "purge" /\ req[r].pc = "publishing" /\ cache # None =>
    \A c \in Alive : \A i \in Present(cache) :
      Tracks(cache, <<c, i>>) => Tracks(req[r].next, <<c, i>>)

\* containers.ts:262: no value injected through secretEnv is ever answered as
\* it is, and :274: the variables come from usedBy.  Once no request is in
\* flight, a live container given the value of a secret is in its usedBy.
\* Violated by a container created that then fails to start (docker.ts:344):
\* the route records no usage for it.
InjectedTracked ==
  InFlight = {} /\ cache # None =>
    \A c \in Alive : \A i \in injected[c] : Tracks(cache, <<c, i>>)
=============================================================================
