--------------------------- MODULE SecretsProofs ---------------------------
(***************************************************************************)
(* Proofs about Secrets: type correctness, that the store implements the   *)
(* lineage of Lineage.tla, that no list names two secrets alike, and that  *)
(* no usage is lost, for any number of secrets, names, containers and      *)
(* requests, whatever overlaps, fails or restarts.                         *)
(***************************************************************************)
EXTENDS Secrets, TLAPS

\* What the fields of a request hold, which their types alone do not say.
Good(q) ==
  /\ q.kind \in {"create", "update", "delete", "record"} => q.id \in Ids
  /\ q.kind = "reassign" /\ q.name # NoName => q.id \in Ids
  /\ q.kind \in {"create", "update"} => q.name \in Names
  /\ q.kind \in {"reassign", "unuse", "relabel"} => q.from \in Containers
  /\ q.kind \in {"record", "reassign"} /\ q.pc # "docker" => q.to \in Containers

TInv == TypeOK /\ \A r \in Requests : Good(req[r])

-----------------------------------------------------------------------------
(* Lists and changes.                                                      *)

\* The store without a file is a list.
LEMMA BlankTyped == Blank \in Lists
BY DEF Blank, Lists

\* A request at rest is a request.
LEMMA NoRequestTyped == NoRequest \in Request /\ Good(NoRequest)
BY BlankTyped DEF NoRequest, Request, Good

\* A change keeps the type of the list it is applied to.
LEMMA ChangeTyped ==
  ASSUME NEW q \in Request, Good(q), q.pc # "docker", NEW list \in Lists, Applies(q, list)
  PROVE  Change(q, list) \in Lists
<1> USE DEF Lists, Secret
<1>1. CASE q.kind = "create"
  BY <1>1 DEF Change, Good
<1>2. CASE q.kind = "update"
  <2>1. q.id \in Ids /\ q.name \in Names /\ list[q.id] \in Secret
    BY <1>2 DEF Good, Applies, Present
  <2> DEFINE v == IF q.rotate THEN list[q.id].version + 1 ELSE list[q.id].version
  <2>2. v \in Nat \ {0}
    BY <2>1
  <2>3. Change(q, list) =
          [list EXCEPT ![q.id] = [[list[q.id] EXCEPT !.name = q.name] EXCEPT !.version = v]]
    BY <1>2, <2>1 DEF Change
  <2>4. [[list[q.id] EXCEPT !.name = q.name] EXCEPT !.version = v] \in Secret
    BY <2>1, <2>2
  <2> QED BY <2>3, <2>4
<1>3. CASE q.kind = "delete"
  BY <1>3 DEF Change, Good
<1>4. CASE q.kind \in {"record", "reassign", "unuse", "relabel", "purge"}
  <2>1. \A i \in Ids : list[i] # Absent => UsageAfter(q, list[i]) \in SUBSET Containers
    BY <1>4 DEF UsageAfter, Good, Request
  <2>2. Change(q, list) =
          [i \in Ids |-> IF list[i] = Absent THEN Absent
                         ELSE [list[i] EXCEPT !.usedBy = UsageAfter(q, list[i])]]
    BY <1>4 DEF Change
  <2> QED BY <2>1, <2>2
<1> QED BY <1>1, <1>2, <1>3, <1>4 DEF Applies

-----------------------------------------------------------------------------
(* Type correctness.                                                       *)

RInv == RequestsTyped /\ \A r \in Requests : Good(req[r])

\* One request is replaced by another of the right type.
LEMMA SetTyped ==
  ASSUME RInv, NEW r \in Requests, NEW q \in Request, Good(q), req' = [req EXCEPT ![r] = q]
  PROVE  RInv'
<1>1. RequestsTyped'
  BY DEF RInv, RequestsTyped
<1>2. \A p \in Requests : Good(req'[p])
  BY DEF RInv, RequestsTyped
<1> QED BY <1>1, <1>2 DEF RInv

\* A store function ends.
LEMMA LeaveTyped ==
  ASSUME RInv, NEW r \in Requests, req[r].pc # "docker", Leave(r)
  PROVE  RInv'
<1> DEFINE q == IF req[r].kind = "reassign" /\ req[r].name # NoName
                THEN [[req[r] EXCEPT !.pc = "ask"] EXCEPT !.kind = "record"]
                ELSE NoRequest
<1>1. req[r] \in Request /\ Good(req[r])
  BY DEF RInv, RequestsTyped
<1>2. q \in Request
  <2>1. [[req[r] EXCEPT !.pc = "ask"] EXCEPT !.kind = "record"] \in Request
    BY <1>1 DEF Request
  <2> QED BY <2>1, NoRequestTyped
<1>3. Good(q)
  BY <1>1, NoRequestTyped DEF Good, Request
<1>4. req' = [req EXCEPT ![r] = q]
  BY <1>1 DEF Leave, RInv, RequestsTyped
<1> QED BY <1>2, <1>3, <1>4, SetTyped

\* What a request does with the list it has.
LEMMA DecideTyped ==
  ASSUME RInv, NEW r \in Requests, req[r].pc \in {"ask", "loaded"}, NEW list \in Lists,
         Decide(r, list)
  PROVE  RInv'
<1>1. req[r] \in Request /\ Good(req[r])
  BY DEF RInv, RequestsTyped
<1>2. CASE req[r].kind = "resolve" /\ Named(list, req[r].name) = {}
  BY <1>2, NoRequestTyped, SetTyped DEF Decide
<1>3. CASE req[r].kind = "resolve" /\ Named(list, req[r].name) # {}
  <2>1. PICK i \in Named(list, req[r].name) :
          req' = [req EXCEPT ![r] =
                    [req[r] EXCEPT !.pc = "docker", !.id = i, !.next = Blank,
                       !.kind = IF req[r].from = NoContainer THEN "record" ELSE "reassign"]]
    BY <1>3 DEF Decide
  <2> DEFINE q == [req[r] EXCEPT !.pc = "docker", !.id = i, !.next = Blank,
                     !.kind = IF req[r].from = NoContainer THEN "record" ELSE "reassign"]
  <2>2. i \in Ids
    BY <2>1 DEF Named, Present
  <2>3. q \in Request
    BY <1>1, <2>2, BlankTyped DEF Request
  <2>4. /\ q.pc = "docker" /\ q.id = i /\ q.kind \in {"record", "reassign"}
        /\ q.name = req[r].name /\ q.from = req[r].from
        /\ q.kind = "reassign" => q.from # NoContainer
    BY <1>1 DEF Request
  <2>5. q.from \in Containers \cup {NoContainer}
    BY <2>3 DEF Request
  <2> HIDE DEF q
  <2>6. Good(q)
    BY <2>2, <2>4, <2>5 DEF Good
  <2> QED BY <2>1, <2>3, <2>6, SetTyped DEF q
<1>4. CASE req[r].kind # "resolve" /\ Applies(req[r], list)
  <2> DEFINE q == [req[r] EXCEPT !.pc = "opening", !.next = Change(req[r], list)]
  <2>1. Change(req[r], list) \in Lists
    BY <1>1, <1>4, ChangeTyped
  <2>2. q \in Request
    BY <1>1, <2>1 DEF Request
  <2>4. /\ q.pc = "opening" /\ q.kind = req[r].kind /\ q.id = req[r].id
        /\ q.name = req[r].name /\ q.from = req[r].from /\ q.to = req[r].to
    BY <1>1 DEF Request
  <2>3. req' = [req EXCEPT ![r] = q]
    BY <1>4 DEF Decide
  <2> HIDE DEF q
  <2>5. Good(q)
    BY <1>1, <2>4 DEF Good
  <2> QED BY <2>2, <2>3, <2>5, SetTyped
<1>5. CASE req[r].kind # "resolve" /\ ~Applies(req[r], list)
  <2>1. Leave(r)
    BY <1>5 DEF Decide
  <2> QED BY <2>1, LeaveTyped
<1> QED BY <1>2, <1>3, <1>4, <1>5

\* A request is received.
LEMMA ArriveTyped ==
  ASSUME RInv, NEW r \in Requests, NEW q \in Request, Good(q), Arrive(r, q)
  PROVE  RInv'
<1> DEFINE next(p) == IF p = r THEN [q EXCEPT !.crowded = InFlight # {}]
                      ELSE IF p \in InFlight THEN [req[p] EXCEPT !.crowded = TRUE]
                      ELSE req[p]
<1>1. \A p \in Requests : req[p] \in Request /\ Good(req[p])
  BY DEF RInv, RequestsTyped
<1>2. \A x \in Request : \A b \in BOOLEAN : [x EXCEPT !.crowded = b] \in Request
  BY DEF Request
<1>3. \A p \in Requests : next(p) \in Request
  <2>1. (InFlight # {}) \in BOOLEAN /\ TRUE \in BOOLEAN
    OBVIOUS
  <2>2. [q EXCEPT !.crowded = InFlight # {}] \in Request
    BY <1>2, <2>1, Zenon
  <2>3. \A p \in Requests : [req[p] EXCEPT !.crowded = TRUE] \in Request
    BY <1>1, <1>2, <2>1, Zenon
  <2> QED BY <1>1, <2>2, <2>3
<1>4. \A p \in Requests : Good(next(p))
  BY <1>1 DEF Good, Request
<1>5. req' = [p \in Requests |-> next(p)]
  BY DEF Arrive
<1>6. RequestsTyped'
  BY <1>3, <1>5 DEF RequestsTyped
<1>7. \A p \in Requests : Good(req'[p])
  BY <1>4, <1>5
<1> QED BY <1>6, <1>7 DEF RInv

\* The requests users send.
LEMMA UserTyped ==
  ASSUME TInv, NEW r \in Requests, User(r)
  PROVE  TInv'
<1>0. RInv /\ StoreTyped /\ DockerTyped
  BY DEF TInv, TypeOK, RInv
<1> DEFINE Received == \E q \in Request : Good(q) /\ Arrive(r, q)
<1>1. Received
  <2> USE BlankTyped DEF NoRequest, Request, Good
  <2>1. ASSUME NEW n \in Names, CreateSecret(r, n) PROVE Received
    BY <2>1 DEF CreateSecret
  <2>2. ASSUME NEW n \in Names, Launch(r, n) PROVE Received
    BY <2>2 DEF Launch
  <2>3. ASSUME NEW i \in Ids, DeleteSecret(r, i) PROVE Received
    BY <2>3 DEF DeleteSecret
  <2>4. ASSUME NEW i \in Ids, NEW n \in Names, NEW rotate \in BOOLEAN, UpdateSecret(r, i, n, rotate)
        PROVE Received
    BY <2>4 DEF UpdateSecret
  <2>5. ASSUME NEW c \in Containers, RemoveContainer(r, c) PROVE Received
    BY <2>5 DEF RemoveContainer
  <2>6. ASSUME NEW c \in Containers, RenameContainer(r, c) PROVE Received
    BY <2>6 DEF RenameContainer
  <2>7. ASSUME NEW c \in Containers, NEW n \in Names \cup {NoName}, Recreate(r, c, n)
        PROVE Received
    BY <2>7 DEF Recreate
  <2>8. CASE ListSecrets(r)
    BY <2>8 DEF ListSecrets
  <2> QED BY <2>1, <2>2, <2>3, <2>4, <2>5, <2>6, <2>7, <2>8 DEF User
<1>2. RInv'
  BY <1>0, <1>1, ArriveTyped
<1>3. minted' \in SUBSET Ids
  BY <1>0 DEF DockerTyped, User, CreateSecret, Launch, DeleteSecret, UpdateSecret, RemoveContainer,
       RenameContainer, Recreate, ListSecrets
<1>4. UNCHANGED <<disk, cache, past, docker, injected, kept, exposed>>
  BY <1>1 DEF Arrive, storeVars, dockerVars
<1> QED BY <1>0, <1>2, <1>3, <1>4 DEF TInv, TypeOK, RInv, StoreTyped, DockerTyped

\* The steps of the store functions.
LEMMA StoreStepTyped ==
  ASSUME TInv, NEW r \in Requests, Store(r)
  PROVE  TInv'
<1>0. RInv /\ StoreTyped /\ DockerTyped
  BY DEF TInv, TypeOK, RInv
<1>a. req[r] \in Request /\ Good(req[r])
  BY <1>0 DEF RInv, RequestsTyped
<1>b. UNCHANGED <<docker, injected, minted>>
  BY DEF Store, AskCached, AskDisk, ReadFromDisk, FillCache, OpenFile, WriteFile, Publish,
       WriteFails, dockerVars
<1>1. CASE AskCached(r)
  BY <1>0, <1>1, DecideTyped DEF AskCached, storeVars, dockerVars, TInv, TypeOK, RInv, StoreTyped,
       DockerTyped
<1>2. CASE AskDisk(r)
  <2>1. [req[r] EXCEPT !.pc = "loading"] \in Request /\ Good([req[r] EXCEPT !.pc = "loading"])
    BY <1>a, <1>2 DEF Request, Good, AskDisk
  <2>2. RInv'
    BY <1>0, <1>2, <2>1, SetTyped DEF AskDisk
  <2> QED BY <1>0, <1>2, <2>2 DEF AskDisk, storeVars, dockerVars, TInv, TypeOK, RInv, StoreTyped,
            DockerTyped
<1>3. CASE ReadFromDisk(r)
  <2> DEFINE list == IF disk \in {Empty, Torn} THEN Blank ELSE disk
             q == [[req[r] EXCEPT !.pc = "loaded"] EXCEPT !.next = list]
  <2>1. list \in Lists
    BY <1>0, BlankTyped DEF StoreTyped
  <2>2. q \in Request /\ Good(q)
    <3>1. req[r].pc = "loading"
      BY <1>3 DEF ReadFromDisk
    <3>2. q \in Request
      BY <1>a, <2>1 DEF Request
    <3>3. /\ q.pc = "loaded" /\ q.kind = req[r].kind /\ q.id = req[r].id
          /\ q.name = req[r].name /\ q.from = req[r].from /\ q.to = req[r].to
      BY <1>a DEF Request
    <3> HIDE DEF q
    <3>4. Good(q)
      BY <1>a, <3>1, <3>3 DEF Good
    <3> QED BY <3>2, <3>4
  <2>3. req' = [req EXCEPT ![r] = q]
    BY <1>0, <1>3 DEF ReadFromDisk, RInv, RequestsTyped
  <2>4. RInv'
    BY <1>0, <2>2, <2>3, SetTyped
  <2> QED BY <1>0, <1>3, <2>4 DEF ReadFromDisk, storeVars, dockerVars, TInv, TypeOK, RInv,
            StoreTyped, DockerTyped
<1>4. CASE FillCache(r)
  <2>1. req[r].next \in Lists
    BY <1>a DEF Request
  <2>2. RInv'
    BY <1>0, <1>4, <2>1, DecideTyped DEF FillCache
  <2> QED BY <1>0, <1>4, <2>1, <2>2 DEF FillCache, dockerVars, TInv, TypeOK, RInv, StoreTyped,
            DockerTyped
<1>5. CASE OpenFile(r)
  <2>1. [req[r] EXCEPT !.pc = "writing"] \in Request /\ Good([req[r] EXCEPT !.pc = "writing"])
    BY <1>a, <1>5 DEF Request, Good, OpenFile
  <2>2. RInv'
    BY <1>0, <1>5, <2>1, SetTyped DEF OpenFile
  <2> QED BY <1>0, <1>5, <2>2 DEF OpenFile, dockerVars, TInv, TypeOK, RInv, StoreTyped, DockerTyped
<1>6. CASE WriteFile(r)
  <2>1. [req[r] EXCEPT !.pc = "publishing"] \in Request
        /\ Good([req[r] EXCEPT !.pc = "publishing"])
    BY <1>a, <1>6 DEF Request, Good, WriteFile
  <2>2. RInv'
    BY <1>0, <1>6, <2>1, SetTyped DEF WriteFile
  <2>3. req[r].next \in Lists
    BY <1>a DEF Request
  <2>4. disk' \in Lists \cup {Empty, Torn}
    BY <1>6, <2>3 DEF WriteFile
  <2> QED BY <1>0, <1>6, <2>2, <2>3, <2>4 DEF WriteFile, dockerVars, TInv, TypeOK, RInv, StoreTyped,
            DockerTyped
<1>7. CASE Publish(r)
  <2>1. RInv'
    BY <1>0, <1>7, LeaveTyped DEF Publish
  <2>2. req[r].next \in Lists
    BY <1>a DEF Request
  <2>3. Registered(req[r]) \subseteq Containers \X Ids
    BY <1>0, <1>a, <1>7 DEF Publish, Registered, Protected, Good, DockerTyped
  <2> QED BY <1>0, <1>7, <2>1, <2>2, <2>3 DEF Publish, dockerVars, TInv, TypeOK, RInv, StoreTyped,
            DockerTyped
<1>8. CASE WriteFails(r)
  <2>1. RInv'
    BY <1>0, <1>8, NoRequestTyped, SetTyped DEF WriteFails
  <2> QED BY <1>0, <1>8, <2>1 DEF WriteFails, storeVars, dockerVars, TInv, TypeOK, RInv, StoreTyped,
            DockerTyped
<1> QED BY <1>1, <1>2, <1>3, <1>4, <1>5, <1>6, <1>7, <1>8 DEF Store

\* The steps of Docker.
LEMMA EngineTyped ==
  ASSUME TInv, NEW r \in Requests, Engine(r)
  PROVE  TInv'
<1>0. RInv /\ StoreTyped /\ DockerTyped
  BY DEF TInv, TypeOK, RInv
<1>a. req[r] \in Request /\ Good(req[r]) /\ req[r].pc = "docker"
  BY <1>0 DEF RInv, RequestsTyped, Engine, ListContainers, ListUnreachable, ContainerCreated,
       ContainerRecreated, CreatedHalfway, ContainerRemoved, ContainerRenamed, DockerRefuses
<1>b. UNCHANGED <<disk, cache, past, minted>>
  BY DEF Engine, ListContainers, ListUnreachable, ContainerCreated, ContainerRecreated,
       CreatedHalfway, ContainerRemoved, ContainerRenamed, DockerRefuses, storeVars
<1>c. kept' \in SUBSET (Containers \X Ids) /\ exposed' \in SUBSET kept'
  BY <1>0 DEF DockerTyped, Engine, ListContainers, ListUnreachable, ContainerCreated,
       ContainerRecreated, CreatedHalfway, ContainerRemoved, ContainerRenamed, DockerRefuses
<1>1. RInv'
  <2>1. ASSUME NEW q \in Request, Good([q EXCEPT !.pc = "ask"]), AskNext(r, q)
        PROVE  RInv'
    <3>1. [q EXCEPT !.pc = "ask"] \in Request
      BY DEF Request
    <3> QED BY <1>0, <2>1, <3>1, SetTyped DEF AskNext
  <2>2. ASSUME NEW live \in SUBSET Containers, req[r].kind = "purge",
               AskNext(r, [req[r] EXCEPT !.live = live])
        PROVE  RInv'
    <3>1. [req[r] EXCEPT !.live = live] \in Request
      BY <1>a DEF Request
    <3>2. Good([[req[r] EXCEPT !.live = live] EXCEPT !.pc = "ask"])
      BY <1>a, <2>2 DEF Good, Request
    <3> QED BY <2>1, <2>2, <3>1, <3>2
  <2>3. ASSUME NEW c \in Containers, AskNext(r, [req[r] EXCEPT !.to = c])
        PROVE  RInv'
    <3>1. [req[r] EXCEPT !.to = c] \in Request
      BY <1>a DEF Request
    <3>2. Good([[req[r] EXCEPT !.to = c] EXCEPT !.pc = "ask"])
      BY <1>a DEF Good, Request
    <3> QED BY <2>1, <2>3, <3>1, <3>2
  <2>4. CASE req[r].kind \in {"unuse", "relabel"} /\ AskNext(r, req[r])
    <3>1. Good([req[r] EXCEPT !.pc = "ask"])
      BY <1>a, <2>4 DEF Good, Request
    <3> QED BY <1>a, <2>1, <2>4, <3>1
  <2>5. CASE req' = [req EXCEPT ![r] = NoRequest]
    BY <1>0, <2>5, NoRequestTyped, SetTyped
  <2>6. CASE ListContainers(r)
    <3>1. Alive \in SUBSET Containers
      BY DEF Alive
    <3> QED BY <2>2, <2>6, <3>1 DEF ListContainers
  <2>7. CASE ListUnreachable(r)
    BY <2>2, <2>7 DEF ListUnreachable
  <2>8. CASE ContainerCreated(r) \/ ContainerRecreated(r)
    BY <2>3, <2>8 DEF ContainerCreated, ContainerRecreated
  <2>9. CASE ContainerRemoved(r) \/ ContainerRenamed(r)
    BY <2>4, <2>9 DEF ContainerRemoved, ContainerRenamed
  <2>10. CASE CreatedHalfway(r) \/ DockerRefuses(r)
    BY <2>5, <2>10 DEF CreatedHalfway, DockerRefuses
  <2> QED BY <2>6, <2>7, <2>8, <2>9, <2>10 DEF Engine
<1>2. docker' \in [Containers -> {"unborn", "live", "gone"}]
  BY <1>0 DEF DockerTyped, Engine, ListContainers, ListUnreachable, ContainerCreated,
       ContainerRecreated, CreatedHalfway, ContainerRemoved, ContainerRenamed, DockerRefuses,
       dockerVars
<1>3. injected' \in [Containers -> SUBSET Ids]
  <2>1. CASE ContainerCreated(r)
    BY <1>0, <1>a, <2>1 DEF ContainerCreated, DockerTyped, Good
  <2>2. CASE ContainerRecreated(r)
    BY <1>0, <1>a, <2>2 DEF ContainerRecreated, DockerTyped, Good, Request
  <2>3. CASE CreatedHalfway(r)
    BY <1>0, <1>a, <2>3 DEF CreatedHalfway, DockerTyped, Good, Request
  <2> QED BY <1>0, <2>1, <2>2, <2>3 DEF DockerTyped, Engine, ListContainers, ListUnreachable,
            ContainerRemoved, ContainerRenamed, DockerRefuses, dockerVars
<1> QED BY <1>0, <1>b, <1>c, <1>1, <1>2, <1>3 DEF TInv, TypeOK, RInv, StoreTyped, DockerTyped

\* TInv holds at the start.
LEMMA TInvInit == Init => TInv
BY BlankTyped, NoRequestTyped DEF Init, TInv, TypeOK, StoreTyped, RequestsTyped, DockerTyped

\* Every step of Secrets keeps TInv.
LEMMA TInvStep == TInv /\ [Next]_vars => TInv'
<1> SUFFICES ASSUME TInv, [Next]_vars PROVE TInv'
  OBVIOUS
<1>1. ASSUME NEW c \in Containers, Vanish(c) PROVE TInv'
  BY <1>1 DEF Vanish, storeVars, TInv, TypeOK, StoreTyped, RequestsTyped, DockerTyped
<1>2. CASE Restart
  BY <1>2, NoRequestTyped DEF Restart, dockerVars, TInv, TypeOK, StoreTyped, RequestsTyped,
       DockerTyped
<1>3. CASE UNCHANGED vars
  BY <1>3 DEF vars, storeVars, dockerVars, TInv, TypeOK, StoreTyped, RequestsTyped, DockerTyped
<1> QED BY <1>1, <1>2, <1>3, UserTyped, StoreStepTyped, EngineTyped DEF Next

\* Every variable of Secrets keeps its type, whatever the requests, the
\* failures and the restarts.
THEOREM TypeCorrect == Spec => []TypeOK
<1>1. TInv => TypeOK
  BY DEF TInv
<1> QED BY <1>1, TInvInit, TInvStep, PTL DEF Spec

-----------------------------------------------------------------------------
(* The store implements Lineage.                                           *)

\* Each change is an edit of the list it was computed from.
LEMMA ChangeIsEdit ==
  ASSUME NEW q \in Request, Good(q), q.pc # "docker", NEW list \in Lists, Applies(q, list),
         q.kind = "create" => list[q.id] = Absent
  PROVE  Edit(list, Change(q, list))
<1> DEFINE new == Change(q, list)
<1> USE DEF Lists, Secret
<1>0. Absent \notin Secret
  BY Distinct
<1>1. CASE q.kind = "create"
  <2>1. q.id \in Ids /\ list[q.id] = Absent /\ q.name \in Names
    BY <1>1 DEF Good
  <2>2. /\ \A j \in Ids \ {q.id} : new[j] = list[j]
        /\ new[q.id] = [name |-> q.name, version |-> 1, usedBy |-> {}]
    BY <1>1, <2>1 DEF Change
  <2>3. \A j \in Present(list) : list[j].name # q.name
    BY <1>1 DEF Applies, NameTaken, Named
  <2>4. NamesUnique(list) => NamesUnique(new)
    BY <2>1, <2>2, <2>3 DEF NamesUnique, Present
  <2> QED BY <2>1, <2>2, <2>4 DEF Edit
<1>2. CASE q.kind = "update"
  <2>1. q.id \in Ids /\ list[q.id] \in Secret /\ list[q.id] # Absent /\ q.name \in Names
    BY <1>2 DEF Good, Applies, Present
  <2>2. /\ \A j \in Ids \ {q.id} : new[j] = list[j]
        /\ new[q.id].name = q.name
        /\ new[q.id].version \in {list[q.id].version, list[q.id].version + 1}
        /\ new[q.id].usedBy = list[q.id].usedBy
    BY <1>2, <2>1 DEF Change
  <2>3. \A j \in Present(list) \ {q.id} : list[j].name # q.name
    BY <1>2 DEF Applies, NameTaken, Named
  <2>4. NamesUnique(list) => NamesUnique(new)
    BY <2>1, <2>2, <2>3 DEF NamesUnique, Present
  <2> DEFINE v == IF q.rotate THEN list[q.id].version + 1 ELSE list[q.id].version
             s == [[list[q.id] EXCEPT !.name = q.name] EXCEPT !.version = v]
  <2>5. s \in Secret
    <3>1. v \in Nat \ {0}
      BY <2>1
    <3> QED BY <2>1, <3>1
  <2>6. new[q.id] = s
    BY <1>2, <2>1 DEF Change
  <2>7. new[q.id] # Absent
    BY <1>0, <2>5, <2>6
  <2> QED BY <2>1, <2>2, <2>4, <2>7 DEF Edit, Present
<1>3. CASE q.kind = "delete"
  <2>1. /\ q.id \in Ids
        /\ \A j \in Ids \ {q.id} : new[j] = list[j]
        /\ new[q.id] = Absent
    BY <1>3 DEF Change, Good
  <2>2. NamesUnique(list) => NamesUnique(new)
    BY <2>1 DEF NamesUnique, Present
  <2> QED BY <2>1, <2>2 DEF Edit
<1>4. CASE q.kind \in {"record", "reassign", "unuse", "relabel", "purge"}
  <2>1. \A i \in Ids : new[i] = IF list[i] = Absent THEN Absent
                                ELSE [list[i] EXCEPT !.usedBy = UsageAfter(q, list[i])]
    BY <1>4 DEF Change
  <2>2. new \in Lists
    BY <1>4, ChangeTyped
  <2>3. \A i \in Ids : list[i] # Absent =>
          [list[i] EXCEPT !.usedBy = UsageAfter(q, list[i])] # Absent
    <3> SUFFICES ASSUME NEW i \in Ids, list[i] # Absent
                 PROVE  [list[i] EXCEPT !.usedBy = UsageAfter(q, list[i])] # Absent
      OBVIOUS
    <3>1. list[i] \in Secret /\ UsageAfter(q, list[i]) \in SUBSET Containers
      BY <1>4 DEF UsageAfter, Good, Request
    <3>2. [list[i] EXCEPT !.usedBy = UsageAfter(q, list[i])] \in Secret
      BY <3>1
    <3> QED BY <1>0, <3>2
  <2>4. \A i \in Ids :
          /\ list[i] = Absent <=> new[i] = Absent
          /\ list[i] # Absent => new[i].name = list[i].name /\ new[i].version = list[i].version
    BY <2>1, <2>3
  <2>5. NamesUnique(list) => NamesUnique(new)
    BY <2>4 DEF NamesUnique, Present
  <2> QED BY <2>4, <2>5 DEF Edit, Present
<1> QED BY <1>1, <1>2, <1>3, <1>4 DEF Applies

\* A change adds no secret but the one it creates.
LEMMA ChangePresent ==
  ASSUME NEW q \in Request, Good(q), NEW list \in Lists, Applies(q, list)
  PROVE  Present(Change(q, list)) \subseteq
           Present(list) \cup (IF q.kind = "create" THEN {q.id} ELSE {})
<1>1. CASE q.kind = "create" \/ q.kind = "delete"
  BY <1>1 DEF Change, Present, Lists, Good
<1>2. CASE q.kind = "update"
  BY <1>2 DEF Change, Present, Lists, Good, Applies
<1>3. CASE q.kind \in {"record", "reassign", "unuse", "relabel", "purge"}
  BY <1>3 DEF Change, Present, Lists
<1> QED BY <1>1, <1>2, <1>3 DEF Applies

\* Secrets about to be created, and lists about to be written.
Pending == {r \in Requests : req[r].kind = "create" /\ req[r].pc \in {"ask", "loading", "loaded"}}

Computed == {r \in Requests : req[r].pc \in {"opening", "writing"}}

\* Whatever is served, read or left in the file was written before.
Traced ==
  /\ Blank \in past
  /\ cache # None => cache \in past
  /\ disk \notin {Empty, Torn} => disk \in past
  /\ \A r \in Requests : req[r].pc \in {"loaded", "publishing"} => req[r].next \in past
  /\ \A r \in Computed : \E old \in past : Edit(old, req[r].next)

\* An identifier that was just given is in no list yet.
Fresh ==
  /\ \A list \in past : Present(list) \subseteq minted
  /\ \A r \in Computed : Present(req[r].next) \subseteq minted
  /\ \A p \in Pending :
       /\ req[p].id \in minted
       /\ \A list \in past : req[p].id \notin Present(list)
       /\ \A r \in Computed : req[p].id \notin Present(req[r].next)
       /\ \A r \in Pending : req[r].id = req[p].id => r = p

LInv == Traced /\ Fresh

\* The requests other than r stay as they are.
Elsewhere(r) ==
  \A p \in Requests \ {r} :
    /\ req'[p].pc = req[p].pc /\ req'[p].kind = req[p].kind
    /\ req'[p].id = req[p].id /\ req'[p].next = req[p].next

\* r ends, waits, or begins to ask for the list; nothing is written.
LEMMA Rests ==
  ASSUME LInv, NEW r \in Requests, Elsewhere(r),
         \/ req'[r].pc \in {"idle", "docker"}
         \/ req'[r].pc \in {"ask", "loading"} /\ req'[r].kind # "create",
         past' = past, minted' = minted,
         cache' \in past \cup {None}, disk' \in past \cup {Empty, Torn}
  PROVE  LInv'
<1>1. Pending' \subseteq Pending \ {r} /\ Computed' \subseteq Computed \ {r}
  BY DEF Pending, Computed, Elsewhere
<1>2. \A p \in Computed' : req'[p].next = req[p].next
  BY <1>1 DEF Elsewhere, Computed
<1>3. \A p \in Computed' : \E old \in past' : Edit(old, req'[p].next)
  BY <1>1, <1>2 DEF LInv, Traced
<1>4. \A p \in Requests : req'[p].pc \in {"loaded", "publishing"} => req'[p].next \in past'
  BY DEF LInv, Traced, Elsewhere
<1>5. Traced'
  BY <1>3, <1>4 DEF LInv, Traced
<1>6. Fresh'
  BY <1>1 DEF LInv, Fresh, Elsewhere, Pending, Computed
<1> QED BY <1>5, <1>6 DEF LInv

\* r reads the list.
LEMMA Reads ==
  ASSUME LInv, NEW r \in Requests, Elsewhere(r),
         req[r].pc \in {"ask", "loading"}, req'[r].pc \in {"loading", "loaded"},
         req'[r].kind = req[r].kind, req'[r].id = req[r].id,
         req'[r].pc = "loaded" => req'[r].next \in past,
         UNCHANGED <<disk, cache, past, minted>>
  PROVE  LInv'
<1>1. Pending' = Pending /\ Computed' = Computed /\ r \notin Computed
  BY DEF Pending, Computed, Elsewhere
<1>2. \A p \in Pending : req'[p].id = req[p].id
  BY DEF Elsewhere, Pending
<1>3. \A p \in Computed : req'[p].next = req[p].next
  BY <1>1 DEF Elsewhere, Computed
<1>4. \A p \in Computed' : \E old \in past' : Edit(old, req'[p].next)
  BY <1>1, <1>3 DEF LInv, Traced
<1>5. \A p \in Requests : req'[p].pc \in {"loaded", "publishing"} => req'[p].next \in past'
  BY DEF LInv, Traced, Elsewhere
<1>6. Traced'
  BY <1>4, <1>5 DEF LInv, Traced
<1>7. Fresh'
  BY <1>1, <1>2, <1>3 DEF LInv, Fresh
<1> QED BY <1>6, <1>7 DEF LInv

\* r has the list and computes its change.
LEMMA Opens ==
  ASSUME LInv, NEW r \in Requests, Elsewhere(r), req[r] \in Request, Good(req[r]),
         req[r].pc \in {"ask", "loaded"}, NEW list \in Lists, list \in past,
         Applies(req[r], list),
         req'[r].pc = "opening", req'[r].next = Change(req[r], list),
         UNCHANGED <<disk, past, minted>>, cache' \in past \cup {None}
  PROVE  LInv'
<1> DEFINE new == Change(req[r], list)
<1>1. Pending' = Pending \ {r} /\ Computed' = Computed \cup {r} /\ r \notin Computed
  BY DEF Pending, Computed, Elsewhere
<1>2. req[r].kind = "create" => r \in Pending
  BY DEF Pending
<1>3. Edit(list, new)
  <2>1. req[r].kind = "create" => list[req[r].id] = Absent
    BY <1>2 DEF LInv, Fresh, Present, Good
  <2> QED BY <2>1, ChangeIsEdit
<1>4. Present(new) \subseteq Present(list) \cup (IF req[r].kind = "create" THEN {req[r].id} ELSE {})
  BY ChangePresent
<1>5. \A p \in Computed : req'[p].next = req[p].next
  BY <1>1 DEF Elsewhere, Computed
<1>6. \A p \in Pending' : req'[p].id = req[p].id
  BY <1>1 DEF Elsewhere, Pending
<1>7. \A p \in Computed' : \E old \in past' : Edit(old, req'[p].next)
  BY <1>1, <1>3, <1>5 DEF LInv, Traced
<1>8. \A p \in Requests : req'[p].pc \in {"loaded", "publishing"} => req'[p].next \in past'
  BY DEF LInv, Traced, Elsewhere
<1>9. Traced'
  BY <1>7, <1>8 DEF LInv, Traced
<1>10. Present(new) \subseteq minted
  BY <1>2, <1>4 DEF LInv, Fresh
<1>11. \A p \in Pending' : req[p].id \notin Present(new)
  BY <1>1, <1>2, <1>4 DEF LInv, Fresh
<1>12. \A p \in Computed' : Present(req'[p].next) \subseteq minted
  BY <1>1, <1>5, <1>10 DEF LInv, Fresh
<1>13. \A p \in Pending', q \in Computed' : req'[p].id \notin Present(req'[q].next)
  BY <1>1, <1>5, <1>6, <1>11 DEF LInv, Fresh
<1>14. Fresh'
  BY <1>1, <1>6, <1>12, <1>13 DEF LInv, Fresh
<1> QED BY <1>9, <1>14 DEF LInv

\* r opens the file, or writes it.
LEMMA Writes ==
  ASSUME LInv, NEW r \in Requests, Elsewhere(r), RequestsTyped, OpenFile(r) \/ WriteFile(r)
  PROVE  LInv'
<1>1. CASE OpenFile(r)
  <2>1. Pending' = Pending /\ Computed' = Computed
    BY <1>1 DEF OpenFile, Pending, Computed, Elsewhere, RequestsTyped, Request
  <2>2. \A p \in Requests : req'[p].next = req[p].next /\ req'[p].id = req[p].id
    BY <1>1 DEF OpenFile, Elsewhere, RequestsTyped, Request
  <2>3. \A p \in Requests : req'[p].pc \in {"loaded", "publishing"} => req[p].pc = req'[p].pc
    BY <1>1 DEF OpenFile, Elsewhere, RequestsTyped, Request
  <2>4. past' = past /\ cache' = cache /\ disk' = Empty /\ minted' = minted
    BY <1>1 DEF OpenFile
  <2>5. \A p \in Computed' : \E old \in past' : Edit(old, req'[p].next)
    BY <2>1, <2>2, <2>4 DEF LInv, Traced, Computed
  <2>6. Traced'
    BY <2>2, <2>3, <2>4, <2>5 DEF LInv, Traced
  <2>7. Fresh'
    BY <2>1, <2>2, <2>4 DEF LInv, Fresh, Pending, Computed
  <2> QED BY <2>6, <2>7 DEF LInv
<1>2. CASE WriteFile(r)
  <2>1. /\ req[r].pc = "writing" /\ req'[r].pc = "publishing"
        /\ req'[r].next = req[r].next
        /\ past' = past \cup {req[r].next}
        /\ disk' \in {req[r].next, Torn} /\ cache' = cache /\ minted' = minted
    BY <1>2 DEF WriteFile, RequestsTyped, Request
  <2>2. Pending' = Pending /\ Computed' = Computed \ {r} /\ r \in Computed
    BY <2>1 DEF Pending, Computed, Elsewhere
  <2>3. \A p \in Pending : req'[p].id = req[p].id
    BY <2>1 DEF Elsewhere, Pending
  <2>4. \A p \in Computed' : req'[p].next = req[p].next
    BY <2>2 DEF Elsewhere, Computed
  <2>5. \A p \in Computed' : \E old \in past' : Edit(old, req'[p].next)
    BY <2>1, <2>2, <2>4 DEF LInv, Traced
  <2>6. \A p \in Requests : req'[p].pc \in {"loaded", "publishing"} => req'[p].next \in past'
    BY <2>1 DEF LInv, Traced, Elsewhere
  <2>7. Traced'
    BY <2>1, <2>5, <2>6 DEF LInv, Traced
  <2>8. \A list \in past' : Present(list) \subseteq minted
    BY <2>1, <2>2 DEF LInv, Fresh
  <2>9. \A p \in Pending, list \in past' : req[p].id \notin Present(list)
    BY <2>1, <2>2 DEF LInv, Fresh
  <2>10. Fresh'
    BY <2>1, <2>2, <2>3, <2>4, <2>8, <2>9 DEF LInv, Fresh
  <2> QED BY <2>7, <2>10 DEF LInv
<1> QED BY <1>1, <1>2

\* A request is received; one that creates a secret is given a new identifier.
LEMMA Arrives ==
  ASSUME LInv, RequestsTyped, NEW r \in Requests, NEW q \in Request, Arrive(r, q),
         \/ q.pc \in {"ask", "docker"} /\ q.kind # "create" /\ minted' = minted
         \/ q.pc = "ask" /\ q.kind = "create" /\ q.id \in Ids \ minted
            /\ minted' = minted \cup {q.id}
  PROVE  LInv'
<1>1. Elsewhere(r)
  BY DEF Arrive, Elsewhere, RequestsTyped, Request
<1>2. req'[r].pc = q.pc /\ req'[r].kind = q.kind /\ req'[r].id = q.id
  BY DEF Arrive, Request
<1>3. /\ past' = past /\ cache' = cache /\ disk' = disk /\ req[r].pc = "idle"
      /\ cache \in past \cup {None} /\ disk \in past \cup {Empty, Torn}
  BY DEF Arrive, storeVars, LInv, Traced
<1>4. CASE q.kind # "create"
  BY <1>1, <1>2, <1>3, <1>4, Rests
<1>5. CASE q.kind = "create"
  <2>1. q.pc = "ask" /\ q.id \in Ids \ minted /\ minted' = minted \cup {q.id}
    BY <1>5
  <2>2. Pending' = Pending \cup {r} /\ r \notin Pending /\ Computed' = Computed /\ r \notin Computed
    BY <1>1, <1>2, <1>3, <1>5, <2>1 DEF Pending, Computed, Elsewhere
  <2>3. \A p \in Pending : req'[p].id = req[p].id
    BY <1>1, <2>2 DEF Elsewhere, Pending
  <2>4. \A p \in Computed : req'[p].next = req[p].next
    BY <1>1, <2>2 DEF Elsewhere, Computed
  <2>5. \A p \in Computed' : \E old \in past' : Edit(old, req'[p].next)
    BY <1>3, <2>2, <2>4 DEF LInv, Traced
  <2>6. \A p \in Requests : req'[p].pc \in {"loaded", "publishing"} => req'[p].next \in past'
    BY <1>1, <1>2, <1>3, <2>1 DEF LInv, Traced, Elsewhere
  <2>7. Traced'
    BY <1>3, <2>5, <2>6 DEF LInv, Traced
  <2>8. \A p \in Pending : req[p].id # q.id
    BY <2>1 DEF LInv, Fresh
  <2>9. \A p, t \in Pending' : req'[p].id = req'[t].id => p = t
    BY <1>2, <2>2, <2>3, <2>8 DEF LInv, Fresh
  <2>10. \A p \in Pending' :
           /\ req'[p].id \in minted'
           /\ \A list \in past' : req'[p].id \notin Present(list)
           /\ \A t \in Computed' : req'[p].id \notin Present(req'[t].next)
    <3> SUFFICES ASSUME NEW p \in Pending'
                 PROVE  /\ req'[p].id \in minted'
                        /\ \A list \in past' : req'[p].id \notin Present(list)
                        /\ \A t \in Computed' : req'[p].id \notin Present(req'[t].next)
      OBVIOUS
    <3>1. CASE p = r
      BY <1>2, <1>3, <2>1, <2>2, <2>4, <3>1 DEF LInv, Fresh
    <3>2. CASE p \in Pending
      BY <1>3, <2>1, <2>2, <2>3, <2>4, <3>2 DEF LInv, Fresh
    <3> QED BY <2>2, <3>1, <3>2
  <2>11. \A list \in past' : Present(list) \subseteq minted'
    BY <1>3, <2>1 DEF LInv, Fresh
  <2>12. \A p \in Computed' : Present(req'[p].next) \subseteq minted'
    BY <2>1, <2>2, <2>4 DEF LInv, Fresh
  <2>13. Fresh'
    BY <2>9, <2>10, <2>11, <2>12 DEF Fresh
  <2> QED BY <2>7, <2>13 DEF LInv
<1> QED BY <1>4, <1>5

\* r ends, or goes on to record the secret of the container it made again.
LEMMA Leaves ==
  ASSUME LInv, RequestsTyped, NEW r \in Requests, Leave(r),
         past' = past, minted' = minted, disk' = disk, cache' \in past \cup {None}
  PROVE  LInv'
<1>1. Elsewhere(r)
  BY DEF Leave, Elsewhere, RequestsTyped
<1>2. req'[r].pc = "idle" \/ (req'[r].pc = "ask" /\ req'[r].kind # "create")
  BY DEF Leave, RequestsTyped, Request, NoRequest
<1>3. disk' \in past \cup {Empty, Torn}
  BY DEF LInv, Traced
<1> QED BY <1>1, <1>2, <1>3, Rests

\* r does with a list served before what its function does with it.
LEMMA Decides ==
  ASSUME LInv, RequestsTyped, NEW r \in Requests, Good(req[r]), req[r].pc \in {"ask", "loaded"},
         NEW list \in Lists, list \in past, Decide(r, list),
         past' = past, minted' = minted, disk' = disk, cache' \in past \cup {None}
  PROVE  LInv'
<1>0. req[r] \in Request
  BY DEF RequestsTyped
<1>1. CASE req[r].kind = "resolve"
  <2>1. Elsewhere(r)
    BY <1>1 DEF Decide, Elsewhere, RequestsTyped
  <2>2. req'[r].pc \in {"idle", "docker"}
    <3>1. CASE Named(list, req[r].name) = {}
      BY <1>1, <3>1 DEF Decide, RequestsTyped, NoRequest
    <3>2. CASE Named(list, req[r].name) # {}
      <4>1. PICK i \in Named(list, req[r].name) :
              req' = [req EXCEPT ![r] =
                        [req[r] EXCEPT !.pc = "docker", !.id = i, !.next = Blank,
                           !.kind = IF req[r].from = NoContainer THEN "record" ELSE "reassign"]]
        BY <1>1, <3>2 DEF Decide
      <4> QED BY <1>0, <4>1 DEF RequestsTyped, Request
    <3> QED BY <3>1, <3>2
  <2>3. disk' \in past \cup {Empty, Torn}
    BY DEF LInv, Traced
  <2> QED BY <2>1, <2>2, <2>3, Rests
<1>2. CASE req[r].kind # "resolve" /\ Applies(req[r], list)
  <2>1. req' = [req EXCEPT ![r] = [req[r] EXCEPT !.pc = "opening",
                                     !.next = Change(req[r], list)]]
    BY <1>2 DEF Decide
  <2>2. Elsewhere(r)
    BY <2>1 DEF Elsewhere, RequestsTyped
  <2>3. req'[r].pc = "opening" /\ req'[r].next = Change(req[r], list)
    BY <1>0, <2>1 DEF RequestsTyped, Request
  <2> QED BY <1>0, <1>2, <2>2, <2>3, Opens
<1>3. CASE req[r].kind # "resolve" /\ ~Applies(req[r], list)
  BY <1>3, Leaves DEF Decide
<1> QED BY <1>1, <1>2, <1>3

\* Nothing is written, pending or served before the first request.
LEMMA LInvInit == Init => LInv
BY DEF Init, LInv, Traced, Fresh, Pending, Computed, NoRequest, Present, Blank

\* What users ask keeps the lineage.
LEMMA UserKeeps ==
  ASSUME TInv, LInv, NEW r \in Requests, User(r)
  PROVE  LInv'
<1>0. RequestsTyped
  BY DEF TInv, TypeOK
<1>1. ASSUME NEW n \in Names, CreateSecret(r, n) PROVE LInv'
  <2>1. PICK i \in Ids \ minted :
          /\ minted' = minted \cup {i}
          /\ Arrive(r, [NoRequest EXCEPT !.pc = "ask", !.kind = "create", !.id = i, !.name = n])
    BY <1>1 DEF CreateSecret
  <2> DEFINE q == [NoRequest EXCEPT !.pc = "ask", !.kind = "create", !.id = i, !.name = n]
  <2>2. q \in Request /\ q.pc = "ask" /\ q.kind = "create" /\ q.id = i
    BY BlankTyped DEF NoRequest, Request
  <2> HIDE DEF q
  <2>3. Arrive(r, q)
    BY <2>1 DEF q
  <2> QED BY <1>0, <2>1, <2>2, <2>3, Arrives
<1>2. ASSUME NEW q \in Request, q.pc \in {"ask", "docker"}, q.kind # "create", Arrive(r, q),
             minted' = minted
      PROVE  LInv'
  BY <1>0, <1>2, Arrives
<1>3. ASSUME NEW n \in Names, Launch(r, n) PROVE LInv'
  <2>1. [NoRequest EXCEPT !.pc = "ask", !.kind = "resolve", !.name = n] \in Request
    BY BlankTyped DEF NoRequest, Request
  <2> QED BY <1>2, <1>3, <2>1 DEF Launch, NoRequest
<1>4. ASSUME NEW i \in Ids, DeleteSecret(r, i) PROVE LInv'
  <2>1. [NoRequest EXCEPT !.pc = "ask", !.kind = "delete", !.id = i] \in Request
    BY BlankTyped DEF NoRequest, Request
  <2> QED BY <1>2, <1>4, <2>1 DEF DeleteSecret, NoRequest
<1>5. ASSUME NEW i \in Ids, NEW n \in Names, NEW rotate \in BOOLEAN, UpdateSecret(r, i, n, rotate)
      PROVE  LInv'
  <2>1. [NoRequest EXCEPT !.pc = "ask", !.kind = "update", !.id = i, !.name = n,
                          !.rotate = rotate] \in Request
    BY BlankTyped DEF NoRequest, Request
  <2> QED BY <1>2, <1>5, <2>1 DEF UpdateSecret, NoRequest
<1>6. ASSUME NEW c \in Containers, RemoveContainer(r, c) PROVE LInv'
  <2>1. [NoRequest EXCEPT !.pc = "docker", !.kind = "unuse", !.from = c] \in Request
    BY BlankTyped DEF NoRequest, Request
  <2> QED BY <1>2, <1>6, <2>1 DEF RemoveContainer, NoRequest
<1>7. ASSUME NEW c \in Containers, RenameContainer(r, c) PROVE LInv'
  <2>1. [NoRequest EXCEPT !.pc = "docker", !.kind = "relabel", !.from = c] \in Request
    BY BlankTyped DEF NoRequest, Request
  <2> QED BY <1>2, <1>7, <2>1 DEF RenameContainer, NoRequest
<1>8. ASSUME NEW c \in Containers, NEW n \in Names \cup {NoName}, Recreate(r, c, n) PROVE LInv'
  <2> DEFINE q == [NoRequest EXCEPT !.pc = IF n = NoName THEN "docker" ELSE "ask",
                                    !.kind = IF n = NoName THEN "reassign" ELSE "resolve",
                                    !.name = n, !.from = c]
  <2>1. q \in Request /\ q.pc \in {"ask", "docker"} /\ q.kind # "create"
    BY BlankTyped DEF NoRequest, Request
  <2>2. Arrive(r, q) /\ minted' = minted
    BY <1>8 DEF Recreate
  <2> HIDE DEF q
  <2> QED BY <1>2, <2>1, <2>2
<1>9. ASSUME ListSecrets(r) PROVE LInv'
  <2>1. [NoRequest EXCEPT !.pc = "docker", !.kind = "purge"] \in Request
    BY BlankTyped DEF NoRequest, Request
  <2> QED BY <1>2, <1>9, <2>1 DEF ListSecrets, NoRequest
<1> QED BY <1>1, <1>3, <1>4, <1>5, <1>6, <1>7, <1>8, <1>9 DEF User

\* What the store does keeps the lineage.
LEMMA StoreKeeps ==
  ASSUME TInv, LInv, NEW r \in Requests, Store(r)
  PROVE  LInv'
<1>0. /\ RequestsTyped /\ req[r] \in Request /\ Good(req[r])
      /\ cache \in past \cup {None} /\ disk \in past \cup {Empty, Torn} /\ Blank \in past
      /\ cache \in Lists \cup {None}
  BY DEF TInv, TypeOK, RequestsTyped, StoreTyped, LInv, Traced
<1>1. CASE AskCached(r)
  BY <1>0, <1>1, Decides DEF AskCached, storeVars
<1>2. CASE AskDisk(r) \/ ReadFromDisk(r)
  <2>1. Elsewhere(r)
    BY <1>0, <1>2 DEF AskDisk, ReadFromDisk, Elsewhere, RequestsTyped, Request
  <2>2. /\ req[r].pc \in {"ask", "loading"} /\ req'[r].pc \in {"loading", "loaded"}
        /\ req'[r].kind = req[r].kind /\ req'[r].id = req[r].id
        /\ UNCHANGED <<disk, cache, past, minted>>
    BY <1>0, <1>2 DEF AskDisk, ReadFromDisk, RequestsTyped, Request, storeVars
  <2>3. req'[r].pc = "loaded" => req'[r].next \in past
    BY <1>0, <1>2 DEF AskDisk, ReadFromDisk, RequestsTyped, Request
  <2> QED BY <2>1, <2>2, <2>3, Reads
<1>3. CASE FillCache(r)
  <2>1. req[r].next \in past /\ req[r].next \in Lists
    BY <1>0, <1>3 DEF FillCache, LInv, Traced, Request
  <2> QED BY <1>0, <1>3, <2>1, Decides DEF FillCache
<1>4. CASE OpenFile(r) \/ WriteFile(r)
  <2>1. Elsewhere(r)
    BY <1>0, <1>4 DEF OpenFile, WriteFile, Elsewhere, RequestsTyped, Request
  <2> QED BY <1>0, <1>4, <2>1, Writes
<1>5. CASE Publish(r)
  <2>1. req[r].next \in past
    BY <1>5 DEF Publish, LInv, Traced
  <2> QED BY <1>0, <1>5, <2>1, Leaves DEF Publish
<1>6. CASE WriteFails(r)
  <2>1. Elsewhere(r)
    BY <1>0, <1>6 DEF WriteFails, Elsewhere, RequestsTyped
  <2>2. req'[r].pc = "idle"
    BY <1>0, <1>6 DEF WriteFails, RequestsTyped, NoRequest
  <2> QED BY <1>0, <1>6, <2>1, <2>2, Rests DEF WriteFails, storeVars
<1> QED BY <1>1, <1>2, <1>3, <1>4, <1>5, <1>6 DEF Store

\* What Docker does keeps the lineage.
LEMMA EngineKeeps ==
  ASSUME TInv, LInv, NEW r \in Requests, Engine(r)
  PROVE  LInv'
<1>0. /\ RequestsTyped /\ req[r] \in Request
      /\ cache \in past \cup {None} /\ disk \in past \cup {Empty, Torn}
  BY DEF TInv, TypeOK, RequestsTyped, LInv, Traced
<1>1. past' = past /\ minted' = minted /\ cache' = cache /\ disk' = disk
  BY DEF Engine, ListContainers, ListUnreachable, ContainerCreated, ContainerRecreated,
     CreatedHalfway, ContainerRemoved, ContainerRenamed, DockerRefuses, storeVars
<1>2. CASE CreatedHalfway(r) \/ DockerRefuses(r)
  <2>1. req' = [req EXCEPT ![r] = NoRequest]
    BY <1>2 DEF CreatedHalfway, DockerRefuses
  <2>2. Elsewhere(r) /\ req'[r].pc = "idle"
    BY <1>0, <2>1 DEF Elsewhere, RequestsTyped, NoRequest
  <2> QED BY <1>0, <1>1, <2>2, Rests
<1>3. ASSUME NEW q \in Request, q.kind # "create", AskNext(r, q) PROVE LInv'
  <2>1. Elsewhere(r) /\ req'[r].pc = "ask" /\ req'[r].kind # "create"
    BY <1>0, <1>3 DEF AskNext, Elsewhere, RequestsTyped, Request
  <2> QED BY <1>0, <1>1, <2>1, Rests
<1>4. CASE ListContainers(r) \/ ListUnreachable(r)
  <2>1. PICK s \in SUBSET Containers : AskNext(r, [req[r] EXCEPT !.live = s])
    BY <1>4 DEF ListContainers, ListUnreachable, Alive
  <2>2. [req[r] EXCEPT !.live = s] \in Request /\ req[r].kind # "create"
    BY <1>0, <1>4 DEF Request, ListContainers, ListUnreachable
  <2> QED BY <1>0, <1>3, <2>1, <2>2 DEF Request
<1>5. CASE ContainerCreated(r) \/ ContainerRecreated(r)
  <2>1. PICK c \in Containers : AskNext(r, [req[r] EXCEPT !.to = c])
    BY <1>5 DEF ContainerCreated, ContainerRecreated
  <2>2. [req[r] EXCEPT !.to = c] \in Request /\ req[r].kind # "create"
    BY <1>0, <1>5 DEF Request, ContainerCreated, ContainerRecreated
  <2> QED BY <1>0, <1>3, <2>1, <2>2 DEF Request
<1>6. CASE ContainerRemoved(r) \/ ContainerRenamed(r)
  BY <1>0, <1>3, <1>6 DEF ContainerRemoved, ContainerRenamed
<1> QED BY <1>2, <1>4, <1>5, <1>6 DEF Engine

\* LInv is inductive, given the types.
LEMMA LInvStep == TInv /\ LInv /\ [Next]_vars => LInv'
<1> SUFFICES ASSUME TInv, LInv, [Next]_vars PROVE LInv'
  OBVIOUS
<1>1. ASSUME UNCHANGED <<storeVars, req, minted>> PROVE LInv'
  BY <1>1 DEF storeVars, LInv, Traced, Fresh, Pending, Computed
<1>2. CASE Restart
  <2>1. \A r \in Requests : req'[r].pc = "idle"
    BY <1>2 DEF Restart, NoRequest
  <2>2. Pending' = {} /\ Computed' = {}
    BY <2>1 DEF Pending, Computed
  <2>3. disk' = disk /\ past' = past /\ minted' = minted /\ cache' = None
    BY <1>2 DEF Restart
  <2> QED BY <2>1, <2>2, <2>3 DEF LInv, Traced, Fresh
<1>3. ASSUME NEW c \in Containers, Vanish(c) PROVE LInv'
  BY <1>1, <1>3 DEF Vanish
<1>4. CASE UNCHANGED vars
  BY <1>1, <1>4 DEF vars
<1> QED BY <1>2, <1>3, <1>4, UserKeeps, StoreKeeps, EngineKeeps DEF Next

\* The first state of Secrets is one of Lineage.
LEMMA RefinesInit == Init => L!Init
BY DEF Init, L!Init

\* A write is a Record of Lineage; every other step shows a list of the
\* lineage, or changes neither the lists nor what is served.
LEMMA RefinesStep == TInv /\ LInv /\ [Next]_vars => [L!Next]_L!vars
<1> SUFFICES ASSUME TInv, LInv, [Next]_vars PROVE [L!Next]_L!vars
  OBVIOUS
<1>1. ASSUME past' = past, cache' \in past \cup {None} PROVE [L!Next]_L!vars
  BY <1>1 DEF L!Next, L!Show, L!vars, LInv, Traced
<1>2. cache \in past \cup {None}
  BY DEF LInv, Traced
<1>3. ASSUME NEW r \in Requests, User(r) \/ Engine(r) PROVE [L!Next]_L!vars
  <2>1. past' = past /\ cache' = cache
    BY <1>3 DEF User, Engine, ListContainers, ListUnreachable, ContainerCreated,
       ContainerRecreated, CreatedHalfway, ContainerRemoved, ContainerRenamed, DockerRefuses,
       CreateSecret, Launch, DeleteSecret, UpdateSecret, RemoveContainer, RenameContainer,
       Recreate, ListSecrets, Arrive, storeVars
  <2> QED BY <1>1, <1>2, <2>1
<1>4. ASSUME NEW r \in Requests, Store(r), ~WriteFile(r) PROVE [L!Next]_L!vars
  <2>1. past' = past /\ cache' \in past \cup {None}
    BY <1>2, <1>4 DEF Store, AskCached, AskDisk, ReadFromDisk, FillCache, OpenFile, Publish,
       WriteFails, storeVars, LInv, Traced
  <2> QED BY <1>1, <2>1
<1>5. ASSUME NEW r \in Requests, WriteFile(r) PROVE [L!Next]_L!vars
  <2>1. past' = past \cup {req[r].next} /\ cache' = cache
    BY <1>5 DEF WriteFile
  <2>2. PICK old \in past : Edit(old, req[r].next)
    BY <1>5 DEF WriteFile, LInv, Traced, Computed
  <2> QED BY <2>1, <2>2 DEF L!Next, L!Record, L!vars
<1>6. ASSUME past' = past, cache' \in {cache, None} PROVE [L!Next]_L!vars
  BY <1>1, <1>2, <1>6
<1> QED BY <1>3, <1>4, <1>5, <1>6 DEF Next, Vanish, Restart, vars, storeVars

\* secretsStore.ts and every store written on its pattern.  Whatever requests
\* overlap, fail or are cut short by a restart, each list written is one edit
\* away from a list written before, and readers are served one of these.
THEOREM Refines == Spec => KeepsLineage
<1>1. Init /\ [][Next]_vars => []TInv
  BY TInvInit, TInvStep, PTL
<1>2. Init /\ [][Next]_vars => [](TInv /\ LInv)
  BY <1>1, LInvInit, LInvStep, PTL
<1> QED BY <1>2, RefinesInit, RefinesStep, PTL DEF Spec, KeepsLineage, L!Spec

\* The list served, and the one in the file, name each secret once.
UniqueNames ==
  /\ cache # None => NamesUnique(cache)
  /\ disk \notin {Empty, Torn} => NamesUnique(disk)

PastUnique == \A list \in past : NamesUnique(list)

\* A step of the lineage keeps every list without two secrets of one name.
LEMMA PastUniqueStep == PastUnique /\ [L!Next]_L!vars => PastUnique'
<1> SUFFICES ASSUME PastUnique, [L!Next]_L!vars PROVE PastUnique'
  OBVIOUS
<1>1. CASE L!Record
  <2>1. PICK old \in past, new \in past' : Edit(old, new) /\ past' = past \cup {new}
    BY <1>1 DEF L!Record
  <2>2. NamesUnique(new)
    BY <2>1 DEF PastUnique, Edit
  <2> QED BY <2>1, <2>2 DEF PastUnique
<1>2. CASE past' = past
  BY <1>2 DEF PastUnique
<1> QED BY <1>1, <1>2 DEF L!Next, L!Show, L!vars

\* secretsStore.ts:20-22: the name is checked against a list that another
\* request may since have changed, and yet no list ever has a name twice.
THEOREM NamesStayUnique == Spec => []UniqueNames
<1>1. Init /\ [][Next]_vars => [](TInv /\ LInv)
  BY TInvInit, TInvStep, LInvInit, LInvStep, PTL
<1>2. Init => PastUnique
  BY DEF Init, PastUnique, NamesUnique, Present, Blank
<1>3. TInv /\ LInv /\ PastUnique /\ [Next]_vars => PastUnique'
  BY RefinesStep, PastUniqueStep
<1>4. LInv /\ PastUnique => UniqueNames
  BY DEF LInv, Traced, PastUnique, UniqueNames
<1> QED BY <1>1, <1>2, <1>3, <1>4, PTL DEF Spec

\* A version of secret i, in some list written so far.
Written(i, v) == \E list \in past : i \in Present(list) /\ list[i].version = v

\* Every version up to that of the secrets of the list was written once.
AllWritten(list) == \A i \in Present(list) : \A v \in 1 .. list[i].version : Written(i, v)

NoVersionSkipped ==
  /\ cache # None => AllWritten(cache)
  /\ disk \notin {Empty, Torn} => AllWritten(disk)

PastWritten == \A list \in past : AllWritten(list)

\* A step of the lineage skips no version.
LEMMA PastWrittenStep ==
  ASSUME past \subseteq Lists, past' \subseteq Lists, PastWritten, [L!Next]_L!vars
  PROVE  PastWritten'
<1>1. CASE L!Record
  <2>1. PICK old \in past, new \in past' : Edit(old, new) /\ past' = past \cup {new}
    BY <1>1 DEF L!Record
  <2>2. \A i, v : Written(i, v) => Written(i, v)'
    BY <2>1 DEF Written
  <2>3. ASSUME NEW i \in Present(new), NEW v \in 1 .. new[i].version PROVE Written(i, v)'
    <3>1. i \in Ids /\ new[i] \in Secret
      BY DEF Present, Lists
    <3>2. CASE v = new[i].version
      BY <2>1, <3>2 DEF Written
    <3>3. CASE v # new[i].version
      <4>1. i \in Present(old) /\ new[i].version \in {old[i].version, old[i].version + 1}
        BY <2>1, <3>1, <3>3 DEF Edit, Present, Secret
      <4>2. old[i].version \in Nat /\ v \in 1 .. old[i].version
        BY <3>1, <3>3, <4>1 DEF Present, Lists, Secret
      <4>3. Written(i, v)
        BY <2>1, <4>1, <4>2 DEF PastWritten, AllWritten
      <4> QED BY <2>2, <4>3
    <3> QED BY <3>2, <3>3
  <2>4. \A list \in past : AllWritten(list)'
    BY <2>2 DEF PastWritten, AllWritten
  <2> QED BY <2>1, <2>3, <2>4 DEF PastWritten, AllWritten
<1>2. CASE past' = past
  BY <1>2 DEF PastWritten, AllWritten, Written
<1> QED BY <1>1, <1>2 DEF L!Next, L!Show, L!vars

\* secretsStore.ts:203-230, 278-300: a rotation adds one to the version of the
\* list it was computed from, and keeps the one before in the history; although
\* that list may no longer be the last, no version is ever skipped: each one
\* below the version served, or in the file, was that of a list written before.
THEOREM VersionsFollow == Spec => []NoVersionSkipped
<1>1. Init /\ [][Next]_vars => [](TInv /\ LInv)
  BY TInvInit, TInvStep, LInvInit, LInvStep, PTL
<1>2. Init => PastWritten
  BY DEF Init, PastWritten, AllWritten, Present, Blank
<1>3. TInv /\ LInv /\ TInv' /\ PastWritten /\ [Next]_vars => PastWritten'
  BY RefinesStep, PastWrittenStep DEF TInv, TypeOK, StoreTyped
<1>4. LInv /\ PastWritten => NoVersionSkipped
  BY DEF LInv, Traced, PastWritten, NoVersionSkipped
<1> QED BY <1>1, <1>2, <1>3, <1>4, PTL DEF Spec
-----------------------------------------------------------------------------
(* The usages.                                                             *)
(*                                                                         *)
(* UsageKept speaks of the list served and of the file.  UInv adds the     *)
(* lists the requests hold, and why what they will do to them unties no    *)
(* usage of a live container: who still has to untie a container has seen  *)
(* it go, who purges has seen those that live, and identifiers are new.    *)
(* It also follows the request that registers a usage while nothing else   *)
(* is in flight, up to its publication.                                    *)

InUse == {u \in Protected : docker[u[1]] = "live"}

Holding == {r \in Requests : req[r].pc \in {"loaded", "opening", "writing", "publishing"}}

Tracked ==
  \A u \in InUse :
    /\ cache # None => Tracks(cache, u)
    /\ disk \notin {Empty, Torn} => Tracks(disk, u)
    /\ \A r \in Holding : Tracks(req[r].next, u)

\* A usage protected is one of a secret and of a container that exist or existed.
KeptKnown == \A u \in Protected : u[2] \in minted /\ docker[u[1]] # "unborn"

\* A request in the store, Docker behind it, cannot untie a usage.
Harmless(q) ==
  /\ q.kind = "create" => \A u \in Protected : u[2] # q.id
  /\ q.pc # "docker" =>
       /\ q.kind \in {"reassign", "unuse"} => docker[q.from] = "gone"
       /\ q.kind \in {"record", "reassign"} => docker[q.to] # "unborn"
       /\ q.kind = "purge" => \A u \in InUse : u[1] \in q.live

AloneUncrowded == \A r \in InFlight : ~req[r].crowded => InFlight = {r}

\* The list computed is about to be published.
Computing(q) == q.pc \in {"opening", "writing", "publishing"}

\* A request alone since it resolved the name of a secret still finds it.
StillNamed(q) ==
  q.kind = "record" \/ (q.kind = "reassign" /\ q.name # NoName) =>
    /\ q.pc = "docker" \/ q.pc = "ask" \/ Computing(q)
    /\ cache # None /\ q.id \in Named(cache, q.name)
    /\ Computing(q) => q.id \in Named(q.next, q.name)

\* A request alone registers what it says it does: the usage of its new
\* container, those of the container it makes again.
Registers(q) ==
  /\ q.kind = "record" /\ Computing(q) => Tracks(q.next, <<q.to, q.id>>)
  /\ q.kind = "reassign" /\ q.pc # "docker" =>
       \A u \in Protected : u[1] = q.from =>
         /\ q.pc \in {"ask", "loading"} =>
              /\ cache # None => Tracks(cache, u)
              /\ disk \notin {Empty, Torn} => Tracks(disk, u)
         /\ q.pc = "loaded" => Tracks(q.next, u)
         /\ Computing(q) => Tracks(q.next, <<q.to, u[2]>>)
  /\ q.pc = "publishing" => disk \in {q.next, Torn}

UInv ==
  /\ Tracked
  /\ KeptKnown
  /\ \A r \in InFlight : Harmless(req[r])
  /\ AloneUncrowded
  /\ \A r \in InFlight : ~req[r].crowded => StillNamed(req[r]) /\ Registers(req[r])

-----------------------------------------------------------------------------

USE DEF Protected

\* A container is created, then removed, and never comes back.
Aging ==
  \A c \in Containers :
    \/ docker'[c] = docker[c]
    \/ docker[c] = "unborn" /\ docker'[c] = "live"
    \/ docker[c] = "live" /\ docker'[c] = "gone"

\* A usage in use after a step that registers none was in use before it.
LEMMA InUseAges ==
  ASSUME TypeOK, KeptKnown, Aging, Protected' \subseteq Protected
  PROVE  InUse' \subseteq InUse
<1>1. \A u \in Protected : u[1] \in Containers
  BY DEF TypeOK, DockerTyped
<1> QED BY <1>1 DEF InUse, KeptKnown, Aging

\* The store without a file has no usage to lose.
LEMMA BlankTracks == ASSUME NEW u \in Containers \X Ids PROVE Tracks(Blank, u)
  BY DEF Tracks, Blank

\* A change applied to a list unties no usage of a live container.
LEMMA ChangeTracks ==
  ASSUME NEW q \in Request, Good(q), q.pc # "docker", NEW list \in Lists, Applies(q, list),
         Harmless(q), NEW u \in InUse, u \in Containers \X Ids, Tracks(list, u)
  PROVE  Tracks(Change(q, list), u)
<1> USE DEF Tracks, Lists, Secret
<1>0. u[1] \in Containers /\ u[2] \in Ids /\ u \in Protected /\ docker[u[1]] = "live"
  BY DEF InUse
<1>1. CASE q.kind = "create"
  <2>1. Change(q, list) =
          [list EXCEPT ![q.id] = [name |-> q.name, version |-> 1, usedBy |-> {}]] /\ u[2] # q.id
    BY <1>0, <1>1 DEF Change, Harmless
  <2> QED BY <1>0, <2>1
<1>2. CASE q.kind = "update"
  <2>1. q.id \in Ids /\ list[q.id] \in Secret /\ list[q.id] # Absent
    BY <1>2 DEF Good, Applies, Present
  <2>2. /\ \A j \in Ids \ {q.id} : Change(q, list)[j] = list[j]
        /\ Change(q, list)[q.id].usedBy = list[q.id].usedBy
    BY <1>2, <2>1 DEF Change
  <2> QED BY <1>0, <2>1, <2>2
<1>3. CASE q.kind = "delete"
  BY <1>0, <1>3 DEF Change, Good
<1>4. CASE q.kind \in {"record", "reassign", "unuse", "relabel", "purge"}
  <2>1. Change(q, list)[u[2]] =
          IF list[u[2]] = Absent THEN Absent
          ELSE [list[u[2]] EXCEPT !.usedBy = UsageAfter(q, list[u[2]])]
    BY <1>0, <1>4 DEF Change
  <2>2. ASSUME list[u[2]] # Absent PROVE u[1] \in UsageAfter(q, list[u[2]])
    <3>1. u[1] \in list[u[2]].usedBy
      BY <2>2
    <3>2. q.kind \in {"reassign", "unuse"} => u[1] # q.from
      BY <1>0 DEF Harmless
    <3>3. q.kind = "purge" => u[1] \in q.live
      BY DEF Harmless
    <3> QED BY <1>4, <3>1, <3>2, <3>3 DEF UsageAfter
  <2>3. ASSUME list[u[2]] # Absent
        PROVE  [list[u[2]] EXCEPT !.usedBy = UsageAfter(q, list[u[2]])].usedBy
                 = UsageAfter(q, list[u[2]])
    BY <1>0, <2>3
  <2> QED BY <2>1, <2>2, <2>3
<1> QED BY <1>1, <1>2, <1>3, <1>4 DEF Applies

\* What recordSecretUsage and reassignSecretUsagesToContainer add.
LEMMA ChangeRegisters ==
  ASSUME NEW q \in Request, Good(q), q.pc # "docker", NEW list \in Lists, NEW i \in Ids,
         q.kind \in {"record", "reassign"}
  PROVE  /\ i \in Named(list, q.name) => i \in Named(Change(q, list), q.name)
         /\ q.kind = "record" /\ i \in Named(list, q.name) => Tracks(Change(q, list), <<q.to, i>>)
         /\ q.kind = "reassign" /\ Tracks(list, <<q.from, i>>)
              => Tracks(Change(q, list), <<q.to, i>>)
<1> USE DEF Lists, Secret
<1>1. Change(q, list)[i] = IF list[i] = Absent THEN Absent
                           ELSE [list[i] EXCEPT !.usedBy = UsageAfter(q, list[i])]
  BY DEF Change
<1>2. ASSUME list[i] # Absent
      PROVE  /\ Change(q, list)[i].name = list[i].name
             /\ Change(q, list)[i].usedBy = UsageAfter(q, list[i])
             /\ Change(q, list)[i] # Absent
  <2>1. list[i] \in Secret /\ UsageAfter(q, list[i]) \in SUBSET Containers
    BY <1>2 DEF UsageAfter, Good, Request
  <2>2. Change(q, list)[i] \in Secret
    BY <1>1, <1>2, <2>1
  <2> QED BY <1>1, <1>2, <2>1, <2>2, Distinct
<1>3. i \in Named(list, q.name) => i \in Named(Change(q, list), q.name)
  BY <1>2 DEF Named, Present
<1>4. q.kind = "record" /\ i \in Named(list, q.name) => Tracks(Change(q, list), <<q.to, i>>)
  BY <1>2 DEF Named, Present, Tracks, UsageAfter
<1>5. q.kind = "reassign" /\ Tracks(list, <<q.from, i>>) => Tracks(Change(q, list), <<q.to, i>>)
  <2>1. CASE list[i] = Absent
    BY <1>1, <2>1 DEF Tracks
  <2>2. CASE list[i] # Absent
    BY <1>2, <2>2 DEF Tracks, UsageAfter
  <2> QED BY <2>1, <2>2
<1> QED BY <1>3, <1>4, <1>5

\* One request in flight moves: what it has to respect.
LEMMA Moved ==
  ASSUME TInv, UInv, NEW r \in Requests, req[r].pc # "idle",
         \A p \in Requests \ {r} : req'[p] = req[p],
         req'[r].pc # "idle" => req'[r].crowded = req[r].crowded,
         Aging, Protected' \subseteq Protected \/ InFlight = {r}, KeptKnown',
         \A u \in InUse' :
           /\ cache' # None => Tracks(cache', u)
           /\ disk' \notin {Empty, Torn} => Tracks(disk', u)
           /\ req'[r].pc \in {"loaded", "opening", "writing", "publishing"} =>
                Tracks(req'[r].next, u),
         req'[r].pc # "idle" => Harmless(req[r])',
         req'[r].pc # "idle" /\ ~req'[r].crowded => StillNamed(req[r])' /\ Registers(req[r])'
  PROVE  UInv'
<1>1. \A p \in InFlight' : p # r => p \in InFlight
  BY DEF InFlight
<1>2. Protected' \subseteq Protected => InUse' \subseteq InUse
  BY InUseAges DEF UInv, TInv
<1>3. \A p \in InFlight' : p # r => Protected' \subseteq Protected
  BY <1>1
<1>4. Tracked'
  <2>1. ASSUME NEW u \in InUse', NEW p \in Holding', p # r PROVE Tracks(req'[p].next, u)
    <3>1. p \in Holding /\ p \in InFlight' /\ req'[p] = req[p]
      BY <2>1 DEF Holding, InFlight
    <3>2. u \in InUse
      BY <1>2, <1>3, <2>1, <3>1
    <3> QED BY <3>1, <3>2 DEF UInv, Tracked
  <2> QED BY <2>1 DEF Tracked, Holding
<1>5. ASSUME NEW p \in InFlight' PROVE Harmless(req[p])'
  <2>1. CASE p = r
    BY <1>5, <2>1 DEF InFlight
  <2>2. CASE p # r
    <3>1. p \in InFlight /\ Harmless(req[p]) /\ req'[p] = req[p] /\ Protected' \subseteq Protected
          /\ InUse' \subseteq InUse
      BY <1>1, <1>2, <1>3, <1>5, <2>2 DEF UInv, InFlight
    <3>2. Good(req[p])
      BY DEF TInv, InFlight
    <3>3. \A c \in Containers :
            /\ docker[c] = "gone" => docker'[c] = "gone"
            /\ docker[c] # "unborn" => docker'[c] # "unborn"
      BY DEF Aging
    <3>4. req[p].pc # "docker" =>
            /\ req[p].kind \in {"reassign", "unuse"} => docker'[req[p].from] = "gone"
            /\ req[p].kind \in {"record", "reassign"} => docker'[req[p].to] # "unborn"
      BY <3>1, <3>2, <3>3 DEF Harmless, Good
    <3>5. req[p].kind = "create" => \A u \in Protected' : u[2] # req[p].id
      BY <3>1 DEF Harmless
    <3>6. req[p].pc # "docker" /\ req[p].kind = "purge" => \A u \in InUse' : u[1] \in req[p].live
      BY <3>1 DEF Harmless
    <3> QED BY <3>1, <3>4, <3>5, <3>6 DEF Harmless
  <2> QED BY <2>1, <2>2
<1>6. AloneUncrowded'
  <2>1. r \in InFlight
    BY DEF InFlight
  <2> QED BY <1>1, <2>1 DEF UInv, AloneUncrowded, InFlight
<1>7. ASSUME NEW p \in InFlight', ~req'[p].crowded PROVE StillNamed(req[p])' /\ Registers(req[p])'
  <2>1. r \in InFlight
    BY DEF InFlight
  <2>2. p = r
    <3> SUFFICES ASSUME p # r PROVE FALSE
      OBVIOUS
    <3>1. p \in InFlight /\ ~req[p].crowded
      BY <1>1, <1>7 DEF InFlight
    <3> QED BY <2>1, <3>1 DEF UInv, AloneUncrowded
  <2> QED BY <1>7, <2>2 DEF InFlight
<1> QED BY <1>4, <1>5, <1>6, <1>7 DEF UInv

\* A request is received: those in flight are crowded from now on.
LEMMA Received ==
  ASSUME TInv, UInv, NEW r \in Requests, NEW q \in Request, q.pc \in {"ask", "docker"},
         Arrive(r, q), minted \subseteq minted',
         q.kind = "create" => \A u \in Protected : u[2] # q.id,
         q.kind \in {"reassign", "unuse", "purge"} => q.pc = "docker",
         q.kind # "record", q.kind = "reassign" => q.name = NoName
  PROVE  UInv'
<1> DEFINE Same(p, x) ==
             /\ req'[p].pc = x.pc /\ req'[p].kind = x.kind /\ req'[p].id = x.id
             /\ req'[p].name = x.name /\ req'[p].from = x.from /\ req'[p].to = x.to
             /\ req'[p].live = x.live /\ req'[p].next = x.next
<1>0. UNCHANGED <<disk, cache, docker, Protected>> /\ req[r].pc = "idle"
  BY DEF Arrive, storeVars, dockerVars
<1>1. \A x \in Request, b \in BOOLEAN : \A y :
        y = [x EXCEPT !.crowded = b] =>
          /\ y.pc = x.pc /\ y.kind = x.kind /\ y.id = x.id /\ y.name = x.name
          /\ y.from = x.from /\ y.to = x.to /\ y.live = x.live /\ y.next = x.next
          /\ y.crowded = b
  BY DEF Request
<1>2. \A p \in Requests : req[p] \in Request
  BY DEF TInv, TypeOK, RequestsTyped
<1>3. Same(r, q) /\ (req'[r].crowded = (InFlight # {}))
  <2> DEFINE b == InFlight # {}
  <2>1. req'[r] = [q EXCEPT !.crowded = b] /\ b \in BOOLEAN
    BY DEF Arrive
  <2> HIDE DEF b
  <2>2. Same(r, q) /\ req'[r].crowded = b
    BY <1>1, <2>1
  <2> QED BY <2>2 DEF b
<1>4. ASSUME NEW p \in InFlight PROVE p # r /\ Same(p, req[p]) /\ req'[p].crowded = TRUE
  <2>1. p \in Requests /\ p # r /\ req'[p] = [req[p] EXCEPT !.crowded = TRUE]
    BY <1>0 DEF Arrive, InFlight
  <2>2. req[p] \in Request
    BY <1>2, <2>1
  <2> QED BY <1>1, <2>1, <2>2
<1>5. \A p \in Requests \ InFlight : p # r => req'[p].pc = "idle"
  BY DEF Arrive, InFlight
<1>6. InFlight' = InFlight \cup {r}
  <2>1. \A p \in InFlight : req'[p].pc # "idle"
    BY <1>4 DEF InFlight
  <2>2. req'[r].pc # "idle"
    BY <1>3
  <2>3. \A p \in Requests : req'[p].pc # "idle" => p \in InFlight \/ p = r
    BY <1>5
  <2> QED BY <2>1, <2>2, <2>3 DEF InFlight
<1>7. Tracked'
  <2>1. Holding' \subseteq Holding /\ \A p \in Holding' : req'[p].next = req[p].next
    BY <1>3, <1>4, <1>5 DEF Holding, InFlight
  <2>2. InUse' = InUse
    BY <1>0 DEF InUse
  <2> QED BY <1>0, <2>1, <2>2 DEF UInv, Tracked
<1>8. KeptKnown'
  BY <1>0 DEF UInv, KeptKnown
<1>9. ASSUME NEW p \in InFlight' PROVE Harmless(req[p])'
  <2>1. CASE p = r
    BY <1>0, <1>3, <2>1 DEF Harmless
  <2>2. CASE p # r
    <3>1. p \in InFlight
      BY <1>6, <1>9, <2>2
    <3>2. /\ req'[p].pc = req[p].pc /\ req'[p].kind = req[p].kind /\ req'[p].id = req[p].id
          /\ req'[p].from = req[p].from /\ req'[p].to = req[p].to /\ req'[p].live = req[p].live
      BY <1>4, <3>1
    <3>3. Harmless(req[p])
      BY <3>1 DEF UInv
    <3>4. InUse' = InUse /\ docker' = docker /\ Protected' = Protected
      BY <1>0 DEF InUse
    <3> QED BY <3>2, <3>3, <3>4 DEF Harmless
  <2> QED BY <2>1, <2>2
<1>10. \A p \in InFlight' : ~req'[p].crowded => p = r /\ InFlight = {}
  BY <1>3, <1>4, <1>6
<1>11. AloneUncrowded'
  BY <1>6, <1>10 DEF AloneUncrowded
<1>12. StillNamed(req[r])' /\ Registers(req[r])'
  BY <1>3 DEF StillNamed, Registers, Computing
<1> QED BY <1>7, <1>8, <1>9, <1>10, <1>11, <1>12 DEF UInv

\* r leaves the store function it was in.
LEMMA Left ==
  ASSUME TInv, UInv, NEW r \in Requests, Leave(r), req[r].pc \notin {"idle", "docker"},
         UNCHANGED docker, Protected' \subseteq Protected \/ InFlight = {r}, KeptKnown',
         \A u \in InUse' :
           /\ cache' # None => Tracks(cache', u)
           /\ disk' \notin {Empty, Torn} => Tracks(disk', u),
         ~req[r].crowded /\ req[r].kind = "reassign" /\ req[r].name # NoName =>
           cache' # None /\ req[r].id \in Named(cache', req[r].name)
  PROVE  UInv'
<1>0. req[r] \in Request /\ \A p \in Requests \ {r} : req'[p] = req[p]
  BY DEF Leave, TInv, TypeOK, RequestsTyped
<1>1. Aging
  BY DEF Aging
<1>2. r \in InFlight
  BY DEF InFlight
<1>3. CASE req[r].kind = "reassign" /\ req[r].name # NoName
  <2>1. req'[r] = [[req[r] EXCEPT !.pc = "ask"] EXCEPT !.kind = "record"]
    BY <1>0, <1>3 DEF Leave, TInv, TypeOK, RequestsTyped
  <2>2. /\ req'[r].pc = "ask" /\ req'[r].kind = "record" /\ req'[r].crowded = req[r].crowded
        /\ req'[r].id = req[r].id /\ req'[r].name = req[r].name /\ req'[r].to = req[r].to
    BY <1>0, <2>1 DEF Request
  <2>3. Harmless(req[r])'
    BY <1>2, <1>3, <2>2 DEF UInv, Harmless
  <2>4. ~req'[r].crowded => StillNamed(req[r])' /\ Registers(req[r])'
    BY <1>3, <2>2 DEF StillNamed, Registers, Computing
  <2> QED BY <1>0, <1>1, <2>2, <2>3, <2>4, Moved
<1>4. CASE ~(req[r].kind = "reassign" /\ req[r].name # NoName)
  <2>1. req'[r].pc = "idle"
    BY <1>4 DEF Leave, TInv, TypeOK, RequestsTyped, NoRequest
  <2> QED BY <1>0, <1>1, <2>1, Moved
<1> QED BY <1>3, <1>4

\* r has the list, which is the one served from now on.
LEMMA Decided ==
  ASSUME TInv, UInv, NEW r \in Requests, req[r].pc \in {"ask", "loaded"},
         NEW list \in Lists, Decide(r, list), cache' = list, UNCHANGED <<disk, docker, minted, Protected>>,
         \A u \in InUse : Tracks(list, u),
         req[r].pc = "ask" => cache = list, req[r].pc = "loaded" => req[r].next = list
  PROVE  UInv'
<1>0. req[r] \in Request /\ Good(req[r]) /\ r \in InFlight /\ \A p \in Requests \ {r} : req'[p] = req[p]
  BY DEF Decide, Leave, TInv, TypeOK, RequestsTyped, InFlight
<1>1. Aging /\ KeptKnown' /\ InUse' = InUse /\ Protected' \subseteq Protected
  BY DEF Aging, UInv, KeptKnown, InUse
<1>2. list # None
  BY Distinct
<1>3. \A u \in InUse : /\ cache' # None => Tracks(cache', u)
                       /\ disk' \notin {Empty, Torn} => Tracks(disk', u)
  BY DEF UInv, Tracked
<1>4. ~req[r].crowded /\ (req[r].kind = "record" \/ (req[r].kind = "reassign" /\ req[r].name # NoName)) =>
        req[r].id \in Named(list, req[r].name)
  BY <1>0 DEF UInv, StillNamed, Computing
<1>5. CASE req[r].kind = "resolve" /\ Named(list, req[r].name) = {}
  <2>1. req'[r].pc = "idle"
    BY <1>5 DEF Decide, TInv, TypeOK, RequestsTyped, NoRequest
  <2> QED BY <1>0, <1>1, <1>3, <2>1, Moved
<1>6. CASE req[r].kind = "resolve" /\ Named(list, req[r].name) # {}
  <2>1. PICK i \in Named(list, req[r].name) :
          req' = [req EXCEPT ![r] =
                    [req[r] EXCEPT !.pc = "docker", !.id = i, !.next = Blank,
                       !.kind = IF req[r].from = NoContainer THEN "record" ELSE "reassign"]]
    BY <1>6 DEF Decide
  <2>2. /\ req'[r].pc = "docker" /\ req'[r].kind \in {"record", "reassign"} /\ req'[r].id = i
        /\ req'[r].name = req[r].name /\ req'[r].crowded = req[r].crowded
    BY <1>0, <2>1 DEF Request, TInv, TypeOK, RequestsTyped
  <2>3. Harmless(req[r])'
    BY <2>2 DEF Harmless
  <2>4. StillNamed(req[r])' /\ Registers(req[r])'
    BY <1>2, <2>1, <2>2 DEF StillNamed, Registers, Computing
  <2> QED BY <1>0, <1>1, <1>3, <2>2, <2>3, <2>4, Moved
<1>7. CASE req[r].kind # "resolve" /\ Applies(req[r], list)
  <2> DEFINE new == Change(req[r], list)
  <2>1. req'[r] = [req[r] EXCEPT !.pc = "opening", !.next = new]
    BY <1>7 DEF Decide, TInv, TypeOK, RequestsTyped
  <2>2. /\ req'[r].pc = "opening" /\ req'[r].next = new /\ req'[r].kind = req[r].kind
        /\ req'[r].id = req[r].id /\ req'[r].name = req[r].name /\ req'[r].from = req[r].from
        /\ req'[r].to = req[r].to /\ req'[r].live = req[r].live /\ req'[r].crowded = req[r].crowded
    BY <1>0, <2>1 DEF Request
  <2>3. \A u \in InUse : Tracks(new, u)
    <3>1. \A u \in InUse : u \in Containers \X Ids
      BY DEF InUse, TInv, TypeOK, DockerTyped
    <3> QED BY <1>0, <1>7, <3>1, ChangeTracks DEF UInv
  <2>4. Harmless(req[r])'
    BY <1>0, <1>1, <2>2 DEF UInv, Harmless
  <2>5. ~req[r].crowded => StillNamed(req[r])'
    <3>1. ASSUME ~req[r].crowded, req[r].kind \in {"record", "reassign"},
                 req[r].id \in Ids, req[r].id \in Named(list, req[r].name)
          PROVE  req[r].id \in Named(new, req[r].name)
      BY <1>0, <3>1, ChangeRegisters
    <3> QED BY <1>0, <1>2, <1>4, <2>2, <3>1 DEF StillNamed, Computing, Good
  <2>6. ~req[r].crowded => Registers(req[r])'
    <3> SUFFICES ASSUME ~req[r].crowded PROVE Registers(req[r])'
      OBVIOUS
    <3>1. req[r].kind = "record" => Tracks(new, <<req[r].to, req[r].id>>)
      BY <1>0, <1>4, ChangeRegisters DEF Good
    <3>2. ASSUME req[r].kind = "reassign", NEW u \in Protected, u[1] = req[r].from
          PROVE  Tracks(new, <<req[r].to, u[2]>>)
      <4>1. Tracks(list, u)
        BY <1>0, <1>2, <3>2 DEF UInv, Registers
      <4>2. u[2] \in Ids /\ Tracks(list, <<req[r].from, u[2]>>)
        BY <3>2, <4>1 DEF Tracks, TInv, TypeOK, DockerTyped
      <4> QED BY <1>0, <3>2, <4>2, ChangeRegisters
    <3> QED BY <2>2, <3>1, <3>2 DEF Registers, Computing
  <2> HIDE DEF new
  <2> QED BY <1>0, <1>1, <1>3, <2>2, <2>3, <2>4, <2>5, <2>6, Moved
<1>8. CASE req[r].kind # "resolve" /\ ~Applies(req[r], list)
  <2>1. Leave(r)
    BY <1>8 DEF Decide
  <2> QED BY <1>0, <1>1, <1>2, <1>3, <1>4, <2>1, Left
<1> QED BY <1>5, <1>6, <1>7, <1>8

\* What users ask unties nothing yet.
LEMMA UserKeepsUsages ==
  ASSUME TInv, UInv, NEW r \in Requests, User(r)
  PROVE  UInv'
<1>1. ASSUME NEW n \in Names, CreateSecret(r, n) PROVE UInv'
  <2>1. PICK i \in Ids \ minted :
          /\ minted' = minted \cup {i}
          /\ Arrive(r, [NoRequest EXCEPT !.pc = "ask", !.kind = "create", !.id = i, !.name = n])
    BY <1>1 DEF CreateSecret
  <2> DEFINE q == [NoRequest EXCEPT !.pc = "ask", !.kind = "create", !.id = i, !.name = n]
  <2>2. q \in Request /\ q.pc = "ask" /\ q.kind = "create" /\ q.id = i
    BY BlankTyped DEF NoRequest, Request
  <2> HIDE DEF q
  <2>3. Arrive(r, q)
    BY <2>1 DEF q
  <2>4. \A u \in Protected : u[2] # i
    BY DEF UInv, KeptKnown
  <2> QED BY <2>1, <2>2, <2>3, <2>4, Received
<1>2. ASSUME NEW q \in Request, q.pc \in {"ask", "docker"}, q.kind \notin {"create", "record"},
             q.kind \in {"reassign", "unuse", "purge"} => q.pc = "docker",
             q.kind = "reassign" => q.name = NoName, Arrive(r, q), minted' = minted
      PROVE  UInv'
  BY <1>2, Received
<1>3. ASSUME NEW n \in Names, Launch(r, n) PROVE UInv'
  <2>1. [NoRequest EXCEPT !.pc = "ask", !.kind = "resolve", !.name = n] \in Request
    BY BlankTyped DEF NoRequest, Request
  <2> QED BY <1>2, <1>3, <2>1 DEF Launch, NoRequest
<1>4. ASSUME NEW i \in Ids, DeleteSecret(r, i) PROVE UInv'
  <2>1. [NoRequest EXCEPT !.pc = "ask", !.kind = "delete", !.id = i] \in Request
    BY BlankTyped DEF NoRequest, Request
  <2> QED BY <1>2, <1>4, <2>1 DEF DeleteSecret, NoRequest
<1>5. ASSUME NEW i \in Ids, NEW n \in Names, NEW rotate \in BOOLEAN, UpdateSecret(r, i, n, rotate)
      PROVE  UInv'
  <2>1. [NoRequest EXCEPT !.pc = "ask", !.kind = "update", !.id = i, !.name = n,
                          !.rotate = rotate] \in Request
    BY BlankTyped DEF NoRequest, Request
  <2> QED BY <1>2, <1>5, <2>1 DEF UpdateSecret, NoRequest
<1>6. ASSUME NEW c \in Containers, RemoveContainer(r, c) PROVE UInv'
  <2>1. [NoRequest EXCEPT !.pc = "docker", !.kind = "unuse", !.from = c] \in Request
    BY BlankTyped DEF NoRequest, Request
  <2> QED BY <1>2, <1>6, <2>1 DEF RemoveContainer, NoRequest
<1>7. ASSUME NEW c \in Containers, RenameContainer(r, c) PROVE UInv'
  <2>1. [NoRequest EXCEPT !.pc = "docker", !.kind = "relabel", !.from = c] \in Request
    BY BlankTyped DEF NoRequest, Request
  <2> QED BY <1>2, <1>7, <2>1 DEF RenameContainer, NoRequest
<1>8. ASSUME NEW c \in Containers, NEW n \in Names \cup {NoName}, Recreate(r, c, n) PROVE UInv'
  <2> DEFINE q == [NoRequest EXCEPT !.pc = IF n = NoName THEN "docker" ELSE "ask",
                                    !.kind = IF n = NoName THEN "reassign" ELSE "resolve",
                                    !.name = n, !.from = c]
  <2>1. /\ q \in Request /\ q.pc \in {"ask", "docker"} /\ q.kind \notin {"create", "record"}
        /\ q.kind \in {"reassign", "unuse", "purge"} => q.pc = "docker"
        /\ q.kind = "reassign" => q.name = NoName
    BY BlankTyped DEF NoRequest, Request
  <2>2. Arrive(r, q) /\ minted' = minted
    BY <1>8 DEF Recreate
  <2> HIDE DEF q
  <2> QED BY <1>2, <2>1, <2>2
<1>9. ASSUME ListSecrets(r) PROVE UInv'
  <2>1. [NoRequest EXCEPT !.pc = "docker", !.kind = "purge"] \in Request
    BY BlankTyped DEF NoRequest, Request
  <2> QED BY <1>2, <1>9, <2>1 DEF ListSecrets, NoRequest
<1> QED BY <1>1, <1>3, <1>4, <1>5, <1>6, <1>7, <1>8, <1>9 DEF User

\* A request in the store goes on with the same change and the same list.
LEMMA GoesOn ==
  ASSUME TInv, UInv, NEW r \in Requests, req[r].pc \notin {"idle", "docker"},
         \A p \in Requests \ {r} : req'[p] = req[p],
         req'[r].pc \notin {"idle", "docker"},
         req'[r].kind = req[r].kind, req'[r].id = req[r].id, req'[r].name = req[r].name,
         req'[r].from = req[r].from, req'[r].to = req[r].to, req'[r].live = req[r].live,
         req'[r].crowded = req[r].crowded, UNCHANGED <<cache, docker, minted, Protected>>,
         \A u \in InUse :
           /\ disk' \notin {Empty, Torn} => Tracks(disk', u)
           /\ req'[r].pc \in {"loaded", "opening", "writing", "publishing"} =>
                Tracks(req'[r].next, u),
         ~req[r].crowded => StillNamed(req[r])' /\ Registers(req[r])'
  PROVE  UInv'
<1>1. Aging /\ KeptKnown' /\ InUse' = InUse /\ Protected' \subseteq Protected
  BY DEF Aging, UInv, KeptKnown, InUse
<1>2. r \in InFlight
  BY DEF InFlight
<1>3. Harmless(req[r])'
  BY <1>1, <1>2 DEF UInv, Harmless
<1>4. \A u \in InUse' : cache' # None => Tracks(cache', u)
  BY <1>1 DEF UInv, Tracked
<1> QED BY <1>1, <1>3, <1>4, Moved

\* The store functions keep the usages.
LEMMA StoreKeepsUsages ==
  ASSUME TInv, LInv, UInv, NEW r \in Requests, Store(r)
  PROVE  UInv'
<1>0. /\ req[r] \in Request /\ Good(req[r])
      /\ cache \in Lists \cup {None} /\ disk \in Lists \cup {Empty, Torn}
      /\ \A u \in InUse : u \in Containers \X Ids
  BY DEF TInv, TypeOK, RequestsTyped, StoreTyped, DockerTyped, InUse
<1>1. CASE AskCached(r)
  <2>1. cache \in Lists /\ \A u \in InUse : Tracks(cache, u)
    BY <1>0, <1>1 DEF AskCached, UInv, Tracked
  <2> QED BY <1>0, <1>1, <2>1, Decided DEF AskCached, storeVars, dockerVars
<1>2. CASE AskDisk(r)
  <2>1. /\ req'[r] = [req[r] EXCEPT !.pc = "loading"] /\ req[r].pc = "ask" /\ r \in InFlight
        /\ cache = None /\ UNCHANGED <<disk, cache, docker, minted, Protected>>
        /\ \A p \in Requests \ {r} : req'[p] = req[p]
    BY <1>2 DEF AskDisk, storeVars, dockerVars, TInv, TypeOK, RequestsTyped, InFlight
  <2>2. /\ req'[r].pc = "loading"
        /\ req'[r].kind = req[r].kind /\ req'[r].id = req[r].id /\ req'[r].name = req[r].name
        /\ req'[r].from = req[r].from /\ req'[r].to = req[r].to /\ req'[r].live = req[r].live
        /\ req'[r].crowded = req[r].crowded /\ req'[r].next = req[r].next
    BY <1>0, <2>1 DEF Request
  <2>3. ~req[r].crowded => StillNamed(req[r])' /\ Registers(req[r])'
    BY <2>1, <2>2 DEF UInv, StillNamed, Registers, Computing
  <2>4. \A u \in InUse : disk' \notin {Empty, Torn} => Tracks(disk', u)
    BY <2>1 DEF UInv, Tracked
  <2> QED BY <2>1, <2>2, <2>3, <2>4, GoesOn
<1>3. CASE ReadFromDisk(r)
  <2> DEFINE list == IF disk \in {Empty, Torn} THEN Blank ELSE disk
  <2>1. /\ req'[r] = [req[r] EXCEPT !.pc = "loaded", !.next = list]
        /\ req[r].pc = "loading" /\ r \in InFlight
        /\ UNCHANGED <<disk, cache, docker, minted, Protected>>
        /\ \A p \in Requests \ {r} : req'[p] = req[p]
    BY <1>3 DEF ReadFromDisk, storeVars, dockerVars, TInv, TypeOK, RequestsTyped, InFlight
  <2>2. /\ req'[r].pc = "loaded" /\ req'[r].next = list
        /\ req'[r].kind = req[r].kind /\ req'[r].id = req[r].id /\ req'[r].name = req[r].name
        /\ req'[r].from = req[r].from /\ req'[r].to = req[r].to /\ req'[r].live = req[r].live
        /\ req'[r].crowded = req[r].crowded
    BY <1>0, <2>1 DEF Request
  <2>3. \A u \in Containers \X Ids :
          (disk \notin {Empty, Torn} => Tracks(disk, u)) => Tracks(list, u)
    BY BlankTracks
  <2>4. Protected \subseteq Containers \X Ids
    BY DEF TInv, TypeOK, DockerTyped
  <2> HIDE DEF list
  <2>5. ~req[r].crowded => StillNamed(req[r])' /\ Registers(req[r])'
    BY <2>1, <2>2, <2>3, <2>4 DEF UInv, StillNamed, Registers, Computing
  <2>6. \A u \in InUse : /\ disk' \notin {Empty, Torn} => Tracks(disk', u)
                         /\ Tracks(list, u)
    BY <1>0, <2>1, <2>3 DEF UInv, Tracked
  <2> QED BY <2>1, <2>2, <2>5, <2>6, GoesOn
<1>4. CASE FillCache(r)
  <2>1. req[r].next \in Lists /\ \A u \in InUse : Tracks(req[r].next, u)
    BY <1>0, <1>4 DEF FillCache, Request, UInv, Tracked, Holding
  <2> QED BY <1>0, <1>4, <2>1, Decided DEF FillCache, dockerVars
<1>5. CASE OpenFile(r) \/ WriteFile(r)
  <2>1. /\ req' = [req EXCEPT ![r].pc = "writing"] \/ req' = [req EXCEPT ![r].pc = "publishing"]
        /\ req[r].pc \in {"opening", "writing"} /\ r \in InFlight /\ r \in Holding
        /\ UNCHANGED <<cache, docker, minted, Protected>>
        /\ disk' \in {Empty, Torn, req[r].next}
    BY <1>5 DEF OpenFile, WriteFile, dockerVars, InFlight, Holding
  <2>2. /\ req'[r].pc \in {"writing", "publishing"} /\ req'[r].next = req[r].next
        /\ req'[r].kind = req[r].kind /\ req'[r].id = req[r].id /\ req'[r].name = req[r].name
        /\ req'[r].from = req[r].from /\ req'[r].to = req[r].to /\ req'[r].live = req[r].live
        /\ req'[r].crowded = req[r].crowded
        /\ \A p \in Requests \ {r} : req'[p] = req[p]
    BY <1>0, <2>1 DEF Request, TInv, TypeOK, RequestsTyped
  <2>3. req'[r].pc = "publishing" => disk' \in {req[r].next, Torn}
    BY <1>0, <1>5 DEF OpenFile, WriteFile, Request, TInv, TypeOK, RequestsTyped
  <2>4. ~req[r].crowded => StillNamed(req[r])' /\ Registers(req[r])'
    BY <2>1, <2>2, <2>3 DEF UInv, StillNamed, Registers, Computing
  <2>5. \A u \in InUse : /\ disk' \notin {Empty, Torn} => Tracks(disk', u)
                         /\ Tracks(req[r].next, u)
    BY <2>1 DEF UInv, Tracked
  <2> QED BY <2>1, <2>2, <2>4, <2>5, GoesOn
<1>6. CASE Publish(r)
  <2>1. /\ req[r].pc = "publishing" /\ Leave(r) /\ r \in InFlight /\ r \in Holding
        /\ cache' = req[r].next /\ disk' = disk /\ UNCHANGED <<docker, minted>>
        /\ Protected' \subseteq Protected \cup Registered(req[r])
    BY <1>6 DEF Publish, dockerVars, InFlight, Holding
  <2>2. req[r].next # None
    BY <1>0, Distinct DEF Request
  <2>3. ASSUME NEW u \in Registered(req[r])
        PROVE  /\ InFlight = {r} /\ Tracks(req[r].next, u) /\ disk \in {req[r].next, Torn}
               /\ u[2] \in minted /\ docker[u[1]] # "unborn"
    <3>1. /\ ~req[r].crowded /\ InFlight = {r} /\ StillNamed(req[r]) /\ Registers(req[r])
          /\ req[r].kind \in {"record", "reassign"}
      BY <2>1, <2>3 DEF Registered, UInv, AloneUncrowded
    <3>2. docker[req[r].to] # "unborn"
      BY <2>1, <3>1 DEF UInv, Harmless
    <3>3. CASE req[r].kind = "record"
      <4>1. u = <<req[r].to, req[r].id>>
        BY <2>3, <3>1, <3>3 DEF Registered
      <4>2. req[r].id \in Present(req[r].next)
        BY <2>1, <3>1, <3>3 DEF StillNamed, Computing, Named
      <4>3. req[r].id \in minted
        BY <2>1, <4>2 DEF LInv, Traced, Fresh
      <4>4. Tracks(req[r].next, <<req[r].to, req[r].id>>)
        BY <2>1, <3>1, <3>3 DEF Registers, Computing
      <4> QED BY <2>1, <3>1, <3>2, <4>1, <4>3, <4>4 DEF Registers
    <3>4. CASE req[r].kind = "reassign"
      <4>1. PICK v \in Protected : v[1] = req[r].from /\ u = <<req[r].to, v[2]>>
        BY <2>3, <3>1, <3>4 DEF Registered
      <4>2. Tracks(req[r].next, <<req[r].to, v[2]>>)
        BY <2>1, <3>1, <3>4, <4>1 DEF Registers, Computing
      <4>3. v[2] \in minted
        BY DEF UInv, KeptKnown
      <4> QED BY <2>1, <3>1, <3>2, <4>1, <4>2, <4>3 DEF Registers
    <3> QED BY <3>1, <3>3, <3>4
  <2>4. Protected' \subseteq Protected \/ InFlight = {r}
    BY <2>1, <2>3
  <2>5. KeptKnown'
    BY <2>1, <2>3 DEF UInv, KeptKnown
  <2>6. ASSUME NEW u \in InUse'
        PROVE  /\ cache' # None => Tracks(cache', u)
               /\ disk' \notin {Empty, Torn} => Tracks(disk', u)
    <3>1. u \in InUse \/ u \in Registered(req[r])
      BY <2>1, <2>6 DEF InUse
    <3>2. CASE u \in InUse
      BY <2>1, <3>2 DEF UInv, Tracked
    <3>3. CASE u \in Registered(req[r])
      BY <2>1, <2>3, <3>3
    <3> QED BY <3>1, <3>2, <3>3
  <2>7. ~req[r].crowded /\ req[r].kind = "reassign" /\ req[r].name # NoName =>
          cache' # None /\ req[r].id \in Named(cache', req[r].name)
    BY <2>1, <2>2 DEF UInv, StillNamed, Computing
  <2> QED BY <2>1, <2>4, <2>5, <2>6, <2>7, Left
<1>7. CASE WriteFails(r)
  <2>1. /\ req[r].pc # "idle" /\ req'[r].pc = "idle" /\ \A p \in Requests \ {r} : req'[p] = req[p]
        /\ UNCHANGED <<disk, cache, docker, minted, Protected>>
    BY <1>7 DEF WriteFails, storeVars, dockerVars, NoRequest, TInv, TypeOK, RequestsTyped
  <2>2. Aging /\ KeptKnown' /\ InUse' = InUse
    BY <2>1 DEF Aging, UInv, KeptKnown, InUse
  <2>3. \A u \in InUse : /\ cache' # None => Tracks(cache', u)
                         /\ disk' \notin {Empty, Torn} => Tracks(disk', u)
    BY <2>1 DEF UInv, Tracked
  <2> QED BY <2>1, <2>2, <2>3, Moved
<1> QED BY <1>1, <1>2, <1>3, <1>4, <1>5, <1>6, <1>7 DEF Store

\* What happens behind Docker keeps the usages.
LEMMA EngineKeepsUsages ==
  ASSUME TInv, UInv, NEW r \in Requests, Engine(r)
  PROVE  UInv'
<1>0. /\ req[r] \in Request /\ Good(req[r]) /\ req[r].pc = "docker" /\ r \in InFlight
      /\ docker \in [Containers -> {"unborn", "live", "gone"}] /\ Protected \subseteq Containers \X Ids
      /\ UNCHANGED <<disk, cache, minted>> /\ \A p \in Requests \ {r} : req'[p] = req[p]
  BY DEF Engine, ListContainers, ListUnreachable, ContainerCreated, ContainerRecreated,
     CreatedHalfway, ContainerRemoved, ContainerRenamed, DockerRefuses, AskNext, storeVars,
     TInv, TypeOK, RequestsTyped, DockerTyped, InFlight
<1>1. Aging
  BY <1>0 DEF Aging, Engine, ListContainers, ListUnreachable, ContainerCreated,
     ContainerRecreated, CreatedHalfway, ContainerRemoved, ContainerRenamed, DockerRefuses,
     dockerVars, Good
<1>2. Protected' \subseteq Protected
  BY DEF Engine, ListContainers, ListUnreachable, ContainerCreated, ContainerRecreated,
     CreatedHalfway, ContainerRemoved, ContainerRenamed, DockerRefuses
<1>3. InUse' \subseteq InUse
  BY <1>1, <1>2, InUseAges DEF UInv, TInv
<1>4. KeptKnown'
  <2>1. \A c \in Containers : docker[c] # "unborn" => docker'[c] # "unborn"
    BY <1>1 DEF Aging
  <2> QED BY <1>0, <1>2, <2>1 DEF UInv, KeptKnown
<1>5. \A u \in InUse' : /\ cache' # None => Tracks(cache', u)
                        /\ disk' \notin {Empty, Torn} => Tracks(disk', u)
  BY <1>0, <1>3 DEF UInv, Tracked
<1>6. ASSUME req'[r].pc = "idle" PROVE UInv'
  BY <1>0, <1>1, <1>2, <1>4, <1>5, <1>6, Moved
<1>7. ASSUME req'[r].pc = "ask", req'[r].crowded = req[r].crowded, Harmless(req[r])',
             ~req[r].crowded => StillNamed(req[r])' /\ Registers(req[r])'
      PROVE  UInv'
  BY <1>0, <1>1, <1>2, <1>4, <1>5, <1>7, Moved
<1>8. CASE CreatedHalfway(r) \/ DockerRefuses(r)
  <2>1. req'[r].pc = "idle"
    BY <1>8 DEF CreatedHalfway, DockerRefuses, NoRequest, TInv, TypeOK, RequestsTyped
  <2> QED BY <1>6, <2>1
<1>9. CASE ListContainers(r) \/ ListUnreachable(r)
  <2>1. PICK s \in SUBSET Containers :
          /\ AskNext(r, [req[r] EXCEPT !.live = s])
          /\ (s = Alive /\ docker' = docker) \/ Protected' = {}
    <3>1. CASE ListContainers(r)
      BY <3>1 DEF ListContainers, Alive, dockerVars
    <3>2. CASE ListUnreachable(r)
      <4>1. AskNext(r, [req[r] EXCEPT !.live = {}]) /\ Protected' = {}
        BY <3>2 DEF ListUnreachable
      <4> QED BY <4>1
    <3> QED BY <1>9, <3>1, <3>2
  <2>2. req'[r] = [[req[r] EXCEPT !.live = s] EXCEPT !.pc = "ask"] /\ req[r].kind = "purge"
    BY <1>9, <2>1 DEF AskNext, ListContainers, ListUnreachable, TInv, TypeOK, RequestsTyped
  <2>3. /\ req'[r].pc = "ask" /\ req'[r].kind = "purge" /\ req'[r].live = s
        /\ req'[r].crowded = req[r].crowded
    BY <1>0, <2>2 DEF Request
  <2>4. \A u \in InUse' : u[1] \in s
    <3>1. Protected' = {} => InUse' = {}
      BY DEF InUse
    <3>2. \A u \in InUse : u[1] \in Alive
      BY <1>0 DEF InUse, Alive
    <3> QED BY <1>3, <2>1, <3>1, <3>2
  <2>5. Harmless(req[r])'
    BY <2>3, <2>4 DEF Harmless
  <2>6. StillNamed(req[r])' /\ Registers(req[r])'
    BY <2>3 DEF StillNamed, Registers, Computing
  <2> QED BY <1>7, <2>3, <2>5, <2>6
<1>10. CASE ContainerCreated(r) \/ ContainerRecreated(r)
  <2>1. PICK c \in Containers :
          /\ docker[c] = "unborn" /\ AskNext(r, [req[r] EXCEPT !.to = c])
          /\ \/ req[r].kind = "record" /\ docker' = [docker EXCEPT ![c] = "live"]
             \/ /\ req[r].kind = "reassign" /\ docker[req[r].from] = "live"
                /\ docker' = [docker EXCEPT ![c] = "live", ![req[r].from] = "gone"]
    BY <1>10 DEF ContainerCreated, ContainerRecreated
  <2>2. req'[r] = [[req[r] EXCEPT !.to = c] EXCEPT !.pc = "ask"]
    BY <2>1 DEF AskNext, TInv, TypeOK, RequestsTyped
  <2>3. /\ req'[r].pc = "ask" /\ req'[r].kind = req[r].kind /\ req'[r].to = c
        /\ req'[r].id = req[r].id /\ req'[r].name = req[r].name /\ req'[r].from = req[r].from
        /\ req'[r].crowded = req[r].crowded
    BY <1>0, <2>2 DEF Request
  <2>4. /\ docker'[c] = "live"
        /\ req[r].kind = "reassign" => docker'[req[r].from] = "gone"
    BY <1>0, <2>1 DEF Good
  <2>5. Harmless(req[r])'
    BY <2>1, <2>3, <2>4 DEF Harmless
  <2>6. ~req[r].crowded => StillNamed(req[r])' /\ Registers(req[r])'
    <3> SUFFICES ASSUME ~req[r].crowded PROVE StillNamed(req[r])' /\ Registers(req[r])'
      OBVIOUS
    <3>1. StillNamed(req[r])'
      BY <1>0, <2>3 DEF UInv, StillNamed, Computing
    <3>2. ASSUME req[r].kind = "reassign", NEW u \in Protected, u[1] = req[r].from
          PROVE  /\ cache # None => Tracks(cache, u)
                 /\ disk \notin {Empty, Torn} => Tracks(disk, u)
      <4>1. u \in InUse
        BY <2>1, <3>2 DEF InUse
      <4> QED BY <4>1 DEF UInv, Tracked
    <3>3. Registers(req[r])'
      BY <1>0, <1>2, <2>3, <3>2 DEF Registers, Computing
    <3> QED BY <3>1, <3>3
  <2> QED BY <1>7, <2>3, <2>5, <2>6
<1>11. CASE ContainerRemoved(r) \/ ContainerRenamed(r)
  <2>1. req'[r] = [req[r] EXCEPT !.pc = "ask"] /\ req[r].kind \in {"unuse", "relabel"}
    BY <1>11 DEF AskNext, ContainerRemoved, ContainerRenamed, TInv, TypeOK, RequestsTyped
  <2>2. /\ req'[r].pc = "ask" /\ req'[r].kind = req[r].kind /\ req'[r].from = req[r].from
        /\ req'[r].crowded = req[r].crowded
    BY <1>0, <2>1 DEF Request
  <2>3. req[r].kind = "unuse" => docker'[req[r].from] = "gone"
    BY <1>0, <1>11 DEF ContainerRemoved, ContainerRenamed, Good
  <2>4. Harmless(req[r])'
    BY <2>1, <2>2, <2>3 DEF Harmless
  <2>5. StillNamed(req[r])' /\ Registers(req[r])'
    BY <2>1, <2>2 DEF StillNamed, Registers, Computing
  <2> QED BY <1>7, <2>2, <2>4, <2>5
<1> QED BY <1>8, <1>9, <1>10, <1>11 DEF Engine

\* UInv is inductive, given the types and the lineage.
LEMMA UInvStep == TInv /\ LInv /\ UInv /\ [Next]_vars => UInv'
<1> SUFFICES ASSUME TInv, LInv, UInv, [Next]_vars PROVE UInv'
  OBVIOUS
<1>0. Protected \subseteq Containers \X Ids
  BY DEF TInv, TypeOK, DockerTyped
<1>1. ASSUME NEW c \in Containers, Vanish(c) PROVE UInv'
  <2>1. UNCHANGED <<disk, cache, req, minted, Protected>> /\ Aging
    BY <1>1 DEF Vanish, storeVars, Aging, TInv, TypeOK, DockerTyped
  <2>2. InUse' \subseteq InUse
    BY <2>1, InUseAges DEF UInv, TInv
  <2>3. \A x \in Containers : /\ docker[x] = "gone" => docker'[x] = "gone"
                              /\ docker[x] # "unborn" => docker'[x] # "unborn"
    BY <2>1 DEF Aging
  <2>4. Tracked'
    BY <2>1, <2>2 DEF UInv, Tracked, Holding
  <2>5. KeptKnown'
    BY <1>0, <2>1, <2>3 DEF UInv, KeptKnown
  <2>6. ASSUME NEW p \in InFlight' PROVE Harmless(req[p])'
    <3>1. Harmless(req[p]) /\ Good(req[p])
      BY <2>1 DEF UInv, TInv, InFlight
    <3>2. req[p].pc # "docker" =>
            /\ req[p].kind \in {"reassign", "unuse"} => docker'[req[p].from] = "gone"
            /\ req[p].kind \in {"record", "reassign"} => docker'[req[p].to] # "unborn"
      BY <2>3, <3>1 DEF Harmless, Good
    <3> QED BY <2>1, <2>2, <3>1, <3>2 DEF Harmless
  <2>7. AloneUncrowded' /\ InFlight' = InFlight
    BY <2>1 DEF UInv, AloneUncrowded, InFlight
  <2>8. ASSUME NEW p \in InFlight', ~req'[p].crowded PROVE StillNamed(req[p])' /\ Registers(req[p])'
    BY <2>1, <2>7, <2>8 DEF UInv, StillNamed, Registers, Computing
  <2> QED BY <2>4, <2>5, <2>6, <2>7, <2>8 DEF UInv
<1>2. CASE Restart
  <2>1. /\ \A r \in Requests : req'[r].pc = "idle"
        /\ cache' = None /\ UNCHANGED <<disk, docker, minted, Protected>>
    BY <1>2 DEF Restart, NoRequest, dockerVars
  <2>2. InFlight' = {} /\ Holding' = {} /\ InUse' = InUse
    BY <2>1 DEF InFlight, Holding, InUse
  <2> QED BY <2>1, <2>2 DEF UInv, Tracked, KeptKnown, AloneUncrowded
<1>3. CASE UNCHANGED vars
  BY <1>3 DEF vars, storeVars, dockerVars, UInv, Tracked, KeptKnown, Harmless, AloneUncrowded,
     InUse, Holding, InFlight, StillNamed, Registers, Computing
<1> QED BY <1>1, <1>2, <1>3, UserKeepsUsages, StoreKeepsUsages, EngineKeepsUsages DEF Next

\* containers.ts:259-276: a usage registered while nothing else was in flight
\* stays in the secret as long as both exist, in the list served and in the
\* file, for any requests that overlap later, any failures and restarts,
\* unless it was there when GET /api/secrets could not list the containers:
\* the purge takes those away (PurgeSparesTheLiving is violated).
THEOREM UsageKeptHolds == Spec => []UsageKept
<1>1. Init => UInv
  BY DEF Init, UInv, Tracked, KeptKnown, AloneUncrowded, InUse, InFlight, NoRequest
<1>2. UInv => UsageKept
  BY DEF UInv, Tracked, UsageKept, InUse
<1>3. Init /\ [][Next]_vars => [](TInv /\ LInv)
  BY TInvInit, TInvStep, LInvInit, LInvStep, PTL
<1> QED BY <1>1, <1>2, <1>3, UInvStep, PTL DEF Spec
=============================================================================
