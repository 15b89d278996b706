---------------------------- MODULE PluginsProofs ----------------------------
(***************************************************************************)
(* Proofs about Plugins, for any modules, requests and bounds: the type    *)
(* invariant, that a removal outlives the restarts, and that a module on   *)
(* pause stays out of the graphs.                                          *)
(***************************************************************************)
EXTENDS Plugins, FiniteSetTheorems, TLAPS

USE ModulesAssumption, BoundsAssumption

-----------------------------------------------------------------------------
(* The type invariant.                                                     *)

Asked == {"uninstall", "enable", "disable", "clear", "consult"}
Placing == {"install", "restore", "purge"}

(* Where a job may stand, with which request and on which module. *)
Stands(q) ==
  /\ q.pc \in {"clear", "rm"} => q.kind \in Placing \cup {"uninstall"}
  /\ q.pc = "rename" => q.kind \in {"install", "restore"}
  /\ q.pc \in {"state", "open", "write"} =>
       q.kind \in {"uninstall", "restore"} /\ q.mod \in Origins
  /\ q.kind = "restore" => q.mod \in Origins
  /\ q.pc \in {"resolve", "act"} \/ q.task = "admin" => q.kind \in Asked
  /\ q.pc \in {"list", "browse"} \/ q.task = "list" => q.kind = "list" /\ q.task = "list"
  /\ q.at # 0 => q.pc = "load"
  /\ q.pc = "boot" => q.kind = "start" /\ q.todo \subseteq Origins

(* The installations that a job names are among the n first. *)
Begun(q, n) ==
  /\ q.kind \in Placing => q.serial \in 1 .. n
  /\ q.at \in 0 .. n
  /\ \A m \in Modules : q.entries[m] \in 0 .. n

Sound(q, n) == q \in Records /\ Stands(q) /\ Begun(q, n)

JobsSound == JobsTyped /\ \A j \in Jobs : Sound(job[j], installs)

(* Every installation has a URL: one at most for each request, and for each
   module of the image at each start. *)
Left(q) == IF q.pc = "boot" THEN Cardinality(q.todo) ELSE 0

Counted ==
  /\ arrivals \in 0 .. MaxArrivals /\ incidents \in 0 .. MaxIncidents
  /\ installs + Left(job["graph"]) <= Cardinality(Origins) * (incidents + 1) + arrivals
  /\ DOMAIN loaded = 1 .. Cardinality(Origins) * (MaxIncidents + 1) + MaxArrivals

TypeInv == installs \in Nat /\ DataTyped /\ JobsSound /\ Counted

LEMMA GraphIsJob == "graph" \in Jobs /\ \A r \in Requests : r \in Jobs /\ r # "graph"
BY Distinct DEF Jobs

(* The idle and the starting job. *)
LEMMA IdleSound ==
  ASSUME NEW n \in Nat
  PROVE  Sound(Idle, n) /\ Sound(Starting, n)
<1> DEFINE some == CHOOSE m \in Modules : TRUE
<1>1. some \in Modules
  OBVIOUS
<1>2. Unread \in [Modules -> Nat] /\ \A m \in Modules : Unread[m] = 0
  BY DEF Unread
<1>3. Idle = [pc |-> "idle", kind |-> "none", mod |-> some, serial |-> 0,
              task |-> "none", todo |-> {}, entries |-> Unread, refused |-> {}, seen |-> {},
              at |-> 0, failed |-> FALSE, next |-> {}, quiet |-> {}]
  BY DEF Idle
<1> HIDE DEF some
<1>4. Idle \in Records
  BY <1>1, <1>2, <1>3 DEF Records, Steps, Kinds
<1>5. Starting \in Records /\ Starting.pc = "boot" /\ Starting.kind = "start"
      /\ Starting.todo = Origins /\ Starting.task = "none" /\ Starting.at = 0
      /\ Starting.entries = Unread
  <2>1. Starting \in Records
    BY <1>4 DEF Starting, Records, Steps, Kinds
  <2>2. /\ Starting.pc = "boot" /\ Starting.kind = "start" /\ Starting.todo = Origins
        /\ Starting.task = Idle.task /\ Starting.at = Idle.at
        /\ Starting.entries = Idle.entries
    BY <1>4 DEF Starting, Records
  <2> QED BY <1>3, <2>1, <2>2
<1>6. Stands(Idle) /\ Begun(Idle, n)
  BY <1>2, <1>3 DEF Stands, Begun, Placing, Asked
<1>7. Stands(Starting) /\ Begun(Starting, n)
  BY <1>2, <1>5 DEF Stands, Begun, Placing, Asked
<1> QED BY <1>4, <1>5, <1>6, <1>7 DEF Sound

LEMMA IdleFields ==
  /\ Idle \in Records
  /\ Idle.task = "none" /\ Idle.at = 0 /\ \A m \in Modules : Idle.entries[m] = 0
<1>1. Idle \in Records
  BY IdleSound DEF Sound
<1>2. Idle.task = "none" /\ Idle.at = 0 /\ Idle.entries = Unread
  BY DEF Idle
<1>3. \A m \in Modules : Unread[m] = 0
  BY DEF Unread
<1> QED BY <1>1, <1>2, <1>3

(* One job moves. *)
LEMMA Placed ==
  ASSUME JobsSound, installs \in Nat, installs' \in Nat, installs <= installs',
         NEW j \in Jobs, NEW q, Sound(q, installs'), Goes(j, q)
  PROVE  JobsSound'
<1>1. job' \in [Jobs -> Records]
  BY DEF JobsSound, JobsTyped, Goes, Sound
<1>2. ASSUME NEW k \in Jobs PROVE Sound(job'[k], installs')
  <2>1. CASE k = j
    BY <2>1 DEF JobsSound, JobsTyped, Goes
  <2>2. CASE k # j
    <3>1. job'[k] = job[k]
      BY <2>2 DEF JobsSound, JobsTyped, Goes
    <3>2. Sound(job[k], installs)
      BY DEF JobsSound
    <3> QED BY <3>1, <3>2 DEF Sound, Begun
  <2> QED BY <2>1, <2>2
<1> QED BY <1>1, <1>2 DEF JobsSound, JobsTyped

LEMMA LeftCounts ==
  ASSUME JobsSound
  PROVE  Left(job["graph"]) \in Nat
<1>1. job["graph"].pc = "boot" => job["graph"].todo \subseteq Origins
  BY GraphIsJob DEF JobsSound, Sound, Stands
<1>2. job["graph"].pc = "boot" => IsFiniteSet(job["graph"].todo)
  BY <1>1, FS_Subset
<1> QED BY <1>2, FS_CardinalityType DEF Left

LEMMA Room ==
  ASSUME NEW c \in Nat, NEW i \in Nat, NEW k \in Nat, i <= k
  PROVE  c * (i + 1) \in Nat /\ c * (k + 1) \in Nat /\ c * (i + 1) <= c * (k + 1)
         /\ c * (i + 1 + 1) = c * (i + 1) + c
<1>1. PICK d \in Nat : k = i + d
  BY i <= k, k - i \in Nat
<1>2. c * (i + 1) \in Nat /\ c * d \in Nat /\ c * (k + 1) = c * (i + 1) + c * d
  BY <1>1
<1> QED BY <1>1, <1>2

(* As long as the process is not starting anew, the count goes on. *)
LEMMA CountGoesOn ==
  ASSUME TypeInv, JobsSound', installs' \in Nat,
         \/ installs' = installs /\ arrivals' = arrivals
         \/ installs' <= installs + 1 /\ arrivals' = arrivals + 1 /\ arrivals < MaxArrivals,
         UNCHANGED incidents \/ Incident,
         job'["graph"].pc = "boot" => job'["graph"] = job["graph"],
         DOMAIN loaded' = DOMAIN loaded
  PROVE  Counted'
<1>0. Cardinality(Origins) \in Nat
  BY FS_CardinalityType
<1>1. Left(job'["graph"]) \in Nat /\ Left(job["graph"]) \in Nat
  <2>1. Left(job["graph"]) \in Nat
    BY LeftCounts DEF TypeInv
  <2>2. job'["graph"].pc = "boot" => Left(job'["graph"]) = Left(job["graph"])
    BY DEF Left
  <2> QED BY <2>1, <2>2 DEF Left
<1>2. Left(job'["graph"]) <= Left(job["graph"])
  BY <1>1 DEF Left
<1>3. incidents' \in 0 .. MaxIncidents /\ incidents <= incidents'
  BY DEF Incident, TypeInv, Counted
<1>4. Cardinality(Origins) * (incidents + 1) \in Nat
      /\ Cardinality(Origins) * (incidents' + 1) \in Nat
      /\ Cardinality(Origins) * (incidents + 1) <= Cardinality(Origins) * (incidents' + 1)
  <2>1. incidents \in Nat /\ incidents' \in Nat
    BY <1>3 DEF TypeInv, Counted
  <2> QED BY <1>0, <1>3, <2>1, Room
<1> DEFINE K == Cardinality(Origins) * (incidents + 1)
           L == Cardinality(Origins) * (incidents' + 1)
           a == Left(job["graph"])
           b == Left(job'["graph"])
<1>5. installs \in Nat /\ arrivals \in 0 .. MaxArrivals /\ installs + a <= K + arrivals
  BY DEF TypeInv, Counted
<1>6. arrivals' \in 0 .. MaxArrivals /\ installs' + b <= L + arrivals'
  <2> K \in Nat /\ L \in Nat /\ K <= L /\ a \in Nat /\ b \in Nat /\ b <= a
    BY <1>1, <1>2, <1>4
  <2> HIDE DEF K, L, a, b
  <2> QED BY <1>5
<1> QED BY <1>3, <1>6 DEF TypeInv, Counted, Left

(* There is a URL for every installation. *)
LEMMA HasURL ==
  ASSUME TypeInv
  PROVE  1 .. installs \subseteq DOMAIN loaded
<1>0. Cardinality(Origins) \in Nat
  BY FS_CardinalityType
<1>1. Left(job["graph"]) \in Nat
  BY LeftCounts DEF TypeInv
<1>2. incidents \in 0 .. MaxIncidents
  BY DEF TypeInv, Counted
<1>3. Cardinality(Origins) * (incidents + 1) \in Nat
      /\ Cardinality(Origins) * (MaxIncidents + 1) \in Nat
      /\ Cardinality(Origins) * (incidents + 1) <= Cardinality(Origins) * (MaxIncidents + 1)
  <2>1. incidents \in Nat /\ MaxIncidents \in Nat /\ incidents <= MaxIncidents
    BY <1>2
  <2> QED BY <1>0, <2>1, Room
<1> DEFINE K == Cardinality(Origins) * (incidents + 1)
           L == Cardinality(Origins) * (MaxIncidents + 1)
           a == Left(job["graph"])
<1>4. installs \in Nat /\ arrivals \in 0 .. MaxArrivals /\ installs + a <= K + arrivals
      /\ DOMAIN loaded = 1 .. L + MaxArrivals
  BY DEF TypeInv, Counted
<1>5. installs <= L + MaxArrivals
  <2> K \in Nat /\ L \in Nat /\ K <= L /\ a \in Nat
    BY <1>1, <1>3
  <2> HIDE DEF K, L, a
  <2> QED BY <1>4
<1>6. L \in Nat
  BY <1>3
<1> HIDE DEF L
<1> QED BY <1>4, <1>5, <1>6

(* What a step leaves to show when one job moves and nothing is installed. *)
LEMMA Moved ==
  ASSUME TypeInv, NEW j \in Jobs, NEW q, Sound(q, installs), q.pc # "boot", Goes(j, q),
         installs' = installs, arrivals' = arrivals,
         incidents' = incidents \/ Incident,
         DOMAIN loaded' = DOMAIN loaded, DataTyped'
  PROVE  TypeInv'
<1>1. JobsSound'
  BY Placed DEF TypeInv
<1>2. job'["graph"].pc = "boot" => job'["graph"] = job["graph"]
  BY GraphIsJob DEF TypeInv, JobsSound, JobsTyped, Goes
<1>3. Counted'
  BY <1>1, <1>2, CountGoesOn DEF TypeInv
<1> QED BY <1>1, <1>3 DEF TypeInv

LEMMA QueuedSound ==
  ASSUME NEW n \in Nat, NEW q, Sound(q, n), q.at = 0, NEW task \in {"sync", "admin"},
         task = "admin" => q.kind \in Asked, NEW scope \in SUBSET Modules
  PROVE  /\ Sound(Queued(q, task, scope), n)
         /\ Queued(q, task, scope).pc = "queued"
<1>1. Unread \in [Modules -> Nat] /\ \A m \in Modules : Unread[m] = 0
  BY DEF Unread
<1>2. Queued(q, task, scope) \in Records
  BY <1>1 DEF Sound, Records, Queued, Steps
<1>3. /\ Queued(q, task, scope).pc = "queued" /\ Queued(q, task, scope).kind = q.kind
      /\ Queued(q, task, scope).mod = q.mod /\ Queued(q, task, scope).task = task
      /\ Queued(q, task, scope).at = 0 /\ Queued(q, task, scope).serial = q.serial
      /\ Queued(q, task, scope).entries = Unread
  BY DEF Sound, Records, Queued
<1> QED BY <1>1, <1>2, <1>3 DEF Sound, Stands, Begun

(* A job that is not in the loading of a module imports nothing. *)
LEMMA NotAt ==
  ASSUME TypeInv, NEW j \in Jobs
  PROVE  /\ Sound(job[j], installs)
         /\ job[j].pc # "load" => job[j].at = 0
         /\ installs \in Nat
BY DEF TypeInv, JobsSound, Sound, Stands

(* The job does nothing but go to another step. *)
LEMMA GoesToStep ==
  ASSUME TypeInv, NEW j \in Jobs, NEW p \in Steps, job[j].pc # "load",
         Stands([job[j] EXCEPT !.pc = p])
  PROVE  Sound([job[j] EXCEPT !.pc = p], installs)
<1>1. Sound(job[j], installs)
  BY NotAt
<1> QED BY <1>1 DEF Sound, Records, Begun

LEMMA InitTyped == Init => TypeInv
<1> SUFFICES ASSUME Init PROVE TypeInv
  OBVIOUS
<1>1. installs = 0 /\ 0 \in Nat
  BY DEF Init
<1>2. \A j \in Jobs : Sound(job[j], installs)
  BY <1>1, IdleSound DEF Init
<1>3. JobsSound
  BY <1>2 DEF Init, JobsSound, JobsTyped, Sound
<1>4. DataTyped
  BY DEF Init, DataTyped, Unread
<1>5. Counted
  <2>1. job["graph"] = Starting
    BY GraphIsJob DEF Init
  <2>2. Left(job["graph"]) = Cardinality(Origins)
    BY <2>1 DEF Left, Starting, Idle
  <2>3. Cardinality(Origins) \in Nat
    BY FS_CardinalityType
  <2>4. incidents \in {0, 1} /\ incidents <= MaxIncidents
    BY DEF Init
  <2>5. Cardinality(Origins) <= Cardinality(Origins) * (incidents + 1)
    <3>1. PICK c \in Nat : c = Cardinality(Origins)
      BY <2>3
    <3>2. c * (0 + 1) = c /\ c * (1 + 1) = c + c
      OBVIOUS
    <3>3. c <= c * (incidents + 1)
      BY <2>4, <3>2
    <3> QED BY <3>1, <3>3
  <2> QED BY <2>2, <2>3, <2>4, <2>5 DEF Init, Counted
<1> QED BY <1>1, <1>3, <1>4, <1>5 DEF TypeInv

LEMMA BootstrapTyped ==
  ASSUME TypeInv, NEW m \in Origins, Bootstrap(m)
  PROVE  TypeInv'
<1> DEFINE q == [job["graph"] EXCEPT !.todo = @ \ {m}]
<1>0. "graph" \in Jobs /\ Sound(job["graph"], installs) /\ installs \in Nat
      /\ installs' \in Nat /\ installs <= installs' /\ installs' <= installs + 1
  BY GraphIsJob, NotAt DEF Bootstrap, packages
<1>1. Sound(q, installs')
  BY <1>0 DEF Bootstrap, Sound, Records, Stands, Begun
<1>2. JobsSound'
  BY <1>0, <1>1, Placed DEF TypeInv, Bootstrap
<1>3. DataTyped'
  BY <1>0 DEF Bootstrap, TypeInv, DataTyped, Serials, packages, memory, removals, Is
<1>4. job'["graph"].pc = "boot" /\ job'["graph"].todo = job["graph"].todo \ {m}
      /\ job["graph"].pc = "boot" /\ m \in job["graph"].todo
  BY <1>0 DEF Bootstrap, Goes, TypeInv, JobsSound, JobsTyped, Sound, Records
<1>5. Left(job["graph"]) \in Nat /\ Left(job'["graph"]) = Left(job["graph"]) - 1
  <2>1. IsFiniteSet(job["graph"].todo)
    BY <1>0, <1>4, FS_Subset DEF Sound, Stands
  <2> DEFINE S == job["graph"].todo
  <2>2. Left(job["graph"]) = Cardinality(S) /\ Left(job'["graph"]) = Cardinality(S \ {m})
    BY <1>4 DEF Left
  <2>3. Cardinality(S) \in Nat
    BY <2>1, FS_CardinalityType
  <2>4. Cardinality(S \ {m}) = Cardinality(S) - 1
    BY <1>4, <2>1, FS_RemoveElement
  <2> QED BY <2>2, <2>3, <2>4
<1>6. Counted'
  <2>1. PICK K \in Nat : K = Cardinality(Origins) * (incidents + 1)
    <3>1. Cardinality(Origins) \in Nat
      BY FS_CardinalityType
    <3>2. incidents \in Nat
      BY DEF TypeInv, Counted
    <3> QED BY <3>1, <3>2
  <2>2. PICK a \in Nat : a = Left(job["graph"])
    BY <1>5
  <2>3. PICK b : b = Left(job'["graph"])
    OBVIOUS
  <2>4. arrivals \in Nat /\ installs + a <= K + arrivals
    BY <2>1, <2>2 DEF TypeInv, Counted
  <2>5. installs' + b <= K + arrivals
    BY <1>0, <1>5, <2>2, <2>3, <2>4
  <2> QED BY <2>1, <2>3, <2>5 DEF Bootstrap, TypeInv, Counted, bounds, memory, Left
<1> QED BY <1>0, <1>2, <1>3, <1>6 DEF TypeInv

LEMMA BootstrapFailsTyped ==
  ASSUME TypeInv, NEW m \in Origins, BootstrapFails(m)
  PROVE  TypeInv'
<1> DEFINE q == [job["graph"] EXCEPT !.todo = @ \ {m}]
<1>0. "graph" \in Jobs /\ Sound(job["graph"], installs) /\ installs \in Nat
  BY GraphIsJob, NotAt
<1>1. Sound(q, installs)
  BY <1>0 DEF Sound, Records, Stands, Begun
<1>2. JobsSound'
  BY <1>0, <1>1, Placed DEF TypeInv, BootstrapFails
<1>3. DataTyped'
  BY DEF BootstrapFails, TypeInv, DataTyped, Serials, memory, removals
<1>4. job'["graph"].pc = "boot" /\ job'["graph"].todo = job["graph"].todo \ {m}
      /\ job["graph"].pc = "boot"
  BY <1>0 DEF BootstrapFails, Goes, TypeInv, JobsSound, JobsTyped, Sound, Records
<1>5. Left(job'["graph"]) \in Nat /\ Left(job'["graph"]) <= Left(job["graph"])
  <2>1. IsFiniteSet(job["graph"].todo)
    BY <1>0, <1>4, FS_Subset DEF Sound, Stands
  <2>2. Cardinality(job["graph"].todo \ {m}) <= Cardinality(job["graph"].todo)
        /\ Cardinality(job["graph"].todo \ {m}) \in Nat
    BY <2>1, FS_Subset, FS_CardinalityType
  <2> QED BY <1>4, <2>2 DEF Left
<1>6. Counted'
  <2>1. PICK c \in Nat : c = Cardinality(Origins)
    BY FS_CardinalityType
  <2>2. incidents \in Nat /\ incidents' = incidents + 1 /\ incidents' \in 0 .. MaxIncidents
        /\ arrivals' = arrivals
    BY DEF BootstrapFails, Incident, TypeInv, Counted
  <2>3. PICK K \in Nat : K = c * (incidents + 1)
    BY <2>2
  <2>4. c * (incidents' + 1) = K + c
    BY <2>1, <2>2, <2>3, Room
  <2>5. PICK a \in Nat : a = Left(job["graph"])
    BY LeftCounts DEF TypeInv
  <2>6. PICK b \in Nat : b = Left(job'["graph"])
    BY <1>5
  <2>7. arrivals \in Nat /\ installs + a <= K + arrivals /\ installs' = installs
    BY <2>1, <2>3, <2>5 DEF TypeInv, Counted, BootstrapFails
  <2>8. installs + b <= K + c + arrivals
    BY <1>0, <1>5, <2>5, <2>6, <2>7, <2>1
  <2>9. installs' + Left(job'["graph"]) <= Cardinality(Origins) * (incidents' + 1) + arrivals'
    BY <2>1, <2>2, <2>4, <2>6, <2>7, <2>8
  <2> QED BY <2>2, <2>9 DEF BootstrapFails, TypeInv, Counted, memory, Left
<1> QED BY <1>0, <1>2, <1>3, <1>6 DEF TypeInv, BootstrapFails

LEMMA BootUnreadTyped ==
  ASSUME TypeInv, BootUnread
  PROVE  TypeInv'
<1> DEFINE q == [job["graph"] EXCEPT !.failed = TRUE]
<1>0. "graph" \in Jobs /\ Sound(job["graph"], installs) /\ installs \in Nat
      /\ job["graph"].pc = "boot" /\ UNCHANGED <<installs, arrivals>> /\ loaded' = loaded
  BY GraphIsJob, NotAt DEF BootUnread, packages, memory, Incident
<1>1. Sound(q, installs) /\ q.pc = "boot" /\ q.todo = job["graph"].todo
  BY <1>0 DEF Sound, Records, Stands, Begun
<1>2. Goes("graph", q)
  BY DEF BootUnread
<1> HIDE DEF q
<1>3a. JobsSound'
  BY <1>0, <1>1, <1>2, Placed DEF TypeInv
<1>3b. job'["graph"] = q
  BY <1>0, <1>2 DEF TypeInv, Goes, JobsSound, JobsTyped
<1>3. JobsSound' /\ job'["graph"] = q
  BY <1>3a, <1>3b
<1>4. DataTyped'
  BY DEF BootUnread, TypeInv, DataTyped, Serials, packages, memory
<1>5. Left(job'["graph"]) = Left(job["graph"])
  BY <1>0, <1>1, <1>3 DEF Left
<1>6. Counted'
  <2>1. PICK c \in Nat : c = Cardinality(Origins)
    BY FS_CardinalityType
  <2>2. incidents \in Nat /\ incidents' = incidents + 1 /\ incidents' \in 0 .. MaxIncidents
    BY DEF BootUnread, Incident, TypeInv, Counted
  <2>3. PICK K \in Nat : K = c * (incidents + 1)
    BY <2>2
  <2>4. c * (incidents' + 1) = K + c
    BY <2>1, <2>2, <2>3, Room
  <2>5. PICK a \in Nat : a = Left(job["graph"])
    BY LeftCounts DEF TypeInv
  <2>6. arrivals \in Nat /\ installs + a <= K + arrivals
    BY <2>1, <2>3, <2>5 DEF TypeInv, Counted
  <2>7. installs + a <= K + c + arrivals
    BY <1>0, <2>1, <2>3, <2>5, <2>6
  <2>8. installs' + Left(job'["graph"]) <= Cardinality(Origins) * (incidents' + 1) + arrivals'
    BY <1>0, <1>5, <2>1, <2>4, <2>5, <2>7
  <2> QED BY <1>0, <2>2, <2>8 DEF TypeInv, Counted, Left
<1> QED BY <1>0, <1>3, <1>4, <1>6 DEF TypeInv

(* A step of a job that only touches jobs and data. *)
LEMMA BootedTyped ==
  ASSUME TypeInv, Booted
  PROVE  TypeInv'
<1>0. "graph" \in Jobs /\ Sound(job["graph"], installs) /\ installs \in Nat
      /\ job["graph"].at = 0
  BY GraphIsJob, NotAt DEF Booted
<1>1. DataTyped'
  BY DEF Booted, TypeInv, DataTyped, Serials, packages, memory, removals, bounds
<1> QED BY <1>0, <1>1, QueuedSound, Moved DEF Booted, packages, memory, bounds

LEMMA GraphTyped ==
  ASSUME TypeInv, Graph
  PROVE  TypeInv'
<1>0. "graph" \in Jobs /\ installs \in Nat
  BY GraphIsJob DEF TypeInv
<1>1. Sound([Idle EXCEPT !.kind = "graph"], installs) /\ [Idle EXCEPT !.kind = "graph"].at = 0
  <2> DEFINE q == [Idle EXCEPT !.kind = "graph"]
  <2>1. Idle \in Records /\ \A m \in Modules : Idle.entries[m] \in 0 .. installs
    BY <1>0, IdleSound DEF Sound, Begun
  <2>2. q \in Records
    BY <2>1 DEF Records, Kinds
  <2>3. /\ q.pc = "idle" /\ q.kind = "graph" /\ q.task = "none" /\ q.at = 0
        /\ q.entries = Idle.entries
    BY DEF Idle
  <2> HIDE DEF q
  <2>4. Stands(q)
    BY <2>3 DEF Stands
  <2>5. Begun(q, installs)
    BY <1>0, <2>1, <2>3 DEF Begun, Placing
  <2>6. Sound(q, installs) /\ q.at = 0
    BY <2>2, <2>3, <2>4, <2>5 DEF Sound
  <2> QED BY <2>6 DEF q
<1>2. DataTyped'
  BY DEF Graph, TypeInv, DataTyped, Serials, packages, memory, removals, bounds
<1> QED BY <1>0, <1>1, <1>2, QueuedSound, Moved DEF Graph, packages, memory, bounds

(* A request arrives, perhaps with a package. *)
LEMMA ArriveTyped ==
  ASSUME TypeInv, NEW r \in Requests, NEW m \in Modules,
         \/ Install(r, m) \/ Restore(r, m) \/ List(r)
         \/ \E kind \in Asked : Ask(r, m, kind)
  PROVE  TypeInv'
<1>0. r \in Jobs /\ r # "graph" /\ "graph" \in Jobs /\ installs \in Nat /\ installs' \in Nat
      /\ installs <= installs' /\ installs' <= installs + 1
  <2>1. installs' = installs \/ installs' = installs + 1
    BY DEF Install, Restore, Ask, List
  <2> QED BY <2>1, GraphIsJob DEF TypeInv
<1>1. \E q : Sound(q, installs') /\ Arrive(r, q)
  <2>1. CASE Install(r, m)
    <3>0. PICK q : q = [Idle EXCEPT !.pc = "clear", !.kind = "install", !.mod = m,
                                    !.serial = installs']
      OBVIOUS
    <3>1. installs' \in 1 .. installs'
      BY <1>0, <2>1 DEF Install
    <3>2. Sound(q, installs')
      <4>1. "clear" \in Steps /\ "install" \in Kinds
        BY DEF Steps, Kinds
      <4>2. q \in Records
        BY <1>0, <3>0, <4>1, IdleFields DEF Records
      <4>3. /\ q.pc = "clear" /\ q.kind = "install" /\ q.mod = m /\ q.serial = installs'
            /\ q.task = Idle.task /\ q.at = Idle.at /\ q.entries = Idle.entries
        BY <3>0, IdleFields DEF Records
      <4> QED BY <1>0, <3>1, <4>2, <4>3, IdleFields DEF Sound, Stands, Begun, Placing
    <3> QED BY <2>1, <3>0, <3>2 DEF Install
  <2>2. CASE Restore(r, m)
    <3>0. PICK q : q = [Idle EXCEPT !.pc = "clear", !.kind = "restore", !.mod = m,
                                    !.serial = installs']
      OBVIOUS
    <3>1. installs' \in 1 .. installs'
      BY <1>0, <2>2 DEF Restore
    <3>2. Sound(q, installs')
      <4>1. "clear" \in Steps /\ "restore" \in Kinds /\ m \in Origins
        BY <2>2 DEF Steps, Kinds, Restore
      <4>2. q \in Records
        BY <1>0, <3>0, <4>1, IdleFields DEF Records
      <4>3. /\ q.pc = "clear" /\ q.kind = "restore" /\ q.mod = m /\ q.serial = installs'
            /\ q.task = Idle.task /\ q.at = Idle.at /\ q.entries = Idle.entries
        BY <3>0, IdleFields DEF Records
      <4> QED BY <1>0, <3>1, <4>1, <4>2, <4>3, IdleFields DEF Sound, Stands, Begun, Placing
    <3> QED BY <2>2, <3>0, <3>2 DEF Restore
  <2>3. ASSUME NEW kind \in Asked, Ask(r, m, kind) PROVE \E q : Sound(q, installs') /\ Arrive(r, q)
    <3> DEFINE q == [Idle EXCEPT !.pc = "resolve", !.kind = kind, !.mod = m]
    <3>0. kind \in Kinds /\ kind \notin Placing /\ kind # "restore" /\ kind # "list"
      BY DEF Asked, Kinds, Placing
    <3>1. q \in Records
      BY <1>0, <3>0, IdleSound DEF Sound, Records, Steps
    <3>2. /\ q.pc = "resolve" /\ q.kind = kind /\ q.at = Idle.at /\ q.entries = Idle.entries
          /\ q.task = Idle.task
      BY <1>0, IdleSound DEF Sound, Records
    <3> HIDE DEF q
    <3>3. Stands(q)
      BY <3>0, <3>2, IdleFields DEF Stands
    <3>4. Sound(q, installs')
      BY <1>0, <3>0, <3>1, <3>2, <3>3, IdleFields DEF Sound, Begun
    <3> QED BY <2>3, <3>4 DEF Ask, q
  <2>4. CASE List(r)
    <3>0. PICK q : q = [Idle EXCEPT !.pc = "list", !.kind = "list", !.task = "list",
                                    !.todo = {n \in Modules : registry[n] = 0}]
      OBVIOUS
    <3>1. Sound(q, installs')
      <4>1. "list" \in Steps /\ "list" \in Kinds
            /\ {n \in Modules : registry[n] = 0} \in SUBSET Modules
        BY DEF Steps, Kinds
      <4>2. q \in Records
        BY <3>0, <4>1, IdleFields DEF Records
      <4>3. /\ q.pc = "list" /\ q.kind = "list" /\ q.task = "list"
            /\ q.at = Idle.at /\ q.entries = Idle.entries
        BY <3>0, IdleFields DEF Records
      <4> QED BY <1>0, <4>2, <4>3, IdleFields DEF Sound, Stands, Begun, Placing, Asked
    <3> QED BY <2>4, <3>0, <3>1 DEF List
  <2> QED BY <2>1, <2>2, <2>3, <2>4
<1>2. PICK q : Sound(q, installs') /\ Arrive(r, q)
  BY <1>1
<1>3. JobsSound'
  BY <1>0, <1>2, Placed DEF TypeInv, Arrive
<1>4. DataTyped'
  <2>1. bad' \subseteq bad \cup {installs + 1} /\ (bad' # bad => installs' = installs + 1)
    BY DEF Install, Restore, Ask, List
  <2>2. UNCHANGED <<disk, loaded, registry, paused, removed, dropped, blurred, pass, stale>>
    BY <1>2 DEF Arrive, memory, removals
  <2>3. bad' \subseteq 1 .. installs'
    BY <1>0, <2>1 DEF TypeInv, DataTyped, Serials
  <2>4. registry' \in [Modules -> ((1 .. installs') \ bad') \cup {0}]
    BY <1>0, <2>1, <2>2 DEF TypeInv, DataTyped, Serials
  <2> QED BY <1>0, <2>2, <2>3, <2>4 DEF TypeInv, DataTyped, Serials
<1>5. job'["graph"] = job["graph"]
  BY <1>0, <1>2 DEF Arrive, Goes, TypeInv, JobsSound, JobsTyped
<1>6. installs' = installs \/ installs' = installs + 1
  BY DEF Install, Restore, Ask, List
<1>7. Counted'
  BY <1>0, <1>2, <1>3, <1>5, <1>6, CountGoesOn DEF Arrive, memory
<1> QED BY <1>0, <1>3, <1>4, <1>7 DEF TypeInv

(* One job moves, and the others forget that m was on pause. *)
LEMMA MovedUnpaused ==
  ASSUME TypeInv, NEW j \in Jobs, NEW m, NEW q, Sound(q, installs), q.pc # "boot",
         job' = [Unpaused(m) EXCEPT ![j] = q],
         installs' = installs, arrivals' = arrivals, incidents' = incidents,
         DOMAIN loaded' = DOMAIN loaded, DataTyped'
  PROVE  TypeInv'
<1>0. installs \in Nat /\ \A k \in Jobs : Sound(job[k], installs)
  BY DEF TypeInv, JobsSound
<1>1. ASSUME NEW k \in Jobs
      PROVE  /\ Sound(job'[k], installs)
             /\ k # j => job'[k].pc = job[k].pc /\ job'[k].todo = job[k].todo
  <2>1. Sound([job[k] EXCEPT !.quiet = @ \ {m}], installs)
        /\ [job[k] EXCEPT !.quiet = @ \ {m}].pc = job[k].pc
        /\ [job[k] EXCEPT !.quiet = @ \ {m}].todo = job[k].todo
    BY <1>0 DEF Sound, Records, Stands, Begun
  <2>2. job'[k] = IF k = j THEN q ELSE [job[k] EXCEPT !.quiet = @ \ {m}]
    BY DEF Unpaused
  <2> QED BY <2>1, <2>2
<1>2. job' \in [Jobs -> Records]
  BY <1>1 DEF Unpaused, Sound
<1>3. JobsSound'
  BY <1>1, <1>2 DEF JobsSound, JobsTyped
<1>4. Left(job'["graph"]) \in Nat /\ Left(job'["graph"]) <= Left(job["graph"])
  <2>1. Left(job'["graph"]) = Left(job["graph"]) \/ Left(job'["graph"]) = 0
    <3>1. CASE j = "graph"
      <4>1. job'["graph"] = q
        BY <3>1, GraphIsJob DEF Unpaused
      <4> QED BY <4>1 DEF Left
    <3>2. CASE j # "graph"
      BY <3>2, <1>1, GraphIsJob DEF Left
    <3> QED BY <3>1, <3>2
  <2>2. Left(job["graph"]) \in Nat
    BY LeftCounts DEF TypeInv
  <2> QED BY <2>1, <2>2
<1>5. Counted'
  <2>1. PICK a \in Nat : a = Left(job["graph"])
    BY LeftCounts DEF TypeInv
  <2>2. PICK b \in Nat : b = Left(job'["graph"])
    BY <1>4
  <2>3. PICK c \in Nat : c = Cardinality(Origins)
    BY FS_CardinalityType
  <2>4. PICK K \in Nat : K = c * (incidents + 1)
    <3>1. incidents \in Nat
      BY DEF TypeInv, Counted
    <3> QED BY <2>3, <3>1
  <2>5. arrivals \in Nat /\ installs + a <= K + arrivals
    BY <2>1, <2>3, <2>4 DEF TypeInv, Counted
  <2>6. installs + b <= K + arrivals
    BY <1>0, <1>4, <2>1, <2>2, <2>5
  <2> QED BY <2>2, <2>3, <2>4, <2>6 DEF TypeInv, Counted, Left
<1> QED BY <1>3, <1>5 DEF TypeInv

LEMMA ResolveTyped ==
  ASSUME TypeInv, NEW j \in Jobs, Resolve(j)
  PROVE  TypeInv'
<1>0. Sound(job[j], installs) /\ installs \in Nat /\ job[j].at = 0 /\ job[j].pc = "resolve"
      /\ job[j].kind \in Asked /\ job[j].mod \in Modules
  BY NotAt DEF Resolve, Sound, Stands, Records
<1>1. DataTyped'
  BY DEF Resolve, TypeInv, DataTyped, Serials, packages, memory, removals, bounds
<1>2. CASE registry[job[j].mod] # 0
  <2>1. Sound([job[j] EXCEPT !.pc = "act"], installs) /\ [job[j] EXCEPT !.pc = "act"].pc # "boot"
    BY <1>0 DEF Sound, Records, Steps, Stands, Begun
  <2> QED BY <1>1, <1>2, <2>1, Moved DEF Resolve, packages, memory, bounds
<1>3. CASE registry[job[j].mod] = 0
  <2>1. Sound(Queued(job[j], "admin", {job[j].mod}), installs)
        /\ Queued(job[j], "admin", {job[j].mod}).pc # "boot"
    BY <1>0, QueuedSound
  <2> QED BY <1>1, <1>3, <2>1, Moved DEF Resolve, packages, memory, bounds
<1> QED BY <1>2, <1>3

LEMMA ActTyped ==
  ASSUME TypeInv, NEW j \in Jobs, Act(j)
  PROVE  TypeInv'
<1> DEFINE q == job[j]
           m == job[j].mod
<1>0. Sound(q, installs) /\ installs \in Nat /\ q.at = 0 /\ q.pc = "act"
      /\ q.kind \in Asked /\ m \in Modules
  BY NotAt DEF Act, Sound, Stands, Records
<1>1. UNCHANGED <<packages, memory, removals, pass, stale, bounds>>
  BY DEF Act
<1>2. ASSUME paused' \subseteq Modules PROVE DataTyped'
  BY <1>1, <1>2 DEF TypeInv, DataTyped, Serials, packages, memory, removals, bounds
<1>3. paused \subseteq Modules
  BY DEF TypeInv, DataTyped
<1>4. Sound(Idle, installs) /\ Idle.pc # "boot"
  BY <1>0, IdleSound DEF Idle
<1>5. Sound(Queued(q, "sync", {m}), installs) /\ Queued(q, "sync", {m}).pc # "boot"
  BY <1>0, QueuedSound
<1>6. CASE q.kind = "uninstall"
  <2>1. Sound([q EXCEPT !.pc = "clear"], installs) /\ [q EXCEPT !.pc = "clear"].pc # "boot"
    BY <1>0, <1>6 DEF Sound, Records, Steps, Stands, Begun, Placing
  <2>2. Goes(j, Idle) \/ Goes(j, [q EXCEPT !.pc = "clear"])
    BY <1>6 DEF Act
  <2>3. paused' = paused
    BY <1>6 DEF Act
  <2> QED BY <1>1, <1>2, <1>3, <1>4, <2>1, <2>2, <2>3, Moved DEF packages, memory, bounds
<1>7. CASE q.kind = "enable"
  <2>1. paused' = paused \ {m} /\ job' = [Unpaused(m) EXCEPT ![j] = Queued(q, "sync", {m})]
    BY <1>7 DEF Act
  <2> QED BY <1>1, <1>2, <1>3, <1>5, <2>1, MovedUnpaused DEF packages, memory, bounds
<1>8. CASE q.kind = "disable"
  <2>1. paused' = paused \cup {m} /\ Goes(j, Queued(q, "sync", {m}))
    BY <1>8 DEF Act
  <2> QED BY <1>0, <1>1, <1>2, <1>3, <1>5, <2>1, Moved DEF packages, memory, bounds
<1>9. CASE q.kind = "clear"
  <2>1. Sound([q EXCEPT !.pc = "repause"], installs) /\ [q EXCEPT !.pc = "repause"].pc # "boot"
    BY <1>0, <1>9 DEF Sound, Records, Steps, Stands, Begun
  <2>2. /\ paused' = paused \ {m}
        /\ \/ job' = [Unpaused(m) EXCEPT ![j] = [q EXCEPT !.pc = "repause"]]
           \/ job' = [Unpaused(m) EXCEPT ![j] = Idle]
    BY <1>9 DEF Act
  <2> QED BY <1>1, <1>2, <1>3, <1>4, <2>1, <2>2, MovedUnpaused DEF packages, memory, bounds
<1>10. CASE q.kind = "consult"
  <2>1. paused' = paused /\ Goes(j, Idle)
    BY <1>10 DEF Act
  <2> QED BY <1>1, <1>2, <1>3, <1>4, <2>1, Moved DEF packages, memory, bounds
<1> QED BY <1>0, <1>6, <1>7, <1>8, <1>9, <1>10 DEF Asked

LEMMA PauseTyped ==
  ASSUME TypeInv, NEW j \in Jobs, Repause(j) \/ ClearConfig(j)
  PROVE  TypeInv'
<1>0. installs \in Nat /\ job[j].mod \in Modules /\ paused \subseteq Modules
  BY NotAt DEF TypeInv, DataTyped, Sound, Records
<1>1. Sound(Idle, installs) /\ Idle.pc # "boot"
  BY <1>0, IdleSound DEF Idle
<1>2. CASE Repause(j)
  <2>1. DataTyped'
    BY <1>0, <1>2 DEF Repause, TypeInv, DataTyped, Serials, packages, memory, removals, bounds
  <2> QED BY <1>1, <1>2, <2>1, Moved DEF Repause, packages, memory, bounds
<1>3. CASE ClearConfig(j)
  <2>1. DataTyped'
    BY <1>0, <1>3 DEF ClearConfig, TypeInv, DataTyped, Serials, packages, memory, removals, bounds
  <2> QED BY <1>1, <1>3, <2>1, MovedUnpaused DEF ClearConfig, packages, memory, bounds
<1> QED BY <1>2, <1>3

LEMMA ReadSound ==
  ASSUME NEW n \in Nat, NEW p, Sound(p, n), p.pc = "scan", NEW m \in Modules,
         NEW e \in [Modules -> Nat], \A k \in Modules : e[k] \in 0 .. n
  PROVE  Sound([p EXCEPT !.entries = e, !.seen = @ \cup {m}], n)
         /\ [p EXCEPT !.entries = e, !.seen = @ \cup {m}].pc # "boot"
<1>1. [p EXCEPT !.entries = e] \in Records /\ [p EXCEPT !.entries = e].entries = e
  BY DEF Sound, Records
<1>2. Sound([p EXCEPT !.entries = e], n) /\ [p EXCEPT !.entries = e].pc = "scan"
  BY <1>1 DEF Sound, Records, Stands, Begun
<1>3. ASSUME NEW r, Sound(r, n), r.pc = "scan"
      PROVE  Sound([r EXCEPT !.seen = @ \cup {m}], n) /\ [r EXCEPT !.seen = @ \cup {m}].pc = "scan"
  BY <1>3 DEF Sound, Records, Stands, Begun
<1>4. [p EXCEPT !.entries = e, !.seen = @ \cup {m}]
        = [[p EXCEPT !.entries = e] EXCEPT !.seen = @ \cup {m}]
  BY DEF Sound, Records
<1> QED BY <1>2, <1>3, <1>4

(* The listing. *)
LEMMA ListedSound ==
  ASSUME NEW n \in Nat, NEW q, Sound(q, n), q.at = 0, q.task = "list"
  PROVE  Sound(Listed(q), n) /\ Listed(q).pc # "boot"
<1>1. Sound(Idle, n) /\ Idle.pc # "boot"
  BY IdleSound DEF Idle
<1>2. Sound([q EXCEPT !.pc = "queued"], n) /\ [q EXCEPT !.pc = "queued"].pc # "boot"
  BY DEF Sound, Records, Steps, Stands, Begun, Asked
<1> QED BY <1>1, <1>2 DEF Listed

LEMMA BrowsingSound ==
  ASSUME NEW n \in Nat, NEW q, Sound(q, n), q.at = 0, q.task = "list"
  PROVE  Sound(Browsing(q), n) /\ Browsing(q).pc # "boot"
<1>1. Sound([q EXCEPT !.pc = "browse"], n) /\ [q EXCEPT !.pc = "browse"].pc # "boot"
  BY DEF Sound, Records, Steps, Stands, Begun, Asked
<1> QED BY <1>1, ListedSound DEF Browsing

LEMMA EntriesSound ==
  ASSUME NEW n \in Nat, NEW q, Sound(q, n), NEW m \in Modules, NEW v \in 0 .. n
  PROVE  /\ Sound([q EXCEPT !.entries[m] = v], n)
         /\ [q EXCEPT !.entries[m] = v].at = q.at
         /\ [q EXCEPT !.entries[m] = v].task = q.task
<1> DEFINE e == [q.entries EXCEPT ![m] = v]
<1>1. e \in [Modules -> Nat] /\ \A k \in Modules : e[k] \in 0 .. n
  BY DEF Sound, Records, Begun
<1>2. [q EXCEPT !.entries[m] = v] = [q EXCEPT !.entries = e]
  BY DEF Sound, Records
<1> HIDE DEF e
<1>3. Sound([q EXCEPT !.entries = e], n) /\ [q EXCEPT !.entries = e].at = q.at
      /\ [q EXCEPT !.entries = e].task = q.task
  BY <1>1 DEF Sound, Records, Stands, Begun
<1> QED BY <1>2, <1>3

LEMMA ListTyped ==
  ASSUME TypeInv, NEW j \in Jobs, ListStep(j)
  PROVE  TypeInv'
<1> DEFINE q == job[j]
<1>0. Sound(q, installs) /\ installs \in Nat /\ pass \in Jobs \cup {Nobody}
      /\ disk \in [Modules -> Serials \cup {Gone, Partial}]
      /\ (q.pc # "load" => q.at = 0) /\ (q.pc \in {"list", "browse"} => q.task = "list")
  BY NotAt DEF TypeInv, DataTyped, Sound, Stands
<1> HIDE DEF q
<1>1. CASE ListDirs(j)
  <2> DEFINE p == [q EXCEPT !.todo = {m \in @ : disk[m] # Gone}]
  <2>1. Sound(p, installs) /\ p.at = 0 /\ p.task = "list"
    <3>1. {m \in q.todo : disk[m] # Gone} \in SUBSET Modules
      BY <1>0 DEF Sound, Records
    <3> QED BY <1>0, <1>1, <3>1 DEF ListDirs, q, Sound, Records, Stands, Begun
  <2>2. Goes(j, Browsing(p))
    BY <1>1 DEF ListDirs, q
  <2>3. DataTyped'
    BY <1>1 DEF ListDirs, TypeInv, DataTyped, Serials, packages, memory, removals, bounds
  <2> HIDE DEF p
  <2> QED BY <1>0, <1>1, <2>1, <2>2, <2>3, BrowsingSound, Moved DEF ListDirs, packages, memory, bounds
<1>2. ASSUME NEW m \in Modules, Browse(j, m) PROVE TypeInv'
  <2> DEFINE p == [q EXCEPT !.todo = @ \ {m}]
  <2>1. Sound(p, installs) /\ p.at = 0 /\ p.task = "list"
    BY <1>0, <1>2 DEF Browse, q, Sound, Records, Stands, Begun
  <2>2. DataTyped'
    BY <1>2 DEF Browse, TypeInv, DataTyped, Serials, packages, memory, removals, bounds
  <2>3. PICK r : Goes(j, Browsing(r)) /\ r = IF Is(m) THEN [p EXCEPT !.entries[m] = disk[m]] ELSE p
    BY <1>2 DEF Browse, q
  <2> HIDE DEF p
  <2>4. Sound(r, installs) /\ r.at = 0 /\ r.task = "list"
    <3>1. Is(m) => disk[m] \in 0 .. installs
      BY <1>0 DEF Is, Serials
    <3> QED BY <1>0, <2>1, <2>3, <3>1, EntriesSound
  <2> QED BY <1>0, <1>2, <2>2, <2>3, <2>4, BrowsingSound, Moved DEF Browse, packages, memory, bounds
<1>3. ASSUME NEW m \in Modules, StartListed(j, m) PROVE TypeInv'
  <2>1. DataTyped'
    BY <1>3 DEF StartListed, TypeInv, DataTyped, Serials, packages, memory, removals, bounds
  <2>2. /\ q.pc = "queued" /\ q.task = "list"
        /\ \/ Goes(j, Listed([q EXCEPT !.entries[m] = 0]))
           \/ Goes(j, [q EXCEPT !.pc = "load", !.at = q.entries[m]])
        /\ UNCHANGED <<packages, memory, bounds>>
    BY <1>3 DEF StartListed, q
  <2>3. CASE Goes(j, Listed([q EXCEPT !.entries[m] = 0]))
    <3> DEFINE p == [q EXCEPT !.entries[m] = 0]
    <3>1. Sound(p, installs) /\ p.at = 0 /\ p.task = "list"
      BY <1>0, <2>2, EntriesSound
    <3>2. Goes(j, Listed(p))
      BY <2>3
    <3> HIDE DEF p
    <3> QED BY <1>0, <2>1, <2>2, <3>1, <3>2, ListedSound, Moved DEF packages, memory, bounds
  <2>4. CASE Goes(j, [q EXCEPT !.pc = "load", !.at = q.entries[m]])
    <3> DEFINE p == [q EXCEPT !.pc = "load", !.at = q.entries[m]]
    <3>1. q \in Records /\ Stands(q) /\ Begun(q, installs)
      BY <1>0 DEF Sound
    <3>2. p \in Records /\ p.pc = "load" /\ p.kind = q.kind /\ p.task = q.task
          /\ p.mod = q.mod /\ p.serial = q.serial /\ p.entries = q.entries
          /\ p.at = q.entries[m] /\ p.at \in 0 .. installs
      BY <3>1 DEF Records, Steps, Begun
    <3> HIDE DEF p
    <3>3. Sound(p, installs) /\ p.pc # "boot"
      BY <2>2, <3>1, <3>2 DEF Sound, Stands, Begun
    <3>4. Goes(j, p)
      BY <2>4 DEF p
    <3> QED BY <2>1, <2>2, <3>3, <3>4, Moved DEF packages, memory, bounds
  <2> QED BY <2>2, <2>3, <2>4
<1> QED BY <1>1, <1>2, <1>3 DEF ListStep

(* A pass of the loader. *)
LEMMA PassTyped ==
  ASSUME TypeInv, NEW j \in Jobs, StartPass(j) \/ EndPass(j) \/ \E m \in Modules : Scan(j, m)
  PROVE  TypeInv'
<1> DEFINE q == job[j]
<1>0. Sound(q, installs) /\ installs \in Nat /\ q.mod \in Modules
      /\ (q.pc # "load" => q.at = 0) /\ paused \subseteq Modules
      /\ pass \in Jobs \cup {Nobody} /\ disk \in [Modules -> Serials \cup {Gone, Partial}]
  BY NotAt DEF TypeInv, DataTyped, Sound, Records
<1>1. CASE StartPass(j)
  <2>1. DataTyped'
    BY <1>1 DEF StartPass, TypeInv, DataTyped, Serials, packages, memory, removals, bounds
  <2>2. CASE q.task = "admin" /\ registry[q.mod] # 0
    <3>1. Sound([q EXCEPT !.pc = "act", !.todo = {}], installs)
          /\ [q EXCEPT !.pc = "act", !.todo = {}].pc # "boot"
      BY <1>0, <1>1, <2>2 DEF StartPass, Sound, Records, Steps, Stands, Begun
    <3> QED BY <1>1, <2>1, <2>2, <3>1, Moved DEF StartPass, packages, memory, bounds
  <2>3. CASE ~(q.task = "admin" /\ registry[q.mod] # 0)
    <3> DEFINE r == [q EXCEPT !.pc = "scan", !.quiet = paused,
                              !.todo = {m \in @ : disk[m] # Gone}]
    <3>1. Sound(r, installs) /\ r.pc # "boot"
      <4>1. {m \in q.todo : disk[m] # Gone} \in SUBSET Modules
        BY <1>0 DEF Sound, Records
      <4>2. q \in Records /\ Stands(q) /\ Begun(q, installs) /\ q.pc = "queued"
        BY <1>0, <1>1 DEF StartPass, Sound
      <4>3. r \in Records
        BY <1>0, <4>1, <4>2 DEF Records, Steps
      <4>4. /\ r.pc = "scan" /\ r.kind = q.kind /\ r.mod = q.mod /\ r.task = q.task
            /\ r.at = q.at /\ r.serial = q.serial /\ r.entries = q.entries
        BY <4>2 DEF Records
      <4> HIDE DEF r
      <4>5. Stands(r) /\ Begun(r, installs)
        BY <4>2, <4>4 DEF Stands, Begun
      <4> QED BY <4>3, <4>4, <4>5 DEF Sound
    <3>2. Goes(j, r)
      BY <1>1, <2>3 DEF StartPass
    <3> QED BY <1>1, <2>1, <3>1, <3>2, Moved DEF StartPass, packages, memory, bounds
  <2> QED BY <2>2, <2>3
<1>2. ASSUME NEW m \in Modules, Scan(j, m) PROVE TypeInv'
  <2>1. DataTyped'
    BY <1>2 DEF Scan, TypeInv, DataTyped, Serials, packages, memory, removals, bounds
  <2> DEFINE p == [q EXCEPT !.todo = @ \ {m}]
             r == [p EXCEPT !.entries[m] = disk[m], !.seen = @ \cup {m}]
             s == [p EXCEPT !.refused = @ \cup {m}, !.seen = @ \cup {m}]
  <2>0. q \in Records /\ q.pc = "scan" /\ Stands(q) /\ Begun(q, installs)
    BY <1>0, <1>2 DEF Scan, Sound
  <2>2. Sound(p, installs) /\ p.pc = "scan"
    <3> HIDE DEF q
    <3>1. p \in Records /\ p.pc = "scan"
      BY <2>0 DEF Records
    <3>2. Stands(p)
      BY <2>0 DEF Records, Stands
    <3>3. Begun(p, installs)
      BY <2>0 DEF Records, Begun
    <3> QED BY <3>1, <3>2, <3>3 DEF Sound
  <2>3. Sound(s, installs) /\ s.pc # "boot"
    <3> HIDE DEF p
    <3>1. s \in Records /\ s.pc = "scan"
      BY <2>2 DEF Sound, Records
    <3>2. Stands(s)
      BY <2>2 DEF Sound, Records, Stands
    <3>3. Begun(s, installs)
      BY <2>2 DEF Sound, Records, Begun
    <3> QED BY <3>1, <3>2, <3>3 DEF Sound
  <2>4. Is(m) => Sound(r, installs) /\ r.pc # "boot"
    <3> SUFFICES ASSUME Is(m) PROVE Sound(r, installs) /\ r.pc # "boot"
      OBVIOUS
    <3>1. disk[m] \in 1 .. installs
      BY <1>0 DEF Is, Serials
    <3>2. [p.entries EXCEPT ![m] = disk[m]] \in [Modules -> Nat]
          /\ \A k \in Modules : [p.entries EXCEPT ![m] = disk[m]][k] \in 0 .. installs
      BY <1>0, <2>2, <3>1 DEF Sound, Records, Begun
    <3>3. ASSUME NEW e \in [Modules -> Nat], \A k \in Modules : e[k] \in 0 .. installs
          PROVE  Sound([p EXCEPT !.entries = e, !.seen = @ \cup {m}], installs)
                 /\ [p EXCEPT !.entries = e, !.seen = @ \cup {m}].pc # "boot"
      BY <1>0, <2>2, <3>3, ReadSound
    <3>4. r = [p EXCEPT !.entries = [p.entries EXCEPT ![m] = disk[m]], !.seen = @ \cup {m}]
      <4> HIDE DEF p
      <4> QED BY <2>2 DEF Sound, Records
    <3> HIDE DEF p, r
    <3> QED BY <3>2, <3>3, <3>4
  <2>5. Goes(j, IF Is(m) THEN r ELSE s)
    BY <1>2 DEF Scan
  <2> HIDE DEF r, s
  <2> QED BY <1>2, <2>1, <2>3, <2>4, <2>5, Moved DEF Scan, packages, memory, bounds
<1>3. CASE EndPass(j)
  <2>1. DataTyped'
    BY <1>3 DEF EndPass, TypeInv, DataTyped, Serials, packages, memory, removals, bounds
  <2> DEFINE p == [q EXCEPT !.seen = {}, !.quiet = {}]
  <2>2. Sound(p, installs) /\ p.pc = "load" /\ p.at = 0
    BY <1>0, <1>3 DEF EndPass, Sound, Records, Stands, Begun
  <2>3. Sound(AfterPass(p), installs) /\ AfterPass(p).pc # "boot"
    <3> HIDE DEF p
    <3>1. Sound(Idle, installs) /\ Idle.pc # "boot"
      BY <1>0, IdleSound DEF Idle
    <3>2. p.task = "admin" => Sound([p EXCEPT !.pc = "act"], installs)
                              /\ [p EXCEPT !.pc = "act"].pc # "boot"
      BY <1>0, <2>2 DEF Sound, Records, Steps, Stands, Begun
    <3>3. p.task = "sync" /\ p.kind = "install" =>
            Sound([p EXCEPT !.pc = "clear", !.kind = "purge"], installs)
            /\ [p EXCEPT !.pc = "clear", !.kind = "purge"].pc # "boot"
      <4> DEFINE z == [p EXCEPT !.pc = "clear", !.kind = "purge"]
      <4>1. p \in Records /\ Stands(p) /\ Begun(p, installs)
        BY <2>2 DEF Sound
      <4>2. z \in Records
        BY <4>1 DEF Records, Steps, Kinds
      <4>3. /\ z.pc = "clear" /\ z.kind = "purge" /\ z.task = p.task /\ z.at = p.at
            /\ z.serial = p.serial /\ z.entries = p.entries
        BY <4>1 DEF Records
      <4> HIDE DEF z
      <4>4. p.task = "sync" /\ p.kind = "install" => Stands(z) /\ Begun(z, installs)
        BY <1>0, <2>2, <4>1, <4>3 DEF Stands, Begun, Placing
      <4>5. p.task = "sync" /\ p.kind = "install" => Sound(z, installs) /\ z.pc # "boot"
        BY <4>2, <4>3, <4>4 DEF Sound
      <4> QED BY <4>5 DEF z
    <3>4. p.task = "list" => Sound(Listed(p), installs) /\ Listed(p).pc # "boot"
      BY <1>0, <2>2, ListedSound
    <3> QED BY <3>1, <3>2, <3>3, <3>4 DEF AfterPass
  <2> QED BY <1>3, <2>1, <2>3, Moved DEF EndPass, packages, memory, bounds
<1> QED BY <1>1, <1>2, <1>3

LEMMA FailedSound ==
  ASSUME NEW n \in Nat, NEW q, Sound(q, n), q.pc # "boot", NEW v \in BOOLEAN
  PROVE  Sound([q EXCEPT !.failed = v], n) /\ [q EXCEPT !.failed = v].pc # "boot"
BY DEF Sound, Records, Stands, Begun

LEMMA LoadTyped ==
  ASSUME TypeInv, NEW j \in Jobs, Sift(j) \/ \E m \in Modules : Load(j, m) \/ Import(j, m)
  PROVE  TypeInv'
<1> DEFINE q == job[j]
<1>0. Sound(q, installs) /\ installs \in Nat
      /\ registry \in [Modules -> (Serials \ bad) \cup {0}]
  BY NotAt DEF TypeInv, DataTyped
<1>1. CASE Sift(j)
  <2>1. DataTyped'
    BY <1>0, <1>1 DEF Sift, TypeInv, DataTyped, Serials, packages, memory, removals, bounds
  <2> DEFINE r == [q EXCEPT !.pc = "load", !.failed = q.mod \in q.refused, !.refused = {}]
  <2> DEFINE p == [q EXCEPT !.pc = "load", !.refused = {}]
  <2>2. Sound(p, installs) /\ p.pc # "boot"
    <3>1. q \in Records /\ Stands(q) /\ Begun(q, installs) /\ q.pc = "scan"
      BY <1>0, <1>1 DEF Sift, Sound
    <3>2. p \in Records
      BY <3>1 DEF Records, Steps
    <3>3. /\ p.pc = "load" /\ p.kind = q.kind /\ p.mod = q.mod /\ p.task = q.task
          /\ p.at = q.at /\ p.serial = q.serial /\ p.entries = q.entries
      BY <3>1 DEF Records
    <3> HIDE DEF p
    <3>4. Stands(p) /\ Begun(p, installs)
      BY <3>1, <3>3 DEF Stands, Begun
    <3> QED BY <3>2, <3>3, <3>4 DEF Sound
  <2>3. r = [[q EXCEPT !.pc = "load", !.refused = {}] EXCEPT !.failed = q.mod \in q.refused]
    BY <1>0 DEF Sound, Records
  <2>4. (q.mod \in q.refused) \in BOOLEAN
    OBVIOUS
  <2>5. Sound(r, installs) /\ r.pc # "boot"
    BY <1>0, <2>2, <2>3, <2>4, FailedSound
  <2> QED BY <1>1, <2>1, <2>5, Moved DEF Sift, packages, memory, bounds
<1>2. ASSUME NEW m \in Modules PROVE Sound([q EXCEPT !.entries[m] = 0], installs)
  <2>1. [q.entries EXCEPT ![m] = 0] \in [Modules -> Nat]
        /\ \A k \in Modules : [q.entries EXCEPT ![m] = 0][k] \in 0 .. installs
    BY <1>0 DEF Sound, Records, Begun
  <2> QED BY <1>0, <2>1 DEF Sound, Records, Stands, Begun
<1>3. ASSUME NEW m \in Modules, Load(j, m) PROVE TypeInv'
  <2>1. DataTyped'
    BY <1>0, <1>3 DEF Load, TypeInv, DataTyped, Serials, packages, memory, removals, bounds
  <2> DEFINE done == [q EXCEPT !.entries[m] = 0]
             r == [q EXCEPT !.at = q.entries[m]]
  <2>2. Sound(done, installs) /\ done.pc # "boot"
    BY <1>0, <1>2, <1>3 DEF Load, Sound, Records
  <2>3. Sound(r, installs) /\ r.pc # "boot"
    BY <1>0, <1>3 DEF Load, Sound, Records, Stands, Begun
  <2>4. Goes(j, done) \/ Goes(j, r)
    BY <1>3 DEF Load
  <2> HIDE DEF done, r
  <2> QED BY <1>3, <2>1, <2>2, <2>3, <2>4, Moved DEF Load, packages, memory, bounds
<1>4. ASSUME NEW m \in Modules, Import(j, m) PROVE TypeInv'
  <2> DEFINE code == IF loaded[q.at] # 0 THEN loaded[q.at] ELSE IF Is(m) THEN disk[m] ELSE 0
             done == [q EXCEPT !.entries[m] = 0, !.at = 0]
             r == [done EXCEPT !.failed = q.failed \/ m = q.mod]
  <2>1. q.at \in 1 .. installs /\ q.at \in DOMAIN loaded /\ q.pc = "load"
    <3>1. q.at # 0 /\ q.at \in 0 .. installs /\ q.pc = "load"
      BY <1>0, <1>4 DEF Import, Sound, Begun, Stands
    <3>2. q.at \in 1 .. installs
      BY <1>0, <3>1
    <3> QED BY <3>1, <3>2, HasURL
  <2>2. code \in 0 .. installs
    <3>1. loaded[q.at] \in 0 .. installs
      BY <1>0, <2>1 DEF TypeInv, DataTyped, Serials
    <3>2. Is(m) => disk[m] \in 0 .. installs
      BY <1>0 DEF Is, TypeInv, DataTyped, Serials
    <3> QED BY <1>0, <3>1, <3>2
  <2>3. loaded' = [loaded EXCEPT ![q.at] = code]
        /\ \/ registry' = [registry EXCEPT ![m] = code] /\ code \notin bad \cup {0}
              /\ Goes(j, done)
           \/ registry' = registry /\ Goes(j, r)
    BY <1>4 DEF Import, Loads
  <2>4. DataTyped'
    <3> HIDE DEF code
    <3>1. UNCHANGED <<packages, paused, removals, pass, stale, bounds>>
      BY <1>4 DEF Import
    <3>2. registry' \in [Modules -> (Serials \ bad) \cup {0}]
      BY <1>0, <2>2, <2>3 DEF Serials
    <3>3. loaded' \in [DOMAIN loaded' -> Serials \cup {0}]
      <4>1. loaded \in [DOMAIN loaded -> Serials \cup {0}]
        BY DEF TypeInv, DataTyped
      <4>2. code \in Serials \cup {0}
        BY <1>0, <2>2 DEF Serials
      <4>3. loaded' = [loaded EXCEPT ![q.at] = code]
        BY <2>3
      <4> QED BY <4>1, <4>2, <4>3
    <3> QED BY <3>1, <3>2, <3>3 DEF TypeInv, DataTyped, Serials, packages, memory, removals, bounds
  <2>5. Sound(done, installs) /\ done.pc # "boot"
    <3>1. Sound([q EXCEPT !.entries[m] = 0], installs) /\ [q EXCEPT !.entries[m] = 0].pc = "load"
      BY <1>0, <1>2, <2>1 DEF Sound, Records
    <3>2. done = [[q EXCEPT !.entries[m] = 0] EXCEPT !.at = 0]
      BY <1>0 DEF Sound, Records
    <3>3. ASSUME NEW p, Sound(p, installs), p.pc = "load"
          PROVE  Sound([p EXCEPT !.at = 0], installs) /\ [p EXCEPT !.at = 0].pc # "boot"
      BY <1>0, <3>3 DEF Sound, Records, Stands, Begun
    <3> HIDE DEF done
    <3> QED BY <3>1, <3>2, <3>3
  <2>6. Sound(r, installs) /\ r.pc # "boot"
    <3> HIDE DEF done
    <3>1. q.failed \in BOOLEAN
      BY <1>0 DEF Sound, Records
    <3>2. (q.failed \/ m = q.mod) \in BOOLEAN
      BY <3>1
    <3> QED BY <1>0, <2>5, <3>2, FailedSound
  <2>7. DOMAIN loaded' = DOMAIN loaded
    BY <2>3
  <2> HIDE DEF done, r
  <2> QED BY <1>4, <2>3, <2>4, <2>5, <2>6, <2>7, Moved DEF Import, packages, bounds
<1> QED BY <1>1, <1>3, <1>4

(* The directories: a job that empties, removes or renames one. *)
LEMMA StraysTyped ==
  ASSUME TypeInv, NEW m \in Modules, Strays(m)
  PROVE  stale' \subseteq Modules
BY DEF TypeInv, DataTyped, Strays

LEMMA DiskTyped ==
  ASSUME TypeInv, NEW j \in Jobs, Clear(j) \/ Rm(j) \/ Rename(j) \/ Leave(j)
  PROVE  TypeInv'
<1> DEFINE q == job[j]
<1>0. Sound(q, installs) /\ installs \in Nat /\ q.mod \in Modules
      /\ (q.pc # "load" => q.at = 0)
  BY NotAt DEF Sound, Records
<1>1. Sound(Idle, installs) /\ Idle.pc # "boot"
  BY <1>0, IdleSound DEF Idle
<1>2. CASE Clear(j)
  <2>1. DataTyped'
    BY <1>0, <1>2 DEF Clear, TypeInv, DataTyped, Serials, packages, memory, removals, bounds
  <2>2. Sound([q EXCEPT !.pc = "rm"], installs) /\ [q EXCEPT !.pc = "rm"].pc # "boot"
    BY <1>0, <1>2 DEF Clear, Sound, Records, Steps, Stands, Begun
  <2> QED BY <1>2, <2>1, <2>2, Moved DEF Clear, memory, bounds
<1>3. CASE Rm(j)
  <2>1. stale' \subseteq Modules
    BY <1>0, <1>3, StraysTyped DEF Rm, TypeInv, DataTyped
  <2>2. DataTyped'
    BY <1>0, <1>3, <2>1 DEF Rm, TypeInv, DataTyped, Serials, packages, memory, removals, bounds
  <2>3. q.kind = "uninstall" => Sound([q EXCEPT !.pc = "leave"], installs)
                                /\ [q EXCEPT !.pc = "leave"].pc # "boot"
    BY <1>0, <1>3 DEF Rm, Sound, Records, Steps, Stands, Begun
  <2>4. q.kind \notin {"purge", "uninstall"} =>
          Sound([q EXCEPT !.pc = "rename"], installs) /\ [q EXCEPT !.pc = "rename"].pc # "boot"
    BY <1>0, <1>3 DEF Rm, Sound, Records, Steps, Stands, Begun, Placing
  <2>5. Goes(j, CASE q.kind = "purge" -> Idle
                  [] q.kind = "uninstall" -> [q EXCEPT !.pc = "leave"]
                  [] OTHER -> [q EXCEPT !.pc = "rename"])
    BY <1>3 DEF Rm
  <2>6. UNCHANGED <<installs, memory, bounds>>
    BY <1>3 DEF Rm
  <2>7. \E r : Goes(j, r) /\ Sound(r, installs) /\ r.pc # "boot"
    BY <1>1, <2>3, <2>4, <2>5
  <2> QED BY <2>2, <2>6, <2>7, Moved DEF memory, bounds
<1>4. CASE Rename(j)
  <2>1. q.serial \in 1 .. installs
    BY <1>0, <1>4 DEF Rename, Sound, Stands, Begun, Placing
  <2>2. DataTyped'
    BY <1>0, <1>4, <2>1 DEF Rename, TypeInv, DataTyped, Serials, packages, memory, removals, bounds
  <2>3. Sound([q EXCEPT !.pc = "leave"], installs) /\ [q EXCEPT !.pc = "leave"].pc # "boot"
    BY <1>0, <1>4 DEF Rename, Sound, Records, Steps, Stands, Begun
  <2>4. q.kind = "restore" => Sound([q EXCEPT !.pc = "state"], installs)
                              /\ [q EXCEPT !.pc = "state"].pc # "boot"
    BY <1>0, <1>4 DEF Rename, Sound, Records, Steps, Stands, Begun
  <2>5. Goes(j, [q EXCEPT !.pc = IF q.kind = "restore" THEN "state" ELSE "leave"])
    BY <1>4 DEF Rename
  <2> QED BY <1>4, <2>2, <2>3, <2>4, <2>5, Moved DEF Rename, memory, bounds
<1>5. CASE Leave(j)
  <2>1. stale' \subseteq Modules
    BY <1>0, <1>5, StraysTyped DEF Leave
  <2>2. DataTyped'
    BY <1>0, <1>5, <2>1 DEF Leave, TypeInv, DataTyped, Serials, packages, memory, removals, bounds
  <2>3. q.at = 0
    BY <1>0, <1>5 DEF Leave
  <2>4. q.kind # "uninstall" => Sound(Queued(q, "sync", {q.mod}), installs)
                                /\ Queued(q, "sync", {q.mod}).pc # "boot"
    BY <1>0, <2>3, QueuedSound
  <2>5. q.kind = "uninstall" =>
          Sound([q EXCEPT !.pc = "config"], installs) /\ [q EXCEPT !.pc = "config"].pc # "boot"
    BY <1>0, <1>5 DEF Leave, Sound, Records, Steps, Stands, Begun
  <2>6. q.kind = "uninstall" /\ q.mod \in Origins =>
          Sound([q EXCEPT !.pc = "state"], installs) /\ [q EXCEPT !.pc = "state"].pc # "boot"
    BY <1>0, <1>5 DEF Leave, Sound, Records, Steps, Stands, Begun
  <2>7. \E r : Goes(j, r) /\ Sound(r, installs) /\ r.pc # "boot"
    BY <1>5, <2>4, <2>5, <2>6 DEF Leave
  <2>8. UNCHANGED <<packages, loaded, bounds>>
    BY <1>5 DEF Leave
  <2> QED BY <2>2, <2>7, <2>8, Moved DEF packages, bounds
<1> QED BY <1>2, <1>3, <1>4, <1>5

(* The file of the removals. *)
LEMMA StateTyped ==
  ASSUME TypeInv, NEW j \in Jobs,
         ReadState(j) \/ OpenState(j) \/ WriteState(j) \/ StateUnread(j)
  PROVE  TypeInv'
<1> DEFINE q == job[j]
<1>0. Sound(q, installs) /\ installs \in Nat /\ q.mod \in Modules
      /\ (q.pc # "load" => q.at = 0) /\ q.next \subseteq Origins /\ blurred \in BOOLEAN
      /\ dropped \subseteq Origins /\ (removed = Torn \/ removed \subseteq Origins)
  BY NotAt DEF Sound, Records, TypeInv, DataTyped
<1>1. ASSUME q.pc \in {"state", "open", "write"}
      PROVE  q.mod \in Origins /\ q.kind \in {"uninstall", "restore"}
  BY <1>0, <1>1 DEF Sound, Stands
<1>2. CASE ReadState(j)
  <2>1. blurred' \in BOOLEAN
    BY <1>2 DEF ReadState
  <2>2. DataTyped'
    BY <1>2, <2>1 DEF ReadState, TypeInv, DataTyped, Serials, packages, memory, removals, bounds
  <2>3. Remembered \subseteq Origins /\ q.mod \in Origins
    BY <1>0, <1>1, <1>2 DEF ReadState, Remembered
  <2>4. ASSUME NEW next \in SUBSET Origins
        PROVE  Sound([q EXCEPT !.pc = "open", !.next = next], installs)
               /\ [q EXCEPT !.pc = "open", !.next = next].pc # "boot"
    BY <1>0, <1>1, <1>2 DEF ReadState, Sound, Records, Steps, Stands, Begun
  <2>5. Sound([q EXCEPT !.pc = "leave"], installs) /\ [q EXCEPT !.pc = "leave"].pc # "boot"
    BY <1>0, <1>2 DEF ReadState, Sound, Records, Steps, Stands, Begun
  <2>6. \/ Goes(j, [q EXCEPT !.pc = "open", !.next = Remembered \cup {q.mod}])
        \/ Goes(j, [q EXCEPT !.pc = "open", !.next = Remembered \ {q.mod}])
        \/ Goes(j, [q EXCEPT !.pc = "leave"])
    BY <1>2 DEF ReadState
  <2>7. Remembered \cup {q.mod} \in SUBSET Origins /\ Remembered \ {q.mod} \in SUBSET Origins
    BY <2>3
  <2>8. \E r : Goes(j, r) /\ Sound(r, installs) /\ r.pc # "boot"
    <3> DEFINE plus == Remembered \cup {q.mod}
               minus == Remembered \ {q.mod}
    <3>1. Sound([q EXCEPT !.pc = "open", !.next = plus], installs)
          /\ [q EXCEPT !.pc = "open", !.next = plus].pc # "boot"
      BY <2>4, <2>7
    <3>2. Sound([q EXCEPT !.pc = "open", !.next = minus], installs)
          /\ [q EXCEPT !.pc = "open", !.next = minus].pc # "boot"
      BY <2>4, <2>7
    <3> HIDE DEF plus, minus
    <3> QED BY <2>5, <2>6, <3>1, <3>2 DEF plus, minus
  <2>9. UNCHANGED <<packages, memory, bounds>>
    BY <1>2 DEF ReadState
  <2> QED BY <2>2, <2>8, <2>9, Moved DEF packages, memory, bounds
<1>3. CASE OpenState(j)
  <2>1. DataTyped'
    BY <1>3 DEF OpenState, TypeInv, DataTyped, Serials, packages, memory, removals, bounds
  <2>2. Sound([q EXCEPT !.pc = "write"], installs) /\ [q EXCEPT !.pc = "write"].pc # "boot"
    BY <1>0, <1>1, <1>3 DEF OpenState, Sound, Records, Steps, Stands, Begun
  <2> QED BY <1>3, <2>1, <2>2, Moved DEF OpenState, packages, memory, bounds
<1>4. CASE WriteState(j)
  <2>1. removed' \subseteq Origins /\ dropped' \subseteq Origins
    BY <1>0, <1>1, <1>4 DEF WriteState
  <2>2. DataTyped'
    BY <1>4, <2>1 DEF WriteState, TypeInv, DataTyped, Serials, packages, memory, removals, bounds
  <2>3. ASSUME NEW p \in {"config", "leave"}
        PROVE  Sound([q EXCEPT !.pc = p, !.next = {}], installs)
               /\ [q EXCEPT !.pc = p, !.next = {}].pc # "boot"
    BY <1>0, <1>4 DEF WriteState, Sound, Records, Steps, Stands, Begun
  <2>4. \E p \in {"config", "leave"} : Goes(j, [q EXCEPT !.pc = p, !.next = {}])
    BY <1>4 DEF WriteState
  <2> QED BY <1>4, <2>2, <2>3, <2>4, Moved DEF WriteState, packages, memory, bounds
<1>5. CASE StateUnread(j)
  <2>1. DataTyped'
    BY <1>5 DEF StateUnread, TypeInv, DataTyped, Serials, packages, memory, removals, bounds
  <2>2. q.pc = "state" /\ Incident /\ UNCHANGED <<packages, memory>>
        /\ (\/ Goes(j, [q EXCEPT !.pc = "open", !.next = {q.mod}])
            \/ Goes(j, [q EXCEPT !.pc = "leave"]))
    BY <1>5 DEF StateUnread
  <2>3. {q.mod} \in SUBSET Origins
    BY <1>1, <2>2
  <2>4. Sound([q EXCEPT !.pc = "leave"], installs) /\ [q EXCEPT !.pc = "leave"].pc # "boot"
    BY <1>0, <2>2 DEF Sound, Records, Steps, Stands, Begun
  <2>5. ASSUME NEW next \in SUBSET Origins
        PROVE  Sound([q EXCEPT !.pc = "open", !.next = next], installs)
               /\ [q EXCEPT !.pc = "open", !.next = next].pc # "boot"
    BY <1>0, <1>1, <2>2 DEF Sound, Records, Steps, Stands, Begun
  <2>6. \E r : Goes(j, r) /\ Sound(r, installs) /\ r.pc # "boot"
    <3>1. Sound([q EXCEPT !.pc = "open", !.next = {q.mod}], installs)
          /\ [q EXCEPT !.pc = "open", !.next = {q.mod}].pc # "boot"
      BY <2>3, <2>5
    <3> QED BY <2>2, <2>4, <3>1
  <2> QED BY <2>1, <2>2, <2>6, Moved DEF packages, memory, Incident
<1> QED BY <1>2, <1>3, <1>4, <1>5

(* What the disk refuses. *)
LEMMA FaultTyped ==
  ASSUME TypeInv, NEW j \in Jobs, RmFails(j) \/ RenameFails(j) \/ StateFails(j)
  PROVE  TypeInv'
<1>0. installs \in Nat /\ job[j].mod \in Modules
  BY NotAt DEF Sound, Records
<1>1. Sound(Idle, installs) /\ Idle.pc # "boot"
  BY <1>0, IdleSound DEF Idle
<1>2. stale' \subseteq Modules
  BY <1>0, StraysTyped DEF RmFails, RenameFails, StateFails, TypeInv, DataTyped
<1>3. UNCHANGED <<packages, memory, paused, removed, dropped, pass>> /\ Goes(j, Idle)
      /\ arrivals' = arrivals /\ (incidents' = incidents \/ Incident)
  BY DEF RmFails, RenameFails, StateFails, removals, bounds, Incident
<1>4. blurred' \in BOOLEAN
  BY DEF RmFails, RenameFails, StateFails, removals, TypeInv, DataTyped
<1>5. DataTyped'
  BY <1>2, <1>3, <1>4 DEF TypeInv, DataTyped, Serials, packages, memory, removals, bounds
<1> QED BY <1>1, <1>3, <1>5, Moved DEF packages, memory

(* The process dies, and another starts. *)
LEMMA RestartTyped ==
  ASSUME TypeInv, Restart
  PROVE  TypeInv'
<1>0. installs \in Nat /\ installs' = installs
  BY DEF TypeInv, Restart, packages
<1>1. JobsSound'
  <2>1. job' = [j \in Jobs |-> IF j = "graph" THEN Starting ELSE Idle]
    BY DEF Restart
  <2>2. \A j \in Jobs : Sound(job'[j], installs')
    BY <1>0, <2>1, IdleSound
  <2> QED BY <2>1, <2>2 DEF JobsSound, JobsTyped, Sound
<1>2. DataTyped'
  <2>1. blurred' \in BOOLEAN
    BY DEF Restart
  <2>2. Unread \in [Modules -> (Serials \ bad) \cup {0}]
    BY DEF Unread
  <2>3. loaded' \in [DOMAIN loaded' -> Serials \cup {0}]
    BY DEF Restart
  <2> QED BY <2>1, <2>2, <2>3 DEF Restart, TypeInv, DataTyped, Serials, packages
<1>3. Counted'
  <2>1. PICK c \in Nat : c = Cardinality(Origins)
    BY FS_CardinalityType
  <2>2. incidents \in Nat /\ incidents' = incidents + 1 /\ incidents' \in 0 .. MaxIncidents
        /\ arrivals' = arrivals /\ arrivals \in Nat
    BY DEF Restart, Incident, TypeInv, Counted
  <2>3. PICK K \in Nat : K = c * (incidents + 1)
    BY <2>2
  <2>4. c * (incidents' + 1) = K + c
    BY <2>1, <2>2, <2>3, Room
  <2>5. PICK a \in Nat : a = Left(job["graph"])
    BY LeftCounts DEF TypeInv
  <2>6. Left(job'["graph"]) = c
    BY <2>1, GraphIsJob DEF Restart, Left, Starting, Idle
  <2>7. installs + a <= K + arrivals
    BY <2>1, <2>3, <2>5 DEF TypeInv, Counted
  <2>8. installs + c <= K + c + arrivals
    BY <1>0, <2>2, <2>7
  <2>9. installs' + Left(job'["graph"]) <= Cardinality(Origins) * (incidents' + 1) + arrivals'
    BY <1>0, <2>1, <2>2, <2>4, <2>6, <2>8
  <2>10. DOMAIN loaded' = DOMAIN loaded
    BY DEF Restart
  <2> QED BY <2>2, <2>9, <2>10 DEF TypeInv, Counted, Left
<1> QED BY <1>0, <1>1, <1>2, <1>3 DEF TypeInv

LEMMA TypeStep == TypeInv /\ [Next]_vars => TypeInv'
<1> SUFFICES ASSUME TypeInv, [Next]_vars PROVE TypeInv'
  OBVIOUS
<1>1. ASSUME NEW m \in Origins, Bootstrap(m) \/ BootstrapFails(m) PROVE TypeInv'
  BY <1>1, BootstrapTyped, BootstrapFailsTyped
<1>2. CASE BootUnread \/ Booted \/ Graph \/ Restart
  BY <1>2, BootUnreadTyped, BootedTyped, GraphTyped, RestartTyped
<1>3. CASE Admin
  BY <1>3, ArriveTyped DEF Admin, Asked
<1>4. ASSUME NEW j \in Jobs, Step(j) \/ Fault(j) PROVE TypeInv'
  BY <1>4, ResolveTyped, ActTyped, PauseTyped, ListTyped, PassTyped, LoadTyped, DiskTyped,
     StateTyped, FaultTyped DEF Step, PassStep, DiskStep, Fault
<1>5. CASE UNCHANGED vars
  BY <1>5 DEF vars, TypeInv, DataTyped, Serials, packages, memory, removals, bounds, JobsSound, JobsTyped, Counted, Left
<1> QED BY <1>1, <1>2, <1>3, <1>4, <1>5 DEF Next

(* Every variable keeps its type; the code that is registered is one that
   loads, and Node has a URL for every installation there can be. *)
THEOREM TypeCorrect == Spec => []TypeOK
<1>1. TypeInv => TypeOK
  BY DEF TypeInv, TypeOK, JobsSound
<1> QED BY <1>1, InitTyped, TypeStep, PTL DEF Spec

-----------------------------------------------------------------------------
(* The steps of a job.                                                     *)

LEMMA Lands ==
  ASSUME TypeInv, NEW j \in Jobs, NEW q, Goes(j, q)
  PROVE  job'[j] = q /\ \A k \in Jobs \ {j} : job'[k] = job[k]
BY DEF TypeInv, JobsSound, JobsTyped, Goes

LEMMA LandsUnpaused ==
  ASSUME TypeInv, NEW j \in Jobs, NEW m, NEW q, job' = [Unpaused(m) EXCEPT ![j] = q]
  PROVE  job'[j] = q /\ \A k \in Jobs \ {j} : job'[k] = [job[k] EXCEPT !.quiet = @ \ {m}]
BY DEF Unpaused

(* The other jobs lose at most a module of what was on pause. *)
Keeps(k) ==
  /\ job'[k].pc = job[k].pc /\ job'[k].kind = job[k].kind /\ job'[k].mod = job[k].mod
  /\ job'[k].serial = job[k].serial /\ job'[k].task = job[k].task
  /\ job'[k].entries = job[k].entries /\ job'[k].at = job[k].at
  /\ job'[k].refused = job[k].refused /\ job'[k].seen = job[k].seen
  /\ job'[k].next = job[k].next
  /\ job'[k].quiet \subseteq job[k].quiet

LEMMA OthersKeep ==
  ASSUME TypeInv, NEW j \in Jobs, Step(j) \/ Fault(j), NEW k \in Jobs \ {j}
  PROVE  Keeps(k)
<1>0. job[k] \in Records
  BY DEF TypeInv, JobsSound, JobsTyped
<1>1. \/ \E q : Goes(j, q)
      \/ \E m, q : job' = [Unpaused(m) EXCEPT ![j] = q]
  <2>1. CASE Resolve(j)
    BY <2>1 DEF Resolve
  <2>2. CASE Act(j)
    <3>1. job[j].kind \in Asked
      BY <2>2, NotAt DEF Act, Sound, Stands
    <3> QED BY <2>2, <3>1 DEF Act, Asked
  <2>3. CASE Repause(j) \/ ClearConfig(j)
    BY <2>3 DEF Repause, ClearConfig
  <2>4. CASE PassStep(j)
    BY <2>4 DEF PassStep, StartPass, Sift, EndPass, Scan, Load, Import
  <2>5. CASE DiskStep(j)
    BY <2>5 DEF DiskStep, Clear, Rm, Rename, Leave, ReadState, OpenState, WriteState
  <2>6. CASE Fault(j)
    BY <2>6 DEF Fault, RmFails, RenameFails, StateUnread, StateFails
  <2>7. CASE ListStep(j)
    BY <2>7 DEF ListStep, ListDirs, Browse, StartListed
  <2> QED BY <2>1, <2>2, <2>3, <2>4, <2>5, <2>6, <2>7 DEF Step
<1>2. job'[k] = job[k] \/ \E m : job'[k] = [job[k] EXCEPT !.quiet = @ \ {m}]
  <2>1. CASE \E q : Goes(j, q)
    BY <2>1, Lands
  <2>2. CASE \E m, q : job' = [Unpaused(m) EXCEPT ![j] = q]
    <3>1. PICK m, q : job' = [Unpaused(m) EXCEPT ![j] = q]
      BY <2>2
    <3>2. job'[k] = [job[k] EXCEPT !.quiet = @ \ {m}]
      BY <3>1 DEF Unpaused
    <3> QED BY <3>2
  <2> QED BY <1>1, <2>1, <2>2
<1>3. ASSUME NEW m, job'[k] = [job[k] EXCEPT !.quiet = @ \ {m}] PROVE Keeps(k)
  BY <1>0, <1>3 DEF Keeps, Records
<1> QED BY <1>2, <1>3 DEF Keeps

(* A job that moves was on its way, only a start goes on as a start, and the
   file of the removals is written in three steps. *)
OnItsWay(j) ==
  /\ job[j].pc \notin {"idle", "boot"}
  /\ job'[j].pc # "boot"
  /\ job'[j].kind = "start" => job[j].kind = "start"
  /\ job'[j].kind = "graph" => job[j].kind = "graph"
  /\ job'[j].pc \in {"open", "write"} => ReadState(j) \/ OpenState(j) \/ StateUnread(j)
  /\ job[j].pc \in {"open", "write"} => OpenState(j) \/ WriteState(j) \/ StateFails(j)

(* A step of a listing, which enters its turns with what it read before. *)
Listing(j) ==
  /\ job[j].pc \in {"list", "browse", "queued"} /\ job[j].task = "list"
  /\ job'[j].pc \in {"idle", "browse", "queued", "load"}
  /\ job'[j].kind \in {"list", "none"}
  /\ job'[j].pc # "idle" => job'[j].task = "list"
  /\ job'[j].pc = "load" => pass' = j
  /\ job'[j].quiet \subseteq job[j].quiet /\ job'[j].seen \subseteq job[j].seen
  /\ \A n \in Modules : \/ job'[j].entries[n] \in {0, job[j].entries[n]}
                        \/ Is(n) /\ job'[j].entries[n] = disk[n]

(* The listing goes on from p, or is over. *)
GoesOn(r, p) ==
  \/ r = Idle
  \/ /\ r.pc \in {"queued", "browse"} /\ r.kind = p.kind /\ r.task = p.task
     /\ r.quiet = p.quiet /\ r.seen = p.seen /\ r.entries = p.entries

LEMMA BrowsingGoesOn ==
  ASSUME NEW p \in Records
  PROVE  GoesOn(Listed(p), p) /\ GoesOn(Browsing(p), p)
<1>1. ASSUME NEW s \in {"queued", "browse"} PROVE GoesOn([p EXCEPT !.pc = s], p)
  BY DEF GoesOn, Records
<1>2. GoesOn(Idle, p)
  BY DEF GoesOn
<1>3. GoesOn(Listed(p), p)
  BY <1>1, <1>2 DEF Listed
<1> QED BY <1>1, <1>3 DEF Browsing

LEMMA GoneOnListing ==
  ASSUME TypeInv, NEW j \in Jobs, job[j].pc \in {"list", "browse", "queued"},
         job[j].task = "list", NEW p \in Records, GoesOn(job'[j], p),
         p.kind = "list" /\ p.task = "list" /\ p.quiet = job[j].quiet /\ p.seen = job[j].seen,
         \A n \in Modules : \/ p.entries[n] \in {0, job[j].entries[n]}
                            \/ Is(n) /\ p.entries[n] = disk[n]
  PROVE  Listing(j)
<1>1. /\ Idle.pc = "idle" /\ Idle.kind = "none" /\ Idle.quiet = {} /\ Idle.seen = {}
      /\ \A n \in Modules : Idle.entries[n] = 0
  BY DEF Idle, Unread
<1>2. CASE job'[j] = Idle
  BY <1>1, <1>2 DEF Listing
<1>3. CASE job'[j] # Idle
  BY <1>3 DEF Listing, GoesOn
<1> QED BY <1>2, <1>3

LEMMA Listings ==
  ASSUME TypeInv, NEW j \in Jobs, ListStep(j)
  PROVE  Listing(j)
<1> DEFINE q == job[j]
<1>0. q \in Records /\ Stands(q)
  BY DEF TypeInv, JobsSound, Sound
<1>3. CASE ListDirs(j)
  <2> DEFINE p == [q EXCEPT !.todo = {m \in @ : disk[m] # Gone}]
  <2>1. q.pc = "list" /\ q.task = "list" /\ q.kind = "list"
    BY <1>0, <1>3 DEF ListDirs, Stands
  <2>2. /\ p \in Records /\ p.kind = "list" /\ p.task = "list" /\ p.quiet = q.quiet
        /\ p.seen = q.seen /\ p.entries = q.entries
    <3> HIDE DEF q
    <3> QED BY <1>0, <2>1 DEF Records
  <2>3. job'[j] = Browsing(p)
    BY <1>3, Lands DEF ListDirs
  <2> HIDE DEF p
  <2>4. GoesOn(job'[j], p)
    BY <2>2, <2>3, BrowsingGoesOn
  <2> QED BY <2>1, <2>2, <2>4, GoneOnListing
<1>4. ASSUME NEW m \in Modules, Browse(j, m) PROVE Listing(j)
  <2> DEFINE r == [q EXCEPT !.todo = @ \ {m}]
             p == IF Is(m) THEN [r EXCEPT !.entries[m] = disk[m]] ELSE r
  <2>1. q.pc = "browse" /\ q.task = "list" /\ q.kind = "list"
    BY <1>0, <1>4 DEF Browse, Stands
  <2>2. /\ r \in Records /\ r.kind = "list" /\ r.task = "list" /\ r.quiet = q.quiet
        /\ r.seen = q.seen /\ r.entries = q.entries
    <3> HIDE DEF q
    <3> QED BY <1>0, <2>1 DEF Records
  <2>3. Is(m) => disk[m] \in Nat
    BY DEF Is, TypeInv, DataTyped, Serials
  <2>4. job'[j] = Browsing(p)
    BY <1>4, Lands DEF Browse
  <2> HIDE DEF r
  <2>5. /\ p \in Records /\ p.kind = "list" /\ p.task = "list" /\ p.quiet = q.quiet
        /\ p.seen = q.seen
        /\ \/ Is(m) /\ p.entries = [q.entries EXCEPT ![m] = disk[m]]
           \/ p.entries = q.entries
    <3> HIDE DEF q
    <3> QED BY <2>2, <2>3 DEF Records
  <2>6. q.entries \in [Modules -> Nat]
    BY <1>0 DEF Records
  <2> HIDE DEF p
  <2>7. GoesOn(job'[j], p)
    BY <2>4, <2>5, BrowsingGoesOn
  <2>8. \A n \in Modules : \/ p.entries[n] \in {0, q.entries[n]}
                           \/ Is(n) /\ p.entries[n] = disk[n]
    BY <2>5, <2>6
  <2>9. job[j].pc \in {"list", "browse", "queued"} /\ job[j].task = "list"
    BY <2>1
  <2>10. /\ p \in Records
         /\ p.kind = "list" /\ p.task = "list" /\ p.quiet = q.quiet /\ p.seen = q.seen
    BY <2>5
  <2> QED BY <2>7, <2>8, <2>9, <2>10, GoneOnListing
<1>5. ASSUME NEW m \in Modules, StartListed(j, m) PROVE Listing(j)
  <2> DEFINE p == [q EXCEPT !.entries[m] = 0]
             r == [q EXCEPT !.pc = "load", !.at = q.entries[m]]
  <2>1. q.pc = "queued" /\ q.task = "list" /\ q.kind = "list"
    BY <1>0, <1>5 DEF StartListed, Stands
  <2>2. /\ p \in Records /\ p.kind = "list" /\ p.task = "list" /\ p.quiet = q.quiet
        /\ p.seen = q.seen /\ p.entries = [q.entries EXCEPT ![m] = 0]
    <3> HIDE DEF q
    <3> QED BY <1>0, <2>1 DEF Records
  <2>3. /\ r.pc = "load" /\ r.kind = "list" /\ r.task = "list" /\ r.quiet = q.quiet
        /\ r.seen = q.seen /\ r.entries = q.entries
    <3> HIDE DEF q
    <3> QED BY <1>0, <2>1 DEF Records
  <2>4. job'[j] = Listed(p) \/ (job'[j] = r /\ pass' = j)
    <3>1. CASE registry[m] # 0
      BY <1>5, <3>1, Lands DEF StartListed
    <3>2. CASE registry[m] = 0
      BY <1>5, <3>2, Lands DEF StartListed
    <3> QED BY <3>1, <3>2
  <2>5. q.entries \in [Modules -> Nat]
    BY <1>0 DEF Records
  <2> HIDE DEF p, r
  <2>6. CASE job'[j] = Listed(p)
    <3>1. GoesOn(job'[j], p)
      BY <2>2, <2>6, BrowsingGoesOn
    <3>2. \A n \in Modules : p.entries[n] \in {0, q.entries[n]}
      BY <2>2, <2>5
    <3> QED BY <2>1, <2>2, <3>1, <3>2, GoneOnListing
  <2>7. CASE job'[j] = r /\ pass' = j
    BY <2>1, <2>3, <2>7 DEF Listing
  <2> QED BY <2>4, <2>6, <2>7
<1> QED BY <1>3, <1>4, <1>5 DEF ListStep

(* The end of a pass. *)
LEMMA EndsIn ==
  ASSUME TypeInv, NEW j \in Jobs, EndPass(j)
  PROVE  LET p == [job[j] EXCEPT !.seen = {}, !.quiet = {}] IN
         \/ job'[j] = Idle \/ job'[j] = [p EXCEPT !.pc = "act"]
         \/ p.kind = "install" /\ job'[j] = [p EXCEPT !.pc = "clear", !.kind = "purge"]
         \/ job[j].task = "list" /\ job'[j] = [p EXCEPT !.pc = "queued"]
<1> DEFINE p == [job[j] EXCEPT !.seen = {}, !.quiet = {}]
<1>0. p.task = job[j].task
  BY DEF TypeInv, JobsSound, JobsTyped, Records
<1>1. job'[j] = AfterPass(p)
  BY Lands, Zenon DEF EndPass
<1> HIDE DEF p
<1> SUFFICES \/ job'[j] = Idle \/ job'[j] = [p EXCEPT !.pc = "act"]
             \/ p.kind = "install" /\ job'[j] = [p EXCEPT !.pc = "clear", !.kind = "purge"]
             \/ p.task = "list" /\ job'[j] = [p EXCEPT !.pc = "queued"]
  BY <1>0 DEF p
<1>2. CASE p.task = "admin"
  BY <1>1, <1>2 DEF AfterPass
<1>3. CASE p.task = "sync" /\ p.kind = "install" /\ p.failed
  BY <1>1, <1>3 DEF AfterPass
<1>4. CASE p.task = "list"
  BY <1>1, <1>4 DEF AfterPass, Listed
<1>5. CASE /\ p.task # "admin" /\ p.task # "list"
           /\ ~(p.task = "sync" /\ p.kind = "install" /\ p.failed)
  BY <1>1, <1>5 DEF AfterPass
<1> QED BY <1>2, <1>3, <1>4, <1>5

LEMMA Moving ==
  ASSUME TypeInv, NEW j \in Jobs, Step(j) \/ Fault(j)
  PROVE  OnItsWay(j)
<1> DEFINE q == job[j]
<1>0. q \in Records /\ Idle.kind = "none" /\ Idle.pc = "idle"
  BY DEF TypeInv, JobsSound, JobsTyped, Idle
<1>1. ASSUME NEW task, NEW scope PROVE Queued(q, task, scope).kind = q.kind /\ Queued(q, task, scope).pc = "queued"
  BY <1>0 DEF Queued, Records
<1>2. CASE Resolve(j)
  <2>1. job'[j] = [q EXCEPT !.pc = "act"] \/ job'[j] = Queued(q, "admin", {q.mod})
    BY <1>2, Lands DEF Resolve
  <2> QED BY <1>0, <1>1, <1>2, <2>1 DEF OnItsWay, Resolve, Records
<1>3. CASE Act(j)
  <2>0. q.kind \in Asked
    BY <1>3, NotAt DEF Act, Sound, Stands
  <2>1. \/ job'[j] = Idle \/ job'[j] = [q EXCEPT !.pc = "clear"]
        \/ job'[j] = Queued(q, "sync", {q.mod}) \/ job'[j] = [q EXCEPT !.pc = "repause"]
    <3>1. CASE q.kind = "uninstall"
      <4>1. Goes(j, Idle) \/ Goes(j, [q EXCEPT !.pc = "clear"])
        BY <1>3, <3>1 DEF Act
      <4> QED BY <4>1, Lands
    <3>2. CASE q.kind = "enable"
      <4>1. job' = [Unpaused(q.mod) EXCEPT ![j] = Queued(q, "sync", {q.mod})]
        BY <1>3, <3>2 DEF Act
      <4> QED BY <4>1, LandsUnpaused
    <3>3. CASE q.kind = "disable"
      <4>1. Goes(j, Queued(q, "sync", {q.mod}))
        BY <1>3, <3>3 DEF Act
      <4> QED BY <4>1, Lands
    <3>4. CASE q.kind = "clear"
      <4>1. \/ job' = [Unpaused(q.mod) EXCEPT ![j] = [q EXCEPT !.pc = "repause"]]
            \/ job' = [Unpaused(q.mod) EXCEPT ![j] = Idle]
        BY <1>3, <3>4 DEF Act
      <4>2. CASE job' = [Unpaused(q.mod) EXCEPT ![j] = [q EXCEPT !.pc = "repause"]]
        BY <4>2, LandsUnpaused
      <4>3. CASE job' = [Unpaused(q.mod) EXCEPT ![j] = Idle]
        BY <4>3, LandsUnpaused
      <4> QED BY <4>1, <4>2, <4>3
    <3>5. CASE q.kind = "consult"
      <4>1. Goes(j, Idle)
        BY <1>3, <3>5 DEF Act
      <4> QED BY <4>1, Lands
    <3> QED BY <2>0, <3>1, <3>2, <3>3, <3>4, <3>5 DEF Asked
  <2> QED BY <1>0, <1>1, <1>3, <2>1 DEF OnItsWay, Act, Records
<1>4. CASE Repause(j) \/ ClearConfig(j)
  <2>1. job'[j] = Idle
    <3>1. Goes(j, Idle) \/ job' = [Unpaused(q.mod) EXCEPT ![j] = Idle]
      BY <1>4 DEF Repause, ClearConfig
    <3>2. CASE Goes(j, Idle)
      BY <3>2, Lands
    <3>3. CASE job' = [Unpaused(q.mod) EXCEPT ![j] = Idle]
      BY <3>3, LandsUnpaused
    <3> QED BY <3>1, <3>2, <3>3
  <2> QED BY <1>0, <1>4, <2>1 DEF OnItsWay, Repause, ClearConfig
<1>5. CASE StartPass(j)
  <2>1. \/ job'[j] = [q EXCEPT !.pc = "act", !.todo = {}]
        \/ job'[j] = [q EXCEPT !.pc = "scan", !.quiet = paused,
                               !.todo = {m \in @ : disk[m] # Gone}]
    BY <1>5, Lands DEF StartPass
  <2> QED BY <1>0, <1>5, <2>1 DEF OnItsWay, StartPass, Records
<1>6. ASSUME NEW m \in Modules, Scan(j, m)
      PROVE  q.pc = "scan" /\ job'[j].pc = "scan" /\ job'[j].kind = q.kind
  <2>1. \/ job'[j] = [[q EXCEPT !.todo = @ \ {m}] EXCEPT !.entries[m] = disk[m], !.seen = @ \cup {m}]
        \/ job'[j] = [[q EXCEPT !.todo = @ \ {m}] EXCEPT !.refused = @ \cup {m}, !.seen = @ \cup {m}]
    BY <1>6, Lands DEF Scan
  <2> QED BY <1>0, <1>6, <2>1 DEF OnItsWay, Scan, Records
<1>7. CASE Sift(j)
  <2>1. job'[j] = [q EXCEPT !.pc = "load", !.failed = q.mod \in q.refused, !.refused = {}]
    BY <1>7, Lands DEF Sift
  <2> QED BY <1>0, <1>7, <2>1 DEF OnItsWay, Sift, Records
<1>8. ASSUME NEW m \in Modules, Load(j, m)
      PROVE  q.pc = "load" /\ job'[j].pc = "load" /\ job'[j].kind = q.kind
  <2>1. job'[j] = [q EXCEPT !.entries[m] = 0] \/ job'[j] = [q EXCEPT !.at = q.entries[m]]
    BY <1>8, Lands DEF Load
  <2> QED BY <1>0, <1>8, <2>1 DEF OnItsWay, Load, Records
<1>9. ASSUME NEW m \in Modules, Import(j, m)
      PROVE  q.pc = "load" /\ job'[j].pc = "load" /\ job'[j].kind = q.kind
  <2> DEFINE done == [q EXCEPT !.entries[m] = 0, !.at = 0]
  <2>1. \/ job'[j] = done
        \/ job'[j] = [done EXCEPT !.failed = q.failed \/ m = q.mod]
    BY <1>9, Lands DEF Import
  <2>2. q.pc = "load"
    BY <1>9, NotAt DEF Import, Sound, Stands
  <2> QED BY <1>0, <2>1, <2>2 DEF OnItsWay, Records
<1>10. CASE EndPass(j)
  <2> DEFINE p == [q EXCEPT !.seen = {}, !.quiet = {}]
  <2>1. \/ job'[j] = Idle \/ job'[j] = [p EXCEPT !.pc = "act"]
        \/ job'[j] = [p EXCEPT !.pc = "clear", !.kind = "purge"]
        \/ job'[j] = [p EXCEPT !.pc = "queued"]
    BY <1>0, <1>10, EndsIn
  <2>2. job[j].pc = "load" /\ job[j].pc \notin {"idle", "boot", "open", "write"}
    BY <1>10 DEF EndPass
  <2>3. p \in Records /\ p.kind = q.kind /\ p.pc = "load"
    BY <1>0, <2>2 DEF Records
  <2> HIDE DEF p
  <2>4. /\ job'[j].pc \notin {"boot", "open", "write"}
        /\ job'[j].kind \in {"start", "graph"} => job'[j].kind = q.kind
    BY <1>0, <2>1, <2>3 DEF Records
  <2> QED BY <2>2, <2>4 DEF OnItsWay
<1>11. CASE Clear(j) \/ Rm(j) \/ Rename(j)
  <2>1. \/ job'[j] = Idle
        \/ \E p \in {"rm", "rename", "leave", "state"} : job'[j] = [q EXCEPT !.pc = p]
    BY <1>11, Lands DEF Clear, Rm, Rename
  <2> QED BY <1>0, <1>11, <2>1 DEF OnItsWay, Clear, Rm, Rename, Records
<1>18. CASE OpenState(j)
  <2>1. job'[j] = [q EXCEPT !.pc = "write"]
    BY <1>18, Lands DEF OpenState
  <2> QED BY <1>0, <1>18, <2>1 DEF OnItsWay, OpenState, Records
<1>12. CASE Leave(j)
  <2>1. \/ job'[j] = Queued(q, "sync", {q.mod})
        \/ \E p \in {"state", "config"} : job'[j] = [q EXCEPT !.pc = p]
    BY <1>12, Lands DEF Leave
  <2>2. q.pc = "leave"
    BY <1>12 DEF Leave
  <2>3. job'[j].kind = q.kind /\ job'[j].pc \notin {"boot", "open", "write"}
    BY <1>0, <1>1, <2>1 DEF Records
  <2> QED BY <2>2, <2>3 DEF OnItsWay
<1>13. CASE ReadState(j)
  <2>1. \/ job'[j] = [q EXCEPT !.pc = "leave"]
        \/ \E next : job'[j] = [q EXCEPT !.pc = "open", !.next = next]
    BY <1>13, Lands DEF ReadState
  <2> QED BY <1>0, <1>13, <2>1 DEF OnItsWay, ReadState, Records
<1>14. CASE WriteState(j)
  <2>1. \E p \in {"config", "leave"} : job'[j] = [q EXCEPT !.pc = p, !.next = {}]
    BY <1>14, Lands DEF WriteState
  <2> QED BY <1>0, <1>14, <2>1 DEF OnItsWay, WriteState, Records
<1>15. CASE Fault(j)
  <2>1. CASE StateUnread(j)
    <3>1. \/ job'[j] = [q EXCEPT !.pc = "leave"]
          \/ job'[j] = [q EXCEPT !.pc = "open", !.next = {q.mod}]
      BY <2>1, Lands DEF StateUnread
    <3> QED BY <1>0, <2>1, <3>1 DEF OnItsWay, StateUnread, Records
  <2>2. CASE RmFails(j) \/ RenameFails(j) \/ StateFails(j)
    <3>1. job'[j] = Idle
      BY <2>2, Lands DEF RmFails, RenameFails, StateFails
    <3> QED BY <1>0, <2>2, <3>1 DEF OnItsWay, RmFails, RenameFails, StateFails, InWrite
  <2> QED BY <1>15, <2>1, <2>2 DEF Fault
<1>19. CASE ListStep(j)
  BY <1>19, Listings DEF Listing, OnItsWay
<1>16. CASE PassStep(j)
  <2>1. CASE \E m \in Modules : Scan(j, m) \/ Load(j, m) \/ Import(j, m)
    BY <2>1, <1>6, <1>8, <1>9 DEF OnItsWay
  <2> QED BY <1>5, <1>7, <1>10, <1>16, <2>1 DEF OnItsWay, PassStep
<1>17. CASE DiskStep(j)
  BY <1>11, <1>12, <1>13, <1>14, <1>17, <1>18 DEF DiskStep
<1> QED BY <1>2, <1>3, <1>4, <1>15, <1>16, <1>17, <1>19 DEF Step

-----------------------------------------------------------------------------
(* A removal outlives the restarts.                                        *)

(* While the process starts, no request is under way. *)
StartsAlone ==
  job["graph"].kind = "start" => \A r \in Requests : job[r].pc = "idle"

(* What the write of q will leave of the decisions. *)
Intended(q) == IF q.kind = "uninstall" THEN dropped \cup {q.mod} ELSE dropped \ {q.mod}

OneWriter == \A j, k \in Jobs : InWrite(j) /\ InWrite(k) => j = k

WritesIntended == \A j \in Jobs : InWrite(j) => job[j].next = Intended(job[j])

(* The file holds the decisions, unless it is being written. *)
FileTells ==
  IF \E j \in Jobs : job[j].pc = "write" THEN removed = Torn ELSE removed = dropped

Told == ~blurred => OneWriter /\ WritesIntended /\ FileTells

(* A start that could not read the file says so. *)
BootKnows == job["graph"].pc = "boot" /\ job["graph"].failed => blurred

RemovalInv == TypeInv /\ StartsAlone /\ Told /\ BootKnows

LEMMA StartsAloneStep ==
  ASSUME TypeInv, StartsAlone, [Next]_vars
  PROVE  StartsAlone'
<1>0. "graph" \in Jobs /\ \A r \in Requests : r \in Jobs /\ r # "graph"
  BY GraphIsJob
<1> SUFFICES ASSUME job'["graph"].kind = "start", NEW r \in Requests PROVE job'[r].pc = "idle"
  BY DEF StartsAlone
<1>1. ASSUME NEW m \in Origins, Bootstrap(m) \/ BootstrapFails(m) PROVE job'[r].pc = "idle"
  <2>1. Goes("graph", [job["graph"] EXCEPT !.todo = @ \ {m}]) /\ job["graph"].pc = "boot"
    BY <1>1 DEF Bootstrap, BootstrapFails
  <2>2. job["graph"].kind = "start"
    BY <1>0, <2>1, NotAt DEF Sound, Stands
  <2> QED BY <1>0, <2>1, <2>2, Lands DEF StartsAlone
<1>2. CASE Booted
  <2>1. \E q : Goes("graph", q)
    BY <1>2 DEF Booted
  <2>2. job["graph"].kind = "start"
    BY <1>0, <1>2, NotAt DEF Booted, Sound, Stands
  <2> QED BY <1>0, <2>1, <2>2, Lands DEF StartsAlone
<1>3. CASE Graph
  <2>1. job'["graph"] = Queued([Idle EXCEPT !.kind = "graph"], "sync", Modules)
    BY <1>0, <1>3, Lands DEF Graph
  <2> QED BY <2>1 DEF Queued, Idle
<1>8. CASE BootUnread
  <2>1. \E q : Goes("graph", q)
    BY <1>8 DEF BootUnread
  <2>2. job["graph"].kind = "start"
    BY <1>0, <1>8, NotAt DEF BootUnread, Sound, Stands
  <2> QED BY <1>0, <2>1, <2>2, Lands DEF StartsAlone
<1>4. CASE Admin
  <2>1. PICK s \in Requests : \E q : Arrive(s, q)
    BY <1>4 DEF Admin, Install, Restore, Ask, List
  <2> QED BY <1>0, <2>1, Lands DEF Arrive
<1>5. ASSUME NEW j \in Jobs, Step(j) \/ Fault(j) PROVE job'[r].pc = "idle"
  <2>1. job["graph"].kind = "start"
    <3>1. CASE j = "graph"
      BY <1>5, <3>1, Moving DEF OnItsWay
    <3>2. CASE j # "graph"
      BY <1>0, <1>5, <3>2, OthersKeep DEF Keeps
    <3> QED BY <3>1, <3>2
  <2>2. job[r].pc = "idle"
    BY <2>1 DEF StartsAlone
  <2>3. r # j
    BY <1>5, <2>2, Moving DEF OnItsWay
  <2> QED BY <1>0, <1>5, <2>2, <2>3, OthersKeep DEF Keeps
<1>6. CASE Restart
  BY <1>0, <1>6 DEF Restart, Idle
<1>7. CASE UNCHANGED vars
  BY <1>7 DEF vars, StartsAlone
<1> QED BY <1>1, <1>2, <1>3, <1>4, <1>5, <1>6, <1>7, <1>8 DEF Next

(* A step that neither writes the file nor changes who does. *)
SameWrite(k) ==
  \/ /\ job'[k].pc = job[k].pc /\ job'[k].kind = job[k].kind
     /\ job'[k].mod = job[k].mod /\ job'[k].next = job[k].next
  \/ job[k].pc \notin {"open", "write"} /\ job'[k].pc \notin {"open", "write"}

LEMMA Elsewhere ==
  ASSUME Told, UNCHANGED <<removed, dropped, blurred>>, \A k \in Jobs : SameWrite(k)
  PROVE  Told'
<1> SUFFICES ASSUME ~blurred PROVE OneWriter' /\ WritesIntended' /\ FileTells'
  BY DEF Told
<1>1. \A k \in Jobs : (InWrite(k)' <=> InWrite(k)) /\ (job'[k].pc = "write" <=> job[k].pc = "write")
  BY DEF SameWrite, InWrite
<1>2. OneWriter'
  BY <1>1 DEF Told, OneWriter
<1>3. ASSUME NEW k \in Jobs, InWrite(k)' PROVE job'[k].next = Intended(job[k])' 
  <2>1. job'[k].kind = job[k].kind /\ job'[k].mod = job[k].mod /\ job'[k].next = job[k].next
    BY <1>3 DEF SameWrite, InWrite
  <2> QED BY <1>1, <1>3, <2>1 DEF Told, WritesIntended, Intended
<1>4. FileTells'
  BY <1>1 DEF Told, FileTells
<1> QED BY <1>2, <1>3, <1>4 DEF WritesIntended

LEMMA ElsewhereTold ==
  ASSUME TypeInv, TypeInv', Told, NEW j \in Jobs, UNCHANGED <<removed, dropped, blurred>>,
         \A k \in Jobs \ {j} : Keeps(k), ~InWrite(j), job'[j].pc \notin {"open", "write"}
  PROVE  Told'
<1>1. \A k \in Jobs : SameWrite(k)
  BY DEF SameWrite, Keeps, InWrite
<1> QED BY <1>1, Elsewhere

(* The file is read, opened and written. *)
LEMMA ReadTold ==
  ASSUME TypeInv, Told, NEW j \in Jobs, ReadState(j)
  PROVE  Told'
<1> DEFINE q == job[j]
<1>0. q \in Records /\ q.pc = "state" /\ q.kind \in {"uninstall", "restore"}
      /\ dropped \subseteq Origins
  BY NotAt DEF ReadState, Sound, Stands, TypeInv, DataTyped
<1>1. UNCHANGED <<removed, dropped>>
  BY DEF ReadState
<1> SUFFICES ASSUME ~blurred' PROVE OneWriter' /\ WritesIntended' /\ FileTells'
  BY DEF Told
<1>2. ~blurred /\ \A k \in Jobs \ {j} : ~InWrite(k)
  BY DEF ReadState
<1>3. removed = dropped
  <2>1. ~\E k \in Jobs : job[k].pc = "write"
    BY <1>0, <1>2 DEF InWrite
  <2> QED BY <1>2, <2>1 DEF Told, FileTells
<1>4. Remembered = dropped
  BY <1>0, <1>3, Distinct DEF Remembered
<1>5. \A k \in Jobs \ {j} : job'[k] = job[k]
  BY Lands DEF ReadState
<1>6. \/ job'[j] = [q EXCEPT !.pc = "leave"]
      \/ job'[j] = [q EXCEPT !.pc = "open", !.next = Intended(q)]
  <2>1. \/ Goes(j, [q EXCEPT !.pc = "leave"])
        \/ Goes(j, [q EXCEPT !.pc = "open", !.next = Intended(q)])
    <3>1. CASE q.kind = "uninstall"
      <4>1. Goes(j, [q EXCEPT !.pc = "open", !.next = Remembered \cup {q.mod}])
        BY <3>1 DEF ReadState
      <4>2. Intended(q) = Remembered \cup {q.mod}
        BY <1>4, <3>1 DEF Intended
      <4> HIDE DEF q
      <4> QED BY <4>1, <4>2
    <3>2. CASE q.kind # "uninstall" /\ q.mod \in Remembered
      <4>1. Goes(j, [q EXCEPT !.pc = "open", !.next = Remembered \ {q.mod}])
        BY <3>2 DEF ReadState
      <4>2. Intended(q) = Remembered \ {q.mod}
        BY <1>4, <3>2 DEF Intended
      <4> HIDE DEF q
      <4> QED BY <4>1, <4>2
    <3>3. CASE q.kind # "uninstall" /\ q.mod \notin Remembered
      BY <3>3 DEF ReadState
    <3> QED BY <3>1, <3>2, <3>3
  <2> QED BY <2>1, Lands
<1>7. \A k \in Jobs : InWrite(k)' => k = j
  BY <1>2, <1>5 DEF InWrite
<1>8. job'[j].pc # "write"
      /\ (InWrite(j)' => job'[j].next = Intended(q) /\ Intended(job[j])' = Intended(q))
  <2>1. job'[j].kind = q.kind /\ job'[j].mod = q.mod /\ job'[j].pc # "write"
        /\ (job'[j].pc \in {"open", "write"} => job'[j].next = Intended(q))
    BY <1>0, <1>6 DEF Records
  <2> QED BY <1>1, <2>1 DEF InWrite, Intended
<1>9. OneWriter'
  BY <1>7 DEF OneWriter
<1>10. WritesIntended'
  BY <1>7, <1>8 DEF WritesIntended
<1>11. FileTells'
  BY <1>1, <1>3, <1>7, <1>8 DEF FileTells, InWrite
<1> QED BY <1>9, <1>10, <1>11

LEMMA OpenTold ==
  ASSUME TypeInv, Told, NEW j \in Jobs, OpenState(j)
  PROVE  Told'
<1> DEFINE q == job[j]
<1>0. q \in Records /\ q.pc = "open" /\ UNCHANGED <<dropped, blurred>> /\ removed' = Torn
  BY NotAt DEF OpenState, Sound
<1> SUFFICES ASSUME ~blurred PROVE OneWriter' /\ WritesIntended' /\ FileTells'
  BY <1>0 DEF Told
<1>1. job'[j] = [q EXCEPT !.pc = "write"] /\ \A k \in Jobs \ {j} : job'[k] = job[k]
  BY Lands DEF OpenState
<1>2. job'[j].pc = "write" /\ job'[j].kind = q.kind /\ job'[j].mod = q.mod
      /\ job'[j].next = q.next
  BY <1>0, <1>1 DEF Records
<1>3. \A k \in Jobs : InWrite(k)' <=> InWrite(k)
  BY <1>0, <1>1, <1>2 DEF InWrite
<1>4. OneWriter'
  BY <1>3 DEF Told, OneWriter
<1>5. ASSUME NEW k \in Jobs, InWrite(k)' PROVE job'[k].next = Intended(job[k])'
  <2>1. job[k].next = Intended(job[k])
    BY <1>3, <1>5 DEF Told, WritesIntended
  <2>2. job'[k].kind = job[k].kind /\ job'[k].mod = job[k].mod /\ job'[k].next = job[k].next
    BY <1>1, <1>2
  <2> QED BY <1>0, <2>1, <2>2 DEF Intended
<1>6. FileTells'
  BY <1>0, <1>2 DEF FileTells
<1> QED BY <1>4, <1>5, <1>6 DEF WritesIntended

LEMMA WriteTold ==
  ASSUME TypeInv, Told, NEW j \in Jobs, WriteState(j)
  PROVE  Told'
<1> DEFINE q == job[j]
<1>0. q \in Records /\ q.pc = "write" /\ blurred' = blurred
      /\ removed' = q.next /\ dropped' = Intended(q)
  BY NotAt DEF WriteState, Sound, Intended
<1> SUFFICES ASSUME ~blurred PROVE OneWriter' /\ WritesIntended' /\ FileTells'
  BY <1>0 DEF Told
<1>1. job'[j].pc \notin {"open", "write"} /\ \A k \in Jobs \ {j} : job'[k] = job[k]
  <2>1. \E p \in {"config", "leave"} : job'[j] = [q EXCEPT !.pc = p, !.next = {}]
    BY Lands DEF WriteState
  <2> QED BY <1>0, <2>1, Lands DEF WriteState, Records
<1>2. \A k \in Jobs : ~InWrite(k)'
  BY <1>0, <1>1 DEF Told, OneWriter, InWrite
<1>3. removed' = dropped'
  BY <1>0 DEF Told, WritesIntended, InWrite
<1> QED BY <1>2, <1>3 DEF OneWriter, WritesIntended, FileTells, InWrite

LEMMA ToldStep ==
  ASSUME TypeInv, TypeInv', Told, [Next]_vars
  PROVE  Told'
<1>0. "graph" \in Jobs /\ \A r \in Requests : r \in Jobs /\ r # "graph"
  BY GraphIsJob
<1>1. ASSUME NEW m \in Origins, Bootstrap(m) \/ BootstrapFails(m) PROVE Told'
  <2>1. Goes("graph", [job["graph"] EXCEPT !.todo = @ \ {m}]) /\ job["graph"].pc = "boot"
        /\ UNCHANGED <<removed, dropped, blurred>>
    BY <1>1 DEF Bootstrap, BootstrapFails, removals
  <2>2. job'["graph"].pc = "boot" /\ \A k \in Jobs \ {"graph"} : job'[k] = job[k]
    BY <1>0, <2>1, Lands DEF TypeInv, JobsSound, JobsTyped, Records
  <2> QED BY <2>1, <2>2, Elsewhere DEF SameWrite
<1>2. CASE Booted \/ Graph
  <2>1. /\ job["graph"].pc \in {"boot", "idle"} /\ UNCHANGED <<removed, dropped, blurred>>
        /\ \/ Goes("graph", Queued(job["graph"], "sync", Modules))
           \/ Goes("graph", Queued([Idle EXCEPT !.kind = "graph"], "sync", Modules))
    BY <1>2 DEF Booted, Graph, removals
  <2>2. job'["graph"].pc = "queued" /\ \A k \in Jobs \ {"graph"} : job'[k] = job[k]
    <3>1. Queued(job["graph"], "sync", Modules).pc = "queued"
      BY <1>0 DEF Queued, TypeInv, JobsSound, JobsTyped, Records
    <3>2. Queued([Idle EXCEPT !.kind = "graph"], "sync", Modules).pc = "queued"
      BY DEF Queued, Idle
    <3> QED BY <1>0, <2>1, <3>1, <3>2, Lands
  <2> QED BY <2>1, <2>2, Elsewhere DEF SameWrite
<1>7. CASE BootUnread
  BY <1>7 DEF BootUnread, Told
<1>3. CASE Admin
  <2>1. PICK s \in Requests : \E q : Arrive(s, q) /\ q.pc \in {"clear", "resolve", "list"}
    <3>1. Idle \in Records
      BY IdleSound, 0 \in Nat DEF Sound
    <3>2. ASSUME NEW x, NEW y, NEW z
          PROVE  [Idle EXCEPT !.pc = "clear", !.kind = x, !.mod = y, !.serial = z].pc = "clear"
                 /\ [Idle EXCEPT !.pc = "resolve", !.kind = x, !.mod = y].pc = "resolve"
      BY <3>1 DEF Records
    <3>3. PICK s \in Requests, m \in Modules :
            \/ Install(s, m) \/ Restore(s, m) \/ List(s)
            \/ \E kind \in Asked : Ask(s, m, kind)
      BY <1>3 DEF Admin, Asked
    <3> DEFINE Sent == \E q : Arrive(s, q) /\ q.pc \in {"clear", "resolve", "list"}
    <3>4. CASE Install(s, m)
      <4> DEFINE q == [Idle EXCEPT !.pc = "clear", !.kind = "install", !.mod = m,
                                   !.serial = installs']
      <4>1. Arrive(s, q) /\ q.pc = "clear"
        BY <3>2, <3>4 DEF Install
      <4> HIDE DEF q
      <4> QED BY <4>1
    <3>5. CASE Restore(s, m)
      <4> DEFINE q == [Idle EXCEPT !.pc = "clear", !.kind = "restore", !.mod = m,
                                   !.serial = installs']
      <4>1. Arrive(s, q) /\ q.pc = "clear"
        BY <3>2, <3>5 DEF Restore
      <4> HIDE DEF q
      <4> QED BY <4>1
    <3>6. ASSUME NEW kind \in Asked, Ask(s, m, kind) PROVE Sent
      <4> DEFINE q == [Idle EXCEPT !.pc = "resolve", !.kind = kind, !.mod = m]
      <4>1. Arrive(s, q) /\ q.pc = "resolve"
        BY <3>2, <3>6 DEF Ask
      <4> HIDE DEF q
      <4> QED BY <4>1
    <3>7. CASE List(s)
      <4> DEFINE q == [Idle EXCEPT !.pc = "list", !.kind = "list", !.task = "list",
                                   !.todo = {n \in Modules : registry[n] = 0}]
      <4>1. Arrive(s, q) /\ q.pc = "list"
        BY <3>1, <3>7 DEF List, Records
      <4> HIDE DEF q
      <4> QED BY <4>1
    <3> QED BY <3>3, <3>4, <3>5, <3>6, <3>7
  <2>2. job[s].pc = "idle" /\ job'[s].pc \in {"clear", "resolve", "list"}
        /\ \A k \in Jobs \ {s} : job'[k] = job[k]
    BY <1>0, <2>1, Lands DEF Arrive
  <2>3. UNCHANGED <<removed, dropped, blurred>>
    BY <2>1 DEF Arrive, removals
  <2> QED BY <2>2, <2>3, Elsewhere DEF SameWrite
<1>4. ASSUME NEW j \in Jobs, Step(j) \/ Fault(j) PROVE Told'
  <2>1. CASE ReadState(j) \/ OpenState(j) \/ WriteState(j)
    BY <2>1, ReadTold, OpenTold, WriteTold
  <2>2. CASE StateFails(j)
    <3>1. UNCHANGED <<removed, dropped>> /\ blurred' = (blurred \/ job[j].pc = "write")
          /\ job'[j].pc = "idle" /\ \A k \in Jobs \ {j} : job'[k] = job[k]
      BY <2>2, Lands DEF StateFails, Idle
    <3>2. CASE job[j].pc = "write"
      BY <3>1, <3>2 DEF Told
    <3>3. CASE job[j].pc # "write"
      <4> SUFFICES ASSUME ~blurred PROVE OneWriter' /\ WritesIntended' /\ FileTells'
        BY <3>1, <3>3 DEF Told
      <4>1. \A k \in Jobs : InWrite(k)' => k # j /\ InWrite(k)
        BY <3>1 DEF InWrite
      <4>2. \A k \in Jobs : job'[k].pc = "write" <=> job[k].pc = "write"
        BY <3>1, <3>3
      <4>3. OneWriter'
        BY <4>1 DEF Told, OneWriter
      <4>4. ASSUME NEW k \in Jobs, InWrite(k)' PROVE job'[k].next = Intended(job[k])'
        <5>1. job'[k] = job[k] /\ job[k].next = Intended(job[k])
          BY <3>1, <4>1, <4>4 DEF Told, WritesIntended
        <5> QED BY <3>1, <5>1 DEF Intended
      <4>5. FileTells'
        BY <3>1, <4>2 DEF Told, FileTells
      <4> QED BY <4>3, <4>4, <4>5 DEF WritesIntended
    <3> QED BY <3>2, <3>3
  <2>4. CASE StateUnread(j)
    BY <2>4 DEF StateUnread, Told
  <2>3. CASE ~(ReadState(j) \/ OpenState(j) \/ WriteState(j) \/ StateFails(j) \/ StateUnread(j))
    <3>1. ~InWrite(j) /\ job'[j].pc \notin {"open", "write"}
      BY <1>4, <2>3, Moving DEF OnItsWay, InWrite
    <3>2. UNCHANGED <<removed, dropped, blurred>>
      BY <1>4, <2>3 DEF Step, Fault, Resolve, Act, Repause, ClearConfig, PassStep, StartPass, Sift,
         EndPass, Scan, Load, Import, DiskStep, Clear, Rm, Rename, Leave, RmFails, RenameFails,
         ListStep, ListDirs, Browse, StartListed, removals
    <3>3. \A k \in Jobs \ {j} : Keeps(k)
      BY <1>4, OthersKeep
    <3> QED BY <3>1, <3>2, <3>3, ElsewhereTold
  <2> QED BY <2>1, <2>2, <2>3, <2>4
<1>5. CASE Restart
  <2>1. blurred' = (blurred \/ \E j \in Jobs : job[j].pc = "write")
        /\ UNCHANGED <<removed, dropped>>
        /\ \A j \in Jobs : job'[j].pc \in {"boot", "idle"}
    BY <1>5 DEF Restart, Starting, Idle
  <2> SUFFICES ASSUME ~blurred' PROVE OneWriter' /\ WritesIntended' /\ FileTells'
    BY DEF Told
  <2>2. \A k \in Jobs : ~InWrite(k)' /\ job'[k].pc # "write"
    BY <2>1 DEF InWrite
  <2>3. removed = dropped
    BY <2>1 DEF Told, FileTells
  <2> QED BY <2>1, <2>2, <2>3 DEF OneWriter, WritesIntended, FileTells
<1>6. CASE UNCHANGED vars
  BY <1>6 DEF vars, removals, Told, OneWriter, WritesIntended, FileTells, InWrite, Intended
<1> QED BY <1>1, <1>2, <1>3, <1>4, <1>5, <1>6, <1>7 DEF Next

LEMMA BootKnowsStep ==
  ASSUME TypeInv, StartsAlone, BootKnows, [Next]_vars
  PROVE  BootKnows'
<1>0. "graph" \in Jobs /\ \A r \in Requests : r \in Jobs /\ r # "graph"
  BY GraphIsJob
<1> SUFFICES ASSUME job'["graph"].pc = "boot", job'["graph"].failed PROVE blurred'
  BY DEF BootKnows
<1>1. ASSUME NEW m \in Origins, Bootstrap(m) \/ BootstrapFails(m) PROVE blurred'
  <2>1. /\ job'["graph"] = [job["graph"] EXCEPT !.todo = @ \ {m}]
        /\ job["graph"].pc = "boot" /\ blurred' = blurred
    BY <1>0, <1>1, Lands DEF Bootstrap, BootstrapFails, removals
  <2>2. job'["graph"].failed = job["graph"].failed
    BY <1>0, <2>1 DEF TypeInv, JobsSound, JobsTyped, Records
  <2> QED BY <2>1, <2>2 DEF BootKnows
<1>2. CASE Booted \/ Graph
  <2>1. job'["graph"].pc = "queued"
    <3>1. Queued(job["graph"], "sync", Modules).pc = "queued"
      BY <1>0 DEF Queued, TypeInv, JobsSound, JobsTyped, Records
    <3>2. Queued([Idle EXCEPT !.kind = "graph"], "sync", Modules).pc = "queued"
      BY DEF Queued, Idle
    <3> QED BY <1>0, <1>2, <3>1, <3>2, Lands DEF Booted, Graph
  <2> QED BY <2>1
<1>3. CASE BootUnread
  BY <1>3 DEF BootUnread
<1>4. CASE Admin
  <2>1. PICK s \in Requests : \E q : Arrive(s, q)
    BY <1>4 DEF Admin, Install, Restore, Ask, List
  <2>2. job'["graph"] = job["graph"] /\ blurred' = blurred
    BY <1>0, <2>1, Lands DEF Arrive, removals
  <2> QED BY <2>2 DEF BootKnows
<1>5. ASSUME NEW j \in Jobs, Step(j) \/ Fault(j) PROVE FALSE
  <2>1. j # "graph"
    BY <1>5, Moving DEF OnItsWay
  <2>2. job["graph"].pc = "boot"
    BY <1>0, <1>5, <2>1, OthersKeep DEF Keeps
  <2>3. job[j].pc = "idle"
    BY <1>0, <2>1, <2>2, NotAt DEF StartsAlone, Sound, Stands, Jobs
  <2> QED BY <1>5, <2>3, Moving DEF OnItsWay
<1>6. CASE Restart
  BY <1>0, <1>6 DEF Restart, Starting, Idle
<1>7. CASE UNCHANGED vars
  BY <1>7 DEF vars, removals, BootKnows
<1> QED BY <1>1, <1>2, <1>3, <1>4, <1>5, <1>6, <1>7 DEF Next

(* While the process starts, a step touches no directory whose removal is
   remembered. *)
LEMMA BootLeaves ==
  ASSUME RemovalInv, [Next]_vars, job["graph"].pc = "boot", NEW m \in dropped
  PROVE  disk'[m] = disk[m] \/ blurred
<1>0. "graph" \in Jobs /\ job["graph"].kind = "start"
      /\ \A r \in Requests : r \in Jobs /\ job[r].pc = "idle"
  BY GraphIsJob, NotAt DEF RemovalInv, StartsAlone, Sound, Stands
<1>1. \A j \in Jobs : job[j].pc \in {"boot", "idle"}
  BY <1>0 DEF Jobs
<1>2. ASSUME ~blurred PROVE m \in Remembered
  <2>1. removed = dropped /\ dropped \subseteq Origins
    BY <1>1, <1>2 DEF RemovalInv, Told, FileTells, TypeInv, DataTyped
  <2> QED BY <2>1, Distinct DEF Remembered
<1>3. m \in Modules /\ disk \in [Modules -> Serials \cup {Gone, Partial}]
  BY DEF RemovalInv, TypeInv, DataTyped
<1>4. ASSUME NEW o \in Origins, Bootstrap(o) \/ BootstrapFails(o)
      PROVE  disk'[m] = disk[m] \/ blurred
  <2>1. o = m => o \notin Remembered \/ blurred \/ disk' = disk
    <3>1. job["graph"].failed => blurred
      BY DEF RemovalInv, BootKnows
    <3> QED BY <1>4, <3>1 DEF Bootstrap, BootstrapFails, packages
  <2>2. disk' = disk \/ \E x : disk' = [disk EXCEPT ![o] = x]
    BY <1>4 DEF Bootstrap, BootstrapFails, packages
  <2> QED BY <1>2, <1>3, <2>1, <2>2
<1>5. CASE BootUnread \/ Booted \/ Graph \/ Restart
  BY <1>5 DEF BootUnread, Booted, Graph, Restart, packages
<1>6. CASE Admin
  <2>1. PICK s \in Requests : \E q : Arrive(s, q)
    BY <1>6 DEF Admin, Install, Restore, Ask, List
  <2> QED BY <2>1 DEF Arrive
<1>7. ASSUME NEW j \in Jobs, Step(j) \/ Fault(j) PROVE FALSE
  BY <1>1, <1>7, Moving DEF OnItsWay, RemovalInv
<1>8. CASE UNCHANGED vars
  BY <1>8 DEF vars, packages
<1> QED BY <1>4, <1>5, <1>6, <1>7, <1>8 DEF Next

LEMMA RemovalInit == Init => RemovalInv
<1> SUFFICES ASSUME Init PROVE RemovalInv
  OBVIOUS
<1>1. \A j \in Jobs : job[j].pc \in {"boot", "idle"} /\ (j # "graph" => job[j].pc = "idle")
  BY DEF Init, Starting, Idle
<1>2. StartsAlone
  BY <1>1, GraphIsJob DEF StartsAlone
<1>3. Told
  BY <1>1 DEF Told, OneWriter, WritesIntended, FileTells, InWrite, Init
<1>4. BootKnows
  BY GraphIsJob DEF Init, BootKnows, Starting, Idle
<1> QED BY <1>2, <1>3, <1>4, InitTyped DEF RemovalInv

(* origin.ts:12-13: for any modules, requests, restarts and failures of the
   disk, the start installs again nothing whose removal was written down, unless
   two writes of the file overlapped, one was cut, or the file once could not be
   read. *)
THEOREM RemovalLasts == Spec => RemovalHolds
<1>1. RemovalInv /\ [Next]_vars => RemovalInv'
  BY TypeStep, StartsAloneStep, ToldStep, BootKnowsStep DEF RemovalInv
<1>2. RemovalInv /\ [Next]_vars =>
        [job["graph"].pc = "boot" => \A m \in dropped : disk'[m] = disk[m] \/ blurred]_vars
  BY BootLeaves
<1> QED BY RemovalInit, <1>1, <1>2, PTL DEF Spec, RemovalHolds

-----------------------------------------------------------------------------
(* A module on pause stays out of the graphs.                              *)

InPass(j) == job[j].pc \in {"scan", "load"}
Syncs(j) == InPass(j) /\ job[j].task = "sync"

(* Passes come one at a time. *)
OnePass(j) == InPass(j) => pass = j

(* What a pass took down is forgotten with it. *)
Fresh(j) == ~InPass(j) => job[j].quiet = {} /\ job[j].seen = {}

(* A module that was on pause at the start of a pass, and not taken off it
   since, is on pause. *)
QuietPaused(j) == job[j].quiet \subseteq paused

(* The graph begins with a pass that reads the pauses. *)
GraphSyncs(j) ==
  job[j].kind \in {"start", "graph"} =>
    j = "graph" /\ (job[j].pc \in {"queued", "scan", "load"} => job[j].task = "sync")

(* Such a pass imports no module that was on pause when it began ... *)
ImportsUnpaused(j) ==
  Syncs(j) /\ job[j].at # 0 =>
    \A m \in Modules : job[j].entries[m] = job[j].at => m \notin job[j].quiet

(* ... and takes out of the registry those it has dealt with. *)
OutOrRefused(j) ==
  Syncs(j) => \A m \in job[j].quiet \cap job[j].seen :
    job[j].entries[m] = 0 =>
      IF job[j].pc = "scan" THEN m \in job[j].refused ELSE registry[m] = 0

Orderly(j) ==
  /\ OnePass(j) /\ Fresh(j) /\ QuietPaused(j)
  /\ GraphSyncs(j) /\ ImportsUnpaused(j) /\ OutOrRefused(j)

(* An installation is that of one module. *)
Owned(own) ==
  /\ \A m \in Modules : Is(m) => own[disk[m]] = m
  /\ \A j \in Jobs : job[j].kind \in Placing => own[job[j].serial] = job[j].mod
  /\ \A j \in Jobs, m \in Modules :
       job[j].entries[m] # 0 => own[job[j].entries[m]] = m

OneOwner == \E own \in [Serials -> Modules] : Owned(own)

PauseInv == TypeInv /\ (\A j \in Jobs : Orderly(j)) /\ OneOwner

(* The jobs that a step leaves alone. *)
LEMMA OthersOrderly ==
  ASSUME NEW k \in Jobs, Orderly(k), Keeps(k), job'[k].quiet \subseteq paused',
         InPass(k) => pass' = pass /\ \A m \in Modules : registry'[m] \in {registry[m], 0},
         TypeInv
  PROVE  Orderly(k)'
<1>0. job[k].quiet \subseteq Modules
  BY DEF TypeInv, JobsSound, JobsTyped, Records
<1>1. OnePass(k)'
  BY DEF Orderly, OnePass, Keeps, InPass
<1>2. Fresh(k)'
  BY DEF Orderly, Fresh, Keeps, InPass
<1>3. QuietPaused(k)'
  BY DEF QuietPaused
<1>4. GraphSyncs(k)'
  BY DEF Orderly, GraphSyncs, Keeps
<1>5. ImportsUnpaused(k)'
  BY DEF Orderly, ImportsUnpaused, Keeps, Syncs, InPass
<1>6. OutOrRefused(k)'
  BY <1>0 DEF Orderly, OutOrRefused, Keeps, Syncs, InPass
<1> QED BY <1>1, <1>2, <1>3, <1>4, <1>5, <1>6 DEF Orderly

(* While j is in its pass, nobody else is. *)
LEMMA OthersOut ==
  ASSUME NEW j \in Jobs, NEW k \in Jobs \ {j}, Orderly(k), Keeps(k), TypeInv,
         pass \in {j, Nobody}, paused' = paused
  PROVE  Orderly(k)'
<1>1. ~InPass(k)
  BY Distinct DEF Orderly, OnePass
<1> QED BY <1>1, OthersOrderly DEF Orderly, QuietPaused, Keeps

(* A step that takes no part in a pass, nor reads any directory. *)
Mild(q, r) ==
  /\ r.pc \notin {"scan", "load"}
  /\ r.quiet \subseteq q.quiet /\ r.seen \subseteq q.seen
  /\ r.entries \in {q.entries, Unread}
  /\ r.kind \in Placing => q.kind \in Placing /\ r.mod = q.mod /\ r.serial = q.serial
  /\ r.pc = "queued" => r.task = "sync" \/ r.kind \in Asked

LEMMA MildIdle ==
  ASSUME NEW q
  PROVE  Mild(q, Idle)
<1>1. Idle.pc = "idle" /\ Idle.quiet = {} /\ Idle.seen = {} /\ Idle.entries = Unread
      /\ Idle.kind = "none"
  BY DEF Idle
<1> QED BY <1>1 DEF Mild, Placing

LEMMA MildPc ==
  ASSUME NEW q \in Records, NEW p \in Steps \ {"scan", "load", "queued"}
  PROVE  Mild(q, [q EXCEPT !.pc = p])
BY DEF Mild, Records

LEMMA MildQueued ==
  ASSUME NEW q \in Records, NEW s, NEW t \in {"sync", "admin"}, t = "admin" => q.kind \in Asked
  PROVE  Mild(q, Queued(q, t, s))
BY DEF Mild, Records, Queued

Outside(j) ==
  \/ Resolve(j) \/ Act(j) \/ Repause(j) \/ ClearConfig(j)
  \/ DiskStep(j) \/ Fault(j)

LEMMA OutsideMild ==
  ASSUME TypeInv, NEW j \in Jobs, Outside(j)
  PROVE  Mild(job[j], job'[j]) /\ ~InPass(j)
<1> DEFINE q == job[j]
<1>0. q \in Records
  BY DEF TypeInv, JobsSound, JobsTyped
<1> HIDE DEF q
<1>1. CASE Resolve(j)
  <2>1. q.kind \in Asked /\ q.pc = "resolve"
    BY <1>1, NotAt DEF Resolve, Sound, Stands, q
  <2>2. Goes(j, [q EXCEPT !.pc = "act"]) \/ Goes(j, Queued(q, "admin", {q.mod}))
    BY <1>1 DEF Resolve, q
  <2>3. job'[j] = [q EXCEPT !.pc = "act"] \/ job'[j] = Queued(q, "admin", {q.mod})
    BY <2>2, Lands
  <2> QED BY <1>0, <2>1, <2>3, MildIdle, MildPc, MildQueued DEF Steps, InPass, q
<1>2. CASE Act(j)
  <2>1. q.kind \in Asked /\ q.pc = "act"
    BY <1>2, NotAt DEF Act, Sound, Stands, q
  <2>2. \/ Goes(j, Idle) \/ Goes(j, [q EXCEPT !.pc = "clear"])
        \/ Goes(j, Queued(q, "sync", {q.mod}))
        \/ job' = [Unpaused(q.mod) EXCEPT ![j] = Queued(q, "sync", {q.mod})]
        \/ job' = [Unpaused(q.mod) EXCEPT ![j] = [q EXCEPT !.pc = "repause"]]
        \/ job' = [Unpaused(q.mod) EXCEPT ![j] = Idle]
    BY <1>2, <2>1 DEF Act, Asked, q
  <2>3. \/ job'[j] = Idle \/ job'[j] = [q EXCEPT !.pc = "clear"]
        \/ job'[j] = Queued(q, "sync", {q.mod}) \/ job'[j] = [q EXCEPT !.pc = "repause"]
    BY <2>2, Lands, LandsUnpaused
  <2> QED BY <1>0, <2>1, <2>3, MildIdle, MildPc, MildQueued DEF Steps, InPass, q
<1>3. CASE Repause(j) \/ ClearConfig(j)
  <2>1. Goes(j, Idle) \/ job' = [Unpaused(q.mod) EXCEPT ![j] = Idle]
    BY <1>3 DEF Repause, ClearConfig, q
  <2>2. CASE Goes(j, Idle)
    BY <1>0, <1>3, <2>2, Lands, MildIdle, MildPc, MildQueued DEF Repause, ClearConfig, InPass, q
  <2>3. CASE job' = [Unpaused(q.mod) EXCEPT ![j] = Idle]
    <3>1. job'[j] = Idle
      BY <2>3, LandsUnpaused
    <3> QED BY <1>0, <1>3, <3>1, MildIdle, MildPc, MildQueued DEF Repause, ClearConfig, InPass, q
  <2> QED BY <2>1, <2>2, <2>3
<1>4. CASE Clear(j) \/ Rm(j) \/ Rename(j) \/ OpenState(j)
  <2>1. \/ job'[j] = Idle
        \/ \E p \in {"rm", "rename", "leave", "state", "write"} : job'[j] = [q EXCEPT !.pc = p]
    BY <1>4, Lands DEF Clear, Rm, Rename, OpenState, q
  <2>2. ~InPass(j)
    BY <1>4 DEF Clear, Rm, Rename, OpenState, InPass
  <2> QED BY <1>0, <2>1, <2>2, MildIdle, MildPc, MildQueued DEF Steps, q
<1>5. CASE Leave(j)
  <2>1. \/ job'[j] = Queued(q, "sync", {q.mod})
        \/ \E p \in {"state", "config"} : job'[j] = [q EXCEPT !.pc = p]
    BY <1>5, Lands DEF Leave, q
  <2>2. ~InPass(j)
    BY <1>5 DEF Leave, InPass
  <2> QED BY <1>0, <2>1, <2>2, MildIdle, MildPc, MildQueued DEF Steps, q
<1>6. CASE ReadState(j) \/ WriteState(j)
  <2>1. \/ job'[j] = [q EXCEPT !.pc = "leave"]
        \/ \E p \in {"open", "config", "leave"} : \E s : job'[j] = [q EXCEPT !.pc = p, !.next = s]
    <3>1. CASE ReadState(j)
      BY <3>1, Lands DEF ReadState, q
    <3>2. CASE WriteState(j)
      BY <3>2, Lands DEF WriteState, q
    <3> QED BY <1>6, <3>1, <3>2
  <2>2. ~InPass(j)
    BY <1>6 DEF ReadState, WriteState, InPass
  <2>3. CASE job'[j] = [q EXCEPT !.pc = "leave"]
    BY <1>0, <2>2, <2>3, MildPc DEF Steps, q
  <2>4. ASSUME NEW p \in {"open", "config", "leave"}, NEW s,
               job'[j] = [q EXCEPT !.pc = p, !.next = s]
        PROVE  Mild(q, job'[j])
    BY <1>0, <2>4 DEF Mild, Records
  <2> QED BY <2>1, <2>2, <2>3, <2>4 DEF q
<1>7. CASE Fault(j)
  <2>1. CASE StateUnread(j)
    <3>1. \/ job'[j] = [q EXCEPT !.pc = "leave"]
          \/ job'[j] = [q EXCEPT !.pc = "open", !.next = {q.mod}]
      BY <2>1, Lands DEF StateUnread, q
    <3>2. ~InPass(j)
      BY <2>1 DEF StateUnread, InPass
    <3>3. CASE job'[j] = [q EXCEPT !.pc = "leave"]
      BY <1>0, <3>2, <3>3, MildPc DEF Steps, q
    <3>4. CASE job'[j] = [q EXCEPT !.pc = "open", !.next = {q.mod}]
      <4>1. Mild(q, job'[j])
        BY <1>0, <3>4 DEF Mild, Records
      <4> QED BY <3>2, <4>1 DEF q
    <3> QED BY <3>1, <3>3, <3>4
  <2>2. CASE RmFails(j) \/ RenameFails(j) \/ StateFails(j)
    <3>1. job'[j] = Idle /\ ~InPass(j)
      BY <2>2, Lands DEF RmFails, RenameFails, StateFails, InPass, InWrite
    <3> QED BY <1>0, <3>1, MildIdle, MildPc, MildQueued DEF q
  <2> QED BY <1>7, <2>1, <2>2 DEF Fault
<1> QED BY <1>1, <1>2, <1>3, <1>4, <1>5, <1>6, <1>7 DEF Outside, DiskStep

(* A job out of any pass only has to keep to its request. *)
LEMMA OutOrderly ==
  ASSUME NEW j \in Jobs, job'[j].pc \notin {"scan", "load"}, job'[j].quiet = {}, job'[j].seen = {},
         job'[j].kind \in {"start", "graph"} =>
           j = "graph" /\ (job'[j].pc = "queued" => job'[j].task = "sync")
  PROVE  Orderly(j)'
BY DEF Orderly, OnePass, Fresh, QuietPaused, GraphSyncs, ImportsUnpaused, OutOrRefused, Syncs, InPass

LEMMA MildOrderly ==
  ASSUME TypeInv, NEW j \in Jobs, Step(j) \/ Fault(j), Orderly(j), Mild(job[j], job'[j]), ~InPass(j)
  PROVE  Orderly(j)'
<1>1. job'[j].quiet = {} /\ job'[j].seen = {} /\ job'[j].pc \notin {"scan", "load"}
  BY DEF Orderly, Fresh, Mild
<1>2. ASSUME job'[j].kind \in {"start", "graph"}
      PROVE  j = "graph" /\ (job'[j].pc = "queued" => job'[j].task = "sync")
  <2>1. job[j].kind \in {"start", "graph"}
    BY <1>2, Moving DEF OnItsWay
  <2> QED BY <1>2, <2>1 DEF Orderly, GraphSyncs, Mild, Asked
<1> QED BY <1>1, <1>2, OutOrderly

LEMMA OutsideStays ==
  ASSUME TypeInv, NEW j \in Jobs, Outside(j)
  PROVE  /\ pass' = pass
         /\ \A m \in Modules : registry'[m] \in {registry[m], 0}
         /\ \/ paused \subseteq paused'
            \/ \E m : paused' = paused \ {m} /\ \E q : job' = [Unpaused(m) EXCEPT ![j] = q]
<1>0. registry \in [Modules -> (Serials \ bad) \cup {0}]
  BY DEF TypeInv, DataTyped
<1>1. CASE Act(j)
  <2>1. job[j].kind \in Asked
    BY <1>1, NotAt DEF Act, Sound, Stands
  <2>2. pass' = pass /\ registry' = registry
    BY <1>1 DEF Act, memory
  <2> DEFINE m == job[j].mod
  <2>3. \/ paused \subseteq paused'
        \/ paused' = paused \ {m} /\ \E q : job' = [Unpaused(m) EXCEPT ![j] = q]
    BY <1>1, <2>1 DEF Act, Asked
  <2> QED BY <2>2, <2>3
<1>2. CASE Repause(j) \/ Resolve(j)
  BY <1>2 DEF Repause, Resolve, memory
<1>3. CASE ClearConfig(j)
  <2> DEFINE m == job[j].mod
  <2>1. paused' = paused \ {m} /\ job' = [Unpaused(m) EXCEPT ![j] = Idle]
        /\ pass' = pass /\ registry' = registry
    BY <1>3 DEF ClearConfig, memory
  <2> QED BY <2>1
<1>4. CASE DiskStep(j)
  <2>1. pass' = pass /\ paused' = paused
        /\ (registry' = registry \/ registry' = [registry EXCEPT ![job[j].mod] = 0])
    BY <1>4 DEF DiskStep, Clear, Rm, Rename, Leave, ReadState, OpenState, WriteState, memory
  <2> QED BY <1>0, <2>1
<1>5. CASE Fault(j)
  BY <1>5 DEF Fault, RmFails, RenameFails, StateUnread, StateFails, memory
<1> QED BY <1>1, <1>2, <1>3, <1>4, <1>5 DEF Outside

LEMMA OutsideOrderly ==
  ASSUME TypeInv, \A k \in Jobs : Orderly(k), NEW j \in Jobs, Outside(j), NEW k \in Jobs
  PROVE  Orderly(k)'
<1>0. Step(j) \/ Fault(j)
  BY DEF Outside, Step
<1>1. CASE k = j
  BY <1>0, <1>1, OutsideMild, MildOrderly
<1>2. CASE k # j
  <2>1. Keeps(k)
    BY <1>0, <1>2, OthersKeep
  <2>2. job'[k].quiet \subseteq paused'
    <3>1. CASE paused \subseteq paused'
      BY <2>1, <3>1 DEF Keeps, Orderly, QuietPaused
    <3>2. ASSUME NEW m, paused' = paused \ {m}, \E q : job' = [Unpaused(m) EXCEPT ![j] = q]
          PROVE  job'[k].quiet \subseteq paused'
      <4>1. job'[k] = [job[k] EXCEPT !.quiet = @ \ {m}] /\ job[k] \in Records
        <5>1. PICK q : job' = [Unpaused(m) EXCEPT ![j] = q]
          BY <3>2
        <5>2. job'[k] = [job[k] EXCEPT !.quiet = @ \ {m}]
          BY <1>2, <5>1 DEF Unpaused
        <5>3. job[k] \in Records
          BY DEF TypeInv, JobsSound, JobsTyped
        <5> QED BY <5>2, <5>3
      <4>2. job'[k].quiet = job[k].quiet \ {m}
        BY <4>1 DEF Records
      <4> QED BY <3>2, <4>2 DEF Orderly, QuietPaused
    <3> QED BY <3>1, <3>2, OutsideStays
  <2> QED BY <2>1, <2>2, OutsideStays, OthersOrderly
<1> QED BY <1>1, <1>2

(* A listing knows nothing of the pauses. *)
LEMMA ListingOrderly ==
  ASSUME TypeInv, \A k \in Jobs : Orderly(k), NEW j \in Jobs, ListStep(j), NEW k \in Jobs
  PROVE  Orderly(k)'
<1>0. Listing(j) /\ (Step(j) \/ Fault(j)) /\ ~InPass(j)
      /\ paused' = paused /\ registry' = registry /\ (pass' = pass \/ pass = Nobody)
  <2>1. Listing(j)
    BY Listings
  <2>2. paused' = paused /\ registry' = registry /\ (pass' = pass \/ pass = Nobody)
    BY DEF ListStep, ListDirs, Browse, StartListed, memory
  <2> QED BY <2>1, <2>2 DEF Listing, InPass, Step
<1>1. CASE k # j
  <2>1. Keeps(k)
    BY <1>0, <1>1, OthersKeep
  <2>2. CASE pass' = pass
    <3>1. job'[k].quiet \subseteq paused'
      BY <1>0, <2>1 DEF Keeps, Orderly, QuietPaused
    <3> QED BY <1>0, <2>1, <2>2, <3>1, OthersOrderly
  <2>3. CASE pass = Nobody
    BY <1>0, <1>1, <2>1, <2>3, OthersOut
  <2> QED BY <1>0, <2>2, <2>3
<1>2. CASE k = j
  <2>1. job'[j].quiet = {} /\ job'[j].seen = {} /\ job'[j].kind \notin {"start", "graph"}
        /\ job'[j].pc # "scan"
    BY <1>0 DEF Listing, Orderly, Fresh
  <2>2. CASE job'[j].pc = "load"
    BY <1>0, <1>2, <2>1, <2>2
       DEF Listing, Orderly, OnePass, Fresh, QuietPaused, GraphSyncs, ImportsUnpaused,
           OutOrRefused, Syncs, InPass
  <2>3. CASE job'[j].pc # "load"
    BY <1>2, <2>1, <2>3, OutOrderly
  <2> QED BY <2>2, <2>3
<1> QED BY <1>1, <1>2

(* The passes. *)
LEMMA StartPassOrderly ==
  ASSUME TypeInv, \A k \in Jobs : Orderly(k), NEW j \in Jobs, StartPass(j), NEW k \in Jobs
  PROVE  Orderly(k)'
<1> DEFINE q == job[j]
<1>0. Step(j) /\ q \in Records /\ q.pc = "queued" /\ q.at = 0 /\ ~InPass(j)
      /\ pass = Nobody /\ paused' = paused /\ registry' = registry
  BY NotAt DEF Step, PassStep, StartPass, Sound, InPass, memory
<1>1. CASE k # j
  BY <1>0, <1>1, OthersKeep, OthersOut
<1>2. CASE k = j /\ q.task = "admin" /\ registry[q.mod] # 0
  <2>1. job'[j] = [q EXCEPT !.pc = "act", !.todo = {}]
    BY <1>2, Lands DEF StartPass
  <2>2. Mild(q, job'[j])
    BY <1>0, <2>1 DEF Mild, Records
  <2> QED BY <1>0, <1>2, <2>2, MildOrderly
<1>3. CASE k = j /\ ~(q.task = "admin" /\ registry[q.mod] # 0)
  <2>1. job'[j] = [q EXCEPT !.pc = "scan", !.quiet = paused,
                            !.todo = {m \in @ : disk[m] # Gone}]
        /\ pass' = j
    BY <1>3, Lands DEF StartPass
  <2>2. /\ job'[j].pc = "scan" /\ job'[j].quiet = paused /\ job'[j].seen = {} /\ job'[j].at = 0
        /\ job'[j].kind = q.kind /\ job'[j].task = q.task
    <3>1. q.seen = {}
      BY <1>0 DEF Orderly, Fresh
    <3> HIDE DEF q
    <3> QED BY <1>0, <2>1, <3>1 DEF Records
  <2>3. q.kind \in {"start", "graph"} => j = "graph" /\ q.task = "sync"
    BY <1>0 DEF Orderly, GraphSyncs
  <2> QED BY <1>0, <1>3, <2>1, <2>2, <2>3
          DEF Orderly, OnePass, Fresh, QuietPaused, GraphSyncs, ImportsUnpaused, OutOrRefused,
              Syncs, InPass
<1> QED BY <1>1, <1>2, <1>3

LEMMA ScanOrderly ==
  ASSUME TypeInv, \A k \in Jobs : Orderly(k), NEW j \in Jobs, NEW m \in Modules, Scan(j, m),
         NEW k \in Jobs
  PROVE  Orderly(k)'
<1> DEFINE q == job[j]
<1>0. /\ Step(j) /\ q \in Records /\ q.pc = "scan" /\ q.at = 0
      /\ pass' = pass /\ paused' = paused /\ registry' = registry /\ pass = j
  <2>1. Step(j) /\ q.pc = "scan" /\ pass' = pass /\ paused' = paused /\ registry' = registry
    BY DEF Step, PassStep, Scan, memory
  <2> QED BY <2>1, NotAt DEF Sound, InPass, Orderly, OnePass
<1>1. CASE k # j
  BY <1>0, <1>1, OthersKeep, OthersOut
<1>2. CASE k = j
  <2> DEFINE r == job'[j]
  <2>1. \/ Is(m) /\ r = [[q EXCEPT !.todo = @ \ {m}] EXCEPT !.entries[m] = disk[m], !.seen = @ \cup {m}]
        \/ ~Is(m) /\ r = [[q EXCEPT !.todo = @ \ {m}] EXCEPT !.refused = @ \cup {m}, !.seen = @ \cup {m}]
    BY Lands DEF Scan
  <2>2. /\ r.pc = "scan" /\ r.quiet = q.quiet /\ r.seen = q.seen \cup {m} /\ r.at = 0
        /\ r.kind = q.kind /\ r.task = q.task
        /\ \/ Is(m) /\ r.entries = [q.entries EXCEPT ![m] = disk[m]] /\ r.refused = q.refused
           \/ r.entries = q.entries /\ r.refused = q.refused \cup {m}
    <3> HIDE DEF q
    <3> QED BY <1>0, <2>1 DEF Records
  <2>3. Is(m) => disk[m] # 0
    BY DEF Is, TypeInv, DataTyped, Serials
  <2>4. OutOrRefused(j)'
    <3> SUFFICES ASSUME q.task = "sync", NEW n \in r.quiet \cap r.seen, r.entries[n] = 0
                 PROVE  n \in r.refused
      BY <2>2 DEF OutOrRefused, Syncs, InPass
    <3>1. q.entries \in [Modules -> Nat] /\ q.quiet \subseteq Modules
      BY <1>0 DEF Records
    <3>2. n \in q.quiet /\ n \in Modules
      BY <2>2, <3>1
    <3>3. ASSUME n # m PROVE n \in r.refused
      <4>1. n \in q.seen /\ q.entries[n] = 0
        BY <2>2, <3>1, <3>2, <3>3
      <4>2. n \in q.refused
        BY <1>0, <3>2, <4>1 DEF Orderly, OutOrRefused, Syncs, InPass
      <4> QED BY <2>2, <4>2
    <3>4. ASSUME n = m PROVE n \in r.refused
      BY <2>2, <2>3, <3>1, <3>2, <3>4
    <3> QED BY <3>3, <3>4
  <2> HIDE DEF r
  <2>5. OnePass(j)' /\ Fresh(j)' /\ QuietPaused(j)' /\ GraphSyncs(j)' /\ ImportsUnpaused(j)'
    BY <1>0, <2>2
       DEF r, Orderly, OnePass, Fresh, QuietPaused, GraphSyncs, ImportsUnpaused, Syncs, InPass
  <2> QED BY <1>2, <2>4, <2>5 DEF Orderly
<1> QED BY <1>1, <1>2

LEMMA SiftOrderly ==
  ASSUME TypeInv, \A k \in Jobs : Orderly(k), NEW j \in Jobs, Sift(j), NEW k \in Jobs
  PROVE  Orderly(k)'
<1> DEFINE q == job[j]
           r == job'[j]
<1>0. /\ Step(j) /\ q \in Records /\ q.pc = "scan" /\ q.at = 0
      /\ pass' = pass /\ paused' = paused /\ pass = j
      /\ registry' = [m \in Modules |->
                        IF q.task = "sync" /\ m \in q.refused THEN 0 ELSE registry[m]]
  <2>1. Step(j) /\ q.pc = "scan" /\ pass' = pass /\ paused' = paused
        /\ registry' = [m \in Modules |->
                          IF q.task = "sync" /\ m \in q.refused THEN 0 ELSE registry[m]]
    BY DEF Step, PassStep, Sift
  <2> QED BY <2>1, NotAt DEF Sound, InPass, Orderly, OnePass
<1>1. CASE k # j
  BY <1>0, <1>1, OthersKeep, OthersOut
<1>2. CASE k = j
  <2>1. /\ r.pc = "load" /\ r.quiet = q.quiet /\ r.seen = q.seen /\ r.at = 0
        /\ r.kind = q.kind /\ r.task = q.task /\ r.entries = q.entries
    <3>1. r = [q EXCEPT !.pc = "load", !.failed = q.mod \in q.refused, !.refused = {}]
      BY Lands DEF Sift
    <3> QED BY <1>0, <3>1 DEF Records
  <2>2. OutOrRefused(j)'
    <3> SUFFICES ASSUME q.task = "sync", NEW n \in q.quiet \cap q.seen, q.entries[n] = 0
                 PROVE  registry'[n] = 0
      BY <2>1 DEF OutOrRefused, Syncs, InPass
    <3>1. n \in q.refused /\ n \in Modules
      BY <1>0 DEF Orderly, OutOrRefused, Syncs, InPass, Records
    <3> QED BY <1>0, <3>1
  <2> HIDE DEF r
  <2>3. OnePass(j)' /\ Fresh(j)' /\ QuietPaused(j)' /\ GraphSyncs(j)' /\ ImportsUnpaused(j)'
    BY <1>0, <2>1
       DEF r, Orderly, OnePass, Fresh, QuietPaused, GraphSyncs, ImportsUnpaused, Syncs, InPass
  <2> QED BY <1>2, <2>2, <2>3 DEF Orderly
<1> QED BY <1>1, <1>2

LEMMA SameOwner ==
  ASSUME TypeInv, OneOwner, NEW j \in Jobs, NEW m \in Modules, NEW n \in Modules,
         job[j].entries[m] # 0, job[j].entries[n] = job[j].entries[m]
  PROVE  m = n
BY DEF OneOwner, Owned

LEMMA LoadOrderly ==
  ASSUME TypeInv, OneOwner, \A k \in Jobs : Orderly(k), NEW j \in Jobs, NEW m \in Modules,
         Load(j, m), NEW k \in Jobs
  PROVE  Orderly(k)'
<1> DEFINE q == job[j]
           r == job'[j]
<1>0. /\ Step(j) /\ q \in Records /\ q.pc = "load" /\ q.at = 0 /\ q.entries[m] # 0
      /\ pass' = pass /\ paused' = paused /\ pass = j
      /\ registry \in [Modules -> (Serials \ bad) \cup {0}]
  <2>1. Step(j) /\ q.pc = "load" /\ pass' = pass /\ paused' = paused /\ q.at = 0 /\ q.entries[m] # 0
    BY DEF Step, PassStep, Load
  <2> QED BY <2>1, NotAt DEF Sound, InPass, Orderly, OnePass, TypeInv, DataTyped
<1>1. CASE k # j
  BY <1>0, <1>1, OthersKeep, OthersOut
<1>2. CASE k = j
  <2>1. \/ /\ q.task # "sync" \/ m \notin paused
           /\ registry' = registry
           /\ \/ r = [q EXCEPT !.entries[m] = 0] /\ registry[m] # 0
              \/ r = [q EXCEPT !.at = q.entries[m]]
        \/ /\ q.task = "sync" /\ m \in paused
           /\ registry' = [registry EXCEPT ![m] = 0]
           /\ r = [q EXCEPT !.entries[m] = 0]
    BY Lands DEF Load
  <2>2. /\ r.pc = "load" /\ r.quiet = q.quiet /\ r.seen = q.seen
        /\ r.kind = q.kind /\ r.task = q.task /\ r.refused = q.refused
        /\ \/ r.entries = [q.entries EXCEPT ![m] = 0] /\ r.at = 0
           \/ r.entries = q.entries /\ r.at = q.entries[m] /\ (q.task # "sync" \/ m \notin paused)
    <3> HIDE DEF q, r
    <3> QED BY <1>0, <2>1 DEF Records
  <2>3. q.entries \in [Modules -> Nat] /\ q.quiet \subseteq Modules /\ q.quiet \subseteq paused
    BY <1>0 DEF Records, Orderly, QuietPaused
  <2>4. OutOrRefused(j)'
    <3> SUFFICES ASSUME q.task = "sync", NEW n \in q.quiet \cap q.seen, r.entries[n] = 0
                 PROVE  registry'[n] = 0
      BY <2>2 DEF OutOrRefused, Syncs, InPass
    <3>1. n \in Modules /\ n \in paused
      BY <2>3
    <3>2. ASSUME q.entries[n] = 0 PROVE registry'[n] = 0
      <4>1. registry[n] = 0
        BY <1>0, <3>2 DEF Orderly, OutOrRefused, Syncs, InPass
      <4> QED BY <1>0, <2>1, <3>1, <4>1
    <3>3. ASSUME q.entries[n] # 0 PROVE registry'[n] = 0
      <4>1. n = m /\ r.entries # q.entries
        BY <2>2, <2>3, <3>1, <3>3
      <4>2. registry' = [registry EXCEPT ![m] = 0]
        <5> HIDE DEF r
        <5> QED BY <1>0, <2>1, <3>1, <4>1 DEF Records
      <4> QED BY <1>0, <4>1, <4>2
    <3> QED BY <3>2, <3>3
  <2>5. ImportsUnpaused(j)'
    <3> SUFFICES ASSUME q.task = "sync", r.at # 0, NEW n \in Modules, r.entries[n] = r.at
                 PROVE  n \notin q.quiet
      BY <2>2 DEF ImportsUnpaused, Syncs, InPass
    <3>1. q.entries[n] = q.entries[m] /\ m \notin paused
      BY <2>2
    <3>2. n = m
      BY <1>0, <3>1, SameOwner
    <3> QED BY <2>3, <3>1, <3>2
  <2> HIDE DEF r
  <2>6. OnePass(j)' /\ Fresh(j)' /\ QuietPaused(j)' /\ GraphSyncs(j)'
    BY <1>0, <2>2
       DEF r, Orderly, OnePass, Fresh, QuietPaused, GraphSyncs, Syncs, InPass
  <2> QED BY <1>2, <2>4, <2>5, <2>6 DEF Orderly
<1> QED BY <1>1, <1>2

SameButFailed(e, d) ==
  /\ e.pc = d.pc /\ e.quiet = d.quiet /\ e.seen = d.seen /\ e.kind = d.kind /\ e.task = d.task
  /\ e.refused = d.refused /\ e.entries = d.entries /\ e.at = d.at
  /\ e.mod = d.mod /\ e.serial = d.serial

LEMMA OnlyFailed ==
  ASSUME NEW d \in Records, NEW v \in BOOLEAN
  PROVE  SameButFailed([d EXCEPT !.failed = v], d)
BY DEF SameButFailed, Records

LEMMA ImportOrderly ==
  ASSUME TypeInv, \A k \in Jobs : Orderly(k), NEW j \in Jobs, NEW m \in Modules,
         Import(j, m), NEW k \in Jobs
  PROVE  Orderly(k)'
<1> DEFINE q == job[j]
           r == job'[j]
<1>0. /\ Step(j) /\ q \in Records /\ q.pc = "load" /\ q.at # 0 /\ q.entries[m] = q.at
      /\ pass' = pass /\ paused' = paused /\ pass = j
      /\ registry \in [Modules -> (Serials \ bad) \cup {0}]
  <2>1. Step(j) /\ pass' = pass /\ paused' = paused /\ q.at # 0 /\ q.entries[m] = q.at
    BY DEF Step, PassStep, Import
  <2>2. q.pc = "load" /\ q \in Records
    BY <2>1, NotAt DEF Sound
  <2> QED BY <2>1, <2>2 DEF InPass, Orderly, OnePass, TypeInv, DataTyped
<1>1. CASE k # j
  BY <1>0, <1>1, OthersKeep, OthersOut
<1>2. CASE k = j
  <2> DEFINE done == [q EXCEPT !.entries[m] = 0, !.at = 0]
  <2>1. r = done \/ r = [done EXCEPT !.failed = q.failed \/ m = q.mod]
    BY Lands DEF Import
  <2>2. registry' = registry \/ \E c : registry' = [registry EXCEPT ![m] = c]
    BY DEF Import
  <2>3. /\ r.pc = "load" /\ r.quiet = q.quiet /\ r.seen = q.seen
        /\ r.kind = q.kind /\ r.task = q.task /\ r.refused = q.refused
        /\ r.entries = [q.entries EXCEPT ![m] = 0] /\ r.at = 0
    <3>1. /\ done.pc = "load" /\ done.quiet = q.quiet /\ done.seen = q.seen
          /\ done.kind = q.kind /\ done.task = q.task /\ done.refused = q.refused
          /\ done.entries = [q.entries EXCEPT ![m] = 0] /\ done.at = 0 /\ done \in Records
      <4> HIDE DEF q
      <4> QED BY <1>0 DEF Records
    <3>2. (q.failed \/ m = q.mod) \in BOOLEAN
      BY <1>0 DEF Records
    <3>3. SameButFailed([done EXCEPT !.failed = q.failed \/ m = q.mod], done)
      <4> HIDE DEF done
      <4> QED BY <3>1, <3>2, OnlyFailed
    <3> HIDE DEF done, r
    <3>4. SameButFailed(r, done)
      <4>1. SameButFailed(done, done)
        BY DEF SameButFailed
      <4> QED BY <2>1, <3>3, <4>1
    <3> QED BY <3>1, <3>4 DEF SameButFailed
  <2>4. OutOrRefused(j)'
    <3> SUFFICES ASSUME q.task = "sync", NEW n \in q.quiet \cap q.seen, r.entries[n] = 0
                 PROVE  registry'[n] = 0
      BY <2>3 DEF OutOrRefused, Syncs, InPass
    <3>1. n \in Modules /\ q.entries \in [Modules -> Nat]
      BY <1>0 DEF Records
    <3>2. n # m
      BY <1>0 DEF Orderly, ImportsUnpaused, Syncs, InPass
    <3>3. q.entries[n] = 0
      BY <2>3, <3>1, <3>2
    <3>4. registry[n] = 0
      BY <1>0, <3>3 DEF Orderly, OutOrRefused, Syncs, InPass
    <3> QED BY <1>0, <2>2, <3>1, <3>2, <3>4
  <2> HIDE DEF r
  <2>5. OnePass(j)' /\ Fresh(j)' /\ QuietPaused(j)' /\ GraphSyncs(j)' /\ ImportsUnpaused(j)'
    BY <1>0, <2>3
       DEF r, Orderly, OnePass, Fresh, QuietPaused, GraphSyncs, ImportsUnpaused, Syncs, InPass
  <2> QED BY <1>2, <2>4, <2>5 DEF Orderly
<1> QED BY <1>1, <1>2

LEMMA EndPassOrderly ==
  ASSUME TypeInv, \A k \in Jobs : Orderly(k), NEW j \in Jobs, EndPass(j), NEW k \in Jobs
  PROVE  Orderly(k)'
<1> DEFINE q == job[j]
           p == [q EXCEPT !.seen = {}, !.quiet = {}]
<1>0. /\ Step(j) /\ q \in Records /\ q.pc = "load" /\ paused' = paused /\ pass = j
  <2>1. Step(j) /\ q.pc = "load" /\ paused' = paused
    BY DEF Step, PassStep, EndPass
  <2> QED BY <2>1, NotAt DEF Sound, InPass, Orderly, OnePass
<1>1. CASE k # j
  BY <1>0, <1>1, OthersKeep, OthersOut
<1>2. CASE k = j
  <2>1. p \in Records /\ p.seen = {} /\ p.quiet = {} /\ p.kind = q.kind
    <3> HIDE DEF q
    <3> QED BY <1>0 DEF Records
  <2>2. \/ job'[j] = Idle \/ job'[j] = [p EXCEPT !.pc = "act"]
        \/ job'[j] = [p EXCEPT !.pc = "clear", !.kind = "purge"]
        \/ q.task = "list" /\ job'[j] = [p EXCEPT !.pc = "queued"]
    BY <1>0, EndsIn
  <2>3. /\ job'[j].pc \in {"idle", "act", "clear", "queued"}
        /\ job'[j].quiet = {} /\ job'[j].seen = {}
        /\ job'[j].kind \in {"none", "purge", q.kind}
        /\ job'[j].pc = "queued" => job'[j].kind = q.kind /\ q.task = "list"
    <3>1. Idle.pc = "idle" /\ Idle.quiet = {} /\ Idle.seen = {} /\ Idle.kind = "none"
      BY DEF Idle
    <3> HIDE DEF p
    <3> QED BY <2>1, <2>2, <3>1 DEF Records
  <2>4. job'[j].kind \in {"start", "graph"} => j = "graph" /\ job'[j].pc # "queued"
    BY <1>0, <2>3 DEF Orderly, GraphSyncs
  <2> QED BY <1>2, <2>3, <2>4, OutOrderly
<1> QED BY <1>1, <1>2

(* Where a job takes the installations it names from. *)
Traced(j) ==
  /\ \A n \in Modules : job'[j].entries[n] \in {0, job[j].entries[n]}
                        \/ (Is(n) /\ job'[j].entries[n] = disk[n])
  /\ job'[j].kind \in Placing =>
       job[j].kind \in Placing /\ job'[j].mod = job[j].mod /\ job'[j].serial = job[j].serial

LEMMA StepTraced ==
  ASSUME TypeInv, NEW j \in Jobs, Step(j) \/ Fault(j)
  PROVE  Traced(j)
<1> DEFINE q == job[j]
           r == job'[j]
<1>0. q \in Records
  BY DEF TypeInv, JobsSound, JobsTyped
<1>1. CASE Outside(j)
  <2>1. Mild(q, r)
    BY <1>1, OutsideMild
  <2> QED BY <2>1 DEF Mild, Traced, Unread
<1>2. CASE StartPass(j)
  <2>1. \/ r = [q EXCEPT !.pc = "act", !.todo = {}]
        \/ r = [q EXCEPT !.pc = "scan", !.quiet = paused,
                         !.todo = {m \in @ : disk[m] # Gone}]
    BY <1>2, Lands DEF StartPass
  <2>2. r.entries = q.entries /\ r.kind = q.kind /\ r.mod = q.mod /\ r.serial = q.serial
    <3> HIDE DEF q, r
    <3> QED BY <1>0, <2>1 DEF Records
  <2> QED BY <2>2 DEF Traced
<1>3. ASSUME NEW m \in Modules, Scan(j, m) PROVE Traced(j)
  <2>1. \/ Is(m) /\ r = [[q EXCEPT !.todo = @ \ {m}] EXCEPT !.entries[m] = disk[m], !.seen = @ \cup {m}]
        \/ ~Is(m) /\ r = [[q EXCEPT !.todo = @ \ {m}] EXCEPT !.refused = @ \cup {m}, !.seen = @ \cup {m}]
    BY <1>3, Lands DEF Scan
  <2>2. /\ r.kind = q.kind /\ r.mod = q.mod /\ r.serial = q.serial
        /\ \/ Is(m) /\ r.entries = [q.entries EXCEPT ![m] = disk[m]]
           \/ r.entries = q.entries
    <3> HIDE DEF q, r
    <3> QED BY <1>0, <2>1 DEF Records
  <2>3. q.entries \in [Modules -> Nat]
    BY <1>0 DEF Records
  <2> HIDE DEF q, r
  <2>4. \A n \in Modules : r.entries[n] \in {0, q.entries[n]} \/ (Is(n) /\ r.entries[n] = disk[n])
    BY <2>2, <2>3
  <2> QED BY <2>2, <2>4 DEF Traced, q, r
<1>4. CASE Sift(j)
  <2>1. r = [q EXCEPT !.pc = "load", !.failed = q.mod \in q.refused, !.refused = {}]
    BY <1>4, Lands DEF Sift
  <2>2. r.entries = q.entries /\ r.kind = q.kind /\ r.mod = q.mod /\ r.serial = q.serial
    BY <1>0, <2>1 DEF Records
  <2> QED BY <2>2 DEF Traced
<1>5. ASSUME NEW m \in Modules, Load(j, m) PROVE Traced(j)
  <2>1. r = [q EXCEPT !.entries[m] = 0] \/ r = [q EXCEPT !.at = q.entries[m]]
    BY <1>5, Lands DEF Load
  <2>2. /\ r.entries = q.entries \/ r.entries = [q.entries EXCEPT ![m] = 0]
        /\ r.kind = q.kind /\ r.mod = q.mod /\ r.serial = q.serial
    <3> HIDE DEF q, r
    <3> QED BY <1>0, <2>1 DEF Records
  <2>3. q.entries \in [Modules -> Nat]
    BY <1>0 DEF Records
  <2> HIDE DEF q, r
  <2>4. \A n \in Modules : r.entries[n] \in {0, q.entries[n]}
    BY <2>2, <2>3
  <2> QED BY <2>2, <2>4 DEF Traced, q, r
<1>6. ASSUME NEW m \in Modules, Import(j, m) PROVE Traced(j)
  <2> DEFINE done == [q EXCEPT !.entries[m] = 0, !.at = 0]
  <2>1. r = done \/ r = [done EXCEPT !.failed = q.failed \/ m = q.mod]
    BY <1>6, Lands DEF Import
  <2>2. /\ done.entries = [q.entries EXCEPT ![m] = 0] /\ done \in Records
        /\ done.kind = q.kind /\ done.mod = q.mod /\ done.serial = q.serial
    <3> HIDE DEF q
    <3> QED BY <1>0 DEF Records
  <2>3. SameButFailed(r, done)
    <3>1. (q.failed \/ m = q.mod) \in BOOLEAN
      BY <1>0 DEF Records
    <3>2. SameButFailed([done EXCEPT !.failed = q.failed \/ m = q.mod], done)
      <4> HIDE DEF done
      <4> QED BY <2>2, <3>1, OnlyFailed
    <3> HIDE DEF done, r
    <3>3. SameButFailed(done, done)
      BY DEF SameButFailed
    <3> QED BY <2>1, <3>2, <3>3
  <2>4. q.entries \in [Modules -> Nat]
    BY <1>0 DEF Records
  <2>5. r.entries = [q.entries EXCEPT ![m] = 0]
        /\ r.kind = q.kind /\ r.mod = q.mod /\ r.serial = q.serial
    <3> HIDE DEF q, r, done
    <3> QED BY <2>2, <2>3 DEF SameButFailed
  <2> HIDE DEF q, r
  <2>6. \A n \in Modules : r.entries[n] \in {0, q.entries[n]}
    BY <2>4, <2>5
  <2> QED BY <2>5, <2>6 DEF Traced, q, r
<1>7. CASE EndPass(j)
  <2> DEFINE p == [q EXCEPT !.seen = {}, !.quiet = {}]
  <2>1. p \in Records /\ p.entries = q.entries /\ p.kind = q.kind /\ p.mod = q.mod
        /\ p.serial = q.serial
    <3> HIDE DEF q
    <3> QED BY <1>0 DEF Records
  <2>2. \/ r = Idle \/ r = [p EXCEPT !.pc = "act"]
        \/ p.kind = "install" /\ r = [p EXCEPT !.pc = "clear", !.kind = "purge"]
        \/ r = [p EXCEPT !.pc = "queued"]
    BY <1>7, EndsIn
  <2>3. Idle.kind = "none" /\ \A n \in Modules : Idle.entries[n] = 0
    BY DEF Idle, Unread
  <2>4. /\ \A n \in Modules : r.entries[n] \in {0, q.entries[n]}
        /\ r.kind \in Placing => q.kind \in Placing /\ r.mod = q.mod /\ r.serial = q.serial
    <3> HIDE DEF p, q, r
    <3> QED BY <2>1, <2>2, <2>3 DEF Records, Placing
  <2> HIDE DEF q, r
  <2> QED BY <2>4 DEF Traced, q, r
<1>8. CASE ListStep(j)
  BY <1>8, Listings DEF Listing, Traced, Placing
<1> QED BY <1>1, <1>2, <1>3, <1>4, <1>5, <1>6, <1>7, <1>8 DEF Outside, Step, PassStep

LEMMA OwnerOfDisk ==
  ASSUME TypeInv, NEW j \in Jobs, Step(j) \/ Fault(j), NEW n \in Modules,
         disk'[n] \notin {Gone, Partial}
  PROVE  \/ Is(n) /\ disk'[n] = disk[n]
         \/ job[j].kind \in Placing /\ disk'[n] = job[j].serial /\ n = job[j].mod
<1>0. disk \in [Modules -> Serials \cup {Gone, Partial}]
  BY DEF TypeInv, DataTyped
<1>1. CASE Clear(j) \/ Rm(j)
  BY <1>0, <1>1 DEF Clear, Rm, Is
<1>2. CASE Rename(j)
  <2>1. job[j].kind \in Placing
    BY <1>2, NotAt DEF Rename, Sound, Stands, Placing
  <2> QED BY <1>0, <1>2, <2>1 DEF Rename, Is
<1>3. CASE ~(Clear(j) \/ Rm(j) \/ Rename(j))
  <2>1. disk' = disk
    BY <1>3 DEF Step, Fault, Resolve, Act, Repause, ClearConfig, PassStep, StartPass, Sift,
       EndPass, Scan, Load, Import, DiskStep, Leave, ReadState, OpenState, WriteState,
       RmFails, RenameFails, StateUnread, StateFails, ListStep, ListDirs, Browse, StartListed,
       packages
  <2> QED BY <2>1 DEF Is
<1> QED BY <1>1, <1>2, <1>3

LEMMA OwnerStep ==
  ASSUME TypeInv, OneOwner, NEW j \in Jobs, Step(j) \/ Fault(j)
  PROVE  OneOwner'
<1>0. installs' = installs
  BY DEF Step, Fault, Resolve, Act, Repause, ClearConfig, PassStep, StartPass, Sift,
     EndPass, Scan, Load, Import, DiskStep, Clear, Rm, Rename, Leave, ReadState, OpenState,
     WriteState, RmFails, RenameFails, StateUnread, StateFails, ListStep, ListDirs, Browse,
     StartListed, packages
<1>1. PICK own \in [Serials -> Modules] : Owned(own)
  BY DEF OneOwner
<1>2. \A n \in Modules : Is(n)' => own[disk'[n]] = n
  <2> SUFFICES ASSUME NEW n \in Modules, disk'[n] \notin {Gone, Partial} PROVE own[disk'[n]] = n
    BY DEF Is
  <2> QED BY <1>1, OwnerOfDisk DEF Owned
<1>3. ASSUME NEW k \in Jobs
      PROVE  Keeps(k) \/ (k = j /\ Traced(j))
  BY OthersKeep, StepTraced
<1>4. \A k \in Jobs : job'[k].kind \in Placing => own[job'[k].serial] = job'[k].mod
  BY <1>1, <1>3 DEF Owned, Keeps, Traced
<1>5. ASSUME NEW k \in Jobs, NEW n \in Modules, job'[k].entries[n] # 0
      PROVE  own[job'[k].entries[n]] = n
  BY <1>1, <1>3, <1>5 DEF Owned, Keeps, Traced
<1>6. Owned(own)'
  BY <1>2, <1>4, <1>5 DEF Owned
<1> QED BY <1>0, <1>6 DEF OneOwner, Serials

(* The jobs and the owners where nobody takes a step. *)
LEMMA StillOrderly ==
  ASSUME NEW k \in Jobs, Orderly(k), job'[k] = job[k], UNCHANGED <<pass, paused, registry>>
  PROVE  Orderly(k)'
BY DEF Orderly, OnePass, Fresh, QuietPaused, GraphSyncs, ImportsUnpaused, OutOrRefused, Syncs, InPass

(* A directory appears under a new installation, or a request brings one. *)
LEMMA NewOwner ==
  ASSUME TypeInv, OneOwner, NEW m \in Modules, installs' = installs + 1,
         \A n \in Modules : disk'[n] = disk[n] \/ (n = m /\ disk'[n] = installs'),
         \A k \in Jobs :
           /\ \A n \in Modules : job'[k].entries[n] \in {0, job[k].entries[n]}
           /\ job'[k].kind \in Placing =>
                \/ job[k].kind \in Placing /\ job'[k].mod = job[k].mod
                   /\ job'[k].serial = job[k].serial
                \/ job'[k].mod = m /\ job'[k].serial = installs'
  PROVE  OneOwner'
<1>1. PICK own \in [Serials -> Modules] : Owned(own)
  BY DEF OneOwner
<1>2. PICK new \in [1 .. installs + 1 -> Modules] :
        new[installs + 1] = m /\ \A s \in 1 .. installs : new[s] = own[s]
  <2> DEFINE f == [s \in 1 .. installs + 1 |-> IF s = installs + 1 THEN m ELSE own[s]]
  <2>1. installs \in Nat /\ f \in [1 .. installs + 1 -> Modules]
        /\ f[installs + 1] = m /\ \A s \in 1 .. installs : f[s] = own[s]
    BY DEF TypeInv, Serials
  <2> HIDE DEF f
  <2> QED BY <2>1
<1>3. ASSUME NEW n \in Modules, disk'[n] \notin {Gone, Partial} PROVE new[disk'[n]] = n
  <2>1. CASE disk'[n] = disk[n]
    <3>1. Is(n) /\ disk[n] \in 1 .. installs
      BY <1>3, <2>1 DEF Is, TypeInv, DataTyped, Serials
    <3> QED BY <1>1, <1>2, <2>1, <3>1 DEF Owned
  <2>2. CASE n = m /\ disk'[n] = installs'
    BY <1>2, <2>2
  <2> QED BY <2>1, <2>2
<1>4. ASSUME NEW k \in Jobs, job'[k].kind \in Placing PROVE new[job'[k].serial] = job'[k].mod
  <2>1. CASE job[k].kind \in Placing /\ job'[k].mod = job[k].mod /\ job'[k].serial = job[k].serial
    <3>1. job[k].serial \in 1 .. installs
      BY <2>1, NotAt DEF Sound, Begun
    <3> QED BY <1>1, <1>2, <2>1, <3>1 DEF Owned
  <2>2. CASE job'[k].mod = m /\ job'[k].serial = installs'
    BY <1>2, <2>2
  <2> QED BY <1>4, <2>1, <2>2
<1>5. ASSUME NEW k \in Jobs, NEW n \in Modules, job'[k].entries[n] # 0
      PROVE  new[job'[k].entries[n]] = n
  <2>1. job'[k].entries[n] = job[k].entries[n]
    BY <1>5
  <2>2. job[k].entries[n] \in 1 .. installs
    BY <1>5, <2>1, NotAt DEF Sound, Begun
  <2> QED BY <1>1, <1>2, <2>1, <2>2, <1>5 DEF Owned
<1>6. Owned(new)'
  BY <1>3, <1>4, <1>5 DEF Owned, Is
<1> QED BY <1>2, <1>6 DEF OneOwner, Serials

LEMMA SameOwners ==
  ASSUME OneOwner, installs' = installs,
         \A n \in Modules : disk'[n] \in {disk[n], Gone},
         \A k \in Jobs :
           /\ \A n \in Modules : job'[k].entries[n] \in {0, job[k].entries[n]}
           /\ job'[k].kind \in Placing =>
                job[k].kind \in Placing /\ job'[k].mod = job[k].mod
                /\ job'[k].serial = job[k].serial
  PROVE  OneOwner'
<1>1. PICK own \in [Serials -> Modules] : Owned(own)
  BY DEF OneOwner
<1>2. \A n \in Modules : Is(n)' => own[disk'[n]] = n
  BY <1>1 DEF Owned, Is
<1>3. \A k \in Jobs : job'[k].kind \in Placing => own[job'[k].serial] = job'[k].mod
  BY <1>1 DEF Owned
<1>4. \A k \in Jobs, n \in Modules : job'[k].entries[n] # 0 => own[job'[k].entries[n]] = n
  BY <1>1 DEF Owned
<1>5. Owned(own)'
  BY <1>2, <1>3, <1>4 DEF Owned
<1> QED BY <1>5 DEF OneOwner, Serials

LEMMA BootPause ==
  ASSUME PauseInv, NEW m \in Origins, Bootstrap(m) \/ BootstrapFails(m)
  PROVE  (\A k \in Jobs : Orderly(k)') /\ OneOwner'
<1> DEFINE q == job["graph"]
           r == [q EXCEPT !.todo = @ \ {m}]
<1>0. "graph" \in Jobs /\ TypeInv /\ q \in Records /\ q.pc = "boot"
      /\ disk \in [Modules -> Serials \cup {Gone, Partial}]
      /\ UNCHANGED <<pass, paused, registry>> /\ Goes("graph", r)
  BY GraphIsJob DEF PauseInv, TypeInv, DataTyped, JobsSound, JobsTyped, Bootstrap, BootstrapFails, memory
<1>1. job'["graph"] = r /\ \A k \in Jobs \ {"graph"} : job'[k] = job[k]
  BY <1>0, Lands
<1>2. /\ r.pc = "boot" /\ r.quiet = q.quiet /\ r.seen = q.seen /\ r.entries = q.entries
      /\ r.kind = q.kind /\ r.mod = q.mod /\ r.serial = q.serial
  <2> HIDE DEF q
  <2> QED BY <1>0 DEF Records
<1>3. ASSUME NEW k \in Jobs PROVE Orderly(k)'
  <2>1. CASE k = "graph"
    <3>1. q.quiet = {} /\ q.seen = {}
      BY <1>0 DEF PauseInv, Orderly, Fresh, InPass
    <3> QED BY <1>0, <1>1, <1>2, <2>1, <3>1, OutOrderly
  <2>2. CASE k # "graph"
    BY <1>0, <1>1, <2>2, StillOrderly DEF PauseInv
  <2> QED BY <2>1, <2>2
<1>4. \A k \in Jobs : job'[k].entries = job[k].entries /\ job'[k].kind = job[k].kind
                      /\ job'[k].mod = job[k].mod /\ job'[k].serial = job[k].serial
  BY <1>1, <1>2
<1>5. \/ installs' = installs + 1 /\ disk' = [disk EXCEPT ![m] = installs']
      \/ installs' = installs /\ disk' = [disk EXCEPT ![m] = Gone]
      \/ installs' = installs /\ disk' = disk
  BY DEF Bootstrap, BootstrapFails, packages
<1>6. OneOwner'
  <2>1. CASE installs' = installs + 1 /\ disk' = [disk EXCEPT ![m] = installs']
    <3>1. \A n \in Modules : disk'[n] = disk[n] \/ (n = m /\ disk'[n] = installs')
      BY <1>0, <2>1
    <3> QED BY <1>4, <2>1, <3>1, NewOwner DEF PauseInv
  <2>2. CASE installs' = installs /\ (disk' = [disk EXCEPT ![m] = Gone] \/ disk' = disk)
    <3>1. \A n \in Modules : disk'[n] \in {disk[n], Gone}
      BY <1>0, <2>2
    <3> QED BY <1>4, <2>2, <3>1, SameOwners DEF PauseInv
  <2> QED BY <1>5, <2>1, <2>2
<1> QED BY <1>3, <1>6

LEMMA BootUnreadPause ==
  ASSUME PauseInv, BootUnread
  PROVE  (\A k \in Jobs : Orderly(k)') /\ OneOwner'
<1> DEFINE q == job["graph"]
           r == [q EXCEPT !.failed = TRUE]
<1>0. "graph" \in Jobs /\ TypeInv /\ q \in Records /\ q.pc = "boot"
      /\ UNCHANGED <<disk, installs, pass, paused, registry>> /\ Goes("graph", r)
  BY GraphIsJob DEF PauseInv, TypeInv, JobsSound, JobsTyped, BootUnread, packages, memory
<1>1. job'["graph"] = r /\ \A k \in Jobs \ {"graph"} : job'[k] = job[k]
  BY <1>0, Lands
<1>2. /\ r.pc = "boot" /\ r.quiet = q.quiet /\ r.seen = q.seen /\ r.entries = q.entries
      /\ r.kind = q.kind /\ r.mod = q.mod /\ r.serial = q.serial
  <2> HIDE DEF q
  <2> QED BY <1>0 DEF Records
<1>3. ASSUME NEW k \in Jobs PROVE Orderly(k)'
  <2>1. CASE k = "graph"
    <3>1. q.quiet = {} /\ q.seen = {}
      BY <1>0 DEF PauseInv, Orderly, Fresh, InPass
    <3> QED BY <1>0, <1>1, <1>2, <2>1, <3>1, OutOrderly
  <2>2. CASE k # "graph"
    BY <1>0, <1>1, <2>2, StillOrderly DEF PauseInv
  <2> QED BY <2>1, <2>2
<1>4. \A k \in Jobs : job'[k].entries = job[k].entries /\ job'[k].kind = job[k].kind
                      /\ job'[k].mod = job[k].mod /\ job'[k].serial = job[k].serial
  BY <1>1, <1>2
<1>5. OneOwner'
  BY <1>0, <1>4, SameOwners DEF PauseInv
<1> QED BY <1>3, <1>5

LEMMA GraphPause ==
  ASSUME PauseInv, Booted \/ Graph
  PROVE  (\A k \in Jobs : Orderly(k)') /\ OneOwner'
<1> DEFINE q == job["graph"]
           r == job'["graph"]
<1>0. "graph" \in Jobs /\ TypeInv /\ q \in Records /\ q.pc \in {"boot", "idle"}
      /\ UNCHANGED <<disk, installs, pass, paused, registry>>
  BY GraphIsJob DEF PauseInv, TypeInv, JobsSound, JobsTyped, Booted, Graph, packages, memory
<1>1. /\ \A k \in Jobs \ {"graph"} : job'[k] = job[k]
      /\ \/ r = Queued(q, "sync", Modules)
         \/ r = Queued([Idle EXCEPT !.kind = "graph"], "sync", Modules)
  BY <1>0, Lands DEF Booted, Graph
<1>2. /\ r.pc = "queued" /\ r.quiet = {} /\ r.seen = {} /\ r.entries = Unread
      /\ r.task = "sync"
      /\ r.kind \in Placing => q.kind \in Placing /\ r.mod = q.mod /\ r.serial = q.serial
  <2>1. q.quiet = {}
    BY <1>0 DEF PauseInv, Orderly, Fresh, InPass
  <2>2. CASE r = Queued(q, "sync", Modules)
    <3> HIDE DEF q, r
    <3> QED BY <1>0, <2>1, <2>2 DEF Queued, Records
  <2>3. CASE r = Queued([Idle EXCEPT !.kind = "graph"], "sync", Modules)
    <3>1. Idle \in Records /\ Idle.quiet = {}
      BY IdleSound, 0 \in Nat DEF Sound, Idle
    <3> HIDE DEF q, r
    <3> QED BY <2>3, <3>1 DEF Queued, Records, Placing
  <2> QED BY <1>1, <2>2, <2>3
<1> HIDE DEF q, r
<1>3. ASSUME NEW k \in Jobs PROVE Orderly(k)'
  <2>1. CASE k = "graph"
    BY <1>2, <2>1, OutOrderly DEF r
  <2>2. CASE k # "graph"
    BY <1>0, <1>1, <2>2, StillOrderly DEF PauseInv
  <2> QED BY <2>1, <2>2
<1>4. ASSUME NEW k \in Jobs
      PROVE  /\ \A n \in Modules : job'[k].entries[n] \in {0, job[k].entries[n]}
             /\ job'[k].kind \in Placing =>
                  job[k].kind \in Placing /\ job'[k].mod = job[k].mod
                  /\ job'[k].serial = job[k].serial
  <2>1. CASE k = "graph"
    BY <1>2, <2>1 DEF q, r, Unread
  <2>2. CASE k # "graph"
    BY <1>1, <2>2
  <2> QED BY <2>1, <2>2
<1>5. OneOwner'
  BY <1>0, <1>4, SameOwners DEF PauseInv
<1> QED BY <1>3, <1>5

LEMMA ArrivePause ==
  ASSUME PauseInv, NEW s \in Requests, NEW m \in Modules,
         \/ Install(s, m) \/ Restore(s, m) \/ List(s)
         \/ \E kind \in Asked : Ask(s, m, kind)
  PROVE  (\A k \in Jobs : Orderly(k)') /\ OneOwner'
<1>0. s \in Jobs /\ TypeInv /\ Idle \in Records /\ Idle.entries = Unread /\ Idle.quiet = {}
      /\ Idle.seen = {}
  BY GraphIsJob, IdleSound, 0 \in Nat DEF PauseInv, Sound, Idle
<1>1. PICK q : /\ Arrive(s, q)
               /\ q.pc \in {"clear", "resolve", "list"} /\ q.quiet = {} /\ q.seen = {}
               /\ q.entries = Unread /\ q.kind \notin {"start", "graph"}
               /\ \/ q.kind \in Placing /\ q.mod = m /\ q.serial = installs'
                     /\ installs' = installs + 1
                  \/ q.kind \notin Placing /\ installs' \in {installs, installs + 1}
  <2> DEFINE Fits(q) == /\ q.pc \in {"clear", "resolve", "list"} /\ q.quiet = {} /\ q.seen = {}
                        /\ q.entries = Unread /\ q.kind \notin {"start", "graph"}
                        /\ \/ q.kind \in Placing /\ q.mod = m /\ q.serial = installs'
                              /\ installs' = installs + 1
                           \/ q.kind \notin Placing /\ installs' \in {installs, installs + 1}
  <2>1. ASSUME NEW kind \in {"install", "restore"}, installs' = installs + 1
        PROVE  Fits([Idle EXCEPT !.pc = "clear", !.kind = kind, !.mod = m, !.serial = installs'])
    BY <1>0, <2>1 DEF Records, Placing
  <2>2. ASSUME NEW kind \in Asked, installs' = installs
        PROVE  Fits([Idle EXCEPT !.pc = "resolve", !.kind = kind, !.mod = m])
    <3>1. kind \notin {"start", "graph"} /\ kind \notin Placing
      BY DEF Asked, Placing
    <3> QED BY <1>0, <2>2, <3>1 DEF Records
  <2> HIDE DEF Fits
  <2>3. CASE Install(s, m)
    <3> DEFINE q == [Idle EXCEPT !.pc = "clear", !.kind = "install", !.mod = m,
                                 !.serial = installs']
    <3>1. Arrive(s, q) /\ Fits(q)
      BY <2>1, <2>3 DEF Install
    <3> HIDE DEF q
    <3> QED BY <3>1 DEF Fits
  <2>4. CASE Restore(s, m)
    <3> DEFINE q == [Idle EXCEPT !.pc = "clear", !.kind = "restore", !.mod = m,
                                 !.serial = installs']
    <3>1. Arrive(s, q) /\ Fits(q)
      BY <2>1, <2>4 DEF Restore
    <3> HIDE DEF q
    <3> QED BY <3>1 DEF Fits
  <2>5. CASE \E kind \in Asked : Ask(s, m, kind)
    <3>1. PICK kind \in Asked : Ask(s, m, kind)
      BY <2>5
    <3> DEFINE q == [Idle EXCEPT !.pc = "resolve", !.kind = kind, !.mod = m]
    <3>2. Arrive(s, q) /\ Fits(q)
      BY <2>2, <3>1 DEF Ask
    <3> HIDE DEF q
    <3> QED BY <3>2 DEF Fits
  <2>6. CASE List(s)
    <3> DEFINE q == [Idle EXCEPT !.pc = "list", !.kind = "list", !.task = "list",
                                 !.todo = {n \in Modules : registry[n] = 0}]
    <3>1. Arrive(s, q) /\ installs' = installs
      BY <2>6 DEF List
    <3>2. Fits(q)
      BY <1>0, <3>1 DEF Records, Placing, Fits
    <3> HIDE DEF q
    <3> QED BY <3>1, <3>2 DEF Fits
  <2> QED BY <2>3, <2>4, <2>5, <2>6
<1>2. job'[s] = q /\ (\A k \in Jobs \ {s} : job'[k] = job[k])
      /\ UNCHANGED <<disk, pass, paused, registry>>
  BY <1>0, <1>1, Lands DEF Arrive, memory
<1>3. ASSUME NEW k \in Jobs PROVE Orderly(k)'
  <2>1. CASE k = s
    BY <1>1, <1>2, <2>1, OutOrderly
  <2>2. CASE k # s
    BY <1>2, <2>2, StillOrderly DEF PauseInv
  <2> QED BY <2>1, <2>2
<1>4. ASSUME NEW k \in Jobs
      PROVE  /\ \A n \in Modules : job'[k].entries[n] \in {0, job[k].entries[n]}
             /\ job'[k].kind \in Placing =>
                  \/ job[k].kind \in Placing /\ job'[k].mod = job[k].mod
                     /\ job'[k].serial = job[k].serial
                  \/ job'[k].mod = m /\ job'[k].serial = installs' /\ installs' = installs + 1
  BY <1>1, <1>2 DEF Unread
<1>5. OneOwner'
  <2>1. CASE installs' = installs + 1
    BY <1>2, <1>4, <2>1, NewOwner DEF PauseInv
  <2>2. CASE installs' # installs + 1
    <3>1. installs' = installs
      BY <1>1, <2>2
    <3> QED BY <1>2, <1>4, <2>2, <3>1, SameOwners DEF PauseInv
  <2> QED BY <2>1, <2>2
<1> QED BY <1>3, <1>5

LEMMA RestartPause ==
  ASSUME PauseInv, Restart
  PROVE  (\A k \in Jobs : Orderly(k)') /\ OneOwner'
<1>1. job' = [j \in Jobs |-> IF j = "graph" THEN Starting ELSE Idle]
      /\ UNCHANGED <<disk, installs>>
  BY DEF Restart, packages
<1>2. Idle.pc = "idle" /\ Idle.quiet = {} /\ Idle.seen = {} /\ Idle.entries = Unread
      /\ Idle.kind = "none"
  BY DEF Idle
<1>3. Starting.pc = "boot" /\ Starting.quiet = {} /\ Starting.seen = {}
      /\ Starting.entries = Unread /\ Starting.kind = "start"
  BY DEF Starting, Idle
<1>4. ASSUME NEW k \in Jobs PROVE Orderly(k)'
  BY <1>1, <1>2, <1>3, OutOrderly
<1>5. ASSUME NEW k \in Jobs
      PROVE  (\A n \in Modules : job'[k].entries[n] = 0) /\ job'[k].kind \notin Placing
  BY <1>1, <1>2, <1>3 DEF Unread, Placing
<1>6. OneOwner'
  BY <1>1, <1>5, SameOwners DEF PauseInv
<1> QED BY <1>4, <1>6

LEMMA PauseInit == Init => PauseInv
<1> SUFFICES ASSUME Init PROVE PauseInv
  OBVIOUS
<1>1. ASSUME NEW k \in Jobs
      PROVE  /\ job[k].pc \in {"boot", "idle"} /\ job[k].quiet = {} /\ job[k].seen = {}
             /\ job[k].kind \notin Placing \cup {"graph"}
             /\ job[k].kind = "start" => k = "graph"
             /\ \A n \in Modules : job[k].entries[n] = 0
  BY DEF Init, Starting, Idle, Unread, Placing
<1>2. \A k \in Jobs : Orderly(k)
  BY <1>1 DEF Orderly, OnePass, Fresh, QuietPaused, GraphSyncs, ImportsUnpaused, OutOrRefused,
              Syncs, InPass, Init
<1>3. OneOwner
  <2> DEFINE own == [s \in Serials |-> CHOOSE m \in Modules : TRUE]
  <2>1. own \in [Serials -> Modules]
    OBVIOUS
  <2>2. \A m \in Modules : ~Is(m)
    BY DEF Init, Is
  <2> HIDE DEF own
  <2>3. Owned(own)
    BY <1>1, <2>2 DEF Owned
  <2> QED BY <2>1, <2>3 DEF OneOwner
<1> QED BY <1>2, <1>3, InitTyped DEF PauseInv

LEMMA PauseStep == PauseInv /\ [Next]_vars => PauseInv'
<1> SUFFICES ASSUME PauseInv, [Next]_vars PROVE (\A k \in Jobs : Orderly(k)') /\ OneOwner'
  BY TypeStep DEF PauseInv
<1>0. TypeInv /\ OneOwner /\ \A k \in Jobs : Orderly(k)
  BY DEF PauseInv
<1>1. ASSUME NEW m \in Origins, Bootstrap(m) \/ BootstrapFails(m)
      PROVE  (\A k \in Jobs : Orderly(k)') /\ OneOwner'
  BY <1>1, BootPause
<1>2. CASE BootUnread \/ Booted \/ Graph
  BY <1>2, BootUnreadPause, GraphPause
<1>3. CASE Admin
  BY <1>3, ArrivePause DEF Admin, Asked
<1>4. ASSUME NEW j \in Jobs, Step(j) \/ Fault(j)
      PROVE  (\A k \in Jobs : Orderly(k)') /\ OneOwner'
  <2>1. OneOwner'
    BY <1>0, <1>4, OwnerStep
  <2>2. CASE Outside(j)
    BY <1>0, <2>1, <2>2, OutsideOrderly
  <2>3. CASE PassStep(j)
    BY <1>0, <2>1, <2>3, StartPassOrderly, ScanOrderly, SiftOrderly, LoadOrderly, ImportOrderly,
       EndPassOrderly DEF PassStep
  <2>4. CASE ListStep(j)
    BY <1>0, <2>1, <2>4, ListingOrderly
  <2> QED BY <1>4, <2>2, <2>3, <2>4 DEF Outside, Step
<1>5. CASE Restart
  BY <1>5, RestartPause
<1>6. CASE UNCHANGED vars
  <2>1. UNCHANGED <<job, disk, installs, pass, paused, registry>>
    BY <1>6 DEF vars, packages, memory
  <2> QED BY <1>0, <2>1, StillOrderly, SameOwners
<1> QED BY <1>1, <1>2, <1>3, <1>4, <1>5, <1>6 DEF Next

(* A graph ends its pass with nothing in the registry of what was on pause. *)
LEMMA GraphEnds ==
  ASSUME PauseInv, [Next]_vars, NEW j \in Jobs,
         job[j].pc = "load", job[j].kind = "graph", job'[j].pc = "idle", pass' # pass,
         NEW m \in job[j].quiet \cap job[j].seen
  PROVE  registry[m] = 0
<1>0. TypeInv /\ (\A k \in Jobs : Orderly(k)) /\ job[j].task = "sync" /\ j = "graph"
      /\ pass = j /\ m \in Modules /\ "graph" \in Jobs
  BY GraphIsJob, NotAt
  DEF PauseInv, Orderly, GraphSyncs, OnePass, InPass, Sound, Records
<1>1. CASE EndPass(j)
  <2>1. job[j].entries[m] = 0
    BY <1>0, <1>1 DEF EndPass, Unread
  <2> QED BY <1>0, <2>1 DEF Orderly, OutOrRefused, Syncs, InPass
<1>2. ASSUME NEW k \in Jobs, Step(k) \/ Fault(k), ~EndPass(j) PROVE FALSE
  <2>1. k # j => job'[j].pc = job[j].pc
    BY <1>0, <1>2, OthersKeep DEF Keeps
  <2>2. k = j /\ ~Outside(j) /\ ~ListStep(j)
    BY <1>0, <1>2, <2>1, OutsideMild, Listings DEF Listing, InPass
  <2>3. pass' = pass
    BY <1>2, <2>2 DEF Step, Outside, PassStep, StartPass, Sift, Scan, Load, Import
  <2> QED BY <2>3
<1>3. ASSUME NEW o \in Origins, Bootstrap(o) \/ BootstrapFails(o) PROVE FALSE
  BY <1>3 DEF Bootstrap, BootstrapFails
<1>4. CASE BootUnread \/ Booted \/ Graph \/ UNCHANGED vars
  BY <1>4 DEF BootUnread, Booted, Graph, vars
<1>5. ASSUME Admin PROVE FALSE
  <2>1. pass' = pass
    BY <1>5 DEF Admin, Install, Restore, Ask, List, Arrive
  <2> QED BY <2>1
<1>6. ASSUME Restart PROVE FALSE
  <2>1. job'["graph"] = Starting
    BY <1>0, <1>6 DEF Restart
  <2> QED BY <1>0, <2>1 DEF Starting, Idle
<1> QED BY <1>1, <1>2, <1>3, <1>4, <1>5, <1>6 DEF Next

(* loader.ts:182-184: for any modules and requests, however many loads for the
   administration cross its pass, a graph collects nothing from a module that
   was on pause since before the pass. *)
THEOREM PausedStay == Spec => PausedStaysOut
<1> DEFINE Out == \A j \in Jobs :
      /\ job[j].pc = "load" /\ job[j].kind = "graph" /\ job'[j].pc = "idle"
      /\ pass' # pass
      => \A m \in job[j].quiet \cap job[j].seen : registry[m] = 0
<1>1. PauseInv /\ [Next]_vars => [Out]_vars
  BY GraphEnds
<1> QED BY PauseInit, PauseStep, <1>1, PTL DEF Spec, PausedStaysOut
=============================================================================
